SPECIFICATION FairSpec
CONSTANTS
    Clients = {c1, c2}
    Topics = {t1, t2}
    JobIDs = {j1, j2}
    NoTopic = NoTopic
    MaxDelay = 1
    MaxDeliveries = 2
INVARIANTS TypeOK IndexMatchesTopics NoJobLost ExclusiveLease LeaseBacked FirstDeliveryInOrder
PROPERTIES OrderKept ImplementsWorkQueue EveryJobAcknowledged
