SPECIFICATION Spec
CONSTANTS
    Absent = Absent
    BlobClients = {Tester, Other}
    BlobKeys <- TestKeys
    Chunks = {"a", "b", "c", "bytes"}
    Sources <- TestSources
    NoType = ""
    Nil = Nil
    Tester = Tester
    Goroutines = {"ctrl-A", "ctrl-B", "ctrl-C", "ctrl-D", "ctrl-E", "ctrl-F", "ctrl-G", "ctrl-H", "ctrl-I", "ctrl-J"}
    MinPause = 1
    MaxPause = 2
    Short = 4
    Nap = 8
    Long = 12
INVARIANTS TestsPass OnlyWholePuts
