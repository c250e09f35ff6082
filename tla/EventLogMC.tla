----------------------------- MODULE EventLogMC -----------------------------
(* Events of two VMs and two types, and filters on nothing, one or both. *)
EXTENDS EventLog

CONSTANTS v1, v2

Created == [vm |-> v1, type |-> "vm.created"]

Stopped == [vm |-> v2, type |-> "vm.stop_requested"]

SomeKinds == {Created, Stopped}

SomeWants == {<< >>, [vm |-> v1], [vm |-> v2, type |-> "vm.stop_requested"]}

SomeLimits == {NoNumber, -1, 0, 1, MaxListLimit, MaxListLimit + 1}
=============================================================================
