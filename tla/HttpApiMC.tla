------------------------------ MODULE HttpApiMC ------------------------------
(* Small instances of HttpApi for TLC. *)
EXTENDS HttpApi, TLC

CONSTANTS A, B, Empty, k1, k2, v1

(* Every route; the key of a stop is used for a deletion, with the same    *)
(* empty body, and for a registration too.                                 *)
EveryRoute == [op : {"CreateVM"}, target : {NoID}, body : {A, Malformed}, key : {k1}]
          \cup [op : {"GetVM", "DeleteVM"}, target : {v1} \cup (VMIDs \ FreshIDs),
                body : {Empty}, key : {NoKey}]
          \cup [op : {"StopVM", "DeleteVM"}, target : {v1}, body : {Empty}, key : {k2}]
          \cup [op : {"RegisterController"}, target : ControllerIDs, body : {A}, key : {k2}]
          \cup [op : {"Heartbeat"}, target : ControllerIDs, body : {B, Malformed}, key : {NoKey}]

(* Create with one body under one key. *)
Retried == [op : {"CreateVM"}, target : {NoID}, body : {A}, key : {k1}]

Symmetric == Permutations(Requests)
=============================================================================
