----------------------------- MODULE NoopIngress -----------------------------
(***************************************************************************)
(* The no-op IngressProvider (provider/ingress/noop): a map from a VM to   *)
(* its endpoint behind one lock.  Every method is one step.                *)
(***************************************************************************)
CONSTANTS EndpointVMs, Absent

VARIABLE endpoints      \* Provider.endpoints

-----------------------------------------------------------------------------

IInit == endpoints = [v \in EndpointVMs |-> Absent]

HasEndpoint(v) == endpoints[v] # Absent

(* The endpoint is stored and returned. *)
NewEndpoint(v, host, port) == [vm |-> v, host |-> host, port |-> port]

RegisterEndpoint(v, host, port) ==
    endpoints' = [endpoints EXCEPT ![v] = NewEndpoint(v, host, port)]

(* It succeeds even if there is none. *)
UnregisterEndpoint(v) == endpoints' = [endpoints EXCEPT ![v] = Absent]
=============================================================================
