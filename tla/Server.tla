-------------------------------- MODULE Server --------------------------------
(***************************************************************************)
(* The life of the flames-api process (cmd/flames-api/main.go): the main   *)
(* goroutine serves, a second one waits for SIGINT or SIGTERM and shuts    *)
(* the server down.  What net/http and the Go runtime do is modelled from  *)
(* how main uses them: Shutdown closes the listener, whereupon             *)
(* ListenAndServe returns ErrServerClosed at once, and then waits for the  *)
(* requests under way, at most until its context times out; when main      *)
(* returns the process ends, with whatever still runs in it.               *)
(***************************************************************************)
CONSTANTS Requests      \* the requests that may come in

VARIABLES
    main,       \* the main goroutine, or how the process ended
    watcher,    \* the goroutine that waits for a signal
    signalled,  \* a signal is in sigCh
    timedOut,   \* the 10 seconds of the shutdown context are over
    req         \* what became of each request

vars == <<main, watcher, signalled, timedOut, req>>

-----------------------------------------------------------------------------

Init == /\ main = "starting"
        /\ watcher = "starting"
        /\ signalled = FALSE
        /\ timedOut = FALSE
        /\ req = [r \in Requests |-> "none"]

Alive == main \in {"starting", "listening"}

Active == {r \in Requests : req[r] = "active"}

(* Shutdown has been called. *)
Closing == watcher \in {"draining", "returned"}

(* The process ends and cuts off every request under way. *)
End(how) == /\ main' = how
            /\ req' = [r \in Requests |-> IF req[r] = "active" THEN "cut" ELSE req[r]]

(* ListenAndServe binds the address, unless Shutdown was faster ... *)
Listen == /\ main = "starting"
          /\ ~ Closing
          /\ main' = "listening"
          /\ UNCHANGED <<watcher, signalled, timedOut, req>>

(* ... or cannot: log.Fatal. *)
ListenFails == /\ main = "starting"
               /\ ~ Closing
               /\ End("failed")
               /\ UNCHANGED <<watcher, signalled, timedOut>>

(* It may also stop while it serves, when the listener fails: log.Fatal    *)
(* ends the process with the requests under way.                           *)
ServeFails == /\ main = "listening"
              /\ ~ Closing
              /\ End("failed")
              /\ UNCHANGED <<watcher, signalled, timedOut>>

Accept(r) == /\ main = "listening"
             /\ ~ Closing
             /\ req[r] = "none"
             /\ req' = [req EXCEPT ![r] = "active"]
             /\ UNCHANGED <<main, watcher, signalled, timedOut>>

Complete(r) == /\ Alive
               /\ req[r] = "active"
               /\ req' = [req EXCEPT ![r] = "served"]
               /\ UNCHANGED <<main, watcher, signalled, timedOut>>

(* signal.Notify *)
Watch == /\ Alive
         /\ watcher = "starting"
         /\ watcher' = "waiting"
         /\ UNCHANGED <<main, signalled, timedOut, req>>

(* A signal comes: it is put in sigCh, which holds one, if Notify was      *)
(* called, and ends the process otherwise.                                 *)
Signal == /\ Alive
          /\ \/ /\ watcher = "starting"
                /\ End("killed")
                /\ UNCHANGED <<watcher, signalled, timedOut>>
             \/ /\ watcher # "starting"
                /\ ~ signalled
                /\ signalled' = TRUE
                /\ UNCHANGED <<main, watcher, timedOut, req>>

(* The watcher takes the signal and calls Shutdown. *)
Shutdown == /\ Alive
            /\ watcher = "waiting" /\ signalled
            /\ watcher' = "draining"
            /\ signalled' = FALSE
            /\ UNCHANGED <<main, timedOut, req>>

(* context.WithTimeout runs out. *)
TimeOut == /\ Alive
           /\ watcher = "draining" /\ ~ timedOut
           /\ timedOut' = TRUE
           /\ UNCHANGED <<main, watcher, signalled, req>>

(* Shutdown returns: everything is drained or the time is over. *)
Drained == /\ Alive
           /\ watcher = "draining"
           /\ Active = {} \/ timedOut
           /\ watcher' = "returned"
           /\ UNCHANGED <<main, signalled, timedOut, req>>

ReturnWhenIdle == Closing /\ Active = {}

(* ListenAndServe returns ErrServerClosed as soon as Shutdown was called.  *)
ListenReturns == Closing

(* ListenAndServe returns and so does main. *)
Return == /\ Alive
          /\ ListenReturns
          /\ End("exited")
          /\ UNCHANGED <<watcher, signalled, timedOut>>

(* The process is gone. *)
Gone == ~ Alive /\ UNCHANGED vars

Next == \/ Listen \/ ListenFails \/ ServeFails
        \/ \E r \in Requests : Accept(r) \/ Complete(r)
        \/ Watch \/ Signal \/ Shutdown \/ TimeOut \/ Drained \/ Return \/ Gone

Spec == Init /\ [][Next]_vars

(* The two goroutines and the clock go on.  Requests may hang. *)
FairSpec == /\ Spec
            /\ WF_vars(Listen \/ ListenFails) /\ WF_vars(Watch) /\ WF_vars(Shutdown)
            /\ WF_vars(TimeOut) /\ WF_vars(Drained) /\ WF_vars(Return)

-----------------------------------------------------------------------------

(* A signal ends the process, at whatever moment of the start it comes and *)
(* even if some request never finishes.                                    *)
EndsOnSignal == signalled ~> ~ Alive

(* "drain in-flight requests before exiting (timeout: 10 seconds)": the    *)
(* process exits with a request under way only if the time was over.       *)
ExitsDrained == main = "exited" /\ (\E r \in Requests : req[r] = "cut") => timedOut
=============================================================================
