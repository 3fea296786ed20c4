----------------------------- MODULE AtMostOnce -----------------------------
(***************************************************************************)
(* What a claimed or queued psrpc call promises its caller, with no        *)
(* message, timer or dispatcher in sight: at most one server executes it,  *)
(* a reply comes from an execution that finished, and a call refused       *)
(* before a server was chosen never executes.  A call that failed may have *)
(* executed, be executing, or execute later.                               *)
(***************************************************************************)
CONSTANTS Requests, Servers, NoServer

VARIABLES
    call,      \* call[r]: what the caller knows
    executor,  \* executor[r]: the server whose handler was called, or NoServer
    finished   \* finished[r]: that handler returned

vars == <<call, executor, finished>>

Init ==
    /\ call = [r \in Requests |-> "idle"]
    /\ executor = [r \in Requests |-> NoServer]
    /\ finished = [r \in Requests |-> FALSE]

Invoke(r) ==
    /\ call[r] = "idle"
    /\ call' = [call EXCEPT ![r] = "pending"]
    /\ UNCHANGED <<executor, finished>>

Start(r, s) ==
    /\ call[r] \notin {"idle", "refused"}
    /\ executor[r] = NoServer
    /\ executor' = [executor EXCEPT ![r] = s]
    /\ UNCHANGED <<call, finished>>

Finish(r) ==
    /\ executor[r] # NoServer
    /\ finished' = [finished EXCEPT ![r] = TRUE]
    /\ UNCHANGED <<call, executor>>

Reply(r) ==
    /\ call[r] = "pending" /\ finished[r]
    /\ call' = [call EXCEPT ![r] = "replied"]
    /\ UNCHANGED <<executor, finished>>

Fail(r) ==
    /\ call[r] \in {"idle", "pending"}
    /\ call' = [call EXCEPT ![r] = "failed"]
    /\ UNCHANGED <<executor, finished>>

Refuse(r) ==
    /\ call[r] \in {"idle", "pending"} /\ executor[r] = NoServer
    /\ call' = [call EXCEPT ![r] = "refused"]
    /\ UNCHANGED <<executor, finished>>

Next ==
    \E r \in Requests :
        \/ Invoke(r) \/ Finish(r) \/ Reply(r) \/ Fail(r) \/ Refuse(r)
        \/ \E s \in Servers : Start(r, s)

Spec == Init /\ [][Next]_vars
=============================================================================
