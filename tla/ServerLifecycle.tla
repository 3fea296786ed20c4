-------------------------- MODULE ServerLifecycle --------------------------
(***************************************************************************)
(* The handlers of one psrpc server: they are registered, serve requests,  *)
(* are deregistered and are closed with the server, all concurrently.      *)
(*                                                                         *)
(*   pkg/server/server.go   RegisterHandler, RegisterStreamHandler,        *)
(*                          DeregisterHandler, Close                       *)
(*   pkg/server/rpc.go      newRPCHandler, run, handleRequest, close       *)
(*   pkg/server/stream.go   newStreamRPCHandler, run, handleRequest,       *)
(*                          handleOpenRequest, close                       *)
(*                                                                         *)
(* A handler is named by the RegisterHandler call that creates it.  What a *)
(* request goes through inside handleRequest is in UnaryRpc; here it is    *)
(* counted by the handling WaitGroup, and ends.  The handlers of streams   *)
(* are registered by the same steps; a request of theirs is an Open, and   *)
(* handling holds the streams of their map.  What a stream goes through is *)
(* in Stream: here it is in the map until its Close is over.               *)
(*                                                                         *)
(* Outside the repository: a sync.WaitGroup, whose Wait panics when it was *)
(* woken and finds the counter raised again; and core.Fuse, whose Once     *)
(* breaks the fuse before or after it runs its function.                   *)
(***************************************************************************)
EXTENDS Integers, FiniteSets

CONSTANTS
    Handlers,   \* the RegisterHandler calls, and the handlers they create
    Key,        \* Key[h]: the handler key, from the method and the topic
    Closers,    \* the calls of Close
    Forced,      \* Forced[c]: its argument
    Removers,   \* the calls of DeregisterHandler
    Removed,    \* Removed[d]: its handler key
    Requests,
    Target,     \* Target[q]: the handler key the request is for
    None

Keys == {Key[h] : h \in Handlers}

ASSUME ServerLifecycleAssumption ==
    /\ IsFiniteSet(Handlers) /\ None \notin Handlers
    /\ {"none", "done"} \cap Closers = {}
    /\ \A c \in Closers : Forced[c] \in BOOLEAN
    /\ \A d \in Removers : Removed[d] \in Keys
    /\ \A q \in Requests : Target[q] \in Keys

VARIABLES
    streaming,   \* the handlers are those of streams
    broken,      \* the shutdown fuse
    once,        \* shutdown.Once: "none", the closer that runs it, or "done"
    handlers,    \* handlers[k]
    active,      \* the counter of the active WaitGroup
    reg,         \* reg[h]: where RegisterHandler is, then whether the loop runs
    subscribed,  \* the handlers whose requestSub is open
    inbox,       \* inbox[h]: the requests requestSub has buffered
    spawned,     \* spawned[h]: those whose goroutine has not reached handling.Add
    handling,    \* handling[h]: those it counts, or the streams in the map
    ending,      \* ending[h]: those of them whose Close has begun
    hpc,         \* hpc[h]: where the closeOnce of h is
    force,       \* force[h]: and the argument it runs with
    cpc,         \* cpc[c]: where Close is
    snapshot,    \* snapshot[c]: the handlers it closes
    dpc,         \* dpc[d]: where DeregisterHandler is
    found,       \* found[d]: the handler it closes
    panicked,    \* the process has ended
    \* history
    sent,        \* the requests published
    before,      \* before[h]: those in handling[h] that closeOnce has to wait for
    racing,      \* racing[h]: those not yet in the map of streams when it read it
    owed,        \* owed[c]: the handlers counted when c was called
    raced        \* the handlers registered while another of their key was

registerVars == <<active, reg, subscribed>>
requestVars == <<inbox, spawned, handling, ending, sent>>
serverVars == <<streaming, broken, once, handlers>>
handlerVars == <<hpc, force, before, racing>>
callVars == <<cpc, snapshot, owed, dpc, found>>
vars == <<registerVars, requestVars, serverVars, handlerVars, callVars, panicked, raced>>

Init ==
    /\ streaming \in BOOLEAN
    /\ broken = FALSE
    /\ once = "none"
    /\ handlers = [k \in Keys |-> None]
    /\ active = 0
    /\ reg = [h \in Handlers |-> "idle"]
    /\ subscribed = {}
    /\ inbox = [h \in Handlers |-> {}]
    /\ spawned = [h \in Handlers |-> {}]
    /\ handling = [h \in Handlers |-> {}]
    /\ hpc = [h \in Handlers |-> "open"]
    /\ force = [h \in Handlers |-> FALSE]
    /\ cpc = [c \in Closers |-> "idle"]
    /\ snapshot = [c \in Closers |-> {}]
    /\ dpc = [d \in Removers |-> "idle"]
    /\ found = [d \in Removers |-> None]
    /\ panicked = FALSE
    /\ sent = {}
    /\ before = [h \in Handlers |-> {}]
    /\ ending = [h \in Handlers |-> {}]
    /\ racing = [h \in Handlers |-> {}]
    /\ owed = [c \in Closers |-> {}]
    /\ raced = {}

----------------------------------------------------------------------------
\* RegisterHandler.

CheckShutdown(h) ==
    /\ ~panicked /\ reg[h] = "idle"
    /\ reg' = [reg EXCEPT ![h] = IF broken THEN "refused" ELSE "checking"]
    /\ UNCHANGED <<active, subscribed, requestVars, serverVars, handlerVars, callVars,
                   panicked, raced>>

Rivals(h) ==
    {g \in Handlers \ {h} : Key[g] = Key[h] /\ reg[g] \in {"vacant", "created", "counted"}}

\* Mutant of CheckVacant: what the look-up finds is dropped.
CheckNothing(h) ==
    /\ ~panicked /\ reg[h] = "checking"
    /\ reg' = [reg EXCEPT ![h] = "vacant"]
    /\ raced' = IF Rivals(h) = {} THEN raced ELSE raced \cup Rivals(h) \cup {h}
    /\ UNCHANGED <<active, subscribed, requestVars, serverVars, handlerVars, callVars,
                   panicked>>

\* The look-up releases the lock: the key may be taken before the insertion.
CheckVacant(h) ==
    /\ ~panicked /\ reg[h] = "checking"
    /\ IF handlers[Key[h]] # None
       THEN reg' = [reg EXCEPT ![h] = "refused"] /\ UNCHANGED raced
       ELSE /\ reg' = [reg EXCEPT ![h] = "vacant"]
            /\ raced' = IF Rivals(h) = {} THEN raced ELSE raced \cup Rivals(h) \cup {h}
    /\ UNCHANGED <<active, subscribed, requestVars, serverVars, handlerVars, callVars,
                   panicked>>

Subscribes(h) ==
    /\ ~panicked /\ reg[h] = "vacant"
    /\ \/ /\ reg' = [reg EXCEPT ![h] = "created"]
          /\ subscribed' = subscribed \cup {h}
       \/ reg' = [reg EXCEPT ![h] = "refused"] /\ UNCHANGED subscribed
    /\ UNCHANGED <<active, requestVars, serverVars, handlerVars, callVars, panicked, raced>>

\* newRPCHandler: it fails if one of its subscriptions does, and leaves none.
Create(h) == ~streaming /\ Subscribes(h)

\* newStreamRPCHandler does the same with those of streams.
CreateStream(h) == streaming /\ Subscribes(h)

Count(h) ==
    /\ ~panicked /\ reg[h] = "created"
    /\ active' = active + 1
    /\ reg' = [reg EXCEPT ![h] = "counted"]
    /\ UNCHANGED <<subscribed, requestVars, serverVars, handlerVars, callVars, panicked,
                   raced>>

Insert(h) ==
    /\ ~panicked /\ reg[h] = "counted"
    /\ handlers' = [handlers EXCEPT ![Key[h]] = h]
    /\ reg' = [reg EXCEPT ![h] = "inserted"]
    /\ UNCHANGED <<active, subscribed, requestVars, streaming, broken, once, handlerVars,
                   callVars, panicked, raced>>

Run(h) ==
    /\ ~panicked /\ reg[h] = "inserted"
    /\ reg' = [reg EXCEPT ![h] = "running"]
    /\ UNCHANGED <<active, subscribed, requestVars, serverVars, handlerVars, callVars,
                   panicked, raced>>

----------------------------------------------------------------------------
\* Requests.

Arrive(q) ==
    /\ ~panicked /\ q \notin sent
    /\ sent' = sent \cup {q}
    /\ inbox' = [h \in Handlers |->
          IF h \in subscribed /\ Key[h] = Target[q] THEN inbox[h] \cup {q} ELSE inbox[h]]
    /\ UNCHANGED <<registerVars, spawned, handling, ending, serverVars, handlerVars, callVars,
                   panicked, raced>>

\* Mutant of Take: the draining flag is not looked at.
TakeAny(h, q) ==
    /\ ~panicked /\ reg[h] = "running" /\ q \in inbox[h]
    /\ inbox' = [inbox EXCEPT ![h] = @ \ {q}]
    /\ spawned' = [spawned EXCEPT ![h] = @ \cup {q}]
    /\ UNCHANGED <<registerVars, handling, ending, sent, serverVars, handlerVars, callVars,
                   panicked, raced>>

\* The run loop reads what is buffered until it sees that h is complete, even
\* after the subscription was closed; what has expired is dropped, and an Open once
\* h is draining.
Take(h, q) ==
    /\ ~panicked /\ reg[h] = "running" /\ q \in inbox[h]
    /\ inbox' = [inbox EXCEPT ![h] = @ \ {q}]
    /\ \/ UNCHANGED spawned
       \/ /\ ~streaming \/ hpc[h] = "open"
          /\ spawned' = [spawned EXCEPT ![h] = @ \cup {q}]
    /\ UNCHANGED <<registerVars, handling, ending, sent, serverVars, handlerVars, callVars,
                   panicked, raced>>

LoopEnds(h) ==
    /\ ~panicked /\ reg[h] = "running" /\ hpc[h] = "complete"
    /\ reg' = [reg EXCEPT ![h] = "ended"]
    /\ UNCHANGED <<active, subscribed, requestVars, serverVars, handlerVars, callVars,
                   panicked, raced>>

\* handleRequest's first statement, in the goroutine of the request; or
\* handleOpenRequest, which puts a stream it has claimed in the map.
Begin(h, q) ==
    /\ ~panicked /\ q \in spawned[h]
    /\ spawned' = [spawned EXCEPT ![h] = @ \ {q}]
    /\ handling' = [handling EXCEPT ![h] = @ \cup {q}]
    /\ UNCHANGED <<registerVars, inbox, ending, sent, serverVars, handlerVars, callVars,
                   panicked, raced>>

\* The claim of a stream is refused or expires.
NotClaimed(h, q) ==
    /\ ~panicked /\ streaming /\ q \in spawned[h]
    /\ spawned' = [spawned EXCEPT ![h] = @ \ {q}]
    /\ UNCHANGED <<registerVars, inbox, handling, ending, sent, serverVars, handlerVars,
                   callVars, panicked, raced>>

\* The handler of a stream returns, its user or its peer closes it, or it could not
\* be acknowledged.
EndStream(h, q) ==
    /\ ~panicked /\ streaming /\ q \in handling[h] \ ending[h]
    /\ ending' = [ending EXCEPT ![h] = @ \cup {q}]
    /\ UNCHANGED <<registerVars, inbox, spawned, handling, sent, serverVars, handlerVars,
                   callVars, panicked, raced>>

\* What a close of h waits for.
Awaited(h) == IF streaming THEN before[h] ELSE Requests

\* A request is answered, or a stream's Close is over: the last wakes a close that
\* waits.
Finish(h, q) ==
    /\ ~panicked /\ q \in handling[h] /\ (streaming => q \in ending[h])
    /\ handling' = [handling EXCEPT ![h] = @ \ {q}]
    /\ ending' = [ending EXCEPT ![h] = @ \ {q}]
    /\ hpc' = [hpc EXCEPT ![h] =
          IF @ = "waiting" /\ Awaited(h) \cap handling'[h] = {} THEN "woken" ELSE @]
    /\ UNCHANGED <<registerVars, inbox, spawned, sent, serverVars, force, before, racing,
                   callVars, panicked, raced>>

----------------------------------------------------------------------------
\* The handler's close.

\* The forces of the calls of close that are under way.
CloseCalls(h) ==
    {Forced[c] : c \in {c \in Closers : cpc[c] = "closing" /\ h \in snapshot[c]}}
    \cup {TRUE : d \in {d \in Removers : dpc[d] = "closing" /\ found[d] = h}}

\* One of them runs closeOnce, the others wait for it.  It stops the requests, or
\* has the Opens dropped.
CloseOnce(h) ==
    /\ ~panicked /\ hpc[h] = "open"
    /\ \E f \in CloseCalls(h) : force' = [force EXCEPT ![h] = f]
    /\ hpc' = [hpc EXCEPT ![h] = "draining"]
    /\ before' = [before EXCEPT ![h] = handling[h]]
    /\ subscribed' = IF streaming THEN subscribed ELSE subscribed \ {h}
    /\ UNCHANGED <<active, reg, requestVars, serverVars, racing, callVars, panicked, raced>>

\* Mutant of Drain: it never waits.
DrainAtOnce(h) ==
    /\ ~panicked /\ ~streaming /\ hpc[h] = "draining"
    /\ hpc' = [hpc EXCEPT ![h] = "drained"]
    /\ UNCHANGED <<registerVars, requestVars, serverVars, force, before, racing, callVars,
                   panicked, raced>>

\* handling.Wait, unless forced.
Drain(h) ==
    /\ ~panicked /\ ~streaming /\ hpc[h] = "draining"
    /\ hpc' = [hpc EXCEPT ![h] =
                  IF force[h] \/ handling[h] = {} THEN "drained" ELSE "waiting"]
    /\ UNCHANGED <<registerVars, requestVars, serverVars, force, before, racing, callVars,
                   panicked, raced>>

\* The streams there are now are closed, forced or not, and those Closes waited for
\* that find their stream open.
DrainStreams(h) ==
    /\ ~panicked /\ streaming /\ hpc[h] = "draining"
    /\ before' = [before EXCEPT ![h] = handling[h] \ ending[h]]
    /\ racing' = [racing EXCEPT ![h] = spawned[h]]
    /\ ending' = [ending EXCEPT ![h] = handling[h]]
    /\ hpc' = [hpc EXCEPT ![h] = IF before'[h] = {} THEN "drained" ELSE "waiting"]
    /\ UNCHANGED <<registerVars, inbox, spawned, handling, sent, serverVars, force, callVars,
                   panicked, raced>>

\* The WaitGroup of the streams' Closes is this close's own.
Drained(h) ==
    /\ ~panicked /\ hpc[h] = "woken"
    /\ hpc' = [hpc EXCEPT ![h] = "drained"]
    /\ panicked' = (Awaited(h) \cap handling[h] # {})
    /\ UNCHANGED <<registerVars, requestVars, serverVars, force, before, racing, callVars,
                   raced>>

\* Mutant of Release: active.Done does not come.
ReleaseSilently(h) ==
    /\ ~panicked /\ hpc[h] = "drained"
    /\ hpc' = [hpc EXCEPT ![h] = "released"]
    /\ subscribed' = subscribed \ {h}
    /\ UNCHANGED <<active, reg, requestVars, serverVars, force, before, racing, callVars,
                   panicked, raced>>

\* A stream handler's subscriptions end here; then onCompleted: active.Done, and only
\* then the deletion.
Release(h) ==
    /\ ~panicked /\ hpc[h] = "drained"
    /\ hpc' = [hpc EXCEPT ![h] = "released"]
    /\ subscribed' = subscribed \ {h}
    /\ active' = active - 1
    /\ cpc' = [c \in Closers |->
          IF cpc[c] = "waiting" /\ active' = 0 THEN "woken" ELSE cpc[c]]
    /\ UNCHANGED <<reg, requestVars, serverVars, force, before, racing, snapshot, owed, dpc,
                   found, panicked, raced>>

\* Mutant of Remove: the handler stays in the map.
RemoveNone(h) ==
    /\ ~panicked /\ hpc[h] = "released"
    /\ hpc' = [hpc EXCEPT ![h] = "complete"]
    /\ UNCHANGED <<registerVars, requestVars, serverVars, force, before, racing, callVars,
                   panicked, raced>>

\* Whatever handler the key has now is deleted.
Remove(h) ==
    /\ ~panicked /\ hpc[h] = "released"
    /\ handlers' = [handlers EXCEPT ![Key[h]] = None]
    /\ hpc' = [hpc EXCEPT ![h] = "complete"]
    /\ UNCHANGED <<registerVars, requestVars, streaming, broken, once, force,
                   before, racing, callVars, panicked, raced>>

----------------------------------------------------------------------------
\* DeregisterHandler.

Deregister(d) ==
    /\ ~panicked /\ dpc[d] = "idle"
    /\ found' = [found EXCEPT ![d] = handlers[Removed[d]]]
    /\ dpc' = [dpc EXCEPT ![d] = IF found'[d] = None THEN "returned" ELSE "closing"]
    /\ UNCHANGED <<registerVars, requestVars, serverVars, handlerVars, cpc, snapshot, owed,
                   panicked, raced>>

Deregistered(d) ==
    /\ ~panicked /\ dpc[d] = "closing" /\ hpc[found[d]] = "complete"
    /\ dpc' = [dpc EXCEPT ![d] = "returned"]
    /\ UNCHANGED <<registerVars, requestVars, serverVars, handlerVars, cpc, snapshot, owed,
                   found, panicked, raced>>

----------------------------------------------------------------------------
\* Close.

Counted == {h \in Handlers : /\ reg[h] \in {"counted", "inserted", "running", "ended"}
                             /\ hpc[h] \notin {"released", "complete"}}

\* The first Close takes the handlers there are; Once has broken the fuse by now, or
\* will have at its end.
Close(c) ==
    /\ ~panicked /\ cpc[c] = "idle" /\ once = "none"
    /\ once' = c
    /\ broken' \in BOOLEAN
    /\ snapshot' = [snapshot EXCEPT ![c] = {handlers[k] : k \in Keys} \ {None}]
    /\ owed' = [owed EXCEPT ![c] = Counted]
    /\ cpc' = [cpc EXCEPT ![c] = "closing"]
    /\ UNCHANGED <<registerVars, requestVars, streaming, handlers, handlerVars, dpc, found,
                   panicked, raced>>

\* Mutant of AwaitActive: a Close that finds the server closed returns.
ReturnAtOnce(c) ==
    /\ cpc' = [cpc EXCEPT ![c] = "returned"]
    /\ UNCHANGED <<registerVars, requestVars, streaming, handlers, handlerVars, dpc, found,
                   panicked, raced>>

\* active.Wait, unless forced.
AwaitActive(c) ==
    /\ cpc' = [cpc EXCEPT ![c] = IF Forced[c] \/ active = 0 THEN "returned" ELSE "waiting"]
    /\ UNCHANGED <<registerVars, requestVars, streaming, handlers, handlerVars, dpc, found,
                   panicked, raced>>

HandlersClosed(c) ==
    /\ ~panicked /\ cpc[c] = "closing" /\ \A h \in snapshot[c] : hpc[h] = "complete"
    /\ once' = "done" /\ broken' = TRUE
    /\ AwaitActive(c)
    /\ UNCHANGED <<snapshot, owed>>

\* A later Close waits for the first to end.
CloseAgain(c) ==
    /\ ~panicked /\ cpc[c] = "idle" /\ once = "done"
    /\ owed' = [owed EXCEPT ![c] = Counted]
    /\ AwaitActive(c)
    /\ UNCHANGED <<once, broken, snapshot>>

ActiveDone(c) ==
    /\ ~panicked /\ cpc[c] = "woken"
    /\ cpc' = [cpc EXCEPT ![c] = "returned"]
    /\ panicked' = (active # 0)
    /\ UNCHANGED <<registerVars, requestVars, serverVars, handlerVars, snapshot, owed, dpc,
                   found, raced>>

----------------------------------------------------------------------------
RegisterNext(h) ==
    CheckShutdown(h) \/ CheckVacant(h) \/ Create(h) \/ CreateStream(h) \/ Count(h)
    \/ Insert(h) \/ Run(h)

RequestNext(h, q) ==
    Take(h, q) \/ Begin(h, q) \/ NotClaimed(h, q) \/ EndStream(h, q) \/ Finish(h, q)

HandlerCloseNext(h) ==
    CloseOnce(h) \/ Drain(h) \/ DrainStreams(h) \/ Drained(h) \/ Release(h) \/ Remove(h)
    \/ LoopEnds(h)

RemoverNext(d) == Deregister(d) \/ Deregistered(d)

CloserNext(c) == Close(c) \/ HandlersClosed(c) \/ CloseAgain(c) \/ ActiveDone(c)

Next ==
    \/ \E h \in Handlers : RegisterNext(h) \/ HandlerCloseNext(h)
    \/ \E q \in Requests : Arrive(q) \/ \E h \in Handlers : RequestNext(h, q)
    \/ \E d \in Removers : RemoverNext(d)
    \/ \E c \in Closers : CloserNext(c)

Spec == Init /\ [][Next]_vars

\* Goroutines run, a handler's function returns, as its context ends with the
\* request's deadline, and so does a stream's Close (ClosesAndSendsReturn of Stream).
\* No call has to be made, and no stream has to end by itself.
Fairness ==
    /\ \A h \in Handlers :
          /\ WF_vars(HandlerCloseNext(h))
          /\ WF_vars(Insert(h))
          /\ \A q \in Requests : WF_vars(Finish(h, q))
    /\ \A c \in Closers : WF_vars(HandlersClosed(c) \/ ActiveDone(c))

FairSpec == Spec /\ Fairness

----------------------------------------------------------------------------
\* Properties.

TypeOK ==
    /\ streaming \in BOOLEAN /\ broken \in BOOLEAN /\ panicked \in BOOLEAN
    /\ once \in {"none", "done"} \cup Closers
    /\ handlers \in [Keys -> Handlers \cup {None}]
    /\ active \in 0..Cardinality(Handlers)
    /\ reg \in [Handlers -> {"idle", "checking", "vacant", "created", "counted", "inserted",
                             "running", "ended", "refused"}]
    /\ subscribed \subseteq Handlers
    /\ \A f \in {inbox, spawned, handling, ending, before, racing} :
          f \in [Handlers -> SUBSET Requests]
    /\ hpc \in [Handlers -> {"open", "draining", "waiting", "woken", "drained", "released",
                             "complete"}]
    /\ force \in [Handlers -> BOOLEAN]
    /\ cpc \in [Closers -> {"idle", "closing", "waiting", "woken", "returned"}]
    /\ \A f \in {snapshot, owed} : f \in [Closers -> SUBSET Handlers]
    /\ dpc \in [Removers -> {"idle", "closing", "returned"}]
    /\ found \in [Removers -> Handlers \cup {None}]
    /\ sent \subseteq Requests /\ raced \subseteq Handlers

\* A handler closed without force, whoever else closes it, lets the requests it
\* had begun finish before it gives up its claims and its place; one of streams
\* lets the Closes it started finish, forced or not.
BegunRequestsFinish ==
    \A h \in Handlers :
        (streaming \/ ~force[h]) /\ hpc[h] \in {"drained", "released", "complete"} =>
            before[h] \cap handling[h] = {}

\* When a Close that waits returns, every handler that was registered when it
\* was called is off the bus, found in the map or not, closed by this call, by
\* another Close or by a DeregisterHandler.
ReturnedCloseIsDone ==
    \A c \in Closers :
        cpc[c] = "returned" /\ ~Forced[c] /\ ~panicked =>
            \A h \in owed[c] : h \notin subscribed /\ hpc[h] \in {"released", "complete"}

\* A handler that is gone never holds its key, which could not be registered
\* again; nor is one in the map that RegisterHandler did not count.
MapHoldsLiveHandlers ==
    /\ TypeOK
    /\ \A k \in Keys :
          handlers[k] # None =>
              /\ hpc[handlers[k]] # "complete"
              /\ reg[handlers[k]] \in {"inserted", "running"}

\* The streams that go on when their handler is gone, where nobody reads for them any
\* more, are those whose Open was let in before the handler drained and registered
\* after it read the map, and those already closing.
OnlyRacingOpensOutlive ==
    \A h \in Handlers :
        streaming /\ hpc[h] = "complete" => handling[h] \subseteq racing[h] \cup ending[h]

\* Registered, open, and neither in the map nor being closed: out of the reach of
\* Close and of DeregisterHandler.
Lost(h) ==
    /\ reg[h] \in {"inserted", "running"}
    /\ hpc[h] = "open" /\ CloseCalls(h) = {}
    /\ handlers[Key[h]] # h

\* A handler is lost only if two registrations of its key overlapped: one that
\* comes after the other is refused, and deregistering or closing a handler
\* never removes one that was registered since.
LostOnlyByRace ==
    \A h \in Handlers : Lost(h) => \E g \in raced : Key[g] = Key[h]

\* Registered after Close read the map.
Late(h) ==
    /\ reg[h] \in {"inserted", "running"}
    /\ hpc[h] = "open" /\ CloseCalls(h) = {}
    /\ once # "none"

\* A goroutine can go on: the guards of Fairness, and the calls that wait for a close.
CanGoOn ==
    \/ \E h \in Handlers :
          \/ hpc[h] = "open" /\ CloseCalls(h) # {}
          \/ hpc[h] \in {"draining", "woken", "drained", "released"}
          \/ reg[h] = "running" /\ hpc[h] = "complete"
          \/ reg[h] = "counted"
          \/ \E q \in handling[h] : streaming => q \in ending[h]
    \/ \E c \in Closers :
          \/ cpc[c] = "closing" /\ \A h \in snapshot[c] : hpc[h] = "complete"
          \/ cpc[c] = "woken"
    \/ \E d \in Removers : dpc[d] = "closing" /\ hpc[found[d]] = "complete"

\* h is registered and nobody closes it: its registration overlapped with another of its
\* key, or it came into the map after the server's Close had read it.
Overlooked(h) ==
    /\ reg[h] \in {"inserted", "running"} /\ hpc[h] = "open" /\ CloseCalls(h) = {}
    /\ \/ \E g \in raced : Key[g] = Key[h]
       \/ handlers[Key[h]] = h /\ once # "none" /\ \A c \in Closers : h \notin snapshot[c]

\* Left alone, each close of a handler that has begun is over, each DeregisterHandler has
\* returned, and each Close has, but for one that waits for a handler that is overlooked:
\* neither the drains of the handlers nor the counter of the server hold up anybody else.
AtRest ==
    ~panicked /\ ~CanGoOn =>
        /\ \A h \in Handlers : hpc[h] \in {"open", "complete"}
        /\ \A d \in Removers : dpc[d] # "closing"
        /\ \A c \in Closers :
              cpc[c] \in {"idle", "returned"}
              \/ (cpc[c] = "waiting" /\ \E h \in Handlers : Overlooked(h))

\* A Close returns, unless it waits for a handler that is lost or came late, or
\* the process panics.
CloseReturns ==
    \A c \in Closers :
        cpc[c] # "idle" ~>
            (cpc[c] = "returned" \/ panicked \/ \E h \in Handlers : Lost(h) \/ Late(h))

\* The README on Shutdown: "Close and wait for pending RPCs to complete".
ShutdownWaits ==
    \A c \in Closers, h \in Handlers :
        ~streaming /\ cpc[c] = "returned" /\ ~Forced[c] /\ h \in snapshot[c] => handling[h] = {}
=============================================================================
