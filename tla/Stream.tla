------------------------------- MODULE Stream -------------------------------
(***************************************************************************)
(* One psrpc stream, from the client that opens it to the server that      *)
(* accepts it: each end sends messages, acknowledges those it receives and *)
(* may close, while its peer does the same.                                *)
(*                                                                         *)
(*   internal/stream/stream.go   HandleStream, Ack, Recv, Send, Close      *)
(*   pkg/client/stream.go        OpenStream, runClientStream               *)
(*   pkg/server/stream.go        run, handleRequest, handleOpenRequest     *)
(*                                                                         *)
(* The choice of the server by claims is that of UnaryRpc and is left out, *)
(* as are the other streams that the two goroutines below also serve.  The *)
(* bus delivers in any order; one that is not reliable loses messages,     *)
(* those that arrive after their expiry among them, and fails to publish.  *)
(***************************************************************************)
EXTENDS Integers, Sequences, FiniteSets

CONSTANTS
    Messages,   \* what is sent
    From,       \* From[m]: the end that sends m
    Malformed,  \* the messages that their receiver cannot deserialize
    Size        \* ChannelSize, the buffer of recvChan

Ends == {"client", "server"}
Peer(e) == IF e = "client" THEN "server" ELSE "client"

Open == "open"  \* the request ID of the Open message

ASSUME StreamAssumption ==
    /\ IsFiniteSet(Messages) /\ Open \notin Messages
    /\ From \in [Messages -> Ends]
    /\ Malformed \subseteq Messages
    /\ Size \in Nat \ {0}

VARIABLES
    reliable,   \* the bus loses nothing
    net,        \* what the bus has not delivered
    opened,     \* opened[e]: OpenStream returned, the server's handler runs
    registered, \* registered[e]: the stream is in streamChannels, or in streams
    looping,    \* looping[e]: the goroutine that calls HandleStream goes on
    hand,       \* hand[e]: what it handles, and how far it is
    pending,    \* pending[e]: the WaitGroup's counter
    acks,       \* acks[e]: the keys of the map
    acked,      \* acked[e]: the ackChans closed
    closed,     \* closed[e]
    err,        \* err[e]
    canceled,   \* canceled[e]: the stream's context is done
    recvChan,   \* recvChan[e]: its buffer
    recvClosed, \* recvClosed[e]: it is closed
    spc,        \* spc[m]: where the Send of m is
    outcome,    \* outcome[m]: what it returned
    cpc,        \* cpc[e]: where the Close that closes e is
    malformed,  \* malformed[e]: the goroutine that closes it is to run
    observed,   \* observed[e]: how often the metrics interceptor reported OnStreamClose
    \* history
    received,   \* received[e]: what entered recvChan
    abandoned,  \* the context given to OpenStream was cancelled by its owner
    panicked    \* a send on a closed recvChan, or a second close of it

busVars == <<reliable, net>>
endVars == <<opened, registered, looping>>
closeVars == <<closed, err, canceled, recvClosed, cpc>>
sendVars == <<spc, outcome>>
chanVars == <<recvChan, received>>
vars == <<busVars, endVars, hand, pending, acks, acked, closeVars, sendVars, chanVars,
          malformed, observed, abandoned, panicked>>

Nothing == [stage |-> "idle"]

Init ==
    /\ reliable \in BOOLEAN
    /\ net = {[to |-> "server", body |-> "open", id |-> Open]}
    /\ opened = [e \in Ends |-> FALSE]
    /\ registered = [e \in Ends |-> e = "client"]
    /\ looping = [e \in Ends |-> TRUE]
    /\ hand = [e \in Ends |-> Nothing]
    /\ pending = [e \in Ends |-> 0]
    /\ acks = [e \in Ends |-> IF e = "client" THEN {Open} ELSE {}]
    /\ acked = [e \in Ends |-> {}]
    /\ closed = [e \in Ends |-> FALSE]
    /\ err = [e \in Ends |-> "none"]
    /\ canceled = [e \in Ends |-> FALSE]
    /\ recvChan = [e \in Ends |-> << >>]
    /\ recvClosed = [e \in Ends |-> FALSE]
    /\ spc = [m \in Messages |-> "idle"]
    /\ outcome = [m \in Messages |-> "none"]
    /\ cpc = [e \in Ends |-> "none"]
    /\ malformed = [e \in Ends |-> FALSE]
    /\ observed = [e \in Ends |-> 0]
    /\ received = [e \in Ends |-> {}]
    /\ abandoned = FALSE
    /\ panicked = FALSE

\* What e publishes is on its way to the peer.
Publish(e, body, id) == net' = net \cup {[to |-> Peer(e), body |-> body, id |-> id]}

----------------------------------------------------------------------------
\* Close, called by the stream's users and by its own goroutines.

\* Mutant of Observe: every Close is reported.
ObserveEach(e) == observed' = [observed EXCEPT ![e] = IF @ < 2 THEN @ + 1 ELSE @]

\* The metrics interceptor reports the first Close that goes through it.
Observe(e) == observed' = [observed EXCEPT ![e] = 1]

\* The first cause is kept.
SetClosed(e, cause) ==
    /\ closed' = [closed EXCEPT ![e] = TRUE]
    /\ err' = [err EXCEPT ![e] = cause]

\* Mutant of StartClose: the peer is not told.
StartCloseSilently(e, cause) ==
    /\ Observe(e)
    /\ IF closed[e]
       THEN UNCHANGED <<closeVars, net>>
       ELSE /\ SetClosed(e, cause)
            /\ cpc' = [cpc EXCEPT ![e] = "closing"]
            /\ UNCHANGED <<net, canceled, recvClosed>>

\* The interceptors come first, then setClosed lets one cause in; the peer is told, if
\* the bus does not fail.
StartClose(e, cause) ==
    /\ Observe(e)
    /\ IF closed[e]
       THEN UNCHANGED <<closeVars, net>>
       ELSE /\ SetClosed(e, cause)
            /\ cpc' = [cpc EXCEPT ![e] = "closing"]
            /\ Publish(e, "close", cause)
            /\ UNCHANGED <<canceled, recvClosed>>

\* Its user closes the stream, which may be closed; the server does when its handler
\* returns, or when it is closed itself.
Close(e) ==
    /\ opened[e]
    /\ StartClose(e, e)
    /\ UNCHANGED <<reliable, endVars, hand, pending, acks, acked, sendVars, chanVars,
                   malformed, abandoned, panicked>>

\* The goroutine started for a message that could not be deserialized.
CloseMalformed(e) ==
    /\ malformed[e]
    /\ malformed' = [malformed EXCEPT ![e] = FALSE]
    /\ StartClose(e, "malformed")
    /\ UNCHANGED <<reliable, endVars, hand, pending, acks, acked, sendVars, chanVars,
                   abandoned, panicked>>

\* runClientStream, when the context is done or the client is closed: from here
\* on it handles nothing.
CloseInLoop ==
    /\ looping["client"] /\ hand["client"] = Nothing
    /\ looping' = [looping EXCEPT !["client"] = FALSE]
    /\ \/ canceled["client"] /\ StartClose("client", "canceled")
       \/ StartClose("client", "client")
    /\ UNCHANGED <<reliable, opened, registered, hand, pending, acks, acked, sendVars,
                   chanVars, malformed, abandoned, panicked>>

\* The end of both ways to close.
Shut(e) ==
    /\ registered' = [registered EXCEPT ![e] = FALSE]
    /\ canceled' = [canceled EXCEPT ![e] = TRUE]
    /\ recvClosed' = [recvClosed EXCEPT ![e] = TRUE]
    /\ panicked' = (panicked \/ recvClosed[e])

\* Mutant of EndClose: pending.Wait is gone.
EndCloseAtOnce(e) ==
    /\ cpc[e] = "closing"
    /\ cpc' = [cpc EXCEPT ![e] = "returned"]
    /\ Shut(e)
    /\ UNCHANGED <<busVars, opened, looping, hand, pending, acks, acked, closed, err,
                   sendVars, chanVars, malformed, abandoned, observed>>

EndClose(e) ==
    /\ cpc[e] = "closing" /\ pending[e] = 0
    /\ cpc' = [cpc EXCEPT ![e] = "returned"]
    /\ Shut(e)
    /\ UNCHANGED <<busVars, opened, looping, hand, pending, acks, acked, closed, err,
                   sendVars, chanVars, malformed, abandoned, observed>>

\* The owner of the context given to OpenStream cancels it.
Cancel ==
    /\ ~canceled["client"]
    /\ canceled' = [canceled EXCEPT !["client"] = TRUE]
    /\ abandoned' = TRUE
    /\ UNCHANGED <<busVars, endVars, hand, pending, acks, acked, closed, err, recvClosed,
                   cpc, sendVars, chanVars, malformed, panicked, observed>>

----------------------------------------------------------------------------
\* Opening.

\* The server's goroutine for the Open message: the stream is registered, then
\* acknowledged, or closed if that fails.
Accept ==
    \E n \in net :
        /\ n.body = "open" /\ ~opened["server"]
        /\ opened' = [opened EXCEPT !["server"] = TRUE]
        /\ registered' = [registered EXCEPT !["server"] = TRUE]
        /\ \/ /\ net' = (net \ {n}) \cup {[to |-> "client", body |-> "ack", id |-> Open]}
              /\ UNCHANGED <<closeVars, observed>>
           \/ /\ ~reliable
              /\ StartClose("server", "internal")
        /\ UNCHANGED <<reliable, looping, hand, pending, acks, acked, sendVars, chanVars,
                       malformed, abandoned, panicked>>

\* OpenStream has its acknowledgement, and has not given up.
Opened ==
    /\ ~opened["client"] /\ Open \in acked["client"] /\ err["client"] # "timeout"
    /\ opened' = [opened EXCEPT !["client"] = TRUE]
    /\ UNCHANGED <<busVars, registered, looping, hand, pending, acks, acked, closeVars,
                   sendVars, chanVars, malformed, abandoned, panicked, observed>>

\* OpenStream's deadline, or a Publish of its own that failed.
OpenFails ==
    /\ ~opened["client"] /\ ~closed["client"]
    /\ StartClose("client", "timeout")
    /\ UNCHANGED <<reliable, endVars, hand, pending, acks, acked, sendVars, chanVars,
                   malformed, abandoned, panicked>>

----------------------------------------------------------------------------
\* Send.

SendClosed(m) ==
    /\ spc[m] = "idle" /\ opened[From[m]] /\ closed[From[m]]
    /\ spc' = [spc EXCEPT ![m] = "done"]
    /\ outcome' = [outcome EXCEPT ![m] = "closed"]
    /\ UNCHANGED <<busVars, endVars, hand, pending, acks, acked, closeVars, chanVars,
                   malformed, abandoned, panicked, observed>>

Send(m) ==
    LET e == From[m] IN
    /\ spc[m] = "idle" /\ opened[e] /\ ~closed[e]
    /\ pending' = [pending EXCEPT ![e] = @ + 1]
    /\ acks' = [acks EXCEPT ![e] = @ \cup {m}]
    /\ Publish(e, "message", m)
    /\ spc' = [spc EXCEPT ![m] = "waiting"]
    /\ UNCHANGED <<reliable, endVars, hand, acked, closeVars, outcome, chanVars, malformed,
                   abandoned, panicked, observed>>

\* Send's deferred calls.
SendReturns(m, o) ==
    LET e == From[m] IN
    /\ spc' = [spc EXCEPT ![m] = "done"]
    /\ outcome' = [outcome EXCEPT ![m] = o]
    /\ acks' = [acks EXCEPT ![e] = @ \ {m}]
    /\ pending' = [pending EXCEPT ![e] = @ - 1]
    /\ UNCHANGED <<busVars, endVars, hand, acked, closeVars, chanVars, malformed, abandoned,
                   panicked, observed>>

SendAcked(m) ==
    /\ spc[m] = "waiting" /\ m \in acked[From[m]]
    /\ SendReturns(m, "nil")

\* Mutant of SendEnds: there is no deadline.
SendEndsCanceled(m) ==
    /\ spc[m] = "waiting" /\ canceled[From[m]]
    /\ SendReturns(m, IF closed[From[m]] THEN "closed" ELSE "nil")

\* Send's deadline, a Publish that failed, or the end of the stream's context:
\* then Send returns the stream's error, which nobody may have set yet.
SendEnds(m) ==
    /\ spc[m] = "waiting"
    /\ \/ SendReturns(m, "timeout")
       \/ /\ canceled[From[m]]
          /\ SendReturns(m, IF closed[From[m]] THEN "closed" ELSE "nil")

----------------------------------------------------------------------------
\* HandleStream, in the client's and in the server's one goroutine.

\* runClientStream has what was buffered for it while the stream was registered;
\* the server looks the stream up now, and drops what is for none.
Take(e) ==
    \E n \in net :
        /\ n.to = e /\ n.body # "open"
        /\ looping[e] /\ hand[e] = Nothing
        /\ net' = net \ {n}
        /\ hand' = [hand EXCEPT ![e] =
              IF registered[e] \/ e = "client"
              THEN [stage |-> n.body, id |-> n.id] ELSE Nothing]
        /\ UNCHANGED <<reliable, endVars, pending, acks, acked, closeVars, sendVars, chanVars,
                       malformed, abandoned, panicked, observed>>

HandleAck(e) ==
    /\ hand[e].stage = "ack"
    /\ hand' = [hand EXCEPT ![e] = Nothing]
    /\ acks' = [acks EXCEPT ![e] = @ \ {hand[e].id}]
    /\ acked' = [acked EXCEPT ![e] = @ \cup ({hand[e].id} \cap acks[e])]
    /\ UNCHANGED <<busVars, endVars, pending, closeVars, sendVars, chanVars, malformed,
                   abandoned, panicked, observed>>

\* Mutant of AddPending: the closed flag is not looked at.
AddPendingAlways(e) ==
    /\ hand[e].stage = "message"
    /\ pending' = [pending EXCEPT ![e] = @ + 1]
    /\ hand' = [hand EXCEPT ![e].stage = "recv"]
    /\ UNCHANGED <<busVars, endVars, acks, acked, closeVars, sendVars, chanVars, malformed,
                   abandoned, panicked, observed>>

AddPending(e) ==
    /\ hand[e].stage = "message"
    /\ IF closed[e]
       THEN hand' = [hand EXCEPT ![e] = Nothing] /\ UNCHANGED pending
       ELSE /\ pending' = [pending EXCEPT ![e] = @ + 1]
            /\ hand' = [hand EXCEPT ![e].stage = "recv"]
    /\ UNCHANGED <<busVars, endVars, acks, acked, closeVars, sendVars, chanVars, malformed,
                   abandoned, panicked, observed>>

\* Mutant of Recv: a full channel drops the message, which is acknowledged.
RecvOrDrop(e) ==
    LET m == hand[e].id IN
    /\ hand[e].stage = "recv"
    /\ hand' = [hand EXCEPT ![e].stage = "received"]
    /\ IF Len(recvChan[e]) < Size /\ m \notin Malformed
       THEN /\ recvChan' = [recvChan EXCEPT ![e] = Append(@, m)]
            /\ received' = [received EXCEPT ![e] = @ \cup {m}]
       ELSE UNCHANGED chanVars
    /\ panicked' = (panicked \/ recvClosed[e])
    /\ UNCHANGED <<busVars, endVars, pending, acks, acked, closeVars, sendVars, malformed,
                   abandoned, observed>>

\* A message that is malformed, or that finds the channel full, goes no further.
Recv(e) ==
    LET m == hand[e].id IN
    /\ hand[e].stage = "recv"
    /\ IF m \notin Malformed /\ Len(recvChan[e]) < Size
       THEN /\ hand' = [hand EXCEPT ![e].stage = "received"]
            /\ recvChan' = [recvChan EXCEPT ![e] = Append(@, m)]
            /\ received' = [received EXCEPT ![e] = @ \cup {m}]
            /\ panicked' = (panicked \/ recvClosed[e])
            /\ UNCHANGED <<pending, malformed>>
       ELSE /\ hand' = [hand EXCEPT ![e] = Nothing]
            /\ pending' = [pending EXCEPT ![e] = @ - 1]
            /\ malformed' = [malformed EXCEPT ![e] = @ \/ m \in Malformed]
            /\ UNCHANGED <<chanVars, panicked>>
    /\ UNCHANGED <<busVars, endVars, acks, acked, closeVars, sendVars, abandoned, observed>>

Ack(e) ==
    /\ hand[e].stage = "received"
    /\ hand' = [hand EXCEPT ![e] = Nothing]
    /\ pending' = [pending EXCEPT ![e] = @ - 1]
    /\ Publish(e, "ack", hand[e].id)
    /\ UNCHANGED <<reliable, endVars, acks, acked, closeVars, sendVars, chanVars, malformed,
                   abandoned, panicked, observed>>

\* Mutant of HandleClose: the cause is not kept.
HandleCloseBlank(e) ==
    /\ hand[e].stage = "close"
    /\ hand' = [hand EXCEPT ![e] = Nothing]
    /\ IF closed[e]
       THEN UNCHANGED <<closeVars, registered, panicked>>
       ELSE /\ SetClosed(e, e)
            /\ Shut(e) /\ UNCHANGED cpc
    /\ UNCHANGED <<busVars, opened, looping, pending, acks, acked, sendVars, chanVars,
                   malformed, abandoned, observed>>

\* The peer closed: there is no pending.Wait here.
HandleClose(e) ==
    /\ hand[e].stage = "close"
    /\ hand' = [hand EXCEPT ![e] = Nothing]
    /\ IF closed[e]
       THEN UNCHANGED <<closeVars, registered, panicked>>
       ELSE /\ SetClosed(e, hand[e].id)
            /\ Shut(e) /\ UNCHANGED cpc
    /\ UNCHANGED <<busVars, opened, looping, pending, acks, acked, sendVars, chanVars,
                   malformed, abandoned, observed>>

Consume(e) ==
    /\ recvChan[e] # << >>
    /\ recvChan' = [recvChan EXCEPT ![e] = Tail(@)]
    /\ UNCHANGED <<busVars, endVars, hand, pending, acks, acked, closeVars, sendVars,
                   malformed, received, abandoned, panicked, observed>>

----------------------------------------------------------------------------
HandleNext(e) ==
    Take(e) \/ HandleAck(e) \/ AddPending(e) \/ Recv(e) \/ Ack(e) \/ HandleClose(e)

SendNext(m) == SendClosed(m) \/ Send(m) \/ SendAcked(m) \/ SendEnds(m)

Next ==
    \/ Accept \/ Opened \/ OpenFails \/ CloseInLoop \/ Cancel
    \/ \E e \in Ends : Close(e) \/ CloseMalformed(e) \/ EndClose(e) \/ HandleNext(e) \/ Consume(e)
    \/ \E m \in Messages : SendNext(m)

Spec == Init /\ [][Next]_vars

\* Goroutines run, deadlines pass, and a reliable bus delivers.
Fairness ==
    /\ \A e \in Ends :
          /\ WF_vars(CloseMalformed(e)) /\ WF_vars(EndClose(e))
          /\ WF_vars(HandleNext(e) /\ (reliable \/ hand[e] # Nothing))
    /\ WF_vars(canceled["client"] /\ CloseInLoop)
    /\ \A m \in Messages : WF_vars(SendEnds(m))

FairSpec == Spec /\ Fairness

----------------------------------------------------------------------------
\* Properties.

Causes == Ends \cup {"malformed", "canceled", "internal", "timeout"}
Ids == Messages \cup {Open} \cup Causes

TypeOK ==
    /\ reliable \in BOOLEAN /\ abandoned \in BOOLEAN /\ panicked \in BOOLEAN
    /\ net \subseteq [to : Ends, body : {"open", "message", "ack", "close"}, id : Ids]
    /\ \A f \in {opened, registered, looping, closed, canceled, recvClosed, malformed} :
          f \in [Ends -> BOOLEAN]
    /\ hand \in [Ends -> {Nothing} \cup
                    [stage : {"message", "recv", "received", "ack", "close"}, id : Ids]]
    /\ pending \in [Ends -> 0..(Cardinality(Messages) + 1)]
    /\ \A f \in {acks, acked} : f \in [Ends -> SUBSET (Messages \cup {Open})]
    /\ err \in [Ends -> Causes \cup {"none"}]
    /\ recvChan \in [Ends -> Seq(Messages)] /\ \A e \in Ends : Len(recvChan[e]) <= Size
    /\ received \in [Ends -> SUBSET Messages]
    /\ spc \in [Messages -> {"idle", "waiting", "done"}]
    /\ outcome \in [Messages -> {"none", "nil", "closed", "timeout"}]
    /\ cpc \in [Ends -> {"none", "closing", "returned"}]
    /\ observed \in [Ends -> 0..2]

\* Two Closes, a Close and the peer's, or a Close and a message on its way into
\* recvChan never meet there: the closed flag and pending keep them apart.
RecvChanClosedOnce == TypeOK /\ ~panicked

\* The README: "Send blocks until the message has been received", which holds until
\* the owner of the client's context cancels it.
SentWasReceivedOrAbandoned ==
    \A m \in Messages :
        outcome[m] = "nil" => m \in received[Peer(From[m])] \/ (abandoned /\ From[m] = "client")

\* When the Close that closed an end returns, its Sends have all returned and
\* nothing more enters recvChan; the peer's Close gives no such promise.
NothingPendingAfterClose ==
    \A e \in Ends :
        cpc[e] = "returned" =>
            /\ \A m \in Messages : From[m] = e => spc[m] # "waiting"
            /\ hand[e].stage \notin {"recv", "received"}

\* The README: "When the stream closes the cause is available to both the server
\* and client": an end closed by its peer has the peer's cause.
CauseIsShared ==
    \A e \in Ends : closed[e] /\ cpc[e] = "none" => err[e] = err[Peer(e)] /\ err[e] # "none"

\* A goroutine can go on, or a deadline pass: the guards of Fairness.
CanGoOn ==
    \/ \E e \in Ends :
          \/ malformed[e] \/ hand[e] # Nothing \/ (cpc[e] = "closing" /\ pending[e] = 0)
          \/ reliable /\ looping[e] /\ \E n \in net : n.to = e /\ n.body # "open"
    \/ looping["client"] /\ canceled["client"]
    \/ \E m \in Messages : spc[m] = "waiting"

\* Left alone, every Close and every Send has returned; a stream that OpenStream returned
\* is, on a bus that loses nothing, closed at both ends or at none; and the client's observer
\* has been told of the end, whoever closed it: what the three properties below say of
\* each behaviour, said of the states in which nothing goes on.
AtRest ==
    ~CanGoOn =>
        /\ \A e \in Ends : cpc[e] # "closing"
        /\ reliable /\ opened["client"] => (closed["client"] <=> closed["server"])
        /\ closed["client"] => observed["client"] = 1

\* A Close returns, even one that stops the goroutine its Sends wait for, and a
\* Send that was waiting when its peer closed does too.
ClosesAndSendsReturn ==
    /\ \A e \in Ends : cpc[e] = "closing" ~> cpc[e] = "returned"
    /\ \A m \in Messages : spc[m] = "waiting" ~> spc[m] = "done"

\* On a bus that loses nothing, a stream that OpenStream returned is closed at
\* both ends once it is at one.
PeerLearns ==
    \A e \in Ends : reliable /\ opened["client"] /\ closed[e] ~> closed[Peer(e)]

\* The client's metrics observer is told of the end of a stream exactly once, whoever
\* closed it: the peer's Close goes around the interceptors, but the goroutine of the
\* stream then calls Close, and those that lose the race to close it report nothing.
CloseIsObserved == closed["client"] ~> [](observed["client"] = 1)
=============================================================================
