---------------------------- MODULE ClientDispatch ----------------------------
(***************************************************************************)
(* The dispatcher of one client among the multi-calls and the streams that *)
(* it hands messages to, from NewRPCClient to Close.                       *)
(*                                                                         *)
(*   pkg/client/client.go   NewRPCClient, its goroutine, Close             *)
(*   pkg/client/multi.go    RequestMulti, Send, handleResponses, Recv,     *)
(*                          Close                                          *)
(*   pkg/client/stream.go   the entry of a stream and runClientStream      *)
(*   pkg/middleware/metrics.go   what the multi-call interceptor counts    *)
(*                                                                         *)
(* Single calls and their claims are in UnaryRpc, and what a stream does   *)
(* with its messages is in Stream.  A timer may fire whenever it is        *)
(* waited for.                                                             *)
(*                                                                         *)
(* Publish, Subscribe and the Close of a subscription need the bus, which  *)
(* may be writing to a full subscription of this client with its lock      *)
(* held, as on redis (bus_redis.go:192).  How long others keep the bus     *)
(* from them is not modelled.                                              *)
(***************************************************************************)
EXTENDS Integers, Sequences, SequencesExt, FiniteSets

CONSTANTS
    Calls,     \* the calls of RequestMulti
    Streams,   \* the calls of OpenStream
    Answers,   \* bound: Answers[t] responses to a call, or messages of a stream
    Size,      \* ChannelSize
    Locking,   \* the subscriptions the bus writes to with its lock held
    None       \* no message in the dispatcher's hands

Targets == Calls \cup Streams

\* The client's subscriptions in the order they are made, and that in which the dispatcher
\* closes them.
Channels == <<"RES", "CLAIM", "STR">>
Closed == <<"CLAIM", "RES", "STR">>

\* A response is an answer or an error.
Kinds == {"answer", "error"}

ASSUME ClientDispatchAssumption ==
    /\ Calls \cap Streams = {} /\ None \notin [to : Targets, kind : Kinds]
    /\ Locking \subseteq ToSet(Channels)
    /\ Answers \in [Targets -> Nat] /\ Size \in Nat \ {0}

VARIABLES
    client,     \* "building" and, if that fails, "failing" and "failed"; or "open" and,
                \* when the dispatcher ended, "closing" and "stopped"
    subs,       \* the bus subscriptions of the client, in the order of Closed while they
                \* are closed: the first one is cancelled, and waits to be removed
    closed,     \* the fuse of Close
    writing,    \* the full subscription the bus waits to write to, locked, or "none"
    entries,    \* the keys of responseChannels and streamChannels
    disp,       \* the message it looked up and hands over: [to, kind], or None
    pc,         \* pc[c]: where RequestMulti, or OpenStream, is
    hpc,        \* hpc[c]: where handleResponses, or runClientStream, is
    channel,    \* channel[c]: the channel of the entry
    hand,       \* hand[c]: the response that handleResponses is passing on
    resChan,    \* resChan[c]: the channel that the caller reads
    count,      \* count[c]: what the metrics interceptor has counted, by kind
    arrived,    \* arrived[c]: how many messages for c the dispatcher read
    \* history
    abandoned,  \* the calls whose caller reads no more, the streams whose caller's
                \* context ended
    accepted,   \* accepted[c]: the messages whose look-up found an entry, in order
    got,        \* got[c]: those the caller, or the stream, has got
    observed    \* observed[c]: what the observer was told at Close

clientVars == <<client, subs, closed, writing>>
dispVars == <<entries, disp, arrived, accepted>>
callVars == <<pc, hpc, channel, hand, resChan, got, abandoned>>
metricVars == <<count, observed>>
vars == <<clientVars, dispVars, callVars, metricVars>>

Nothing == [kind \in Kinds |-> 0]

Init ==
    /\ client = "building"
    /\ subs = << >>
    /\ closed = FALSE
    /\ writing = "none"
    /\ entries = {}
    /\ disp = None
    /\ pc = [t \in Targets |-> "idle"]
    /\ hpc = [t \in Targets |-> "none"]
    /\ channel = [t \in Targets |-> << >>]
    /\ hand = [t \in Targets |-> << >>]
    /\ resChan = [t \in Targets |-> << >>]
    /\ count = [c \in Calls |-> Nothing]
    /\ arrived = [t \in Targets |-> 0]
    /\ abandoned = {}
    /\ accepted = [t \in Targets |-> << >>]
    /\ got = [t \in Targets |-> << >>]
    /\ observed = [c \in Calls |-> Nothing]

----------------------------------------------------------------------------
\* NewRPCClient and Close.

\* Mutant of Fails: the subscriptions made before stay.
FailsLeaking == client' = "failed"

\* A subscription fails: those made before are closed.
Fails == client' = IF subs = << >> THEN "failed" ELSE "failing"

\* The bus is not locked: the next subscription is made, or fails.
Build ==
    /\ client = "building" /\ writing = "none"
    /\ \/ /\ subs' = Append(subs, Channels[Len(subs) + 1])
          /\ client' = IF Len(subs') = Len(Channels) THEN "open" ELSE client
       \/ Fails /\ UNCHANGED subs
    /\ UNCHANGED <<closed, writing, dispVars, callVars, metricVars>>

Close ==
    /\ client \in {"open", "closing", "stopped"} /\ ~closed
    /\ closed' = TRUE
    /\ UNCHANGED <<client, subs, writing, dispVars, callVars, metricVars>>

\* A message of sub is read, or sub is cancelled: the bus, if it waits there, goes on.
Frees(sub) == writing' = IF writing = sub THEN "none" ELSE writing

\* The dispatcher leaves its loop to close the subscriptions, one after another.
Stop ==
    /\ client = "open" /\ disp = None /\ closed
    /\ client' = "closing"
    /\ subs' = Closed /\ Frees(Head(Closed))
    /\ UNCHANGED <<closed, dispVars, callVars, metricVars>>

\* The bus is not locked: a cancelled subscription is removed, and the next is cancelled.
CloseNext ==
    /\ client \in {"closing", "failing"} /\ writing = "none"
    /\ subs' = Tail(subs)
    /\ client' = IF Len(subs) > 1 THEN client
                 ELSE IF client = "closing" THEN "stopped" ELSE "failed"
    /\ UNCHANGED <<closed, writing, dispVars, callVars, metricVars>>

\* The subscriptions whose context is not cancelled.
Open == ToSet(IF client \in {"closing", "failing"} THEN Tail(subs) ELSE subs)

\* The bus comes to write to a subscription that is full, of messages of single calls too.
Overflow(sub) ==
    /\ writing = "none" /\ sub \in Locking \cap Open
    /\ writing' = sub
    /\ UNCHANGED <<client, subs, closed, dispVars, callVars, metricVars>>

----------------------------------------------------------------------------
\* The dispatcher.

\* It reads a message and drops it, or hands it to a single call.
Read ==
    /\ client = "open" /\ disp = None /\ writing # "none"
    /\ writing' = "none"
    /\ UNCHANGED <<client, subs, closed, dispVars, callVars, metricVars>>

Published(t) == pc[t] \in {"open", "closing", "failed"}

\* A message for t is read and its channel looked up under the lock; without an
\* entry it is dropped.
Dispatch(t) ==
    /\ client = "open" /\ disp = None
    /\ Published(t) /\ arrived[t] < Answers[t]
    /\ Frees(IF t \in Calls THEN "RES" ELSE "STR")
    /\ arrived' = [arrived EXCEPT ![t] = @ + 1]
    /\ IF t \in entries
       THEN \E kind \in Kinds :
               /\ disp' = [to |-> t, kind |-> kind]
               /\ accepted' = [accepted EXCEPT ![t] = Append(@, kind)]
       ELSE UNCHANGED <<disp, accepted>>
    /\ UNCHANGED <<client, subs, closed, entries, callVars, metricVars>>

\* It is sent on the channel after the lock was released: whether the entry is
\* still there, or anyone reads, makes no difference.
HandOver ==
    /\ disp # None /\ Len(channel[disp.to]) < Size
    /\ channel' = [channel EXCEPT ![disp.to] = Append(@, disp.kind)]
    /\ disp' = None
    /\ UNCHANGED <<clientVars, entries, arrived, accepted, pc, hpc, hand, resChan, got,
                   abandoned, metricVars>>

----------------------------------------------------------------------------
\* Multi-calls.

\* RequestMulti, as far as handleResponses is started: the entry is there before
\* the request is published.
RequestMulti(c) ==
    /\ c \in Calls /\ pc[c] = "idle" /\ client \in {"open", "closing", "stopped"}
    /\ IF closed
       THEN pc' = [pc EXCEPT ![c] = "refused"] /\ UNCHANGED <<entries, hpc>>
       ELSE /\ pc' = [pc EXCEPT ![c] = "sending"]
            /\ entries' = entries \cup {c}
            /\ hpc' = [hpc EXCEPT ![c] = "select"]
    /\ UNCHANGED <<clientVars, disp, arrived, accepted, channel, hand, resChan, got,
                   abandoned, metricVars>>

\* The bus is not locked and the request is published.  When that fails, which does not
\* mean that no server got it, the caller has no channel to read, but handleResponses goes
\* on; a stream is closed, if that is not done already.
Publish(t) ==
    /\ pc[t] = "sending" /\ writing = "none"
    /\ \E end \in {"open", IF t \in Calls \/ hpc[t] \in {"closing", "closed"}
                          THEN "failed" ELSE "closing"} :
          pc' = [pc EXCEPT ![t] = end]
    /\ UNCHANGED <<clientVars, dispVars, hpc, channel, hand, resChan, got, abandoned,
                   metricVars>>

\* Mutant of Counted: an error is counted as an answer.
CountedOnce(c, kind) == [count[c] EXCEPT !["answer"] = @ + 1]

Counted(c, kind) == [count[c] EXCEPT ![kind] = @ + 1]

\* A response is taken and goes through the interceptors' Recv.
Receive(c) ==
    /\ c \in Calls /\ hpc[c] = "select" /\ channel[c] # << >>
    /\ hand' = [hand EXCEPT ![c] = <<Head(channel[c])>>]
    /\ channel' = [channel EXCEPT ![c] = Tail(@)]
    /\ count' = [count EXCEPT ![c] = Counted(c, Head(channel[c]))]
    /\ hpc' = [hpc EXCEPT ![c] = "recv"]
    /\ UNCHANGED <<clientVars, dispVars, pc, resChan, got, abandoned, observed>>

\* Mutant of Recv: a response that the caller has no room for is discarded.
RecvOrDrop(c) ==
    /\ c \in Calls /\ hpc[c] = "recv"
    /\ resChan' = [resChan EXCEPT ![c] = IF Len(@) < Size THEN @ \o hand[c] ELSE @]
    /\ hand' = [hand EXCEPT ![c] = << >>]
    /\ hpc' = [hpc EXCEPT ![c] = "select"]
    /\ UNCHANGED <<clientVars, dispVars, pc, channel, got, abandoned, metricVars>>

\* multiRPC.Recv: nothing but room in the caller's channel ends it.
Recv(c) ==
    /\ c \in Calls /\ hpc[c] = "recv" /\ Len(resChan[c]) < Size
    /\ resChan' = [resChan EXCEPT ![c] = @ \o hand[c]]
    /\ hand' = [hand EXCEPT ![c] = << >>]
    /\ hpc' = [hpc EXCEPT ![c] = "select"]
    /\ UNCHANGED <<clientVars, dispVars, pc, channel, got, abandoned, metricVars>>

\* The timer fires or the caller's context ends: the observer is told, the entry
\* goes and the caller's channel is closed.
Expire(c) ==
    /\ c \in Calls /\ hpc[c] = "select"
    /\ observed' = [observed EXCEPT ![c] = count[c]]
    /\ entries' = entries \ {c}
    /\ hpc' = [hpc EXCEPT ![c] = "closed"]
    /\ UNCHANGED <<clientVars, disp, arrived, accepted, pc, channel, hand, resChan, got,
                   abandoned, count>>

\* The caller reads, or stops before its channel is closed.
Consume(c) ==
    /\ c \in Calls /\ pc[c] = "open" /\ c \notin abandoned /\ resChan[c] # << >>
    /\ got' = [got EXCEPT ![c] = Append(@, Head(resChan[c]))]
    /\ resChan' = [resChan EXCEPT ![c] = Tail(@)]
    /\ UNCHANGED <<clientVars, dispVars, pc, hpc, channel, hand, abandoned, metricVars>>

Abandon(c) ==
    /\ c \in Calls /\ pc[c] = "open" /\ hpc[c] # "closed" /\ c \notin abandoned
    /\ abandoned' = abandoned \cup {c}
    /\ UNCHANGED <<clientVars, dispVars, pc, hpc, channel, hand, resChan, got, metricVars>>

----------------------------------------------------------------------------
\* Streams.

\* The entry is there, and its goroutine runs, before the request is published.
OpenStream(t) ==
    /\ t \in Streams /\ pc[t] = "idle" /\ client \in {"open", "closing", "stopped"}
    /\ pc' = [pc EXCEPT ![t] = "sending"]
    /\ entries' = entries \cup {t}
    /\ hpc' = [hpc EXCEPT ![t] = "select"]
    /\ UNCHANGED <<clientVars, disp, arrived, accepted, channel, hand, resChan, got,
                   abandoned, metricVars>>

\* runClientStream reads on until it sees the stream's context, or the client, end.  A
\* message for the user is acknowledged, with a Publish; the peer's close removes the entry
\* and ends the context, unless a Close here came first.
HandleStream(t) ==
    /\ t \in Streams /\ hpc[t] = "select" /\ channel[t] # << >>
    /\ got' = [got EXCEPT ![t] = Append(@, Head(channel[t]))]
    /\ channel' = [channel EXCEPT ![t] = Tail(@)]
    /\ \/ UNCHANGED <<pc, hpc, entries>>
       \/ hpc' = [hpc EXCEPT ![t] = "acking"] /\ UNCHANGED <<pc, entries>>
       \/ /\ pc[t] = "open"
          /\ pc' = [pc EXCEPT ![t] = "failed"]
          /\ entries' = entries \ {t}
          /\ UNCHANGED hpc
    /\ UNCHANGED <<clientVars, disp, arrived, accepted, hand, resChan, abandoned, metricVars>>

Acknowledge(t) ==
    /\ t \in Streams /\ hpc[t] = "acking" /\ writing = "none"
    /\ hpc' = [hpc EXCEPT ![t] = "select"]
    /\ UNCHANGED <<clientVars, dispVars, pc, channel, hand, resChan, got, abandoned,
                   metricVars>>

\* Close elsewhere than in that goroutine ...
CloseStream(t) ==
    /\ t \in Streams /\ pc[t] = "open" /\ hpc[t] \in {"select", "acking"}
    /\ pc' = [pc EXCEPT ![t] = "closing"]
    /\ UNCHANGED <<clientVars, dispVars, hpc, channel, hand, resChan, got, abandoned,
                   metricVars>>

\* ... publishes the close; the entry goes once the pending Sends ended, and the context
\* ends.
CloseEnds(t) ==
    /\ t \in Streams /\ pc[t] = "closing" /\ writing = "none"
    /\ pc' = [pc EXCEPT ![t] = "failed"]
    /\ entries' = entries \ {t}
    /\ UNCHANGED <<clientVars, disp, arrived, accepted, hpc, channel, hand, resChan, got,
                   abandoned, metricVars>>

\* The context that was given to OpenStream ends.
CancelStream(t) ==
    /\ t \in Streams /\ hpc[t] \in {"select", "acking"} /\ t \notin abandoned
    /\ abandoned' = abandoned \cup {t}
    /\ UNCHANGED <<clientVars, dispVars, pc, hpc, channel, hand, resChan, got, metricVars>>

Ended(t) == closed \/ pc[t] = "failed" \/ t \in abandoned

\* It leaves its loop, when the stream's context or the client ended, and calls Close, which
\* returns at once if another came first ...
LeaveLoop(t) ==
    /\ t \in Streams /\ hpc[t] = "select" /\ Ended(t)
    /\ hpc' = [hpc EXCEPT ![t] =
                  IF pc[t] \in {"closing", "failed"} THEN "closed" ELSE "closing"]
    /\ UNCHANGED <<clientVars, dispVars, pc, channel, hand, resChan, got, abandoned,
                   metricVars>>

\* ... and is otherwise as CloseEnds.
EndStream(t) ==
    /\ t \in Streams /\ hpc[t] = "closing" /\ writing = "none"
    /\ hpc' = [hpc EXCEPT ![t] = "closed"]
    /\ entries' = entries \ {t}
    /\ UNCHANGED <<clientVars, disp, arrived, accepted, pc, channel, hand, resChan, got,
                   abandoned, metricVars>>

----------------------------------------------------------------------------
\* What goroutines, timers and callers that read do of themselves.
Progress ==
    \/ Build \/ Stop \/ CloseNext \/ Read \/ HandOver
    \/ \E t \in Targets :
          \/ Publish(t) \/ Receive(t) \/ Recv(t) \/ Expire(t) \/ Consume(t)
          \/ HandleStream(t) \/ Acknowledge(t) \/ CloseEnds(t) \/ LeaveLoop(t)
          \/ EndStream(t)

Next ==
    \/ Progress \/ Close
    \/ \E sub \in Locking : Overflow(sub)
    \/ \E t \in Targets :
          \/ RequestMulti(t) \/ Abandon(t) \/ OpenStream(t) \/ CloseStream(t)
          \/ CancelStream(t) \/ Dispatch(t)

Spec == Init /\ [][Next]_vars

----------------------------------------------------------------------------
\* Properties.

TypeOK ==
    /\ client \in {"building", "failing", "failed", "open", "closing", "stopped"}
    /\ closed \in BOOLEAN /\ writing \in {"none"} \cup Locking
    /\ subs \in Seq(ToSet(Channels)) /\ entries \subseteq Targets
    /\ disp \in [to : Targets, kind : Kinds] \cup {None}
    /\ pc \in [Targets -> {"idle", "refused", "sending", "open", "closing", "failed"}]
    /\ hpc \in [Targets -> {"none", "select", "recv", "acking", "closing", "closed"}]
    /\ \A f \in {channel, hand, resChan, accepted, got} : f \in [Targets -> Seq(Kinds)]
    /\ \A t \in Targets : Len(channel[t]) <= Size /\ Len(resChan[t]) <= Size
    /\ \A f \in {count, observed} : f \in [Calls -> [Kinds -> Nat]]
    /\ arrived \in [Targets -> Nat] /\ abandoned \subseteq Targets

\* Whatever the dispatcher looked up and found an entry for comes to the caller,
\* or to the stream, in the order in which the bus gave it, none dropped or
\* doubled on the way through the two channels and three goroutines.
InOrder ==
    /\ TypeOK
    /\ \A t \in Targets :
          accepted[t] = got[t] \o resChan[t] \o hand[t] \o channel[t]
                        \o (IF disp # None /\ disp.to = t THEN <<disp.kind>> ELSE << >>)

Occurrences(q, kind) == Cardinality({i \in DOMAIN q : q[i] = kind})

\* When the channel of a multi-call is closed the observer has been told, of
\* answers and of errors each, as many as the caller finds in it.
MetricsTrue ==
    \A c \in Calls :
        hpc[c] = "closed" =>
            \A kind \in Kinds :
                observed[c][kind] = Occurrences(got[c] \o resChan[c], kind)

\* The caller reads no more, or never got the channel because Publish failed.
Unread(c) == c \in abandoned \/ pc[c] = "failed"

\* Nobody will take what the dispatcher has for t: its goroutine has left with the
\* channel full, or passes a response on to a caller that does not read.
Stuck(t) ==
    /\ disp # None /\ disp.to = t /\ Len(channel[t]) = Size
    /\ hpc[t] = "closed" \/ (hpc[t] = "recv" /\ Unread(t) /\ Len(resChan[t]) = Size)

\* The bus keeps its lock for a subscription that is not read: another one is being made or
\* closed, or the dispatcher waits for room in a channel.
Wedged ==
    /\ writing # "none"
    /\ \/ client \in {"building", "failing", "closing"}
       \/ client = "open" /\ disp # None /\ Len(channel[disp.to]) = Size

\* A goroutine can go on: the guards of the steps of Progress.
CanGoOn ==
    \/ writing = "none" /\ client \in {"building", "failing", "closing"}
    \/ client = "open" /\ disp = None /\ (closed \/ writing # "none")
    \/ disp # None /\ Len(channel[disp.to]) < Size
    \/ \E c \in Calls :
          \/ pc[c] = "sending" /\ writing = "none"
          \/ hpc[c] = "select"
          \/ hpc[c] = "recv" /\ Len(resChan[c]) < Size
          \/ pc[c] = "open" /\ c \notin abandoned /\ resChan[c] # << >>
    \/ \E t \in Streams :
          \/ hpc[t] = "select" /\ (channel[t] # << >> \/ Ended(t))
          \/ /\ pc[t] \in {"sending", "closing"} \/ hpc[t] \in {"acking", "closing"}
             /\ writing = "none"

\* When no goroutine can go on, and the bus does not wait for the client as the client for
\* the bus: no caller is kept in a Publish; every stream that was closed, by whichever end,
\* by its context or with the client, has lost its entry; and the dispatcher has closed the
\* subscriptions if the client was closed, or failed to be built, unless it is stuck: then
\* all other calls and streams of the client are, too.  In any case every multi-call that
\* was made has closed its channel and lost its entry, unless its caller does not read and
\* left the channel full.
AtRest ==
    ~CanGoOn =>
        /\ \A c \in Calls :
              \/ hpc[c] \in {"none", "closed"} /\ c \notin entries
              \/ hpc[c] = "recv" /\ Unread(c) /\ Len(resChan[c]) = Size
        /\ \/ Wedged
           \/ /\ \A t \in Targets : pc[t] # "sending"
              /\ \A t \in Streams : Ended(t) \/ hpc[t] = "closed" => t \notin entries
              /\ (closed \/ client = "failed") /\ subs # << >> => \E t \in Targets : Stuck(t)
              /\ disp # None => Stuck(disp.to)

\* The goroutines of the code come to rest with all done (AtRest), and the guards it is
\* stated with are those of the steps: where one holds, a goroutine can take a step.
RestsWhenDone == AtRest /\ (CanGoOn => ENABLED Progress)

=============================================================================
