------------------------------ MODULE RedisBus ------------------------------
(***************************************************************************)
(* The redis message bus of one process: publishers, subscribers that come *)
(* and go, the write worker that carries both out in redis, the goroutines *)
(* it starts, and the read worker.                                         *)
(*                                                                         *)
(*   internal/bus/bus_redis.go      all of it                              *)
(*   internal/bus/subscription.go   newSubscription                        *)
(*   and how its clients and servers read what they subscribed to, and     *)
(*   close it: pkg/client/client.go, pkg/server/rpc.go, pkg/server/stream.go *)
(*                                                                         *)
(* The forwarding goroutine and the channels at both its ends are one      *)
(* buffer.  The wakeup that follows a push is one step with it where r.mu  *)
(* is held.  Reconnections of the read worker lose what is under way, as   *)
(* redis may; they are left out.                                           *)
(*                                                                         *)
(* Outside the repository: redis delivers to the process what is published *)
(* on the channels it is subscribed to, in one order; a command that       *)
(* reports an error may have been carried out.                             *)
(***************************************************************************)
EXTENDS Integers, Sequences, FiniteSets

CONSTANTS
    Channels,
    Messages,     \* the calls of Publish
    Foreign,      \* those of other processes
    Channel,      \* Channel[m]: what m is published on
    Readers,      \* the goroutines that read: a client's dispatcher, a handler's loop
    Leavers,      \* those that close what they read themselves, as a dispatcher does
    Author,       \* Author[m]: the reader that publishes m, as its answer to a message
                  \* and before it reads the next, or None
    Subscribers,  \* each subscribes once and closes at most once
    Reader,       \* Reader[s]: who reads s, with others or alone
    On,           \* On[s]: its channel
    Queue,        \* Queue[s]: whether it is a queue subscription
    Size,         \* the buffer of a subscription
    Failures,     \* bound: the commands to redis that report an error
    None

ASSUME RedisBusAssumption ==
    /\ None \notin Messages \cup Subscribers \cup Readers /\ Foreign \subseteq Messages
    /\ Channel \in [Messages -> Channels]
    /\ Leavers \subseteq Readers
    /\ Author \in [Messages -> Readers \cup {None}]
    /\ Reader \in [Subscribers -> Readers]
    /\ On \in [Subscribers -> Channels] /\ Queue \in [Subscribers -> BOOLEAN]
    /\ Size \in Nat \ {0} /\ Failures \in Nat

VARIABLES
    reading,         \* the subscribers readWorker is to write to, with r.mu held,
                     \* and the message; or None
    subs, queues,    \* subs[c], queues[c]: the lists, empty when not in the map
    next,            \* next[c]: that of the list queues[c]
    dirtyChannels, currentChannels,
    wakeup,          \* whether it holds its one token
    ops,             \* the writeWorker's queue
    worker,          \* where writeWorker is, with the locals of a reconciliation
    publishOps,      \* publishOps[c]: a queue, named by the message it was made for
    queued,          \* queued[q]: what it holds
    exec,            \* exec[q]: where the exec of q is
    ppc,             \* ppc[m]: where the Publish of m is
    spc,             \* spc[s]: where subscriber s is
    msgChan,         \* msgChan[s]: its buffer
    remote,          \* the channels redis sends to the process
    inbound,         \* what it has sent
    failures,        \* the commands that may still fail
    \* history
    accepted,        \* accepted[c]: the messages in the order Publish took them
    sent,            \* sent[c]: in the order of their PUBLISH commands
    doubted          \* the channels whose last SUBSCRIBE or UNSUBSCRIBE failed

listVars == <<subs, queues, next, dirtyChannels>>
publishVars == <<publishOps, queued, accepted>>
workerVars == <<worker, currentChannels>>
redisVars == <<remote, inbound, failures, sent, doubted>>
subVars == <<spc, msgChan>>
vars == <<reading, listVars, publishVars, exec, workerVars, redisVars, subVars,
          wakeup, ops, ppc>>

Reconcile == [op |-> "reconcile", queue |-> None]
Exec(q) == [op |-> "exec", queue |-> q]

Working(stage) == [stage |-> stage, subscribe |-> {}, unsubscribe |-> {}, failed |-> {}]

Init ==
    /\ reading = None
    /\ subs = [c \in Channels |-> << >>] /\ queues = [c \in Channels |-> << >>]
    /\ next = [c \in Channels |-> 0]
    /\ dirtyChannels = {} /\ currentChannels = {}
    /\ wakeup = FALSE /\ ops = << >>
    /\ worker = Working("waiting")
    /\ publishOps = [c \in Channels |-> None]
    /\ queued = [q \in Messages |-> << >>]
    /\ exec = [q \in Messages |-> "none"]
    /\ ppc = [m \in Messages |-> "idle"]
    /\ spc = [s \in Subscribers |-> "new"]
    /\ msgChan = [s \in Subscribers |-> << >>]
    /\ remote = {} /\ inbound = << >>
    /\ failures = Failures
    /\ accepted = [c \in Channels |-> << >>] /\ sent = [c \in Channels |-> << >>]
    /\ doubted = {}

\* Nobody but readWorker keeps r.mu from one step to the next.
Unlocked == reading = None

Desired == {c \in Channels : subs[c] # << >> \/ queues[c] # << >>}

----------------------------------------------------------------------------
\* Publish.

\* A goroutine of its own calls; or, when it answers, a reader.
MayPublish(m) ==
    \/ ppc[m] = "calling"
    \/ ppc[m] = "idle" /\ Author[m] = None /\ m \notin Foreign

\* The message joins the channel's queue; a new queue needs an exec.
Publish(m) ==
    LET c == Channel[m]
        q == IF publishOps[c] = None THEN m ELSE publishOps[c] IN
    /\ MayPublish(m) /\ Unlocked
    /\ publishOps' = [publishOps EXCEPT ![c] = q]
    /\ queued' = [queued EXCEPT ![q] = Append(@, m)]
    /\ accepted' = [accepted EXCEPT ![c] = Append(@, m)]
    /\ ppc' = [ppc EXCEPT ![m] = IF q = m THEN "enqueueing" ELSE "returned"]
    /\ UNCHANGED <<reading, listVars, exec, workerVars, redisVars, subVars, wakeup, ops>>

\* Mutant of EnqueueExec: the worker is woken before there is something to do.
SignalFirst(m) ==
    /\ \/ ppc[m] = "enqueueing" /\ wakeup' = TRUE /\ UNCHANGED ops
          /\ ppc' = [ppc EXCEPT ![m] = "signalling"]
       \/ ppc[m] = "signalling" /\ ops' = Append(ops, Exec(m)) /\ UNCHANGED wakeup
          /\ ppc' = [ppc EXCEPT ![m] = "returned"]
    /\ UNCHANGED <<reading, listVars, publishVars, exec, workerVars, redisVars, subVars>>

\* enqueueWriteOp: the push, and then the wakeup, unless there is one.
EnqueueExec(m) ==
    /\ \/ ppc[m] = "enqueueing" /\ ops' = Append(ops, Exec(m)) /\ UNCHANGED wakeup
          /\ ppc' = [ppc EXCEPT ![m] = "signalling"]
       \/ ppc[m] = "signalling" /\ wakeup' = TRUE /\ UNCHANGED ops
          /\ ppc' = [ppc EXCEPT ![m] = "returned"]
    /\ UNCHANGED <<reading, listVars, publishVars, exec, workerVars, redisVars, subVars>>

----------------------------------------------------------------------------
\* Subscribers.

\* reconcileSubscriptions, under r.mu.
ReconcileSubscriptions(c) ==
    /\ dirtyChannels' = dirtyChannels \cup {c}
    /\ ops' = Append(ops, Reconcile)
    /\ wakeup' = TRUE

\* What the reader of s reads is subscribed to by one goroutine, one after another ...
Together(s) == {t \in Subscribers : Reader[t] = Reader[s]}

\* ... and then the reader begins.
AllMade(s) == \A t \in Together(s) : spc[t] # "new"

Subscribe(s) ==
    LET c == On[s]
        list == IF Queue[s] THEN queues[c] ELSE subs[c] IN
    /\ spc[s] = "new" /\ Unlocked
    /\ spc' = [spc EXCEPT ![s] = "open"]
    /\ IF list = << >> THEN ReconcileSubscriptions(c)
                       ELSE UNCHANGED <<dirtyChannels, ops, wakeup>>
    /\ IF Queue[s]
       THEN queues' = [queues EXCEPT ![c] = Append(@, s)] /\ UNCHANGED subs
       ELSE subs' = [subs EXCEPT ![c] = Append(@, s)] /\ UNCHANGED queues
    /\ UNCHANGED <<reading, next, publishVars, exec, workerVars, redisVars, msgChan, ppc>>

\* g is publishing an answer.
Busy(g) == \E m \in Messages : Author[m] = g /\ ppc[m] \notin {"idle", "returned"}

\* Close cancels, and then unsubscribes.  A leaver, once it has left its loop, has begun
\* one Close, and calls the next when that has returned; others read on while another
\* goroutine closes what they read.
Cancel(s) ==
    /\ spc[s] = "open" /\ AllMade(s)
    /\ Reader[s] \in Leavers =>
          ~Busy(Reader[s]) /\ \A t \in Together(s) : spc[t] # "cancelled"
    /\ spc' = [spc EXCEPT ![s] = "cancelled"]
    /\ UNCHANGED <<reading, listVars, publishVars, exec, workerVars, redisVars, msgChan,
                   wakeup, ops, ppc>>

\* slices.Delete of the one place where s is.
Without(list, s) ==
    LET i == CHOOSE i \in DOMAIN list : list[i] = s IN
    [j \in 1..Len(list) - 1 |-> list[IF j < i THEN j ELSE j + 1]]

\* A list goes with its last subscriber.  Then msgChan is closed, and what it holds is
\* nobody's.
Leave(s) ==
    LET c == On[s] IN
    /\ spc[s] = "cancelled"
    /\ spc' = [spc EXCEPT ![s] = "closed"]
    /\ IF Queue[s]
       THEN queues' = [queues EXCEPT ![c] = Without(@, s)] /\ UNCHANGED subs
       ELSE subs' = [subs EXCEPT ![c] = Without(@, s)] /\ UNCHANGED queues
    /\ IF (IF Queue[s] THEN queues'[c] ELSE subs'[c]) = << >>
       THEN /\ ReconcileSubscriptions(c)
            /\ next' = [next EXCEPT ![c] = IF Queue[s] THEN 0 ELSE @]
       ELSE UNCHANGED <<dirtyChannels, ops, wakeup, next>>
    /\ msgChan' = [msgChan EXCEPT ![s] = << >>]
    /\ UNCHANGED <<reading, publishVars, exec, workerVars, redisVars, ppc>>

Unsubscribe(s) == Unlocked /\ Leave(s)

\* The reader of s is in its loop.
Reads(s) ==
    /\ AllMade(s) /\ ~Busy(Reader[s])
    /\ Reader[s] \in Leavers => \A t \in Together(s) : spc[t] = "open"

\* It reads a message of s, and may answer it.  One of a queue it does not even see when
\* redis gave its lock to another process, or fails.
Consume(s) ==
    /\ msgChan[s] # << >> /\ Reads(s)
    /\ msgChan' = [msgChan EXCEPT ![s] = Tail(@)]
    /\ \/ \E m \in Messages :
             /\ Author[m] = Reader[s] /\ ppc[m] = "idle"
             /\ ppc' = [ppc EXCEPT ![m] = "calling"]
       \/ UNCHANGED ppc
    /\ UNCHANGED <<reading, listVars, publishVars, exec, workerVars, redisVars, spc,
                   wakeup, ops>>

----------------------------------------------------------------------------
\* writeWorker and its operations.

Wake ==
    /\ worker.stage = "waiting" /\ wakeup
    /\ wakeup' = FALSE
    /\ worker' = Working("draining")
    /\ UNCHANGED <<reading, listVars, publishVars, exec, currentChannels, redisVars,
                   subVars, ops, ppc>>

\* One round of drain: an exec gets a goroutine, a reconciliation runs here.
Drain ==
    /\ worker.stage = "draining"
    /\ IF ops = << >>
       THEN worker' = Working("waiting") /\ UNCHANGED <<ops, exec>>
       ELSE /\ ops' = Tail(ops)
            /\ IF Head(ops) = Reconcile
               THEN worker' = Working("comparing") /\ UNCHANGED exec
               ELSE /\ exec' = [exec EXCEPT ![Head(ops).queue] = "checking"]
                    /\ UNCHANGED worker
    /\ UNCHANGED <<reading, listVars, publishVars, currentChannels, redisVars, subVars,
                   wakeup, ppc>>

\* With r.mu held: what to ask of redis for the dirty channels, if there are any.
Compare(dirty, current) ==
    /\ worker' =
          IF dirty = {} THEN Working("draining")
          ELSE [stage |-> "subscribing",
                subscribe |-> (dirty \cap Desired) \ current,
                unsubscribe |-> (dirty \cap current) \ Desired,
                failed |-> {}]
    /\ dirtyChannels' = {}
    /\ currentChannels' = current
    /\ UNCHANGED <<reading, subs, queues, next, publishVars, exec, redisVars, subVars,
                   wakeup, ops, ppc>>

Reconciliation ==
    /\ worker.stage = "comparing" /\ Unlocked
    /\ Compare(dirtyChannels, currentChannels)

\* A command that may fail, without r.mu; none is sent for no channel.
Command(from, to, channels, after) ==
    /\ worker.stage = from
    /\ \/ /\ remote' = after
          /\ doubted' = doubted \ channels
          /\ worker' = [worker EXCEPT !.stage = to]
          /\ UNCHANGED failures
       \/ /\ channels # {} /\ failures > 0
          /\ failures' = failures - 1
          /\ remote' \in {after, remote}
          /\ doubted' = doubted \cup channels
          /\ worker' = [worker EXCEPT !.stage = to, !.failed = @ \cup channels]
    /\ UNCHANGED <<reading, listVars, publishVars, exec, currentChannels, inbound, sent,
                   subVars, wakeup, ops, ppc>>

SubscribeInRedis ==
    Command("subscribing", "unsubscribing", worker.subscribe, remote \cup worker.subscribe)

UnsubscribeInRedis ==
    Command("unsubscribing", "merging", worker.unsubscribe, remote \ worker.unsubscribe)

\* Mutant of Merge: the channels that became dirty meanwhile are forgotten.
MergeForgetting ==
    /\ worker.stage = "merging" /\ Unlocked
    /\ Compare(worker.failed,
               (currentChannels \cup (worker.subscribe \ worker.failed))
                   \ (worker.unsubscribe \ worker.failed))

\* What failed is dirty again, what did not is current; and the next comparison
\* before r.mu is released.
Merge ==
    /\ worker.stage = "merging" /\ Unlocked
    /\ Compare(dirtyChannels \cup worker.failed,
               (currentChannels \cup (worker.subscribe \ worker.failed))
                   \ (worker.unsubscribe \ worker.failed))

----------------------------------------------------------------------------
\* exec: the goroutine that empties the queue of a channel.

\* Mutant of Check: the map loses the queue before it is drained.
CheckFirst(q) ==
    /\ exec[q] = "checking" /\ Unlocked
    /\ exec' = [exec EXCEPT ![q] = IF queued[q] = << >> THEN "ended" ELSE "draining"]
    /\ publishOps' = [publishOps EXCEPT ![Channel[q]] = None]
    /\ UNCHANGED <<reading, listVars, queued, accepted, workerVars, redisVars, subVars,
                   wakeup, ops, ppc>>

\* The queue is given up only when it is empty with r.mu held.
Check(q) ==
    /\ exec[q] = "checking" /\ Unlocked
    /\ IF queued[q] = << >>
       THEN /\ exec' = [exec EXCEPT ![q] = "ended"]
            /\ publishOps' = [publishOps EXCEPT ![Channel[q]] = None]
       ELSE /\ exec' = [exec EXCEPT ![q] = "draining"]
            /\ UNCHANGED publishOps
    /\ UNCHANGED <<reading, listVars, queued, accepted, workerVars, redisVars, subVars,
                   wakeup, ops, ppc>>

\* drain: to take the first message of the queue and to PUBLISH it are one step, as
\* nobody else takes from the queue.  An error is logged and the message is not tried
\* again, whether redis got it or not.
Send(q) ==
    LET m == Head(queued[q])
        c == Channel[q]
        arrives == inbound' = IF c \in remote THEN Append(inbound, m) ELSE inbound IN
    /\ exec[q] = "draining" /\ queued[q] # << >>
    /\ queued' = [queued EXCEPT ![q] = Tail(@)]
    /\ sent' = [sent EXCEPT ![c] = Append(@, m)]
    /\ \/ arrives /\ UNCHANGED failures
       \/ failures > 0 /\ failures' = failures - 1 /\ (arrives \/ UNCHANGED inbound)
    /\ UNCHANGED <<reading, listVars, publishOps, accepted, exec, workerVars, remote, doubted,
                   subVars, wakeup, ops, ppc>>

Drained(q) ==
    /\ exec[q] = "draining" /\ queued[q] = << >>
    /\ exec' = [exec EXCEPT ![q] = "checking"]
    /\ UNCHANGED <<reading, listVars, publishVars, workerVars, redisVars, subVars, wakeup, ops,
                   ppc>>

----------------------------------------------------------------------------
\* readWorker.

\* Those who get a message of c: all of subs[c], and one of queues[c], each in its turn.
Turn(c) == IF next[c] >= Len(queues[c]) THEN 0 ELSE next[c]

Targets(c) == subs[c] \o (IF queues[c] = << >> THEN << >> ELSE <<queues[c][Turn(c) + 1]>>)

Delivery(m) ==
    IF Targets(Channel[m]) = << >> THEN None ELSE [msg |-> m, targets |-> Targets(Channel[m])]

Receive ==
    /\ inbound # << >> /\ Unlocked
    /\ inbound' = Tail(inbound)
    /\ reading' = Delivery(Head(inbound))
    /\ LET c == Channel[Head(inbound)] IN
       next' = IF queues[c] = << >> THEN next ELSE [next EXCEPT ![c] = Turn(c) + 1]
    /\ UNCHANGED <<subs, queues, dirtyChannels, publishVars, exec, workerVars, remote,
                   failures, sent, doubted, subVars, wakeup, ops, ppc>>

\* Mutant of Write: it does not notice the cancellation.
WriteWaiting ==
    LET s == Head(reading.targets)
        rest == Tail(reading.targets) IN
    /\ reading # None
    /\ Len(msgChan[s]) < Size /\ msgChan' = [msgChan EXCEPT ![s] = Append(@, reading.msg)]
    /\ reading' = IF rest = << >> THEN None ELSE [reading EXCEPT !.targets = rest]
    /\ UNCHANGED <<listVars, publishVars, exec, workerVars, redisVars, spc, wakeup, ops,
                   ppc>>

\* write: the reader waits for room in the buffer or for the cancellation.
Write ==
    LET s == Head(reading.targets)
        rest == Tail(reading.targets) IN
    /\ reading # None
    /\ \/ Len(msgChan[s]) < Size /\ msgChan' = [msgChan EXCEPT ![s] = Append(@, reading.msg)]
       \/ spc[s] # "open" /\ UNCHANGED msgChan
    /\ reading' = IF rest = << >> THEN None ELSE [reading EXCEPT !.targets = rest]
    /\ UNCHANGED <<listVars, publishVars, exec, workerVars, redisVars, spc, wakeup, ops,
                   ppc>>

\* Another process publishes m.
Deliver(m) ==
    /\ m \in Foreign /\ ppc[m] = "idle"
    /\ ppc' = [ppc EXCEPT ![m] = "returned"]
    /\ inbound' = IF Channel[m] \in remote THEN Append(inbound, m) ELSE inbound
    /\ UNCHANGED <<reading, listVars, publishVars, exec, workerVars, remote, failures,
                   sent, doubted, subVars, wakeup, ops>>

----------------------------------------------------------------------------
WorkerStep == Wake \/ Drain \/ Reconciliation \/ SubscribeInRedis \/ UnsubscribeInRedis \/ Merge

ExecStep(q) == Check(q) \/ Send(q) \/ Drained(q)

Next ==
    \/ \E m \in Messages :
          Publish(m) \/ EnqueueExec(m) \/ ExecStep(m) \/ Deliver(m)
    \/ \E s \in Subscribers : Subscribe(s) \/ Cancel(s) \/ Unsubscribe(s) \/ Consume(s)
    \/ WorkerStep \/ Receive \/ Write

Spec == Init /\ [][Next]_vars

----------------------------------------------------------------------------
\* Types of the state; and a reading always has somebody to write to.
TypeOK ==
    /\ reading \in {None} \cup [msg : Messages, targets : Seq(Subscribers) \ {<< >>}]
    /\ subs \in [Channels -> Seq(Subscribers)] /\ queues \in [Channels -> Seq(Subscribers)]
    /\ next \in [Channels -> Nat]
    /\ dirtyChannels \subseteq Channels /\ currentChannels \subseteq Channels
    /\ wakeup \in BOOLEAN
    /\ ops \in Seq({Reconcile} \cup {Exec(q) : q \in Messages})
    /\ worker \in [stage : {"waiting", "draining", "comparing", "subscribing",
                            "unsubscribing", "merging"},
                   subscribe : SUBSET Channels, unsubscribe : SUBSET Channels,
                   failed : SUBSET Channels]
    /\ publishOps \in [Channels -> Messages \cup {None}]
    /\ queued \in [Messages -> Seq(Messages)]
    /\ exec \in [Messages -> {"none", "checking", "draining", "ended"}]
    /\ ppc \in [Messages -> {"idle", "calling", "enqueueing", "signalling", "returned"}]
    /\ spc \in [Subscribers -> {"new", "open", "cancelled", "closed"}]
    /\ msgChan \in [Subscribers -> Seq(Messages)]
    /\ remote \subseteq Channels /\ inbound \in Seq(Messages)
    /\ failures \in 0..Failures
    /\ accepted \in [Channels -> Seq(Messages)] /\ sent \in [Channels -> Seq(Messages)]
    /\ doubted \subseteq Channels

Elements(seq) == {seq[i] : i \in DOMAIN seq}

\* What Publish took of a channel and is still to be published in redis.
Pending(c) == IF publishOps[c] = None THEN << >> ELSE queued[publishOps[c]]

\* Redis is sent the messages of a channel in the order Publish took them, none twice
\* and none left out; the rest wait in the channel's queue.  Publish appends to the queue
\* of an exec that is about to give it up, or makes a new one, whichever gets r.mu first.
InOrder ==
    /\ TypeOK
    /\ \A c \in Channels : sent[c] \o Pending(c) = accepted[c]

\* The wakeup channel holds one token and a signal that finds it full is dropped: no
\* operation waits for a worker that sleeps with nobody to wake it, and no dirty
\* channel for a reconciliation nobody asked for; and a queue that Publish can find has
\* an exec to empty it, running or on its way.
WorkIsNeverForgotten ==
    /\ ops # << >> => \/ wakeup \/ worker.stage # "waiting"
                      \/ \E m \in Messages : ppc[m] = "signalling"
    /\ dirtyChannels # {} => \/ Reconcile \in Elements(ops)
                             \/ worker.stage \notin {"waiting", "draining"}
    /\ \A c \in Channels :
          LET q == publishOps[c] IN
          q # None => \/ ppc[q] = "enqueueing"
                      \/ Exec(q) \in Elements(ops)
                      \/ exec[q] \in {"checking", "draining"}

\* Subscriptions come and go while the worker talks to redis without r.mu.  A channel
\* that is neither dirty nor in its hands is in currentChannels iff it has
\* subscribers, and redis agrees unless the last command about it failed.
Reconciled ==
    \A c \in Channels \ (dirtyChannels \cup worker.subscribe \cup worker.unsubscribe) :
        /\ c \in currentChannels <=> c \in Desired
        /\ c \notin doubted => (c \in remote <=> c \in Desired)

\* The goroutine that subscribes for a reader has one more to make ...
ToSubscribe(s) == spc[s] = "new" /\ \E t \in Together(s) : spc[t] # "new"

\* ... and a leaver that has closed one subscription another to close.
ToClose(s) ==
    /\ spc[s] = "open" /\ Reader[s] \in Leavers
    /\ \E t \in Together(s) : spc[t] = "closed"
    /\ \A t \in Together(s) : spc[t] # "cancelled"

\* Whoever is to read s next is in a Publish, a Subscribe or a Close.
Waits(s) ==
    \/ \E m \in Messages : Author[m] = Reader[s] /\ ppc[m] = "calling"
    \/ ~AllMade(s)
    \/ Reader[s] \in Leavers /\ \E t \in Together(s) : spc[t] = "cancelled"

\* readWorker keeps r.mu while it waits for room in a buffer whose reader waits for r.mu:
\* to publish an answer, to make the next of its subscriptions before it reads any, or to
\* close another.  Only a cancellation of the full one by somebody else ends it.
Stuck ==
    /\ reading # None
    /\ LET s == Head(reading.targets) IN
       spc[s] = "open" /\ Len(msgChan[s]) = Size /\ Waits(s)

\* A goroutine of the process can take a step that nobody has to ask it for ...
Moving ==
    \/ \E m \in Messages : \/ ppc[m] # "idle" /\ ENABLED Publish(m)
                           \/ ENABLED EnqueueExec(m) \/ ENABLED ExecStep(m)
    \/ \E s \in Subscribers : \/ ENABLED Unsubscribe(s) \/ ENABLED Consume(s)
                              \/ ToSubscribe(s) /\ ENABLED Subscribe(s)
                              \/ ToClose(s) /\ ENABLED Cancel(s)
    \/ ENABLED WorkerStep \/ ENABLED Receive \/ ENABLED Write

\* ... and the guards of these steps.
CanGoOn ==
    \/ \E m \in Messages :
          \/ Unlocked /\ (ppc[m] = "calling" \/ exec[m] = "checking")
          \/ ppc[m] \in {"enqueueing", "signalling"} \/ exec[m] = "draining"
    \/ \E s \in Subscribers :
          \/ Unlocked /\ (spc[s] = "cancelled" \/ ToSubscribe(s))
          \/ msgChan[s] # << >> /\ Reads(s)
          \/ ToClose(s) /\ ~Busy(Reader[s])
    \/ worker.stage \in {"draining", "subscribing", "unsubscribing"}
    \/ worker.stage = "waiting" /\ wakeup
    \/ Unlocked /\ (worker.stage \in {"comparing", "merging"} \/ inbound # << >>)
    \/ /\ ~Unlocked
       /\ LET s == Head(reading.targets) IN Len(msgChan[s]) < Size \/ spc[s] # "open"

\* readWorker, which writes to lists it holds r.mu for, has none whose subscription
\* closed msgChan: it never sends on a closed channel.
WritesToOpen ==
    reading # None => \A i \in DOMAIN reading.targets : spc[reading.targets[i]] # "closed"

\* The bus comes to rest with all it took done, published, reconciled and read, and with
\* no Subscribe or Close that waits or was to follow, or stuck; and as no step undoes
\* another it comes to rest when it is left alone.
AtRest ==
    \/ CanGoOn \/ Stuck
    \/ /\ \A c \in Channels : publishOps[c] = None
       /\ worker.stage = "waiting" /\ ops = << >> /\ dirtyChannels = {}
       /\ reading = None /\ inbound = << >>
       /\ \A s \in Subscribers :
             msgChan[s] = << >> /\ spc[s] # "cancelled" /\ ~ToSubscribe(s) /\ ~ToClose(s)

\* The goroutines of the bus come to rest with all done (AtRest) and write to nobody who
\* is closed (WritesToOpen), and CanGoOn has no more than the guards of Moving.
RestsWhenDone == WritesToOpen /\ AtRest /\ (CanGoOn => Moving)

\* "The list of subscribers in memory is carried out in redis" (bus_redis.go:206, 316):
\* when the worker is done redis sends the process every channel it has subscribers of.
\* The code does not keep it: an UNSUBSCRIBE that reports an error and is carried out
\* leaves the channel current, and no later subscriber gets it subscribed.
CarriedOut ==
    worker.stage = "waiting" /\ ops = << >> => Desired \subseteq remote
=============================================================================
