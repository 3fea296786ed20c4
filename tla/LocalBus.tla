------------------------------ MODULE LocalBus ------------------------------
(***************************************************************************)
(* The in-process message bus, for one channel name: subscribers come and  *)
(* go while publishers dispatch, under the bus's and the list's locks.     *)
(*                                                                         *)
(*   internal/bus/bus_local.go      Publish, subscribe, onUnsubscribe,     *)
(*                                  create, dispatch, write, read, Close   *)
(*   internal/bus/subscription.go   the goroutine of newSubscription       *)
(*                                                                         *)
(* A section that only takes a lock, works and releases it is one step; a  *)
(* publisher keeps the list's lock across its writes, which may block.  A  *)
(* waiting writer keeps new readers out, as Go's RWMutex does.             *)
(***************************************************************************)
EXTENDS Integers, Sequences, FiniteSets

CONSTANTS
    Publishers,
    Subscribers,  \* each subscribes once and closes at most once
    Size,         \* the buffer of a subscription's channels
    Messages,     \* bound: the messages each publisher publishes
    None          \* no subscriber: nil in a list's slots, a lock nobody holds

ASSUME LocalBusAssumption ==
    /\ Size \in Nat \ {0} /\ Messages \in Nat
    /\ None \notin Publishers \cup Subscribers

\* A list is created by a subscriber, and so named by it.
Lists == Subscribers

VARIABLES
    queue,      \* the channel's subscriptions are queue subscriptions
    busHolder,  \* the subscriber that holds the bus's lock for writing
    current,    \* subs[channel], or queues[channel]: a list, or None
    slots,      \* slots[l]: the subs of list l
    subCount,   \* subCount[l]
    next,       \* next[l], from 0 as in the code
    listHolder, \* listHolder[l]: the publisher that holds l's lock for writing
    readers,    \* readers[l]: the publishers that hold it for reading
    spc,        \* spc[s]: where subscriber s is
    home,       \* home[s]: the list s is on
    msgChan,    \* msgChan[s]: the buffer the bus writes to
    msgClosed,  \* msgClosed[s]: msgChan is closed
    held,       \* held[s]: what the forwarding goroutine has read and not sent
    outChan,    \* outChan[s]: the buffer the consumer reads
    outClosed,  \* outClosed[s]: and whether it is closed
    ppc,        \* ppc[p]: where publisher p is
    list,       \* list[p]: the list p dispatches to
    cursor,     \* cursor[p]: the slot p is at, from 0
    start,      \* start[p]: startIndex
    sent,       \* sent[p]: the messages p has published or is publishing
    \* history
    got,        \* got[s]: the messages the consumer has read
    owed,       \* owed[p]: the subscribers open since p's Publish began
    panicked    \* a send on a closed channel

busVars == <<queue, busHolder, current>>
listVars == <<slots, subCount, next, listHolder, readers>>
subVars == <<spc, home>>
chanVars == <<msgChan, msgClosed, held, outChan, outClosed, got>>
pubVars == <<ppc, list, cursor, start, sent>>
vars == <<busVars, listVars, subVars, chanVars, pubVars, owed, panicked>>

Init ==
    /\ queue \in BOOLEAN
    /\ busHolder = None
    /\ current = None
    /\ slots = [l \in Lists |-> << >>]
    /\ subCount = [l \in Lists |-> 0]
    /\ next = [l \in Lists |-> 0]
    /\ listHolder = [l \in Lists |-> None]
    /\ readers = [l \in Lists |-> {}]
    /\ spc = [s \in Subscribers |-> "new"]
    /\ home = [s \in Subscribers |-> None]
    /\ msgChan = [s \in Subscribers |-> << >>]
    /\ msgClosed = [s \in Subscribers |-> FALSE]
    /\ held = [s \in Subscribers |-> << >>]
    /\ outChan = [s \in Subscribers |-> << >>]
    /\ outClosed = [s \in Subscribers |-> FALSE]
    /\ ppc = [p \in Publishers |-> "idle"]
    /\ list = [p \in Publishers |-> None]
    /\ cursor = [p \in Publishers |-> 0]
    /\ start = [p \in Publishers |-> 0]
    /\ sent = [p \in Publishers |-> 0]
    /\ got = [s \in Subscribers |-> << >>]
    /\ owed = [p \in Publishers |-> {}]
    /\ panicked = FALSE

Free(l) == listHolder[l] = None /\ readers[l] = {}

\* A subscriber that holds the bus's lock and waits for the list's.
WriterWaits(l) == \E s \in Subscribers : spc[s] \in {"adding", "removing"} /\ home[s] = l

----------------------------------------------------------------------------
\* Subscribers.

\* subscribe: under the bus's lock, the channel's list, or a new one.
Subscribe(s) ==
    /\ spc[s] = "new" /\ busHolder = None
    /\ busHolder' = s
    /\ spc' = [spc EXCEPT ![s] = "adding"]
    /\ current' = IF current = None THEN s ELSE current
    /\ home' = [home EXCEPT ![s] = current']
    /\ UNCHANGED <<queue, listVars, chanVars, pubVars, owed, panicked>>

\* Mutant of FreeSlots: the first slot is taken for free.
FirstSlot(l) == {1} \cap DOMAIN slots[l]

FreeSlots(l) == {i \in DOMAIN slots[l] : slots[l][i] = None}

\* create: the first free slot, or a new one at the end.
Add(s) ==
    LET l == home[s] IN
    /\ spc[s] = "adding" /\ Free(l)
    /\ slots' = [slots EXCEPT ![l] =
          IF FreeSlots(l) = {} THEN Append(@, s)
          ELSE [@ EXCEPT ![CHOOSE i \in FreeSlots(l) : \A j \in FreeSlots(l) : i <= j] = s]]
    /\ subCount' = [subCount EXCEPT ![l] = @ + 1]
    /\ busHolder' = None
    /\ spc' = [spc EXCEPT ![s] = "open"]
    /\ UNCHANGED <<queue, current, next, listHolder, readers, home, chanVars, pubVars,
                   owed, panicked>>

\* Close: the context is cancelled first.
Cancel(s) ==
    /\ spc[s] = "open"
    /\ spc' = [spc EXCEPT ![s] = "cancelled"]
    /\ owed' = [p \in Publishers |-> owed[p] \ {s}]
    /\ UNCHANGED <<busVars, listVars, home, chanVars, pubVars, panicked>>

\* onUnsubscribe: the bus's lock, then the list's.
Unsubscribe(s) ==
    /\ spc[s] = "cancelled" /\ busHolder = None
    /\ busHolder' = s
    /\ spc' = [spc EXCEPT ![s] = "removing"]
    /\ UNCHANGED <<queue, current, listVars, home, chanVars, pubVars, owed, panicked>>

\* Mutant of Emptied: off by one.
EmptiedEarly(l) == subCount[l] <= 2

\* The list goes with its last subscriber.
Emptied(l) == subCount[l] = 1

Remove(s) ==
    LET l == home[s] IN
    /\ spc[s] = "removing" /\ Free(l)
    /\ slots' = [slots EXCEPT ![l] = [i \in DOMAIN @ |-> IF @[i] = s THEN None ELSE @[i]]]
    /\ subCount' = [subCount EXCEPT ![l] = @ - 1]
    /\ current' = IF Emptied(l) THEN None ELSE current
    /\ busHolder' = None
    /\ spc' = [spc EXCEPT ![s] = "removed"]
    /\ UNCHANGED <<queue, next, listHolder, readers, home, chanVars, pubVars, owed,
                   panicked>>

CloseChan(s) ==
    /\ spc[s] = "removed"
    /\ spc' = [spc EXCEPT ![s] = "closed"]
    /\ msgClosed' = [msgClosed EXCEPT ![s] = TRUE]
    /\ UNCHANGED <<busVars, listVars, home, msgChan, held, outChan, outClosed, got,
                   pubVars, owed, panicked>>

\* newSubscription's goroutine reads the bus's channel until it is closed and
\* drained, and sends what it read to the consumer's.
Forward(s) ==
    /\ spc[s] # "new" /\ ~outClosed[s]
    /\ \/ /\ held[s] = << >> /\ msgChan[s] # << >>
          /\ held' = [held EXCEPT ![s] = <<Head(msgChan[s])>>]
          /\ msgChan' = [msgChan EXCEPT ![s] = Tail(@)]
          /\ UNCHANGED <<outChan, outClosed>>
       \/ /\ held[s] # << >> /\ Len(outChan[s]) < Size
          /\ outChan' = [outChan EXCEPT ![s] = @ \o held[s]]
          /\ held' = [held EXCEPT ![s] = << >>]
          /\ UNCHANGED <<msgChan, outClosed>>
       \/ /\ held[s] = << >> /\ msgChan[s] = << >> /\ msgClosed[s]
          /\ outClosed' = [outClosed EXCEPT ![s] = TRUE]
          /\ UNCHANGED <<msgChan, held, outChan>>
    /\ UNCHANGED <<busVars, listVars, subVars, msgClosed, got, pubVars, owed, panicked>>

Consume(s) ==
    /\ outChan[s] # << >>
    /\ got' = [got EXCEPT ![s] = Append(@, Head(outChan[s]))]
    /\ outChan' = [outChan EXCEPT ![s] = Tail(@)]
    /\ UNCHANGED <<busVars, listVars, subVars, msgChan, msgClosed, held, outClosed,
                   pubVars, owed, panicked>>

----------------------------------------------------------------------------
\* Publishers.

\* Publish reads the list under the bus's lock, and uses it after.
Publish(p) ==
    /\ ppc[p] = "idle" /\ sent[p] < Messages /\ busHolder = None
    /\ sent' = [sent EXCEPT ![p] = @ + 1]
    /\ list' = [list EXCEPT ![p] = current]
    /\ ppc' = [ppc EXCEPT ![p] = IF current = None THEN "idle" ELSE "locking"]
    /\ owed' = [owed EXCEPT ![p] = {s \in Subscribers : spc[s] = "open"}]
    /\ UNCHANGED <<busVars, listVars, subVars, chanVars, cursor, start, panicked>>

Dispatch(p) ==
    LET l == list[p] IN
    /\ ppc[p] = "locking"
    /\ IF queue
       THEN /\ Free(l)
            /\ listHolder' = [listHolder EXCEPT ![l] = p]
            /\ start' = [start EXCEPT ![p] = next[l]]
            /\ ppc' = [ppc EXCEPT ![p] = "scanning"]
            /\ UNCHANGED <<readers, cursor>>
       ELSE /\ listHolder[l] = None /\ ~WriterWaits(l)
            /\ readers' = [readers EXCEPT ![l] = @ \cup {p}]
            /\ cursor' = [cursor EXCEPT ![p] = 0]
            /\ ppc' = [ppc EXCEPT ![p] = "writing"]
            /\ UNCHANGED <<listHolder, start>>
    /\ UNCHANGED <<busVars, slots, subCount, next, subVars, chanVars, list, sent, owed,
                   panicked>>

Release(p) ==
    /\ listHolder' = [listHolder EXCEPT ![list[p]] = IF @ = p THEN None ELSE @]
    /\ readers' = [readers EXCEPT ![list[p]] = @ \ {p}]
    /\ ppc' = [ppc EXCEPT ![p] = "returning"]

\* One round of the loop over a queue's slots.
Scan(p) ==
    LET l == list[p]
        i == IF next[l] >= Len(slots[l]) THEN 0 ELSE next[l] IN
    /\ ppc[p] = "scanning"
    /\ IF slots[l] = << >>
       THEN Release(p) /\ UNCHANGED <<next, cursor>>
       ELSE /\ next' = [next EXCEPT ![l] = i + 1]
            /\ cursor' = [cursor EXCEPT ![p] = i]
            /\ IF slots[l][i + 1] # None
               THEN /\ ppc' = [ppc EXCEPT ![p] = "writing"]
                    /\ UNCHANGED <<listHolder, readers>>
               ELSE IF i + 1 = start[p]
                    THEN Release(p)
                    ELSE UNCHANGED <<ppc, listHolder, readers>>
    /\ UNCHANGED <<busVars, slots, subCount, subVars, chanVars, list, start, sent, owed,
                   panicked>>

\* After a write or an empty slot: a queue is done, a broadcast goes on.
Written(p) ==
    IF ~queue /\ cursor[p] + 1 < Len(slots[list[p]])
    THEN cursor' = [cursor EXCEPT ![p] = @ + 1] /\ UNCHANGED <<ppc, listHolder, readers>>
    ELSE Release(p) /\ UNCHANGED cursor

\* Mutant of Write: the write does not watch the subscriber's context.
WriteUncancelled(p) ==
    LET s == slots[list[p]][cursor[p] + 1] IN
    /\ ppc[p] = "writing"
    /\ IF s = None
       THEN UNCHANGED <<msgChan, panicked>>
       ELSE /\ Len(msgChan[s]) < Size
            /\ msgChan' = [msgChan EXCEPT ![s] = Append(@, <<p, sent[p]>>)]
            /\ UNCHANGED panicked
    /\ Written(p)
    /\ UNCHANGED <<busVars, slots, subCount, next, subVars, msgClosed, held, outChan,
                   outClosed, got, list, start, sent, owed>>

\* write blocks until there is room or the subscriber is cancelled; when both
\* hold, either may happen.  A send on a closed channel panics.
Write(p) ==
    LET s == slots[list[p]][cursor[p] + 1] IN
    /\ ppc[p] = "writing"
    /\ \/ s = None /\ UNCHANGED <<msgChan, panicked>>
       \/ /\ s # None /\ spc[s] # "open"
          /\ UNCHANGED <<msgChan, panicked>>
       \/ /\ s # None /\ msgClosed[s]
          /\ panicked' = TRUE
          /\ UNCHANGED msgChan
       \/ /\ s # None /\ ~msgClosed[s] /\ Len(msgChan[s]) < Size
          /\ msgChan' = [msgChan EXCEPT ![s] = Append(@, <<p, sent[p]>>)]
          /\ UNCHANGED panicked
    /\ Written(p)
    /\ UNCHANGED <<busVars, slots, subCount, next, subVars, msgClosed, held, outChan,
                   outClosed, got, list, start, sent, owed>>

Returned(p) ==
    /\ ppc[p] = "returning"
    /\ ppc' = [ppc EXCEPT ![p] = "idle"]
    /\ UNCHANGED <<busVars, listVars, subVars, chanVars, list, cursor, start, sent, owed,
                   panicked>>

----------------------------------------------------------------------------
SubscriberNext(s) ==
    \/ Subscribe(s) \/ Add(s) \/ Cancel(s) \/ Unsubscribe(s) \/ Remove(s) \/ CloseChan(s)
    \/ Forward(s) \/ Consume(s)

PublisherNext(p) ==
    Publish(p) \/ Dispatch(p) \/ Scan(p) \/ Write(p) \/ Returned(p)

Next ==
    \/ \E s \in Subscribers : SubscriberNext(s)
    \/ \E p \in Publishers : PublisherNext(p)

Spec == Init /\ [][Next]_vars

\* Goroutines run; a lock or a channel's slot, once asked for, is granted in turn
\* and not always to others; a consumer reads as long as its subscription is
\* open.  Nobody has to subscribe, to close or to publish.
Fairness ==
    /\ \A s \in Subscribers :
          /\ SF_vars(Add(s) \/ Unsubscribe(s) \/ Remove(s) \/ CloseChan(s))
          /\ WF_vars(Forward(s))
          /\ WF_vars(spc[s] = "open" /\ Consume(s))
    /\ \A p \in Publishers : SF_vars(Dispatch(p) \/ Scan(p) \/ Write(p) \/ Returned(p))

FairSpec == Spec /\ Fairness

----------------------------------------------------------------------------
\* Properties.

Slot == Subscribers \cup {None}
Message == Publishers \X (1..Messages)

TypeOK ==
    /\ queue \in BOOLEAN /\ busHolder \in Slot /\ current \in Lists \cup {None}
    /\ slots \in [Lists -> Seq(Slot)] /\ subCount \in [Lists -> Nat] /\ next \in [Lists -> Nat]
    /\ listHolder \in [Lists -> Publishers \cup {None}]
    /\ readers \in [Lists -> SUBSET Publishers]
    /\ spc \in [Subscribers -> {"new", "adding", "open", "cancelled", "removing",
                                "removed", "closed"}]
    /\ home \in [Subscribers -> Lists \cup {None}]
    /\ \A f \in {msgChan, held, outChan, got} : f \in [Subscribers -> Seq(Message)]
    /\ msgClosed \in [Subscribers -> BOOLEAN] /\ outClosed \in [Subscribers -> BOOLEAN]
    /\ ppc \in [Publishers -> {"idle", "locking", "scanning", "writing", "returning"}]
    /\ list \in [Publishers -> Lists \cup {None}]
    /\ \A f \in {cursor, start, sent} : f \in [Publishers -> Nat]
    /\ owed \in [Publishers -> SUBSET Subscribers] /\ panicked \in BOOLEAN

\* No subscriber is stranded: whenever nobody is changing the lists, those
\* subscribed are in the channel's current list, once each, and it counts them.
\* A list that lost its last subscriber is never the current one again.  And write
\* has no guard against a closed channel: that Close takes the subscriber off its list
\* first, under the lock every writer holds, keeps a Publish from panicking.
ListsConsistent ==
    /\ TypeOK /\ ~panicked
    /\ \A s \in Subscribers :
          spc[s] \in {"open", "cancelled", "removing"} =>
              /\ home[s] = current
              /\ Cardinality({i \in DOMAIN slots[current] : slots[current][i] = s}) = 1
    /\ busHolder = None =>
          (current # None) = (\E s \in Subscribers : spc[s] \in {"open", "cancelled"})
    /\ current # None =>
          subCount[current] = Cardinality({i \in DOMAIN slots[current] :
                                              slots[current][i] # None})

Elements(q) == {q[i] : i \in DOMAIN q}

Received(s) == Elements(got[s] \o outChan[s] \o held[s] \o msgChan[s])

\* A published message reaches every subscriber that was open before the Publish and
\* still is, whatever joins and leaves meanwhile; a queued one reaches one at most, and
\* none only if a subscriber was closing.
Delivered ==
    /\ \A p \in Publishers : ppc[p] = "returning" /\ ~queue =>
          \A s \in owed[p] : <<p, sent[p]>> \in Received(s)
    /\ queue =>
          /\ \A m \in Message : Cardinality({s \in Subscribers : m \in Received(s)}) <= 1
          /\ \A p \in Publishers :
                /\ ppc[p] = "returning" /\ owed[p] # {}
                /\ \A s \in Subscribers : spc[s] \in {"new", "adding", "open"}
                => \E s \in Subscribers : <<p, sent[p]>> \in Received(s)

\* What goroutines do unasked; the consumer of an open subscription reads.
Progress ==
    \/ \E s \in Subscribers :
          \/ Add(s) \/ Unsubscribe(s) \/ Remove(s) \/ CloseChan(s) \/ Forward(s)
          \/ spc[s] = "open" /\ Consume(s)
    \/ \E p \in Publishers : Dispatch(p) \/ Scan(p) \/ Write(p) \/ Returned(p)

\* A goroutine can go on: the guards of the steps of Progress.
CanGoOn ==
    \/ \E s \in Subscribers :
          \/ spc[s] \in {"adding", "removing"} /\ Free(home[s])
          \/ spc[s] = "cancelled" /\ busHolder = None
          \/ spc[s] = "removed"
          \/ /\ spc[s] # "new" /\ ~outClosed[s]
             /\ IF held[s] = << >> THEN msgChan[s] # << >> \/ msgClosed[s]
                                   ELSE Len(outChan[s]) < Size
          \/ spc[s] = "open" /\ outChan[s] # << >>
    \/ \E p \in Publishers :
          \/ ppc[p] \in {"scanning", "returning"}
          \/ /\ ppc[p] = "locking"
             /\ IF queue THEN Free(list[p])
                         ELSE listHolder[list[p]] = None /\ ~WriterWaits(list[p])
          \/ /\ ppc[p] = "writing"
             /\ LET s == slots[list[p]][cursor[p] + 1] IN
                s = None \/ spc[s] # "open" \/ msgClosed[s] \/ Len(msgChan[s]) < Size

\* A Publish keeps the list's lock while it waits for room, and a Close the bus's while
\* it waits for that lock: still, when nothing can go on, every Publish has returned,
\* every Close has, and, as bus_test.go says, a "closed subscription channel should not
\* block": a read finds it closed or a message left in it.
AtRest ==
    ~CanGoOn =>
        /\ busHolder = None /\ \A p \in Publishers : ppc[p] = "idle"
        /\ \A s \in Subscribers :
              /\ spc[s] \in {"new", "open", "closed"}
              /\ spc[s] = "closed" => outClosed[s] \/ outChan[s] # << >>

\* The goroutines of the code come to rest with all done (AtRest), and the guards it is
\* stated with are those of the steps: where one holds, a goroutine can take a step.
RestsWhenDone == AtRest /\ (CanGoOn => ENABLED Progress)

\* The comment in dispatch: the infinite loop over an all-nil list was fixed.  It was
\* not where next was 0: a list whose subscribers are all gone is scanned for ever.
PublishEnds == \A p \in Publishers : ppc[p] # "idle" ~> ppc[p] = "idle"
=============================================================================
