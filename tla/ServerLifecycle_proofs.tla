----------------------- MODULE ServerLifecycle_proofs -----------------------
(***************************************************************************)
(* Theorems about ServerLifecycle, for any handlers, keys, requests and    *)
(* calls of Close and DeregisterHandler.                                   *)
(***************************************************************************)
EXTENDS ServerLifecycle, FiniteSetTheorems, TLAPS

----------------------------------------------------------------------------
\* The inductive invariant.

\* Insert has put h in the map.
Placed(h) == reg[h] \in {"inserted", "running", "ended"}

\* Only what was in the map is closed, and it leaves the map as it is complete.
InPlace ==
    /\ \A k \in Keys :
          handlers[k] # None =>
              /\ Placed(handlers[k]) /\ Key[handlers[k]] = k
              /\ hpc[handlers[k]] # "complete"
    /\ \A c \in Closers : \A h \in snapshot[c] : Placed(h)
    /\ \A d \in Removers : found[d] # None => Placed(found[d])
    /\ \A h \in Handlers :
          /\ hpc[h] # "open" => Placed(h)
          /\ reg[h] = "ended" => hpc[h] = "complete"
          /\ hpc[h] \in {"released", "complete"} => h \notin subscribed

\* The WaitGroup counts the handlers that were counted and not released.
ActiveCounts == active = Cardinality(Counted)

OwedAreDone ==
    \A c \in Closers : \A h \in owed[c] :
        /\ reg[h] \in {"counted", "inserted", "running", "ended"}
        /\ cpc[c] = "returned" /\ ~Forced[c] /\ ~panicked => hpc[h] \in {"released", "complete"}

\* A request is in one place of a handler at a time, and a handler that closes waits
\* for none that is still to begin.
RequestsPass ==
    \A h \in Handlers :
        /\ inbox[h] \cup spawned[h] \cup handling[h] \cup before[h] \subseteq sent
        /\ spawned[h] \cap inbox[h] = {}
        /\ (handling[h] \cup before[h]) \cap (inbox[h] \cup spawned[h]) = {}

\* From the read of the map on, the streams let in before it are racing, and no
\* other is let in.
Awaits ==
    \A h \in Handlers :
        /\ (streaming \/ ~force[h]) /\ hpc[h] \in {"woken", "drained", "released", "complete"} =>
              before[h] \cap handling[h] = {}
        /\ streaming /\ hpc[h] \notin {"open", "draining"} =>
              handling[h] \subseteq racing[h] \cup ending[h] /\ spawned[h] \subseteq racing[h]

\* Live(h): the key was found vacant for h, which is not complete.
Live(h) == /\ reg[h] \in {"vacant", "created", "counted", "inserted", "running"}
           /\ hpc[h] # "complete"
Raced(k) == \E g \in raced : Key[g] = k

\* Two handlers live with one key, or one out of the map, have raced.
RacesKnown ==
    \A h \in Handlers :
        /\ \A g \in Handlers \ {h} : Key[g] = Key[h] /\ Live(g) /\ Live(h) => Raced(Key[h])
        /\ Placed(h) /\ hpc[h] # "complete" /\ handlers[Key[h]] # h => Raced(Key[h])

Inv == /\ TypeOK /\ InPlace /\ ActiveCounts /\ OwedAreDone /\ RequestsPass /\ Awaits
       /\ RacesKnown

----------------------------------------------------------------------------
\* A handler goes one way only.

RegStep(h) ==
    \/ reg'[h] = reg[h]
    \/ reg[h] = "idle" /\ reg'[h] \in {"checking", "refused"}
    \/ reg[h] = "checking" /\ reg'[h] \in {"vacant", "refused"}
    \/ reg[h] = "vacant" /\ reg'[h] \in {"created", "refused"}
    \/ reg[h] = "created" /\ reg'[h] = "counted"
    \/ reg[h] = "counted" /\ reg'[h] = "inserted"
    \/ reg[h] = "inserted" /\ reg'[h] = "running"
    \/ reg[h] = "running" /\ reg'[h] = "ended" /\ hpc[h] = "complete"

HpcStep(h) ==
    \/ hpc'[h] = hpc[h]
    \/ hpc[h] = "open" /\ hpc'[h] = "draining" /\ CloseCalls(h) # {}
    \/ hpc[h] = "draining" /\ hpc'[h] \in {"waiting", "drained"}
    \/ hpc[h] = "waiting" /\ hpc'[h] = "woken"
    \/ hpc[h] = "woken" /\ hpc'[h] = "drained"
    \/ hpc[h] = "drained" /\ hpc'[h] = "released"
    \/ hpc[h] = "released" /\ hpc'[h] = "complete"

\* What a step does, whatever part of the server takes it.
Onward ==
    /\ \A h \in Handlers : RegStep(h) /\ HpcStep(h)
    /\ panicked \in BOOLEAN /\ streaming' = streaming /\ (panicked => panicked')
    /\ raced \subseteq raced'
    /\ reg' \in [Handlers -> {"idle", "checking", "vacant", "created", "counted", "inserted",
                              "running", "ended", "refused"}]
    /\ hpc' \in [Handlers -> {"open", "draining", "waiting", "woken", "drained", "released",
                              "complete"}]

\* A registration moves its own handler on, and none is closed by it.
LEMMA RegisterOnward ==
    ASSUME TypeOK, NEW h \in Handlers, RegisterNext(h)
    PROVE  Onward /\ hpc' = hpc /\ \A g \in Handlers \ {h} : reg'[g] = reg[g]
<1> USE DEF registerVars, requestVars, serverVars, handlerVars, callVars, TypeOK
<1>1. /\ panicked' = panicked /\ streaming' = streaming /\ hpc' = hpc /\ raced \subseteq raced'
  BY DEF RegisterNext, CheckShutdown, CheckVacant, Create, CreateStream, Subscribes, Count,
         Insert, Run
<1>2. \E r \in {"checking", "vacant", "created", "counted", "inserted", "running", "refused"} :
         reg' = [reg EXCEPT ![h] = r]
  BY DEF RegisterNext, CheckShutdown, CheckVacant, Create, CreateStream, Subscribes, Count,
         Insert, Run
<1>3. RegStep(h)
  BY DEF RegisterNext, CheckShutdown, CheckVacant, Create, CreateStream, Subscribes, Count,
         Insert, Run, RegStep
<1>4. \A g \in Handlers \ {h} : reg'[g] = reg[g]
  BY <1>2
<1> QED
  BY <1>1, <1>2, <1>3, <1>4 DEF Onward, RegStep, HpcStep

\* A request moves no registration; its end may wake the close that waits for it.
LEMMA RequestOnward ==
    ASSUME TypeOK, NEW q \in Requests, Arrive(q) \/ \E h \in Handlers : RequestNext(h, q)
    PROVE  Onward
<1> USE DEF registerVars, requestVars, serverVars, handlerVars, callVars, TypeOK
<1>1. /\ panicked' = panicked /\ streaming' = streaming /\ reg' = reg /\ raced' = raced
  BY DEF RequestNext, Arrive, Take, Begin, NotClaimed, EndStream, Finish
<1>2. /\ \A g \in Handlers : hpc'[g] = hpc[g] \/ (hpc[g] = "waiting" /\ hpc'[g] = "woken")
      /\ hpc' \in [Handlers -> {"open", "draining", "waiting", "woken", "drained", "released",
                               "complete"}]
  <2>1. ASSUME NEW h \in Handlers, Finish(h, q)
        PROVE  /\ \A g \in Handlers : hpc'[g] = hpc[g] \/ (hpc[g] = "waiting" /\ hpc'[g] = "woken")
               /\ hpc' \in [Handlers -> {"open", "draining", "waiting", "woken", "drained",
                                        "released", "complete"}]
    BY <2>1 DEF Finish
  <2> QED
    BY <2>1 DEF RequestNext, Arrive, Take, Begin, NotClaimed, EndStream
<1> QED
  BY <1>1, <1>2 DEF Onward, RegStep, HpcStep

\* A step of a handler's close or loop moves that handler alone.
LEMMA HandlerCloseOnward ==
    ASSUME TypeOK, NEW h \in Handlers, HandlerCloseNext(h)
    PROVE  Onward /\ \A g \in Handlers \ {h} : reg'[g] = reg[g] /\ hpc'[g] = hpc[g]
<1> USE DEF registerVars, requestVars, serverVars, handlerVars, callVars, TypeOK
<1>1. /\ streaming' = streaming /\ raced' = raced /\ (panicked => panicked')
  BY DEF HandlerCloseNext, CloseOnce, Drain, DrainStreams, Drained, Release, Remove, LoopEnds
<1>2. \/ hpc' = hpc
      \/ \E p \in {"draining", "waiting", "drained", "released", "complete"} :
            hpc' = [hpc EXCEPT ![h] = p]
  BY DEF HandlerCloseNext, CloseOnce, Drain, DrainStreams, Drained, Release, Remove, LoopEnds
<1>3. reg' = reg \/ reg' = [reg EXCEPT ![h] = "ended"]
  BY DEF HandlerCloseNext, CloseOnce, Drain, DrainStreams, Drained, Release, Remove, LoopEnds
<1>4. RegStep(h)
  BY DEF HandlerCloseNext, CloseOnce, Drain, DrainStreams, Drained, Release, Remove, LoopEnds,
         RegStep
<1>5. HpcStep(h)
  <2>1. CASE CloseOnce(h)
    BY <2>1 DEF CloseOnce, HpcStep
  <2>2. CASE Drain(h) \/ DrainStreams(h) \/ Drained(h)
    BY <2>2 DEF Drain, DrainStreams, Drained, HpcStep
  <2>3. CASE Release(h) \/ Remove(h) \/ LoopEnds(h)
    BY <2>3 DEF Release, Remove, LoopEnds, HpcStep
  <2> QED
    BY <2>1, <2>2, <2>3 DEF HandlerCloseNext
<1>6. \A g \in Handlers \ {h} : reg'[g] = reg[g] /\ hpc'[g] = hpc[g]
  BY <1>2, <1>3
<1> QED
  BY <1>1, <1>2, <1>3, <1>4, <1>5, <1>6 DEF Onward, RegStep, HpcStep

\* The calls of Close and DeregisterHandler move no handler themselves.
LEMMA CallOnward ==
    ASSUME TypeOK, (\E d \in Removers : RemoverNext(d)) \/ (\E c \in Closers : CloserNext(c))
    PROVE  Onward /\ UNCHANGED <<reg, hpc, handlers, active, subscribed, requestVars, force,
                                 before, racing, raced, streaming>>
<1> USE DEF registerVars, requestVars, serverVars, handlerVars, callVars, TypeOK
<1>1. UNCHANGED <<reg, hpc, handlers, active, subscribed, requestVars, force, before, racing,
                  raced, streaming>> /\ (panicked => panicked')
  <2>1. \A d \in Removers : RemoverNext(d) =>
           UNCHANGED <<registerVars, requestVars, serverVars, handlerVars, panicked, raced>>
    BY DEF RemoverNext, Deregister, Deregistered
  <2>2. \A c \in Closers : CloserNext(c) =>
           /\ UNCHANGED <<registerVars, requestVars, streaming, handlers, handlerVars, raced>>
           /\ ~panicked
    BY DEF CloserNext, Close, HandlersClosed, CloseAgain, AwaitActive, ActiveDone
  <2> QED
    BY <2>1, <2>2
<1> QED
  BY <1>1 DEF Onward, RegStep, HpcStep

\* No step takes a handler back.
LEMMA AllOnward ==
    ASSUME TypeOK, Next
    PROVE  Onward
  BY RegisterOnward, RequestOnward, HandlerCloseOnward, CallOnward DEF Next

----------------------------------------------------------------------------
\* The parts of the invariant.

\* The types of what the parts are about, one by one.
LEMMA Types ==
    ASSUME TypeOK
    PROVE  /\ inbox \in [Handlers -> SUBSET Requests] /\ spawned \in [Handlers -> SUBSET Requests]
           /\ handling \in [Handlers -> SUBSET Requests]
           /\ ending \in [Handlers -> SUBSET Requests]
           /\ before \in [Handlers -> SUBSET Requests] /\ racing \in [Handlers -> SUBSET Requests]
           /\ snapshot \in [Closers -> SUBSET Handlers] /\ owed \in [Closers -> SUBSET Handlers]
           /\ found \in [Removers -> Handlers \cup {None}]
           /\ handlers \in [Keys -> Handlers \cup {None}]
           /\ force \in [Handlers -> BOOLEAN]
  BY DEF TypeOK

\* What a closer has to close was in the map.
LEMMA ClosedIsPlaced ==
    ASSUME TypeOK, InPlace, NEW h \in Handlers, CloseCalls(h) # {}
    PROVE  Placed(h)
<1>1. \/ \E c \in Closers : h \in snapshot[c]
      \/ \E d \in Removers : found[d] = h
  BY DEF CloseCalls
<1> QED
  BY <1>1, ServerLifecycleAssumption DEF InPlace

\* How the map changes.
LEMMA MapSteps ==
    ASSUME TypeOK, Next
    PROVE  \/ handlers' = handlers /\ \A h \in Handlers : hpc'[h] = "complete" => hpc[h] = "complete"
           \/ \E h \in Handlers :
                 \/ /\ reg[h] = "counted" /\ handlers' = [handlers EXCEPT ![Key[h]] = h]
                    /\ reg' = [reg EXCEPT ![h] = "inserted"] /\ hpc' = hpc
                 \/ /\ hpc[h] = "released" /\ handlers' = [handlers EXCEPT ![Key[h]] = None]
                    /\ hpc' = [hpc EXCEPT ![h] = "complete"] /\ reg' = reg
<1> USE DEF registerVars, requestVars, serverVars, handlerVars, callVars, TypeOK
<1>1. ASSUME NEW h \in Handlers, RegisterNext(h)
      PROVE  \/ handlers' = handlers /\ hpc' = hpc
             \/ /\ reg[h] = "counted" /\ handlers' = [handlers EXCEPT ![Key[h]] = h]
                /\ reg' = [reg EXCEPT ![h] = "inserted"] /\ hpc' = hpc
  BY <1>1 DEF RegisterNext, CheckShutdown, CheckVacant, Create, CreateStream, Subscribes, Count,
              Insert, Run
<1>2. ASSUME NEW h \in Handlers, HandlerCloseNext(h)
      PROVE  \/ handlers' = handlers /\ \A g \in Handlers : hpc'[g] = "complete" => hpc[g] = "complete"
             \/ /\ hpc[h] = "released" /\ handlers' = [handlers EXCEPT ![Key[h]] = None]
                /\ hpc' = [hpc EXCEPT ![h] = "complete"] /\ reg' = reg
  BY <1>2 DEF HandlerCloseNext, CloseOnce, Drain, DrainStreams, Drained, Release, Remove, LoopEnds
<1>3. ASSUME NEW q \in Requests, Arrive(q) \/ \E h \in Handlers : RequestNext(h, q)
      PROVE  handlers' = handlers /\ \A g \in Handlers : hpc'[g] = "complete" => hpc[g] = "complete"
  <2>1. handlers' = handlers
    BY <1>3 DEF RequestNext, Arrive, Take, Begin, NotClaimed, EndStream, Finish
  <2>2. ASSUME NEW h \in Handlers, Finish(h, q)
        PROVE  \A g \in Handlers : hpc'[g] = "complete" => hpc[g] = "complete"
    BY <2>2 DEF Finish
  <2> QED
    BY <1>3, <2>1, <2>2 DEF RequestNext, Arrive, Take, Begin, NotClaimed, EndStream
<1> QED
  BY <1>1, <1>2, <1>3, CallOnward DEF Next

\* A handler is closed only from the map, and off the bus when it is released.
LEMMA InPlaceStep ==
    ASSUME TypeOK, InPlace, Next
    PROVE  InPlace'
<1>0. Onward
  BY AllOnward
<1>1. \A h \in Handlers : Placed(h) => Placed(h)'
  BY <1>0 DEF Onward, RegStep, Placed
<1>2. ASSUME NEW k \in Keys, handlers'[k] # None
      PROVE  /\ Placed(handlers[k])' /\ Key[handlers'[k]] = k
             /\ hpc'[handlers'[k]] # "complete"
  <2>1. CASE handlers' = handlers /\ \A h \in Handlers : hpc'[h] = "complete" => hpc[h] = "complete"
    <3>1. handlers[k] \in Handlers
      BY <1>2, <2>1, Types
    <3>2. Placed(handlers[k]) /\ Key[handlers[k]] = k /\ hpc[handlers[k]] # "complete"
      BY <1>2, <2>1 DEF InPlace
    <3>3. Placed(handlers[k])'
      BY <1>0, <2>1, <3>1, <3>2 DEF Onward, RegStep, Placed
    <3> QED
      BY <2>1, <3>1, <3>2, <3>3
  <2>2. ASSUME NEW h \in Handlers, reg[h] = "counted", handlers' = [handlers EXCEPT ![Key[h]] = h],
               reg' = [reg EXCEPT ![h] = "inserted"], hpc' = hpc
        PROVE  /\ Placed(handlers[k])' /\ Key[handlers'[k]] = k
               /\ hpc'[handlers'[k]] # "complete"
    <3>1. CASE k = Key[h]
      <4>1. handlers'[k] = h /\ reg'[h] = "inserted" /\ hpc[h] = "open"
        BY <2>2, <3>1, Types DEF TypeOK, InPlace, Placed
      <4> QED
        BY <2>2, <3>1, <4>1 DEF Placed
    <3>2. CASE k # Key[h]
      <4>1. handlers'[k] = handlers[k] /\ handlers[k] \in Handlers
        BY <1>2, <2>2, <3>2, Types
      <4>2. Placed(handlers[k]) /\ Key[handlers[k]] = k /\ hpc[handlers[k]] # "complete"
        BY <1>2, <4>1 DEF InPlace
      <4>3. Placed(handlers[k])'
        BY <1>0, <4>1, <4>2 DEF Onward, RegStep, Placed
      <4> QED
        BY <2>2, <4>1, <4>2, <4>3
    <3> QED
      BY <3>1, <3>2
  <2>3. ASSUME NEW h \in Handlers, handlers' = [handlers EXCEPT ![Key[h]] = None],
               hpc' = [hpc EXCEPT ![h] = "complete"], reg' = reg
        PROVE  /\ Placed(handlers[k])' /\ Key[handlers'[k]] = k
               /\ hpc'[handlers'[k]] # "complete"
    <3>1. k # Key[h] /\ handlers'[k] = handlers[k] /\ handlers[k] \in Handlers
      BY <1>2, <2>3, Types
    <3>2. Placed(handlers[k]) /\ Key[handlers[k]] = k /\ hpc[handlers[k]] # "complete"
      BY <1>2, <3>1 DEF InPlace
    <3>3. hpc'[handlers[k]] = hpc[handlers[k]]
      BY <2>3, <3>1, <3>2 DEF TypeOK
    <3> QED
      BY <2>3, <3>1, <3>2, <3>3 DEF Placed
  <2> QED
    BY <2>1, <2>2, <2>3, MapSteps
<1>3. /\ \A c \in Closers : \A h \in snapshot'[c] :
            h \in snapshot[c] \/ \E k \in Keys : h = handlers[k] /\ h # None
      /\ \A d \in Removers : found'[d] # None =>
            found'[d] = found[d] \/ \E k \in Keys : found'[d] = handlers[k]
  <2> USE DEF registerVars, requestVars, serverVars, handlerVars, callVars
  <2>1. ASSUME NEW h \in Handlers, RegisterNext(h) \/ HandlerCloseNext(h)
        PROVE  UNCHANGED <<snapshot, found>>
    BY <2>1 DEF RegisterNext, CheckShutdown, CheckVacant, Create, CreateStream, Subscribes,
       Count, Insert, Run, HandlerCloseNext, CloseOnce, Drain, DrainStreams, Drained, Release,
       Remove, LoopEnds
  <2>2. ASSUME NEW q \in Requests, Arrive(q) \/ \E h \in Handlers : RequestNext(h, q)
        PROVE  UNCHANGED <<snapshot, found>>
    BY <2>2 DEF RequestNext, Arrive, Take, Begin, NotClaimed, EndStream, Finish
  <2>3. ASSUME NEW d \in Removers, RemoverNext(d)
        PROVE  /\ snapshot' = snapshot
               /\ found' = found \/ (Removed[d] \in Keys /\ found' = [found EXCEPT ![d] = handlers[Removed[d]]])
    BY <2>3, ServerLifecycleAssumption DEF RemoverNext, Deregister, Deregistered
  <2>4. ASSUME NEW c \in Closers, CloserNext(c)
        PROVE  /\ found' = found
               /\ \/ snapshot' = snapshot
                  \/ snapshot' = [snapshot EXCEPT ![c] = {handlers[k] : k \in Keys} \ {None}]
    BY <2>4 DEF CloserNext, Close, HandlersClosed, CloseAgain, AwaitActive, ActiveDone
  <2> QED
    BY <2>1, <2>2, <2>3, <2>4, Types DEF Next
<1>4. \A c \in Closers : \A h \in snapshot'[c] : Placed(h)'
  <2>1. \A c \in Closers : snapshot[c] \subseteq Handlers
    BY Types
  <2>2. \A k \in Keys : handlers[k] # None => handlers[k] \in Handlers
    BY Types
  <2> QED
    BY <1>1, <1>3, <2>1, <2>2 DEF InPlace
<1>5. \A d \in Removers : found'[d] # None => Placed(found[d])'
  <2>1. ASSUME NEW d \in Removers, found'[d] # None
        PROVE  found'[d] \in Handlers /\ Placed(found'[d])
    BY <1>3, <2>1, Types DEF InPlace
  <2> QED
    BY <1>0, <2>1 DEF Onward, RegStep, Placed
<1>6. \A h \in Handlers : hpc'[h] # "open" => Placed(h)'
  <2>1. \A h \in Handlers : hpc'[h] # "open" => hpc[h] # "open" \/ CloseCalls(h) # {}
    BY <1>0 DEF Onward, HpcStep
  <2> QED
    BY <1>1, <2>1, ClosedIsPlaced DEF InPlace
<1>7. \A h \in Handlers : reg'[h] = "ended" => hpc'[h] = "complete"
  BY <1>0 DEF Onward, RegStep, HpcStep, InPlace
<1>8. ASSUME NEW h \in Handlers, hpc'[h] \in {"released", "complete"}
      PROVE  h \notin subscribed'
  <2> USE DEF registerVars, requestVars, serverVars, handlerVars, callVars
  <2>1. /\ hpc[h] \in {"released", "complete"} => h \notin subscribed
        /\ hpc[h] # "open" => reg[h] # "vacant"
    BY DEF InPlace, Placed
  <2>2. ASSUME NEW g \in Handlers, RegisterNext(g)
        PROVE  /\ hpc' = hpc
               /\ subscribed' = subscribed \/ (reg[g] = "vacant" /\ subscribed' = subscribed \cup {g})
    BY <2>2 DEF RegisterNext, CheckShutdown, CheckVacant, Create, CreateStream, Subscribes,
       Count, Insert, Run
  <2>3. ASSUME NEW g \in Handlers, HandlerCloseNext(g)
        PROVE  /\ subscribed' \subseteq subscribed
               /\ \/ hpc'[h] = "released" => hpc[h] = "released"
                  \/ h \notin subscribed'
    BY <2>3 DEF HandlerCloseNext, CloseOnce, Drain, DrainStreams, Drained, Release, Remove,
       LoopEnds, TypeOK
  <2>4. ASSUME NEW q \in Requests, Arrive(q) \/ \E g \in Handlers : RequestNext(g, q)
        PROVE  subscribed' = subscribed /\ (hpc'[h] = "released" => hpc[h] = "released")
    <3>1. subscribed' = subscribed
      BY <2>4 DEF RequestNext, Arrive, Take, Begin, NotClaimed, EndStream, Finish
    <3>2. ASSUME NEW g \in Handlers, Finish(g, q)
          PROVE  hpc'[h] = "released" => hpc[h] = "released"
      BY <3>2 DEF Finish, TypeOK
    <3> QED
      BY <2>4, <3>1, <3>2 DEF RequestNext, Arrive, Take, Begin, NotClaimed, EndStream
  <2>5. hpc'[h] = "complete" => hpc[h] \in {"released", "complete"}
    BY <1>0 DEF Onward, HpcStep
  <2> QED
    BY <1>8, <2>1, <2>2, <2>3, <2>4, <2>5, CallOnward DEF Next
<1> QED
  BY <1>2, <1>4, <1>5, <1>6, <1>7, <1>8 DEF InPlace

\* The WaitGroup is counted up and down with the handlers.
LEMMA ActiveStep ==
    ASSUME TypeOK, InPlace, ActiveCounts, Next
    PROVE  ActiveCounts' /\ active' \in 0..Cardinality(Handlers)
<1>1. IsFiniteSet(Counted) /\ Counted \subseteq Handlers
  BY ServerLifecycleAssumption, FS_Subset DEF Counted
<1>2. Onward
  BY AllOnward
<1>3. ASSUME NEW h \in Handlers, Count(h)
      PROVE  ActiveCounts'
  <2>1. hpc[h] = "open" /\ reg[h] = "created"
    BY <1>3 DEF Count, InPlace, Placed
  <2>2. active' = active + 1 /\ reg' = [reg EXCEPT ![h] = "counted"] /\ hpc' = hpc
    BY <1>3 DEF Count, handlerVars
  <2>3. Counted' = Counted \cup {h} /\ h \notin Counted
    BY <2>1, <2>2 DEF Counted, TypeOK
  <2> QED
    BY <1>1, <2>2, <2>3, FS_AddElement DEF ActiveCounts
<1>4. ASSUME NEW h \in Handlers, Release(h)
      PROVE  ActiveCounts'
  <2>1. hpc[h] = "drained" /\ reg[h] \in {"inserted", "running", "ended"}
    BY <1>4 DEF Release, InPlace, Placed
  <2>2. active' = active - 1 /\ hpc' = [hpc EXCEPT ![h] = "released"] /\ reg' = reg
    BY <1>4 DEF Release
  <2>3. Counted' = Counted \ {h} /\ h \in Counted
    BY <2>1, <2>2 DEF Counted, TypeOK
  <2> QED
    BY <1>1, <2>2, <2>3, FS_RemoveElement DEF ActiveCounts
<1>5. ASSUME active' = active,
             \A h \in Handlers : /\ reg[h] = "created" => reg'[h] # "counted"
                                 /\ hpc[h] = "drained" => hpc'[h] # "released"
      PROVE  ActiveCounts'
  <2>1. \A h \in Handlers :
           reg'[h] \in {"counted", "inserted", "running", "ended"}
             <=> reg[h] \in {"counted", "inserted", "running", "ended"}
    BY <1>2, <1>5 DEF Onward, RegStep
  <2>2. \A h \in Handlers :
           hpc'[h] \in {"released", "complete"} <=> hpc[h] \in {"released", "complete"}
    BY <1>2, <1>5 DEF Onward, HpcStep
  <2>3. Counted' = Counted
    BY <2>1, <2>2 DEF Counted
  <2> QED
    BY <1>5, <2>3 DEF ActiveCounts
<1>6. ActiveCounts'
  <2> USE DEF registerVars, requestVars, serverVars, handlerVars, callVars
  <2>1. ASSUME NEW h \in Handlers, RegisterNext(h), ~Count(h)
        PROVE  /\ active' = active
               /\ \A g \in Handlers : /\ reg[g] = "created" => reg'[g] # "counted"
                                      /\ hpc[g] = "drained" => hpc'[g] # "released"
    BY <2>1 DEF RegisterNext, CheckShutdown, CheckVacant, Create, CreateStream, Subscribes,
       Insert, Run, TypeOK
  <2>2. ASSUME NEW h \in Handlers, HandlerCloseNext(h), ~Release(h)
        PROVE  /\ active' = active
               /\ \A g \in Handlers : /\ reg[g] = "created" => reg'[g] # "counted"
                                      /\ hpc[g] = "drained" => hpc'[g] # "released"
    BY <2>2 DEF HandlerCloseNext, CloseOnce, Drain, DrainStreams, Drained, Remove, LoopEnds,
       TypeOK
  <2>3. ASSUME NEW q \in Requests, Arrive(q) \/ \E h \in Handlers : RequestNext(h, q)
        PROVE  /\ active' = active
               /\ \A g \in Handlers : /\ reg[g] = "created" => reg'[g] # "counted"
                                      /\ hpc[g] = "drained" => hpc'[g] # "released"
    <3>1. active' = active /\ reg' = reg
      BY <2>3 DEF RequestNext, Arrive, Take, Begin, NotClaimed, EndStream, Finish
    <3>2. ASSUME NEW h \in Handlers, Finish(h, q)
          PROVE  \A g \in Handlers : hpc[g] = "drained" => hpc'[g] # "released"
      BY <3>2 DEF Finish, TypeOK
    <3> QED
      BY <2>3, <3>1, <3>2 DEF RequestNext, Arrive, Take, Begin, NotClaimed, EndStream
  <2>4. UNCHANGED <<reg, hpc, active>> => ActiveCounts'
    BY <1>5
  <2> QED
    BY <1>3, <1>4, <1>5, <2>1, <2>2, <2>3, <2>4, CallOnward DEF Next
<1>7. IsFiniteSet(Counted') /\ Counted' \subseteq Handlers
  BY ServerLifecycleAssumption, FS_Subset DEF Counted
<1>8. Cardinality(Counted') \in Nat /\ Cardinality(Handlers) \in Nat
      /\ Cardinality(Counted') <= Cardinality(Handlers)
  BY <1>7, ServerLifecycleAssumption, FS_CardinalityType, FS_Subset
<1> QED
  BY <1>6, <1>8 DEF ActiveCounts

\* A Close that waits returns when nothing is counted.
LEMMA OwedStep ==
    ASSUME TypeOK, ActiveCounts, OwedAreDone, Next
    PROVE  OwedAreDone'
<1> USE DEF registerVars, requestVars, serverVars, handlerVars, callVars
<1>1. Onward
  BY AllOnward
<1>2. \A h \in Handlers : /\ reg[h] \in {"counted", "inserted", "running", "ended"} =>
                                reg'[h] \in {"counted", "inserted", "running", "ended"}
                          /\ hpc[h] \in {"released", "complete"} =>
                                hpc'[h] \in {"released", "complete"}
  BY <1>1 DEF Onward, RegStep, HpcStep
<1>3. active = 0 => \A h \in Handlers :
         reg[h] \in {"counted", "inserted", "running", "ended"} =>
             hpc[h] \in {"released", "complete"}
  <2>1. IsFiniteSet(Counted)
    BY ServerLifecycleAssumption, FS_Subset DEF Counted
  <2>2. active = 0 => Counted = {}
    BY <2>1, FS_EmptySet DEF ActiveCounts
  <2> QED
    BY <2>2 DEF Counted
<1>4. ASSUME NEW c \in Closers, NEW h \in owed[c], owed'[c] = owed[c],
             cpc'[c] # "returned" \/ cpc[c] = "returned" \/ active = 0 \/ panicked' \/ Forced[c]
      PROVE  /\ reg'[h] \in {"counted", "inserted", "running", "ended"}
             /\ cpc'[c] = "returned" /\ ~Forced[c] /\ ~panicked' => hpc'[h] \in {"released", "complete"}
  <2>1. h \in Handlers /\ panicked \in BOOLEAN /\ (panicked => panicked')
    BY <1>1, <1>4, Types DEF Onward
  <2>2. reg[h] \in {"counted", "inserted", "running", "ended"}
    BY <1>4 DEF OwedAreDone
  <2> QED
    BY <1>2, <1>3, <1>4, <2>1, <2>2 DEF OwedAreDone
<1>5. ASSUME NEW c \in Closers, owed'[c] = Counted, NEW h \in owed'[c],
             cpc'[c] # "returned" \/ active = 0 \/ Forced[c]
      PROVE  /\ reg'[h] \in {"counted", "inserted", "running", "ended"}
             /\ cpc'[c] = "returned" /\ ~Forced[c] /\ ~panicked' => hpc'[h] \in {"released", "complete"}
  BY <1>2, <1>3, <1>5 DEF Counted
<1>6. ASSUME NEW c \in Closers
      PROVE  \/ /\ owed'[c] = owed[c]
                /\ cpc'[c] # "returned" \/ cpc[c] = "returned" \/ active = 0 \/ panicked' \/ Forced[c]
             \/ /\ owed'[c] = Counted
                /\ cpc'[c] # "returned" \/ active = 0 \/ Forced[c]
  <2>1. CASE UNCHANGED <<owed, cpc>>
    BY <2>1
  <2>2. ASSUME NEW h \in Handlers, Release(h)
        PROVE  owed' = owed /\ (cpc'[c] # "returned" \/ cpc[c] = "returned")
    BY <2>2 DEF Release
  <2>3. ASSUME NEW h \in Handlers, RegisterNext(h) \/ (HandlerCloseNext(h) /\ ~Release(h))
        PROVE  UNCHANGED <<owed, cpc>>
    BY <2>3 DEF RegisterNext, CheckShutdown, CheckVacant, Create, CreateStream, Subscribes,
       Count, Insert, Run, HandlerCloseNext, CloseOnce, Drain, DrainStreams, Drained, Remove,
       LoopEnds
  <2>4. ASSUME NEW q \in Requests, Arrive(q) \/ \E h \in Handlers : RequestNext(h, q)
        PROVE  UNCHANGED <<owed, cpc>>
    BY <2>4 DEF RequestNext, Arrive, Take, Begin, NotClaimed, EndStream, Finish
  <2>5. ASSUME NEW d \in Removers, RemoverNext(d)
        PROVE  UNCHANGED <<owed, cpc>>
    BY <2>5 DEF RemoverNext, Deregister, Deregistered
  <2>6. ASSUME NEW b \in Closers, CloserNext(b), b # c
        PROVE  owed'[c] = owed[c] /\ cpc'[c] = cpc[c]
    BY <2>6 DEF CloserNext, Close, HandlersClosed, CloseAgain, AwaitActive, ActiveDone, TypeOK
  <2>7. CASE Close(c)
    BY <2>7 DEF Close, TypeOK
  <2>8. CASE HandlersClosed(c) \/ CloseAgain(c)
    <3>1. cpc' = [cpc EXCEPT ![c] = IF Forced[c] \/ active = 0 THEN "returned" ELSE "waiting"]
      <4>1. AwaitActive(c)
        BY <2>8 DEF HandlersClosed, CloseAgain
      <4> QED
        BY <4>1, Zenon DEF AwaitActive
    <3>2. ASSUME ~(Forced[c] \/ active = 0)
          PROVE  cpc' = [cpc EXCEPT ![c] = "waiting"]
      BY <3>1, <3>2
    <3>3. active = 0 \/ Forced[c] \/ cpc'[c] # "returned"
      BY <3>2 DEF TypeOK
    <3>4. CASE HandlersClosed(c)
      BY <3>3, <3>4 DEF HandlersClosed
    <3>5. CASE CloseAgain(c)
      BY <3>3, <3>5, Types DEF CloseAgain
    <3> QED
      BY <2>8, <3>4, <3>5
  <2>9. CASE ActiveDone(c)
    BY <2>9 DEF ActiveDone, TypeOK
  <2> QED
    BY <2>1, <2>2, <2>3, <2>4, <2>5, <2>6, <2>7, <2>8, <2>9 DEF Next, CloserNext
<1> QED
  BY <1>4, <1>5, <1>6 DEF OwedAreDone

\* A request goes from the subscription to its goroutine to the counter and out; before
\* holds what was in the counter.
LEMMA RequestsStep ==
    ASSUME TypeOK, RequestsPass, Next
    PROVE  RequestsPass'
<1> USE DEF registerVars, requestVars, serverVars, handlerVars, callVars
<1>1. CASE UNCHANGED <<inbox, spawned, handling, sent, before>>
  BY <1>1 DEF RequestsPass
<1>2. ASSUME NEW q \in Requests, Arrive(q)
      PROVE  RequestsPass'
  <2>1. /\ q \notin sent /\ sent' = sent \cup {q} /\ UNCHANGED <<spawned, handling, before>>
        /\ \A g \in Handlers : inbox'[g] \subseteq inbox[g] \cup {q}
    BY <1>2 DEF Arrive
  <2> QED
    BY <2>1 DEF RequestsPass
<1>3. ASSUME NEW q \in Requests, NEW h \in Handlers, RequestNext(h, q)
      PROVE  RequestsPass'
  <2>1. CASE Take(h, q)
    <3>1. /\ q \in inbox[h] /\ UNCHANGED <<sent, handling, before>>
          /\ \A g \in Handlers :
                /\ inbox'[g] = IF g = h THEN inbox[g] \ {q} ELSE inbox[g]
                /\ spawned'[g] = spawned[g] \/ (g = h /\ spawned'[g] = spawned[g] \cup {q})
      BY <2>1, Types DEF Take
    <3> SUFFICES ASSUME NEW g \in Handlers
                 PROVE  /\ inbox'[g] \cup spawned'[g] \cup handling'[g] \cup before'[g]
                              \subseteq sent'
                        /\ spawned'[g] \cap inbox'[g] = {}
                        /\ (handling'[g] \cup before'[g]) \cap (inbox'[g] \cup spawned'[g]) = {}
      BY DEF RequestsPass
    <3>2. /\ inbox[g] \cup spawned[g] \cup handling[g] \cup before[g] \subseteq sent
          /\ spawned[g] \cap inbox[g] = {}
          /\ (handling[g] \cup before[g]) \cap (inbox[g] \cup spawned[g]) = {}
      BY DEF RequestsPass
    <3>3. CASE g = h
      <4>1. /\ q \in inbox[g] /\ UNCHANGED <<sent, handling, before>>
            /\ inbox'[g] = inbox[g] \ {q}
            /\ spawned'[g] = spawned[g] \/ spawned'[g] = spawned[g] \cup {q}
        BY <3>1, <3>3
      <4>2. inbox'[g] \subseteq inbox[g] /\ inbox'[g] \cup spawned'[g] \subseteq inbox[g] \cup spawned[g]
        BY <4>1
      <4>3. spawned'[g] \cap inbox'[g] = {}
        BY <4>1, <3>2
      <4> QED
        BY <4>1, <4>2, <4>3, <3>2
    <3>4. CASE g # h
      BY <3>1, <3>2, <3>4
    <3> QED
      BY <3>3, <3>4
  <2>2. CASE Begin(h, q)
    <3>1. /\ q \in spawned[h] /\ UNCHANGED <<sent, inbox, before>>
          /\ \A g \in Handlers :
                /\ spawned'[g] = IF g = h THEN spawned[g] \ {q} ELSE spawned[g]
                /\ handling'[g] = IF g = h THEN handling[g] \cup {q} ELSE handling[g]
      BY <2>2, Types DEF Begin
    <3> SUFFICES ASSUME NEW g \in Handlers
                 PROVE  /\ inbox'[g] \cup spawned'[g] \cup handling'[g] \cup before'[g]
                              \subseteq sent'
                        /\ spawned'[g] \cap inbox'[g] = {}
                        /\ (handling'[g] \cup before'[g]) \cap (inbox'[g] \cup spawned'[g]) = {}
      BY DEF RequestsPass
    <3>2. /\ inbox[g] \cup spawned[g] \cup handling[g] \cup before[g] \subseteq sent
          /\ spawned[g] \cap inbox[g] = {}
          /\ (handling[g] \cup before[g]) \cap (inbox[g] \cup spawned[g]) = {}
      BY DEF RequestsPass
    <3>3. CASE g = h
      <4>1. /\ q \in spawned[g] /\ UNCHANGED <<sent, inbox, before>>
            /\ spawned'[g] = spawned[g] \ {q} /\ handling'[g] = handling[g] \cup {q}
        BY <3>1, <3>3
      <4>2. (handling[g] \cup before[g]) \cap (inbox[g] \cup spawned'[g]) = {}
        BY <4>1, <3>2
      <4>3. q \notin inbox[g] \cup spawned'[g] /\ q \in sent
        BY <4>1, <3>2
      <4> QED
        BY <4>1, <4>2, <4>3, <3>2
    <3>4. CASE g # h
      BY <3>1, <3>2, <3>4
    <3> QED
      BY <3>3, <3>4
  <2>3. CASE NotClaimed(h, q)
    <3>1. /\ UNCHANGED <<sent, inbox, handling, before>>
          /\ \A g \in Handlers : spawned'[g] \subseteq spawned[g]
      BY <2>3, Types DEF NotClaimed
    <3> QED
      BY <3>1 DEF RequestsPass
  <2>4. CASE EndStream(h, q)
    BY <1>1, <2>4 DEF EndStream
  <2>5. CASE Finish(h, q)
    <3>1. /\ UNCHANGED <<sent, inbox, spawned, before>>
          /\ \A g \in Handlers : handling'[g] \subseteq handling[g]
      BY <2>5, Types DEF Finish
    <3> QED
      BY <3>1 DEF RequestsPass
  <2> QED
    BY <1>3, <2>1, <2>2, <2>3, <2>4, <2>5 DEF RequestNext
<1>4. ASSUME NEW h \in Handlers, HandlerCloseNext(h)
      PROVE  RequestsPass'
  <2>1. /\ UNCHANGED <<inbox, spawned, handling, sent>>
        /\ \A g \in Handlers : before'[g] \subseteq before[g] \cup handling[g]
    <3>1. CASE CloseOnce(h)
      BY <3>1, Types DEF CloseOnce
    <3>2. CASE DrainStreams(h)
      BY <3>2, Types DEF DrainStreams
    <3> QED
      BY <1>4, <3>1, <3>2 DEF HandlerCloseNext, Drain, Drained, Release, Remove, LoopEnds
  <2> QED
    BY <2>1 DEF RequestsPass
<1>5. ASSUME NEW h \in Handlers, RegisterNext(h)
      PROVE  UNCHANGED <<inbox, spawned, handling, sent, before>>
  BY <1>5 DEF RegisterNext, CheckShutdown, CheckVacant, Create, CreateStream, Subscribes, Count,
     Insert, Run
<1> QED
  BY <1>1, <1>2, <1>3, <1>4, <1>5, CallOnward DEF Next

\* The Waits of a handler's close do wait.
LEMMA AwaitsStep ==
    ASSUME TypeOK, RequestsPass, Awaits, Next
    PROVE  Awaits'
<1> USE DEF registerVars, requestVars, serverVars, handlerVars, callVars
<1> DEFINE Same(h) == hpc'[h] = hpc[h] /\ force'[h] = force[h] /\ streaming' = streaming
           Empty(h) == before[h] \cap handling[h] = {}
           Known(h) == handling[h] \subseteq racing[h] \cup ending[h] /\ spawned[h] \subseteq racing[h]
           AwaitsFor(h) ==
              /\ (streaming \/ ~force[h]) /\ hpc[h] \in {"woken", "drained", "released", "complete"}
                    => Empty(h)
              /\ streaming /\ hpc[h] \notin {"open", "draining"} => Known(h)
<1>1. \A h \in Handlers : AwaitsFor(h)
  BY DEF Awaits
<1>2. ASSUME NEW h \in Handlers, Same(h), Empty(h) => Empty(h)',
             streaming /\ hpc[h] \notin {"open", "draining"} /\ Known(h) => Known(h)'
      PROVE  AwaitsFor(h)'
  BY <1>1, <1>2
<1>3. ASSUME NEW q \in Requests, Arrive(q), NEW g \in Handlers
      PROVE  AwaitsFor(g)'
  BY <1>2, <1>3 DEF Arrive
<1>4. ASSUME NEW q \in Requests, NEW h \in Handlers, RequestNext(h, q), NEW g \in Handlers
      PROVE  AwaitsFor(g)'
  <2>1. CASE Take(h, q)
    <3>1. /\ UNCHANGED <<hpc, force, streaming, before, handling, racing, ending>>
          /\ spawned'[g] = spawned[g] \/ (g = h /\ (~streaming \/ hpc[h] = "open"))
      BY <2>1, Types DEF Take
    <3> QED
      BY <1>2, <3>1
  <2>2. CASE Begin(h, q)
    <3>1. /\ q \in spawned[h] /\ UNCHANGED <<hpc, force, streaming, before, racing, ending>>
          /\ spawned'[g] = IF g = h THEN spawned[g] \ {q} ELSE spawned[g]
          /\ handling'[g] = IF g = h THEN handling[g] \cup {q} ELSE handling[g]
      BY <2>2, Types DEF Begin
    <3>2. q \notin before[h]
      BY <3>1 DEF RequestsPass
    <3> QED
      BY <1>2, <3>1, <3>2
  <2>3. CASE NotClaimed(h, q)
    <3>1. /\ UNCHANGED <<hpc, force, streaming, before, handling, racing, ending>>
          /\ spawned'[g] \subseteq spawned[g]
      BY <2>3, Types DEF NotClaimed
    <3> QED
      BY <1>2, <3>1
  <2>4. CASE EndStream(h, q)
    <3>1. /\ UNCHANGED <<hpc, force, streaming, before, handling, racing, spawned>>
          /\ ending[g] \subseteq ending'[g]
      BY <2>4, Types DEF EndStream
    <3> QED
      BY <1>2, <3>1
  <2>5. CASE Finish(h, q)
    <3>1. /\ UNCHANGED <<force, streaming, before, racing, spawned>>
          /\ handling'[g] = IF g = h THEN handling[g] \ {q} ELSE handling[g]
          /\ ending'[g] = IF g = h THEN ending[g] \ {q} ELSE ending[g]
      BY <2>5, Types DEF Finish
    <3>2. CASE hpc'[g] = hpc[g]
      BY <1>2, <3>1, <3>2
    <3>3. CASE hpc'[g] # hpc[g]
      <4>1. /\ g = h /\ hpc[h] = "waiting" /\ hpc'[h] = "woken"
            /\ Awaited(h) \cap handling'[h] = {}
        BY <2>5, <3>3 DEF Finish, TypeOK
      <4>2. before'[h] \cap handling'[h] = {}
        BY <3>1, <4>1, Types DEF Awaited
      <4>3. streaming => Known(g)'
        BY <1>1, <3>1, <4>1
      <4> QED
        BY <3>1, <4>1, <4>2, <4>3
    <3> QED
      BY <3>2, <3>3
  <2> QED
    BY <1>4, <2>1, <2>2, <2>3, <2>4, <2>5 DEF RequestNext
<1>5. ASSUME NEW h \in Handlers, HandlerCloseNext(h), NEW g \in Handlers
      PROVE  AwaitsFor(g)'
  <2>1. CASE CloseOnce(h)
    <3>1. /\ UNCHANGED <<streaming, handling, racing, ending, spawned>>
          /\ \/ hpc'[g] = "draining"
             \/ hpc'[g] = hpc[g] /\ force'[g] = force[g] /\ before'[g] = before[g]
      BY <2>1, Types DEF CloseOnce, TypeOK
    <3> QED
      BY <1>1, <3>1
  <2>2. CASE Drain(h)
    <3>1. /\ ~streaming /\ UNCHANGED <<streaming, handling, before, force>>
          /\ \/ hpc'[g] = hpc[g]
             \/ hpc'[g] = "waiting"
             \/ hpc'[g] = "drained" /\ (force[g] \/ handling[g] = {})
      BY <2>2, Types DEF Drain, TypeOK
    <3> QED
      BY <1>1, <3>1
  <2>3. CASE DrainStreams(h)
    <3>1. /\ streaming' = streaming /\ UNCHANGED <<handling, spawned, force>>
          /\ \/ g # h /\ hpc'[g] = hpc[g] /\ before'[g] = before[g] /\ racing'[g] = racing[g]
                /\ ending'[g] = ending[g]
             \/ /\ racing'[g] = spawned[g] /\ ending'[g] = handling[g]
                /\ hpc'[g] = "waiting" \/ (hpc'[g] = "drained" /\ before'[g] = {})
      <4>1. CASE g = h
        <5>1. /\ before'[h] = handling[h] \ ending[h] /\ racing'[h] = spawned[h]
              /\ ending'[h] = handling[h]
              /\ hpc'[h] = IF before'[h] = {} THEN "drained" ELSE "waiting"
          BY <2>3, Types DEF DrainStreams, TypeOK
        <5> QED
          BY <2>3, <4>1, <5>1 DEF DrainStreams
      <4>2. CASE g # h
        BY <2>3, <4>2, Types DEF DrainStreams, TypeOK
      <4> QED
        BY <4>1, <4>2
    <3> QED
      BY <1>1, <3>1
  <2>4. CASE Drained(h) \/ Release(h) \/ Remove(h)
    <3>1. /\ UNCHANGED <<streaming, handling, before, force, spawned, racing, ending>>
          /\ \/ hpc'[g] = hpc[g]
             \/ hpc[g] = "woken" /\ hpc'[g] = "drained"
             \/ hpc[g] = "drained" /\ hpc'[g] = "released"
             \/ hpc[g] = "released" /\ hpc'[g] = "complete"
      BY <2>4 DEF Drained, Release, Remove, TypeOK
    <3> QED
      BY <1>1, <3>1
  <2>5. CASE LoopEnds(h)
    BY <1>2, <2>5 DEF LoopEnds
  <2> QED
    BY <1>5, <2>1, <2>2, <2>3, <2>4, <2>5 DEF HandlerCloseNext
<1>6. ASSUME NEW h \in Handlers, RegisterNext(h), NEW g \in Handlers
      PROVE  AwaitsFor(g)'
  <2>1. UNCHANGED <<hpc, force, before, racing, streaming, requestVars>>
    BY <1>6 DEF RegisterNext, CheckShutdown, CheckVacant, Create, CreateStream, Subscribes, Count,
       Insert, Run
  <2> QED
    BY <1>2, <2>1
<1>7. UNCHANGED <<hpc, force, before, racing, streaming, requestVars>> =>
         \A g \in Handlers : AwaitsFor(g)'
  BY <1>2
<1>8. \A g \in Handlers : AwaitsFor(g)'
  BY <1>3, <1>4, <1>5, <1>6, <1>7, CallOnward DEF Next
<1> QED
  BY <1>8 DEF Awaits

\* Two registrations of a key that are both past its look-up have raced.
LEMMA RacesStep ==
    ASSUME TypeOK, InPlace, RacesKnown, Next
    PROVE  RacesKnown'
<1> USE DEF registerVars, requestVars, serverVars, handlerVars, callVars
<1>1. Onward
  BY AllOnward
<1>2. \A k : Raced(k) => Raced(k)'
  BY <1>1 DEF Onward, Raced
<1>3. \A h \in Handlers : Live(h)' => Live(h) \/ CheckVacant(h)
  <2>1. ASSUME NEW h \in Handlers, reg[h] = "checking", reg'[h] = "vacant"
        PROVE  CheckVacant(h)
    <3>1. ASSUME NEW g \in Handlers, RegisterNext(g)
          PROVE  CheckVacant(h)
      <4>1. g = h
        BY <2>1, <3>1, RegisterOnward
      <4> QED
        BY <2>1, <3>1, <4>1 DEF RegisterNext, CheckShutdown, Create, CreateStream, Subscribes,
           Count, Insert, Run
    <3>2. ASSUME NEW g \in Handlers, HandlerCloseNext(g)
          PROVE  reg'[h] # "vacant" \/ reg'[h] = reg[h]
      BY <3>2, HandlerCloseOnward DEF HandlerCloseNext, CloseOnce, Drain, DrainStreams, Drained,
         Release, Remove, LoopEnds, TypeOK
    <3>3. ASSUME NEW q \in Requests, Arrive(q) \/ \E g \in Handlers : RequestNext(g, q)
          PROVE  reg' = reg
      BY <3>3 DEF RequestNext, Arrive, Take, Begin, NotClaimed, EndStream, Finish
    <3> QED
      BY <2>1, <3>1, <3>2, <3>3, CallOnward DEF Next
  <2> QED
    BY <1>1, <2>1 DEF Onward, RegStep, HpcStep, Live
<1>4. ASSUME NEW h \in Handlers, CheckVacant(h), NEW g \in Handlers \ {h}, Key[g] = Key[h],
             Live(g), Live(h)'
      PROVE  Raced(Key[h])'
  <2>1. handlers[Key[h]] = None
    BY <1>4 DEF CheckVacant, TypeOK, Live
  <2>2. CASE g \in Rivals(h)
    <3>1. raced' = raced \cup Rivals(h) \cup {h}
      BY <1>4, <2>1, <2>2 DEF CheckVacant
    <3> QED
      BY <3>1 DEF Raced
  <2>3. CASE g \notin Rivals(h)
    <3>1. Placed(g) /\ hpc[g] # "complete" /\ handlers[Key[g]] # g
      BY <1>4, <2>1, <2>3, ServerLifecycleAssumption DEF Rivals, Live, Placed
    <3> QED
      BY <1>2, <1>4, <3>1 DEF RacesKnown
  <2> QED
    BY <2>2, <2>3
<1>5. ASSUME NEW h \in Handlers, NEW g \in Handlers \ {h}, Key[g] = Key[h], Live(g)', Live(h)'
      PROVE  Raced(Key[h])'
  <2>1. CASE Live(g) /\ Live(h)
    BY <1>2, <1>5, <2>1 DEF RacesKnown
  <2>2. CASE CheckVacant(h) /\ Live(g)
    BY <1>4, <1>5, <2>2
  <2>3. CASE CheckVacant(g) /\ Live(h)
    BY <1>4, <1>5, <2>3
  <2>4. ~(CheckVacant(h) /\ CheckVacant(g) /\ ~Live(h) /\ ~Live(g))
    <3>1. CheckVacant(h) => \A f \in Handlers \ {h} : reg'[f] = reg[f]
      BY DEF CheckVacant, TypeOK
    <3>2. CheckVacant(g) => reg[g] = "checking"
      BY DEF CheckVacant
    <3> QED
      BY <1>5, <3>1, <3>2 DEF Live
  <2> QED
    BY <1>3, <1>5, <2>1, <2>2, <2>3, <2>4
<1>6. ASSUME NEW h \in Handlers, Placed(h)', hpc'[h] # "complete", handlers'[Key[h]] # h
      PROVE  Raced(Key[h])'
  <2>1. hpc[h] # "complete"
    BY <1>1, <1>6 DEF Onward, HpcStep
  <2>2. Placed(h) => Live(h)
    BY <2>1 DEF InPlace, Placed, Live
  <2>3. Key[h] \in Keys
    BY DEF Keys
  <2>4. CASE handlers' = handlers /\ reg'[h] = reg[h]
    BY <1>2, <1>6, <2>1, <2>4 DEF RacesKnown, Placed
  <2>5. CASE handlers' = handlers /\ reg'[h] # reg[h]
    <3>1. Placed(h)
      <4>1. reg'[h] # "inserted"
        <5>1. ASSUME NEW g \in Handlers, RegisterNext(g)
              PROVE  reg'[h] # "inserted"
          <6>1. g = h
            BY <2>5, <5>1, RegisterOnward
          <6>2. CASE Insert(h)
            BY <1>6, <2>3, <6>2, Types DEF Insert
          <6> QED
            BY <2>5, <5>1, <6>1, <6>2 DEF RegisterNext, CheckShutdown, CheckVacant, Create,
               CreateStream, Subscribes, Count, Run, TypeOK
        <5>2. ASSUME NEW g \in Handlers, HandlerCloseNext(g)
              PROVE  reg'[h] # "inserted"
          BY <2>5, <5>2 DEF HandlerCloseNext, CloseOnce, Drain, DrainStreams, Drained, Release,
             Remove, LoopEnds, TypeOK
        <5>3. ASSUME NEW q \in Requests, Arrive(q) \/ \E g \in Handlers : RequestNext(g, q)
              PROVE  reg' = reg
          BY <5>3 DEF RequestNext, Arrive, Take, Begin, NotClaimed, EndStream, Finish
        <5> QED
          BY <2>5, <5>1, <5>2, <5>3, CallOnward DEF Next
      <4> QED
        BY <1>1, <1>6, <2>5, <4>1 DEF Onward, RegStep, Placed
    <3> QED
      BY <1>2, <1>6, <2>1, <2>5, <3>1 DEF RacesKnown
  <2>6. ASSUME NEW g \in Handlers, reg[g] = "counted", handlers' = [handlers EXCEPT ![Key[g]] = g],
               reg' = [reg EXCEPT ![g] = "inserted"], hpc' = hpc
        PROVE  Raced(Key[h])'
    <3>1. g # h /\ reg'[h] = reg[h] /\ Placed(h)
      BY <1>6, <2>3, <2>6, Types DEF Placed, TypeOK
    <3>2. CASE Key[g] = Key[h]
      <4>1. Live(g)
        BY <2>6 DEF Live, InPlace, Placed
      <4> QED
        BY <1>2, <2>2, <3>1, <3>2, <4>1 DEF RacesKnown
    <3>3. CASE Key[g] # Key[h]
      BY <1>2, <1>6, <2>1, <2>3, <2>6, <3>1, <3>3, Types DEF RacesKnown
    <3> QED
      BY <3>2, <3>3
  <2>7. ASSUME NEW g \in Handlers, hpc[g] = "released",
               handlers' = [handlers EXCEPT ![Key[g]] = None],
               hpc' = [hpc EXCEPT ![g] = "complete"], reg' = reg
        PROVE  Raced(Key[h])'
    <3>1. g # h /\ Placed(h)
      BY <1>6, <2>7 DEF Placed, TypeOK
    <3>2. CASE Key[g] = Key[h]
      <4>1. Live(g)
        BY <2>7 DEF Live, InPlace, Placed
      <4> QED
        BY <1>2, <2>2, <3>1, <3>2, <4>1 DEF RacesKnown
    <3>3. CASE Key[g] # Key[h]
      BY <1>2, <1>6, <2>1, <2>3, <2>7, <3>1, <3>3, Types DEF RacesKnown
    <3> QED
      BY <3>2, <3>3
  <2> QED
    BY <2>4, <2>5, <2>6, <2>7, MapSteps
<1> QED
  BY <1>5, <1>6 DEF RacesKnown

----------------------------------------------------------------------------
\* Types.

\* What makes the next state of its type.
LEMMA TypesStay ==
    ASSUME TypeOK, Onward, active' \in 0..Cardinality(Handlers),
           broken' \in BOOLEAN /\ panicked' \in BOOLEAN,
           once' \in {"none", "done"} \cup Closers,
           handlers' \in [Keys -> Handlers \cup {None}], subscribed' \subseteq Handlers,
           /\ inbox' \in [Handlers -> SUBSET Requests] /\ spawned' \in [Handlers -> SUBSET Requests]
           /\ handling' \in [Handlers -> SUBSET Requests]
           /\ ending' \in [Handlers -> SUBSET Requests]
           /\ before' \in [Handlers -> SUBSET Requests]
           /\ racing' \in [Handlers -> SUBSET Requests],
           force' \in [Handlers -> BOOLEAN],
           cpc' \in [Closers -> {"idle", "closing", "waiting", "woken", "returned"}],
           snapshot' \in [Closers -> SUBSET Handlers] /\ owed' \in [Closers -> SUBSET Handlers],
           dpc' \in [Removers -> {"idle", "closing", "returned"}],
           found' \in [Removers -> Handlers \cup {None}],
           sent' \subseteq Requests /\ raced' \subseteq Handlers
    PROVE  TypeOK'
  BY DEF TypeOK, Onward

\* Every step keeps the types; that of the WaitGroup comes from what it counts.
LEMMA TypeStep ==
    ASSUME TypeOK, InPlace, ActiveCounts, Next
    PROVE  TypeOK'
<1> USE DEF registerVars, requestVars, serverVars, handlerVars, callVars
<1>1. Onward /\ active' \in 0..Cardinality(Handlers)
  BY AllOnward, ActiveStep
<1>2. /\ active \in 0..Cardinality(Handlers) /\ broken \in BOOLEAN /\ panicked \in BOOLEAN
      /\ once \in {"none", "done"} \cup Closers
      /\ cpc \in [Closers -> {"idle", "closing", "waiting", "woken", "returned"}]
      /\ dpc \in [Removers -> {"idle", "closing", "returned"}]
      /\ sent \subseteq Requests /\ raced \subseteq Handlers /\ subscribed \subseteq Handlers
  BY DEF TypeOK
<1>3. ASSUME NEW h \in Handlers, RegisterNext(h)
      PROVE  TypeOK'
  <2>1. /\ UNCHANGED <<requestVars, broken, once, handlerVars, callVars, panicked>>
        /\ handlers' = handlers \/ handlers' = [handlers EXCEPT ![Key[h]] = h]
        /\ subscribed' \subseteq subscribed \cup {h}
        /\ raced' \subseteq raced \cup Rivals(h) \cup {h}
    BY <1>3 DEF RegisterNext, CheckShutdown, CheckVacant, Create, CreateStream, Subscribes, Count,
       Insert, Run
  <2>2. Rivals(h) \subseteq Handlers
    BY DEF Rivals
  <2> QED
    BY <1>1, <1>2, <2>1, <2>2, Types, TypesStay
<1>4. ASSUME NEW q \in Requests, Arrive(q) \/ \E h \in Handlers : RequestNext(h, q)
      PROVE  TypeOK'
  <2>1. /\ UNCHANGED <<registerVars, serverVars, force, before, racing, callVars, panicked, raced>>
        /\ sent' \subseteq sent \cup {q}
    BY <1>4 DEF RequestNext, Arrive, Take, Begin, NotClaimed, EndStream, Finish
  <2>2. /\ inbox' \in [Handlers -> SUBSET Requests] /\ spawned' \in [Handlers -> SUBSET Requests]
        /\ handling' \in [Handlers -> SUBSET Requests]
        /\ ending' \in [Handlers -> SUBSET Requests]
    <3>1. CASE Arrive(q)
      BY <3>1, Types DEF Arrive
    <3>2. ASSUME NEW h \in Handlers, Take(h, q)
          PROVE  /\ inbox' \in [Handlers -> SUBSET Requests]
                 /\ spawned' \in [Handlers -> SUBSET Requests]
                 /\ handling' \in [Handlers -> SUBSET Requests]
                 /\ ending' \in [Handlers -> SUBSET Requests]
      BY <3>2, Types DEF Take
    <3>3. ASSUME NEW h \in Handlers, Begin(h, q) \/ NotClaimed(h, q) \/ EndStream(h, q)
          PROVE  /\ inbox' \in [Handlers -> SUBSET Requests]
                 /\ spawned' \in [Handlers -> SUBSET Requests]
                 /\ handling' \in [Handlers -> SUBSET Requests]
                 /\ ending' \in [Handlers -> SUBSET Requests]
      BY <3>3, Types DEF Begin, NotClaimed, EndStream
    <3>4. ASSUME NEW h \in Handlers, Finish(h, q)
          PROVE  /\ inbox' \in [Handlers -> SUBSET Requests]
                 /\ spawned' \in [Handlers -> SUBSET Requests]
                 /\ handling' \in [Handlers -> SUBSET Requests]
                 /\ ending' \in [Handlers -> SUBSET Requests]
      BY <3>4, Types DEF Finish
    <3> QED
      BY <1>4, <3>1, <3>2, <3>3, <3>4 DEF RequestNext
  <2> QED
    BY <1>1, <1>2, <2>1, <2>2, Types, TypesStay
<1>5. ASSUME NEW h \in Handlers, HandlerCloseNext(h)
      PROVE  TypeOK'
  <2>1. /\ UNCHANGED <<inbox, spawned, handling, sent, broken, once, snapshot, owed, dpc, found,
                       raced>>
        /\ subscribed' \subseteq subscribed /\ panicked' \in BOOLEAN
        /\ handlers' = handlers \/ handlers' = [handlers EXCEPT ![Key[h]] = None]
        /\ \/ cpc' = cpc
           \/ cpc' = [c \in Closers |-> IF cpc[c] = "waiting" /\ active' = 0 THEN "woken" ELSE cpc[c]]
    BY <1>2, <1>5 DEF HandlerCloseNext, CloseOnce, Drain, DrainStreams, Drained, Release, Remove,
       LoopEnds
  <2>2. /\ before' \in [Handlers -> SUBSET Requests] /\ racing' \in [Handlers -> SUBSET Requests]
        /\ ending' \in [Handlers -> SUBSET Requests] /\ force' \in [Handlers -> BOOLEAN]
    <3>1. CASE CloseOnce(h)
      <4>1. CloseCalls(h) \subseteq BOOLEAN
        BY ServerLifecycleAssumption DEF CloseCalls
      <4> QED
        BY <3>1, <4>1, Types DEF CloseOnce
    <3>2. CASE DrainStreams(h)
      BY <3>2, Types DEF DrainStreams
    <3> QED
      BY <1>5, <3>1, <3>2, Types DEF HandlerCloseNext, Drain, Drained, Release, Remove, LoopEnds
  <2>3. cpc' \in [Closers -> {"idle", "closing", "waiting", "woken", "returned"}]
    BY <1>2, <2>1
  <2> QED
    BY <1>1, <1>2, <2>1, <2>2, <2>3, Types, TypesStay
<1>6. ASSUME NEW d \in Removers, RemoverNext(d)
      PROVE  TypeOK'
  <2>1. /\ UNCHANGED <<registerVars, requestVars, serverVars, handlerVars, cpc, snapshot, owed,
                       panicked, raced>>
        /\ found' = found \/ found' = [found EXCEPT ![d] = handlers[Removed[d]]]
        /\ \E p \in {"closing", "returned"} : dpc' = [dpc EXCEPT ![d] = p]
    BY <1>6 DEF RemoverNext, Deregister, Deregistered
  <2>2. found' \in [Removers -> Handlers \cup {None}]
    BY <2>1, Types, ServerLifecycleAssumption
  <2> QED
    BY <1>1, <1>2, <2>1, <2>2, Types, TypesStay
<1>7. ASSUME NEW c \in Closers, CloserNext(c)
      PROVE  TypeOK'
  <2>1. /\ UNCHANGED <<registerVars, requestVars, streaming, handlers, handlerVars, dpc, found,
                       raced>>
        /\ once' \in {once, c, "done"} /\ broken' \in BOOLEAN /\ panicked' \in BOOLEAN
        /\ snapshot' = snapshot \/ snapshot' = [snapshot EXCEPT ![c] = {handlers[k] : k \in Keys} \ {None}]
        /\ owed' = owed \/ owed' = [owed EXCEPT ![c] = Counted]
        /\ \E p \in {"closing", "waiting", "returned"} : cpc' = [cpc EXCEPT ![c] = p]
    BY <1>2, <1>7 DEF CloserNext, Close, HandlersClosed, CloseAgain, AwaitActive, ActiveDone
  <2>2. Counted \subseteq Handlers /\ {handlers[k] : k \in Keys} \ {None} \subseteq Handlers
    BY Types DEF Counted
  <2>3. snapshot' \in [Closers -> SUBSET Handlers] /\ owed' \in [Closers -> SUBSET Handlers]
    BY <2>1, <2>2, Types
  <2> QED
    BY <1>1, <1>2, <2>1, <2>3, Types, TypesStay
<1> QED
  BY <1>3, <1>4, <1>5, <1>6, <1>7 DEF Next

----------------------------------------------------------------------------
\* Theorems.

\* The inductive invariant holds throughout.
THEOREM Inductive == Spec => []Inv
<1>1. Init => Inv
  <2> SUFFICES ASSUME Init PROVE Inv
    OBVIOUS
  <2>1. Counted = {} /\ Cardinality({}) = 0
    BY FS_EmptySet DEF Init, Counted
  <2>2. Cardinality(Handlers) \in Nat
    BY ServerLifecycleAssumption, FS_CardinalityType
  <2>3. TypeOK
    <3>1. \A f \in {inbox, spawned, handling, ending, before, racing} :
             f \in [Handlers -> SUBSET Requests]
      BY DEF Init
    <3>2. \A f \in {snapshot, owed} : f \in [Closers -> SUBSET Handlers]
      BY DEF Init
    <3>3. /\ reg \in [Handlers -> {"idle"}] /\ hpc \in [Handlers -> {"open"}]
          /\ cpc \in [Closers -> {"idle"}] /\ dpc \in [Removers -> {"idle"}]
          /\ handlers \in [Keys -> {None}] /\ found \in [Removers -> {None}]
          /\ force \in [Handlers -> {FALSE}] /\ active \in 0..Cardinality(Handlers)
      BY <2>2 DEF Init
    <3>4. /\ streaming \in BOOLEAN /\ broken = FALSE /\ panicked = FALSE /\ once = "none"
          /\ subscribed = {} /\ sent = {} /\ raced = {}
      BY DEF Init
    <3> QED
      BY <3>1, <3>2, <3>3, <3>4 DEF TypeOK
  <2>4. InPlace /\ ActiveCounts /\ OwedAreDone
    BY <2>1 DEF Init, InPlace, ActiveCounts, OwedAreDone, Placed
  <2>5. RequestsPass /\ Awaits /\ RacesKnown
    BY DEF Init, RequestsPass, Awaits, RacesKnown, Placed, Live
  <2> QED
    BY <2>3, <2>4, <2>5 DEF Inv
<1>2. Inv /\ [Next]_vars => Inv'
  <2> SUFFICES ASSUME Inv, [Next]_vars PROVE Inv'
    OBVIOUS
  <2>1. CASE UNCHANGED vars
    BY <2>1 DEF vars, registerVars, requestVars, serverVars, handlerVars, callVars, Inv, TypeOK,
       InPlace, ActiveCounts, OwedAreDone, RequestsPass, Awaits, RacesKnown, Placed, Live, Raced,
       Counted
  <2>2. CASE Next
    BY <2>2, TypeStep, InPlaceStep, ActiveStep, OwedStep, RequestsStep, AwaitsStep, RacesStep
       DEF Inv
  <2> QED
    BY <2>1, <2>2
<1> QED
  BY <1>1, <1>2, PTL DEF Spec

\* A handler's close waits for what it has to, however many close it.
THEOREM BegunFinish == Spec => []BegunRequestsFinish
<1>1. Inv => BegunRequestsFinish
  BY DEF Inv, Awaits, BegunRequestsFinish
<1> QED
  BY <1>1, Inductive, PTL

\* A Close that waits returns when all that was registered at its call is off the bus.
THEOREM ReturnedIsDone == Spec => []ReturnedCloseIsDone
<1>1. ASSUME Inv, NEW c \in Closers, NEW h \in owed[c], cpc[c] = "returned" /\ ~Forced[c] /\ ~panicked
      PROVE  h \notin subscribed /\ hpc[h] \in {"released", "complete"}
  <2>1. h \in Handlers /\ hpc[h] \in {"released", "complete"}
    BY <1>1, Types DEF Inv, OwedAreDone
  <2> QED
    BY <1>1, <2>1 DEF Inv, InPlace
<1>2. ASSUME Inv PROVE ReturnedCloseIsDone
  <2> SUFFICES ASSUME NEW c \in Closers, cpc[c] = "returned" /\ ~Forced[c] /\ ~panicked,
                      NEW h \in owed[c]
               PROVE  h \notin subscribed /\ hpc[h] \in {"released", "complete"}
    BY Zenon DEF ReturnedCloseIsDone
  <2> QED
    BY <1>1, <1>2
<1> QED
  BY <1>2, Inductive, PTL

\* No handler that is gone holds its key, and none is in the map that was not counted.
THEOREM MapIsLive == Spec => []MapHoldsLiveHandlers
<1>1. ASSUME Inv, NEW k \in Keys, handlers[k] # None
      PROVE  /\ hpc[handlers[k]] # "complete" /\ reg[handlers[k]] \in {"inserted", "running"}
  <2>1. handlers[k] \in Handlers
    BY <1>1, Types DEF Inv
  <2> QED
    BY <1>1, <2>1 DEF Inv, InPlace, Placed
<1>2. Inv => MapHoldsLiveHandlers
  BY <1>1 DEF Inv, MapHoldsLiveHandlers
<1> QED
  BY <1>2, Inductive, PTL

\* Only overlapping registrations of one key put a handler out of reach.
THEOREM OnlyRacesLose == Spec => []LostOnlyByRace
<1>1. ASSUME Inv, NEW h \in Handlers, Lost(h)
      PROVE  \E g \in raced : Key[g] = Key[h]
  BY <1>1 DEF Inv, Lost, RacesKnown, Placed, Raced
<1>2. Inv => LostOnlyByRace
  BY <1>1 DEF LostOnlyByRace
<1> QED
  BY <1>2, Inductive, PTL

\* Only the Opens let in before the read of the map, and streams that end, outlive
\* their handler.
THEOREM OnlyOpensOutlive == Spec => []OnlyRacingOpensOutlive
<1>1. Inv => OnlyRacingOpensOutlive
  BY DEF Inv, Awaits, OnlyRacingOpensOutlive
<1> QED
  BY <1>1, Inductive, PTL

----------------------------------------------------------------------------
\* Coming to rest.

\* A handler's close that waits has somebody to wait for, whose end has begun where nobody
\* else would begin it: the streams that it waits for, it has closed.
DrainWaits(h) ==
    /\ ending[h] \subseteq handling[h]
    /\ hpc[h] = "waiting" =>
          handling[h] # {} /\ (streaming => before[h] \cap handling[h] # {})
    /\ streaming /\ hpc[h] \in {"waiting", "woken"} =>
          before[h] \cap handling[h] \subseteq ending[h]

DrainsWait == \A h \in Handlers : DrainWaits(h)

\* A Close that waits for the counter has found it raised, and has closed all it took.
CloseWaits(c) ==
    /\ cpc[c] = "idle" => snapshot[c] = {}
    /\ cpc[c] # "idle" => once # "none"
    /\ cpc[c] \notin {"idle", "closing"} => \A h \in snapshot[c] : hpc[h] = "complete"
    /\ cpc[c] = "waiting" => active # 0

ClosesWait ==
    /\ \A c \in Closers : CloseWaits(c)
    /\ \A d \in Removers : dpc[d] = "closing" => found[d] # None

\* The last request, or stream, that a close waits for wakes it.
LEMMA DrainsStep ==
    ASSUME TypeOK, RequestsPass, DrainsWait, Next
    PROVE  DrainsWait'
<1> USE DEF registerVars, requestVars, serverVars, handlerVars, callVars
<1>0. \A h \in Handlers : /\ DrainWaits(h)
                          /\ spawned[h] \cap before[h] = {} /\ handling[h] \subseteq Requests
  BY Types DEF DrainsWait, RequestsPass
<1>1. ASSUME streaming' = streaming, NEW g \in Handlers, UNCHANGED <<ending, handling, before>>,
             hpc'[g] = hpc[g] \/ hpc'[g] \notin {"waiting", "woken"}
      PROVE  DrainWaits(g)'
  BY <1>0, <1>1 DEF DrainWaits
<1>2. ASSUME NEW q \in Requests, NEW h \in Handlers, RequestNext(h, q), NEW g \in Handlers
      PROVE  DrainWaits(g)'
  <2>1. CASE Take(h, q) \/ NotClaimed(h, q)
    BY <1>1, <2>1, Zenon DEF Take, NotClaimed
  <2>2. CASE Begin(h, q)
    <3>1. /\ q \in spawned[h] /\ UNCHANGED <<hpc, streaming, before, ending>>
          /\ handling'[g] = IF g = h THEN handling[g] \cup {q} ELSE handling[g]
      BY <2>2, Types DEF Begin
    <3>2. q \notin before[h]
      BY <1>0, <3>1
    <3> QED
      BY <1>0, <3>1, <3>2 DEF DrainWaits
  <2>3. CASE EndStream(h, q)
    <3>1. /\ UNCHANGED <<hpc, streaming, before, handling>> /\ q \in handling[h]
          /\ ending'[g] = IF g = h THEN ending[g] \cup {q} ELSE ending[g]
      BY <2>3, Types DEF EndStream
    <3> QED
      BY <1>0, <3>1 DEF DrainWaits
  <2>4. CASE Finish(h, q)
    <3>1. /\ UNCHANGED <<streaming, before>>
          /\ handling'[g] = IF g = h THEN handling[g] \ {q} ELSE handling[g]
          /\ ending'[g] = IF g = h THEN ending[g] \ {q} ELSE ending[g]
      BY <2>4, Types DEF Finish
    <3>2. CASE g # h
      <4>1. hpc'[g] = hpc[g]
        BY <2>4, <3>2 DEF Finish, TypeOK
      <4> QED
        BY <1>0, <3>1, <3>2, <4>1 DEF DrainWaits
    <3>3. CASE g = h
      <4>1. hpc'[h] = IF hpc[h] = "waiting" /\ Awaited(h) \cap handling'[h] = {}
                      THEN "woken" ELSE hpc[h]
        BY <2>4 DEF Finish, TypeOK
      <4>2. /\ hpc'[h] = "waiting" =>
                  handling'[h] # {} /\ (streaming => before[h] \cap handling'[h] # {})
            /\ hpc'[h] \in {"waiting", "woken"} => hpc[h] \in {"waiting", "woken"}
        BY <4>1 DEF Awaited
      <4> QED
        BY <1>0, <3>1, <3>3, <4>2 DEF DrainWaits
    <3> QED
      BY <3>2, <3>3
  <2> QED
    BY <1>2, <2>1, <2>2, <2>3, <2>4, Zenon DEF RequestNext
<1>3. ASSUME NEW h \in Handlers, HandlerCloseNext(h), NEW g \in Handlers
      PROVE  DrainWaits(g)'
  <2>1. CASE CloseOnce(h)
    <3>1. /\ UNCHANGED <<streaming, handling, ending>>
          /\ hpc'[g] = "draining" \/ (hpc'[g] = hpc[g] /\ before'[g] = before[g])
      BY <2>1, Types DEF CloseOnce, TypeOK
    <3> QED
      BY <1>0, <3>1 DEF DrainWaits
  <2>2. CASE Drain(h)
    <3>1. /\ ~streaming /\ UNCHANGED <<streaming, handling, before, ending>>
          /\ \/ hpc'[g] = hpc[g]
             \/ hpc'[g] = "waiting" /\ handling[g] # {}
             \/ hpc'[g] = "drained"
      BY <2>2, Types DEF Drain, TypeOK
    <3> QED
      BY <1>0, <3>1 DEF DrainWaits
  <2>3. CASE DrainStreams(h)
    <3>1. streaming' = streaming /\ handling' = handling
      BY <2>3, Zenon DEF DrainStreams
    <3>2. CASE g = h
      <4>1. /\ before'[h] = handling[h] \ ending[h] /\ ending'[h] = handling[h]
            /\ hpc'[h] = IF before'[h] = {} THEN "drained" ELSE "waiting"
        BY <2>3, Types DEF DrainStreams, TypeOK
      <4> QED
        BY <1>0, <3>1, <3>2, <4>1 DEF DrainWaits
    <3>3. CASE g # h
      <4>1. hpc'[g] = hpc[g] /\ before'[g] = before[g] /\ ending'[g] = ending[g]
        BY <2>3, <3>3, Types DEF DrainStreams, TypeOK
      <4> QED
        BY <1>0, <3>1, <4>1 DEF DrainWaits
    <3> QED
      BY <3>2, <3>3
  <2>4. CASE Drained(h) \/ Release(h) \/ Remove(h)
    <3>1. /\ UNCHANGED <<streaming, handling, before, ending>>
          /\ hpc'[g] = hpc[g] \/ hpc'[g] \in {"drained", "released", "complete"}
      BY <2>4 DEF Drained, Release, Remove, TypeOK
    <3> QED
      BY <1>1, <3>1
  <2>5. CASE LoopEnds(h)
    BY <1>1, <2>5, Zenon DEF LoopEnds
  <2> QED
    BY <1>3, <2>1, <2>2, <2>3, <2>4, <2>5, Zenon DEF HandlerCloseNext
<1>4. ASSUME NEW h \in Handlers, RegisterNext(h), NEW g \in Handlers
      PROVE  DrainWaits(g)'
  <2>1. UNCHANGED <<streaming, hpc, handling, before, ending>>
    BY <1>4, Zenon DEF RegisterNext, CheckShutdown, CheckVacant, Create, CreateStream,
       Subscribes, Count, Insert, Run
  <2> QED
    BY <1>1, <2>1
<1>5. ASSUME NEW q \in Requests, Arrive(q), NEW g \in Handlers
      PROVE  DrainWaits(g)'
  BY <1>1, <1>5, Zenon DEF Arrive
<1>6. ASSUME UNCHANGED <<streaming, hpc, handling, before, ending>>, NEW g \in Handlers
      PROVE  DrainWaits(g)'
  BY <1>1, <1>6
<1> QED
  BY <1>2, <1>3, <1>4, <1>5, <1>6, CallOnward DEF Next, DrainsWait

\* The last handler that is released wakes the Closes that wait.
LEMMA ClosesStep ==
    ASSUME TypeOK, InPlace, ClosesWait, Next
    PROVE  ClosesWait'
<1> USE DEF registerVars, requestVars, serverVars, handlerVars, callVars
<1>0. \A h \in Handlers : hpc[h] = "complete" => hpc'[h] = "complete"
  BY AllOnward DEF Onward, HpcStep
<1>1. /\ active \in Nat /\ \A c \in Closers : CloseWaits(c) /\ snapshot[c] \subseteq Handlers
      /\ \A d \in Removers : dpc[d] = "closing" => found[d] # None
  BY Types DEF ClosesWait, TypeOK
<1>2. ASSUME NEW c \in Closers, snapshot'[c] = snapshot[c], cpc'[c] = cpc[c], once' = once,
             cpc[c] = "waiting" /\ active # 0 => active' # 0
      PROVE  CloseWaits(c)'
  BY <1>0, <1>1, <1>2 DEF CloseWaits
<1>3. ASSUME UNCHANGED <<snapshot, cpc, once, dpc, found>>, active' = active \/ active' = active + 1
      PROVE  ClosesWait'
  <2>1. active # 0 => active' # 0
    BY <1>1, <1>3
  <2> QED
    BY <1>1, <1>2, <1>3, <2>1 DEF ClosesWait
<1>4. ASSUME NEW h \in Handlers, Release(h)
      PROVE  ClosesWait'
  <2>1. /\ UNCHANGED <<snapshot, once, dpc, found>>
        /\ \A c \in Closers :
              cpc'[c] = IF cpc[c] = "waiting" /\ active' = 0 THEN "woken" ELSE cpc[c]
    BY <1>4, Zenon DEF Release
  <2>2. ASSUME NEW c \in Closers PROVE CloseWaits(c)'
    BY <1>0, <1>1, <2>1 DEF CloseWaits
  <2> QED
    BY <1>1, <2>1, <2>2 DEF ClosesWait
<1>5. ASSUME NEW h \in Handlers, RegisterNext(h) \/ (HandlerCloseNext(h) /\ ~Release(h))
      PROVE  ClosesWait'
  <2>1. UNCHANGED <<snapshot, cpc, once, dpc, found>> /\ (active' = active \/ active' = active + 1)
    BY <1>5, Zenon DEF RegisterNext, CheckShutdown, CheckVacant, Create, CreateStream,
       Subscribes, Count, Insert, Run, HandlerCloseNext, CloseOnce, Drain, DrainStreams,
       Drained, Remove, LoopEnds
  <2> QED
    BY <1>3, <2>1
<1>6. ASSUME NEW q \in Requests, Arrive(q) \/ \E h \in Handlers : RequestNext(h, q)
      PROVE  ClosesWait'
  <2>1. UNCHANGED <<snapshot, cpc, once, dpc, found, active>>
    BY <1>6, Zenon DEF RequestNext, Arrive, Take, Begin, NotClaimed, EndStream, Finish
  <2> QED
    BY <1>3, <2>1
<1>7. ASSUME NEW d \in Removers, RemoverNext(d)
      PROVE  ClosesWait'
  <2>1. UNCHANGED <<snapshot, cpc, once, active>>
    BY <1>7, Zenon DEF RemoverNext, Deregister, Deregistered
  <2>2. \A b \in Removers : dpc'[b] = "closing" => found'[b] # None
    BY <1>1, <1>7, Types DEF RemoverNext, Deregister, Deregistered, TypeOK
  <2> QED
    BY <1>1, <1>2, <2>1, <2>2 DEF ClosesWait
<1>8. ASSUME NEW c \in Closers, CloserNext(c)
      PROVE  ClosesWait'
  <2>1. /\ UNCHANGED <<dpc, found, active, hpc>> /\ once' # "none"
    <3>1. Close(c) => UNCHANGED <<dpc, found, active, hpc>> /\ once' = c
      BY Zenon DEF Close
    <3>2. HandlersClosed(c) => UNCHANGED <<dpc, found, active, hpc>> /\ once' = "done"
      BY Zenon DEF HandlersClosed, AwaitActive
    <3>3. CloseAgain(c) => UNCHANGED <<dpc, found, active, hpc>> /\ once' = "done"
      BY Zenon DEF CloseAgain, AwaitActive
    <3>4. ActiveDone(c) =>
             UNCHANGED <<dpc, found, active, hpc>> /\ once' = once /\ cpc[c] = "woken"
      BY Zenon DEF ActiveDone
    <3>5. c # "none" /\ (cpc[c] = "woken" => once # "none")
      BY <1>1, ServerLifecycleAssumption DEF CloseWaits
    <3> QED
      BY <1>8, <3>1, <3>2, <3>3, <3>4, <3>5 DEF CloserNext
  <2>2. ASSUME NEW b \in Closers, b # c PROVE CloseWaits(b)'
    <3>1. cpc'[b] = cpc[b] /\ snapshot'[b] = snapshot[b]
      BY <1>8, <2>2, Types DEF CloserNext, Close, HandlersClosed, CloseAgain, AwaitActive,
         ActiveDone, TypeOK
    <3> QED
      BY <1>1, <2>1, <3>1 DEF CloseWaits
  <2>3. CASE Close(c)
    <3>1. cpc'[c] = "closing"
      BY <2>3 DEF Close, TypeOK
    <3> QED
      BY <1>1, <2>1, <2>2, <3>1 DEF ClosesWait, CloseWaits
  <2>4. CASE HandlersClosed(c) \/ CloseAgain(c)
    <3>1. /\ snapshot' = snapshot /\ \A h \in snapshot[c] : hpc[h] = "complete"
          /\ AwaitActive(c)
      BY <1>1, <2>4, Zenon DEF HandlersClosed, CloseAgain, CloseWaits
    <3>2. cpc' = [cpc EXCEPT ![c] = IF Forced[c] \/ active = 0 THEN "returned" ELSE "waiting"]
      BY <3>1, Zenon DEF AwaitActive
    <3>3. cpc'[c] = "returned" \/ (cpc'[c] = "waiting" /\ active # 0)
      BY <3>2 DEF TypeOK
    <3> QED
      BY <1>1, <2>1, <2>2, <3>1, <3>3 DEF ClosesWait, CloseWaits
  <2>5. CASE ActiveDone(c)
    <3>1. cpc'[c] = "returned" /\ cpc[c] = "woken" /\ snapshot' = snapshot
      BY <2>5 DEF ActiveDone, TypeOK
    <3> QED
      BY <1>1, <2>1, <2>2, <3>1 DEF ClosesWait, CloseWaits
  <2> QED
    BY <1>8, <2>3, <2>4, <2>5 DEF CloserNext
<1> QED
  BY <1>4, <1>5, <1>6, <1>7, <1>8 DEF Next

\* Where no guard holds no drain waits, as who it waits for would end; then what is still
\* counted is open and nobody closes it, which is what a Close can wait for.
LEMMA RestsThen ==
    ASSUME Inv, DrainsWait, ClosesWait, ~panicked, ~CanGoOn
    PROVE  /\ \A h \in Handlers : hpc[h] \in {"open", "complete"}
           /\ \A d \in Removers : dpc[d] # "closing"
           /\ \A c \in Closers :
                 cpc[c] \in {"idle", "returned"}
                 \/ (cpc[c] = "waiting" /\ \E h \in Handlers : Overlooked(h))
<1>1. \A h \in Handlers :
         /\ hpc[h] = "open" => CloseCalls(h) = {}
         /\ hpc[h] \notin {"draining", "woken", "drained", "released"}
         /\ reg[h] # "counted"
         /\ \A q \in handling[h] : streaming /\ q \notin ending[h]
  BY DEF CanGoOn
<1>2. /\ \A c \in Closers :
            /\ cpc[c] = "closing" => \E h \in snapshot[c] : hpc[h] # "complete"
            /\ cpc[c] # "woken"
      /\ \A d \in Removers : dpc[d] = "closing" => hpc[found[d]] # "complete"
  BY DEF CanGoOn
<1>3. ASSUME NEW h \in Handlers PROVE hpc[h] \in {"open", "complete"}
  <2>1. hpc[h] # "waiting"
    BY <1>1 DEF DrainsWait, DrainWaits
  <2>2. hpc[h] \in {"open", "draining", "waiting", "woken", "drained", "released", "complete"}
    BY DEF Inv, TypeOK
  <2> QED
    BY <1>1, <2>1, <2>2
<1>4. ASSUME NEW d \in Removers PROVE dpc[d] # "closing"
  <2>1. dpc[d] = "closing" => found[d] \in Handlers /\ CloseCalls(found[d]) # {}
    BY Types DEF Inv, ClosesWait, CloseCalls
  <2> QED
    BY <1>1, <1>2, <1>3, <2>1
<1>5. ASSUME NEW c \in Closers, NEW h \in snapshot[c], cpc[c] = "closing"
      PROVE  hpc[h] = "complete"
  <2>1. h \in Handlers
    BY <1>5, Types DEF Inv
  <2>2. Forced[c] \in CloseCalls(h)
    BY <1>5, Zenon DEF CloseCalls
  <2> QED
    BY <1>1, <1>3, <2>1, <2>2
<1>6. ASSUME NEW c \in Closers, cpc[c] = "waiting" PROVE \E h \in Handlers : Overlooked(h)
  <2>1. active # 0 /\ once # "none"
    BY <1>6 DEF ClosesWait, CloseWaits
  <2>2. PICK h \in Handlers : h \in Counted
    <3>1. Counted # {}
      BY <2>1, FS_EmptySet DEF Inv, ActiveCounts
    <3> QED
      BY <3>1 DEF Counted
  <2>3. reg[h] \in {"inserted", "running"} /\ hpc[h] = "open" /\ CloseCalls(h) = {}
    BY <1>1, <1>3, <2>2 DEF Counted, Inv, InPlace
  <2>4. ASSUME NEW b \in Closers PROVE h \notin snapshot[b]
    BY <1>5, <2>3 DEF ClosesWait, CloseWaits
  <2>5. handlers[Key[h]] # h => \E g \in raced : Key[g] = Key[h]
    BY <2>3 DEF Inv, RacesKnown, Placed, Raced
  <2> QED
    BY <2>1, <2>3, <2>4, <2>5 DEF Overlooked
<1>7. ASSUME NEW c \in Closers PROVE cpc[c] \in {"idle", "waiting", "returned"}
  <2>1. cpc[c] \in {"idle", "closing", "waiting", "woken", "returned"}
    BY DEF Inv, TypeOK
  <2> QED
    BY <1>2, <1>5, <2>1
<1> QED
  BY <1>3, <1>4, <1>6, <1>7

\* Left alone, every close of a handler, every DeregisterHandler and every Close returns,
\* but for a Close that waits for a handler whose registration raced with another of its key
\* or with the Close.
THEOREM ComesToRest == Spec => []AtRest
<1>1. Init => DrainsWait /\ ClosesWait
  BY DEF Init, DrainsWait, DrainWaits, ClosesWait, CloseWaits
<1>2. Inv /\ DrainsWait /\ ClosesWait /\ [Next]_vars => (DrainsWait /\ ClosesWait)'
  <2> SUFFICES ASSUME Inv, DrainsWait, ClosesWait, [Next]_vars PROVE (DrainsWait /\ ClosesWait)'
    OBVIOUS
  <2>1. CASE UNCHANGED vars
    BY <2>1, Zenon DEF vars, registerVars, requestVars, serverVars, handlerVars, callVars,
       DrainsWait, DrainWaits, ClosesWait, CloseWaits
  <2>2. CASE Next
    BY <2>2, DrainsStep, ClosesStep DEF Inv
  <2> QED
    BY <2>1, <2>2
<1>3. Inv /\ DrainsWait /\ ClosesWait => AtRest
  BY RestsThen, Zenon DEF AtRest
<1> QED
  BY <1>1, <1>2, <1>3, Inductive, PTL DEF Spec
=============================================================================
