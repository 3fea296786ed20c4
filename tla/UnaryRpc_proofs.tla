--------------------------- MODULE UnaryRpc_proofs ---------------------------
(***************************************************************************)
(* Theorems about UnaryRpc, for every set of calls and servers, every      *)
(* method and every selection; and that it implements AtMostOnce.          *)
(***************************************************************************)
EXTENDS UnaryRpc, FiniteSetTheorems, TLAPS

USE DEF ClientState, ServerState, Outcome

\* Ending a call and choosing a server keep the types of what they change.
LEMMA ReturnType ==
    ASSUME TypeOK, NEW r \in Requests, NEW res \in Result, Return(r, res)
    PROVE  /\ pc' \in [Requests -> ClientState] /\ result' \in [Requests -> Result]
           /\ \A q \in Requests : pc'[q] = "choosing" => pc[q] = "choosing"
  BY DEF TypeOK, Return

\* An outcome is a result.
LEMMA EndedType ==
    ASSUME NEW k \in Outcome
    PROVE  Ended(k) \in Result
  BY DEF Ended, Result

\* Choosing a server keeps the types of what it changes.
LEMMA ChooseType ==
    ASSUME TypeOK, NEW r \in Requests, NEW s \in Servers, Choose(r, s)
    PROVE  /\ pc' \in [Requests -> ClientState]
           /\ chosen' \in [Requests -> Servers \cup {NoServer}]
           /\ \A q \in Requests : pc'[q] = "choosing" => chosen'[q] \in Servers
  BY DEF TypeOK, Choose

\* What the dispatcher hands over is a message of a call.
LEMMA HandedOver ==
    ASSUME TypeOK, HandingOver
    PROVE  /\ disp \in IF disp.type = "claim" THEN ClaimRequest ELSE Response
           /\ disp.req \in Requests
<1>1. disp \in ClaimRequest \cup Response
  BY DEF TypeOK, HandingOver, Idle, Stopped, Closing
<1> QED
  BY <1>1 DEF ClaimRequest, Response

\* The dispatcher goroutine, RPCClient.Close, and the bus that fills a subscription.
Dispatching == DispatcherNext \/ Close \/ \E sub \in Locking : Overflow(sub)

\* They leave the calls and the servers alone.
LEMMA DispatcherFrame ==
    ASSUME Dispatching
    PROVE  UNCHANGED <<rpcChannel, claimResponseChannel, pc, result, locals, serverVars>>
<1> USE DEF bus
<1>1. CASE \E m \in claimRequestChannel : DispatchClaim(m)
  BY <1>1 DEF DispatchClaim
<1>2. CASE \E m \in responseChannel : DispatchResponse(m)
  BY <1>2 DEF DispatchResponse
<1>3. CASE HandOver
  BY <1>3 DEF HandOver
<1>4. CASE Read \/ Stop \/ CloseNext
  BY <1>4 DEF Read, Stop, CloseNext
<1>5. CASE Close \/ \E sub \in Locking : Overflow(sub)
  BY <1>5 DEF Close, Overflow
<1> QED
  BY <1>1, <1>2, <1>3, <1>4, <1>5 DEF Dispatching, DispatcherNext

\* The types are preserved by the call's own steps.
LEMMA ClientType ==
    ASSUME TypeOK, NEW r \in Requests, ClientNext(r)
    PROVE  TypeOK'
<1> USE UnaryRpcAssumption DEF TypeOK, bus, locals, serverVars
<1>1. CASE CallClosed(r)
  <2>1. Ended("closed") \in Result
    BY EndedType
  <2> QED
    BY <1>1, <2>1 DEF CallClosed
<1>2. CASE Call(r)
  BY <1>2 DEF Call
<1>9. CASE Publish(r)
  <2>1. rpcChannel' \subseteq Servers \X Requests
    <3>1. PICK to \in Audience(r) : rpcChannel' = rpcChannel \cup (to \X {r})
      BY <1>9 DEF Publish
    <3>2. to \subseteq Servers
      BY DEF Audience
    <3> QED
      BY <3>1, <3>2
  <2>2. result' \in [Requests -> Result] /\ pc' \in [Requests -> ClientState]
    <3>1. CASE Return(r, Ended("internal"))
      BY <3>1, ReturnType, EndedType
    <3>2. CASE /\ pc' = [pc EXCEPT ![r] = IF Method[r].claim THEN "select" ELSE "wait"]
               /\ UNCHANGED result
      BY <3>2
    <3> QED
      BY <1>9, <3>1, <3>2 DEF Publish
  <2>3. \A q \in Requests : pc'[q] = "choosing" => chosen'[q] \in Servers
    BY <1>9 DEF Publish, Return
  <2> QED
    BY <1>9, <2>1, <2>2, <2>3 DEF Publish
<1>10. CASE PublishChoice(r)
  <2>1. chosen[r] \in Servers
    BY <1>10 DEF PublishChoice
  <2>2. claimResponseChannel' \subseteq ClaimResponse
    BY <1>10, <2>1 DEF PublishChoice, ClaimResponse
  <2>3. result' \in [Requests -> Result] /\ pc' \in [Requests -> ClientState]
    <3>1. CASE Return(r, Ended("internal"))
      BY <3>1, ReturnType, EndedType
    <3>2. CASE pc' = [pc EXCEPT ![r] = "wait"] /\ UNCHANGED result
      BY <3>2
    <3> QED
      BY <1>10, <3>1, <3>2 DEF PublishChoice
  <2>4. \A q \in Requests : pc'[q] = "choosing" => chosen'[q] \in Servers
    BY <1>10 DEF PublishChoice, Return
  <2> QED
    BY <1>10, <2>2, <2>3, <2>4 DEF PublishChoice
<1>3. CASE SelectClaim(r)
  <2> DEFINE c == Head(claimChan[r])
  <2>1. c \in ClaimRequest /\ Tail(claimChan[r]) \in Seq(ClaimRequest)
    BY <1>3 DEF SelectClaim
  <2>2. c.server \in Servers /\ c.affinity \in Int
    BY <2>1 DEF ClaimRequest
  <2>3. Considered(r, c) \in Candidates
    BY <2>2 DEF Considered, Candidate, Candidates
  <2>4. /\ sel' \in [Requests -> Candidates]
        /\ pc' \in [Requests -> ClientState]
        /\ chosen' \in [Requests -> Servers \cup {NoServer}]
        /\ \A q \in Requests : pc'[q] = "choosing" => chosen'[q] \in Servers
    <3>1. CASE Choose(r, c.server) /\ UNCHANGED sel
      BY <3>1, <2>2, ChooseType
    <3>2. CASE /\ sel' = [sel EXCEPT ![r] = Considered(r, c)]
               /\ UNCHANGED <<pc, chosen>>
      BY <3>2, <2>3
    <3> QED
      BY <1>3, <3>1, <3>2 DEF SelectClaim
  <2> QED
    BY <1>3, <2>1, <2>4 DEF SelectClaim
<1>4. CASE SelectResponse(r)
  <2> DEFINE s == sel[r]
  <2>1. Candidate(s.server, s.affinity, s.claims, "malformed") \in Candidates
    BY DEF Candidate, Candidates
  <2>2. sel' \in [Requests -> Candidates]
    BY <1>4, <2>1 DEF SelectResponse
  <2>3. Tail(resChan[r]) \in Seq(Response)
    BY <1>4 DEF SelectResponse
  <2> QED
    BY <1>4, <2>2, <2>3 DEF SelectResponse
<1>5. CASE SelectEnds(r)
  <2>1. ASSUME NEW s \in Servers, Choose(r, s)
        PROVE  /\ pc' \in [Requests -> ClientState]
               /\ chosen' \in [Requests -> Servers \cup {NoServer}]
               /\ \A q \in Requests : pc'[q] = "choosing" => chosen'[q] \in Servers
    BY <2>1, ChooseType
  <2>2. ASSUME NEW k \in Outcome, Return(r, Ended(k))
        PROVE  /\ pc' \in [Requests -> ClientState]
               /\ result' \in [Requests -> Result]
               /\ \A q \in Requests : pc'[q] = "choosing" => pc[q] = "choosing"
    BY <2>2, ReturnType, EndedType
  <2>3. sel[r].server \in Servers \cup {NoServer} /\ sel[r].claims \subseteq Servers
    BY DEF Candidates
  <2>4. sel[r].failure \in Outcome
    BY DEF Candidates
  <2> QED
    BY <1>5, <2>1, <2>2, <2>3, <2>4 DEF SelectEnds
<1>6. CASE AwaitResponse(r)
  <2>1. Head(resChan[r]) \in Response /\ Tail(resChan[r]) \in Seq(Response)
    BY <1>6 DEF AwaitResponse
  <2>2. [kind |-> Head(resChan[r]).kind, server |-> Head(resChan[r]).server] \in Result
    BY <2>1 DEF Response, Result
  <2>3. /\ pc' \in [Requests -> ClientState] /\ result' \in [Requests -> Result]
        /\ \A q \in Requests : pc'[q] = "choosing" => pc[q] = "choosing"
    BY <1>6, <2>2, ReturnType DEF AwaitResponse
  <2>4. resChan' \in [Requests -> Seq(Response)]
    BY <1>6, <2>1 DEF AwaitResponse
  <2> QED
    BY <1>6, <2>3, <2>4 DEF AwaitResponse
<1>7. CASE AwaitEnds(r)
  <2>1. /\ pc' \in [Requests -> ClientState] /\ result' \in [Requests -> Result]
        /\ \A q \in Requests : pc'[q] = "choosing" => pc[q] = "choosing"
    BY <1>7, ReturnType, EndedType DEF AwaitEnds
  <2> QED
    BY <1>7, <2>1 DEF AwaitEnds
<1>8. CASE Unregister(r)
  BY <1>8 DEF Unregister
<1> QED
  BY <1>1, <1>2, <1>3, <1>4, <1>5, <1>6, <1>7, <1>8, <1>9, <1>10 DEF ClientNext

\* The types are preserved by the dispatcher.
LEMMA DispatcherType ==
    ASSUME TypeOK, Dispatching
    PROVE  TypeOK'
<1> USE UnaryRpcAssumption DEF TypeOK, bus, locals, serverVars
<1>1. ASSUME NEW m \in claimRequestChannel, DispatchClaim(m)
      PROVE  TypeOK'
  BY <1>1 DEF DispatchClaim, Lookup, Makes
<1>2. ASSUME NEW m \in responseChannel, DispatchResponse(m)
      PROVE  TypeOK'
  BY <1>2 DEF DispatchResponse, Lookup, Makes
<1>3. CASE HandOver
  <2>1. CASE disp.type = "claim"
    <3>1. disp \in ClaimRequest /\ disp.req \in Requests
      BY <1>3, <2>1, HandedOver DEF HandOver
    <3>2. Append(claimChan[disp.req], disp) \in Seq(ClaimRequest)
      BY <3>1
    <3>3. claimChan' = [claimChan EXCEPT ![disp.req] = Append(claimChan[disp.req], disp)]
      BY <1>3, <2>1 DEF HandOver
    <3>4. claimChan' \in [Requests -> Seq(ClaimRequest)]
      BY <3>1, <3>2, <3>3
    <3>5. disp' = Idle /\ UNCHANGED <<bus, pc, registered, resChan, locals, result, closed,
                                      writing, serverVars>>
      BY <1>3, <2>1 DEF HandOver
    <3> QED
      BY <3>4, <3>5
  <2>2. CASE disp.type # "claim"
    <3>1. disp \in Response /\ disp.req \in Requests
      BY <1>3, <2>2, HandedOver DEF HandOver
    <3>2. Append(resChan[disp.req], disp) \in Seq(Response)
      BY <3>1
    <3> QED
      <4>1. resChan' = [resChan EXCEPT ![disp.req] = Append(@, disp)]
        BY <1>3, <2>2 DEF HandOver
      <4>2. resChan' \in [Requests -> Seq(Response)]
        BY <4>1, <3>1, <3>2
      <4> QED
        BY <1>3, <2>2, <4>2 DEF HandOver
  <2> QED
    BY <2>1, <2>2
<1>4. CASE Stop
  BY <1>4 DEF Stop, Cancel, Makes
<1>5. CASE Close \/ Read
  BY <1>5 DEF Close, Read
<1>6. CASE CloseNext
  <2>1. PICK i \in 1..3 : disp = Closing(i)
    BY <1>6 DEF CloseNext, Idle, Stopped, ClaimRequest, Response
  <2>2. disp.sub = i
    BY <2>1 DEF Closing
  <2>3. /\ writing' = writing
        /\ disp' = Stopped \/ \E k \in 1..3 : disp' = Closing(k)
    BY <1>6, <2>2 DEF CloseNext, Cancel, Makes
  <2> QED
    BY <1>6, <2>3 DEF CloseNext
<1>7. CASE \E sub \in Locking : Overflow(sub)
  BY <1>7 DEF Overflow
<1> QED
  BY <1>1, <1>2, <1>3, <1>4, <1>5, <1>6, <1>7 DEF Dispatching, DispatcherNext

\* The types are preserved by the servers.
LEMMA ServerType ==
    ASSUME TypeOK,
           \/ \E s \in Servers, r \in Requests : ServerNext(s, r)
           \/ \E g \in claimResponseChannel : ReceiveGrant(g)
    PROVE  TypeOK'
<1> USE UnaryRpcAssumption DEF TypeOK, bus, locals, serverVars
<1>1. ASSUME NEW s \in Servers, NEW r \in Requests, ReceiveRequest(s, r)
      PROVE  TypeOK'
  BY <1>1 DEF ReceiveRequest
<1>2. ASSUME NEW s \in Servers, NEW r \in Requests, NEW k \in {"reply", "error"},
             SendResponse(s, r, k)
      PROVE  responseChannel' \subseteq Response
  BY <1>2 DEF SendResponse, Response
<1>3. ASSUME NEW s \in Servers, NEW r \in Requests, Reject(s, r)
      PROVE  TypeOK'
  BY <1>2, <1>3 DEF Reject
<1>4. ASSUME NEW s \in Servers, NEW r \in Requests, Claim(s, r)
      PROVE  TypeOK'
  <2>1. spc' \in [Servers -> [Requests -> ServerState]]
    <3>1. PICK st \in ServerState : spc' = [spc EXCEPT ![s][r] = st]
      BY <1>4 DEF Claim
    <3> QED
      BY <3>1
  <2>2. claimRequestChannel' \subseteq ClaimRequest
    BY <1>4 DEF Claim, ClaimRequest
  <2> QED
    BY <1>4, <2>1, <2>2 DEF Claim
<1>5. ASSUME NEW s \in Servers, NEW r \in Requests, TakeGrant(s, r)
      PROVE  TypeOK'
  <2>1. spc' \in [Servers -> [Requests -> ServerState]]
    BY <1>5 DEF TakeGrant
  <2>2. grantChan' \in [Servers -> [Requests -> Seq(Servers)]]
    BY <1>5 DEF TakeGrant
  <2> QED
    BY <1>5, <2>1, <2>2 DEF TakeGrant
<1>6. ASSUME NEW s \in Servers, NEW r \in Requests, ClaimExpires(s, r)
      PROVE  TypeOK'
  BY <1>6 DEF ClaimExpires
<1>7. ASSUME NEW s \in Servers, NEW r \in Requests, Handle(s, r)
      PROVE  TypeOK'
  BY <1>7 DEF Handle
<1>8. ASSUME NEW s \in Servers, NEW r \in Requests, Respond(s, r)
      PROVE  TypeOK'
  BY <1>2, <1>8 DEF Respond
<1>9. ASSUME NEW g \in claimResponseChannel, ReceiveGrant(g)
      PROVE  TypeOK'
  <2>1. g.to \in Servers /\ g.req \in Requests /\ g.server \in Servers
    BY DEF ClaimResponse
  <2>2. CASE UNCHANGED grantChan
    BY <1>9, <2>2 DEF ReceiveGrant
  <2>3. CASE grantChan' = [grantChan EXCEPT ![g.to][g.req] = Append(@, g.server)]
    <3>1. Append(grantChan[g.to][g.req], g.server) \in Seq(Servers)
      BY <2>1
    <3>2. grantChan' \in [Servers -> [Requests -> Seq(Servers)]]
      BY <2>1, <2>3, <3>1
    <3> QED
      BY <1>9, <3>2 DEF ReceiveGrant
  <2> QED
    BY <1>9, <2>2, <2>3 DEF ReceiveGrant
<1> QED
  BY <1>1, <1>3, <1>4, <1>5, <1>6, <1>7, <1>8, <1>9 DEF ServerNext

\* Every variable keeps its type.
THEOREM TypeCorrect == Spec => []TypeOK
<1>1. Init => TypeOK
  <2>1. NoCandidate \in Candidates
    BY DEF NoCandidate, Candidate, Candidates
  <2>2. Ended("none") \in Result
    BY EndedType
  <2>3. Init => /\ claimChan \in [Requests -> Seq(ClaimRequest)]
                /\ resChan \in [Requests -> Seq(Response)]
                /\ grantChan \in [Servers -> [Requests -> Seq(Servers)]]
    BY DEF Init
  <2>4. Init => /\ sel \in [Requests -> Candidates]
                /\ result \in [Requests -> Result]
    BY <2>1, <2>2 DEF Init
  <2>5. Init => /\ pc \in [Requests -> ClientState]
                /\ chosen \in [Requests -> Servers \cup {NoServer}]
                /\ spc \in [Servers -> [Requests -> ServerState]]
                /\ seen \in [Requests -> SUBSET ClaimRequest]
    BY DEF Init
  <2> QED
    BY <2>3, <2>4, <2>5 DEF Init, TypeOK
<1>2. TypeOK /\ [Next]_vars => TypeOK'
  <2> SUFFICES ASSUME TypeOK, [Next]_vars PROVE TypeOK'
    OBVIOUS
  <2>1. CASE UNCHANGED vars
    BY <2>1 DEF TypeOK, vars, bus, locals, serverVars
  <2>2. CASE Next
    BY <2>2, ClientType, DispatcherType, ServerType DEF Next, Dispatching
  <2> QED
    BY <2>1, <2>2
<1> QED
  BY <1>1, <1>2, PTL DEF Spec

----------------------------------------------------------------------------
\* The inductive invariant.

\* The request is on its way to s, or s has received it.
Reached(s, r) == <<s, r>> \in rpcChannel \/ spc[s][r] # "none"

Refusals == {"unselected", "malformed", "custom", "closed"}

\* A call has its result exactly when newRPC has returned.
Progress ==
    \A r \in Requests : result[r].kind = "none" <=>
                         pc[r] \in {"idle", "calling", "select", "choosing", "wait"}

\* serverID is set once, as the selection ends, and only a claimed call selects.
ChosenOnce ==
    \A r \in Requests :
        /\ pc[r] \in {"idle", "calling", "select"} => chosen[r] = NoServer
        /\ result[r].kind \in Refusals => chosen[r] = NoServer
        /\ pc[r] \in {"select", "choosing"} => Method[r].claim
        /\ result[r].kind \in Refusals \ {"closed"} => Method[r].claim

\* A claim response on its way, or handed to a request, names the server chosen.
GrantsAgree ==
    /\ \A g \in claimResponseChannel : g.server = chosen[g.req]
    /\ \A s \in Servers, r \in Requests :
          grantChan[s][r] # << >> => Head(grantChan[s][r]) = chosen[r]

\* Only the server chosen runs a claimed call.
ChosenRuns ==
    \A s \in Servers, r \in Requests : Method[r].claim /\ Ran(s, r) => s = chosen[r]

\* A queued request reaches one server, and none before it is published.
OneReached ==
    \A r \in Requests, s \in Servers :
        Reached(s, r) =>
            /\ pc[r] \notin {"idle", "calling"} /\ result[r].kind # "closed"
            /\ Method[r].queue => \A t \in Servers : Reached(t, r) => s = t

Invariants == Progress /\ ChosenOnce /\ GrantsAgree /\ ChosenRuns /\ OneReached

\* What the invariant reads.
read == <<rpcChannel, claimResponseChannel, pc, result, chosen, spc, grantChan>>

\* The invariants read no other variables than these.
LEMMA Unread ==
    ASSUME Invariants, UNCHANGED read
    PROVE  Invariants'
  BY DEF Invariants, read, Progress, ChosenOnce, GrantsAgree, ChosenRuns, OneReached,
         Reached, Ran

\* newRPC returns without having changed anything else.
LEMMA ReturnStep ==
    ASSUME TypeOK, Invariants, NEW r \in Requests, NEW res \in Result, Return(r, res),
           pc[r] \in {"select", "choosing", "wait"},
           res.kind \in Outcome \ {"none", "closed"},
           res.kind \in Refusals => pc[r] = "select",
           UNCHANGED <<rpcChannel, claimResponseChannel, chosen, spc, grantChan>>
    PROVE  Invariants'
<1> USE DEF Invariants, TypeOK, Return, Refusals
<1>1. Progress'
  BY DEF Progress
<1>2. ChosenOnce'
  BY DEF ChosenOnce
<1>3. GrantsAgree' /\ ChosenRuns'
  BY DEF GrantsAgree, ChosenRuns, Ran
<1>4. OneReached'
  BY DEF OneReached, Reached
<1> QED
  BY <1>1, <1>2, <1>3, <1>4

\* A server is chosen: until then nobody was, so no claim response for the call exists
\* and none of its handlers runs.
LEMMA ChooseStep ==
    ASSUME TypeOK, Invariants, NEW r \in Requests, NEW s \in Servers, Choose(r, s),
           pc[r] = "select",
           UNCHANGED <<rpcChannel, claimResponseChannel, result, spc, grantChan>>
    PROVE  Invariants'
<1> USE UnaryRpcAssumption DEF Invariants, TypeOK
<1>1. /\ chosen[r] = NoServer /\ result[r].kind = "none" /\ Method[r].claim
      /\ chosen' = [chosen EXCEPT ![r] = s]
      /\ pc' = [pc EXCEPT ![r] = "choosing"]
  BY DEF Progress, ChosenOnce, Choose
<1>2. Progress' /\ ChosenOnce'
  BY <1>1 DEF Progress, ChosenOnce, Refusals
<1>3. GrantsAgree'
  <2>1. ASSUME NEW g \in claimResponseChannel
        PROVE  g.server = chosen'[g.req]
    BY <1>1, <2>1 DEF GrantsAgree, ClaimResponse
  <2>2. ASSUME NEW t \in Servers, NEW q \in Requests, grantChan[t][q] # << >>
        PROVE  Head(grantChan[t][q]) = chosen'[q]
    <3>1. Head(grantChan[t][q]) = chosen[q] /\ Head(grantChan[t][q]) \in Servers
      BY <2>2 DEF GrantsAgree
    <3> QED
      BY <1>1, <3>1
  <2> QED
    BY <2>1, <2>2 DEF GrantsAgree
<1>4. ChosenRuns'
  BY <1>1 DEF ChosenRuns, Ran
<1>5. OneReached'
  BY <1>1 DEF OneReached, Reached
<1> QED
  BY <1>2, <1>3, <1>4, <1>5

\* The choice is announced.
LEMMA AnnounceStep ==
    ASSUME TypeOK, Invariants, NEW r \in Requests, PublishChoice(r)
    PROVE  Invariants'
<1> USE DEF Invariants, TypeOK
<1>1. /\ pc[r] = "choosing"
      /\ claimResponseChannel' = claimResponseChannel \cup
            {[to |-> t, req |-> r, server |-> chosen[r]] : t \in Servers}
      /\ UNCHANGED <<rpcChannel, chosen, spc, grantChan>>
  BY DEF PublishChoice, locals, serverVars
<1>2. PICK k \in {"none", "internal"}, st \in {"wait", "cleanup"} :
         /\ k = "none" <=> st = "wait"
         /\ pc' = [pc EXCEPT ![r] = st]
         /\ k # "none" => result' = [result EXCEPT ![r] = Ended(k)]
         /\ k = "none" => result' = result
  BY DEF PublishChoice, Return
<1>3. Progress'
  BY <1>1, <1>2 DEF Progress, Ended
<1>4. ChosenOnce'
  BY <1>1, <1>2 DEF Progress, ChosenOnce, Ended, Refusals
<1>5. GrantsAgree'
  BY <1>1 DEF GrantsAgree
<1>6. ChosenRuns'
  BY <1>1 DEF ChosenRuns, Ran
<1>7. OneReached'
  BY <1>1, <1>2 DEF OneReached, Reached, Ended
<1> QED
  BY <1>3, <1>4, <1>5, <1>6, <1>7

\* Each step of a call keeps the invariants.
LEMMA ClientStep ==
    ASSUME TypeOK, Invariants, NEW r \in Requests, ClientNext(r)
    PROVE  Invariants'
<1>1. CASE CallClosed(r)
  <2> USE <1>1 DEF Invariants, TypeOK, CallClosed, bus, locals, serverVars, Ended
  <2>1. Progress' /\ ChosenOnce'
    BY DEF Progress, ChosenOnce, Refusals
  <2>2. GrantsAgree' /\ ChosenRuns'
    BY DEF GrantsAgree, ChosenRuns, Ran
  <2>3. OneReached'
    BY DEF OneReached, Reached
  <2> QED
    BY <2>1, <2>2, <2>3
<1>2. CASE Call(r)
  <2> USE <1>2 DEF Invariants, TypeOK, Call, bus, locals, serverVars
  <2>1. Progress' /\ ChosenOnce'
    BY DEF Progress, ChosenOnce
  <2>2. GrantsAgree' /\ ChosenRuns'
    BY DEF GrantsAgree, ChosenRuns, Ran
  <2>3. OneReached'
    BY DEF OneReached, Reached
  <2> QED
    BY <2>1, <2>2, <2>3
<1>9. CASE Publish(r)
  <2> USE DEF Invariants, TypeOK, locals, serverVars
  <2>1. PICK to \in Audience(r) : rpcChannel' = rpcChannel \cup (to \X {r})
    BY <1>9 DEF Publish
  <2>2. PICK k \in {"none", "internal"}, st \in {"select", "wait", "cleanup"} :
           /\ k = "none" <=> st # "cleanup"
           /\ st = "select" => Method[r].claim
           /\ pc' = [pc EXCEPT ![r] = st]
           /\ k # "none" => result' = [result EXCEPT ![r] = Ended(k)]
           /\ k = "none" => result' = result
    BY <1>9 DEF Publish, Return
  <2>3. pc[r] = "calling" /\ UNCHANGED <<claimResponseChannel, chosen, spc, grantChan>>
    BY <1>9 DEF Publish
  <2>4. Progress' /\ ChosenOnce'
    BY <2>2, <2>3 DEF Progress, ChosenOnce, Ended, Refusals
  <2>5. GrantsAgree' /\ ChosenRuns'
    BY <2>3 DEF GrantsAgree, ChosenRuns, Ran
  <2>6. OneReached'
    <3> SUFFICES ASSUME NEW q \in Requests, NEW s \in Servers, Reached(s, q)'
                 PROVE  /\ pc'[q] \notin {"idle", "calling"} /\ result'[q].kind # "closed"
                        /\ Method[q].queue => \A t \in Servers : Reached(t, q)' => s = t
      BY DEF OneReached
    <3>1. CASE q # r
      BY <2>1, <2>2, <2>3, <3>1 DEF OneReached, Reached
    <3>2. CASE q = r
      <4>1. \A t \in Servers : ~Reached(t, r)
        BY <2>3 DEF OneReached
      <4>2. result[r].kind # "closed"
        BY <2>3 DEF Progress
      <4>3. pc'[r] \notin {"idle", "calling"} /\ result'[r].kind # "closed"
        BY <2>2, <4>2 DEF Ended
      <4>4. \A t \in Servers : Reached(t, r)' => t \in to
        BY <2>1, <2>3, <4>1 DEF Reached
      <4>5. Method[r].queue => \A t, u \in to : t = u
        BY DEF Audience
      <4> QED
        BY <3>2, <4>3, <4>4, <4>5
    <3> QED
      BY <3>1, <3>2
  <2> QED
    BY <2>4, <2>5, <2>6
<1>10. CASE PublishChoice(r)
  BY <1>10, AnnounceStep
<1>3. CASE SelectClaim(r)
  <2>1. Head(claimChan[r]).server \in Servers
    <3>1. Head(claimChan[r]) \in ClaimRequest
      BY <1>3 DEF SelectClaim, TypeOK
    <3> QED
      BY <3>1 DEF ClaimRequest
  <2>2. CASE Choose(r, Head(claimChan[r]).server)
    <3>1. /\ pc[r] = "select"
          /\ UNCHANGED <<rpcChannel, claimResponseChannel, result, spc, grantChan>>
      BY <1>3 DEF SelectClaim, bus, serverVars
    <3>2. PICK s \in Servers : Choose(r, s)
      BY <2>1, <2>2
    <3> QED
      BY <3>1, <3>2, ChooseStep
  <2>3. CASE UNCHANGED <<pc, chosen>>
    BY <1>3, <2>3, Unread DEF SelectClaim, bus, serverVars, read
  <2> QED
    BY <1>3, <2>2, <2>3 DEF SelectClaim
<1>4. CASE SelectResponse(r)
  BY <1>4, Unread DEF SelectResponse, bus, serverVars, read
<1>5. CASE SelectEnds(r)
  <2>1. pc[r] = "select" /\ UNCHANGED <<rpcChannel, claimResponseChannel, spc, grantChan>>
    BY <1>5 DEF SelectEnds, bus, serverVars
  <2>2. ASSUME NEW s \in Servers, Choose(r, s), UNCHANGED result
        PROVE  Invariants'
    BY <2>1, <2>2, ChooseStep
  <2>3. ASSUME NEW k \in {"custom", "unselected", "malformed"}, Return(r, Ended(k)),
               UNCHANGED chosen
        PROVE  Invariants'
    <3>1. /\ Ended(k) \in Result /\ Ended(k).kind = k
      BY EndedType DEF Ended
    <3> QED
      BY <2>1, <2>3, <3>1, ReturnStep
  <2>4. /\ sel[r].server \in Servers \cup {NoServer} /\ sel[r].claims \subseteq Servers
        /\ sel[r].failure \in {"unselected", "malformed"}
    BY DEF TypeOK, Candidates
  <2> QED
    BY <1>5, <2>2, <2>3, <2>4 DEF SelectEnds
<1>6. CASE AwaitResponse(r)
  <2> DEFINE res == [kind |-> Head(resChan[r]).kind, server |-> Head(resChan[r]).server]
  <2>1. Head(resChan[r]) \in Response
    BY <1>6 DEF AwaitResponse, TypeOK
  <2>2. res \in Result /\ res.kind \in {"reply", "error"}
    BY <2>1 DEF Response, Result
  <2>3. Return(r, res)
    BY <1>6 DEF AwaitResponse
  <2> QED
    BY <1>6, <2>2, <2>3, ReturnStep DEF AwaitResponse, bus, locals, serverVars, Refusals
<1>7. CASE AwaitEnds(r)
  <2>1. Ended("timeout") \in Result /\ Ended("timeout").kind = "timeout"
    BY EndedType DEF Ended
  <2> QED
    BY <1>7, <2>1, ReturnStep DEF AwaitEnds, bus, locals, serverVars, Refusals
<1>8. CASE Unregister(r)
  <2> USE <1>8 DEF Invariants, TypeOK, Unregister, bus, locals, serverVars
  <2>1. Progress' /\ ChosenOnce'
    BY DEF Progress, ChosenOnce, Refusals
  <2>2. GrantsAgree' /\ ChosenRuns'
    BY DEF GrantsAgree, ChosenRuns, Ran
  <2>3. OneReached'
    BY DEF OneReached, Reached
  <2> QED
    BY <2>1, <2>2, <2>3
<1> QED
  BY <1>1, <1>2, <1>3, <1>4, <1>5, <1>6, <1>7, <1>8, <1>9, <1>10 DEF ClientNext

\* The dispatcher and Close keep the invariants: they change nothing these read.
LEMMA DispatcherStep ==
    ASSUME Invariants, Dispatching
    PROVE  Invariants'
<1>1. UNCHANGED read
  BY DispatcherFrame DEF read, locals, serverVars
<1> QED
  BY <1>1, Unread

\* A step of s on r that leaves the bus's claim responses and the client alone.  It may
\* not make a claimed call run on a server that was not chosen.
LEMMA ProgressStep ==
    ASSUME TypeOK, Invariants, NEW s \in Servers, NEW r \in Requests,
           NEW st \in ServerState, spc' = [spc EXCEPT ![s][r] = st],
           Reached(s, r),
           Method[r].claim /\ st \in {"handling", "answered"} => s = chosen[r],
           grantChan' = grantChan \/ grantChan' = [grantChan EXCEPT ![s][r] = << >>],
           rpcChannel' \subseteq rpcChannel,
           UNCHANGED <<claimResponseChannel, pc, result, chosen>>
    PROVE  Invariants'
<1> USE DEF Invariants, TypeOK
<1>1. Progress' /\ ChosenOnce'
  BY DEF Progress, ChosenOnce
<1>2. GrantsAgree'
  <2>1. ASSUME NEW t \in Servers, NEW q \in Requests, grantChan'[t][q] # << >>
        PROVE  grantChan'[t][q] = grantChan[t][q]
    <3>1. CASE grantChan' = [grantChan EXCEPT ![s][r] = << >>]
      <4>1. t # s \/ q # r
        BY <2>1, <3>1
      <4> QED
        BY <3>1, <4>1
    <3> QED
      BY <3>1
  <2>2. GrantsAgree /\ claimResponseChannel' = claimResponseChannel /\ chosen' = chosen
    OBVIOUS
  <2> HIDE DEF Invariants, TypeOK
  <2>3. \A g \in claimResponseChannel' : g.server = chosen'[g.req]
    BY <2>2 DEF GrantsAgree
  <2>4. ASSUME NEW t \in Servers, NEW q \in Requests, grantChan'[t][q] # << >>
        PROVE  Head(grantChan'[t][q]) = chosen'[q]
    <3>1. grantChan'[t][q] = grantChan[t][q] /\ grantChan[t][q] # << >>
      BY <2>1, <2>4, Zenon
    <3>2. Head(grantChan[t][q]) = chosen[q]
      BY <2>2, <3>1, Zenon DEF GrantsAgree
    <3> QED
      BY <2>2, <3>1, <3>2, Zenon
  <2> QED
    BY <2>3, <2>4, Zenon DEF GrantsAgree
<1>3. ChosenRuns'
  BY DEF ChosenRuns, Ran
<1>4. \A t \in Servers, q \in Requests : Reached(t, q)' => Reached(t, q)
  BY DEF Reached
<1>5. OneReached'
  BY <1>4 DEF OneReached
<1> QED
  BY <1>1, <1>2, <1>3, <1>5

\* Each step of a server keeps the invariants.
LEMMA ServerStep ==
    ASSUME TypeOK, Invariants,
           \/ \E s \in Servers, r \in Requests : ServerNext(s, r)
           \/ \E g \in claimResponseChannel : ReceiveGrant(g)
    PROVE  Invariants'
<1> USE DEF bus, locals
<1>1. ASSUME NEW s \in Servers, NEW r \in Requests, ReceiveRequest(s, r)
      PROVE  Invariants'
  <2>1. PICK st \in {"running", "expired"} : spc' = [spc EXCEPT ![s][r] = st]
    BY <1>1 DEF ReceiveRequest
  <2>2. Reached(s, r)
    BY <1>1 DEF ReceiveRequest, Reached
  <2> QED
    BY <1>1, <2>1, <2>2, ProgressStep DEF ReceiveRequest
<1>2. ASSUME NEW s \in Servers, NEW r \in Requests, Reject(s, r)
      PROVE  Invariants'
  BY <1>2, ProgressStep DEF Reject, Reached
<1>3. ASSUME NEW s \in Servers, NEW r \in Requests, Claim(s, r)
      PROVE  Invariants'
  <2>1. PICK st \in {"refused", "awaiting", "released"} : spc' = [spc EXCEPT ![s][r] = st]
    BY <1>3 DEF Claim
  <2> QED
    BY <1>3, <2>1, ProgressStep DEF Claim, Reached
<1>4. ASSUME NEW s \in Servers, NEW r \in Requests, TakeGrant(s, r)
      PROVE  Invariants'
  <2>1. Head(grantChan[s][r]) = chosen[r]
    BY <1>4 DEF TakeGrant, Invariants, GrantsAgree
  <2>2. PICK st \in {"handling", "released"} :
           spc' = [spc EXCEPT ![s][r] = st] /\ (st = "handling" => s = chosen[r])
    BY <1>4, <2>1 DEF TakeGrant
  <2>3. Reached(s, r)
    BY <1>4 DEF TakeGrant, Reached
  <2> QED
    BY <1>4, <2>2, <2>3, ProgressStep DEF TakeGrant
<1>5. ASSUME NEW s \in Servers, NEW r \in Requests, ClaimExpires(s, r)
      PROVE  Invariants'
  BY <1>5, ProgressStep DEF ClaimExpires, Reached
<1>6. ASSUME NEW s \in Servers, NEW r \in Requests, Handle(s, r)
      PROVE  Invariants'
  BY <1>6, ProgressStep DEF Handle, Reached
<1>7. ASSUME NEW s \in Servers, NEW r \in Requests, Respond(s, r)
      PROVE  Invariants'
  <2>1. Reached(s, r) /\ Ran(s, r)
    BY <1>7 DEF Respond, Reached, Ran
  <2>2. Method[r].claim => s = chosen[r]
    BY <2>1 DEF Invariants, ChosenRuns
  <2> QED
    BY <1>7, <2>1, <2>2, ProgressStep DEF Respond
<1>8. ASSUME NEW g \in claimResponseChannel, ReceiveGrant(g)
      PROVE  Invariants'
  <2> USE DEF Invariants, TypeOK
  <2>1. g.to \in Servers /\ g.req \in Requests /\ g.server = chosen[g.req]
    BY DEF ClaimResponse, GrantsAgree
  <2>2. UNCHANGED <<rpcChannel, pc, result, chosen, spc>>
    BY <1>8 DEF ReceiveGrant
  <2>3. Progress' /\ ChosenOnce' /\ ChosenRuns' /\ OneReached'
    BY <2>2 DEF Progress, ChosenOnce, ChosenRuns, OneReached, Reached, Ran
  <2>4. GrantsAgree'
    <3>1. CASE UNCHANGED grantChan
      BY <1>8, <2>2, <3>1 DEF ReceiveGrant, GrantsAgree
    <3>2. CASE /\ grantChan[g.to][g.req] = << >>
               /\ grantChan' = [grantChan EXCEPT ![g.to][g.req] = Append(@, g.server)]
      <4>1. Append(grantChan[g.to][g.req], g.server) = <<g.server>>
        BY <3>2
      <4>2. grantChan' = [grantChan EXCEPT ![g.to][g.req] = <<g.server>>]
        BY <3>2, <4>1
      <4>3. Head(<<g.server>>) = g.server
        OBVIOUS
      <4>4. ASSUME NEW t \in Servers, NEW q \in Requests, grantChan'[t][q] # << >>
            PROVE  Head(grantChan'[t][q]) = chosen'[q]
        <5>1. CASE t = g.to /\ q = g.req
          BY <2>1, <2>2, <4>2, <4>3, <5>1
        <5>2. CASE ~(t = g.to /\ q = g.req)
          <6>1. grantChan'[t][q] = grantChan[t][q]
            BY <2>1, <4>2, <5>2
          <6> QED
            BY <2>2, <4>4, <6>1 DEF GrantsAgree
        <5> QED
          BY <5>1, <5>2
      <4> QED
        BY <1>8, <2>2, <4>4 DEF ReceiveGrant, GrantsAgree
    <3> QED
      BY <1>8, <3>1, <3>2 DEF ReceiveGrant
  <2> QED
    BY <2>3, <2>4
<1> QED
  BY <1>1, <1>2, <1>3, <1>4, <1>5, <1>6, <1>7, <1>8 DEF ServerNext

\* The invariants hold at the start.
LEMMA InvariantsInit ==
    ASSUME Init
    PROVE  Invariants
  BY DEF Init, Invariants, Progress, ChosenOnce, GrantsAgree, ChosenRuns, OneReached,
         Reached, Ran, Ended, Refusals

\* The inductive invariant holds throughout.
THEOREM Inductive == Spec => [](TypeOK /\ Invariants)
<1>1. Init => Invariants
  BY InvariantsInit
<1>2. TypeOK /\ Invariants /\ [Next]_vars => Invariants'
  <2> SUFFICES ASSUME TypeOK, Invariants, [Next]_vars PROVE Invariants'
    OBVIOUS
  <2>1. CASE UNCHANGED vars
    BY <2>1, Unread DEF vars, bus, locals, serverVars, read
  <2>2. CASE Next
    BY <2>2, ClientStep, DispatcherStep, ServerStep DEF Next, Dispatching
  <2> QED
    BY <2>1, <2>2
<1> QED
  BY <1>1, <1>2, TypeCorrect, PTL DEF Spec

\* Whatever is lost, delayed or late, one server at most runs an exclusive call.
THEOREM ExecutedOnce == Spec => []OneExecutor
<1>1. TypeOK /\ Invariants => OneExecutor
  <2> SUFFICES ASSUME ChosenRuns, OneReached, NEW r \in Requests,
                      Method[r].claim \/ Method[r].queue,
                      NEW s \in Servers, NEW t \in Servers, Ran(s, r), Ran(t, r)
               PROVE  s = t
    BY DEF Invariants, OneExecutor, Exclusive
  <2>1. Reached(s, r) /\ Reached(t, r)
    BY DEF Ran, Reached
  <2> QED
    BY <2>1 DEF ChosenRuns, OneReached
<1> QED
  BY <1>1, Inductive, PTL

\* A call refused before a server was chosen has not run and never will.
THEOREM RefusedNeverRuns == Spec => []UnselectedNeverRuns
<1>1. TypeOK /\ Invariants => UnselectedNeverRuns
  <2> SUFFICES ASSUME ChosenRuns, ChosenOnce, NEW r \in Requests, NEW s \in Servers,
                      result[r].kind \in {"unselected", "malformed", "custom"}, Ran(s, r)
               PROVE  FALSE
    BY DEF Invariants, UnselectedNeverRuns
  <2>1. Method[r].claim /\ chosen[r] = NoServer
    BY DEF ChosenOnce, Refusals
  <2> QED
    BY <2>1, UnaryRpcAssumption DEF ChosenRuns
<1> QED
  BY <1>1, Inductive, PTL

----------------------------------------------------------------------------
\* Where a request, a claim or a response is.

\* Where a server is once it has sent a claim, and once it has sent a response.
Claimed == {"awaiting", "released", "handling", "answered"}
Responded == {"rejected", "answered"}

\* A server has not seen a request that is still on its way to it.
DeliveredOnce ==
    \A s \in Servers, r \in Requests : <<s, r>> \in rpcChannel => spc[s][r] = "none"

\* No step undelivers a request, nor takes a claim or a response back.
StagesStay ==
    \A s \in Servers, r \in Requests :
        /\ spc[s][r] \in Responded => spc'[s][r] = spc[s][r]
        /\ spc[s][r] \in Claimed => spc'[s][r] \in Claimed

\* Each step keeps DeliveredOnce, and no server takes a request back to an earlier stage.
LEMMA DeliveredOnceStep ==
    ASSUME TypeOK, Invariants, DeliveredOnce, [Next]_vars
    PROVE  DeliveredOnce' /\ StagesStay
<1> USE DEF DeliveredOnce, StagesStay, Claimed, Responded, TypeOK, bus, locals, serverVars
<1>1. ASSUME UNCHANGED <<rpcChannel, spc>>
      PROVE  DeliveredOnce' /\ StagesStay
  BY <1>1
<1>2. ASSUME NEW r \in Requests, Publish(r)
      PROVE  DeliveredOnce' /\ StagesStay
  <2>1. PICK to \in Audience(r) : rpcChannel' = rpcChannel \cup (to \X {r})
    BY <1>2 DEF Publish
  <2>2. pc[r] = "calling" /\ UNCHANGED spc
    BY <1>2 DEF Publish
  <2>3. \A s \in Servers : spc[s][r] = "none"
    BY <2>2 DEF Invariants, OneReached, Reached
  <2> QED
    BY <2>1, <2>2, <2>3
<1>3. ASSUME NEW r \in Requests, ClientNext(r), ~Publish(r)
      PROVE  UNCHANGED <<rpcChannel, spc>>
  BY <1>3 DEF ClientNext, CallClosed, Call, SelectClaim, SelectResponse, SelectEnds,
              PublishChoice, AwaitResponse, AwaitEnds, Unregister
<1>4. ASSUME Dispatching
      PROVE  UNCHANGED <<rpcChannel, spc>>
  BY <1>4, DispatcherFrame
<1>5. ASSUME NEW g \in claimResponseChannel, ReceiveGrant(g)
      PROVE  UNCHANGED <<rpcChannel, spc>>
  BY <1>5 DEF ReceiveGrant
<1>6. ASSUME NEW s \in Servers, NEW r \in Requests, ServerNext(s, r)
      PROVE  DeliveredOnce' /\ StagesStay
  <2>1. CASE ReceiveRequest(s, r)
    <3>1. PICK st \in {"running", "expired"} : spc' = [spc EXCEPT ![s][r] = st]
      BY <2>1 DEF ReceiveRequest
    <3> QED
      BY <2>1, <3>1 DEF ReceiveRequest
  <2>2. CASE ~ReceiveRequest(s, r)
    <3>1. /\ spc[s][r] \in {"running", "awaiting", "handling"}
          /\ UNCHANGED rpcChannel
      BY <1>6, <2>2 DEF ServerNext, Reject, Claim, TakeGrant, ClaimExpires, Handle, Respond
    <3>2. PICK st \in ServerState :
             spc' = [spc EXCEPT ![s][r] = st] /\ (spc[s][r] \in Claimed => st \in Claimed)
      <4>1. CASE Claim(s, r)
        BY <4>1 DEF Claim
      <4>2. CASE TakeGrant(s, r)
        BY <4>2 DEF TakeGrant
      <4>3. CASE ~(Claim(s, r) \/ TakeGrant(s, r))
        BY <1>6, <2>2, <4>3 DEF ServerNext, Reject, ClaimExpires, Handle, Respond
      <4> QED
        BY <4>1, <4>2, <4>3
    <3> QED
      BY <3>1, <3>2
  <2> QED
    BY <2>1, <2>2
<1>7. ASSUME UNCHANGED vars
      PROVE  UNCHANGED <<rpcChannel, spc>>
  BY <1>7 DEF vars
<1> QED
  BY <1>1, <1>2, <1>3, <1>4, <1>5, <1>6, <1>7 DEF Next, Dispatching


\* Two messages of one flow, the claims or the responses, from one server to one call.
Same(m, n) == m.req = n.req /\ m.server = n.server

\* A flow is where its messages are: on the channel (B), in the dispatcher's hand (H)
\* or buffered for the calls (C).
Contents(B, H, C) ==
    B \cup H \cup UNION {{C[r][i] : i \in 1..Len(C[r])} : r \in Requests}

\* What one server sent to one call is in one place only.
Apart(B, H, C) ==
    /\ B \cap H = {}
    /\ \A m, n \in B \cup H : Same(m, n) => m = n
    /\ \A r \in Requests : \A i \in 1..Len(C[r]) :
          /\ C[r][i].req = r
          /\ \A m \in B \cup H : ~Same(m, C[r][i])
          /\ \A j \in 1..Len(C[r]) : Same(C[r][i], C[r][j]) => i = j

\* What is in a flow, place by place.
LEMMA InContents ==
    ASSUME NEW B, NEW H, NEW C, NEW m
    PROVE  m \in Contents(B, H, C) <=>
              \/ m \in B \cup H
              \/ \E r \in Requests : \E i \in 1..Len(C[r]) : m = C[r][i]
  BY DEF Contents

\* The dispatcher takes a message, and keeps it or drops it.
LEMMA TakeApart ==
    ASSUME NEW B, NEW C, NEW m \in B, NEW H \in SUBSET {m}, Apart(B, {}, C)
    PROVE  /\ Apart(B \ {m}, H, C)
           /\ Contents(B \ {m}, H, C) \subseteq Contents(B, {}, C)
<1>1. Apart(B \ {m}, H, C)
  BY DEF Apart
<1>2. Contents(B \ {m}, H, C) \subseteq Contents(B, {}, C)
  BY InContents
<1> QED
  BY <1>1, <1>2

\* It hands the message over.
LEMMA PutApart ==
    ASSUME NEW T, NEW B, NEW C \in [Requests -> Seq(T)], NEW m \in T, m.req \in Requests,
           Apart(B, {m}, C)
    PROVE  LET D == [C EXCEPT ![m.req] = Append(@, m)] IN
           /\ Apart(B, {}, D)
           /\ Contents(B, {}, D) \subseteq Contents(B, {m}, C)
<1> DEFINE D == [C EXCEPT ![m.req] = Append(@, m)]
           New(r, i) == r = m.req /\ i = Len(C[r]) + 1 /\ D[r][i] = m
           Old(r, i) == i \in 1..Len(C[r]) /\ D[r][i] = C[r][i]
<1>1. C[m.req] \in Seq(T)
  OBVIOUS
<1>2. /\ Len(Append(C[m.req], m)) = Len(C[m.req]) + 1
      /\ \A i \in 1..Len(C[m.req]) + 1 :
            Append(C[m.req], m)[i] = IF i <= Len(C[m.req]) THEN C[m.req][i] ELSE m
      /\ Len(C[m.req]) \in Nat
  BY <1>1
<1>3. D[m.req] = Append(C[m.req], m) /\ \A r \in Requests \ {m.req} : D[r] = C[r]
  OBVIOUS
<1>4. \A r \in Requests : \A i \in 1..Len(D[r]) : New(r, i) \/ Old(r, i)
  BY <1>2, <1>3
<1>5. \A r \in Requests : \A i, j \in 1..Len(D[r]) : New(r, i) /\ New(r, j) => i = j
  OBVIOUS
<1> HIDE DEF D, New, Old
<1>6. \A r \in Requests : \A i : New(r, i) => r = m.req /\ D[r][i] = m
  BY DEF New
<1>7. \A r \in Requests : \A i : Old(r, i) => i \in 1..Len(C[r]) /\ D[r][i] = C[r][i]
  BY DEF Old
<1>8. ASSUME NEW r \in Requests, NEW i \in 1..Len(D[r])
      PROVE  /\ D[r][i].req = r
             /\ \A n \in B : ~Same(n, D[r][i])
             /\ \A j \in 1..Len(D[r]) : Same(D[r][i], D[r][j]) => i = j
  <2>1. CASE New(r, i)
    <3>1. \A n \in B : ~Same(n, m)
      BY DEF Apart
    <3>2. \A j \in 1..Len(D[r]) : Old(r, j) => ~Same(m, D[r][j])
      BY <1>7 DEF Apart
    <3> QED
      BY <1>4, <1>5, <1>6, <2>1, <3>1, <3>2
  <2>2. CASE Old(r, i)
    <3>1. \A j \in 1..Len(D[r]) : New(r, j) => ~Same(D[r][i], m)
      BY <1>7, <2>2 DEF Apart, Same
    <3>2. \A j \in 1..Len(D[r]) : Old(r, j) /\ Same(D[r][i], D[r][j]) => i = j
      BY <1>7, <2>2 DEF Apart
    <3>3. D[r][i].req = r /\ \A n \in B : ~Same(n, D[r][i])
      BY <1>7, <2>2 DEF Apart
    <3> QED
      BY <1>4, <1>6, <3>1, <3>2, <3>3
  <2> QED
    BY <1>4, <2>1, <2>2
<1>9. Apart(B, {}, D)
  BY <1>8 DEF Apart
<1>10. Contents(B, {}, D) \subseteq Contents(B, {m}, C)
  <2> SUFFICES ASSUME NEW n \in Contents(B, {}, D) PROVE n \in Contents(B, {m}, C)
    OBVIOUS
  <2>1. CASE n \in B \cup {}
    BY <2>1, InContents
  <2>2. ASSUME NEW r \in Requests, NEW i \in 1..Len(D[r]), n = D[r][i]
        PROVE  n \in Contents(B, {m}, C)
    BY <1>4, <1>6, <1>7, <2>2, InContents
  <2>3. n \in B \cup {} \/ \E r \in Requests : \E i \in 1..Len(D[r]) : n = D[r][i]
    BY DEF Contents
  <2> QED
    BY <2>1, <2>2, <2>3
<1> QED
  BY <1>9, <1>10 DEF D

\* The call reads its next message.
LEMMA ReadApart ==
    ASSUME NEW T, NEW B, NEW H, NEW C \in [Requests -> Seq(T)], NEW r \in Requests,
           C[r] # << >>, Apart(B, H, C)
    PROVE  LET D == [C EXCEPT ![r] = Tail(@)] IN
           /\ Apart(B, H, D)
           /\ Contents(B, H, D) \subseteq Contents(B, H, C)
<1> DEFINE D == [C EXCEPT ![r] = Tail(@)]
           k == [q \in Requests |-> IF q = r THEN 1 ELSE 0]
<1>1. /\ Len(Tail(C[r])) = Len(C[r]) - 1 /\ Len(C[r]) \in Nat
      /\ \A i \in 1..Len(Tail(C[r])) : Tail(C[r])[i] = C[r][i + 1]
  OBVIOUS
<1>2. \A q \in Requests : \A i \in 1..Len(D[q]) :
         /\ D[q][i] = C[q][i + k[q]] /\ i + k[q] \in 1..Len(C[q])
         /\ \A j \in 1..Len(D[q]) : i + k[q] = j + k[q] => i = j
  BY <1>1
<1> HIDE DEF D, k
<1>3. Apart(B, H, D)
  <2>1. ASSUME NEW q \in Requests, NEW i \in 1..Len(D[q])
        PROVE  /\ D[q][i].req = q
               /\ \A m \in B \cup H : ~Same(m, D[q][i])
               /\ \A j \in 1..Len(D[q]) : Same(D[q][i], D[q][j]) => i = j
    <3>1. D[q][i] = C[q][i + k[q]] /\ i + k[q] \in 1..Len(C[q])
      BY <1>2
    <3>2. C[q][i + k[q]].req = q /\ \A m \in B \cup H : ~Same(m, C[q][i + k[q]])
      BY <3>1 DEF Apart
    <3>3. ASSUME NEW j \in 1..Len(D[q]), Same(D[q][i], D[q][j])
          PROVE  i = j
      <4>1. D[q][j] = C[q][j + k[q]] /\ j + k[q] \in 1..Len(C[q])
        BY <1>2
      <4>2. i + k[q] = j + k[q]
        BY <3>1, <3>3, <4>1 DEF Apart
      <4> QED
        BY <1>2, <4>2
    <3> QED
      BY <3>1, <3>2, <3>3
  <2> QED
    BY <2>1 DEF Apart
<1>4. Contents(B, H, D) \subseteq Contents(B, H, C)
  <2> SUFFICES ASSUME NEW n \in Contents(B, H, D) PROVE n \in Contents(B, H, C)
    OBVIOUS
  <2>1. ASSUME NEW q \in Requests, NEW i \in 1..Len(D[q]), n = D[q][i]
        PROVE  n \in Contents(B, H, C)
    <3>1. D[q][i] = C[q][i + k[q]] /\ i + k[q] \in 1..Len(C[q])
      BY <1>2
    <3> QED
      BY <2>1, <3>1, InContents
  <2>2. n \in B \cup H \/ \E q \in Requests : \E i \in 1..Len(D[q]) : n = D[q][i]
    BY DEF Contents
  <2> QED
    BY <2>1, <2>2, InContents
<1> QED
  BY <1>3, <1>4 DEF D

\* A server sends a message it had not sent before.
LEMMA SendApart ==
    ASSUME NEW B, NEW H, NEW C, NEW m, Apart(B, H, C),
           \A n \in Contents(B, H, C) : ~Same(m, n)
    PROVE  /\ Apart(B \cup {m}, H, C)
           /\ Contents(B \cup {m}, H, C) \subseteq Contents(B, H, C) \cup {m}
<1>1. \A n \in B \cup H : ~Same(m, n) /\ ~Same(n, m)
  BY InContents DEF Same
<1>2. \A r \in Requests : \A i \in 1..Len(C[r]) : ~Same(m, C[r][i])
  BY InContents
<1>3. m \notin H
  BY <1>1 DEF Same
<1>4. Apart(B \cup {m}, H, C)
  BY <1>1, <1>2, <1>3 DEF Apart
<1>5. Contents(B \cup {m}, H, C) \subseteq Contents(B, H, C) \cup {m}
  BY InContents
<1> QED
  BY <1>4, <1>5

\* The message of type T that the dispatcher is handing over, if it is one.
Held(T) == {disp} \cap T

\* What a response says of the server it names.
TrueResponse(m) ==
    /\ spc[m.server][m.req] \in Responded
    /\ m.kind = "reply" => spc[m.server][m.req] = "answered"

\* A claim, or a response, was sent by the server it names, and once.
ClaimsTrue ==
    /\ Apart(claimRequestChannel, Held(ClaimRequest), claimChan)
    /\ \A m \in Contents(claimRequestChannel, Held(ClaimRequest), claimChan) :
          spc[m.server][m.req] \in Claimed

ResponsesTrue ==
    /\ Apart(responseChannel, Held(Response), resChan)
    /\ \A m \in Contents(responseChannel, Held(Response), resChan) : TrueResponse(m)

\* Only claims are in the flow of the claims, and only responses in that of the responses.
LEMMA ClaimsTypes ==
    ASSUME TypeOK, NEW m \in Contents(claimRequestChannel, Held(ClaimRequest), claimChan)
    PROVE  m \in ClaimRequest
  BY DEF Contents, Held, TypeOK

\* A response is of its type, wherever it is.
LEMMA ResponsesTypes ==
    ASSUME TypeOK, NEW m \in Contents(responseChannel, Held(Response), resChan)
    PROVE  m \in Response
  BY DEF Contents, Held, TypeOK

\* A step that adds no claim to those there are, and keeps them apart.
LEMMA ClaimsKept ==
    ASSUME TypeOK, StagesStay, ClaimsTrue, NEW B, NEW H, NEW C,
           B = claimRequestChannel', H = Held(ClaimRequest)', C = claimChan',
           Apart(B, H, C),
           Contents(B, H, C) \subseteq
              Contents(claimRequestChannel, Held(ClaimRequest), claimChan)
    PROVE  ClaimsTrue'
<1>1. \A m \in Contents(B, H, C) : spc'[m.server][m.req] \in Claimed
  <2> SUFFICES ASSUME NEW m \in Contents(B, H, C) PROVE spc'[m.server][m.req] \in Claimed
    OBVIOUS
  <2>1. m \in Contents(claimRequestChannel, Held(ClaimRequest), claimChan)
    OBVIOUS
  <2>2. m.server \in Servers /\ m.req \in Requests /\ spc[m.server][m.req] \in Claimed
    BY <2>1, ClaimsTypes DEF ClaimRequest, ClaimsTrue
  <2> QED
    BY <2>2 DEF StagesStay
<1> QED
  BY <1>1 DEF ClaimsTrue, Apart, Contents, Held

\* The same of the responses.
LEMMA ResponsesKept ==
    ASSUME TypeOK, StagesStay, ResponsesTrue, NEW B, NEW H, NEW C,
           B = responseChannel', H = Held(Response)', C = resChan', Apart(B, H, C),
           Contents(B, H, C) \subseteq Contents(responseChannel, Held(Response), resChan)
    PROVE  ResponsesTrue'
<1>1. \A m \in Contents(B, H, C) : TrueResponse(m)'
  <2> SUFFICES ASSUME NEW m \in Contents(B, H, C) PROVE TrueResponse(m)'
    OBVIOUS
  <2>1. m \in Contents(responseChannel, Held(Response), resChan)
    OBVIOUS
  <2>2. m.server \in Servers /\ m.req \in Requests /\ TrueResponse(m)
    BY <2>1, ResponsesTypes DEF Response, ResponsesTrue
  <2> QED
    BY <2>2 DEF StagesStay, TrueResponse
<1> QED
  BY <1>1 DEF ResponsesTrue, Apart, Contents, Held, TrueResponse

\* Claims are sent by Claim, and moved by the dispatcher and by SelectClaim.
LEMMA ClaimsTrueStep ==
    ASSUME TypeOK, TypeOK', ClaimsTrue, StagesStay, [Next]_vars
    PROVE  ClaimsTrue'
<1> DEFINE B == claimRequestChannel
           H == Held(ClaimRequest)
           C == claimChan
<1>0. /\ Apart(B, H, C) /\ C \in [Requests -> Seq(ClaimRequest)]
      /\ \A m \in B : m \in ClaimRequest
  BY DEF ClaimsTrue, TypeOK
<1>1. ASSUME UNCHANGED <<claimRequestChannel, claimChan>>, H' = H
      PROVE  ClaimsTrue'
  BY <1>0, <1>1, ClaimsKept
<1>2. ASSUME UNCHANGED <<claimRequestChannel, claimChan, disp>>
      PROVE  ClaimsTrue'
  BY <1>1, <1>2 DEF Held
<1> USE DEF bus, locals, serverVars
<1>3. ASSUME NEW r \in Requests, ClientNext(r)
      PROVE  ClaimsTrue'
  <2>1. CASE SelectClaim(r)
    <3>1. /\ C[r] # << >> /\ C' = [C EXCEPT ![r] = Tail(@)] /\ B' = B /\ H' = H
      BY <2>1 DEF SelectClaim, Held
    <3>2. Apart(B', H', C') /\ Contents(B', H', C') \subseteq Contents(B, H, C)
      <4> DEFINE D == [C EXCEPT ![r] = Tail(@)]
      <4>1. Apart(B, H, D) /\ Contents(B, H, D) \subseteq Contents(B, H, C)
        BY <1>0, <3>1, ReadApart
      <4> QED
        BY <3>1, <4>1
    <3> QED
      BY <3>2, ClaimsKept
  <2>2. CASE ~SelectClaim(r)
    <3>1. UNCHANGED <<claimRequestChannel, claimChan, disp>>
      BY <1>3, <2>2 DEF ClientNext, CallClosed, Call, Publish, SelectResponse, SelectEnds,
                        PublishChoice, AwaitResponse, AwaitEnds, Unregister
    <3> QED
      BY <1>2, <3>1
  <2> QED
    BY <2>1, <2>2
<1>4. ASSUME DispatcherNext
      PROVE  ClaimsTrue'
  <2>1. ASSUME NEW m \in claimRequestChannel, DispatchClaim(m)
        PROVE  ClaimsTrue'
    <3>1. H = {} /\ H' \in SUBSET {m} /\ B' = B \ {m} /\ C' = C
      BY <2>1 DEF DispatchClaim, Lookup, Idle, ClaimRequest, Held
    <3>2. Apart(B', H', C') /\ Contents(B', H', C') \subseteq Contents(B, H, C)
      BY <1>0, <3>1, TakeApart
    <3> QED
      BY <3>2, ClaimsKept
  <2>2. ASSUME NEW m \in responseChannel, DispatchResponse(m)
        PROVE  ClaimsTrue'
    <3>1. H = {} /\ H' = {} /\ UNCHANGED <<claimRequestChannel, claimChan>>
      BY <2>2 DEF DispatchResponse, Lookup, Idle, ClaimRequest, Response, Held, TypeOK
    <3> QED
      BY <1>1, <3>1
  <2>3. CASE HandOver
    <3>1. CASE disp.type = "claim"
      <4>1. disp \in ClaimRequest /\ disp.req \in Requests
        BY <2>3, <3>1, HandedOver DEF HandOver
      <4>2. /\ H = {disp} /\ H' = {} /\ B' = B
            /\ C' = [C EXCEPT ![disp.req] = Append(@, disp)]
        BY <2>3, <3>1, <4>1 DEF HandOver, Idle, ClaimRequest, Held
      <4>3. Apart(B', H', C') /\ Contents(B', H', C') \subseteq Contents(B, H, C)
        <5> DEFINE D == [C EXCEPT ![disp.req] = Append(@, disp)]
        <5>1. Apart(B, {}, D) /\ Contents(B, {}, D) \subseteq Contents(B, {disp}, C)
          BY <1>0, <4>1, <4>2, PutApart
        <5> QED
          BY <4>2, <5>1
      <4> QED
        BY <4>3, ClaimsKept
    <3>2. CASE disp.type # "claim"
      <4>1. H = {} /\ H' = {} /\ UNCHANGED <<claimRequestChannel, claimChan>>
        BY <2>3, <3>2 DEF HandOver, Idle, ClaimRequest, Held
      <4> QED
        BY <1>1, <4>1
    <3> QED
      BY <3>1, <3>2
  <2>4. CASE Stop
    <3>1. H = {} /\ H' = {} /\ UNCHANGED <<claimRequestChannel, claimChan>>
      BY <2>4 DEF Stop, Cancel, Idle, Closing, ClaimRequest, Held
    <3> QED
      BY <1>1, <3>1
  <2>5. CASE CloseNext
    <3>1. H = {} /\ H' = {} /\ UNCHANGED <<claimRequestChannel, claimChan>>
      BY <2>5 DEF CloseNext, Cancel, Closing, Stopped, ClaimRequest, Held
    <3> QED
      BY <1>1, <3>1
  <2>6. CASE Read
    BY <1>2, <2>6 DEF Read
  <2> QED
    BY <1>4, <2>1, <2>2, <2>3, <2>4, <2>5, <2>6 DEF DispatcherNext
<1>5. ASSUME NEW s \in Servers, NEW r \in Requests, Claim(s, r)
      PROVE  ClaimsTrue'
  <2>1. CASE UNCHANGED claimRequestChannel
    BY <1>2, <1>5, <2>1 DEF Claim
  <2>2. CASE claimRequestChannel' # claimRequestChannel
    <3>1. PICK a \in Int :
             /\ claimRequestChannel' = claimRequestChannel \cup
                   {[type |-> "claim", req |-> r, server |-> s, affinity |-> a]}
             /\ \E st \in {"awaiting", "released"} : spc' = [spc EXCEPT ![s][r] = st]
      BY <1>5, <2>2, UnaryRpcAssumption DEF Claim
    <3> DEFINE m == [type |-> "claim", req |-> r, server |-> s, affinity |-> a]
    <3>2. m.req = r /\ m.server = s /\ B' = B \cup {m}
      BY <3>1
    <3>3. spc[s][r] \notin Claimed /\ spc'[s][r] \in Claimed /\ UNCHANGED <<claimChan, disp>>
      BY <1>5, <3>1 DEF Claim, Claimed, TypeOK
    <3>4. H' = H /\ C' = C
      BY <3>3 DEF Held
    <3> HIDE DEF m
    <3>5. \A n \in Contents(B, H, C) : ~Same(m, n)
      <4> SUFFICES ASSUME NEW n \in Contents(B, H, C), Same(m, n) PROVE FALSE
        OBVIOUS
      <4> QED
        BY <3>2, <3>3 DEF ClaimsTrue, Same
    <3>6. Apart(B', H', C') /\ Contents(B', H', C') \subseteq Contents(B, H, C) \cup {m}
      <4>1. /\ Apart(B \cup {m}, H, C)
            /\ Contents(B \cup {m}, H, C) \subseteq Contents(B, H, C) \cup {m}
        BY <1>0, <3>5, SendApart
      <4> QED
        BY <3>2, <3>4, <4>1
    <3>7. \A n \in Contents(B', H', C') : spc'[n.server][n.req] \in Claimed
      <4> SUFFICES ASSUME NEW n \in Contents(B, H, C) PROVE spc'[n.server][n.req] \in Claimed
        BY <3>2, <3>3, <3>6
      <4>1. n.server \in Servers /\ n.req \in Requests /\ spc[n.server][n.req] \in Claimed
        BY ClaimsTypes DEF ClaimRequest, ClaimsTrue
      <4> QED
        BY <4>1 DEF StagesStay
    <3> QED
      BY <3>6, <3>7 DEF ClaimsTrue, Apart, Contents, Held
  <2> QED
    BY <2>1, <2>2
<1>6. ASSUME NEW s \in Servers, NEW r \in Requests, ServerNext(s, r), ~Claim(s, r)
      PROVE  UNCHANGED <<claimRequestChannel, claimChan, disp>>
  BY <1>6 DEF ServerNext, ReceiveRequest, Reject, TakeGrant, ClaimExpires, Handle, Respond
<1>7. ASSUME \/ Close \/ (\E sub \in Locking : Overflow(sub)) \/ UNCHANGED vars
             \/ \E g \in claimResponseChannel : ReceiveGrant(g)
      PROVE  UNCHANGED <<claimRequestChannel, claimChan, disp>>
  BY <1>7 DEF Close, Overflow, ReceiveGrant, vars
<1> QED
  BY <1>2, <1>3, <1>4, <1>5, <1>6, <1>7 DEF Next

\* Responses are sent by Reject and Respond, and moved by the dispatcher and by
\* the calls that read them.
LEMMA ResponsesTrueStep ==
    ASSUME TypeOK, TypeOK', ResponsesTrue, StagesStay, [Next]_vars
    PROVE  ResponsesTrue'
<1> DEFINE B == responseChannel
           H == Held(Response)
           C == resChan
<1>0. /\ Apart(B, H, C) /\ C \in [Requests -> Seq(Response)]
      /\ \A m \in B : m \in Response
  BY DEF ResponsesTrue, TypeOK
<1>1. ASSUME UNCHANGED <<responseChannel, resChan>>, H' = H
      PROVE  ResponsesTrue'
  BY <1>0, <1>1, ResponsesKept
<1>2. ASSUME UNCHANGED <<responseChannel, resChan, disp>>
      PROVE  ResponsesTrue'
  BY <1>1, <1>2 DEF Held
<1> USE DEF bus, locals, serverVars
<1>3. ASSUME NEW r \in Requests, ClientNext(r)
      PROVE  ResponsesTrue'
  <2>1. CASE SelectResponse(r) \/ AwaitResponse(r)
    <3>1. /\ C[r] # << >> /\ C' = [C EXCEPT ![r] = Tail(@)] /\ B' = B /\ H' = H
      BY <2>1 DEF SelectResponse, AwaitResponse, Held
    <3>2. Apart(B', H', C') /\ Contents(B', H', C') \subseteq Contents(B, H, C)
      <4> DEFINE D == [C EXCEPT ![r] = Tail(@)]
      <4>1. Apart(B, H, D) /\ Contents(B, H, D) \subseteq Contents(B, H, C)
        BY <1>0, <3>1, ReadApart
      <4> QED
        BY <3>1, <4>1
    <3> QED
      BY <3>2, ResponsesKept
  <2>2. CASE ~(SelectResponse(r) \/ AwaitResponse(r))
    <3>1. UNCHANGED <<responseChannel, resChan, disp>>
      BY <1>3, <2>2 DEF ClientNext, CallClosed, Call, Publish, SelectClaim, SelectEnds,
                        PublishChoice, AwaitEnds, Unregister
    <3> QED
      BY <1>2, <3>1
  <2> QED
    BY <2>1, <2>2
<1>4. ASSUME DispatcherNext
      PROVE  ResponsesTrue'
  <2>1. ASSUME NEW m \in claimRequestChannel, DispatchClaim(m)
        PROVE  ResponsesTrue'
    <3>1. H = {} /\ H' = {} /\ UNCHANGED <<responseChannel, resChan>>
      BY <2>1 DEF DispatchClaim, Lookup, Idle, ClaimRequest, Response, Held, TypeOK
    <3> QED
      BY <1>1, <3>1
  <2>2. ASSUME NEW m \in responseChannel, DispatchResponse(m)
        PROVE  ResponsesTrue'
    <3>1. H = {} /\ H' \in SUBSET {m} /\ B' = B \ {m} /\ C' = C
      BY <2>2 DEF DispatchResponse, Lookup, Idle, Response, Held
    <3>2. Apart(B', H', C') /\ Contents(B', H', C') \subseteq Contents(B, H, C)
      BY <1>0, <3>1, TakeApart
    <3> QED
      BY <3>2, ResponsesKept
  <2>3. CASE HandOver
    <3>1. CASE disp.type # "claim"
      <4>1. disp \in Response /\ disp.req \in Requests
        BY <2>3, <3>1, HandedOver DEF HandOver
      <4>2. /\ H = {disp} /\ H' = {} /\ B' = B
            /\ C' = [C EXCEPT ![disp.req] = Append(@, disp)]
        BY <2>3, <3>1, <4>1 DEF HandOver, Idle, Response, Held
      <4>3. Apart(B', H', C') /\ Contents(B', H', C') \subseteq Contents(B, H, C)
        <5> DEFINE D == [C EXCEPT ![disp.req] = Append(@, disp)]
        <5>1. Apart(B, {}, D) /\ Contents(B, {}, D) \subseteq Contents(B, {disp}, C)
          BY <1>0, <4>1, <4>2, PutApart
        <5> QED
          BY <4>2, <5>1
      <4> QED
        BY <4>3, ResponsesKept
    <3>2. CASE disp.type = "claim"
      <4>1. H = {} /\ H' = {} /\ UNCHANGED <<responseChannel, resChan>>
        BY <2>3, <3>2 DEF HandOver, Idle, Response, Held
      <4> QED
        BY <1>1, <4>1
    <3> QED
      BY <3>1, <3>2
  <2>4. CASE Stop
    <3>1. H = {} /\ H' = {} /\ UNCHANGED <<responseChannel, resChan>>
      BY <2>4 DEF Stop, Cancel, Idle, Closing, Response, Held
    <3> QED
      BY <1>1, <3>1
  <2>5. CASE CloseNext
    <3>1. H = {} /\ H' = {} /\ UNCHANGED <<responseChannel, resChan>>
      BY <2>5 DEF CloseNext, Cancel, Closing, Stopped, Response, Held
    <3> QED
      BY <1>1, <3>1
  <2>6. CASE Read
    BY <1>2, <2>6 DEF Read
  <2> QED
    BY <1>4, <2>1, <2>2, <2>3, <2>4, <2>5, <2>6 DEF DispatcherNext
<1>5. ASSUME NEW s \in Servers, NEW r \in Requests, NEW k \in {"reply", "error"},
             SendResponse(s, r, k), spc[s][r] \notin Responded, spc'[s][r] \in Responded,
             k = "reply" => spc'[s][r] = "answered", UNCHANGED <<disp, resChan>>
      PROVE  ResponsesTrue'
  <2> DEFINE m == [type |-> "response", req |-> r, server |-> s, kind |-> k]
  <2>1. m.req = r /\ m.server = s /\ m.kind = k /\ B' = B \cup {m} /\ H' = H /\ C' = C
    BY <1>5 DEF SendResponse, Held
  <2> HIDE DEF m
  <2>2. \A n \in Contents(B, H, C) : ~Same(m, n)
    <3> SUFFICES ASSUME NEW n \in Contents(B, H, C), Same(m, n) PROVE FALSE
      OBVIOUS
    <3> QED
      BY <1>5, <2>1 DEF ResponsesTrue, TrueResponse, Same
  <2>3. /\ Apart(B \cup {m}, H, C)
        /\ Contents(B \cup {m}, H, C) \subseteq Contents(B, H, C) \cup {m}
    BY <1>0, <2>2, SendApart
  <2>4. Apart(B', H', C') /\ Contents(B', H', C') \subseteq Contents(B, H, C) \cup {m}
    BY <2>1, <2>3
  <2>5. \A n \in Contents(B', H', C') : TrueResponse(n)'
    <3>1. ASSUME NEW n \in Contents(B, H, C)
          PROVE  TrueResponse(n)'
      <4>1. n.server \in Servers /\ n.req \in Requests /\ TrueResponse(n)
        BY ResponsesTypes DEF Response, ResponsesTrue
      <4> QED
        BY <4>1 DEF StagesStay, TrueResponse
    <3>2. TrueResponse(m)'
      BY <1>5, <2>1 DEF TrueResponse
    <3> QED
      BY <2>4, <3>1, <3>2
  <2> QED
    BY <2>4, <2>5 DEF ResponsesTrue, Apart, Contents, Held, TrueResponse
<1>6. ASSUME NEW s \in Servers, NEW r \in Requests, ServerNext(s, r)
      PROVE  ResponsesTrue'
  <2>1. CASE Reject(s, r)
    <3>1. spc[s][r] \notin Responded /\ spc'[s][r] \in Responded
      BY <2>1 DEF Reject, Responded, TypeOK
    <3> QED
      BY <1>5, <2>1, <3>1 DEF Reject
  <2>2. CASE Respond(s, r)
    <3>1. PICK k \in {"reply", "error"} : SendResponse(s, r, k)
      BY <2>2 DEF Respond
    <3>2. spc[s][r] \notin Responded /\ spc'[s][r] = "answered"
      BY <2>2 DEF Respond, Responded, TypeOK
    <3>3. UNCHANGED <<disp, resChan>>
      BY <2>2 DEF Respond
    <3> QED
      BY <1>5, <3>1, <3>2, <3>3 DEF Responded
  <2>3. CASE ~(Reject(s, r) \/ Respond(s, r))
    <3>1. UNCHANGED <<responseChannel, resChan, disp>>
      BY <1>6, <2>3 DEF ServerNext, ReceiveRequest, Claim, TakeGrant, ClaimExpires, Handle
    <3> QED
      BY <1>2, <3>1
  <2> QED
    BY <2>1, <2>2, <2>3
<1>7. ASSUME \/ Close \/ (\E sub \in Locking : Overflow(sub)) \/ UNCHANGED vars
             \/ \E g \in claimResponseChannel : ReceiveGrant(g)
      PROVE  UNCHANGED <<responseChannel, resChan, disp>>
  BY <1>7 DEF Close, Overflow, ReceiveGrant, vars
<1> QED
  BY <1>2, <1>3, <1>4, <1>6, <1>7 DEF Next

----------------------------------------------------------------------------
\* A request that has a claim response waits for no other, and none comes before the choice
\* of a server is published.
GrantOnce ==
    /\ \A g \in claimResponseChannel :
          grantChan[g.to][g.req] = << >> /\ pc[g.req] # "choosing"
    /\ \A s \in Servers, r \in Requests : pc[r] = "choosing" => grantChan[s][r] = << >>

\* The choice is announced to a server that has no claim response yet.
LEMMA GrantOnceStep ==
    ASSUME TypeOK, Invariants, GrantOnce, [Next]_vars
    PROVE  GrantOnce'
<1> USE DEF GrantOnce, TypeOK, bus, locals, serverVars
<1>1. ASSUME UNCHANGED <<claimResponseChannel, grantChan>>,
             \A r \in Requests : pc'[r] = "choosing" => pc[r] = "choosing"
      PROVE  GrantOnce'
  BY <1>1 DEF ClaimResponse
<1>2. ASSUME NEW r \in Requests, NEW s \in Servers, Choose(r, s), pc[r] = "select",
             UNCHANGED <<claimResponseChannel, grantChan>>
      PROVE  GrantOnce'
  <2>1. chosen[r] = NoServer /\ NoServer \notin Servers
    BY <1>2, UnaryRpcAssumption DEF Invariants, ChosenOnce
  <2>2. ASSUME NEW t \in Servers
        PROVE  grantChan[t][r] = << >>
    <3>1. grantChan[t][r] # << >> => Head(grantChan[t][r]) \in Servers
      OBVIOUS
    <3> QED
      BY <2>1, <3>1 DEF Invariants, GrantsAgree
  <2>3. \A g \in claimResponseChannel : g.req # r
    BY <2>1 DEF Invariants, GrantsAgree, ClaimResponse
  <2>4. pc' = [pc EXCEPT ![r] = "choosing"]
    BY <1>2 DEF Choose
  <2> QED
    BY <1>2, <2>2, <2>3, <2>4 DEF ClaimResponse
<1>3. ASSUME NEW r \in Requests, ClientNext(r)
      PROVE  GrantOnce'
  <2>1. CASE SelectClaim(r)
    <3>1. pc[r] = "select" /\ UNCHANGED <<claimResponseChannel, grantChan>>
      BY <2>1 DEF SelectClaim
    <3>2. Head(claimChan[r]).server \in Servers
      <4>1. Head(claimChan[r]) \in ClaimRequest
        BY <2>1 DEF SelectClaim
      <4> QED
        BY <4>1 DEF ClaimRequest
    <3>3. Choose(r, Head(claimChan[r]).server) \/ UNCHANGED pc
      BY <2>1 DEF SelectClaim
    <3> QED
      BY <1>1, <1>2, <3>1, <3>2, <3>3
  <2>2. CASE SelectEnds(r)
    <3>1. pc[r] = "select" /\ UNCHANGED <<claimResponseChannel, grantChan>>
      BY <2>2 DEF SelectEnds
    <3>2. sel[r].server \in Servers \cup {NoServer} /\ sel[r].claims \subseteq Servers
      BY DEF Candidates
    <3>3. (\E s \in Servers : Choose(r, s)) \/ pc' = [pc EXCEPT ![r] = "cleanup"]
      BY <2>2, <3>2 DEF SelectEnds, Return
    <3>4. CASE pc' = [pc EXCEPT ![r] = "cleanup"]
      BY <1>1, <3>1, <3>4
    <3> QED
      BY <1>2, <3>1, <3>3, <3>4
  <2>3. CASE PublishChoice(r)
    <3>1. /\ claimResponseChannel' = claimResponseChannel \cup
                {[to |-> t, req |-> r, server |-> chosen[r]] : t \in Servers}
          /\ UNCHANGED grantChan
          /\ \A t \in Servers : grantChan[t][r] = << >>
      BY <2>3 DEF PublishChoice
    <3>2. /\ pc'[r] # "choosing"
          /\ \A q \in Requests : pc'[q] = "choosing" => pc[q] = "choosing"
      BY <2>3 DEF PublishChoice, Return
    <3> QED
      BY <3>1, <3>2 DEF ClaimResponse
  <2>4. CASE ~(SelectClaim(r) \/ SelectEnds(r) \/ PublishChoice(r))
    <3>1. UNCHANGED <<claimResponseChannel, grantChan>>
      BY <1>3, <2>4 DEF ClientNext, CallClosed, Call, Publish, SelectResponse,
                        AwaitResponse, AwaitEnds, Unregister
    <3>2. \A q \in Requests : pc'[q] = "choosing" => pc[q] = "choosing"
      BY <1>3, <2>4 DEF ClientNext, CallClosed, Call, Publish, SelectResponse,
                        AwaitResponse, AwaitEnds, Unregister, Return
    <3> QED
      BY <1>1, <3>1, <3>2
  <2> QED
    BY <2>1, <2>2, <2>3, <2>4
<1>4. ASSUME Dispatching \/ UNCHANGED vars
      PROVE  GrantOnce'
  <2>1. UNCHANGED <<claimResponseChannel, grantChan, pc>>
    BY <1>4, DispatcherFrame DEF vars
  <2> QED
    BY <1>1, <2>1
<1>5. ASSUME NEW s \in Servers, NEW r \in Requests, ServerNext(s, r)
      PROVE  GrantOnce'
  <2>1. /\ UNCHANGED <<claimResponseChannel, pc>>
        /\ grantChan' = grantChan \/ grantChan' = [grantChan EXCEPT ![s][r] = << >>]
    BY <1>5 DEF ServerNext, ReceiveRequest, Reject, Claim, TakeGrant, ClaimExpires, Handle,
                Respond
  <2>2. \A t \in Servers, q \in Requests :
           grantChan[t][q] = << >> => grantChan'[t][q] = << >>
    <3>1. CASE grantChan' = [grantChan EXCEPT ![s][r] = << >>]
      <4> SUFFICES ASSUME NEW t \in Servers, NEW q \in Requests, grantChan[t][q] = << >>
                   PROVE  grantChan'[t][q] = << >>
        OBVIOUS
      <4>1. CASE t = s /\ q = r
        BY <3>1, <4>1
      <4>2. CASE ~(t = s /\ q = r)
        BY <3>1, <4>2
      <4> QED
        BY <4>1, <4>2
    <3> QED
      BY <2>1, <3>1
  <2> QED
    BY <2>1, <2>2 DEF ClaimResponse
<1>6. ASSUME NEW g \in claimResponseChannel, ReceiveGrant(g)
      PROVE  GrantOnce'
  <2>1. claimResponseChannel' = claimResponseChannel \ {g} /\ UNCHANGED pc
    BY <1>6 DEF ReceiveGrant
  <2>2. \A h \in claimResponseChannel' : h.to # g.to \/ h.req # g.req
    <3>1. \A h \in claimResponseChannel : h = [to |-> h.to, req |-> h.req, server |-> h.server]
      BY DEF ClaimResponse
    <3>2. \A h \in claimResponseChannel : h.server = chosen[h.req]
      BY DEF Invariants, GrantsAgree
    <3> HIDE DEF GrantOnce, TypeOK
    <3> QED
      BY <2>1, <3>1, <3>2
  <2>3. \A t \in Servers, q \in Requests :
           (t # g.to \/ q # g.req) => grantChan'[t][q] = grantChan[t][q]
    BY <1>6 DEF ReceiveGrant
  <2>4. ASSUME NEW h \in claimResponseChannel'
        PROVE  grantChan'[h.to][h.req] = << >> /\ pc'[h.req] # "choosing"
    <3>1. h \in claimResponseChannel /\ h.to \in Servers /\ h.req \in Requests
      BY <2>1 DEF ClaimResponse
    <3> QED
      BY <2>1, <2>2, <2>3, <3>1
  <2>5. ASSUME NEW t \in Servers, NEW q \in Requests, pc'[q] = "choosing"
        PROVE  grantChan'[t][q] = << >>
    <3>1. q # g.req /\ grantChan[t][q] = << >>
      BY <2>1, <2>5
    <3> QED
      BY <2>3, <3>1
  <2> QED
    BY <2>4, <2>5
<1> QED
  BY <1>3, <1>4, <1>5, <1>6 DEF Next, Dispatching

----------------------------------------------------------------------------
\* What selectServer keeps of the claims it has read for r.
Kept(r) ==
    /\ ~Selection[r].custom =>
          \A d \in seen[r] : Eligible(r, d.affinity) => d.affinity <= sel[r].affinity
    /\ sel[r].server # NoServer =>
          /\ ~Selection[r].custom
          /\ \E c \in seen[r] :
                /\ c.server = sel[r].server /\ c.affinity = sel[r].affinity
                /\ Eligible(r, c.affinity)
    /\ \A s \in sel[r].claims :
          /\ Selection[r].custom
          /\ \E c \in seen[r] : c.server = s /\ Eligible(r, c.affinity)

SelectionTrue == \A r \in Requests : pc[r] \in {"idle", "calling", "select"} => Kept(r)

\* BestClaimWins, for one call.
Won(r) ==
    chosen[r] # NoServer =>
        \E c \in seen[r] :
            /\ c.server = chosen[r]
            /\ Eligible(r, c.affinity)
            /\ \/ Immediate(r, c.affinity)
               \/ Selection[r].custom
               \/ \A d \in seen[r] : Eligible(r, d.affinity) => d.affinity <= c.affinity

\* A claim that is read and not taken at once is weighed against the best so far.
LEMMA ConsideredKeeps ==
    ASSUME TypeOK, NEW r \in Requests, NEW c \in ClaimRequest, Kept(r),
           sel' = [sel EXCEPT ![r] = Considered(r, c)],
           seen' = [seen EXCEPT ![r] = @ \cup {c}]
    PROVE  Kept(r)'
<1>1. /\ sel[r] \in Candidates /\ seen[r] \subseteq ClaimRequest
      /\ sel'[r] = Considered(r, c) /\ seen'[r] = seen[r] \cup {c}
  BY DEF TypeOK
<1>2. /\ c.affinity \in Int /\ c.server \in Servers /\ sel[r].affinity \in Int
      /\ \A d \in seen[r] : d.affinity \in Int
  BY <1>1 DEF ClaimRequest, Candidates
<1>3. CASE Eligible(r, c.affinity) /\ Selection[r].custom
  <2>1. /\ sel'[r].server = sel[r].server
        /\ sel'[r].claims = sel[r].claims \cup {c.server}
    BY <1>1, <1>3 DEF Considered, Candidate
  <2> QED
    BY <1>1, <1>3, <2>1 DEF Kept, Eligible
<1>4. CASE Eligible(r, c.affinity) /\ ~Selection[r].custom /\ c.affinity > sel[r].affinity
  <2>1. /\ sel'[r].server = c.server /\ sel'[r].affinity = c.affinity
        /\ sel'[r].claims = sel[r].claims
    BY <1>1, <1>4 DEF Considered, Candidate
  <2>2. \A d \in seen[r] : Eligible(r, d.affinity) => d.affinity <= c.affinity
    BY <1>2, <1>4 DEF Kept
  <2> QED
    BY <1>1, <1>2, <1>4, <2>1, <2>2 DEF Kept, Eligible
<1>5. CASE /\ ~(Eligible(r, c.affinity) /\ Selection[r].custom)
           /\ ~(Eligible(r, c.affinity) /\ ~Selection[r].custom /\ c.affinity > sel[r].affinity)
  <2>1. sel'[r] = sel[r]
    BY <1>1, <1>5 DEF Considered
  <2>2. ~Selection[r].custom /\ Eligible(r, c.affinity) => c.affinity <= sel[r].affinity
    BY <1>2, <1>5
  <2> QED
    BY <1>1, <2>1, <2>2 DEF Kept, Eligible
<1> QED
  BY <1>3, <1>4, <1>5

\* A step of the selection of r, which has chosen nobody yet.
LEMMA SelectionStep ==
    ASSUME TypeOK, Invariants, SelectionTrue, BestClaimWins, NEW r \in Requests,
           SelectClaim(r) \/ SelectResponse(r) \/ SelectEnds(r)
    PROVE  Won(r)' /\ (pc'[r] = "select" => Kept(r)')
<1>1. Kept(r) /\ chosen[r] = NoServer
  BY DEF SelectClaim, SelectResponse, SelectEnds, SelectionTrue, Invariants, ChosenOnce
<1>2. CASE SelectClaim(r)
  <2> DEFINE c == Head(claimChan[r])
  <2>1. c \in ClaimRequest
    BY <1>2 DEF SelectClaim, TypeOK
  <2>2. seen' = [seen EXCEPT ![r] = @ \cup {c}] /\ c \in seen'[r]
    BY <1>2 DEF SelectClaim, TypeOK
  <2>3. CASE Eligible(r, c.affinity) /\ Immediate(r, c.affinity)
    <3>1. chosen'[r] = c.server /\ pc'[r] # "select"
      BY <1>2, <2>3 DEF SelectClaim, Choose, Return, TypeOK
    <3> QED
      BY <2>2, <2>3, <3>1 DEF Won, Eligible, Immediate
  <2>4. CASE ~(Eligible(r, c.affinity) /\ Immediate(r, c.affinity))
    <3>1. sel' = [sel EXCEPT ![r] = Considered(r, c)] /\ UNCHANGED chosen
      BY <1>2, <2>4 DEF SelectClaim
    <3>2. Kept(r)'
      BY <1>1, <2>1, <2>2, <3>1, ConsideredKeeps
    <3> QED
      BY <1>1, <3>1, <3>2 DEF Won
  <2> QED
    BY <2>3, <2>4
<1>3. CASE SelectResponse(r)
  <2>1. UNCHANGED <<chosen, seen>>
    BY <1>3 DEF SelectResponse
  <2>2. /\ sel'[r].server = sel[r].server /\ sel'[r].affinity = sel[r].affinity
        /\ sel'[r].claims = sel[r].claims
    BY <1>3 DEF SelectResponse, TypeOK, Candidate
  <2> QED
    BY <1>1, <2>1, <2>2 DEF Won, Kept, Eligible
<1>4. CASE SelectEnds(r)
  <2>1. UNCHANGED <<seen, sel>> /\ pc'[r] # "select"
    BY <1>4 DEF SelectEnds, Choose, Return, TypeOK
  <2>2. CASE UNCHANGED chosen
    BY <1>1, <2>1, <2>2 DEF Won
  <2>3. ASSUME NEW s \in sel[r].claims, Choose(r, s), Selection[r].custom
        PROVE  Won(r)'
    <3>1. chosen'[r] = s
      BY <2>3 DEF Choose, TypeOK
    <3>2. PICK c \in seen[r] : c.server = s /\ Eligible(r, c.affinity)
      BY <1>1 DEF Kept
    <3> QED
      BY <2>1, <2>3, <3>1, <3>2 DEF Won, Eligible
  <2>4. ASSUME sel[r].server # NoServer, Choose(r, sel[r].server)
        PROVE  Won(r)'
    <3>1. chosen'[r] = sel[r].server
      BY <2>4 DEF Choose, TypeOK
    <3>2. PICK c \in seen[r] :
             /\ c.server = sel[r].server /\ c.affinity = sel[r].affinity
             /\ Eligible(r, c.affinity)
      BY <1>1, <2>4 DEF Kept
    <3>3. \A d \in seen[r] : Eligible(r, d.affinity) => d.affinity <= c.affinity
      BY <1>1, <2>4, <3>2 DEF Kept
    <3> QED
      BY <2>1, <3>1, <3>2, <3>3 DEF Won, Eligible
  <2> QED
    BY <1>4, <2>1, <2>2, <2>3, <2>4 DEF SelectEnds
<1> QED
  BY <1>2, <1>3, <1>4

\* Only a step of its selection changes what a call has read, kept or chosen.
LEMMA BestClaimStep ==
    ASSUME TypeOK, Invariants, SelectionTrue, BestClaimWins, [Next]_vars
    PROVE  SelectionTrue' /\ BestClaimWins'
<1> USE DEF TypeOK, locals, serverVars
<1>1. ASSUME NEW q \in Requests, UNCHANGED <<chosen[q], seen[q], sel[q]>>,
             pc'[q] \in {"idle", "calling", "select"} => pc[q] \in {"idle", "calling", "select"}
      PROVE  Won(q)' /\ (pc'[q] \in {"idle", "calling", "select"} => Kept(q)')
  BY <1>1 DEF SelectionTrue, BestClaimWins, Won, Kept, Eligible, Immediate
<1>2. ASSUME \A q \in Requests : Won(q)' /\ (pc'[q] \in {"idle", "calling", "select"} => Kept(q)')
      PROVE  SelectionTrue' /\ BestClaimWins'
  BY <1>2 DEF SelectionTrue, BestClaimWins, Won
<1>3. ASSUME UNCHANGED <<locals, pc>>
      PROVE  SelectionTrue' /\ BestClaimWins'
  BY <1>1, <1>2, <1>3
<1>4. ASSUME NEW r \in Requests, ClientNext(r)
      PROVE  SelectionTrue' /\ BestClaimWins'
  <2>1. CASE SelectClaim(r) \/ SelectResponse(r) \/ SelectEnds(r)
    <3>1. \A q \in Requests \ {r} : UNCHANGED <<chosen[q], seen[q], sel[q], pc[q]>>
      BY <2>1 DEF SelectClaim, SelectResponse, SelectEnds, Choose, Return
    <3>2. pc'[r] \notin {"idle", "calling"}
      BY <2>1 DEF SelectClaim, SelectResponse, SelectEnds, Choose, Return
    <3> QED
      BY <1>1, <1>2, <2>1, <3>1, <3>2, SelectionStep
  <2>2. CASE ~(SelectClaim(r) \/ SelectResponse(r) \/ SelectEnds(r))
    <3>1. UNCHANGED locals
      BY <1>4, <2>2 DEF ClientNext, CallClosed, Call, Publish, PublishChoice, AwaitResponse,
                        AwaitEnds, Unregister
    <3>2. \A q \in Requests : pc'[q] \in {"idle", "calling", "select"} =>
                                 pc[q] \in {"idle", "calling", "select"}
      BY <1>4, <2>2 DEF ClientNext, CallClosed, Call, Publish, PublishChoice, AwaitResponse,
                        AwaitEnds, Unregister, Return
    <3> QED
      BY <1>1, <1>2, <3>1, <3>2
  <2> QED
    BY <2>1, <2>2
<1>5. ASSUME Dispatching \/ UNCHANGED vars
      PROVE  UNCHANGED <<locals, pc>>
  BY <1>5, DispatcherFrame DEF vars
<1>6. ASSUME \/ \E s \in Servers, r \in Requests : ServerNext(s, r)
             \/ \E g \in claimResponseChannel : ReceiveGrant(g)
      PROVE  UNCHANGED <<locals, pc>>
  <2>1. ASSUME NEW s \in Servers, NEW r \in Requests, ServerNext(s, r)
        PROVE  UNCHANGED <<locals, pc>>
    <3>1. CASE ReceiveRequest(s, r) \/ Reject(s, r) \/ Claim(s, r) \/ Handle(s, r)
      BY <3>1 DEF ReceiveRequest, Reject, Claim, Handle
    <3>2. CASE TakeGrant(s, r) \/ ClaimExpires(s, r) \/ Respond(s, r)
      BY <3>2 DEF TakeGrant, ClaimExpires, Respond
    <3> QED
      BY <2>1, <3>1, <3>2 DEF ServerNext
  <2>2. ASSUME NEW g \in claimResponseChannel, ReceiveGrant(g)
        PROVE  UNCHANGED <<locals, pc>>
    BY <2>2 DEF ReceiveGrant
  <2> QED
    BY <1>6, <2>1, <2>2
<1> QED
  BY <1>3, <1>4, <1>5, <1>6 DEF Next, Dispatching

----------------------------------------------------------------------------
\* The inductive invariant of the messages and of the selection.
Messages ==
    DeliveredOnce /\ ClaimsTrue /\ ResponsesTrue /\ GrantOnce /\ SelectionTrue /\ BestClaimWins

\* Every message comes from the server it names, which sent it once, and what the
\* selection keeps are claims it has read.
THEOREM MessagesTrue == Spec => []Messages
<1>1. Init => Messages
  <2> SUFFICES ASSUME Init PROVE Messages
    OBVIOUS
  <2>1. /\ Held(ClaimRequest) = {} /\ Held(Response) = {}
        /\ \A r \in Requests : claimChan[r] = << >> /\ resChan[r] = << >>
        /\ claimRequestChannel = {} /\ responseChannel = {}
    BY DEF Init, Idle, ClaimRequest, Response, Held
  <2>2. /\ Contents(claimRequestChannel, Held(ClaimRequest), claimChan) = {}
        /\ Contents(responseChannel, Held(Response), resChan) = {}
    BY <2>1 DEF Contents
  <2>3. ClaimsTrue /\ ResponsesTrue
    BY <2>1, <2>2 DEF ClaimsTrue, ResponsesTrue, Apart
  <2>4. SelectionTrue /\ BestClaimWins
    BY DEF Init, SelectionTrue, BestClaimWins, Kept, NoCandidate, Candidate
  <2>5. DeliveredOnce /\ GrantOnce
    BY DEF Init, DeliveredOnce, GrantOnce
  <2> QED
    BY <2>3, <2>4, <2>5 DEF Messages
<1>2. TypeOK /\ TypeOK' /\ Invariants /\ Messages /\ [Next]_vars => Messages'
  BY DeliveredOnceStep, ClaimsTrueStep, ResponsesTrueStep, GrantOnceStep, BestClaimStep
  DEF Messages
<1> QED
  BY <1>1, <1>2, TypeCorrect, Inductive, PTL DEF Spec

\* The server chosen made an acceptable claim, and unless it was taken at once or by a
\* SelectionFunc, none read before it scored higher.
THEOREM BestClaimChosen == Spec => []BestClaimWins
<1>1. Messages => BestClaimWins
  BY DEF Messages
<1> QED
  BY <1>1, MessagesTrue, PTL

\* A response read while selectServer runs comes from a server that rejected the
\* request: the handler of one that claimed cannot have run, as nobody is chosen.
THEOREM MalformedWhileSelecting == Spec => []OnlyMalformedWhileSelecting
<1>1. TypeOK /\ Invariants /\ Messages => OnlyMalformedWhileSelecting
  <2> SUFFICES ASSUME TypeOK, Invariants, Messages, NEW r \in Requests, pc[r] = "select",
                      NEW i \in 1..Len(resChan[r])
               PROVE  spc[resChan[r][i].server][r] = "rejected"
    BY DEF OnlyMalformedWhileSelecting
  <2> DEFINE m == resChan[r][i]
  <2>1. m \in Contents(responseChannel, Held(Response), resChan)
    BY InContents
  <2>2. m.server \in Servers /\ TrueResponse(m) /\ m.req = r
    BY <2>1, ResponsesTypes DEF Messages, ResponsesTrue, Apart, Response
  <2>3. ~Ran(m.server, r)
    BY <2>2, UnaryRpcAssumption DEF Invariants, ChosenOnce, ChosenRuns
  <2> QED
    BY <2>2, <2>3 DEF TrueResponse, Responded, Ran
<1> QED
  BY <1>1, Inductive, MessagesTrue, PTL

\* A set that n distinct elements are drawn from has n elements at least.
LEMMA Injected ==
    ASSUME NEW n \in Nat, NEW X, IsFiniteSet(X), NEW f \in [1..n -> X],
           \A i, j \in 1..n : i # j => f[i] # f[j]
    PROVE  n <= Cardinality(X)
<1>1. IsFiniteSet(1..n) /\ Cardinality(1..n) = n
  <2>1. Cardinality(1..n) = IF 1 > n THEN 0 ELSE n - 1 + 1
    BY FS_Interval
  <2> QED
    BY <2>1, FS_Interval
<1>2. f \in Injection(1..n, X)
  BY DEF Injection, IsInjective
<1>3. Cardinality(1..n) <= Cardinality(X)
  BY <1>2, FS_Injection
<1> QED
  BY <1>1, <1>3

\* The claims of a full claimChan and the one that waits for room are of as many servers.
LEMMA ClaimsOverrun ==
    ASSUME TypeOK, Messages, Stuck, disp.type = "claim"
    PROVE  Cardinality({s \in Servers : spc[s][disp.req] \in Claimed}) > ChannelSize
<1> DEFINE r == disp.req
           n == Len(claimChan[r])
           X == {s \in Servers : spc[s][r] \in Claimed}
           f == [i \in 1..n + 1 |-> IF i <= n THEN claimChan[r][i].server ELSE disp.server]
<1>1. disp \in ClaimRequest /\ r \in Requests
  BY HandedOver DEF Stuck
<1>2. n \in Nat /\ n >= ChannelSize /\ ChannelSize \in Nat
  BY <1>1, UnaryRpcAssumption DEF Stuck, HasRoom, TypeOK
<1>3. disp \in Held(ClaimRequest)
  BY <1>1 DEF Held
<1>4. disp.server \in X
  BY <1>1, <1>3 DEF Messages, ClaimsTrue, Contents, ClaimRequest
<1>5. ASSUME NEW i \in 1..n
      PROVE  claimChan[r][i].server \in X /\ claimChan[r][i].server # disp.server
  <2>1. claimChan[r][i] \in Contents(claimRequestChannel, Held(ClaimRequest), claimChan)
    BY <1>1, InContents
  <2>2. claimChan[r][i] \in ClaimRequest
    BY <2>1, ClaimsTypes
  <2>3. claimChan[r][i].req = r /\ ~Same(disp, claimChan[r][i])
    BY <1>1, <1>3 DEF Messages, ClaimsTrue, Apart
  <2>4. spc[claimChan[r][i].server][claimChan[r][i].req] \in Claimed
    BY <2>1 DEF Messages, ClaimsTrue
  <2> QED
    BY <2>2, <2>3, <2>4 DEF Same, ClaimRequest
<1>6. ASSUME NEW i \in 1..n, NEW j \in 1..n, claimChan[r][i].server = claimChan[r][j].server
      PROVE  i = j
  BY <1>1, <1>6 DEF Messages, ClaimsTrue, Apart, Same
<1>7. IsFiniteSet(X) /\ Cardinality(X) \in Nat
  BY UnaryRpcAssumption, FS_Subset, FS_CardinalityType
<1>8. f \in [1..n + 1 -> X]
  BY <1>2, <1>4, <1>5
<1>9. \A i, j \in 1..n + 1 : i # j => f[i] # f[j]
  BY <1>2, <1>5, <1>6
<1>10. n + 1 \in Nat
  BY <1>2
<1>11. n + 1 <= Cardinality(X)
  <2> HIDE DEF f, X, n
  <2> QED
    BY <1>7, <1>8, <1>9, <1>10, Injected
<1> QED
  BY <1>2, <1>7, <1>11

\* The dispatcher is never blocked for good by one call, unless more servers claimed it
\* than its claimChan holds or two answered it; and a server's run loop never blocks on
\* the claim response it passes on.
THEOREM BlockedByOverrun == Spec => []BlocksOnlyIfOverrun
<1>1. TypeOK /\ Messages => BlocksOnlyIfOverrun
  <2> SUFFICES ASSUME TypeOK, Messages PROVE BlocksOnlyIfOverrun
    OBVIOUS
  <2>1. ASSUME Stuck, disp.type # "claim"
        PROVE  \E s, t \in Servers :
                  /\ s # t
                  /\ {spc[s][disp.req], spc[t][disp.req]} \subseteq {"rejected", "answered"}
    <3> DEFINE m == resChan[disp.req][1]
    <3>1. disp \in Response /\ disp \in Held(Response) /\ disp.req \in Requests
      BY <2>1, HandedOver DEF Stuck, Held
    <3>2. resChan[disp.req] \in Seq(Response)
      BY <3>1 DEF TypeOK
    <3>3. 1 \in 1..Len(resChan[disp.req])
      BY <2>1, <3>2 DEF Stuck, HasRoom
    <3>4. {disp, m} \subseteq Contents(responseChannel, Held(Response), resChan)
      BY <3>1, <3>3, InContents
    <3>5. m.req = disp.req /\ m.server # disp.server
      BY <3>1, <3>3 DEF Messages, ResponsesTrue, Apart, Same
    <3>6. TrueResponse(disp) /\ TrueResponse(m) /\ m \in Response
      BY <3>4, ResponsesTypes DEF Messages, ResponsesTrue
    <3> QED
      BY <3>1, <3>5, <3>6 DEF TrueResponse, Responded, Response
  <2>2. ASSUME NEW g \in claimResponseChannel
        PROVE  grantChan[g.to][g.req] = << >>
    BY DEF Messages, GrantOnce
  <2> QED
    BY <2>1, <2>2, ClaimsOverrun DEF BlocksOnlyIfOverrun, Claimed
<1> QED
  BY <1>1, TypeCorrect, MessagesTrue, PTL

----------------------------------------------------------------------------
\* What the abstract variables are in the state and in the next one.

Answered(r) == \E s \in Servers : spc[s][r] = "answered"

\* The server that ran an exclusive call is its executor.
LEMMA ExecutorIs ==
    ASSUME OneExecutor, NEW r \in Exclusive, NEW s \in Servers, Ran(s, r)
    PROVE  Executor(r) = s
  BY DEF OneExecutor, Executor

\* The same after a step.
LEMMA ExecutorBecomes ==
    ASSUME OneExecutor', NEW r \in Exclusive, NEW s \in Servers, Ran(s, r)'
    PROVE  Executor(r)' = s
  BY DEF OneExecutor, Executor, Ran

\* A call whose handlers neither start nor return keeps its executor.
LEMMA ExecutorKept ==
    ASSUME OneExecutor, OneExecutor', NEW r \in Exclusive,
           \A s \in Servers : Ran(s, r)' <=> Ran(s, r)
    PROVE  Executor(r)' = Executor(r)
<1>1. CASE \E s \in Servers : Ran(s, r)
  BY <1>1, ExecutorIs, ExecutorBecomes
<1>2. CASE \A s \in Servers : ~Ran(s, r)
  BY <1>2 DEF Executor
<1> QED
  BY <1>1, <1>2

IInv == TypeOK /\ Invariants /\ OneExecutor /\ Messages

\* A step in which no call returns and no handler starts or returns is a stutter.
LEMMA QuietStep ==
    ASSUME IInv, IInv', UNCHANGED <<pc, result>>,
           \A s \in Servers, r \in Requests :
              /\ Ran(s, r)' <=> Ran(s, r)
              /\ spc'[s][r] = "answered" <=> spc[s][r] = "answered"
    PROVE  UNCHANGED Abstract!vars
<1>1. \A r \in Exclusive : CallStatus(r)' = CallStatus(r)
  BY DEF CallStatus
<1>2. \A r \in Exclusive : Executor(r)' = Executor(r)
  BY ExecutorKept DEF IInv, Exclusive
<1>3. \A r \in Exclusive : (\E s \in Servers : spc[s][r] = "answered")'
                          <=> (\E s \in Servers : spc[s][r] = "answered")
  BY DEF Exclusive
<1>4. Exclusive' = Exclusive
  BY DEF Exclusive
<1> QED
  BY <1>1, <1>2, <1>3, <1>4 DEF Abstract!vars

\* How a step of the call itself moves what its caller knows.
Moves(r) ==
    \/ CallStatus(r)' = CallStatus(r)
    \/ CallStatus(r) = "idle" /\ CallStatus(r)' = "pending"
    \/ CallStatus(r) \in {"idle", "pending"} /\ CallStatus(r)' = "failed"
    \/ /\ CallStatus(r) \in {"idle", "pending"} /\ CallStatus(r)' = "refused"
       /\ \A s \in Servers : ~Ran(s, r)
    \/ CallStatus(r) = "pending" /\ CallStatus(r)' = "replied" /\ Answered(r)

\* A call is idle before newRPC and pending in it.
LEMMA StatusBefore ==
    ASSUME IInv, NEW r \in Requests
    PROVE  /\ pc[r] = "idle" => CallStatus(r) = "idle"
           /\ pc[r] \in {"calling", "select", "choosing", "wait"} => CallStatus(r) = "pending"
  BY DEF IInv, Invariants, Progress, CallStatus

\* A return decides the status of its call.
LEMMA ReturnMoves ==
    ASSUME IInv, NEW r \in Requests, NEW k \in Outcome \ {"none"},
           pc' = [pc EXCEPT ![r] = "cleanup"], result'[r].kind = k
    PROVE  CallStatus(r)' = IF k = "reply" THEN "replied"
                            ELSE IF k \in Refusals THEN "refused" ELSE "failed"
<1>1. pc'[r] = "cleanup"
  BY DEF IInv, TypeOK
<1> QED
  BY <1>1 DEF CallStatus, Refusals

\* A Publish that fails ends the call, and another leaves it pending.
LEMMA PublishMoves ==
    ASSUME IInv, NEW r \in Requests, pc[r] \in {"calling", "choosing"},
           \/ Return(r, Ended("internal"))
           \/ /\ \E st \in {"select", "wait"} : pc' = [pc EXCEPT ![r] = st]
              /\ UNCHANGED result
    PROVE  Moves(r)
<1>1. CallStatus(r) = "pending" /\ result[r].kind = "none"
  BY StatusBefore DEF IInv, Invariants, Progress
<1>2. CASE Return(r, Ended("internal"))
  <2>1. pc' = [pc EXCEPT ![r] = "cleanup"] /\ result'[r].kind = "internal"
    BY <1>2 DEF Return, Ended, IInv, TypeOK
  <2> QED
    BY <1>1, <2>1, ReturnMoves DEF Moves, Refusals
<1>3. CASE /\ \E st \in {"select", "wait"} : pc' = [pc EXCEPT ![r] = st]
           /\ UNCHANGED result
  <2>1. pc'[r] \in {"select", "wait"} /\ result'[r].kind = "none"
    BY <1>1, <1>3 DEF IInv, TypeOK
  <2>2. CallStatus(r)' = "pending"
    BY <2>1 DEF CallStatus
  <2> QED
    BY <1>1, <2>2 DEF Moves
<1> QED
  BY <1>2, <1>3

\* A choice leaves the call pending.
LEMMA ChooseMoves ==
    ASSUME IInv, NEW r \in Requests, pc[r] = "select", NEW s \in Servers, Choose(r, s),
           UNCHANGED result
    PROVE  Moves(r)
<1>1. CallStatus(r) = "pending" /\ result[r].kind = "none"
  BY StatusBefore DEF IInv, Invariants, Progress
<1>2. pc'[r] = "choosing" /\ result'[r].kind = "none"
  BY <1>1 DEF Choose, IInv, TypeOK
<1>3. CallStatus(r)' = "pending"
  BY <1>2 DEF CallStatus
<1> QED
  BY <1>1, <1>3 DEF Moves

\* So does every step of the client.
LEMMA ClientMoves ==
    ASSUME IInv, NEW r \in Requests, ClientNext(r)
    PROVE  Moves(r)
<1>1. CASE CallClosed(r)
  <2>1. CallStatus(r) = "idle" /\ \A s \in Servers : ~Ran(s, r)
    BY <1>1, StatusBefore
    DEF CallClosed, IInv, Invariants, OneReached, Reached, Ran
  <2>2. pc'[r] = "done" /\ result'[r].kind = "closed"
    BY <1>1 DEF CallClosed, Ended, IInv, TypeOK
  <2>3. CallStatus(r)' = "refused"
    BY <2>2 DEF CallStatus
  <2> QED
    BY <2>1, <2>3 DEF Moves
<1>2. CASE Call(r)
  <2>1. CallStatus(r) = "idle" /\ result[r].kind = "none"
    BY <1>2, StatusBefore DEF Call, IInv, Invariants, Progress
  <2>2. pc'[r] = "calling" /\ result'[r].kind = "none"
    BY <1>2, <2>1 DEF Call, IInv, TypeOK
  <2>3. CallStatus(r)' = "pending"
    BY <2>2 DEF CallStatus
  <2> QED
    BY <2>1, <2>3 DEF Moves
<1>9. CASE Publish(r)
  BY <1>9, PublishMoves DEF Publish
<1>10. CASE PublishChoice(r)
  BY <1>10, PublishMoves DEF PublishChoice
<1>3. CASE SelectClaim(r)
  <2>1. CASE UNCHANGED <<pc, result>>
    BY <2>1 DEF Moves, CallStatus
  <2>2. CASE Choose(r, Head(claimChan[r]).server)
    <3>1. Head(claimChan[r]) \in ClaimRequest /\ pc[r] = "select" /\ UNCHANGED result
      BY <1>3 DEF SelectClaim, IInv, TypeOK
    <3>2. Head(claimChan[r]).server \in Servers
      BY <3>1 DEF ClaimRequest
    <3> QED
      BY <2>2, <3>1, <3>2, ChooseMoves
  <2> QED
    BY <1>3, <2>1, <2>2 DEF SelectClaim
<1>4. CASE SelectResponse(r)
  BY <1>4 DEF SelectResponse, Moves, CallStatus
<1>5. CASE SelectEnds(r)
  <2>1. pc[r] = "select" /\ CallStatus(r) = "pending"
    BY <1>5, StatusBefore DEF SelectEnds
  <2>2. ASSUME NEW s \in Servers, Choose(r, s), UNCHANGED result
        PROVE  Moves(r)
    BY <2>1, <2>2, ChooseMoves
  <2>3. ASSUME NEW k \in Refusals \ {"closed"}, Return(r, Ended(k))
        PROVE  Moves(r)
    <3>1. Method[r].claim /\ chosen[r] = NoServer
      BY <2>1 DEF IInv, Invariants, ChosenOnce
    <3>2. \A s \in Servers : ~Ran(s, r)
      BY <3>1, UnaryRpcAssumption DEF IInv, Invariants, ChosenRuns
    <3>3. pc' = [pc EXCEPT ![r] = "cleanup"] /\ result'[r].kind = k
      BY <2>3 DEF Return, Ended, IInv, TypeOK
    <3>4. k \in Outcome \ {"none"} /\ k # "reply"
      BY DEF Refusals
    <3> QED
      BY <2>1, <3>2, <3>3, <3>4, ReturnMoves DEF Moves
  <2>4. /\ sel[r].server \in Servers \cup {NoServer} /\ sel[r].claims \subseteq Servers
        /\ sel[r].failure \in {"unselected", "malformed"}
    BY DEF IInv, TypeOK, Candidates
  <2> QED
    BY <1>5, <2>2, <2>3, <2>4 DEF SelectEnds, Refusals
<1>6. CASE AwaitResponse(r)
  <2> DEFINE m == Head(resChan[r])
  <2>1. /\ m \in Response /\ CallStatus(r) = "pending" /\ m = resChan[r][1]
        /\ 1 \in 1..Len(resChan[r])
    BY <1>6, StatusBefore DEF AwaitResponse, IInv, TypeOK
  <2>2. m \in Contents(responseChannel, Held(Response), resChan)
    BY <2>1, InContents
  <2>3. m.req = r /\ TrueResponse(m)
    BY <2>1, <2>2 DEF IInv, Messages, ResponsesTrue, Apart
  <2>4. m.kind = "reply" => Answered(r)
    BY <2>1, <2>3 DEF TrueResponse, Answered, Response
  <2>5. pc' = [pc EXCEPT ![r] = "cleanup"] /\ result'[r].kind = m.kind
    BY <1>6 DEF AwaitResponse, Return, IInv, TypeOK
  <2>6. m.kind \in {"reply", "error"}
    BY <2>1 DEF Response
  <2> HIDE DEF m
  <2> QED
    BY <2>1, <2>4, <2>5, <2>6, ReturnMoves DEF Moves, Refusals
<1>7. CASE AwaitEnds(r)
  <2>1. CallStatus(r) = "pending"
    BY <1>7, StatusBefore DEF AwaitEnds
  <2>2. pc' = [pc EXCEPT ![r] = "cleanup"] /\ result'[r].kind = "timeout"
    BY <1>7 DEF AwaitEnds, Return, Ended, IInv, TypeOK
  <2> QED
    BY <2>1, <2>2, ReturnMoves DEF Moves, Refusals
<1>8. CASE Unregister(r)
  <2>1. pc[r] = "cleanup" /\ pc'[r] = "done" /\ result'[r] = result[r]
    BY <1>8 DEF Unregister, IInv, TypeOK
  <2> QED
    BY <2>1 DEF Moves, CallStatus
<1> QED
  BY <1>1, <1>2, <1>3, <1>4, <1>5, <1>6, <1>7, <1>8, <1>9, <1>10 DEF ClientNext

\* A client step leaves the handlers, and the other calls, alone.
LEMMA ClientFrame ==
    ASSUME IInv, NEW r \in Requests, ClientNext(r), NEW q \in Requests, q # r
    PROVE  UNCHANGED spc /\ CallStatus(q)' = CallStatus(q)
<1>1. UNCHANGED spc
  BY DEF ClientNext, CallClosed, Call, Publish, SelectClaim, SelectResponse, SelectEnds,
         PublishChoice, AwaitResponse, AwaitEnds, Unregister, serverVars
<1>2. pc'[q] = pc[q] /\ result'[q] = result[q]
  BY DEF ClientNext, CallClosed, Call, Publish, SelectClaim, SelectResponse, SelectEnds,
         PublishChoice, AwaitResponse, AwaitEnds, Unregister, Choose, Return, IInv, TypeOK
<1> QED
  BY <1>1, <1>2 DEF CallStatus

----------------------------------------------------------------------------
\* The abstract steps.

\* A step of the client is Invoke, Reply, Fail or Refuse of the abstract specification, or a
\* stutter.
LEMMA ClientAbstract ==
    ASSUME IInv, IInv', NEW r \in Requests, ClientNext(r)
    PROVE  [Abstract!Next]_(Abstract!vars)
<1> DEFINE c == [q \in Exclusive |-> CallStatus(q)]
           e == [q \in Exclusive |-> Executor(q)]
           f == [q \in Exclusive |-> \E s \in Servers : spc[s][q] = "answered"]
<1>1. UNCHANGED spc
  BY DEF ClientNext, CallClosed, Call, Publish, SelectClaim, SelectResponse, SelectEnds,
         PublishChoice, AwaitResponse, AwaitEnds, Unregister, serverVars
<1>2. e' = e /\ f' = f
  <2>1. \A q \in Exclusive, s \in Servers : Ran(s, q)' <=> Ran(s, q)
    BY <1>1 DEF Ran
  <2>2. \A q \in Exclusive : Executor(q)' = Executor(q)
    BY <2>1, ExecutorKept DEF IInv
  <2> QED
    BY <1>1, <2>2
<1>3. \A q \in Exclusive : q # r => CallStatus(q)' = CallStatus(q)
  BY ClientFrame DEF Exclusive
<1>4. CASE r \notin Exclusive
  <2>1. c' = c
    BY <1>3, <1>4
  <2> QED
    BY <1>2, <2>1 DEF Abstract!vars
<1>5. CASE r \in Exclusive
  <2>1. c' = [c EXCEPT ![r] = CallStatus(r)']
    BY <1>3, <1>5
  <2>2. c[r] = CallStatus(r) /\ e[r] = Executor(r) /\ f[r] = Answered(r)
    BY <1>5 DEF Answered
  <2>3. CASE CallStatus(r)' = CallStatus(r)
    <3>1. c' = c
      BY <1>3, <2>3
    <3> QED
      BY <1>2, <3>1 DEF Abstract!vars
  <2>4. CASE CallStatus(r) = "idle" /\ CallStatus(r)' = "pending"
    <3>1. Abstract!Invoke(r)
      BY <1>2, <2>1, <2>2, <2>4 DEF Abstract!Invoke
    <3> QED
      BY <1>5, <3>1 DEF Abstract!Next
  <2>5. CASE CallStatus(r) \in {"idle", "pending"} /\ CallStatus(r)' = "failed"
    <3>1. Abstract!Fail(r)
      BY <1>2, <2>1, <2>2, <2>5 DEF Abstract!Fail
    <3> QED
      BY <1>5, <3>1 DEF Abstract!Next
  <2>6. CASE /\ CallStatus(r) \in {"idle", "pending"} /\ CallStatus(r)' = "refused"
             /\ \A s \in Servers : ~Ran(s, r)
    <3>1. Executor(r) = NoServer
      BY <2>6 DEF Executor
    <3>2. Abstract!Refuse(r)
      BY <1>2, <2>1, <2>2, <2>6, <3>1 DEF Abstract!Refuse
    <3> QED
      BY <1>5, <3>2 DEF Abstract!Next
  <2>7. CASE CallStatus(r) = "pending" /\ CallStatus(r)' = "replied" /\ Answered(r)
    <3>1. Abstract!Reply(r)
      BY <1>2, <2>1, <2>2, <2>7 DEF Abstract!Reply
    <3> QED
      BY <1>5, <3>1 DEF Abstract!Next
  <2> QED
    BY <2>3, <2>4, <2>5, <2>6, <2>7, ClientMoves DEF Moves
<1> QED
  BY <1>4, <1>5

\* A handler starts only for a call that was made and not refused.
LEMMA StartAbstract ==
    ASSUME IInv, IInv', NEW s \in Servers, NEW r \in Requests,
           spc' = [spc EXCEPT ![s][r] = "handling"], ~Ran(s, r), spc[s][r] # "none",
           UNCHANGED <<pc, result>>
    PROVE  [Abstract!Next]_(Abstract!vars)
<1> DEFINE c == [q \in Exclusive |-> CallStatus(q)]
           e == [q \in Exclusive |-> Executor(q)]
           f == [q \in Exclusive |-> \E t \in Servers : spc[t][q] = "answered"]
<1>1. c' = c
  BY DEF CallStatus
<1>2. \A t \in Servers, q \in Requests :
          /\ spc'[t][q] = "answered" <=> spc[t][q] = "answered"
          /\ (t # s \/ q # r) => (Ran(t, q)' <=> Ran(t, q))
  BY DEF IInv, TypeOK, Ran
<1>3. f' = f
  BY <1>2 DEF Exclusive
<1>4. \A q \in Exclusive : q # r => Executor(q)' = Executor(q)
  BY <1>2, ExecutorKept DEF IInv, Exclusive
<1>5. CASE r \notin Exclusive
  <2>1. e' = e
    BY <1>4, <1>5
  <2> QED
    BY <1>1, <1>3, <2>1 DEF Abstract!vars
<1>6. CASE r \in Exclusive
  <2>1. Ran(s, r)'
    BY DEF Ran, IInv, TypeOK
  <2>2. Executor(r)' = s
    BY <1>6, <2>1, ExecutorBecomes DEF IInv
  <2>3. \A t \in Servers : Ran(t, r) => FALSE
    BY <1>2, <1>6, <2>1 DEF IInv, OneExecutor
  <2>4. Executor(r) = NoServer
    BY <2>3 DEF Executor
  <2>5. CallStatus(r) \notin {"idle", "refused"}
    <3>1. pc[r] # "idle" /\ result[r].kind # "closed"
      BY DEF IInv, Invariants, OneReached, Reached
    <3>2. result[r].kind \notin Refusals \ {"closed"}
      <4>1. Method[r].claim => s = chosen'[r]
        BY <2>1 DEF IInv, Invariants, ChosenRuns
      <4> QED
        BY <4>1, UnaryRpcAssumption DEF IInv, Invariants, ChosenOnce
    <3> QED
      BY <3>1, <3>2 DEF CallStatus, Refusals
  <2>6. e' = [e EXCEPT ![r] = s]
    BY <1>4, <1>6, <2>2
  <2>7. c[r] = CallStatus(r) /\ e[r] = Executor(r)
    BY <1>6
  <2>8. Abstract!Start(r, s)
    BY <1>1, <1>3, <2>4, <2>5, <2>6, <2>7 DEF Abstract!Start
  <2> QED
    BY <1>6, <2>8 DEF Abstract!Next
<1> QED
  BY <1>5, <1>6

\* A handler that returns is the abstract Finish, or a stutter.
LEMMA FinishAbstract ==
    ASSUME IInv, IInv', NEW s \in Servers, NEW r \in Requests, Respond(s, r)
    PROVE  [Abstract!Next]_(Abstract!vars)
<1> DEFINE c == [q \in Exclusive |-> CallStatus(q)]
           e == [q \in Exclusive |-> Executor(q)]
           f == [q \in Exclusive |-> \E t \in Servers : spc[t][q] = "answered"]
<1>1. c' = c
  BY DEF Respond, CallStatus
<1>2. \A t \in Servers, q \in Requests :
          /\ Ran(t, q)' <=> Ran(t, q)
          /\ q # r => spc'[t][q] = spc[t][q]
  BY DEF Respond, IInv, TypeOK, Ran
<1>3. \A q \in Exclusive : Executor(q)' = Executor(q)
  BY <1>2, ExecutorKept DEF IInv, Exclusive
<1>4. e' = e
  BY <1>3
<1>5. CASE r \notin Exclusive
  <2>1. f' = f
    BY <1>2, <1>5 DEF Exclusive
  <2> QED
    BY <1>1, <1>4, <2>1 DEF Abstract!vars
<1>6. CASE r \in Exclusive
  <2>1. spc'[s][r] = "answered"
    BY DEF Respond, IInv, TypeOK
  <2>2. f' = [f EXCEPT ![r] = TRUE]
    BY <1>2, <1>6, <2>1 DEF Exclusive
  <2>3. e[r] = s /\ s # NoServer
    BY <1>6, ExecutorIs, UnaryRpcAssumption DEF Respond, Ran, IInv
  <2>4. Abstract!Finish(r)
    BY <1>1, <1>4, <2>2, <2>3 DEF Abstract!Finish
  <2> QED
    BY <1>6, <2>4 DEF Abstract!Next
<1> QED
  BY <1>5, <1>6

\* A step of a server is Start, Finish or a stutter.
LEMMA ServerAbstract ==
    ASSUME IInv, IInv', NEW s \in Servers, NEW r \in Requests, ServerNext(s, r)
    PROVE  [Abstract!Next]_(Abstract!vars)
<1>1. UNCHANGED <<pc, result>>
  BY DEF ServerNext, ReceiveRequest, Reject, Claim, TakeGrant, ClaimExpires, Handle, Respond
<1>2. ASSUME NEW st \in ServerState \ {"handling", "answered"},
             spc' = [spc EXCEPT ![s][r] = st], spc[s][r] \notin {"handling", "answered"}
      PROVE  [Abstract!Next]_(Abstract!vars)
  <2>1. \A t \in Servers, q \in Requests :
           /\ Ran(t, q)' <=> Ran(t, q)
           /\ spc'[t][q] = "answered" <=> spc[t][q] = "answered"
    BY <1>2 DEF IInv, TypeOK, Ran
  <2> QED
    BY <1>1, <2>1, QuietStep
<1>3. CASE ReceiveRequest(s, r)
  <2>1. PICK st \in {"running", "expired"} : spc' = [spc EXCEPT ![s][r] = st]
    BY <1>3 DEF ReceiveRequest
  <2>2. spc[s][r] = "none"
    BY <1>3 DEF ReceiveRequest, IInv, Messages, DeliveredOnce
  <2> QED
    BY <1>2, <2>1, <2>2
<1>4. CASE Claim(s, r)
  <2>1. PICK st \in {"refused", "awaiting", "released"} : spc' = [spc EXCEPT ![s][r] = st]
    BY <1>4 DEF Claim
  <2> QED
    BY <1>2, <1>4, <2>1 DEF Claim
<1>5. CASE TakeGrant(s, r)
  <2>1. CASE spc' = [spc EXCEPT ![s][r] = "released"]
    BY <1>2, <1>5, <2>1 DEF TakeGrant
  <2>2. CASE spc' = [spc EXCEPT ![s][r] = "handling"]
    BY <1>1, <1>5, <2>2, StartAbstract DEF TakeGrant, Ran
  <2> QED
    BY <1>5, <2>1, <2>2 DEF TakeGrant
<1>6. CASE Handle(s, r)
  BY <1>1, <1>6, StartAbstract DEF Handle, Ran
<1>7. CASE Respond(s, r)
  BY <1>7, FinishAbstract
<1>8. CASE Reject(s, r)
  BY <1>2, <1>8 DEF Reject
<1>9. CASE ClaimExpires(s, r)
  BY <1>2, <1>9 DEF ClaimExpires
<1> QED
  BY <1>3, <1>4, <1>5, <1>6, <1>7, <1>8, <1>9 DEF ServerNext

\* The strengthened invariant holds throughout.
LEMMA Strengthened == Spec => []IInv
<1> QED
  BY TypeCorrect, Inductive, ExecutedOnce, MessagesTrue, PTL DEF IInv

\* For the calls that are claimed or queued, the protocol gives at-most-once execution,
\* replies only for executions that finished, and refusals that never execute.
THEOREM Refinement == Spec => ImplementsAtMostOnce
<1>1. Init => Abstract!Init
  <2> SUFFICES ASSUME Init PROVE Abstract!Init
    OBVIOUS
  <2>1. \A r \in Exclusive : CallStatus(r) = "idle"
    BY DEF Init, CallStatus, Exclusive, Ended
  <2>2. \A r \in Exclusive, s \in Servers : spc[s][r] = "none"
    BY DEF Init, Exclusive
  <2>3. \A r \in Exclusive : Executor(r) = NoServer
    BY <2>2 DEF Executor, Ran
  <2> QED
    BY <2>1, <2>2, <2>3 DEF Abstract!Init
<1>2. IInv /\ IInv' /\ [Next]_vars => [Abstract!Next]_(Abstract!vars)
  <2> SUFFICES ASSUME IInv, IInv', [Next]_vars PROVE [Abstract!Next]_(Abstract!vars)
    OBVIOUS
  <2>1. ASSUME UNCHANGED <<pc, result, spc>> PROVE [Abstract!Next]_(Abstract!vars)
    <3>1. \A s \in Servers, r \in Requests :
             /\ Ran(s, r)' <=> Ran(s, r)
             /\ spc'[s][r] = "answered" <=> spc[s][r] = "answered"
      BY <2>1 DEF Ran
    <3> QED
      BY <2>1, <3>1, QuietStep
  <2>2. ASSUME Dispatching \/ UNCHANGED vars
               \/ \E g \in claimResponseChannel : ReceiveGrant(g)
        PROVE  UNCHANGED <<pc, result, spc>>
    BY <2>2, DispatcherFrame DEF ReceiveGrant, vars, serverVars
  <2> QED
    BY <2>1, <2>2, ClientAbstract, ServerAbstract DEF Next, Dispatching
<1> QED
  BY <1>1, <1>2, Strengthened, PTL DEF Spec, ImplementsAtMostOnce, Abstract!Spec
=============================================================================
