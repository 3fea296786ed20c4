--------------------------- MODULE CallPath_proofs ---------------------------
(***************************************************************************)
(* Theorems about CallPath, for every chain of interceptors and every      *)
(* error that a service returns.                                           *)
(***************************************************************************)
EXTENDS CallPath, SequenceTheorems, TLAPS

----------------------------------------------------------------------------
\* The inductive invariant.

Error == [type : {"none", "psrpc", "grpc", "plain"}, code : Codes, text : BOOLEAN]
Frame == [at : Nat, twice : BOOLEAN]
Response == [wire : [code : Codes, text : BOOLEAN], unreadable : BOOLEAN]
Outcome == Failures \cup {Nil, Panic}

ClientState == {"down", "waiting", "up", "done"}
ServerState == {"idle", "received", "next", "body", "handler", "returning", "panicking",
                "crashed", "responded"}

\* The control positions and what is handed about.
Control ==
    /\ Chain \in Seq(ServerInterceptors) /\ Outer \in Seq(ClientInterceptors)
    /\ cpc \in ClientState /\ spc \in ServerState
    /\ result \in Error /\ answer \in Error
    /\ response \in Seq(Response) /\ served \in Seq(Outcome)
    /\ level \in Nat /\ (cpc = "down" => level >= 1) /\ (cpc # "down" => level <= Len(Outer))
    /\ cpc = "done" => level = 0

\* What the interceptors keep.
Kept ==
    /\ next \in Nat /\ frames \in Seq(Frame)
    /\ told \in [DOMAIN Outer -> Seq(Error)]
    /\ observed \in [DOMAIN Chain -> Seq(BOOLEAN)]

\* The active interceptors are ones of the chain, and inside the last is the handler.
Framed ==
    /\ \A d \in DOMAIN frames : frames[d].at \in 1..Len(Chain)
    /\ next = 0 \/ next < Len(Chain)
    /\ spc \in {"next", "body"} => Len(Chain) > 0
    /\ spc = "body" => frames # << >>
    /\ spc = "handler" => Len(Chain) = 0 \/ (frames # << >> /\ Top.at = Len(Chain))
    /\ spc = "received" => frames = << >> /\ next = 0 /\ served = << >>

\* Without an interceptor that calls its next twice the position is the depth.
Entered ==
    "again" \notin ToSet(Chain) =>
        /\ \A d \in DOMAIN frames : frames[d].at = d
        /\ spc = "next" => next = Len(frames)
        /\ spc = "body" /\ Top.at < Len(Chain) => next = Len(frames)

\* A recovery that is the last is around whatever panics.
Recovered ==
    Chain # << >> /\ Chain[Len(Chain)] = "recover" =>
        /\ spc # "crashed"
        /\ spc = "panicking" => frames # << >> /\ Top.at = Len(Chain)

\* A metrics interceptor that is the first observes as the last.
Observed ==
    Chain # << >> /\ Chain[Len(Chain)] = "recover" /\ Chain[1] = "metrics" =>
        /\ frames # << >> => frames[1].at = 1 /\ next >= 1
        /\ \A d \in DOMAIN frames : d > 1 => frames[d].at > 1
        /\ spc = "next" /\ frames = << >> => next = 0
        /\ frames # << >> \/ spc \in {"idle", "received", "next"} => observed[1] = << >>
        /\ observed[1] # << >> =>
              observed[1] = <<answer # Nil>> /\ spc \in {"returning", "responded"}

ChainInv == Control /\ Kept /\ Framed /\ Entered /\ Recovered /\ Observed

\* The service had a success, or an error without a text.
Succeeded == served # << >> /\ served # <<Panic>> /\ ~served[1].text

\* What the client hears of as a success was one; and it hears of the handler's end only.
Successes ==
    /\ cpc = "waiting" /\ spc # "responded" => response = << >>
    /\ spc \in {"returning", "responded"} /\ ~answer.text => Succeeded
    /\ response # << >> /\ ~response[1].wire.text => Succeeded
    /\ cpc \in {"up", "done"} /\ result = Nil => Succeeded

\* What becomes of err in the response, and with the client.
Wired(m, err) ==
    /\ m.wire = Wire(err) \/ (err = Nil /\ m.wire = Wire(PsrpcError("malformed_result")))
    /\ m.unreadable => err = Nil

Tells(res, err) ==
    /\ ~ err.text => res = Nil \/ res = PsrpcError("malformed_result")
    /\ err.text /\ err.type = "psrpc" =>
          res.code = IF err.code = OK THEN "unknown" ELSE err.code
    /\ err.text /\ err.type = "grpc" => ToGRPC(res.code) = err.code
    /\ err.text /\ err.type \notin {"psrpc", "grpc"} => res.code = "unknown"
    /\ err.text => res # Nil
    /\ \A code \in Codes \ {OK, "not_acceptable"} :
          err.type = "grpc" /\ err.text /\ err.code = ToGRPC(code) =>
              ToHTTP(res.code) = ToHTTP(code)

\* Through interceptors that only observe, the answer is the service's.
Carried ==
    ToSet(Chain) \subseteq {"metrics"} =>
        /\ spc \in {"returning", "responded"} /\ served # << >> =>
              served[1] \in Failures \cup {Nil}
        /\ spc = "returning" /\ served # << >> => answer = served[1]
        /\ cpc = "waiting" /\ spc = "responded" => response # << >>
        /\ response # << >> /\ served # << >> => Wired(response[1], served[1])
        /\ Heard /\ ctx = "live" /\ cpc \in {"up", "done"} /\ served # << >> =>
              Tells(result, served[1])

\* A metrics interceptor that is the client's first has been told nothing, or the result.
ToldOnce ==
    Outer # << >> /\ Outer[1] = "metrics" =>
        /\ level >= 1 => told[1] = << >>
        /\ level = 0 => told[1] = <<result>> /\ cpc \in {"up", "done"}

----------------------------------------------------------------------------
\* What happens to the active interceptors.

\* One is entered ...
LEMMA FramesPushed ==
    ASSUME NEW f \in Seq(Frame), NEW e \in Frame
    PROVE  LET g == Append(f, e) IN
           /\ g \in Seq(Frame) /\ g # << >> /\ Len(g) = Len(f) + 1 /\ Len(f) \in Nat
           /\ DOMAIN g = 1..(Len(f) + 1) /\ DOMAIN f = 1..Len(f)
           /\ \A d \in 1..Len(f) : g[d] = f[d]
           /\ g[Len(f) + 1] = e
  BY AppendProperties, LenProperties

\* ... left ...
LEMMA FramesPopped ==
    ASSUME NEW f \in Seq(Frame), f # << >>
    PROVE  LET g == SubSeq(f, 1, Len(f) - 1) IN
           /\ g \in Seq(Frame) /\ Len(g) = Len(f) - 1 /\ Len(f) \in Nat \ {0}
           /\ DOMAIN g = 1..(Len(f) - 1) /\ DOMAIN f = 1..Len(f)
           /\ \A d \in 1..(Len(f) - 1) : g[d] = f[d]
           /\ f[Len(f)] \in Frame
<1>1. Len(f) \in Nat \ {0} /\ DOMAIN f = 1..Len(f)
  BY EmptySeq, LenProperties
<1>2. f[Len(f)] \in Frame
  BY <1>1, ElementOfSeq
<1> QED
  BY <1>1, <1>2, SubSeqProperties

\* ... or goes on, having called its next again.
LEMMA FramesAgain ==
    ASSUME NEW f \in Seq(Frame), f # << >>
    PROVE  LET g == Append(SubSeq(f, 1, Len(f) - 1), [f[Len(f)] EXCEPT !.twice = TRUE]) IN
           /\ g \in Seq(Frame) /\ g # << >> /\ Len(g) = Len(f) /\ Len(f) \in Nat \ {0}
           /\ DOMAIN g = 1..Len(f) /\ DOMAIN f = 1..Len(f)
           /\ \A d \in 1..Len(f) : g[d].at = f[d].at
<1> DEFINE p == SubSeq(f, 1, Len(f) - 1)
           e == [f[Len(f)] EXCEPT !.twice = TRUE]
<1>1. /\ p \in Seq(Frame) /\ Len(p) = Len(f) - 1 /\ Len(f) \in Nat \ {0}
      /\ \A d \in 1..(Len(f) - 1) : p[d] = f[d]
      /\ f[Len(f)] \in Frame /\ DOMAIN f = 1..Len(f)
  BY FramesPopped
<1>2. e \in Frame /\ e.at = f[Len(f)].at
  BY <1>1 DEF Frame
<1> HIDE DEF p, e
<1>3. LET g == Append(p, e) IN
      /\ g \in Seq(Frame) /\ g # << >> /\ Len(g) = Len(p) + 1 /\ DOMAIN g = 1..(Len(p) + 1)
      /\ \A d \in 1..Len(p) : g[d] = p[d]
      /\ g[Len(p) + 1] = e
  BY <1>1, <1>2, FramesPushed
<1>4. \A d \in 1..Len(f) : Append(p, e)[d].at = f[d].at
  BY <1>1, <1>2, <1>3
<1> QED
  BY <1>1, <1>3, <1>4 DEF p, e

\* The chain does not change, and a client's step that is not Publish leaves the server
\* alone.
LEMMA ServerStays ==
    ASSUME [Next]_vars
    PROVE  /\ setup' = setup
           /\ \/ Publish \/ ServerNext
              \/ UNCHANGED <<spc, next, frames, answer, observed, served>>
  BY DEF Next, ClientNext, ServerNext, EndContext, Publish, TakeResponse, GiveUp, GoUp, Metrics,
         RetryReturns, RetryAgain, Done, Receive, Enter, Body, Handler, Return, Unwind, Crash,
         SendResponse, vars, callVars, clientVars, serverVars

\* What Enter, a return and a panic do to the frames.
LEMMA Entering ==
    ASSUME Control, Kept, Framed, Enter
    PROVE  /\ Len(frames') = Len(frames) + 1 /\ frames' # << >> /\ frames' \in Seq(Frame)
           /\ DOMAIN frames' = 1..(Len(frames) + 1) /\ DOMAIN frames = 1..Len(frames)
           /\ Len(frames) \in Nat /\ Len(Chain) \in Nat \ {0}
           /\ \A d \in 1..Len(frames) : frames'[d] = frames[d]
           /\ frames'[Len(frames) + 1].at =
                 IF next < Len(Chain) - 1 THEN next + 1 ELSE Len(Chain)
           /\ next' = IF next < Len(Chain) - 1 THEN next + 1 ELSE next
           /\ spc = "next" /\ spc' = "body"
           /\ UNCHANGED <<setup, answer, observed, served>>
<1>1. /\ next' = IF next < Len(Chain) - 1 THEN next + 1 ELSE next
      /\ frames' = Append(frames, [at |-> IF next < Len(Chain) - 1 THEN next' ELSE Len(Chain),
                                   twice |-> FALSE])
      /\ spc = "next" /\ spc' = "body" /\ UNCHANGED <<setup, answer, observed, served>>
  BY DEF Enter, callVars
<1>2. Len(Chain) \in Nat \ {0} /\ next \in Nat
  BY <1>1, LenProperties DEF Control, Kept, Framed
<1>3. PICK e : e = [at |-> IF next < Len(Chain) - 1 THEN next' ELSE Len(Chain), twice |-> FALSE]
  OBVIOUS
<1>4. e \in Frame /\ e.at = IF next < Len(Chain) - 1 THEN next + 1 ELSE Len(Chain)
  BY <1>1, <1>2, <1>3 DEF Frame
<1>5. PICK f : f = frames /\ f \in Seq(Frame) /\ frames' = Append(f, e)
  BY <1>1, <1>3 DEF Kept
<1> QED
  BY <1>1, <1>2, <1>4, <1>5, FramesPushed

Leaving == frames # << >> /\ frames' = Pop

\* A step that leaves a frame keeps those below it, and Top was the one it left.
LEMMA Left ==
    ASSUME Kept, Leaving
    PROVE  /\ Len(frames) \in Nat \ {0} /\ Len(frames') = Len(frames) - 1
           /\ frames' \in Seq(Frame) /\ Top = frames[Len(frames)] /\ Top \in Frame
           /\ DOMAIN frames' = 1..(Len(frames) - 1) /\ DOMAIN frames = 1..Len(frames)
           /\ \A d \in 1..(Len(frames) - 1) : frames'[d] = frames[d]
<1>1. PICK f : /\ f = frames /\ f \in Seq(Frame) /\ f # << >>
               /\ frames' = SubSeq(f, 1, Len(f) - 1) /\ Top = f[Len(f)]
  BY DEF Kept, Leaving, Pop, Top
<1> QED
  BY <1>1, FramesPopped

Staying == frames # << >> /\ frames' = Append(Pop, [Top EXCEPT !.twice = TRUE])

\* A frame that calls next a second time stays where it is, with a note that it did.
LEMMA Stayed ==
    ASSUME Kept, Staying
    PROVE  /\ Len(frames) \in Nat \ {0} /\ Len(frames') = Len(frames)
           /\ frames' \in Seq(Frame) /\ frames' # << >>
           /\ DOMAIN frames' = 1..Len(frames) /\ DOMAIN frames = 1..Len(frames)
           /\ \A d \in 1..Len(frames) : frames'[d].at = frames[d].at
           /\ Top = frames[Len(frames)] /\ Top' = frames'[Len(frames)]
<1>1. PICK f : /\ f = frames /\ f \in Seq(Frame) /\ f # << >> /\ Top = f[Len(f)]
               /\ frames' = Append(SubSeq(f, 1, Len(f) - 1), [f[Len(f)] EXCEPT !.twice = TRUE])
  BY DEF Kept, Staying, Pop, Top
<1>2. /\ Len(f) \in Nat \ {0} /\ Len(frames') = Len(f)
      /\ frames' \in Seq(Frame) /\ frames' # << >>
      /\ DOMAIN frames' = 1..Len(f) /\ DOMAIN f = 1..Len(f)
      /\ \A d \in 1..Len(f) : frames'[d].at = f[d].at
  BY <1>1, FramesAgain
<1> QED
  BY <1>1, <1>2 DEF Top

----------------------------------------------------------------------------
\* Types.

\* The assumptions that the proofs use.
LEMMA Assumed ==
    /\ \A s \in Setups : /\ s.base \in Seq(ClientInterceptors)
                         /\ s.own \in Seq(ClientInterceptors)
                         /\ s.chain \in Seq(ServerInterceptors)
    /\ Failures \subseteq [type : {"psrpc", "grpc", "plain"}, code : Codes, text : BOOLEAN]
    /\ \A err \in Failures : err.type = "grpc" => err.code \in GrpcCodes \ {OK}
  BY CallPathAssumption

\* What the constructors of errors make, and what goes over the wire and back.
LEMMA ErrorsMade ==
    /\ Nil \in Error /\ ~ Nil.text /\ Nil.type = "none" /\ Nil.code = OK
    /\ \A code \in Codes : /\ PsrpcError(code) \in Error /\ PsrpcError(code) # Nil
                           /\ PsrpcError(code).text /\ PsrpcError(code).code = code
    /\ Failures \subseteq Error
    /\ \A err \in Error : Wire(err) \in [code : Codes, text : BOOLEAN] /\ Wire(err).text = err.text
    /\ \A m \in [code : Codes, text : BOOLEAN] :
          FromWire(m) \in Error /\ (FromWire(m) = Nil <=> ~ m.text)
    /\ Panic \notin Error /\ ~ Panic.text
    /\ {"internal", "canceled", "unknown", "malformed_request", "malformed_result",
        "permission_denied"} \cup TimeoutCodes \subseteq Codes
<1>1. /\ Nil \in Error /\ ~ Nil.text /\ Nil.type = "none" /\ Nil.code = OK
      /\ Panic \notin Error /\ ~ Panic.text
  BY DEF Nil, Error, Panic, Codes, GrpcCodes, OK
<1>2. \A code \in Codes : /\ PsrpcError(code) \in Error /\ PsrpcError(code) # Nil
                          /\ PsrpcError(code).text /\ PsrpcError(code).code = code
  BY DEF PsrpcError, Nil, Error
<1>3. Failures \subseteq Error
  BY Assumed DEF Error
<1>4. {"internal", "canceled", "unknown", "malformed_request", "malformed_result",
       "permission_denied"} \cup TimeoutCodes \subseteq Codes /\ OK \in Codes
  BY DEF Codes, GrpcCodes, TimeoutCodes
<1>5. ASSUME NEW err \in Error
      PROVE  Wire(err) \in [code : Codes, text : BOOLEAN] /\ Wire(err).text = err.text
  <2>1. err.code \in Codes /\ err.text \in BOOLEAN
    BY DEF Error
  <2>2. ErrorCodeFromGRPC(err.code) \in Codes
    BY <1>4, <2>1 DEF ErrorCodeFromGRPC
  <2> QED
    BY <1>4, <2>1, <2>2 DEF Wire
<1>6. ASSUME NEW m \in [code : Codes, text : BOOLEAN]
      PROVE  FromWire(m) \in Error /\ (FromWire(m) = Nil <=> ~ m.text)
  BY <1>1, <1>2, <1>4 DEF FromWire, NewErrorFromResponse
<1> QED
  BY <1>1, <1>2, <1>3, <1>4, <1>5, <1>6

\* The client's steps keep the types.
LEMMA ControlOfClient ==
    ASSUME Control, ClientNext \/ EndContext \/ UNCHANGED vars
    PROVE  Control'
<1> USE DEF callVars, clientVars, serverVars
<1>0. /\ Len(Outer) \in Nat /\ \A code \in Codes : PsrpcError(code) \in Error
      /\ {"internal", "canceled", "malformed_result"} \cup TimeoutCodes \subseteq Codes
      /\ << >> \in Seq(Response) /\ << >> \in Seq(Outcome)
  BY ErrorsMade, LenProperties, EmptySeq DEF Control
<1>1. setup' = setup /\ Outer' = Outer /\ Chain' = Chain
  <2>1. setup' = setup
    BY ServerStays DEF Next
  <2> QED
    BY <2>1 DEF Outer, Chain
<1>2. CASE Publish
  <2>1. /\ level' = Len(Outer) /\ response' = << >> /\ served' = << >> /\ answer' = Nil
        /\ cpc' \in {"up", "waiting"} /\ spc' \in {"idle", "received"}
        /\ result' \in {result, PsrpcError("internal")}
    BY <1>2 DEF Publish
  <2> QED
    BY <1>0, <1>1, <2>1, ErrorsMade DEF Control, ClientState, ServerState
<1>3. CASE TakeResponse
  <2>1. /\ response # << >> /\ cpc = "waiting" /\ cpc' = "up" /\ response' = << >>
        /\ result' \in {PsrpcError("malformed_result"), FromWire(response[1].wire)}
        /\ UNCHANGED <<level, spc, answer, served>>
    BY <1>3 DEF TakeResponse, GoUp
  <2>2. response[1].wire \in [code : Codes, text : BOOLEAN]
    <3>1. response[1] \in Response
      BY <2>1, EmptySeq, ElementOfSeq DEF Control
    <3> QED
      BY <3>1 DEF Response
  <2>3. result' \in Error
    BY <1>0, <2>1, <2>2, ErrorsMade
  <2> QED
    BY <1>0, <1>1, <2>1, <2>3 DEF Control, ClientState
<1>4. CASE GiveUp
  <2>1. /\ cpc = "waiting" /\ cpc' = "up" /\ UNCHANGED <<response, level, spc, answer, served>>
        /\ \E code \in Codes : result' = PsrpcError(code)
    BY <1>0, <1>4 DEF GiveUp, GoUp
  <2> QED
    BY <1>0, <1>1, <2>1 DEF Control, ClientState
<1>5. CASE Metrics \/ RetryReturns \/ RetryAgain
  <2>1. /\ cpc = "up" /\ level > 0 /\ UNCHANGED <<spc, answer, served, response>>
        /\ \/ cpc' = "up" /\ level' = level - 1
           \/ cpc' = "down" /\ level' = level + 1
        /\ result' \in {result, PsrpcError("canceled")}
    BY <1>5 DEF Metrics, RetryReturns, RetryAgain
  <2> QED
    BY <1>0, <1>1, <2>1 DEF Control, ClientState
<1>6. CASE Done \/ EndContext \/ UNCHANGED vars
  <2>1. /\ UNCHANGED <<level, result, spc, answer, served, response>>
        /\ UNCHANGED cpc \/ (cpc = "up" /\ level = 0 /\ cpc' = "done")
    BY <1>6 DEF Done, EndContext, vars
  <2> QED
    BY <1>1, <2>1 DEF Control, ClientState
<1> QED
  BY <1>2, <1>3, <1>4, <1>5, <1>6 DEF ClientNext

\* So do the server's.
LEMMA ControlOfServer ==
    ASSUME Control, ServerNext
    PROVE  Control'
<1> USE DEF callVars, clientVars, serverVars
<1>1. /\ setup' = setup /\ Outer' = Outer /\ Chain' = Chain
      /\ UNCHANGED <<level, cpc, result>>
  BY DEF ServerNext, Receive, Enter, Body, Handler, Return, Unwind, Crash, SendResponse,
         Outer, Chain
<1>2. spc' \in ServerState
  BY DEF ServerNext, Receive, Enter, Body, Handler, Return, Unwind, Crash, SendResponse,
         NextOf, ServerState, Control
<1>3. answer' \in Error
  <2>1. answer' \in {answer, Nil} \cup Failures \cup {PsrpcError("malformed_request"),
                                  PsrpcError("permission_denied"), PsrpcError("internal")}
    <3>1. CASE Handler
      BY <3>1 DEF Handler
    <3>2. CASE ~ Handler
      BY <3>2 DEF ServerNext, Receive, Enter, Body, Return, Unwind, Crash, SendResponse
    <3> QED
      BY <3>1, <3>2
  <2>2. /\ Nil \in Error /\ Failures \subseteq Error
        /\ \A code \in {"malformed_request", "permission_denied", "internal"} :
              PsrpcError(code) \in Error
    BY ErrorsMade
  <2>3. answer \in Error
    BY DEF Control
  <2> QED
    BY <2>1, <2>2, <2>3
<1>4. served' \in Seq(Outcome)
  <2>1. served' = served \/ \E err \in Outcome : served' = <<err>>
    <3>1. CASE Handler
      BY <3>1 DEF Handler, Outcome
    <3>2. CASE ~ Handler
      BY <3>2 DEF ServerNext, Receive, Enter, Body, Return, Unwind, Crash, SendResponse
    <3> QED
      BY <3>1, <3>2
  <2>2. \A err \in Outcome : <<err>> \in Seq(Outcome)
    OBVIOUS
  <2>3. served \in Seq(Outcome)
    BY DEF Control
  <2> QED
    BY <2>1, <2>2, <2>3
<1>5. response' \in Seq(Response)
  <2>1. response' = response \/ \E m \in Response : response' = <<m>>
    <3>1. CASE SendResponse
      <4>1. PICK err \in {answer} \cup {PsrpcError("malformed_result")}, unreadable \in BOOLEAN :
               response' = <<[wire |-> Wire(err), unreadable |-> unreadable]>>
        BY <3>1 DEF SendResponse
      <4>2. Wire(err) \in [code : Codes, text : BOOLEAN]
        BY ErrorsMade DEF Control
      <4> QED
        BY <4>1, <4>2 DEF Response
    <3>2. CASE ~ SendResponse
      BY <3>2 DEF ServerNext, Receive, Enter, Body, Handler, Return, Unwind, Crash
    <3> QED
      BY <3>1, <3>2
  <2>2. \A m \in Response : <<m>> \in Seq(Response)
    OBVIOUS
  <2>3. response \in Seq(Response)
    BY DEF Control
  <2> QED
    BY <2>1, <2>2, <2>3
<1> QED
  BY <1>1, <1>2, <1>3, <1>4, <1>5 DEF Control

\* What the interceptors keep is of its type after every step.
LEMMA KeptStep ==
    ASSUME Control, Kept, Framed, [Next]_vars
    PROVE  Kept'
<1> USE DEF callVars, clientVars, serverVars
<1>0. setup' = setup /\ Outer' = Outer /\ Chain' = Chain
  <2>1. setup' = setup
    BY ServerStays
  <2> QED
    BY <2>1 DEF Outer, Chain
<1>1. next' \in Nat
  <2>1. Len(Chain) \in Nat
    BY LenProperties DEF Control
  <2>2. \/ next' = next \/ next' = 0
        \/ next < Len(Chain) - 1 /\ next' = next + 1
    BY ServerStays DEF ServerNext, Publish, Receive, Enter, Body, Handler, Return, Unwind, Crash,
           SendResponse
  <2> QED
    BY <2>1, <2>2 DEF Kept
<1>2. frames' \in Seq(Frame)
  <2>1. \/ frames' = frames \/ frames' = << >> \/ Enter \/ Leaving \/ Staying
    <3>1. CASE Body
      <4>1. frames # << >>
        BY <3>1 DEF Body, Framed
      <4> QED
        BY <3>1, <4>1 DEF Body, Leaving
    <3>2. CASE Return
      BY <3>2 DEF Return, Leaving, Staying
    <3>3. CASE Unwind
      BY <3>3 DEF Unwind, Leaving
    <3>4. CASE Receive \/ Handler \/ Crash \/ SendResponse
      BY <3>4 DEF Receive, Handler, Crash, SendResponse
    <3> QED
      BY <3>1, <3>2, <3>3, <3>4, ServerStays DEF ServerNext, Publish
  <2> QED
    BY <2>1, Entering, Left, Stayed, EmptySeq DEF Kept
<1>3. told' \in [DOMAIN Outer -> Seq(Error)]
  <2>1. told' = told \/ Metrics
    BY DEF Next, ClientNext, ServerNext, EndContext, Publish, TakeResponse, GiveUp, GoUp,
           RetryReturns, RetryAgain, Done, Receive, Enter, Body, Handler, Return, Unwind, Crash,
           SendResponse, vars
  <2>2. CASE Metrics
    <3>1. told' = [told EXCEPT ![level] = IF Len(@) < 2 THEN Append(@, result) ELSE @]
      BY <2>2 DEF Metrics
    <3>2. told \in [DOMAIN Outer -> Seq(Error)] /\ result \in Error
      BY DEF Kept, Control
    <3>3. \A q \in Seq(Error) : Append(q, result) \in Seq(Error)
      BY <3>2, AppendProperties
    <3> QED
      BY <3>1, <3>2, <3>3
  <2> QED
    BY <2>1, <2>2 DEF Kept
<1>4. observed' \in [DOMAIN Chain -> Seq(BOOLEAN)]
  <2>1. \/ observed' = observed
        \/ observed' = [i \in DOMAIN Chain |-> << >>]
        \/ \E b \in BOOLEAN : observed' = [observed EXCEPT ![Top.at] = Append(@, b)]
    <3>1. CASE Publish
      BY <3>1 DEF Publish
    <3>2. CASE Return \/ Unwind
      BY <3>2 DEF Return, Unwind, Observe
    <3>3. CASE Receive \/ Enter \/ Body \/ Handler \/ Crash \/ SendResponse
      BY <3>3 DEF Receive, Enter, Body, Handler, Crash, SendResponse
    <3> QED
      BY <3>1, <3>2, <3>3, ServerStays DEF ServerNext
  <2>2. \A q \in Seq(BOOLEAN), b \in BOOLEAN : Append(q, b) \in Seq(BOOLEAN)
    BY AppendProperties
  <2>3. observed \in [DOMAIN Chain -> Seq(BOOLEAN)]
    BY DEF Kept
  <2>4. CASE \E b \in BOOLEAN : observed' = [observed EXCEPT ![Top.at] = Append(@, b)]
    <3>1. PICK b \in BOOLEAN : observed' = [observed EXCEPT ![Top.at] = Append(@, b)]
      BY <2>4
    <3> QED
      BY <2>2, <2>3, <3>1
  <2>5. CASE observed' = observed \/ observed' = [i \in DOMAIN Chain |-> << >>]
    BY <2>3, <2>5, EmptySeq
  <2> QED
    BY <2>1, <2>4, <2>5
<1> QED
  BY <1>0, <1>1, <1>2, <1>3, <1>4 DEF Kept

----------------------------------------------------------------------------
\* The chain.

\* An interceptor refuses the request, passes it on, or returns what its next returned.
Refused ==
    /\ Chain[Top.at] = "refuse"
    /\ spc' = "returning" /\ answer' = PsrpcError("permission_denied")
Passed == spc = "body" /\ spc' = NextOf(Top) /\ UNCHANGED <<answer, served>>
Returned == spc' = "returning" /\ UNCHANGED answer /\ Observe(answer # Nil)

\* What a step does to the chain's position and frames: nothing, a new attempt, an
\* interceptor entered, one left or one that calls its next again, or a step that moves
\* only between the handler and its surroundings.
LEMMA ChainMoves ==
    ASSUME Control, Kept, Framed, [Next]_vars
    PROVE  /\ Chain' = Chain /\ Len(Chain) \in Nat
           /\ \/ UNCHANGED <<spc, next, frames, answer, observed, served>>
              \/ /\ frames' = << >> /\ next' = 0 /\ spc' \in {"idle", "received"}
                 /\ observed' = [i \in DOMAIN Chain |-> << >>] /\ served' = << >>
              \/ Enter
              \/ /\ Leaving /\ UNCHANGED <<next, served>>
                 /\ \/ spc = "body" /\ Refused /\ UNCHANGED observed
                    \/ spc = "returning" /\ Returned
                    \/ Unwind
              \/ /\ Staying /\ UNCHANGED <<next, answer, observed, served>>
                 /\ spc = "returning" /\ Chain[Top.at] = "again" /\ spc' = NextOf(Top)
              \/ UNCHANGED <<next, frames, observed>> /\ (Receive \/ Handler \/ Passed)
              \/ UNCHANGED <<next, frames, observed, answer>> /\ (Crash \/ SendResponse)
<1> USE DEF callVars, clientVars, serverVars
<1>1. Chain' = Chain /\ Len(Chain) \in Nat
  BY ServerStays, LenProperties DEF Chain, Control
<1>2. CASE Publish
  BY <1>1, <1>2 DEF Publish
<1>3. CASE Body
  <2>1. frames # << >> /\ spc = "body" /\ UNCHANGED <<next, served, observed>>
    BY <1>3 DEF Body, Framed
  <2>2. CASE Chain[Top.at] = "refuse"
    BY <1>1, <1>3, <2>1, <2>2 DEF Body, Leaving, Refused
  <2>3. CASE Chain[Top.at] # "refuse"
    BY <1>1, <1>3, <2>1, <2>3 DEF Body, Passed
  <2> QED
    BY <2>2, <2>3
<1>4. CASE Return
  <2>1. frames # << >> /\ spc = "returning" /\ UNCHANGED <<next, served, answer>>
    BY <1>4 DEF Return
  <2>2. CASE Chain[Top.at] = "again" /\ answer # Nil /\ ~Top.twice
    BY <1>1, <1>4, <2>1, <2>2 DEF Return, Staying
  <2>3. CASE ~ (Chain[Top.at] = "again" /\ answer # Nil /\ ~Top.twice)
    BY <1>1, <1>4, <2>1, <2>3 DEF Return, Leaving, Returned
  <2> QED
    BY <2>2, <2>3
<1>5. CASE Unwind
  BY <1>1, <1>5 DEF Unwind, Leaving
<1>6. CASE Receive \/ Handler \/ Crash \/ SendResponse
  BY <1>1, <1>6 DEF Receive, Handler, Crash, SendResponse
<1> QED
  BY <1>1, <1>2, <1>3, <1>4, <1>5, <1>6, ServerStays DEF ServerNext

\* Each step keeps Framed: the frames stand at positions of the chain, and next has
\* passed them.
LEMMA FramedStep ==
    ASSUME Control, Kept, Framed, [Next]_vars
    PROVE  Framed'
<1> USE DEF callVars, clientVars, serverVars
<1>0. /\ Chain' = Chain /\ Len(Chain) \in Nat /\ next \in Nat
      /\ (Len(Chain) = 0 <=> Chain = << >>)
  BY ChainMoves, EmptySeq DEF Control, Kept
<1>1. CASE UNCHANGED <<spc, next, frames, answer, observed, served>>
  BY <1>0, <1>1 DEF Framed, Top
<1>2. CASE frames' = << >> /\ next' = 0 /\ spc' \in {"idle", "received"} /\ served' = << >>
  BY <1>0, <1>2 DEF Framed
<1>3. CASE Enter
  <2>1. \A d \in DOMAIN frames' : frames'[d].at \in 1..Len(Chain)
    <3>1. ASSUME NEW d \in 1..Len(frames) PROVE frames'[d].at \in 1..Len(Chain)
      BY <1>3, <3>1, Entering DEF Framed
    <3>2. frames'[Len(frames) + 1].at \in 1..Len(Chain)
      BY <1>0, <1>3, Entering
    <3>3. \A d \in DOMAIN frames' : d \in 1..Len(frames) \/ d = Len(frames) + 1
      BY <1>3, Entering
    <3> QED
      BY <3>1, <3>2, <3>3
  <2>2. /\ next' = 0 \/ next' < Len(Chain)
        /\ spc' = "body" /\ frames' # << >> /\ Len(Chain) > 0
    BY <1>0, <1>3, Entering DEF Framed
  <2> QED
    BY <1>0, <2>1, <2>2 DEF Framed
<1>4. CASE Leaving /\ UNCHANGED next /\ (Refused \/ Returned \/ Unwind)
  <2>1. \A d \in DOMAIN frames' : frames'[d].at \in 1..Len(Chain)
    BY <1>4, Left DEF Framed
  <2>2. spc' \in {"returning", "panicking"}
    BY <1>4 DEF Refused, Returned, Unwind
  <2> QED
    BY <1>0, <1>4, <2>1, <2>2 DEF Framed
<1>5. CASE Staying /\ UNCHANGED next /\ spc' = NextOf(Top)
  <2>1. \A d \in DOMAIN frames' : frames'[d].at \in 1..Len(Chain)
    BY <1>5, Stayed DEF Framed
  <2>2. Top.at \in 1..Len(Chain) /\ Top'.at = Top.at /\ frames' # << >>
    BY <1>5, Stayed DEF Framed
  <2> QED
    BY <1>0, <1>5, <2>1, <2>2 DEF Framed, NextOf
<1>6. CASE UNCHANGED <<next, frames>> /\ (Receive \/ Handler \/ Passed)
  <2>1. Top' = Top
    BY <1>6 DEF Top
  <2>2. CASE Receive
    BY <1>0, <1>6, <2>2 DEF Framed, Receive
  <2>3. CASE Handler
    BY <1>0, <1>6, <2>3 DEF Framed, Handler
  <2>4. CASE Passed
    BY <1>0, <1>6, <2>1, <2>4 DEF Framed, Passed, NextOf
  <2> QED
    BY <1>6, <2>2, <2>3, <2>4
<1>7. CASE UNCHANGED <<next, frames>> /\ (Crash \/ SendResponse)
  BY <1>0, <1>7 DEF Framed, Crash, SendResponse
<1> QED
  BY <1>1, <1>2, <1>3, <1>4, <1>5, <1>6, <1>7, ChainMoves

\* The innermost active interceptor is one of the chain.
LEMMA TopFramed ==
    ASSUME Control, Kept, Framed, frames # << >>
    PROVE  /\ Len(frames) \in DOMAIN frames /\ Top = frames[Len(frames)]
           /\ Top.at \in 1..Len(Chain) /\ Top.at \in DOMAIN Chain
<1>1. PICK f : f = frames /\ f \in Seq(Frame) /\ f # << >>
  BY DEF Kept
<1>2. Len(f) \in DOMAIN f
  BY <1>1, FramesPopped
<1>3. DOMAIN Chain = 1..Len(Chain)
  BY LenProperties DEF Control
<1> QED
  BY <1>1, <1>2, <1>3 DEF Framed, Top

\* Without an interceptor that repeats, each step keeps Entered: the frames are the
\* chain's first positions, each entered once and in order.
LEMMA EnteredStep ==
    ASSUME Control, Kept, Framed, Entered, [Next]_vars
    PROVE  Entered'
<1> USE DEF callVars, clientVars, serverVars
<1>0. /\ Chain' = Chain /\ Len(Chain) \in Nat /\ next \in Nat
      /\ Len(Chain) = 0 <=> Chain = << >>
      /\ Len(<< >>) = 0 /\ DOMAIN << >> = {}
  BY ChainMoves, EmptySeq DEF Control, Kept
<1> SUFFICES ASSUME "again" \notin ToSet(Chain)
             PROVE  (/\ \A d \in DOMAIN frames : frames[d].at = d
                     /\ spc = "next" => next = Len(frames)
                     /\ spc = "body" /\ Top.at < Len(Chain) => next = Len(frames))'
  BY <1>0 DEF Entered
<1>1. /\ \A d \in DOMAIN frames : frames[d].at = d
      /\ spc = "next" => next = Len(frames)
      /\ spc = "body" /\ Top.at < Len(Chain) => next = Len(frames)
      /\ Chain = << >> \/ next < Len(Chain)
  BY <1>0 DEF Entered, Framed
<1>2. CASE UNCHANGED <<spc, next, frames, answer, observed, served>>
  BY <1>0, <1>1, <1>2 DEF Top
<1>3. CASE frames' = << >> /\ spc' \in {"idle", "received"}
  BY <1>0, <1>3
<1>4. CASE Enter
  <2>1. /\ spc = "next" /\ next = Len(frames) /\ spc' = "body" /\ next < Len(Chain)
        /\ Len(frames') = next + 1 /\ DOMAIN frames' = 1..(next + 1)
        /\ next' = IF next < Len(Chain) - 1 THEN next + 1 ELSE next
        /\ Top' = frames'[Len(frames')]
    BY <1>0, <1>1, <1>4, Entering DEF Top
  <2>2. frames'[next + 1].at = IF next < Len(Chain) - 1 THEN next + 1 ELSE Len(Chain)
    BY <1>4, <2>1, Entering
  <2>3. \A d \in 1..next : frames'[d].at = d
    BY <1>1, <1>4, <2>1, Entering
  <2>4. \A d \in DOMAIN frames' : frames'[d].at = d
    BY <1>0, <2>1, <2>2, <2>3
  <2> QED
    BY <1>0, <2>1, <2>2, <2>4
<1>5. CASE Leaving /\ (Refused \/ Returned \/ Unwind)
  <2>1. \A d \in DOMAIN frames' : frames'[d].at = d
    BY <1>1, <1>5, Left
  <2>2. spc' \in {"returning", "panicking"}
    BY <1>5 DEF Refused, Returned, Unwind
  <2> QED
    BY <2>1, <2>2
<1>6. CASE Staying /\ Chain[Top.at] = "again"
  <2>1. Top.at \in DOMAIN Chain
    BY <1>6, TopFramed DEF Staying
  <2>2. Chain[Top.at] \in ToSet(Chain)
    BY <2>1 DEF ToSet
  <2> QED
    BY <1>6, <2>2
<1>7. CASE UNCHANGED <<next, frames>> /\ (Receive \/ Handler \/ Passed)
  <2>1. CASE Receive
    BY <1>0, <1>1, <1>7, <2>1 DEF Receive, Framed
  <2>2. CASE Handler
    BY <1>1, <1>7, <2>2 DEF Handler
  <2>3. CASE Passed
    <3>1. Top.at \in 1..Len(Chain)
      BY <2>3, TopFramed DEF Passed, Framed
    <3> QED
      BY <1>0, <1>1, <1>7, <2>3, <3>1 DEF Passed, NextOf
  <2> QED
    BY <1>7, <2>1, <2>2, <2>3
<1>8. CASE UNCHANGED <<next, frames>> /\ (Crash \/ SendResponse)
  BY <1>1, <1>8 DEF Crash, SendResponse
<1> QED
  BY <1>2, <1>3, <1>4, <1>5, <1>6, <1>7, <1>8, ChainMoves

\* When recover is the last of the chain, each step keeps Recovered: no panic comes up
\* past it.
LEMMA RecoveredStep ==
    ASSUME Control, Kept, Framed, Recovered, [Next]_vars
    PROVE  Recovered'
<1> USE DEF callVars, clientVars, serverVars
<1>0. /\ Chain' = Chain /\ Len(Chain) \in Nat
      /\ Len(Chain) = 0 <=> Chain = << >>
  BY ChainMoves, EmptySeq DEF Control
<1> SUFFICES ASSUME Chain # << >>, Chain[Len(Chain)] = "recover"
             PROVE  (/\ spc # "crashed"
                     /\ spc = "panicking" => frames # << >> /\ Top.at = Len(Chain))'
  BY <1>0 DEF Recovered
<1>1. /\ spc # "crashed"
      /\ spc = "panicking" => frames # << >> /\ Top.at = Len(Chain)
      /\ spc = "handler" => frames # << >> /\ Top.at = Len(Chain)
  BY <1>0 DEF Recovered, Framed
<1>2. CASE UNCHANGED <<spc, frames>>
  <2>1. Top' = Top
    BY <1>2 DEF Top
  <2> QED
    BY <1>0, <1>1, <1>2, <2>1
<1>3. CASE spc' \in {"idle", "received"}
  BY <1>3
<1>4. CASE Enter
  BY <1>4 DEF Enter
<1>5. CASE Refused \/ Returned
  BY <1>5 DEF Refused, Returned
<1>6. CASE Unwind
  BY <1>1, <1>6 DEF Unwind
<1>7. CASE spc' = NextOf(Top) \/ Receive \/ Passed
  BY <1>7 DEF NextOf, Receive, Passed
<1>8. CASE Handler /\ UNCHANGED frames
  <2>1. Top' = Top
    BY <1>8 DEF Top
  <2> QED
    BY <1>0, <1>1, <1>8, <2>1 DEF Handler
<1>9. CASE Crash \/ SendResponse
  BY <1>1, <1>9 DEF Crash, SendResponse
<1> QED
  BY <1>2, <1>3, <1>4, <1>5, <1>6, <1>7, <1>8, <1>9, ChainMoves

\* When metrics is the first and recover the last, each step keeps Observed: what the
\* observer was told is how the handler ended.
LEMMA ObservedStep ==
    ASSUME Control, Kept, Framed, Recovered, Observed, [Next]_vars
    PROVE  Observed'
<1> USE DEF callVars, clientVars, serverVars
<1>0. /\ Chain' = Chain /\ Len(Chain) \in Nat /\ next \in Nat
      /\ Len(Chain) = 0 <=> Chain = << >>
      /\ DOMAIN Chain = 1..Len(Chain) /\ DOMAIN << >> = {}
  BY ChainMoves, LenProperties, EmptySeq DEF Control, Kept
<1> SUFFICES ASSUME Chain # << >>, Chain[Len(Chain)] = "recover", Chain[1] = "metrics"
             PROVE  (/\ frames # << >> => frames[1].at = 1 /\ next >= 1
                     /\ \A d \in DOMAIN frames : d > 1 => frames[d].at > 1
                     /\ spc = "next" /\ frames = << >> => next = 0
                     /\ frames # << >> \/ spc \in {"idle", "received", "next"}
                           => observed[1] = << >>
                     /\ observed[1] # << >> =>
                           observed[1] = <<answer # Nil>> /\ spc \in {"returning", "responded"})'
  BY <1>0 DEF Observed
<1>1. /\ frames # << >> => frames[1].at = 1 /\ next >= 1
      /\ \A d \in DOMAIN frames : d > 1 => frames[d].at > 1
      /\ spc = "next" /\ frames = << >> => next = 0
      /\ frames # << >> \/ spc \in {"idle", "received", "next"} => observed[1] = << >>
      /\ observed[1] # << >> =>
            observed[1] = <<answer # Nil>> /\ spc \in {"returning", "responded"}
  BY DEF Observed
<1>2. /\ Len(Chain) >= 2 /\ 1 \in DOMAIN Chain
      /\ spc # "crashed"
      /\ spc = "panicking" => frames # << >> /\ Top.at = Len(Chain)
      /\ spc \in {"body", "handler"} => frames # << >>
      /\ spc = "received" => frames = << >> /\ next = 0
  <2>1. Len(Chain) # 1
    OBVIOUS
  <2> QED
    BY <1>0, <2>1 DEF Recovered, Framed
\* The innermost is the first only where it is alone.
<1>3. ASSUME frames # << >>
      PROVE  /\ Len(frames) \in Nat \ {0}
             /\ Top.at = 1 => Len(frames) = 1
             /\ Len(frames) = 1 => Top.at = 1
  <2>1. PICK n \in Nat \ {0} : n = Len(frames)
    BY <1>3, FramesPopped DEF Kept
  <2>2. n \in DOMAIN frames /\ Top = frames[n]
    BY <1>3, <2>1, TopFramed
  <2>3. n > 1 => Top.at > 1
    BY <1>1, <2>2
  <2>4. n = 1 => Top.at = 1
    BY <1>1, <1>3, <2>2
  <2> QED
    BY <2>1, <2>3, <2>4
<1>4. CASE UNCHANGED <<spc, next, frames, answer, observed, served>>
  BY <1>1, <1>4
<1>5. CASE /\ frames' = << >> /\ next' = 0 /\ spc' \in {"idle", "received"}
           /\ observed' = [i \in DOMAIN Chain |-> << >>]
  BY <1>0, <1>2, <1>5
<1>6. CASE Enter
  <2>1. /\ spc = "next" /\ spc' = "body" /\ observed' = observed /\ frames' # << >>
        /\ Len(frames) \in Nat /\ DOMAIN frames' = 1..(Len(frames) + 1)
        /\ \A d \in 1..Len(frames) : frames'[d] = frames[d]
        /\ frames'[Len(frames) + 1].at = IF next < Len(Chain) - 1 THEN next + 1 ELSE Len(Chain)
        /\ next' = IF next < Len(Chain) - 1 THEN next + 1 ELSE next
    BY <1>6, Entering
  <2>2. CASE frames = << >>
    <3>1. next = 0 /\ Len(frames) = 0
      BY <1>1, <2>1, <2>2, EmptySeq
    <3> QED
      BY <1>0, <1>1, <1>2, <2>1, <3>1
  <2>3. CASE frames # << >>
    <3>1. Len(frames) \in Nat \ {0} /\ DOMAIN frames = 1..Len(frames)
      BY <1>3, <1>6, <2>3, Entering
    <3>2. frames'[Len(frames) + 1].at > 1 /\ next' >= 1
      BY <1>0, <1>1, <1>2, <2>1, <2>3
    <3>3. frames'[1].at = 1
      BY <1>1, <2>1, <2>3, <3>1
    <3>4. \A d \in DOMAIN frames' : d > 1 => frames'[d].at > 1
      <4>1. \A d \in DOMAIN frames' : d \in 1..Len(frames) \/ d = Len(frames) + 1
        BY <2>1
      <4> QED
        BY <1>1, <2>1, <3>1, <3>2, <4>1
    <3> QED
      BY <1>1, <2>1, <3>2, <3>3, <3>4
  <2> QED
    BY <2>2, <2>3
<1>7. CASE /\ Leaving /\ UNCHANGED next
           /\ \/ spc = "body" /\ Refused /\ UNCHANGED observed
              \/ spc = "returning" /\ Returned
              \/ Unwind
  <2>1. /\ frames # << >> /\ Len(frames) \in Nat \ {0} /\ Len(frames') = Len(frames) - 1
        /\ frames' \in Seq(Frame)
        /\ DOMAIN frames' = 1..(Len(frames) - 1) /\ DOMAIN frames = 1..Len(frames)
        /\ \A d \in 1..(Len(frames) - 1) : frames'[d] = frames[d]
    BY <1>7, Left DEF Leaving
  <2>2. frames' # << >> <=> Len(frames) # 1
    BY <2>1, EmptySeq
  <2>3. /\ frames' # << >> => frames'[1].at = 1 /\ next' >= 1
        /\ \A d \in DOMAIN frames' : d > 1 => frames'[d].at > 1
    BY <1>1, <1>7, <2>1, <2>2
  <2>4. observed[1] = << >> /\ spc' \in {"returning", "panicking"}
    BY <1>1, <1>7, <2>1 DEF Refused, Returned, Unwind
  <2>5. CASE Len(frames) # 1
    <3>1. Top.at # 1
      BY <1>3, <2>1, <2>5
    <3>2. observed'[1] = observed[1]
      <4>1. \/ observed' = observed
            \/ observed' = [observed EXCEPT ![Top.at] = Append(@, answer # Nil)]
            \/ observed' = [observed EXCEPT ![Top.at] = Append(@, FALSE)]
        BY <1>7 DEF Returned, Unwind, Observe
      <4>2. observed \in [DOMAIN Chain -> Seq(BOOLEAN)]
        BY DEF Kept
      <4> QED
        BY <1>2, <3>1, <4>1, <4>2
    <3> QED
      BY <2>2, <2>3, <2>4, <2>5, <3>2
  <2>6. CASE Len(frames) = 1
    <3>1. Top.at = 1
      BY <1>3, <2>1, <2>6
    <3>2. spc = "returning" /\ Returned
      BY <1>2, <1>7, <3>1 DEF Refused, Unwind
    <3>3. observed' = [observed EXCEPT ![1] = Append(@, answer # Nil)] /\ answer' = answer
      BY <3>1, <3>2 DEF Returned, Observe
    <3>4. observed'[1] = <<answer # Nil>>
      BY <1>2, <2>4, <3>3 DEF Kept
    <3> QED
      BY <2>2, <2>3, <2>4, <2>6, <3>2, <3>3, <3>4 DEF Returned
  <2> QED
    BY <2>5, <2>6
<1>8. CASE /\ Staying /\ UNCHANGED <<next, answer, observed, served>>
           /\ spc = "returning" /\ spc' = NextOf(Top)
  <2>1. /\ frames # << >> /\ frames' # << >> /\ Len(frames) \in Nat \ {0}
        /\ DOMAIN frames' = 1..Len(frames) /\ DOMAIN frames = 1..Len(frames)
        /\ \A d \in 1..Len(frames) : frames'[d].at = frames[d].at
    BY <1>8, Stayed DEF Staying
  <2> QED
    BY <1>1, <1>8, <2>1
<1>9. CASE UNCHANGED <<next, frames, observed>> /\ (Receive \/ Handler \/ Passed)
  <2>1. CASE Receive
    BY <1>1, <1>2, <1>9, <2>1 DEF Receive
  <2>2. CASE Handler \/ Passed
    <3>1. frames # << >>
      BY <1>2, <2>2 DEF Handler, Passed
    <3> QED
      BY <1>1, <1>9, <3>1
  <2> QED
    BY <1>9, <2>1, <2>2
<1>10. CASE UNCHANGED <<next, frames, observed, answer>> /\ (Crash \/ SendResponse)
  BY <1>1, <1>2, <1>10 DEF Crash, SendResponse
<1> QED
  BY <1>4, <1>5, <1>6, <1>7, <1>8, <1>9, <1>10, ChainMoves

\* All of it holds when the call begins ...
LEMMA ChainInit ==
    ASSUME Init
    PROVE  ChainInv
<1>1. Chain \in Seq(ServerInterceptors) /\ Outer \in Seq(ClientInterceptors)
  <2>1. PICK s \in Setups :
           setup = [bus |-> s.bus, call |-> s.call, registered |-> s.registered,
                    kind |-> s.kind, outer |-> ClientChain(s.base, s.own),
                    max |-> s.max, chain |-> s.chain]
    BY DEF Init
  <2>2. Chain = s.chain /\ Outer = s.base \o s.own
    BY <2>1 DEF Chain, Outer, ClientChain
  <2> QED
    BY <2>2, Assumed, ConcatProperties
<1>2. Len(Chain) \in Nat /\ Len(Outer) \in Nat /\ DOMAIN << >> = {} /\ Len(<< >>) = 0
  BY <1>1, LenProperties, EmptySeq
<1>3. /\ << >> \in Seq(Response) /\ << >> \in Seq(Outcome) /\ << >> \in Seq(Frame)
      /\ << >> \in Seq(Error) /\ << >> \in Seq(BOOLEAN)
  BY EmptySeq
<1>4. Control
  BY <1>1, <1>2, <1>3, ErrorsMade DEF Init, Control, ClientState, ServerState
<1>5. Kept
  BY <1>3 DEF Init, Kept
<1>6. Framed /\ Entered
  BY <1>2 DEF Init, Framed, Entered
<1>7. Recovered /\ Observed
  <2>1. \A i \in DOMAIN Chain : observed[i] = << >>
    BY DEF Init
  <2>2. Chain # << >> => 1 \in DOMAIN Chain
    BY <1>1, EmptySeq, LenProperties
  <2> QED
    BY <1>2, <2>1, <2>2 DEF Init, Recovered, Observed
<1> QED
  BY <1>4, <1>5, <1>6, <1>7 DEF ChainInv

\* ... and after every step.
LEMMA ChainStep ==
    ASSUME ChainInv, [Next]_vars
    PROVE  ChainInv'
<1> USE DEF ChainInv
<1>1. Control'
  <2>1. CASE Next
    BY <2>1, ControlOfClient, ControlOfServer DEF Next
  <2>2. CASE UNCHANGED vars
    BY <2>2, ControlOfClient
  <2> QED
    BY <2>1, <2>2
<1> QED
  BY <1>1, KeptStep, FramedStep, EnteredStep, RecoveredStep, ObservedStep

\* What the interceptors, the handler and the channel hold is of its type throughout, and
\* the active interceptors are ones of the chain.
THEOREM ChainKept == Spec => []ChainInv
<1>1. Init => ChainInv
  BY ChainInit
<1>2. ChainInv /\ [Next]_vars => ChainInv'
  BY ChainStep
<1> QED
  BY <1>1, <1>2, PTL DEF Spec

\* However the chain is made up: the last interceptor is around every run of the handler,
\* also where one outside calls its next twice and skips those between; where none does,
\* each is entered once, in order; and with the recovery last no panic ends the process and
\* the metrics before it observe what is answered.
THEOREM LastIsAround == Spec => []ChainHolds
<1>1. ChainInv => ChainHolds
  <2> SUFFICES ASSUME ChainInv PROVE ChainHolds
    OBVIOUS
  <2>1. Len(Chain) = 0 <=> Chain = << >>
    BY EmptySeq DEF ChainInv, Control
  <2>2. Last(Chain) = Chain[Len(Chain)]
    BY DEF Last
  <2> QED
    BY <2>1, <2>2 DEF ChainInv, Framed, Entered, Recovered, Observed, ChainHolds
<1> QED
  BY <1>1, ChainKept, PTL

----------------------------------------------------------------------------
\* What the caller is told.

\* What gRPC makes of a code, and the status of those that gRPC does not know.
LEMMA Translated ==
    /\ \A code \in GrpcCodes : ToGRPC(code) = code /\ ErrorCodeFromGRPC(code) = code
    /\ ToGRPC("malformed_request") = "invalid_argument"
    /\ ToGRPC("malformed_result") = "internal"
    /\ ToHTTP("malformed_request") = ToHTTP("invalid_argument")
    /\ ToHTTP("malformed_result") = ToHTTP("internal")
<1>0. DOMAIN HTTPStatus = {200, 400, 401, 403, 404, 406, 409, 412, 416, 429, 501, 503}
  BY DEF HTTPStatus
<1>1. \A code \in GrpcCodes : ToGRPC(code) = code /\ ErrorCodeFromGRPC(code) = code
  BY DEF ToGRPC, ErrorCodeFromGRPC, GrpcCodes, OK
<1>2. /\ ToGRPC("malformed_request") = "invalid_argument"
      /\ ToGRPC("malformed_result") = "internal"
  BY DEF ToGRPC, GrpcCodes, OK
<1>3. HTTPStatus[400] = {"invalid_argument", "malformed_request"} /\ 400 \in DOMAIN HTTPStatus
  BY DEF HTTPStatus
<1>4. \A status \in DOMAIN HTTPStatus :
         /\ "malformed_request" \in HTTPStatus[status] => status = 400
         /\ "invalid_argument" \in HTTPStatus[status] => status = 400
  <2>1. ASSUME NEW status \in {200, 400, 401, 403, 404, 406, 409, 412, 416, 429, 501, 503},
               status # 400
        PROVE  "malformed_request" \notin HTTPStatus[status]
    BY <2>1 DEF HTTPStatus, OK
  <2>2. ASSUME NEW status \in {200, 400, 401, 403, 404, 406, 409, 412, 416, 429, 501, 503},
               status # 400
        PROVE  "invalid_argument" \notin HTTPStatus[status]
    BY <2>2 DEF HTTPStatus, OK
  <2> QED
    BY <1>0, <2>1, <2>2
<1>5. \A status \in DOMAIN HTTPStatus :
         "malformed_result" \notin HTTPStatus[status] /\ "internal" \notin HTTPStatus[status]
  <2>1. ASSUME NEW status \in {200, 400, 401, 403, 404, 406, 409, 412, 416, 429, 501, 503}
        PROVE  "malformed_result" \notin HTTPStatus[status]
    BY DEF HTTPStatus, OK
  <2>2. ASSUME NEW status \in {200, 400, 401, 403, 404, 406, 409, 412, 416, 429, 501, 503}
        PROVE  "internal" \notin HTTPStatus[status]
    BY DEF HTTPStatus, OK
  <2> QED
    BY <1>0, <2>1, <2>2
<1>6. ToHTTP("malformed_request") = 400 /\ ToHTTP("invalid_argument") = 400
  BY <1>3, <1>4 DEF ToHTTP
<1>7. ToHTTP("malformed_result") = 500 /\ ToHTTP("internal") = 500
  BY <1>5 DEF ToHTTP
<1> QED
  BY <1>1, <1>2, <1>6, <1>7

\* What the client makes of the response to a call whose service returned err.
LEMMA Telling ==
    ASSUME NEW err \in Failures \cup {Nil}, NEW m \in Response, Wired(m, err), NEW res,
           res = IF m.unreadable THEN PsrpcError("malformed_result") ELSE FromWire(m.wire)
    PROVE  Tells(res, err)
<1>1. /\ err \in Error /\ (err = Nil => ~ err.text)
      /\ "malformed_result" \in Codes
      /\ PsrpcError("malformed_result").code = "malformed_result"
  BY ErrorsMade
<1>2. ASSUME ~ err.text
      PROVE  res = Nil \/ res = PsrpcError("malformed_result")
  <2>1. CASE m.unreadable
    BY <2>1
  <2>2. CASE ~ m.unreadable /\ m.wire = Wire(err)
    BY <1>1, <1>2, <2>2, ErrorsMade
  <2>3. CASE ~ m.unreadable /\ m.wire = Wire(PsrpcError("malformed_result"))
    <3>1. m.wire.code = "malformed_result" /\ m.wire.text
      BY <2>3 DEF Wire, PsrpcError
    <3> QED
      BY <2>3, <3>1 DEF FromWire, NewErrorFromResponse, OK
  <2> QED
    BY <2>1, <2>2, <2>3 DEF Wired
<1>3. ASSUME err.text
      PROVE  /\ res.code = IF Wire(err).code = OK THEN "unknown" ELSE Wire(err).code
             /\ res # Nil
  <2>1. ~ m.unreadable /\ m.wire = Wire(err) /\ Wire(err).text
    BY <1>1, <1>3, ErrorsMade DEF Wired
  <2>2. Wire(err) \in [code : Codes, text : BOOLEAN]
    BY <1>1, ErrorsMade
  <2>3. res # Nil
    BY <2>1, <2>2, ErrorsMade
  <2> QED
    BY <2>1, <2>3 DEF FromWire, NewErrorFromResponse, PsrpcError
<1>4. CASE ~ err.text
  BY <1>2, <1>4 DEF Tells
<1>5. CASE err.text /\ err.type # "grpc"
  <2>1. err.type \in {"psrpc", "plain"}
    BY <1>1, <1>5, Assumed
  <2>2. Wire(err).code = IF err.type = "psrpc" THEN err.code ELSE "unknown"
    BY <2>1 DEF Wire
  <2> QED
    BY <1>3, <1>5, <2>1, <2>2 DEF Tells, OK
<1>6. CASE err.text /\ err.type = "grpc"
  <2>1. err.code \in GrpcCodes /\ err.code # OK
    BY <1>1, <1>6, Assumed
  <2>2. Wire(err).code = err.code
    BY <1>6, <2>1, Translated DEF Wire
  <2>3. res.code = err.code /\ ToGRPC(res.code) = err.code
    BY <1>3, <1>6, <2>1, <2>2, Translated
  <2>4. ASSUME NEW code \in Codes \ {OK, "not_acceptable"}, err.code = ToGRPC(code)
        PROVE  ToHTTP(res.code) = ToHTTP(code)
    <3>1. code \in GrpcCodes \/ code = "malformed_request" \/ code = "malformed_result"
      BY DEF Codes
    <3> QED
      BY <2>3, <2>4, <3>1, Translated
  <2> QED
    BY <1>3, <1>6, <2>3, <2>4 DEF Tells
<1> QED
  BY <1>4, <1>5, <1>6

\* Each step keeps Successes: what the client hears of as a success was one.
LEMMA SuccessesStep ==
    ASSUME Control, Kept, Framed, Successes, [Next]_vars
    PROVE  Successes'
<1> USE DEF callVars, clientVars, serverVars
<1>1. /\ cpc = "waiting" /\ spc # "responded" => response = << >>
      /\ spc \in {"returning", "responded"} /\ ~answer.text => Succeeded
      /\ response # << >> /\ ~response[1].wire.text => Succeeded
      /\ cpc \in {"up", "done"} /\ result = Nil => Succeeded
  BY DEF Successes
<1>2. CASE Publish
  <2>1. /\ response' = << >> /\ spc' \in {"idle", "received"}
        /\ cpc' = "waiting" \/ result' = PsrpcError("internal")
    BY <1>2 DEF Publish
  <2> QED
    BY <2>1, ErrorsMade DEF Successes
<1>3. CASE TakeResponse
  <2>1. /\ response # << >> /\ response' = << >> /\ cpc' = "up"
        /\ UNCHANGED <<spc, answer, served>>
        /\ result' = IF response[1].unreadable THEN PsrpcError("malformed_result")
                     ELSE FromWire(response[1].wire)
    BY <1>3 DEF TakeResponse, GoUp
  <2>2. response[1].wire \in [code : Codes, text : BOOLEAN]
    <3>1. response[1] \in Response
      BY <2>1, EmptySeq, ElementOfSeq DEF Control
    <3> QED
      BY <3>1 DEF Response
  <2>3. result' = Nil => Succeeded
    BY <1>1, <2>1, <2>2, ErrorsMade
  <2> QED
    BY <1>1, <2>1, <2>3 DEF Successes, Succeeded
<1>4. CASE GiveUp
  <2>1. /\ cpc' = "up" /\ UNCHANGED <<spc, answer, served, response>> /\ result' # Nil
    BY <1>4, ErrorsMade DEF GiveUp, GoUp
  <2> QED
    BY <1>1, <2>1 DEF Successes, Succeeded
<1>5. CASE Metrics \/ RetryReturns \/ RetryAgain \/ Done \/ EndContext \/ UNCHANGED vars
  <2>1. /\ UNCHANGED <<spc, answer, served, response>>
        /\ \/ UNCHANGED <<cpc, result>>
           \/ cpc' \in {"down", "done"} /\ UNCHANGED result /\ cpc = "up"
           \/ result' = PsrpcError("canceled") /\ cpc' = "up"
    BY <1>5 DEF Metrics, RetryReturns, RetryAgain, Done, EndContext, vars
  <2>2. PsrpcError("canceled") # Nil
    BY ErrorsMade
  <2> QED
    BY <1>1, <2>1, <2>2 DEF Successes, Succeeded
<1>6. CASE ServerNext
  <2>1. cpc = "waiting" /\ cpc' = "waiting"
    BY <1>6 DEF ServerNext, Receive, Enter, Body, Handler, Return, Unwind, Crash, SendResponse,
           Attempted
  <2>2. CASE Handler
    <3>1. /\ response = << >> /\ response' = << >>
          /\ \/ spc' = "panicking"
             \/ \E err \in Failures \cup {Nil} :
                   spc' = "returning" /\ answer' = err /\ served' = <<err>>
      BY <1>1, <2>1, <2>2 DEF Handler
    <3>2. \A err \in Failures \cup {Nil} :
             <<err>> # << >> /\ <<err>> # <<Panic>> /\ <<err>>[1] = err
      BY ErrorsMade
    <3> QED
      BY <2>1, <3>1, <3>2 DEF Successes, Succeeded
  <2>3. CASE SendResponse
    <3>1. /\ spc = "returning" /\ spc' = "responded" /\ UNCHANGED <<answer, served>>
      BY <2>3 DEF SendResponse
    <3>2. PICK err \in {answer} \cup {PsrpcError("malformed_result")}, unreadable \in BOOLEAN :
             response' = <<[wire |-> Wire(err), unreadable |-> unreadable]>>
      BY <2>3 DEF SendResponse
    <3>3. /\ PsrpcError("malformed_result").text /\ Wire(err).text = err.text
          /\ response'[1].wire = Wire(err)
      BY <3>2, ErrorsMade DEF Control
    <3> QED
      BY <1>1, <2>1, <3>1, <3>2, <3>3 DEF Successes, Succeeded
  <2>4. CASE Receive \/ Enter \/ Body \/ Return \/ Unwind \/ Crash
    <3>1. UNCHANGED <<response, served>> /\ spc # "responded" /\ spc' # "responded"
      BY <2>4 DEF Receive, Enter, Body, Return, Unwind, Crash, NextOf
    <3>2. \/ spc' # "returning"
          \/ spc = "returning" /\ answer' = answer
          \/ \E code \in Codes : answer' = PsrpcError(code)
      <4>1. {"malformed_request", "permission_denied", "internal"} \subseteq Codes
        BY ErrorsMade
      <4> QED
        BY <2>4, <4>1 DEF Receive, Enter, Body, Return, Unwind, Crash, NextOf
    <3>3. \A code \in Codes : PsrpcError(code).text
      BY ErrorsMade
    <3> QED
      BY <1>1, <2>1, <3>1, <3>2, <3>3 DEF Successes, Succeeded
  <2> QED
    BY <1>6, <2>2, <2>3, <2>4 DEF ServerNext
<1> QED
  BY <1>2, <1>3, <1>4, <1>5, <1>6 DEF Next, ClientNext

\* Each step keeps Carried: through interceptors that only observe, what comes up the
\* chains is what the handler returned, as the conversions left it.
LEMMA CarriedStep ==
    ASSUME Control, Kept, Framed, Successes, Carried, [Next]_vars
    PROVE  Carried'
<1> USE DEF callVars, clientVars, serverVars
<1>0. Chain' = Chain
  BY ChainMoves
<1> DEFINE C1 == spc \in {"returning", "responded"} /\ served # << >> =>
                     served[1] \in Failures \cup {Nil}
           C2 == spc = "returning" /\ served # << >> => answer = served[1]
           C3 == cpc = "waiting" /\ spc = "responded" => response # << >>
           C4 == response # << >> /\ served # << >> => Wired(response[1], served[1])
           C5 == Heard /\ ctx = "live" /\ cpc \in {"up", "done"} /\ served # << >> =>
                     Tells(result, served[1])
<1> SUFFICES ASSUME ToSet(Chain) \subseteq {"metrics"}
             PROVE  (C1 /\ C2 /\ C3 /\ C4 /\ C5)'
  BY <1>0 DEF Carried
<1>1. C1 /\ C2 /\ C3 /\ C4 /\ C5
  BY DEF Carried
<1>2. frames # << >> => Chain[Top.at] = "metrics"
  <2>1. frames # << >> => Top.at \in DOMAIN Chain
    BY TopFramed
  <2> QED
    BY <2>1 DEF ToSet
<1>3. CASE Publish
  <2>1. response' = << >> /\ served' = << >> /\ spc' \in {"idle", "received"}
    BY <1>3 DEF Publish
  <2> QED
    BY <2>1
<1>4. CASE TakeResponse
  <2>1. /\ response # << >> /\ response' = << >> /\ cpc' = "up"
        /\ UNCHANGED <<spc, answer, served>>
        /\ result' = IF response[1].unreadable THEN PsrpcError("malformed_result")
                     ELSE FromWire(response[1].wire)
    BY <1>4 DEF TakeResponse, GoUp
  <2>2. response[1] \in Response
    BY <2>1, EmptySeq, ElementOfSeq DEF Control
  <2>3. ASSUME spc = "responded", served # << >>
        PROVE  Tells(result', served[1])
    <3>1. served[1] \in Failures \cup {Nil} /\ Wired(response[1], served[1])
      BY <1>1, <2>1, <2>3
    <3>2. PICK m, err, res : m = response[1] /\ err = served[1] /\ res = result'
      OBVIOUS
    <3>3. Tells(res, err)
      BY <2>1, <2>2, <3>1, <3>2, Telling
    <3> QED
      BY <3>2, <3>3
  <2>4. C5'
    BY <2>1, <2>3 DEF Heard, Tells
  <2> QED
    BY <1>1, <2>1, <2>4
<1>5. CASE GiveUp
  <2>1. /\ cpc = "waiting" /\ cpc' = "up" /\ UNCHANGED <<spc, answer, served, response>>
    BY <1>5 DEF GiveUp, GoUp
  <2>2. ~ Heard'
    BY <1>1, <2>1 DEF Heard
  <2>3. C4'
    BY <1>1, <2>1 DEF Wired
  <2> QED
    BY <1>1, <2>1, <2>2, <2>3
<1>6. CASE Metrics \/ RetryReturns \/ RetryAgain \/ Done \/ EndContext \/ UNCHANGED vars
  <2>1. /\ UNCHANGED <<spc, answer, served, response>>
        /\ \/ /\ UNCHANGED <<ctx, result>>
              /\ UNCHANGED cpc \/ (cpc = "up" /\ cpc' \in {"down", "done"})
           \/ cpc' = "up" /\ cpc = "up" /\ ctx' # "live"
           \/ UNCHANGED cpc /\ ctx' # "live"
    BY <1>6 DEF Metrics, RetryReturns, RetryAgain, Done, EndContext, vars
  <2>2. C4'
    BY <1>1, <2>1 DEF Wired
  <2>3. C5'
    BY <1>1, <2>1 DEF Heard, Tells
  <2> QED
    BY <1>1, <2>1, <2>2, <2>3
<1>7. CASE ServerNext
  <2>1. cpc = "waiting" /\ cpc' = "waiting" /\ (spc # "responded" => response = << >>)
    BY <1>7 DEF ServerNext, Receive, Enter, Body, Handler, Return, Unwind, Crash, SendResponse,
           Attempted, Successes
  <2>2. CASE Receive
    <3>1. served = << >> /\ served' = << >> /\ spc' # "responded"
      BY <2>2 DEF Receive, Framed
    <3> QED
      BY <2>1, <3>1
  <2>3. CASE Handler
    <3>1. /\ response' = << >>
          /\ \/ spc' = "panicking"
             \/ \E err \in Failures \cup {Nil} :
                   spc' = "returning" /\ answer' = err /\ served' = <<err>>
      BY <2>1, <2>3 DEF Handler
    <3>2. \A err \in Failures \cup {Nil} : <<err>>[1] = err
      OBVIOUS
    <3> QED
      BY <2>1, <3>1, <3>2
  <2>4. CASE SendResponse
    <3>1. /\ spc = "returning" /\ spc' = "responded" /\ UNCHANGED <<answer, served>>
      BY <2>4 DEF SendResponse
    <3>2. PICK err \in {answer}
                       \cup (IF answer = Nil THEN {PsrpcError("malformed_result")} ELSE {}),
               unreadable \in BOOLEAN :
             /\ unreadable => err = Nil
             /\ response' = <<[wire |-> Wire(err), unreadable |-> unreadable]>>
      BY <2>4 DEF SendResponse
    <3>3. PsrpcError("malformed_result") # Nil
      BY ErrorsMade
    <3>4. response'[1].wire = Wire(err) /\ response'[1].unreadable = unreadable /\ response' # << >>
      BY <3>2
    <3>5. C4'
      BY <1>1, <3>1, <3>2, <3>3, <3>4 DEF Wired
    <3> QED
      BY <1>1, <2>1, <3>1, <3>4, <3>5
  <2>5. CASE Enter \/ Body \/ Return \/ Unwind \/ Crash
    <3>1. UNCHANGED <<response, served>> /\ spc # "responded" /\ spc' # "responded"
      BY <2>5 DEF Enter, Body, Return, Unwind, Crash, NextOf
    <3>2. \/ spc' # "returning"
          \/ spc = "returning" /\ answer' = answer
      <4>1. CASE Body
        <5>1. frames # << >>
          BY <4>1 DEF Body, Framed
        <5> QED
          BY <1>2, <4>1, <5>1 DEF Body, NextOf
      <4>2. CASE Enter \/ Return \/ Unwind \/ Crash
        BY <1>2, <4>2 DEF Enter, Return, Unwind, Crash
      <4> QED
        BY <2>5, <4>1, <4>2
    <3> QED
      BY <1>1, <2>1, <3>1, <3>2
  <2> QED
    BY <1>7, <2>2, <2>3, <2>4, <2>5 DEF ServerNext
<1> QED
  BY <1>3, <1>4, <1>5, <1>6, <1>7 DEF Next, ClientNext

\* Each step keeps ToldOnce: the client's first interceptor, if it is a metrics one, is told
\* nothing before the result.
LEMMA ToldOnceStep ==
    ASSUME Control, Kept, ToldOnce, [Next]_vars
    PROVE  ToldOnce'
<1> USE DEF callVars, clientVars, serverVars
<1>0. Outer' = Outer /\ Len(Outer) \in Nat /\ level \in Nat
  <2>1. setup' = setup
    BY ServerStays
  <2> QED
    BY <2>1, LenProperties DEF Outer, Control
<1> SUFFICES ASSUME Outer # << >>, Outer[1] = "metrics"
             PROVE  (/\ level >= 1 => told[1] = << >>
                     /\ level = 0 => told[1] = <<result>> /\ cpc \in {"up", "done"})'
  BY <1>0 DEF ToldOnce
<1>1. /\ level >= 1 => told[1] = << >>
      /\ level = 0 => told[1] = <<result>> /\ cpc \in {"up", "done"}
      /\ cpc = "down" => level >= 1
      /\ 1 \in DOMAIN Outer /\ Len(Outer) >= 1
  <2>1. 1 \in DOMAIN Outer /\ Len(Outer) >= 1
    BY EmptySeq, LenProperties DEF Control
  <2> QED
    BY <2>1 DEF ToldOnce, Control
<1>2. CASE Publish
  BY <1>0, <1>1, <1>2 DEF Publish
<1>3. CASE TakeResponse \/ GiveUp
  BY <1>0, <1>1, <1>3 DEF TakeResponse, GiveUp, GoUp
<1>4. CASE Metrics
  <2>1. /\ told' = [told EXCEPT ![level] = IF Len(@) < 2 THEN Append(@, result) ELSE @]
        /\ level > 0 /\ level' = level - 1 /\ cpc = "up" /\ UNCHANGED <<cpc, result>>
    BY <1>4 DEF Metrics
  <2>2. told[1] = << >> /\ told \in [DOMAIN Outer -> Seq(Error)]
    BY <1>0, <1>1, <2>1 DEF Kept
  <2>3. CASE level = 1
    <3>1. told'[1] = <<result>>
      <4>1. told'[1] = IF Len(told[1]) < 2 THEN Append(told[1], result) ELSE told[1]
        BY <1>1, <2>1, <2>2, <2>3
      <4>2. Len(<< >>) < 2 /\ Append(<< >>, result) = <<result>>
        OBVIOUS
      <4> QED
        BY <2>2, <4>1, <4>2
    <3> QED
      BY <2>1, <2>3, <3>1
  <2>4. CASE level # 1
    BY <1>0, <1>1, <2>1, <2>2, <2>4
  <2> QED
    BY <2>3, <2>4
<1>5. CASE RetryReturns \/ RetryAgain
  <2>1. /\ Outer[level] = "retry" /\ level > 0 /\ told' = told
        /\ level' \in {level - 1, level + 1}
    BY <1>5 DEF RetryReturns, RetryAgain
  <2>2. level >= 2
    BY <1>0, <2>1
  <2> QED
    BY <1>0, <1>1, <2>1, <2>2
<1>6. CASE Done \/ EndContext \/ ServerNext \/ UNCHANGED vars
  <2>1. UNCHANGED <<level, told, result>> /\ (UNCHANGED cpc \/ cpc' = "done")
    BY <1>6 DEF Done, EndContext, ServerNext, Receive, Enter, Body, Handler, Return, Unwind,
           Crash, SendResponse, vars
  <2> QED
    BY <1>0, <1>1, <2>1
<1> QED
  BY <1>2, <1>3, <1>4, <1>5, <1>6 DEF Next, ClientNext

\* The caller is told of a success only when the service had one, or an error without a
\* text; of the service's error with a text by its code, and by its HTTP status where gRPC
\* was in between; and a metrics interceptor outside the retries observes once, what the
\* caller is told.
THEOREM CallerIsTold == Spec => []ToldTrue
<1> DEFINE Inv == ChainInv /\ Successes /\ Carried /\ ToldOnce
<1>1. Init => Inv
  <2> SUFFICES ASSUME Init PROVE Inv
    OBVIOUS
  <2>1. ChainInv
    BY ChainInit
  <2>2. Successes /\ Carried
    BY DEF Init, Successes, Carried, Heard
  <2>3. ToldOnce
    <3>1. Outer # << >> => 1 \in DOMAIN Outer
      BY <2>1, EmptySeq, LenProperties DEF ChainInv, Control
    <3> QED
      BY <3>1 DEF Init, ToldOnce
  <2> QED
    BY <2>1, <2>2, <2>3
<1>2. Inv /\ [Next]_vars => Inv'
  <2> SUFFICES ASSUME Inv, [Next]_vars PROVE Inv'
    OBVIOUS
  <2>1. ChainInv'
    BY ChainStep
  <2>2. Successes' /\ Carried' /\ ToldOnce'
    BY SuccessesStep, CarriedStep, ToldOnceStep DEF ChainInv
  <2> QED
    BY <2>1, <2>2
<1>3. Inv => ToldTrue
  <2> SUFFICES ASSUME Inv, cpc = "done"
               PROVE  /\ result = Nil => served # << >> /\ served # <<Panic>> /\ ~served[1].text
                      /\ Heard /\ ctx = "live" /\ ToSet(Chain) \subseteq {"metrics"}
                            /\ served # << >> =>
                            /\ Told(served[1])
                            /\ served[1].text => result # Nil
                            /\ \A code \in Codes \ {OK, "not_acceptable"} :
                                  served[1].type = "grpc" /\ served[1].text
                                        /\ served[1].code = ToGRPC(code) =>
                                      ToHTTP(result.code) = ToHTTP(code)
                      /\ Outer # << >> /\ Outer[1] = "metrics" => told[1] = <<result>>
    BY DEF ToldTrue
  <2>1. result = Nil => served # << >> /\ served # <<Panic>> /\ ~served[1].text
    BY DEF Successes, Succeeded
  <2>2. ASSUME Heard, ctx = "live", ToSet(Chain) \subseteq {"metrics"}, served # << >>
        PROVE  /\ Told(served[1])
               /\ served[1].text => result # Nil
               /\ \A code \in Codes \ {OK, "not_acceptable"} :
                     served[1].type = "grpc" /\ served[1].text
                           /\ served[1].code = ToGRPC(code) =>
                         ToHTTP(result.code) = ToHTTP(code)
    <3>1. Tells(result, served[1])
      BY <2>2 DEF Carried
    <3> QED
      BY <3>1 DEF Tells, Told
  <2>3. Outer # << >> /\ Outer[1] = "metrics" => told[1] = <<result>>
    BY DEF ChainInv, Control, ToldOnce
  <2> QED
    BY <2>1, <2>2, <2>3
<1> QED
  BY <1>1, <1>2, <1>3, PTL DEF Spec
=============================================================================
