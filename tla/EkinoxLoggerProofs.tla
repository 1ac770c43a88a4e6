------------------------- MODULE EkinoxLoggerProofs -------------------------
(***************************************************************************)
(* Proofs about EkinoxLogger, for every set of message kinds and any       *)
(* number of messages: the type invariant, and that the handlers implement *)
(* CommandService.                                                         *)
(***************************************************************************)
EXTENDS EkinoxLogger, SequenceTheorems, TLAPS

-----------------------------------------------------------------------------
(* Operators.                                                               *)

LEMMA GetStatusType ==
    ASSUME NEW s \in Statuses, NEW r \in GetReplies
    PROVE  GetStatus(s, r) \in Statuses
BY DEF GetStatus, Statuses, ServiceStates, GetReplies, DeviceStates

LEMMA PostFailedType ==
    ASSUME NEW s \in Statuses, NEW r \in PostReplies
    PROVE  PostFailed(s, r) \in Statuses
BY DEF PostFailed, Statuses, ServiceStates

LEMMA StateType ==
    ASSUME NEW s \in Statuses, NEW x \in ServiceStates
    PROVE  [s EXCEPT !.state = x] \in Statuses
BY DEF Statuses

LEMMA PublishType ==
    ASSUME TypeOK, NEW s \in Statuses, SetAndPublish(s)
    PROVE  status' \in Statuses /\ published' \in Statuses
BY DEF SetAndPublish, TypeOK

\* The queue as the clients see it: what drain_commands holds, then the rest.
LEMMA TakeFromQueue ==
    ASSUME NEW p \in Seq(Commands), NEW l \in Seq(Commands), l # << >>
    PROVE  /\ l \o p # << >>
           /\ Head(l \o p) = Head(l)
           /\ Tail(l \o p) = Tail(l) \o p
<1>1. l \o p \in Seq(Commands) /\ Len(l \o p) = Len(l) + Len(p)
  BY ConcatProperties
<1>2. Len(l) \in Nat \ {0} /\ Len(p) \in Nat
  BY EmptySeq, LenProperties
<1>3. Tail(l) \in Seq(Commands) /\ Len(Tail(l)) = Len(l) - 1
  BY HeadTailProperties
<1>4. l \o p # << >>
  BY <1>1, <1>2
<1>5. Head(l \o p) = Head(l)
  BY <1>1, <1>2, <1>4
<1>6. Tail(l \o p) = Tail(l) \o p
  BY <1>1, <1>2, <1>3, <1>4
<1> QED BY <1>4, <1>5, <1>6

LEMMA AppendToQueue ==
    ASSUME NEW p \in Seq(Commands), NEW l \in Seq(Commands), NEW c \in Commands
    PROVE  l \o Append(p, c) = Append(l \o p, c)
OBVIOUS

-----------------------------------------------------------------------------
(* Type correctness.                                                        *)

LEMMA InitType == Init => TypeOK
<1> SUFFICES ASSUME Init PROVE TypeOK
  OBVIOUS
<1>1. ack \in Acks
  BY KindsAssumption, ArrivalsAssumption DEF Init, Acks, NoAck
<1>2. << >> \in Seq(Commands)
  OBVIOUS
<1>3. status \in Statuses /\ published \in Statuses
  BY DEF Init, Statuses, ServiceStates
<1>4. device \in DeviceStates /\ seen \in SUBSET DeviceStates
  BY DEF Init
<1>5. arrived \in 0..MaxArrivals
  BY ArrivalsAssumption DEF Init
<1>6. pc \in Pcs
  BY DEF Init, Pcs, LoopPcs
<1>7. /\ connected \in BOOLEAN /\ confirmed \in BOOLEAN
      /\ stop \in BOOLEAN /\ flagless \in BOOLEAN
  BY DEF Init
<1>8. pending \in Seq(Commands) /\ local \in Seq(Commands) /\ current \in Seq(Commands)
  BY <1>2 DEF Init
<1> QED BY <1>1, <1>3, <1>4, <1>5, <1>6, <1>7, <1>8 DEF TypeOK

\* The parts of a step of the main thread.
LEMMA AckType ==
    ASSUME TypeOK, current # << >>, NEW ok \in BOOLEAN,
           Ack(ok)
    PROVE  ack' \in Acks /\ current' \in Seq(Commands) /\ pc' \in Pcs
<1>1. Head(current) \in Commands
  BY HeadTailProperties DEF TypeOK
<1>2. Head(current).n \in 0..MaxArrivals /\ Head(current).kind \in Kinds
  BY <1>1, ArrivalsAssumption DEF Commands
<1>3. connected \in BOOLEAN
  BY DEF TypeOK
<1>4. ack' \in Acks
  BY <1>2, <1>3 DEF Ack, Acks
<1>5. current' \in Seq(Commands)
  BY DEF Ack
<1>6. pc' \in Pcs
  BY DEF Ack, Pcs, LoopPcs
<1> QED BY <1>4, <1>5, <1>6

LEMMA ProceedType ==
    ASSUME TypeOK, NEW next \in Pcs, Proceed(next)
    PROVE  ack' \in Acks /\ current' \in Seq(Commands) /\ pc' \in Pcs
BY DEF Proceed, TypeOK

LEMMA OthersType ==
    ASSUME TypeOK, Others
    PROVE  /\ device' \in DeviceStates /\ connected' \in BOOLEAN
           /\ arrived' \in 0..MaxArrivals /\ stop' \in BOOLEAN
           /\ seen' \in SUBSET DeviceStates
BY DEF Others, TypeOK

LEMMA QueuesType ==
    ASSUME TypeOK, Queues
    PROVE  pending' \in Seq(Commands) /\ local' \in Seq(Commands)
BY DEF Queues, TypeOK

-----------------------------------------------------------------------------
(* Type correctness goes together with Shape: an acknowledgment reads the   *)
(* message the handler is working on.                                       *)

TypedShape == TypeOK /\ Shape

\* What every step of a handler does: it works on status_, then acknowledges or
\* goes on to its next REST call.
HandlerMove ==
    /\ pc \in HandlerPcs
    /\ Others /\ Queues
    /\ status' \in Statuses /\ published' \in Statuses
    /\ confirmed' \in BOOLEAN /\ flagless' \in BOOLEAN
    /\ \/ \E ok \in BOOLEAN : Ack(ok)
       \/ \E next \in HandlerPcs : Proceed(next)

LEMMA PreciseHandlerPcs ==
    /\ HandlerPcs \subseteq Pcs
    /\ LoopPcs \cap HandlerPcs = {}
    /\ "drain" \notin HandlerPcs
BY DEF Pcs, HandlerPcs, LoopPcs

LEMMA HandlerMoveKeepsTypedShape ==
    ASSUME TypedShape, HandlerMove
    PROVE  TypedShape'
<1>1. TypeOK /\ Shape /\ current # << >>
  BY DEF TypedShape, Shape, HandlerMove
<1>2. /\ device' \in DeviceStates /\ connected' \in BOOLEAN
      /\ arrived' \in 0..MaxArrivals /\ stop' \in BOOLEAN
      /\ seen' \in SUBSET DeviceStates
  BY <1>1, OthersType DEF HandlerMove
<1>3. pending' \in Seq(Commands) /\ local' \in Seq(Commands)
  BY <1>1, QueuesType DEF HandlerMove
<1>4. CASE \E ok \in BOOLEAN : Ack(ok)
  <2>1. PICK ok \in BOOLEAN : Ack(ok)
    BY <1>4
  <2>2. ack' \in Acks /\ current' \in Seq(Commands) /\ pc' \in Pcs
    BY <1>1, <2>1, AckType
  <2>3. current' = << >> /\ pc' = "drain"
    BY <2>1 DEF Ack
  <2>4. Shape'
    BY <2>3, PreciseHandlerPcs DEF Shape
  <2> QED BY <1>2, <1>3, <2>2, <2>4 DEF TypedShape, TypeOK, HandlerMove
<1>5. CASE \E next \in HandlerPcs : Proceed(next)
  <2>1. PICK next \in HandlerPcs : Proceed(next)
    BY <1>5
  <2>2. ack' \in Acks /\ current' \in Seq(Commands) /\ pc' \in Pcs
    BY <1>1, <2>1, ProceedType, PreciseHandlerPcs
  <2>3. Shape'
    BY <1>1, <2>1 DEF Shape, Proceed
  <2> QED BY <1>2, <1>3, <2>2, <2>3 DEF TypedShape, TypeOK, HandlerMove
<1> QED BY <1>4, <1>5 DEF HandlerMove

LEMMA GetHandlerMove ==
    ASSUME TypedShape, NEW r \in GetReplies,
           \/ StartPrecheck(r) \/ StartConflict(r)
           \/ StartVerifyNow(r) \/ StartVerifyLater(r)
           \/ StopPrecheck(r) \/ StopPostError(r)
           \/ StopVerifyNow(r) \/ StopVerifyLater(r) \/ LoggerStatus(r)
    PROVE  HandlerMove
<1> DEFINE s == GetStatus(status, r)
<1>1. TypeOK /\ status \in Statuses /\ published \in Statuses /\ confirmed \in BOOLEAN
  BY DEF TypedShape, TypeOK
<1>2. s \in Statuses
  BY <1>1, GetStatusType
<1>3. /\ [s EXCEPT !.state = "STARTING"] \in Statuses
      /\ [s EXCEPT !.state = "STOPPING"] \in Statuses
  BY <1>2, StateType DEF ServiceStates
<1>4. PostFailed(s, "internal") \in Statuses
  BY <1>2, PostFailedType DEF PostReplies
<1> HIDE DEF s
<1>5. (r = "noflag") \in BOOLEAN /\ (r = "recording") \in BOOLEAN /\ (r = "idle") \in BOOLEAN
      /\ (r \notin {"notfound", "error"}) \in BOOLEAN
  OBVIOUS
<1>6. (confirmed \/ r = "recording") \in BOOLEAN /\ (confirmed \/ r = "idle") \in BOOLEAN
  BY <1>1
<1>7. CASE StartPrecheck(r)
  BY <1>1, <1>2, <1>3, <1>5, <1>7, PublishType
     DEF StartPrecheck, HandlerMove, Get, HandlerPcs, s
<1>8. CASE StartConflict(r)
  BY <1>1, <1>2, <1>5, <1>8, PublishType
     DEF StartConflict, HandlerMove, Get, HandlerPcs, s
<1>9. CASE StartVerifyNow(r)
  BY <1>1, <1>2, <1>5, <1>9 DEF StartVerifyNow, HandlerMove, Get, HandlerPcs, s
<1>10. CASE StartVerifyLater(r)
  BY <1>1, <1>2, <1>5, <1>6, <1>10, PublishType
     DEF StartVerifyLater, HandlerMove, Get, HandlerPcs, s
<1>11. CASE StopPrecheck(r)
  BY <1>1, <1>2, <1>3, <1>5, <1>11, PublishType
     DEF StopPrecheck, HandlerMove, Get, HandlerPcs, s
<1>12. CASE StopPostError(r)
  BY <1>1, <1>2, <1>4, <1>5, <1>12, PublishType
     DEF StopPostError, HandlerMove, Get, HandlerPcs, s
<1>13. CASE StopVerifyNow(r)
  BY <1>1, <1>2, <1>5, <1>13 DEF StopVerifyNow, HandlerMove, Get, HandlerPcs, s
<1>14. CASE StopVerifyLater(r)
  BY <1>1, <1>2, <1>5, <1>6, <1>14, PublishType
     DEF StopVerifyLater, HandlerMove, Get, HandlerPcs, s
<1>15. CASE LoggerStatus(r)
  BY <1>1, <1>2, <1>5, <1>15, PublishType
     DEF LoggerStatus, HandlerMove, Get, HandlerPcs, s
<1> QED BY <1>7, <1>8, <1>9, <1>10, <1>11, <1>12, <1>13, <1>14, <1>15

LEMMA PostHandlerMove ==
    ASSUME TypedShape, NEW r \in PostReplies, StartPost(r) \/ StopPost(r)
    PROVE  HandlerMove
<1>1. /\ TypeOK /\ status \in Statuses /\ published \in Statuses
      /\ confirmed \in BOOLEAN /\ flagless \in BOOLEAN
  BY DEF TypedShape, TypeOK
<1>2. PostFailed(status, r) \in Statuses
  BY <1>1, PostFailedType
<1>3. CASE StartPost(r)
  <2>1. CASE r = "ok"
    BY <1>1, <1>3, <2>1 DEF StartPost, HandlerMove, HandlerPcs
  <2>2. CASE r = "conflict"
    BY <1>1, <1>3, <2>2 DEF StartPost, HandlerMove, HandlerPcs
  <2>3. CASE r \notin {"ok", "conflict"}
    BY <1>1, <1>2, <1>3, <2>3, PublishType DEF StartPost, HandlerMove, HandlerPcs
  <2> QED BY <2>1, <2>2, <2>3
<1>4. CASE StopPost(r)
  <2>1. CASE r = "ok"
    BY <1>1, <1>4, <2>1 DEF StopPost, HandlerMove, HandlerPcs
  <2>2. CASE r \in {"conflict", "internal"}
    BY <1>1, <1>4, <2>2 DEF StopPost, HandlerMove, HandlerPcs
  <2>3. CASE r \notin {"ok", "conflict", "internal"}
    BY <1>1, <1>2, <1>4, <2>3, PublishType DEF StopPost, HandlerMove, HandlerPcs
  <2> QED BY <2>1, <2>2, <2>3
<1> QED BY <1>3, <1>4

LEMMA DispatchHandlerMove ==
    ASSUME TypedShape, DispatchAtOnce \/ DispatchLogger
    PROVE  HandlerMove
<1>1. /\ status \in Statuses /\ published \in Statuses
      /\ confirmed \in BOOLEAN /\ flagless \in BOOLEAN
  BY DEF TypedShape, TypeOK
<1>2. CASE DispatchAtOnce
  BY <1>1, <1>2 DEF DispatchAtOnce, HandlerMove, HandlerPcs
<1>3. CASE DispatchLogger
  BY <1>1, <1>3 DEF DispatchLogger, HandlerMove, HandlerPcs
<1> QED BY <1>2, <1>3

LEMMA LoopKeepsTypedShape ==
    ASSUME TypedShape, Loop
    PROVE  TypedShape'
<1>1. /\ TypeOK /\ Shape
      /\ status \in Statuses /\ published \in Statuses /\ connected \in BOOLEAN
      /\ confirmed \in BOOLEAN /\ flagless \in BOOLEAN
      /\ pending \in Seq(Commands) /\ local \in Seq(Commands)
  BY DEF TypedShape, TypeOK
<1>2. << >> \in Seq(Commands)
  OBVIOUS
<1> USE <1>1 DEF TypedShape
<1>3. CASE Connect
  <2>1. status' \in Statuses /\ published' \in Statuses
    BY <1>3 DEF Connect, Statuses, ServiceStates
  <2> QED BY <1>3, <2>1 DEF Connect, TypeOK, Shape, Pcs, LoopPcs, HandlerPcs
<1>4. CASE ConnectFails
  <2>1. status' \in Statuses
    BY <1>4, StateType DEF ConnectFails, ServiceStates
  <2> QED BY <1>4, <2>1 DEF ConnectFails, TypeOK, Shape, Pcs, LoopPcs, HandlerPcs
<1>5. CASE Drain
  BY <1>2, <1>5 DEF Drain, Proceed, Others, TypeOK, Shape, Pcs, LoopPcs, HandlerPcs
<1>6. CASE DrainDone
  BY <1>6 DEF DrainDone, Proceed, Others, Queues, TypeOK, Shape, Pcs, LoopPcs, HandlerPcs
<1>7. CASE Shutdown
  <2>1. status' \in Statuses /\ published' \in Statuses
    BY <1>7, PublishType DEF Shutdown
  <2>2. pc = "top" /\ pc' \in {"shutdown", "stopped_offline"}
    BY <1>7 DEF Shutdown, Proceed
  <2> QED BY <1>7, <2>1, <2>2
          DEF Shutdown, Proceed, Others, Queues, TypeOK, Shape, Pcs, LoopPcs, HandlerPcs
<1>8. CASE Disconnect
  <2>1. status' \in Statuses
    BY <1>8, StateType DEF Disconnect, ServiceStates
  <2>2. pc = "shutdown" /\ pc' \in {"stopped", "stopped_offline"}
    BY <1>8 DEF Disconnect
  <2> QED BY <1>8, <2>1, <2>2 DEF Disconnect, TypeOK, Shape, Pcs, LoopPcs, HandlerPcs
<1>9. ASSUME NEW r \in GetReplies, Selftest(r)
      PROVE  TypedShape'
  <2>1. GetStatus(status, r) \in Statuses
    BY GetStatusType
  <2>2. status' \in Statuses /\ published' \in Statuses
    BY <1>9, <2>1, PublishType DEF Selftest
  <2> QED BY <1>9, <2>2
          DEF Selftest, Get, Proceed, Others, Queues, TypeOK, Shape, Pcs, LoopPcs, HandlerPcs
<1>10. ASSUME NEW r \in GetReplies, NEW poll \in BOOLEAN, NEW publish \in BOOLEAN,
              LoopTail(r, poll, publish)
       PROVE  TypedShape'
  <2>1. GetStatus(status, r) \in Statuses
    BY GetStatusType
  <2>2. status' \in Statuses /\ published' \in Statuses /\ flagless' \in BOOLEAN
    BY <1>10, <2>1 DEF LoopTail, Get
  <2> QED BY <1>10, <2>2
          DEF LoopTail, Proceed, Others, Queues, TypeOK, Shape, Pcs, LoopPcs, HandlerPcs
<1> QED BY <1>3, <1>4, <1>5, <1>6, <1>7, <1>8, <1>9, <1>10 DEF Loop

LEMMA TakeKeepsTypedShape ==
    ASSUME TypedShape, Take
    PROVE  TypedShape'
<1>1. TypeOK /\ Shape
  BY DEF TypedShape
<1>2. Head(local) \in Commands /\ Tail(local) \in Seq(Commands)
  BY <1>1, HeadTailProperties DEF Take, TypeOK
<1>3. current' = <<Head(local)>> /\ local' = Tail(local) /\ pc' = "dispatch"
  BY DEF Take
<1>4. current' \in Seq(Commands) /\ current' # << >>
  BY <1>2, <1>3
<1>5. Shape'
  BY <1>2, <1>3, <1>4 DEF Shape, HandlerPcs
<1>6. TypeOK'
  BY <1>1, <1>2, <1>3, <1>4 DEF Take, TypeOK, Pcs, HandlerPcs
<1> QED BY <1>5, <1>6 DEF TypedShape

LEMMA EnvironmentKeepsTypedShape ==
    ASSUME TypedShape,
           (\E kind \in Kinds : Arrive(kind)) \/ LoseConnection \/ DeviceStep \/ Signal
    PROVE  TypedShape'
<1>1. TypeOK /\ Shape
  BY DEF TypedShape
<1>2. MainUnchanged /\ Shape'
  BY <1>1 DEF Arrive, LoseConnection, DeviceStep, Signal, MainUnchanged, Shape
<1>3. ASSUME NEW kind \in Kinds, Arrive(kind)
      PROVE  TypeOK'
  <2>1. arrived \in 0..MaxArrivals /\ arrived + 1 \in 1..MaxArrivals
    BY <1>1, <1>3, ArrivalsAssumption DEF Arrive, TypeOK
  <2>2. [n |-> arrived + 1, kind |-> kind] \in Commands
    BY <2>1 DEF Commands
  <2>3. pending' \in Seq(Commands)
    BY <1>1, <1>3, <2>2, AppendProperties DEF Arrive, TypeOK
  <2> QED BY <1>1, <1>2, <1>3, <2>1, <2>3, ArrivalsAssumption
          DEF Arrive, MainUnchanged, TypeOK
<1>4. CASE LoseConnection
  <2>1. status' \in Statuses
    BY <1>1, <1>4, StateType DEF LoseConnection, TypeOK, ServiceStates
  <2> QED BY <1>1, <1>2, <1>4, <2>1 DEF LoseConnection, MainUnchanged, TypeOK, TypedShape
<1>5. CASE DeviceStep
  <2>1. device' \in DeviceStates /\ seen' \in SUBSET DeviceStates
    BY <1>1, <1>5 DEF DeviceStep, TypeOK
  <2> QED BY <1>1, <1>2, <1>5, <2>1 DEF DeviceStep, MainUnchanged, TypeOK, TypedShape
<1>6. CASE Signal
  BY <1>1, <1>2, <1>6 DEF Signal, MainUnchanged, TypeOK, TypedShape
<1> QED BY <1>2, <1>3, <1>4, <1>5, <1>6 DEF TypedShape

LEMMA StepKeepsTypedShape ==
    ASSUME TypedShape, [Next]_vars
    PROVE  TypedShape'
<1>1. CASE Loop
  BY <1>1, LoopKeepsTypedShape
<1>2. CASE Command
  <2>1. CASE Take
    BY <2>1, TakeKeepsTypedShape
  <2>2. CASE DispatchAtOnce \/ DispatchLogger
    BY <2>2, DispatchHandlerMove, HandlerMoveKeepsTypedShape
  <2>3. CASE StartStep \/ StopStep \/ \E r \in GetReplies : LoggerStatus(r)
    BY <2>3, GetHandlerMove, PostHandlerMove, HandlerMoveKeepsTypedShape
       DEF StartStep, StopStep
  <2> QED BY <1>2, <2>1, <2>2, <2>3 DEF Command
<1>3. CASE (\E kind \in Kinds : Arrive(kind)) \/ LoseConnection \/ DeviceStep \/ Signal
  BY <1>3, EnvironmentKeepsTypedShape
<1>4. CASE UNCHANGED vars
  BY <1>4 DEF vars, TypedShape, TypeOK, Shape
<1> QED BY <1>1, <1>2, <1>3, <1>4 DEF Next, Main, Ended

\* The variables keep their types, for every number of messages.
THEOREM TypeCorrect == Spec => []TypeOK
<1>1. Init => TypedShape
  BY InitType DEF Init, TypedShape, Shape, HandlerPcs
<1>2. TypedShape /\ [Next]_vars => TypedShape'
  BY StepKeepsTypedShape
<1>3. TypedShape => TypeOK
  BY DEF TypedShape
<1> QED BY <1>1, <1>2, <1>3, PTL DEF Spec

-----------------------------------------------------------------------------
(* The evidence a handler holds.                                            *)

IInv == TypedShape /\ Evidence

LEMMA AckKeepsEvidence ==
    ASSUME NEW ok, Ack(ok)
    PROVE  Evidence'
BY DEF Ack, Evidence, StartPcs, StopPcs, HandlerPcs

LEMMA LoopLeavesHandlers ==
    ASSUME Loop
    PROVE  pc' \in Pcs \ HandlerPcs
BY DEF Loop, Connect, ConnectFails, Drain, DrainDone, Shutdown, Disconnect,
       Selftest, LoopTail, Proceed, Pcs, LoopPcs, HandlerPcs

LEMMA StartKeepsEvidence ==
    ASSUME IInv, StartStep
    PROVE  Evidence'
<1> USE DEF IInv, Evidence, Proceed, Others, StartPcs, StopPcs, HandlerPcs
<1>1. ASSUME NEW r \in GetReplies, StartPrecheck(r)
      PROVE  Evidence'
  <2>1. CASE r = "recording"
    BY <1>1, <2>1, AckKeepsEvidence DEF StartPrecheck
  <2>2. CASE r # "recording"
    BY <1>1, <2>2 DEF StartPrecheck
  <2> QED BY <2>1, <2>2
<1>2. ASSUME NEW r \in PostReplies, StartPost(r)
      PROVE  Evidence'
  <2>1. CASE r = "ok"
    BY <1>2, <2>1 DEF StartPost
  <2>2. CASE r = "conflict"
    BY <1>2, <2>2 DEF StartPost, PostTruthful
  <2>3. CASE r \notin {"ok", "conflict"}
    BY <1>2, <2>3, AckKeepsEvidence DEF StartPost
  <2> QED BY <2>1, <2>2, <2>3
<1>3. ASSUME NEW r \in GetReplies, StartConflict(r)
      PROVE  Evidence'
  BY <1>3, AckKeepsEvidence DEF StartConflict
<1>4. ASSUME NEW r \in GetReplies, StartVerifyNow(r)
      PROVE  Evidence'
  <2>1. confirmed' => r = "recording"
    BY <1>4 DEF StartVerifyNow
  <2>2. r = "recording" => "recording" \in seen
    BY <1>4 DEF StartVerifyNow, Get, Truthful, DeviceStates
  <2> QED BY <1>4, <2>1, <2>2 DEF StartVerifyNow
<1>5. ASSUME NEW r \in GetReplies, StartVerifyLater(r)
      PROVE  Evidence'
  BY <1>5, AckKeepsEvidence DEF StartVerifyLater
<1> QED BY <1>1, <1>2, <1>3, <1>4, <1>5 DEF StartStep

LEMMA StopKeepsEvidence ==
    ASSUME IInv, StopStep
    PROVE  Evidence'
<1> USE DEF IInv, Evidence, Proceed, Others, StartPcs, StopPcs, HandlerPcs
<1>1. ASSUME NEW r \in GetReplies, StopPrecheck(r)
      PROVE  Evidence'
  <2>1. CASE r = "idle"
    BY <1>1, <2>1, AckKeepsEvidence DEF StopPrecheck
  <2>2. CASE r # "idle"
    BY <1>1, <2>2 DEF StopPrecheck
  <2> QED BY <2>1, <2>2
<1>2. ASSUME NEW r \in PostReplies, StopPost(r)
      PROVE  Evidence'
  <2>1. CASE r = "ok"
    BY <1>2, <2>1 DEF StopPost
  <2>2. CASE r \in {"conflict", "internal"}
    BY <1>2, <2>2 DEF StopPost
  <2>3. CASE r \notin {"ok", "conflict", "internal"}
    BY <1>2, <2>3, AckKeepsEvidence DEF StopPost
  <2> QED BY <2>1, <2>2, <2>3
<1>3. ASSUME NEW r \in GetReplies, StopPostError(r)
      PROVE  Evidence'
  BY <1>3, AckKeepsEvidence DEF StopPostError
<1>4. ASSUME NEW r \in GetReplies, StopVerifyNow(r)
      PROVE  Evidence'
  <2>1. confirmed' => r = "idle"
    BY <1>4 DEF StopVerifyNow
  <2>2. r = "idle" => "idle" \in seen
    BY <1>4 DEF StopVerifyNow, Get, Truthful, DeviceStates
  <2> QED BY <1>4, <2>1, <2>2 DEF StopVerifyNow
<1>5. ASSUME NEW r \in GetReplies, StopVerifyLater(r)
      PROVE  Evidence'
  BY <1>5, AckKeepsEvidence DEF StopVerifyLater
<1> QED BY <1>1, <1>2, <1>3, <1>4, <1>5 DEF StopStep

LEMMA CommandKeepsEvidence ==
    ASSUME IInv, Command
    PROVE  Evidence'
<1>1. CASE Take
  BY <1>1 DEF Take, Evidence, StartPcs, StopPcs
<1>2. CASE DispatchAtOnce
  BY <1>2, AckKeepsEvidence DEF DispatchAtOnce
<1>3. CASE DispatchLogger
  BY <1>3 DEF DispatchLogger, IInv, Evidence, Proceed, Others, StartPcs, StopPcs, HandlerPcs
<1>4. CASE StartStep \/ StopStep
  BY <1>4, StartKeepsEvidence, StopKeepsEvidence
<1>5. ASSUME NEW r \in GetReplies, LoggerStatus(r)
      PROVE  Evidence'
  BY <1>5, AckKeepsEvidence DEF LoggerStatus
<1> QED BY <1>1, <1>2, <1>3, <1>4, <1>5 DEF Command

LEMMA StepKeepsEvidence ==
    ASSUME IInv, [Next]_vars
    PROVE  Evidence'
<1>1. CASE Loop
  <2>1. pc' \notin HandlerPcs
    BY <1>1, LoopLeavesHandlers
  <2> QED BY <2>1 DEF Evidence, StartPcs, StopPcs, HandlerPcs
<1>2. CASE Command
  BY <1>2, CommandKeepsEvidence
<1>3. CASE (\E kind \in Kinds : Arrive(kind)) \/ LoseConnection \/ Signal
  <2>1. UNCHANGED <<pc, current, device, seen, confirmed>>
    BY <1>3 DEF Arrive, LoseConnection, Signal, MainUnchanged
  <2> QED BY <2>1 DEF IInv, Evidence
<1>4. CASE DeviceStep
  <2>1. pc \in HandlerPcs => seen' = seen \cup {device'}
    BY <1>4 DEF DeviceStep, IInv, TypedShape, Shape
  <2>2. pc' = pc /\ current' = current /\ confirmed' = confirmed
    BY <1>4 DEF DeviceStep, MainUnchanged
  <2>3. StartPcs \cup StopPcs \cup {"status.get"} \subseteq HandlerPcs
    BY DEF StartPcs, StopPcs, HandlerPcs
  <2> QED BY <2>1, <2>2, <2>3 DEF IInv, Evidence, StartPcs, StopPcs
<1>5. CASE UNCHANGED vars
  BY <1>5 DEF vars, IInv, Evidence
<1> QED BY <1>1, <1>2, <1>3, <1>4, <1>5 DEF Next, Main, Ended

LEMMA InvariantHolds == Spec => []IInv
<1>1. Init => IInv
  BY InitType DEF Init, IInv, TypedShape, Shape, Evidence, StartPcs, StopPcs, HandlerPcs
<1>2. IInv /\ [Next]_vars => IInv'
  BY StepKeepsTypedShape, StepKeepsEvidence DEF IInv
<1> QED BY <1>1, <1>2, PTL DEF Spec

-----------------------------------------------------------------------------
(* The refinement of CommandService.                                        *)

\* A loop step, and a handler step that does not acknowledge, is a stutter.
LEMMA ProceedStutters ==
    ASSUME NEW next, Proceed(next), Others, Queues
    PROVE  UNCHANGED Service!vars
BY DEF Proceed, Others, Queues, Service!vars

\* An acknowledgment that the evidence justifies is the answer.
LEMMA AckAnswers ==
    ASSUME NEW ok \in BOOLEAN, Ack(ok), Others, Queues,
           current # << >>, Service!Justified(Head(current).kind, ok)
    PROVE  Service!Next
<1>1. [n |-> ack.n, kind |-> ack.kind, ok |-> ack.ok]'
      = [n |-> Head(current).n, kind |-> Head(current).kind, ok |-> ok]
  BY DEF Ack
<1>2. UNCHANGED <<device, local \o pending, seen, arrived>> /\ current' = << >>
  BY DEF Ack, Others, Queues
<1>3. Service!Answer(ok)
  BY <1>1, <1>2 DEF Service!Answer
<1> QED BY <1>3 DEF Service!Next

LEMMA LoopRefines ==
    ASSUME IInv, Loop
    PROVE  UNCHANGED Service!vars
<1>1. TypeOK /\ Shape
  BY DEF IInv, TypedShape
<1>2. CASE Connect \/ ConnectFails \/ Disconnect
  BY <1>2 DEF Connect, ConnectFails, Disconnect, Service!vars
<1>3. CASE Drain
  <2>1. local = << >> /\ pending \in Seq(Commands)
    BY <1>1, <1>3 DEF Drain, Shape, HandlerPcs, TypeOK
  <2>2. local' = pending /\ pending' = << >>
    BY <1>3 DEF Drain
  <2>3. local' \o pending' = local \o pending
    BY <2>1, <2>2
  <2> QED BY <1>3, <2>3 DEF Drain, Proceed, Others, Service!vars
<1>4. CASE DrainDone \/ Shutdown
  BY <1>4, ProceedStutters DEF DrainDone, Shutdown
<1>5. ASSUME NEW r \in GetReplies, Selftest(r)
      PROVE  UNCHANGED Service!vars
  BY <1>5, ProceedStutters DEF Selftest
<1>6. ASSUME NEW r \in GetReplies, NEW poll \in BOOLEAN, NEW publish \in BOOLEAN,
             LoopTail(r, poll, publish)
      PROVE  UNCHANGED Service!vars
  BY <1>6, ProceedStutters DEF LoopTail
<1> QED BY <1>2, <1>3, <1>4, <1>5, <1>6 DEF Loop

LEMMA TakeRefines ==
    ASSUME IInv, Take
    PROVE  Service!Begin
<1>1. /\ local \in Seq(Commands) /\ pending \in Seq(Commands) /\ local # << >>
      /\ current = << >>
  BY DEF IInv, TypedShape, TypeOK, Shape, Take, HandlerPcs
<1>2. /\ local \o pending # << >>
      /\ Head(local \o pending) = Head(local)
      /\ Tail(local \o pending) = Tail(local) \o pending
  BY <1>1, TakeFromQueue
<1>3. current' = <<Head(local \o pending)>>
  BY <1>2 DEF Take
<1>4. (local \o pending)' = Tail(local \o pending)
  BY <1>2 DEF Take
<1> QED BY <1>1, <1>2, <1>3, <1>4 DEF Take, Service!Begin

LEMMA HandlerRefines ==
    ASSUME IInv, Command, ~Take
    PROVE  Service!Next \/ UNCHANGED Service!vars
<1>1. pc \in HandlerPcs => current # << >>
  BY DEF IInv, TypedShape, Shape
<1>2. Evidence
  BY DEF IInv
<1> DEFINE kind == Head(current).kind
<1>3. /\ pc \in StartPcs => current # << >> /\ kind = "start"
      /\ pc \in StopPcs => current # << >> /\ kind = "stop"
      /\ pc = "status.get" => current # << >> /\ kind = "status"
  BY <1>1, <1>2 DEF Evidence, StartPcs, StopPcs, HandlerPcs
<1>4. ASSUME NEW r \in GetReplies, Get(r), pc \in HandlerPcs
      PROVE  r \in DeviceStates => r \in seen
  BY <1>2, <1>4 DEF Get, Truthful, Evidence
<1> USE DEF Service!Justified
<1>5. CASE DispatchAtOnce
  <2>1. current # << >>
    BY <1>1, <1>5 DEF DispatchAtOnce, HandlerPcs
  <2> QED BY <1>5, <2>1, AckAnswers DEF DispatchAtOnce, LoggerKinds
<1>6. CASE DispatchLogger
  BY <1>6, ProceedStutters DEF DispatchLogger
<1>7. ASSUME NEW r \in GetReplies, StartPrecheck(r)
      PROVE  Service!Next \/ UNCHANGED Service!vars
  <2>1. CASE r = "recording"
    BY <1>3, <1>4, <1>7, <2>1, AckAnswers DEF StartPrecheck, StartPcs, HandlerPcs, DeviceStates
  <2>2. CASE r # "recording"
    BY <1>7, <2>2, ProceedStutters DEF StartPrecheck
  <2> QED BY <2>1, <2>2
<1>8. ASSUME NEW r \in PostReplies, StartPost(r)
      PROVE  Service!Next \/ UNCHANGED Service!vars
  <2>1. CASE r \in {"ok", "conflict"}
    BY <1>8, <2>1, ProceedStutters DEF StartPost
  <2>2. CASE r \notin {"ok", "conflict"}
    BY <1>3, <1>8, <2>2, AckAnswers DEF StartPost, StartPcs
  <2> QED BY <2>1, <2>2
<1>9. ASSUME NEW r \in GetReplies, StartConflict(r)
      PROVE  Service!Next \/ UNCHANGED Service!vars
  <2>1. "recording" \in seen
    BY <1>2, <1>9 DEF StartConflict, Evidence
  <2> QED BY <1>3, <1>9, <2>1, AckAnswers DEF StartConflict, StartPcs
<1>10. ASSUME NEW r \in GetReplies, StartVerifyNow(r) \/ StopVerifyNow(r)
       PROVE  Service!Next \/ UNCHANGED Service!vars
  BY <1>10, ProceedStutters DEF StartVerifyNow, StopVerifyNow
<1>11. ASSUME NEW r \in GetReplies, StartVerifyLater(r)
       PROVE  Service!Next \/ UNCHANGED Service!vars
  <2>1. confirmed \/ r = "recording" => "recording" \in seen
    BY <1>2, <1>4, <1>11 DEF StartVerifyLater, Evidence, HandlerPcs, DeviceStates
  <2>2. (confirmed \/ r = "recording") \in BOOLEAN
    BY DEF IInv, TypedShape, TypeOK
  <2> QED BY <1>3, <1>11, <2>1, <2>2, AckAnswers DEF StartVerifyLater, StartPcs
<1>12. ASSUME NEW r \in GetReplies, StopPrecheck(r)
       PROVE  Service!Next \/ UNCHANGED Service!vars
  <2>1. CASE r = "idle"
    BY <1>3, <1>4, <1>12, <2>1, AckAnswers DEF StopPrecheck, StopPcs, HandlerPcs, DeviceStates
  <2>2. CASE r # "idle"
    BY <1>12, <2>2, ProceedStutters DEF StopPrecheck
  <2> QED BY <2>1, <2>2
<1>13. ASSUME NEW r \in PostReplies, StopPost(r)
       PROVE  Service!Next \/ UNCHANGED Service!vars
  <2>1. CASE r \in {"ok", "conflict", "internal"}
    BY <1>13, <2>1, ProceedStutters DEF StopPost
  <2>2. CASE r \notin {"ok", "conflict", "internal"}
    BY <1>3, <1>13, <2>2, AckAnswers DEF StopPost, StopPcs
  <2> QED BY <2>1, <2>2
<1>14. ASSUME NEW r \in GetReplies, StopPostError(r)
       PROVE  Service!Next \/ UNCHANGED Service!vars
  <2>1. CASE r = "idle"
    BY <1>3, <1>4, <1>14, <2>1, AckAnswers DEF StopPostError, StopPcs, HandlerPcs, DeviceStates
  <2>2. CASE r # "idle"
    BY <1>3, <1>14, <2>2, AckAnswers DEF StopPostError, StopPcs
  <2> QED BY <2>1, <2>2
<1>15. ASSUME NEW r \in GetReplies, StopVerifyLater(r)
       PROVE  Service!Next \/ UNCHANGED Service!vars
  <2>1. confirmed \/ r = "idle" => "idle" \in seen
    BY <1>2, <1>4, <1>15 DEF StopVerifyLater, Evidence, HandlerPcs, DeviceStates
  <2>2. (confirmed \/ r = "idle") \in BOOLEAN
    BY DEF IInv, TypedShape, TypeOK
  <2> QED BY <1>3, <1>15, <2>1, <2>2, AckAnswers DEF StopVerifyLater, StopPcs
<1>16. ASSUME NEW r \in GetReplies, LoggerStatus(r)
       PROVE  Service!Next \/ UNCHANGED Service!vars
  <2>1. (r \notin {"notfound", "error"}) \in BOOLEAN
    OBVIOUS
  <2> QED BY <1>3, <1>16, <2>1, AckAnswers DEF LoggerStatus
<1> QED BY <1>5, <1>6, <1>7, <1>8, <1>9, <1>10, <1>11, <1>12, <1>13, <1>14, <1>15, <1>16
        DEF Command, StartStep, StopStep

LEMMA ArriveRefines ==
    ASSUME IInv, NEW kind \in Kinds, Arrive(kind)
    PROVE  Service!Arrive(kind)
<1> DEFINE c == [n |-> arrived + 1, kind |-> kind]
<1>1. pending \in Seq(Commands) /\ local \in Seq(Commands) /\ arrived \in 0..MaxArrivals
  BY DEF IInv, TypedShape, TypeOK
<1>2. c \in Commands
  BY <1>1, ArrivalsAssumption DEF Arrive, Commands
<1>3. local \o Append(pending, c) = Append(local \o pending, c)
  BY <1>1, <1>2, AppendToQueue
<1> QED BY <1>3 DEF Arrive, MainUnchanged, Service!Arrive

LEMMA StepRefines ==
    ASSUME IInv, [Next]_vars
    PROVE  Service!Next \/ UNCHANGED Service!vars
<1>1. CASE Loop
  BY <1>1, LoopRefines
<1>2. CASE Command
  BY <1>2, TakeRefines, HandlerRefines DEF Service!Next
<1>3. ASSUME NEW kind \in Kinds, Arrive(kind)
      PROVE  Service!Next
  BY <1>3, ArriveRefines DEF Service!Next
<1>4. CASE LoseConnection \/ Signal
  BY <1>4 DEF LoseConnection, Signal, MainUnchanged, Service!vars
<1>5. CASE DeviceStep
  <2>1. Service!DeviceStep
    BY <1>5 DEF DeviceStep, MainUnchanged, Service!DeviceStep, DeviceStates, Service!DeviceStates
  <2> QED BY <2>1 DEF Service!Next
<1>6. CASE UNCHANGED vars
  BY <1>6 DEF vars, Service!vars
<1> QED BY <1>1, <1>2, <1>3, <1>4, <1>5, <1>6 DEF Next, Main, Ended

LEMMA InitRefines == Init => Service!Init
BY DEF Init, Service!Init, NoAck, Service!NoAnswer, DeviceStates, Service!DeviceStates

\* The handlers implement CommandService: commands are executed one at a time
\* in the order of arrival, and an ok is backed by the device's history.
THEOREM Refinement == Spec => ImplementsCommandService
<1>1. Init => Service!Init
  BY InitRefines
<1>2. IInv /\ [Next]_vars => [Service!Next]_(Service!vars)
  BY StepRefines
<1> QED BY <1>1, <1>2, InvariantHolds, PTL DEF Spec, ImplementsCommandService, Service!Spec

-----------------------------------------------------------------------------
(* One answer per message.                                                  *)

LEMMA OpenType ==
    ASSUME IInv
    PROVE  /\ current \in Seq(Commands) /\ local \o pending \in Seq(Commands)
           /\ Service!Open \in Seq(Commands)
           /\ Service!Open = current \o (local \o pending)
           /\ Len(Service!Open) = Len(current) + Len(local \o pending)
<1>1. /\ current \in Seq(Commands) /\ local \in Seq(Commands) /\ pending \in Seq(Commands)
  BY DEF IInv, TypedShape, TypeOK
<1> QED BY <1>1, ConcatProperties DEF Service!Open

\* A sequence whose commands are numbered n + 1, n + 2, ...
Numbered(s, n) == \A i \in 1..Len(s) : s[i].n = n + i

LEMMA AppendNumbered ==
    ASSUME NEW s \in Seq(Commands), NEW n \in Nat, NEW c \in Commands,
           Numbered(s, n), c.n = n + Len(s) + 1
    PROVE  Numbered(Append(s, c), n) /\ Len(Append(s, c)) = Len(s) + 1
<1>1. /\ Len(s) \in Nat
      /\ Len(Append(s, c)) = Len(s) + 1
      /\ Append(s, c)[Len(s) + 1] = c
      /\ \A i \in 1..Len(s) : Append(s, c)[i] = s[i]
  BY AppendProperties, LenProperties
<1>2. ASSUME NEW i \in 1..(Len(s) + 1)
      PROVE  Append(s, c)[i].n = n + i
  <2>1. CASE i = Len(s) + 1
    BY <1>1, <2>1
  <2>2. CASE i # Len(s) + 1
    <3>1. i \in 1..Len(s)
      BY <1>1, <2>2
    <3> QED BY <1>1, <3>1 DEF Numbered
  <2> QED BY <2>1, <2>2
<1> QED BY <1>1, <1>2 DEF Numbered

LEMMA DropNumbered ==
    ASSUME NEW c \in Commands, NEW q \in Seq(Commands), NEW n \in Nat,
           Numbered(<<c>> \o q, n)
    PROVE  c.n = n + 1 /\ Numbered(q, n + 1) /\ Len(<<c>> \o q) = Len(q) + 1
<1>1. /\ Len(q) \in Nat
      /\ Len(<<c>> \o q) = Len(q) + 1
      /\ (<<c>> \o q)[1] = c
      /\ \A i \in 1..Len(q) : (<<c>> \o q)[i + 1] = q[i]
  BY LenProperties
<1>2. c.n = n + 1
  BY <1>1 DEF Numbered
<1>3. ASSUME NEW i \in 1..Len(q)
      PROVE  q[i].n = n + 1 + i
  <2>1. i + 1 \in 1..(Len(q) + 1) /\ n + (i + 1) = n + 1 + i
    BY <1>1
  <2>2. (<<c>> \o q)[i + 1].n = n + (i + 1)
    BY <1>1, <2>1 DEF Numbered
  <2> QED BY <1>1, <2>1, <2>2
<1> QED BY <1>1, <1>2, <1>3 DEF Numbered

LEMMA StepKeepsOrder ==
    ASSUME IInv, IInv', AnsweredInOrder,
           Service!Next \/ UNCHANGED Service!vars
    PROVE  AnsweredInOrder'
<1> DEFINE q == local \o pending
           o == Service!Open
<1>1. /\ q \in Seq(Commands) /\ o \in Seq(Commands) /\ current \in Seq(Commands)
      /\ o = current \o q /\ Len(o) = Len(current) + Len(q)
  BY OpenType
<1>2. o' = current' \o q'
  BY DEF Service!Open
<1>3. ack.n + Len(o) = arrived /\ Numbered(o, ack.n)
  BY DEF AnsweredInOrder, Service!AnsweredInOrder, Numbered
<1>4. ack.n \in Nat /\ arrived \in Nat /\ Len(o) \in Nat
  BY <1>1, ArrivalsAssumption, LenProperties DEF IInv, TypedShape, TypeOK, Acks
<1>5. SUFFICES ack'.n + Len(o') = arrived' /\ Numbered(o', ack'.n)
  BY DEF AnsweredInOrder, Service!AnsweredInOrder, Numbered
<1>6. ASSUME NEW kind \in Kinds, Service!Arrive(kind)
      PROVE  ack'.n + Len(o') = arrived' /\ Numbered(o', ack'.n)
  <2> DEFINE c == [n |-> arrived + 1, kind |-> kind]
  <2>1. q' = Append(q, c) /\ current' = current /\ ack'.n = ack.n /\ arrived' = arrived + 1
    BY <1>6 DEF Service!Arrive
  <2>2. c \in Commands
    <3>1. arrived' \in 0..MaxArrivals
      BY DEF IInv, TypedShape, TypeOK
    <3> QED BY <2>1, <3>1, <1>4, ArrivalsAssumption DEF Commands
  <2>3. o' = Append(o, c)
    <3>1. o' = current \o Append(q, c)
      BY <1>2, <2>1
    <3> HIDE DEF c, q, o
    <3> QED BY ONLY <1>1, <2>2, <3>1, AppendToQueue
  <2>4. c.n = ack.n + Len(o) + 1
    BY <1>3, <1>4
  <2>5. Numbered(Append(o, c), ack.n) /\ Len(Append(o, c)) = Len(o) + 1
    BY <1>1, <1>3, <1>4, <2>2, <2>4, AppendNumbered
  <2>6. ack.n + (Len(o) + 1) = arrived + 1
    BY <1>3, <1>4
  <2> QED BY <2>1, <2>3, <2>5, <2>6
<1>7. CASE Service!Begin
  <2>1. /\ current = << >> /\ q # << >>
        /\ current' = <<Head(q)>> /\ q' = Tail(q)
        /\ ack'.n = ack.n /\ arrived' = arrived
    BY <1>7 DEF Service!Begin
  <2>2. o' = o
    <3>1. o = q
      BY <1>1, <2>1, ConcatEmptySeq
    <3>2. <<Head(q)>> \o Tail(q) = q
      BY <1>1, <2>1, HeadTailProperties
    <3> QED BY <1>2, <2>1, <3>1, <3>2
  <2> QED BY <1>3, <2>1, <2>2
<1>8. ASSUME NEW ok \in BOOLEAN, Service!Answer(ok)
      PROVE  ack'.n + Len(o') = arrived' /\ Numbered(o', ack'.n)
  <2>1. /\ current # << >> /\ current' = << >> /\ q' = q
        /\ ack'.n = Head(current).n /\ arrived' = arrived
    BY <1>8 DEF Service!Answer
  <2>2. PICK c \in Commands : current = <<c>>
    BY <2>1 DEF IInv, TypedShape, Shape
  <2>3. o' = q
    BY <1>1, <1>2, <2>1, ConcatEmptySeq
  <2>4. o = <<c>> \o q
    BY <1>1, <2>2
  <2> HIDE DEF q, o
  <2>5. c.n = ack.n + 1 /\ Numbered(q, ack.n + 1) /\ Len(o) = Len(q) + 1
    BY <1>1, <1>3, <1>4, <2>4, DropNumbered
  <2>6. ack'.n = ack.n + 1
    BY <2>1, <2>2, <2>5
  <2>7. Len(q) \in Nat
    BY <1>1, LenProperties
  <2>8. ack.n + 1 + Len(q) = arrived
    BY <1>3, <1>4, <2>5, <2>7
  <2> USE DEF q, o
  <2> QED BY <2>1, <2>3, <2>5, <2>6, <2>8
<1>9. CASE Service!DeviceStep \/ UNCHANGED Service!vars
  <2>1. current' = current /\ q' = q /\ ack'.n = ack.n /\ arrived' = arrived
    BY <1>9 DEF Service!DeviceStep, Service!vars
  <2>2. o' = o
    BY <1>1, <1>2, <2>1
  <2> QED BY <1>3, <2>1, <2>2
<1> QED BY <1>6, <1>7, <1>8, <1>9 DEF Service!Next

\* Every message is answered at most once and in the order of arrival.
THEOREM OneAnswerEach == Spec => []AnsweredInOrder
<1>1. Init => AnsweredInOrder
  BY DEF Init, NoAck, AnsweredInOrder, Service!AnsweredInOrder, Service!Open
<1>2. IInv /\ IInv' /\ AnsweredInOrder /\ [Next]_vars => AnsweredInOrder'
  BY StepRefines, StepKeepsOrder
<1> QED BY <1>1, <1>2, InvariantHolds, PTL DEF Spec

-----------------------------------------------------------------------------
(* What the status says.                                                    *)

\* The ways in which a step of a handler changes status_: with a GET, and a
\* POST that failed or a transitional state on top of it.
Transitional == {"STARTING", "STOPPING"}
Active(s) == s.state = "RECORDING" => s.recording

LEMMA GetStatusActive ==
    ASSUME NEW s \in Statuses, NEW r \in GetReplies, Active(s)
    PROVE  Active(GetStatus(s, r))
BY DEF Active, GetStatus, GetReplies, DeviceStates, Statuses

LEMMA PostFailedActive ==
    ASSUME NEW s \in Statuses, NEW r \in PostReplies
    PROVE  Active(PostFailed(s, r)) /\ PostFailed(s, r).state \notin Transitional
BY DEF Active, PostFailed, Transitional, Statuses

LEMMA OtherStateActive ==
    ASSUME NEW s \in Statuses, NEW x \in ServiceStates \ {"RECORDING"}
    PROVE  Active([s EXCEPT !.state = x])
BY DEF Active, Statuses

\* Only a 2xx without a recording flag leaves a transitional state standing.
LEMMA GetStatusSettles ==
    ASSUME NEW s \in Statuses, NEW r \in GetReplies, r # "noflag"
    PROVE  GetStatus(s, r).state \notin Transitional
BY DEF GetStatus, GetReplies, DeviceStates, Statuses, Transitional

LEMMA PublishActive ==
    ASSUME RecordingIsActive, NEW s, Active(s), SetAndPublish(s)
    PROVE  RecordingIsActive'
BY DEF RecordingIsActive, Active, SetAndPublish

LEMMA StatusActive ==
    ASSUME RecordingIsActive, Active(status'), published' = published
    PROVE  RecordingIsActive'
BY DEF RecordingIsActive, Active

LEMMA LoopKeepsActive ==
    ASSUME TypeOK, RecordingIsActive, Loop
    PROVE  RecordingIsActive'
<1>1. status \in Statuses /\ Active(status)
  BY DEF TypeOK, RecordingIsActive, Active
<1>2. CASE Connect
  BY <1>2 DEF Connect, RecordingIsActive
<1>3. CASE ConnectFails
  BY <1>1, <1>3, OtherStateActive, StatusActive DEF ConnectFails, ServiceStates
<1>4. CASE Drain \/ DrainDone
  BY <1>4 DEF Drain, DrainDone, RecordingIsActive
<1>5. CASE Shutdown
  BY <1>1, <1>5, PublishActive DEF Shutdown
<1>6. CASE Disconnect
  BY <1>1, <1>6, OtherStateActive, StatusActive DEF Disconnect, ServiceStates
<1>7. ASSUME NEW r \in GetReplies, Selftest(r)
      PROVE  RecordingIsActive'
  BY <1>1, <1>7, GetStatusActive, PublishActive DEF Selftest
<1>8. ASSUME NEW r \in GetReplies, NEW poll \in BOOLEAN, NEW publish \in BOOLEAN,
             LoopTail(r, poll, publish)
      PROVE  RecordingIsActive'
  <2>1. Active(GetStatus(status, r))
    BY <1>1, GetStatusActive
  <2>2. Active(status')
    BY <1>1, <1>8, <2>1 DEF LoopTail
  <2>3. published' = status' \/ published' = published
    BY <1>8 DEF LoopTail
  <2> QED BY <2>2, <2>3 DEF RecordingIsActive, Active
<1> QED BY <1>2, <1>3, <1>4, <1>5, <1>6, <1>7, <1>8 DEF Loop

LEMMA CommandKeepsActive ==
    ASSUME TypeOK, RecordingIsActive, Command
    PROVE  RecordingIsActive'
<1>1. status \in Statuses /\ Active(status)
  BY DEF TypeOK, RecordingIsActive, Active
<1>2. CASE Take \/ DispatchAtOnce \/ DispatchLogger
  BY <1>2 DEF Take, DispatchAtOnce, DispatchLogger, RecordingIsActive
<1>3. ASSUME NEW r \in GetReplies
      PROVE  LET s == GetStatus(status, r)
             IN  /\ Active(s)
                 /\ Active([s EXCEPT !.state = "STARTING"])
                 /\ Active([s EXCEPT !.state = "STOPPING"])
                 /\ Active(PostFailed(s, "internal"))
  <2>1. GetStatus(status, r) \in Statuses
    BY <1>1, GetStatusType
  <2> QED BY <1>1, <2>1, GetStatusActive, OtherStateActive, PostFailedActive
          DEF ServiceStates, PostReplies
<1>4. ASSUME NEW r \in GetReplies, StartPrecheck(r) \/ StopPrecheck(r)
      PROVE  RecordingIsActive'
  BY <1>3, <1>4, PublishActive DEF StartPrecheck, StopPrecheck
<1>5. ASSUME NEW r \in GetReplies,
             StartConflict(r) \/ StartVerifyLater(r) \/ StopVerifyLater(r) \/ LoggerStatus(r)
      PROVE  RecordingIsActive'
  BY <1>3, <1>5, PublishActive DEF StartConflict, StartVerifyLater, StopVerifyLater, LoggerStatus
<1>6. ASSUME NEW r \in GetReplies, StartVerifyNow(r) \/ StopVerifyNow(r)
      PROVE  RecordingIsActive'
  BY <1>3, <1>6, StatusActive DEF StartVerifyNow, StopVerifyNow
<1>7. ASSUME NEW r \in GetReplies, StopPostError(r)
      PROVE  RecordingIsActive'
  BY <1>3, <1>7, PublishActive DEF StopPostError
<1>8. ASSUME NEW r \in PostReplies, StartPost(r) \/ StopPost(r)
      PROVE  RecordingIsActive'
  <2>1. Active(PostFailed(status, r))
    BY <1>1, PostFailedActive
  <2>2. (\E s : Active(s) /\ SetAndPublish(s)) \/ UNCHANGED <<status, published>>
    <3>1. CASE StartPost(r)
      BY <2>1, <3>1 DEF StartPost
    <3>2. CASE StopPost(r)
      BY <2>1, <3>2 DEF StopPost
    <3> QED BY <1>8, <3>1, <3>2
  <2> QED BY <2>2, PublishActive DEF RecordingIsActive
<1> QED BY <1>2, <1>4, <1>5, <1>6, <1>7, <1>8 DEF Command, StartStep, StopStep

\* A status, in memory or retained, that says RECORDING has recording_active.
THEOREM RecordingActive == Spec => []RecordingIsActive
<1>1. Init => RecordingIsActive
  BY DEF Init, RecordingIsActive
<1>2. TypeOK /\ RecordingIsActive /\ [Next]_vars => RecordingIsActive'
  <2> SUFFICES ASSUME TypeOK, RecordingIsActive, [Next]_vars
               PROVE  RecordingIsActive'
    OBVIOUS
  <2>1. CASE Loop \/ Command
    BY <2>1, LoopKeepsActive, CommandKeepsActive
  <2>2. CASE LoseConnection
    <3>1. status \in Statuses
      BY DEF TypeOK
    <3> QED BY <2>2, <3>1, OtherStateActive, StatusActive DEF LoseConnection, ServiceStates
  <2>3. CASE (\E kind \in Kinds : Arrive(kind)) \/ DeviceStep \/ Signal \/ UNCHANGED vars
    <3>1. UNCHANGED <<status, published>>
      BY <2>3 DEF Arrive, DeviceStep, Signal, vars
    <3> QED BY <3>1 DEF RecordingIsActive
  <2> QED BY <2>1, <2>2, <2>3 DEF Next, Main, Ended
<1> QED BY <1>1, <1>2, TypeCorrect, PTL DEF Spec

-----------------------------------------------------------------------------
(* Transitional states.                                                     *)

\* Where the main thread is when no POST is under way: the loop, and a handler
\* before its first REST call.
CalmPcs == LoopPcs \cup {"dispatch", "start.precheck", "stop.precheck", "status.get"}

Settled == pc \in CalmPcs /\ status.state \in Transitional => flagless

LEMMA GetSettles ==
    ASSUME TypeOK, NEW r \in GetReplies, Get(r), status' = GetStatus(status, r)
    PROVE  Settled'
<1>1. status \in Statuses
  BY DEF TypeOK
<1>2. CASE r = "noflag"
  BY <1>2 DEF Get, Settled
<1>3. CASE r # "noflag"
  BY <1>1, <1>3, GetStatusSettles DEF Settled
<1> QED BY <1>2, <1>3

LEMMA MoveSettles ==
    ASSUME Settled, pc \in CalmPcs, UNCHANGED <<status, flagless>>
    PROVE  Settled'
BY DEF Settled

LEMMA LoopKeepsSettled ==
    ASSUME TypeOK, Settled, Loop
    PROVE  Settled'
<1>1. status \in Statuses
  BY DEF TypeOK
<1>2. CASE Connect
  BY <1>2 DEF Connect, Settled, Transitional
<1>3. CASE ConnectFails
  BY <1>1, <1>3 DEF ConnectFails, Settled, Transitional, Statuses
<1>4. CASE Drain \/ DrainDone
  BY <1>4, MoveSettles DEF Drain, DrainDone, CalmPcs, LoopPcs
<1>5. CASE Shutdown \/ Disconnect
  <2>1. pc' \notin CalmPcs
    BY <1>5 DEF Shutdown, Disconnect, Proceed, CalmPcs, LoopPcs
  <2> QED BY <2>1 DEF Settled
<1>6. ASSUME NEW r \in GetReplies, Selftest(r)
      PROVE  Settled'
  BY <1>6, GetSettles DEF Selftest, SetAndPublish
<1>7. ASSUME NEW r \in GetReplies, NEW poll \in BOOLEAN, NEW publish \in BOOLEAN,
             LoopTail(r, poll, publish)
      PROVE  Settled'
  <2>1. CASE poll
    BY <1>7, <2>1, GetSettles DEF LoopTail
  <2>2. CASE ~poll
    BY <1>7, <2>2, MoveSettles DEF LoopTail, CalmPcs, LoopPcs
  <2> QED BY <2>1, <2>2
<1> QED BY <1>2, <1>3, <1>4, <1>5, <1>6, <1>7 DEF Loop

LEMMA CommandKeepsSettled ==
    ASSUME TypeOK, Settled, Command
    PROVE  Settled'
<1>1. status \in Statuses
  BY DEF TypeOK
<1>2. CASE Take \/ DispatchAtOnce \/ DispatchLogger
  BY <1>2, MoveSettles DEF Take, DispatchAtOnce, DispatchLogger, CalmPcs, LoopPcs
<1>3. ASSUME NEW r \in GetReplies, StartPrecheck(r)
      PROVE  Settled'
  <2>1. CASE r = "recording"
    BY <1>3, <2>1, GetSettles DEF StartPrecheck, SetAndPublish
  <2>2. CASE r # "recording"
    <3>1. pc' = "start.post"
      BY <1>3, <2>2 DEF StartPrecheck, Proceed
    <3> QED BY <3>1 DEF Settled, CalmPcs, LoopPcs
  <2> QED BY <2>1, <2>2
<1>4. ASSUME NEW r \in GetReplies, StopPrecheck(r)
      PROVE  Settled'
  <2>1. CASE r = "idle"
    BY <1>4, <2>1, GetSettles DEF StopPrecheck, SetAndPublish
  <2>2. CASE r # "idle"
    <3>1. pc' = "stop.post"
      BY <1>4, <2>2 DEF StopPrecheck, Proceed
    <3> QED BY <3>1 DEF Settled, CalmPcs, LoopPcs
  <2> QED BY <2>1, <2>2
<1>5. ASSUME NEW r \in GetReplies,
             StartConflict(r) \/ StartVerifyLater(r) \/ StopVerifyLater(r) \/ LoggerStatus(r)
      PROVE  Settled'
  BY <1>5, GetSettles
     DEF StartConflict, StartVerifyLater, StopVerifyLater, LoggerStatus, SetAndPublish
<1>6. ASSUME NEW r \in GetReplies, StartVerifyNow(r) \/ StopVerifyNow(r)
      PROVE  Settled'
  BY <1>6, GetSettles DEF StartVerifyNow, StopVerifyNow
<1>7. ASSUME NEW r \in GetReplies, StopPostError(r)
      PROVE  Settled'
  <2>1. CASE r = "idle"
    BY <1>7, <2>1, GetSettles DEF StopPostError, SetAndPublish
  <2>2. CASE r # "idle"
    <3>1. status' = PostFailed(GetStatus(status, r), "internal")
      BY <1>7, <2>2 DEF StopPostError, SetAndPublish
    <3>2. status'.state \notin Transitional
      BY <1>1, <3>1, GetStatusType, PostFailedActive DEF PostReplies
    <3> QED BY <3>2 DEF Settled
  <2> QED BY <2>1, <2>2
<1>8. ASSUME NEW r \in PostReplies, StartPost(r) \/ StopPost(r)
      PROVE  Settled'
  <2>1. PostFailed(status, r).state \notin Transitional
    BY <1>1, PostFailedActive
  <2>2. pc' \in {"start.now", "start.conflict", "stop.now", "stop.post_error"}
        \/ status' = PostFailed(status, r)
    <3>1. CASE StartPost(r)
      BY <3>1 DEF StartPost, Proceed, SetAndPublish
    <3>2. CASE StopPost(r)
      BY <3>2 DEF StopPost, Proceed, SetAndPublish
    <3> QED BY <1>8, <3>1, <3>2
  <2> QED BY <2>1, <2>2 DEF Settled, CalmPcs, LoopPcs
<1> QED BY <1>2, <1>3, <1>4, <1>5, <1>6, <1>7, <1>8 DEF Command, StartStep, StopStep

\* Between commands the service is in STARTING or STOPPING only after a 2xx
\* without a recording flag.
THEOREM TransitionalSettles == Spec => []TransitionalStateSettles
<1>1. Init => Settled
  BY DEF Init, Settled, Transitional
<1>2. TypeOK /\ Settled /\ [Next]_vars => Settled'
  <2> SUFFICES ASSUME TypeOK, Settled, [Next]_vars
               PROVE  Settled'
    OBVIOUS
  <2>1. CASE Loop \/ Command
    BY <2>1, LoopKeepsSettled, CommandKeepsSettled
  <2>2. CASE LoseConnection
    <3>1. status \in Statuses
      BY DEF TypeOK
    <3> QED BY <2>2, <3>1 DEF LoseConnection, Settled, Statuses, Transitional
  <2>3. CASE (\E kind \in Kinds : Arrive(kind)) \/ DeviceStep \/ Signal \/ UNCHANGED vars
    <3>1. UNCHANGED <<status, flagless, pc>>
      BY <2>3 DEF Arrive, DeviceStep, Signal, MainUnchanged, vars
    <3> QED BY <3>1 DEF Settled
  <2> QED BY <2>1, <2>2, <2>3 DEF Next, Main, Ended
<1>3. Settled => TransitionalStateSettles
  BY DEF Settled, TransitionalStateSettles, CalmPcs, Transitional
<1> QED BY <1>1, <1>2, <1>3, TypeCorrect, PTL DEF Spec

-----------------------------------------------------------------------------
(* The acknowledgment and the retained status.                              *)

Published ==
    ack' # ack /\ ack'.sent /\ ack'.kind \in LoggerKinds => published' = status'

LEMMA AckPublished ==
    ASSUME NEW s, NEW ok, SetAndPublish(s), Ack(ok)
    PROVE  Published
BY DEF Published, SetAndPublish, Ack

LEMMA NoAckPublished ==
    ASSUME ack' = ack
    PROVE  Published
BY DEF Published

LEMMA StepPublishes ==
    ASSUME [Next]_vars
    PROVE  Published
<1>1. CASE Loop
  <2>1. ack' = ack
    BY <1>1 DEF Loop, Connect, ConnectFails, Drain, DrainDone, Shutdown, Disconnect,
                Selftest, LoopTail, Proceed
  <2> QED BY <2>1, NoAckPublished
<1>2. CASE Take \/ DispatchLogger
  BY <1>2, NoAckPublished DEF Take, DispatchLogger, Proceed
<1>3. CASE DispatchAtOnce
  <2>1. Head(current).kind \in LoggerKinds => ~connected
    BY <1>3 DEF DispatchAtOnce, LoggerKinds
  <2>2. ack'.kind = Head(current).kind /\ ack'.sent = connected
    BY <1>3 DEF DispatchAtOnce, Ack
  <2> QED BY <2>1, <2>2 DEF Published
<1>4. ASSUME NEW r \in GetReplies, StartPrecheck(r) \/ StopPrecheck(r) \/ StopPostError(r)
      PROVE  Published
  BY <1>4, AckPublished, NoAckPublished DEF StartPrecheck, StopPrecheck, StopPostError, Proceed
<1>5. ASSUME NEW r \in GetReplies,
             StartConflict(r) \/ StartVerifyLater(r) \/ StopVerifyLater(r) \/ LoggerStatus(r)
      PROVE  Published
  BY <1>5, AckPublished DEF StartConflict, StartVerifyLater, StopVerifyLater, LoggerStatus
<1>6. ASSUME NEW r \in GetReplies, StartVerifyNow(r) \/ StopVerifyNow(r)
      PROVE  Published
  BY <1>6, NoAckPublished DEF StartVerifyNow, StopVerifyNow, Proceed
<1>7. ASSUME NEW r \in PostReplies, StartPost(r)
      PROVE  Published
  BY <1>7, AckPublished, NoAckPublished DEF StartPost, Proceed
<1>8. ASSUME NEW r \in PostReplies, StopPost(r)
      PROVE  Published
  BY <1>8, AckPublished, NoAckPublished DEF StopPost, Proceed
<1>9. CASE (\E kind \in Kinds : Arrive(kind)) \/ LoseConnection \/ DeviceStep
           \/ Signal \/ UNCHANGED vars
  <2>1. ack' = ack
    BY <1>9 DEF Arrive, LoseConnection, DeviceStep, Signal, MainUnchanged, vars
  <2> QED BY <2>1, NoAckPublished
<1> QED BY <1>1, <1>2, <1>3, <1>4, <1>5, <1>6, <1>7, <1>8, <1>9
        DEF Next, Main, Command, StartStep, StopStep, Ended

\* When a logger command is acknowledged to a client, the retained status is
\* the one in memory.
THEOREM AckedPublished == Spec => AckedStatusIsPublished
<1>1. [Next]_vars => [Published]_vars
  BY StepPublishes
<1> QED BY <1>1, PTL DEF Spec, AckedStatusIsPublished, Published

-----------------------------------------------------------------------------
(* How much work the queued commands are.                                   *)

\* The steps at most that the handler at work has left.
HandlerLeft ==
    CASE pc = "dispatch"                                               -> 5
      [] pc \in {"start.precheck", "stop.precheck"}                    -> 4
      [] pc \in {"start.post", "stop.post"}                            -> 3
      [] pc \in {"start.now", "stop.now"}                              -> 2
      [] pc \in {"start.conflict", "start.later", "stop.post_error",
                 "stop.later", "status.get"}                           -> 1
      [] pc \notin HandlerPcs                                          -> 0

\* A queued message takes six: it is taken, dispatched and makes four calls.
Backlog == 6 * (Len(local) + Len(pending)) + HandlerLeft

LEMMA HandlerLeftType == HandlerLeft \in 0..5 /\ (HandlerLeft = 0 <=> pc \notin HandlerPcs)
BY DEF HandlerLeft, HandlerPcs

LEMMA QueueLengths ==
    ASSUME TypedShape
    PROVE  Len(local) \in Nat /\ Len(pending) \in Nat /\ Backlog \in Nat
<1>1. local \in Seq(Commands) /\ pending \in Seq(Commands)
  BY DEF TypedShape, TypeOK
<1>2. Len(local) \in Nat /\ Len(pending) \in Nat
  BY <1>1
<1> QED BY <1>2, HandlerLeftType DEF Backlog

LEMMA QueueLengthsNext ==
    ASSUME TypedShape'
    PROVE  Backlog' \in Nat
<1>1. local' \in Seq(Commands) /\ pending' \in Seq(Commands)
  BY DEF TypedShape, TypeOK
<1>2. Len(local') \in Nat /\ Len(pending') \in Nat
  BY <1>1
<1>3. HandlerLeft' \in Nat
  BY DEF HandlerLeft, HandlerPcs
<1> QED BY <1>2, <1>3 DEF Backlog

LEMMA HandlerStepsDown ==
    ASSUME TypedShape,
           DispatchAtOnce \/ DispatchLogger \/ StartStep \/ StopStep
               \/ \E r \in GetReplies : LoggerStatus(r)
    PROVE  Backlog' < Backlog
<1>1. local' = local /\ pending' = pending
  BY DEF DispatchAtOnce, DispatchLogger, StartStep, StopStep, StartPrecheck, StartConflict,
         StartVerifyNow, StartVerifyLater, StartPost, StopPrecheck, StopPostError,
         StopVerifyNow, StopVerifyLater, StopPost, LoggerStatus, Queues
<1>2. /\ HandlerLeft \in Nat /\ HandlerLeft' \in Nat /\ HandlerLeft' < HandlerLeft
  <2>1. \/ pc \in HandlerPcs /\ pc' = "drain"
        \/ pc = "dispatch" /\ pc' \in {"start.precheck", "stop.precheck", "status.get"}
        \/ pc = "start.precheck" /\ pc' = "start.post"
        \/ pc = "start.post" /\ pc' \in {"start.now", "start.conflict"}
        \/ pc = "start.now" /\ pc' = "start.later"
        \/ pc = "stop.precheck" /\ pc' = "stop.post"
        \/ pc = "stop.post" /\ pc' \in {"stop.now", "stop.post_error"}
        \/ pc = "stop.now" /\ pc' = "stop.later"
    <3>1. CASE DispatchAtOnce \/ DispatchLogger
      BY <3>1 DEF DispatchAtOnce, DispatchLogger, Ack, Proceed, HandlerPcs
    <3>2. CASE StartStep
      BY <3>2 DEF StartStep, StartPrecheck, StartConflict, StartVerifyNow,
                  StartVerifyLater, StartPost, Ack, Proceed, HandlerPcs
    <3>3. CASE StopStep
      BY <3>3 DEF StopStep, StopPrecheck, StopPostError, StopVerifyNow,
                  StopVerifyLater, StopPost, Ack, Proceed, HandlerPcs
    <3>4. CASE \E r \in GetReplies : LoggerStatus(r)
      BY <3>4 DEF LoggerStatus, Ack, HandlerPcs
    <3> QED BY <3>1, <3>2, <3>3, <3>4
  <2> QED BY <2>1 DEF HandlerLeft, HandlerPcs
<1>3. Len(local) \in Nat /\ Len(pending) \in Nat
  BY QueueLengths
<1> QED BY <1>1, <1>2, <1>3 DEF Backlog

LEMMA TakeCountsDown ==
    ASSUME TypedShape, Take
    PROVE  Backlog' < Backlog
<1>1. /\ local' = Tail(local) /\ local # << >> /\ pending' = pending
      /\ pc = "drain" /\ pc' = "dispatch"
  BY DEF Take
<1>2. local \in Seq(Commands)
  BY DEF TypedShape, TypeOK
<1>3. Len(local') = Len(local) - 1
  BY <1>1, <1>2
<1>4. HandlerLeft = 0 /\ HandlerLeft' = 5
  BY <1>1 DEF HandlerLeft, HandlerPcs
<1>5. Len(local) \in Nat /\ Len(pending) \in Nat
  BY QueueLengths
<1> QED BY <1>1, <1>3, <1>4, <1>5 DEF Backlog

\* drain_commands moves the messages from one queue to the other.
LEMMA LoopKeepsBacklog ==
    ASSUME TypedShape, Loop
    PROVE  Backlog' = Backlog
<1>1. pc \notin HandlerPcs /\ pc' \notin HandlerPcs
  <2>1. pc \in {"top", "selftest", "drain", "tail", "shutdown"}
    BY DEF Loop, Connect, ConnectFails, Drain, DrainDone, Shutdown, Disconnect,
           Selftest, LoopTail
  <2> QED BY <2>1, LoopLeavesHandlers DEF HandlerPcs
<1>2. HandlerLeft = 0 /\ HandlerLeft' = 0
  BY <1>1 DEF HandlerLeft, HandlerPcs
<1>3. CASE Drain
  <2>1. local = << >> /\ local' = pending /\ pending' = << >>
    BY <1>3 DEF Drain, TypedShape, Shape, HandlerPcs
  <2>2. Len(local) = 0 /\ Len(pending') = 0 /\ Len(local') = Len(pending)
    BY <2>1
  <2> QED BY <1>2, <2>2, QueueLengths DEF Backlog
<1>4. CASE ~Drain
  <2>1. local' = local /\ pending' = pending
    BY <1>4 DEF Loop, Connect, ConnectFails, DrainDone, Shutdown, Disconnect,
                Selftest, LoopTail, Queues
  <2> QED BY <1>2, <2>1 DEF Backlog
<1> QED BY <1>3, <1>4

\* What EveryCommandAnswered rests on besides fairness: every step that
\* drain_commands and the handlers take, whatever the data logger replies and
\* whether or not the session is lost, brings the backlog down; nothing but a
\* message that arrives, worth six steps, brings it up; and when it is gone
\* every message has been answered.
THEOREM BacklogCountsDown ==
    Spec => /\ [](Backlog \in Nat /\ (Backlog = 0 => ack.n = arrived))
            /\ [][/\ Command => Backlog' < Backlog
                  /\ \/ Backlog' <= Backlog
                     \/ Backlog' = Backlog + 6 /\ \E kind \in Kinds : Arrive(kind)]_vars
<1>1. ASSUME IInv, AnsweredInOrder
      PROVE  Backlog \in Nat /\ (Backlog = 0 => ack.n = arrived)
  <2>1. TypedShape /\ Backlog \in Nat /\ Len(local) \in Nat /\ Len(pending) \in Nat
    BY <1>1, QueueLengths DEF IInv
  <2>2. SUFFICES ASSUME Backlog = 0 PROVE ack.n = arrived
    BY <2>1
  <2>3. Len(local) = 0 /\ Len(pending) = 0 /\ HandlerLeft = 0
    BY <2>1, <2>2, HandlerLeftType DEF Backlog
  <2>4. local \in Seq(Commands) /\ pending \in Seq(Commands) /\ Shape
    BY <2>1 DEF TypedShape, TypeOK
  <2>5. local = << >> /\ pending = << >> /\ current = << >>
    BY <2>3, <2>4, HandlerLeftType, EmptySeq DEF Shape
  <2>6. Service!Open = << >>
    BY <2>5 DEF Service!Open
  <2>7. ack.n + 0 = arrived /\ ack.n \in Nat
    BY <1>1, <2>1, <2>6, ArrivalsAssumption
       DEF AnsweredInOrder, Service!AnsweredInOrder, TypedShape, TypeOK, Acks
  <2> QED BY <2>7
<1>2. ASSUME IInv, [Next]_vars
      PROVE  /\ Command => Backlog' < Backlog
             /\ \/ Backlog' <= Backlog
                \/ Backlog' = Backlog + 6 /\ \E kind \in Kinds : Arrive(kind)
  <2>1. TypedShape /\ TypedShape'
    BY <1>2, StepKeepsTypedShape DEF IInv
  <2>2. Backlog \in Nat /\ Backlog' \in Nat
    BY <2>1, QueueLengths, QueueLengthsNext
  <2>3. CASE Command
    <3>1. Backlog' < Backlog
      BY <2>1, <2>3, HandlerStepsDown, TakeCountsDown DEF Command
    <3>2. Backlog' <= Backlog
      BY <3>1, <2>2
    <3> QED BY <3>1, <3>2
  <2>4. CASE Loop /\ ~Command
    BY <2>1, <2>2, <2>4, LoopKeepsBacklog
  <2>5. CASE (\E kind \in Kinds : Arrive(kind)) /\ ~Command
    <3>1. PICK c : pending' = Append(pending, c)
      BY <2>5 DEF Arrive
    <3>2. local' = local /\ pc' = pc
      BY <2>5 DEF Arrive, MainUnchanged
    <3>3. pending \in Seq(Commands) /\ pending' \in Seq(Commands)
      BY <2>1 DEF TypedShape, TypeOK
    <3>4. Len(pending') = Len(pending) + 1
      BY <3>1, <3>3
    <3>5. HandlerLeft' = HandlerLeft
      BY <3>2 DEF HandlerLeft
    <3>6. Backlog' = Backlog + 6
      BY <2>1, <3>2, <3>4, <3>5, QueueLengths, HandlerLeftType DEF Backlog
    <3> QED BY <2>5, <3>6
  <2>6. CASE /\ ~Command
             /\ LoseConnection \/ DeviceStep \/ Signal \/ UNCHANGED vars
    <3>1. local' = local /\ pending' = pending /\ pc' = pc
      BY <2>6 DEF LoseConnection, DeviceStep, Signal, MainUnchanged, vars
    <3>2. HandlerLeft' = HandlerLeft
      BY <3>1 DEF HandlerLeft
    <3>3. Backlog' = Backlog
      BY <3>1, <3>2 DEF Backlog
    <3> QED BY <2>2, <2>6, <3>3
  <2> QED BY <1>2, <2>3, <2>4, <2>5, <2>6 DEF Next, Main, Ended
<1>3. IInv /\ [Next]_vars =>
        [/\ Command => Backlog' < Backlog
         /\ \/ Backlog' <= Backlog
            \/ Backlog' = Backlog + 6 /\ \E kind \in Kinds : Arrive(kind)]_vars
  BY <1>2
<1>4. IInv /\ AnsweredInOrder => Backlog \in Nat /\ (Backlog = 0 => ack.n = arrived)
  BY <1>1
<1> QED BY <1>3, <1>4, InvariantHolds, OneAnswerEach, PTL DEF Spec
=============================================================================
