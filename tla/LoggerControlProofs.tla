------------------------- MODULE LoggerControlProofs -------------------------
(***************************************************************************)
(* Proofs about LoggerControl, for any number of clicks: the composition   *)
(* keeps the invariants of EkinoxLogger, a documented reply is read as     *)
(* what the device does, and a click costs at most three commands.         *)
(***************************************************************************)
EXTENDS LoggerControl, EkinoxLoggerProofs, LoggerApiProofs, FiniteSetTheorems

-----------------------------------------------------------------------------
(* Replies.                                                                 *)

LEMMA AnswersAre ==
    ASSUME NEW d \in DeviceStates
    PROVE  Answers[d] = {d, "error"}
<1> DEFINE get(o) == GetClass(DataLoggerGet(TRUE, 80, TRUE, 200, {o}))
           failure == GetClass(DataLoggerGet(TRUE, 80, FALSE, 0, {}))
<1>1. Answers[d] = {get(o) : o \in Documented(d)} \cup {failure}
  BY DEF Answers
<1>2. d \in DeviceAnswers /\ 80 \in Int /\ 80 > 0 /\ 200 \in 200..299
  BY DEF DeviceStates, DeviceAnswers
<1>3. ASSUME NEW o \in Documented(d) PROVE get(o) = d
  <2>1. \A port \in Int, http \in 200..299 :
           port > 0 => GetClass(DataLoggerGet(TRUE, port, TRUE, http, {o})) = d
    BY <1>2, DocumentedGet
  <2> QED BY <1>2, <2>1
<1>4. failure = "error"
  BY DEF DataLoggerGet, ValidTarget, PerformHttpRequest, Failed, GetClass,
         ReportsRecording, ReportsIdle, LoggerStateMatches
<1>5. \E o : o \in Documented(d)
  <2> DEFINE o == [status |-> {IF d = "recording" THEN "recording" ELSE "ready"},
                   session |-> {}, speed |-> {}, flags |-> [i \in 1..4 |-> {}]]
  <2>1. o.status \in Optional(StatusValues)
    BY DEF Optional, StatusValues
  <2>2. {} \in Optional(Names \cup {""}) /\ {} \in Optional(Speeds) /\ {} \in Optional(BOOLEAN)
    BY DEF Optional
  <2>3. o \in Objects
    BY <2>1, <2>2 DEF Objects
  <2>4. o \in Documented(d)
    BY <2>3 DEF Documented
  <2> QED BY <2>4
<1> HIDE DEF get, failure
<1>6. {get(o) : o \in Documented(d)} = {d}
  BY <1>3, <1>5
<1> QED BY <1>1, <1>4, <1>6

LEMMA AnswersTyped == \A d \in DeviceStates : Answers[d] \subseteq GetReplies
BY AnswersAre DEF GetReplies

-----------------------------------------------------------------------------
(* The composition takes steps of EkinoxLogger.                             *)

LEMMA ServiceStepIsMain ==
    ASSUME TypeOK, ServiceStep
    PROVE  Main
<1>1. \A r \in Answers[device] : r \in GetReplies
  BY AnswersTyped DEF TypeOK
<1>2. CASE OtherStep
  BY <1>2 DEF OtherStep, Main, Loop, Command, StartStep, StopStep
<1>3. ASSUME NEW r \in Answers[device], GetStep(r)
      PROVE  Main
  BY <1>1, <1>3 DEF GetStep, Main, Loop, Command, StartStep, StopStep
<1> QED BY <1>2, <1>3 DEF ServiceStep

LEMMA PublishIsStep ==
    ASSUME NEW kind \in {"start", "stop", "status"}, Publish(kind)
    PROVE  [Next]_vars
BY KindsAssumption DEF Publish, Next, LoggerKinds

LEMMA ControlStepIsStep ==
    ASSUME TypeOK, [ControlNext]_all
    PROVE  [Next]_vars
<1>1. CASE ServiceStep
  BY <1>1, ServiceStepIsMain DEF Next
<1>2. CASE Environment
  BY <1>2 DEF Environment, Next
<1>3. ASSUME NEW kind \in {"start", "stop"}, Click(kind)
      PROVE  [Next]_vars
  BY <1>3, PublishIsStep DEF Click
<1>4. CASE Refresh
  BY <1>4, PublishIsStep DEF Refresh
<1>5. CASE WindowConnects \/ WindowDisconnects \/ PresenceSeen \/ StatusSeen \/ StopAckSeen
  BY <1>5 DEF WindowConnects, WindowDisconnects, PresenceSeen, StatusSeen, StopAckSeen
<1>6. CASE UNCHANGED all
  BY <1>6 DEF all
<1> QED BY <1>1, <1>2, <1>3, <1>4, <1>5, <1>6 DEF ControlNext, Operator, Window

\* The invariant of EkinoxLogger, its numbering included, in the composition.
Base == IInv /\ AnsweredInOrder

LEMMA BaseInit == Init => Base
<1>1. Init => IInv
  BY InitType DEF Init, IInv, TypedShape, Shape, Evidence, StartPcs, StopPcs, HandlerPcs
<1>2. Init => AnsweredInOrder
  BY DEF Init, NoAck, AnsweredInOrder, Service!AnsweredInOrder, Service!Open
<1> QED BY <1>1, <1>2 DEF Base

LEMMA BaseStep ==
    ASSUME Base, [Next]_vars
    PROVE  Base'
<1>1. IInv /\ TypedShape /\ AnsweredInOrder
  BY DEF Base, IInv
<1>2. IInv'
  BY <1>1, StepKeepsTypedShape, StepKeepsEvidence DEF IInv
<1>3. AnsweredInOrder'
  BY <1>1, <1>2, StepRefines, StepKeepsOrder
<1> QED BY <1>2, <1>3 DEF Base

-----------------------------------------------------------------------------
(* The types of the window.                                                 *)

WindowTypes ==
    /\ linked \in BOOLEAN /\ online \in BOOLEAN /\ shows \in BOOLEAN
    /\ timers \in Nat /\ acks \in Nat
    /\ clicks \in 0..MaxClicks

LEMMA WindowTypesStep ==
    ASSUME TypeOK, WindowTypes, [ControlNext]_all
    PROVE  WindowTypes'
<1>1. MaxClicks \in Nat
  BY ClicksAssumption
<1>2. CASE ServiceStep \/ Environment
  BY <1>2 DEF ServiceStep, Environment, window, WindowTypes
<1>3. ASSUME NEW kind \in {"start", "stop"}, Click(kind)
      PROVE  WindowTypes'
  BY <1>1, <1>3 DEF Click, WindowTypes
<1>4. CASE Refresh \/ StopAckSeen
  BY <1>4 DEF Refresh, StopAckSeen, WindowTypes
<1>5. CASE WindowConnects \/ WindowDisconnects
  <2>1. linked' \in BOOLEAN /\ (online' = online \/ online' = FALSE) /\ (shows' = shows \/ shows' = FALSE)
    BY <1>5 DEF WindowConnects, WindowDisconnects
  <2>2. timers' = timers /\ (acks' = acks \/ acks' = 0) /\ clicks' = clicks
    BY <1>5 DEF WindowConnects, WindowDisconnects
  <2>3. linked' \in BOOLEAN /\ online' \in BOOLEAN /\ shows' \in BOOLEAN
    BY <2>1 DEF WindowTypes
  <2>4. timers' \in Nat /\ acks' \in Nat /\ clicks' \in 0..MaxClicks
    BY <2>2 DEF WindowTypes
  <2> QED BY <2>3, <2>4 DEF WindowTypes
<1>6. CASE PresenceSeen
  BY <1>6 DEF PresenceSeen, WindowTypes
<1>7. CASE StatusSeen
  <2>1. published.recording \in BOOLEAN
    BY DEF TypeOK, Statuses
  <2>2. shows' \in BOOLEAN
    BY <1>7, <2>1 DEF StatusSeen
  <2>3. /\ linked' = linked /\ online' = online
        /\ timers' = timers /\ acks' = acks /\ clicks' = clicks
    BY <1>7 DEF StatusSeen
  <2> QED BY <2>2, <2>3 DEF WindowTypes
<1>8. CASE UNCHANGED all
  BY <1>8 DEF all, window, WindowTypes
<1> QED BY <1>2, <1>3, <1>4, <1>5, <1>6, <1>7, <1>8 DEF ControlNext, Operator, Window

ControlIInv == Base /\ WindowTypes

LEMMA ControlInvariance == ControlSpec => []ControlIInv
<1>1. ControlInit => ControlIInv
  <2>1. ControlInit => Base
    BY BaseInit DEF ControlInit
  <2>2. 0 \in 0..MaxClicks
    BY ClicksAssumption
  <2>3. ControlInit => linked \in BOOLEAN /\ online \in BOOLEAN /\ shows \in BOOLEAN
    BY DEF ControlInit
  <2>4. ControlInit => timers \in Nat /\ acks \in Nat /\ clicks \in 0..MaxClicks
    BY <2>2 DEF ControlInit
  <2>5. ControlInit => WindowTypes
    BY <2>3, <2>4 DEF WindowTypes
  <2> QED BY <2>1, <2>5 DEF ControlIInv
<1>2. ControlIInv /\ [ControlNext]_all => ControlIInv'
  <2> SUFFICES ASSUME ControlIInv, [ControlNext]_all
               PROVE  ControlIInv'
    OBVIOUS
  <2>1. TypeOK /\ Base /\ WindowTypes
    BY DEF ControlIInv, Base, IInv, TypedShape
  <2>2. [Next]_vars
    BY <2>1, ControlStepIsStep
  <2> QED BY <2>1, <2>2, BaseStep, WindowTypesStep DEF ControlIInv
<1> QED BY <1>1, <1>2, PTL DEF ControlSpec

\* The variables of the composition keep their types.
THEOREM ControlTypeCorrect == ControlSpec => []ControlTypeOK
<1>1. ControlIInv => ControlTypeOK
  BY DEF ControlIInv, Base, IInv, TypedShape, WindowTypes, ControlTypeOK
<1> QED BY <1>1, ControlInvariance, PTL

\* A device that answers as documented is read as it is, for all session names
\* and write speeds.
THEOREM DeviceReadRight == ControlSpec => []ReadsDevice
<1>1. ControlIInv => ReadsDevice
  BY AnswersAre DEF ControlIInv, Base, IInv, TypedShape, TypeOK, ReadsDevice
<1> QED BY <1>1, ControlInvariance, PTL

-----------------------------------------------------------------------------
(* How many stops of a sequence of commands are still open.                 *)

Elements(s) == {s[i] : i \in 1..Len(s)}
Stops(s) == {c \in Elements(s) : c.kind = "stop"}
Count(s) == Cardinality(Stops(s))
One(c) == IF c.kind = "stop" THEN 1 ELSE 0

LEMMA StopsFinite ==
    ASSUME NEW s \in Seq(Commands)
    PROVE  IsFiniteSet(Stops(s)) /\ Count(s) \in Nat
<1>1. IsFiniteSet(1..Len(s))
  BY FS_Interval
<1>2. IsFiniteSet(Elements(s))
  <2> DEFINE f == [i \in 1..Len(s) |-> s[i]]
  <2>1. f \in Surjection(1..Len(s), Elements(s))
    BY DEF Elements, Surjection
  <2> HIDE DEF f
  <2> QED BY <1>1, <2>1, FS_Surjection
<1>3. IsFiniteSet(Stops(s))
  BY <1>2, FS_Subset DEF Stops
<1> QED BY <1>3, FS_CardinalityType DEF Count

LEMMA CountEmpty == Count(<< >>) = 0
<1>1. Stops(<< >>) = {}
  BY DEF Stops, Elements
<1> QED BY <1>1, FS_EmptySet DEF Count

LEMMA CountAppend ==
    ASSUME NEW s \in Seq(Commands), NEW c \in Commands
    PROVE  Count(Append(s, c)) <= Count(s) + One(c)
<1>1. /\ Len(s) \in Nat /\ Len(Append(s, c)) = Len(s) + 1
      /\ \A i \in 1..Len(s) : Append(s, c)[i] = s[i]
      /\ Append(s, c)[Len(s) + 1] = c
  BY AppendProperties, LenProperties
<1>2. Elements(Append(s, c)) \subseteq Elements(s) \cup {c}
  <2> SUFFICES ASSUME NEW i \in 1..(Len(s) + 1)
               PROVE  Append(s, c)[i] \in Elements(s) \cup {c}
    BY <1>1 DEF Elements
  <2>1. i \in 1..Len(s) \/ i = Len(s) + 1
    BY <1>1
  <2> QED BY <1>1, <2>1 DEF Elements
<1>3. IsFiniteSet(Stops(s)) /\ Cardinality(Stops(s)) \in Nat
  BY StopsFinite DEF Count
<1>4. CASE c.kind = "stop"
  <2>1. Stops(Append(s, c)) \subseteq Stops(s) \cup {c}
    BY <1>2 DEF Stops
  <2>2. /\ IsFiniteSet(Stops(s) \cup {c})
        /\ Cardinality(Stops(s) \cup {c}) <= Cardinality(Stops(s)) + 1
    <3>1. IsFiniteSet(Stops(s) \cup {c})
      BY <1>3, FS_AddElement
    <3>2. Cardinality(Stops(s) \cup {c}) \in {Cardinality(Stops(s)), Cardinality(Stops(s)) + 1}
      BY <1>3, FS_AddElement
    <3> QED BY <1>3, <3>1, <3>2
  <2>3. Cardinality(Stops(Append(s, c))) <= Cardinality(Stops(s) \cup {c})
    BY <2>1, <2>2, FS_Subset
  <2>4. /\ Cardinality(Stops(Append(s, c))) \in Nat
        /\ Cardinality(Stops(s) \cup {c}) \in Nat
    BY <2>1, <2>2, FS_Subset, FS_CardinalityType
  <2> QED BY <1>3, <1>4, <2>2, <2>3, <2>4 DEF Count, One
<1>5. CASE c.kind # "stop"
  <2>1. Stops(Append(s, c)) \subseteq Stops(s)
    BY <1>2, <1>5 DEF Stops
  <2>2. Cardinality(Stops(Append(s, c))) <= Cardinality(Stops(s))
    BY <1>3, <2>1, FS_Subset
  <2>3. Cardinality(Stops(Append(s, c))) \in Nat
    BY <1>3, <2>1, FS_Subset, FS_CardinalityType
  <2> QED BY <1>3, <1>5, <2>2, <2>3 DEF Count, One
<1> QED BY <1>4, <1>5

\* The numbering makes the commands of the queue distinct.
LEMMA CountDrop ==
    ASSUME NEW c \in Commands, NEW q \in Seq(Commands), NEW n \in Nat,
           Numbered(<<c>> \o q, n)
    PROVE  Count(q) + One(c) = Count(<<c>> \o q)
<1>1. /\ Len(q) \in Nat
      /\ Len(<<c>> \o q) = Len(q) + 1
      /\ (<<c>> \o q)[1] = c
      /\ \A i \in 1..Len(q) : (<<c>> \o q)[i + 1] = q[i]
  BY LenProperties
<1>2. Elements(<<c>> \o q) = Elements(q) \cup {c}
  <2>1. ASSUME NEW i \in 1..(Len(q) + 1)
        PROVE  (<<c>> \o q)[i] \in Elements(q) \cup {c}
    <3>1. CASE i = 1
      BY <1>1, <3>1
    <3>2. CASE i # 1
      <4>1. i - 1 \in 1..Len(q) /\ (i - 1) + 1 = i
        BY <1>1, <3>2
      <4>2. (<<c>> \o q)[i] = q[i - 1]
        BY <1>1, <4>1
      <4> QED BY <4>1, <4>2 DEF Elements
    <3> QED BY <3>1, <3>2
  <2>2. c \in Elements(<<c>> \o q)
    <3>1. 1 \in 1..Len(<<c>> \o q)
      BY <1>1
    <3> QED BY <1>1, <3>1 DEF Elements
  <2>3. ASSUME NEW i \in 1..Len(q)
        PROVE  q[i] \in Elements(<<c>> \o q)
    <3>1. i + 1 \in 1..Len(<<c>> \o q)
      BY <1>1
    <3> QED BY <1>1, <3>1 DEF Elements
  <2>4. Elements(<<c>> \o q) = {(<<c>> \o q)[i] : i \in 1..(Len(q) + 1)}
    BY <1>1 DEF Elements
  <2>5. Elements(<<c>> \o q) \subseteq Elements(q) \cup {c}
    BY <2>1, <2>4
  <2>6. Elements(q) \subseteq Elements(<<c>> \o q)
    BY <2>3 DEF Elements
  <2> QED BY <2>2, <2>5, <2>6
<1>3. c.n = n + 1 /\ Numbered(q, n + 1)
  BY DropNumbered
<1>4. c \notin Elements(q)
  <2>1. \A i \in 1..Len(q) : q[i].n = n + 1 + i
    BY <1>3 DEF Numbered
  <2>2. \A i \in 1..Len(q) : q[i].n # c.n
    BY <1>1, <1>3, <2>1
  <2> QED BY <2>2 DEF Elements
<1>5. IsFiniteSet(Stops(q)) /\ Cardinality(Stops(q)) \in Nat
  BY StopsFinite DEF Count
<1>6. CASE c.kind = "stop"
  <2>1. Stops(<<c>> \o q) = Stops(q) \cup {c} /\ c \notin Stops(q)
    BY <1>2, <1>4, <1>6 DEF Stops
  <2>2. Cardinality(Stops(q) \cup {c}) = Cardinality(Stops(q)) + 1
    BY <1>5, <2>1, FS_AddElement
  <2> QED BY <1>5, <1>6, <2>1, <2>2 DEF Count, One
<1>7. CASE c.kind # "stop"
  <2>1. Stops(<<c>> \o q) = Stops(q)
    BY <1>2, <1>7 DEF Stops
  <2> QED BY <1>5, <1>7, <2>1 DEF Count, One
<1> QED BY <1>6, <1>7

-----------------------------------------------------------------------------
(* What a step does to the commands that are open.                          *)

Open == Service!Open

\* The acknowledgment and the open commands stay as they are, or the command
\* being executed is acknowledged and leaves.
Keeps == ack' = ack /\ Open' = Open
Leaves(c) ==
    /\ Open = <<c>> \o (local \o pending) /\ Open' = local \o pending
    /\ ack'.kind = c.kind

LEMMA LoopKeepsOpen ==
    ASSUME IInv, Loop
    PROVE  Keeps /\ arrived' = arrived
<1>1. UNCHANGED Service!vars
  BY LoopRefines
<1>2. ack' = ack
  BY DEF Loop, Connect, ConnectFails, Drain, DrainDone, Shutdown, Disconnect,
         Selftest, LoopTail, Proceed
<1> QED BY <1>1, <1>2 DEF Keeps, Open, Service!vars, Service!Open

LEMMA TakeKeepsOpen ==
    ASSUME IInv, Take
    PROVE  Keeps /\ arrived' = arrived
<1> DEFINE q == local \o pending
<1>1. q \in Seq(Commands) /\ Open = current \o q /\ Open' = current' \o q'
  BY OpenType DEF Open, Service!Open
<1>2. /\ current = << >> /\ q # << >>
      /\ current' = <<Head(q)>> /\ q' = Tail(q)
  BY TakeRefines DEF Service!Begin
<1>3. <<Head(q)>> \o Tail(q) = q
  <2> HIDE DEF q
  <2> QED BY <1>1, <1>2, HeadTailProperties
<1>4. Open = q
  BY <1>1, <1>2, ConcatEmptySeq
<1>5. ack' = ack /\ arrived' = arrived
  BY DEF Take
<1> QED BY <1>1, <1>2, <1>3, <1>4, <1>5 DEF Keeps

LEMMA HandlerOpen ==
    ASSUME IInv, HandlerMove
    PROVE  /\ arrived' = arrived
           /\ Keeps \/ \E c \in Commands : Leaves(c)
<1>1. TypeOK /\ Shape /\ Others /\ Queues /\ pc \in HandlerPcs
  BY DEF IInv, TypedShape, HandlerMove
<1>2. arrived' = arrived /\ local' = local /\ pending' = pending
  BY <1>1 DEF Others, Queues
<1>3. PICK c \in Commands : current = <<c>>
  BY <1>1 DEF Shape
<1>4. /\ local \o pending \in Seq(Commands)
      /\ Open = current \o (local \o pending)
      /\ Open' = current' \o (local' \o pending')
  BY OpenType DEF Open, Service!Open
<1>5. CASE \E ok \in BOOLEAN : Ack(ok)
  <2>1. current' = << >> /\ ack'.kind = Head(current).kind
    BY <1>5 DEF Ack
  <2>2. Open' = local \o pending
    BY <1>2, <1>4, <2>1, ConcatEmptySeq
  <2>3. Head(current) = c
    BY <1>3
  <2>4. Leaves(c)
    BY <1>3, <1>4, <2>1, <2>2, <2>3 DEF Leaves
  <2> QED BY <1>2, <2>4
<1>6. CASE \E next \in HandlerPcs : Proceed(next)
  <2>1. current' = current /\ ack' = ack
    BY <1>6 DEF Proceed
  <2> QED BY <1>2, <1>4, <2>1 DEF Keeps
<1> QED BY <1>5, <1>6 DEF HandlerMove

LEMMA MainOpen ==
    ASSUME IInv, Main
    PROVE  /\ arrived' = arrived
           /\ Keeps \/ \E c \in Commands : Leaves(c)
<1>1. TypedShape
  BY DEF IInv
<1>2. CASE Loop
  BY <1>2, LoopKeepsOpen
<1>3. CASE Take
  BY <1>3, TakeKeepsOpen
<1>4. CASE Command /\ ~Take
  <2>1. HandlerMove
    BY <1>1, <1>4, DispatchHandlerMove, GetHandlerMove, PostHandlerMove
       DEF Command, StartStep, StopStep
  <2> QED BY <2>1, HandlerOpen
<1> QED BY <1>2, <1>3, <1>4 DEF Main

LEMMA ArriveOpen ==
    ASSUME IInv, NEW kind \in Kinds, Arrive(kind)
    PROVE  /\ arrived' = arrived + 1
           /\ \E c \in Commands : c.kind = kind /\ Open' = Append(Open, c)
<1> DEFINE c == [n |-> arrived + 1, kind |-> kind]
           q == local \o pending
<1>1. pending \in Seq(Commands) /\ local \in Seq(Commands) /\ arrived \in 0..MaxArrivals
  BY DEF IInv, TypedShape, TypeOK
<1>2. c \in Commands
  BY <1>1, ArrivalsAssumption DEF Arrive, Commands
<1>3. q' = Append(q, c) /\ current' = current /\ arrived' = arrived + 1
  BY ArriveRefines DEF Service!Arrive
<1>4. current \in Seq(Commands) /\ q \in Seq(Commands) /\ Open = current \o q
      /\ Open' = current' \o q'
  BY OpenType DEF Open, Service!Open
<1>5. Open' = current \o Append(q, c)
  BY <1>3, <1>4
<1>6. Open' = Append(Open, c)
  <2> HIDE DEF c, q
  <2> QED BY ONLY <1>2, <1>4, <1>5, AppendToQueue
<1>7. c.kind = kind
  OBVIOUS
<1> QED BY <1>2, <1>3, <1>6, <1>7

-----------------------------------------------------------------------------
(* The budget of a click.                                                   *)

\* Besides the commands that arrived, the timers, the acknowledgments on their
\* way and the stops that are still to be acknowledged may each cause one more.
Budget == arrived + timers + acks + Count(Open) <= 3 * clicks

\* The arithmetic: an acknowledgment on its way becomes a timer, an open stop
\* an acknowledgment on its way.
LEMMA TradeTimer ==
    ASSUME NEW a \in Nat, NEW t \in Nat, NEW k \in Nat, NEW n \in Nat, NEW limit \in Nat,
           NEW t1 \in Nat, NEW k1 \in Nat,
           a + t + k + n <= limit, t1 + k1 <= t + k
    PROVE  a + t1 + k1 + n <= limit
OBVIOUS

LEMMA TradeAck ==
    ASSUME NEW a \in Nat, NEW t \in Nat, NEW k \in Nat, NEW n \in Nat, NEW limit \in Nat,
           NEW k1 \in Nat, NEW m \in Nat, NEW one \in Nat,
           a + t + k + n <= limit, m + one = n, k1 <= k + one
    PROVE  a + t + k1 + m <= limit
OBVIOUS

LEMMA BudgetTypes ==
    ASSUME ControlIInv
    PROVE  /\ arrived \in Nat /\ timers \in Nat /\ acks \in Nat /\ clicks \in Nat
           /\ Open \in Seq(Commands) /\ Count(Open) \in Nat /\ IInv /\ TypeOK
<1>1. IInv /\ TypeOK /\ WindowTypes
  BY DEF ControlIInv, Base, IInv, TypedShape
<1>2. arrived \in Nat /\ clicks \in Nat
  BY <1>1, ArrivalsAssumption, ClicksAssumption DEF TypeOK, WindowTypes
<1>3. Open \in Seq(Commands)
  BY <1>1, OpenType DEF Open
<1>4. Count(Open) \in Nat
  BY <1>3, StopsFinite
<1> QED BY <1>1, <1>2, <1>3, <1>4 DEF WindowTypes

LEMMA ServiceKeepsBudget ==
    ASSUME ControlIInv, ControlIInv', Budget, ServiceStep
    PROVE  Budget'
<1>1. /\ arrived \in Nat /\ timers \in Nat /\ acks \in Nat /\ clicks \in Nat
      /\ Open \in Seq(Commands) /\ Count(Open) \in Nat /\ IInv /\ TypeOK
  BY BudgetTypes
<1>2. Main
  BY <1>1, ServiceStepIsMain
<1>3. arrived' = arrived /\ timers' = timers /\ clicks' = clicks
  BY <1>1, <1>2, MainOpen DEF ServiceStep
<1>4. acks' = acks \/ (acks' = acks + 1 /\ ack' # ack /\ ack'.kind = "stop")
  BY DEF ServiceStep
<1>5. CASE Keeps
  <2>1. acks' = acks /\ Open' = Open
    BY <1>4, <1>5 DEF Keeps
  <2>2. Count(Open)' = Count(Open)
    BY <2>1 DEF Count, Stops, Elements
  <2> QED BY <1>3, <2>1, <2>2 DEF Budget
<1>6. ASSUME NEW c \in Commands, Leaves(c)
      PROVE  Budget'
  <2> DEFINE q == local \o pending
  <2>1. q \in Seq(Commands)
    BY <1>1, OpenType
  <2>2. ack.n \in Nat /\ Numbered(Open, ack.n)
    <3>1. AnsweredInOrder
      BY DEF ControlIInv, Base
    <3>2. ack.n \in Nat
      BY <1>1, ArrivalsAssumption DEF TypeOK, Acks
    <3> QED BY <3>1, <3>2 DEF AnsweredInOrder, Service!AnsweredInOrder, Numbered, Open
  <2>3. Open = <<c>> \o q /\ Open' = q /\ ack'.kind = c.kind
    BY <1>6 DEF Leaves
  <2> HIDE DEF q
  <2>4. Count(q) + One(c) = Count(Open)
    BY <2>1, <2>2, <2>3, CountDrop
  <2>5. Count(Open)' = Count(q)
    BY <2>3 DEF Count, Stops, Elements
  <2>6. acks' <= acks + One(c)
    BY <1>1, <1>4, <2>3 DEF One
  <2>7. Count(q) \in Nat /\ One(c) \in Nat /\ acks' \in Nat
    <3>1. acks' \in Nat
      BY DEF ControlIInv, WindowTypes
    <3> QED BY <2>1, <3>1, StopsFinite DEF One
  <2>8. arrived + timers + acks' + Count(q) <= 3 * clicks
    <3> DEFINE k == Count(Open)
               m == Count(q)
               one == One(c)
               limit == 3 * clicks
    <3>1. arrived + timers + acks + k <= limit /\ m + one = k /\ acks' <= acks + one
      BY <2>4, <2>6 DEF Budget
    <3>2. k \in Nat /\ m \in Nat /\ one \in Nat /\ limit \in Nat /\ acks' \in Nat
      BY <1>1, <2>7
    <3> HIDE DEF k, m, one, limit
    <3>3. arrived + timers + acks' + m <= limit
      BY ONLY <1>1, <3>1, <3>2, TradeAck
    <3> QED BY <3>3 DEF m, limit
  <2> QED BY <1>3, <2>5, <2>8 DEF Budget
<1> QED BY <1>1, <1>2, <1>5, <1>6, MainOpen

\* A command that is published arrives once, or is lost.
LEMMA PublishOpen ==
    ASSUME IInv, NEW kind \in {"start", "stop", "status"}, Publish(kind)
    PROVE  /\ arrived' \in {arrived, arrived + 1}
           /\ \/ arrived' = arrived /\ Open' = Open
              \/ /\ arrived' = arrived + 1
                 /\ \E c \in Commands : c.kind = kind /\ Open' = Append(Open, c)
<1>1. kind \in Kinds
  BY KindsAssumption DEF LoggerKinds
<1>2. CASE connected
  BY <1>1, <1>2, ArriveOpen DEF Publish
<1>3. CASE ~connected
  <2>1. UNCHANGED vars
    BY <1>3 DEF Publish
  <2> QED BY <2>1 DEF vars, Open, Service!Open
<1> QED BY <1>2, <1>3

LEMMA PublishCost ==
    ASSUME ControlIInv, ControlIInv',
           NEW kind \in {"start", "stop", "status"}, Publish(kind)
    PROVE  arrived' + Count(Open)'
             <= arrived + Count(Open) + 1 + (IF kind = "stop" THEN 1 ELSE 0)
<1>1. /\ arrived \in Nat /\ Open \in Seq(Commands) /\ Count(Open) \in Nat /\ IInv
  BY BudgetTypes
<1>2. CASE arrived' = arrived /\ Open' = Open
  <2>1. Count(Open)' = Count(Open)
    BY <1>2 DEF Count, Stops, Elements
  <2> QED BY <1>1, <1>2, <2>1
<1>3. ASSUME arrived' = arrived + 1, NEW c \in Commands, c.kind = kind, Open' = Append(Open, c)
      PROVE  arrived' + Count(Open)'
               <= arrived + Count(Open) + 1 + (IF kind = "stop" THEN 1 ELSE 0)
  <2>1. Count(Append(Open, c)) <= Count(Open) + One(c)
    BY <1>1, CountAppend
  <2>2. Count(Open)' = Count(Append(Open, c))
    BY <1>3 DEF Count, Stops, Elements
  <2>3. Count(Append(Open, c)) \in Nat
    BY <1>1, StopsFinite, AppendProperties
  <2>4. One(c) = IF kind = "stop" THEN 1 ELSE 0
    BY <1>3 DEF One
  <2> QED BY <1>1, <1>3, <2>1, <2>2, <2>3, <2>4
<1> QED BY <1>1, <1>2, <1>3, PublishOpen

LEMMA QuietKeepsBudget ==
    ASSUME ControlIInv, ControlIInv', Budget, UNCHANGED <<arrived, current, local, pending, clicks>>,
           timers' + acks' <= timers + acks
    PROVE  Budget'
<1>1. /\ arrived \in Nat /\ timers \in Nat /\ acks \in Nat /\ clicks \in Nat
      /\ Count(Open) \in Nat
  BY BudgetTypes
<1>2. timers' \in Nat /\ acks' \in Nat
  BY DEF ControlIInv, WindowTypes
<1>3. Open' = Open
  BY DEF Open, Service!Open
<1>4. Count(Open)' = Count(Open)
  BY <1>3 DEF Count, Stops, Elements
<1>5. arrived + timers' + acks' + Count(Open) <= 3 * clicks
  <2> DEFINE k == Count(Open)
             limit == 3 * clicks
  <2>1. arrived + timers + acks + k <= limit /\ timers' + acks' <= timers + acks
    BY DEF Budget
  <2>2. k \in Nat /\ limit \in Nat
    BY <1>1
  <2> HIDE DEF k, limit
  <2>3. arrived + timers' + acks' + k <= limit
    BY ONLY <1>1, <1>2, <2>1, <2>2, TradeTimer
  <2> QED BY <2>3 DEF k, limit
<1> QED BY <1>4, <1>5 DEF Budget

LEMMA WindowKeepsBudget ==
    ASSUME ControlIInv, ControlIInv', Budget, Environment \/ Operator \/ Window \/ UNCHANGED all
    PROVE  Budget'
<1>1. /\ arrived \in Nat /\ timers \in Nat /\ acks \in Nat /\ clicks \in Nat
      /\ Count(Open) \in Nat
  BY BudgetTypes
<1>2. /\ arrived' \in Nat /\ timers' \in Nat /\ acks' \in Nat /\ clicks' \in Nat
      /\ Count(Open)' \in Nat
  <2>1. TypeOK' /\ WindowTypes' /\ IInv'
    BY DEF ControlIInv, Base, IInv, TypedShape
  <2>2. arrived' \in Nat /\ clicks' \in Nat
    BY <2>1, ArrivalsAssumption, ClicksAssumption DEF TypeOK, WindowTypes
  <2>3. Open' \in Seq(Commands)
    <3>1. /\ current' \in Seq(Commands) /\ local' \in Seq(Commands)
          /\ pending' \in Seq(Commands)
      BY <2>1 DEF TypeOK
    <3> QED BY <3>1, ConcatProperties DEF Open, Service!Open
  <2>4. Count(Open') \in Nat
    BY <2>3, StopsFinite
  <2>5. Count(Open)' = Count(Open')
    BY DEF Count, Stops, Elements
  <2> QED BY <2>1, <2>2, <2>4, <2>5 DEF WindowTypes
<1>3. CASE Environment
  <2>1. UNCHANGED <<arrived, current, local, pending>>
    BY <1>3 DEF Environment, LoseConnection, DeviceStep, MainUnchanged
  <2>2. UNCHANGED <<timers, acks, clicks>>
    BY <1>3 DEF Environment, window
  <2>3. timers' + acks' <= timers + acks
    BY <1>1, <2>2
  <2> QED BY <2>1, <2>2, <2>3, QuietKeepsBudget
<1>4. ASSUME NEW kind \in {"start", "stop"}, Click(kind)
      PROVE  Budget'
  <2>1. /\ clicks' = clicks + 1 /\ timers' = timers + 1 /\ acks' = acks /\ Publish(kind)
    BY <1>4 DEF Click
  <2>2. arrived' + Count(Open)' <= arrived + Count(Open) + 2
    BY <1>1, <1>2, <2>1, PublishCost
  <2>3. arrived' + (timers + 1) + acks + Count(Open)' <= 3 * (clicks + 1)
    BY <1>1, <1>2, <2>2 DEF Budget
  <2> QED BY <2>1, <2>3 DEF Budget
<1>5. CASE Refresh
  <2>1. timers > 0 /\ timers' = timers - 1 /\ acks' = acks /\ clicks' = clicks
    BY <1>5 DEF Refresh
  <2>2. arrived' + Count(Open)' <= arrived + Count(Open) + 1
    <3>1. CASE linked
      BY <1>1, <1>2, <1>5, <3>1, PublishCost DEF Refresh
    <3>2. CASE ~linked
      <4>1. UNCHANGED vars
        BY <1>5, <3>2 DEF Refresh
      <4>2. arrived' = arrived /\ Open' = Open
        BY <4>1 DEF vars, Open, Service!Open
      <4>3. Count(Open)' = Count(Open)
        BY <4>2 DEF Count, Stops, Elements
      <4> QED BY <1>1, <4>2, <4>3
    <3> QED BY <3>1, <3>2
  <2>3. arrived' + (timers - 1) + acks + Count(Open)' <= 3 * clicks
    BY <1>1, <1>2, <2>2 DEF Budget
  <2> QED BY <2>1, <2>3 DEF Budget
<1>6. CASE WindowConnects \/ WindowDisconnects \/ PresenceSeen \/ StatusSeen \/ StopAckSeen
           \/ UNCHANGED all
  <2>1. UNCHANGED vars
    BY <1>6 DEF WindowConnects, WindowDisconnects, PresenceSeen, StatusSeen, StopAckSeen, all
  <2>2. UNCHANGED <<arrived, current, local, pending>>
    BY <2>1 DEF vars
  <2>3. /\ clicks' = clicks
        /\ \/ timers' = timers /\ (acks' = acks \/ acks' = 0)
           \/ timers' = timers + 1 /\ acks' = acks - 1
    BY <1>6 DEF WindowConnects, WindowDisconnects, PresenceSeen, StatusSeen, StopAckSeen,
                all, window
  <2>4. timers' + acks' <= timers + acks
    BY <1>1, <2>3
  <2> QED BY <2>2, <2>3, <2>4, QuietKeepsBudget
<1> QED BY <1>3, <1>4, <1>5, <1>6 DEF Operator, Window

\* However often the operator clicks, a click costs the service at most three
\* commands.
THEOREM TrafficIsBounded == ControlSpec => []TrafficBounded
<1>1. ControlInit => Budget
  <2> SUFFICES ASSUME ControlInit PROVE Budget
    OBVIOUS
  <2>1. arrived = 0 /\ timers = 0 /\ acks = 0 /\ clicks = 0 /\ Open = << >>
    BY DEF ControlInit, Init, Open, Service!Open
  <2> QED BY <2>1, CountEmpty DEF Budget
<1>2. ControlIInv /\ ControlIInv' /\ Budget /\ [ControlNext]_all => Budget'
  BY ServiceKeepsBudget, WindowKeepsBudget DEF ControlNext
<1>3. ControlIInv /\ Budget => TrafficBounded
  <2> SUFFICES ASSUME ControlIInv, Budget PROVE TrafficBounded
    OBVIOUS
  <2>1. /\ arrived \in Nat /\ timers \in Nat /\ acks \in Nat /\ clicks \in Nat
        /\ Count(Open) \in Nat
    BY BudgetTypes
  <2> QED BY <2>1 DEF Budget, TrafficBounded
<1> QED BY <1>1, <1>2, <1>3, ControlInvariance, PTL DEF ControlSpec

-----------------------------------------------------------------------------
(* The composition implements its service, and keeps what that promises.    *)

\* Whatever the operator clicks and the window asks for, what the service sees
\* is a behaviour of EkinoxLogger: no composed step gives it a reply, a command
\* or a state that its own specification does not have.
THEOREM ComposedService == ControlSpec => Spec
<1>1. ControlInit => Init
  BY DEF ControlInit
<1>2. ControlIInv /\ [ControlNext]_all => [Next]_vars
  BY ControlStepIsStep DEF ControlIInv, Base, IInv, TypedShape
<1> QED BY <1>1, <1>2, ControlInvariance, PTL DEF ControlSpec, Spec

\* Seen from the window, the commands it publishes are executed in the order of
\* arrival, each is answered once, and an ok for a start or a stop is backed by
\* what the device did during the command.
THEOREM ComposedRefinement == ControlSpec => ImplementsCommandService
BY ComposedService, Refinement, PTL

\* The published status that the indicator and the buttons follow keeps the
\* invariants of the service: no command lost or doubled, RECORDING has its
\* flag, and a transitional state between commands follows a flagless reply.
THEOREM ComposedSafety ==
    ControlSpec => [](AnsweredInOrder /\ RecordingIsActive /\ TransitionalStateSettles)
BY ComposedService, OneAnswerEach, RecordingActive, TransitionalSettles, PTL

\* When the window hears of a start or a stop, the retained status it reads is
\* the one the acknowledgment is about.
THEOREM ComposedAck == ControlSpec => AckedStatusIsPublished
BY ComposedService, AckedPublished, PTL

-----------------------------------------------------------------------------
(* What the device does travels to the buttons and is not lost on the way.  *)

Records == device = "recording"

\* The service knows, the broker is told, the window shows what the device does.
Known == status.recording = Records
Told == Known /\ published.recording = Records
Shown == Told /\ shows = Records

\* While both sessions last and nobody operates the device.
Undisturbed == connected /\ connected' /\ linked /\ linked' /\ device' = device

\* What one step of the service does to what is known and told.
Tells ==
    /\ device' = device
    /\ status'.recording \in {status.recording, Records}
    /\ published'.recording \in {published.recording, status'.recording}

LEMMA GetTells ==
    ASSUME NEW s \in Statuses, device \in DeviceStates, NEW r \in Answers[device]
    PROVE  /\ GetStatus(s, r).recording \in {s.recording, Records}
           /\ r = device => GetStatus(s, r).recording = Records
           /\ GetStatus(s, r) \in Statuses
<1>1. r \in {device, "error"}
  BY AnswersAre
<1>2. CASE r = "error"
  BY <1>2 DEF GetStatus, Statuses, ServiceStates, DeviceStates
<1>3. CASE r = device
  BY <1>3 DEF GetStatus, Statuses, ServiceStates, DeviceStates, Records
<1> QED BY <1>1, <1>2, <1>3

LEMMA RelabelTells ==
    ASSUME NEW s \in Statuses
    PROVE  /\ \A x \in ServiceStates : [s EXCEPT !.state = x].recording = s.recording
           /\ \A r \in PostReplies : PostFailed(s, r).recording = s.recording
BY DEF Statuses, PostFailed

LEMMA SameTells ==
    ASSUME device' = device, UNCHANGED <<status, published>>
    PROVE  Tells
BY DEF Tells

LEMMA PublishTells ==
    ASSUME device' = device, NEW s, SetAndPublish(s),
           s.recording \in {status.recording, Records}
    PROVE  Tells
BY DEF SetAndPublish, Tells

LEMMA GetStepTells ==
    ASSUME TypeOK, NEW r \in Answers[device], GetStep(r)
    PROVE  Tells
<1> DEFINE g == GetStatus(status, r)
<1>1. status \in Statuses /\ device \in DeviceStates
  BY DEF TypeOK
<1>2. g.recording \in {status.recording, Records} /\ g \in Statuses
  BY <1>1, GetTells
<1>3. /\ \A x \in ServiceStates : [g EXCEPT !.state = x].recording = g.recording
      /\ PostFailed(g, "internal").recording = g.recording
  BY <1>2, RelabelTells DEF PostReplies
<1>4. "STARTING" \in ServiceStates /\ "STOPPING" \in ServiceStates
  BY DEF ServiceStates
<1>5. device' = device
  BY DEF GetStep, Selftest, LoopTail, StartPrecheck, StartConflict, StartVerifyNow,
         StartVerifyLater, StopPrecheck, StopPostError, StopVerifyNow, StopVerifyLater,
         LoggerStatus, Others
<1>6. \/ SetAndPublish(g)
      \/ SetAndPublish([g EXCEPT !.state = "STARTING"])
      \/ SetAndPublish([g EXCEPT !.state = "STOPPING"])
      \/ SetAndPublish(PostFailed(g, "internal"))
      \/ status' = g /\ published' = published
      \/ status' \in {g, status} /\ published' \in {status', published}
  <2>1. CASE Selftest(r) \/ StartConflict(r) \/ StartVerifyLater(r)
                 \/ StopVerifyLater(r) \/ LoggerStatus(r)
    BY <2>1 DEF Selftest, StartConflict, StartVerifyLater, StopVerifyLater, LoggerStatus
  <2>2. CASE StartPrecheck(r) \/ StopPrecheck(r) \/ StopPostError(r)
    BY <2>2 DEF StartPrecheck, StopPrecheck, StopPostError
  <2>3. CASE StartVerifyNow(r) \/ StopVerifyNow(r)
    BY <2>3 DEF StartVerifyNow, StopVerifyNow
  <2>4. CASE \E poll, publish \in BOOLEAN : LoopTail(r, poll, publish)
    BY <2>4 DEF LoopTail
  <2> QED BY <2>1, <2>2, <2>3, <2>4 DEF GetStep
<1> HIDE DEF g
<1>7. CASE \/ SetAndPublish(g)
           \/ SetAndPublish([g EXCEPT !.state = "STARTING"])
           \/ SetAndPublish([g EXCEPT !.state = "STOPPING"])
           \/ SetAndPublish(PostFailed(g, "internal"))
  BY <1>2, <1>3, <1>4, <1>5, <1>7, PublishTells
<1>8. CASE \/ status' = g /\ published' = published
           \/ status' \in {g, status} /\ published' \in {status', published}
  BY <1>2, <1>5, <1>8 DEF Tells
<1> QED BY <1>6, <1>7, <1>8

\* Connect clears the flag, but there is no session before it.
LEMMA OtherStepTells ==
    ASSUME TypeOK, connected, OtherStep
    PROVE  Tells
<1>1. device' = device
  BY DEF OtherStep, Connect, ConnectFails, Drain, DrainDone, Take, DispatchAtOnce,
         DispatchLogger, StartPost, StopPost, Others
<1>2. CASE Drain \/ DrainDone \/ Take \/ DispatchAtOnce \/ DispatchLogger
  BY <1>1, <1>2, SameTells DEF Drain, DrainDone, Take, DispatchAtOnce, DispatchLogger
<1>3. ASSUME NEW r \in PostReplies, StartPost(r) \/ StopPost(r)
      PROVE  Tells
  <2>1. UNCHANGED <<status, published>> \/ SetAndPublish(PostFailed(status, r))
    BY <1>3 DEF StartPost, StopPost
  <2>2. PostFailed(status, r).recording = status.recording
    BY RelabelTells DEF TypeOK
  <2> QED BY <1>1, <2>1, <2>2, SameTells, PublishTells
<1> QED BY <1>2, <1>3 DEF OtherStep, Connect, ConnectFails

LEMMA ServiceStepTells ==
    ASSUME TypeOK, connected, ServiceStep
    PROVE  Tells /\ shows' = shows
BY GetStepTells, OtherStepTells DEF ServiceStep

Settles ==
    Undisturbed =>
        /\ Known => Known'
        /\ Told => Told'
        /\ Shown => Shown'
        /\ (\E publish \in BOOLEAN : LoopTail(device, TRUE, publish)) => Known'
        /\ Known /\ (\E r \in Answers[device], poll \in BOOLEAN : LoopTail(r, poll, TRUE))
               => Told'
        /\ Told /\ StatusSeen => Shown'

LEMMA StepSettles ==
    ASSUME TypeOK, [ControlNext]_all
    PROVE  Settles
<1> SUFFICES ASSUME Undisturbed
             PROVE  /\ Known => Known'
                    /\ Told => Told'
                    /\ Shown => Shown'
                    /\ (\E publish \in BOOLEAN : LoopTail(device, TRUE, publish)) => Known'
                    /\ Known /\ (\E r \in Answers[device], poll \in BOOLEAN :
                                     LoopTail(r, poll, TRUE)) => Told'
                    /\ Told /\ StatusSeen => Shown'
  BY DEF Settles
<1>1. /\ connected /\ connected' /\ linked /\ linked' /\ device' = device
      /\ status \in Statuses /\ device \in DeviceStates
  BY DEF Undisturbed, TypeOK
<1>2. (Known => Known') /\ (Told => Told') /\ (Shown => Shown')
  <2>1. CASE ServiceStep
    <3>1. Tells /\ shows' = shows
      BY <1>1, <2>1, ServiceStepTells
    <3> QED BY <3>1 DEF Tells, Known, Told, Shown, Records
  <2>2. CASE StatusSeen
    BY <2>2 DEF StatusSeen, vars, Known, Told, Shown, Records
  <2>3. CASE /\ ~ServiceStep /\ ~StatusSeen
             /\ Environment \/ Operator \/ Window \/ UNCHANGED all
    <3>1. UNCHANGED <<status, published, device, shows>>
      <4>1. CASE Environment
        BY <1>1, <4>1 DEF Environment, LoseConnection, DeviceStep, window
      <4>2. CASE Operator
        BY <4>2 DEF Operator, Click, Publish, Arrive, vars
      <4>3. CASE Window
        BY <1>1, <2>3, <4>3 DEF Window, WindowConnects, WindowDisconnects, PresenceSeen,
                  StopAckSeen, Refresh, Publish, Arrive, vars
      <4>4. CASE UNCHANGED all
        BY <4>4 DEF all, vars, window
      <4> QED BY <2>3, <4>1, <4>2, <4>3, <4>4
    <3> QED BY <3>1 DEF Known, Told, Shown, Records
  <2> QED BY <2>1, <2>2, <2>3 DEF ControlNext
<1>3. ASSUME NEW publish \in BOOLEAN, LoopTail(device, TRUE, publish)
      PROVE  Known'
  <2>1. status' = GetStatus(status, device)
    BY <1>3 DEF LoopTail
  <2>2. device \in Answers[device]
    BY <1>1, AnswersAre
  <2> QED BY <1>1, <2>1, <2>2, GetTells DEF Known, Records
<1>4. ASSUME Known, NEW r \in Answers[device], NEW poll \in BOOLEAN, LoopTail(r, poll, TRUE)
      PROVE  Told'
  <2>1. published' = status' /\ status' \in {status, GetStatus(status, r)}
    BY <1>1, <1>4 DEF LoopTail
  <2>2. status'.recording = Records
    BY <1>1, <1>4, <2>1, GetTells DEF Known
  <2> QED BY <1>1, <2>1, <2>2 DEF Known, Told, Records
<1>5. ASSUME Told, StatusSeen
      PROVE  Shown'
  BY <1>5 DEF StatusSeen, vars, Told, Known, Shown, Records
<1> QED BY <1>2, <1>3, <1>4, <1>5

\* What ControlsFollowDevice rests on besides fairness.  One poll that the
\* device answers makes the service know, one publication then tells the broker
\* and one status event makes the window show whether the device records; and
\* while the sessions last and the device is left alone no command, reply, late
\* acknowledgment or refresh takes any of it back.  A window that shows it
\* offers the button that the device allows.
THEOREM TruthSettles ==
    ControlSpec =>
        /\ [][Settles]_all
        /\ [](Shown /\ linked /\ online =>
                  IF device = "recording" THEN EnableStop ELSE EnableStart)
<1>1. ControlIInv /\ [ControlNext]_all => [Settles]_all
  BY StepSettles DEF ControlIInv, Base, IInv, TypedShape
<1>2. ControlIInv => (Shown /\ linked /\ online =>
                          IF device = "recording" THEN EnableStop ELSE EnableStart)
  <2>1. WindowTypes => shows \in BOOLEAN
    BY DEF WindowTypes
  <2> QED BY <2>1 DEF ControlIInv, Shown, Records, EnableStop, EnableStart
<1> QED BY <1>1, <1>2, ControlInvariance, PTL DEF ControlSpec
=============================================================================
