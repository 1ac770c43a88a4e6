----------------------------- MODULE BackendProofs -----------------------------
(***************************************************************************)
(* Proofs about Backend, for every size of the consumer's queue: the type  *)
(* invariant, that the connect thread never waits on a session that is     *)
(* gone, and that a served session is shown online.                        *)
(***************************************************************************)
EXTENDS Backend, TLAPS

-----------------------------------------------------------------------------
(* The consumer's queue.                                                    *)

LEMMA PutNullEffect ==
    ASSUME NEW q \in Seq(Messages), Len(q) <= MaxQueue + 1,
           Len(q) > MaxQueue => q[Len(q)] = "null"
    PROVE  /\ PutNull(q) \in Seq(Messages) /\ Len(PutNull(q)) <= MaxQueue + 1
           /\ Len(PutNull(q)) > MaxQueue => PutNull(q)[Len(PutNull(q))] = "null"
           /\ \E i \in 1..Len(PutNull(q)) : PutNull(q)[i] = "null"
<1>0. "null" \in Messages /\ MaxQueue \in Nat /\ Len(q) \in Nat
  BY QueueAssumption DEF Messages
<1>1. CASE q # <<>> /\ q[Len(q)] = "null"
  <2>1. PutNull(q) = q /\ Len(q) \in 1..Len(q)
    BY <1>0, <1>1 DEF PutNull
  <2> QED BY <2>1, <1>1
<1>2. CASE ~(q # <<>> /\ q[Len(q)] = "null")
  <2> DEFINE r == Append(q, "null")
  <2>1. PutNull(q) = r
    BY <1>2 DEF PutNull
  <2>2. r \in Seq(Messages) /\ Len(r) = Len(q) + 1 /\ r[Len(r)] = "null"
    BY <1>0
  <2>3. Len(q) <= MaxQueue
    <3>1. CASE q = <<>>
      BY <3>1, <1>0
    <3>2. CASE q # <<>>
      BY <3>2, <1>0, <1>2
    <3> QED BY <3>1, <3>2
  <2> HIDE DEF r
  <2>4. Len(r) \in 1..Len(r)
    BY <1>0, <2>2
  <2> QED BY <1>0, <2>1, <2>2, <2>3, <2>4
<1> QED BY <1>1, <1>2

LEMMA TailEffect ==
    ASSUME NEW q \in Seq(Messages), q # <<>>, Len(q) <= MaxQueue + 1
    PROVE  /\ Tail(q) \in Seq(Messages) /\ Len(Tail(q)) <= MaxQueue
           /\ Head(q) \in Messages
           /\ (\E i \in 1..Len(q) : q[i] = "null") /\ Head(q) # "null"
                  => \E i \in 1..Len(Tail(q)) : Tail(q)[i] = "null"
<1>0. MaxQueue \in Nat
  BY QueueAssumption
<1>1. /\ Tail(q) \in Seq(Messages) /\ Len(Tail(q)) = Len(q) - 1
      /\ Len(q) \in Nat \ {0} /\ Head(q) = q[1] /\ q[1] \in Messages
      /\ \A i \in 1..Len(Tail(q)) : Tail(q)[i] = q[i + 1]
  OBVIOUS
<1>2. ASSUME NEW i \in 1..Len(q), q[i] = "null", Head(q) # "null"
      PROVE  \E k \in 1..Len(Tail(q)) : Tail(q)[k] = "null"
  <2>1. i - 1 \in 1..Len(Tail(q)) /\ i = (i - 1) + 1
    BY <1>1, <1>2
  <2> QED BY <1>1, <1>2, <2>1
<1> QED BY <1>0, <1>1, <1>2

-----------------------------------------------------------------------------
(* The invariant.                                                           *)

LEMMA InitInvariant == Init => IInv
<1> SUFFICES ASSUME Init PROVE IInv
  OBVIOUS
<1>1. /\ queue = <<>> /\ <<>> \in Seq(Messages) /\ Len(<<>>) = 0
      /\ 0 <= MaxQueue + 1 /\ ~(0 > MaxQueue)
  BY QueueAssumption DEF Init
<1>3. TypeOK /\ Room
  BY <1>1 DEF Init, TypeOK, Room, ConnectPcs
<1>2. LossIsQueued /\ Announced /\ Joined
  BY DEF Init, LossIsQueued, Announced, Joined, Handling
<1>4. WillOutlives /\ Forgotten
  BY DEF Init, WillOutlives, Forgotten, Alive
<1> QED BY <1>2, <1>3, <1>4 DEF IInv

\* Steps of the threads and of main that leave the queue alone.
LEMMA QuietSteps ==
    ASSUME IInv,
           \/ Loop \/ ConnectThrows \/ ConnectReturns \/ ConnectAgain \/ Mark \/ Announce
           \/ Subscribe \/ Check \/ Acknowledge \/ HandlerThrows \/ Caught \/ After
           \/ SleepEnds \/ HeartbeatThread \/ Main \/ Enter \/ Kill
           \/ Restore \/ WillFires \/ Deliver \/ UNCHANGED vars
    PROVE  IInv'
<1> USE DEF IInv, At, Alive, ThreadFrame, HeartbeatFrame, MainFrame, Threads,
            client, broker, Dies, vars,
            HeartbeatThread, HeartbeatTop, HeartbeatPublish, HeartbeatThrows,
            HeartbeatSleepEnds, Main, JoinConnect, JoinHeartbeat, Disconnect, Destroy,
            Enter, Kill, Restore, WillFires, Deliver,
            Loop, ConnectThrows, ConnectReturns, ConnectAgain, Mark, Announce,
            Subscribe, Check, Acknowledge, HandlerThrows, Caught, After, SleepEnds
<1>0. queue' = queue
  OBVIOUS
<1>1. TypeOK'
  <2>1. queue' \in Seq(Messages) /\ Len(queue') <= MaxQueue + 1
    BY ONLY <1>0, IInv DEF IInv, TypeOK
  <2>2. tpc' \in ConnectPcs
    BY DEF TypeOK, ConnectPcs
  <2>3. /\ proc' \in {"alive", "ended", "killed", "crashed"}
        /\ mpc' \in {"getline", "join_connect", "join_heartbeat", "disconnect",
                     "destroy", "ended"}
        /\ hpc' \in {"top", "publish", "sleep", "exited"}
    BY DEF TypeOK
  <2>4. connected' \in BOOLEAN /\ stop' \in BOOLEAN /\ consuming' \in BOOLEAN
    BY DEF TypeOK
  <2>5. (link = "up") \in BOOLEAN /\ (disturbed \/ link = "up") \in BOOLEAN
    OBVIOUS
  <2>6. subscribed' \in BOOLEAN
    BY <2>5 DEF TypeOK
  <2>7. disturbed' \in BOOLEAN
    BY <2>5 DEF TypeOK
  <2>8. link' \in {"up", "down"} /\ reach' \in BOOLEAN
    BY DEF TypeOK
  <2>9. will' \in {"none", "armed", "due"}
    BY DEF TypeOK
  <2>10. inflight' \in BOOLEAN
    BY DEF TypeOK
  <2>11. retained' \in {"none", "online", "offline"}
    BY DEF TypeOK
  <2> QED BY ONLY <2>1, <2>2, <2>3, <2>4, <2>6, <2>7, <2>8, <2>9, <2>10, <2>11 DEF TypeOK
<1>2. Room'
  BY ONLY <1>0, IInv DEF IInv, Room
<1>3. LossIsQueued'
  <2>1. tpc' \in Handling \cup {"subscribe"} => consuming'
    BY DEF LossIsQueued, Handling
  <2>2. Alive' /\ tpc' \in Handling =>
            /\ Alive /\ link' = link
            /\ \/ tpc \in Handling /\ subscribed' = subscribed
               \/ link = "up" /\ subscribed'
    <3>1. CASE HeartbeatThread \/ Main \/ Enter \/ Kill \/ Restore \/ WillFires
                 \/ Deliver \/ UNCHANGED vars
      BY <3>1 DEF Joined, Handling
    <3>2. CASE Loop \/ ConnectThrows \/ ConnectReturns \/ ConnectAgain \/ Mark \/ Announce
      BY <3>2 DEF Handling
    <3>3. CASE Subscribe \/ Check \/ Acknowledge \/ HandlerThrows \/ Caught \/ After
                 \/ SleepEnds
      BY <3>3 DEF Handling
    <3> QED BY <3>1, <3>2, <3>3
  <2> QED BY ONLY <1>0, <2>1, <2>2, IInv DEF LossIsQueued, IInv
<1>4. Announced'
  BY DEF Announced, Handling, TypeOK
<1>5. Joined'
  BY DEF Joined
<1>6. WillOutlives'
  <2> USE DEF WillOutlives, Announced, TypeOK
  <2>1. CASE HeartbeatThread \/ Kill
    BY <2>1
  <2>7. CASE Enter \/ Restore \/ UNCHANGED vars
    BY <2>7
  <2>2. CASE Main
    BY <2>2 DEF Joined, Forgotten
  <2>3. CASE WillFires \/ Deliver
    BY <2>3
  <2>4. CASE Loop \/ ConnectThrows \/ ConnectReturns
    BY <2>4
  <2>5. CASE ConnectAgain \/ Mark \/ Announce \/ Check \/ HandlerThrows
    BY <2>5
  <2>6. CASE Subscribe \/ Acknowledge \/ Caught \/ After \/ SleepEnds
    BY <2>6
  <2> QED BY <2>1, <2>2, <2>3, <2>4, <2>5, <2>6, <2>7
<1>7. Forgotten'
  BY DEF Forgotten, TypeOK
<1> QED BY <1>1, <1>2, <1>3, <1>4, <1>5, <1>6, <1>7

\* Steps that fill or empty the queue.
LEMMA QueueSteps ==
    ASSUME IInv, StartConsuming \/ Consume \/ Outage \/ Arrive
    PROVE  IInv'
<1> USE DEF IInv, At, Alive, ThreadFrame, Threads, client, broker
<1>0. /\ queue \in Seq(Messages) /\ Len(queue) <= MaxQueue + 1
      /\ MaxQueue \in Nat
  BY QueueAssumption DEF TypeOK
<1>1. CASE StartConsuming
  <2>1. TypeOK' /\ Room'
    BY <1>0, <1>1 DEF StartConsuming, TypeOK, Room, ConnectPcs
  <2>2. LossIsQueued' /\ Announced' /\ Joined'
    BY <1>1 DEF StartConsuming, LossIsQueued, Announced, Joined, Handling
  <2>3. WillOutlives' /\ Forgotten'
    BY <1>1 DEF StartConsuming, WillOutlives, Forgotten
  <2> QED BY <2>1, <2>2, <2>3
<1>2. CASE Consume
  <2>1. queue # <<>> /\ queue' = Tail(queue)
    BY <1>2 DEF Consume
  <2>2. /\ queue' \in Seq(Messages) /\ Len(queue') <= MaxQueue
        /\ Head(queue) \in {"plain", "odd", "null"}
        /\ (\E i \in 1..Len(queue) : queue[i] = "null") /\ Head(queue) # "null"
               => \E i \in 1..Len(queue') : queue'[i] = "null"
    BY <1>0, <2>1, TailEffect DEF Messages, Commands
  <2>3. tpc' \in {"after", "handle_plain", "handle_odd"}
        /\ (tpc' \in Handling => Head(queue) # "null")
    BY <1>2, <2>2 DEF Consume, Handling
  <2>4. Len(queue') \in Nat
    BY <2>2
  <2>5. TypeOK' /\ Room'
    BY <1>0, <1>2, <2>2, <2>3, <2>4 DEF Consume, TypeOK, Room, ConnectPcs
  <2>6. LossIsQueued' /\ Announced' /\ Joined'
    BY <1>2, <2>2, <2>3 DEF Consume, LossIsQueued, Announced, Joined, Handling
  <2>7. WillOutlives' /\ Forgotten'
    BY <1>2, <2>3 DEF Consume, WillOutlives, Forgotten
  <2> QED BY <2>5, <2>6, <2>7
<1>3. CASE Outage
  <2>1. queue' = queue \/ queue' = PutNull(queue)
    BY <1>3 DEF Outage
  <2>2. /\ queue' \in Seq(Messages) /\ Len(queue') <= MaxQueue + 1
        /\ Room'
    BY <1>0, <2>1, PutNullEffect DEF Room
  <2>3. link = "up" /\ consuming => \E i \in 1..Len(queue') : queue'[i] = "null"
    <3>1. SUFFICES ASSUME link = "up" /\ consuming
                   PROVE  \E i \in 1..Len(queue') : queue'[i] = "null"
      OBVIOUS
    <3>2. queue' = PutNull(queue)
      BY <1>3, <3>1 DEF Outage
    <3> QED BY <1>0, <3>2, PutNullEffect DEF Room
  <2>4. TypeOK'
    <3>1. will' \in {"none", "armed", "due"}
      BY <1>3 DEF Outage, TypeOK
    <3>2. /\ proc' = proc /\ mpc' = mpc /\ tpc' = tpc /\ hpc' = hpc
          /\ connected' = connected /\ stop' = stop /\ disturbed' = disturbed
          /\ consuming' = consuming /\ subscribed' = subscribed
          /\ retained' = retained
      BY <1>3 DEF Outage
    <3>4. reach' \in BOOLEAN /\ link' \in {"up", "down"} /\ inflight' \in BOOLEAN
      BY <1>3 DEF Outage
    <3>3. TypeOK /\ queue' \in Seq(Messages) /\ Len(queue') <= MaxQueue + 1
      BY <2>2
    <3> QED BY ONLY <3>1, <3>2, <3>3, <3>4 DEF TypeOK
  <2>5. LossIsQueued'
    <3>1. link' = "down" /\ tpc' = tpc /\ proc' = proc /\ consuming' = consuming
      BY <1>3 DEF Outage
    <3>2. CASE link = "up"
      BY <2>3, <3>1, <3>2 DEF LossIsQueued, Handling
    <3>3. CASE link = "down"
      <4>1. queue' = queue
        BY <1>3, <3>3 DEF Outage
      <4> QED BY <3>1, <3>3, <4>1 DEF LossIsQueued, Handling
    <3> QED BY <3>2, <3>3 DEF TypeOK
  <2>6. Announced' /\ Joined'
    BY <1>3 DEF Outage, Announced, Joined
  <2>7. WillOutlives' /\ Forgotten'
    BY <1>3 DEF Outage, WillOutlives, Forgotten, Announced, TypeOK
  <2> QED BY <2>2, <2>4, <2>5, <2>6, <2>7
<1>4. CASE Arrive
  <2>1. PICK m \in Commands : queue' = Append(queue, m)
    BY <1>4 DEF Arrive
  <2>2. Len(queue) < MaxQueue
    BY <1>4 DEF Arrive
  <2>3. queue' \in Seq(Messages) /\ Len(queue') = Len(queue) + 1
    BY <1>0, <2>1 DEF Messages
  <2>4. TypeOK' /\ Room'
    BY <1>0, <1>4, <2>2, <2>3 DEF Arrive, TypeOK, Room
  <2>5. LossIsQueued' /\ Announced' /\ Joined'
    BY <1>4 DEF Arrive, LossIsQueued, Announced, Joined
  <2>6. WillOutlives' /\ Forgotten'
    BY <1>4 DEF Arrive, WillOutlives, Forgotten
  <2> QED BY <2>4, <2>5, <2>6
<1> QED BY <1>1, <1>2, <1>3, <1>4

LEMMA StepInvariant == IInv /\ [Next]_vars => IInv'
BY QuietSteps, QueueSteps DEF Next, ConnectThread, Ended

\* The inductive invariant is one.
THEOREM Invariance == Spec => []IInv
BY InitInvariant, StepInvariant, PTL DEF Spec

\* Every variable keeps to its range; the queue never holds more than the
\* commands it has room for and one null.
THEOREM TypeCorrect == Spec => []TypeOK
<1>1. IInv => TypeOK
  BY DEF IInv
<1> QED BY <1>1, Invariance, PTL

\* The connect thread never waits on an empty queue without a session.
THEOREM NoLostWait == Spec => []WaitsOnlyForLiveSession
<1>1. IInv => WaitsOnlyForLiveSession
  <2> SUFFICES ASSUME IInv, At("consume"), queue = <<>>
               PROVE  link = "up" /\ subscribed
    BY DEF WaitsOnlyForLiveSession
  <2>1. ~\E i \in 1..Len(queue) : queue[i] = "null"
    OBVIOUS
  <2> QED BY <2>1 DEF IInv, LossIsQueued, Handling, At
<1> QED BY <1>1, Invariance, PTL

\* A session that is being served is shown online.
THEOREM ServingIsOnline == Spec => []PresenceOnlineWhileServing
<1>1. IInv => PresenceOnlineWhileServing
  BY DEF IInv, Announced, PresenceOnlineWhileServing, Handling
<1> QED BY <1>1, Invariance, PTL

-----------------------------------------------------------------------------
(* What the liveness properties rest on.                                    *)

Dead == proc \in {"killed", "crashed"}

\* DeadReadsOffline up to the fairness of the broker: wherever the process was
\* in its reconnects when it died, the broker reads offline or has yet to
\* publish the will, and no "online" reaches it any more, neither one that
\* was in flight nor one of another session.
THEOREM DeathLeavesWill ==
    Spec => /\ [](Dead /\ consuming => will = "due" \/ retained # "online")
            /\ [][Dead => Dead' /\ (retained' # retained => retained' = "offline")]_vars
<1>1. IInv => (Dead /\ consuming => will = "due" \/ retained # "online")
  BY DEF IInv, WillOutlives, Dead, Alive
<1>2. IInv /\ [Next]_vars => [Dead => Dead' /\ (retained' # retained => retained' = "offline")]_vars
  <2> SUFFICES ASSUME IInv, [Next]_vars, Dead
               PROVE  Dead' /\ (retained' # retained => retained' = "offline")
    OBVIOUS
  <2>1. ~Alive /\ ~inflight
    BY DEF IInv, WillOutlives, Dead, Alive
  <2>2. Restore \/ Outage \/ WillFires \/ Deliver \/ UNCHANGED vars
    BY <2>1 DEF Next, ConnectThread, HeartbeatThread, Main, Enter, Kill, Arrive, Ended, At,
                Loop, ConnectThrows, ConnectReturns, ConnectAgain, Mark, Announce,
                StartConsuming, Subscribe, Check, Consume, Acknowledge, HandlerThrows,
                Caught, After, SleepEnds, HeartbeatTop, HeartbeatPublish, HeartbeatThrows,
                HeartbeatSleepEnds, JoinConnect, JoinHeartbeat, Disconnect, Destroy
  <2> QED BY <2>1, <2>2 DEF Restore, Outage, WillFires, Deliver, Threads, Dead, vars, broker
<1> QED BY <1>1, <1>2, Invariance, PTL DEF Spec

\* stop(): when the connect thread has been joined it has left st_.connected
\* clear, so stop() never sends the DISCONNECT it is written to send.
THEOREM StopFindsDisconnected ==
    Spec => [](mpc \in {"join_heartbeat", "disconnect", "destroy"} => ~connected)
<1>1. IInv => (mpc \in {"join_heartbeat", "disconnect", "destroy"} => ~connected)
  BY DEF IInv, Joined, Forgotten
<1> QED BY <1>1, Invariance, PTL

-----------------------------------------------------------------------------
(* How many steps of the threads and of main are left once stop is set.     *)

ConnectLeft ==
    CASE tpc = "exited"                                  -> 0
      [] tpc = "loop"                                    -> 1
      [] tpc \in {"after", "sleep"}                      -> 2
      [] tpc \in {"caught", "check"}                     -> 3
      [] tpc \in {"handle_plain", "handle_odd", "subscribe"} -> 4
      [] tpc \in {"consume", "consuming"}                -> 5
      [] tpc = "announce"                                -> 6
      [] tpc = "mark"                                    -> 7
      [] tpc = "connect"                                 -> 8

HeartbeatLeft ==
    CASE hpc = "exited"  -> 0
      [] hpc = "top"     -> 1
      [] hpc = "sleep"   -> 2
      [] hpc = "publish" -> 3

MainLeft ==
    CASE mpc = "ended"          -> 0
      [] mpc = "destroy"        -> 1
      [] mpc = "disconnect"     -> 2
      [] mpc = "join_heartbeat" -> 3
      [] mpc = "join_connect"   -> 4
      [] mpc = "getline"        -> 5

StepsLeft == ConnectLeft + HeartbeatLeft + MainLeft

LEMMA SumLess ==
    ASSUME NEW a \in Nat, NEW b \in Nat, NEW c \in Nat, NEW d \in Nat, d < a
    PROVE  /\ d + b + c < a + b + c /\ d + b + c <= a + b + c
           /\ b + d + c < b + a + c /\ b + d + c <= b + a + c
           /\ b + c + d < b + c + a /\ b + c + d <= b + c + a
OBVIOUS

\* What StopReturnsOnTraffic rests on besides fairness: with stop set no thread
\* ever goes round again, so after at most sixteen steps of the two threads
\* and of main the process is gone; nothing else adds to them.
THEOREM StopCountsDown ==
    Spec => /\ [](StepsLeft \in 0..16)
            /\ [][stop => /\ stop' /\ StepsLeft' <= StepsLeft
                          /\ ConnectThread \/ HeartbeatThread \/ Main =>
                                 StepsLeft' < StepsLeft \/ ~Alive']_vars
<1>1. TypeOK => ConnectLeft \in 0..8 /\ HeartbeatLeft \in 0..3 /\ MainLeft \in 0..5
  BY DEF TypeOK, ConnectPcs, ConnectLeft, HeartbeatLeft, MainLeft
<1>2. ASSUME TypeOK, TypeOK', stop, [Next]_vars
      PROVE  /\ stop' /\ StepsLeft' <= StepsLeft
             /\ ConnectThread \/ HeartbeatThread \/ Main => StepsLeft' < StepsLeft \/ ~Alive'
  <2>1. /\ ConnectLeft \in Nat /\ HeartbeatLeft \in Nat /\ MainLeft \in Nat
        /\ ConnectLeft' \in Nat /\ HeartbeatLeft' \in Nat /\ MainLeft' \in Nat
    BY <1>2 DEF TypeOK, ConnectPcs, ConnectLeft, HeartbeatLeft, MainLeft
  <2>2. CASE ConnectThread
    <3>1. stop' = stop /\ hpc' = hpc /\ mpc' = mpc
      BY <2>2 DEF ConnectThread, ThreadFrame, Loop, ConnectThrows, ConnectReturns,
             ConnectAgain, Mark, Announce, StartConsuming, Subscribe, Check, Consume,
             Acknowledge, HandlerThrows, Caught, After, SleepEnds
    <3>2. HeartbeatLeft' = HeartbeatLeft /\ MainLeft' = MainLeft
      BY <3>1 DEF HeartbeatLeft, MainLeft
    <3>3. ConnectLeft' < ConnectLeft
      <4>1. CASE Loop \/ ConnectThrows \/ ConnectReturns \/ ConnectAgain \/ Mark \/ Announce
        BY <1>2, <4>1 DEF Loop, ConnectThrows, ConnectReturns, ConnectAgain, Mark, Announce,
                          At, ConnectLeft
      <4>2. CASE StartConsuming \/ Subscribe \/ Check \/ Acknowledge \/ HandlerThrows
        BY <1>2, <4>2 DEF StartConsuming, Subscribe, Check, Acknowledge, HandlerThrows,
                          At, ConnectLeft
      <4>3. CASE Caught \/ After \/ SleepEnds
        BY <1>2, <4>3 DEF Caught, After, SleepEnds, At, ConnectLeft
      <4>4. CASE Consume
        <5>1. Head(queue) \in Messages
          BY <1>2, <4>4 DEF Consume, TypeOK
        <5>2. tpc' \in {"after", "handle_plain", "handle_odd"} /\ tpc = "consume"
          BY <4>4, <5>1 DEF Consume, At, Messages, Commands
        <5> QED BY <5>2 DEF ConnectLeft
      <4> QED BY <2>2, <4>1, <4>2, <4>3, <4>4 DEF ConnectThread
    <3>4. StepsLeft' < StepsLeft /\ StepsLeft' <= StepsLeft
      BY <2>1, <3>2, <3>3, SumLess DEF StepsLeft
    <3> QED BY <1>2, <3>1, <3>4
  <2>3. CASE HeartbeatThread
    <3>1. stop' = stop /\ tpc' = tpc /\ mpc' = mpc
      BY <2>3 DEF HeartbeatThread, HeartbeatTop, HeartbeatPublish, HeartbeatThrows,
             HeartbeatSleepEnds, HeartbeatFrame, Dies
    <3>2. ConnectLeft' = ConnectLeft /\ MainLeft' = MainLeft
      BY <3>1 DEF ConnectLeft, MainLeft
    <3>3. CASE HeartbeatThrows
      <4>1. hpc' = hpc /\ ~Alive'
        BY <3>3 DEF HeartbeatThrows, Dies, Alive
      <4>2. HeartbeatLeft' = HeartbeatLeft
        BY <4>1 DEF HeartbeatLeft
      <4>3. StepsLeft' <= StepsLeft
        BY <2>1, <3>2, <4>2 DEF StepsLeft
      <4> QED BY <1>2, <3>1, <4>1, <4>3
    <3>4. CASE HeartbeatTop \/ HeartbeatPublish \/ HeartbeatSleepEnds
      <4>1. HeartbeatLeft' < HeartbeatLeft
        BY <1>2, <3>4 DEF HeartbeatTop, HeartbeatPublish, HeartbeatSleepEnds, HeartbeatLeft
      <4>2. StepsLeft' < StepsLeft /\ StepsLeft' <= StepsLeft
        BY <2>1, <3>2, <4>1, SumLess DEF StepsLeft
      <4> QED BY <1>2, <3>1, <4>2
    <3> QED BY <2>3, <3>3, <3>4 DEF HeartbeatThread
  <2>4. CASE Main
    <3>1. stop' = stop /\ tpc' = tpc /\ hpc' = hpc
      BY <2>4 DEF Main, JoinConnect, JoinHeartbeat, Disconnect, Destroy, MainFrame
    <3>2. ConnectLeft' = ConnectLeft /\ HeartbeatLeft' = HeartbeatLeft
      BY <3>1 DEF ConnectLeft, HeartbeatLeft
    <3>3. MainLeft' < MainLeft
      BY <2>4 DEF Main, JoinConnect, JoinHeartbeat, Disconnect, Destroy, MainLeft
    <3>4. StepsLeft' < StepsLeft /\ StepsLeft' <= StepsLeft
      BY <2>1, <3>2, <3>3, SumLess DEF StepsLeft
    <3> QED BY <1>2, <3>1, <3>4
  <2>5. CASE Enter
    <3>1. stop' /\ tpc' = tpc /\ hpc' = hpc /\ mpc = "getline" /\ mpc' = "join_connect"
      BY <2>5 DEF Enter, MainFrame
    <3>2. ConnectLeft' = ConnectLeft /\ HeartbeatLeft' = HeartbeatLeft /\ MainLeft' < MainLeft
      BY <3>1 DEF ConnectLeft, HeartbeatLeft, MainLeft
    <3>3. StepsLeft' < StepsLeft /\ StepsLeft' <= StepsLeft
      BY <2>1, <3>2, SumLess DEF StepsLeft
    <3> QED BY <3>1, <3>3
  <2>6. CASE /\ ~(ConnectThread \/ HeartbeatThread \/ Main)
             /\ Kill \/ Outage \/ Restore \/ WillFires \/ Deliver \/ Arrive \/ UNCHANGED vars
    <3>1. stop' = stop /\ tpc' = tpc /\ hpc' = hpc /\ mpc' = mpc
      BY <2>6 DEF Kill, Dies, Outage, Restore, WillFires, Deliver, Arrive, Threads, vars
    <3>2. /\ ConnectLeft' = ConnectLeft /\ HeartbeatLeft' = HeartbeatLeft
          /\ MainLeft' = MainLeft
      BY <3>1 DEF ConnectLeft, HeartbeatLeft, MainLeft
    <3>3. StepsLeft' <= StepsLeft
      BY <2>1, <3>2 DEF StepsLeft
    <3> QED BY <1>2, <2>6, <3>1, <3>3
  <2> QED BY <1>2, <2>2, <2>3, <2>4, <2>5, <2>6 DEF Next, Ended
<1>3. TypeOK => StepsLeft \in 0..16
  BY <1>1 DEF StepsLeft
<1>4. TypeOK /\ TypeOK' /\ [Next]_vars =>
        [stop => /\ stop' /\ StepsLeft' <= StepsLeft
                 /\ ConnectThread \/ HeartbeatThread \/ Main =>
                        StepsLeft' < StepsLeft \/ ~Alive']_vars
  BY <1>2
<1> QED BY <1>3, <1>4, TypeCorrect, PTL DEF Spec

\* Where the connect thread, the heartbeat thread and main have a step to take.
ConnectReady == tpc # "exited" /\ (tpc = "consume" => queue # <<>>)
HeartbeatReady == hpc # "exited"
MainReady ==
    \/ mpc = "join_connect" /\ tpc = "exited"
    \/ mpc = "join_heartbeat" /\ hpc = "exited"
    \/ mpc \in {"disconnect", "destroy"}

\* The one place where stop() hangs: unless the connect thread is waiting in
\* consume_message() on a session that is up and subscribed, some thread has a
\* step to take, and by StopCountsDown it has only so many.
THEOREM StopHangsOnlyInConsume ==
    Spec => [](stop /\ Alive /\ ~ConnectReady /\ ~HeartbeatReady /\ ~MainReady =>
                  /\ tpc = "consume" /\ queue = <<>> /\ link = "up" /\ subscribed
                  /\ mpc = "join_connect")
<1>1. Init => (Alive /\ stop => mpc # "getline") /\ (Alive => mpc # "ended")
  BY DEF Init
<1>2. (Alive /\ stop => mpc # "getline") /\ (Alive => mpc # "ended") /\ [Next]_vars
        => (Alive /\ stop => mpc # "getline")' /\ (Alive => mpc # "ended")'
  BY DEF Next, ConnectThread, HeartbeatThread, Main, Enter, Kill, Arrive, Ended, At, Alive,
         Loop, ConnectThrows, ConnectReturns, ConnectAgain, Mark, Announce, ThreadFrame,
         StartConsuming, Subscribe, Check, Consume, Acknowledge, HandlerThrows,
         Caught, After, SleepEnds, HeartbeatTop, HeartbeatPublish, HeartbeatThrows,
         HeartbeatSleepEnds, HeartbeatFrame, JoinConnect, JoinHeartbeat, Disconnect, Destroy,
         Dies, MainFrame, Restore, Outage, WillFires, Deliver, Threads, vars
<1>3. /\ IInv /\ WaitsOnlyForLiveSession
      /\ (Alive /\ stop => mpc # "getline") /\ (Alive => mpc # "ended")
      => (stop /\ Alive /\ ~ConnectReady /\ ~HeartbeatReady /\ ~MainReady =>
            /\ tpc = "consume" /\ queue = <<>> /\ link = "up" /\ subscribed
            /\ mpc = "join_connect")
  BY DEF IInv, TypeOK, Joined, WaitsOnlyForLiveSession, At,
         ConnectReady, HeartbeatReady, MainReady
<1> QED BY <1>1, <1>2, <1>3, Invariance, NoLostWait, PTL DEF Spec
=============================================================================
