------------------------- MODULE EkinoxSensorProofs -------------------------
(***************************************************************************)
(* Proofs about EkinoxSensor, for every timeout, threshold and back-off:   *)
(* the type invariant, and what the watchdog and the published link_alive  *)
(* may never do.                                                           *)
(***************************************************************************)
EXTENDS EkinoxSensor, TLAPS

-----------------------------------------------------------------------------
(* What the methods return.                                                 *)

LEMMA Constants ==
    /\ RxTimeout \in Nat \ {0} /\ FailThreshold \in Nat \ {0}
    /\ OkThreshold \in Nat \ {0}
    /\ Backoff \in 1..LongestWait /\ BackoffMax \in 1..LongestWait
    /\ LongestWait \in Nat \ {0}
    /\ StreakCap \in Nat /\ StreakCap >= FailThreshold
    /\ MaxDrain \in Nat
    /\ RxHorizon \in Nat /\ RxHorizon > RxTimeout
BY ConfigAssumption DEF RxHorizon, LongestWait, Most, ValidTimeout

LEMMA FieldTypes ==
    ASSUME NEW s \in ServiceFields
    PROVE  /\ s.failStreak \in 0..StreakCap /\ s.okStreak \in 0..StreakCap
           /\ s.backoff \in 1..LongestWait
           /\ s.wait \in -MaxDrain..LongestWait
           /\ s.rxAge \in 0..RxHorizon
BY DEF ServiceFields

LEMMA IncType ==
    ASSUME NEW n \in 0..StreakCap
    PROVE  Inc(n) \in 0..StreakCap /\ Inc(n) <= n + 1
BY Constants DEF Inc

LEMMA BackedType ==
    ASSUME NEW b \in 1..LongestWait
    PROVE  Backed(b) \in 1..LongestWait
BY Constants DEF Backed, Least

\* Time only makes the last frame older and the wait shorter.
LEMMA ElapseEffect ==
    ASSUME NEW s \in ServiceFields, NEW d \in Nat
    PROVE  /\ Elapse(s, d) \in ServiceFields
           /\ Elapse(s, d) = [s EXCEPT !.rxAge = Elapse(s, d).rxAge,
                                       !.wait = Elapse(s, d).wait]
           /\ s.rxAge > RxTimeout => Elapse(s, d).rxAge > RxTimeout
<1>1. Least(s.rxAge + d, RxHorizon) \in 0..RxHorizon
  BY Constants, FieldTypes DEF Least
<1>2. Most(s.wait - d, -MaxDrain) \in -MaxDrain..LongestWait
  BY Constants, FieldTypes DEF Most
<1>3. s.rxAge > RxTimeout => Least(s.rxAge + d, RxHorizon) > RxTimeout
  BY Constants, FieldTypes DEF Least
<1> QED BY <1>1, <1>2, <1>3 DEF Elapse, ServiceFields

LEMMA UpdateLinkHealthEffect ==
    ASSUME NEW s \in ServiceFields
    PROVE  /\ UpdateLinkHealth(s) \in ServiceFields
           /\ UpdateLinkHealth(s) =
                  [s EXCEPT !.linkAlive = s.sensorConnected /\ s.udpAlive]
<1>1. (s.sensorConnected /\ s.udpAlive) \in BOOLEAN
  OBVIOUS
<1> QED BY <1>1 DEF UpdateLinkHealth, ServiceFields

\* Errors and streaks touch neither the session nor the flags about it.
KeepsSession(s, t) ==
    /\ t \in ServiceFields
    /\ t.open = s.open /\ t.sensorConnected = s.sensorConnected
    /\ t.needed = s.needed /\ t.udpAlive = s.udpAlive /\ t.linkAlive = s.linkAlive
    /\ t.recording = s.recording /\ t.connected = s.connected
    /\ t.rxAge = s.rxAge

LEMMA SetErrorEffect ==
    ASSUME NEW s \in ServiceFields, NEW what \in {"none", "rx timeout", "other"}
    PROVE  /\ SetError(s, what) \in ServiceFields
           /\ KeepsSession(s, SetError(s, what))
           /\ SetError(s, what).failStreak = s.failStreak
<1>1. (what = "rx timeout") \in BOOLEAN
  OBVIOUS
<1> QED BY <1>1 DEF SetError, ServiceFields, KeepsSession

LEMMA ClearRxTimeoutErrorEffect ==
    ASSUME NEW s \in ServiceFields
    PROVE  /\ ClearRxTimeoutError(s) \in ServiceFields
           /\ KeepsSession(s, ClearRxTimeoutError(s))
           /\ ClearRxTimeoutError(s).failStreak = s.failStreak
<1>1. CASE ~s.errActive
  <2>1. ClearRxTimeoutError(s) = s
    BY <1>1 DEF ClearRxTimeoutError
  <2> QED BY <2>1 DEF ServiceFields, KeepsSession
<1>2. CASE s.errActive
  <2> DEFINE e == IF s.lastError = "rx timeout" THEN "none" ELSE s.lastError
  <2>1. e \in {"none", "rx timeout", "other"}
    BY DEF ServiceFields
  <2>2. ClearRxTimeoutError(s) = [s EXCEPT !.errActive = FALSE, !.lastError = e]
    BY <1>2 DEF ClearRxTimeoutError
  <2> HIDE DEF e
  <2> QED BY <2>1, <2>2 DEF ServiceFields, KeepsSession
<1> QED BY <1>1, <1>2

LEMMA ResetStreaksEffect ==
    ASSUME NEW s \in ServiceFields
    PROVE  /\ ResetStreaks(s) \in ServiceFields
           /\ KeepsSession(s, ResetStreaks(s))
           /\ ResetStreaks(s).failStreak = 0
<1> DEFINE t == [s EXCEPT !.failStreak = 0, !.okStreak = 0]
<1>0. 0 \in 0..StreakCap
  BY Constants
<1>1. t \in ServiceFields /\ KeepsSession(s, t) /\ t.failStreak = 0
  BY <1>0 DEF ServiceFields, KeepsSession
<1>2. /\ ClearRxTimeoutError(t) \in ServiceFields
      /\ KeepsSession(t, ClearRxTimeoutError(t))
      /\ ClearRxTimeoutError(t).failStreak = 0
  BY <1>1, ClearRxTimeoutErrorEffect
<1> QED BY <1>1, <1>2 DEF ResetStreaks, KeepsSession, ServiceFields

LEMMA CloseFields ==
    ASSUME NEW r \in ServiceFields, NEW w \in -MaxDrain..LongestWait
    PROVE  [r EXCEPT !.open = FALSE, !.sensorConnected = FALSE, !.udpAlive = FALSE,
                     !.needed = FALSE, !.wait = w] \in ServiceFields
BY DEF ServiceFields

LEMMA BackoffFields ==
    ASSUME NEW r \in ServiceFields, NEW b \in 1..LongestWait,
           NEW w \in -MaxDrain..LongestWait
    PROVE  [r EXCEPT !.backoff = b, !.wait = w] \in ServiceFields
BY DEF ServiceFields

\* The fields after a disconnect of the sensor: no session and no flag that
\* claims one.
Disconnected(s, t) ==
    /\ t \in ServiceFields
    /\ ~t.open /\ ~t.sensorConnected /\ ~t.linkAlive /\ ~t.needed /\ ~t.udpAlive
    /\ t.failStreak = 0
    /\ t.recording = s.recording /\ t.connected = s.connected
    /\ t.rxAge = s.rxAge

LEMMA HandleSensorDisconnectEffect ==
    ASSUME NEW s \in ServiceFields
    PROVE  Disconnected(s, HandleSensorDisconnect(s))
<1> DEFINE r == ResetStreaks(s)
           u == [r EXCEPT !.open = FALSE, !.sensorConnected = FALSE, !.udpAlive = FALSE,
                          !.needed = FALSE, !.wait = s.backoff]
<1>1. s.backoff \in -MaxDrain..LongestWait
  BY Constants, FieldTypes
<1>2. r \in ServiceFields /\ KeepsSession(s, r) /\ r.failStreak = 0
  BY ResetStreaksEffect
<1>3. HandleSensorDisconnect(s) = UpdateLinkHealth(u)
  BY DEF HandleSensorDisconnect
<1> HIDE DEF r
<1>4. u \in ServiceFields
  BY <1>1, <1>2, CloseFields
<1>5. /\ u.failStreak = r.failStreak /\ u.recording = r.recording
      /\ u.connected = r.connected /\ u.rxAge = r.rxAge
      /\ ~u.open /\ ~u.sensorConnected /\ ~u.udpAlive /\ ~u.needed
  BY <1>2 DEF ServiceFields
<1>6. r.recording = s.recording /\ r.connected = s.connected /\ r.rxAge = s.rxAge
  BY ONLY <1>2 DEF KeepsSession
<1> HIDE DEF u
<1>7. /\ UpdateLinkHealth(u) \in ServiceFields
      /\ UpdateLinkHealth(u) = [u EXCEPT !.linkAlive = u.sensorConnected /\ u.udpAlive]
  BY <1>4, UpdateLinkHealthEffect
<1>8. /\ UpdateLinkHealth(u).failStreak = u.failStreak
      /\ UpdateLinkHealth(u).recording = u.recording
      /\ UpdateLinkHealth(u).connected = u.connected
      /\ UpdateLinkHealth(u).rxAge = u.rxAge
      /\ UpdateLinkHealth(u).open = u.open
      /\ UpdateLinkHealth(u).sensorConnected = u.sensorConnected
      /\ UpdateLinkHealth(u).udpAlive = u.udpAlive
      /\ UpdateLinkHealth(u).needed = u.needed
      /\ ~UpdateLinkHealth(u).linkAlive
  BY ONLY <1>4, <1>5, <1>7 DEF ServiceFields
<1> QED
  BY ONLY <1>2, <1>3, <1>5, <1>6, <1>7, <1>8 DEF Disconnected

\* poll() failed: the session is given up.
LEMMA PollErrorEffect ==
    ASSUME NEW s \in ServiceFields
    PROVE  Disconnected(s, PollError(s))
<1> DEFINE r == ResetStreaks(s)
           u == SetError(r, "other")
<1>1. r \in ServiceFields /\ KeepsSession(s, r)
  BY ResetStreaksEffect
<1> HIDE DEF r
<1>2. u \in ServiceFields /\ KeepsSession(r, u)
  BY <1>1, SetErrorEffect
<1> HIDE DEF u
<1>3. Disconnected(u, HandleSensorDisconnect(u))
  BY <1>2, HandleSensorDisconnectEffect
<1>4. PollError(s) = HandleSensorDisconnect(u)
  BY DEF PollError, u, r
<1>5. u.recording = s.recording /\ u.connected = s.connected /\ u.rxAge = s.rxAge
  BY <1>1, <1>2 DEF ServiceFields, KeepsSession
<1> QED BY <1>3, <1>4, <1>5 DEF Disconnected

\* An overdue poll closes the session, outside a recording and with enough
\* polls before it, or counts itself and may ask for a deferred reconnect.
LEMMA RxTimedOutEffect ==
    ASSUME NEW s \in ServiceFields, NEW recording \in BOOLEAN,
           NEW t, t = RxTimedOut(s, recording)
    PROVE  \/ /\ Disconnected(s, t)
              /\ ~recording /\ Inc(s.failStreak) >= FailThreshold
           \/ /\ t \in ServiceFields
              /\ t.open = s.open /\ t.sensorConnected = s.sensorConnected
              /\ ~t.udpAlive /\ ~t.linkAlive
              /\ t.failStreak = Inc(s.failStreak)
              /\ t.needed => s.needed \/ Inc(s.failStreak) >= FailThreshold
              /\ s.needed \/ (recording /\ Inc(s.failStreak) >= FailThreshold) => t.needed
              /\ Inc(s.failStreak) < FailThreshold \/ recording
              /\ t.rxAge = s.rxAge
<1> DEFINE n == Inc(s.failStreak)
           a == [s EXCEPT !.failStreak = n, !.okStreak = 0, !.udpAlive = FALSE]
           b == UpdateLinkHealth(a)
           u == IF b.failStreak >= FailThreshold /\ ~b.errActive
                THEN SetError(b, "rx timeout") ELSE b
<1>1. n \in 0..StreakCap /\ 0 \in 0..StreakCap
  BY Constants, FieldTypes, IncType
<1>2. t = IF u.failStreak < FailThreshold THEN u
          ELSE IF recording THEN [u EXCEPT !.needed = TRUE]
          ELSE HandleSensorDisconnect(u)
  BY DEF RxTimedOut
<1> HIDE DEF n
<1>3. a \in ServiceFields
  BY <1>1 DEF ServiceFields
<1>4. /\ a.open = s.open /\ a.sensorConnected = s.sensorConnected /\ ~a.udpAlive
      /\ a.failStreak = n /\ a.needed = s.needed /\ a.rxAge = s.rxAge
      /\ a.recording = s.recording /\ a.connected = s.connected
  BY DEF ServiceFields
<1> HIDE DEF a
<1>5. b \in ServiceFields /\ b = [a EXCEPT !.linkAlive = a.sensorConnected /\ a.udpAlive]
  BY <1>3, UpdateLinkHealthEffect
<1> HIDE DEF b
<1>6. /\ b.open = s.open /\ b.sensorConnected = s.sensorConnected /\ ~b.udpAlive
      /\ ~b.linkAlive /\ b.failStreak = n /\ b.needed = s.needed /\ b.rxAge = s.rxAge
      /\ b.recording = s.recording /\ b.connected = s.connected
  BY <1>3, <1>4, <1>5 DEF ServiceFields
<1>7. KeepsSession(b, u) /\ u.failStreak = b.failStreak
  <2>1. CASE u = b
    BY ONLY <2>1, <1>5 DEF KeepsSession
  <2>2. CASE u = SetError(b, "rx timeout")
    <3>1. b \in ServiceFields
      BY <1>5
    <3>2. /\ KeepsSession(b, SetError(b, "rx timeout"))
          /\ SetError(b, "rx timeout").failStreak = b.failStreak
      BY ONLY <3>1, SetErrorEffect
    <3> QED BY ONLY <2>2, <3>2
  <2> QED BY <2>1, <2>2
<1> HIDE DEF u
<1>8. /\ u \in ServiceFields
      /\ u.open = s.open /\ u.sensorConnected = s.sensorConnected /\ ~u.udpAlive
      /\ ~u.linkAlive /\ u.failStreak = n /\ u.needed = s.needed /\ u.rxAge = s.rxAge
      /\ u.recording = s.recording /\ u.connected = s.connected
  BY ONLY <1>6, <1>7 DEF KeepsSession
<1>9. CASE n < FailThreshold
  <2>1. t = u
    BY <1>2, <1>8, <1>9
  <2>2. ~(n >= FailThreshold)
    BY <1>1, <1>9, Constants
  <2> QED BY <2>1, <2>2, <1>7, <1>8, <1>9 DEF n
<1>10. CASE ~(n < FailThreshold) /\ recording
  <2>1. t = [u EXCEPT !.needed = TRUE]
    BY <1>2, <1>8, <1>10
  <2>2. /\ t \in ServiceFields
        /\ t.open = s.open /\ t.sensorConnected = s.sensorConnected
        /\ ~t.udpAlive /\ ~t.linkAlive /\ t.failStreak = n /\ t.rxAge = s.rxAge
        /\ t.needed
    BY ONLY <2>1, <1>8 DEF ServiceFields
  <2>3. n >= FailThreshold
    BY <1>1, <1>10, Constants
  <2> QED BY <2>2, <2>3, <1>10 DEF n
<1>11. CASE ~(n < FailThreshold) /\ ~recording
  <2>1. t = HandleSensorDisconnect(u)
    BY <1>2, <1>8, <1>11
  <2>2. Disconnected(u, t)
    BY <2>1, <1>8, HandleSensorDisconnectEffect
  <2>3. n >= FailThreshold
    BY <1>1, <1>11, Constants
  <2>4. Disconnected(s, t)
    BY <2>2, <1>8 DEF Disconnected
  <2> QED BY <2>3, <2>4, <1>11 DEF n
<1> QED BY <1>9, <1>10, <1>11

\* A frame in time marks the link alive and takes back a deferred reconnect.
LEMMA RxRecoveredEffect ==
    ASSUME NEW s \in ServiceFields, NEW t, t = RxRecovered(s)
    PROVE  /\ t \in ServiceFields
           /\ t.open = s.open /\ t.sensorConnected = s.sensorConnected
           /\ t.udpAlive /\ ~t.needed
           /\ t.linkAlive => t.sensorConnected
           /\ t.failStreak \in {0, s.failStreak}
           /\ t.rxAge = s.rxAge
<1> DEFINE n == Inc(s.okStreak)
           a == [s EXCEPT !.udpAlive = TRUE, !.okStreak = n]
           z == [a EXCEPT !.failStreak = 0]
           u == IF a.okStreak >= OkThreshold /\ a.failStreak # 0
                THEN ClearRxTimeoutError(z) ELSE a
           w == [u EXCEPT !.needed = FALSE]
<1>1. n \in 0..StreakCap /\ 0 \in 0..StreakCap
  BY Constants, FieldTypes, IncType
<1>2. t = UpdateLinkHealth(w)
  BY DEF RxRecovered
<1> HIDE DEF n
<1>3. /\ a \in ServiceFields /\ a.open = s.open /\ a.udpAlive
      /\ a.sensorConnected = s.sensorConnected
      /\ a.failStreak = s.failStreak /\ a.rxAge = s.rxAge
  BY <1>1 DEF ServiceFields
<1> HIDE DEF a
<1>4. /\ z \in ServiceFields /\ z.open = s.open /\ z.udpAlive
      /\ z.sensorConnected = s.sensorConnected
      /\ z.failStreak = 0 /\ z.rxAge = s.rxAge
  BY <1>1, <1>3 DEF ServiceFields
<1> HIDE DEF z
<1>5. /\ u \in ServiceFields /\ u.open = s.open /\ u.udpAlive
      /\ u.sensorConnected = s.sensorConnected
      /\ u.failStreak \in {0, s.failStreak} /\ u.rxAge = s.rxAge
  <2>1. CASE u = a
    BY <2>1, <1>3
  <2>2. CASE u = ClearRxTimeoutError(z)
    <3>1. u \in ServiceFields /\ KeepsSession(z, u) /\ u.failStreak = z.failStreak
      BY <2>2, <1>4, ClearRxTimeoutErrorEffect
    <3> QED BY ONLY <3>1, <1>4 DEF KeepsSession
  <2> QED BY <2>1, <2>2
<1> HIDE DEF u
<1>6. /\ w \in ServiceFields /\ w.open = s.open /\ w.udpAlive /\ ~w.needed
      /\ w.sensorConnected = s.sensorConnected
      /\ w.failStreak \in {0, s.failStreak} /\ w.rxAge = s.rxAge
  BY <1>5 DEF ServiceFields
<1> HIDE DEF w
<1>7. t \in ServiceFields /\ t = [w EXCEPT !.linkAlive = w.sensorConnected /\ w.udpAlive]
  BY <1>2, <1>6, UpdateLinkHealthEffect
<1> QED BY <1>6, <1>7 DEF ServiceFields

\* An answer of the data logger touches neither the session nor its streaks.
LEMMA LoggerReplyEffect ==
    ASSUME NEW s \in ServiceFields, NEW r \in Replies, NEW t, t = LoggerReply(s, r)
    PROVE  /\ t \in ServiceFields
           /\ t.open = s.open /\ t.sensorConnected = s.sensorConnected
           /\ t.needed = s.needed /\ t.udpAlive = s.udpAlive
           /\ t.linkAlive = (s.sensorConnected /\ s.udpAlive)
           /\ t.connected = s.connected
           /\ t.rxAge = s.rxAge /\ t.failStreak = s.failStreak
<1> DEFINE a == UpdateLinkHealth(s)
           u == IF r \in {"notfound", "error"} THEN SetError(a, "other")
                ELSE [a EXCEPT !.lastError = "none"]
<1>1. t = IF r \in {"noflag", "error"} THEN u
          ELSE [u EXCEPT !.recording = (r = "recording")]
  BY DEF LoggerReply
<1>2. a \in ServiceFields /\ a = [s EXCEPT !.linkAlive = s.sensorConnected /\ s.udpAlive]
  BY UpdateLinkHealthEffect
<1> HIDE DEF a
<1>3. /\ a.open = s.open /\ a.sensorConnected = s.sensorConnected
      /\ a.needed = s.needed /\ a.udpAlive = s.udpAlive
      /\ a.linkAlive = (s.sensorConnected /\ s.udpAlive)
      /\ a.connected = s.connected
      /\ a.rxAge = s.rxAge /\ a.failStreak = s.failStreak
  BY ONLY <1>2, s \in ServiceFields DEF ServiceFields
<1>4. u = SetError(a, "other") \/ u = [a EXCEPT !.lastError = "none"]
  OBVIOUS
<1> HIDE DEF u
<1>5. KeepsSession(a, u) /\ u.failStreak = a.failStreak
  <2>1. CASE u = SetError(a, "other")
    <3>1. a \in ServiceFields
      BY <1>2
    <3>2. /\ KeepsSession(a, SetError(a, "other"))
          /\ SetError(a, "other").failStreak = a.failStreak
      BY ONLY <3>1, SetErrorEffect
    <3> QED BY ONLY <2>1, <3>2
  <2>2. CASE u = [a EXCEPT !.lastError = "none"]
    <3>1. a \in ServiceFields
      BY <1>2
    <3>2. u \in ServiceFields
      BY ONLY <2>2, <3>1 DEF ServiceFields
    <3> QED BY ONLY <2>2, <3>1, <3>2 DEF ServiceFields, KeepsSession
  <2> QED BY ONLY <2>1, <2>2, <1>4
<1>6. (r = "recording") \in BOOLEAN
  OBVIOUS
<1>7. /\ t \in ServiceFields
      /\ t.open = u.open /\ t.sensorConnected = u.sensorConnected
      /\ t.needed = u.needed /\ t.udpAlive = u.udpAlive
      /\ t.linkAlive = u.linkAlive /\ t.connected = u.connected
      /\ t.rxAge = u.rxAge /\ t.failStreak = u.failStreak
  <2>0. u \in ServiceFields
    BY <1>5 DEF KeepsSession
  <2>1. CASE t = u
    BY ONLY <2>1, <2>0
  <2>2. CASE t = [u EXCEPT !.recording = (r = "recording")]
    BY ONLY <2>2, <2>0, <1>6 DEF ServiceFields
  <2> QED BY <2>1, <2>2, <1>1
<1> QED BY ONLY <1>3, <1>5, <1>7 DEF KeepsSession

-----------------------------------------------------------------------------
(* The invariant.                                                           *)

LEMMA InitInvariant == Init => IInv
<1> SUFFICES ASSUME Init PROVE IInv
  OBVIOUS
<1>1. /\ Backoff \in 1..LongestWait /\ 0 \in -MaxDrain..LongestWait
      /\ 0 \in 0..StreakCap /\ 0 \in 0..RxHorizon
      /\ 0 \in 0..MaxDrain /\ 0 \in 0..FailThreshold
  BY Constants
<1>2. TypeOK
  BY <1>1 DEF Init, TypeOK, ServiceFields, LoopPcs
<1>3. Flags /\ Streaks /\ Recent
  BY <1>1, Constants DEF Init, Flags, Streaks, Recent
<1> QED BY <1>2, <1>3 DEF IInv

\* The ranges that arithmetic needs, without the rest of the record.
LEMMA Ranges ==
    ASSUME TypeOK
    PROVE  /\ svc \in ServiceFields
           /\ svc.failStreak \in 0..StreakCap
           /\ svc.backoff \in 1..LongestWait
           /\ svc.wait \in -MaxDrain..LongestWait
           /\ svc.rxAge \in 0..RxHorizon
           /\ loopAge \in 0..MaxDrain /\ misses \in 0..FailThreshold
           /\ frameAge \in 0..RxHorizon /\ FrameAge \in 0..RxHorizon
<1>1. /\ svc \in ServiceFields /\ svc.rxAge \in 0..RxHorizon
      /\ loopAge \in 0..MaxDrain
  BY FieldTypes DEF TypeOK
<1>2. FrameAge \in 0..RxHorizon
  BY <1>1, Constants DEF FrameAge, Most
<1> QED BY <1>1, <1>2, FieldTypes DEF TypeOK

\* What Overdue tells of the age of the last frame.
LEMMA OverdueAge ==
    ASSUME TypeOK
    PROVE  /\ Overdue => svc.rxAge > RxTimeout
           /\ ~Overdue => FrameAge <= RxTimeout
BY Ranges, Constants DEF Overdue, FrameAge, Most

\* Only the end of a session, the opening of one or a poll in time takes the
\* streak back, and with it a reconnect that was put off; a new MQTT session
\* takes back the latter only.
Remembers ==
    /\ svc'.failStreak < svc.failStreak =>
           ~svc'.open \/ pc = "opened" \/ (Judge /\ ~Overdue)
    /\ svc.needed /\ ~svc'.needed =>
           ~svc'.sensorConnected \/ pc = "subscribed" \/ (Judge /\ ~Overdue)

LEMMA SameRemembers ==
    ASSUME TypeOK, svc'.failStreak = svc.failStreak, svc'.needed = svc.needed
    PROVE  Remembers
<1>1. svc.failStreak \in Int
  BY Ranges, Constants
<1> QED BY <1>1 DEF Remembers

\* Steps that leave the service's fields, the link and the polls' history alone.
LEMMA QuietSteps ==
    ASSUME IInv,
           \/ Top \/ DrainDone \/ SensorNotDue \/ PollSkipped
           \/ HandleNothing \/ HandleFault \/ (\E due \in BOOLEAN : Publish(due))
           \/ NetChanges \/ Signal \/ UNCHANGED vars
    PROVE  IInv' /\ Remembers
<1>0. 0 \in 0..RxHorizon
  BY Constants
<1>1. TypeOK'
  BY <1>0 DEF IInv, TypeOK, LoopPcs, Top, DrainDone, SensorNotDue, PollSkipped, HandleNothing, HandleFault,
         Publish, NetChanges, Signal, History, Others, vars
<1>2. Flags'
  BY DEF IInv, Flags, Top, DrainDone, SensorNotDue, PollSkipped, HandleNothing, HandleFault,
         Publish, NetChanges, Signal, History, Others, vars
<1>3. Streaks'
  BY DEF IInv, Streaks, Top, DrainDone, SensorNotDue, PollSkipped, HandleNothing, HandleFault,
         Publish, NetChanges, Signal, History, Others, vars
<1>4. Recent'
  BY DEF IInv, Recent, FrameAge, Top, DrainDone, SensorNotDue, PollSkipped, HandleNothing, HandleFault,
         Publish, NetChanges, Signal, History, Others, vars
<1>5. svc' = svc
  BY DEF Top, DrainDone, SensorNotDue, PollSkipped, HandleNothing, HandleFault,
         Publish, NetChanges, Signal, vars
<1> QED BY <1>1, <1>2, <1>3, <1>4, <1>5, SameRemembers DEF IInv

\* The MQTT session: lost, noticed by the callback thread, made again.
LEMMA SessionSteps ==
    ASSUME IInv,
           \/ ConnectFails \/ ConnectSucceeds \/ LinkDrop
           \/ CbLost \/ CbClose \/ CbClear
           \/ \E r \in Replies : Establish(r)
    PROVE  IInv' /\ Remembers
<1> USE DEF IInv
<1>0. svc \in ServiceFields
  BY DEF TypeOK
<1>1. CASE ConnectFails
  <2>1. svc.backoff \in 1..LongestWait
    BY <1>0, FieldTypes
  <2>2. svc' = [svc EXCEPT !.backoff = Backed(svc.backoff)]
    BY <1>1 DEF ConnectFails
  <2>3. svc' \in ServiceFields
    BY ONLY <1>0, <2>1, <2>2, BackedType DEF ServiceFields
  <2>4. KeepsSession(svc, svc') /\ svc'.failStreak = svc.failStreak
    BY ONLY <1>0, <2>2, <2>3 DEF ServiceFields, KeepsSession
  <2>5. TypeOK'
    BY <1>1, <2>3 DEF ConnectFails, TypeOK, LoopPcs, History, Others
  <2>6. Flags' /\ Streaks' /\ Recent'
    BY <1>1, <2>4 DEF ConnectFails, Flags, Streaks, Recent, KeepsSession, History, Others
  <2>7. Remembers
    BY <2>4, SameRemembers DEF KeepsSession
  <2> QED BY <2>5, <2>6, <2>7
<1>2. CASE ConnectSucceeds
  <2>1. TypeOK'
    BY <1>2 DEF ConnectSucceeds, TypeOK, LoopPcs, History
  <2>2. Flags' /\ Streaks' /\ Recent'
    BY <1>2 DEF ConnectSucceeds, Flags, Streaks, Recent, History
  <2>3. Remembers
    BY <1>2, SameRemembers DEF ConnectSucceeds
  <2> QED BY <2>1, <2>2, <2>3
<1>3. CASE LinkDrop
  <2>1. TypeOK'
    BY <1>3 DEF LinkDrop, TypeOK, MainUnchanged, History
  <2>2. Flags' /\ Streaks' /\ Recent'
    BY <1>3 DEF LinkDrop, Flags, Streaks, Recent, MainUnchanged, History
  <2>3. Remembers
    BY <1>3, SameRemembers DEF LinkDrop
  <2> QED BY <2>1, <2>2, <2>3
<1>4. CASE CbLost
  <2>1. /\ svc' \in ServiceFields
        /\ svc'.open = svc.open /\ svc'.sensorConnected = svc.sensorConnected
        /\ svc'.udpAlive = svc.udpAlive /\ ~svc'.linkAlive
        /\ svc'.failStreak = svc.failStreak /\ svc'.needed = svc.needed
    BY <1>0, <1>4 DEF CbLost, ServiceFields
  <2>2. TypeOK'
    BY <1>4, <2>1 DEF CbLost, TypeOK, MainUnchanged, History
  <2>3. Flags' /\ Streaks' /\ Recent'
    BY <1>4, <2>1 DEF CbLost, Flags, Streaks, Recent, MainUnchanged, History
  <2>4. Remembers
    BY <2>1, SameRemembers
  <2> QED BY <2>2, <2>3, <2>4
<1>5. CASE CbClose
  <2>1. /\ svc' \in ServiceFields
        /\ ~svc'.open /\ svc'.sensorConnected = svc.sensorConnected
        /\ svc'.udpAlive = svc.udpAlive /\ svc'.linkAlive = svc.linkAlive
        /\ svc'.failStreak = svc.failStreak /\ svc'.needed = svc.needed
    BY <1>0, <1>5 DEF CbClose, ServiceFields
  <2>2. TypeOK'
    BY <1>5, <2>1 DEF CbClose, TypeOK, MainUnchanged, History
  <2>3. Flags' /\ Streaks' /\ Recent'
    BY <1>5, <2>1 DEF CbClose, Flags, Streaks, Recent, MainUnchanged, History
  <2>4. Remembers
    BY <2>1, SameRemembers
  <2> QED BY <2>2, <2>3, <2>4
<1>6. CASE CbClear
  <2> DEFINE a == [svc EXCEPT !.sensorConnected = FALSE, !.needed = FALSE]
  <2>1. /\ a \in ServiceFields /\ ~a.sensorConnected
        /\ a.failStreak = svc.failStreak
    BY <1>0 DEF ServiceFields
  <2>2. svc' = UpdateLinkHealth(a)
    BY <1>6 DEF CbClear
  <2> HIDE DEF a
  <2>3. svc' \in ServiceFields /\ svc' = [a EXCEPT !.linkAlive = a.sensorConnected /\ a.udpAlive]
    BY <2>1, <2>2, UpdateLinkHealthEffect
  <2>4. ~svc'.sensorConnected /\ ~svc'.linkAlive /\ svc'.failStreak = svc.failStreak
    BY ONLY <2>1, <2>3 DEF ServiceFields
  <2>5. TypeOK'
    BY <1>6, <2>3 DEF CbClear, TypeOK, MainUnchanged, History
  <2>6. Flags' /\ Streaks' /\ Recent'
    BY <1>6, <2>4 DEF CbClear, Flags, Streaks, Recent, MainUnchanged, History
  <2>7. Remembers
    BY <2>4, Ranges, Constants DEF Remembers
  <2> QED BY <2>5, <2>6, <2>7
<1>7. ASSUME NEW r \in Replies, Establish(r) PROVE IInv' /\ Remembers
  <2> DEFINE a == ResetSession(svc)
             b == LoggerReply(a, r)
  <2>1. Backoff \in 1..LongestWait /\ Backed(svc.backoff) \in 1..LongestWait
    BY <1>0, Constants, FieldTypes, BackedType
  <2>2. /\ a \in ServiceFields
        /\ ~a.linkAlive /\ ~a.needed /\ ~a.udpAlive
        /\ a.open = svc.open /\ a.sensorConnected = svc.sensorConnected
        /\ a.failStreak = svc.failStreak /\ a.backoff = svc.backoff
    BY <1>0 DEF ResetSession, ServiceFields
  <2>3. svc' = IF link = "up" THEN [b EXCEPT !.backoff = Backoff]
               ELSE [a EXCEPT !.backoff = Backed(a.backoff)]
    BY <1>7 DEF Establish
  <2>4. b = LoggerReply(a, r) /\ r \in Replies
    BY <1>7
  <2> HIDE DEF a, b
  <2>5. /\ b \in ServiceFields
        /\ b.open = a.open /\ b.sensorConnected = a.sensorConnected
        /\ b.needed = a.needed /\ b.udpAlive = a.udpAlive
        /\ b.linkAlive = (a.sensorConnected /\ a.udpAlive)
        /\ b.failStreak = a.failStreak
    BY ONLY <2>2, <2>4, LoggerReplyEffect
  <2>6. /\ b \in ServiceFields
        /\ ~b.linkAlive /\ ~b.needed /\ ~b.udpAlive
        /\ b.open = svc.open /\ b.sensorConnected = svc.sensorConnected
        /\ b.failStreak = svc.failStreak
    BY ONLY <2>2, <2>5
  <2>7. /\ svc' \in ServiceFields
        /\ ~svc'.linkAlive /\ ~svc'.needed /\ ~svc'.udpAlive
        /\ svc'.open = svc.open /\ svc'.sensorConnected = svc.sensorConnected
        /\ svc'.failStreak = svc.failStreak
    BY ONLY <2>1, <2>2, <2>3, <2>6 DEF ServiceFields
  <2>8. TypeOK'
    BY <1>7, <2>7 DEF Establish, TypeOK, LoopPcs, History, Others
  <2>9. Flags' /\ Streaks' /\ Recent'
    BY <1>7, <2>7 DEF Establish, Flags, Streaks, Recent, History, Others
  <2>10. Remembers
    BY <1>7, <2>7, Ranges, Constants DEF Establish, Remembers
  <2> QED BY <2>8, <2>9, <2>10
<1> QED BY <1>1, <1>2, <1>3, <1>4, <1>5, <1>6, <1>7

\* Answers of the data logger and the passing of time.
LEMMA ReplySteps ==
    ASSUME IInv,
           \/ \E r \in Replies \cup {"nocall"}, d \in 0..MaxDrain, status \in BOOLEAN :
                  DrainCall(r, d, status)
           \/ \E r \in Replies \cup {"nocall", "refresh"} : Rest(r)
           \/ \E d \in 0..1 : Sleep(d)
    PROVE  IInv' /\ Remembers
<1> USE DEF IInv
<1>0. svc \in ServiceFields
  BY DEF TypeOK
<1>1. ASSUME NEW r \in Replies \cup {"nocall"}, NEW d \in 0..MaxDrain,
             NEW status \in BOOLEAN, DrainCall(r, d, status)
      PROVE  IInv' /\ Remembers
  <2> DEFINE e == Elapse(svc, d)
  <2>1. d \in Nat
    BY Constants
  <2>2. /\ e \in ServiceFields
        /\ e = [svc EXCEPT !.rxAge = e.rxAge, !.wait = e.wait]
        /\ svc.rxAge > RxTimeout => e.rxAge > RxTimeout
    BY <1>0, <2>1, ElapseEffect
  <2>3. svc' = IF r = "nocall" THEN e ELSE LoggerReply(e, r)
    BY <1>1 DEF DrainCall
  <2> HIDE DEF e
  <2>4. /\ e.open = svc.open /\ e.sensorConnected = svc.sensorConnected
        /\ e.needed = svc.needed /\ e.udpAlive = svc.udpAlive
        /\ e.linkAlive = svc.linkAlive /\ e.connected = svc.connected
        /\ e.failStreak = svc.failStreak
    BY ONLY <1>0, <2>2 DEF ServiceFields
  <2>5. svc.linkAlive => svc.sensorConnected /\ svc.udpAlive
    BY DEF Flags
  <2>6. /\ svc' \in ServiceFields
        /\ svc'.open = e.open /\ svc'.sensorConnected = e.sensorConnected
        /\ svc'.needed = e.needed /\ svc'.udpAlive = e.udpAlive
        /\ svc'.linkAlive => e.sensorConnected /\ e.udpAlive
        /\ svc'.connected = e.connected
        /\ svc'.rxAge = e.rxAge /\ svc'.failStreak = e.failStreak
    <3>1. CASE r = "nocall"
      BY <3>1, <2>2, <2>3, <2>4, <2>5
    <3>2. CASE r # "nocall"
      <4>1. r \in Replies /\ svc' = LoggerReply(e, r)
        BY <3>2, <2>3
      <4>2. /\ svc' \in ServiceFields
            /\ svc'.open = e.open /\ svc'.sensorConnected = e.sensorConnected
            /\ svc'.needed = e.needed /\ svc'.udpAlive = e.udpAlive
            /\ svc'.linkAlive = (e.sensorConnected /\ e.udpAlive)
            /\ svc'.connected = e.connected
            /\ svc'.rxAge = e.rxAge /\ svc'.failStreak = e.failStreak
        BY ONLY <4>1, <2>2, LoggerReplyEffect
      <4> QED BY ONLY <4>2
    <3> QED BY <3>1, <3>2
  <2>7. /\ svc'.open = svc.open /\ svc'.sensorConnected = svc.sensorConnected
        /\ svc'.needed = svc.needed /\ svc'.udpAlive = svc.udpAlive
        /\ svc'.linkAlive => svc.sensorConnected /\ svc.udpAlive
        /\ svc'.connected = svc.connected
        /\ svc'.failStreak = svc.failStreak
        /\ svc.rxAge > RxTimeout => svc'.rxAge > RxTimeout
    BY ONLY <2>2, <2>4, <2>6
  <2>8. /\ pc = "drain" /\ pc' \in {"drain", "crashed"}
        /\ loopAge' = loopAge + d /\ loopAge + d <= MaxDrain
        /\ History /\ Others
    BY <1>1 DEF DrainCall
  <2>9. loopAge' \in 0..MaxDrain
    BY <2>1, <2>8, Ranges, Constants
  <2>10. TypeOK'
    BY <2>6, <2>8, <2>9 DEF TypeOK, LoopPcs, History, Others
  <2>11. Flags' /\ Streaks'
    BY <2>7, <2>8 DEF Flags, Streaks, History, Others
  <2>12. Recent'
    BY <2>7, <2>8 DEF Recent, History, Others
  <2>13. Remembers
    BY <2>7, SameRemembers
  <2> QED BY <2>10, <2>11, <2>12, <2>13
<1>2. ASSUME NEW r \in Replies \cup {"nocall", "refresh"}, Rest(r)
      PROVE  IInv' /\ Remembers
  <2>1. /\ svc' \in ServiceFields
        /\ svc'.open = svc.open /\ svc'.sensorConnected = svc.sensorConnected
        /\ svc'.needed = svc.needed /\ svc'.udpAlive = svc.udpAlive
        /\ svc'.linkAlive => svc.sensorConnected /\ svc.udpAlive
        /\ svc'.connected = svc.connected
        /\ svc'.rxAge = svc.rxAge /\ svc'.failStreak = svc.failStreak
    <3>1. CASE r = "nocall"
      BY <1>0, <1>2, <3>1 DEF Rest, Flags
    <3>2. CASE r = "refresh"
      <4>1. svc' = UpdateLinkHealth(svc)
        BY <1>2, <3>2 DEF Rest
      <4>2. /\ svc' \in ServiceFields
            /\ svc' = [svc EXCEPT !.linkAlive = svc.sensorConnected /\ svc.udpAlive]
        BY <1>0, <4>1, UpdateLinkHealthEffect
      <4> QED BY ONLY <1>0, <4>2 DEF ServiceFields
    <3>3. CASE r \in Replies
      <4>1. r \notin {"nocall", "refresh"}
        BY <3>3 DEF Replies
      <4>2. svc' = LoggerReply(svc, r)
        BY <1>2, <4>1 DEF Rest
      <4> QED BY <1>0, <3>3, <4>2, LoggerReplyEffect
    <3> QED BY <3>1, <3>2, <3>3
  <2>2. TypeOK'
    BY <1>2, <2>1 DEF Rest, TypeOK, LoopPcs, History, Others
  <2>3. Flags' /\ Streaks' /\ Recent'
    BY <1>2, <2>1 DEF Rest, Flags, Streaks, Recent, FrameAge, History, Others
  <2>4. Remembers
    BY <2>1, SameRemembers
  <2> QED BY <2>2, <2>3, <2>4
<1>3. ASSUME NEW d \in 0..1, Sleep(d) PROVE IInv' /\ Remembers
  <2>1. svc' = Elapse(svc, d) /\ d \in Nat
    BY <1>3 DEF Sleep
  <2>2. /\ svc' \in ServiceFields
        /\ svc' = [svc EXCEPT !.rxAge = Elapse(svc, d).rxAge, !.wait = Elapse(svc, d).wait]
        /\ svc.rxAge > RxTimeout => svc'.rxAge > RxTimeout
    BY <1>0, <2>1, ElapseEffect
  <2>3. /\ svc'.open = svc.open /\ svc'.sensorConnected = svc.sensorConnected
        /\ svc'.needed = svc.needed /\ svc'.udpAlive = svc.udpAlive
        /\ svc'.linkAlive = svc.linkAlive /\ svc'.failStreak = svc.failStreak
        /\ svc'.connected = svc.connected
    BY ONLY <1>0, <2>2 DEF ServiceFields
  <2>4. /\ pc = "sleep" /\ pc' = "top" /\ loopAge' = 0 /\ frameAge' = FrameAge
        /\ misses' = misses /\ Others
    BY <1>3 DEF Sleep
  <2>5. loopAge' \in 0..MaxDrain /\ frameAge' \in 0..RxHorizon
    BY <2>4, Ranges, Constants
  <2>6. TypeOK'
    BY <2>2, <2>4, <2>5 DEF TypeOK, LoopPcs, Others
  <2>7. Flags' /\ Streaks'
    BY <2>2, <2>3, <2>4 DEF Flags, Streaks, Others
  <2>8. Recent'
    BY <2>3, <2>4 DEF Recent, Others
  <2>9. Remembers
    BY <2>3, SameRemembers
  <2> QED BY <2>6, <2>7, <2>8, <2>9
<1> QED BY <1>1, <1>2, <1>3

\* The session to the sensor: opened, polled, judged and given up.
LEMMA SensorSteps ==
    ASSUME IInv,
           \/ OpenFails \/ OpenSucceeds \/ MarkOpened \/ DeferredReconnect \/ PollCall
           \/ HandleFrame \/ HandleError \/ Judge \/ Shutdown
    PROVE  IInv' /\ Remembers
<1> USE DEF IInv
<1>0. svc \in ServiceFields
  BY DEF TypeOK
<1>1. CASE OpenFails
  <2> DEFINE e == SetError(svc, "other")
             a == [e EXCEPT !.open = FALSE, !.udpAlive = FALSE]
             b == UpdateLinkHealth(a)
             w == Backed(b.backoff)
  <2>1. KeepsSession(svc, e) /\ e.failStreak = svc.failStreak
    BY <1>0, SetErrorEffect
  <2>2. svc' = [b EXCEPT !.backoff = w, !.wait = w - loopAge]
    BY <1>1 DEF OpenFails
  <2>3. ~svc.sensorConnected
    BY <1>1 DEF OpenFails, SensorDue
  <2> HIDE DEF e
  <2>4. /\ a \in ServiceFields /\ ~a.open /\ ~a.udpAlive
        /\ ~a.sensorConnected /\ a.needed = svc.needed
        /\ a.failStreak = svc.failStreak /\ a.rxAge = svc.rxAge
    BY <2>1, <2>3 DEF KeepsSession, ServiceFields
  <2> HIDE DEF a
  <2>5. b \in ServiceFields /\ b = [a EXCEPT !.linkAlive = a.sensorConnected /\ a.udpAlive]
    BY <2>4, UpdateLinkHealthEffect
  <2> HIDE DEF b
  <2>6. w \in 1..LongestWait
    BY <2>5, FieldTypes, BackedType
  <2>7. w - loopAge \in -MaxDrain..LongestWait
    BY <2>6, Constants, Ranges
  <2> HIDE DEF w
  <2>8. svc' \in ServiceFields
    BY ONLY <2>2, <2>5, <2>6, <2>7, BackoffFields
  <2>9. /\ ~svc'.linkAlive /\ ~svc'.sensorConnected /\ ~svc'.open
        /\ svc'.needed = svc.needed /\ svc'.failStreak = svc.failStreak
    BY ONLY <2>2, <2>4, <2>5 DEF ServiceFields
  <2>10. TypeOK'
    BY <1>1, <2>8 DEF OpenFails, SensorDue, TypeOK, LoopPcs, History, Others
  <2>11. Flags' /\ Streaks' /\ Recent'
    BY <1>1, <2>3, <2>9 DEF OpenFails, SensorDue, Flags, Streaks, Recent, History, Others
  <2>12. Remembers
    BY <2>9, SameRemembers
  <2> QED BY <2>10, <2>11, <2>12
<1>2. CASE OpenSucceeds
  <2>1. 0 \in 0..RxHorizon /\ 0 \in 0..FailThreshold
    BY Constants
  <2>2. /\ svc' \in ServiceFields /\ svc'.open
        /\ svc'.sensorConnected = svc.sensorConnected /\ ~svc.sensorConnected
        /\ svc'.needed = svc.needed /\ svc'.linkAlive = svc.linkAlive
        /\ svc'.failStreak = svc.failStreak
    BY <1>0, <1>2, <2>1 DEF OpenSucceeds, SensorDue, ServiceFields
  <2>3. TypeOK'
    BY <1>2, <2>1, <2>2 DEF OpenSucceeds, SensorDue, TypeOK, LoopPcs, Others
  <2>4. Flags' /\ Streaks' /\ Recent'
    BY <1>2, <2>2 DEF OpenSucceeds, SensorDue, Flags, Streaks, Recent, Others
  <2>5. Remembers
    BY <2>2, SameRemembers
  <2> QED BY <2>3, <2>4, <2>5
<1>3. CASE MarkOpened
  <2> DEFINE a == ResetStreaks(svc)
  <2>1. KeepsSession(svc, a) /\ a.failStreak = 0
    BY <1>0, ResetStreaksEffect
  <2>2. svc' = [a EXCEPT !.sensorConnected = TRUE, !.backoff = Backoff, !.wait = -MaxDrain]
    BY <1>3 DEF MarkOpened
  <2> HIDE DEF a
  <2>3. Backoff \in 1..LongestWait /\ -MaxDrain \in -MaxDrain..LongestWait
    BY Constants
  <2>4. /\ svc' \in ServiceFields
        /\ svc'.sensorConnected /\ svc'.open = svc.open /\ svc'.udpAlive = svc.udpAlive
        /\ svc'.linkAlive = svc.linkAlive /\ svc'.needed = svc.needed
        /\ svc'.failStreak = 0
    BY ONLY <2>1, <2>2, <2>3 DEF ServiceFields, KeepsSession
  <2>5. misses \in Nat
    BY Constants, Ranges
  <2>6. link = "up" => ~svc.needed
    BY <1>3 DEF MarkOpened, Flags, Streaks
  <2>7. TypeOK'
    BY <1>3, <2>4 DEF MarkOpened, TypeOK, LoopPcs, History, Others
  <2>8. Flags'
    BY <1>3, <2>4 DEF MarkOpened, TypeOK, Flags, History, Others
  <2>9. Streaks' /\ Recent'
    BY <1>3, <2>4, <2>5, <2>6 DEF MarkOpened, Streaks, Recent, History, Others
  <2>10. Remembers
    BY <1>3, <2>4 DEF MarkOpened, Remembers
  <2> QED BY <2>7, <2>8, <2>9, <2>10
<1>4. CASE DeferredReconnect \/ Shutdown \/ HandleError \/ (PollCall /\ ~svc.open)
  <2>1. \/ svc' = svc /\ Shutdown
        \/ /\ svc'.failStreak = 0 /\ svc' \in ServiceFields
           /\ ~svc'.open /\ ~svc'.sensorConnected /\ ~svc'.linkAlive /\ ~svc'.needed
    <3>1. CASE DeferredReconnect
      <4> DEFINE a == [svc EXCEPT !.needed = FALSE]
      <4>1. a \in ServiceFields
        BY <1>0 DEF ServiceFields
      <4>2. svc' = HandleSensorDisconnect(a)
        BY <3>1 DEF DeferredReconnect
      <4> HIDE DEF a
      <4> QED BY <4>1, <4>2, HandleSensorDisconnectEffect DEF Disconnected
    <3>2. CASE Shutdown
      BY <1>0, <3>2, HandleSensorDisconnectEffect DEF Disconnected, Shutdown
    <3>3. CASE HandleError \/ (PollCall /\ ~svc.open)
      BY <1>0, <3>3, PollErrorEffect DEF Disconnected, HandleError, PollCall
    <3> QED BY <1>4, <3>1, <3>2, <3>3
  <2>2. misses \in Nat
    BY Constants, Ranges
  <2>3. TypeOK'
    BY <1>0, <1>4, <2>1 DEF DeferredReconnect, Shutdown, HandleError, PollCall,
                            TypeOK, LoopPcs, History, Others
  <2>4. Flags'
    BY <1>4, <2>1 DEF DeferredReconnect, Shutdown, HandleError, PollCall,
                      Flags, History, Others
  <2>5. Streaks' /\ Recent'
    BY <1>4, <2>1, <2>2 DEF DeferredReconnect, Shutdown, HandleError, PollCall,
                      Streaks, Recent, History, Others
  <2>6. Remembers
    BY <2>1, SameRemembers DEF Remembers
  <2> QED BY <2>3, <2>4, <2>5, <2>6
<1>5. CASE PollCall /\ svc.open
  <2>1. svc' = svc /\ pc' = "handling"
    BY <1>5 DEF PollCall
  <2>2. TypeOK'
    BY <1>5, <2>1 DEF PollCall, TypeOK, LoopPcs, History, Others
  <2>3. Flags' /\ Streaks' /\ Recent'
    BY <1>5, <2>1 DEF PollCall, Flags, Streaks, Recent, History, Others
  <2>4. Remembers
    BY <2>1, SameRemembers
  <2> QED BY <2>2, <2>3, <2>4
<1>6. CASE HandleFrame
  <2>1. 0 \in 0..RxHorizon
    BY Constants
  <2>2. /\ svc' \in ServiceFields
        /\ svc'.open = svc.open /\ svc'.sensorConnected = svc.sensorConnected
        /\ svc'.needed = svc.needed /\ svc'.udpAlive = svc.udpAlive
        /\ svc'.linkAlive = svc.linkAlive /\ svc'.failStreak = svc.failStreak
    BY <1>0, <1>6, <2>1 DEF HandleFrame, ServiceFields
  <2>3. TypeOK'
    BY <1>6, <2>2 DEF HandleFrame, TypeOK, LoopPcs, History, Others
  <2>4. Flags' /\ Streaks' /\ Recent'
    BY <1>6, <2>2 DEF HandleFrame, Flags, Streaks, Recent, History, Others
  <2>5. Remembers
    BY <2>2, SameRemembers
  <2> QED BY <2>3, <2>4, <2>5
<1>7. CASE Judge
  <2>1. CASE Overdue
    <3>1. svc' = RxTimedOut(svc, svc.recording) /\ misses' = Least(misses + 1, FailThreshold)
      BY <1>7, <2>1 DEF Judge
    <3>2. svc.recording \in BOOLEAN
      BY <1>0 DEF ServiceFields
    <3>3. \/ /\ svc' \in ServiceFields /\ svc'.failStreak = 0
             /\ ~svc'.open /\ ~svc'.sensorConnected /\ ~svc'.linkAlive /\ ~svc'.needed
          \/ /\ svc' \in ServiceFields
             /\ svc'.open = svc.open /\ svc'.sensorConnected = svc.sensorConnected
             /\ ~svc'.udpAlive /\ ~svc'.linkAlive
             /\ svc'.failStreak = Inc(svc.failStreak)
             /\ svc'.needed => svc.needed \/ Inc(svc.failStreak) >= FailThreshold
             /\ svc.needed => svc'.needed
             /\ svc'.rxAge = svc.rxAge
      BY <1>0, <3>1, <3>2, RxTimedOutEffect DEF Disconnected
    <3>4. /\ misses' \in 0..FailThreshold
          /\ Inc(svc.failStreak) <= misses' \/ misses' = FailThreshold
          /\ Inc(svc.failStreak) >= FailThreshold \/ misses = FailThreshold
                 => misses' = FailThreshold
          /\ 0 <= misses'
      <4>1. svc.failStreak <= misses \/ misses = FailThreshold
        BY <1>7 DEF Judge, Streaks
      <4>2. Inc(svc.failStreak) \in Int /\ Inc(svc.failStreak) <= svc.failStreak + 1
        BY Ranges, Constants, IncType
      <4> QED BY <3>1, <4>1, <4>2, Ranges, Constants DEF Least
    <3>5. svc.rxAge > RxTimeout
      BY <2>1, OverdueAge
    <3>6. TypeOK'
      BY <1>7, <3>3, <3>4 DEF Judge, TypeOK, LoopPcs, Others
    <3>7. Flags'
      BY <1>7, <3>3 DEF Judge, Flags, Others
    <3>8. Streaks'
      BY <1>7, <3>3, <3>4, <3>5 DEF Judge, Flags, Streaks, Others
    <3>9. Recent'
      BY <1>7, <3>3 DEF Judge, Recent, Others
    <3>10. Inc(svc.failStreak) \in Int /\ Inc(svc.failStreak) >= svc.failStreak
      BY Ranges, Constants DEF Inc
    <3>11. Remembers
      BY <3>3, <3>10, Ranges, Constants DEF Remembers
    <3> QED BY <3>6, <3>7, <3>8, <3>9, <3>11
  <2>2. CASE ~Overdue
    <3>1. svc' = RxRecovered(svc) /\ misses' = misses
      BY <1>7, <2>2 DEF Judge
    <3>2. /\ svc' \in ServiceFields
          /\ svc'.open = svc.open /\ svc'.sensorConnected = svc.sensorConnected
          /\ svc'.udpAlive /\ ~svc'.needed
          /\ svc'.linkAlive => svc'.sensorConnected
          /\ svc'.failStreak \in {0, svc.failStreak}
          /\ svc'.rxAge = svc.rxAge
      BY <1>0, <3>1, RxRecoveredEffect
    <3>4. misses \in Nat
      BY Constants, Ranges
    <3>5. FrameAge <= RxTimeout
      BY <2>2, OverdueAge
    <3>6. TypeOK'
      BY <1>7, <3>1, <3>2 DEF Judge, TypeOK, LoopPcs, Others
    <3>7. Flags'
      BY <1>7, <3>2 DEF Judge, Flags, Others
    <3>8. Streaks'
      BY <1>7, <3>1, <3>2, <3>4 DEF Judge, Streaks, Others
    <3>9. Recent'
      BY <1>7, <3>2, <3>5 DEF Judge, Recent, FrameAge, Others
    <3>10. Remembers
      BY <1>7, <2>2 DEF Remembers
    <3> QED BY <3>6, <3>7, <3>8, <3>9, <3>10
  <2> QED BY <2>1, <2>2
<1> QED BY <1>1, <1>2, <1>3, <1>4, <1>5, <1>6, <1>7

LEMMA StepInvariant == IInv /\ [Next]_vars => IInv' /\ Remembers
<1> SUFFICES ASSUME IInv, [Next]_vars PROVE IInv' /\ Remembers
  OBVIOUS
<1>1. CASE Main
  <2>1. CASE Sensor
    BY <2>1, QuietSteps, SensorSteps DEF Sensor
  <2> QED BY <1>1, <2>1, QuietSteps, SensorSteps, SessionSteps, ReplySteps DEF Main
<1>2. CASE Callback \/ LinkDrop
  BY <1>2, SessionSteps DEF Callback
<1>3. CASE NetChanges \/ Signal \/ Ended \/ UNCHANGED vars
  BY <1>3, QuietSteps DEF Ended
<1> QED BY <1>1, <1>2, <1>3 DEF Next

\* The inductive invariant is one.
THEOREM Invariance == Spec => []IInv
<1> QED BY InitInvariant, StepInvariant, PTL DEF Spec

\* Every variable keeps to its range, the streaks, ages and waits included.
THEOREM TypeCorrect == Spec => []TypeOK
<1>1. IInv => TypeOK
  BY DEF IInv
<1> QED BY <1>1, Invariance, PTL

\* A published link_alive, a handler's or the loop's, has an open session behind it.
THEOREM PublishedLink == Spec => []PublishedLinkHasSession
<1>1. IInv => PublishedLinkHasSession
  BY DEF IInv, Flags, PublishedLinkHasSession, Publishing
<1> QED BY <1>1, Invariance, PTL

\* A published link_alive has a frame behind it that was no older than the timeout
\* at the stamp of the last poll: of this iteration for the loop's own status, of
\* the one before for a handler's.
THEOREM PublishedLinkRecent == Spec => []LinkAliveIsRecent
<1>1. IInv => LinkAliveIsRecent
  BY DEF IInv, Flags, Recent, LinkAliveIsRecent, Publishing
<1> QED BY <1>1, Invariance, PTL

\* What it takes for the watchdog to close a session.
LEMMA WatchdogStep ==
    ASSUME IInv, [Next]_vars, WatchdogCloses
    PROVE  /\ ~svc.recording
           /\ link = "up" => svc.rxAge > RxTimeout /\ misses' >= FailThreshold
<1> USE DEF IInv
<1>0. svc \in ServiceFields
  BY DEF TypeOK
<1>1. (DeferredReconnect \/ Judge) /\ ~UNCHANGED svc
  <2>1. svc' # svc
    BY DEF WatchdogCloses
  <2>2. ~PollCall
    BY DEF WatchdogCloses, PollCall
  <2>3. ~\E r \in Replies : Establish(r)
    BY DEF WatchdogCloses, Establish
  <2>4. /\ ~\E r \in Replies \cup {"nocall"}, d \in 0..MaxDrain, status \in BOOLEAN :
               DrainCall(r, d, status)
        /\ ~DrainDone
        /\ ~\E r \in Replies \cup {"nocall", "refresh"} : Rest(r)
        /\ ~\E due \in BOOLEAN : Publish(due)
        /\ ~\E d \in 0..1 : Sleep(d)
    BY DEF WatchdogCloses, DrainCall, DrainDone, Rest, Publish, Sleep
  <2>5. ~(Callback \/ LinkDrop \/ NetChanges \/ Signal \/ Ended)
    BY DEF WatchdogCloses, Callback, CbLost, CbClose, CbClear, LinkDrop, NetChanges, Signal,
           Ended, MainUnchanged, vars
  <2>6. ~(Top \/ ConnectFails \/ ConnectSucceeds \/ Shutdown)
    BY DEF WatchdogCloses, Top, ConnectFails, ConnectSucceeds, Shutdown
  <2>7. ~(SensorNotDue \/ OpenFails \/ OpenSucceeds \/ MarkOpened \/ PollSkipped
             \/ HandleFrame \/ HandleNothing \/ HandleError \/ HandleFault)
    BY <2>1 DEF WatchdogCloses, SensorNotDue, OpenFails, SensorDue, OpenSucceeds, MarkOpened,
           PollSkipped, HandleFrame, HandleNothing, HandleError, HandleFault
  <2>8. ~UNCHANGED vars
    BY <2>1 DEF vars
  <2> QED BY <2>1, <2>2, <2>3, <2>4, <2>5, <2>6, <2>7, <2>8 DEF Next, Main, Sensor
<1>2. CASE DeferredReconnect
  <2>1. ~svc.recording
    BY <1>2 DEF DeferredReconnect
  <2>2. link = "up" => svc.rxAge > RxTimeout /\ misses = FailThreshold
    BY <1>2 DEF DeferredReconnect, Streaks
  <2>3. misses' = misses
    BY <1>2 DEF DeferredReconnect, History
  <2> QED BY <2>1, <2>2, <2>3, Constants
<1>3. CASE Judge
  <2>1. Overdue
    <3>1. SUFFICES ASSUME ~Overdue PROVE FALSE
      OBVIOUS
    <3>2. svc' = RxRecovered(svc)
      BY <1>3, <3>1 DEF Judge
    <3>3. svc'.open = svc.open
      BY <1>0, <3>2, RxRecoveredEffect
    <3> QED BY <3>3 DEF WatchdogCloses
  <2>2. svc' = RxTimedOut(svc, svc.recording) /\ misses' = Least(misses + 1, FailThreshold)
    BY <1>3, <2>1 DEF Judge
  <2>3. svc.recording \in BOOLEAN
    BY <1>0 DEF ServiceFields
  <2>4. ~svc.recording /\ Inc(svc.failStreak) >= FailThreshold
    BY <1>0, <2>2, <2>3, RxTimedOutEffect DEF WatchdogCloses
  <2>5. svc.rxAge > RxTimeout
    BY <2>1, OverdueAge
  <2>6. svc.failStreak <= misses \/ misses = FailThreshold
    BY <1>3 DEF Judge, Streaks
  <2>7. Inc(svc.failStreak) \in Int /\ Inc(svc.failStreak) <= svc.failStreak + 1
    BY Ranges, Constants, IncType
  <2>8. misses' >= FailThreshold
    BY <2>2, <2>4, <2>6, <2>7, Ranges, Constants DEF Least
  <2> QED BY <2>4, <2>5, <2>8
<1> QED BY <1>1, <1>2, <1>3

\* With MQTT up, the watchdog closes only a session that has been silent for
\* the timeout and was found so often enough.
THEOREM WatchdogPatient == Spec => WatchdogNeedsSilence
<1>1. IInv /\ [Next]_vars =>
        [WatchdogCloses /\ link = "up" => /\ svc.rxAge > RxTimeout
                                          /\ misses' >= FailThreshold]_vars
  BY WatchdogStep
<1> QED BY <1>1, Invariance, PTL DEF Spec, WatchdogNeedsSilence

\* The watchdog never closes the session of a device that records.
THEOREM RecordingSafe == Spec => RecordingKeepsSession
<1>1. IInv /\ [Next]_vars => [WatchdogCloses => ~svc.recording]_vars
  BY WatchdogStep
<1> QED BY <1>1, Invariance, PTL DEF Spec, RecordingKeepsSession

\* What an overdue poll does, and that nothing else undoes it.
Insists ==
    Judge /\ Overdue =>
        IF Inc(svc.failStreak) < FailThreshold
        THEN svc.failStreak < svc'.failStreak /\ ~svc'.linkAlive
        ELSE IF svc.recording THEN svc'.needed /\ ~svc'.linkAlive
        ELSE ~svc'.open /\ ~svc'.sensorConnected /\ ~svc'.linkAlive

LEMMA OverdueInsists ==
    ASSUME TypeOK
    PROVE  Insists
<1> SUFFICES ASSUME Judge, Overdue
             PROVE  IF Inc(svc.failStreak) < FailThreshold
                    THEN svc.failStreak < svc'.failStreak /\ ~svc'.linkAlive
                    ELSE IF svc.recording THEN svc'.needed /\ ~svc'.linkAlive
                    ELSE ~svc'.open /\ ~svc'.sensorConnected /\ ~svc'.linkAlive
  BY DEF Insists
<1>1. svc' = RxTimedOut(svc, svc.recording)
  BY DEF Judge
<1>2. svc \in ServiceFields /\ svc.recording \in BOOLEAN
  BY DEF TypeOK, ServiceFields
<1>3. /\ Inc(svc.failStreak) \in Int /\ FailThreshold \in Int
      /\ Inc(svc.failStreak) < FailThreshold => svc.failStreak < Inc(svc.failStreak)
  BY Ranges, Constants DEF Inc
<1>4. CASE Disconnected(svc, svc') /\ ~svc.recording /\ Inc(svc.failStreak) >= FailThreshold
  BY <1>3, <1>4 DEF Disconnected
<1>5. CASE /\ ~svc'.linkAlive /\ svc'.failStreak = Inc(svc.failStreak)
           /\ svc.recording /\ Inc(svc.failStreak) >= FailThreshold => svc'.needed
           /\ Inc(svc.failStreak) < FailThreshold \/ svc.recording
  BY <1>3, <1>5
<1> QED BY <1>1, <1>2, <1>4, <1>5, RxTimedOutEffect

\* What SilenceReopens rests on besides fairness: each overdue poll brings the
\* streak up until, at the threshold, the session is closed or, in a recording,
\* marked to be; no answer of the data logger, no drain, no loss of MQTT that
\* leaves the session open and no other step takes either back.
THEOREM SilenceCounts == Spec => [][Insists /\ Remembers]_vars
<1>1. IInv /\ [Next]_vars => [Insists /\ Remembers]_vars
  BY StepInvariant, OverdueInsists DEF IInv
<1> QED BY <1>1, Invariance, PTL DEF Spec
=============================================================================
