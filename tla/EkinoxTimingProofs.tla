------------------------- MODULE EkinoxTimingProofs -------------------------
(***************************************************************************)
(* Proofs about EkinoxHealth that rest on how long an iteration of run()   *)
(* takes: a prompt one reports api_ok while the logger replies.  And how   *)
(* many steps run() has left once stop_flag is set.                        *)
(***************************************************************************)
EXTENDS EkinoxHealthProofs

-----------------------------------------------------------------------------
(* Arithmetic of the bounds.                                                *)

LEMMA PollWithinTimeout ==
    ASSUME MinPoll <= PresenceTimeout
    PROVE  RestPollInterval \in Nat /\ 1 <= RestPollInterval /\ RestPollInterval <= PresenceTimeout
<1> DEFINE half == PresenceTimeout \div 2
<1>1. half \in Nat /\ half <= PresenceTimeout
  BY TimeAssumption
<1>2. RestPollInterval = IF half < MinPoll THEN MinPoll
                         ELSE IF half > MaxPoll THEN MaxPoll ELSE half
  BY DEF RestPollInterval
<1> HIDE DEF half
<1> QED BY <1>1, <1>2, TimeAssumption

\* What the steps below need to know of the bounds and of the present state.
LEMMA Bounds ==
    ASSUME MinPoll <= PresenceTimeout, IInv
    PROVE  /\ MaxCall \in Nat /\ MaxDrain \in Nat /\ PresenceTimeout \in Nat
           /\ RestPollInterval \in Nat /\ 1 <= RestPollInterval
           /\ RestPollInterval <= PresenceTimeout
           /\ MaxCall * calls \in Nat /\ LoopMax \in Nat
           /\ LoopMax >= MaxCall * calls + 3 * MaxCall
           /\ PollHorizon \in Nat /\ PollHorizon = RestPollInterval + LoopMax
           /\ RestHorizon \in Nat
           /\ loopAge \in Nat /\ calls \in 0..MaxDrain
           /\ svc \in ServiceFields /\ streak \in Int
           /\ svc.pollAge \in Int /\ svc.pollAge >= -1
           /\ svc.restAge \in Int /\ svc.restAge >= -1
           /\ Never = -1
<1>1. loopAge \in Nat /\ calls \in 0..MaxDrain /\ svc \in ServiceFields /\ streak \in Int
  BY DEF IInv, TypeOK
<1>2. MaxCall \in Nat /\ MaxDrain \in Nat /\ calls \in Nat /\ MaxDrain - calls \in Nat
  BY <1>1, BoundAssumption
<1>3. MaxCall * calls \in Nat /\ MaxCall * MaxDrain \in Nat /\ MaxCall * (MaxDrain - calls) \in Nat
  BY <1>2
<1>4. /\ MaxCall * MaxDrain = MaxCall * calls + MaxCall * (MaxDrain - calls)
      /\ MaxCall * (MaxDrain + 3) = MaxCall * MaxDrain + 3 * MaxCall
  BY <1>2
<1>5. LoopMax \in Nat /\ LoopMax >= MaxCall * calls + 3 * MaxCall
  BY <1>2, <1>3, <1>4 DEF LoopMax
<1>6. RestPollInterval \in Nat /\ 1 <= RestPollInterval /\ RestPollInterval <= PresenceTimeout
  BY PollWithinTimeout
<1>7. PresenceTimeout \in Nat
  BY TimeAssumption
<1>8. /\ PollHorizon \in Nat /\ PollHorizon = RestPollInterval + LoopMax
      /\ RestHorizon \in Nat
  BY <1>5, <1>6, <1>7 DEF PollHorizon, RestHorizon
<1>9. /\ svc.pollAge \in Ages(PollHorizon) /\ svc.restAge \in Ages(RestHorizon)
  BY <1>1 DEF ServiceFields
<1> QED BY <1>1, <1>2, <1>3, <1>5, <1>6, <1>7, <1>8, <1>9 DEF Ages, Never

\* The age of a stamp after d ticks.
LEMMA LaterValue ==
    ASSUME NEW cap \in Nat, NEW age \in Nat, NEW d \in Nat
    PROVE  /\ Later(age, d, cap) \in Nat /\ Later(age, d, cap) # Never
           /\ Later(age, d, cap) <= age + d
           /\ Later(age, d, cap) = cap \/ Later(age, d, cap) = age + d
BY DEF Later, Never

\* Two stamps grow older together: the younger one stays the younger one, but
\* for the saturation of the other.
LEMMA LaterTogether ==
    ASSUME NEW cap \in Nat, NEW p \in Nat, NEW capr \in Nat, NEW r \in Nat,
           NEW d \in Nat, p = cap \/ r <= p
    PROVE  Later(p, d, cap) = cap \/ Later(r, d, capr) <= Later(p, d, cap)
BY DEF Later, Never

LEMMA LaterNow ==
    ASSUME NEW cap \in Nat, NEW d \in Nat
    PROVE  /\ Later(0, d, cap) \in Nat /\ Later(0, d, cap) <= d
           /\ Later(0, d, cap) # Never
           /\ d <= cap => Later(0, d, cap) = d
BY DEF Later, Never

-----------------------------------------------------------------------------
(* What the methods do to the stamps.                                       *)

\* The fields Punctual reads, all but api_ok.
SameStamps(s, t) ==
    /\ t.connected = s.connected /\ t.restAge = s.restAge
    /\ t.pollAge = s.pollAge /\ t.failStreak = s.failStreak

\* No success is older than the timeout: rest_offline_condition is false.
LEMMA RecentIsOnline ==
    ASSUME NEW s \in ServiceFields, NEW na \in Nat, s.failStreak = 0,
           s.restAge # Never, s.restAge <= PresenceTimeout
    PROVE  ~RestOffline(s, na)
<1>1. s.restAge \in Nat /\ PresenceTimeout \in Nat
  BY ConstantTypes DEF ServiceFields, Ages
<1>2. RestAge(s, na) \in Nat /\ RestAge(s, na) <= PresenceTimeout
  BY <1>1 DEF RestAge
<1>3. ~(RestAge(s, na) > (IF s.recording THEN 3 * PresenceTimeout ELSE PresenceTimeout))
  BY <1>1, <1>2
<1>4. ~(s.failStreak >= FailLimit)
  BY DEF FailLimit
<1> QED BY <1>3, <1>4 DEF RestOffline

\* A success sets api_ok whatever stamp it is given.
LEMMA RestSuccessStamps ==
    ASSUME NEW s \in ServiceFields, NEW na \in Nat, ~s.exc,
           NEW t, t = RestSuccess(s, na)
    PROVE  /\ t \in ServiceFields /\ t.connected = s.connected
           /\ t.pollAge = s.pollAge /\ t.failStreak = 0
           /\ t.restAge = Later(0, na, RestHorizon) /\ t.apiOk
<1> DEFINE a == [s EXCEPT !.restAlive = TRUE,
                          !.restAge = Later(0, na, RestHorizon),
                          !.failStreak = 0,
                          !.okStreak = Inc(@)]
           u == UpdateLinkHealth(a, na)
<1>1. Later(0, na, RestHorizon) \in Ages(RestHorizon) \ {Never}
  BY ConstantTypes, LaterType DEF Ages
<1>2. s.okStreak \in 0..StreakCap /\ Inc(s.okStreak) \in 0..StreakCap /\ 0 \in 0..StreakCap
  BY IncType, ConstantTypes DEF ServiceFields
<1>3. a \in ServiceFields
  BY <1>1, <1>2 DEF ServiceFields
<1>4. /\ a.connected = s.connected /\ a.pollAge = s.pollAge /\ a.failStreak = 0
      /\ a.restAge = Later(0, na, RestHorizon) /\ a.exc = s.exc
  BY DEF ServiceFields
<1>5. RestAge(a, na) = 0
  BY <1>4, ConstantTypes DEF RestAge, Later, Never
<1>6. ~RestOffline(a, na)
  <2>1. ~(a.failStreak >= FailLimit) /\ a.restAge # Never
    BY <1>1, <1>4 DEF FailLimit
  <2>2. ~(0 > (IF a.recording THEN 3 * PresenceTimeout ELSE PresenceTimeout))
    BY ConstantTypes
  <2> QED BY <1>5, <2>1, <2>2 DEF RestOffline
<1>7. u \in ServiceFields /\ u = [a EXCEPT !.apiOk = ~RestOffline(a, na)]
  BY <1>3, UpdateLinkHealthType
<1> HIDE DEF a
<1>8. /\ u.connected = a.connected /\ u.pollAge = a.pollAge /\ u.exc = a.exc
      /\ u.failStreak = a.failStreak /\ u.restAge = a.restAge /\ u.apiOk
  BY <1>3, <1>6, <1>7 DEF ServiceFields
<1> HIDE DEF u
<1>9. t = UpdatePresenceState(u, na)
  BY DEF RestSuccess, a, u
<1>10. t \in ServiceFields /\ PresenceOnly(u, t)
  BY <1>4, <1>7, <1>8, <1>9, UpdatePresenceStateEffect
<1>11. /\ t.connected = u.connected /\ t.pollAge = u.pollAge
       /\ t.failStreak = u.failStreak /\ t.restAge = u.restAge /\ t.apiOk = u.apiOk
  BY <1>7, <1>10, PresenceOnlyFields
<1> QED BY <1>4, <1>8, <1>10, <1>11

\* A failure leaves the stamps; what it does to api_ok does not matter here.
LEMMA RestFailureStamps ==
    ASSUME NEW s \in ServiceFields, NEW na \in Nat, ~s.exc,
           NEW t, t = RestFailure(s, na)
    PROVE  t \in ServiceFields /\ t.connected = s.connected /\ t.pollAge = s.pollAge
<1> DEFINE a == [s EXCEPT !.failStreak = Inc(@), !.okStreak = 0]
           b == [a EXCEPT !.restAlive = ~RestOffline(a, na)]
           u == UpdateLinkHealth(b, na)
<1>1. s.failStreak \in 0..StreakCap /\ Inc(s.failStreak) \in 0..StreakCap /\ 0 \in 0..StreakCap
  BY IncType, ConstantTypes DEF ServiceFields
<1>2. a \in ServiceFields
  BY <1>1 DEF ServiceFields
<1>3. (~RestOffline(a, na)) \in BOOLEAN
  BY DEF RestOffline
<1>4. b \in ServiceFields
  BY <1>2, <1>3 DEF ServiceFields
<1>5. u \in ServiceFields /\ u = [b EXCEPT !.apiOk = ~RestOffline(b, na)]
  BY <1>4, UpdateLinkHealthType
<1>6. u.connected = s.connected /\ u.pollAge = s.pollAge /\ u.exc = s.exc
  BY <1>5 DEF ServiceFields
<1>7. t = IF RestOffline(a, na) THEN UpdatePresenceState(u, na) ELSE u
  BY DEF RestFailure
<1> HIDE DEF a, b, u
<1>8. CASE t = u
  BY <1>5, <1>6, <1>8
<1>9. CASE t = UpdatePresenceState(u, na)
  <2>1. t \in ServiceFields /\ PresenceOnly(u, t)
    BY <1>5, <1>6, <1>9, UpdatePresenceStateEffect
  <2>2. t.connected = u.connected /\ t.pollAge = u.pollAge
    BY <1>5, <2>1, PresenceOnlyFields
  <2> QED BY <1>6, <2>1, <2>2
<1> QED BY <1>7, <1>8, <1>9

\* mark_rest_result and request_logger_state.
ReplyStamps(s, t, ok, na) ==
    /\ t \in ServiceFields /\ t.connected = s.connected /\ t.pollAge = s.pollAge
    /\ ok => /\ t.failStreak = 0 /\ t.apiOk
             /\ t.restAge = Later(0, na, RestHorizon)

LEMMA MarkStamps ==
    ASSUME NEW s \in ServiceFields, NEW na \in Nat, ~s.exc, NEW ok \in BOOLEAN
    PROVE  ReplyStamps(s, MarkRestResult(s, ok, na), ok, na)
<1>1. CASE ok
  BY <1>1, RestSuccessStamps DEF MarkRestResult, ReplyStamps
<1>2. CASE ~ok
  BY <1>2, RestFailureStamps DEF MarkRestResult, ReplyStamps
<1> QED BY <1>1, <1>2

LEMMA RequestStamps ==
    ASSUME NEW s \in ServiceFields, NEW na \in Nat, ~s.exc, NEW r \in Replies
    PROVE  ReplyStamps(s, RequestLoggerState(s, r, na), ReplyOk(r), na)
<1> DEFINE m == MarkRestResult(s, ReplyOk(r), na)
           t == RequestLoggerState(s, r, na)
<1>1. ReplyOk(r) \in BOOLEAN
  BY DEF ReplyOk
<1>2. ReplyStamps(s, m, ReplyOk(r), na)
  BY <1>1, MarkStamps
<1>3. t = m \/ t = [m EXCEPT !.recording = (r = "recording")]
  BY DEF RequestLoggerState
<1> HIDE DEF m, t
<1>4. m \in ServiceFields
  BY <1>2 DEF ReplyStamps
<1>5. /\ t \in ServiceFields /\ t.connected = m.connected /\ t.pollAge = m.pollAge
      /\ t.failStreak = m.failStreak /\ t.apiOk = m.apiOk /\ t.restAge = m.restAge
  BY <1>3, <1>4 DEF ServiceFields
<1>6. ReplyStamps(s, t, ReplyOk(r), na)
  BY <1>2, <1>5 DEF ReplyStamps
<1> QED BY <1>6 DEF t

\* The time a call takes makes the stamps older and changes nothing else.
LEMMA ElapsedStamps ==
    ASSUME NEW s \in ServiceFields, NEW d \in Nat
    PROVE  /\ Elapse(s, d).connected = s.connected
           /\ Elapse(s, d).pollAge = Later(s.pollAge, d, PollHorizon)
BY DEF Elapse, ServiceFields

\* refresh_rest_health leaves the stamps; with a recent success also api_ok.
LEMMA RefreshStamps ==
    ASSUME NEW s \in ServiceFields, NEW na \in Nat, ~s.exc,
           NEW t, t = RefreshRestHealth(s, na)
    PROVE  /\ t \in ServiceFields /\ SameStamps(s, t)
           /\ ~RestOffline(s, na) => t.apiOk = s.apiOk
<1>1. CASE ~RestOffline(s, na)
  <2>1. t = [s EXCEPT !.restAlive = TRUE]
    BY <1>1 DEF RefreshRestHealth
  <2> QED BY <2>1 DEF ServiceFields, SameStamps
<1>2. CASE RestOffline(s, na) /\ ~s.restAlive
  <2>1. t = s
    BY <1>2 DEF RefreshRestHealth
  <2> QED BY <2>1 DEF SameStamps
<1>3. CASE RestOffline(s, na) /\ s.restAlive
  <2> DEFINE a == [s EXCEPT !.restAlive = FALSE]
             u == UpdateLinkHealth(a, na)
  <2>1. t = UpdatePresenceState(u, na)
    BY <1>3 DEF RefreshRestHealth
  <2>2. a \in ServiceFields
    BY DEF ServiceFields
  <2>3. u \in ServiceFields /\ u = [a EXCEPT !.apiOk = ~RestOffline(a, na)]
    BY <2>2, UpdateLinkHealthType
  <2>4. SameStamps(s, u) /\ u.exc = s.exc
    BY <2>3 DEF ServiceFields, SameStamps
  <2> HIDE DEF a, u
  <2>5. t \in ServiceFields /\ PresenceOnly(u, t)
    BY <2>1, <2>3, <2>4, UpdatePresenceStateEffect
  <2>6. SameStamps(u, t)
    BY <2>3, <2>5, PresenceOnlyFields DEF SameStamps
  <2> QED BY <1>3, <2>4, <2>5, <2>6 DEF SameStamps
<1> QED BY <1>1, <1>2, <1>3

-----------------------------------------------------------------------------
(* Steps.                                                                   *)

\* What every step below starts from.
Timely == MinPoll <= PresenceTimeout /\ IInv /\ Punctual

\* What Punctual says of a session whose replies were all successes.
Recent == svc.failStreak = 0 /\ svc.restAge # Never /\ SuccessAge /\ OkOrDue

\* Steps of the other actors, and of the process: the stamps stay.
LEMMA StampsStay ==
    ASSUME Timely, SameStamps(svc, svc'), svc'.apiOk = svc.apiOk,
           UNCHANGED <<loopAge, calls, streak, clean>>,
           pc' = pc \/ pc' = "crashed"
    PROVE  Punctual'
<1>1. Replying' <=> Replying
  BY DEF Replying, SameStamps
<1>2. StampAge'
  BY DEF Timely, Punctual, StampAge
<1>3. Running' => pc' = pc /\ Running
  BY DEF Running, LoopPcs
<1>4. (Running => PollStamp)'
  BY <1>3 DEF Timely, Punctual, PollStamp, SameStamps
<1>5. (Running /\ Replying => Recent)'
  BY <1>1, <1>3 DEF Timely, Punctual, Recent, SuccessAge, OkOrDue, PollDue, SameStamps
<1> QED BY <1>2, <1>4, <1>5 DEF Punctual, Recent

LEMMA BesideTheLoop ==
    ASSUME Timely, LinkDrop \/ CbTail \/ Deliver \/ Signal \/ Kill \/ UNCHANGED vars
    PROVE  Punctual'
<1>1. svc \in ServiceFields /\ (Running => ~svc.exc)
  BY DEF Timely, IInv, TypeOK, Phases
<1>2. CASE CbTail
  <2>1. /\ Running /\ svc' = UpdatePresenceState(svc, 0)
        /\ pc' = pc \/ pc' = "crashed"
        /\ UNCHANGED <<loopAge, calls, streak, clean>>
    BY <1>2 DEF CbTail, Continue
  <2>2. svc' \in ServiceFields /\ PresenceOnly(svc, svc')
    BY <1>1, <2>1, UpdatePresenceStateEffect
  <2>3. SameStamps(svc, svc') /\ svc'.apiOk = svc.apiOk
    BY <1>1, <2>2, PresenceOnlyFields DEF SameStamps
  <2> QED BY <2>1, <2>3, StampsStay
<1>3. CASE LinkDrop \/ Deliver \/ Signal \/ Kill \/ UNCHANGED vars
  <2>1. /\ SameStamps(svc, svc') /\ svc'.apiOk = svc.apiOk
    BY <1>1, <1>3 DEF LinkDrop, Deliver, Signal, Kill, vars, SameStamps, ServiceFields
  <2>2. UNCHANGED <<loopAge, calls, streak, clean>> /\ (pc' = pc \/ pc' = "crashed")
    BY <1>3 DEF LinkDrop, Deliver, Signal, Kill, vars, MainUnchanged
  <2> QED BY <2>1, <2>2, StampsStay
<1> QED BY <1>2, <1>3

\* A step that leaves the service without a session: only the loop's stamp
\* has to keep its bound.
LEMMA WithoutSession ==
    ASSUME svc'.connected = FALSE, StampAge'
    PROVE  Punctual'
BY DEF Punctual, PollStamp, Replying

LEMMA CbLostPunctual ==
    ASSUME Timely, CbLost
    PROVE  Punctual'
<1> DEFINE a == [svc EXCEPT !.connected = FALSE, !.presenceOnline = FALSE,
                            !.okStreak = 0, !.pollAge = Never]
<1>1. svc' = UpdateLinkHealth(a, 0) /\ pc' = pc /\ UNCHANGED <<loopAge, calls>>
  BY DEF CbLost, LoseSession, MainUnchanged
<1>2. svc'.connected = FALSE
  BY <1>1 DEF UpdateLinkHealth, Timely, IInv, TypeOK, ServiceFields
<1>3. StampAge'
  BY <1>1 DEF Timely, Punctual, StampAge
<1> QED BY <1>2, <1>3, WithoutSession

\* Places of the loop that only move the program counter.
LEMMA MovesPunctual ==
    ASSUME Timely, Top \/ TopConnect \/ Subscribe \/ DrainDone
    PROVE  Punctual'
<1>1. UNCHANGED <<svc, loopAge, calls, streak, clean>> /\ Running /\ (Replying' <=> Replying)
  BY DEF Top, TopConnect, Subscribe, DrainDone, Unobserved, Running, LoopPcs, Replying
<1>2. \/ pc = "top" /\ pc' \in {"shutdown", "enter"}
      \/ pc = "top" /\ pc' = "connecting" /\ ~svc.connected
      \/ pc = "subscribing" /\ pc' = "subscribed" /\ ~svc.connected
      \/ pc = "drain" /\ pc' = "sense"
  BY DEF Top, TopConnect, Subscribe, DrainDone, Timely, IInv, Phases
<1>3. StampAge'
  BY <1>1, <1>2, Bounds DEF Timely, Punctual, StampAge
<1>4. PollStamp'
  BY <1>1, <1>2 DEF Timely, Punctual, PollStamp
<1>5. Replying' => Recent'
  BY <1>1, <1>2 DEF Timely, Punctual, Recent, SuccessAge, OkOrDue, PollDue, Replying
<1> QED BY <1>3, <1>4, <1>5 DEF Punctual, Recent

LEMMA EnterPunctual ==
    ASSUME Timely, Enter
    PROVE  Punctual'
<1>1. UNCHANGED <<loopAge, calls, streak, clean>> /\ pc = "enter" /\ Running
  BY DEF Enter, Unobserved, Running, LoopPcs
<1>2. StampAge'
  BY <1>1, Bounds DEF Timely, Enter, Punctual, StampAge
<1>3. CASE svc.connected
  <2>1. pc' = "drain" /\ svc' = svc
    BY <1>3 DEF Enter
  <2>2. PollStamp'
    BY <1>1, <2>1 DEF Timely, Punctual, PollStamp
  <2>3. Replying' <=> Replying
    BY <1>1, <2>1 DEF Replying
  <2>4. Replying' => Recent'
    BY <1>1, <2>1, <2>3 DEF Timely, Punctual, Recent, SuccessAge, OkOrDue, PollDue
  <2> QED BY <1>2, <2>2, <2>4 DEF Punctual, Recent
<1>4. CASE ~svc.connected
  <2>1. svc'.connected = FALSE
    BY <1>4, Bounds DEF Timely, Enter, ServiceFields
  <2> QED BY <1>2, <2>1, WithoutSession
<1> QED BY <1>3, <1>4

\* connect_once up to the subscription has no session.
LEMMA ConnectPunctual ==
    ASSUME Timely, NEW d \in Durations, ConnectFails(d) \/ ConnectSucceeds(d)
    PROVE  Punctual'
<1> USE Bounds DEF Timely
<1>1. d \in Nat /\ d <= MaxCall
  BY DEF Durations
<1>2. /\ svc' = Elapse(svc, d) /\ loopAge' = loopAge + d /\ ~svc.connected
      /\ \/ pc = "connecting" /\ pc' \in {"enter", "subscribing"}
         \/ pc = "subscribing" /\ pc' = "enter"
  BY DEF ConnectFails, ConnectSucceeds, IInv, Phases
<1>3. svc'.connected = FALSE
  BY <1>2 DEF Elapse, ServiceFields
<1>4. StampAge'
  BY <1>1, <1>2 DEF Punctual, StampAge
<1> QED BY <1>3, <1>4, WithoutSession

\* The session starts with the poll stamp of now, and without a reply.
LEMMA EstablishPunctual ==
    ASSUME Timely, Establish
    PROVE  Punctual'
<1> USE Bounds DEF Timely
<1> DEFINE r == ResetSession(svc)
           p == UpdatePresenceState(r, 0)
           u == PublishStatus(p)
<1>1. /\ svc' = [u EXCEPT !.exc = FALSE] /\ pc = "subscribed"
      /\ pc' \in {"enter", "selftest"} /\ streak' = 0
      /\ UNCHANGED <<loopAge, calls>>
  BY DEF Establish
<1>2. /\ r \in ServiceFields /\ ~r.exc /\ r.pollAge = 0
  <2>1. /\ Never \in Ages(RestHorizon) /\ Never \in Ages(MinPublishInterval)
        /\ 0 \in Ages(PollHorizon) /\ 0 \in 0..StreakCap
    BY ConstantTypes DEF Ages
  <2>2. ~svc.exc
    BY <1>1 DEF IInv, Phases, Running, LoopPcs
  <2> QED BY <2>1, <2>2 DEF ResetSession, ServiceFields
<1> HIDE DEF r
<1>3. p \in ServiceFields /\ PresenceOnly(r, p)
  BY <1>2, UpdatePresenceStateEffect
<1>4. p.pollAge = 0
  BY <1>2, <1>3, PresenceOnlyFields
<1> HIDE DEF p
<1>5. u \in ServiceFields /\ u.pollAge = p.pollAge
  <2>1. u \in ServiceFields /\ u = [p EXCEPT !.exc = u.exc]
    BY <1>3, PublishStatusEffect
  <2> HIDE DEF u
  <2> QED BY <1>3, <2>1 DEF ServiceFields
<1> HIDE DEF u
<1>6. svc'.pollAge = 0
  BY <1>1, <1>4, <1>5 DEF ServiceFields
<1>7. StampAge'
  BY <1>1 DEF Punctual, StampAge
<1>8. PollStamp'
  BY <1>1, <1>6 DEF PollStamp
<1>9. ~Replying'
  BY <1>1 DEF Replying
<1> QED BY <1>7, <1>8, <1>9 DEF Punctual

\* A call or a wait of the drain keeps the bound of the loop's stamp.
LEMMA CallStamp ==
    ASSUME Timely, NEW d \in Nat, d <= MaxCall, pc = "drain", pc' \in {"drain", "crashed"},
           calls < MaxDrain, calls' = calls + 1, loopAge' = loopAge + d
    PROVE  StampAge'
<1>1. MaxCall \in Nat /\ calls \in Nat /\ loopAge \in Nat /\ MaxCall * calls \in Nat
  BY Bounds DEF Timely
<1>2. MaxCall * calls' = MaxCall * calls + MaxCall
  BY <1>1
<1>3. loopAge <= 2 * MaxCall + MaxCall * calls
  BY DEF Timely, Punctual, StampAge
<1> QED BY <1>1, <1>2, <1>3 DEF StampAge

\* In the drain, and until the poll, the loop's stamp is within LoopMax.
LEMMA LateEnough ==
    ASSUME Timely
    PROVE  /\ pc = "drain" => loopAge + MaxCall <= LoopMax
           /\ pc \in {"sense", "refresh"} => loopAge <= LoopMax
BY Bounds DEF Timely, Punctual, StampAge

\* A reply: a failure ends the run of successes, a success is stamped anew
\* and sets api_ok.
LEMMA ReplyPunctual ==
    ASSUME Timely, NEW ok \in BOOLEAN, Observe(ok), StampAge',
           Running' => PollStamp',
           ok => /\ svc'.failStreak = 0 /\ svc'.apiOk /\ svc'.restAge # Never
                 /\ Running' /\ svc'.connected => SuccessAge'
    PROVE  Punctual'
<1>1. Replying' => ok /\ svc'.connected
  <2>1. streak' \in Int /\ (~ok => streak' < 0)
    BY Bounds DEF Timely, IInv, TypeOK, Observe
  <2> QED BY <2>1 DEF Replying
<1>2. svc'.apiOk => OkOrDue'
  BY DEF OkOrDue
<1> QED BY <1>1, <1>2 DEF Punctual

\* One call of a command handler, GET or POST.
LEMMA CallPunctual ==
    ASSUME Timely, NEW d \in Durations, NEW ok \in BOOLEAN, Observe(ok),
           NEW na \in Nat, na <= d,
           NEW m, ReplyStamps(Elapse(svc, d), m, ok, na),
           NEW status \in BOOLEAN, svc' = (IF status THEN PublishStatus(m) ELSE m),
           pc = "drain", pc' \in {"drain", "crashed"},
           calls < MaxDrain, calls' = calls + 1, loopAge' = loopAge + d
    PROVE  Punctual'
<1>1. d \in Nat /\ d <= MaxCall /\ MaxCall \in Nat /\ RestHorizon \in Nat /\ PollHorizon \in Nat
  BY Bounds DEF Timely, Durations
<1>2. m \in ServiceFields
  BY DEF ReplyStamps
<1>3. /\ svc' \in ServiceFields /\ svc'.connected = m.connected
      /\ svc'.pollAge = m.pollAge /\ svc'.failStreak = m.failStreak
      /\ svc'.apiOk = m.apiOk /\ svc'.restAge = m.restAge
  BY <1>2 DEF PublishStatus, ServiceFields
<1>4. /\ svc'.connected = svc.connected
      /\ svc'.pollAge = Later(svc.pollAge, d, PollHorizon)
      /\ ok => /\ svc'.failStreak = 0 /\ svc'.apiOk
               /\ svc'.restAge = Later(0, na, RestHorizon)
  <2> DEFINE e == Elapse(svc, d)
  <2>1. svc \in ServiceFields
    BY Bounds DEF Timely
  <2>2. e.connected = svc.connected /\ e.pollAge = Later(svc.pollAge, d, PollHorizon)
    BY <1>1, <2>1, ElapsedStamps
  <2>3. ReplyStamps(e, m, ok, na)
    OBVIOUS
  <2> HIDE DEF e
  <2> QED BY ONLY <1>3, <2>2, <2>3 DEF ReplyStamps
<1>5. StampAge'
  BY <1>1, CallStamp
<1>6. svc.connected => svc.pollAge \in Nat
  BY Bounds DEF Timely, Punctual, PollStamp, Running, LoopPcs
<1>7. svc.connected => /\ svc'.pollAge # Never /\ svc'.pollAge \in Nat
                       /\ svc'.pollAge = PollHorizon \/ svc'.pollAge >= d
  <2> SUFFICES ASSUME svc.connected
               PROVE  LET p == Later(svc.pollAge, d, PollHorizon)
                      IN  p # Never /\ p \in Nat /\ (p = PollHorizon \/ p >= d)
    BY <1>4
  <2>1. svc.pollAge \in Nat
    BY <1>6
  <2> QED BY ONLY <1>1, <2>1 DEF Later, Never
<1>8. Running' => PollStamp'
  BY <1>4, <1>7 DEF PollStamp, Running, EndPcs, LoopPcs
<1>9. ok => svc'.restAge # Never /\ svc'.restAge \in Nat /\ svc'.restAge <= d
  <2>1. /\ Later(0, na, RestHorizon) # Never /\ Later(0, na, RestHorizon) <= na
        /\ Later(0, na, RestHorizon) \in Nat
    BY <1>1, LaterNow
  <2> QED BY <1>1, <1>4, <2>1
<1>10. ok /\ svc'.connected => SuccessAge'
  BY <1>1, <1>4, <1>7, <1>9 DEF SuccessAge
<1> QED BY <1>4, <1>5, <1>8, <1>9, <1>10, ReplyPunctual

\* A wait of a handler: all stamps grow older together.
LEMMA WaitPunctual ==
    ASSUME Timely, NEW d \in Durations, CommandWait(d)
    PROVE  Punctual'
<1>1. d \in Nat /\ d <= MaxCall /\ MaxCall \in Nat /\ RestHorizon \in Nat /\ PollHorizon \in Nat
  BY Bounds DEF Timely, Durations
<1>2. /\ pc = "drain" /\ pc' = "drain" /\ calls < MaxDrain /\ calls' = calls + 1
      /\ loopAge' = loopAge + d /\ svc' = Elapse(svc, d)
      /\ UNCHANGED <<streak, clean>>
  BY DEF CommandWait, Unobserved
<1>3. StampAge'
  BY <1>1, <1>2, CallStamp
<1>4. /\ svc'.connected = svc.connected /\ svc'.failStreak = svc.failStreak
      /\ svc'.apiOk = svc.apiOk
      /\ svc'.pollAge = Later(svc.pollAge, d, PollHorizon)
      /\ svc'.restAge = Later(svc.restAge, d, RestHorizon)
  BY <1>2, Bounds DEF Timely, Elapse, ServiceFields
<1>5. svc.connected => svc.pollAge \in Nat
  BY <1>2, Bounds DEF Timely, Punctual, PollStamp, Running, LoopPcs
<1>6. PollStamp'
  <2>1. svc.connected => Later(svc.pollAge, d, PollHorizon) # Never
    BY <1>1, <1>5, LaterValue
  <2> QED BY <1>2, <1>4, <2>1 DEF PollStamp
<1>7. ASSUME Replying'
      PROVE  Recent'
  <2>1. svc.connected /\ Replying
    BY <1>2, <1>4, <1>7 DEF Replying
  <2>2. Recent /\ svc.pollAge \in Nat /\ svc.restAge \in Nat
    <3>1. Recent
      BY <1>2, <2>1 DEF Timely, Punctual, Recent, Running, LoopPcs
    <3>2. svc.restAge \in Int /\ svc.restAge >= -1 /\ Never = -1
      BY Bounds DEF Timely
    <3> QED BY <1>5, <2>1, <3>1, <3>2 DEF Recent
  <2>3. svc'.restAge # Never
    <3>1. Later(svc.restAge, d, RestHorizon) # Never
      BY ONLY <1>1, <2>2 DEF Later, Never
    <3> QED BY <1>4, <3>1
  <2>4. SuccessAge'
    <3>1. svc.pollAge = PollHorizon \/ svc.restAge <= svc.pollAge
      BY <2>2 DEF Recent, SuccessAge
    <3>2. \/ Later(svc.pollAge, d, PollHorizon) = PollHorizon
          \/ Later(svc.restAge, d, RestHorizon) <= Later(svc.pollAge, d, PollHorizon)
      BY ONLY <1>1, <2>2, <3>1, LaterTogether
    <3> QED BY <1>4, <3>2 DEF SuccessAge
  <2>5. svc'.apiOk \/ PollDue'
    <3>1. svc.apiOk \/ svc.pollAge - loopAge >= RestPollInterval
      BY <1>2, <2>2 DEF Recent, OkOrDue, PollDue
    <3>2. loopAge' <= LoopMax /\ loopAge \in Nat /\ LoopMax \in Nat
      BY <1>1, <1>2, LateEnough, Bounds DEF Timely
    <3>3. svc'.pollAge = PollHorizon \/ svc'.pollAge = svc.pollAge + d
      BY <1>1, <1>4, <2>2, LaterValue
    <3> QED BY <1>1, <1>2, <1>4, <2>2, <3>1, <3>2, <3>3, Bounds DEF Timely, PollDue
  <2> QED BY <1>2, <1>4, <2>2, <2>3, <2>4, <2>5 DEF Recent, OkOrDue
<1> QED BY <1>3, <1>6, <1>7 DEF Punctual, Recent

LEMMA CommandPunctual ==
    ASSUME Timely, NEW r \in Replies, NEW d \in Durations,
           NEW ok \in BOOLEAN, NEW status \in BOOLEAN,
           CommandGet(r, d, status) \/ CommandPost(ok, d, status)
    PROVE  Punctual'
<1> DEFINE e == Elapse(svc, d)
<1>1. d \in Nat /\ d <= MaxCall /\ ReplyOk(r) \in BOOLEAN /\ 0 <= d
  BY BoundAssumption DEF Durations, ReplyOk
<1>2. /\ pc = "drain" /\ pc' \in {"drain", "crashed"} /\ calls < MaxDrain
      /\ calls' = calls + 1 /\ loopAge' = loopAge + d
  BY DEF CommandGet, CommandPost, MayCall, Continue
<1>3. e \in ServiceFields /\ ~e.exc
  <2>1. svc \in ServiceFields /\ ~svc.exc
    BY <1>2 DEF Timely, IInv, TypeOK, Phases, Running, LoopPcs
  <2> QED BY ONLY <1>1, <2>1, ElapseEffect
<1>4. CASE CommandGet(r, d, status)
  <2> DEFINE m == RequestLoggerState(e, r, d)
  <2>1. svc' = (IF status THEN PublishStatus(m) ELSE m) /\ Observe(ReplyOk(r))
    BY <1>4 DEF CommandGet, Continue
  <2>2. ReplyStamps(e, m, ReplyOk(r), d)
    BY <1>1, <1>3, RequestStamps
  <2> HIDE DEF m
  <2> QED BY <1>1, <1>2, <2>1, <2>2, CallPunctual
<1>5. CASE CommandPost(ok, d, status)
  <2> DEFINE m == MarkRestResult(e, ok, 0)
  <2>1. svc' = (IF status THEN PublishStatus(m) ELSE m) /\ Observe(ok)
    BY <1>5 DEF CommandPost, Continue
  <2>2. ReplyStamps(e, m, ok, 0)
    BY <1>3, MarkStamps
  <2> HIDE DEF m
  <2> QED BY <1>1, <1>2, <2>1, <2>2, CallPunctual
<1> QED BY <1>4, <1>5

LEMMA SelftestPunctual ==
    ASSUME Timely, NEW r \in Replies, NEW d \in Durations, Selftest(r, d)
    PROVE  Punctual'
<1> DEFINE e == Elapse(svc, d)
           m == RequestLoggerState(e, r, d)
           s == PublishStatus(m)
           u == [s EXCEPT !.exc = FALSE]
<1>1. d \in Nat /\ d <= MaxCall /\ ReplyOk(r) \in BOOLEAN
  BY BoundAssumption DEF Durations, ReplyOk
<1>2. /\ pc = "selftest" /\ pc' = "enter" /\ svc' = u
      /\ loopAge' = loopAge + d /\ calls' = calls /\ Observe(ReplyOk(r))
  BY DEF Selftest
<1>3. e \in ServiceFields /\ ~e.exc
  <2>1. svc \in ServiceFields /\ ~svc.exc
    BY <1>2 DEF Timely, IInv, TypeOK, Phases, Running, LoopPcs
  <2> QED BY ONLY <1>1, <2>1, ElapseEffect
<1>4. ReplyStamps(e, m, ReplyOk(r), d)
  BY <1>1, <1>3, RequestStamps
<1> HIDE DEF m
<1>5. m \in ServiceFields
  BY <1>4 DEF ReplyStamps
<1>6. /\ u \in ServiceFields /\ u.connected = m.connected /\ u.pollAge = m.pollAge
      /\ u.failStreak = m.failStreak /\ u.apiOk = m.apiOk /\ u.restAge = m.restAge
  <2>1. /\ s \in ServiceFields /\ s.connected = m.connected /\ s.pollAge = m.pollAge
        /\ s.failStreak = m.failStreak /\ s.apiOk = m.apiOk /\ s.restAge = m.restAge
    BY <1>5 DEF PublishStatus, ServiceFields
  <2> HIDE DEF s
  <2> QED BY <2>1 DEF ServiceFields
<1> HIDE DEF u
<1>7. /\ svc'.connected = svc.connected
      /\ svc'.pollAge = Later(svc.pollAge, d, PollHorizon)
      /\ ReplyOk(r) => /\ svc'.failStreak = 0 /\ svc'.apiOk
                       /\ svc'.restAge = Later(0, d, RestHorizon)
  <2>1. svc \in ServiceFields
    BY Bounds DEF Timely
  <2>2. e.connected = svc.connected /\ e.pollAge = Later(svc.pollAge, d, PollHorizon)
    BY <1>1, <2>1, ElapsedStamps
  <2> HIDE DEF e
  <2> QED BY ONLY <1>2, <1>4, <1>6, <2>2 DEF ReplyStamps
<1> HIDE DEF e
<1>8. loopAge <= MaxCall /\ (svc.connected => svc.pollAge = 0)
  BY <1>2 DEF Timely, Punctual, StampAge, PollStamp, Running, LoopPcs
<1>9. StampAge'
  BY <1>1, <1>2, <1>8, Bounds DEF Timely, StampAge
<1>10. RestHorizon \in Nat /\ PollHorizon \in Nat
  BY Bounds DEF Timely
<1>11. svc'.connected => /\ svc'.pollAge # Never
                         /\ svc'.pollAge = PollHorizon \/ svc'.pollAge = d
  <2>1. /\ Later(0, d, PollHorizon) # Never
        /\ Later(0, d, PollHorizon) = PollHorizon \/ Later(0, d, PollHorizon) = d
    BY ONLY <1>1, <1>10 DEF Later, Never
  <2> QED BY <1>7, <1>8, <2>1
<1>12. PollStamp'
  BY <1>2, <1>11 DEF PollStamp
<1>13. ReplyOk(r) => svc'.restAge # Never /\ svc'.restAge <= d
  BY <1>1, <1>7, <1>10, LaterNow
<1>14. ReplyOk(r) /\ svc'.connected => SuccessAge'
  BY <1>11, <1>13 DEF SuccessAge
<1> QED BY <1>1, <1>2, <1>7, <1>9, <1>12, <1>13, <1>14, ReplyPunctual

\* A successful poll is stamped, like the next deadline, with the loop's stamp.
LEMMA PollPunctual ==
    ASSUME Timely, NEW r \in Replies, NEW d \in Durations, Poll(r, d)
    PROVE  Punctual'
<1> DEFINE e == Elapse(svc, d)
           na == loopAge + d
           m == RequestLoggerState(e, r, na)
           u == IF m.exc THEN m ELSE [m EXCEPT !.pollAge = Later(0, na, PollHorizon)]
<1>1. d \in Nat /\ d <= MaxCall /\ na \in Nat /\ ReplyOk(r) \in BOOLEAN
  BY BoundAssumption DEF Timely, IInv, TypeOK, Durations, ReplyOk
<1>2. /\ pc = "poll" /\ svc' = u /\ pc' = (IF u.exc THEN "crashed" ELSE "publish")
      /\ loopAge' = loopAge + d /\ calls' = calls /\ Observe(ReplyOk(r))
  BY DEF Poll, Continue
<1>3. e \in ServiceFields /\ ~e.exc
  <2>1. svc \in ServiceFields /\ ~svc.exc
    BY <1>2 DEF Timely, IInv, TypeOK, Phases, Running, LoopPcs
  <2> QED BY ONLY <1>1, <2>1, ElapseEffect
<1>4. ReplyStamps(e, m, ReplyOk(r), na)
  BY <1>1, <1>3, RequestStamps
<1> HIDE DEF m
<1>5. m \in ServiceFields /\ e.connected = svc.connected
  BY <1>4, Bounds DEF ReplyStamps, Timely, Elapse, ServiceFields
<1>6. Later(0, na, PollHorizon) \in Ages(PollHorizon)
  BY <1>1, ConstantTypes, LaterType DEF Ages
<1>7. /\ u.connected = m.connected /\ u.failStreak = m.failStreak
      /\ u.apiOk = m.apiOk /\ u.restAge = m.restAge /\ u.exc = m.exc
      /\ ~m.exc => u.pollAge = Later(0, na, PollHorizon)
  BY <1>5, <1>6 DEF ServiceFields
<1> HIDE DEF u
<1>8. /\ svc'.connected = svc.connected
      /\ ReplyOk(r) => /\ svc'.failStreak = 0 /\ svc'.apiOk
                       /\ svc'.restAge = Later(0, na, RestHorizon)
      /\ pc' = "publish" => svc'.pollAge = Later(0, na, PollHorizon)
  BY <1>2, <1>4, <1>5, <1>7 DEF ReplyStamps
<1> HIDE DEF e
<1>9. pc' \in {"crashed", "publish"}
  BY <1>2
<1>10. StampAge'
  BY <1>9 DEF StampAge
<1>11. RestHorizon \in Nat /\ PollHorizon \in Nat
  BY Bounds DEF Timely
<1>12. /\ Later(0, na, PollHorizon) # Never
       /\ Later(0, na, PollHorizon) = PollHorizon \/ Later(0, na, PollHorizon) = na
       /\ Later(0, na, RestHorizon) # Never /\ Later(0, na, RestHorizon) <= na
  BY ONLY <1>1, <1>11 DEF Later, Never
<1>13. Running' => PollStamp'
  BY <1>8, <1>9, <1>12 DEF PollStamp, Running, LoopPcs
<1>14. ReplyOk(r) /\ Running' => SuccessAge'
  BY <1>8, <1>9, <1>12 DEF SuccessAge, Running, LoopPcs
<1> QED BY <1>1, <1>2, <1>8, <1>10, <1>12, <1>13, <1>14, ReplyPunctual

\* handle_sensor_disconnect and poll_sensor clear api_ok only if the last
\* success is older than the timeout; then so is the last poll.
LEMMA SensePunctual ==
    ASSUME Timely, Sense
    PROVE  Punctual'
<1>1. /\ pc = "sense" /\ pc' = "refresh" /\ UNCHANGED <<loopAge, calls, streak, clean>>
      /\ svc' = svc \/ \E na \in Nat : svc' = UpdateLinkHealth(svc, na)
  BY Bounds DEF Timely, Sense, Unobserved
<1>2. Running /\ svc \in ServiceFields
  BY <1>1, Bounds DEF Timely, Running, LoopPcs
<1>3. /\ SameStamps(svc, svc')
      /\ svc'.apiOk = svc.apiOk \/ \E na \in Nat : svc'.apiOk = ~RestOffline(svc, na)
  <2>1. CASE svc' = svc
    BY <2>1 DEF SameStamps
  <2>2. CASE \E na \in Nat : svc' = UpdateLinkHealth(svc, na)
    <3>1. PICK na \in Nat : svc' = UpdateLinkHealth(svc, na)
      BY <2>2
    <3>2. svc' = [svc EXCEPT !.apiOk = ~RestOffline(svc, na)]
      BY <3>1 DEF UpdateLinkHealth
    <3> QED BY <1>2, <3>2 DEF SameStamps, ServiceFields
  <2> QED BY <1>1, <2>1, <2>2
<1>4. StampAge' /\ PollStamp'
  BY <1>1, <1>2, <1>3 DEF Timely, Punctual, StampAge, PollStamp, SameStamps
<1>5. Replying' => Replying
  BY <1>1, <1>3 DEF Replying, SameStamps
<1>6. ASSUME Replying'
      PROVE  Recent'
  <2>1. Recent
    BY <1>2, <1>5, <1>6 DEF Timely, Punctual, Recent
  <2>2. SuccessAge'
    BY <1>3, <2>1 DEF Recent, SuccessAge, SameStamps
  <2>3. CASE svc'.apiOk = svc.apiOk
    <3>1. svc.apiOk \/ PollDue
      BY <1>1, <2>1 DEF Recent, OkOrDue
    <3> QED BY <1>1, <1>3, <2>1, <2>2, <2>3, <3>1 DEF Recent, OkOrDue, PollDue, SameStamps
  <2>4. CASE \E na \in Nat : svc'.apiOk = ~RestOffline(svc, na)
    <3>1. svc'.apiOk \/ PollDue \/ svc.pollAge > PresenceTimeout
      <4>1. svc'.apiOk \/ svc.restAge > PresenceTimeout
        <5>1. PICK na \in Nat : svc'.apiOk = ~RestOffline(svc, na)
          BY <2>4
        <5>2. svc.restAge <= PresenceTimeout => ~RestOffline(svc, na)
          BY <1>2, <2>1, RecentIsOnline DEF Recent
        <5>3. svc.restAge \in Int /\ PresenceTimeout \in Nat
          BY Bounds DEF Timely
        <5>4. CASE RestOffline(svc, na)
          BY <5>2, <5>3, <5>4
        <5>5. CASE ~RestOffline(svc, na)
          BY <5>1, <5>5
        <5> QED BY <5>4, <5>5
      <4>2. loopAge <= LoopMax
        BY <1>1, LateEnough
      <4> QED BY <2>1, <4>1, <4>2, Bounds DEF Timely, Recent, SuccessAge, PollDue
    <3> QED BY <1>1, <1>3, <2>1, <2>2, <3>1 DEF Recent, OkOrDue, PollDue, SameStamps
  <2> QED BY <1>3, <2>3, <2>4
<1> QED BY <1>4, <1>6 DEF Punctual, Recent

\* An iteration whose last success is older than the timeout polls, unless it
\* has itself used up the difference between the timeout and the poll interval.
LEMMA RefreshPunctual ==
    ASSUME Timely, Refresh
    PROVE  Punctual'
<1> DEFINE s == RefreshRestHealth(svc, loopAge)
           t == IF s.pollAge = Never /\ ~s.exc
                THEN [s EXCEPT !.pollAge = Later(0, loopAge, PollHorizon)] ELSE s
<1>1. /\ pc = "refresh" /\ svc' = t /\ UNCHANGED <<loopAge, calls, streak, clean>>
      /\ pc' = IF t.exc THEN "crashed"
               ELSE IF t.pollAge - loopAge >= RestPollInterval THEN "poll" ELSE "publish"
  BY DEF Refresh, Continue, Unobserved
<1>2. Running /\ svc \in ServiceFields /\ ~svc.exc /\ loopAge \in Nat
  BY <1>1, Bounds DEF Timely, IInv, Phases, Running, LoopPcs
<1>3. /\ s \in ServiceFields /\ SameStamps(svc, s)
      /\ ~RestOffline(svc, loopAge) => s.apiOk = svc.apiOk
  BY <1>2, RefreshStamps
<1> HIDE DEF s
<1>4. Later(0, loopAge, PollHorizon) \in Ages(PollHorizon)
  BY <1>2, ConstantTypes, LaterType DEF Ages
<1>5. /\ t.connected = s.connected /\ t.restAge = s.restAge
      /\ t.failStreak = s.failStreak /\ t.apiOk = s.apiOk
      /\ s.pollAge # Never => t.pollAge = s.pollAge
  BY <1>3, <1>4 DEF ServiceFields
<1> HIDE DEF t
<1>6. /\ svc'.connected = svc.connected /\ svc'.restAge = svc.restAge
      /\ svc'.failStreak = svc.failStreak
      /\ ~RestOffline(svc, loopAge) => svc'.apiOk = svc.apiOk
      /\ svc.pollAge # Never => svc'.pollAge = svc.pollAge
  BY <1>1, <1>3, <1>5 DEF SameStamps
<1>7. /\ pc' \in {"crashed", "poll", "publish"}
      /\ pc' = "poll" => svc'.pollAge - loopAge >= RestPollInterval
      /\ pc' = "publish" => ~(svc'.pollAge - loopAge >= RestPollInterval)
  BY <1>1
<1>8. StampAge'
  BY <1>7 DEF StampAge
<1>9. svc.connected => svc.pollAge # Never
  BY <1>2 DEF Timely, Punctual, PollStamp
<1>10. Running' => PollStamp'
  BY <1>6, <1>7, <1>9 DEF PollStamp, Running, LoopPcs, EndPcs
<1>11. ASSUME Replying', Running'
       PROVE  Recent'
  <2>1. svc.connected /\ Replying
    BY <1>1, <1>6, <1>11 DEF Replying
  <2>2. Recent /\ svc'.pollAge = svc.pollAge
    BY <1>2, <1>6, <1>9, <2>1 DEF Timely, Punctual, Recent
  <2>3. SuccessAge'
    BY <1>6, <2>2 DEF Recent, SuccessAge
  <2>4. CASE pc' = "poll"
    BY <1>6, <2>2, <2>3, <2>4 DEF Recent, OkOrDue
  <2>5. CASE pc' = "publish"
    <3>1. svc'.apiOk \/ svc.pollAge > PresenceTimeout
      <4>1. ~PollDue
        BY <1>7, <2>2, <2>5 DEF PollDue
      <4>2. svc.pollAge # PollHorizon
        BY <1>1, <4>1, LateEnough, Bounds DEF Timely, PollDue
      <4>3. CASE RestOffline(svc, loopAge)
        <5>1. svc.restAge > PresenceTimeout
          BY <1>2, <2>2, <4>3, RecentIsOnline, Bounds DEF Timely, Recent
        <5> QED BY <2>2, <4>2, <5>1, Bounds DEF Timely, Recent, SuccessAge
      <4>4. CASE ~RestOffline(svc, loopAge)
        BY <1>1, <1>6, <2>2, <4>1, <4>4 DEF Recent, OkOrDue
      <4> QED BY <4>3, <4>4
    <3>2. svc.pollAge > PresenceTimeout =>
             loopAge > PresenceTimeout - RestPollInterval /\ svc.pollAge >= RestPollInterval
      BY <1>7, <2>2, <2>5, Bounds DEF Timely
    <3> QED BY <1>1, <1>6, <2>2, <2>3, <2>5, <3>1, <3>2 DEF Recent, OkOrDue
  <2> QED BY <1>7, <1>11, <2>4, <2>5 DEF Running, LoopPcs
<1> QED BY <1>8, <1>10, <1>11 DEF Punctual, Recent

LEMMA PublishPunctual ==
    ASSUME Timely, NEW due \in BOOLEAN, Publish(due)
    PROVE  Punctual'
<1>1. /\ pc = "publish" /\ pc' \in {"sleep", "crashed"}
      /\ svc' = (IF due THEN PublishStatus(svc) ELSE svc)
      /\ UNCHANGED <<loopAge, calls, streak, clean>>
  BY DEF Publish, Continue, Unobserved
<1>2. SameStamps(svc, svc') /\ svc'.apiOk = svc.apiOk /\ Running
  BY <1>1, Bounds DEF Timely, PublishStatus, ServiceFields, SameStamps, Running, LoopPcs
<1>3. StampAge' /\ PollStamp'
  BY <1>1, <1>2 DEF Timely, Punctual, StampAge, PollStamp, SameStamps
<1>4. Replying' => Replying
  BY <1>1, <1>2 DEF Replying, SameStamps
<1>5. Replying' => Recent'
  BY <1>1, <1>2, <1>4 DEF Timely, Punctual, Recent, SuccessAge, OkOrDue, SameStamps
<1> QED BY <1>3, <1>5 DEF Punctual, Recent

\* A deadline that has passed stays passed while the loop sleeps.
LEMMA SleepPunctual ==
    ASSUME Timely, NEW d \in 0..1, Sleep(d)
    PROVE  Punctual'
<1>1. /\ pc = "sleep" /\ pc' = "top" /\ svc' = Elapse(svc, d)
      /\ loopAge' = 0 /\ UNCHANGED <<streak, clean>> /\ Running
  BY DEF Sleep, Unobserved, Running, LoopPcs
<1>2. d \in Nat /\ RestHorizon \in Nat /\ PollHorizon \in Nat /\ svc \in ServiceFields
  BY Bounds DEF Timely
<1>3. /\ svc'.connected = svc.connected /\ svc'.failStreak = svc.failStreak
      /\ svc'.apiOk = svc.apiOk
      /\ svc'.pollAge = Later(svc.pollAge, d, PollHorizon)
      /\ svc'.restAge = Later(svc.restAge, d, RestHorizon)
  BY <1>1, <1>2 DEF Elapse, ServiceFields
<1>4. StampAge'
  BY <1>1 DEF StampAge
<1>5. svc.connected => svc.pollAge \in Nat
  BY <1>1, Bounds DEF Timely, Punctual, PollStamp
<1>6. PollStamp'
  <2>1. svc.connected => Later(svc.pollAge, d, PollHorizon) # Never
    BY <1>2, <1>5, LaterValue
  <2> QED BY <1>1, <1>3, <2>1 DEF PollStamp
<1>7. ASSUME Replying'
      PROVE  Recent'
  <2>1. svc.connected /\ Replying
    BY <1>1, <1>3, <1>7 DEF Replying
  <2>2. Recent /\ svc.pollAge \in Nat /\ svc.restAge \in Nat
    BY <1>1, <1>5, <2>1, Bounds DEF Timely, Punctual, Recent
  <2>3. svc'.restAge # Never
    BY <1>2, <1>3, <2>2, LaterValue
  <2>4. SuccessAge'
    <3>1. svc.pollAge = PollHorizon \/ svc.restAge <= svc.pollAge
      BY <2>2 DEF Recent, SuccessAge
    <3>2. \/ Later(svc.pollAge, d, PollHorizon) = PollHorizon
          \/ Later(svc.restAge, d, RestHorizon) <= Later(svc.pollAge, d, PollHorizon)
      BY ONLY <1>2, <2>2, <3>1, LaterTogether
    <3> QED BY <1>3, <3>2 DEF SuccessAge
  <2>5. svc'.apiOk \/ PollDue'
    <3>1. svc.apiOk \/ svc.pollAge >= RestPollInterval
      BY <1>1, <2>2 DEF Recent, OkOrDue
    <3>2. svc'.pollAge = PollHorizon \/ svc'.pollAge = svc.pollAge + d
      BY <1>2, <1>3, <2>2, LaterValue
    <3> QED BY <1>1, <1>2, <1>3, <2>2, <3>1, <3>2, Bounds DEF Timely, PollDue
  <2> QED BY <1>1, <1>3, <2>2, <2>3, <2>4, <2>5 DEF Recent, OkOrDue
<1> QED BY <1>4, <1>6, <1>7 DEF Punctual, Recent

\* The tail of run() is entered with the stamps of the loop's top.
LEMMA ShutdownPunctual ==
    ASSUME Timely, NEW sensor \in BOOLEAN, Shutdown(sensor)
    PROVE  Punctual'
<1> DEFINE s == IF sensor THEN UpdateLinkHealth(svc, 0) ELSE svc
           p == PublishPresence(s, FALSE)
           u == PublishStatus(p)
<1>1. /\ pc = "shutdown" /\ pc' \in {"disconnect", "stopped_offline", "crashed"}
      /\ UNCHANGED <<loopAge, calls, streak, clean>>
      /\ svc' = u \/ svc' = s
  BY DEF Shutdown, Continue, Unobserved
<1>2. Running /\ svc \in ServiceFields /\ ~svc.exc
  BY <1>1, Bounds DEF Timely, IInv, Phases, Running, LoopPcs
<1>3. /\ s \in ServiceFields /\ SameStamps(svc, s) /\ ~s.exc
      /\ s.apiOk = svc.apiOk \/ s.apiOk = ~RestOffline(svc, 0)
  <2>1. CASE sensor
    <3>1. s \in ServiceFields /\ s = [svc EXCEPT !.apiOk = ~RestOffline(svc, 0)]
      BY <1>2, <2>1, UpdateLinkHealthType
    <3> QED BY <1>2, <3>1 DEF ServiceFields, SameStamps
  <2>2. CASE ~sensor
    BY <1>2, <2>2 DEF SameStamps
  <2> QED BY <2>1, <2>2
<1> HIDE DEF s
<1>4. p \in ServiceFields /\ PresenceOnly(s, p)
  BY <1>3, PublishPresenceEffect
<1>5. SameStamps(s, p) /\ p.apiOk = s.apiOk
  BY <1>3, <1>4, PresenceOnlyFields DEF SameStamps
<1> HIDE DEF p
<1>6. SameStamps(p, u) /\ u.apiOk = p.apiOk
  BY <1>4 DEF PublishStatus, ServiceFields, SameStamps
<1> HIDE DEF u
<1>7. SameStamps(svc, svc') /\ svc'.apiOk = s.apiOk
  BY <1>1, <1>3, <1>5, <1>6 DEF SameStamps
<1>8. StampAge' /\ PollStamp'
  <2>1. svc'.connected => svc'.pollAge # Never
    BY <1>2, <1>7 DEF Timely, Punctual, PollStamp, SameStamps
  <2> QED BY <1>1, <2>1 DEF StampAge, PollStamp
<1>9. ASSUME Replying'
      PROVE  Recent'
  <2>1. Replying
    BY <1>1, <1>7, <1>9 DEF Replying, SameStamps
  <2>2. Recent
    BY <1>2, <2>1 DEF Timely, Punctual, Recent
  <2> QED BY <1>1, <1>7, <2>2 DEF Recent, SuccessAge, OkOrDue, SameStamps
<1> QED BY <1>8, <1>9 DEF Punctual, Recent

LEMMA DisconnectPunctual ==
    ASSUME Timely, Disconnect
    PROVE  Punctual'
<1>1. pc' \in {"stopped", "stopped_offline"}
  BY DEF Disconnect
<1>2. StampAge' /\ ~Running'
  BY <1>1 DEF StampAge, Running, LoopPcs
<1> QED BY <1>2 DEF Punctual

-----------------------------------------------------------------------------
(* The theorem.                                                             *)

LEMMA InitPunctual == Init => Punctual
<1> SUFFICES ASSUME Init PROVE Punctual
  OBVIOUS
<1>1. pc = "top" /\ loopAge = 0 /\ svc.connected = FALSE
  BY DEF Init
<1>2. StampAge
  BY <1>1 DEF StampAge
<1> QED BY <1>1, <1>2 DEF Punctual, PollStamp, Replying

LEMMA NextPunctual == Timely /\ [Next]_vars => Punctual'
<1> SUFFICES ASSUME Timely, [Next]_vars PROVE Punctual'
  OBVIOUS
<1>1. CASE Top \/ TopConnect \/ Subscribe \/ DrainDone
  BY <1>1, MovesPunctual
<1>2. CASE Enter \/ Establish \/ Sense \/ Refresh \/ Disconnect
  BY <1>2, EnterPunctual, EstablishPunctual, SensePunctual, RefreshPunctual, DisconnectPunctual
<1>3. CASE \E d \in Durations : ConnectFails(d) \/ ConnectSucceeds(d) \/ CommandWait(d)
  BY <1>3, ConnectPunctual, WaitPunctual
<1>4. CASE \E r \in Replies, d \in Durations :
              Selftest(r, d) \/ Poll(r, d)
  BY <1>4, SelftestPunctual, PollPunctual
<1>5. CASE \/ \E r \in Replies, d \in Durations, status \in BOOLEAN : CommandGet(r, d, status)
           \/ \E ok \in BOOLEAN, d \in Durations, status \in BOOLEAN : CommandPost(ok, d, status)
  <2>1. "idle" \in Replies /\ TRUE \in BOOLEAN
    BY DEF Replies
  <2> QED BY <1>5, <2>1, CommandPunctual
<1>6. CASE \E due \in BOOLEAN : Publish(due)
  BY <1>6, PublishPunctual
<1>7. CASE \E d \in 0..1 : Sleep(d)
  BY <1>7, SleepPunctual
<1>8. CASE \E sensor \in BOOLEAN : Shutdown(sensor)
  BY <1>8, ShutdownPunctual
<1>9. CASE CbLost
  BY <1>9, CbLostPunctual
<1>10. CASE CbTail \/ LinkDrop \/ Deliver \/ Signal \/ Kill \/ Ended \/ UNCHANGED vars
  BY <1>10, BesideTheLoop DEF Ended
<1> QED BY <1>1, <1>2, <1>3, <1>4, <1>5, <1>6, <1>7, <1>8, <1>9, <1>10
        DEF Next, Main, Callback

\* The periodic status of an iteration that took no longer than the timeout
\* less the poll interval, REST calls, sleeps and PUBACK waits included, carries
\* api_ok while every reply of the session is a success, for every timeout, clamp
\* and number and length of the calls and waits.  run() decides about the poll
\* with the stamp of the loop's top: without a poll the last one is younger than
\* the interval and this iteration, and so is the last success; an earlier, long
\* iteration that cleared api_ok leaves a poll due.  The hypothesis on the clamp
\* is a condition on the configuration: presence_timeout_ms is not below its
\* lower bound of a second.
THEOREM PromptStatusIsOk ==
    ASSUME MinPoll <= PresenceTimeout
    PROVE  Spec => []ApiOkWhenPrompt
<1>1. IInv /\ Punctual /\ [Next]_vars => Punctual'
  BY NextPunctual DEF Timely
<1>2. IInv /\ Punctual => ApiOkWhenPrompt
  BY Bounds DEF Punctual, Replying, OkOrDue, Running, LoopPcs, ApiOkWhenPrompt,
                ApiOkWhileSensorReplies
<1> QED BY InitPunctual, Invariance, <1>1, <1>2, PTL DEF Spec

-----------------------------------------------------------------------------
(* How many steps of run() are left once stop_flag is set.                   *)

StepsLeft ==
    CASE pc \in EndPcs        -> 0
      [] pc = "disconnect"    -> 1
      [] pc = "shutdown"      -> 2
      [] pc = "top"           -> 3
      [] pc = "sleep"         -> 4
      [] pc = "publish"       -> 5
      [] pc = "poll"          -> 6
      [] pc = "refresh"       -> 7
      [] pc = "sense"         -> 8
      [] pc = "drain"         -> 9 + (MaxDrain - calls)
      [] pc = "enter"         -> 10 + MaxDrain
      [] pc = "selftest"      -> 11 + MaxDrain
      [] pc = "subscribed"    -> 12 + MaxDrain
      [] pc = "subscribing"   -> 13 + MaxDrain
      [] pc = "connecting"    -> 14 + MaxDrain

LEMMA StepsLeftRange == TypeOK => StepsLeft \in 0..(14 + MaxDrain)
<1> SUFFICES ASSUME TypeOK PROVE StepsLeft \in 0..(14 + MaxDrain)
  OBVIOUS
<1>1. calls \in 0..MaxDrain /\ MaxDrain \in Nat /\ pc \in LoopPcs \cup EndPcs
  BY BoundAssumption DEF TypeOK
<1>2. CASE pc = "drain"
  <2>1. StepsLeft = 9 + (MaxDrain - calls)
    BY <1>2 DEF StepsLeft, EndPcs
  <2> QED BY <1>1, <2>1
<1>3. CASE pc \in {"enter", "selftest", "subscribed", "subscribing", "connecting"}
  <2>1. \E k \in 10..14 : StepsLeft = k + MaxDrain
    BY <1>3 DEF StepsLeft, EndPcs
  <2> QED BY <1>1, <2>1
<1>4. CASE pc \notin {"drain", "enter", "selftest", "subscribed", "subscribing", "connecting"}
  <2>1. StepsLeft \in 0..8
    BY <1>1, <1>4 DEF StepsLeft, EndPcs, LoopPcs
  <2> QED BY <1>1, <2>1
<1> QED BY <1>2, <1>3, <1>4

LEMMA MainStepsDown ==
    ASSUME TypeOK, TypeOK', stop, Main
    PROVE  StepsLeft' < StepsLeft /\ stop'
<1>0. /\ calls \in 0..MaxDrain /\ calls' \in 0..MaxDrain /\ MaxDrain \in Nat
  BY BoundAssumption DEF TypeOK
<1> USE DEF StepsLeft, EndPcs, Environment, Continue
<1>1. CASE Top \/ TopConnect \/ Subscribe
  <2>1. /\ stop' = stop
        /\ \/ pc = "top" /\ pc' = "shutdown"
           \/ pc = "subscribing" /\ pc' = "subscribed"
    BY <1>1 DEF Top, TopConnect, Subscribe
  <2> QED BY <1>0, <2>1
<1>10. CASE Establish
  <2>1. pc = "subscribed" /\ pc' \in {"enter", "selftest"} /\ stop' = stop
    BY <1>10 DEF Establish
  <2> QED BY <1>0, <2>1
<1>11. CASE Enter
  <2>1. /\ pc = "enter" /\ stop' = stop /\ calls' = calls
        /\ pc' \in {"drain", "sleep"}
    BY <1>11 DEF Enter
  <2> QED BY <1>0, <2>1
<1>2. CASE DrainDone \/ Sense \/ Disconnect
  <2>1. /\ stop' = stop
        /\ \/ pc = "drain" /\ pc' = "sense"
           \/ pc = "sense" /\ pc' = "refresh"
           \/ pc = "disconnect" /\ pc' \in EndPcs
    BY <1>2 DEF DrainDone, Sense, Disconnect
  <2>2. CASE pc = "drain"
    <3>1. StepsLeft = 9 + (MaxDrain - calls) /\ StepsLeft' = 8
      BY <2>1, <2>2
    <3> QED BY <1>0, <2>1, <3>1
  <2> QED BY <1>0, <2>1, <2>2
<1>3. CASE Refresh
  <2>1. pc = "refresh" /\ pc' \in {"poll", "publish", "crashed"} /\ stop' = stop
    BY <1>3 DEF Refresh
  <2> QED BY <1>0, <2>1
<1>4. CASE \E d \in Durations : ConnectFails(d) \/ ConnectSucceeds(d)
  <2>1. /\ stop' = stop
        /\ \/ pc = "connecting" /\ pc' \in {"enter", "subscribing"}
           \/ pc = "subscribing" /\ pc' = "enter"
    BY <1>4 DEF ConnectFails, ConnectSucceeds
  <2> QED BY <1>0, <2>1
<1>5. CASE \E r \in Replies, d \in Durations : Selftest(r, d) \/ Poll(r, d)
  <2>1. /\ stop' = stop
        /\ \/ pc = "selftest" /\ pc' = "enter"
           \/ pc = "poll" /\ pc' \in {"publish", "crashed"}
    BY <1>5 DEF Selftest, Poll
  <2> QED BY <1>0, <2>1
<1>6. CASE \/ \E r \in Replies, d \in Durations, status \in BOOLEAN : CommandGet(r, d, status)
           \/ \E ok \in BOOLEAN, d \in Durations, status \in BOOLEAN : CommandPost(ok, d, status)
           \/ \E d \in Durations : CommandWait(d)
  <2>1. /\ stop' = stop /\ calls' = calls + 1
        /\ pc = "drain" /\ pc' \in {"drain", "crashed"}
    BY <1>6 DEF CommandGet, CommandPost, CommandWait, MayCall
  <2> QED BY <1>0, <2>1
<1>7. CASE \E due \in BOOLEAN : Publish(due)
  <2>1. stop' = stop /\ pc = "publish" /\ pc' \in {"sleep", "crashed"}
    BY <1>7 DEF Publish
  <2> QED BY <1>0, <2>1
<1>8. CASE \E d \in 0..1 : Sleep(d)
  BY <1>0, <1>8 DEF Sleep
<1>9. CASE \E sensor \in BOOLEAN : Shutdown(sensor)
  <2>1. stop' = stop /\ pc = "shutdown" /\ pc' \in {"disconnect", "stopped_offline", "crashed"}
    BY <1>9 DEF Shutdown
  <2> QED BY <1>0, <2>1
<1> QED BY <1>1, <1>2, <1>3, <1>4, <1>5, <1>6, <1>7, <1>8, <1>9, <1>10, <1>11 DEF Main

\* What StopTerminates rests on besides fairness: once stop_flag is set the
\* main thread has at most 14 + MaxDrain steps to take before run() returns,
\* whatever the session, the callbacks, the broker and the replies do: the
\* flag stays set, every step of the loop uses one of them up, and no other
\* step adds to them.
THEOREM StopCountsDown ==
    Spec => /\ [](StepsLeft \in 0..(14 + MaxDrain))
            /\ [][stop => /\ stop' /\ StepsLeft' <= StepsLeft
                          /\ Main => StepsLeft' < StepsLeft]_vars
<1>1. ASSUME TypeOK, TypeOK', stop, [Next]_vars
      PROVE  stop' /\ StepsLeft' <= StepsLeft /\ (Main => StepsLeft' < StepsLeft)
  <2>0. StepsLeft \in Int /\ StepsLeft' \in Int
    <3>1. /\ calls \in 0..MaxDrain /\ calls' \in 0..MaxDrain /\ MaxDrain \in Nat
          /\ pc \in LoopPcs \cup EndPcs /\ pc' \in LoopPcs \cup EndPcs
      BY <1>1, BoundAssumption DEF TypeOK
    <3> QED BY <3>1 DEF StepsLeft, LoopPcs, EndPcs
  <2>1. CASE Main
    BY <1>1, <2>0, <2>1, MainStepsDown
  <2>2. CASE ~Main
    <3>1. stop' /\ calls' = calls /\ (pc' = pc \/ pc' = "crashed")
      BY <1>1, <2>2 DEF Next, Callback, CbLost, CbTail, LinkDrop, Deliver, Signal, Kill,
                       Ended, Continue, MainUnchanged, vars
    <3>2. CASE pc' = pc
      <4>1. StepsLeft' = StepsLeft
        BY <3>1, <3>2 DEF StepsLeft
      <4> QED BY <2>0, <2>2, <3>1, <4>1
    <3>3. CASE pc' = "crashed"
      <4>1. StepsLeft' = 0 /\ 0 <= StepsLeft
        <5>1. StepsLeft \in 0..(14 + MaxDrain)
          BY <1>1, StepsLeftRange
        <5>2. StepsLeft' = 0
          BY <3>3 DEF StepsLeft, EndPcs
        <5> QED BY <5>1, <5>2, BoundAssumption
      <4> QED BY <2>2, <3>1, <4>1
    <3> QED BY <3>1, <3>2, <3>3
  <2> QED BY <2>1, <2>2
<1>2. TypeOK /\ TypeOK' /\ [Next]_vars =>
        [stop => /\ stop' /\ StepsLeft' <= StepsLeft
                 /\ Main => StepsLeft' < StepsLeft]_vars
  BY <1>1
<1> QED BY StepsLeftRange, <1>2, TypeCorrect, PTL DEF Spec
=============================================================================
