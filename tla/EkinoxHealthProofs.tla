------------------------- MODULE EkinoxHealthProofs -------------------------
(***************************************************************************)
(* Proofs about EkinoxHealth, for every timeout, poll interval and bound:  *)
(* the type invariant and the safety properties that follow from IInv.     *)
(***************************************************************************)
EXTENDS EkinoxHealth, SequenceTheorems, TLAPS

-----------------------------------------------------------------------------
(* Arithmetic of the constants and of ages.                                 *)

LEMMA ConstantTypes ==
    /\ PresenceTimeout \in Nat \ {0}
    /\ RestPollInterval \in Nat
    /\ LoopMax \in Nat /\ RestHorizon \in Nat /\ PollHorizon \in Nat
    /\ MinPublishInterval \in Nat
    /\ StreakCap \in Nat /\ StreakCap >= 3
    /\ Durations \subseteq Nat
    /\ Never = -1
<1>1. RestPollInterval \in Nat
  BY TimeAssumption DEF RestPollInterval
<1>2. MaxCall * (MaxDrain + 3) \in Nat
  BY BoundAssumption
<1>3. LoopMax \in Nat
  BY <1>2 DEF LoopMax
<1> QED BY <1>1, <1>3, TimeAssumption, StreakAssumption, BoundAssumption
        DEF RestHorizon, PollHorizon, Durations, Never

LEMMA LaterType ==
    ASSUME NEW cap \in Nat, NEW age \in Ages(cap), NEW d \in Nat
    PROVE  /\ Later(age, d, cap) \in Ages(cap)
           /\ Later(age, d, cap) = Never <=> age = Never
           /\ Later(0, d, cap) \in Ages(cap) \ {Never}
BY DEF Later, Ages, Never

LEMMA ElapseType ==
    ASSUME NEW s \in ServiceFields, NEW d \in Nat
    PROVE  /\ Elapse(s, d) \in ServiceFields
           /\ Elapse(s, d) = [s EXCEPT !.restAge = Elapse(s, d).restAge,
                                       !.emitAge = Elapse(s, d).emitAge,
                                       !.pollAge = Elapse(s, d).pollAge]
           /\ Elapse(s, d).restAge = Never <=> s.restAge = Never
<1>1. /\ s.restAge \in Ages(RestHorizon)
      /\ s.emitAge \in Ages(MinPublishInterval)
      /\ s.pollAge \in Ages(PollHorizon)
  BY DEF ServiceFields
<1>2. /\ Later(s.restAge, d, RestHorizon) \in Ages(RestHorizon)
      /\ Later(s.emitAge, d, MinPublishInterval) \in Ages(MinPublishInterval)
      /\ Later(s.pollAge, d, PollHorizon) \in Ages(PollHorizon)
      /\ Later(s.restAge, d, RestHorizon) = Never <=> s.restAge = Never
  BY <1>1, ConstantTypes, LaterType
<1> QED BY <1>2 DEF Elapse, ServiceFields

LEMMA IncType ==
    ASSUME NEW n \in 0..StreakCap
    PROVE  /\ Inc(n) \in 0..StreakCap
           /\ Inc(n) = n + 1 \/ (Inc(n) = n /\ n >= 3)
BY ConstantTypes DEF Inc

-----------------------------------------------------------------------------
(* The methods.                                                             *)

LEMMA UpdateLinkHealthType ==
    ASSUME NEW s \in ServiceFields, NEW na \in Nat
    PROVE  /\ UpdateLinkHealth(s, na) \in ServiceFields
           /\ UpdateLinkHealth(s, na) = [s EXCEPT !.apiOk = ~RestOffline(s, na)]
<1>1. (~RestOffline(s, na)) \in BOOLEAN
  BY DEF RestOffline
<1> QED BY <1>1 DEF UpdateLinkHealth, ServiceFields

\* publish_presence changes nothing but the presence, its stamp and the
\* messages in flight; it throws only if the connection is gone.
PresenceOnly(s, t) ==
    t = [s EXCEPT !.presenceOnline = t.presenceOnline, !.emitAge = t.emitAge,
                  !.outbox = t.outbox, !.exc = t.exc]

LEMMA PublishPresenceEffect ==
    ASSUME NEW s \in ServiceFields, NEW online \in BOOLEAN, ~s.exc,
           NEW t, t = PublishPresence(s, online)
    PROVE  /\ t \in ServiceFields
           /\ PresenceOnly(s, t)
           /\ t.exc => t.presenceOnline = s.presenceOnline /\ link = "down"
           /\ ~t.exc => t.presenceOnline = online
           /\ s.connected /\ link = "down" => t.presenceOnline = s.presenceOnline
           /\ Agree(s) \/ s.emitAge = Never => Agree(t)
<1>1. CASE ~s.connected
  <2>1. t = [s EXCEPT !.presenceOnline = online]
    BY <1>1 DEF PublishPresence
  <2> QED BY <1>1, <2>1 DEF ServiceFields, PresenceOnly, Agree
<1>2. CASE s.connected /\ RateLimited(s, online)
  <2>1. t = s /\ s.presenceOnline = online /\ s.emitAge # Never
    BY <1>2 DEF PublishPresence, RateLimited
  <2> QED BY <2>1 DEF ServiceFields, PresenceOnly
<1>3. CASE s.connected /\ ~RateLimited(s, online) /\ link = "down"
  <2>1. t = [s EXCEPT !.exc = TRUE]
    BY <1>3 DEF PublishPresence
  <2> QED BY <1>3, <2>1 DEF ServiceFields, PresenceOnly, Agree
<1>4. CASE s.connected /\ ~RateLimited(s, online) /\ link # "down"
  <2>1. t = [s EXCEPT !.presenceOnline = online, !.emitAge = 0,
                      !.outbox = Append(@, online)]
    BY <1>4 DEF PublishPresence
  <2>2. 0 \in Ages(MinPublishInterval)
    BY ConstantTypes DEF Ages
  <2>3. s.outbox \in Seq(BOOLEAN)
    BY DEF ServiceFields
  <2>4. /\ Append(s.outbox, online) \in Seq(BOOLEAN)
        /\ Append(s.outbox, online) # << >>
        /\ Append(s.outbox, online)[Len(Append(s.outbox, online))] = online
    BY <2>3, AppendProperties, LenProperties
  <2>5. t \in ServiceFields
    BY <2>1, <2>2, <2>4 DEF ServiceFields
  <2>6. PresenceOnly(s, t) /\ ~t.exc /\ t.presenceOnline = online
    BY <2>1 DEF ServiceFields, PresenceOnly
  <2>7. View(t) = online
    BY <2>1, <2>4 DEF View, ServiceFields
  <2> QED BY <1>4, <2>5, <2>6, <2>7 DEF Agree
<1> QED BY <1>1, <1>2, <1>3, <1>4

LEMMA PublishStatusEffect ==
    ASSUME NEW s \in ServiceFields, NEW t, t = PublishStatus(s)
    PROVE  /\ t \in ServiceFields
           /\ t = [s EXCEPT !.exc = t.exc]
           /\ t.exc => s.exc \/ link = "down"
           /\ s.exc => t.exc
           /\ Agree(s) => Agree(t)
BY DEF PublishStatus, ServiceFields, Agree, View

\* update_presence_state: presence is what the decision says, unless the
\* publish throws; it only turns online after two successes.
LEMMA UpdatePresenceStateEffect ==
    ASSUME NEW s \in ServiceFields, NEW na \in Nat, ~s.exc,
           NEW t, t = UpdatePresenceState(s, na)
    PROVE  /\ t \in ServiceFields
           /\ PresenceOnly(s, t)
           /\ t.exc => t.presenceOnline = s.presenceOnline /\ link = "down"
           /\ ~s.presenceOnline /\ t.presenceOnline => s.okStreak >= 2 /\ link # "down"
           /\ ~t.exc /\ t.presenceOnline => s.connected /\ ~RestOffline(s, na)
           /\ Agree(s) \/ s.emitAge = Never => Agree(t)
<1> DEFINE should == s.connected /\ ~RestOffline(s, na) /\ ReadyForOnline(s)
<1>1. should \in BOOLEAN
  BY DEF ServiceFields, RestOffline, ReadyForOnline
<1>2. t = PublishPresence(s, should)
  BY DEF UpdatePresenceState
<1>3. /\ t \in ServiceFields /\ PresenceOnly(s, t)
      /\ t.exc => t.presenceOnline = s.presenceOnline /\ link = "down"
      /\ ~t.exc => t.presenceOnline = should
      /\ s.connected /\ link = "down" => t.presenceOnline = s.presenceOnline
      /\ Agree(s) \/ s.emitAge = Never => Agree(t)
  BY <1>1, <1>2, PublishPresenceEffect
<1>4. s.presenceOnline \in BOOLEAN /\ t.presenceOnline \in BOOLEAN /\ t.exc \in BOOLEAN
  BY <1>3 DEF ServiceFields
<1>5. ~s.presenceOnline /\ t.presenceOnline => s.okStreak >= 2 /\ link # "down"
  BY <1>3, <1>4 DEF ReadyForOnline
<1>6. ~t.exc /\ t.presenceOnline => s.connected /\ ~RestOffline(s, na)
  BY <1>3
<1> QED BY <1>3, <1>5, <1>6

LEMMA PresenceOnlyFields ==
    ASSUME NEW s \in ServiceFields, NEW t \in ServiceFields, PresenceOnly(s, t)
    PROVE  /\ t.connected = s.connected /\ t.restAlive = s.restAlive
           /\ t.restAge = s.restAge /\ t.failStreak = s.failStreak
           /\ t.okStreak = s.okStreak /\ t.recording = s.recording
           /\ t.apiOk = s.apiOk /\ t.pollAge = s.pollAge
BY DEF PresenceOnly, ServiceFields

-----------------------------------------------------------------------------
(* What every method that handles a REST result keeps.                      *)

Keeps(s, t) ==
    /\ t \in ServiceFields
    /\ t.connected = s.connected
    /\ t.exc => link = "down"
    /\ Agree(s) => Agree(t)
    /\ ~t.exc /\ Sound(s) => Sound(t)
    /\ ~s.presenceOnline /\ t.presenceOnline => t.okStreak >= 2 /\ link # "down"

\* How a reply moves the two streaks.
Counts(s, t, ok) ==
    IF ok THEN t.okStreak = Inc(s.okStreak) /\ t.failStreak = 0
          ELSE t.okStreak = 0 /\ t.failStreak = Inc(s.failStreak)

LEMMA RestSuccessEffect ==
    ASSUME NEW s \in ServiceFields, NEW na \in Nat, ~s.exc
    PROVE  Keeps(s, RestSuccess(s, na)) /\ Counts(s, RestSuccess(s, na), TRUE)
<1> DEFINE a == [s EXCEPT !.restAlive = TRUE,
                          !.restAge = Later(0, na, RestHorizon),
                          !.failStreak = 0,
                          !.okStreak = Inc(@)]
           u == UpdateLinkHealth(a, na)
           t == UpdatePresenceState(u, na)
<1>1. Later(0, na, RestHorizon) \in Ages(RestHorizon) \ {Never}
  BY ConstantTypes, LaterType DEF Ages
<1>2. s.okStreak \in 0..StreakCap /\ Inc(s.okStreak) \in 0..StreakCap /\ 0 \in 0..StreakCap
  BY IncType, ConstantTypes DEF ServiceFields
<1>3. a \in ServiceFields
  BY <1>1, <1>2 DEF ServiceFields
<1>4. u \in ServiceFields /\ u = [a EXCEPT !.apiOk = ~RestOffline(a, na)]
  BY <1>3, UpdateLinkHealthType
<1>5. /\ u.connected = s.connected /\ u.restAlive = TRUE /\ u.restAge # Never
      /\ u.failStreak = 0 /\ u.okStreak = Inc(s.okStreak)
      /\ u.presenceOnline = s.presenceOnline /\ u.exc = s.exc
      /\ u.outbox = s.outbox
  BY <1>1, <1>4 DEF ServiceFields
<1>6. Agree(s) => Agree(u)
  BY <1>5 DEF Agree, View
<1> HIDE DEF a, u
<1>7. /\ t \in ServiceFields /\ PresenceOnly(u, t)
      /\ t.exc => t.presenceOnline = u.presenceOnline /\ link = "down"
      /\ ~u.presenceOnline /\ t.presenceOnline => u.okStreak >= 2 /\ link # "down"
      /\ ~t.exc /\ t.presenceOnline => u.connected /\ ~RestOffline(u, na)
      /\ Agree(u) => Agree(t)
  BY <1>4, <1>5, UpdatePresenceStateEffect
<1>8. /\ t.connected = u.connected /\ t.restAlive = u.restAlive
      /\ t.restAge = u.restAge /\ t.failStreak = u.failStreak
      /\ t.okStreak = u.okStreak
  BY ONLY <1>4, <1>7, PresenceOnlyFields, ZenonT(60)
<1>9. t = RestSuccess(s, na)
  BY DEF RestSuccess, a, u
<1> HIDE DEF t
<1>10. ~t.exc => Sound(t)
  BY <1>5, <1>7, <1>8 DEF Sound, FailLimit
<1>11. Keeps(s, t)
  BY <1>5, <1>6, <1>7, <1>8, <1>10 DEF Keeps
<1>12. Counts(s, t, TRUE)
  BY <1>5, <1>8 DEF Counts
<1> QED BY <1>9, <1>11, <1>12

LEMMA RestFailureEffect ==
    ASSUME NEW s \in ServiceFields, NEW na \in Nat, ~s.exc
    PROVE  Keeps(s, RestFailure(s, na)) /\ Counts(s, RestFailure(s, na), FALSE)
<1> DEFINE a == [s EXCEPT !.failStreak = Inc(@), !.okStreak = 0]
           b == [a EXCEPT !.restAlive = ~RestOffline(a, na)]
           u == UpdateLinkHealth(b, na)
           t == UpdatePresenceState(u, na)
<1>1. s.failStreak \in 0..StreakCap /\ Inc(s.failStreak) \in 0..StreakCap /\ 0 \in 0..StreakCap
  BY IncType, ConstantTypes DEF ServiceFields
<1>2. a \in ServiceFields
  BY <1>1 DEF ServiceFields
<1>3. (~RestOffline(a, na)) \in BOOLEAN
  BY DEF RestOffline
<1>4. b \in ServiceFields
  BY <1>2, <1>3 DEF ServiceFields
<1>5. u \in ServiceFields /\ u = [b EXCEPT !.apiOk = ~RestOffline(b, na)]
  BY <1>4, UpdateLinkHealthType
<1>6. /\ u.connected = s.connected /\ u.restAlive = ~RestOffline(a, na)
      /\ u.failStreak = Inc(s.failStreak) /\ u.okStreak = 0
      /\ u.presenceOnline = s.presenceOnline /\ u.exc = s.exc
      /\ u.outbox = s.outbox
  BY <1>5 DEF ServiceFields
<1>7. u.failStreak = a.failStreak /\ u.restAge = a.restAge /\ u.recording = a.recording
  BY <1>5 DEF ServiceFields
<1>8. RestOffline(u, na) <=> RestOffline(a, na)
  BY <1>7 DEF RestOffline, RestAge
<1>9. Agree(s) => Agree(u)
  BY <1>6 DEF Agree, View
<1>10. RestFailure(s, na) = IF RestOffline(a, na) THEN t ELSE u
  BY DEF RestFailure
<1> HIDE DEF a, b, u
<1>11. CASE RestOffline(a, na)
  <2>1. /\ t \in ServiceFields /\ PresenceOnly(u, t)
        /\ t.exc => t.presenceOnline = u.presenceOnline /\ link = "down"
        /\ ~u.presenceOnline /\ t.presenceOnline => u.okStreak >= 2 /\ link # "down"
        /\ ~t.exc /\ t.presenceOnline => u.connected /\ ~RestOffline(u, na)
        /\ Agree(u) => Agree(t)
    BY <1>5, <1>6, UpdatePresenceStateEffect
  <2>2. /\ t.connected = u.connected /\ t.failStreak = u.failStreak
        /\ t.okStreak = u.okStreak
    BY <1>5, <2>1, PresenceOnlyFields
  <2> HIDE DEF t
  <2>3. ~t.exc => Sound(t)
    BY <1>8, <1>11, <2>1 DEF Sound
  <2>4. Keeps(s, t) /\ Counts(s, t, FALSE)
    BY <1>6, <1>9, <2>1, <2>2, <2>3 DEF Keeps, Counts
  <2> QED BY <1>10, <1>11, <2>4
<1>12. CASE ~RestOffline(a, na)
  <2>1. u.failStreak < 3 /\ u.restAge # Never /\ u.restAlive = TRUE
    <3>1. ~(u.failStreak >= FailLimit) /\ u.restAge # Never
      BY <1>8, <1>12 DEF RestOffline
    <3>2. u.failStreak \in 0..StreakCap
      BY <1>5 DEF ServiceFields
    <3>3. u.restAlive = TRUE
      BY <1>6, <1>12
    <3> QED BY <3>1, <3>2, <3>3, ConstantTypes DEF FailLimit
  <2>2. Sound(s) => Sound(u)
    BY <1>6, <2>1 DEF Sound, FailLimit
  <2>3. Keeps(s, u) /\ Counts(s, u, FALSE)
    BY <1>5, <1>6, <1>9, <2>2 DEF Keeps, Counts
  <2> QED BY <1>10, <1>12, <2>3
<1> QED BY <1>11, <1>12

\* mark_rest_result.
LEMMA MarkRestResultEffect ==
    ASSUME NEW s \in ServiceFields, NEW na \in Nat, ~s.exc, NEW ok \in BOOLEAN,
           NEW t, t = MarkRestResult(s, ok, na)
    PROVE  Keeps(s, t) /\ Counts(s, t, ok)
<1>1. CASE ok
  BY <1>1, RestSuccessEffect DEF MarkRestResult
<1>2. CASE ~ok
  <2>1. t = RestFailure(s, na)
    BY <1>2 DEF MarkRestResult
  <2>2. Keeps(s, t) /\ Counts(s, t, FALSE)
    BY <2>1, RestFailureEffect
  <2> QED BY <1>2, <2>2 DEF Counts
<1> QED BY <1>1, <1>2

\* request_logger_state: the recording flag does not matter to Sound.
LEMMA RequestLoggerStateEffect ==
    ASSUME NEW s \in ServiceFields, NEW na \in Nat, ~s.exc, NEW r \in Replies,
           NEW t, t = RequestLoggerState(s, r, na)
    PROVE  Keeps(s, t) /\ Counts(s, t, ReplyOk(r))
<1> DEFINE m == MarkRestResult(s, ReplyOk(r), na)
<1>1. ReplyOk(r) \in BOOLEAN
  BY DEF ReplyOk
<1>2. Keeps(s, m) /\ Counts(s, m, ReplyOk(r))
  BY <1>1, MarkRestResultEffect
<1>3. t = m \/ t = [m EXCEPT !.recording = (r = "recording")]
  BY DEF RequestLoggerState
<1>4. m \in ServiceFields
  BY <1>2 DEF Keeps
<1> HIDE DEF m
<1>5. /\ t \in ServiceFields
      /\ t.connected = m.connected /\ t.presenceOnline = m.presenceOnline
      /\ t.restAlive = m.restAlive /\ t.restAge = m.restAge
      /\ t.failStreak = m.failStreak /\ t.okStreak = m.okStreak
      /\ t.outbox = m.outbox /\ t.exc = m.exc
  BY <1>3, <1>4 DEF ServiceFields
<1>6. Agree(m) <=> Agree(t)
  BY <1>5 DEF Agree, View
<1>7. Sound(m) <=> Sound(t)
  BY <1>5 DEF Sound
<1>8. Keeps(s, t)
  BY <1>2, <1>5, <1>6, <1>7 DEF Keeps
<1>9. Counts(s, t, ReplyOk(r))
  BY <1>2, <1>5 DEF Counts
<1> QED BY <1>8, <1>9

\* refresh_rest_health: its two early returns find presence as it must be,
\* the second because presence is never online over a dead REST side.
LEMMA RefreshRestHealthEffect ==
    ASSUME NEW s \in ServiceFields, NEW na \in Nat, ~s.exc, Sound(s),
           NEW t, t = RefreshRestHealth(s, na)
    PROVE  /\ Keeps(s, t)
           /\ t.okStreak = s.okStreak /\ t.failStreak = s.failStreak
           /\ t.restAge = s.restAge /\ t.recording = s.recording
           /\ ~t.exc /\ t.presenceOnline => ~RestOffline(s, na)
           /\ s.connected = t.connected
<1>1. CASE ~RestOffline(s, na)
  <2>1. t = [s EXCEPT !.restAlive = TRUE]
    BY <1>1 DEF RefreshRestHealth
  <2>2. /\ t \in ServiceFields /\ t.restAlive = TRUE
        /\ t.connected = s.connected /\ t.presenceOnline = s.presenceOnline
        /\ t.restAge = s.restAge /\ t.recording = s.recording
        /\ t.failStreak = s.failStreak /\ t.okStreak = s.okStreak
        /\ t.outbox = s.outbox /\ t.exc = s.exc
    BY <2>1 DEF ServiceFields
  <2>3. Agree(s) => Agree(t)
    BY <2>2 DEF Agree, View
  <2>4. Sound(t)
    BY <2>2 DEF Sound
  <2>5. Keeps(s, t)
    BY <2>2, <2>3, <2>4 DEF Keeps
  <2> QED BY <1>1, <2>2, <2>5
<1>2. CASE RestOffline(s, na) /\ ~s.restAlive
  <2>1. t = s
    BY <1>2 DEF RefreshRestHealth
  <2>2. ~t.presenceOnline
    BY <1>2, <2>1 DEF Sound
  <2> QED BY <2>1, <2>2 DEF Keeps
<1>3. CASE RestOffline(s, na) /\ s.restAlive
  <2> DEFINE a == [s EXCEPT !.restAlive = FALSE]
             u == UpdateLinkHealth(a, na)
  <2>1. t = UpdatePresenceState(u, na)
    BY <1>3 DEF RefreshRestHealth
  <2>2. a \in ServiceFields
    BY DEF ServiceFields
  <2>3. u \in ServiceFields /\ u = [a EXCEPT !.apiOk = ~RestOffline(a, na)]
    BY <2>2, UpdateLinkHealthType
  <2>4. /\ u.connected = s.connected /\ u.presenceOnline = s.presenceOnline
        /\ u.restAge = s.restAge /\ u.recording = s.recording
        /\ u.failStreak = s.failStreak /\ u.okStreak = s.okStreak
        /\ u.outbox = s.outbox /\ u.exc = s.exc
    BY <2>3 DEF ServiceFields
  <2>5. RestOffline(u, na)
    BY <1>3, <2>4 DEF RestOffline, RestAge
  <2>6. Agree(s) => Agree(u)
    BY <2>4 DEF Agree, View
  <2> HIDE DEF a, u
  <2>7. /\ t \in ServiceFields /\ PresenceOnly(u, t)
        /\ t.exc => t.presenceOnline = u.presenceOnline /\ link = "down"
        /\ ~u.presenceOnline /\ t.presenceOnline => u.okStreak >= 2 /\ link # "down"
        /\ ~t.exc /\ t.presenceOnline => u.connected /\ ~RestOffline(u, na)
        /\ Agree(u) => Agree(t)
    <3>1. u \in ServiceFields /\ ~u.exc
      BY <2>3, <2>4
    <3> QED BY ONLY <2>1, <3>1, UpdatePresenceStateEffect, na \in Nat
  <2>8. /\ t.connected = u.connected /\ t.failStreak = u.failStreak
        /\ t.okStreak = u.okStreak /\ t.restAge = u.restAge
        /\ t.recording = u.recording
    BY ONLY <2>3, <2>7, PresenceOnlyFields
  <2>9. ~t.exc => ~t.presenceOnline
    BY <2>5, <2>7
  <2>10. Keeps(s, t)
    BY <2>4, <2>6, <2>7, <2>8, <2>9 DEF Keeps, Sound
  <2> QED BY <2>4, <2>8, <2>9, <2>10
<1> QED BY <1>1, <1>2, <1>3

\* Time passing changes nothing that the invariant is about but the ages.
LEMMA ElapseEffect ==
    ASSUME NEW s \in ServiceFields, NEW d \in Nat, NEW t, t = Elapse(s, d)
    PROVE  /\ t \in ServiceFields
           /\ t.connected = s.connected /\ t.presenceOnline = s.presenceOnline
           /\ t.restAlive = s.restAlive
           /\ (t.restAge = Never <=> s.restAge = Never)
           /\ t.failStreak = s.failStreak /\ t.okStreak = s.okStreak
           /\ t.recording = s.recording /\ t.outbox = s.outbox /\ t.exc = s.exc
           /\ Agree(s) <=> Agree(t)
           /\ Sound(s) <=> Sound(t)
<1>1. /\ t \in ServiceFields
      /\ t = [s EXCEPT !.restAge = t.restAge, !.emitAge = t.emitAge, !.pollAge = t.pollAge]
      /\ t.restAge = Never <=> s.restAge = Never
  BY ElapseType
<1>2. /\ t.connected = s.connected /\ t.presenceOnline = s.presenceOnline
      /\ t.restAlive = s.restAlive /\ t.failStreak = s.failStreak
      /\ t.okStreak = s.okStreak /\ t.recording = s.recording
      /\ t.outbox = s.outbox /\ t.exc = s.exc
  BY <1>1 DEF ServiceFields
<1>3. Agree(s) <=> Agree(t)
  BY <1>2 DEF Agree, View
<1>4. Sound(s) <=> Sound(t)
  BY <1>1, <1>2 DEF Sound
<1> QED BY <1>1, <1>2, <1>3, <1>4

-----------------------------------------------------------------------------
(* Steps.                                                                   *)

\* What OnlineNeedsTwoSuccesses says of one step.
Turn == ~svc.presenceOnline /\ svc'.presenceOnline => streak' = 2

\* The streaks of the service move with the replies seen.
LEMMA StreaksMove ==
    ASSUME TypeOK, StreaksCount, NEW ok \in BOOLEAN, Observe(ok),
           svc' \in ServiceFields, Counts(svc, svc', ok)
    PROVE  StreaksCount' /\ streak' \in -3..2 /\ clean' \in BOOLEAN
<1>1. /\ svc.okStreak \in 0..StreakCap /\ svc.failStreak \in 0..StreakCap
      /\ streak \in -3..2 /\ clean \in BOOLEAN
  BY DEF TypeOK, ServiceFields
<1>2. clean' \in BOOLEAN
  BY <1>1 DEF Observe
<1>3. CASE ok
  <2>1. streak' = IF streak < 0 THEN 1 ELSE IF streak < 2 THEN streak + 1 ELSE 2
    BY <1>3 DEF Observe
  <2>2. svc'.okStreak = Inc(svc.okStreak) /\ svc'.failStreak = 0
    BY <1>3 DEF Counts
  <2>3. Inc(svc.okStreak) = svc.okStreak + 1 \/ (Inc(svc.okStreak) = svc.okStreak /\ svc.okStreak >= 3)
    BY <1>1, IncType
  <2>4. /\ svc.okStreak >= 1 => streak >= 1
        /\ svc.okStreak >= 2 => streak = 2
    BY DEF StreaksCount
  <2>5. streak' >= 1 /\ streak' \in -3..2
    BY <1>1, <2>1
  <2>6. svc'.okStreak >= 2 => streak' = 2
    BY <1>1, <2>1, <2>2, <2>3, <2>4
  <2> QED BY <1>2, <2>5, <2>6 DEF StreaksCount
<1>4. CASE ~ok
  <2>1. streak' = IF streak > 0 THEN -1 ELSE IF streak > -3 THEN streak - 1 ELSE -3
    BY <1>4 DEF Observe
  <2>2. svc'.okStreak = 0 /\ svc'.failStreak = Inc(svc.failStreak)
    BY <1>4 DEF Counts
  <2>3. Inc(svc.failStreak) = svc.failStreak + 1 \/ (Inc(svc.failStreak) = svc.failStreak /\ svc.failStreak >= 3)
    BY <1>1, IncType
  <2>4. streak < 0 => svc.failStreak >= -streak
    BY DEF StreaksCount
  <2>5. streak' \in -3..2
    BY <1>1, <2>1
  <2>6. svc'.failStreak >= -streak'
    BY <1>1, <2>1, <2>2, <2>3, <2>4
  <2> QED BY <1>2, <2>2, <2>5, <2>6 DEF StreaksCount
<1> QED BY <1>3, <1>4

LEMMA StreaksStay ==
    ASSUME TypeOK, StreaksCount, Unobserved,
           svc'.okStreak = svc.okStreak, svc'.failStreak = svc.failStreak
    PROVE  StreaksCount' /\ streak' \in -3..2 /\ clean' \in BOOLEAN
BY DEF TypeOK, StreaksCount, Unobserved

\* Places of the loop that no clause of Phases or of OnlineIsRecent names.
PlainPcs == {"top", "enter", "drain", "sense", "refresh", "publish", "sleep", "shutdown"}

\* A step of the main thread whose effect on the service Keeps sums up.
LEMMA MethodStep ==
    ASSUME IInv, Running, Keeps(svc, svc'), Environment,
           StreaksCount', streak' \in -3..2, clean' \in BOOLEAN,
           NEW next \in PlainPcs, pc' = (IF svc'.exc THEN "crashed" ELSE next),
           loopAge' \in Nat, calls' \in 0..MaxDrain
    PROVE  IInv' /\ Turn
<1>1. /\ svc' \in ServiceFields /\ svc'.connected = svc.connected
      /\ Agree(svc) => Agree(svc')
      /\ ~svc'.exc /\ Sound(svc) => Sound(svc')
      /\ ~svc.presenceOnline /\ svc'.presenceOnline => svc'.okStreak >= 2 /\ link # "down"
  BY DEF Keeps
<1>2. pc' \in PlainPcs \cup {"crashed"} /\ (Running' => ~svc'.exc)
  BY DEF PlainPcs, Running, LoopPcs
<1>3. TypeOK'
  BY <1>1, <1>2 DEF IInv, TypeOK, Environment, PlainPcs, LoopPcs, EndPcs
<1>4. Phases'
  BY <1>1, <1>2 DEF IInv, Phases, Environment, PlainPcs
<1>5. (Running => Sound(svc))'
  <2>1. Sound(svc)
    BY DEF IInv
  <2>2. Sound(svc)' <=> Sound(svc')
    BY DEF Sound
  <2> QED BY <1>1, <1>2, <2>1, <2>2
<1>6. BrokerAgrees'
  <2>1. Agree(svc)
    BY DEF IInv, BrokerAgrees
  <2>2. Agree(svc')
    BY <1>1, <2>1
  <2> QED BY <2>2 DEF BrokerAgrees, Agree, View, Environment
<1>7. OnlineIsRecent' /\ CleanStopLeavesOffline'
  BY <1>2 DEF OnlineIsRecent, CleanStopLeavesOffline, PlainPcs
<1>8. Turn
  BY <1>1 DEF Turn, StreaksCount
<1> QED BY <1>3, <1>4, <1>5, <1>6, <1>7, <1>8 DEF IInv

\* A method that leaves presence, streaks and liveness alone is kept.
LEMMA QuietKeeps ==
    ASSUME NEW s \in ServiceFields, NEW t \in ServiceFields,
           t.connected = s.connected, t.presenceOnline = s.presenceOnline,
           t.restAlive = s.restAlive, t.restAge = Never <=> s.restAge = Never,
           t.failStreak = s.failStreak, t.okStreak = s.okStreak,
           t.outbox = s.outbox, t.exc => link = "down"
    PROVE  Keeps(s, t)
<1>1. Agree(s) => Agree(t)
  BY DEF Agree, View
<1>2. Sound(s) => Sound(t)
  BY DEF Sound
<1> QED BY <1>1, <1>2 DEF Keeps

\* Time passes, a method runs, and what follows it may throw or set the poll
\* stamp: the whole is kept and counted like the method.
LEMMA CallKeeps ==
    ASSUME NEW s \in ServiceFields, NEW d \in Nat, NEW ok \in BOOLEAN,
           NEW m, Keeps(Elapse(s, d), m), Counts(Elapse(s, d), m, ok),
           NEW u \in ServiceFields,
           u.connected = m.connected, u.presenceOnline = m.presenceOnline,
           u.restAlive = m.restAlive, u.restAge = m.restAge,
           u.failStreak = m.failStreak, u.okStreak = m.okStreak,
           u.outbox = m.outbox, m.exc => u.exc, u.exc => link = "down"
    PROVE  Keeps(s, u) /\ Counts(s, u, ok)
<1> DEFINE e == Elapse(s, d)
<1>1. /\ e.connected = s.connected /\ e.presenceOnline = s.presenceOnline
      /\ e.failStreak = s.failStreak /\ e.okStreak = s.okStreak
      /\ Agree(s) <=> Agree(e)
      /\ Sound(s) <=> Sound(e)
  BY ElapseEffect
<1>2. Keeps(e, m) /\ Counts(e, m, ok)
  OBVIOUS
<1> HIDE DEF e
<1>3. /\ m.connected = e.connected
      /\ Agree(e) => Agree(m)
      /\ ~m.exc /\ Sound(e) => Sound(m)
      /\ ~e.presenceOnline /\ m.presenceOnline => m.okStreak >= 2 /\ link # "down"
  BY <1>2 DEF Keeps
<1>4. Agree(m) => Agree(u)
  BY DEF Agree, View
<1>5. Sound(m) => Sound(u)
  BY DEF Sound
<1>6. Keeps(s, u)
  BY <1>1, <1>3, <1>4, <1>5 DEF Keeps
<1>7. Counts(s, u, ok)
  BY <1>1, <1>2 DEF Counts
<1> QED BY <1>6, <1>7

\* publish_status after a method, as the handlers call it.
LEMMA StatusAfterCall ==
    ASSUME NEW s \in ServiceFields, NEW d \in Nat, NEW ok \in BOOLEAN, NEW status \in BOOLEAN,
           NEW m, Keeps(Elapse(s, d), m), Counts(Elapse(s, d), m, ok),
           NEW u, u = (IF status THEN PublishStatus(m) ELSE m)
    PROVE  Keeps(s, u) /\ Counts(s, u, ok)
<1>1. m \in ServiceFields /\ (m.exc => link = "down")
  BY DEF Keeps
<1>2. /\ u \in ServiceFields
      /\ u = [m EXCEPT !.exc = u.exc]
      /\ u.exc => link = "down"
      /\ m.exc => u.exc
  <2>1. CASE status
    BY <1>1, <2>1, PublishStatusEffect
  <2>2. CASE ~status
    BY <1>1, <2>2 DEF ServiceFields
  <2> QED BY <2>1, <2>2
<1>3. /\ u.connected = m.connected /\ u.presenceOnline = m.presenceOnline
      /\ u.restAlive = m.restAlive /\ u.restAge = m.restAge
      /\ u.failStreak = m.failStreak /\ u.okStreak = m.okStreak
      /\ u.outbox = m.outbox
  BY <1>1, <1>2 DEF ServiceFields
<1> QED BY <1>1, <1>2, <1>3, CallKeeps

\* What every step of the main thread finds.
LEMMA Before ==
    ASSUME IInv
    PROVE  /\ svc \in ServiceFields
           /\ Running => ~svc.exc /\ Sound(svc)
           /\ loopAge \in Nat /\ calls \in 0..MaxDrain
           /\ TypeOK /\ StreaksCount /\ Phases /\ Agree(svc)
BY DEF IInv, TypeOK, Phases, BrokerAgrees

\* ElapseEffect for a step whose only effect on the service is that time passes.
LEMMA TimePasses ==
    ASSUME svc \in ServiceFields, NEW d \in Nat, svc' = Elapse(svc, d)
    PROVE  /\ svc' \in ServiceFields
           /\ svc'.connected = svc.connected /\ svc'.presenceOnline = svc.presenceOnline
           /\ svc'.restAlive = svc.restAlive /\ (svc'.restAge = Never <=> svc.restAge = Never)
           /\ svc'.failStreak = svc.failStreak /\ svc'.okStreak = svc.okStreak
           /\ svc'.outbox = svc.outbox /\ svc'.exc = svc.exc
           /\ Sound(svc) <=> Sound(svc')
BY ElapseEffect

\* The steps that run no method or only a quiet one.
LEMMA QuietSteps ==
    ASSUME IInv, NEW d \in Durations, NEW due \in BOOLEAN, NEW e \in 0..1,
           \/ Top \/ Enter \/ CommandWait(d) \/ DrainDone \/ Sense
           \/ ConnectFails(d) \/ Publish(due) \/ Sleep(e)
    PROVE  IInv' /\ Turn
<1> USE Before
<1>1. d \in Nat /\ e \in Nat /\ Never \in Ages(PollHorizon) /\ 0 \in 0..MaxDrain
  BY ConstantTypes, BoundAssumption DEF Ages
<1>2. CASE Top
  <2>1. Running /\ UNCHANGED svc /\ Unobserved /\ Environment
    BY <1>2 DEF Top, Running, LoopPcs
  <2>2. Keeps(svc, svc')
    BY <2>1, QuietKeeps
  <2>3. StreaksCount' /\ streak' \in -3..2 /\ clean' \in BOOLEAN
    BY <2>1, StreaksStay
  <2>4. pc' = "shutdown" \/ pc' = "enter"
    BY <1>2 DEF Top
  <2>5. loopAge' \in Nat /\ calls' \in 0..MaxDrain
    BY <1>2 DEF Top
  <2> QED BY <2>1, <2>2, <2>3, <2>4, <2>5, MethodStep DEF PlainPcs
<1>3. CASE Enter
  <2>1. Running /\ Unobserved /\ Environment
    BY <1>3 DEF Enter, Running, LoopPcs
  <2>2. /\ svc' \in ServiceFields /\ svc'.exc = svc.exc
        /\ svc' = [svc EXCEPT !.pollAge = svc'.pollAge]
    BY <1>1, <1>3 DEF Enter, ServiceFields
  <2>3. /\ svc'.connected = svc.connected /\ svc'.presenceOnline = svc.presenceOnline
        /\ svc'.restAlive = svc.restAlive /\ svc'.restAge = svc.restAge
        /\ svc'.failStreak = svc.failStreak /\ svc'.okStreak = svc.okStreak
        /\ svc'.outbox = svc.outbox
    BY <2>2 DEF ServiceFields
  <2>4. Keeps(svc, svc')
    BY <2>1, <2>2, <2>3, QuietKeeps
  <2>5. StreaksCount' /\ streak' \in -3..2 /\ clean' \in BOOLEAN
    BY <2>1, <2>3, StreaksStay
  <2>6. pc' = "drain" \/ pc' = "sleep"
    BY <1>3 DEF Enter
  <2>7. loopAge' \in Nat /\ calls' \in 0..MaxDrain
    BY <1>3 DEF Enter
  <2> QED BY <2>1, <2>2, <2>4, <2>5, <2>6, <2>7, MethodStep DEF PlainPcs
<1>4. CASE DrainDone
  <2>1. Running /\ UNCHANGED svc /\ Unobserved /\ Environment /\ pc' = "sense"
    BY <1>4 DEF DrainDone, Running, LoopPcs
  <2>2. Keeps(svc, svc')
    BY <2>1, QuietKeeps
  <2>3. StreaksCount' /\ streak' \in -3..2 /\ clean' \in BOOLEAN
    BY <2>1, StreaksStay
  <2>4. loopAge' \in Nat /\ calls' \in 0..MaxDrain
    BY <1>4 DEF DrainDone
  <2> QED BY <2>1, <2>2, <2>3, <2>4, MethodStep DEF PlainPcs
<1>5. CASE Sense
  <2>1. Running /\ Unobserved /\ Environment /\ pc' = "refresh"
    BY <1>5 DEF Sense, Running, LoopPcs
  <2>2. \/ svc' = svc
        \/ \E na \in Nat : svc' = UpdateLinkHealth(svc, na)
    BY <1>5 DEF Sense
  <2>3. /\ svc' \in ServiceFields
        /\ svc'.connected = svc.connected /\ svc'.presenceOnline = svc.presenceOnline
        /\ svc'.restAlive = svc.restAlive /\ svc'.restAge = svc.restAge
        /\ svc'.failStreak = svc.failStreak /\ svc'.okStreak = svc.okStreak
        /\ svc'.outbox = svc.outbox /\ svc'.exc = svc.exc
    <3>1. svc' \in ServiceFields /\ svc' = [svc EXCEPT !.apiOk = svc'.apiOk]
      <4>1. CASE svc' = svc
        BY <4>1 DEF ServiceFields
      <4>2. CASE svc' # svc
        <5>1. PICK na \in Nat : svc' = UpdateLinkHealth(svc, na)
          BY <2>2, <4>2
        <5> QED BY <5>1, UpdateLinkHealthType DEF ServiceFields
      <4> QED BY <4>1, <4>2
    <3> QED BY <3>1 DEF ServiceFields
  <2>4. Keeps(svc, svc')
    BY <2>1, <2>3, QuietKeeps
  <2>5. StreaksCount' /\ streak' \in -3..2 /\ clean' \in BOOLEAN
    BY <2>1, <2>3, StreaksStay
  <2>6. loopAge' \in Nat /\ calls' \in 0..MaxDrain
    BY <1>5 DEF Sense
  <2> QED BY <2>1, <2>3, <2>4, <2>5, <2>6, MethodStep DEF PlainPcs
<1>6. CASE ConnectFails(d)
  <2>1. Running /\ Unobserved /\ Environment /\ pc' = "enter" /\ svc' = Elapse(svc, d)
    BY <1>6 DEF ConnectFails, Running, LoopPcs
  <2>2. /\ svc' \in ServiceFields
        /\ svc'.connected = svc.connected /\ svc'.presenceOnline = svc.presenceOnline
        /\ svc'.restAlive = svc.restAlive /\ (svc'.restAge = Never <=> svc.restAge = Never)
        /\ svc'.failStreak = svc.failStreak /\ svc'.okStreak = svc.okStreak
        /\ svc'.outbox = svc.outbox /\ svc'.exc = svc.exc
    BY <1>1, <2>1, TimePasses
  <2>3. Keeps(svc, svc')
    BY <2>1, <2>2, QuietKeeps
  <2>4. StreaksCount' /\ streak' \in -3..2 /\ clean' \in BOOLEAN
    BY <2>1, <2>2, StreaksStay
  <2>5. loopAge' \in Nat /\ calls' \in 0..MaxDrain
    BY <1>1, <1>6 DEF ConnectFails
  <2> QED BY <2>1, <2>2, <2>3, <2>4, <2>5, MethodStep DEF PlainPcs
<1>7. CASE Publish(due)
  <2>1. /\ Running /\ Unobserved /\ Environment
        /\ svc' = (IF due THEN PublishStatus(svc) ELSE svc)
        /\ pc' = IF svc'.exc THEN "crashed" ELSE "sleep"
    BY <1>7 DEF Publish, Continue, Running, LoopPcs
  <2>2. /\ svc' \in ServiceFields /\ svc' = [svc EXCEPT !.exc = svc'.exc]
        /\ svc'.exc => link = "down"
    <3>1. CASE due
      BY <2>1, <3>1, PublishStatusEffect
    <3>2. CASE ~due
      BY <2>1, <3>2 DEF ServiceFields
    <3> QED BY <3>1, <3>2
  <2>3. /\ svc'.connected = svc.connected /\ svc'.presenceOnline = svc.presenceOnline
        /\ svc'.restAlive = svc.restAlive /\ svc'.restAge = svc.restAge
        /\ svc'.failStreak = svc.failStreak /\ svc'.okStreak = svc.okStreak
        /\ svc'.outbox = svc.outbox
    BY <2>2 DEF ServiceFields
  <2>4. Keeps(svc, svc')
    BY <2>1, <2>2, <2>3, QuietKeeps
  <2>5. StreaksCount' /\ streak' \in -3..2 /\ clean' \in BOOLEAN
    BY <2>1, <2>3, StreaksStay
  <2>6. loopAge' \in Nat /\ calls' \in 0..MaxDrain
    BY <1>7 DEF Publish
  <2> QED BY <2>1, <2>4, <2>5, <2>6, MethodStep DEF PlainPcs
<1>8. CASE Sleep(e)
  <2>1. Running /\ Unobserved /\ Environment /\ pc' = "top" /\ svc' = Elapse(svc, e)
    BY <1>8 DEF Sleep, Running, LoopPcs
  <2>2. /\ svc' \in ServiceFields
        /\ svc'.connected = svc.connected /\ svc'.presenceOnline = svc.presenceOnline
        /\ svc'.restAlive = svc.restAlive /\ (svc'.restAge = Never <=> svc.restAge = Never)
        /\ svc'.failStreak = svc.failStreak /\ svc'.okStreak = svc.okStreak
        /\ svc'.outbox = svc.outbox /\ svc'.exc = svc.exc
    BY <1>1, <2>1, TimePasses
  <2>3. Keeps(svc, svc')
    BY <2>1, <2>2, QuietKeeps
  <2>4. StreaksCount' /\ streak' \in -3..2 /\ clean' \in BOOLEAN
    BY <2>1, <2>2, StreaksStay
  <2>5. loopAge' \in Nat /\ calls' \in 0..MaxDrain
    BY <1>1, <1>8 DEF Sleep
  <2> QED BY <2>1, <2>2, <2>3, <2>4, <2>5, MethodStep DEF PlainPcs
<1>9. CASE CommandWait(d)
  <2>1. Running /\ Unobserved /\ Environment /\ pc' = "drain" /\ svc' = Elapse(svc, d)
    BY <1>9 DEF CommandWait, Running, LoopPcs
  <2>2. /\ svc' \in ServiceFields
        /\ svc'.connected = svc.connected /\ svc'.presenceOnline = svc.presenceOnline
        /\ svc'.restAlive = svc.restAlive /\ (svc'.restAge = Never <=> svc.restAge = Never)
        /\ svc'.failStreak = svc.failStreak /\ svc'.okStreak = svc.okStreak
        /\ svc'.outbox = svc.outbox /\ svc'.exc = svc.exc
    BY <1>1, <2>1, TimePasses
  <2>3. Keeps(svc, svc')
    BY <2>1, <2>2, QuietKeeps
  <2>4. StreaksCount' /\ streak' \in -3..2 /\ clean' \in BOOLEAN
    BY <2>1, <2>2, StreaksStay
  <2>5. calls' = calls + 1 /\ calls < MaxDrain /\ loopAge' = loopAge + d
    BY <1>9 DEF CommandWait
  <2>6. loopAge' \in Nat /\ calls' \in 0..MaxDrain
    BY <1>1, <2>5, BoundAssumption DEF IInv, TypeOK
  <2> QED BY <2>1, <2>2, <2>3, <2>4, <2>6, MethodStep DEF PlainPcs
<1> QED BY <1>2, <1>3, <1>4, <1>5, <1>6, <1>7, <1>8, <1>9

\* The steps that make a REST call: command handlers, poll and self-test.
LEMMA RestSteps ==
    ASSUME IInv, NEW r \in Replies, NEW d \in Durations,
           NEW ok \in BOOLEAN, NEW status \in BOOLEAN,
           \/ CommandGet(r, d, status) \/ CommandPost(ok, d, status)
           \/ Poll(r, d) \/ Selftest(r, d)
    PROVE  IInv' /\ Turn
<1> USE Before
<1>1. d \in Nat /\ ReplyOk(r) \in BOOLEAN
  BY ConstantTypes DEF ReplyOk
<1>2. Running /\ Environment
  BY DEF CommandGet, CommandPost, Poll, Selftest, MayCall, Running, LoopPcs
<1> DEFINE e == Elapse(svc, d)
<1>3. e \in ServiceFields /\ ~e.exc
  <2>1. svc \in ServiceFields /\ ~svc.exc
    BY <1>2
  <2>2. e \in ServiceFields /\ e.exc = svc.exc
    BY <1>1, <2>1, ElapseEffect
  <2> QED BY <2>1, <2>2
<1>4. CASE CommandGet(r, d, status)
  <2> DEFINE m == RequestLoggerState(e, r, d)
             u == IF status THEN PublishStatus(m) ELSE m
  <2>1. Keeps(e, m) /\ Counts(e, m, ReplyOk(r))
    BY <1>1, <1>3, RequestLoggerStateEffect
  <2>2. svc' = u /\ pc' = (IF u.exc THEN "crashed" ELSE "drain")
    BY <1>4 DEF CommandGet, Continue
  <2>3. Observe(ReplyOk(r)) /\ loopAge' = loopAge + d /\ calls' = calls + 1 /\ calls < MaxDrain
    BY <1>4 DEF CommandGet, MayCall
  <2> HIDE DEF m
  <2>4. Keeps(svc, svc') /\ Counts(svc, svc', ReplyOk(r))
    BY <1>1, <2>1, <2>2, StatusAfterCall
  <2>5. svc' \in ServiceFields
    BY <2>4 DEF Keeps
  <2>6. StreaksCount' /\ streak' \in -3..2 /\ clean' \in BOOLEAN
    BY <1>1, <2>3, <2>4, <2>5, StreaksMove
  <2>7. loopAge' \in Nat /\ calls' \in 0..MaxDrain
    BY <1>1, <2>3, BoundAssumption
  <2>8. "drain" \in PlainPcs /\ pc' = (IF svc'.exc THEN "crashed" ELSE "drain")
    BY <2>2 DEF PlainPcs
  <2> QED BY <1>2, <2>4, <2>6, <2>7, <2>8, MethodStep
<1>5. CASE CommandPost(ok, d, status)
  <2> DEFINE m == MarkRestResult(e, ok, 0)
             u == IF status THEN PublishStatus(m) ELSE m
  <2>1. Keeps(e, m) /\ Counts(e, m, ok)
    BY <1>1, <1>3, MarkRestResultEffect
  <2>2. svc' = u /\ pc' = (IF u.exc THEN "crashed" ELSE "drain")
    BY <1>5 DEF CommandPost, Continue
  <2>3. Observe(ok) /\ loopAge' = loopAge + d /\ calls' = calls + 1 /\ calls < MaxDrain
    BY <1>5 DEF CommandPost, MayCall
  <2> HIDE DEF m
  <2>4. Keeps(svc, svc') /\ Counts(svc, svc', ok)
    BY <1>1, <2>1, <2>2, StatusAfterCall
  <2>5. svc' \in ServiceFields
    BY <2>4 DEF Keeps
  <2>6. StreaksCount' /\ streak' \in -3..2 /\ clean' \in BOOLEAN
    BY <2>3, <2>4, <2>5, StreaksMove
  <2>7. loopAge' \in Nat /\ calls' \in 0..MaxDrain
    BY <1>1, <2>3, BoundAssumption
  <2>8. "drain" \in PlainPcs /\ pc' = (IF svc'.exc THEN "crashed" ELSE "drain")
    BY <2>2 DEF PlainPcs
  <2> QED BY <1>2, <2>4, <2>6, <2>7, <2>8, MethodStep
<1>6. CASE Poll(r, d)
  <2> DEFINE na == loopAge + d
             m == RequestLoggerState(e, r, na)
             u == IF m.exc THEN m ELSE [m EXCEPT !.pollAge = Later(0, na, PollHorizon)]
  <2>1. na \in Nat
    BY <1>1
  <2>2. Keeps(e, m) /\ Counts(e, m, ReplyOk(r))
    BY <1>3, <2>1, RequestLoggerStateEffect
  <2>3. svc' = u /\ pc' = (IF u.exc THEN "crashed" ELSE "publish")
    BY <1>6 DEF Poll, Continue
  <2>4. Observe(ReplyOk(r)) /\ loopAge' = na /\ calls' = calls
    BY <1>6 DEF Poll
  <2>5. Later(0, na, PollHorizon) \in Ages(PollHorizon)
    BY <2>1, ConstantTypes, LaterType DEF Ages
  <2> HIDE DEF m, na
  <2>6. m \in ServiceFields /\ (m.exc => link = "down")
    BY <2>2 DEF Keeps
  <2>7. /\ u \in ServiceFields /\ u.exc = m.exc
        /\ u.connected = m.connected /\ u.presenceOnline = m.presenceOnline
        /\ u.restAlive = m.restAlive /\ u.restAge = m.restAge
        /\ u.failStreak = m.failStreak /\ u.okStreak = m.okStreak
        /\ u.outbox = m.outbox
    <3>1. CASE m.exc
      BY <2>6, <3>1
    <3>2. CASE ~m.exc
      BY <2>5, <2>6, <3>2 DEF ServiceFields
    <3> QED BY <3>1, <3>2
  <2>8. Keeps(svc, svc') /\ Counts(svc, svc', ReplyOk(r))
    <3>1. svc \in ServiceFields /\ ReplyOk(r) \in BOOLEAN
      BY <1>1
    <3>2. (m.exc => u.exc) /\ (u.exc => link = "down")
      BY <2>6, <2>7
    <3> HIDE DEF u
    <3>3. Keeps(svc, u) /\ Counts(svc, u, ReplyOk(r))
      BY ONLY <1>1, <2>2, <2>7, <3>1, <3>2, CallKeeps, ZenonT(60)
    <3> QED BY <2>3, <3>3
  <2>9. StreaksCount' /\ streak' \in -3..2 /\ clean' \in BOOLEAN
    BY <1>1, <2>3, <2>4, <2>7, <2>8, StreaksMove
  <2>10. loopAge' \in Nat /\ calls' \in 0..MaxDrain
    BY <2>1, <2>4
  <2>11. "publish" \in PlainPcs /\ pc' = (IF svc'.exc THEN "crashed" ELSE "publish")
    BY <2>3 DEF PlainPcs
  <2> QED BY <1>2, <2>8, <2>9, <2>10, <2>11, MethodStep
<1>7. CASE Selftest(r, d)
  <2> DEFINE m == RequestLoggerState(e, r, d)
             u == PublishStatus(m)
  <2>1. Keeps(e, m) /\ Counts(e, m, ReplyOk(r))
    BY <1>1, <1>3, RequestLoggerStateEffect
  <2>2. svc' = [u EXCEPT !.exc = FALSE] /\ pc' = "enter" /\ pc = "selftest"
    BY <1>7 DEF Selftest
  <2>3. Observe(ReplyOk(r)) /\ loopAge' = loopAge + d /\ calls' = calls
    BY <1>7 DEF Selftest
  <2> HIDE DEF m
  <2>4. Keeps(svc, u) /\ Counts(svc, u, ReplyOk(r))
    BY <1>1, <2>1, StatusAfterCall
  <2> HIDE DEF u
  <2>5. u \in ServiceFields /\ (u.exc => link = "down") /\ u.exc \in BOOLEAN
    BY <2>4 DEF Keeps, ServiceFields
  <2>6. /\ svc' \in ServiceFields /\ svc'.exc = FALSE
        /\ svc'.connected = u.connected /\ svc'.presenceOnline = u.presenceOnline
        /\ svc'.restAlive = u.restAlive /\ svc'.restAge = u.restAge
        /\ svc'.failStreak = u.failStreak /\ svc'.okStreak = u.okStreak
        /\ svc'.outbox = u.outbox
    BY <2>2, <2>5 DEF ServiceFields
  <2>7. ~svc.presenceOnline
    BY <2>2 DEF Phases
  <2>8. u.exc => ~svc'.presenceOnline
    BY <2>4, <2>5, <2>6, <2>7 DEF Keeps
  <2>9. Agree(svc) => Agree(svc')
    BY <2>4, <2>6 DEF Keeps, Agree, View
  <2>10. Sound(svc')
    <3>1. CASE u.exc
      BY <2>8, <3>1 DEF Sound
    <3>2. CASE ~u.exc
      BY <1>2, <2>4, <2>6, <3>2 DEF Keeps, Sound
    <3> QED BY <3>1, <3>2
  <2>11. Keeps(svc, svc')
    BY <2>4, <2>6, <2>9, <2>10 DEF Keeps
  <2>12. Counts(svc, svc', ReplyOk(r))
    BY <2>4, <2>6 DEF Counts
  <2>13. StreaksCount' /\ streak' \in -3..2 /\ clean' \in BOOLEAN
    BY <1>1, <2>3, <2>6, <2>12, StreaksMove
  <2>14. loopAge' \in Nat /\ calls' \in 0..MaxDrain
    BY <1>1, <2>3
  <2>15. "enter" \in PlainPcs /\ pc' = (IF svc'.exc THEN "crashed" ELSE "enter")
    BY <2>2, <2>6 DEF PlainPcs
  <2> QED BY <1>2, <2>11, <2>13, <2>14, <2>15, MethodStep
<1> QED BY <1>4, <1>5, <1>6, <1>7

\* refresh_rest_health: what it leaves when the loop goes on to poll is recent.
LEMMA RefreshStep ==
    ASSUME IInv, Refresh
    PROVE  IInv' /\ Turn
<1> USE Before
<1> DEFINE s == RefreshRestHealth(svc, loopAge)
           t == IF s.pollAge = Never /\ ~s.exc
                THEN [s EXCEPT !.pollAge = Later(0, loopAge, PollHorizon)] ELSE s
<1>1. /\ Running /\ Environment /\ Unobserved
      /\ svc' = t /\ loopAge' = loopAge /\ calls' = calls
      /\ pc' = IF t.exc THEN "crashed"
               ELSE IF t.pollAge - loopAge >= RestPollInterval THEN "poll" ELSE "publish"
  BY DEF Refresh, Continue, Running, LoopPcs
<1>2. /\ Keeps(svc, s)
      /\ s.okStreak = svc.okStreak /\ s.failStreak = svc.failStreak
      /\ s.restAge = svc.restAge /\ s.recording = svc.recording
      /\ ~s.exc /\ s.presenceOnline => ~RestOffline(svc, loopAge)
  BY <1>1, RefreshRestHealthEffect
<1>3. Later(0, loopAge, PollHorizon) \in Ages(PollHorizon)
  BY ConstantTypes, LaterType DEF Ages
<1> HIDE DEF s
<1>4. s \in ServiceFields
  BY <1>2 DEF Keeps
<1>5. /\ svc' \in ServiceFields /\ svc'.exc = s.exc
      /\ svc'.connected = s.connected /\ svc'.presenceOnline = s.presenceOnline
      /\ svc'.restAlive = s.restAlive /\ svc'.restAge = s.restAge
      /\ svc'.failStreak = s.failStreak /\ svc'.okStreak = s.okStreak
      /\ svc'.outbox = s.outbox /\ svc'.recording = s.recording
  BY <1>1, <1>3, <1>4 DEF ServiceFields
<1>6. pc' \in {"crashed", "poll", "publish"} /\ (svc'.exc <=> pc' = "crashed")
  BY <1>1, <1>5 DEF ServiceFields
<1>7. StreaksCount' /\ streak' \in -3..2 /\ clean' \in BOOLEAN
  BY <1>1, <1>2, <1>5, StreaksStay
<1>8. TypeOK'
  BY <1>1, <1>5, <1>6, <1>7 DEF TypeOK, Environment, LoopPcs, EndPcs
<1>9. Phases'
  BY <1>1, <1>6 DEF Phases, Environment, Running, LoopPcs
<1>10. (Running => Sound(svc))'
  <2>1. ~s.exc => Sound(s)
    BY <1>1, <1>2 DEF Keeps
  <2>2. Running' => ~s.exc
    BY <1>5, <1>6 DEF Running, LoopPcs
  <2> QED BY <1>5, <2>1, <2>2 DEF Sound
<1>11. BrokerAgrees'
  <2>1. Agree(s)
    BY <1>2 DEF Keeps
  <2> QED BY <1>1, <1>5, <2>1 DEF BrokerAgrees, Agree, View, Environment
<1>12. OnlineIsRecent'
  <2> SUFFICES ASSUME pc' = "poll", svc'.presenceOnline
               PROVE  /\ svc'.restAge # Never
                      /\ svc'.restAge - loopAge' <= (IF svc'.recording THEN 3 ELSE 1) * PresenceTimeout
    BY DEF OnlineIsRecent
  <2>1. ~RestOffline(svc, loopAge)
    BY <1>2, <1>5, <1>6
  <2>2. /\ svc.restAge # Never
        /\ ~(RestAge(svc, loopAge) > (IF svc.recording THEN 3 * PresenceTimeout
                                                       ELSE PresenceTimeout))
    BY <2>1 DEF RestOffline
  <2>3. svc.restAge \in Nat /\ PresenceTimeout \in Nat
    BY <2>2, ConstantTypes DEF ServiceFields, Ages
  <2>4. /\ svc'.restAge = svc.restAge /\ svc'.recording = svc.recording
        /\ loopAge' = loopAge
    BY <1>1, <1>2, <1>5
  <2>5. /\ svc.recording => RestAge(svc, loopAge) <= 3 * PresenceTimeout
        /\ ~svc.recording => RestAge(svc, loopAge) <= PresenceTimeout
    BY <2>2, <2>3 DEF RestAge
  <2>6. svc.restAge - loopAge <= RestAge(svc, loopAge)
    BY <2>3 DEF RestAge
  <2>7. CASE svc.recording
    <3>1. svc.restAge - loopAge <= 3 * PresenceTimeout
      BY <2>3, <2>5, <2>6, <2>7 DEF RestAge
    <3> QED BY <2>2, <2>4, <2>7, <3>1
  <2>8. CASE ~svc.recording
    <3>1. svc.restAge - loopAge <= 1 * PresenceTimeout
      BY <2>3, <2>5, <2>6, <2>8 DEF RestAge
    <3> QED BY <2>2, <2>4, <2>8, <3>1
  <2> QED BY <2>7, <2>8
<1>13. CleanStopLeavesOffline'
  BY <1>6 DEF CleanStopLeavesOffline
<1>14. Turn
  BY <1>2, <1>5, <1>7 DEF Keeps, Turn, StreaksCount
<1> QED BY <1>7, <1>8, <1>9, <1>10, <1>11, <1>12, <1>13, <1>14 DEF IInv

\* A step of another kind: what has to be shown beyond the streaks, from the
\* facts that the service's presence does not turn on and is sound.
LEMMA OtherStep ==
    ASSUME IInv, TypeOK', Phases', StreaksCount',
           Running' => Sound(svc'), Agree(svc)',
           pc' = "poll" => pc = "poll" /\ loopAge' = loopAge,
           pc' = "poll" /\ svc'.presenceOnline =>
               /\ svc.presenceOnline /\ svc'.restAge = svc.restAge
               /\ svc'.recording = svc.recording,
           pc' = "stopped" => ~retained',
           svc'.presenceOnline => svc.presenceOnline
    PROVE  IInv' /\ Turn
<1>1. BrokerAgrees'
  BY DEF BrokerAgrees
<1>2. OnlineIsRecent'
  BY DEF IInv, OnlineIsRecent
<1>3. CleanStopLeavesOffline'
  BY DEF CleanStopLeavesOffline
<1>4. Turn
  BY DEF Turn
<1>5. (Running => Sound(svc))'
  BY DEF Sound
<1> QED BY <1>1, <1>2, <1>3, <1>4, <1>5 DEF IInv

\* TopConnect and Subscribe move the program counter; ConnectSucceeds also
\* brings the link up, under a service that is not connected.
LEMMA ConnectSteps ==
    ASSUME IInv, NEW d \in Durations,
           TopConnect \/ Subscribe \/ ConnectSucceeds(d)
    PROVE  IInv' /\ Turn
<1> USE Before
<1>1. d \in Nat
  BY ConstantTypes
<1>2. /\ Running /\ Unobserved /\ UNCHANGED <<cb, stop, retained, calls>>
      /\ svc' = svc \/ svc' = Elapse(svc, d)
      /\ loopAge' = loopAge \/ loopAge' = loopAge + d
      /\ pc' \in {"connecting", "subscribing", "subscribed"}
      /\ link' = link \/ (link' = "up" /\ cb = "idle")
  BY DEF TopConnect, Subscribe, ConnectSucceeds, Running, LoopPcs, Environment
<1>3. ~svc.connected
  BY DEF TopConnect, Subscribe, ConnectSucceeds, Phases
<1>4. /\ svc' \in ServiceFields
      /\ svc'.connected = svc.connected /\ svc'.presenceOnline = svc.presenceOnline
      /\ svc'.failStreak = svc.failStreak /\ svc'.okStreak = svc.okStreak
      /\ svc'.exc = svc.exc /\ (Sound(svc) <=> Sound(svc'))
  <2>1. CASE svc' = svc
    BY <2>1
  <2>2. CASE svc' = Elapse(svc, d)
    <3>1. svc \in ServiceFields
      OBVIOUS
    <3> QED BY ONLY <1>1, <2>2, <3>1, TimePasses
  <2> QED BY <1>2, <2>1, <2>2
<1>5. StreaksCount' /\ streak' \in -3..2 /\ clean' \in BOOLEAN
  BY <1>2, <1>4, StreaksStay
<1>6. loopAge' \in Nat
  BY <1>1, <1>2
<1>7. TypeOK'
  BY <1>2, <1>4, <1>5, <1>6 DEF TypeOK, LoopPcs
<1>8. Phases'
  BY <1>2, <1>3, <1>4 DEF Phases
<1>9. Agree(svc)'
  BY <1>3, <1>4 DEF Agree
<1>10. Sound(svc')
  BY <1>2, <1>4
<1>11. pc' # "poll" /\ pc' # "stopped"
  BY <1>2
<1> QED BY <1>4, <1>5, <1>7, <1>8, <1>9, <1>10, <1>11, OtherStep

\* connect_once: the reset stamp lets the first presence through, and with
\* the streak at zero that presence is offline.
LEMMA EstablishStep ==
    ASSUME IInv, Establish
    PROVE  IInv' /\ Turn
<1> USE Before
<1> DEFINE r == ResetSession(svc)
           p == UpdatePresenceState(r, 0)
           u == PublishStatus(p)
<1>1. /\ Running /\ Environment /\ UNCHANGED <<loopAge, calls>>
      /\ svc' = [u EXCEPT !.exc = FALSE]
      /\ pc' = (IF u.exc THEN "enter" ELSE "selftest")
      /\ streak' = 0 /\ clean' = TRUE
  BY DEF Establish, Running, LoopPcs
<1>2. /\ Never \in Ages(RestHorizon) /\ Never \in Ages(MinPublishInterval)
      /\ 0 \in Ages(PollHorizon) /\ 0 \in 0..StreakCap /\ 0 \in Nat
  BY ConstantTypes DEF Ages
<1>3. /\ r \in ServiceFields /\ r.exc = svc.exc /\ r.okStreak = 0
      /\ r.failStreak = 0 /\ r.presenceOnline = FALSE /\ r.emitAge = Never
  BY <1>2 DEF ResetSession, ServiceFields
<1>4. ~r.exc
  BY <1>1, <1>3
<1> HIDE DEF r
<1>5. /\ p \in ServiceFields /\ PresenceOnly(r, p)
      /\ ~r.presenceOnline /\ p.presenceOnline => r.okStreak >= 2 /\ link # "down"
      /\ Agree(p)
  BY <1>2, <1>3, <1>4, UpdatePresenceStateEffect
<1>6. p.okStreak = 0 /\ p.failStreak = 0
  BY <1>3, <1>5, PresenceOnlyFields
<1>7. ~p.presenceOnline
  BY <1>3, <1>5
<1> HIDE DEF p
<1>8. u \in ServiceFields /\ u = [p EXCEPT !.exc = u.exc] /\ Agree(u)
  BY <1>5, PublishStatusEffect
<1> HIDE DEF u
<1>9. /\ svc' \in ServiceFields /\ svc'.exc = FALSE
      /\ svc'.okStreak = 0 /\ svc'.failStreak = 0
      /\ svc'.presenceOnline = FALSE
      /\ svc'.connected = u.connected /\ svc'.outbox = u.outbox
      /\ u.presenceOnline = FALSE
  BY <1>1, <1>5, <1>6, <1>7, <1>8 DEF ServiceFields
<1>10. StreaksCount'
  BY <1>1, <1>9 DEF StreaksCount
<1>11. pc' \in {"enter", "selftest"}
  BY <1>1
<1>12. TypeOK'
  BY <1>1, <1>9, <1>11 DEF TypeOK, Environment, LoopPcs
<1>13. Phases'
  BY <1>1, <1>9, <1>11 DEF Phases, Environment
<1>14. Agree(svc)'
  BY <1>1, <1>8, <1>9 DEF Agree, View, Environment
<1>15. Sound(svc')
  BY <1>9 DEF Sound
<1>16. pc' # "poll" /\ pc' # "stopped" /\ ~svc'.presenceOnline
  BY <1>9, <1>11
<1> QED BY <1>10, <1>12, <1>13, <1>14, <1>15, <1>16, OtherStep

\* The tail of run(): presence is off before disconnect() looks at it.
LEMMA ShutdownStep ==
    ASSUME IInv, NEW sensor \in BOOLEAN, Shutdown(sensor)
    PROVE  IInv' /\ Turn
<1> USE Before
<1> DEFINE s == IF sensor THEN UpdateLinkHealth(svc, 0) ELSE svc
           p == PublishPresence(s, FALSE)
           u == PublishStatus(p)
<1>1. /\ Running /\ Environment /\ Unobserved /\ UNCHANGED <<loopAge, calls>>
      /\ s.connected => svc' = u /\ pc' = (IF u.exc THEN "crashed" ELSE "disconnect")
      /\ ~s.connected => svc' = s /\ pc' = (IF s.exc THEN "crashed" ELSE "stopped_offline")
  BY DEF Shutdown, Continue, Running, LoopPcs
<1>2. s \in ServiceFields /\ s = [svc EXCEPT !.apiOk = s.apiOk]
  <2>1. CASE sensor
    BY <2>1, UpdateLinkHealthType DEF ServiceFields
  <2>2. CASE ~sensor
    BY <2>2 DEF ServiceFields
  <2> QED BY <2>1, <2>2
<1> HIDE DEF s
<1>3. /\ s.connected = svc.connected /\ s.presenceOnline = svc.presenceOnline
      /\ s.restAlive = svc.restAlive /\ s.restAge = svc.restAge
      /\ s.failStreak = svc.failStreak /\ s.okStreak = svc.okStreak
      /\ s.outbox = svc.outbox /\ s.exc = svc.exc
  BY <1>2 DEF ServiceFields
<1>4. ~s.exc
  BY <1>1, <1>3
<1>5. Agree(s)
  BY <1>3 DEF Agree, View
<1>6. /\ p \in ServiceFields /\ PresenceOnly(s, p)
      /\ p.exc => p.presenceOnline = s.presenceOnline /\ link = "down"
      /\ ~p.exc => p.presenceOnline = FALSE
      /\ Agree(p)
  BY <1>2, <1>4, <1>5, PublishPresenceEffect
<1>7. p.failStreak = s.failStreak /\ p.okStreak = s.okStreak
  BY <1>2, <1>6, PresenceOnlyFields
<1> HIDE DEF p
<1>8. /\ u \in ServiceFields /\ u = [p EXCEPT !.exc = u.exc]
      /\ p.exc => u.exc
      /\ Agree(u)
  BY <1>6, PublishStatusEffect
<1> HIDE DEF u
<1>9. /\ u.presenceOnline = p.presenceOnline /\ u.failStreak = s.failStreak
      /\ u.okStreak = s.okStreak /\ u.exc \in BOOLEAN
      /\ p.exc \in BOOLEAN /\ p.presenceOnline \in BOOLEAN
  BY <1>6, <1>7, <1>8 DEF ServiceFields
<1>10. /\ svc' \in ServiceFields
       /\ svc'.failStreak = svc.failStreak /\ svc'.okStreak = svc.okStreak
       /\ svc'.presenceOnline => svc.presenceOnline
  <2>1. CASE s.connected
    BY <1>1, <1>3, <1>6, <1>8, <1>9, <2>1
  <2>2. CASE ~s.connected
    BY <1>1, <1>2, <1>3, <2>2
  <2> QED BY <2>1, <2>2
<1>11. /\ pc' \in {"crashed", "disconnect", "stopped_offline"}
       /\ pc' = "disconnect" => svc' = u /\ ~u.exc
  BY <1>1, <1>4
<1>12. pc' = "disconnect" => ~svc'.presenceOnline /\ ~svc'.exc
  BY <1>6, <1>8, <1>9, <1>11
<1>13. StreaksCount' /\ streak' \in -3..2 /\ clean' \in BOOLEAN
  BY <1>1, <1>10, StreaksStay
<1>14. TypeOK'
  BY <1>1, <1>10, <1>11, <1>13 DEF TypeOK, Environment, LoopPcs, EndPcs
<1>15. Running' => pc' = "disconnect"
  BY <1>11 DEF Running, LoopPcs
<1>16. Phases'
  BY <1>1, <1>11, <1>12, <1>15 DEF Phases, Environment
<1>17. Agree(svc)'
  <2>1. Agree(svc')
    BY <1>1, <1>5, <1>8
  <2> QED BY <1>1, <2>1 DEF Agree, View, Environment
<1>18. Running' => Sound(svc')
  BY <1>12, <1>15 DEF Sound
<1>19. pc' # "poll" /\ pc' # "stopped"
  BY <1>11
<1> QED BY <1>10, <1>13, <1>14, <1>16, <1>17, <1>18, <1>19, OtherStep

\* disconnect(): the last message in flight is the presence "shutdown" left.
LEMMA DisconnectStep ==
    ASSUME IInv, Disconnect
    PROVE  IInv' /\ Turn
<1> USE Before
<1>1. Running /\ Unobserved /\ UNCHANGED <<loopAge, calls, cb, stop>> /\ pc = "disconnect"
  BY DEF Disconnect, Running, LoopPcs
<1>2. /\ svc.outbox \in Seq(BOOLEAN) /\ retained \in BOOLEAN
      /\ link \in {"up", "down"} /\ svc.presenceOnline \in BOOLEAN
  BY DEF TypeOK, ServiceFields
<1>3. CASE svc.connected /\ link = "up"
  <2>1. /\ pc' = "stopped" /\ link' = "down"
        /\ retained' = View(svc)
        /\ svc' = [svc EXCEPT !.connected = FALSE, !.okStreak = 0,
                              !.pollAge = Never, !.outbox = << >>]
    BY <1>3 DEF Disconnect, View
  <2>2. ~svc.presenceOnline
    BY <1>1, <1>3 DEF Phases
  <2>3. retained' = FALSE
    BY <1>2, <1>3, <2>1, <2>2 DEF Agree
  <2>4. /\ << >> \in Seq(BOOLEAN) /\ Never \in Ages(PollHorizon) /\ 0 \in 0..StreakCap
    BY ConstantTypes, EmptySeq DEF Ages
  <2>5. /\ svc' \in ServiceFields /\ svc'.connected = FALSE /\ svc'.okStreak = 0
        /\ svc'.failStreak = svc.failStreak /\ svc'.presenceOnline = svc.presenceOnline
    BY <2>1, <2>4 DEF ServiceFields
  <2>6. StreaksCount' /\ streak' \in -3..2 /\ clean' \in BOOLEAN
    BY <1>1, <2>5 DEF StreaksCount, Unobserved, TypeOK
  <2>7. TypeOK'
    BY <1>1, <2>1, <2>3, <2>5, <2>6 DEF TypeOK, EndPcs
  <2>8. Phases' /\ ~Running'
    BY <1>1, <2>1 DEF Phases, Running, LoopPcs
  <2>9. Agree(svc)'
    BY <2>1 DEF Agree
  <2> QED BY <2>1, <2>2, <2>3, <2>5, <2>6, <2>7, <2>8, <2>9, OtherStep
<1>4. CASE ~(svc.connected /\ link = "up")
  <2>1. pc' = "stopped_offline" /\ UNCHANGED <<svc, link, retained>>
    BY <1>4 DEF Disconnect
  <2>2. StreaksCount' /\ streak' \in -3..2 /\ clean' \in BOOLEAN
    BY <1>1, <2>1, StreaksStay
  <2>3. TypeOK'
    BY <1>1, <2>1, <2>2 DEF TypeOK, EndPcs
  <2>4. Phases' /\ ~Running'
    BY <1>1, <2>1 DEF Phases, Running, LoopPcs
  <2>5. Agree(svc)'
    BY <2>1 DEF Agree, View
  <2> QED BY <2>1, <2>2, <2>3, <2>4, <2>5, OtherStep
<1> QED BY <1>3, <1>4

\* The connection breaks: without a link there is nothing to agree with.
LEMMA LinkDropStep ==
    ASSUME IInv, LinkDrop
    PROVE  IInv' /\ Turn
<1> USE Before
<1>1. /\ Running /\ pc' = pc /\ link' = "down" /\ cb' = "lost"
      /\ svc' = [svc EXCEPT !.outbox = << >>]
      /\ UNCHANGED <<stop, retained, loopAge, calls, streak, clean>>
  BY DEF LinkDrop, MainUnchanged
<1>2. << >> \in Seq(BOOLEAN)
  BY EmptySeq
<1>3. /\ svc' \in ServiceFields /\ svc'.exc = svc.exc
      /\ svc'.connected = svc.connected /\ svc'.presenceOnline = svc.presenceOnline
      /\ svc'.restAlive = svc.restAlive /\ svc'.restAge = svc.restAge
      /\ svc'.failStreak = svc.failStreak /\ svc'.okStreak = svc.okStreak
      /\ svc'.recording = svc.recording
  BY <1>1, <1>2 DEF ServiceFields
<1>4. StreaksCount'
  BY <1>1, <1>3 DEF StreaksCount
<1>5. TypeOK'
  BY <1>1, <1>3 DEF TypeOK
<1>6. Phases'
  BY <1>1, <1>3 DEF Phases, Running
<1>7. Agree(svc)'
  BY <1>1 DEF Agree
<1>8. Sound(svc')
  BY <1>1, <1>3 DEF Sound
<1>9. pc' # "stopped"
  BY <1>1 DEF Running, LoopPcs
<1> QED BY <1>1, <1>3, <1>4, <1>5, <1>6, <1>7, <1>8, <1>9, OtherStep

\* connection_lost up to update_link_health: presence goes off.
LEMMA CbLostStep ==
    ASSUME IInv, CbLost
    PROVE  IInv' /\ Turn
<1> USE Before
<1> DEFINE a == [svc EXCEPT !.connected = FALSE, !.presenceOnline = FALSE,
                            !.okStreak = 0, !.pollAge = Never]
<1>1. /\ Running /\ pc' = pc /\ cb = "lost" /\ cb' = "tail"
      /\ svc' = UpdateLinkHealth(a, 0)
      /\ UNCHANGED <<link, stop, retained, loopAge, calls, streak, clean>>
  BY DEF CbLost, MainUnchanged, LoseSession
<1>2. a \in ServiceFields
  <2>1. Never \in Ages(PollHorizon) /\ 0 \in 0..StreakCap
    BY ConstantTypes DEF Ages
  <2> QED BY <2>1 DEF ServiceFields
<1>3. svc' \in ServiceFields /\ svc' = [a EXCEPT !.apiOk = ~RestOffline(a, 0)]
  BY <1>1, <1>2, UpdateLinkHealthType
<1>4. /\ svc'.connected = FALSE /\ svc'.presenceOnline = FALSE /\ svc'.okStreak = 0
      /\ svc'.failStreak = svc.failStreak /\ svc'.exc = svc.exc
  BY <1>3 DEF ServiceFields
<1>5. StreaksCount'
  BY <1>1, <1>4 DEF StreaksCount
<1>6. TypeOK'
  BY <1>1, <1>3 DEF TypeOK
<1>7. Phases'
  BY <1>1, <1>4 DEF Phases, Running
<1>8. Agree(svc)'
  BY <1>4 DEF Agree
<1>9. Sound(svc')
  BY <1>4 DEF Sound
<1>10. pc' # "stopped"
  BY <1>1 DEF Running, LoopPcs
<1> QED BY <1>1, <1>4, <1>5, <1>6, <1>7, <1>8, <1>9, <1>10, OtherStep

\* The end of connection_lost: there is still no link, so that even if
\* connected_ is set again presence cannot turn on.
LEMMA CbTailStep ==
    ASSUME IInv, CbTail
    PROVE  IInv' /\ Turn
<1> USE Before
<1>1. /\ Running /\ cb = "tail" /\ cb' = "idle"
      /\ svc' = UpdatePresenceState(svc, 0)
      /\ pc' = (IF svc'.exc THEN "crashed" ELSE pc)
      /\ UNCHANGED <<link, stop, retained, loopAge, calls, streak, clean>>
  BY DEF CbTail, Continue
<1>2. link = "down"
  BY <1>1 DEF Phases
<1>3. svc \in ServiceFields /\ ~svc.exc /\ Sound(svc) /\ Agree(svc)
  BY <1>1
<1>4. /\ svc' \in ServiceFields /\ PresenceOnly(svc, svc')
      /\ ~svc.presenceOnline /\ svc'.presenceOnline => link # "down"
      /\ Agree(svc')
  BY <1>1, <1>3, UpdatePresenceStateEffect
<1>5. /\ svc'.connected = svc.connected /\ svc'.restAlive = svc.restAlive
      /\ svc'.restAge = svc.restAge /\ svc'.failStreak = svc.failStreak
      /\ svc'.okStreak = svc.okStreak /\ svc'.recording = svc.recording
  BY <1>3, <1>4, PresenceOnlyFields
<1>6. svc'.presenceOnline => svc.presenceOnline
  BY <1>2, <1>4
<1>7. Running' => pc' = pc /\ ~svc'.exc
  BY <1>1 DEF Running, LoopPcs
<1>8. StreaksCount'
  BY <1>1, <1>5 DEF StreaksCount
<1>9. TypeOK'
  BY <1>1, <1>4 DEF TypeOK, EndPcs
<1>10. Phases'
  BY <1>1, <1>2, <1>5, <1>6, <1>7 DEF Phases
<1>11. Agree(svc)'
  BY <1>1, <1>2 DEF Agree
<1>12. Sound(svc')
  BY <1>3, <1>5, <1>6 DEF Sound
<1>13. pc' # "stopped" /\ (pc' = "poll" => pc = "poll")
  BY <1>1 DEF Running, LoopPcs
<1> QED BY <1>1, <1>5, <1>6, <1>8, <1>9, <1>10, <1>11, <1>12, <1>13, OtherStep

\* The broker takes the first message in flight: the last one stays last.
LEMMA DeliverStep ==
    ASSUME IInv, Deliver
    PROVE  IInv' /\ Turn
<1> USE Before
<1> DEFINE q == svc.outbox
<1>1. /\ Running /\ pc' = pc /\ link' = link /\ cb' = cb /\ q # << >>
      /\ retained' = Head(q)
      /\ svc' = [svc EXCEPT !.outbox = Tail(q)]
      /\ UNCHANGED <<stop, loopAge, calls, streak, clean>>
  BY DEF Deliver, MainUnchanged
<1>2. q \in Seq(BOOLEAN)
  BY DEF ServiceFields
<1>3. /\ Head(q) \in BOOLEAN /\ Tail(q) \in Seq(BOOLEAN)
      /\ Len(Tail(q)) = Len(q) - 1 /\ Len(q) \in Nat
      /\ \A i \in 1..Len(Tail(q)) : Tail(q)[i] = q[i + 1]
  BY <1>1, <1>2, HeadTailProperties, LenProperties
<1>4. /\ svc' \in ServiceFields /\ svc'.exc = svc.exc /\ svc'.outbox = Tail(q)
      /\ svc'.connected = svc.connected /\ svc'.presenceOnline = svc.presenceOnline
      /\ svc'.restAlive = svc.restAlive /\ svc'.restAge = svc.restAge
      /\ svc'.failStreak = svc.failStreak /\ svc'.okStreak = svc.okStreak
      /\ svc'.recording = svc.recording
  BY <1>1, <1>3 DEF ServiceFields
<1>5. StreaksCount'
  BY <1>1, <1>4 DEF StreaksCount
<1>6. TypeOK'
  BY <1>1, <1>3, <1>4 DEF TypeOK
<1>7. Phases'
  BY <1>1, <1>4 DEF Phases, Running
<1>8. (IF Tail(q) = << >> THEN Head(q) ELSE Tail(q)[Len(Tail(q))]) = q[Len(q)]
  <2> HIDE DEF q
  <2>0. Len(Tail(q)) \in Nat /\ (Tail(q) = << >> <=> Len(Tail(q)) = 0)
    BY <1>3, EmptySeq, LenProperties
  <2>1. CASE Tail(q) = << >>
    <3>1. Len(q) = 1
      BY <1>3, <2>0, <2>1
    <3> QED BY <1>2, <1>1, <2>1, <3>1, HeadTailProperties
  <2>2. CASE Tail(q) # << >>
    <3>1. Len(Tail(q)) # 0
      BY <2>0, <2>2
    <3>2. Len(Tail(q)) \in 1..Len(Tail(q)) /\ Len(Tail(q)) + 1 = Len(q)
      BY <1>3, <2>0, <3>1
    <3>3. Tail(q)[Len(Tail(q))] = q[Len(Tail(q)) + 1]
      BY <1>3, <3>2
    <3> QED BY <2>2, <3>2, <3>3
  <2> QED BY <2>1, <2>2
<1>9. Agree(svc)'
  BY <1>1, <1>4, <1>8 DEF Agree, View
<1>10. Sound(svc')
  BY <1>1, <1>4 DEF Sound
<1>11. pc' # "stopped"
  BY <1>1 DEF Running, LoopPcs
<1> QED BY <1>1, <1>4, <1>5, <1>6, <1>7, <1>9, <1>10, <1>11, OtherStep

\* The signal, the end of the process and what follows it.
LEMMA ProcessSteps ==
    ASSUME IInv, Signal \/ Kill \/ UNCHANGED vars
    PROVE  IInv' /\ Turn
<1> USE Before
<1>1. CASE Signal
  <2>1. /\ pc' = pc /\ stop' = TRUE /\ Running
        /\ UNCHANGED <<svc, link, cb, retained, loopAge, calls, streak, clean>>
    BY <1>1 DEF Signal, MainUnchanged
  <2>2. TypeOK' /\ StreaksCount'
    BY <2>1 DEF TypeOK, StreaksCount
  <2>3. Phases'
    BY <2>1 DEF Phases, Running
  <2>4. Agree(svc)'
    BY <2>1 DEF Agree, View
  <2>5. pc' # "stopped"
    BY <2>1 DEF Running, LoopPcs
  <2> QED BY <2>1, <2>2, <2>3, <2>4, <2>5, OtherStep
<1>2. CASE Kill
  <2>1. /\ pc' = "crashed" /\ link' = "down"
        /\ svc' = [svc EXCEPT !.outbox = << >>]
        /\ UNCHANGED <<cb, stop, retained, loopAge, calls, streak, clean>>
    BY <1>2 DEF Kill
  <2>2. << >> \in Seq(BOOLEAN)
    BY EmptySeq
  <2>3. /\ svc' \in ServiceFields /\ svc'.presenceOnline = svc.presenceOnline
        /\ svc'.failStreak = svc.failStreak /\ svc'.okStreak = svc.okStreak
    BY <2>1, <2>2 DEF ServiceFields
  <2>4. TypeOK' /\ StreaksCount'
    BY <2>1, <2>3 DEF TypeOK, StreaksCount, EndPcs
  <2>5. ~Running'
    BY <2>1 DEF Running, LoopPcs
  <2>6. Phases'
    BY <2>1, <2>5 DEF Phases
  <2>7. Agree(svc)'
    BY <2>1 DEF Agree
  <2> QED BY <2>1, <2>3, <2>4, <2>5, <2>6, <2>7, OtherStep
<1>3. CASE UNCHANGED vars
  <2>1. /\ pc' = pc /\ svc' = svc /\ link' = link /\ cb' = cb /\ stop' = stop
        /\ retained' = retained /\ loopAge' = loopAge /\ calls' = calls
        /\ streak' = streak /\ clean' = clean
    BY <1>3 DEF vars
  <2>2. TypeOK' /\ StreaksCount'
    BY <2>1 DEF TypeOK, StreaksCount
  <2>3. Phases' /\ (Running' <=> Running)
    BY <2>1 DEF Phases, Running
  <2>4. Agree(svc)'
    BY <2>1 DEF Agree, View
  <2>5. pc' = "stopped" => ~retained'
    BY <2>1 DEF IInv, CleanStopLeavesOffline
  <2> QED BY <2>1, <2>2, <2>3, <2>4, <2>5, OtherStep
<1> QED BY <1>1, <1>2, <1>3

-----------------------------------------------------------------------------
(* The theorems.                                                            *)

LEMMA InitIInv == Init => IInv
<1> SUFFICES ASSUME Init PROVE IInv
  OBVIOUS
<1>1. /\ Never \in Ages(RestHorizon) /\ Never \in Ages(MinPublishInterval)
      /\ Never \in Ages(PollHorizon) /\ 0 \in 0..StreakCap /\ 0 \in 0..MaxDrain
      /\ << >> \in Seq(BOOLEAN)
  BY ConstantTypes, BoundAssumption, EmptySeq DEF Ages
<1>2. svc \in ServiceFields
  BY <1>1 DEF Init, ServiceFields
<1>3. TypeOK
  <2>1. /\ link = "down" /\ cb = "idle" /\ pc = "top" /\ loopAge = 0 /\ calls = 0
        /\ stop = FALSE /\ retained \in BOOLEAN /\ streak = 0 /\ clean = TRUE
    BY DEF Init
  <2>2. 0 \in Nat /\ 0 \in -3..2
    OBVIOUS
  <2>3. calls \in 0..MaxDrain /\ loopAge \in Nat /\ streak \in -3..2
    BY <1>1, <2>1, <2>2
  <2>4. pc \in LoopPcs
    BY <2>1 DEF LoopPcs
  <2> QED BY <1>2, <2>1, <2>3, <2>4 DEF TypeOK
<1>4. Phases /\ StreaksCount
  BY DEF Init, Phases, StreaksCount
<1>5. Sound(svc) /\ Agree(svc)
  BY DEF Init, Sound, Agree
<1>6. OnlineIsRecent /\ CleanStopLeavesOffline
  BY DEF Init, OnlineIsRecent, CleanStopLeavesOffline
<1> QED BY <1>3, <1>4, <1>5, <1>6 DEF IInv, BrokerAgrees

LEMMA NextIInv == IInv /\ [Next]_vars => IInv' /\ Turn
<1> SUFFICES ASSUME IInv, [Next]_vars PROVE IInv' /\ Turn
  OBVIOUS
<1>1. 0 \in Durations /\ TRUE \in BOOLEAN /\ 0 \in 0..1 /\ "idle" \in Replies
  BY BoundAssumption DEF Durations, Replies
<1>2. CASE \/ Top \/ Enter \/ DrainDone \/ Sense
           \/ \E d \in Durations : ConnectFails(d) \/ CommandWait(d)
           \/ \E due \in BOOLEAN : Publish(due)
           \/ \E e \in 0..1 : Sleep(e)
  BY <1>1, <1>2, QuietSteps
<1>3. CASE \/ \E r \in Replies, d \in Durations :
                 \/ Selftest(r, d) \/ Poll(r, d)
                 \/ \E status \in BOOLEAN : CommandGet(r, d, status)
           \/ \E ok \in BOOLEAN, d \in Durations, status \in BOOLEAN : CommandPost(ok, d, status)
  BY <1>1, <1>3, RestSteps
<1>4. CASE TopConnect \/ Subscribe \/ \E d \in Durations : ConnectSucceeds(d)
  BY <1>1, <1>4, ConnectSteps
<1>5. CASE Refresh
  BY <1>5, RefreshStep
<1>6. CASE Establish
  BY <1>6, EstablishStep
<1>7. CASE \E sensor \in BOOLEAN : Shutdown(sensor)
  BY <1>7, ShutdownStep
<1>8. CASE Disconnect
  BY <1>8, DisconnectStep
<1>9. CASE LinkDrop
  BY <1>9, LinkDropStep
<1>10. CASE CbLost \/ CbTail
  BY <1>10, CbLostStep, CbTailStep
<1>11. CASE Deliver
  BY <1>11, DeliverStep
<1>12. CASE Signal \/ Kill \/ Ended \/ UNCHANGED vars
  BY <1>12, ProcessSteps DEF Ended
<1> QED BY <1>2, <1>3, <1>4, <1>5, <1>6, <1>7, <1>8, <1>9, <1>10, <1>11, <1>12
        DEF Next, Main, Callback

\* IInv is an invariant: the streak counters never overstate the replies seen,
\* presence is never on over a REST side taken for dead, and no link exists
\* while connection_lost is due or running.
THEOREM Invariance == Spec => []IInv
<1>1. IInv /\ [Next]_vars => IInv'
  BY NextIInv
<1> QED BY InitIInv, <1>1, PTL DEF Spec

\* Every field keeps its type: ages stay within their horizons and the streaks
\* below the overflow guard of mark_rest_result, for every cap and timeout.
THEOREM TypeCorrect == Spec => []TypeOK
<1>1. IInv => TypeOK
  BY DEF IInv
<1> QED BY Invariance, <1>1, PTL

\* The broker's retained presence follows presence_online_ while the session
\* is up, across rate limiting, reconnects and restarts.
THEOREM BrokerFollows == Spec => []BrokerAgrees
<1>1. IInv => BrokerAgrees
  BY DEF IInv
<1> QED BY Invariance, <1>1, PTL

\* Three failed replies in a row leave presence_online_ off.
THEOREM FailuresTurnOffline == Spec => []ThreeFailuresOffline
<1>1. IInv => ThreeFailuresOffline
  <2> SUFFICES ASSUME IInv, Running, streak = -3 PROVE ~svc.presenceOnline
    BY DEF ThreeFailuresOffline
  <2>1. svc.failStreak \in 0..StreakCap
    BY DEF IInv, TypeOK, ServiceFields
  <2>2. svc.failStreak >= 3
    BY DEF IInv, StreaksCount
  <2>3. ~(svc.failStreak < FailLimit)
    BY <2>1, <2>2, ConstantTypes DEF FailLimit
  <2> QED BY <2>3 DEF IInv, Sound
<1> QED BY Invariance, <1>1, PTL

\* Presence that is online after refresh_rest_health rests on a recent success.
THEOREM RecentWhenOnline == Spec => []OnlineIsRecent
<1>1. IInv => OnlineIsRecent
  BY DEF IInv
<1> QED BY Invariance, <1>1, PTL

\* A clean stop leaves the retained presence offline.
THEOREM StopLeavesOffline == Spec => []CleanStopLeavesOffline
<1>1. IInv => CleanStopLeavesOffline
  BY DEF IInv
<1> QED BY Invariance, <1>1, PTL

\* Presence turns online only on the second success in a row of a session.
THEOREM Hysteresis == Spec => OnlineNeedsTwoSuccesses
<1>1. IInv /\ [Next]_vars => [~svc.presenceOnline /\ svc'.presenceOnline => streak' = 2]_vars
  BY NextIInv DEF Turn
<1> QED BY Invariance, <1>1, PTL DEF Spec, OnlineNeedsTwoSuccesses
=============================================================================
