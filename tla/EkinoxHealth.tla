---------------------------- MODULE EkinoxHealth ----------------------------
(***************************************************************************)
(* The presence and REST-health half of EkinoxService: the main loop, the  *)
(* MQTT session, the Paho callback thread that runs connection_lost beside *)
(* it, and the retained presence message the broker keeps.                 *)
(*                                                                         *)
(* A time stamp is represented by its age: how long ago it was taken, in   *)
(* ticks, saturated where no comparison of the code can tell more.  The    *)
(* argument now_ms of a C++ method is represented the same way, by na, the *)
(* age of the stamp it was given: 0 for a fresh mono_ms(), the length of   *)
(* the REST call for a stamp taken before the call, loopAge for the stamp  *)
(* that run() takes once per iteration.                                    *)
(***************************************************************************)
EXTENDS Integers, Sequences

CONSTANTS
    PresenceTimeout,     \* presence_timeout_
    MinPoll, MaxPoll,    \* the clamp of rest_poll_interval_
    MinPublishInterval,  \* kPresenceMinPublishInterval
    StreakCap,           \* numeric_limits<int>::max() of the two streaks
    MaxCall,             \* bound: ticks one REST call, connect or wait may take
    MaxDrain,            \* bound: REST calls and waits of one drain_commands()
    MaxOutbox            \* bound: presence messages in flight to the broker

ASSUME TimeAssumption ==
    /\ PresenceTimeout \in Nat \ {0}
    /\ MinPoll \in Nat \ {0} /\ MaxPoll \in Nat /\ MinPoll <= MaxPoll
    /\ MinPublishInterval \in Nat
ASSUME StreakAssumption == StreakCap \in Nat /\ StreakCap >= 3
ASSUME BoundAssumption ==
    /\ MaxCall \in Nat /\ MaxDrain \in Nat
    /\ MaxOutbox \in Nat \ {0}

Never == -1              \* a stamp that is still 0 (or next_rest_poll_ms_ = 0)

RestPollInterval ==
    LET half == PresenceTimeout \div 2
    IN  IF half < MinPoll THEN MinPoll
        ELSE IF half > MaxPoll THEN MaxPoll ELSE half

LoopMax == MaxCall * (MaxDrain + 3)   \* connect, self-test, drain and poll
RestHorizon == 3 * PresenceTimeout + LoopMax + 1
PollHorizon == RestPollInterval + LoopMax

\* What a GET of the data logger can answer: a 2xx with a recording flag set
\* or clear, a 2xx without one, a 404, any other failure.
Replies == {"recording", "idle", "noflag", "notfound", "error"}
ReplyOk(r) == r \in {"recording", "idle", "noflag"}

VARIABLES
    svc,       \* the fields of EkinoxService this module is about
    link,      \* the TCP/MQTT connection under client_
    cb,        \* the callback thread: where it is in connection_lost
    pc,        \* the main thread: where it is in run()
    loopAge,   \* age of the now / now_ms that run() took at the loop's top
    calls,     \* REST calls and waits of the current drain_commands()
    stop,      \* stop_flag, set by the signal handler
    retained,  \* the broker's retained presence: TRUE is "online"
    streak,    \* history: replies in a row with the same outcome in this MQTT
               \* session, counted up for successes and down for failures
    clean      \* history: every reply of this MQTT session was a success

vars == <<svc, link, cb, pc, loopAge, calls, stop, retained, streak, clean>>

Ages(cap) == {Never} \cup 0..cap

ServiceFields ==
    [ connected      : BOOLEAN,               \* connected_
      presenceOnline : BOOLEAN,               \* presence_online_
      restAlive      : BOOLEAN,               \* rest_alive_
      restAge        : Ages(RestHorizon),     \* last_rest_ok_ts_ms_
      failStreak     : 0..StreakCap,          \* rest_fail_streak_
      okStreak       : 0..StreakCap,          \* rest_success_streak_
      recording      : BOOLEAN,               \* status_.recording_active
      apiOk          : BOOLEAN,               \* status_.api_ok
      emitAge        : Ages(MinPublishInterval), \* last_presence_emit_ts_ms_
      pollAge        : Ages(PollHorizon),     \* next_rest_poll_ms_, less interval
      outbox         : Seq(BOOLEAN),          \* presence publishes in flight
      exc            : BOOLEAN ]              \* an mqtt::exception is in flight

LoopPcs == {"top", "connecting", "subscribing", "subscribed", "selftest",
            "enter", "drain", "sense", "refresh", "poll", "publish", "sleep",
            "shutdown", "disconnect"}
EndPcs == {"stopped", "stopped_offline", "crashed"}

TypeOK ==
    /\ svc \in ServiceFields
    /\ link \in {"up", "down"}
    /\ cb \in {"idle", "lost", "tail"}
    /\ pc \in LoopPcs \cup EndPcs
    /\ loopAge \in Nat
    /\ calls \in 0..MaxDrain
    /\ stop \in BOOLEAN
    /\ retained \in BOOLEAN
    /\ streak \in -3..2
    /\ clean \in BOOLEAN

Running == pc \in LoopPcs

-----------------------------------------------------------------------------
(* The methods of EkinoxService, as functions from the service's fields to  *)
(* the service's fields.                                                    *)

Later(age, d, cap) ==
    IF age = Never THEN Never
    ELSE IF age + d > cap THEN cap ELSE age + d

Elapse(s, d) ==
    [s EXCEPT !.restAge = Later(@, d, RestHorizon),
              !.emitAge = Later(@, d, MinPublishInterval),
              !.pollAge = Later(@, d, PollHorizon)]

\* Mutant: the streak is not guarded against overflow.
IncUnguarded(n) == n + 1

Inc(n) == IF n < StreakCap THEN n + 1 ELSE n

\* rest_age_ms for a service that has a last success.
RestAge(s, na) == IF s.restAge < na THEN 0 ELSE s.restAge - na

\* Mutant: off by one.
FailLimitPlusOne == 4

FailLimit == 3

RestOffline(s, na) ==
    \/ s.failStreak >= FailLimit
    \/ s.restAge = Never
    \/ RestAge(s, na) > (IF s.recording THEN 3 * PresenceTimeout
                                        ELSE PresenceTimeout)

UpdateLinkHealth(s, na) == [s EXCEPT !.apiOk = ~RestOffline(s, na)]

RateLimited(s, online) ==
    /\ s.presenceOnline = online
    /\ s.emitAge # Never
    /\ s.emitAge < MinPublishInterval

PublishPresence(s, online) ==
    IF ~s.connected THEN [s EXCEPT !.presenceOnline = online]
    ELSE IF RateLimited(s, online) THEN s
    ELSE IF link = "down" THEN [s EXCEPT !.exc = TRUE]
    ELSE [s EXCEPT !.presenceOnline = online,
                   !.emitAge = 0,
                   !.outbox = Append(@, online)]

\* publish_status and publish_heartbeat: no presence effect, but they throw
\* when connected_ is set and the connection is gone.
PublishStatus(s) ==
    IF ~s.exc /\ s.connected /\ link = "down" THEN [s EXCEPT !.exc = TRUE] ELSE s

ReadyForOnline(s) == s.okStreak >= 2 \/ s.presenceOnline

UpdatePresenceState(s, na) ==
    PublishPresence(s, s.connected /\ ~RestOffline(s, na) /\ ReadyForOnline(s))

\* Mutant: the fail streak survives a success.
RestSuccessKeepsFailures(s, na) ==
    LET t == [s EXCEPT !.restAlive = TRUE,
                       !.restAge = Later(0, na, RestHorizon),
                       !.okStreak = Inc(@)]
    IN  UpdatePresenceState(UpdateLinkHealth(t, na), na)

RestSuccess(s, na) ==
    LET t == [s EXCEPT !.restAlive = TRUE,
                       !.restAge = Later(0, na, RestHorizon),
                       !.failStreak = 0,
                       !.okStreak = Inc(@)]
    IN  UpdatePresenceState(UpdateLinkHealth(t, na), na)

\* Mutant: the success streak survives a failure.
RestFailureKeepsStreak(s, na) ==
    LET t == [s EXCEPT !.failStreak = Inc(@)]
        u == UpdateLinkHealth([t EXCEPT !.restAlive = ~RestOffline(t, na)], na)
    IN  IF RestOffline(t, na) THEN UpdatePresenceState(u, na) ELSE u

\* Mutant: any failure clears rest_alive_.
RestFailureNotAlive(s, na) ==
    LET t == [s EXCEPT !.failStreak = Inc(@), !.okStreak = 0, !.restAlive = FALSE]
        u == UpdateLinkHealth(t, na)
    IN  IF RestOffline(t, na) THEN UpdatePresenceState(u, na) ELSE u

RestFailure(s, na) ==
    LET t == [s EXCEPT !.failStreak = Inc(@), !.okStreak = 0]
        u == UpdateLinkHealth([t EXCEPT !.restAlive = ~RestOffline(t, na)], na)
    IN  IF RestOffline(t, na) THEN UpdatePresenceState(u, na) ELSE u

MarkRestResult(s, ok, na) == IF ok THEN RestSuccess(s, na) ELSE RestFailure(s, na)

RequestLoggerState(s, r, na) ==
    LET m == MarkRestResult(s, ReplyOk(r), na)
    IN  IF m.exc \/ r \in {"noflag", "error"} THEN m
        ELSE [m EXCEPT !.recording = (r = "recording")]

RefreshRestHealth(s, na) ==
    IF ~RestOffline(s, na) THEN [s EXCEPT !.restAlive = TRUE]
    ELSE IF ~s.restAlive THEN s
    ELSE UpdatePresenceState(UpdateLinkHealth([s EXCEPT !.restAlive = FALSE], na), na)

\* Mutant: last_presence_emit_ts_ms_ survives the reconnect.
ResetSessionKeepsEmit(s) ==
    [s EXCEPT !.connected = TRUE, !.presenceOnline = FALSE, !.apiOk = FALSE,
              !.recording = FALSE, !.restAlive = FALSE, !.restAge = Never,
              !.failStreak = 0, !.okStreak = 0, !.pollAge = 0]

\* The assignments of connect_once after the subscriptions.
ResetSession(s) ==
    [s EXCEPT !.connected = TRUE,
              !.presenceOnline = FALSE,
              !.apiOk = FALSE,
              !.recording = FALSE,
              !.restAlive = FALSE,
              !.restAge = Never,
              !.failStreak = 0,
              !.okStreak = 0,
              !.emitAge = Never,
              !.pollAge = 0]

\* The first half of connection_lost, up to update_link_health.
LoseSession(s) ==
    UpdateLinkHealth([s EXCEPT !.connected = FALSE,
                               !.presenceOnline = FALSE,
                               !.okStreak = 0,
                               !.pollAge = Never], 0)

-----------------------------------------------------------------------------
Init ==
    /\ svc = [ connected |-> FALSE, presenceOnline |-> FALSE, restAlive |-> FALSE,
               restAge |-> Never, failStreak |-> 0, okStreak |-> 0,
               recording |-> FALSE, apiOk |-> FALSE, emitAge |-> Never,
               pollAge |-> Never, outbox |-> << >>, exc |-> FALSE ]
    /\ link = "down"
    /\ cb = "idle"
    /\ pc = "top"
    /\ loopAge = 0
    /\ calls = 0
    /\ stop = FALSE
    /\ retained \in BOOLEAN     \* whatever an earlier run left at the broker
    /\ streak = 0
    /\ clean = TRUE

\* Bound: a step that may publish presence waits for room in the outbox.
Room == Len(svc.outbox) < MaxOutbox

\* An exception leaves run(): nothing catches it, so the process terminates.
Continue(s, next) ==
    /\ svc' = s
    /\ pc' = IF s.exc THEN "crashed" ELSE next

\* History of the replies.
Observe(ok) ==
    /\ streak' = IF ok THEN (IF streak < 0 THEN 1 ELSE IF streak < 2 THEN streak + 1 ELSE 2)
                 ELSE (IF streak > 0 THEN -1 ELSE IF streak > -3 THEN streak - 1 ELSE -3)
    /\ clean' = (clean /\ ok)
Unobserved == UNCHANGED <<streak, clean>>

Environment == UNCHANGED <<link, cb, stop, retained>>

(* ------------------------------ main thread ---------------------------- *)

\* Mutant: stop_flag is looked at only while connected.
TopWhileConnected ==
    /\ pc = "top"
    /\ pc' = IF stop /\ svc.connected THEN "shutdown" ELSE "enter"
    /\ UNCHANGED <<svc, loopAge, calls>> /\ Unobserved /\ Environment

\* while (!stop_flag) ... ensure_connection: the attempt is not yet due, or
\* there is a connection already.
Top ==
    /\ pc = "top"
    /\ pc' = IF stop THEN "shutdown" ELSE "enter"
    /\ UNCHANGED <<svc, loopAge, calls>> /\ Unobserved /\ Environment

\* ensure_connection: the back-off has passed.
TopConnect ==
    /\ pc = "top" /\ ~stop /\ ~svc.connected
    /\ pc' = "connecting"
    /\ UNCHANGED <<svc, loopAge, calls>> /\ Unobserved /\ Environment

\* connect_once: connect()->wait() or a subscription throws.
ConnectFails(d) ==
    /\ \/ pc = "connecting"
       \/ pc = "subscribing" /\ link = "down"
    /\ pc' = "enter"
    /\ svc' = Elapse(svc, d)
    /\ loopAge' = loopAge + d
    /\ UNCHANGED calls /\ Unobserved /\ Environment

\* CONNACK is handled by the thread that runs the callbacks, so a connect
\* cannot complete while connection_lost is still running.
ConnectSucceeds(d) ==
    /\ pc = "connecting" /\ cb = "idle"
    /\ pc' = "subscribing"
    /\ link' = "up"
    /\ svc' = Elapse(svc, d)
    /\ loopAge' = loopAge + d
    /\ UNCHANGED <<calls, cb, stop, retained>> /\ Unobserved

Subscribe ==
    /\ pc = "subscribing" /\ link = "up"
    /\ pc' = "subscribed"
    /\ UNCHANGED <<svc, loopAge, calls>> /\ Unobserved /\ Environment

\* From connected_ = true to the first publish_status; an exception is
\* caught by connect_once, which leaves connected_ as it is.
Establish ==
    /\ pc = "subscribed" /\ Room
    /\ LET s == PublishStatus(UpdatePresenceState(ResetSession(svc), 0))
       IN  /\ svc' = [s EXCEPT !.exc = FALSE]
           /\ pc' = IF s.exc THEN "enter" ELSE "selftest"
    /\ streak' = 0
    /\ clean' = TRUE
    /\ UNCHANGED <<loopAge, calls>> /\ Environment

\* connect_once: request_logger_state("connect.selftest") and publish_status.
Selftest(r, d) ==
    /\ pc = "selftest" /\ Room
    /\ LET s == PublishStatus(RequestLoggerState(Elapse(svc, d), r, d))
       IN  svc' = [s EXCEPT !.exc = FALSE]
    /\ pc' = "enter"
    /\ loopAge' = loopAge + d
    /\ Observe(ReplyOk(r))
    /\ UNCHANGED calls /\ Environment

\* if (connected_) ... else next_rest_poll_ms_ = 0.
Enter ==
    /\ pc = "enter"
    /\ IF svc.connected
       THEN pc' = "drain" /\ UNCHANGED svc
       ELSE pc' = "sleep" /\ svc' = [svc EXCEPT !.pollAge = Never]
    /\ UNCHANGED <<loopAge, calls>> /\ Unobserved /\ Environment

\* One REST call of a command handler.  The handlers check connected_ only
\* before their first call.  status: the handler publishes it after the call.
MayCall ==
    /\ pc = "drain" /\ Room
    /\ calls < MaxDrain
    /\ svc.connected \/ calls > 0

CommandGet(r, d, status) ==
    /\ MayCall
    /\ LET s == RequestLoggerState(Elapse(svc, d), r, d)
       IN  Continue(IF status THEN PublishStatus(s) ELSE s, "drain")
    /\ loopAge' = loopAge + d
    /\ calls' = calls + 1
    /\ Observe(ReplyOk(r)) /\ Environment

CommandPost(ok, d, status) ==
    /\ MayCall
    /\ LET s == MarkRestResult(Elapse(svc, d), ok, 0)
       IN  Continue(IF status THEN PublishStatus(s) ELSE s, "drain")
    /\ loopAge' = loopAge + d
    /\ calls' = calls + 1
    /\ Observe(ok) /\ Environment

\* A handler waits without a REST call: the verification sleep between two
\* GETs, or publish_ack for the PUBACK.  A broken connection ends the latter
\* with an exception that publish_ack catches.
CommandWait(d) ==
    /\ pc = "drain" /\ calls < MaxDrain
    /\ svc.connected \/ calls > 0
    /\ svc' = Elapse(svc, d)
    /\ loopAge' = loopAge + d
    /\ calls' = calls + 1
    /\ UNCHANGED pc /\ Unobserved /\ Environment

DrainDone ==
    /\ pc = "drain"
    /\ pc' = "sense"
    /\ UNCHANGED <<svc, loopAge, calls>> /\ Unobserved /\ Environment

\* ensure_sensor_session and poll_sensor: of this module's state they only
\* refresh api_ok, from the loop's stamp or from a fresh one, or leave it.
Sense ==
    /\ pc = "sense"
    /\ pc' = "refresh"
    /\ \/ UNCHANGED svc
       \/ \E na \in {0, loopAge} : svc' = UpdateLinkHealth(svc, na)
    /\ UNCHANGED <<loopAge, calls>> /\ Unobserved /\ Environment

\* Mutant: the next poll is put off by every iteration.
RefreshPutsOffPoll ==
    /\ pc = "refresh" /\ Room
    /\ LET s == RefreshRestHealth(svc, loopAge)
           t == [s EXCEPT !.pollAge = Later(0, loopAge, PollHorizon)]
       IN  Continue(t, IF t.pollAge - loopAge >= RestPollInterval
                       THEN "poll" ELSE "publish")
    /\ UNCHANGED <<loopAge, calls>> /\ Unobserved /\ Environment

\* refresh_rest_health(now_ms), then the decision whether to poll.
Refresh ==
    /\ pc = "refresh" /\ Room
    /\ LET s == RefreshRestHealth(svc, loopAge)
           t == IF s.pollAge = Never /\ ~s.exc
                THEN [s EXCEPT !.pollAge = Later(0, loopAge, PollHorizon)] ELSE s
       IN  Continue(t, IF t.pollAge - loopAge >= RestPollInterval
                       THEN "poll" ELSE "publish")
    /\ UNCHANGED <<loopAge, calls>> /\ Unobserved /\ Environment

\* request_logger_state("poll.timer", now_ms), with the loop's stamp.
Poll(r, d) ==
    /\ pc = "poll" /\ Room
    /\ LET na == loopAge + d
           s == RequestLoggerState(Elapse(svc, d), r, na)
       IN  /\ Continue(IF s.exc THEN s
                       ELSE [s EXCEPT !.pollAge = Later(0, na, PollHorizon)], "publish")
           /\ loopAge' = na
    /\ Observe(ReplyOk(r))
    /\ UNCHANGED calls /\ Environment

\* The periodic publish_status and publish_heartbeat, due or not.
Publish(due) ==
    /\ pc = "publish"
    /\ Continue(IF due THEN PublishStatus(svc) ELSE svc, "sleep")
    /\ UNCHANGED <<loopAge, calls>> /\ Unobserved /\ Environment

\* sleep_for(kLoopSleep), shorter than a tick; the next iteration begins by
\* taking a fresh stamp.
Sleep(d) ==
    /\ pc = "sleep"
    /\ pc' = "top"
    /\ svc' = Elapse(svc, d)
    /\ loopAge' = 0
    /\ calls' = 0
    /\ Unobserved /\ Environment

\* Mutant: the presence "shutdown" is not published.
ShutdownSilent(sensor) ==
    /\ pc = "shutdown" /\ Room
    /\ LET s == IF sensor THEN UpdateLinkHealth(svc, 0) ELSE svc
       IN  Continue(PublishStatus(s), IF s.connected THEN "disconnect" ELSE "stopped_offline")
    /\ UNCHANGED <<loopAge, calls>> /\ Unobserved /\ Environment

\* The tail of run().  sensor: sensor_connected_, handle_sensor_disconnect
\* then refreshes api_ok.
Shutdown(sensor) ==
    /\ pc = "shutdown" /\ Room
    /\ LET s == IF sensor THEN UpdateLinkHealth(svc, 0) ELSE svc
       IN  IF s.connected
           THEN Continue(PublishStatus(PublishPresence(s, FALSE)), "disconnect")
           ELSE Continue(s, "stopped_offline")
    /\ UNCHANGED <<loopAge, calls>> /\ Unobserved /\ Environment

\* disconnect(): the client sends what it has queued before DISCONNECT.
Disconnect ==
    /\ pc = "disconnect"
    /\ IF svc.connected /\ link = "up"
       THEN /\ pc' = "stopped"
            /\ link' = "down"
            /\ retained' = IF svc.outbox = << >> THEN retained
                           ELSE svc.outbox[Len(svc.outbox)]
            /\ svc' = [svc EXCEPT !.connected = FALSE, !.okStreak = 0,
                                  !.pollAge = Never, !.outbox = << >>]
       ELSE pc' = "stopped_offline" /\ UNCHANGED <<svc, link, retained>>
    /\ UNCHANGED <<loopAge, calls, cb, stop>> /\ Unobserved

(* ------------------- callback thread, broker, process ------------------ *)

MainUnchanged == UNCHANGED <<pc, loopAge, calls, streak, clean>>

\* The connection breaks: what is in flight is lost, connection_lost is due.
LinkDrop ==
    /\ Running /\ link = "up" /\ cb = "idle"
    /\ link' = "down"
    /\ cb' = "lost"
    /\ svc' = [svc EXCEPT !.outbox = << >>]
    /\ UNCHANGED <<stop, retained>> /\ MainUnchanged

CbLost ==
    /\ Running /\ cb = "lost"
    /\ svc' = LoseSession(svc)
    /\ cb' = "tail"
    /\ UNCHANGED <<link, stop, retained>> /\ MainUnchanged

\* update_presence_state(now_ms, "mqtt offline"): if connect_once has set
\* connected_ again meanwhile it publishes, and the exception has no handler.
CbTail ==
    /\ Running /\ cb = "tail"
    /\ Continue(UpdatePresenceState(svc, 0), pc)
    /\ cb' = "idle"
    /\ UNCHANGED <<link, stop, retained, loopAge, calls, streak, clean>>

Deliver ==
    /\ Running /\ link = "up" /\ svc.outbox # << >>
    /\ retained' = Head(svc.outbox)
    /\ svc' = [svc EXCEPT !.outbox = Tail(@)]
    /\ UNCHANGED <<link, cb, stop>> /\ MainUnchanged

Signal ==
    /\ Running /\ ~stop
    /\ stop' = TRUE
    /\ UNCHANGED <<svc, link, cb, retained>> /\ MainUnchanged

\* The process is killed or loses power.  The connection options carry no
\* will, so the broker keeps the retained presence as it is.
Kill ==
    /\ Running
    /\ pc' = "crashed"
    /\ link' = "down"
    /\ svc' = [svc EXCEPT !.outbox = << >>]
    /\ UNCHANGED <<cb, stop, retained, loopAge, calls, streak, clean>>

Ended == ~Running /\ UNCHANGED vars

-----------------------------------------------------------------------------
Durations == 0..MaxCall

Main ==
    \/ Top \/ TopConnect \/ Subscribe \/ Establish \/ Enter
    \/ DrainDone \/ Sense \/ Refresh \/ Disconnect
    \/ \E d \in Durations : ConnectFails(d) \/ ConnectSucceeds(d) \/ CommandWait(d)
    \/ \E r \in Replies, d \in Durations :
          \/ Selftest(r, d)
          \/ Poll(r, d)
          \/ \E status \in BOOLEAN : CommandGet(r, d, status)
    \/ \E ok \in BOOLEAN, d \in Durations, status \in BOOLEAN : CommandPost(ok, d, status)
    \/ \E due \in BOOLEAN : Publish(due)
    \/ \E d \in 0..1 : Sleep(d)
    \/ \E sensor \in BOOLEAN : Shutdown(sensor)

Callback == CbLost \/ CbTail

Next == Main \/ Callback \/ LinkDrop \/ Deliver \/ Signal \/ Kill \/ Ended

Spec == Init /\ [][Next]_vars
-----------------------------------------------------------------------------
(* Safety.                                                                  *)

\* What a subscriber sees once the messages in flight have arrived.
View(s) == IF s.outbox = << >> THEN retained ELSE s.outbox[Len(s.outbox)]
Agree(s) == s.connected /\ link = "up" => View(s) = s.presenceOnline

\* While the session is up, the broker's retained presence (once in-flight
\* publishes arrive) is the presence_online_ the service acts on: neither the
\* rate limit of publish_presence nor a reconnect to a broker that still holds
\* "online" from an earlier session or process leaves them apart.
BrokerAgrees == Agree(svc)

\* Presence turns online only after two successful replies in a row within the
\* current MQTT session: no success of an earlier session, no reply before a
\* failure and no thread interleaving shortens the hysteresis.
OnlineNeedsTwoSuccesses ==
    [][~svc.presenceOnline /\ svc'.presenceOnline => streak' = 2]_vars

\* After three failed replies in a row presence_online_ is off, in a recording
\* too (the grace of rest_offline_condition covers silence, not failures).
ThreeFailuresOffline == Running /\ streak = -3 => ~svc.presenceOnline

\* When the loop has refreshed its health and presence is online, the last
\* success is recent: refresh_rest_health never takes its early return for an
\* outage already reported while presence still reads online.
OnlineIsRecent ==
    pc = "poll" /\ svc.presenceOnline =>
        /\ svc.restAge # Never
        /\ svc.restAge - loopAge <=
               (IF svc.recording THEN 3 ELSE 1) * PresenceTimeout

\* A stop request that finds the session up and disconnects cleanly leaves
\* "offline" at the broker, rate limit or not.
CleanStopLeavesOffline == pc = "stopped" => ~retained

\* The periodic status carries api_ok while every reply of the session has
\* been a success (docs/TEST_EKINOX_SERVICE.md, 4.4).
ApiOkWhileSensorReplies ==
    pc = "publish" /\ svc.connected /\ clean /\ streak > 0 => svc.apiOk

\* What the code keeps of it: so does the status of an iteration that took no
\* longer than the timeout less the poll interval, its REST calls, verification
\* sleeps and PUBACK waits included, however long the iterations before it took.
ApiOkWhenPrompt ==
    loopAge <= PresenceTimeout - RestPollInterval => ApiOkWhileSensorReplies

(* The inductive invariant behind the safety properties.                    *)

\* connect_once runs without a session; while connection_lost is due or
\* running there is no connection; no exception is in flight between steps.
Phases ==
    /\ pc \in {"connecting", "subscribing", "subscribed"} => ~svc.connected
    /\ cb # "idle" => link = "down"
    /\ pc = "selftest" => ~svc.presenceOnline
    /\ Running => ~svc.exc
    /\ pc = "disconnect" /\ svc.connected /\ link = "up" => ~svc.presenceOnline

\* The streak counters of the service against the replies really seen.
StreaksCount ==
    /\ svc.okStreak >= 1 => streak >= 1
    /\ svc.okStreak >= 2 => streak = 2
    /\ streak < 0 => svc.failStreak >= -streak

\* presence_online_ is only ever set for a service whose REST side is alive.
Sound(s) ==
    s.presenceOnline => /\ s.connected /\ s.restAlive
                        /\ s.failStreak < FailLimit
                        /\ s.restAge # Never

IInv ==
    /\ TypeOK
    /\ Phases
    /\ StreaksCount
    /\ Running => Sound(svc)
    /\ BrokerAgrees
    /\ OnlineIsRecent
    /\ CleanStopLeavesOffline

(* What ApiOkWhenPrompt rests on.                                            *)

Replying == svc.connected /\ clean /\ streak > 0

\* How old the loop's stamp can be, place by place.
StampAge ==
    /\ pc \in {"top", "connecting"} => loopAge = 0
    /\ pc \in {"subscribing", "subscribed", "selftest"} => loopAge <= MaxCall
    /\ pc = "enter" => loopAge <= 2 * MaxCall
    /\ pc \in {"drain", "sense", "refresh"} => loopAge <= 2 * MaxCall + MaxCall * calls

\* The last success is no older than the last poll's iteration.
SuccessAge == svc.pollAge = PollHorizon \/ svc.restAge <= svc.pollAge

PollDue == svc.pollAge - loopAge >= RestPollInterval

\* api_ok is set, or a poll is due that will set it; an iteration that ends
\* without either was a long one.
OkOrDue ==
    /\ pc \in {"top", "enter", "drain", "sense"} => svc.apiOk \/ PollDue
    /\ pc = "refresh" => svc.apiOk \/ PollDue \/ svc.pollAge > PresenceTimeout
    /\ pc = "publish" => svc.apiOk \/ loopAge > PresenceTimeout - RestPollInterval
    /\ pc \in {"publish", "sleep"} => svc.apiOk \/ svc.pollAge >= RestPollInterval

\* Every session has a poll deadline; a fresh one has seen no reply yet.
PollStamp ==
    svc.connected => /\ svc.pollAge # Never
                     /\ pc = "selftest" => svc.pollAge = 0 /\ streak = 0

Punctual ==
    /\ StampAge
    /\ Running => PollStamp
    /\ Running /\ Replying => /\ svc.failStreak = 0 /\ svc.restAge # Never
                              /\ SuccessAge /\ OkOrDue

(* Liveness.                                                                *)

\* The threads keep running; a sleep does take time and a back-off does end.
Fairness ==
    /\ WF_vars(Main)
    /\ WF_vars(Callback)
    /\ WF_vars(Deliver)
    /\ SF_vars(Sleep(1))
    /\ SF_vars(TopConnect)

FairSpec == Spec /\ Fairness

\* After the signal, run() returns (or the process dies): no wait of the main
\* loop, of a connect attempt or of the command drain outlasts stop_flag.
StopTerminates == stop ~> ~Running

\* If from some point on the connection holds and every reply is a success,
\* the broker reads "online" again and again.
PresenceRecovers ==
    <>[](Running /\ ~stop /\ link = "up" /\ streak > 0) => []<>retained

\* docs/ekinox_mqtt_contract.md: presence "broadcasts whether the service
\* process is alive", so a process that died while its own session announced it
\* online comes to read offline.
DeadReadsOffline ==
    pc = "crashed" /\ svc.connected /\ svc.presenceOnline ~> ~retained
=============================================================================
