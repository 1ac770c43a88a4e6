---------------------------- MODULE EkinoxSensor ----------------------------
(***************************************************************************)
(* The sensor half of EkinoxService: the UDP session to the Ekinox, the    *)
(* watchdog on its frames, the deferred reconnect of a recording, the      *)
(* back-off, and connection_lost, which closes the session on the callback *)
(* thread while the main loop may be using it.                             *)
(*                                                                         *)
(* Time is kept as in EkinoxHealth: ages of stamps, in ticks, saturated    *)
(* where no comparison can tell more; loopAge is the age of the stamp now  *)
(* that run() takes at the top of an iteration.  A time to wait is the     *)
(* ticks left until the time point, negative once it has passed.  The      *)
(* build is the one with sbgECom (DEKINOX_HAS_SBG = 1).                    *)
(***************************************************************************)
EXTENDS Integers

CONSTANTS
    RxTimeout,        \* udp_rx_timeout_ms
    FailThreshold,    \* udp_rx_fail_threshold
    OkThreshold,      \* udp_rx_ok_to_clear_threshold
    Backoff,          \* reconnect_backoff_ms
    BackoffMax,       \* reconnect_backoff_max_ms
    StreakCap,        \* numeric_limits<int>::max() of the two streaks
    MaxDrain          \* bound: ticks drain_commands() may take

\* What load_config lets pass: positive, but no order among the two back-offs.
ValidTimeout(v) == v \in Nat \ {0}

ASSUME ConfigAssumption ==
    /\ ValidTimeout(RxTimeout) /\ ValidTimeout(FailThreshold) /\ ValidTimeout(OkThreshold)
    /\ ValidTimeout(Backoff) /\ ValidTimeout(BackoffMax)
    /\ StreakCap \in Nat /\ StreakCap >= FailThreshold /\ StreakCap >= OkThreshold
    /\ MaxDrain \in Nat

Least(a, b) == IF a < b THEN a ELSE b
Most(a, b) == IF a < b THEN b ELSE a

LongestWait == Most(Backoff, BackoffMax)
RxHorizon == RxTimeout + MaxDrain + 1

\* What a GET of the data logger can answer, as in EkinoxHealth.
Replies == {"recording", "idle", "noflag", "notfound", "error"}

VARIABLES
    svc,      \* the fields of EkinoxService and EkinoxUdpSession
    net,      \* the sensor: "frames", "silent", or "broken" (calls fail)
    link,     \* the TCP/MQTT connection under client_
    cb,       \* the callback thread: where it is in connection_lost
    pc,       \* the main thread: where it is in run()
    loopAge,  \* age of run()'s now
    stop,     \* stop_flag
    misses,   \* history: polls of this session that found the frames overdue
    frameAge  \* history: age of the last frame at the previous iteration's
              \* now, until the drain is over

vars == <<svc, net, link, cb, pc, loopAge, stop, misses, frameAge>>

ServiceFields ==
    [ connected       : BOOLEAN,           \* connected_
      sensorConnected : BOOLEAN,           \* sensor_connected_
      needed          : BOOLEAN,           \* sensor_reconnect_needed_
      udpAlive        : BOOLEAN,           \* udp_link_alive_
      linkAlive       : BOOLEAN,           \* status_.link_alive
      recording       : BOOLEAN,           \* status_.recording_active
      failStreak      : 0..StreakCap,      \* rx_fail_streak_
      okStreak        : 0..StreakCap,      \* rx_ok_streak_
      errActive       : BOOLEAN,           \* rx_timeout_error_active_
      lastError       : {"none", "rx timeout", "other"},
      backoff         : 1..LongestWait,
      wait            : -MaxDrain..LongestWait, \* next_sensor_attempt_
      open            : BOOLEAN,           \* udp_session_->connected_
      rxAge           : 0..RxHorizon ]     \* udp_session_->last_rx_ms_

LoopPcs == {"top", "subscribed", "drain", "ensure", "opened", "poll",
            "handling", "handled", "rest", "publish", "sleep", "shutdown"}

TypeOK ==
    /\ svc \in ServiceFields
    /\ net \in {"frames", "silent", "broken"}
    /\ link \in {"up", "down"}
    /\ cb \in {"idle", "lost", "closing", "clearing"}
    /\ pc \in LoopPcs \cup {"stopped", "crashed"}
    /\ loopAge \in 0..MaxDrain
    /\ stop \in BOOLEAN
    /\ misses \in 0..FailThreshold
    /\ frameAge \in 0..RxHorizon

Running == pc \in LoopPcs

-----------------------------------------------------------------------------
(* The methods, as functions on the service's fields.                       *)

\* Mutant: the streaks are not guarded against overflow.
IncUnguarded(n) == n + 1

Inc(n) == IF n < StreakCap THEN n + 1 ELSE n

Elapse(s, d) == [s EXCEPT !.rxAge = Least(@ + d, RxHorizon),
                          !.wait = Most(@ - d, -MaxDrain)]

Backed(b) == Least(2 * b, BackoffMax)

UpdateLinkHealth(s) == [s EXCEPT !.linkAlive = s.sensorConnected /\ s.udpAlive]

SetError(s, what) == [s EXCEPT !.lastError = what, !.errActive = (what = "rx timeout")]

ClearRxTimeoutError(s) ==
    IF s.errActive
    THEN [s EXCEPT !.errActive = FALSE,
                   !.lastError = IF @ = "rx timeout" THEN "none" ELSE @]
    ELSE s

ResetStreaks(s) == ClearRxTimeoutError([s EXCEPT !.failStreak = 0, !.okStreak = 0])

\* Mutant: the session is closed but link_alive is left as it was.
HandleSensorDisconnectKeepsLink(s) ==
    [ResetStreaks(s) EXCEPT !.open = FALSE, !.sensorConnected = FALSE,
                            !.needed = FALSE, !.wait = s.backoff]

HandleSensorDisconnect(s) ==
    UpdateLinkHealth([ResetStreaks(s) EXCEPT !.open = FALSE,
                                             !.sensorConnected = FALSE,
                                             !.udpAlive = FALSE,
                                             !.needed = FALSE,
                                             !.wait = s.backoff])

\* Mutant: the watchdog does not look at the recording.
RxTimedOutRecordingIgnored(s, recording) ==
    LET t == UpdateLinkHealth([s EXCEPT !.failStreak = Inc(@), !.okStreak = 0,
                                        !.udpAlive = FALSE])
    IN  IF t.failStreak < FailThreshold THEN t ELSE HandleSensorDisconnect(t)

\* Mutant: below the threshold the watchdog gives up instead of counting.
RxTimedOutUncounted(s, recording) ==
    UpdateLinkHealth([s EXCEPT !.okStreak = 0, !.udpAlive = FALSE])

\* handle_sensor_rx_timeout
RxTimedOut(s, recording) ==
    LET t == UpdateLinkHealth([s EXCEPT !.failStreak = Inc(@), !.okStreak = 0,
                                        !.udpAlive = FALSE])
        u == IF t.failStreak >= FailThreshold /\ ~t.errActive
             THEN SetError(t, "rx timeout") ELSE t
    IN  IF u.failStreak < FailThreshold THEN u
        ELSE IF recording THEN [u EXCEPT !.needed = TRUE]
        ELSE HandleSensorDisconnect(u)

\* Mutant: udp_link_alive_ is not set again.
RxRecoveredSilent(s) ==
    [s EXCEPT !.okStreak = Inc(@), !.needed = FALSE]

\* handle_sensor_rx_recovered
RxRecovered(s) ==
    LET t == [s EXCEPT !.udpAlive = TRUE, !.okStreak = Inc(@)]
        u == IF t.okStreak >= OkThreshold /\ t.failStreak # 0
             THEN ClearRxTimeoutError([t EXCEPT !.failStreak = 0]) ELSE t
    IN  UpdateLinkHealth([u EXCEPT !.needed = FALSE])

\* request_logger_state, of this module's fields.  A success clears last_error
\* and leaves rx_timeout_error_active_ as it is.
LoggerReply(s, r) ==
    LET t == UpdateLinkHealth(s)
        u == IF r \in {"notfound", "error"} THEN SetError(t, "other")
             ELSE [t EXCEPT !.lastError = "none"]
    IN  IF r \in {"noflag", "error"} THEN u
        ELSE [u EXCEPT !.recording = (r = "recording")]

\* Mutant: a deferred reconnect survives the loss of the MQTT session.
ResetSessionKeepsNeeded(s) ==
    [s EXCEPT !.connected = TRUE, !.linkAlive = FALSE, !.recording = FALSE,
              !.udpAlive = FALSE]

\* The assignments of connect_once after the subscriptions.
ResetSession(s) ==
    [s EXCEPT !.connected = TRUE, !.linkAlive = FALSE, !.recording = FALSE,
              !.udpAlive = FALSE, !.needed = FALSE]

-----------------------------------------------------------------------------
Init ==
    /\ svc = [ connected |-> FALSE, sensorConnected |-> FALSE, needed |-> FALSE,
               udpAlive |-> FALSE, linkAlive |-> FALSE, recording |-> FALSE,
               failStreak |-> 0, okStreak |-> 0, errActive |-> FALSE,
               lastError |-> "none", backoff |-> Backoff, wait |-> 0,
               open |-> FALSE, rxAge |-> 0 ]
    /\ net \in {"frames", "silent", "broken"}
    /\ link = "down" /\ cb = "idle" /\ pc = "top"
    /\ loopAge = 0 /\ stop = FALSE
    /\ misses = 0 /\ frameAge = 0

\* The age of the last frame at the loop's stamp.
FrameAge == Most(svc.rxAge - loopAge, 0)

History == UNCHANGED <<misses, frameAge>>
Others == UNCHANGED <<net, link, cb, stop>>

(* ------------------------------ main thread ---------------------------- *)

Top ==
    /\ pc = "top"
    /\ pc' = IF stop THEN "shutdown" ELSE IF svc.connected THEN "drain" ELSE "sleep"
    /\ UNCHANGED <<svc, loopAge>> /\ History /\ Others

\* ensure_connection, due: the connect or a subscription fails.
ConnectFails ==
    /\ pc = "top" /\ ~stop /\ ~svc.connected
    /\ pc' = "sleep"
    /\ svc' = [svc EXCEPT !.backoff = Backed(@)]
    /\ UNCHANGED loopAge /\ History /\ Others

ConnectSucceeds ==
    /\ pc = "top" /\ ~stop /\ ~svc.connected /\ cb = "idle"
    /\ pc' = "subscribed"
    /\ link' = "up"
    /\ UNCHANGED <<svc, loopAge, net, cb, stop>> /\ History

\* The rest of connect_once with the self-test, then ensure_connection's
\* back-off; a publish that throws makes connect_once return false.
Establish(r) ==
    /\ pc = "subscribed"
    /\ pc' = "drain"
    /\ LET s == ResetSession(svc)
       IN  svc' = IF link = "up" THEN [LoggerReply(s, r) EXCEPT !.backoff = Backoff]
                  ELSE [s EXCEPT !.backoff = Backed(@)]
    /\ UNCHANGED loopAge /\ History /\ Others

\* Mutant: a handler's status claims the link while the session is there.
DrainCallOptimistic(r, d, status) ==
    /\ pc = "drain" /\ loopAge + d <= MaxDrain
    /\ svc' = [Elapse(svc, d) EXCEPT !.linkAlive = svc.sensorConnected]
    /\ pc' = "drain"
    /\ loopAge' = loopAge + d
    /\ History /\ Others

\* drain_commands: a call of a handler, or a wait without one.  status: the
\* handler publishes it after the call, with link_alive as it then stands; that
\* throws when connected_ is set and the connection is gone.
DrainCall(r, d, status) ==
    /\ pc = "drain" /\ loopAge + d <= MaxDrain
    /\ r = "nocall" => ~status
    /\ svc' = IF r = "nocall" THEN Elapse(svc, d) ELSE LoggerReply(Elapse(svc, d), r)
    /\ pc' = IF status /\ svc.connected /\ link = "down" THEN "crashed" ELSE "drain"
    /\ loopAge' = loopAge + d
    /\ History /\ Others

\* The queue that drain_commands has taken over is empty.
DrainDone ==
    /\ pc = "drain"
    /\ pc' = "ensure"
    /\ frameAge' = 0
    /\ UNCHANGED <<svc, loopAge, misses>> /\ Others

\* ensure_sensor_session: nothing to do, or not yet.
SensorNotDue ==
    /\ pc = "ensure"
    /\ svc.sensorConnected \/ svc.wait + loopAge > 0
    /\ pc' = "poll"
    /\ UNCHANGED <<svc, loopAge>> /\ History /\ Others

SensorDue == pc = "ensure" /\ ~svc.sensorConnected /\ svc.wait + loopAge <= 0

\* udp_session_->open fails; it has closed what was open.
OpenFails ==
    /\ SensorDue /\ net = "broken"
    /\ pc' = "poll"
    /\ LET s == UpdateLinkHealth([SetError(svc, "other") EXCEPT !.open = FALSE, !.udpAlive = FALSE])
           b == Backed(s.backoff)
       IN  svc' = [s EXCEPT !.backoff = b, !.wait = b - loopAge]
    /\ UNCHANGED loopAge /\ History /\ Others

\* udp_session_->open returns true; its stamp counts as a first frame.
OpenSucceeds ==
    /\ SensorDue /\ net # "broken"
    /\ pc' = "opened"
    /\ svc' = [svc EXCEPT !.open = TRUE, !.rxAge = 0]
    /\ misses' = 0
    /\ UNCHANGED <<loopAge, frameAge>> /\ Others

\* The flags that ensure_sensor_session sets after open.
MarkOpened ==
    /\ pc = "opened"
    /\ pc' = "poll"
    /\ svc' = [ResetStreaks(svc) EXCEPT !.sensorConnected = TRUE,
                                        !.backoff = Backoff, !.wait = -MaxDrain]
    /\ UNCHANGED loopAge /\ History /\ Others

\* poll_sensor up to the call of poll().
PollSkipped ==
    /\ pc = "poll" /\ ~svc.sensorConnected
    /\ pc' = "rest"
    /\ UNCHANGED <<svc, loopAge>> /\ History /\ Others

DeferredReconnect ==
    /\ pc = "poll" /\ svc.sensorConnected /\ svc.needed /\ ~svc.recording
    /\ pc' = "rest"
    /\ svc' = HandleSensorDisconnect([svc EXCEPT !.needed = FALSE])
    /\ UNCHANGED loopAge /\ History /\ Others

\* poll() is called: the session is not connected, or sbgECom is entered.
PollError(s) == HandleSensorDisconnect(SetError(ResetStreaks(s), "other"))

PollCall ==
    /\ pc = "poll" /\ svc.sensorConnected /\ ~(svc.needed /\ ~svc.recording)
    /\ IF svc.open THEN pc' = "handling" /\ UNCHANGED svc
       ELSE pc' = "rest" /\ svc' = PollError(svc)
    /\ UNCHANGED loopAge /\ History /\ Others

\* sbgEComHandleOneLog returns: a frame was handled, none was there, or it
\* failed.  If connection_lost has closed the interface under it the behaviour
\* is undefined: it may see a frame, none, an error, or fault.
HandleFrame ==
    /\ pc = "handling" /\ net = "frames"
    /\ pc' = "handled"
    /\ svc' = [svc EXCEPT !.rxAge = 0]
    /\ UNCHANGED loopAge /\ History /\ Others

HandleNothing ==
    /\ pc = "handling" /\ (net = "silent" \/ ~svc.open)
    /\ pc' = "handled"
    /\ UNCHANGED <<svc, loopAge>> /\ History /\ Others

HandleError ==
    /\ pc = "handling" /\ (net = "broken" \/ ~svc.open)
    /\ pc' = "rest"
    /\ svc' = PollError(svc)
    /\ UNCHANGED loopAge /\ History /\ Others

HandleFault ==
    /\ pc = "handling" /\ ~svc.open
    /\ pc' = "crashed"
    /\ UNCHANGED <<svc, loopAge>> /\ History /\ Others

\* The age of the last frame against the loop's stamp, and what follows.
Overdue == FrameAge > RxTimeout

Judge ==
    /\ pc = "handled"
    /\ pc' = "rest"
    /\ IF Overdue
       THEN /\ svc' = RxTimedOut(svc, svc.recording)
            /\ misses' = Least(misses + 1, FailThreshold)
       ELSE svc' = RxRecovered(svc) /\ UNCHANGED misses
    /\ UNCHANGED <<loopAge, frameAge>> /\ Others

\* refresh_rest_health and poll.timer: an answer, or at most link_alive.
Rest(r) ==
    /\ pc = "rest"
    /\ pc' = "publish"
    /\ svc' = IF r = "nocall" THEN svc
              ELSE IF r = "refresh" THEN UpdateLinkHealth(svc) ELSE LoggerReply(svc, r)
    /\ UNCHANGED loopAge /\ History /\ Others

\* publish_status throws when connected_ is set and the connection is gone.
Publish(due) ==
    /\ pc = "publish"
    /\ pc' = IF due /\ svc.connected /\ link = "down" THEN "crashed" ELSE "sleep"
    /\ UNCHANGED <<svc, loopAge>> /\ History /\ Others

Sleep(d) ==
    /\ pc = "sleep"
    /\ pc' = "top"
    /\ svc' = Elapse(svc, d)
    /\ loopAge' = 0 /\ frameAge' = FrameAge
    /\ UNCHANGED misses /\ Others

Shutdown ==
    /\ pc = "shutdown"
    /\ svc' = IF svc.sensorConnected THEN HandleSensorDisconnect(svc) ELSE svc
    /\ pc' = IF svc.connected /\ link = "down" THEN "crashed" ELSE "stopped"
    /\ UNCHANGED loopAge /\ History /\ Others

(* ------------------------- callback thread, world ---------------------- *)

MainUnchanged == UNCHANGED <<pc, loopAge, net, stop>> /\ History

LinkDrop ==
    /\ Running /\ link = "up" /\ cb = "idle"
    /\ link' = "down" /\ cb' = "lost"
    /\ UNCHANGED svc /\ MainUnchanged

\* connection_lost: the flags of the session, then close(), then the sensor's.
CbLost ==
    /\ Running /\ cb = "lost"
    /\ cb' = "closing"
    /\ svc' = [svc EXCEPT !.connected = FALSE, !.linkAlive = FALSE]
    /\ UNCHANGED link /\ MainUnchanged

CbClose ==
    /\ Running /\ cb = "closing"
    /\ cb' = "clearing"
    /\ svc' = [svc EXCEPT !.open = FALSE]
    /\ UNCHANGED link /\ MainUnchanged

CbClear ==
    /\ Running /\ cb = "clearing"
    /\ cb' = "idle"
    /\ svc' = UpdateLinkHealth([svc EXCEPT !.sensorConnected = FALSE, !.needed = FALSE])
    /\ UNCHANGED link /\ MainUnchanged

\* Only open and sbgEComHandleOneLog meet the sensor's condition: a change
\* at another time is one that comes just before the next of them.
NetChanges ==
    /\ pc \in {"ensure", "handling"}
    /\ net' \in {"frames", "silent", "broken"} \ {net}
    /\ UNCHANGED <<svc, link, cb, pc, loopAge, stop>> /\ History

\* stop_flag is read at the top only: a signal at another time is one that
\* arrives in the next sleep.
Signal ==
    /\ pc = "sleep" /\ ~stop
    /\ stop' = TRUE
    /\ UNCHANGED <<svc, net, link, cb, pc, loopAge>> /\ History

Ended == ~Running /\ UNCHANGED vars

-----------------------------------------------------------------------------
Sensor ==
    \/ SensorNotDue \/ OpenFails \/ OpenSucceeds \/ MarkOpened
    \/ PollSkipped \/ DeferredReconnect \/ PollCall
    \/ HandleFrame \/ HandleNothing \/ HandleError \/ HandleFault \/ Judge

Main ==
    \/ Top \/ ConnectFails \/ ConnectSucceeds \/ DrainDone \/ Sensor \/ Shutdown
    \/ \E r \in Replies : Establish(r)
    \/ \E r \in Replies \cup {"nocall"}, d \in 0..MaxDrain, status \in BOOLEAN :
          DrainCall(r, d, status)
    \/ \E r \in Replies \cup {"nocall", "refresh"} : Rest(r)
    \/ \E due \in BOOLEAN : Publish(due)
    \/ \E d \in 0..1 : Sleep(d)

Callback == CbLost \/ CbClose \/ CbClear

Next == Main \/ Callback \/ LinkDrop \/ NetChanges \/ Signal \/ Ended

Spec == Init /\ [][Next]_vars

\* The threads keep running, the queue that a drain has taken over is finite,
\* and a sleep does take time.
Fairness == WF_vars(Main) /\ WF_vars(DrainDone) /\ WF_vars(Callback) /\ SF_vars(Sleep(1))

FairSpec == Spec /\ Fairness
-----------------------------------------------------------------------------
(* Properties.                                                              *)

\* A status of the main loop or of a handler can reach the broker.
Publishing == pc \in {"drain", "publish"} /\ svc.connected /\ link = "up"

\* A status that reaches the broker, a handler's or the loop's own, claims
\* link_alive only for a session that is open, whatever connection_lost and the
\* main loop did to the session and its flags while MQTT was down.
PublishedLinkHasSession ==
    Publishing /\ svc.linkAlive => svc.sensorConnected /\ svc.open

\* The watchdog's own disconnects, immediate or deferred.
WatchdogCloses ==
    pc \in {"poll", "handled"} /\ pc' = "rest" /\ svc.open /\ ~svc'.open

\* While MQTT is up the watchdog closes a session only after a full timeout
\* without a frame and enough overdue polls of that same session: no flag or
\* streak left by an earlier session, by the callback thread or by a slow drain
\* makes it close a session whose frames arrive.
WatchdogNeedsSilence ==
    [][WatchdogCloses /\ link = "up" => /\ svc.rxAge > RxTimeout
                                        /\ misses' >= FailThreshold]_vars

\* While the device records the watchdog leaves the session open; only a
\* transport error or the loss of MQTT closes it.
RecordingKeepsSession == [][WatchdogCloses => ~svc.recording]_vars

\* A status that reaches the broker claims link_alive only while the last frame,
\* or the opening of the session, was no older than the timeout at the stamp of
\* the last poll's iteration: this one for the loop's own status, the previous
\* one for those that the handlers publish before the poll.  No poll is skipped
\* that would have found the sensor silent, and no handler revives the flag.
LinkAliveIsRecent ==
    Publishing /\ svc.linkAlive =>
        (IF pc = "drain" THEN frameAge ELSE FrameAge) <= RxTimeout

Steady == Running /\ ~stop /\ svc.connected /\ link = "up"

\* With MQTT up and frames arriving, link_alive comes to hold and stays: no
\* left-over session, flag or back-off keeps the sensor away.
FramesRestoreLink == <>[](Steady /\ net = "frames") => <>[]svc.linkAlive

\* With MQTT up and the sensor silent outside a recording, the service opens
\* the session again and again.
SilenceReopens ==
    <>[](Steady /\ net = "silent" /\ ~svc.recording) => []<>(pc = "opened")

(* The inductive invariant behind the safety properties.                    *)

\* link_alive needs a session; a session whose interface is closed is about to
\* be given up, by connection_lost or by the poll that comes next.
Flags ==
    /\ link = "up" => cb = "idle"
    /\ svc.linkAlive => svc.sensorConnected /\ svc.udpAlive
    /\ pc = "opened" => ~svc.sensorConnected
    /\ pc = "opened" /\ link = "up" => svc.open
    /\ svc.sensorConnected /\ ~svc.open => cb = "clearing" \/ (pc = "poll" /\ link = "down")
    /\ link = "up" /\ pc \in {"handling", "handled"} => svc.sensorConnected

\* The fail streak counts overdue polls of this session; a reconnect is only
\* deferred after enough of them, with the sensor silent since.
Streaks ==
    /\ pc # "opened" => svc.failStreak <= misses \/ misses = FailThreshold
    /\ link = "up" /\ svc.needed /\ pc # "subscribed" =>
           /\ svc.sensorConnected
           /\ misses = FailThreshold
           /\ pc # "handled" => svc.rxAge > RxTimeout

\* From the poll of an iteration to that of the next one udp_link_alive_ stands
\* on a frame that was recent at the first one's stamp.
Recent ==
    link = "up" /\ svc.connected /\ svc.sensorConnected /\ svc.udpAlive =>
        /\ pc \in {"rest", "publish", "sleep"} => FrameAge <= RxTimeout
        /\ pc \in {"top", "drain"} => frameAge <= RxTimeout

IInv == TypeOK /\ Flags /\ Streaks /\ Recent
=============================================================================
