# IronSoft: TLA+ models, model checking and proofs

This directory holds TLA+ modules translated from the C++ sources, TLC
configurations that check them on small instances, and TLAPS proofs.
`PROJECT.json` maps every definition to the lines it models. File names below
are relative to the repository.

## 1. The system

| Component | State | Operations | Interacts with |
|---|---|---|---|
| `EkinoxService` (`services/ekinox/src/ekinox_service.cpp`), MQTT session and presence | `connected_`, `presence_online_`, REST streaks and time stamps, `status_.api_ok`, poll and publish times | `run`, `connect_once`, `connection_lost`, `publish_presence`, `mark_rest_result`, `refresh_rest_health`, shutdown | broker (retained presence), data logger (REST), Paho callback thread |
| `EkinoxService`, commands | `pending_commands_`, `status_.state`, `recording_active` | `message_arrived`, `drain_commands`, the handlers of ping, logger.start / stop / status | data logger, broker (status, acks) |
| `EkinoxService` + `EkinoxUdpSession`, sensor | `sensor_connected_`, `udp_link_alive_`, watchdog streaks, `sensor_reconnect_needed_`, back-off, the UDP interface | `ensure_sensor_session`, `poll_sensor`, `handle_sensor_*`, `open` / `poll` / `close` | sbgECom, callback thread |
| `ekinox_logger_api.cpp` | none | GET / start / stop, reply interpretation (`enrich_from_json`) | the Ekinox REST server |
| `MqttPahoClient` (`gui/src/mqtt_paho_client.cpp`) | `stop_`, `connected_`, `state_`, `client_`, `pendingPings_` | `connectToBroker`, `stop`, `publishCmdPing`, `workerLoop`, ping timer | broker, Qt event queue |
| `MainWindow` (`gui/src/mainwindow.cpp`) | `clientState_`, Ekinox presence and status, enabled buttons | button slots, slots for the client's signals | `MqttPahoClient` |
| Back-end (`backend/src/mqtt_client.cpp`) | `connected`, `stop_requested_`, heartbeat sequence | connect loop, heartbeat thread, command callback, `stop` | broker (last will) |
| Configuration loaders, vocabulary, diagnostic tools | none after start-up | parse, format | all |

Everything meets at the broker: the GUI publishes commands on one topic, the
back-end and the Ekinox service both subscribe to it and both acknowledge;
presence and status are retained messages.

What is hard:

* **Two threads without locks.** `connection_lost` runs on Paho's callback
  thread and writes the fields `run()` works with, between any two of its steps.
* **Time stamps used late.** `run()` takes one stamp per iteration and uses it
  after a drain that may take seconds.
* **State across sessions.** Streaks, rate limits, flags, queued commands and
  retained messages live longer than the MQTT session they belong to.
* **Long handlers.** A logger command makes up to four REST calls; the device and
  the session change in between.
* **Events behind the state.** `MainWindow` knows the connection only from queued
  events that two threads post.
* **Waiting threads.** The back-end's connect thread and the GUI's worker block in
  `consume_message`, and `stop()` joins them.
* **A device seen through its replies.** Whether the logger records is guessed from
  up to seven JSON members that may contradict each other.

What makes each part correct: the broker's presence is the service's and obeys the
hysteresis; commands are answered once, in order and truthfully, with the status
published first; `link_alive` belongs to an open session and the watchdog closes
only silent ones; the window catches up with the connection, a stop returns, a
ping gets one verdict; a back-end that serves its session is online at the broker,
one that died is not, and none of its threads waits for a session that is gone; the
logger buttons come to offer what the device allows, and a click has a bounded cost.

## 2. Modules

### `EkinoxHealth` - session, REST health, presence

`svc` is the record of the service's fields, and the methods are functions from
record to record (`MarkRestResult`, `UpdatePresenceState`, `ResetSession`, ...),
so an action is the composition the code makes. `pc` is the place in `run()`;
one step ends at a blocking call or where the callback thread can matter. `cb` is
the place in `connection_lost`, which is cut in two: the flags, then
`update_presence_state`, which may publish on a connection that is gone. A publish
with `connected_` set and no connection throws; outside `connect_once` nothing
catches it and the process ends (`"crashed"`).

A time stamp is its age in ticks, saturated where no comparison can tell more; a
parameter `now_ms` is the age of the stamp that is passed. This is what makes the
stale stamp of the loop visible. `CommandGet` / `CommandPost` stand for the REST
calls of the handlers and `CommandWait` for the time they spend without one, the 1 s
verification sleeps (`:607`, `:682`) and the wait for the PUBACK (`:451`), in any
sequence, which over-approximates them; the exact sequences are in `EkinoxLogger`. The broker (`Deliver`, `retained`) and the
connection (`LinkDrop`) are external; the client sends its queue before
DISCONNECT.

### `CommandService` and `EkinoxLogger` - commands

`CommandService` is the abstract promise: commands run one at a time in order of
arrival, each gets exactly one answer, a start is acknowledged only if the device
was recording at some moment of its execution, a stop only if it was idle.
`EkinoxLogger` has every handler with one step per REST call, and implements it
with `queue <- local \o pending` and `answer <- ack`. The device changes by itself
between steps (it has its own web page); the effect of a POST is such a change, so
it may come before its reply, after it or never. A GET answers truthfully or not
at all; a 409 means that the device is already in the requested state: both are
assumptions on the device. Losing and making the session are single steps here,
since their races are the subject of the other two modules. Ack texts, HTTP codes
and session names are left out; an ack records whether the session was up to send
it.

### `EkinoxSensor` - UDP session and watchdog

`open` and the flags after it, `sbgEComHandleOneLog` and the judgement after it are
separate steps, with the callback thread's flags, `close()` and flags (`CbLost`,
`CbClose`, `CbClear`) between any of them. Handling an interface that was closed
meanwhile is undefined: it may see a frame, nothing, an error, or fault
(`HandleFault`). `close()` itself is atomic. The test "recording" of
`poll_sensor` (state or flag) is the flag alone, since `RecordingIsActive` of
`EkinoxLogger` shows that the state implies it.
The constants are what `validate_positive_timeout` lets through (`ValidTimeout`):
positive, but not ordered, so the back-off may start above its maximum. `DrainCall` is
one REST call or wait of a handler and the status it publishes after it, with
`link_alive` as it then stands; the drain goes on until `DrainDone`. It comes before
the poll of its iteration, so these statuses carry flags that the poll of the previous
iteration left: `frameAge`, a history variable like `misses`, keeps the age that the last
frame had at that iteration's stamp. Sensor and signal change only where the next step
reads them, which loses no behaviour of the service. The build is the one with sbgECom.

### `GuiClient` - MqttPahoClient and MainWindow

The worker thread has one step per action of `workerLoop`; the GUI thread one per
slot, timer or event, with `stop()` and `publishCmdPing` cut where the other
thread can come between. `set...()` is two steps: exchange and post. `events` is
Qt's queue. The library is external: `consume_message` returns null once the
connection is lost or the queue closed; an ack may arrive any number of times. A
session that is lost before `start_consuming` may leave the consumer `"deaf"`: the
null went into a queue that was not installed yet, or it did not. A click finds
fewer than `MaxEvents` queued events (Qt runs posted events before input) and a
back-off of at least 200 ms lets the GUI thread work its queue off. The model takes
the copy of the `client_` pointer in `stop()` as atomic. Left out: the back-end's
presence, status and heartbeat, log lines, the destructor; the logger buttons are in
`LoggerControl`.

### `Backend` - MqttBackendClient

The connect thread (`tpc`), the heartbeat thread (`hpc`) and `main` (`mpc`) have one
step per library call or test of a shared flag. The broker is external: it holds the
session's last will (`"armed"` by a connect, `"due"` once the connection is lost
without DISCONNECT, published by `WillFires` or at the latest when the same client id
connects again) and the retained presence; it survives everything. `start_consuming`
empties the queue, and a loss puts a null into it. `connect` on a client that still
is connected, which happens after a handler threw, throws or returns: both are taken.
The heartbeat thread's publish throws on a lost connection and nothing catches it
(`"crashed"`). The broker may hold an `online` that an earlier process left.

### `LoggerApi` - the REST client

Pure operators: one HTTP exchange with a JSON body becomes a result, and
`request_logger_state` draws a class of reply from it, the classes `EkinoxLogger` is
written with. An optional member is a set of at most one value. `Documented` is the
assumption on the device: a status of "recording" or "ready", a write speed above
zero only while recording, any session name, any flags.

### `LoggerControl` - window, service, REST client and device together

Extends `EkinoxLogger` by the window's part in logging: the two buttons, the command
they publish, the refresh one second later, the refresh after a stop
acknowledgment, and the retained status on its way back. The service takes the
replies `LoggerApi` draws from a documented body, or an error. Assumed: the
configured REST path is right (no 404); the effect of a POST is the device's own
step, as in `EkinoxLogger`; a command reaches the service if it has a session (QoS
duplicates are left out; `EkinoxLogger` takes them as messages of their own). The
Ekinox presence toggles freely, since `EkinoxHealth` says when it is published.

### Proof modules

`EkinoxHealthProofs`, `EkinoxTimingProofs` (about `EkinoxHealth` as well, for what
rests on durations), `EkinoxLoggerProofs`, `EkinoxSensorProofs`, `GuiClientProofs`,
`BackendProofs`, `LoggerApiProofs` and `LoggerControlProofs`, see section 5. An
inductive invariant is defined in the module it belongs to; TLC evaluated each of
them before it was proved.

## 3. What the runs check

| Run | Question | Result |
|---|---|---|
| `health` | do presence, REST health and the broker's copy agree under link drops at any step, shutdown, kill, with drains of up to two calls and waits | `BrokerAgrees`, `OnlineNeedsTwoSuccesses`, `ThreeFailuresOffline`, `OnlineIsRecent`, `CleanStopLeavesOffline`, `ApiOkWhenPrompt` hold |
| `health_live` | does a stop end, does presence recover | `StopTerminates`, `PresenceRecovers` hold |
| `health_stale` | is `api_ok` published true while the sensor replies, whatever the drain takes | `ApiOkWhileSensorReplies` **violated**, see 4 |
| `health_dead` | does a process that dies after it announced itself online come to read offline | `DeadReadsOffline` **violated** |
| `logger` | do the handlers keep the promise of `CommandService`, settle the state, publish before acking, answer everything | `ImplementsCommandService`, `AnsweredInOrder`, `TransitionalStateSettles`, `RecordingIsActive`, `AckedStatusIsPublished`, `EveryCommandAnswered` hold |
| `sensor` | do session, flags, published statuses and watchdog agree while the callback thread closes the session; does the link come back, is a silent session opened again | `PublishedLinkHasSession`, `LinkAliveIsRecent`, `WatchdogNeedsSilence`, `RecordingKeepsSession`, `FramesRestoreLink`, `SilenceReopens` hold |
| `gui` | does the window catch up, does `stop()` return and clean up, does a ping get one verdict and settle, is a lost connection retried | `WindowCatchesUp`, `StopReturns`, `StopLeavesNothing`, `OneVerdict`, `PingSettles`, `Retries` hold |
| `gui_ping` | is a ping that was answered shown with its time | **violated** |
| `backend` | does the connect thread ever wait for a session that is gone; does the retained presence follow the session and the death of the process; is a lost session made again; does `stop()` return when something happens on the connection | `WaitsOnlyForLiveSession`, `PresenceOnlineWhileServing`, `DeadReadsOffline`, `Reconnects`, `StopReturnsOnTraffic` hold |
| `backend_stop` | does ENTER end the process | **violated**, see 4 |
| `backend_outage` | does the back-end survive a broker outage | **violated** |
| `control` | does the service read the device right; what does a click cost; do the buttons follow the device | `ReadsDevice`, `TrafficBounded`, `ControlsFollowDevice` hold |

`ApiOkWhileSensorReplies` and `ApiOkWhenPrompt` are one question, asked of every
iteration and of a prompt one. Under the same bounds the first fails and the second
holds: `api_ok` follows the replies in an iteration that takes no longer than the
presence timeout less the poll interval, however long those before it took; in a longer
one the stale stamp of the loop can let the last success expire without a poll.
`PromptStatusIsOk` (section 5) proves it for all bounds. `DeadReadsOffline` is asked of
both services, each time of a process that died with its own announcement out: it fails
for `EkinoxService`, which has no last will, and holds for the back-end, which has one.

### Bounds

* `EkinoxHealth`: presence timeout 2 ticks, poll interval 1, rate limit 2, a call
  lasts 0 or 1 tick (the code's are 5 s and up to 3 s): every comparison of an age goes both ways. `StreakCap = 3` is
  the least value at which the third failure still counts; `MaxOutbox = 2` lets an
  old and a new presence be in flight together. `MaxDrain = 2` counts the calls and
  waits of one drain: with the poll an iteration lasts up to 3 ticks, with the connect
  and the self-test up to 5, more than twice the timeout. `health_live` and `health_dead` use the smallest values
  (all 1) and no command (`MaxDrain = 0`); that a drain of any length uses up the steps
  a stop has left is proved (`StopCountsDown`).
* `EkinoxLogger`: two messages, any of five kinds each (`unknown` is answered as
  `bad`): one being executed while one waits, in both queues.
* `EkinoxSensor`: timeout 1, thresholds 2, so that one overdue poll is not enough,
  back-off 1 to 2, so that it doubles and saturates; a drain of one tick, as long as the
  timeout, with any number of calls and statuses.
* `GuiClient`: one ping, two events, one message in the consumer's queue. Pings
  share nothing but the set they are in; two events suffice for a stale and a
  fresh one to be queued at once. The proof covers any number of either.
* `Backend`: two commands in the consumer's queue and the null behind them, so that a
  loss finds it empty, partly filled and full; the two violations need only one.
* `LoggerControl`: one click and the three commands it can cause, with room for one
  more; one session name besides the empty one; write speed 0 or 1. Two clicks give
  some 9 million states; the bound on the traffic is proved for any number.

### Fairness

Threads keep running: `WF` on the main loop's, the worker's, the GUI's and the
callback's steps, since every REST call has a timeout and Paho's waits end with
the connection. The queue that a drain has taken over is finite, so in `EkinoxSensor`,
which does not count its commands, the drain ends (`WF(DrainDone)`). Time passes: `SF(Sleep(1))`, for a loop whose sleeps all took no
time would stop the clock. A back-off ends: `SF(TopConnect)`. A timer of Qt
expires: `SF(HandlePingTimeout)`. In `Backend` the three threads run and what is in
flight arrives; a broker notices a dead client by its keep-alive (`WF(WillFires)`). In
`LoggerControl` the poll and the status publication, both on timers of the loop, come
due again and again, and a reachable device is reached again and again
(`SF` on `LoopTail`); the broker and Qt's timers deliver
(`WF` on `StatusSeen`, `StopAckSeen`, `Refresh`). Nothing is assumed of signals, drops, replies,
the device, the sensor or the user; the liveness properties name the steadiness
they need on their left side.

## 4. Where code and documents disagree

* `ekinox_service.cpp:204-205`: the poll is decided and judged by the stamp from the top
  of the loop. In an iteration whose calls, verification sleeps or PUBACK waits outlast
  the presence timeout the last success expires while no poll is due yet, and the status
  says `api_ok` false though every reply was a success
  (`docs/TEST_EKINOX_SERVICE.md:75`). The code's own limits allow it: one call may last
  3 s, a logger command makes up to four and sleeps 1 s, and the timeout is 5 s.
* `ekinox_service.cpp:120`: no last will, so a service that has announced itself online
  and then dies stays online at the broker (`docs/ekinox_mqtt_contract.md:9`).
* `gui/src/mqtt_paho_client.cpp:149`: a ping is published before it is entered in
  `pendingPings_`; a fast ack is missed and a timeout shown
  (`docs/TEST_MQTT_GUI.md:85-86`).
* `backend/src/mqtt_client.cpp:64`: `stop()` joins the connect thread before it
  disconnects. On a connection without traffic that thread sits in `consume_message`
  and the process does not end ("Press ENTER to exit...",
  `backend/src/main.cpp:106`). It does end as soon as a message comes or the
  connection breaks (`StopReturnsOnTraffic`).
* `backend/src/mqtt_client.cpp:163`: the heartbeat thread publishes on a connection
  that may just have been lost, and the exception ends the process; the outage test
  expects everything green again (`docs/TEST_MQTT_GUI.md:98`, `:120`).

Read off the code, without a run:

* `ekinox_service.cpp:1081`: `link_alive` turns false after `udp_rx_timeout_ms` (5 s by
  default) without a frame, at the next poll; `rx_dead_ms` (1.5 s), by which
  `docs/TEST_EKINOX_SERVICE.md:89` promises it, is only copied (`:153`) and never read.
  `LinkAliveIsRecent` and `WatchdogNeedsSilence` speak of the 5 s.
* `docs/TEST_EKINOX_SERVICE.md:87`, `:89` and `:94` tie the presence to the UDP link:
  online once it is established, offline with reason "rx timeout" once it is dead. The
  code decides it by the REST replies alone (`rest_offline_condition`, `:1161`;
  `update_presence_state`, `:854`), and that is what `ThreeFailuresOffline`,
  `OnlineIsRecent` and `OnlineNeedsTwoSuccesses` are about: a sensor without frames whose
  data logger answers stays online, one with frames whose logger fails goes offline.
  `api_ok`, which line 89 expects to turn false with the link, is a matter of the REST
  replies too.
* `ekinox_service.cpp:230`: the last status goes out before the state is
  DISCONNECTED (`docs/TEST_EKINOX_SERVICE.md:83`).
* `ekinox_udp_session.cpp:96`: opening counts as a frame, so `link_alive` may be true
  before any arrived (`docs/ekinox_mqtt_contract.md:56`). What holds is
  `LinkAliveIsRecent`: a frame or an opening within the timeout at the stamp of the last
  poll's iteration, which for a status that a handler publishes is the iteration before.
* `ekinox_service.cpp:894` and `:934`: a successful GET empties `last_error` while the
  rx timeout goes on and its flag keeps it from being set again
  (`docs/ekinox_mqtt_contract.md:59`).
* `gui/src/mqtt_paho_client.cpp:614`: during the back-off the window reads
  Disconnected and its button only logs "already connecting", where
  `docs/TEST_MQTT_GUI.md:93` expects Connecting.
* `gui/src/mqtt_paho_client.cpp:474-476` subscribes before it starts the consumer; a
  loss in between may leave the worker waiting for ever (the `"deaf"` consumer that
  `Retries` excludes).
* `gui/src/mainwindow.cpp:438`: the back-end indicator stands on the Ekinox presence
  alone; `README.md:92` and `docs/TEST_MQTT_GUI.md:102-105` describe it for the
  back-end, with a heartbeat timeout.
* `ekinox_logger_api.cpp:184-190`: the message is already set from the body (line 276), so these lines do nothing for a body that parses and an acknowledgment never mirrors the REST status
  (`docs/TEST_EKINOX_SERVICE.md:74`).
* `ekinox_logger_api.cpp:164`: a session name without a status, or with one other than
  "ready", reads as recording and overrides the explicit flags (`NameHidesFlag`). The
  documented replies always carry a status, so `ReadsDevice` holds.
* A write speed beyond the range of int makes `asInt` throw; a `base_path` of "/"
  gives "//start". Neither is modelled.
* The configuration does not order `reconnect_backoff_ms` and its maximum, so the
  back-off can shrink; doubling one above 2^30 would overflow (not modelled).
* In the back-end's `stop()` `connected` is already false when the branch with
  `disconnect()` tests it (`StopFindsDisconnected`).
* A stop of an idle logger is acknowledged ok ("already stopped",
  `ekinox_service.cpp:650`) where `docs/TEST_EKINOX_SERVICE.md:78` expects a refusal;
  a failed ack carries both `message` and `error` where
  `docs/ekinox_mqtt_contract.md:94` has one of them.

## 5. What is proved

The proofs hold for every value of the constants that the named assumptions admit.

**`EkinoxHealthProofs`** (assumptions `TimeAssumption`, `StreakAssumption`,
`BoundAssumption`). The safety properties are not inductive alone: that online
presence is recent depends on `rest_alive_`, that on the streaks, and what the
broker holds on where a drop may find the loop. `IInv` joins `TypeOK` with
`Phases` (no session during `connect_once`; no connection while `connection_lost`
is due; no exception between steps), `StreaksCount` (the counters against the
replies really seen), `Sound` (presence is only set with an alive REST side and
fewer than three failures) and the properties themselves. The lemmas say what each
method of the service preserves; the step theorem has one case per action.
`Invariance` gives `TypeCorrect`, `BrokerFollows`, `FailuresTurnOffline`,
`RecentWhenOnline`, `StopLeavesOffline`, and `Hysteresis` proves the action
property from the invariant and the step.

**`EkinoxTimingProofs`** (the same assumptions). `PromptStatusIsOk` proves
`ApiOkWhenPrompt`: an iteration no longer than the presence timeout less the poll
interval, with its calls, sleeps and PUBACK waits, publishes `api_ok` while every reply of
the session is a success. How many calls and waits there are and how long they last is
not restricted, neither in this iteration, whose length is what counts, nor in the ones
before. By default that is 3 s, 5 less an interval of 2. The hypothesis `MinPoll <= PresenceTimeout`
is about the configuration: `presence_timeout_ms` is not below the second that the
constructor clamps the interval to, so that the interval fits. The invariant is
`Punctual`, next to `IInv`: how old the loop's stamp can be at each place (`StampAge`),
that a session has a poll deadline (`PollStamp`), that the last success is no older than
the last poll's iteration (`SuccessAge`), and that `api_ok` is set unless a poll is due
that will set it or the iteration was a long one (`OkOrDue`). `health_stale` is what
happens in a long one.

**`EkinoxLoggerProofs`** (`KindsAssumption`, `ArrivalsAssumption`). `TypeCorrect`;
`Refinement`: under `TypeOK`, `Shape` (a handler works on exactly one message, the
swapped-out queue is empty outside the drain) and `Evidence` (what a handler
concluded, the device was at a moment since the message was taken) every step is a
step of `CommandService` or leaves its variables alone; `OneAnswerEach` follows by
an invariant on the numbers of the open messages.

The other three safety properties of the run: `RecordingActive` is inductive with
`TypeOK`; `TransitionalSettles` extends the claim to the places before a handler's first
REST call, since what comes after them ends in a GET or sets the state itself; `AckedPublished` is a property
of each step that sends an acknowledgment.

**`EkinoxSensorProofs`** (`ConfigAssumption`: every configured time and threshold is
positive; `StreakCap` and `MaxDrain` in range). `IInv` joins `TypeOK` with `Flags` (link_alive needs a
session; a session whose interface is closed is one that `connection_lost` or the next
poll is about to give up), `Streaks` (the fail streak counts overdue polls of this
session, and a deferred reconnect rests on enough of them) and `Recent` (from the poll of
an iteration to that of the next `udp_link_alive_` stands on a frame that was recent at
the first one's stamp). `PublishedLink` and `PublishedLinkRecent`, about the loop's
statuses and the handlers', follow from it; `WatchdogPatient` and `RecordingSafe` are
action properties from it and `WatchdogStep`, which looks at the only two actions by which
the watchdog closes.

**`GuiClientProofs`** (`BoundsAssumption`). A window that shows the truth
once everything is settled says nothing about the states in between, so `CatchingUp`
strengthens it: for each field of the window, the last queued event that sets it, or
the post a thread still owes, carries the value the client has now; with none of them
the field already shows it. `Phases` says which places the two threads can be in
together and `PingBook` that a pending ping has no verdict yet. `WindowTruthful`,
`StopIsClean` and `OneVerdictEach` follow.

**`BackendProofs`** (`QueueAssumption`). `LossIsQueued`: inside the message loop a
session that is gone has left its null in the queue; `Room`: a queue past its bound
ends in a null; `Announced`: the will of a live session is not due, and once announced
and delivered only its loss replaces it; `Joined`: what follows the join finds the
thread gone; `WillOutlives`: a session that is gone has left its will unless the broker
reads offline, and nothing of it is in flight; `Forgotten`: `connected` is set only
between the announcement and the end of the message loop. `NoLostWait`,
`ServingIsOnline` and `StopFindsDisconnected` follow, the last of which makes the
remark on `stop()` in section 4 a theorem.

**`LoggerApiProofs`** (no assumption but that names do not matter and
`SpeedsAssumption`). `DocumentedReadRight` and `DocumentedGet`: a documented reply is
read as what the device does, for any name, speed and flags. `NameHidesFlag`: the
precedence rule that is wrong in general. `FailureProvesNothing`: an exchange that
failed or was never made supports neither conclusion.

**`LoggerControlProofs`** (`ClicksAssumption` and those of the extended modules).
`DeviceReadRight` cites `LoggerApiProofs`; `TrafficIsBounded` needs the budget that
counts, besides commands and timers, the stop commands whose acknowledgment may still
come. `ComposedService` shows that the composition takes only steps of `EkinoxLogger`,
so what is proved of the handlers alone carries over: `ComposedRefinement`,
`ComposedSafety` and `ComposedAck`.

### What the liveness properties rest on

Liveness under fairness and `ENABLED` are out of the proof system's reach. What fairness
is not needed for is proved, for every value of the constants, and so are the two
arguments a fairness assumption is combined with:

| Property (TLC) | Theorem | What it says |
|---|---|---|
| `StopTerminates` | `EkinoxTimingProofs!StopCountsDown` | the main thread has at most 14 + `MaxDrain` steps left after the signal, and each uses one up |
| `EveryCommandAnswered` | `BacklogCountsDown` | six units of work per queued message; every step of drain and handlers takes from it, only an arrival adds to it, zero means all are answered |
| `SilenceReopens` | `SilenceCounts` | overdue polls count up to the threshold, and nothing but a poll in time, an end or an opening takes the count back |
| `StopReturns` | `GuiClientProofs!StopCountsDown`, `JoinNeverStuck` | at most 21 steps of the worker; while `stop()` joins, the worker is done or has a step to take |
| `PingSettles` | `PendingIsTimed` | every pending ping has a timer, and a timer that has run settles its ping |
| `DeadReadsOffline` | `DeathLeavesWill` | a dead process has its will due unless the broker does not read online, and nothing turns it online again |
| `StopReturnsOnTraffic` | `BackendProofs!StopCountsDown`, `StopHangsOnlyInConsume` | at most sixteen steps; somebody has one to take unless `consume_message` waits on a live session, which is the hang of `backend_stop` |
| `ControlsFollowDevice` | `TruthSettles` | what the device does reaches service, broker and window in three steps, and no command, reply or refresh takes it back |

Where a theorem says that a thread has a step to take, the predicate (`ConnectReady`,
`WorkerReady`, ...) is written from the guards of the thread's actions; TLC has compared
it with `ENABLED` on the small instances.

Model-checked only: that these steps are taken, hence every liveness property as it
stands, and `PresenceRecovers`, `FramesRestoreLink`, `Retries` and `Reconnects`
altogether. Induction over data and RECURSIVE operators are also out of reach of the
provers; the modules use neither.

## 6. Plan and limits

All modules of the plan are written: `EkinoxHealth`, `CommandService`, `EkinoxLogger`,
`EkinoxSensor`, `GuiClient`, then `LoggerApi`, `Backend` and the composition
`LoggerControl`. An abstract presence specification was planned; so far both services
are asked the same `DeadReadsOffline`, which is what a subscriber relies on. What is left:
that specification, implemented by `EkinoxHealth` and `Backend`, and the safety halves of
the four recovery properties section 5 ends with.

Not modelled, and why:

* Configuration parsing but for the validation of the timeouts: it runs once, before
  any thread starts, and its results are constants here.
* JSON layout, texts, URLs, logging: no property depends on them.
* The back-end's presence, status and heartbeat in the window: they set labels and log
  lines and reach no decision of it.
* The destructors of `MqttPahoClient` and `MainWindow`: `stop()` once more.
* The data race on `client_` in `stop()`: a torn shared pointer has no outcome a model
  could list.
* `config_dump_main.cpp`, `sbg_smoke.cpp` (print and exit) and the window's layout.
