---------------------------- MODULE LoggerControl ----------------------------
(***************************************************************************)
(* The operator's path to the data logger, end to end: the Start and Stop  *)
(* buttons of MainWindow, the commands they publish, EkinoxService and its *)
(* handlers (EkinoxLogger), the device's replies as EkinoxLoggerApi reads  *)
(* them (LoggerApi), the acknowledgments and the retained status on their  *)
(* way back, and the status refresh that the window asks for one second    *)
(* after a click and after a stop acknowledgment.                          *)
(*                                                                         *)
(* The window sees the retained status late; the broker keeps the order of *)
(* one topic, so what it sees is the status of an earlier moment.  The     *)
(* acknowledgments of the other service that answers on the same topic     *)
(* carry no type, which the window ignores.                                *)
(***************************************************************************)
EXTENDS EkinoxLogger, LoggerApi

CONSTANTS
    MaxClicks     \* bound: presses of Start or Stop in a behaviour

\* Room for every command the clicks can cause: MaxArrivals cuts nothing off.
ASSUME ClicksAssumption == MaxClicks \in Nat /\ MaxArrivals >= 3 * MaxClicks + 1

VARIABLES
    linked,   \* the window: clientState_ = Connected
    online,   \* the window: ekinoxPresenceOnline_
    shows,    \* the window: hasEkinoxStatus_ && recording_active of the last one
    timers,   \* the window: single-shot timers of requestDeferredStatusRefresh
    acks,     \* acknowledgments of logger.stop on their way to the window
    clicks    \* number of presses that published a command

window == <<linked, online, shows, timers, acks, clicks>>
all == <<vars, window>>

ControlTypeOK ==
    /\ TypeOK
    /\ linked \in BOOLEAN /\ online \in BOOLEAN /\ shows \in BOOLEAN
    /\ timers \in Nat /\ acks \in Nat
    /\ clicks \in 0..MaxClicks

ControlInit ==
    /\ Init
    /\ linked = FALSE /\ online = FALSE /\ shows = FALSE
    /\ timers = 0 /\ acks = 0 /\ clicks = 0

\* updateLoggerControls.
EnableStart == linked /\ online /\ ~shows
EnableStop == linked /\ online /\ shows

-----------------------------------------------------------------------------
(* The service, with the replies of a device that answers as documented, or *)
(* not at all.                                                              *)

Answers ==
    [d \in DeviceStates |->
        {GetClass(DataLoggerGet(TRUE, 80, TRUE, 200, {o})) : o \in Documented(d)}
            \cup {GetClass(DataLoggerGet(TRUE, 80, FALSE, 0, {}))}]

\* One GET of the service.
GetStep(r) ==
    \/ Selftest(r) \/ \E poll, publish \in BOOLEAN : LoopTail(r, poll, publish)
    \/ StartPrecheck(r) \/ StartConflict(r) \/ StartVerifyNow(r) \/ StartVerifyLater(r)
    \/ StopPrecheck(r) \/ StopPostError(r) \/ StopVerifyNow(r) \/ StopVerifyLater(r)
    \/ LoggerStatus(r)

OtherStep ==
    \/ Connect \/ ConnectFails \/ Drain \/ DrainDone
    \/ Take \/ DispatchAtOnce \/ DispatchLogger
    \/ \E r \in PostReplies \ {"notfound"} : StartPost(r) \/ StopPost(r)

\* Mutant: isStopAck does not look at the type.
ServiceStepAnyAck ==
    /\ OtherStep \/ \E r \in Answers[device] : GetStep(r)
    /\ acks' = IF linked /\ ack' # ack /\ ack'.sent THEN acks + 1 ELSE acks
    /\ UNCHANGED <<linked, online, shows, timers, clicks>>

\* A step of the service; an acknowledgment of a stop travels to the window.
ServiceStep ==
    /\ OtherStep \/ \E r \in Answers[device] : GetStep(r)
    /\ acks' = IF linked /\ ack' # ack /\ ack'.sent /\ ack'.kind = "stop"
               THEN acks + 1 ELSE acks
    /\ UNCHANGED <<linked, online, shows, timers, clicks>>

\* The session of the service is lost; the device is operated by hand or does
\* late what a POST asked for.
Environment == (LoseConnection \/ DeviceStep) /\ UNCHANGED window

-----------------------------------------------------------------------------
(* The window.                                                              *)

\* publishCommandPayload: the service gets the command if it has a session.
Publish(kind) == IF connected THEN Arrive(kind) ELSE UNCHANGED vars

WindowConnects ==
    /\ ~linked
    /\ linked' = TRUE
    /\ UNCHANGED <<vars, online, shows, timers, acks, clicks>>

\* onConnectedChanged(false): what was on its way to the window is lost.
WindowDisconnects ==
    /\ linked
    /\ linked' = FALSE /\ online' = FALSE /\ shows' = FALSE /\ acks' = 0
    /\ UNCHANGED <<vars, timers, clicks>>

\* onEkinoxPresenceChanged; EkinoxHealth says when the service publishes it.
PresenceSeen ==
    /\ linked
    /\ online' = ~online
    /\ UNCHANGED <<vars, linked, shows, timers, acks, clicks>>

\* Mutant: the indicator is set by a recording status and never cleared.
StatusSeenSticky ==
    /\ linked /\ shows # published.recording
    /\ shows' = (shows \/ published.recording)
    /\ UNCHANGED <<vars, linked, online, timers, acks, clicks>>

\* onEkinoxStatusChanged.
StatusSeen ==
    /\ linked /\ shows # published.recording
    /\ shows' = published.recording
    /\ UNCHANGED <<vars, linked, online, timers, acks, clicks>>

\* onLoggerStartClicked, onLoggerStopClicked, with the deferred refresh.
Click(kind) ==
    /\ IF kind = "start" THEN EnableStart ELSE EnableStop
    /\ clicks < MaxClicks
    /\ Publish(kind)
    /\ clicks' = clicks + 1
    /\ timers' = timers + 1
    /\ UNCHANGED <<linked, online, shows, acks>>

\* onAckReceived of a stop.
StopAckSeen ==
    /\ acks > 0
    /\ acks' = acks - 1
    /\ timers' = timers + 1
    /\ UNCHANGED <<vars, linked, online, shows, clicks>>

\* Mutant: a refresh that nothing armed.
RefreshUnarmed ==
    /\ timers' = timers - 1
    /\ IF linked THEN Publish("status") ELSE UNCHANGED vars
    /\ UNCHANGED <<linked, online, shows, acks, clicks>>

\* The lambda of requestDeferredStatusRefresh.
Refresh ==
    /\ timers > 0
    /\ timers' = timers - 1
    /\ IF linked THEN Publish("status") ELSE UNCHANGED vars
    /\ UNCHANGED <<linked, online, shows, acks, clicks>>

Operator == \E kind \in {"start", "stop"} : Click(kind)
Window ==
    \/ WindowConnects \/ WindowDisconnects \/ PresenceSeen
    \/ StatusSeen \/ StopAckSeen \/ Refresh

ControlNext == ServiceStep \/ Environment \/ Operator \/ Window

ControlSpec == ControlInit /\ [][ControlNext]_all

-----------------------------------------------------------------------------
(* Safety.                                                                  *)

\* Whatever a documented reply contains, a kept session name or contradicting
\* flags included, enrich_from_json reads from it what the device does.
ReadsDevice == Answers[device] = {device, "error"}

\* A click costs the service at most three commands: the command, the refresh
\* it arms and, after the acknowledgment of a stop, one more.  Acknowledgments
\* and refreshes never feed each other.
TrafficBounded == arrived + timers <= 3 * clicks

(* Liveness.                                                                *)

\* The service runs; the poll and the publication of the status come due again
\* and again, and a device that answers is reached; the broker and the event
\* loop deliver; a single-shot timer fires.
ControlFairness ==
    /\ WF_all(ServiceStep)
    /\ SF_all(ServiceStep /\ \E publish \in BOOLEAN : LoopTail(device, TRUE, publish))
    /\ SF_all(ServiceStep /\ \E r \in Answers[device], poll \in BOOLEAN : LoopTail(r, poll, TRUE))
    /\ WF_all(StatusSeen) /\ WF_all(StopAckSeen) /\ WF_all(Refresh)

ControlFairSpec == ControlSpec /\ ControlFairness

\* When the sessions hold, the presence stays online and the device is left
\* alone, the buttons end up offering what the device allows: Stop while it
\* records, Start while it does not.
ControlsFollowDevice ==
    \A d \in DeviceStates :
        <>[](connected /\ linked /\ online /\ device = d)
            => <>[](IF d = "recording" THEN EnableStop ELSE EnableStart)

=============================================================================
