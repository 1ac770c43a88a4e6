---------------------------- MODULE EkinoxLogger ----------------------------
(***************************************************************************)
(* The command half of EkinoxService: the queue that the Paho callback     *)
(* fills and the main loop drains, the handlers of ping, logger.start,     *)
(* logger.stop and logger.status with every REST call they make, the       *)
(* status they publish and the acknowledgment they send.                   *)
(*                                                                         *)
(* One step is one REST call with what the handler does until its next     *)
(* one; between two steps messages arrive, the session is lost             *)
(* (connection_lost then runs on the callback thread) and the data logger, *)
(* which is also operated from its own web page, changes state.  The       *)
(* effect of a POST is such a change: it may come before its reply, after  *)
(* it or never.                                                            *)
(***************************************************************************)
EXTENDS Naturals, Sequences

CONSTANTS
    Kinds,        \* kinds of command message, see KindsAssumption
    MaxArrivals   \* bound: messages that arrive in a behaviour

LoggerKinds == {"start", "stop", "status"}
\* "unknown": a type that is not supported; "bad": JSON, type, id or ts invalid.
ASSUME KindsAssumption ==
    /\ LoggerKinds \cup {"ping"} \subseteq Kinds
    /\ Kinds \subseteq LoggerKinds \cup {"ping", "unknown", "bad"}
ASSUME ArrivalsAssumption == MaxArrivals \in Nat

VARIABLES
    device,     \* the Ekinox data logger: "idle" or "recording"
    connected,  \* connected_
    status,     \* status_: its state and recording_active
    published,  \* the status payload retained by the broker
    pending,    \* pending_commands_
    local,      \* the queue drain_commands swapped out
    current,    \* the message handle_command_message is working on
    pc,         \* the main thread
    confirmed,  \* logger_state_matches(verify_now, ...)
    ack,        \* the latest acknowledgment
    arrived,    \* number of messages that arrived
    stop,       \* stop_flag
    seen,       \* history: device states since current was taken
    flagless    \* history: the latest GET was a 2xx without a recording flag

vars == <<device, connected, status, published, pending, local, current, pc,
          confirmed, ack, arrived, stop, seen, flagless>>

DeviceStates == {"idle", "recording"}
ServiceStates == {"DISCONNECTED", "CONNECTING", "IDLE", "STARTING",
                  "RECORDING", "STOPPING", "ERROR"}
Statuses == [state : ServiceStates, recording : BOOLEAN]
Commands == [n : 1..MaxArrivals, kind : Kinds]

\* An acknowledgment: of which message, ok, and whether publish_ack found the
\* session up.  Its texts are left out.
Acks == [n : 0..MaxArrivals, kind : Kinds, ok : BOOLEAN, sent : BOOLEAN]
NoAck == [n |-> 0, kind |-> "ping", ok |-> TRUE, sent |-> FALSE]

HandlerPcs == {"dispatch", "start.precheck", "start.post", "start.conflict",
               "start.now", "start.later", "stop.precheck", "stop.post",
               "stop.post_error", "stop.now", "stop.later", "status.get"}
LoopPcs == {"top", "selftest", "drain", "tail"}
Pcs == HandlerPcs \cup LoopPcs \cup {"shutdown", "stopped", "stopped_offline"}

TypeOK ==
    /\ device \in DeviceStates
    /\ connected \in BOOLEAN
    /\ status \in Statuses
    /\ published \in Statuses
    /\ pending \in Seq(Commands)
    /\ local \in Seq(Commands)
    /\ current \in Seq(Commands)
    /\ pc \in Pcs
    /\ confirmed \in BOOLEAN
    /\ ack \in Acks
    /\ arrived \in 0..MaxArrivals
    /\ stop \in BOOLEAN
    /\ seen \in SUBSET DeviceStates
    /\ flagless \in BOOLEAN

-----------------------------------------------------------------------------
(* REST replies.                                                            *)

\* A GET: the state of the device, a 2xx without recording flag, 404, failure.
GetReplies == DeviceStates \cup {"noflag", "notfound", "error"}
Truthful(r) == r \in DeviceStates => r = device

\* A POST: 2xx, 404, 409, 500, any other failure.  A 409 says that the device
\* already is in the requested state.
PostReplies == {"ok", "notfound", "conflict", "internal", "error"}
PostTruthful(r, target) == r = "conflict" => device = target

\* Mutant: the 404 branch forgets set_state(kIdle).
GetStatusKeepsState(s, r) ==
    CASE r = "recording" -> [state |-> "RECORDING", recording |-> TRUE]
      [] r = "idle"      -> [state |-> "IDLE", recording |-> FALSE]
      [] r = "notfound"  -> [s EXCEPT !.recording = FALSE]
      [] r = "noflag"    -> s
      [] r = "error"     -> [s EXCEPT !.state = "ERROR"]

\* request_logger_state: what a reply does to status_.
GetStatus(s, r) ==
    CASE r = "recording" -> [state |-> "RECORDING", recording |-> TRUE]
      [] r \in {"idle", "notfound"} -> [state |-> "IDLE", recording |-> FALSE]
      [] r = "noflag"    -> s
      [] r = "error"     -> [s EXCEPT !.state = "ERROR"]

\* Mutant: a 404 leaves the transitional state.
PostFailedKeepsState(s, r) == IF r = "notfound" THEN s ELSE [s EXCEPT !.state = "ERROR"]

\* A POST that failed: set_state(not_found ? kIdle : kError).
PostFailed(s, r) ==
    [s EXCEPT !.state = IF r = "notfound" THEN "IDLE" ELSE "ERROR"]

-----------------------------------------------------------------------------
Init ==
    /\ device \in DeviceStates
    /\ connected = FALSE
    /\ status = [state |-> "DISCONNECTED", recording |-> FALSE]
    /\ published = status
    /\ pending = << >> /\ local = << >> /\ current = << >>
    /\ pc = "top"
    /\ confirmed = FALSE
    /\ ack = NoAck
    /\ arrived = 0
    /\ stop = FALSE
    /\ seen = {}
    /\ flagless = FALSE

\* The main thread sets status_ and publish_status publishes it if connected_.
SetAndPublish(s) ==
    /\ status' = s
    /\ published' = IF connected THEN s ELSE published

Get(r) ==
    /\ Truthful(r)
    /\ flagless' = (r = "noflag")

\* send_ack / publish_ack, after which the handler returns to the drain loop.
Ack(ok) ==
    /\ ack' = [n |-> Head(current).n, kind |-> Head(current).kind, ok |-> ok,
               sent |-> connected]
    /\ current' = << >>
    /\ pc' = "drain"

Proceed(next) == pc' = next /\ UNCHANGED <<current, ack>>

\* What no main-thread step changes.
Others == UNCHANGED <<device, connected, arrived, stop, seen>>
Queues == UNCHANGED <<pending, local>>

(* ------------------------------- the loop ------------------------------ *)

\* ensure_connection succeeds: connect_once up to its first publish_status.
Connect ==
    /\ pc = "top" /\ ~stop /\ ~connected
    /\ connected' = TRUE
    /\ status' = [state |-> "CONNECTING", recording |-> FALSE]
    /\ published' = status'
    /\ pc' = "selftest"
    /\ UNCHANGED <<device, pending, local, current, confirmed, ack, arrived,
                   stop, seen, flagless>>

ConnectFails ==
    /\ pc = "top" /\ ~stop /\ ~connected
    /\ status' = [status EXCEPT !.state = "DISCONNECTED"]
    /\ UNCHANGED <<device, connected, published, pending, local, current, pc,
                   confirmed, ack, arrived, stop, seen, flagless>>

Selftest(r) ==
    /\ pc = "selftest" /\ Get(r)
    /\ SetAndPublish(GetStatus(status, r))
    /\ Proceed("top")
    /\ UNCHANGED confirmed /\ Queues /\ Others

\* Mutant: the pending queue is copied, not swapped.
DrainCopies ==
    /\ pc = "top" /\ ~stop /\ connected
    /\ local' = pending
    /\ Proceed("drain")
    /\ UNCHANGED <<pending, status, published, confirmed, flagless>> /\ Others

\* drain_commands swaps the queues.
Drain ==
    /\ pc = "top" /\ ~stop /\ connected
    /\ local' = pending
    /\ pending' = << >>
    /\ Proceed("drain")
    /\ UNCHANGED <<status, published, confirmed, flagless>> /\ Others

\* handle_command_message(local.front()).
Take ==
    /\ pc = "drain" /\ local # << >>
    /\ current' = <<Head(local)>>
    /\ local' = Tail(local)
    /\ seen' = {device}
    /\ pc' = "dispatch"
    /\ UNCHANGED <<device, connected, status, published, pending, confirmed,
                   ack, arrived, stop, flagless>>

DrainDone ==
    /\ pc = "drain" /\ local = << >>
    /\ Proceed("tail")
    /\ UNCHANGED <<status, published, confirmed, flagless>> /\ Queues /\ Others

\* poll.timer and the periodic publish_status, each due or not.
LoopTail(r, poll, publish) ==
    /\ pc = "tail"
    /\ IF poll THEN Get(r) ELSE UNCHANGED flagless
    /\ status' = IF poll THEN GetStatus(status, r) ELSE status
    /\ published' = IF publish /\ connected THEN status' ELSE published
    /\ Proceed("top")
    /\ UNCHANGED confirmed /\ Queues /\ Others

\* The tail of run(): publish_status, then disconnect, which sets
\* kDisconnected when nobody can be told any more.
Shutdown ==
    /\ pc = "top" /\ stop
    /\ SetAndPublish(status)
    /\ Proceed(IF connected THEN "shutdown" ELSE "stopped_offline")
    /\ UNCHANGED <<confirmed, flagless>> /\ Queues /\ Others

Disconnect ==
    /\ pc = "shutdown"
    /\ IF connected
       THEN /\ status' = [status EXCEPT !.state = "DISCONNECTED"]
            /\ pc' = "stopped"
       ELSE pc' = "stopped_offline" /\ UNCHANGED status
    /\ connected' = FALSE
    /\ UNCHANGED <<device, published, pending, local, current, confirmed, ack,
                   arrived, stop, seen, flagless>>

(* -------------------------- handle_command_message --------------------- *)

\* Answers that need no device, and can_execute_logger_cmd.
DispatchAtOnce ==
    /\ pc = "dispatch"
    /\ LET kind == Head(current).kind
       IN  \/ kind = "ping" /\ Ack(TRUE)
           \/ kind \in {"unknown", "bad"} /\ Ack(FALSE)
           \/ kind \in LoggerKinds /\ ~connected /\ Ack(FALSE)
    /\ UNCHANGED <<status, published, confirmed, flagless>> /\ Queues /\ Others

DispatchLogger ==
    /\ pc = "dispatch" /\ connected
    /\ \/ Head(current).kind = "start"  /\ Proceed("start.precheck")
       \/ Head(current).kind = "stop"   /\ Proceed("stop.precheck")
       \/ Head(current).kind = "status" /\ Proceed("status.get")
    /\ UNCHANGED <<status, published, confirmed, flagless>> /\ Queues /\ Others

(* ---------------------------- handle_logger_start ---------------------- *)

StartPrecheck(r) ==
    /\ pc = "start.precheck" /\ Get(r)
    /\ LET s == GetStatus(status, r)
       IN  IF r = "recording"
           THEN SetAndPublish(s) /\ Ack(TRUE)
           ELSE SetAndPublish([s EXCEPT !.state = "STARTING"]) /\ Proceed("start.post")
    /\ UNCHANGED confirmed /\ Queues /\ Others

\* Mutant: the failing path does not publish the status.
StartPostSilent(r) ==
    /\ pc = "start.post" /\ PostTruthful(r, "recording")
    /\ CASE r = "ok"       -> Proceed("start.now") /\ UNCHANGED status
         [] r = "conflict" -> Proceed("start.conflict") /\ UNCHANGED status
         [] OTHER          -> status' = PostFailed(status, r) /\ Ack(FALSE)
    /\ UNCHANGED <<published, confirmed, flagless>> /\ Queues /\ Others

StartPost(r) ==
    /\ pc = "start.post" /\ PostTruthful(r, "recording")
    /\ CASE r = "ok"       -> Proceed("start.now") /\ UNCHANGED <<status, published>>
         [] r = "conflict" -> Proceed("start.conflict") /\ UNCHANGED <<status, published>>
         [] OTHER          -> SetAndPublish(PostFailed(status, r)) /\ Ack(FALSE)
    /\ UNCHANGED <<confirmed, flagless>> /\ Queues /\ Others

\* 409: the state is read again but the answer does not depend on it.
StartConflict(r) ==
    /\ pc = "start.conflict" /\ Get(r)
    /\ SetAndPublish(GetStatus(status, r))
    /\ Ack(TRUE)
    /\ UNCHANGED confirmed /\ Queues /\ Others

\* Mutant: logger_state_matches without has_recording_flag.
StartVerifyNowCredulous(r) ==
    /\ pc = "start.now" /\ Get(r)
    /\ status' = GetStatus(status, r)
    /\ confirmed' = (r \in {"recording", "noflag"})
    /\ Proceed("start.later")
    /\ UNCHANGED published /\ Queues /\ Others

StartVerifyNow(r) ==
    /\ pc = "start.now" /\ Get(r)
    /\ status' = GetStatus(status, r)
    /\ confirmed' = (r = "recording")
    /\ Proceed("start.later")
    /\ UNCHANGED published /\ Queues /\ Others

StartVerifyLater(r) ==
    /\ pc = "start.later" /\ Get(r)
    /\ SetAndPublish(GetStatus(status, r))
    /\ Ack(confirmed \/ r = "recording")
    /\ UNCHANGED confirmed /\ Queues /\ Others

(* ----------------------------- handle_logger_stop ---------------------- *)

StopPrecheck(r) ==
    /\ pc = "stop.precheck" /\ Get(r)
    /\ LET s == GetStatus(status, r)
       IN  IF r = "idle"
           THEN SetAndPublish(s) /\ Ack(TRUE)
           ELSE SetAndPublish([s EXCEPT !.state = "STOPPING"]) /\ Proceed("stop.post")
    /\ UNCHANGED confirmed /\ Queues /\ Others

StopPost(r) ==
    /\ pc = "stop.post" /\ PostTruthful(r, "idle")
    /\ CASE r = "ok" -> Proceed("stop.now") /\ UNCHANGED <<status, published>>
         [] r \in {"conflict", "internal"} ->
               Proceed("stop.post_error") /\ UNCHANGED <<status, published>>
         [] OTHER -> SetAndPublish(PostFailed(status, r)) /\ Ack(FALSE)
    /\ UNCHANGED <<confirmed, flagless>> /\ Queues /\ Others

\* 500 or 409: fine after all if the device reports idle.
StopPostError(r) ==
    /\ pc = "stop.post_error" /\ Get(r)
    /\ LET s == GetStatus(status, r)
       IN  IF r = "idle"
           THEN SetAndPublish(s) /\ Ack(TRUE)
           ELSE SetAndPublish(PostFailed(s, "internal")) /\ Ack(FALSE)
    /\ UNCHANGED confirmed /\ Queues /\ Others

StopVerifyNow(r) ==
    /\ pc = "stop.now" /\ Get(r)
    /\ status' = GetStatus(status, r)
    /\ confirmed' = (r = "idle")
    /\ Proceed("stop.later")
    /\ UNCHANGED published /\ Queues /\ Others

StopVerifyLater(r) ==
    /\ pc = "stop.later" /\ Get(r)
    /\ SetAndPublish(GetStatus(status, r))
    /\ Ack(confirmed \/ r = "idle")
    /\ UNCHANGED confirmed /\ Queues /\ Others

LoggerStatus(r) ==
    /\ pc = "status.get" /\ Get(r)
    /\ SetAndPublish(GetStatus(status, r))
    /\ Ack(r \notin {"notfound", "error"})
    /\ UNCHANGED confirmed /\ Queues /\ Others

(* --------------------- callback thread, device, process ---------------- *)

MainUnchanged == UNCHANGED <<local, current, pc, confirmed, ack, flagless>>
Running == pc \notin {"stopped", "stopped_offline"}

\* Mutant: messages are numbered from zero.
ArriveFromZero(kind) ==
    /\ Running /\ connected /\ arrived < MaxArrivals
    /\ arrived' = arrived + 1
    /\ pending' = Append(pending, [n |-> arrived, kind |-> kind])
    /\ UNCHANGED <<device, connected, status, published, stop, seen>> /\ MainUnchanged

\* message_arrived; with QoS 1 a duplicate arrives like any other message.
Arrive(kind) ==
    /\ Running /\ connected /\ arrived < MaxArrivals
    /\ arrived' = arrived + 1
    /\ pending' = Append(pending, [n |-> arrived + 1, kind |-> kind])
    /\ UNCHANGED <<device, connected, status, published, stop, seen>> /\ MainUnchanged

\* Mutant: connection_lost forgets the queue.
LoseConnectionAndQueue ==
    /\ Running /\ connected
    /\ connected' = FALSE
    /\ status' = [status EXCEPT !.state = "DISCONNECTED"]
    /\ pending' = << >>
    /\ UNCHANGED <<device, published, arrived, stop, seen>> /\ MainUnchanged

\* connection_lost.  pending_commands_ is kept.
LoseConnection ==
    /\ Running /\ connected
    /\ connected' = FALSE
    /\ status' = [status EXCEPT !.state = "DISCONNECTED"]
    /\ UNCHANGED <<device, published, pending, arrived, stop, seen>> /\ MainUnchanged

DeviceStep ==
    /\ Running
    /\ \E d \in DeviceStates : d # device /\ device' = d
    /\ seen' = IF current = << >> THEN seen ELSE seen \cup {device'}
    /\ UNCHANGED <<connected, status, published, pending, arrived, stop>> /\ MainUnchanged

Signal ==
    /\ Running /\ ~stop
    /\ stop' = TRUE
    /\ UNCHANGED <<device, connected, status, published, pending, arrived, seen>>
    /\ MainUnchanged

Ended == ~Running /\ UNCHANGED vars

-----------------------------------------------------------------------------
Loop ==
    \/ Connect \/ ConnectFails \/ Drain \/ DrainDone \/ Shutdown \/ Disconnect
    \/ \E r \in GetReplies :
          \/ Selftest(r)
          \/ \E poll, publish \in BOOLEAN : LoopTail(r, poll, publish)

StartStep ==
    \/ \E r \in GetReplies : \/ StartPrecheck(r) \/ StartConflict(r)
                             \/ StartVerifyNow(r) \/ StartVerifyLater(r)
    \/ \E r \in PostReplies : StartPost(r)

StopStep ==
    \/ \E r \in GetReplies : \/ StopPrecheck(r) \/ StopPostError(r)
                             \/ StopVerifyNow(r) \/ StopVerifyLater(r)
    \/ \E r \in PostReplies : StopPost(r)

Command ==
    \/ Take \/ DispatchAtOnce \/ DispatchLogger
    \/ StartStep \/ StopStep
    \/ \E r \in GetReplies : LoggerStatus(r)

Main == Loop \/ Command

Next ==
    \/ Main
    \/ \E kind \in Kinds : Arrive(kind)
    \/ LoseConnection \/ DeviceStep \/ Signal \/ Ended

Spec == Init /\ [][Next]_vars

-----------------------------------------------------------------------------
(* Safety.                                                                  *)

Service == INSTANCE CommandService WITH
    queue  <- local \o pending,
    answer <- [n |-> ack.n, kind |-> ack.kind, ok |-> ack.ok]

\* The handlers keep the promise of CommandService: commands are executed in
\* the order of arrival, also across a lost session, each is answered exactly
\* once, and an ok for a start or stop is backed by what the device really did
\* during the command.
ImplementsCommandService == Service!Spec

\* Exactly one answer per message, in the order of arrival: no message is
\* skipped or executed twice by the swap of the two queues, by a handler that
\* returns early or by a reconnect.
AnsweredInOrder == Service!AnsweredInOrder

\* When the acknowledgment of a logger command goes out, the retained status
\* is the one in memory: a client that reads it on the ack is not misled by an
\* error path that changed the state without publishing it.
AckedStatusIsPublished ==
    [][ack' # ack /\ ack'.sent /\ ack'.kind \in LoggerKinds
         => published' = status']_vars

\* Between commands the service is in STARTING or STOPPING only if the latest
\* GET answered 2xx without a recording flag: no failing path, 404, conflict or
\* lost session leaves a transitional state behind.
TransitionalStateSettles ==
    pc \in LoopPcs /\ status.state \in {"STARTING", "STOPPING"} => flagless

\* A status, in memory or retained, that says RECORDING has recording_active,
\* whatever failures, self-tests and session losses came in between.
RecordingIsActive ==
    \A s \in {status, published} : s.state = "RECORDING" => s.recording

(* Liveness.                                                                *)

\* The main thread keeps running: every REST call has a timeout.
Fairness == WF_vars(Main)
FairSpec == Spec /\ Fairness

\* Once the session holds and nobody stops the service, every command that
\* arrived is answered, those queued before an earlier loss included.
EveryCommandAnswered ==
    <>[](connected /\ ~stop) => <>[](ack.n = arrived)

(* The inductive invariant behind ImplementsCommandService.                 *)

\* A handler works on exactly one message, and drain_commands holds messages
\* only while it runs.
Shape ==
    /\ current = << >> \/ \E c \in Commands : current = <<c>>
    /\ pc \in HandlerPcs <=> current # << >>
    /\ pc \notin HandlerPcs \cup {"drain"} => local = << >>

StartPcs == {"start.precheck", "start.post", "start.conflict", "start.now", "start.later"}
StopPcs == {"stop.precheck", "stop.post", "stop.post_error", "stop.now", "stop.later"}

\* Each handler runs for its own kind of message, and what it concluded from a
\* reply the device really was at a moment since the message was taken.
Evidence ==
    /\ pc \in StartPcs => Head(current).kind = "start"
    /\ pc \in StopPcs => Head(current).kind = "stop"
    /\ pc = "status.get" => Head(current).kind = "status"
    /\ pc \in HandlerPcs => device \in seen
    /\ pc = "start.conflict" => "recording" \in seen
    /\ pc = "start.later" /\ confirmed => "recording" \in seen
    /\ pc = "stop.later" /\ confirmed => "idle" \in seen
=============================================================================
