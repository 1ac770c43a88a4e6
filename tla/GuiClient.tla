------------------------------- MODULE GuiClient -------------------------------
(***************************************************************************)
(* The ground station: MqttPahoClient, whose worker thread keeps the MQTT  *)
(* connection, and MainWindow, which lives on the GUI thread and learns    *)
(* what the worker did only from the events Qt queues for it.  The GUI     *)
(* thread runs one slot, timer or queued event at a time and is blocked    *)
(* while stop() joins the worker.                                          *)
(*                                                                         *)
(* set...() exchanges an atomic and then posts an event: the exchange and  *)
(* the post are two steps, since the other thread may run between them.    *)
(* Log lines, the back-end's own presence, status and heartbeat (which no  *)
(* control depends on) and the age of heartbeats are left out.             *)
(***************************************************************************)
EXTENDS Naturals, Sequences, FiniteSets

CONSTANTS
    Pings,      \* bound: the pings the user may send, one id each
    MaxEvents,  \* bound: queued events beyond which nothing new comes in
    MaxInbox    \* bound: messages waiting in the consumer's queue

ASSUME BoundsAssumption ==
    /\ IsFiniteSet(Pings)
    /\ MaxEvents \in Nat \ {0} /\ MaxInbox \in Nat \ {0}

ConnStates == {"Disconnected", "Connecting", "Connected", "Stopping"}

\* What became of a ping: not sent, sent, acked before it was in pendingPings_,
\* reported with its round-trip time, reported as timed out.
Fates == {"new", "sent", "missed", "ponged", "timeout"}

VARIABLES
    client,   \* the atomics and pendingPings_ of MqttPahoClient
    session,  \* the library's connection of client_
    consumer, \* the library's consumer queue of client_
    held,     \* the client that stop() copied is still the worker's client_
    broker,   \* the broker answers
    inbox,    \* messages waiting in the consumer's queue
    wpc,      \* where the worker thread is in workerLoop
    wpost,    \* the event the worker is about to post
    gpc,      \* where the GUI thread is
    gping,    \* the ping that publishCmdPing works on
    events,   \* Qt's queue for the GUI thread
    view,     \* the state of MainWindow
    timers,   \* pings whose 2 s single shot is armed
    fate,     \* history: what became of each ping
    heard     \* history: the Ekinox presence and status of this connection

netVars == <<session, consumer, broker, inbox>>
vars == <<client, netVars, held, wpc, wpost, gpc, gping, events, view, timers, fate, heard>>

Events == ({"connected", "ekPresence", "ekStatus"} \X BOOLEAN)
              \cup ({"state"} \X ConnStates)
              \cup ({"ping"} \X {"none", "rtt", "timeout"})

\* The payload of a status is left out: it is there, TRUE, or not.
Messages == ({"ekPresence"} \X BOOLEAN) \cup {<<"ekStatus", TRUE>>}
                \cup ({"ack"} \X Pings)

WorkerPcs == {"none", "top", "create", "connect", "mark", "up", "subscribe", "start",
              "check", "wait", "leave", "failed", "after", "retry", "backoff", "end",
              "exited"}

\* The pings the library has accepted.
Sent == {p \in Pings : fate[p] # "new"}

Silent == [online |-> FALSE, status |-> FALSE]

TypeOK ==
    /\ client \in [stop : BOOLEAN, connected : BOOLEAN, state : ConnStates,
                   pending : SUBSET Pings]
    /\ session \in {"none", "open", "lost", "closed"}
    /\ consumer \in {"off", "on", "deaf", "closed"}
    /\ held \in BOOLEAN /\ broker \in BOOLEAN
    /\ inbox \in Seq(Messages) /\ Len(inbox) <= MaxInbox
    /\ wpc \in WorkerPcs
    /\ wpost \in Seq(Events) /\ Len(wpost) <= 1
    /\ gpc \in {"idle", "ping_insert", "ping_emit",
                "stop_post", "stop_consuming", "stop_disconnect", "stop_join"}
    /\ gping \in SUBSET Pings
    /\ events \in Seq(Events)
    /\ view \in [state : ConnStates, canPing : BOOLEAN, ekOnline : BOOLEAN,
                 hasStatus : BOOLEAN, rtt : {"none", "rtt", "timeout"}]
    /\ fate \in [Pings -> Fates]
    /\ timers \subseteq Sent /\ client.pending \subseteq Sent
    /\ heard \in [online : BOOLEAN, status : BOOLEAN]

Init ==
    /\ client = [stop |-> FALSE, connected |-> FALSE, state |-> "Disconnected",
                 pending |-> {}]
    /\ session = "none" /\ consumer = "off" /\ held = FALSE
    /\ broker \in BOOLEAN
    /\ inbox = <<>> /\ wpc = "none" /\ wpost = <<>>
    /\ gpc = "idle" /\ gping = {} /\ events = <<>>
    /\ view = [state |-> "Disconnected", canPing |-> FALSE, ekOnline |-> FALSE,
               hasStatus |-> FALSE, rtt |-> "none"]
    /\ timers = {} /\ fate = [p \in Pings |-> "new"]
    /\ heard = Silent

-----------------------------------------------------------------------------
(* The worker thread: workerLoop.  It makes no step while it owes a post.   *)

\* setConnected and setState: the post is owed only when the value changed.
WorkerSetsConnected(v) ==
    /\ client' = [client EXCEPT !.connected = v]
    /\ wpost' = IF client.connected = v THEN <<>> ELSE <<<<"connected", v>>>>

WorkerSetsState(s) ==
    /\ client' = [client EXCEPT !.state = s]
    /\ wpost' = IF client.state = s THEN <<>> ELSE <<<<"state", s>>>>

WPost ==
    /\ wpost # <<>>
    /\ events' = events \o wpost
    /\ wpost' = <<>>
    /\ UNCHANGED <<client, netVars, held, wpc, gpc, gping, view, timers, fate, heard>>

At(label) == wpc = label /\ wpost = <<>>

\* What no step of the worker touches.
WorkerFrame == UNCHANGED <<broker, gpc, gping, events, view, timers>>

WTop ==
    /\ At("top")
    /\ wpc' = IF client.stop THEN "end" ELSE "create"
    /\ WorkerFrame
    /\ UNCHANGED <<client, session, consumer, held, inbox, wpost, fate, heard>>

\* A new async_client, then setState(Connecting).
WCreate ==
    /\ At("create")
    /\ session' = "none" /\ consumer' = "off" /\ inbox' = <<>> /\ held' = FALSE
    /\ WorkerSetsState("Connecting")
    /\ wpc' = "connect"
    /\ WorkerFrame
    /\ UNCHANGED <<fate, heard>>

\* connect()->wait() returns or throws.
WConnect ==
    /\ At("connect")
    /\ session' = IF broker THEN "open" ELSE "none"
    /\ wpc' = IF broker THEN "mark" ELSE "failed"
    /\ WorkerFrame
    /\ UNCHANGED <<client, consumer, held, inbox, wpost, fate, heard>>

WMark ==
    /\ At("mark")
    /\ WorkerSetsConnected(TRUE)
    /\ wpc' = "up"
    /\ WorkerFrame
    /\ UNCHANGED <<session, consumer, held, inbox, fate, heard>>

WUp ==
    /\ At("up")
    /\ WorkerSetsState("Connected")
    /\ wpc' = "subscribe"
    /\ WorkerFrame
    /\ UNCHANGED <<session, consumer, held, inbox, fate, heard>>

\* The seven subscribe()->wait(): they throw when the connection is gone.
WSubscribe ==
    /\ At("subscribe")
    /\ wpc' = IF session = "open" THEN "start" ELSE "failed"
    /\ WorkerFrame
    /\ UNCHANGED <<client, session, consumer, held, inbox, wpost, fate, heard>>

\* start_consuming().  When the connection broke after the last subscribe, before
\* there was a queue to put the null in, the library may never put it: the
\* consumer is then deaf to the loss.
WStart ==
    /\ At("start")
    /\ consumer' \in (IF session = "open" THEN {"on"} ELSE {"on", "deaf"})
    /\ wpc' = "check"
    /\ WorkerFrame
    /\ UNCHANGED <<client, session, held, inbox, wpost, fate, heard>>

\* Mutant: the receive loop does not look at stop_.
WCheckNever ==
    /\ At("check")
    /\ wpc' = "wait"
    /\ WorkerFrame
    /\ UNCHANGED <<client, session, consumer, held, inbox, wpost, fate, heard>>

\* while (!stop_)
WCheck ==
    /\ At("check")
    /\ wpc' = IF client.stop THEN "leave" ELSE "wait"
    /\ WorkerFrame
    /\ UNCHANGED <<client, session, consumer, held, inbox, wpost, fate, heard>>

\* consume_message() returns null: the connection is lost or was closed, or
\* stop_consuming() closed the queue.
WNull ==
    /\ At("wait") /\ inbox = <<>>
    /\ consumer = "closed" \/ (session # "open" /\ consumer = "on")
    /\ wpc' = "leave"
    /\ WorkerFrame
    /\ UNCHANGED <<client, session, consumer, held, inbox, wpost, fate, heard>>

\* An ack: the pending ping is taken out under the mutex, then the round-trip
\* time is posted.  An ack of no pending ping is only logged.
WAck(p) ==
    /\ fate' = [fate EXCEPT ![p] = IF p \in client.pending THEN "ponged"
                                   ELSE IF p \in gping /\ @ = "sent" THEN "missed" ELSE @]
    /\ client' = [client EXCEPT !.pending = @ \ {p}]
    /\ wpost' = IF p \in client.pending THEN <<<<"ping", "rtt">>>> ELSE <<>>
    /\ UNCHANGED heard

WNews(m) ==
    /\ m[1] \in {"ekPresence", "ekStatus"}
    /\ wpost' = <<m>>
    /\ heard' = IF m[1] = "ekPresence" THEN [heard EXCEPT !.online = m[2]]
                                       ELSE [heard EXCEPT !.status = m[2]]
    /\ UNCHANGED <<client, fate>>

WMessage ==
    /\ At("wait") /\ inbox # <<>>
    /\ IF Head(inbox)[1] = "ack" THEN WAck(Head(inbox)[2]) ELSE WNews(Head(inbox))
    /\ inbox' = Tail(inbox)
    /\ wpc' = "check"
    /\ WorkerFrame
    /\ UNCHANGED <<session, consumer, held>>

\* stop_consuming(), disconnect() when connected_, setConnected(false).
WLeave ==
    /\ At("leave")
    /\ consumer' = "closed"
    /\ session' = IF client.connected /\ session = "open" THEN "closed" ELSE session
    /\ inbox' = <<>>
    /\ WorkerSetsConnected(FALSE)
    /\ heard' = Silent
    /\ wpc' = "after"
    /\ WorkerFrame
    /\ UNCHANGED <<held, fate>>

\* The catch block.
WFailed ==
    /\ At("failed")
    /\ WorkerSetsConnected(FALSE)
    /\ heard' = Silent
    /\ wpc' = "after"
    /\ WorkerFrame
    /\ UNCHANGED <<session, consumer, held, inbox, fate>>

\* Mutant: a failed attempt ends the worker.
WAfterGivesUp ==
    /\ At("after")
    /\ wpc' = "end"
    /\ WorkerFrame
    /\ UNCHANGED <<client, session, consumer, held, inbox, wpost, fate, heard>>

WAfter ==
    /\ At("after")
    /\ wpc' = IF client.stop THEN "end" ELSE "retry"
    /\ WorkerFrame
    /\ UNCHANGED <<client, session, consumer, held, inbox, wpost, fate, heard>>

\* setState(Disconnected), whatever stop() has set since the test of stop_.
WRetry ==
    /\ At("retry")
    /\ WorkerSetsState("Disconnected")
    /\ wpc' = "backoff"
    /\ WorkerFrame
    /\ UNCHANGED <<session, consumer, held, inbox, fate, heard>>

\* The wait on stopCv_ ends, by stop() or by its time; the GUI thread has at
\* least 200 ms to work off its queue (the bound MaxEvents).
WBackoff ==
    /\ At("backoff")
    /\ client.stop \/ Len(events) < MaxEvents
    /\ wpc' = IF client.stop THEN "end" ELSE "top"
    /\ WorkerFrame
    /\ UNCHANGED <<client, session, consumer, held, inbox, wpost, fate, heard>>

\* client_.reset() and the last setState; connected_ is already false.
WEnd ==
    /\ At("end")
    /\ session' = "none" /\ inbox' = <<>>
    /\ WorkerSetsState(IF client.stop THEN "Stopping" ELSE "Disconnected")
    /\ wpc' = "exited"
    /\ WorkerFrame
    /\ UNCHANGED <<consumer, held, fate, heard>>

Worker == \/ WPost \/ WTop \/ WCreate \/ WConnect \/ WMark \/ WUp \/ WSubscribe
          \/ WStart \/ WCheck \/ WNull \/ WMessage \/ WLeave \/ WFailed \/ WAfter
          \/ WRetry \/ WBackoff \/ WEnd

-----------------------------------------------------------------------------
(* The GUI thread.  Slots, timers and queued events run when it is idle.    *)

GuiIdle == gpc = "idle"

Post(e) == events' = Append(events, e)

PostIf(changed, e) == events' = IF changed THEN Append(events, e) ELSE events

\* What no step of the GUI thread touches.
GuiFrame == UNCHANGED <<broker, inbox, wpost, heard>>

\* connectToBroker: nothing more than a log line while the worker is joinable.
ConnectToBroker ==
    IF wpc # "none"
    THEN UNCHANGED <<client, events, wpc>>
    ELSE /\ client' = [client EXCEPT !.stop = FALSE, !.connected = FALSE,
                                     !.state = "Connecting"]
         /\ PostIf(client.state # "Connecting", <<"state", "Connecting">>)
         /\ wpc' = "top"

\* onConnectClicked on a disconnected window.
ConnectClicked ==
    /\ GuiIdle /\ view.state = "Disconnected"
    /\ ConnectToBroker
    /\ GuiFrame
    /\ UNCHANGED <<session, consumer, held, gpc, gping, view, timers, fate>>

\* onConnectClicked on the other states the button is enabled in: stop() sets
\* stop_ and exchanges state_ ...
StopClicked ==
    /\ GuiIdle /\ view.state \in {"Connecting", "Connected"}
    /\ client' = [client EXCEPT !.stop = TRUE, !.state = "Stopping"]
    /\ gpc' = IF client.state = "Stopping" THEN "stop_consuming" ELSE "stop_post"
    /\ held' = FALSE
    /\ GuiFrame
    /\ UNCHANGED <<session, consumer, wpc, gping, events, view, timers, fate>>

\* ... posts the new state ...
StopPost ==
    /\ gpc = "stop_post"
    /\ Post(<<"state", "Stopping">>)
    /\ gpc' = "stop_consuming"
    /\ GuiFrame
    /\ UNCHANGED <<client, session, consumer, held, wpc, gping, view, timers, fate>>

\* ... copies client_ and stops its consumer ...
StopConsuming ==
    /\ gpc = "stop_consuming"
    /\ held' = TRUE
    /\ consumer' = "closed"
    /\ gpc' = "stop_disconnect"
    /\ GuiFrame
    /\ UNCHANGED <<client, session, wpc, gping, events, view, timers, fate>>

\* ... disconnects the client it copied, notifies the worker ...
StopDisconnect ==
    /\ gpc = "stop_disconnect"
    /\ session' = IF held /\ client.connected /\ session = "open" THEN "closed" ELSE session
    /\ gpc' = "stop_join"
    /\ GuiFrame
    /\ UNCHANGED <<client, consumer, held, wpc, gping, events, view, timers, fate>>

\* Mutant: the pending pings of the old connection are kept.
StopJoinKeepsPings ==
    /\ gpc = "stop_join"
    /\ wpc \in {"none", "exited"} /\ wpost = <<>>
    /\ wpc' = "none"
    /\ client' = [client EXCEPT !.connected = FALSE, !.state = "Disconnected"]
    /\ session' = "none"
    /\ PostIf(client.state # "Disconnected", <<"state", "Disconnected">>)
    /\ gpc' = "idle" /\ held' = FALSE
    /\ GuiFrame
    /\ UNCHANGED <<consumer, gping, view, timers, fate>>

\* ... and, once the worker has ended, clears what is left of the connection.
StopJoin ==
    /\ gpc = "stop_join"
    /\ wpc \in {"none", "exited"} /\ wpost = <<>>
    /\ wpc' = "none"
    /\ client' = [client EXCEPT !.connected = FALSE, !.state = "Disconnected",
                                !.pending = {}]
    /\ session' = "none"
    /\ PostIf(client.state # "Disconnected", <<"state", "Disconnected">>)
    /\ gpc' = "idle" /\ held' = FALSE
    /\ GuiFrame
    /\ UNCHANGED <<consumer, gping, view, timers, fate>>

\* Mutant: a ping the library refused is waited for all the same.
PingClickedRefused(p) ==
    /\ GuiIdle /\ view.canPing /\ fate[p] = "new"
    /\ view.state = "Connected" /\ client.connected
    /\ fate' = IF session = "open" THEN [fate EXCEPT ![p] = "sent"] ELSE fate
    /\ gping' = {p}
    /\ gpc' = "ping_insert"
    /\ GuiFrame
    /\ UNCHANGED <<client, session, consumer, held, wpc, events, view, timers>>

\* onPingClicked and publishCmdPing up to publish(), when the library accepts
\* the message.  When it refuses, the connection being gone, or the window is
\* not connected, nothing but a log line comes of the click.
PingClicked(p) ==
    /\ GuiIdle /\ view.canPing /\ fate[p] = "new"
    /\ view.state = "Connected" /\ client.connected
    /\ fate' = [fate EXCEPT ![p] = "sent"]
    /\ gping' = {p}
    /\ gpc' = "ping_insert"
    /\ GuiFrame
    /\ UNCHANGED <<client, session, consumer, held, wpc, events, view, timers>>

PingInsert ==
    /\ gpc = "ping_insert"
    /\ client' = [client EXCEPT !.pending = @ \cup gping]
    /\ gpc' = "ping_emit"
    /\ GuiFrame
    /\ UNCHANGED <<session, consumer, held, wpc, gping, events, view, timers, fate>>

\* Mutant: no timer is armed.
PingEmitUntimed ==
    /\ gpc = "ping_emit"
    /\ Post(<<"ping", "none">>)
    /\ gping' = {} /\ gpc' = "idle"
    /\ GuiFrame
    /\ UNCHANGED <<client, session, consumer, held, wpc, view, timers, fate>>

PingEmit ==
    /\ gpc = "ping_emit"
    /\ Post(<<"ping", "none">>)
    /\ timers' = timers \cup gping
    /\ gping' = {} /\ gpc' = "idle"
    /\ GuiFrame
    /\ UNCHANGED <<client, session, consumer, held, wpc, view, fate>>

\* Mutant: the timeout is reported whether or not the ping was still pending.
HandlePingTimeoutAlways(p) ==
    /\ GuiIdle /\ p \in timers
    /\ timers' = timers \ {p}
    /\ client' = [client EXCEPT !.pending = @ \ {p}]
    /\ fate' = IF ~client.stop THEN [fate EXCEPT ![p] = "timeout"] ELSE fate
    /\ PostIf(~client.stop, <<"ping", "timeout">>)
    /\ GuiFrame
    /\ UNCHANGED <<session, consumer, held, wpc, gpc, gping, view>>

HandlePingTimeout(p) ==
    LET reported == p \in client.pending /\ ~client.stop
    IN  /\ GuiIdle /\ p \in timers
        /\ timers' = timers \ {p}
        /\ client' = [client EXCEPT !.pending = @ \ {p}]
        /\ fate' = IF reported THEN [fate EXCEPT ![p] = "timeout"] ELSE fate
        /\ PostIf(reported, <<"ping", "timeout">>)
        /\ GuiFrame
        /\ UNCHANGED <<session, consumer, held, wpc, gpc, gping, view>>

\* Mutant: the Ekinox presence of the lost connection is kept.
OnConnectedKeepsPresence(v, connected) ==
    IF connected THEN [v EXCEPT !.canPing = TRUE]
    ELSE [v EXCEPT !.canPing = FALSE, !.hasStatus = FALSE]

OnConnectedChanged(v, connected) ==
    IF connected THEN [v EXCEPT !.canPing = TRUE]
    ELSE [v EXCEPT !.canPing = FALSE, !.ekOnline = FALSE, !.hasStatus = FALSE]

\* A queued event runs: the slots of MainWindow.
HandleEvent ==
    /\ GuiIdle /\ events # <<>>
    /\ LET kind == Head(events)[1]
           what == Head(events)[2]
       IN  view' = CASE kind = "connected"  -> OnConnectedChanged(view, what)
                     [] kind = "state"      -> [view EXCEPT !.state = what]
                     [] kind = "ekPresence" -> [view EXCEPT !.ekOnline = what]
                     [] kind = "ekStatus"   -> [view EXCEPT !.hasStatus = what]
                     [] kind = "ping"       -> [view EXCEPT !.rtt = what]
    /\ events' = Tail(events)
    /\ GuiFrame
    /\ UNCHANGED <<client, session, consumer, held, wpc, gpc, gping, timers, fate>>

StopStep == StopPost \/ StopConsuming \/ StopDisconnect \/ StopJoin

PingStep == PingInsert \/ PingEmit

Gui == StopStep \/ PingStep \/ HandleEvent

Timer == \E p \in Pings : HandlePingTimeout(p)

\* The user acts on a window that has caught up but for MaxEvents events: Qt runs
\* posted events before it takes input.
User ==
    /\ Len(events) < MaxEvents
    /\ \/ ConnectClicked
       \/ StopClicked
       \/ \E p \in Pings : PingClicked(p)

-----------------------------------------------------------------------------
(* The broker and the network.                                              *)

Outside == UNCHANGED <<client, consumer, held, wpc, wpost, gpc, gping, events, view,
                       timers, fate, heard>>

\* The broker stops or the network drops, and comes back.
Drop ==
    /\ broker' = FALSE
    /\ session' = IF session = "open" THEN "lost" ELSE session
    /\ broker \/ session = "open"
    /\ UNCHANGED inbox /\ Outside

Restore == ~broker /\ broker' = TRUE /\ UNCHANGED <<session, inbox>> /\ Outside

\* A message for the subscribed client: news of the Ekinox, or an ack of a ping
\* (each ping may be acked several times: two services answer, at QoS 1).
Deliver ==
    /\ session = "open" /\ wpc \in {"start", "check", "wait"}
    /\ Len(inbox) < MaxInbox /\ Len(events) < MaxEvents
    /\ \E m \in Messages : /\ m[1] = "ack" => m[2] \in Sent
                           /\ inbox' = Append(inbox, m)
    /\ UNCHANGED <<session, broker>> /\ Outside

Next == Worker \/ Gui \/ Timer \/ User \/ Drop \/ Restore \/ Deliver

Spec == Init /\ [][Next]_vars

\* Both threads keep running and a timer expires.
Fairness ==
    /\ WF_vars(Worker) /\ WF_vars(Gui)
    /\ \A p \in Pings : SF_vars(HandlePingTimeout(p))

FairSpec == Spec /\ Fairness
-----------------------------------------------------------------------------
(* Properties.                                                              *)

\* Nothing is queued for the GUI thread and no thread is about to post.
Settled == GuiIdle /\ events = <<>> /\ wpost = <<>>

\* Once the queued events have run, the window shows the connection as it is and
\* the controls stand on what this connection heard, however the posts of the
\* two threads fell between each other, links dropped and stops came.
WindowCatchesUp ==
    Settled => /\ view.state = client.state
               /\ view.canPing = client.connected
               /\ view.ekOnline = heard.online
               /\ view.hasStatus = heard.status

\* A ping gets one verdict: the ack handler on the worker and the timer on the
\* GUI thread never both report it.
OneVerdict ==
    [][\A p \in Pings : fate[p] \in {"ponged", "timeout"} => fate'[p] = fate[p]]_vars

\* A stop leaves nothing behind: no worker, no pending ping that a later
\* connection would report.
StopLeavesNothing ==
    GuiIdle /\ client.stop => wpc = "none" /\ client.pending = {} /\ ~client.connected

\* stop() blocks the GUI thread on the worker's join; it returns whatever the
\* worker was waiting for.
StopReturns == (gpc = "stop_join") ~> GuiIdle

\* A lost connection is retried until it is up again, and the window says so.  Only
\* a loss the consumer is deaf to is not noticed: line 474 subscribes before line
\* 476 starts the consumer.
Retries ==
    <>[](broker /\ wpc # "none" /\ ~client.stop /\ consumer # "deaf") =>
        <>[](session = "open" /\ view.state = "Connected")

\* A ping does not stay pending.
PingSettles == \A p \in Pings : (p \in client.pending) ~> (p \notin client.pending)

\* docs/TEST_MQTT_GUI.md: after a ping the log shows its pong and "Last Ping RTT"
\* the measured time, so a ping whose ack came in time is not shown otherwise.
PingShowsItsTime ==
    Settled /\ Sent # {} /\ (\A p \in Sent : fate[p] \in {"ponged", "missed"}) =>
        view.rtt = "rtt"

-----------------------------------------------------------------------------
(* The inductive invariant behind the safety properties.                    *)

StopPcs == {"stop_post", "stop_consuming", "stop_disconnect", "stop_join"}

\* Where the threads may be together: stop_ is set while stop() runs and as long
\* as the worker is past its loop; a session counts as connected only between
\* WMark and WLeave or WFailed, and only it has been heard from.  When stop() has
\* closed the consumer, the worker does not wait on another one.
Phases ==
    /\ gpc \in {"ping_insert", "ping_emit"} => ~client.stop
    /\ gpc \in StopPcs => client.stop
    /\ wpc \in {"end", "exited"} => client.stop
    /\ wpc = "none" => wpost = <<>>
    /\ wpc \in {"none", "top", "create", "connect", "mark",
               "after", "retry", "backoff", "end", "exited"} => ~client.connected
    /\ wpc \in {"up", "subscribe", "start", "check", "wait", "leave"} => client.connected
    /\ wpc \notin {"check", "wait", "leave"} /\ ~client.connected => heard = Silent
    /\ gpc \in StopPcs /\ wpc \in {"none", "exited"} => client.state = "Stopping"
    /\ gpc \in {"stop_disconnect", "stop_join"} /\ wpc = "wait" => consumer = "closed"

\* A pending ping has no verdict yet and its timer runs or is about to be armed;
\* the ping in the GUI thread's hands is not pending before it is entered.
PingBook ==
    /\ gping \subseteq Sent
    /\ gpc \notin {"ping_insert", "ping_emit"} => gping = {}
    /\ \A p \in client.pending : fate[p] \in {"sent", "missed"}
    /\ client.pending \subseteq timers \cup gping
    /\ gpc = "ping_insert" => \A p \in gping : /\ fate[p] \in {"sent", "missed"}
                                              /\ p \notin client.pending

\* The events that set each of the window's fields, all of them to what they carry.
StateEvents == {"state"} \X ConnStates
ConnectedEvents == {"connected"} \X BOOLEAN
OnlineEvents == ({"ekPresence"} \X BOOLEAN) \cup {<<"connected", FALSE>>}
StatusEvents == ({"ekStatus"} \X BOOLEAN) \cup {<<"connected", FALSE>>}

\* A field of the window that shows v now will show value once the queue has run.
Ends(queue, setters, v, value) ==
    /\ (\A i \in 1..Len(queue) : queue[i] \notin setters) => v = value
    /\ \A i \in 1..Len(queue) :
           queue[i] \in setters /\ (\A k \in (i + 1)..Len(queue) : queue[k] \notin setters)
               => queue[i][2] = value

\* ... or the post that the worker still owes brings it.
Follows(owed, queue, setters, v, value) ==
    IF owed # <<>> /\ Head(owed) \in setters
    THEN Head(owed)[2] = value
    ELSE Ends(queue, setters, v, value)

CatchingUp ==
    /\ gpc \notin StopPcs => Follows(wpost, events, StateEvents, view.state, client.state)
    /\ Follows(wpost, events, ConnectedEvents, view.canPing, client.connected)
    /\ Follows(wpost, events, OnlineEvents, view.ekOnline, heard.online)
    /\ Follows(wpost, events, StatusEvents, view.hasStatus, heard.status)

IInv == TypeOK /\ Phases /\ StopLeavesNothing /\ PingBook /\ CatchingUp
=============================================================================
