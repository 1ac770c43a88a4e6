-------------------------------- MODULE Backend --------------------------------
(***************************************************************************)
(* The back-end: MqttBackendClient with its connect thread and heartbeat   *)
(* thread, and main, which waits for ENTER, stops the client and returns.  *)
(* An exception that leaves the heartbeat thread ends the process.         *)
(*                                                                         *)
(* External: the network between back-end and broker, the broker with the  *)
(* back-end's last will and its retained presence, and the Paho client:    *)
(* publish and subscribe throw without a connection, a lost connection     *)
(* puts null into the consumer's queue, start_consuming empties it.  The   *)
(* broker survives; a message in flight when the connection breaks is lost *)
(* or was delivered just before.                                           *)
(***************************************************************************)
EXTENDS Naturals, Sequences

CONSTANT MaxQueue    \* bound: commands waiting in the consumer's queue

ASSUME QueueAssumption == MaxQueue \in Nat \ {0}

VARIABLES
    proc,        \* the process: "alive", "ended", "killed", "crashed"
    mpc,         \* main
    tpc,         \* connect thread, run_connect_loop
    hpc,         \* heartbeat thread, publish_heartbeat_loop
    connected,   \* st_.connected
    stop,        \* stop_requested_
    queue,       \* the consumer's queue
    consuming,   \* start_consuming() has been called
    link,        \* the MQTT connection of client_
    subscribed,  \* the broker has this session's subscription
    reach,       \* the broker can be reached
    will,        \* the session's last will: "none", "armed", "due"
    inflight,    \* an "online" is on its way to the broker
    retained,    \* the presence the broker retains
    disturbed    \* history: a handler threw on a connection that was up

client == <<queue, consuming, link, subscribed>>
broker == <<reach, will, inflight, retained>>
vars == <<proc, mpc, tpc, hpc, connected, stop, client, broker, disturbed>>

\* A command that is answered, whatever the answer; one whose type is no string
\* or whose root is no object, on which the handler throws; the null message.
Commands == {"plain", "odd"}
Messages == Commands \cup {"null"}

ConnectPcs == {"loop", "connect", "mark", "announce", "consuming", "subscribe",
               "check", "consume", "handle_plain", "handle_odd", "caught", "after",
               "sleep", "exited"}

TypeOK ==
    /\ proc \in {"alive", "ended", "killed", "crashed"}
    /\ mpc \in {"getline", "join_connect", "join_heartbeat", "disconnect", "destroy", "ended"}
    /\ tpc \in ConnectPcs
    /\ hpc \in {"top", "publish", "sleep", "exited"}
    /\ connected \in BOOLEAN /\ stop \in BOOLEAN
    /\ queue \in Seq(Messages) /\ Len(queue) <= MaxQueue + 1
    /\ consuming \in BOOLEAN /\ link \in {"up", "down"} /\ subscribed \in BOOLEAN
    /\ reach \in BOOLEAN /\ will \in {"none", "armed", "due"} /\ inflight \in BOOLEAN
    /\ retained \in {"none", "online", "offline"}
    /\ disturbed \in BOOLEAN

Init ==
    /\ proc = "alive" /\ mpc = "getline" /\ tpc = "loop" /\ hpc = "top"
    /\ connected = FALSE /\ stop = FALSE
    /\ queue = <<>> /\ consuming = FALSE /\ link = "down" /\ subscribed = FALSE
    /\ reach \in BOOLEAN
    /\ will = "none" /\ inflight = FALSE
    /\ retained \in {"none", "online", "offline"}
    /\ disturbed = FALSE

Alive == proc = "alive"

-----------------------------------------------------------------------------
(* The connect thread.                                                      *)

At(label) == Alive /\ tpc = label

ThreadFrame == UNCHANGED <<proc, mpc, hpc, stop, reach>>

Loop ==
    /\ At("loop")
    /\ tpc' = IF stop THEN "exited" ELSE "connect"
    /\ ThreadFrame
    /\ UNCHANGED <<connected, client, will, inflight, retained, disturbed>>

\* connect()->wait() throws: no broker, or the client still is connected.
ConnectThrows ==
    /\ At("connect") /\ (~reach \/ link = "up")
    /\ tpc' = "caught"
    /\ ThreadFrame
    /\ UNCHANGED <<connected, client, will, inflight, retained, disturbed>>

\* Mutant: the connect options carry no will.
ConnectReturnsWithoutWill ==
    /\ At("connect") /\ reach /\ link = "down"
    /\ link' = "up" /\ subscribed' = FALSE
    /\ tpc' = "mark"
    /\ ThreadFrame
    /\ UNCHANGED <<connected, queue, consuming, will, inflight, retained, disturbed>>

\* A new session.  If the will of the last one is still due, the broker
\* publishes it before it accepts the same client id again.
ConnectReturns ==
    /\ At("connect") /\ reach /\ link = "down"
    /\ link' = "up" /\ subscribed' = FALSE
    /\ will' = "armed"
    /\ retained' = IF will = "due" THEN "offline" ELSE retained
    /\ tpc' = "mark"
    /\ ThreadFrame
    /\ UNCHANGED <<connected, queue, consuming, inflight, disturbed>>

\* The library may as well accept the call and leave the session as it is.
ConnectAgain ==
    /\ At("connect") /\ link = "up"
    /\ tpc' = "mark"
    /\ ThreadFrame
    /\ UNCHANGED <<connected, client, will, inflight, retained, disturbed>>

Mark ==
    /\ At("mark")
    /\ connected' = TRUE
    /\ tpc' = "announce"
    /\ ThreadFrame
    /\ UNCHANGED <<client, will, inflight, retained, disturbed>>

\* Mutant: the presence is published without the retained flag.
AnnounceUnretained ==
    /\ At("announce")
    /\ tpc' = IF link = "up" THEN "consuming" ELSE "caught"
    /\ ThreadFrame
    /\ UNCHANGED <<connected, client, will, inflight, retained, disturbed>>

\* publish_presence_online and publish_status_retained.
Announce ==
    /\ At("announce")
    /\ IF link = "up" THEN tpc' = "consuming" /\ inflight' = TRUE
                      ELSE tpc' = "caught" /\ UNCHANGED inflight
    /\ ThreadFrame
    /\ UNCHANGED <<connected, client, will, retained, disturbed>>

\* subscribe_cmd, first half ...
StartConsuming ==
    /\ At("consuming")
    /\ queue' = <<>> /\ consuming' = TRUE
    /\ tpc' = "subscribe"
    /\ ThreadFrame
    /\ UNCHANGED <<connected, link, subscribed, will, inflight, retained, disturbed>>

\* Mutant: subscribe() is not waited for.
SubscribeUnwaited ==
    /\ At("subscribe")
    /\ subscribed' = (link = "up")
    /\ tpc' = "check"
    /\ ThreadFrame
    /\ UNCHANGED <<connected, queue, consuming, link, will, inflight, retained, disturbed>>

\* ... and second half.
Subscribe ==
    /\ At("subscribe")
    /\ subscribed' = (link = "up")
    /\ tpc' = IF link = "up" THEN "check" ELSE "caught"
    /\ ThreadFrame
    /\ UNCHANGED <<connected, queue, consuming, link, will, inflight, retained, disturbed>>

\* Mutant: the message loop does not look at stop_requested_.
CheckNever ==
    /\ At("check")
    /\ tpc' = "consume"
    /\ ThreadFrame
    /\ UNCHANGED <<connected, client, will, inflight, retained, disturbed>>

\* while (!stop_requested_) of the message loop
Check ==
    /\ At("check")
    /\ tpc' = IF stop THEN "after" ELSE "consume"
    /\ ThreadFrame
    /\ UNCHANGED <<connected, client, will, inflight, retained, disturbed>>

\* Mutant: the message is used without looking whether it is null.
ConsumeUnchecked ==
    /\ At("consume") /\ queue # <<>>
    /\ tpc' = CASE Head(queue) = "null"  -> "handle_null"
                [] Head(queue) = "plain" -> "handle_plain"
                [] Head(queue) = "odd"   -> "handle_odd"
    /\ queue' = Tail(queue)
    /\ ThreadFrame
    /\ UNCHANGED <<connected, consuming, link, subscribed, will, inflight, retained, disturbed>>

\* consume_message() returns; it waits as long as the queue is empty.
Consume ==
    /\ At("consume") /\ queue # <<>>
    /\ tpc' = CASE Head(queue) = "null"  -> "after"
                [] Head(queue) = "plain" -> "handle_plain"
                [] Head(queue) = "odd"   -> "handle_odd"
    /\ queue' = Tail(queue)
    /\ ThreadFrame
    /\ UNCHANGED <<connected, consuming, link, subscribed, will, inflight, retained, disturbed>>

\* on_cmd_ answers and the ack is published.
Acknowledge ==
    /\ At("handle_plain")
    /\ tpc' = IF link = "up" THEN "check" ELSE "caught"
    /\ ThreadFrame
    /\ UNCHANGED <<connected, client, will, inflight, retained, disturbed>>

\* on_cmd_ throws.
HandlerThrows ==
    /\ At("handle_odd")
    /\ tpc' = "caught"
    /\ disturbed' = (disturbed \/ link = "up")
    /\ ThreadFrame
    /\ UNCHANGED <<connected, client, will, inflight, retained>>

\* Mutant: an exception ends the thread.
CaughtGivesUp ==
    /\ At("caught")
    /\ connected' = FALSE
    /\ tpc' = "exited"
    /\ ThreadFrame
    /\ UNCHANGED <<client, will, inflight, retained, disturbed>>

Caught ==
    /\ At("caught")
    /\ connected' = FALSE
    /\ tpc' = "after"
    /\ ThreadFrame
    /\ UNCHANGED <<client, will, inflight, retained, disturbed>>

After ==
    /\ At("after")
    /\ connected' = FALSE
    /\ tpc' = IF stop THEN "loop" ELSE "sleep"
    /\ ThreadFrame
    /\ UNCHANGED <<client, will, inflight, retained, disturbed>>

SleepEnds ==
    /\ At("sleep")
    /\ tpc' = "loop"
    /\ ThreadFrame
    /\ UNCHANGED <<connected, client, will, inflight, retained, disturbed>>

ConnectThread ==
    \/ Loop \/ ConnectThrows \/ ConnectReturns \/ ConnectAgain \/ Mark \/ Announce
    \/ StartConsuming \/ Subscribe \/ Check \/ Consume \/ Acknowledge
    \/ HandlerThrows \/ Caught \/ After \/ SleepEnds

-----------------------------------------------------------------------------
(* The heartbeat thread.                                                    *)

\* The process ends without DISCONNECT: the broker is left with the will.
Dies(how) ==
    /\ proc' = how
    /\ link' = "down" /\ inflight' = FALSE
    /\ will' = IF will = "armed" THEN "due" ELSE will
    /\ UNCHANGED <<mpc, tpc, hpc, connected, stop, queue, consuming, subscribed,
                   reach, retained, disturbed>>

HeartbeatFrame == UNCHANGED <<proc, mpc, tpc, connected, stop, client, broker, disturbed>>

HeartbeatTop ==
    /\ Alive /\ hpc = "top"
    /\ hpc' = IF stop THEN "exited" ELSE IF connected THEN "publish" ELSE "sleep"
    /\ HeartbeatFrame

HeartbeatPublish ==
    /\ Alive /\ hpc = "publish" /\ link = "up"
    /\ hpc' = "sleep"
    /\ HeartbeatFrame

\* publish throws and nothing catches it.
HeartbeatThrows == Alive /\ hpc = "publish" /\ link = "down" /\ Dies("crashed")

HeartbeatSleepEnds ==
    /\ Alive /\ hpc = "sleep"
    /\ hpc' = "top"
    /\ HeartbeatFrame

HeartbeatThread ==
    HeartbeatTop \/ HeartbeatPublish \/ HeartbeatThrows \/ HeartbeatSleepEnds

-----------------------------------------------------------------------------
(* main: getline, stop() and the destructor.                                *)

MainFrame == UNCHANGED <<proc, tpc, hpc, connected, client, broker, disturbed>>

Enter ==
    /\ Alive /\ mpc = "getline"
    /\ stop' = TRUE
    /\ mpc' = "join_connect"
    /\ MainFrame

JoinConnect ==
    /\ Alive /\ mpc = "join_connect" /\ tpc = "exited"
    /\ mpc' = "join_heartbeat"
    /\ UNCHANGED stop /\ MainFrame

JoinHeartbeat ==
    /\ Alive /\ mpc = "join_heartbeat" /\ hpc = "exited"
    /\ mpc' = "disconnect"
    /\ UNCHANGED stop /\ MainFrame

\* disconnect(), only when connected; a second stop() is a stop() of no threads.
Disconnect ==
    /\ Alive /\ mpc = "disconnect"
    /\ mpc' = "destroy"
    /\ IF connected /\ link = "up"
       THEN /\ link' = "down" /\ will' = "none" /\ inflight' = FALSE
            /\ retained' = IF inflight THEN "online" ELSE retained
       ELSE UNCHANGED <<link, will, inflight, retained>>
    /\ UNCHANGED <<proc, tpc, hpc, connected, stop, queue, consuming, subscribed,
                   reach, disturbed>>

\* The client is destroyed and the process returns; the library sends a
\* DISCONNECT, which discards the will, or it does not.
Destroy ==
    /\ Alive /\ mpc = "destroy"
    /\ proc' = "ended" /\ mpc' = "ended"
    /\ link' = "down"
    /\ will' \in IF will = "armed" THEN {"none", "due"} ELSE {will}
    /\ inflight' = FALSE
    /\ retained' \in IF inflight THEN {retained, "online"} ELSE {retained}
    /\ UNCHANGED <<tpc, hpc, connected, stop, queue, consuming, subscribed, reach, disturbed>>

Main == JoinConnect \/ JoinHeartbeat \/ Disconnect \/ Destroy

-----------------------------------------------------------------------------
(* Network, broker, and who sends commands or kills the process.            *)

Threads == UNCHANGED <<proc, mpc, tpc, hpc, connected, stop, disturbed>>

\* A second null behind one that is not read yet would never be read: the first
\* ends the message loop, and start_consuming empties the queue.
PutNull(q) == IF q # <<>> /\ q[Len(q)] = "null" THEN q ELSE Append(q, "null")

\* The broker cannot be reached any more; a connection that was up is lost.
Outage ==
    /\ reach
    /\ reach' = FALSE
    /\ link' = "down" /\ inflight' = FALSE
    /\ queue' = IF link = "up" /\ consuming THEN PutNull(queue) ELSE queue
    /\ will' = IF will = "armed" THEN "due" ELSE will
    /\ Threads
    /\ UNCHANGED <<consuming, subscribed, retained>>

Restore == ~reach /\ reach' = TRUE /\ Threads /\ UNCHANGED <<client, will, inflight, retained>>

WillFires ==
    /\ will = "due"
    /\ will' = "none" /\ retained' = "offline"
    /\ Threads
    /\ UNCHANGED <<client, reach, inflight>>

Deliver ==
    /\ inflight
    /\ inflight' = FALSE /\ retained' = "online"
    /\ Threads
    /\ UNCHANGED <<client, reach, will>>

Arrive ==
    /\ Alive /\ link = "up" /\ subscribed /\ Len(queue) < MaxQueue
    /\ \E m \in Commands : queue' = Append(queue, m)
    /\ Threads
    /\ UNCHANGED <<consuming, link, subscribed, broker>>

Kill == Alive /\ Dies("killed")

Ended == ~Alive /\ UNCHANGED vars

Next ==
    \/ ConnectThread \/ HeartbeatThread \/ Main \/ Enter \/ Kill
    \/ Outage \/ Restore \/ WillFires \/ Deliver \/ Arrive \/ Ended

Spec == Init /\ [][Next]_vars

\* The threads keep running, what is in flight arrives, and the broker notices
\* that a client is gone (keep-alive).
Fairness ==
    /\ WF_vars(ConnectThread) /\ WF_vars(HeartbeatThread) /\ WF_vars(Main)
    /\ WF_vars(WillFires) /\ WF_vars(Deliver)

FairSpec == Spec /\ Fairness
-----------------------------------------------------------------------------
(* Properties.                                                              *)

\* The places inside the message loop.
Handling == {"check", "consume", "handle_plain", "handle_odd"}

\* The connect thread waits for a message only on a session that can bring one:
\* a loss at any moment of connecting, subscribing or handling leaves a null in
\* the queue or an exception, never a thread that waits for ever.
WaitsOnlyForLiveSession ==
    At("consume") /\ queue = <<>> => link = "up" /\ subscribed

\* While the thread serves a session the broker shows the back-end online, once
\* what is in flight has arrived: no will of an earlier session outlasts the
\* announcement of this one.
PresenceOnlineWhileServing ==
    tpc \in Handling /\ link = "up" /\ ~inflight =>
        retained = "online"

\* A process that had a session and died comes to read offline, wherever in its
\* reconnects it died.  (One that had none may find the "online" that an earlier
\* process left when it ended with a DISCONNECT.)
DeadReadsOffline ==
    (proc \in {"killed", "crashed"} /\ consuming) ~> (retained # "online")

Serving == tpc \in {"check", "consume", "handle_plain"} /\ link = "up" /\ subscribed

\* With the broker there and no command that makes the handler throw, the
\* back-end comes to serve its commands and goes on doing so.
Reconnects == <>[](Alive /\ reach /\ ~stop /\ ~disturbed) => <>[]Serving

\* stop() returns when messages keep coming or the connection is lost.
StopReturnsOnTraffic ==
    []<>(queue # <<>> \/ link = "down") => (mpc = "join_connect" ~> ~Alive)

(* The inductive invariant behind the safety properties.                    *)

\* Room for the null that a loss puts behind a full queue.
Room == Len(queue) > MaxQueue => queue[Len(queue)] = "null"

\* In the message loop a session that is gone has left its null in the queue.
LossIsQueued ==
    /\ tpc \in Handling \cup {"subscribe"} => consuming
    /\ Alive /\ tpc \in Handling =>
           \/ link = "up" /\ subscribed
           \/ link = "down" /\ \E i \in 1..Len(queue) : queue[i] = "null"

\* The will of a live session is not due, and after the announcement of a
\* session nothing but its loss can replace it.
Announced ==
    /\ link = "up" => will = "armed"
    /\ tpc \in Handling \cup {"consuming", "subscribe"} /\ link = "up" /\ ~inflight =>
           retained = "online"

\* What follows the join of the connect thread.
Joined ==
    mpc \in {"join_heartbeat", "disconnect", "destroy", "ended"} => tpc = "exited"

\* A session that is gone has left its will, unless the broker reads offline
\* already; what was in flight went with it.  No process, no session.
WillOutlives ==
    /\ ~Alive => link = "down"
    /\ link = "down" =>
        /\ ~inflight
        /\ proc # "ended" /\ (consuming \/ tpc \in {"mark", "announce", "consuming"}) =>
               will = "due" \/ retained # "online"

\* st_.connected is set only between Mark and After.
Forgotten ==
    connected => tpc \notin {"loop", "connect", "mark", "sleep", "exited"}

IInv ==
    /\ TypeOK /\ Room /\ LossIsQueued /\ Announced /\ Joined
    /\ WillOutlives /\ Forgotten

\* main.cpp: "Press ENTER to exit...".
EnterExits == (mpc = "join_connect") ~> ~Alive

\* docs/TEST_MQTT_GUI.md, 5.2: after a broker outage everything is green again
\* without intervention, so the back-end survives the outage.
SurvivesOutage == proc # "crashed"
=============================================================================
