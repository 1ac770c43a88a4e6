---------------------------- MODULE GuiClientProofs ----------------------------
(***************************************************************************)
(* Proofs about GuiClient, for any finite set of pings and every bound:    *)
(* the type invariant, that a stop leaves nothing behind, that a ping gets *)
(* one verdict, and that the window catches up with the connection.        *)
(***************************************************************************)
EXTENDS GuiClient, SequenceTheorems, TLAPS

-----------------------------------------------------------------------------
(* What a queue of events leaves in a field of the window.                  *)

LEMMA EndsEmpty ==
    ASSUME NEW S, NEW v, NEW x
    PROVE  Ends(<<>>, S, v, x) <=> v = x
<1>1. \A i : ~(i \in 1..Len(<<>>))
  OBVIOUS
<1> QED BY <1>1 DEF Ends

LEMMA EndsAppendSetter ==
    ASSUME NEW q \in Seq(Events), NEW e \in Events, NEW S, e \in S, NEW v
    PROVE  Ends(Append(q, e), S, v, e[2])
<1> DEFINE r == Append(q, e)
<1>1. Len(r) \in 1..Len(r) /\ r[Len(r)] = e /\ Len(r) \in Nat
  OBVIOUS
<1> HIDE DEF r
<1>2. ASSUME NEW i \in 1..Len(r),
             \A k \in (i + 1)..Len(r) : r[k] \notin S
      PROVE  r[i][2] = e[2]
  <2>1. ~(Len(r) \in (i + 1)..Len(r))
    BY <1>1, <1>2
  <2>2. i = Len(r)
    BY <1>1, <2>1
  <2> QED BY <1>1, <2>2
<1>3. Ends(r, S, v, e[2])
  BY <1>1, <1>2 DEF Ends
<1> QED BY <1>3 DEF r

LEMMA EndsAppendOther ==
    ASSUME NEW q \in Seq(Events), NEW e \in Events, NEW S, e \notin S, NEW v, NEW x,
           Ends(q, S, v, x)
    PROVE  Ends(Append(q, e), S, v, x)
<1> DEFINE r == Append(q, e)
<1>1. /\ Len(r) = Len(q) + 1 /\ Len(q) \in Nat /\ r[Len(r)] = e
      /\ \A i \in 1..Len(q) : r[i] = q[i]
  OBVIOUS
<1> HIDE DEF r
<1>2. ASSUME \A i \in 1..Len(r) : r[i] \notin S
      PROVE  v = x
  <2>1. ASSUME NEW i \in 1..Len(q) PROVE q[i] \notin S
    BY <1>1, <1>2
  <2> QED BY <2>1 DEF Ends
<1>3. ASSUME NEW i \in 1..Len(r), r[i] \in S,
             \A k \in (i + 1)..Len(r) : r[k] \notin S
      PROVE  r[i][2] = x
  <2>1. i \in 1..Len(q) /\ r[i] = q[i]
    BY <1>1, <1>3
  <2>2. ASSUME NEW k \in (i + 1)..Len(q) PROVE q[k] \notin S
    BY <1>1, <1>3
  <2> QED BY <1>3, <2>1, <2>2 DEF Ends
<1>4. Ends(r, S, v, x)
  BY <1>2, <1>3 DEF Ends
<1> QED BY <1>4 DEF r

LEMMA EndsTail ==
    ASSUME NEW q \in Seq(Events), q # <<>>, NEW S, NEW v, NEW x, Ends(q, S, v, x)
    PROVE  Ends(Tail(q), S, IF Head(q) \in S THEN Head(q)[2] ELSE v, x)
<1> DEFINE r == Tail(q)
           w == IF q[1] \in S THEN q[1][2] ELSE v
<1>1. /\ Len(r) = Len(q) - 1 /\ Len(q) \in Nat \ {0} /\ Head(q) = q[1]
      /\ \A i \in 1..Len(r) : r[i] = q[i + 1]
  OBVIOUS
<1> HIDE DEF r
<1>2. ASSUME \A i \in 1..Len(r) : r[i] \notin S
      PROVE  w = x
  <2>1. ASSUME NEW k \in (1 + 1)..Len(q) PROVE q[k] \notin S
    <3>1. k - 1 \in 1..Len(r) /\ r[k - 1] = q[k]
      BY <1>1
    <3> QED BY <1>2, <3>1
  <2>2. CASE q[1] \in S
    BY <1>1, <2>1, <2>2 DEF Ends
  <2>3. CASE q[1] \notin S
    <3>1. ASSUME NEW i \in 1..Len(q) PROVE q[i] \notin S
      BY <1>1, <2>1, <2>3
    <3> QED BY <2>3, <3>1 DEF Ends
  <2> QED BY <2>2, <2>3
<1>3. ASSUME NEW i \in 1..Len(r), r[i] \in S,
             \A k \in (i + 1)..Len(r) : r[k] \notin S
      PROVE  r[i][2] = x
  <2>1. i + 1 \in 1..Len(q) /\ r[i] = q[i + 1]
    BY <1>1
  <2>2. ASSUME NEW k \in ((i + 1) + 1)..Len(q) PROVE q[k] \notin S
    <3>1. k - 1 \in (i + 1)..Len(r) /\ k - 1 \in 1..Len(r) /\ r[k - 1] = q[k]
      BY <1>1
    <3> QED BY <1>3, <3>1
  <2> QED BY <1>3, <2>1, <2>2 DEF Ends
<1>4. Ends(r, S, w, x)
  BY <1>2, <1>3 DEF Ends
<1> QED BY <1>1, <1>4 DEF r

-----------------------------------------------------------------------------
(* The same, with a post that is still owed.                                *)

\* The worker owes a post that sets the field to its new value, or not the field.
LEMMA OwesSetter ==
    ASSUME NEW q, NEW e, NEW S, e \in S, NEW v
    PROVE  Follows(<<e>>, q, S, v, e[2])
<1>1. <<e>> # <<>> /\ Head(<<e>>) = e
  OBVIOUS
<1> QED BY <1>1 DEF Follows

LEMMA OwesOther ==
    ASSUME NEW q, NEW e, NEW S, e \notin S, NEW v, NEW x, Follows(<<>>, q, S, v, x)
    PROVE  Follows(<<e>>, q, S, v, x)
<1>1. <<e>> # <<>> /\ Head(<<e>>) = e
  OBVIOUS
<1> QED BY <1>1 DEF Follows

\* The worker posts what it owed.
LEMMA PostsOwed ==
    ASSUME NEW q \in Seq(Events), NEW e \in Events, NEW S, NEW v, NEW x,
           Follows(<<e>>, q, S, v, x)
    PROVE  Follows(<<>>, Append(q, e), S, v, x)
<1>1. <<e>> # <<>> /\ Head(<<e>>) = e
  OBVIOUS
<1>2. CASE e \in S
  BY <1>1, <1>2, EndsAppendSetter DEF Follows
<1>3. CASE e \notin S
  BY <1>1, <1>3, EndsAppendOther DEF Follows
<1> QED BY <1>2, <1>3

\* The GUI thread posts to itself.
LEMMA PostsSetter ==
    ASSUME NEW q \in Seq(Events), NEW e \in Events, NEW S, e \in S, NEW v
    PROVE  Follows(<<>>, Append(q, e), S, v, e[2])
BY EndsAppendSetter DEF Follows

LEMMA PostsOther ==
    ASSUME NEW owed, NEW q \in Seq(Events), NEW e \in Events, NEW S, e \notin S,
           NEW v, NEW x, Follows(owed, q, S, v, x)
    PROVE  Follows(owed, Append(q, e), S, v, x)
BY EndsAppendOther DEF Follows

\* The GUI thread works off an event.
LEMMA WorksOff ==
    ASSUME NEW owed, NEW q \in Seq(Events), q # <<>>, NEW S, NEW v, NEW x,
           Follows(owed, q, S, v, x)
    PROVE  Follows(owed, Tail(q), S, IF Head(q) \in S THEN Head(q)[2] ELSE v, x)
BY EndsTail DEF Follows

\* Which events set which field.
LEMMA Setters ==
    /\ \A s \in ConnStates :
           /\ <<"state", s>> \in StateEvents /\ <<"state", s>> \in Events
           /\ <<"state", s>> \notin ConnectedEvents /\ <<"state", s>> \notin OnlineEvents
           /\ <<"state", s>> \notin StatusEvents
    /\ \A b \in BOOLEAN :
           /\ <<"connected", b>> \in ConnectedEvents /\ <<"connected", b>> \in Events
           /\ <<"connected", b>> \notin StateEvents
           /\ <<"connected", b>> \in OnlineEvents <=> b = FALSE
           /\ <<"connected", b>> \in StatusEvents <=> b = FALSE
           /\ <<"ekPresence", b>> \in OnlineEvents /\ <<"ekPresence", b>> \in Events
           /\ <<"ekPresence", b>> \notin StateEvents
           /\ <<"ekPresence", b>> \notin ConnectedEvents
           /\ <<"ekPresence", b>> \notin StatusEvents
           /\ <<"ekStatus", b>> \in StatusEvents /\ <<"ekStatus", b>> \in Events
           /\ <<"ekStatus", b>> \notin StateEvents
           /\ <<"ekStatus", b>> \notin ConnectedEvents
           /\ <<"ekStatus", b>> \notin OnlineEvents
    /\ \A r \in {"none", "rtt", "timeout"} :
           /\ <<"ping", r>> \in Events
           /\ <<"ping", r>> \notin StateEvents /\ <<"ping", r>> \notin ConnectedEvents
           /\ <<"ping", r>> \notin OnlineEvents /\ <<"ping", r>> \notin StatusEvents
BY DEF StateEvents, ConnectedEvents, OnlineEvents, StatusEvents, Events

\* A thread owes one post at most.
LEMMA OneOwed ==
    /\ <<>> \in Seq(Events) /\ Len(<<>>) <= 1
    /\ \A e \in Events : <<e>> \in Seq(Events) /\ Len(<<e>>) <= 1
OBVIOUS

\* Every event is one of these.
LEMMA EventKinds ==
    ASSUME NEW e \in Events
    PROVE  /\ e = <<e[1], e[2]>>
           /\ e[1] \in {"connected", "ekPresence", "ekStatus", "state", "ping"}
           /\ e[1] \in {"connected", "ekPresence", "ekStatus"} => e[2] \in BOOLEAN
           /\ e[1] = "state" => e[2] \in ConnStates
           /\ e[1] = "ping" => e[2] \in {"none", "rtt", "timeout"}
BY DEF Events

LEMMA MessageKinds ==
    ASSUME NEW m \in Messages
    PROVE  /\ m[1] \in {"ekPresence", "ekStatus", "ack"}
           /\ m[1] = "ack" => m[2] \in Pings
           /\ m[1] # "ack" => m \in Events /\ m = <<m[1], m[2]>> /\ m[2] \in BOOLEAN
<1>1. CASE m \in {"ack"} \X Pings
  <2>1. m[1] = "ack" /\ m[2] \in Pings
    BY <1>1
  <2> QED BY <2>1
<1>2. CASE m \in {"ekPresence"} \X BOOLEAN
  <2>1. PICK b \in BOOLEAN : m = <<"ekPresence", b>>
    BY <1>2
  <2>2. m[1] = "ekPresence" /\ m[2] = b
    BY <2>1
  <2> QED BY <2>1, <2>2, Setters
<1>3. CASE m = <<"ekStatus", TRUE>>
  <2>1. PICK b \in BOOLEAN : m = <<"ekStatus", b>>
    BY <1>3
  <2>2. m[1] = "ekStatus" /\ m[2] = b
    BY <2>1
  <2> QED BY <2>1, <2>2, Setters
<1> QED BY <1>1, <1>2, <1>3 DEF Messages

-----------------------------------------------------------------------------
(* The invariant.                                                           *)

LEMMA SilentType == Silent \in [online : BOOLEAN, status : BOOLEAN]
BY DEF Silent

LEMMA InitInvariant == Init => IInv
<1> SUFFICES ASSUME Init PROVE IInv
  OBVIOUS
<1>1. /\ inbox = <<>> /\ wpost = <<>> /\ events = <<>>
      /\ <<>> \in Seq(Messages) /\ <<>> \in Seq(Events) /\ Len(<<>>) = 0
      /\ 0 <= MaxInbox /\ 0 <= 1
  BY BoundsAssumption DEF Init
<1>2. /\ client = [stop |-> FALSE, connected |-> FALSE, state |-> "Disconnected",
                   pending |-> {}]
      /\ heard = [online |-> FALSE, status |-> FALSE]
      /\ view = [state |-> "Disconnected", canPing |-> FALSE, ekOnline |-> FALSE,
                 hasStatus |-> FALSE, rtt |-> "none"]
      /\ wpc = "none" /\ gpc = "idle" /\ gping = {}
  BY DEF Init, Silent
<1>3. TypeOK
  BY <1>1 DEF Init, TypeOK, ConnStates, WorkerPcs, Fates, Silent, Sent
<1>4. Phases /\ StopLeavesNothing /\ PingBook
  BY <1>1, <1>2 DEF Init, Phases, StopLeavesNothing, PingBook, StopPcs, GuiIdle, Silent, Sent
<1>5. ASSUME NEW S, NEW v PROVE Follows(wpost, events, S, v, v)
  BY <1>1, EndsEmpty DEF Follows
<1>6. CatchingUp
  BY <1>2, <1>5 DEF CatchingUp
<1> QED BY <1>3, <1>4, <1>6 DEF IInv

\* The steps of the worker that neither set connected_ or state_ nor take a message.
LEMMA PlainWorkerSteps ==
    ASSUME IInv, WTop \/ WConnect \/ WSubscribe \/ WStart \/ WCheck \/ WNull \/ WAfter
                 \/ WBackoff
    PROVE  IInv'
<1> USE DEF IInv, At, WorkerFrame, WTop, WConnect, WSubscribe, WStart, WCheck, WNull,
            WAfter, WBackoff
<1>1. TypeOK'
  <2>1. /\ client' = client /\ held' = held /\ broker' = broker /\ inbox' = inbox
        /\ wpost' = wpost /\ gpc' = gpc /\ gping' = gping /\ events' = events
        /\ view' = view /\ timers' = timers /\ fate' = fate /\ heard' = heard
    OBVIOUS
  <2>2. /\ session' \in {"none", "open", "lost", "closed"}
        /\ consumer' \in {"off", "on", "deaf", "closed"}
    BY DEF TypeOK
  <2>3. wpc' \in WorkerPcs
    BY DEF WorkerPcs
  <2> QED BY ONLY IInv, <2>1, <2>2, <2>3 DEF IInv, TypeOK, Sent
<1>2. Phases'
  <2>1. gpc' \in {"stop_disconnect", "stop_join"} /\ wpc' = "wait" => consumer' = "closed"
    <3>1. CASE WCheck
      BY <3>1 DEF Phases, StopPcs
    <3>2. CASE WTop \/ WConnect \/ WSubscribe \/ WStart \/ WNull \/ WAfter \/ WBackoff
      BY <3>2
    <3> QED BY <3>1, <3>2
  <2>2. CASE WTop \/ WConnect \/ WSubscribe \/ WStart
    BY <2>1, <2>2 DEF Phases
  <2>3. CASE WCheck \/ WNull \/ WAfter \/ WBackoff
    BY <2>1, <2>3 DEF Phases
  <2> QED BY <2>2, <2>3
<1>3. StopLeavesNothing'
  BY DEF StopLeavesNothing, GuiIdle
<1>4. PingBook'
  BY DEF PingBook, Sent
<1>5. CatchingUp'
  BY DEF CatchingUp
<1> QED BY <1>1, <1>2, <1>3, <1>4, <1>5

\* What the exchange of connected_ or state_ does, and the post it owes.
LEMMA ExchangeEffect ==
    ASSUME IInv, wpost = <<>>,
           \/ \E v \in BOOLEAN : WorkerSetsConnected(v)
           \/ \E s \in ConnStates : WorkerSetsState(s)
    PROVE  /\ client' \in [stop : BOOLEAN, connected : BOOLEAN, state : ConnStates,
                            pending : SUBSET Pings]
           /\ client'.stop = client.stop /\ client'.pending = client.pending
           /\ wpost' \in Seq(Events) /\ Len(wpost') <= 1
<1>1. CASE \E v \in BOOLEAN : WorkerSetsConnected(v)
  <2>1. PICK v \in BOOLEAN : WorkerSetsConnected(v)
    BY <1>1
  <2>2. wpost' = <<>> \/ wpost' = << <<"connected", v>> >>
    BY <2>1 DEF WorkerSetsConnected
  <2>3. client' = [client EXCEPT !.connected = v]
    BY <2>1 DEF WorkerSetsConnected
  <2>4. wpost' \in Seq(Events) /\ Len(wpost') <= 1
    BY ONLY <2>2, Setters, OneOwed
  <2> QED BY ONLY <2>3, <2>4, IInv DEF IInv, TypeOK
<1>2. CASE \E s \in ConnStates : WorkerSetsState(s)
  <2>1. PICK s \in ConnStates : WorkerSetsState(s)
    BY <1>2
  <2>2. wpost' = <<>> \/ wpost' = << <<"state", s>> >>
    BY <2>1 DEF WorkerSetsState
  <2>3. client' = [client EXCEPT !.state = s]
    BY <2>1 DEF WorkerSetsState
  <2>4. wpost' \in Seq(Events) /\ Len(wpost') <= 1
    BY ONLY <2>2, Setters, OneOwed
  <2> QED BY ONLY <2>3, <2>4, IInv DEF IInv, TypeOK
<1> QED BY <1>1, <1>2

\* After an exchange of connected_ the fields still follow, once the presence and
\* the status of a session that ends are forgotten.
LEMMA ConnectedFollows ==
    ASSUME IInv, wpost = <<>>, NEW v \in BOOLEAN, WorkerSetsConnected(v),
           events' = events, view' = view, gpc' = gpc,
           heard' = IF v THEN heard ELSE Silent,
           ~v /\ ~client.connected => heard = Silent
    PROVE  CatchingUp'
<1>1. client' = [client EXCEPT !.connected = v]
  BY DEF WorkerSetsConnected
<1>2. client'.connected = v /\ client'.state = client.state
  BY <1>1 DEF IInv, TypeOK
<1>3. CASE client.connected = v
  <2>1. wpost' = wpost /\ heard' = heard
    BY <1>3 DEF WorkerSetsConnected
  <2> QED BY <1>2, <1>3, <2>1 DEF IInv, CatchingUp
<1>4. CASE client.connected # v
  <2>1. wpost' = << <<"connected", v>> >>
    BY <1>4 DEF WorkerSetsConnected
  <2>2. gpc \notin StopPcs => Follows(wpost', events, StateEvents, view.state, client.state)
    BY <2>1, Setters, OwesOther DEF IInv, CatchingUp
  <2>3. Follows(wpost', events, ConnectedEvents, view.canPing, v)
    <3>1. <<"connected", v>>[2] = v
      OBVIOUS
    <3> QED BY <2>1, <3>1, Setters, OwesSetter
  <2>4. Follows(wpost', events, OnlineEvents, view.ekOnline, heard'.online)
    <3>1. CASE v
      <4>1. <<"connected", v>> \notin OnlineEvents /\ heard' = heard
        BY <3>1, Setters
      <4> QED BY <2>1, <4>1, OwesOther DEF IInv, CatchingUp
    <3>2. CASE ~v
      <4>1. /\ v = FALSE /\ <<"connected", v>> \in OnlineEvents
            /\ heard'.online = <<"connected", v>>[2]
        BY <3>2, Setters DEF Silent
      <4> QED BY ONLY <2>1, <4>1, OwesSetter
    <3> QED BY <3>1, <3>2
  <2>5. Follows(wpost', events, StatusEvents, view.hasStatus, heard'.status)
    <3>1. CASE v
      <4>1. <<"connected", v>> \notin StatusEvents /\ heard' = heard
        BY <3>1, Setters
      <4> QED BY <2>1, <4>1, OwesOther DEF IInv, CatchingUp
    <3>2. CASE ~v
      <4>1. /\ v = FALSE /\ <<"connected", v>> \in StatusEvents
            /\ heard'.status = <<"connected", v>>[2]
        BY <3>2, Setters DEF Silent
      <4> QED BY ONLY <2>1, <4>1, OwesSetter
    <3> QED BY <3>1, <3>2
  <2> QED BY <1>2, <2>2, <2>3, <2>4, <2>5 DEF CatchingUp
<1> QED BY <1>3, <1>4

LEMMA StateFollows ==
    ASSUME IInv, wpost = <<>>, NEW s \in ConnStates, WorkerSetsState(s),
           events' = events, view' = view, gpc' = gpc, heard' = heard
    PROVE  CatchingUp'
<1>1. client' = [client EXCEPT !.state = s]
  BY DEF WorkerSetsState
<1>2. client'.connected = client.connected /\ client'.state = s
  BY <1>1 DEF IInv, TypeOK
<1>3. CASE client.state = s
  <2>1. wpost' = wpost
    BY <1>3 DEF WorkerSetsState
  <2> QED BY <1>2, <1>3, <2>1 DEF IInv, CatchingUp
<1>4. CASE client.state # s
  <2>1. wpost' = << <<"state", s>> >>
    BY <1>4 DEF WorkerSetsState
  <2>2. Follows(wpost', events, StateEvents, view.state, s)
    <3>1. <<"state", s>>[2] = s
      OBVIOUS
    <3> QED BY <2>1, <3>1, Setters, OwesSetter
  <2>3. /\ Follows(wpost', events, ConnectedEvents, view.canPing, client.connected)
        /\ Follows(wpost', events, OnlineEvents, view.ekOnline, heard.online)
        /\ Follows(wpost', events, StatusEvents, view.hasStatus, heard.status)
    BY <2>1, Setters, OwesOther DEF IInv, CatchingUp
  <2> QED BY <1>2, <2>2, <2>3 DEF CatchingUp
<1> QED BY <1>3, <1>4

\* The steps of the worker that set connected_ or state_.
LEMMA ExchangeSteps ==
    ASSUME IInv, WCreate \/ WMark \/ WUp \/ WLeave \/ WFailed \/ WRetry \/ WEnd
    PROVE  IInv'
<1> USE DEF IInv, At, WorkerFrame, WCreate, WMark, WUp, WLeave, WFailed, WRetry, WEnd
<1>0. /\ wpost = <<>> /\ events' = events /\ view' = view /\ gpc' = gpc
      /\ gping' = gping /\ timers' = timers /\ fate' = fate /\ broker' = broker
  OBVIOUS
<1>1. /\ client' \in [stop : BOOLEAN, connected : BOOLEAN, state : ConnStates,
                       pending : SUBSET Pings]
      /\ client'.stop = client.stop /\ client'.pending = client.pending
      /\ wpost' \in Seq(Events) /\ Len(wpost') <= 1
  <2>1. \/ \E v \in BOOLEAN : WorkerSetsConnected(v)
        \/ \E s \in ConnStates : WorkerSetsState(s)
    BY DEF ConnStates
  <2> QED BY ONLY <1>0, <2>1, ExchangeEffect, IInv
<1>2. TypeOK'
  <2>1. /\ session' \in {"none", "open", "lost", "closed"}
        /\ consumer' \in {"off", "on", "deaf", "closed"}
        /\ held' \in BOOLEAN
    BY DEF TypeOK
  <2>2. inbox' = inbox \/ inbox' = <<>>
    OBVIOUS
  <2>3. inbox' \in Seq(Messages) /\ Len(inbox') <= MaxInbox
    <3>1. <<>> \in Seq(Messages) /\ Len(<<>>) = 0 /\ 0 <= MaxInbox
      BY ONLY BoundsAssumption
    <3> QED BY ONLY <2>2, <3>1, IInv DEF IInv, TypeOK
  <2>4. wpc' \in WorkerPcs
    BY DEF WorkerPcs
  <2>5. heard' \in [online : BOOLEAN, status : BOOLEAN]
    <3>1. heard' = heard \/ heard' = Silent
      OBVIOUS
    <3>2. heard \in [online : BOOLEAN, status : BOOLEAN]
      BY DEF TypeOK
    <3> QED BY ONLY <3>1, <3>2, SilentType
  <2> QED BY ONLY IInv, <1>0, <1>1, <2>1, <2>3, <2>4, <2>5 DEF IInv, TypeOK, Sent
<1>3. Phases'
  <2>1. client'.connected = (IF wpc = "mark" THEN TRUE
                             ELSE IF wpc \in {"leave", "failed"} THEN FALSE
                             ELSE client.connected)
    BY DEF WorkerSetsConnected, WorkerSetsState, TypeOK
  <2>2. wpc = "end" => client'.state = (IF client.stop THEN "Stopping" ELSE "Disconnected")
    BY DEF WorkerSetsState, TypeOK
  <2>3. wpc \in {"create", "mark", "up", "leave", "failed", "retry", "end"}
    OBVIOUS
  <2>4. /\ wpc = "create" => wpc' = "connect"
        /\ wpc = "mark" => wpc' = "up"
        /\ wpc = "up" => wpc' = "subscribe"
        /\ wpc \in {"leave", "failed"} => wpc' = "after" /\ heard' = Silent
        /\ wpc = "retry" => wpc' = "backoff"
        /\ wpc = "end" => wpc' = "exited"
        /\ wpc \notin {"leave", "failed"} => heard' = heard
    OBVIOUS
  <2>5. Phases
    OBVIOUS
  <2> QED BY ONLY <1>0, <1>1, <2>1, <2>2, <2>3, <2>4, <2>5 DEF Phases
<1>4. StopLeavesNothing'
  <2>1. wpc # "none" /\ (GuiIdle' <=> GuiIdle)
    BY <1>0 DEF GuiIdle
  <2> QED BY <1>1, <2>1 DEF StopLeavesNothing
<1>5. PingBook'
  BY ONLY <1>0, <1>1, IInv DEF IInv, PingBook, Sent
<1>6. CatchingUp'
  <2>1. CASE WMark \/ WLeave \/ WFailed
    <3>1. PICK v \in BOOLEAN : /\ WorkerSetsConnected(v)
                               /\ heard' = IF v THEN heard ELSE Silent
      BY <2>1
    <3>2. ~v /\ ~client.connected => heard = Silent
      BY <2>1 DEF Phases
    <3> QED BY ONLY <1>0, <3>1, <3>2, IInv, ConnectedFollows
  <2>2. CASE WCreate \/ WUp \/ WRetry \/ WEnd
    <3>1. PICK s \in ConnStates : WorkerSetsState(s) /\ heard' = heard
      BY <2>2 DEF ConnStates
    <3> QED BY ONLY <1>0, <3>1, IInv, StateFollows
  <2> QED BY <2>1, <2>2
<1> QED BY <1>2, <1>3, <1>4, <1>5, <1>6

\* The worker posts.
LEMMA PostStep ==
    ASSUME IInv, WPost
    PROVE  IInv'
<1> USE DEF IInv
<1>1. PICK e \in Events : wpost = <<e>>
  <2>1. wpost \in Seq(Events) /\ Len(wpost) <= 1 /\ wpost # <<>>
    BY DEF TypeOK, WPost
  <2> DEFINE e == wpost[1]
  <2>2. e \in Events /\ Len(wpost) = 1
    <3>1. Len(wpost) \in Nat \ {0}
      BY ONLY <2>1, EmptySeq
    <3>2. Len(wpost) = 1
      BY ONLY <2>1, <3>1
    <3>3. 1 \in 1..Len(wpost)
      BY ONLY <3>2
    <3>4. \A i \in 1..Len(wpost) : wpost[i] \in Events
      BY ONLY <2>1
    <3> QED BY <3>2, <3>3, <3>4
  <2>3. <<e>> \in Seq(Events) /\ Len(<<e>>) = 1 /\ <<e>>[1] = e
    BY ONLY <2>2
  <2>4. \A i \in 1..Len(wpost) : wpost[i] = <<e>>[i]
    BY ONLY <2>2, <2>3
  <2>5. wpost = <<e>>
    BY ONLY <2>1, <2>2, <2>3, <2>4, SeqEqual
  <2> QED BY <2>2, <2>5
<1>2. /\ wpost' = <<>> /\ events \in Seq(Events)
      /\ events' = Append(events, e) /\ events' \in Seq(Events)
  <2>1. events \in Seq(Events) /\ events' = events \o <<e>> /\ wpost' = <<>>
    BY <1>1 DEF TypeOK, WPost
  <2> QED BY ONLY <2>1
<1>3. /\ client' = client /\ session' = session /\ consumer' = consumer
      /\ broker' = broker /\ inbox' = inbox /\ held' = held /\ wpc' = wpc
      /\ gpc' = gpc /\ gping' = gping /\ view' = view /\ timers' = timers
      /\ fate' = fate /\ heard' = heard
  BY DEF WPost, netVars
<1>4. TypeOK'
  BY ONLY IInv, <1>2, <1>3, OneOwed DEF IInv, TypeOK, Sent
<1>5. Phases' /\ StopLeavesNothing' /\ PingBook'
  BY ONLY IInv, <1>2, <1>3 DEF IInv, Phases, StopLeavesNothing, PingBook, GuiIdle, Sent
<1>6. CatchingUp'
  BY ONLY IInv, <1>1, <1>2, <1>3, PostsOwed DEF IInv, CatchingUp
<1> QED BY <1>4, <1>5, <1>6

\* The worker takes a message.
LEMMA MessageStep ==
    ASSUME IInv, WMessage
    PROVE  IInv' /\ \A p \in Pings : fate[p] \in {"ponged", "timeout"} => fate'[p] = fate[p]
<1> USE DEF IInv
<1> DEFINE m == Head(inbox)
<1>1. /\ wpc = "wait" /\ wpc' = "check" /\ wpost = <<>> /\ inbox' = Tail(inbox)
      /\ inbox # <<>>
      /\ session' = session /\ consumer' = consumer /\ held' = held
      /\ broker' = broker /\ gpc' = gpc /\ gping' = gping /\ events' = events
      /\ view' = view /\ timers' = timers
  BY DEF WMessage, At, WorkerFrame
<1>2. m \in Messages /\ inbox' \in Seq(Messages) /\ Len(inbox') <= MaxInbox
  <2>1. inbox \in Seq(Messages) /\ Len(inbox) <= MaxInbox /\ MaxInbox \in Nat
    BY BoundsAssumption DEF TypeOK
  <2>2. Len(Tail(inbox)) = Len(inbox) - 1 /\ Len(inbox) \in Nat
    BY <1>1, <2>1
  <2> QED BY ONLY <1>1, <2>1, <2>2
<1> HIDE DEF m
<1>3. CASE m[1] = "ack"
  <2>1. PICK p \in Pings : p = m[2] /\ WAck(p)
    BY <1>2, <1>3, MessageKinds DEF WMessage, m
  <2>2. heard' = heard /\ client' = [client EXCEPT !.pending = @ \ {p}]
    BY <2>1 DEF WAck
  <2>3. /\ client' \in [stop : BOOLEAN, connected : BOOLEAN, state : ConnStates,
                         pending : SUBSET Pings]
        /\ client'.stop = client.stop /\ client'.connected = client.connected
        /\ client'.state = client.state /\ client'.pending = client.pending \ {p}
    BY <2>2 DEF TypeOK
  <2>4. /\ fate' \in [Pings -> Fates]
        /\ \A q \in Pings \ {p} : fate'[q] = fate[q]
        /\ fate'[p] = IF p \in client.pending THEN "ponged"
                      ELSE IF p \in gping /\ fate[p] = "sent" THEN "missed" ELSE fate[p]
    BY <2>1 DEF WAck, TypeOK, Fates
  <2>5. Sent' = Sent
    BY <2>4 DEF Sent, PingBook, TypeOK
  <2>6. wpost' = <<>> \/ wpost' = << <<"ping", "rtt">> >>
    BY <2>1 DEF WAck
  <2>7. wpost' \in Seq(Events) /\ Len(wpost') <= 1
    BY ONLY <2>6, Setters, OneOwed
  <2>8. TypeOK'
    <3>1. wpc' \in WorkerPcs
      BY <1>1 DEF WorkerPcs
    <3>2. timers' \subseteq Sent' /\ client'.pending \subseteq Sent'
      BY <1>1, <2>3, <2>5 DEF TypeOK
    <3> QED BY ONLY IInv, <1>1, <1>2, <2>2, <2>3, <2>4, <2>7, <3>1, <3>2 DEF IInv, TypeOK
  <2>9. Phases'
    BY ONLY IInv, <1>1, <2>2, <2>3 DEF IInv, Phases
  <2>10. StopLeavesNothing'
    BY ONLY IInv, <1>1, <2>3 DEF IInv, StopLeavesNothing, GuiIdle
  <2>11. PingBook'
    BY ONLY IInv, <1>1, <2>3, <2>4, <2>5 DEF IInv, PingBook, TypeOK
  <2>12. CatchingUp'
    <3>1. CASE wpost' = <<>>
      BY ONLY IInv, <1>1, <2>2, <2>3, <3>1 DEF IInv, CatchingUp
    <3>2. CASE wpost' = << <<"ping", "rtt">> >>
      BY ONLY IInv, <1>1, <2>2, <2>3, <3>2, Setters, OwesOther DEF IInv, CatchingUp
    <3> QED BY <2>6, <3>1, <3>2
  <2>13. \A q \in Pings : fate[q] \in {"ponged", "timeout"} => fate'[q] = fate[q]
    BY ONLY IInv, <2>1, <2>4 DEF IInv, PingBook, TypeOK
  <2> QED BY <2>8, <2>9, <2>10, <2>11, <2>12, <2>13
<1>4. CASE m[1] # "ack"
  <2>1. WNews(m)
    BY <1>4 DEF WMessage, m
  <2>2. PICK b \in BOOLEAN : m = <<m[1], b>> /\ m[2] = b /\ m \in Events
    BY <1>2, <1>4, MessageKinds
  <2>3. client' = client /\ fate' = fate /\ wpost' = <<m>>
    BY <2>1 DEF WNews
  <2>4. \/ m[1] = "ekPresence" /\ heard' = [heard EXCEPT !.online = b]
        \/ m[1] = "ekStatus" /\ heard' = [heard EXCEPT !.status = b]
    BY <2>1, <2>2 DEF WNews
  <2>5. heard' \in [online : BOOLEAN, status : BOOLEAN]
    BY <2>4 DEF TypeOK
  <2>6. wpost' \in Seq(Events) /\ Len(wpost') <= 1
    BY ONLY <2>2, <2>3, OneOwed
  <2>7. wpc' \in WorkerPcs
    BY <1>1 DEF WorkerPcs
  <2>8. TypeOK'
    BY ONLY IInv, <1>1, <1>2, <2>3, <2>5, <2>6, <2>7 DEF IInv, TypeOK, Sent
  <2>9. Phases' /\ StopLeavesNothing' /\ PingBook'
    BY ONLY IInv, <1>1, <2>3 DEF IInv, Phases, StopLeavesNothing, PingBook, GuiIdle, Sent
  <2>10. CatchingUp'
    <3>1. CASE m[1] = "ekPresence"
      <4>1. /\ m \in OnlineEvents /\ m \notin StateEvents /\ m \notin ConnectedEvents
            /\ m \notin StatusEvents
        BY <2>2, <3>1, Setters
      <4>2. heard'.online = m[2] /\ heard'.status = heard.status
        BY <2>2, <2>4, <3>1 DEF TypeOK
      <4> QED BY ONLY IInv, <1>1, <2>3, <4>1, <4>2, OwesSetter, OwesOther
              DEF IInv, CatchingUp
    <3>2. CASE m[1] = "ekStatus"
      <4>1. /\ m \in StatusEvents /\ m \notin StateEvents /\ m \notin ConnectedEvents
            /\ m \notin OnlineEvents
        BY <2>2, <3>2, Setters
      <4>2. heard'.status = m[2] /\ heard'.online = heard.online
        BY <2>2, <2>4, <3>2 DEF TypeOK
      <4> QED BY ONLY IInv, <1>1, <2>3, <4>1, <4>2, OwesSetter, OwesOther
              DEF IInv, CatchingUp
    <3> QED BY <2>4, <3>1, <3>2
  <2> QED BY <2>3, <2>8, <2>9, <2>10
<1> QED BY <1>3, <1>4

\* The steps of the GUI thread and of the network that post nothing.
LEMMA QuietSteps ==
    ASSUME IInv,
           \/ StopClicked \/ StopConsuming \/ StopDisconnect \/ PingInsert
           \/ Drop \/ Restore \/ Deliver \/ UNCHANGED vars
    PROVE  IInv'
<1> USE DEF IInv, GuiIdle, GuiFrame, Outside, netVars, vars
<1>0. /\ wpost' = wpost /\ events' = events /\ view' = view /\ wpc' = wpc
      /\ heard' = heard /\ gping' = gping /\ timers' = timers /\ fate' = fate
  BY DEF StopClicked, StopConsuming, StopDisconnect, PingInsert, Drop, Restore, Deliver
<1>1. /\ client' \in [stop : BOOLEAN, connected : BOOLEAN, state : ConnStates,
                       pending : SUBSET Pings]
      /\ client'.connected = client.connected
      /\ client'.stop = (client.stop \/ StopClicked)
      /\ client'.state = IF StopClicked THEN "Stopping" ELSE client.state
      /\ client'.pending = IF PingInsert THEN client.pending \cup gping ELSE client.pending
  <2>1. CASE StopClicked
    <3>1. client' = [client EXCEPT !.stop = TRUE, !.state = "Stopping"] /\ ~PingInsert
      BY <2>1 DEF StopClicked, PingInsert
    <3> QED BY <2>1, <3>1 DEF TypeOK, ConnStates
  <2>2. CASE PingInsert
    <3>1. client' = [client EXCEPT !.pending = @ \cup gping] /\ ~StopClicked
      BY <2>2 DEF StopClicked, PingInsert
    <3> QED BY <2>2, <3>1 DEF TypeOK
  <2>3. CASE ~StopClicked /\ ~PingInsert
    <3>1. client' = client
      BY <2>3 DEF StopConsuming, StopDisconnect, Drop, Restore, Deliver
    <3> QED BY <2>3, <3>1 DEF TypeOK
  <2> QED BY <2>1, <2>2, <2>3
<1>2. /\ StopClicked => /\ gpc = "idle" /\ gpc' \in {"stop_consuming", "stop_post"}
      /\ PingInsert => gpc = "ping_insert" /\ gpc' = "ping_emit"
      /\ ~StopClicked /\ ~PingInsert => \/ gpc' = gpc
                                        \/ gpc \in StopPcs /\ gpc' \in StopPcs
  BY DEF StopClicked, StopConsuming, StopDisconnect, PingInsert, Drop, Restore, Deliver,
         StopPcs
<1>3. TypeOK'
  <2>1. inbox' \in Seq(Messages) /\ Len(inbox') <= MaxInbox
    <3>1. inbox \in Seq(Messages) /\ Len(inbox) <= MaxInbox /\ MaxInbox \in Nat
      BY BoundsAssumption DEF TypeOK
    <3>2. CASE Deliver
      <4>1. PICK m \in Messages : inbox' = Append(inbox, m)
        BY <3>2 DEF Deliver
      <4>2. Len(inbox) < MaxInbox
        BY <3>2 DEF Deliver
      <4> QED BY ONLY <3>1, <4>1, <4>2
    <3>3. CASE ~Deliver
      <4>1. inbox' = inbox
        BY <3>3 DEF StopClicked, StopConsuming, StopDisconnect, PingInsert, Drop, Restore
      <4> QED BY <3>1, <4>1
    <3> QED BY <3>2, <3>3
  <2>2. /\ session' \in {"none", "open", "lost", "closed"}
        /\ consumer' \in {"off", "on", "deaf", "closed"}
        /\ held' \in BOOLEAN /\ broker' \in BOOLEAN
        /\ gpc' \in {"idle", "ping_insert", "ping_emit",
                     "stop_post", "stop_consuming", "stop_disconnect", "stop_join"}
    BY DEF TypeOK, StopClicked, StopConsuming, StopDisconnect, PingInsert, Drop, Restore,
           Deliver
  <2>3. client'.pending \subseteq Sent' /\ timers' \subseteq Sent'
    BY <1>0, <1>1 DEF TypeOK, PingBook, Sent
  <2> QED BY ONLY IInv, <1>0, <1>1, <2>1, <2>2, <2>3 DEF IInv, TypeOK
<1>4. Phases'
  <2>1. PingInsert => ~client.stop /\ ~StopClicked
    BY <1>2 DEF Phases
  <2>2. client.stop \in BOOLEAN
    BY DEF TypeOK
  <2>5. gpc' \in {"stop_disconnect", "stop_join"} /\ wpc' = "wait" => consumer' = "closed"
    <3>1. CASE StopConsuming
      BY <3>1 DEF StopConsuming
    <3>2. CASE StopDisconnect
      BY <1>0, <3>2 DEF StopDisconnect, Phases
    <3>3. CASE StopClicked \/ PingInsert
      BY <1>2, <3>3
    <3>4. CASE Drop \/ Restore \/ Deliver \/ UNCHANGED vars
      BY <3>4 DEF Drop, Restore, Deliver, Phases
    <3> QED BY <3>1, <3>2, <3>3, <3>4
  <2>3. CASE StopClicked
    <3>1. client'.stop /\ client'.state = "Stopping" /\ gpc' \notin {"ping_insert", "ping_emit"}
      BY ONLY <1>1, <1>2, <2>3
    <3> QED BY ONLY IInv, <1>0, <1>1, <2>5, <3>1 DEF IInv, Phases
  <2>4. CASE ~StopClicked
    <3>1. client'.stop = client.stop /\ client'.state = client.state
      BY ONLY <1>1, <2>2, <2>4
    <3>2. /\ gpc' \in {"ping_insert", "ping_emit"} => gpc \in {"ping_insert", "ping_emit"}
          /\ gpc' \in StopPcs => gpc \in StopPcs
      BY ONLY <1>2, <2>4 DEF StopPcs
    <3> QED BY ONLY IInv, <1>0, <1>1, <2>5, <3>1, <3>2 DEF IInv, Phases
  <2> QED BY <2>3, <2>4
<1>5. StopLeavesNothing'
  <2>1. gpc' = "idle" => client' = client /\ gpc = "idle"
    BY DEF StopClicked, StopConsuming, StopDisconnect, PingInsert, Drop, Restore, Deliver
  <2> QED BY ONLY IInv, <1>0, <2>1 DEF IInv, StopLeavesNothing, GuiIdle
<1>6. PingBook'
  <2>1. CASE PingInsert
    BY ONLY IInv, <1>0, <1>1, <1>2, <2>1 DEF IInv, PingBook, Sent
  <2>2. CASE ~PingInsert
    BY ONLY IInv, <1>0, <1>1, <1>2, <2>2 DEF IInv, PingBook, Sent, StopPcs
  <2> QED BY <2>1, <2>2
<1>7. CatchingUp'
  <2>1. gpc' \notin StopPcs => gpc \notin StopPcs /\ client'.state = client.state
    BY ONLY <1>1, <1>2 DEF StopPcs
  <2> QED BY ONLY IInv, <1>0, <1>1, <2>1 DEF IInv, CatchingUp
<1> QED BY <1>3, <1>4, <1>5, <1>6, <1>7

\* A click on Ping that the library accepts.
LEMMA ClickStep ==
    ASSUME IInv, NEW p \in Pings, PingClicked(p)
    PROVE  IInv'
<1> USE DEF IInv, GuiFrame
<1>1. /\ client' = client /\ session' = session /\ consumer' = consumer
      /\ broker' = broker /\ inbox' = inbox /\ held' = held /\ wpc' = wpc
      /\ wpost' = wpost /\ events' = events /\ view' = view /\ timers' = timers
      /\ heard' = heard
      /\ gpc = "idle" /\ gpc' = "ping_insert" /\ gping' = {p}
      /\ fate[p] = "new" /\ client.connected
      /\ fate' = [fate EXCEPT ![p] = "sent"]
  BY DEF PingClicked, GuiIdle
<1>2. /\ fate' \in [Pings -> Fates] /\ fate'[p] = "sent"
      /\ \A q \in Pings \ {p} : fate'[q] = fate[q]
  BY <1>1 DEF TypeOK, Fates
<1>3. Sent' = Sent \cup {p} /\ p \notin Sent
  BY <1>1, <1>2 DEF Sent
<1>4. TypeOK'
  <2>1. timers' \subseteq Sent' /\ client'.pending \subseteq Sent'
    BY <1>1, <1>3 DEF TypeOK
  <2>2. gping' \in SUBSET Pings
    BY <1>1
  <2> QED BY ONLY IInv, <1>1, <1>2, <2>1, <2>2 DEF IInv, TypeOK
<1>5. Phases' /\ StopLeavesNothing'
  <2>1. client.stop \in BOOLEAN /\ (client.stop => FALSE)
    BY <1>1 DEF StopLeavesNothing, GuiIdle, TypeOK
  <2> QED BY ONLY IInv, <1>1, <2>1 DEF IInv, Phases, StopLeavesNothing, GuiIdle, StopPcs
<1>6. PingBook'
  <2>1. p \notin client.pending
    BY <1>3 DEF TypeOK
  <2> QED BY ONLY IInv, <1>1, <1>2, <1>3, <2>1 DEF IInv, PingBook, TypeOK
<1>7. CatchingUp'
  BY ONLY IInv, <1>1 DEF IInv, CatchingUp, StopPcs
<1> QED BY <1>4, <1>5, <1>6, <1>7

\* The steps of the GUI thread that post: events other than a state change nothing
\* that is followed.
LEMMA PingPostSteps ==
    ASSUME IInv, PingEmit \/ (\E p \in Pings : HandlePingTimeout(p))
    PROVE  IInv' /\ \A p \in Pings : fate[p] \in {"ponged", "timeout"} => fate'[p] = fate[p]
<1> USE DEF IInv, GuiFrame
<1>1. /\ session' = session /\ consumer' = consumer /\ heard' = heard
      /\ broker' = broker /\ inbox' = inbox /\ held' = held /\ wpc' = wpc
      /\ wpost' = wpost /\ view' = view
  BY DEF PingEmit, HandlePingTimeout
<1>2. events' = events \/ \E r \in {"none", "rtt", "timeout"} : events' = Append(events, <<"ping", r>>)
  BY DEF PingEmit, HandlePingTimeout, Post, PostIf
<1>3. events \in Seq(Events) /\ events' \in Seq(Events)
  <2>1. events \in Seq(Events)
    BY DEF TypeOK
  <2>2. ASSUME NEW r \in {"none", "rtt", "timeout"},
               events' = Append(events, <<"ping", r>>)
        PROVE  events' \in Seq(Events)
    <3> DEFINE e == <<"ping", r>>
    <3>1. e \in Events /\ events' = Append(events, e)
      BY ONLY <2>2, Setters
    <3> HIDE DEF e
    <3> QED BY ONLY <2>1, <3>1
  <2> QED BY ONLY <1>2, <2>1, <2>2
<1>4. ASSUME client'.state = client.state, client'.connected = client.connected,
             gpc' \notin StopPcs => gpc \notin StopPcs
      PROVE  CatchingUp'
  <2>1. CASE events' = events
    BY ONLY IInv, <1>1, <1>4, <2>1 DEF IInv, CatchingUp
  <2>2. CASE events' # events
    <3>1. PICK r \in {"none", "rtt", "timeout"} : events' = Append(events, <<"ping", r>>)
      BY <1>2, <2>2
    <3> DEFINE e == <<"ping", r>>
    <3>2. /\ e \in Events /\ events' = Append(events, e)
          /\ e \notin StateEvents /\ e \notin ConnectedEvents
          /\ e \notin OnlineEvents /\ e \notin StatusEvents
      BY ONLY <3>1, Setters
    <3> HIDE DEF e
    <3> QED BY ONLY IInv, <1>1, <1>3, <1>4, <3>2, PostsOther DEF IInv, CatchingUp
  <2> QED BY <2>1, <2>2
<1>5. CASE PingEmit
  <2>1. /\ client' = client /\ fate' = fate /\ gpc = "ping_emit" /\ gpc' = "idle"
        /\ gping' = {} /\ timers' = timers \cup gping
    BY <1>5 DEF PingEmit
  <2>2. timers' \subseteq Sent' /\ client'.pending \subseteq Sent'
    BY <2>1 DEF TypeOK, PingBook, Sent
  <2>3. TypeOK'
    BY ONLY IInv, <1>1, <1>3, <2>1, <2>2 DEF IInv, TypeOK
  <2>4. Phases' /\ StopLeavesNothing'
    <3>1. client.stop \in BOOLEAN /\ ~client.stop
      BY <2>1 DEF Phases, TypeOK
    <3> QED BY ONLY IInv, <1>1, <2>1, <3>1 DEF IInv, Phases, StopLeavesNothing, StopPcs, GuiIdle
  <2>5. PingBook'
    BY ONLY IInv, <2>1 DEF IInv, PingBook, Sent
  <2>6. CatchingUp'
    <3>1. /\ client'.state = client.state /\ client'.connected = client.connected
          /\ (gpc' \notin StopPcs => gpc \notin StopPcs)
      BY ONLY <2>1 DEF StopPcs
    <3> QED BY ONLY <1>4, <3>1
  <2> QED BY <2>1, <2>3, <2>4, <2>5, <2>6
<1>6. CASE \E p \in Pings : HandlePingTimeout(p)
  <2>1. PICK p \in Pings : HandlePingTimeout(p)
    BY <1>6
  <2>2. /\ gpc' = gpc /\ gping' = gping /\ timers' = timers \ {p} /\ gpc = "idle"
        /\ client' = [client EXCEPT !.pending = @ \ {p}]
        /\ fate' = fate \/ (p \in client.pending /\ fate' = [fate EXCEPT ![p] = "timeout"])
    BY <2>1 DEF HandlePingTimeout, GuiIdle
  <2>3. /\ client' \in [stop : BOOLEAN, connected : BOOLEAN, state : ConnStates,
                         pending : SUBSET Pings]
        /\ client'.stop = client.stop /\ client'.connected = client.connected
        /\ client'.state = client.state /\ client'.pending = client.pending \ {p}
    BY <2>2 DEF TypeOK
  <2>4. /\ fate' \in [Pings -> Fates]
        /\ \A q \in Pings \ {p} : fate'[q] = fate[q]
        /\ fate'[p] = fate[p] \/ (p \in client.pending /\ fate'[p] = "timeout")
    BY <2>2 DEF TypeOK, Fates
  <2>5. Sent' = Sent
    <3>1. p \in client.pending => fate[p] # "new"
      BY DEF TypeOK, Sent
    <3> QED BY <2>4, <3>1 DEF Sent
  <2>6. TypeOK'
    <3>1. timers' \subseteq Sent' /\ client'.pending \subseteq Sent'
      BY <2>2, <2>3, <2>5 DEF TypeOK
    <3> QED BY ONLY IInv, <1>1, <1>3, <2>2, <2>3, <2>4, <3>1 DEF IInv, TypeOK
  <2>7. Phases' /\ StopLeavesNothing'
    BY ONLY IInv, <1>1, <2>2, <2>3 DEF IInv, Phases, StopLeavesNothing, GuiIdle
  <2>8. PingBook'
    BY ONLY IInv, <2>2, <2>3, <2>4, <2>5 DEF IInv, PingBook, TypeOK
  <2>9. CatchingUp'
    BY ONLY <1>4, <2>2, <2>3
  <2>10. \A q \in Pings : fate[q] \in {"ponged", "timeout"} => fate'[q] = fate[q]
    BY ONLY IInv, <2>1, <2>4 DEF IInv, PingBook, TypeOK
  <2> QED BY <2>6, <2>7, <2>8, <2>9, <2>10
<1> QED BY <1>5, <1>6

\* The GUI thread posts a state that is the client's, while the worker owes nothing.
LEMMA StatePosted ==
    ASSUME IInv, wpost = <<>>, wpost' = <<>>, NEW s \in ConnStates,
           events' = Append(events, <<"state", s>>), client'.state = s,
           client'.connected = client.connected, view' = view, heard' = heard
    PROVE  CatchingUp' /\ events' \in Seq(Events)
<1> DEFINE e == <<"state", s>>
<1>1. events \in Seq(Events)
  BY DEF IInv, TypeOK
<1>2. /\ e \in Events /\ e \in StateEvents /\ e \notin ConnectedEvents
      /\ e \notin OnlineEvents /\ e \notin StatusEvents /\ e[2] = s
  BY ONLY Setters, s \in ConnStates
<1>3. events' = Append(events, e)
  OBVIOUS
<1> HIDE DEF e
<1>4. Follows(<<>>, events', StateEvents, view.state, s)
  BY ONLY <1>1, <1>2, <1>3, PostsSetter
<1>5. /\ Follows(<<>>, events', ConnectedEvents, view.canPing, client.connected)
      /\ Follows(<<>>, events', OnlineEvents, view.ekOnline, heard.online)
      /\ Follows(<<>>, events', StatusEvents, view.hasStatus, heard.status)
  BY ONLY IInv, wpost = <<>>, <1>1, <1>2, <1>3, PostsOther DEF IInv, CatchingUp
<1>6. events' \in Seq(Events)
  BY ONLY <1>1, <1>2, <1>3
<1> QED BY <1>4, <1>5, <1>6 DEF CatchingUp

\* A click on Connect.
LEMMA ConnectStep ==
    ASSUME IInv, ConnectClicked
    PROVE  IInv'
<1> USE DEF IInv, GuiFrame, GuiIdle
<1>1. /\ session' = session /\ consumer' = consumer /\ heard' = heard
      /\ broker' = broker /\ inbox' = inbox /\ held' = held /\ gping' = gping
      /\ wpost' = wpost /\ view' = view /\ timers' = timers /\ fate' = fate
      /\ gpc = "idle" /\ gpc' = gpc
  BY DEF ConnectClicked
<1>2. CASE wpc # "none"
  <2>1. client' = client /\ events' = events /\ wpc' = wpc
    BY <1>2 DEF ConnectClicked, ConnectToBroker
  <2>2. TypeOK' /\ Phases' /\ StopLeavesNothing'
    BY ONLY IInv, <1>1, <2>1 DEF IInv, TypeOK, Sent, Phases, StopLeavesNothing, GuiIdle
  <2>3. PingBook' /\ CatchingUp'
    BY ONLY IInv, <1>1, <2>1 DEF IInv, PingBook, Sent, CatchingUp
  <2> QED BY <2>2, <2>3
<1>3. CASE wpc = "none"
  <2>1. /\ wpc' = "top"
        /\ client' = [client EXCEPT !.stop = FALSE, !.connected = FALSE,
                                   !.state = "Connecting"]
        /\ IF client.state = "Connecting" THEN events' = events
           ELSE events' = Append(events, <<"state", "Connecting">>)
    BY <1>3 DEF ConnectClicked, ConnectToBroker, PostIf
  <2>2. /\ client' \in [stop : BOOLEAN, connected : BOOLEAN, state : ConnStates,
                         pending : SUBSET Pings]
        /\ client'.stop = FALSE /\ client'.connected = FALSE
        /\ client'.state = "Connecting" /\ client'.pending = client.pending
        /\ "Connecting" \in ConnStates
    BY <2>1 DEF TypeOK, ConnStates
  <2>3. client.connected = FALSE /\ wpost = <<>> /\ wpost' = <<>>
    BY <1>1, <1>3 DEF Phases, TypeOK
  <2>4. CatchingUp' /\ events' \in Seq(Events)
    <3>1. CASE client.state = "Connecting"
      <4>1. events' = events
        BY <2>1, <3>1
      <4> QED BY ONLY IInv, <1>1, <2>2, <2>3, <3>1, <4>1 DEF IInv, CatchingUp, TypeOK
    <3>2. CASE client.state # "Connecting"
      <4>1. events' = Append(events, <<"state", "Connecting">>)
        BY <2>1, <3>2
      <4> QED BY ONLY IInv, <1>1, <2>2, <2>3, <4>1, StatePosted
    <3> QED BY <3>1, <3>2
  <2>5. TypeOK'
    <3>1. wpc' \in WorkerPcs
      BY <2>1 DEF WorkerPcs
    <3>2. Sent' = Sent
      BY <1>1 DEF Sent
    <3> QED BY ONLY IInv, <1>1, <2>2, <2>3, <2>4, <3>1, <3>2 DEF IInv, TypeOK
  <2>6. Phases' /\ StopLeavesNothing'
    BY ONLY IInv, <1>1, <1>3, <2>1, <2>2, <2>3 DEF IInv, Phases, StopLeavesNothing, GuiIdle, StopPcs
  <2>7. PingBook'
    BY ONLY IInv, <1>1, <2>2 DEF IInv, PingBook, Sent
  <2> QED BY <2>4, <2>5, <2>6, <2>7
<1> QED BY <1>2, <1>3

\* The posts of stop().
LEMMA StopSteps ==
    ASSUME IInv, StopPost \/ StopJoin
    PROVE  IInv'
<1> USE DEF IInv, GuiFrame
<1>1. /\ consumer' = consumer /\ heard' = heard /\ broker' = broker
      /\ inbox' = inbox /\ gping' = gping /\ wpost' = wpost /\ view' = view
      /\ timers' = timers /\ fate' = fate
  BY DEF StopPost, StopJoin
<1>2. CASE StopPost
  <2>1. /\ client' = client /\ session' = session /\ held' = held /\ wpc' = wpc
        /\ gpc = "stop_post" /\ gpc' = "stop_consuming"
        /\ events' = Append(events, <<"state", "Stopping">>)
    BY <1>2 DEF StopPost, Post
  <2> DEFINE e == <<"state", "Stopping">>
  <2>2. /\ e \in Events /\ e \notin ConnectedEvents
        /\ e \notin OnlineEvents /\ e \notin StatusEvents
    <3>1. "Stopping" \in ConnStates
      BY DEF ConnStates
    <3> QED BY ONLY <3>1, Setters
  <2>3. events' = Append(events, e)
    BY <2>1
  <2> HIDE DEF e
  <2>4. events \in Seq(Events) /\ events' \in Seq(Events)
    <3>1. events \in Seq(Events)
      BY DEF TypeOK
    <3> QED BY ONLY <2>2, <2>3, <3>1
  <2>5. TypeOK'
    BY ONLY IInv, <1>1, <2>1, <2>4 DEF IInv, TypeOK, Sent
  <2>6. Phases' /\ StopLeavesNothing'
    BY ONLY IInv, <1>1, <2>1 DEF IInv, Phases, StopLeavesNothing, GuiIdle, StopPcs
  <2>7. PingBook'
    BY ONLY IInv, <1>1, <2>1 DEF IInv, PingBook, Sent
  <2>8. CatchingUp'
    BY ONLY IInv, <1>1, <2>1, <2>2, <2>3, <2>4, PostsOther DEF IInv, CatchingUp, StopPcs
  <2> QED BY <2>5, <2>6, <2>7, <2>8
<1>3. CASE StopJoin
  <2>1. /\ gpc = "stop_join" /\ gpc' = "idle" /\ wpc' = "none" /\ wpost = <<>>
        /\ wpc \in {"none", "exited"} /\ session' = "none" /\ held' = FALSE
        /\ client' = [client EXCEPT !.connected = FALSE, !.state = "Disconnected",
                                   !.pending = {}]
        /\ IF client.state = "Disconnected" THEN events' = events
           ELSE events' = Append(events, <<"state", "Disconnected">>)
    BY <1>3 DEF StopJoin, PostIf
  <2>2. client.stop /\ client.state = "Stopping" /\ client.connected = FALSE
    BY <2>1 DEF Phases, StopPcs, TypeOK
  <2>3. /\ client' \in [stop : BOOLEAN, connected : BOOLEAN, state : ConnStates,
                         pending : SUBSET Pings]
        /\ client'.stop = client.stop /\ client'.connected = FALSE
        /\ client'.state = "Disconnected" /\ client'.pending = {}
        /\ "Disconnected" \in ConnStates
    BY <2>1 DEF TypeOK, ConnStates
  <2>4. events' = Append(events, <<"state", "Disconnected">>)
    BY <2>1, <2>2
  <2>5. CatchingUp' /\ events' \in Seq(Events)
    BY ONLY IInv, <1>1, <2>1, <2>2, <2>3, <2>4, StatePosted
  <2>6. TypeOK'
    <3>1. wpc' \in WorkerPcs
      BY <2>1 DEF WorkerPcs
    <3>2. Sent' = Sent /\ client'.pending \subseteq Sent'
      BY <1>1, <2>3 DEF Sent
    <3> QED BY ONLY IInv, <1>1, <2>1, <2>3, <2>5, <3>1, <3>2 DEF IInv, TypeOK
  <2>7. Phases' /\ StopLeavesNothing'
    BY ONLY IInv, <1>1, <2>1, <2>2, <2>3 DEF IInv, Phases, StopLeavesNothing, GuiIdle, StopPcs
  <2>8. PingBook'
    BY ONLY IInv, <1>1, <2>1, <2>3 DEF IInv, PingBook, Sent
  <2> QED BY <2>5, <2>6, <2>7, <2>8
<1> QED BY <1>2, <1>3

\* A queued event runs.
LEMMA EventStep ==
    ASSUME IInv, HandleEvent
    PROVE  IInv'
<1> USE DEF IInv, GuiFrame, GuiIdle
<1> DEFINE e == Head(events)
<1>1. /\ client' = client /\ session' = session /\ consumer' = consumer
      /\ held' = held /\ wpc' = wpc /\ gpc' = gpc /\ gping' = gping
      /\ timers' = timers /\ fate' = fate /\ broker' = broker /\ inbox' = inbox
      /\ wpost' = wpost /\ heard' = heard
      /\ gpc = "idle" /\ events # <<>> /\ events' = Tail(events)
  BY DEF HandleEvent
<1>2. events \in Seq(Events) /\ e \in Events /\ events' \in Seq(Events)
  <2>1. events \in Seq(Events)
    BY DEF TypeOK
  <2> QED BY ONLY <1>1, <2>1, HeadTailProperties
<1>3. view' = CASE e[1] = "connected"  -> OnConnectedChanged(view, e[2])
                [] e[1] = "state"      -> [view EXCEPT !.state = e[2]]
                [] e[1] = "ekPresence" -> [view EXCEPT !.ekOnline = e[2]]
                [] e[1] = "ekStatus"   -> [view EXCEPT !.hasStatus = e[2]]
                [] e[1] = "ping"       -> [view EXCEPT !.rtt = e[2]]
  BY DEF HandleEvent
<1> HIDE DEF e
<1> DEFINE Views == [state : ConnStates, canPing : BOOLEAN, ekOnline : BOOLEAN,
                     hasStatus : BOOLEAN, rtt : {"none", "rtt", "timeout"}]
           After(v, S) == IF e \in S THEN e[2] ELSE v
<1>4. /\ view' \in Views
      /\ view'.state = After(view.state, StateEvents)
      /\ view'.canPing = After(view.canPing, ConnectedEvents)
      /\ view'.ekOnline = After(view.ekOnline, OnlineEvents)
      /\ view'.hasStatus = After(view.hasStatus, StatusEvents)
  <2>0. view \in Views
    BY DEF TypeOK
  <2> DEFINE k == e[1]
             x == e[2]
  <2>1. /\ e = <<k, x>>
        /\ k \in {"connected", "ekPresence", "ekStatus", "state", "ping"}
        /\ k \in {"connected", "ekPresence", "ekStatus"} => x \in BOOLEAN
        /\ k = "state" => x \in ConnStates
        /\ k = "ping" => x \in {"none", "rtt", "timeout"}
    BY ONLY <1>2, EventKinds
  <2> HIDE DEF k, x
  <2>2. CASE k = "connected"
    <3>1. view' = OnConnectedChanged(view, x)
      BY <1>3, <2>2 DEF k, x
    <3>2. e \notin StateEvents /\ e \in ConnectedEvents
      BY ONLY <2>1, <2>2, Setters
    <3>3. CASE x
      <4>1. view' = [view EXCEPT !.canPing = TRUE] /\ x = TRUE
        BY ONLY <2>1, <2>2, <3>1, <3>3 DEF OnConnectedChanged
      <4>2. e \notin OnlineEvents /\ e \notin StatusEvents
        BY ONLY <2>1, <2>2, <4>1, Setters
      <4> QED BY ONLY <2>0, <3>2, <4>1, <4>2 DEF x
    <3>4. CASE ~x
      <4>1. /\ view' = [view EXCEPT !.canPing = FALSE, !.ekOnline = FALSE, !.hasStatus = FALSE]
            /\ x = FALSE
        BY ONLY <2>1, <2>2, <3>1, <3>4 DEF OnConnectedChanged
      <4>2. e \in OnlineEvents /\ e \in StatusEvents
        BY ONLY <2>1, <2>2, <4>1, Setters
      <4> QED BY ONLY <2>0, <3>2, <4>1, <4>2 DEF x
    <3> QED BY <3>3, <3>4
  <2>3. CASE k = "state"
    <3>1. view' = [view EXCEPT !.state = x]
      BY <1>3, <2>3 DEF k, x
    <3>2. /\ e \in StateEvents /\ e \notin ConnectedEvents
          /\ e \notin OnlineEvents /\ e \notin StatusEvents
      BY ONLY <2>1, <2>3, Setters
    <3> QED BY ONLY <2>0, <2>1, <2>3, <3>1, <3>2 DEF x
  <2>4. CASE k = "ekPresence"
    <3>1. view' = [view EXCEPT !.ekOnline = x]
      BY <1>3, <2>4 DEF k, x
    <3>2. /\ e \notin StateEvents /\ e \notin ConnectedEvents
          /\ e \in OnlineEvents /\ e \notin StatusEvents
      BY ONLY <2>1, <2>4, Setters
    <3> QED BY ONLY <2>0, <2>1, <2>4, <3>1, <3>2 DEF x
  <2>5. CASE k = "ekStatus"
    <3>1. view' = [view EXCEPT !.hasStatus = x]
      BY <1>3, <2>5 DEF k, x
    <3>2. /\ e \notin StateEvents /\ e \notin ConnectedEvents
          /\ e \notin OnlineEvents /\ e \in StatusEvents
      BY ONLY <2>1, <2>5, Setters
    <3> QED BY ONLY <2>0, <2>1, <2>5, <3>1, <3>2 DEF x
  <2>6. CASE k = "ping"
    <3>1. view' = [view EXCEPT !.rtt = x]
      BY <1>3, <2>6 DEF k, x
    <3>2. /\ e \notin StateEvents /\ e \notin ConnectedEvents
          /\ e \notin OnlineEvents /\ e \notin StatusEvents
      BY ONLY <2>1, <2>6, Setters
    <3> QED BY ONLY <2>0, <2>1, <2>6, <3>1, <3>2
  <2> QED BY <2>1, <2>2, <2>3, <2>4, <2>5, <2>6
<1>5. TypeOK'
  BY ONLY IInv, <1>1, <1>2, <1>4 DEF IInv, TypeOK, Sent
<1>6. Phases' /\ StopLeavesNothing' /\ PingBook'
  BY ONLY IInv, <1>1 DEF IInv, Phases, StopLeavesNothing, PingBook, GuiIdle, Sent
<1>7. CatchingUp'
  <2>1. ASSUME NEW S, NEW v, NEW y, Follows(wpost, events, S, v, y)
        PROVE  Follows(wpost', events', S, After(v, S), y)
    BY ONLY <1>1, <1>2, <2>1, WorksOff DEF e
  <2> HIDE DEF After
  <2> QED BY ONLY IInv, <1>1, <1>4, <2>1 DEF IInv, CatchingUp
<1> QED BY <1>5, <1>6, <1>7

LEMMA StepInvariant == IInv /\ [Next]_vars => IInv'
<1> SUFFICES ASSUME IInv, [Next]_vars PROVE IInv'
  OBVIOUS
<1>1. CASE Worker
  BY <1>1, PostStep, PlainWorkerSteps, ExchangeSteps, MessageStep DEF Worker
<1>2. CASE Gui
  BY <1>2, StopSteps, QuietSteps, PingPostSteps, EventStep DEF Gui, StopStep, PingStep
<1>3. CASE Timer
  BY <1>3, PingPostSteps DEF Timer
<1>4. CASE User
  BY <1>4, ConnectStep, QuietSteps, ClickStep DEF User
<1>5. CASE Drop \/ Restore \/ Deliver \/ UNCHANGED vars
  BY <1>5, QuietSteps
<1> QED BY <1>1, <1>2, <1>3, <1>4, <1>5 DEF Next

\* The inductive invariant of the ground station is one: TypeOK, the phases of the
\* two threads, the book of pings and the events that are still to be worked off.
THEOREM Invariance == Spec => []IInv
BY InitInvariant, StepInvariant, PTL DEF Spec

\* Every variable keeps to its range; only pings that were sent are timed or pending.
THEOREM TypeCorrect == Spec => []TypeOK
<1>1. IInv => TypeOK
  BY DEF IInv
<1> QED BY <1>1, Invariance, PTL

\* After a stop there is no worker, no pending ping and no connection.
THEOREM StopIsClean == Spec => []StopLeavesNothing
<1>1. IInv => StopLeavesNothing
  BY DEF IInv
<1> QED BY <1>1, Invariance, PTL

\* Once the queue has run, the window shows the connection as it is and what it heard.
THEOREM WindowTruthful == Spec => []WindowCatchesUp
<1>1. IInv => WindowCatchesUp
  <2> SUFFICES ASSUME IInv, Settled
               PROVE  /\ view.state = client.state
                      /\ view.canPing = client.connected
                      /\ view.ekOnline = heard.online
                      /\ view.hasStatus = heard.status
    BY DEF WindowCatchesUp
  <2>1. gpc = "idle" /\ events = <<>> /\ wpost = <<>> /\ "idle" \notin StopPcs
    BY DEF Settled, GuiIdle, StopPcs
  <2>2. ASSUME NEW S, NEW v, NEW x, Follows(wpost, events, S, v, x)
        PROVE  v = x
    BY ONLY <2>1, <2>2, EndsEmpty DEF Follows
  <2> QED BY <2>1, <2>2 DEF IInv, CatchingUp
<1> QED BY <1>1, Invariance, PTL

\* A ping that was reported, with its time or as timed out, is not reported otherwise.
THEOREM OneVerdictEach == Spec => OneVerdict
<1> DEFINE Keeps == \A p \in Pings :
               fate[p] \in {"ponged", "timeout"} => fate'[p] = fate[p]
<1>1. IInv /\ [Next]_vars => [Keeps]_vars
  <2> SUFFICES ASSUME IInv, Next PROVE Keeps
    BY DEF Next
  <2>1. CASE WMessage
    BY <2>1, MessageStep
  <2>2. CASE Timer \/ PingEmit
    BY <2>2, PingPostSteps DEF Timer
  <2>3. CASE \E p \in Pings : PingClicked(p)
    BY <2>3 DEF PingClicked, IInv, TypeOK
  <2>4. CASE fate' = fate
    BY <2>4
  <2>5. fate' = fate \/ WMessage \/ Timer \/ PingEmit \/ \E p \in Pings : PingClicked(p)
    <3>1. Worker /\ ~WMessage => fate' = fate
      BY DEF Worker, WPost, WTop, WCreate, WConnect, WMark, WUp, WSubscribe, WStart, WCheck,
             WNull, WLeave, WFailed, WAfter, WRetry, WBackoff, WEnd
    <3>2. Gui /\ ~PingEmit => fate' = fate
      BY DEF Gui, StopStep, PingStep, StopPost, StopConsuming, StopDisconnect, StopJoin,
             PingInsert, HandleEvent
    <3>3. ConnectClicked \/ StopClicked => fate' = fate
      BY DEF ConnectClicked, StopClicked
    <3>4. Drop \/ Restore \/ Deliver => fate' = fate
      BY DEF Drop, Restore, Deliver, Outside
    <3> QED BY <3>1, <3>2, <3>3, <3>4 DEF Next, User
  <2> QED BY <2>1, <2>2, <2>3, <2>4, <2>5
<1>2. OneVerdict <=> [][Keeps]_vars
  BY DEF OneVerdict
<1> QED BY <1>1, Invariance, PTL DEF Spec, OneVerdict

-----------------------------------------------------------------------------
(* What the liveness properties rest on.                                    *)

LEMMA TimersLapse ==
    ASSUME IInv, [Next]_vars, NEW p \in Pings, p \in timers, p \notin timers'
    PROVE  p \notin client'.pending
<1>1. PICK q \in Pings : HandlePingTimeout(q)
  BY DEF Next, Worker, WPost, WTop, WCreate, WConnect, WMark, WUp, WSubscribe, WStart,
         WCheck, WNull, WMessage, WLeave, WFailed, WAfter, WRetry, WBackoff, WEnd, WorkerFrame,
         Gui, StopStep, StopPost, StopConsuming, StopDisconnect, StopJoin, PingStep,
         PingInsert, PingEmit, HandleEvent, Timer, User, ConnectClicked, StopClicked,
         PingClicked, Drop, Restore, Deliver, Outside, vars
<1>2. timers' = timers \ {q} /\ client' = [client EXCEPT !.pending = @ \ {q}]
  BY <1>1 DEF HandlePingTimeout
<1> QED BY <1>2 DEF IInv, TypeOK

\* PingSettles up to the fairness of the timers: whenever the GUI thread is free
\* to run a timer, every pending ping has one armed, and a timer that has run
\* leaves its ping settled, so no ping is pending without a way out.
THEOREM PendingIsTimed ==
    Spec => /\ [](GuiIdle => client.pending \subseteq timers)
            /\ [][\A p \in Pings : p \in timers /\ p \notin timers' =>
                                      p \notin client'.pending]_vars
<1>1. IInv => (GuiIdle => client.pending \subseteq timers)
  BY DEF IInv, PingBook, GuiIdle
<1>2. IInv /\ [Next]_vars => [\A p \in Pings : p \in timers /\ p \notin timers' =>
                                             p \notin client'.pending]_vars
  BY TimersLapse
<1> QED BY <1>1, <1>2, Invariance, PTL DEF Spec

\* Where the worker has a step to take, and where stop() has.
WorkerReady ==
    \/ wpost # <<>>
    \/ /\ wpc \notin {"none", "exited"}
       /\ wpc = "wait" =>
              inbox # <<>> \/ consumer = "closed" \/ (session # "open" /\ consumer = "on")
       /\ wpc = "backoff" => client.stop \/ Len(events) < MaxEvents
JoinReady == wpc \in {"none", "exited"} /\ wpost = <<>>

\* While stop() blocks the GUI thread in join() the worker is done or has a step
\* to take: if it waits for a message, then on the consumer that stop() closed,
\* never on a client it made while stop() was on its way.
THEOREM JoinNeverStuck ==
    Spec => [](gpc = "stop_join" =>
                  /\ JoinReady \/ WorkerReady
                  /\ wpc = "wait" => consumer = "closed")
<1>1. IInv => (gpc = "stop_join" => /\ JoinReady \/ WorkerReady
                                    /\ wpc = "wait" => consumer = "closed")
  BY DEF IInv, Phases, StopPcs, JoinReady, WorkerReady
<1> QED BY <1>1, Invariance, PTL

\* The steps of the worker that are left once stop_ is set, two for each, since
\* it may owe a post after every one.
WorkerPcLeft ==
    CASE wpc \in {"none", "exited"}           -> 0
      [] wpc = "end"                          -> 1
      [] wpc \in {"top", "after", "backoff"}  -> 2
      [] wpc \in {"leave", "failed", "retry"} -> 3
      [] wpc = "check"                        -> 4
      [] wpc \in {"wait", "start"}            -> 5
      [] wpc = "subscribe"                    -> 6
      [] wpc = "up"                           -> 7
      [] wpc = "mark"                         -> 8
      [] wpc = "connect"                      -> 9
      [] wpc = "create"                       -> 10

WorkerLeft == 2 * WorkerPcLeft + Len(wpost)

\* The arithmetic of the two terms.
LEMMA LeftSum ==
    ASSUME NEW a \in 0..10, NEW m \in 0..1
    PROVE  /\ 2 * a + m \in 0..21
           /\ \A b \in 0..10, n \in 0..1 :
                  b < a \/ (b = a /\ n < m) => 2 * b + n < 2 * a + m
OBVIOUS

LEMMA WorkerLeftRange ==
    ASSUME wpc \in WorkerPcs, wpost \in Seq(Events), Len(wpost) <= 1
    PROVE  WorkerPcLeft \in 0..10 /\ Len(wpost) \in 0..1 /\ WorkerLeft \in 0..21
<1>1. WorkerPcLeft \in 0..10
  BY DEF WorkerPcs, WorkerPcLeft
<1>2. Len(wpost) \in Nat
  OBVIOUS
<1>3. Len(wpost) \in 0..1
  BY <1>2
<1> QED BY <1>1, <1>3, LeftSum DEF WorkerLeft

\* The same of the next state.
LEMMA WorkerLeftRangeNext ==
    ASSUME wpc' \in WorkerPcs, wpost' \in Seq(Events), Len(wpost') <= 1
    PROVE  WorkerPcLeft' \in 0..10 /\ Len(wpost') \in 0..1 /\ WorkerLeft' \in 0..21
<1>1. WorkerPcLeft' \in 0..10
  BY DEF WorkerPcs, WorkerPcLeft
<1>2. Len(wpost') \in Nat
  OBVIOUS
<1>3. Len(wpost') \in 0..1
  BY <1>2
<1> QED BY <1>1, <1>3, LeftSum DEF WorkerLeft

LEMMA WorkerStepsDown ==
    ASSUME TypeOK, TypeOK', client.stop, Worker
    PROVE  WorkerLeft' < WorkerLeft
<1>0. /\ wpc \in WorkerPcs /\ wpost \in Seq(Events) /\ Len(wpost) <= 1
      /\ wpc' \in WorkerPcs /\ wpost' \in Seq(Events) /\ Len(wpost') <= 1
  BY DEF TypeOK
<1>1. /\ WorkerPcLeft \in 0..10 /\ WorkerPcLeft' \in 0..10
      /\ Len(wpost) \in 0..1 /\ Len(wpost') \in 0..1
  BY ONLY <1>0, WorkerLeftRange, WorkerLeftRangeNext
<1>2. CASE WPost
  <2>1. wpc' = wpc /\ wpost' = <<>> /\ wpost # <<>>
    BY <1>2 DEF WPost
  <2>2. wpost \in Seq(Events)
    BY DEF TypeOK
  <2>3. Len(wpost) # 0 /\ Len(wpost') = 0
    BY ONLY <2>1, <2>2
  <2>4. WorkerPcLeft' = WorkerPcLeft
    BY ONLY <2>1 DEF WorkerPcLeft
  <2>5. Len(wpost') < Len(wpost)
    BY ONLY <1>1, <2>3
  <2> QED BY ONLY <1>1, <2>4, <2>5, LeftSum DEF WorkerLeft
<1>3. CASE ~WPost
  <2>1. wpost = <<>> /\ WorkerPcLeft' < WorkerPcLeft
    <3>1. CASE WTop \/ WCreate \/ WConnect \/ WMark \/ WUp
      <4>1. /\ wpost = <<>>
            /\ \/ wpc = "top" /\ wpc' = "end"
               \/ wpc = "create" /\ wpc' = "connect"
               \/ wpc = "connect" /\ wpc' \in {"mark", "failed"}
               \/ wpc = "mark" /\ wpc' = "up"
               \/ wpc = "up" /\ wpc' = "subscribe"
        BY <3>1 DEF WTop, WCreate, WConnect, WMark, WUp, At
      <4> QED BY ONLY <4>1 DEF WorkerPcLeft
    <3>2. CASE WSubscribe \/ WStart \/ WCheck \/ WNull \/ WMessage
      <4>1. /\ wpost = <<>>
            /\ \/ wpc = "subscribe" /\ wpc' \in {"start", "failed"}
               \/ wpc = "start" /\ wpc' = "check"
               \/ wpc = "check" /\ wpc' = "leave"
               \/ wpc = "wait" /\ wpc' \in {"check", "leave"}
        BY <3>2 DEF WSubscribe, WStart, WCheck, WNull, WMessage, At
      <4> QED BY ONLY <4>1 DEF WorkerPcLeft
    <3>3. CASE WLeave \/ WFailed \/ WAfter \/ WRetry \/ WBackoff \/ WEnd
      <4>1. /\ wpost = <<>>
            /\ \/ wpc \in {"leave", "failed"} /\ wpc' = "after"
               \/ wpc = "retry" /\ wpc' = "backoff"
               \/ wpc \in {"after", "backoff"} /\ wpc' = "end"
               \/ wpc = "end" /\ wpc' = "exited"
        BY <3>3 DEF WLeave, WFailed, WAfter, WRetry, WBackoff, WEnd, At
      <4> QED BY ONLY <4>1 DEF WorkerPcLeft
    <3> QED BY <1>3, <3>1, <3>2, <3>3 DEF Worker
  <2> QED BY ONLY <1>1, <2>1, LeftSum DEF WorkerLeft
<1> QED BY <1>2, <1>3

\* What StopReturns rests on besides fairness: until stop() returns stop_ stays
\* set, and while it is set the worker has at most 21 steps left to its end;
\* each of its steps uses one up and no other thread, event or message gives it
\* more.
THEOREM StopCountsDown ==
    Spec => /\ [](WorkerLeft \in 0..21)
            /\ [][/\ gpc \in StopPcs => client'.stop
                  /\ client.stop /\ client'.stop =>
                         /\ WorkerLeft' <= WorkerLeft
                         /\ Worker => WorkerLeft' < WorkerLeft]_vars
<1>1. ASSUME IInv, TypeOK', [Next]_vars
      PROVE  /\ gpc \in StopPcs => client'.stop
             /\ client.stop /\ client'.stop =>
                    /\ WorkerLeft' <= WorkerLeft
                    /\ Worker => WorkerLeft' < WorkerLeft
  <2>0. WorkerLeft \in Int /\ WorkerLeft' \in Int
    <3>1. /\ wpc \in WorkerPcs /\ wpost \in Seq(Events) /\ Len(wpost) <= 1
          /\ wpc' \in WorkerPcs /\ wpost' \in Seq(Events) /\ Len(wpost') <= 1
      BY <1>1 DEF IInv, TypeOK
    <3>2. WorkerLeft \in 0..21 /\ WorkerLeft' \in 0..21
      BY ONLY <3>1, WorkerLeftRange, WorkerLeftRangeNext
    <3> QED BY <3>2
  <2>1. gpc \in StopPcs => client'.stop
    <3>1. SUFFICES ASSUME gpc \in StopPcs PROVE client'.stop
      OBVIOUS
    <3>2. client.stop /\ ~GuiIdle
      BY <1>1, <3>1 DEF IInv, Phases, StopPcs, GuiIdle
    <3>3. client' = client \/ client'.stop = client.stop
      <4>1. CASE Worker
        BY <1>1, <4>1 DEF IInv, TypeOK, Worker, WPost, WTop, WCreate, WConnect, WMark, WUp,
           WSubscribe, WStart, WCheck, WNull, WMessage, WAck, WNews, WLeave, WFailed,
           WAfter, WRetry, WBackoff, WEnd, WorkerSetsConnected, WorkerSetsState
      <4>2. CASE Gui
        BY <1>1, <3>1, <3>2, <4>2 DEF IInv, TypeOK, StopPcs, Gui, StopStep, StopPost,
           StopConsuming, StopDisconnect, StopJoin, PingStep, PingInsert, PingEmit,
           HandleEvent
      <4>3. CASE Timer \/ User
        BY <3>2, <4>3 DEF Timer, HandlePingTimeout, User, ConnectClicked, StopClicked,
                          PingClicked
      <4>4. CASE Drop \/ Restore \/ Deliver \/ UNCHANGED vars
        BY <4>4 DEF Drop, Restore, Deliver, Outside, vars
      <4> QED BY <1>1, <4>1, <4>2, <4>3, <4>4 DEF Next
    <3> QED BY <3>2, <3>3
  <2>2. SUFFICES ASSUME client.stop, client'.stop
                 PROVE  /\ WorkerLeft' <= WorkerLeft
                        /\ Worker => WorkerLeft' < WorkerLeft
    BY <2>1
  <2>3. CASE Worker
    BY <1>1, <2>0, <2>2, <2>3, WorkerStepsDown DEF IInv
  <2>4. CASE ~Worker
    <3>1. \/ wpc' = wpc
          \/ wpc \in {"none", "exited"} /\ wpc' = "none"
      BY <1>1, <2>2, <2>4 DEF Next, Gui, StopStep, StopPost, StopConsuming, StopDisconnect,
         StopJoin, PingStep, PingInsert, PingEmit, HandleEvent, Timer, HandlePingTimeout,
         User, ConnectClicked, ConnectToBroker, StopClicked, PingClicked, Drop, Restore,
         Deliver, Outside, vars, IInv, TypeOK
    <3>2. wpost' = wpost
      BY <1>1, <2>4 DEF Next, Gui, StopStep, StopPost, StopConsuming, StopDisconnect,
         StopJoin, PingStep, PingInsert, PingEmit, HandleEvent, Timer, HandlePingTimeout,
         User, ConnectClicked, StopClicked, PingClicked, GuiFrame, Drop, Restore,
         Deliver, Outside, vars
    <3>3. WorkerPcLeft' = WorkerPcLeft
      BY <3>1 DEF WorkerPcLeft
    <3>4. WorkerLeft' = WorkerLeft
      BY <3>2, <3>3 DEF WorkerLeft
    <3> QED BY <2>0, <2>4, <3>4
  <2> QED BY <2>3, <2>4
<1>2. IInv /\ TypeOK' /\ [Next]_vars =>
        [/\ gpc \in StopPcs => client'.stop
         /\ client.stop /\ client'.stop =>
                /\ WorkerLeft' <= WorkerLeft
                /\ Worker => WorkerLeft' < WorkerLeft]_vars
  BY <1>1
<1>3. TypeOK => WorkerLeft \in 0..21
  BY WorkerLeftRange DEF TypeOK
<1> QED BY <1>2, <1>3, Invariance, TypeCorrect, PTL DEF Spec
=============================================================================
