--------------------------- MODULE CommandService ---------------------------
(***************************************************************************)
(* What EkinoxService promises to whoever sends commands: commands are     *)
(* executed one at a time in the order in which they arrived, each gets    *)
(* exactly one answer, and "ok" is never said without cause: a start is    *)
(* acknowledged only if the data logger really was recording at some       *)
(* moment while the command was being executed, a stop only if it was idle.*)
(* EkinoxLogger implements this specification.                             *)
(***************************************************************************)
EXTENDS Naturals, Sequences

CONSTANT Kinds    \* the kinds of command message

VARIABLES
    device,     \* the data logger: "recording" or "idle"
    queue,      \* commands that arrived and are not being executed yet
    current,    \* the command being executed: a sequence of length 0 or 1
    seen,       \* states of the device since the execution began
    arrived,    \* number of commands that arrived
    answer      \* the latest answer: NoAnswer or [n, kind, ok]

vars == <<device, queue, current, seen, arrived, answer>>

DeviceStates == {"idle", "recording"}
NoAnswer == [n |-> 0, kind |-> "ping", ok |-> TRUE]

\* Answers that the device's history during the execution justifies.
Justified(kind, ok) ==
    CASE kind = "ping"   -> ok
      [] kind = "start"  -> ok => "recording" \in seen
      [] kind = "stop"   -> ok => "idle" \in seen
      [] kind = "status" -> TRUE
      [] OTHER           -> ~ok

Init ==
    /\ device \in DeviceStates
    /\ queue = << >>
    /\ current = << >>
    /\ seen = {}
    /\ arrived = 0
    /\ answer = NoAnswer

Arrive(kind) ==
    /\ arrived' = arrived + 1
    /\ queue' = Append(queue, [n |-> arrived + 1, kind |-> kind])
    /\ UNCHANGED <<device, current, seen, answer>>

Begin ==
    /\ current = << >> /\ queue # << >>
    /\ current' = <<Head(queue)>>
    /\ queue' = Tail(queue)
    /\ seen' = {device}
    /\ UNCHANGED <<device, arrived, answer>>

DeviceStep ==
    /\ device' \in DeviceStates
    /\ seen' = IF current = << >> THEN seen ELSE seen \cup {device'}
    /\ UNCHANGED <<queue, current, arrived, answer>>

Answer(ok) ==
    /\ current # << >>
    /\ Justified(Head(current).kind, ok)
    /\ answer' = [n |-> Head(current).n, kind |-> Head(current).kind, ok |-> ok]
    /\ current' = << >>
    /\ UNCHANGED <<device, queue, seen, arrived>>

Next ==
    \/ \E kind \in Kinds : Arrive(kind)
    \/ Begin
    \/ DeviceStep
    \/ \E ok \in BOOLEAN : Answer(ok)

Spec == Init /\ [][Next]_vars

-----------------------------------------------------------------------------
\* Exactly one answer per command, in the order of arrival: the latest answer
\* and the commands still open are the numbers 1, 2, ... without gap.
Open == current \o queue
AnsweredInOrder ==
    /\ answer.n + Len(Open) = arrived
    /\ \A i \in 1..Len(Open) : Open[i].n = answer.n + i
=============================================================================
