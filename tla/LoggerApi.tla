------------------------------ MODULE LoggerApi ------------------------------
(***************************************************************************)
(* EkinoxLoggerApi: how one HTTP exchange with the data logger becomes a   *)
(* LoggerResult, and how EkinoxService reads whether the device records    *)
(* from it.  A pure module: no state.                                      *)
(*                                                                         *)
(* An optional value, a JSON member that may be missing or have another    *)
(* type or a flag that may be unset, is a set with at most one element.    *)
(* The URLs and the texts of results and acknowledgments are left out.     *)
(***************************************************************************)
EXTENDS Integers

CONSTANTS
    Names,        \* the session names other than ""
    Speeds        \* the values of writeSpeed
ASSUME SpeedsAssumption == Speeds \subseteq Int

Optional(S) == {{}} \cup {{v} : v \in S}

\* The values of the JSON member "status" that the code or the documents tell
\* apart, "" included.
StatusValues == {"", "ready", "recording", "other"}

\* A JSON object.  flags: "recording", "isRecording", "recording_active" and
\* "active".  The members mode and state only reach texts.
Objects == [status : Optional(StatusValues), session : Optional(Names \cup {""}),
            speed : Optional(Speeds), flags : [1..4 -> Optional(BOOLEAN)]]

\* The body of a reply: {} when it is empty, no JSON or no object.
Bodies == Optional(Objects)

\* LoggerResult: ok, http_code, has_recording_flag with recording_active.
Results == [ok : BOOLEAN, http : Nat, recording : Optional(BOOLEAN)]

-----------------------------------------------------------------------------
(* enrich_from_json.                                                        *)

\* Mutant: a session name counts whatever the status is.
SessionSpeaksAlways(o) == o.session \notin {{}, {""}}

\* A session name counts unless the status is "ready".
SessionSpeaks(o) == o.session \notin {{}, {""}} /\ o.status # {"ready"}

UsedHeuristic(o) == o.status # {} \/ SessionSpeaks(o) \/ o.speed # {}

RecordingViaHeuristic(o) ==
    \/ o.status = {"recording"}
    \/ SessionSpeaks(o)
    \/ \E v \in o.speed : v > 0

\* The first of the four members that is a Boolean.
ExplicitFlag(o) ==
    LET given == {i \in 1..4 : o.flags[i] # {}}
    IN  IF given = {} THEN {}
        ELSE o.flags[CHOOSE i \in given : \A j \in given : i <= j]

\* The explicit flags are read only if no other member says anything.
Recording(o) ==
    IF UsedHeuristic(o) THEN {RecordingViaHeuristic(o)} ELSE ExplicitFlag(o)

EnrichFromJson(result, body) ==
    [result EXCEPT !.recording = UNION {Recording(o) : o \in body}]

-----------------------------------------------------------------------------
(* perform_http_request and the validation before it.                       *)

Failed == [ok |-> FALSE, http |-> 0, recording |-> {}]

\* An exchange: whether curl completed it, the HTTP code, the body.
PerformHttpRequest(done, http, body) ==
    IF done
    THEN EnrichFromJson([ok |-> http \in 200..299, http |-> http, recording |-> {}], body)
    ELSE Failed

\* validate_rest_target: an IP and a positive port are configured.
ValidTarget(hasIp, port) == hasIp /\ port > 0

DataLoggerGet(hasIp, port, done, http, body) ==
    IF ValidTarget(hasIp, port) THEN PerformHttpRequest(done, http, body) ELSE Failed

-----------------------------------------------------------------------------
(* What EkinoxService concludes.                                            *)

LoggerStateMatches(result, expected) == result.ok /\ result.recording = {expected}

ReportsRecording(result) == LoggerStateMatches(result, TRUE)
ReportsIdle(result) == LoggerStateMatches(result, FALSE)

\* The class of replies EkinoxLogger tells apart for a GET.
GetClass(result) ==
    IF ReportsRecording(result) THEN "recording"
    ELSE IF ReportsIdle(result) THEN "idle"
    ELSE IF result.ok THEN "noflag"
    ELSE IF result.http = 404 THEN "notfound"
    ELSE "error"

-----------------------------------------------------------------------------
(* The replies of the device, external: the fields docs/                    *)
(* TEST_EKINOX_SERVICE.md:6 lists, with the values of status of line 74.    *)

\* A data logger that says "recording" or "ready", keeps or drops the name of
\* its session when it stops, and writes only while it records.  Whatever
\* flags it adds do not matter.
Documented(doing) ==
    {o \in Objects :
        /\ o.status = {IF doing = "recording" THEN "recording" ELSE "ready"}
        /\ doing = "idle" => o.speed \in {{}, {0}}}
=============================================================================
