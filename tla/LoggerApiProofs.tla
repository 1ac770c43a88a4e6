--------------------------- MODULE LoggerApiProofs ---------------------------
(***************************************************************************)
(* What EkinoxLoggerApi makes of a reply, for every session name and every *)
(* write speed.                                                            *)
(***************************************************************************)
EXTENDS LoggerApi, TLAPS

DeviceAnswers == {"idle", "recording"}

\* enrich_from_json reads from every documented reply what the device does:
\* the name of a session that is over and contradicting flags do not count.
THEOREM DocumentedReadRight ==
    ASSUME NEW d \in DeviceAnswers, NEW o \in Documented(d)
    PROVE  Recording(o) = {d = "recording"}
<1>1. /\ o \in Objects
      /\ o.status = {IF d = "recording" THEN "recording" ELSE "ready"}
      /\ d = "idle" => o.speed \in {{}, {0}}
  BY DEF Documented
<1>2. UsedHeuristic(o)
  BY <1>1 DEF UsedHeuristic
<1>3. CASE d = "recording"
  <2>1. RecordingViaHeuristic(o)
    BY <1>1, <1>3 DEF RecordingViaHeuristic
  <2>2. RecordingViaHeuristic(o) = (d = "recording")
    BY <2>1, <1>3 DEF RecordingViaHeuristic
  <2> QED BY <1>2, <2>2 DEF Recording
<1>4. CASE d = "idle"
  <2>1. o.status = {"ready"}
    BY <1>1, <1>4
  <2>2. ~ SessionSpeaks(o)
    BY <2>1 DEF SessionSpeaks
  <2>3. \A v \in o.speed : ~ (v > 0)
    BY <1>1, <1>4
  <2>4. o.status # {"recording"}
    BY <2>1
  <2>5. ~ RecordingViaHeuristic(o)
    BY <2>2, <2>3, <2>4 DEF RecordingViaHeuristic
  <2>6. RecordingViaHeuristic(o) = (d = "recording")
    BY <2>5, <1>4 DEF RecordingViaHeuristic
  <2> QED BY <1>2, <2>6 DEF Recording
<1> QED BY <1>3, <1>4 DEF DeviceAnswers

\* A GET that a device answers as documented, with any 2xx, is the reply of
\* EkinoxLogger that says what the device does.
THEOREM DocumentedGet ==
    ASSUME NEW d \in DeviceAnswers, NEW o \in Documented(d),
           NEW port \in Int, port > 0, NEW http \in 200..299
    PROVE  GetClass(DataLoggerGet(TRUE, port, TRUE, http, {o})) = d
<1> DEFINE r == DataLoggerGet(TRUE, port, TRUE, http, {o})
           flag == {d = "recording"}
<1>1. UNION {Recording(p) : p \in {o}} = flag
  BY DocumentedReadRight
<1> HIDE DEF flag
<1>2. r = [ok |-> TRUE, http |-> http, recording |-> flag]
  BY <1>1 DEF DataLoggerGet, ValidTarget, PerformHttpRequest, EnrichFromJson
<1> HIDE DEF r
<1>3. r.ok /\ r.recording = flag
  BY <1>2
<1> USE DEF flag
<1>4. CASE d = "recording"
  <2>1. ReportsRecording(r)
    BY <1>3, <1>4 DEF ReportsRecording, LoggerStateMatches
  <2> QED BY <2>1, <1>4 DEF GetClass, r
<1>5. CASE d = "idle"
  <2>1. r.recording = {FALSE}
    BY <1>3, <1>5
  <2>2. ReportsIdle(r) /\ ~ ReportsRecording(r)
    BY <1>3, <2>1 DEF ReportsIdle, ReportsRecording, LoggerStateMatches
  <2> QED BY <2>2, <1>5 DEF GetClass, r
<1> QED BY <1>4, <1>5 DEF DeviceAnswers

\* The other side of the heuristic: a reply that has a session name and no
\* status reads as recording, whatever its explicit flags say.
THEOREM NameHidesFlag ==
    ASSUME NEW o \in Objects, o.status = {}, o.session \notin {{}, {""}}
    PROVE  Recording(o) = {TRUE}
<1>1. SessionSpeaks(o)
  BY DEF SessionSpeaks
<1>2. UsedHeuristic(o) /\ RecordingViaHeuristic(o) = TRUE
  BY <1>1 DEF UsedHeuristic, RecordingViaHeuristic
<1> QED BY <1>2 DEF Recording

\* An exchange that failed, in curl or with a code outside 2xx, never lets a
\* handler conclude that the device records or is idle, whatever its body.
THEOREM FailureProvesNothing ==
    ASSUME NEW hasIp \in BOOLEAN, NEW port \in Int, NEW done \in BOOLEAN,
           NEW http \in Nat, http \notin 200..299, NEW body \in Bodies
    PROVE  GetClass(DataLoggerGet(hasIp, port, done, http, body)) \in {"notfound", "error"}
<1> DEFINE r == DataLoggerGet(hasIp, port, done, http, body)
<1>1. Failed.ok = FALSE
  BY DEF Failed
<1>2. PerformHttpRequest(done, http, body).ok = FALSE
  <2>1. (http \in 200..299) = FALSE
    OBVIOUS
  <2>2. ASSUME NEW ok PROVE EnrichFromJson([ok |-> ok, http |-> http, recording |-> {}], body).ok = ok
    BY DEF EnrichFromJson
  <2> QED BY <1>1, <2>1, <2>2 DEF PerformHttpRequest
<1>3. r.ok = FALSE
  BY <1>1, <1>2 DEF DataLoggerGet
<1> HIDE DEF r
<1>4. GetClass(r) \in {"notfound", "error"}
  BY <1>3 DEF GetClass, ReportsRecording, ReportsIdle, LoggerStateMatches
<1> QED BY <1>4 DEF r
=============================================================================
