-------------------------- MODULE ChallengeSignals --------------------------
(***************************************************************************)
(* challenge/detector.ts: whether what is read of a page makes it a        *)
(* challenge that pauses the session.  A text is known by the strongest    *)
(* signature of challenge/signatures.ts that matches it.                   *)
(***************************************************************************)
EXTENDS PureInput, FiniteSets

Markers == {"none", "weak", "strong"}

\* A page: its URL, title and body, its iframes, a known challenge container, and the
\* status of the response (a number only where the caller knows it).
ScannedPages == [url : Markers, title : Markers, text : Markers, iframes : SUBSET (Markers \ {"none"}),
                 container : BOOLEAN, status : {"none", "blocked"}]

\* The reads of detectPage; each may fail when the page closes under it, and a loop over
\* frames that fails has seen some of them.  A failure to read what is not there is the
\* same scan as none.
PageReads == {"title", "text", "iframes", "frames", "container"}
Scans == {s \in [page : ScannedPages, failed : SUBSET PageReads, seen : SUBSET (Markers \ {"none"})] :
             /\ "title" \in s.failed => s.page.title # "none"
             /\ "text" \in s.failed => s.page.text # "none"
             /\ s.seen \subseteq IF s.failed \intersect {"iframes", "frames"} = {} THEN {}
                               ELSE s.page.iframes \union {s.page.url}}

\* Mutant: a container that cannot be looked for counts as found.
ObservedPageAnxious(page, failed, seen) ==
    [url |-> page.url, title |-> page.title, text |-> page.text, frames |-> page.iframes \union {page.url},
     container |-> page.container \/ "container" \in failed, status |-> page.status]

\* detectPage: a read that fails leaves its evidence out. page.frames() lists the main
\* frame too, so the page's own URL is among the frames.
ObservedPage(page, failed, seen) ==
    LET urls == page.iframes \union {page.url} IN
    [url |-> page.url,
     title |-> IF "title" \in failed THEN "none" ELSE page.title,
     text |-> IF "text" \in failed THEN "none" ELSE page.text,
     frames |-> (IF "iframes" \in failed THEN page.iframes \intersect seen ELSE page.iframes)
                \union (IF "frames" \in failed THEN urls \intersect seen ELSE urls),
     container |-> page.container /\ "container" \notin failed,
     status |-> page.status]

Signal(source, confidence) == [source |-> source, confidence |-> confidence]

\* One source: its strong signatures are tried before the weak ones.
SourceSignals(source, marker, confidence) ==
    CASE marker = "strong" -> {Signal(source, confidence)}
      [] marker = "weak" -> {Signal(source, "low")}
      [] OTHER -> {}

\* The signals of an observation; mergeChallengeSignals makes them a set.
SignalsOf(o) ==
    SourceSignals("url", o.url, "high")
    \union SourceSignals("title", o.title, "high")
    \union SourceSignals("text", o.text, "medium")
    \union {Signal("iframe", "high") : m \in o.frames \ {"none"}}
    \union (IF o.container THEN {Signal("container", "high")} ELSE {})
    \union (IF o.status = "blocked" THEN {Signal("response", "low")} ELSE {})

ResponseOnly(signals) == \A s \in signals : s.source = "response"

Decides(signals) ==
    LET sources == {s.source : s \in signals}
        high == \E s \in signals : s.confidence = "high" IN
    \/ \E s \in signals : s.source \in {"iframe", "container"}
    \/ Signal("url", "high") \in signals
    \/ Signal("title", "high") \in signals /\ (Cardinality(sources) > 1 \/ high)
    \/ Cardinality(sources) >= 2 /\ high

Detected(o) ==
    LET signals == SignalsOf(o) IN signals # {} /\ ~ResponseOnly(signals) /\ Decides(signals)

-----------------------------------------------------------------------------
ChallengeGiven == Given("challenge", Scans)
ChallengeAnswers ==
    Answers("challenge", [scan |-> Detected(ObservedPage(input.value.page, input.value.failed, input.value.seen)),
                          whole |-> Detected(ObservedPage(input.value.page, {}, {}))])

\* What a page says in its title or its text pauses no session by itself, and neither
\* does a blocked response: a marked URL, a frame, a container or a title that only
\* challenge pages have must be there too.
TextNeverDecides ==
    Evaluated("challenge") /\ answer[1].whole =>
       LET p == input.value.page IN
       p.url # "none" \/ p.iframes \ {"none"} # {} \/ p.container \/ p.title = "strong"

\* A page that closes while it is scanned only hides evidence: a scan that could not
\* read everything reports no challenge that the whole page would not be.
PartialScanReportsLess ==
    Evaluated("challenge") => (answer[1].scan => answer[1].whole)

\* What a page says alone never pauses a session, and less of a page read never
\* means more of a challenge.
VerdictSound == TextNeverDecides /\ PartialScanReportsLess
=============================================================================
