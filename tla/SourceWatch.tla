----------------------------- MODULE SourceWatch -----------------------------
(***************************************************************************)
(* What a run learns from a source, and what the operator hears about the  *)
(* source's health.  A source asks for its entries one after the other --  *)
(* boards or search queries, the pages of a list, or the pages of each     *)
(* term of a search with a circuit breaker -- and sums up what it got in   *)
(* one status.  The run compares the status with the stored one, stores    *)
(* it, and tells the operator in the digest, which may name a few sources  *)
(* and only count the others; what is told is remembered nowhere else.     *)
(***************************************************************************)
EXTENDS WorkspaceFiles, FiniteSets, Sequences, SequencesExt

CONSTANTS
  Entries,         \* how many entries a source is configured with
  TermPages,       \* how many pages of a term are asked for at most
  Limits,          \* the limits of rows a run may set, None for no limit
  Roster,          \* the sources of a run, in their order
  Findings,        \* bound: the health a run may find its sources in
  NameLimits,      \* how many sources a digest names, None for all
  Watchers,        \* run processes
  AlertCooldown,   \* hours before an error change or a drop is told again
  LastHour,        \* bound: the last hour
  MaxWatches,      \* bound: runs
  MaxLapses        \* bound: lapses

ASSUME EntriesAreCounted ==
  Entries \in Nat /\ TermPages \in Nat /\ Limits \subseteq Nat \union {None}

Watched == ToSet(Roster)

VARIABLES
  collection,      \* [adapter, limit, answers, health]: one source in one run
  healthState,     \* source_health_state
  watcher,         \* what each run holds
  hour, watches,
  known,           \* history: what the operator last heard of a source
  lapses           \* history: dry runs, failed sends, crashes, overlaps

watchVars == <<healthState, watcher, hour, watches, known, lapses>>

----------------------------------------------------------------------------
(* The answer to one entry.  "refused" is a 401, 403, 429 or a 503 with a  *)
(* Retry-After; "held" the request the run's own budget deferred.          *)
Answers ==
  {[kind |-> k, good |-> 0, bad |-> 0, last |-> FALSE] :
     k \in {"unnamed", "refused", "error", "held", "garbled"}} \union
  [kind : {"read"}, good : {0, 2}, bad : {0, 1}, last : BOOLEAN]

(* A request of a search is read, fails, or raises what it does not expect *)
(* (a row it cannot read does, whatever else is on the page).              *)
AnswersTo(adapter) ==
  IF adapter = "terms"
  THEN {a \in Answers : /\ a.kind \in {"error", "held", "read"}
                        /\ a.bad > 0 => a.good = 0 /\ ~a.last}
  ELSE Answers

Nothing == [results |-> <<>>, kept |-> 0, asked |-> {}, stop |-> FALSE,
            read |-> 0, status |-> "ok", error |-> None]

(* The rows of an answer that still fit under the limit.                   *)
Fitting(limit, kept, good) ==
  IF limit = None \/ kept + good <= limit THEN good
  ELSE IF kept >= limit THEN 0 ELSE limit - kept

Noted(h, result, error) ==
  [h EXCEPT !.results = Append(@, result), !.error = IF error = None THEN @ ELSE error]

Full(limit, h) == limit # None /\ h.kept >= limit

(* fetch_boards and fetch_queries: an entry that is not asked is deferred, *)
(* a failure of one entry leaves the others alone, a refusal stops all.    *)
AskEntry(limit, answers, h, i) ==
  LET a == answers[i]
      sent == [h EXCEPT !.asked = @ \union {i}]
      fit == Fitting(limit, h.kept, a.good)
  IN IF h.stop \/ Full(limit, h) THEN Noted(h, "deferred", None)
     ELSE IF a.kind = "unnamed" THEN Noted(h, "failed", "invalid_board_slug")
     ELSE IF a.kind = "refused" THEN [Noted(sent, "failed", "http") EXCEPT !.stop = TRUE]
     ELSE IF a.kind = "error" THEN Noted(sent, "failed", "http")
     ELSE IF a.kind = "held" THEN [Noted(sent, "deferred", None) EXCEPT !.stop = TRUE]
     ELSE IF a.kind = "garbled" THEN Noted(sent, "failed", "invalid_payload")
     ELSE
            [Noted(sent,
                   IF a.bad > 0 \/ fit < a.good THEN "partial"
                   ELSE IF a.good + a.bad > 0 THEN "ok" ELSE "empty",
                   IF a.bad > 0 THEN "invalid_rows" ELSE None)
             EXCEPT !.kept = @ + fit, !.read = @ + 1]

Status(h) ==
  IF ToSet(h.results) \subseteq {"ok", "empty"} THEN IF h.kept > 0 THEN "ok" ELSE "empty"
  ELSE IF h.kept > 0 \/ h.read > 0 \/ "failed" \notin ToSet(h.results)
  THEN "partial" ELSE "failed"

(* Arbeitnow: pages until the last; whatever stops before it is noted.     *)
AskPage(limit, answers, h, i) ==
  LET a == answers[i]
      sent == [h EXCEPT !.asked = @ \union {i}]
      fit == Fitting(limit, h.kept, a.good)
      cut(g, result, status) == [Noted(g, result, None) EXCEPT !.stop = TRUE, !.status = status]
  IN IF h.stop THEN h
     ELSE IF Full(limit, h) THEN cut(h, "deferred", "partial")
     ELSE IF a.kind = "held" THEN cut(sent, "deferred", "partial")
     ELSE IF a.kind \in {"unnamed", "refused", "error"} THEN
            [cut(sent, "failed", IF h.read > 0 THEN "partial" ELSE "failed") EXCEPT !.error = "http"]
     ELSE IF a.kind = "garbled" \/ a.bad > 0 THEN
            [cut(sent, "failed", IF h.kept > 0 THEN "partial" ELSE "failed")
             EXCEPT !.error = "invalid_payload"]
     ELSE
            LET g == [Noted(sent, "ok", None) EXCEPT !.kept = @ + fit, !.read = @ + 1] IN
            IF fit < a.good THEN cut(g, "deferred", "partial")
            ELSE IF a.last THEN [g EXCEPT !.stop = TRUE] ELSE g

(* Adzuna asks for the pages of a term until a short one, then for the     *)
(* next term; `good' counts the rows it does not have yet.  After the last *)
(* page allowed a term is left, however full that page was.                *)
TermOf(i) == (i - 1) \div TermPages

BehindShortPage(answers, h, i) ==
  \E j \in h.asked : TermOf(j) = TermOf(i) /\ answers[j].last

(* The first exhausted request ends the search and leaves its rows; what   *)
(* the search does not expect drops them all (Source.fetch).               *)
AskTerm(answers, h, i) ==
  LET a == answers[i]
      sent == Noted([h EXCEPT !.asked = @ \union {i}],
                    IF a.kind = "read" THEN "ok" ELSE "failed",
                    IF a.kind = "read" THEN None ELSE "http")
      raised == a.kind = "held" \/ (a.kind = "read" /\ a.bad > 0)
  IN IF h.stop \/ BehindShortPage(answers, h, i) THEN h
     ELSE IF raised THEN [sent EXCEPT !.stop = TRUE, !.status = "failed", !.kept = 0]
     ELSE IF a.kind # "read" THEN
            [sent EXCEPT !.stop = TRUE, !.status = IF h.kept > 0 THEN "partial" ELSE "failed"]
     ELSE [sent EXCEPT !.kept = @ + a.good, !.read = @ + 1]

(* One entry after the other.                                              *)
AskNext(adapter, limit, answers, h, i) ==
  CASE adapter = "boards" -> AskEntry(limit, answers, h, i)
    [] adapter = "pages" -> AskPage(limit, answers, h, i)
    [] OTHER -> AskTerm(answers, h, i)

Requests(adapter) == IF adapter = "terms" THEN Entries * TermPages ELSE Entries

Gathering(adapter, limit, answers) ==
  LET upTo[n \in 0..Requests(adapter)] ==
        IF n = 0 THEN Nothing ELSE AskNext(adapter, limit, answers, upTo[n - 1], n)
  IN upTo[Requests(adapter)]

(* What the adapter makes of it.                                           *)
Boards(h) == [h EXCEPT !.status = Status(h)]

Pages(h) ==
  LET all == IF h.stop THEN h ELSE [Noted(h, "deferred", None) EXCEPT !.status = "partial"]
  IN IF all.status = "ok" /\ all.kept = 0 THEN [all EXCEPT !.status = "empty"] ELSE all

(* Source.fetch cuts the rows to the limit without a word.                 *)
Terms(limit, h) ==
  LET cut == [h EXCEPT !.kept = Fitting(limit, 0, @)]
  IN IF cut.status = "ok" /\ cut.kept = 0 THEN [cut EXCEPT !.status = "empty"] ELSE cut

Collect(adapter, limit, answers) ==
  LET h == Gathering(adapter, limit, answers)
  IN CASE adapter = "boards" -> Boards(h)
       [] adapter = "pages" -> Pages(h)
       [] OTHER -> Terms(limit, h)

CollectInit ==
  \E adapter \in {"boards", "pages", "terms"}, limit \in Limits :
    \E answers \in [1..Requests(adapter) -> AnswersTo(adapter)] :
      collection = [adapter |-> adapter, limit |-> limit, answers |-> answers, health |-> None]

CollectNext ==
  /\ collection.health = None
  /\ collection' = [collection EXCEPT !.health =
       Collect(collection.adapter, collection.limit, collection.answers)]

----------------------------------------------------------------------------
(* The alerts.                                                             *)
Healths ==
  {[status |-> s, count |-> n, error |-> None] : s \in {"ok"}, n \in {1, 4}} \union
  {[status |-> "empty", count |-> 0, error |-> None],
   [status |-> "partial", count |-> 1, error |-> "http"],
   [status |-> "failed", count |-> 0, error |-> "http"],
   [status |-> "failed", count |-> 0, error |-> "invalid_payload"],
   [status |-> "disabled", count |-> 0, error |-> None]}

HealthRow ==
  [status : {"ok", "empty", "partial", "failed", "disabled"}, count : Nat,
   error : {None, "http", "invalid_payload"}, alerted : Nat \union {None}]

ASSUME NoneIsNoRow == None \notin HealthRow /\ Findings \subseteq [Watched -> Healths]

Degraded(h) == h.status \in {"partial", "failed"}

Cooled(row, asOf) == row.alerted = None \/ asOf - row.alerted >= AlertCooldown

(* Fault: a source that gets worse is not told while it was degraded.      *)
HealthTransitionOnce(row, h, asOf) ==
  IF row = None THEN IF h.status = "failed" THEN "failed" ELSE "none"
  ELSE IF Degraded(row) /\ ~Degraded(h) THEN "recovered"
  ELSE IF ~Degraded(row) /\ Degraded(h) THEN h.status
  ELSE "none"

(* annotate_source_health.                                                 *)
HealthTransition(row, h, asOf) ==
  IF row = None THEN IF Degraded(h) THEN h.status ELSE "none"
  ELSE IF Degraded(row) /\ ~Degraded(h) THEN "recovered"
  ELSE IF row.status # "failed" /\ h.status = "failed" THEN "failed"
  ELSE IF ~Degraded(row) /\ Degraded(h) THEN h.status
  ELSE
         IF Degraded(h) /\ h.error # row.error /\ Cooled(row, asOf) THEN "error_changed"
         ELSE IF row.count > 0 /\ h.count < row.count /\ 2 * h.count <= row.count
                 /\ Cooled(row, asOf)
         THEN "coverage_drop" ELSE "none"

NotWatching == [at |-> "idle", dry |-> FALSE, asOf |-> None, names |-> None,
                health |-> None, said |-> None]

WatchInit ==
  /\ healthState = [s \in Watched |-> None]
  /\ watcher = [w \in Watchers |-> NotWatching]
  /\ hour = 0 /\ watches = 0
  /\ known = [s \in Watched |-> "fine"]
  /\ lapses = 0

Lapse(n) == lapses + n <= MaxLapses /\ lapses' = lapses + n

BeginWatch(w) ==
  /\ watcher[w].at = "idle" /\ watches < MaxWatches
  /\ watches' = watches + 1
  /\ \E health \in Findings, dry \in BOOLEAN, names \in NameLimits :
       watcher' = [watcher EXCEPT ![w] = [NotWatching EXCEPT
         !.at = "fetched", !.dry = dry, !.asOf = hour, !.names = names, !.health = health]]
  /\ Lapse(IF \E v \in Watchers : watcher[v].at # "idle" THEN 1 ELSE 0)
  /\ UNCHANGED <<healthState, hour, known>>

AnnotateHealth(w) ==
  /\ watcher[w].at = "fetched"
  /\ watcher' = [watcher EXCEPT ![w].at = "annotated", ![w].said =
       [s \in Watched |-> HealthTransition(healthState[s], watcher[w].health[s], watcher[w].asOf)]]
  /\ UNCHANGED <<healthState, hour, watches, known, lapses>>

(* The alert's time is stored before the alert is told.                    *)
RecordHealth(w) ==
  /\ watcher[w].at = "annotated"
  /\ healthState' = [s \in Watched |->
       LET h == watcher[w].health[s]
           old == IF healthState[s] = None THEN None ELSE healthState[s].alerted
       IN [status |-> h.status, count |-> h.count, error |-> h.error,
           alerted |-> IF watcher[w].said[s] = "none" THEN old ELSE watcher[w].asOf]]
  /\ watcher' = [watcher EXCEPT ![w].at = "recorded"]
  /\ UNCHANGED <<hour, watches, known, lapses>>

(* A change of health is reason enough to send a digest.                   *)
Alerted(w) == \E s \in Watched : watcher[w].said[s] # "none"

(* Every degraded source and every transition is a line of the digest; the *)
(* one of V4.2 has them all, compact_coverage of V5 the first few and the  *)
(* number of the others.                                                   *)
IsLine(w, s) == Degraded(watcher[w].health[s]) \/ watcher[w].said[s] # "none"

Lines(w) == SelectSeq(Roster, LAMBDA s : IsLine(w, s))

Named(w) ==
  {s \in Watched : \E i \in DOMAIN Lines(w) :
     Lines(w)[i] = s /\ (watcher[w].names = None \/ i <= watcher[w].names)}

(* Of a source that is only counted the operator cannot tell how it is.    *)
Heard(w) ==
  [s \in Watched |->
     IF ~IsLine(w, s) THEN known[s]
     ELSE IF s \notin Named(w) THEN "counted"
     ELSE IF Degraded(watcher[w].health[s]) THEN "degraded"
     ELSE IF watcher[w].said[s] = "recovered" THEN "fine" ELSE known[s]]

TellHealth(w) ==
  /\ watcher[w].at = "recorded" /\ ~watcher[w].dry
  /\ \E jobs, sent \in BOOLEAN :
       /\ known' = IF (jobs \/ Alerted(w)) /\ sent THEN Heard(w) ELSE known
       /\ Lapse(IF sent THEN 0 ELSE 1)
  /\ watcher' = [watcher EXCEPT ![w] = NotWatching]
  /\ UNCHANGED <<healthState, hour, watches>>

EndDryWatch(w) ==
  /\ watcher[w].at = "recorded" /\ watcher[w].dry
  /\ watcher' = [watcher EXCEPT ![w] = NotWatching]
  /\ Lapse(1)
  /\ UNCHANGED <<healthState, hour, watches, known>>

WatcherCrash(w) ==
  /\ watcher[w].at # "idle"
  /\ watcher' = [watcher EXCEPT ![w] = NotWatching]
  /\ Lapse(1)
  /\ UNCHANGED <<healthState, hour, watches, known>>

NextHour ==
  /\ hour < LastHour
  /\ hour' = hour + 1
  /\ UNCHANGED <<healthState, watcher, watches, known, lapses>>

WatchNext ==
  \/ \E w \in Watchers :
       \/ BeginWatch(w) \/ AnnotateHealth(w) \/ RecordHealth(w) \/ TellHealth(w)
       \/ EndDryWatch(w) \/ WatcherCrash(w)
  \/ NextHour

SourceSpec ==
  /\ CollectInit /\ WatchInit
  /\ [][\/ CollectNext /\ UNCHANGED watchVars
        \/ WatchNext /\ UNCHANGED collection]_<<collection, watchVars>>

----------------------------------------------------------------------------
(* The rows of the first entries, for each number of them.                 *)
RowsUpTo(answers) ==
  LET sum[n \in 0..Entries] == IF n = 0 THEN 0 ELSE sum[n - 1] + answers[n].good
  IN sum

(* A source that reports "ok" or "empty" was asked for everything and gave *)
(* everything: no entry failed or was put off, nothing was cut or dropped. *)
(* A search only says that it was answered: every page it asked for was    *)
(* read, and every other lies behind a short page of its term; that there  *)
(* were more pages than it may ask for, or rows than the limit, it does    *)
(* not tell.  After a refusal no request follows, every entry of a batch   *)
(* has one result, and a source failed only if nothing of it was kept.     *)
HealthIsHonest ==
  LET h == collection.health
      a == collection.answers
      whole == {i \in DOMAIN a : a[i].kind = "read"}
      rows == RowsUpTo(a)
  IN h # None =>
       /\ collection.adapter = "boards" => Len(h.results) = Entries
       /\ \A i, j \in h.asked : i < j => a[i].kind \notin {"refused", "held"}
       /\ h.status = "failed" => h.kept = 0
       /\ collection.limit # None => h.kept <= collection.limit
       /\ h.status \in {"ok", "empty"} =>
            CASE collection.adapter = "boards" ->
                   whole = 1..Entries /\ h.kept = rows[Entries] /\ \A i \in whole : a[i].bad = 0
              [] collection.adapter = "pages" ->
                   \E n \in whole : a[n].last /\ h.asked = 1..n /\ h.kept = rows[n]
              [] OTHER -> \A i \in DOMAIN a :
                   IF i \in h.asked THEN i \in whole /\ a[i].bad = 0
                   ELSE BehindShortPage(a, h, i)

(* The operator's picture follows the stored one: unless a run was dry,    *)
(* crashed, failed to send or overlapped another, what was last heard of a *)
(* source says it is degraded exactly if it is stored as degraded -- but   *)
(* for a source that the last digest with a line for it only counted.  A   *)
(* transition is told once, so a picture that went wrong stays wrong.      *)
PictureAgrees ==
  \A s \in Watched :
    /\ lapses = 0 /\ healthState[s] # None
    /\ known[s] # "counted" /\ \A w \in Watchers : watcher[w].at # "recorded"
    => (known[s] = "degraded") = Degraded(healthState[s])

\* What a source reports of itself is true, and the operator hears of it.
SourcesReportTruly == HealthIsHonest /\ PictureAgrees
=============================================================================
