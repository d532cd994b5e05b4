----------------------------- MODULE PostingFetch -----------------------------
(***************************************************************************)
(* How a public posting is read again at its origin.  Workers of one run   *)
(* share a budget of requests, a gate per host, the pauses hosts asked for *)
(* and a cache of pages; the pauses and the cache outlive the run.  Some   *)
(* postings have an address of their own, others are rows of one list.  A  *)
(* page that was read, now or from the cache, says that a posting is open  *)
(* as of the moment the page came.                                         *)
(***************************************************************************)
EXTENDS WorkspaceFiles, FiniteSets, Sequences, SequencesExt

CONSTANTS
  Leaves,            \* the postings to read
  Native,            \* those read from a provider's list or record; the others are pages
  Address,           \* the address asked for each posting
  Elsewhere,         \* addresses a host may redirect to
  HostOf,            \* the host of each address
  Likeness,          \* how each posting, once read, looks beside the one looked for:
                     \*   [differs, sameId, sameTitle]
  Workers,
  RequestCap, PerHost, MaxRedirects, MaxRetries,  \* RetrievalPolicy
  CacheTtl, Fallback,                             \* hours, RetrievalPolicy
  LastTick, MaxListings  \* bounds: the last hour, how often a posting is listed or taken down

ASSUME FetchAssumption ==
  /\ IsFiniteSet(Workers)
  /\ {RequestCap, PerHost, CacheTtl} \subseteq Nat

VARIABLES
  pages,             \* RetrievalBudget.cache: per address [at, body], or None
  pauses,            \* RetrievalBudget.cooldown_until, per host
  worker, sent,      \* what each worker holds; RetrievalBudget.requests
  tick, listed, listings,
  found,             \* what was learnt of each posting last
  shownAt,           \* history: the hours at which each posting was listed
  hasty              \* history: a request was sent to a host that asked to wait

fetchVars == <<pages, pauses, worker, sent, tick, listed, listings, found, shownAt, hasty>>

Addresses == {Address[l] : l \in Leaves}
Hosts == Range(HostOf)

AtRest == [at |-> "idle", leaf |-> None, trail |-> <<>>, tries |-> 0]

FetchInit ==
  /\ pages = [u \in Addresses |-> None]
  /\ pauses = [h \in Hosts |-> 0]
  /\ worker = [w \in Workers |-> AtRest]
  /\ sent = 0 /\ tick = 0 /\ listings = 0
  /\ listed \in [Leaves -> BOOLEAN]
  /\ found = [l \in Leaves |-> None]
  /\ shownAt = [l \in Leaves |-> IF listed[l] THEN {0} ELSE {}]
  /\ hasty = FALSE

----------------------------------------------------------------------------
(* What a page says.                                                       *)

(* _exact_identity, on what the posting and the one looked for share.      *)
IdentityState(like) ==
  IF {"company", "words", "language", "country"} \intersect like.differs # {} THEN "conflict"
  ELSE IF like.sameId THEN "exact"
  ELSE IF like.sameTitle THEN "corroborated"
  ELSE "uncertain"

Failure(state) == [state |-> state, identity |-> "uncertain", vacancy |-> "unknown",
                   at |-> None, asked |-> tick]

(* _parse_posting_response.  A list that lacks the posting, a page that    *)
(* leads to another host or to an index, says nothing of the vacancy.      *)
Parsed(l, body, at) ==
  IF body.form = "broken" THEN Failure(IF l \in Native THEN "failed" ELSE "partial")
  ELSE IF l \notin Native /\ body.moved THEN Failure("unavailable")
  ELSE IF l \in Native /\ l \notin body.rows THEN Failure("unavailable")
  ELSE IF l \notin Native /\ l \notin body.rows /\ ~body.notice THEN Failure("partial")
  ELSE
         [state |-> "complete", identity |-> IdentityState(Likeness[l]), at |-> at, asked |-> tick,
          vacancy |-> IF l \in Native THEN "verified_open"
                      ELSE IF body.notice THEN "explicitly_closed"
                      ELSE "unknown"]

(* child_observation: only an accepted page opens or closes a posting.     *)
Verified(r) == r.state = "complete" /\ r.identity \in {"exact", "corroborated"}

(* Fault: a page read from the cache is dated by its reading.              *)
ChildReadNow(r) ==
  [vacancy |-> IF Verified(r) THEN r.vacancy ELSE "unknown", age |-> r.asked - r.at,
   openAt |-> IF Verified(r) /\ r.vacancy = "verified_open" THEN r.asked ELSE None]

Child(r) ==
  [vacancy |-> IF Verified(r) THEN r.vacancy ELSE "unknown", age |-> r.asked - r.at,
   openAt |-> IF Verified(r) /\ r.vacancy = "verified_open" THEN r.at ELSE None]

FoundAfter(l, r) ==
  [found EXCEPT ![l] = IF r.state = "complete" THEN Child(r) ELSE @]

(* A complete page is kept as it was when it came; another result evicts.  *)
Kept(l, r, body, cached) ==
  LET u == Address[l] IN
  IF r.state # "complete" THEN [pages EXCEPT ![u] = None]
  ELSE IF cached THEN pages ELSE [pages EXCEPT ![u] = [at |-> tick, body |-> body]]

Done(w) == worker' = [worker EXCEPT ![w] = AtRest]

----------------------------------------------------------------------------
(* hydrate_public_posting.                                                 *)
Take(w, l) ==
  /\ worker[w].at = "idle" /\ \A v \in Workers : worker[v].leaf # l
  /\ LET page == pages[Address[l]] IN
     IF page # None /\ tick - page.at <= CacheTtl
     THEN LET r == Parsed(l, page.body, page.at) IN
          /\ found' = FoundAfter(l, r)
          /\ pages' = Kept(l, r, page.body, TRUE)
          /\ UNCHANGED worker
     ELSE /\ worker' = [worker EXCEPT ![w] =
               [at |-> "acquire", leaf |-> l, trail |-> <<Address[l]>>, tries |-> 0]]
          /\ UNCHANGED <<pages, found>>
  /\ UNCHANGED <<pauses, sent, tick, listed, listings, shownAt, hasty>>

Target(w) == HostOf[Last(worker[w].trail)]

PausedHost(h) == pauses[h] > tick

(* RetrievalBudget.acquire, then the host's gate.                          *)
Acquire(w) ==
  /\ worker[w].at = "acquire"
  /\ IF PausedHost(Target(w)) THEN Done(w) ELSE worker' = [worker EXCEPT ![w].at = "queued"]
  /\ UNCHANGED <<pages, pauses, sent, tick, listed, listings, found, shownAt, hasty>>

InGate(h) == {v \in Workers : worker[v].at \in {"gated", "sent"} /\ Target(v) = h}

EnterGate(w) ==
  /\ worker[w].at = "queued" /\ Cardinality(InGate(Target(w))) < PerHost
  /\ worker' = [worker EXCEPT ![w].at = "gated"]
  /\ UNCHANGED <<pages, pauses, sent, tick, listed, listings, found, shownAt, hasty>>

(* Fault: a worker that waited for the gate does not look again.           *)
OnlyCounted(w) == sent < RequestCap

(* consume_at_send: the budgets and the pause once more, then the request. *)
MaySend(w) == sent < RequestCap /\ ~PausedHost(Target(w))

Send(w) ==
  /\ worker[w].at = "gated"
  /\ \/ /\ MaySend(w)
        /\ sent' = sent + 1
        /\ worker' = [worker EXCEPT ![w].at = "sent"]
        /\ hasty' = (hasty \/ PausedHost(Target(w)))
     \/ /\ Done(w) \* the budget is spent, or the host asked to wait, or the address is private
        /\ UNCHANGED <<sent, hasty>>
  /\ UNCHANGED <<pages, pauses, tick, listed, listings, found, shownAt>>

(* note_retry_after: the time named, or the fallback, and never earlier    *)
(* than what is noted; the host is that of the posting's own address.      *)
Refused(w) ==
  /\ worker[w].at = "sent"
  /\ \E delay \in {1, Fallback} :
       LET h == HostOf[Address[worker[w].leaf]]
           until == IF pauses[h] > tick + delay THEN pauses[h] ELSE tick + delay
       IN pauses' = [pauses EXCEPT ![h] = until]
  /\ Done(w)
  /\ UNCHANGED <<pages, sent, tick, listed, listings, found, shownAt, hasty>>

(* 500, 502, 503, 504: asked again at its own address.                     *)
Unwell(w) ==
  /\ worker[w].at = "sent"
  /\ IF worker[w].tries < MaxRetries
     THEN worker' = [worker EXCEPT ![w] =
            [at |-> "acquire", leaf |-> worker[w].leaf,
             trail |-> <<Address[worker[w].leaf]>>, tries |-> worker[w].tries + 1]]
     ELSE Done(w)
  /\ UNCHANGED <<pages, pauses, sent, tick, listed, listings, found, shownAt, hasty>>

(* _get_redirected; a retry follows no redirect and reads its answer.      *)
Redirected(w) ==
  /\ worker[w].at = "sent" /\ worker[w].tries = 0
  /\ \E u \in Elsewhere :
       IF u \in ToSet(worker[w].trail) \/ Len(worker[w].trail) > MaxRedirects THEN Done(w)
       ELSE worker' = [worker EXCEPT ![w].at = "acquire", ![w].trail = Append(@, u)]
  /\ UNCHANGED <<pages, pauses, sent, tick, listed, listings, found, shownAt, hasty>>

(* Any other refusal, a transport error, a body that is too large: nothing *)
(* is learnt and the cache is left as it is.                               *)
NoAnswer(w) ==
  /\ worker[w].at = "sent"
  /\ Done(w)
  /\ UNCHANGED <<pages, pauses, sent, tick, listed, listings, found, shownAt, hasty>>

Answered(w) ==
  /\ worker[w].at = "sent"
  /\ \E form \in {"whole", "broken"}, notice \in BOOLEAN :
       LET l == worker[w].leaf
           moved == HostOf[Last(worker[w].trail)] # HostOf[Address[l]]
           body == [form |-> form, moved |-> moved, notice |-> notice,
                    rows |-> {k \in Leaves : listed[k] /\ Address[k] = Address[l]}]
           r == Parsed(l, body, tick)
       IN /\ notice => l \notin Native /\ ~listed[l]
          /\ found' = FoundAfter(l, r)
          /\ pages' = Kept(l, r, body, FALSE)
  /\ Done(w)
  /\ UNCHANGED <<pauses, sent, tick, listed, listings, shownAt, hasty>>

----------------------------------------------------------------------------
(* A run ends, or dies: the next one has a budget of its own and finds the *)
(* pauses and the pages, which are saved whenever they change.             *)
NewRun ==
  /\ sent > 0
  /\ sent' = 0
  /\ worker' = [w \in Workers |-> AtRest]
  /\ UNCHANGED <<pages, pauses, tick, listed, listings, found, shownAt, hasty>>

Tick ==
  /\ tick < LastTick
  /\ tick' = tick + 1
  /\ shownAt' = [l \in Leaves |-> IF listed[l] THEN shownAt[l] \union {tick + 1} ELSE shownAt[l]]
  /\ UNCHANGED <<pages, pauses, worker, sent, listed, listings, found, hasty>>

(* The publisher.                                                          *)
List(l) ==
  /\ listings < MaxListings
  /\ listings' = listings + 1
  /\ listed' = [listed EXCEPT ![l] = ~@]
  /\ shownAt' = IF listed[l] THEN shownAt ELSE [shownAt EXCEPT ![l] = @ \union {tick}]
  /\ UNCHANGED <<pages, pauses, worker, sent, tick, found, hasty>>

FetchNext ==
  \/ \E w \in Workers :
       \/ \E l \in Leaves : Take(w, l)
       \/ Acquire(w) \/ EnterGate(w) \/ Send(w) \/ Refused(w) \/ Unwell(w) \/ Redirected(w)
       \/ NoAnswer(w) \/ Answered(w)
  \/ NewRun \/ Tick
  \/ \E l \in Leaves : List(l)

FetchSpec == FetchInit /\ [][FetchNext]_fetchVars

----------------------------------------------------------------------------
FetchTypeOK ==
  /\ tick \in Nat
  /\ listed \in [Leaves -> BOOLEAN] /\ shownAt \in [Leaves -> SUBSET Nat]
  /\ pages \in [Addresses -> {None} \union
       [at : Nat, body : [form : {"whole", "broken"}, moved : BOOLEAN,
                          notice : BOOLEAN, rows : SUBSET Leaves]]]
  /\ found \in [Leaves -> {None} \union
       [vacancy : {"unknown", "verified_open", "explicitly_closed"},
        age : Int, openAt : Nat \union {None}]]
  /\ worker \in [Workers -> [at : {"idle", "acquire", "queued", "gated", "sent"},
                             leaf : Leaves \union {None},
                             trail : Seq(Addresses \union Elsewhere), tries : Nat]]
  /\ \A w \in Workers : worker[w].at # "idle" => worker[w].leaf \in Leaves
  /\ sent \in Nat /\ hasty \in BOOLEAN

(* A posting is said to be open as of a moment at which it was listed, and *)
(* on a page no older than the cache allows, whichever worker, run or      *)
(* neighbour in the list the page was fetched by.                          *)
OpenWhenSeen ==
  \A l \in Leaves : found[l] # None =>
    /\ found[l].openAt # None => found[l].openAt \in shownAt[l]
    /\ found[l].age <= CacheTtl

(* No request is sent to a host before the time noted for it, not even by  *)
(* a worker that queued before the time was noted or by the next run; one  *)
(* run sends no more than its budget, and no host serves more at once than *)
(* it may.                                                                 *)
HostsLeftAlone ==
  /\ ~hasty
  /\ sent <= RequestCap
  /\ \A h \in Hosts : Cardinality(InGate(h)) <= PerHost
=============================================================================
