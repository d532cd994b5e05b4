--------------------------- MODULE Canonicalization ---------------------------
(***************************************************************************)
(* From provider records to vacancies.  Every record becomes an            *)
(* observation or a failure; observations of one posting form a cluster;   *)
(* an original page that was accepted as the source of another observation *)
(* joins the two clusters.  A run canonicalizes its discovery batch and,   *)
(* once pages have been read, the batch with the pages appended.           *)
(***************************************************************************)
EXTENDS WorkspaceFiles, FiniteSets, Sequences, SequencesExt

CONSTANTS
  Offered,   \* the provider records: [source, state, title, company, url, tier, host,
             \*   paid, length, resolved]; state is "usable", "empty" or "broken"
  Originals, \* the pages a run may read: records with [parents, identity]
  AccountReports    \* the records of account states: [parents]

VARIABLE catalogue \* [release, batch, pages, passes, first, second]: a run's batch and results

Kinds == <<"content_farm", "unknown", "aggregator_unresolved", "reputable_board",
           "email_offer", "original_ats", "original_employer">>

ASSUME InputsAreFinite ==
  /\ Len(Offered) \in Nat /\ DOMAIN Offered = 1..Len(Offered)
  /\ Len(Originals) \in Nat \ {0} /\ DOMAIN Originals = 1..Len(Originals)
  /\ Len(AccountReports) \in Nat /\ DOMAIN AccountReports = 1..Len(AccountReports)
ASSUME InputsAreRecords ==
  /\ \A i \in DOMAIN Offered : Offered[i].paid \in BOOLEAN /\ Offered[i].length \in Nat
  /\ \A i \in DOMAIN Originals :
       /\ Originals[i].paid \in BOOLEAN /\ Originals[i].length \in Nat
       /\ Originals[i].kind \in {Kinds[n] : n \in 1..7}

----------------------------------------------------------------------------
(* Observations.                                                           *)

(* classify_source.                                                        *)
SourceKind(release, r) ==
  IF r.source = "mail" THEN "email_offer"
  ELSE IF r.source = "ats" THEN "original_ats"
  ELSE IF release = "v5" /\ r.source \in {"search", "adzuna"} THEN
         IF r.tier = "farm" THEN "content_farm" ELSE "aggregator_unresolved"
  ELSE IF r.tier = "farm" THEN "content_farm"
  ELSE IF r.tier = "employer" \/ r.host = "employer" THEN "original_employer"
  ELSE IF r.host = "ats" THEN "original_ats"
  ELSE IF r.host = "company" THEN "original_employer"
  ELSE IF r.source = "board" THEN "reputable_board"
  ELSE IF r.source = "adzuna" THEN "aggregator_unresolved"
  ELSE IF r.host = "board" THEN "reputable_board"
  ELSE "unknown"

SourceRank(kind) == CHOOSE n \in 1..7 : Kinds[n] = kind

(* counterparty_key: an employer's name goes before its address, and an    *)
(* unknown publisher is a party of its own for each listing.               *)
Party(company, url) == IF company = None THEN <<"listing", url>> ELSE <<"company", company>>

(* build_observations: what was resolved before replaces the address.      *)
Observation(release, i) ==
  LET r == Offered[i]
      url == IF r.resolved = None THEN r.url ELSE r.resolved
  IN [origin |-> "discovery", id |-> i, usable |-> r.state = "usable", title |-> r.title,
      party |-> Party(r.company, url), url |-> url, source |-> r.source, paid |-> r.paid,
      length |-> r.length, kind |-> SourceKind(release, r), identity |-> "unknown",
      parents |-> {}]

Page(i) ==
  LET r == Originals[i] IN
  [origin |-> "hydration", id |-> Len(Offered) + i, usable |-> TRUE, title |-> r.title,
   party |-> Party(r.company, r.url), url |-> r.url, source |-> "page", paid |-> r.paid,
   length |-> r.length, kind |-> r.kind, identity |-> r.identity, parents |-> r.parents]

Report(i) ==
  [Page(1) EXCEPT !.origin = "account_state", !.id = Len(Offered) + Len(Originals) + i,
                  !.parents = AccountReports[i].parents]

----------------------------------------------------------------------------
(* canonicalize_observations.                                              *)
Valid(all) ==
  {n \in DOMAIN all : all[n].usable /\ all[n].origin # "account_state"}

(* Without a usable address only the same content is the same posting.     *)
PostingKey(o) ==
  <<o.party, o.title, o.url, IF o.url = None THEN o.length ELSE 0>>

Better(a, b) ==
  IF a.kind # b.kind THEN SourceRank(a.kind) > SourceRank(b.kind)
  ELSE IF a.paid # b.paid THEN a.paid
  ELSE IF a.length # b.length THEN a.length > b.length
  ELSE a.id > b.id

Best(some) == CHOOSE o \in some : \A q \in some \ {o} : Better(o, q)

(* A cluster goes by the place of its first observation.                   *)
Alike(all, n) == {k \in Valid(all) : PostingKey(all[k]) = PostingKey(all[n])}
Owner(all, n) == CHOOSE k \in Alike(all, n) : \A j \in Alike(all, n) : k <= j

(* root() also shortens the path it climbs, which changes no root.         *)
Root(roots, n) ==
  LET up[k \in DOMAIN roots] == IF roots[k] = k THEN k ELSE up[roots[k]] IN up[n]

(* Fault: the clusters are joined, but not what they were joined to.       *)
UniteNeighbours(roots, l, r) ==
  IF l > r THEN [roots EXCEPT ![l] = r] ELSE [roots EXCEPT ![r] = l]

Unite(roots, a, b) ==
  LET l == Root(roots, a)  r == Root(roots, b)
  IN IF l > r THEN [roots EXCEPT ![l] = r] ELSE [roots EXCEPT ![r] = l]

Joins(o) ==
  o.origin = "hydration" /\ o.identity \in {"exact", "corroborated"} /\ o.kind # "content_farm"

(* Parents that were not observed join nothing.                            *)
Joined(all, roots, n, k) ==
  IF k \in Valid(all) /\ all[k].id \in all[n].parents
  THEN Unite(roots, Owner(all, n), Owner(all, k)) ELSE roots

Join(all, roots, n) ==
  LET upTo[k \in 0..Len(all)] ==
        IF k = 0 THEN roots ELSE Joined(all, upTo[k - 1], n, k)
  IN IF n \in Valid(all) /\ Joins(all[n]) THEN upTo[Len(all)] ELSE roots

RootsOf(all) ==
  LET upTo[n \in 0..Len(all)] ==
        IF n = 0 THEN [k \in DOMAIN all |-> k] ELSE Join(all, upTo[n - 1], n)
  IN upTo[Len(all)]

Merged(all) ==
  LET roots == RootsOf(all)
      RootOf(n) == Root(roots, Owner(all, n))
  IN {{all[k] : k \in {k \in Valid(all) : RootOf(k) = RootOf(n)}} : n \in Valid(all)}

Identity(o) == PostingKey(o)

(* The best observation names the vacancy; its text is the best one that   *)
(* is no farm copy, its pay the best one stated.                           *)
Canonical(cluster) ==
  LET selected == Best(cluster)
      texts == {o \in cluster : o.kind # "content_farm" /\ o.length > 0}
      pays == {o \in cluster : o.paid}
  IN [id |-> Identity(selected), members |-> {o.id : o \in cluster}, selected |-> selected.id,
      text |-> IF texts = {} THEN selected.id ELSE Best(texts).id,
      pay |-> IF pays = {} THEN None ELSE Best(pays).id,
      seen |-> {o.source : o \in cluster}]

(* evaluate_observations: account states join the vacancies they speak of. *)
AccountsOf(all, job) ==
  {all[n].id : n \in {n \in DOMAIN all :
     all[n].origin = "account_state" /\ all[n].parents \intersect job.members # {}}}

Vacancies(all) ==
  {[job |-> Canonical(m), accounts |-> AccountsOf(all, Canonical(m))] : m \in Merged(all)}

(* _counts: the equations a run must satisfy before anything is sent.      *)
Count(all, origin) == Cardinality({n \in DOMAIN all : all[n].origin = origin})

LedgerOf(all, raw) ==
  LET failures == Cardinality({n \in DOMAIN all : ~all[n].usable})
      normalized == Len(all) - failures - Count(all, "hydration") - Count(all, "account_state")
      members == UNION {v.job.members : v \in Vacancies(all)}
  IN /\ raw = normalized + failures
     /\ normalized + Count(all, "hydration") = Cardinality(members)
     /\ Cardinality(Vacancies(all)) <= Cardinality(members)

----------------------------------------------------------------------------
Batch(i, release) == [k \in DOMAIN i |-> Observation(release, i[k])]

CatalogueInit ==
  \E release \in {"v42", "v5"}, order \in SetToSeqs(DOMAIN Offered),
     pages \in SUBSET DOMAIN Originals :
    catalogue = [release |-> release, batch |-> Batch(order, release), pages |-> pages,
                 passes |-> 0, first |-> {}, second |-> {}]

EvaluateBatch ==
  /\ catalogue.passes = 0
  /\ catalogue' = [catalogue EXCEPT !.first = Vacancies(catalogue.batch), !.passes = 1]

(* Pages and account states are appended to a batch of the newer release.  *)
Appended ==
  catalogue.batch \o [k \in 1..Cardinality(catalogue.pages) |->
                        Page(SetToSeq(catalogue.pages)[k])]
                  \o [k \in DOMAIN AccountReports |-> Report(k)]

EvaluateAgain ==
  /\ catalogue.passes = 1 /\ catalogue.release = "v5"
  /\ catalogue' = [catalogue EXCEPT !.batch = Appended, !.second = Vacancies(Appended),
                                     !.passes = 2]

CatalogueNext == EvaluateBatch \/ EvaluateAgain

CatalogueSpec == CatalogueInit /\ [][CatalogueNext]_catalogue

----------------------------------------------------------------------------
Latest == IF catalogue.passes = 2 THEN catalogue.second ELSE catalogue.first

(* Two observations are linked by the posting's identity or by an accepted *)
(* original, and tied to each other by links, however many.                *)
Link(a, b) ==
  \/ PostingKey(a) = PostingKey(b)
  \/ Joins(a) /\ b.id \in a.parents
  \/ Joins(b) /\ a.id \in b.parents
Sighted(all) == {all[n] : n \in Valid(all)}
LinkClosed(s, all) == \A a \in s, b \in Sighted(all) : Link(a, b) => b \in s
Tied(o, all) ==
  {b \in Sighted(all) : \A s \in SUBSET Sighted(all) : o \in s /\ LinkClosed(s, all) => b \in s}

(* Whatever order the providers answer in: the observations of a vacancy   *)
(* are those tied to each other and no more, none is lost, and the         *)
(* vacancy speaks with the voice of the best of them.                      *)
VacanciesIgnoreOrder ==
  LET all == catalogue.batch
      Members(v) == {o \in ToSet(all) : o.id \in v.job.members}
  IN catalogue.passes > 0 =>
       /\ {v.job.members : v \in Latest} = {{b.id : b \in Tied(o, all)} : o \in Sighted(all)}
       /\ \A v \in Latest : \E best \in Members(v) :
            /\ best.id = v.job.selected
            /\ \A o \in Members(v) \ {best} : Better(best, o)
            /\ v.job.seen = {o.source : o \in Members(v)}
       /\ LedgerOf(all, Count(all, "discovery"))

(* Two vacancies never have one ID.  An account state follows its posting. *)
(* Reading pages changes a posting's ID only if a page was accepted as an  *)
(* original of something in its vacancy.                                   *)
IdsNameVacancies ==
  /\ catalogue.passes > 0 => \A v, w \in Latest : v.job.id = w.job.id => v = w
  /\ catalogue.passes = 2 =>
       /\ \A k \in DOMAIN AccountReports : \A v \in catalogue.second :
            AccountReports[k].parents \intersect v.job.members # {} => Report(k).id \in v.accounts
       /\ \A v \in catalogue.first, w \in catalogue.second :
            v.job.members \intersect w.job.members # {} =>
              \/ v.job.id = w.job.id
              \/ \E o \in ToSet(catalogue.batch) : o.id \in w.job.members /\ Joins(o)

\* Vacancies, and their names, depend on what was observed alone.
VacanciesAreSound == VacanciesIgnoreOrder /\ IdsNameVacancies
=============================================================================
