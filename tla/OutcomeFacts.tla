---------------------------- MODULE OutcomeFacts ----------------------------
(***************************************************************************)
(* The ledger of reviewed outcomes (v41/outcomes.py): an append-only       *)
(* journal of claims, imported in batches that are revalidated as a whole, *)
(* and the projection that says which claims of a subject still stand.     *)
(* A claim is a record; the schema rules that do not depend on the claim's *)
(* predicate alone (identities, routes, amounts) are left out.             *)
(***************************************************************************)
EXTENDS WorkspaceFiles, FiniteSets

CONSTANTS
  Claims,        \* the records an operator may import, with their ids
  BoundScopes,   \* the scopes of the bindings
  MaxJournal,    \* MAX_JOURNAL_EVENTS
  LastClock      \* bound: the last as_of of a behaviour

(* Every field of a claim is present: event is None for an undated one.    *)
ASSUME ClaimsComplete == \A e \in Claims :
  DOMAIN e = {"id", "scope", "predicate", "value", "actor", "source",
              "event", "observed", "supersedes"}
ASSUME ClaimsDated ==
  /\ IsFiniteSet(Claims)
  /\ \A e \in Claims : e.observed \in Int /\ e.event \in Int \union {None}

VARIABLES
  journal,   \* the accepted claims, one for each id
  asOf       \* the clock of the next import

outcomeVars == <<journal, asOf>>

OutcomeInit == journal = {} /\ asOf = 0

----------------------------------------------------------------------------
(* Validation.                                                             *)

(* The rules of supported_fact on authority and dates.                     *)
Supported(e) ==
  /\ e.event # None => e.event <= e.observed
  /\ e.source = "user_report" => e.actor = "user"
  /\ e.source = "community" => e.actor = "buyer" /\ e.predicate = "buyer_reply"
  /\ e.predicate = "buyer_reply" => e.actor = "buyer"

Admissible(e, now) ==
  /\ Supported(e) /\ e.scope \in BoundScopes
  /\ e.observed <= now /\ (e.event # None => e.event <= now)

(* Claims of one id that differ, in the batch or from the journal, are all *)
(* quarantined; one the journal has already is a duplicate.                *)
Candidate(batch, known) ==
  {e \in batch : /\ \A o \in batch : o.id = e.id => o = e
                 /\ \A o \in known : o.id # e.id}

(* A claim may supersede an earlier one about the same thing, and nothing  *)
(* that is observed or dated as late as itself.                            *)
MaySupersede(new, old) ==
  /\ old.id # new.id /\ old.scope = new.scope /\ old.predicate = new.predicate
  /\ new.observed > old.observed
  /\ old.event # None /\ new.event # None => new.event > old.event
  /\ new.source = "reviewed_seed" => old.source = "reviewed_seed"

Anchored(e, available) ==
  \A i \in e.supersedes : \E old \in available : old.id = i /\ MaySupersede(e, old)

(* Fault: the claims that depended on a dropped one are kept.              *)
CascadeOnce(pending, known) ==
  {e \in pending : Anchored(e, pending \union known)}

(* Claims that supersede what is not there are dropped, and then those     *)
(* that superseded these, until nothing changes.                           *)
Cascade(pending, known) ==
  LET left[n \in 0..Cardinality(pending)] ==
        IF n = 0 THEN pending
        ELSE {e \in left[n - 1] : Anchored(e, left[n - 1] \union known)}
  IN left[Cardinality(pending)]

Accepted(batch, known, now) ==
  Cascade(Candidate({e \in batch : Admissible(e, now)}, known), known)

(* A journal is imported into nothing before anything is added to it.      *)
Revalidates(events, now) == Accepted(events, {}, now) = events

----------------------------------------------------------------------------
(* The import of a batch, and the passage of time.                         *)
Import(batch) ==
  /\ Revalidates(journal, asOf)
  /\ LET after == journal \union Accepted(batch, journal, asOf)
     IN Cardinality(after) <= MaxJournal /\ journal' = after
  /\ UNCHANGED asOf

ImportBatch == \E batch \in SUBSET Claims : Import(batch)

Later ==
  /\ asOf < LastClock
  /\ asOf' = asOf + 1
  /\ UNCHANGED journal

OutcomeNext == ImportBatch \/ Later

OutcomeSpec == OutcomeInit /\ [][OutcomeNext]_outcomeVars

----------------------------------------------------------------------------
(* The projection of one scope and predicate.                              *)
FactsOf(scope, predicate) ==
  {e \in journal : e.scope = scope /\ e.predicate = predicate}

Terminal(e) == e.predicate = "application_state" /\ e.value \in {"rejected", "withdrawn"}

(* A later dated claim of the same authority replaces an earlier one,      *)
(* unless the earlier one closed the application.                          *)
Outdated(old, new) ==
  /\ old.actor = new.actor /\ old.source = new.source
  /\ old.event # None /\ new.event # None /\ new.event > old.event
  /\ ~Terminal(old)

Superseded(old, facts) ==
  \E new \in facts : old.id \in new.supersedes \/ Outdated(old, new)

Current(scope, predicate) ==
  LET facts == FactsOf(scope, predicate) IN {e \in facts : ~Superseded(e, facts)}

Conflicting(scope, predicate) ==
  Cardinality({e.value : e \in Current(scope, predicate)}) > 1

----------------------------------------------------------------------------
Predicates == {e.predicate : e \in Claims}

(* The journal stays importable: every later run revalidates it, and would *)
(* refuse all of it if one of its claims lost its anchor, its scope or its *)
(* date (outcomes.py: a supplied journal is no bypass around validation).  *)
ReimportIsStable == Revalidates(journal, asOf)

(* Two orders decide what stands, dates and explicit links; together they  *)
(* never remove every claim of a subject whose claims are all dated.       *)
(* "Reopening a closed item needs an explicit link" (README): a rejection  *)
(* or withdrawal stands until a claim that names it is in the journal.     *)
ReopeningNeedsLink ==
  \A s \in BoundScopes : \A e \in FactsOf(s, "application_state") :
    Terminal(e) /\ e \notin Current(s, "application_state") =>
      \E new \in journal :
        e.id \in new.supersedes /\ new.scope = s /\ new.observed > e.observed

\* What stands depends on the claims, not on their imports, and stays closed
\* until a claim says otherwise.
JournalIsStable == ReimportIsStable /\ ReopeningNeedsLink
=============================================================================
