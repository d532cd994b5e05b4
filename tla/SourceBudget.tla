----------------------------- MODULE SourceBudget -----------------------------
(***************************************************************************)
(* source_budget.py: the logical work (inspections of documents, searches) *)
(* and the requests that a reviewed plan allows each source route and each *)
(* category, kept in the database of the run's request budget.             *)
(***************************************************************************)
EXTENDS Integers, FiniteSets

CONSTANTS
    Runs,              \* run IDs
    Planned,           \* those with a source plan
    Sources,           \* source routes of the plan
    Keys,              \* documents and search queries
    Mode,              \* Mode[s]: "core", "pilot", or "watch" (also: not due)
    Category,          \* Category[s]
    Ceiling,           \* Ceiling[kind]: of the plan
    RouteCeiling,      \* RouteCeiling[s][kind]
    CategoryCeiling,   \* CategoryCeiling[c][kind]
    RouteRequests,     \* RouteRequests[s]
    CategoryRequests   \* CategoryRequests[c]

Kinds == {"inspection", "search"}
Categories == {Category[s] : s \in Sources}
Works == [run: Planned, source: Sources, kind: Kinds, key: Keys]
WorkStates == {"none", "reserved", "inspected", "inspected_cache",
               "sent_unknown", "cancelled"}

ASSUME SourceAssumption ==
    /\ IsFiniteSet(Runs) /\ Planned \subseteq Runs
    /\ IsFiniteSet(Sources)
    /\ IsFiniteSet(Keys)
    /\ Mode \in [Sources -> {"core", "pilot", "watch"}]
    /\ Ceiling \in [Kinds -> Nat]
    /\ RouteCeiling \in [Sources -> [Kinds -> Nat]]
    /\ CategoryCeiling \in [Categories -> [Kinds -> Nat]]
    /\ RouteRequests \in [Sources -> Nat]
    /\ CategoryRequests \in [Categories -> Nat]

VARIABLES
    work,      \* source_work.state, "none" where there is no row
    holders,   \* source_work.holders
    sent       \* source_attempts: <<attempt, work>>

sourceVars == <<work, holders, sent>>

SourceInit ==
    /\ work = [k \in Works |-> "none"]
    /\ holders = [k \in Works |-> 0]
    /\ sent = {}

-----------------------------------------------------------------------------
Live(k) == work[k] \notin {"none", "cancelled"}

\* The live work of a run, of one kind.
OfKind(r, kind) == {k \in Works : k.run = r /\ k.kind = kind /\ Live(k)}
OfPilots(r, kind) == {k \in OfKind(r, kind) : Mode[k.source] = "pilot"}
OfSource(r, s, kind) == {k \in OfKind(r, kind) : k.source = s}
OfCategory(r, c, kind) == {k \in OfKind(r, kind) : Category[k.source] = c}

\* reserve_work: the four ceilings.
Admits(r, s, kind) ==
    /\ Cardinality(OfKind(r, kind)) < Ceiling[kind]
    /\ Mode[s] = "pilot" => Cardinality(OfPilots(r, kind)) < Ceiling[kind] \div 5
    /\ Cardinality(OfSource(r, s, kind)) < RouteCeiling[s][kind]
    /\ Cardinality(OfCategory(r, Category[s], kind)) < CategoryCeiling[Category[s]][kind]

\* reserve_work: one more holder of what is live, or a new reservation.
ReserveWork(k) ==
    /\ Mode[k.source] # "watch"
    /\ Live(k) \/ Admits(k.run, k.source, k.kind)
    /\ work' = [work EXCEPT ![k] = IF Live(k) THEN @
                                   ELSE IF k.kind = "inspection" THEN "reserved"
                                   ELSE "inspected"]
    /\ holders' = [holders EXCEPT ![k] = IF k.kind = "search" THEN 0
                                         ELSE IF Live(k) THEN @ + 1 ELSE 1]
    /\ UNCHANGED sent

\* Fault: the first holder to leave refunds the reservation.
LeaveFirst(k) ==
    /\ holders' = [holders EXCEPT ![k] = IF @ > 0 THEN @ - 1 ELSE 0]
    /\ work' = [work EXCEPT ![k] = IF @ = "reserved" THEN "cancelled" ELSE @]
    /\ UNCHANGED sent

\* inspection, on leaving: the last holder refunds what was never used.
Leave(k) ==
    /\ holders' = [holders EXCEPT ![k] = IF @ > 0 THEN @ - 1 ELSE 0]
    /\ work' = [work EXCEPT ![k] = IF @ = "reserved" /\ holders'[k] = 0
                                   THEN "cancelled" ELSE @]
    /\ UNCHANGED sent

\* cached_inspection: the document was read from a cache, at no request.
CachedInspection(k) ==
    /\ work' = [work EXCEPT ![k] = IF @ = "reserved" THEN "inspected_cache" ELSE @]
    /\ UNCHANGED <<holders, sent>>

SentBy(r, s) == {b \in sent : b[2].run = r /\ b[2].source = s}
SentIn(r, c) == {b \in sent : b[2].run = r /\ Category[b[2].source] = c}

\* Fault: a request may come after the last holder has left.
CheckRequestsOnly(k) ==
    /\ Mode[k.source] # "watch"
    /\ Cardinality(SentBy(k.run, k.source)) < RouteRequests[k.source]
    /\ Cardinality(SentIn(k.run, Category[k.source])) < CategoryRequests[Category[k.source]]

\* check_http: what a request under the inspection k needs.
CheckHttp(k) ==
    /\ Mode[k.source] # "watch"
    /\ Live(k)
    /\ Cardinality(SentBy(k.run, k.source)) < RouteRequests[k.source]
    /\ Cardinality(SentIn(k.run, Category[k.source])) < CategoryRequests[Category[k.source]]

\* sent: the attempt is booked on the work, which can be refunded no more.
BookSent(k, attempt) ==
    /\ sent' = sent \cup {<<attempt, k>>}
    /\ work' = [work EXCEPT ![k] = "sent_unknown"]
    /\ UNCHANGED holders
=============================================================================
