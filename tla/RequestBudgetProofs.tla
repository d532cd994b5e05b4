-------------------------- MODULE RequestBudgetProofs -------------------------
(***************************************************************************)
(* Proofs about RequestBudget for any runs, tasks, hosts, plans and bounds.*)
(*                                                                         *)
(* The gates and the holders of a document are counters that many tasks    *)
(* move: each is tied to the set of tasks it stands for, so that it stays  *)
(* in its range and a refund is the last holder's.  The ceilings are about *)
(* sets of documents, of which a step adds one at most.                    *)
(***************************************************************************)
EXTENDS RequestBudget, FiniteSetTheorems, TLAPS

-----------------------------------------------------------------------------
(* The inductive invariant.                                                *)

\* The tasks in the gate of run r, and in its gate g[2] for a host.
InGate(r) == {t \in Tasks : owner[t] = r /\ HoldsGate(t)}
AtHost(g) == {t \in Tasks : owner[t] = g[1] /\ target[t].host = g[2] /\ HoldsHost(t)}

GatesCounted ==
    /\ \A r \in Runs : gate[r] = Concurrency - Cardinality(InGate(r))
    /\ \A g \in Runs \X Hosts : hostGate[g] = 1 - Cardinality(AtHost(g))

\* The tasks that are in document k on their own account.
Within(k) == {t \in Tasks : holds[t] /\ scope[t] = k}

\* A document has at least the holders that are in it; more after a crash.
HoldersCounted ==
    /\ \A k \in Works : Cardinality(Within(k)) <= holders[k]
    /\ \A t \in Tasks :
         holds[t] => /\ pc[t] # "out"
                     /\ scope[t] \in Works /\ scope[t].kind = "inspection"

\* What is booked on a run is a number.
UsedCounted == used \in [Runs -> Nat]

\* The cooldowns are what the hosts asked for.
PausesNoted == cooldowns = asked

BudgetInv ==
    /\ BudgetTypeOK
    /\ UsedCounted
    /\ GatesCounted
    /\ PausesNoted
    /\ HoldersCounted
    /\ WithinCeilings
    /\ OnlyUnsentRefunded

-----------------------------------------------------------------------------
(* The plan: documents, their holders and what was sent for them.          *)

\* There are finitely many documents.
LEMMA WorksFinite == IsFiniteSet(Works)
<1> DEFINE S == ((Planned \X Sources) \X Kinds) \X Keys
           f == [x \in S |-> [run |-> x[1][1][1], source |-> x[1][1][2],
                              kind |-> x[1][2], key |-> x[2]]]
<1>1. IsFiniteSet(S)
  <2>1. IsFiniteSet(Planned) /\ IsFiniteSet(Sources) /\ IsFiniteSet(Keys)
    BY SourceAssumption, FS_Subset
  <2>2. IsFiniteSet(Kinds)
    <3>1. Kinds = {"inspection"} \cup {"search"}
      BY DEF Kinds
    <3> QED
      BY <3>1, FS_Singleton, FS_Union
  <2>3. IsFiniteSet(Planned \X Sources)
    BY <2>1, FS_Product
  <2>4. IsFiniteSet((Planned \X Sources) \X Kinds)
    BY <2>2, <2>3, FS_Product
  <2> QED
    BY <2>1, <2>4, FS_Product
<1>2. f \in Surjection(S, Works)
  <2>1. f \in [S -> Works]
    BY DEF Works
  <2>2. ASSUME NEW k \in Works PROVE \E x \in S : f[x] = k
    <3> DEFINE x == <<<<<<k.run, k.source>>, k.kind>>, k.key>>
    <3>1. x \in S
      BY DEF Works
    <3>2. f[x] = [run |-> k.run, source |-> k.source, kind |-> k.kind, key |-> k.key]
      BY <3>1
    <3>3. f[x] = k
      BY <3>2 DEF Works
    <3> QED
      BY <3>1, <3>3
  <2> QED
    BY <2>1, <2>2 DEF Surjection
<1> HIDE DEF S, f
<1> QED
  BY <1>1, <1>2, FS_Surjection

\* A set that gains at most one element, and only below its bound.
LEMMA Grows ==
    ASSUME NEW S \in SUBSET Works, NEW T \in SUBSET Works, NEW n \in Nat, NEW j,
           Cardinality(S) <= n, T \subseteq S \cup {j}, j \in T \ S => Cardinality(S) < n
    PROVE  Cardinality(T) <= n
<1>1. IsFiniteSet(S) /\ Cardinality(S) \in Nat
  BY WorksFinite, FS_Subset, FS_CardinalityType
<1>2. CASE j \in T \ S
  <2>1. /\ IsFiniteSet(S \cup {j})
        /\ Cardinality(S \cup {j}) = IF j \in S THEN Cardinality(S) ELSE Cardinality(S) + 1
    BY <1>1, FS_AddElement
  <2>2. IsFiniteSet(T) /\ Cardinality(T) <= Cardinality(S \cup {j})
    BY <2>1, FS_Subset
  <2>3. Cardinality(T) \in Nat
    BY <2>2, FS_CardinalityType
  <2> QED
    BY <1>1, <1>2, <2>1, <2>2, <2>3
<1>3. CASE j \notin T \ S
  <2>1. T \in SUBSET S
    BY <1>3
  <2>2. IsFiniteSet(T) /\ Cardinality(T) <= Cardinality(S)
    BY <1>1, <2>1, FS_Subset
  <2>3. Cardinality(T) \in Nat
    BY <2>2, FS_CardinalityType
  <2> QED
    BY <1>1, <2>2, <2>3
<1> QED
  BY <1>2, <1>3

\* One document more, if the plan admits it, keeps the ceilings.
LEMMA CeilingsKeep ==
    ASSUME WithinCeilings, NEW j,
           \A k \in Works : Live(k)' => \/ Live(k)
                                        \/ k = j /\ Admits(k.run, k.source, k.kind)
    PROVE  WithinCeilings'
<1> SUFFICES ASSUME NEW r \in Runs, NEW kind \in Kinds
             PROVE  /\ Cardinality(OfKind(r, kind)') <= Ceiling[kind]
                    /\ Cardinality(OfPilots(r, kind)') <= Ceiling[kind] \div 5
                    /\ \A s \in Sources :
                         /\ Cardinality(OfSource(r, s, kind)') <= RouteCeiling[s][kind]
                         /\ Cardinality(OfCategory(r, Category[s], kind)')
                              <= CategoryCeiling[Category[s]][kind]
  BY DEF WithinCeilings, OfKind, OfPilots, OfSource, OfCategory, Live
<1>1. /\ Cardinality(OfKind(r, kind)) <= Ceiling[kind]
      /\ Cardinality(OfPilots(r, kind)) <= Ceiling[kind] \div 5
      /\ \A s \in Sources :
           /\ Cardinality(OfSource(r, s, kind)) <= RouteCeiling[s][kind]
           /\ Cardinality(OfCategory(r, Category[s], kind))
                <= CategoryCeiling[Category[s]][kind]
  BY DEF WithinCeilings
<1>2. Ceiling[kind] \in Nat /\ Ceiling[kind] \div 5 \in Nat
  BY SourceAssumption
<1>3. Cardinality(OfKind(r, kind)') <= Ceiling[kind]
  <2>1. OfKind(r, kind) \in SUBSET Works /\ OfKind(r, kind)' \in SUBSET Works
    BY DEF OfKind
  <2>2. OfKind(r, kind)' \subseteq OfKind(r, kind) \cup {j}
    BY DEF OfKind
  <2>3. j \in OfKind(r, kind)' \ OfKind(r, kind) =>
          Cardinality(OfKind(r, kind)) < Ceiling[kind]
    BY DEF OfKind, Admits
  <2> QED
    BY <1>1, <1>2, <2>1, <2>2, <2>3, Grows
<1>4. Cardinality(OfPilots(r, kind)') <= Ceiling[kind] \div 5
  <2>1. OfPilots(r, kind) \in SUBSET Works /\ OfPilots(r, kind)' \in SUBSET Works
    BY DEF OfKind, OfPilots
  <2>2. OfPilots(r, kind)' \subseteq OfPilots(r, kind) \cup {j}
    BY DEF OfKind, OfPilots
  <2>3. j \in OfPilots(r, kind)' \ OfPilots(r, kind) =>
          Cardinality(OfPilots(r, kind)) < Ceiling[kind] \div 5
    BY DEF OfKind, OfPilots, Admits
  <2> DEFINE n == Ceiling[kind] \div 5
  <2>4. n \in Nat /\ Cardinality(OfPilots(r, kind)) <= n
    BY <1>1, <1>2
  <2> HIDE DEF n
  <2>5. j \in OfPilots(r, kind)' \ OfPilots(r, kind) => Cardinality(OfPilots(r, kind)) < n
    BY <2>3 DEF n
  <2>6. Cardinality(OfPilots(r, kind)') <= n
    BY <2>1, <2>2, <2>4, <2>5, Grows
  <2> QED
    BY <2>6 DEF n
<1>5. ASSUME NEW s \in Sources
      PROVE  /\ Cardinality(OfSource(r, s, kind)') <= RouteCeiling[s][kind]
             /\ Cardinality(OfCategory(r, Category[s], kind)')
                  <= CategoryCeiling[Category[s]][kind]
  <2>1. RouteCeiling[s][kind] \in Nat /\ CategoryCeiling[Category[s]][kind] \in Nat
    BY SourceAssumption DEF Categories
  <2> DEFINE S == OfSource(r, s, kind)
             C == OfCategory(r, Category[s], kind)
  <2>2. /\ S \in SUBSET Works /\ S' \in SUBSET Works
        /\ C \in SUBSET Works /\ C' \in SUBSET Works
    BY DEF OfKind, OfSource, OfCategory
  <2>3. S' \subseteq S \cup {j} /\ C' \subseteq C \cup {j}
    BY DEF OfKind, OfSource, OfCategory
  <2>4. /\ j \in S' \ S => Cardinality(S) < RouteCeiling[s][kind]
        /\ j \in C' \ C => Cardinality(C) < CategoryCeiling[Category[s]][kind]
    BY DEF OfKind, OfSource, OfCategory, Admits
  <2>5. /\ Cardinality(S) <= RouteCeiling[s][kind]
        /\ Cardinality(C) <= CategoryCeiling[Category[s]][kind]
    BY <1>1
  <2>6. Cardinality(S') <= RouteCeiling[s][kind]
    <3> HIDE DEF S, C
    <3> QED
      BY <2>1, <2>2, <2>3, <2>4, <2>5, Grows
  <2>7. Cardinality(C') <= CategoryCeiling[Category[s]][kind]
    <3> HIDE DEF S, C
    <3> QED
      BY <2>1, <2>2, <2>3, <2>4, <2>5, Grows
  <2> QED
    BY <2>6, <2>7
<1> QED
  BY <1>3, <1>4, <1>5

\* What the plan's tables and the tasks' inspections promise.
PlanInv ==
    /\ work \in [Works -> WorkStates]
    /\ holders \in [Works -> Nat]
    /\ sent \subseteq (Nat \X Works)
    /\ scope \in [Tasks -> Works \cup {None}]
    /\ holds \in [Tasks -> BOOLEAN]
    /\ HoldersCounted
    /\ WithinCeilings
    /\ OnlyUnsentRefunded

\* A finite set of tasks, and with one more or one less of them.
LEMMA TaskSets ==
    ASSUME NEW S \in SUBSET Tasks
    PROVE  /\ IsFiniteSet(S) /\ Cardinality(S) \in Nat
           /\ Cardinality(S) = 0 <=> S = {}
           /\ \A T \in SUBSET S : Cardinality(T) <= Cardinality(S)
           /\ \A t \in Tasks \ S : Cardinality(S \cup {t}) = Cardinality(S) + 1
           /\ \A t \in S : Cardinality(S \ {t}) = Cardinality(S) - 1
<1>1. IsFiniteSet(S)
  BY BudgetAssumption, FS_Subset
<1> QED
  BY <1>1, FS_CardinalityType, FS_EmptySet, FS_Subset, FS_AddElement, FS_RemoveElement

\* The tasks change nothing of the plan, and leave no document.
LEMMA PlanRests ==
    ASSUME PlanInv, UNCHANGED sourceVars, holds' \in [Tasks -> BOOLEAN],
           scope' \in [Tasks -> Works \cup {None}],
           \A t \in Tasks : holds'[t] => /\ holds[t] /\ scope'[t] = scope[t]
                                         /\ pc'[t] # "out"
    PROVE  PlanInv'
<1>1. work' = work /\ holders' = holders /\ sent' = sent
  BY DEF sourceVars
<1>2. ASSUME NEW k \in Works PROVE Cardinality(Within(k)') <= holders'[k]
  <2>1. Within(k) \in SUBSET Tasks /\ Within(k)' \in SUBSET Within(k)
    BY DEF Within
  <2>2. /\ Cardinality(Within(k)') <= Cardinality(Within(k))
        /\ Cardinality(Within(k)') \in Nat /\ Cardinality(Within(k)) \in Nat
    BY <2>1, TaskSets
  <2>3. Cardinality(Within(k)) <= holders[k] /\ holders[k] \in Nat
    BY DEF PlanInv, HoldersCounted
  <2> QED
    BY <1>1, <2>2, <2>3
<1>3. HoldersCounted'
  BY <1>2 DEF HoldersCounted, PlanInv
<1>4. \A k \in Works : Live(k)' <=> Live(k)
  BY <1>1 DEF Live
<1>5. WithinCeilings'
  BY <1>4, CeilingsKeep DEF PlanInv
<1>6. OnlyUnsentRefunded'
  BY <1>1, <1>4 DEF OnlyUnsentRefunded, PlanInv, HoldersCounted
<1> QED
  BY <1>1, <1>3, <1>5, <1>6 DEF PlanInv

\* No task enters or leaves a document; the one at k goes from a state that
\* counts to another, or a search is booked.
LEMMA PlanBooks ==
    ASSUME PlanInv, NEW k \in Works, NEW st \in WorkStates,
           work' = [work EXCEPT ![k] = st],
           \A j \in Works \ {k} : holders'[j] = holders[j],
           holders' \in [Works -> Nat],
           sent' \subseteq (Nat \X Works),
           \A b \in sent' : b \in sent \/ b[2] = k,
           k.kind = "inspection" => holders'[k] >= holders[k],
           st \notin {"none", "cancelled"},
           Live(k) \/ Admits(k.run, k.source, k.kind),
           (\E b \in sent' : b[2] = k) => st = "sent_unknown",
           UNCHANGED <<scope, holds>>,
           \A t \in Tasks : holds[t] => pc'[t] # "out"
    PROVE  PlanInv'
<1>t. /\ work \in [Works -> WorkStates] /\ holders \in [Works -> Nat]
      /\ HoldersCounted /\ WithinCeilings /\ OnlyUnsentRefunded
  BY DEF PlanInv
<1>1. \A j \in Works : work'[j] = IF j = k THEN st ELSE work[j]
  BY <1>t
<1>2. /\ Live(k)'
      /\ \A j \in Works \ {k} : Live(j)' <=> Live(j)
  BY <1>1 DEF Live
<1>3. WithinCeilings'
  BY <1>t, <1>2, CeilingsKeep
<1>4. \A j \in Works : Within(j)' = Within(j)
  BY DEF Within
<1>5. ASSUME NEW j \in Works PROVE Cardinality(Within(j)') <= holders'[j]
  <2>1. /\ Cardinality(Within(j)) <= holders[j] /\ holders[j] \in Nat
        /\ holders'[j] \in Nat
    BY <1>t DEF HoldersCounted
  <2>2. Within(j) \in SUBSET Tasks /\ Cardinality(Within(j)) \in Nat
    <3>1. Within(j) \in SUBSET Tasks
      BY DEF Within
    <3> QED
      BY <3>1, TaskSets
  <2>3. CASE j = k /\ k.kind # "inspection"
    <3>1. Within(j) = {}
      BY <1>t, <2>3 DEF Within, HoldersCounted
    <3>2. Cardinality(Within(j)) = 0
      BY <2>2, <3>1, TaskSets
    <3> QED
      BY <1>4, <2>1, <3>2
  <2>4. CASE j = k /\ k.kind = "inspection"
    BY <1>4, <2>1, <2>2, <2>4
  <2>5. CASE j # k
    BY <1>4, <2>1, <2>5
  <2> QED
    BY <2>3, <2>4, <2>5
<1>6. HoldersCounted'
  BY <1>t, <1>5 DEF HoldersCounted
<1>7. OnlyUnsentRefunded'
  <2>1. \A b \in sent' : work'[b[2]] = "sent_unknown"
    <3> TAKE b \in sent'
    <3>1. b[2] \in Works
      OBVIOUS
    <3>2. b[2] # k => b \in sent
      OBVIOUS
    <3> QED
      BY <1>t, <1>1, <3>1, <3>2 DEF OnlyUnsentRefunded
  <2>2. \A t \in Tasks : holds'[t] => Live(scope[t])'
    BY <1>t, <1>2 DEF OnlyUnsentRefunded, HoldersCounted
  <2> QED
    BY <2>1, <2>2 DEF OnlyUnsentRefunded, Live
<1>8. work' \in [Works -> WorkStates]
  BY <1>t
<1> QED
  BY <1>3, <1>6, <1>7, <1>8 DEF PlanInv

\* A task that enters a document is one more of its holders.
LEMMA EnterPlan ==
    ASSUME PlanInv, NEW t \in Tasks, NEW k \in Works, EnterInspection(t, k),
           pc \in [Tasks -> Stages]
    PROVE  PlanInv'
<1>t. /\ work \in [Works -> WorkStates] /\ holders \in [Works -> Nat]
      /\ scope \in [Tasks -> Works \cup {None}] /\ holds \in [Tasks -> BOOLEAN]
      /\ HoldersCounted /\ WithinCeilings /\ OnlyUnsentRefunded
  BY DEF PlanInv
<1> DEFINE st == IF Live(k) THEN work[k] ELSE "reserved"
           n == IF Live(k) THEN holders[k] + 1 ELSE 1
<1>1. /\ pc[t] = "out" /\ k.kind = "inspection" /\ sent' = sent
      /\ Live(k) \/ Admits(k.run, k.source, k.kind)
      /\ work' = [work EXCEPT ![k] = st] /\ holders' = [holders EXCEPT ![k] = n]
      /\ pc' = [pc EXCEPT ![t] = "ready"]
      /\ scope' = [scope EXCEPT ![t] = k] /\ holds' = [holds EXCEPT ![t] = TRUE]
  <2>1. k.kind = "inspection" /\ ReserveWork(k)
    BY DEF EnterInspection
  <2>2. /\ work' = [work EXCEPT ![k] = st] /\ holders' = [holders EXCEPT ![k] = n]
        /\ sent' = sent /\ (Live(k) \/ Admits(k.run, k.source, k.kind))
    BY <2>1 DEF ReserveWork
  <2> HIDE DEF st, n
  <2> QED
    BY <2>2 DEF EnterInspection
<1>2. /\ st \in WorkStates /\ st \notin {"none", "cancelled"}
      /\ Live(k) => st = work[k] /\ n = holders[k] + 1
      /\ ~Live(k) => n = 1
      /\ n \in Nat
  BY <1>t DEF WorkStates, Live
<1> HIDE DEF st, n
<1>3. /\ \A j \in Works : /\ work'[j] = IF j = k THEN st ELSE work[j]
                          /\ holders'[j] = IF j = k THEN n ELSE holders[j]
      /\ work' \in [Works -> WorkStates] /\ holders' \in [Works -> Nat]
      /\ scope' \in [Tasks -> Works \cup {None}] /\ holds' \in [Tasks -> BOOLEAN]
  BY <1>t, <1>1, <1>2
<1>4. /\ Live(k)'
      /\ \A j \in Works \ {k} : Live(j)' <=> Live(j)
  BY <1>2, <1>3 DEF Live
<1>5. WithinCeilings'
  BY <1>t, <1>1, <1>4, CeilingsKeep
<1>6. ~holds[t]
  BY <1>t, <1>1 DEF HoldersCounted
<1>7. /\ Within(k)' = Within(k) \cup {t}
      /\ \A j \in Works \ {k} : Within(j)' = Within(j)
  BY <1>t, <1>1, <1>6 DEF Within
<1>8. ASSUME NEW j \in Works PROVE Cardinality(Within(j)') <= holders'[j]
  <2>1. Cardinality(Within(j)) <= holders[j] /\ holders[j] \in Nat
    BY <1>t DEF HoldersCounted
  <2>2. CASE j # k
    BY <1>3, <1>7, <2>1, <2>2
  <2>3. CASE j = k
    <3>1. Within(k) \in SUBSET Tasks /\ t \in Tasks \ Within(k)
      BY <1>6 DEF Within
    <3>2. /\ Cardinality(Within(k)') = Cardinality(Within(k)) + 1
          /\ Cardinality(Within(k)) \in Nat
          /\ Within(k) = {} => Cardinality(Within(k)) = 0
      BY <1>7, <3>1, TaskSets
    <3>3. ~Live(k) => Within(k) = {}
      BY <1>t DEF Within, OnlyUnsentRefunded
    <3> QED
      BY <1>2, <1>3, <2>1, <2>3, <3>2, <3>3
  <2> QED
    BY <2>2, <2>3
<1>9. HoldersCounted'
  BY <1>t, <1>1, <1>8 DEF HoldersCounted
<1>10. OnlyUnsentRefunded'
  <2>1. \A b \in sent' : work'[b[2]] = "sent_unknown"
    <3> TAKE b \in sent'
    <3>1. b[2] \in Works /\ work[b[2]] = "sent_unknown"
      BY <1>t, <1>1 DEF OnlyUnsentRefunded, PlanInv
    <3>2. b[2] = k => Live(k)
      BY <3>1 DEF Live
    <3> QED
      BY <1>2, <1>3, <3>1, <3>2
  <2>2. \A u \in Tasks : holds'[u] => work'[scope'[u]] \notin {"none", "cancelled"}
    <3> SUFFICES ASSUME NEW u \in Tasks, holds'[u]
                 PROVE  work'[scope'[u]] \notin {"none", "cancelled"}
      OBVIOUS
    <3>1. CASE u = t
      BY <1>t, <1>1, <1>2, <1>3, <3>1
    <3>2. CASE u # t
      <4>1. holds[u] /\ scope'[u] = scope[u] /\ scope[u] \in Works /\ Live(scope[u])
        BY <1>t, <1>1, <3>2 DEF HoldersCounted, OnlyUnsentRefunded
      <4> QED
        BY <1>2, <1>3, <4>1 DEF Live
    <3> QED
      BY <3>1, <3>2
  <2> QED
    BY <2>1, <2>2 DEF OnlyUnsentRefunded, Live
<1> QED
  BY <1>1, <1>3, <1>5, <1>9, <1>10 DEF PlanInv

\* A task that leaves is one holder less; the last one alone refunds.
LEMMA LeavePlan ==
    ASSUME PlanInv, NEW t \in Tasks, LeaveInspection(t), pc \in [Tasks -> Stages]
    PROVE  PlanInv'
<1>t. /\ work \in [Works -> WorkStates] /\ holders \in [Works -> Nat]
      /\ scope \in [Tasks -> Works \cup {None}] /\ holds \in [Tasks -> BOOLEAN]
      /\ HoldersCounted /\ WithinCeilings /\ OnlyUnsentRefunded
  BY DEF PlanInv
<1>k. holds[t] /\ scope[t] \in Works
  BY <1>t DEF LeaveInspection, HoldersCounted
<1> PICK k \in Works : k = scope[t]
  BY <1>k
<1> DEFINE n == IF holders[k] > 0 THEN holders[k] - 1 ELSE 0
           st == IF work[k] = "reserved" /\ n = 0 THEN "cancelled" ELSE work[k]
<1>1. /\ holds[t] /\ k \in Works /\ sent' = sent
      /\ holders' = [holders EXCEPT ![k] = n] /\ work' = [work EXCEPT ![k] = st]
      /\ pc' = [pc EXCEPT ![t] = "out"]
      /\ scope' = [scope EXCEPT ![t] = None] /\ holds' = [holds EXCEPT ![t] = FALSE]
  <2>1. holds[t] /\ k \in Works
    BY <1>k
  <2>2. Leave(k)
    BY DEF LeaveInspection
  <2>3. holders' = [holders EXCEPT ![k] = n] /\ sent' = sent
    BY <2>2 DEF Leave
  <2>4. holders'[k] = n
    BY <1>t, <2>1, <2>3
  <2>5. work' = [work EXCEPT ![k] = IF work[k] = "reserved" /\ holders'[k] = 0
                                   THEN "cancelled" ELSE work[k]]
    BY <2>2 DEF Leave
  <2>6. work' = [work EXCEPT ![k] = st]
    BY <2>4, <2>5
  <2> HIDE DEF n, st
  <2> QED
    BY <2>1, <2>3, <2>6 DEF LeaveInspection
<1>2. /\ st \in WorkStates /\ n \in Nat
      /\ work[k] = "sent_unknown" => st = work[k]
      /\ st = work[k] \/ (st = "cancelled" /\ n = 0)
      /\ holders[k] > 0 => n = holders[k] - 1
  BY <1>t, <1>1 DEF WorkStates
<1> HIDE DEF n, st
<1>3. /\ \A j \in Works : /\ work'[j] = IF j = k THEN st ELSE work[j]
                          /\ holders'[j] = IF j = k THEN n ELSE holders[j]
      /\ work' \in [Works -> WorkStates] /\ holders' \in [Works -> Nat]
      /\ scope' \in [Tasks -> Works \cup {None}] /\ holds' \in [Tasks -> BOOLEAN]
  BY <1>t, <1>1, <1>2
<1>4. \A j \in Works : Live(j)' => Live(j)
  BY <1>2, <1>3 DEF Live
<1>5. WithinCeilings'
  BY <1>t, <1>4, CeilingsKeep
<1>6. /\ t \in Within(k) /\ Within(k)' = Within(k) \ {t}
      /\ \A j \in Works \ {k} : Within(j)' = Within(j)
  BY <1>t, <1>1 DEF Within
<1>7. /\ Cardinality(Within(k)') = Cardinality(Within(k)) - 1
      /\ Cardinality(Within(k)) \in Nat
      /\ Cardinality(Within(k)') \in Nat
      /\ Cardinality(Within(k)') = 0 => Within(k)' = {}
  <2>1. Within(k) \in SUBSET Tasks /\ Within(k)' \in SUBSET Tasks
    BY <1>6 DEF Within
  <2> QED
    BY <1>6, <2>1, TaskSets
<1>8. Cardinality(Within(k)) <= holders[k] /\ holders[k] \in Nat
  BY <1>t, <1>1 DEF HoldersCounted
<1>9. n = holders[k] - 1 /\ Cardinality(Within(k)') <= n
  BY <1>2, <1>7, <1>8
<1>10. \A j \in Works : Cardinality(Within(j)') <= holders'[j]
  BY <1>t, <1>3, <1>6, <1>9 DEF HoldersCounted
<1>11. HoldersCounted'
  BY <1>t, <1>1, <1>10 DEF HoldersCounted
<1>12. n = 0 => Within(k)' = {}
  BY <1>7, <1>9
<1>13. OnlyUnsentRefunded'
  <2>1. \A b \in sent' : work'[b[2]] = "sent_unknown"
    <3> TAKE b \in sent'
    <3>1. b[2] \in Works /\ work[b[2]] = "sent_unknown"
      BY <1>t, <1>1 DEF OnlyUnsentRefunded, PlanInv
    <3> QED
      BY <1>2, <1>3, <3>1
  <2>2. \A u \in Tasks : holds'[u] => work'[scope'[u]] \notin {"none", "cancelled"}
    <3> SUFFICES ASSUME NEW u \in Tasks, holds'[u]
                 PROVE  work'[scope'[u]] \notin {"none", "cancelled"}
      OBVIOUS
    <3>1. /\ u # t /\ holds[u] /\ scope'[u] = scope[u]
          /\ scope[u] \in Works /\ Live(scope[u])
      BY <1>t, <1>1 DEF HoldersCounted, OnlyUnsentRefunded
    <3>2. CASE scope[u] = k
      <4>1. u \in Within(k)'
        BY <3>1, <3>2 DEF Within
      <4> QED
        BY <1>2, <1>3, <1>12, <3>1, <3>2, <4>1 DEF Live
    <3>3. CASE scope[u] # k
      BY <1>3, <3>1, <3>3 DEF Live
    <3> QED
      BY <3>2, <3>3
  <2> QED
    BY <2>1, <2>2 DEF OnlyUnsentRefunded, Live
<1> QED
  BY <1>1, <1>3, <1>5, <1>11, <1>13 DEF PlanInv

\* A search is booked as done; it has no holders.
LEMMA SearchPlan ==
    ASSUME PlanInv, NEW t \in Tasks, NEW k \in Works, Search(t, k), pc \in [Tasks -> Stages]
    PROVE  PlanInv'
<1>t. /\ work \in [Works -> WorkStates] /\ holders \in [Works -> Nat] /\ HoldersCounted
      /\ sent \subseteq (Nat \X Works) /\ OnlyUnsentRefunded
  BY DEF PlanInv
<1> DEFINE st == IF Live(k) THEN work[k] ELSE "inspected"
<1>1. /\ k.kind = "search" /\ sent' = sent
      /\ Live(k) \/ Admits(k.run, k.source, k.kind)
      /\ work' = [work EXCEPT ![k] = st] /\ holders' = [holders EXCEPT ![k] = 0]
      /\ pc' = [pc EXCEPT ![t] = "ready"]
      /\ UNCHANGED <<scope, holds>>
  <2>1. k.kind = "search" /\ ReserveWork(k)
    BY DEF Search
  <2>2. /\ work' = [work EXCEPT ![k] = st] /\ holders' = [holders EXCEPT ![k] = 0]
        /\ sent' = sent /\ (Live(k) \/ Admits(k.run, k.source, k.kind))
    BY <2>1 DEF ReserveWork
  <2> HIDE DEF st
  <2> QED
    BY <2>2 DEF Search
<1>2. /\ st \in WorkStates /\ st \notin {"none", "cancelled"}
      /\ work[k] = "sent_unknown" => st = "sent_unknown"
  BY <1>t DEF WorkStates, Live
<1> HIDE DEF st
<1>3. /\ \A j \in Works \ {k} : holders'[j] = holders[j]
      /\ holders' \in [Works -> Nat]
  BY <1>t, <1>1
<1>4. (\E b \in sent' : b[2] = k) => st = "sent_unknown"
  BY <1>t, <1>1, <1>2 DEF OnlyUnsentRefunded
<1>5. \A u \in Tasks : holds[u] => pc'[u] # "out"
  BY <1>t, <1>1 DEF HoldersCounted
<1> QED
  BY <1>t, <1>1, <1>2, <1>3, <1>4, <1>5, PlanBooks

\* A document read from the cache counts as inspected.
LEMMA CachePlan ==
    ASSUME PlanInv, NEW t \in Tasks, ReadCache(t), pc \in [Tasks -> Stages]
    PROVE  PlanInv'
<1>t. /\ work \in [Works -> WorkStates] /\ holders \in [Works -> Nat] /\ HoldersCounted
      /\ sent \subseteq (Nat \X Works) /\ OnlyUnsentRefunded
      /\ scope \in [Tasks -> Works \cup {None}] /\ holds \in [Tasks -> BOOLEAN]
  BY DEF PlanInv
<1>1. /\ CachedInspection(scope[t]) /\ pc' = [pc EXCEPT ![t] = "done"]
      /\ UNCHANGED <<scope, holds>>
  BY DEF ReadCache
<1> PICK k \in Works : k = scope[t]
  BY <1>t DEF ReadCache
<1>2. \A u \in Tasks : holds[u] => pc'[u] # "out"
  BY <1>t, <1>1 DEF HoldersCounted
<1>3. CASE work[k] = "reserved"
  <2>1. /\ work' = [work EXCEPT ![k] = "inspected_cache"]
        /\ holders' = holders /\ sent' = sent
    BY <1>1, <1>3 DEF CachedInspection
  <2>2. "inspected_cache" \in WorkStates /\ Live(k)
    BY <1>3 DEF WorkStates, Live
  <2>3. ~ \E b \in sent' : b[2] = k
    BY <1>t, <1>3, <2>1 DEF OnlyUnsentRefunded
  <2>4. holders'[k] >= holders[k]
    BY <1>t, <2>1
  <2> QED
    BY <1>t, <1>1, <1>2, <2>1, <2>2, <2>3, <2>4, PlanBooks
<1>4. CASE work[k] # "reserved"
  <2>1. work' = work
    BY <1>t, <1>1, <1>4 DEF CachedInspection
  <2>2. UNCHANGED sourceVars
    BY <1>1, <2>1 DEF CachedInspection, sourceVars
  <2> QED
    BY <1>t, <1>1, <1>2, <2>2, PlanRests
<1> QED
  BY <1>3, <1>4

\* A request under an inspection is booked on its document for good.
LEMMA ReservePlan ==
    ASSUME PlanInv, NEW t \in Tasks, Reserve(t), pc \in [Tasks -> Stages],
           Len(attempts') \in Nat
    PROVE  PlanInv'
<1>t. /\ work \in [Works -> WorkStates] /\ holders \in [Works -> Nat] /\ HoldersCounted
      /\ sent \subseteq (Nat \X Works) /\ OnlyUnsentRefunded
      /\ scope \in [Tasks -> Works \cup {None}] /\ holds \in [Tasks -> BOOLEAN]
  BY DEF PlanInv
<1>1. /\ Reservable(t) /\ Booked(t, Len(attempts'))
      /\ pc' = [pc EXCEPT ![t] = "wire"] /\ UNCHANGED <<scope, holds>>
  BY DEF Reserve
<1>2. \A u \in Tasks : holds[u] => pc'[u] # "out"
  BY <1>t, <1>1 DEF HoldersCounted
<1>3. CASE scope[t] = None
  BY <1>t, <1>1, <1>2, <1>3, PlanRests DEF Booked
<1>4. CASE scope[t] # None
  <2> PICK k \in Works : k = scope[t]
    BY <1>t, <1>4
  <2>1. /\ sent' = sent \cup {<<Len(attempts'), k>>}
        /\ work' = [work EXCEPT ![k] = "sent_unknown"]
        /\ holders' = holders
    BY <1>1, <1>4 DEF Booked, BookSent
  <2>2. Live(k)
    BY <1>1, <1>4 DEF Reservable, Allowed, CheckHttp
  <2>3. "sent_unknown" \in WorkStates
    BY DEF WorkStates
  <2> DEFINE n == Len(attempts')
  <2>4. n \in Nat /\ sent' = sent \cup {<<n, k>>}
    BY <2>1
  <2> HIDE DEF n
  <2>5. sent' \subseteq (Nat \X Works) /\ \A b \in sent' : b \in sent \/ b[2] = k
    BY <1>t, <2>4
  <2>6. holders'[k] >= holders[k]
    BY <1>t, <2>1
  <2> QED
    BY <1>t, <1>1, <1>2, <2>1, <2>2, <2>3, <2>5, <2>6, PlanBooks
<1> QED
  BY <1>3, <1>4

\* A task that begins on its own account is in no document itself.
LEMMA BeginPlan ==
    ASSUME PlanInv, NEW t \in Tasks, Begin(t), pc \in [Tasks -> Stages]
    PROVE  PlanInv'
<1>t. /\ HoldersCounted
      /\ scope \in [Tasks -> Works \cup {None}] /\ holds \in [Tasks -> BOOLEAN]
  BY DEF PlanInv
<1>1. PICK u \in Tasks : scope' = [scope EXCEPT ![t] = scope[u]]
  BY DEF Begin
<1>2. /\ pc[t] = "out" /\ pc' = [pc EXCEPT ![t] = "ready"] /\ holds' = holds
      /\ UNCHANGED sourceVars
  BY DEF Begin
<1>3. ~holds[t]
  BY <1>t, <1>2 DEF HoldersCounted
<1>4. scope' \in [Tasks -> Works \cup {None}]
  BY <1>t, <1>1
<1>5. \A v \in Tasks : holds'[v] => /\ holds[v] /\ scope'[v] = scope[v] /\ pc'[v] # "out"
  BY <1>t, <1>1, <1>2, <1>3 DEF HoldersCounted
<1> QED
  BY <1>t, <1>2, <1>4, <1>5, PlanRests

\* Wherever its request is, a task stays in its document.
LEMMA RequestPlan ==
    ASSUME PlanInv, NEW t \in Tasks, UNCHANGED <<sourceVars, scope, holds>>,
           NEW p \in Stages \ {"out"}, pc' = [pc EXCEPT ![t] = p], pc \in [Tasks -> Stages]
    PROVE  PlanInv'
<1>1. /\ HoldersCounted
      /\ scope \in [Tasks -> Works \cup {None}] /\ holds \in [Tasks -> BOOLEAN]
  BY DEF PlanInv
<1>2. \A u \in Tasks : holds'[u] => /\ holds[u] /\ scope'[u] = scope[u] /\ pc'[u] # "out"
  BY <1>1 DEF HoldersCounted
<1> QED
  BY <1>1, <1>2, PlanRests

\* A run that dies leaves its documents held.
LEMMA CrashPlan ==
    ASSUME PlanInv, NEW r \in Runs, Crash(r), pc \in [Tasks -> Stages]
    PROVE  PlanInv'
<1>1. /\ HoldersCounted
      /\ scope \in [Tasks -> Works \cup {None}] /\ holds \in [Tasks -> BOOLEAN]
  BY DEF PlanInv
<1> DEFINE mine == {u \in Tasks : owner[u] = r}
<1>2. /\ pc' = [u \in Tasks |-> IF u \in mine THEN "out" ELSE pc[u]]
      /\ scope' = [u \in Tasks |-> IF u \in mine THEN None ELSE scope[u]]
      /\ holds' = [u \in Tasks |-> u \notin mine /\ holds[u]]
      /\ UNCHANGED sourceVars
  BY DEF Crash
<1> HIDE DEF mine
<1>3. holds' \in [Tasks -> BOOLEAN] /\ scope' \in [Tasks -> Works \cup {None}]
  BY <1>1, <1>2
<1>4. ASSUME NEW u \in Tasks, holds'[u]
      PROVE  holds[u] /\ scope'[u] = scope[u] /\ pc'[u] # "out"
  <2>1. u \notin mine /\ holds[u]
    BY <1>2, <1>4
  <2>2. pc[u] # "out"
    BY <1>1, <2>1 DEF HoldersCounted
  <2> QED
    BY <1>2, <2>1, <2>2
<1> QED
  BY <1>1, <1>2, <1>3, <1>4, PlanRests

\* Every step keeps the plan's part of the invariant.
LEMMA PlanStep ==
    ASSUME PlanInv, BudgetTypeOK, [Next]_vars
    PROVE  PlanInv'
<1>t. /\ pc \in [Tasks -> Stages]
      /\ attempts \in Seq([run: Runs, state: {"reserved_unknown", "interrupted", "complete"}])
      /\ HoldersCounted /\ scope \in [Tasks -> Works \cup {None}]
      /\ holds \in [Tasks -> BOOLEAN]
  BY DEF BudgetTypeOK, PlanInv
<1>p. {"ready", "queued", "gated", "wire", "body", "done"} \subseteq Stages \ {"out"}
  BY DEF Stages
<1>r. UNCHANGED <<sourceVars, scope, holds, pc>> => PlanInv'
  BY <1>t, PlanRests DEF HoldersCounted
<1>1. ASSUME NEW t \in Tasks, TaskStep(t) PROVE PlanInv'
  <2>1. CASE Begin(t)
    BY <1>t, <2>1, BeginPlan
  <2>2. ASSUME NEW k \in Works, EnterInspection(t, k) PROVE PlanInv'
    BY <1>t, <2>2, EnterPlan
  <2>3. ASSUME NEW k \in Works, Search(t, k) PROVE PlanInv'
    BY <1>t, <2>3, SearchPlan
  <2>4. CASE ReadCache(t)
    BY <1>t, <2>4, CachePlan
  <2>5. CASE LeaveInspection(t)
    BY <1>t, <2>5, LeavePlan
  <2>6. CASE Ask(t)
    BY <1>t, <1>p, <2>6, RequestPlan DEF Ask
  <2>7. CASE GiveUp(t)
    BY <1>t, <1>p, <2>7, RequestPlan DEF GiveUp
  <2>8. CASE TakeGate(t)
    BY <1>t, <1>p, <2>8, RequestPlan DEF TakeGate
  <2>9. CASE Reserve(t)
    <3>1. Len(attempts') \in Nat
      BY <1>t, <2>9 DEF Reserve, BudgetTypeOK
    <3> QED
      BY <1>t, <2>9, <3>1, ReservePlan
  <2>10. CASE Defer(t)
    BY <1>t, <1>p, <2>10, RequestPlan DEF Defer
  <2>11. ASSUME NEW status \in Statuses, NEW delay \in Delays, Respond(t, status, delay)
         PROVE  PlanInv'
    BY <1>t, <1>p, <2>11, RequestPlan DEF Respond
  <2>12. CASE Complete(t)
    BY <1>t, <1>p, <2>12, RequestPlan DEF Complete, Ends
  <2>13. CASE Interrupt(t)
    BY <1>t, <1>p, <2>13, RequestPlan DEF Interrupt, Ends
  <2> QED
    BY <1>1, <2>1, <2>2, <2>3, <2>4, <2>5, <2>6, <2>7, <2>8, <2>9, <2>10, <2>11, <2>12,
       <2>13 DEF TaskStep, RequestStep
<1>2. CASE Tick
  BY <1>r, <1>2 DEF Tick, loop
<1>3. ASSUME NEW r \in Runs, Crash(r) PROVE PlanInv'
  BY <1>t, <1>3, CrashPlan
<1>4. CASE UNCHANGED vars
  BY <1>r, <1>4 DEF vars, sourceVars
<1> QED
  BY <1>1, <1>2, <1>3, <1>4 DEF Next

-----------------------------------------------------------------------------
(* The gates: each counts the tasks that are in it.                        *)

\* The gate of a run, when one task moves: it enters, leaves, or does neither.
LEMMA RunGate ==
    ASSUME owner \in [Tasks -> Runs], gate \in [Runs -> 0..Concurrency],
           \A r \in Runs : gate[r] = Concurrency - Cardinality(InGate(r)),
           NEW t \in Tasks, owner' = owner, \A u \in Tasks \ {t} : pc'[u] = pc[u],
           \/ gate' = gate /\ (HoldsGate(t)' <=> HoldsGate(t))
           \/ /\ gate[owner[t]] > 0 /\ ~HoldsGate(t) /\ HoldsGate(t)'
              /\ gate' = [gate EXCEPT ![owner[t]] = @ - 1]
           \/ /\ HoldsGate(t) /\ ~HoldsGate(t)'
              /\ gate' = [gate EXCEPT ![owner[t]] = @ + 1]
    PROVE  /\ gate' \in [Runs -> 0..Concurrency]
           /\ \A r \in Runs : gate'[r] = Concurrency - Cardinality(InGate(r)')
<1> PICK o \in Runs : o = owner[t]
  OBVIOUS
<1> DEFINE S == InGate(o)
<1>c. Concurrency \in Nat
  BY BudgetAssumption
<1>1. \A r \in Runs \ {o} : InGate(r)' = InGate(r) /\ gate'[r] = gate[r]
  BY DEF InGate, HoldsGate
<1>2. S \in SUBSET Tasks /\ S' \in SUBSET Tasks
  BY DEF InGate
<1>3. /\ Cardinality(S) \in Nat /\ gate[o] = Concurrency - Cardinality(S)
      /\ gate[o] \in 0..Concurrency
  <2> HIDE DEF S
  <2>1. Cardinality(S) \in Nat
    BY <1>2, TaskSets
  <2> QED
    BY <2>1 DEF S
<1>4. gate'[o] \in 0..Concurrency /\ gate'[o] = Concurrency - Cardinality(S')
  <2>1. CASE gate' = gate /\ (HoldsGate(t)' <=> HoldsGate(t))
    <3>1. S' = S
      BY <2>1 DEF InGate, HoldsGate
    <3> QED
      BY <1>3, <2>1, <3>1
  <2>2. CASE /\ gate[owner[t]] > 0 /\ ~HoldsGate(t) /\ HoldsGate(t)'
             /\ gate' = [gate EXCEPT ![owner[t]] = @ - 1]
    <3>1. t \in Tasks \ S /\ S' = S \cup {t}
      BY <2>2 DEF InGate, HoldsGate
    <3>2. gate'[o] = gate[o] - 1 /\ gate[o] > 0
      BY <2>2
    <3> HIDE DEF S
    <3>3. Cardinality(S') = Cardinality(S) + 1
      BY <1>2, <3>1, TaskSets
    <3> QED
      BY <1>c, <1>3, <3>2, <3>3
  <2>3. CASE /\ HoldsGate(t) /\ ~HoldsGate(t)'
             /\ gate' = [gate EXCEPT ![owner[t]] = @ + 1]
    <3>1. t \in S /\ S' = S \ {t}
      BY <2>3 DEF InGate, HoldsGate
    <3>2. gate'[o] = gate[o] + 1
      BY <2>3
    <3> HIDE DEF S
    <3>3. Cardinality(S') = Cardinality(S) - 1 /\ Cardinality(S') \in Nat
      BY <1>2, <3>1, TaskSets
    <3> QED
      BY <1>c, <1>3, <3>2, <3>3
  <2> QED
    BY <2>1, <2>2, <2>3
<1>5. gate' \in [Runs -> 0..Concurrency]
  <2>1. \A r \in Runs : gate'[r] \in 0..Concurrency
    BY <1>1, <1>4
  <2>2. DOMAIN gate' = Runs /\ gate' = [r \in Runs |-> gate'[r]]
    OBVIOUS
  <2> QED
    BY <2>1, <2>2
<1> QED
  BY <1>1, <1>4, <1>5

\* The same of a run's gate for one host.
LEMMA RunHostGate ==
    ASSUME owner \in [Tasks -> Runs], target \in [Tasks -> Targets],
           hostGate \in [Runs \X Hosts -> {0, 1}],
           \A g \in Runs \X Hosts : hostGate[g] = 1 - Cardinality(AtHost(g)),
           NEW t \in Tasks, owner' = owner, target' = target,
           \A u \in Tasks \ {t} : pc'[u] = pc[u],
           \/ hostGate' = hostGate /\ (HoldsHost(t)' <=> HoldsHost(t))
           \/ /\ hostGate[HostGateOf(t)] > 0 /\ ~HoldsHost(t) /\ HoldsHost(t)'
              /\ hostGate' = [hostGate EXCEPT ![HostGateOf(t)] = @ - 1]
           \/ /\ HoldsHost(t) /\ ~HoldsHost(t)'
              /\ hostGate' = [hostGate EXCEPT ![HostGateOf(t)] = @ + 1]
    PROVE  /\ hostGate' \in [Runs \X Hosts -> {0, 1}]
           /\ \A g \in Runs \X Hosts : hostGate'[g] = 1 - Cardinality(AtHost(g)')
<1>o. HostGateOf(t) \in Runs \X Hosts
  BY DEF HostGateOf, Targets
<1> PICK o \in Runs \X Hosts : o = HostGateOf(t)
  BY <1>o
<1> DEFINE S == AtHost(o)
           n == hostGate[o]
           m == hostGate'[o]
<1>1. ASSUME NEW g \in Runs \X Hosts, g # o
      PROVE  AtHost(g)' = AtHost(g) /\ hostGate'[g] = hostGate[g]
  <2>1. g[1] # owner[t] \/ g[2] # target[t].host
    BY <1>1 DEF HostGateOf
  <2>2. AtHost(g)' = AtHost(g)
    BY <2>1 DEF AtHost, HoldsHost
  <2>3. hostGate'[g] = hostGate[g]
    BY <1>1
  <2> QED
    BY <2>2, <2>3
<1>2. S \in SUBSET Tasks /\ S' \in SUBSET Tasks
  BY DEF AtHost
<1>3. /\ Cardinality(S) \in Nat /\ n = 1 - Cardinality(S) /\ n \in {0, 1}
  <2>1. n = 1 - Cardinality(S) /\ n \in {0, 1}
    OBVIOUS
  <2> HIDE DEF S, n
  <2> QED
    BY <1>2, <2>1, TaskSets
<1>4. m \in {0, 1} /\ m = 1 - Cardinality(S')
  <2>1. CASE hostGate' = hostGate /\ (HoldsHost(t)' <=> HoldsHost(t))
    <3>1. S' = S
      BY <2>1 DEF AtHost, HoldsHost
    <3>2. m = n
      BY <2>1
    <3> HIDE DEF S, m, n
    <3> QED
      BY <1>3, <3>1, <3>2
  <2>2. CASE /\ hostGate[HostGateOf(t)] > 0 /\ ~HoldsHost(t) /\ HoldsHost(t)'
             /\ hostGate' = [hostGate EXCEPT ![HostGateOf(t)] = @ - 1]
    <3>1. t \in Tasks \ S /\ S' = S \cup {t}
      BY <2>2 DEF AtHost, HoldsHost, HostGateOf
    <3>2. m = n - 1 /\ n > 0
      BY <2>2
    <3> HIDE DEF S, n, m
    <3>3. Cardinality(S') = Cardinality(S) + 1
      BY <1>2, <3>1, TaskSets
    <3> QED
      BY <1>3, <3>2, <3>3
  <2>3. CASE /\ HoldsHost(t) /\ ~HoldsHost(t)'
             /\ hostGate' = [hostGate EXCEPT ![HostGateOf(t)] = @ + 1]
    <3>1. t \in S /\ S' = S \ {t}
      BY <2>3 DEF AtHost, HoldsHost, HostGateOf
    <3>2. m = n + 1
      BY <2>3
    <3> HIDE DEF S, n, m
    <3>3. Cardinality(S') = Cardinality(S) - 1 /\ Cardinality(S') \in Nat
      BY <1>2, <3>1, TaskSets
    <3> QED
      BY <1>3, <3>2, <3>3
  <2> QED
    BY <2>1, <2>2, <2>3
<1>5. hostGate' \in [Runs \X Hosts -> {0, 1}]
  <2>1. \A g \in Runs \X Hosts : hostGate'[g] \in {0, 1}
    BY <1>1, <1>4
  <2>2. hostGate' = [g \in Runs \X Hosts |-> hostGate'[g]]
    OBVIOUS
  <2> QED
    BY <2>1, <2>2
<1> QED
  BY <1>1, <1>4, <1>5

\* What the tasks of the event loops and their gates promise.
LoopInv ==
    /\ owner \in [Tasks -> Runs]
    /\ pc \in [Tasks -> Stages]
    /\ target \in [Tasks -> Targets]
    /\ gate \in [Runs -> 0..Concurrency]
    /\ hostGate \in [Runs \X Hosts -> {0, 1}]
    /\ GatesCounted

\* A step of one task moves at most one place in each gate.
MovesGates(t) ==
    /\ \/ gate' = gate /\ (HoldsGate(t)' <=> HoldsGate(t))
       \/ /\ gate[owner[t]] > 0 /\ ~HoldsGate(t) /\ HoldsGate(t)'
          /\ gate' = [gate EXCEPT ![owner[t]] = @ - 1]
       \/ /\ HoldsGate(t) /\ ~HoldsGate(t)'
          /\ gate' = [gate EXCEPT ![owner[t]] = @ + 1]
    /\ \/ hostGate' = hostGate /\ (HoldsHost(t)' <=> HoldsHost(t))
       \/ /\ hostGate[HostGateOf(t)] > 0 /\ ~HoldsHost(t) /\ HoldsHost(t)'
          /\ hostGate' = [hostGate EXCEPT ![HostGateOf(t)] = @ - 1]
       \/ /\ HoldsHost(t) /\ ~HoldsHost(t)'
          /\ hostGate' = [hostGate EXCEPT ![HostGateOf(t)] = @ + 1]

\* A task that takes and releases its gates as its stage says keeps the counts.
LEMMA LoopMoves ==
    ASSUME LoopInv, NEW t \in Tasks, NEW p \in Stages, pc' = [pc EXCEPT ![t] = p],
           UNCHANGED <<owner, target>>, MovesGates(t)
    PROVE  LoopInv'
<1>1. /\ owner \in [Tasks -> Runs] /\ pc \in [Tasks -> Stages]
      /\ target \in [Tasks -> Targets]
      /\ gate \in [Runs -> 0..Concurrency] /\ hostGate \in [Runs \X Hosts -> {0, 1}]
      /\ \A r \in Runs : gate[r] = Concurrency - Cardinality(InGate(r))
      /\ \A g \in Runs \X Hosts : hostGate[g] = 1 - Cardinality(AtHost(g))
  BY DEF LoopInv, GatesCounted
<1>2. /\ \A u \in Tasks \ {t} : pc'[u] = pc[u]
      /\ pc' \in [Tasks -> Stages]
  BY <1>1
<1>3. /\ gate' \in [Runs -> 0..Concurrency]
      /\ \A r \in Runs : gate'[r] = Concurrency - Cardinality(InGate(r)')
  BY <1>1, <1>2, RunGate DEF MovesGates
<1>4. /\ hostGate' \in [Runs \X Hosts -> {0, 1}]
      /\ \A g \in Runs \X Hosts : hostGate'[g] = 1 - Cardinality(AtHost(g)')
  BY <1>1, <1>2, RunHostGate DEF MovesGates
<1>5. GatesCounted'
  BY <1>3, <1>4 DEF GatesCounted
<1> QED
  BY <1>1, <1>2, <1>3, <1>4, <1>5 DEF LoopInv

\* A run that starts again has new gates, and no task in them.
LEMMA LoopCrash ==
    ASSUME LoopInv, NEW r \in Runs, Crash(r)
    PROVE  LoopInv'
<1>1. /\ owner \in [Tasks -> Runs] /\ pc \in [Tasks -> Stages]
      /\ target \in [Tasks -> Targets]
      /\ gate \in [Runs -> 0..Concurrency] /\ hostGate \in [Runs \X Hosts -> {0, 1}]
      /\ \A q \in Runs : gate[q] = Concurrency - Cardinality(InGate(q))
      /\ \A g \in Runs \X Hosts : hostGate[g] = 1 - Cardinality(AtHost(g))
  BY DEF LoopInv, GatesCounted
<1>2. /\ \A u \in Tasks : pc'[u] = IF owner[u] = r THEN "out" ELSE pc[u]
      /\ gate' = [gate EXCEPT ![r] = Concurrency]
      /\ hostGate' = [g \in Runs \X Hosts |-> IF g[1] = r THEN 1 ELSE hostGate[g]]
      /\ owner' = owner /\ target' = target
      /\ pc' \in [Tasks -> Stages]
  BY <1>1 DEF Crash, Stages
<1>c. Concurrency \in Nat /\ Cardinality({}) = 0
  BY BudgetAssumption, FS_EmptySet
<1>3. \A q \in Runs : InGate(q)' = IF q = r THEN {} ELSE InGate(q)
  <2> TAKE q \in Runs
  <2>1. CASE q = r
    BY <1>2, <2>1 DEF InGate, HoldsGate
  <2>2. CASE q # r
    BY <1>2, <2>2 DEF InGate, HoldsGate
  <2> QED
    BY <2>1, <2>2
<1>4. \A g \in Runs \X Hosts : AtHost(g)' = IF g[1] = r THEN {} ELSE AtHost(g)
  <2> TAKE g \in Runs \X Hosts
  <2>1. CASE g[1] = r
    BY <1>2, <2>1 DEF AtHost, HoldsHost
  <2>2. CASE g[1] # r
    BY <1>2, <2>2 DEF AtHost, HoldsHost
  <2> QED
    BY <2>1, <2>2
<1>5. /\ gate' \in [Runs -> 0..Concurrency]
      /\ \A q \in Runs : gate'[q] = Concurrency - Cardinality(InGate(q)')
  <2>1. gate' \in [Runs -> 0..Concurrency]
    BY <1>1, <1>2, <1>c
  <2>2. ASSUME NEW q \in Runs PROVE gate'[q] = Concurrency - Cardinality(InGate(q)')
    <3>1. CASE q = r
      <4>1. Cardinality(InGate(q)') = 0 /\ gate'[q] = Concurrency
        BY <1>1, <1>2, <1>3, <1>c, <3>1
      <4> QED
        BY <1>c, <4>1
    <3>2. CASE q # r
      BY <1>1, <1>2, <1>3, <3>2
    <3> QED
      BY <3>1, <3>2
  <2> QED
    BY <2>1, <2>2
<1>6. /\ hostGate' \in [Runs \X Hosts -> {0, 1}]
      /\ \A g \in Runs \X Hosts : hostGate'[g] = 1 - Cardinality(AtHost(g)')
  <2>1. \A g \in Runs \X Hosts : hostGate'[g] = IF g[1] = r THEN 1 ELSE hostGate[g]
    BY <1>2
  <2>2. ASSUME NEW g \in Runs \X Hosts PROVE hostGate'[g] = 1 - Cardinality(AtHost(g)')
    <3>1. CASE g[1] = r
      <4>1. AtHost(g)' = {}
        BY <1>4, <3>1
      <4>2. Cardinality(AtHost(g)') = 0
        BY <1>c, <4>1
      <4> QED
        BY <2>1, <3>1, <4>2
    <3>2. CASE g[1] # r
      BY <1>1, <1>4, <2>1, <3>2
    <3> QED
      BY <3>1, <3>2
  <2>3. hostGate' \in [Runs \X Hosts -> {0, 1}]
    BY <1>1, <1>2
  <2> QED
    BY <2>2, <2>3
<1>7. GatesCounted'
  BY <1>5, <1>6 DEF GatesCounted
<1> QED
  BY <1>1, <1>2, <1>5, <1>6, <1>7 DEF LoopInv

\* Every step keeps the gates' counts.
LEMMA LoopStep ==
    ASSUME LoopInv, [Next]_vars
    PROVE  LoopInv'
<1>t. pc \in [Tasks -> Stages] /\ owner \in [Tasks -> Runs]
  BY DEF LoopInv
<1>p. {"out", "ready", "queued", "gated", "wire", "body", "done"} \subseteq Stages
  BY DEF Stages
<1>1. ASSUME NEW t \in Tasks, TaskStep(t) PROVE LoopInv'
  <2>h. ASSUME NEW p \in Stages, pc' = [pc EXCEPT ![t] = p]
        PROVE  /\ HoldsGate(t)' <=> p \in {"gated", "wire", "body"}
               /\ HoldsHost(t)' <=> p \in {"wire", "body"}
    BY <1>t, <2>h DEF HoldsGate, HoldsHost
  <2>s. ASSUME NEW p \in Stages, pc' = [pc EXCEPT ![t] = p], UNCHANGED <<owner, target>>,
               UNCHANGED <<gate, hostGate>>,
               pc[t] \in {"out", "ready", "queued", "done"},
               p \in {"out", "ready", "queued", "done"}
        PROVE  LoopInv'
    <3>1. MovesGates(t)
      BY <2>h, <2>s DEF MovesGates, HoldsGate, HoldsHost
    <3> QED
      BY <2>s, <3>1, LoopMoves
  <2>1. CASE Begin(t)
    BY <1>p, <2>s, <2>1 DEF Begin
  <2>2. ASSUME NEW k \in Works, EnterInspection(t, k) \/ Search(t, k) PROVE LoopInv'
    BY <1>p, <2>s, <2>2 DEF EnterInspection, Search
  <2>3. CASE ReadCache(t)
    BY <1>p, <2>s, <2>3 DEF ReadCache
  <2>4. CASE LeaveInspection(t)
    BY <1>p, <2>s, <2>4 DEF LeaveInspection
  <2>5. CASE Ask(t)
    BY <1>p, <2>s, <2>5 DEF Ask
  <2>6. CASE GiveUp(t)
    <3>1. MovesGates(t)
      BY <1>p, <2>h, <2>6 DEF GiveUp, Freed, MovesGates, HoldsGate, HoldsHost
    <3> QED
      BY <1>p, <2>6, <3>1, LoopMoves DEF GiveUp
  <2>7. CASE TakeGate(t)
    <3>1. MovesGates(t)
      BY <1>p, <2>h, <2>7 DEF TakeGate, MovesGates, HoldsGate, HoldsHost
    <3> QED
      BY <1>p, <2>7, <3>1, LoopMoves DEF TakeGate
  <2>8. CASE Reserve(t)
    <3>1. /\ pc[t] = "gated" /\ pc' = [pc EXCEPT ![t] = "wire"] /\ gate' = gate
          /\ hostGate[HostGateOf(t)] > 0
          /\ hostGate' = [hostGate EXCEPT ![HostGateOf(t)] = @ - 1]
          /\ UNCHANGED <<owner, target>>
      BY <2>8 DEF Reserve
    <3>2. MovesGates(t)
      BY <1>p, <2>h, <3>1 DEF MovesGates, HoldsGate, HoldsHost
    <3> QED
      BY <1>p, <3>1, <3>2, LoopMoves
  <2>9. CASE Defer(t)
    <3>1. MovesGates(t)
      BY <1>p, <2>h, <2>9 DEF Defer, Freed, MovesGates, HoldsGate, HoldsHost
    <3> QED
      BY <1>p, <2>9, <3>1, LoopMoves DEF Defer
  <2>10. ASSUME NEW status \in Statuses, NEW delay \in Delays, Respond(t, status, delay)
         PROVE  LoopInv'
    <3>1. /\ pc[t] = "wire" /\ pc' = [pc EXCEPT ![t] = "body"]
          /\ UNCHANGED <<owner, target, gate, hostGate>>
      BY <2>10 DEF Respond
    <3>2. MovesGates(t)
      BY <1>p, <2>h, <3>1 DEF MovesGates, HoldsGate, HoldsHost
    <3> QED
      BY <1>p, <3>1, <3>2, LoopMoves
  <2>11. ASSUME NEW state, Ends(t, state), pc[t] \in {"wire", "body"},
                NEW p \in {"ready", "done"}, pc' = [pc EXCEPT ![t] = p]
         PROVE  LoopInv'
    <3>1. /\ gate' = [gate EXCEPT ![owner[t]] = @ + 1]
          /\ hostGate' = [hostGate EXCEPT ![HostGateOf(t)] = @ + 1]
          /\ UNCHANGED <<owner, target>>
      BY <2>11 DEF Ends, Release, Freed
    <3>2. MovesGates(t)
      BY <1>p, <2>h, <2>11, <3>1 DEF MovesGates, HoldsGate, HoldsHost
    <3> QED
      BY <1>p, <2>11, <3>1, <3>2, LoopMoves
  <2>12. CASE Complete(t)
    BY <2>11, <2>12 DEF Complete
  <2>13. CASE Interrupt(t)
    BY <2>11, <2>13 DEF Interrupt
  <2> QED
    BY <1>1, <2>1, <2>2, <2>3, <2>4, <2>5, <2>6, <2>7, <2>8, <2>9, <2>10, <2>12, <2>13
       DEF TaskStep, RequestStep
<1>2. ASSUME UNCHANGED <<owner, pc, target, gate, hostGate>> PROVE LoopInv'
  BY <1>2 DEF LoopInv, GatesCounted, InGate, AtHost, HoldsGate, HoldsHost
<1>3. CASE Tick
  BY <1>2, <1>3 DEF Tick, loop
<1>4. ASSUME NEW r \in Runs, Crash(r) PROVE LoopInv'
  BY <1>4, LoopCrash
<1>5. CASE UNCHANGED vars
  BY <1>2, <1>5 DEF vars
<1> QED
  BY <1>1, <1>3, <1>4, <1>5 DEF Next

-----------------------------------------------------------------------------
(* The books: what is reserved, its outcomes, and the pauses.              *)

AttemptRows == [run: Runs, state: {"reserved_unknown", "interrupted", "complete"}]

\* What the tables of the budget promise.
BookInv ==
    /\ attempt \in [Tasks -> Nat]
    /\ \A r \in Runs : used[r] \in 0..Cap[r]
    /\ UsedCounted
    /\ attempts \in Seq(AttemptRows)
    /\ cooldowns \in [Scopes -> Nat]
    /\ now \in Nat
    /\ crashes \in Nat
    /\ asked \in [Scopes -> Nat]
    /\ PausesNoted

\* A reservation is a further row, and is within the run's ceiling.
LEMMA ReserveBooks ==
    ASSUME BookInv, LoopInv, NEW t \in Tasks, Reserve(t)
    PROVE  BookInv'
<1> PICK o \in Runs : o = owner[t]
  BY DEF LoopInv
<1>1. /\ used[o] < Cap[o]
      /\ used' = [used EXCEPT ![o] = @ + 1]
      /\ attempts' = Append(attempts, [run |-> o, state |-> "reserved_unknown"])
      /\ attempt' = [attempt EXCEPT ![t] = Len(attempts')]
      /\ UNCHANGED <<cooldowns, now, crashes, asked>>
  BY DEF Reserve, Reservable
<1>2. /\ attempt \in [Tasks -> Nat] /\ used \in [Runs -> Nat]
      /\ attempts \in Seq(AttemptRows) /\ Cap \in [Runs -> Nat]
      /\ \A r \in Runs : used[r] \in 0..Cap[r]
  BY BudgetAssumption DEF BookInv, UsedCounted
<1>3. attempts' \in Seq(AttemptRows) /\ Len(attempts') \in Nat
  <2>1. [run |-> o, state |-> "reserved_unknown"] \in AttemptRows
    BY DEF AttemptRows
  <2> DEFINE e == [run |-> o, state |-> "reserved_unknown"]
  <2>2. e \in AttemptRows /\ attempts' = Append(attempts, e)
    BY <1>1, <2>1
  <2> HIDE DEF e
  <2> QED
    BY <1>2, <2>2
<1>4. attempt' \in [Tasks -> Nat]
  <2> DEFINE n == Len(attempts')
  <2>1. n \in Nat /\ attempt' = [attempt EXCEPT ![t] = n]
    BY <1>1, <1>3
  <2> HIDE DEF n
  <2> QED
    BY <1>2, <2>1
<1>5. used' \in [Runs -> Nat] /\ \A r \in Runs : used'[r] \in 0..Cap[r]
  <2>1. ASSUME NEW r \in Runs PROVE used'[r] \in 0..Cap[r]
    <3>1. used[r] \in 0..Cap[r] /\ Cap[r] \in Nat /\ used[r] \in Nat
      BY <1>2
    <3>2. CASE r = o
      BY <1>1, <1>2, <3>1, <3>2
    <3>3. CASE r # o
      BY <1>1, <1>2, <3>1, <3>3
    <3> QED
      BY <3>2, <3>3
  <2>2. used' \in [Runs -> Nat]
    BY <1>1, <1>2
  <2> QED
    BY <2>1, <2>2
<1> QED
  BY <1>1, <1>3, <1>4, <1>5 DEF BookInv, UsedCounted, PausesNoted

\* An outcome only changes the state of a row.
LEMMA EndBooks ==
    ASSUME BookInv, NEW t \in Tasks, NEW state \in {"interrupted", "complete"},
           Ends(t, state)
    PROVE  BookInv'
<1>1. attempts \in Seq(AttemptRows) /\ attempt \in [Tasks -> Nat]
  BY DEF BookInv
<1>2. attempts' \in Seq(AttemptRows)
  <2>1. CASE attempts' = [attempts EXCEPT ![attempt[t]].state = state]
    <3> DEFINE n == Len(attempts)
    <3>1. n \in Nat /\ attempts \in [1..n -> AttemptRows]
      BY <1>1
    <3> HIDE DEF n
    <3>2. \A e \in AttemptRows : [e EXCEPT !.state = state] \in AttemptRows
      BY DEF AttemptRows
    <3>3. attempts' \in [1..n -> AttemptRows]
      BY <2>1, <3>1, <3>2
    <3> QED
      BY <3>1, <3>3
  <2> QED
    BY <1>1, <2>1 DEF Ends, Finish
<1>3. /\ attempt' = [attempt EXCEPT ![t] = 0]
      /\ UNCHANGED <<used, cooldowns, now, crashes, asked>>
  BY DEF Ends
<1>4. attempt' \in [Tasks -> Nat]
  BY <1>1, <1>3
<1> QED
  BY <1>2, <1>3, <1>4 DEF BookInv, UsedCounted, PausesNoted

\* What a host asks for is noted.
LEMMA RespondBooks ==
    ASSUME BookInv, LoopInv, NEW t \in Tasks, NEW status \in Statuses, NEW delay \in Delays,
           Respond(t, status, delay)
    PROVE  BookInv'
<1>1. /\ cooldowns \in [Scopes -> Nat] /\ asked \in [Scopes -> Nat] /\ cooldowns = asked
      /\ now \in Nat /\ delay \in Nat
  BY BudgetAssumption DEF BookInv, PausesNoted
<1>2. UNCHANGED <<attempt, used, attempts, now, crashes>>
  BY DEF Respond
<1>3. CASE status = "ok"
  BY <1>2, <1>3 DEF Respond, BookInv, UsedCounted, PausesNoted
<1>4. CASE status # "ok"
  <2> DEFINE sc == CooldownScope(target[t], status)
             until == now + delay
  <2>1. sc \in Scopes
    <3>1. target[t] \in Targets
      BY DEF LoopInv
    <3> QED
      BY <3>1 DEF CooldownScope, HostScope, Scopes, Targets
  <2>2. until \in Nat
    BY <1>1
  <2>3. /\ cooldowns' = [cooldowns EXCEPT ![sc] = Later(@, until)]
        /\ asked' = [asked EXCEPT ![sc] = Later(@, until)]
    BY <1>4 DEF Respond, Cooldown
  <2> HIDE DEF sc, until
  <2>4. Later(asked[sc], until) \in Nat
    BY <1>1, <2>1, <2>2 DEF Later
  <2>5. cooldowns' = asked' /\ asked' \in [Scopes -> Nat]
    BY <1>1, <2>1, <2>3, <2>4
  <2> QED
    BY <1>2, <2>5 DEF BookInv, UsedCounted, PausesNoted
<1> QED
  BY <1>3, <1>4

\* Every step keeps the books.
LEMMA BookStep ==
    ASSUME BookInv, LoopInv, [Next]_vars
    PROVE  BookInv'
<1>1. ASSUME UNCHANGED <<attempt, books, now, crashes, asked>> PROVE BookInv'
  BY <1>1 DEF BookInv, books, UsedCounted, PausesNoted
<1>2. ASSUME NEW t \in Tasks, TaskStep(t) PROVE BookInv'
  <2>1. CASE Begin(t)
    BY <1>1, <2>1 DEF Begin
  <2>2. ASSUME NEW k \in Works, EnterInspection(t, k) PROVE BookInv'
    BY <1>1, <2>2 DEF EnterInspection
  <2>3. ASSUME NEW k \in Works, Search(t, k) PROVE BookInv'
    BY <1>1, <2>3 DEF Search
  <2>4. CASE ReadCache(t)
    BY <1>1, <2>4 DEF ReadCache
  <2>5. CASE LeaveInspection(t)
    BY <1>1, <2>5 DEF LeaveInspection
  <2>6. CASE Ask(t)
    BY <1>1, <2>6 DEF Ask
  <2>7. CASE GiveUp(t)
    BY <1>1, <2>7 DEF GiveUp
  <2>8. CASE TakeGate(t)
    BY <1>1, <2>8 DEF TakeGate
  <2>9. CASE Reserve(t)
    BY <2>9, ReserveBooks
  <2>10. CASE Defer(t)
    BY <1>1, <2>10 DEF Defer
  <2>11. ASSUME NEW status \in Statuses, NEW delay \in Delays, Respond(t, status, delay)
         PROVE  BookInv'
    BY <2>11, RespondBooks
  <2>12. CASE Complete(t)
    BY <2>12, EndBooks DEF Complete
  <2>13. CASE Interrupt(t)
    BY <2>13, EndBooks DEF Interrupt
  <2> QED
    BY <1>2, <2>1, <2>2, <2>3, <2>4, <2>5, <2>6, <2>7, <2>8, <2>9, <2>10, <2>11, <2>12,
       <2>13 DEF TaskStep, RequestStep
<1>3. CASE Tick
  <2>1. now' \in Nat
    BY <1>3 DEF Tick, BookInv
  <2> QED
    BY <1>3, <2>1 DEF Tick, loop, books, BookInv, UsedCounted, PausesNoted
<1>4. ASSUME NEW r \in Runs, Crash(r) PROVE BookInv'
  <2>1. crashes' \in Nat /\ attempt' \in [Tasks -> Nat]
    BY <1>4 DEF Crash, BookInv
  <2> QED
    BY <1>4, <2>1 DEF Crash, books, BookInv, UsedCounted, PausesNoted
<1>5. CASE UNCHANGED vars
  BY <1>1, <1>5 DEF vars, books
<1> QED
  BY <1>2, <1>3, <1>4, <1>5 DEF Next

-----------------------------------------------------------------------------
(* The theorems.                                                           *)

\* The invariant in its three parts.
LEMMA Parts == BudgetInv <=> PlanInv /\ LoopInv /\ BookInv
  BY DEF BudgetInv, BudgetTypeOK, PlanInv, LoopInv, BookInv, AttemptRows

\* A run starts with empty tables and free gates.
LEMMA BudgetStart == Init => BudgetInv
<1> SUFFICES ASSUME Init PROVE PlanInv /\ LoopInv /\ BookInv
  BY Parts
<1>a. /\ Owners \subseteq [Tasks -> Runs] /\ Errands \subseteq [Tasks -> Targets]
      /\ Cap \in [Runs -> Nat] /\ Concurrency \in Nat
  BY BudgetAssumption DEF Targets
<1>c. Cardinality({}) = 0
  BY FS_EmptySet
<1>1. PlanInv
  <2>1. /\ work = [k \in Works |-> "none"] /\ holders = [k \in Works |-> 0]
        /\ sent = {} /\ scope = [t \in Tasks |-> None]
        /\ holds = [t \in Tasks |-> FALSE]
    BY DEF Init, SourceInit
  <2>2. /\ work \in [Works -> WorkStates] /\ holders \in [Works -> Nat]
        /\ sent \subseteq (Nat \X Works) /\ scope \in [Tasks -> Works \cup {None}]
        /\ holds \in [Tasks -> BOOLEAN]
    BY <2>1 DEF WorkStates
  <2>3. \A k \in Works : Cardinality(Within(k)) <= holders[k]
    <3> TAKE k \in Works
    <3>1. Within(k) = {}
      BY <2>1 DEF Within
    <3> QED
      BY <1>c, <2>1, <3>1
  <2>4. HoldersCounted
    BY <2>1, <2>3 DEF HoldersCounted
  <2>5. WithinCeilings
    <3> SUFFICES ASSUME NEW r \in Runs, NEW kind \in Kinds
                 PROVE  /\ Cardinality(OfKind(r, kind)) <= Ceiling[kind]
                        /\ Cardinality(OfPilots(r, kind)) <= Ceiling[kind] \div 5
                        /\ \A s \in Sources :
                             /\ Cardinality(OfSource(r, s, kind)) <= RouteCeiling[s][kind]
                             /\ Cardinality(OfCategory(r, Category[s], kind))
                                  <= CategoryCeiling[Category[s]][kind]
      BY DEF WithinCeilings
    <3>1. OfKind(r, kind) = {}
      BY <2>1 DEF OfKind, Live
    <3>2. /\ OfPilots(r, kind) = {}
          /\ \A s \in Sources :
               OfSource(r, s, kind) = {} /\ OfCategory(r, Category[s], kind) = {}
      BY <3>1 DEF OfPilots, OfSource, OfCategory
    <3>3. Ceiling[kind] >= 0 /\ Ceiling[kind] \div 5 >= 0
      BY SourceAssumption
    <3>4. \A s \in Sources : /\ RouteCeiling[s][kind] >= 0
                             /\ CategoryCeiling[Category[s]][kind] >= 0
      <4> TAKE s \in Sources
      <4>1. RouteCeiling[s] \in [Kinds -> Nat]
        BY SourceAssumption
      <4>2. CategoryCeiling[Category[s]] \in [Kinds -> Nat]
        BY SourceAssumption DEF Categories
      <4>3. RouteCeiling[s][kind] \in Nat /\ CategoryCeiling[Category[s]][kind] \in Nat
        BY <4>1, <4>2
      <4> QED
        BY <4>3
    <3> QED
      BY <1>c, <3>1, <3>2, <3>3, <3>4
  <2>6. OnlyUnsentRefunded
    BY <2>1 DEF OnlyUnsentRefunded
  <2> QED
    BY <2>2, <2>4, <2>5, <2>6 DEF PlanInv
<1>2. LoopInv
  <2>1. \A r \in Runs : InGate(r) = {}
    BY DEF Init, InGate, HoldsGate
  <2>2. \A g \in Runs \X Hosts : AtHost(g) = {}
    BY DEF Init, AtHost, HoldsHost
  <2>3. GatesCounted
    <3>1. \A r \in Runs : gate[r] = Concurrency - Cardinality(InGate(r))
      <4> TAKE r \in Runs
      <4>1. gate[r] = Concurrency
        BY DEF Init
      <4>2. Cardinality(InGate(r)) = 0
        BY <1>c, <2>1
      <4> QED
        BY <1>a, <4>1, <4>2
    <3>2. \A g \in Runs \X Hosts : hostGate[g] = 1 - Cardinality(AtHost(g))
      <4> TAKE g \in Runs \X Hosts
      <4>1. hostGate[g] = 1
        BY DEF Init
      <4>2. Cardinality(AtHost(g)) = 0
        BY <1>c, <2>2
      <4> QED
        BY <4>1, <4>2
    <3> QED
      BY <3>1, <3>2 DEF GatesCounted
  <2> QED
    BY <1>a, <2>3 DEF Init, LoopInv, Stages
<1>3. BookInv
  <2>1. /\ attempts \in Seq(AttemptRows) /\ now \in Nat /\ crashes \in Nat
        /\ attempt \in [Tasks -> Nat]
        /\ cooldowns \in [Scopes -> Nat] /\ asked \in [Scopes -> Nat]
        /\ cooldowns = asked
    BY DEF Init
  <2>2. used \in [Runs -> Nat] /\ \A r \in Runs : used[r] \in 0..Cap[r]
    BY <1>a DEF Init
  <2> QED
    BY <2>1, <2>2 DEF BookInv, UsedCounted, PausesNoted
<1> QED
  BY <1>1, <1>2, <1>3

\* Each part rests on the others' types alone.
LEMMA BudgetSteps == BudgetInv /\ [Next]_vars => BudgetInv'
<1> SUFFICES ASSUME BudgetInv, [Next]_vars PROVE BudgetInv'
  OBVIOUS
<1>1. PlanInv /\ LoopInv /\ BookInv /\ BudgetTypeOK
  BY Parts DEF BudgetInv
<1>2. PlanInv' /\ LoopInv' /\ BookInv'
  BY <1>1, PlanStep, LoopStep, BookStep
<1> QED
  BY <1>2, Parts, PTL

\* The invariant of the request budget: the plan's ceilings and refunds, the
\* gates' counts and the pauses, for any number of runs, tasks and crashes.
THEOREM BudgetInvariant == Spec => []BudgetInv
<1> QED
  BY BudgetStart, BudgetSteps, PTL DEF Spec

\* The gates and holders stay in their ranges, and no run uses more requests
\* than its ceiling (reserve).
THEOREM BudgetTypes == Spec => []BudgetTypeOK
<1>1. BudgetInv => BudgetTypeOK
  BY DEF BudgetInv
<1> QED
  BY <1>1, BudgetInvariant, PTL

\* The plan's ceilings hold whatever is refunded, restarted or shared
\* (reserve_work and the refund on leaving).
THEOREM CeilingsHold == Spec => []WithinCeilings
<1>1. BudgetInv => WithinCeilings
  BY DEF BudgetInv
<1> QED
  BY <1>1, BudgetInvariant, PTL

\* A document is refunded by the last task to leave it, and only if nothing was
\* sent for it (inspection).
THEOREM RefundsAreUnsent == Spec => []OnlyUnsentRefunded
<1>1. BudgetInv => OnlyUnsentRefunded
  BY DEF BudgetInv
<1> QED
  BY <1>1, BudgetInvariant, PTL

\* No request goes to a host or account before the pause it asked for is over
\* (reserve and cooldown), whichever run asks and in whatever order answers come.
THEOREM PausesAreKept == Spec => PausesKept
<1>1. ASSUME BudgetInv, [Next]_vars
      PROVE  [\A t \in Tasks : pc[t] # "wire" /\ pc'[t] = "wire" =>
                asked[HostScope(target[t])] <= now /\ asked[target[t]] <= now]_vars
  <2>t. /\ pc \in [Tasks -> Stages] /\ target \in [Tasks -> Targets]
        /\ cooldowns = asked /\ asked \in [Scopes -> Nat] /\ now \in Nat
    BY <1>1 DEF BudgetInv, BudgetTypeOK, PausesNoted
  <2> SUFFICES ASSUME NEW t \in Tasks, pc[t] # "wire", pc'[t] = "wire"
               PROVE  asked[HostScope(target[t])] <= now /\ asked[target[t]] <= now
    OBVIOUS
  <2>1. Reserve(t)
    <3>1. ASSUME NEW u \in Tasks, TaskStep(u) PROVE Reserve(t)
      <4>1. CASE Reserve(u)
        BY <2>t, <4>1 DEF Reserve
      <4>2. CASE ~Reserve(u)
        <5>1. \E p \in {"out", "ready", "queued", "gated", "body", "done"} :
                pc' = [pc EXCEPT ![u] = p]
          BY <3>1, <4>2 DEF TaskStep, RequestStep, Begin, EnterInspection, Search,
             ReadCache, LeaveInspection, Ask, GiveUp, TakeGate, Defer, Respond,
             Complete, Interrupt
        <5> QED
          BY <2>t, <5>1
      <4> QED
        BY <4>1, <4>2
    <3>2. CASE Tick
      BY <3>2 DEF Tick, loop
    <3>3. ASSUME NEW r \in Runs, Crash(r) PROVE Reserve(t)
      BY <3>3 DEF Crash
    <3>4. CASE UNCHANGED vars
      BY <3>4 DEF vars
    <3> QED
      BY <1>1, <3>1, <3>2, <3>3, <3>4 DEF Next
  <2>2. target[t] \in Scopes /\ HostScope(target[t]) \in Scopes
    BY <2>t DEF Scopes, Targets, HostScope
  <2>3. ~Cooling(target[t])
    BY <2>1 DEF Reserve, Reservable
  <2>4. ~(cooldowns[HostScope(target[t])] > now) /\ ~(cooldowns[target[t]] > now)
    BY <2>3 DEF Cooling
  <2> DEFINE a == asked[HostScope(target[t])]
             b == asked[target[t]]
  <2>5. a \in Nat /\ b \in Nat /\ ~(a > now) /\ ~(b > now)
    BY <2>t, <2>2, <2>4
  <2> HIDE DEF a, b
  <2>6. a <= now /\ b <= now
    BY <2>t, <2>5
  <2> QED
    BY <2>6 DEF a, b
<1> QED
  BY <1>1, BudgetInvariant, PTL DEF Spec, PausesKept
=============================================================================
