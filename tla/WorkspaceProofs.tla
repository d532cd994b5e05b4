---------------------------- MODULE WorkspaceProofs ----------------------------
(***************************************************************************)
(* Proofs about the records a workspace keeps, for any claims, bindings,   *)
(* platforms, processes and bounds: the journal of outcomes, the reviews   *)
(* that let an outcome act, and the trust a story moves; about the         *)
(* assessment of a posting by what the user declared and its texts say;    *)
(* about the queue of postings to be classified; about a forum topic read  *)
(* page by page; and about the action policy, for any evidence.            *)
(***************************************************************************)
EXTENDS OutcomeFacts, OutcomeReview, TrustMaintenance, JobAssessment, ScamQueue,
        CommunityThread, ActionPolicy, NaturalsInduction, FiniteSetTheorems,
        WellFoundedInduction, TLAPS

-----------------------------------------------------------------------------
(* Reviews of outcomes.  A preview decides anew what acts on each role, so *)
(* the property is inductive once the roles are known to be a capture's.   *)

\* The binding of an attempt selects a role, by its ID or an alias.
Selects(t, r) ==
    /\ t.active
    /\ Retains(r, t.seen, t.url)
    /\ \/ t.role = r
       \/ /\ t.role \notin DOMAIN roles
          /\ \E a \in reviewed.aliases : a.from = t.role /\ a.to = r

ReviewInv == roles \in Captures /\ SelectionActs

\* A binding that leads to a role selects it.
LEMMA LeadingSelects ==
    ASSUME NEW r, r # None, NEW aliases, NEW ties, NEW t \in Claimants(r, aliases, ties)
    PROVE  /\ t \in ties /\ t.active /\ Retains(r, t.seen, t.url)
           /\ \/ t.role = r
              \/ /\ t.role \notin DOMAIN roles
                 /\ \E a \in aliases : a.from = t.role /\ a.to = r
<1>1. t \in ties /\ t.active /\ Destination(t, aliases, ties) = r
  BY DEF Claimants
<1> DEFINE way == {a \in Holding(aliases, ties) : a.from = t.role}
           ends == IF t.role \in DOMAIN roles THEN {t.role} ELSE {a.to : a \in way}
           sound == {s \in ends : /\ Retains(s, t.seen, t.url)
                                  /\ \A a \in way : a.seen = t.seen /\ a.url = t.url}
<1>2. Destination(t, aliases, ties) = IF sound = {} THEN None ELSE CHOOSE s \in sound : TRUE
  BY DEF Destination
<1>3. way \subseteq aliases /\ \A a \in way : a.from = t.role
  BY DEF Holding
<1>4. r \in sound
  <2> HIDE DEF sound
  <2> QED
    BY <1>1, <1>2
<1>5. r \in ends /\ Retains(r, t.seen, t.url)
  <2> HIDE DEF way, ends
  <2> QED
    BY <1>4
<1>6. \/ t.role = r
      \/ t.role \notin DOMAIN roles /\ \E a \in way : a.to = r
  <2> HIDE DEF way
  <2> QED
    BY <1>5
<1> QED
  BY <1>1, <1>3, <1>5, <1>6

\* Of a role that is not contested, all claimants are one.
LEMMA OneClaimant ==
    ASSUME NEW ties \in SUBSET Ties, NEW aliases, NEW r,
           ~(Cardinality(Claimants(r, aliases, ties)) > 1)
    PROVE  \A t, u \in Claimants(r, aliases, ties) : t = u
<1> DEFINE S == Claimants(r, aliases, ties)
<1> SUFFICES ASSUME NEW t \in S, NEW u \in S, t # u PROVE FALSE
  OBVIOUS
<1>1. S \subseteq Ties
  BY DEF Claimants
<1> HIDE DEF S
<1>2. IsFiniteSet(S) /\ Cardinality(S) \in Nat
  BY <1>1, TiesAreFinite, FS_Subset, FS_CardinalityType
<1>3. IsFiniteSet({t}) /\ Cardinality({t}) = 1
  BY FS_Singleton
<1>4. Cardinality({t} \cup {u}) = 2
  <2>1. u \notin {t}
    OBVIOUS
  <2>2. Cardinality({t} \cup {u}) = Cardinality({t}) + 1
    BY <1>3, <2>1, FS_AddElement, Zenon
  <2> QED
    BY <1>3, <2>2
<1>5. Cardinality({t} \cup {u}) <= Cardinality(S)
  BY <1>2, FS_Subset
<1> QED
  BY <1>2, <1>4, <1>5 DEF S

\* A preview: what acts was selected by it.
LEMMA PreviewKeeps ==
    ASSUME ReviewInv, NEW ties \in SUBSET Ties, NEW aliases, NEW told, NEW given,
           NEW withAliases, Preview(ties, aliases, told, given, withAliases)
    PROVE  ReviewInv'
<1>1. roles' = roles /\ roles' \in Captures
  BY DEF ReviewInv, Preview
<1> DEFINE ways == IF withAliases THEN aliases ELSE {}
           heard(r) == {t \in Claimants(r, ways, ties) : t.scope \in imported'}
<1>2. /\ reviewed' = [ties |-> ties, aliases |-> ways]
      /\ contested' = {r \in DOMAIN roles : Cardinality(Claimants(r, ways, ties)) > 1}
      /\ acting' = [r \in DOMAIN roles |->
           IF heard(r) # {} /\ r \notin contested' THEN (CHOOSE t \in heard(r) : TRUE).scope
           ELSE Cleared[r]]
  BY DEF Preview
<1> HIDE DEF ways
<1>3. reviewed'.ties = ties /\ reviewed'.aliases = ways
  BY <1>2
<1>4. ASSUME NEW r \in DOMAIN roles, acting'[r] # None
      PROVE  /\ \E t \in ties : Selects(t, r)' /\ t.scope = acting'[r]
             /\ \A t \in Claimants(r, ways, ties) : t.scope = acting'[r]
  <2>1. r # None
    BY <1>1, NoneIsNoRole
  <2>2. acting'[r] = IF heard(r) # {} /\ r \notin contested'
                     THEN (CHOOSE t \in heard(r) : TRUE).scope ELSE Cleared[r]
    BY <1>2
  <2>3. Cleared[r] = None
    BY DEF Cleared
  <2>4. heard(r) # {} /\ r \notin contested' /\ acting'[r] = (CHOOSE t \in heard(r) : TRUE).scope
    BY <1>4, <2>2, <2>3
  <2>5. PICK t \in heard(r) : acting'[r] = t.scope
    BY <2>4
  <2>6. ~(Cardinality(Claimants(r, ways, ties)) > 1)
    BY <1>2, <2>4
  <2>7. t \in Claimants(r, ways, ties)
    BY <2>5
  <2>8. \A u \in Claimants(r, ways, ties) : u = t
    BY <2>6, <2>7, OneClaimant
  <2>9. /\ t \in ties /\ t.active /\ Retains(r, t.seen, t.url)
        /\ \/ t.role = r
           \/ /\ t.role \notin DOMAIN roles
              /\ \E a \in ways : a.from = t.role /\ a.to = r
    BY <2>1, <2>7, LeadingSelects
  <2>10. Selects(t, r)'
    BY <1>1, <1>3, <2>9 DEF Selects, Retains
  <2> QED
    BY <2>5, <2>8, <2>9, <2>10
<1>5. \A r : Claimants(r, ways, ties)' = Claimants(r, ways, ties)
  BY <1>1 DEF Claimants, Destination, Holding, Retains, Owners
<1>6. SelectionActs'
  BY <1>1, <1>3, <1>4, <1>5 DEF SelectionActs, Selects
<1> QED
  BY <1>1, <1>6 DEF ReviewInv

\* Every step of reviews.
LEMMA ReviewStep == ReviewInv /\ [ReviewNext]_reviewVars => ReviewInv'
<1> SUFFICES ASSUME ReviewInv, [ReviewNext]_reviewVars PROVE ReviewInv'
  OBVIOUS
<1>1. ASSUME NEW ties \in SUBSET Ties, NEW given, NEW told,
             \/ Preview(ties, {}, told, given, FALSE)
             \/ \E aliases \in SUBSET Renamings : Preview(ties, aliases, told, given, TRUE)
      PROVE  ReviewInv'
  BY <1>1, PreviewKeeps
<1>2. ASSUME NEW snapshot \in Captures, OpenCapture(snapshot) PROVE ReviewInv'
  <2>1. roles' = snapshot /\ acting' = [r \in DOMAIN snapshot |-> None]
    BY <1>2 DEF OpenCapture
  <2> QED
    BY <2>1 DEF ReviewInv, SelectionActs
<1>3. CASE UNCHANGED reviewVars
  <2>1. UNCHANGED <<roles, acting, reviewed>>
    BY <1>3 DEF reviewVars
  <2>2. \A r, seen, url : Retains(r, seen, url)' = Retains(r, seen, url)
    BY <2>1 DEF Retains
  <2>3. \A r : Claimants(r, reviewed.aliases, reviewed.ties)'
                = Claimants(r, reviewed.aliases, reviewed.ties)
    BY <2>1 DEF Claimants, Destination, Holding, Retains, Owners
  <2>4. \A t, r : Selects(t, r)' <=> Selects(t, r)
    BY <2>1, <2>2 DEF Selects
  <2>5. SelectionActs <=> \A r \in DOMAIN roles : acting[r] # None =>
          /\ \E t \in reviewed.ties : Selects(t, r) /\ t.scope = acting[r]
          /\ \A t \in Claimants(r, reviewed.aliases, reviewed.ties) : t.scope = acting[r]
    BY DEF SelectionActs, Selects
  <2>6. SelectionActs' <=> \A r \in DOMAIN roles : acting[r] # None =>
          /\ \E t \in reviewed.ties : Selects(t, r)' /\ t.scope = acting[r]
          /\ \A t \in Claimants(r, reviewed.aliases, reviewed.ties)' : t.scope = acting[r]
    BY <2>1 DEF SelectionActs, Selects
  <2>7. SelectionActs'
    BY <2>3, <2>4, <2>5, <2>6 DEF ReviewInv
  <2> QED
    BY <2>1, <2>7 DEF ReviewInv
<1> QED
  BY <1>1, <1>2, <1>3 DEF ReviewNext

\* Whatever captures, bindings and aliases reviewers write and reuse, an attempt
\* acts on a role only while the last review selects it there, and alone
\* (run_outcome_review, preview_outcomes).
THEOREM OnlySelectionsAct == ReviewSpec => []SelectionActs
<1>1. ReviewInit => ReviewInv
  BY DEF ReviewInit, ReviewInv, SelectionActs
<1>2. ReviewInv => SelectionActs
  BY DEF ReviewInv
<1> QED
  BY <1>1, <1>2, ReviewStep, PTL DEF ReviewSpec
-----------------------------------------------------------------------------
(* The journal of outcomes.  What an import accepts is found by dropping   *)
(* claims in rounds: as many rounds as there are claims reach a set none   *)
(* of whose claims is dropped.                                             *)

\* A set of numbers has a least one; with it a claim about all numbers is
\* proved by looking at the least one it fails for.
LEMMA LeastNumber ==
    ASSUME NEW T \in SUBSET Nat, T # {}
    PROVE  \E x \in T : \A y \in T : x <= y
<1> DEFINE R == {ss \in Nat \X Nat : ss[1] < ss[2]}
<1>1. IsWellFoundedOn(R, Nat)
  BY NatLessThanWellFounded DEF OpToRel
<1>2. \E x \in T : \A y \in T : ~(<<y, x>> \in R)
  <2> HIDE DEF R
  <2> QED
    BY <1>1, WFMin
<1>3. \A x, y \in Nat : ~(<<y, x>> \in R) => x <= y
  <2> SUFFICES ASSUME NEW x \in Nat, NEW y \in Nat, y < x PROVE <<y, x>> \in R
    BY SMT
  <2> DEFINE ss == <<y, x>>
  <2>1. ss \in Nat \X Nat /\ ss[1] = y /\ ss[2] = x
    OBVIOUS
  <2> HIDE DEF ss
  <2>2. ss \in R
    BY <2>1
  <2> QED
    BY <2>2 DEF ss
<1> HIDE DEF R
<1> QED
  BY <1>2, <1>3

\* One round: what does not supersede something that is missing.
StillAnchored(S, known) == {e \in S : Anchored(e, S \union known)}

\* The rounds up to the k-th.
AreRounds(f, pending, known, k) ==
    f = [n \in 0..k |-> IF n = 0 THEN pending ELSE StillAnchored(f[n - 1], known)]

\* There are rounds of any number.
LEMMA RoundsExist ==
    ASSUME NEW pending, NEW known
    PROVE  \A k \in Nat : \E f : AreRounds(f, pending, known, k)
<1> DEFINE Has(k) == \E f : AreRounds(f, pending, known, k)
           Lacks == {k \in Nat : ~Has(k)}
<1>1. Has(0)
  <2>1. AreRounds([n \in 0..0 |-> pending], pending, known, 0)
    BY DEF AreRounds
  <2> QED
    BY <2>1
<1>2. ASSUME NEW k \in Nat, Has(k) PROVE Has(k + 1)
  <2>1. PICK f : AreRounds(f, pending, known, k)
    BY <1>2
  <2> DEFINE g == [n \in 0..(k + 1) |-> IF n = k + 1 THEN StillAnchored(f[k], known) ELSE f[n]]
  <2>2. \A n \in 0..k : f[n] = IF n = 0 THEN pending ELSE StillAnchored(f[n - 1], known)
    BY <2>1 DEF AreRounds
  <2>3. \A n \in 0..k : g[n] = f[n] /\ k + 1 \in 0..(k + 1)
    OBVIOUS
  <2>4. g[k + 1] = StillAnchored(f[k], known)
    OBVIOUS
  <2>5. DOMAIN g = 0..(k + 1) /\ g = [n \in 0..(k + 1) |-> g[n]]
    OBVIOUS
  <2> HIDE DEF g
  <2>6. ASSUME NEW n \in 0..(k + 1)
        PROVE  g[n] = IF n = 0 THEN pending ELSE StillAnchored(g[n - 1], known)
    <3>1. CASE n = k + 1
      <4>1. n # 0 /\ n - 1 = k /\ k \in 0..k
        BY <3>1
      <4>2. g[n - 1] = f[k]
        BY <2>3, <4>1
      <4> QED
        BY <2>4, <3>1, <4>1, <4>2
    <3>2. CASE n \in 0..k
      <4>1. n # 0 => n - 1 \in 0..k
        BY <3>2
      <4> QED
        BY <2>2, <2>3, <3>2, <4>1
    <3> QED
      BY <3>1, <3>2
  <2>7. AreRounds(g, pending, known, k + 1)
    BY <2>5, <2>6 DEF AreRounds
  <2> QED
    BY <2>7
<1> HIDE DEF Has
<1>3. Lacks = {}
  <2> SUFFICES ASSUME Lacks # {} PROVE FALSE
    OBVIOUS
  <2>1. PICK k \in Lacks : \A j \in Lacks : k <= j
    BY LeastNumber
  <2>2. k \in Nat /\ k # 0
    BY <1>1, <2>1
  <2>3. k - 1 \in Nat /\ ~(k <= k - 1)
    BY <2>2
  <2>4. Has(k - 1)
    BY <2>1, <2>3
  <2>5. Has(k)
    BY <1>2, <2>2, <2>3, <2>4
  <2> QED
    BY <2>1, <2>5
<1> QED
  BY <1>3 DEF Has

\* A cascade is the last of its rounds.
LEMMA CascadeIs ==
    ASSUME NEW pending, IsFiniteSet(pending), NEW known
    PROVE  \E f : /\ f[0] = pending
                  /\ \A n \in 1..Cardinality(pending) :
                       f[n] = StillAnchored(f[n - 1], known)
                  /\ Cascade(pending, known) = f[Cardinality(pending)]
<1> DEFINE N == Cardinality(pending)
           f == CHOOSE g : g = [n \in 0..N |-> IF n = 0 THEN pending
                                 ELSE {e \in g[n - 1] : Anchored(e, g[n - 1] \union known)}]
<1>1. N \in Nat
  BY FS_CardinalityType
<1>2. Cascade(pending, known) = f[N]
  BY DEF Cascade
<1>3. \E g : AreRounds(g, pending, known, N)
  BY <1>1, RoundsExist
<1>4. f = [n \in 0..N |-> IF n = 0 THEN pending
                          ELSE {e \in f[n - 1] : Anchored(e, f[n - 1] \union known)}]
  BY <1>3 DEF AreRounds, StillAnchored
<1> HIDE DEF f, N
<1>5. f[0] = pending
  BY <1>1, <1>4
<1>6. \A n \in 1..N : f[n] = StillAnchored(f[n - 1], known)
  <2> TAKE n \in 1..N
  <2>1. n \in 0..N /\ n # 0
    BY <1>1
  <2> QED
    BY <1>4, <2>1 DEF StillAnchored
<1> QED
  BY <1>2, <1>5, <1>6 DEF N

\* Nothing is left to drop after as many rounds as there are claims.
LEMMA CascadeStops ==
    ASSUME NEW pending, IsFiniteSet(pending), NEW known
    PROVE  /\ Cascade(pending, known) \subseteq pending
           /\ \A e \in Cascade(pending, known) :
                Anchored(e, Cascade(pending, known) \union known)
<1> DEFINE N == Cardinality(pending)
<1>1. N \in Nat
  BY FS_CardinalityType
<1>2. PICK f : /\ f[0] = pending
               /\ \A n \in 1..N : f[n] = StillAnchored(f[n - 1], known)
               /\ Cascade(pending, known) = f[N]
  BY CascadeIs
<1> DEFINE Falls(n) == /\ f[n] \subseteq pending
                       /\ \/ f[n] = StillAnchored(f[n], known)
                          \/ Cardinality(f[n]) <= N - n
           Fails == {n \in 0..N : ~Falls(n)}
<1>3. Falls(0)
  BY <1>1, <1>2
<1>4. ASSUME NEW n \in 1..N, Falls(n - 1) PROVE Falls(n)
  <2> DEFINE S == f[n - 1]
             T == f[n]
  <2>1. T = StillAnchored(S, known) /\ S \subseteq pending /\ T \subseteq S
    BY <1>2, <1>4 DEF StillAnchored
  <2>2. CASE S = StillAnchored(S, known)
    BY <2>1, <2>2
  <2>3. CASE S # StillAnchored(S, known)
    <3>1. Cardinality(S) <= N - (n - 1)
      BY <1>4, <2>3
    <3> HIDE DEF S, T
    <3>2. IsFiniteSet(S)
      BY <2>1, FS_Subset
    <3>3. IsFiniteSet(T) /\ Cardinality(T) <= Cardinality(S)
          /\ (Cardinality(S) = Cardinality(T) => S = T)
      BY <2>1, <3>2, FS_Subset
    <3>4. S # T
      BY <2>1, <2>3
    <3>5. Cardinality(S) \in Nat /\ Cardinality(T) \in Nat
      BY <3>2, <3>3, FS_CardinalityType
    <3>6. Cardinality(T) <= N - n
      BY <1>1, <3>1, <3>3, <3>4, <3>5
    <3> QED
      BY <2>1, <3>6 DEF T
  <2> QED
    BY <2>2, <2>3
<1> HIDE DEF Falls
<1>5. Fails = {}
  <2> SUFFICES ASSUME Fails # {} PROVE FALSE
    OBVIOUS
  <2>1. Fails \subseteq Nat
    BY <1>1
  <2>2. PICK n \in Fails : \A m \in Fails : n <= m
    BY <2>1, LeastNumber
  <2>3. n \in 1..N /\ n - 1 \in 0..N /\ ~(n <= n - 1)
    BY <1>1, <1>3, <2>2
  <2>4. Falls(n - 1)
    BY <2>2, <2>3
  <2> QED
    BY <1>4, <2>2, <2>3, <2>4
<1>6. Falls(N)
  BY <1>1, <1>5
<1>7. f[N] \subseteq pending /\ f[N] = StillAnchored(f[N], known)
  <2>1. f[N] \subseteq pending
    BY <1>6 DEF Falls
  <2>2. CASE Cardinality(f[N]) <= N - N
    <3>1. IsFiniteSet(f[N])
      BY <2>1, FS_Subset
    <3>2. Cardinality(f[N]) = 0
      BY <1>1, <2>2, <3>1, FS_CardinalityType
    <3>3. f[N] = {}
      BY <3>1, <3>2, FS_EmptySet
    <3> QED
      BY <2>1, <3>3 DEF StillAnchored
  <2> QED
    BY <1>6, <2>1, <2>2 DEF Falls
<1> QED
  BY <1>2, <1>7 DEF StillAnchored

\* Nothing is dropped where nothing is missing.
LEMMA CascadeSpares ==
    ASSUME NEW pending, IsFiniteSet(pending), NEW known,
           \A e \in pending : Anchored(e, pending \union known)
    PROVE  Cascade(pending, known) = pending
<1> DEFINE N == Cardinality(pending)
<1>1. N \in Nat
  BY FS_CardinalityType
<1>2. PICK f : /\ f[0] = pending
               /\ \A n \in 1..N : f[n] = StillAnchored(f[n - 1], known)
               /\ Cascade(pending, known) = f[N]
  BY CascadeIs
<1>3. StillAnchored(pending, known) = pending
  BY DEF StillAnchored
<1> DEFINE Fails == {n \in 0..N : f[n] # pending}
<1>4. Fails = {}
  <2> SUFFICES ASSUME Fails # {} PROVE FALSE
    OBVIOUS
  <2>1. Fails \subseteq Nat
    BY <1>1
  <2>2. PICK n \in Fails : \A m \in Fails : n <= m
    BY <2>1, LeastNumber
  <2>3. n \in 1..N /\ n - 1 \in 0..N /\ ~(n <= n - 1)
    BY <1>1, <1>2, <2>2
  <2>4. f[n - 1] = pending
    BY <2>2, <2>3
  <2> QED
    BY <1>2, <1>3, <2>2, <2>3, <2>4
<1> QED
  BY <1>1, <1>2, <1>4
\* Every claim of the journal is one that an import may still accept, its id
\* is its own, and what it supersedes is in the journal too.
JournalInv ==
    /\ journal \subseteq Claims /\ asOf \in Int
    /\ \A e, o \in journal : e.id = o.id => e = o
    /\ \A e \in journal : Admissible(e, asOf) /\ Anchored(e, journal)

\* What a batch brings: claims of its own, that are admissible, with new ids,
\* and anchored in the journal or in each other.
LEMMA AcceptedClaims ==
    ASSUME NEW batch \in SUBSET Claims, NEW known, NEW now
    PROVE  /\ Accepted(batch, known, now) \subseteq batch
           /\ \A e \in Accepted(batch, known, now) :
                /\ Admissible(e, now)
                /\ \A o \in Accepted(batch, known, now) : o.id = e.id => o = e
                /\ \A o \in known : o.id # e.id
                /\ Anchored(e, Accepted(batch, known, now) \union known)
<1> DEFINE C == Candidate({e \in batch : Admissible(e, now)}, known)
           A == Accepted(batch, known, now)
<1>1. C \subseteq batch /\ C \subseteq {e \in batch : Admissible(e, now)}
  BY DEF Candidate
<1>2. IsFiniteSet(C)
  BY <1>1, ClaimsDated, FS_Subset
<1>3. \A e \in C : /\ \A o \in C : o.id = e.id => o = e
                   /\ \A o \in known : o.id # e.id
  BY DEF Candidate
<1>4. A = Cascade(C, known)
  BY DEF Accepted
<1> HIDE DEF C, A
<1>5. A \subseteq C /\ \A e \in A : Anchored(e, A \union known)
  BY <1>2, <1>4, CascadeStops
<1> QED
  BY <1>1, <1>3, <1>5 DEF A

\* A claim stays anchored when claims are added.
LEMMA AnchoredGrows ==
    ASSUME NEW S, NEW T, S \subseteq T, NEW e, Anchored(e, S)
    PROVE  Anchored(e, T)
BY DEF Anchored

\* A claim stays admissible as time passes.
LEMMA AdmissibleLater ==
    ASSUME NEW e \in Claims, NEW now \in Int, Admissible(e, now)
    PROVE  Admissible(e, now + 1)
<1>1. e.observed \in Int /\ (e.event # None => e.event \in Int)
  BY ClaimsDated
<1>2. e.observed <= now /\ (e.event # None => e.event <= now)
  BY DEF Admissible
<1> QED
  BY <1>1, <1>2 DEF Admissible

\* Every step keeps the journal so.
LEMMA JournalStep == JournalInv /\ [OutcomeNext]_outcomeVars => JournalInv'
<1> SUFFICES ASSUME JournalInv, [OutcomeNext]_outcomeVars PROVE JournalInv'
  OBVIOUS
<1>1. ASSUME NEW batch \in SUBSET Claims, Import(batch) PROVE JournalInv'
  <2> DEFINE A == Accepted(batch, journal, asOf)
  <2>1. journal' = journal \union A /\ asOf' = asOf
    BY <1>1 DEF Import
  <2>2. A \subseteq batch
    BY AcceptedClaims
  <2>3. \A e \in A : /\ Admissible(e, asOf)
                     /\ \A o \in A : o.id = e.id => o = e
                     /\ \A o \in journal : o.id # e.id
                     /\ Anchored(e, A \union journal)
    BY AcceptedClaims
  <2> HIDE DEF A
  <2>4. journal' \subseteq Claims /\ asOf' \in Int
    BY <2>1, <2>2 DEF JournalInv
  <2>5. \A e, o \in journal' : e.id = o.id => e = o
    BY <2>1, <2>3 DEF JournalInv
  <2>6. \A e \in journal' : Admissible(e, asOf')
    BY <2>1, <2>3 DEF JournalInv
  <2>7. \A e \in journal' : Anchored(e, journal')
    BY <2>1, <2>3, AnchoredGrows DEF JournalInv
  <2>8. \A e \in journal' : Admissible(e, asOf)' /\ Anchored(e, journal)'
    BY <2>6, <2>7 DEF Admissible, Supported, Anchored
  <2> QED
    BY <2>4, <2>5, <2>8 DEF JournalInv
<1>2. CASE Later
  <2>1. journal' = journal /\ asOf' = asOf + 1
    BY <1>2 DEF Later
  <2>2. \A e \in journal : Admissible(e, asOf')
    BY <2>1, AdmissibleLater DEF JournalInv
  <2>3. \A e \in journal' : Admissible(e, asOf)' /\ Anchored(e, journal)'
    BY <2>1, <2>2 DEF Admissible, Supported, Anchored, JournalInv
  <2> QED
    BY <2>1, <2>3 DEF JournalInv
<1>3. CASE UNCHANGED outcomeVars
  BY <1>3 DEF outcomeVars, JournalInv, Admissible, Supported, Anchored
<1> QED
  BY <1>1, <1>2, <1>3 DEF OutcomeNext, ImportBatch

\* Imported again into nothing, the journal is accepted whole.
LEMMA JournalReimports == JournalInv => ReimportIsStable
<1> SUFFICES ASSUME JournalInv PROVE ReimportIsStable
  OBVIOUS
<1>1. {e \in journal : Admissible(e, asOf)} = journal
  BY DEF JournalInv
<1>2. Candidate(journal, {}) = journal
  BY DEF Candidate, JournalInv
<1>3. IsFiniteSet(journal)
  BY ClaimsDated, FS_Subset DEF JournalInv
<1>4. \A e \in journal : Anchored(e, journal \union {})
  BY DEF JournalInv
<1>5. Cascade(journal, {}) = journal
  BY <1>3, <1>4, CascadeSpares
<1> QED
  BY <1>1, <1>2, <1>5 DEF ReimportIsStable, Revalidates, Accepted

\* What removes a rejection from what stands names it, and came later.
LEMMA JournalReopens == JournalInv => ReopeningNeedsLink
<1> SUFFICES ASSUME JournalInv, NEW s \in BoundScopes,
                    NEW e \in FactsOf(s, "application_state"),
                    Terminal(e), e \notin Current(s, "application_state")
             PROVE  \E new \in journal :
                      e.id \in new.supersedes /\ new.scope = s /\ new.observed > e.observed
  BY DEF ReopeningNeedsLink
<1>1. e \in journal /\ e.scope = s
  BY DEF FactsOf
<1>2. PICK new \in journal : e.id \in new.supersedes
  BY DEF Current, Superseded, Outdated, FactsOf
<1>3. PICK old \in journal : old.id = e.id /\ MaySupersede(new, old)
  BY <1>2 DEF JournalInv, Anchored
<1>4. old = e
  BY <1>1, <1>3 DEF JournalInv
<1> QED
  BY <1>1, <1>2, <1>3, <1>4 DEF MaySupersede

\* The journal is importable again at any later time, and a closed
\* application reopens by a claim that names what closed it
\* (v41/outcomes.py, import_outcomes and project_outcomes).
THEOREM JournalStands == OutcomeSpec => []JournalIsStable
<1>1. OutcomeInit => JournalInv
  BY DEF OutcomeInit, JournalInv
<1>2. JournalInv => JournalIsStable
  BY JournalReimports, JournalReopens DEF JournalIsStable
<1> QED
  BY <1>1, <1>2, JournalStep, PTL DEF OutcomeSpec
-----------------------------------------------------------------------------
(* The trust a story moves.  An account is kept of the processes that hold *)
(* a story: those that have not written its incident yet, each of which    *)
(* may still move the trust, and those that have, and must remember it.    *)

\* What the steps look at of a process: where it is, its job, the platform it
\* is about and the articles of the incident.
ClerkFields == {"at", "job", "on", "event", "deltas", "copy", "queue", "news"}

\* An incident is about a platform that its articles name.
WellHeld(place, task, about, held) ==
    /\ place \in {"idle", "sweep"} => task = None
    /\ task = "incident" => \A x \in held : x \in DOMAIN Articles /\ about \in Articles[x].names

TrustShape ==
    /\ DOMAIN clerk = Clerks
    /\ \A c \in Clerks :
         /\ DOMAIN clerk[c] = ClerkFields
         /\ WellHeld(clerk[c].at, clerk[c].job, clerk[c].on, clerk[c].news)
    /\ DOMAIN incidentRows = DOMAIN Articles
    /\ \A x \in DOMAIN Articles : incidentRows[x] \in {None} \union Articles[x].names
    /\ fired \in [Keys -> [DOMAIN Articles -> Nat]]
    /\ crashes \in Nat /\ overlaps \in Nat

SweepsAs(place, task) == place # "idle" /\ task \notin {"feedback", "review", "decay"}
MayFire(place, task, held, a) == task = "incident" /\ place \in {"load", "save", "write"} /\ a \in held
HasFired(place, task, held, a) == task = "incident" /\ place = "saved" /\ a \in held

Sweepers == {c \in Clerks : SweepsAs(clerk[c].at, clerk[c].job)}
Unwritten(a) == {c \in Clerks : MayFire(clerk[c].at, clerk[c].job, clerk[c].news, a)}
Written(a) == {c \in Clerks : HasFired(clerk[c].at, clerk[c].job, clerk[c].news, a)}

\* A story that is not remembered moved the trust once for each process that
\* is about to remember it, and for crashes; those that may still move it are
\* sweepers like these, and of sweepers there are as many as overlaps allow.
StoryAccount(p, a) ==
    /\ fired[p][a] + Cardinality(Unwritten(a)) <= 1 + crashes + overlaps
    /\ incidentRows[a] # p => fired[p][a] <= Cardinality(Written(a)) + crashes

TrustInv ==
    /\ TrustShape
    /\ Cardinality(Sweepers) <= 1 + overlaps
    /\ \A p \in Keys, a \in DOMAIN Articles : Articles[a].names = {p} => StoryAccount(p, a)

\* What a step makes of the process that takes it; the others stay.
Becomes(c, place, task, about, held) ==
    /\ DOMAIN clerk' = Clerks
    /\ \A o \in Clerks \ {c} : clerk'[o] = clerk[o]
    /\ DOMAIN clerk'[c] = ClerkFields
    /\ clerk'[c].at = place /\ clerk'[c].job = task
    /\ clerk'[c].on = about /\ clerk'[c].news = held

\* A step that replaces what a process holds.
LEMMA Replaced ==
    ASSUME TrustShape, NEW c \in Clerks, NEW r, DOMAIN r = ClerkFields,
           clerk' = [clerk EXCEPT ![c] = r]
    PROVE  Becomes(c, r.at, r.job, r.on, r.news)
<1>1. DOMAIN clerk = Clerks
  BY DEF TrustShape
<1>2. DOMAIN clerk' = Clerks /\ clerk'[c] = r
      /\ \A o \in Clerks \ {c} : clerk'[o] = clerk[o]
  BY <1>1
<1> QED
  BY <1>2 DEF Becomes

\* The process is idle again.
LEMMA Rests ==
    ASSUME TrustShape, NEW c \in Clerks, clerk' = [clerk EXCEPT ![c] = AtHand]
    PROVE  Becomes(c, "idle", None, None, {})
<1>1. /\ DOMAIN AtHand = ClerkFields
      /\ AtHand.at = "idle" /\ AtHand.job = None /\ AtHand.on = None /\ AtHand.news = {}
  BY DEF AtHand, ClerkFields
<1> QED
  BY <1>1, Replaced

\* The process goes on to sweep.
LEMMA Sweeps ==
    ASSUME TrustShape, NEW c \in Clerks, NEW known,
           clerk' = [clerk EXCEPT ![c] = ToSweep(known)]
    PROVE  Becomes(c, "sweep", None, None, {})
<1> DEFINE r == ToSweep(known)
<1>1. /\ DOMAIN r = ClerkFields
      /\ r.at = "sweep" /\ r.job = None /\ r.on = None /\ r.news = {}
  BY DEF ToSweep, AtHand, ClerkFields
<1>2. clerk' = [clerk EXCEPT ![c] = r]
  OBVIOUS
<1> HIDE DEF r
<1> QED
  BY <1>1, <1>2, Replaced

\* The commands begin.
LEMMA BeginsFeedback ==
    ASSUME TrustShape, NEW c \in Clerks, BeginFeedback(c)
    PROVE  /\ clerk[c].at = "idle"
           /\ \/ Becomes(c, "idle", None, None, {})
              \/ \E about : Becomes(c, "load", "feedback", about, {})
<1>1. PICK q \in Keys, e \in Outcomes :
        LET deltas == EventDeltas(e, feedbackRows[q][e]) IN
        IF DOMAIN deltas = {}
        THEN Begin(c, AtHand)
        ELSE Begin(c, [AtHand EXCEPT !.at = "load", !.job = "feedback",
                                     !.on = q, !.event = e, !.deltas = deltas])
  BY DEF BeginFeedback
<1> DEFINE deltas == EventDeltas(e, feedbackRows[q][e])
           r == [AtHand EXCEPT !.at = "load", !.job = "feedback",
                               !.on = q, !.event = e, !.deltas = deltas]
<1>2. Begin(c, AtHand) \/ Begin(c, r)
  BY <1>1
<1>3. DOMAIN r = ClerkFields /\ r.at = "load" /\ r.job = "feedback" /\ r.news = {}
  <2> HIDE DEF deltas
  <2> QED
    BY DEF AtHand, ClerkFields
<1> HIDE DEF r
<1>4. CASE Begin(c, AtHand)
  BY <1>4, Rests DEF Begin
<1>5. CASE Begin(c, r)
  <2>1. Becomes(c, "load", "feedback", r.on, {})
    BY <1>3, <1>5, Replaced DEF Begin
  <2> QED
    BY <1>5, <2>1 DEF Begin
<1> QED
  BY <1>2, <1>4, <1>5

LEMMA BeginsReview ==
    ASSUME TrustShape, NEW c \in Clerks, BeginReview(c)
    PROVE  /\ clerk[c].at = "idle"
           /\ \E about : Becomes(c, "load", "review", about, {})
<1>1. PICK q \in Keys, rating \in {-ReviewCap, ReviewCap} :
        Begin(c, [AtHand EXCEPT !.at = "load", !.job = "review", !.on = q,
                                !.deltas = [d \in Dims |-> rating]])
  BY DEF BeginReview
<1> DEFINE deltas == [d \in Dims |-> rating]
           r == [AtHand EXCEPT !.at = "load", !.job = "review", !.on = q, !.deltas = deltas]
<1>2. DOMAIN r = ClerkFields /\ r.at = "load" /\ r.job = "review" /\ r.news = {}
  <2> HIDE DEF deltas
  <2> QED
    BY DEF AtHand, ClerkFields
<1>3. Begin(c, r)
  BY <1>1
<1> HIDE DEF r
<1>4. Becomes(c, "load", "review", r.on, {})
  BY <1>2, <1>3, Replaced DEF Begin
<1> QED
  BY <1>3, <1>4 DEF Begin

LEMMA BeginsMaintenance ==
    ASSUME TrustShape, NEW c \in Clerks, BeginMaintenance(c)
    PROVE  /\ clerk[c].at = "idle"
           /\ \/ Becomes(c, "idle", None, None, {}) /\ overlaps' = overlaps
              \/ \E about : Becomes(c, "save", "decay", about, {}) /\ overlaps' = overlaps
              \/ Becomes(c, "sweep", None, None, {}) /\ CountOverlap(c)
<1> DEFINE r == [AtHand EXCEPT !.at = "save", !.job = "decay", !.copy = Decayed(registry)]
<1>1. \/ Begin(c, AtHand) /\ overlaps' = overlaps
      \/ Begin(c, r) /\ overlaps' = overlaps
      \/ (\E known \in Known : Begin(c, ToSweep(known))) /\ CountOverlap(c)
  BY DEF BeginMaintenance
<1>2. DOMAIN r = ClerkFields /\ r.at = "save" /\ r.job = "decay" /\ r.news = {}
  BY DEF AtHand, ClerkFields
<1> HIDE DEF r
<1>3. CASE Begin(c, AtHand) /\ overlaps' = overlaps
  BY <1>3, Rests DEF Begin
<1>4. CASE Begin(c, r) /\ overlaps' = overlaps
  <2>1. Becomes(c, "save", "decay", r.on, {})
    BY <1>2, <1>4, Replaced DEF Begin
  <2> QED
    BY <1>4, <2>1 DEF Begin
<1>5. CASE (\E known \in Known : Begin(c, ToSweep(known))) /\ CountOverlap(c)
  BY <1>5, Sweeps DEF Begin
<1> QED
  BY <1>1, <1>3, <1>4, <1>5

\* The other steps.
LEMMA Loads ==
    ASSUME TrustShape, NEW c \in Clerks, Load(c)
    PROVE  /\ clerk[c].at = "load"
           /\ \/ Becomes(c, "idle", None, None, {})
              \/ Becomes(c, "save", clerk[c].job, clerk[c].on, clerk[c].news)
<1> DEFINE copy == [registry EXCEPT ![clerk[c].on] = Amended(@, clerk[c].deltas)]
           r == [clerk[c] EXCEPT !.at = "save", !.copy = copy]
<1>1. clerk' = [clerk EXCEPT ![c] = AtHand] \/ clerk' = [clerk EXCEPT ![c] = r]
  BY DEF Load
<1>2. DOMAIN clerk[c] = ClerkFields
  BY DEF TrustShape
<1>3. /\ DOMAIN r = ClerkFields /\ r.at = "save" /\ r.job = clerk[c].job
      /\ r.on = clerk[c].on /\ r.news = clerk[c].news
  <2> HIDE DEF copy
  <2> QED
    BY <1>2 DEF ClerkFields
<1> HIDE DEF r
<1>4. CASE clerk' = [clerk EXCEPT ![c] = r]
  <2>1. Becomes(c, r.at, r.job, r.on, r.news)
    BY <1>3, <1>4, Replaced
  <2> QED
    BY <1>3, <2>1 DEF Load
<1> QED
  BY <1>1, <1>4, Rests DEF Load

LEMMA Opens ==
    ASSUME TrustShape, NEW c \in Clerks, OpenRegistry(c)
    PROVE  /\ clerk[c].at = "save"
           /\ Becomes(c, "write", clerk[c].job, clerk[c].on, clerk[c].news)
<1> DEFINE r == [clerk[c] EXCEPT !.at = "write"]
<1>1. clerk' = [clerk EXCEPT ![c] = r]
  BY DEF OpenRegistry
<1>2. DOMAIN clerk[c] = ClerkFields
  BY DEF TrustShape
<1>3. /\ DOMAIN r = ClerkFields /\ r.at = "write" /\ r.job = clerk[c].job
      /\ r.on = clerk[c].on /\ r.news = clerk[c].news
  BY <1>2 DEF ClerkFields
<1> HIDE DEF r
<1>4. Becomes(c, "write", clerk[c].job, clerk[c].on, clerk[c].news)
  BY <1>1, <1>3, Replaced
<1> QED
  BY <1>4 DEF OpenRegistry

LEMMA Writes ==
    ASSUME TrustShape, NEW c \in Clerks, WriteRegistry(c)
    PROVE  /\ clerk[c].at = "write"
           /\ Becomes(c, "saved", clerk[c].job, clerk[c].on, clerk[c].news)
<1> DEFINE r == [clerk[c] EXCEPT !.at = "saved", !.copy = Torn, !.deltas = <<>>]
<1>1. clerk' = [clerk EXCEPT ![c].at = "saved", ![c].copy = Torn, ![c].deltas = <<>>]
  BY DEF WriteRegistry
<1>2. DOMAIN clerk[c] = ClerkFields /\ DOMAIN clerk = Clerks
  BY DEF TrustShape
<1>3. /\ DOMAIN clerk' = Clerks /\ \A o \in Clerks \ {c} : clerk'[o] = clerk[o]
      /\ clerk'[c] = r
  BY <1>1, <1>2
<1>4. /\ DOMAIN r = ClerkFields /\ r.at = "saved" /\ r.job = clerk[c].job
      /\ r.on = clerk[c].on /\ r.news = clerk[c].news
  BY <1>2 DEF ClerkFields
<1> HIDE DEF r
<1>5. Becomes(c, "saved", clerk[c].job, clerk[c].on, clerk[c].news)
  BY <1>3, <1>4 DEF Becomes
<1> QED
  BY <1>5 DEF WriteRegistry

LEMMA Continues ==
    ASSUME TrustShape, NEW c \in Clerks, Continue(c)
    PROVE  /\ clerk[c].at = "saved" /\ clerk[c].job # "incident"
           /\ \/ Becomes(c, "idle", None, None, {}) /\ overlaps' = overlaps
              \/ /\ clerk[c].job = "decay"
                 /\ Becomes(c, "sweep", None, None, {}) /\ CountOverlap(c)
<1>1. \/ clerk' = [clerk EXCEPT ![c] = AtHand] /\ overlaps' = overlaps
      \/ /\ clerk[c].job = "decay"
         /\ \E known \in Known : clerk' = [clerk EXCEPT ![c] = ToSweep(known)]
         /\ CountOverlap(c)
  BY DEF Continue
<1> QED
  BY <1>1, Rests, Sweeps DEF Continue

\* What a search finds is news of a platform that its articles name.
LEMMA Searches ==
    ASSUME TrustShape, NEW c \in Clerks, SearchNews(c)
    PROVE  /\ clerk[c].at = "sweep"
           /\ \/ Becomes(c, "sweep", clerk[c].job, clerk[c].on, clerk[c].news)
              \/ \E q, held : /\ Becomes(c, "load", "incident", q, held)
                              /\ \A x \in held : /\ x \in DOMAIN Articles
                                                 /\ q \in Articles[x].names
                                                 /\ incidentRows[x] # q
<1>1. DOMAIN clerk[c] = ClerkFields /\ DOMAIN clerk = Clerks
  BY DEF TrustShape
<1>2. PICK found \in SUBSET {a \in DOMAIN Articles : Articles[a].published <= week} :
        LET q == Head(clerk[c].queue) IN
        \/ clerk' = [clerk EXCEPT ![c].queue = Tail(@)]
        \/ \E d \in Incidents(q, found) :
             clerk' = [clerk EXCEPT ![c] =
               [@ EXCEPT !.at = "load", !.job = "incident", !.on = q,
                         !.queue = Tail(clerk[c].queue), !.deltas = [o \in {d} |-> -IncidentLoss],
                         !.news = OfDim(Matching(q, found), d)]]
  BY DEF SearchNews
<1> DEFINE q == Head(clerk[c].queue)
<1>3. CASE clerk' = [clerk EXCEPT ![c].queue = Tail(@)]
  <2> DEFINE rest == Tail(clerk[c].queue)
             r == [clerk[c] EXCEPT !.queue = rest]
  <2>1. clerk' = [clerk EXCEPT ![c] = r]
    BY <1>1, <1>3
  <2>2. /\ DOMAIN r = ClerkFields /\ r.at = clerk[c].at /\ r.job = clerk[c].job
        /\ r.on = clerk[c].on /\ r.news = clerk[c].news
    <3> HIDE DEF rest
    <3> QED
      BY <1>1 DEF ClerkFields
  <2> HIDE DEF r
  <2>3. Becomes(c, clerk[c].at, clerk[c].job, clerk[c].on, clerk[c].news)
    BY <2>1, <2>2, Replaced
  <2> QED
    BY <2>3 DEF SearchNews
<1>4. CASE \E d \in Incidents(q, found) :
             clerk' = [clerk EXCEPT ![c] =
               [@ EXCEPT !.at = "load", !.job = "incident", !.on = q,
                         !.queue = Tail(clerk[c].queue), !.deltas = [o \in {d} |-> -IncidentLoss],
                         !.news = OfDim(Matching(q, found), d)]]
  <2>1. PICK d :
             clerk' = [clerk EXCEPT ![c] =
               [@ EXCEPT !.at = "load", !.job = "incident", !.on = q,
                         !.queue = Tail(clerk[c].queue), !.deltas = [o \in {d} |-> -IncidentLoss],
                         !.news = OfDim(Matching(q, found), d)]]
    BY <1>4
  <2> DEFINE rest == Tail(clerk[c].queue)
             loss == [o \in {d} |-> -IncidentLoss]
             held == OfDim(Matching(q, found), d)
             r == [clerk[c] EXCEPT !.at = "load", !.job = "incident", !.on = q,
                                   !.queue = rest, !.deltas = loss, !.news = held]
  <2>2. clerk' = [clerk EXCEPT ![c] = r]
    BY <2>1
  <2>3. \A x \in held : x \in DOMAIN Articles /\ q \in Articles[x].names /\ incidentRows[x] # q
    BY DEF OfDim, Matching, Seen
  <2> HIDE DEF q, rest, loss, held
  <2>4. /\ DOMAIN r = ClerkFields /\ r.at = "load" /\ r.job = "incident"
        /\ r.on = q /\ r.news = held
    BY <1>1 DEF ClerkFields
  <2> HIDE DEF r
  <2>5. Becomes(c, "load", "incident", q, held)
    BY <2>2, <2>4, Replaced
  <2> QED
    BY <2>3, <2>5 DEF SearchNews
<1> QED
  BY <1>2, <1>3, <1>4

LEMMA Remembers ==
    ASSUME TrustShape, NEW c \in Clerks, Remember(c)
    PROVE  /\ clerk[c].at = "saved" /\ clerk[c].job = "incident"
           /\ \E x \in clerk[c].news :
                /\ Becomes(c, "saved", "incident", clerk[c].on, clerk[c].news \ {x})
                /\ incidentRows' = [incidentRows EXCEPT ![x] =
                                      IF @ = None THEN clerk[c].on ELSE @]
<1>1. DOMAIN clerk[c] = ClerkFields /\ DOMAIN clerk = Clerks
  BY DEF TrustShape
<1>2. clerk[c].at = "saved" /\ clerk[c].job = "incident"
  BY DEF Remember
<1>3. PICK x \in clerk[c].news :
        /\ incidentRows' = [incidentRows EXCEPT ![x] = IF @ = None THEN clerk[c].on ELSE @]
        /\ clerk' = [clerk EXCEPT ![c].news = @ \ {x}]
  BY DEF Remember
<1> DEFINE held == clerk[c].news \ {x}
           r == [clerk[c] EXCEPT !.news = held]
<1>4. clerk' = [clerk EXCEPT ![c] = r]
  BY <1>1, <1>3
<1>5. /\ DOMAIN r = ClerkFields /\ r.at = clerk[c].at /\ r.job = clerk[c].job
      /\ r.on = clerk[c].on /\ r.news = held
  <2> HIDE DEF held
  <2> QED
    BY <1>1 DEF ClerkFields
<1> HIDE DEF r
<1>6. Becomes(c, clerk[c].at, clerk[c].job, clerk[c].on, held)
  BY <1>4, <1>5, Replaced
<1> QED
  BY <1>2, <1>3, <1>6

\* Counting processes.
LEMMA SizeOf ==
    ASSUME NEW S \in SUBSET Clerks
    PROVE  IsFiniteSet(S) /\ Cardinality(S) \in Nat
BY ClerksAreFew, FS_Subset, FS_CardinalityType

LEMMA SizeOfPart ==
    ASSUME NEW S \in SUBSET Clerks, NEW T \in SUBSET S
    PROVE  /\ Cardinality(T) \in Nat /\ Cardinality(S) \in Nat
           /\ Cardinality(T) <= Cardinality(S)
<1>1. T \in SUBSET Clerks
  OBVIOUS
<1> QED
  BY <1>1, SizeOf, FS_Subset

LEMMA SizeWith ==
    ASSUME NEW S \in SUBSET Clerks, NEW c \in Clerks, c \notin S
    PROVE  Cardinality(S \union {c}) = Cardinality(S) + 1
BY SizeOf, FS_AddElement

LEMMA SizeWithout ==
    ASSUME NEW S \in SUBSET Clerks, NEW c \in S
    PROVE  Cardinality(S \ {c}) = Cardinality(S) - 1
BY SizeOf, FS_RemoveElement

\* Only the process that takes a step joins or leaves a set of them.
LEMMA SweepersBecome ==
    ASSUME TrustShape, NEW c \in Clerks, NEW place, NEW task, NEW about, NEW held,
           Becomes(c, place, task, about, held)
    PROVE  Sweepers' = IF SweepsAs(place, task) THEN Sweepers \union {c} ELSE Sweepers \ {c}
BY DEF Becomes, Sweepers

LEMMA UnwrittenBecome ==
    ASSUME TrustShape, NEW c \in Clerks, NEW place, NEW task, NEW about, NEW held, NEW a,
           Becomes(c, place, task, about, held)
    PROVE  Unwritten(a)' = IF MayFire(place, task, held, a)
                           THEN Unwritten(a) \union {c} ELSE Unwritten(a) \ {c}
BY DEF Becomes, Unwritten

LEMMA WrittenBecome ==
    ASSUME TrustShape, NEW c \in Clerks, NEW place, NEW task, NEW about, NEW held, NEW a,
           Becomes(c, place, task, about, held)
    PROVE  Written(a)' = IF HasFired(place, task, held, a)
                         THEN Written(a) \union {c} ELSE Written(a) \ {c}
BY DEF Becomes, Written

\* The shape is kept where the process is left well.
LEMMA ShapeKept ==
    ASSUME TrustShape, NEW c \in Clerks, NEW place, NEW task, NEW about, NEW held,
           Becomes(c, place, task, about, held), WellHeld(place, task, about, held),
           DOMAIN incidentRows' = DOMAIN Articles,
           \A x \in DOMAIN Articles : incidentRows'[x] \in {None} \union Articles[x].names,
           fired' \in [Keys -> [DOMAIN Articles -> Nat]],
           crashes' \in Nat, overlaps' \in Nat
    PROVE  TrustShape'
<1>1. DOMAIN clerk' = Clerks
  BY DEF Becomes
<1>2. ASSUME NEW o \in Clerks
      PROVE  DOMAIN clerk'[o] = ClerkFields
             /\ WellHeld(clerk'[o].at, clerk'[o].job, clerk'[o].on, clerk'[o].news)
  <2>1. CASE o = c
    BY <2>1 DEF Becomes
  <2>2. CASE o # c
    <3>1. clerk'[o] = clerk[o]
      BY <2>2 DEF Becomes
    <3> QED
      BY <3>1 DEF TrustShape
  <2> QED
    BY <2>1, <2>2
<1> QED
  BY <1>1, <1>2 DEF TrustShape

\* A step that fires nothing, remembers nothing and finds nothing keeps the
\* account: the holders that have not written stay or leave, those that have
\* stay, and a sweep begins as the overlap is counted.
LEMMA QuietStep ==
    ASSUME TrustInv, NEW c \in Clerks, NEW place, NEW task, NEW about, NEW held,
           Becomes(c, place, task, about, held), WellHeld(place, task, about, held),
           incidentRows' = incidentRows, fired' = fired, crashes' = crashes,
           \/ overlaps' = overlaps /\ (SweepsAs(place, task) => c \in Sweepers)
           \/ CountOverlap(c) /\ c \notin Sweepers,
           \A a : MayFire(place, task, held, a) => c \in Unwritten(a),
           \A a : c \in Written(a) => HasFired(place, task, held, a)
    PROVE  TrustInv'
<1>1. /\ TrustShape /\ Cardinality(Sweepers) <= 1 + overlaps
      /\ \A p \in Keys, a \in DOMAIN Articles : Articles[a].names = {p} => StoryAccount(p, a)
  BY DEF TrustInv
<1>2. overlaps \in Nat /\ crashes \in Nat /\ overlaps' \in Nat /\ overlaps <= overlaps'
  BY <1>1 DEF TrustShape, CountOverlap
<1>3. TrustShape'
  BY <1>1, <1>2, ShapeKept DEF TrustShape
<1>4. Cardinality(Sweepers') <= 1 + overlaps'
  <2> DEFINE S == Sweepers
             T == Sweepers'
  <2>1. S \in SUBSET Clerks
    BY DEF Sweepers
  <2>2. T = IF SweepsAs(place, task) THEN S \union {c} ELSE S \ {c}
    BY <1>1, SweepersBecome
  <2>3. Cardinality(S) <= 1 + overlaps
    BY <1>1
  <2>4. CASE overlaps' = overlaps /\ (SweepsAs(place, task) => c \in S)
    <3> HIDE DEF S, T
    <3>1. T \in SUBSET S
      BY <2>2, <2>4
    <3> QED
      BY <1>2, <2>1, <2>3, <2>4, <3>1, SizeOfPart DEF T
  <2>5. CASE CountOverlap(c) /\ c \notin S
    <3>1. (\E o \in S : TRUE) => overlaps' = overlaps + 1
      BY <1>2, <2>5 DEF CountOverlap, Sweeping, Sweepers, SweepsAs
    <3> HIDE DEF S, T
    <3>2. T \in SUBSET (S \union {c}) /\ S \union {c} \in SUBSET Clerks
      BY <2>1, <2>2
    <3>3. Cardinality(T) \in Nat /\ Cardinality(S \union {c}) \in Nat
          /\ Cardinality(T) <= Cardinality(S \union {c})
      BY <3>2, SizeOfPart
    <3>4. Cardinality(S \union {c}) = Cardinality(S) + 1 /\ Cardinality(S) \in Nat
      BY <2>1, <2>5, SizeWith, SizeOf
    <3>5. CASE S = {}
      <4>1. Cardinality(S) = 0
        BY <3>5, FS_EmptySet
      <4>2. Cardinality(T) <= 1 + overlaps'
        BY <1>2, <3>3, <3>4, <4>1
      <4> QED
        BY <4>2 DEF T
    <3>6. CASE S # {}
      <4>1. overlaps' = overlaps + 1
        BY <3>1, <3>6
      <4>2. Cardinality(T) <= 1 + overlaps'
        BY <1>2, <2>3, <3>3, <3>4, <4>1
      <4> QED
        BY <4>2 DEF T
    <3> QED
      BY <3>5, <3>6
  <2> QED
    BY <2>4, <2>5
<1>5. ASSUME NEW p \in Keys, NEW a \in DOMAIN Articles, Articles[a].names = {p}
      PROVE  StoryAccount(p, a)'
  <2> DEFINE U == Unwritten(a)
             V == Unwritten(a)'
             W == Written(a)
             X == Written(a)'
             n == fired[p][a]
  <2>1. V = (IF MayFire(place, task, held, a) THEN U \union {c} ELSE U \ {c})
        /\ U \in SUBSET Clerks
    BY <1>1, UnwrittenBecome DEF Unwritten
  <2>2. X = (IF HasFired(place, task, held, a) THEN W \union {c} ELSE W \ {c})
        /\ W \in SUBSET Clerks
    BY <1>1, WrittenBecome DEF Written
  <2>3. V \in SUBSET U /\ W \in SUBSET X /\ X \in SUBSET Clerks
    <3>1. (MayFire(place, task, held, a) => c \in U) /\ (c \in W => HasFired(place, task, held, a))
      OBVIOUS
    <3> HIDE DEF U, V, W, X
    <3> QED
      BY <2>1, <2>2, <3>1
  <2>4. n \in Nat /\ n + Cardinality(U) <= 1 + crashes + overlaps
        /\ (incidentRows[a] # p => n <= Cardinality(W) + crashes)
    BY <1>1, <1>5 DEF StoryAccount, TrustShape
  <2>5. fired'[p][a] = n
    OBVIOUS
  <2> HIDE DEF U, V, W, X, n
  <2>6. Cardinality(V) \in Nat /\ Cardinality(U) \in Nat /\ Cardinality(V) <= Cardinality(U)
    BY <2>1, <2>3, SizeOfPart
  <2>7. Cardinality(X) \in Nat /\ Cardinality(W) \in Nat /\ Cardinality(W) <= Cardinality(X)
    BY <2>3, SizeOfPart
  <2>8. n + Cardinality(V) <= 1 + crashes' + overlaps'
    BY <1>2, <2>4, <2>6
  <2>9. incidentRows'[a] # p => n <= Cardinality(X) + crashes'
    BY <1>2, <2>4, <2>7
  <2> QED
    BY <2>5, <2>8, <2>9 DEF StoryAccount, V, X
<1> QED
  BY <1>3, <1>4, <1>5 DEF TrustInv

\* The steps that are quiet in this sense.
LEMMA QuietSteps ==
    ASSUME TrustInv, NEW c \in Clerks,
           \/ BeginFeedback(c) \/ BeginReview(c) \/ BeginMaintenance(c) \/ Load(c)
           \/ OpenRegistry(c) \/ Continue(c) \/ NextPlatform(c) \/ EndSweeping(c)
    PROVE  TrustInv'
<1>1. TrustShape /\ WellHeld(clerk[c].at, clerk[c].job, clerk[c].on, clerk[c].news)
  BY DEF TrustInv, TrustShape
<1>2. \A about : WellHeld("idle", None, about, {}) /\ WellHeld("sweep", None, about, {})
  BY NoneIsNoJob DEF WellHeld
<1>3. /\ \A held, a : ~MayFire("idle", None, held, a) /\ ~MayFire("sweep", None, held, a)
      /\ ~SweepsAs("idle", None)
  BY DEF MayFire, SweepsAs
<1>4. \A a : /\ c \in Unwritten(a) <=> MayFire(clerk[c].at, clerk[c].job, clerk[c].news, a)
             /\ c \in Written(a) <=> HasFired(clerk[c].at, clerk[c].job, clerk[c].news, a)
  BY DEF Unwritten, Written
<1>5. c \in Sweepers <=> SweepsAs(clerk[c].at, clerk[c].job)
  BY DEF Sweepers
<1>6. ASSUME clerk[c].at = "idle"
      PROVE  /\ \A a : c \notin Written(a)
             /\ c \notin Sweepers
  BY <1>4, <1>5, <1>6 DEF HasFired, SweepsAs
<1>7. CASE BeginFeedback(c)
  <2>1. /\ incidentRows' = incidentRows /\ fired' = fired /\ crashes' = crashes
        /\ overlaps' = overlaps
    BY <1>7 DEF BeginFeedback, Begin
  <2>2. \A about : /\ WellHeld("load", "feedback", about, {}) /\ ~SweepsAs("load", "feedback")
                   /\ \A a : ~MayFire("load", "feedback", {}, a)
    BY DEF WellHeld, SweepsAs, MayFire
  <2>3. clerk[c].at = "idle"
        /\ \/ Becomes(c, "idle", None, None, {})
           \/ \E about : Becomes(c, "load", "feedback", about, {})
    BY <1>1, <1>7, BeginsFeedback
  <2>4. CASE Becomes(c, "idle", None, None, {})
    BY <1>2, <1>3, <1>6, <2>1, <2>3, <2>4, QuietStep
  <2>5. CASE \E about : Becomes(c, "load", "feedback", about, {})
    BY <1>6, <2>1, <2>2, <2>3, <2>5, QuietStep
  <2> QED
    BY <2>3, <2>4, <2>5
<1>8. CASE BeginReview(c)
  <2>1. /\ incidentRows' = incidentRows /\ fired' = fired /\ crashes' = crashes
        /\ overlaps' = overlaps
    BY <1>8 DEF BeginReview, Begin
  <2>2. \A about : /\ WellHeld("load", "review", about, {}) /\ ~SweepsAs("load", "review")
                   /\ \A a : ~MayFire("load", "review", {}, a)
    BY DEF WellHeld, SweepsAs, MayFire
  <2>3. clerk[c].at = "idle" /\ \E about : Becomes(c, "load", "review", about, {})
    BY <1>1, <1>8, BeginsReview
  <2> QED
    BY <1>6, <2>1, <2>2, <2>3, QuietStep
<1>9. CASE BeginMaintenance(c)
  <2>1. incidentRows' = incidentRows /\ fired' = fired /\ crashes' = crashes
    BY <1>9 DEF BeginMaintenance, Begin
  <2>2. \A about : /\ WellHeld("save", "decay", about, {}) /\ ~SweepsAs("save", "decay")
                   /\ \A a : ~MayFire("save", "decay", {}, a)
    BY DEF WellHeld, SweepsAs, MayFire
  <2>3. /\ clerk[c].at = "idle"
        /\ \/ Becomes(c, "idle", None, None, {}) /\ overlaps' = overlaps
           \/ \E about : Becomes(c, "save", "decay", about, {}) /\ overlaps' = overlaps
           \/ Becomes(c, "sweep", None, None, {}) /\ CountOverlap(c)
    BY <1>1, <1>9, BeginsMaintenance
  <2>4. CASE Becomes(c, "idle", None, None, {}) /\ overlaps' = overlaps
    BY <1>2, <1>3, <1>6, <2>1, <2>3, <2>4, QuietStep
  <2>5. CASE \E about : Becomes(c, "save", "decay", about, {}) /\ overlaps' = overlaps
    BY <1>6, <2>1, <2>2, <2>3, <2>5, QuietStep
  <2>6. CASE Becomes(c, "sweep", None, None, {}) /\ CountOverlap(c)
    BY <1>2, <1>3, <1>6, <2>1, <2>3, <2>6, QuietStep
  <2> QED
    BY <2>3, <2>4, <2>5, <2>6
<1>10. CASE Load(c)
  <2>1. /\ incidentRows' = incidentRows /\ fired' = fired /\ crashes' = crashes
        /\ overlaps' = overlaps
    BY <1>10 DEF Load
  <2>2. /\ clerk[c].at = "load"
        /\ \/ Becomes(c, "idle", None, None, {})
           \/ Becomes(c, "save", clerk[c].job, clerk[c].on, clerk[c].news)
    BY <1>1, <1>10, Loads
  <2>3. \A a : c \notin Written(a)
    BY <1>4, <2>2 DEF HasFired
  <2>4. CASE Becomes(c, "idle", None, None, {})
    BY <1>2, <1>3, <2>1, <2>3, <2>4, QuietStep
  <2>5. CASE Becomes(c, "save", clerk[c].job, clerk[c].on, clerk[c].news)
    <3>1. /\ WellHeld("save", clerk[c].job, clerk[c].on, clerk[c].news)
          /\ SweepsAs("save", clerk[c].job) => c \in Sweepers
          /\ \A a : MayFire("save", clerk[c].job, clerk[c].news, a) => c \in Unwritten(a)
      BY <1>1, <1>4, <1>5, <2>2 DEF WellHeld, SweepsAs, MayFire
    <3> QED
      BY <2>1, <2>3, <2>5, <3>1, QuietStep
  <2> QED
    BY <2>2, <2>4, <2>5
<1>11. CASE OpenRegistry(c)
  <2>1. /\ incidentRows' = incidentRows /\ fired' = fired /\ crashes' = crashes
        /\ overlaps' = overlaps
    BY <1>11 DEF OpenRegistry
  <2>2. /\ clerk[c].at = "save"
        /\ Becomes(c, "write", clerk[c].job, clerk[c].on, clerk[c].news)
    BY <1>1, <1>11, Opens
  <2>3. \A a : c \notin Written(a)
    BY <1>4, <2>2 DEF HasFired
  <2>4. /\ WellHeld("write", clerk[c].job, clerk[c].on, clerk[c].news)
        /\ SweepsAs("write", clerk[c].job) => c \in Sweepers
        /\ \A a : MayFire("write", clerk[c].job, clerk[c].news, a) => c \in Unwritten(a)
    BY <1>1, <1>4, <1>5, <2>2 DEF WellHeld, SweepsAs, MayFire
  <2> QED
    BY <2>1, <2>2, <2>3, <2>4, QuietStep
<1>12. CASE Continue(c)
  <2>1. incidentRows' = incidentRows /\ fired' = fired /\ crashes' = crashes
    BY <1>12 DEF Continue
  <2>2. /\ clerk[c].at = "saved" /\ clerk[c].job # "incident"
        /\ \/ Becomes(c, "idle", None, None, {}) /\ overlaps' = overlaps
           \/ /\ clerk[c].job = "decay"
              /\ Becomes(c, "sweep", None, None, {}) /\ CountOverlap(c)
    BY <1>1, <1>12, Continues
  <2>3. \A a : c \notin Written(a)
    BY <1>4, <2>2 DEF HasFired
  <2>4. CASE Becomes(c, "idle", None, None, {}) /\ overlaps' = overlaps
    BY <1>2, <1>3, <2>1, <2>3, <2>4, QuietStep
  <2>5. CASE /\ clerk[c].job = "decay"
             /\ Becomes(c, "sweep", None, None, {}) /\ CountOverlap(c)
    <3>1. c \notin Sweepers
      BY <1>5, <2>5 DEF SweepsAs
    <3> QED
      BY <1>2, <1>3, <2>1, <2>3, <2>5, <3>1, QuietStep
  <2> QED
    BY <2>2, <2>4, <2>5
<1>13. CASE NextPlatform(c)
  <2>1. /\ incidentRows' = incidentRows /\ fired' = fired /\ crashes' = crashes
        /\ overlaps' = overlaps
    BY <1>13 DEF NextPlatform
  <2>2. /\ clerk[c].at = "saved" /\ clerk[c].job = "incident" /\ clerk[c].news = {}
        /\ Becomes(c, "sweep", None, None, {})
    BY <1>1, <1>13, Sweeps DEF NextPlatform
  <2>3. (\A a : c \notin Written(a)) /\ c \in Sweepers
    BY <1>4, <1>5, <2>2 DEF HasFired, SweepsAs
  <2> QED
    BY <1>2, <1>3, <2>1, <2>2, <2>3, QuietStep
<1>14. CASE EndSweeping(c)
  <2>1. /\ incidentRows' = incidentRows /\ fired' = fired /\ crashes' = crashes
        /\ overlaps' = overlaps
    BY <1>14 DEF EndSweeping
  <2>2. clerk[c].at = "sweep" /\ Becomes(c, "idle", None, None, {})
    BY <1>1, <1>14, Rests DEF EndSweeping
  <2>3. \A a : c \notin Written(a)
    BY <1>4, <2>2 DEF HasFired
  <2> QED
    BY <1>2, <1>3, <2>1, <2>2, <2>3, QuietStep
<1> QED
  BY <1>7, <1>8, <1>9, <1>10, <1>11, <1>12, <1>13, <1>14

\* The write moves the trust for each story the incident is made of, and the
\* holders of these turn from those that may to those that have.
LEMMA WriteKeeps ==
    ASSUME TrustInv, NEW c \in Clerks, WriteRegistry(c)
    PROVE  TrustInv'
<1>1. /\ TrustShape /\ Cardinality(Sweepers) <= 1 + overlaps
      /\ \A p \in Keys, a \in DOMAIN Articles : Articles[a].names = {p} => StoryAccount(p, a)
  BY DEF TrustInv
<1>2. clerk[c].at = "write" /\ Becomes(c, "saved", clerk[c].job, clerk[c].on, clerk[c].news)
  BY <1>1, Writes
<1>3. /\ WellHeld(clerk[c].at, clerk[c].job, clerk[c].on, clerk[c].news)
      /\ overlaps \in Nat /\ crashes \in Nat /\ fired \in [Keys -> [DOMAIN Articles -> Nat]]
  BY <1>1 DEF TrustShape
<1>4. incidentRows' = incidentRows /\ crashes' = crashes /\ overlaps' = overlaps
  BY DEF WriteRegistry
<1> DEFINE moved == [a \in DOMAIN Articles |->
                       fired[clerk[c].on][a] + (IF a \in clerk[c].news THEN 1 ELSE 0)]
<1>5. fired' = IF clerk[c].job # "incident" THEN fired
               ELSE [fired EXCEPT ![clerk[c].on] = moved]
  BY DEF WriteRegistry
<1>6. fired' \in [Keys -> [DOMAIN Articles -> Nat]]
  <2>1. clerk[c].on \in Keys => moved \in [DOMAIN Articles -> Nat]
    BY <1>3
  <2> HIDE DEF moved
  <2> QED
    BY <1>3, <1>5, <2>1
<1>7. TrustShape'
  <2>1. WellHeld("saved", clerk[c].job, clerk[c].on, clerk[c].news)
    BY <1>2, <1>3 DEF WellHeld
  <2> QED
    BY <1>1, <1>2, <1>3, <1>4, <1>6, <2>1, ShapeKept DEF TrustShape
<1>8. Sweepers' = Sweepers
  <2>1. SweepsAs("saved", clerk[c].job) <=> c \in Sweepers
    BY <1>2 DEF Sweepers, SweepsAs
  <2> QED
    BY <1>1, <1>2, <2>1, SweepersBecome
<1>9. ASSUME NEW p \in Keys, NEW a \in DOMAIN Articles, Articles[a].names = {p}
      PROVE  StoryAccount(p, a)'
  <2> DEFINE U == Unwritten(a)
             V == Unwritten(a)'
             W == Written(a)
             X == Written(a)'
             n == fired[p][a]
             m == fired'[p][a]
             Holds == clerk[c].job = "incident" /\ a \in clerk[c].news
  <2>1. /\ V = U \ {c} /\ U \in SUBSET Clerks
        /\ (c \in U <=> Holds)
    <3>1. ~MayFire("saved", clerk[c].job, clerk[c].news, a)
      BY DEF MayFire
    <3>2. V = U \ {c}
      BY <1>1, <1>2, <3>1, UnwrittenBecome
    <3>3. U \in SUBSET Clerks /\ (c \in U <=> Holds)
      BY <1>2 DEF Unwritten, MayFire
    <3> QED
      BY <3>2, <3>3
  <2>2. /\ X = IF Holds THEN W \union {c} ELSE W \ {c}
        /\ W \in SUBSET Clerks /\ c \notin W
    <3>1. HasFired("saved", clerk[c].job, clerk[c].news, a) <=> Holds
      BY DEF HasFired
    <3> QED
      BY <1>1, <1>2, <3>1, WrittenBecome DEF Written, HasFired
  <2>3. n \in Nat /\ n + Cardinality(U) <= 1 + crashes + overlaps
        /\ (incidentRows[a] # p => n <= Cardinality(W) + crashes)
    BY <1>1, <1>9 DEF StoryAccount, TrustShape
  <2>4. Holds => clerk[c].on = p
    BY <1>3, <1>9 DEF WellHeld
  <2>5. m = IF Holds THEN n + 1 ELSE n
    <3>1. CASE Holds
      <4>1. fired' = [fired EXCEPT ![p] = moved]
        BY <1>5, <2>4, <3>1
      <4>2. fired'[p] = moved
        <5> HIDE DEF moved
        <5> QED
          BY <1>3, <4>1
      <4> QED
        BY <2>4, <3>1, <4>2
    <3>2. CASE ~Holds
      <4>1. CASE clerk[c].job = "incident" /\ clerk[c].on = p
        <5>1. fired' = [fired EXCEPT ![p] = moved]
          BY <1>5, <4>1
        <5>2. fired'[p] = moved
          <6> HIDE DEF moved
          <6> QED
            BY <1>3, <5>1
        <5> QED
          BY <2>3, <3>2, <4>1, <5>2
      <4>2. CASE clerk[c].job # "incident" \/ clerk[c].on # p
        <5>1. fired'[p] = fired[p]
          <6> HIDE DEF moved
          <6> QED
            BY <1>3, <1>5, <4>2
        <5> QED
          BY <3>2, <5>1
      <4> QED
        BY <4>1, <4>2
    <3> QED
      BY <3>1, <3>2
  <2> HIDE DEF U, V, W, X, n, m, Holds
  <2>6. CASE Holds
    <3>1. Cardinality(V) = Cardinality(U) - 1
      BY <2>1, <2>6, SizeWithout
    <3>2. X = W \union {c} /\ Cardinality(X) = Cardinality(W) + 1
      BY <2>2, <2>6, SizeWith
    <3>3. Cardinality(U) \in Nat /\ Cardinality(W) \in Nat
      BY <2>1, <2>2, SizeOf
    <3>4. m + Cardinality(V) <= 1 + crashes' + overlaps'
      BY <1>3, <1>4, <2>3, <2>5, <2>6, <3>1, <3>3
    <3>5. incidentRows'[a] # p => m <= Cardinality(X) + crashes'
      BY <1>3, <1>4, <2>3, <2>5, <2>6, <3>2, <3>3
    <3> QED
      BY <3>4, <3>5 DEF StoryAccount, V, X, m
  <2>7. CASE ~Holds
    <3>1. V = U /\ X = W /\ m = n
      BY <2>1, <2>2, <2>5, <2>7
    <3>2. m + Cardinality(V) <= 1 + crashes' + overlaps'
      BY <1>4, <2>3, <3>1
    <3>3. incidentRows'[a] # p => m <= Cardinality(X) + crashes'
      BY <1>4, <2>3, <3>1
    <3> QED
      BY <3>2, <3>3 DEF StoryAccount, V, X, m
  <2> QED
    BY <2>6, <2>7
<1> QED
  BY <1>1, <1>4, <1>7, <1>8, <1>9 DEF TrustInv

\* A search finds a story only while it is not remembered: then each time it
\* was fired there is a crash or a sweeper that is to remember it, and the one
\* that searches is none of these.
LEMMA SearchKeeps ==
    ASSUME TrustInv, NEW c \in Clerks, SearchNews(c)
    PROVE  TrustInv'
<1>1. /\ TrustShape /\ Cardinality(Sweepers) <= 1 + overlaps
      /\ \A p \in Keys, a \in DOMAIN Articles : Articles[a].names = {p} => StoryAccount(p, a)
  BY DEF TrustInv
<1>2. /\ clerk[c].at = "sweep"
      /\ \/ Becomes(c, "sweep", clerk[c].job, clerk[c].on, clerk[c].news)
         \/ \E q, held : /\ Becomes(c, "load", "incident", q, held)
                         /\ \A x \in held : /\ x \in DOMAIN Articles
                                            /\ q \in Articles[x].names
                                            /\ incidentRows[x] # q
  BY <1>1, Searches
<1>3. /\ WellHeld(clerk[c].at, clerk[c].job, clerk[c].on, clerk[c].news)
      /\ overlaps \in Nat /\ crashes \in Nat /\ fired \in [Keys -> [DOMAIN Articles -> Nat]]
  BY <1>1 DEF TrustShape
<1>4. /\ incidentRows' = incidentRows /\ fired' = fired /\ crashes' = crashes
      /\ overlaps' = overlaps
  BY DEF SearchNews
<1>5. clerk[c].job = None /\ c \in Sweepers
  BY <1>2, <1>3, NoneIsNoJob DEF WellHeld, Sweepers, SweepsAs
<1>6. \A a : c \notin Written(a) /\ c \notin Unwritten(a)
  BY <1>2 DEF Written, Unwritten, HasFired, MayFire
<1>7. CASE Becomes(c, "sweep", clerk[c].job, clerk[c].on, clerk[c].news)
  <2>1. /\ WellHeld("sweep", clerk[c].job, clerk[c].on, clerk[c].news)
        /\ \A a : ~MayFire("sweep", clerk[c].job, clerk[c].news, a)
    BY <1>2, <1>3 DEF MayFire
  <2> QED
    BY <1>4, <1>5, <1>6, <1>7, <2>1, QuietStep
<1>8. CASE \E q, held : /\ Becomes(c, "load", "incident", q, held)
                        /\ \A x \in held : /\ x \in DOMAIN Articles
                                           /\ q \in Articles[x].names
                                           /\ incidentRows[x] # q
  <2>1. PICK q, held : /\ Becomes(c, "load", "incident", q, held)
                       /\ \A x \in held : /\ x \in DOMAIN Articles
                                          /\ q \in Articles[x].names
                                          /\ incidentRows[x] # q
    BY <1>8
  <2>2. TrustShape'
    <3>1. WellHeld("load", "incident", q, held)
      BY <2>1 DEF WellHeld
    <3> QED
      BY <1>1, <1>3, <1>4, <2>1, <3>1, ShapeKept DEF TrustShape
  <2>3. Sweepers' = Sweepers
    <3>1. SweepsAs("load", "incident")
      BY DEF SweepsAs
    <3> QED
      BY <1>1, <1>5, <2>1, <3>1, SweepersBecome
  <2>4. ASSUME NEW p \in Keys, NEW a \in DOMAIN Articles, Articles[a].names = {p}
        PROVE  StoryAccount(p, a)'
    <3> DEFINE S == Sweepers
               U == Unwritten(a)
               V == Unwritten(a)'
               W == Written(a)
               X == Written(a)'
               n == fired[p][a]
    <3>1. V = IF a \in held THEN U \union {c} ELSE U \ {c}
      <4>1. MayFire("load", "incident", held, a) <=> a \in held
        BY DEF MayFire
      <4> QED
        BY <1>1, <2>1, <4>1, UnwrittenBecome
    <3>2. X = W \ {c}
      <4>1. ~HasFired("load", "incident", held, a)
        BY DEF HasFired
      <4> QED
        BY <1>1, <2>1, <4>1, WrittenBecome
    <3>3. /\ U \in SUBSET Clerks /\ W \in SUBSET Clerks /\ S \in SUBSET Clerks
          /\ c \notin U /\ c \notin W
      BY <1>6 DEF Unwritten, Written, Sweepers
    <3>4. U \subseteq S /\ W \subseteq S /\ U \intersect W = {} /\ c \in S
      BY <1>5 DEF Unwritten, Written, Sweepers, MayFire, HasFired, SweepsAs
    <3>5. n \in Nat /\ n + Cardinality(U) <= 1 + crashes + overlaps
          /\ (incidentRows[a] # p => n <= Cardinality(W) + crashes)
      BY <1>1, <2>4 DEF StoryAccount, TrustShape
    <3>6. fired'[p][a] = n /\ Cardinality(S) <= 1 + overlaps
      BY <1>1, <1>4
    <3>7. a \in held => incidentRows[a] # p
      BY <2>1, <2>4
    <3> HIDE DEF S, U, V, W, X, n
    <3>8. X = W
      BY <3>2, <3>3
    <3>9. Cardinality(U) \in Nat /\ Cardinality(W) \in Nat /\ Cardinality(S) \in Nat
      BY <3>3, SizeOf
    <3>10. CASE a \in held
      <4> DEFINE T == U \union {c}
      <4>1. V = T /\ Cardinality(T) = Cardinality(U) + 1 /\ T \in SUBSET Clerks
        BY <3>1, <3>3, <3>10, SizeWith
      <4>2. T \intersect W = {} /\ T \union W \in SUBSET S
        BY <3>3, <3>4
      <4> HIDE DEF T
      <4>3. Cardinality(T \union W) = Cardinality(T) + Cardinality(W)
        <5>1. IsFiniteSet(T) /\ IsFiniteSet(W)
          BY <3>3, <4>1, SizeOf
        <5>2. Cardinality(T \union W) = Cardinality(T) + Cardinality(W) - Cardinality(T \intersect W)
          BY <5>1, FS_Union
        <5>3. Cardinality(T \intersect W) = 0 /\ Cardinality(T) \in Nat
          BY <3>9, <4>1, <4>2, FS_EmptySet
        <5> QED
          BY <3>9, <5>2, <5>3
      <4>4. Cardinality(T \union W) <= Cardinality(S)
        BY <3>3, <4>2, SizeOfPart
      <4>5. n <= Cardinality(W) + crashes
        BY <3>5, <3>7, <3>10
      <4>6. n + Cardinality(V) <= 1 + crashes' + overlaps'
        BY <1>3, <1>4, <3>5, <3>6, <3>9, <4>1, <4>3, <4>4, <4>5
      <4>7. n <= Cardinality(X) + crashes'
        BY <1>4, <3>8, <4>5
      <4> QED
        BY <3>6, <4>6, <4>7 DEF StoryAccount, V, X
    <3>11. CASE a \notin held
      <4>1. V = U
        BY <3>1, <3>3, <3>11
      <4>2. n + Cardinality(V) <= 1 + crashes' + overlaps'
        BY <1>4, <3>5, <4>1
      <4>3. incidentRows'[a] # p => n <= Cardinality(X) + crashes'
        BY <1>4, <3>5, <3>8
      <4> QED
        BY <3>6, <4>2, <4>3 DEF StoryAccount, V, X
    <3> QED
      BY <3>10, <3>11
  <2> QED
    BY <1>1, <1>4, <2>2, <2>3, <2>4 DEF TrustInv
<1> QED
  BY <1>2, <1>7, <1>8

\* Once an article is remembered for its platform, no search returns it.
LEMMA RememberKeeps ==
    ASSUME TrustInv, NEW c \in Clerks, Remember(c)
    PROVE  TrustInv'
<1>1. /\ TrustShape /\ Cardinality(Sweepers) <= 1 + overlaps
      /\ \A p \in Keys, a \in DOMAIN Articles : Articles[a].names = {p} => StoryAccount(p, a)
  BY DEF TrustInv
<1>2. clerk[c].at = "saved" /\ clerk[c].job = "incident"
  BY <1>1, Remembers
<1>3. PICK x \in clerk[c].news :
        /\ Becomes(c, "saved", "incident", clerk[c].on, clerk[c].news \ {x})
        /\ incidentRows' = [incidentRows EXCEPT ![x] = IF @ = None THEN clerk[c].on ELSE @]
  BY <1>1, Remembers
<1> DEFINE held == clerk[c].news \ {x}
<1>4. /\ WellHeld(clerk[c].at, clerk[c].job, clerk[c].on, clerk[c].news)
      /\ overlaps \in Nat /\ crashes \in Nat /\ fired \in [Keys -> [DOMAIN Articles -> Nat]]
      /\ DOMAIN incidentRows = DOMAIN Articles
      /\ \A y \in DOMAIN Articles : incidentRows[y] \in {None} \union Articles[y].names
  BY <1>1 DEF TrustShape
<1>5. fired' = fired /\ crashes' = crashes /\ overlaps' = overlaps
  BY DEF Remember
<1>6. x \in DOMAIN Articles /\ clerk[c].on \in Articles[x].names
  BY <1>2, <1>3, <1>4 DEF WellHeld
<1>7. /\ DOMAIN incidentRows' = DOMAIN Articles
      /\ \A y \in DOMAIN Articles : incidentRows'[y] \in {None} \union Articles[y].names
  BY <1>3, <1>4, <1>6
<1>8. TrustShape'
  <2>1. WellHeld("saved", "incident", clerk[c].on, held)
    BY <1>2, <1>4 DEF WellHeld
  <2> QED
    BY <1>1, <1>3, <1>4, <1>5, <1>7, <2>1, ShapeKept
<1>9. Sweepers' = Sweepers
  <2>1. SweepsAs("saved", "incident") /\ c \in Sweepers
    BY <1>2 DEF Sweepers, SweepsAs
  <2> QED
    BY <1>1, <1>3, <2>1, SweepersBecome
<1>10. ASSUME NEW p \in Keys, NEW a \in DOMAIN Articles, Articles[a].names = {p}
       PROVE  StoryAccount(p, a)'
  <2> DEFINE U == Unwritten(a)
             V == Unwritten(a)'
             W == Written(a)
             X == Written(a)'
             n == fired[p][a]
  <2>1. V = U \ {c} /\ c \notin U
    <3>1. ~MayFire("saved", "incident", held, a)
      BY DEF MayFire
    <3>2. V = U \ {c}
      BY <1>1, <1>3, <3>1, UnwrittenBecome
    <3>3. c \notin U
      BY <1>2 DEF Unwritten, MayFire
    <3> QED
      BY <3>2, <3>3
  <2>2. n + Cardinality(U) <= 1 + crashes + overlaps
        /\ (incidentRows[a] # p => n <= Cardinality(W) + crashes)
    BY <1>1, <1>10 DEF StoryAccount
  <2>3. fired'[p][a] = n
    BY <1>5
  <2>4. CASE a = x
    <3>1. clerk[c].on = p /\ incidentRows[a] \in {None, p}
      BY <1>4, <1>6, <1>10, <2>4
    <3>2. incidentRows'[a] = p
      BY <1>3, <1>4, <2>4, <3>1
    <3> HIDE DEF U, V, W, X, n
    <3>3. n + Cardinality(V) <= 1 + crashes' + overlaps'
      BY <1>5, <2>1, <2>2
    <3> QED
      BY <2>3, <3>2, <3>3 DEF StoryAccount, V
  <2>5. CASE a # x
    <3>1. incidentRows'[a] = incidentRows[a]
      BY <1>3, <1>4, <2>5
    <3>2. X = W
      <4>1. HasFired("saved", "incident", held, a) <=> c \in W
        BY <1>2, <2>5 DEF HasFired, Written
      <4>2. X = IF HasFired("saved", "incident", held, a) THEN W \union {c} ELSE W \ {c}
        BY <1>1, <1>3, WrittenBecome
      <4> HIDE DEF W, X, held
      <4> QED
        BY <4>1, <4>2
    <3> HIDE DEF U, V, W, X, n
    <3>3. n + Cardinality(V) <= 1 + crashes' + overlaps'
      BY <1>5, <2>1, <2>2
    <3>4. incidentRows'[a] # p => n <= Cardinality(X) + crashes'
      BY <1>5, <2>2, <3>1, <3>2
    <3> QED
      BY <2>3, <3>3, <3>4 DEF StoryAccount, V, X
  <2> QED
    BY <2>4, <2>5
<1> QED
  BY <1>1, <1>5, <1>8, <1>9, <1>10 DEF TrustInv

\* A crash takes a holder away, and counts for what it was to remember.
LEMMA CrashKeeps ==
    ASSUME TrustInv, NEW c \in Clerks, ClerkCrash(c)
    PROVE  TrustInv'
<1>1. /\ TrustShape /\ Cardinality(Sweepers) <= 1 + overlaps
      /\ \A p \in Keys, a \in DOMAIN Articles : Articles[a].names = {p} => StoryAccount(p, a)
  BY DEF TrustInv
<1>2. Becomes(c, "idle", None, None, {})
  BY <1>1, Rests DEF ClerkCrash
<1>3. overlaps \in Nat /\ crashes \in Nat /\ fired \in [Keys -> [DOMAIN Articles -> Nat]]
  BY <1>1 DEF TrustShape
<1>4. /\ incidentRows' = incidentRows /\ fired' = fired /\ crashes' = crashes + 1
      /\ overlaps' = overlaps
  BY DEF ClerkCrash
<1>5. TrustShape'
  <2>1. WellHeld("idle", None, None, {})
    BY NoneIsNoJob DEF WellHeld
  <2> QED
    BY <1>1, <1>2, <1>3, <1>4, <2>1, ShapeKept DEF TrustShape
<1>6. Cardinality(Sweepers') <= 1 + overlaps'
  <2> DEFINE S == Sweepers
             T == Sweepers'
  <2>1. T \in SUBSET S /\ S \in SUBSET Clerks
    <3>1. ~SweepsAs("idle", None)
      BY DEF SweepsAs
    <3> QED
      BY <1>1, <1>2, <3>1, SweepersBecome DEF Sweepers
  <2>2. Cardinality(S) <= 1 + overlaps
    BY <1>1
  <2> HIDE DEF S, T
  <2> QED
    BY <1>3, <1>4, <2>1, <2>2, SizeOfPart DEF T
<1>7. ASSUME NEW p \in Keys, NEW a \in DOMAIN Articles, Articles[a].names = {p}
      PROVE  StoryAccount(p, a)'
  <2> DEFINE U == Unwritten(a)
             V == Unwritten(a)'
             W == Written(a)
             X == Written(a)'
             n == fired[p][a]
  <2>1. V = U \ {c} /\ X = W \ {c} /\ U \in SUBSET Clerks /\ W \in SUBSET Clerks
    <3>1. ~MayFire("idle", None, {}, a) /\ ~HasFired("idle", None, {}, a)
      BY DEF MayFire, HasFired
    <3>2. V = U \ {c} /\ U \in SUBSET Clerks
      BY <1>1, <1>2, <3>1, UnwrittenBecome DEF Unwritten
    <3>3. X = W \ {c} /\ W \in SUBSET Clerks
      BY <1>1, <1>2, <3>1, WrittenBecome DEF Written
    <3> QED
      BY <3>2, <3>3
  <2>2. n \in Nat /\ n + Cardinality(U) <= 1 + crashes + overlaps
        /\ (incidentRows[a] # p => n <= Cardinality(W) + crashes)
    BY <1>1, <1>7 DEF StoryAccount, TrustShape
  <2>3. fired'[p][a] = n
    BY <1>4
  <2> HIDE DEF U, V, W, X, n
  <2>4. Cardinality(V) \in Nat /\ Cardinality(U) \in Nat /\ Cardinality(V) <= Cardinality(U)
    BY <2>1, SizeOfPart
  <2>5. Cardinality(X) \in Nat /\ Cardinality(W) \in Nat
        /\ Cardinality(W) <= Cardinality(X) + 1
    <3>1. CASE c \in W
      BY <2>1, <3>1, SizeWithout, SizeOf
    <3>2. CASE c \notin W
      <4>1. X = W
        BY <2>1, <3>2
      <4> QED
        BY <2>1, <4>1, SizeOf
    <3> QED
      BY <3>1, <3>2
  <2>6. n + Cardinality(V) <= 1 + crashes' + overlaps'
    BY <1>3, <1>4, <2>2, <2>4
  <2>7. incidentRows'[a] # p => n <= Cardinality(X) + crashes'
    BY <1>3, <1>4, <2>2, <2>5
  <2> QED
    BY <2>3, <2>6, <2>7 DEF StoryAccount, V, X
<1> QED
  BY <1>5, <1>6, <1>7 DEF TrustInv

\* Every step keeps the account.
LEMMA TrustStep == TrustInv /\ [TrustNext]_trustVars => TrustInv'
<1> SUFFICES ASSUME TrustInv, [TrustNext]_trustVars PROVE TrustInv'
  OBVIOUS
<1>1. CASE \E c \in Clerks :
         \/ BeginFeedback(c) \/ BeginReview(c) \/ BeginMaintenance(c) \/ Load(c)
         \/ OpenRegistry(c) \/ Continue(c) \/ NextPlatform(c) \/ EndSweeping(c)
  BY <1>1, QuietSteps
<1>2. CASE \E c \in Clerks :
         WriteRegistry(c) \/ SearchNews(c) \/ Remember(c) \/ ClerkCrash(c)
  BY <1>2, WriteKeeps, SearchKeeps, RememberKeeps, CrashKeeps
<1>3. CASE (\E c \in Clerks : WritePart(c)) \/ NextWeek \/ UNCHANGED trustVars
  <2>1. /\ clerk' = clerk /\ incidentRows' = incidentRows /\ fired' = fired
        /\ crashes' = crashes /\ overlaps' = overlaps
    BY <1>3 DEF WritePart, NextWeek, trustVars
  <2>2. TrustShape'
    BY <2>1 DEF TrustInv, TrustShape
  <2>3. Cardinality(Sweepers') <= 1 + overlaps'
    <3>1. Sweepers' = Sweepers
      BY <2>1 DEF Sweepers
    <3> QED
      BY <2>1, <3>1 DEF TrustInv
  <2>4. ASSUME NEW p \in Keys, NEW a \in DOMAIN Articles, Articles[a].names = {p}
        PROVE  StoryAccount(p, a)'
    <3>1. Unwritten(a)' = Unwritten(a) /\ Written(a)' = Written(a)
      BY <2>1 DEF Unwritten, Written
    <3>2. StoryAccount(p, a)
      BY <2>4 DEF TrustInv
    <3> QED
      BY <2>1, <3>1, <3>2 DEF StoryAccount
  <2> QED
    BY <2>2, <2>3, <2>4 DEF TrustInv
<1> QED
  BY <1>1, <1>2, <1>3 DEF TrustNext

\* Nobody holds a story at first.
LEMMA TrustStart == TrustInit => TrustInv
<1> SUFFICES ASSUME TrustInit PROVE TrustInv
  OBVIOUS
<1>1. \A c \in Clerks : clerk[c] = AtHand
  BY DEF TrustInit
<1>2. /\ DOMAIN AtHand = ClerkFields
      /\ AtHand.at = "idle" /\ AtHand.job = None /\ AtHand.on = None /\ AtHand.news = {}
  BY DEF AtHand, ClerkFields
<1>3. WellHeld("idle", None, None, {})
  BY NoneIsNoJob DEF WellHeld
<1>4. /\ DOMAIN clerk = Clerks
      /\ DOMAIN incidentRows = DOMAIN Articles
      /\ \A x \in DOMAIN Articles : incidentRows[x] \in {None} \union Articles[x].names
      /\ fired \in [Keys -> [DOMAIN Articles -> Nat]]
      /\ \A p \in Keys, a \in DOMAIN Articles : fired[p][a] = 0
      /\ crashes = 0 /\ overlaps = 0
  BY DEF TrustInit
<1>5. TrustShape
  BY <1>1, <1>2, <1>3, <1>4 DEF TrustShape
<1>6. Sweepers = {} /\ \A a : Unwritten(a) = {} /\ Written(a) = {}
  BY <1>1, <1>2 DEF Sweepers, Unwritten, Written, SweepsAs, MayFire, HasFired
<1>7. Cardinality({}) = 0
  BY FS_EmptySet
<1>8. ASSUME NEW p \in Keys, NEW a \in DOMAIN Articles PROVE StoryAccount(p, a)
  <2>1. fired[p][a] = 0 /\ crashes = 0 /\ overlaps = 0
    BY <1>4
  <2>2. Cardinality(Unwritten(a)) = 0 /\ Cardinality(Written(a)) = 0
    BY <1>6, <1>7
  <2> QED
    BY <2>1, <2>2 DEF StoryAccount
<1> QED
  BY <1>4, <1>5, <1>6, <1>7, <1>8 DEF TrustInv

\* A story about one platform moves its trust once, and again only for a crash
\* or for a sweep begun while another was under way (trust/incidents.py and
\* trust/update.py, apply_incident), whatever the other commands do meanwhile.
THEOREM RepeatsAreInterruptions == TrustSpec => []RepeatsNeedInterruptions
<1>1. TrustInv => RepeatsNeedInterruptions
  <2> SUFFICES ASSUME TrustInv, NEW p \in Keys, NEW a \in DOMAIN Articles,
                      Articles[a].names = {p}
               PROVE  fired[p][a] <= 1 + crashes + overlaps
    BY DEF RepeatsNeedInterruptions
  <2>1. StoryAccount(p, a) /\ fired[p][a] \in Nat /\ crashes \in Nat /\ overlaps \in Nat
    BY DEF TrustInv, TrustShape
  <2>2. Unwritten(a) \in SUBSET Clerks
    BY DEF Unwritten
  <2>3. Cardinality(Unwritten(a)) \in Nat
    BY <2>2, SizeOf
  <2> QED
    BY <2>1, <2>3 DEF StoryAccount
<1> QED
  BY <1>1, TrustStart, TrustStep, PTL DEF TrustSpec

-----------------------------------------------------------------------------
(* The audit of the registry.  What a change adds to the evidence is the   *)
(* move of the composite, so the two stay equal if both are numbers: the   *)
(* composite is a sum over the dimensions, and a diminished delta a number *)
(* that was halved some times.                                             *)

\* A sum is built up from the sums over smaller sets.
AreSums(g, fun, D) ==
  g = [s \in SUBSET D |-> IF s = {} THEN 0
                          ELSE fun[CHOOSE x \in s : TRUE] + g[s \ {CHOOSE x \in s : TRUE}]]

AreSumsUpTo(g, fun, D, k) ==
  \A s \in SUBSET D : Cardinality(s) <= k =>
    g[s] = IF s = {} THEN 0
           ELSE fun[CHOOSE x \in s : TRUE] + g[s \ {CHOOSE x \in s : TRUE}]

\* A set that is not empty is one larger than without a member.
LEMMA OneLess ==
    ASSUME NEW D, IsFiniteSet(D), NEW s \in SUBSET D, s # {}
    PROVE  LET r == s \ {CHOOSE x \in s : TRUE} IN
           /\ r \in SUBSET D /\ (CHOOSE x \in s : TRUE) \in D
           /\ Cardinality(s) \in Nat /\ Cardinality(r) = Cardinality(s) - 1
<1> DEFINE x == CHOOSE x \in s : TRUE
           r == s \ {x}
<1>1. x \in s
  OBVIOUS
<1>2. IsFiniteSet(s)
  BY FS_Subset
<1> HIDE DEF x
<1>3. Cardinality(s) \in Nat /\ Cardinality(r) = Cardinality(s) - 1
  BY <1>1, <1>2, FS_CardinalityType, FS_RemoveElement
<1> QED
  BY <1>1, <1>3 DEF x

\* There are sums of every finite set.
LEMMA SumsExist ==
    ASSUME NEW D, IsFiniteSet(D), NEW fun
    PROVE  \E g : AreSums(g, fun, D)
<1> DEFINE Has(k) == \E g : g = [s \in SUBSET D |-> g[s]] /\ AreSumsUpTo(g, fun, D, k)
           Lacks == {k \in Nat : ~Has(k)}
<1>1. Has(0)
  <2> DEFINE g == [s \in SUBSET D |-> 0]
  <2>1. \A s \in SUBSET D : Cardinality(s) <= 0 => s = {}
    <3> SUFFICES ASSUME NEW s \in SUBSET D, Cardinality(s) <= 0 PROVE s = {}
      OBVIOUS
    <3>1. IsFiniteSet(s)
      BY FS_Subset
    <3>2. Cardinality(s) = 0
      BY <3>1, FS_CardinalityType
    <3> QED
      BY <3>1, <3>2, FS_EmptySet
  <2>2. g = [s \in SUBSET D |-> g[s]] /\ \A s \in SUBSET D : g[s] = 0
    OBVIOUS
  <2> HIDE DEF g
  <2>3. AreSumsUpTo(g, fun, D, 0)
    BY <2>1, <2>2 DEF AreSumsUpTo
  <2> QED
    BY <2>2, <2>3
<1>2. ASSUME NEW k \in Nat, Has(k) PROVE Has(k + 1)
  <2>1. PICK g : g = [s \in SUBSET D |-> g[s]] /\ AreSumsUpTo(g, fun, D, k)
    BY <1>2
  <2> DEFINE pick(s) == CHOOSE x \in s : TRUE
             h == [s \in SUBSET D |-> IF Cardinality(s) <= k THEN g[s]
                                      ELSE fun[pick(s)] + g[s \ {pick(s)}]]
  <2>2. h = [s \in SUBSET D |-> h[s]]
        /\ \A s \in SUBSET D : h[s] = IF Cardinality(s) <= k THEN g[s]
                                      ELSE fun[pick(s)] + g[s \ {pick(s)}]
    OBVIOUS
  <2> HIDE DEF h
  <2>3. ASSUME NEW s \in SUBSET D, Cardinality(s) <= k + 1
        PROVE  h[s] = IF s = {} THEN 0 ELSE fun[pick(s)] + h[s \ {pick(s)}]
    <3>1. CASE s = {}
      <4>1. Cardinality(s) = 0
        BY <3>1, FS_EmptySet
      <4>2. Cardinality(s) <= k
        BY <4>1
      <4> QED
        BY <2>1, <2>2, <3>1, <4>2 DEF AreSumsUpTo
    <3>2. CASE s # {}
      <4> DEFINE r == s \ {pick(s)}
      <4>1. r \in SUBSET D /\ Cardinality(s) \in Nat /\ Cardinality(r) = Cardinality(s) - 1
        BY <3>2, OneLess
      <4> HIDE DEF r
      <4>2. Cardinality(r) <= k
        BY <2>3, <4>1
      <4>3. h[r] = g[r]
        BY <2>2, <4>1, <4>2
      <4>4. h[s] = fun[pick(s)] + g[r]
        <5>1. CASE Cardinality(s) <= k
          BY <2>1, <2>2, <3>2, <5>1 DEF AreSumsUpTo, r
        <5>2. CASE ~(Cardinality(s) <= k)
          BY <2>2, <5>2 DEF r
        <5> QED
          BY <5>1, <5>2
      <4> QED
        BY <3>2, <4>3, <4>4 DEF r
    <3> QED
      BY <3>1, <3>2
  <2>4. AreSumsUpTo(h, fun, D, k + 1)
    BY <2>3 DEF AreSumsUpTo
  <2> QED
    BY <2>2, <2>4
<1> HIDE DEF Has
<1>3. Lacks = {}
  <2> SUFFICES ASSUME Lacks # {} PROVE FALSE
    OBVIOUS
  <2>1. PICK k \in Lacks : \A j \in Lacks : k <= j
    BY LeastNumber
  <2>2. k \in Nat /\ k # 0
    BY <1>1, <2>1
  <2>3. k - 1 \in Nat /\ ~(k <= k - 1)
    BY <2>2
  <2>4. Has(k - 1)
    BY <2>1, <2>3
  <2>5. Has(k)
    BY <1>2, <2>2, <2>3, <2>4
  <2> QED
    BY <2>1, <2>5
<1>4. Cardinality(D) \in Nat
  BY FS_CardinalityType
<1>5. PICK g : g = [s \in SUBSET D |-> g[s]] /\ AreSumsUpTo(g, fun, D, Cardinality(D))
  BY <1>3, <1>4 DEF Has
<1>6. \A s \in SUBSET D : Cardinality(s) <= Cardinality(D)
  BY FS_Subset
<1> DEFINE h == [s \in SUBSET D |-> IF s = {} THEN 0
                   ELSE fun[CHOOSE x \in s : TRUE] + g[s \ {CHOOSE x \in s : TRUE}]]
<1>7. g = h
  BY <1>5, <1>6 DEF AreSumsUpTo
<1> QED
  BY <1>7 DEF AreSums

\* The sum of whole numbers is one.
LEMMA SumIsWhole ==
    ASSUME NEW D, IsFiniteSet(D), NEW fun \in [D -> Int]
    PROVE  SumFunction(fun) \in Int
<1> DEFINE g == CHOOSE h : AreSums(h, fun, D)
           Off == {Cardinality(s) : s \in {t \in SUBSET D : g[t] \notin Int}}
<1>1. SumFunction(fun) = g[D]
  BY DEF SumFunction, SumFunctionOnSet, FoldFunctionOnSet, MapThenFoldSet, AreSums
<1>2. AreSums(g, fun, D)
  BY SumsExist
<1> HIDE DEF g
<1>3. \A s \in SUBSET D : g[s] = IF s = {} THEN 0
         ELSE fun[CHOOSE x \in s : TRUE] + g[s \ {CHOOSE x \in s : TRUE}]
  BY <1>2 DEF AreSums
<1>4. Off = {}
  <2> SUFFICES ASSUME Off # {} PROVE FALSE
    OBVIOUS
  <2>1. \A s \in SUBSET D : Cardinality(s) \in Nat
    BY FS_Subset, FS_CardinalityType
  <2>2. Off \in SUBSET Nat
    BY <2>1
  <2>3. PICK k \in Off : \A j \in Off : k <= j
    BY <2>2, LeastNumber
  <2>4. PICK s \in SUBSET D : g[s] \notin Int /\ k = Cardinality(s)
    BY <2>3
  <2> DEFINE x == CHOOSE x \in s : TRUE
             r == s \ {x}
  <2>5. s # {}
    BY <1>3, <2>4
  <2>6. g[s] = fun[x] + g[r]
    BY <1>3, <2>5
  <2>7. r \in SUBSET D /\ x \in D /\ Cardinality(s) \in Nat /\ Cardinality(r) = Cardinality(s) - 1
    BY <2>5, OneLess
  <2> HIDE DEF x, r
  <2>8. g[r] \notin Int
    BY <2>4, <2>6, <2>7
  <2>9. Cardinality(r) \in Off
    BY <2>7, <2>8
  <2> HIDE DEF Off
  <2>10. k <= Cardinality(r)
    BY <2>3, <2>9
  <2> QED
    BY <2>4, <2>7, <2>10
<1> QED
  BY <1>1, <1>4

\* So is the trust of a platform.
LEMMA CompositeIsWhole ==
    ASSUME NEW dims \in [Dims -> Int]
    PROVE  Composite(dims) \in Int
<1> DEFINE f == [d \in Dims |-> Weight[d] * dims[d]]
<1>1. f \in [Dims -> Int]
  BY WeightsAreTenths
<1>2. SumFunction(f) \in Int
  BY <1>1, MovesAreWhole, SumIsWhole
<1> HIDE DEF f
<1>3. (SumFunction(f) + 5) \div 10 \in Int
  BY <1>2
<1> QED
  BY <1>3 DEF Composite, f

\* And what is left of a delta.
AreHalves(h, delta, prior) ==
  h = [n \in 0..prior |-> IF n = 0 THEN delta \div 2 ELSE h[n - 1] \div 2]

\* There are halves, as many as are asked for.
LEMMA HalvesExist ==
    ASSUME NEW delta, NEW prior \in Nat
    PROVE  \E h : AreHalves(h, delta, prior)
<1> DEFINE Has(k) == \E h : AreHalves(h, delta, k)
           Lacks == {k \in Nat : ~Has(k)}
<1>1. Has(0)
  <2> DEFINE h == [n \in 0..0 |-> delta \div 2]
  <2>1. h = [n \in 0..0 |-> IF n = 0 THEN delta \div 2 ELSE h[n - 1] \div 2]
    OBVIOUS
  <2> QED
    BY <2>1 DEF AreHalves
<1>2. ASSUME NEW k \in Nat, Has(k) PROVE Has(k + 1)
  <2>1. PICK h : AreHalves(h, delta, k)
    BY <1>2
  <2> DEFINE g == [n \in 0..(k + 1) |-> IF n = k + 1 THEN h[k] \div 2 ELSE h[n]]
  <2>2. \A n \in 0..k : h[n] = IF n = 0 THEN delta \div 2 ELSE h[n - 1] \div 2
    BY <2>1 DEF AreHalves
  <2>3. \A n \in 0..k : g[n] = h[n] /\ k + 1 \in 0..(k + 1)
    OBVIOUS
  <2>4. g[k + 1] = h[k] \div 2
    OBVIOUS
  <2>5. g = [n \in 0..(k + 1) |-> g[n]]
    OBVIOUS
  <2> HIDE DEF g
  <2>6. ASSUME NEW n \in 0..(k + 1)
        PROVE  g[n] = IF n = 0 THEN delta \div 2 ELSE g[n - 1] \div 2
    <3>1. CASE n = k + 1
      <4>1. n # 0 /\ n - 1 = k /\ k \in 0..k
        BY <3>1
      <4> QED
        BY <2>3, <2>4, <3>1, <4>1
    <3>2. CASE n \in 0..k
      <4>1. n # 0 => n - 1 \in 0..k
        BY <3>2
      <4> QED
        BY <2>2, <2>3, <3>2, <4>1
    <3> QED
      BY <3>1, <3>2
  <2>7. AreHalves(g, delta, k + 1)
    BY <2>5, <2>6 DEF AreHalves
  <2> QED
    BY <2>7
<1> HIDE DEF Has
<1>3. Lacks = {}
  <2> SUFFICES ASSUME Lacks # {} PROVE FALSE
    OBVIOUS
  <2>1. PICK k \in Lacks : \A j \in Lacks : k <= j
    BY LeastNumber
  <2>2. k \in Nat /\ k # 0
    BY <1>1, <2>1
  <2>3. k - 1 \in Nat /\ ~(k <= k - 1)
    BY <2>2
  <2>4. Has(k - 1)
    BY <2>1, <2>3
  <2>5. Has(k)
    BY <1>2, <2>2, <2>3, <2>4
  <2> QED
    BY <2>1, <2>5
<1> QED
  BY <1>3 DEF Has

\* So what is left is a whole number, whatever halves are chosen.
LEMMA DiminishedIsWhole ==
    ASSUME NEW delta \in Int, NEW prior \in Nat
    PROVE  Diminished(delta, prior) \in Int
<1> DEFINE h == CHOOSE g : AreHalves(g, delta, prior)
           Off == {n \in 0..prior : h[n] \notin Int}
<1>1. Diminished(delta, prior) = h[prior]
  BY DEF Diminished, AreHalves
<1>2. AreHalves(h, delta, prior)
  BY HalvesExist
<1> HIDE DEF h
<1>3. \A n \in 0..prior : h[n] = IF n = 0 THEN delta \div 2 ELSE h[n - 1] \div 2
  BY <1>2 DEF AreHalves
<1>4. Off = {}
  <2> SUFFICES ASSUME Off # {} PROVE FALSE
    OBVIOUS
  <2>0. Off \in SUBSET Nat
    OBVIOUS
  <2>1. PICK k \in Off : \A j \in Off : k <= j
    BY <2>0, LeastNumber
  <2>2. k # 0 /\ k - 1 \in 0..prior /\ ~(k <= k - 1)
    BY <1>3, <2>1
  <2>3. h[k - 1] \in Int
    BY <2>1, <2>2
  <2> QED
    BY <1>3, <2>1, <2>2, <2>3
<1> QED
  BY <1>1, <1>4

-----------------------------------------------------------------------------
(* The registry and its copies.  An entry is in order if its evidence      *)
(* explains its trust, and each change adds to the evidence what it moves. *)

IsEntry(entry) ==
  entry = Torn \/ (entry \in RegistryEntries /\ entry.logged # <<>>)

Explained(p, entry) ==
  /\ entry \in RegistryEntries /\ entry.logged # <<>>
  /\ Composite(entry.dims) = Composite(Seed[p]) + Logged(entry)

\* A file, or a copy of one, in order but for some platforms.
ListedBut(data, H) ==
  /\ DOMAIN data \subseteq Keys
  /\ \A p \in DOMAIN data : IsEntry(data[p])
  /\ \A p \in Keys \ H : p \in DOMAIN data /\ Explained(p, data[p])

AuditedBut(data, H) == data = Torn \/ ListedBut(data, H)

\* The deltas a command carries.
AreDeltas(deltas) == \A d \in DOMAIN deltas : deltas[d] \in Int

\* A change leaves an entry, and writes down what it moved.
LEMMA EvidenceExplains ==
    ASSUME NEW entry \in RegistryEntries, entry.logged # <<>>, NEW dims \in [Dims -> Int],
           week \in Nat
    PROVE  /\ IsEntry(Evidenced(entry, dims))
           /\ \A p \in Keys : Explained(p, entry) => Explained(p, Evidenced(entry, dims))
<1> DEFINE new == Composite(dims)
           old == Composite(entry.dims)
           now == Logged(entry) + new - old
           x == Evidenced(entry, dims)
<1>1. ASSUME NEW p \in Keys PROVE Composite(Seed[p]) \in Int
  <2>1. Seed[p] \in [Dims -> 0..FullScale]
    BY SeedsInScale DEF Keys
  <2>2. Seed[p] \in [Dims -> Int]
    BY <2>1, MovesAreWhole
  <2> QED
    BY <2>2, CompositeIsWhole
<1>2. entry.dims \in [Dims -> Int] /\ entry.logged \in Seq(Int)
  BY DEF RegistryEntries
<1>3. new \in Int /\ old \in Int
  BY <1>2, CompositeIsWhole
<1>4. Logged(entry) \in Int
  BY <1>2 DEF Logged
<1>5. now \in Int
  BY <1>3, <1>4
<1>6. x = [entry EXCEPT !.dims = dims, !.reviewed = week, !.logged = Append(@, now)]
  BY DEF Evidenced
<1> HIDE DEF now, x
<1>7. /\ x \in RegistryEntries /\ x.dims = dims /\ x.logged = Append(entry.logged, now)
  <2> DEFINE log == Append(entry.logged, now)
  <2>1. log \in Seq(Int)
    BY <1>2, <1>5
  <2>2. x = [entry EXCEPT !.dims = dims, !.reviewed = week, !.logged = log]
    BY <1>6
  <2>3. week \in Int \cup {None}
    OBVIOUS
  <2> HIDE DEF log
  <2>4. x \in RegistryEntries /\ x.dims = dims /\ x.logged = log
    BY <2>1, <2>2, <2>3 DEF RegistryEntries
  <2> QED
    BY <2>4 DEF log
<1>8. x.logged # <<>> /\ Logged(x) = now
  BY <1>2, <1>5, <1>7 DEF Logged
<1>9. ASSUME NEW p \in Keys, Explained(p, entry) PROVE Explained(p, x)
  <2>1. old = Composite(Seed[p]) + Logged(entry)
    BY <1>9 DEF Explained
  <2>2. new = Composite(Seed[p]) + now
    BY <1>1, <1>3, <1>4, <2>1 DEF now
  <2> QED
    BY <1>7, <1>8, <2>2 DEF Explained
<1> QED
  BY <1>7, <1>8, <1>9 DEF IsEntry, x

\* A dimension that was moved and clamped is a number still.
LEMMA ScaledIsWhole ==
    ASSUME NEW x \in Int
    PROVE  InScale(x) \in Int
BY MovesAreWhole DEF InScale

\* Amending an entry, by hand or by an incident, keeps it in order.
LEMMA AmendmentExplains ==
    ASSUME NEW entry \in RegistryEntries, entry.logged # <<>>, NEW deltas, AreDeltas(deltas),
           week \in Nat
    PROVE  /\ IsEntry(Amended(entry, deltas))
           /\ \A p \in Keys : Explained(p, entry) => Explained(p, Amended(entry, deltas))
<1> DEFINE dims == [d \in Dims |-> IF d \in DOMAIN deltas
                                   THEN InScale(entry.dims[d] + deltas[d])
                                   ELSE entry.dims[d]]
<1>1. entry.dims \in [Dims -> Int]
  BY DEF RegistryEntries
<1>2. ASSUME NEW d \in Dims
      PROVE  (IF d \in DOMAIN deltas THEN InScale(entry.dims[d] + deltas[d]) ELSE entry.dims[d]) \in Int
  <2>1. CASE d \in DOMAIN deltas
    <3>1. deltas[d] \in Int /\ entry.dims[d] \in Int
      BY <1>1, <2>1 DEF AreDeltas
    <3>2. entry.dims[d] + deltas[d] \in Int
      BY <3>1
    <3> QED
      BY <2>1, <3>2, ScaledIsWhole
  <2> QED
    BY <1>1, <2>1
<1>3. dims \in [Dims -> Int]
  BY <1>2
<1>4. Amended(entry, deltas) = Evidenced(entry, dims)
  BY DEF Amended
<1> HIDE DEF dims
<1> QED
  BY <1>3, <1>4, EvidenceExplains

\* Of two numbers one is the greatest, and one the least.
LEMMA MaxOfTwo ==
    ASSUME NEW a \in Int, NEW b \in Int
    PROVE  Max({a, b}) \in Int /\ Min({a, b}) \in Int
<1>1. \E x \in {a, b} : \A y \in {a, b} : x >= y
  OBVIOUS
<1>2. \E x \in {a, b} : \A y \in {a, b} : x <= y
  OBVIOUS
<1>3. Max({a, b}) \in {a, b}
  BY <1>1 DEF Max
<1>4. Min({a, b}) \in {a, b}
  BY <1>2 DEF Min
<1> QED
  BY <1>3, <1>4

\* So does a drift.
LEMMA DriftExplains ==
    ASSUME NEW entry \in RegistryEntries, entry.logged # <<>>, week \in Nat
    PROVE  /\ IsEntry(Drifted(entry))
           /\ \A p \in Keys : Explained(p, entry) => Explained(p, Drifted(entry))
<1> DEFINE gap == entry.prior - Composite(entry.dims)
           drift == DecayRate * WeeksIdle(entry)
           delta == Max({-drift, Min({drift, gap})})
           dims == [d \in Dims |-> InScale(entry.dims[d] + delta)]
<1>1. /\ entry.dims \in [Dims -> Int] /\ entry.reviewed \in Int \cup {None}
      /\ entry.prior \in Int \cup {None}
  BY DEF RegistryEntries
<1>2. Composite(entry.dims) \in Int
  BY <1>1, CompositeIsWhole
<1>3. DecayRate \in Int /\ MinIdle \in Int
  BY MovesAreWhole
<1>4. WeeksIdle(entry) \in Int
  BY <1>1, <1>3 DEF WeeksIdle
<1>5. drift \in Int /\ -drift \in Int
  BY <1>3, <1>4
<1>6. \/ Drifted(entry) = entry
      \/ entry.prior # None /\ Drifted(entry) = Evidenced(entry, dims)
  BY DEF Drifted
<1>7. CASE Drifted(entry) = entry
  BY <1>7 DEF IsEntry
<1>8. CASE entry.prior # None /\ Drifted(entry) = Evidenced(entry, dims)
  <2>1. gap \in Int
    BY <1>1, <1>2, <1>8
  <2> HIDE DEF gap, drift
  <2>2. delta \in Int
    BY <1>5, <2>1, MaxOfTwo
  <2> HIDE DEF delta
  <2>3. \A d \in Dims : entry.dims[d] + delta \in Int
    BY <1>1, <2>2
  <2>4. dims \in [Dims -> Int]
    BY <2>3, ScaledIsWhole
  <2> HIDE DEF dims
  <2> QED
    BY <1>8, <2>4, EvidenceExplains
<1> QED
  BY <1>6, <1>7, <1>8

\* And a decay, of every platform.
LEMMA DecayExplains ==
    ASSUME NEW H, AuditedBut(registry, H), Decayable, week \in Nat
    PROVE  ListedBut(Decayed(registry), H)
<1>1. /\ ListedBut(registry, H)
      /\ \A p \in DOMAIN registry : registry[p] \in RegistryEntries /\ registry[p].logged # <<>>
  BY DEF AuditedBut, ListedBut, Decayable, IsEntry
<1>2. \A p \in DOMAIN registry :
        /\ IsEntry(Drifted(registry[p]))
        /\ \A q \in Keys : Explained(q, registry[p]) => Explained(q, Drifted(registry[p]))
  BY <1>1, DriftExplains
<1> DEFINE data == Decayed(registry)
<1>3. DOMAIN data = DOMAIN registry /\ \A p \in DOMAIN registry : data[p] = Drifted(registry[p])
  BY DEF Decayed
<1> HIDE DEF data
<1>4. ListedBut(data, H)
  BY <1>1, <1>2, <1>3 DEF ListedBut
<1> QED
  BY <1>4 DEF data

-----------------------------------------------------------------------------
(* The file while it is written.  Where a save is cut short only the       *)
(* platform it ends with, and those that are missing, are out of order.    *)

\* Fewer platforms are vouched for.
LEMMA ButMore ==
    ASSUME NEW data, NEW H, NEW G, H \subseteq G
    PROVE  /\ ListedBut(data, H) => ListedBut(data, G)
           /\ AuditedBut(data, H) => AuditedBut(data, G)
BY DEF ListedBut, AuditedBut

\* The file is empty once it is opened.
LEMMA EmptyListed ==
    ASSUME NEW H
    PROVE  AuditedBut(<<>>, H \cup HarmedIn(<<>>))
<1>1. DOMAIN <<>> = {}
  OBVIOUS
<1>2. CASE <<>> = Torn
  BY <1>2 DEF AuditedBut
<1>3. CASE <<>> # Torn
  <2>1. Keys \subseteq H \cup HarmedIn(<<>>)
    BY <1>1, <1>3 DEF HarmedIn
  <2> QED
    BY <1>1, <2>1 DEF AuditedBut, ListedBut
<1> QED
  BY <1>2, <1>3

\* A piece of an entry is an entry, or less than one.
LEMMA PiecesAreEntries ==
    ASSUME NEW entry, IsEntry(entry), NEW piece \in Pieces(entry)
    PROVE  IsEntry(piece)
<1>1. CASE entry = Torn \/ piece = Torn
  BY <1>1 DEF Pieces, IsEntry
<1>2. CASE entry # Torn /\ piece # Torn
  <2>1. entry \in RegistryEntries /\ entry.logged # <<>>
    BY <1>2 DEF IsEntry
  <2>2. entry.logged \in Seq(Int) /\ entry.prior \in Int \cup {None}
    BY <2>1 DEF RegistryEntries
  <2>3. \/ \E prior \in {None, entry.prior} :
             piece = [entry EXCEPT !.logged = << 0 >>, !.reviewed = None, !.prior = prior]
        \/ \E n \in DOMAIN entry.logged : piece = [entry EXCEPT !.logged = SubSeq(@, 1, n)]
    BY <1>2 DEF Pieces
  <2>4. ASSUME NEW prior \in {None, entry.prior},
               piece = [entry EXCEPT !.logged = << 0 >>, !.reviewed = None, !.prior = prior]
        PROVE  IsEntry(piece)
    <3>1. prior \in Int \cup {None} /\ << 0 >> \in Seq(Int) /\ << 0 >> # <<>>
      BY <2>2
    <3>2. piece \in RegistryEntries /\ piece.logged = << 0 >>
      BY <2>1, <2>4, <3>1 DEF RegistryEntries
    <3> QED
      BY <3>1, <3>2 DEF IsEntry
  <2>5. ASSUME NEW n \in DOMAIN entry.logged, piece = [entry EXCEPT !.logged = SubSeq(@, 1, n)]
        PROVE  IsEntry(piece)
    <3> DEFINE rest == SubSeq(entry.logged, 1, n)
    <3>1. n \in 1..Len(entry.logged)
      BY <2>2
    <3>2. rest \in Seq(Int) /\ Len(rest) = n
      BY <2>2, <3>1
    <3>3. rest # <<>>
      BY <3>1, <3>2
    <3>4. piece = [entry EXCEPT !.logged = rest]
      BY <2>5
    <3> HIDE DEF rest
    <3>5. piece \in RegistryEntries /\ piece.logged = rest
      BY <2>1, <3>2, <3>4 DEF RegistryEntries
    <3> QED
      BY <3>3, <3>5 DEF IsEntry
  <2> QED
    BY <2>3, <2>4, <2>5
<1> QED
  BY <1>1, <1>2

\* A save that was cut short.
LEMMA CutIsListed ==
    ASSUME NEW data, NEW H, ListedBut(data, H), NEW x \in CutShort(data)
    PROVE  AuditedBut(x, H \cup HarmedIn(x))
<1>1. CASE x = Torn
  BY <1>1 DEF AuditedBut
<1>2. CASE x = <<>>
  BY <1>2, EmptyListed
<1>3. CASE x \notin {Torn, <<>>}
  <2>0. PICK n \in PlacesOf(data) : x \in {CutAt(data, n, piece) : piece \in Pieces(data[Platforms[n]])}
    BY <1>3 DEF CutShort
  <2>1. PICK piece \in Pieces(data[Platforms[n]]) : x = CutAt(data, n, piece)
    BY <2>0
  <2>2. n \in DOMAIN Platforms /\ Platforms[n] \in DOMAIN data /\ DOMAIN Platforms \subseteq Nat
    BY <2>1, KeysAreDistinct DEF PlacesOf
  <2>3. DOMAIN Platforms = 1..Len(Platforms) /\ Len(Platforms) \in Nat
    BY KeysAreDistinct
  <2>4. /\ DOMAIN x = {Platforms[i] : i \in 1..n} \cap DOMAIN data
        /\ \A p \in DOMAIN x : x[p] = IF p = Platforms[n] THEN piece ELSE data[p]
    BY <2>1 DEF CutAt
  <2>5. Platforms[n] \in DOMAIN x
    <3>1. n \in 1..n
      BY <2>2, <2>3
    <3> QED
      BY <2>2, <2>4, <3>1
  <2>6. ASSUME NEW k \in PlacesOf(x) PROVE k <= n
    <3>1. k \in DOMAIN Platforms /\ Platforms[k] \in DOMAIN x
      BY DEF PlacesOf
    <3>2. PICK i \in 1..n : Platforms[k] = Platforms[i]
      BY <2>4, <3>1
    <3>3. i \in DOMAIN Platforms
      BY <2>2, <2>3
    <3>4. k = i
      BY <3>1, <3>2, <3>3, KeysAreDistinct
    <3> QED
      BY <2>2, <2>3, <3>4
  <2>7. Platforms[n] \in Ends(x)
    <3>1. n \in PlacesOf(x)
      BY <2>2, <2>5 DEF PlacesOf
    <3> QED
      BY <2>6, <3>1 DEF Ends
  <2>8. IsEntry(piece)
    BY <2>1, <2>2, PiecesAreEntries DEF ListedBut
  <2>9. DOMAIN x \subseteq Keys /\ \A p \in DOMAIN x : IsEntry(x[p])
    BY <2>4, <2>8 DEF ListedBut
  <2>10. ASSUME NEW p \in Keys \ (H \cup HarmedIn(x)) PROVE p \in DOMAIN x /\ Explained(p, x[p])
    <3>1. p \in DOMAIN x /\ p # Platforms[n] /\ p \notin H
      BY <1>3, <2>7 DEF HarmedIn
    <3>2. x[p] = data[p]
      BY <2>4, <3>1
    <3> QED
      BY <3>1, <3>2 DEF ListedBut
  <2> QED
    BY <2>9, <2>10 DEF AuditedBut, ListedBut
<1> QED
  BY <1>1, <1>2, <1>3

\* Two saves on top of each other.
LEMMA OverlaidIsListed ==
    ASSUME NEW data, NEW other, NEW H, ListedBut(data, H),
           AuditedBut(other, H \cup HarmedIn(other)), NEW x \in Overlaid(data, other)
    PROVE  AuditedBut(x, H \cup Ends(data) \cup HarmedIn(other))
<1>1. CASE x = Torn
  BY <1>1 DEF AuditedBut
<1>2. CASE x # Torn
  <2>1. other # Torn /\ ListedBut(other, H \cup HarmedIn(other))
    BY <1>2 DEF Overlaid, AuditedBut
  <2> DEFINE both == [p \in DOMAIN data \cup DOMAIN other |->
                        IF p \in DOMAIN data THEN data[p] ELSE other[p]]
             met == {q \in Ends(data) \cap DOMAIN other : Torn \notin {data[q], other[q]}}
  <2>2. x = both \/ \E p \in met : x = [data EXCEPT ![p].logged = other[p].logged]
    BY <1>2, <2>1 DEF Overlaid
  <2>3. CASE x = both
    <3>1. /\ DOMAIN x = DOMAIN data \cup DOMAIN other
          /\ \A p \in DOMAIN x : x[p] = IF p \in DOMAIN data THEN data[p] ELSE other[p]
      BY <2>3
    <3> QED
      BY <2>1, <3>1 DEF ListedBut, AuditedBut
  <2>4. ASSUME NEW p \in met, x = [data EXCEPT ![p].logged = other[p].logged]
        PROVE  AuditedBut(x, H \cup Ends(data) \cup HarmedIn(other))
    <3> DEFINE mixed == [data[p] EXCEPT !.logged = other[p].logged]
    <3>1. p \in DOMAIN data /\ p \in DOMAIN other /\ p \in Ends(data)
      BY DEF Ends, PlacesOf
    <3>2. /\ data[p] \in RegistryEntries /\ other[p] \in RegistryEntries
          /\ other[p].logged # <<>>
      BY <2>1, <3>1 DEF ListedBut, IsEntry
    <3>3. IsEntry(mixed)
      <4>1. other[p].logged \in Seq(Int)
        BY <3>2 DEF RegistryEntries
      <4>2. mixed \in RegistryEntries /\ mixed.logged = other[p].logged
        BY <3>2, <4>1 DEF RegistryEntries
      <4> QED
        BY <3>2, <4>2 DEF IsEntry
    <3> HIDE DEF mixed
    <3>4. /\ DOMAIN x = DOMAIN data /\ x[p] = mixed
          /\ \A q \in DOMAIN data \ {p} : x[q] = data[q]
      BY <2>4, <3>1 DEF mixed
    <3> HIDE DEF met
    <3> QED
      BY <3>1, <3>3, <3>4 DEF ListedBut, AuditedBut
  <2> QED
    BY <2>2, <2>3, <2>4
<1> QED
  BY <1>1, <1>2

-----------------------------------------------------------------------------
(* What is vouched for: the file, but for the harmed platforms and those a *)
(* writer has not come to, and what each process is about to write.        *)

\* A process carries deltas that are numbers, and saves a copy in order.
HeldInOrder(r, H) ==
  /\ DOMAIN r = ClerkFields /\ AreDeltas(r.deltas)
  /\ r.at \in {"save", "write"} => ListedBut(r.copy, H)

AuditInv ==
  /\ week \in Nat
  /\ feedbackRows \in [Keys -> [Outcomes -> Nat]]
  /\ AuditedBut(registry, harmed \cup HarmedIn(registry))
  /\ (\A c \in Clerks : clerk[c].at # "write") => AuditedBut(registry, harmed)
  /\ DOMAIN clerk = Clerks
  /\ \A c \in Clerks : HeldInOrder(clerk[c], harmed)

\* What a process holds stays in order when more is harmed.
LEMMA HeldMore ==
    ASSUME NEW r, NEW H, NEW G, H \subseteq G, HeldInOrder(r, H)
    PROVE  HeldInOrder(r, G)
BY ButMore DEF HeldInOrder

\* A step that leaves the file in order, and what each process holds.
LEMMA AuditStep ==
    ASSUME AuditInv, NEW c \in Clerks, HeldInOrder(clerk'[c], harmed'),
           DOMAIN clerk' = Clerks, \A o \in Clerks \ {c} : clerk'[o] = clerk[o],
           week' = week, feedbackRows' \in [Keys -> [Outcomes -> Nat]],
           harmed \subseteq harmed',
           AuditedBut(registry', harmed' \cup HarmedIn(registry')),
           clerk'[c].at # "write" /\ ~OthersWrite(c) => AuditedBut(registry', harmed')
    PROVE  AuditInv'
<1>1. \A o \in Clerks : HeldInOrder(clerk'[o], harmed')
  BY HeldMore DEF AuditInv
<1>2. (\A o \in Clerks : clerk'[o].at # "write") => AuditedBut(registry', harmed')
  BY DEF OthersWrite
<1>3. AuditedBut(registry, harmed \cup HarmedIn(registry))'
  BY DEF AuditedBut, ListedBut, IsEntry, Explained, RegistryEntries, Composite, Logged,
         HarmedIn, Ends, PlacesOf, Keys
<1>4. ((\A o \in Clerks : clerk[o].at # "write") => AuditedBut(registry, harmed))'
  BY <1>2 DEF AuditedBut, ListedBut, IsEntry, Explained, RegistryEntries, Composite, Logged,
              Keys
<1>5. (\A o \in Clerks : HeldInOrder(clerk[o], harmed))'
  BY <1>1 DEF HeldInOrder, AreDeltas, ListedBut, IsEntry, Explained, RegistryEntries,
              Composite, Logged, Keys, ClerkFields
<1>6. week' \in Nat /\ (feedbackRows \in [Keys -> [Outcomes -> Nat]])' /\ (DOMAIN clerk = Clerks)'
  BY DEF AuditInv, Keys
<1> QED
  BY <1>3, <1>4, <1>5, <1>6 DEF AuditInv

\* The same, of a step by which one process changes what it holds.
LEMMA AuditKept ==
    ASSUME AuditInv, NEW c \in Clerks, NEW r, clerk' = [clerk EXCEPT ![c] = r],
           HeldInOrder(r, harmed'),
           week' = week, feedbackRows' \in [Keys -> [Outcomes -> Nat]],
           harmed \subseteq harmed',
           AuditedBut(registry', harmed' \cup HarmedIn(registry')),
           r.at # "write" /\ ~OthersWrite(c) => AuditedBut(registry', harmed')
    PROVE  AuditInv'
<1>1. DOMAIN clerk' = Clerks /\ clerk'[c] = r /\ \A o \in Clerks \ {c} : clerk'[o] = clerk[o]
  BY DEF AuditInv
<1> QED
  BY <1>1, AuditStep

\* The same, of a process that is not writing and leaves the file alone.
LEMMA AuditQuiet ==
    ASSUME AuditInv, NEW c \in Clerks, NEW r, clerk' = [clerk EXCEPT ![c] = r],
           clerk[c].at # "write", HeldInOrder(r, harmed'),
           week' = week, feedbackRows' \in [Keys -> [Outcomes -> Nat]],
           harmed \subseteq harmed', registry' = registry
    PROVE  AuditInv'
<1>1. AuditedBut(registry, harmed \cup HarmedIn(registry))
  BY DEF AuditInv
<1>2. harmed \cup HarmedIn(registry) \subseteq harmed' \cup HarmedIn(registry)
  OBVIOUS
<1>3. AuditedBut(registry', harmed' \cup HarmedIn(registry'))
  BY <1>1, <1>2, ButMore
<1>4. ~OthersWrite(c) => AuditedBut(registry, harmed)
  BY DEF AuditInv, OthersWrite
<1>5. ~OthersWrite(c) => AuditedBut(registry', harmed')
  BY <1>4, ButMore
<1> QED
  BY <1>3, <1>5, AuditKept

\* What a process reads is in order, but for what it may find half written.
LEMMA ReadInOrder ==
    ASSUME AuditInv, NEW c \in Clerks, clerk[c].at # "write", CountReading(c)
    PROVE  harmed \subseteq harmed' /\ AuditedBut(registry, harmed')
<1>1. CASE OthersWrite(c)
  BY <1>1 DEF CountReading, AuditInv
<1>2. CASE ~OthersWrite(c)
  BY <1>2 DEF CountReading, AuditInv, OthersWrite
<1> QED
  BY <1>1, <1>2

\* What a process holds that is not about to save.
LEMMA EmptyHanded ==
    ASSUME NEW H, NEW r, DOMAIN r = ClerkFields, r.at \notin {"save", "write"},
           r.deltas = <<>>
    PROVE  HeldInOrder(r, H)
<1>1. \A d \in DOMAIN <<>> : FALSE
  OBVIOUS
<1>2. AreDeltas(r.deltas)
  BY <1>1 DEF AreDeltas
<1> QED
  BY <1>2 DEF HeldInOrder

\* A process at rest holds nothing, and one that goes on to sweep neither.
LEMMA RestsEmpty == ASSUME NEW H PROVE HeldInOrder(AtHand, H)
<1>1. DOMAIN AtHand = ClerkFields /\ AtHand.at = "idle" /\ AtHand.deltas = <<>>
  BY DEF AtHand, ClerkFields
<1> QED
  BY <1>1, EmptyHanded

\* A sweep starts with nothing in hand.
LEMMA SweepsEmpty == ASSUME NEW H, NEW known PROVE HeldInOrder(ToSweep(known), H)
<1> DEFINE r == ToSweep(known)
<1>1. DOMAIN r = ClerkFields /\ r.at = "sweep" /\ r.deltas = <<>>
  BY DEF ToSweep, AtHand, ClerkFields
<1> HIDE DEF r
<1>2. HeldInOrder(r, H)
  BY <1>1, EmptyHanded
<1> QED
  BY <1>2 DEF r

\* The commands.  Feedback counts its earlier rows.
LEMMA AuditFeedback ==
    ASSUME AuditInv, NEW c \in Clerks, BeginFeedback(c)
    PROVE  AuditInv'
<1>1. PICK q \in Keys : \E e \in Outcomes :
        LET deltas == EventDeltas(e, feedbackRows[q][e]) IN
        IF DOMAIN deltas = {}
        THEN /\ Begin(c, AtHand)
             /\ feedbackRows' = [feedbackRows EXCEPT ![q][e] = @ + 1]
        ELSE /\ Begin(c, [AtHand EXCEPT !.at = "load", !.job = "feedback",
                                        !.on = q, !.event = e, !.deltas = deltas])
             /\ UNCHANGED feedbackRows
  BY DEF BeginFeedback
<1>2. PICK e \in Outcomes :
        LET deltas == EventDeltas(e, feedbackRows[q][e]) IN
        IF DOMAIN deltas = {}
        THEN /\ Begin(c, AtHand)
             /\ feedbackRows' = [feedbackRows EXCEPT ![q][e] = @ + 1]
        ELSE /\ Begin(c, [AtHand EXCEPT !.at = "load", !.job = "feedback",
                                        !.on = q, !.event = e, !.deltas = deltas])
             /\ UNCHANGED feedbackRows
  BY <1>1
<1> DEFINE deltas == EventDeltas(e, feedbackRows[q][e])
<1>3. feedbackRows[q][e] \in Nat /\ feedbackRows \in [Keys -> [Outcomes -> Nat]]
  BY DEF AuditInv
<1>4. AreDeltas(deltas)
  <2> SUFFICES ASSUME NEW d \in DOMAIN deltas PROVE deltas[d] \in Int
    BY DEF AreDeltas
  <2>1. d \in DOMAIN OutcomeDelta[e]
    BY DEF EventDeltas
  <2>2. OutcomeDelta[e][d] \in Int
    BY <2>1, MovesAreWhole
  <2>3. Diminished(OutcomeDelta[e][d], feedbackRows[q][e]) \in Int
    BY <1>3, <2>2, DiminishedIsWhole
  <2>4. \/ deltas[d] = Diminished(OutcomeDelta[e][d], feedbackRows[q][e])
        \/ deltas[d] = OutcomeDelta[e][d]
    BY <2>1 DEF EventDeltas
  <2> HIDE DEF deltas
  <2> QED
    BY <2>2, <2>3, <2>4
<1>5. /\ [feedbackRows EXCEPT ![q][e] = @ + 1] \in [Keys -> [Outcomes -> Nat]]
  BY <1>3
<1>6. feedbackRows' \in [Keys -> [Outcomes -> Nat]]
  BY <1>2, <1>3, <1>5
<1>7. week' = week /\ registry' = registry /\ harmed \subseteq harmed'
  BY DEF BeginFeedback
<1> HIDE DEF deltas
<1> DEFINE r == [AtHand EXCEPT !.at = "load", !.job = "feedback",
                               !.on = q, !.event = e, !.deltas = deltas]
<1>8. Begin(c, AtHand) \/ Begin(c, r)
  BY <1>2 DEF deltas
<1>9. DOMAIN r = ClerkFields /\ r.at = "load" /\ r.deltas = deltas
  BY DEF AtHand, ClerkFields
<1> HIDE DEF r
<1>10. HeldInOrder(r, harmed')
  BY <1>4, <1>9 DEF HeldInOrder
<1> QED
  BY <1>6, <1>7, <1>8, <1>10, RestsEmpty, AuditQuiet DEF Begin

\* A review moves every dimension alike.
LEMMA AuditReview ==
    ASSUME AuditInv, NEW c \in Clerks, BeginReview(c)
    PROVE  AuditInv'
<1>1. PICK q \in Keys, rating \in {-ReviewCap, ReviewCap} :
        Begin(c, [AtHand EXCEPT !.at = "load", !.job = "review", !.on = q,
                                !.deltas = [d \in Dims |-> rating]])
  BY DEF BeginReview
<1> DEFINE deltas == [d \in Dims |-> rating]
           r == [AtHand EXCEPT !.at = "load", !.job = "review", !.on = q, !.deltas = deltas]
<1>2. AreDeltas(deltas)
  BY MovesAreWhole DEF AreDeltas
<1>3. Begin(c, r)
  BY <1>1
<1> HIDE DEF deltas
<1>4. DOMAIN r = ClerkFields /\ r.at = "load" /\ r.deltas = deltas
  BY DEF AtHand, ClerkFields
<1> HIDE DEF r
<1>5. HeldInOrder(r, harmed')
  BY <1>2, <1>4 DEF HeldInOrder
<1>6. /\ week' = week /\ registry' = registry /\ harmed \subseteq harmed'
      /\ feedbackRows' \in [Keys -> [Outcomes -> Nat]]
  BY DEF BeginReview, AuditInv
<1> QED
  BY <1>3, <1>5, <1>6, AuditQuiet DEF Begin

\* Maintenance decays a copy of what it read.
LEMMA AuditMaintenance ==
    ASSUME AuditInv, NEW c \in Clerks, BeginMaintenance(c)
    PROVE  AuditInv'
<1> DEFINE data == Decayed(registry)
           r == [AtHand EXCEPT !.at = "save", !.job = "decay", !.copy = data]
<1>1. /\ week' = week /\ registry' = registry /\ clerk[c].at # "write"
      /\ feedbackRows' \in [Keys -> [Outcomes -> Nat]]
  BY DEF BeginMaintenance, Begin, AuditInv
<1>2. CASE harmed' = harmed /\ Begin(c, AtHand)
  BY <1>1, <1>2, RestsEmpty, AuditQuiet DEF Begin
<1>3. ASSUME harmed' = harmed, NEW known \in Known, Begin(c, ToSweep(known)) PROVE AuditInv'
  BY <1>1, <1>3, SweepsEmpty, AuditQuiet DEF Begin
<1>4. CASE Decayable /\ Begin(c, r) /\ CountReading(c)
  <2>1. harmed \subseteq harmed' /\ AuditedBut(registry, harmed')
    BY <1>1, <1>4, ReadInOrder
  <2>2. ListedBut(data, harmed')
    BY <1>4, <2>1, DecayExplains DEF AuditInv
  <2>3. clerk' = [clerk EXCEPT ![c] = r]
    BY <1>4 DEF Begin
  <2> HIDE DEF data
  <2>4. DOMAIN r = ClerkFields /\ r.copy = data /\ r.deltas = <<>>
    BY DEF AtHand, ClerkFields
  <2> HIDE DEF r
  <2>5. AreDeltas(r.deltas)
    <3>1. \A d \in DOMAIN <<>> : FALSE
      OBVIOUS
    <3> QED
      BY <2>4, <3>1 DEF AreDeltas
  <2>6. HeldInOrder(r, harmed')
    BY <2>2, <2>4, <2>5 DEF HeldInOrder
  <2> QED
    BY <1>1, <2>1, <2>3, <2>6, AuditQuiet
<1>5. \/ harmed' = harmed /\ Begin(c, AtHand)
      \/ harmed' = harmed /\ \E known \in Known : Begin(c, ToSweep(known))
      \/ Decayable /\ Begin(c, r) /\ CountReading(c)
  BY DEF BeginMaintenance
<1> QED
  BY <1>2, <1>3, <1>4, <1>5

\* A command amends a copy of what it read.
LEMMA AuditLoad ==
    ASSUME AuditInv, NEW c \in Clerks, Load(c)
    PROVE  AuditInv'
<1> DEFINE on == clerk[c].on
           deltas == clerk[c].deltas
           data == [registry EXCEPT ![on] = Amended(@, deltas)]
           r == [clerk[c] EXCEPT !.at = "save", !.copy = data]
<1>1. /\ DOMAIN clerk[c] = ClerkFields /\ AreDeltas(deltas)
      /\ DOMAIN clerk = Clerks /\ clerk[c].at # "write"
  BY DEF Load, AuditInv, HeldInOrder
<1>2. \/ clerk' = [clerk EXCEPT ![c] = AtHand]
      \/ Amendable(on) /\ clerk' = [clerk EXCEPT ![c] = r]
  BY <1>1 DEF Load
<1>3. /\ week' = week /\ registry' = registry /\ CountReading(c)
      /\ feedbackRows' \in [Keys -> [Outcomes -> Nat]]
  BY DEF Load, AuditInv
<1>4. harmed \subseteq harmed' /\ AuditedBut(registry, harmed')
  BY <1>1, <1>3, ReadInOrder
<1>5. ASSUME Amendable(on) PROVE HeldInOrder(r, harmed')
  <2>1. /\ ListedBut(registry, harmed') /\ week \in Nat /\ on \in DOMAIN registry
        /\ registry[on] \in RegistryEntries /\ registry[on].logged # <<>>
    BY <1>4, <1>5 DEF AuditInv, AuditedBut, ListedBut, IsEntry, Amendable
  <2> DEFINE now == Amended(registry[on], deltas)
  <2>2. /\ IsEntry(now)
        /\ \A p \in Keys : Explained(p, registry[on]) => Explained(p, now)
    BY <1>1, <2>1, AmendmentExplains
  <2>3. /\ DOMAIN data = DOMAIN registry /\ data[on] = now
        /\ \A p \in DOMAIN registry \ {on} : data[p] = registry[p]
    BY <2>1
  <2>4. DOMAIN r = ClerkFields /\ r.copy = data /\ r.deltas = deltas
    BY <1>1 DEF ClerkFields
  <2> HIDE DEF on, data, now, deltas, r
  <2>5. ListedBut(data, harmed')
    BY <2>1, <2>2, <2>3 DEF ListedBut
  <2> QED
    BY <1>1, <2>4, <2>5 DEF HeldInOrder
<1> HIDE DEF r
<1> QED
  BY <1>1, <1>2, <1>3, <1>4, <1>5, RestsEmpty, AuditQuiet

\* Steps after which a process holds what it held, or less.
LEMMA HeldStill ==
    ASSUME NEW H, NEW old, HeldInOrder(old, H), NEW r, DOMAIN r = ClerkFields,
           r.at = old.at \/ r.at \notin {"save", "write"} \/ {r.at, old.at} = {"save", "write"},
           r.copy = old.copy, r.deltas = old.deltas
    PROVE  HeldInOrder(r, H)
BY DEF HeldInOrder

\* A registry that is opened for writing is empty.
LEMMA AuditOpen ==
    ASSUME AuditInv, NEW c \in Clerks, OpenRegistry(c)
    PROVE  AuditInv'
<1> DEFINE r == [clerk[c] EXCEPT !.at = "write"]
<1>1. /\ DOMAIN clerk[c] = ClerkFields /\ DOMAIN clerk = Clerks
      /\ HeldInOrder(clerk[c], harmed) /\ clerk[c].at = "save"
  BY DEF OpenRegistry, AuditInv, HeldInOrder
<1>2. clerk' = [clerk EXCEPT ![c] = r]
  BY <1>1 DEF OpenRegistry
<1>3. /\ week' = week /\ feedbackRows' \in [Keys -> [Outcomes -> Nat]]
      /\ harmed' = harmed /\ registry' = <<>>
  BY DEF OpenRegistry, AuditInv
<1>4. /\ DOMAIN r = ClerkFields /\ r.copy = clerk[c].copy /\ r.deltas = clerk[c].deltas
      /\ r.at = "write"
  BY <1>1 DEF ClerkFields
<1> HIDE DEF r
<1>5. HeldInOrder(r, harmed')
  BY <1>1, <1>3, <1>4 DEF HeldInOrder
<1>6. AuditedBut(registry', harmed' \cup HarmedIn(registry'))
  BY <1>3, EmptyListed
<1> QED
  BY <1>2, <1>3, <1>4, <1>5, <1>6, AuditKept

\* What lies on top of another's save.
LEMMA SharedInOrder ==
    ASSUME AuditInv, NEW c \in Clerks, clerk[c].at = "write", CountSharing(c),
           registry' \in MayOverlay(c)
    PROVE  AuditedBut(registry', harmed')
<1>1. /\ shared /\ registry' \in Overlaid(clerk[c].copy, registry)
      /\ harmed' = harmed \cup Ends(clerk[c].copy) \cup HarmedIn(registry)
  BY DEF MayOverlay, CountSharing
<1>2. ListedBut(clerk[c].copy, harmed) /\ AuditedBut(registry, harmed \cup HarmedIn(registry))
  BY DEF AuditInv, HeldInOrder
<1> QED
  BY <1>1, <1>2, OverlaidIsListed

\* A part of what is written is in order up to where it ends.
LEMMA AuditPart ==
    ASSUME AuditInv, NEW c \in Clerks, WritePart(c)
    PROVE  AuditInv'
<1>1. /\ clerk' = clerk /\ clerk[c].at = "write" /\ CountSharing(c)
      /\ registry' \in CutShort(clerk[c].copy) \cup MayOverlay(c)
      /\ week' = week /\ feedbackRows' \in [Keys -> [Outcomes -> Nat]]
  BY DEF WritePart, AuditInv
<1>2. harmed \subseteq harmed'
  BY <1>1 DEF CountSharing
<1>3. HeldInOrder(clerk[c], harmed) /\ DOMAIN clerk = Clerks
  BY DEF AuditInv
<1>4. HeldInOrder(clerk'[c], harmed')
  BY <1>1, <1>2, <1>3, HeldMore
<1>5. CASE registry' \in CutShort(clerk[c].copy)
  <2>1. AuditedBut(registry', harmed \cup HarmedIn(registry'))
    BY <1>1, <1>3, <1>5, CutIsListed DEF HeldInOrder
  <2>2. harmed \cup HarmedIn(registry') \subseteq harmed' \cup HarmedIn(registry')
    BY <1>2
  <2> QED
    BY <1>1, <1>2, <1>3, <1>4, <2>1, <2>2, ButMore, AuditStep
<1>6. CASE registry' \in MayOverlay(c)
  <2>1. AuditedBut(registry', harmed')
    BY <1>1, <1>6, SharedInOrder
  <2>2. harmed' \subseteq harmed' \cup HarmedIn(registry')
    OBVIOUS
  <2> QED
    BY <1>1, <1>2, <1>3, <1>4, <2>1, <2>2, ButMore, AuditStep
<1> QED
  BY <1>1, <1>5, <1>6

\* What is written in the end is the copy, or lies on top of another's.
LEMMA AuditWrite ==
    ASSUME AuditInv, NEW c \in Clerks, WriteRegistry(c)
    PROVE  AuditInv'
<1> DEFINE r == [clerk[c] EXCEPT !.at = "saved", !.copy = Torn, !.deltas = <<>>]
<1>1. /\ DOMAIN clerk[c] = ClerkFields /\ DOMAIN clerk = Clerks /\ clerk[c].at = "write"
      /\ ListedBut(clerk[c].copy, harmed)
  BY DEF WriteRegistry, AuditInv, HeldInOrder
<1>2. clerk' = [clerk EXCEPT ![c] = r]
  BY <1>1 DEF WriteRegistry
<1>3. /\ week' = week /\ feedbackRows' \in [Keys -> [Outcomes -> Nat]] /\ CountSharing(c)
      /\ registry' = clerk[c].copy \/ registry' \in MayOverlay(c)
  BY DEF WriteRegistry, AuditInv
<1>4. harmed \subseteq harmed'
  BY <1>3 DEF CountSharing
<1>5. DOMAIN r = ClerkFields /\ r.at = "saved" /\ r.deltas = <<>>
  BY <1>1 DEF ClerkFields
<1> HIDE DEF r
<1>6. HeldInOrder(r, harmed')
  BY <1>5, EmptyHanded
<1>7. AuditedBut(registry', harmed')
  <2>1. CASE registry' = clerk[c].copy
    <3>1. AuditedBut(registry', harmed)
      BY <1>1, <2>1 DEF AuditedBut
    <3> QED
      BY <1>4, <3>1, ButMore
  <2>2. CASE registry' \in MayOverlay(c)
    BY <1>1, <1>3, <2>2, SharedInOrder
  <2> QED
    BY <1>3, <2>1, <2>2
<1>8. harmed' \subseteq harmed' \cup HarmedIn(registry')
  OBVIOUS
<1>9. AuditedBut(registry', harmed' \cup HarmedIn(registry'))
  BY <1>7, <1>8, ButMore
<1> QED
  BY <1>2, <1>3, <1>4, <1>6, <1>7, <1>9, AuditKept

\* The feedback row is counted.
LEMMA AuditContinue ==
    ASSUME AuditInv, NEW c \in Clerks, Continue(c)
    PROVE  AuditInv'
<1>1. \/ clerk' = [clerk EXCEPT ![c] = AtHand]
      \/ \E known \in Known : clerk' = [clerk EXCEPT ![c] = ToSweep(known)]
  BY DEF Continue
<1>2. week' = week /\ registry' = registry /\ harmed' = harmed /\ clerk[c].at # "write"
  BY DEF Continue
<1> DEFINE about == clerk[c].on
           happened == clerk[c].event
<1>3. feedbackRows' \in {feedbackRows, [feedbackRows EXCEPT ![about][happened] = @ + 1]}
  BY DEF Continue
<1> HIDE DEF about, happened
<1>4. feedbackRows \in [Keys -> [Outcomes -> Nat]]
  BY DEF AuditInv
<1>5. [feedbackRows EXCEPT ![about][happened] = @ + 1] \in [Keys -> [Outcomes -> Nat]]
  <2> DEFINE row == [feedbackRows[about] EXCEPT ![happened] = @ + 1]
             rows == [feedbackRows EXCEPT ![about] = row]
  <2>1. ASSUME about \in Keys PROVE row \in [Outcomes -> Nat]
    <3>1. feedbackRows[about] \in [Outcomes -> Nat]
      BY <1>4, <2>1
    <3>2. \A e \in Outcomes : feedbackRows[about][e] \in Nat
      BY <3>1
    <3>3. \A e \in Outcomes : row[e] \in Nat
      BY <3>1, <3>2
    <3>4. row = [e \in Outcomes |-> row[e]]
      BY <3>1
    <3> HIDE DEF row
    <3> QED
      BY <3>3, <3>4
  <2>2. [feedbackRows EXCEPT ![about][happened] = @ + 1] = rows
    OBVIOUS
  <2> HIDE DEF row
  <2>3. rows \in [Keys -> [Outcomes -> Nat]]
    BY <1>4, <2>1
  <2> QED
    BY <2>2, <2>3
<1>6. feedbackRows' \in [Keys -> [Outcomes -> Nat]]
  BY <1>3, <1>4, <1>5
<1> QED
  BY <1>1, <1>2, <1>6, RestsEmpty, SweepsEmpty, AuditQuiet

\* A story that is found is a loss.
LEMMA AuditSearch ==
    ASSUME AuditInv, NEW c \in Clerks, SearchNews(c)
    PROVE  AuditInv'
<1>1. PICK found \in SUBSET {a \in DOMAIN Articles : Articles[a].published <= week} :
       LET p == Head(clerk[c].queue) IN
       \/ /\ Incidents(p, found) = {}
          /\ clerk' = [clerk EXCEPT ![c].queue = Tail(@)]
       \/ \E d \in Incidents(p, found) :
            clerk' = [clerk EXCEPT ![c] =
              [@ EXCEPT !.at = "load", !.job = "incident", !.on = p,
                        !.queue = Tail(clerk[c].queue), !.deltas = [o \in {d} |-> -IncidentLoss],
                        !.news = OfDim(Matching(p, found), d)]]
  BY DEF SearchNews
<1>2. /\ DOMAIN clerk[c] = ClerkFields /\ DOMAIN clerk = Clerks
      /\ HeldInOrder(clerk[c], harmed) /\ clerk[c].at = "sweep"
  BY DEF SearchNews, AuditInv, HeldInOrder
<1>3. /\ week' = week /\ registry' = registry /\ harmed' = harmed
      /\ feedbackRows' \in [Keys -> [Outcomes -> Nat]]
  BY DEF SearchNews, AuditInv
<1> DEFINE p == Head(clerk[c].queue)
           rest == Tail(clerk[c].queue)
           quiet == [clerk[c] EXCEPT !.queue = rest]
           loss(d) == [o \in {d} |-> -IncidentLoss]
           heard(d) == OfDim(Matching(p, found), d)
           story(d) == [clerk[c] EXCEPT !.at = "load", !.job = "incident", !.on = p,
                          !.queue = rest, !.deltas = loss(d), !.news = heard(d)]
<1>4. \/ clerk' = [clerk EXCEPT ![c] = quiet]
      \/ \E d \in Incidents(p, found) : clerk' = [clerk EXCEPT ![c] = story(d)]
  BY <1>1, <1>2
<1>5. \A d : AreDeltas(loss(d))
  <2> DEFINE less == -IncidentLoss
  <2>1. less \in Int
    BY MovesAreWhole
  <2> HIDE DEF less
  <2>2. \A d : AreDeltas([o \in {d} |-> less])
    BY <2>1 DEF AreDeltas
  <2> QED
    BY <2>2 DEF less
<1> HIDE DEF p, rest, loss, heard
<1>6. /\ DOMAIN quiet = ClerkFields /\ quiet.at = "sweep"
      /\ quiet.copy = clerk[c].copy /\ quiet.deltas = clerk[c].deltas
  BY <1>2 DEF ClerkFields
<1>7. \A d : DOMAIN story(d) = ClerkFields /\ story(d).at = "load" /\ story(d).deltas = loss(d)
  BY <1>2 DEF ClerkFields
<1> HIDE DEF quiet, story
<1>8. HeldInOrder(quiet, harmed')
  BY <1>2, <1>3, <1>6, HeldStill
<1>9. \A d : HeldInOrder(story(d), harmed')
  BY <1>5, <1>7 DEF HeldInOrder
<1>10. CASE clerk' = [clerk EXCEPT ![c] = quiet]
  BY <1>2, <1>3, <1>8, <1>10, AuditQuiet
<1>11. ASSUME NEW d, clerk' = [clerk EXCEPT ![c] = story(d)] PROVE AuditInv'
  BY <1>2, <1>3, <1>9, <1>11, AuditQuiet
<1> QED
  BY <1>4, <1>10, <1>11

\* The rest of a sweep leaves the registry alone.
LEMMA AuditRemember ==
    ASSUME AuditInv, NEW c \in Clerks, Remember(c)
    PROVE  AuditInv'
<1>1. PICK a \in clerk[c].news : clerk' = [clerk EXCEPT ![c].news = @ \ {a}]
  BY DEF Remember
<1> DEFINE r == [clerk[c] EXCEPT !.news = @ \ {a}]
<1>2. /\ DOMAIN clerk[c] = ClerkFields /\ DOMAIN clerk = Clerks
      /\ HeldInOrder(clerk[c], harmed) /\ clerk[c].at = "saved"
  BY DEF Remember, AuditInv, HeldInOrder
<1>3. clerk' = [clerk EXCEPT ![c] = r]
  BY <1>1, <1>2
<1>4. /\ week' = week /\ registry' = registry /\ harmed' = harmed
      /\ feedbackRows' \in [Keys -> [Outcomes -> Nat]]
  BY DEF Remember, AuditInv
<1>5. /\ DOMAIN r = ClerkFields /\ r.at = "saved"
      /\ r.copy = clerk[c].copy /\ r.deltas = clerk[c].deltas
  BY <1>2 DEF ClerkFields
<1> HIDE DEF r
<1>6. HeldInOrder(r, harmed')
  BY <1>2, <1>4, <1>5, HeldStill
<1> QED
  BY <1>2, <1>3, <1>4, <1>6, AuditQuiet

\* So does the search for the next platform, and the end of a sweep.
LEMMA AuditSweep ==
    ASSUME AuditInv, NEW c \in Clerks, NextPlatform(c) \/ EndSweeping(c)
    PROVE  AuditInv'
<1>1. /\ week' = week /\ registry' = registry /\ harmed' = harmed /\ clerk[c].at # "write"
      /\ feedbackRows' \in [Keys -> [Outcomes -> Nat]]
  BY DEF NextPlatform, EndSweeping, AuditInv
<1> QED
  BY <1>1, RestsEmpty, SweepsEmpty, AuditQuiet DEF NextPlatform, EndSweeping

\* A process that ends leaves what is on the disk.
LEMMA AuditCrash ==
    ASSUME AuditInv, NEW c \in Clerks, ClerkCrash(c)
    PROVE  AuditInv'
<1>1. /\ week' = week /\ registry' = registry /\ clerk' = [clerk EXCEPT ![c] = AtHand]
      /\ feedbackRows' \in [Keys -> [Outcomes -> Nat]]
      /\ harmed' = IF clerk[c].at = "write" THEN harmed \cup HarmedIn(registry) ELSE harmed
  BY DEF ClerkCrash, AuditInv
<1>2. CASE clerk[c].at = "write"
  <2>1. harmed \subseteq harmed' /\ AuditedBut(registry', harmed')
    BY <1>1, <1>2 DEF AuditInv
  <2>2. harmed' \subseteq harmed' \cup HarmedIn(registry')
    OBVIOUS
  <2>3. AuditedBut(registry', harmed' \cup HarmedIn(registry'))
    BY <2>1, <2>2, ButMore
  <2> QED
    BY <1>1, <2>1, <2>3, RestsEmpty, AuditKept
<1>3. CASE clerk[c].at # "write"
  BY <1>1, <1>3, RestsEmpty, AuditQuiet
<1> QED
  BY <1>2, <1>3

\* Time passes, or nothing does.
LEMMA AuditWaits ==
    ASSUME AuditInv, week' \in Nat, UNCHANGED <<registry, feedbackRows, clerk, harmed>>
    PROVE  AuditInv'
<1>1. registry' = registry /\ feedbackRows' = feedbackRows /\ clerk' = clerk /\ harmed' = harmed
  OBVIOUS
<1>2. (/\ AuditedBut(registry, harmed \cup HarmedIn(registry))
       /\ (\A c \in Clerks : clerk[c].at # "write") => AuditedBut(registry, harmed))'
  BY <1>1 DEF AuditInv, AuditedBut, ListedBut, IsEntry, Explained, RegistryEntries, Composite,
              Logged, HarmedIn, Ends, PlacesOf, Keys
<1>3. (\A o \in Clerks : HeldInOrder(clerk[o], harmed))'
  BY <1>1 DEF AuditInv, HeldInOrder, AreDeltas, ListedBut, IsEntry, Explained, RegistryEntries,
              Composite, Logged, Keys, ClerkFields
<1>4. (DOMAIN clerk = Clerks)' /\ (feedbackRows \in [Keys -> [Outcomes -> Nat]])'
  BY <1>1 DEF AuditInv, Keys
<1> QED
  BY <1>2, <1>3, <1>4 DEF AuditInv

\* Whatever commands overlap, clamp, decay or crash, a platform's trust is its
\* seed moved by the evidence beside it (trust/update.py, _apply_deltas), unless a
\* save was cut short there or before it, or two saves met.
THEOREM AuditHolds == TrustSpec => []AuditExplainsScore
<1>1. TrustInit => AuditInv
  <2>1. SUFFICES ASSUME TrustInit PROVE AuditInv
    OBVIOUS
  <2>2. ASSUME NEW p \in Keys
        PROVE  Explained(p, [dims |-> Seed[p], logged |-> << 0 >>, prior |-> Prior[p], reviewed |-> 0])
    <3>1. Seed[p] \in [Dims -> 0..FullScale]
      BY SeedsInScale DEF Keys
    <3>2. Seed[p] \in [Dims -> Int] /\ Prior[p] \in Int
      BY <3>1, MovesAreWhole DEF Keys
    <3>3. Composite(Seed[p]) \in Int
      BY <3>2, CompositeIsWhole
    <3>4. Composite(Seed[p]) = Composite(Seed[p]) + 0
      BY <3>3
    <3>5. << 0 >> \in Seq(Int) /\ << 0 >> # <<>> /\ Len(<< 0 >>) = 1 /\ << 0 >>[1] = 0
      OBVIOUS
    <3> QED
      BY <3>2, <3>4, <3>5 DEF Explained, RegistryEntries, Logged
  <2>3. ListedBut(registry, harmed)
    BY <2>1, <2>2 DEF TrustInit, ListedBut, IsEntry, Explained
  <2>4. harmed \subseteq harmed \cup HarmedIn(registry)
    OBVIOUS
  <2>5. AuditedBut(registry, harmed) /\ AuditedBut(registry, harmed \cup HarmedIn(registry))
    BY <2>3, <2>4, ButMore DEF AuditedBut
  <2>6. \A c \in Clerks : HeldInOrder(clerk[c], harmed)
    BY <2>1, RestsEmpty DEF TrustInit
  <2>7. DOMAIN clerk = Clerks /\ week \in Nat /\ feedbackRows \in [Keys -> [Outcomes -> Nat]]
    BY <2>1 DEF TrustInit
  <2> QED
    BY <2>5, <2>6, <2>7 DEF AuditInv
<1>2. AuditInv /\ [TrustNext]_trustVars => AuditInv'
  <2> SUFFICES ASSUME AuditInv, [TrustNext]_trustVars PROVE AuditInv'
    OBVIOUS
  <2>1. ASSUME NEW c \in Clerks,
               \/ BeginFeedback(c) \/ BeginReview(c) \/ BeginMaintenance(c)
               \/ Load(c) \/ OpenRegistry(c) \/ WritePart(c) \/ WriteRegistry(c) \/ Continue(c)
               \/ SearchNews(c) \/ Remember(c) \/ NextPlatform(c) \/ EndSweeping(c)
               \/ ClerkCrash(c)
        PROVE  AuditInv'
    BY <2>1, AuditFeedback, AuditReview, AuditMaintenance, AuditLoad, AuditOpen, AuditPart,
       AuditWrite, AuditContinue, AuditSearch, AuditRemember, AuditSweep, AuditCrash
  <2>2. CASE NextWeek
    <3>1. week' \in Nat
      BY <2>2 DEF NextWeek, AuditInv
    <3> QED
      BY <2>2, <3>1, AuditWaits DEF NextWeek
  <2>3. CASE UNCHANGED trustVars
    BY <2>3, AuditWaits DEF trustVars, AuditInv
  <2> QED
    BY <2>1, <2>2, <2>3 DEF TrustNext
<1>3. AuditInv => AuditExplainsScore
  BY TornIsNoEntry DEF AuditInv, AuditExplainsScore, AuditedBut, ListedBut, Explained, LogExplains
<1> QED
  BY <1>1, <1>2, <1>3, PTL DEF TrustSpec

-----------------------------------------------------------------------------
(* Assessment: what the user avoids.  The latest declarations on a task    *)
(* are in force; where the latest is to avoid it, its language is avoided  *)
(* or undecided, and either keeps the posting from the ready ones.         *)

\* Among days that have passed there is a latest one.
LEMMA LatestDay ==
  ASSUME NEW today \in Nat, NEW T \in SUBSET (0..today), T # {}
  PROVE  \E x \in T : \A y \in T : y <= x
<1> DEFINE R == {today - x : x \in T}
<1>1. R \in SUBSET Nat /\ R # {}
  <2>1. \A x \in T : today - x \in Nat
    OBVIOUS
  <2> QED
    BY <2>1
<1>2. PICK r \in R : \A q \in R : r <= q
  BY <1>1, LeastNumber
<1>3. PICK x \in T : r = today - x
  BY <1>2
<1>4. ASSUME NEW y \in T PROVE y <= x
  <2>1. today - y \in R /\ x \in 0..today /\ y \in 0..today
    OBVIOUS
  <2>2. today - x <= today - y
    BY <1>2, <1>3, <2>1
  <2> QED
    BY <2>1, <2>2
<1> QED
  BY <1>4

\* Among declarations some of which are dated, the latest are in force.
LEMMA SomeInForce ==
  ASSUME NEW today \in Nat, NEW group, NEW no \in group, no.date # None,
         \A d \in group : d.date \in Nat \cup {None} /\ (d.date # None => d.date <= today)
  PROVE  /\ InForce(group) # {} /\ InForce(group) \subseteq group
         /\ \A d \in InForce(group) : d.date # None => no.date <= d.date
<1> DEFINE T == {d.date : d \in {e \in group : e.date # None}}
<1>1. T \in SUBSET (0..today) /\ T # {}
  OBVIOUS
<1>2. PICK x \in T : \A y \in T : y <= x
  BY <1>1, LatestDay
<1>3. PICK d \in group : d.date # None /\ d.date = x
  BY <1>2
<1>4. \A e \in group : e.date # None => e.date \in T
  OBVIOUS
<1>5. d \in InForce(group)
  BY <1>2, <1>3, <1>4 DEF InForce
<1> QED
  BY <1>5 DEF InForce

\* What is left to decide of a language.
Undecided == {"unknown", "conflict"}

\* A task avoided since the last permission for it is open or avoided.
LEMMA AvoidedState ==
  ASSUME NEW says \in SUBSET Declaration, NEW today \in Nat, NEW asked,
         NEW no \in Preferences(Active(says, asked.language, today), asked),
         no.stance = "avoid", no.date # None,
         \A yes \in Preferences(Active(says, asked.language, today), asked) :
           yes.stance = "allow" => yes.date # None /\ yes.date < no.date
  PROVE  LanguageState(says, asked, today) \in Undecided \cup {"preference_avoided"}
<1> DEFINE known == Active(says, asked.language, today)
           wishes == Preferences(known, asked)
           able == Capabilities(known, asked)
           now == StandingOf(wishes, able)
<1>1. \A d \in wishes : /\ d \in known /\ d \in Declaration
                        /\ d.stance \in {"avoid", "allow"}
                        /\ d.date \in Nat \cup {None} /\ (d.date # None => d.date <= today)
  BY DEF Preferences, Active, Declaration
<1>2. known # {}
  BY <1>1
<1>3. now.wishes = InForce(wishes) /\ now.able = InForce(able)
  BY DEF StandingOf
<1>4. /\ InForce(wishes) # {} /\ InForce(wishes) \subseteq wishes
      /\ \A d \in InForce(wishes) : d.date # None => no.date <= d.date
  <2> HIDE DEF wishes
  <2> QED
    BY <1>1, SomeInForce DEF wishes
<1> HIDE DEF known, wishes, able
<1>5. LanguageState(says, asked, today) =
        IF known = {} THEN None
        ELSE IF \E d \in InForce(wishes) \cup InForce(able) : d.date = None THEN "unknown"
        ELSE IF Cardinality({d.stance : d \in InForce(wishes)}) > 1 THEN "conflict"
        ELSE IF {d.stance : d \in InForce(wishes)} = {"avoid"} THEN "preference_avoided"
        ELSE IF InForce(able) # {} THEN Enough(InForce(able), asked)
        ELSE "unknown"
  BY <1>3 DEF LanguageState, known, wishes, able
<1>6. CASE \E d \in InForce(wishes) \cup InForce(able) : d.date = None
  BY <1>2, <1>5, <1>6 DEF Undecided
<1>7. CASE ~ \E d \in InForce(wishes) \cup InForce(able) : d.date = None
  <2>1. ASSUME NEW d \in InForce(wishes) PROVE d.stance = "avoid"
    <3>1. d \in wishes /\ d.date # None
      BY <1>4, <1>7
    <3>2. no.date <= d.date /\ d.date \in Nat /\ no.date \in Nat
      BY <1>1, <1>4, <3>1 DEF wishes, known
    <3>3. d.stance = "allow" => d.date < no.date
      BY <3>1 DEF wishes, known
    <3> QED
      BY <1>1, <3>1, <3>2, <3>3
  <2>2. {d.stance : d \in InForce(wishes)} = {"avoid"}
    BY <1>4, <2>1
  <2> QED
    BY <1>2, <1>5, <1>7, <2>2 DEF Undecided
<1> QED
  BY <1>6, <1>7

\* A demand whose every language is open or avoided is not passed over.
LEMMA DemandNotMet ==
  ASSUME NEW demand, NEW says, NEW today, demand.asked # {},
         \A asked \in demand.asked :
           LanguageState(says, asked, today) \in Undecided \cup {"preference_avoided"}
  PROVE  \/ "language" \in LanguageDemand(demand, says, today).blockers
         \/ "language_unverified" \in LanguageDemand(demand, says, today).unverified
<1> DEFINE StateOf(asked) ==
             LET state == LanguageState(says, asked, today)
             IN  IF state # None THEN state
                 ELSE IF asked.language \in Speaks THEN "supported" ELSE "insufficient"
           states == {StateOf(asked) : asked \in demand.asked}
           met == "supported" \in states
           open == states \cap {"unknown", "conflict"} # {}
           failed == states \ {"supported", "unknown", "conflict"} # {}
<1>1. ASSUME NEW asked \in demand.asked
      PROVE  StateOf(asked) # "supported"
  BY NoneIsNoState DEF Undecided
<1>2. ~met /\ (open \/ failed)
  BY <1>1
<1>3. LanguageDemand(demand, says, today) =
        IF demand.any /\ met THEN NoObjection
        ELSE IF demand.any /\ open THEN Unverified("language_unverified")
        ELSE [blockers |-> IF failed THEN {"language"} ELSE {},
              unverified |-> IF open THEN {"language_unverified"} ELSE {}]
  BY DEF LanguageDemand
<1> HIDE DEF met, open, failed
<1> QED
  BY <1>2, <1>3 DEF Unverified

\* Avoided, by what was declared up to a day.
AvoidedBy(says, on, asked) ==
  \E no \in Preferences(Active(says, asked.language, on), asked) :
    /\ no.stance = "avoid" /\ no.date # None
    /\ \A yes \in Preferences(Active(says, asked.language, on), asked) :
         yes.stance = "allow" => yes.date # None /\ yes.date < no.date

\* A required demand of languages that are all avoided leaves an objection or
\* a doubt among the outcomes.
LEMMA DemandCounts ==
  ASSUME NEW says \in SUBSET Declarable, NEW on \in Nat, demands \in Demanded,
         NEW d \in demands, d.kind = "language", d.required, d.group = None,
         \A asked \in d.asked : AvoidedBy(says, on, asked)
  PROVE  \/ "language" \in RequirementsMet(demands, says, on).blockers
         \/ "language_unverified" \in RequirementsMet(demands, says, on).unverified
<1>1. d.asked # {}
  BY LanguagesAsked
<1>2. says \in SUBSET Declaration
  BY DeclarationsDated
<1>3. \A asked \in d.asked : LanguageState(says, asked, on) \in Undecided \cup {"preference_avoided"}
  BY <1>2, AvoidedState DEF AvoidedBy
<1>4. \/ "language" \in LanguageDemand(d, says, on).blockers
      \/ "language_unverified" \in LanguageDemand(d, says, on).unverified
  BY <1>1, <1>3, DemandNotMet
<1> DEFINE asking == {e \in demands : e.required /\ e.group \notin Satisfied(demands)}
           Outcome(e) == CASE e.kind = "language" -> LanguageDemand(e, says, on)
                           [] e.kind = "experience" -> ExperienceDemand(e)
                           [] e.kind = "credential" -> CredentialDemand(e)
<1>5. d \in asking
  BY DEF Satisfied
<1>6. Outcome(d) = LanguageDemand(d, says, on)
  OBVIOUS
<1>7. RequirementsMet(demands, says, on) =
        [blockers |-> UNION {Outcome(e).blockers : e \in asking},
         unverified |-> UNION {Outcome(e).unverified : e \in asking}]
  BY DEF RequirementsMet
<1> HIDE DEF asking, Outcome
<1> QED
  BY <1>4, <1>5, <1>6, <1>7

\* Such a posting is not put before the user as ready.
LEMMA AvoidedNotReady ==
  ASSUME NEW f, NEW seen, NEW says \in SUBSET Declarable, NEW on \in Nat,
         demands \in Demanded,
         NEW d \in demands, d.kind = "language", d.required, d.group = None,
         \A asked \in d.asked : AvoidedBy(says, on, asked)
  PROVE  AssessAs(f, seen, says, on).band # "primary"
<1> DEFINE met == RequirementsMet(demands, says, on)
           kind == BestKind(seen)
           pay == PayFrom[seen]
           objections == Objections(f, kind, pay, met)
           doubts == Doubts(f, pay, met, objections)
           eligibility == Eligibility(f, met, objections)
<1>1. AssessAs(f, seen, says, on).band = BandOf(objections, doubts, eligibility)
  BY DEF AssessAs, AssessFrom, Decision
<1>2. "language" \in met.blockers \/ "language_unverified" \in met.unverified
  BY DemandCounts
<1> HIDE DEF met, kind, pay
<1>3. ASSUME "language" \in met.blockers PROVE objections # {}
  <2>1. Grounds(f, kind, pay, met)["language"] = TRUE
    BY <1>3 DEF Grounds
  <2>2. 4 \in DOMAIN VetoOrder /\ VetoOrder[4] = "language"
    BY DEF VetoOrder
  <2> QED
    BY <2>1, <2>2 DEF Objections
<1>4. "language_unverified" \in met.unverified => doubts # {}
  BY DEF Doubts
<1> QED
  BY <1>1, <1>2, <1>3, <1>4 DEF BandOf

\* What the assessments are of.
AssessmentInv ==
  /\ declared \in SUBSET Declarable /\ demands \in Demanded /\ date \in Nat
  /\ AvoidanceSticks

\* An assessment of any facts and observations keeps to what is avoided.
LEMMA ReassessedRight ==
  ASSUME demands \in Demanded, NEW f, NEW seen, NEW says \in SUBSET Declarable, NEW on \in Nat,
         Reassess(f, seen, says, on)
  PROVE  AssessmentInv'
<1>1. declared' = says /\ demands' = demands /\ date' = on
      /\ verdict' = AssessAs(f, seen, says, on)
  BY DEF Reassess
<1>2. AvoidanceSticks'
  <2>1. SUFFICES ASSUME NEW d \in demands, d.kind = "language", d.required, d.group = None,
                        \A asked \in d.asked : Avoided(asked)'
                 PROVE  verdict'.band # "primary"
    BY <1>1 DEF AvoidanceSticks
  <2>2. \A asked \in d.asked : AvoidedBy(says, on, asked)
    BY <1>1, <2>1 DEF AvoidedBy, Avoided
  <2> QED
    BY <1>1, <2>1, <2>2, AvoidedNotReady
<1> QED
  BY <1>1, <1>2 DEF AssessmentInv

\* A posting that demands what the user avoids is never ready to apply to,
\* whatever is learnt, declared or found later (docs/dated_language_evidence.md).
THEOREM AvoidanceStands == AssessmentSpec => []AvoidanceSticks
<1>1. AssessmentInit => AssessmentInv
  <2>1. SUFFICES ASSUME AssessmentInit PROVE AssessmentInv
    OBVIOUS
  <2>2. demands \in Demanded /\ declared = {} /\ date = 0
        /\ verdict = AssessAs(learnt, gathered, declared, date)
    BY <2>1 DEF AssessmentInit
  <2>3. SUFFICES ASSUME NEW d \in demands, d.kind = "language", d.required, d.group = None,
                        \A asked \in d.asked : Avoided(asked)
                 PROVE  verdict.band # "primary"
    BY <2>2 DEF AssessmentInv, AvoidanceSticks
  <2>4. \A asked \in d.asked : AvoidedBy(declared, date, asked)
    BY <2>3 DEF AvoidedBy, Avoided
  <2>5. declared \in SUBSET Declarable /\ date \in Nat
    BY <2>2
  <2> QED
    BY <2>2, <2>3, <2>4, <2>5, AvoidedNotReady
<1>2. AssessmentInv /\ [AssessmentNext]_assessmentVars => AssessmentInv'
  <2>1. SUFFICES ASSUME AssessmentInv, [AssessmentNext]_assessmentVars PROVE AssessmentInv'
    OBVIOUS
  <2>2. declared \in SUBSET Declarable /\ demands \in Demanded /\ date \in Nat
    BY <2>1 DEF AssessmentInv
  <2>3. ASSUME NEW f \in DOMAIN Ladder, NEW i \in DOMAIN Ladder[f], LearnFact(f, i)
        PROVE  AssessmentInv'
    BY <2>2, <2>3, ReassessedRight DEF LearnFact
  <2>4. ASSUME NEW o \in DOMAIN Source, Gather(o) PROVE AssessmentInv'
    BY <2>2, <2>4, ReassessedRight DEF Gather
  <2>5. ASSUME NEW d \in Declarable, Declare(d) PROVE AssessmentInv'
    <3>1. Reassess(learnt, gathered, declared \cup {d}, date)
      BY <2>5 DEF Declare
    <3>2. declared \cup {d} \in SUBSET Declarable
      BY <2>2
    <3> QED
      BY <2>2, <3>1, <3>2, ReassessedRight
  <2>6. ASSUME PassDate PROVE AssessmentInv'
    <3>1. Reassess(learnt, gathered, declared, date + 1) /\ date + 1 \in Nat
      BY <2>2, <2>6 DEF PassDate
    <3> QED
      BY <2>2, <3>1, ReassessedRight
  <2>7. ASSUME UNCHANGED assessmentVars PROVE AssessmentInv'
    <3>1. /\ declared' = declared /\ demands' = demands /\ date' = date /\ verdict' = verdict
      BY <2>7 DEF assessmentVars
    <3>2. AvoidanceSticks' <=> AvoidanceSticks
      BY <3>1 DEF AvoidanceSticks, Avoided
    <3> QED
      BY <2>1, <3>1, <3>2 DEF AssessmentInv
  <2> QED
    BY <2>1, <2>3, <2>4, <2>5, <2>6, <2>7 DEF AssessmentNext
<1>3. AssessmentInv => AvoidanceSticks
  BY DEF AssessmentInv
<1> QED
  BY <1>1, <1>2, <1>3, PTL DEF AssessmentSpec

-----------------------------------------------------------------------------
(* Assessment: texts that say nothing of the pay.  The claims about the    *)
(* work are the same with such a text as without it, and so are their      *)
(* lineages and what repeats them.                                         *)

\* An observation that derives from none adds nothing to any lineage.
LEMMA LineageKept ==
  ASSUME NEW g, NEW o, Source[o].parents = {}, NEW l
  PROVE  Lineage(g \cup {o}, l) = Lineage(g, l)
<1> DEFINE N == Cardinality(DOMAIN Source)
           Nearer(h, S) == S \cup UNION {Source[p].parents : p \in S \cap h}
           Line(h, line) == [n \in 0..N |-> IF n = 0 THEN {l} ELSE Nearer(h, line[n - 1])]
<1>1. ASSUME NEW S PROVE Nearer(g \cup {o}, S) = Nearer(g, S)
  OBVIOUS
<1> HIDE DEF Nearer, N
<1>2. ASSUME NEW line PROVE Line(g \cup {o}, line) = Line(g, line)
  BY <1>1
<1>3. Lineage(g \cup {o}, l) = (CHOOSE line : line = Line(g \cup {o}, line))[N]
  BY DEF Lineage, N, Nearer
<1>4. Lineage(g, l) = (CHOOSE line : line = Line(g, line))[N]
  BY DEF Lineage, N, Nearer
<1> HIDE DEF Line
<1>5. (CHOOSE line : line = Line(g \cup {o}, line)) = (CHOOSE line : line = Line(g, line))
  BY <1>2, Zenon
<1> QED
  BY <1>3, <1>4, <1>5

\* A text that says nothing of the pay, beside one that is no content farm's.
SilentNews(g, o) ==
  /\ o \in DOMAIN Source /\ Source[o].parents = {} /\ Source[o].kind # "content_farm"
  /\ \A c \in Source[o].claims : c.scope # "work"
  /\ \E p \in g : Source[p].kind # "content_farm"

\* What one observation claims.
ClaimOf(g, o, c) ==
  [from |-> o, claim |->
     IF CopiesThread(g, o) THEN [c EXCEPT !.scope = "unattributed_copy"] ELSE c]

\* The claims on the pay, listed.
LEMMA ClaimsListed ==
  ASSUME NEW g, NEW x
  PROVE  x \in PayClaims(g) <=>
           \E o \in ReadFor(g) : \E c \in Source[o].claims : x = ClaimOf(g, o, c)
<1> DEFINE pairs == UNION {{<<o, c>> : c \in Source[o].claims} : o \in ReadFor(g)}
<1>1. PayClaims(g) = {ClaimOf(g, pair[1], pair[2]) : pair \in pairs}
  BY DEF PayClaims, ClaimOf
<1>2. ASSUME NEW pair \in pairs
      PROVE  \E o \in ReadFor(g) : \E c \in Source[o].claims : pair = <<o, c>>
  OBVIOUS
<1>3. ASSUME NEW o \in ReadFor(g), NEW c, c \in Source[o].claims
      PROVE  <<o, c>> \in pairs
  <2>1. <<o, c>> \in {<<o, d>> : d \in Source[o].claims}
    BY <1>3
  <2> QED
    BY <2>1, Zenon
<1> HIDE DEF pairs
<1>4. ASSUME x \in PayClaims(g)
      PROVE  \E o \in ReadFor(g) : \E c \in Source[o].claims : x = ClaimOf(g, o, c)
  <2>1. PICK pair \in pairs : x = ClaimOf(g, pair[1], pair[2])
    BY <1>1, <1>4
  <2>2. PICK o \in ReadFor(g) : \E c \in Source[o].claims : pair = <<o, c>>
    BY <1>2
  <2>3. PICK c \in Source[o].claims : pair = <<o, c>>
    BY <2>2
  <2>4. pair[1] = o /\ pair[2] = c
    BY <2>3
  <2> QED
    BY <2>1, <2>3, <2>4
<1>5. ASSUME NEW o \in ReadFor(g), NEW c, c \in Source[o].claims, x = ClaimOf(g, o, c)
      PROVE  x \in PayClaims(g)
  <2>1. <<o, c>>[1] = o /\ <<o, c>>[2] = c
    OBVIOUS
  <2> QED
    BY <1>1, <1>3, <1>5, <2>1
<1> QED
  BY <1>4, <1>5

\* What is copied, and so what each observation claims, stays as it was.
LEMMA ClaimKept ==
  ASSUME NEW g, NEW o, SilentNews(g, o), NEW p, NEW c
  PROVE  ClaimOf(g \cup {o}, p, c) = ClaimOf(g, p, c)
<1>1. CopiesThread(g \cup {o}, p) = CopiesThread(g, p)
  BY DEF CopiesThread, SilentNews
<1> QED
  BY <1>1 DEF ClaimOf

\* It is read besides what was read.
LEMMA ReadBesides ==
  ASSUME NEW g, NEW o, SilentNews(g, o)
  PROVE  ReadFor(g \cup {o}) = ReadFor(g) \cup {o}
BY DEF ReadFor, SilentNews

\* The claims that were made still are; the others are not about the work.
LEMMA ClaimsBesides ==
  ASSUME NEW g, NEW o, SilentNews(g, o)
  PROVE  /\ PayClaims(g) \subseteq PayClaims(g \cup {o})
         /\ \A x \in PayClaims(g \cup {o}) \ PayClaims(g) : x.claim.scope # "work"
<1>1. ASSUME NEW x \in PayClaims(g) PROVE x \in PayClaims(g \cup {o})
  <2>0. PICK p \in ReadFor(g) : \E c \in Source[p].claims : x = ClaimOf(g, p, c)
    BY ClaimsListed
  <2>1. PICK c \in Source[p].claims : x = ClaimOf(g, p, c)
    BY <2>0
  <2>2. p \in ReadFor(g \cup {o}) /\ x = ClaimOf(g \cup {o}, p, c)
    BY <2>1, ReadBesides, ClaimKept
  <2> QED
    BY <2>2, ClaimsListed
<1>2. ASSUME NEW x \in PayClaims(g \cup {o}), x \notin PayClaims(g)
      PROVE  x.claim.scope # "work"
  <2>0. PICK p \in ReadFor(g \cup {o}) :
                \E c \in Source[p].claims : x = ClaimOf(g \cup {o}, p, c)
    BY ClaimsListed
  <2>1. PICK c \in Source[p].claims : x = ClaimOf(g \cup {o}, p, c)
    BY <2>0
  <2>2. x = ClaimOf(g, p, c)
    BY <2>1, ClaimKept
  <2>3. p = o
    BY <1>2, <2>1, <2>2, ReadBesides, ClaimsListed
  <2>4. ~ CopiesThread(g, o) => x.claim = c
    BY <2>2, <2>3 DEF ClaimOf
  <2>5. CopiesThread(g, o) => x.claim = [c EXCEPT !.scope = "unattributed_copy"]
    BY <2>2, <2>3 DEF ClaimOf
  <2>6. "scope" \in DOMAIN c /\ c.scope # "work"
    BY <2>1, <2>3, ClaimsAreScoped DEF SilentNews
  <2> QED
    BY <2>4, <2>5, <2>6
<1> QED
  BY <1>1, <1>2

\* Whatever claims are added that are not about the work, every claim is as
\* credible as before: one that is not about it has no credibility.
LEMMA CredibilityKept ==
  ASSUME NEW g, NEW o, SilentNews(g, o), NEW x
  PROVE  Credibility(g \cup {o}, PayClaims(g \cup {o}), x) = Credibility(g, PayClaims(g), x)
<1> DEFINE h == g \cup {o}
           C == PayClaims(g)
           D == PayClaims(h)
<1>1. C \subseteq D /\ \A y \in D \ C : y.claim.scope # "work"
  BY ClaimsBesides
<1>2. ASSUME NEW l, NEW r PROVE DistinctSource(h, l, r) <=> DistinctSource(g, l, r)
  <2>1. Lineage(h, l) = Lineage(g, l) /\ Lineage(h, r) = Lineage(g, r)
    BY LineageKept DEF SilentNews
  <2> QED
    BY <2>1 DEF DistinctSource
<1> HIDE DEF h, C, D
<1>3. ASSUME x.claim.scope = "work", NEW y, SameTerms(x.claim, y.claim) PROVE y.claim.scope = "work"
  <2>1. x.claim["scope"] = y.claim["scope"]
    BY <1>3 DEF SameTerms
  <2> QED
    BY <1>3, <2>1
<1>7. CASE x.claim.scope # "work"
  BY <1>7 DEF Credibility, h, C, D
<1>4. ASSUME x.claim.scope = "work" PROVE Repeated(h, D, x) <=> Repeated(g, C, x)
  <2>1. ASSUME Repeated(h, D, x) PROVE Repeated(g, C, x)
    <3>1. PICK y \in D : /\ y.from # x.from /\ SameTerms(x.claim, y.claim)
                         /\ DistinctSource(h, x.from, y.from)
      BY <2>1 DEF Repeated
    <3>2. y \in C
      BY <1>1, <1>3, <1>4, <3>1
    <3> QED
      BY <1>2, <3>1, <3>2 DEF Repeated
  <2>2. ASSUME Repeated(g, C, x) PROVE Repeated(h, D, x)
    BY <1>1, <1>2, <2>2 DEF Repeated
  <2> QED
    BY <2>1, <2>2
<1>5. CASE x.claim.scope = "work" /\ Repeated(g, C, x)
  BY <1>4, <1>5 DEF Credibility, h, C, D
<1>6. CASE x.claim.scope = "work" /\ ~Repeated(g, C, x)
  BY <1>4, <1>6 DEF Credibility, h, C, D
<1> QED
  BY <1>5, <1>6, <1>7 DEF h, C, D

\* The claims about the work are the same.
LEMMA WorkKept ==
  ASSUME NEW g, NEW o, SilentNews(g, o)
  PROVE  AboutWork(PayClaims(g \cup {o})) = AboutWork(PayClaims(g))
<1> DEFINE C == PayClaims(g)
           D == PayClaims(g \cup {o})
<1>1. C \subseteq D /\ \A y \in D \ C : y.claim.scope # "work"
  BY ClaimsBesides
<1> HIDE DEF C, D
<1>2. AboutWork(D) = AboutWork(C)
  BY <1>1 DEF AboutWork
<1> QED
  BY <1>2 DEF C, D

\* The rank of a claim in the selection.
Rank(g, x) ==
  <<-Credibility(g, PayClaims(g), x), -Confidence[x.claim.field], x.from, x.claim.raw>>

\* The same claim is selected.
LEMMA SelectionKept ==
  ASSUME NEW g, NEW o, SilentNews(g, o)
  PROVE  Selected(g \cup {o}, PayClaims(g \cup {o})) = Selected(g, PayClaims(g))
<1> DEFINE able == AboutWork(PayClaims(g))
           Ranks(able_, h) == [x \in able_ |-> Rank(h, x)]
           Best(able_, key) ==
             CHOOSE x \in able_ : \A y \in able_ \ {x} : Precedes(key[x], key[y])
<1>1. \A h : Selected(h, PayClaims(h)) =
               IF AboutWork(PayClaims(h)) = {} THEN None
               ELSE Best(AboutWork(PayClaims(h)), Ranks(AboutWork(PayClaims(h)), h))
  BY DEF Selected, Rank
<1>2. AboutWork(PayClaims(g \cup {o})) = able
  BY WorkKept
<1>3. ASSUME NEW x \in able PROVE Rank(g \cup {o}, x) = Rank(g, x)
  <2>1. Credibility(g \cup {o}, PayClaims(g \cup {o}), x) = Credibility(g, PayClaims(g), x)
    BY CredibilityKept
  <2> QED
    BY <2>1, Zenon DEF Rank
<1> HIDE DEF able
<1>4. Ranks(able, g \cup {o}) = Ranks(able, g)
  BY <1>3
<1> HIDE DEF Ranks, Best
<1>5. Selected(g \cup {o}, PayClaims(g \cup {o})) =
        IF able = {} THEN None ELSE Best(able, Ranks(able, g \cup {o}))
  BY <1>1, <1>2
<1>6. Selected(g, PayClaims(g)) = IF able = {} THEN None ELSE Best(able, Ranks(able, g))
  BY <1>1 DEF able
<1> QED
  BY <1>4, <1>5, <1>6

\* Contradictions are between the claims about the work.
LEMMA ContradictionKept ==
  ASSUME NEW C, NEW D, AboutWork(C) = AboutWork(D), NEW first
  PROVE  Contradicted(C, first) = Contradicted(D, first)
BY Zenon DEF Contradicted

\* All that is made of the pay.
LEMMA PayKept ==
  ASSUME NEW g, NEW o, SilentNews(g, o)
  PROVE  PayOf(g \cup {o}) = PayOf(g)
<1> DEFINE h == g \cup {o}
           x == Selected(g, PayClaims(g))
<1>1. Selected(h, PayClaims(h)) = x
  BY SelectionKept
<1>2. Credibility(h, PayClaims(h), x) = Credibility(g, PayClaims(g), x)
  BY CredibilityKept
<1>3. Contradicted(PayClaims(h), x) = Contradicted(PayClaims(g), x)
  BY WorkKept, ContradictionKept
<1> HIDE DEF h, x
<1>4. PayOf(h) = PayBy(h, PayClaims(h), x)
  BY <1>1 DEF PayOf, PayAmong
<1>5. PayOf(g) = PayBy(g, PayClaims(g), x)
  BY DEF PayOf, PayAmong, x
<1>6. PayBy(h, PayClaims(h), x) = PayBy(g, PayClaims(g), x)
  BY <1>2, <1>3, Zenon DEF PayBy
<1> QED
  BY <1>4, <1>5, <1>6 DEF h

\* The pay of the assessment is of the observations that were gathered.
PayInv ==
  /\ gathered \in SUBSET DOMAIN Source
  /\ verdict.pay = PayOf(gathered)

\* Of what an assessment says, the pay is of the observations alone.
LEMMA PayOfAssessment ==
  ASSUME NEW f, NEW seen \in SUBSET DOMAIN Source, NEW says, NEW on
  PROVE  AssessAs(f, seen, says, on).pay = PayOf(seen)
<1> DEFINE met == RequirementsMet(demands, says, on)
           kind == BestKind(seen)
           pay == PayFrom[seen]
<1>1. AssessAs(f, seen, says, on) =
        Decision(f, kind, pay, met, Objections(f, kind, pay, met))
  BY DEF AssessAs, AssessFrom
<1>2. pay = PayOf(seen)
  BY DEF PayFrom
<1> HIDE DEF met, kind, pay
<1>3. Decision(f, kind, pay, met, Objections(f, kind, pay, met)).pay = pay
  BY DEF Decision
<1> QED
  BY <1>1, <1>2, <1>3

\* A step either leaves the observations, and with them the pay, or gathers one.
LEMMA ObservationsGrow ==
  ASSUME PayInv, [AssessmentNext]_assessmentVars
  PROVE  /\ PayInv'
         /\ \/ gathered' = gathered /\ verdict'.pay = verdict.pay
            \/ \E o \in DOMAIN Source : gathered' = gathered \cup {o}
<1>1. ASSUME NEW f, NEW seen \in SUBSET DOMAIN Source, NEW says, NEW on,
             Reassess(f, seen, says, on)
      PROVE  gathered' = seen /\ PayInv' /\ verdict'.pay = PayOf(seen)
  <2>1. gathered' = seen /\ verdict' = AssessAs(f, seen, says, on)
    BY <1>1 DEF Reassess
  <2>2. verdict'.pay = PayOf(seen)
    BY <2>1, PayOfAssessment
  <2>3. PayOf(gathered)' = PayOf(seen)
    BY <2>1
  <2> QED
    BY <2>1, <2>2, <2>3 DEF PayInv
<1>2. gathered \in SUBSET DOMAIN Source /\ verdict.pay = PayOf(gathered)
  BY DEF PayInv
<1>3. ASSUME NEW f \in DOMAIN Ladder, NEW i \in DOMAIN Ladder[f], LearnFact(f, i)
      PROVE  PayInv' /\ gathered' = gathered /\ verdict'.pay = verdict.pay
  BY <1>1, <1>2, <1>3 DEF LearnFact
<1>4. ASSUME NEW o \in DOMAIN Source, Gather(o)
      PROVE  PayInv' /\ gathered' = gathered \cup {o}
  <2>1. gathered \cup {o} \in SUBSET DOMAIN Source
    BY <1>2
  <2> QED
    BY <1>1, <1>4, <2>1 DEF Gather
<1>5. ASSUME NEW d \in Declarable, Declare(d)
      PROVE  PayInv' /\ gathered' = gathered /\ verdict'.pay = verdict.pay
  BY <1>1, <1>2, <1>5 DEF Declare
<1>6. ASSUME PassDate
      PROVE  PayInv' /\ gathered' = gathered /\ verdict'.pay = verdict.pay
  BY <1>1, <1>2, <1>6 DEF PassDate
<1>7. ASSUME UNCHANGED assessmentVars
      PROVE  PayInv' /\ gathered' = gathered /\ verdict'.pay = verdict.pay
  <2>1. gathered' = gathered /\ verdict' = verdict
    BY <1>7 DEF assessmentVars
  <2>2. PayOf(gathered)' = PayOf(gathered)
    BY <2>1
  <2> QED
    BY <1>2, <2>1, <2>2 DEF PayInv
<1> QED
  BY <1>3, <1>4, <1>5, <1>6, <1>7 DEF AssessmentNext

\* A text that says nothing of the pay changes nothing of it, whatever else is
\* known of the posting (docs/compensation_attribution.md).
THEOREM FundsChangeNothing == AssessmentSpec => FundsFabricateNothing
<1>1. AssessmentInit => PayInv
  <2>1. SUFFICES ASSUME AssessmentInit PROVE PayInv
    OBVIOUS
  <2>2. gathered = FirstSeen /\ verdict = AssessAs(learnt, gathered, declared, date)
    BY <2>1 DEF AssessmentInit
  <2> QED
    BY <2>2, FirstSeenExist, PayOfAssessment DEF PayInv
<1>2. PayInv /\ [AssessmentNext]_assessmentVars => PayInv'
  BY ObservationsGrow
<1>3. PayInv /\ PayInv' /\ [AssessmentNext]_assessmentVars =>
        [\A o \in gathered' \ gathered :
           SaysNothingOfThePay(o) /\ (\E p \in gathered : Source[p].kind # "content_farm") =>
             verdict'.pay = verdict.pay]_assessmentVars
  <2>1. SUFFICES ASSUME PayInv, PayInv', [AssessmentNext]_assessmentVars,
                        NEW o \in gathered' \ gathered, SaysNothingOfThePay(o),
                        \E p \in gathered : Source[p].kind # "content_farm"
                 PROVE  verdict'.pay = verdict.pay
    OBVIOUS
  <2>2. PICK q \in DOMAIN Source : gathered' = gathered \cup {q}
    BY <2>1, ObservationsGrow
  <2>3. q = o
    BY <2>1, <2>2
  <2>4. SilentNews(gathered, o)
    BY <2>1, <2>2, <2>3 DEF SilentNews, SaysNothingOfThePay
  <2>5. PayOf(gathered)' = PayOf(gathered \cup {o})
    BY <2>2, <2>3
  <2>6. verdict.pay = PayOf(gathered) /\ verdict'.pay = PayOf(gathered)'
    BY <2>1 DEF PayInv
  <2> QED
    BY <2>4, <2>5, <2>6, PayKept
<1> QED
  BY <1>1, <1>2, <1>3, PTL DEF AssessmentSpec, FundsFabricateNothing

-----------------------------------------------------------------------------
(* Assessment: worse evidence.  A fact that is worse removes no objection  *)
(* and no doubt, and lowers what orders the postings of a band.            *)

\* Each fact has a value of its ladder.
AreFacts(f) ==
  /\ f = [x \in DOMAIN Ladder |-> f[x]]
  /\ \A x \in DOMAIN Ladder : \E i \in DOMAIN Ladder[x] : f[x] = Ladder[x][i]

\* The facts of g are no better than those of f, as far as the rules look.
NoBetter(f, g) ==
  /\ \A x \in {"scam", "junk", "short", "sales", "generic", "truncated", "guessed"} :
       f[x] = TRUE => g[x] = TRUE
  /\ f["easy"] = FALSE => g["easy"] = FALSE
  /\ f["place"] # "fits" => g["place"] # "fits"
  /\ f["place"] = "elsewhere" => g["place"] = "elsewhere"
  /\ f["seniority"] = "senior" => g["seniority"] = "senior"
  /\ BelowFloor(f) => BelowFloor(g)
  /\ f["match"] # "strong" => g["match"] # "strong"
  /\ f["match"] = "weak" => g["match"] = "weak"
  /\ f["specialist"] # "none" => g["specialist"] # "none"
  /\ f["specialist"] \in {"unresolved", "unclaimed"} =>
       g["specialist"] \in {"unresolved", "unclaimed"}
  /\ f["specialist"] = "unclaimed" => g["specialist"] = "unclaimed"
  /\ f["requirements"] # "complete" => g["requirements"] # "complete"
  /\ f["age"] # "fresh" => g["age"] # "fresh"
  /\ f["age"] = "undated" => g["age"] = "undated"

\* The ladders of the facts that hold or do not.
LEMMA YesOrNo ==
  /\ \A x \in {"scam", "junk", "short", "sales", "generic", "truncated", "guessed"} :
       /\ x \in DOMAIN Ladder /\ DOMAIN Ladder[x] = 1..2
       /\ Ladder[x][1] = FALSE /\ Ladder[x][2] = TRUE
  /\ "easy" \in DOMAIN Ladder /\ DOMAIN Ladder["easy"] = 1..2
  /\ Ladder["easy"][1] = TRUE /\ Ladder["easy"][2] = FALSE
<1> DEFINE yes == <<FALSE, TRUE>>
           no == <<TRUE, FALSE>>
<1>1. yes = <<FALSE, TRUE>> /\ no = <<TRUE, FALSE>>
  OBVIOUS
<1> HIDE DEF yes, no
<1>2. \A x \in {"scam", "junk", "short", "sales", "generic", "truncated", "guessed"} :
        x \in DOMAIN Ladder /\ Ladder[x] = yes
  <2>1. "scam" \in DOMAIN Ladder /\ Ladder["scam"] = yes
    BY <1>1 DEF Ladder
  <2>2. "junk" \in DOMAIN Ladder /\ Ladder["junk"] = yes
    BY <1>1 DEF Ladder
  <2>3. "short" \in DOMAIN Ladder /\ Ladder["short"] = yes
    BY <1>1 DEF Ladder
  <2>4. "sales" \in DOMAIN Ladder /\ Ladder["sales"] = yes
    BY <1>1 DEF Ladder
  <2>5. "generic" \in DOMAIN Ladder /\ Ladder["generic"] = yes
    BY <1>1 DEF Ladder
  <2>6. "truncated" \in DOMAIN Ladder /\ Ladder["truncated"] = yes
    BY <1>1 DEF Ladder
  <2>7. "guessed" \in DOMAIN Ladder /\ Ladder["guessed"] = yes
    BY <1>1 DEF Ladder
  <2> QED
    BY <2>1, <2>2, <2>3, <2>4, <2>5, <2>6, <2>7
<1>3. "easy" \in DOMAIN Ladder /\ Ladder["easy"] = no
  BY <1>1 DEF Ladder
<1>4. ASSUME NEW a, NEW b
      PROVE  DOMAIN <<a, b>> = 1..2 /\ <<a, b>>[1] = a /\ <<a, b>>[2] = b
  OBVIOUS
<1>5. /\ DOMAIN yes = 1..2 /\ yes[1] = FALSE /\ yes[2] = TRUE
      /\ DOMAIN no = 1..2 /\ no[1] = TRUE /\ no[2] = FALSE
  BY <1>1, <1>4, Zenon
<1> QED
  BY <1>2, <1>3, <1>5, Zenon

\* The trusts a posting can have: those listed, then none.
LEMMA TrustLadder ==
  /\ "trust" \in DOMAIN Ladder
  /\ \A i \in DOMAIN Ladder["trust"] :
       \/ Ladder["trust"][i] = None
       \/ /\ i \in DOMAIN PlatformTrusts /\ Ladder["trust"][i] = PlatformTrusts[i]
          /\ PlatformTrusts[i] \in 0..100
  /\ 1 \in DOMAIN Ladder["trust"] /\ DOMAIN Ladder["trust"] \subseteq Nat
  /\ \A i, j \in DOMAIN Ladder["trust"] : i < j => Ladder["trust"][i] # None
<1>1. PlatformTrusts \in Seq(0..100)
  BY BestTrustFirst
<1> DEFINE ladder == Append(PlatformTrusts, None)
<1>2. "trust" \in DOMAIN Ladder /\ Ladder["trust"] = ladder
  BY DEF Ladder
<1>3. /\ DOMAIN ladder = 1..(Len(PlatformTrusts) + 1) /\ ladder[Len(PlatformTrusts) + 1] = None
      /\ \A i \in 1..Len(PlatformTrusts) : ladder[i] = PlatformTrusts[i]
      /\ Len(PlatformTrusts) \in Nat
  BY <1>1
<1>4. \A i \in 1..Len(PlatformTrusts) : PlatformTrusts[i] \in 0..100 /\ i \in DOMAIN PlatformTrusts
  BY <1>1
<1> HIDE DEF ladder
<1>5. \A i \in DOMAIN ladder : i = Len(PlatformTrusts) + 1 \/ i \in 1..Len(PlatformTrusts)
  BY <1>3
<1>6. \A i, j \in DOMAIN ladder : i < j => ladder[i] # None
  BY <1>3, <1>4, NoneIsNoNumber
<1>7. \A i \in DOMAIN ladder :
        \/ ladder[i] = None
        \/ i \in DOMAIN PlatformTrusts /\ ladder[i] = PlatformTrusts[i] /\ PlatformTrusts[i] \in 0..100
  BY <1>3, <1>4, <1>5
<1>8. 1 \in DOMAIN ladder /\ DOMAIN ladder \subseteq Nat
  BY <1>3
<1> QED
  BY <1>2, <1>6, <1>7, <1>8

\* The values of the facts, one by one.
LEMMA FactValues ==
  ASSUME NEW f, AreFacts(f)
  PROVE  /\ \A x \in {"scam", "junk", "short", "sales", "generic", "truncated", "guessed", "easy"} :
              f[x] \in {FALSE, TRUE}
         /\ f["place"] \in {"fits", "unstated", "conflicting", "elsewhere"}
         /\ f["seniority"] \in {"unspecified", "senior"}
         /\ f["trust"] = None \/ f["trust"] \in 0..100
         /\ f["match"] \in {"strong", "medium", "weak"}
         /\ f["specialist"] \in {"none", "claimed", "unresolved", "unclaimed"}
         /\ f["requirements"] \in {"complete", "partial", "unknown"}
         /\ f["age"] \in {"fresh", "aging", "undated"}
<1>1. \A x \in DOMAIN Ladder : \E i \in DOMAIN Ladder[x] : f[x] = Ladder[x][i]
  BY DEF AreFacts
<1>2. \A x \in {"scam", "junk", "short", "sales", "generic", "truncated", "guessed", "easy"} :
        f[x] \in {FALSE, TRUE}
  <2>1. \A i \in 1..2 : i = 1 \/ i = 2
    OBVIOUS
  <2>2. ASSUME NEW x \in {"scam", "junk", "short", "sales", "generic", "truncated", "guessed"}
        PROVE  f[x] = FALSE \/ f[x] = TRUE
    <3>1. /\ x \in DOMAIN Ladder /\ DOMAIN Ladder[x] = 1..2
          /\ Ladder[x][1] = FALSE /\ Ladder[x][2] = TRUE
      BY <2>2, YesOrNo, Zenon
    <3> QED
      BY <1>1, <2>1, <3>1, Zenon
  <2>3. f["easy"] = FALSE \/ f["easy"] = TRUE
    BY <1>1, <2>1, YesOrNo, Zenon
  <2> QED
    BY <2>2, <2>3, Zenon
<1>3. f["place"] \in {"fits", "unstated", "conflicting", "elsewhere"}
  <2>1. "place" \in DOMAIN Ladder /\ Ladder["place"] = <<"fits", "unstated", "conflicting", "elsewhere">>
    BY DEF Ladder
  <2> QED
    BY <1>1, <2>1
<1>4. f["seniority"] \in {"unspecified", "senior"}
  BY <1>1 DEF Ladder
<1>5. f["trust"] = None \/ f["trust"] \in 0..100
  BY <1>1, TrustLadder
<1>6. f["match"] \in {"strong", "medium", "weak"}
  BY <1>1 DEF Ladder
<1>7. f["specialist"] \in {"none", "claimed", "unresolved", "unclaimed"}
  <2>1. "specialist" \in DOMAIN Ladder /\ Ladder["specialist"] = <<"none", "claimed", "unresolved", "unclaimed">>
    BY DEF Ladder
  <2> QED
    BY <1>1, <2>1
<1>8. f["requirements"] \in {"complete", "partial", "unknown"}
  BY <1>1 DEF Ladder
<1>9. f["age"] \in {"fresh", "aging", "undated"}
  BY <1>1 DEF Ladder
<1> QED
  BY <1>2, <1>3, <1>4, <1>5, <1>6, <1>7, <1>8, <1>9

\* A step down a ladder is no better in any respect.
LEMMA StepsDown ==
  ASSUME NEW f, NEW g, AreFacts(f), AreFacts(g), NEW x \in DOMAIN Ladder,
         \A y \in DOMAIN Ladder : y # x => g[y] = f[y],
         NEW i \in DOMAIN Ladder[x], NEW j \in DOMAIN Ladder[x],
         f[x] = Ladder[x][i], g[x] = Ladder[x][j],
         IF x = "trust" THEN BelowFloor(f) => BelowFloor(g) ELSE i < j
  PROVE  NoBetter(f, g)
<1>1. DOMAIN Ladder =
        {"scam", "junk", "place", "seniority", "trust", "match", "short", "sales", "generic",
         "specialist", "requirements", "easy", "truncated", "guessed", "age"}
  BY DEF Ladder
<1>12. x # "trust" => i < j /\ (BelowFloor(f) <=> BelowFloor(g))
  BY <1>1 DEF BelowFloor
<1>2. ASSUME x \in {"scam", "junk", "short", "sales", "generic", "truncated", "guessed"}
      PROVE  f[x] = FALSE /\ g[x] = TRUE
  <2>1. i = 1 /\ j = 2
    BY <1>2, <1>12, YesOrNo
  <2> QED
    BY <1>2, <2>1, YesOrNo, Zenon
<1>3. x = "easy" => g["easy"] = FALSE
  <2>1. x = "easy" => j = 2
    BY <1>12, YesOrNo
  <2> QED
    BY <2>1, YesOrNo, Zenon
<1>4. CASE x \in {"scam", "junk", "short", "sales", "generic", "truncated", "guessed", "easy"}
  BY <1>1, <1>2, <1>3, <1>4, <1>12 DEF NoBetter
<1>5. CASE x = "place"
  <2>1. g["place"] # "fits" /\ (f["place"] = "elsewhere" => g["place"] = "elsewhere")
    BY <1>5, <1>12 DEF Ladder
  <2> QED
    BY <1>1, <1>5, <1>12, <2>1 DEF NoBetter
<1>6. CASE x = "seniority"
  <2>1. g["seniority"] = "senior"
    BY <1>6, <1>12 DEF Ladder
  <2> QED
    BY <1>1, <1>6, <1>12, <2>1 DEF NoBetter
<1>7. CASE x = "trust"
  BY <1>1, <1>7 DEF NoBetter
<1>8. CASE x = "match"
  <2>1. g["match"] # "strong" /\ (f["match"] = "weak" => g["match"] = "weak")
    BY <1>8, <1>12 DEF Ladder
  <2> QED
    BY <1>1, <1>8, <1>12, <2>1 DEF NoBetter
<1>9. CASE x = "specialist"
  <2>1. /\ g["specialist"] # "none"
        /\ f["specialist"] \in {"unresolved", "unclaimed"} =>
             g["specialist"] \in {"unresolved", "unclaimed"}
        /\ f["specialist"] = "unclaimed" => g["specialist"] = "unclaimed"
    BY <1>9, <1>12 DEF Ladder
  <2> QED
    BY <1>1, <1>9, <1>12, <2>1 DEF NoBetter
<1>10. CASE x = "requirements"
  <2>1. g["requirements"] # "complete"
    BY <1>10, <1>12 DEF Ladder
  <2> QED
    BY <1>1, <1>10, <1>12, <2>1 DEF NoBetter
<1>11. CASE x = "age"
  <2>1. g["age"] # "fresh" /\ (f["age"] = "undated" => g["age"] = "undated")
    BY <1>11, <1>12 DEF Ladder
  <2> QED
    BY <1>1, <1>11, <1>12, <2>1 DEF NoBetter
<1> QED
  BY <1>1, <1>4, <1>5, <1>6, <1>7, <1>8, <1>9, <1>10, <1>11

\* There is nothing against a posting when none of the grounds is met.
LEMMA Unobjected ==
  ASSUME NEW f, NEW kind, NEW pay, NEW met
  PROVE  Objections(f, kind, pay, met) = {} <=>
           \A s \in {"scam", "source_quality", "location", "language", "credentials",
                     "seniority", "pay", "trust", "role", "low_evidence"} :
             ~Grounds(f, kind, pay, met)[s]
<1> DEFINE names == {"scam", "source_quality", "location", "language", "credentials",
                     "seniority", "pay", "trust", "role", "low_evidence"}
           grounds == Grounds(f, kind, pay, met)
<1>1. \A i \in DOMAIN VetoOrder : VetoOrder[i] \in names
  BY DEF VetoOrder
<1>2. \A s \in names : \E i \in DOMAIN VetoOrder : VetoOrder[i] = s
  BY DEF VetoOrder
<1>3. Objections(f, kind, pay, met) = {i \in DOMAIN VetoOrder : grounds[VetoOrder[i]]}
  BY DEF Objections
<1> SUFFICES Objections(f, kind, pay, met) = {} <=> \A s \in names : ~grounds[s]
  OBVIOUS
<1> HIDE DEF names, grounds
<1> QED
  BY <1>1, <1>2, <1>3, Zenon

\* What is met of the grounds.
LEMMA GroundsMet ==
  ASSUME NEW f, NEW kind, NEW pay, NEW met, AreFacts(f)
  PROVE  /\ Grounds(f, kind, pay, met)["scam"] <=> f["scam"] = TRUE
         /\ Grounds(f, kind, pay, met)["source_quality"] <=>
              f["junk"] = TRUE \/ kind = "content_farm"
         /\ Grounds(f, kind, pay, met)["location"] <=> f["place"] = "elsewhere"
         /\ Grounds(f, kind, pay, met)["language"] <=> "language" \in met.blockers
         /\ Grounds(f, kind, pay, met)["credentials"] <=>
              met.blockers \cap {"credentials", "experience"} # {}
         /\ Grounds(f, kind, pay, met)["seniority"] <=> f["seniority"] = "senior"
         /\ Grounds(f, kind, pay, met)["pay"] <=> MeetsFloor(pay.claim) = FALSE
         /\ Grounds(f, kind, pay, met)["trust"] <=> BelowFloor(f)
         /\ Grounds(f, kind, pay, met)["role"] <=> RoleMismatch(f, met)
         /\ Grounds(f, kind, pay, met)["low_evidence"] <=> LowEvidence(f)
<1> USE DEF Grounds
<1>1. f["scam"] \in {FALSE, TRUE} /\ f["junk"] \in {FALSE, TRUE}
  BY FactValues
<1>2. Grounds(f, kind, pay, met)["scam"] <=> f["scam"] = TRUE
  BY <1>1
<1>3. Grounds(f, kind, pay, met)["source_quality"] <=> f["junk"] = TRUE \/ kind = "content_farm"
  BY <1>1
<1>4. /\ Grounds(f, kind, pay, met)["location"] <=> f["place"] = "elsewhere"
      /\ Grounds(f, kind, pay, met)["seniority"] <=> f["seniority"] = "senior"
      /\ Grounds(f, kind, pay, met)["trust"] <=> BelowFloor(f)
  OBVIOUS
<1>5. /\ Grounds(f, kind, pay, met)["language"] <=> "language" \in met.blockers
      /\ Grounds(f, kind, pay, met)["credentials"] <=>
           met.blockers \cap {"credentials", "experience"} # {}
  OBVIOUS
<1>6. Grounds(f, kind, pay, met)["pay"] <=> MeetsFloor(pay.claim) = FALSE
  OBVIOUS
<1>7. Grounds(f, kind, pay, met)["role"] <=> RoleMismatch(f, met)
  OBVIOUS
<1>8. Grounds(f, kind, pay, met)["low_evidence"] <=> LowEvidence(f)
  OBVIOUS
<1> HIDE DEF Grounds
<1> QED
  BY <1>2, <1>3, <1>4, <1>5, <1>6, <1>7, <1>8, Zenon

\* The two grounds that hang together: one is met with the worse facts if one
\* is met with the better.
LEMMA MismatchStays ==
  ASSUME NEW f, NEW g, NEW met, AreFacts(f), AreFacts(g), NoBetter(f, g),
         ~RoleMismatch(g, met), ~LowEvidence(g)
  PROVE  ~RoleMismatch(f, met) /\ ~LowEvidence(f)
<1>1. /\ f["sales"] \in {FALSE, TRUE} /\ f["generic"] \in {FALSE, TRUE}
      /\ g["sales"] \in {FALSE, TRUE} /\ g["generic"] \in {FALSE, TRUE}
  BY FactValues
<1>2. /\ g["match"] # "weak" /\ g["sales"] # TRUE /\ g["generic"] # TRUE
      /\ ~OutsideTarget(g, met)
  BY <1>1 DEF RoleMismatch, LowEvidence
<1>3. /\ f["match"] # "weak" /\ f["sales"] # TRUE /\ f["generic"] # TRUE
      /\ f["specialist"] = "unclaimed" => g["specialist"] = "unclaimed"
  BY <1>2 DEF NoBetter
<1>4. ~OutsideTarget(f, met)
  BY <1>2, <1>3 DEF OutsideTarget
<1> QED
  BY <1>1, <1>3, <1>4 DEF RoleMismatch, LowEvidence

\* What is known when nothing is against a posting.
LEMMA NothingAgainst ==
  ASSUME NEW g, NEW kind, NEW pay, NEW met, AreFacts(g), Objections(g, kind, pay, met) = {}
  PROVE  /\ g["scam"] # TRUE /\ g["junk"] # TRUE /\ kind # "content_farm"
         /\ g["place"] # "elsewhere" /\ "language" \notin met.blockers
         /\ met.blockers \cap {"credentials", "experience"} = {}
         /\ g["seniority"] # "senior" /\ MeetsFloor(pay.claim) # FALSE
         /\ ~BelowFloor(g) /\ ~RoleMismatch(g, met) /\ ~LowEvidence(g)
<1>1. \A s \in {"scam", "source_quality", "location", "language", "credentials",
                   "seniority", "pay", "trust", "role", "low_evidence"} :
           ~Grounds(g, kind, pay, met)[s]
  BY Unobjected, Zenon
<1>2. /\ ~Grounds(g, kind, pay, met)["scam"] /\ ~Grounds(g, kind, pay, met)["source_quality"]
      /\ ~Grounds(g, kind, pay, met)["location"] /\ ~Grounds(g, kind, pay, met)["language"]
      /\ ~Grounds(g, kind, pay, met)["credentials"]
      /\ ~Grounds(g, kind, pay, met)["seniority"] /\ ~Grounds(g, kind, pay, met)["pay"]
      /\ ~Grounds(g, kind, pay, met)["trust"] /\ ~Grounds(g, kind, pay, met)["role"]
      /\ ~Grounds(g, kind, pay, met)["low_evidence"]
  BY <1>1, Zenon
<1> QED
  BY <1>2, GroundsMet, Zenon

\* No objection goes with a worse fact.
LEMMA ObjectionsStay ==
  ASSUME NEW f, NEW g, NEW kind, NEW pay, NEW met,
         AreFacts(f), AreFacts(g), NoBetter(f, g), Objections(g, kind, pay, met) = {}
  PROVE  Objections(f, kind, pay, met) = {}
<1>1. /\ g["scam"] # TRUE /\ g["junk"] # TRUE /\ kind # "content_farm"
      /\ g["place"] # "elsewhere" /\ "language" \notin met.blockers
      /\ met.blockers \cap {"credentials", "experience"} = {}
      /\ g["seniority"] # "senior" /\ MeetsFloor(pay.claim) # FALSE
      /\ ~BelowFloor(g) /\ ~RoleMismatch(g, met) /\ ~LowEvidence(g)
  BY NothingAgainst, Zenon
<1>2. ~RoleMismatch(f, met) /\ ~LowEvidence(f)
  BY <1>1, MismatchStays, Zenon
<1>3. /\ f["scam"] # TRUE /\ f["junk"] # TRUE /\ f["place"] # "elsewhere"
      /\ f["seniority"] # "senior" /\ ~BelowFloor(f)
  BY <1>1 DEF NoBetter
<1>4. /\ ~Grounds(f, kind, pay, met)["scam"] /\ ~Grounds(f, kind, pay, met)["source_quality"]
      /\ ~Grounds(f, kind, pay, met)["location"] /\ ~Grounds(f, kind, pay, met)["language"]
      /\ ~Grounds(f, kind, pay, met)["credentials"]
      /\ ~Grounds(f, kind, pay, met)["seniority"] /\ ~Grounds(f, kind, pay, met)["pay"]
      /\ ~Grounds(f, kind, pay, met)["trust"] /\ ~Grounds(f, kind, pay, met)["role"]
      /\ ~Grounds(f, kind, pay, met)["low_evidence"]
  <2>1. ~Grounds(f, kind, pay, met)["scam"] /\ ~Grounds(f, kind, pay, met)["source_quality"]
    BY <1>1, <1>3, GroundsMet, Zenon
  <2>2. ~Grounds(f, kind, pay, met)["location"] /\ ~Grounds(f, kind, pay, met)["language"]
    BY <1>1, <1>3, GroundsMet, Zenon
  <2>3. ~Grounds(f, kind, pay, met)["credentials"] /\ ~Grounds(f, kind, pay, met)["seniority"]
    BY <1>1, <1>3, GroundsMet, Zenon
  <2>4. ~Grounds(f, kind, pay, met)["pay"] /\ ~Grounds(f, kind, pay, met)["trust"]
    <3>1. Grounds(f, kind, pay, met)["pay"] <=> MeetsFloor(pay.claim) = FALSE
      BY DEF Grounds
    <3>2. Grounds(f, kind, pay, met)["trust"] <=> BelowFloor(f)
      BY GroundsMet, Zenon
    <3> QED
      BY <1>1, <1>3, <3>1, <3>2
  <2>5. ~Grounds(f, kind, pay, met)["role"] /\ ~Grounds(f, kind, pay, met)["low_evidence"]
    BY <1>2, GroundsMet, Zenon
  <2> QED
    BY <2>1, <2>2, <2>3, <2>4, <2>5
<1>5. \A s \in {"scam", "source_quality", "location", "language", "credentials",
                   "seniority", "pay", "trust", "role", "low_evidence"} :
           ~Grounds(f, kind, pay, met)[s]
  BY <1>4, Zenon
<1> QED
  BY <1>5, Unobjected, Zenon

\* When there is nothing left to verify.
LEMMA Undoubted ==
  ASSUME NEW f, NEW pay, NEW met, NEW objections, AreFacts(f)
  PROVE  Doubts(f, pay, met, objections) = {} <=>
           /\ met.unverified = {}
           /\ f["place"] # "unstated" /\ f["place"] # "conflicting"
           /\ f["specialist"] # "unresolved"
           /\ ~(objections = {} /\ f["requirements"] # "complete" /\ f["specialist"] # "none")
           /\ f["truncated"] # TRUE /\ f["guessed"] # TRUE /\ ~pay.conflict
<1> DEFINE names == {"location_scope_unknown", "location_scope_conflict", "specialist_domain",
                     "specialist_requirements", "title_truncated", "company_identity",
                     "pay_conflict"}
           Open(d) ==
             CASE d = "location_scope_unknown" -> f.place = "unstated"
               [] d = "location_scope_conflict" -> f.place = "conflicting"
               [] d = "specialist_domain" -> f.specialist = "unresolved"
               [] d = "specialist_requirements" ->
                    objections = {} /\ f.requirements # "complete" /\ f.specialist # "none"
               [] d = "title_truncated" -> f.truncated
               [] d = "company_identity" -> f.guessed
               [] d = "pay_conflict" -> pay.conflict
<1>1. Doubts(f, pay, met, objections) = met.unverified \cup {d \in names : Open(d)}
  BY DEF Doubts
<1>2. f["truncated"] \in {FALSE, TRUE} /\ f["guessed"] \in {FALSE, TRUE}
  BY FactValues
<1>3. /\ Open("location_scope_unknown") <=> f["place"] = "unstated"
      /\ Open("location_scope_conflict") <=> f["place"] = "conflicting"
      /\ Open("specialist_domain") <=> f["specialist"] = "unresolved"
  OBVIOUS
<1>4. Open("specialist_requirements") <=>
        objections = {} /\ f["requirements"] # "complete" /\ f["specialist"] # "none"
  OBVIOUS
<1>5. Open("title_truncated") <=> f["truncated"] = TRUE
  BY <1>2
<1>6. Open("company_identity") <=> f["guessed"] = TRUE
  BY <1>2
<1>7. Open("pay_conflict") <=> pay.conflict
  OBVIOUS
<1>8. (\A d \in names : ~Open(d)) <=>
        /\ ~Open("location_scope_unknown") /\ ~Open("location_scope_conflict")
        /\ ~Open("specialist_domain") /\ ~Open("specialist_requirements")
        /\ ~Open("title_truncated") /\ ~Open("company_identity") /\ ~Open("pay_conflict")
  <2> HIDE DEF Open
  <2> QED
    BY Zenon DEF names
<1> HIDE DEF names, Open
<1>9. Doubts(f, pay, met, objections) = {} <=>
        met.unverified = {} /\ \A d \in names : ~Open(d)
  BY <1>1, Zenon
<1> QED
  BY <1>3, <1>4, <1>5, <1>6, <1>7, <1>8, <1>9

\* No doubt of a posting goes with a worse fact, unless an objection comes.
LEMMA DoubtsStay ==
  ASSUME NEW f, NEW g, NEW kind, NEW pay, NEW met, AreFacts(f), AreFacts(g), NoBetter(f, g),
         Objections(g, kind, pay, met) = {}, Doubts(g, pay, met, {}) = {}
  PROVE  Doubts(f, pay, met, {}) = {}
<1>1. /\ met.unverified = {}
      /\ g["place"] # "unstated" /\ g["place"] # "conflicting"
      /\ g["specialist"] # "unresolved"
      /\ ~(g["requirements"] # "complete" /\ g["specialist"] # "none")
      /\ g["truncated"] # TRUE /\ g["guessed"] # TRUE /\ ~pay.conflict
  BY Undoubted
<1>2. g["place"] # "elsewhere" /\ ~RoleMismatch(g, met) /\ ~LowEvidence(g)
  BY NothingAgainst, Zenon
<1>3. g["place"] = "fits" /\ g["specialist"] # "unclaimed"
  BY <1>1, <1>2, FactValues DEF RoleMismatch, OutsideTarget
<1>4. /\ f["place"] = "fits" /\ f["specialist"] \notin {"unresolved", "unclaimed"}
      /\ ~(f["requirements"] # "complete" /\ f["specialist"] # "none")
  BY <1>1, <1>3 DEF NoBetter
<1>5. f["truncated"] # TRUE /\ f["guessed"] # TRUE
  BY <1>1 DEF NoBetter
<1> QED
  BY <1>1, <1>4, <1>5, Undoubted

\* Nor does eligibility come with one.
LEMMA EligibilityStays ==
  ASSUME NEW f, NEW g, NEW kind, NEW pay, NEW met, AreFacts(f), AreFacts(g), NoBetter(f, g),
         Objections(g, kind, pay, met) = {}, Eligibility(g, met, {}) = "passed"
  PROVE  Eligibility(f, met, {}) = "passed"
<1>1. /\ "language_unverified" \notin met.unverified
      /\ g["specialist"] # "unresolved" /\ g["requirements"] = "complete"
  BY DEF Eligibility
<1>2. ~RoleMismatch(g, met) /\ ~LowEvidence(g)
  BY NothingAgainst, Zenon
<1>3. g["specialist"] # "unclaimed"
  BY <1>2 DEF RoleMismatch, OutsideTarget
<1>4. f["specialist"] # "unresolved" /\ f["requirements"] = "complete"
  BY <1>1, <1>3 DEF NoBetter
<1> QED
  BY <1>1, <1>4 DEF Eligibility

\* The best kind of the observations of a posting is one of those there are.
LEMMA BestKindKnown ==
  ASSUME NEW seen \in SUBSET DOMAIN Source, seen # {}
  PROVE  \E i \in DOMAIN Authority : BestKind(seen) = Authority[i]
<1> DEFINE ranks == {i \in DOMAIN Authority : \E o \in seen : Source[o].kind = Authority[i]}
<1>1. PICK o \in seen : TRUE
  OBVIOUS
<1>2. Source[o].kind \in Range(Authority)
  BY KindsAreKnown
<1>3. PICK i \in DOMAIN Authority : Source[o].kind = Authority[i]
  BY <1>2 DEF Range
<1>4. i \in ranks
  BY <1>1, <1>3
<1>5. DOMAIN Authority = 1..7
  BY DEF Authority
<1>6. BestKind(seen) = Authority[Max(ranks)]
  BY DEF BestKind
<1>7. ranks \in SUBSET (1..7)
  BY <1>5
<1> HIDE DEF ranks
<1>8. \E m \in ranks : \A x \in ranks : m >= x
  BY <1>4, <1>7
<1>9. Max(ranks) \in ranks
  BY <1>8, Zenon DEF Max
<1> QED
  BY <1>5, <1>6, <1>7, <1>9

\* What orders the postings, one by one: no component is greater with the
\* worse facts.  A trust is below the floor when it counts less than any other
\* trust of a posting.
LEMMA TrustCounts ==
  ASSUME NEW f, NEW i \in DOMAIN Authority, AreFacts(f)
  PROVE  /\ Trust(f, Authority[i]) \in Int
         /\ BelowFloor(f) <=> Trust(f, Authority[i]) < 17
<1>1. Authority[i] \in {"content_farm", "unknown", "aggregator_unresolved", "reputable_board",
                        "email_offer", "original_ats", "original_employer"}
  BY DEF Authority
<1>2. KindPrior(Authority[i]) \in 20..70
  BY <1>1 DEF KindPrior
<1>3. f["trust"] = None \/ f["trust"] \in 0..100
  BY FactValues
<1> QED
  BY <1>2, <1>3, NoneIsNoNumber DEF Trust, BelowFloor

\* A worse trust counts no more, and stays below the floor.
LEMMA TrustFalls ==
  ASSUME NEW f, NEW g, NEW n \in DOMAIN Authority, AreFacts(f), AreFacts(g),
         NEW i \in DOMAIN Ladder["trust"], NEW j \in DOMAIN Ladder["trust"],
         f["trust"] = Ladder["trust"][i], g["trust"] = Ladder["trust"][j],
         IF None \in {Ladder["trust"][i], Ladder["trust"][j]}
         THEN Trust(g, Authority[n]) < Trust(f, Authority[n])
         ELSE i < j
  PROVE  /\ Trust(g, Authority[n]) <= Trust(f, Authority[n])
         /\ BelowFloor(f) => BelowFloor(g)
<1>1. /\ Trust(f, Authority[n]) \in Int /\ Trust(g, Authority[n]) \in Int
      /\ BelowFloor(f) <=> Trust(f, Authority[n]) < 17
      /\ BelowFloor(g) <=> Trust(g, Authority[n]) < 17
  BY TrustCounts
<1>2. CASE None \in {Ladder["trust"][i], Ladder["trust"][j]}
  BY <1>1, <1>2
<1>3. CASE None \notin {Ladder["trust"][i], Ladder["trust"][j]}
  <2>1. /\ i \in DOMAIN PlatformTrusts /\ j \in DOMAIN PlatformTrusts
        /\ f["trust"] = PlatformTrusts[i] /\ g["trust"] = PlatformTrusts[j]
        /\ PlatformTrusts[i] \in 0..100 /\ PlatformTrusts[j] \in 0..100
    BY <1>3, TrustLadder
  <2>2. f["trust"] > g["trust"]
    BY <1>3, <2>1, BestTrustFirst
  <2>3. Trust(g, Authority[n]) <= Trust(f, Authority[n])
    BY <2>1, <2>2, NoneIsNoNumber DEF Trust
  <2> QED
    BY <1>1, <2>3
<1> QED
  BY <1>2, <1>3

\* An older posting, or one that is harder to enter, is no fresher.
LEMMA FreshnessFalls ==
  ASSUME NEW f, NEW g, AreFacts(f), AreFacts(g), NoBetter(f, g)
  PROVE  Freshness(f) \in Int /\ Freshness(g) \in Int /\ Freshness(g) <= Freshness(f)
<1>1. f["easy"] \in {FALSE, TRUE} /\ g["easy"] \in {FALSE, TRUE}
  BY FactValues
<1>2. /\ f["age"] # "fresh" => g["age"] # "fresh"
      /\ f["age"] = "undated" => g["age"] = "undated"
      /\ f["easy"] = FALSE => g["easy"] = FALSE
  BY DEF NoBetter
<1> QED
  BY <1>1, <1>2 DEF Freshness

\* How well the posting matches, and what it is worth.
MatchRank(f) == CASE f.match = "strong" -> 2 [] f.match = "medium" -> 1 [] OTHER -> 0
WorthRank(f, pay) ==
  LET economics == Economics(pay.claim, pay.credibility, f.match = "weak")
  IN  CASE economics = "excellent" -> 3 [] economics \in {"viable", "budget_known"} -> 2
        [] economics = "unknown" -> 1 [] OTHER -> 0
ReadyRank(objections, doubts) == IF objections # {} THEN 0 ELSE IF doubts = {} THEN 2 ELSE 1

\* A weaker match is worth no more.
LEMMA RanksFall ==
  ASSUME NEW f, NEW g, NEW pay, AreFacts(f), AreFacts(g), NoBetter(f, g)
  PROVE  /\ MatchRank(f) \in Int /\ MatchRank(g) \in Int /\ MatchRank(g) <= MatchRank(f)
         /\ WorthRank(f, pay) \in Int /\ WorthRank(g, pay) \in Int
         /\ WorthRank(g, pay) <= WorthRank(f, pay)
<1>1. /\ f["match"] \in {"strong", "medium", "weak"} /\ g["match"] \in {"strong", "medium", "weak"}
      /\ f["match"] # "strong" => g["match"] # "strong"
      /\ f["match"] = "weak" => g["match"] = "weak"
  BY FactValues DEF NoBetter
<1>2. MatchRank(f) \in Int /\ MatchRank(g) \in Int /\ MatchRank(g) <= MatchRank(f)
  BY <1>1 DEF MatchRank
<1> DEFINE worth(e) == CASE e = "excellent" -> 3 [] e \in {"viable", "budget_known"} -> 2
                         [] e = "unknown" -> 1 [] OTHER -> 0
           strong == Economics(pay.claim, pay.credibility, FALSE)
           weak == Economics(pay.claim, pay.credibility, TRUE)
<1>3. weak = strong \/ (strong = "budget_known" /\ weak = "unknown")
  BY DEF Economics
<1>4. WorthRank(f, pay) = worth(IF f["match"] = "weak" THEN weak ELSE strong)
  <2>1. CASE f["match"] = "weak"
    BY <2>1, Zenon DEF WorthRank
  <2>2. CASE f["match"] # "weak"
    BY <2>2, Zenon DEF WorthRank
  <2> QED
    BY <2>1, <2>2
<1>5. WorthRank(g, pay) = worth(IF g["match"] = "weak" THEN weak ELSE strong)
  <2>1. CASE g["match"] = "weak"
    BY <2>1, Zenon DEF WorthRank
  <2>2. CASE g["match"] # "weak"
    BY <2>2, Zenon DEF WorthRank
  <2> QED
    BY <2>1, <2>2
<1> HIDE DEF strong, weak
<1>6. \A e : worth(e) \in 0..3
  OBVIOUS
<1>7. worth(weak) <= worth(strong)
  BY <1>3
<1> HIDE DEF worth
<1> QED
  BY <1>1, <1>2, <1>4, <1>5, <1>6, <1>7

\* Where a posting stands, one component after another.
BandAs(f, pay, met, objections) ==
  BandOf(objections, Doubts(f, pay, met, objections), Eligibility(f, met, objections))
ReadyAs(f, pay, met, objections) == ReadyRank(objections, Doubts(f, pay, met, objections))

\* A place is the band, then what orders the postings of the band.
LEMMA StandsAt ==
  ASSUME NEW f, NEW kind, NEW pay, NEW met
  PROVE  /\ DOMAIN Stands(AssessFrom(f, kind, pay, met)) = 1..8
         /\ Stands(AssessFrom(f, kind, pay, met))[1] =
              BandOrder[BandAs(f, pay, met, Objections(f, kind, pay, met))]
         /\ Stands(AssessFrom(f, kind, pay, met))[2] =
              ReadyAs(f, pay, met, Objections(f, kind, pay, met))
         /\ Stands(AssessFrom(f, kind, pay, met))[3] = MatchRank(f)
         /\ Stands(AssessFrom(f, kind, pay, met))[4] = WorthRank(f, pay)
         /\ Stands(AssessFrom(f, kind, pay, met))[5] = LanguageEdge(demands)
         /\ Stands(AssessFrom(f, kind, pay, met))[6] = SourceOrder(kind)
         /\ Stands(AssessFrom(f, kind, pay, met))[7] = Trust(f, kind)
         /\ Stands(AssessFrom(f, kind, pay, met))[8] = Freshness(f)
<1> DEFINE objections == Objections(f, kind, pay, met)
           doubts == Doubts(f, pay, met, objections)
           v == AssessFrom(f, kind, pay, met)
           band == BandOf(objections, doubts, Eligibility(f, met, objections))
<1>1. v.band = band /\ v.priority = PriorityKey(f, kind, pay, objections, doubts)
  BY DEF AssessFrom, Decision
<1> HIDE DEF objections, doubts, v, band
<1>2. PriorityKey(f, kind, pay, objections, doubts) =
        <<ReadyRank(objections, doubts), MatchRank(f), WorthRank(f, pay), LanguageEdge(demands),
          SourceOrder(kind), Trust(f, kind), Freshness(f)>>
  BY Zenon DEF PriorityKey, ReadyRank, MatchRank, WorthRank
<1>3. Stands(v) =
        <<BandOrder[band]>> \o
        <<ReadyRank(objections, doubts), MatchRank(f), WorthRank(f, pay), LanguageEdge(demands),
          SourceOrder(kind), Trust(f, kind), Freshness(f)>>
  BY <1>1, <1>2, Zenon DEF Stands
<1>4. /\ DOMAIN Stands(v) = 1..8 /\ Stands(v)[1] = BandOrder[band]
      /\ Stands(v)[2] = ReadyRank(objections, doubts) /\ Stands(v)[3] = MatchRank(f)
      /\ Stands(v)[4] = WorthRank(f, pay) /\ Stands(v)[5] = LanguageEdge(demands)
      /\ Stands(v)[6] = SourceOrder(kind) /\ Stands(v)[7] = Trust(f, kind)
      /\ Stands(v)[8] = Freshness(f)
  BY <1>3
<1> QED
  BY <1>4, Zenon DEF v, band, objections, doubts, BandAs, ReadyAs

\* No component is greater with the worse facts, so the posting is not before
\* where it stood.
LEMMA WorseStands ==
  ASSUME NEW f, NEW g, NEW i \in DOMAIN Authority,
         NEW pay, NEW met, AreFacts(f), AreFacts(g), NoBetter(f, g),
         Trust(g, Authority[i]) <= Trust(f, Authority[i])
  PROVE  ~MovesUp(AssessFrom(f, Authority[i], pay, met), AssessFrom(g, Authority[i], pay, met))
<1> DEFINE kind == Authority[i]
           before == Objections(f, kind, pay, met)
           after == Objections(g, kind, pay, met)
           v == Stands(AssessFrom(f, kind, pay, met))
           w == Stands(AssessFrom(g, kind, pay, met))
           bandBefore == BandAs(f, pay, met, before)
           bandAfter == BandAs(g, pay, met, after)
           readyBefore == ReadyAs(f, pay, met, before)
           readyAfter == ReadyAs(g, pay, met, after)
<1>1. after = {} => before = {}
  BY ObjectionsStay
<1>2. after = {} /\ Doubts(g, pay, met, {}) = {} => Doubts(f, pay, met, {}) = {}
  BY DoubtsStay
<1>3. after = {} /\ Eligibility(g, met, {}) = "passed" => Eligibility(f, met, {}) = "passed"
  BY EligibilityStays
<1>4. Trust(f, kind) \in Int /\ Trust(g, kind) \in Int /\ Trust(g, kind) <= Trust(f, kind)
  BY TrustCounts
<1>5. /\ DOMAIN v = 1..8 /\ v[1] = BandOrder[bandBefore] /\ v[2] = readyBefore
      /\ v[3] = MatchRank(f) /\ v[4] = WorthRank(f, pay) /\ v[5] = LanguageEdge(demands)
      /\ v[6] = SourceOrder(kind) /\ v[7] = Trust(f, kind) /\ v[8] = Freshness(f)
  BY StandsAt
<1>6. /\ w[1] = BandOrder[bandAfter] /\ w[2] = readyAfter
      /\ w[3] = MatchRank(g) /\ w[4] = WorthRank(g, pay) /\ w[5] = LanguageEdge(demands)
      /\ w[6] = SourceOrder(kind) /\ w[7] = Trust(g, kind) /\ w[8] = Freshness(g)
  BY StandsAt
<1>7. LanguageEdge(demands) \in Int /\ SourceOrder(kind) \in Int
  BY DEF LanguageEdge, SourceOrder
<1>8. MovesUp(AssessFrom(f, kind, pay, met), AssessFrom(g, kind, pay, met)) =>
        \E n \in DOMAIN v : w[n] > v[n]
  BY Zenon DEF MovesUp
<1> HIDE DEF kind, before, after, v, w
<1>9. /\ BandOrder[bandBefore] \in Int /\ BandOrder[bandAfter] \in Int
      /\ BandOrder[bandAfter] <= BandOrder[bandBefore]
  <2>1. /\ BandOrder["primary"] = 2 /\ BandOrder["verify"] = 1 /\ BandOrder["reject"] = 0
    BY DEF BandOrder
  <2>2. CASE after # {}
    BY <2>1, <2>2 DEF BandAs, BandOf
  <2>3. CASE after = {}
    BY <1>1, <1>2, <1>3, <2>1, <2>3 DEF BandAs, BandOf
  <2> QED
    BY <2>2, <2>3
<1>10. readyBefore \in Int /\ readyAfter \in Int /\ readyAfter <= readyBefore
  <2>1. CASE after # {}
    BY <2>1 DEF ReadyAs, ReadyRank
  <2>2. CASE after = {}
    BY <1>1, <1>2, <2>2 DEF ReadyAs, ReadyRank
  <2> QED
    BY <2>1, <2>2
<1>11. \A n \in 1..8 : ~(w[n] > v[n])
  <2>1. MatchRank(f) \in Int /\ MatchRank(g) \in Int /\ MatchRank(g) <= MatchRank(f)
    BY RanksFall
  <2>2. /\ WorthRank(f, pay) \in Int /\ WorthRank(g, pay) \in Int
        /\ WorthRank(g, pay) <= WorthRank(f, pay)
    BY RanksFall
  <2> HIDE DEF bandBefore, bandAfter, readyBefore, readyAfter
  <2>3. Freshness(f) \in Int /\ Freshness(g) \in Int /\ Freshness(g) <= Freshness(f)
    BY FreshnessFalls
  <2>4. ~(w[1] > v[1]) /\ ~(w[2] > v[2])
    BY <1>5, <1>6, <1>9, <1>10
  <2>5. ~(w[3] > v[3]) /\ ~(w[4] > v[4])
    BY <1>5, <1>6, <2>1, <2>2
  <2>6. ~(w[5] > v[5]) /\ ~(w[6] > v[6])
    BY <1>5, <1>6, <1>7
  <2>7. ~(w[7] > v[7]) /\ ~(w[8] > v[8])
    BY <1>4, <1>5, <1>6, <2>3
  <2> QED
    BY <2>4, <2>5, <2>6, <2>7
<1> QED
  BY <1>5, <1>8, <1>11 DEF kind

\* No ladder has a value twice.
LEMMA LaddersDistinct ==
  ASSUME NEW x \in DOMAIN Ladder, NEW i \in DOMAIN Ladder[x], NEW j \in DOMAIN Ladder[x], i < j
  PROVE  Ladder[x][i] # Ladder[x][j]
<1>1. DOMAIN Ladder =
        {"scam", "junk", "place", "seniority", "trust", "match", "short", "sales", "generic",
         "specialist", "requirements", "easy", "truncated", "guessed", "age"}
  BY DEF Ladder
<1>2. CASE x \in {"scam", "junk", "short", "sales", "generic", "truncated", "guessed"}
  <2>1. i = 1 /\ j = 2
    BY <1>2, YesOrNo
  <2>2. Ladder[x][1] = FALSE /\ Ladder[x][2] = TRUE
    BY <1>2, YesOrNo, Zenon
  <2> QED
    BY <2>1, <2>2, Zenon
<1>3. CASE x = "easy"
  <2>1. i = 1 /\ j = 2
    BY <1>3, YesOrNo
  <2>2. Ladder[x][1] = TRUE /\ Ladder[x][2] = FALSE
    BY <1>3, YesOrNo, Zenon
  <2> QED
    BY <2>1, <2>2, Zenon
<1>4. CASE x = "place"
  BY <1>4 DEF Ladder
<1>5. CASE x = "seniority"
  BY <1>5 DEF Ladder
<1>6. CASE x = "trust"
  <2>1. /\ Ladder[x][i] = PlatformTrusts[i] /\ PlatformTrusts[i] \in 0..100
        /\ i \in DOMAIN PlatformTrusts
    BY <1>6, TrustLadder
  <2>2. \/ Ladder[x][j] = None
        \/ /\ Ladder[x][j] = PlatformTrusts[j] /\ PlatformTrusts[j] \in 0..100
           /\ j \in DOMAIN PlatformTrusts
    BY <1>6, TrustLadder
  <2>3. j \in DOMAIN PlatformTrusts => PlatformTrusts[i] > PlatformTrusts[j]
    BY <2>1, BestTrustFirst
  <2> QED
    BY <2>1, <2>2, <2>3, NoneIsNoNumber
<1>7. CASE x = "match"
  BY <1>7 DEF Ladder
<1>8. CASE x = "specialist"
  BY <1>8 DEF Ladder
<1>9. CASE x = "requirements"
  BY <1>9 DEF Ladder
<1>10. CASE x = "age"
  BY <1>10 DEF Ladder
<1> QED
  BY <1>1, <1>2, <1>3, <1>4, <1>5, <1>6, <1>7, <1>8, <1>9, <1>10

\* The verdict is the assessment of what is known now.
AssessedInv ==
  /\ AreFacts(learnt)
  /\ gathered \in SUBSET DOMAIN Source /\ gathered # {}
  /\ verdict = AssessAs(learnt, gathered, declared, date)

\* An assessment anew leaves it so.
LEMMA AssessedAnew ==
  ASSUME NEW f, AreFacts(f), NEW seen \in SUBSET DOMAIN Source, seen # {}, NEW says, NEW on,
         Reassess(f, seen, says, on)
  PROVE  AssessedInv'
<1>1. /\ learnt' = f /\ gathered' = seen /\ declared' = says /\ date' = on /\ demands' = demands
      /\ verdict' = AssessAs(f, seen, says, on)
  BY DEF Reassess
<1>2. AssessAs(learnt, gathered, declared, date)' = AssessAs(f, seen, says, on)
  BY <1>1, Zenon DEF AssessAs, AssessFrom, Decision, PriorityKey, LanguageEdge
<1>3. AreFacts(learnt)'
  BY <1>1 DEF AreFacts
<1> QED
  BY <1>1, <1>2, <1>3 DEF AssessedInv

\* Learning a fact gives it a value of its ladder and leaves the others.
LEMMA FactLearnt ==
  ASSUME AreFacts(learnt), NEW x \in DOMAIN Ladder, NEW i \in DOMAIN Ladder[x],
         NEW g, g = [learnt EXCEPT ![x] = Ladder[x][i]]
  PROVE  AreFacts(g) /\ g[x] = Ladder[x][i] /\ \A y \in DOMAIN Ladder : y # x => g[y] = learnt[y]
<1>1. /\ learnt = [y \in DOMAIN Ladder |-> learnt[y]]
      /\ \A y \in DOMAIN Ladder : \E n \in DOMAIN Ladder[y] : learnt[y] = Ladder[y][n]
  BY DEF AreFacts
<1>2. /\ g = [y \in DOMAIN Ladder |-> g[y]] /\ g[x] = Ladder[x][i]
      /\ \A y \in DOMAIN Ladder : y # x => g[y] = learnt[y]
  BY <1>1
<1>3. \A y \in DOMAIN Ladder : \E n \in DOMAIN Ladder[y] : g[y] = Ladder[y][n]
  BY <1>1, <1>2, Zenon
<1> QED
  BY <1>2, <1>3 DEF AreFacts

\* Each step assesses what it leaves known.
LEMMA AssessedKept == AssessedInv /\ [AssessmentNext]_assessmentVars => AssessedInv'
<1> SUFFICES ASSUME AssessedInv, [AssessmentNext]_assessmentVars PROVE AssessedInv'
  OBVIOUS
<1>1. AreFacts(learnt) /\ gathered \in SUBSET DOMAIN Source /\ gathered # {}
  BY DEF AssessedInv
<1>2. ASSUME NEW f \in DOMAIN Ladder, NEW i \in DOMAIN Ladder[f], LearnFact(f, i)
      PROVE  AssessedInv'
  <2>1. Reassess([learnt EXCEPT ![f] = Ladder[f][i]], gathered, declared, date)
    BY <1>2 DEF LearnFact
  <2> QED
    BY <1>1, <2>1, AssessedAnew, FactLearnt
<1>3. ASSUME NEW o \in DOMAIN Source, Gather(o) PROVE AssessedInv'
  <2>1. Reassess(learnt, gathered \cup {o}, declared, date)
    BY <1>3 DEF Gather
  <2>2. gathered \cup {o} \in SUBSET DOMAIN Source /\ gathered \cup {o} # {}
    BY <1>1
  <2> QED
    BY <1>1, <2>1, <2>2, AssessedAnew
<1>4. ASSUME NEW d \in Declarable, Declare(d) PROVE AssessedInv'
  <2>1. Reassess(learnt, gathered, declared \cup {d}, date)
    BY <1>4 DEF Declare
  <2> QED
    BY <1>1, <2>1, AssessedAnew
<1>5. ASSUME PassDate PROVE AssessedInv'
  <2>1. Reassess(learnt, gathered, declared, date + 1)
    BY <1>5 DEF PassDate
  <2> QED
    BY <1>1, <2>1, AssessedAnew
<1>6. ASSUME UNCHANGED assessmentVars PROVE AssessedInv'
  <2>1. /\ learnt' = learnt /\ gathered' = gathered /\ declared' = declared /\ date' = date
        /\ demands' = demands /\ verdict' = verdict
    BY <1>6 DEF assessmentVars
  <2>2. AssessAs(learnt, gathered, declared, date)' = AssessAs(learnt, gathered, declared, date)
    BY <2>1, Zenon DEF AssessAs, AssessFrom, Decision, PriorityKey, LanguageEdge
  <2>3. AreFacts(learnt)'
    BY <1>1, <2>1 DEF AreFacts
  <2> QED
    BY <2>1, <2>2, <2>3 DEF AssessedInv
<1> QED
  BY <1>2, <1>3, <1>4, <1>5, <1>6 DEF AssessmentNext

\* Learning something worse moves no posting up.
LEMMA WorseLearnt ==
  ASSUME AssessedInv, AssessmentNext, learnt # learnt',
         NEW f \in DOMAIN Ladder, NEW i \in DOMAIN Ladder[f], NEW j \in DOMAIN Ladder[f],
         learnt[f] = Ladder[f][i], learnt'[f] = Ladder[f][j], Worse(f, i, j)
  PROVE  ~MovesUp(verdict, verdict')
<1>1. PICK x \in DOMAIN Ladder : \E n \in DOMAIN Ladder[x] : LearnFact(x, n)
  BY DEF AssessmentNext, Gather, Declare, PassDate, Reassess
<1>2. PICK n \in DOMAIN Ladder[x] : LearnFact(x, n)
  BY <1>1
<1> DEFINE g == [learnt EXCEPT ![x] = Ladder[x][n]]
           met == RequirementsMet(demands, declared, date)
<1>3. /\ Reassess(g, gathered, declared, date) /\ learnt' = g
      /\ verdict' = AssessAs(g, gathered, declared, date)
  BY <1>2 DEF LearnFact, Reassess
<1>4. AreFacts(learnt) /\ verdict = AssessAs(learnt, gathered, declared, date)
      /\ gathered \in SUBSET DOMAIN Source /\ gathered # {}
  BY DEF AssessedInv
<1>5. AreFacts(g) /\ \A y \in DOMAIN Ladder : y # x => g[y] = learnt[y]
  BY <1>4, FactLearnt
<1> HIDE DEF g
<1>8. PICK k \in DOMAIN Authority : BestKind(gathered) = Authority[k]
  BY <1>4, BestKindKnown
<1> DEFINE unlisted == f = "trust" /\ None \in {Ladder[f][i], Ladder[f][j]}
           other == [learnt EXCEPT ![f] = Ladder[f][j]]
<1>10. IF unlisted THEN Trust(other, Authority[k]) < Trust(learnt, Authority[k]) ELSE i < j
  BY <1>8, Zenon DEF Worse
<1>11. AreFacts(other) /\ other = [y \in DOMAIN Ladder |-> other[y]]
       /\ other[f] = Ladder[f][j] /\ \A y \in DOMAIN Ladder : y # f => other[y] = learnt[y]
  BY <1>4, FactLearnt DEF AreFacts
<1> HIDE DEF other
<1>6. x = f
  <2>1. SUFFICES ASSUME x # f PROVE FALSE
    OBVIOUS
  <2>2. g[f] = learnt[f] /\ Ladder[f][i] = Ladder[f][j]
    BY <1>3, <1>5, <2>1
  <2>3. unlisted
    BY <1>10, <2>2, LaddersDistinct
  <2>4. learnt = [y \in DOMAIN Ladder |-> learnt[y]]
    BY <1>4 DEF AreFacts
  <2>5. \A y \in DOMAIN Ladder : other[y] = learnt[y]
    BY <1>11, <2>2
  <2>6. other = learnt
    BY <1>11, <2>4, <2>5
  <2>7. Trust(learnt, Authority[k]) \in Int
    BY <1>4, TrustCounts
  <2> QED
    BY <1>10, <2>3, <2>6, <2>7
<1>12. g = other
  <2>1. g = [y \in DOMAIN Ladder |-> g[y]]
    BY <1>5 DEF AreFacts
  <2>2. \A y \in DOMAIN Ladder : g[y] = other[y]
    BY <1>3, <1>5, <1>6, <1>11
  <2> QED
    BY <1>11, <2>1, <2>2
<1>13. /\ Trust(g, Authority[k]) <= Trust(learnt, Authority[k])
       /\ f = "trust" => (BelowFloor(learnt) => BelowFloor(g))
  <2>1. CASE f = "trust"
    BY <1>3, <1>4, <1>5, <1>10, <1>12, <2>1, TrustFalls
  <2>2. CASE f # "trust"
    <3>1. g["trust"] = learnt["trust"]
      BY <1>5, <1>6, <2>2, TrustLadder
    <3>2. Trust(g, Authority[k]) = Trust(learnt, Authority[k]) /\ Trust(g, Authority[k]) \in Int
      BY <1>5, <3>1, TrustCounts DEF Trust
    <3> QED
      BY <2>2, <3>2
  <2> QED
    BY <2>1, <2>2
<1>7. NoBetter(learnt, g)
  <2>1. IF f = "trust" THEN BelowFloor(learnt) => BelowFloor(g) ELSE i < j
    BY <1>10, <1>13
  <2> QED
    BY <1>3, <1>4, <1>5, <1>6, <2>1, StepsDown
<1>9. ~MovesUp(AssessFrom(learnt, Authority[k], PayFrom[gathered], met),
               AssessFrom(g, Authority[k], PayFrom[gathered], met))
  BY <1>4, <1>5, <1>7, <1>8, <1>13, WorseStands
<1> QED
  BY <1>3, <1>4, <1>8, <1>9, Zenon DEF AssessAs

\* A posting of which something worse is learnt never moves up, whatever the
\* trusts its platform can be listed with, its other facts, its pay, its demands and the user's declarations.
THEOREM WorseNeverRises == AssessmentSpec => WorseNeverPromoted
<1>1. AssessmentInit => AssessedInv
  <2>1. SUFFICES ASSUME AssessmentInit PROVE AssessedInv
    OBVIOUS
  <2>2. learnt = [f \in DOMAIN Ladder |-> Ladder[f][1]]
    BY <2>1 DEF AssessmentInit
  <2>3. \A f \in DOMAIN Ladder : 1 \in DOMAIN Ladder[f]
    BY TrustLadder DEF Ladder
  <2>4. AreFacts(learnt)
    BY <2>2, <2>3, Zenon DEF AreFacts
  <2> QED
    BY <2>1, <2>4, FirstSeenExist DEF AssessmentInit, AssessedInv
<1>2. AssessedInv /\ [AssessmentNext]_assessmentVars => AssessedInv'
  BY AssessedKept
<1>3. ASSUME AssessedInv, [AssessmentNext]_assessmentVars
      PROVE  [learnt # learnt' =>
                \A f \in DOMAIN Ladder : \A i, j \in DOMAIN Ladder[f] :
                  learnt[f] = Ladder[f][i] /\ learnt'[f] = Ladder[f][j] /\ Worse(f, i, j) =>
                    ~MovesUp(verdict, verdict')]_assessmentVars
  BY <1>3, WorseLearnt
<1> QED
  BY <1>1, <1>2, <1>3, PTL DEF AssessmentSpec, WorseNeverPromoted

-----------------------------------------------------------------------------
(* The second opinion on suspicious postings.  A pass that nothing         *)
(* disturbs leaves at most half of the suspects pending, and asks about    *)
(* all that were pending before it if they were no more than that.         *)

\* A pending posting is among the first, if no more than that are pending.
LEMMA PendingComeFirst ==
    ASSUME NEW n \in Nat, NEW pending, IsFiniteSet(pending), Cardinality(pending) <= n,
           NEW S \in SUBSET Nat, NEW j \in S, j \in pending
    PROVE  j \in UpTo(n, pending, S)
<1> DEFINE ahead == {i \in S : GoesBefore(pending, i, j)}
<1>1. ahead \subseteq pending \ {j}
  BY DEF GoesBefore
<1>2. /\ IsFiniteSet(pending \ {j}) /\ Cardinality(pending \ {j}) = Cardinality(pending) - 1
      /\ Cardinality(pending) \in Nat
  BY FS_RemoveElement, FS_CardinalityType
<1>3. Cardinality(ahead) <= Cardinality(pending \ {j})
  BY <1>1, <1>2, FS_Subset
<1>4. Cardinality(ahead) \in Nat
  BY <1>1, <1>2, FS_Subset, FS_CardinalityType
<1>5. Cardinality(ahead) < n
  <2> HIDE DEF ahead
  <2> QED
    BY <1>2, <1>3, <1>4
<1> QED
  BY <1>5 DEF UpTo

\* Of two postings, fewer are before the one that comes before.
LEMMA EarlierHasFewer ==
    ASSUME NEW pending, NEW S \in SUBSET Nat, IsFiniteSet(S), NEW i \in S, NEW j \in S,
           GoesBefore(pending, i, j)
    PROVE  Cardinality({k \in S : GoesBefore(pending, k, i)}) <
             Cardinality({k \in S : GoesBefore(pending, k, j)})
<1> DEFINE A == {k \in S : GoesBefore(pending, k, i)}
           B == {k \in S : GoesBefore(pending, k, j)}
<1>1. i \in B /\ i \notin A
  BY DEF GoesBefore
<1>2. ASSUME NEW k \in A PROVE k \in B
  BY DEF GoesBefore
<1>3. A \in SUBSET S /\ B \in SUBSET S
  OBVIOUS
<1> HIDE DEF A, B
<1>4. IsFiniteSet(A) /\ IsFiniteSet(B) /\ Cardinality(A) \in Nat /\ Cardinality(B) \in Nat
  BY <1>3, FS_Subset, FS_CardinalityType
<1>5. Cardinality(A) <= Cardinality(B) /\ (Cardinality(B) = Cardinality(A) => B = A)
  BY <1>2, <1>4, FS_Subset
<1>6. Cardinality(A) < Cardinality(B)
  BY <1>1, <1>4, <1>5
<1> QED
  BY <1>6 DEF A, B

\* If a posting is not among the first, there are as many of these as may be.
LEMMA FirstAreMany ==
    ASSUME NEW n \in Nat, NEW pending, NEW S \in SUBSET Nat, IsFiniteSet(S),
           NEW j \in S, j \notin UpTo(n, pending, S)
    PROVE  n <= Cardinality(UpTo(n, pending, S))
<1> DEFINE Ahead(k) == Cardinality({i \in S : GoesBefore(pending, i, k)})
           late == S \ UpTo(n, pending, S)
           aheads == {Ahead(k) : k \in late}
<1>1. ASSUME NEW k \in S PROVE Ahead(k) \in Nat
  <2>1. {i \in S : GoesBefore(pending, i, k)} \in SUBSET S
    OBVIOUS
  <2> QED
    BY <2>1, FS_Subset, FS_CardinalityType
<1>2. aheads \in SUBSET Nat /\ aheads # {}
  <2> HIDE DEF Ahead
  <2> QED
    BY <1>1
<1>3. PICK r \in aheads : \A q \in aheads : r <= q
  BY <1>2, LeastNumber
<1>4. PICK k \in late : r = Ahead(k)
  OBVIOUS
<1> DEFINE ahead == {i \in S : GoesBefore(pending, i, k)}
<1>5. ASSUME NEW i \in ahead PROVE i \in UpTo(n, pending, S)
  <2>1. Ahead(i) < Ahead(k)
    BY EarlierHasFewer
  <2>2. i \in late => Ahead(k) <= Ahead(i)
    BY <1>3, <1>4
  <2>3. Ahead(i) \in Nat /\ Ahead(k) \in Nat
    BY <1>1
  <2> HIDE DEF Ahead, late
  <2>4. i \notin late
    BY <2>1, <2>2, <2>3
  <2> QED
    BY <2>4 DEF late
<1>6. /\ UpTo(n, pending, S) \in SUBSET S /\ IsFiniteSet(UpTo(n, pending, S))
      /\ Cardinality(UpTo(n, pending, S)) \in Nat
  <2>1. UpTo(n, pending, S) \in SUBSET S
    BY DEF UpTo
  <2> QED
    BY <2>1, FS_Subset, FS_CardinalityType
<1>7. Cardinality(ahead) <= Cardinality(UpTo(n, pending, S))
  BY <1>5, <1>6, FS_Subset
<1>8. ~(Cardinality(ahead) < n)
  BY DEF UpTo
<1>9. Cardinality(ahead) \in Nat
  BY <1>1
<1> HIDE DEF ahead
<1> QED
  BY <1>6, <1>7, <1>8, <1>9

-----------------------------------------------------------------------------
\* The types.
AskStates ==
  [at : {"idle", "batch", "count", "post", "save"}, pending : SUBSET Suspects,
   suspicious : SUBSET Suspects, first : SUBSET Suspects, left : SUBSET Suspects,
   attempt : Nat, asked : SUBSET Suspects, classified : SUBSET Suspects]

QueueTypes ==
  /\ pendingFile \in SUBSET Suspects
  /\ asker \in [Askers -> AskStates]
  /\ passedOver \in [Suspects -> Nat]
  /\ setbacks \in Nat

\* The passes under way.
Busy == {a \in Askers : asker[a].at # "idle"}

\* A pass that nothing disturbed, on the queue as it is in the file.
Selection(ask) == UpTo(JobsPerRun, ask.first, ask.suspicious)

Undisturbed(ask, file) ==
  /\ ask.first = file /\ ask.at # "save"
  /\ ask.asked \subseteq Selection(ask) /\ ask.left \subseteq Selection(ask)
  /\ Selection(ask) \subseteq ask.asked \cup ask.left
  /\ ask.pending = (ask.first \cup (ask.suspicious \ Selection(ask)))
                     \ (Selection(ask) \ ask.left)

\* A pass that will ask about a posting, unless something disturbs it.
Plans(ask, j) ==
  ask.at # "save" /\ (j \in ask.suspicious => j \in ask.asked \cup ask.left)

\* What passes and setbacks allow a posting.
Account(j) ==
  \/ passedOver[j] + Cardinality(Busy) <= 2 * setbacks
  \/ /\ Busy = {} /\ passedOver[j] <= 2 * setbacks + 1
     /\ j \in pendingFile /\ Cardinality(pendingFile) <= JobsPerRun
  \/ \E a \in Askers : /\ Busy = {a} /\ passedOver[j] <= 2 * setbacks
                       /\ Undisturbed(asker[a], pendingFile)
  \/ \E a \in Busy : /\ passedOver[j] + Cardinality(Busy) <= 2 * setbacks + 2
                     /\ Plans(asker[a], j)

QueueInv ==
  /\ QueueTypes
  /\ Cardinality(Busy) <= setbacks + 1
  /\ \A a \in Askers : asker[a].at = "post" => AskBatch(asker[a]) \subseteq asker[a].asked
  /\ \A j \in Suspects : Account(j)

\* Subsets of the suspects are finite.
LEMMA Counts ==
    /\ IsFiniteSet(Suspects) /\ Suspects \subseteq Nat /\ JobsPerRun \in Nat
    /\ \A S \in SUBSET Suspects : IsFiniteSet(S) /\ Cardinality(S) \in Nat /\ S \in SUBSET Nat
<1>1. IsFiniteSet(Suspects) /\ Suspects \subseteq Nat /\ JobsPerRun \in Nat
  BY SuspectsInOrder, BatchesAreSmall
<1> QED
  BY <1>1, FS_Subset, FS_CardinalityType

\* The passes under way are finitely many processes.
LEMMA BusyCounts ==
    IsFiniteSet(Busy) /\ Cardinality(Busy) \in Nat /\ Busy \subseteq Askers
<1>1. Busy \in SUBSET Askers
  BY DEF Busy
<1> QED
  BY <1>1, AskersAreFew, FS_Subset, FS_CardinalityType

\* All that an account says of the numbers.
LEMMA AccountBound ==
    ASSUME NEW j \in Suspects, Account(j), passedOver[j] \in Nat, setbacks \in Nat
    PROVE  /\ passedOver[j] + Cardinality(Busy) <= 2 * setbacks + 2
           /\ passedOver[j] <= 2 * setbacks + 1
<1> DEFINE p == passedOver[j]
           n == Cardinality(Busy)
           s == setbacks
<1>0. n \in Nat /\ p \in Nat /\ s \in Nat
  BY BusyCounts
<1>1. Busy = {} => n = 0
  BY FS_EmptySet
<1>2. ASSUME NEW a, Busy = {a} PROVE n = 1
  BY <1>2, FS_Singleton
<1>3. ASSUME NEW a \in Busy PROVE n >= 1
  <2>1. n # 0
    BY <1>3, BusyCounts, FS_EmptySet
  <2> QED
    BY <1>0, <2>1
<1> HIDE DEF p, n, s
<1>4. \/ p + n <= 2 * s
      \/ n = 0 /\ p <= 2 * s + 1
      \/ n = 1 /\ p <= 2 * s
      \/ n >= 1 /\ p + n <= 2 * s + 2
  BY <1>1, <1>2, <1>3 DEF Account, p, n, s
<1>5. p + n <= 2 * s + 2 /\ p <= 2 * s + 1
  BY <1>0, <1>4
<1> QED
  BY <1>5 DEF p, n, s

\* A pass and the number of those under way.
LEMMA Moving ==
    ASSUME NEW a \in Busy, \A b \in Askers \ {a} : asker'[b].at = asker[b].at
    PROVE  /\ asker'[a].at # "idle" => Busy' = Busy
           /\ asker'[a].at = "idle" => /\ Busy' = Busy \ {a}
                                       /\ Cardinality(Busy') + 1 = Cardinality(Busy)
<1>1. Busy' = {b \in Askers : asker'[b].at # "idle"}
  BY DEF Busy
<1>2. asker'[a].at # "idle" => Busy' = Busy
  BY <1>1 DEF Busy
<1>3. asker'[a].at = "idle" => Busy' = Busy \ {a}
  BY <1>1 DEF Busy
<1>4. Cardinality(Busy \ {a}) = Cardinality(Busy) - 1 /\ Cardinality(Busy) \in Nat
  BY BusyCounts, FS_RemoveElement
<1>5. ASSUME asker'[a].at = "idle" PROVE Cardinality(Busy') + 1 = Cardinality(Busy)
  <2>1. Cardinality(Busy') = Cardinality(Busy \ {a})
    BY <1>3, <1>5, Zenon
  <2> QED
    BY <1>4, <2>1
<1> QED
  BY <1>2, <1>3, <1>5, Zenon

\* What a step of one pass must show, beside the accounts.
QueueFrame(a) ==
  /\ \A b \in Askers \ {a} : asker'[b] = asker[b]
  /\ QueueTypes'
  /\ asker'[a].at = "post" => AskBatch(asker'[a]) \subseteq asker'[a].asked

\* A step that is a setback pays for all it does.
LEMMA SetbackPays ==
    ASSUME QueueInv, NEW a \in Busy, QueueFrame(a), setbacks' = setbacks + 1,
           \A j \in Suspects : \/ passedOver'[j] <= passedOver[j]
                               \/ passedOver'[j] <= passedOver[j] + 1 /\ asker'[a].at = "idle"
    PROVE  QueueInv'
<1>1. /\ asker'[a].at # "idle" => Busy' = Busy
      /\ asker'[a].at = "idle" => /\ Busy' = Busy \ {a}
                                  /\ Cardinality(Busy') + 1 = Cardinality(Busy)
  <2>1. \A b \in Askers \ {a} : asker'[b].at = asker[b].at
    BY DEF QueueFrame
  <2> QED
    BY <2>1, Moving, Zenon
<1> DEFINE n == Cardinality(Busy)
           m == Cardinality(Busy')
<1>2. n \in Nat
  BY BusyCounts
<1>3. asker'[a].at # "idle" => m = n
  BY <1>1
<1>4. asker'[a].at = "idle" => m + 1 = n
  BY <1>1
<1>5. m \in Nat
  <2>1. Busy' \in SUBSET Busy
    BY <1>1
  <2> QED
    BY <2>1, BusyCounts, FS_Subset, FS_CardinalityType
<1>6. setbacks \in Nat /\ n <= setbacks + 1
  BY DEF QueueInv, QueueTypes
<1>7. \A b \in Askers : asker'[b].at = "post" => AskBatch(asker'[b]) \subseteq asker'[b].asked
  BY DEF QueueInv, QueueFrame
<1>8. ASSUME NEW j \in Suspects PROVE passedOver'[j] + m <= 2 * setbacks'
  <2>1. passedOver[j] \in Nat /\ passedOver'[j] \in Nat
    BY DEF QueueInv, QueueTypes, QueueFrame
  <2>2. passedOver[j] + n <= 2 * setbacks + 2
    BY <1>6, <2>1, AccountBound DEF QueueInv
  <2> DEFINE p == passedOver[j]
             q == passedOver'[j]
  <2>3. q <= p \/ (q <= p + 1 /\ m + 1 = n)
    BY <1>4
  <2>4. m = n \/ m + 1 = n
    BY <1>3, <1>4
  <2> HIDE DEF p, q, n, m
  <2>5. q + m <= 2 * (setbacks + 1)
    BY <1>2, <1>5, <1>6, <2>1, <2>2, <2>3, <2>4 DEF p, q
  <2> QED
    BY <2>5 DEF q
<1>9. m <= setbacks' + 1
  <2> HIDE DEF n, m
  <2> QED
    BY <1>2, <1>3, <1>4, <1>5, <1>6
<1>10. QueueTypes'
  BY DEF QueueFrame
<1>11. \A j \in Suspects : Account(j)'
  BY <1>8 DEF Account
<1> QED
  BY <1>7, <1>9, <1>10, <1>11 DEF QueueInv

\* A step within a pass that is no setback keeps what is known of the pass.
LEMMA SmoothStep ==
    ASSUME QueueInv, NEW a \in Busy, QueueFrame(a), asker'[a].at # "idle",
           UNCHANGED <<pendingFile, passedOver, setbacks>>,
           Undisturbed(asker[a], pendingFile) => Undisturbed(asker'[a], pendingFile),
           \A j \in Suspects : Plans(asker[a], j) => Plans(asker'[a], j)
    PROVE  QueueInv'
<1>1. Busy' = Busy
  <2>1. \A b \in Askers \ {a} : asker'[b].at = asker[b].at
    BY DEF QueueFrame
  <2> QED
    BY <2>1, Moving
<1>2. pendingFile' = pendingFile /\ passedOver' = passedOver /\ setbacks' = setbacks
  OBVIOUS
<1>3. \A b \in Askers \ {a} : asker'[b] = asker[b]
  BY DEF QueueFrame
<1>4. Busy \subseteq Askers
  BY DEF Busy
<1>5. ASSUME NEW j \in Suspects, Account(j) PROVE Account(j)'
  <2>1. CASE passedOver[j] + Cardinality(Busy) <= 2 * setbacks
    BY <1>1, <1>2, <2>1 DEF Account
  <2>2. CASE Busy = {}
    BY <2>2
  <2>3. ASSUME NEW b \in Askers, Busy = {b}, passedOver[j] <= 2 * setbacks,
               Undisturbed(asker[b], pendingFile)
        PROVE  Account(j)'
    <3>1. b = a
      BY <2>3
    <3>2. Undisturbed(asker'[a], pendingFile')
      BY <1>2, <2>3, <3>1
    <3> QED
      BY <1>1, <1>2, <1>4, <2>3, <3>1, <3>2 DEF Account
  <2>4. ASSUME NEW b \in Busy, passedOver[j] + Cardinality(Busy) <= 2 * setbacks + 2,
               Plans(asker[b], j)
        PROVE  Account(j)'
    <3>1. Plans(asker'[b], j)
      <4>1. CASE b = a
        BY <2>4, <4>1
      <4>2. CASE b # a
        BY <1>3, <1>4, <2>4, <4>2
      <4> QED
        BY <4>1, <4>2
    <3> QED
      BY <1>1, <1>2, <2>4, <3>1 DEF Account
  <2> QED
    BY <1>5, <2>1, <2>2, <2>3, <2>4 DEF Account
<1>6. \A b \in Askers : asker'[b].at = "post" => AskBatch(asker'[b]) \subseteq asker'[b].asked
  BY DEF QueueInv, QueueFrame
<1>7. Cardinality(Busy') <= setbacks' + 1 /\ QueueTypes'
  BY <1>1, <1>2 DEF QueueInv, QueueFrame
<1>8. \A j \in Suspects : Account(j)'
  BY <1>5 DEF QueueInv
<1> QED
  BY <1>6, <1>7, <1>8 DEF QueueInv

\* A pass that begins.
LEMMA StartKeeps ==
    ASSUME QueueInv, NEW a \in Askers, StartPass(a)
    PROVE  QueueInv'
<1>1. PICK S \in (SUBSET Suspects) \ {{}} :
        asker' = [asker EXCEPT ![a] =
          [at |-> "batch", suspicious |-> S, first |-> pendingFile,
           left |-> UpTo(JobsPerRun, pendingFile, S),
           pending |-> pendingFile \union (S \ UpTo(JobsPerRun, pendingFile, S)),
           attempt |-> 0, asked |-> {}, classified |-> {}]]
  BY DEF StartPass
<1> DEFINE sel == UpTo(JobsPerRun, pendingFile, S)
           ask == [at |-> "batch", pending |-> pendingFile \union (S \ sel), suspicious |-> S,
                   first |-> pendingFile, left |-> sel, attempt |-> 0, asked |-> {},
                   classified |-> {}]
<1>2. asker \in [Askers -> AskStates] /\ pendingFile \in SUBSET Suspects
      /\ passedOver \in [Suspects -> Nat] /\ setbacks \in Nat
  BY DEF QueueInv, QueueTypes
<1>3. asker' = [asker EXCEPT ![a] = ask]
  BY <1>1
<1>4. sel \in SUBSET Suspects /\ sel \subseteq S
  BY DEF UpTo
<1>5. ask \in AskStates
  BY <1>2, <1>4 DEF AskStates
<1> HIDE DEF sel
<1>6. asker' \in [Askers -> AskStates] /\ asker'[a] = ask
      /\ \A b \in Askers \ {a} : asker'[b] = asker[b]
  <2> HIDE DEF ask
  <2> QED
    BY <1>2, <1>3, <1>5
<1>7. asker[a].at = "idle" /\ UNCHANGED <<pendingFile, passedOver>>
  BY DEF StartPass
<1>8. setbacks' = setbacks + (IF \E b \in Askers : asker[b].at # "idle" THEN 1 ELSE 0)
  BY DEF StartPass, Setback
<1> DEFINE n == Cardinality(Busy)
           m == Cardinality(Busy')
<1>9. Busy' = Busy \cup {a} /\ a \notin Busy
  BY <1>6, <1>7 DEF Busy
<1>10. m = n + 1 /\ n \in Nat
  BY <1>9, BusyCounts, FS_AddElement
<1>11. Busy = {} => setbacks' = setbacks /\ n = 0 /\ Busy' = {a}
  <2>1. ASSUME Busy = {} PROVE \A b \in Askers : ~(asker[b].at # "idle")
    BY <2>1 DEF Busy
  <2>2. Busy = {} => setbacks' = setbacks
    BY <1>2, <1>8, <2>1
  <2>3. Busy = {} => n = 0
    BY FS_EmptySet
  <2>4. Busy = {} => Busy' = {a}
    BY <1>9
  <2> QED
    BY <2>2, <2>3, <2>4
<1>12. Busy # {} => setbacks' = setbacks + 1
  BY <1>8 DEF Busy
<1>13. n <= setbacks + 1
  BY DEF QueueInv
<1>14. m <= setbacks' + 1
  <2> HIDE DEF n, m
  <2> QED
    BY <1>2, <1>10, <1>11, <1>12, <1>13
<1>15. Selection(ask) = sel
  BY DEF Selection, sel
<1>16. Undisturbed(ask, pendingFile)
  BY <1>4, <1>15 DEF Undisturbed
<1>17. ASSUME NEW j \in Suspects PROVE Account(j)'
  <2> DEFINE p == passedOver[j]
  <2>0. p \in Nat /\ passedOver'[j] = p /\ Account(j)
    BY <1>2, <1>7 DEF QueueInv
  <2>1. CASE Busy # {}
    <3>1. CASE p + n <= 2 * setbacks + 1
      <4>1. p + m <= 2 * setbacks'
        <5> HIDE DEF p, n, m
        <5> QED
          BY <1>2, <1>10, <1>12, <2>0, <2>1, <3>1
      <4> QED
        BY <2>0, <4>1 DEF Account
    <3>2. CASE ~(p + n <= 2 * setbacks + 1)
      <4>1. PICK b \in Busy : p + n <= 2 * setbacks + 2 /\ Plans(asker[b], j)
        <5>1. ~(p + n <= 2 * setbacks)
          <6> HIDE DEF p, n
          <6> QED
            BY <1>2, <1>10, <2>0, <3>2
        <5>2. ASSUME NEW b \in Askers, Busy = {b}, p <= 2 * setbacks PROVE FALSE
          <6>1. n = 1
            BY <5>2, FS_Singleton
          <6> HIDE DEF p, n
          <6> QED
            BY <1>2, <2>0, <3>2, <5>2, <6>1
        <5> QED
          BY <2>0, <2>1, <5>1, <5>2 DEF Account
      <4>2. Plans(asker'[b], j) /\ b \in Busy'
        BY <1>6, <1>9, <4>1 DEF Busy
      <4>3. p + m <= 2 * setbacks' + 2
        <5> HIDE DEF p, n, m
        <5> QED
          BY <1>2, <1>10, <1>12, <2>0, <2>1, <4>1
      <4> QED
        BY <2>0, <4>2, <4>3 DEF Account
    <3> QED
      BY <3>1, <3>2
  <2>2. CASE Busy = {} /\ p <= 2 * setbacks
    <3>1. Undisturbed(asker'[a], pendingFile') /\ Busy' = {a}
      BY <1>6, <1>7, <1>11, <1>16, <2>2
    <3>2. passedOver'[j] <= 2 * setbacks'
      BY <1>11, <2>0, <2>2
    <3> QED
      BY <3>1, <3>2 DEF Account
  <2>3. CASE Busy = {} /\ ~(p <= 2 * setbacks)
    <3>1. p <= 2 * setbacks + 1 /\ j \in pendingFile /\ Cardinality(pendingFile) <= JobsPerRun
      <4>1. ~(p + n <= 2 * setbacks)
        <5> HIDE DEF p, n
        <5> QED
          BY <1>2, <1>10, <2>0, <2>3
      <4> QED
        BY <2>0, <2>3, <4>1 DEF Account
    <3>2. j \in S => j \in sel
      BY <1>2, <3>1, Counts, PendingComeFirst DEF sel
    <3>3. Plans(asker'[a], j)
      BY <1>6, <3>2 DEF Plans
    <3>4. p + m <= 2 * setbacks' + 2 /\ a \in Busy'
      <4> HIDE DEF p, n, m
      <4> QED
        BY <1>2, <1>10, <1>11, <2>0, <2>3, <3>1
    <3> QED
      BY <2>0, <3>3, <3>4 DEF Account
  <2> QED
    BY <2>1, <2>2, <2>3
<1>18. setbacks' \in Nat
  BY <1>2, <1>8
<1>19. QueueTypes'
  BY <1>2, <1>6, <1>7, <1>18 DEF QueueTypes
<1>20. \A b \in Askers : asker'[b].at = "post" => AskBatch(asker'[b]) \subseteq asker'[b].asked
  BY <1>6 DEF QueueInv
<1> QED
  BY <1>14, <1>17, <1>19, <1>20 DEF QueueInv

\* What a pass holds after it put off what is left stays within the suspects.
LEMMA DeferredTypes ==
    ASSUME NEW ask \in AskStates
    PROVE  /\ Deferred(ask) \in AskStates /\ Deferred(ask).at = "save"
           /\ Broken(ask) \in AskStates /\ Broken(ask).at = "save"
<1>1. Deferred(ask) \in AskStates /\ Deferred(ask).at = "save"
  BY DEF Deferred, AskStates
<1> DEFINE put == Deferred(ask)
<1> HIDE DEF put
<1>2. put \in AskStates /\ put.at = "save"
  BY <1>1 DEF put
<1>3. Broken(ask) = [put EXCEPT !.pending = @ \union (ask.asked \ ask.classified)]
  BY DEF Broken, put
<1>4. Broken(ask) \in AskStates /\ Broken(ask).at = "save"
  BY <1>2, <1>3 DEF AskStates
<1> QED
  BY <1>1, <1>4

\* A batch is of what is left.
LEMMA BatchIsLeft ==
    ASSUME NEW ask PROVE AskBatch(ask) \subseteq ask.left
BY DEF AskBatch, UpTo

\* A step that gives one pass another state.
LEMMA FrameHolds ==
    ASSUME QueueTypes, NEW a \in Askers, NEW ask \in AskStates,
           asker' = [asker EXCEPT ![a] = ask], ask.at = "post" => AskBatch(ask) \subseteq ask.asked,
           pendingFile' \in SUBSET Suspects, passedOver' \in [Suspects -> Nat], setbacks' \in Nat
    PROVE  QueueFrame(a) /\ asker'[a] = ask
<1>1. asker' \in [Askers -> AskStates] /\ asker'[a] = ask
      /\ \A b \in Askers \ {a} : asker'[b] = asker[b]
  BY DEF QueueTypes
<1> QED
  BY <1>1 DEF QueueTypes, QueueFrame

\* A step that costs setbacks adds them.
LEMMA SetbackSum ==
    ASSUME NEW n \in Nat, Setback(n), setbacks \in Nat
    PROVE  setbacks' = setbacks + n /\ setbacks' \in Nat
BY DEF Setback

\* The pass asks nothing more, or starts its batch again.
LEMMA AskFailsKeeps ==
    ASSUME QueueInv, NEW a \in Askers, AskFails(a)
    PROVE  QueueInv'
<1>1. QueueTypes /\ asker[a] \in AskStates /\ a \in Busy
  BY DEF QueueInv, QueueTypes, AskFails, Busy
<1>2. setbacks' = setbacks + 1 /\ setbacks' \in Nat
  BY <1>1, SetbackSum DEF AskFails, QueueTypes
<1>3. pendingFile' \in SUBSET Suspects /\ passedOver' \in [Suspects -> Nat] /\ passedOver' = passedOver
  BY <1>1 DEF AskFails, QueueTypes
<1>4. PICK ask \in AskStates : ask.at \in {"batch", "save"} /\ asker' = [asker EXCEPT ![a] = ask]
  <2>1. CASE asker' = [asker EXCEPT ![a].at = "batch", ![a].attempt = @ + 1]
    <3> DEFINE next == asker[a].attempt + 1
               ask == [asker[a] EXCEPT !.at = "batch", !.attempt = next]
    <3>0. next \in Nat
      BY <1>1 DEF AskStates
    <3>1. ask \in AskStates /\ ask.at = "batch"
      <4> HIDE DEF next
      <4> QED
        BY <1>1, <3>0 DEF AskStates
    <3>2. asker' = [asker EXCEPT ![a] = ask]
      BY <2>1
    <3> HIDE DEF ask
    <3> QED
      BY <3>1, <3>2
  <2>2. CASE asker' = [asker EXCEPT ![a] = Deferred(@)]
    BY <1>1, <2>2, DeferredTypes
  <2> QED
    BY <2>1, <2>2 DEF AskFails
<1>5. QueueFrame(a)
  BY <1>1, <1>2, <1>3, <1>4, FrameHolds
<1>6. \A j \in Suspects : passedOver'[j] <= passedOver[j]
  BY <1>1, <1>3 DEF QueueTypes
<1> QED
  BY <1>1, <1>2, <1>5, <1>6, SetbackPays

\* What was not classified waits: a setback.
LEMMA AskBreaksKeeps ==
    ASSUME QueueInv, NEW a \in Askers, AskBreaks(a)
    PROVE  QueueInv'
<1>1. QueueTypes /\ asker[a] \in AskStates /\ a \in Busy
  BY DEF QueueInv, QueueTypes, AskBreaks, Busy
<1>2. setbacks' = setbacks + 1 /\ setbacks' \in Nat
  BY <1>1, SetbackSum DEF AskBreaks, QueueTypes
<1>3. pendingFile' \in SUBSET Suspects /\ passedOver' \in [Suspects -> Nat] /\ passedOver' = passedOver
  BY <1>1 DEF AskBreaks, QueueTypes
<1>4. asker' = [asker EXCEPT ![a] = Broken(asker[a])]
  BY DEF AskBreaks
<1>5. Broken(asker[a]) \in AskStates /\ Broken(asker[a]).at = "save"
  BY <1>1, DeferredTypes
<1>6. QueueFrame(a)
  BY <1>1, <1>2, <1>3, <1>4, <1>5, FrameHolds
<1>7. \A j \in Suspects : passedOver'[j] <= passedOver[j]
  BY <1>1, <1>3 DEF QueueTypes
<1> QED
  BY <1>1, <1>2, <1>6, <1>7, SetbackPays

\* What a crashed pass held is lost: a setback.
LEMMA AskerCrashKeeps ==
    ASSUME QueueInv, NEW a \in Askers, AskerCrash(a)
    PROVE  QueueInv'
<1>1. QueueTypes /\ asker[a] \in AskStates /\ a \in Busy
  BY DEF QueueInv, QueueTypes, AskerCrash, Busy
<1>2. setbacks' = setbacks + 1 /\ setbacks' \in Nat
  BY <1>1, SetbackSum DEF AskerCrash, QueueTypes
<1>3. pendingFile' \in SUBSET Suspects /\ passedOver' \in [Suspects -> Nat] /\ passedOver' = passedOver
  BY <1>1 DEF AskerCrash, QueueTypes
<1>4. asker' = [asker EXCEPT ![a] = NotAsking]
  BY DEF AskerCrash
<1>5. NotAsking \in AskStates /\ NotAsking.at = "idle"
  BY DEF AskStates, NotAsking
<1>6. QueueFrame(a)
  BY <1>1, <1>2, <1>3, <1>4, <1>5, FrameHolds
<1>7. \A j \in Suspects : passedOver'[j] <= passedOver[j]
  BY <1>1, <1>3 DEF QueueTypes
<1> QED
  BY <1>1, <1>2, <1>6, <1>7, SetbackPays

\* A pass with calls left goes on; one without leaves the rest pending.
LEMMA CheckBudgetKeeps ==
    ASSUME QueueInv, NEW a \in Askers, CheckBudget(a)
    PROVE  QueueInv'
<1>1. QueueTypes /\ asker[a] \in AskStates /\ a \in Busy /\ asker[a].at = "batch"
  BY DEF QueueInv, QueueTypes, CheckBudget, Busy
<1>2. UNCHANGED <<pendingFile, passedOver>>
  BY DEF CheckBudget
<1>3. pendingFile' \in SUBSET Suspects /\ passedOver' \in [Suspects -> Nat] /\ passedOver' = passedOver
  BY <1>1, <1>2 DEF QueueTypes
<1>4. CASE asker' = [asker EXCEPT ![a].at = "count"] /\ UNCHANGED setbacks
  <2> DEFINE ask == [asker[a] EXCEPT !.at = "count"]
  <2>1. asker' = [asker EXCEPT ![a] = ask]
    BY <1>4
  <2>2. /\ ask \in AskStates /\ ask.at = "count" /\ ask.first = asker[a].first
        /\ ask.suspicious = asker[a].suspicious /\ ask.asked = asker[a].asked
        /\ ask.left = asker[a].left /\ ask.pending = asker[a].pending
    BY <1>1 DEF AskStates
  <2> HIDE DEF ask
  <2>3. QueueFrame(a) /\ asker'[a] = ask
    <3>1. setbacks' \in Nat
      BY <1>1, <1>4 DEF QueueTypes
    <3> QED
      BY <1>1, <1>3, <2>1, <2>2, <3>1, FrameHolds
  <2>4. Undisturbed(asker[a], pendingFile) => Undisturbed(asker'[a], pendingFile)
    BY <2>2, <2>3 DEF Undisturbed, Selection
  <2>5. \A j \in Suspects : Plans(asker[a], j) => Plans(asker'[a], j)
    BY <2>2, <2>3 DEF Plans
  <2> QED
    BY <1>1, <1>2, <1>4, <2>2, <2>3, <2>4, <2>5, SmoothStep
<1>5. CASE asker' = [asker EXCEPT ![a] = Deferred(@)] /\ Setback(1)
  <2>1. setbacks' = setbacks + 1 /\ setbacks' \in Nat
    BY <1>1, <1>5, SetbackSum DEF QueueTypes
  <2>2. Deferred(asker[a]) \in AskStates /\ Deferred(asker[a]).at = "save"
    BY <1>1, DeferredTypes
  <2>3. QueueFrame(a)
    BY <1>1, <1>3, <1>5, <2>1, <2>2, FrameHolds
  <2>4. \A j \in Suspects : passedOver'[j] <= passedOver[j]
    BY <1>1, <1>3 DEF QueueTypes
  <2> QED
    BY <1>1, <2>1, <2>3, <2>4, SetbackPays
<1> QED
  BY <1>4, <1>5 DEF CheckBudget

\* A call asks about the batch in hand.
LEMMA CountCallKeeps ==
    ASSUME QueueInv, NEW a \in Askers, CountCall(a)
    PROVE  QueueInv'
<1>1. QueueTypes /\ asker[a] \in AskStates /\ a \in Busy /\ asker[a].at = "count"
  BY DEF QueueInv, QueueTypes, CountCall, Busy
<1>2. UNCHANGED <<pendingFile, passedOver, setbacks>>
  BY DEF CountCall
<1> DEFINE batch == AskBatch(asker[a])
           ask == [asker[a] EXCEPT !.at = "post", !.asked = @ \cup batch]
<1>3. asker' = [asker EXCEPT ![a] = ask]
  BY DEF CountCall
<1>4. batch \subseteq asker[a].left /\ batch \in SUBSET Suspects
  BY <1>1, BatchIsLeft DEF AskStates
<1>5. /\ ask \in AskStates /\ ask.at = "post" /\ ask.asked = asker[a].asked \cup batch
      /\ ask.first = asker[a].first /\ ask.suspicious = asker[a].suspicious
      /\ ask.left = asker[a].left /\ ask.pending = asker[a].pending
  <2> HIDE DEF batch
  <2> QED
    BY <1>1, <1>4 DEF AskStates
<1> HIDE DEF ask
<1>6. AskBatch(ask) = batch
  BY <1>5 DEF AskBatch
<1>7. QueueFrame(a) /\ asker'[a] = ask
  <2>1. pendingFile' \in SUBSET Suspects /\ passedOver' \in [Suspects -> Nat] /\ setbacks' \in Nat
    BY <1>1, <1>2 DEF QueueTypes
  <2>2. AskBatch(ask) \subseteq ask.asked
    BY <1>5, <1>6
  <2> HIDE DEF batch
  <2> QED
    BY <1>1, <1>3, <1>5, <2>1, <2>2, FrameHolds
<1> HIDE DEF batch
<1>8. Undisturbed(asker[a], pendingFile) => Undisturbed(asker'[a], pendingFile)
  BY <1>4, <1>5, <1>7 DEF Undisturbed, Selection
<1>9. \A j \in Suspects : Plans(asker[a], j) => Plans(asker'[a], j)
  BY <1>5, <1>7 DEF Plans
<1> QED
  BY <1>1, <1>2, <1>5, <1>7, <1>8, <1>9, SmoothStep

\* A full answer leaves the batch neither pending nor to be asked.
LEMMA AskAnsweredKeeps ==
    ASSUME QueueInv, NEW a \in Askers, AskAnswered(a)
    PROVE  QueueInv'
<1>1. QueueTypes /\ asker[a] \in AskStates /\ a \in Busy /\ asker[a].at = "post"
  BY DEF QueueInv, QueueTypes, AskAnswered, Busy
<1>2. UNCHANGED <<pendingFile, passedOver>>
  BY DEF AskAnswered
<1> DEFINE batch == AskBatch(asker[a])
<1>3. PICK answered \in SUBSET batch :
        /\ asker' = [asker EXCEPT ![a].at = "batch", ![a].attempt = 0,
                                  ![a].left = @ \ batch,
                                  ![a].pending = (@ \union batch) \ answered,
                                  ![a].classified = @ \union answered]
        /\ Setback(IF answered = batch THEN 0 ELSE 1)
  BY DEF AskAnswered
<1> DEFINE ask == [asker[a] EXCEPT !.at = "batch", !.attempt = 0, !.left = @ \ batch,
                                   !.pending = (@ \union batch) \ answered,
                                   !.classified = @ \union answered]
<1>4. /\ batch \subseteq asker[a].left /\ batch \in SUBSET Suspects
      /\ batch \subseteq asker[a].asked
  BY <1>1, BatchIsLeft DEF AskStates, QueueInv
<1> HIDE DEF batch
<1>5. asker' = [asker EXCEPT ![a] = ask]
  BY <1>3
<1>6. /\ ask \in AskStates /\ ask.at = "batch" /\ ask.asked = asker[a].asked
      /\ ask.first = asker[a].first /\ ask.suspicious = asker[a].suspicious
      /\ ask.left = asker[a].left \ batch
      /\ ask.pending = (asker[a].pending \union batch) \ answered
  BY <1>1, <1>4 DEF AskStates
<1> HIDE DEF ask
<1>7. setbacks' = setbacks + (IF answered = batch THEN 0 ELSE 1) /\ setbacks' \in Nat
  BY <1>1, <1>3, SetbackSum DEF QueueTypes
<1>8. QueueFrame(a) /\ asker'[a] = ask
  <2>1. pendingFile' \in SUBSET Suspects /\ passedOver' \in [Suspects -> Nat]
    BY <1>1, <1>2 DEF QueueTypes
  <2> QED
    BY <1>1, <1>5, <1>6, <1>7, <2>1, FrameHolds
<1>9. CASE answered = batch
  <2>1. setbacks' = setbacks
    BY <1>1, <1>7, <1>9 DEF QueueTypes
  <2>2. ASSUME Undisturbed(asker[a], pendingFile)
        PROVE  Undisturbed(asker'[a], pendingFile)
    <3>1. Selection(ask) = Selection(asker[a])
      BY <1>6 DEF Selection
    <3> QED
      BY <1>4, <1>6, <1>8, <1>9, <2>2, <3>1 DEF Undisturbed
  <2>3. \A j \in Suspects : Plans(asker[a], j) => Plans(asker'[a], j)
    BY <1>4, <1>6, <1>8 DEF Plans
  <2> QED
    BY <1>1, <1>2, <1>6, <1>8, <2>1, <2>2, <2>3, SmoothStep
<1>10. CASE answered # batch
  <2>1. setbacks' = setbacks + 1
    BY <1>7, <1>10
  <2>2. \A j \in Suspects : passedOver'[j] <= passedOver[j]
    BY <1>1, <1>2 DEF QueueTypes
  <2> QED
    BY <1>1, <1>8, <2>1, <2>2, SetbackPays
<1> QED
  BY <1>9, <1>10

\* What an undisturbed pass leaves.
LEMMA LeavesFewPending ==
    ASSUME Cardinality(Suspects) <= 2 * JobsPerRun,
           NEW ask \in AskStates, NEW file \in SUBSET Suspects, Undisturbed(ask, file), ask.left = {},
           NEW j \in ask.suspicious, j \notin ask.asked
    PROVE  j \in ask.pending /\ Cardinality(ask.pending) <= JobsPerRun
<1> DEFINE sel == Selection(ask)
<1>1. sel \in SUBSET Suspects /\ j \in Suspects /\ ask.suspicious \in SUBSET Suspects
  BY DEF Selection, UpTo, AskStates
<1>2. sel = ask.asked /\ ask.pending = (file \cup (ask.suspicious \ sel)) \ sel
  BY DEF Undisturbed
<1>3. j \notin UpTo(JobsPerRun, ask.first, ask.suspicious)
  BY <1>2 DEF Selection
<1>4. JobsPerRun <= Cardinality(sel)
  BY <1>1, <1>3, Counts, FirstAreMany DEF Selection
<1> HIDE DEF sel
<1>5. Cardinality(Suspects \ sel) = Cardinality(Suspects) - Cardinality(sel)
  <2>1. sel \cap (Suspects \ sel) = {} /\ sel \cup (Suspects \ sel) = Suspects
    BY <1>1
  <2>2. IsFiniteSet(sel) /\ IsFiniteSet(Suspects \ sel)
    BY <1>1, Counts
  <2>3. Cardinality(sel \cup (Suspects \ sel)) =
          Cardinality(sel) + Cardinality(Suspects \ sel) - Cardinality(sel \cap (Suspects \ sel))
    BY <2>2, FS_Union
  <2>4. Cardinality({}) = 0
    BY FS_EmptySet
  <2>5. Cardinality(sel) \in Nat /\ Cardinality(Suspects \ sel) \in Nat
    BY <1>1, Counts
  <2>6. Cardinality(Suspects) = Cardinality(sel) + Cardinality(Suspects \ sel) - 0
    BY <2>1, <2>3, <2>4, Zenon
  <2> QED
    BY <2>5, <2>6
<1>6. ask.pending \in SUBSET (Suspects \ sel)
  BY <1>1, <1>2
<1>7. Cardinality(ask.pending) <= Cardinality(Suspects \ sel)
  BY <1>1, <1>6, Counts, FS_Subset
<1>8. /\ Cardinality(ask.pending) \in Nat /\ Cardinality(sel) \in Nat
      /\ Cardinality(Suspects) \in Nat /\ JobsPerRun \in Nat
  BY <1>1, <1>6, Counts
<1>9. Cardinality(ask.pending) <= JobsPerRun
  BY <1>4, <1>5, <1>7, <1>8
<1> QED
  BY <1>2, <1>9

\* What the end of a pass makes of the count of a posting.
LEMMA PassCounts ==
    ASSUME QueueTypes, NEW a \in Askers, SavePending(a), NEW j \in Suspects
    PROVE  /\ passedOver'[j] \in Nat /\ passedOver'[j] <= passedOver[j] + 1
           /\ j \in asker[a].asked \/ j \notin asker[a].suspicious => passedOver'[j] = 0
           /\ asker[a].asked = {} => passedOver'[j] <= passedOver[j]
<1>1. passedOver[j] \in Nat
  BY DEF QueueTypes
<1>2. passedOver'[j] =
        IF j \in asker[a].asked \/ j \notin asker[a].suspicious THEN 0
        ELSE IF asker[a].asked = {} THEN passedOver[j] ELSE passedOver[j] + 1
  BY DEF SavePending
<1> QED
  BY <1>1, <1>2

\* A pass that saves its queue has asked about those it passed over last time.
LEMMA SavePendingKeeps ==
    ASSUME Cardinality(Suspects) <= 2 * JobsPerRun,
           QueueInv, NEW a \in Askers, SavePending(a)
    PROVE  QueueInv'
<1>1. QueueTypes /\ asker[a] \in AskStates /\ a \in Busy
  BY DEF QueueInv, QueueTypes, SavePending, Busy
<1>2. PICK saved \in BOOLEAN :
        /\ pendingFile' = IF saved THEN asker[a].pending ELSE pendingFile
        /\ Setback(IF saved THEN 0 ELSE 1)
  BY DEF SavePending
<1>3. setbacks \in Nat /\ setbacks' = setbacks + (IF saved THEN 0 ELSE 1) /\ setbacks' \in Nat
  BY <1>1, <1>2, SetbackSum DEF QueueTypes
<1>4. pendingFile' \in SUBSET Suspects
  BY <1>1, <1>2 DEF QueueTypes, AskStates
<1>5. passedOver' \in [Suspects -> Nat]
  <2>1. passedOver' = [j \in Suspects |-> passedOver'[j]]
    BY DEF SavePending
  <2> QED
    BY <1>1, <2>1, PassCounts
<1>6. QueueFrame(a) /\ asker'[a].at = "idle"
  <2>1. NotAsking \in AskStates /\ NotAsking.at = "idle"
    BY DEF AskStates, NotAsking
  <2>2. asker' = [asker EXCEPT ![a] = NotAsking]
    BY DEF SavePending
  <2> QED
    BY <1>1, <1>3, <1>4, <1>5, <2>1, <2>2, FrameHolds
<1>7. CASE ~saved
  <2>1. setbacks' = setbacks + 1
    BY <1>3, <1>7
  <2>2. \A j \in Suspects : passedOver'[j] <= passedOver[j] + 1
    BY <1>1, PassCounts
  <2> QED
    BY <1>1, <1>6, <2>1, <2>2, SetbackPays
<1>8. CASE saved
  <2>1. setbacks' = setbacks /\ pendingFile' = asker[a].pending
    BY <1>2, <1>3, <1>8
  <2>2. Busy' = Busy \ {a} /\ Cardinality(Busy') + 1 = Cardinality(Busy)
    <3>1. \A b \in Askers \ {a} : asker'[b].at = asker[b].at
      BY <1>6 DEF QueueFrame
    <3> QED
      BY <1>1, <1>6, <3>1, Moving
  <2> DEFINE n == Cardinality(Busy)
             m == Cardinality(Busy')
  <2>3. n \in Nat /\ m \in Nat /\ m + 1 = n /\ n <= setbacks + 1
    <3>1. Busy' \in SUBSET Busy
      BY <2>2
    <3> QED
      BY <2>2, <3>1, BusyCounts, FS_Subset, FS_CardinalityType DEF QueueInv
  <2>4. asker[a].at = "save" \/ asker[a].left = {}
    BY DEF SavePending
  <2>5. ASSUME NEW j \in Suspects PROVE Account(j)'
    <3> DEFINE p == passedOver[j]
               q == passedOver'[j]
    <3>1. /\ p \in Nat /\ q \in Nat /\ q <= p + 1
          /\ j \in asker[a].asked \/ j \notin asker[a].suspicious => q = 0
          /\ asker[a].asked = {} => q <= p
      BY <1>1, PassCounts DEF QueueTypes
    <3>2. q + m <= 2 * setbacks => Account(j)'
      BY <2>1 DEF Account
    <3>3. q = 0 => q + m <= 2 * setbacks
      <4> HIDE DEF p, q, n, m
      <4> QED
        BY <1>3, <2>3
    <3>4. CASE p + n <= 2 * setbacks
      <4>1. q + m <= 2 * setbacks
        <5> HIDE DEF p, q, n, m
        <5> QED
          BY <1>3, <2>3, <3>1, <3>4
      <4> QED
        BY <3>2, <4>1
    <3>5. ASSUME NEW b \in Askers, Busy = {b}, p <= 2 * setbacks,
                 Undisturbed(asker[b], pendingFile)
          PROVE  Account(j)'
      <4>1. b = a /\ asker[a].left = {}
        BY <1>1, <2>4, <3>5 DEF Undisturbed
      <4>2. Busy' = {} /\ m = 0
        BY <2>2, <3>5, <4>1, FS_EmptySet
      <4>3. CASE j \in asker[a].asked \/ j \notin asker[a].suspicious
        BY <3>1, <3>2, <3>3, <4>3
      <4>4. CASE q <= p
        <5>1. q + m <= 2 * setbacks
          <6> HIDE DEF p, q, n, m
          <6> QED
            BY <1>3, <3>1, <3>5, <4>2, <4>4
        <5> QED
          BY <3>2, <5>1
      <4>5. CASE j \notin asker[a].asked /\ j \in asker[a].suspicious
        <5>1. j \in asker[a].pending /\ Cardinality(asker[a].pending) <= JobsPerRun
          BY <1>1, <3>5, <4>1, <4>5, LeavesFewPending DEF QueueTypes
        <5>2. q <= 2 * setbacks' + 1
          <6> HIDE DEF p, q
          <6> QED
            BY <1>3, <2>1, <3>1, <3>5
        <5> QED
          BY <2>1, <4>2, <5>1, <5>2 DEF Account
      <4> QED
        BY <4>3, <4>5
    <3>6. ASSUME NEW b \in Busy, p + n <= 2 * setbacks + 2, Plans(asker[b], j)
          PROVE  Account(j)'
      <4>1. CASE b = a
        <5>1. j \in asker[a].asked \/ j \notin asker[a].suspicious
          BY <2>4, <3>6, <4>1 DEF Plans
        <5> QED
          BY <3>1, <3>2, <3>3, <5>1
      <4>2. CASE b # a
        <5>1. b \in Busy' /\ asker'[b] = asker[b]
          BY <1>6, <2>2, <4>2, BusyCounts DEF QueueFrame
        <5>2. q + m <= 2 * setbacks' + 2
          <6> HIDE DEF p, q, n, m
          <6> QED
            BY <1>3, <2>1, <2>3, <3>1, <3>6
        <5> QED
          BY <3>6, <5>1, <5>2 DEF Account
      <4> QED
        BY <4>1, <4>2
    <3>7. Account(j) /\ Busy # {}
      BY <1>1 DEF QueueInv
    <3> QED
      BY <3>4, <3>5, <3>6, <3>7 DEF Account
  <2>6. m <= setbacks' + 1
    <3> HIDE DEF n, m
    <3> QED
      BY <1>3, <2>1, <2>3
  <2>7. \A b \in Askers : asker'[b].at = "post" => AskBatch(asker'[b]) \subseteq asker'[b].asked
    BY <1>6 DEF QueueInv, QueueFrame
  <2>8. QueueTypes'
    BY <1>6 DEF QueueFrame
  <2> QED
    BY <2>5, <2>6, <2>7, <2>8 DEF QueueInv
<1> QED
  BY <1>7, <1>8

\* Nothing of the queue changes.
LEMMA QueueRests ==
    ASSUME QueueInv, UNCHANGED <<pendingFile, asker, passedOver, setbacks>>
    PROVE  QueueInv'
<1>1. /\ pendingFile' = pendingFile /\ asker' = asker /\ passedOver' = passedOver
      /\ setbacks' = setbacks /\ Busy' = Busy
  BY DEF Busy
<1>2. \A j \in Suspects : Account(j)' <=> Account(j)
  BY <1>1 DEF Account
<1> QED
  BY <1>1, <1>2 DEF QueueInv, QueueTypes

\* Every posting gets its turn, however runs overlap, fail and crash: twice
\* more for each setback, and once for itself, it is passed over at most.
THEOREM TurnsAreGiven == ScamSpec => []EveryoneGetsATurn
<1>1. Cardinality(Suspects) <= 2 * JobsPerRun => (ScamInit => QueueInv)
  <2>1. SUFFICES ASSUME ScamInit PROVE QueueInv
    OBVIOUS
  <2>2. QueueTypes
    BY <2>1 DEF ScamInit, QueueTypes, NotAsking, AskStates
  <2>3. Busy = {} /\ Cardinality(Busy) = 0
    <3>1. Busy = {}
      BY <2>1 DEF ScamInit, NotAsking, Busy
    <3> QED
      BY <3>1, FS_EmptySet
  <2>4. \A j \in Suspects : Account(j)
    BY <2>1, <2>3 DEF ScamInit, Account
  <2>5. \A a \in Askers : asker[a].at = "post" => AskBatch(asker[a]) \subseteq asker[a].asked
    BY <2>1 DEF ScamInit, NotAsking
  <2>6. Cardinality(Busy) <= setbacks + 1
    BY <2>1, <2>3 DEF ScamInit
  <2> QED
    BY <2>2, <2>4, <2>5, <2>6 DEF QueueInv
<1>2. Cardinality(Suspects) <= 2 * JobsPerRun => (QueueInv /\ [ScamNext]_scamVars => QueueInv')
  <2>1. SUFFICES ASSUME Cardinality(Suspects) <= 2 * JobsPerRun, QueueInv, [ScamNext]_scamVars
                 PROVE  QueueInv'
    OBVIOUS
  <2>2. ASSUME NEW a \in Askers, StartPass(a) PROVE QueueInv'
    BY <2>1, <2>2, StartKeeps
  <2>3. ASSUME NEW a \in Askers, CheckBudget(a) PROVE QueueInv'
    BY <2>1, <2>3, CheckBudgetKeeps
  <2>4. ASSUME NEW a \in Askers, CountCall(a) PROVE QueueInv'
    BY <2>1, <2>4, CountCallKeeps
  <2>5. ASSUME NEW a \in Askers, AskFails(a) PROVE QueueInv'
    BY <2>1, <2>5, AskFailsKeeps
  <2>6. ASSUME NEW a \in Askers, AskAnswered(a) PROVE QueueInv'
    BY <2>1, <2>6, AskAnsweredKeeps
  <2>7. ASSUME NEW a \in Askers, AskBreaks(a) PROVE QueueInv'
    BY <2>1, <2>7, AskBreaksKeeps
  <2>8. ASSUME NEW a \in Askers, SavePending(a) PROVE QueueInv'
    BY <2>1, <2>8, SavePendingKeeps
  <2>9. ASSUME NEW a \in Askers, AskerCrash(a) PROVE QueueInv'
    BY <2>1, <2>9, AskerCrashKeeps
  <2>10. ASSUME NextAskDay \/ UNCHANGED scamVars PROVE QueueInv'
    <3>1. UNCHANGED <<pendingFile, asker, passedOver, setbacks>>
      BY <2>10 DEF NextAskDay, scamVars
    <3> QED
      BY <2>1, <3>1, QueueRests
  <2> QED
    BY <2>1, <2>2, <2>3, <2>4, <2>5, <2>6, <2>7, <2>8, <2>9, <2>10 DEF ScamNext
<1>3. QueueInv => EveryoneGetsATurn
  <2>1. SUFFICES ASSUME QueueInv, NEW j \in Suspects PROVE passedOver[j] <= 1 + 2 * setbacks
    BY DEF EveryoneGetsATurn
  <2>2. passedOver[j] \in Nat /\ setbacks \in Nat /\ Account(j)
    BY <2>1 DEF QueueInv, QueueTypes
  <2>3. passedOver[j] <= 2 * setbacks + 1
    BY <2>2, AccountBound
  <2> QED
    BY <2>2, <2>3
<1>4. ~(Cardinality(Suspects) <= 2 * JobsPerRun) => EveryoneGetsATurn
  BY DEF EveryoneGetsATurn
<1> DEFINE enough == Cardinality(Suspects) <= 2 * JobsPerRun
<1>5. CASE enough
  <2>1. ScamInit => QueueInv
    BY <1>1, <1>5
  <2>2. QueueInv /\ [ScamNext]_scamVars => QueueInv'
    BY <1>2, <1>5
  <2> QED
    BY <1>3, <2>1, <2>2, PTL DEF ScamSpec
<1>6. CASE ~enough
  <2>1. EveryoneGetsATurn
    BY <1>4, <1>6
  <2> QED
    BY <2>1, PTL
<1> QED
  BY <1>5, <1>6

-----------------------------------------------------------------------------
(* A forum topic.  What a read put together from several pages was the     *)
(* topic as it was when the first page was read, unless an edit fell in.   *)

\* Among some of the first posts there is a last one.
LEMMA LastOfPosts ==
    ASSUME NEW l \in Nat, NEW T \in SUBSET (1..l), T # {}
    PROVE  Max(T) \in T /\ \A n \in T : n <= Max(T)
<1>1. T \in SUBSET (0..l)
  OBVIOUS
<1>2. PICK x \in T : \A y \in T : y <= x
  BY <1>1, LatestDay
<1>3. \A y \in T : x >= y
  BY <1>2
<1> QED
  BY <1>3 DEF Max

\* Terms that were taken as current have the newest amounts.
CurrentIsNewest(terms, got, steady) ==
  terms # None =>
    \A n \in terms : got[n].says \in Amounts =>
      \A m \in Own(got) \ {n} :
        /\ Declares(got[m]) /\ m > 1 => got[m].at <= got[n].at /\ Declares(got[n])
        /\ n > 1 /\ Declares(got[n]) /\ steady /\ got[m].says \in Amounts =>
             got[m].edited = None \/ got[m].edited <= got[n].at

\* The edits of a post come after it; those of a post of a steady read are no
\* later than the time the read observes at.
EditsOrdered(post, last) ==
  post.at \in Nat /\ (post.edited # None => post.edited \in post.at..last)

\* Of several declarations the terms are bound to the latest.
LEMMA LatestIsBound ==
    ASSUME NEW got, NEW listed, NEW readAt, NEW l \in Nat, DOMAIN got \subseteq 1..l,
           CurrentTerms(got, listed, readAt) # None,
           NEW n \in CurrentTerms(got, listed, readAt),
           NEW m \in Own(got) \ {n}, Declares(got[m]), m > 1
    PROVE  got[m].at <= got[n].at /\ Declares(got[n])
<1> DEFINE changes == Declared(got)
           latest == Max(changes)
           current == IF changes = {} THEN Own(got)
                      ELSE IF got[latest].says = "budget" THEN {latest} ELSE {}
<1>1. CurrentTerms(got, listed, readAt) = current /\ DatesInOrder(got)
  BY DEF CurrentTerms, LatestTerms
<1>2. changes \in SUBSET (1..l) /\ m \in changes
  BY DEF Declared, Own
<1>3. latest \in changes /\ m <= latest
  BY <1>2, LastOfPosts
<1>4. n = latest /\ got[latest].says = "budget"
  <2> HIDE DEF latest, changes
  <2> QED
    BY <1>1, <1>2
<1> HIDE DEF latest
<1>5. m < latest /\ m \in 1..l /\ latest \in 1..l
  BY <1>2, <1>3, <1>4
<1>6. got[m].at <= got[latest].at
  BY <1>1, <1>2, <1>3, <1>5 DEF DatesInOrder
<1> QED
  BY <1>4, <1>6 DEF Declares

\* No amount beside a declared one was edited after it.
LEMMA NoneEditedSince ==
    ASSUME NEW got, NEW listed, NEW readAt \in Nat, NEW l \in Nat, DOMAIN got \subseteq 1..l,
           \A k \in DOMAIN got : EditsOrdered(got[k], readAt),
           CurrentTerms(got, listed, readAt) # None,
           NEW n \in CurrentTerms(got, listed, readAt), n > 1, Declares(got[n]),
           NEW m \in Own(got) \ {n}, got[m].says \in Amounts, got[m].edited # None
    PROVE  got[m].edited <= got[n].at
<1> DEFINE changes == Declared(got)
           latest == Max(changes)
<1>1. CurrentTerms(got, listed, readAt) = LatestTerms(got) /\ ~EditedSince(got, readAt)
  BY DEF CurrentTerms
<1>2. n \in Own(got)
  <2>1. LatestTerms(got) \subseteq Own(got) \cup {latest}
    BY DEF LatestTerms
  <2>2. CASE n \in Own(got)
    BY <2>2
  <2>3. CASE n = latest /\ changes # {}
    <3>1. changes \in SUBSET (1..l)
      BY DEF Declared, Own
    <3>2. latest \in changes
      BY <2>3, <3>1, LastOfPosts
    <3> QED
      BY <2>3, <3>2 DEF Declared
  <2> QED
    BY <1>1, <2>1, <2>2, <2>3 DEF LatestTerms
<1>3. n \in changes /\ changes # {}
  BY <1>2 DEF Declared
<1>4. LatestTerms(got) = {latest} /\ n = latest
  BY <1>1, <1>3 DEF LatestTerms
<1>5. m \in Own(got) \ LatestTerms(got)
  BY <1>4
<1>6. ~(EditedAt(got[m], readAt) # None /\ EditedAt(got[m], readAt) > got[latest].at)
  BY <1>1, <1>3, <1>5 DEF EditedSince
<1>7. m \in DOMAIN got /\ n \in DOMAIN got
  BY <1>2 DEF Own
<1>8. /\ got[m].at \in Nat /\ got[m].edited \in got[m].at..readAt
      /\ got[n].at \in Nat
  BY <1>7 DEF EditsOrdered
<1>9. EditedAt(got[m], readAt) = got[m].edited
  BY <1>8 DEF EditedAt
<1> HIDE DEF latest
<1> QED
  BY <1>4, <1>6, <1>8, <1>9

\* Both together: the terms have the newest amounts.
LEMMA TermsAreNewest ==
    ASSUME NEW got, NEW listed, NEW readAt \in Nat, NEW l \in Nat, DOMAIN got \subseteq 1..l,
           NEW steady, steady => \A k \in DOMAIN got : EditsOrdered(got[k], readAt)
    PROVE  CurrentIsNewest(CurrentTerms(got, listed, readAt), got, steady)
<1> SUFFICES ASSUME CurrentTerms(got, listed, readAt) # None,
                    NEW n \in CurrentTerms(got, listed, readAt),
                    NEW m \in Own(got) \ {n}
             PROVE  /\ Declares(got[m]) /\ m > 1 => got[m].at <= got[n].at /\ Declares(got[n])
                    /\ n > 1 /\ Declares(got[n]) /\ steady /\ got[m].says \in Amounts =>
                         got[m].edited = None \/ got[m].edited <= got[n].at
  BY DEF CurrentIsNewest
<1>1. Declares(got[m]) /\ m > 1 => got[m].at <= got[n].at /\ Declares(got[n])
  BY LatestIsBound
<1>2. ASSUME n > 1, Declares(got[n]), steady, got[m].says \in Amounts, got[m].edited # None
      PROVE  got[m].edited <= got[n].at
  BY <1>2, NoneEditedSince
<1> QED
  BY <1>1, <1>2

\* A read under way agrees with the topic, as far as no post was edited.
ReadAgrees(r) ==
  /\ r.pages \in Nat
  /\ r.pages = 0 => DOMAIN r.got = {}
  /\ r.pages > 0 =>
       /\ \E l \in 0..Len(topic) : r.listed = 1..l
       /\ DOMAIN r.got \subseteq r.listed /\ r.got = [n \in DOMAIN r.got |-> r.got[n]]
       /\ r.steady =>
            /\ \A n \in DOMAIN r.got : r.got[n] = topic[n]
            /\ SaysClosed([n \in r.listed |-> topic[n]]) => r.wasClosed

ReadFields == {"on", "asOf", "got", "listed", "pages", "wasClosed", "steady"}

Post ==
  [by : {"author"} \cup Writers, says : Openers \cup Sayings, at : Nat, edited : Nat \cup {None}]

\* An edit later than the time a read observes at fell into the read.
EditsKnown(r) ==
  /\ r.asOf \in Nat
  /\ r.steady => \A n \in DOMAIN topic : EditsOrdered(topic[n], r.asOf)

ThreadInv ==
  /\ topic \in Seq(Post) /\ moment \in Nat
  /\ \A n \in DOMAIN topic : topic[n].at <= moment /\ EditsOrdered(topic[n], moment)
  /\ DOMAIN reading = ReadFields
  /\ reading.on => ReadAgrees(reading) /\ EditsKnown(reading)
  /\ ReadingIsFair

\* What a read that ends says of the topic is fair.
LEMMA ProjectionFair ==
    ASSUME ThreadInv, NEW got, NEW listed, NEW error, NEW l \in 0..Len(topic),
           listed = 1..l, DOMAIN got \subseteq listed, EditsKnown(reading),
           reading.steady => \A n \in DOMAIN got : got[n] = topic[n],
           reading.steady /\ DOMAIN got = listed =>
             (SaysClosed(got) => reading.wasClosed \/ SaysClosed(topic)),
           capture' = Projection(got, listed, reading.asOf, error)
    PROVE  ReadingIsFair'
<1> DEFINE c == Projection(got, listed, reading.asOf, error)
<1>1. /\ c.got = got /\ c.vacancy = Vacancy(got, listed, reading.asOf)
      /\ c.wasClosed = (reading.wasClosed \/ SaysClosed(topic)) /\ c.steady = reading.steady
  BY DEF Projection
<1>2. \/ c.terms = None
      \/ c.terms = CurrentTerms(got, listed, reading.asOf)
  BY DEF Projection
<1> HIDE DEF c
<1>3. capture' = c
  BY DEF c
<1>4. ASSUME c.steady, c.vacancy = "explicitly_closed" PROVE c.wasClosed
  <2>1. Complete(got, listed, reading.asOf) /\ SaysClosed(got)
    BY <1>1, <1>4 DEF Vacancy
  <2>2. DOMAIN got = listed
    BY <2>1 DEF Complete
  <2> QED
    BY <1>1, <1>4, <2>1, <2>2
<1>5. l \in Nat
  BY DEF ThreadInv
<1>10. ASSUME reading.steady, NEW n \in DOMAIN got PROVE EditsOrdered(got[n], reading.asOf)
  <2>1. n \in DOMAIN topic /\ got[n] = topic[n]
    BY <1>10 DEF ThreadInv
  <2> QED
    BY <1>10, <2>1 DEF EditsKnown
<1>6. CurrentIsNewest(CurrentTerms(got, listed, reading.asOf), got, reading.steady)
  BY <1>5, <1>10, TermsAreNewest DEF EditsKnown
<1>7. CurrentIsNewest(c.terms, c.got, c.steady)
  BY <1>1, <1>2, <1>6 DEF CurrentIsNewest
<1>8. ClosedWasSaid'
  BY <1>3, <1>4 DEF ClosedWasSaid
<1>9. CurrentAmountIsNewest'
  BY <1>3, <1>7 DEF CurrentAmountIsNewest, CurrentIsNewest
<1> QED
  BY <1>8, <1>9 DEF ReadingIsFair

\* The posts of the next request are among those it is for.
LEMMA AskedAmong ==
    Asked \subseteq (IF reading.pages = 0 THEN DOMAIN topic ELSE reading.listed \ DOMAIN reading.got)
BY DEF Asked, Missing

\* A page adds posts of the topic as it is now.
LEMMA FetchKeeps ==
    ASSUME ThreadInv, FetchPage
    PROVE  ThreadInv'
<1> DEFINE listed == IF reading.pages = 0 THEN DOMAIN topic ELSE reading.listed
           got == [n \in DOMAIN reading.got \cup Asked |->
                     IF n \in Asked THEN topic[n] ELSE reading.got[n]]
           closed == SaysClosed(topic) \/ (reading.pages > 0 /\ reading.wasClosed)
<1>1. reading.on /\ UNCHANGED <<topic, moment>>
  BY DEF FetchPage
<1>2. /\ ReadAgrees(reading) /\ topic \in Seq(Post) /\ moment \in Nat
      /\ DOMAIN reading = ReadFields /\ EditsKnown(reading)
      /\ \A n \in DOMAIN topic : topic[n].at <= moment /\ EditsOrdered(topic[n], moment)
  BY <1>1 DEF ThreadInv
<1>3. PICK l \in 0..Len(topic) : listed = 1..l
  BY <1>2 DEF ReadAgrees
<1>4. reading.pages = 0 => listed = DOMAIN topic /\ DOMAIN got \subseteq listed
  BY <1>2, AskedAmong DEF ReadAgrees
<1>5. reading.pages > 0 => listed = reading.listed /\ DOMAIN got \subseteq listed
  BY <1>2, AskedAmong DEF ReadAgrees
<1>6. reading.pages = 0 \/ reading.pages > 0
  BY <1>2 DEF ReadAgrees
<1>7. DOMAIN got \subseteq listed
  BY <1>4, <1>5, <1>6
<1>8. ASSUME reading.steady, NEW n \in DOMAIN got PROVE got[n] = topic[n]
  BY <1>2, <1>6, <1>8 DEF ReadAgrees
<1>9. reading.steady /\ DOMAIN got = listed => got = [n \in listed |-> topic[n]]
  <2> DEFINE dom == DOMAIN reading.got \cup Asked
  <2>1. got = [n \in DOMAIN got |-> got[n]]
    OBVIOUS
  <2> HIDE DEF got, listed
  <2> QED
    BY <1>8, <2>1
<1>10. ASSUME reading.steady, SaysClosed([n \in listed |-> topic[n]])
       PROVE  closed
  <2>1. CASE reading.pages = 0
    <3>1. [n \in listed |-> topic[n]] = topic
      BY <1>2, <1>4, <2>1
    <3> QED
      BY <1>10, <3>1
  <2>2. CASE reading.pages > 0
    <3>1. listed = reading.listed
      BY <1>5, <2>2
    <3> HIDE DEF listed
    <3>2. reading.wasClosed
      BY <1>2, <1>10, <2>2, <3>1 DEF ReadAgrees
    <3> QED
      BY <2>2, <3>2
  <2> QED
    BY <1>6, <2>1, <2>2
<1>13. got = [n \in DOMAIN got |-> got[n]]
  OBVIOUS
<1> HIDE DEF listed, got, closed
<1>11. CASE capture' = Projection(got, listed, reading.asOf, FALSE) /\ reading' = NotReading
  <2>1. closed => reading.wasClosed \/ SaysClosed(topic)
    BY DEF closed
  <2>2. reading.steady /\ DOMAIN got = listed =>
          (SaysClosed(got) => reading.wasClosed \/ SaysClosed(topic))
    BY <1>9, <1>10, <2>1
  <2>3. ReadingIsFair'
    BY <1>2, <1>3, <1>7, <1>8, <1>11, <2>2, ProjectionFair
  <2>4. DOMAIN reading' = ReadFields /\ ~reading'.on
    BY <1>11 DEF NotReading, ReadFields
  <2> QED
    BY <1>1, <1>2, <2>3, <2>4 DEF ThreadInv
<1>12. CASE /\ reading' = [reading EXCEPT !.got = got, !.listed = listed,
                                          !.pages = @ + 1, !.wasClosed = closed]
            /\ UNCHANGED capture
  <2>1. /\ DOMAIN reading' = ReadFields /\ reading'.got = got /\ reading'.listed = listed
        /\ reading'.pages = reading.pages + 1 /\ reading'.wasClosed = closed
        /\ reading'.steady = reading.steady /\ reading'.asOf = reading.asOf
    BY <1>2, <1>12 DEF ReadFields
  <2>2. reading'.pages \in Nat /\ reading'.pages # 0
    BY <1>2, <2>1 DEF ReadAgrees
  <2>3. topic' = topic
    BY <1>1
  <2>4. ReadAgrees(reading)'
    <3>1. \E k \in 0..Len(topic') : reading'.listed = 1..k
      BY <1>3, <2>1, <2>3
    <3>2. DOMAIN reading'.got \subseteq reading'.listed
      BY <1>7, <2>1
    <3>4. reading'.got = [n \in DOMAIN reading'.got |-> reading'.got[n]]
      BY <1>13, <2>1
    <3>3. ASSUME reading'.steady
          PROVE  /\ \A n \in DOMAIN reading'.got : reading'.got[n] = topic'[n]
                 /\ SaysClosed([n \in reading'.listed |-> topic'[n]]) => reading'.wasClosed
      <4>1. reading.steady
        BY <2>1, <3>3
      <4>2. \A n \in DOMAIN got : got[n] = topic[n]
        BY <1>8, <4>1
      <4>3. SaysClosed([n \in listed |-> topic[n]]) => closed
        BY <1>10, <4>1
      <4>4. \A n \in DOMAIN reading'.got : reading'.got[n] = topic'[n]
        BY <2>1, <2>3, <4>2
      <4>5. SaysClosed([n \in reading'.listed |-> topic'[n]]) => reading'.wasClosed
        BY <2>1, <2>3, <4>3
      <4> QED
        BY <4>4, <4>5
    <3> QED
      BY <2>2, <3>1, <3>2, <3>3, <3>4 DEF ReadAgrees
  <2>5. ReadingIsFair'
    <3>1. capture' = capture
      BY <1>12
    <3> QED
      BY <3>1 DEF ThreadInv, ReadingIsFair, ClosedWasSaid, CurrentAmountIsNewest
  <2>6. EditsKnown(reading)'
    BY <1>2, <2>1, <2>3 DEF EditsKnown
  <2> QED
    BY <1>1, <1>2, <2>1, <2>4, <2>5, <2>6 DEF ThreadInv
<1> QED
  BY <1>11, <1>12 DEF FetchPage, listed, got, closed

\* A step that leaves the observation alone.
LEMMA CaptureRests ==
    ASSUME ThreadInv, capture' = capture
    PROVE  ReadingIsFair'
BY DEF ThreadInv, ReadingIsFair, ClosedWasSaid, CurrentAmountIsNewest

\* A read begins with nothing fetched.
LEMMA BeginReadKeeps ==
    ASSUME ThreadInv, BeginRead
    PROVE  ThreadInv'
<1>1. UNCHANGED <<topic, moment, capture>> /\ ReadingIsFair'
  BY CaptureRests DEF BeginRead
<1>2. /\ DOMAIN reading' = ReadFields /\ reading'.pages = 0 /\ reading'.got = <<>>
      /\ reading'.asOf = moment
  BY DEF BeginRead, NotReading, ReadFields
<1>3. ReadAgrees(reading)'
  <2>1. DOMAIN reading'.got = {}
    BY <1>2
  <2> QED
    BY <1>2, <2>1 DEF ReadAgrees
<1>4. EditsKnown(reading)'
  BY <1>1, <1>2 DEF ThreadInv, EditsKnown
<1> QED
  BY <1>1, <1>2, <1>3, <1>4 DEF ThreadInv

\* A read that fails is judged by the pages it had.
LEMMA FetchFailsKeeps ==
    ASSUME ThreadInv, FetchFails
    PROVE  ThreadInv'
<1>1. reading.on /\ UNCHANGED <<topic, moment>> /\ reading' = NotReading
  BY DEF FetchFails
<1>2. ReadAgrees(reading) /\ EditsKnown(reading)
  BY <1>1 DEF ThreadInv
<1>3. CASE reading.pages = 0
  <2>1. capture' = None
    BY <1>3 DEF FetchFails
  <2> QED
    BY <1>1, <2>1 DEF ThreadInv, ReadingIsFair, ClosedWasSaid, CurrentAmountIsNewest, NotReading,
                      ReadFields
<1>4. CASE reading.pages > 0
  <2> DEFINE got == reading.got
             listed == reading.listed
  <2>6. reading.pages # 0
    BY <1>2, <1>4 DEF ReadAgrees
  <2>1. capture' = Projection(got, listed, reading.asOf, TRUE)
    BY <2>6 DEF FetchFails
  <2>2. PICK l \in 0..Len(topic) : listed = 1..l
    BY <1>2, <1>4 DEF ReadAgrees
  <2>3. DOMAIN got \subseteq listed
    BY <1>2, <1>4 DEF ReadAgrees
  <2>4. ASSUME reading.steady, DOMAIN got = listed, SaysClosed(got)
        PROVE  reading.wasClosed
    <3>1. got = [n \in DOMAIN got |-> got[n]]
      BY <1>2, <1>4 DEF ReadAgrees
    <3>2. \A n \in DOMAIN got : got[n] = topic[n]
      BY <1>2, <1>4, <2>4 DEF ReadAgrees
    <3> HIDE DEF got
    <3>3. got = [n \in listed |-> topic[n]]
      BY <2>4, <3>1, <3>2
    <3> QED
      BY <1>2, <1>4, <2>4, <3>3 DEF ReadAgrees
  <2>7. ASSUME reading.steady, NEW n \in DOMAIN got PROVE got[n] = topic[n]
    BY <1>2, <1>4, <2>7 DEF ReadAgrees
  <2> HIDE DEF got, listed
  <2>5. ReadingIsFair'
    BY <1>2, <2>1, <2>2, <2>3, <2>4, <2>7, ProjectionFair
  <2> QED
    BY <1>1, <2>5 DEF ThreadInv, NotReading, ReadFields
<1> QED
  BY <1>2, <1>3, <1>4 DEF ReadAgrees

\* A post added leaves the earlier ones as they were read.
LEMMA AddPostKeeps ==
    ASSUME ThreadInv, NEW by \in Writers, NEW says \in Sayings, NEW at \in 0..moment,
           AddPost(by, says, at)
    PROVE  ThreadInv'
<1> DEFINE post == [by |-> by, says |-> says, at |-> at, edited |-> None]
<1>1. topic' = Append(topic, post) /\ moment' = moment /\ capture' = capture
  BY DEF AddPost
<1>2. topic \in Seq(Post) /\ post \in Post /\ moment' \in Nat
  BY <1>1 DEF ThreadInv, Post
<1> HIDE DEF post
<1>3. /\ topic' \in Seq(Post) /\ Len(topic') = Len(topic) + 1
      /\ \A n \in 1..Len(topic) : topic'[n] = topic[n]
  BY <1>1, <1>2
<1>4. reading' = [reading EXCEPT !.wasClosed =
                    @ \/ (reading.pages > 0 /\ SaysClosed(Append(topic, post)))]
  BY DEF AddPost, post
<1>5. /\ DOMAIN reading' = ReadFields /\ reading'.on = reading.on /\ reading'.got = reading.got
      /\ reading'.listed = reading.listed /\ reading'.pages = reading.pages
      /\ reading'.steady = reading.steady /\ reading'.asOf = reading.asOf
      /\ reading.wasClosed => reading'.wasClosed
  BY <1>4 DEF ThreadInv, ReadFields
<1>6. ASSUME reading.on PROVE ReadAgrees(reading)'
  <2>1. ReadAgrees(reading)
    BY <1>6 DEF ThreadInv
  <2>2. CASE reading.pages = 0
    BY <1>5, <2>1, <2>2 DEF ReadAgrees
  <2>3. CASE reading.pages > 0
    <3>1. PICK l \in 0..Len(topic) : reading.listed = 1..l
      BY <2>1, <2>3 DEF ReadAgrees
    <3>2. l \in 0..Len(topic') /\ \A n \in 1..l : n \in 1..Len(topic)
      BY <1>2, <1>3
    <3>3. \A n \in reading.listed : topic'[n] = topic[n]
      BY <1>3, <3>1, <3>2
    <3>4. [n \in reading.listed |-> topic'[n]] = [n \in reading.listed |-> topic[n]]
      BY <3>3
    <3>5. DOMAIN reading.got \subseteq reading.listed
      BY <2>1, <2>3 DEF ReadAgrees
    <3>6. ASSUME reading.steady
          PROVE  /\ \A n \in DOMAIN reading'.got : reading'.got[n] = topic'[n]
                 /\ SaysClosed([n \in reading'.listed |-> topic'[n]]) => reading'.wasClosed
      <4>1. /\ \A n \in DOMAIN reading.got : reading.got[n] = topic[n]
            /\ SaysClosed([n \in reading.listed |-> topic[n]]) => reading.wasClosed
        BY <2>1, <2>3, <3>6 DEF ReadAgrees
      <4>2. \A n \in DOMAIN reading'.got : reading'.got[n] = topic'[n]
        BY <1>5, <3>3, <3>5, <4>1
      <4>3. SaysClosed([n \in reading'.listed |-> topic'[n]]) => reading'.wasClosed
        BY <1>5, <3>4, <4>1
      <4> QED
        BY <4>2, <4>3
    <3> QED
      BY <1>5, <2>1, <2>3, <3>1, <3>2, <3>5, <3>6 DEF ReadAgrees
  <2> QED
    BY <2>1, <2>2, <2>3 DEF ReadAgrees
<1>7. ReadingIsFair'
  BY <1>1, CaptureRests
<1>8. /\ \A n \in DOMAIN topic : topic[n].at <= moment /\ EditsOrdered(topic[n], moment)
      /\ reading.on => EditsKnown(reading)
  BY DEF ThreadInv
<1>9. topic'[Len(topic) + 1] = post /\ DOMAIN topic' = DOMAIN topic \cup {Len(topic) + 1}
  BY <1>1, <1>2
<1>10. post.at \in 0..moment /\ post.edited = None
  BY DEF post
<1>11. \A n \in DOMAIN topic' : topic'[n].at <= moment' /\ EditsOrdered(topic'[n], moment')
  <2> SUFFICES ASSUME NEW n \in DOMAIN topic'
               PROVE  topic'[n].at <= moment' /\ EditsOrdered(topic'[n], moment')
    OBVIOUS
  <2>1. CASE n = Len(topic) + 1
    BY <1>1, <1>2, <1>9, <1>10, <2>1 DEF EditsOrdered
  <2>2. CASE n \in DOMAIN topic
    BY <1>1, <1>2, <1>3, <1>8, <2>2
  <2> QED
    BY <1>9, <2>1, <2>2
<1>12. ASSUME reading.on PROVE EditsKnown(reading)'
  <2>1. EditsKnown(reading)
    BY <1>8, <1>12
  <2>2. ASSUME reading.steady, NEW n \in DOMAIN topic' PROVE EditsOrdered(topic'[n], reading.asOf)
    <3>1. CASE n = Len(topic) + 1
      BY <1>2, <1>9, <1>10, <3>1 DEF EditsOrdered
    <3>2. CASE n \in DOMAIN topic
      BY <1>2, <1>3, <2>1, <2>2, <3>2 DEF EditsKnown
    <3> QED
      BY <1>9, <3>1, <3>2
  <2> QED
    BY <1>5, <2>1, <2>2 DEF EditsKnown
<1> QED
  BY <1>2, <1>3, <1>5, <1>6, <1>7, <1>11, <1>12 DEF ThreadInv

\* A read that an edit falls into is steady no longer.
LEMMA EditPostKeeps ==
    ASSUME ThreadInv, NEW n \in DOMAIN topic, NEW says \in Sayings, EditPost(n, says)
    PROVE  ThreadInv'
<1> DEFINE post == [topic[n] EXCEPT !.says = says, !.edited = moment]
<1>1. topic' = [topic EXCEPT ![n] = post] /\ moment' = moment /\ capture' = capture
  BY DEF EditPost
<1>2. topic \in Seq(Post) /\ moment \in Nat /\ topic[n] \in Post
  BY DEF ThreadInv
<1>3. post \in Post
  BY <1>2 DEF Post
<1> HIDE DEF post
<1>4. topic' \in Seq(Post) /\ Len(topic') = Len(topic)
  BY <1>1, <1>2, <1>3
<1>5. /\ DOMAIN reading' = ReadFields /\ reading'.on = reading.on /\ reading'.got = reading.got
      /\ reading'.listed = reading.listed /\ reading'.pages = reading.pages
      /\ reading'.asOf = reading.asOf /\ (reading.on => ~reading'.steady)
  BY DEF EditPost, ThreadInv, ReadFields
<1>6. ASSUME reading.on PROVE ReadAgrees(reading)'
  <2>1. ReadAgrees(reading)
    BY <1>6 DEF ThreadInv
  <2> QED
    BY <1>4, <1>5, <1>6, <2>1 DEF ReadAgrees
<1>7. ReadingIsFair'
  BY <1>1, CaptureRests
<1>8. post.at = topic[n].at /\ post.edited = moment
  BY <1>2 DEF post, Post
<1>9. /\ \A k \in DOMAIN topic : topic[k].at <= moment /\ EditsOrdered(topic[k], moment)
      /\ reading.on => EditsKnown(reading)
  BY DEF ThreadInv
<1>10. EditsOrdered(post, moment) /\ post.at <= moment
  BY <1>2, <1>8, <1>9 DEF EditsOrdered
<1>11. \A k \in DOMAIN topic' : topic'[k].at <= moment' /\ EditsOrdered(topic'[k], moment')
  BY <1>1, <1>2, <1>9, <1>10
<1>12. ASSUME reading.on PROVE EditsKnown(reading)'
  BY <1>5, <1>9, <1>12 DEF EditsKnown
<1> QED
  BY <1>1, <1>2, <1>4, <1>5, <1>6, <1>7, <1>11, <1>12 DEF ThreadInv

\* What is read off a topic was so, whatever is posted and edited meanwhile
\* and wherever the read ends (community.py:382).
THEOREM ReadsAreFair == ThreadSpec => []ReadingIsFair
<1>1. ThreadInit => ThreadInv
  <2>1. SUFFICES ASSUME ThreadInit PROVE ThreadInv
    OBVIOUS
  <2>2. PICK opener \in Openers :
          topic = <<[by |-> "author", says |-> opener, at |-> 0, edited |-> None]>>
    BY <2>1 DEF ThreadInit
  <2>3. [by |-> "author", says |-> opener, at |-> 0, edited |-> None] \in Post
    BY DEF Post
  <2>4. topic \in Seq(Post)
    BY <2>2, <2>3
  <2>5. \A n \in DOMAIN topic : topic[n].at <= 0 /\ EditsOrdered(topic[n], 0)
    BY <2>2 DEF EditsOrdered
  <2> QED
    BY <2>1, <2>4, <2>5 DEF ThreadInit, ThreadInv, NotReading, ReadFields, ReadingIsFair, ClosedWasSaid,
                      CurrentAmountIsNewest
<1>2. ThreadInv /\ [ThreadNext]_threadVars => ThreadInv'
  <2>1. SUFFICES ASSUME ThreadInv, [ThreadNext]_threadVars PROVE ThreadInv'
    OBVIOUS
  <2>2. ASSUME BeginRead PROVE ThreadInv'
    BY <2>1, <2>2, BeginReadKeeps
  <2>3. ASSUME FetchPage PROVE ThreadInv'
    BY <2>1, <2>3, FetchKeeps
  <2>4. ASSUME FetchFails PROVE ThreadInv'
    BY <2>1, <2>4, FetchFailsKeeps
  <2>5. ASSUME NEW by \in Writers, NEW says \in Sayings, NEW at \in 0..moment, AddPost(by, says, at)
        PROVE  ThreadInv'
    BY <2>1, <2>5, AddPostKeeps
  <2>6. ASSUME NEW n \in DOMAIN topic, NEW says \in Sayings, EditPost(n, says) PROVE ThreadInv'
    BY <2>1, <2>6, EditPostKeeps
  <2>7. ASSUME PassTime PROVE ThreadInv'
    <3>1. /\ topic' = topic /\ reading' = reading /\ capture' = capture
          /\ moment' = moment + 1
      BY <2>7 DEF PassTime
    <3>2. ReadAgrees(reading)' <=> ReadAgrees(reading)
      BY <3>1 DEF ReadAgrees
    <3>3. ReadingIsFair'
      BY <2>1, <3>1, CaptureRests
    <3>4. EditsKnown(reading)' <=> EditsKnown(reading)
      BY <3>1 DEF EditsKnown
    <3>5. \A n \in DOMAIN topic' : topic'[n].at <= moment' /\ EditsOrdered(topic'[n], moment')
      BY <2>1, <3>1 DEF ThreadInv, EditsOrdered
    <3> QED
      BY <2>1, <3>1, <3>2, <3>3, <3>4, <3>5 DEF ThreadInv
  <2>8. ASSUME UNCHANGED threadVars PROVE ThreadInv'
    <3>1. /\ topic' = topic /\ reading' = reading /\ capture' = capture /\ moment' = moment
      BY <2>8 DEF threadVars
    <3>2. ReadAgrees(reading)' <=> ReadAgrees(reading)
      BY <3>1 DEF ReadAgrees
    <3>3. ReadingIsFair'
      BY <2>1, <3>1, CaptureRests
    <3>4. EditsKnown(reading)' <=> EditsKnown(reading)
      BY <3>1 DEF EditsKnown
    <3> QED
      BY <2>1, <3>1, <3>2, <3>3, <3>4 DEF ThreadInv
  <2> QED
    BY <2>1, <2>2, <2>3, <2>4, <2>5, <2>6, <2>7, <2>8 DEF ThreadNext
<1>3. ThreadInv => ReadingIsFair
  BY DEF ThreadInv
<1> QED
  BY <1>1, <1>2, <1>3, PTL DEF ThreadSpec

-----------------------------------------------------------------------------
(* The action policy.  Each rule either leaves an answer as it is or makes *)
(* it one that is not ready, so what a ready answer rests on is found by   *)
(* following it back to the rule that gave it.                             *)

AdviceFields ==
  {"blockers", "reason", "lifecycle", "eligibility", "tasks", "readiness", "next", "plan"}

IsAdvice(a) == DOMAIN a = AdviceFields

\* An advice that differs from another in its answer, or in its tasks.
LEMMA AnswerIs ==
    ASSUME NEW a, IsAdvice(a), NEW r, NEW n
    PROVE  LET x == Answer(a, r, n) IN
           /\ IsAdvice(x) /\ x.readiness = r /\ x.next = n
           /\ x.blockers = a.blockers /\ x.reason = a.reason /\ x.lifecycle = a.lifecycle
           /\ x.eligibility = a.eligibility /\ x.tasks = a.tasks /\ x.plan = a.plan
BY DEF IsAdvice, AdviceFields, Answer

WithTasks(a, T) == [a EXCEPT !.tasks = T]

\* An advice with other tasks.
LEMMA WithTasksIs ==
    ASSUME NEW a, IsAdvice(a), NEW T
    PROVE  LET x == WithTasks(a, T) IN
           /\ IsAdvice(x) /\ x.tasks = T
           /\ x.blockers = a.blockers /\ x.reason = a.reason /\ x.lifecycle = a.lifecycle
           /\ x.eligibility = a.eligibility /\ x.plan = a.plan
           /\ x.readiness = a.readiness /\ x.next = a.next
BY DEF IsAdvice, AdviceFields, WithTasks

\* An advice that is put aside or taken up again.
LEMMA ShelveIs ==
    ASSUME NEW a, IsAdvice(a), NEW l, NEW r
    PROVE  LET x == Shelve(a, l, r) IN
           /\ IsAdvice(x) /\ x.lifecycle = l /\ x.reason = r
           /\ x.blockers = a.blockers /\ x.tasks = a.tasks
           /\ x.eligibility = a.eligibility /\ x.plan = a.plan
           /\ x.readiness = a.readiness /\ x.next = a.next
BY DEF IsAdvice, AdviceFields, Shelve

\* An advice that asks for one more thing.
LEMMA AskingIs ==
    ASSUME NEW a, IsAdvice(a), NEW t
    PROVE  LET x == Asking(a, t) IN
           /\ IsAdvice(x) /\ x.readiness = "verification_needed" /\ x.next = "verify"
           /\ x.blockers = a.blockers /\ x.reason = a.reason /\ x.lifecycle = a.lifecycle
           /\ x.eligibility = a.eligibility /\ x.plan = a.plan
           /\ x.tasks = a.tasks \union {t}
<1>1. Asking(a, t) = Answer(WithTasks(a, a.tasks \union {t}), "verification_needed", "verify")
  BY DEF Asking, WithTasks
<1> QED
  BY <1>1, WithTasksIs, AnswerIs

\* The answer of claims about existing work.
LEMMA FinishIs ==
    ASSUME NEW a, IsAdvice(a), NEW n, NEW ready \in BOOLEAN, NEW only
    PROVE  LET x == Finish(a, n, ready, only) IN
           /\ IsAdvice(x) /\ x.next = n
           /\ x.readiness = IF ready THEN "allocated" ELSE "verification_needed"
           /\ x.blockers = a.blockers /\ x.eligibility = a.eligibility /\ x.tasks = a.tasks
           /\ x.plan = [next |-> n, readOnly |-> only]
<1> DEFINE y == Answer(a, IF ready THEN "allocated" ELSE "verification_needed", n)
           p == [next |-> n, readOnly |-> only]
           l == IF ready THEN "active" ELSE "watch"
<1>1. /\ IsAdvice(y) /\ y.next = n /\ y.blockers = a.blockers
      /\ y.readiness = IF ready THEN "allocated" ELSE "verification_needed"
      /\ y.eligibility = a.eligibility /\ y.tasks = a.tasks
  BY AnswerIs
<1>2. Finish(a, n, ready, only) =
        [y EXCEPT !.lifecycle = l, !.reason = "reviewed_existing_work", !.plan = p]
  BY DEF Finish
<1> HIDE DEF y, p, l
<1>3. LET x == [y EXCEPT !.lifecycle = l, !.reason = "reviewed_existing_work", !.plan = p] IN
      /\ IsAdvice(x) /\ x.next = y.next /\ x.readiness = y.readiness /\ x.plan = p
      /\ x.blockers = y.blockers /\ x.eligibility = y.eligibility /\ x.tasks = y.tasks
  BY <1>1 DEF IsAdvice, AdviceFields
<1>4. p = [next |-> n, readOnly |-> only]
  BY DEF p
<1> QED
  BY <1>1, <1>2, <1>3, <1>4

Readies == {"application_ready", "allocated", "captured_next_step"}

\* What was read in full and is not in doubt, whatever the answer.
Essential(e) == Tasks(e) \cap {"full_matching_requirements", "requirement_unverified"}

\* What an application rests on, and work that was allocated.
ApplyGround(e) ==
  /\ e.vacancy = "open" /\ e.route
  /\ ~Blocked(e) /\ Application(e) # "applied" /\ ~Assessed(e)
  /\ e.thread \notin {"past", "changed", "locked"}

StartGround(e) ==
  /\ ~Blocked(e)
  /\ \/ e.account = "allocated" /\ e.current /\ e.reportedWork = None
     \/ e.reportedWork = "allocated" /\ e.reportsFresh /\ ~e.disputed

\* An advice of the rules that come before the reports.
Advised(e, a) ==
  /\ IsAdvice(a) /\ a.blockers = Blockers(e) /\ a.eligibility = Opening(e).eligibility
  /\ a.plan = None /\ a.next # "skip"
  /\ a.readiness \in Readies \/ a.readiness \in {"verification_needed", "watch"}
  /\ Essential(e) \subseteq a.tasks
  /\ a.next = "apply" => ApplyGround(e)
  /\ a.next = "start_allocated_task" => ~Blocked(e) /\ e.account = "allocated" /\ e.current

\* What the first rule leaves in each field.
LEMMA OpeningIs ==
    ASSUME NEW e
    PROVE  LET a == Opening(e) IN
           /\ IsAdvice(a) /\ a.blockers = Blockers(e) /\ a.tasks = Tasks(e) /\ a.plan = None
           /\ a.lifecycle = Lifecycle(Reason(e)) /\ a.reason = Reason(e)
           /\ a.eligibility = IF e.vetoes # {} \/ suspected THEN "failed"
                              ELSE IF e.qualified THEN "passed" ELSE "unknown"
BY DEF Opening, IsAdvice, AdviceFields

\* Without a task and with a posting that is active, an application may follow.
LEMMA NothingToCheck ==
    ASSUME NEW e, Tasks(e) = {}, Lifecycle(Reason(e)) = "active"
    PROVE  ApplyGround(e)
<1>1. e.vacancy = "open" /\ e.route /\ e.thread # "changed" /\ e.thread # "locked"
  BY DEF Tasks, If
<1>2. Reason(e) = None
  BY DEF Lifecycle
<1>3. ~Blocked(e)
  BY <1>2, NoneIsNoWord DEF Reason
<1>4. Application(e) # "applied" /\ ~Assessed(e)
  BY <1>2, NoneIsNoWord DEF Reason
<1>5. e.thread # "past"
  BY <1>2, NoneIsNoWord DEF Reason
<1> QED
  BY <1>1, <1>3, <1>4, <1>5 DEF ApplyGround

\* The first answer: what it clears was a matter of a new application only.
LEMMA FirstAdvised ==
    ASSUME NEW e
    PROVE  Advised(e, FirstAnswer(e, Opening(e)))
<1> DEFINE a == Opening(e)
           x == FirstAnswer(e, a)
           open == a.eligibility = "passed" /\ ~Blocked(e) /\ e.current /\ a.tasks \subseteq NewOnly
           b == WithTasks(a, {})
<1> SUFFICES Advised(e, x)
  OBVIOUS
<1>1. /\ IsAdvice(a) /\ a.blockers = Blockers(e) /\ a.tasks = Tasks(e) /\ a.plan = None
      /\ a.lifecycle = Lifecycle(Reason(e))
  BY OpeningIs
<1>2. /\ IsAdvice(b) /\ b.blockers = a.blockers /\ b.eligibility = a.eligibility
      /\ b.tasks = {} /\ b.plan = a.plan
  BY <1>1, WithTasksIs
<1>3. open => Essential(e) = {}
  BY <1>1 DEF Essential, NewOnly
<1>4. \/ e.account = "allocated" /\ open /\ x = Answer(b, "allocated", "start_allocated_task")
      \/ open /\ x = Answer(b, "captured_next_step", "respond_to_invitation")
      \/ open /\ x = Answer(b, "captured_next_step", "complete_known_step")
      \/ a.tasks = {} /\ a.lifecycle = "active" /\ x = Answer(a, "application_ready", "apply")
      \/ x = Answer(a, "verification_needed", "verify")
  BY DEF FirstAnswer, WithTasks
<1>5. open => ~Blocked(e) /\ e.current
  OBVIOUS
<1>6. Essential(e) \subseteq Tasks(e)
  BY DEF Essential
<1> HIDE DEF a, b, x, open
<1>7. a.eligibility = Opening(e).eligibility
  BY DEF a
<1>8. CASE e.account = "allocated" /\ open /\ x = Answer(b, "allocated", "start_allocated_task")
  BY <1>1, <1>2, <1>3, <1>5, <1>7, <1>8, AnswerIs DEF Advised, Readies
<1>9. CASE open /\ x = Answer(b, "captured_next_step", "respond_to_invitation")
  BY <1>1, <1>2, <1>3, <1>5, <1>7, <1>9, AnswerIs DEF Advised, Readies
<1>10. CASE open /\ x = Answer(b, "captured_next_step", "complete_known_step")
  BY <1>1, <1>2, <1>3, <1>5, <1>7, <1>10, AnswerIs DEF Advised, Readies
<1>11. CASE a.tasks = {} /\ a.lifecycle = "active" /\ x = Answer(a, "application_ready", "apply")
  <2>1. ApplyGround(e)
    BY <1>1, <1>11, NothingToCheck
  <2>2. Essential(e) = {}
    BY <1>1, <1>6, <1>11
  <2> QED
    BY <1>1, <1>7, <1>11, <2>1, <2>2, AnswerIs DEF Advised, Readies
<1>12. CASE x = Answer(a, "verification_needed", "verify")
  BY <1>1, <1>6, <1>7, <1>12, AnswerIs DEF Advised, Readies
<1> QED
  BY <1>4, <1>8, <1>9, <1>10, <1>11, <1>12

\* A doubtful thread is never applied to.
LEMMA ThreadAdvised ==
    ASSUME NEW e, NEW a, Advised(e, a)
    PROVE  /\ Advised(e, ThreadDoubts(e, a))
           /\ ThreadDoubts(e, a).next = "apply" => e.thread # "unpaid"
<1> DEFINE x == ThreadDoubts(e, a)
<1>1. IsAdvice(a)
  BY DEF Advised
<1>2. \/ x = Asking(a, "community_paid_scope")
      \/ x = Answer(a, "verification_needed", "verify")
      \/ x = a /\ ~(e.thread = "unpaid" /\ a.next \in {"apply", "verify"})
  BY DEF ThreadDoubts
<1> HIDE DEF x
<1>3. CASE x = Asking(a, "community_paid_scope")
  BY <1>1, <1>3, AskingIs DEF Advised, Readies, x
<1>4. CASE x = Answer(a, "verification_needed", "verify")
  BY <1>1, <1>4, AnswerIs DEF Advised, Readies, x
<1>5. CASE x = a /\ ~(e.thread = "unpaid" /\ a.next \in {"apply", "verify"})
  BY <1>5 DEF x
<1> QED
  BY <1>2, <1>3, <1>4, <1>5

\* What is not active waits.
LEMMA WaitingAdvised ==
    ASSUME NEW e, NEW a, Advised(e, a), a.next = "apply" => e.thread # "unpaid"
    PROVE  /\ Advised(e, Waiting(a))
           /\ Waiting(a).next = "apply" => e.thread # "unpaid"
<1> DEFINE x == Waiting(a)
<1>1. IsAdvice(a)
  BY DEF Advised
<1>2. \/ x = a
      \/ x = Answer(a, "watch", "await_change")
      \/ x = Answer(a, "watch", "await_response")
      \/ x = Answer(a, "watch", a.next)
  BY DEF Waiting
<1> HIDE DEF x
<1>3. ASSUME NEW n, n \in {"await_change", "await_response", a.next}, x = Answer(a, "watch", n)
      PROVE  Advised(e, x) /\ (x.next = "apply" => e.thread # "unpaid")
  BY <1>1, <1>3, AnswerIs DEF Advised, Readies
<1> QED
  BY <1>2, <1>3 DEF x

\* What the code can find of a posting, as far as the rules below ask.
Evident(e) ==
  /\ e.thread \in {None, "buyer", "past", "changed", "unpaid", "locked", "invalid"}
  /\ e.deadline \in {None, "elapsed", "short"}
  /\ e.reportedWork \in {None, "unselected", "submitted", "paid", "allocated", "missing"}

\* An advice after the reports: what it would rest on if it were ready.
Standing(e, a) ==
  /\ IsAdvice(a) /\ a.blockers = Blockers(e)
  /\ a.eligibility = "passed" => e.vetoes = {} /\ ~suspected /\ e.qualified
  /\ a.plan # None /\ a.plan.readOnly => a.readiness \notin Readies
  /\ a.blockers = {} => a.next # "skip"
  /\ a.next = "apply" =>
       ApplyGround(e) /\ e.thread # "unpaid" /\ Application(e) # "withdrawn"
  /\ a.next = "start_allocated_task" => StartGround(e)
  /\ a.readiness \in Readies => Essential(e) \subseteq a.tasks

\* Eligibility is passed only without a veto.
LEMMA PassedMeans ==
    ASSUME NEW e, Opening(e).eligibility = "passed"
    PROVE  e.vetoes = {} /\ ~suspected /\ e.qualified
BY OpeningIs

\* An answer of the reports that begins nothing new.
LEMMA ReportStands ==
    ASSUME NEW e, NEW a, Advised(e, a), NEW x, IsAdvice(x),
           x.blockers = a.blockers, x.eligibility = a.eligibility, x.plan = a.plan,
           x.next \notin {"skip", "apply", "start_allocated_task"},
           x.readiness \in Readies => Essential(e) \subseteq x.tasks
    PROVE  Standing(e, x)
BY PassedMeans DEF Advised, Standing

\* An answer from before the reports, where they leave it alone.
LEMMA SilenceStands ==
    ASSUME NEW e, NEW a, Advised(e, a), a.next = "apply" => e.thread # "unpaid",
           e.reportedWork = None, e.reportedApplication # "withdrawn"
    PROVE  Standing(e, a)
<1>1. Application(e) # "applied" => Application(e) # "withdrawn"
  BY DEF Application
<1>2. a.next = "apply" => ApplyGround(e) /\ e.thread # "unpaid" /\ Application(e) # "withdrawn"
  BY <1>1 DEF Advised, ApplyGround
<1>3. a.next = "start_allocated_task" => StartGround(e)
  BY DEF Advised, StartGround
<1> QED
  BY <1>2, <1>3, PassedMeans DEF Advised, Standing

\* Work is started only if nothing of the assessment speaks against it.
LEMMA WorkStands ==
    ASSUME NEW e, NEW a, Advised(e, a), Evident(e), e.reportedWork # None
    PROVE  Standing(e, ExistingWork(e, a))
<1> DEFINE x == ExistingWork(e, a)
           kept == a.tasks \ (NewOnly \union
                     {"project_access", "onboarding_cost", "bid_cost_scope_competition"})
           tasks == kept
             \union If(e.disputed \/ Disputes(e), "work_conflict")
             \union If(e.reportedApplication \in {"rejected", "withdrawn"}, "work_attempt_authority")
             \union If(Blocked(e), "work_account_restriction")
             \union If(e.reportedWork = "missing" \/ ~e.reportsFresh, "work_prerequisites")
             \union If(a.eligibility # "passed" \/ a.blockers \ ClosedOnly # {}, "work_suitability")
           undecided == a.tasks \union {"current_work_selection"}
           done == If(e.disputed, "work_conflict") \union If(~e.reportsFresh, "work_evidence")
           after == IF e.reportedWork = "paid" THEN "reconcile_payment_status" ELSE "await_response"
<1> SUFFICES Standing(e, x)
  OBVIOUS
<1>1. \/ x = Finish(WithTasks(a, undecided), "verify", FALSE, FALSE)
      \/ x = Finish(WithTasks(a, done), after, FALSE, TRUE)
      \/ /\ e.reportedWork \notin {"unselected", "submitted", "paid"} /\ tasks = {}
         /\ x = Finish(WithTasks(a, {}), "start_allocated_task", TRUE, FALSE)
      \/ x = Finish(WithTasks(a, tasks), "verify", FALSE, FALSE)
  BY DEF ExistingWork, WithTasks
<1>2. tasks = {} => /\ Essential(e) = {} /\ ~Blocked(e) /\ ~e.disputed /\ e.reportsFresh
                    /\ e.reportedWork # "missing"
  <2>1. tasks = {} => kept = {} /\ ~Blocked(e) /\ ~e.disputed /\ e.reportsFresh
                       /\ e.reportedWork # "missing"
    BY DEF If
  <2>2. kept = {} => Essential(e) = {}
    BY DEF Advised, Essential, NewOnly
  <2> QED
    BY <2>1, <2>2
<1>3. IsAdvice(a) /\ a.blockers = Blockers(e) /\ a.eligibility = Opening(e).eligibility
  BY DEF Advised
<1>4. after \notin {"apply", "start_allocated_task", "skip"}
  OBVIOUS
<1> HIDE DEF x, kept, tasks, undecided, done, after
<1>5. ASSUME NEW T, NEW n, NEW ready \in BOOLEAN, NEW only,
             x = Finish(WithTasks(a, T), n, ready, only)
      PROVE  /\ IsAdvice(x) /\ x.next = n /\ x.tasks = T
             /\ x.readiness = IF ready THEN "allocated" ELSE "verification_needed"
             /\ x.blockers = a.blockers /\ x.eligibility = a.eligibility
             /\ x.plan = [next |-> n, readOnly |-> only]
  <2>1. LET b == WithTasks(a, T) IN
        /\ IsAdvice(b) /\ b.tasks = T /\ b.blockers = a.blockers /\ b.eligibility = a.eligibility
    BY <1>3, WithTasksIs
  <2> QED
    BY <1>5, <2>1, FinishIs
<1>6. ASSUME NEW T, NEW n, NEW only, n \notin {"apply", "start_allocated_task", "skip"},
             x = Finish(WithTasks(a, T), n, FALSE, only)
      PROVE  Standing(e, x)
  <2>1. /\ IsAdvice(x) /\ x.next = n /\ x.tasks = T
        /\ x.readiness = "verification_needed"
        /\ x.blockers = a.blockers /\ x.eligibility = a.eligibility
    BY <1>5, <1>6
  <2> QED
    BY <1>3, <1>6, <2>1, PassedMeans DEF Standing, Readies
<1>7. CASE /\ e.reportedWork \notin {"unselected", "submitted", "paid"} /\ tasks = {}
           /\ x = Finish(WithTasks(a, {}), "start_allocated_task", TRUE, FALSE)
  <2>1. /\ IsAdvice(x) /\ x.next = "start_allocated_task" /\ x.tasks = {}
        /\ x.blockers = a.blockers /\ x.eligibility = a.eligibility
        /\ x.plan = [next |-> "start_allocated_task", readOnly |-> FALSE]
    BY <1>5, <1>7
  <2>2. StartGround(e)
    BY <1>2, <1>7 DEF Evident, StartGround
  <2>3. ~x.plan.readOnly
    BY <2>1
  <2> QED
    BY <1>2, <1>3, <1>7, <2>1, <2>2, <2>3, PassedMeans DEF Standing
<1>11. "verify" \notin {"apply", "start_allocated_task", "skip"}
  OBVIOUS
<1>8. CASE x = Finish(WithTasks(a, undecided), "verify", FALSE, FALSE)
  BY <1>6, <1>8, <1>11, Zenon
<1>9. CASE x = Finish(WithTasks(a, done), after, FALSE, TRUE)
  BY <1>4, <1>6, <1>9
<1>10. CASE x = Finish(WithTasks(a, tasks), "verify", FALSE, FALSE)
  BY <1>6, <1>10, <1>11, Zenon
<1> QED
  BY <1>1, <1>7, <1>8, <1>9, <1>10

\* What the reports say of an attempt, in the order of the rules.
LEMMA ReportedStands ==
    ASSUME NEW e, NEW a, Advised(e, a), Evident(e), a.next = "apply" => e.thread # "unpaid"
    PROVE  Standing(e, Reported(e, a))
<1> DEFINE x == Reported(e, a)
<1> SUFFICES Standing(e, x)
  OBVIOUS
<1>1. IsAdvice(a)
  BY DEF Advised
<1>2. ASSUME NEW l, NEW r
      PROVE  LET s == Shelve(a, l, r) IN
             /\ IsAdvice(s) /\ s.blockers = a.blockers /\ s.eligibility = a.eligibility
             /\ s.plan = a.plan /\ s.tasks = a.tasks
  BY <1>1, ShelveIs
<1>3. ASSUME NEW s, IsAdvice(s), s.blockers = a.blockers, s.eligibility = a.eligibility,
             s.plan = a.plan, NEW T, NEW d, NEW n, n \notin {"skip", "apply", "start_allocated_task"},
             d \in Readies => Essential(e) \subseteq T,
             x = Answer(WithTasks(s, T), d, n)
      PROVE  Standing(e, x)
  <2>1. LET y == WithTasks(s, T) IN
        /\ IsAdvice(y) /\ y.blockers = a.blockers /\ y.eligibility = a.eligibility
        /\ y.plan = a.plan /\ y.tasks = T
    BY <1>3, WithTasksIs
  <2>2. /\ IsAdvice(x) /\ x.blockers = a.blockers /\ x.eligibility = a.eligibility
        /\ x.plan = a.plan /\ x.tasks = T /\ x.readiness = d /\ x.next = n
    BY <1>3, <2>1, AnswerIs
  <2> QED
    BY <1>3, <2>2, ReportStands
<1>4. ASSUME NEW s, IsAdvice(s), s.blockers = a.blockers, s.eligibility = a.eligibility,
             s.plan = a.plan, NEW d, NEW n, n \notin {"skip", "apply", "start_allocated_task"},
             d \notin Readies, x = Answer(s, d, n)
      PROVE  Standing(e, x)
  <2>1. /\ IsAdvice(x) /\ x.blockers = a.blockers /\ x.eligibility = a.eligibility
        /\ x.plan = a.plan /\ x.readiness = d /\ x.next = n
    BY <1>4, AnswerIs
  <2> QED
    BY <1>4, <2>1, ReportStands
<1>5. ASSUME NEW s, IsAdvice(s), s.blockers = a.blockers, s.eligibility = a.eligibility,
             s.plan = a.plan, NEW t, x = Asking(s, t)
      PROVE  Standing(e, x)
  <2>1. /\ IsAdvice(x) /\ x.blockers = a.blockers /\ x.eligibility = a.eligibility
        /\ x.plan = a.plan /\ x.readiness = "verification_needed" /\ x.next = "verify"
    BY <1>5, AskingIs
  <2>2. x.readiness \notin Readies
    BY <2>1 DEF Readies
  <2> QED
    BY <2>1, <2>2, ReportStands
<1>6. "watch" \notin Readies /\ "verification_needed" \notin Readies
  BY DEF Readies
<1>7. CASE ~Reports(e)
  <2>1. x = a
    BY <1>7 DEF Reported
  <2>2. e.reportedWork = None /\ e.reportedApplication = None
    BY <1>7 DEF Reports
  <2>3. e.reportedApplication # "withdrawn"
    BY <2>2, NoneIsNoWord
  <2> QED
    BY <2>1, <2>2, <2>3, SilenceStands
<1>8. CASE Reports(e) /\ e.reportedWork # None
  <2>1. x = ExistingWork(e, a)
    BY <1>8 DEF Reported
  <2> QED
    BY <1>8, <2>1, WorkStands
<1>9. CASE /\ Reports(e) /\ e.reportedWork = None
           /\ e.reportedApplication # "withdrawn" /\ x = a
  BY <1>9, SilenceStands
<1> DEFINE conflict == Shelve(a, "watch", "outcome_conflict")
           closed == Shelve(a, "closed", "exact_application_closed")
           block == Shelve(a, "watch", "known_account_block")
           finished == Shelve(a, "watch", "assessment_already_completed")
           reply == Shelve(a, "active", "current_buyer_reply")
           recheck == Shelve(a, "watch", "buyer_update_needs_recheck")
           unselected == Shelve(a, "watch", "assessment_step_not_selected")
           unstated == Shelve(a, "active", "assessment_step_state_unknown")
           invited == Shelve(a, "active", "existing_assessment_invitation")
           stale == Shelve(a, "watch", "access_evidence_stale")
           setUp == Shelve(a, "watch", "setup_checklist_completed")
           review == Shelve(a, "active", "setup_checklist_needs_review")
<1>10. CASE Reports(e) /\ e.reportedWork = None
  <2>1. \/ x = Answer(WithTasks(conflict, conflict.tasks \union {"outcome_conflict"}), "watch", "verify")
        \/ x = Answer(WithTasks(closed, {}), "watch", "await_change")
        \/ x = Answer(block, "watch", "verify")
        \/ x = Answer(WithTasks(finished, {}), "watch", "await_response")
        \/ x = Asking(unselected, "current_assessment_step")
        \/ x = Asking(unstated, "assessment_step_state")
        \/ x = Answer(WithTasks(reply, reply.tasks \ NewOnly), "captured_next_step", "clarify_scope")
        \/ x = Answer(recheck, "watch", "await_change")
        \/ x = Answer(invited, "verification_needed", "verify")
        \/ x = Asking(invited, "assessment_prerequisites")
        \/ a.tasks \subseteq NewOnly
             /\ x = Answer(WithTasks(invited, {}), "captured_next_step", "complete_known_step")
        \/ x = Answer(WithTasks(stale, stale.tasks \union {"project_access"}), "watch", "verify")
        \/ x = Answer(WithTasks(setUp, {}), "watch", "await_response")
        \/ x = Asking(review, "setup_checklist")
        \/ e.reportedApplication # "withdrawn" /\ x = a
    BY <1>10 DEF Reported, WithTasks
  <2>2. ASSUME NEW l, NEW r, NEW T, NEW n, n \notin {"skip", "apply", "start_allocated_task"},
               x = Answer(WithTasks(Shelve(a, l, r), T), "watch", n)
        PROVE  Standing(e, x)
    BY <1>2, <1>3, <1>6, <2>2
  <2>3. ASSUME NEW l, NEW r, NEW d, d \in {"watch", "verification_needed"}, NEW n,
               n \notin {"skip", "apply", "start_allocated_task"},
               x = Answer(Shelve(a, l, r), d, n)
        PROVE  Standing(e, x)
    BY <1>2, <1>4, <1>6, <2>3
  <2>4. ASSUME NEW l, NEW r, NEW t, x = Asking(Shelve(a, l, r), t)
        PROVE  Standing(e, x)
    BY <1>2, <1>5, <2>4
  <2>5. CASE x = Answer(WithTasks(reply, reply.tasks \ NewOnly), "captured_next_step", "clarify_scope")
    <3>1. Essential(e) \subseteq reply.tasks \ NewOnly
      <4>1. reply.tasks = a.tasks
        BY <1>2
      <4> HIDE DEF reply
      <4> QED
        BY <4>1 DEF Advised, Essential, NewOnly
    <3> QED
      BY <1>2, <1>3, <2>5, <3>1
  <2>6. CASE a.tasks \subseteq NewOnly
               /\ x = Answer(WithTasks(invited, {}), "captured_next_step", "complete_known_step")
    <3>1. Essential(e) = {}
      BY <2>6 DEF Advised, Essential, NewOnly
    <3> QED
      BY <1>2, <1>3, <2>6, <3>1
  <2>7. CASE x = Answer(WithTasks(conflict, conflict.tasks \union {"outcome_conflict"}), "watch", "verify")
    BY <2>2, <2>7
  <2>8. CASE x = Answer(WithTasks(closed, {}), "watch", "await_change")
    BY <2>2, <2>8
  <2>9. CASE x = Answer(block, "watch", "verify")
    BY <2>3, <2>9
  <2>10. CASE x = Answer(WithTasks(finished, {}), "watch", "await_response")
    BY <2>2, <2>10
  <2>11. CASE x = Asking(unselected, "current_assessment_step")
    BY <2>4, <2>11
  <2>12. CASE x = Answer(recheck, "watch", "await_change")
    BY <2>3, <2>12
  <2>13. CASE x = Answer(invited, "verification_needed", "verify")
    BY <2>3, <2>13
  <2>14. CASE x = Asking(invited, "assessment_prerequisites")
    BY <2>4, <2>14
  <2>15. CASE x = Answer(WithTasks(stale, stale.tasks \union {"project_access"}), "watch", "verify")
    BY <2>2, <2>15
  <2>16. CASE x = Answer(WithTasks(setUp, {}), "watch", "await_response")
    BY <2>2, <2>16
  <2>17. CASE x = Asking(review, "setup_checklist")
    BY <2>4, <2>17
  <2>18. CASE x = Asking(unstated, "assessment_step_state")
    BY <2>4, <2>18
  <2> HIDE DEF x, conflict, closed, block, finished, reply, recheck, unselected, unstated,
               invited, stale, setUp, review
  <2> QED
    BY <1>9, <1>10, <2>1, <2>5, <2>6, <2>7, <2>8, <2>9, <2>10, <2>11, <2>12, <2>13, <2>14,
       <2>15, <2>16, <2>17, <2>18
<1> QED
  BY <1>7, <1>8, <1>10

\* The account of an advice that is ready also says that no attempt holds it.
Stood(e, a) == Standing(e, a) /\ (a.readiness \in Readies => ~e.hold)

\* An advice that is asked to wait stands as it stood.
LEMMA WaitsStill ==
    ASSUME NEW e, NEW a, Standing(e, a), NEW x, IsAdvice(x), x.blockers = a.blockers,
           x.eligibility = a.eligibility, x.plan = a.plan,
           x.next \in {"verify", a.next}, x.readiness \notin Readies
    PROVE  Stood(e, x)
BY DEF Standing, Stood

\* An ambiguous outcome binding holds back every answer that is ready.
LEMMA BindingStands ==
    ASSUME NEW e, NEW a, Standing(e, a)
    PROVE  Stood(e, Held4Binding(e, a))
<1> DEFINE x == Asking(a, "active_outcome_attempt")
<1>1. CASE ~e.hold
  BY <1>1 DEF Held4Binding, Stood
<1>2. CASE e.hold
  <2>1. Held4Binding(e, a) = x
    BY <1>2 DEF Held4Binding
  <2>2. /\ IsAdvice(x) /\ x.blockers = a.blockers /\ x.eligibility = a.eligibility
        /\ x.plan = a.plan /\ x.next = "verify" /\ x.readiness = "verification_needed"
    BY AskingIs DEF Standing
  <2> HIDE DEF x
  <2>3. x.readiness \notin Readies
    BY <2>2 DEF Readies
  <2> QED
    BY <2>1, <2>2, <2>3, WaitsStill
<1> QED
  BY <1>1, <1>2

\* A vacancy that closed is not ready.
LEMMA ClosingStands ==
    ASSUME NEW e, NEW a, Stood(e, a)
    PROVE  Stood(e, ClosedAgain(e, a))
<1> DEFINE s == Shelve(a, "closed", "matching_source_explicitly_closed")
           x == [s EXCEPT !.readiness = "watch", !.tasks = {}]
<1>1. ClosedAgain(e, a) = a \/ ClosedAgain(e, a) = x
  BY DEF ClosedAgain
<1>2. /\ IsAdvice(s) /\ s.blockers = a.blockers /\ s.eligibility = a.eligibility
      /\ s.plan = a.plan /\ s.next = a.next
  BY ShelveIs DEF Stood, Standing
<1> HIDE DEF s
<1>3. /\ IsAdvice(x) /\ x.blockers = a.blockers /\ x.eligibility = a.eligibility
      /\ x.plan = a.plan /\ x.next = a.next /\ x.readiness = "watch"
  BY <1>2 DEF IsAdvice, AdviceFields
<1> HIDE DEF x
<1>4. x.readiness \notin Readies
  BY <1>3 DEF Readies
<1>5. Stood(e, x)
  BY <1>3, <1>4, WaitsStill DEF Stood
<1> QED
  BY <1>1, <1>5

\* A due time that is not proved asks for verification.
LEMMA DueStands ==
    ASSUME NEW e, NEW a, Stood(e, a)
    PROVE  Stood(e, DueTime(e, a))
<1> DEFINE s == Shelve(a, IF e.due = "elapsed" THEN "watch" ELSE "active", "action_deadline")
           x == Asking(s, "action_deadline")
<1>1. DueTime(e, a) = a \/ DueTime(e, a) = x
  BY DEF DueTime
<1>2. /\ IsAdvice(s) /\ s.blockers = a.blockers /\ s.eligibility = a.eligibility
      /\ s.plan = a.plan /\ s.next = a.next
  BY ShelveIs DEF Stood, Standing
<1> HIDE DEF s
<1>3. /\ IsAdvice(x) /\ x.blockers = a.blockers /\ x.eligibility = a.eligibility
      /\ x.plan = a.plan /\ x.next = "verify" /\ x.readiness = "verification_needed"
  BY <1>2, AskingIs
<1> HIDE DEF x
<1>4. x.readiness \notin Readies
  BY <1>3 DEF Readies
<1>5. Stood(e, x)
  BY <1>3, <1>4, WaitsStill DEF Stood
<1> QED
  BY <1>1, <1>5

WithPlan(a, p) == [a EXCEPT !.plan = p]

\* An advice with another plan.
LEMMA WithPlanIs ==
    ASSUME NEW a, IsAdvice(a), NEW p
    PROVE  LET x == WithPlan(a, p) IN
           /\ IsAdvice(x) /\ x.plan = p
           /\ x.blockers = a.blockers /\ x.reason = a.reason /\ x.lifecycle = a.lifecycle
           /\ x.eligibility = a.eligibility /\ x.tasks = a.tasks
           /\ x.readiness = a.readiness /\ x.next = a.next
BY DEF IsAdvice, AdviceFields, WithPlan

WithEligibility(a, v) == [a EXCEPT !.eligibility = v]

\* An advice with another eligibility.
LEMMA WithEligibilityIs ==
    ASSUME NEW a, IsAdvice(a), NEW v
    PROVE  LET x == WithEligibility(a, v) IN
           /\ IsAdvice(x) /\ x.eligibility = v
           /\ x.blockers = a.blockers /\ x.reason = a.reason /\ x.lifecycle = a.lifecycle
           /\ x.plan = a.plan /\ x.tasks = a.tasks
           /\ x.readiness = a.readiness /\ x.next = a.next
BY DEF IsAdvice, AdviceFields, WithEligibility

\* A plan that is rewritten is read-only only if it was before.
LEMMA PlanStands ==
    ASSUME NEW e, NEW a, Stood(e, a), NEW n, NEW only, only => a.plan.readOnly, a.plan # None
    PROVE  Stood(e, WithPlan(a, [next |-> n, readOnly |-> only]))
<1> DEFINE p == [next |-> n, readOnly |-> only]
           x == WithPlan(a, p)
<1>1. /\ IsAdvice(x) /\ x.plan = p /\ x.blockers = a.blockers
      /\ x.eligibility = a.eligibility /\ x.tasks = a.tasks
      /\ x.readiness = a.readiness /\ x.next = a.next
  BY WithPlanIs DEF Stood, Standing
<1>2. x.plan.readOnly => only
  BY <1>1
<1> HIDE DEF x
<1>3. x.plan # None /\ x.plan.readOnly => x.readiness \notin Readies
  BY <1>1, <1>2 DEF Stood, Standing
<1>4. Stood(e, x)
  BY <1>1, <1>3 DEF Stood, Standing
<1> QED
  BY <1>4 DEF x

\* The last word of a blocker.
LEMMA FinalStands ==
    ASSUME NEW e, NEW a, Stood(e, a)
    PROVE  Stood(e, Finalized(e, a))
<1> DEFINE skip == Answer(a, IF a.lifecycle = "closed" THEN "closed" ELSE "blocked", "skip")
           b == IF a.blockers = {} THEN a
                ELSE IF WorkAllowed(e, a)
                THEN IF a.plan.readOnly THEN WithEligibility(a, "failed") ELSE a
                ELSE WithEligibility(skip, "failed")
           only == b.plan.readOnly /\ b.next \in {"reconcile_payment_status", "await_response"}
<1>1. IsAdvice(a)
  BY DEF Stood, Standing
<1>2. Finalized(e, a) = IF b.plan = None THEN b
                        ELSE WithPlan(b, [next |-> b.next, readOnly |-> only])
  BY DEF Finalized, WithPlan, WithEligibility
<1>3. Stood(e, WithEligibility(a, "failed"))
  BY <1>1, WithEligibilityIs DEF Stood, Standing
<1>4. a.blockers # {} => Stood(e, WithEligibility(skip, "failed"))
  <2>1. /\ IsAdvice(skip) /\ skip.next = "skip" /\ skip.readiness \in {"closed", "blocked"}
        /\ skip.blockers = a.blockers /\ skip.plan = a.plan
    BY <1>1, AnswerIs
  <2> HIDE DEF skip
  <2>2. LET x == WithEligibility(skip, "failed") IN
        /\ IsAdvice(x) /\ x.next = "skip" /\ x.readiness \in {"closed", "blocked"}
        /\ x.blockers = a.blockers /\ x.plan = a.plan /\ x.eligibility = "failed"
    BY <2>1, WithEligibilityIs
  <2> QED
    BY <2>2 DEF Stood, Standing, Readies
<1>5. Stood(e, b)
  BY <1>3, <1>4
<1> HIDE DEF b
<1>6. b.plan # None => Stood(e, WithPlan(b, [next |-> b.next, readOnly |-> only]))
  BY <1>5, PlanStands
<1> QED
  BY <1>2, <1>5, <1>6

\* A payout minimum that the posting may not reach asks for verification.
LEMMA PayoutStands ==
    ASSUME NEW e, NEW a, Stood(e, a)
    PROVE  LET x == PayoutMinimum(e, a) IN
           /\ Stood(e, x)
           /\ /\ x.readiness \in Readies /\ x.blockers = {} /\ x.lifecycle # "closed"
              /\ x.next \in {"apply", "complete_known_step", "start_allocated_task"}
              => e.payout = None
<1> DEFINE b == Asking(a, "payout_feasibility")
           p == [next |-> "verify", readOnly |-> FALSE]
           x == PayoutMinimum(e, a)
<1>1. \/ /\ x = a
         /\ \/ e.payout = None \/ a.lifecycle = "closed" \/ a.blockers # {}
            \/ a.next \notin {"apply", "complete_known_step", "start_allocated_task"}
      \/ x = b
      \/ b.plan # None /\ x = WithPlan(b, p)
  BY DEF PayoutMinimum, WithPlan
<1>2. /\ IsAdvice(b) /\ b.blockers = a.blockers /\ b.eligibility = a.eligibility
      /\ b.plan = a.plan /\ b.next = "verify" /\ b.readiness = "verification_needed"
  BY AskingIs DEF Stood, Standing
<1> HIDE DEF b
<1>3. Stood(e, b) /\ b.readiness \notin Readies
  BY <1>2, WaitsStill DEF Stood, Readies
<1>4. b.plan # None => Stood(e, WithPlan(b, p)) /\ WithPlan(b, p).readiness = b.readiness
  BY <1>2, <1>3, PlanStands, WithPlanIs
<1> HIDE DEF x, p
<1>5. /\ Stood(e, x)
      /\ /\ x.readiness \in Readies /\ x.blockers = {} /\ x.lifecycle # "closed"
         /\ x.next \in {"apply", "complete_known_step", "start_allocated_task"}
         => e.payout = None
  BY <1>1, <1>3, <1>4
<1> QED
  BY <1>5 DEF x

\* What every advice can be relied on for when it is shown as ready.
Checked(e, a) ==
  /\ e.vetoes = {} /\ ~suspected /\ e.qualified /\ e.listing # "non_job"
  /\ ~e.hold /\ ~e.payConflict /\ ~e.doubt /\ e.text # None
  /\ (a.next \in {"apply", "complete_known_step"} => e.payout = None)
  /\ (a.next = "start_allocated_task" /\ a.blockers = {} => e.payout = None)
  /\ a.next = "apply" =>
       /\ e.vacancy = "open" /\ e.route /\ e.deadline = None
       /\ ~Blocked(e) /\ Application(e) \notin {"applied", "withdrawn"} /\ ~Assessed(e)
       /\ e.thread \in {None, "buyer"}
  /\ a.next = "start_allocated_task" =>
       /\ ~Blocked(e)
       /\ \/ e.account = "allocated" /\ e.current
          \/ e.reportedWork = "allocated" /\ e.reportsFresh /\ ~e.disputed
       /\ e.reportedWork \notin {"submitted", "paid"}

\* An answer that stands and is ready was checked.
LEMMA ReadyIsChecked ==
    ASSUME NEW e, NEW a, Evident(e), Stood(e, a), Ready(e, a), ~Rejected(e, a),
           /\ a.readiness \in Readies /\ a.blockers = {} /\ a.lifecycle # "closed"
           /\ a.next \in {"apply", "complete_known_step", "start_allocated_task"}
           => e.payout = None
    PROVE  Checked(e, a)
<1>1. /\ a.readiness \in Readies /\ a.eligibility = "passed" /\ a.lifecycle = "active"
      /\ a.tasks = {} /\ ~e.payConflict
  BY DEF Ready, Readies
<1>2. e.vetoes = {} /\ ~suspected /\ e.qualified /\ ~e.hold /\ Essential(e) = {}
  BY <1>1 DEF Stood, Standing
<1>3. ~e.doubt /\ e.text # None
  BY <1>2 DEF Essential, Tasks, If
<1>4. a.blockers = {} \/ (a.next = "start_allocated_task" /\ a.blockers \subseteq ClosedOnly)
  BY <1>1 DEF Rejected, WorkAllowed, Stood, Standing
<1>5. e.listing # "non_job"
  <2>1. "non_opportunity" \notin a.blockers
    BY <1>4 DEF ClosedOnly
  <2> QED
    BY <2>1 DEF Stood, Standing, Blockers, If
<1>6. ASSUME a.next = "apply"
      PROVE  /\ e.vacancy = "open" /\ e.route /\ e.deadline = None
             /\ ~Blocked(e) /\ Application(e) \notin {"applied", "withdrawn"} /\ ~Assessed(e)
             /\ e.thread \in {None, "buyer"}
  <2>1. ApplyGround(e) /\ e.thread # "unpaid" /\ Application(e) # "withdrawn"
    BY <1>6 DEF Stood, Standing
  <2>2. Blockers(e) = {}
    BY <1>4, <1>6 DEF Stood, Standing
  <2>3. e.thread # "invalid" /\ e.deadline # "elapsed" /\ e.deadline # "short"
    BY <2>2 DEF Blockers, If
  <2> QED
    BY <2>1, <2>3 DEF ApplyGround, Evident
<1>7. ASSUME a.next = "start_allocated_task"
      PROVE  /\ ~Blocked(e)
             /\ \/ e.account = "allocated" /\ e.current
                \/ e.reportedWork = "allocated" /\ e.reportsFresh /\ ~e.disputed
             /\ e.reportedWork \notin {"submitted", "paid"}
  <2>1. StartGround(e)
    BY <1>7 DEF Stood, Standing
  <2> QED
    BY <2>1, NoneIsNoWord DEF StartGround
<1>8. a.next \in {"apply", "complete_known_step"} => e.payout = None
  BY <1>1, <1>4
<1>9. a.next = "start_allocated_task" /\ a.blockers = {} => e.payout = None
  BY <1>1
<1> QED
  BY <1>1, <1>2, <1>3, <1>5, <1>6, <1>7, <1>8, <1>9 DEF Checked

\* A blocked advice tells the reader to skip, an unblocked one does not.
Vetoed(a, band) ==
  /\ band = "REJECT" <=> a.next = "skip"
  /\ band = "REJECT" => a.readiness \in {"closed", "blocked"} /\ a.eligibility = "failed"
  /\ a.blockers # {} /\ band # "REJECT" =>
       /\ a.next \in {"start_allocated_task", "reconcile_payment_status", "await_response"}
       /\ a.next = "start_allocated_task" => a.blockers \subseteq ClosedOnly

\* A rejected advice tells the reader to skip.
LEMMA SkipIs ==
    ASSUME NEW e, NEW a, IsAdvice(a), Rejected(e, a)
    PROVE  LET x == Finalized(e, a) IN
           x.next = "skip" /\ x.readiness \in {"closed", "blocked"} /\ x.eligibility = "failed"
<1> DEFINE skip == Answer(a, IF a.lifecycle = "closed" THEN "closed" ELSE "blocked", "skip")
           b == WithEligibility(skip, "failed")
           p == [next |-> b.next, readOnly |->
                   b.plan.readOnly /\ b.next \in {"reconcile_payment_status", "await_response"}]
<1>1. Finalized(e, a) = b \/ Finalized(e, a) = WithPlan(b, p)
  BY DEF Finalized, WithPlan, WithEligibility, Rejected
<1>2. IsAdvice(skip) /\ skip.next = "skip" /\ skip.readiness \in {"closed", "blocked"}
  BY AnswerIs
<1> HIDE DEF skip
<1>3. /\ IsAdvice(b) /\ b.next = "skip" /\ b.readiness \in {"closed", "blocked"}
      /\ b.eligibility = "failed"
  BY <1>2, WithEligibilityIs
<1> HIDE DEF b, p
<1>4. LET x == WithPlan(b, p) IN
      x.next = "skip" /\ x.readiness \in {"closed", "blocked"} /\ x.eligibility = "failed"
  BY <1>3, WithPlanIs
<1> QED
  BY <1>1, <1>3, <1>4

\* The band and the finalized advice agree on the veto.
LEMMA BandVetoes ==
    ASSUME NEW e, NEW a, IsAdvice(a), a.blockers = {} => a.next # "skip"
    PROVE  Vetoed(IF Rejected(e, a) THEN Finalized(e, a) ELSE a, Band(e, a))
<1>1. CASE Rejected(e, a)
  <2> DEFINE x == Finalized(e, a)
  <2>1. x.next = "skip" /\ x.readiness \in {"closed", "blocked"} /\ x.eligibility = "failed"
    BY <1>1, SkipIs
  <2>2. Band(e, a) = "REJECT"
    BY <1>1 DEF Band
  <2> HIDE DEF x
  <2>3. Vetoed(x, Band(e, a))
    BY <2>1, <2>2 DEF Vetoed
  <2> QED
    BY <1>1, <2>3 DEF x
<1>2. CASE ~Rejected(e, a)
  <2>1. Band(e, a) # "REJECT"
    BY <1>2 DEF Band
  <2>2. a.blockers = {} \/ WorkAllowed(e, a)
    BY <1>2 DEF Rejected
  <2>3. a.blockers # {} =>
          /\ a.next \in {"start_allocated_task", "reconcile_payment_status", "await_response"}
          /\ a.next = "start_allocated_task" => a.blockers \subseteq ClosedOnly
    BY <2>2 DEF WorkAllowed
  <2>4. a.next # "skip"
    BY <2>3
  <2>5. Vetoed(a, Band(e, a))
    BY <2>1, <2>3, <2>4 DEF Vetoed
  <2> QED
    BY <1>2, <2>5
<1> QED
  BY <1>1, <1>2

\* The policy as a whole.
LEMMA AssessStands ==
    ASSUME NEW e, Evident(e)
    PROVE  LET a == Assess(e) IN
           /\ Stood(e, a)
           /\ /\ a.readiness \in Readies /\ a.blockers = {} /\ a.lifecycle # "closed"
              /\ a.next \in {"apply", "complete_known_step", "start_allocated_task"}
              => e.payout = None
<1> DEFINE f == FirstAnswer(e, Opening(e))
           t == ThreadDoubts(e, f)
           w == Waiting(t)
           r == Reported(e, w)
           h == Held4Binding(e, r)
           c == ClosedAgain(e, h)
           d == DueTime(e, c)
           z == Finalized(e, d)
<1>1. Assess(e) = PayoutMinimum(e, z)
  BY DEF Assess
<1>2. Advised(e, f)
  BY FirstAdvised
<1> HIDE DEF f
<1>3. Advised(e, t) /\ (t.next = "apply" => e.thread # "unpaid")
  BY <1>2, ThreadAdvised
<1> HIDE DEF t
<1>4. Advised(e, w) /\ (w.next = "apply" => e.thread # "unpaid")
  BY <1>3, WaitingAdvised
<1> HIDE DEF w
<1>5. Standing(e, r)
  BY <1>4, ReportedStands
<1> HIDE DEF r
<1>6. Stood(e, h)
  BY <1>5, BindingStands
<1> HIDE DEF h
<1>7. Stood(e, c)
  BY <1>6, ClosingStands
<1> HIDE DEF c
<1>8. Stood(e, d)
  BY <1>7, DueStands
<1> HIDE DEF d
<1>9. Stood(e, z)
  BY <1>8, FinalStands
<1> HIDE DEF z
<1> QED
  BY <1>1, <1>9, PayoutStands

\* The evidence is such as the code can find, the advice agrees with it, and
\* until the model's suspicion a plan that only reads is not ready.
PolicyInv ==
  /\ DOMAIN evidence = DOMAIN Evidence /\ Evident(evidence)
  /\ decision = "PRIMARY" => Checked(evidence, assessment)
  /\ Vetoed(assessment, decision)
  /\ ~suspected =>
       /\ IsAdvice(assessment)
       /\ assessment.plan # None /\ assessment.plan.readOnly => assessment.readiness \notin Readies

\* What is decided of an assessment that stands.
LEMMA DecidedStands ==
    ASSUME NEW e, Evident(e), DOMAIN e = DOMAIN Evidence, evidence' = e,
           suspected' = suspected, Decided(e, Assess(e))
    PROVE  PolicyInv'
<1> DEFINE a == Assess(e)
           x == IF Rejected(e, a) THEN Finalized(e, a) ELSE a
<1>1. /\ Stood(e, a)
      /\ /\ a.readiness \in Readies /\ a.blockers = {} /\ a.lifecycle # "closed"
         /\ a.next \in {"apply", "complete_known_step", "start_allocated_task"}
         => e.payout = None
  BY AssessStands
<1>2. assessment' = x /\ decision' = Band(e, a)
  BY DEF Decided
<1> HIDE DEF a
<1>3. Vetoed(x, Band(e, a))
  BY <1>1, BandVetoes DEF Stood, Standing
<1>4. Stood(e, x)
  BY <1>1, FinalStands
<1>5. ASSUME Band(e, a) = "PRIMARY" PROVE Checked(e, x)
  <2>1. ~Rejected(e, a) /\ Ready(e, a)
    BY <1>5 DEF Band
  <2>2. Checked(e, a)
    BY <1>1, <2>1, ReadyIsChecked
  <2> QED
    BY <2>1, <2>2
<1> HIDE DEF x
<1>6. /\ IsAdvice(x)
      /\ x.plan # None /\ x.plan.readOnly => x.readiness \notin Readies
  BY <1>4 DEF Stood, Standing
<1>7. (DOMAIN evidence = DOMAIN Evidence /\ Evident(evidence))'
  BY DEF Evident
<1>8. decision' = "PRIMARY" => Checked(evidence, assessment)'
  BY <1>2, <1>5 DEF Checked, Blocked, Application, Assessed
<1>9. Vetoed(assessment, decision)'
  BY <1>2, <1>3 DEF Vetoed
<1>10. (/\ IsAdvice(assessment)
        /\ assessment.plan # None /\ assessment.plan.readOnly => assessment.readiness \notin Readies)'
  BY <1>2, <1>6 DEF IsAdvice
<1> QED
  BY <1>7, <1>8, <1>9, <1>10 DEF PolicyInv

\* A suspicion only blocks: work that is not begun yet is never begun on it.
LEMMA SuspectKeeps ==
    ASSUME PolicyInv, Suspect
    PROVE  PolicyInv'
<1> DEFINE a == [assessment EXCEPT !.blockers = @ \union {"scam_threshold"}]
           x == IF Rejected(evidence, a) THEN Finalized(evidence, a) ELSE a
<1>1. /\ evidence' = evidence /\ suspected' /\ ~suspected
      /\ assessment' = x /\ decision' = Band(evidence, a)
  BY DEF Suspect, Decided
<1>2. IsAdvice(assessment)
  BY <1>1 DEF PolicyInv
<1>3. /\ IsAdvice(a) /\ "scam_threshold" \in a.blockers /\ a.plan = assessment.plan
      /\ a.readiness = assessment.readiness
  BY <1>2 DEF IsAdvice, AdviceFields
<1> HIDE DEF a
<1>4. Vetoed(x, Band(evidence, a))
  BY <1>3, BandVetoes
<1>5. Band(evidence, a) # "PRIMARY"
  <2>1. SUFFICES ASSUME ~Rejected(evidence, a), Ready(evidence, a) PROVE FALSE
    BY DEF Band
  <2>2. a.plan # None /\ a.plan.readOnly
    BY <1>3, <2>1 DEF Rejected, WorkAllowed, ClosedOnly
  <2>3. a.readiness \notin Readies
    BY <1>1, <1>3, <2>2 DEF PolicyInv
  <2> QED
    BY <2>1, <2>3 DEF Ready, Readies
<1> HIDE DEF x
<1>6. (DOMAIN evidence = DOMAIN Evidence /\ Evident(evidence))'
  BY <1>1 DEF PolicyInv, Evident
<1>7. Vetoed(assessment, decision)'
  BY <1>1, <1>4 DEF Vetoed
<1> QED
  BY <1>1, <1>5, <1>6, <1>7 DEF PolicyInv

\* A ready answer agrees with every piece of evidence and no veto is passed
\* over, for any combination of evidence (action_policy.py, work_actions.py).
THEOREM AdviceHolds == PolicySpec => []AdviceAgrees
<1>1. PolicyInit => PolicyInv
  <2>1. SUFFICES ASSUME PolicyInit PROVE PolicyInv
    OBVIOUS
  <2> DEFINE e == evidence
             a == Assess(e)
  <2>2. PICK vacancy \in {"open", "unseen"} : evidence =
      [f \in DOMAIN Evidence |->
         CASE f = "vetoes" -> {} [] f = "listing" -> "job" [] f = "vacancy" -> vacancy
           [] f = "age" -> "fresh" [] f = "text" -> "original"
           [] f \in {"qualified", "route", "current", "reportsFresh"} -> TRUE
           [] f \in {"doubt", "payConflict", "market", "private", "hold", "disputed"} -> FALSE
           [] OTHER -> None]
    BY <2>1 DEF PolicyInit, FirstCaptures
  <2>3. /\ e.vetoes = {} /\ e.listing = "job" /\ e.vacancy = vacancy
        /\ e.thread = None /\ e.deadline = None /\ e.reportedWork = None
    BY <2>2 DEF Evidence
  <2>4. DOMAIN e = DOMAIN Evidence
    BY <2>2
  <2>5. Evident(e) /\ Blockers(e) = {}
    BY <2>1, <2>3, NoneIsNoWord DEF Evident, Blockers, If, Closed, PolicyInit
  <2>6. Stood(e, a)
    BY <2>5, AssessStands
  <2>7. assessment = a /\ decision = Band(e, a)
    BY <2>1 DEF PolicyInit
  <2>8. ~Rejected(e, a) /\ IsAdvice(a)
    BY <2>5, <2>6 DEF Rejected, Stood, Standing
  <2>9. Vetoed(a, Band(e, a))
    BY <2>6, <2>8, BandVetoes DEF Stood, Standing
  <2>10. Band(e, a) = "PRIMARY" => Checked(e, a)
    BY <2>5, <2>8, AssessStands, ReadyIsChecked DEF Band
  <2>11. a.plan # None /\ a.plan.readOnly => a.readiness \notin Readies
    BY <2>6 DEF Stood, Standing
  <2> HIDE DEF a
  <2> QED
    BY <2>4, <2>5, <2>7, <2>8, <2>9, <2>10, <2>11 DEF PolicyInv
<1>2. PolicyInv /\ [PolicyNext]_policyVars => PolicyInv'
  <2>1. CASE PolicyInv /\ Learn
    <3>0. PICK f \in DOMAIN Evidence : \E w \in Evidence[f] :
            LET d == [evidence EXCEPT ![f] = w] IN evidence' = d /\ Decided(d, Assess(d))
      BY <2>1, Zenon DEF Learn
    <3>1. PICK v \in Evidence[f] :
            LET d == [evidence EXCEPT ![f] = v] IN evidence' = d /\ Decided(d, Assess(d))
      BY <3>0
    <3> DEFINE e == [evidence EXCEPT ![f] = v]
    <3>2. DOMAIN evidence = DOMAIN Evidence /\ Evident(evidence)
      BY <2>1 DEF PolicyInv
    <3>3. DOMAIN e = DOMAIN Evidence /\ e[f] = v /\ \A g \in DOMAIN Evidence : g # f => e[g] = evidence[g]
      BY <3>2
    <3>4. Evident(e)
      <4>1. /\ Evidence.thread = {None, "buyer", "past", "changed", "unpaid", "locked", "invalid"}
            /\ Evidence.deadline = {None, "elapsed", "short"}
            /\ Evidence.reportedWork = {None, "unselected", "submitted", "paid", "allocated", "missing"}
            /\ {"thread", "deadline", "reportedWork"} \subseteq DOMAIN Evidence
        BY DEF Evidence
      <4> HIDE DEF e
      <4> QED
        BY <3>2, <3>3, <4>1 DEF Evident
    <3>5. suspected' = suspected /\ evidence' = e /\ Decided(e, Assess(e))
      BY <2>1, <3>1 DEF Learn
    <3> HIDE DEF e
    <3> QED
      BY <3>3, <3>4, <3>5, DecidedStands
  <2>2. CASE PolicyInv /\ Suspect
    BY <2>2, SuspectKeeps
  <2>3. CASE PolicyInv /\ UNCHANGED policyVars
    BY <2>3 DEF PolicyInv, policyVars, Evident, Checked, Blocked, Application, Assessed, Vetoed, IsAdvice
  <2> QED
    BY <2>1, <2>2, <2>3 DEF PolicyNext
<1>3. PolicyInv => AdviceAgrees
  BY DEF PolicyInv, AdviceAgrees, ReadyMeansChecked, VetoWins, Checked, Vetoed
<1> QED
  BY <1>1, <1>2, <1>3, PTL DEF PolicySpec
=============================================================================
