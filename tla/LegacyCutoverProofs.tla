-------------------------- MODULE LegacyCutoverProofs -------------------------
(***************************************************************************)
(* Proofs about LegacyCutover for any IDs, URLs, channels, receipts and    *)
(* materials, and any number of runs.                                      *)
(*                                                                         *)
(* A receipt reaches the posting it is about as a hold.  The invariant     *)
(* follows the hold: while a run may record, every receipt of an ID that   *)
(* nothing tracks is a hold of that ID; once a posting at its URL is       *)
(* tracked, it is a hold of that posting, until the first row of the       *)
(* posting on the channel is adopted; and then it never comes back.        *)
(***************************************************************************)
EXTENDS LegacyCutover, FiniteSetTheorems, SequenceTheorems, TLAPS

-----------------------------------------------------------------------------
(* The inductive invariant.                                                *)

\* Rows are of revisions, and a baseline is of a tracked subject.
RowsOfRevisions ==
    /\ \A s \in Ids : Len(revisions[s]) <= MaxSequence
    /\ \A s \in Ids, c \in Channels, n \in Numbers :
         rows[s][c][n] # "absent" => n <= Len(revisions[s])
    /\ \A s \in Ids, c \in Channels : baselines[<<s, c>>] # 0 => Tracked(s)

\* What an alias stands for is tracked.
AliasesTracked == \A i \in Ids : aliases[i] # None => Tracked(aliases[i])

\* No other ID that can be observed has the URL of s.
Alone(s) == \A i \in NewIds : Url[i] = Url[s] => i = s

\* What was adopted has a baseline, and its hold does not come back.
AdoptedSettled ==
    \A s \in Ids, c \in Channels, n \in Numbers :
        <<s, c, n>> \in adopted =>
            /\ baselines[<<s, c>>] # 0
            /\ n <= Len(revisions[s])
            /\ Alone(s) => <<s, c>> \notin holds

\* While a run may record, the receipts of untracked IDs are held.
ReceiptsHeld ==
    enabled => \A h \in OldReceipts :
        aliases[h[1]] = None /\ ~Tracked(h[1]) => h \in holds

\* Receipt h is about the posting s, as far as anybody knows.
About(h, s) ==
    /\ Url[s] = Url[h[1]]
    /\ aliases[s] = None /\ aliases[h[1]] \in {None, s}
    /\ h[1] = s \/ ~Tracked(h[1])

\* A tracked posting without a row on the channel is held by its receipts.
PostingsHeld ==
    \A h \in OldReceipts, s \in NewIds :
        /\ About(h, s)
        /\ Tracked(s)
        /\ \A n \in Numbers : rows[s][h[2]][n] = "absent"
        => <<s, h[2]>> \in holds

CutoverInv ==
    /\ CutoverTypeOK
    /\ RowsOfRevisions
    /\ AliasesTracked
    /\ AdoptedSettled
    /\ ReceiptsHeld
    /\ PostingsHeld
    /\ FirstOccurrenceAdopted
    /\ SuppressedOnce
    /\ RollbackSees

-----------------------------------------------------------------------------
(* Linking old IDs to the postings a run observes.                         *)

\* The types of the state.
Typed ==
    /\ aliases \in [Ids -> Ids \cup {None}]
    /\ holds \subseteq Ids \X Channels
    /\ revisions \in [Ids -> Seq(Materials)]
    /\ rows \in [Ids -> [Channels -> [Numbers -> RowStatus]]]
    /\ baselines \in [Ids \X Channels -> 0..MaxSequence]

\* A linked ID is old, unknown and not observed; its target is the one posting
\* observed at its URL, and unknown as well.
LEMMA LinkTarget ==
    ASSUME NEW S \in SUBSET NewIds, NEW o \in Ids, Link(S, o) # None
    PROVE  /\ o \notin S /\ aliases[o] = None /\ ~Tracked(o)
           /\ Link(S, o) \in S /\ SeenAt(S, Url[o]) = {Link(S, o)}
           /\ Url[Link(S, o)] = Url[o]
           /\ aliases[Link(S, o)] = None /\ ~Tracked(Link(S, o))
<1> DEFINE seen == SeenAt(S, Url[o])
           n == Link(S, o)
<1>1. /\ Cardinality(seen) = 1 /\ o \notin seen
      /\ aliases[o] = None /\ ~Tracked(o)
      /\ \A m \in seen : aliases[m] = None /\ ~Tracked(m)
      /\ n = CHOOSE m \in seen : TRUE
  BY DEF Link
<1>2. seen \subseteq S /\ o \notin S
  BY <1>1 DEF SeenAt
<1>3. IsFiniteSet(seen)
  BY <1>2, CutoverAssumption, FS_Subset
<1>4. PICK m : seen = {m}
  BY <1>1, <1>3, FS_Singleton
<1>5. n = m /\ n \in seen
  BY <1>1, <1>4
<1> QED
  BY <1>1, <1>2, <1>4, <1>5 DEF SeenAt

\* Linking changes no ID that is observed, and none that is an alias already.
LEMMA LinkKeeps ==
    ASSUME NEW S \in SUBSET NewIds
    PROVE  /\ \A i \in S : Linked(S)[i] = aliases[i]
           /\ \A i \in Ids : aliases[i] # None => Linked(S)[i] = aliases[i]
           /\ \A i \in Ids : Linked(S)[i] # aliases[i] => Linked(S)[i] = Link(S, i)
<1>1. \A i \in Ids : Linked(S)[i] = IF Link(S, i) = None THEN aliases[i] ELSE Link(S, i)
  BY DEF Linked, Links
<1>2. S \subseteq Ids
  BY CutoverAssumption
<1> QED
  BY <1>1, <1>2, LinkTarget

\* register_legacy_crosswalk's promise: linking the receipts never makes a run
\* fail that would have passed without it.
THEOREM LinkingIsSafe == Spec => []LinkingNeverBlocks
<1>1. LinkingNeverBlocks
  <2> SUFFICES ASSUME NEW S \in SUBSET NewIds, Collides(Linked(S), S)
               PROVE  Collides(aliases, S)
    BY DEF LinkingNeverBlocks
  <2>1. \A i \in S : SubjectIn(Linked(S), i) = SubjectIn(aliases, i)
    BY LinkKeeps DEF SubjectIn
  <2>2. {SubjectIn(Linked(S), i) : i \in S} = {SubjectIn(aliases, i) : i \in S}
    BY <2>1
  <2> QED
    BY <2>2 DEF Collides
<1> QED
  BY <1>1, PTL

\* The holds after linking stay well formed; what is held of an observed or a
\* tracked ID stays held.
LEMMA HoldsStay ==
    ASSUME Typed, NEW S \in SUBSET NewIds
    PROVE  /\ HoldsAfter(S) \subseteq Ids \X Channels
           /\ \A h \in holds : h[1] \in S \/ Tracked(h[1]) => h \in HoldsAfter(S)
<1>1. S \subseteq Ids /\ holds \subseteq Ids \X Channels
  BY CutoverAssumption DEF Typed
<1>2. Quarantined(S) \subseteq Ids \X Channels
  <2>1. \A u \in Urls : SeenAt(S, u) \subseteq Ids
    BY <1>1 DEF SeenAt
  <2>2. \A o \in Ids : HoldsOf(o) \subseteq Channels
    BY DEF HoldsOf
  <2>3. \A u \in Urls : UNION {HoldsOf(o) : o \in OldAt(u)} \subseteq Channels
    BY <2>2 DEF OldAt
  <2>4. ASSUME NEW u \in Urls
        PROVE  {<<n, c>> : n \in SeenAt(S, u), c \in UNION {HoldsOf(o) : o \in OldAt(u)}}
                 \subseteq Ids \X Channels
    BY <2>1, <2>3
  <2> QED
    BY <2>4 DEF Quarantined
<1>3. \A h \in holds : Links(S)[h[1]] = Link(S, h[1])
  BY <1>1 DEF Links
<1>4. ASSUME NEW h \in holds, Links(S)[h[1]] # None
      PROVE  <<Links(S)[h[1]], h[2]>> \in Ids \X Channels
  <2>1. h[1] \in Ids /\ h[2] \in Channels /\ Link(S, h[1]) # None
    BY <1>1, <1>3, <1>4
  <2>2. Link(S, h[1]) \in S
    BY <2>1, LinkTarget
  <2> QED
    BY <1>1, <1>3, <2>1, <2>2
<1>5. ASSUME NEW h \in holds, h[1] \in S \/ Tracked(h[1]) PROVE h \in HoldsAfter(S)
  <2>1. h[1] \in Ids
    BY <1>1
  <2>2. Link(S, h[1]) = None
    BY <1>5, <2>1, LinkTarget
  <2> QED
    BY <1>3, <2>2 DEF HoldsAfter
<1> QED
  BY <1>1, <1>2, <1>4, <1>5 DEF HoldsAfter

\* A posting seen for the first time gets the holds of the old IDs at its URL:
\* by the link, or by the quarantine of all the postings there.
LEMMA HoldsArrive ==
    ASSUME Typed, NEW S \in SUBSET NewIds, NEW h \in OldReceipts, NEW s \in S,
           h \in holds, h[1] \notin S, Url[s] = Url[h[1]],
           aliases[h[1]] = None, ~Tracked(h[1]), aliases[s] = None, ~Tracked(s)
    PROVE  <<s, h[2]>> \in HoldsAfter(S)
<1> PICK o \in Ids, c \in Channels : h = <<o, c>>
  BY CutoverAssumption
<1> DEFINE seen == SeenAt(S, Url[o])
<1>1. /\ s \in seen /\ o \notin seen /\ seen \subseteq S
      /\ o \in OldAt(Url[o]) /\ c \in HoldsOf(o)
  BY DEF SeenAt, OldAt, HoldsOf
<1>2. IsFiniteSet(seen) /\ Cardinality(seen) \in Nat
  <2>1. IsFiniteSet(seen)
    BY <1>1, CutoverAssumption, FS_Subset
  <2> QED
    BY <2>1, FS_CardinalityType
<1>3. CASE Cardinality(seen) = 1
  <2>1. PICK m : seen = {m}
    BY <1>2, <1>3, FS_Singleton
  <2>2. seen = {s}
    BY <1>1, <2>1
  <2>3. Link(S, o) = CHOOSE n \in seen : TRUE
    BY <1>1, <1>3, <2>2 DEF Link
  <2>4. Link(S, o) = s /\ s # None
    BY <2>2, <2>3, CutoverAssumption
  <2>5. Links(S)[h[1]] = s
    BY <2>4 DEF Links
  <2> QED
    BY <2>4, <2>5 DEF HoldsAfter
<1>4. CASE Cardinality(seen) # 1
  <2>1. Cardinality(seen) # 0
    BY <1>1, <1>2, FS_EmptySet
  <2>2. Cardinality(seen) > 1
    BY <1>2, <1>4, <2>1
  <2>3. Url[o] \in Urls
    BY CutoverAssumption
  <2>4. c \in UNION {HoldsOf(i) : i \in OldAt(Url[o])}
    BY <1>1
  <2>5. <<s, c>> \in Quarantined(S)
    BY <1>1, <2>2, <2>3, <2>4 DEF Quarantined
  <2> QED
    BY <2>5 DEF HoldsAfter
<1> QED
  BY <1>3, <1>4

\* A tracked posting that has its URL to itself gets no hold it had not.
LEMMA HoldsOfAlone ==
    ASSUME Typed, NEW S \in SUBSET NewIds, NEW s \in Ids, NEW c \in Channels,
           Alone(s), Tracked(s), <<s, c>> \in HoldsAfter(S)
    PROVE  <<s, c>> \in holds
<1>1. ASSUME NEW h \in holds, Links(S)[h[1]] # None, <<Links(S)[h[1]], h[2]>> = <<s, c>>
      PROVE  FALSE
  <2>1. h[1] \in Ids /\ Link(S, h[1]) # None /\ Link(S, h[1]) = s
    BY <1>1 DEF Typed, Links
  <2> QED
    BY <2>1, LinkTarget
<1>2. <<s, c>> \notin Quarantined(S)
  <2> SUFFICES ASSUME NEW u \in Urls, Cardinality(SeenAt(S, u)) > 1, s \in SeenAt(S, u)
               PROVE  FALSE
    BY DEF Quarantined
  <2>1. SeenAt(S, u) = {s}
    BY DEF SeenAt, Alone
  <2>2. Cardinality(SeenAt(S, u)) = 1
    BY <2>1, FS_Singleton
  <2> QED
    BY <2>2
<1> QED
  BY <1>1, <1>2 DEF HoldsAfter

-----------------------------------------------------------------------------
(* What a step does.                                                       *)

\* The staged rows that are held.
Held(S, staged) == staged \cap HoldsAfter(S)

\* A subject that is observed has a revision, and at most one more than before.
RevisionsGrow(S) ==
    /\ revisions' \in [Ids -> Seq(Materials)]
    /\ \A s \in Ids : /\ Len(revisions[s]) <= Len(revisions'[s])
                      /\ Len(revisions'[s]) <= MaxSequence
                      /\ s \notin Seen(S) => revisions'[s] = revisions[s]
    /\ \A s \in Seen(S) : Len(revisions'[s]) \in Numbers

\* Staged rows are adopted where held, else pending; older ones may be replaced.
RowsMove(S, staged) ==
    /\ staged \subseteq Seen(S) \X Channels
    /\ \A b \in staged : rows[b[1]][b[2]][Len(revisions'[b[1]])] = "absent"
    /\ rows' \in [Ids -> [Channels -> [Numbers -> RowStatus]]]
    /\ \A s \in Ids, c \in Channels, n \in Numbers :
         \/ /\ <<s, c>> \in Held(S, staged) /\ n = Len(revisions'[s])
            /\ rows'[s][c][n] = "accepted"
         \/ /\ <<s, c>> \in staged \ Held(S, staged) /\ n = Len(revisions'[s])
            /\ rows'[s][c][n] = "pending"
         \/ /\ ~(<<s, c>> \in staged /\ n = Len(revisions'[s]))
            /\ \/ rows[s][c][n] = "pending" /\ rows'[s][c][n] = "superseded"
               \/ rows'[s][c][n] = rows[s][c][n]

\* What is adopted gets a baseline and is held no more.
HoldsSettle(S, staged) ==
    /\ baselines' \in [Ids \X Channels -> 0..MaxSequence]
    /\ \A b \in Ids \X Channels :
         /\ b \in Held(S, staged) => baselines'[b] # 0
         /\ b \notin Held(S, staged) => baselines'[b] = baselines[b]
    /\ holds' = HoldsAfter(S) \ Held(S, staged)
    /\ adopted' = adopted \cup {<<b[1], b[2], Len(revisions'[b[1]])>> : b \in Held(S, staged)}

\* A run that recorded the IDs in S and staged some rows.
Recorded(S, staged) ==
    /\ enabled /\ enabled' = FALSE
    /\ aliases' = Linked(S)
    /\ mirrored' = mirrored /\ unmirrored' = unmirrored
    /\ RevisionsGrow(S)
    /\ RowsMove(S, staged)
    /\ HoldsSettle(S, staged)

\* The subjects a run observes are IDs.
LEMMA SeenAreIds ==
    ASSUME Typed, NEW S \in SUBSET NewIds
    PROVE  /\ Seen(S) \subseteq Ids
           /\ \A i \in S : aliases[i] = None => i \in Seen(S)
           /\ \A s \in Seen(S) : s \in S \/ \E i \in Ids : aliases[i] = s /\ aliases[i] # None
<1>1. S \subseteq Ids
  BY CutoverAssumption
<1>2. \A i \in S : SubjectIn(Linked(S), i) = IF aliases[i] = None THEN i ELSE aliases[i]
  BY LinkKeeps DEF SubjectIn
<1>3. \A i \in S : aliases[i] \in Ids \cup {None}
  BY <1>1 DEF Typed
<1>4. Seen(S) = {SubjectIn(Linked(S), i) : i \in S}
  BY DEF Seen
<1> QED
  BY <1>1, <1>2, <1>3, <1>4

\* Recording does that.
LEMMA RecordDoes ==
    ASSUME Typed, RowsOfRevisions, NEW S \in SUBSET NewIds, NEW obs \in [S -> Materials],
           NEW chosen \in SUBSET (Seen(S) \X Channels), Record(obs, chosen)
    PROVE  \E staged \in SUBSET chosen : Recorded(S, staged)
<1> DEFINE changed == Changed(obs)
           L(s) == Len(revisions'[s])
           staged == {b \in chosen : rows[b[1]][b[2]][L(b[1])] = "absent"}
           held == staged \cap HoldsAfter(S)
<1>d. DOMAIN obs = S
  OBVIOUS
<1>1. /\ enabled /\ enabled' = FALSE /\ aliases' = Linked(S)
      /\ \A s \in changed : Len(revisions[s]) < MaxSequence
      /\ revisions' = [s \in Ids |-> IF s \in changed THEN Append(revisions[s], Material(obs, s))
                                     ELSE revisions[s]]
      /\ holds' = HoldsAfter(S) \ held
      /\ adopted' = adopted \cup {<<b[1], b[2], L(b[1])>> : b \in held}
      /\ mirrored' = mirrored /\ unmirrored' = unmirrored
  BY <1>d DEF Record
<1>2. rows' = [s \in Ids |-> [c \in Channels |-> [n \in Numbers |->
                IF n = L(s) /\ <<s, c>> \in held THEN "accepted"
                ELSE IF n = L(s) /\ <<s, c>> \in staged THEN "pending"
                ELSE IF s \in changed /\ rows[s][c][n] = "pending" THEN "superseded"
                ELSE rows[s][c][n]]]]
  BY <1>d DEF Record
<1>3. baselines' = [b \in Ids \X Channels |->
                      IF b \in held /\ baselines[b] = 0 THEN L(b[1]) ELSE baselines[b]]
  BY <1>d DEF Record
<1>4. /\ changed = {s \in Seen(S) : \/ revisions[s] = <<>>
                                    \/ revisions[s][Len(revisions[s])] # Material(obs, s)}
      /\ Seen(S) \subseteq Ids
  BY <1>1, <1>d, SeenAreIds DEF Changed, Seen
<1>5. ASSUME NEW s \in changed PROVE Material(obs, s) \in Materials
  <2>1. \E i \in S : SubjectIn(aliases', i) = s
    BY <1>1, <1>4 DEF Seen
  <2> DEFINE i == CHOOSE j \in S : SubjectIn(aliases', j) = s
  <2>2. i \in S
    BY <2>1
  <2>3. Material(obs, s) = obs[i]
    BY <1>d DEF Material
  <2> QED
    BY <2>2, <2>3
<1> HIDE DEF changed
<1>6. /\ revisions' \in [Ids -> Seq(Materials)]
      /\ \A s \in Ids : /\ Len(revisions[s]) <= L(s) /\ L(s) <= MaxSequence
                        /\ s \notin Seen(S) => revisions'[s] = revisions[s]
                        /\ s \in Seen(S) => L(s) \in Numbers
  <2>1. ASSUME NEW s \in Ids
        PROVE  /\ revisions'[s] \in Seq(Materials)
               /\ Len(revisions[s]) <= L(s) /\ L(s) <= MaxSequence
               /\ s \notin Seen(S) => revisions'[s] = revisions[s]
               /\ s \in Seen(S) => L(s) \in Numbers
    <3>1. /\ revisions[s] \in Seq(Materials) /\ Len(revisions[s]) \in Nat
          /\ Len(revisions[s]) <= MaxSequence /\ MaxSequence \in Nat
          /\ revisions[s] # <<>> => Len(revisions[s]) # 0
      BY CutoverAssumption, EmptySeq DEF Typed, RowsOfRevisions
    <3>2. CASE s \in changed
      <4> DEFINE m == Material(obs, s)
                 q == revisions[s]
      <4>1. m \in Materials /\ revisions'[s] = Append(q, m) /\ q \in Seq(Materials)
            /\ Len(q) < MaxSequence
        BY <1>1, <1>5, <3>1, <3>2
      <4> HIDE DEF m, q
      <4>2. revisions'[s] \in Seq(Materials) /\ L(s) = Len(q) + 1
        BY <4>1
      <4> QED
        BY <1>4, <3>1, <3>2, <4>1, <4>2 DEF q, Numbers
    <3>3. CASE s \notin changed
      <4>1. revisions'[s] = revisions[s]
        BY <1>1, <3>3
      <4>2. s \in Seen(S) => revisions[s] # <<>>
        BY <1>4, <3>3
      <4> QED
        BY <3>1, <4>1, <4>2 DEF Numbers
    <3> QED
      BY <3>2, <3>3
  <2>2. revisions' = [s \in Ids |-> revisions'[s]]
    BY <1>1
  <2> QED
    BY <2>1, <2>2
<1>7. staged \subseteq Seen(S) \X Channels /\ staged \subseteq chosen
  OBVIOUS
<1>8. ASSUME NEW s \in Ids, NEW c \in Channels, NEW n \in Numbers
      PROVE  /\ rows'[s][c][n] \in RowStatus
             /\ \/ /\ <<s, c>> \in held /\ n = L(s) /\ rows'[s][c][n] = "accepted"
                \/ /\ <<s, c>> \in staged \ held /\ n = L(s) /\ rows'[s][c][n] = "pending"
                \/ /\ ~(<<s, c>> \in staged /\ n = L(s))
                   /\ \/ rows[s][c][n] = "pending" /\ rows'[s][c][n] = "superseded"
                      \/ rows'[s][c][n] = rows[s][c][n]
  <2> HIDE DEF staged, held, L
  <2>1. rows[s][c][n] \in RowStatus
    BY DEF Typed
  <2>2. rows'[s][c][n] = IF n = L(s) /\ <<s, c>> \in held THEN "accepted"
                         ELSE IF n = L(s) /\ <<s, c>> \in staged THEN "pending"
                         ELSE IF s \in changed /\ rows[s][c][n] = "pending" THEN "superseded"
                         ELSE rows[s][c][n]
    BY <1>2
  <2> QED
    BY <2>1, <2>2 DEF RowStatus
<1>9. rows' \in [Ids -> [Channels -> [Numbers -> RowStatus]]]
  <2> HIDE DEF staged, held, L
  <2> QED
    BY <1>2, <1>8
<1>10. ASSUME NEW b \in Ids \X Channels
       PROVE  /\ baselines'[b] \in 0..MaxSequence
              /\ b \in held => baselines'[b] # 0
              /\ b \notin held => baselines'[b] = baselines[b]
  <2>1. /\ baselines[b] \in 0..MaxSequence
        /\ b \in held => L(b[1]) \in Numbers
    BY <1>6, <1>7 DEF Typed
  <2> HIDE DEF staged, held, L
  <2> QED
    BY <1>3, <2>1 DEF Numbers
<1>11. baselines' \in [Ids \X Channels -> 0..MaxSequence]
  <2> HIDE DEF staged, held, L
  <2> QED
    BY <1>3, <1>10
<1>12. \A b \in staged : rows[b[1]][b[2]][L(b[1])] = "absent"
  OBVIOUS
<1>13. RevisionsGrow(S)
  <2>1. \A s \in Seen(S) : L(s) \in Numbers
    BY <1>4, <1>6
  <2> QED
    BY <1>6, <2>1 DEF RevisionsGrow
<1> HIDE DEF staged
<1>14. RowsMove(S, staged)
  BY <1>7, <1>8, <1>9, <1>12 DEF RowsMove, Held
<1>15. HoldsSettle(S, staged)
  BY <1>1, <1>10, <1>11 DEF HoldsSettle, Held
<1>16. Recorded(S, staged)
  BY <1>1, <1>13, <1>14, <1>15 DEF Recorded
<1> QED
  BY <1>7, <1>16

\* Only what has a revision is tracked, and it stays so.
LEMMA RecordTracks ==
    ASSUME Typed, NEW S \in SUBSET NewIds, NEW staged, Recorded(S, staged)
    PROVE  /\ \A s \in Ids : /\ Tracked(s) <=> Len(revisions[s]) # 0
                             /\ Tracked(s)' <=> Len(revisions'[s]) # 0
                             /\ Tracked(s) => Tracked(s)'
                             /\ Tracked(s)' => Tracked(s) \/ s \in Seen(S)
           /\ \A s \in Seen(S) : Tracked(s)'
<1>1. RevisionsGrow(S) /\ revisions \in [Ids -> Seq(Materials)] /\ Seen(S) \subseteq Ids
  BY SeenAreIds DEF Recorded, Typed
<1>2. \A s \in Ids : /\ Tracked(s) <=> Len(revisions[s]) # 0
                     /\ Tracked(s)' <=> Len(revisions'[s]) # 0
  <2> TAKE s \in Ids
  <2>1. revisions[s] \in Seq(Materials) /\ revisions'[s] \in Seq(Materials)
    BY <1>1 DEF RevisionsGrow
  <2> QED
    BY <2>1, EmptySeq DEF Tracked
<1>3. ASSUME NEW s \in Ids
      PROVE  /\ Tracked(s) => Tracked(s)'
             /\ Tracked(s)' => Tracked(s) \/ s \in Seen(S)
             /\ s \in Seen(S) => Tracked(s)'
  <2>1. Len(revisions[s]) \in Nat /\ Len(revisions'[s]) \in Nat
    BY <1>1, LenProperties DEF RevisionsGrow
  <2>2. Len(revisions[s]) <= Len(revisions'[s])
    BY <1>1 DEF RevisionsGrow
  <2>3. s \in Seen(S) => Len(revisions'[s]) # 0
    BY <1>1 DEF RevisionsGrow, Numbers
  <2>4. s \notin Seen(S) => revisions'[s] = revisions[s]
    BY <1>1 DEF RevisionsGrow
  <2> QED
    BY <1>2, <2>1, <2>2, <2>3, <2>4
<1> QED
  BY <1>1, <1>2, <1>3

\* The first row of a posting on a channel is staged where a receipt about it is
\* held.
LEMMA FirstIsHeld ==
    ASSUME Typed, AliasesTracked, ReceiptsHeld, PostingsHeld,
           NEW S \in SUBSET NewIds, NEW staged, Recorded(S, staged),
           NEW h \in OldReceipts, NEW s \in NewIds, About(h, s)', Tracked(s)',
           \A n \in Numbers : rows[s][h[2]][n] = "absent"
    PROVE  About(h, s) /\ <<s, h[2]>> \in HoldsAfter(S)
<1>i. /\ s \in Ids /\ h[1] \in Ids /\ h[2] \in Channels /\ h = <<h[1], h[2]>>
      /\ NewIds \subseteq Ids /\ None \notin Ids
  BY CutoverAssumption
<1>1. /\ enabled /\ aliases' = Linked(S)
      /\ \A i \in Ids : aliases[i] # None => aliases'[i] = aliases[i]
      /\ \A i \in Ids : Tracked(i) => Tracked(i)'
      /\ Tracked(s)' => Tracked(s) \/ s \in Seen(S)
  BY <1>i, LinkKeeps, RecordTracks DEF Recorded
<1>2. About(h, s)
  BY <1>i, <1>1 DEF About
<1>3. CASE Tracked(s)
  <2>1. <<s, h[2]>> \in holds
    BY <1>2, <1>3 DEF PostingsHeld
  <2> QED
    BY <1>2, <1>3, <2>1, HoldsStay
<1>4. CASE ~Tracked(s)
  <2>1. s \in S
    BY <1>1, <1>4, SeenAreIds DEF AliasesTracked
  <2>2. CASE h[1] = s
    <3>1. <<s, h[2]>> \in holds
      BY <1>i, <1>1, <1>2, <1>4, <2>2 DEF ReceiptsHeld, About
    <3> QED
      BY <1>2, <2>1, <3>1, HoldsStay
  <2>3. CASE h[1] # s
    <3>1. aliases[h[1]] = None /\ ~Tracked(h[1])
      BY <1>i, <1>2, <1>4, <2>3 DEF About, AliasesTracked
    <3>2. h \in holds
      BY <1>1, <3>1 DEF ReceiptsHeld
    <3>3. ~Tracked(h[1])'
      BY <2>3 DEF About
    <3>4. h[1] \notin S
      BY <1>i, <3>1, <3>3, SeenAreIds, RecordTracks
    <3> QED
      BY <1>2, <1>4, <2>1, <3>1, <3>2, <3>4, HoldsArrive DEF About
  <2> QED
    BY <2>2, <2>3
<1> QED
  BY <1>2, <1>3, <1>4

\* A row that is absent was so before.
RowStays ==
    \A s \in Ids, c \in Channels, n \in Numbers :
        rows'[s][c][n] = "absent" => rows[s][c][n] = "absent"

\* A staged row was absent, and is accepted where it is held.
RowStaged(S, staged) ==
    \A s \in Ids, c \in Channels, n \in Numbers :
        <<s, c>> \in staged /\ n = Len(revisions'[s]) =>
            /\ rows[s][c][n] = "absent"
            /\ <<s, c>> \in Held(S, staged) => rows'[s][c][n] = "accepted"

\* Any other row stays or is replaced.
RowReplaced(staged) ==
    \A s \in Ids, c \in Channels, n \in Numbers :
        \/ <<s, c>> \in staged /\ n = Len(revisions'[s])
        \/ rows'[s][c][n] = "superseded"
        \/ rows'[s][c][n] = rows[s][c][n]

\* Where the rows of a posting come from.
LEMMA RowsFrom ==
    ASSUME NEW S \in SUBSET NewIds, NEW staged, Recorded(S, staged)
    PROVE  RowStays /\ RowStaged(S, staged) /\ RowReplaced(staged)
<1>1. RowsMove(S, staged)
  BY DEF Recorded
<1>2. ASSUME NEW s \in Ids, NEW c \in Channels, NEW n \in Numbers
      PROVE  /\ rows'[s][c][n] = "absent" => rows[s][c][n] = "absent"
             /\ <<s, c>> \in staged /\ n = Len(revisions'[s]) => rows[s][c][n] = "absent"
             /\ <<s, c>> \in Held(S, staged) /\ n = Len(revisions'[s])
                  => rows'[s][c][n] = "accepted"
             /\ \/ <<s, c>> \in staged /\ n = Len(revisions'[s])
                \/ rows'[s][c][n] = "superseded"
                \/ rows'[s][c][n] = rows[s][c][n]
  <2>1. \/ /\ <<s, c>> \in staged /\ n = Len(revisions'[s])
           /\ rows'[s][c][n] = IF <<s, c>> \in Held(S, staged) THEN "accepted"
                               ELSE "pending"
        \/ /\ ~(<<s, c>> \in staged /\ n = Len(revisions'[s]))
           /\ \/ rows[s][c][n] = "pending" /\ rows'[s][c][n] = "superseded"
              \/ rows'[s][c][n] = rows[s][c][n]
    BY <1>1 DEF RowsMove, Held
  <2>2. <<s, c>> \in staged /\ n = Len(revisions'[s]) => rows[s][c][n] = "absent"
    BY <1>1 DEF RowsMove
  <2>3. <<s, c>> \in Held(S, staged) => <<s, c>> \in staged
    BY DEF Held
  <2> QED
    BY <2>1, <2>2, <2>3
<1>3. RowStays
  BY <1>2 DEF RowStays
<1>4. RowStaged(S, staged)
  BY <1>2 DEF RowStaged
<1>5. RowReplaced(staged)
  BY <1>2 DEF RowReplaced
<1> QED
  BY <1>3, <1>4, <1>5

\* Recording keeps the hold of a posting until its first row is adopted.
LEMMA RecordHolds ==
    ASSUME CutoverInv, NEW S \in SUBSET NewIds, NEW staged, Recorded(S, staged)
    PROVE  ReceiptsHeld' /\ PostingsHeld' /\ FirstOccurrenceAdopted'
<1>t. /\ Typed /\ RowsOfRevisions /\ AliasesTracked /\ ReceiptsHeld /\ PostingsHeld
      /\ FirstOccurrenceAdopted
  BY DEF CutoverInv, CutoverTypeOK, Typed
<1>a. NewIds \subseteq Ids /\ OldReceipts \subseteq Ids \X Channels
  BY CutoverAssumption
<1>r. RowStays /\ RowStaged(S, staged) /\ RowReplaced(staged)
  BY RowsFrom
<1>1. ReceiptsHeld'
  BY DEF Recorded, ReceiptsHeld
<1>2. PostingsHeld'
  <2> SUFFICES ASSUME NEW h \in OldReceipts, NEW s \in NewIds, About(h, s)', Tracked(s)',
                      \A n \in Numbers : rows'[s][h[2]][n] = "absent"
               PROVE  <<s, h[2]>> \in holds'
    BY DEF PostingsHeld
  <2>i. s \in Ids /\ h[2] \in Channels
    BY <1>a
  <2> PICK c \in Channels : h[2] = c
    BY <2>i
  <2>1. \A n \in Numbers : rows[s][c][n] = "absent"
    <3> TAKE n \in Numbers
    <3>1. rows'[s][c][n] = "absent"
      OBVIOUS
    <3> QED
      BY <1>r, <2>i, <3>1 DEF RowStays
  <2>2. <<s, c>> \in HoldsAfter(S)
    BY <1>t, <2>1, FirstIsHeld
  <2>3. <<s, c>> \notin Held(S, staged)
    <3> SUFFICES ASSUME <<s, c>> \in Held(S, staged) PROVE FALSE
      OBVIOUS
    <3>1. <<s, c>> \in staged /\ s \in Seen(S)
      BY DEF Held, Recorded, RowsMove
    <3>2. Len(revisions'[s]) \in Numbers
      BY <3>1 DEF Recorded, RevisionsGrow
    <3>3. rows'[s][c][Len(revisions'[s])] = "accepted"
      BY <1>r, <2>i, <3>1, <3>2 DEF RowStaged
    <3> QED
      BY <3>2, <3>3
  <2> QED
    BY <2>2, <2>3 DEF Recorded, HoldsSettle
<1>3. FirstOccurrenceAdopted'
  <2> SUFFICES ASSUME NEW h \in OldReceipts, NEW s \in NewIds, NEW n \in Numbers,
                      About(h, s)', rows'[s][h[2]][n] \in {"pending", "accepted"},
                      \A m \in Numbers : m < n => rows'[s][h[2]][m] = "absent"
               PROVE  <<s, h[2], n>> \in adopted'
    BY DEF FirstOccurrenceAdopted, About, Tracked
  <2>i. s \in Ids /\ h[1] \in Ids /\ h[2] \in Channels
    BY <1>a
  <2> PICK c \in Channels : h[2] = c
    BY <2>i
  <2>1. \A m \in Numbers : m < n => rows[s][c][m] = "absent"
    <3> TAKE m \in Numbers
    <3> HAVE m < n
    <3>1. rows'[s][c][m] = "absent"
      OBVIOUS
    <3> QED
      BY <1>r, <2>i, <3>1 DEF RowStays
  <2>2. CASE <<s, c>> \in staged /\ n = Len(revisions'[s])
    <3>1. /\ rows[s][c][n] = "absent"
          /\ \A m \in Numbers : m > n => rows[s][c][m] = "absent"
      <4>1. rows[s][c][n] = "absent"
        BY <1>r, <2>i, <2>2 DEF RowStaged
      <4>2. ASSUME NEW m \in Numbers, m > n PROVE rows[s][c][m] = "absent"
        <5>1. /\ Len(revisions[s]) <= n /\ Len(revisions[s]) \in Nat
              /\ n \in Nat /\ m \in Nat
          BY <1>t, <2>i, <2>2, LenProperties DEF Recorded, RevisionsGrow, Typed, Numbers
        <5>2. ~(m <= Len(revisions[s]))
          BY <4>2, <5>1
        <5> QED
          BY <1>t, <2>i, <5>2 DEF RowsOfRevisions
      <4> QED
        BY <4>1, <4>2
    <3>2. \A m \in Numbers : rows[s][c][m] = "absent"
      <4> TAKE m \in Numbers
      <4>1. m < n \/ m = n \/ m > n
        BY DEF Numbers
      <4> QED
        BY <2>1, <3>1, <4>1
    <3>3. Tracked(s)'
      BY <1>t, <2>2, RecordTracks DEF Recorded, RowsMove
    <3>4. <<s, c>> \in Held(S, staged)
      BY <1>t, <2>2, <3>2, <3>3, FirstIsHeld DEF Held
    <3> DEFINE b == <<s, c>>
    <3>5. <<b[1], b[2], Len(revisions'[b[1]])>> = <<s, c, n>>
      BY <2>2
    <3> QED
      BY <3>4, <3>5 DEF Recorded, HoldsSettle
  <2>3. CASE ~(<<s, c>> \in staged /\ n = Len(revisions'[s]))
    <3>1. rows[s][c][n] \in {"pending", "accepted"}
      BY <1>r, <2>i, <2>3 DEF RowReplaced
    <3>2. About(h, s)
      <4>1. \A i \in Ids : aliases[i] # None => aliases'[i] = aliases[i]
        BY LinkKeeps DEF Recorded
      <4>2. \A i \in Ids : Tracked(i) => Tracked(i)'
        BY <1>t, RecordTracks
      <4> QED
        BY <2>i, <4>1, <4>2 DEF About
    <3>3. <<s, c, n>> \in adopted
      BY <1>t, <2>1, <3>1, <3>2 DEF FirstOccurrenceAdopted, About
    <3> QED
      BY <3>3 DEF Recorded, HoldsSettle
  <2> QED
    BY <2>2, <2>3
<1> QED
  BY <1>1, <1>2, <1>3

\* Recording adopts a posting that has its URL to itself once.
LEMMA RecordSettles ==
    ASSUME CutoverInv, NEW S \in SUBSET NewIds, NEW staged, Recorded(S, staged)
    PROVE  AdoptedSettled' /\ SuppressedOnce'
<1>t. /\ Typed /\ RowsOfRevisions /\ AdoptedSettled /\ SuppressedOnce
      /\ adopted \subseteq Ids \X Channels \X Numbers
  BY DEF CutoverInv, CutoverTypeOK, Typed
<1>1. HoldsSettle(S, staged) /\ RevisionsGrow(S)
  BY DEF Recorded
<1>2. ASSUME NEW s \in Ids, NEW c \in Channels, NEW n \in Numbers, <<s, c, n>> \in adopted'
      PROVE  \/ <<s, c, n>> \in adopted /\ (Alone(s) => <<s, c>> \notin HoldsAfter(S))
             \/ <<s, c>> \in Held(S, staged) /\ n = Len(revisions'[s])
  <2>1. CASE <<s, c, n>> \in adopted
    <3>1. Tracked(s) /\ (Alone(s) => <<s, c>> \notin holds)
      BY <1>t, <2>1 DEF AdoptedSettled, RowsOfRevisions
    <3>2. Alone(s) => <<s, c>> \notin HoldsAfter(S)
      BY <1>t, <3>1, HoldsOfAlone
    <3> QED
      BY <2>1, <3>2
  <2>2. CASE <<s, c, n>> \notin adopted
    <3>1. PICK b \in Held(S, staged) : <<s, c, n>> = <<b[1], b[2], Len(revisions'[b[1]])>>
      BY <1>1, <1>2, <2>2 DEF HoldsSettle
    <3>2. b \in Ids \X Channels
      BY <1>t, HoldsStay DEF Held
    <3>3. b = <<s, c>>
      BY <3>1, <3>2
    <3> QED
      BY <3>1, <3>3
  <2> QED
    BY <2>1, <2>2
<1>3. AdoptedSettled'
  <2> SUFFICES ASSUME NEW s \in Ids, NEW c \in Channels, NEW n \in Numbers,
                      <<s, c, n>> \in adopted'
               PROVE  /\ baselines'[<<s, c>>] # 0
                      /\ n <= Len(revisions'[s])
                      /\ Alone(s) => <<s, c>> \notin holds'
    BY DEF AdoptedSettled, Alone
  <2>1. CASE <<s, c, n>> \in adopted /\ (Alone(s) => <<s, c>> \notin HoldsAfter(S))
    <3>1. baselines[<<s, c>>] # 0 /\ n <= Len(revisions[s])
      BY <1>t, <2>1 DEF AdoptedSettled
    <3>2. baselines'[<<s, c>>] # 0
      BY <1>1, <3>1 DEF HoldsSettle
    <3>3. /\ Len(revisions[s]) <= Len(revisions'[s]) /\ Len(revisions[s]) \in Nat
          /\ Len(revisions'[s]) \in Nat /\ n \in Nat
      BY <1>t, <1>1, LenProperties DEF RevisionsGrow, Typed, Numbers
    <3>4. n <= Len(revisions'[s])
      BY <3>1, <3>3
    <3>5. Alone(s) => <<s, c>> \notin holds'
      BY <1>1, <2>1 DEF HoldsSettle
    <3> QED
      BY <3>2, <3>4, <3>5
  <2>2. CASE <<s, c>> \in Held(S, staged) /\ n = Len(revisions'[s])
    <3>1. n \in Nat
      BY DEF Numbers
    <3>2. baselines'[<<s, c>>] # 0 /\ <<s, c>> \notin holds'
      BY <1>1, <2>2 DEF HoldsSettle
    <3> QED
      BY <2>2, <3>1, <3>2
  <2> QED
    BY <1>2, <2>1, <2>2
<1>4. SuppressedOnce'
  <2> SUFFICES ASSUME NEW s \in Ids, Alone(s), NEW c \in Channels,
                      NEW m \in Numbers, NEW n \in Numbers,
                      <<s, c, m>> \in adopted', <<s, c, n>> \in adopted'
               PROVE  m = n
    BY DEF SuppressedOnce, Once, Alone
  <2>1. <<s, c, m>> \in adopted /\ <<s, c, n>> \in adopted => m = n
    BY <1>t DEF SuppressedOnce, Once, Alone
  <2>2. <<s, c>> \in Held(S, staged) => <<s, c>> \in HoldsAfter(S)
    BY DEF Held
  <2> QED
    BY <1>2, <2>1, <2>2
<1> QED
  BY <1>3, <1>4

\* Recording keeps the tables in their types, with rows of revisions only.
LEMMA RecordTables ==
    ASSUME CutoverInv, NEW S \in SUBSET NewIds, NEW staged, Recorded(S, staged)
    PROVE  CutoverTypeOK' /\ RowsOfRevisions' /\ AliasesTracked'
<1>t. /\ Typed /\ RowsOfRevisions /\ AliasesTracked
      /\ adopted \subseteq Ids \X Channels \X Numbers
      /\ mirrored \subseteq Ids \X Channels /\ unmirrored \subseteq Ids
  BY DEF CutoverInv, CutoverTypeOK, Typed
<1>1. HoldsSettle(S, staged) /\ RevisionsGrow(S) /\ RowsMove(S, staged)
  BY DEF Recorded
<1>a. S \subseteq Ids /\ NewIds \subseteq Ids
  BY CutoverAssumption
<1>2. \A i \in Ids : \/ aliases'[i] = aliases[i]
                     \/ /\ aliases'[i] \in S /\ aliases[aliases'[i]] = None
  BY LinkKeeps, LinkTarget DEF Recorded
<1>3. aliases' \in [Ids -> Ids \cup {None}]
  <2>1. \A i \in Ids : aliases'[i] \in Ids \cup {None}
    BY <1>t, <1>a, <1>2 DEF Typed
  <2>2. aliases' = [i \in Ids |-> aliases'[i]]
    BY DEF Recorded, Linked
  <2> QED
    BY <2>1, <2>2
<1>4. AliasesTracked'
  <2> SUFFICES ASSUME NEW i \in Ids, aliases'[i] # None
               PROVE  revisions'[aliases'[i]] # <<>>
    BY DEF AliasesTracked, Tracked
  <2>1. aliases'[i] \in Ids
    BY <1>3
  <2> PICK x \in Ids : x = aliases'[i]
    BY <2>1
  <2>2. Tracked(x) => Tracked(x)'
    BY <1>t, RecordTracks
  <2>3. x \in Seen(S) => Tracked(x)'
    BY <1>t, RecordTracks
  <2>4. CASE aliases'[i] = aliases[i]
    BY <1>t, <2>2, <2>4 DEF AliasesTracked, Tracked
  <2>5. CASE x \in S /\ aliases[x] = None
    BY <1>t, <2>3, <2>5, SeenAreIds DEF Tracked
  <2> QED
    BY <1>2, <2>4, <2>5
<1>5. RowsOfRevisions'
  <2>1. \A s \in Ids : Len(revisions'[s]) <= MaxSequence
    BY <1>1 DEF RevisionsGrow
  <2>2. ASSUME NEW s \in Ids, NEW c \in Channels, NEW n \in Numbers,
               rows'[s][c][n] # "absent"
        PROVE  n <= Len(revisions'[s])
    <3>1. /\ Len(revisions[s]) <= Len(revisions'[s]) /\ Len(revisions[s]) \in Nat
          /\ Len(revisions'[s]) \in Nat /\ n \in Nat
      BY <1>t, <1>1, LenProperties DEF RevisionsGrow, Typed, Numbers
    <3>2. CASE n = Len(revisions'[s])
      BY <3>1, <3>2
    <3>3. CASE n # Len(revisions'[s])
      <4>1. rows[s][c][n] # "absent"
        BY <1>1, <2>2, <3>3 DEF RowsMove
      <4>2. n <= Len(revisions[s])
        BY <1>t, <4>1 DEF RowsOfRevisions
      <4> QED
        BY <3>1, <4>2
    <3> QED
      BY <3>2, <3>3
  <2>3. ASSUME NEW s \in Ids, NEW c \in Channels, baselines'[<<s, c>>] # 0
        PROVE  revisions'[s] # <<>>
    <3>1. CASE <<s, c>> \in Held(S, staged)
      <4>1. s \in Seen(S)
        BY <1>1, <3>1 DEF RowsMove, Held
      <4> QED
        BY <1>t, <4>1, RecordTracks DEF Tracked
    <3>2. CASE <<s, c>> \notin Held(S, staged)
      <4>1. baselines[<<s, c>>] # 0
        BY <1>1, <2>3, <3>2 DEF HoldsSettle
      <4>2. Tracked(s)
        BY <1>t, <4>1 DEF RowsOfRevisions
      <4> QED
        BY <1>t, <4>2, RecordTracks DEF Tracked
    <3> QED
      BY <3>1, <3>2
  <2> QED
    BY <2>1, <2>2, <2>3 DEF RowsOfRevisions, Tracked
<1>6. adopted' \subseteq Ids \X Channels \X Numbers
  <2>1. ASSUME NEW b \in Held(S, staged)
        PROVE  <<b[1], b[2], Len(revisions'[b[1]])>> \in Ids \X Channels \X Numbers
    <3>1. b[1] \in Seen(S) /\ b[2] \in Channels /\ Seen(S) \subseteq Ids
      BY <1>t, <1>1, SeenAreIds DEF Held, RowsMove
    <3>2. Len(revisions'[b[1]]) \in Numbers
      BY <1>1, <3>1 DEF RevisionsGrow
    <3> QED
      BY <3>1, <3>2
  <2> QED
    BY <1>t, <1>1, <2>1 DEF HoldsSettle
<1>7. /\ holds' \subseteq Ids \X Channels
      /\ enabled' \in BOOLEAN
  <2>1. enabled' \in BOOLEAN
    BY DEF Recorded
  <2> QED
    BY <1>t, <1>1, <2>1, HoldsStay DEF HoldsSettle
<1>8. /\ revisions' \in [Ids -> Seq(Materials)]
      /\ rows' \in [Ids -> [Channels -> [Numbers -> RowStatus]]]
      /\ baselines' \in [Ids \X Channels -> 0..MaxSequence]
      /\ mirrored' = mirrored /\ unmirrored' = unmirrored
  BY <1>1 DEF RevisionsGrow, RowsMove, HoldsSettle, Recorded
<1> QED
  BY <1>t, <1>3, <1>4, <1>5, <1>6, <1>7, <1>8 DEF CutoverTypeOK

\* What was delivered keeps its receipts under every alias.
LEMMA RecordMirrors ==
    ASSUME CutoverInv, NEW S \in SUBSET NewIds, NEW staged, Recorded(S, staged)
    PROVE  RollbackSees'
<1>t. Typed /\ RowsOfRevisions /\ RollbackSees
  BY DEF CutoverInv, CutoverTypeOK, Typed
<1> SUFFICES ASSUME NEW s \in Ids, NEW c \in Channels, NEW n \in Numbers,
                    rows'[s][c][n] = "accepted", <<s, c, n>> \notin adopted',
                    NEW i \in ({s} \cup AliasesOf(s)') \ unmirrored'
             PROVE  <<i, c>> \in mirrored'
  BY DEF RollbackSees
<1>1. HoldsSettle(S, staged) /\ RowsMove(S, staged)
      /\ mirrored' = mirrored /\ unmirrored' = unmirrored /\ aliases' = Linked(S)
  BY DEF Recorded
<1>2. rows[s][c][n] = "accepted" /\ <<s, c, n>> \notin adopted
  <2>1. ~(<<s, c>> \in Held(S, staged) /\ n = Len(revisions'[s]))
    <3> SUFFICES ASSUME <<s, c>> \in Held(S, staged), n = Len(revisions'[s]) PROVE FALSE
      OBVIOUS
    <3> DEFINE b == <<s, c>>
    <3>1. b \in Held(S, staged) /\ <<b[1], b[2], Len(revisions'[b[1]])>> = <<s, c, n>>
      OBVIOUS
    <3> QED
      BY <1>1, <3>1 DEF HoldsSettle
  <2>2. rows[s][c][n] = "accepted"
    BY <1>1, <2>1 DEF RowsMove
  <2> QED
    BY <1>1, <2>2 DEF HoldsSettle
<1>3. Tracked(s)
  <2>1. n <= Len(revisions[s]) /\ n >= 1
    BY <1>t, <1>2 DEF RowsOfRevisions, Numbers
  <2>2. Len(revisions[s]) # 0
    BY <2>1 DEF Numbers
  <2> QED
    BY <2>2, EmptySeq DEF Tracked
<1>4. i \in ({s} \cup AliasesOf(s)) \ unmirrored
  <2>1. CASE i = s
    BY <1>1, <2>1
  <2>2. CASE i # s
    <3>1. i \in Ids /\ Linked(S)[i] = s
      BY <1>1, <2>2 DEF AliasesOf
    <3>2. s # None
      BY CutoverAssumption
    <3>3. Linked(S)[i] # aliases[i] => FALSE
      BY <1>3, <3>1, <3>2, LinkKeeps, LinkTarget
    <3> QED
      BY <1>1, <3>1, <3>3 DEF AliasesOf
  <2> QED
    BY <2>1, <2>2
<1> QED
  BY <1>t, <1>1, <1>2, <1>4 DEF RollbackSees

\* A step that adds no revision, and no row where there was none, keeps what
\* FirstOccurrenceAdopted and PostingsHeld say, provided that no hold is lost.
LEMMA PostingsRest ==
    ASSUME PostingsHeld, FirstOccurrenceAdopted, revisions' = revisions,
           holds \subseteq holds', adopted' = adopted,
           \A i \in Ids : aliases[i] # None => aliases'[i] = aliases[i],
           \A s \in Ids, c \in Channels, n \in Numbers :
              /\ rows'[s][c][n] = "absent" <=> rows[s][c][n] = "absent"
              /\ rows'[s][c][n] = "accepted" => rows[s][c][n] \in {"pending", "accepted"}
              /\ rows'[s][c][n] = "pending" => rows[s][c][n] = "pending"
    PROVE  PostingsHeld' /\ FirstOccurrenceAdopted'
<1>a. NewIds \subseteq Ids /\ OldReceipts \subseteq Ids \X Channels
  BY CutoverAssumption
<1>1. \A h \in OldReceipts, s \in NewIds : About(h, s)' => About(h, s)
  BY <1>a DEF About, Tracked
<1>2. PostingsHeld'
  <2> SUFFICES ASSUME NEW h \in OldReceipts, NEW s \in NewIds, About(h, s)', Tracked(s)',
                      \A n \in Numbers : rows'[s][h[2]][n] = "absent"
               PROVE  <<s, h[2]>> \in holds'
    BY DEF PostingsHeld
  <2>1. s \in Ids /\ h[2] \in Channels
    BY <1>a
  <2>2. \A n \in Numbers : rows[s][h[2]][n] = "absent"
    BY <2>1
  <2>3. About(h, s) /\ Tracked(s)
    BY <1>1 DEF Tracked
  <2> QED
    BY <2>2, <2>3 DEF PostingsHeld
<1>3. FirstOccurrenceAdopted'
  <2> SUFFICES ASSUME NEW h \in OldReceipts, NEW s \in NewIds, NEW n \in Numbers,
                      About(h, s)', rows'[s][h[2]][n] \in {"pending", "accepted"},
                      \A m \in Numbers : m < n => rows'[s][h[2]][m] = "absent"
               PROVE  <<s, h[2], n>> \in adopted
    BY DEF FirstOccurrenceAdopted, About, Tracked
  <2>1. s \in Ids /\ h[2] \in Channels
    BY <1>a
  <2>2. \A m \in Numbers : m < n => rows[s][h[2]][m] = "absent"
    BY <2>1
  <2>3. rows[s][h[2]][n] \in {"pending", "accepted"}
    BY <2>1
  <2>4. About(h, s)
    BY <1>1
  <2> QED
    BY <2>2, <2>3, <2>4 DEF FirstOccurrenceAdopted, About
<1> QED
  BY <1>2, <1>3

\* A step that adopts nothing, and adds no hold where there is a baseline, keeps
\* what was adopted settled.
LEMMA SettledRest ==
    ASSUME AdoptedSettled, SuppressedOnce, revisions' = revisions, adopted' = adopted,
           \A s \in Ids, c \in Channels :
              /\ baselines[<<s, c>>] # 0 => baselines'[<<s, c>>] # 0
              /\ baselines[<<s, c>>] # 0 /\ <<s, c>> \in holds' => <<s, c>> \in holds
    PROVE  AdoptedSettled' /\ SuppressedOnce'
<1>1. AdoptedSettled'
  BY DEF AdoptedSettled, Alone
<1>2. SuppressedOnce'
  BY DEF SuppressedOnce, Once
<1> QED
  BY <1>1, <1>2

\* Importing holds every receipt of an untracked ID, and none twice.
LEMMA EnableKeeps ==
    ASSUME CutoverInv, Enable
    PROVE  CutoverInv'
<1>t. /\ Typed /\ RowsOfRevisions /\ AliasesTracked /\ AdoptedSettled /\ PostingsHeld
      /\ FirstOccurrenceAdopted /\ SuppressedOnce /\ RollbackSees /\ CutoverTypeOK
  BY DEF CutoverInv, CutoverTypeOK, Typed
<1>a. OldReceipts \subseteq Ids \X Channels /\ None \notin Ids
  BY CutoverAssumption
<1>1. /\ enabled' = TRUE /\ holds' = holds \cup Imported /\ unmirrored' = {}
      /\ aliases' = aliases /\ revisions' = revisions /\ rows' = rows
      /\ baselines' = baselines /\ adopted' = adopted
      /\ mirrored' = mirrored \cup
           UNION {Mirrors(b[1], b[2]) : b \in {x \in Ids \X Channels : Accepted(x[1], x[2])}}
  BY DEF Enable
<1>2. \A h \in OldReceipts : Subject(h[1]) \in Ids /\ h[1] \in Ids /\ h[2] \in Channels
  BY <1>t, <1>a DEF Subject, SubjectIn, Typed
<1>3. /\ Imported \subseteq Ids \X Channels
      /\ \A g \in Imported : baselines[g] = 0
      /\ \A h \in OldReceipts : baselines[<<Subject(h[1]), h[2]>>] = 0
           => <<Subject(h[1]), h[2]>> \in Imported
  BY <1>2 DEF Imported
<1>4. \A s \in Ids, c \in Channels : Mirrors(s, c) \subseteq Ids \X Channels
  BY DEF Mirrors, AliasesOf
<1>5. CutoverTypeOK'
  <2>1. mirrored' \subseteq Ids \X Channels
    BY <1>t, <1>1, <1>4 DEF CutoverTypeOK
  <2> QED
    BY <1>t, <1>1, <1>3, <2>1 DEF CutoverTypeOK
<1>6. RowsOfRevisions' /\ AliasesTracked'
  BY <1>t, <1>1 DEF RowsOfRevisions, AliasesTracked, Tracked
<1>7. ReceiptsHeld'
  <2> SUFFICES ASSUME NEW h \in OldReceipts, aliases[h[1]] = None, ~Tracked(h[1])
               PROVE  h \in holds'
    BY <1>1 DEF ReceiptsHeld, Tracked
  <2>1. h = <<h[1], h[2]>> /\ Subject(h[1]) = h[1]
    BY <1>a DEF Subject, SubjectIn
  <2>2. baselines[<<h[1], h[2]>>] = 0
    BY <1>t, <1>2 DEF RowsOfRevisions
  <2> QED
    BY <1>1, <1>3, <2>1, <2>2
<1>8. PostingsHeld' /\ FirstOccurrenceAdopted'
  BY <1>t, <1>1, PostingsRest
<1>9. AdoptedSettled' /\ SuppressedOnce'
  <2>1. \A s \in Ids, c \in Channels :
          baselines[<<s, c>>] # 0 /\ <<s, c>> \in holds' => <<s, c>> \in holds
    BY <1>1, <1>3
  <2> QED
    BY <1>t, <1>1, <2>1, SettledRest
<1>10. RollbackSees'
  <2> SUFFICES ASSUME NEW s \in Ids, NEW c \in Channels, NEW n \in Numbers,
                      rows[s][c][n] = "accepted", NEW i \in {s} \cup AliasesOf(s)
               PROVE  <<i, c>> \in mirrored'
    BY <1>1 DEF RollbackSees, AliasesOf
  <2> DEFINE b == <<s, c>>
  <2>1. b \in {x \in Ids \X Channels : Accepted(x[1], x[2])}
    BY DEF Accepted
  <2>2. <<i, c>> \in Mirrors(b[1], b[2])
    BY DEF Mirrors
  <2> HIDE DEF b
  <2> QED
    BY <1>1, <2>1, <2>2
<1> QED
  BY <1>5, <1>6, <1>7, <1>8, <1>9, <1>10 DEF CutoverInv

\* What is delivered is mirrored under every alias.
LEMMA DeliverKeeps ==
    ASSUME CutoverInv, NEW s \in Ids, NEW c \in Channels, Deliver(s, c)
    PROVE  CutoverInv'
<1>t. /\ Typed /\ RowsOfRevisions /\ AliasesTracked /\ AdoptedSettled /\ PostingsHeld
      /\ ReceiptsHeld
      /\ FirstOccurrenceAdopted /\ SuppressedOnce /\ RollbackSees /\ CutoverTypeOK
  BY DEF CutoverInv, CutoverTypeOK, Typed
<1> DEFINE k == Len(revisions[s])
           b == <<s, c>>
<1>1. /\ k > 0 /\ rows[s][c][k] = "pending"
      /\ rows' = [rows EXCEPT ![s][c][k] = "accepted"]
      /\ baselines' = [baselines EXCEPT ![b] = k]
      /\ mirrored' = mirrored \cup Mirrors(s, c)
      /\ enabled' = enabled /\ aliases' = aliases /\ holds' = holds
      /\ revisions' = revisions /\ unmirrored' = unmirrored /\ adopted' = adopted
  BY DEF Deliver
<1>2. k \in Numbers /\ k \in 0..MaxSequence /\ k # 0 /\ k <= Len(revisions[s])
      /\ revisions[s] # <<>> /\ b \in Ids \X Channels
  <2>1. k \in Nat /\ k <= MaxSequence /\ MaxSequence \in Nat
    BY <1>t, CutoverAssumption, LenProperties DEF Typed, RowsOfRevisions
  <2>2. revisions[s] # <<>>
    BY <1>1, <2>1, EmptySeq
  <2> QED
    BY <1>1, <2>1, <2>2 DEF Numbers
<1> HIDE DEF k
<1>3. /\ rows' \in [Ids -> [Channels -> [Numbers -> RowStatus]]]
      /\ \A u \in Ids, d \in Channels, n \in Numbers :
           rows'[u][d][n] = IF u = s /\ d = c /\ n = k THEN "accepted" ELSE rows[u][d][n]
  BY <1>t, <1>1, <1>2 DEF Typed, RowStatus
<1>4. /\ baselines' \in [Ids \X Channels -> 0..MaxSequence]
      /\ \A g \in Ids \X Channels : baselines'[g] = IF g = b THEN k ELSE baselines[g]
  <2> HIDE DEF b
  <2> QED
    BY <1>t, <1>1, <1>2 DEF Typed
<1>5. CutoverTypeOK'
  <2>1. Mirrors(s, c) \subseteq Ids \X Channels
    BY DEF Mirrors, AliasesOf
  <2> QED
    BY <1>t, <1>1, <1>3, <1>4, <2>1 DEF CutoverTypeOK
<1>6. RowsOfRevisions'
  <2>1. \A u \in Ids, d \in Channels, n \in Numbers :
          rows'[u][d][n] # "absent" => n <= Len(revisions[u])
    <3> TAKE u \in Ids, d \in Channels, n \in Numbers
    <3> HAVE rows'[u][d][n] # "absent"
    <3>1. CASE u = s /\ d = c /\ n = k
      BY <1>2, <3>1
    <3>2. CASE ~(u = s /\ d = c /\ n = k)
      <4>1. rows[u][d][n] # "absent"
        BY <1>3, <3>2
      <4> QED
        BY <1>t, <4>1 DEF RowsOfRevisions
    <3> QED
      BY <3>1, <3>2
  <2>2. \A u \in Ids, d \in Channels : baselines'[<<u, d>>] # 0 => revisions[u] # <<>>
    BY <1>t, <1>2, <1>4 DEF RowsOfRevisions, Tracked
  <2>3. \A u \in Ids : Len(revisions[u]) <= MaxSequence
    BY <1>t DEF RowsOfRevisions
  <2> QED
    BY <1>1, <2>1, <2>2, <2>3 DEF RowsOfRevisions, Tracked
<1>7. AliasesTracked' /\ ReceiptsHeld'
  BY <1>t, <1>1 DEF AliasesTracked, ReceiptsHeld, Tracked
<1>8. PostingsHeld' /\ FirstOccurrenceAdopted'
  <2>1. \A u \in Ids, d \in Channels, n \in Numbers :
          /\ rows'[u][d][n] = "absent" <=> rows[u][d][n] = "absent"
          /\ rows'[u][d][n] = "accepted" => rows[u][d][n] \in {"pending", "accepted"}
          /\ rows'[u][d][n] = "pending" => rows[u][d][n] = "pending"
    BY <1>1, <1>3
  <2> QED
    BY <1>t, <1>1, <2>1, PostingsRest
<1>9. AdoptedSettled' /\ SuppressedOnce'
  <2>1. \A u \in Ids, d \in Channels :
          /\ baselines[<<u, d>>] # 0 => baselines'[<<u, d>>] # 0
          /\ baselines[<<u, d>>] # 0 /\ <<u, d>> \in holds' => <<u, d>> \in holds
    BY <1>1, <1>2, <1>4
  <2> QED
    BY <1>t, <1>1, <2>1, SettledRest
<1>10. RollbackSees'
  <2> SUFFICES ASSUME NEW u \in Ids, NEW d \in Channels, NEW n \in Numbers,
                      rows'[u][d][n] = "accepted", <<u, d, n>> \notin adopted,
                      NEW i \in ({u} \cup AliasesOf(u)) \ unmirrored
               PROVE  <<i, d>> \in mirrored'
    BY <1>1 DEF RollbackSees, AliasesOf
  <2>1. CASE u = s /\ d = c /\ n = k
    <3>1. <<i, d>> \in Mirrors(s, c)
      BY <2>1 DEF Mirrors
    <3> QED
      BY <1>1, <3>1
  <2>2. CASE ~(u = s /\ d = c /\ n = k)
    <3>1. rows[u][d][n] = "accepted"
      BY <1>3, <2>2
    <3>2. <<i, d>> \in mirrored
      BY <1>t, <3>1 DEF RollbackSees
    <3> QED
      BY <1>1, <3>2
  <2> QED
    BY <2>1, <2>2
<1> QED
  BY <1>5, <1>6, <1>7, <1>8, <1>9, <1>10 DEF CutoverInv

\* A reviewer's alias is of an ID that nothing was sent to.
LEMMA RegisterKeeps ==
    ASSUME CutoverInv, NEW old \in Ids, NEW new \in Ids, RegisterAlias(old, new)
    PROVE  CutoverInv'
<1>t. /\ Typed /\ RowsOfRevisions /\ AliasesTracked /\ AdoptedSettled /\ PostingsHeld
      /\ ReceiptsHeld
      /\ FirstOccurrenceAdopted /\ SuppressedOnce /\ RollbackSees /\ CutoverTypeOK
  BY DEF CutoverInv, CutoverTypeOK, Typed
<1>a. None \notin Ids
  BY CutoverAssumption
<1>s. Subject(old) \in Ids
  BY <1>t DEF Subject, SubjectIn, Typed
<1> PICK x \in Ids : x = Subject(old)
  BY <1>s
<1>1. /\ Tracked(x) /\ ~Tracked(new) /\ aliases[new] = None
      /\ aliases' = [aliases EXCEPT ![new] = x]
      /\ unmirrored' = unmirrored \cup {new}
      /\ enabled' = enabled /\ holds' = holds /\ revisions' = revisions /\ rows' = rows
      /\ baselines' = baselines /\ mirrored' = mirrored /\ adopted' = adopted
  BY DEF RegisterAlias
<1>2. \A i \in Ids : aliases'[i] = IF i = new THEN x ELSE aliases[i]
  BY <1>t, <1>1 DEF Typed
<1>3. CutoverTypeOK'
  BY <1>t, <1>1 DEF CutoverTypeOK
<1>4. RowsOfRevisions' /\ AliasesTracked'
  BY <1>t, <1>1, <1>2 DEF RowsOfRevisions, AliasesTracked, Tracked
<1>5. ReceiptsHeld'
  <2>1. \A h \in OldReceipts : h[1] \in Ids
    BY CutoverAssumption
  <2> QED
    BY <1>t, <1>a, <1>1, <1>2, <2>1 DEF ReceiptsHeld, Tracked
<1>6. PostingsHeld' /\ FirstOccurrenceAdopted'
  <2>1. \A i \in Ids : aliases[i] # None => aliases'[i] = aliases[i]
    BY <1>1, <1>2
  <2> QED
    BY <1>t, <1>1, <2>1, PostingsRest
<1>7. AdoptedSettled' /\ SuppressedOnce'
  BY <1>t, <1>1, SettledRest
<1>8. RollbackSees'
  <2>1. \A u \in Ids : AliasesOf(u)' \subseteq AliasesOf(u) \cup {new}
    BY <1>2 DEF AliasesOf
  <2> QED
    BY <1>t, <1>1, <2>1 DEF RollbackSees
<1> QED
  BY <1>3, <1>4, <1>5, <1>6, <1>7, <1>8 DEF CutoverInv

\* A run that fails is over, and has changed nothing else.
LEMMA RefusedKeeps ==
    ASSUME CutoverInv, enabled' \in {enabled, FALSE},
           UNCHANGED <<aliases, holds, revisions, rows, baselines, mirrored,
                       unmirrored, adopted>>
    PROVE  CutoverInv'
<1>t. /\ RowsOfRevisions /\ AliasesTracked /\ AdoptedSettled /\ PostingsHeld /\ ReceiptsHeld
      /\ FirstOccurrenceAdopted /\ SuppressedOnce /\ RollbackSees /\ CutoverTypeOK
  BY DEF CutoverInv
<1>1. CutoverTypeOK'
  BY <1>t DEF CutoverTypeOK
<1>2. RowsOfRevisions' /\ AliasesTracked' /\ ReceiptsHeld'
  <2>1. RowsOfRevisions' /\ AliasesTracked'
    BY <1>t DEF RowsOfRevisions, AliasesTracked, Tracked
  <2>2. ReceiptsHeld'
    BY <1>t DEF ReceiptsHeld, Tracked
  <2> QED
    BY <2>1, <2>2
<1>3. PostingsHeld' /\ FirstOccurrenceAdopted'
  BY <1>t, PostingsRest
<1>4. AdoptedSettled' /\ SuppressedOnce'
  BY <1>t, SettledRest
<1>5. RollbackSees'
  BY <1>t DEF RollbackSees, AliasesOf
<1> QED
  BY <1>1, <1>2, <1>3, <1>4, <1>5 DEF CutoverInv

-----------------------------------------------------------------------------
(* The theorems.                                                           *)

\* At the cutover nothing is enabled, held, tracked or sent.
LEMMA CutoverStart == Init => CutoverInv
<1> SUFFICES ASSUME Init PROVE CutoverInv
  OBVIOUS
<1>1. CutoverTypeOK
  <2>1. /\ aliases \in [Ids -> Ids \cup {None}]
        /\ revisions \in [Ids -> Seq(Materials)]
        /\ baselines \in [Ids \X Channels -> 0..MaxSequence]
    BY CutoverAssumption DEF Init
  <2>2. rows \in [Ids -> [Channels -> [Numbers -> RowStatus]]]
    BY DEF Init, RowStatus
  <2> QED
    BY <2>1, <2>2 DEF Init, CutoverTypeOK
<1>2. RowsOfRevisions
  BY CutoverAssumption, EmptySeq DEF Init, RowsOfRevisions
<1>3. AliasesTracked /\ AdoptedSettled /\ ReceiptsHeld /\ RollbackSees /\ SuppressedOnce
  BY DEF Init, AliasesTracked, AdoptedSettled, ReceiptsHeld, RollbackSees, SuppressedOnce, Once
<1>4. PostingsHeld
  BY CutoverAssumption DEF Init, PostingsHeld, Tracked
<1>5. FirstOccurrenceAdopted
  BY CutoverAssumption DEF Init, FirstOccurrenceAdopted
<1> QED
  BY <1>1, <1>2, <1>3, <1>4, <1>5 DEF CutoverInv

\* One case per action.
LEMMA CutoverSteps == CutoverInv /\ [Next]_vars => CutoverInv'
<1> SUFFICES ASSUME CutoverInv, [Next]_vars PROVE CutoverInv'
  OBVIOUS
<1>1. CASE Enable
  BY <1>1, EnableKeeps
<1>2. CASE RecordSome
  <2> PICK S \in SUBSET NewIds :
             \E obs \in [S -> Materials], chosen \in SUBSET (Seen(S) \X Channels) :
               Record(obs, chosen)
    BY <1>2 DEF RecordSome
  <2> PICK obs \in [S -> Materials], chosen \in SUBSET (Seen(S) \X Channels) :
             Record(obs, chosen)
    OBVIOUS
  <2>1. Typed /\ RowsOfRevisions
    BY DEF CutoverInv, CutoverTypeOK, Typed
  <2> PICK staged : Recorded(S, staged)
    BY <2>1, RecordDoes
  <2>2. ReceiptsHeld' /\ PostingsHeld' /\ FirstOccurrenceAdopted'
    BY RecordHolds
  <2>3. AdoptedSettled' /\ SuppressedOnce'
    BY RecordSettles
  <2>4. CutoverTypeOK' /\ RowsOfRevisions' /\ AliasesTracked'
    BY RecordTables
  <2>5. RollbackSees'
    BY RecordMirrors
  <2> QED
    BY <2>2, <2>3, <2>4, <2>5 DEF CutoverInv
<1>3. ASSUME NEW S \in SUBSET NewIds, RecordRefused(S) PROVE CutoverInv'
  BY <1>3, RefusedKeeps DEF RecordRefused
<1>4. ASSUME NEW s \in Ids, NEW c \in Channels, Deliver(s, c) PROVE CutoverInv'
  BY <1>4, DeliverKeeps
<1>5. ASSUME NEW old \in Ids, NEW new \in Ids, RegisterAlias(old, new) PROVE CutoverInv'
  BY <1>5, RegisterKeeps
<1>6. CASE UNCHANGED vars
  BY <1>6, RefusedKeeps DEF vars
<1> QED
  BY <1>1, <1>2, <1>3, <1>4, <1>5, <1>6 DEF Next

\* The invariant of the cutover: where every receipt of V4.2 is on its way to
\* the posting it is about.
THEOREM CutoverInvariant == Spec => []CutoverInv
<1> QED
  BY CutoverStart, CutoverSteps, PTL DEF Spec

\* What V4.2 sent is not sent again under a new ID of the posting: the first row
\* on the channel is adopted (record_delivery_run, adopt_legacy_baselines).
THEOREM ReceiptsReachPostings == Spec => []FirstOccurrenceAdopted
<1>1. CutoverInv => FirstOccurrenceAdopted
  BY DEF CutoverInv
<1> QED
  BY <1>1, CutoverInvariant, PTL

\* A receipt of V4.2 suppresses a posting with a URL of its own once, and its
\* later changes are sent (import_legacy, register_legacy_crosswalk).
THEOREM ReceiptsAreSpent == Spec => []SuppressedOnce
<1>1. CutoverInv => SuppressedOnce
  BY DEF CutoverInv
<1> QED
  BY <1>1, CutoverInvariant, PTL

\* A rollback finds what was delivered under every ID the posting goes by
\* (_write_rollback_receipt, backfill_rollback_receipts).
THEOREM RollbackIsSafe == Spec => []RollbackSees
<1>1. CutoverInv => RollbackSees
  BY DEF CutoverInv
<1> QED
  BY <1>1, CutoverInvariant, PTL
=============================================================================
