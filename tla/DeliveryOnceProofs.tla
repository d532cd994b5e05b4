-------------------------- MODULE DeliveryOnceProofs ---------------------------
(***************************************************************************)
(* Nothing is delivered twice and nothing is lost, for every value of the  *)
(* constants: RecordInv, the part of the inductive invariant that relates  *)
(* the tables to what the provider took.  Every step is of one of a few    *)
(* kinds: a run is staged, old receipts are imported, rows are frozen into *)
(* a digest, untried rows are reissued, the provider takes something       *)
(* (Takes), or rows proceed and some of them are accepted (Proceeds).      *)
(***************************************************************************)
EXTENDS DeliveryProofs

-----------------------------------------------------------------------------
(* Rows.                                                                   *)

\* The fields of a key, and what it shares with another of its revision.
LEMMA KeyTypes ==
    ASSUME NEW k \in IntentKeys
    PROVE  /\ k.subject \in Streams /\ k.dest \in Dests
           /\ k.sequence \in Nat /\ 1 <= k.sequence
           /\ k.generation \in Nat /\ 1 <= k.generation
           /\ <<k.subject, k.dest>> \in Streams \X Dests
  BY DeliveryAssumption DEF IntentKeys

\* Two rows of one revision: one of them was replaced, or they are the same.
LEMMA OneReplaced ==
    ASSUME NEW k \in IntentKeys, NEW l \in IntentKeys, SameRevision(k, l),
           intents[k].status # "absent", intents[l].status # "absent"
    PROVE  k = l \/ Replaced(k) \/ Replaced(l)
<1>1. /\ k.generation \in Nat /\ l.generation \in Nat
      /\ k.generation = l.generation => k = l
  BY KeyFields
<1>2. SameRevision(l, k)
  BY DEF SameRevision, SameStream
<1> QED
  BY <1>1, <1>2 DEF Replaced

\* A member of a digest, and a row the provider took, exist.
LEMMA TouchedExists ==
    ASSUME IInv, NEW k \in IntentKeys, Touched(k) \/ Reserved(k)
    PROVE  intents[k].status # "absent"
<1>1. CASE Reserved(k)
  BY <1>1, MembersExist DEF Reserved, Members, IInv, ReservationInv, MembersFollow
<1>2. CASE Touched(k) /\ ~Reserved(k)
  <2>1. mailed[k] > 0
    BY <1>2 DEF Touched, Reserved, Members
  <2> QED
    BY <2>1 DEF IInv, MailInv, MailedState
<1> QED
  BY <1>1, <1>2

\* Lengths of the revisions.
LEMMA CurrentIsNat ==
    ASSUME TypeOK, NEW s \in Streams
    PROVE  CurrentRevision(s) \in Nat
  BY DEF TypeOK, CurrentRevision

\* Nothing newer than a free row, nor anything else of its revision, arrived or
\* was recorded at its destination.
LEMMA FreeIsNewest ==
    ASSUME IInv, NEW k \in IntentKeys, NEW l \in IntentKeys, SameStream(k, l),
           intents[k].status = "pending", ~Reserved(k)
    PROVE  /\ baselines[k.subject, k.dest] < k.sequence
           /\ Touched(l) /\ l # k => l.sequence < k.sequence
<1> DEFINE b == <<k.subject, k.dest>>
<1>1. IsCurrent(k) /\ CurrentRevision(k.subject) \in Nat
  BY CurrentIsNat, KeyTypes
     DEF IInv, RecordInv, FreeIsCurrent, ReservationInv
<1>2. ASSUME NEW m \in IntentKeys, SameStream(k, m), intents[m].status # "absent"
      PROVE  /\ m.sequence \in Nat /\ m.sequence <= k.sequence
             /\ m.sequence = k.sequence /\ m # k => Replaced(m)
  <2>1. m.sequence <= k.sequence
    BY <1>1, <1>2 DEF IInv, RecordInv, RowsExist, SameStream, IsCurrent
  <2>2. ASSUME m.sequence = k.sequence, m # k PROVE Replaced(m)
    <3>1. SameRevision(k, m)
      BY <1>2, <2>2 DEF SameRevision
    <3>2. Replaced(k) \/ Replaced(m)
      BY <1>2, <2>2, <3>1, OneReplaced
    <3>3. ~Replaced(k)
      BY DEF IInv, RecordInv, ReplacedIsUnsent
    <3> QED
      BY <3>2, <3>3
  <2> QED
    BY <2>1, <2>2, KeyTypes
<1>3. baselines[b] < k.sequence
  <2>1. b \in Streams \X Dests /\ baselines[b] \in Nat
    BY KeyTypes DEF IInv, ReservationInv, TypeOK
  <2>2. CASE baselines[b] = 0
    BY <2>2, KeyTypes
  <2>3. CASE baselines[b] > 0
    <3>1. PICK m \in IntentKeys : /\ m.subject = b[1] /\ m.dest = b[2]
                                  /\ m.sequence = baselines[b]
                                  /\ intents[m].status = "accepted"
      BY <2>1, <2>3 DEF IInv, RecordInv, BaselineWasAccepted
    <3>2. SameStream(k, m)
      BY <3>1 DEF SameStream
    <3>3. ~Replaced(m)
      BY <3>1 DEF IInv, ReservationInv, ReplacedIsRetired
    <3>4. m # k
      BY <3>1
    <3> QED
      BY <1>2, <3>1, <3>2, <3>3, <3>4, KeyTypes
  <2> QED
    BY <2>1, <2>2, <2>3
<1>4. ASSUME Touched(l), l # k PROVE l.sequence < k.sequence
  <2>1. intents[l].status # "absent"
    BY <1>4, TouchedExists
  <2>2. ~Replaced(l)
    BY <1>4 DEF IInv, RecordInv, ReplacedIsUnsent
  <2>3. l.sequence \in Nat /\ l.sequence <= k.sequence /\ l.sequence # k.sequence
    BY <1>2, <1>4, <2>1, <2>2
  <2>4. k.sequence \in Nat
    BY KeyTypes
  <2> QED
    BY <2>3, <2>4
<1> QED
  BY <1>3, <1>4

-----------------------------------------------------------------------------
(* Rows proceed.                                                           *)

\* Rows keep existing, being held and being accepted; a free row was free or
\* is current.
RowMoves(k) ==
    LET old == intents[k]
        new == intents'[k]
    IN  /\ new.status = "absent" <=> old.status = "absent"
        /\ new.status = "legacy_hold" <=> old.status = "legacy_hold"
        /\ old.status = "accepted" => new = old
        /\ new.status \in {"absent", "legacy_hold"} => new.attempts = old.attempts
        /\ ~Reserved(k) =>
             /\ new.status \in {"pending", "leased"} =>
                  old.status \in {"pending", "leased"} \/ IsCurrent(k)
             /\ old.status = "superseded" => new.status = "superseded"

\* The provider took all of the row.
Delivered(k) ==
    \/ mailed[k] = 1
    \/ \E e \in EnvelopeIds : /\ k \in Members(e) /\ PartNumbers(e) # {}
                              /\ \A p \in PartNumbers(e) : posted[e][p] = 1

\* Rows proceed, those in K to their end: each was hot, was taken by the
\* provider, and becomes what its destination has.
Proceeds(K) ==
    /\ UNCHANGED <<revisions, legacy, mailed, posted>>
    /\ \A e \in EnvelopeIds : /\ Members(e)' = Members(e)
                              /\ PartNumbers(e)' = PartNumbers(e)
    /\ baselines' = Accept(K)
    /\ \A k \in IntentKeys :
         /\ RowMoves(k)
         /\ intents'[k].status = "accepted" => intents[k].status = "accepted" \/ k \in K
         /\ Hot(k)' => Hot(k) \/ (K = {} /\ intents[k].status = "pending" /\ ~Reserved(k))
    /\ \A k \in K : /\ intents'[k].status = "accepted"
                    /\ Hot(k) /\ ~Hot(k)' /\ Delivered(k)

\* A baseline is what it was, or a newer accepted row's.
LEMMA AcceptValue ==
    ASSUME TypeOK, NEW K \in SUBSET IntentKeys, NEW b \in Streams \X Dests
    PROVE  /\ Accept(K)[b] \in Nat /\ baselines[b] \in Nat
           /\ \/ Accept(K)[b] = baselines[b]
              \/ \E k \in K : /\ k.subject = b[1] /\ k.dest = b[2]
                              /\ k.sequence > baselines[b]
                              /\ Accept(K)[b] = k.sequence
<1> DEFINE newer == {k \in K : /\ k.subject = b[1] /\ k.dest = b[2]
                               /\ k.sequence > baselines[b]}
<1>1. Accept(K)[b] = IF newer = {} THEN baselines[b]
                     ELSE (CHOOSE k \in newer : TRUE).sequence
  BY DEF Accept
<1>2. newer # {} => (CHOOSE k \in newer : TRUE) \in newer
  OBVIOUS
<1>3. Accept(K)[b] \in Nat /\ baselines[b] \in Nat
  BY AcceptType DEF TypeOK
<1> HIDE DEF newer
<1>4. CASE newer = {}
  BY <1>1, <1>3, <1>4
<1>5. CASE newer # {}
  <2>1. PICK k \in newer : Accept(K)[b] = k.sequence
    BY <1>1, <1>2, <1>5
  <2>2. /\ k \in K /\ k.subject = b[1] /\ k.dest = b[2]
        /\ k.sequence > baselines[b]
    BY DEF newer
  <2> QED
    BY <1>3, <2>1, <2>2
<1> QED
  BY <1>4, <1>5

\* With nothing accepted the baselines stay.
LEMMA AcceptNothing ==
    ASSUME TypeOK PROVE Accept({}) = baselines
<1>1. \A b \in Streams \X Dests : Accept({})[b] = baselines[b]
  BY AcceptValue
<1>2. Accept({}) \in [Streams \X Dests -> Nat]
  BY AcceptType
<1> QED
  BY <1>1, <1>2 DEF TypeOK

\* A step that proceeds keeps what is recorded.
LEMMA ProceedsKeep ==
    ASSUME IInv, NEW K \in SUBSET IntentKeys, Proceeds(K)
    PROVE  RecordInv'
<1>t. /\ TypeOK /\ OneHot
      /\ RowsExist /\ MembersDistinct /\ FreeIsCurrent /\ ReplacedIsUnsent
      /\ HotIsNewest /\ BaselineWasAccepted /\ AcceptedWasDelivered
      /\ LegacyState /\ StatusFollowsDelivery /\ (OnePerChannel => FirstIsHeld)
  BY DEF IInv, RecordInv, ReservationInv
<1>1. /\ revisions' = revisions /\ legacy' = legacy
      /\ mailed' = mailed /\ posted' = posted
      /\ \A e \in EnvelopeIds : /\ Members(e)' = Members(e)
                                /\ PartNumbers(e)' = PartNumbers(e)
      /\ \A k \in IntentKeys : RowMoves(k)
  BY DEF Proceeds
<1>2. /\ \A k \in IntentKeys : Reserved(k)' <=> Reserved(k)
      /\ \A k \in IntentKeys : Touched(k)' <=> Touched(k)
      /\ \A k \in IntentKeys : IsCurrent(k)' <=> IsCurrent(k)
      /\ \A k \in IntentKeys : Hold(k)' = Hold(k)
      /\ \A s \in Streams : CurrentRevision(s)' = CurrentRevision(s)
  BY <1>1 DEF Reserved, Members, Touched, IsCurrent, CurrentRevision, Hold
<1>3. \A k \in IntentKeys :
        intents'[k].status = "absent" <=> intents[k].status = "absent"
  BY <1>1 DEF RowMoves
<1>4. \A k \in IntentKeys :
        intents[k].status = "accepted" => intents'[k] = intents[k]
  BY <1>1 DEF RowMoves
<1>5. RowsExist'
  BY <1>t, <1>1, <1>2, <1>3, KeyTypes DEF RowsExist, RowMoves
<1>6. MembersDistinct'
  BY <1>t, <1>1 DEF MembersDistinct, SameStream
<1>7. FreeIsCurrent'
  BY <1>t, <1>1, <1>2 DEF FreeIsCurrent, RowMoves
<1>8. ReplacedIsUnsent'
  <2>1. \A k \in IntentKeys : Replaced(k)' <=> Replaced(k)
    BY <1>3 DEF Replaced, SameRevision, SameStream
  <2> QED
    BY <1>t, <1>2, <2>1 DEF ReplacedIsUnsent
<1>9. \A b \in Streams \X Dests :
        /\ baselines'[b] \in Nat /\ baselines[b] \in Nat /\ baselines[b] <= baselines'[b]
        /\ \/ baselines'[b] = baselines[b]
           \/ \E k \in K : /\ k.subject = b[1] /\ k.dest = b[2]
                           /\ baselines'[b] = k.sequence
  BY <1>t, AcceptValue, KeyTypes DEF Proceeds
<1>10. HotIsNewest'
  <2> SUFFICES ASSUME NEW k \in IntentKeys, NEW l \in IntentKeys,
                      Hot(k)', SameStream(k, l)
               PROVE  /\ baselines'[k.subject, k.dest] < k.sequence
                      /\ Touched(l)' /\ l # k => l.sequence < k.sequence
    BY DEF HotIsNewest, SameStream
  <2>1. /\ baselines[k.subject, k.dest] < k.sequence
        /\ Touched(l) /\ l # k => l.sequence < k.sequence
    <3>1. CASE Hot(k)
      BY <1>t, <3>1 DEF HotIsNewest
    <3>2. CASE ~Hot(k)
      <4>1. intents[k].status = "pending" /\ ~Reserved(k)
        BY <3>2 DEF Proceeds
      <4> QED
        BY <4>1, FreeIsNewest
    <3> QED
      BY <3>1, <3>2
  <2> DEFINE b == <<k.subject, k.dest>>
  <2>2. baselines'[b] = baselines[b]
    <3>1. SUFFICES ASSUME NEW m \in K, m.subject = b[1], m.dest = b[2]
                   PROVE  FALSE
      BY <1>9, KeyTypes
    <3>2. Hot(m) /\ ~Hot(m)' /\ Hot(k)
      BY <3>1 DEF Proceeds
    <3>3. SameStream(k, m)
      BY <3>1 DEF SameStream
    <3>4. k = m
      BY <1>t, <3>2, <3>3 DEF OneHot
    <3> QED
      BY <3>2, <3>4
  <2> QED
    BY <1>2, <2>1, <2>2
<1>11. BaselineWasAccepted'
  <2> SUFFICES ASSUME NEW b \in Streams \X Dests, baselines'[b] > 0
               PROVE  \E k \in IntentKeys : /\ k.subject = b[1] /\ k.dest = b[2]
                                            /\ k.sequence = baselines'[b]
                                            /\ intents'[k].status = "accepted"
    BY DEF BaselineWasAccepted
  <2>1. CASE baselines'[b] = baselines[b]
    <3>1. PICK k \in IntentKeys : /\ k.subject = b[1] /\ k.dest = b[2]
                                  /\ k.sequence = baselines[b]
                                  /\ intents[k].status = "accepted"
      BY <1>t, <2>1 DEF BaselineWasAccepted
    <3> QED
      BY <1>4, <2>1, <3>1
  <2>2. CASE baselines'[b] # baselines[b]
    <3>1. PICK k \in K : /\ k.subject = b[1] /\ k.dest = b[2]
                         /\ baselines'[b] = k.sequence
      BY <1>9, <2>2
    <3>2. intents'[k].status = "accepted"
      BY DEF Proceeds
    <3> QED
      BY <3>1, <3>2
  <2> QED
    BY <2>1, <2>2
<1>12. AcceptedWasDelivered'
  <2> SUFFICES ASSUME NEW k \in IntentKeys, intents'[k].status = "accepted",
                      intents'[k].attempts > 0
               PROVE  \/ mailed[k] = 1
                      \/ \E e \in EnvelopeIds :
                           k \in Members(e) /\ \A p \in PartNumbers(e) : posted[e][p] = 1
    BY <1>1 DEF AcceptedWasDelivered
  <2>1. CASE intents[k].status = "accepted"
    BY <1>t, <1>4, <2>1 DEF AcceptedWasDelivered
  <2>2. CASE k \in K
    BY <2>2 DEF Proceeds, Delivered
  <2> QED
    BY <2>1, <2>2 DEF Proceeds
<1>13. LegacyState'
  <2>1. ASSUME NEW k \in IntentKeys, Hold(k) \in legacy
        PROVE  ~Reserved(k) /\ intents'[k].status \in {"absent", "legacy_hold", "superseded"}
    <3>1. ~Reserved(k) /\ intents[k].status \in {"absent", "legacy_hold", "superseded"}
      BY <1>t, <2>1 DEF LegacyState
    <3> QED
      BY <1>1, <3>1 DEF RowMoves
  <2>2. ASSUME NEW h \in LegacyReceipts \ legacy
        PROVE  \/ \E d \in Dests : Channel[d] = h[2] /\ baselines'[h[1], d] > 0
               \/ \A k \in IntentKeys : Hold(k) = h => intents'[k].status = "absent"
    <3>1. CASE \E d \in Dests : Channel[d] = h[2] /\ baselines[h[1], d] > 0
      <4>1. PICK d \in Dests : Channel[d] = h[2] /\ baselines[h[1], d] > 0
        BY <3>1
      <4>2. <<h[1], d>> \in Streams \X Dests
        BY DeliveryAssumption DEF Streams
      <4> DEFINE b == <<h[1], d>>
      <4>3. b \in Streams \X Dests /\ baselines[b] > 0
        BY <4>1, <4>2
      <4> HIDE DEF b
      <4>4. baselines'[b] > 0
        BY <1>9, <4>3
      <4> QED
        BY <4>1, <4>4 DEF b
    <3>2. CASE \A k \in IntentKeys : Hold(k) = h => intents[k].status = "absent"
      BY <1>3, <3>2
    <3> QED
      BY <1>t, <3>1, <3>2 DEF LegacyState
  <2> QED
    BY <1>1, <1>2, <2>1, <2>2 DEF LegacyState
<1>14. StatusFollowsDelivery'
  BY <1>t, <1>1, <1>3, <1>4 DEF StatusFollowsDelivery, SameStream
<1>15. OnePerChannel => FirstIsHeld'
  <2>1. \A k \in IntentKeys : FirstOccurrence(k)' => FirstOccurrence(k)
    BY <1>3 DEF FirstOccurrence, SameStream
  <2> SUFFICES ASSUME OnePerChannel, NEW k \in IntentKeys,
                      Hold(k) \in LegacyReceipts, FirstOccurrence(k)'
               PROVE  /\ ~Reserved(k) /\ mailed[k] = 0
                      /\ intents'[k].status
                           \in {"absent", "legacy_hold", "superseded", "accepted"}
    BY <1>1, <1>2 DEF FirstIsHeld
  <2>2. /\ ~Reserved(k) /\ mailed[k] = 0
        /\ intents[k].status \in {"absent", "legacy_hold", "superseded", "accepted"}
    BY <1>t, <2>1 DEF FirstIsHeld
  <2> QED
    BY <1>1, <2>2 DEF RowMoves
<1>16. OnePerChannel' <=> OnePerChannel
  BY DEF OnePerChannel
<1> QED
  BY <1>5, <1>6, <1>7, <1>8, <1>10, <1>11, <1>12, <1>13, <1>14, <1>15, <1>16
     DEF RecordInv

\* A step on one row outside the digests.
OneRow(k, row) ==
    /\ intents' = [intents EXCEPT ![k] = row]
    /\ UNCHANGED <<revisions, legacy, mailed, posted, envelopes, parts>>
    /\ ~Reserved(k)
    /\ intents[k].status \in {"pending", "leased", "sending", "uncertain"}
    /\ row.status \notin {"absent", "legacy_hold"}
    /\ row.status \in {"pending", "leased"} =>
         intents[k].status \in {"pending", "leased"} \/ IsCurrent(k)

\* What such a step leaves as it was.
LEMMA OneRowFacts ==
    ASSUME TypeOK, NEW k \in IntentKeys, NEW row \in IntentRows, OneRow(k, row)
    PROVE  /\ UNCHANGED <<revisions, legacy, mailed, posted>>
           /\ \A e \in EnvelopeIds : /\ Members(e)' = Members(e)
                                     /\ PartNumbers(e)' = PartNumbers(e)
           /\ \A j \in IntentKeys : /\ RowMoves(j)
                                    /\ Reserved(j)' <=> Reserved(j)
                                    /\ j # k => intents'[j] = intents[j]
                                    /\ j # k => (Hot(j)' <=> Hot(j))
           /\ intents'[k] = row
           /\ Hot(k)' <=> row.status \in InFlight
           /\ intents[k].status \in InFlight => Hot(k)
<1>1. /\ UNCHANGED <<revisions, legacy, mailed, posted>>
      /\ envelopes' = envelopes /\ parts' = parts
      /\ intents'[k] = row
      /\ \A j \in IntentKeys : j # k => intents'[j] = intents[j]
  BY DEF OneRow, TypeOK
<1>2. /\ \A e \in EnvelopeIds : /\ Members(e)' = Members(e)
                                /\ PartNumbers(e)' = PartNumbers(e)
      /\ \A j \in IntentKeys : Reserved(j)' <=> Reserved(j)
  BY <1>1 DEF Members, PartNumbers, Reserved
<1>3. \A j \in IntentKeys : j # k => (Hot(j)' <=> Hot(j))
  BY <1>1, <1>2 DEF Hot
<1>4. \A e \in EnvelopeIds : k \notin Members(e)
  BY DEF OneRow, Reserved, Members
<1>5. /\ Hot(k)' <=> row.status \in InFlight
      /\ intents[k].status \in InFlight => Hot(k)
  BY <1>1, <1>2, <1>4 DEF Hot, OneRow
<1>6. ASSUME NEW j \in IntentKeys PROVE RowMoves(j)
  <2>1. CASE j = k
    BY <1>1, <2>1 DEF RowMoves, OneRow
  <2>2. CASE j # k
    BY <1>1, <2>2 DEF RowMoves
  <2> QED
    BY <2>1, <2>2
<1> QED
  BY <1>1, <1>2, <1>3, <1>5, <1>6

\* A row moves on its own without being accepted,
LEMMA RowProceeds ==
    ASSUME IInv, NEW k \in IntentKeys, NEW row \in IntentRows, OneRow(k, row),
           baselines' = baselines, row.status # "accepted"
    PROVE  Proceeds({})
<1>t. TypeOK
  BY DEF IInv, ReservationInv
<1>1. baselines' = Accept({})
  BY <1>t, AcceptNothing
<1>2. intents[k].status = "pending" \/ intents[k].status \in InFlight
  BY DEF OneRow, InFlight
<1>3. \A j \in IntentKeys :
        /\ intents'[j].status = "accepted" => intents[j].status = "accepted"
        /\ Hot(j)' => Hot(j) \/ (intents[j].status = "pending" /\ ~Reserved(j))
  BY <1>t, <1>2, OneRowFacts DEF OneRow
<1> QED
  BY <1>t, <1>1, <1>3, OneRowFacts DEF Proceeds

\* or is accepted after the provider took it.
LEMMA RowAccepted ==
    ASSUME IInv, NEW k \in IntentKeys, NEW row \in IntentRows, OneRow(k, row),
           baselines' = Accept({k}), row.status = "accepted",
           intents[k].status \in InFlight, mailed[k] = 1
    PROVE  Proceeds({k})
<1>t. TypeOK
  BY DEF IInv, ReservationInv
<1>1. /\ intents'[k].status = "accepted" /\ Delivered(k) /\ Hot(k) /\ ~Hot(k)'
  BY <1>t, OneRowFacts DEF Delivered, InFlight
<1>2. \A j \in IntentKeys :
        /\ intents'[j].status = "accepted" => intents[j].status = "accepted" \/ j \in {k}
        /\ Hot(j)' => Hot(j)
  BY <1>t, <1>1, OneRowFacts
<1> QED
  BY <1>t, <1>1, <1>2, OneRowFacts DEF Proceeds

\* Settling a row that was sent on its own.
LEMMA SettleProceeds ==
    ASSUME IInv, NEW k \in IntentKeys, NEW o \in Receipts, Settle(k, o),
           UNCHANGED <<revisions, legacy, mailed, posted, envelopes, parts>>,
           ~Reserved(k), intents[k].status \in {"sending", "uncertain"},
           o = "accepted" => mailed[k] = 1
    PROVE  \E K \in SUBSET IntentKeys : Proceeds(K)
<1> DEFINE st == SettledStatus(k, o)
           row == WithStatus(intents[k], st)
<1>1. /\ st \in {"accepted", "uncertain", "failed", "superseded", "pending"}
      /\ st = "pending" => IsCurrent(k)
      /\ st = "accepted" <=> o = "accepted"
  BY DEF SettledStatus, Receipts
<1>2. intents' = [intents EXCEPT ![k] = row]
  BY DEF Settle
<1> HIDE DEF st
<1>3. row \in IntentRows /\ row.status = st
  BY <1>1, StatusRow DEF IInv, ReservationInv, TypeOK, IntentStatus
<1> HIDE DEF row
<1>4. OneRow(k, row)
  BY <1>1, <1>2, <1>3 DEF OneRow
<1>5. CASE o = "accepted"
  <2>1. baselines' = Accept({k})
    BY <1>5 DEF Settle
  <2>2. intents[k].status \in InFlight
    BY DEF InFlight
  <2>3. Proceeds({k})
    BY <1>1, <1>3, <1>4, <1>5, <2>1, <2>2, RowAccepted
  <2> QED
    BY <2>3
<1>6. CASE o # "accepted"
  <2>1. baselines' = baselines
    BY <1>6 DEF Settle
  <2>2. Proceeds({})
    BY <1>1, <1>3, <1>4, <1>6, <2>1, RowProceeds
  <2> QED
    BY <2>2
<1> QED
  BY <1>5, <1>6

\* A step that leaves the tables and the provider alone.
LEMMA NothingProceeds ==
    ASSUME IInv, UNCHANGED <<tables, mailed, posted>>
    PROVE  Proceeds({})
<1>1. baselines' = Accept({})
  BY AcceptNothing DEF IInv, ReservationInv, tables
<1>2. UNCHANGED <<revisions, legacy, intents, envelopes, parts, mailed, posted>>
  BY DEF tables
<1>3. \A k \in IntentKeys : RowMoves(k) /\ (Hot(k)' <=> Hot(k))
  BY <1>2 DEF RowMoves, Hot, Reserved, Members
<1>4. \A e \in EnvelopeIds : /\ Members(e)' = Members(e)
                             /\ PartNumbers(e)' = PartNumbers(e)
  BY <1>2 DEF Members, PartNumbers
<1> QED
  BY <1>1, <1>2, <1>3, <1>4 DEF Proceeds

\* The couriers' steps, the expiry of their claims and the review of their
\* calls, but for the provider's answers.
LEMMA CouriersProceed ==
    ASSUME IInv,
           \/ \E k \in IntentKeys : ExpireIntent(k)
           \/ \E c \in Couriers :
                \/ \E k \in IntentKeys : ClaimNext(c, k)
                \/ BeginSend(c) \/ Finish(c) \/ CourierRefused(c) \/ CourierDies(c)
           \/ \E k \in IntentKeys, o \in {"accepted", "not_sent"} : Reconcile(k, o)
    PROVE  \E K \in SUBSET IntentKeys : Proceeds(K)
<1> DEFINE Goal == \E K \in SUBSET IntentKeys : Proceeds(K)
<1>t. TypeOK /\ \A k \in IntentKeys : intents[k] \in IntentRows
  BY DEF IInv, ReservationInv, TypeOK
<1>n. Proceeds({}) => Goal
  OBVIOUS
<1>1. ASSUME NEW k \in IntentKeys, ExpireIntent(k) PROVE Goal
  <2> DEFINE st == IF intents[k].status = "leased" THEN "pending" ELSE "uncertain"
             row == WithStatus(intents[k], st)
  <2>1. row \in IntentRows /\ row.status = st
    BY <1>t, StatusRow DEF IntentStatus
  <2>2. OneRow(k, row)
    BY <1>1, <2>1 DEF OneRow, ExpireIntent
  <2>3. baselines' = baselines /\ row.status # "accepted"
    BY <1>1, <2>1 DEF ExpireIntent
  <2> HIDE DEF row
  <2> QED
    BY <1>n, <2>1, <2>2, <2>3, RowProceeds
<1>2. ASSUME NEW c \in Couriers, NEW k \in IntentKeys, ClaimNext(c, k) PROVE Goal
  <2> DEFINE row == Leased(intents[k], c)
  <2>1. row \in IntentRows /\ row.status = "leased"
    BY <1>t, LeasedRow DEF Processes
  <2>2. OneRow(k, row)
    BY <1>2, <2>1 DEF OneRow, ClaimNext
  <2>3. baselines' = baselines
    BY <1>2 DEF ClaimNext
  <2> HIDE DEF row
  <2> QED
    BY <1>n, <2>1, <2>2, <2>3, RowProceeds
<1>3. ASSUME NEW c \in Couriers, BeginSend(c) PROVE Goal
  <2> DEFINE k == courier[c].key
             row == Started(intents[k])
  <2>1. k \in IntentKeys
    BY <1>3, <1>t, CourierFields DEF BeginSend
  <2>2. row \in IntentRows /\ row.status = "sending"
    BY <1>t, <2>1, StartedRow
  <2>3. OneRow(k, row)
    BY <1>3, <2>2 DEF OneRow, BeginSend
  <2>4. baselines' = baselines
    BY <1>3 DEF BeginSend
  <2> HIDE DEF k, row
  <2> QED
    BY <1>n, <2>1, <2>2, <2>3, <2>4, RowProceeds
<1>4. ASSUME NEW c \in Couriers, Finish(c) PROVE Goal
  <2> DEFINE k == courier[c].key
             o == courier[c].receipt
  <2>1. k \in IntentKeys /\ o \in Receipts /\ CourierKnown(c)
    BY <1>4, <1>t, CourierFields DEF Finish, IInv, MailInv, CourierKnows
  <2>2. /\ ~Reserved(k) /\ intents[k].status \in {"sending", "uncertain"}
        /\ o = "accepted" => mailed[k] = 1
        /\ Settle(k, o)
        /\ UNCHANGED <<revisions, legacy, mailed, posted, envelopes, parts>>
    BY <1>4, <2>1 DEF Finish, CourierKnown
  <2> HIDE DEF k, o
  <2> QED
    BY <2>1, <2>2, SettleProceeds
<1>5. ASSUME NEW c \in Couriers, CourierRefused(c) \/ CourierDies(c) PROVE Goal
  <2>1. UNCHANGED <<tables, mailed, posted>>
    BY <1>5 DEF CourierRefused, CourierDies
  <2> QED
    BY <1>n, <2>1, NothingProceeds
<1>6. ASSUME NEW k \in IntentKeys, NEW o \in {"accepted", "not_sent"}, Reconcile(k, o)
      PROVE  Goal
  <2>1. /\ ~Reserved(k) /\ intents[k].status \in {"sending", "uncertain"}
        /\ o = "accepted" => mailed[k] > 0
        /\ Settle(k, o) /\ o \in Receipts
        /\ UNCHANGED <<revisions, legacy, mailed, posted, envelopes, parts>>
    BY <1>6 DEF Reconcile, Receipts
  <2>2. o = "accepted" => mailed[k] = 1
    BY <2>1 DEF IInv, MailInv, MailedState
  <2> QED
    BY <2>1, <2>2, SettleProceeds
<1> QED
  BY <1>1, <1>2, <1>3, <1>4, <1>5, <1>6

\* A digest moves on; its rows proceed, and no others.
LEMMA DigestRows ==
    ASSUME IInv, NEW e \in EnvelopeIds, DigestMoves(e), NEW k \in IntentKeys
    PROVE  /\ RowMoves(k)
           /\ Hot(k)' => Hot(k)
           /\ k \in Members(e) => /\ intents[k].status # "accepted"
                                  /\ intents'[k].status = "accepted"
                                       => envelopes'[e].status = "accepted"
<1>t. TypeOK /\ MembersFollow
  BY DEF IInv, ReservationInv
<1>1. \A st : /\ {"absent", "legacy_hold"} \cap MemberStatus(st) = {}
              /\ "accepted" \in MemberStatus(st) => st = "accepted"
  BY DEF MemberStatus
<1>2. Hot(k)' => Hot(k)
  BY <1>t, EnvelopeHot DEF DigestMoves
<1>3. CASE k \in Members(e)
  <2>1. /\ intents[k].status \in MemberStatus(envelopes[e].status)
        /\ envelopes[e].status # "accepted"
        /\ intents'[k].status \in MemberStatus(envelopes'[e].status)
    BY <1>t, <1>3 DEF MembersFollow, DigestMoves, EnvelopeMoves
  <2>2. Reserved(k)
    BY <1>3 DEF Reserved, Members
  <2> QED
    BY <1>1, <1>2, <2>1, <2>2 DEF RowMoves
<1>4. CASE k \notin Members(e)
  <2>1. intents'[k] = intents[k]
    BY <1>4 DEF DigestMoves
  <2> QED
    BY <1>2, <1>4, <2>1 DEF RowMoves
<1> QED
  BY <1>3, <1>4

\* A digest moves on without being accepted,
LEMMA DigestProceeds ==
    ASSUME IInv, NEW e \in EnvelopeIds, DigestMoves(e), posted' = posted,
           baselines' = baselines, envelopes'[e].status # "accepted",
           \A f \in EnvelopeIds : PartNumbers(f)' = PartNumbers(f)
    PROVE  Proceeds({})
<1>1. baselines' = Accept({})
  BY AcceptNothing DEF IInv, ReservationInv
<1>2. \A f \in EnvelopeIds : Members(f)' = Members(f)
  BY DEF DigestMoves, EnvelopeMoves, Members
<1>3. \A k \in IntentKeys :
        intents'[k].status = "accepted" => intents[k].status = "accepted"
  BY DigestRows DEF DigestMoves
<1>4. /\ revisions' = revisions /\ legacy' = legacy /\ mailed' = mailed
  BY DEF DigestMoves
<1> QED
  BY <1>1, <1>2, <1>3, <1>4, DigestRows DEF Proceeds

\* or with all its rows, once the provider took every part of it.
LEMMA DigestAccepted ==
    ASSUME IInv, NEW e \in EnvelopeIds, DigestMoves(e), posted' = posted,
           baselines' = Accept(Members(e)),
           envelopes[e].status \in HotStatus, envelopes'[e].status = "accepted",
           PartNumbers(e) # {}, \A p \in PartNumbers(e) : posted[e][p] = 1,
           \A f \in EnvelopeIds : PartNumbers(f)' = PartNumbers(f)
    PROVE  Proceeds(Members(e))
<1>t. TypeOK /\ MembersFollow /\ MembersDisjoint
  BY DEF IInv, ReservationInv
<1>1. \A f \in EnvelopeIds : Members(f)' = Members(f)
  BY DEF DigestMoves, EnvelopeMoves, Members
<1>2. /\ revisions' = revisions /\ legacy' = legacy /\ mailed' = mailed
  BY DEF DigestMoves
<1>3. ASSUME NEW k \in Members(e)
      PROVE  /\ intents'[k].status = "accepted"
             /\ Hot(k) /\ ~Hot(k)' /\ Delivered(k)
  <2>1. k \in IntentKeys
    BY <1>t DEF TypeOK, EnvelopeRows, Members
  <2>2. intents'[k].status = "accepted"
    BY <2>1 DEF DigestMoves, EnvelopeMoves, MemberStatus
  <2>3. Hot(k) /\ Delivered(k)
    BY DEF Hot, HotStatus, Delivered
  <2>4. \A f \in EnvelopeIds : k \in Members(f) => f = e
    BY <1>t DEF MembersDisjoint
  <2>5. ~Hot(k)'
    BY <1>1, <2>2, <2>4 DEF Hot, InFlight
  <2> QED
    BY <2>2, <2>3, <2>5
<1>4. \A k \in IntentKeys :
        intents'[k].status = "accepted"
          => intents[k].status = "accepted" \/ k \in Members(e)
  BY DigestRows DEF DigestMoves
<1> QED
  BY <1>1, <1>2, <1>3, <1>4, DigestRows DEF Proceeds

\* Settling a part: the last one of a digest accepts it.
LEMMA SettlePartProceeds ==
    ASSUME IInv, NEW e \in EnvelopeIds, NEW p \in PartNumbers(e), p \in Ordinals,
           NEW o \in Receipts, SettlePart(e, p, o),
           envelopes[e].status \in {"leased", "uncertain"},
           o = "accepted" => posted[e][p] = 1,
           UNCHANGED <<revisions, legacy, courier, mailed, posted>>
    PROVE  \E K \in SUBSET IntentKeys : Proceeds(K)
<1>t. TypeOK /\ PostedState
  BY DEF IInv, PartsInv
<1> DEFINE st == PartOutcome(e, p, o)
           complete == st = "accepted" /\ OthersAccepted(e, p)
           whole == IF st \in {"uncertain", "failed"} THEN st ELSE "pending"
<1>1. DigestMoves(e)
  BY SettleDigest DEF IInv
<1>2. \A f \in EnvelopeIds : PartNumbers(f)' = PartNumbers(f)
  <2>1. parts' = [parts EXCEPT ![e][p].status = st]
    BY DEF SettlePart
  <2> QED
    BY <1>t, <2>1 DEF PartNumbers, TypeOK
<1>3. posted' = posted
  OBVIOUS
<1>4. CASE complete
  <2>1. envelopes'[e].status = "accepted"
    BY <1>t, <1>4, EnvelopeStateRows DEF SettlePart, EnvelopeStatus
  <2>2. baselines' = Accept(Members(e))
    BY <1>4 DEF SettlePart
  <2>3. o = "accepted"
    BY <1>4 DEF PartOutcome, Receipts
  <2>4. \A q \in PartNumbers(e) : posted[e][q] = 1
    <3>1. \A q \in PartNumbers(e) : q \in Ordinals
      BY DEF IInv, PartsInv, PartsNumbered
    <3> QED
      BY <1>t, <1>4, <2>3, <3>1 DEF OthersAccepted, PostedState
  <2>5. Members(e) \in SUBSET IntentKeys
    BY <1>t DEF TypeOK, EnvelopeRows, Members
  <2>6. Proceeds(Members(e))
    BY <1>1, <1>2, <1>3, <2>1, <2>2, <2>4, DigestAccepted DEF HotStatus
  <2> QED
    BY <2>5, <2>6
<1>5. CASE ~complete
  <2>1. whole \in {"uncertain", "failed", "pending"}
    OBVIOUS
  <2>2. envelopes' = EnvelopeState(e, whole) /\ baselines' = baselines
    BY <1>5 DEF SettlePart
  <2> HIDE DEF whole
  <2>3. envelopes'[e].status # "accepted"
    BY <1>t, <2>1, <2>2, EnvelopeStateRows DEF EnvelopeStatus
  <2>4. Proceeds({})
    BY <1>1, <1>2, <1>3, <2>2, <2>3, DigestProceeds
  <2> QED
    BY <2>4
<1> QED
  BY <1>4, <1>5

\* The senders' steps and the operator's, but for freezing, reissuing and the
\* provider's answers.
LEMMA SendersProceed ==
    ASSUME IInv,
           \/ \E e \in EnvelopeIds :
                \/ ExpireEnvelope(e) \/ ClaimStale(e) \/ Abandon(e)
                \/ \E p \in Ordinals, o \in {"accepted", "not_sent"} : ReconcilePart(e, p, o)
           \/ \E w \in Senders :
                \/ \E e \in EnvelopeIds : Claim(w, e)
                \/ \E p \in Ordinals : BeginPart(w, p)
                \/ BeginPartStale(w) \/ FinishPart(w) \/ SenderRefused(w) \/ SenderDies(w)
    PROVE  \E K \in SUBSET IntentKeys : Proceeds(K)
<1> DEFINE Goal == \E K \in SUBSET IntentKeys : Proceeds(K)
<1>t. TypeOK /\ ReservationInv /\ PartsInv
  BY DEF IInv, ReservationInv
<1>n. Proceeds({}) => Goal
  OBVIOUS
<1>d. ASSUME NEW e \in EnvelopeIds, DigestMoves(e), Rests({e}),
             baselines' = baselines, envelopes'[e].status # "accepted"
      PROVE  Goal
  BY <1>d, <1>n, DigestProceeds DEF Rests
<1>r. ASSUME NEW e \in EnvelopeIds, RetireStale(e)
      PROVE  envelopes'[e].status # "accepted"
  BY <1>t, <1>r, EnvelopeStateRows DEF RetireStale, EnvelopeStatus
<1>1. ASSUME NEW e \in EnvelopeIds, ExpireEnvelope(e) PROVE Goal
  <2> DEFINE st == IF {p \in PartNumbers(e) : parts[e][p].status = "sending"} = {}
                   THEN "pending" ELSE "uncertain"
  <2>1. envelopes' = EnvelopeState(e, st) /\ baselines' = baselines
    BY <1>1 DEF ExpireEnvelope
  <2>2. st \in {"pending", "uncertain"}
    OBVIOUS
  <2> HIDE DEF st
  <2>3. envelopes'[e].status # "accepted"
    BY <1>t, <2>1, <2>2, EnvelopeStateRows DEF EnvelopeStatus
  <2> QED
    BY <1>1, <1>d, <1>t, <2>1, <2>3, ExpireDigest, ExpireRests
<1>2. ASSUME NEW e \in EnvelopeIds, ClaimStale(e) PROVE Goal
  <2>1. DigestMoves(e)
    BY <1>2, <1>t, RetireDigest DEF ClaimStale
  <2>2. envelopes'[e].status # "accepted" /\ baselines' = baselines
    BY <1>2, <1>r DEF ClaimStale
  <2> QED
    BY <1>2, <1>d, <1>t, <2>1, <2>2, ClaimStaleRests
<1>3. ASSUME NEW e \in EnvelopeIds, Abandon(e) PROVE Goal
  <2>1. envelopes' = EnvelopeState(e, "abandoned") /\ baselines' = baselines
    BY <1>3 DEF Abandon
  <2>2. envelopes'[e].status # "accepted"
    BY <1>t, <2>1, EnvelopeStateRows DEF EnvelopeStatus
  <2> QED
    BY <1>3, <1>d, <1>t, <2>1, <2>2, AbandonDigest, AbandonRests
<1>4. ASSUME NEW e \in EnvelopeIds, NEW p \in Ordinals,
             NEW o \in {"accepted", "not_sent"}, ReconcilePart(e, p, o)
      PROVE  Goal
  <2>1. /\ p \in PartNumbers(e) /\ o \in Receipts /\ SettlePart(e, p, o)
        /\ envelopes[e].status = "uncertain"
        /\ o = "accepted" => posted[e][p] > 0
        /\ UNCHANGED <<revisions, legacy, courier, mailed, posted>>
    BY <1>4 DEF ReconcilePart, Receipts
  <2>2. o = "accepted" => posted[e][p] = 1
    BY <1>t, <2>1 DEF PartsInv, PostedState
  <2> QED
    BY <2>1, <2>2, SettlePartProceeds
<1>5. ASSUME NEW w \in Senders, NEW e \in EnvelopeIds, Claim(w, e) PROVE Goal
  <2>1. DigestMoves(e)
    BY <1>5, <1>t, ClaimDigest
  <2>2. /\ posted' = posted /\ baselines' = baselines
        /\ parts' = parts /\ envelopes'[e].status = "leased"
    BY <1>5, <1>t DEF Claim, Leased, TypeOK, EnvelopeRows
  <2>3. \A f \in EnvelopeIds : PartNumbers(f)' = PartNumbers(f)
    BY <2>2 DEF PartNumbers
  <2> QED
    BY <1>n, <2>1, <2>2, <2>3, DigestProceeds
<1>6. ASSUME NEW w \in Senders, NEW p \in Ordinals, BeginPart(w, p) PROVE Goal
  <2> DEFINE e == sender[w].envelope
  <2>1. e \in EnvelopeIds /\ envelopes[e].status = "leased" /\ DigestMoves(e)
    BY <1>6, <1>t, SenderFields, BeginDigest DEF BeginPart, Owns
  <2>2. posted' = posted /\ baselines' = baselines
    BY <1>6 DEF BeginPart
  <2>3. envelopes'[e].status # "accepted"
    <3>1. envelopes' = envelopes \/ envelopes' = EnvelopeState(e, "failed")
      BY <1>6 DEF BeginPart
    <3> QED
      BY <1>t, <2>1, <3>1, EnvelopeStateRows DEF EnvelopeStatus
  <2>4. \A f \in EnvelopeIds : PartNumbers(f)' = PartNumbers(f)
    <3>1. parts' = parts \/ parts' = [parts EXCEPT ![e][p] = Started(parts[e][p])]
      BY <1>6 DEF BeginPart
    <3> DEFINE row == Started(parts[e][p])
    <3>2. parts' = parts \/ parts' = [parts EXCEPT ![e][p] = row]
      BY <3>1
    <3> HIDE DEF row, e
    <3>3. ASSUME NEW f \in EnvelopeIds PROVE DOMAIN parts'[f] = DOMAIN parts[f]
      <4>1. CASE parts' = parts
        BY <4>1
      <4>2. CASE parts' = [parts EXCEPT ![e][p] = row]
        BY <1>t, <4>2 DEF TypeOK
      <4> QED
        BY <3>2, <4>1, <4>2
    <3> QED
      BY <3>3 DEF PartNumbers
  <2> HIDE DEF e
  <2> QED
    BY <1>n, <2>1, <2>2, <2>3, <2>4, DigestProceeds
<1>7. ASSUME NEW w \in Senders, BeginPartStale(w) PROVE Goal
  <2> DEFINE e == sender[w].envelope
  <2>1. e \in EnvelopeIds /\ Rests({e})
    BY <1>7, <1>t, SenderFields, BeginPartStaleRests DEF BeginPartStale
  <2>2. DigestMoves(e) /\ envelopes'[e].status # "accepted" /\ baselines' = baselines
    BY <1>7, <1>t, <1>r, <2>1, RetireDigest DEF BeginPartStale, Owns
  <2> HIDE DEF e
  <2> QED
    BY <1>d, <2>1, <2>2
<1>8. ASSUME NEW w \in Senders, FinishPart(w) PROVE Goal
  <2> DEFINE e == sender[w].envelope
             p == sender[w].ordinal
             o == sender[w].receipt
  <2>1. /\ e \in EnvelopeIds /\ p \in Ordinals /\ o \in Receipts /\ SenderKnown(w)
    BY <1>8, <1>t, SenderFields DEF FinishPart, PartsInv, SenderKnows
  <2>2. /\ sender[w].pc = "answered" /\ Owns(w) /\ parts[e][p].status = "sending"
        /\ SettlePart(e, p, o) /\ envelopes[e].status = "leased"
        /\ UNCHANGED <<revisions, legacy, courier, mailed, posted>>
    BY <1>8 DEF FinishPart, Owns
  <2>3. p \in PartNumbers(e) /\ (o = "accepted" => posted[e][p] = 1)
    BY <2>1, <2>2 DEF SenderKnown
  <2> HIDE DEF e, p, o
  <2> QED
    BY <2>1, <2>2, <2>3, SettlePartProceeds
<1>9. ASSUME NEW w \in Senders, SenderRefused(w) \/ SenderDies(w) PROVE Goal
  <2>1. UNCHANGED <<tables, mailed, posted>>
    BY <1>9 DEF SenderRefused, SenderDies
  <2> QED
    BY <1>n, <2>1, NothingProceeds
<1> QED
  BY <1>1, <1>2, <1>3, <1>4, <1>5, <1>6, <1>7, <1>8, <1>9

-----------------------------------------------------------------------------
(* The provider takes something.                                           *)

\* What the provider takes carries hot rows only, and is never taken back.
Takes ==
    /\ UNCHANGED tables
    /\ \A k \in IntentKeys : /\ mailed[k] > 0 => mailed'[k] > 0
                             /\ Touched(k)' => Touched(k) \/ Hot(k)
                             /\ Touched(k) => Touched(k)'
    /\ \A e \in EnvelopeIds, p \in Ordinals : posted[e][p] > 0 => posted'[e][p] > 0

\* Such a step keeps what is recorded.
LEMMA TakesKeep ==
    ASSUME IInv, MailInv', PartsInv', Takes
    PROVE  RecordInv'
<1>t. /\ ReplacedIsRetired /\ OneHot
      /\ RowsExist /\ MembersDistinct /\ FreeIsCurrent /\ ReplacedIsUnsent
      /\ HotIsNewest /\ BaselineWasAccepted /\ AcceptedWasDelivered
      /\ LegacyState /\ StatusFollowsDelivery /\ (OnePerChannel => FirstIsHeld)
  BY DEF IInv, RecordInv, ReservationInv
<1>1. /\ revisions' = revisions /\ legacy' = legacy /\ intents' = intents
      /\ baselines' = baselines /\ envelopes' = envelopes /\ parts' = parts
  BY DEF Takes, tables
<1>2. \A k \in IntentKeys : Touched(k)' => Touched(k) \/ Hot(k)
  BY DEF Takes
<1>3. /\ \A k \in IntentKeys : Hot(k)' <=> Hot(k)
      /\ \A k \in IntentKeys : Reserved(k)' <=> Reserved(k)
      /\ \A k \in IntentKeys : Replaced(k)' <=> Replaced(k)
      /\ \A e \in EnvelopeIds : /\ Members(e)' = Members(e)
                                /\ PartNumbers(e)' = PartNumbers(e)
  BY <1>1 DEF Hot, Reserved, Replaced, Members, PartNumbers
<1>4. /\ RowsExist' /\ MembersDistinct' /\ FreeIsCurrent'
      /\ BaselineWasAccepted' /\ LegacyState' /\ StatusFollowsDelivery'
  <2>1. RowsExist'
    BY <1>t, <1>1 DEF RowsExist, CurrentRevision
  <2>2. MembersDistinct'
    BY <1>t, <1>3 DEF MembersDistinct, SameStream
  <2>3. FreeIsCurrent'
    BY <1>t, <1>1, <1>3 DEF FreeIsCurrent, IsCurrent, CurrentRevision
  <2>4. BaselineWasAccepted'
    BY <1>t, <1>1 DEF BaselineWasAccepted
  <2>5. LegacyState'
    BY <1>t, <1>1, <1>3 DEF LegacyState, Hold
  <2>6. StatusFollowsDelivery'
    BY <1>t, <1>1 DEF StatusFollowsDelivery, SameStream
  <2> QED
    BY <2>1, <2>2, <2>3, <2>4, <2>5, <2>6
<1>5. ReplacedIsUnsent'
  <2> SUFFICES ASSUME NEW k \in IntentKeys, Replaced(k)
               PROVE  Reserved(k) /\ ~Touched(k)'
    BY <1>3 DEF ReplacedIsUnsent
  <2>1. Reserved(k) /\ ~Touched(k)
    BY <1>t DEF ReplacedIsUnsent
  <2>2. ~Hot(k)
    <3>1. /\ intents[k].status = "superseded"
          /\ \A e \in EnvelopeIds : k \in Members(e) => envelopes[e].status = "abandoned"
      BY <1>t DEF ReplacedIsRetired
    <3> QED
      BY <3>1 DEF Hot, InFlight
  <2> QED
    BY <1>2, <2>1, <2>2
<1>6. HotIsNewest'
  <2> SUFFICES ASSUME NEW k \in IntentKeys, NEW l \in IntentKeys,
                      Hot(k), SameStream(k, l)
               PROVE  /\ baselines[k.subject, k.dest] < k.sequence
                      /\ Touched(l)' /\ l # k => l.sequence < k.sequence
    BY <1>1, <1>3 DEF HotIsNewest, SameStream
  <2>1. /\ baselines[k.subject, k.dest] < k.sequence
        /\ Touched(l) /\ l # k => l.sequence < k.sequence
        /\ Hot(l) => k = l
    BY <1>t DEF HotIsNewest, OneHot
  <2> QED
    BY <1>2, <2>1
<1>7. AcceptedWasDelivered'
  <2> SUFFICES ASSUME NEW k \in IntentKeys, intents[k].status = "accepted",
                      intents[k].attempts > 0
               PROVE  \/ mailed'[k] = 1
                      \/ \E e \in EnvelopeIds :
                           k \in Members(e) /\ \A p \in PartNumbers(e) : posted'[e][p] = 1
    BY <1>1, <1>3 DEF AcceptedWasDelivered
  <2>1. CASE mailed[k] = 1
    <3>1. mailed'[k] > 0
      BY <2>1 DEF Takes
    <3> QED
      BY <3>1 DEF MailInv, MailedState
  <2>2. ASSUME NEW e \in EnvelopeIds, k \in Members(e),
               \A p \in PartNumbers(e) : posted[e][p] = 1
        PROVE  \A p \in PartNumbers(e) : posted'[e][p] = 1
    <3> SUFFICES ASSUME NEW p \in PartNumbers(e) PROVE posted'[e][p] = 1
      OBVIOUS
    <3>1. p \in Ordinals
      BY DEF IInv, PartsInv, PartsNumbered
    <3>2. posted'[e][p] > 0
      BY <2>2, <3>1 DEF Takes
    <3> QED
      BY <3>1, <3>2 DEF PartsInv, PostedState
  <2> QED
    BY <1>t, <2>1, <2>2 DEF AcceptedWasDelivered
<1>8. OnePerChannel => FirstIsHeld'
  <2> SUFFICES ASSUME OnePerChannel, NEW k \in IntentKeys,
                      Hold(k) \in LegacyReceipts, FirstOccurrence(k)
               PROVE  /\ ~Reserved(k) /\ mailed'[k] = 0
                      /\ intents[k].status
                           \in {"absent", "legacy_hold", "superseded", "accepted"}
    BY <1>1, <1>3 DEF FirstIsHeld, FirstOccurrence, Hold
  <2>1. /\ ~Reserved(k) /\ mailed[k] = 0
        /\ intents[k].status \in {"absent", "legacy_hold", "superseded", "accepted"}
    BY <1>t DEF FirstIsHeld
  <2>2. ~Hot(k) /\ ~Touched(k)
    BY <2>1 DEF Hot, InFlight, Touched, Reserved, Members
  <2>3. ~(mailed'[k] > 0)
    BY <1>2, <2>2 DEF Touched
  <2>4. mailed'[k] \in Nat
    BY DEF MailInv, TypeOK
  <2> QED
    BY <2>1, <2>3, <2>4
<1>9. OnePerChannel' <=> OnePerChannel
  BY DEF OnePerChannel
<1> QED
  BY <1>4, <1>5, <1>6, <1>7, <1>8, <1>9 DEF RecordInv

\* A courier's call is about a hot row,
LEMMA CourierTakes ==
    ASSUME IInv, NEW c \in Couriers, NEW a \in Answers, CourierAnswered(c, a)
    PROVE  Takes
<1> DEFINE k == courier[c].key
<1>1. /\ courier[c].pc = "sending" /\ posted' = posted
      /\ revisions' = revisions /\ lastAsOf' = lastAsOf /\ staged' = staged
      /\ legacy' = legacy /\ intents' = intents /\ baselines' = baselines
      /\ envelopes' = envelopes /\ parts' = parts
      /\ mailed' = IF a.arrives THEN [mailed EXCEPT ![k] = mailed[k] + 1] ELSE mailed
  BY DEF CourierAnswered
<1>2. /\ k \in IntentKeys /\ mailed[k] = 0 /\ ~Reserved(k)
      /\ intents[k].status \in {"sending", "uncertain"}
  BY <1>1, CourierFields DEF IInv, MailInv, CourierKnows, CourierKnown
<1>3. Hot(k)
  BY <1>2 DEF Hot, InFlight
<1>4. \A j \in IntentKeys : j # k => mailed'[j] = mailed[j]
  BY <1>1 DEF IInv, MailInv, TypeOK
<1>5. \A j \in IntentKeys : j # k => (Touched(j)' <=> Touched(j))
  BY <1>1, <1>4 DEF Touched, Members
<1>6. ~Touched(k)
  BY <1>2 DEF Touched, Reserved, Members
<1>7. UNCHANGED tables
  BY <1>1 DEF tables
<1>8. \A j \in IntentKeys : mailed[j] > 0 => mailed'[j] > 0
  BY <1>2, <1>4
<1> HIDE DEF k
<1> QED
  BY <1>1, <1>3, <1>5, <1>6, <1>7, <1>8 DEF Takes

\* and a sender's about a digest whose rows are.
LEMMA SenderTakes ==
    ASSUME IInv, NEW w \in Senders, NEW a \in Answers, SenderAnswered(w, a)
    PROVE  Takes
<1> DEFINE e == sender[w].envelope
           p == sender[w].ordinal
<1>1. /\ sender[w].pc = "sending" /\ mailed' = mailed
      /\ UNCHANGED tables
      /\ posted' = IF a.arrives THEN [posted EXCEPT ![e][p] = posted[e][p] + 1] ELSE posted
  BY DEF SenderAnswered
<1>2. /\ e \in EnvelopeIds /\ p \in Ordinals
      /\ posted[e][p] = 0 /\ envelopes[e].status \in {"leased", "uncertain"}
  BY <1>1, SenderFields DEF IInv, PartsInv, SenderKnows, SenderKnown, Owns
<1>3. \A k \in Members(e) : Hot(k)
  BY <1>2 DEF Hot
<1>4. \A f \in EnvelopeIds, q \in Ordinals :
        /\ f # e \/ q # p => posted'[f][q] = posted[f][q]
        /\ posted'[e][p] \in Nat
  BY <1>1, <1>2 DEF IInv, PartsInv, TypeOK
<1>5. \A f \in EnvelopeIds, q \in Ordinals : posted[f][q] > 0 => posted'[f][q] > 0
  BY <1>2, <1>4
<1>6. \A f \in EnvelopeIds : Members(f)' = Members(f)
  BY <1>1 DEF tables, Members
<1>7. \A k \in IntentKeys : /\ Touched(k)' => Touched(k) \/ Hot(k)
                            /\ Touched(k) => Touched(k)'
  <2> SUFFICES ASSUME NEW k \in IntentKeys
               PROVE  /\ Touched(k)' => Touched(k) \/ Hot(k)
                      /\ Touched(k) => Touched(k)'
    OBVIOUS
  <2>1. Touched(k) => Touched(k)'
    BY <1>1, <1>5, <1>6 DEF Touched
  <2>2. ASSUME Touched(k)', ~Hot(k) PROVE Touched(k)
    <3>1. k \notin Members(e)
      BY <1>3, <2>2
    <3> QED
      BY <1>1, <1>4, <1>6, <2>2, <3>1 DEF Touched
  <2> QED
    BY <2>1, <2>2
<1> HIDE DEF e, p
<1> QED
  BY <1>1, <1>5, <1>7 DEF Takes

-----------------------------------------------------------------------------
(* Freezing, reissuing and importing.                                      *)

\* Free rows are frozen into a digest of their own: nothing of the envelope
\* was taken before, and the rows are the newest of their jobs.
LEMMA PrepareRecords ==
    ASSUME IInv, NEW e \in EnvelopeIds, NEW d \in Dests, NEW n \in Ordinals,
           NEW K \in SUBSET IntentKeys, Prepare(e, d, K, n)
    PROVE  /\ RecordInv'
           /\ \A k \in IntentKeys : Touched(k)' <=> Touched(k)
<1>t. /\ TypeOK /\ MembersFollow /\ ReplacedIsRetired /\ OneHot /\ PartsInv
      /\ RowsExist /\ MembersDistinct /\ FreeIsCurrent /\ ReplacedIsUnsent
      /\ HotIsNewest /\ BaselineWasAccepted /\ AcceptedWasDelivered
      /\ LegacyState /\ StatusFollowsDelivery /\ (OnePerChannel => FirstIsHeld)
  BY DEF IInv, RecordInv, ReservationInv
<1>1. /\ envelopes[e].status = "absent"
      /\ \A k \in K : intents[k].status = "pending" /\ IsCurrent(k) /\ ~Reserved(k)
      /\ envelopes' = [envelopes EXCEPT ![e] = [status |-> "pending",
                                                members |-> K, token |-> None]]
      /\ parts' = [parts EXCEPT
                     ![e] = [p \in 1..n |-> [status |-> "pending", attempts |-> 0]]]
      /\ revisions' = revisions /\ legacy' = legacy /\ intents' = intents
      /\ baselines' = baselines /\ mailed' = mailed /\ posted' = posted
  BY DEF Prepare, Preparable
<1>2. /\ Members(e)' = K
      /\ \A f \in EnvelopeIds : f # e => /\ Members(f)' = Members(f)
                                         /\ envelopes'[f] = envelopes[f]
                                         /\ PartNumbers(f)' = PartNumbers(f)
  BY <1>1, <1>t DEF TypeOK, Members, PartNumbers
<1>3. Members(e) = {} /\ \A p \in Ordinals : posted[e][p] = 0
  <2>1. Members(e) = {} /\ PartNumbers(e) = {}
    BY <1>1, <1>t DEF PartsInv, PartsNumbered
  <2> QED
    BY <1>t, <2>1, NotTaken
<1>4. \A k \in IntentKeys : Reserved(k)' <=> Reserved(k) \/ k \in K
  BY <1>2, <1>3 DEF Reserved, Members
<1>5. \A k \in IntentKeys : Touched(k)' <=> Touched(k)
  <2>1. ASSUME NEW f \in EnvelopeIds, NEW p \in Ordinals, posted[f][p] > 0
        PROVE  Members(f)' = Members(f)
    BY <1>2, <1>3, <2>1
  <2> QED
    BY <1>1, <2>1 DEF Touched
<1>6. \A k \in IntentKeys : Hot(k)' => Hot(k) \/ k \in K
  <2> SUFFICES ASSUME NEW k \in IntentKeys, Hot(k)', k \notin K PROVE Hot(k)
    OBVIOUS
  <2>1. \A f \in EnvelopeIds : k \in Members(f)' =>
          k \in Members(f) /\ envelopes'[f] = envelopes[f]
    BY <1>2
  <2> QED
    BY <1>1, <1>4, <2>1 DEF Hot
<1>7. RowsExist'
  BY <1>t, <1>1 DEF RowsExist, CurrentRevision
<1>8. MembersDistinct'
  <2> SUFFICES ASSUME NEW f \in EnvelopeIds, NEW k \in Members(f)',
                      NEW l \in Members(f)', SameStream(k, l)
               PROVE  k = l
    BY DEF MembersDistinct, SameStream
  <2>1. CASE f = e
    <3>1. /\ k \in K /\ l \in K
          /\ SameRevision(k, l)
      BY <1>1, <1>2, <2>1 DEF IsCurrent, SameRevision, SameStream
    <3>2. ~Replaced(k) /\ ~Replaced(l)
      BY <1>1, <1>t, <3>1 DEF ReplacedIsUnsent
    <3> QED
      BY <1>1, <3>1, <3>2, OneReplaced
  <2>2. CASE f # e
    BY <1>t, <1>2, <2>2 DEF MembersDistinct
  <2> QED
    BY <2>1, <2>2
<1>9. FreeIsCurrent'
  <2>1. \A k \in IntentKeys : IsCurrent(k)' <=> IsCurrent(k)
    BY <1>1 DEF IsCurrent, CurrentRevision
  <2> QED
    BY <1>t, <1>1, <1>4, <2>1 DEF FreeIsCurrent
<1>10. ReplacedIsUnsent'
  <2>1. \A k \in IntentKeys : Replaced(k)' <=> Replaced(k)
    BY <1>1 DEF Replaced
  <2> QED
    BY <1>t, <1>4, <1>5, <2>1 DEF ReplacedIsUnsent
<1>11. HotIsNewest'
  <2> SUFFICES ASSUME NEW k \in IntentKeys, NEW l \in IntentKeys,
                      Hot(k)', SameStream(k, l)
               PROVE  /\ baselines[k.subject, k.dest] < k.sequence
                      /\ Touched(l) /\ l # k => l.sequence < k.sequence
    BY <1>1, <1>5 DEF HotIsNewest, SameStream
  <2>1. CASE Hot(k)
    BY <1>t, <2>1 DEF HotIsNewest
  <2>2. CASE k \in K
    BY <1>1, <2>2, FreeIsNewest
  <2> QED
    BY <1>6, <2>1, <2>2
<1>12. BaselineWasAccepted'
  BY <1>t, <1>1 DEF BaselineWasAccepted
<1>13. AcceptedWasDelivered'
  <2>1. \A f \in EnvelopeIds, k \in IntentKeys : k \in Members(f) =>
          k \in Members(f)' /\ PartNumbers(f)' = PartNumbers(f)
    BY <1>2, <1>3
  <2> QED
    BY <1>t, <1>1, <2>1 DEF AcceptedWasDelivered
<1>14. LegacyState'
  <2>1. \A k \in IntentKeys : Hold(k) \in legacy => k \notin K
    BY <1>t, <1>1 DEF LegacyState
  <2> QED
    BY <1>t, <1>1, <1>4, <2>1 DEF LegacyState, Hold
<1>15. StatusFollowsDelivery'
  BY <1>t, <1>1 DEF StatusFollowsDelivery, SameStream
<1>16. OnePerChannel => FirstIsHeld'
  <2> SUFFICES ASSUME OnePerChannel, NEW k \in IntentKeys,
                      Hold(k) \in LegacyReceipts, FirstOccurrence(k)
               PROVE  /\ ~Reserved(k)' /\ mailed[k] = 0
                      /\ intents[k].status
                           \in {"absent", "legacy_hold", "superseded", "accepted"}
    BY <1>1 DEF FirstIsHeld, FirstOccurrence, Hold, SameStream
  <2>1. /\ ~Reserved(k) /\ mailed[k] = 0
        /\ intents[k].status \in {"absent", "legacy_hold", "superseded", "accepted"}
    BY <1>t DEF FirstIsHeld
  <2>2. k \notin K
    BY <1>1, <2>1
  <2> QED
    BY <1>4, <2>1, <2>2
<1>17. OnePerChannel' <=> OnePerChannel
  BY DEF OnePerChannel
<1> QED
  BY <1>5, <1>7, <1>8, <1>9, <1>10, <1>11, <1>12, <1>13, <1>14, <1>15, <1>16, <1>17
     DEF RecordInv

\* Importing old receipts holds back only jobs with no row on the channel yet.
LEMMA ImportRecords ==
    ASSUME IInv, ImportLegacy
    PROVE  RecordInv'
<1>t. /\ TypeOK
      /\ RowsExist /\ MembersDistinct /\ FreeIsCurrent /\ ReplacedIsUnsent
      /\ HotIsNewest /\ BaselineWasAccepted /\ AcceptedWasDelivered
      /\ LegacyState /\ StatusFollowsDelivery /\ (OnePerChannel => FirstIsHeld)
  BY DEF IInv, RecordInv, ReservationInv
<1>1. /\ revisions' = revisions /\ intents' = intents /\ baselines' = baselines
      /\ envelopes' = envelopes /\ parts' = parts
      /\ mailed' = mailed /\ posted' = posted
      /\ legacy' = legacy \cup
           {h \in LegacyReceipts :
              \A d \in Dests : Channel[d] = h[2] => baselines[h[1], d] = 0}
  BY DEF ImportLegacy
<1>2. /\ \A k \in IntentKeys : /\ Reserved(k)' <=> Reserved(k)
                               /\ Touched(k)' <=> Touched(k)
                               /\ Hot(k)' <=> Hot(k)
                               /\ Replaced(k)' <=> Replaced(k)
                               /\ IsCurrent(k)' <=> IsCurrent(k)
                               /\ FirstOccurrence(k)' <=> FirstOccurrence(k)
      /\ \A e \in EnvelopeIds : /\ Members(e)' = Members(e)
                                /\ PartNumbers(e)' = PartNumbers(e)
      /\ \A s \in Streams : CurrentRevision(s)' = CurrentRevision(s)
  BY <1>1 DEF Reserved, Touched, Hot, Replaced, IsCurrent, FirstOccurrence, Members,
              PartNumbers, CurrentRevision
<1>3. RowsExist'
  BY <1>t, <1>1 DEF RowsExist, CurrentRevision
<1>4. MembersDistinct' /\ FreeIsCurrent' /\ ReplacedIsUnsent'
  BY <1>t, <1>1, <1>2 DEF MembersDistinct, FreeIsCurrent, ReplacedIsUnsent, SameStream
<1>5. HotIsNewest' /\ BaselineWasAccepted'
  BY <1>t, <1>1, <1>2 DEF HotIsNewest, BaselineWasAccepted, SameStream
<1>6. AcceptedWasDelivered'
  BY <1>t, <1>1, <1>2 DEF AcceptedWasDelivered
<1>7. StatusFollowsDelivery'
  BY <1>t, <1>1 DEF StatusFollowsDelivery, SameStream
<1>8. (OnePerChannel => FirstIsHeld)'
  BY <1>t, <1>1, <1>2 DEF OnePerChannel, FirstIsHeld, Hold
<1>9. LegacyState'
  <2>1. ASSUME NEW k \in IntentKeys, Hold(k) \in legacy'
        PROVE  ~Reserved(k) /\ intents[k].status \in {"absent", "legacy_hold", "superseded"}
    <3>1. CASE Hold(k) \in legacy
      BY <1>t, <3>1 DEF LegacyState
    <3>2. CASE Hold(k) \notin legacy
      <4> DEFINE h == Hold(k)
      <4>1. /\ h \in LegacyReceipts \ legacy
            /\ \A d \in Dests : Channel[d] = h[2] => baselines[h[1], d] = 0
        BY <1>1, <2>1, <3>2
      <4>2. h = Hold(k)
        OBVIOUS
      <4> HIDE DEF h
      <4>3. ASSUME NEW d \in Dests, Channel[d] = h[2]
            PROVE  ~(baselines[h[1], d] > 0)
        <5> DEFINE n == baselines[h[1], d]
        <5>1. n = 0
          BY <4>1, <4>3
        <5> HIDE DEF n
        <5>2. ~(n > 0)
          BY <5>1
        <5> QED
          BY <5>2 DEF n
      <4>4. \A j \in IntentKeys : Hold(j) = h => intents[j].status = "absent"
        BY <1>t, <4>1, <4>3 DEF LegacyState
      <4> QED
        BY <4>2, <4>4, TouchedExists
    <3> QED
      BY <3>1, <3>2
  <2>2. ASSUME NEW h \in LegacyReceipts \ legacy'
        PROVE  \E d \in Dests : Channel[d] = h[2] /\ baselines[h[1], d] > 0
    <3>1. PICK d \in Dests : Channel[d] = h[2] /\ baselines[h[1], d] # 0
      BY <1>1, <2>2
    <3>2. <<h[1], d>> \in Streams \X Dests
      BY DeliveryAssumption DEF Streams
    <3> DEFINE b == <<h[1], d>>
    <3>3. baselines[b] # 0 /\ baselines[b] \in Nat
      BY <1>t, <3>1, <3>2 DEF TypeOK
    <3>4. baselines[b] > 0
      <4> HIDE DEF b
      <4> QED
        BY <3>3
    <3> QED
      BY <3>1, <3>4
  <2> QED
    BY <1>1, <1>2, <2>1, <2>2 DEF LegacyState, Hold
<1> QED
  BY <1>3, <1>4, <1>5, <1>6, <1>7, <1>8, <1>9 DEF RecordInv

\* Reissued rows were never taken; what replaces them is current and free.
LEMMA ReissueRecords ==
    ASSUME IInv, NEW E \in SUBSET EnvelopeIds, NEW K \in SUBSET IntentKeys,
           ReissueUnsent(E, K)
    PROVE  /\ RecordInv'
           /\ \A k \in IntentKeys : Touched(k)' <=> Touched(k)
           /\ \A k \in IntentKeys :
                intents[k].status = "accepted" <=> intents'[k].status = "accepted"
<1>t. /\ TypeOK /\ MembersFollow /\ MembersDisjoint /\ ReplacedIsRetired
      /\ PartsInv /\ MailedState
      /\ RowsExist /\ MembersDistinct /\ FreeIsCurrent /\ ReplacedIsUnsent
      /\ HotIsNewest /\ BaselineWasAccepted /\ AcceptedWasDelivered
      /\ LegacyState /\ StatusFollowsDelivery /\ (OnePerChannel => FirstIsHeld)
  BY DEF IInv, RecordInv, ReservationInv, MailInv
<1> DEFINE fresh(k) == \E old \in K : k = NextGeneration(old)
           failing(k) == /\ \E e \in E : /\ envelopes[e].status # "abandoned"
                                         /\ k \in Members(e)
                         /\ intents[k].status \notin {"superseded", "accepted"}
<1>1. /\ revisions' = revisions /\ legacy' = legacy /\ baselines' = baselines
      /\ parts' = parts /\ mailed' = mailed /\ posted' = posted
      /\ envelopes' = [e \in EnvelopeIds |->
                         IF e \in E THEN WithStatus(envelopes[e], "abandoned")
                         ELSE envelopes[e]]
      /\ \A k \in IntentKeys :
           intents'[k] = IF k \in K THEN WithStatus(intents[k], "superseded")
                         ELSE IF fresh(k) THEN WithStatus(NoIntent, "pending")
                         ELSE IF failing(k) THEN WithStatus(intents[k], "failed")
                         ELSE intents[k]
      /\ \A e \in E : ProvedUnsent(e)
      /\ \A k \in K : /\ IsCurrent(k) /\ k.generation < MaxGeneration
                      /\ intents[NextGeneration(k)].status = "absent"
                      /\ intents[k].status \in {"pending", "failed"}
                      /\ \E e \in E : k \in Members(e)
  BY DEF ReissueUnsent
<1>2. /\ \A f \in EnvelopeIds :
           /\ Members(f)' = Members(f) /\ PartNumbers(f)' = PartNumbers(f)
           /\ envelopes'[f].status \in {envelopes[f].status, "abandoned"}
      /\ \A k \in IntentKeys : /\ Reserved(k)' <=> Reserved(k)
                               /\ Touched(k)' <=> Touched(k)
                               /\ IsCurrent(k)' <=> IsCurrent(k)
  <2>1. \A f \in EnvelopeIds :
          /\ envelopes'[f].members = envelopes[f].members
          /\ envelopes'[f].status \in {envelopes[f].status, "abandoned"}
    BY <1>t, <1>1, EnvelopeRow DEF TypeOK, EnvelopeStatus
  <2> QED
    BY <1>1, <2>1 DEF Members, PartNumbers, Reserved, Touched, IsCurrent, CurrentRevision
<1>3. \A k \in IntentKeys : fresh(k) =>
        /\ intents[k].status = "absent" /\ ~Reserved(k)
        /\ \E old \in K : SameRevision(k, old) /\ Hold(k) = Hold(old)
  <2> SUFFICES ASSUME NEW k \in IntentKeys, NEW old \in K, k = NextGeneration(old)
               PROVE  /\ intents[k].status = "absent" /\ ~Reserved(k)
                      /\ SameRevision(k, old) /\ Hold(k) = Hold(old)
    OBVIOUS
  <2>1. intents[k].status = "absent"
    BY <1>1
  <2>2. ~Reserved(k)
    BY <2>1, TouchedExists
  <2> QED
    BY <2>1, <2>2, NextGenerationFields DEF SameRevision, SameStream, Hold
<1>4. \A k \in IntentKeys : k \in K \/ failing(k) => Reserved(k)
  BY <1>1 DEF Reserved, Members
<1>5. /\ \A k \in K : intents'[k].status = "superseded"
      /\ \A k \in IntentKeys : fresh(k) => intents'[k].status = "pending"
      /\ \A k \in IntentKeys :
           failing(k) /\ k \notin K /\ ~fresh(k) => intents'[k].status = "failed"
      /\ \A k \in IntentKeys :
           k \notin K /\ ~fresh(k) /\ ~failing(k) => intents'[k] = intents[k]
  <2>1. \A k \in IntentKeys : intents[k] \in IntentRows
    BY <1>t DEF TypeOK
  <2>2. \A k \in K : ~fresh(k)
    BY <1>1, <1>3
  <2> QED
    BY <1>1, <2>1, <2>2, StatusRow, NewRow DEF IntentStatus
<1> HIDE DEF fresh, failing
<1>6. \A k \in IntentKeys :
        /\ intents'[k].status # "absent" /\ ~fresh(k) => intents[k].status # "absent"
        /\ intents[k].status # "absent" => intents'[k].status # "absent"
        /\ intents[k].status = "accepted" <=> intents'[k].status = "accepted"
        /\ intents[k].status = "accepted" => intents'[k] = intents[k]
        /\ intents'[k].status \in {"absent", "legacy_hold", "leased"}
             => intents'[k] = intents[k]
        /\ ~Reserved(k) /\ ~fresh(k) => intents'[k] = intents[k]
  <2>1. \A k \in IntentKeys : k \in K \/ failing(k) =>
          intents[k].status \notin {"absent", "accepted"}
    <3>1. \A k \in IntentKeys : failing(k) => intents[k].status # "accepted"
      BY DEF failing
    <3> QED
      BY <1>1, <1>4, <3>1, TouchedExists
  <2> QED
    BY <1>3, <1>4, <1>5, <2>1
<1>7. RowsExist'
  <2> SUFFICES ASSUME NEW k \in IntentKeys
               PROVE  /\ intents'[k].status # "absent"
                           => k.sequence <= CurrentRevision(k.subject)
                      /\ intents'[k].status \in {"absent", "legacy_hold"}
                           => intents'[k].attempts = 0
    BY <1>1 DEF RowsExist, CurrentRevision
  <2>1. CASE fresh(k)
    <3>1. PICK old \in K : SameRevision(k, old)
      BY <1>3, <2>1
    <3>2. intents[old].status # "absent"
      BY <1>1
    <3> QED
      BY <1>t, <1>5, <2>1, <3>1, <3>2 DEF RowsExist, SameRevision, SameStream
  <2>2. CASE ~fresh(k)
    BY <1>t, <1>6, <2>2 DEF RowsExist
  <2> QED
    BY <2>1, <2>2
<1>8. MembersDistinct'
  BY <1>t, <1>2 DEF MembersDistinct, SameStream
<1>9. FreeIsCurrent'
  <2> SUFFICES ASSUME NEW k \in IntentKeys
               PROVE  /\ ~Reserved(k) /\ intents'[k].status \in {"pending", "leased"}
                           => IsCurrent(k)
                      /\ intents'[k].status = "legacy_hold" => IsCurrent(k) /\ ~Reserved(k)
    BY <1>2 DEF FreeIsCurrent
  <2>1. CASE fresh(k)
    <3>1. PICK old \in K : SameRevision(k, old)
      BY <1>3, <2>1
    <3> QED
      BY <1>1, <1>5, <2>1, <3>1 DEF IsCurrent, SameRevision, SameStream
  <2>2. CASE ~fresh(k)
    BY <1>t, <1>6, <2>2 DEF FreeIsCurrent
  <2> QED
    BY <2>1, <2>2
<1>10. ReplacedIsUnsent'
  <2> SUFFICES ASSUME NEW k \in IntentKeys, NEW l \in IntentKeys,
                      SameRevision(k, l), k.generation < l.generation,
                      intents'[l].status # "absent"
               PROVE  Reserved(k) /\ ~Touched(k)
    BY <1>2 DEF ReplacedIsUnsent, Replaced, SameRevision, SameStream
  <2>1. CASE intents[l].status # "absent"
    BY <1>t, <2>1 DEF ReplacedIsUnsent, Replaced
  <2>2. ASSUME k \in K PROVE Reserved(k) /\ ~Touched(k)
    <3>1. PICK e \in E : k \in Members(e)
      BY <1>1, <2>2
    <3>2. Reserved(k)
      BY <3>1 DEF Reserved, Members
    <3>3. \A p \in Ordinals : posted[e][p] = 0
      <4>1. ProvedUnsent(e)
        BY <1>1
      <4>2. \A p \in PartNumbers(e) : parts[e][p].status = "pending"
        <5> SUFFICES ASSUME NEW p \in PartNumbers(e)
                     PROVE  parts[e][p].status = "pending"
          OBVIOUS
        <5>1. parts[e][p] = [status |-> "pending", attempts |-> 0]
          BY <4>1, Zenon DEF ProvedUnsent
        <5>2. [status |-> "pending", attempts |-> 0].status = "pending"
          OBVIOUS
        <5> QED
          BY <5>1, <5>2, Zenon
      <4> QED
        BY <1>t, <4>2, NotTaken
    <3>4. \A f \in EnvelopeIds : k \in Members(f) => f = e
      BY <1>t, <3>1 DEF MembersDisjoint
    <3>5. ~(mailed[k] > 0)
      BY <1>t, <3>2 DEF MailedState
    <3> QED
      BY <3>2, <3>3, <3>4, <3>5 DEF Touched
  <2>3. CASE intents[l].status = "absent"
    <3>1. PICK old \in K : l = NextGeneration(old)
      BY <1>6, <2>3 DEF fresh
    <3>2. /\ l.generation = old.generation + 1 /\ SameRevision(k, old)
          /\ k.generation \in Nat /\ old.generation \in Nat
      BY <3>1, KeyTypes, NextGenerationFields DEF SameRevision, SameStream
    <3>3. CASE k.generation = old.generation
      <4>1. k = old
        BY <3>2, <3>3, KeyFields
      <4> QED
        BY <2>2, <4>1
    <3>4. CASE k.generation # old.generation
      <4>1. k.generation < old.generation
        BY <3>2, <3>4
      <4>2. intents[old].status # "absent"
        BY <1>1
      <4> QED
        BY <1>t, <3>2, <4>1, <4>2 DEF ReplacedIsUnsent, Replaced
    <3> QED
      BY <3>3, <3>4
  <2> QED
    BY <2>1, <2>3
<1>11. HotIsNewest'
  <2>1. ASSUME NEW k \in IntentKeys, Hot(k)' PROVE Hot(k)
    <3>1. intents'[k].status \in InFlight => intents'[k] = intents[k]
      BY <1>5 DEF InFlight
    <3>2. \A f \in EnvelopeIds :
            envelopes'[f].status \in {"pending", "leased", "uncertain"}
              => envelopes'[f].status = envelopes[f].status
      BY <1>2
    <3> QED
      BY <1>2, <2>1, <3>1, <3>2 DEF Hot
  <2> QED
    BY <1>t, <1>1, <1>2, <2>1 DEF HotIsNewest, SameStream
<1>12. BaselineWasAccepted'
  BY <1>t, <1>1, <1>6 DEF BaselineWasAccepted
<1>13. AcceptedWasDelivered'
  BY <1>t, <1>1, <1>2, <1>6 DEF AcceptedWasDelivered
<1>14. LegacyState'
  <2>1. ASSUME NEW k \in IntentKeys, fresh(k)
        PROVE  \E old \in IntentKeys : /\ Hold(old) = Hold(k) /\ Reserved(old)
                                       /\ intents[old].status # "absent"
    <3>1. PICK old \in K : Hold(k) = Hold(old)
      BY <1>3, <2>1
    <3> QED
      BY <1>1, <1>4, <3>1
  <2>2. ASSUME NEW k \in IntentKeys, Hold(k) \in legacy
        PROVE  ~Reserved(k) /\ intents'[k].status \in {"absent", "legacy_hold", "superseded"}
    <3>1. /\ ~Reserved(k) /\ intents[k].status \in {"absent", "legacy_hold", "superseded"}
          /\ ~fresh(k)
      BY <1>t, <2>1, <2>2 DEF LegacyState
    <3> QED
      BY <1>6, <3>1
  <2>3. ASSUME NEW h \in LegacyReceipts \ legacy,
               \A k \in IntentKeys : Hold(k) = h => intents[k].status = "absent"
        PROVE  \A k \in IntentKeys : Hold(k) = h => intents'[k].status = "absent"
    BY <1>6, <2>1, <2>3
  <2> DEFINE adopted(h) == \E d \in Dests : Channel[d] = h[2] /\ baselines[h[1], d] > 0
             unseen(h) == \A k \in IntentKeys : Hold(k) = h => intents[k].status = "absent"
  <2>4. \A h \in LegacyReceipts \ legacy : adopted(h) \/ unseen(h)
    BY <1>t DEF LegacyState
  <2>5. legacy' = legacy /\ \A h \in LegacyReceipts : adopted(h)' <=> adopted(h)
    BY <1>1
  <2>6. \A h \in LegacyReceipts \ legacy : unseen(h) => unseen(h)'
    BY <2>3 DEF Hold
  <2>7. LegacyState' <=>
          /\ \A k \in IntentKeys :
               Hold(k) \in legacy' =>
                 /\ ~Reserved(k)'
                 /\ intents'[k].status \in {"absent", "legacy_hold", "superseded"}
          /\ \A h \in LegacyReceipts \ legacy' : adopted(h)' \/ unseen(h)'
    BY DEF LegacyState, Hold
  <2> HIDE DEF adopted, unseen
  <2> QED
    BY <1>2, <2>2, <2>4, <2>5, <2>6, <2>7
<1>15. StatusFollowsDelivery'
  <2> SUFFICES ASSUME NEW k \in IntentKeys, k.subject \in Subjects,
                      intents'[k].status # "absent",
                      revisions[k.subject][k.sequence]
                        \notin ActiveMaterials \cup FactMaterials
               PROVE  \E l \in IntentKeys : /\ SameStream(k, l) /\ l.sequence < k.sequence
                                            /\ intents'[l].status = "accepted"
    BY <1>1 DEF StatusFollowsDelivery, SameStream
  <2>1. PICK old \in IntentKeys : /\ SameRevision(k, old)
                                  /\ intents[old].status # "absent"
    <3>1. CASE fresh(k)
      BY <1>1, <1>3, <3>1
    <3>2. CASE ~fresh(k)
      BY <1>6, <3>2 DEF SameRevision, SameStream
    <3> QED
      BY <3>1, <3>2
  <2>2. old.subject = k.subject /\ old.dest = k.dest /\ old.sequence = k.sequence
    BY <2>1 DEF SameRevision, SameStream
  <2>3. PICK l \in IntentKeys : /\ SameStream(old, l) /\ l.sequence < old.sequence
                                /\ intents[l].status = "accepted"
    BY <1>t, <2>1, <2>2 DEF StatusFollowsDelivery
  <2> QED
    BY <1>6, <2>2, <2>3 DEF SameStream
<1>16. OnePerChannel => FirstIsHeld'
  <2> SUFFICES ASSUME OnePerChannel, NEW k \in IntentKeys,
                      Hold(k) \in LegacyReceipts, FirstOccurrence(k)'
               PROVE  /\ ~Reserved(k) /\ mailed[k] = 0
                      /\ intents'[k].status
                           \in {"absent", "legacy_hold", "superseded", "accepted"}
    BY <1>1, <1>2 DEF FirstIsHeld, Hold
  <2>1. FirstOccurrence(k)
    BY <1>6 DEF FirstOccurrence, SameStream
  <2>2. /\ ~Reserved(k) /\ mailed[k] = 0
        /\ intents[k].status \in {"absent", "legacy_hold", "superseded", "accepted"}
    BY <1>t, <2>1 DEF FirstIsHeld
  <2>3. ~fresh(k)
    <3> SUFFICES ASSUME NEW old \in K, SameRevision(k, old), Hold(k) = Hold(old)
                 PROVE  FALSE
      BY <1>3
    <3>1. FirstOccurrence(old)
      BY <2>1 DEF FirstOccurrence, SameRevision, SameStream
    <3>2. ~Reserved(old)
      BY <1>t, <3>1 DEF FirstIsHeld
    <3> QED
      BY <1>4, <3>2
  <2> QED
    BY <1>6, <2>2, <2>3
<1>17. OnePerChannel' <=> OnePerChannel
  BY DEF OnePerChannel
<1> QED
  BY <1>2, <1>6, <1>7, <1>8, <1>9, <1>10, <1>11, <1>12, <1>13, <1>14, <1>15, <1>16,
     <1>17 DEF RecordInv

-----------------------------------------------------------------------------
(* Staging.                                                                *)

\* A row for a revision the run has just recorded, or had not staged yet: no
\* row stands for it, and a closure goes where the job is known.
Unstaged(k) ==
    /\ k.sequence = CurrentRevision(k.subject)' /\ k.generation = 1
    /\ \A l \in IntentKeys : SameRevision(k, l) => intents[l].status = "absent"
    /\ \/ k.subject \notin Subjects
       \/ revisions'[k.subject][k.sequence] \in ActiveMaterials \cup FactMaterials
       \/ baselines[<<k.subject, k.dest>>] # 0

\* What a run that changes the streams in C and adopts the rows in A makes of k.
Restaged(k, C, A) ==
    LET old == intents[k].status
        new == intents'[k].status
        waits == old \in {"pending", "leased", "failed", "legacy_hold"}
    IN  /\ intents'[k].attempts = intents[k].attempts
        /\ \/ k \notin A /\ intents'[k] = intents[k] /\ ~(k.subject \in C /\ waits)
           \/ k \notin A /\ new = "superseded" /\ k.subject \in C /\ waits
           \/ k \notin A /\ new = "pending" /\ Unstaged(k) /\ Hold(k) \notin legacy
           \/ /\ new = IF k \in A THEN "accepted" ELSE "legacy_hold"
              /\ Hold(k) \in legacy
              /\ Unstaged(k) \/ (old = "legacy_hold" /\ k.subject \notin C)

\* A baseline is what it was, or becomes the adopted row's where there was none.
Credited(b, A) ==
    \/ baselines'[b] = baselines[b]
    \/ /\ baselines[b] = 0
       /\ \E k \in A : /\ k.subject = b[1] /\ k.dest = b[2]
                       /\ baselines'[b] = k.sequence

StagingMoves(C, A) ==
    /\ envelopes' = envelopes /\ parts' = parts /\ mailed' = mailed /\ posted' = posted
    /\ legacy' = legacy \ {Hold(k) : k \in A}
    /\ \A s \in Streams :
         /\ CurrentRevision(s)' = IF s \in C THEN CurrentRevision(s) + 1
                                  ELSE CurrentRevision(s)
         /\ \A n \in 1..CurrentRevision(s) : revisions'[s][n] = revisions[s][n]
    /\ \A b \in Streams \X Dests : Credited(b, A)
    /\ \A k \in A : baselines'[<<k.subject, k.dest>>] # 0
    /\ \A k \in IntentKeys : Restaged(k, C, A)

\* The revisions a run records: the changed streams get one more.
LEMMA StageRevises ==
    ASSUME TypeOK, NEW obs \in Observations, revisions' = Revised(obs), NEW s \in Streams
    PROVE  /\ CurrentRevision(s)' = Len(Revised(obs)[s])
           /\ CurrentRevision(s)' = IF s \in Changed(obs) THEN CurrentRevision(s) + 1
                                    ELSE CurrentRevision(s)
           /\ \A n \in 1..CurrentRevision(s) : revisions'[s][n] = revisions[s][n]
           /\ s \in DOMAIN obs => revisions'[s][CurrentRevision(s)'] = obs[s]
<1>1. revisions[s] \in Seq(Materials)
  BY DEF TypeOK
<1>2. s \in DOMAIN obs => obs[s] \in Materials
  BY DEF Observations
<1>3. Changed(obs) \subseteq DOMAIN obs
  BY DEF Changed
<1>4. revisions'[s] = IF s \in Changed(obs) THEN Append(revisions[s], obs[s])
                      ELSE revisions[s]
  BY DEF Revised
<1>5. CurrentRevision(s)' = Len(Revised(obs)[s])
  BY DEF CurrentRevision
<1>6. CASE s \in Changed(obs)
  BY <1>1, <1>2, <1>3, <1>4, <1>5, <1>6 DEF CurrentRevision
<1>7. CASE s \notin Changed(obs)
  <2>1. s \in DOMAIN obs => revisions[s][CurrentRevision(s)] = obs[s]
    BY <1>7 DEF Changed
  <2> QED
    BY <1>4, <1>5, <1>7, <2>1 DEF CurrentRevision
<1> QED
  BY <1>6, <1>7

\* Staging is such a run.
LEMMA StageIsMove ==
    ASSUME IInv, StageRun
    PROVE  \E C \in SUBSET Streams, A \in SUBSET IntentKeys : StagingMoves(C, A)
<1>t. TypeOK
  BY DEF IInv, ReservationInv
<1>1. PICK r \in Runs, targets \in SUBSET Dests, obs \in Observations, adopt \in BOOLEAN :
        \E pick \in [targets -> SUBSET DOMAIN obs] : Stage(r, targets, obs, pick, adopt)
  BY DEF StageRun
<1>2. PICK pick \in [targets -> SUBSET DOMAIN obs] : Stage(r, targets, obs, pick, adopt)
  BY <1>1
<1> DEFINE C == Changed(obs)
           held == HeldRows(obs, targets, pick)
           A == IF adopt THEN held ELSE {}
<1>3. /\ envelopes' = envelopes /\ parts' = parts /\ mailed' = mailed /\ posted' = posted
      /\ legacy' = legacy \ {Hold(k) : k \in A}
      /\ revisions' = Revised(obs)
      /\ \A d \in targets : Selectable(obs, d, pick[d])
      /\ baselines' =
           [b \in Streams \X Dests |->
              LET own == {k \in A : k.subject = b[1] /\ k.dest = b[2]}
              IN  IF baselines[b] = 0 /\ own # {}
                  THEN (CHOOSE k \in own : TRUE).sequence
                  ELSE baselines[b]]
  BY <1>2 DEF Stage
<1>4. C \in SUBSET Streams /\ A \in SUBSET IntentKeys
  <2>1. DOMAIN obs \subseteq Streams
    BY DEF Observations
  <2> QED
    BY <2>1 DEF Changed, HeldRows
<1>5. \A s \in Streams :
         /\ CurrentRevision(s)' = IF s \in C THEN CurrentRevision(s) + 1
                                  ELSE CurrentRevision(s)
         /\ \A n \in 1..CurrentRevision(s) : revisions'[s][n] = revisions[s][n]
  BY <1>t, <1>3, StageRevises
<1>6. \A b \in Streams \X Dests : Credited(b, A)
  <2> TAKE b \in Streams \X Dests
  <2> DEFINE own == {k \in A : k.subject = b[1] /\ k.dest = b[2]}
  <2>1. baselines'[b] = IF baselines[b] = 0 /\ own # {}
                        THEN (CHOOSE k \in own : TRUE).sequence ELSE baselines[b]
    BY <1>3
  <2>2. own # {} => (CHOOSE k \in own : TRUE) \in own
    OBVIOUS
  <2> HIDE DEF A
  <2> QED
    BY <2>1, <2>2 DEF Credited
<1>7. \A k \in A : baselines'[<<k.subject, k.dest>>] # 0
  <2> TAKE k \in A
  <2> DEFINE b == <<k.subject, k.dest>>
             own == {l \in A : l.subject = b[1] /\ l.dest = b[2]}
  <2>1. b \in Streams \X Dests /\ b[1] = k.subject /\ b[2] = k.dest
    BY <1>4, KeyTypes
  <2>2. k \in own
    BY <2>1
  <2>3. baselines'[b] = IF baselines[b] = 0 /\ own # {}
                        THEN (CHOOSE l \in own : TRUE).sequence ELSE baselines[b]
    BY <1>3, <2>1
  <2>4. (CHOOSE l \in own : TRUE) \in own
    BY <2>2
  <2>5. (CHOOSE l \in own : TRUE).sequence # 0
    <3>1. \A l \in own : l.sequence # 0
      <4> SUFFICES ASSUME NEW l \in own PROVE l.sequence # 0
        OBVIOUS
      <4>1. l \in IntentKeys
        BY <1>4
      <4>2. l.sequence \in Nat /\ 1 <= l.sequence
        BY <4>1, KeyTypes
      <4> QED
        BY <4>2
    <3> QED
      BY <2>4, <3>1
  <2> HIDE DEF own, b
  <2>6. baselines'[b] # 0
    BY <2>2, <2>3, <2>5
  <2> QED
    BY <2>6 DEF b
<1>8. \A k \in Enqueued(obs, targets, pick) : Unstaged(k)
  <2> TAKE k \in Enqueued(obs, targets, pick)
  <2>1. /\ k \in IntentKeys /\ k.dest \in targets /\ k.subject \in pick[k.dest]
        /\ k.sequence = Len(Revised(obs)[k.subject]) /\ k.generation = 1
    BY DEF Enqueued
  <2>2. k.subject \in Streams /\ k.subject \in DOMAIN obs
    BY <2>1, KeyTypes
  <2>3. k.sequence = CurrentRevision(k.subject)'
    BY <1>t, <1>3, <2>1, <2>2, StageRevises
  <2>4. revisions'[k.subject][k.sequence] = obs[k.subject]
    BY <1>t, <1>3, <2>2, <2>3, StageRevises
  <2>5. \A l \in IntentKeys : SameRevision(k, l) => intents[l].status = "absent"
    BY <1>3, EnqueuedIsNew
  <2>6. ASSUME k.subject \in Subjects, obs[k.subject] \notin ActiveMaterials \cup FactMaterials
        PROVE  baselines[<<k.subject, k.dest>>] # 0
    <3>1. k.subject \in StatusItems(obs, k.dest)
      <4>1. Selectable(obs, k.dest, pick[k.dest])
        BY <1>3, <2>1
      <4>2. k.subject \notin Scopes
        BY <2>6, DeliveryAssumption
      <4>3. k.subject \in Cards(obs, k.dest) \cup StatusItems(obs, k.dest)
                            \cup CoverageItems(obs, k.dest)
        BY <2>1, <4>1 DEF Selectable
      <4> QED
        BY <2>6, <4>2, <4>3 DEF Cards, CoverageItems
    <3> DEFINE n == baselines[k.subject, k.dest]
    <3>2. n > 0
      BY <2>6, <3>1, Zenon DEF StatusItems
    <3> HIDE DEF n
    <3>3. n # 0
      BY <3>2
    <3> QED
      BY <3>3 DEF n
  <2> QED
    BY <2>1, <2>3, <2>4, <2>5, <2>6 DEF Unstaged
<1>9. \A k \in IntentKeys : Restaged(k, C, A)
  <2> TAKE k \in IntentKeys
  <2>1. k \in Outdated(obs) <=>
          /\ k.subject \in C
          /\ intents[k].status \in {"pending", "leased", "failed", "legacy_hold"}
    BY DEF Outdated
  <2>2. /\ k \in held /\ adopt => k \in A
        /\ k \in A => k \in held /\ adopt
        /\ k \in held => Hold(k) \in legacy
    BY DEF HeldRows
  <2>3. k \in held => /\ k \in Enqueued(obs, targets, pick)
                         \/ (intents[k].status = "legacy_hold" /\ k \notin Outdated(obs))
    BY DEF HeldRows
  <2>4. k \in A => intents'[k].status = "accepted"
    <3> HIDE DEF held
    <3> SUFFICES ASSUME k \in A PROVE intents'[k].status = "accepted"
      OBVIOUS
    <3>1. intents'[k] = WithStatus(intents[k], "accepted")
      BY <1>2 DEF Stage, held
    <3> QED
      BY <1>t, <3>1, StatusRow DEF TypeOK, IntentStatus
  <2> HIDE DEF C, A, held
  <2>5. k \in Enqueued(obs, targets, pick) => Unstaged(k)
    BY <1>8
  <2>6. adopt \in BOOLEAN
    OBVIOUS
  <2> DEFINE attempts == intents'[k].attempts = intents[k].attempts
             enq == k \in Enqueued(obs, targets, pick)
             out == k \in Outdated(obs)
  <2>7. /\ attempts
        /\ \/ ~out /\ intents'[k] = intents[k]
           \/ out /\ intents'[k].status = "superseded"
           \/ enq /\ Hold(k) \notin legacy /\ intents'[k].status = "pending"
           \/ /\ k \in held /\ ~out
              /\ enq \/ intents[k].status = "legacy_hold"
              /\ intents'[k].status = IF adopt THEN "accepted" ELSE "legacy_hold"
    BY <1>t, <1>2, StageRow DEF held
  <2> HIDE DEF enq, out
  <2>8. /\ out => k.subject \in C /\ intents[k].status \in {"pending", "leased", "failed", "legacy_hold"}
        /\ ~out => ~(/\ k.subject \in C
                     /\ intents[k].status \in {"pending", "leased", "failed", "legacy_hold"})
        /\ enq => Unstaged(k)
    BY <2>1, <2>5 DEF out, enq
  <2>9. k \in A => /\ intents'[k].status = "accepted" /\ Hold(k) \in legacy
                   /\ Unstaged(k) \/ (intents[k].status = "legacy_hold" /\ k.subject \notin C)
    BY <2>1, <2>2, <2>3, <2>4, <2>5
  <2>10. CASE k \in A
    BY <2>7, <2>9, <2>10 DEF Restaged
  <2>11. CASE k \notin A
    <3>1. ~(k \in held /\ adopt)
      BY <2>2, <2>11
    <3> QED
      BY <2>2, <2>6, <2>7, <2>8, <2>11, <3>1 DEF Restaged
  <2> QED
    BY <2>10, <2>11
<1> QED
  <2> HIDE DEF C, A
  <2> QED
    BY <1>3, <1>4, <1>5, <1>6, <1>7, <1>9 DEF StagingMoves

\* What a run adopts or holds was never handed to anybody; what it enqueues is
\* current and new; what it takes back was not on its way.
LEMMA StageKeeps ==
    ASSUME IInv, LegacyImported, NEW C \in SUBSET Streams, NEW A \in SUBSET IntentKeys,
           StagingMoves(C, A)
    PROVE  RecordInv'
<1>t. /\ TypeOK /\ ReplacedIsRetired
      /\ RowsExist /\ MembersDistinct /\ FreeIsCurrent /\ ReplacedIsUnsent
      /\ HotIsNewest /\ BaselineWasAccepted /\ AcceptedWasDelivered
      /\ LegacyState /\ StatusFollowsDelivery /\ (OnePerChannel => FirstIsHeld)
  BY DEF IInv, RecordInv, ReservationInv
<1>1. /\ envelopes' = envelopes /\ parts' = parts /\ mailed' = mailed /\ posted' = posted
      /\ legacy' = legacy \ {Hold(k) : k \in A}
      /\ \A s \in Streams :
           /\ CurrentRevision(s)' = IF s \in C THEN CurrentRevision(s) + 1
                                    ELSE CurrentRevision(s)
           /\ \A n \in 1..CurrentRevision(s) : revisions'[s][n] = revisions[s][n]
      /\ \A b \in Streams \X Dests : Credited(b, A)
      /\ \A k \in A : baselines'[<<k.subject, k.dest>>] # 0
      /\ \A k \in IntentKeys : Restaged(k, C, A)
  BY DEF StagingMoves
<1>2. /\ \A e \in EnvelopeIds : /\ Members(e)' = Members(e)
                                /\ PartNumbers(e)' = PartNumbers(e)
      /\ \A k \in IntentKeys : /\ Reserved(k)' <=> Reserved(k)
                               /\ Touched(k)' <=> Touched(k)
  BY <1>1 DEF Members, PartNumbers, Reserved, Touched
<1>3. \A k \in IntentKeys :
        /\ k.subject \in Streams /\ k.sequence \in Nat /\ 1 <= k.sequence
        /\ CurrentRevision(k.subject) \in Nat /\ CurrentRevision(k.subject)' \in Nat
        /\ CurrentRevision(k.subject) <= CurrentRevision(k.subject)'
        /\ k.subject \notin C => CurrentRevision(k.subject)' = CurrentRevision(k.subject)
  <2> TAKE k \in IntentKeys
  <2>1. k.subject \in Streams /\ k.sequence \in Nat /\ 1 <= k.sequence
    BY KeyTypes
  <2>2. CurrentRevision(k.subject) \in Nat
    BY <1>t, <2>1, CurrentIsNat
  <2>3. CurrentRevision(k.subject)' = IF k.subject \in C THEN CurrentRevision(k.subject) + 1
                                      ELSE CurrentRevision(k.subject)
    BY <1>1, <2>1
  <2> QED
    BY <2>1, <2>2, <2>3
<1>4. \A k \in IntentKeys :
        /\ Unstaged(k) => /\ intents[k].status = "absent" /\ ~Reserved(k)
                          /\ k.sequence = CurrentRevision(k.subject)'
        /\ intents[k].status # "absent" => intents'[k].status # "absent"
        /\ intents[k].status = "accepted" => intents'[k] = intents[k]
        /\ k \in A => intents'[k].status = "accepted" /\ Hold(k) \in legacy
  <2> TAKE k \in IntentKeys
  <2>1. Unstaged(k) => intents[k].status = "absent"
    BY DEF Unstaged, SameRevision, SameStream
  <2>2. intents[k].status = "absent" => ~Reserved(k)
    BY TouchedExists
  <2>3. Restaged(k, C, A)
    BY <1>1
  <2>4. Unstaged(k) => k.sequence = CurrentRevision(k.subject)'
    BY DEF Unstaged
  <2> QED
    BY <2>1, <2>2, <2>3, <2>4 DEF Restaged
<1>5. RowsExist'
  <2> SUFFICES ASSUME NEW k \in IntentKeys
               PROVE  /\ intents'[k].status # "absent"
                           => k.sequence <= CurrentRevision(k.subject)'
                      /\ intents'[k].status \in {"absent", "legacy_hold"}
                           => intents'[k].attempts = 0
    BY DEF RowsExist
  <2>1. /\ intents[k].status # "absent" => k.sequence <= CurrentRevision(k.subject)
        /\ intents[k].status \in {"absent", "legacy_hold"} => intents[k].attempts = 0
    BY <1>t DEF RowsExist
  <2>2. Restaged(k, C, A)
    BY <1>1
  <2>3. CASE Unstaged(k)
    <3>1. intents'[k].attempts = 0
      BY <1>4, <2>1, <2>2, <2>3 DEF Restaged
    <3> QED
      BY <1>3, <1>4, <2>3, <3>1
  <2>4. CASE ~Unstaged(k)
    <3>1. /\ intents'[k].status # "absent" => intents[k].status # "absent"
          /\ intents'[k].status \in {"absent", "legacy_hold"}
               => intents[k].status \in {"absent", "legacy_hold"}
          /\ intents'[k].attempts = intents[k].attempts
      BY <2>2, <2>4 DEF Restaged
    <3> QED
      BY <1>3, <2>1, <3>1
  <2> QED
    BY <2>3, <2>4
<1>6. MembersDistinct'
  BY <1>t, <1>2 DEF MembersDistinct, SameStream
<1>7. FreeIsCurrent'
  <2> SUFFICES ASSUME NEW k \in IntentKeys
               PROVE  /\ ~Reserved(k) /\ intents'[k].status \in {"pending", "leased"}
                           => k.sequence = CurrentRevision(k.subject)'
                      /\ intents'[k].status = "legacy_hold"
                           => k.sequence = CurrentRevision(k.subject)' /\ ~Reserved(k)
    BY <1>2 DEF FreeIsCurrent, IsCurrent
  <2>1. /\ ~Reserved(k) /\ intents[k].status \in {"pending", "leased"}
             => k.sequence = CurrentRevision(k.subject)
        /\ intents[k].status = "legacy_hold"
             => k.sequence = CurrentRevision(k.subject) /\ ~Reserved(k)
    BY <1>t DEF FreeIsCurrent, IsCurrent
  <2>2. Restaged(k, C, A)
    BY <1>1
  <2> QED
    BY <1>3, <1>4, <2>1, <2>2 DEF Restaged
<1>8. ReplacedIsUnsent'
  <2> SUFFICES ASSUME NEW k \in IntentKeys, NEW l \in IntentKeys,
                      SameRevision(k, l), k.generation < l.generation,
                      intents'[l].status # "absent"
               PROVE  Reserved(k) /\ ~Touched(k)
    BY <1>2 DEF ReplacedIsUnsent, Replaced, SameRevision, SameStream
  <2>1. CASE intents[l].status # "absent"
    BY <1>t, <2>1 DEF ReplacedIsUnsent, Replaced
  <2>2. CASE intents[l].status = "absent"
    <3>1. Restaged(l, C, A)
      BY <1>1
    <3>2. Unstaged(l)
      BY <2>2, <3>1 DEF Restaged
    <3>3. l.generation = 1 /\ k.generation \in Nat /\ 1 <= k.generation
      BY <3>2, KeyTypes DEF Unstaged
    <3> QED
      BY <3>3
  <2> QED
    BY <2>1, <2>2
<1>9. HotIsNewest'
  <2> SUFFICES ASSUME NEW k \in IntentKeys, NEW l \in IntentKeys, Hot(k)', SameStream(k, l)
               PROVE  /\ baselines'[k.subject, k.dest] < k.sequence
                      /\ Touched(l) /\ l # k => l.sequence < k.sequence
    BY <1>2 DEF HotIsNewest, SameStream
  <2>1. Hot(k)
    <3>1. Restaged(k, C, A)
      BY <1>1
    <3>2. intents'[k].status \in InFlight => intents'[k] = intents[k]
      BY <3>1 DEF Restaged, InFlight
    <3> QED
      BY <1>1, <1>2, <3>2 DEF Hot
  <2>2. /\ baselines[k.subject, k.dest] < k.sequence
        /\ Touched(l) /\ l # k => l.sequence < k.sequence
    BY <1>t, <2>1 DEF HotIsNewest
  <2>3. baselines'[<<k.subject, k.dest>>] = baselines[<<k.subject, k.dest>>]
    <3>1. Credited(<<k.subject, k.dest>>, A)
      BY <1>1, KeyTypes
    <3> SUFFICES ASSUME NEW m \in A, m.subject = k.subject, m.dest = k.dest
                 PROVE  FALSE
      BY <3>1 DEF Credited
    <3>2. Hold(k) = Hold(m) /\ Hold(m) \in legacy
      BY <1>4 DEF Hold
    <3>3. ~Reserved(k) /\ intents[k].status \in {"absent", "legacy_hold", "superseded"}
      BY <1>t, <3>2 DEF LegacyState
    <3> QED
      BY <2>1, <3>3 DEF Hot, Reserved, Members, InFlight
  <2>4. baselines'[k.subject, k.dest] < k.sequence
    BY <2>2, <2>3, Zenon
  <2> QED
    BY <2>2, <2>4
<1>10. BaselineWasAccepted'
  <2> SUFFICES ASSUME NEW b \in Streams \X Dests, baselines'[b] > 0
               PROVE  \E k \in IntentKeys : /\ k.subject = b[1] /\ k.dest = b[2]
                                            /\ k.sequence = baselines'[b]
                                            /\ intents'[k].status = "accepted"
    BY DEF BaselineWasAccepted
  <2>1. Credited(b, A)
    BY <1>1
  <2>2. CASE baselines'[b] = baselines[b]
    <3>1. PICK k \in IntentKeys : /\ k.subject = b[1] /\ k.dest = b[2]
                                  /\ k.sequence = baselines[b]
                                  /\ intents[k].status = "accepted"
      BY <1>t, <2>2 DEF BaselineWasAccepted
    <3> QED
      BY <1>4, <2>2, <3>1
  <2> QED
    BY <1>4, <2>1, <2>2 DEF Credited
<1>11. AcceptedWasDelivered'
  <2> SUFFICES ASSUME NEW k \in IntentKeys,
                      intents'[k].status = "accepted", intents'[k].attempts > 0
               PROVE  \/ mailed[k] = 1
                      \/ \E e \in EnvelopeIds :
                           k \in Members(e) /\ \A p \in PartNumbers(e) : posted[e][p] = 1
    BY <1>1, <1>2 DEF AcceptedWasDelivered
  <2>1. Restaged(k, C, A)
    BY <1>1
  <2>2. intents[k].status \in {"absent", "legacy_hold"} => intents[k].attempts = 0
    BY <1>t DEF RowsExist
  <2>3. intents'[k] = intents[k]
    BY <1>4, <2>1, <2>2 DEF Restaged
  <2> QED
    BY <1>t, <2>3 DEF AcceptedWasDelivered
<1>12. ASSUME NEW k \in IntentKeys, baselines[<<k.subject, k.dest>>] # 0, Unstaged(k)
       PROVE  \E l \in IntentKeys : /\ SameStream(k, l) /\ l.sequence < k.sequence
                                    /\ intents'[l].status = "accepted"
  <2> DEFINE b == <<k.subject, k.dest>>
  <2>1. b \in Streams \X Dests /\ b[1] = k.subject /\ b[2] = k.dest
    BY KeyTypes
  <2>2. baselines[b] # 0
    BY <1>12
  <2> HIDE DEF b
  <2>3. baselines[b] > 0
    BY <1>t, <2>1, <2>2 DEF TypeOK
  <2>4. PICK l \in IntentKeys : /\ l.subject = b[1] /\ l.dest = b[2]
                                /\ intents[l].status = "accepted"
    BY <1>t, <2>1, <2>3 DEF BaselineWasAccepted
  <2>5. SameStream(k, l)
    BY <2>1, <2>4 DEF SameStream
  <2>6. l.sequence # k.sequence
    BY <1>12, <2>4, <2>5 DEF Unstaged, SameRevision
  <2>7. l.sequence <= CurrentRevision(l.subject)
    BY <1>t, <2>4 DEF RowsExist
  <2>8. /\ l.subject = k.subject /\ k.sequence = CurrentRevision(k.subject)'
        /\ l.sequence \in Nat /\ k.sequence \in Nat
        /\ CurrentRevision(k.subject) \in Nat
        /\ CurrentRevision(k.subject) <= CurrentRevision(k.subject)'
    BY <1>3, <1>4, <1>12, <2>5 DEF SameStream
  <2>9. l.sequence < k.sequence
    BY <2>6, <2>7, <2>8
  <2> QED
    BY <1>4, <2>4, <2>5, <2>9
<1>13. LegacyState'
  <2> DEFINE adopted(h) == \E d \in Dests : Channel[d] = h[2] /\ baselines[h[1], d] > 0
             unseen(h) == \A k \in IntentKeys : Hold(k) = h => intents[k].status = "absent"
  <2>1. ASSUME NEW k \in IntentKeys, Hold(k) \in legacy'
        PROVE  ~Reserved(k) /\ intents'[k].status \in {"absent", "legacy_hold", "superseded"}
    <3>1. k \notin A /\ Hold(k) \in legacy
      BY <1>1, <2>1
    <3>2. ~Reserved(k) /\ intents[k].status \in {"absent", "legacy_hold", "superseded"}
      BY <1>t, <3>1 DEF LegacyState
    <3>3. Restaged(k, C, A)
      BY <1>1
    <3> QED
      BY <3>1, <3>2, <3>3 DEF Restaged
  <2>2. ASSUME NEW h \in LegacyReceipts, h \notin legacy' PROVE adopted(h)'
    <3>1. ASSUME NEW d \in Dests, Channel[d] = h[2], baselines'[<<h[1], d>>] # 0
          PROVE  adopted(h)'
      <4> DEFINE b == <<h[1], d>>
                 n == baselines'[b]
      <4>1. b \in Streams \X Dests
        BY DeliveryAssumption DEF Streams
      <4>2. b[1] = h[1] /\ b[2] = d
        OBVIOUS
      <4>3. n # 0
        BY <3>1
      <4> HIDE DEF b
      <4>4. n \in Nat
        <5>1. Credited(b, A) /\ baselines[b] \in Nat
          BY <1>t, <1>1, <4>1 DEF TypeOK
        <5> QED
          BY <1>3, <5>1 DEF Credited
      <4> HIDE DEF n
      <4>5. n > 0
        BY <4>3, <4>4
      <4>6. baselines'[h[1], d] > 0
        BY <4>5, Zenon DEF n, b
      <4> QED
        BY <3>1, <4>6, Zenon
    <3>2. CASE h \in legacy
      <4>1. PICK k \in A : h = Hold(k)
        BY <1>1, <2>2, <3>2
      <4>2. Channel[k.dest] = h[2] /\ h[1] = k.subject /\ k.dest \in Dests
        BY <4>1, KeyTypes DEF Hold
      <4>3. baselines'[<<k.subject, k.dest>>] # 0
        BY <1>1
      <4> QED
        BY <3>1, <4>2, <4>3
    <3>3. CASE h \notin legacy
      <4>1. PICK d \in Dests : Channel[d] = h[2] /\ baselines[h[1], d] > 0
        BY <3>3, Zenon DEF LegacyImported
      <4> DEFINE b == <<h[1], d>>
      <4>2. b \in Streams \X Dests
        BY DeliveryAssumption DEF Streams
      <4>3. baselines[b] > 0
        BY <4>1, Zenon
      <4>4. baselines'[b] # 0
        <5> HIDE DEF b
        <5>1. Credited(b, A)
          BY <1>1, <4>2
        <5> QED
          BY <4>3, <5>1 DEF Credited
      <4>5. Channel[d] = h[2]
        BY <4>1, Zenon
      <4>6. baselines'[<<h[1], d>>] # 0
        BY <4>4
      <4> HIDE DEF b
      <4> QED
        BY <3>1, <4>5, <4>6, Zenon
    <3> QED
      BY <3>2, <3>3
  <2>3. LegacyState' <=>
          /\ \A k \in IntentKeys :
               Hold(k) \in legacy' =>
                 /\ ~Reserved(k)'
                 /\ intents'[k].status \in {"absent", "legacy_hold", "superseded"}
          /\ \A h \in LegacyReceipts \ legacy' : adopted(h)' \/ unseen(h)'
    BY DEF LegacyState, Hold
  <2> HIDE DEF adopted, unseen
  <2> QED
    BY <1>2, <2>1, <2>2, <2>3
<1>14. StatusFollowsDelivery'
  <2> SUFFICES ASSUME NEW k \in IntentKeys, k.subject \in Subjects,
                      intents'[k].status # "absent",
                      revisions'[k.subject][k.sequence]
                        \notin ActiveMaterials \cup FactMaterials
               PROVE  \E l \in IntentKeys : /\ SameStream(k, l) /\ l.sequence < k.sequence
                                            /\ intents'[l].status = "accepted"
    BY DEF StatusFollowsDelivery, SameStream
  <2>1. CASE intents[k].status # "absent"
    <3>1. /\ k.sequence <= CurrentRevision(k.subject) /\ k.subject \in Streams
          /\ k.sequence \in Nat /\ 1 <= k.sequence /\ CurrentRevision(k.subject) \in Nat
      BY <1>t, <1>3, <2>1 DEF RowsExist
    <3>2. revisions'[k.subject][k.sequence] = revisions[k.subject][k.sequence]
      BY <1>1, <3>1
    <3>3. PICK l \in IntentKeys : /\ SameStream(k, l) /\ l.sequence < k.sequence
                                  /\ intents[l].status = "accepted"
      BY <1>t, <2>1, <3>2 DEF StatusFollowsDelivery
    <3> QED
      BY <1>4, <3>3
  <2>2. CASE intents[k].status = "absent"
    <3>1. Restaged(k, C, A)
      BY <1>1
    <3>2. Unstaged(k)
      BY <2>2, <3>1 DEF Restaged
    <3> QED
      BY <1>12, <3>2 DEF Unstaged
  <2> QED
    BY <2>1, <2>2
<1>15. OnePerChannel => FirstIsHeld'
  <2> SUFFICES ASSUME OnePerChannel, NEW k \in IntentKeys,
                      Hold(k) \in LegacyReceipts, FirstOccurrence(k)'
               PROVE  /\ ~Reserved(k) /\ mailed[k] = 0
                      /\ intents'[k].status
                           \in {"absent", "legacy_hold", "superseded", "accepted"}
    BY <1>1, <1>2 DEF FirstIsHeld, Hold
  <2>1. FirstOccurrence(k)
    BY <1>4 DEF FirstOccurrence, SameStream
  <2>2. /\ ~Reserved(k) /\ mailed[k] = 0
        /\ intents[k].status \in {"absent", "legacy_hold", "superseded", "accepted"}
    BY <1>t, <2>1 DEF FirstIsHeld
  <2>3. ~(Unstaged(k) /\ Hold(k) \notin legacy)
    <3> SUFFICES ASSUME Unstaged(k), Hold(k) \notin legacy PROVE FALSE
      OBVIOUS
    <3> DEFINE h == Hold(k)
    <3>1. h \in LegacyReceipts /\ h \notin legacy
      OBVIOUS
    <3>2. h[1] = k.subject /\ h[2] = Channel[k.dest] /\ k.dest \in Dests
      BY KeyTypes DEF Hold
    <3> HIDE DEF h
    <3>3. PICK d \in Dests : Channel[d] = h[2] /\ baselines[h[1], d] > 0
      BY <3>1, Zenon DEF LegacyImported
    <3>4. Channel[d] = h[2]
      BY <3>3, Zenon
    <3>5. d = k.dest
      BY <3>2, <3>4 DEF OnePerChannel
    <3> DEFINE n == baselines[h[1], d]
    <3>6. n > 0
      BY <3>3, Zenon
    <3>7. n = baselines[<<k.subject, k.dest>>]
      BY <3>2, <3>5
    <3> HIDE DEF n
    <3>8. baselines[<<k.subject, k.dest>>] # 0
      BY <3>6, <3>7
    <3>9. PICK l \in IntentKeys : /\ SameStream(k, l) /\ l.sequence < k.sequence
                                  /\ intents'[l].status = "accepted"
      BY <1>12, <3>8
    <3> QED
      BY <3>9 DEF FirstOccurrence, SameStream
  <2>4. Restaged(k, C, A)
    BY <1>1
  <2> QED
    BY <2>2, <2>3, <2>4 DEF Restaged
<1>16. OnePerChannel' <=> OnePerChannel
  BY DEF OnePerChannel
<1> QED
  BY <1>5, <1>6, <1>7, <1>8, <1>9, <1>10, <1>11, <1>13, <1>14, <1>15, <1>16 DEF RecordInv

\* So a run keeps what is recorded.
LEMMA StageRecords ==
    ASSUME IInv, StageRun
    PROVE  RecordInv'
<1>1. LegacyImported
  BY DEF StageRun
<1> QED
  BY <1>1, StageIsMove, StageKeeps

-----------------------------------------------------------------------------
(* Every step is one of four: rows proceed, the provider takes something,  *)
(* a run is staged, or rows and receipts are rearranged.                   *)

\* Nothing arrives, is recorded or changes; what is accepted stays so.
Rearranges ==
    /\ UNCHANGED <<revisions, baselines>>
    /\ \A k \in IntentKeys :
         /\ Touched(k)' <=> Touched(k)
         /\ intents[k].status = "accepted" => intents'[k].status = "accepted"

Changes ==
    \/ \E K \in SUBSET IntentKeys : Proceeds(K)
    \/ Takes
    \/ LegacyImported /\ \E C \in SUBSET Streams, A \in SUBSET IntentKeys : StagingMoves(C, A)
    \/ Rearranges /\ RecordInv'

\* A step of the couriers, of a run or of the cutover is one of the four.
LEMMA OutboxChanges ==
    ASSUME IInv, OutboxNext
    PROVE  Changes
<1>1. CASE StageRun
  <2>1. LegacyImported
    BY <1>1 DEF StageRun
  <2> QED
    BY <1>1, <2>1, StageIsMove DEF Changes
<1>2. CASE ImportLegacy
  <2>1. RecordInv'
    BY <1>2, ImportRecords
  <2>2. UNCHANGED <<revisions, intents, baselines, envelopes, mailed, posted>>
    BY <1>2 DEF ImportLegacy
  <2>3. Rearranges
    BY <2>2 DEF Rearranges, Touched, Members
  <2> QED
    BY <2>1, <2>3 DEF Changes
<1>3. CASE \E c \in Couriers, a \in Answers : CourierAnswered(c, a)
  BY <1>3, CourierTakes DEF Changes
<1>4. CASE \/ \E k \in IntentKeys : ExpireIntent(k)
           \/ \E c \in Couriers :
                \/ \E k \in IntentKeys : ClaimNext(c, k)
                \/ BeginSend(c) \/ Finish(c) \/ CourierRefused(c) \/ CourierDies(c)
           \/ \E k \in IntentKeys, o \in {"accepted", "not_sent"} : Reconcile(k, o)
  <2>1. \E K \in SUBSET IntentKeys : Proceeds(K)
    BY <1>4, CouriersProceed
  <2> QED
    BY <2>1 DEF Changes
<1> QED
  BY <1>1, <1>2, <1>3, <1>4 DEF OutboxNext, CourierStep

\* So is a step of the senders or of the operator.
LEMMA TransportChanges ==
    ASSUME IInv, TransportNext
    PROVE  Changes
<1>1. CASE PrepareSome
  <2>1. PICK e \in EnvelopeIds, d \in Dests, n \in Ordinals :
          \E K \in SUBSET {k \in IntentKeys : Preparable(k, d)} : Prepare(e, d, K, n)
    BY <1>1 DEF PrepareSome
  <2>2. PICK K \in SUBSET {k \in IntentKeys : Preparable(k, d)} : Prepare(e, d, K, n)
    BY <2>1
  <2>3. K \in SUBSET IntentKeys
    OBVIOUS
  <2>4. RecordInv' /\ \A k \in IntentKeys : Touched(k)' <=> Touched(k)
    BY <2>2, <2>3, PrepareRecords
  <2>5. UNCHANGED <<revisions, intents, baselines>>
    BY <2>2 DEF Prepare
  <2> QED
    BY <2>4, <2>5 DEF Changes, Rearranges
<1>2. CASE ReissueSome
  <2>1. PICK E \in SUBSET EnvelopeIds \ {{}} :
          \E K \in SUBSET UNION {Members(e) : e \in E} : ReissueUnsent(E, K)
    BY <1>2 DEF ReissueSome
  <2>2. PICK K \in SUBSET UNION {Members(e) : e \in E} : ReissueUnsent(E, K)
    BY <2>1
  <2>3. E \in SUBSET EnvelopeIds /\ K \in SUBSET IntentKeys
    <3>1. \A e \in EnvelopeIds : Members(e) \subseteq IntentKeys
      BY DEF IInv, ReservationInv, TypeOK, EnvelopeRows, Members
    <3> QED
      BY <3>1
  <2>4. /\ RecordInv'
        /\ \A k \in IntentKeys : Touched(k)' <=> Touched(k)
        /\ \A k \in IntentKeys :
             intents[k].status = "accepted" <=> intents'[k].status = "accepted"
    BY <2>2, <2>3, ReissueRecords
  <2>5. UNCHANGED <<revisions, baselines>>
    BY <2>2 DEF ReissueUnsent
  <2> QED
    BY <2>4, <2>5 DEF Changes, Rearranges
<1>3. CASE \E w \in Senders, a \in Answers : SenderAnswered(w, a)
  BY <1>3, SenderTakes DEF Changes
<1>4. CASE \/ \E e \in EnvelopeIds :
                \/ ExpireEnvelope(e) \/ ClaimStale(e) \/ Abandon(e)
                \/ \E p \in Ordinals, o \in {"accepted", "not_sent"} : ReconcilePart(e, p, o)
           \/ \E w \in Senders :
                \/ \E e \in EnvelopeIds : Claim(w, e)
                \/ \E p \in Ordinals : BeginPart(w, p)
                \/ BeginPartStale(w) \/ FinishPart(w) \/ SenderRefused(w) \/ SenderDies(w)
  <2>1. \E K \in SUBSET IntentKeys : Proceeds(K)
    BY <1>4, SendersProceed
  <2> QED
    BY <2>1 DEF Changes
<1> QED
  BY <1>1, <1>2, <1>3, <1>4 DEF TransportNext, SenderStep, Operator

\* Doing nothing is proceeding with nothing.
LEMMA StepChanges ==
    ASSUME IInv, [Next]_vars
    PROVE  Changes
<1>1. CASE UNCHANGED vars
  <2>1. UNCHANGED <<tables, mailed, posted>>
    BY <1>1 DEF vars, tables
  <2>2. Proceeds({}) /\ {} \in SUBSET IntentKeys
    BY <2>1, NothingProceeds
  <2> QED
    BY <2>2 DEF Changes
<1> QED
  BY <1>1, OutboxChanges, TransportChanges DEF Next

\* Nothing is recorded at first.
LEMMA RecordInit == Init => RecordInv
<1> SUFFICES ASSUME Init PROVE RecordInv
  OBVIOUS
<1>1. /\ \A k \in IntentKeys : /\ intents[k].status = "absent" /\ intents[k].attempts = 0
                               /\ mailed[k] = 0
      /\ \A e \in EnvelopeIds : Members(e) = {}
      /\ \A b \in Streams \X Dests : baselines[b] = 0
      /\ legacy = {}
  BY DEF Init, NoIntent, Members
<1>2. \A k \in IntentKeys : ~Reserved(k) /\ ~Hot(k) /\ ~Replaced(k)
  BY <1>1 DEF Reserved, Hot, Replaced, Members, InFlight
<1>3. RowsExist /\ MembersDistinct /\ FreeIsCurrent
  BY <1>1, <1>2 DEF RowsExist, MembersDistinct, FreeIsCurrent
<1>4. ReplacedIsUnsent /\ HotIsNewest
  BY <1>2 DEF ReplacedIsUnsent, HotIsNewest
<1>5. BaselineWasAccepted
  BY <1>1 DEF BaselineWasAccepted
<1>6. AcceptedWasDelivered /\ StatusFollowsDelivery
  BY <1>1 DEF AcceptedWasDelivered, StatusFollowsDelivery
<1>7. LegacyState
  <2>1. \A k \in IntentKeys : Hold(k) \notin legacy
    BY <1>1
  <2> QED
    BY <1>1, <2>1, Zenon DEF LegacyState
<1>8. FirstIsHeld
  BY <1>1, <1>2 DEF FirstIsHeld
<1> QED
  BY <1>3, <1>4, <1>5, <1>6, <1>7, <1>8 DEF RecordInv

\* Every step keeps what is recorded.
LEMMA RecordStep == IInv /\ [Next]_vars => RecordInv'
<1> SUFFICES ASSUME IInv, [Next]_vars PROVE RecordInv'
  OBVIOUS
<1>1. MailInv' /\ PartsInv'
  BY MailStep, PartsStep DEF IInv
<1>2. Changes
  BY StepChanges
<1> QED
  BY <1>1, <1>2, ProceedsKeep, TakesKeep, StageKeeps DEF Changes

\* The invariant holds at first.
LEMMA InvInit == Init => IInv
  BY ReservationInit, PartsInit, MailInit, RecordInit DEF IInv

\* Every step keeps it.
LEMMA InvStep == IInv /\ [Next]_vars => IInv'
  BY ReservationStep, PartsStep, MailStep, RecordStep DEF IInv

\* The inductive invariant of durable delivery: every step of the runs, the
\* couriers, the senders, the provider and the operator keeps it.
THEOREM Invariant == Spec => []IInv
  BY InvInit, InvStep, PTL DEF Spec

\* Two rows of one revision are never both taken: the replaced one was not.
LEMMA OnceDelivered == IInv => DeliveredOnce
<1> SUFFICES ASSUME IInv PROVE DeliveredOnce
  OBVIOUS
<1>1. ASSUME NEW k \in IntentKeys
      PROVE  mailed[k] <= 1 /\ (mailed[k] > 0 => ~Reserved(k))
  BY DEF IInv, MailInv, MailedState, TypeOK
<1>2. ASSUME NEW e \in EnvelopeIds, NEW p \in Ordinals
      PROVE  posted[e][p] <= 1
  <2>1. posted[e][p] > 0 => posted[e][p] = 1
    BY DEF IInv, PartsInv, PostedState
  <2>2. posted[e][p] \in Nat
    BY DEF IInv, PartsInv, TypeOK
  <2> QED
    BY <2>1, <2>2
<1>3. ASSUME NEW k \in IntentKeys, NEW l \in IntentKeys,
             SameRevision(k, l), Touched(k), Touched(l)
      PROVE  k = l
  <2>1. intents[k].status # "absent" /\ intents[l].status # "absent"
    BY <1>3, TouchedExists
  <2>2. ~Replaced(k) /\ ~Replaced(l)
    BY <1>3 DEF IInv, RecordInv, ReplacedIsUnsent
  <2> QED
    BY <1>3, <2>1, <2>2, OneReplaced
<1> QED
  BY <1>1, <1>2, <1>3 DEF DeliveredOnce

\* No message is taken twice and no revision reaches a destination twice, on
\* whichever path, across crashes, lapsed leases, lost answers and reissues.
THEOREM NoSilentDuplicate == Spec => []DeliveredOnce
  BY Invariant, OnceDelivered, PTL

\* A row that counts as delivered after an attempt was taken, all of its parts.
THEOREM NoSilentLoss == Spec => []AcceptedWasDelivered
<1>1. IInv => AcceptedWasDelivered
  BY DEF IInv, RecordInv
<1> QED
  BY <1>1, Invariant, PTL

\* A card overtaken by a newer observation is never free to be sent again.
THEOREM NoResurrection == Spec => []PendingIsCurrent
<1>1. IInv => PendingIsCurrent
  BY DEF IInv, RecordInv, FreeIsCurrent, PendingIsCurrent
<1> QED
  BY <1>1, Invariant, PTL

\* A closure is announced only where an earlier version of the job was accepted.
THEOREM ClosuresAreKnown == Spec => []StatusFollowsDelivery
<1>1. IInv => StatusFollowsDelivery
  BY DEF IInv, RecordInv
<1> QED
  BY <1>1, Invariant, PTL

\* What is held or adopted at its first occurrence was never taken.
LEMMA HeldIsUntouched == OnePerChannel /\ IInv => LegacyNotResent
<1> SUFFICES ASSUME OnePerChannel, IInv,
                    NEW h \in LegacyReceipts, NEW k \in IntentKeys,
                    k.subject = h[1], Channel[k.dest] = h[2],
                    FirstOccurrence(k)
             PROVE  ~Touched(k)
  BY DEF LegacyNotResent, FirstOccurrence
<1>1. Hold(k) = h
  BY DeliveryAssumption DEF Hold
<1>2. ~Reserved(k) /\ mailed[k] = 0
  BY <1>1 DEF IInv, RecordInv, FirstIsHeld
<1> QED
  BY <1>2 DEF Touched, Reserved, Members

\* With one destination per channel, what V4.2 already sent is not sent again
\* at its first occurrence.
THEOREM CutoverIsQuiet ==
    ASSUME OnePerChannel
    PROVE  Spec => []LegacyNotResent
<1>1. IInv => LegacyNotResent
  BY HeldIsUntouched
<1> QED
  BY <1>1, Invariant, PTL

\* An accepted row is accepted after every step.
LEMMA AcceptedStays ==
    ASSUME IInv, [Next]_vars, NEW k \in IntentKeys, intents[k].status = "accepted"
    PROVE  intents'[k].status = "accepted"
<1>1. Changes
  BY StepChanges
<1>2. CASE \E K \in SUBSET IntentKeys : Proceeds(K)
  BY <1>2 DEF Proceeds, RowMoves
<1>3. CASE Takes
  BY <1>3 DEF Takes, tables
<1>4. CASE \E C \in SUBSET Streams, A \in SUBSET IntentKeys : StagingMoves(C, A)
  <2>1. PICK C \in SUBSET Streams, A \in SUBSET IntentKeys : StagingMoves(C, A)
    BY <1>4
  <2>2. Restaged(k, C, A)
    BY <2>1 DEF StagingMoves
  <2>3. ~Unstaged(k)
    BY DEF Unstaged, SameRevision, SameStream
  <2> QED
    BY <2>2, <2>3 DEF Restaged
<1>5. CASE Rearranges
  BY <1>5 DEF Rearranges
<1> QED
  BY <1>1, <1>2, <1>3, <1>4, <1>5 DEF Changes

\* A delivered row is delivered for good.
THEOREM AcceptedForGood == Spec => DeliveredIsFinal
<1>1. IInv /\ [Next]_vars =>
        [\A k \in IntentKeys : intents[k].status = "accepted" =>
           intents'[k].status = "accepted"]_vars
  BY AcceptedStays
<1> QED
  BY <1>1, Invariant, PTL DEF Spec, DeliveredIsFinal

-----------------------------------------------------------------------------
(* The refinement.  Every step of the queues, leases, digests, crashes and *)
(* reviews is a step of DeliveryPromise under the mapping of               *)
(* DeliveryInvariant, or leaves its state alone.                           *)


\* The numbers of the newest states, as the mapping reads them.
Newest == [s \in Streams |-> CurrentRevision(s)]

\* A state that arrived is that of a row the provider took.
LEMMA ArrivedIs ==
    ASSUME NEW x
    PROVE  x \in ArrivedStates <=>
             \E k \in IntentKeys : Touched(k) /\ x = <<k.subject, k.dest, k.sequence>>
  BY DEF ArrivedStates

\* Nothing arrives where the provider takes nothing.
LEMMA ArrivedStay ==
    ASSUME \A k \in IntentKeys : Touched(k)' <=> Touched(k)
    PROVE  ArrivedStates' = ArrivedStates
  BY DEF ArrivedStates

\* What is recorded by a step that proceeds has arrived.
LEMMA ProceedsConfirms ==
    ASSUME IInv, NEW K \in SUBSET IntentKeys, Proceeds(K)
    PROVE  Promise!Confirm
<1>t. TypeOK /\ PartsNumbered
  BY DEF IInv, ReservationInv, PartsInv
<1>1. /\ revisions' = revisions /\ mailed' = mailed /\ posted' = posted
      /\ \A e \in EnvelopeIds : Members(e)' = Members(e)
      /\ baselines' = Accept(K)
      /\ \A k \in K : Delivered(k)
  BY DEF Proceeds
<1>2. UNCHANGED Newest
  BY <1>1 DEF Newest, CurrentRevision
<1>3. UNCHANGED ArrivedStates
  BY <1>1, ArrivedStay DEF Touched
<1>4. baselines' \in [Streams \X Dests -> Nat]
  BY <1>t, <1>1, AcceptType
<1>5. ASSUME NEW k \in IntentKeys, Delivered(k) PROVE Touched(k)
  <2>1. CASE mailed[k] = 1
    BY <2>1 DEF Touched
  <2>2. CASE \E e \in EnvelopeIds : /\ k \in Members(e) /\ PartNumbers(e) # {}
                                    /\ \A p \in PartNumbers(e) : posted[e][p] = 1
    <3>1. PICK e \in EnvelopeIds : /\ k \in Members(e) /\ PartNumbers(e) # {}
                                   /\ \A p \in PartNumbers(e) : posted[e][p] = 1
      BY <2>2
    <3>2. PICK p \in PartNumbers(e) : posted[e][p] = 1
      BY <3>1
    <3>3. p \in Ordinals /\ posted[e][p] > 0
      BY <1>t, <3>2 DEF PartsNumbered
    <3> QED
      BY <3>1, <3>3 DEF Touched
  <2> QED
    BY <1>5, <2>1, <2>2 DEF Delivered
<1>6. ASSUME NEW b \in Streams \X Dests
      PROVE  \/ baselines'[b] = baselines[b]
             \/ /\ baselines'[b] > baselines[b]
                /\ <<b[1], b[2], baselines'[b]>> \in ArrivedStates
  <2>1. CASE baselines'[b] = baselines[b]
    BY <2>1
  <2>2. CASE baselines'[b] # baselines[b]
    <3>1. PICK k \in K : /\ k.subject = b[1] /\ k.dest = b[2]
                         /\ k.sequence > baselines[b]
                         /\ baselines'[b] = k.sequence
      BY <1>t, <1>1, <2>2, AcceptValue
    <3>2. Touched(k)
      BY <1>1, <1>5
    <3>3. <<b[1], b[2], baselines'[b]>> = <<k.subject, k.dest, k.sequence>>
      BY <3>1
    <3>4. <<b[1], b[2], baselines'[b]>> \in ArrivedStates
      BY <3>2, <3>3, ArrivedIs
    <3> QED
      BY <3>1, <3>4
  <2> QED
    BY <2>1, <2>2
<1> QED
  BY <1>2, <1>3, <1>4, <1>6 DEF Promise!Confirm, Newest

\* What the provider takes is newer than what arrived or is recorded there.
LEMMA TakesArrives ==
    ASSUME IInv, Takes
    PROVE  Promise!Arrive
<1>t. TypeOK /\ RowsExist /\ HotIsNewest
  BY DEF IInv, ReservationInv, RecordInv
<1>1. /\ revisions' = revisions /\ baselines' = baselines
      /\ \A k \in IntentKeys : /\ Touched(k)' => Touched(k) \/ Hot(k)
                               /\ Touched(k) => Touched(k)'
  BY DEF Takes, tables
<1>2. UNCHANGED Newest
  BY <1>1 DEF Newest, CurrentRevision
<1>3. ArrivedStates \subseteq ArrivedStates'
  BY <1>1 DEF ArrivedStates
<1>4. ASSUME NEW x \in ArrivedStates' \ ArrivedStates
      PROVE  /\ x \in Streams \X Dests \X Nat
             /\ 0 < x[3] /\ x[3] <= Newest[x[1]]
             /\ baselines[x[1], x[2]] < x[3]
             /\ \A y \in ArrivedStates : y[1] = x[1] /\ y[2] = x[2] => y[3] < x[3]
  <2>1. PICK k \in IntentKeys : Touched(k)' /\ x = <<k.subject, k.dest, k.sequence>>
    BY DEF ArrivedStates
  <2>2. ~Touched(k)
    BY <2>1, ArrivedIs
  <2>3. Hot(k)
    BY <1>1, <2>1, <2>2
  <2>4. /\ k.subject \in Streams /\ k.dest \in Dests
        /\ k.sequence \in Nat /\ 1 <= k.sequence
    BY KeyTypes
  <2>5. x[1] = k.subject /\ x[2] = k.dest /\ x[3] = k.sequence
    BY <2>1
  <2>6. intents[k].status # "absent"
    <3>1. Reserved(k) => intents[k].status # "absent"
      BY TouchedExists
    <3> QED
      BY <2>3, <3>1 DEF Hot, Reserved, Members, InFlight
  <2>7. x[3] <= Newest[x[1]]
    BY <1>t, <2>4, <2>5, <2>6 DEF RowsExist, Newest
  <2>8. baselines[x[1], x[2]] < x[3]
    <3>1. SameStream(k, k)
      BY DEF SameStream
    <3>2. baselines[k.subject, k.dest] < k.sequence
      BY <1>t, <2>3, <3>1, Zenon DEF HotIsNewest
    <3> QED
      BY <2>5, <3>2, Zenon
  <2>9. ASSUME NEW y \in ArrivedStates, y[1] = x[1], y[2] = x[2] PROVE y[3] < x[3]
    <3>1. PICK l \in IntentKeys : Touched(l) /\ y = <<l.subject, l.dest, l.sequence>>
      BY ArrivedIs
    <3>2. SameStream(k, l) /\ y[3] = l.sequence
      BY <2>5, <2>9, <3>1 DEF SameStream
    <3>3. l # k
      BY <2>2, <3>1
    <3>4. l.sequence < k.sequence
      BY <1>t, <2>3, <3>1, <3>2, <3>3, Zenon DEF HotIsNewest
    <3> QED
      BY <2>5, <3>2, <3>4
  <2>10. x \in Streams \X Dests \X Nat /\ 0 < x[3]
    BY <2>1, <2>4
  <2> QED
    BY <2>7, <2>8, <2>9, <2>10, Zenon
<1> QED
  BY <1>1, <1>2, <1>3, <1>4, Zenon DEF Promise!Arrive, Newest

\* A run changes some jobs, and credits destinations that had nothing with the
\* newest state of a job.
LEMMA StageObserves ==
    ASSUME IInv, IInv', NEW C \in SUBSET Streams, NEW A \in SUBSET IntentKeys,
           StagingMoves(C, A)
    PROVE  Promise!Observe
<1>t. TypeOK /\ TypeOK' /\ FreeIsCurrent
  BY DEF IInv, ReservationInv, RecordInv
<1>1. /\ envelopes' = envelopes /\ mailed' = mailed /\ posted' = posted
      /\ \A s \in Streams :
           CurrentRevision(s)' = IF s \in C THEN CurrentRevision(s) + 1
                                 ELSE CurrentRevision(s)
      /\ \A b \in Streams \X Dests : Credited(b, A)
      /\ \A k \in A : Restaged(k, C, A)
  BY DEF StagingMoves
<1>2. UNCHANGED ArrivedStates
  BY <1>1, ArrivedStay DEF Touched, Members
<1>3. Newest' = [s \in Streams |-> IF s \in C THEN Newest[s] + 1 ELSE Newest[s]]
  BY <1>1 DEF Newest
<1>4. ASSUME NEW k \in A PROVE k.sequence = CurrentRevision(k.subject)'
  <2>1. CASE Unstaged(k)
    BY <2>1 DEF Unstaged
  <2>2. CASE ~Unstaged(k)
    <3>1. intents[k].status = "legacy_hold" /\ k.subject \notin C
      BY <1>1, <2>2 DEF Restaged
    <3>2. k.sequence = CurrentRevision(k.subject) /\ k.subject \in Streams
      BY <1>t, <3>1, KeyTypes DEF FreeIsCurrent, IsCurrent
    <3> QED
      BY <1>1, <3>1, <3>2
  <2> QED
    BY <2>1, <2>2
<1> DEFINE B == {b \in Streams \X Dests : baselines'[b] # baselines[b]}
<1>5. \A b \in B : baselines[b] = 0 /\ baselines'[b] = Newest'[b[1]]
  <2> SUFFICES ASSUME NEW b \in B
               PROVE  baselines[b] = 0 /\ baselines'[b] = Newest'[b[1]]
    OBVIOUS
  <2>1. b \in Streams \X Dests /\ baselines'[b] # baselines[b]
    OBVIOUS
  <2>2. PICK k \in A : k.subject = b[1] /\ baselines'[b] = k.sequence /\ baselines[b] = 0
    BY <1>1, <2>1 DEF Credited
  <2>3. b[1] \in Streams
    BY <2>1
  <2>4. Newest'[b[1]] = CurrentRevision(b[1])'
    BY <2>3 DEF Newest
  <2> QED
    BY <1>4, <2>2, <2>4
<1>6. baselines' = [b \in Streams \X Dests |->
                      IF b \in B THEN Newest'[b[1]] ELSE baselines[b]]
  <2>1. baselines' \in [Streams \X Dests -> Nat]
    BY <1>t DEF TypeOK
  <2> QED
    BY <1>5, <2>1
<1>7. B \in SUBSET {b \in Streams \X Dests : baselines[b] = 0}
  BY <1>5
<1> HIDE DEF B
<1> QED
  BY <1>2, <1>3, <1>6, <1>7 DEF Promise!Observe, Newest

\* Every step of delivery is a step of the promise, or leaves its state alone.
LEMMA StepKeepsPromise ==
    ASSUME IInv, IInv', [Next]_vars
    PROVE  [Promise!PromiseNext]_(Promise!promiseVars)
<1>1. Changes
  BY StepChanges
<1>2. CASE \E K \in SUBSET IntentKeys : Proceeds(K)
  BY <1>2, ProceedsConfirms DEF Promise!PromiseNext
<1>3. CASE Takes
  BY <1>3, TakesArrives DEF Promise!PromiseNext
<1>4. CASE \E C \in SUBSET Streams, A \in SUBSET IntentKeys : StagingMoves(C, A)
  BY <1>4, StageObserves DEF Promise!PromiseNext
<1>5. CASE Rearranges
  <2>1. UNCHANGED <<revisions, baselines>> /\ UNCHANGED ArrivedStates
    BY <1>5, ArrivedStay DEF Rearranges
  <2>2. UNCHANGED Newest
    BY <2>1 DEF Newest, CurrentRevision
  <2> QED
    BY <2>1, <2>2 DEF Promise!promiseVars, Newest
<1> QED
  BY <1>1, <1>2, <1>3, <1>4, <1>5 DEF Changes

\* At first no job has a state, and nothing arrived or is recorded.
LEMMA InitKeepsPromise == Init => Promise!PromiseInit
<1> SUFFICES ASSUME Init PROVE Promise!PromiseInit
  OBVIOUS
<1>1. [s \in Streams |-> CurrentRevision(s)] = [s \in Streams |-> 0]
  BY DEF Init, CurrentRevision
<1>2. ArrivedStates = {}
  BY DEF Init, ArrivedStates, Touched
<1>3. baselines = [b \in Streams \X Dests |-> 0]
  BY DEF Init
<1> QED
  BY <1>1, <1>2, <1>3 DEF Promise!PromiseInit

\* Delivery implements the promise: each state of a job reaches a destination
\* at most once and never after a newer one, and a baseline only moves forward,
\* to something that arrived there or, once, to what V4.2 had delivered.
THEOREM DeliveryImplementsPromise == Spec => KeepsPromise
<1>1. Init => Promise!PromiseInit
  BY InitKeepsPromise
<1>2. IInv /\ IInv' /\ [Next]_vars => [Promise!PromiseNext]_(Promise!promiseVars)
  BY StepKeepsPromise
<1> QED
  BY <1>1, <1>2, Invariant, PTL DEF Spec, KeepsPromise, Promise!PromiseSpec

=============================================================================
