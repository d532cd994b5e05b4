---------------------------- MODULE DeliveryProofs ----------------------------
(***************************************************************************)
(* Proofs about DigestTransport for every value of its constants, first    *)
(* two of the groups of its inductive invariant.                           *)
(* Reservation: no two rows of a job may be on their way (ReservationInv). *)
(* What the processes know of the provider.  Senders and parts: PartsInv.  *)
(* The couriers and the staging of runs leave all of it alone; a step of   *)
(* the transport puts envelopes to rest (Rests), claims one, starts a      *)
(* part, hears from the provider, or freezes a new envelope.  Couriers and *)
(* rows: MailInv.  The transport leaves the rows outside every digest      *)
(* alone.                                                                  *)
(***************************************************************************)
EXTENDS DeliveryInvariant, TLAPS

-----------------------------------------------------------------------------
(* The row updates.                                                        *)

\* A status update yields a row with that status, the same attempts, no token.
LEMMA StatusRow ==
    ASSUME NEW row \in IntentRows, NEW st \in IntentStatus
    PROVE  /\ WithStatus(row, st) \in IntentRows
           /\ WithStatus(row, st).status = st
           /\ WithStatus(row, st).attempts = row.attempts
           /\ WithStatus(row, st).token = None
  BY DEF WithStatus, IntentRows

\* A claim marks the row with its process.
LEMMA LeasedRow ==
    ASSUME NEW row \in IntentRows, NEW c \in Processes
    PROVE  /\ Leased(row, c) \in IntentRows
           /\ Leased(row, c).status = "leased"
           /\ Leased(row, c).attempts = row.attempts
           /\ Leased(row, c).token = c
  BY DEF Leased, IntentRows, IntentStatus

\* The start of a send counts the attempt and keeps the claim.
LEMMA StartedRow ==
    ASSUME NEW row \in IntentRows
    PROVE  /\ Started(row) \in IntentRows
           /\ Started(row).status = "sending"
           /\ Started(row).attempts = row.attempts + 1
           /\ Started(row).token = row.token
<1>1. row.attempts \in Nat
  BY DEF IntentRows
<1>2. row.attempts + 1 \in Nat
  BY <1>1
<1> DEFINE n == row.attempts + 1
<1>3. n \in Nat
  BY <1>2
<1> HIDE DEF n
<1>4. /\ [row EXCEPT !.status = "sending", !.attempts = n] \in IntentRows
      /\ [row EXCEPT !.status = "sending", !.attempts = n].status = "sending"
      /\ [row EXCEPT !.status = "sending", !.attempts = n].attempts = n
      /\ [row EXCEPT !.status = "sending", !.attempts = n].token = row.token
  BY <1>3 DEF IntentRows, IntentStatus
<1> QED
  BY <1>4 DEF Started, n

\* The row a new intent starts as.
LEMMA NewRow == NoIntent \in IntentRows
  BY DEF NoIntent, IntentRows, IntentStatus

\* SetIntents touches only the members of the envelope that are still live.
LEMMA SetIntentsRows ==
    ASSUME TypeOK, NEW e \in EnvelopeIds, NEW st \in IntentStatus
    PROVE  /\ SetIntents(e, st) \in [IntentKeys -> IntentRows]
           /\ \A k \in IntentKeys :
                IF k \in Members(e)
                   /\ intents[k].status \notin {"superseded", "accepted"}
                THEN SetIntents(e, st)[k].status = st
                ELSE SetIntents(e, st)[k] = intents[k]
  BY StatusRow DEF SetIntents, TypeOK, Members

\* The same for an envelope's row; its members stay frozen.
LEMMA EnvelopeRow ==
    ASSUME NEW row \in EnvelopeRows, NEW st \in EnvelopeStatus
    PROVE  /\ WithStatus(row, st) \in EnvelopeRows
           /\ WithStatus(row, st).status = st
           /\ WithStatus(row, st).members = row.members
  BY DEF WithStatus, EnvelopeRows

\* EnvelopeState changes the status and the token of one envelope.
LEMMA EnvelopeStateRows ==
    ASSUME TypeOK, NEW e \in EnvelopeIds, NEW st \in EnvelopeStatus
    PROVE  /\ EnvelopeState(e, st) \in [EnvelopeIds -> EnvelopeRows]
           /\ EnvelopeState(e, st)[e].status = st
           /\ \A f \in EnvelopeIds :
                /\ EnvelopeState(e, st)[f].members = envelopes[f].members
                /\ f # e => EnvelopeState(e, st)[f] = envelopes[f]
  BY EnvelopeRow DEF EnvelopeState, TypeOK

\* _accept records sequence numbers.
LEMMA AcceptType ==
    ASSUME TypeOK, NEW K \in SUBSET IntentKeys
    PROVE  Accept(K) \in [Streams \X Dests -> Nat]
<1>1. ASSUME NEW b \in Streams \X Dests,
             NEW newer \in SUBSET K, newer # {}
      PROVE  (CHOOSE k \in newer : TRUE).sequence \in Nat
  BY <1>1, DeliveryAssumption DEF IntentKeys
<1>2. \A b \in Streams \X Dests : baselines[b] \in Nat
  BY DEF TypeOK
<1> QED
  BY <1>1, <1>2 DEF Accept

\* A sequence stays one, of the same length, when one of its items changes.
LEMMA UpdatedSeq ==
    ASSUME NEW S, NEW s \in Seq(S), NEW i, NEW x, i \in DOMAIN s => x \in S
    PROVE  /\ [s EXCEPT ![i] = x] \in Seq(S)
           /\ DOMAIN [s EXCEPT ![i] = x] = DOMAIN s
<1>1. Len(s) \in Nat /\ DOMAIN s = 1..Len(s) /\ s \in [1..Len(s) -> S]
  OBVIOUS
<1>2. [s EXCEPT ![i] = x] \in [1..Len(s) -> S]
  BY <1>1
<1> QED
  BY <1>1, <1>2

-----------------------------------------------------------------------------
(* Type correctness.                                                       *)

\* The empty tables are well typed.
LEMMA TypeInit == Init => TypeOK
<1> SUFFICES ASSUME Init PROVE TypeOK
  OBVIOUS
<1>1. intents \in [IntentKeys -> IntentRows]
  BY NewRow DEF Init
<1>2. envelopes \in [EnvelopeIds -> EnvelopeRows]
  BY DEF Init, EnvelopeRows, EnvelopeStatus
<1>3. courier \in [Couriers -> CourierRows]
  BY DEF Init, IdleCourier, CourierRows, Stages, Receipts
<1>4. sender \in [Senders -> SenderRows]
  BY DEF Init, IdleSender, SenderRows, Stages, Receipts
<1>5. /\ revisions \in [Streams -> Seq(Materials)]
      /\ parts \in [EnvelopeIds -> Seq(PartRows)]
  <2>1. <<>> \in Seq(Materials) /\ <<>> \in Seq(PartRows)
    OBVIOUS
  <2> QED
    BY <2>1 DEF Init
<1>6. /\ lastAsOf \in [Streams -> Nat]
      /\ staged \subseteq Runs
      /\ legacy \subseteq LegacyReceipts
      /\ baselines \in [Streams \X Dests -> Nat]
      /\ mailed \in [IntentKeys -> Nat]
      /\ posted \in [EnvelopeIds -> [Ordinals -> Nat]]
  BY DEF Init
<1> QED
  BY <1>1, <1>2, <1>3, <1>4, <1>5, <1>6 DEF TypeOK

\* What a run stages is new: no generation of the same revision exists.
LEMMA EnqueuedIsNew ==
    ASSUME NEW targets \in SUBSET Dests, NEW obs \in Observations,
           NEW pick \in [targets -> SUBSET DOMAIN obs],
           \A d \in targets : Selectable(obs, d, pick[d]),
           NEW k \in Enqueued(obs, targets, pick), NEW l \in IntentKeys,
           SameRevision(k, l)
    PROVE  intents[l].status = "absent"
<1>1. /\ k \in IntentKeys /\ k.dest \in targets
      /\ k.subject \in pick[k.dest]
      /\ k.sequence = Len(Revised(obs)[k.subject])
  BY DEF Enqueued
<1>2. pick[k.dest] \subseteq Unrecorded(obs, k.dest)
  BY <1>1 DEF Selectable, Cards, StatusItems, CoverageItems
<1>3. ~Recorded(k.subject, k.dest, k.sequence)
  BY <1>1, <1>2 DEF Unrecorded
<1> QED
  BY <1>3 DEF Recorded, SameRevision, SameStream

\* Staging appends the observed materials and updates rows.
LEMMA StageType ==
    ASSUME TypeOK, NEW r \in Runs, NEW targets \in SUBSET Dests,
           NEW obs \in Observations,
           NEW pick \in [targets -> SUBSET DOMAIN obs], NEW adopt \in BOOLEAN,
           Stage(r, targets, obs, pick, adopt)
    PROVE  TypeOK'
<1>1. revisions' \in [Streams -> Seq(Materials)]
  <2>1. \A s \in Changed(obs) : obs[s] \in Materials
    BY DEF Changed, Observations
  <2>2. \A s \in Streams : Revised(obs)[s] \in Seq(Materials)
    BY <2>1 DEF Revised, TypeOK
  <2> QED
    BY <2>2 DEF Stage, Revised
<1>2. intents' \in [IntentKeys -> IntentRows]
  BY StatusRow DEF Stage, TypeOK, IntentStatus
<1>3. baselines' \in [Streams \X Dests -> Nat]
  <2>1. ASSUME NEW own \in SUBSET IntentKeys, own # {}
        PROVE  (CHOOSE k \in own : TRUE).sequence \in Nat
    BY <2>1, DeliveryAssumption DEF IntentKeys
  <2>2. \A b \in Streams \X Dests : baselines[b] \in Nat
    BY DEF TypeOK
  <2>3. HeldRows(obs, targets, pick) \subseteq IntentKeys
    BY DEF HeldRows
  <2> QED
    BY <2>1, <2>2, <2>3 DEF Stage
<1>4. lastAsOf' \in [Streams -> Nat] /\ staged' \subseteq Runs
      /\ legacy' \subseteq LegacyReceipts
  BY DeliveryAssumption DEF Stage, TypeOK
<1> QED
  BY <1>1, <1>2, <1>3, <1>4 DEF Stage, TypeOK

\* Settling one row.
LEMMA SettleType ==
    ASSUME TypeOK, NEW k \in IntentKeys, NEW outcome \in Receipts,
           Settle(k, outcome)
    PROVE  /\ intents' \in [IntentKeys -> IntentRows]
           /\ baselines' \in [Streams \X Dests -> Nat]
<1>1. SettledStatus(k, outcome) \in IntentStatus
  BY DEF SettledStatus, Receipts, IntentStatus
<1>2. intents' \in [IntentKeys -> IntentRows]
  BY <1>1, StatusRow DEF Settle, TypeOK
<1>3. baselines' \in [Streams \X Dests -> Nat]
  BY AcceptType DEF Settle, TypeOK
<1> QED
  BY <1>2, <1>3

\* Every step of a courier, its death included, keeps the types.
LEMMA CouriersType ==
    ASSUME TypeOK, NEW c \in Couriers, CourierStep(c) \/ CourierDies(c)
    PROVE  TypeOK'
<1>1. ASSUME NEW k \in IntentKeys, ClaimNext(c, k)
      PROVE  TypeOK'
  <2>1. intents' \in [IntentKeys -> IntentRows]
    BY <1>1, LeasedRow DEF ClaimNext, TypeOK, Processes
  <2>2. courier' \in [Couriers -> CourierRows]
    BY <1>1 DEF ClaimNext, TypeOK, CourierRows, Stages
  <2> QED
    BY <1>1, <2>1, <2>2 DEF ClaimNext, TypeOK
<1>2. ASSUME BeginSend(c)
      PROVE  TypeOK'
  <2> DEFINE k == courier[c].key
  <2>0. k \in IntentKeys /\ intents[k] \in IntentRows
    BY <1>2 DEF BeginSend, TypeOK, CourierRows
  <2>1. intents' \in [IntentKeys -> IntentRows]
    BY <1>2, <2>0, StartedRow DEF BeginSend, TypeOK
  <2>2. courier' \in [Couriers -> CourierRows]
    BY <1>2 DEF BeginSend, TypeOK, CourierRows, Stages
  <2> QED
    BY <1>2, <2>1, <2>2 DEF BeginSend, TypeOK
<1>3. ASSUME NEW a \in Answers, CourierAnswered(c, a)
      PROVE  TypeOK'
  <2>0. /\ courier[c] \in CourierRows /\ courier[c].key \in IntentKeys
        /\ a.receipt \in Receipts
    BY <1>3 DEF CourierAnswered, TypeOK, CourierRows, Answers, Receipts
  <2>1. courier' \in [Couriers -> CourierRows]
    <3>1. [courier[c] EXCEPT !.pc = "answered", !.receipt = a.receipt]
            \in CourierRows
      BY <2>0 DEF CourierRows, Stages
    <3> QED
      BY <1>3, <3>1 DEF CourierAnswered, TypeOK
  <2>2. mailed' \in [IntentKeys -> Nat]
    BY <1>3, <2>0 DEF CourierAnswered, TypeOK
  <2> QED
    BY <1>3, <2>1, <2>2 DEF CourierAnswered, TypeOK
<1>4. ASSUME courier' = [courier EXCEPT ![c] = IdleCourier],
             UNCHANGED <<tables, sender, mailed, posted>>
      PROVE  TypeOK'
  <2>1. IdleCourier \in CourierRows
    BY DEF IdleCourier, CourierRows, Stages, Receipts
  <2> QED
    BY <1>4, <2>1 DEF TypeOK, tables
<1>5. ASSUME Finish(c)
      PROVE  TypeOK'
  <2> DEFINE k == courier[c].key
  <2>1. k \in IntentKeys /\ courier[c].receipt \in Receipts
    BY <1>5 DEF Finish, TypeOK, CourierRows
  <2>2. /\ intents' \in [IntentKeys -> IntentRows]
        /\ baselines' \in [Streams \X Dests -> Nat]
    BY <1>5, <2>1, SettleType DEF Finish
  <2>3. courier' \in [Couriers -> CourierRows]
    BY <1>5 DEF Finish, TypeOK, IdleCourier, CourierRows, Stages, Receipts
  <2> QED
    BY <1>5, <2>2, <2>3 DEF Finish, TypeOK
<1> QED
  BY <1>1, <1>2, <1>3, <1>4, <1>5
     DEF CourierStep, CourierDies, CourierRefused

\* So does every step of the outbox, staging and review included.
LEMMA OutboxType == TypeOK /\ OutboxNext => TypeOK'
<1> SUFFICES ASSUME TypeOK, OutboxNext PROVE TypeOK'
  OBVIOUS
<1>1. CASE StageRun
  BY <1>1, StageType DEF StageRun
<1>2. CASE ImportLegacy
  BY <1>2 DEF ImportLegacy, TypeOK
<1>3. ASSUME NEW k \in IntentKeys, ExpireIntent(k)
      PROVE  TypeOK'
  <2>1. intents' \in [IntentKeys -> IntentRows]
    BY <1>3, StatusRow DEF ExpireIntent, TypeOK, IntentStatus
  <2> QED
    BY <1>3, <2>1 DEF ExpireIntent, TypeOK
<1>4. ASSUME NEW k \in IntentKeys, NEW o \in {"accepted", "not_sent"},
             Reconcile(k, o)
      PROVE  TypeOK'
  <2>1. o \in Receipts
    BY DEF Receipts
  <2>2. /\ intents' \in [IntentKeys -> IntentRows]
        /\ baselines' \in [Streams \X Dests -> Nat]
    BY <1>4, <2>1, SettleType DEF Reconcile
  <2> QED
    BY <1>4, <2>2 DEF Reconcile, TypeOK
<1> QED
  BY <1>1, <1>2, <1>3, <1>4, CouriersType DEF OutboxNext

\* An obsolete envelope is retired.
LEMMA RetireType ==
    ASSUME TypeOK, NEW e \in EnvelopeIds, RetireStale(e)
    PROVE  /\ intents' \in [IntentKeys -> IntentRows]
           /\ envelopes' \in [EnvelopeIds -> EnvelopeRows]
<1>1. envelopes' \in [EnvelopeIds -> EnvelopeRows]
  BY EnvelopeStateRows DEF RetireStale, EnvelopeStatus
<1>2. intents' \in [IntentKeys -> IntentRows]
  BY SetIntentsRows, StatusRow DEF RetireStale, TypeOK, IntentStatus
<1> QED
  BY <1>1, <1>2

\* A part's settlement.
LEMMA SettlePartType ==
    ASSUME TypeOK, NEW e \in EnvelopeIds, NEW p \in Ordinals,
           NEW outcome \in Receipts, SettlePart(e, p, outcome)
    PROVE  /\ parts' \in [EnvelopeIds -> Seq(PartRows)]
           /\ intents' \in [IntentKeys -> IntentRows]
           /\ envelopes' \in [EnvelopeIds -> EnvelopeRows]
           /\ baselines' \in [Streams \X Dests -> Nat]
<1> DEFINE st == PartOutcome(e, p, outcome)
<1>1. st \in {"accepted", "uncertain", "failed", "pending"}
  BY DEF PartOutcome, Receipts
<1>2. parts' \in [EnvelopeIds -> Seq(PartRows)]
  <2>1. parts[e] \in Seq(PartRows)
    BY DEF TypeOK
  <2>2. p \in DOMAIN parts[e] => parts[e][p] \in PartRows
    BY <2>1
  <2>3. p \in DOMAIN parts[e] =>
          [parts[e][p] EXCEPT !.status = st] \in PartRows
    BY <1>1, <2>2 DEF PartRows, PartStatus
  <2>4. [parts[e] EXCEPT ![p] = [parts[e][p] EXCEPT !.status = st]]
          \in Seq(PartRows)
    BY <2>1, <2>3, UpdatedSeq
  <2> QED
    BY <2>4 DEF SettlePart, TypeOK
<1>3. Members(e) \in SUBSET IntentKeys
  BY DEF TypeOK, EnvelopeRows, Members
<1>4. intents' \in [IntentKeys -> IntentRows]
  <2>1. CASE st = "accepted" /\ OthersAccepted(e, p)
    <3>1. intents' = [k \in IntentKeys |->
                        IF k \in Members(e)
                        THEN WithStatus(intents[k], "accepted")
                        ELSE intents[k]]
      BY <2>1 DEF SettlePart
    <3>2. \A k \in IntentKeys : intents[k] \in IntentRows
      BY DEF TypeOK
    <3>3. \A k \in IntentKeys : WithStatus(intents[k], "accepted") \in IntentRows
      BY <3>2, StatusRow DEF IntentStatus
    <3> QED
      BY <3>1, <3>2, <3>3
  <2>2. CASE ~(st = "accepted" /\ OthersAccepted(e, p))
    <3>1. /\ "pending" \in IntentStatus /\ "uncertain" \in IntentStatus
          /\ "failed" \in IntentStatus
      BY DEF IntentStatus
    <3> QED
      BY <2>2, <3>1, SetIntentsRows DEF SettlePart
  <2> QED
    BY <2>1, <2>2
<1>5. envelopes' \in [EnvelopeIds -> EnvelopeRows]
  BY <1>1, EnvelopeStateRows DEF SettlePart, EnvelopeStatus
<1>6. baselines' \in [Streams \X Dests -> Nat]
  BY <1>3, AcceptType DEF SettlePart, TypeOK
<1> QED
  BY <1>2, <1>4, <1>5, <1>6

\* Every step of a sender, its death included, keeps the types.
LEMMA SendersType ==
    ASSUME TypeOK, NEW w \in Senders, SenderStep(w) \/ SenderDies(w)
    PROVE  TypeOK'
<1> DEFINE e == sender[w].envelope
<1>0. /\ sender[w] \in SenderRows
      /\ sender[w].pc # "idle" => e \in EnvelopeIds
      /\ sender[w].pc \in {"sending", "answered"} => sender[w].ordinal \in Ordinals
      /\ sender[w].receipt \in Receipts
  BY DEF TypeOK, SenderRows
<1>i. IdleSender \in SenderRows
  BY DEF IdleSender, SenderRows, Stages, Receipts
<1>m. \A f \in EnvelopeIds : Members(f) \subseteq IntentKeys
  BY DEF TypeOK, EnvelopeRows, Members
<1>1. ASSUME NEW f \in EnvelopeIds, Claim(w, f)
      PROVE  TypeOK'
  <2>1. envelopes' \in [EnvelopeIds -> EnvelopeRows]
    <3>1. Leased(envelopes[f], w) \in EnvelopeRows
      <4>1. envelopes[f] \in EnvelopeRows
        BY DEF TypeOK
      <4> QED
        BY <4>1 DEF Leased, EnvelopeRows, EnvelopeStatus
    <3> QED
      BY <1>1, <3>1 DEF Claim, TypeOK
  <2>2. intents' \in [IntentKeys -> IntentRows]
    BY <1>1, LeasedRow DEF Claim, TypeOK, Processes
  <2>3. sender' \in [Senders -> SenderRows]
    <3>1. [sender[w] EXCEPT !.pc = "claimed", !.envelope = f] \in SenderRows
      BY <1>0 DEF SenderRows, Stages
    <3> QED
      BY <1>1, <3>1 DEF Claim, TypeOK
  <2> QED
    BY <1>1, <2>1, <2>2, <2>3 DEF Claim, TypeOK
<1>2. ASSUME NEW p \in Ordinals, BeginPart(w, p)
      PROVE  TypeOK'
  <2>1. e \in EnvelopeIds /\ parts[e] \in Seq(PartRows)
        /\ p \in DOMAIN parts[e] /\ parts[e][p] \in PartRows
    BY <1>0, <1>2 DEF BeginPart, TypeOK, NextPart, PartNumbers
  <2>2. parts' \in [EnvelopeIds -> Seq(PartRows)]
    <3>1. Started(parts[e][p]) \in PartRows
      <4>1. parts[e][p].attempts + 1 \in Nat
        BY <2>1 DEF PartRows
      <4> QED
        BY <2>1, <4>1 DEF Started, PartRows, PartStatus
    <3>2. [parts[e] EXCEPT ![p] = Started(parts[e][p])] \in Seq(PartRows)
      BY <2>1, <3>1, UpdatedSeq
    <3> QED
      BY <1>2, <2>1, <3>2 DEF BeginPart, TypeOK
  <2>3. intents' \in [IntentKeys -> IntentRows]
    <3>1. CASE parts[e][p].attempts >= MaxAttempts
      BY <1>2, <2>1, <3>1, SetIntentsRows DEF BeginPart, IntentStatus
    <3>2. CASE ~(parts[e][p].attempts >= MaxAttempts)
      <4>1. intents' = [k \in IntentKeys |->
                          IF k \in Members(e) THEN Started(intents[k])
                          ELSE intents[k]]
        BY <1>2, <3>2 DEF BeginPart
      <4>2. \A k \in IntentKeys : intents[k] \in IntentRows
        BY DEF TypeOK
      <4>3. \A k \in IntentKeys : Started(intents[k]) \in IntentRows
        BY <4>2, StartedRow
      <4> QED
        BY <4>1, <4>2, <4>3
    <3> QED
      BY <3>1, <3>2
  <2>4. envelopes' \in [EnvelopeIds -> EnvelopeRows]
    BY <1>2, <2>1, EnvelopeStateRows DEF BeginPart, TypeOK, EnvelopeStatus
  <2>5. sender' \in [Senders -> SenderRows]
    <3>1. [sender[w] EXCEPT !.pc = "sending", !.ordinal = p] \in SenderRows
      BY <1>0, <2>1 DEF SenderRows, Stages
    <3> QED
      BY <1>2, <1>i, <3>1 DEF BeginPart, TypeOK
  <2> QED
    BY <1>2, <2>2, <2>3, <2>4, <2>5 DEF BeginPart, TypeOK
<1>3. CASE BeginPartStale(w)
  <2>1. /\ intents' \in [IntentKeys -> IntentRows]
        /\ envelopes' \in [EnvelopeIds -> EnvelopeRows]
    BY <1>0, <1>3, RetireType DEF BeginPartStale
  <2> QED
    BY <1>3, <1>i, <2>1 DEF BeginPartStale, TypeOK
<1>4. ASSUME NEW a \in Answers, SenderAnswered(w, a)
      PROVE  TypeOK'
  <2>1. e \in EnvelopeIds /\ sender[w].ordinal \in Ordinals
        /\ a.receipt \in Receipts
    BY <1>0, <1>4 DEF SenderAnswered, Answers, Receipts
  <2>2. sender' \in [Senders -> SenderRows]
    <3>1. [sender[w] EXCEPT !.pc = "answered", !.receipt = a.receipt]
            \in SenderRows
      BY <1>0, <2>1 DEF SenderRows, Stages
    <3> QED
      BY <1>4, <3>1 DEF SenderAnswered, TypeOK
  <2>3. posted' \in [EnvelopeIds -> [Ordinals -> Nat]]
    BY <1>4, <2>1 DEF SenderAnswered, TypeOK
  <2> QED
    BY <1>4, <2>2, <2>3 DEF SenderAnswered, TypeOK, tables
<1>5. CASE FinishPart(w)
  <2>1. /\ parts' \in [EnvelopeIds -> Seq(PartRows)]
        /\ intents' \in [IntentKeys -> IntentRows]
        /\ envelopes' \in [EnvelopeIds -> EnvelopeRows]
        /\ baselines' \in [Streams \X Dests -> Nat]
    BY <1>0, <1>5, SettlePartType DEF FinishPart
  <2> QED
    BY <1>5, <1>i, <2>1 DEF FinishPart, TypeOK
<1>6. CASE SenderRefused(w) \/ SenderDies(w)
  BY <1>6, <1>i DEF SenderRefused, SenderDies, TypeOK, tables
<1> QED
  BY <1>1, <1>2, <1>3, <1>4, <1>5, <1>6 DEF SenderStep

\* So does every step of the digest transport, the operator's included.
LEMMA TransportType == TypeOK /\ TransportNext => TypeOK'
<1> SUFFICES ASSUME TypeOK, TransportNext PROVE TypeOK'
  OBVIOUS
<1>1. ASSUME NEW e \in EnvelopeIds, NEW d \in Dests, NEW n \in Ordinals,
             NEW K \in SUBSET IntentKeys, Prepare(e, d, K, n)
      PROVE  TypeOK'
  <2>1. [status |-> "pending", members |-> K, token |-> None] \in EnvelopeRows
    BY DEF EnvelopeRows, EnvelopeStatus
  <2>2. [p \in 1..n |-> [status |-> "pending", attempts |-> 0]] \in Seq(PartRows)
    <3>1. [status |-> "pending", attempts |-> 0] \in PartRows
      BY DEF PartRows, PartStatus
    <3>2. n \in Nat
      BY DeliveryAssumption DEF Ordinals
    <3> QED
      BY <3>1, <3>2
  <2> QED
    BY <1>1, <2>1, <2>2 DEF Prepare, TypeOK
<1>2. ASSUME NEW e \in EnvelopeIds, ExpireEnvelope(e)
      PROVE  TypeOK'
  <2> DEFINE sending == {p \in PartNumbers(e) : parts[e][p].status = "sending"}
             row(p) == IF p \in sending
                       THEN [parts[e][p] EXCEPT !.status = "uncertain"]
                       ELSE parts[e][p]
  <2>1. parts' \in [EnvelopeIds -> Seq(PartRows)]
    <3>1. \A p \in PartNumbers(e) : row(p) \in PartRows
      <4>1. \A p \in PartNumbers(e) : parts[e][p] \in PartRows
        BY DEF TypeOK, PartNumbers
      <4> QED
        BY <4>1 DEF PartRows, PartStatus
    <3>2. Len(parts[e]) \in Nat /\ PartNumbers(e) = 1..Len(parts[e])
      BY DEF TypeOK, PartNumbers
    <3> HIDE DEF row
    <3>3. [p \in PartNumbers(e) |-> row(p)] \in Seq(PartRows)
      BY <3>1, <3>2
    <3> QED
      BY <1>2, <3>3 DEF ExpireEnvelope, TypeOK, row
  <2>2. intents' \in [IntentKeys -> IntentRows]
    BY <1>2, SetIntentsRows DEF ExpireEnvelope, IntentStatus
  <2>3. envelopes' \in [EnvelopeIds -> EnvelopeRows]
    BY <1>2, EnvelopeStateRows DEF ExpireEnvelope, EnvelopeStatus
  <2> QED
    BY <1>2, <2>1, <2>2, <2>3 DEF ExpireEnvelope, TypeOK
<1>3. ASSUME NEW e \in EnvelopeIds, ClaimStale(e)
      PROVE  TypeOK'
  <2>1. /\ intents' \in [IntentKeys -> IntentRows]
        /\ envelopes' \in [EnvelopeIds -> EnvelopeRows]
    BY <1>3, RetireType DEF ClaimStale
  <2> QED
    BY <1>3, <2>1 DEF ClaimStale, TypeOK
<1>4. ASSUME NEW e \in EnvelopeIds, NEW p \in Ordinals,
             NEW o \in {"accepted", "not_sent"}, ReconcilePart(e, p, o)
      PROVE  TypeOK'
  <2>1. o \in Receipts
    BY DEF Receipts
  <2>2. /\ parts' \in [EnvelopeIds -> Seq(PartRows)]
        /\ intents' \in [IntentKeys -> IntentRows]
        /\ envelopes' \in [EnvelopeIds -> EnvelopeRows]
        /\ baselines' \in [Streams \X Dests -> Nat]
    BY <1>4, <2>1, SettlePartType DEF ReconcilePart
  <2> QED
    BY <1>4, <2>2 DEF ReconcilePart, TypeOK
<1>5. ASSUME NEW e \in EnvelopeIds, Abandon(e)
      PROVE  TypeOK'
  <2>1. /\ intents' \in [IntentKeys -> IntentRows]
        /\ envelopes' \in [EnvelopeIds -> EnvelopeRows]
    BY <1>5, SetIntentsRows, EnvelopeStateRows
       DEF Abandon, IntentStatus, EnvelopeStatus
  <2> QED
    BY <1>5, <2>1 DEF Abandon, TypeOK
<1>6. ASSUME NEW E \in SUBSET EnvelopeIds, NEW K \in SUBSET IntentKeys,
             ReissueUnsent(E, K)
      PROVE  TypeOK'
  <2>1. intents' \in [IntentKeys -> IntentRows]
    BY <1>6, StatusRow, NewRow DEF ReissueUnsent, TypeOK, IntentStatus
  <2>2. envelopes' \in [EnvelopeIds -> EnvelopeRows]
    BY <1>6, EnvelopeRow DEF ReissueUnsent, TypeOK, EnvelopeStatus
  <2> QED
    BY <1>6, <2>1, <2>2 DEF ReissueUnsent, TypeOK
<1>7. CASE PrepareSome
  BY <1>1, <1>7 DEF PrepareSome
<1>8. CASE ReissueSome
  <2>1. \A e \in EnvelopeIds : Members(e) \subseteq IntentKeys
    BY DEF TypeOK, EnvelopeRows, Members
  <2> QED
    BY <1>6, <1>8, <2>1 DEF ReissueSome
<1> QED
  BY <1>2, <1>3, <1>4, <1>5, <1>7, <1>8, SendersType
     DEF TransportNext, Operator

\* Type correctness is inductive.
LEMMA TypeStep == TypeOK /\ [Next]_vars => TypeOK'
<1>1. TypeOK /\ UNCHANGED vars => TypeOK'
  BY DEF vars, TypeOK
<1> QED
  BY <1>1, OutboxType, TransportType DEF Next

\* The tables, the processes and the history keep their types.
THEOREM TypeCorrect == Spec => []TypeOK
  BY TypeInit, TypeStep, PTL DEF Spec

-----------------------------------------------------------------------------
(* Reservations.  Every action is one of four kinds: it works on rows that *)
(* belong to no envelope (QueueMoves), it moves one envelope together with *)
(* its rows (EnvelopeMoves), it freezes rows into a new envelope (Prepare) *)
(* or it reissues rows of untried drafts (ReissueUnsent).                  *)

HotStatus == {"pending", "leased", "uncertain"}

\* Envelopes keep their rows; a row is taken only where nothing of its stream
\* is on its way; a reserved row is at most superseded.
QueueMoves ==
    /\ envelopes' = envelopes
    /\ \A k \in IntentKeys :
         LET old == intents[k].status
             new == intents'[k].status
         IN  /\ new # old /\ Reserved(k) =>
                  new = "superseded" /\ old \notin {"absent", "accepted"}
             /\ old = "superseded" => new = "superseded"
             /\ new = "absent" => old = "absent"
             /\ old = "absent" /\ new # "absent" =>
                  \A l \in IntentKeys : SameRevision(k, l) =>
                    intents[l].status = "absent" /\ k.generation <= l.generation
    /\ \A k, l \in IntentKeys :
         /\ intents'[k].status \in InFlight /\ intents[k].status \notin InFlight
         /\ SameStream(k, l)
         => /\ ~Hot(l)
            /\ intents'[l].status \in InFlight => l = k

EnvelopeMoves(e) ==
    /\ envelopes[e].status \notin {"absent", "abandoned"}
    /\ envelopes'[e].status \in HotStatus => envelopes[e].status \in HotStatus
    /\ \A f \in EnvelopeIds : /\ envelopes'[f].members = Members(f)
                              /\ f # e => envelopes'[f].status = envelopes[f].status
    /\ \A k \in IntentKeys :
         IF k \in Members(e)
         THEN intents'[k].status \in MemberStatus(envelopes'[e].status)
         ELSE intents'[k].status = intents[k].status

\* Keys are equal when their fields are.
LEMMA KeyFields ==
    ASSUME NEW k \in IntentKeys, NEW l \in IntentKeys, SameRevision(k, l)
    PROVE  /\ k.generation \in Nat /\ l.generation \in Nat
           /\ k.generation = l.generation => k = l
  BY DeliveryAssumption DEF IntentKeys, SameRevision, SameStream

\* No member of an envelope is an absent row.
LEMMA MembersExist ==
    ASSUME NEW st PROVE "absent" \notin MemberStatus(st)
  BY DEF MemberStatus

\* A step that moves single rows as QueueMoves says keeps the reservation
\* invariant.
LEMMA QueueKeeps ==
    ASSUME ReservationInv, QueueMoves
    PROVE  /\ MembersDisjoint' /\ MembersFollow'
           /\ ReplacedIsRetired' /\ OneHot'
<1> USE DEF ReservationInv
<1>1. /\ \A e \in EnvelopeIds : Members(e)' = Members(e)
      /\ \A k \in IntentKeys : Reserved(k)' = Reserved(k)
  BY DEF QueueMoves, Members, Reserved
<1>2. MembersDisjoint'
  BY <1>1 DEF MembersDisjoint
<1>3. MembersFollow'
  <2> SUFFICES ASSUME NEW e \in EnvelopeIds, NEW k \in Members(e)
               PROVE  intents'[k].status \in MemberStatus(envelopes[e].status)
    BY <1>1 DEF MembersFollow, QueueMoves
  <2>1. k \in IntentKeys /\ Reserved(k)
    BY DEF TypeOK, EnvelopeRows, Members, Reserved
  <2>2. intents[k].status \in MemberStatus(envelopes[e].status)
    BY DEF MembersFollow
  <2>3. CASE intents'[k].status = intents[k].status
    BY <2>2, <2>3
  <2>4. CASE intents'[k].status # intents[k].status
    <3>1. intents'[k].status = "superseded" /\ intents[k].status # "accepted"
      BY <2>1, <2>4 DEF QueueMoves
    <3> QED
      BY <2>2, <3>1 DEF MemberStatus
  <2> QED
    BY <2>3, <2>4
<1>4. ReplacedIsRetired'
  <2> SUFFICES ASSUME NEW k \in IntentKeys, NEW l \in IntentKeys,
                      SameRevision(k, l), k.generation < l.generation,
                      intents'[l].status # "absent"
               PROVE  /\ intents'[k].status = "superseded"
                      /\ \A e \in EnvelopeIds :
                           k \in Members(e) => envelopes[e].status = "abandoned"
    BY <1>1 DEF ReplacedIsRetired, Replaced, SameRevision, SameStream, QueueMoves
  <2>1. intents[l].status # "absent"
    <3>1. SUFFICES ASSUME intents[l].status = "absent" PROVE FALSE
      OBVIOUS
    <3>2. l.generation <= k.generation
      BY <3>1 DEF QueueMoves, SameRevision, SameStream
    <3> QED
      BY <3>2, KeyFields
  <2>2. Replaced(k)
    BY <2>1 DEF Replaced
  <2> QED
    BY <2>2 DEF ReplacedIsRetired, QueueMoves
<1>5. OneHot'
  <2> SUFFICES ASSUME NEW k \in IntentKeys, NEW l \in IntentKeys,
                      SameStream(k, l), Hot(k)', Hot(l)'
               PROVE  k = l
    BY DEF OneHot, SameStream
  <2> DEFINE Fresh(j) == /\ intents'[j].status \in InFlight
                         /\ intents[j].status \notin InFlight
  <2>1. \A j \in IntentKeys : Hot(j)' => Hot(j) \/ (Fresh(j) /\ ~Reserved(j))
    BY <1>1 DEF Hot, QueueMoves, Members
  <2>2. SameStream(l, k)
    BY DEF SameStream
  <2>3. CASE Fresh(k)
    <3>1. ~Hot(l)
      BY <2>3 DEF QueueMoves
    <3>2. Fresh(l)
      BY <2>1, <3>1
    <3> QED
      BY <2>3, <3>2 DEF QueueMoves
  <2>4. CASE Fresh(l)
    <3>1. ~Hot(k)
      BY <2>2, <2>4 DEF QueueMoves
    <3>2. Fresh(k)
      BY <2>1, <3>1
    <3> QED
      BY <2>3, <3>2
  <2>5. CASE ~Fresh(k) /\ ~Fresh(l)
    BY <2>1, <2>5 DEF OneHot
  <2> QED
    BY <2>3, <2>4, <2>5
<1> QED
  BY <1>2, <1>3, <1>4, <1>5

\* A step that moves digests makes no row hot.
LEMMA EnvelopeHot ==
    ASSUME TypeOK, NEW e \in EnvelopeIds, EnvelopeMoves(e),
           NEW k \in IntentKeys, Hot(k)'
    PROVE  Hot(k)
<1>1. /\ \A f \in EnvelopeIds : Members(f)' = Members(f)
      /\ Reserved(k)' = Reserved(k)
  BY DEF EnvelopeMoves, Members, Reserved
<1>2. CASE ~Reserved(k)
  <2>1. k \notin Members(e)
    BY <1>2 DEF Reserved, Members
  <2>2. ~Reserved(k)' /\ intents'[k].status \in InFlight
    BY <1>1, <1>2 DEF Hot, Reserved, Members
  <2> QED
    BY <1>2, <2>1, <2>2 DEF EnvelopeMoves, Hot
<1>3. CASE Reserved(k)
  <2>1. PICK f \in EnvelopeIds : /\ k \in Members(f)
                                 /\ envelopes'[f].status \in HotStatus
    BY <1>1, <1>3 DEF Hot, HotStatus
  <2>2. envelopes[f].status \in HotStatus
    BY <2>1 DEF EnvelopeMoves
  <2> QED
    BY <2>1, <2>2 DEF Hot, HotStatus
<1> QED
  BY <1>2, <1>3

\* A step that moves digests as EnvelopeMoves says keeps it as well.
LEMMA EnvelopeKeeps ==
    ASSUME ReservationInv, NEW e \in EnvelopeIds, EnvelopeMoves(e)
    PROVE  /\ MembersDisjoint' /\ MembersFollow'
           /\ ReplacedIsRetired' /\ OneHot'
<1> USE DEF ReservationInv
<1>1. /\ \A f \in EnvelopeIds : /\ Members(f)' = Members(f)
                                /\ Members(f) \subseteq IntentKeys
      /\ \A k \in IntentKeys : Reserved(k)' = Reserved(k)
  BY DEF EnvelopeMoves, Members, Reserved, TypeOK, EnvelopeRows
<1>2. MembersDisjoint'
  BY <1>1 DEF MembersDisjoint
<1>3. MembersFollow'
  <2> SUFFICES ASSUME NEW f \in EnvelopeIds, NEW k \in Members(f)
               PROVE  intents'[k].status \in MemberStatus(envelopes'[f].status)
    BY <1>1 DEF MembersFollow
  <2>1. CASE f = e
    BY <1>1, <2>1 DEF EnvelopeMoves
  <2>2. CASE f # e
    <3>1. k \notin Members(e)
      BY <2>2 DEF MembersDisjoint
    <3> QED
      BY <1>1, <2>2, <3>1 DEF EnvelopeMoves, MembersFollow
  <2> QED
    BY <2>1, <2>2
<1>4. ASSUME NEW k \in IntentKeys, intents'[k].status # "absent"
      PROVE  intents[k].status # "absent"
  <2>1. k \in Members(e) => intents[k].status # "absent"
    BY MembersExist DEF MembersFollow
  <2> QED
    BY <1>4, <2>1 DEF EnvelopeMoves
<1>5. ReplacedIsRetired'
  <2> SUFFICES ASSUME NEW k \in IntentKeys, Replaced(k)'
               PROVE  /\ intents'[k].status = "superseded"
                      /\ \A f \in EnvelopeIds :
                           k \in Members(f) => envelopes'[f].status = "abandoned"
    BY <1>1 DEF ReplacedIsRetired
  <2>1. Replaced(k)
    BY <1>4 DEF Replaced, SameRevision, SameStream
  <2>2. k \notin Members(e)
    BY <2>1 DEF ReplacedIsRetired, EnvelopeMoves
  <2> QED
    BY <2>1, <2>2 DEF ReplacedIsRetired, EnvelopeMoves
<1>6. OneHot'
  <2>1. \A k \in IntentKeys : Hot(k)' => Hot(k)
    BY EnvelopeHot
  <2> QED
    BY <2>1 DEF OneHot, SameStream
<1> QED
  BY <1>2, <1>3, <1>5, <1>6

\* An action that changes one row outside every envelope.
LEMMA OneRowMoves ==
    ASSUME TypeOK, NEW k \in IntentKeys, NEW row \in IntentRows,
           intents' = [intents EXCEPT ![k] = row], envelopes' = envelopes,
           ~Reserved(k),
           intents[k].status \notin {"absent", "superseded"}, row.status # "absent",
           row.status \in InFlight =>
             \/ intents[k].status \in InFlight
             \/ ~Busy(k) /\ ~SubjectReserved(k, 0)
    PROVE  QueueMoves
<1>1. \A j \in IntentKeys :
        intents'[j].status = IF j = k THEN row.status ELSE intents[j].status
  BY DEF TypeOK
<1>2. ASSUME NEW j \in IntentKeys, NEW l \in IntentKeys, SameStream(j, l),
             intents'[j].status \in InFlight, intents[j].status \notin InFlight
      PROVE  ~Hot(l) /\ (intents'[l].status \in InFlight => l = j)
  <2>1. j = k /\ ~Busy(k) /\ ~SubjectReserved(k, 0)
    BY <1>1, <1>2
  <2>2. SameStream(l, k)
    BY <1>2, <2>1 DEF SameStream
  <2>3. intents[l].status \notin InFlight
    BY <2>1, <2>2 DEF Busy, InFlight
  <2>4. \A e \in EnvelopeIds : e \in EnvelopeIds \ {0}
    BY DeliveryAssumption DEF EnvelopeIds
  <2>5. \A e \in EnvelopeIds : l \in Members(e) =>
          envelopes[e].status \notin {"pending", "leased", "uncertain"}
    BY <2>1, <2>2, <2>4 DEF SubjectReserved, Members
  <2> QED
    BY <1>1, <2>1, <2>3, <2>5 DEF Hot
<1> QED
  BY <1>1, <1>2 DEF QueueMoves

\* A run's staging only adds pending or held rows and supersedes unsent ones.
LEMMA StageMoves ==
    ASSUME TypeOK, NEW r \in Runs, NEW targets \in SUBSET Dests,
           NEW obs \in Observations,
           NEW pick \in [targets -> SUBSET DOMAIN obs], NEW adopt \in BOOLEAN,
           MembersFollow, Stage(r, targets, obs, pick, adopt)
    PROVE  QueueMoves
<1> DEFINE enqueued == Enqueued(obs, targets, pick)
           held == HeldRows(obs, targets, pick)
           adopted == IF adopt THEN held ELSE {}
<1>1. \A k \in IntentKeys :
        intents'[k] = IF k \in adopted THEN WithStatus(intents[k], "accepted")
                      ELSE IF k \in held THEN WithStatus(intents[k], "legacy_hold")
                      ELSE IF k \in enqueued THEN WithStatus(intents[k], "pending")
                      ELSE IF k \in Outdated(obs)
                           THEN WithStatus(intents[k], "superseded")
                      ELSE intents[k]
  BY DEF Stage
<1>2. \A k \in IntentKeys : intents[k] \in IntentRows
  BY DEF TypeOK
<1>3. \A k \in IntentKeys :
        intents'[k].status = IF k \in adopted THEN "accepted"
                             ELSE IF k \in held THEN "legacy_hold"
                             ELSE IF k \in enqueued THEN "pending"
                             ELSE IF k \in Outdated(obs) THEN "superseded"
                             ELSE intents[k].status
  BY <1>1, <1>2, StatusRow DEF IntentStatus
<1>4. \A k \in enqueued, l \in IntentKeys : SameRevision(k, l) =>
        intents[l].status = "absent" /\ k.generation <= l.generation
  <2>1. \A k \in enqueued, l \in IntentKeys :
          SameRevision(k, l) => intents[l].status = "absent"
    BY EnqueuedIsNew DEF Stage
  <2>2. \A k \in enqueued : k.generation = 1
    BY DEF Enqueued
  <2>3. \A l \in IntentKeys : l.generation \in Nat /\ 1 <= l.generation
    BY DeliveryAssumption DEF IntentKeys
  <2> QED
    BY <2>1, <2>2, <2>3
<1>5. \A k \in enqueued : intents[k].status = "absent"
  BY <1>4 DEF Enqueued, SameRevision, SameStream
<1>6. \A k \in held : k \in enqueued \/ intents[k].status = "legacy_hold"
  BY DEF HeldRows
<1>7. \A k \in IntentKeys : Reserved(k) =>
        intents[k].status \notin {"absent", "legacy_hold"}
  BY DEF Reserved, MembersFollow, Members, MemberStatus
<1>8. \A k \in Outdated(obs) :
        intents[k].status \in {"pending", "leased", "failed", "legacy_hold"}
  BY DEF Outdated
<1>9. adopted \subseteq held
  OBVIOUS
<1>10. envelopes' = envelopes
  BY DEF Stage
<1>11. \A k \in IntentKeys :
         intents'[k].status \in InFlight => intents[k].status \in InFlight
  BY <1>3 DEF InFlight
<1> HIDE DEF enqueued, held, adopted
<1>12. ASSUME NEW k \in IntentKeys
       PROVE  LET old == intents[k].status
                  new == intents'[k].status
              IN  /\ new # old /\ Reserved(k) =>
                       new = "superseded" /\ old \notin {"absent", "accepted"}
                  /\ old = "superseded" => new = "superseded"
                  /\ new = "absent" => old = "absent"
                  /\ old = "absent" /\ new # "absent" => k \in enqueued
  BY <1>3, <1>5, <1>6, <1>7, <1>8, <1>9
<1> QED
  BY <1>4, <1>10, <1>11, <1>12 DEF QueueMoves

\* Every step of the outbox.
LEMMA OutboxMoves ==
    ASSUME ReservationInv, OutboxNext
    PROVE  QueueMoves
<1> USE DEF ReservationInv
<1>u. ASSUME UNCHANGED <<intents, envelopes>> PROVE QueueMoves
  BY <1>u DEF QueueMoves
<1>s. ASSUME NEW k \in IntentKeys, NEW o \in Receipts, Settle(k, o),
             envelopes' = envelopes, ~Reserved(k),
             intents[k].status \in {"sending", "uncertain"}
      PROVE  QueueMoves
  <2>1. SettledStatus(k, o) \in IntentStatus /\ SettledStatus(k, o) # "absent"
    BY DEF SettledStatus, Receipts, IntentStatus
  <2>2. intents[k] \in IntentRows
    BY DEF TypeOK
  <2>3. /\ WithStatus(intents[k], SettledStatus(k, o)) \in IntentRows
        /\ WithStatus(intents[k], SettledStatus(k, o)).status = SettledStatus(k, o)
    BY <2>1, <2>2, StatusRow
  <2>4. intents' = [intents EXCEPT
                      ![k] = WithStatus(intents[k], SettledStatus(k, o))]
    BY <1>s DEF Settle
  <2> QED
    BY <1>s, <2>1, <2>3, <2>4, OneRowMoves DEF InFlight
<1>1. CASE StageRun
  BY <1>1, StageMoves DEF StageRun
<1>2. CASE ImportLegacy
  BY <1>2, <1>u DEF ImportLegacy
<1>3. ASSUME NEW k \in IntentKeys, ExpireIntent(k)
      PROVE  QueueMoves
  <2> DEFINE st == IF intents[k].status = "leased" THEN "pending" ELSE "uncertain"
  <2>1. /\ WithStatus(intents[k], st) \in IntentRows
        /\ WithStatus(intents[k], st).status = st
    BY StatusRow DEF TypeOK, IntentStatus
  <2> QED
    BY <1>3, <2>1, OneRowMoves DEF ExpireIntent, InFlight
<1>4. ASSUME NEW c \in Couriers, NEW k \in IntentKeys, ClaimNext(c, k)
      PROVE  QueueMoves
  <2>1. /\ Leased(intents[k], c) \in IntentRows
        /\ Leased(intents[k], c).status = "leased"
    BY LeasedRow DEF TypeOK, Processes
  <2> QED
    BY <1>4, <2>1, OneRowMoves DEF ClaimNext
<1>5. ASSUME NEW c \in Couriers, BeginSend(c)
      PROVE  QueueMoves
  <2> DEFINE k == courier[c].key
  <2>1. k \in IntentKeys
    BY <1>5 DEF BeginSend, TypeOK, CourierRows
  <2>2. /\ Started(intents[k]) \in IntentRows
        /\ Started(intents[k]).status = "sending"
    BY <2>1, StartedRow DEF TypeOK
  <2> QED
    BY <1>5, <2>1, <2>2, OneRowMoves DEF BeginSend, InFlight
<1>6. ASSUME NEW c \in Couriers, Finish(c)
      PROVE  QueueMoves
  <2>1. courier[c].key \in IntentKeys /\ courier[c].receipt \in Receipts
    BY <1>6 DEF Finish, TypeOK, CourierRows
  <2> QED
    BY <1>6, <1>s, <2>1 DEF Finish
<1>7. ASSUME NEW c \in Couriers,
             (\E a \in Answers : CourierAnswered(c, a))
               \/ CourierRefused(c) \/ CourierDies(c)
      PROVE  QueueMoves
  BY <1>7, <1>u DEF CourierAnswered, CourierRefused, CourierDies, tables
<1>8. ASSUME NEW k \in IntentKeys, NEW o \in {"accepted", "not_sent"},
             Reconcile(k, o)
      PROVE  QueueMoves
  BY <1>8, <1>s DEF Reconcile, Receipts
<1> QED
  BY <1>1, <1>2, <1>3, <1>4, <1>5, <1>6, <1>7, <1>8 DEF OutboxNext, CourierStep

\* An action that gives envelope e the status st and its live rows the status
\* of one that may belong to it.
LEMMA OneEnvelopeMoves ==
    ASSUME TypeOK, MembersFollow, NEW e \in EnvelopeIds,
           NEW st \in EnvelopeStatus, NEW ist \in IntentStatus,
           envelopes[e].status \notin {"absent", "abandoned", "accepted"},
           envelopes' = EnvelopeState(e, st), intents' = SetIntents(e, ist),
           st \in HotStatus => envelopes[e].status \in HotStatus,
           st # "accepted",
           ist \in MemberStatus(st), "superseded" \in MemberStatus(st)
    PROVE  EnvelopeMoves(e)
<1>1. \A f \in EnvelopeIds :
        /\ envelopes'[f].members = Members(f)
        /\ f # e => envelopes'[f].status = envelopes[f].status
  BY EnvelopeStateRows DEF Members
<1>2. envelopes'[e].status = st
  BY EnvelopeStateRows
<1>3. \A k \in Members(e) : intents[k].status # "accepted"
  BY DEF MembersFollow, MemberStatus, TypeOK, EnvelopeRows, EnvelopeStatus
<1>4. \A k \in IntentKeys :
        IF k \in Members(e) THEN intents'[k].status \in MemberStatus(st)
        ELSE intents'[k].status = intents[k].status
  BY <1>3, SetIntentsRows
<1> QED
  BY <1>1, <1>2, <1>4 DEF EnvelopeMoves

\* Retiring a stale digest is such an action.
LEMMA RetireMoves ==
    ASSUME TypeOK, MembersFollow, NEW e \in EnvelopeIds, RetireStale(e),
           envelopes[e].status \in {"pending", "leased"}
    PROVE  EnvelopeMoves(e)
<1>1. CASE Partial(e)
  BY <1>1, OneEnvelopeMoves
     DEF RetireStale, HotStatus, IntentStatus, EnvelopeStatus, MemberStatus
<1>2. CASE ~Partial(e)
  <2>1. /\ envelopes' = EnvelopeState(e, "cancelled")
        /\ "cancelled" \in EnvelopeStatus
    BY <1>2 DEF RetireStale, EnvelopeStatus
  <2>2. \A k \in IntentKeys :
          intents'[k] = IF k \in Members(e)
                        THEN WithStatus(intents[k], IF IsCurrent(k) THEN "pending"
                                                    ELSE "superseded")
                        ELSE intents[k]
    BY <1>2 DEF RetireStale
  <2>3. \A k \in IntentKeys : intents[k] \in IntentRows
    BY DEF TypeOK
  <2>4. \A k \in IntentKeys :
          IF k \in Members(e) THEN intents'[k].status \in {"pending", "superseded"}
          ELSE intents'[k].status = intents[k].status
    BY <2>2, <2>3, StatusRow DEF IntentStatus
  <2> QED
    BY <2>1, <2>4, EnvelopeStateRows
       DEF EnvelopeMoves, HotStatus, MemberStatus, Members
<1> QED
  BY <1>1, <1>2

\* Settling a part is such an action.
LEMMA SettlePartMoves ==
    ASSUME TypeOK, MembersFollow, NEW e \in EnvelopeIds, NEW p \in Ordinals,
           NEW outcome \in Receipts, SettlePart(e, p, outcome),
           envelopes[e].status \in {"leased", "uncertain"}
    PROVE  EnvelopeMoves(e)
<1> DEFINE st == PartOutcome(e, p, outcome)
           complete == st = "accepted" /\ OthersAccepted(e, p)
           whole == IF st \in {"uncertain", "failed"} THEN st ELSE "pending"
<1>1. CASE complete
  <2>1. envelopes' = EnvelopeState(e, "accepted") /\ "accepted" \in EnvelopeStatus
    BY <1>1 DEF SettlePart, EnvelopeStatus
  <2>2. \A k \in IntentKeys :
          intents'[k] = IF k \in Members(e) THEN WithStatus(intents[k], "accepted")
                        ELSE intents[k]
    BY <1>1 DEF SettlePart
  <2>3. \A k \in IntentKeys : intents[k] \in IntentRows
    BY DEF TypeOK
  <2>4. \A k \in IntentKeys :
          IF k \in Members(e) THEN intents'[k].status = "accepted"
          ELSE intents'[k].status = intents[k].status
    BY <2>2, <2>3, StatusRow DEF IntentStatus
  <2> QED
    BY <2>1, <2>4, EnvelopeStateRows
       DEF EnvelopeMoves, HotStatus, MemberStatus, Members
<1>2. CASE ~complete
  <2>1. whole \in {"uncertain", "failed", "pending"}
    OBVIOUS
  <2>2. envelopes' = EnvelopeState(e, whole) /\ intents' = SetIntents(e, whole)
    BY <1>2 DEF SettlePart
  <2> HIDE DEF whole
  <2>3. /\ whole \in EnvelopeStatus /\ whole \in IntentStatus
        /\ whole \in MemberStatus(whole) /\ "superseded" \in MemberStatus(whole)
    BY <2>1 DEF EnvelopeStatus, IntentStatus, MemberStatus
  <2> QED
    BY <2>1, <2>2, <2>3, OneEnvelopeMoves DEF HotStatus
<1> QED
  BY <1>1, <1>2

\* Claiming a digest is one: nothing else of its jobs is hot.
LEMMA ClaimMoves ==
    ASSUME TypeOK, NEW w \in Senders, NEW e \in EnvelopeIds, Claim(w, e)
    PROVE  EnvelopeMoves(e)
<1>1. \A k \in IntentKeys :
        IF k \in Members(e) THEN intents'[k].status = "leased"
        ELSE intents'[k].status = intents[k].status
  BY LeasedRow DEF Claim, TypeOK, Processes
<1>2. /\ envelopes'[e].status = "leased"
      /\ \A f \in EnvelopeIds :
           /\ envelopes'[f].members = Members(f)
           /\ f # e => envelopes'[f].status = envelopes[f].status
  BY DEF Claim, Leased, TypeOK, EnvelopeRows, Members
<1>3. envelopes[e].status = "pending"
  BY DEF Claim
<1> QED
  BY <1>1, <1>2, <1>3 DEF EnvelopeMoves, HotStatus, MemberStatus

\* Starting a part is one.
LEMMA BeginPartMoves ==
    ASSUME TypeOK, MembersFollow, NEW w \in Senders, NEW p \in Ordinals,
           BeginPart(w, p)
    PROVE  \E e \in EnvelopeIds : EnvelopeMoves(e)
<1> DEFINE e == sender[w].envelope
<1>1. e \in EnvelopeIds /\ envelopes[e].status = "leased"
  BY DEF BeginPart, Owns, TypeOK, SenderRows
<1>2. CASE parts[e][p].attempts >= MaxAttempts
  <2>1. envelopes' = EnvelopeState(e, "failed") /\ intents' = SetIntents(e, "failed")
    BY <1>2 DEF BeginPart
  <2> QED
    BY <1>1, <2>1, OneEnvelopeMoves
       DEF HotStatus, IntentStatus, EnvelopeStatus, MemberStatus
<1>3. CASE ~(parts[e][p].attempts >= MaxAttempts)
  <2>1. \A k \in IntentKeys :
          intents'[k] = IF k \in Members(e) THEN Started(intents[k])
                        ELSE intents[k]
    BY <1>3 DEF BeginPart
  <2>2. \A k \in IntentKeys : intents[k] \in IntentRows
    BY DEF TypeOK
  <2>3. \A k \in IntentKeys :
          IF k \in Members(e) THEN intents'[k].status = "sending"
          ELSE intents'[k].status = intents[k].status
    BY <2>1, <2>2, StartedRow
  <2>4. envelopes' = envelopes
    BY <1>3 DEF BeginPart
  <2> QED
    BY <1>1, <2>3, <2>4 DEF EnvelopeMoves, HotStatus, MemberStatus, Members
<1> QED
  BY <1>2, <1>3

\* Freezing free rows into an unused envelope.
LEMMA PrepareKeeps ==
    ASSUME ReservationInv, NEW e \in EnvelopeIds, NEW d \in Dests,
           NEW n \in Ordinals, NEW K \in SUBSET IntentKeys, Prepare(e, d, K, n)
    PROVE  /\ MembersDisjoint' /\ MembersFollow'
           /\ ReplacedIsRetired' /\ OneHot'
<1> USE DEF ReservationInv
<1>1. /\ \A k \in K : Preparable(k, d)
      /\ intents' = intents /\ revisions' = revisions
      /\ envelopes' = [envelopes EXCEPT ![e] = [status |-> "pending",
                                                members |-> K, token |-> None]]
      /\ envelopes[e].status = "absent"
  BY DEF Prepare
<1>2. /\ Members(e)' = K /\ envelopes'[e].status = "pending"
      /\ \A f \in EnvelopeIds \ {e} : /\ Members(f)' = Members(f)
                                      /\ envelopes'[f] = envelopes[f]
  BY <1>1 DEF TypeOK, Members
<1>3. \A k \in K : ~Reserved(k) /\ intents[k].status = "pending"
  BY <1>1 DEF Preparable
<1>4. Members(e) = {}
  BY <1>1 DEF MembersFollow, MemberStatus
<1>5. MembersDisjoint'
  <2> SUFFICES ASSUME NEW f \in EnvelopeIds, NEW g \in EnvelopeIds,
                      NEW k \in Members(f)' \cap Members(g)'
               PROVE  f = g
    BY DEF MembersDisjoint
  <2> QED
    BY <1>2, <1>3 DEF MembersDisjoint, Reserved, Members
<1>6. MembersFollow'
  BY <1>1, <1>2, <1>3 DEF MembersFollow, MemberStatus
<1>7. ReplacedIsRetired'
  <2> SUFFICES ASSUME NEW k \in IntentKeys, Replaced(k)'
               PROVE  /\ intents'[k].status = "superseded"
                      /\ \A f \in EnvelopeIds :
                           k \in Members(f)' => envelopes'[f].status = "abandoned"
    BY DEF ReplacedIsRetired
  <2>1. Replaced(k)
    BY <1>1 DEF Replaced
  <2> QED
    BY <1>1, <1>2, <1>3, <2>1 DEF ReplacedIsRetired
<1>8. OneHot'
  <2> SUFFICES ASSUME NEW k \in IntentKeys, NEW l \in IntentKeys,
                      SameStream(k, l), Hot(k)', Hot(l)'
               PROVE  k = l
    BY DEF OneHot, SameStream
  <2>1. \A j \in IntentKeys : Hot(j)' => Hot(j) \/ j \in K
    <3> SUFFICES ASSUME NEW j \in IntentKeys, Hot(j)', j \notin K
                 PROVE  Hot(j)
      OBVIOUS
    <3>1. CASE ~Reserved(j)' /\ intents'[j].status \in InFlight
      <4>1. ~Reserved(j)
        BY <1>2, <1>4, <3>1 DEF Reserved, Members
      <4> QED
        BY <1>1, <3>1, <4>1 DEF Hot
    <3>2. CASE \E f \in EnvelopeIds : /\ j \in Members(f)'
                                      /\ envelopes'[f].status \in HotStatus
      BY <1>2, <3>2 DEF Hot, HotStatus
    <3> QED
      BY <3>1, <3>2 DEF Hot, HotStatus
  <2>2. ASSUME NEW i \in K, NEW j \in IntentKeys, SameStream(i, j)
        PROVE  ~Hot(j)
    <3>1. ~Busy(i) /\ ~SubjectReserved(i, 0)
      BY <1>1 DEF Preparable
    <3>2. intents[j].status \notin InFlight
      BY <2>2, <3>1 DEF Busy, InFlight, SameStream
    <3>3. \A f \in EnvelopeIds : f \in EnvelopeIds \ {0}
      BY DeliveryAssumption DEF EnvelopeIds
    <3>4. \A f \in EnvelopeIds : j \in Members(f) =>
            envelopes[f].status \notin {"pending", "leased", "uncertain"}
      BY <2>2, <3>1, <3>3 DEF SubjectReserved, Members, SameStream
    <3> QED
      BY <3>2, <3>4 DEF Hot
  <2>3. CASE k \in K /\ l \in K
    <3>1. SameRevision(k, l)
      BY <1>1, <2>3 DEF Preparable, IsCurrent, SameRevision, SameStream
    <3>2. SameRevision(l, k)
      BY <3>1 DEF SameRevision, SameStream
    <3>3. ~Replaced(k) /\ ~Replaced(l)
      BY <1>3, <2>3 DEF ReplacedIsRetired
    <3>4. ~(k.generation < l.generation) /\ ~(l.generation < k.generation)
      BY <1>3, <2>3, <3>1, <3>2, <3>3 DEF Replaced
    <3> QED
      BY <3>1, <3>4, KeyFields
  <2>4. CASE k \notin K /\ l \notin K
    BY <2>1, <2>4 DEF OneHot
  <2>5. CASE k \in K /\ l \notin K
    BY <2>1, <2>2, <2>5
  <2>6. CASE k \notin K /\ l \in K
    BY <2>1, <2>2, <2>6 DEF SameStream
  <2> QED
    BY <2>3, <2>4, <2>5, <2>6
<1> QED
  BY <1>5, <1>6, <1>7, <1>8

\* A later generation is a later row of the same revision.
LEMMA NextGenerationFields ==
    ASSUME NEW k \in IntentKeys
    PROVE  /\ NextGeneration(k).generation = k.generation + 1
           /\ SameRevision(k, NextGeneration(k))
           /\ k.generation \in Nat
           /\ k.generation < MaxGeneration => NextGeneration(k) \in IntentKeys
<1>1. k.generation \in Nat /\ 1 <= k.generation /\ k.generation <= MaxGeneration
  BY DeliveryAssumption DEF IntentKeys
<1>2. k.generation < MaxGeneration => k.generation + 1 \in 1..MaxGeneration
  BY <1>1, DeliveryAssumption
<1> QED
  BY <1>1, <1>2
     DEF NextGeneration, IntentKeys, SameRevision, SameStream

\* Replacing rows of untried drafts.
LEMMA ReissueKeeps ==
    ASSUME ReservationInv, NEW E \in SUBSET EnvelopeIds,
           NEW K \in SUBSET IntentKeys, ReissueUnsent(E, K)
    PROVE  /\ MembersDisjoint' /\ MembersFollow'
           /\ ReplacedIsRetired' /\ OneHot'
<1> USE DEF ReservationInv
<1> DEFINE fresh(k) == \E old \in K : k = NextGeneration(old)
           failing(k) == /\ \E e \in E : /\ envelopes[e].status # "abandoned"
                                         /\ k \in Members(e)
                         /\ intents[k].status \notin {"superseded", "accepted"}
<1>1. /\ \A f \in EnvelopeIds :
           /\ Members(f)' = Members(f)
           /\ envelopes'[f].status = IF f \in E THEN "abandoned"
                                     ELSE envelopes[f].status
      /\ \A k \in IntentKeys : Reserved(k)' = Reserved(k)
  <2>1. \A f \in EnvelopeIds :
          envelopes'[f] = IF f \in E THEN WithStatus(envelopes[f], "abandoned")
                          ELSE envelopes[f]
    BY DEF ReissueUnsent
  <2>2. \A f \in EnvelopeIds : envelopes[f] \in EnvelopeRows
    BY DEF TypeOK
  <2>3. \A f \in EnvelopeIds :
          /\ envelopes'[f].members = envelopes[f].members
          /\ envelopes'[f].status = IF f \in E THEN "abandoned"
                                    ELSE envelopes[f].status
    BY <2>1, <2>2, EnvelopeRow DEF EnvelopeStatus
  <2> QED
    BY <2>3 DEF Members, Reserved
<1>2. \A k \in IntentKeys :
        intents'[k].status = IF k \in K THEN "superseded"
                             ELSE IF fresh(k) THEN "pending"
                             ELSE IF failing(k) THEN "failed"
                             ELSE intents[k].status
  <2>1. \A k \in IntentKeys :
          intents'[k] = IF k \in K THEN WithStatus(intents[k], "superseded")
                        ELSE IF fresh(k) THEN WithStatus(NoIntent, "pending")
                        ELSE IF failing(k) THEN WithStatus(intents[k], "failed")
                        ELSE intents[k]
    BY DEF ReissueUnsent
  <2>2. \A k \in IntentKeys : intents[k] \in IntentRows
    BY DEF TypeOK
  <2> QED
    BY <2>1, <2>2, StatusRow, NewRow DEF IntentStatus
<1>3. \A k \in K : /\ intents[k].status \in {"pending", "failed"}
                   /\ k.generation < MaxGeneration
                   /\ intents[NextGeneration(k)].status = "absent"
                   /\ \E e \in E : k \in Members(e)
  BY DEF ReissueUnsent
<1>4. \A e \in E : envelopes[e].status \in {"pending", "abandoned", "cancelled"}
  BY DEF ReissueUnsent, ProvedUnsent
<1>5. \A k \in IntentKeys : fresh(k) => intents[k].status = "absent"
  BY <1>3
<1>6. \A f \in EnvelopeIds, k \in IntentKeys : k \in Members(f) => ~fresh(k)
  BY <1>5, MembersExist DEF MembersFollow
<1>7. \A k \in IntentKeys : fresh(k) \/ (intents'[k].status # "absent"
                                          => intents[k].status # "absent")
  <2>1. \A k \in IntentKeys : failing(k) => intents[k].status # "absent"
    BY MembersExist DEF MembersFollow
  <2> QED
    BY <1>2, <1>3, <2>1
<1> HIDE DEF fresh, failing
<1>8. MembersDisjoint'
  BY <1>1 DEF MembersDisjoint
<1>9. MembersFollow'
  <2> SUFFICES ASSUME NEW f \in EnvelopeIds, NEW k \in Members(f)
               PROVE  intents'[k].status \in MemberStatus(envelopes'[f].status)
    BY <1>1 DEF MembersFollow
  <2>1. k \in IntentKeys
    BY DEF Members, TypeOK, EnvelopeRows
  <2>2. intents[k].status \in MemberStatus(envelopes[f].status) /\ ~fresh(k)
    BY <1>6, <2>1 DEF MembersFollow
  <2>3. \A e \in EnvelopeIds : k \in Members(e) => e = f
    BY DEF MembersDisjoint
  <2>4. CASE f \in E
    <3>1. envelopes'[f].status = "abandoned"
      BY <1>1, <2>4
    <3>2. intents'[k].status \in {"failed", "superseded"}
      <4>1. CASE envelopes[f].status = "abandoned"
        <5>1. ~failing(k)
          BY <2>3, <4>1 DEF failing
        <5>2. intents[k].status \in {"failed", "superseded"}
          BY <2>2, <4>1 DEF MemberStatus
        <5> QED
          BY <1>2, <2>1, <2>2, <5>1, <5>2
      <4>2. CASE envelopes[f].status # "abandoned"
        <5>1. intents[k].status \in {"pending", "superseded"}
          BY <1>4, <2>2, <2>4, <4>2 DEF MemberStatus
        <5>2. failing(k) \/ intents[k].status = "superseded"
          BY <2>4, <4>2, <5>1 DEF failing
        <5> QED
          BY <1>2, <2>1, <2>2, <5>2
      <4> QED
        BY <4>1, <4>2
    <3> QED
      BY <3>1, <3>2 DEF MemberStatus
  <2>5. CASE f \notin E
    <3>1. k \notin K /\ ~failing(k)
      BY <1>3, <2>3, <2>5 DEF failing
    <3> QED
      BY <1>1, <1>2, <2>1, <2>2, <2>5, <3>1
  <2> QED
    BY <2>4, <2>5
<1>10. ReplacedIsRetired'
  <2>1. ASSUME NEW k \in IntentKeys, Replaced(k)
        PROVE  /\ intents'[k].status = "superseded"
               /\ \A e \in EnvelopeIds :
                    k \in Members(e) => envelopes'[e].status = "abandoned"
    <3>1. /\ intents[k].status = "superseded"
          /\ \A e \in EnvelopeIds :
               k \in Members(e) => envelopes[e].status = "abandoned"
      BY <2>1 DEF ReplacedIsRetired
    <3>2. k \notin K /\ ~fresh(k) /\ ~failing(k)
      BY <1>3, <1>5, <3>1 DEF failing
    <3> QED
      BY <1>1, <1>2, <3>1, <3>2
  <2>2. ASSUME NEW k \in IntentKeys, NEW old \in K,
               SameRevision(k, NextGeneration(old)),
               k.generation < NextGeneration(old).generation, ~Replaced(k)
        PROVE  /\ intents'[k].status = "superseded"
               /\ \A e \in EnvelopeIds :
                    k \in Members(e) => envelopes'[e].status = "abandoned"
    <3>1. SameRevision(k, old) /\ k.generation <= old.generation
      <4>1. k.generation \in Nat
        BY DeliveryAssumption DEF IntentKeys
      <4> QED
        BY <2>2, <4>1, NextGenerationFields DEF SameRevision, SameStream
    <3>2. intents[old].status # "absent"
      BY <1>3
    <3>3. ~(k.generation < old.generation)
      BY <2>2, <3>1, <3>2 DEF Replaced
    <3>4. k = old
      BY <3>1, <3>3, KeyFields
    <3>5. PICK e \in E : k \in Members(e)
      BY <1>3, <3>4
    <3>6. \A f \in EnvelopeIds : k \in Members(f) => f = e
      BY <3>5 DEF MembersDisjoint
    <3> QED
      BY <1>1, <1>2, <3>4, <3>5, <3>6
  <2> SUFFICES ASSUME NEW k \in IntentKeys, NEW l \in IntentKeys,
                      SameRevision(k, l), k.generation < l.generation,
                      intents'[l].status # "absent"
               PROVE  /\ intents'[k].status = "superseded"
                      /\ \A e \in EnvelopeIds :
                           k \in Members(e) => envelopes'[e].status = "abandoned"
    BY <1>1 DEF ReplacedIsRetired, Replaced, SameRevision, SameStream
  <2>3. CASE Replaced(k)
    BY <2>1, <2>3
  <2>4. CASE ~Replaced(k)
    <3>1. fresh(l)
      BY <1>7, <2>4 DEF Replaced
    <3>2. PICK old \in K : l = NextGeneration(old)
      BY <3>1 DEF fresh
    <3> QED
      BY <2>2, <2>4, <3>2
  <2> QED
    BY <2>3, <2>4
<1>11. OneHot'
  <2>1. ASSUME NEW k \in IntentKeys, Hot(k)'
        PROVE  Hot(k)
    <3>1. intents'[k].status \in InFlight => intents[k].status \in InFlight
      BY <1>2 DEF InFlight
    <3>2. \A e \in EnvelopeIds :
            envelopes'[e].status \in HotStatus => envelopes[e].status \in HotStatus
      BY <1>1 DEF HotStatus
    <3> QED
      BY <1>1, <2>1, <3>1, <3>2 DEF Hot, HotStatus
  <2> QED
    BY <2>1 DEF OneHot, SameStream
<1> QED
  BY <1>8, <1>9, <1>10, <1>11

\* Every step of the digest transport keeps the invariant.
LEMMA TransportKeeps ==
    ASSUME ReservationInv, TransportNext
    PROVE  /\ MembersDisjoint' /\ MembersFollow'
           /\ ReplacedIsRetired' /\ OneHot'
<1> DEFINE Goal == /\ MembersDisjoint' /\ MembersFollow'
                   /\ ReplacedIsRetired' /\ OneHot'
<1>t. TypeOK /\ MembersFollow
  BY DEF ReservationInv
<1>u. ASSUME UNCHANGED <<intents, envelopes>> PROVE Goal
  BY <1>u, QueueKeeps DEF QueueMoves
<1>1. ASSUME NEW e \in EnvelopeIds, ExpireEnvelope(e) PROVE Goal
  <2> DEFINE st == IF {p \in PartNumbers(e) : parts[e][p].status = "sending"} = {}
                   THEN "pending" ELSE "uncertain"
  <2>1. /\ envelopes' = EnvelopeState(e, st) /\ intents' = SetIntents(e, st)
        /\ envelopes[e].status = "leased"
    BY <1>1 DEF ExpireEnvelope
  <2>2. st \in {"pending", "uncertain"}
    OBVIOUS
  <2> HIDE DEF st
  <2>3. EnvelopeMoves(e)
    BY <1>t, <2>1, <2>2, OneEnvelopeMoves
       DEF HotStatus, IntentStatus, EnvelopeStatus, MemberStatus
  <2> QED
    BY <2>3, EnvelopeKeeps
<1>2. ASSUME NEW e \in EnvelopeIds, ClaimStale(e) PROVE Goal
  BY <1>2, <1>t, RetireMoves, EnvelopeKeeps DEF ClaimStale
<1>3. ASSUME NEW w \in Senders, NEW e \in EnvelopeIds, Claim(w, e) PROVE Goal
  BY <1>3, <1>t, ClaimMoves, EnvelopeKeeps
<1>4. ASSUME NEW w \in Senders, NEW p \in Ordinals, BeginPart(w, p) PROVE Goal
  BY <1>4, <1>t, BeginPartMoves, EnvelopeKeeps
<1>5. ASSUME NEW w \in Senders, BeginPartStale(w) PROVE Goal
  <2> DEFINE e == sender[w].envelope
  <2>1. e \in EnvelopeIds /\ envelopes[e].status = "leased"
    BY <1>5, <1>t DEF BeginPartStale, Owns, TypeOK, SenderRows
  <2> QED
    BY <1>5, <1>t, <2>1, RetireMoves, EnvelopeKeeps DEF BeginPartStale
<1>6. ASSUME NEW w \in Senders,
             (\E a \in Answers : SenderAnswered(w, a))
               \/ SenderRefused(w) \/ SenderDies(w)
      PROVE  Goal
  <2>1. UNCHANGED <<intents, envelopes>>
    BY <1>6 DEF SenderAnswered, SenderRefused, SenderDies, tables
  <2> QED
    BY <1>u, <2>1
<1>7. ASSUME NEW w \in Senders, FinishPart(w) PROVE Goal
  <2> DEFINE e == sender[w].envelope
  <2>1. /\ e \in EnvelopeIds /\ envelopes[e].status = "leased"
        /\ sender[w].ordinal \in Ordinals /\ sender[w].receipt \in Receipts
    BY <1>7, <1>t DEF FinishPart, Owns, TypeOK, SenderRows
  <2> QED
    BY <1>7, <1>t, <2>1, SettlePartMoves, EnvelopeKeeps DEF FinishPart
<1>8. ASSUME NEW e \in EnvelopeIds, NEW p \in Ordinals,
             NEW o \in {"accepted", "not_sent"}, ReconcilePart(e, p, o)
      PROVE  Goal
  BY <1>8, <1>t, SettlePartMoves, EnvelopeKeeps DEF ReconcilePart, Receipts
<1>9. ASSUME NEW e \in EnvelopeIds, Abandon(e) PROVE Goal
  <2>1. EnvelopeMoves(e)
    BY <1>9, <1>t, OneEnvelopeMoves
       DEF Abandon, HotStatus, IntentStatus, EnvelopeStatus, MemberStatus
  <2> QED
    BY <2>1, EnvelopeKeeps
<1>10. CASE PrepareSome
  BY <1>10, PrepareKeeps DEF PrepareSome
<1>11. CASE ReissueSome
  <2>1. \A e \in EnvelopeIds : Members(e) \subseteq IntentKeys
    BY <1>t DEF TypeOK, EnvelopeRows, Members
  <2> QED
    BY <1>11, <2>1, ReissueKeeps DEF ReissueSome
<1> QED
  BY <1>1, <1>2, <1>3, <1>4, <1>5, <1>6, <1>7, <1>8, <1>9, <1>10, <1>11
     DEF TransportNext, SenderStep, Operator

\* The empty tables reserve nothing.
LEMMA ReservationInit == Init => ReservationInv
<1> SUFFICES ASSUME Init PROVE ReservationInv
  OBVIOUS
<1>1. /\ \A k \in IntentKeys : intents[k].status = "absent"
      /\ \A e \in EnvelopeIds : Members(e) = {}
  BY DEF Init, NoIntent, Members
<1>2. MembersDisjoint /\ MembersFollow
  BY <1>1 DEF MembersDisjoint, MembersFollow
<1>3. ReplacedIsRetired
  BY <1>1 DEF ReplacedIsRetired, Replaced
<1>4. OneHot
  BY <1>1 DEF OneHot, Hot, InFlight
<1> QED
  BY <1>2, <1>3, <1>4, TypeInit DEF ReservationInv

\* The reservation invariant is inductive.
LEMMA ReservationStep == ReservationInv /\ [Next]_vars => ReservationInv'
<1> SUFFICES ASSUME ReservationInv, [Next]_vars PROVE ReservationInv'
  OBVIOUS
<1>1. TypeOK'
  BY TypeStep DEF ReservationInv
<1>2. /\ MembersDisjoint' /\ MembersFollow'
      /\ ReplacedIsRetired' /\ OneHot'
  <2>1. CASE UNCHANGED vars
    BY <2>1, QueueKeeps DEF QueueMoves, vars
  <2>2. CASE OutboxNext
    BY <2>2, OutboxMoves, QueueKeeps
  <2>3. CASE TransportNext
    BY <2>3, TransportKeeps
  <2> QED
    BY <2>1, <2>2, <2>3 DEF Next
<1> QED
  BY <1>1, <1>2 DEF ReservationInv

\* The reservations always hold.
THEOREM ReservationsHold == Spec => []ReservationInv
  BY ReservationInit, ReservationStep, PTL DEF Spec

\* A row in flight is hot: it is unreserved, or its envelope is on its way.
LEMMA InFlightIsHot ==
    ASSUME ReservationInv, NEW k \in IntentKeys, intents[k].status \in InFlight
    PROVE  Hot(k)
<1>1. CASE ~Reserved(k)
  BY <1>1 DEF Hot
<1>2. CASE Reserved(k)
  <2>1. PICK e \in EnvelopeIds : k \in Members(e)
    BY <1>2 DEF Reserved, Members
  <2>2. intents[k].status \in MemberStatus(envelopes[e].status)
    BY <2>1 DEF ReservationInv, MembersFollow
  <2>3. envelopes[e].status \in {"leased", "uncertain"}
    BY <2>2 DEF MemberStatus, InFlight
  <2> QED
    BY <2>1, <2>3 DEF Hot
<1> QED
  BY <1>1, <1>2

\* Two rows of one job and destination are never on their way together, nor is
\* one sent while the fate of another is unknown.
THEOREM OneRowInFlight == Spec => []OneInFlight
<1>1. ReservationInv => OneInFlight
  BY InFlightIsHot DEF ReservationInv, OneHot, OneInFlight
<1> QED
  BY <1>1, ReservationsHold, PTL

-----------------------------------------------------------------------------
(* Senders and parts.                                                      *)

\* The envelopes of E end up unleased, with every part of theirs settled as
\* the provider left it; no sender starts anything.
Rests(E) ==
    /\ posted' = posted
    /\ \A f \in EnvelopeIds : /\ Members(f)' = Members(f)
                              /\ PartNumbers(f)' = PartNumbers(f)
    /\ \A f \in EnvelopeIds \ E : /\ envelopes'[f] = envelopes[f]
                                  /\ parts'[f] = parts[f]
    /\ \A e \in E :
         /\ envelopes[e].status # "absent"
         /\ envelopes'[e].status \notin {"absent", "leased"}
         /\ \A p \in PartNumbers(e) :
              /\ parts'[e][p].status # "sending"
              /\ posted[e][p] > 0 => parts'[e][p].status \in {"uncertain", "accepted"}
              /\ parts'[e][p].status = "accepted" => posted[e][p] = 1
    /\ \A w \in Senders :
         /\ sender'[w] \in {sender[w], IdleSender}
         /\ sender'[w].pc = "sending" /\ sender[w].envelope \in E =>
              /\ envelopes'[sender[w].envelope].status = "uncertain"
              /\ parts'[sender[w].envelope][sender[w].ordinal].status = "uncertain"

\* What a sender at work on an envelope is, field by field.
LEMMA SenderFields ==
    ASSUME TypeOK, NEW w \in Senders, sender[w].pc # "idle"
    PROVE  /\ sender[w].envelope \in EnvelopeIds
           /\ sender[w].receipt \in Receipts
           /\ sender[w].pc \in {"sending", "answered"} => sender[w].ordinal \in Ordinals
  BY DEF TypeOK, SenderRows

\* The provider has not taken a part that waits to be sent, or that is none.
LEMMA NotTaken ==
    ASSUME PartsInv, NEW e \in EnvelopeIds, NEW p \in Ordinals,
           p \in PartNumbers(e) => parts[e][p].status = "pending"
    PROVE  posted[e][p] = 0
<1>1. posted[e][p] \in Nat
  BY DEF PartsInv, TypeOK
<1>2. ~(posted[e][p] > 0)
  BY DEF PartsInv, PostedState
<1> QED
  BY <1>1, <1>2

\* A step that puts envelopes to rest keeps what is known of them.
LEMMA RestsKeep ==
    ASSUME PartsInv, NEW E \in SUBSET EnvelopeIds, Rests(E)
    PROVE  (PartsNumbered /\ SenderKnows /\ PostedState)'
<1> USE DEF PartsInv
<1>1. PartsNumbered'
  BY DEF PartsNumbered, Rests
<1>2. PostedState'
  <2> SUFFICES ASSUME NEW e \in EnvelopeIds, NEW p \in Ordinals
               PROVE
        /\ posted[e][p] > 0 =>
             /\ posted[e][p] = 1 /\ p \in PartNumbers(e)
             /\ parts'[e][p].status \in {"sending", "uncertain", "accepted"}
        /\ p \in PartNumbers(e) /\ parts'[e][p].status = "accepted" => posted[e][p] = 1
        /\ p \in PartNumbers(e) /\ parts'[e][p].status = "sending" =>
             /\ envelopes'[e].status = "leased"
             /\ \A q \in PartNumbers(e) \ {p} : parts'[e][q].status # "sending"
    BY DEF PostedState, Rests
  <2>1. CASE e \in E
    BY <2>1 DEF PostedState, Rests
  <2>2. CASE e \notin E
    BY <2>2 DEF PostedState, Rests
  <2> QED
    BY <2>1, <2>2
<1>3. SenderKnows'
  <2>1. ASSUME NEW w \in Senders, sender'[w].pc # "idle"
        PROVE  sender'[w] = sender[w] /\ sender[w].envelope \in EnvelopeIds
    BY <2>1, SenderFields DEF Rests, IdleSender
  <2>2. ASSUME NEW w \in Senders, sender'[w].pc # "idle", sender[w].envelope \in E
        PROVE  ~Owns(w)'
    BY <2>1, <2>2 DEF Owns, Rests
  <2>3. ASSUME NEW w \in Senders, sender'[w].pc # "idle", sender[w].envelope \notin E
        PROVE  /\ Owns(w)' <=> Owns(w)
               /\ envelopes'[sender[w].envelope] = envelopes[sender[w].envelope]
               /\ parts'[sender[w].envelope] = parts[sender[w].envelope]
    BY <2>1, <2>3 DEF Owns, Rests
  <2>4. posted' = posted
        /\ \A f \in EnvelopeIds : PartNumbers(f)' = PartNumbers(f)
    BY DEF Rests
  <2>5. ASSUME NEW w \in Senders
        PROVE  SenderKnown(w)'
    <3>1. CASE sender'[w].pc = "idle"
      BY <3>1 DEF SenderKnown
    <3>2. CASE sender'[w].pc # "idle" /\ sender[w].envelope \in E
      <4>1. /\ sender'[w] = sender[w] /\ ~Owns(w)' /\ SenderKnown(w)
            /\ PartNumbers(sender[w].envelope)' = PartNumbers(sender[w].envelope)
        BY <3>2, <2>1, <2>2, <2>4 DEF SenderKnows
      <4>2. sender[w].pc = "sending" =>
              /\ envelopes'[sender[w].envelope].status = "uncertain"
              /\ parts'[sender[w].envelope][sender[w].ordinal].status = "uncertain"
        BY <3>2, <4>1 DEF Rests
      <4> QED
        BY <2>1, <2>4, <3>2, <4>1, <4>2 DEF SenderKnown
    <3>3. CASE sender'[w].pc # "idle" /\ sender[w].envelope \notin E
      <4>1. /\ sender'[w] = sender[w] /\ SenderKnown(w)
            /\ PartNumbers(sender[w].envelope)' = PartNumbers(sender[w].envelope)
        BY <3>3, <2>1, <2>4 DEF SenderKnows
      <4> QED
        BY <2>3, <2>4, <3>3, <4>1 DEF SenderKnown
    <3> QED
      BY <3>1, <3>2, <3>3
  <2>6. \A v, w \in Senders :
          /\ sender'[v].pc = "sending" /\ sender'[w].pc = "sending"
          /\ sender'[v].envelope = sender'[w].envelope
          => v = w
    BY <2>1 DEF SenderKnows
  <2> QED
    BY <2>5, <2>6 DEF SenderKnows
<1> QED
  BY <1>1, <1>2, <1>3

\* One envelope put to rest with the status st.
LEMMA OneRests ==
    ASSUME PartsInv, NEW e \in EnvelopeIds, NEW st \in EnvelopeStatus,
           st \notin {"absent", "leased"}, envelopes[e].status # "absent",
           envelopes' = EnvelopeState(e, st), posted' = posted,
           \A f \in EnvelopeIds : f # e => parts'[f] = parts[f],
           PartNumbers(e)' = PartNumbers(e),
           \A p \in PartNumbers(e) :
              /\ parts'[e][p].status # "sending"
              /\ posted[e][p] > 0 => parts'[e][p].status \in {"uncertain", "accepted"}
              /\ parts'[e][p].status = "accepted" => posted[e][p] = 1,
           \A w \in Senders :
              /\ sender'[w] \in {sender[w], IdleSender}
              /\ sender'[w].pc = "sending" /\ sender[w].envelope = e =>
                   /\ st = "uncertain"
                   /\ parts'[e][sender[w].ordinal].status = "uncertain"
    PROVE  Rests({e})
<1>1. /\ envelopes'[e].status = st
      /\ \A f \in EnvelopeIds : /\ envelopes'[f].members = envelopes[f].members
                                /\ f # e => envelopes'[f] = envelopes[f]
  BY EnvelopeStateRows DEF PartsInv
<1>2. \A f \in EnvelopeIds : Members(f)' = Members(f) /\ PartNumbers(f)' = PartNumbers(f)
  BY <1>1 DEF Members, PartNumbers
<1> QED
  BY <1>1, <1>2 DEF Rests

\* An expired lease: what was being sent may have been delivered.
LEMMA ExpireRests ==
    ASSUME PartsInv, NEW e \in EnvelopeIds, ExpireEnvelope(e)
    PROVE  Rests({e})
<1> USE DEF PartsInv
<1> DEFINE sending == {p \in PartNumbers(e) : parts[e][p].status = "sending"}
           st == IF sending = {} THEN "pending" ELSE "uncertain"
<1>1. /\ envelopes[e].status = "leased"
      /\ envelopes' = EnvelopeState(e, st)
      /\ parts' = [parts EXCEPT
                     ![e] = [p \in PartNumbers(e) |->
                               IF p \in sending
                               THEN [parts[e][p] EXCEPT !.status = "uncertain"]
                               ELSE parts[e][p]]]
      /\ posted' = posted /\ sender' = sender
  BY DEF ExpireEnvelope
<1>2. /\ DOMAIN parts'[e] = PartNumbers(e)
      /\ \A p \in PartNumbers(e) :
           parts'[e][p].status = IF p \in sending THEN "uncertain"
                                 ELSE parts[e][p].status
  <2>1. parts[e] \in Seq(PartRows) /\ parts \in [EnvelopeIds -> Seq(PartRows)]
    BY DEF TypeOK
  <2>2. \A p \in PartNumbers(e) : parts[e][p] \in PartRows
    BY <2>1 DEF PartNumbers
  <2>3. \A p \in PartNumbers(e) :
          [parts[e][p] EXCEPT !.status = "uncertain"].status = "uncertain"
    BY <2>2 DEF PartRows
  <2>4. parts'[e] = [p \in PartNumbers(e) |->
                       IF p \in sending
                       THEN [parts[e][p] EXCEPT !.status = "uncertain"]
                       ELSE parts[e][p]]
    BY <1>1, <2>1
  <2> QED
    BY <2>3, <2>4
<1>3. \A p \in PartNumbers(e) :
        /\ posted[e][p] > 0 => parts[e][p].status \in {"sending", "uncertain", "accepted"}
        /\ parts[e][p].status = "accepted" => posted[e][p] = 1
  BY DEF PartsNumbered, PostedState
<1>4. \A p \in PartNumbers(e) :
        /\ parts'[e][p].status # "sending"
        /\ posted[e][p] > 0 => parts'[e][p].status \in {"uncertain", "accepted"}
        /\ parts'[e][p].status = "accepted" => posted[e][p] = 1
  BY <1>2, <1>3
<1>5. ASSUME NEW w \in Senders, sender[w].pc = "sending", sender[w].envelope = e
      PROVE  st = "uncertain" /\ parts'[e][sender[w].ordinal].status = "uncertain"
  <2>1. sender[w].ordinal \in sending
    BY <1>1, <1>5 DEF SenderKnows, SenderKnown
  <2> QED
    BY <1>2, <2>1
<1>6. \A f \in EnvelopeIds : f # e => parts'[f] = parts[f]
  BY <1>1
<1>7. st \in EnvelopeStatus /\ st \notin {"absent", "leased"}
  BY DEF EnvelopeStatus
<1> HIDE DEF sending, st
<1> QED
  BY <1>1, <1>2, <1>4, <1>5, <1>6, <1>7, OneRests DEF PartNumbers

\* No part of an envelope is under way without its lease, and no sender waits
\* for an answer about it unless it is leased or uncertain.
LEMMA UnleasedIsQuiet ==
    ASSUME PartsInv, NEW e \in EnvelopeIds, envelopes[e].status # "leased"
    PROVE  /\ \A p \in PartNumbers(e) : parts[e][p].status # "sending"
           /\ \A w \in Senders : sender[w].pc = "sending" /\ sender[w].envelope = e
                                   => envelopes[e].status = "uncertain"
<1>1. \A p \in PartNumbers(e) : parts[e][p].status # "sending"
  BY DEF PartsInv, PartsNumbered, PostedState
<1>2. ASSUME NEW w \in Senders, sender[w].pc = "sending", sender[w].envelope = e
      PROVE  envelopes[e].status = "uncertain"
  BY <1>2 DEF PartsInv, SenderKnows, SenderKnown, Owns
<1> QED
  BY <1>1, <1>2

\* Only the holder of an envelope's lease is sending it.
LEMMA OwnerIsAlone ==
    ASSUME PartsInv, NEW w \in Senders, Owns(w), NEW v \in Senders,
           sender[v].pc = "sending", sender[v].envelope = sender[w].envelope
    PROVE  v = w
<1>1. SenderKnown(v)
  BY DEF PartsInv, SenderKnows
<1> QED
  BY <1>1 DEF SenderKnown, Owns

\* An envelope none of whose parts is under way is put to rest.
LEMMA QuietRests ==
    ASSUME PartsInv, NEW e \in EnvelopeIds, NEW st \in EnvelopeStatus,
           st \notin {"absent", "leased"}, envelopes[e].status # "absent",
           envelopes' = EnvelopeState(e, st), parts' = parts, posted' = posted,
           \A p \in PartNumbers(e) : parts[e][p].status # "sending",
           \A w \in Senders :
              /\ sender'[w] \in {sender[w], IdleSender}
              /\ sender'[w].pc = "sending" => sender[w].envelope # e
    PROVE  Rests({e})
<1>1. \A p \in PartNumbers(e) :
        /\ posted[e][p] > 0 => parts[e][p].status \in {"uncertain", "accepted"}
        /\ parts[e][p].status = "accepted" => posted[e][p] = 1
  BY DEF PartsInv, PartsNumbered, PostedState
<1>2. PartNumbers(e)' = PartNumbers(e)
  BY DEF PartNumbers
<1> QED
  BY <1>1, <1>2, OneRests

\* A stale claim is refused.
LEMMA ClaimStaleRests ==
    ASSUME PartsInv, NEW e \in EnvelopeIds, ClaimStale(e)
    PROVE  Rests({e})
<1>1. /\ envelopes[e].status = "pending"
      /\ UNCHANGED <<parts, posted, sender>>
      /\ \E st \in {"uncertain", "cancelled"} : envelopes' = EnvelopeState(e, st)
  BY DEF ClaimStale, RetireStale
<1>2. /\ \A p \in PartNumbers(e) : parts[e][p].status # "sending"
      /\ \A w \in Senders : sender[w].pc = "sending" => sender[w].envelope # e
  BY <1>1, UnleasedIsQuiet
<1> QED
  BY <1>1, <1>2, QuietRests DEF EnvelopeStatus

\* The holder of a lease gives it up before it has started a part.
LEMMA HolderRests ==
    ASSUME PartsInv, NEW w \in Senders, NEW e \in EnvelopeIds,
           NEW st \in EnvelopeStatus, st \notin {"absent", "leased"},
           sender[w].envelope = e, sender[w].pc = "claimed", Owns(w),
           envelopes' = EnvelopeState(e, st), parts' = parts, posted' = posted,
           sender' = [sender EXCEPT ![w] = IdleSender]
    PROVE  Rests({e})
<1>1. \A p \in PartNumbers(e) : parts[e][p].status # "sending"
  BY DEF PartsInv, SenderKnows, SenderKnown
<1>2. \A v \in Senders : sender'[v] = IF v = w THEN IdleSender ELSE sender[v]
  BY DEF PartsInv, TypeOK
<1>3. \A v \in Senders : sender'[v].pc = "sending" => sender[v].envelope # e
  BY <1>2, OwnerIsAlone DEF IdleSender
<1> QED
  BY <1>1, <1>2, <1>3, QuietRests DEF Owns

\* So it is when the envelope went stale under its claim.
LEMMA BeginPartStaleRests ==
    ASSUME PartsInv, NEW w \in Senders, BeginPartStale(w)
    PROVE  Rests({sender[w].envelope})
<1>1. sender[w].envelope \in EnvelopeIds
  BY SenderFields DEF PartsInv, BeginPartStale
<1>2. \E st \in {"uncertain", "cancelled"} :
        envelopes' = EnvelopeState(sender[w].envelope, st)
  BY DEF BeginPartStale, RetireStale
<1> QED
  BY <1>1, <1>2, HolderRests DEF BeginPartStale, EnvelopeStatus

\* A part's receipt, from the sender that holds the lease or from a reviewer,
\* is what the provider did; nobody else waits for an answer about the
\* envelope.
LEMMA SettleRests ==
    ASSUME PartsInv, NEW e \in EnvelopeIds, NEW p \in PartNumbers(e),
           NEW outcome \in Receipts, SettlePart(e, p, outcome),
           posted' = posted, envelopes[e].status # "absent",
           parts[e][p].status \in {"sending", "uncertain"},
           envelopes[e].status = "leased" => parts[e][p].status = "sending",
           outcome = "accepted" => posted[e][p] = 1,
           outcome \in {"not_sent", "permanent_failure"} => posted[e][p] = 0,
           \A w \in Senders :
              /\ sender'[w] \in {sender[w], IdleSender}
              /\ sender'[w].pc = "sending" => sender[w].envelope # e
    PROVE  Rests({e})
<1> USE DEF PartsInv
<1> DEFINE st == PartOutcome(e, p, outcome)
           whole == IF st \in {"uncertain", "failed"} THEN st ELSE "pending"
<1>1. /\ parts[e] \in Seq(PartRows) /\ parts \in [EnvelopeIds -> Seq(PartRows)]
      /\ p \in Ordinals
  BY DEF TypeOK, PartsNumbered
<1>2. /\ st \in {"accepted", "uncertain", "failed", "pending"}
      /\ st = "accepted" => outcome = "accepted"
      /\ st \in {"failed", "pending"} => outcome \in {"not_sent", "permanent_failure"}
  BY DEF PartOutcome, Receipts
<1>3. /\ \A f \in EnvelopeIds : f # e => parts'[f] = parts[f]
      /\ PartNumbers(e)' = PartNumbers(e)
      /\ \A q \in PartNumbers(e) :
           parts'[e][q].status = IF q = p THEN st ELSE parts[e][q].status
  <2>1. parts' = [parts EXCEPT ![e][p].status = st]
    BY DEF SettlePart
  <2>2. parts[e][p] \in PartRows
    BY <1>1 DEF PartNumbers
  <2>3. [parts[e][p] EXCEPT !.status = st].status = st
    BY <2>2 DEF PartRows
  <2>4. parts'[e] = [parts[e] EXCEPT ![p] = [parts[e][p] EXCEPT !.status = st]]
    BY <1>1, <2>1
  <2>5. \A f \in EnvelopeIds : f # e => parts'[f] = parts[f]
    BY <1>1, <2>1
  <2> HIDE DEF st
  <2> QED
    BY <1>1, <2>3, <2>4, <2>5 DEF PartNumbers
<1>4. \E new \in {"accepted", "uncertain", "failed", "pending"} :
        envelopes' = EnvelopeState(e, new)
  <2>1. whole \in {"uncertain", "failed", "pending"}
    OBVIOUS
  <2>2. \/ envelopes' = EnvelopeState(e, "accepted")
        \/ envelopes' = EnvelopeState(e, whole)
    BY DEF SettlePart
  <2> HIDE DEF whole
  <2> QED
    BY <2>1, <2>2
<1>5. \A q \in PartNumbers(e) :
        /\ q # p => parts[e][q].status # "sending"
        /\ posted[e][q] > 0 => parts[e][q].status \in {"sending", "uncertain", "accepted"}
        /\ parts[e][q].status = "accepted" => posted[e][q] = 1
  <2>1. ASSUME NEW q \in PartNumbers(e), q # p
        PROVE  parts[e][q].status # "sending"
    <3>1. q \in Ordinals
      BY DEF PartsNumbered
    <3> QED
      BY <1>1, <2>1, <3>1 DEF PostedState
  <2>2. \A q \in PartNumbers(e) : q \in Ordinals
    BY DEF PartsNumbered
  <2> QED
    BY <2>1, <2>2 DEF PostedState
<1> HIDE DEF st
<1>6. \A q \in PartNumbers(e) :
        /\ parts'[e][q].status # "sending"
        /\ posted[e][q] > 0 => parts'[e][q].status \in {"uncertain", "accepted"}
        /\ parts'[e][q].status = "accepted" => posted[e][q] = 1
  BY <1>2, <1>3, <1>5
<1> QED
  BY <1>3, <1>4, <1>6, OneRests DEF EnvelopeStatus

\* The holder of the lease reports what it learnt.
LEMMA FinishPartRests ==
    ASSUME PartsInv, NEW w \in Senders, FinishPart(w)
    PROVE  Rests({sender[w].envelope})
<1> DEFINE e == sender[w].envelope
           p == sender[w].ordinal
<1>1. /\ e \in EnvelopeIds /\ sender[w].receipt \in Receipts
      /\ sender[w].pc = "answered" /\ Owns(w) /\ parts[e][p].status = "sending"
      /\ SettlePart(e, p, sender[w].receipt) /\ posted' = posted
      /\ sender' = [sender EXCEPT ![w] = IdleSender]
  BY SenderFields DEF PartsInv, FinishPart
<1>2. SenderKnown(w)
  BY DEF PartsInv, SenderKnows
<1>3. /\ p \in PartNumbers(e)
      /\ sender[w].receipt = "accepted" => posted[e][p] = 1
      /\ sender[w].receipt \in {"not_sent", "permanent_failure"} => posted[e][p] = 0
  BY <1>1, <1>2 DEF SenderKnown
<1>4. \A v \in Senders :
        /\ sender'[v] = IF v = w THEN IdleSender ELSE sender[v]
        /\ sender'[v].pc = "sending" => sender[v].envelope # e
  <2>1. \A v \in Senders : sender'[v] = IF v = w THEN IdleSender ELSE sender[v]
    BY <1>1 DEF PartsInv, TypeOK
  <2> QED
    BY <1>1, <2>1, OwnerIsAlone DEF IdleSender
<1>5. envelopes[e].status # "absent"
  BY <1>1 DEF Owns
<1> HIDE DEF e, p
<1>6. Rests({e})
  BY <1>1, <1>3, <1>4, <1>5, SettleRests
<1> QED
  BY <1>6 DEF e

\* A reviewer reports what the provider did, once nobody waits for it.
LEMMA ReconcilePartRests ==
    ASSUME PartsInv, NEW e \in EnvelopeIds, NEW p \in Ordinals,
           NEW outcome \in {"accepted", "not_sent"}, ReconcilePart(e, p, outcome)
    PROVE  Rests({e})
<1>1. /\ envelopes[e].status = "uncertain" /\ p \in PartNumbers(e)
      /\ parts[e][p].status = "uncertain" /\ Quiet(e)
      /\ outcome = (IF posted[e][p] > 0 THEN "accepted" ELSE "not_sent")
      /\ SettlePart(e, p, outcome) /\ posted' = posted /\ sender' = sender
  BY DEF ReconcilePart
<1>2. posted[e][p] \in Nat /\ (posted[e][p] > 0 => posted[e][p] = 1)
  BY DEF PartsInv, TypeOK, PostedState
<1>3. outcome \in Receipts
  BY DEF Receipts
<1>4. /\ outcome = "accepted" => posted[e][p] = 1
      /\ outcome \in {"not_sent", "permanent_failure"} => posted[e][p] = 0
  BY <1>1, <1>2
<1>5. \A w \in Senders : sender[w].pc = "sending" => sender[w].envelope # e
  BY <1>1 DEF Quiet
<1> QED
  BY <1>1, <1>3, <1>4, <1>5, SettleRests

\* The operator gives an envelope up.
LEMMA AbandonRests ==
    ASSUME PartsInv, NEW e \in EnvelopeIds, Abandon(e)
    PROVE  Rests({e})
<1>1. /\ envelopes[e].status \in {"pending", "uncertain", "failed", "cancelled"}
      /\ Quiet(e) /\ envelopes' = EnvelopeState(e, "abandoned")
      /\ UNCHANGED <<parts, posted, sender>>
  BY DEF Abandon
<1>2. /\ \A p \in PartNumbers(e) : parts[e][p].status # "sending"
      /\ \A w \in Senders : sender[w].pc = "sending" => sender[w].envelope # e
  BY <1>1, UnleasedIsQuiet DEF Quiet
<1> QED
  BY <1>1, <1>2, QuietRests DEF EnvelopeStatus

\* Untried drafts are abandoned together.
LEMMA ReissueRests ==
    ASSUME PartsInv, NEW E \in SUBSET EnvelopeIds, NEW K \in SUBSET IntentKeys,
           ReissueUnsent(E, K)
    PROVE  Rests(E)
<1> USE DEF PartsInv
<1>1. \A f \in EnvelopeIds :
        /\ Members(f)' = Members(f)
        /\ f \notin E => envelopes'[f] = envelopes[f]
        /\ f \in E => envelopes'[f].status = "abandoned"
  <2>1. \A f \in EnvelopeIds :
          envelopes'[f] = IF f \in E THEN WithStatus(envelopes[f], "abandoned")
                          ELSE envelopes[f]
    BY DEF ReissueUnsent
  <2>2. \A f \in EnvelopeIds : envelopes[f] \in EnvelopeRows
    BY DEF TypeOK
  <2> QED
    BY <2>1, <2>2, EnvelopeRow DEF EnvelopeStatus, Members
<1>2. UNCHANGED <<parts, posted, sender>>
  BY DEF ReissueUnsent
<1>3. \A f \in EnvelopeIds : PartNumbers(f)' = PartNumbers(f)
  BY <1>2 DEF PartNumbers
<1>4. \A e \in E : envelopes[e].status \in {"pending", "abandoned", "cancelled"}
  BY DEF ReissueUnsent, ProvedUnsent
<1>5. ASSUME NEW e \in E
      PROVE  /\ \A p \in PartNumbers(e) : parts[e][p].status # "sending"
             /\ \A w \in Senders : sender[w].pc = "sending" => sender[w].envelope # e
             /\ \A p \in PartNumbers(e) :
                  /\ posted[e][p] > 0 => parts[e][p].status \in {"uncertain", "accepted"}
                  /\ parts[e][p].status = "accepted" => posted[e][p] = 1
  <2>1. e \in EnvelopeIds /\ PartNumbers(e) \subseteq Ordinals
    BY DEF PartsNumbered
  <2>2. /\ \A p \in PartNumbers(e) : parts[e][p].status # "sending"
        /\ \A w \in Senders : sender[w].pc = "sending" => sender[w].envelope # e
    BY <1>4, <2>1, UnleasedIsQuiet
  <2> QED
    BY <2>1, <2>2 DEF PostedState
<1> QED
  BY <1>1, <1>2, <1>3, <1>4, <1>5 DEF Rests

\* A process that gives up, or dies, starts nothing.
LEMMA IdleRests ==
    ASSUME PartsInv, NEW w \in Senders, sender' = [sender EXCEPT ![w] = IdleSender],
           UNCHANGED <<envelopes, parts, posted>>
    PROVE  Rests({})
<1>1. \A v \in Senders : sender'[v] = IF v = w THEN IdleSender ELSE sender[v]
  BY DEF PartsInv, TypeOK
<1> QED
  BY <1>1 DEF Rests, Members, PartNumbers

\* Claiming a pending envelope: none of its parts is under way.
LEMMA ClaimKnows ==
    ASSUME PartsInv, NEW w \in Senders, NEW e \in EnvelopeIds, Claim(w, e)
    PROVE  (PartsNumbered /\ SenderKnows /\ PostedState)'
<1> USE DEF PartsInv
<1>1. /\ sender[w].pc = "idle" /\ envelopes[e].status = "pending"
      /\ UNCHANGED <<parts, posted>>
  BY DEF Claim
<1>2. /\ envelopes'[e].status = "leased" /\ envelopes'[e].token = w
      /\ \A f \in EnvelopeIds : /\ envelopes'[f].members = envelopes[f].members
                                /\ f # e => envelopes'[f] = envelopes[f]
  BY DEF Claim, Leased, TypeOK, EnvelopeRows
<1>3. /\ \A f \in EnvelopeIds : /\ Members(f)' = Members(f)
                                /\ PartNumbers(f)' = PartNumbers(f)
  BY <1>1, <1>2 DEF Members, PartNumbers
<1>4. /\ \A p \in PartNumbers(e) : parts[e][p].status # "sending"
      /\ \A v \in Senders : sender[v].pc = "sending" => sender[v].envelope # e
  BY <1>1, UnleasedIsQuiet
<1>5. /\ sender'[w].pc = "claimed" /\ sender'[w].envelope = e
      /\ \A v \in Senders : v # w => sender'[v] = sender[v]
  BY DEF Claim, TypeOK, SenderRows
<1>6. PartsNumbered'
  BY <1>1, <1>2, <1>3 DEF PartsNumbered
<1>7. PostedState'
  <2> SUFFICES ASSUME NEW f \in EnvelopeIds, NEW q \in Ordinals
               PROVE
        /\ posted[f][q] > 0 =>
             /\ posted[f][q] = 1 /\ q \in PartNumbers(f)
             /\ parts[f][q].status \in {"sending", "uncertain", "accepted"}
        /\ q \in PartNumbers(f) /\ parts[f][q].status = "accepted" => posted[f][q] = 1
        /\ q \in PartNumbers(f) /\ parts[f][q].status = "sending" =>
             /\ envelopes'[f].status = "leased"
             /\ \A r \in PartNumbers(f) \ {q} : parts[f][r].status # "sending"
    BY <1>1, <1>3 DEF PostedState
  <2>1. CASE f = e
    BY <1>2, <2>1 DEF PostedState
  <2>2. CASE f # e
    BY <1>2, <2>2 DEF PostedState
  <2> QED
    BY <2>1, <2>2
<1>8. SenderKnows'
  <2>1. ASSUME NEW v \in Senders, v # w PROVE SenderKnown(v)'
    <3>1. SenderKnown(v) /\ sender'[v] = sender[v]
      BY <1>5, <2>1 DEF SenderKnows
    <3>2. CASE sender[v].pc = "idle"
      BY <3>1, <3>2 DEF SenderKnown
    <3>3. CASE sender[v].pc # "idle" /\ sender[v].envelope = e
      <4>1. ~Owns(v)' /\ sender[v].pc # "sending"
        BY <1>2, <1>4, <2>1, <3>1, <3>3 DEF Owns
      <4> QED
        BY <1>3, <3>1, <3>3, <4>1 DEF SenderKnown
    <3>4. CASE sender[v].pc # "idle" /\ sender[v].envelope # e
      <4>1. sender[v].envelope \in EnvelopeIds
        BY <3>4, SenderFields
      <4>2. /\ Owns(v)' <=> Owns(v)
            /\ envelopes'[sender[v].envelope] = envelopes[sender[v].envelope]
        BY <1>2, <3>1, <3>4, <4>1 DEF Owns
      <4> QED
        BY <1>1, <1>3, <3>1, <4>1, <4>2 DEF SenderKnown
    <3> QED
      BY <3>2, <3>3, <3>4
  <2>2. SenderKnown(w)'
    BY <1>1, <1>3, <1>4, <1>5 DEF SenderKnown
  <2>3. \A u, v \in Senders :
          /\ sender'[u].pc = "sending" /\ sender'[v].pc = "sending"
          /\ sender'[u].envelope = sender'[v].envelope
          => u = v
    BY <1>5 DEF SenderKnows
  <2> QED
    BY <2>1, <2>2, <2>3 DEF SenderKnows
<1> QED
  BY <1>6, <1>7, <1>8

\* Starting a part, under the lease: no other part is under way and the
\* provider has not taken this one.
LEMMA BeginPartKnows ==
    ASSUME PartsInv, NEW w \in Senders, NEW p \in Ordinals, BeginPart(w, p)
    PROVE  (PartsNumbered /\ SenderKnows /\ PostedState)'
<1> USE DEF PartsInv
<1> DEFINE e == sender[w].envelope
<1>0. /\ e \in EnvelopeIds /\ sender[w].pc = "claimed" /\ Owns(w)
      /\ p \in PartNumbers(e) /\ parts[e][p].status = "pending"
      /\ posted' = posted
  BY SenderFields DEF BeginPart, NextPart
<1>1. CASE parts[e][p].attempts >= MaxAttempts
  <2>1. /\ envelopes' = EnvelopeState(e, "failed") /\ parts' = parts
        /\ sender' = [sender EXCEPT ![w] = IdleSender]
    BY <1>1 DEF BeginPart
  <2>2. Rests({e})
    BY <1>0, <2>1, HolderRests DEF EnvelopeStatus
  <2> QED
    BY <1>0, <2>2, RestsKeep
<1>2. CASE ~(parts[e][p].attempts >= MaxAttempts)
  <2>1. /\ envelopes' = envelopes
        /\ parts' = [parts EXCEPT ![e][p] = Started(parts[e][p])]
        /\ sender' = [sender EXCEPT ![w].pc = "sending", ![w].ordinal = p]
    BY <1>2 DEF BeginPart
  <2>2. /\ sender'[w].pc = "sending" /\ sender'[w].envelope = e
        /\ sender'[w].ordinal = p
        /\ \A v \in Senders : v # w => sender'[v] = sender[v]
    BY <2>1 DEF TypeOK, SenderRows
  <2>3. /\ \A f \in EnvelopeIds : f # e => parts'[f] = parts[f]
        /\ \A f \in EnvelopeIds : PartNumbers(f)' = PartNumbers(f)
        /\ parts'[e][p].status = "sending"
        /\ \A q \in PartNumbers(e) : q # p => parts'[e][q] = parts[e][q]
    <3>1. parts[e] \in Seq(PartRows) /\ parts \in [EnvelopeIds -> Seq(PartRows)]
      BY <1>0 DEF TypeOK
    <3>2. parts[e][p] \in PartRows
      BY <1>0, <3>1 DEF PartNumbers
    <3>3. Started(parts[e][p]).status = "sending"
      BY <3>2 DEF Started, PartRows
    <3>4. parts'[e] = [parts[e] EXCEPT ![p] = Started(parts[e][p])]
      BY <1>0, <2>1, <3>1
    <3>5. \A f \in EnvelopeIds : f # e => parts'[f] = parts[f]
      BY <2>1, <3>1
    <3> QED
      BY <1>0, <3>3, <3>4, <3>5 DEF PartNumbers
  <2>4. \A f \in EnvelopeIds : Members(f)' = Members(f)
    BY <2>1 DEF Members
  <2>5. \A q \in PartNumbers(e) : parts[e][q].status # "sending"
    BY <1>0 DEF SenderKnows, SenderKnown
  <2>6. posted[e][p] = 0
    BY <1>0, NotTaken
  <2>7. PartsNumbered'
    BY <2>1, <2>3, <2>4 DEF PartsNumbered
  <2>8. PostedState'
    <3> SUFFICES ASSUME NEW f \in EnvelopeIds, NEW q \in Ordinals
                 PROVE
          /\ posted[f][q] > 0 =>
               /\ posted[f][q] = 1 /\ q \in PartNumbers(f)
               /\ parts'[f][q].status \in {"sending", "uncertain", "accepted"}
          /\ q \in PartNumbers(f) /\ parts'[f][q].status = "accepted" => posted[f][q] = 1
          /\ q \in PartNumbers(f) /\ parts'[f][q].status = "sending" =>
               /\ envelopes[f].status = "leased"
               /\ \A r \in PartNumbers(f) \ {q} : parts'[f][r].status # "sending"
      BY <1>0, <2>1, <2>3 DEF PostedState
    <3>1. CASE f # e
      BY <2>3, <3>1 DEF PostedState
    <3>2. CASE f = e
      BY <1>0, <2>3, <2>5, <2>6, <3>2 DEF PostedState, Owns
    <3> QED
      BY <3>1, <3>2
  <2>9. SenderKnows'
    <3>1. ASSUME NEW v \in Senders, v # w PROVE SenderKnown(v)'
      <4>1. /\ SenderKnown(v) /\ sender'[v] = sender[v]
            /\ Owns(v)' <=> Owns(v)
        BY <2>1, <2>2, <3>1 DEF SenderKnows, Owns
      <4>2. CASE sender[v].pc = "idle"
        BY <4>1, <4>2 DEF SenderKnown
      <4>3. CASE sender[v].pc # "idle" /\ sender[v].envelope = e
        <5>1. ~Owns(v) /\ sender[v].pc # "sending"
          BY <1>0, <3>1, <4>3, OwnerIsAlone DEF Owns
        <5> QED
          BY <1>0, <2>3, <4>1, <4>3, <5>1 DEF SenderKnown
      <4>4. CASE sender[v].pc # "idle" /\ sender[v].envelope # e
        <5> DEFINE f == sender[v].envelope
        <5>1. f \in EnvelopeIds
          BY <4>4, SenderFields
        <5>2. parts'[f] = parts[f] /\ PartNumbers(f)' = PartNumbers(f)
          BY <2>3, <4>1, <4>4, <5>1
        <5>3. envelopes'[f] = envelopes[f] /\ posted'[f] = posted[f]
          BY <1>0, <2>1
        <5> QED
          BY <4>1, <5>2, <5>3 DEF SenderKnown
      <4> QED
        BY <4>2, <4>3, <4>4
    <3>2. SenderKnown(w)'
      <4>1. Owns(w)'
        BY <1>0, <2>1, <2>2 DEF Owns
      <4> QED
        BY <1>0, <2>2, <2>3, <2>6, <4>1 DEF SenderKnown
    <3>3. \A u \in Senders : sender[u].pc = "sending" => sender[u].envelope # e
      BY <1>0, OwnerIsAlone
    <3>4. \A u, v \in Senders :
            /\ sender'[u].pc = "sending" /\ sender'[v].pc = "sending"
            /\ sender'[u].envelope = sender'[v].envelope
            => u = v
      BY <2>2, <3>3 DEF SenderKnows
    <3> QED
      BY <3>1, <3>2, <3>4 DEF SenderKnows
  <2> QED
    BY <2>7, <2>8, <2>9
<1> QED
  BY <1>1, <1>2

\* The provider's answer, truthful or none.
LEMMA SenderAnsweredKnows ==
    ASSUME PartsInv, NEW w \in Senders, NEW a \in Answers, SenderAnswered(w, a)
    PROVE  (PartsNumbered /\ SenderKnows /\ PostedState)'
<1> USE DEF PartsInv
<1> DEFINE e == sender[w].envelope
           p == sender[w].ordinal
<1>1. /\ e \in EnvelopeIds /\ p \in Ordinals /\ sender[w].pc = "sending"
      /\ UNCHANGED <<envelopes, parts>>
  BY SenderFields DEF SenderAnswered, tables
<1>2. /\ sender'[w].pc = "answered" /\ sender'[w].receipt = a.receipt
      /\ sender'[w].envelope = e /\ sender'[w].ordinal = p
      /\ \A v \in Senders : v # w => sender'[v] = sender[v]
  BY DEF SenderAnswered, TypeOK, SenderRows
<1>3. /\ posted[e][p] = 0 /\ p \in PartNumbers(e)
      /\ parts[e][p].status \in {"sending", "uncertain"}
  BY <1>1 DEF SenderKnows, SenderKnown
<1>4. /\ posted'[e][p] = IF a.arrives THEN 1 ELSE 0
      /\ \A f \in EnvelopeIds, q \in Ordinals :
           f # e \/ q # p => posted'[f][q] = posted[f][q]
  <2>1. posted' = IF a.arrives THEN [posted EXCEPT ![e][p] = posted[e][p] + 1]
                  ELSE posted
    BY DEF SenderAnswered
  <2> QED
    BY <1>1, <1>3, <2>1 DEF TypeOK
<1>5. /\ a.receipt = "accepted" => a.arrives
      /\ a.receipt \in {"not_sent", "permanent_failure"} => ~a.arrives
  BY DEF Answers
<1>6. \A f \in EnvelopeIds : Members(f)' = Members(f) /\ PartNumbers(f)' = PartNumbers(f)
  BY <1>1 DEF Members, PartNumbers
<1>7. PartsNumbered'
  BY <1>1, <1>6 DEF PartsNumbered
<1>8. PostedState'
  <2> SUFFICES ASSUME NEW f \in EnvelopeIds, NEW q \in Ordinals
               PROVE
        /\ posted'[f][q] > 0 =>
             /\ posted'[f][q] = 1 /\ q \in PartNumbers(f)
             /\ parts[f][q].status \in {"sending", "uncertain", "accepted"}
        /\ q \in PartNumbers(f) /\ parts[f][q].status = "accepted" => posted'[f][q] = 1
        /\ q \in PartNumbers(f) /\ parts[f][q].status = "sending" =>
             /\ envelopes[f].status = "leased"
             /\ \A r \in PartNumbers(f) \ {q} : parts[f][r].status # "sending"
    BY <1>1, <1>6 DEF PostedState
  <2>1. CASE f # e \/ q # p
    BY <1>4, <2>1 DEF PostedState
  <2>2. CASE f = e /\ q = p
    BY <1>3, <1>4, <2>2 DEF PostedState
  <2> QED
    BY <2>1, <2>2
<1>9. SenderKnows'
  <2>1. ASSUME NEW v \in Senders, v # w PROVE SenderKnown(v)'
    <3>1. /\ SenderKnown(v) /\ sender'[v] = sender[v]
          /\ Owns(v)' <=> Owns(v)
      BY <1>1, <1>2, <2>1 DEF SenderKnows, Owns
    <3>2. CASE sender[v].pc = "idle"
      BY <3>1, <3>2 DEF SenderKnown
    <3>3. CASE sender[v].pc # "idle" /\ sender[v].envelope = e
      <4>1. ~(Owns(v) /\ parts[e][p].status = "sending")
        BY <1>1, <2>1, <3>3 DEF SenderKnows, SenderKnown, Owns
      <4>2. sender[v].pc # "sending"
        BY <1>1, <2>1, <3>3 DEF SenderKnows
      <4>3. sender[v].pc = "answered" => sender[v].ordinal \in Ordinals
        BY <3>3, SenderFields
      <4> QED
        BY <1>1, <1>4, <1>6, <3>1, <3>3, <4>1, <4>2, <4>3 DEF SenderKnown
    <3>4. CASE sender[v].pc # "idle" /\ sender[v].envelope # e
      <4>1. /\ sender[v].envelope \in EnvelopeIds
            /\ sender[v].pc \in {"sending", "answered"} => sender[v].ordinal \in Ordinals
        BY <3>4, SenderFields
      <4> QED
        BY <1>1, <1>4, <1>6, <3>1, <3>4, <4>1 DEF SenderKnown
    <3> QED
      BY <3>2, <3>3, <3>4
  <2>2. SenderKnown(w)'
    BY <1>1, <1>2, <1>3, <1>4, <1>5, <1>6 DEF SenderKnown
  <2>3. \A u, v \in Senders :
          /\ sender'[u].pc = "sending" /\ sender'[v].pc = "sending"
          /\ sender'[u].envelope = sender'[v].envelope
          => u = v
    BY <1>2 DEF SenderKnows
  <2> QED
    BY <2>1, <2>2, <2>3 DEF SenderKnows
<1> QED
  BY <1>7, <1>8, <1>9

\* A new envelope: nobody has heard of it.
LEMMA PrepareKnows ==
    ASSUME PartsInv, NEW e \in EnvelopeIds, NEW d \in Dests, NEW n \in Ordinals,
           NEW K \in SUBSET IntentKeys, Prepare(e, d, K, n)
    PROVE  (PartsNumbered /\ SenderKnows /\ PostedState)'
<1> USE DEF PartsInv
<1>1. /\ envelopes[e].status = "absent" /\ K # {}
      /\ envelopes' = [envelopes EXCEPT ![e] = [status |-> "pending",
                                                members |-> K, token |-> None]]
      /\ parts' = [parts EXCEPT
                     ![e] = [p \in 1..n |-> [status |-> "pending", attempts |-> 0]]]
      /\ UNCHANGED <<sender, posted>>
  BY DEF Prepare
<1>2. /\ envelopes'[e].status = "pending" /\ Members(e)' = K
      /\ \A f \in EnvelopeIds : f # e => envelopes'[f] = envelopes[f]
      /\ \A f \in EnvelopeIds : f # e => Members(f)' = Members(f)
  BY <1>1 DEF TypeOK, Members
<1>3. /\ PartNumbers(e)' = 1..n /\ PartNumbers(e) = {}
      /\ \A p \in 1..n : parts'[e][p].status = "pending"
      /\ \A f \in EnvelopeIds : f # e => parts'[f] = parts[f]
      /\ \A f \in EnvelopeIds : f # e => PartNumbers(f)' = PartNumbers(f)
  BY <1>1 DEF TypeOK, PartNumbers, PartsNumbered
<1>4. 1..n \subseteq Ordinals /\ 1..n # {}
  BY DeliveryAssumption DEF Ordinals
<1>5. PartsNumbered'
  <2> SUFFICES ASSUME NEW f \in EnvelopeIds
               PROVE  /\ PartNumbers(f)' \subseteq Ordinals
                      /\ (envelopes'[f].status = "absent") <=> (Members(f)' = {})
                      /\ (envelopes'[f].status = "absent") <=> (PartNumbers(f)' = {})
    BY DEF PartsNumbered
  <2>1. CASE f = e
    BY <1>1, <1>2, <1>3, <1>4, <2>1
  <2>2. CASE f # e
    BY <1>2, <1>3, <2>2 DEF PartsNumbered
  <2> QED
    BY <2>1, <2>2
<1>6. \A p \in Ordinals : posted[e][p] = 0
  BY <1>3, NotTaken
<1>7. PostedState'
  <2> SUFFICES ASSUME NEW f \in EnvelopeIds, NEW q \in Ordinals
               PROVE
        /\ posted[f][q] > 0 =>
             /\ posted[f][q] = 1 /\ q \in PartNumbers(f)'
             /\ parts'[f][q].status \in {"sending", "uncertain", "accepted"}
        /\ q \in PartNumbers(f)' /\ parts'[f][q].status = "accepted" => posted[f][q] = 1
        /\ q \in PartNumbers(f)' /\ parts'[f][q].status = "sending" =>
             /\ envelopes'[f].status = "leased"
             /\ \A r \in PartNumbers(f)' \ {q} : parts'[f][r].status # "sending"
    <3>1. posted' = posted
      BY <1>1
    <3> QED
      BY <3>1 DEF PostedState
  <2>1. CASE f = e
    BY <1>3, <1>6, <2>1
  <2>2. CASE f # e
    BY <1>2, <1>3, <2>2 DEF PostedState
  <2> QED
    BY <2>1, <2>2
<1>8. SenderKnows'
  <2>1. ASSUME NEW v \in Senders PROVE SenderKnown(v)'
    <3>1. SenderKnown(v) /\ sender'[v] = sender[v]
      BY <1>1 DEF SenderKnows
    <3>2. CASE sender[v].pc = "idle"
      BY <3>1, <3>2 DEF SenderKnown
    <3>3. CASE sender[v].pc # "idle" /\ sender[v].envelope = e
      <4>1. ~Owns(v)' /\ sender[v].pc \notin {"sending", "answered"}
        BY <1>2, <1>3, <3>1, <3>3 DEF Owns, SenderKnown
      <4> QED
        BY <3>1, <3>3, <4>1 DEF SenderKnown
    <3>4. CASE sender[v].pc # "idle" /\ sender[v].envelope # e
      <4>1. sender[v].envelope \in EnvelopeIds
        BY <3>4, SenderFields
      <4>2. /\ Owns(v)' <=> Owns(v)
            /\ envelopes'[sender[v].envelope] = envelopes[sender[v].envelope]
        BY <1>2, <3>1, <3>4, <4>1 DEF Owns
      <4> QED
        BY <1>1, <1>3, <3>1, <3>4, <4>1, <4>2 DEF SenderKnown
    <3> QED
      BY <3>2, <3>3, <3>4
  <2> QED
    BY <1>1, <2>1 DEF SenderKnows
<1> QED
  BY <1>5, <1>7, <1>8

\* Nothing is known of envelopes that do not exist.
LEMMA PartsInit == Init => PartsInv
<1> SUFFICES ASSUME Init PROVE PartsInv
  OBVIOUS
<1>1. TypeOK /\ MembersFollow
  BY TypeInit, ReservationInit DEF ReservationInv
<1>2. /\ \A e \in EnvelopeIds : /\ envelopes[e].status = "absent"
                                /\ Members(e) = {} /\ PartNumbers(e) = {}
      /\ \A e \in EnvelopeIds, p \in Ordinals : posted[e][p] = 0
      /\ \A w \in Senders : sender[w].pc = "idle"
  BY DEF Init, Members, PartNumbers, IdleSender
<1>3. PartsNumbered /\ PostedState
  BY <1>2 DEF PartsNumbered, PostedState
<1>4. SenderKnows
  BY <1>2 DEF SenderKnows, SenderKnown
<1> QED
  BY <1>1, <1>3, <1>4 DEF PartsInv

\* Every step of the transport.
LEMMA TransportKnows ==
    ASSUME PartsInv, TransportNext
    PROVE  (PartsNumbered /\ SenderKnows /\ PostedState)'
<1> DEFINE Goal == (PartsNumbered /\ SenderKnows /\ PostedState)'
<1>1. ASSUME NEW e \in EnvelopeIds, ExpireEnvelope(e) \/ ClaimStale(e) \/ Abandon(e)
      PROVE  Goal
  <2>1. Rests({e})
    BY <1>1, ExpireRests, ClaimStaleRests, AbandonRests
  <2> QED
    BY <2>1, RestsKeep
<1>2. ASSUME NEW w \in Senders, NEW e \in EnvelopeIds, Claim(w, e) PROVE Goal
  BY <1>2, ClaimKnows
<1>3. ASSUME NEW w \in Senders, NEW p \in Ordinals, BeginPart(w, p) PROVE Goal
  BY <1>3, BeginPartKnows
<1>4. ASSUME NEW w \in Senders, BeginPartStale(w) \/ FinishPart(w) PROVE Goal
  <2>1. Rests({sender[w].envelope})
    BY <1>4, BeginPartStaleRests, FinishPartRests
  <2>2. sender[w].envelope \in EnvelopeIds
    BY <1>4, SenderFields DEF PartsInv, BeginPartStale, FinishPart
  <2> QED
    BY <2>1, <2>2, RestsKeep
<1>5. ASSUME NEW w \in Senders, NEW a \in Answers, SenderAnswered(w, a) PROVE Goal
  BY <1>5, SenderAnsweredKnows
<1>6. ASSUME NEW w \in Senders, SenderRefused(w) \/ SenderDies(w) PROVE Goal
  <2>1. Rests({})
    BY <1>6, IdleRests DEF SenderRefused, SenderDies, tables
  <2> QED
    BY <2>1, RestsKeep
<1>7. ASSUME NEW e \in EnvelopeIds, NEW p \in Ordinals,
             NEW o \in {"accepted", "not_sent"}, ReconcilePart(e, p, o)
      PROVE  Goal
  <2>1. Rests({e})
    BY <1>7, ReconcilePartRests
  <2> QED
    BY <2>1, RestsKeep
<1>8. CASE PrepareSome
  BY <1>8, PrepareKnows DEF PrepareSome
<1>9. CASE ReissueSome
  <2>1. PICK E \in SUBSET EnvelopeIds : \E K \in SUBSET IntentKeys : ReissueUnsent(E, K)
    BY <1>9 DEF ReissueSome, PartsInv, TypeOK, EnvelopeRows, Members
  <2>2. Rests(E)
    BY <2>1, ReissueRests
  <2> QED
    BY <2>2, RestsKeep
<1> QED
  BY <1>1, <1>2, <1>3, <1>4, <1>5, <1>6, <1>7, <1>8, <1>9
     DEF TransportNext, SenderStep, Operator

\* The couriers and the runs leave the digests alone.
LEMMA OutboxKnows ==
    ASSUME PartsInv, UNCHANGED <<envelopes, parts, sender, posted>>
    PROVE  (PartsNumbered /\ SenderKnows /\ PostedState)'
<1>1. Rests({})
  BY DEF Rests, Members, PartNumbers
<1> QED
  BY <1>1, RestsKeep

\* Settling a row, too.
LEMMA OutboxLeavesDigests ==
    ASSUME OutboxNext PROVE UNCHANGED <<envelopes, parts, sender, posted>>
<1>1. CASE StageRun
  BY <1>1 DEF StageRun, Stage
<1>2. CASE ImportLegacy
  BY <1>2 DEF ImportLegacy
<1>3. CASE \E k \in IntentKeys : ExpireIntent(k)
  BY <1>3 DEF ExpireIntent
<1>4. ASSUME NEW c \in Couriers, CourierStep(c) \/ CourierDies(c)
      PROVE  UNCHANGED <<envelopes, parts, sender, posted>>
  BY <1>4 DEF CourierStep, CourierDies, ClaimNext, BeginSend, CourierAnswered,
              Finish, CourierRefused, tables
<1>5. CASE \E k \in IntentKeys, o \in {"accepted", "not_sent"} : Reconcile(k, o)
  BY <1>5 DEF Reconcile
<1> QED
  BY <1>1, <1>2, <1>3, <1>4, <1>5 DEF OutboxNext

\* What is known of the digests is inductive, under the reservations.
LEMMA PartsStep == ReservationInv /\ PartsInv /\ [Next]_vars => PartsInv'
<1> SUFFICES ASSUME ReservationInv, PartsInv, [Next]_vars PROVE PartsInv'
  OBVIOUS
<1>1. (TypeOK /\ MembersFollow)'
  BY ReservationStep DEF ReservationInv
<1>2. (PartsNumbered /\ SenderKnows /\ PostedState)'
  <2>1. CASE UNCHANGED vars
    BY <2>1, OutboxKnows DEF vars
  <2>2. CASE OutboxNext
    BY <2>2, OutboxKnows, OutboxLeavesDigests
  <2>3. CASE TransportNext
    BY <2>3, TransportKnows
  <2> QED
    BY <2>1, <2>2, <2>3 DEF Next
<1> QED
  BY <1>1, <1>2 DEF PartsInv

\* A part of a digest is taken by the provider at most once and is then never
\* waiting to be sent; an accepted part was taken; whoever waits for the answer
\* about a part is the only one who does.
THEOREM PartsKnown == Spec => []PartsInv
<1>1. Init => ReservationInv /\ PartsInv
  BY ReservationInit, PartsInit
<1>2. (ReservationInv /\ PartsInv) /\ [Next]_vars => (ReservationInv /\ PartsInv)'
  BY ReservationStep, PartsStep
<1> QED
  BY <1>1, <1>2, PTL DEF Spec

-----------------------------------------------------------------------------
(* Couriers.                                                               *)

\* A digest moves with its rows, and with nothing else.
DigestMoves(e) ==
    /\ EnvelopeMoves(e)
    /\ envelopes[e].status # "accepted"
    /\ \A k \in IntentKeys : k \notin Members(e) => intents'[k] = intents[k]
    /\ UNCHANGED <<revisions, legacy, courier, mailed>>

\* SetIntents and the other updates of a digest's rows leave all others alone.
LEMMA ExpireDigest ==
    ASSUME ReservationInv, NEW e \in EnvelopeIds, ExpireEnvelope(e)
    PROVE  DigestMoves(e)
<1> DEFINE st == IF {p \in PartNumbers(e) : parts[e][p].status = "sending"} = {}
                 THEN "pending" ELSE "uncertain"
<1>1. /\ envelopes' = EnvelopeState(e, st) /\ intents' = SetIntents(e, st)
      /\ envelopes[e].status = "leased"
      /\ UNCHANGED <<revisions, legacy, courier, mailed>>
  BY DEF ExpireEnvelope
<1>2. st \in {"pending", "uncertain"}
  OBVIOUS
<1> HIDE DEF st
<1>3. EnvelopeMoves(e)
  BY <1>1, <1>2, OneEnvelopeMoves
     DEF ReservationInv, HotStatus, IntentStatus, EnvelopeStatus, MemberStatus
<1>4. \A k \in IntentKeys : k \notin Members(e) => intents'[k] = intents[k]
  BY <1>1 DEF SetIntents, Members
<1> QED
  BY <1>1, <1>3, <1>4 DEF DigestMoves

\* The same for an abandoned one,
LEMMA AbandonDigest ==
    ASSUME ReservationInv, NEW e \in EnvelopeIds, Abandon(e)
    PROVE  DigestMoves(e)
<1>1. EnvelopeMoves(e)
  BY OneEnvelopeMoves
     DEF ReservationInv, Abandon, HotStatus, IntentStatus, EnvelopeStatus, MemberStatus
<1>2. \A k \in IntentKeys : k \notin Members(e) => intents'[k] = intents[k]
  BY DEF Abandon, SetIntents, Members
<1> QED
  BY <1>1, <1>2 DEF DigestMoves, Abandon

\* for a stale one,
LEMMA RetireDigest ==
    ASSUME ReservationInv, NEW e \in EnvelopeIds, RetireStale(e),
           envelopes[e].status \in {"pending", "leased"},
           UNCHANGED <<revisions, legacy, courier, mailed>>
    PROVE  DigestMoves(e)
<1>1. EnvelopeMoves(e)
  BY RetireMoves DEF ReservationInv
<1>2. \A k \in IntentKeys : k \notin Members(e) => intents'[k] = intents[k]
  BY DEF RetireStale, SetIntents, Members
<1> QED
  BY <1>1, <1>2 DEF DigestMoves

\* for one whose part is settled,
LEMMA SettleDigest ==
    ASSUME ReservationInv, NEW e \in EnvelopeIds, NEW p \in Ordinals,
           NEW outcome \in Receipts, SettlePart(e, p, outcome),
           envelopes[e].status \in {"leased", "uncertain"},
           UNCHANGED <<revisions, legacy, courier, mailed>>
    PROVE  DigestMoves(e)
<1>1. EnvelopeMoves(e)
  BY SettlePartMoves DEF ReservationInv
<1>2. \A k \in IntentKeys : k \notin Members(e) => intents'[k] = intents[k]
  BY DEF SettlePart, SetIntents, Members
<1> QED
  BY <1>1, <1>2 DEF DigestMoves

\* for one that is claimed, and for one whose next part starts.
LEMMA ClaimDigest ==
    ASSUME ReservationInv, NEW w \in Senders, NEW e \in EnvelopeIds, Claim(w, e)
    PROVE  DigestMoves(e)
<1>1. EnvelopeMoves(e)
  BY ClaimMoves DEF ReservationInv
<1>2. \A k \in IntentKeys : k \notin Members(e) => intents'[k] = intents[k]
  BY DEF Claim
<1> QED
  BY <1>1, <1>2 DEF DigestMoves, Claim

\* BeginPart gives an envelope of spent attempts up, or marks all its rows.
LEMMA BeginDigest ==
    ASSUME ReservationInv, NEW w \in Senders, NEW p \in Ordinals, BeginPart(w, p)
    PROVE  DigestMoves(sender[w].envelope)
<1> DEFINE e == sender[w].envelope
<1>1. e \in EnvelopeIds /\ envelopes[e].status = "leased"
  BY DEF BeginPart, Owns, ReservationInv, TypeOK, SenderRows
<1>2. \A k \in IntentKeys : k \notin Members(e) => intents'[k] = intents[k]
  BY DEF BeginPart, SetIntents, Members
<1>3. EnvelopeMoves(e)
  <2>1. CASE parts[e][p].attempts >= MaxAttempts
    <3>1. envelopes' = EnvelopeState(e, "failed") /\ intents' = SetIntents(e, "failed")
      BY <2>1 DEF BeginPart
    <3> QED
      BY <1>1, <3>1, OneEnvelopeMoves
         DEF ReservationInv, HotStatus, IntentStatus, EnvelopeStatus, MemberStatus
  <2>2. CASE ~(parts[e][p].attempts >= MaxAttempts)
    <3>1. envelopes' = envelopes
      BY <2>2 DEF BeginPart
    <3>2. \A k \in IntentKeys :
            intents'[k] = IF k \in Members(e) THEN Started(intents[k]) ELSE intents[k]
      BY <2>2 DEF BeginPart
    <3>3. \A k \in IntentKeys :
            IF k \in Members(e) THEN intents'[k].status = "sending"
            ELSE intents'[k].status = intents[k].status
      BY <3>2, StartedRow DEF ReservationInv, TypeOK
    <3> QED
      BY <1>1, <3>1, <3>3 DEF EnvelopeMoves, HotStatus, MemberStatus, Members
  <2> QED
    BY <2>1, <2>2
<1> QED
  BY <1>1, <1>2, <1>3 DEF DigestMoves, BeginPart

\* A step of the transport moves one digest, freezes a new one, reissues rows
\* of untried drafts, or touches no table.
LEMMA TransportKinds ==
    ASSUME ReservationInv, TransportNext
    PROVE  \/ \E e \in EnvelopeIds : DigestMoves(e)
           \/ PrepareSome
           \/ ReissueSome
           \/ UNCHANGED <<tables, courier, mailed>>
<1> DEFINE Goal == \/ \E e \in EnvelopeIds : DigestMoves(e)
                   \/ PrepareSome
                   \/ ReissueSome
                   \/ UNCHANGED <<tables, courier, mailed>>
<1>t. TypeOK
  BY DEF ReservationInv
<1>1. ASSUME NEW e \in EnvelopeIds, ExpireEnvelope(e) \/ Abandon(e) PROVE Goal
  BY <1>1, ExpireDigest, AbandonDigest
<1>2. ASSUME NEW e \in EnvelopeIds, ClaimStale(e) PROVE Goal
  BY <1>2, RetireDigest DEF ClaimStale
<1>3. ASSUME NEW w \in Senders, NEW e \in EnvelopeIds, Claim(w, e) PROVE Goal
  BY <1>3, ClaimDigest
<1>4. ASSUME NEW w \in Senders, NEW p \in Ordinals, BeginPart(w, p) PROVE Goal
  <2>1. sender[w].envelope \in EnvelopeIds
    BY <1>4, <1>t, SenderFields DEF BeginPart
  <2> QED
    BY <1>4, <2>1, BeginDigest
<1>5. ASSUME NEW w \in Senders, BeginPartStale(w) PROVE Goal
  <2>1. sender[w].envelope \in EnvelopeIds
    BY <1>5, <1>t, SenderFields DEF BeginPartStale
  <2> QED
    BY <1>5, <2>1, RetireDigest DEF BeginPartStale, Owns
<1>6. ASSUME NEW w \in Senders,
             (\E a \in Answers : SenderAnswered(w, a))
               \/ SenderRefused(w) \/ SenderDies(w)
      PROVE  Goal
  BY <1>6 DEF SenderAnswered, SenderRefused, SenderDies
<1>7. ASSUME NEW w \in Senders, FinishPart(w) PROVE Goal
  <2>1. /\ sender[w].envelope \in EnvelopeIds /\ sender[w].ordinal \in Ordinals
        /\ sender[w].receipt \in Receipts
    BY <1>7, <1>t, SenderFields DEF FinishPart
  <2> QED
    BY <1>7, <2>1, SettleDigest DEF FinishPart, Owns
<1>8. ASSUME NEW e \in EnvelopeIds, NEW p \in Ordinals,
             NEW o \in {"accepted", "not_sent"}, ReconcilePart(e, p, o)
      PROVE  Goal
  BY <1>8, SettleDigest DEF ReconcilePart, Receipts
<1> QED
  BY <1>1, <1>2, <1>3, <1>4, <1>5, <1>6, <1>7, <1>8
     DEF TransportNext, SenderStep, Operator

\* The transport leaves every row outside the digests alone, but for free ones
\* it freezes and new ones it issues.
LEMMA TransportRows ==
    ASSUME ReservationInv, TransportNext
    PROVE  /\ courier' = courier /\ mailed' = mailed
           /\ \A k \in IntentKeys : Reserved(k) => Reserved(k)'
           /\ \A k \in IntentKeys : ~Reserved(k) =>
                IF intents[k].status \in {"absent", "pending"}
                THEN intents'[k].status \in {"absent", "pending"}
                ELSE ~Reserved(k)' /\ intents'[k] = intents[k]
<1> USE DEF ReservationInv
<1> DEFINE Goal == /\ courier' = courier /\ mailed' = mailed
                   /\ \A k \in IntentKeys : Reserved(k) => Reserved(k)'
                   /\ \A k \in IntentKeys : ~Reserved(k) =>
                        IF intents[k].status \in {"absent", "pending"}
                        THEN intents'[k].status \in {"absent", "pending"}
                        ELSE ~Reserved(k)' /\ intents'[k] = intents[k]
<1>1. ASSUME NEW e \in EnvelopeIds, DigestMoves(e) PROVE Goal
  <2>1. \A k \in IntentKeys : Reserved(k)' <=> Reserved(k)
    BY <1>1 DEF DigestMoves, EnvelopeMoves, Reserved, Members
  <2>2. \A k \in IntentKeys : ~Reserved(k) => intents'[k] = intents[k]
    BY <1>1 DEF DigestMoves, Reserved, Members
  <2> QED
    BY <1>1, <2>1, <2>2 DEF DigestMoves
<1>2. ASSUME NEW e \in EnvelopeIds, NEW d \in Dests, NEW n \in Ordinals,
             NEW K \in SUBSET IntentKeys, Prepare(e, d, K, n)
      PROVE  Goal
  <2>1. /\ \A k \in K : intents[k].status = "pending"
        /\ envelopes[e].status = "absent"
        /\ envelopes' = [envelopes EXCEPT ![e] = [status |-> "pending",
                                                  members |-> K, token |-> None]]
        /\ UNCHANGED <<intents, courier, mailed>>
    BY <1>2 DEF Prepare, Preparable
  <2>2. /\ envelopes'[e].members = K
        /\ \A f \in EnvelopeIds : f # e => envelopes'[f] = envelopes[f]
    BY <2>1 DEF TypeOK
  <2>3. envelopes[e].members = {}
    BY <2>1 DEF MembersFollow, MemberStatus, Members
  <2>4. \A k \in IntentKeys : Reserved(k)' <=> Reserved(k) \/ k \in K
    BY <2>2, <2>3 DEF Reserved
  <2> QED
    BY <2>1, <2>4
<1>3. ASSUME NEW E \in SUBSET EnvelopeIds, NEW K \in SUBSET IntentKeys,
             ReissueUnsent(E, K)
      PROVE  Goal
  <2>1. \A k \in IntentKeys :
          intents'[k] = IF k \in K THEN WithStatus(intents[k], "superseded")
                        ELSE IF \E old \in K : k = NextGeneration(old)
                             THEN WithStatus(NoIntent, "pending")
                        ELSE IF (\E e \in E : /\ envelopes[e].status # "abandoned"
                                              /\ k \in Members(e))
                                /\ intents[k].status \notin {"superseded", "accepted"}
                             THEN WithStatus(intents[k], "failed")
                        ELSE intents[k]
    BY <1>3 DEF ReissueUnsent
  <2>2. /\ \A k \in K : Reserved(k)
        /\ \A k \in K : intents[NextGeneration(k)].status = "absent"
        /\ UNCHANGED <<courier, mailed>>
    BY <1>3 DEF ReissueUnsent, Reserved, Members
  <2>3. \A f \in EnvelopeIds : envelopes'[f].members = envelopes[f].members
    BY <1>3, EnvelopeRow DEF ReissueUnsent, TypeOK, EnvelopeStatus
  <2>4. \A k \in IntentKeys : Reserved(k)' <=> Reserved(k)
    BY <2>3 DEF Reserved
  <2>5. \A e \in E, k \in IntentKeys : k \in Members(e) => Reserved(k)
    BY DEF Reserved, Members
  <2>6. WithStatus(NoIntent, "pending").status = "pending"
    BY NewRow, StatusRow DEF IntentStatus
  <2> QED
    BY <2>1, <2>2, <2>4, <2>5, <2>6
<1>4. ASSUME UNCHANGED <<tables, courier, mailed>> PROVE Goal
  <2>1. UNCHANGED <<envelopes, intents, courier, mailed>>
    BY <1>4 DEF tables
  <2> QED
    BY <2>1 DEF Reserved
<1>5. CASE PrepareSome
  BY <1>2, <1>5 DEF PrepareSome
<1>6. CASE ReissueSome
  <2>1. \A e \in EnvelopeIds : Members(e) \subseteq IntentKeys
    BY DEF TypeOK, EnvelopeRows, Members
  <2> QED
    BY <1>3, <1>6, <2>1 DEF ReissueSome
<1> QED
  BY <1>1, <1>4, <1>5, <1>6, TransportKinds

\* No courier starts or ends a call; rows that were, or may have been, taken
\* are not freed.
MailRests ==
    /\ mailed' = mailed
    /\ \A c \in Couriers : \/ courier'[c] = courier[c]
                           \/ courier'[c].pc \notin {"sending", "answered"}
    /\ \A k \in IntentKeys :
         /\ Reserved(k) => Reserved(k)'
         /\ mailed[k] > 0 => /\ ~Reserved(k)'
                             /\ intents'[k].status \in {"sending", "uncertain", "accepted"}
         /\ ~Reserved(k)' /\ intents'[k].status = "sending" => intents'[k] = intents[k]
    /\ \A c \in Couriers : courier'[c].pc = "sending" =>
         /\ ~Reserved(courier[c].key)'
         /\ intents'[courier[c].key].status \in {"sending", "uncertain"}

\* What a courier at work holds.
LEMMA CourierFields ==
    ASSUME TypeOK, NEW c \in Couriers, courier[c].pc # "idle"
    PROVE  courier[c].key \in IntentKeys /\ courier[c].receipt \in Receipts
  BY DEF TypeOK, CourierRows

\* Such a step keeps what the couriers know.
LEMMA MailRestsKeep ==
    ASSUME MailInv, MailRests
    PROVE  (CourierKnows /\ MailedState)'
<1> USE DEF MailInv
<1>1. MailedState'
  BY DEF MailedState, MailRests
<1>2. ASSUME NEW c \in Couriers PROVE CourierKnown(c)'
  <2>1. CASE courier'[c].pc \notin {"sending", "answered"}
    BY <2>1 DEF CourierKnown
  <2>2. CASE courier'[c] = courier[c] /\ courier[c].pc \in {"sending", "answered"}
    <3> DEFINE k == courier[c].key
    <3>1. k \in IntentKeys /\ CourierKnown(c)
      BY <2>2, CourierFields DEF CourierKnows
    <3>2. /\ Reserved(k) => Reserved(courier[c].key)'
          /\ ~Reserved(courier[c].key)' /\ intents'[k].status = "sending"
               => intents'[k] = intents[k]
          /\ mailed' = mailed
      BY <2>2, <3>1 DEF MailRests
    <3>3. courier[c].pc = "sending" =>
            /\ ~Reserved(courier[c].key)'
            /\ intents'[k].status \in {"sending", "uncertain"}
      BY <2>2 DEF MailRests
    <3> QED
      BY <2>2, <3>1, <3>2, <3>3 DEF CourierKnown
  <2> QED
    BY <2>1, <2>2 DEF MailRests
<1>3. \A b, c \in Couriers :
        /\ courier'[b].pc = "sending" /\ courier'[c].pc = "sending"
        /\ courier'[b].key = courier'[c].key
        => b = c
  BY DEF CourierKnows, MailRests
<1> QED
  BY <1>1, <1>2, <1>3 DEF CourierKnows

\* The transport lets the couriers be.
LEMMA TransportMail ==
    ASSUME ReservationInv, MailInv, TransportNext
    PROVE  MailRests
<1>1. /\ courier' = courier /\ mailed' = mailed
      /\ \A k \in IntentKeys : Reserved(k) => Reserved(k)'
      /\ \A k \in IntentKeys : ~Reserved(k) =>
           IF intents[k].status \in {"absent", "pending"}
           THEN intents'[k].status \in {"absent", "pending"}
           ELSE ~Reserved(k)' /\ intents'[k] = intents[k]
  BY TransportRows
<1>2. \A k \in IntentKeys :
        mailed[k] > 0 => /\ ~Reserved(k)
                         /\ intents[k].status \in {"sending", "uncertain", "accepted"}
  BY DEF MailInv, MailedState
<1>3. ASSUME NEW c \in Couriers, courier[c].pc = "sending"
      PROVE  /\ ~Reserved(courier[c].key)'
             /\ intents'[courier[c].key].status \in {"sending", "uncertain"}
  <2>1. /\ courier[c].key \in IntentKeys /\ ~Reserved(courier[c].key)
        /\ intents[courier[c].key].status \in {"sending", "uncertain"}
    BY <1>3, CourierFields DEF MailInv, CourierKnows, CourierKnown
  <2>2. courier'[c] = courier[c]
    BY <1>1
  <2> QED
    BY <1>1, <2>1, <2>2
<1> QED
  BY <1>1, <1>2, <1>3 DEF MailRests

\* What a run's staging does to a row.
LEMMA StageRow ==
    ASSUME TypeOK, NEW r \in Runs, NEW targets \in SUBSET Dests,
           NEW obs \in Observations,
           NEW pick \in [targets -> SUBSET DOMAIN obs], NEW adopt \in BOOLEAN,
           Stage(r, targets, obs, pick, adopt), NEW k \in IntentKeys
    PROVE  /\ intents'[k].attempts = intents[k].attempts
           /\ \/ k \notin Outdated(obs) /\ intents'[k] = intents[k]
              \/ /\ k \in Outdated(obs)
                 /\ intents[k].status \in {"pending", "leased", "failed", "legacy_hold"}
                 /\ intents'[k].status = "superseded"
              \/ /\ k \in Enqueued(obs, targets, pick)
                 /\ intents[k].status = "absent"
                 /\ Hold(k) \notin legacy /\ intents'[k].status = "pending"
              \/ /\ k \in HeldRows(obs, targets, pick)
                 /\ Hold(k) \in legacy /\ k \notin Outdated(obs)
                 /\ \/ /\ k \in Enqueued(obs, targets, pick)
                       /\ intents[k].status = "absent"
                    \/ intents[k].status = "legacy_hold"
                 /\ intents'[k].status = IF adopt THEN "accepted" ELSE "legacy_hold"
<1> DEFINE enqueued == Enqueued(obs, targets, pick)
           held == HeldRows(obs, targets, pick)
           outdated == Outdated(obs)
<1>1. intents'[k] = IF k \in held
                    THEN WithStatus(intents[k], IF adopt THEN "accepted" ELSE "legacy_hold")
                    ELSE IF k \in enqueued THEN WithStatus(intents[k], "pending")
                    ELSE IF k \in outdated THEN WithStatus(intents[k], "superseded")
                    ELSE intents[k]
  BY DEF Stage
<1>2. k \in enqueued => intents[k].status = "absent"
  BY EnqueuedIsNew DEF Stage, SameRevision, SameStream
<1>3. /\ k \in held => /\ Hold(k) \in legacy
                       /\ \/ k \in enqueued
                          \/ intents[k].status = "legacy_hold" /\ k \notin outdated
      /\ k \in enqueued /\ Hold(k) \in legacy => k \in held
  BY DEF HeldRows
<1>4. k \in outdated =>
        intents[k].status \in {"pending", "leased", "failed", "legacy_hold"}
  BY DEF Outdated
<1>5. \A st \in {"accepted", "legacy_hold", "pending", "superseded"} :
        /\ WithStatus(intents[k], st).status = st
        /\ WithStatus(intents[k], st).attempts = intents[k].attempts
  BY StatusRow DEF TypeOK, IntentStatus
<1> HIDE DEF enqueued, held, outdated
<1>6. CASE k \in held
  <2>1. /\ intents'[k].status = IF adopt THEN "accepted" ELSE "legacy_hold"
        /\ intents'[k].attempts = intents[k].attempts
    BY <1>1, <1>5, <1>6
  <2>2. k \notin outdated
    BY <1>2, <1>3, <1>4, <1>6
  <2> QED
    BY <1>2, <1>3, <1>6, <2>1, <2>2 DEF enqueued, held, outdated
<1>7. CASE k \notin held /\ k \in enqueued
  BY <1>1, <1>2, <1>3, <1>5, <1>7 DEF enqueued
<1>8. CASE k \notin held /\ k \notin enqueued /\ k \in outdated
  BY <1>1, <1>4, <1>5, <1>8 DEF outdated
<1>9. CASE k \notin held /\ k \notin enqueued /\ k \notin outdated
  BY <1>1, <1>9 DEF outdated
<1> QED
  BY <1>6, <1>7, <1>8, <1>9

\* Staging touches no row that is being sent, or may have been.
LEMMA StageMail ==
    ASSUME ReservationInv, MailInv, StageRun
    PROVE  MailRests
<1> USE DEF ReservationInv
<1>1. PICK r \in Runs, targets \in SUBSET Dests, obs \in Observations, adopt \in BOOLEAN :
        \E pick \in [targets -> SUBSET DOMAIN obs] : Stage(r, targets, obs, pick, adopt)
  BY DEF StageRun
<1>2. PICK pick \in [targets -> SUBSET DOMAIN obs] : Stage(r, targets, obs, pick, adopt)
  BY <1>1
<1>3. UNCHANGED <<envelopes, courier, mailed>>
  BY <1>2 DEF Stage
<1>4. \A k \in IntentKeys : Reserved(k)' <=> Reserved(k)
  BY <1>3 DEF Reserved
<1>5. ASSUME NEW k \in IntentKeys
      PROVE  \/ intents'[k] = intents[k]
             \/ /\ intents[k].status \notin {"sending", "uncertain", "accepted"}
                /\ intents'[k].status # "sending"
  BY <1>2, StageRow
<1>6. ASSUME NEW c \in Couriers, courier[c].pc = "sending"
      PROVE  /\ courier[c].key \in IntentKeys /\ ~Reserved(courier[c].key)
             /\ intents[courier[c].key].status \in {"sending", "uncertain"}
  BY <1>6, CourierFields DEF MailInv, CourierKnows, CourierKnown
<1> QED
  BY <1>3, <1>4, <1>5, <1>6 DEF MailRests, MailInv, MailedState

\* No courier starts or ends a call; none is calling about k, unless its fate
\* is left open.
CallsStay(k, st) ==
    \A c \in Couriers :
       /\ courier'[c] = courier[c] \/ courier'[c].pc \notin {"sending", "answered"}
       /\ courier'[c].pc = "sending" /\ courier[c].key = k => st = "uncertain"

\* A step that changes one row outside the digests, and ends no call.
LEMMA OneRowMail ==
    ASSUME MailInv, NEW k \in IntentKeys, NEW row \in IntentRows,
           intents' = [intents EXCEPT ![k] = row],
           UNCHANGED <<envelopes, mailed>>,
           row.status # "sending",
           mailed[k] > 0 => row.status \in {"uncertain", "accepted"},
           CallsStay(k, row.status)
    PROVE  MailRests
<1> USE DEF MailInv, CallsStay
<1>1. \A j \in IntentKeys : intents'[j] = IF j = k THEN row ELSE intents[j]
  BY DEF TypeOK
<1>2. \A j \in IntentKeys : Reserved(j)' <=> Reserved(j)
  BY DEF Reserved
<1>3. ASSUME NEW c \in Couriers, courier'[c].pc = "sending"
      PROVE  /\ ~Reserved(courier[c].key)'
             /\ intents'[courier[c].key].status \in {"sending", "uncertain"}
  <2>1. courier[c].pc = "sending"
    BY <1>3
  <2>2. /\ courier[c].key \in IntentKeys /\ ~Reserved(courier[c].key)
        /\ intents[courier[c].key].status \in {"sending", "uncertain"}
    BY <2>1, CourierFields DEF CourierKnows, CourierKnown
  <2> QED
    BY <1>1, <1>2, <1>3, <2>2
<1> QED
  BY <1>1, <1>2, <1>3 DEF MailRests, MailedState

\* An expired claim is free again; an expired send is uncertain.
LEMMA ExpireMail ==
    ASSUME ReservationInv, MailInv, NEW k \in IntentKeys, ExpireIntent(k)
    PROVE  MailRests
<1> USE DEF MailInv
<1> DEFINE st == IF intents[k].status = "leased" THEN "pending" ELSE "uncertain"
<1>1. /\ intents[k].status \in {"leased", "sending"}
      /\ intents' = [intents EXCEPT ![k] = WithStatus(intents[k], st)]
      /\ UNCHANGED <<envelopes, courier, mailed>>
  BY DEF ExpireIntent
<1>2. /\ WithStatus(intents[k], st) \in IntentRows
      /\ WithStatus(intents[k], st).status = st
  BY StatusRow DEF TypeOK, IntentStatus
<1>3. intents[k].status = "leased" => /\ ~(mailed[k] > 0)
                                      /\ \A c \in Couriers : courier[c].pc = "sending"
                                                               => courier[c].key # k
  BY DEF MailedState, CourierKnows, CourierKnown
<1>4. st # "sending" /\ (st = "pending" => intents[k].status = "leased")
      /\ st \in {"pending", "uncertain"}
  OBVIOUS
<1> HIDE DEF st
<1>5. CallsStay(k, WithStatus(intents[k], st).status)
  BY <1>1, <1>2, <1>3, <1>4 DEF CallsStay
<1> QED
  BY <1>1, <1>2, <1>3, <1>4, <1>5, OneRowMail

\* A claimed row was free.
LEMMA ClaimMail ==
    ASSUME ReservationInv, MailInv, NEW c \in Couriers, NEW k \in IntentKeys,
           ClaimNext(c, k)
    PROVE  MailRests
<1> USE DEF MailInv
<1>1. /\ intents[k].status = "pending" /\ courier[c].pc = "idle"
      /\ intents' = [intents EXCEPT ![k] = Leased(intents[k], c)]
      /\ courier' = [courier EXCEPT ![c].pc = "claimed", ![c].key = k]
      /\ UNCHANGED <<envelopes, mailed>>
  BY DEF ClaimNext
<1>2. /\ Leased(intents[k], c) \in IntentRows
      /\ Leased(intents[k], c).status = "leased"
  BY LeasedRow DEF TypeOK, Processes
<1>3. /\ ~(mailed[k] > 0)
      /\ \A b \in Couriers : courier[b].pc = "sending" => courier[b].key # k
  BY <1>1 DEF MailedState, CourierKnows, CourierKnown
<1>4. /\ courier'[c].pc = "claimed"
      /\ \A b \in Couriers : b # c => courier'[b] = courier[b]
  BY <1>1 DEF TypeOK, CourierRows
<1>5. CallsStay(k, "leased")
  BY <1>3, <1>4 DEF CallsStay
<1> DEFINE row == Leased(intents[k], c)
<1>6. /\ row \in IntentRows /\ row.status = "leased"
      /\ intents' = [intents EXCEPT ![k] = row]
  BY <1>1, <1>2
<1> HIDE DEF row
<1> QED
  BY <1>1, <1>3, <1>5, <1>6, OneRowMail

\* A settled row: the courier whose answer it is was alone with the row, and a
\* reviewer waits for every call to end.
LEMMA SettleMail ==
    ASSUME ReservationInv, MailInv, NEW k \in IntentKeys, NEW o \in Receipts,
           Settle(k, o), UNCHANGED <<envelopes, mailed>>,
           mailed[k] > 0 => o \in {"accepted", "uncertain"},
           \A c \in Couriers :
              /\ courier'[c] \in {courier[c], IdleCourier}
              /\ ~(courier'[c].pc = "sending" /\ courier[c].key = k)
    PROVE  MailRests
<1> USE DEF MailInv
<1> DEFINE st == SettledStatus(k, o)
<1>1. intents' = [intents EXCEPT ![k] = WithStatus(intents[k], st)]
  BY DEF Settle
<1>2. /\ st \in IntentStatus /\ st # "sending"
      /\ o \in {"accepted", "uncertain"} => st \in {"uncertain", "accepted"}
  BY DEF SettledStatus, Receipts, IntentStatus
<1> HIDE DEF st
<1>3. /\ WithStatus(intents[k], st) \in IntentRows
      /\ WithStatus(intents[k], st).status = st
  BY <1>2, StatusRow DEF TypeOK
<1>4. CallsStay(k, st)
  BY DEF IdleCourier, CallsStay
<1> DEFINE row == WithStatus(intents[k], st)
<1>5. /\ row \in IntentRows /\ row.status # "sending" /\ row.status = st
      /\ mailed[k] > 0 => row.status \in {"uncertain", "accepted"}
      /\ intents' = [intents EXCEPT ![k] = row]
  BY <1>1, <1>2, <1>3
<1> HIDE DEF row
<1> QED
  BY <1>4, <1>5, OneRowMail

\* The courier's own answer.
LEMMA FinishMail ==
    ASSUME ReservationInv, MailInv, NEW c \in Couriers, Finish(c)
    PROVE  MailRests
<1> USE DEF MailInv
<1> DEFINE k == courier[c].key
<1>1. /\ courier[c].pc = "answered" /\ intents[k].status = "sending"
      /\ intents[k].token = c /\ ~Reserved(k)
      /\ Settle(k, courier[c].receipt)
      /\ courier' = [courier EXCEPT ![c] = IdleCourier]
      /\ UNCHANGED <<envelopes, mailed>>
  BY DEF Finish
<1>2. k \in IntentKeys /\ courier[c].receipt \in Receipts
  BY <1>1, CourierFields
<1>3. mailed[k] > 0 => courier[c].receipt \in {"accepted", "uncertain"}
  <2>1. CourierKnown(c)
    BY DEF CourierKnows
  <2>2. courier[c].receipt \in {"not_sent", "permanent_failure"} => mailed[k] = 0
    BY <1>1, <2>1 DEF CourierKnown
  <2> QED
    BY <1>2, <2>2 DEF Receipts
<1>4. ASSUME NEW b \in Couriers
      PROVE  /\ courier'[b] \in {courier[b], IdleCourier}
             /\ ~(courier'[b].pc = "sending" /\ courier[b].key = k)
  <2>1. courier'[b] = IF b = c THEN IdleCourier ELSE courier[b]
    BY <1>1 DEF TypeOK
  <2>2. CASE b = c
    BY <2>1, <2>2 DEF IdleCourier
  <2>3. CASE b # c
    <3>1. CourierKnown(b)
      BY DEF CourierKnows
    <3>2. ~(courier[b].pc = "sending" /\ courier[b].key = k)
      BY <1>1, <2>3, <3>1 DEF CourierKnown
    <3> QED
      BY <2>1, <2>3, <3>2
  <2> QED
    BY <2>2, <2>3
<1> DEFINE o == courier[c].receipt
<1>5. /\ k \in IntentKeys /\ o \in Receipts /\ Settle(k, o)
      /\ mailed[k] > 0 => o \in {"accepted", "uncertain"}
      /\ UNCHANGED <<envelopes, mailed>>
  BY <1>1, <1>2, <1>3
<1> HIDE DEF k, o
<1> QED
  BY <1>4, <1>5, SettleMail

\* A reviewer's answer about a row sent on its own.
LEMMA ReconcileMail ==
    ASSUME ReservationInv, MailInv, NEW k \in IntentKeys,
           NEW o \in {"accepted", "not_sent"}, Reconcile(k, o)
    PROVE  MailRests
<1>1. /\ o = (IF mailed[k] > 0 THEN "accepted" ELSE "not_sent")
      /\ Settle(k, o) /\ UNCHANGED <<envelopes, courier, mailed>>
      /\ \A c \in Couriers : ~(courier[c].pc = "sending" /\ courier[c].key = k)
  BY DEF Reconcile
<1>2. o \in Receipts
  BY DEF Receipts
<1> QED
  BY <1>1, <1>2, SettleMail

\* A courier that forgets its claim.
LEMMA IdleMail ==
    ASSUME MailInv, UNCHANGED <<intents, envelopes, mailed>>,
           \A c \in Couriers : courier'[c] \in {courier[c], IdleCourier}
    PROVE  MailRests
<1> USE DEF MailInv
<1>1. \A j \in IntentKeys : Reserved(j)' <=> Reserved(j)
  BY DEF Reserved
<1>2. \A c \in Couriers : \/ courier'[c] = courier[c]
                          \/ courier'[c].pc \notin {"sending", "answered"}
  BY DEF IdleCourier
<1>3. ASSUME NEW c \in Couriers, courier'[c].pc = "sending"
      PROVE  /\ ~Reserved(courier[c].key)'
             /\ intents'[courier[c].key].status \in {"sending", "uncertain"}
  <2>1. courier[c].pc = "sending" /\ courier'[c] = courier[c]
    BY <1>2, <1>3
  <2>2. /\ courier[c].key \in IntentKeys /\ ~Reserved(courier[c].key)
        /\ intents[courier[c].key].status \in {"sending", "uncertain"}
    BY <2>1, CourierFields DEF CourierKnows, CourierKnown
  <2>3. intents' = intents
    OBVIOUS
  <2> QED
    BY <1>1, <2>1, <2>2, <2>3
<1> QED
  BY <1>1, <1>2, <1>3 DEF MailRests, MailedState

\* A claimed row was never taken, and no other call about it is under way.
LEMMA BeginSendKnows ==
    ASSUME ReservationInv, MailInv, NEW c \in Couriers, BeginSend(c)
    PROVE  (CourierKnows /\ MailedState)'
<1> USE DEF MailInv
<1> DEFINE k == courier[c].key
<1>1. /\ courier[c].pc = "claimed" /\ ~Reserved(k)
      /\ intents[k].status = "leased" /\ intents[k].token = c
      /\ intents' = [intents EXCEPT ![k] = Started(intents[k])]
      /\ courier' = [courier EXCEPT ![c].pc = "sending"]
      /\ UNCHANGED <<envelopes, mailed>>
  BY DEF BeginSend
<1>2. k \in IntentKeys
  BY <1>1, CourierFields
<1>3. \A j \in IntentKeys : Reserved(j)' <=> Reserved(j)
  BY <1>1 DEF Reserved
<1>4. /\ intents'[k].status = "sending" /\ intents'[k].token = c
      /\ \A j \in IntentKeys : j # k => intents'[j] = intents[j]
  BY <1>1, <1>2, StartedRow DEF TypeOK
<1>5. /\ courier'[c].pc = "sending" /\ courier'[c].key = k
      /\ \A b \in Couriers : b # c => courier'[b] = courier[b]
  BY <1>1 DEF TypeOK, CourierRows
<1>6. mailed[k] = 0
  <2>1. ~(mailed[k] > 0)
    BY <1>1, <1>2 DEF MailedState
  <2>2. mailed[k] \in Nat
    BY <1>2 DEF TypeOK
  <2> QED
    BY <2>1, <2>2
<1>7. ASSUME NEW b \in Couriers, b # c, courier[b].pc = "sending"
      PROVE  courier[b].key # k
  <2>1. CourierKnown(b)
    BY DEF CourierKnows
  <2> QED
    BY <1>1, <1>7, <2>1 DEF CourierKnown
<1>8. CourierKnown(c)'
  BY <1>1, <1>2, <1>3, <1>4, <1>5, <1>6 DEF CourierKnown
<1>9. ASSUME NEW b \in Couriers, b # c
      PROVE  CourierKnown(b)'
  <2>1. CourierKnown(b) /\ courier'[b] = courier[b]
    BY <1>5, <1>9 DEF CourierKnows
  <2>2. CASE courier[b].pc \notin {"sending", "answered"}
    BY <2>1, <2>2 DEF CourierKnown
  <2>3. CASE courier[b].pc \in {"sending", "answered"} /\ courier[b].key = k
    BY <1>4, <1>7, <1>9, <2>1, <2>3 DEF CourierKnown
  <2>4. CASE courier[b].pc \in {"sending", "answered"} /\ courier[b].key # k
    <3>1. courier[b].key \in IntentKeys
      BY <2>4, CourierFields
    <3> QED
      BY <1>1, <1>3, <1>4, <2>1, <2>4, <3>1 DEF CourierKnown
  <2> QED
    BY <2>2, <2>3, <2>4
<1>10. ASSUME NEW a \in Couriers, NEW b \in Couriers,
              courier'[a].pc = "sending", courier'[b].pc = "sending",
              courier'[a].key = courier'[b].key
       PROVE  a = b
  BY <1>5, <1>7, <1>10 DEF CourierKnows
<1>11. MailedState'
  BY <1>1, <1>3, <1>4, <1>6 DEF MailedState
<1> QED
  BY <1>8, <1>9, <1>10, <1>11 DEF CourierKnows

\* The provider takes a row once: it was not taken, and only one call about it
\* is under way.
LEMMA CourierAnsweredKnows ==
    ASSUME ReservationInv, MailInv, NEW c \in Couriers, NEW a \in Answers,
           CourierAnswered(c, a)
    PROVE  (CourierKnows /\ MailedState)'
<1> USE DEF MailInv
<1> DEFINE k == courier[c].key
<1>1. /\ courier[c].pc = "sending" /\ UNCHANGED <<intents, envelopes>>
      /\ courier' = [courier EXCEPT ![c].pc = "answered", ![c].receipt = a.receipt]
      /\ mailed' = IF a.arrives THEN [mailed EXCEPT ![k] = mailed[k] + 1] ELSE mailed
  BY DEF CourierAnswered
<1>2. /\ k \in IntentKeys /\ mailed[k] = 0 /\ ~Reserved(k)
      /\ intents[k].status \in {"sending", "uncertain"}
      /\ intents[k].status = "sending" => intents[k].token = c
  BY <1>1, CourierFields DEF CourierKnows, CourierKnown
<1>3. \A j \in IntentKeys : Reserved(j)' <=> Reserved(j)
  BY <1>1 DEF Reserved
<1>4. /\ courier'[c].pc = "answered" /\ courier'[c].key = k
      /\ courier'[c].receipt = a.receipt
      /\ \A b \in Couriers : b # c => courier'[b] = courier[b]
  BY <1>1 DEF TypeOK, CourierRows
<1>5. /\ mailed'[k] = IF a.arrives THEN 1 ELSE 0
      /\ \A j \in IntentKeys : j # k => mailed'[j] = mailed[j]
  BY <1>1, <1>2 DEF TypeOK
<1>6. /\ a.receipt = "accepted" => a.arrives
      /\ a.receipt \in {"not_sent", "permanent_failure"} => ~a.arrives
  BY DEF Answers
<1>7. CourierKnown(c)'
  BY <1>4, <1>5, <1>6 DEF CourierKnown
<1>8. ASSUME NEW b \in Couriers, b # c
      PROVE  CourierKnown(b)'
  <2>1. CourierKnown(b) /\ courier'[b] = courier[b]
    BY <1>4, <1>8 DEF CourierKnows
  <2>2. CASE courier[b].pc \notin {"sending", "answered"}
    BY <2>1, <2>2 DEF CourierKnown
  <2>3. CASE courier[b].pc \in {"sending", "answered"} /\ courier[b].key = k
    <3>1. courier[b].pc # "sending"
      BY <1>1, <1>8, <2>3 DEF CourierKnows
    <3>2. intents[k].status = "sending" => intents[k].token # b
      BY <1>2, <1>8
    <3> QED
      BY <1>1, <2>1, <2>3, <3>1, <3>2 DEF CourierKnown
  <2>4. CASE courier[b].pc \in {"sending", "answered"} /\ courier[b].key # k
    <3>1. courier[b].key \in IntentKeys
      BY <2>4, CourierFields
    <3> QED
      BY <1>1, <1>3, <1>5, <2>1, <2>4, <3>1 DEF CourierKnown
  <2> QED
    BY <2>2, <2>3, <2>4
<1>9. ASSUME NEW b \in Couriers, NEW d \in Couriers,
             courier'[b].pc = "sending", courier'[d].pc = "sending",
             courier'[b].key = courier'[d].key
      PROVE  b = d
  BY <1>4, <1>9 DEF CourierKnows
<1>10. MailedState'
  BY <1>1, <1>2, <1>3, <1>5 DEF MailedState
<1> QED
  BY <1>7, <1>8, <1>9, <1>10 DEF CourierKnows

\* Nothing was taken at first.
LEMMA MailInit == Init => MailInv
<1> SUFFICES ASSUME Init PROVE MailInv
  OBVIOUS
<1>1. /\ \A c \in Couriers : courier[c].pc = "idle"
      /\ \A k \in IntentKeys : mailed[k] = 0
  BY DEF Init, IdleCourier
<1>2. CourierKnows
  BY <1>1 DEF CourierKnows, CourierKnown
<1>3. MailedState
  BY <1>1 DEF MailedState
<1> QED
  BY <1>2, <1>3, TypeInit DEF MailInv

\* Every step of the outbox keeps what the couriers know.
LEMMA OutboxMail ==
    ASSUME ReservationInv, MailInv, OutboxNext
    PROVE  (CourierKnows /\ MailedState)'
<1> DEFINE Goal == (CourierKnows /\ MailedState)'
<1>1. CASE StageRun
  BY <1>1, StageMail, MailRestsKeep
<1>2. CASE ImportLegacy
  BY <1>2, IdleMail, MailRestsKeep DEF ImportLegacy
<1>3. ASSUME NEW k \in IntentKeys, ExpireIntent(k) PROVE Goal
  BY <1>3, ExpireMail, MailRestsKeep
<1>4. ASSUME NEW c \in Couriers, NEW k \in IntentKeys, ClaimNext(c, k) PROVE Goal
  BY <1>4, ClaimMail, MailRestsKeep
<1>5. ASSUME NEW c \in Couriers, BeginSend(c) PROVE Goal
  BY <1>5, BeginSendKnows
<1>6. ASSUME NEW c \in Couriers, NEW a \in Answers, CourierAnswered(c, a) PROVE Goal
  BY <1>6, CourierAnsweredKnows
<1>7. ASSUME NEW c \in Couriers, Finish(c) PROVE Goal
  BY <1>7, FinishMail, MailRestsKeep
<1>8. ASSUME NEW c \in Couriers, CourierRefused(c) \/ CourierDies(c) PROVE Goal
  <2>1. /\ courier' = [courier EXCEPT ![c] = IdleCourier]
        /\ UNCHANGED <<intents, envelopes, mailed>>
    BY <1>8 DEF CourierRefused, CourierDies, tables
  <2>2. \A b \in Couriers : courier'[b] \in {courier[b], IdleCourier}
    BY <2>1 DEF MailInv, TypeOK
  <2> QED
    BY <2>1, <2>2, IdleMail, MailRestsKeep
<1>9. ASSUME NEW k \in IntentKeys, NEW o \in {"accepted", "not_sent"}, Reconcile(k, o)
      PROVE  Goal
  BY <1>9, ReconcileMail, MailRestsKeep
<1> QED
  BY <1>1, <1>2, <1>3, <1>4, <1>5, <1>6, <1>7, <1>8, <1>9 DEF OutboxNext, CourierStep

\* What is known of the couriers is inductive, given the reservations.
LEMMA MailStep == ReservationInv /\ MailInv /\ [Next]_vars => MailInv'
<1> SUFFICES ASSUME ReservationInv, MailInv, [Next]_vars PROVE MailInv'
  OBVIOUS
<1>1. TypeOK'
  BY TypeStep DEF ReservationInv
<1>2. (CourierKnows /\ MailedState)'
  <2>1. CASE UNCHANGED vars
    <3>1. UNCHANGED <<intents, envelopes, mailed, courier>>
      BY <2>1 DEF vars
    <3> QED
      BY <3>1, IdleMail, MailRestsKeep
  <2>2. CASE OutboxNext
    BY <2>2, OutboxMail
  <2>3. CASE TransportNext
    BY <2>3, TransportMail, MailRestsKeep
  <2> QED
    BY <2>1, <2>2, <2>3 DEF Next
<1> QED
  BY <1>1, <1>2 DEF MailInv

\* What the couriers and the tables know of the provider is always true: a row
\* is taken on its own at most once, and a settled answer is what happened.
THEOREM MailKnown == Spec => []MailInv
<1>1. Init => ReservationInv /\ MailInv
  BY ReservationInit, MailInit
<1>2. (ReservationInv /\ MailInv) /\ [Next]_vars => (ReservationInv /\ MailInv)'
  BY ReservationStep, MailStep
<1> QED
  BY <1>1, <1>2, PTL DEF Spec
=============================================================================
