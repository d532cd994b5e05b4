---------------------------- MODULE DeliveryOutbox ----------------------------
(***************************************************************************)
(* delivery_outbox.py: revisions and intents staged together, and the      *)
(* delivery of one intent at a time by couriers (dispatch_fake), with      *)
(* leases, retries, uncertain sends and their reviewed reconciliation.     *)
(***************************************************************************)
EXTENDS DeliveryTables

Smaller(m, n) == IF m <= n THEN m ELSE n

-----------------------------------------------------------------------------
(* record_delivery_run: one transaction revises every observed subject,    *)
(* selects for each destination, enqueues, and adopts legacy receipts.     *)

\* Subjects whose observed material differs from their current revision.
Changed(obs) ==
    {s \in DOMAIN obs : \/ revisions[s] = <<>>
                        \/ revisions[s][CurrentRevision(s)] # obs[s]}

\* revise: a changed subject gets the next revision in its sequence.
Revised(obs) ==
    [s \in Streams |-> IF s \in Changed(obs) THEN Append(revisions[s], obs[s])
                       ELSE revisions[s]]

\* Fault: the newer observation leaves older unsent cards alone.
OutdatedNothing(obs) == {}

\* Fault: the newer observation takes back delivered cards too.
OutdatedDelivered(obs) ==
    {k \in IntentKeys : k.subject \in Changed(obs)
                       /\ intents[k].status \in {"pending", "leased", "accepted"}}

\* revise: an unsent card of an older revision must never resurrect.
Outdated(obs) ==
    {k \in IntentKeys :
        /\ k.subject \in Changed(obs)
        /\ intents[k].status \in {"pending", "leased", "failed", "legacy_hold"}}

Unrecorded(obs, d) ==
    {s \in DOMAIN obs : ~Recorded(s, d, Len(Revised(obs)[s]))}

Cards(obs, d) ==
    {s \in Unrecorded(obs, d) \cap Subjects : obs[s] \in ActiveMaterials}

\* Fault: a closure goes everywhere.
StatusItemsEverywhere(obs, d) ==
    {s \in Unrecorded(obs, d) \cap Subjects : obs[s] \notin ActiveMaterials}

\* Closures and blocks only go where an earlier version was accepted, unless
\* they state facts of the user's own.
StatusItems(obs, d) ==
    {s \in Unrecorded(obs, d) \cap Subjects :
        /\ obs[s] \notin ActiveMaterials
        /\ obs[s] \in FactMaterials \/ baselines[s, d] > 0}

\* A scope in trouble, or one that just recovered.
CoverageItems(obs, d) ==
    {s \in Unrecorded(obs, d) \cap Scopes :
        LET r == Revised(obs)[s]
        IN  \/ obs[s] \in TroubleMaterials
            \/ Len(r) > 1 /\ r[Len(r) - 1] \in TroubleMaterials}

\* What a destination may be given; which cards is the digest's choice.
Selectable(obs, d, chosen) ==
    LET cards == chosen \cap Cards(obs, d)
        status == chosen \cap StatusItems(obs, d)
        coverage == chosen \cap CoverageItems(obs, d)
    IN  /\ chosen = cards \cup status \cup coverage
        /\ Cardinality(cards) <= CardCap
        /\ Cardinality(status)
             = Smaller(StatusCap, Cardinality(StatusItems(obs, d)))
        /\ Cardinality(coverage)
             = Smaller(StatusCap, Cardinality(CoverageItems(obs, d)))

Enqueued(obs, targets, pick) ==
    {k \in IntentKeys : /\ k.dest \in targets
                        /\ k.subject \in pick[k.dest]
                        /\ k.sequence = Len(Revised(obs)[k.subject])
                        /\ k.generation = 1}

Hold(k) == <<k.subject, Channel[k.dest]>>

\* Fault: enqueue does not look for an old receipt.
HeldRowsOfEarlierRuns(obs, targets, pick) ==
    {k \in IntentKeys : /\ Hold(k) \in legacy
                       /\ k.dest \in targets
                       /\ intents[k].status = "legacy_hold"
                       /\ k \notin Outdated(obs)}

\* Rows that stand for what V4.2 already sent: held, and not outdated.
HeldRows(obs, targets, pick) ==
    {k \in IntentKeys :
        /\ Hold(k) \in legacy
        /\ \/ k \in Enqueued(obs, targets, pick)
           \/ /\ k.dest \in targets
              /\ intents[k].status = "legacy_hold"
              /\ k \notin Outdated(obs)}

Stage(r, targets, obs, pick, adopt) ==
    LET enqueued == Enqueued(obs, targets, pick)
        held == HeldRows(obs, targets, pick)
        adopted == IF adopt THEN held ELSE {}
    IN  /\ r \notin staged
        /\ \A s \in DOMAIN obs : lastAsOf[s] <= r
        /\ \A s \in DOMAIN obs : Len(Revised(obs)[s]) <= MaxSequence
        /\ \A d \in targets : Selectable(obs, d, pick[d])
        /\ staged' = staged \cup {r}
        /\ lastAsOf' = [s \in Streams |-> IF s \in DOMAIN obs THEN r
                                          ELSE lastAsOf[s]]
        /\ revisions' = Revised(obs)
        /\ intents' =
             [k \in IntentKeys |->
                IF k \in adopted THEN WithStatus(intents[k], "accepted")
                ELSE IF k \in held THEN WithStatus(intents[k], "legacy_hold")
                ELSE IF k \in enqueued THEN WithStatus(intents[k], "pending")
                ELSE IF k \in Outdated(obs)
                     THEN WithStatus(intents[k], "superseded")
                ELSE intents[k]]
        /\ baselines' =
             [b \in Streams \X Dests |->
                LET own == {k \in adopted : k.subject = b[1] /\ k.dest = b[2]}
                IN  IF baselines[b] = 0 /\ own # {}
                    THEN (CHOOSE k \in own : TRUE).sequence
                    ELSE baselines[b]]
        /\ legacy' = legacy \ {Hold(k) : k \in adopted}
        /\ UNCHANGED <<envelopes, parts, courier, sender, mailed, posted>>

\* enable_delivery_production: old channel-only receipts become holds, unless
\* a destination on the channel already has a baseline of the subject.
ImportLegacy ==
    /\ legacy' = legacy \cup
         {h \in LegacyReceipts :
            \A d \in Dests : Channel[d] = h[2] => baselines[h[1], d] = 0}
    /\ UNCHANGED <<revisions, lastAsOf, staged, intents, baselines, envelopes,
                   parts, courier, sender, mailed, posted>>

-----------------------------------------------------------------------------
(* One intent at a time.                                                   *)

\* Fault: a retry does not look whether the revision is still current.
SettledStatusAnyRevision(k, outcome) ==
    CASE outcome = "accepted" -> "accepted"
      [] outcome = "uncertain" -> "uncertain"
      [] outcome = "permanent_failure" -> "failed"
      [] outcome = "not_sent" ->
           IF intents[k].attempts >= MaxAttempts THEN "failed" ELSE "pending"

\* _settle: what a receipt makes of the row.
SettledStatus(k, outcome) ==
    CASE outcome = "accepted" -> "accepted"
      [] outcome = "uncertain" -> "uncertain"
      [] outcome = "permanent_failure" -> "failed"
      [] outcome = "not_sent" ->
           IF ~IsCurrent(k) THEN "superseded"
           ELSE IF intents[k].attempts >= MaxAttempts THEN "failed"
           ELSE "pending"

Settle(k, outcome) ==
    /\ intents' = [intents EXCEPT
                     ![k] = WithStatus(@, SettledStatus(k, outcome))]
    /\ baselines' = IF outcome = "accepted" THEN Accept({k}) ELSE baselines

\* Fault: a send interrupted by a crash is simply tried again.
ExpireIntentToPending(k) ==
    /\ intents[k].status \in {"leased", "sending"}
    /\ ~Reserved(k)
    /\ intents' = [intents EXCEPT ![k] = WithStatus(@, "pending")]
    /\ UNCHANGED <<revisions, lastAsOf, staged, legacy, baselines, envelopes,
                   parts, courier, sender, mailed, posted>>

\* _expire: an unstarted claim is free again, an interrupted send is uncertain.
ExpireIntent(k) ==
    /\ intents[k].status \in {"leased", "sending"}
    /\ ~Reserved(k)
    /\ intents' = [intents EXCEPT
                     ![k] = WithStatus(@, IF @.status = "leased" THEN "pending"
                                          ELSE "uncertain")]
    /\ UNCHANGED <<revisions, lastAsOf, staged, legacy, baselines, envelopes,
                   parts, courier, sender, mailed, posted>>

ClaimNext(c, k) ==
    /\ courier[c].pc = "idle"
    /\ intents[k].status = "pending"
    /\ intents[k].attempts < MaxAttempts
    /\ ~Busy(k)
    /\ ~Reserved(k)
    /\ ~SubjectReserved(k, 0)
    /\ intents' = [intents EXCEPT ![k] = Leased(@, c)]
    /\ courier' = [courier EXCEPT ![c].pc = "claimed", ![c].key = k]
    /\ UNCHANGED <<revisions, lastAsOf, staged, legacy, baselines, envelopes,
                   parts, sender, mailed, posted>>

\* begin_send: the claim is checked again before the provider is called.
BeginSend(c) ==
    LET k == courier[c].key
    IN  /\ courier[c].pc = "claimed"
        /\ ~Reserved(k)
        /\ intents[k].status = "leased" /\ intents[k].token = c
        /\ intents' = [intents EXCEPT ![k] = Started(@)]
        /\ courier' = [courier EXCEPT ![c].pc = "sending"]
        /\ UNCHANGED <<revisions, lastAsOf, staged, legacy, baselines,
                       envelopes, parts, sender, mailed, posted>>

\* The provider takes the message or not, and answers truthfully or not at all.
Answers == {[arrives |-> TRUE, receipt |-> "accepted"],
            [arrives |-> TRUE, receipt |-> "uncertain"],
            [arrives |-> FALSE, receipt |-> "uncertain"],
            [arrives |-> FALSE, receipt |-> "not_sent"],
            [arrives |-> FALSE, receipt |-> "permanent_failure"]}

CourierAnswered(c, a) ==
    LET k == courier[c].key
    IN  /\ courier[c].pc = "sending"
        /\ courier' = [courier EXCEPT ![c].pc = "answered",
                                      ![c].receipt = a.receipt]
        /\ mailed' = IF a.arrives THEN [mailed EXCEPT ![k] = @ + 1] ELSE mailed
        /\ UNCHANGED <<revisions, lastAsOf, staged, legacy, intents, baselines,
                       envelopes, parts, sender, posted>>

\* finish: a late answer, after the lease lapsed, changes nothing.
Finish(c) ==
    LET k == courier[c].key
    IN  /\ courier[c].pc = "answered"
        /\ intents[k].status = "sending" /\ intents[k].token = c
        /\ ~Reserved(k)
        /\ Settle(k, courier[c].receipt)
        /\ courier' = [courier EXCEPT ![c] = IdleCourier]
        /\ UNCHANGED <<revisions, lastAsOf, staged, legacy, envelopes, parts,
                       sender, mailed, posted>>

\* _lease raises: the claim was lost to an expiry or a newer revision.
CourierRefused(c) ==
    LET k == courier[c].key
    IN  /\ \/ courier[c].pc = "claimed" /\ intents[k].status # "leased"
           \/ courier[c].pc = "answered" /\ intents[k].status # "sending"
           \/ courier[c].pc \in {"claimed", "answered"} /\ intents[k].token # c
        /\ courier' = [courier EXCEPT ![c] = IdleCourier]
        /\ UNCHANGED <<tables, sender, mailed, posted>>

\* The process dies: before, during or after the provider call.
CourierDies(c) ==
    /\ courier[c].pc # "idle"
    /\ courier' = [courier EXCEPT ![c] = IdleCourier]
    /\ UNCHANGED <<tables, sender, mailed, posted>>

\* reconcile: a reviewer who knows what the provider did, and that no call is
\* still running, settles an uncertain row.
Reconcile(k, outcome) ==
    /\ intents[k].status = "uncertain"
    /\ ~Reserved(k)
    /\ \A c \in Couriers : ~(courier[c].pc = "sending" /\ courier[c].key = k)
    /\ outcome = IF mailed[k] > 0 THEN "accepted" ELSE "not_sent"
    /\ Settle(k, outcome)
    /\ UNCHANGED <<revisions, lastAsOf, staged, legacy, envelopes, parts,
                   courier, sender, mailed, posted>>

-----------------------------------------------------------------------------
\* Observations of a run: some streams, each with a material.
Observations == UNION {[S -> Materials] : S \in SUBSET Streams}

\* enable_delivery_production has run: each old receipt is held or adopted.
LegacyImported ==
    \A h \in LegacyReceipts :
        h \in legacy \/ \E d \in Dests : Channel[d] = h[2] /\ baselines[h[1], d] > 0

StageRun ==
    LegacyImported /\ \E r \in Runs, targets \in SUBSET Dests \ {{}}, obs \in Observations,
       adopt \in BOOLEAN :
        \E pick \in [targets -> SUBSET DOMAIN obs] :
            Stage(r, targets, obs, pick, adopt)

CourierStep(c) ==
    \/ \E k \in IntentKeys : ClaimNext(c, k)
    \/ BeginSend(c)
    \/ \E a \in Answers : CourierAnswered(c, a)
    \/ Finish(c)
    \/ CourierRefused(c)

OutboxNext ==
    \/ StageRun
    \/ ImportLegacy
    \/ \E k \in IntentKeys : ExpireIntent(k)
    \/ \E c \in Couriers : CourierStep(c) \/ CourierDies(c)
    \/ \E k \in IntentKeys, o \in {"accepted", "not_sent"} : Reconcile(k, o)
=============================================================================
