---------------------------- MODULE HandoffReview -----------------------------
(***************************************************************************)
(* handoff_signal.py, handoff_review.py and handoff_reissue.py: reviews of *)
(* the evaluated jobs on a disposable copy of the delivery database.  One  *)
(* review is one transaction: it revises every subject, judges it against  *)
(* what each recipient last accepted, stages the chosen signals, retires   *)
(* obsolete drafts, carries out an operator's reissue plan and freezes     *)
(* what may be sent into one draft per destination.  Between reviews a     *)
(* draft is dispatched by the transport of DigestTransport, in one step    *)
(* here: a review never works beside a sender.                             *)
(*                                                                         *)
(* A card is what a review finds of a job: its text (opening, decision,    *)
(* selected outcomes, work plan), the revision of the buyer's terms, and   *)
(* the support for them.  A payload that has lost its outcomes is None.    *)
(* Coverage signals, attempt limits and back-off are those of the delivery *)
(* modules and left out; a draft is one message.                           *)
(***************************************************************************)
EXTENDS WorkspaceFiles, Sequences, FiniteSets, SequencesExt

CONSTANTS
    Jobs, Targets,
    Finds,           \* what a review can find: None, or a card of each job
    Nature,          \* Nature[text]: lane, scoped outcome facts, urgency
    Precedence,      \* Precedence[j]: the job's place by PriorityKey
    Buyer,           \* Buyer[j]: its counterparty
    Contracts,       \* jobs on the one marketplace with a cap
    Pasts,           \* what earlier code had delivered of each job
    ActionSlots, VerifySlots, CardSlots, StatusSlots, BuyerCap, ContractCap,
    MaxReviews,      \* bound: reviews of one workspace
    MaxReissues      \* bound: generations of one intent

ASSUME BoundsAreNumbers == MaxReviews \in Nat /\ MaxReissues \in Nat
ASSUME FewTargets == IsFiniteSet(Targets)
ASSUME PastsAreOld ==
    \A past \in Pasts : \A j \in Jobs : past[j] # None => past[j].schema # "v3"

VARIABLES
    revised,   \* revised[j]: the materials of j, in sequence order
    intent,    \* delivery_intents by revision, target and generation
    deemed,    \* delivery_baselines: the sequence accepted there, 0 if none
    drafts,    \* delivery_envelopes, in order of creation
    lastHeard, \* history: the card a target accepted last
    reviews    \* history: reviews so far

handoffVars == <<revised, intent, deemed, drafts, lastHeard, reviews>>

-----------------------------------------------------------------------------
RowKeys == [job: Jobs, target: Targets, sequence: 1..(MaxReviews + 1),
         generation: 1..MaxReissues]
NoRow == [status |-> "absent", card |-> None, tried |-> FALSE]
PendingRow(card) == [status |-> "pending", card |-> card, tried |-> FALSE]

Lane(card) == Nature[card.text].lane
HasFacts(card) == Nature[card.text].facts
Urgent(card) == Nature[card.text].urgent

\* The material projections: of the opening alone, with the whole terms (v2),
\* and with the terms' state and revision only (v3).
Material(schema, card) ==
    [schema |-> schema, text |-> card.text,
     terms |-> IF schema = "opening" THEN None ELSE card.terms,
     support |-> IF schema = "v2" THEN card.support ELSE None]

Evaluated(rows) == {j \in Jobs : rows[j] # None}

\* revise: another material is another revision, and unsent rows of the older
\* ones never resurrect.
Revise(rows) ==
    [j \in Jobs |->
        LET seen == rows[j] # None /\ (revised[j] = <<>> \/
                        Last(revised[j]) # Material("v3", rows[j]))
        IN  IF seen THEN Append(revised[j], Material("v3", rows[j]))
            ELSE revised[j]]

Supersede(revs) ==
    [k \in RowKeys |->
        IF /\ revs[k.job] # revised[k.job]
           /\ intent[k].status \in {"pending", "leased", "failed"}
        THEN [intent[k] EXCEPT !.status = "superseded"]
        ELSE intent[k]]

-----------------------------------------------------------------------------
(* What the recipient last accepted, against what the review found.        *)

\* Payloads accepted for the baseline's revision that project to its material.
Proofs(revs, j, t) ==
    {card \in {intent[k].card : k \in {l \in RowKeys :
                  /\ l.job = j /\ l.target = t /\ l.sequence = deemed[j, t]
                  /\ intent[l].status = "accepted" /\ intent[l].tried}} \ {None} :
        Material(revs[j][deemed[j, t]].schema, card) = revs[j][deemed[j, t]]}

\* Fault: the terms are not compared.
UnchangedText(card, prior) == card.text = prior.text

Unchanged(card, prior) == Material("v3", card) = Material("v3", prior)

\* Terms the earlier schema had no witness of: hold rather than guess.
NewTerms(card, prior) == card.terms # None /\ prior.terms = None

BaselineState(revs, j, t, card) ==
    LET proofs == Proofs(revs, j, t) IN
    CASE deemed[j, t] = 0 -> "new"
      [] deemed[j, t] = Len(revs[j]) -> "delivered"
      [] deemed[j, t] \in 1..(Len(revs[j]) - 1) ->
           IF revs[j][deemed[j, t]].schema = "v3" THEN "changed"
           ELSE IF \E p \in proofs : Unchanged(card, p) THEN "adopted"
           ELSE IF \E p \in proofs : ~NewTerms(card, p) THEN "changed"
           ELSE "migration_review_required"

-----------------------------------------------------------------------------
(* _select_actions: the breadth caps, the shared slots and the one kept    *)
(* for a discovery.                                                        *)

\* Actions come before the rest, each by PriorityKey.
InPriority(rows, J) ==
    LET Before(i, j) == \/ Lane(rows[i]) = "action" /\ Lane(rows[j]) # "action"
                        \/ /\ (Lane(rows[i]) = "action") = (Lane(rows[j]) = "action")
                           /\ Precedence[i] < Precedence[j]
    IN  SetToSortSeq(J, Before)

HasRoom(rows, chosen, j) ==
    LET lane == Lane(rows[j]) IN
    /\ Cardinality({i \in chosen : Buyer[i] = Buyer[j]}) < BuyerCap
    /\ j \in Contracts /\ ContractCap > 0 =>
         Cardinality(chosen \cap Contracts) < ContractCap
    /\ Cardinality({i \in chosen : Lane(rows[i]) = lane})
         < IF lane = "action" THEN ActionSlots ELSE VerifySlots
    /\ Cardinality(chosen) < CardSlots

Select(rows, order) ==
    FoldLeft(LAMBDA chosen, j : IF HasRoom(rows, chosen, j) THEN chosen \cup {j}
                                ELSE chosen, {}, order)

\* The first discovery has a slot unless urgent existing work fills them all.
SelectActions(rows, J) ==
    LET order == InPriority(rows, J)
        discoveries == SelectSeq(order, LAMBDA j : Lane(rows[j]) = "action"
                                                   /\ ~HasFacts(rows[j]))
        ready == {j \in Select(rows, order) : Lane(rows[j]) = "action"}
        displaced == /\ ready # {} /\ Cardinality(ready) = ActionSlots
                     /\ \A j \in ready : HasFacts(rows[j]) /\ Urgent(rows[j])
        kept == IF ActionSlots = 0 \/ displaced THEN <<>>
                ELSE SubSeq(discoveries, 1, IF discoveries = <<>> THEN 0 ELSE 1)
    IN  Select(rows, kept \o SelectSeq(order, LAMBDA j : ~Contains(kept, j)))

SelectStatuses(rows, J) ==
    LET order == SetToSortSeq(J, LAMBDA i, j : Precedence[i] < Precedence[j])
    IN  {order[n] : n \in {m \in DOMAIN order : m <= StatusSlots}}

Selection(rows, J) ==
    LET statuses == {j \in J : Lane(rows[j]) = "status"}
        selected == SelectActions(rows, J \ statuses) \cup SelectStatuses(rows, statuses)
    IN  {j \in J : j \in selected}

\* The jobs a review stages for a target: nothing held, nothing recorded.
ToStage(rows, revs, t) ==
    Selection(rows,
      {j \in Evaluated(rows) :
         LET state == BaselineState(revs, j, t, rows[j]) IN
         /\ Lane(rows[j]) = "status" /\ ~HasFacts(rows[j]) => state # "new"
         /\ state \in {"new", "changed"}
         /\ \A k \in RowKeys : k.job = j /\ k.target = t /\ k.sequence = Len(revs[j])
                              => intent[k].status = "absent"})

Adopt(rows, revs) ==
    [b \in Jobs \X Targets |->
        IF /\ b[1] \in Evaluated(rows)
           /\ BaselineState(revs, b[1], b[2], rows[b[1]]) = "adopted"
        THEN Len(revs[b[1]]) ELSE deemed[b]]

-----------------------------------------------------------------------------
(* The drafts.                                                             *)

IsCurrent(revs, k) == k.sequence = Len(revs[k.job])
CurrentMembers(revs, d) == {k \in d.members : IsCurrent(revs, k)}

\* prove_unsent_draft: the draft and every member of it, current or not, are
\* without an attempt and without a receipt.
ProvenUnsent(tables, d, statuses) ==
    /\ d.status \in statuses /\ ~d.tried
    /\ \A k \in d.members :
         /\ ~tables.intent[k].tried
         /\ tables.intent[k].status \notin
              {"leased", "sending", "accepted", "uncertain"}
         /\ tables.deemed[k.job, k.target] # k.sequence

\* retire_obsolete_previews, which cancels through _stale.
Retired(tables, d) ==
    ProvenUnsent(tables, d, {"pending"}) /\ CurrentMembers(tables.revised, d) = {}

Retire(tables) ==
    LET gone == {d \in DOMAIN tables.drafts : Retired(tables, tables.drafts[d])}
    IN  [tables EXCEPT
           !.drafts = [d \in DOMAIN tables.drafts |-> IF d \in gone
              THEN [tables.drafts[d] EXCEPT !.status = "cancelled"] ELSE tables.drafts[d]],
           !.intent = [k \in RowKeys |->
              IF \E d \in gone : k \in tables.drafts[d].members
              THEN [tables.intent[k] EXCEPT !.status = "superseded"] ELSE tables.intent[k]]]

Replacement(k) == [k EXCEPT !.generation = k.generation + 1]
Former(k) == [k EXCEPT !.generation = k.generation - 1]

\* The row is, or may be about to be, with the recipient.
InFlight(tables, k) ==
    \E l \in RowKeys : /\ l.job = k.job /\ l.target = k.target
                    /\ tables.intent[l].status \in {"leased", "sending", "uncertain"}

\* A member a plan may recover: of the material just reviewed, never tried,
\* the latest generation, not accepted.
Recoverable(tables, rows, k) ==
    /\ rows[k.job] # None /\ IsCurrent(tables.revised, k)
    /\ tables.intent[k].status \in {"pending", "failed"} /\ ~tables.intent[k].tried
    /\ k.generation < MaxReissues => tables.intent[Replacement(k)].status = "absent"
    /\ Unchanged(tables.intent[k].card, rows[k.job])
    /\ tables.deemed[k.job, k.target] # k.sequence

\* _preparable of a row that no back-off delays.
Free(tables, k) ==
    /\ tables.intent[k].status = "pending" /\ IsCurrent(tables.revised, k)
    /\ ~InFlight(tables, k)
    /\ \A d \in Range(tables.drafts) :
         /\ k \notin d.members
         /\ d.status \in {"pending", "leased", "uncertain"} =>
              \A m \in d.members : ~(m.job = k.job /\ m.target = k.target)

\* Fault: a plan may leave out current members of a draft it recomposes.
NamesSome(tables, recover, ids) ==
    \A d \in recover : ids \cap CurrentMembers(tables.revised, tables.drafts[d]) # {}

\* The plan names exactly the current members of the drafts it recomposes.
NamesAll(tables, recover, ids) ==
    ids = UNION {CurrentMembers(tables.revised, tables.drafts[d]) : d \in recover}

\* reissue_unsent: the drafts are abandoned, each named row is superseded by
\* another generation of itself.
Reissue(tables, recover, ids) ==
    LET released == UNION {tables.drafts[d].members : d \in recover} IN
    [tables EXCEPT
       !.drafts = [d \in DOMAIN tables.drafts |-> IF d \in recover
          THEN [tables.drafts[d] EXCEPT !.status = "abandoned"] ELSE tables.drafts[d]],
       !.intent = [k \in RowKeys |->
          IF k \in ids THEN [tables.intent[k] EXCEPT !.status = "superseded"]
          ELSE IF \E o \in ids : k = Replacement(o)
          THEN PendingRow(tables.intent[Former(k)].card)
          ELSE IF k \in released /\ tables.intent[k].status \notin {"superseded", "accepted"}
          THEN [tables.intent[k] EXCEPT !.status = "failed"]
          ELSE tables.intent[k]]]

\* The rows of target t to freeze: what the run staged, or with a plan the
\* union of it and what the plan asks for, capped together.
ToFreeze(tables, rows, staged, requested, t) ==
    LET ready == {k \in staged \cup requested : k.target = t /\ Free(tables, k)}
        shown == Selection(rows, {k.job : k \in ready})
    IN  IF requested = {} THEN ready ELSE {k \in ready : k.job \in shown}

\* The rows a run stages, and the tables once it has retired what is obsolete.
Staged(rows, revs) ==
    {k \in RowKeys : /\ k.generation = 1 /\ k.sequence = Len(revs[k.job])
                     /\ k.job \in ToStage(rows, revs, k.target)}

StageRun(rows, revs, staged) ==
    LET superseded == Supersede(revs) IN
    Retire([revised |-> revs, deemed |-> Adopt(rows, revs), drafts |-> drafts,
            intent |-> [k \in RowKeys |-> IF k \in staged THEN PendingRow(rows[k.job])
                                         ELSE superseded[k]]])

\* A draft for every target that has rows to freeze.
Composition(tables, rows, staged, asked) ==
    LET Frozen(t) == ToFreeze(tables, rows, staged, asked, t) IN
    tables.drafts \o
      SetToSeq({[target |-> t, members |-> Frozen(t), status |-> "pending",
                 tried |-> FALSE] : t \in {u \in Targets : Frozen(u) # {}}})

\* The plan: to recompose the drafts in recover by naming their rows ids, and
\* to take in the pending rows extra.
Planned(rows, run, done, recover, ids, extra) ==
    /\ \A d \in recover :
         ProvenUnsent(run, run.drafts[d], {"pending", "abandoned", "cancelled"})
    /\ NamesAll(run, recover, ids)
    /\ recover # {} => ids # {}
    /\ \A k \in ids : /\ Recoverable(run, rows, k) /\ ~InFlight(run, k)
                      /\ k.generation < MaxReissues
    /\ \A k \in extra : Recoverable(run, rows, k) /\ Free(done, k)

\* write_handoff_review, after the run and with its drafts recomposed.
WriteReview(rows, staged, run, done, recover, ids, extra) ==
    /\ reviews < MaxReviews
    /\ Planned(rows, run, done, recover, ids, extra)
    /\ revised' = run.revised
    /\ deemed' = run.deemed
    /\ intent' = done.intent
    /\ drafts' = Composition(done, rows, staged, extra \cup {Replacement(k) : k \in ids})
    /\ reviews' = reviews + 1
    /\ UNCHANGED lastHeard

Recompose(rows, staged, run, recover, ids, extra) ==
    WriteReview(rows, staged, run, Reissue(run, recover, ids), recover, ids, extra)

Review(rows, recover, ids, extra) ==
    LET revs == Revise(rows)
        staged == Staged(rows, revs)
    IN  Recompose(rows, staged, StageRun(rows, revs, staged), recover, ids, extra)

-----------------------------------------------------------------------------
(* What the transport makes of a draft between two reviews.                *)

WithMembers(d, status) ==
    [k \in RowKeys |-> IF k \in drafts[d].members
                       /\ intent[k].status \notin {"superseded", "accepted"}
                    THEN [intent[k] EXCEPT !.status = status, !.tried = TRUE]
                    ELSE intent[k]]

\* claim of a draft that has gone stale: cancelled, its current rows pending.
CancelStale(d) ==
    /\ drafts[d].status = "pending"
    /\ CurrentMembers(revised, drafts[d]) # drafts[d].members
    /\ drafts' = [drafts EXCEPT ![d].status = "cancelled"]
    /\ intent' = [k \in RowKeys |->
         IF k \in drafts[d].members
         THEN [intent[k] EXCEPT !.status = IF IsCurrent(revised, k) THEN "pending"
                                           ELSE "superseded"]
         ELSE intent[k]]
    /\ UNCHANGED <<revised, deemed, lastHeard, reviews>>

\* The answer to an attempt, at once or by a later reconciliation.
Settle(d, outcome) ==
    /\ drafts' = [drafts EXCEPT ![d].status = outcome, ![d].tried = TRUE]
    /\ intent' = WithMembers(d, outcome)
    /\ LET newer == {k \in drafts[d].members : k.sequence > deemed[k.job, k.target]}
           Of(b) == {k \in newer : outcome = "accepted" /\ b = <<k.job, k.target>>}
       IN  /\ deemed' = [b \in Jobs \X Targets |->
                         IF Of(b) = {} THEN deemed[b] ELSE (CHOOSE k \in Of(b) : TRUE).sequence]
           /\ lastHeard' = [b \in Jobs \X Targets |->
                          IF Of(b) = {} THEN lastHeard[b] ELSE intent[CHOOSE k \in Of(b) : TRUE].card]
    /\ UNCHANGED <<revised, reviews>>

\* dispatch_envelope of a draft that is current throughout.
Dispatch(d, outcome) ==
    /\ drafts[d].status = "pending"
    /\ CurrentMembers(revised, drafts[d]) = drafts[d].members
    /\ Settle(d, outcome)

\* reconcile_part of an uncertain attempt.
Reconcile(d, outcome) ==
    /\ drafts[d].status = "uncertain"
    /\ Settle(d, outcome)

-----------------------------------------------------------------------------
\* The past of a job, as code of an earlier material schema left it behind.
HandoffInit ==
    \E past \in Pasts :
      LET b(k) == past[k.job] # None /\ k.sequence = 1 /\ k.generation = 1 IN
      /\ revised = [j \in Jobs |-> IF past[j] = None THEN <<>>
                                   ELSE <<Material(past[j].schema, past[j].card)>>]
      /\ intent = [k \in RowKeys |->
           IF b(k) THEN [status |-> "accepted", tried |-> TRUE,
                         card |-> IF past[k.job].kept THEN past[k.job].card ELSE None]
           ELSE NoRow]
      /\ deemed = [b2 \in Jobs \X Targets |-> IF past[b2[1]] = None THEN 0 ELSE 1]
      /\ lastHeard = [b2 \in Jobs \X Targets |->
                    IF past[b2[1]] = None THEN None ELSE past[b2[1]].card]
      /\ drafts = <<>>
      /\ reviews = 0

HandoffNext ==
    \/ \E rows \in Finds, recover \in SUBSET DOMAIN drafts :
         \E ids \in SUBSET UNION {drafts[d].members : d \in recover},
            extra \in SUBSET {k \in RowKeys : intent[k].status = "pending"} :
           Review(rows, recover, ids, extra)
    \/ \E d \in DOMAIN drafts :
         \/ CancelStale(d)
         \/ \E o \in {"accepted", "pending", "uncertain", "failed"} : Dispatch(d, o)
         \/ \E o \in {"accepted", "pending"} : Reconcile(d, o)

HandoffSpec == HandoffInit /\ [][HandoffNext]_handoffVars

-----------------------------------------------------------------------------
(* Properties.                                                             *)

\* A job whose current revision counts as delivered to a target, because it
\* was sent or because an older acceptance was adopted for it, is one whose
\* text and terms the target heard of last: adoption skips no news
\* (handoff_signal.py:118, _baseline_state).
DeliveredIsHeard ==
    \A b \in Jobs \X Targets :
        LET last == Last(revised[b[1]]) IN
        deemed[b] > 0 /\ deemed[b] = Len(revised[b[1]]) =>
          Material(last.schema, lastHeard[b]) = last

\* A signal of the current revision that was never attempted is not given up:
\* its latest generation stays pending through retirement and reissue
\* (handoff_reissue.py:125, "Omitted current members would otherwise become
\* failed").
NothingCurrentGivenUp ==
    \A k \in RowKeys :
        /\ IsCurrent(revised, k) /\ intent[k].status # "absent" /\ ~intent[k].tried
        /\ k.generation < MaxReissues => intent[Replacement(k)].status = "absent"
        => intent[k].status = "pending"
=============================================================================
