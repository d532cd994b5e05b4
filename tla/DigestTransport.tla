--------------------------- MODULE DigestTransport ----------------------------
(***************************************************************************)
(* delivery_transport.py: pending intents frozen into digest envelopes,    *)
(* claimed and sent part by part by senders (dispatch_envelope), with the  *)
(* operator's reviewed reconciliation, abandonment and reissue.  It works  *)
(* on the same intents as the couriers of DeliveryOutbox.                  *)
(***************************************************************************)
EXTENDS DeliveryOutbox

Members(e) == envelopes[e].members
PartNumbers(e) == DOMAIN parts[e]

\* The first part the provider has not accepted yet, if any.
NextPart(e) ==
    {p \in PartNumbers(e) :
        /\ parts[e][p].status # "accepted"
        /\ \A q \in PartNumbers(e) : q < p => parts[e][q].status = "accepted"}

AllCurrent(e) == \A k \in Members(e) : IsCurrent(k)

\* Something of the envelope reached the provider, or may have.
Partial(e) ==
    \E p \in PartNumbers(e) :
        parts[e][p].status \in {"accepted", "sending", "uncertain"}

\* _stale: an obsolete envelope is cancelled and its rows released, unless a
\* part of it may have been delivered: then it waits for a reviewer.
RetireStale(e) ==
    /\ ~AllCurrent(e)
    /\ envelopes' = EnvelopeState(e, IF Partial(e) THEN "uncertain"
                                     ELSE "cancelled")
    /\ intents' =
         IF Partial(e) THEN SetIntents(e, "uncertain")
         ELSE [k \in IntentKeys |->
                 IF k \in Members(e)
                 THEN WithStatus(intents[k], IF IsCurrent(k) THEN "pending"
                                             ELSE "superseded")
                 ELSE intents[k]]

-----------------------------------------------------------------------------
\* prepare: freeze the chosen rows into the next envelope.  An email is one
\* part, a Telegram digest is split into n.
Prepare(e, d, K, n) ==
    /\ envelopes[e].status = "absent"
    /\ \A f \in EnvelopeIds : f < e => envelopes[f].status # "absent"
    /\ K # {}
    /\ \A k \in K : Preparable(k, d)
    /\ Channel[d] = "email" => n = 1
    /\ envelopes' = [envelopes EXCEPT
                       ![e] = [status |-> "pending", members |-> K,
                               token |-> None]]
    /\ parts' = [parts EXCEPT
                   ![e] = [p \in 1..n |-> [status |-> "pending",
                                           attempts |-> 0]]]
    /\ UNCHANGED <<revisions, lastAsOf, staged, legacy, intents, baselines,
                   courier, sender, mailed, posted>>

\* _expire, run by expire_leases and first thing by every handler below: a
\* part whose send was under way may have been delivered.
ExpireEnvelope(e) ==
    LET sending == {p \in PartNumbers(e) : parts[e][p].status = "sending"}
        st == IF sending = {} THEN "pending" ELSE "uncertain"
    IN  /\ envelopes[e].status = "leased"
        /\ parts' = [parts EXCEPT
                       ![e] = [p \in PartNumbers(e) |->
                                 IF p \in sending
                                 THEN [@[p] EXCEPT !.status = "uncertain"]
                                 ELSE @[p]]]
        /\ envelopes' = EnvelopeState(e, st)
        /\ intents' = SetIntents(e, st)
        /\ UNCHANGED <<revisions, lastAsOf, staged, legacy, baselines, courier,
                       sender, mailed, posted>>

\* claim: lease the whole envelope for one part.
Claim(w, e) ==
    /\ sender[w].pc = "idle"
    /\ envelopes[e].status = "pending"
    /\ AllCurrent(e)
    /\ \A k \in Members(e) : ~SubjectReserved(k, e)
    /\ NextPart(e) # {}
    /\ envelopes' = [envelopes EXCEPT ![e] = Leased(@, w)]
    /\ intents' = [k \in IntentKeys |->
                     IF k \in Members(e) THEN Leased(intents[k], w)
                     ELSE intents[k]]
    /\ sender' = [sender EXCEPT ![w].pc = "claimed", ![w].envelope = e]
    /\ UNCHANGED <<revisions, lastAsOf, staged, legacy, baselines, parts,
                   courier, mailed, posted>>

\* claim of an envelope that went stale while it waited.
ClaimStale(e) ==
    /\ envelopes[e].status = "pending"
    /\ RetireStale(e)
    /\ UNCHANGED <<revisions, lastAsOf, staged, legacy, baselines, parts,
                   courier, sender, mailed, posted>>

Owns(w) ==
    LET e == sender[w].envelope
    IN  envelopes[e].status = "leased" /\ envelopes[e].token = w

\* begin_part: check the claim and the freshness again, then start the send.
BeginPart(w, p) ==
    LET e == sender[w].envelope
    IN  /\ sender[w].pc = "claimed"
        /\ Owns(w)
        /\ AllCurrent(e)
        /\ p \in NextPart(e)
        /\ parts[e][p].status = "pending"
        /\ IF parts[e][p].attempts >= MaxAttempts
           THEN /\ envelopes' = EnvelopeState(e, "failed")
                /\ intents' = SetIntents(e, "failed")
                /\ sender' = [sender EXCEPT ![w] = IdleSender]
                /\ UNCHANGED parts
           ELSE /\ parts' = [parts EXCEPT ![e][p] = Started(@)]
                /\ intents' = [k \in IntentKeys |->
                                 IF k \in Members(e) THEN Started(intents[k])
                                 ELSE intents[k]]
                /\ sender' = [sender EXCEPT ![w].pc = "sending",
                                            ![w].ordinal = p]
                /\ UNCHANGED envelopes
        /\ UNCHANGED <<revisions, lastAsOf, staged, legacy, baselines, courier,
                       mailed, posted>>

\* begin_part of an envelope overtaken by a newer revision since its claim.
BeginPartStale(w) ==
    LET e == sender[w].envelope
    IN  /\ sender[w].pc = "claimed"
        /\ Owns(w)
        /\ RetireStale(e)
        /\ sender' = [sender EXCEPT ![w] = IdleSender]
        /\ UNCHANGED <<revisions, lastAsOf, staged, legacy, baselines, parts,
                       courier, mailed, posted>>

SenderAnswered(w, a) ==
    LET e == sender[w].envelope
        p == sender[w].ordinal
    IN  /\ sender[w].pc = "sending"
        /\ sender' = [sender EXCEPT ![w].pc = "answered",
                                    ![w].receipt = a.receipt]
        /\ posted' = IF a.arrives THEN [posted EXCEPT ![e][p] = @ + 1]
                     ELSE posted
        /\ UNCHANGED <<tables, courier, mailed>>

\* Fault: an unsure send is retried.
PartOutcomeRetriesUnsure(e, p, outcome) ==
    CASE outcome = "accepted" -> "accepted"
      [] outcome = "permanent_failure" -> "failed"
      [] OTHER -> IF parts[e][p].attempts >= MaxAttempts THEN "failed"
                  ELSE "pending"

PartOutcome(e, p, outcome) ==
    CASE outcome = "accepted" -> "accepted"
      [] outcome = "uncertain" -> "uncertain"
      [] outcome = "permanent_failure" -> "failed"
      [] outcome = "not_sent" ->
           IF parts[e][p].attempts >= MaxAttempts THEN "failed" ELSE "pending"

\* Fault: one accepted part makes the whole digest delivered.
OthersAcceptedAssumed(e, p) == TRUE

OthersAccepted(e, p) ==
    \A q \in PartNumbers(e) \ {p} : parts[e][q].status = "accepted"

\* _settle_part: the part's receipt decides the envelope and all its rows.
SettlePart(e, p, outcome) ==
    LET st == PartOutcome(e, p, outcome)
        complete == st = "accepted" /\ OthersAccepted(e, p)
        whole == IF st \in {"uncertain", "failed"} THEN st ELSE "pending"
    IN  /\ parts' = [parts EXCEPT ![e][p].status = st]
        /\ IF complete
           THEN /\ envelopes' = EnvelopeState(e, "accepted")
                /\ intents' = [k \in IntentKeys |->
                                 IF k \in Members(e)
                                 THEN WithStatus(intents[k], "accepted")
                                 ELSE intents[k]]
                /\ baselines' = Accept(Members(e))
           ELSE /\ envelopes' = EnvelopeState(e, whole)
                /\ intents' = SetIntents(e, whole)
                /\ UNCHANGED baselines

\* finish_part: only the holder of a live lease may settle its part.
FinishPart(w) ==
    LET e == sender[w].envelope
        p == sender[w].ordinal
    IN  /\ sender[w].pc = "answered"
        /\ Owns(w)
        /\ parts[e][p].status = "sending"
        /\ SettlePart(e, p, sender[w].receipt)
        /\ sender' = [sender EXCEPT ![w] = IdleSender]
        /\ UNCHANGED <<revisions, lastAsOf, staged, legacy, courier, mailed,
                       posted>>

\* The lease lapsed under the sender: begin_part returns nothing, finish_part
\* refuses the late receipt.
SenderRefused(w) ==
    LET e == sender[w].envelope
        p == sender[w].ordinal
    IN  /\ \/ sender[w].pc = "claimed" /\ ~Owns(w)
           \/ /\ sender[w].pc = "answered"
              /\ ~(Owns(w) /\ parts[e][p].status = "sending")
        /\ sender' = [sender EXCEPT ![w] = IdleSender]
        /\ UNCHANGED <<tables, courier, mailed, posted>>

SenderDies(w) ==
    /\ sender[w].pc # "idle"
    /\ sender' = [sender EXCEPT ![w] = IdleSender]
    /\ UNCHANGED <<tables, courier, mailed, posted>>

-----------------------------------------------------------------------------
(* The operator.  A reviewer acts on what the provider did, and only once  *)
(* no call about the envelope is still running.                            *)

Quiet(e) ==
    \A w \in Senders : ~(sender[w].pc = "sending" /\ sender[w].envelope = e)

ReconcilePart(e, p, outcome) ==
    /\ envelopes[e].status = "uncertain"
    /\ p \in PartNumbers(e)
    /\ parts[e][p].status = "uncertain"
    /\ Quiet(e)
    /\ outcome = IF posted[e][p] > 0 THEN "accepted" ELSE "not_sent"
    /\ SettlePart(e, p, outcome)
    /\ UNCHANGED <<revisions, lastAsOf, staged, legacy, courier, sender,
                   mailed, posted>>

Abandon(e) ==
    /\ envelopes[e].status \in {"pending", "uncertain", "failed", "cancelled"}
    /\ Quiet(e)
    /\ envelopes' = EnvelopeState(e, "abandoned")
    /\ intents' = SetIntents(e, "failed")
    /\ UNCHANGED <<revisions, lastAsOf, staged, legacy, baselines, parts,
                   courier, sender, mailed, posted>>

\* Fault: the proof looks at statuses only, not at attempts and parts.
ProvedUnsentByStatus(e) ==
    /\ envelopes[e].status \in {"pending", "abandoned", "cancelled"}
    /\ \A k \in Members(e) :
         intents[k].status \notin {"leased", "sending", "accepted",
                                  "uncertain", "legacy_hold"}

\* prove_unsent_draft: neither the draft nor any of its rows was ever tried.
ProvedUnsent(e) ==
    /\ envelopes[e].status \in {"pending", "abandoned", "cancelled"}
    /\ \A p \in PartNumbers(e) : parts[e][p] = [status |-> "pending", attempts |-> 0]
    /\ \A k \in Members(e) :
         /\ intents[k].attempts = 0
         /\ intents[k].status \notin {"leased", "sending", "accepted",
                                      "uncertain", "legacy_hold"}
         /\ baselines[k.subject, k.dest] # k.sequence

NextGeneration(k) == [k EXCEPT !.generation = @ + 1]

\* reissue_unsent: rows of untried drafts get a linked next generation; the
\* drafts are abandoned, whatever other rows they hold.
ReissueUnsent(E, K) ==
    /\ E # {} /\ K # {}
    /\ \A e \in E : ProvedUnsent(e)
    /\ K \subseteq UNION {Members(e) : e \in E}
    /\ \A k \in K :
         /\ IsCurrent(k)
         /\ k.generation < MaxGeneration
         /\ intents[NextGeneration(k)].status = "absent"
         /\ intents[k].status \in {"pending", "failed"}
         /\ ~Busy(k)
    /\ envelopes' = [e \in EnvelopeIds |->
                       IF e \in E THEN WithStatus(envelopes[e], "abandoned")
                       ELSE envelopes[e]]
    /\ intents' =
         [k \in IntentKeys |->
            IF k \in K THEN WithStatus(intents[k], "superseded")
            ELSE IF \E old \in K : k = NextGeneration(old)
                 THEN WithStatus(NoIntent, "pending")
            ELSE IF (\E e \in E : /\ envelopes[e].status # "abandoned"
                                  /\ k \in Members(e))
                    /\ intents[k].status \notin {"superseded", "accepted"}
                 THEN WithStatus(intents[k], "failed")
            ELSE intents[k]]
    /\ UNCHANGED <<revisions, lastAsOf, staged, legacy, baselines, parts,
                   courier, sender, mailed, posted>>

-----------------------------------------------------------------------------
SenderStep(w) ==
    \/ \E e \in EnvelopeIds : Claim(w, e)
    \/ \E p \in Ordinals : BeginPart(w, p)
    \/ BeginPartStale(w)
    \/ \E a \in Answers : SenderAnswered(w, a)
    \/ FinishPart(w)
    \/ SenderRefused(w)

PrepareSome ==
    \E e \in EnvelopeIds, d \in Dests, n \in Ordinals :
        \E K \in SUBSET {k \in IntentKeys : Preparable(k, d)} :
            Prepare(e, d, K, n)

ReissueSome ==
    \E E \in SUBSET EnvelopeIds \ {{}} :
        \E K \in SUBSET UNION {Members(e) : e \in E} : ReissueUnsent(E, K)

Operator ==
    \/ \E e \in EnvelopeIds, p \in Ordinals, o \in {"accepted", "not_sent"} :
          ReconcilePart(e, p, o)
    \/ \E e \in EnvelopeIds : Abandon(e)
    \/ ReissueSome

TransportNext ==
    \/ PrepareSome
    \/ \E e \in EnvelopeIds : ExpireEnvelope(e) \/ ClaimStale(e)
    \/ \E w \in Senders : SenderStep(w) \/ SenderDies(w)
    \/ Operator

Next == OutboxNext \/ TransportNext

Spec == Init /\ [][Next]_vars
-----------------------------------------------------------------------------
(* Properties.                                                             *)

\* Type correctness of the tables, the processes and the history.
TypeOK ==
    /\ revisions \in [Streams -> Seq(Materials)]
    /\ lastAsOf \in [Streams -> Nat]
    /\ staged \subseteq Runs
    /\ legacy \subseteq LegacyReceipts
    /\ intents \in [IntentKeys -> IntentRows]
    /\ baselines \in [Streams \X Dests -> Nat]
    /\ envelopes \in [EnvelopeIds -> EnvelopeRows]
    /\ parts \in [EnvelopeIds -> Seq(PartRows)]
    /\ courier \in [Couriers -> CourierRows]
    /\ sender \in [Senders -> SenderRows]
    /\ mailed \in [IntentKeys -> Nat]
    /\ posted \in [EnvelopeIds -> [Ordinals -> Nat]]

InFlight == {"leased", "sending", "uncertain"}
SameRevision(k, l) == SameStream(k, l) /\ k.sequence = l.sequence

\* The provider took something that carries the row.
Touched(k) ==
    \/ mailed[k] > 0
    \/ \E e \in EnvelopeIds : /\ k \in Members(e)
                              /\ \E p \in Ordinals : posted[e][p] > 0

\* No silent duplicate: no message is taken twice, and no two rows that stand
\* for the same revision at the same destination are both taken, whatever the
\* crashes, lapsed leases, lost answers, retries, reviewed answers, reissues,
\* and whichever of the two delivery paths each row went.
DeliveredOnce ==
    /\ \A k \in IntentKeys : mailed[k] <= 1
    /\ \A e \in EnvelopeIds, p \in Ordinals : posted[e][p] <= 1
    /\ \A k, l \in IntentKeys :
         SameRevision(k, l) /\ Touched(k) /\ Touched(l) => k = l
    /\ \A k \in IntentKeys : mailed[k] > 0 => ~Reserved(k)

\* No silent loss: a row that counts as delivered after an attempt was taken
\* whole, every part of its digest.  (Accepted with no attempt: V4.2 had sent
\* it before the cutover.)
AcceptedWasDelivered ==
    \A k \in IntentKeys :
        intents[k].status = "accepted" /\ intents[k].attempts > 0 =>
            \/ mailed[k] = 1
            \/ \E e \in EnvelopeIds :
                 k \in Members(e) /\ \A p \in PartNumbers(e) : posted[e][p] = 1

\* Two rows of one job and destination are never in the hands of two processes
\* at once, nor is one sent while the fate of another is unknown.
OneInFlight ==
    \A k, l \in IntentKeys :
        SameStream(k, l) /\ intents[k].status \in InFlight
        /\ intents[l].status \in InFlight => k = l

\* A closure or a block is announced only where an earlier version of the job
\* was delivered: the recipient knows what is being closed.
StatusFollowsDelivery ==
    \A k \in IntentKeys :
        /\ k.subject \in Subjects
        /\ intents[k].status # "absent"
        /\ revisions[k.subject][k.sequence] \notin ActiveMaterials \cup FactMaterials
        => \E l \in IntentKeys : /\ SameStream(k, l)
                                 /\ l.sequence < k.sequence
                                 /\ intents[l].status = "accepted"

\* What is free to be sent is the job's current revision: a card overtaken by
\* a newer observation does not resurrect, not even through a retry.
PendingIsCurrent ==
    \A k \in IntentKeys :
        intents[k].status = "pending" /\ ~Reserved(k) => IsCurrent(k)

\* With one destination per channel, the first occurrence of a job that V4.2
\* already sent on that channel is never sent again.
LegacyNotResent ==
    \A h \in LegacyReceipts, k \in IntentKeys :
        /\ k.subject = h[1] /\ Channel[k.dest] = h[2]
        /\ \A l \in IntentKeys : SameStream(k, l) /\ l.sequence < k.sequence
                                  => intents[l].status = "absent"
        => ~Touched(k)

\* A delivered row is delivered for good: nothing, not an abandonment, a
\* reissue, a late answer or a newer revision, makes it sendable again.
DeliveredIsFinal ==
    [][\A k \in IntentKeys : intents[k].status = "accepted" =>
          intents'[k].status = "accepted"]_vars

\* deliver_destination's promise: cancelling a stale envelope releases its
\* jobs, so no current, unsent row is left where no run will prepare it.
CancelReleases ==
    \A e \in EnvelopeIds, k \in IntentKeys :
        envelopes[e].status = "cancelled" /\ k \in Members(e) =>
            ~(intents[k].status = "pending" /\ IsCurrent(k))

\* The README's promise: what reaches a recipient about a job differs from what
\* reached that recipient last; a job with nothing changed stays quiet.
OnlyRealChanges ==
    \A k, l \in IntentKeys :
        /\ SameStream(k, l) /\ k.sequence < l.sequence
        /\ Touched(k) /\ Touched(l)
        /\ ~\E m \in IntentKeys : /\ SameStream(k, m) /\ Touched(m)
                                  /\ k.sequence < m.sequence
                                  /\ m.sequence < l.sequence
        => revisions[k.subject][k.sequence] # revisions[l.subject][l.sequence]
=============================================================================
