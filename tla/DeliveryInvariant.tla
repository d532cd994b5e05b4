-------------------------- MODULE DeliveryInvariant ---------------------------
(***************************************************************************)
(* The inductive invariant behind the properties of DigestTransport, in    *)
(* named parts, and what the delivery implements: DeliveryPromise.         *)
(***************************************************************************)
EXTENDS DigestTransport

\* An envelope that exists has members and numbered parts.
PartsNumbered ==
    \A e \in EnvelopeIds :
        /\ PartNumbers(e) \subseteq Ordinals
        /\ (envelopes[e].status = "absent") <=> (Members(e) = {})
        /\ (envelopes[e].status = "absent") <=> (PartNumbers(e) = {})

\* A row that exists is of a revision that exists; a row that was never
\* attempted, or does not exist, has no attempt.
RowsExist ==
    \A k \in IntentKeys :
        /\ intents[k].status # "absent" => k.sequence <= CurrentRevision(k.subject)
        /\ intents[k].status \in {"absent", "legacy_hold"} => intents[k].attempts = 0

\* Every row belongs to at most one envelope.
MembersDisjoint ==
    \A e, f \in EnvelopeIds : \A k \in Members(e) \cap Members(f) : e = f

\* An envelope holds one row per stream.
MembersDistinct ==
    \A e \in EnvelopeIds : \A k, l \in Members(e) : SameStream(k, l) => k = l

\* The statuses a member can have under its envelope's.
MemberStatus(st) ==
    CASE st = "pending" -> {"pending", "superseded"}
      [] st = "leased" -> {"leased", "sending", "superseded"}
      [] st = "accepted" -> {"accepted"}
      [] st = "uncertain" -> {"uncertain", "superseded"}
      [] st = "failed" -> {"failed", "superseded"}
      [] st = "cancelled" -> {"pending", "superseded"}
      [] st = "abandoned" -> {"failed", "superseded"}
      [] OTHER -> {}

MembersFollow ==
    \A e \in EnvelopeIds : \A k \in Members(e) :
        intents[k].status \in MemberStatus(envelopes[e].status)

\* A row from which something may yet be sent or turn out to have been.
Hot(k) ==
    \/ ~Reserved(k) /\ intents[k].status \in InFlight
    \/ \E e \in EnvelopeIds :
         k \in Members(e) /\ envelopes[e].status \in {"pending", "leased", "uncertain"}

OneHot == \A k, l \in IntentKeys : SameStream(k, l) /\ Hot(k) /\ Hot(l) => k = l

\* A row free to be claimed, or claimed on its own, or held, is current.
FreeIsCurrent ==
    \A k \in IntentKeys :
        /\ ~Reserved(k) /\ intents[k].status \in {"pending", "leased"} => IsCurrent(k)
        /\ intents[k].status = "legacy_hold" => IsCurrent(k) /\ ~Reserved(k)

\* A row that a later generation replaced can never be sent again.
Replaced(k) ==
    \E l \in IntentKeys : /\ SameRevision(k, l) /\ k.generation < l.generation
                          /\ intents[l].status # "absent"

ReplacedIsRetired ==
    \A k \in IntentKeys :
        Replaced(k) =>
            /\ intents[k].status = "superseded"
            /\ \A e \in EnvelopeIds :
                 k \in Members(e) => envelopes[e].status = "abandoned"

\* Nor was it ever sent: it is in a draft that was proved untried.
ReplacedIsUnsent ==
    \A k \in IntentKeys : Replaced(k) => Reserved(k) /\ ~Touched(k)

\* Couriers and what the provider took from them; a call about a row is made by
\* one of them at a time.
CourierKnown(c) ==
    LET k == courier[c].key
    IN  /\ courier[c].pc = "sending" =>
             /\ mailed[k] = 0 /\ ~Reserved(k)
             /\ intents[k].status \in {"sending", "uncertain"}
             /\ intents[k].status = "sending" => intents[k].token = c
        /\ /\ courier[c].pc = "answered" /\ ~Reserved(k)
           /\ intents[k].status = "sending" /\ intents[k].token = c
           => /\ courier[c].receipt = "accepted" => mailed[k] = 1
              /\ courier[c].receipt \in {"not_sent", "permanent_failure"}
                   => mailed[k] = 0

CourierKnows ==
    /\ \A c \in Couriers : CourierKnown(c)
    /\ \A b, c \in Couriers :
         /\ courier[b].pc = "sending" /\ courier[c].pc = "sending"
         /\ courier[b].key = courier[c].key
         => b = c

\* A row taken on its own is never free again.
MailedState ==
    \A k \in IntentKeys :
        mailed[k] > 0 => /\ mailed[k] = 1 /\ ~Reserved(k)
                         /\ intents[k].status \in {"sending", "uncertain", "accepted"}

\* Senders and what the provider took from them; a call about an envelope is
\* made by one of them at a time, and starts with no part under way.
SenderKnown(w) ==
    LET e == sender[w].envelope
        p == sender[w].ordinal
    IN  /\ sender[w].pc = "claimed" /\ Owns(w) =>
             \A q \in PartNumbers(e) : parts[e][q].status # "sending"
        /\ sender[w].pc \in {"sending", "answered"} => p \in PartNumbers(e)
        /\ sender[w].pc = "sending" =>
             /\ posted[e][p] = 0
             /\ \/ parts[e][p].status = "sending" /\ Owns(w)
                \/ parts[e][p].status = "uncertain" /\ envelopes[e].status = "uncertain"
        /\ sender[w].pc = "answered" /\ Owns(w) /\ parts[e][p].status = "sending" =>
             /\ sender[w].receipt = "accepted" => posted[e][p] = 1
             /\ sender[w].receipt \in {"not_sent", "permanent_failure"}
                  => posted[e][p] = 0

SenderKnows ==
    /\ \A w \in Senders : SenderKnown(w)
    /\ \A v, w \in Senders :
         /\ sender[v].pc = "sending" /\ sender[w].pc = "sending"
         /\ sender[v].envelope = sender[w].envelope
         => v = w

\* A part the provider took is not waiting to be sent; an accepted one was
\* taken; one part of an envelope is sent at a time, under its lease.
PostedState ==
    \A e \in EnvelopeIds, p \in Ordinals :
        /\ posted[e][p] > 0 =>
             /\ posted[e][p] = 1 /\ p \in PartNumbers(e)
             /\ parts[e][p].status \in {"sending", "uncertain", "accepted"}
        /\ p \in PartNumbers(e) /\ parts[e][p].status = "accepted" => posted[e][p] = 1
        /\ p \in PartNumbers(e) /\ parts[e][p].status = "sending" =>
             /\ envelopes[e].status = "leased"
             /\ \A q \in PartNumbers(e) \ {p} : parts[e][q].status # "sending"

\* Nothing newer than a hot row, nor anything else of its revision, arrived or
\* was recorded at its destination.
HotIsNewest ==
    \A k, l \in IntentKeys :
        Hot(k) /\ SameStream(k, l) =>
            /\ baselines[k.subject, k.dest] < k.sequence
            /\ Touched(l) /\ l # k => l.sequence < k.sequence

\* The baseline of a destination is a revision that was accepted there.
BaselineWasAccepted ==
    \A b \in Streams \X Dests :
        baselines[b] > 0 =>
            \E k \in IntentKeys : /\ k.subject = b[1] /\ k.dest = b[2]
                                  /\ k.sequence = baselines[b]
                                  /\ intents[k].status = "accepted"

\* While an old receipt is held, no row it covers was ever free; once it is
\* not, a destination of the channel has adopted it.
LegacyState ==
    /\ \A k \in IntentKeys :
         Hold(k) \in legacy =>
             /\ ~Reserved(k)
             /\ intents[k].status \in {"absent", "legacy_hold", "superseded"}
    /\ \A h \in LegacyReceipts \ legacy :
         \/ \E d \in Dests : Channel[d] = h[2] /\ baselines[h[1], d] > 0
         \/ \A k \in IntentKeys : Hold(k) = h => intents[k].status = "absent"

\* With one destination per channel, the first occurrence of a job V4.2 told of
\* on that channel is held, adopted or overtaken, and never handed to anybody.
OnePerChannel == \A d, f \in Dests : Channel[d] = Channel[f] => d = f

FirstOccurrence(k) ==
    \A l \in IntentKeys : SameStream(k, l) /\ l.sequence < k.sequence
                            => intents[l].status = "absent"

FirstIsHeld ==
    \A k \in IntentKeys :
        Hold(k) \in LegacyReceipts /\ FirstOccurrence(k) =>
            /\ ~Reserved(k) /\ mailed[k] = 0
            /\ intents[k].status \in {"absent", "legacy_hold", "superseded", "accepted"}

\* What keeps two rows of one job from being on their way together.
ReservationInv ==
    /\ TypeOK
    /\ MembersDisjoint
    /\ MembersFollow
    /\ ReplacedIsRetired
    /\ OneHot

\* What the senders and the parts of the digests know of the provider.
PartsInv ==
    /\ TypeOK
    /\ MembersFollow
    /\ PartsNumbered
    /\ SenderKnows
    /\ PostedState

\* What the couriers and the rows outside every digest know of it.
MailInv ==
    /\ TypeOK
    /\ CourierKnows
    /\ MailedState

\* What the tables say of what was delivered, and what is still to be.
RecordInv ==
    /\ RowsExist
    /\ MembersDistinct
    /\ FreeIsCurrent
    /\ ReplacedIsUnsent
    /\ HotIsNewest
    /\ BaselineWasAccepted
    /\ AcceptedWasDelivered
    /\ LegacyState
    /\ StatusFollowsDelivery
    /\ OnePerChannel => FirstIsHeld

IInv ==
    /\ ReservationInv
    /\ PartsInv
    /\ MailInv
    /\ RecordInv

-----------------------------------------------------------------------------
(* The abstract state delivery implements.                                 *)
ArrivedStates ==
    {<<k.subject, k.dest, k.sequence>> : k \in {l \in IntentKeys : Touched(l)}}

Promise == INSTANCE DeliveryPromise
             WITH current <- [s \in Streams |-> CurrentRevision(s)],
                  arrived <- ArrivedStates,
                  confirmed <- baselines

\* Every behaviour of the queues, leases, parts, crashes and reviews is one
\* the promise allows.
KeepsPromise == Promise!PromiseSpec
=============================================================================
