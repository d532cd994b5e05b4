---------------------------- MODULE DeliveryTables ----------------------------
(***************************************************************************)
(* The SQLite tables of JobHound's durable delivery, the processes that    *)
(* work on them, and the questions the code asks of the tables.            *)
(*                                                                         *)
(* A row of delivery_intents is named by its UNIQUE key (revision,         *)
(* channel, destination, generation); a revision is named by its subject   *)
(* and its sequence number.  A row of delivery_envelopes is named by its   *)
(* creation rank.  A lease token is the process that claimed the row: a    *)
(* process holds one claim at a time and forgets it when it dies.  Clocks  *)
(* are left out: that a lease has lapsed, or that a back-off is over, is   *)
(* a choice made whenever the code looks.                                  *)
(***************************************************************************)
EXTENDS Integers, Sequences, FiniteSets

CONSTANTS
    Subjects,         \* delivery subjects: canonical job IDs
    Scopes,           \* coverage subjects: source-health scopes
    Dests,            \* destinations: hashed (sender, recipient) targets
    Channel,          \* Channel[d]: "email" or "telegram"
    Materials,        \* material projections an observed subject can have
    ActiveMaterials,  \* those whose decision is active and not rejected
    FactMaterials,    \* those carrying scoped outcome facts of the user
    TroubleMaterials, \* coverage materials: the source is partial or failed
    LegacyReceipts,   \* <<subject, channel>> V4.2 already notified
    Runs,             \* pipeline runs, numbered by their as_of time
    Couriers,         \* processes delivering one intent at a time
    Senders,          \* processes delivering frozen digest envelopes
    None,             \* no token, no key, no destination
    CardCap,          \* delivery.card_cap
    StatusCap,        \* delivery.status_cap
    MaxAttempts,      \* max_attempts of an intent
    MaxSequence,      \* bound: revisions of one subject
    MaxGeneration,    \* bound: generations of one intent
    MaxEnvelopes,     \* bound: envelopes ever prepared
    MaxParts          \* bound: messages one Telegram digest splits into

ASSUME DeliveryAssumption ==
    /\ Subjects \cap Scopes = {}
    /\ Channel \in [Dests -> {"email", "telegram"}]
    /\ ActiveMaterials \subseteq Materials
    /\ FactMaterials \subseteq Materials
    /\ TroubleMaterials \subseteq Materials
    /\ LegacyReceipts \subseteq Subjects \X {"email", "telegram"}
    /\ Runs \subseteq Nat \ {0}
    /\ None \notin Couriers \cup Senders
    /\ Couriers \cap Senders = {}
    /\ CardCap \in Nat
    /\ StatusCap \in Nat
    /\ MaxAttempts \in Nat \ {0}
    /\ MaxSequence \in Nat \ {0}
    /\ MaxGeneration \in Nat \ {0}
    /\ MaxEnvelopes \in Nat
    /\ MaxParts \in Nat \ {0}

VARIABLES
    revisions,   \* revisions[s]: the materials of s, in sequence order
    lastAsOf,    \* lastAsOf[s]: as_of of the newest observation of s
    staged,      \* runs with a delivery_runs receipt
    legacy,      \* <<subject, channel>> holds of delivery_legacy
    intents,     \* delivery_intents, by key
    baselines,   \* baselines[s, d]: sequence last accepted there, 0 if none
    envelopes,   \* delivery_envelopes with their frozen membership
    parts,       \* parts[e]: delivery_parts of envelope e
    courier,     \* what each courier process is doing
    sender,      \* what each sender process is doing
    mailed,      \* history: times the provider took intent k on its own
    posted       \* history: times the provider took part p of envelope e

tables == <<revisions, lastAsOf, staged, legacy, intents, baselines,
            envelopes, parts>>
vars == <<revisions, lastAsOf, staged, legacy, intents, baselines,
          envelopes, parts, courier, sender, mailed, posted>>

-----------------------------------------------------------------------------
Streams == Subjects \cup Scopes
Processes == Couriers \cup Senders
EnvelopeIds == 1..MaxEnvelopes
Ordinals == 1..MaxParts

IntentKeys == [subject: Streams, dest: Dests,
               sequence: 1..MaxSequence, generation: 1..MaxGeneration]

IntentStatus == {"absent", "pending", "leased", "sending", "accepted",
                 "uncertain", "failed", "superseded", "legacy_hold"}
IntentRows == [status: IntentStatus, attempts: Nat,
               token: Processes \cup {None}]
NoIntent == [status |-> "absent", attempts |-> 0, token |-> None]

EnvelopeStatus == {"absent", "pending", "leased", "accepted", "uncertain",
                   "failed", "cancelled", "abandoned"}
EnvelopeRows == [status: EnvelopeStatus, members: SUBSET IntentKeys,
                 token: Senders \cup {None}]
PartStatus == {"pending", "sending", "accepted", "uncertain", "failed"}
PartRows == [status: PartStatus, attempts: Nat]

Receipts == {"accepted", "not_sent", "uncertain", "permanent_failure"}

\* A process is idle, holds a claim, waits for the provider, or has its answer.
Stages == {"idle", "claimed", "sending", "answered"}
IdleCourier == [pc |-> "idle", key |-> None, receipt |-> "uncertain"]
IdleSender == [pc |-> "idle", envelope |-> 0, ordinal |-> 0,
               receipt |-> "uncertain"]

CourierRows == {r \in [pc: Stages, key: IntentKeys \cup {None}, receipt: Receipts] :
                  r.pc # "idle" => r.key \in IntentKeys}
SenderRows == {r \in [pc: Stages, envelope: EnvelopeIds \cup {0},
                      ordinal: Ordinals \cup {0}, receipt: Receipts] :
                 /\ r.pc # "idle" => r.envelope \in EnvelopeIds
                 /\ r.pc \in {"sending", "answered"} => r.ordinal \in Ordinals}

-----------------------------------------------------------------------------
(* Questions the code asks of the tables.                                  *)

CurrentRevision(s) == Len(revisions[s])
IsCurrent(k) == k.sequence = CurrentRevision(k.subject)
SameStream(k, l) == k.subject = l.subject /\ k.dest = l.dest

\* The revision already has an intent, of any generation, for this target.
Recorded(s, d, n) ==
    \E k \in IntentKeys : /\ k.subject = s /\ k.dest = d /\ k.sequence = n
                          /\ intents[k].status # "absent"

\* The row belongs to some envelope, whatever became of that envelope.
Reserved(k) == \E e \in EnvelopeIds : k \in envelopes[e].members

\* Another envelope that can still be sent holds a row of the same stream.
SubjectReserved(k, except) ==
    \E e \in EnvelopeIds \ {except} :
        /\ envelopes[e].status \in {"pending", "leased", "uncertain"}
        /\ \E m \in envelopes[e].members : SameStream(m, k)

\* Fault: a row whose send may have succeeded does not count.
BusyUnlessUncertain(k) ==
    \E b \in IntentKeys : /\ SameStream(b, k)
                          /\ intents[b].status \in {"leased", "sending", "legacy_hold"}

\* A row of the same stream is being sent or waits for a reviewed answer.
Busy(k) ==
    \E b \in IntentKeys :
        /\ SameStream(b, k)
        /\ intents[b].status \in {"leased", "sending", "uncertain", "legacy_hold"}

Preparable(k, d) ==
    /\ k.dest = d
    /\ intents[k].status = "pending"
    /\ IsCurrent(k)
    /\ ~Busy(k)
    /\ ~SubjectReserved(k, 0)
    /\ ~Reserved(k)

-----------------------------------------------------------------------------
(* Row updates shared by the handlers.                                     *)

WithStatus(row, st) == [row EXCEPT !.status = st, !.token = None]
Leased(row, process) == [row EXCEPT !.status = "leased", !.token = process]
Started(row) == [row EXCEPT !.status = "sending", !.attempts = row.attempts + 1]

\* _set_intents: a superseded or delivered row never looks live again.
SetIntents(e, st) ==
    [k \in IntentKeys |->
        IF k \in envelopes[e].members
           /\ intents[k].status \notin {"superseded", "accepted"}
        THEN WithStatus(intents[k], st)
        ELSE intents[k]]

\* _state: the envelope's status, its lease dropped.
EnvelopeState(e, st) == [envelopes EXCEPT ![e] = WithStatus(@, st)]

\* _accept for the rows in K: a baseline only moves to a later sequence.
Accept(K) ==
    [b \in Streams \X Dests |->
        LET newer == {k \in K : k.subject = b[1] /\ k.dest = b[2]
                                /\ k.sequence > baselines[b]}
        IN  IF newer = {} THEN baselines[b]
            ELSE (CHOOSE k \in newer : TRUE).sequence]

Init ==
    /\ revisions = [s \in Streams |-> <<>>]
    /\ lastAsOf = [s \in Streams |-> 0]
    /\ staged = {}
    /\ legacy = {}
    /\ intents = [k \in IntentKeys |-> NoIntent]
    /\ baselines = [b \in Streams \X Dests |-> 0]
    /\ envelopes = [e \in EnvelopeIds |->
                      [status |-> "absent", members |-> {}, token |-> None]]
    /\ parts = [e \in EnvelopeIds |-> <<>>]
    /\ courier = [c \in Couriers |-> IdleCourier]
    /\ sender = [w \in Senders |-> IdleSender]
    /\ mailed = [k \in IntentKeys |-> 0]
    /\ posted = [e \in EnvelopeIds |-> [p \in Ordinals |-> 0]]
=============================================================================
