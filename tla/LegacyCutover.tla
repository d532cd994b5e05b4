---------------------------- MODULE LegacyCutover -----------------------------
(***************************************************************************)
(* The cutover from V4.2: what production runs make of V4.2's receipts     *)
(* (an ID and a channel, nothing else), how receipts follow a posting to   *)
(* its new ID, and the receipts mirrored back for a rollback.              *)
(*                                                                         *)
(* A production run is two transactions of one process: Enable and Record. *)
(* There is one destination per channel, and the sending of a staged row,  *)
(* which DeliveryOutbox and DigestTransport model, is the one step Deliver. *)
(* Adoption follows staging in the same transaction, so no held row is     *)
(* ever seen between two steps: it goes from absent to adopted.            *)
(***************************************************************************)
EXTENDS Integers, Sequences, FiniteSets

CONSTANTS
    Ids,         \* canonical IDs, old and new
    NewIds,      \* those the present code can observe
    Urls,
    Url,         \* Url[i]: the exact public URL of posting i
    Channels,
    OldReceipts, \* <<i, c>>: V4.2 sent i on c
    Materials,
    None,
    MaxSequence  \* bound: revisions of one subject

ASSUME CutoverAssumption ==
    /\ NewIds \subseteq Ids /\ IsFiniteSet(NewIds)
    /\ Url \in [Ids -> Urls]
    /\ OldReceipts \subseteq Ids \X Channels
    /\ None \notin Ids
    /\ MaxSequence \in Nat \ {0}

VARIABLES
    enabled,    \* a run has imported the receipts and may record
    aliases,    \* aliases[i]: the subject i stands for, or None
    holds,      \* delivery_legacy
    revisions,  \* revisions[s]: the materials of s
    rows,       \* rows[s][c][n]: the intent of revision n of s on c
    baselines,  \* baselines[s, c]: the revision recorded as delivered, or 0
    mirrored,   \* <<i, c>>: a V6 receipt a rolled-back V4.2 reads
    unmirrored, \* history: aliases registered since receipts were backfilled
    adopted     \* history: <<s, c, n>> taken as delivered by an old receipt

vars == <<enabled, aliases, holds, revisions, rows, baselines, mirrored,
          unmirrored, adopted>>

RowStatus == {"absent", "pending", "accepted", "superseded"}
Numbers == 1..MaxSequence

Init ==
    /\ enabled = FALSE
    /\ aliases = [i \in Ids |-> None]
    /\ holds = {}
    /\ revisions = [s \in Ids |-> <<>>]
    /\ rows = [s \in Ids |-> [c \in Channels |-> [n \in Numbers |-> "absent"]]]
    /\ baselines = [b \in Ids \X Channels |-> 0]
    /\ mirrored = {}
    /\ unmirrored = {}
    /\ adopted = {}

-----------------------------------------------------------------------------
SubjectIn(al, i) == IF al[i] = None THEN i ELSE al[i]
Subject(i) == SubjectIn(aliases, i)
Tracked(i) == revisions[i] # <<>>
AliasesOf(s) == {a \in Ids : aliases[a] = s}

\* Fault: an adopted receipt is imported again.
ImportedAlways == {<<Subject(h[1]), h[2]>> : h \in OldReceipts}

\* import_legacy: a subject with a baseline on the channel is skipped.
Imported == {g \in {<<Subject(h[1]), h[2]>> : h \in OldReceipts} : baselines[g] = 0}

\* Fault: only the ID of the stream gets a receipt.
MirrorsStreamOnly(s, c) == {<<s, c>>}

\* _write_rollback_receipt: the stream and every alias of it.
Mirrors(s, c) == {<<i, c>> : i \in {s} \cup AliasesOf(s)}

Accepted(s, c) == \E n \in Numbers : rows[s][c][n] = "accepted"

\* enable_delivery_production: import_legacy, backfill_rollback_receipts.
Enable ==
    /\ enabled' = TRUE
    /\ holds' = holds \cup Imported
    /\ mirrored' = mirrored \cup
         UNION {Mirrors(b[1], b[2]) : b \in {x \in Ids \X Channels : Accepted(x[1], x[2])}}
    /\ unmirrored' = {}
    /\ UNCHANGED <<aliases, revisions, rows, baselines, adopted>>

-----------------------------------------------------------------------------
(* _crosswalk_legacy_urls for a run that observed the IDs in S.            *)

OldAt(u) == {i \in Ids : Url[i] = u /\ \E c \in Channels : <<i, c>> \in OldReceipts}
SeenAt(S, u) == {i \in S : Url[i] = u}
HoldsOf(i) == {c \in Channels : <<i, c>> \in holds}

\* Fault: one of several current postings at the URL is picked.
LinkToOneOfMany(S, o) ==
    LET seen == SeenAt(S, Url[o]) \ {o}
    IN  IF seen # {} /\ HoldsOf(o) # {} /\ aliases[o] = None THEN CHOOSE n \in seen : TRUE ELSE None

\* register_legacy_crosswalk: the new ID an old one is linked to, or None.
Link(S, o) ==
    IF /\ o \in OldAt(Url[o])
       /\ Cardinality(SeenAt(S, Url[o])) = 1
       /\ o \notin SeenAt(S, Url[o])
       /\ aliases[o] = None /\ ~Tracked(o)
       /\ HoldsOf(o) # {}
       /\ \A n \in SeenAt(S, Url[o]) : aliases[n] = None /\ ~Tracked(n)
    THEN CHOOSE n \in SeenAt(S, Url[o]) : TRUE
    ELSE None

Links(S) == [i \in Ids |-> Link(S, i)]
Linked(S) == LET links == Links(S)
             IN  [i \in Ids |-> IF links[i] = None THEN aliases[i] ELSE links[i]]

\* Several current postings at the URL of an old receipt: each of them is held.
Quarantined(S) ==
    UNION {{<<n, c>> : n \in SeenAt(S, u), c \in UNION {HoldsOf(o) : o \in OldAt(u)}} :
             u \in {v \in Urls : Cardinality(SeenAt(S, v)) > 1}}

\* Fault: the holds of a linked ID are deleted and not inserted again.
HoldsDropped(S) == {h \in holds : Link(S, h[1]) = None} \cup Quarantined(S)

\* The holds of a linked ID move to the ID it is linked to.
HoldsAfter(S) ==
    LET links == Links(S)
        moved == {h \in holds : links[h[1]] # None}
    IN  (holds \ moved) \cup {<<links[h[1]], h[2]>> : h \in moved} \cup Quarantined(S)

Collides(al, S) == Cardinality({SubjectIn(al, i) : i \in S}) < Cardinality(S)

\* The subjects a run observes.
Seen(S) == {SubjectIn(Linked(S), i) : i \in S}

\* revise, for the subjects as linked: a changed one gets the next revision.
Material(obs, s) == obs[CHOOSE i \in DOMAIN obs : SubjectIn(aliases', i) = s]
Changed(obs) ==
    {s \in {SubjectIn(aliases', i) : i \in DOMAIN obs} :
        \/ revisions[s] = <<>>
        \/ revisions[s][Len(revisions[s])] # Material(obs, s)}

\* record_delivery_run with adopt_legacy: link, revise, stage what the digest
\* chose for each channel, adopt what is held there.
Record(obs, chosen) ==
    LET S == DOMAIN obs
        changed == Changed(obs)
        newest(s) == Len(revisions'[s])
        staged == {b \in chosen : rows[b[1]][b[2]][newest(b[1])] = "absent"}
        holding == HoldsAfter(S)
        held == staged \cap holding
    IN  /\ enabled
        /\ aliases' = Linked(S)
        /\ ~Collides(aliases', S)
        /\ chosen \subseteq Seen(S) \X Channels
        /\ \A s \in changed : Len(revisions[s]) < MaxSequence
        /\ revisions' = [s \in Ids |-> IF s \in changed THEN Append(revisions[s], Material(obs, s))
                                       ELSE revisions[s]]
        /\ rows' = [s \in Ids |-> [c \in Channels |-> [n \in Numbers |->
                      IF n = newest(s) /\ <<s, c>> \in held THEN "accepted"
                      ELSE IF n = newest(s) /\ <<s, c>> \in staged THEN "pending"
                      ELSE IF s \in changed /\ rows[s][c][n] = "pending" THEN "superseded"
                      ELSE rows[s][c][n]]]]
        /\ baselines' = [b \in Ids \X Channels |->
                           IF b \in held /\ baselines[b] = 0 THEN newest(b[1])
                           ELSE baselines[b]]
        /\ holds' = holding \ held
        /\ adopted' = adopted \cup {<<b[1], b[2], newest(b[1])>> : b \in held}
        /\ enabled' = FALSE
        /\ UNCHANGED <<mirrored, unmirrored>>

\* Two observed rows are one subject: the run fails and changes nothing.
RecordRefused(S) ==
    /\ enabled
    /\ Collides(Linked(S), S)
    /\ enabled' = FALSE
    /\ UNCHANGED <<aliases, holds, revisions, rows, baselines, mirrored,
                   unmirrored, adopted>>

\* A pending row is sent and accepted: _accept with its rollback receipts.
Deliver(s, c) ==
    LET n == Len(revisions[s])
    IN  /\ n > 0
        /\ rows[s][c][n] = "pending"
        /\ rows' = [rows EXCEPT ![s][c][n] = "accepted"]
        /\ baselines' = [baselines EXCEPT ![<<s, c>>] = n]
        /\ mirrored' = mirrored \cup Mirrors(s, c)
        /\ UNCHANGED <<enabled, aliases, holds, revisions, unmirrored, adopted>>

\* register_alias: a reviewer links an ID nothing knows yet to a stream.
RegisterAlias(old, new) ==
    /\ Subject(old) # new
    /\ Tracked(Subject(old))
    /\ ~Tracked(new)
    /\ aliases[new] = None
    /\ aliases' = [aliases EXCEPT ![new] = Subject(old)]
    /\ unmirrored' = unmirrored \cup {new}
    /\ UNCHANGED <<enabled, holds, revisions, rows, baselines, mirrored, adopted>>

RecordSome ==
    /\ enabled
    /\ \E S \in SUBSET NewIds :
          \E obs \in [S -> Materials], chosen \in SUBSET (Seen(S) \X Channels) :
              Record(obs, chosen)

Next ==
    \/ Enable
    \/ RecordSome
    \/ \E S \in SUBSET NewIds : RecordRefused(S)
    \/ \E s \in Ids, c \in Channels : Deliver(s, c)
    \/ \E old, new \in Ids : RegisterAlias(old, new)

Spec == Init /\ [][Next]_vars

-----------------------------------------------------------------------------
(* Properties.                                                             *)

\* Type correctness.
CutoverTypeOK ==
    /\ enabled \in BOOLEAN
    /\ aliases \in [Ids -> Ids \cup {None}]
    /\ holds \subseteq Ids \X Channels
    /\ revisions \in [Ids -> Seq(Materials)]
    /\ rows \in [Ids -> [Channels -> [Numbers -> RowStatus]]]
    /\ baselines \in [Ids \X Channels -> 0..MaxSequence]
    /\ mirrored \subseteq Ids \X Channels
    /\ unmirrored \subseteq Ids
    /\ adopted \subseteq Ids \X Channels \X Numbers

\* register_legacy_crosswalk's promise: linking never makes a run fail that
\* would have passed without it, for then every later run would fail as well.
LinkingNeverBlocks ==
    \A S \in SUBSET NewIds : Collides(Linked(S), S) => Collides(aliases, S)

\* What V4.2 sent on a channel is not sent again under a new ID of the same
\* posting: the first row of the new ID on that channel is adopted, unless a
\* reviewer linked either ID elsewhere, or V6 tracks the old ID itself.
FirstOccurrenceAdopted ==
    \A h \in OldReceipts, s \in NewIds, n \in Numbers :
        /\ Url[s] = Url[h[1]]
        /\ aliases[s] = None /\ aliases[h[1]] \in {None, s}
        /\ h[1] = s \/ ~Tracked(h[1])
        /\ rows[s][h[2]][n] \in {"pending", "accepted"}
        /\ \A m \in Numbers : m < n => rows[s][h[2]][m] = "absent"
        => <<s, h[2], n>> \in adopted

Once(s) == \A c \in Channels, m, n \in Numbers :
              <<s, c, m>> \in adopted /\ <<s, c, n>> \in adopted => m = n

\* An old receipt suppresses one occurrence of a posting that has its URL to
\* itself; its later changes are sent.
SuppressedOnce ==
    \A s \in Ids : (\A i \in NewIds : Url[i] = Url[s] => i = s) => Once(s)

\* The same for every posting: "A later material revision can therefore be
\* delivered normally" (adopt_legacy_baselines, of ambiguous holds as well).
LaterChangesAreSent == \A s \in Ids : Once(s)

\* "Rolling back to V4.2 is safe": under every ID a job goes by, save aliases
\* registered since the last backfill, V4.2 finds what was delivered.
RollbackSees ==
    \A s \in Ids, c \in Channels, n \in Numbers :
        rows[s][c][n] = "accepted" /\ <<s, c, n>> \notin adopted =>
            \A i \in ({s} \cup AliasesOf(s)) \ unmirrored : <<i, c>> \in mirrored
=============================================================================
