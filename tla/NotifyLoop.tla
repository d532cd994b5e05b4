----------------------------- MODULE NotifyLoop -----------------------------
(***************************************************************************)
(* The daily run without durable delivery: it evaluates what it fetched,   *)
(* compares it with the V4.1 store, records the run in one transaction,    *)
(* builds the digest, and for each channel sends it and then notes for     *)
(* every posting shown whether the channel took it.  A note is all that    *)
(* keeps the next run from saying the same again.                          *)
(* A posting has facts; V4.2 compares them with the last recorded run, the *)
(* release engine with what was last delivered.  A posting may change its  *)
(* ID when the identity policy changes: V4.2 then finds the receipt of its *)
(* historical ID, V5 a crosswalk an operator registered.                   *)
(***************************************************************************)
EXTENDS DigestSelection

CONSTANTS
  Tracked,         \* the postings a behaviour follows
  Facts,           \* [band, action, pay, conflict, url, live] a posting can show
  Channels,        \* the configured channels, in order
  Reachable,       \* those that are known and ready
  Engines,         \* the engines the operator runs
  Runners,         \* run processes
  MaxRuns,         \* bound: runs started
  MaxFactChanges,  \* bound: changes of a posting's facts
  MaxMoves,        \* bound: postings that get a new ID
  MaxInterruptions \* bound: interruptions

ASSUME TrackedAreOpenings == Tracked \subseteq Openings
ASSUME ChannelsInOrder == Channels \in Seq(Range(Channels))
ASSUME ReachableAreChannels == Reachable \subseteq Range(Channels)

VARIABLES
  facts,       \* what each posting shows today
  moved,       \* postings under their new ID
  linked,      \* postings whose two IDs the operator linked
  recorded,    \* run_jobs: the last recorded facts of a posting's ID
  receipts,    \* successful notifications of an ID: the facts, oldest first
  runner,      \* what each run holds
  runsLeft, changesLeft, movesLeft,
  heard,       \* history: the last facts each channel got of a posting
  repeats,     \* history: how often a channel heard again what it knew
  interruptions  \* history: crashes, unsure sends and overlapping runs

notifyVars == <<facts, moved, linked, recorded, receipts, runner, runsLeft,
                changesLeft, movesLeft, heard, repeats, interruptions>>

IDs == {"old", "new"}
IdOf(o) == IF o \in moved THEN "new" ELSE "old"

Rest == [at |-> "idle", engine |-> None, dry |-> FALSE, seen |-> None,
         said |-> None, shown |-> {}, queue |-> <<>>, went |-> None]

NotifyInit ==
  /\ facts \in [Tracked -> Facts]
  /\ moved = {} /\ linked = {}
  /\ recorded = [o \in Tracked |-> [i \in IDs |-> None]]
  /\ receipts = [o \in Tracked |-> [i \in IDs |-> <<>>]]
  /\ runner = [r \in Runners |-> Rest]
  /\ runsLeft = MaxRuns /\ changesLeft = MaxFactChanges /\ movesLeft = MaxMoves
  /\ heard = [o \in Tracked |-> [c \in Range(Channels) |-> None]]
  /\ repeats = [o \in Tracked |-> [c \in Range(Channels) |-> 0]]
  /\ interruptions = 0

----------------------------------------------------------------------------
(* Transitions.                                                            *)

(* _material_pay: rewordings of one offer are the same offer.              *)
MaterialPay(pay) == IF pay = None THEN None ELSE pay \div 10

(* _legacy_delivered: the newest receipt of the historical ID for this URL. *)
LegacyDelivered(o, f) ==
  IF o \notin moved THEN <<>>
  ELSE LET same == SelectSeq(receipts[o]["old"], LAMBDA g : g.url = f.url) IN
       IF same = <<>> THEN <<>> ELSE <<Last(same)>>

(* annotate_transitions, V4.2.                                             *)
DailyBaseline(o, f) ==
  IF receipts[o][IdOf(o)] # <<>> THEN <<recorded[o][IdOf(o)]>>
  ELSE LegacyDelivered(o, f)

DailyTransition(o, f) ==
  IF f.band = "rejected" THEN "none"
  ELSE IF DailyBaseline(o, f) = <<>> THEN "new"
  ELSE LET old == DailyBaseline(o, f)[1] IN
       IF old.band = "verify" /\ f.band = "primary" THEN "promoted"
       ELSE IF old.band = "rejected" THEN "restored"
       ELSE IF old.url # f.url /\ f.band = "primary" THEN "canonicalized"
       ELSE IF old.pay = None /\ f.pay # None THEN "pay_resolved"
       ELSE "none"

(* _release_transitions: the last delivered facts under either ID.         *)
Delivered(o) ==
  LET own == receipts[o][IdOf(o)] IN
  IF own # <<>> THEN <<Last(own)>>
  ELSE IF o \in moved \intersect linked /\ receipts[o]["old"] # <<>>
  THEN <<Last(receipts[o]["old"])>>
  ELSE <<>>

SameMatter(f, g) ==
  /\ f.action = g.action /\ f.band = g.band
  /\ MaterialPay(f.pay) = MaterialPay(g.pay) /\ f.conflict = g.conflict

ReleaseTransition(o, f) ==
  IF f.band = "rejected" \/ ~f.live THEN "none"
  ELSE IF Delivered(o) = <<>> THEN "new"
  ELSE IF SameMatter(Delivered(o)[1], f) THEN "none" ELSE "material_change"

Transition(engine, o, f) ==
  IF engine = "v5" THEN ReleaseTransition(o, f) ELSE DailyTransition(o, f)

----------------------------------------------------------------------------
(* A run.                                                                  *)
UnderWay == {r \in Runners : runner[r].at # "idle"}

Interrupt(n) ==
  /\ interruptions + n <= MaxInterruptions
  /\ interruptions' = interruptions + n

\* The facts as a run has them: V4.2 advises by the band alone.
ByBand(f) == [f EXCEPT !.action = IF f.band = "primary" THEN "apply" ELSE "verify"]
AsSeen(engine, f) == IF engine = "v5" THEN f ELSE ByBand(f)
FactsSeen == Facts \union {ByBand(f) : f \in Facts}

StartRun(r) ==
  /\ runner[r].at = "idle" /\ runsLeft > 0
  /\ runsLeft' = runsLeft - 1
  /\ \E engine \in Engines, dry \in BOOLEAN :
       runner' = [runner EXCEPT ![r] = [Rest EXCEPT
         !.at = "fetched", !.engine = engine, !.dry = dry,
         !.seen = [o \in Tracked |-> AsSeen(engine, facts[o])]]]
  /\ Interrupt(IF UnderWay = {} THEN 0 ELSE 2)
  /\ UNCHANGED <<facts, moved, linked, recorded, receipts, changesLeft, movesLeft,
                 heard, repeats>>

Annotate(r) ==
  /\ runner[r].at = "fetched"
  /\ runner' = [runner EXCEPT ![r].at = "annotated", ![r].said =
       [o \in Tracked |-> Transition(runner[r].engine, o, runner[r].seen[o])]]
  /\ UNCHANGED <<facts, moved, linked, recorded, receipts, runsLeft, changesLeft,
                 movesLeft, heard, repeats, interruptions>>

(* record_run: every evaluated posting, in one transaction.                *)
RecordRun(r) ==
  /\ runner[r].at = "annotated"
  /\ recorded' = [o \in Tracked |-> [recorded[o] EXCEPT ![IdOf(o)] = runner[r].seen[o]]]
  /\ runner' = [runner EXCEPT ![r].at = "recorded"]
  /\ UNCHANGED <<facts, moved, linked, receipts, runsLeft, changesLeft, movesLeft,
                 heard, repeats, interruptions>>

(* What a posting is to the digest of a run.                               *)
StandingIn(run, o) ==
  IF o \notin Tracked \/ run.seen[o].band = "rejected" THEN "rejected"
  ELSE IF run.engine = "v5" /\ ~run.seen[o].live THEN "known"
  ELSE IF run.said[o] = "none" THEN "silent"
  ELSE run.seen[o].band

(* The digest is written; a ledger that does not add up, a dry run and a   *)
(* run that has nothing to say end here.                                   *)
Compose(r) ==
  /\ runner[r].at = "recorded"
  /\ \E addsUp \in BOOLEAN :
       LET standing == [o \in Openings |-> StandingIn(runner[r], o)]
           shown == ToSet(DigestOf(runner[r].engine, standing).shown)
       IN runner' = [runner EXCEPT ![r] =
            IF ~addsUp \/ runner[r].dry \/ shown = {} THEN Rest
            ELSE [@ EXCEPT !.at = "send", !.shown = shown, !.queue = Channels]]
  /\ UNCHANGED <<facts, moved, linked, recorded, receipts, runsLeft, changesLeft,
                 movesLeft, heard, repeats, interruptions>>

(* What a channel hears: a posting as new that it knew, or the same facts. *)
Again(r, o, c) ==
  /\ heard[o][c] # None
  /\ \/ runner[r].said[o] = "new"
     \/ runner[r].said[o] = "material_change" /\ SameMatter(heard[o][c], runner[r].seen[o])

Hear(r, c) ==
  /\ heard' = [o \in Tracked |-> IF o \notin runner[r].shown THEN heard[o]
                                 ELSE [heard[o] EXCEPT ![c] = runner[r].seen[o]]]
  /\ repeats' = [o \in Tracked |->
       IF o \in runner[r].shown /\ Again(r, o, c)
       THEN [repeats[o] EXCEPT ![c] = @ + 1] ELSE repeats[o]]

(* The next channel: not configured, or an answer that is right, or a      *)
(* failure the message may have survived.                                  *)
SkipChannel(r) ==
  /\ runner[r].at = "send" /\ runner[r].queue # <<>>
  /\ Head(runner[r].queue) \notin Reachable
  /\ runner' = [runner EXCEPT ![r].queue = Tail(@)]
  /\ UNCHANGED <<facts, moved, linked, recorded, receipts, runsLeft, changesLeft,
                 movesLeft, heard, repeats, interruptions>>

Push(r) ==
  /\ runner[r].at = "send" /\ runner[r].queue # <<>>
  /\ Head(runner[r].queue) \in Reachable
  /\ \E ok, arrived \in BOOLEAN :
       /\ ok => arrived
       /\ runner' = [runner EXCEPT ![r].at = "sent", ![r].went = ok]
       /\ IF arrived THEN Hear(r, Head(runner[r].queue)) ELSE UNCHANGED <<heard, repeats>>
       /\ Interrupt(IF ok THEN 0 ELSE 1)
  /\ UNCHANGED <<facts, moved, linked, recorded, receipts, runsLeft, changesLeft, movesLeft>>

(* Fault: only the apply-first section is noted.                           *)
MarkedPrimaryOnly(r) ==
  [o \in Tracked |->
     IF o \notin runner[r].shown \/ ~runner[r].went \/ runner[r].seen[o].band # "primary"
     THEN receipts[o]
     ELSE [receipts[o] EXCEPT ![IdOf(o)] = Append(@, runner[r].seen[o])]]

(* mark_notified: a row for every posting shown; a failure is no receipt.  *)
Marked(r) ==
  [o \in Tracked |-> IF o \notin runner[r].shown \/ ~runner[r].went THEN receipts[o]
     ELSE [receipts[o] EXCEPT ![IdOf(o)] = Append(@, runner[r].seen[o])]]

MarkNotified(r) ==
  /\ runner[r].at = "sent"
  /\ receipts' = Marked(r)
  /\ runner' = [runner EXCEPT ![r].at = "send", ![r].queue = Tail(@), ![r].went = None]
  /\ UNCHANGED <<facts, moved, linked, recorded, runsLeft, changesLeft, movesLeft,
                 heard, repeats, interruptions>>

EndRun(r) ==
  /\ runner[r].at = "send" /\ runner[r].queue = <<>>
  /\ runner' = [runner EXCEPT ![r] = Rest]
  /\ UNCHANGED <<facts, moved, linked, recorded, receipts, runsLeft, changesLeft,
                 movesLeft, heard, repeats, interruptions>>

RunCrash(r) ==
  /\ runner[r].at # "idle"
  /\ runner' = [runner EXCEPT ![r] = Rest]
  /\ Interrupt(1)
  /\ UNCHANGED <<facts, moved, linked, recorded, receipts, runsLeft, changesLeft,
                 movesLeft, heard, repeats>>

----------------------------------------------------------------------------
(* The world.  A new ID comes with a new version of the program, between   *)
(* runs; the operator may link it to the old one.                          *)
ChangeFacts(o) ==
  /\ changesLeft > 0
  /\ changesLeft' = changesLeft - 1
  /\ \E f \in Facts \ {facts[o]} : facts' = [facts EXCEPT ![o] = f]
  /\ UNCHANGED <<moved, linked, recorded, receipts, runner, runsLeft, movesLeft,
                 heard, repeats, interruptions>>

MoveId(o) ==
  /\ movesLeft > 0 /\ o \notin moved /\ UnderWay = {}
  /\ movesLeft' = movesLeft - 1
  /\ moved' = moved \union {o}
  /\ UNCHANGED <<facts, linked, recorded, receipts, runner, runsLeft, changesLeft,
                 heard, repeats, interruptions>>

RegisterCrosswalk(o) ==
  /\ o \in moved \ linked
  /\ linked' = linked \union {o}
  /\ UNCHANGED <<facts, moved, recorded, receipts, runner, runsLeft, changesLeft,
                 movesLeft, heard, repeats, interruptions>>

NotifyNext ==
  \/ \E r \in Runners :
       \/ StartRun(r) \/ Annotate(r) \/ RecordRun(r) \/ Compose(r) \/ SkipChannel(r)
       \/ Push(r) \/ MarkNotified(r) \/ EndRun(r) \/ RunCrash(r)
  \/ \E o \in Tracked : ChangeFacts(o) \/ MoveId(o) \/ RegisterCrosswalk(o)

NotifySpec == NotifyInit /\ [][NotifyNext]_notifyVars

----------------------------------------------------------------------------
(* "You only hear about real changes" on the older path: a channel hears a *)
(* posting again as new, or a change that changes nothing, at most once    *)
(* for every crash or failed send, twice for every run begun while another *)
(* was under way (its sends and its notes may pass the other's), and once  *)
(* more for a new ID nobody linked.                                        *)
RepeatsExplained ==
  \A o \in Tracked : \A c \in Range(Channels) :
    repeats[o][c] <= interruptions + Cardinality(moved)
=============================================================================
