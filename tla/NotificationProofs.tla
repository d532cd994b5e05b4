-------------------------- MODULE NotificationProofs --------------------------
(***************************************************************************)
(* Proofs about NotifyLoop, HandoffReview, DailyPipeline and               *)
(* DigestSelection, for any postings, facts, channels and runs, any jobs,  *)
(* targets, findings and plans, any mails, copies of postings and outlets, *)
(* and any caps.                                                           *)
(*                                                                         *)
(* A channel hears something again because a run does not know what it     *)
(* heard: the note was not written, or not yet.  The invariant keeps an    *)
(* account for every posting and channel.  Either the interruptions exceed *)
(* the repeats by one more than there are runs that may still send, or the *)
(* receipts are up to date, or one run alone works from up-to-date ones,   *)
(* or two runs do of which one will not repeat.                            *)
(*                                                                         *)
(* A review is followed table by table: every row is of a revision and its *)
(* card of that revision's material, or was accepted by earlier code; what *)
(* is accepted is what was heard last; and what was never attempted stays  *)
(* pending.  Each stage of a review, and each act of the transport, keeps  *)
(* the tables true.                                                        *)
(*                                                                         *)
(* A daily run is followed by itself, by what it holds at each stage, and  *)
(* with the others, by counting for every posting and outlet those that    *)
(* may yet tell the one of the other.                                      *)
(*                                                                         *)
(* A digest is followed entry by entry: its ledger is right about what is  *)
(* settled, and what is shown comes before what is not yet looked at.      *)
(***************************************************************************)
EXTENDS NotifyLoop, HandoffReview, DailyPipeline, FiniteSetTheorems, NaturalsInduction,
        WellFoundedInduction, SequenceTheorems, TLAPS

-----------------------------------------------------------------------------
(* The older notification loop.  Per posting and channel, the slack is the *)
(* number of repeats that interruptions and a new ID allow and that did    *)
(* not happen; an account says how much of it the runs under way need.     *)

\* No channel is configured twice.
ChannelsOnce == \A i, j \in DOMAIN Channels : Channels[i] = Channels[j] => i = j

Slack(o, c) == interruptions + (IF o \in moved THEN 1 ELSE 0) - repeats[o][c]

\* The newest receipt is of what the channel heard, or nothing was heard.
Settled(o, c) ==
    heard[o][c] # None =>
        /\ receipts[o][IdOf(o)] # <<>>
        /\ SameMatter(Last(receipts[o][IdOf(o)]), heard[o][c])

\* The stages before the sends; a run that may still send to a channel.
Preparing(run) == run.at \in {"fetched", "annotated", "recorded"}
MaySay(run, c) ==
    \/ Preparing(run)
    \/ run.at = "send" /\ c \in Range(run.queue)
    \/ run.at = "sent" /\ c \in Range(Tail(run.queue))

Speakers(c) == {r \in Runners : MaySay(runner[r], c)}

\* What a run is about to say of a posting is no repetition.
SaysNews(run, o, c) ==
    heard[o][c] # None =>
        /\ run.said[o] # "new"
        /\ run.said[o] = "material_change" => ~SameMatter(heard[o][c], run.seen[o])

\* The run that began alone and settled, before and after it sent.
BeforeSend(r, o, c) ==
    /\ UnderWay = {r} /\ MaySay(runner[r], c) /\ Slack(o, c) >= 0
    /\ Settled(o, c) \/ (~Preparing(runner[r]) /\ o \in runner[r].shown)
    /\ heard[o][c] # None => receipts[o][IdOf(o)] # <<>>
    /\ runner[r].at # "fetched" => SaysNews(runner[r], o, c)
AwaitsNote(r, o, c) ==
    /\ UnderWay = {r} /\ Slack(o, c) >= 0
    /\ runner[r].at = "sent" /\ runner[r].went /\ Head(runner[r].queue) = c
    /\ o \in runner[r].shown /\ heard[o][c] = runner[r].seen[o]
AfterSend(r, o, c) ==
    /\ UnderWay = {r} /\ Slack(o, c) >= 0 /\ ~MaySay(runner[r], c)
    /\ Settled(o, c)
    /\ o \in runner[r].shown /\ heard[o][c] # None =>
         SameMatter(runner[r].seen[o], heard[o][c])

\* Two runs of which at most one will repeat: neither has looked, or the first
\* to look says nothing old and the other no first news.
BothLook(r, q, o, c) ==
    /\ UnderWay = {r, q} /\ r # q /\ Slack(o, c) >= 2
    /\ runner[r].at = "fetched" /\ runner[q].at = "fetched" /\ Settled(o, c)
FirstLooked(r, q, o, c) ==
    /\ UnderWay = {r, q} /\ r # q /\ Slack(o, c) >= 2
    /\ runner[r].at # "fetched" /\ SaysNews(runner[r], o, c)
    /\ heard[o][c] # None =>
         /\ receipts[o][IdOf(o)] # <<>>
         /\ runner[q].at # "fetched" => runner[q].said[o] # "new"
OneRepeated(r, q, o, c) ==
    /\ UnderWay = {r, q} /\ r # q /\ Slack(o, c) >= 1
    /\ ~MaySay(runner[q], c)
    /\ runner[r].at # "fetched" /\ SaysNews(runner[r], o, c)

Alone(r, o, c) == UnderWay = {r} /\ Slack(o, c) >= 1

Account(o, c) ==
    \/ Slack(o, c) >= Cardinality(Speakers(c)) + 1
    \/ UnderWay = {} /\ Slack(o, c) >= 0 /\ Settled(o, c)
    \/ \E r \in Runners : Alone(r, o, c) \/ BeforeSend(r, o, c)
                          \/ AwaitsNote(r, o, c) \/ AfterSend(r, o, c)
    \/ \E r, q \in Runners : BothLook(r, q, o, c) \/ FirstLooked(r, q, o, c)
                             \/ OneRepeated(r, q, o, c)

Accounts == \A o \in Tracked : \A c \in Reachable : Account(o, c)

-----------------------------------------------------------------------------
(* The shape of the state.                                                 *)
RunFields == {"at", "engine", "dry", "seen", "said", "shown", "queue", "went"}

QueueOK(q) ==
    /\ q \in Seq(Range(Channels))
    /\ \A i, j \in 1..Len(q) : q[i] = q[j] => i = j

RunOK(run) ==
    /\ DOMAIN run = RunFields
    /\ run.at # "idle" => run.seen \in [Tracked -> FactsSeen]
    /\ run.at \in {"send", "sent"} => QueueOK(run.queue)
    /\ run.at = "sent" => run.queue # <<>> /\ run.went \in BOOLEAN

NotifyShape ==
    /\ DOMAIN runner = Runners /\ \A r \in Runners : RunOK(runner[r])
    /\ IsFiniteSet(UnderWay) /\ IsFiniteSet(moved)
    /\ interruptions \in Nat
    /\ facts \in [Tracked -> Facts]
    /\ receipts \in [Tracked -> [IDs -> Seq(FactsSeen)]]
    /\ repeats \in [Tracked -> [Range(Channels) -> Nat]]
    /\ heard \in [Tracked -> [Range(Channels) -> FactsSeen \union {None}]]

\* Nothing is sent to a channel that is not reachable.
Unreached ==
    \A o \in Tracked : \A c \in Range(Channels) \ Reachable : repeats[o][c] = 0

NotifyInv == NotifyShape /\ Unreached /\ Accounts

\* The rest of a queue.
LEMMA TailOf ==
    ASSUME NEW q, QueueOK(q), q # <<>>
    PROVE  /\ QueueOK(Tail(q)) /\ Head(q) \in Range(Channels)
           /\ \A c : c \in Range(Tail(q)) <=> c \in Range(q) /\ c # Head(q)
           /\ Head(q) \in Range(q)
<1> DEFINE C == Range(Channels)
           t == Tail(q)
<1>1. q \in Seq(C) /\ \A i, j \in 1..Len(q) : q[i] = q[j] => i = j
  BY DEF QueueOK
<1> HIDE DEF C
<1>2. Len(q) \in Nat /\ Len(q) # 0 /\ DOMAIN q = 1..Len(q) /\ Head(q) = q[1]
  BY <1>1
<1>3. t \in Seq(C) /\ Len(t) = Len(q) - 1 /\ DOMAIN t = 1..Len(t)
      /\ \A i \in 1..Len(t) : t[i] = q[i + 1]
  BY <1>1
<1>4. 1 \in 1..Len(q) /\ q[1] \in C
  BY <1>1, <1>2
<1> HIDE DEF t
<1>5. \A i, j \in 1..Len(t) : t[i] = t[j] => i = j
  <2> TAKE i, j \in 1..Len(t)
  <2>1. i + 1 \in 1..Len(q) /\ j + 1 \in 1..Len(q)
    BY <1>2, <1>3
  <2> QED
    BY <1>1, <1>3, <2>1
<1>6. ASSUME NEW c PROVE c \in Range(t) <=> c \in Range(q) /\ c # Head(q)
  <2>1. ASSUME c \in Range(t) PROVE c \in Range(q) /\ c # Head(q)
    <3>1. PICK i \in 1..Len(t) : c = t[i]
      BY <1>3, <2>1 DEF Range
    <3>2. i + 1 \in 1..Len(q) /\ c = q[i + 1] /\ i + 1 # 1
      BY <1>2, <1>3, <3>1
    <3> QED
      BY <1>1, <1>2, <1>4, <3>2 DEF Range
  <2>2. ASSUME c \in Range(q), c # Head(q) PROVE c \in Range(t)
    <3>1. PICK i \in 1..Len(q) : c = q[i]
      BY <1>2, <2>2 DEF Range
    <3>2. i # 1 /\ i - 1 \in 1..Len(t) /\ (i - 1) + 1 = i
      BY <1>2, <1>3, <2>2, <3>1
    <3>3. t[i - 1] = c
      BY <1>3, <3>1, <3>2
    <3> QED
      BY <1>3, <3>2, <3>3 DEF Range
  <2> QED
    BY <2>1, <2>2
<1>7. Head(q) \in Range(q)
  BY <1>2, <1>4 DEF Range
<1> QED
  BY <1>2, <1>3, <1>4, <1>5, <1>6, <1>7 DEF QueueOK, C, t

\* The step of one run.
Moves(r) ==
    /\ DOMAIN runner' = Runners /\ RunOK(runner'[r])
    /\ \A q \in Runners \ {r} : runner'[q] = runner[q]

Keeps(r) == runner'[r].said = runner[r].said /\ runner'[r].seen = runner[r].seen

\* A step that replaces what a run holds.
LEMMA RunReplaced ==
    ASSUME NotifyShape, NEW r \in Runners, NEW run, RunOK(run),
           runner' = [runner EXCEPT ![r] = run]
    PROVE  Moves(r) /\ runner'[r] = run
<1>1. DOMAIN runner = Runners
  BY DEF NotifyShape
<1>2. /\ DOMAIN runner' = Runners /\ runner'[r] = run
      /\ \A q \in Runners \ {r} : runner'[q] = runner[q]
  BY <1>1
<1> QED
  BY <1>2 DEF Moves

LEMMA RestIs ==
    /\ DOMAIN Rest = RunFields
    /\ Rest.at = "idle"
    /\ RunOK(Rest)
<1>1. DOMAIN Rest = RunFields /\ Rest.at = "idle"
  BY DEF Rest, RunFields
<1> QED
  BY <1>1 DEF RunOK

LEMMA RunRests ==
    ASSUME NotifyShape, NEW r \in Runners, runner' = [runner EXCEPT ![r] = Rest]
    PROVE  Moves(r) /\ runner'[r].at = "idle"
BY RestIs, RunReplaced

LEMMA RunStarts ==
    ASSUME NotifyShape, NEW r \in Runners, StartRun(r)
    PROVE  Moves(r) /\ runner[r].at = "idle" /\ runner'[r].at = "fetched"
<1> DEFINE has(engine) == [o \in Tracked |-> AsSeen(engine, facts[o])]
<1>1. PICK engine \in Engines, dry \in BOOLEAN :
        runner' = [runner EXCEPT ![r] = [Rest EXCEPT
          !.at = "fetched", !.engine = engine, !.dry = dry, !.seen = has(engine)]]
  BY DEF StartRun
<1> DEFINE run == [Rest EXCEPT !.at = "fetched", !.engine = engine, !.dry = dry,
                   !.seen = has(engine)]
<1>2. DOMAIN run = RunFields /\ run.at = "fetched" /\ run.seen = has(engine)
  <2> HIDE DEF has
  <2> QED
    BY DEF Rest, RunFields
<1>3. runner' = [runner EXCEPT ![r] = run]
  BY <1>1
<1>4. has(engine) \in [Tracked -> FactsSeen]
  <2>1. \A o \in Tracked : facts[o] \in Facts
    BY DEF NotifyShape
  <2>2. \A o \in Tracked : AsSeen(engine, facts[o]) \in FactsSeen
    BY <2>1 DEF AsSeen, FactsSeen
  <2> QED
    BY <2>2
<1> HIDE DEF run, has
<1>5. RunOK(run)
  BY <1>2, <1>4 DEF RunOK
<1>6. Moves(r) /\ runner'[r] = run
  BY <1>3, <1>5, RunReplaced
<1> QED
  BY <1>2, <1>6 DEF StartRun

LEMMA RunAnnotates ==
    ASSUME NotifyShape, NEW r \in Runners, Annotate(r)
    PROVE  /\ Moves(r) /\ runner[r].at = "fetched" /\ runner'[r].at = "annotated"
           /\ runner'[r].seen = runner[r].seen
           /\ runner'[r].said =
                [o \in Tracked |-> Transition(runner[r].engine, o, runner[r].seen[o])]
<1> DEFINE marks == [o \in Tracked |-> Transition(runner[r].engine, o, runner[r].seen[o])]
           run == [runner[r] EXCEPT !.at = "annotated", !.said = marks]
<1>1. runner' = [runner EXCEPT ![r].at = "annotated", ![r].said = marks]
  BY DEF Annotate
<1>2. DOMAIN runner = Runners /\ RunOK(runner[r]) /\ runner[r].at = "fetched"
  BY DEF NotifyShape, Annotate
<1> HIDE DEF marks
<1>3. runner' = [runner EXCEPT ![r] = run]
  BY <1>1, <1>2
<1>4. /\ DOMAIN run = RunFields /\ run.at = "annotated" /\ run.said = marks
      /\ run.seen = runner[r].seen
  BY <1>2 DEF RunOK, RunFields
<1> HIDE DEF run
<1>5. RunOK(run)
  BY <1>2, <1>4 DEF RunOK
<1>6. Moves(r) /\ runner'[r] = run
  BY <1>3, <1>5, RunReplaced
<1> QED
  BY <1>2, <1>4, <1>6 DEF marks

LEMMA RunRecords ==
    ASSUME NotifyShape, NEW r \in Runners, RecordRun(r)
    PROVE  /\ Moves(r) /\ runner[r].at = "annotated" /\ runner'[r].at = "recorded"
           /\ Keeps(r)
<1> DEFINE run == [runner[r] EXCEPT !.at = "recorded"]
<1>1. DOMAIN runner = Runners /\ RunOK(runner[r]) /\ runner[r].at = "annotated"
  BY DEF NotifyShape, RecordRun
<1>2. runner' = [runner EXCEPT ![r] = run]
  BY <1>1 DEF RecordRun
<1>3. /\ DOMAIN run = RunFields /\ run.at = "recorded"
      /\ run.seen = runner[r].seen /\ run.said = runner[r].said
  BY <1>1 DEF RunOK, RunFields
<1> HIDE DEF run
<1>4. RunOK(run)
  BY <1>1, <1>3 DEF RunOK
<1>5. Moves(r) /\ runner'[r] = run
  BY <1>2, <1>4, RunReplaced
<1> QED
  BY <1>1, <1>3, <1>5 DEF Keeps

LEMMA RunComposes ==
    ASSUME ChannelsOnce, NotifyShape, NEW r \in Runners, Compose(r)
    PROVE  /\ Moves(r) /\ runner[r].at = "recorded"
           /\ \/ runner'[r].at = "idle"
              \/ /\ runner'[r].at = "send" /\ runner'[r].queue = Channels
                 /\ Keeps(r)
<1>1. DOMAIN runner = Runners /\ RunOK(runner[r]) /\ runner[r].at = "recorded"
  BY DEF NotifyShape, Compose
<1>2. PICK addsUp \in BOOLEAN :
       LET standing == [o \in Openings |-> StandingIn(runner[r], o)]
           shown == ToSet(DigestOf(runner[r].engine, standing).shown)
       IN runner' = [runner EXCEPT ![r] =
            IF ~addsUp \/ runner[r].dry \/ shown = {} THEN Rest
            ELSE [@ EXCEPT !.at = "send", !.shown = shown, !.queue = Channels]]
  BY DEF Compose
<1>3. PICK shown : runner' = [runner EXCEPT ![r] =
            IF ~addsUp \/ runner[r].dry \/ shown = {} THEN Rest
            ELSE [runner[r] EXCEPT !.at = "send", !.shown = shown, !.queue = Channels]]
  BY <1>2, Zenon
<1> DEFINE run == [runner[r] EXCEPT !.at = "send", !.shown = shown, !.queue = Channels]
<1>4. runner' = [runner EXCEPT ![r] = Rest] \/ runner' = [runner EXCEPT ![r] = run]
  BY <1>3
<1>5. /\ DOMAIN run = RunFields /\ run.at = "send" /\ run.queue = Channels
      /\ run.seen = runner[r].seen /\ run.said = runner[r].said
  BY <1>1 DEF RunOK, RunFields
<1> HIDE DEF run
<1>6. QueueOK(Channels)
  <2>1. Channels \in Seq(Range(Channels))
    BY ChannelsInOrder DEF Range
  <2>2. DOMAIN Channels = 1..Len(Channels)
    BY ChannelsInOrder
  <2> QED
    BY <2>1, <2>2 DEF QueueOK, ChannelsOnce
<1>7. RunOK(run)
  BY <1>1, <1>5, <1>6 DEF RunOK
<1>8. CASE runner' = [runner EXCEPT ![r] = Rest]
  BY <1>1, <1>8, RunRests
<1>9. CASE runner' = [runner EXCEPT ![r] = run]
  <2>1. Moves(r) /\ runner'[r] = run
    BY <1>7, <1>9, RunReplaced
  <2> QED
    BY <1>1, <1>5, <2>1 DEF Keeps
<1> QED
  BY <1>4, <1>8, <1>9

LEMMA RunSkips ==
    ASSUME NotifyShape, NEW r \in Runners, SkipChannel(r)
    PROVE  /\ Moves(r) /\ Keeps(r) /\ runner'[r].shown = runner[r].shown
           /\ runner[r].at = "send" /\ runner[r].queue # <<>>
           /\ Head(runner[r].queue) \notin Reachable
           /\ runner'[r].at = "send" /\ runner'[r].queue = Tail(runner[r].queue)
<1>1. /\ DOMAIN runner = Runners /\ RunOK(runner[r]) /\ runner[r].at = "send"
      /\ runner[r].queue # <<>> /\ Head(runner[r].queue) \notin Reachable
  BY DEF NotifyShape, SkipChannel
<1> DEFINE left == Tail(runner[r].queue)
           run == [runner[r] EXCEPT !.queue = left]
<1>2. runner' = [runner EXCEPT ![r] = run]
  BY <1>1 DEF SkipChannel
<1>3. QueueOK(left)
  BY <1>1, TailOf DEF RunOK
<1> HIDE DEF left
<1>4. /\ DOMAIN run = RunFields /\ run.at = "send" /\ run.queue = left
      /\ run.seen = runner[r].seen /\ run.said = runner[r].said
      /\ run.shown = runner[r].shown
  BY <1>1 DEF RunOK, RunFields
<1> HIDE DEF run
<1>5. RunOK(run)
  BY <1>1, <1>3, <1>4 DEF RunOK
<1>6. Moves(r) /\ runner'[r] = run
  BY <1>2, <1>5, RunReplaced
<1> QED
  BY <1>1, <1>4, <1>6 DEF Keeps, left

\* A push that succeeds or fails, and may have arrived.
LEMMA RunPushes ==
    ASSUME NotifyShape, NEW r \in Runners, Push(r)
    PROVE  /\ Moves(r) /\ Keeps(r) /\ runner'[r].shown = runner[r].shown
           /\ runner[r].at = "send" /\ runner[r].queue # <<>>
           /\ Head(runner[r].queue) \in Reachable
           /\ runner'[r].at = "sent" /\ runner'[r].queue = runner[r].queue
           /\ \/ /\ runner'[r].went /\ Hear(r, Head(runner[r].queue))
                 /\ interruptions' = interruptions
              \/ /\ Hear(r, Head(runner[r].queue)) \/ UNCHANGED <<heard, repeats>>
                 /\ interruptions' = interruptions + 1
<1>1. /\ DOMAIN runner = Runners /\ RunOK(runner[r]) /\ runner[r].at = "send"
      /\ runner[r].queue # <<>> /\ Head(runner[r].queue) \in Reachable
      /\ interruptions \in Nat
  BY DEF NotifyShape, Push
<1>2. PICK ok \in BOOLEAN, arrived \in BOOLEAN :
       /\ ok => arrived
       /\ runner' = [runner EXCEPT ![r].at = "sent", ![r].went = ok]
       /\ IF arrived THEN Hear(r, Head(runner[r].queue)) ELSE UNCHANGED <<heard, repeats>>
       /\ Interrupt(IF ok THEN 0 ELSE 1)
  BY DEF Push
<1> DEFINE run == [runner[r] EXCEPT !.at = "sent", !.went = ok]
<1>3. runner' = [runner EXCEPT ![r] = run]
  BY <1>1, <1>2
<1>4. /\ DOMAIN run = RunFields /\ run.at = "sent" /\ run.queue = runner[r].queue
      /\ run.seen = runner[r].seen /\ run.said = runner[r].said
      /\ run.shown = runner[r].shown /\ run.went = ok
  BY <1>1 DEF RunOK, RunFields
<1> HIDE DEF run
<1>5. RunOK(run)
  BY <1>1, <1>4 DEF RunOK
<1>6. Moves(r) /\ runner'[r] = run
  BY <1>3, <1>5, RunReplaced
<1>7. /\ Moves(r) /\ Keeps(r) /\ runner'[r].shown = runner[r].shown
      /\ runner'[r].at = "sent" /\ runner'[r].queue = runner[r].queue
      /\ runner'[r].went = ok
  BY <1>4, <1>6 DEF Keeps
<1>8. CASE ok
  <2>1. Hear(r, Head(runner[r].queue)) /\ interruptions' = interruptions
    BY <1>1, <1>2, <1>8 DEF Interrupt
  <2> QED
    BY <1>1, <1>7, <1>8, <2>1
<1>9. CASE ~ok
  <2>1. interruptions' = interruptions + 1
    BY <1>1, <1>2, <1>9 DEF Interrupt
  <2>2. Hear(r, Head(runner[r].queue)) \/ UNCHANGED <<heard, repeats>>
    BY <1>2
  <2> QED
    BY <1>1, <1>7, <2>1, <2>2
<1> QED
  BY <1>8, <1>9

LEMMA RunMarks ==
    ASSUME NotifyShape, NEW r \in Runners, MarkNotified(r)
    PROVE  /\ Moves(r) /\ Keeps(r) /\ runner'[r].shown = runner[r].shown
           /\ runner[r].at = "sent" /\ runner'[r].at = "send"
           /\ runner'[r].queue = Tail(runner[r].queue)
           /\ receipts' = Marked(r)
<1>1. /\ DOMAIN runner = Runners /\ RunOK(runner[r]) /\ runner[r].at = "sent"
      /\ runner[r].queue # <<>>
  BY DEF NotifyShape, MarkNotified, RunOK
<1> DEFINE left == Tail(runner[r].queue)
           run == [runner[r] EXCEPT !.at = "send", !.queue = left, !.went = None]
<1>2. runner' = [runner EXCEPT ![r] = run]
  BY <1>1 DEF MarkNotified
<1>3. QueueOK(left)
  BY <1>1, TailOf DEF RunOK
<1> HIDE DEF left
<1>4. /\ DOMAIN run = RunFields /\ run.at = "send" /\ run.queue = left
      /\ run.seen = runner[r].seen /\ run.said = runner[r].said
      /\ run.shown = runner[r].shown
  BY <1>1 DEF RunOK, RunFields
<1> HIDE DEF run
<1>5. RunOK(run)
  BY <1>1, <1>3, <1>4 DEF RunOK
<1>6. Moves(r) /\ runner'[r] = run
  BY <1>2, <1>5, RunReplaced
<1> QED
  BY <1>1, <1>4, <1>6 DEF Keeps, left, MarkNotified

\* Who is under way, and who may still send, after a run's step.
LEMMA UnderWayMoves ==
    ASSUME NotifyShape, NEW r \in Runners, Moves(r)
    PROVE  UnderWay' = IF runner'[r].at # "idle" THEN UnderWay \union {r} ELSE UnderWay \ {r}
BY DEF Moves, UnderWay

LEMMA SpeakersMove ==
    ASSUME NotifyShape, NEW r \in Runners, NEW c, Moves(r)
    PROVE  Speakers(c)' = IF MaySay(runner'[r], c) THEN Speakers(c) \union {r}
                          ELSE Speakers(c) \ {r}
<1>1. ASSUME NEW q \in Runners, q # r PROVE MaySay(runner'[q], c) <=> MaySay(runner[q], c)
  <2>1. runner'[q] = runner[q]
    BY <1>1 DEF Moves
  <2> QED
    BY <2>1
<1>2. Speakers(c)' = {q \in Runners : MaySay(runner'[q], c)}
  BY DEF Speakers, MaySay, Preparing
<1> QED
  BY <1>1, <1>2 DEF Speakers

\* Only those under way may send.
LEMMA SpeakersAreFew ==
    ASSUME NotifyShape, NEW c
    PROVE  /\ Speakers(c) \subseteq UnderWay /\ IsFiniteSet(Speakers(c))
           /\ Cardinality(Speakers(c)) \in Nat
<1>1. Speakers(c) \subseteq UnderWay
  BY DEF Speakers, UnderWay, MaySay, Preparing
<1>2. IsFiniteSet(UnderWay)
  BY DEF NotifyShape
<1> QED
  BY <1>1, <1>2, FS_Subset, FS_CardinalityType
-----------------------------------------------------------------------------
(* The steps, as an account sees them.                                     *)

\* What a set of one or two members, or one more or less, counts.
LEMMA Counting ==
    ASSUME NEW S, IsFiniteSet(S), NEW r, NEW q
    PROVE  /\ Cardinality(S) \in Nat
           /\ S = {} => Cardinality(S) = 0
           /\ S \subseteq {r} => Cardinality(S) <= 1
           /\ S \subseteq {r, q} => Cardinality(S) <= 2
           /\ IsFiniteSet(S \ {r}) /\ IsFiniteSet(S \union {r})
           /\ r \in S => Cardinality(S \ {r}) = Cardinality(S) - 1
           /\ Cardinality(S \union {r}) <= Cardinality(S) + 1
<1>1. Cardinality(S) \in Nat
  BY FS_CardinalityType
<1>2. S = {} => Cardinality(S) = 0
  BY FS_EmptySet
<1>3. Cardinality({r}) = 1 /\ IsFiniteSet({r}) /\ Cardinality({}) = 0
  BY FS_Singleton, FS_EmptySet
<1>4. IsFiniteSet({r} \union {q})
      /\ (Cardinality({r} \union {q}) = 1 \/ Cardinality({r} \union {q}) = 2)
  BY <1>3, FS_AddElement
<1>5. S \subseteq {r} => Cardinality(S) <= 1
  <2> SUFFICES ASSUME S \subseteq {r} PROVE Cardinality(S) <= 1
    OBVIOUS
  <2>1. S \in SUBSET {r}
    OBVIOUS
  <2> QED
    BY <1>3, <2>1, FS_Subset
<1>6. S \subseteq {r, q} => Cardinality(S) <= 2
  <2> SUFFICES ASSUME S \subseteq {r, q} PROVE Cardinality(S) <= 2
    OBVIOUS
  <2>1. S \in SUBSET ({r} \union {q})
    OBVIOUS
  <2>2. Cardinality(S) <= Cardinality({r} \union {q})
    BY <1>4, <2>1, FS_Subset
  <2> QED
    BY <1>1, <1>4, <2>2
<1>7. IsFiniteSet(S \ {r}) /\ Cardinality(S \ {r}) = IF r \in S THEN Cardinality(S) - 1
                                                     ELSE Cardinality(S)
  BY FS_RemoveElement
<1>8. IsFiniteSet(S \union {r}) /\ Cardinality(S \union {r}) =
        IF r \in S THEN Cardinality(S) ELSE Cardinality(S) + 1
  BY FS_AddElement
<1>9. Cardinality(S \union {r}) <= Cardinality(S) + 1
  BY <1>1, <1>8
<1> QED
  BY <1>1, <1>2, <1>5, <1>6, <1>7, <1>8, <1>9

\* A slack is a number.
LEMMA SlackType ==
    ASSUME NotifyShape, NotifyShape', NEW o \in Tracked, NEW c \in Reachable
    PROVE  Slack(o, c) \in Int /\ Slack(o, c)' \in Int
<1>1. c \in Range(Channels)
  BY ReachableAreChannels
<1>2. repeats[o][c] \in Nat /\ interruptions \in Nat
  BY <1>1 DEF NotifyShape
<1>3. repeats'[o][c] \in Nat /\ interruptions' \in Nat
  BY <1>1 DEF NotifyShape
<1> QED
  BY <1>2, <1>3 DEF Slack

\* What every account leaves over.
LEMMA AccountCovers ==
    ASSUME NotifyShape, NotifyShape', NEW o \in Tracked, NEW c \in Reachable, Account(o, c)
    PROVE  \/ Slack(o, c) >= Cardinality(Speakers(c))
           \/ \E r \in Runners : BeforeSend(r, o, c) /\ Speakers(c) = {r}
<1> DEFINE S == Speakers(c)
           x == Slack(o, c)
<1>1. S \subseteq UnderWay /\ IsFiniteSet(S) /\ Cardinality(S) \in Nat /\ x \in Int
  BY SpeakersAreFew, SlackType
<1>2. /\ S = {} => Cardinality(S) = 0
      /\ \A r : S \subseteq {r} => Cardinality(S) <= 1
      /\ \A r, q : S \subseteq {r, q} => Cardinality(S) <= 2
  <2> HIDE DEF S
  <2> QED
    BY <1>1, Counting
<1>3. ASSUME NEW n \in Nat, x >= n, Cardinality(S) <= n PROVE x >= Cardinality(S)
  <2> HIDE DEF S, x
  <2> QED
    BY <1>1, <1>3
<1>4. CASE x >= Cardinality(S) + 1
  <2> HIDE DEF S, x
  <2>1. x >= Cardinality(S)
    BY <1>1, <1>4
  <2> QED
    BY <2>1 DEF S, x
<1>5. CASE UnderWay = {} /\ x >= 0
  <2>1. Cardinality(S) <= 0
    BY <1>1, <1>2, <1>5
  <2> QED
    BY <1>3, <1>5, <2>1
<1>6. CASE \E r \in Runners : Alone(r, o, c)
  <2>1. PICK r \in Runners : UnderWay = {r} /\ x >= 1
    BY <1>6 DEF Alone
  <2>2. Cardinality(S) <= 1
    BY <1>1, <1>2, <2>1
  <2> QED
    BY <1>3, <2>1, <2>2
<1>7. CASE \E r \in Runners : AwaitsNote(r, o, c)
  <2>1. PICK r \in Runners : AwaitsNote(r, o, c)
    BY <1>7
  <2>2. UnderWay = {r} /\ x >= 0
    BY <2>1 DEF AwaitsNote
  <2>3. QueueOK(runner[r].queue) /\ runner[r].queue # <<>>
    BY <2>1 DEF NotifyShape, RunOK, AwaitsNote
  <2>4. c \notin Range(Tail(runner[r].queue))
    BY <2>1, <2>3, TailOf DEF AwaitsNote
  <2>5. ~MaySay(runner[r], c)
    BY <2>1, <2>4 DEF AwaitsNote, MaySay, Preparing
  <2>6. S = {}
    BY <1>1, <2>2, <2>5 DEF Speakers
  <2>7. Cardinality(S) <= 0
    BY <1>2, <2>6
  <2> QED
    BY <1>3, <2>2, <2>7
<1>8. CASE \E r \in Runners : AfterSend(r, o, c)
  <2>1. PICK r \in Runners : UnderWay = {r} /\ x >= 0 /\ ~MaySay(runner[r], c)
    BY <1>8 DEF AfterSend
  <2>2. S = {}
    BY <1>1, <2>1 DEF Speakers
  <2>3. Cardinality(S) <= 0
    BY <1>2, <2>2
  <2> QED
    BY <1>3, <2>1, <2>3
<1>9. CASE \E r \in Runners : BeforeSend(r, o, c)
  <2>1. PICK r \in Runners : BeforeSend(r, o, c)
    BY <1>9
  <2>2. S = {r}
    BY <1>1, <2>1 DEF Speakers, BeforeSend
  <2> QED
    BY <2>1, <2>2
<1>10. CASE \E r, q \in Runners : BothLook(r, q, o, c) \/ FirstLooked(r, q, o, c)
  <2>1. PICK r \in Runners, q \in Runners : UnderWay = {r, q} /\ x >= 2
    BY <1>10 DEF BothLook, FirstLooked
  <2>2. Cardinality(S) <= 2
    BY <1>1, <1>2, <2>1
  <2> QED
    BY <1>3, <2>1, <2>2
<1>11. CASE \E r, q \in Runners : OneRepeated(r, q, o, c)
  <2>1. PICK r \in Runners, q \in Runners :
          UnderWay = {r, q} /\ x >= 1 /\ ~MaySay(runner[q], c)
    BY <1>11 DEF OneRepeated
  <2>2. S \subseteq {r}
    BY <1>1, <2>1 DEF Speakers
  <2>3. Cardinality(S) <= 1
    BY <1>2, <2>2
  <2> QED
    BY <1>3, <2>1, <2>3
<1> QED
  BY <1>4, <1>5, <1>6, <1>7, <1>8, <1>9, <1>10, <1>11 DEF Account

\* An account that is ahead of those who may still send.
LEMMA AheadKept ==
    ASSUME NotifyShape, NotifyShape', NEW o \in Tracked, NEW c \in Reachable,
           NEW n \in Nat, Cardinality(Speakers(c)') <= n, Slack(o, c)' >= n + 1
    PROVE  Account(o, c)'
<1> DEFINE T == Speakers(c)'
           y == Slack(o, c)'
<1>1. Speakers(c)' = {q \in Runners : MaySay(runner'[q], c)}
      /\ UnderWay' = {q \in Runners : runner'[q].at # "idle"}
  BY DEF Speakers, UnderWay, MaySay, Preparing
<1>2. T \in SUBSET (UnderWay') /\ IsFiniteSet(UnderWay')
  BY <1>1 DEF MaySay, Preparing, NotifyShape
<1>3. IsFiniteSet(T) /\ y \in Int
  BY <1>2, FS_Subset, SlackType
<1>4. Cardinality(T) \in Nat
  BY <1>3, FS_CardinalityType
<1>5. y >= Cardinality(T) + 1
  <2> HIDE DEF T, y
  <2>1. Cardinality(T) <= n /\ y >= n + 1
    BY DEF T, y
  <2> QED
    BY <1>3, <1>4, <2>1
<1> QED
  BY <1>5 DEF Account

\* A step that pays: a crash, a failed send, a posting's new ID.
LEMMA PaidStep ==
    ASSUME NotifyShape, NotifyShape', NEW o \in Tracked, NEW c \in Reachable, Account(o, c),
           Slack(o, c)' >= Slack(o, c) + 1, Speakers(c)' \subseteq Speakers(c)
    PROVE  \/ Account(o, c)'
           \/ \E r \in Runners : UnderWay = {r} /\ Speakers(c)' = {r} /\ Slack(o, c)' >= 1
<1> DEFINE S == Speakers(c)
           T == Speakers(c)'
           x == Slack(o, c)
           y == Slack(o, c)'
<1>1. IsFiniteSet(S) /\ Cardinality(S) \in Nat
  BY SpeakersAreFew
<1>2. x \in Int /\ y \in Int
  BY SlackType
<1>3. T \in SUBSET S /\ y >= x + 1
  OBVIOUS
<1>4. Cardinality(T) <= Cardinality(S)
  <2> HIDE DEF S, T
  <2> QED
    BY <1>1, <1>3, FS_Subset
<1>5. CASE x >= Cardinality(S)
  <2>1. y >= Cardinality(S) + 1
    <3> HIDE DEF S, x, y
    <3> QED
      BY <1>1, <1>2, <1>3, <1>5
  <2> QED
    BY <1>1, <1>4, <2>1, AheadKept
<1>6. CASE \E r \in Runners : BeforeSend(r, o, c) /\ S = {r}
  <2>1. PICK r \in Runners : BeforeSend(r, o, c) /\ S = {r}
    BY <1>6
  <2>2. UnderWay = {r} /\ x >= 0
    BY <2>1 DEF BeforeSend
  <2>3. y >= 1
    <3> HIDE DEF S, x, y
    <3> QED
      BY <1>2, <1>3, <2>2
  <2>4. CASE T = {}
    <3>1. Cardinality(T) = 0
      BY <2>4, FS_EmptySet
    <3>2. Cardinality(T) <= 0 /\ y >= 0 + 1 /\ 0 \in Nat
      BY <2>3, <3>1
    <3> QED
      BY <3>2, AheadKept
  <2>5. CASE T # {}
    <3>1. T = {r}
      BY <1>3, <2>1, <2>5
    <3> QED
      BY <2>2, <2>3, <3>1
  <2> QED
    BY <2>4, <2>5
<1> QED
  BY <1>5, <1>6, AccountCovers

\* A runner that crashes.
LEMMA CrashAccounts ==
    ASSUME NotifyShape, NotifyShape', NEW o \in Tracked, NEW c \in Reachable, Account(o, c),
           NEW r \in Runners, Moves(r), runner[r].at # "idle", runner'[r].at = "idle",
           Slack(o, c)' >= Slack(o, c) + 1
    PROVE  Account(o, c)'
<1>1. UnderWay' = UnderWay \ {r}
  BY UnderWayMoves
<1>2. ~MaySay(runner'[r], c)
  BY DEF MaySay, Preparing
<1>3. Speakers(c)' = Speakers(c) \ {r}
  BY <1>2, SpeakersMove
<1>4. Speakers(c) \subseteq UnderWay /\ r \in UnderWay
  BY SpeakersAreFew DEF UnderWay
<1>5. ~\E q \in Runners : UnderWay = {q} /\ Speakers(c)' = {q} /\ Slack(o, c)' >= 1
  BY <1>3, <1>4
<1> QED
  BY <1>3, <1>5, PaidStep

\* A failed send that leaves the channel as it was.
LEMMA FailedAccounts ==
    ASSUME NotifyShape, NotifyShape', NEW o \in Tracked, NEW c \in Reachable, Account(o, c),
           UnderWay' = UnderWay, Speakers(c)' \subseteq Speakers(c),
           Slack(o, c)' >= Slack(o, c) + 1
    PROVE  Account(o, c)'
<1>1. CASE \E r \in Runners : UnderWay = {r} /\ Speakers(c)' = {r} /\ Slack(o, c)' >= 1
  <2>1. PICK r \in Runners : UnderWay = {r} /\ Slack(o, c)' >= 1
    BY <1>1
  <2>2. Alone(r, o, c)'
    BY <2>1 DEF Alone
  <2> QED
    BY <2>2 DEF Account
<1> QED
  BY <1>1, PaidStep

\* A posting's new ID comes between runs.
LEMMA MoveAccounts ==
    ASSUME NotifyShape, NotifyShape', NEW o \in Tracked, NEW c \in Reachable, Account(o, c),
           UnderWay = {}, Speakers(c)' \subseteq Speakers(c),
           Slack(o, c)' >= Slack(o, c) + 1
    PROVE  Account(o, c)'
<1>1. ~\E r \in Runners : UnderWay = {r} /\ Speakers(c)' = {r} /\ Slack(o, c)' >= 1
  OBVIOUS
<1> QED
  BY <1>1, PaidStep

-----------------------------------------------------------------------------
\* Nothing that concerns a posting and a channel changes but the runs.
Calm(o, c) ==
    /\ interruptions' = interruptions /\ (o \in moved' <=> o \in moved)
    /\ repeats'[o][c] = repeats[o][c]
    /\ heard'[o][c] = heard[o][c] /\ receipts'[o] = receipts[o]

LEMMA CalmKeeps ==
    ASSUME NEW o, NEW c, Calm(o, c)
    PROVE  /\ Slack(o, c)' = Slack(o, c)
           /\ Settled(o, c)' <=> Settled(o, c)
           /\ IdOf(o)' = IdOf(o)
           /\ receipts'[o][IdOf(o)'] = receipts[o][IdOf(o)]
<1>1. Slack(o, c)' = Slack(o, c)
  BY DEF Slack, Calm
<1>2. IdOf(o)' = IdOf(o)
  BY DEF IdOf, Calm
<1>3. receipts'[o][IdOf(o)'] = receipts[o][IdOf(o)]
  BY <1>2 DEF Calm
<1>4. Settled(o, c)' <=> Settled(o, c)
  BY <1>3 DEF Settled, Calm, SameMatter, MaterialPay
<1> QED
  BY <1>1, <1>2, <1>3, <1>4

\* The world moves, and no run.
LEMMA WorldAccounts ==
    ASSUME NotifyShape, NotifyShape', NEW o \in Tracked, NEW c \in Reachable, Account(o, c),
           runner' = runner, Calm(o, c)
    PROVE  Account(o, c)'
<1>1. UnderWay' = UnderWay /\ Speakers(c)' = Speakers(c)
  BY DEF UnderWay, Speakers, MaySay, Preparing
<1>2. /\ Slack(o, c)' = Slack(o, c)
      /\ Settled(o, c)' <=> Settled(o, c)
      /\ receipts'[o][IdOf(o)'] = receipts[o][IdOf(o)]
      /\ heard'[o][c] = heard[o][c]
  BY CalmKeeps DEF Calm
<1>3. ASSUME NEW r \in Runners
      PROVE  /\ SaysNews(runner[r], o, c)' <=> SaysNews(runner[r], o, c)
             /\ MaySay(runner[r], c)' <=> MaySay(runner[r], c)
             /\ Preparing(runner[r])' <=> Preparing(runner[r])
  BY <1>2 DEF SaysNews, MaySay, Preparing, SameMatter, MaterialPay
<1>4. CASE Slack(o, c) >= Cardinality(Speakers(c)) + 1
  BY <1>1, <1>2, <1>4 DEF Account
<1>5. CASE UnderWay = {} /\ Slack(o, c) >= 0 /\ Settled(o, c)
  BY <1>1, <1>2, <1>5 DEF Account
<1>6. ASSUME NEW r \in Runners, Alone(r, o, c) PROVE Account(o, c)'
  BY <1>1, <1>2, <1>6 DEF Account, Alone
<1>7. ASSUME NEW r \in Runners, BeforeSend(r, o, c) PROVE Account(o, c)'
  <2>1. BeforeSend(r, o, c)'
    BY <1>1, <1>2, <1>3, <1>7 DEF BeforeSend
  <2> QED
    BY <2>1 DEF Account
<1>8. ASSUME NEW r \in Runners, AwaitsNote(r, o, c) PROVE Account(o, c)'
  <2>1. AwaitsNote(r, o, c)'
    BY <1>1, <1>2, <1>8 DEF AwaitsNote
  <2> QED
    BY <2>1 DEF Account
<1>9. ASSUME NEW r \in Runners, AfterSend(r, o, c) PROVE Account(o, c)'
  <2>1. AfterSend(r, o, c)'
    BY <1>1, <1>2, <1>3, <1>9 DEF AfterSend, SameMatter, MaterialPay
  <2> QED
    BY <2>1 DEF Account
<1>10. ASSUME NEW r \in Runners, NEW q \in Runners, BothLook(r, q, o, c) PROVE Account(o, c)'
  <2>1. BothLook(r, q, o, c)'
    BY <1>1, <1>2, <1>10 DEF BothLook
  <2> QED
    BY <2>1 DEF Account
<1>11. ASSUME NEW r \in Runners, NEW q \in Runners, FirstLooked(r, q, o, c) PROVE Account(o, c)'
  <2>1. FirstLooked(r, q, o, c)'
    BY <1>1, <1>2, <1>3, <1>11 DEF FirstLooked
  <2> QED
    BY <2>1 DEF Account
<1>12. ASSUME NEW r \in Runners, NEW q \in Runners, OneRepeated(r, q, o, c) PROVE Account(o, c)'
  <2>1. OneRepeated(r, q, o, c)'
    BY <1>1, <1>2, <1>3, <1>12 DEF OneRepeated
  <2> QED
    BY <2>1 DEF Account
<1> QED
  BY <1>4, <1>5, <1>6, <1>7, <1>8, <1>9, <1>10, <1>11, <1>12 DEF Account

-----------------------------------------------------------------------------
\* A run goes on, and what it may still say to a channel stays the same.
Advances(r, c) ==
    /\ Moves(r) /\ Keeps(r)
    /\ runner[r].at \in {"annotated", "recorded", "send", "sent"}
    /\ runner'[r].at \in {"recorded", "send", "sent"}
    /\ MaySay(runner'[r], c) <=> MaySay(runner[r], c)
    /\ \/ Preparing(runner[r])
       \/ ~Preparing(runner'[r]) /\ runner'[r].shown = runner[r].shown

\* Who is under way and may still send, when a run goes on.
LEMMA AdvanceKeeps ==
    ASSUME NotifyShape, NEW c, NEW r \in Runners, Advances(r, c)
    PROVE  /\ UnderWay' = UnderWay /\ Speakers(c)' = Speakers(c)
           /\ r \in UnderWay
           /\ \A q \in Runners : /\ MaySay(runner[q], c)' <=> MaySay(runner[q], c)
                                 /\ runner'[q].said = runner[q].said
                                 /\ runner'[q].seen = runner[q].seen
                                 /\ runner[q].at # "fetched" <=> runner'[q].at # "fetched"
<1>1. r \in UnderWay /\ Moves(r) /\ runner'[r].at # "idle"
  BY DEF Advances, UnderWay
<1>2. UnderWay' = UnderWay
  BY <1>1, UnderWayMoves
<1>3. r \in Speakers(c) <=> MaySay(runner'[r], c)
  BY DEF Advances, Speakers
<1>4. Speakers(c)' = Speakers(c)
  BY <1>1, <1>3, SpeakersMove
<1>5. ASSUME NEW q \in Runners
      PROVE  /\ MaySay(runner[q], c)' <=> MaySay(runner[q], c)
             /\ runner'[q].said = runner[q].said
             /\ runner'[q].seen = runner[q].seen
             /\ runner[q].at # "fetched" <=> runner'[q].at # "fetched"
  <2>1. CASE q = r
    <3>1. MaySay(runner[q], c)' <=> MaySay(runner'[r], c)
      BY <2>1 DEF MaySay, Preparing
    <3> QED
      BY <2>1, <3>1 DEF Advances, Keeps
  <2>2. CASE q # r
    <3>1. runner'[q] = runner[q]
      BY <2>2 DEF Advances, Moves
    <3> QED
      BY <3>1 DEF MaySay, Preparing
  <2> QED
    BY <2>1, <2>2
<1> QED
  BY <1>1, <1>2, <1>4, <1>5

\* A run goes on, and the channel and the receipts of the posting stay.
LEMMA AdvanceAccounts ==
    ASSUME NotifyShape, NotifyShape', NEW o \in Tracked, NEW c \in Reachable, Account(o, c),
           NEW r \in Runners, Advances(r, c), runner[r].at # "sent", Calm(o, c)
    PROVE  Account(o, c)'
<1>1. /\ UnderWay' = UnderWay /\ Speakers(c)' = Speakers(c)
      /\ r \in UnderWay
  BY AdvanceKeeps
<1>2. /\ Slack(o, c)' = Slack(o, c)
      /\ Settled(o, c)' <=> Settled(o, c)
      /\ receipts'[o][IdOf(o)'] = receipts[o][IdOf(o)]
      /\ heard'[o][c] = heard[o][c]
  BY CalmKeeps DEF Calm
<1>3. ASSUME NEW q \in Runners
      PROVE  /\ SaysNews(runner[q], o, c)' <=> SaysNews(runner[q], o, c)
             /\ MaySay(runner[q], c)' <=> MaySay(runner[q], c)
             /\ runner'[q].said = runner[q].said
             /\ runner'[q].seen = runner[q].seen
             /\ runner[q].at # "fetched" <=> runner'[q].at # "fetched"
  <2>1. /\ runner'[q].said = runner[q].said
        /\ runner'[q].seen = runner[q].seen
        /\ MaySay(runner[q], c)' <=> MaySay(runner[q], c)
        /\ runner[q].at # "fetched" <=> runner'[q].at # "fetched"
    BY AdvanceKeeps
  <2>2. SaysNews(runner[q], o, c)' <=> SaysNews(runner[q], o, c)
    BY <1>2, <2>1 DEF SaysNews, SameMatter, MaterialPay
  <2> QED
    BY <2>1, <2>2
<1>4. CASE Slack(o, c) >= Cardinality(Speakers(c)) + 1
  BY <1>1, <1>2, <1>4 DEF Account
<1>5. CASE UnderWay = {} /\ Slack(o, c) >= 0 /\ Settled(o, c)
  BY <1>1, <1>5
<1>6. ASSUME NEW q \in Runners, Alone(q, o, c) PROVE Account(o, c)'
  BY <1>1, <1>2, <1>6 DEF Account, Alone
<1>7. ASSUME NEW q \in Runners, BeforeSend(q, o, c) PROVE Account(o, c)'
  <2>1. q = r
    BY <1>1, <1>7 DEF BeforeSend
  <2>2. Settled(o, c)' \/ (~Preparing(runner[r])' /\ o \in runner[r].shown')
    <3>1. CASE Settled(o, c)
      BY <1>2, <3>1
    <3>2. CASE ~Preparing(runner[r]) /\ o \in runner[r].shown
      <4>1. ~Preparing(runner'[r]) /\ runner'[r].shown = runner[r].shown
        BY <3>2 DEF Advances
      <4> QED
        BY <3>2, <4>1 DEF Preparing
    <3> QED
      BY <1>7, <2>1, <3>1, <3>2 DEF BeforeSend
  <2>3. BeforeSend(q, o, c)'
    BY <1>1, <1>2, <1>3, <1>7, <2>1, <2>2 DEF BeforeSend
  <2> QED
    BY <2>3 DEF Account
<1>8. ASSUME NEW q \in Runners, AwaitsNote(q, o, c) PROVE Account(o, c)'
  BY <1>1, <1>8 DEF AwaitsNote
<1>9. ASSUME NEW q \in Runners, AfterSend(q, o, c) PROVE Account(o, c)'
  <2>1. q = r
    BY <1>1, <1>9 DEF AfterSend
  <2>2. ~Preparing(runner[r])
    BY <1>9, <2>1 DEF AfterSend, MaySay
  <2>3. runner'[r].shown = runner[r].shown
    BY <2>2 DEF Advances
  <2>4. AfterSend(q, o, c)'
    BY <1>1, <1>2, <1>3, <1>9, <2>1, <2>3 DEF AfterSend, SameMatter, MaterialPay
  <2> QED
    BY <2>4 DEF Account
<1>10. ASSUME NEW p \in Runners, NEW q \in Runners, BothLook(p, q, o, c) PROVE Account(o, c)'
  BY <1>1, <1>10 DEF BothLook, Advances
<1>11. ASSUME NEW p \in Runners, NEW q \in Runners, FirstLooked(p, q, o, c) PROVE Account(o, c)'
  <2>1. FirstLooked(p, q, o, c)'
    BY <1>1, <1>2, <1>3, <1>11 DEF FirstLooked
  <2> QED
    BY <2>1 DEF Account
<1>12. ASSUME NEW p \in Runners, NEW q \in Runners, OneRepeated(p, q, o, c) PROVE Account(o, c)'
  <2>1. OneRepeated(p, q, o, c)'
    BY <1>1, <1>2, <1>3, <1>12 DEF OneRepeated
  <2> QED
    BY <2>1 DEF Account
<1> QED
  BY <1>4, <1>5, <1>6, <1>7, <1>8, <1>9, <1>10, <1>11, <1>12 DEF Account

\* A note: what was sent becomes the newest receipt, and no receipt is lost.
Noted(r, o) ==
    IF o \in runner[r].shown /\ runner[r].went
    THEN /\ receipts'[o][IdOf(o)] # <<>>
         /\ Last(receipts'[o][IdOf(o)]) = runner[r].seen[o]
    ELSE receipts'[o] = receipts[o]

LEMMA MarkAccounts ==
    ASSUME NotifyShape, NotifyShape', NEW o \in Tracked, NEW c \in Reachable, Account(o, c),
           NEW r \in Runners, Advances(r, c), runner[r].at = "sent", Noted(r, o),
           runner'[r].at = "send", runner'[r].queue = Tail(runner[r].queue),
           heard' = heard, repeats' = repeats, moved' = moved,
           interruptions' = interruptions
    PROVE  Account(o, c)'
<1>1. /\ UnderWay' = UnderWay /\ Speakers(c)' = Speakers(c)
      /\ r \in UnderWay
  BY AdvanceKeeps
<1>2. /\ Slack(o, c)' = Slack(o, c)
      /\ IdOf(o)' = IdOf(o)
      /\ heard'[o][c] = heard[o][c]
  BY DEF Slack, IdOf
<1>3. ASSUME NEW q \in Runners
      PROVE  /\ SaysNews(runner[q], o, c)' <=> SaysNews(runner[q], o, c)
             /\ MaySay(runner[q], c)' <=> MaySay(runner[q], c)
             /\ runner'[q].said = runner[q].said
             /\ runner'[q].seen = runner[q].seen
             /\ runner[q].at # "fetched" <=> runner'[q].at # "fetched"
  <2>1. /\ runner'[q].said = runner[q].said
        /\ runner'[q].seen = runner[q].seen
        /\ MaySay(runner[q], c)' <=> MaySay(runner[q], c)
        /\ runner[q].at # "fetched" <=> runner'[q].at # "fetched"
    BY AdvanceKeeps
  <2>2. SaysNews(runner[q], o, c)' <=> SaysNews(runner[q], o, c)
    BY <1>2, <2>1 DEF SaysNews, SameMatter, MaterialPay
  <2> QED
    BY <2>1, <2>2
<1>4. ~Preparing(runner[r]) /\ ~Preparing(runner[r])' /\ runner'[r].shown = runner[r].shown
  BY DEF Advances, Preparing
<1>5. receipts[o][IdOf(o)] # <<>> => receipts'[o][IdOf(o)'] # <<>>
  BY <1>2 DEF Noted
<1>6. ~(o \in runner[r].shown /\ runner[r].went) => (Settled(o, c)' <=> Settled(o, c))
  BY <1>2 DEF Noted, Settled, SameMatter, MaterialPay
<1>7. CASE Slack(o, c) >= Cardinality(Speakers(c)) + 1
  BY <1>1, <1>2, <1>7 DEF Account
<1>8. CASE UnderWay = {} /\ Slack(o, c) >= 0 /\ Settled(o, c)
  BY <1>1, <1>8
<1>9. ASSUME NEW q \in Runners, Alone(q, o, c) PROVE Account(o, c)'
  BY <1>1, <1>2, <1>9 DEF Account, Alone
<1>10. ASSUME NEW q \in Runners, BeforeSend(q, o, c) PROVE Account(o, c)'
  <2>1. q = r
    BY <1>1, <1>10 DEF BeforeSend
  <2>2. Settled(o, c)' \/ (~Preparing(runner[r])' /\ o \in runner[r].shown')
    <3>1. CASE o \in runner[r].shown
      BY <1>4, <3>1
    <3>2. CASE o \notin runner[r].shown
      BY <1>6, <1>10, <2>1, <3>2 DEF BeforeSend
    <3> QED
      BY <3>1, <3>2
  <2>3. BeforeSend(q, o, c)'
    BY <1>1, <1>2, <1>3, <1>5, <1>10, <2>1, <2>2 DEF BeforeSend
  <2> QED
    BY <2>3 DEF Account
<1>11. ASSUME NEW q \in Runners, AwaitsNote(q, o, c) PROVE Account(o, c)'
  <2>1. q = r
    BY <1>1, <1>11 DEF AwaitsNote
  <2>2. /\ o \in runner[r].shown /\ runner[r].went
        /\ heard[o][c] = runner[r].seen[o] /\ Head(runner[r].queue) = c
        /\ UnderWay = {r} /\ Slack(o, c) >= 0
    BY <1>11, <2>1 DEF AwaitsNote
  <2>3. QueueOK(runner[r].queue) /\ runner[r].queue # <<>>
    BY DEF NotifyShape, RunOK
  <2>4. ~MaySay(runner[r], c)'
    <3>1. c \notin Range(Tail(runner[r].queue))
      BY <2>2, <2>3, TailOf
    <3> QED
      BY <3>1 DEF MaySay, Preparing
  <2>5. Settled(o, c)'
    <3>1. receipts'[o][IdOf(o)'] # <<>> /\ Last(receipts'[o][IdOf(o)']) = heard'[o][c]
      BY <1>2, <2>2 DEF Noted
    <3> QED
      BY <3>1 DEF Settled, SameMatter, MaterialPay
  <2>6. SameMatter(runner[r].seen[o], heard[o][c])'
    <3>1. runner'[r].seen[o] = heard'[o][c]
      BY <1>2, <1>3, <2>2
    <3> QED
      BY <3>1 DEF SameMatter, MaterialPay
  <2>7. AfterSend(r, o, c)'
    BY <1>1, <1>2, <2>2, <2>4, <2>5, <2>6 DEF AfterSend
  <2> QED
    BY <2>7 DEF Account
<1>12. ASSUME NEW q \in Runners, AfterSend(q, o, c) PROVE Account(o, c)'
  <2>1. q = r
    BY <1>1, <1>12 DEF AfterSend
  <2>2. (o \in runner[r].shown /\ heard[o][c] # None =>
         SameMatter(runner[r].seen[o], heard[o][c]))
        /\ Settled(o, c)
    BY <1>12, <2>1 DEF AfterSend
  <2>3. Settled(o, c)'
    <3>1. CASE o \in runner[r].shown /\ runner[r].went
      <4>1. receipts'[o][IdOf(o)'] # <<>>
            /\ Last(receipts'[o][IdOf(o)']) = runner[r].seen[o]
        BY <1>2, <3>1 DEF Noted
      <4> QED
        BY <1>2, <2>2, <3>1, <4>1 DEF Settled, SameMatter, MaterialPay
    <3> QED
      BY <1>6, <2>2, <3>1
  <2>4. (o \in runner[r].shown /\ heard[o][c] # None =>
         SameMatter(runner[r].seen[o], heard[o][c]))'
    BY <1>2, <1>3, <1>4, <2>2 DEF SameMatter, MaterialPay
  <2>5. AfterSend(r, o, c)'
    BY <1>1, <1>2, <1>3, <1>12, <2>1, <2>3, <2>4 DEF AfterSend
  <2> QED
    BY <2>5 DEF Account
<1>13. ASSUME NEW p \in Runners, NEW q \in Runners, BothLook(p, q, o, c) PROVE Account(o, c)'
  BY <1>1, <1>13 DEF BothLook, Advances
<1>14. ASSUME NEW p \in Runners, NEW q \in Runners, FirstLooked(p, q, o, c) PROVE Account(o, c)'
  <2>1. FirstLooked(p, q, o, c)'
    BY <1>1, <1>2, <1>3, <1>5, <1>14 DEF FirstLooked
  <2> QED
    BY <2>1 DEF Account
<1>15. ASSUME NEW p \in Runners, NEW q \in Runners, OneRepeated(p, q, o, c) PROVE Account(o, c)'
  <2>1. OneRepeated(p, q, o, c)'
    BY <1>1, <1>2, <1>3, <1>15 DEF OneRepeated
  <2> QED
    BY <2>1 DEF Account
<1> QED
  BY <1>7, <1>8, <1>9, <1>10, <1>11, <1>12, <1>13, <1>14, <1>15 DEF Account

-----------------------------------------------------------------------------
\* A posting with a receipt under its ID is not new, and a change of it is one
\* against the newest receipt.
LEMMA TransitionOfKnown ==
    ASSUME NEW engine, NEW o, NEW f, receipts[o][IdOf(o)] # <<>>
    PROVE  /\ Transition(engine, o, f) # "new"
           /\ Transition(engine, o, f) = "material_change" =>
                ~SameMatter(Last(receipts[o][IdOf(o)]), f)
<1>1. DailyBaseline(o, f) = <<recorded[o][IdOf(o)]>>
  BY DEF DailyBaseline
<1>2. DailyBaseline(o, f) # <<>>
  BY <1>1
<1>3. DailyTransition(o, f) # "new" /\ DailyTransition(o, f) # "material_change"
  <2> DEFINE old == DailyBaseline(o, f)[1]
  <2>1. DailyTransition(o, f) = IF f.band = "rejected" THEN "none" ELSE
          IF old.band = "verify" /\ f.band = "primary" THEN "promoted"
          ELSE IF old.band = "rejected" THEN "restored"
          ELSE IF old.url # f.url /\ f.band = "primary" THEN "canonicalized"
          ELSE IF old.pay = None /\ f.pay # None THEN "pay_resolved"
          ELSE "none"
    BY <1>2 DEF DailyTransition
  <2> HIDE DEF old
  <2> QED
    BY <2>1
<1>4. Delivered(o) = <<Last(receipts[o][IdOf(o)])>>
  BY DEF Delivered
<1>5. Delivered(o) # <<>> /\ Delivered(o)[1] = Last(receipts[o][IdOf(o)])
  BY <1>4
<1>6. /\ ReleaseTransition(o, f) # "new"
      /\ ReleaseTransition(o, f) = "material_change" =>
           ~SameMatter(Last(receipts[o][IdOf(o)]), f)
  BY <1>5 DEF ReleaseTransition
<1> QED
  BY <1>3, <1>6 DEF Transition

\* A run looks: what it says of a settled posting is no repetition.
LEMMA AnnotateAccounts ==
    ASSUME NotifyShape, NotifyShape', NEW o \in Tracked, NEW c \in Reachable, Account(o, c),
           NEW r \in Runners, Moves(r), Calm(o, c), runner[r].at = "fetched",
           runner'[r].at = "annotated", runner'[r].seen = runner[r].seen,
           NEW engine,
           runner'[r].said[o] = Transition(engine, o, runner[r].seen[o])
    PROVE  Account(o, c)'
<1>1. UnderWay' = UnderWay /\ r \in UnderWay
  <2>1. r \in UnderWay /\ runner'[r].at # "idle"
    BY DEF UnderWay
  <2> QED
    BY <2>1, UnderWayMoves
<1>2. /\ Slack(o, c)' = Slack(o, c)
      /\ Settled(o, c)' <=> Settled(o, c)
      /\ receipts'[o][IdOf(o)'] = receipts[o][IdOf(o)]
      /\ heard'[o][c] = heard[o][c]
  BY CalmKeeps DEF Calm
<1>3. MaySay(runner[r], c) /\ MaySay(runner'[r], c) /\ Preparing(runner[r])
      /\ Preparing(runner[r])' /\ MaySay(runner[r], c)'
  BY DEF MaySay, Preparing
<1>4. Speakers(c)' = Speakers(c)
  <2>1. r \in Speakers(c)
    BY <1>3 DEF Speakers
  <2> QED
    BY <1>3, <2>1, SpeakersMove
<1>5. receipts[o][IdOf(o)] # <<>> => runner'[r].said[o] # "new"
  BY TransitionOfKnown
<1>6. ASSUME Settled(o, c) PROVE SaysNews(runner[r], o, c)'
  <2> SUFFICES ASSUME heard[o][c] # None
               PROVE  /\ runner'[r].said[o] # "new"
                      /\ runner'[r].said[o] = "material_change" =>
                           ~SameMatter(heard[o][c], runner[r].seen[o])
    BY <1>2 DEF SaysNews, SameMatter, MaterialPay
  <2>1. receipts[o][IdOf(o)] # <<>>
        /\ SameMatter(Last(receipts[o][IdOf(o)]), heard[o][c])
    BY <1>6 DEF Settled
  <2>2. runner'[r].said[o] = "material_change" =>
          ~SameMatter(Last(receipts[o][IdOf(o)]), runner[r].seen[o])
    BY <2>1, TransitionOfKnown
  <2> QED
    BY <1>5, <2>1, <2>2 DEF SameMatter
<1>7. ASSUME NEW q \in Runners, q # r
      PROVE  /\ runner'[q] = runner[q]
             /\ SaysNews(runner[q], o, c)' <=> SaysNews(runner[q], o, c)
             /\ MaySay(runner[q], c)' <=> MaySay(runner[q], c)
  <2>1. runner'[q] = runner[q]
    BY <1>7 DEF Moves
  <2> QED
    BY <1>2, <2>1 DEF SaysNews, SameMatter, MaterialPay, MaySay, Preparing
<1>8. CASE Slack(o, c) >= Cardinality(Speakers(c)) + 1
  BY <1>2, <1>4, <1>8 DEF Account
<1>9. CASE UnderWay = {} /\ Slack(o, c) >= 0 /\ Settled(o, c)
  BY <1>1, <1>9
<1>10. ASSUME NEW q \in Runners, Alone(q, o, c) PROVE Account(o, c)'
  BY <1>1, <1>2, <1>10 DEF Account, Alone
<1>11. ASSUME NEW q \in Runners, BeforeSend(q, o, c) PROVE Account(o, c)'
  <2>1. q = r
    BY <1>1, <1>11 DEF BeforeSend
  <2>2. Settled(o, c)
    BY <1>3, <1>11, <2>1 DEF BeforeSend
  <2>3. SaysNews(runner[r], o, c)'
    BY <1>6, <2>2
  <2>4. BeforeSend(r, o, c)'
    BY <1>1, <1>2, <1>3, <1>11, <2>1, <2>2, <2>3 DEF BeforeSend
  <2> QED
    BY <2>4 DEF Account
<1>12. ASSUME NEW q \in Runners, AwaitsNote(q, o, c) PROVE Account(o, c)'
  BY <1>1, <1>12 DEF AwaitsNote
<1>13. ASSUME NEW q \in Runners, AfterSend(q, o, c) PROVE Account(o, c)'
  BY <1>1, <1>3, <1>13 DEF AfterSend
<1>14. ASSUME NEW p \in Runners, NEW q \in Runners, BothLook(p, q, o, c) PROVE Account(o, c)'
  <2>1. PICK n \in Runners : UnderWay = {r, n} /\ r # n /\ runner[n].at = "fetched"
    BY <1>1, <1>14 DEF BothLook
  <2>2. Slack(o, c) >= 2 /\ Settled(o, c)
    BY <1>14 DEF BothLook
  <2>3. runner'[n].at = "fetched"
    BY <1>7, <2>1
  <2>4. SaysNews(runner[r], o, c)'
    BY <1>6, <2>2
  <2>5. heard'[o][c] # None => receipts'[o][IdOf(o)'] # <<>>
    BY <1>2, <2>2 DEF Settled
  <2>6. FirstLooked(r, n, o, c)'
    BY <1>1, <1>2, <2>1, <2>2, <2>3, <2>4, <2>5 DEF FirstLooked
  <2> QED
    BY <2>6 DEF Account
<1>15. ASSUME NEW p \in Runners, NEW q \in Runners, FirstLooked(p, q, o, c) PROVE Account(o, c)'
  <2>1. q = r /\ p # r
    BY <1>1, <1>15 DEF FirstLooked
  <2>2. SaysNews(runner[p], o, c)' /\ runner'[p].at # "fetched"
    BY <1>7, <1>15, <2>1 DEF FirstLooked
  <2>3. FirstLooked(p, r, o, c)'
    BY <1>1, <1>2, <1>5, <1>15, <2>1, <2>2 DEF FirstLooked
  <2> QED
    BY <2>3 DEF Account
<1>16. ASSUME NEW p \in Runners, NEW q \in Runners, OneRepeated(p, q, o, c) PROVE Account(o, c)'
  BY <1>1, <1>3, <1>16 DEF OneRepeated
<1> QED
  BY <1>8, <1>9, <1>10, <1>11, <1>12, <1>13, <1>14, <1>15, <1>16 DEF Account

\* A run that ends before it sends anything, or after all.
LEMMA EndAccounts ==
    ASSUME NotifyShape, NotifyShape', NEW o \in Tracked, NEW c \in Reachable, Account(o, c),
           NEW r \in Runners, Moves(r), Calm(o, c), runner'[r].at = "idle",
           \/ runner[r].at = "recorded"
           \/ runner[r].at = "send" /\ ~MaySay(runner[r], c)
    PROVE  Account(o, c)'
<1> DEFINE S == Speakers(c)
           x == Slack(o, c)
<1>1. UnderWay' = UnderWay \ {r} /\ r \in UnderWay
  BY UnderWayMoves DEF UnderWay
<1>2. /\ Slack(o, c)' = x
      /\ Settled(o, c)' <=> Settled(o, c)
  BY CalmKeeps
<1>3. Speakers(c)' = S \ {r}
  <2>1. ~MaySay(runner'[r], c)
    BY DEF MaySay, Preparing
  <2> QED
    BY <2>1, SpeakersMove
<1>4. S \subseteq UnderWay /\ IsFiniteSet(S) /\ Cardinality(S) \in Nat /\ x \in Int
  BY SpeakersAreFew, SlackType
<1>5. /\ IsFiniteSet(S \ {r})
      /\ \A q : S \ {r} \subseteq {q} => Cardinality(S \ {r}) <= 1
      /\ S \ {r} = {} => Cardinality(S \ {r}) <= 0
      /\ Cardinality(S \ {r}) <= Cardinality(S)
  <2> HIDE DEF S
  <2>1. IsFiniteSet(S \ {r})
    BY <1>4, Counting
  <2>2. S \ {r} \in SUBSET S
    OBVIOUS
  <2>3. Cardinality(S \ {r}) <= Cardinality(S)
    BY <1>4, <2>2, FS_Subset
  <2>4. S \ {r} = {} => Cardinality(S \ {r}) <= 0
    BY FS_EmptySet
  <2> QED
    BY <2>1, <2>3, <2>4, Counting
<1>6. CASE x >= Cardinality(S) + 1
  <2>1. Cardinality(Speakers(c)') <= Cardinality(S)
    BY <1>3, <1>5
  <2>2. Slack(o, c)' >= Cardinality(S) + 1
    BY <1>2, <1>6
  <2> QED
    BY <1>4, <2>1, <2>2, AheadKept
<1>7. CASE UnderWay = {} /\ Slack(o, c) >= 0 /\ Settled(o, c)
  BY <1>1, <1>7
<1>8. ASSUME x >= 1, S \ {r} = {} PROVE Account(o, c)'
  <2>1. Cardinality(Speakers(c)') <= 0 /\ Slack(o, c)' >= 0 + 1 /\ 0 \in Nat
    BY <1>2, <1>3, <1>5, <1>8
  <2> QED
    BY <2>1, AheadKept
<1>9. ASSUME NEW q \in Runners, Alone(q, o, c) PROVE Account(o, c)'
  BY <1>1, <1>4, <1>8, <1>9 DEF Alone
<1>10. ASSUME UnderWay = {r}, x >= 0, Settled(o, c) PROVE Account(o, c)'
  BY <1>1, <1>2, <1>10 DEF Account
<1>11. ASSUME NEW q \in Runners, BeforeSend(q, o, c) PROVE Account(o, c)'
  <2>1. q = r
    BY <1>1, <1>11 DEF BeforeSend
  <2>2. Preparing(runner[r])
    BY <1>11, <2>1 DEF BeforeSend, Preparing
  <2> QED
    BY <1>10, <1>11, <2>1, <2>2 DEF BeforeSend
<1>12. ASSUME NEW q \in Runners, AwaitsNote(q, o, c) PROVE Account(o, c)'
  BY <1>1, <1>12 DEF AwaitsNote
<1>13. ASSUME NEW q \in Runners, AfterSend(q, o, c) PROVE Account(o, c)'
  BY <1>1, <1>10, <1>13 DEF AfterSend
<1>14. ASSUME NEW p \in Runners, NEW q \in Runners, BothLook(p, q, o, c) PROVE Account(o, c)'
  BY <1>1, <1>14 DEF BothLook
<1>15. ASSUME NEW p \in Runners, NEW q \in Runners, FirstLooked(p, q, o, c) PROVE Account(o, c)'
  <2>1. PICK n : S \ {r} \subseteq {n}
    BY <1>1, <1>4, <1>15 DEF FirstLooked
  <2>2. x >= 2
    BY <1>15 DEF FirstLooked
  <2>3. x >= 1 + 1
    <3> HIDE DEF x
    <3> QED
      BY <1>4, <2>2
  <2>4. Cardinality(Speakers(c)') <= 1
    BY <1>3, <1>5, <2>1
  <2> QED
    BY <1>2, <2>3, <2>4, AheadKept
<1>16. ASSUME NEW p \in Runners, NEW q \in Runners, OneRepeated(p, q, o, c) PROVE Account(o, c)'
  <2>1. x >= 1 /\ q \notin S /\ UnderWay = {p, q} /\ p # q
    BY <1>16 DEF OneRepeated, Speakers
  <2>2. CASE r = p
    <3>1. S \ {r} = {}
      BY <1>4, <2>1, <2>2
    <3> QED
      BY <1>8, <2>1, <3>1
  <2>3. CASE r = q
    <3>1. Alone(p, o, c)'
      BY <1>1, <1>2, <2>1, <2>3 DEF Alone
    <3> QED
      BY <3>1 DEF Account
  <2> QED
    BY <1>1, <2>1, <2>2, <2>3
<1> QED
  BY <1>6, <1>7, <1>9, <1>11, <1>12, <1>13, <1>14, <1>15, <1>16 DEF Account

\* A run that begins, alone or beside another.
LEMMA StartAccounts ==
    ASSUME NotifyShape, NotifyShape', NEW o \in Tracked, NEW c \in Reachable, Account(o, c),
           NEW r \in Runners, Moves(r), runner[r].at = "idle", runner'[r].at = "fetched",
           moved' = moved, repeats' = repeats, heard' = heard, receipts' = receipts,
           interruptions' = interruptions + (IF UnderWay = {} THEN 0 ELSE 2)
    PROVE  Account(o, c)'
<1> DEFINE S == Speakers(c)
           x == Slack(o, c)
           y == Slack(o, c)'
<1>1. UnderWay' = UnderWay \union {r} /\ r \notin UnderWay
  BY UnderWayMoves DEF UnderWay
<1>2. MaySay(runner[r], c)' /\ Preparing(runner[r])'
  BY DEF MaySay, Preparing
<1>3. Speakers(c)' = S \union {r}
  <2>1. MaySay(runner'[r], c)
    BY DEF MaySay, Preparing
  <2> QED
    BY <2>1, SpeakersMove
<1>4. S \subseteq UnderWay /\ IsFiniteSet(S) /\ Cardinality(S) \in Nat
      /\ x \in Int /\ y \in Int
  BY SpeakersAreFew, SlackType
<1>5. Cardinality(S \union {r}) <= Cardinality(S) + 1
  <2> HIDE DEF S
  <2> QED
    BY <1>4, Counting
<1>6. /\ IdOf(o)' = IdOf(o)
      /\ Settled(o, c)' <=> Settled(o, c)
  BY DEF IdOf, Settled, SameMatter, MaterialPay
<1>7. CASE UnderWay = {}
  <2>1. y = x
    <3>1. interruptions' = interruptions
      BY <1>7 DEF NotifyShape
    <3> QED
      BY <3>1 DEF Slack
  <2>2. UnderWay' = {r}
    BY <1>1, <1>7
  <2>3. CASE x >= Cardinality(S) + 1
    <3>1. Cardinality(S) = 0
      BY <1>4, <1>7, FS_EmptySet
    <3>2. y >= 1
      BY <2>1, <2>3, <3>1
    <3>3. Alone(r, o, c)'
      BY <2>2, <3>2 DEF Alone
    <3> QED
      BY <3>3 DEF Account
  <2>4. CASE x >= 0 /\ Settled(o, c)
    <3>1. heard'[o][c] # None => receipts'[o][IdOf(o)'] # <<>>
      BY <1>6, <2>4 DEF Settled
    <3>2. BeforeSend(r, o, c)'
      BY <1>2, <1>6, <2>1, <2>2, <2>4, <3>1 DEF BeforeSend
    <3> QED
      BY <3>2 DEF Account
  <2>5. ASSUME NEW q \in Runners
        PROVE  ~(Alone(q, o, c) \/ BeforeSend(q, o, c) \/ AwaitsNote(q, o, c)
                 \/ AfterSend(q, o, c))
    BY <1>7 DEF Alone, BeforeSend, AwaitsNote, AfterSend
  <2>6. ASSUME NEW p \in Runners, NEW q \in Runners
        PROVE  ~(BothLook(p, q, o, c) \/ FirstLooked(p, q, o, c) \/ OneRepeated(p, q, o, c))
    BY <1>7 DEF BothLook, FirstLooked, OneRepeated
  <2> QED
    BY <2>3, <2>4, <2>5, <2>6 DEF Account
<1>8. CASE UnderWay # {}
  <2>1. y = x + 2
    <3>1. c \in Range(Channels)
      BY ReachableAreChannels
    <3>2. repeats[o][c] \in Nat /\ interruptions \in Nat /\ interruptions' = interruptions + 2
      BY <1>8, <3>1 DEF NotifyShape
    <3> QED
      BY <3>2 DEF Slack
  <2>2. CASE x >= Cardinality(S)
    <3>1. y >= (Cardinality(S) + 1) + 1 /\ Cardinality(S) + 1 \in Nat
      <4> HIDE DEF S, x, y
      <4> QED
        BY <1>4, <2>1, <2>2
    <3>2. Cardinality(Speakers(c)') <= Cardinality(S) + 1
      BY <1>3, <1>5
    <3> QED
      BY <3>1, <3>2, AheadKept
  <2>3. CASE \E q \in Runners : BeforeSend(q, o, c) /\ S = {q}
    <3>1. PICK q \in Runners : BeforeSend(q, o, c)
      BY <2>3
    <3>2. UnderWay = {q} /\ x >= 0
      BY <3>1 DEF BeforeSend
    <3>3. q # r /\ UnderWay' = {q, r}
      BY <1>1, <3>2
    <3>4. y >= 2
      <4> HIDE DEF x, y
      <4> QED
        BY <1>4, <2>1, <3>2
    <3>5. runner'[q] = runner[q]
      BY <3>3 DEF Moves
    <3>6. CASE runner[q].at = "fetched"
      <4>1. Settled(o, c)
        BY <3>1, <3>6 DEF BeforeSend, Preparing
      <4>2. BothLook(q, r, o, c)'
        BY <1>6, <3>3, <3>4, <3>5, <3>6, <4>1 DEF BothLook
      <4> QED
        BY <4>2 DEF Account
    <3>7. CASE runner[q].at # "fetched"
      <4>1. SaysNews(runner[q], o, c)
        BY <3>1, <3>7 DEF BeforeSend
      <4>2. SaysNews(runner[q], o, c)'
        BY <3>5, <4>1 DEF SaysNews, SameMatter, MaterialPay
      <4>3. heard'[o][c] # None => receipts'[o][IdOf(o)'] # <<>>
        BY <1>6, <3>1 DEF BeforeSend
      <4>4. FirstLooked(q, r, o, c)'
        BY <3>3, <3>4, <3>5, <3>7, <4>2, <4>3 DEF FirstLooked
      <4> QED
        BY <4>4 DEF Account
    <3> QED
      BY <3>6, <3>7
  <2> QED
    BY <2>2, <2>3, AccountCovers
<1> QED
  BY <1>7, <1>8

-----------------------------------------------------------------------------
\* What a channel hears, and the others do not.
LEMMA HearAt ==
    ASSUME NotifyShape, NEW o \in Tracked, NEW c \in Range(Channels), NEW r, Hear(r, c)
    PROVE  /\ heard'[o][c] = IF o \in runner[r].shown THEN runner[r].seen[o] ELSE heard[o][c]
           /\ o \in runner[r].shown /\ Again(r, o, c) =>
                repeats'[o][c] = repeats[o][c] + 1
           /\ ~(o \in runner[r].shown /\ Again(r, o, c)) =>
                repeats'[o][c] = repeats[o][c]
           /\ \A d \in Range(Channels) \ {c} : /\ heard'[o][d] = heard[o][d]
                                               /\ repeats'[o][d] = repeats[o][d]
<1>1. heard[o] \in [Range(Channels) -> FactsSeen \union {None}]
      /\ repeats[o] \in [Range(Channels) -> Nat]
  BY DEF NotifyShape
<1>2. heard'[o] = IF o \notin runner[r].shown THEN heard[o]
                  ELSE [heard[o] EXCEPT ![c] = runner[r].seen[o]]
  BY DEF Hear
<1>3. repeats'[o] = IF o \in runner[r].shown /\ Again(r, o, c)
                    THEN [repeats[o] EXCEPT ![c] = @ + 1] ELSE repeats[o]
  BY DEF Hear
<1>4. heard'[o][c] = IF o \in runner[r].shown THEN runner[r].seen[o] ELSE heard[o][c]
  BY <1>1, <1>2
<1>5. o \in runner[r].shown /\ Again(r, o, c) => repeats'[o][c] = repeats[o][c] + 1
  <2> DEFINE again == o \in runner[r].shown /\ Again(r, o, c)
  <2> HIDE DEF again
  <2>1. repeats'[o] = IF again THEN [repeats[o] EXCEPT ![c] = @ + 1] ELSE repeats[o]
    BY <1>3 DEF again
  <2>2. again => repeats'[o][c] = repeats[o][c] + 1
    BY <1>1, <2>1
  <2> QED
    BY <2>2 DEF again
<1>6. ~(o \in runner[r].shown /\ Again(r, o, c)) => repeats'[o][c] = repeats[o][c]
  BY <1>3
<1>7. ASSUME NEW d \in Range(Channels) \ {c}
      PROVE  heard'[o][d] = heard[o][d] /\ repeats'[o][d] = repeats[o][d]
  <2> DEFINE again == o \in runner[r].shown /\ Again(r, o, c)
             news == runner[r].seen[o]
             shown == o \in runner[r].shown
  <2> HIDE DEF again, news, shown
  <2>1. repeats'[o] = IF again THEN [repeats[o] EXCEPT ![c] = @ + 1] ELSE repeats[o]
    BY <1>3 DEF again
  <2>2. heard'[o] = IF ~shown THEN heard[o] ELSE [heard[o] EXCEPT ![c] = news]
    BY <1>2 DEF shown, news
  <2> QED
    BY <1>1, <1>7, <2>1, <2>2
<1> QED
  BY <1>4, <1>5, <1>6, <1>7

\* What a push may do to the account of its channel.
Pushes(r, c) ==
    /\ Moves(r) /\ Keeps(r) /\ runner'[r].shown = runner[r].shown
    /\ runner[r].at = "send" /\ runner[r].queue # <<>>
    /\ Head(runner[r].queue) = c
    /\ runner'[r].at = "sent" /\ runner'[r].queue = runner[r].queue
    /\ Hear(r, c) /\ receipts' = receipts /\ moved' = moved

LEMMA PushKeeps ==
    ASSUME NotifyShape, NotifyShape', NEW o \in Tracked, NEW c \in Reachable,
           NEW r \in Runners, Pushes(r, c)
    PROVE  /\ UnderWay' = UnderWay /\ r \in UnderWay
           /\ MaySay(runner[r], c) /\ ~MaySay(runner[r], c)'
           /\ ~Preparing(runner[r])
           /\ r \in Speakers(c) /\ Speakers(c)' = Speakers(c) \ {r}
           /\ Cardinality(Speakers(c)') = Cardinality(Speakers(c)) - 1
           /\ Cardinality(Speakers(c)') \in Nat
<1>1. r \in UnderWay /\ Moves(r) /\ runner'[r].at # "idle"
  BY DEF Pushes, UnderWay
<1>2. UnderWay' = UnderWay
  BY <1>1, UnderWayMoves
<1>3. QueueOK(runner[r].queue) /\ runner[r].queue # <<>> /\ Head(runner[r].queue) = c
  BY DEF NotifyShape, RunOK, Pushes
<1>4. c \notin Range(Tail(runner[r].queue)) /\ c \in Range(runner[r].queue)
  BY <1>3, TailOf
<1>5. MaySay(runner[r], c) /\ ~Preparing(runner[r])
  BY <1>4 DEF MaySay, Preparing, Pushes
<1>6. ~MaySay(runner'[r], c)
  BY <1>4 DEF MaySay, Preparing, Pushes
<1>7. ~MaySay(runner[r], c)'
  BY <1>6 DEF MaySay, Preparing
<1>8. r \in Speakers(c)
  BY <1>5 DEF Speakers
<1>9. Speakers(c)' = Speakers(c) \ {r}
  BY <1>1, <1>6, SpeakersMove
<1>10. IsFiniteSet(Speakers(c))
  BY SpeakersAreFew
<1>11. Cardinality(Speakers(c)') = Cardinality(Speakers(c)) - 1
  BY <1>8, <1>9, <1>10, Counting
<1>12. Cardinality(Speakers(c)') \in Nat
  BY <1>9, <1>10, Counting, FS_CardinalityType
<1> QED
  BY <1>1, <1>2, <1>5, <1>7, <1>8, <1>9, <1>11, <1>12

\* A push that arrived and was not confirmed.
LEMMA UnsureAccounts ==
    ASSUME NotifyShape, NotifyShape', NEW o \in Tracked, NEW c \in Reachable, Account(o, c),
           NEW r \in Runners, Pushes(r, c), interruptions' = interruptions + 1
    PROVE  Account(o, c)'
<1> DEFINE S == Speakers(c)
           x == Slack(o, c)
           y == Slack(o, c)'
           n == Cardinality(Speakers(c)')
<1>1. n \in Nat /\ n = Cardinality(S) - 1 /\ r \in S
  BY PushKeeps
<1>2. c \in Range(Channels)
  BY ReachableAreChannels
<1>3. x \in Int /\ y \in Int /\ Cardinality(S) \in Nat
  BY SlackType, SpeakersAreFew
<1>4. repeats[o][c] \in Nat /\ interruptions \in Nat
  BY <1>2 DEF NotifyShape
<1>5. /\ o \in runner[r].shown /\ Again(r, o, c) => y = x
      /\ ~(o \in runner[r].shown /\ Again(r, o, c)) => y = x + 1
  <2> DEFINE again == o \in runner[r].shown /\ Again(r, o, c)
  <2>1. /\ again => repeats'[o][c] = repeats[o][c] + 1
        /\ ~again => repeats'[o][c] = repeats[o][c]
    BY <1>2, HearAt DEF Pushes
  <2> HIDE DEF again
  <2>2. moved' = moved
    BY DEF Pushes
  <2>3. (again => y = x) /\ (~again => y = x + 1)
    BY <1>4, <2>1, <2>2 DEF Slack
  <2> QED
    BY <2>3 DEF again
<1>6. ASSUME y >= n + 1 PROVE Account(o, c)'
  <2>1. Cardinality(Speakers(c)') <= n
    BY <1>1
  <2> HIDE DEF n
  <2> QED
    BY <1>1, <1>6, <2>1, AheadKept
<1>7. CASE x >= Cardinality(S)
  <2>1. y = x \/ y = x + 1
    BY <1>5
  <2>2. y >= n + 1
    <3> HIDE DEF n, x, y, S
    <3> QED
      BY <1>1, <1>3, <1>7, <2>1
  <2> QED
    BY <1>6, <2>2
<1>8. CASE \E q \in Runners : BeforeSend(q, o, c) /\ S = {q}
  <2>1. BeforeSend(r, o, c) /\ S = {r}
    BY <1>1, <1>8
  <2>2. SaysNews(runner[r], o, c) /\ x >= 0
    BY <2>1 DEF BeforeSend, Pushes
  <2>3. ~Again(r, o, c)
    BY <2>2 DEF Again, SaysNews
  <2>4. y = x + 1
    BY <1>5, <2>3
  <2>5. Cardinality(S) = 1
    BY <2>1, FS_Singleton
  <2>6. y >= n + 1
    <3> HIDE DEF n, x, y, S
    <3> QED
      BY <1>1, <1>3, <2>2, <2>4, <2>5
  <2> QED
    BY <1>6, <2>6
<1> QED
  BY <1>7, <1>8, AccountCovers

\* A push that was confirmed.
LEMMA PushedAccounts ==
    ASSUME NotifyShape, NotifyShape', NEW o \in Tracked, NEW c \in Reachable, Account(o, c),
           NEW r \in Runners, Pushes(r, c), runner'[r].went,
           interruptions' = interruptions
    PROVE  Account(o, c)'
<1> DEFINE S == Speakers(c)
           x == Slack(o, c)
           y == Slack(o, c)'
           n == Cardinality(Speakers(c)')
           again == o \in runner[r].shown /\ Again(r, o, c)
<1>1. /\ n \in Nat /\ n = Cardinality(S) - 1 /\ r \in S
      /\ UnderWay' = UnderWay /\ r \in UnderWay
      /\ MaySay(runner[r], c) /\ ~MaySay(runner[r], c)'
      /\ ~Preparing(runner[r]) /\ Speakers(c)' = S \ {r}
  BY PushKeeps
<1>2. c \in Range(Channels)
  BY ReachableAreChannels
<1>3. x \in Int /\ y \in Int /\ Cardinality(S) \in Nat /\ S \subseteq UnderWay
      /\ IsFiniteSet(S)
  BY SlackType, SpeakersAreFew
<1>4. repeats[o][c] \in Nat /\ interruptions \in Nat
  BY <1>2 DEF NotifyShape
<1>5. (again => y = x - 1) /\ (~again => y = x)
  <2>1. /\ again => repeats'[o][c] = repeats[o][c] + 1
        /\ ~again => repeats'[o][c] = repeats[o][c]
    BY <1>2, HearAt DEF Pushes
  <2> HIDE DEF again
  <2>2. moved' = moved
    BY DEF Pushes
  <2> QED
    BY <1>4, <2>1, <2>2 DEF Slack
<1>6. heard'[o][c] = IF o \in runner[r].shown THEN runner[r].seen[o] ELSE heard[o][c]
  BY <1>2, HearAt DEF Pushes
<1>7. /\ Moves(r) /\ Keeps(r) /\ runner'[r].shown = runner[r].shown
      /\ runner[r].at = "send" /\ runner'[r].at = "sent"
      /\ Head(runner'[r].queue) = c /\ receipts' = receipts /\ IdOf(o)' = IdOf(o)
  BY DEF Pushes, IdOf
<1>8. ASSUME y >= n + 1 PROVE Account(o, c)'
  <2>1. Cardinality(Speakers(c)') <= n
    BY <1>1
  <2> HIDE DEF n
  <2> QED
    BY <1>1, <1>8, <2>1, AheadKept
<1>9. ASSUME S = {r}, y >= 1 PROVE Account(o, c)'
  <2>1. n = 0
    BY <1>1, <1>9, FS_EmptySet
  <2> QED
    BY <1>8, <1>9, <2>1
<1>10. CASE x >= Cardinality(S) + 1
  <2>1. y >= n + 1
    <3>1. y = x \/ y = x - 1
      BY <1>5
    <3> HIDE DEF n, x, y, S
    <3> QED
      BY <1>1, <1>3, <1>10, <3>1
  <2> QED
    BY <1>8, <2>1
<1>11. CASE UnderWay = {} /\ Slack(o, c) >= 0 /\ Settled(o, c)
  BY <1>1, <1>11
<1>12. ASSUME UnderWay = {r}, y >= 0, o \in runner[r].shown PROVE Account(o, c)'
  <2>1. heard'[o][c] = runner'[r].seen[o]
    BY <1>6, <1>7, <1>12 DEF Keeps
  <2>2. AwaitsNote(r, o, c)'
    BY <1>1, <1>7, <1>12, <2>1 DEF AwaitsNote
  <2> QED
    BY <2>2 DEF Account
<1>13. ASSUME NEW q \in Runners, Alone(q, o, c) PROVE Account(o, c)'
  <2>1. UnderWay = {r} /\ x >= 1
    BY <1>1, <1>13 DEF Alone
  <2>2. S = {r}
    BY <1>1, <1>3, <2>1
  <2>3. CASE o \in runner[r].shown
    <3>1. y >= 0
      <4>1. y = x \/ y = x - 1
        BY <1>5
      <4> HIDE DEF x, y
      <4> QED
        BY <1>3, <2>1, <4>1
    <3> QED
      BY <1>12, <2>1, <2>3, <3>1
  <2>4. CASE o \notin runner[r].shown
    <3>1. y = x
      BY <1>5, <2>4
    <3> QED
      BY <1>9, <2>1, <2>2, <3>1
  <2> QED
    BY <2>3, <2>4
<1>14. ASSUME NEW q \in Runners, BeforeSend(q, o, c) PROVE Account(o, c)'
  <2>1. q = r
    BY <1>1, <1>14 DEF BeforeSend
  <2>2. SaysNews(runner[r], o, c) /\ x >= 0 /\ UnderWay = {r}
    BY <1>7, <1>14, <2>1 DEF BeforeSend
  <2>3. y = x
    <3>1. ~Again(r, o, c)
      BY <2>2 DEF Again, SaysNews
    <3> QED
      BY <1>5, <3>1
  <2>4. CASE o \in runner[r].shown
    BY <1>12, <2>2, <2>3, <2>4
  <2>5. CASE o \notin runner[r].shown
    <3>1. Settled(o, c)
      BY <1>14, <2>1, <2>5 DEF BeforeSend
    <3>2. heard'[o][c] = heard[o][c]
      BY <1>6, <2>5
    <3>3. Settled(o, c)'
      BY <1>7, <3>1, <3>2 DEF Settled, SameMatter, MaterialPay
    <3>4. AfterSend(r, o, c)'
      BY <1>1, <1>7, <2>2, <2>3, <2>5, <3>3 DEF AfterSend
    <3> QED
      BY <3>4 DEF Account
  <2> QED
    BY <2>4, <2>5
<1>15. ASSUME NEW q \in Runners, AwaitsNote(q, o, c) PROVE Account(o, c)'
  BY <1>1, <1>7, <1>15 DEF AwaitsNote
<1>16. ASSUME NEW q \in Runners, AfterSend(q, o, c) PROVE Account(o, c)'
  BY <1>1, <1>16 DEF AfterSend
<1>17. ASSUME NEW p \in Runners, NEW q \in Runners, BothLook(p, q, o, c) PROVE Account(o, c)'
  BY <1>1, <1>7, <1>17 DEF BothLook
<1>18. ASSUME NEW p \in Runners, NEW q \in Runners, FirstLooked(p, q, o, c) PROVE Account(o, c)'
  <2>1. UnderWay = {p, q} /\ p # q /\ x >= 2 /\ SaysNews(runner[p], o, c)
        /\ runner[p].at # "fetched"
    BY <1>18 DEF FirstLooked
  <2>2. PICK m : S \ {r} \subseteq {m}
    BY <1>1, <1>3, <2>1
  <2>3. n <= 1
    <3>1. IsFiniteSet(S \ {r})
      BY <1>3, Counting
    <3>2. Cardinality(S \ {r}) <= 1
      BY <2>2, <3>1, Counting
    <3> QED
      BY <1>1, <3>2
  <2>4. CASE ~again
    <3>1. y = x
      BY <1>5, <2>4
    <3>2. y >= n + 1
      <4> HIDE DEF n, x, y
      <4> QED
        BY <1>1, <1>3, <2>1, <2>3, <3>1
    <3> QED
      BY <1>8, <3>2
  <2>5. CASE again
    <3>1. heard[o][c] # None /\ Again(r, o, c) /\ o \in runner[r].shown
      BY <2>5 DEF Again
    <3>2. r # p
      BY <2>1, <3>1 DEF Again, SaysNews
    <3>3. r = q
      BY <1>1, <2>1, <3>2
    <3>4. runner[r].said[o] # "new"
      BY <1>7, <1>18, <3>1, <3>3 DEF FirstLooked
    <3>5. SameMatter(heard[o][c], runner[r].seen[o])
      BY <3>1, <3>4 DEF Again
    <3>6. heard'[o][c] = runner[r].seen[o]
      BY <1>6, <3>1
    <3>7. runner'[p] = runner[p]
      BY <1>7, <3>2 DEF Moves
    <3>8. /\ runner[p].said[o] # "new"
          /\ runner[p].said[o] = "material_change" =>
               ~SameMatter(heard[o][c], runner[p].seen[o])
      BY <2>1, <3>1 DEF SaysNews
    <3>9. runner[p].said[o] = "material_change" =>
               ~SameMatter(heard'[o][c], runner[p].seen[o])
      BY <3>5, <3>6, <3>8 DEF SameMatter
    <3>10. SaysNews(runner[p], o, c)'
      <4>1. /\ runner'[p].said[o] # "new"
            /\ runner'[p].said[o] = "material_change" =>
                 ~SameMatter(heard'[o][c], runner'[p].seen[o])
        BY <3>7, <3>8, <3>9
      <4> QED
        BY <4>1 DEF SaysNews, SameMatter, MaterialPay
    <3>11. y >= 1
      <4>1. y = x - 1
        BY <1>5, <2>5
      <4> HIDE DEF x, y
      <4> QED
        BY <1>3, <2>1, <4>1
    <3>12. OneRepeated(p, r, o, c)'
      BY <1>1, <2>1, <3>2, <3>3, <3>7, <3>10, <3>11 DEF OneRepeated
    <3> QED
      BY <3>12 DEF Account
  <2> QED
    BY <2>4, <2>5
<1>19. ASSUME NEW p \in Runners, NEW q \in Runners, OneRepeated(p, q, o, c) PROVE Account(o, c)'
  <2>1. /\ UnderWay = {p, q} /\ p # q /\ x >= 1 /\ q \notin S
        /\ SaysNews(runner[p], o, c)
    BY <1>19 DEF OneRepeated, Speakers
  <2>2. r = p /\ S = {r}
    BY <1>1, <1>3, <2>1
  <2>3. ~Again(r, o, c)
    BY <2>1, <2>2 DEF Again, SaysNews
  <2>4. y = x
    BY <1>5, <2>3
  <2> QED
    BY <1>9, <2>1, <2>2, <2>4
<1> QED
  BY <1>10, <1>11, <1>13, <1>14, <1>15, <1>16, <1>17, <1>18, <1>19 DEF Account

-----------------------------------------------------------------------------
(* The shape is kept.                                                      *)
LEMMA ShapeInit == ASSUME NotifyInit PROVE NotifyShape
<1>1. /\ facts \in [Tracked -> Facts] /\ moved = {} /\ interruptions = 0
      /\ receipts = [o \in Tracked |-> [i \in IDs |-> <<>>]]
      /\ runner = [r \in Runners |-> Rest]
      /\ heard = [o \in Tracked |-> [c \in Range(Channels) |-> None]]
      /\ repeats = [o \in Tracked |-> [c \in Range(Channels) |-> 0]]
  BY DEF NotifyInit
<1>2. DOMAIN runner = Runners /\ \A r \in Runners : RunOK(runner[r])
  BY <1>1, RestIs
<1>3. UnderWay = {}
  BY <1>1, RestIs DEF UnderWay
<1>4. IsFiniteSet({})
  BY FS_EmptySet
<1>5. receipts \in [Tracked -> [IDs -> Seq(FactsSeen)]]
  BY <1>1
<1>6. repeats \in [Tracked -> [Range(Channels) -> Nat]]
  BY <1>1
<1>7. heard \in [Tracked -> [Range(Channels) -> FactsSeen \union {None}]]
  BY <1>1
<1> QED
  BY <1>1, <1>2, <1>3, <1>4, <1>5, <1>6, <1>7 DEF NotifyShape

\* The runs of the shape, after the step of one.
LEMMA RunsShape ==
    ASSUME NotifyShape, NEW r \in Runners, Moves(r)
    PROVE  /\ DOMAIN runner' = Runners /\ \A q \in Runners : RunOK(runner'[q])
           /\ IsFiniteSet(UnderWay')
<1>1. \A q \in Runners : RunOK(runner'[q])
  BY DEF Moves, NotifyShape
<1>2. IsFiniteSet(UnderWay)
  BY DEF NotifyShape
<1>3. IsFiniteSet(UnderWay \union {r}) /\ IsFiniteSet(UnderWay \ {r})
  BY <1>2, Counting
<1> QED
  BY <1>1, <1>3, UnderWayMoves DEF Moves

\* A run's step that sends and notes nothing.
LEMMA ShapeMoves ==
    ASSUME NotifyShape, NEW r \in Runners, Moves(r), interruptions' \in Nat,
           UNCHANGED <<facts, moved, receipts, heard, repeats>>
    PROVE  NotifyShape'
<1>1. /\ DOMAIN runner' = Runners /\ \A q \in Runners : RunOK(runner'[q])
      /\ IsFiniteSet(UnderWay')
  BY RunsShape
<1>2. \A q \in Runners : RunOK(runner[q])'
  BY <1>1 DEF RunOK, QueueOK
<1> QED
  BY <1>1, <1>2 DEF NotifyShape

LEMMA HearShape ==
    ASSUME NotifyShape, NEW r \in Runners, runner[r].at = "send", NEW c, Hear(r, c)
    PROVE  /\ repeats' \in [Tracked -> [Range(Channels) -> Nat]]
           /\ heard' \in [Tracked -> [Range(Channels) -> FactsSeen \union {None}]]
<1> DEFINE C == Range(Channels)
<1>1. /\ heard \in [Tracked -> [C -> FactsSeen \union {None}]]
      /\ repeats \in [Tracked -> [C -> Nat]]
      /\ runner[r].seen \in [Tracked -> FactsSeen]
  BY DEF NotifyShape, RunOK
<1> HIDE DEF C
<1>2. ASSUME NEW o \in Tracked
      PROVE  [heard[o] EXCEPT ![c] = runner[r].seen[o]] \in [C -> FactsSeen \union {None}]
             /\ [repeats[o] EXCEPT ![c] = @ + 1] \in [C -> Nat]
  <2>1. heard[o] \in [C -> FactsSeen \union {None}] /\ repeats[o] \in [C -> Nat]
        /\ runner[r].seen[o] \in FactsSeen
    BY <1>1
  <2>2. [heard[o] EXCEPT ![c] = runner[r].seen[o]] \in [C -> FactsSeen \union {None}]
    <3> DEFINE news == runner[r].seen[o]
    <3> HIDE DEF news
    <3> QED
      BY <2>1 DEF news
  <2>3. [repeats[o] EXCEPT ![c] = @ + 1] \in [C -> Nat]
    <3> DEFINE k == repeats[o][c] + 1
    <3>1. c \in C => k \in Nat
      BY <2>1
    <3>2. [repeats[o] EXCEPT ![c] = @ + 1] = [repeats[o] EXCEPT ![c] = k]
      BY <2>1
    <3> HIDE DEF k
    <3>3. [repeats[o] EXCEPT ![c] = k] \in [C -> Nat]
      BY <2>1, <3>1
    <3> QED
      BY <3>2, <3>3
  <2> QED
    BY <2>2, <2>3
<1>3. heard' \in [Tracked -> [C -> FactsSeen \union {None}]]
  <2>1. heard' = [o \in Tracked |-> IF o \notin runner[r].shown THEN heard[o]
                                 ELSE [heard[o] EXCEPT ![c] = runner[r].seen[o]]]
    BY DEF Hear
  <2> QED
    BY <1>1, <1>2, <2>1
<1>4. repeats' \in [Tracked -> [C -> Nat]]
  <2> DEFINE again(o) == o \in runner[r].shown /\ Again(r, o, c)
             more(o) == [repeats[o] EXCEPT ![c] = @ + 1]
  <2>1. repeats' = [o \in Tracked |-> IF again(o) THEN more(o) ELSE repeats[o]]
    BY DEF Hear
  <2>2. \A o \in Tracked : more(o) \in [C -> Nat] /\ repeats[o] \in [C -> Nat]
    BY <1>1, <1>2
  <2> HIDE DEF again, more
  <2> QED
    BY <2>1, <2>2
<1> QED
  BY <1>3, <1>4 DEF C

LEMMA PushShape ==
    ASSUME NotifyShape, NEW r \in Runners, Push(r)
    PROVE  NotifyShape'
<1>1. Moves(r) /\ runner[r].at = "send"
  BY RunPushes
<1>2. /\ DOMAIN runner' = Runners /\ \A q \in Runners : RunOK(runner'[q])
      /\ IsFiniteSet(UnderWay')
  BY <1>1, RunsShape
<1>3. \A q \in Runners : RunOK(runner[q])'
  BY <1>2 DEF RunOK, QueueOK
<1>4. interruptions' \in Nat
  <2>1. interruptions' = interruptions \/ interruptions' = interruptions + 1
    BY RunPushes
  <2>2. interruptions \in Nat
    BY DEF NotifyShape
  <2> QED
    BY <2>1, <2>2
<1>5. Hear(r, Head(runner[r].queue)) \/ UNCHANGED <<heard, repeats>>
  BY RunPushes
<1>6. /\ repeats' \in [Tracked -> [Range(Channels) -> Nat]]
      /\ heard' \in [Tracked -> [Range(Channels) -> FactsSeen \union {None}]]
  BY <1>1, <1>5, HearShape DEF NotifyShape
<1>7. UNCHANGED <<facts, moved, receipts>>
  BY DEF Push
<1> QED
  BY <1>2, <1>3, <1>4, <1>6, <1>7 DEF NotifyShape

\* What is noted of every posting shown.
LEMMA NoteIs ==
    ASSUME NotifyShape, NEW r \in Runners, runner[r].at = "sent", receipts' = Marked(r)
    PROVE  /\ receipts' \in [Tracked -> [IDs -> Seq(FactsSeen)]]
           /\ \A o \in Tracked : Noted(r, o)
<1>1. receipts \in [Tracked -> [IDs -> Seq(FactsSeen)]]
      /\ runner[r].seen \in [Tracked -> FactsSeen]
  BY DEF NotifyShape, RunOK
<1> DEFINE noted(o) == [receipts[o] EXCEPT ![IdOf(o)] = Append(@, runner[r].seen[o])]
           not(o) == o \notin runner[r].shown \/ ~runner[r].went
<1>2. receipts' = [o \in Tracked |-> IF not(o) THEN receipts[o] ELSE noted(o)]
  BY DEF Marked
<1>3. ASSUME NEW o \in Tracked
      PROVE  /\ noted(o) \in [IDs -> Seq(FactsSeen)]
             /\ noted(o)[IdOf(o)] # <<>>
             /\ Last(noted(o)[IdOf(o)]) = runner[r].seen[o]
  <2>1. IdOf(o) \in IDs
    BY DEF IdOf, IDs
  <2>2. receipts[o] \in [IDs -> Seq(FactsSeen)] /\ runner[r].seen[o] \in FactsSeen
    BY <1>1
  <2> DEFINE f == runner[r].seen[o]
             i == IdOf(o)
             s == receipts[o][i]
  <2> HIDE DEF f, i
  <2>3. noted(o) = [receipts[o] EXCEPT ![i] = Append(s, f)] /\ f \in FactsSeen /\ i \in IDs
    BY <2>1, <2>2 DEF f, i
  <2>4. s \in Seq(FactsSeen)
    BY <2>2, <2>3
  <2> HIDE DEF s
  <2>5. Append(s, f) \in Seq(FactsSeen) /\ Append(s, f) # <<>> /\ Last(Append(s, f)) = f
    BY <2>3, <2>4 DEF Last
  <2>6. noted(o) \in [IDs -> Seq(FactsSeen)] /\ noted(o)[i] = Append(s, f)
    BY <2>2, <2>3, <2>5
  <2> QED
    BY <2>5, <2>6 DEF f, i
<1> HIDE DEF noted, not
<1>4. receipts' \in [Tracked -> [IDs -> Seq(FactsSeen)]]
  BY <1>1, <1>2, <1>3
<1>5. ASSUME NEW o \in Tracked PROVE Noted(r, o)
  <2>1. CASE not(o)
    <3>1. receipts'[o] = receipts[o]
      BY <1>2, <2>1
    <3> QED
      BY <2>1, <3>1 DEF Noted, not
  <2>2. CASE ~not(o)
    <3>1. receipts'[o] = noted(o)
      BY <1>2, <2>2
    <3> QED
      BY <1>3, <2>2, <3>1 DEF Noted, not
  <2> QED
    BY <2>1, <2>2
<1> QED
  BY <1>4, <1>5

LEMMA MarkShape ==
    ASSUME NotifyShape, NEW r \in Runners, MarkNotified(r)
    PROVE  NotifyShape'
<1>1. Moves(r) /\ runner[r].at = "sent" /\ receipts' = Marked(r)
  BY RunMarks
<1>2. /\ DOMAIN runner' = Runners /\ \A q \in Runners : RunOK(runner'[q])
      /\ IsFiniteSet(UnderWay')
  BY <1>1, RunsShape
<1>3. \A q \in Runners : RunOK(runner[q])'
  BY <1>2 DEF RunOK, QueueOK
<1>4. receipts' \in [Tracked -> [IDs -> Seq(FactsSeen)]]
  BY <1>1, NoteIs
<1>5. UNCHANGED <<facts, moved, heard, repeats, interruptions>>
  BY DEF MarkNotified
<1> QED
  BY <1>2, <1>3, <1>4, <1>5 DEF NotifyShape

\* The world's steps.
LEMMA WorldShape ==
    ASSUME NotifyShape, runner' = runner, facts' \in [Tracked -> Facts], IsFiniteSet(moved'),
           UNCHANGED <<receipts, heard, repeats, interruptions>>
    PROVE  NotifyShape'
<1>1. UnderWay' = UnderWay
  BY DEF UnderWay
<1>2. \A q \in Runners : RunOK(runner[q])'
  BY DEF NotifyShape, RunOK, QueueOK
<1> QED
  BY <1>1, <1>2 DEF NotifyShape

LEMMA ShapeStep ==
    ASSUME ChannelsOnce, NotifyShape, [NotifyNext]_notifyVars
    PROVE  NotifyShape'
<1>1. interruptions \in Nat /\ facts \in [Tracked -> Facts] /\ IsFiniteSet(moved)
  BY DEF NotifyShape
<1>2. ASSUME NEW r \in Runners, StartRun(r) PROVE NotifyShape'
  <2>1. interruptions' = interruptions + (IF UnderWay = {} THEN 0 ELSE 2)
    BY <1>2 DEF StartRun, Interrupt
  <2>2. interruptions' \in Nat
    BY <1>1, <2>1
  <2>3. UNCHANGED <<facts, moved, receipts, heard, repeats>>
    BY <1>2 DEF StartRun
  <2> QED
    BY <1>2, <2>2, <2>3, RunStarts, ShapeMoves
<1>3. ASSUME NEW r \in Runners, Annotate(r) PROVE NotifyShape'
  <2>1. UNCHANGED <<facts, moved, receipts, heard, repeats, interruptions>>
    BY <1>3 DEF Annotate
  <2> QED
    BY <1>1, <1>3, <2>1, RunAnnotates, ShapeMoves
<1>4. ASSUME NEW r \in Runners, RecordRun(r) PROVE NotifyShape'
  <2>1. UNCHANGED <<facts, moved, receipts, heard, repeats, interruptions>>
    BY <1>4 DEF RecordRun
  <2> QED
    BY <1>1, <1>4, <2>1, RunRecords, ShapeMoves
<1>5. ASSUME NEW r \in Runners, Compose(r) PROVE NotifyShape'
  <2>1. UNCHANGED <<facts, moved, receipts, heard, repeats, interruptions>>
    BY <1>5 DEF Compose
  <2> QED
    BY <1>1, <1>5, <2>1, RunComposes, ShapeMoves
<1>6. ASSUME NEW r \in Runners, SkipChannel(r) PROVE NotifyShape'
  <2>1. UNCHANGED <<facts, moved, receipts, heard, repeats, interruptions>>
    BY <1>6 DEF SkipChannel
  <2> QED
    BY <1>1, <1>6, <2>1, RunSkips, ShapeMoves
<1>7. ASSUME NEW r \in Runners, EndRun(r) PROVE NotifyShape'
  <2>1. UNCHANGED <<facts, moved, receipts, heard, repeats, interruptions>>
        /\ runner' = [runner EXCEPT ![r] = Rest]
    BY <1>7 DEF EndRun
  <2> QED
    BY <1>1, <2>1, RunRests, ShapeMoves
<1>8. ASSUME NEW r \in Runners, RunCrash(r) PROVE NotifyShape'
  <2>1. UNCHANGED <<facts, moved, receipts, heard, repeats>>
        /\ runner' = [runner EXCEPT ![r] = Rest]
        /\ interruptions' = interruptions + 1
    BY <1>8 DEF RunCrash, Interrupt
  <2>2. interruptions' \in Nat
    BY <1>1, <2>1
  <2> QED
    BY <2>1, <2>2, RunRests, ShapeMoves
<1>9. ASSUME NEW o \in Tracked, ChangeFacts(o) PROVE NotifyShape'
  <2>1. PICK f \in Facts : facts' = [facts EXCEPT ![o] = f]
    BY <1>9 DEF ChangeFacts
  <2>2. facts' \in [Tracked -> Facts]
    BY <1>1, <2>1
  <2>3. UNCHANGED <<moved, runner, receipts, heard, repeats, interruptions>>
    BY <1>9 DEF ChangeFacts
  <2> QED
    BY <1>1, <2>2, <2>3, WorldShape
<1>10. ASSUME NEW o \in Tracked, MoveId(o) PROVE NotifyShape'
  <2>1. moved' = moved \union {o}
        /\ UNCHANGED <<facts, runner, receipts, heard, repeats, interruptions>>
    BY <1>10 DEF MoveId
  <2>2. IsFiniteSet(moved')
    BY <1>1, <2>1, Counting
  <2> QED
    BY <1>1, <2>1, <2>2, WorldShape
<1>11. ASSUME NEW o \in Tracked, RegisterCrosswalk(o) PROVE NotifyShape'
  <2>1. UNCHANGED <<facts, moved, runner, receipts, heard, repeats, interruptions>>
    BY <1>11 DEF RegisterCrosswalk
  <2> QED
    BY <1>1, <2>1, WorldShape
<1>12. CASE UNCHANGED notifyVars
  <2>1. UNCHANGED <<facts, moved, runner, receipts, heard, repeats, interruptions>>
    BY <1>12 DEF notifyVars
  <2> QED
    BY <1>1, <2>1, WorldShape
<1> QED
  BY <1>2, <1>3, <1>4, <1>5, <1>6, <1>7, <1>8, <1>9, <1>10, <1>11, <1>12, PushShape,
     MarkShape DEF NotifyNext

-----------------------------------------------------------------------------
(* The accounts are kept.                                                  *)

\* Where a push leaves who may still send.
LEMMA PushSpeakers ==
    ASSUME NotifyShape, NEW c, NEW r \in Runners, Moves(r),
           runner[r].at = "send", runner[r].queue # <<>>,
           runner'[r].at = "sent", runner'[r].queue = runner[r].queue
    PROVE  /\ UnderWay' = UnderWay /\ Speakers(c)' \subseteq Speakers(c)
           /\ c # Head(runner[r].queue) => (MaySay(runner'[r], c) <=> MaySay(runner[r], c))
<1>1. r \in UnderWay
  BY DEF UnderWay
<1>2. UnderWay' = UnderWay
  BY <1>1, UnderWayMoves
<1>3. QueueOK(runner[r].queue)
  BY DEF NotifyShape, RunOK
<1>4. c \in Range(Tail(runner[r].queue)) <=>
        c \in Range(runner[r].queue) /\ c # Head(runner[r].queue)
  BY <1>3, TailOf
<1>5. /\ MaySay(runner'[r], c) <=> c \in Range(Tail(runner[r].queue))
      /\ MaySay(runner[r], c) <=> c \in Range(runner[r].queue)
  BY DEF MaySay, Preparing
<1>6. Speakers(c)' \subseteq Speakers(c)
  <2>1. MaySay(runner'[r], c) => r \in Speakers(c)
    BY <1>4, <1>5 DEF Speakers
  <2> QED
    BY <2>1, SpeakersMove
<1> QED
  BY <1>2, <1>4, <1>5, <1>6

LEMMA PushAccounts ==
    ASSUME NotifyShape, NotifyShape', NEW o \in Tracked, NEW c \in Reachable, Account(o, c),
           NEW r \in Runners, Push(r)
    PROVE  Account(o, c)'
<1> DEFINE d == Head(runner[r].queue)
<1>1. /\ Moves(r) /\ Keeps(r) /\ runner'[r].shown = runner[r].shown
      /\ runner[r].at = "send" /\ runner[r].queue # <<>> /\ d \in Reachable
      /\ runner'[r].at = "sent" /\ runner'[r].queue = runner[r].queue
      /\ \/ runner'[r].went /\ Hear(r, d) /\ interruptions' = interruptions
         \/ /\ Hear(r, d) \/ UNCHANGED <<heard, repeats>>
            /\ interruptions' = interruptions + 1
  BY RunPushes
<1>2. receipts' = receipts /\ moved' = moved
  BY DEF Push
<1>3. c \in Range(Channels) /\ d \in Range(Channels)
  BY <1>1, ReachableAreChannels
<1> HIDE DEF d
<1>4. /\ UnderWay' = UnderWay /\ Speakers(c)' \subseteq Speakers(c)
      /\ c # d => (MaySay(runner'[r], c) <=> MaySay(runner[r], c))
  BY <1>1, PushSpeakers DEF d
<1>5. ASSUME heard'[o][c] = heard[o][c], repeats'[o][c] = repeats[o][c],
             interruptions' = interruptions + 1
      PROVE  Account(o, c)'
  <2>1. repeats[o][c] \in Nat /\ interruptions \in Nat
    BY <1>3 DEF NotifyShape
  <2>2. Slack(o, c)' = Slack(o, c) + 1
    BY <1>2, <1>5, <2>1 DEF Slack
  <2>3. Slack(o, c)' >= Slack(o, c) + 1
    <3> DEFINE x == Slack(o, c)
               y == Slack(o, c)'
    <3>1. x \in Int /\ y = x + 1
      BY <2>2, SlackType
    <3> HIDE DEF x, y
    <3>2. y >= x + 1
      BY <3>1
    <3> QED
      BY <3>2 DEF x, y
  <2> QED
    BY <1>4, <2>3, FailedAccounts
<1>6. CASE UNCHANGED <<heard, repeats>> /\ interruptions' = interruptions + 1
  BY <1>5, <1>6
<1>7. CASE Hear(r, d) /\ c = d
  <2>1. Pushes(r, c)
    BY <1>1, <1>2, <1>7 DEF Pushes, d
  <2> QED
    BY <1>1, <1>6, <2>1, PushedAccounts, UnsureAccounts
<1>8. CASE Hear(r, d) /\ c # d
  <2>1. heard'[o][c] = heard[o][c] /\ repeats'[o][c] = repeats[o][c]
    BY <1>3, <1>8, HearAt
  <2>2. CASE interruptions' = interruptions
    <3>1. Calm(o, c)
      BY <1>2, <2>1, <2>2 DEF Calm
    <3>2. Advances(r, c)
      BY <1>1, <1>4, <1>8 DEF Advances, Preparing
    <3> QED
      BY <1>1, <3>1, <3>2, AdvanceAccounts
  <2> QED
    BY <1>1, <1>5, <2>1, <2>2
<1> QED
  BY <1>1, <1>6, <1>7, <1>8

LEMMA MarkedAccounts ==
    ASSUME NotifyShape, NotifyShape', NEW o \in Tracked, NEW c \in Reachable, Account(o, c),
           NEW r \in Runners, MarkNotified(r)
    PROVE  Account(o, c)'
<1>1. /\ Moves(r) /\ Keeps(r) /\ runner'[r].shown = runner[r].shown
      /\ runner[r].at = "sent" /\ runner'[r].at = "send"
      /\ runner'[r].queue = Tail(runner[r].queue) /\ receipts' = Marked(r)
  BY RunMarks
<1>2. UNCHANGED <<heard, repeats, moved, interruptions>>
  BY DEF MarkNotified
<1>3. MaySay(runner'[r], c) <=> MaySay(runner[r], c)
  BY <1>1 DEF MaySay, Preparing
<1>4. Advances(r, c)
  BY <1>1, <1>3 DEF Advances, Preparing
<1>5. Noted(r, o)
  BY <1>1, NoteIs
<1> QED
  BY <1>1, <1>2, <1>4, <1>5, MarkAccounts

\* The steps before and between the sends.
LEMMA QuietAccounts ==
    ASSUME ChannelsOnce, NotifyShape, NotifyShape', NEW o \in Tracked, NEW c \in Reachable,
           Account(o, c), NEW r \in Runners,
           Annotate(r) \/ RecordRun(r) \/ Compose(r) \/ SkipChannel(r) \/ EndRun(r)
    PROVE  Account(o, c)'
<1>1. Calm(o, c)
  BY DEF Calm, Annotate, RecordRun, Compose, SkipChannel, EndRun
<1>2. c \in Range(Channels)
  BY ReachableAreChannels
<1>3. CASE Annotate(r)
  <2>1. /\ Moves(r) /\ runner[r].at = "fetched" /\ runner'[r].at = "annotated"
        /\ runner'[r].seen = runner[r].seen
        /\ runner'[r].said =
             [p \in Tracked |-> Transition(runner[r].engine, p, runner[r].seen[p])]
    BY <1>3, RunAnnotates
  <2>2. runner'[r].said[o] = Transition(runner[r].engine, o, runner[r].seen[o])
    BY <2>1
  <2> QED
    BY <1>1, <2>1, <2>2, AnnotateAccounts
<1>4. CASE RecordRun(r)
  <2>1. /\ Moves(r) /\ runner[r].at = "annotated" /\ runner'[r].at = "recorded" /\ Keeps(r)
    BY <1>4, RunRecords
  <2>2. Advances(r, c)
    BY <2>1 DEF Advances, MaySay, Preparing
  <2> QED
    BY <1>1, <2>1, <2>2, AdvanceAccounts
<1>5. CASE Compose(r)
  <2>1. /\ Moves(r) /\ runner[r].at = "recorded"
        /\ \/ runner'[r].at = "idle"
           \/ /\ runner'[r].at = "send" /\ runner'[r].queue = Channels
              /\ Keeps(r)
    BY <1>5, RunComposes
  <2>2. CASE runner'[r].at = "idle"
    BY <1>1, <2>1, <2>2, EndAccounts
  <2>3. CASE runner'[r].at = "send" /\ runner'[r].queue = Channels /\ Keeps(r)
    <3>1. MaySay(runner[r], c) /\ MaySay(runner'[r], c)
      BY <1>2, <2>1, <2>3 DEF MaySay, Preparing
    <3>2. Advances(r, c)
      BY <2>1, <2>3, <3>1 DEF Advances, Preparing
    <3> QED
      BY <1>1, <2>1, <3>2, AdvanceAccounts
  <2> QED
    BY <2>1, <2>2, <2>3
<1>6. CASE SkipChannel(r)
  <2>1. /\ Moves(r) /\ Keeps(r) /\ runner'[r].shown = runner[r].shown
        /\ runner[r].at = "send" /\ runner[r].queue # <<>>
        /\ Head(runner[r].queue) \notin Reachable
        /\ runner'[r].at = "send" /\ runner'[r].queue = Tail(runner[r].queue)
    BY <1>6, RunSkips
  <2>2. QueueOK(runner[r].queue)
    BY <2>1 DEF NotifyShape, RunOK
  <2>3. c \in Range(Tail(runner[r].queue)) <=> c \in Range(runner[r].queue)
    BY <2>1, <2>2, TailOf
  <2>4. Advances(r, c)
    BY <2>1, <2>3 DEF Advances, MaySay, Preparing
  <2> QED
    BY <1>1, <2>1, <2>4, AdvanceAccounts
<1>7. CASE EndRun(r)
  <2>1. runner[r].at = "send" /\ runner[r].queue = <<>>
        /\ runner' = [runner EXCEPT ![r] = Rest]
    BY <1>7 DEF EndRun
  <2>2. Moves(r) /\ runner'[r].at = "idle"
    BY <2>1, RunRests
  <2>3. ~MaySay(runner[r], c)
    BY <2>1 DEF MaySay, Preparing, Range
  <2> QED
    BY <1>1, <2>1, <2>2, <2>3, EndAccounts
<1> QED
  BY <1>3, <1>4, <1>5, <1>6, <1>7

LEMMA AccountStep ==
    ASSUME ChannelsOnce, NotifyShape, NotifyShape', NEW o \in Tracked, NEW c \in Reachable,
           Account(o, c), [NotifyNext]_notifyVars
    PROVE  Account(o, c)'
<1> DEFINE x == Slack(o, c)
           y == Slack(o, c)'
<1>1. c \in Range(Channels) /\ x \in Int /\ y \in Int
  BY SlackType, ReachableAreChannels
<1>2. repeats[o][c] \in Nat /\ interruptions \in Nat
  BY <1>1 DEF NotifyShape
<1>3. ASSUME y = x + 1 PROVE Slack(o, c)' >= Slack(o, c) + 1
  <2> HIDE DEF x, y
  <2>1. y >= x + 1
    BY <1>1, <1>3
  <2> QED
    BY <2>1 DEF x, y
<1>4. ASSUME NEW r \in Runners, StartRun(r) PROVE Account(o, c)'
  <2>1. /\ interruptions' = interruptions + (IF UnderWay = {} THEN 0 ELSE 2)
        /\ moved' = moved /\ repeats' = repeats /\ heard' = heard /\ receipts' = receipts
    BY <1>4 DEF StartRun, Interrupt
  <2>2. Moves(r) /\ runner[r].at = "idle" /\ runner'[r].at = "fetched"
    BY <1>4, RunStarts
  <2> QED
    BY <2>1, <2>2, StartAccounts
<1>5. ASSUME NEW r \in Runners, RunCrash(r) PROVE Account(o, c)'
  <2>1. /\ interruptions' = interruptions + 1 /\ runner[r].at # "idle"
        /\ moved' = moved /\ repeats' = repeats
        /\ runner' = [runner EXCEPT ![r] = Rest]
    BY <1>5 DEF RunCrash, Interrupt
  <2>2. Moves(r) /\ runner'[r].at = "idle"
    BY <2>1, RunRests
  <2>3. y = x + 1
    BY <1>2, <2>1 DEF Slack
  <2>4. Slack(o, c)' >= Slack(o, c) + 1
    BY <1>3, <2>3
  <2> QED
    BY <2>1, <2>2, <2>4, CrashAccounts
<1>6. ASSUME NEW p \in Tracked, ChangeFacts(p) \/ RegisterCrosswalk(p) PROVE Account(o, c)'
  <2>1. runner' = runner /\ Calm(o, c)
    BY <1>6 DEF Calm, ChangeFacts, RegisterCrosswalk
  <2> QED
    BY <2>1, WorldAccounts
<1>7. ASSUME NEW p \in Tracked, MoveId(p) PROVE Account(o, c)'
  <2>1. /\ p \notin moved /\ UnderWay = {} /\ moved' = moved \union {p}
        /\ UNCHANGED <<runner, heard, repeats, receipts, interruptions>>
    BY <1>7 DEF MoveId
  <2>2. CASE p = o
    <3>1. y = x + 1
      BY <1>2, <2>1, <2>2 DEF Slack
    <3>2. Slack(o, c)' >= Slack(o, c) + 1
      BY <1>3, <3>1
    <3>3. Speakers(c)' \subseteq Speakers(c)
      BY <2>1 DEF Speakers, MaySay, Preparing
    <3> QED
      BY <2>1, <3>2, <3>3, MoveAccounts
  <2>3. CASE p # o
    <3>1. Calm(o, c)
      BY <2>1, <2>3 DEF Calm
    <3> QED
      BY <2>1, <3>1, WorldAccounts
  <2> QED
    BY <2>2, <2>3
<1>8. CASE UNCHANGED notifyVars
  <2>1. runner' = runner /\ Calm(o, c)
    BY <1>8 DEF Calm, notifyVars
  <2> QED
    BY <2>1, WorldAccounts
<1> QED
  BY <1>4, <1>5, <1>6, <1>7, <1>8, QuietAccounts, PushAccounts, MarkedAccounts
     DEF NotifyNext

\* Nothing is heard again where nothing is sent.
LEMMA UnreachedStep ==
    ASSUME NotifyShape, Unreached, [NotifyNext]_notifyVars
    PROVE  Unreached'
<1>1. ASSUME NEW r \in Runners, Push(r) PROVE Unreached'
  <2> SUFFICES ASSUME NEW o \in Tracked, NEW c \in Range(Channels) \ Reachable
               PROVE  repeats'[o][c] = 0
    BY DEF Unreached
  <2>1. repeats[o][c] = 0
    BY DEF Unreached
  <2>2. /\ Head(runner[r].queue) \in Reachable
        /\ Hear(r, Head(runner[r].queue)) \/ UNCHANGED <<heard, repeats>>
    BY <1>1, RunPushes
  <2>3. Head(runner[r].queue) \in Range(Channels) /\ c # Head(runner[r].queue)
    BY <2>2, ReachableAreChannels
  <2>4. repeats'[o][c] = repeats[o][c]
    BY <2>2, <2>3, HearAt
  <2> QED
    BY <2>1, <2>4
<1>2. CASE repeats' = repeats
  BY <1>2 DEF Unreached
<1>3. ASSUME NEW r \in Runners,
             StartRun(r) \/ Annotate(r) \/ RecordRun(r) \/ Compose(r) \/ SkipChannel(r)
             \/ MarkNotified(r) \/ EndRun(r) \/ RunCrash(r)
      PROVE  repeats' = repeats
  BY <1>3 DEF StartRun, Annotate, RecordRun, Compose, SkipChannel, MarkNotified, EndRun,
     RunCrash
<1>4. ASSUME NEW o \in Tracked, ChangeFacts(o) \/ MoveId(o) \/ RegisterCrosswalk(o)
      PROVE  repeats' = repeats
  BY <1>4 DEF ChangeFacts, MoveId, RegisterCrosswalk
<1>5. CASE UNCHANGED notifyVars
  BY <1>2, <1>5 DEF notifyVars
<1> QED
  BY <1>1, <1>2, <1>3, <1>4, <1>5 DEF NotifyNext

LEMMA NotifyInvInit == ASSUME NotifyInit PROVE NotifyInv
<1>1. NotifyShape
  BY ShapeInit
<1>2. /\ moved = {} /\ interruptions = 0
      /\ runner = [r \in Runners |-> Rest]
      /\ heard = [o \in Tracked |-> [c \in Range(Channels) |-> None]]
      /\ repeats = [o \in Tracked |-> [c \in Range(Channels) |-> 0]]
  BY DEF NotifyInit
<1>3. UnderWay = {}
  BY <1>2, RestIs DEF UnderWay
<1>4. ASSUME NEW o \in Tracked, NEW c \in Reachable PROVE Account(o, c)
  <2>1. c \in Range(Channels)
    BY ReachableAreChannels
  <2>2. heard[o][c] = None /\ repeats[o][c] = 0
    BY <1>2, <2>1
  <2>3. Slack(o, c) = 0
    BY <1>2, <2>2 DEF Slack
  <2>4. Slack(o, c) >= 0
    BY <2>3
  <2>5. Settled(o, c)
    BY <2>2 DEF Settled
  <2> QED
    BY <1>3, <2>4, <2>5 DEF Account
<1>5. Unreached
  BY <1>2 DEF Unreached
<1> QED
  BY <1>1, <1>4, <1>5 DEF NotifyInv, Accounts

LEMMA NotifyInvStep ==
    ASSUME ChannelsOnce, NotifyInv, [NotifyNext]_notifyVars PROVE NotifyInv'
<1>1. NotifyShape /\ Unreached
      /\ \A o \in Tracked : \A c \in Reachable : Account(o, c)
  BY DEF NotifyInv, Accounts
<1>2. NotifyShape'
  BY <1>1, ShapeStep
<1>3. Unreached'
  BY <1>1, UnreachedStep
<1>4. \A o \in Tracked : \A c \in Reachable : Account(o, c)'
  BY <1>1, <1>2, AccountStep
<1>5. Accounts'
  BY <1>4 DEF Accounts
<1> QED
  BY <1>2, <1>3, <1>5 DEF NotifyInv

\* An account leaves no debt.
LEMMA AccountsExplain == ASSUME NotifyInv PROVE RepeatsExplained
<1> SUFFICES ASSUME NEW o \in Tracked, NEW c \in Range(Channels)
             PROVE  repeats[o][c] <= interruptions + Cardinality(moved)
  BY DEF RepeatsExplained
<1>1. NotifyShape
  BY DEF NotifyInv
<1>2. repeats[o][c] \in Nat /\ interruptions \in Nat /\ IsFiniteSet(moved)
  BY <1>1 DEF NotifyShape
<1>3. Cardinality(moved) \in Nat /\ (o \in moved => Cardinality(moved) >= 1)
  <2>1. Cardinality(moved) \in Nat /\ (Cardinality(moved) = 0 <=> moved = {})
    BY <1>2, FS_CardinalityType, FS_EmptySet
  <2> QED
    BY <2>1
<1>4. CASE c \in Reachable
  <2>1. Account(o, c)
    BY <1>4 DEF NotifyInv, Accounts
  <2> DEFINE x == Slack(o, c)
  <2>2. x \in Int
    BY <1>2 DEF Slack
  <2>3. Cardinality(Speakers(c)) \in Nat
    BY <1>1, SpeakersAreFew
  <2>4. \/ x >= Cardinality(Speakers(c)) + 1 \/ x >= 0 \/ x >= 1 \/ x >= 2
    BY <2>1 DEF Account, Alone, BeforeSend, AwaitsNote, AfterSend, BothLook, FirstLooked,
       OneRepeated
  <2> HIDE DEF x
  <2>5. x >= 0
    BY <2>2, <2>3, <2>4
  <2>6. interruptions + (IF o \in moved THEN 1 ELSE 0) - repeats[o][c] >= 0
    BY <2>5 DEF x, Slack
  <2> QED
    BY <1>2, <1>3, <2>6
<1>5. CASE c \notin Reachable
  <2>1. repeats[o][c] = 0
    BY <1>5 DEF NotifyInv, Unreached
  <2> QED
    BY <1>2, <1>3, <2>1
<1> QED
  BY <1>4, <1>5

\* "You only hear about real changes" on the older path: a channel hears a
\* posting again as new, or a change that changes nothing, at most once for
\* every crash or failed send, twice for every run begun beside another, and
\* once more for a new ID, whatever the runs, the channels and the postings,
\* when no channel is configured twice (run_v41 and run_v5, cli.py).
THEOREM NotifyRepeatsExplained ==
    ASSUME ChannelsOnce
    PROVE  NotifySpec => []RepeatsExplained
<1>1. NotifyInit => NotifyInv
  BY NotifyInvInit
<1>2. NotifyInv /\ [NotifyNext]_notifyVars => NotifyInv'
  BY NotifyInvStep
<1>3. NotifyInv => RepeatsExplained
  BY AccountsExplain
<1> QED
  BY <1>1, <1>2, <1>3, PTL DEF NotifySpec

-----------------------------------------------------------------------------
(* The handoff reviews: what is true of the tables.                        *)

\* The tables a review works on, as they stand.
Tables == [revised |-> revised, intent |-> intent, deemed |-> deemed, drafts |-> drafts]

FoundIn(rows) == {Material("v3", rows[j]) : j \in {i \in Jobs : rows[i] # None}}
LeftBy(past) ==
    {Material(past[j].schema, past[j].card) : j \in {i \in Jobs : past[i] # None}}
Materials ==
    (UNION {FoundIn(rows) : rows \in Finds}) \cup (UNION {LeftBy(past) : past \in Pasts})
DraftStatuses == {"pending", "uncertain", "accepted", "failed", "cancelled", "abandoned"}
Drafts ==
    [target : Targets, members : SUBSET RowKeys, status : DraftStatuses, tried : BOOLEAN]

\* A row that exists is of a revision.  One of the present schema has a card
\* of that revision's material; one of an older schema was accepted, and while
\* it is the baseline its card, if kept, is the one heard last.
RowTrue(revs, deem, last, k, row) ==
    row.status # "absent" =>
      /\ k.sequence <= Len(revs[k.job])
      /\ revs[k.job][k.sequence].schema = "v3" =>
           Material("v3", row.card) = revs[k.job][k.sequence]
      /\ revs[k.job][k.sequence].schema # "v3" =>
           /\ row.status = "accepted"
           /\ row.card # None /\ deem[<<k.job, k.target>>] = k.sequence =>
                row.card = last[<<k.job, k.target>>]

RowsTrue(revs, deem, last, ints) ==
    \A k \in RowKeys : /\ DOMAIN ints[k] = {"status", "card", "tried"}
                       /\ ints[k].tried \in BOOLEAN
                       /\ RowTrue(revs, deem, last, k, ints[k])

\* A draft holds rows of the present schema.
DraftTrue(revs, ints, members) ==
    \A k \in members : /\ ints[k].status # "absent"
                       /\ k.sequence <= Len(revs[k.job])
                       /\ revs[k.job][k.sequence].schema = "v3"
DraftsTrue(revs, ints, ds) ==
    /\ ds \in Seq(Drafts)
    /\ \A d \in DOMAIN ds : DraftTrue(revs, ints, ds[d].members)

\* The baseline is a revision whose material the target heard last.
BaselineTrue(revs, deem, last, b) ==
    /\ deem[b] <= Len(revs[b[1]])
    /\ deem[b] > 0 => Material(revs[b[1]][deem[b]].schema, last[b]) = revs[b[1]][deem[b]]
BaselinesTrue(revs, deem, last) ==
    \A b \in Jobs \X Targets : BaselineTrue(revs, deem, last, b)

\* NothingCurrentGivenUp of these tables.
RowKept(revs, ints, k) ==
    /\ IsCurrent(revs, k) /\ ints[k].status # "absent" /\ ~ints[k].tried
    /\ k.generation < MaxReissues => ints[Replacement(k)].status = "absent"
    => ints[k].status = "pending"
RowsKept(revs, ints) == \A k \in RowKeys : RowKept(revs, ints, k)

TablesTyped(T) ==
    /\ DOMAIN T = {"revised", "intent", "deemed", "drafts"}
    /\ T.revised \in [Jobs -> Seq(Materials)]
    /\ DOMAIN T.intent = RowKeys
    /\ T.deemed \in [Jobs \X Targets -> Nat]
TablesTrue(T, last) ==
    /\ TablesTyped(T)
    /\ RowsTrue(T.revised, T.deemed, last, T.intent)
    /\ DraftsTrue(T.revised, T.intent, T.drafts)
    /\ BaselinesTrue(T.revised, T.deemed, last)
    /\ RowsKept(T.revised, T.intent)

HandoffInv == TablesTrue(Tables, lastHeard)

-----------------------------------------------------------------------------
(* What the helpers return.                                                *)

\* The replacement of a row is a row of the same revision, and not the row
\* itself.
LEMMA ReplacementIsRow ==
  ASSUME NEW o \in RowKeys, o.generation < MaxReissues
  PROVE  /\ Replacement(o) \in RowKeys
         /\ Replacement(o).job = o.job /\ Replacement(o).target = o.target
         /\ Replacement(o).sequence = o.sequence
         /\ Former(Replacement(o)) = o
<1>1. /\ o.job \in Jobs /\ o.target \in Targets /\ o.sequence \in 1..(MaxReviews + 1)
      /\ o.generation \in 1..MaxReissues
  BY DEF RowKeys
<1>2. o.generation \in Int /\ o.generation + 1 \in 1..MaxReissues
      /\ (o.generation + 1) - 1 = o.generation
  BY <1>1, BoundsAreNumbers
<1>3. Replacement(o) = [job |-> o.job, target |-> o.target, sequence |-> o.sequence,
                        generation |-> o.generation + 1]
  BY DEF RowKeys, Replacement
<1>4. Former(Replacement(o)) = [job |-> o.job, target |-> o.target,
                                sequence |-> o.sequence,
                                generation |-> (o.generation + 1) - 1]
  BY <1>3 DEF Former
<1>5. o = [job |-> o.job, target |-> o.target, sequence |-> o.sequence,
           generation |-> o.generation]
  BY DEF RowKeys
<1> QED
  BY <1>1, <1>2, <1>3, <1>4, <1>5 DEF RowKeys

\* revise keeps every revision in its place, and the newest one of a job it
\* evaluated is of what it found.
LEMMA RevisionsKept ==
  ASSUME NEW rows \in Finds, NEW j \in Jobs, revised \in [Jobs -> Seq(Materials)]
  PROVE  /\ Revise(rows)[j] \in Seq(Materials)
         /\ Len(revised[j]) <= Len(Revise(rows)[j])
         /\ \A n \in 1..Len(revised[j]) : Revise(rows)[j][n] = revised[j][n]
         /\ Revise(rows)[j] # revised[j] => Len(Revise(rows)[j]) = Len(revised[j]) + 1
         /\ rows[j] # None =>
              /\ Len(Revise(rows)[j]) > 0
              /\ Revise(rows)[j][Len(Revise(rows)[j])] = Material("v3", rows[j])
<1> DEFINE m == Material("v3", rows[j])
           seen == rows[j] # None /\ (revised[j] = <<>> \/ Last(revised[j]) # m)
<1>1. revised[j] \in Seq(Materials)
  OBVIOUS
<1>2. ASSUME rows[j] # None PROVE m \in Materials
  <2>1. m \in FoundIn(rows)
    BY <1>2 DEF FoundIn
  <2> QED
    BY <2>1 DEF Materials
<1>3. Revise(rows)[j] = IF seen THEN Append(revised[j], m) ELSE revised[j]
  BY DEF Revise
<1>4. revised[j] # <<>> => Last(revised[j]) = revised[j][Len(revised[j])]
                           /\ Len(revised[j]) > 0
  BY <1>1 DEF Last
<1>5. rows[j] # None /\ ~seen => revised[j] # <<>> /\ Last(revised[j]) = m
  OBVIOUS
<1>6. seen => rows[j] # None
  OBVIOUS
<1> HIDE DEF m, seen
<1>7. CASE seen
  <2>1. Revise(rows)[j] = Append(revised[j], m) /\ m \in Materials
    BY <1>2, <1>3, <1>6, <1>7
  <2>2. Append(revised[j], m) \in Seq(Materials)
        /\ Len(Append(revised[j], m)) = Len(revised[j]) + 1
        /\ (\A n \in 1..Len(revised[j]) : Append(revised[j], m)[n] = revised[j][n])
        /\ Append(revised[j], m)[Len(revised[j]) + 1] = m
        /\ Len(revised[j]) \in Nat
    BY <1>1, <2>1
  <2> QED
    BY <2>1, <2>2 DEF m
<1>8. CASE ~seen
  <2>1. Revise(rows)[j] = revised[j]
    BY <1>3, <1>8
  <2> QED
    BY <1>1, <1>4, <1>5, <1>8, <2>1 DEF m
<1> QED
  BY <1>7, <1>8

\* What a review stages is a row of the newest revision of a job it found,
\* of which nothing is recorded yet.
LEMMA StagedIsNew ==
  ASSUME NEW rows, NEW revs, NEW k \in Staged(rows, revs)
  PROVE  /\ k \in RowKeys /\ k.generation = 1 /\ k.sequence = Len(revs[k.job])
         /\ rows[k.job] # None
         /\ \A l \in RowKeys : l.job = k.job /\ l.target = k.target
                               /\ l.sequence = Len(revs[k.job]) => intent[l].status = "absent"
<1> DEFINE J == {j \in Evaluated(rows) :
         LET state == BaselineState(revs, j, k.target, rows[j]) IN
         /\ Lane(rows[j]) = "status" /\ ~HasFacts(rows[j]) => state # "new"
         /\ state \in {"new", "changed"}
         /\ \A l \in RowKeys : l.job = j /\ l.target = k.target /\ l.sequence = Len(revs[j])
                              => intent[l].status = "absent"}
<1>1. /\ k \in RowKeys /\ k.generation = 1 /\ k.sequence = Len(revs[k.job])
      /\ k.job \in ToStage(rows, revs, k.target)
  BY DEF Staged
<1>2. ToStage(rows, revs, k.target) = Selection(rows, J)
  BY DEF ToStage
<1>3. \A I : Selection(rows, I) \subseteq I
  BY DEF Selection
<1>4. k.job \in J
  BY <1>1, <1>2, <1>3
<1> QED
  BY <1>1, <1>4 DEF Evaluated

\* An adopted baseline is the newest revision, and the target heard of its
\* material last: the older acceptance that stands for it is of the card heard.
LEMMA AdoptionSound ==
  ASSUME TablesTrue(Tables, lastHeard), NEW rows \in Finds, NEW b \in Jobs \X Targets
  PROVE  \/ Adopt(rows, Revise(rows))[b] = deemed[b]
         \/ /\ rows[b[1]] # None
            /\ Adopt(rows, Revise(rows))[b] = Len(Revise(rows)[b[1]])
            /\ Material("v3", lastHeard[b]) = Material("v3", rows[b[1]])
<1> DEFINE revs == Revise(rows)
           j == b[1]
           t == b[2]
<1>1. /\ revised \in [Jobs -> Seq(Materials)] /\ deemed \in [Jobs \X Targets -> Nat]
      /\ RowsTrue(revised, deemed, lastHeard, intent)
      /\ BaselinesTrue(revised, deemed, lastHeard)
  BY DEF TablesTrue, TablesTyped, Tables
<1>2. j \in Jobs /\ t \in Targets /\ b = <<j, t>>
  OBVIOUS
<1>3. /\ Len(revised[j]) <= Len(revs[j])
      /\ \A n \in 1..Len(revised[j]) : revs[j][n] = revised[j][n]
      /\ rows[j] # None => Len(revs[j]) > 0
  BY <1>1, <1>2, RevisionsKept
<1>4. Len(revised[j]) \in Nat /\ Len(revs[j]) \in Nat /\ deemed[b] \in Nat
  BY <1>1, <1>2, RevisionsKept
<1>5. deemed[b] <= Len(revised[j])
  BY <1>1 DEF BaselinesTrue, BaselineTrue
<1> DEFINE state == BaselineState(revs, j, t, rows[j])
           adopts == j \in Evaluated(rows) /\ state = "adopted"
<1>6. Adopt(rows, revs)[b] = IF adopts THEN Len(revs[j]) ELSE deemed[b]
  BY DEF Adopt
<1>7. CASE adopts
  <2>1. rows[j] # None
    BY <1>7 DEF Evaluated
  <2>2. Len(revs[j]) > 0
    BY <1>3, <2>1
  <2> DEFINE n == deemed[b]
  <2>3. deemed[j, t] = n
    BY <1>2
  <2> DEFINE L == Len(revs[j])
  <2>a. BaselineState(revs, j, t, rows[j]) = "adopted"
    BY <1>7
  <2>b. n \in Nat /\ L \in Nat /\ L > 0 /\ n <= Len(revised[j]) /\ Len(revised[j]) <= L
        /\ Len(revised[j]) \in Nat
    BY <1>3, <1>4, <1>5, <2>2
  <2> HIDE DEF n, state, adopts
  <2>c. ASSUME n = 0 PROVE FALSE
    <3>1. L # n /\ n \notin 1..(L - 1)
      BY <2>b, <2>c
    <3>2. BaselineState(revs, j, t, rows[j]) = "new"
      BY <2>3, <2>c, <3>1 DEF BaselineState
    <3> QED
      BY <2>a, <3>2
  <2>d. ASSUME n = L PROVE FALSE
    <3>1. n # 0 /\ n \notin 1..(L - 1)
      BY <2>b, <2>d
    <3>2. BaselineState(revs, j, t, rows[j]) = "delivered"
      BY <2>3, <2>d, <3>1 DEF BaselineState
    <3> QED
      BY <2>a, <3>2
  <2>4. n # 0 /\ n # L /\ n \in 1..(L - 1)
    <3> HIDE DEF L
    <3> QED
      BY <2>b, <2>c, <2>d
  <2>5. revs[j][n].schema # "v3"
    BY <2>a, <2>3, <2>4 DEF BaselineState
  <2>6. \E p \in Proofs(revs, j, t) : Unchanged(rows[j], p)
    BY <2>a, <2>3, <2>4, <2>5 DEF BaselineState
  <2>7. PICK p \in Proofs(revs, j, t) : Unchanged(rows[j], p)
    BY <2>6
  <2>8. PICK k \in RowKeys : /\ k.job = j /\ k.target = t /\ k.sequence = n
                             /\ intent[k].status = "accepted" /\ p = intent[k].card
                             /\ p # None
    BY <2>3, <2>7 DEF Proofs
  <2>9. revised[j][n] = revs[j][n]
    <3>1. n \in 1..Len(revised[j])
      BY <2>b, <2>c
    <3> QED
      BY <1>3, <3>1
  <2>10. RowTrue(revised, deemed, lastHeard, k, intent[k])
    BY <1>1, <2>8 DEF RowsTrue
  <2>11. p = lastHeard[b]
    BY <1>2, <2>5, <2>8, <2>9, <2>10 DEF RowTrue, n
  <2> QED
    BY <1>6, <1>7, <2>1, <2>7, <2>11 DEF Unchanged, adopts
<1>8. CASE ~adopts
  BY <1>6, <1>8
<1> QED
  BY <1>7, <1>8

\* A row that is given another status, with the same card, stays true to its
\* revision when it was not yet accepted, or is of the present schema.
LEMMA StatusChanged ==
  ASSUME NEW revs, NEW deem, NEW last, NEW k, NEW row, NEW other,
         RowTrue(revs, deem, last, k, row), row.status # "absent",
         row.status # "accepted" \/ revs[k.job][k.sequence].schema = "v3",
         other.card = row.card
  PROVE  /\ RowTrue(revs, deem, last, k, other)
         /\ revs[k.job][k.sequence].schema = "v3"
BY DEF RowTrue

\* The tables a review works on once it has revised, adopted and staged.
RunTables(rows) ==
    LET revs == Revise(rows)
        staged == Staged(rows, revs)
        superseded == Supersede(revs)
    IN  [revised |-> revs, deemed |-> Adopt(rows, revs), drafts |-> drafts,
         intent |-> [k \in RowKeys |-> IF k \in staged THEN PendingRow(rows[k.job])
                                      ELSE superseded[k]]]

\* What revise leaves of a row: its card, and the row itself unless its job
\* has another revision.
LEMMA SupersededRow ==
  ASSUME NEW revs, NEW k \in RowKeys, DOMAIN intent[k] = {"status", "card", "tried"}
  PROVE  LET row == Supersede(revs)[k] IN
         /\ DOMAIN row = {"status", "card", "tried"}
         /\ row.card = intent[k].card /\ row.tried = intent[k].tried
         /\ row.status = "absent" <=> intent[k].status = "absent"
         /\ row.status # intent[k].status =>
              intent[k].status \notin {"absent", "accepted"}
         /\ revs[k.job] = revised[k.job] => row = intent[k]
<1> DEFINE other == [intent[k] EXCEPT !.status = "superseded"]
           changes == /\ revs[k.job] # revised[k.job]
                      /\ intent[k].status \in {"pending", "leased", "failed"}
<1>1. DOMAIN other = {"status", "card", "tried"} /\ other.card = intent[k].card
      /\ other.tried = intent[k].tried /\ other.status = "superseded"
  OBVIOUS
<1>2. Supersede(revs)[k] = IF changes THEN other ELSE intent[k]
  BY DEF Supersede
<1> HIDE DEF other
<1> QED
  BY <1>1, <1>2

\* Revising, adopting and staging keep every row true and give up none.
LEMMA StagingKeepsRows ==
  ASSUME TablesTrue(Tables, lastHeard), NEW rows \in Finds, NEW k \in RowKeys
  PROVE  LET T == RunTables(rows)
             row == T.intent[k]
         IN  /\ DOMAIN row = {"status", "card", "tried"} /\ row.tried \in BOOLEAN
             /\ RowTrue(T.revised, T.deemed, lastHeard, k, row)
             /\ RowKept(T.revised, T.intent, k)
             /\ intent[k].status # "absent" => row.status # "absent"
<1> DEFINE revs == Revise(rows)
           deem == Adopt(rows, revs)
           S == Staged(rows, revs)
           ints == RunTables(rows).intent
           row == ints[k]
           j == k.job
           b == <<k.job, k.target>>
<1>1. /\ revised \in [Jobs -> Seq(Materials)] /\ deemed \in [Jobs \X Targets -> Nat]
      /\ RowsTrue(revised, deemed, lastHeard, intent)
      /\ RowsKept(revised, intent)
  BY DEF TablesTrue, TablesTyped, Tables
<1>2. j \in Jobs /\ k.sequence \in Nat \ {0} /\ b \in Jobs \X Targets
      /\ k.generation \in Nat \ {0}
  BY BoundsAreNumbers DEF RowKeys
<1>3. /\ revs[j] \in Seq(Materials) /\ revised[j] \in Seq(Materials)
      /\ Len(revised[j]) <= Len(revs[j])
      /\ \A n \in 1..Len(revised[j]) : revs[j][n] = revised[j][n]
      /\ revs[j] # revised[j] => Len(revs[j]) = Len(revised[j]) + 1
      /\ rows[j] # None => /\ Len(revs[j]) > 0
                           /\ revs[j][Len(revs[j])] = Material("v3", rows[j])
  BY <1>1, <1>2, RevisionsKept
<1>4. Len(revised[j]) \in Nat /\ Len(revs[j]) \in Nat
  BY <1>3
<1>5. \A l \in RowKeys : ints[l] = IF l \in S THEN PendingRow(rows[l.job])
                                   ELSE Supersede(revs)[l]
  BY DEF RunTables
<1>6. /\ RunTables(rows).revised = revs /\ RunTables(rows).deemed = deem
  BY DEF RunTables
<1>7. /\ DOMAIN intent[k] = {"status", "card", "tried"} /\ intent[k].tried \in BOOLEAN
      /\ RowTrue(revised, deemed, lastHeard, k, intent[k])
  BY <1>1 DEF RowsTrue
<1>8. \/ deem[b] = deemed[b]
      \/ rows[j] # None /\ deem[b] = Len(revs[j])
  BY <1>2, AdoptionSound
<1> HIDE DEF revs, deem, S, ints
<1>9. Material("v3", rows[j]).schema = "v3"
  BY DEF Material
<1>10. RowTrue(revs, deem, lastHeard, k, intent[k])
  <2>1. SUFFICES ASSUME intent[k].status # "absent"
                 PROVE  RowTrue(revs, deem, lastHeard, k, intent[k])
    BY DEF RowTrue
  <2>2. k.sequence <= Len(revised[j])
    BY <1>7, <2>1 DEF RowTrue
  <2>3. k.sequence <= Len(revs[j]) /\ revs[j][k.sequence] = revised[j][k.sequence]
    BY <1>2, <1>3, <1>4, <2>2
  <2>4. revised[j][k.sequence].schema # "v3" /\ deem[b] = k.sequence => deemed[b] = k.sequence
    BY <1>3, <1>8, <1>9, <2>3
  <2> QED
    BY <1>7, <2>1, <2>3, <2>4 DEF RowTrue
<1>11. CASE k \in S
  <2>1. /\ k.sequence = Len(revs[j]) /\ rows[j] # None
        /\ intent[k].status = "absent"
    BY <1>11, StagedIsNew DEF S, revs
  <2>2. row = PendingRow(rows[j])
    BY <1>5, <1>11
  <2>3. DOMAIN row = {"status", "card", "tried"} /\ row.status = "pending" /\ row.tried = FALSE
        /\ row.card = rows[j]
    BY <2>2 DEF PendingRow
  <2>4. RowTrue(revs, deem, lastHeard, k, row)
    BY <1>3, <1>4, <1>9, <2>1, <2>3 DEF RowTrue
  <2> QED
    BY <1>6, <2>1, <2>3, <2>4 DEF RowKept, ints
<1>12. CASE k \notin S
  <2>1. row = Supersede(revs)[k]
    BY <1>5, <1>12
  <2>2. /\ DOMAIN row = {"status", "card", "tried"}
        /\ row.card = intent[k].card /\ row.tried = intent[k].tried
        /\ row.status = "absent" <=> intent[k].status = "absent"
        /\ row.status # intent[k].status => intent[k].status \notin {"absent", "accepted"}
        /\ revs[j] = revised[j] => row = intent[k]
    BY <1>7, <2>1, SupersededRow
  <2>3. RowTrue(revs, deem, lastHeard, k, row)
    BY <1>10, <2>2, StatusChanged DEF RowTrue
  <2>4. RowKept(revs, ints, k)
    <3>1. SUFFICES ASSUME IsCurrent(revs, k), row.status # "absent", ~row.tried,
                          k.generation < MaxReissues => ints[Replacement(k)].status = "absent"
                   PROVE  row.status = "pending"
      BY DEF RowKept
    <3>2. k.sequence <= Len(revised[j]) /\ k.sequence = Len(revs[j])
      BY <1>7, <2>2, <3>1 DEF RowTrue, IsCurrent
    <3>3. revs[j] = revised[j]
      BY <1>2, <1>3, <1>4, <3>2
    <3>4. row = intent[k] /\ IsCurrent(revised, k)
      BY <2>2, <3>2, <3>3 DEF IsCurrent
    <3>5. ASSUME k.generation < MaxReissues
          PROVE  intent[Replacement(k)].status = "absent"
      <4> DEFINE l == Replacement(k)
      <4>1. l \in RowKeys /\ l.job = j /\ l.generation = k.generation + 1
        BY <3>5, ReplacementIsRow DEF Replacement, RowKeys
      <4>2. l \notin S
        BY <1>2, <4>1, StagedIsNew DEF S
      <4>3. ints[l] = Supersede(revs)[l]
        BY <1>5, <4>1, <4>2
      <4>4. DOMAIN intent[l] = {"status", "card", "tried"}
        BY <1>1, <4>1 DEF RowsTrue
      <4>5. ints[l].status = "absent" <=> intent[l].status = "absent"
        BY <4>1, <4>3, <4>4, SupersededRow
      <4> QED
        BY <3>1, <3>5, <4>5
    <3>6. RowKept(revised, intent, k)
      BY <1>1 DEF RowsKept
    <3> QED
      BY <3>1, <3>4, <3>5, <3>6 DEF RowKept
  <2> QED
    BY <1>6, <1>7, <2>2, <2>3, <2>4 DEF ints
<1> QED
  BY <1>11, <1>12

\* Revising, adopting and staging keep the tables true.
LEMMA StagingKeepsTrue ==
  ASSUME TablesTrue(Tables, lastHeard), NEW rows \in Finds
  PROVE  TablesTrue(RunTables(rows), lastHeard)
<1> DEFINE T == RunTables(rows)
           revs == Revise(rows)
           deem == Adopt(rows, revs)
<1>1. /\ revised \in [Jobs -> Seq(Materials)] /\ deemed \in [Jobs \X Targets -> Nat]
      /\ DraftsTrue(revised, intent, drafts)
      /\ BaselinesTrue(revised, deemed, lastHeard)
  BY DEF TablesTrue, TablesTyped, Tables
<1>2. /\ DOMAIN T = {"revised", "intent", "deemed", "drafts"}
      /\ T.revised = revs /\ T.deemed = deem /\ T.drafts = drafts
      /\ DOMAIN T.intent = RowKeys
  BY DEF RunTables
<1>3. \A k \in RowKeys :
        /\ DOMAIN T.intent[k] = {"status", "card", "tried"} /\ T.intent[k].tried \in BOOLEAN
        /\ RowTrue(revs, deem, lastHeard, k, T.intent[k])
        /\ RowKept(revs, T.intent, k)
        /\ intent[k].status # "absent" => T.intent[k].status # "absent"
  BY <1>2, StagingKeepsRows
<1>4. \A j \in Jobs :
        /\ revs[j] \in Seq(Materials) /\ Len(revs[j]) \in Nat /\ Len(revised[j]) \in Nat
        /\ Len(revised[j]) <= Len(revs[j])
        /\ \A n \in 1..Len(revised[j]) : revs[j][n] = revised[j][n]
        /\ rows[j] # None => /\ Len(revs[j]) > 0
                             /\ revs[j][Len(revs[j])] = Material("v3", rows[j])
  BY <1>1, RevisionsKept
<1>5. \A b \in Jobs \X Targets :
        \/ deem[b] = deemed[b]
        \/ /\ rows[b[1]] # None /\ deem[b] = Len(revs[b[1]])
           /\ Material("v3", lastHeard[b]) = Material("v3", rows[b[1]])
  BY AdoptionSound
<1>6. DOMAIN revs = Jobs /\ DOMAIN deem = Jobs \X Targets
      /\ revs = [j \in DOMAIN revs |-> revs[j]] /\ deem = [b \in DOMAIN deem |-> deem[b]]
  BY DEF Revise, Adopt
<1> HIDE DEF T, revs, deem
<1>7. revs \in [Jobs -> Seq(Materials)]
  BY <1>4, <1>6
<1>8. \A b \in Jobs \X Targets : deem[b] \in Nat
  BY <1>1, <1>4, <1>5
<1>9. deem \in [Jobs \X Targets -> Nat]
  BY <1>6, <1>8
<1>10. DraftsTrue(revs, T.intent, drafts)
  <2>1. ASSUME NEW d \in DOMAIN drafts, NEW k \in drafts[d].members
        PROVE  /\ T.intent[k].status # "absent" /\ k.sequence <= Len(revs[k.job])
               /\ revs[k.job][k.sequence].schema = "v3"
    <3>1. k \in RowKeys
      <4>1. drafts[d] \in Drafts
        BY <1>1, <2>1 DEF DraftsTrue
      <4> QED
        BY <2>1, <4>1 DEF Drafts
    <3>2. /\ intent[k].status # "absent" /\ k.sequence <= Len(revised[k.job])
          /\ revised[k.job][k.sequence].schema = "v3"
      BY <1>1, <2>1 DEF DraftsTrue, DraftTrue
    <3>3. k.job \in Jobs /\ k.sequence \in Nat \ {0}
      BY <3>1, BoundsAreNumbers DEF RowKeys
    <3>4. k.sequence <= Len(revs[k.job])
      BY <1>4, <3>2, <3>3
    <3>5. k.sequence \in 1..Len(revised[k.job])
      BY <1>4, <3>2, <3>3
    <3> QED
      BY <1>3, <1>4, <3>1, <3>2, <3>3, <3>4, <3>5
  <2> QED
    BY <1>1, <2>1 DEF DraftsTrue, DraftTrue
<1>11. ASSUME NEW b \in Jobs \X Targets PROVE BaselineTrue(revs, deem, lastHeard, b)
  <2> DEFINE j == b[1]
  <2>1. j \in Jobs /\ deemed[b] \in Nat
    BY <1>1
  <2>2. BaselineTrue(revised, deemed, lastHeard, b)
    BY <1>1 DEF BaselinesTrue
  <2>3. CASE deem[b] = deemed[b]
    <3>1. deem[b] <= Len(revised[j]) /\ deem[b] <= Len(revs[j])
      BY <1>4, <2>1, <2>2, <2>3 DEF BaselineTrue
    <3>2. deem[b] > 0 => deem[b] \in 1..Len(revised[j])
      BY <1>4, <2>1, <2>3, <3>1
    <3>3. deem[b] > 0 => revs[j][deem[b]] = revised[j][deem[b]]
      BY <1>4, <2>1, <3>2
    <3> QED
      BY <2>2, <2>3, <3>1, <3>3 DEF BaselineTrue
  <2>4. CASE /\ rows[j] # None /\ deem[b] = Len(revs[j])
             /\ Material("v3", lastHeard[b]) = Material("v3", rows[j])
    <3>1. revs[j][deem[b]] = Material("v3", rows[j]) /\ Len(revs[j]) \in Nat
      BY <1>4, <2>1, <2>4
    <3>2. Material("v3", rows[j]).schema = "v3"
      BY DEF Material
    <3> QED
      BY <2>4, <3>1, <3>2 DEF BaselineTrue
  <2> QED
    BY <1>5, <2>3, <2>4
<1>12. TablesTyped(T)
  BY <1>2, <1>7, <1>9 DEF TablesTyped
<1>13. RowsTrue(revs, deem, lastHeard, T.intent) /\ RowsKept(revs, T.intent)
  BY <1>3 DEF RowsTrue, RowsKept
<1>14. BaselinesTrue(revs, deem, lastHeard)
  BY <1>11 DEF BaselinesTrue
<1>15. TablesTrue(T, lastHeard)
  BY <1>2, <1>10, <1>12, <1>13, <1>14 DEF TablesTrue
<1> QED
  BY <1>15 DEF T

-----------------------------------------------------------------------------
(* Retirement, reissue and composition.                                    *)

\* The row k is true and kept in the tables U, and exists there if it existed
\* in the tables T.
RowKeeps(T, U, last, k) ==
    LET row == U.intent[k] IN
    /\ DOMAIN row = {"status", "card", "tried"} /\ row.tried \in BOOLEAN
    /\ RowTrue(U.revised, U.deemed, last, k, row)
    /\ RowKept(U.revised, U.intent, k)
    /\ T.intent[k].status # "absent" => row.status # "absent"

\* Tables with the same revisions and the same members in the drafts are true
\* when their rows and baselines are.
LEMMA SameRevisions ==
  ASSUME NEW T, NEW U, NEW last, NEW now,
         TablesTrue(T, last), TablesTyped(U), U.revised = T.revised,
         U.drafts \in Seq(Drafts), DOMAIN U.drafts = DOMAIN T.drafts,
         \A d \in DOMAIN T.drafts : U.drafts[d].members = T.drafts[d].members,
         BaselinesTrue(U.revised, U.deemed, now),
         \A k \in RowKeys : RowKeeps(T, U, now, k)
  PROVE  TablesTrue(U, now)
<1>1. DraftsTrue(T.revised, T.intent, T.drafts)
  BY DEF TablesTrue
<1>2. ASSUME NEW d \in DOMAIN T.drafts, NEW k \in T.drafts[d].members
      PROVE  /\ U.intent[k].status # "absent" /\ k.sequence <= Len(U.revised[k.job])
             /\ U.revised[k.job][k.sequence].schema = "v3"
  <2>1. T.drafts[d] \in Drafts
    BY <1>1 DEF DraftsTrue
  <2>2. k \in RowKeys
    BY <2>1 DEF Drafts
  <2>3. T.intent[k].status # "absent" /\ k.sequence <= Len(T.revised[k.job])
        /\ T.revised[k.job][k.sequence].schema = "v3"
    BY <1>1 DEF DraftsTrue, DraftTrue
  <2>4. RowKeeps(T, U, now, k)
    BY <2>2
  <2> QED
    BY <2>3, <2>4 DEF RowKeeps
<1>3. DraftsTrue(U.revised, U.intent, U.drafts)
  BY <1>2 DEF DraftsTrue, DraftTrue
<1>4. RowsTrue(U.revised, U.deemed, now, U.intent) /\ RowsKept(U.revised, U.intent)
  BY DEF RowKeeps, RowsTrue, RowsKept
<1> QED
  BY <1>3, <1>4 DEF TablesTrue

\* Drafts that are given another status keep their members.
Restate(ds, G, status) ==
    [d \in DOMAIN ds |-> IF d \in G THEN [ds[d] EXCEPT !.status = status] ELSE ds[d]]
LEMMA DraftsRestated ==
  ASSUME NEW ds \in Seq(Drafts), NEW G, NEW status \in DraftStatuses
  PROVE  /\ Restate(ds, G, status) \in Seq(Drafts)
         /\ DOMAIN Restate(ds, G, status) = DOMAIN ds
         /\ \A d \in DOMAIN ds : Restate(ds, G, status)[d].members = ds[d].members
<1> DEFINE U == Restate(ds, G, status)
<1> USE DEF Restate
<1>1. ASSUME NEW d \in DOMAIN ds
      PROVE  U[d] \in Drafts /\ U[d].members = ds[d].members
  <2>1. ds[d] \in Drafts
    OBVIOUS
  <2>2. [ds[d] EXCEPT !.status = status] \in Drafts
        /\ [ds[d] EXCEPT !.status = status].members = ds[d].members
    BY <2>1 DEF Drafts
  <2> QED
    BY <2>1, <2>2
<1>2. DOMAIN ds = 1..Len(ds) /\ Len(ds) \in Nat /\ DOMAIN U = DOMAIN ds
  OBVIOUS
<1> HIDE DEF U
<1>3. U \in [1..Len(ds) -> Drafts]
  <2>1. U = [d \in DOMAIN ds |-> U[d]]
    BY DEF U
  <2> QED
    BY <1>1, <1>2, <2>1
<1>4. U \in Seq(Drafts)
  BY <1>2, <1>3
<1> QED
  BY <1>1, <1>2, <1>4 DEF U

\* A row that is given another status, and what it leaves the same.
LEMMA Restated ==
  ASSUME NEW row, DOMAIN row = {"status", "card", "tried"}, NEW status
  PROVE  LET other == [row EXCEPT !.status = status] IN
         /\ DOMAIN other = {"status", "card", "tried"} /\ other.status = status
         /\ other.card = row.card /\ other.tried = row.tried
OBVIOUS

\* retire_obsolete_previews cancels drafts that hold no current row: it gives
\* up nothing current.
LEMMA RetireKeepsTrue ==
  ASSUME NEW T, NEW last, TablesTrue(T, last)
  PROVE  TablesTrue(Retire(T), last)
<1> DEFINE gone == {d \in DOMAIN T.drafts : Retired(T, T.drafts[d])}
           U == Retire(T)
<1>1. /\ TablesTyped(T) /\ RowsTrue(T.revised, T.deemed, last, T.intent)
      /\ DraftsTrue(T.revised, T.intent, T.drafts) /\ RowsKept(T.revised, T.intent)
      /\ BaselinesTrue(T.revised, T.deemed, last) /\ T.drafts \in Seq(Drafts)
  BY DEF TablesTrue, DraftsTrue
<1>2. /\ DOMAIN U = {"revised", "intent", "deemed", "drafts"}
      /\ U.revised = T.revised /\ U.deemed = T.deemed
      /\ U.drafts = Restate(T.drafts, gone, "cancelled")
      /\ U.intent = [k \in RowKeys |->
              IF \E d \in gone : k \in T.drafts[d].members
              THEN [T.intent[k] EXCEPT !.status = "superseded"] ELSE T.intent[k]]
  BY <1>1 DEF Retire, TablesTyped, Restate
<1>3. \A d \in gone : \A k \in T.drafts[d].members : ~IsCurrent(T.revised, k)
  BY DEF Retired, CurrentMembers
<1>4. \A d \in gone : \A k \in T.drafts[d].members :
        T.intent[k].status # "absent" /\ T.revised[k.job][k.sequence].schema = "v3"
  BY <1>1 DEF DraftsTrue, DraftTrue
<1> HIDE DEF gone, U
<1>5. TablesTyped(U)
  BY <1>1, <1>2 DEF TablesTyped
<1>6. U.drafts \in Seq(Drafts) /\ DOMAIN U.drafts = DOMAIN T.drafts
      /\ \A d \in DOMAIN T.drafts : U.drafts[d].members = T.drafts[d].members
  <2>1. "cancelled" \in DraftStatuses /\ T.drafts \in Seq(Drafts)
    BY <1>1 DEF DraftStatuses
  <2>2. /\ Restate(T.drafts, gone, "cancelled") \in Seq(Drafts)
        /\ DOMAIN Restate(T.drafts, gone, "cancelled") = DOMAIN T.drafts
        /\ \A d \in DOMAIN T.drafts :
             Restate(T.drafts, gone, "cancelled")[d].members = T.drafts[d].members
    BY <2>1, DraftsRestated
  <2> QED
    BY <1>2, <2>2
<1>7. ASSUME NEW k \in RowKeys
      PROVE  /\ DOMAIN T.intent[k] = {"status", "card", "tried"}
             /\ T.intent[k].tried \in BOOLEAN
             /\ RowTrue(T.revised, T.deemed, last, k, T.intent[k])
             /\ RowKept(T.revised, T.intent, k)
             /\ U.intent[k].status = "absent" <=> T.intent[k].status = "absent"
  <2>1. /\ DOMAIN T.intent[k] = {"status", "card", "tried"} /\ T.intent[k].tried \in BOOLEAN
        /\ RowTrue(T.revised, T.deemed, last, k, T.intent[k])
        /\ RowKept(T.revised, T.intent, k)
    BY <1>1 DEF RowsTrue, RowsKept
  <2>2. CASE \E d \in gone : k \in T.drafts[d].members
    <3>1. U.intent[k].status = "superseded"
      BY <1>2, <2>1, <2>2, Restated
    <3>2. T.intent[k].status # "absent"
      BY <1>4, <2>2
    <3> QED
      BY <2>1, <3>1, <3>2
  <2>3. CASE ~ \E d \in gone : k \in T.drafts[d].members
    <3>1. U.intent[k] = T.intent[k]
      BY <1>2, <2>3
    <3> QED
      BY <2>1, <3>1
  <2> QED
    BY <2>2, <2>3
<1>8. ASSUME NEW k \in RowKeys PROVE RowKeeps(T, U, last, k)
  <2>1. CASE \E d \in gone : k \in T.drafts[d].members
    <3>1. U.intent[k] = [T.intent[k] EXCEPT !.status = "superseded"]
      BY <1>2, <2>1
    <3>2. /\ DOMAIN U.intent[k] = {"status", "card", "tried"}
          /\ U.intent[k].card = T.intent[k].card /\ U.intent[k].tried = T.intent[k].tried
      BY <1>7, <3>1, Restated
    <3>3. /\ ~IsCurrent(T.revised, k) /\ T.intent[k].status # "absent"
          /\ T.revised[k.job][k.sequence].schema = "v3"
      BY <1>3, <1>4, <2>1
    <3>4. RowTrue(T.revised, T.deemed, last, k, U.intent[k])
      BY <1>7, <3>2, <3>3, StatusChanged
    <3>5. RowKept(T.revised, U.intent, k)
      BY <3>3 DEF RowKept
    <3> QED
      BY <1>2, <1>7, <3>2, <3>4, <3>5 DEF RowKeeps
  <2>2. CASE ~ \E d \in gone : k \in T.drafts[d].members
    <3>1. U.intent[k] = T.intent[k]
      BY <1>2, <2>2
    <3>2. ASSUME k.generation < MaxReissues, U.intent[Replacement(k)].status = "absent"
          PROVE  T.intent[Replacement(k)].status = "absent"
      BY <1>7, <3>2, ReplacementIsRow
    <3>3. RowKept(T.revised, U.intent, k)
      BY <1>7, <3>1, <3>2 DEF RowKept
    <3> QED
      BY <1>2, <1>7, <3>1, <3>3 DEF RowKeeps
  <2> QED
    BY <2>1, <2>2
<1>9. TablesTrue(U, last)
  BY <1>1, <1>2, <1>5, <1>6, <1>8, SameRevisions
<1> QED
  BY <1>9 DEF U

\* reissue_unsent gives up no current row: a row it names has another
\* generation in its place, and it names every current one of the drafts it
\* abandons.
LEMMA ReissueKeepsTrue ==
  ASSUME NEW T, NEW last, TablesTrue(T, last), NEW rows,
         NEW recover \in SUBSET DOMAIN T.drafts, NEW ids \in SUBSET RowKeys,
         NamesAll(T, recover, ids),
         \A k \in ids : Recoverable(T, rows, k) /\ k.generation < MaxReissues
  PROVE  TablesTrue(Reissue(T, recover, ids), last)
<1> DEFINE U == Reissue(T, recover, ids)
           released == UNION {T.drafts[d].members : d \in recover}
<1>1. /\ TablesTyped(T) /\ RowsTrue(T.revised, T.deemed, last, T.intent)
      /\ DraftsTrue(T.revised, T.intent, T.drafts) /\ RowsKept(T.revised, T.intent)
      /\ BaselinesTrue(T.revised, T.deemed, last) /\ T.drafts \in Seq(Drafts)
  BY DEF TablesTrue, DraftsTrue
<1>2. /\ DOMAIN U = {"revised", "intent", "deemed", "drafts"}
      /\ U.revised = T.revised /\ U.deemed = T.deemed
      /\ U.drafts = Restate(T.drafts, recover, "abandoned")
      /\ U.intent = [k \in RowKeys |->
          IF k \in ids THEN [T.intent[k] EXCEPT !.status = "superseded"]
          ELSE IF \E o \in ids : k = Replacement(o)
          THEN PendingRow(T.intent[Former(k)].card)
          ELSE IF k \in released /\ T.intent[k].status \notin {"superseded", "accepted"}
          THEN [T.intent[k] EXCEPT !.status = "failed"]
          ELSE T.intent[k]]
  BY <1>1 DEF Reissue, TablesTyped, Restate
<1>3. \A k \in ids : /\ T.intent[k].status \in {"pending", "failed"}
                     /\ k.generation < MaxReissues
                     /\ T.intent[Replacement(k)].status = "absent"
  BY DEF Recoverable
<1>4. \A k \in ids : /\ Replacement(k) \in RowKeys \ ids
                     /\ Replacement(k).job = k.job /\ Replacement(k).target = k.target
                     /\ Replacement(k).sequence = k.sequence
                     /\ Former(Replacement(k)) = k
  BY <1>3, ReplacementIsRow
<1>5. \A k \in released :
        /\ k \in ids \/ ~IsCurrent(T.revised, k)
        /\ T.intent[k].status # "absent" /\ T.revised[k.job][k.sequence].schema = "v3"
  <2>1. ASSUME NEW d \in recover, NEW k \in T.drafts[d].members
        PROVE  /\ k \in ids \/ ~IsCurrent(T.revised, k)
               /\ T.intent[k].status # "absent" /\ T.revised[k.job][k.sequence].schema = "v3"
    <3>1. ids = UNION {CurrentMembers(T.revised, T.drafts[e]) : e \in recover}
      BY DEF NamesAll
    <3>2. IsCurrent(T.revised, k) => k \in CurrentMembers(T.revised, T.drafts[d])
      BY DEF CurrentMembers
    <3>3. d \in DOMAIN T.drafts
      OBVIOUS
    <3>4. T.intent[k].status # "absent" /\ T.revised[k.job][k.sequence].schema = "v3"
      BY <1>1, <3>3 DEF DraftsTrue, DraftTrue
    <3> QED
      BY <3>1, <3>2, <3>4
  <2> QED
    BY <2>1
<1> HIDE DEF released, U
<1>6. TablesTyped(U)
  BY <1>1, <1>2 DEF TablesTyped
<1>7. U.drafts \in Seq(Drafts) /\ DOMAIN U.drafts = DOMAIN T.drafts
      /\ \A d \in DOMAIN T.drafts : U.drafts[d].members = T.drafts[d].members
  <2>1. "abandoned" \in DraftStatuses /\ T.drafts \in Seq(Drafts)
    BY <1>1 DEF DraftStatuses
  <2>2. /\ Restate(T.drafts, recover, "abandoned") \in Seq(Drafts)
        /\ DOMAIN Restate(T.drafts, recover, "abandoned") = DOMAIN T.drafts
        /\ \A d \in DOMAIN T.drafts :
             Restate(T.drafts, recover, "abandoned")[d].members = T.drafts[d].members
    BY <2>1, DraftsRestated
  <2> QED
    BY <1>2, <2>2
<1>8. \A k \in RowKeys :
        /\ DOMAIN T.intent[k] = {"status", "card", "tried"} /\ T.intent[k].tried \in BOOLEAN
        /\ RowTrue(T.revised, T.deemed, last, k, T.intent[k])
        /\ RowKept(T.revised, T.intent, k)
  BY <1>1 DEF RowsTrue, RowsKept
<1>9. ASSUME NEW o \in ids
      PROVE  /\ U.intent[Replacement(o)] =
                  [status |-> "pending", card |-> T.intent[o].card, tried |-> FALSE]
             /\ U.intent[Replacement(o)].status = "pending"
  <2> DEFINE l == Replacement(o)
  <2>1. l \in RowKeys /\ l \notin ids /\ Former(l) = o /\ l = Replacement(o)
    BY <1>4
  <2> HIDE DEF l
  <2>2. U.intent[l] = PendingRow(T.intent[Former(l)].card)
    BY <1>2, <2>1
  <2> QED
    BY <2>1, <2>2 DEF PendingRow
<1>10. ASSUME NEW k \in RowKeys PROVE RowKeeps(T, U, last, k)
  <2>1. CASE k \in ids
    <3>1. U.intent[k] = [T.intent[k] EXCEPT !.status = "superseded"]
      BY <1>2, <2>1
    <3>2. /\ DOMAIN U.intent[k] = {"status", "card", "tried"}
          /\ U.intent[k].status = "superseded"
          /\ U.intent[k].card = T.intent[k].card /\ U.intent[k].tried = T.intent[k].tried
      BY <1>8, <3>1, Restated
    <3>3. RowTrue(T.revised, T.deemed, last, k, U.intent[k])
      BY <1>3, <1>8, <2>1, <3>2, StatusChanged
    <3>4. U.intent[Replacement(k)].status = "pending"
      BY <1>9, <2>1
    <3>5. RowKept(T.revised, U.intent, k)
      BY <1>3, <2>1, <3>4 DEF RowKept
    <3> QED
      BY <1>2, <1>8, <3>2, <3>3, <3>5 DEF RowKeeps
  <2>2. CASE \E o \in ids : k = Replacement(o)
    <3>1. PICK o \in ids : k = Replacement(o)
      BY <2>2
    <3>2. U.intent[k] = [status |-> "pending", card |-> T.intent[o].card, tried |-> FALSE]
      BY <1>9, <3>1
    <3>3. DOMAIN U.intent[k] = {"status", "card", "tried"} /\ U.intent[k].status = "pending"
          /\ U.intent[k].card = T.intent[o].card /\ U.intent[k].tried = FALSE
      BY <3>2
    <3>4. RowTrue(T.revised, T.deemed, last, o, T.intent[o])
          /\ T.intent[o].status \notin {"absent", "accepted"}
      BY <1>3, <1>8
    <3>5. k.job = o.job /\ k.sequence = o.sequence
      BY <1>4, <3>1
    <3>6. RowTrue(T.revised, T.deemed, last, k, U.intent[k])
      BY <3>3, <3>4, <3>5 DEF RowTrue
    <3>7. RowKept(T.revised, U.intent, k)
      BY <3>3 DEF RowKept
    <3> QED
      BY <1>2, <3>3, <3>6, <3>7 DEF RowKeeps
  <2>3. CASE k \notin ids /\ ~ \E o \in ids : k = Replacement(o)
    <3>1. CASE k \in released /\ T.intent[k].status \notin {"superseded", "accepted"}
      <4>1. U.intent[k] = [T.intent[k] EXCEPT !.status = "failed"]
        BY <1>2, <2>3, <3>1
      <4>2. /\ DOMAIN U.intent[k] = {"status", "card", "tried"}
            /\ U.intent[k].status = "failed"
            /\ U.intent[k].card = T.intent[k].card /\ U.intent[k].tried = T.intent[k].tried
        BY <1>8, <4>1, Restated
      <4>3. /\ ~IsCurrent(T.revised, k) /\ T.intent[k].status # "absent"
            /\ T.revised[k.job][k.sequence].schema = "v3"
        BY <1>5, <2>3, <3>1
      <4>4. RowTrue(T.revised, T.deemed, last, k, U.intent[k])
        BY <1>8, <4>2, <4>3, StatusChanged
      <4>5. RowKept(T.revised, U.intent, k)
        BY <4>3 DEF RowKept
      <4> QED
        BY <1>2, <1>8, <4>2, <4>4, <4>5 DEF RowKeeps
    <3>2. CASE ~(k \in released /\ T.intent[k].status \notin {"superseded", "accepted"})
      <4>1. U.intent[k] = T.intent[k]
        BY <1>2, <2>3, <3>2
      <4>2. ASSUME k.generation < MaxReissues, U.intent[Replacement(k)].status = "absent"
            PROVE  T.intent[Replacement(k)].status = "absent"
        <5> DEFINE l == Replacement(k)
        <5>1. l \in RowKeys
          BY <4>2, ReplacementIsRow
        <5>2. DOMAIN T.intent[l] = {"status", "card", "tried"}
          BY <1>8, <5>1
        <5>3. l \notin ids
          BY <1>2, <4>2, <5>1, <5>2, Restated
        <5>4. ~ \E o \in ids : l = Replacement(o)
          BY <1>9, <4>2
        <5>5. ~(l \in released /\ T.intent[l].status \notin {"superseded", "accepted"})
          BY <1>2, <4>2, <5>1, <5>2, <5>3, <5>4, Restated
        <5>6. U.intent[l] = T.intent[l]
          BY <1>2, <5>1, <5>3, <5>4, <5>5
        <5> QED
          BY <4>2, <5>6
      <4>3. RowKept(T.revised, U.intent, k)
        BY <1>8, <4>1, <4>2 DEF RowKept
      <4> QED
        BY <1>2, <1>8, <4>1, <4>3 DEF RowKeeps
    <3> QED
      BY <3>1, <3>2
  <2> QED
    BY <2>1, <2>2, <2>3
<1>11. TablesTrue(U, last)
  BY <1>1, <1>2, <1>6, <1>7, <1>10, SameRevisions
<1> QED
  BY <1>11 DEF U

\* A finite set can be put in sequence.
LEMMA InSequence ==
  ASSUME NEW S, IsFiniteSet(S)
  PROVE  SetToSeq(S) \in Seq(S)
<1> DEFINE n == Cardinality(S)
           P(f) == f \in [1..n -> S] /\ IsInjective(f)
<1>1. n \in Nat /\ ExistsBijection(1..n, S)
  BY FS_CardinalityType
<1>2. \E f \in [1..n -> S] : IsInjective(f)
  BY <1>1 DEF ExistsBijection, Bijection, Injection
<1>3. SetToSeq(S) \in [1..n -> S]
  BY <1>2 DEF SetToSeq
<1> QED
  BY <1>1, <1>3

\* A draft for each of finitely many targets.
LEMMA FewDrafts ==
  ASSUME NEW D, NEW f \in [Targets -> D], NEW U \in SUBSET Targets
  PROVE  IsFiniteSet({f[t] : t \in U})
<1> DEFINE g == [t \in U |-> f[t]]
           S == {f[t] : t \in U}
<1>1. IsFiniteSet(U)
  BY FewTargets, FS_Subset
<1>2. g \in Surjection(U, S)
  BY DEF Surjection
<1> QED
  BY <1>1, <1>2, FS_Surjection

\* What is frozen are rows the tables hold as pending, of current revisions.
LEMMA FrozenAreFree ==
  ASSUME NEW T, NEW rows, NEW staged, NEW asked, NEW t,
         NEW k \in ToFreeze(T, rows, staged, asked, t)
  PROVE  /\ k \in staged \cup asked /\ k.target = t
         /\ T.intent[k].status = "pending" /\ IsCurrent(T.revised, k)
<1> DEFINE ready == {l \in staged \cup asked : l.target = t /\ Free(T, l)}
<1>1. k \in ready
  BY DEF ToFreeze
<1> QED
  BY <1>1 DEF Free

\* Freezing what may be sent into a draft for each target.
LEMMA CompositionKeepsTrue ==
  ASSUME NEW T, NEW last, TablesTrue(T, last), NEW rows,
         NEW staged \in SUBSET RowKeys, NEW asked \in SUBSET RowKeys
  PROVE  DraftsTrue(T.revised, T.intent, Composition(T, rows, staged, asked))
<1> DEFINE Frozen(t) == ToFreeze(T, rows, staged, asked, t)
           draft == [t \in Targets |-> [target |-> t, members |-> Frozen(t),
                                        status |-> "pending", tried |-> FALSE]]
           U == {u \in Targets : Frozen(u) # {}}
           G == {d \in Drafts : DraftTrue(T.revised, T.intent, d.members)}
           new == {draft[t] : t \in U}
<1>1. /\ TablesTyped(T) /\ RowsTrue(T.revised, T.deemed, last, T.intent)
      /\ DraftsTrue(T.revised, T.intent, T.drafts) /\ T.drafts \in Seq(Drafts)
  BY DEF TablesTrue, DraftsTrue
<1>2. \A j \in Jobs : Len(T.revised[j]) \in Nat
  BY <1>1 DEF TablesTyped
<1>3. ASSUME NEW t \in Targets PROVE draft[t] \in G
  <2>1. ASSUME NEW k \in Frozen(t)
        PROVE  /\ k \in RowKeys /\ T.intent[k].status # "absent"
               /\ k.sequence <= Len(T.revised[k.job])
               /\ T.revised[k.job][k.sequence].schema = "v3"
    <3>1. /\ k \in RowKeys /\ T.intent[k].status = "pending" /\ IsCurrent(T.revised, k)
      BY FrozenAreFree
    <3>2. RowTrue(T.revised, T.deemed, last, k, T.intent[k])
      BY <1>1, <3>1 DEF RowsTrue
    <3>3. k.sequence = Len(T.revised[k.job]) /\ k.job \in Jobs
      BY <3>1 DEF IsCurrent, RowKeys
    <3> QED
      BY <1>2, <3>1, <3>2, <3>3 DEF RowTrue
  <2>2. draft[t] = [target |-> t, members |-> Frozen(t), status |-> "pending", tried |-> FALSE]
    OBVIOUS
  <2> HIDE DEF Frozen, draft
  <2>3. Frozen(t) \in SUBSET RowKeys /\ DraftTrue(T.revised, T.intent, Frozen(t))
    BY <2>1 DEF DraftTrue
  <2> QED
    BY <2>2, <2>3 DEF Drafts, DraftStatuses
<1>4. Composition(T, rows, staged, asked) = T.drafts \o SetToSeq(new)
  <2>1. new = {[target |-> t, members |-> Frozen(t), status |-> "pending", tried |-> FALSE]
                 : t \in U}
    OBVIOUS
  <2> QED
    BY <2>1 DEF Composition
<1> HIDE DEF Frozen
<1>5. draft \in [Targets -> G]
  BY <1>3
<1>6. IsFiniteSet(new) /\ new \subseteq G
  BY <1>5, FewDrafts
<1>7. SetToSeq(new) \in Seq(new)
  BY <1>6, InSequence
<1> HIDE DEF draft, U, new
<1>8. SetToSeq(new) \in Seq(G)
  BY <1>6, <1>7
<1>9. T.drafts \in Seq(G)
  BY <1>1 DEF DraftsTrue
<1>10. Composition(T, rows, staged, asked) \in Seq(G)
  BY <1>4, <1>8, <1>9
<1>11. \A ds \in Seq(G) : DraftsTrue(T.revised, T.intent, ds)
  BY DEF DraftsTrue
<1> QED
  BY <1>10, <1>11

-----------------------------------------------------------------------------
(* The transport between two reviews.                                      *)

\* The rows of a draft exist and are of the present schema.
LEMMA MembersTrue ==
  ASSUME TablesTrue(Tables, lastHeard), NEW d \in DOMAIN drafts, NEW k \in drafts[d].members
  PROVE  /\ k \in RowKeys /\ intent[k].status # "absent"
         /\ k.job \in Jobs /\ k.target \in Targets /\ k.sequence \in Nat \ {0}
         /\ k.sequence <= Len(revised[k.job])
         /\ revised[k.job][k.sequence].schema = "v3"
         /\ Material("v3", intent[k].card) = revised[k.job][k.sequence]
<1>1. DraftsTrue(revised, intent, drafts) /\ RowsTrue(revised, deemed, lastHeard, intent)
  BY DEF TablesTrue, Tables
<1>2. drafts[d] \in Drafts /\ DraftTrue(revised, intent, drafts[d].members)
  BY <1>1 DEF DraftsTrue
<1>3. k \in RowKeys
  BY <1>2 DEF Drafts
<1>4. k.job \in Jobs /\ k.target \in Targets /\ k.sequence \in Nat \ {0}
  BY <1>3, BoundsAreNumbers DEF RowKeys
<1>5. RowTrue(revised, deemed, lastHeard, k, intent[k])
  BY <1>1, <1>3 DEF RowsTrue
<1> QED
  BY <1>2, <1>3, <1>4, <1>5 DEF DraftTrue, RowTrue

\* The tables as they stand, part by part.
LEMMA TablesStand ==
  ASSUME TablesTrue(Tables, lastHeard)
  PROVE  /\ revised \in [Jobs -> Seq(Materials)] /\ deemed \in [Jobs \X Targets -> Nat]
         /\ DOMAIN intent = RowKeys /\ drafts \in Seq(Drafts)
         /\ BaselinesTrue(revised, deemed, lastHeard)
         /\ \A k \in RowKeys :
              /\ DOMAIN intent[k] = {"status", "card", "tried"} /\ intent[k].tried \in BOOLEAN
              /\ RowTrue(revised, deemed, lastHeard, k, intent[k])
              /\ RowKept(revised, intent, k)
BY DEF TablesTrue, TablesTyped, Tables, DraftsTrue, RowsTrue, RowsKept

\* A stale draft's rows go back to what their revision is: pending if current.
LEMMA CancelKeepsTrue ==
  ASSUME TablesTrue(Tables, lastHeard), NEW d \in DOMAIN drafts, CancelStale(d)
  PROVE  TablesTrue(Tables', lastHeard')
<1> DEFINE M == drafts[d].members
           U == [revised |-> revised, intent |-> intent', deemed |-> deemed,
                 drafts |-> drafts']
           as(k) == IF IsCurrent(revised, k) THEN "pending" ELSE "superseded"
<1>1. /\ revised' = revised /\ deemed' = deemed /\ lastHeard' = lastHeard
      /\ drafts' = [drafts EXCEPT ![d].status = "cancelled"]
      /\ intent' = [k \in RowKeys |-> IF k \in M THEN [intent[k] EXCEPT !.status = as(k)]
                                      ELSE intent[k]]
  BY DEF CancelStale
<1>2. /\ U.revised = revised /\ U.deemed = deemed /\ U.intent = intent' /\ U.drafts = drafts'
      /\ DOMAIN U = {"revised", "intent", "deemed", "drafts"}
      /\ Tables.revised = revised /\ Tables.drafts = drafts /\ Tables.intent = intent
  BY DEF Tables
<1>3. \A k \in M : /\ intent[k].status # "absent"
                   /\ revised[k.job][k.sequence].schema = "v3"
  BY MembersTrue
<1>4. /\ revised \in [Jobs -> Seq(Materials)] /\ deemed \in [Jobs \X Targets -> Nat]
      /\ DOMAIN intent = RowKeys /\ drafts \in Seq(Drafts)
      /\ BaselinesTrue(revised, deemed, lastHeard)
      /\ \A k \in RowKeys :
           /\ DOMAIN intent[k] = {"status", "card", "tried"} /\ intent[k].tried \in BOOLEAN
           /\ RowTrue(revised, deemed, lastHeard, k, intent[k])
           /\ RowKept(revised, intent, k)
  BY TablesStand
<1>5. Tables' = U
  BY <1>1 DEF Tables
<1> HIDE DEF M
<1>6. ASSUME NEW k \in RowKeys
      PROVE  /\ k \in M => /\ DOMAIN intent'[k] = {"status", "card", "tried"}
                           /\ intent'[k].status = as(k) /\ intent'[k].card = intent[k].card
                           /\ intent'[k].tried = intent[k].tried
             /\ k \notin M => intent'[k] = intent[k]
  BY <1>1, <1>4, Restated
<1> HIDE DEF U
<1>7. TablesTyped(U)
  BY <1>1, <1>2, <1>4 DEF TablesTyped
<1>8. /\ drafts' \in Seq(Drafts) /\ DOMAIN drafts' = DOMAIN drafts
      /\ \A e \in DOMAIN drafts : drafts'[e].members = drafts[e].members
  <2>1. drafts' = Restate(drafts, {d}, "cancelled")
    BY <1>1, <1>4 DEF Restate
  <2>2. "cancelled" \in DraftStatuses
    BY DEF DraftStatuses
  <2> QED
    BY <1>4, <2>1, <2>2, DraftsRestated
<1>9. ASSUME NEW k \in RowKeys PROVE RowKeeps(Tables, U, lastHeard, k)
  <2>1. CASE k \in M
    <3>1. RowTrue(revised, deemed, lastHeard, k, intent'[k])
      BY <1>3, <1>4, <1>6, <2>1, StatusChanged
    <3>2. RowKept(revised, intent', k)
      BY <1>6, <2>1 DEF RowKept
    <3>3. intent'[k].status # "absent"
      BY <1>6, <2>1
    <3> QED
      BY <1>2, <1>4, <1>6, <2>1, <3>1, <3>2, <3>3 DEF RowKeeps
  <2>2. CASE k \notin M
    <3>1. intent'[k] = intent[k]
      BY <1>6, <2>2
    <3>2. ASSUME k.generation < MaxReissues, intent'[Replacement(k)].status = "absent"
          PROVE  intent[Replacement(k)].status = "absent"
      <4>1. Replacement(k) \in RowKeys
        BY <3>2, ReplacementIsRow
      <4> QED
        BY <1>6, <3>2, <4>1
    <3>3. RowKept(revised, intent', k)
      BY <1>4, <3>1, <3>2 DEF RowKept
    <3> QED
      BY <1>2, <1>4, <3>1, <3>3 DEF RowKeeps
  <2> QED
    BY <2>1, <2>2
<1>10. TablesTrue(U, lastHeard)
  BY <1>2, <1>4, <1>7, <1>8, <1>9, SameRevisions
<1> QED
  BY <1>1, <1>5, <1>10

\* The rows of a draft that an answer makes the baseline of b.
Advance(d, outcome, b) ==
    {k \in {l \in drafts[d].members : l.sequence > deemed[l.job, l.target]} :
        outcome = "accepted" /\ b = <<k.job, k.target>>}

\* An answer to an attempt moves the baseline to a revision of the draft, and
\* what the target heard is the card of that revision.
LEMMA SettledBaselines ==
  ASSUME TablesTrue(Tables, lastHeard), NEW d \in DOMAIN drafts, NEW outcome,
         Settle(d, outcome), NEW b \in Jobs \X Targets
  PROVE  /\ deemed'[b] \in Nat /\ BaselineTrue(revised, deemed', lastHeard', b)
         /\ \/ deemed'[b] = deemed[b] /\ lastHeard'[b] = lastHeard[b]
            \/ revised[b[1]][deemed'[b]].schema = "v3"
<1>1. /\ deemed' = [a \in Jobs \X Targets |->
             IF Advance(d, outcome, a) = {} THEN deemed[a]
             ELSE (CHOOSE k \in Advance(d, outcome, a) : TRUE).sequence]
      /\ lastHeard' = [a \in Jobs \X Targets |->
             IF Advance(d, outcome, a) = {} THEN lastHeard[a]
             ELSE intent[CHOOSE k \in Advance(d, outcome, a) : TRUE].card]
  BY Zenon DEF Settle, Advance
<1>2. BaselineTrue(revised, deemed, lastHeard, b) /\ deemed[b] \in Nat
  BY TablesStand DEF BaselinesTrue
<1>3. CASE Advance(d, outcome, b) = {}
  <2>1. deemed'[b] = deemed[b] /\ lastHeard'[b] = lastHeard[b]
    BY <1>1, <1>3
  <2> QED
    BY <1>2, <2>1 DEF BaselineTrue
<1>4. CASE Advance(d, outcome, b) # {}
  <2> DEFINE k == CHOOSE l \in Advance(d, outcome, b) : TRUE
  <2>1. k \in Advance(d, outcome, b)
    BY <1>4
  <2>2. deemed'[b] = k.sequence /\ lastHeard'[b] = intent[k].card
    BY <1>1, <1>4
  <2> HIDE DEF k
  <2>3. k \in drafts[d].members /\ b[1] = k.job
    <3>1. k \in drafts[d].members /\ b = <<k.job, k.target>>
      BY <2>1, Zenon DEF Advance
    <3> QED
      BY <3>1
  <2>4. /\ k.sequence \in Nat \ {0} /\ k.sequence <= Len(revised[k.job])
        /\ revised[k.job][k.sequence].schema = "v3"
        /\ Material("v3", intent[k].card) = revised[k.job][k.sequence]
    BY <2>3, MembersTrue
  <2> QED
    BY <2>2, <2>3, <2>4 DEF BaselineTrue
<1> QED
  BY <1>3, <1>4

\* dispatch_envelope and reconcile_part: what was attempted is not given up by
\* that, and an acceptance is of what was sent.
LEMMA SettleKeepsTrue ==
  ASSUME TablesTrue(Tables, lastHeard), NEW d \in DOMAIN drafts,
         NEW outcome \in {"accepted", "pending", "uncertain", "failed"}, Settle(d, outcome)
  PROVE  TablesTrue(Tables', lastHeard')
<1> DEFINE M == drafts[d].members
           settles(k) == k \in M /\ intent[k].status \notin {"superseded", "accepted"}
           U == [revised |-> revised, intent |-> intent', deemed |-> deemed',
                 drafts |-> drafts']
<1>1. /\ revised' = revised
      /\ drafts' = [drafts EXCEPT ![d].status = outcome, ![d].tried = TRUE]
      /\ intent' = [k \in RowKeys |->
            IF settles(k) THEN [intent[k] EXCEPT !.status = outcome, !.tried = TRUE]
            ELSE intent[k]]
      /\ DOMAIN deemed' = Jobs \X Targets /\ deemed' = [b \in DOMAIN deemed' |-> deemed'[b]]
  <2>1. revised' = revised
    BY DEF Settle
  <2>2. drafts' = [drafts EXCEPT ![d].status = outcome, ![d].tried = TRUE]
    BY DEF Settle
  <2>3. intent' = WithMembers(d, outcome)
    BY DEF Settle
  <2>4. intent' = [k \in RowKeys |->
            IF settles(k) THEN [intent[k] EXCEPT !.status = outcome, !.tried = TRUE]
            ELSE intent[k]]
    BY <2>3 DEF WithMembers
  <2>5. deemed' = [a \in Jobs \X Targets |->
             IF Advance(d, outcome, a) = {} THEN deemed[a]
             ELSE (CHOOSE k \in Advance(d, outcome, a) : TRUE).sequence]
    BY Zenon DEF Settle, Advance
  <2>6. DOMAIN deemed' = Jobs \X Targets /\ deemed' = [b \in DOMAIN deemed' |-> deemed'[b]]
    BY <2>5
  <2> QED
    BY <2>1, <2>2, <2>4, <2>6
<1>2. /\ U.revised = revised /\ U.deemed = deemed' /\ U.intent = intent' /\ U.drafts = drafts'
      /\ DOMAIN U = {"revised", "intent", "deemed", "drafts"}
      /\ Tables.revised = revised /\ Tables.drafts = drafts /\ Tables.intent = intent
  BY DEF Tables
<1>3. \A k \in M : /\ intent[k].status # "absent"
                   /\ revised[k.job][k.sequence].schema = "v3"
  BY MembersTrue
<1>4. /\ revised \in [Jobs -> Seq(Materials)] /\ deemed \in [Jobs \X Targets -> Nat]
      /\ DOMAIN intent = RowKeys /\ drafts \in Seq(Drafts)
      /\ \A k \in RowKeys :
           /\ DOMAIN intent[k] = {"status", "card", "tried"} /\ intent[k].tried \in BOOLEAN
           /\ RowTrue(revised, deemed, lastHeard, k, intent[k])
           /\ RowKept(revised, intent, k)
  BY TablesStand
<1>5. Tables' = U
  BY <1>1 DEF Tables
<1>6. \A b \in Jobs \X Targets :
        /\ deemed'[b] \in Nat /\ BaselineTrue(revised, deemed', lastHeard', b)
        /\ \/ deemed'[b] = deemed[b] /\ lastHeard'[b] = lastHeard[b]
           \/ revised[b[1]][deemed'[b]].schema = "v3"
  BY SettledBaselines
<1> HIDE DEF M
<1>7. ASSUME NEW k \in RowKeys
      PROVE  /\ settles(k) => /\ DOMAIN intent'[k] = {"status", "card", "tried"}
                           /\ intent'[k].status = outcome /\ intent'[k].tried = TRUE
                           /\ intent'[k].card = intent[k].card
             /\ ~settles(k) => intent'[k] = intent[k]
  <2> DEFINE other == [intent[k] EXCEPT !.status = outcome, !.tried = TRUE]
  <2>1. DOMAIN other = {"status", "card", "tried"} /\ other.status = outcome
        /\ other.tried = TRUE /\ other.card = intent[k].card
    BY <1>4
  <2>2. intent'[k] = IF settles(k) THEN other ELSE intent[k]
    BY <1>1
  <2> HIDE DEF other, settles
  <2> QED
    BY <2>1, <2>2
<1> HIDE DEF U
<1>8. TablesTyped(U)
  <2>1. deemed' \in [Jobs \X Targets -> Nat]
    BY <1>1, <1>6
  <2>2. DOMAIN intent' = RowKeys
    BY <1>1
  <2> QED
    BY <1>2, <1>4, <2>1, <2>2 DEF TablesTyped
<1>9. /\ drafts' \in Seq(Drafts) /\ DOMAIN drafts' = DOMAIN drafts
      /\ \A e \in DOMAIN drafts : drafts'[e].members = drafts[e].members
  <2> DEFINE D == [drafts[d] EXCEPT !.status = outcome, !.tried = TRUE]
  <2>1. drafts[d] \in Drafts
    BY <1>4
  <2>2. D \in Drafts /\ D.members = drafts[d].members
    BY <2>1 DEF Drafts, DraftStatuses
  <2>3. drafts' = [drafts EXCEPT ![d] = D]
    BY <1>1
  <2> HIDE DEF D
  <2> QED
    BY <1>4, <2>2, <2>3
<1>10. ASSUME NEW k \in RowKeys
       PROVE  RowTrue(revised, deemed', lastHeard', k, intent[k])
  <2> DEFINE b == <<k.job, k.target>>
  <2>1. b \in Jobs \X Targets /\ b[1] = k.job
    BY DEF RowKeys
  <2>2. RowTrue(revised, deemed, lastHeard, k, intent[k])
    BY <1>4
  <2>3. revised[k.job][k.sequence].schema # "v3" /\ deemed'[b] = k.sequence =>
          deemed[b] = k.sequence /\ lastHeard'[b] = lastHeard[b]
    BY <1>6, <2>1
  <2> QED
    BY <2>2, <2>3 DEF RowTrue
<1>11. ASSUME NEW k \in RowKeys PROVE RowKeeps(Tables, U, lastHeard', k)
  <2>1. CASE settles(k)
    <3>1. /\ intent[k].status # "absent" /\ revised[k.job][k.sequence].schema = "v3"
          /\ outcome # "absent"
      BY <1>3, <2>1
    <3>2. RowTrue(revised, deemed', lastHeard', k, intent'[k])
      BY <1>7, <1>10, <2>1, <3>1, StatusChanged
    <3>3. RowKept(revised, intent', k)
      BY <1>7, <2>1 DEF RowKept
    <3> QED
      BY <1>2, <1>7, <2>1, <3>1, <3>2, <3>3 DEF RowKeeps
  <2>2. CASE ~settles(k)
    <3>1. intent'[k] = intent[k]
      BY <1>7, <2>2
    <3>2. ASSUME k.generation < MaxReissues, intent'[Replacement(k)].status = "absent"
          PROVE  intent[Replacement(k)].status = "absent"
      <4>1. Replacement(k) \in RowKeys
        BY <3>2, ReplacementIsRow
      <4>2. outcome # "absent"
        OBVIOUS
      <4>3. ~settles(Replacement(k))
        BY <1>7, <3>2, <4>1, <4>2
      <4> QED
        BY <1>7, <3>2, <4>1, <4>3
    <3>3. RowKept(revised, intent', k)
      BY <1>4, <3>1, <3>2 DEF RowKept
    <3> QED
      BY <1>2, <1>4, <1>10, <3>1, <3>3 DEF RowKeeps
  <2> QED
    BY <2>1, <2>2
<1>12. BaselinesTrue(revised, deemed', lastHeard')
  BY <1>6 DEF BaselinesTrue
<1>13. TablesTrue(U, lastHeard')
  BY <1>2, <1>8, <1>9, <1>11, <1>12, SameRevisions
<1> QED
  BY <1>5, <1>13

-----------------------------------------------------------------------------
(* Reviews, and the theorems.                                              *)

\* One review: staging, retirement, reissue and composition together.
LEMMA ReviewKeepsTrue ==
  ASSUME TablesTrue(Tables, lastHeard), NEW rows \in Finds,
         NEW recover \in SUBSET DOMAIN drafts, NEW ids \in SUBSET RowKeys,
         NEW extra \in SUBSET RowKeys, Review(rows, recover, ids, extra)
  PROVE  TablesTrue(Tables', lastHeard')
<1> DEFINE staged == Staged(rows, Revise(rows))
           run == Retire(RunTables(rows))
           done == Reissue(run, recover, ids)
           asked == extra \cup {Replacement(k) : k \in ids}
           D == Composition(done, rows, staged, asked)
<1>1. WriteReview(rows, staged, run, done, recover, ids, extra)
  BY DEF Review, Recompose, StageRun, RunTables
<1>2. /\ Planned(rows, run, done, recover, ids, extra)
      /\ revised' = run.revised /\ deemed' = run.deemed /\ intent' = done.intent
      /\ drafts' = D /\ lastHeard' = lastHeard
  BY <1>1 DEF WriteReview
<1>3. TablesTrue(run, lastHeard)
  <2>1. TablesTrue(RunTables(rows), lastHeard)
    BY StagingKeepsTrue
  <2> QED
    BY <2>1, RetireKeepsTrue
<1>4. DOMAIN run.drafts = DOMAIN drafts
  BY DEF Retire, RunTables
<1>5. /\ NamesAll(run, recover, ids)
      /\ \A k \in ids : Recoverable(run, rows, k) /\ k.generation < MaxReissues
  BY <1>2 DEF Planned
<1>6. recover \in SUBSET DOMAIN run.drafts
  BY <1>4
<1>7. DOMAIN run = {"revised", "intent", "deemed", "drafts"}
  BY <1>3 DEF TablesTrue, TablesTyped
<1> HIDE DEF run
<1>8. TablesTrue(done, lastHeard)
  BY <1>3, <1>5, <1>6, ReissueKeepsTrue
<1>9. done.revised = run.revised /\ done.deemed = run.deemed
  BY <1>7 DEF Reissue
<1>10. staged \in SUBSET RowKeys /\ asked \in SUBSET RowKeys
  BY <1>5, ReplacementIsRow DEF Staged
<1> HIDE DEF done, staged, asked
<1>11. DraftsTrue(done.revised, done.intent, D)
  BY <1>8, <1>10, CompositionKeepsTrue
<1> HIDE DEF D
<1>12. Tables' = [revised |-> done.revised, intent |-> done.intent,
                  deemed |-> done.deemed, drafts |-> D]
  BY <1>2, <1>9 DEF Tables
<1> DEFINE N == [revised |-> done.revised, intent |-> done.intent,
                 deemed |-> done.deemed, drafts |-> D]
<1>13. /\ N.revised = done.revised /\ N.intent = done.intent /\ N.deemed = done.deemed
       /\ N.drafts = D /\ DOMAIN N = {"revised", "intent", "deemed", "drafts"}
  OBVIOUS
<1> HIDE DEF N
<1>14. TablesTrue(N, lastHeard)
  BY <1>8, <1>11, <1>13 DEF TablesTrue, TablesTyped
<1> QED
  BY <1>2, <1>12, <1>14 DEF N

\* What earlier code left behind is among the materials.
LEMMA PastMaterials == \A past \in Pasts : LeftBy(past) \subseteq Materials
<1> SUFFICES ASSUME NEW past \in Pasts, NEW x \in LeftBy(past) PROVE x \in Materials
  OBVIOUS
<1> QED
  BY Zenon DEF Materials

\* What earlier code left behind is true.
LEMMA InitTrue == HandoffInit => TablesTrue(Tables, lastHeard)
<1>1. SUFFICES ASSUME HandoffInit PROVE TablesTrue(Tables, lastHeard)
  OBVIOUS
<1> DEFINE b(past, k) == past[k.job] # None /\ k.sequence = 1 /\ k.generation = 1
<1>2. PICK past \in Pasts :
        /\ revised = [j \in Jobs |-> IF past[j] = None THEN <<>>
                                     ELSE <<Material(past[j].schema, past[j].card)>>]
        /\ intent = [k \in RowKeys |->
             IF b(past, k) THEN [status |-> "accepted", tried |-> TRUE,
                         card |-> IF past[k.job].kept THEN past[k.job].card ELSE None]
             ELSE NoRow]
        /\ deemed = [a \in Jobs \X Targets |-> IF past[a[1]] = None THEN 0 ELSE 1]
        /\ lastHeard = [a \in Jobs \X Targets |->
             IF past[a[1]] = None THEN None ELSE past[a[1]].card]
        /\ drafts = <<>>
  BY <1>1, Zenon DEF HandoffInit
<1> DEFINE m(j) == Material(past[j].schema, past[j].card)
<1>3. ASSUME NEW j \in Jobs, past[j] # None
      PROVE  /\ m(j) \in Materials /\ m(j).schema = past[j].schema /\ m(j).schema # "v3"
  <2>1. m(j) \in LeftBy(past)
    BY <1>3 DEF LeftBy
  <2>2. m(j).schema = past[j].schema
    BY DEF Material
  <2>3. past[j].schema # "v3"
    BY <1>3, PastsAreOld
  <2>4. LeftBy(past) \subseteq Materials
    BY <1>2, PastMaterials
  <2> HIDE DEF m
  <2> QED
    BY <2>1, <2>2, <2>3, <2>4
<1> HIDE DEF m
<1>4. ASSUME NEW j \in Jobs
      PROVE  /\ revised[j] \in Seq(Materials)
             /\ past[j] = None => Len(revised[j]) = 0
             /\ past[j] # None => revised[j] = <<m(j)>> /\ Len(revised[j]) = 1
                                  /\ revised[j][1] = m(j)
  <2>1. CASE past[j] = None
    BY <1>2, <2>1
  <2>2. CASE past[j] # None
    <3>1. revised[j] = <<m(j)>> /\ m(j) \in Materials
      BY <1>2, <1>3, <2>2 DEF m
    <3> QED
      BY <2>2, <3>1
  <2> QED
    BY <2>1, <2>2
<1>5. TablesTyped(Tables)
  <2>1. revised \in [Jobs -> Seq(Materials)]
    BY <1>2, <1>4
  <2>2. deemed \in [Jobs \X Targets -> Nat] /\ DOMAIN intent = RowKeys
    BY <1>2
  <2> QED
    BY <2>1, <2>2 DEF TablesTyped, Tables
<1>6. ASSUME NEW k \in RowKeys
      PROVE  /\ DOMAIN intent[k] = {"status", "card", "tried"} /\ intent[k].tried \in BOOLEAN
             /\ RowTrue(revised, deemed, lastHeard, k, intent[k])
             /\ RowKept(revised, intent, k)
  <2>1. k.job \in Jobs /\ <<k.job, k.target>> \in Jobs \X Targets
    BY DEF RowKeys
  <2>2. CASE b(past, k)
    <3>1. DOMAIN intent[k] = {"status", "card", "tried"} /\ intent[k].status = "accepted"
          /\ intent[k].tried = TRUE
          /\ intent[k].card = IF past[k.job].kept THEN past[k.job].card ELSE None
      BY <1>2, <2>2
    <3>2. lastHeard[<<k.job, k.target>>] = past[k.job].card
      BY <1>2, <2>1, <2>2
    <3>3. revised[k.job][k.sequence].schema # "v3" /\ k.sequence <= Len(revised[k.job])
      BY <1>3, <1>4, <2>1, <2>2
    <3> QED
      BY <3>1, <3>2, <3>3 DEF RowTrue, RowKept
  <2>3. CASE ~b(past, k)
    <3>1. intent[k] = [status |-> "absent", card |-> None, tried |-> FALSE]
      BY <1>2, <2>3 DEF NoRow
    <3>2. DOMAIN intent[k] = {"status", "card", "tried"} /\ intent[k].status = "absent"
          /\ intent[k].tried = FALSE
      BY <3>1
    <3> QED
      BY <3>2 DEF RowTrue, RowKept
  <2> QED
    BY <2>2, <2>3
<1>7. DraftsTrue(revised, intent, drafts)
  BY <1>2 DEF DraftsTrue
<1>8. ASSUME NEW a \in Jobs \X Targets PROVE BaselineTrue(revised, deemed, lastHeard, a)
  <2>1. a[1] \in Jobs
    OBVIOUS
  <2>2. CASE past[a[1]] = None
    BY <1>2, <1>4, <2>1, <2>2 DEF BaselineTrue
  <2>3. CASE past[a[1]] # None
    <3>1. deemed[a] = 1 /\ lastHeard[a] = past[a[1]].card
      BY <1>2, <2>3
    <3>2. Len(revised[a[1]]) = 1 /\ revised[a[1]][1] = m(a[1])
          /\ m(a[1]).schema = past[a[1]].schema
      BY <1>3, <1>4, <2>1, <2>3
    <3>3. Material(m(a[1]).schema, lastHeard[a]) = m(a[1])
      BY <3>1, <3>2 DEF m
    <3> QED
      BY <3>1, <3>2, <3>3 DEF BaselineTrue
  <2> QED
    BY <2>2, <2>3
<1> QED
  BY <1>5, <1>6, <1>7, <1>8 DEF TablesTrue, Tables, RowsTrue, RowsKept, BaselinesTrue

\* Every step keeps the tables true.
LEMMA HandoffStep == HandoffInv /\ [HandoffNext]_handoffVars => HandoffInv'
<1>1. SUFFICES ASSUME TablesTrue(Tables, lastHeard), [HandoffNext]_handoffVars
               PROVE  TablesTrue(Tables', lastHeard')
  BY DEF HandoffInv
<1>2. ASSUME NEW rows \in Finds, NEW recover \in SUBSET DOMAIN drafts,
             NEW ids \in SUBSET UNION {drafts[d].members : d \in recover},
             NEW extra \in SUBSET {k \in RowKeys : intent[k].status = "pending"},
             Review(rows, recover, ids, extra)
      PROVE  TablesTrue(Tables', lastHeard')
  <2>1. ids \in SUBSET RowKeys
    BY <1>1, MembersTrue
  <2>2. extra \in SUBSET RowKeys
    OBVIOUS
  <2> QED
    BY <1>1, <1>2, <2>1, <2>2, ReviewKeepsTrue
<1>3. ASSUME NEW d \in DOMAIN drafts, CancelStale(d)
      PROVE  TablesTrue(Tables', lastHeard')
  BY <1>1, <1>3, CancelKeepsTrue
<1>4. ASSUME NEW d \in DOMAIN drafts,
             NEW o \in {"accepted", "pending", "uncertain", "failed"}, Dispatch(d, o)
      PROVE  TablesTrue(Tables', lastHeard')
  BY <1>1, <1>4, SettleKeepsTrue DEF Dispatch
<1>5. ASSUME NEW d \in DOMAIN drafts, NEW o \in {"accepted", "pending"}, Reconcile(d, o)
      PROVE  TablesTrue(Tables', lastHeard')
  BY <1>1, <1>5, SettleKeepsTrue DEF Reconcile
<1>6. ASSUME UNCHANGED handoffVars PROVE TablesTrue(Tables', lastHeard')
  <2>1. Tables' = Tables /\ lastHeard' = lastHeard
    BY <1>6 DEF handoffVars, Tables
  <2> QED
    BY <1>1, <2>1
<1> QED
  BY <1>1, <1>2, <1>3, <1>4, <1>5, <1>6 DEF HandoffNext

\* The tables are true in every reachable state.
LEMMA HandoffTrue == HandoffSpec => []HandoffInv
<1>1. HandoffInit => HandoffInv
  BY InitTrue DEF HandoffInv
<1> QED
  BY <1>1, HandoffStep, PTL DEF HandoffSpec

\* A signal of the current revision that was never attempted stays pending
\* (handoff_reissue.py:125).
THEOREM NothingIsGivenUp == HandoffSpec => []NothingCurrentGivenUp
<1>1. HandoffInv => NothingCurrentGivenUp
  BY DEF HandoffInv, TablesTrue, Tables, RowsKept, RowKept, NothingCurrentGivenUp
<1> QED
  BY <1>1, HandoffTrue, PTL

\* What counts as delivered is what the target heard last: adoption of an
\* older acceptance skips no news (handoff_signal.py:118).
THEOREM AdoptionSkipsNoNews == HandoffSpec => []DeliveredIsHeard
<1>1. ASSUME HandoffInv PROVE DeliveredIsHeard
  <2>1. TablesTrue(Tables, lastHeard)
    BY <1>1 DEF HandoffInv
  <2>2. /\ revised \in [Jobs -> Seq(Materials)]
        /\ BaselinesTrue(revised, deemed, lastHeard)
    BY <2>1, TablesStand
  <2>3. ASSUME NEW a \in Jobs \X Targets, deemed[a] > 0, deemed[a] = Len(revised[a[1]])
        PROVE  Material(Last(revised[a[1]]).schema, lastHeard[a]) = Last(revised[a[1]])
    <3>1. BaselineTrue(revised, deemed, lastHeard, a)
      BY <2>2 DEF BaselinesTrue
    <3>2. Last(revised[a[1]]) = revised[a[1]][deemed[a]]
      BY <2>3 DEF Last
    <3> QED
      BY <2>3, <3>1, <3>2 DEF BaselineTrue
  <2> QED
    BY <2>3 DEF DeliveredIsHeard
<1> QED
  BY <1>1, HandoffTrue, PTL

-----------------------------------------------------------------------------
(* The older daily run.  A posting is told because it was unseen when it   *)
(* was looked up; the runs that may have found it so are those under way   *)
(* when it was first stored, and no more than have overlapped.             *)

\* A set of numbers has a least one; with it a claim about all numbers is
\* proved by looking at the least one it fails for.
LEMMA LeastNumber ==
    ASSUME NEW T \in SUBSET Nat, T # {}
    PROVE  \E x \in T : \A y \in T : x <= y
<1> DEFINE R == {ss \in Nat \X Nat : ss[1] < ss[2]}
<1>1. IsWellFoundedOn(R, Nat)
  BY NatLessThanWellFounded DEF OpToRel
<1>2. \E x \in T : \A y \in T : ~(<<y, x>> \in R)
  <2> HIDE DEF R
  <2> QED
    BY <1>1, WFMin
<1>3. \A x, y \in Nat : ~(<<y, x>> \in R) => x <= y
  <2> SUFFICES ASSUME NEW x \in Nat, NEW y \in Nat, y < x PROVE <<y, x>> \in R
    BY SMT
  <2> DEFINE ss == <<y, x>>
  <2>1. ss \in Nat \X Nat /\ ss[1] = y /\ ss[2] = x
    OBVIOUS
  <2> HIDE DEF ss
  <2>2. ss \in R
    BY <2>1
  <2> QED
    BY <2>2 DEF ss
<1> HIDE DEF R
<1> QED
  BY <1>2, <1>3


\* What holds of zero, and of every number after one it holds of, up to N.
LEMMA ReachesAll ==
    ASSUME NEW N \in Nat, NEW S, 0 \in S, \A n \in 0..N : n < N /\ n \in S => n + 1 \in S
    PROVE  \A n \in 0..N : n \in S
<1> DEFINE Lacks == {n \in 0..N : n \notin S}
<1>1. SUFFICES ASSUME Lacks # {} PROVE FALSE
  OBVIOUS
<1>2. Lacks \in SUBSET Nat /\ \A j : j \in Lacks <=> j \in 0..N /\ j \notin S
  OBVIOUS
<1> HIDE DEF Lacks
<1>6. PICK k \in Lacks : \A j \in Lacks : k <= j
  BY <1>1, <1>2, LeastNumber
<1>3. k \in 0..N /\ k \notin S /\ k # 0
  BY <1>2
<1>4. k - 1 \in 0..N /\ k - 1 < N /\ ~(k <= k - 1) /\ (k - 1) + 1 = k
  BY <1>3
<1>5. k - 1 \in S
  BY <1>2, <1>4, <1>6
<1> QED
  BY <1>3, <1>4, <1>5

\* The verdict is "surfaced" or one of the gates.
Verdicts == {"surfaced"} \cup {GateOrder[i] : i \in DOMAIN GateOrder}
\* Whatever fails, what is decided is a verdict.
LEMMA VerdictIsOne == \A gates : Verdict(gates) \in Verdicts /\ None \notin Verdicts
<1> TAKE gates
<1> DEFINE failed == {i \in DOMAIN GateOrder : GateOrder[i] \in Failed(gates)}
<1>1. DOMAIN GateOrder \subseteq Nat
  BY DEF GateOrder
<1>2. None \notin Verdicts
  BY NoneIsNoVerdict DEF Verdicts
<1>3. Verdict(gates) = IF failed = {} THEN "surfaced"
                       ELSE GateOrder[CHOOSE i \in failed : \A j \in failed : i <= j]
  BY DEF Verdict
<1>4. failed \in SUBSET Nat /\ failed \subseteq DOMAIN GateOrder
  BY <1>1
<1> HIDE DEF failed
<1>5. CASE failed = {}
  BY <1>2, <1>3, <1>5 DEF Verdicts
<1>6. CASE failed # {}
  <2>1. \E x \in failed : \A y \in failed : x <= y
    BY <1>4, <1>6, LeastNumber
  <2> DEFINE first == CHOOSE i \in failed : \A j \in failed : i <= j
  <2>2. first \in failed
    BY <2>1
  <2>3. Verdict(gates) = GateOrder[first]
    BY <1>3, <1>6
  <2> HIDE DEF first
  <2> QED
    BY <1>2, <1>4, <2>2, <2>3 DEF Verdicts
<1> QED
  BY <1>5, <1>6

\* An entry of a run, before it is decided on and after.
Sources == {Copy[k].source : k \in DOMAIN Copy}
Records == [copy : DOMAIN Copy, seen : SUBSET Sources]
Decided == [copy : DOMAIN Copy, seen : SUBSET Sources, verdict : Verdicts]
PostingOf(e) == Copy[e.copy].posting

\* Keeping the richer of two records keeps the posting.
LEMMA RicherIsSame ==
    ASSUME NEW e \in Records, NEW k \in DOMAIN Copy, PostingOf(e) = Copy[k].posting
    PROVE  KeepRicher(e, k) \in Records /\ PostingOf(KeepRicher(e, k)) = Copy[k].posting
<1> DEFINE copy == IF Richer(e.copy, k) THEN e.copy ELSE k
           seen == e.seen \cup {Copy[k].source}
<1>1. KeepRicher(e, k) = [copy |-> copy, seen |-> seen]
  BY DEF KeepRicher
<1>2. seen \in SUBSET Sources
  BY DEF Records, Sources
<1>3. copy \in DOMAIN Copy /\ Copy[copy].posting = Copy[k].posting
  BY DEF Records, PostingOf
<1> HIDE DEF copy, seen
<1> QED
  BY <1>1, <1>2, <1>3 DEF Records, PostingOf

\* Entries of a run: finitely many, no two of one posting.
Apart(entries) ==
    /\ IsFiniteSet(entries) /\ entries \subseteq Records
    /\ \A d, e \in entries : PostingOf(d) = PostingOf(e) => d = e
\* A record more: its posting has an entry, and no posting loses its own.
LEMMA AddingKeepsApart ==
    ASSUME NEW entries, Apart(entries), NEW k \in DOMAIN Copy
    PROVE  /\ Apart(AddRecord(entries, k))
           /\ \E e \in AddRecord(entries, k) : PostingOf(e) = Copy[k].posting
           /\ \A d \in entries : \E e \in AddRecord(entries, k) : PostingOf(e) = PostingOf(d)
<1> DEFINE same == {e \in entries : Copy[e.copy].posting = Copy[k].posting}
           fresh == [copy |-> k, seen |-> {Copy[k].source}]
           after == AddRecord(entries, k)
<1>0. /\ IsFiniteSet(entries) /\ entries \subseteq Records
      /\ \A d, e \in entries : PostingOf(d) = PostingOf(e) => d = e
  BY DEF Apart
<1>1. after = IF same = {} THEN entries \cup {fresh}
              ELSE (entries \ same) \cup {KeepRicher(e, k) : e \in same}
  BY DEF AddRecord
<1>2. CASE same = {}
  <2>1. fresh \in Records /\ PostingOf(fresh) = Copy[k].posting
    BY DEF Records, Sources, PostingOf
  <2>2. \A e \in entries : PostingOf(e) # Copy[k].posting
    BY <1>2 DEF PostingOf
  <2>3. after = entries \cup {fresh}
    BY <1>1, <1>2
  <2> HIDE DEF fresh, after, same
  <2>4. IsFiniteSet(after)
    BY <1>0, <2>3, FS_AddElement
  <2>5. Apart(after)
    BY <1>0, <2>1, <2>2, <2>3, <2>4 DEF Apart
  <2>6. /\ \E e \in after : PostingOf(e) = Copy[k].posting
        /\ \A d \in entries : \E e \in after : PostingOf(e) = PostingOf(d)
    BY <2>1, <2>3
  <2> QED
    BY <2>5, <2>6 DEF after
<1>3. CASE same # {}
  <2>1. PICK e \in same : TRUE
    BY <1>3
  <2>2. e \in entries /\ PostingOf(e) = Copy[k].posting
    BY <2>1 DEF PostingOf
  <2>3. same = {e}
    <3>1. \A d \in same : d \in entries /\ PostingOf(d) = Copy[k].posting
      BY DEF PostingOf
    <3> HIDE DEF same
    <3> QED
      BY <1>0, <2>1, <2>2, <3>1
  <2> DEFINE kept == KeepRicher(e, k)
  <2>4. after = (entries \ {e}) \cup {kept}
    BY <1>1, <2>3
  <2>5. kept \in Records /\ PostingOf(kept) = Copy[k].posting
    BY <1>0, <2>2, RicherIsSame
  <2> HIDE DEF kept, after, same
  <2>6. IsFiniteSet(after)
    <3>1. IsFiniteSet(entries \ {e})
      BY <1>0, FS_RemoveElement
    <3> QED
      BY <2>4, <3>1, FS_AddElement
  <2>7. \A d \in entries \ {e} : PostingOf(d) # Copy[k].posting
    BY <1>0, <2>2
  <2>8. Apart(after)
    BY <1>0, <2>4, <2>5, <2>6, <2>7 DEF Apart
  <2>9. /\ \E f \in after : PostingOf(f) = Copy[k].posting
        /\ \A d \in entries : \E f \in after : PostingOf(f) = PostingOf(d)
    BY <2>2, <2>4, <2>5
  <2> QED
    BY <2>8, <2>9 DEF after
<1> QED
  BY <1>2, <1>3

\* A deduplication under way.
IsDeduping(g, raw, k) ==
    /\ g = [n \in 0..k |-> g[n]] /\ g[0] = {}
    /\ \A n \in 1..k : g[n] = AddRecord(g[n - 1], raw[n])
\* There is one to the last record: one that reached a record reaches the next.
LEMMA DedupingExists ==
    ASSUME NEW raw, NEW N \in Nat
    PROVE  \E g : IsDeduping(g, raw, N)
<1> DEFINE Is(g, k) == IsDeduping(g, raw, k)
           S == {k \in 0..N : \E g : Is(g, k)}
<1>1. 0 \in S
  <2> DEFINE g == [n \in 0..0 |-> {}]
  <2>1. g = [n \in 0..0 |-> g[n]] /\ g[0] = {}
    OBVIOUS
  <2> HIDE DEF g
  <2>2. Is(g, 0)
    BY <2>1 DEF IsDeduping
  <2> QED
    BY <2>2
<1>2. ASSUME NEW k \in 0..N, k < N, k \in S PROVE k + 1 \in S
  <2>1. PICK g : Is(g, k)
    BY <1>2
  <2> DEFINE step == AddRecord(g[k], raw[k + 1])
             h == [n \in 0..(k + 1) |-> IF n <= k THEN g[n] ELSE step]
  <2>2. h = [n \in 0..(k + 1) |-> h[n]] /\ h[k + 1] = step /\ \A n \in 0..k : h[n] = g[n]
    OBVIOUS
  <2>3. step = AddRecord(g[k], raw[k + 1])
    OBVIOUS
  <2> HIDE DEF h, step
  <2>4. h[0] = {}
    <3>1. 0 \in 0..k
      OBVIOUS
    <3>2. h[0] = g[0]
      BY <2>2, <3>1
    <3>3. g[0] = {}
      BY <2>1 DEF IsDeduping
    <3> QED
      BY <3>2, <3>3
  <2>5. ASSUME NEW n \in 1..(k + 1) PROVE h[n] = AddRecord(h[n - 1], raw[n])
    <3>4. n - 1 \in 0..k
      OBVIOUS
    <3>1. n - 1 \in 0..k /\ h[n - 1] = g[n - 1]
      BY <2>2, <3>4
    <3>2. CASE n = k + 1
      <4>1. h[n - 1] = g[k]
        BY <3>1, <3>2
      <4> QED
        BY <2>2, <2>3, <3>2, <4>1
    <3>3. CASE n # k + 1
      <4>1. n \in 1..k /\ h[n] = g[n]
        BY <2>2, <3>3
      <4> QED
        BY <2>1, <3>1, <4>1 DEF IsDeduping
    <3> QED
      BY <3>2, <3>3
  <2>6. Is(h, k + 1)
    BY <2>2, <2>4, <2>5 DEF IsDeduping
  <2>7. k + 1 \in 0..N
    BY <1>2
  <2> HIDE DEF Is
  <2> QED
    BY <2>6, <2>7
<1> HIDE DEF S
<1>3. N \in S
  BY <1>1, <1>2, ReachesAll
<1> QED
  BY <1>3 DEF S

\* What is kept of some records is what is kept after the last.
LEMMA DedupedInTurn ==
    ASSUME NEW raw, Len(raw) \in Nat
    PROVE  \E g : IsDeduping(g, raw, Len(raw)) /\ Dedupe(raw) = g[Len(raw)]
<1> DEFINE N == Len(raw)
           Eq(g) == g = [n \in 0..N |-> IF n = 0 THEN {} ELSE AddRecord(g[n - 1], raw[n])]
           upTo == CHOOSE g : Eq(g)
<1>1. Dedupe(raw) = upTo[N]
  BY Zenon DEF Dedupe
<1> HIDE DEF N
<1>2. PICK f : IsDeduping(f, raw, N)
  BY DedupingExists DEF N
<1>3. Eq(f)
  <2>1. /\ f = [n \in 0..N |-> f[n]] /\ f[0] = {}
        /\ \A n \in 1..N : f[n] = AddRecord(f[n - 1], raw[n])
    BY <1>2 DEF IsDeduping
  <2>2. \A n \in 0..N : n # 0 => n \in 1..N
    OBVIOUS
  <2> QED
    BY <2>1, <2>2
<1> HIDE DEF Eq
<1>4. Eq(upTo)
  BY <1>3, Zenon
<1> HIDE DEF upTo
<1>5. \A n \in 0..N : upTo[n] = IF n = 0 THEN {} ELSE AddRecord(upTo[n - 1], raw[n])
  BY <1>4 DEF Eq
<1>6. upTo = [n \in 0..N |-> upTo[n]]
  BY <1>4 DEF Eq
<1>7. IsDeduping(upTo, raw, N)
  <2>1. \A n \in 1..N : n \in 0..N /\ n # 0
    BY DEF N
  <2>2. 0 \in 0..N
    BY DEF N
  <2> QED
    BY <1>5, <1>6, <2>1, <2>2, Zenon DEF IsDeduping
<1> QED
  BY <1>1, <1>7 DEF N

\* What is kept of the first records: apart, and of each its posting.
Deduped(entries, raw, n) ==
    /\ Apart(entries)
    /\ \A i \in 1..n : \E e \in entries : PostingOf(e) = Copy[raw[i]].posting

\* No posting is lost to deduplication, and none is kept twice.
LEMMA DedupeKeepsAll ==
    ASSUME NEW raw \in Seq(DOMAIN Copy)
    PROVE  Deduped(Dedupe(raw), raw, Len(raw))
<1> DEFINE N == Len(raw)
<1>1. N \in Nat /\ \A n \in 1..N : raw[n] \in DOMAIN Copy
  OBVIOUS
<1>2. PICK g : IsDeduping(g, raw, N) /\ Dedupe(raw) = g[N]
  BY <1>1, DedupedInTurn
<1> HIDE DEF N
<1> DEFINE S == {n \in 0..N : Deduped(g[n], raw, n)}
<1>3. 0 \in S
  <2>1. g[0] = {}
    BY <1>2 DEF IsDeduping
  <2>2. Deduped({}, raw, 0)
    BY FS_EmptySet DEF Deduped, Apart
  <2>3. 0 \in 0..N
    BY <1>1
  <2> QED
    BY <2>1, <2>2, <2>3
<1>4. ASSUME NEW n \in 0..N, n < N, n \in S PROVE n + 1 \in S
  <2>1. n \in Nat /\ n + 1 \in 0..N /\ n + 1 \in 1..N /\ (n + 1) - 1 = n
    BY <1>1, <1>4
  <2>2. g[n + 1] = AddRecord(g[n], raw[n + 1])
    BY <1>2, <2>1 DEF IsDeduping
  <2>3. Apart(g[n]) /\ raw[n + 1] \in DOMAIN Copy
    BY <1>1, <1>4, <2>1 DEF Deduped
  <2>4. /\ Apart(g[n + 1])
        /\ \E e \in g[n + 1] : PostingOf(e) = Copy[raw[n + 1]].posting
        /\ \A d \in g[n] : \E e \in g[n + 1] : PostingOf(e) = PostingOf(d)
    <3> DEFINE before == g[n]
               after == g[n + 1]
               k == raw[n + 1]
    <3>1. Apart(before) /\ k \in DOMAIN Copy /\ after = AddRecord(before, k)
      BY <2>2, <2>3
    <3> HIDE DEF before, after, k
    <3>2. /\ Apart(AddRecord(before, k))
          /\ \E e \in AddRecord(before, k) : PostingOf(e) = Copy[k].posting
          /\ \A d \in before : \E e \in AddRecord(before, k) : PostingOf(e) = PostingOf(d)
      BY <3>1, AddingKeepsApart
    <3> QED
      BY <3>1, <3>2 DEF before, after, k
  <2>5. ASSUME NEW i \in 1..(n + 1)
        PROVE  \E e \in g[n + 1] : PostingOf(e) = Copy[raw[i]].posting
    <3>1. CASE i = n + 1
      BY <2>4, <3>1
    <3>2. CASE i # n + 1
      <4>1. i \in 1..n
        BY <2>1, <3>2
      <4>2. PICK d \in g[n] : PostingOf(d) = Copy[raw[i]].posting
        BY <1>4, <4>1 DEF Deduped
      <4> QED
        BY <2>4, <4>2
    <3> QED
      BY <3>1, <3>2
  <2>6. Deduped(g[n + 1], raw, n + 1)
    BY <2>4, <2>5 DEF Deduped
  <2> QED
    BY <2>1, <2>6
<1> HIDE DEF S
<1>5. \A n \in 0..N : n \in S
  BY <1>1, <1>3, <1>4, ReachesAll
<1>6. N \in 0..N
  BY <1>1
<1> QED
  BY <1>2, <1>5, <1>6 DEF S, N

\* In the order of their IDs every entry has a place, and every place an entry.
LEMMA OrderIsComplete ==
    ASSUME NEW kept, Apart(kept)
    PROVE  /\ Cardinality(kept) \in Nat
           /\ InIdOrder(kept) \in [1..Cardinality(kept) -> kept]
           /\ \A e \in kept : \E i \in 1..Cardinality(kept) : InIdOrder(kept)[i] = e
<1> DEFINE N == Cardinality(kept)
           Below(e) == {d \in kept : PostingOf(d) <= PostingOf(e)}
           place == [e \in kept |-> PlaceIn(kept, e)]
<1>1. /\ IsFiniteSet(kept) /\ kept \subseteq Records
      /\ \A d, e \in kept : PostingOf(d) = PostingOf(e) => d = e
  BY DEF Apart
<1>2. \A e \in kept : PostingOf(e) \in Nat
  BY <1>1, PostingsInOrder DEF Records, PostingOf, Found
<1>3. N \in Nat /\ N >= 0
  BY <1>1, FS_CardinalityType
<1>4. \A e \in kept : place[e] = Cardinality(Below(e))
  BY DEF PlaceIn, PostingOf
<1>5. ASSUME NEW e \in kept
      PROVE  place[e] \in 1..N
  <2>1. Below(e) \subseteq kept /\ e \in Below(e)
    BY <1>2
  <2>2. IsFiniteSet(Below(e)) /\ Cardinality(Below(e)) <= N
    BY <1>1, <2>1, FS_Subset
  <2>3. Cardinality(Below(e)) \in Nat /\ Cardinality(Below(e)) # 0
    BY <2>1, <2>2, FS_CardinalityType, FS_EmptySet
  <2> HIDE DEF place, Below
  <2> QED
    BY <1>3, <1>4, <2>2, <2>3
<1>6. ASSUME NEW d \in kept, NEW e \in kept, place[d] = place[e]
      PROVE  d = e
  <2>1. ASSUME NEW x \in kept, NEW y \in kept, place[x] = place[y],
               PostingOf(x) <= PostingOf(y)
        PROVE  x = y
    <3>1. Below(x) \subseteq Below(y) /\ Below(y) \subseteq kept /\ y \in Below(y)
      BY <1>2, <2>1
    <3>2. IsFiniteSet(Below(y))
      BY <1>1, <3>1, FS_Subset
    <3>3. Cardinality(Below(y)) = Cardinality(Below(x))
      BY <1>4, <2>1
    <3>4. Below(y) = Below(x)
      <4> HIDE DEF Below, place
      <4> QED
        BY <3>1, <3>2, <3>3, FS_Subset
    <3>5. PostingOf(y) <= PostingOf(x)
      BY <3>1, <3>4
    <3> QED
      BY <1>1, <1>2, <2>1, <3>5
  <2>2. PostingOf(d) <= PostingOf(e) \/ PostingOf(e) <= PostingOf(d)
    BY <1>2
  <2> QED
    BY <1>6, <2>1, <2>2
<1> HIDE DEF place
<1>7. place \in Injection(kept, 1..N)
  <2>1. place \in [kept -> 1..N]
    BY <1>5 DEF place
  <2> QED
    BY <1>6, <2>1 DEF Injection, IsInjective
<1>8. IsFiniteSet(1..N) /\ Cardinality(1..N) = N
  BY <1>3, FS_Interval
<1>9. place \in Surjection(kept, 1..N)
  BY <1>7, <1>8, FS_Injection
<1>10. \A i \in 1..N : \E e \in kept : place[e] = i
  BY <1>9 DEF Surjection
<1>11. \A i \in 1..N : InIdOrder(kept)[i] = CHOOSE e \in kept : place[e] = i
  BY DEF InIdOrder, place
<1>12. \A i \in 1..N : InIdOrder(kept)[i] \in kept /\ place[InIdOrder(kept)[i]] = i
  BY <1>10, <1>11
<1>13. InIdOrder(kept) = [i \in 1..N |-> InIdOrder(kept)[i]]
  BY DEF InIdOrder
<1>14. \A e \in kept : InIdOrder(kept)[place[e]] = e
  BY <1>5, <1>6, <1>12
<1> QED
  BY <1>3, <1>5, <1>12, <1>13, <1>14

\* What a run is asked to tell, one outlet after the other, no outlet twice.
Stages == {"idle", "fetch", "look", "upsert", "push"}
PassRecords == [at : Stages, dry : BOOLEAN, cut : Cuts \cup {None}, mail : Seq(DOMAIN Mails),
                offers : Seq(DOMAIN Copy), kept : Seq(Decided), fresh : SUBSET Found,
                unseen : BOOLEAN, shown : SUBSET Found, queue : Seq(ToSet(Outlets))]
Without(s) == \A i, j \in DOMAIN s : s[i] = s[j] => i = j

\* The postings a run has of its mail and has yet to store; those it has yet
\* to tell; whether it may yet tell an outlet of a posting.
OffersIn(x) == {Copy[k].posting : k \in ToSet(x.offers)}
KeptIn(x) == {Copy[x.kept[i].copy].posting : i \in DOMAIN x.kept}
SubjectOf(x) == Copy[Head(x.kept).copy].posting
MayTell(x, p, c) ==
    \/ p \in x.fresh
    \/ p \in x.shown /\ c \in ToSet(x.queue)
    \/ x.at = "upsert" /\ x.unseen /\ SubjectOf(x) = p

\* A run by itself: what it holds at each stage, and that it has stored what
\* it is to tell, and has told or explained what it has.
SoundPass(x, jb, td, ex) ==
    /\ x.at = "idle" => x = NoPass
    /\ x.at # "fetch" => x.offers = <<>>
    /\ x.at \notin {"look", "upsert"} => x.kept = <<>> /\ x.fresh = {}
    /\ x.at # "push" => x.shown = {}
    /\ x.at = "upsert" => x.kept # <<>> /\ (jb[SubjectOf(x)] = None => x.unseen)
    /\ \A p \in x.fresh \cup x.shown : jb[p] # None
    /\ x.at = "push" =>
         /\ Without(x.queue)
         /\ \A p \in x.shown, c \in Configured :
              c \in ToSet(x.queue) \/ td[p][c] > 0 \/ p \in ex

\* The offers of the mails that are marked.
MailKept(ud, jb, ex, ps) ==
    \A m \in ud : Mails[m] # None =>
      LET p == Copy[Mails[m]].posting IN
      jb[p] # None \/ p \in ex \/ \E q \in Passes : p \in OffersIn(ps[q]) \cup KeptIn(ps[q])
\* The postings that were surfaced when first stored.
SurfacedKept(db, jb, td, ex, ps) ==
    \A p \in Found :
      /\ db[p] = None <=> jb[p] = None
      /\ db[p] = "surfaced" =>
           \/ p \in ex
           \/ \E q \in Passes : p \in ps[q].fresh \cup ps[q].shown
           \/ \A c \in Configured : td[p][c] > 0
\* The runs under way, and those that may yet tell an outlet of a posting.
Afoot(ps) == {q \in Passes : ps[q].at # "idle"}
Tellers(ps, p, c) == {q \in Passes : MayTell(ps[q], p, c)}
CrowdKept(ps, ov) == Cardinality(Afoot(ps)) <= 1 + ov
ToldKept(jb, td, ov, ps) ==
    \A p \in Found, c \in Configured :
      /\ jb[p] = None => td[p][c] = 0
      /\ jb[p] # None => td[p][c] + Cardinality(Tellers(ps, p, c)) <= 1 + ov

PipeTypes ==
    /\ jobs \in [Found -> Verdicts \cup {None}] /\ debut \in [Found -> Verdicts \cup {None}]
    /\ uids \subseteq DOMAIN Mails
    /\ pass \in [Passes -> PassRecords]
    /\ told \in [Found -> [Configured -> Nat]]
    /\ overlapping \in Nat
PipeInv ==
    /\ PipeTypes
    /\ \A q \in Passes : SoundPass(pass[q], jobs, told, excused)
    /\ MailKept(uids, jobs, excused, pass)
    /\ SurfacedKept(debut, jobs, told, excused, pass)
    /\ CrowdKept(pass, overlapping)
    /\ ToldKept(jobs, told, overlapping, pass)

\* Nothing stored, told or explained is taken back.
Onward(jb, jb2, td, td2, ex, ex2) ==
    /\ \A p \in Found : jb[p] # None => jb2[p] # None
    /\ \A p \in Found, c \in Configured : td[p][c] > 0 => td2[p][c] > 0
    /\ ex \subseteq ex2
\* A run stays sound while the others go on.
LEMMA StaysSound ==
    ASSUME NEW x \in PassRecords, NEW jb, NEW jb2, NEW td, NEW td2, NEW ex, NEW ex2,
           SoundPass(x, jb, td, ex), Onward(jb, jb2, td, td2, ex, ex2)
    PROVE  SoundPass(x, jb2, td2, ex2)
<1>1. x.at = "upsert" => SubjectOf(x) \in Found
  <2> SUFFICES ASSUME x.at = "upsert" PROVE SubjectOf(x) \in Found
    OBVIOUS
  <2>1. x.kept # <<>> /\ x.kept \in Seq(Decided)
    BY DEF SoundPass, PassRecords
  <2>2. Head(x.kept) \in Decided
    BY <2>1
  <2> QED
    BY <2>2 DEF SubjectOf, Found, Decided
<1>2. x.at = "upsert" => x.kept # <<>> /\ (jb2[SubjectOf(x)] = None => x.unseen)
  BY <1>1 DEF SoundPass, Onward
<1>3. x.fresh \subseteq Found /\ x.shown \subseteq Found
  BY DEF PassRecords
<1>4. \A p \in x.fresh \cup x.shown : jb2[p] # None
  BY <1>3 DEF SoundPass, Onward
<1>5. x.at = "push" =>
         /\ Without(x.queue)
         /\ \A p \in x.shown, c \in Configured :
              c \in ToSet(x.queue) \/ td2[p][c] > 0 \/ p \in ex2
  BY <1>3 DEF SoundPass, Onward
<1> QED
  BY <1>2, <1>4, <1>5 DEF SoundPass

\* A step of a run marks no mail whose offer it does not have, and loses none.
MailGoesOn(ud, ud2, jb, jb2, ex, ex2, x, y) ==
    /\ ud2 \subseteq DOMAIN Mails /\ ex \subseteq ex2
    /\ \A p \in Found : jb[p] # None => jb2[p] # None
    /\ \A m \in ud2 \ ud : Mails[m] # None =>
         jb2[Copy[Mails[m]].posting] # None \/ Copy[Mails[m]].posting \in OffersIn(y)
    /\ \A p \in Found : p \in OffersIn(x) \cup KeptIn(x) =>
         jb2[p] # None \/ p \in ex2 \/ p \in OffersIn(y) \cup KeptIn(y)

\* The offers of the marked mails are kept by a run's step that keeps its own.
LEMMA MailStays ==
    ASSUME NEW ud, NEW ud2, NEW jb, NEW jb2, NEW ex, NEW ex2, NEW ps, NEW r \in Passes, NEW y,
           ps = [q \in Passes |-> ps[q]],
           MailKept(ud, jb, ex, ps), MailGoesOn(ud, ud2, jb, jb2, ex, ex2, ps[r], y)
    PROVE  MailKept(ud2, jb2, ex2, [ps EXCEPT ![r] = y])
<1> DEFINE ps2 == [ps EXCEPT ![r] = y]
           Has(x) == OffersIn(x) \cup KeptIn(x)
<1>1. ps2[r] = y /\ \A q \in Passes : q # r => ps2[q] = ps[q]
  OBVIOUS
<1> HIDE DEF ps2
<1> SUFFICES ASSUME NEW m \in ud2, Mails[m] # None
    PROVE  \/ jb2[Copy[Mails[m]].posting] # None \/ Copy[Mails[m]].posting \in ex2
           \/ \E q \in Passes : Copy[Mails[m]].posting \in Has(ps2[q])
  BY Zenon DEF MailKept, ps2
<1> DEFINE p == Copy[Mails[m]].posting
<1>2. p \in Found
  BY MailsInOrder DEF Found, MailGoesOn
<1>3. CASE m \notin ud
  <2>1. jb2[p] # None \/ p \in OffersIn(y)
    BY <1>3 DEF MailGoesOn
  <2>2. p \in OffersIn(y) => p \in Has(ps2[r])
    BY <1>1
  <2> QED
    BY <2>1, <2>2
<1>4. CASE m \in ud
  <2>1. jb[p] # None \/ p \in ex \/ \E q \in Passes : p \in Has(ps[q])
    BY <1>4, Zenon DEF MailKept
  <2> HIDE DEF p, Has
  <2>2. CASE \E q \in Passes : p \in Has(ps[q])
    <3>1. PICK q \in Passes : p \in Has(ps[q])
      BY <2>2
    <3>2. CASE q = r
      <4>1. jb2[p] # None \/ p \in ex2 \/ p \in Has(y)
        BY <1>2, <3>1, <3>2 DEF Has, MailGoesOn
      <4> QED
        BY <1>1, <4>1 DEF p
    <3>3. CASE q # r
      BY <1>1, <3>1, <3>3 DEF p
    <3> QED
      BY <3>2, <3>3
  <2>3. CASE jb[p] # None \/ p \in ex
    BY <1>2, <2>3 DEF p, MailGoesOn
  <2> QED
    BY <2>1, <2>2, <2>3
<1> QED
  BY <1>3, <1>4

\* What was surfaced when first stored is told, explained or with a run still.
LEMMA SurfacedStays ==
    ASSUME NEW db, NEW db2, NEW jb, NEW jb2, NEW td, NEW td2, NEW ex, NEW ex2, NEW ps,
           NEW r \in Passes, NEW y,
           ps = [q \in Passes |-> ps[q]],
           SurfacedKept(db, jb, td, ex, ps), Onward(jb, jb2, td, td2, ex, ex2),
           \A p \in Found : db2[p] = None <=> jb2[p] = None,
           \A p \in Found : db2[p] = "surfaced" => db[p] = "surfaced" \/ p \in y.fresh \cup y.shown,
           \A p \in Found : p \in ps[r].fresh \cup ps[r].shown =>
              \/ p \in y.fresh \cup y.shown \/ p \in ex2
              \/ \A c \in Configured : td2[p][c] > 0
    PROVE  SurfacedKept(db2, jb2, td2, ex2, [ps EXCEPT ![r] = y])
<1> DEFINE ps2 == [ps EXCEPT ![r] = y]
           Has(x) == x.fresh \cup x.shown
           All(t, p) == \A c \in Configured : t[p][c] > 0
<1>1. ps2[r] = y /\ \A q \in Passes : q # r => ps2[q] = ps[q]
  OBVIOUS
<1> HIDE DEF ps2
<1>2. ASSUME NEW p \in Found, db2[p] = "surfaced"
      PROVE  p \in ex2 \/ (\E q \in Passes : p \in Has(ps2[q])) \/ All(td2, p)
  <2>1. CASE p \in Has(y)
    BY <1>1, <2>1
  <2>2. CASE p \notin Has(y)
    <3>1. db[p] = "surfaced"
      BY <1>2, <2>2
    <3>2. p \in ex \/ (\E q \in Passes : p \in Has(ps[q])) \/ All(td, p)
      BY <3>1 DEF SurfacedKept
    <3>3. All(td, p) => All(td2, p)
      BY DEF Onward
    <3>4. p \in ex => p \in ex2
      BY DEF Onward
    <3>5. p \in Has(ps[r]) => p \in ex2 \/ All(td2, p)
      BY <2>2
    <3> HIDE DEF Has, All
    <3>6. CASE \E q \in Passes : p \in Has(ps[q])
      <4>1. PICK q \in Passes : p \in Has(ps[q])
        BY <3>6
      <4>2. CASE q = r
        BY <3>5, <4>1, <4>2
      <4>3. CASE q # r
        BY <1>1, <4>1, <4>3
      <4> QED
        BY <4>2, <4>3
    <3> QED
      BY <3>2, <3>3, <3>4, <3>6
  <2> QED
    BY <2>1, <2>2
<1>3. \A p \in Found : db2[p] = "surfaced" =>
        \/ p \in ex2 \/ (\E q \in Passes : p \in ps2[q].fresh \cup ps2[q].shown)
        \/ \A c \in Configured : td2[p][c] > 0
  BY <1>2
<1> QED
  BY <1>3 DEF SurfacedKept, ps2

\* The runs under way are finitely many, at most one more than had begun.
LEMMA CrowdStays ==
    ASSUME NEW ps, NEW ov \in Nat, NEW ov2 \in Nat, NEW r \in Passes, NEW y,
           ps = [q \in Passes |-> ps[q]], CrowdKept(ps, ov),
           \/ ov <= ov2 /\ (y.at = "idle" \/ ps[r].at # "idle")
           \/ ov2 = ov + Cardinality(Afoot(ps))
    PROVE  CrowdKept([ps EXCEPT ![r] = y], ov2)
<1> DEFINE ps2 == [ps EXCEPT ![r] = y]
           now == Afoot(ps)
           next == Afoot(ps2)
<1>1. ps2[r] = y /\ \A q \in Passes : q # r => ps2[q] = ps[q]
  OBVIOUS
<1>2. next \subseteq now \cup {r} /\ ((y.at = "idle" \/ ps[r].at # "idle") => next \subseteq now)
  <2> HIDE DEF ps2
  <2> QED
    BY <1>1 DEF Afoot
<1>3. now \subseteq Passes
  BY DEF Afoot
<1> HIDE DEF now, next
<1>4. IsFiniteSet(now) /\ Cardinality(now) \in Nat
  BY <1>3, PassesAreFew, FS_Subset, FS_CardinalityType
<1>5. IsFiniteSet(now \cup {r}) /\ Cardinality(now \cup {r}) <= Cardinality(now) + 1
      /\ Cardinality(now \cup {r}) \in Nat
  <2> DEFINE more == now \cup {r}
  <2>1. IsFiniteSet(more) /\ Cardinality(more) = IF r \in now THEN Cardinality(now) ELSE Cardinality(now) + 1
    BY <1>4, FS_AddElement
  <2> HIDE DEF more
  <2>2. Cardinality(more) \in Nat
    BY <2>1, FS_CardinalityType
  <2> QED
    BY <1>4, <2>1, <2>2 DEF more
<1>6. IsFiniteSet(next) /\ Cardinality(next) \in Nat /\ Cardinality(next) <= Cardinality(now \cup {r})
  BY <1>2, <1>5, FS_Subset, FS_CardinalityType
<1>7. Cardinality(now) <= 1 + ov
  BY DEF CrowdKept, now
<1>8. CASE ov2 = ov + Cardinality(now)
  <2>1. Cardinality(next) <= 1 + ov2
    BY <1>4, <1>5, <1>6, <1>8
  <2> QED
    BY <2>1 DEF CrowdKept, next
<1>9. CASE ov <= ov2 /\ (y.at = "idle" \/ ps[r].at # "idle")
  <2>1. Cardinality(next) <= Cardinality(now)
    BY <1>2, <1>4, <1>9, FS_Subset
  <2>2. Cardinality(next) <= 1 + ov2
    BY <1>4, <1>6, <1>7, <1>9, <2>1
  <2> QED
    BY <2>2 DEF CrowdKept, next
<1> QED
  BY <1>8, <1>9 DEF now

\* A run that is idle holds nothing.
IdleIsEmpty(ps) == \A q \in Passes : ps[q].at = "idle" => ps[q] = NoPass
\* A run that may yet tell an outlet of a posting is under way.
LEMMA TellersAreAfoot ==
    ASSUME NEW ps, NEW p, NEW c, IdleIsEmpty(ps)
    PROVE  Tellers(ps, p, c) \subseteq Afoot(ps)
<1> SUFFICES ASSUME NEW q \in Passes, MayTell(ps[q], p, c), ps[q] = NoPass PROVE FALSE
  BY DEF Tellers, Afoot, IdleIsEmpty
<1> QED
  BY DEF MayTell, NoPass

\* A step of a run tells only what it may, and may not again.
ToldGoesOn(jb, td, td2, x, y) ==
    /\ \A p \in Found : jb[p] = None => td2[p] = td[p]
    /\ \A p \in Found, c \in Configured : jb[p] # None =>
         \/ td2[p][c] = td[p][c] /\ (MayTell(y, p, c) => MayTell(x, p, c))
         \/ td2[p][c] = td[p][c] + 1 /\ MayTell(x, p, c) /\ ~MayTell(y, p, c)

\* How often an outlet was told of a posting and how many may yet tell it.
LEMMA ToldStays ==
    ASSUME NEW jb, NEW jb2, NEW td \in [Found -> [Configured -> Nat]],
           NEW td2 \in [Found -> [Configured -> Nat]], NEW ov \in Nat, NEW ov2 \in Nat, NEW ps,
           NEW r \in Passes, NEW y,
           ps = [q \in Passes |-> ps[q]], ToldKept(jb, td, ov, ps), ov <= ov2,
           \A p \in Found : jb[p] # None => jb2[p] # None,
           IdleIsEmpty([ps EXCEPT ![r] = y]), CrowdKept([ps EXCEPT ![r] = y], ov2),
           ToldGoesOn(jb, td, td2, ps[r], y)
    PROVE  ToldKept(jb2, td2, ov2, [ps EXCEPT ![r] = y])
<1> DEFINE ps2 == [ps EXCEPT ![r] = y]
<1>1. ps2[r] = y /\ \A q \in Passes : q # r => ps2[q] = ps[q]
  OBVIOUS
<1>2. /\ IdleIsEmpty(ps2)
      /\ CrowdKept(ps2, ov2)
  OBVIOUS
<1> HIDE DEF ps2
<1> SUFFICES ASSUME NEW p \in Found, NEW c \in Configured
    PROVE  /\ jb2[p] = None => td2[p][c] = 0
           /\ jb2[p] # None => td2[p][c] + Cardinality(Tellers(ps2, p, c)) <= 1 + ov2
  BY DEF ToldKept, ps2
<1> DEFINE now == Tellers(ps, p, c)
           next == Tellers(ps2, p, c)
<1>3. /\ jb[p] = None => td[p][c] = 0
      /\ jb[p] # None => td[p][c] + Cardinality(now) <= 1 + ov
  BY DEF ToldKept
<1>4. td[p][c] \in Nat /\ td2[p][c] \in Nat
  OBVIOUS
<1>5. now \subseteq Passes /\ next \subseteq Passes
  BY DEF Tellers
<1>6. /\ IsFiniteSet(now) /\ Cardinality(now) \in Nat
      /\ IsFiniteSet(next) /\ Cardinality(next) \in Nat
  <2> HIDE DEF now, next
  <2> QED
    BY <1>5, PassesAreFew, FS_Subset, FS_CardinalityType
<1>7. CASE jb[p] = None
  <2>1. td2[p][c] = 0
    BY <1>3, <1>7 DEF ToldGoesOn
  <2>2. next \subseteq Afoot(ps2)
    BY <1>2, TellersAreAfoot
  <2>3. Afoot(ps2) \subseteq Passes
    BY DEF Afoot
  <2> HIDE DEF next
  <2>4. IsFiniteSet(Afoot(ps2)) /\ Cardinality(Afoot(ps2)) \in Nat
    BY <2>3, PassesAreFew, FS_Subset, FS_CardinalityType
  <2>5. Cardinality(next) <= Cardinality(Afoot(ps2))
    BY <2>2, <2>4, FS_Subset
  <2>6. Cardinality(Afoot(ps2)) <= 1 + ov2
    BY <1>2 DEF CrowdKept
  <2>7. Cardinality(next) <= 1 + ov2
    BY <1>6, <2>4, <2>5, <2>6
  <2> QED
    BY <1>6, <2>1, <2>7 DEF next
<1>8. CASE jb[p] # None
  <2>1. jb2[p] # None
    BY <1>8
  <2>2. \A q \in Passes : q # r => (q \in next <=> q \in now)
    BY <1>1 DEF Tellers
  <2>3. (r \in now <=> MayTell(ps[r], p, c)) /\ (r \in next <=> MayTell(y, p, c))
    BY <1>1 DEF Tellers
  <2>4. \/ td2[p][c] = td[p][c] /\ (r \in next => r \in now)
        \/ td2[p][c] = td[p][c] + 1 /\ r \in now /\ r \notin next
    BY <1>8, <2>3 DEF ToldGoesOn
  <2> HIDE DEF now, next
  <2>5. CASE td2[p][c] = td[p][c] /\ (r \in next => r \in now)
    <3>1. next \subseteq now
      BY <1>5, <2>2, <2>5
    <3>2. Cardinality(next) <= Cardinality(now)
      BY <1>6, <3>1, FS_Subset
    <3>3. td2[p][c] + Cardinality(next) <= 1 + ov2
      BY <1>3, <1>4, <1>6, <1>8, <2>5, <3>2
    <3> QED
      BY <2>1, <3>3 DEF next
  <2>6. CASE td2[p][c] = td[p][c] + 1 /\ r \in now /\ r \notin next
    <3>1. next \subseteq now \ {r}
      BY <1>5, <2>2, <2>6
    <3>2. IsFiniteSet(now \ {r}) /\ Cardinality(now \ {r}) = Cardinality(now) - 1
      BY <1>6, <2>6, FS_RemoveElement
    <3>3. Cardinality(next) <= Cardinality(now \ {r})
      BY <3>1, <3>2, FS_Subset
    <3>4. td2[p][c] + Cardinality(next) <= 1 + ov2
      BY <1>3, <1>4, <1>6, <1>8, <2>6, <3>2, <3>3
    <3> QED
      BY <2>1, <3>4 DEF next
  <2> QED
    BY <2>4, <2>5, <2>6
<1> QED
  BY <1>7, <1>8

\* What a run's step keeps: the mail's offers, what was surfaced, and how
\* often an outlet can be told of a posting.
KeepsMail(x, y) == MailGoesOn(uids, uids', jobs, jobs', excused, excused', x, y)
KeepsSurfaced(x, y) ==
    /\ debut' \in [Found -> Verdicts \cup {None}]
    /\ \A p \in Found : debut'[p] = None <=> jobs'[p] = None
    /\ \A p \in Found : debut'[p] = "surfaced" =>
         debut[p] = "surfaced" \/ p \in y.fresh \cup y.shown
    /\ \A p \in Found : p \in x.fresh \cup x.shown =>
         \/ p \in y.fresh \cup y.shown \/ p \in excused'
         \/ \A c \in Configured : told'[p][c] > 0
KeepsCrowd(x, y) ==
    /\ overlapping' \in Nat /\ overlapping <= overlapping'
    /\ \/ y.at = "idle" \/ x.at # "idle"
       \/ overlapping' = overlapping + Cardinality(Afoot(pass))
KeepsTold(x, y) ==
    /\ told' \in [Found -> [Configured -> Nat]]
    /\ ToldGoesOn(jobs, told, told', x, y)
\* A step of a run that keeps all of it keeps the invariant.
LEMMA PassStep ==
    ASSUME PipeInv, NEW r \in Passes, NEW y \in PassRecords, pass' = [pass EXCEPT ![r] = y],
           jobs' \in [Found -> Verdicts \cup {None}],
           \A p \in Found : jobs[p] # None => jobs'[p] # None, excused \subseteq excused',
           SoundPass(y, jobs', told', excused'),
           KeepsMail(pass[r], y), KeepsSurfaced(pass[r], y), KeepsCrowd(pass[r], y),
           KeepsTold(pass[r], y)
    PROVE  PipeInv'
<1>1. /\ jobs \in [Found -> Verdicts \cup {None}]
      /\ pass \in [Passes -> PassRecords] /\ pass = [q \in Passes |-> pass[q]]
      /\ told \in [Found -> [Configured -> Nat]] /\ overlapping \in Nat
      /\ uids \subseteq DOMAIN Mails
  BY DEF PipeInv, PipeTypes
<1>2. Onward(jobs, jobs', told, told', excused, excused')
  <2>1. ASSUME NEW p \in Found, NEW c \in Configured, told[p][c] > 0
        PROVE  told'[p][c] > 0
    <3>1. told[p][c] \in Nat
      BY <1>1
    <3>2. CASE jobs[p] = None
      <4>1. told'[p] = told[p]
        BY <3>2 DEF KeepsTold, ToldGoesOn
      <4> QED
        BY <2>1, <4>1
    <3>3. CASE jobs[p] # None
      <4>1. told'[p][c] = told[p][c] \/ told'[p][c] = told[p][c] + 1
        BY <3>3 DEF KeepsTold, ToldGoesOn
      <4> QED
        BY <2>1, <3>1, <4>1
    <3> QED
      BY <3>2, <3>3
  <2> QED
    BY <2>1 DEF Onward
<1>3. PipeTypes'
  BY <1>1 DEF PipeTypes, KeepsMail, MailGoesOn, KeepsSurfaced, KeepsCrowd, KeepsTold
<1>4. \A q \in Passes : SoundPass(pass'[q], jobs', told', excused')
  <2>1. pass'[r] = y /\ \A q \in Passes : q # r => pass'[q] = pass[q]
    BY <1>1
  <2>2. ASSUME NEW q \in Passes, q # r
        PROVE  SoundPass(pass[q], jobs', told', excused')
    <3>1. SoundPass(pass[q], jobs, told, excused) /\ pass[q] \in PassRecords
      BY <1>1 DEF PipeInv
    <3> QED
      BY <1>2, <3>1, StaysSound
  <2> QED
    BY <2>1, <2>2, Zenon
<1>5. MailKept(uids', jobs', excused', pass')
  <2>1. MailKept(uids, jobs, excused, pass)
    BY DEF PipeInv
  <2>2. MailKept(uids', jobs', excused', [pass EXCEPT ![r] = y])
    BY <1>1, <2>1, MailStays DEF KeepsMail
  <2> QED
    BY <2>2
<1>6. SurfacedKept(debut', jobs', told', excused', pass')
  <2>1. SurfacedKept(debut, jobs, told, excused, pass)
    BY DEF PipeInv
  <2>2. SurfacedKept(debut', jobs', told', excused', [pass EXCEPT ![r] = y])
    BY <1>1, <1>2, <2>1, SurfacedStays DEF KeepsSurfaced
  <2> QED
    BY <2>2
<1>7. CrowdKept(pass', overlapping')
  <2>1. CrowdKept(pass, overlapping)
    BY DEF PipeInv
  <2>2. CrowdKept([pass EXCEPT ![r] = y], overlapping')
    BY <1>1, <2>1, CrowdStays DEF KeepsCrowd
  <2> QED
    BY <2>2
<1>8. ToldKept(jobs', told', overlapping', pass')
  <2>1. ToldKept(jobs, told, overlapping, pass)
    BY DEF PipeInv
  <2>2. IdleIsEmpty(pass')
    BY <1>4 DEF SoundPass, IdleIsEmpty
  <2>3. ToldKept(jobs', told', overlapping', [pass EXCEPT ![r] = y])
    BY <1>1, <1>7, <2>1, <2>2, ToldStays DEF KeepsTold, KeepsCrowd
  <2> QED
    BY <2>3
<1> QED
  BY <1>3, <1>4, <1>5, <1>6, <1>7, <1>8 DEF PipeInv

\* A step that stores nothing, tells nothing and begins no run.
LEMMA QuietStep ==
    ASSUME PipeInv, NEW r \in Passes, NEW y \in PassRecords, pass' = [pass EXCEPT ![r] = y],
           UNCHANGED <<jobs, debut, told, overlapping>>, excused \subseteq excused',
           SoundPass(y, jobs, told, excused'), KeepsMail(pass[r], y), pass[r].at # "idle",
           \A p \in Found : p \in pass[r].fresh \cup pass[r].shown =>
             \/ p \in y.fresh \cup y.shown \/ p \in excused'
             \/ \A c \in Configured : told[p][c] > 0,
           \A p \in Found, c \in Configured :
             jobs[p] # None /\ MayTell(y, p, c) => MayTell(pass[r], p, c)
    PROVE  PipeInv'
<1>1. /\ jobs \in [Found -> Verdicts \cup {None}] /\ debut \in [Found -> Verdicts \cup {None}]
      /\ told \in [Found -> [Configured -> Nat]] /\ overlapping \in Nat
      /\ \A p \in Found : debut[p] = None <=> jobs[p] = None
  BY DEF PipeInv, PipeTypes, SurfacedKept
<1>2. KeepsSurfaced(pass[r], y)
  BY <1>1 DEF KeepsSurfaced
<1>3. KeepsCrowd(pass[r], y)
  BY <1>1 DEF KeepsCrowd
<1>4. KeepsTold(pass[r], y)
  BY <1>1 DEF KeepsTold, ToldGoesOn
<1>5. SoundPass(y, jobs', told', excused')
  OBVIOUS
<1>6. jobs' \in [Found -> Verdicts \cup {None}] /\ \A p \in Found : jobs[p] # None => jobs'[p] # None
  BY <1>1
<1> QED
  BY <1>2, <1>3, <1>4, <1>5, <1>6, PassStep

\* A run that is idle holds nothing.
LEMMA NoPassIsEmpty ==
    /\ NoPass \in PassRecords /\ NoPass.at = "idle"
    /\ NoPass.fresh = {} /\ NoPass.shown = {} /\ NoPass.kept = <<>> /\ NoPass.offers = <<>>
    /\ \A p, c : ~MayTell(NoPass, p, c)
    /\ \A jb, td, ex : SoundPass(NoPass, jb, td, ex)
<1>1. NoPass \in PassRecords
  BY DEF NoPass, PassRecords, Stages
<1>2. /\ NoPass.at = "idle" /\ NoPass.fresh = {} /\ NoPass.shown = {}
      /\ NoPass.kept = <<>> /\ NoPass.offers = <<>>
  BY DEF NoPass
<1>3. \A p, c : ~MayTell(NoPass, p, c)
  BY <1>2 DEF MayTell
<1>4. \A jb, td, ex : SoundPass(NoPass, jb, td, ex)
  BY <1>2 DEF SoundPass
<1> QED
  BY <1>1, <1>2, <1>3, <1>4

\* No entries, no postings.
LEMMA NoneHeld ==
    ASSUME NEW x
    PROVE  /\ x.offers = <<>> => OffersIn(x) = {}
           /\ x.kept = <<>> => KeptIn(x) = {}
  BY DEF OffersIn, KeptIn, ToSet

\* What the invariant says of a run.
LEMMA PassFacts ==
    ASSUME PipeInv, NEW r \in Passes
    PROVE  /\ pass[r] \in PassRecords /\ SoundPass(pass[r], jobs, told, excused)
           /\ pass = [q \in Passes |-> pass[q]]
           /\ uids \subseteq DOMAIN Mails
           /\ pass[r].offers \in Seq(DOMAIN Copy) /\ pass[r].kept \in Seq(Decided)
           /\ pass[r].fresh \subseteq Found /\ pass[r].shown \subseteq Found
  BY DEF PipeInv, PipeTypes, PassRecords

\* A mishap explains what it is told of.
LEMMA MishapExplains ==
    ASSUME NEW n, NEW postings, Mishap(n, postings)
    PROVE  excused \subseteq excused' /\ (n # 0 => postings \subseteq excused')
  BY DEF Mishap

\* A run that ends has told or explained what it had.
LEMMA RunEnds ==
    ASSUME PipeInv, NEW r \in Passes, pass[r].at # "idle", pass' = [pass EXCEPT ![r] = NoPass],
           UNCHANGED <<jobs, uids, debut, told, overlapping>>, excused \subseteq excused',
           \A p \in Found : p \in OffersIn(pass[r]) \cup KeptIn(pass[r]) => p \in excused',
           \A p \in Found : p \in pass[r].fresh \cup pass[r].shown =>
             p \in excused' \/ \A c \in Configured : told[p][c] > 0
    PROVE  PipeInv'
<1>1. SoundPass(NoPass, jobs, told, excused') /\ NoPass \in PassRecords
  BY NoPassIsEmpty
<1>2. KeepsMail(pass[r], NoPass)
  <2>1. uids \subseteq DOMAIN Mails
    BY PassFacts
  <2> QED
    BY <2>1 DEF KeepsMail, MailGoesOn
<1>3. \A p \in Found, c \in Configured : ~MayTell(NoPass, p, c)
  BY NoPassIsEmpty
<1> QED
  BY <1>1, <1>2, <1>3, QuietStep

\* A run begins, and the runs under way are counted.
LEMMA BeginStep ==
    ASSUME PipeInv, NEW r \in Passes, BeginPass(r)
    PROVE  PipeInv'
<1>1. PICK dry \in BOOLEAN : \E cut \in Cuts :
        pass' = [pass EXCEPT ![r] = [NoPass EXCEPT
          !.at = "fetch", !.dry = dry, !.cut = cut, !.mail = [m \in DOMAIN Mails |-> m]]]
  BY DEF BeginPass
<1>2. PICK cut \in Cuts :
        pass' = [pass EXCEPT ![r] = [NoPass EXCEPT
          !.at = "fetch", !.dry = dry, !.cut = cut, !.mail = [m \in DOMAIN Mails |-> m]]]
  BY <1>1
<1> DEFINE x == pass[r]
           all == [m \in DOMAIN Mails |-> m]
           y == [NoPass EXCEPT !.at = "fetch", !.dry = dry, !.cut = cut, !.mail = all]
<1>3. x.at = "idle" /\ x = NoPass
  BY PassFacts DEF BeginPass, SoundPass
<1>4. all \in Seq(DOMAIN Mails)
  <2>1. DOMAIN Mails = 1..Len(Mails) /\ Len(Mails) \in Nat
    BY MailsInOrder
  <2> QED
    BY <2>1
<1> HIDE DEF all
<1>5. /\ y \in PassRecords /\ y.at = "fetch" /\ y.kept = <<>> /\ y.offers = <<>>
      /\ y.fresh = {} /\ y.shown = {}
  BY <1>4, NoPassIsEmpty DEF PassRecords, Stages
<1>6. pass' = [pass EXCEPT ![r] = y] /\ UNCHANGED <<jobs, uids, debut, told, excused>>
  BY <1>2 DEF BeginPass, all
<1> HIDE DEF y
<1>7. SoundPass(y, jobs', told', excused')
  BY <1>5 DEF SoundPass
<1>8. KeepsMail(x, y)
  <2>1. OffersIn(x) = {} /\ KeptIn(x) = {}
    BY <1>3, NoPassIsEmpty, NoneHeld
  <2>2. uids \subseteq DOMAIN Mails
    BY PassFacts
  <2> QED
    BY <1>6, <2>1, <2>2 DEF KeepsMail, MailGoesOn
<1>9. /\ jobs \in [Found -> Verdicts \cup {None}] /\ debut \in [Found -> Verdicts \cup {None}]
      /\ told \in [Found -> [Configured -> Nat]] /\ overlapping \in Nat
      /\ \A p \in Found : debut[p] = None <=> jobs[p] = None
  BY DEF PipeInv, PipeTypes, SurfacedKept
<1>10. KeepsSurfaced(x, y)
  <2>1. x.fresh = {} /\ x.shown = {}
    BY <1>3, NoPassIsEmpty
  <2> QED
    BY <1>6, <1>9, <2>1 DEF KeepsSurfaced
<1>11. KeepsCrowd(x, y)
  <2> DEFINE n == Cardinality(Afoot(pass))
  <2>1. overlapping' = overlapping + n
    BY DEF BeginPass, Afoot
  <2>2. IsFiniteSet(Afoot(pass))
    <3>1. Afoot(pass) \subseteq Passes
      BY DEF Afoot
    <3> QED
      BY <3>1, PassesAreFew, FS_Subset
  <2>3. n \in Nat
    BY <2>2, FS_CardinalityType
  <2> HIDE DEF n
  <2>4. overlapping' \in Nat /\ overlapping <= overlapping'
    BY <1>9, <2>1, <2>3
  <2> QED
    BY <2>1, <2>4 DEF KeepsCrowd, n
<1>12. KeepsTold(x, y)
  <2>1. \A p, c : ~MayTell(y, p, c)
    BY <1>5 DEF MayTell
  <2> QED
    BY <1>6, <1>9, <2>1 DEF KeepsTold, ToldGoesOn
<1> QED
  BY <1>5, <1>6, <1>7, <1>8, <1>9, <1>10, <1>11, <1>12, PassStep

\* A sequence with an entry more.
LEMMA OneMore ==
    ASSUME NEW S, NEW s \in Seq(S), NEW e \in S
    PROVE  s \o <<e>> \in Seq(S) /\ ToSet(s \o <<e>>) = ToSet(s) \cup {e}
<1> DEFINE t == s \o <<e>>
<1>1. t \in Seq(S) /\ Len(t) = Len(s) + 1
  OBVIOUS
<1>2. DOMAIN s = 1..Len(s) /\ DOMAIN t = 1..(Len(s) + 1) /\ Len(s) \in Nat
  BY <1>1
<1>3. t[Len(s) + 1] = e /\ \A i \in 1..Len(s) : t[i] = s[i]
  OBVIOUS
<1> HIDE DEF t
<1>4. ToSet(t) = {t[i] : i \in DOMAIN t} /\ ToSet(s) = {s[i] : i \in DOMAIN s}
  BY DEF ToSet
<1>5. \A v : v \in ToSet(t) => v \in ToSet(s) \/ v = e
  BY <1>2, <1>3, <1>4
<1>6. \A v \in ToSet(s) : v \in ToSet(t)
  BY <1>2, <1>3, <1>4
<1>7. e \in ToSet(t)
  BY <1>2, <1>3, <1>4
<1> QED
  BY <1>1, <1>5, <1>6, <1>7 DEF t

\* Read, keep the offer, mark the mail: the offer is with the run.
LEMMA ReadStep ==
    ASSUME PipeInv, NEW r \in Passes, ReadMail(r)
    PROVE  PipeInv'
<1> DEFINE x == pass[r]
           m == Head(x.mail)
           offer == IF m \in uids \/ Mails[m] = None THEN <<>> ELSE <<Mails[m]>>
           left == Tail(x.mail)
           offers == x.offers \o offer
           y == [x EXCEPT !.mail = left, !.offers = offers]
<1>1. /\ x \in PassRecords /\ SoundPass(x, jobs, told, excused) /\ pass = [q \in Passes |-> pass[q]]
      /\ uids \subseteq DOMAIN Mails
  BY PassFacts
<1>2. x.at = "fetch" /\ x.mail # <<>> /\ x.mail \in Seq(DOMAIN Mails) /\ x.offers \in Seq(DOMAIN Copy)
  BY <1>1 DEF ReadMail, PassRecords
<1>3. m \in DOMAIN Mails /\ left \in Seq(DOMAIN Mails)
  <2> HIDE DEF x
  <2>1. x.mail \in Seq(DOMAIN Mails) /\ x.mail # <<>>
    BY <1>2
  <2> QED
    BY <2>1, HeadTailProperties
<1>4. Mails[m] # None => Mails[m] \in DOMAIN Copy
  BY <1>3, MailsInOrder
<1>5. /\ offers \in Seq(DOMAIN Copy) /\ ToSet(x.offers) \subseteq ToSet(offers)
      /\ m \notin uids /\ Mails[m] # None => Mails[m] \in ToSet(offers)
  <2>1. CASE m \in uids \/ Mails[m] = None
    <3>1. offers = x.offers
      <4>1. offer = <<>>
        BY <2>1
      <4>2. x.offers \in Seq(DOMAIN Copy)
        BY <1>2
      <4> HIDE DEF x, offer
      <4> QED
        BY <4>1, <4>2, ConcatEmptySeq
    <3> QED
      BY <1>2, <2>1, <3>1
  <2>2. CASE ~(m \in uids \/ Mails[m] = None)
    <3>1. offers = x.offers \o <<Mails[m]>>
      BY <2>2
    <3> QED
      BY <1>2, <1>4, <2>2, <3>1, OneMore
  <2> QED
    BY <2>1, <2>2
<1>6. uids' = uids \cup {m} /\ pass' = [pass EXCEPT ![r].mail = Tail(@), ![r].offers = @ \o offer]
      /\ UNCHANGED <<jobs, debut, told, excused, overlapping>>
  BY DEF ReadMail
<1> HIDE DEF m, offer
<1>7. pass' = [pass EXCEPT ![r] = y]
  BY <1>1, <1>6
<1> HIDE DEF left, offers
<1>8. /\ y \in PassRecords /\ y.at = "fetch" /\ y.kept = x.kept /\ y.offers = offers
      /\ y.fresh = x.fresh /\ y.shown = x.shown
  BY <1>1, <1>2, <1>3, <1>5 DEF PassRecords
<1> HIDE DEF y
<1>9. SoundPass(y, jobs, told, excused')
  BY <1>1, <1>2, <1>6, <1>8 DEF SoundPass
<1>10. KeepsMail(x, y)
  <2>1. OffersIn(x) \subseteq OffersIn(y) /\ KeptIn(x) = KeptIn(y)
    BY <1>5, <1>8 DEF OffersIn, KeptIn
  <2>2. m \notin uids /\ Mails[m] # None => Copy[Mails[m]].posting \in OffersIn(y)
    BY <1>5, <1>8 DEF OffersIn
  <2> QED
    BY <1>1, <1>3, <1>6, <2>1, <2>2 DEF KeepsMail, MailGoesOn
<1>11. \A p, c : MayTell(y, p, c) => MayTell(x, p, c)
  BY <1>1, <1>2, <1>8 DEF MayTell, SoundPass
<1> QED
  BY <1>2, <1>6, <1>7, <1>8, <1>9, <1>10, <1>11, QuietStep

\* All a run holds: what it read, kept, and has yet to tell.
LEMMA HeldByPass ==
    ASSUME NEW r \in Passes
    PROVE  OfPass(r) = OffersIn(pass[r]) \cup KeptIn(pass[r]) \cup pass[r].fresh \cup pass[r].shown
  BY DEF OfPass, OffersIn, KeptIn

\* A mailbox that breaks: its offers are explained.
LEMMA BreakStep ==
    ASSUME PipeInv, NEW r \in Passes, MailBreaks(r)
    PROVE  PipeInv'
<1> DEFINE x == pass[r]
           y == [x EXCEPT !.mail = <<>>, !.offers = <<>>]
<1>1. /\ x \in PassRecords /\ SoundPass(x, jobs, told, excused) /\ pass = [q \in Passes |-> pass[q]]
      /\ uids \subseteq DOMAIN Mails
  BY PassFacts
<1>2. /\ x.at = "fetch" /\ pass' = [pass EXCEPT ![r].mail = <<>>, ![r].offers = <<>>]
      /\ Mishap(1, OfPass(r)) /\ UNCHANGED <<jobs, uids, debut, told, overlapping>>
  BY DEF MailBreaks
<1>3. excused \subseteq excused' /\ OffersIn(x) \subseteq excused'
  BY <1>2, MishapExplains, HeldByPass
<1>4. pass' = [pass EXCEPT ![r] = y]
  BY <1>1, <1>2
<1>5. /\ y \in PassRecords /\ y.at = "fetch" /\ y.kept = x.kept /\ y.offers = <<>>
      /\ y.fresh = x.fresh /\ y.shown = x.shown
  <2> DEFINE none == <<>>
             blank == [x EXCEPT !.mail = none, !.offers = none]
  <2>1. none \in Seq(DOMAIN Mails) /\ none \in Seq(DOMAIN Copy)
    OBVIOUS
  <2>2. y = blank
    OBVIOUS
  <2>3. none = <<>>
    OBVIOUS
  <2> HIDE DEF none
  <2>4. /\ blank \in PassRecords /\ blank.at = x.at /\ blank.kept = x.kept /\ blank.offers = none
        /\ blank.fresh = x.fresh /\ blank.shown = x.shown
    BY <1>1, <2>1 DEF PassRecords
  <2> HIDE DEF blank, y
  <2> QED
    BY <1>2, <2>2, <2>3, <2>4
<1> HIDE DEF y
<1>6. SoundPass(y, jobs, told, excused')
  BY <1>1, <1>2, <1>3, <1>5 DEF SoundPass
<1>7. KeepsMail(x, y)
  <2>1. KeptIn(x) = KeptIn(y)
    BY <1>5 DEF KeptIn
  <2> QED
    BY <1>1, <1>2, <1>3, <2>1 DEF KeepsMail, MailGoesOn
<1>8. \A p, c : MayTell(y, p, c) => MayTell(x, p, c)
  BY <1>1, <1>2, <1>5 DEF MayTell, SoundPass
<1> QED
  BY <1>2, <1>3, <1>4, <1>5, <1>6, <1>7, <1>8, QuietStep

\* The look: a posting that is not stored is remembered as unseen.
LEMMA LookStep ==
    ASSUME PipeInv, NEW r \in Passes, Look(r)
    PROVE  PipeInv'
<1> DEFINE x == pass[r]
           seen == Unseen(Subject(r))
           y == [x EXCEPT !.at = "upsert", !.unseen = seen]
<1>1. /\ x \in PassRecords /\ SoundPass(x, jobs, told, excused) /\ pass = [q \in Passes |-> pass[q]]
      /\ uids \subseteq DOMAIN Mails
  BY PassFacts
<1>2. /\ x.at = "look" /\ x.kept # <<>>
      /\ pass' = [pass EXCEPT ![r].at = "upsert", ![r].unseen = seen]
      /\ UNCHANGED <<jobs, uids, debut, told, excused, overlapping>>
  BY DEF Look
<1>3. pass' = [pass EXCEPT ![r] = y]
  BY <1>1, <1>2
<1>4. seen \in BOOLEAN /\ (seen <=> jobs[SubjectOf(x)] = None)
  BY DEF Unseen, Subject, InHand, SubjectOf
<1> HIDE DEF seen
<1>5. /\ y \in PassRecords /\ y.at = "upsert" /\ y.kept = x.kept /\ y.offers = x.offers
      /\ y.fresh = x.fresh /\ y.shown = x.shown /\ (y.unseen <=> seen)
  BY <1>1, <1>4 DEF PassRecords, Stages
<1> HIDE DEF y
<1>6. SubjectOf(y) = SubjectOf(x)
  BY <1>5 DEF SubjectOf
<1>7. SoundPass(y, jobs, told, excused')
  BY <1>1, <1>2, <1>4, <1>5, <1>6 DEF SoundPass
<1>8. KeepsMail(x, y)
  <2>1. KeptIn(x) = KeptIn(y) /\ OffersIn(x) = OffersIn(y)
    BY <1>5 DEF KeptIn, OffersIn
  <2> QED
    BY <1>1, <1>2, <2>1 DEF KeepsMail, MailGoesOn
<1>9. \A p, c : jobs[p] # None /\ MayTell(y, p, c) => MayTell(x, p, c)
  BY <1>1, <1>2, <1>4, <1>5, <1>6 DEF MayTell, SoundPass
<1> QED
  BY <1>2, <1>3, <1>5, <1>7, <1>8, <1>9, QuietStep

\* The rest of a queue without repeats is without repeats and without its head.
LEMMA RestOfQueue ==
    ASSUME NEW S, NEW s \in Seq(S), s # <<>>, Without(s)
    PROVE  /\ Tail(s) \in Seq(S) /\ Without(Tail(s)) /\ Head(s) \notin ToSet(Tail(s))
           /\ ToSet(s) = ToSet(Tail(s)) \cup {Head(s)}
<1> DEFINE t == Tail(s)
<1>1. t \in Seq(S) /\ Len(t) = Len(s) - 1 /\ \A i \in 1..Len(t) : t[i] = s[i + 1]
  BY HeadTailProperties
<1>2. DOMAIN s = 1..Len(s) /\ DOMAIN t = 1..Len(t) /\ Len(s) \in Nat /\ Len(t) \in Nat
      /\ Head(s) = s[1] /\ 1 \in DOMAIN s
  BY <1>1
<1> HIDE DEF t
<1>3. \A i \in DOMAIN t : i + 1 \in DOMAIN s /\ t[i] = s[i + 1] /\ i + 1 # 1
  BY <1>1, <1>2
<1>4. \A i, j \in DOMAIN t : i + 1 = j + 1 => i = j
  BY <1>2
<1>5. Without(t)
  BY <1>3, <1>4 DEF Without
<1>6. ToSet(t) = {t[i] : i \in DOMAIN t} /\ ToSet(s) = {s[i] : i \in DOMAIN s}
  BY DEF ToSet
<1>7. Head(s) \notin ToSet(t)
  BY <1>2, <1>3, <1>6 DEF Without
<1>8. \A v \in ToSet(t) : v \in ToSet(s)
  BY <1>3, <1>6
<1>9. \A v \in ToSet(s) : v \in ToSet(t) \/ v = Head(s)
  <2> SUFFICES ASSUME NEW i \in DOMAIN s, i # 1 PROVE s[i] \in ToSet(t)
    BY <1>2, <1>6
  <2>1. i - 1 \in DOMAIN t /\ t[i - 1] = s[i]
    BY <1>1, <1>2
  <2> QED
    BY <1>6, <2>1
<1>10. Head(s) \in ToSet(s)
  BY <1>2, <1>6
<1> QED
  BY <1>1, <1>5, <1>7, <1>8, <1>9, <1>10 DEF t

\* An outlet that is not configured is passed over.
LEMMA SkipStep ==
    ASSUME PipeInv, NEW r \in Passes, SkipOutlet(r)
    PROVE  PipeInv'
<1> DEFINE x == pass[r]
           rest == Tail(x.queue)
           y == [x EXCEPT !.queue = rest]
<1>1. /\ x \in PassRecords /\ SoundPass(x, jobs, told, excused) /\ pass = [q \in Passes |-> pass[q]]
      /\ uids \subseteq DOMAIN Mails
  BY PassFacts
<1>2. /\ x.at = "push" /\ x.queue # <<>> /\ Head(x.queue) \notin Configured
      /\ pass' = [pass EXCEPT ![r].queue = Tail(@)]
      /\ UNCHANGED <<jobs, uids, debut, told, excused, overlapping>>
  BY DEF SkipOutlet
<1>3. pass' = [pass EXCEPT ![r] = y]
  BY <1>1, <1>2
<1>4. /\ rest \in Seq(ToSet(Outlets)) /\ Without(rest)
      /\ ToSet(x.queue) = ToSet(rest) \cup {Head(x.queue)}
  <2>1. x.queue \in Seq(ToSet(Outlets)) /\ Without(x.queue)
    BY <1>1, <1>2 DEF PassRecords, SoundPass
  <2> QED
    BY <1>2, <2>1, RestOfQueue
<1> HIDE DEF rest
<1>5. /\ y \in PassRecords /\ y.at = x.at /\ y.kept = x.kept /\ y.offers = x.offers
      /\ y.fresh = x.fresh /\ y.shown = x.shown /\ y.queue = rest
  BY <1>1, <1>4 DEF PassRecords
<1> HIDE DEF y
<1>6. \A c \in Configured : c \in ToSet(x.queue) => c \in ToSet(y.queue)
  BY <1>2, <1>4, <1>5
<1>7. SoundPass(y, jobs, told, excused')
  BY <1>1, <1>2, <1>4, <1>5, <1>6 DEF SoundPass
<1>8. KeepsMail(x, y)
  <2>1. KeptIn(x) = KeptIn(y) /\ OffersIn(x) = OffersIn(y)
    BY <1>5 DEF KeptIn, OffersIn
  <2> QED
    BY <1>1, <1>2, <2>1 DEF KeepsMail, MailGoesOn
<1>9. \A p, c : MayTell(y, p, c) => MayTell(x, p, c)
  BY <1>2, <1>4, <1>5 DEF MayTell
<1> QED
  BY <1>2, <1>3, <1>5, <1>7, <1>8, <1>9, QuietStep

\* A run ends when every outlet was asked, or crashes.
LEMMA EndStep ==
    ASSUME PipeInv, NEW r \in Passes, EndPass(r) \/ PassCrash(r)
    PROVE  PipeInv'
<1> DEFINE x == pass[r]
<1>1. x \in PassRecords /\ SoundPass(x, jobs, told, excused)
  BY PassFacts
<1>2. CASE EndPass(r)
  <2>1. /\ x.at = "push" /\ x.queue = <<>> /\ pass' = [pass EXCEPT ![r] = NoPass]
        /\ UNCHANGED <<jobs, uids, debut, told, excused, overlapping>>
    BY <1>2 DEF EndPass
  <2>2. OffersIn(x) = {} /\ KeptIn(x) = {} /\ x.fresh = {}
    BY <1>1, <2>1, NoneHeld DEF SoundPass
  <2>3. ToSet(x.queue) = {}
    BY <2>1 DEF ToSet
  <2>4. \A p \in x.shown : p \in excused' \/ \A c \in Configured : told[p][c] > 0
    <3> SUFFICES ASSUME NEW p \in x.shown, p \notin excused, NEW c \in Configured
        PROVE told[p][c] > 0
      BY <2>1
    <3> QED
      BY <1>1, <2>1, <2>3 DEF SoundPass
  <2> QED
    BY <2>1, <2>2, <2>4, RunEnds
<1>3. CASE PassCrash(r)
  <2>1. /\ x.at # "idle" /\ pass' = [pass EXCEPT ![r] = NoPass] /\ Mishap(1, OfPass(r))
        /\ UNCHANGED <<jobs, uids, debut, told, overlapping>>
    BY <1>3 DEF PassCrash
  <2>2. excused \subseteq excused' /\ OfPass(r) \subseteq excused'
    BY <2>1, MishapExplains
  <2>3. OffersIn(x) \cup KeptIn(x) \cup x.fresh \cup x.shown \subseteq excused'
    BY <2>2, HeldByPass
  <2> QED
    BY <2>1, <2>2, <2>3, RunEnds
<1> QED
  BY <1>2, <1>3

\* No outlet is listed twice.
OutletsOnce == Without(Outlets)
\* The digest: what is shown is to be told to every outlet, what does not fit
\* is explained; a dry run, and one with nothing new, ends.
LEMMA ComposeStep ==
    ASSUME OutletsOnce, PipeInv, NEW r \in Passes, ComposeDigest(r)
    PROVE  PipeInv'
<1> DEFINE x == pass[r]
           fresh == x.fresh
           shown == FitsDigest(fresh)
           y == [x EXCEPT !.at = "push", !.shown = shown, !.fresh = {}, !.queue = Outlets]
<1>1. /\ x \in PassRecords /\ SoundPass(x, jobs, told, excused) /\ pass = [q \in Passes |-> pass[q]]
      /\ uids \subseteq DOMAIN Mails /\ fresh \subseteq Found
  BY PassFacts
<1>2. /\ x.at = "look" /\ x.kept = <<>> /\ UNCHANGED <<jobs, uids, debut, told, overlapping>>
  BY DEF ComposeDigest
<1>3. PICK alerts \in BOOLEAN :
        /\ pass' = [pass EXCEPT ![r] = IF x.dry \/ (fresh = {} /\ ~alerts) THEN NoPass
             ELSE [@ EXCEPT !.at = "push", !.shown = shown, !.fresh = {}, !.queue = Outlets]]
        /\ IF x.dry /\ fresh # {} THEN Mishap(1, fresh)
           ELSE mishaps' = mishaps /\ excused' = excused \cup (fresh \ shown)
  BY DEF ComposeDigest
<1>4. excused \subseteq excused'
  <2>1. CASE x.dry /\ fresh # {}
    BY <1>3, <2>1, MishapExplains
  <2>2. CASE ~(x.dry /\ fresh # {})
    BY <1>3, <2>2
  <2> QED
    BY <2>1, <2>2
<1>5. x.shown = {} /\ x.offers = <<>> /\ OffersIn(x) = {} /\ KeptIn(x) = {}
  BY <1>1, <1>2, NoneHeld DEF SoundPass
<1>6. CASE x.dry \/ (fresh = {} /\ ~alerts)
  <2>1. pass' = [pass EXCEPT ![r] = NoPass]
    BY <1>3, <1>6
  <2>2. fresh \subseteq excused'
    <3>1. CASE x.dry /\ fresh # {}
      BY <1>3, <3>1, MishapExplains
    <3>2. CASE fresh = {}
      BY <3>2
    <3> QED
      BY <1>6, <3>1, <3>2
  <2> HIDE DEF x, fresh
  <2>3. x = pass[r] /\ fresh = x.fresh
    BY DEF x, fresh
  <2> QED
    BY <1>2, <1>4, <1>5, <2>1, <2>2, <2>3, RunEnds
<1>7. CASE ~(x.dry \/ (fresh = {} /\ ~alerts))
  <2>1. pass' = [pass EXCEPT ![r] = y]
    BY <1>1, <1>3, <1>7
  <2>2. excused' = excused \cup (fresh \ shown)
    BY <1>3, <1>7
  <2>3. shown \subseteq fresh
    BY DEF FitsDigest
  <2>4. Outlets \in Seq(ToSet(Outlets)) /\ Configured \subseteq ToSet(Outlets)
    BY OutletsInOrder
  <2> HIDE DEF shown
  <2>5. /\ y \in PassRecords /\ y.at = "push" /\ y.kept = x.kept /\ y.offers = x.offers
        /\ y.fresh = {} /\ y.shown = shown /\ y.queue = Outlets
    BY <1>1, <2>3, <2>4 DEF PassRecords, Stages
  <2> HIDE DEF y
  <2>6. SoundPass(y, jobs, told, excused')
    BY <1>1, <1>2, <1>5, <2>3, <2>4, <2>5 DEF SoundPass, OutletsOnce
  <2>7. KeepsMail(x, y)
    BY <1>1, <1>2, <1>4, <1>5 DEF KeepsMail, MailGoesOn
  <2>8. \A p, c : MayTell(y, p, c) => MayTell(x, p, c)
    BY <2>3, <2>5 DEF MayTell
  <2>9. \A p \in x.fresh \cup x.shown : p \in y.fresh \cup y.shown \/ p \in excused'
    BY <1>5, <2>2, <2>5
  <2> QED
    BY <1>2, <1>4, <2>1, <2>5, <2>6, <2>7, <2>8, <2>9, QuietStep
<1> QED
  BY <1>6, <1>7

\* A send: the outlet is told what arrived; what did not is explained.
LEMMA PushStep ==
    ASSUME PipeInv, NEW r \in Passes, PushDigest(r)
    PROVE  PipeInv'
<1> DEFINE x == pass[r]
           h == Head(x.queue)
           rest == Tail(x.queue)
           y == [x EXCEPT !.queue = rest]
<1>1. /\ x \in PassRecords /\ SoundPass(x, jobs, told, excused) /\ pass = [q \in Passes |-> pass[q]]
      /\ uids \subseteq DOMAIN Mails /\ x.shown \subseteq Found
  BY PassFacts
<1>2. /\ x.at = "push" /\ x.queue # <<>> /\ h \in Configured
      /\ pass' = [pass EXCEPT ![r].queue = Tail(@)]
      /\ UNCHANGED <<jobs, uids, debut, overlapping>>
  BY DEF PushDigest
<1>3. PICK arrived \in SUBSET x.shown : \E ok \in BOOLEAN :
        /\ ok => arrived = x.shown
        /\ told' = [p \in Found |->
             IF p \in arrived THEN [told[p] EXCEPT ![Head(x.queue)] = @ + 1] ELSE told[p]]
        /\ Mishap(IF ok THEN 0 ELSE 1, x.shown)
  BY DEF PushDigest
<1>4. /\ excused \subseteq excused'
      /\ arrived = x.shown \/ x.shown \subseteq excused'
  <2>1. PICK ok \in BOOLEAN : (ok => arrived = x.shown) /\ Mishap(IF ok THEN 0 ELSE 1, x.shown)
    BY <1>3
  <2>2. CASE ok
    BY <2>1, <2>2, MishapExplains
  <2>3. CASE ~ok
    <3>1. Mishap(1, x.shown)
      BY <2>1, <2>3
    <3> QED
      BY <3>1, MishapExplains
  <2> QED
    BY <2>2, <2>3
<1>5. told \in [Found -> [Configured -> Nat]]
  BY DEF PipeInv, PipeTypes
<1>6. /\ told' \in [Found -> [Configured -> Nat]]
      /\ \A p \in Found \ arrived : told'[p] = told[p]
      /\ \A p \in arrived : told'[p][h] = told[p][h] + 1
      /\ \A p \in arrived, c \in Configured : c # h => told'[p][c] = told[p][c]
  <2>1. told' = [p \in Found |-> IF p \in arrived THEN [told[p] EXCEPT ![h] = @ + 1] ELSE told[p]]
    BY <1>3
  <2>2. h \in Configured /\ arrived \subseteq Found
    BY <1>1, <1>2
  <2> HIDE DEF h, x
  <2> QED
    BY <1>5, <2>1, <2>2
<1>7. pass' = [pass EXCEPT ![r] = y]
  BY <1>1, <1>2
<1>8. /\ rest \in Seq(ToSet(Outlets)) /\ Without(rest) /\ h \notin ToSet(rest)
      /\ ToSet(x.queue) = ToSet(rest) \cup {h}
  <2>1. x.queue \in Seq(ToSet(Outlets)) /\ Without(x.queue)
    BY <1>1, <1>2 DEF PassRecords, SoundPass
  <2> QED
    BY <1>2, <2>1, RestOfQueue
<1> HIDE DEF rest, h
<1>9. /\ y \in PassRecords /\ y.at = x.at /\ y.kept = x.kept /\ y.offers = x.offers
      /\ y.fresh = x.fresh /\ y.shown = x.shown /\ y.queue = rest
  BY <1>1, <1>8 DEF PassRecords
<1> HIDE DEF y
<1>10. \A p \in Found, c \in Configured :
         told[p][c] \in Nat /\ told'[p][c] \in Nat /\ (told[p][c] > 0 => told'[p][c] > 0)
  <2> SUFFICES ASSUME NEW p \in Found, NEW c \in Configured
      PROVE  told[p][c] \in Nat /\ told'[p][c] \in Nat /\ (told[p][c] > 0 => told'[p][c] > 0)
    OBVIOUS
  <2>1. told[p][c] \in Nat
    BY <1>5
  <2>2. told'[p][c] = told[p][c] \/ told'[p][c] = told[p][c] + 1
    BY <1>6
  <2> QED
    BY <2>1, <2>2
<1>11. SoundPass(y, jobs', told', excused')
  <2>1. ASSUME NEW p \in x.shown, NEW c \in Configured
        PROVE  c \in ToSet(rest) \/ told'[p][c] > 0 \/ p \in excused'
    <3>0. p \in Found
      BY <1>1
    <3>1. CASE c = h
      <4>1. CASE p \in arrived
        <5>1. told'[p][h] = told[p][h] + 1 /\ told[p][h] \in Nat
          BY <1>2, <1>6, <1>10, <3>0, <4>1
        <5> QED
          BY <3>1, <5>1
      <4>2. CASE p \notin arrived
        BY <1>4, <4>2
      <4> QED
        BY <4>1, <4>2
    <3>2. CASE c # h
      <4>1. c \in ToSet(x.queue) \/ told[p][c] > 0 \/ p \in excused
        BY <1>1, <1>2 DEF SoundPass
      <4> QED
        BY <1>4, <1>8, <1>10, <3>0, <3>2, <4>1
    <3> QED
      BY <3>1, <3>2
  <2> QED
    BY <1>1, <1>2, <1>8, <1>9, <2>1 DEF SoundPass
<1>12. KeepsMail(x, y)
  <2>1. KeptIn(x) = KeptIn(y) /\ OffersIn(x) = OffersIn(y)
    BY <1>9 DEF KeptIn, OffersIn
  <2> QED
    BY <1>1, <1>2, <1>4, <2>1 DEF KeepsMail, MailGoesOn
<1>13. /\ jobs \in [Found -> Verdicts \cup {None}] /\ debut \in [Found -> Verdicts \cup {None}]
       /\ overlapping \in Nat /\ \A p \in Found : debut[p] = None <=> jobs[p] = None
  BY DEF PipeInv, PipeTypes, SurfacedKept
<1>14. KeepsSurfaced(x, y)
  BY <1>2, <1>9, <1>13 DEF KeepsSurfaced
<1>15. KeepsCrowd(x, y)
  BY <1>2, <1>13 DEF KeepsCrowd
<1>16. KeepsTold(x, y)
  <2>1. \A p \in Found : jobs[p] = None => told'[p] = told[p]
    BY <1>1, <1>6 DEF SoundPass
  <2>2. x.fresh = {}
    BY <1>1, <1>2 DEF SoundPass
  <2>3. \A p, c : MayTell(x, p, c) <=> p \in x.shown /\ c \in ToSet(x.queue)
    BY <1>2, <2>2 DEF MayTell
  <2>4. \A p, c : MayTell(y, p, c) <=> p \in x.shown /\ c \in ToSet(rest)
    BY <1>2, <1>9, <2>2 DEF MayTell
  <2>5. ASSUME NEW p \in Found, NEW c \in Configured
        PROVE  \/ told'[p][c] = told[p][c] /\ (MayTell(y, p, c) => MayTell(x, p, c))
               \/ told'[p][c] = told[p][c] + 1 /\ MayTell(x, p, c) /\ ~MayTell(y, p, c)
    <3>1. CASE p \in arrived /\ c = h
      BY <1>6, <1>8, <2>3, <2>4, <3>1
    <3>2. CASE ~(p \in arrived /\ c = h)
      <4>1. told'[p][c] = told[p][c]
        BY <1>6, <3>2
      <4> QED
        BY <1>8, <2>3, <2>4, <4>1
    <3> QED
      BY <3>1, <3>2
  <2> QED
    BY <1>6, <2>1, <2>5 DEF KeepsTold, ToldGoesOn
<1> QED
  BY <1>2, <1>4, <1>7, <1>9, <1>11, <1>12, <1>13, <1>14, <1>15, <1>16, PassStep

\* The postings of the entries a run has, and of those but the first.
LEMMA RestOfKept ==
    ASSUME NEW x, NEW y, x.kept \in Seq(Decided), x.kept # <<>>, y.kept = Tail(x.kept)
    PROVE  /\ y.kept \in Seq(Decided) /\ Head(x.kept) \in Decided /\ SubjectOf(x) \in Found
           /\ \A p \in KeptIn(x) : p \in KeptIn(y) \/ p = SubjectOf(x)
<1> DEFINE s == x.kept
           t == y.kept
           Of(e) == Copy[e.copy].posting
<1>1. /\ t \in Seq(Decided) /\ Head(s) \in Decided
      /\ Len(t) = Len(s) - 1 /\ \A i \in 1..Len(t) : t[i] = s[i + 1]
  BY HeadTailProperties
<1>2. DOMAIN s = 1..Len(s) /\ DOMAIN t = 1..Len(t) /\ Len(s) \in Nat /\ Len(t) \in Nat
      /\ Head(s) = s[1] /\ 1 \in DOMAIN s
  BY <1>1
<1>3. SubjectOf(x) = Of(s[1]) /\ SubjectOf(x) \in Found
  BY <1>1, <1>2 DEF SubjectOf, Found, Decided
<1>4. KeptIn(x) = {Of(s[i]) : i \in DOMAIN s} /\ KeptIn(y) = {Of(t[i]) : i \in DOMAIN t}
  BY DEF KeptIn
<1> HIDE DEF s, t, Of
<1>5. ASSUME NEW i \in DOMAIN s
      PROVE  Of(s[i]) \in KeptIn(y) \/ Of(s[i]) = SubjectOf(x)
  <2>1. CASE i = 1
    BY <1>3, <2>1
  <2>2. CASE i # 1
    <3>1. i - 1 \in DOMAIN t /\ t[i - 1] = s[i]
      BY <1>1, <1>2, <2>2
    <3> QED
      BY <1>4, <3>1
  <2> QED
    BY <2>1, <2>2
<1>6. \A p \in KeptIn(x) : p \in KeptIn(y) \/ p = SubjectOf(x)
  BY <1>4, <1>5
<1> QED
  BY <1>1, <1>3, <1>6 DEF s, t

\* The upsert: a posting first stored as surfaced was unseen, and is fresh.
LEMMA UpsertStep ==
    ASSUME PipeInv, NEW r \in Passes, Upsert(r)
    PROVE  PipeInv'
<1> DEFINE x == pass[r]
           p == SubjectOf(x)
           v == Head(x.kept).verdict
           left == Tail(x.kept)
           fresh == IF v = "surfaced" /\ x.unseen THEN x.fresh \cup {p} ELSE x.fresh
           y == [x EXCEPT !.at = "look", !.kept = left, !.fresh = fresh]
<1>1. /\ x \in PassRecords /\ SoundPass(x, jobs, told, excused) /\ pass = [q \in Passes |-> pass[q]]
      /\ uids \subseteq DOMAIN Mails /\ x.kept \in Seq(Decided)
      /\ x.fresh \subseteq Found /\ x.shown \subseteq Found
  BY PassFacts
<1>2. x.at = "upsert" /\ x.kept # <<>> /\ (jobs[p] = None => x.unseen) /\ x.shown = {} /\ x.offers = <<>>
  BY <1>1 DEF Upsert, SoundPass
<1>3. /\ jobs' = [jobs EXCEPT ![p] = v]
      /\ debut' = IF debut[p] = None THEN [debut EXCEPT ![p] = v] ELSE debut
      /\ pass' = [pass EXCEPT ![r].at = "look", ![r].kept = Tail(@), ![r].fresh =
           IF v = "surfaced" /\ x.unseen THEN @ \cup {p} ELSE @]
      /\ UNCHANGED <<uids, told, excused, overlapping>>
  BY DEF Upsert, InHand, Subject, SubjectOf
<1>4. left \in Seq(Decided) /\ Head(x.kept) \in Decided /\ p \in Found
  <2> DEFINE z == [kept |-> left]
  <2>1. z.kept = left
    OBVIOUS
  <2> HIDE DEF z
  <2> QED
    BY <1>1, <1>2, <2>1, RestOfKept
<1>5. v \in Verdicts /\ v # None
  BY <1>4, VerdictIsOne DEF Decided
<1>6. pass' = [pass EXCEPT ![r] = y]
  BY <1>1, <1>3
<1>7. fresh \subseteq x.fresh \cup {p} /\ x.fresh \subseteq fresh /\ fresh \subseteq Found
      /\ (p \in fresh => p \in x.fresh \/ x.unseen)
      /\ (v = "surfaced" /\ jobs[p] = None => p \in fresh)
  BY <1>1, <1>2, <1>4
<1> HIDE DEF left, fresh, p, v
<1>8. /\ y \in PassRecords /\ y.at = "look" /\ y.kept = left /\ y.offers = <<>>
      /\ y.fresh = fresh /\ y.shown = {}
  <2>1. fresh \in SUBSET Found
    BY <1>7
  <2> QED
    BY <1>1, <1>2, <1>4, <2>1 DEF PassRecords, Stages
<1> HIDE DEF y
<1>9. /\ jobs \in [Found -> Verdicts \cup {None}] /\ debut \in [Found -> Verdicts \cup {None}]
      /\ told \in [Found -> [Configured -> Nat]] /\ overlapping \in Nat
      /\ \A q \in Found : debut[q] = None <=> jobs[q] = None
  BY DEF PipeInv, PipeTypes, SurfacedKept
<1>10. /\ jobs' \in [Found -> Verdicts \cup {None}] /\ jobs'[p] = v
       /\ \A q \in Found : q # p => jobs'[q] = jobs[q]
       /\ \A q \in Found : jobs[q] # None => jobs'[q] # None
  BY <1>3, <1>4, <1>5, <1>9
<1>11. SoundPass(y, jobs', told', excused')
  <2>1. \A q \in y.fresh \cup y.shown : jobs'[q] # None
    <3>1. \A q \in x.fresh : jobs'[q] # None
      BY <1>1, <1>10 DEF SoundPass
    <3> QED
      BY <1>5, <1>7, <1>8, <1>10, <3>1
  <2> QED
    BY <1>8, <2>1 DEF SoundPass
<1>12. KeepsMail(x, y)
  <2>1. \A q \in KeptIn(x) : q \in KeptIn(y) \/ q = p
    BY <1>1, <1>2, <1>8, RestOfKept DEF left, p
  <2>2. OffersIn(x) = {}
    BY <1>2, NoneHeld
  <2> QED
    BY <1>1, <1>3, <1>5, <1>10, <2>1, <2>2 DEF KeepsMail, MailGoesOn
<1>13. KeepsSurfaced(x, y)
  <2>1. debut' \in [Found -> Verdicts \cup {None}]
    BY <1>3, <1>4, <1>5, <1>9
  <2>2. \A q \in Found : q # p => debut'[q] = debut[q]
    BY <1>3, <1>9
  <2>3. IF jobs[p] = None THEN debut'[p] = v ELSE debut'[p] = debut[p] /\ debut[p] # None
    BY <1>3, <1>4, <1>9
  <2>4. \A q \in Found : debut'[q] = None <=> jobs'[q] = None
    BY <1>4, <1>5, <1>9, <1>10, <2>2, <2>3
  <2>5. \A q \in Found : debut'[q] = "surfaced" => debut[q] = "surfaced" \/ q \in y.fresh \cup y.shown
    BY <1>7, <1>8, <2>2, <2>3
  <2>6. x.fresh \cup x.shown \subseteq y.fresh \cup y.shown
    BY <1>2, <1>7, <1>8
  <2> QED
    BY <2>1, <2>4, <2>5, <2>6 DEF KeepsSurfaced
<1>14. KeepsCrowd(x, y)
  BY <1>2, <1>3, <1>9 DEF KeepsCrowd
<1>15. KeepsTold(x, y)
  <2>1. \A q, c : MayTell(y, q, c) => MayTell(x, q, c)
    <3> SUFFICES ASSUME NEW q, NEW c, MayTell(y, q, c) PROVE MayTell(x, q, c)
      OBVIOUS
    <3>1. q \in fresh
      BY <1>8 DEF MayTell
    <3>2. q \in x.fresh \/ (q = p /\ x.unseen)
      BY <1>7, <3>1
    <3> QED
      BY <1>2, <3>2 DEF MayTell, p
  <2> QED
    BY <1>3, <1>9, <2>1 DEF KeepsTold, ToldGoesOn
<1> QED
  BY <1>3, <1>6, <1>8, <1>10, <1>11, <1>12, <1>13, <1>14, <1>15, PassStep

\* The entries kept of some records, each with a verdict.
IsJudged(judged, raw) ==
    /\ DOMAIN judged = 1..Cardinality(Dedupe(raw)) /\ judged = [i \in DOMAIN judged |-> judged[i]]
    /\ \A i \in DOMAIN judged : \E v \in Verdicts :
         judged[i] = [copy |-> InIdOrder(Dedupe(raw))[i].copy,
                      seen |-> InIdOrder(Dedupe(raw))[i].seen, verdict |-> v]

\* What is decided on: every record of the mail and of the boards is among it.
LEMMA DecidedKeepsAll ==
    ASSUME NEW raw \in Seq(DOMAIN Copy), NEW judged, IsJudged(judged, raw)
    PROVE  /\ judged \in Seq(Decided)
           /\ \A i \in DOMAIN raw : \E j \in DOMAIN judged :
                Copy[judged[j].copy].posting = Copy[raw[i]].posting
<1> DEFINE kept == Dedupe(raw)
           N == Cardinality(kept)
           order == InIdOrder(kept)
<1>1. Deduped(kept, raw, Len(raw))
  BY DedupeKeepsAll
<1> HIDE DEF kept
<1>2. Apart(kept) /\ \A i \in 1..Len(raw) : \E e \in kept : PostingOf(e) = Copy[raw[i]].posting
  BY <1>1 DEF Deduped
<1>3. /\ N \in Nat /\ order \in [1..N -> kept]
      /\ \A e \in kept : \E i \in 1..N : order[i] = e
  BY <1>2, OrderIsComplete
<1>4. kept \subseteq Records
  BY <1>2 DEF Apart
<1>5. /\ DOMAIN judged = 1..N
      /\ \A i \in 1..N : \E v \in Verdicts :
           judged[i] = [copy |-> order[i].copy, seen |-> order[i].seen, verdict |-> v]
  BY DEF kept, IsJudged
<1> HIDE DEF N, order
<1>6. \A i \in 1..N : judged[i] \in Decided /\ judged[i].copy = order[i].copy
  <2> SUFFICES ASSUME NEW i \in 1..N PROVE judged[i] \in Decided /\ judged[i].copy = order[i].copy
    OBVIOUS
  <2>1. order[i] \in Records
    BY <1>3, <1>4
  <2>2. PICK v \in Verdicts :
          judged[i] = [copy |-> order[i].copy, seen |-> order[i].seen, verdict |-> v]
    BY <1>5
  <2>3. order[i].copy \in DOMAIN Copy /\ order[i].seen \in SUBSET Sources
    BY <2>1 DEF Records
  <2> QED
    BY <2>2, <2>3 DEF Decided
<1>7. judged \in Seq(Decided)
  <2>1. judged \in [1..N -> Decided]
    BY <1>5, <1>6 DEF IsJudged
  <2> QED
    BY <1>3, <2>1
<1>8. ASSUME NEW i \in DOMAIN raw
      PROVE  \E j \in DOMAIN judged : Copy[judged[j].copy].posting = Copy[raw[i]].posting
  <2>1. i \in 1..Len(raw)
    OBVIOUS
  <2>2. PICK e \in kept : PostingOf(e) = Copy[raw[i]].posting
    BY <1>2, <2>1
  <2>3. PICK j \in 1..N : order[j] = e
    BY <1>3
  <2>4. judged[j].copy = e.copy /\ j \in DOMAIN judged
    BY <1>5, <1>6, <2>3
  <2> QED
    BY <2>2, <2>4 DEF PostingOf
<1> QED
  BY <1>7, <1>8

\* A limit leaves a sequence or its beginning.
LEMMA CutIsShort ==
    ASSUME NEW cut \in Cuts \cup {None}, NEW offers \in Seq(DOMAIN Copy)
    PROVE  Cut(cut, offers) \in Seq(DOMAIN Copy)
<1>1. CASE cut = None \/ Len(offers) <= cut
  BY <1>1 DEF Cut
<1>2. CASE ~(cut = None \/ Len(offers) <= cut)
  <2>1. cut \in Nat /\ cut < Len(offers) /\ Len(offers) \in Nat
    BY <1>2, CutsAreNumbers
  <2>2. \A i \in 1..cut : offers[i] \in DOMAIN Copy
    BY <2>1
  <2>3. SubSeq(offers, 1, cut) \in Seq(DOMAIN Copy)
    BY <2>1, <2>2, SubSeqProperties
  <2> QED
    BY <1>2, <2>3 DEF Cut
<1> QED
  BY <1>1, <1>2

\* The evaluation: an offer is decided on, or the limit explains it.
LEMMA EvaluateStep ==
    ASSUME PipeInv, NEW r \in Passes, Evaluate(r)
    PROVE  PipeInv'
<1> DEFINE x == pass[r]
           mail == Cut(x.cut, x.offers)
           Gates(k, scams) == Copy[k].gates \cup
             IF Copy[k].doubtful /\ Copy[k].posting \in scams THEN {"scam"} ELSE {}
           Judged(kept, scams) ==
             [i \in 1..Cardinality(kept) |->
               LET e == InIdOrder(kept)[i] IN
               [copy |-> e.copy, seen |-> e.seen, verdict |-> Verdict(Gates(e.copy, scams))]]
<1>1. /\ x \in PassRecords /\ SoundPass(x, jobs, told, excused) /\ pass = [q \in Passes |-> pass[q]]
      /\ uids \subseteq DOMAIN Mails /\ x.offers \in Seq(DOMAIN Copy)
  BY PassFacts
<1>2. /\ x.at = "fetch" /\ UNCHANGED <<jobs, uids, debut, told, overlapping>>
  BY DEF Evaluate
<1>3. PICK listed \in SUBSET Boarded : \E boards \in SetToSeqs(listed), scams \in SUBSET Found :
        /\ pass' = [pass EXCEPT ![r].at = "look", ![r].offers = <<>>,
                      ![r].kept = Judged(Dedupe(mail \o boards), scams)]
        /\ Mishap(IF mail = x.offers THEN 0 ELSE 1, OfPass(r))
  BY Zenon DEF Evaluate
<1>4. PICK boards \in SetToSeqs(listed) : \E scams \in SUBSET Found :
        /\ pass' = [pass EXCEPT ![r].at = "look", ![r].offers = <<>>,
                      ![r].kept = Judged(Dedupe(mail \o boards), scams)]
        /\ Mishap(IF mail = x.offers THEN 0 ELSE 1, OfPass(r))
  BY <1>3, Zenon
<1>5. PICK scams \in SUBSET Found :
        /\ pass' = [pass EXCEPT ![r].at = "look", ![r].offers = <<>>,
                      ![r].kept = Judged(Dedupe(mail \o boards), scams)]
        /\ Mishap(IF mail = x.offers THEN 0 ELSE 1, OfPass(r))
  BY <1>4, Zenon
<1> DEFINE raw == mail \o boards
           judged == Judged(Dedupe(raw), scams)
           y == [x EXCEPT !.at = "look", !.offers = <<>>, !.kept = judged]
<1>6. mail \in Seq(DOMAIN Copy)
  <2>1. x.cut \in Cuts \cup {None}
    BY <1>1 DEF PassRecords
  <2> QED
    BY <1>1, <2>1, CutIsShort
<1>7. boards \in Seq(DOMAIN Copy)
  <2>1. listed \subseteq DOMAIN Copy
    BY DEF Boarded
  <2>2. IsFiniteSet(listed)
    BY <2>1, PostingsInOrder, FS_Subset
  <2>3. Cardinality(listed) \in Nat
    BY <2>2, FS_CardinalityType
  <2>4. boards \in [1..Cardinality(listed) -> listed]
    BY DEF SetToSeqs
  <2> QED
    BY <2>1, <2>3, <2>4
<1> HIDE DEF mail
<1>8. /\ raw \in Seq(DOMAIN Copy)
      /\ \A i \in DOMAIN mail : i \in DOMAIN raw /\ raw[i] = mail[i]
  BY <1>6, <1>7
<1> HIDE DEF raw
<1>9. IsJudged(judged, raw)
  <2> HIDE DEF Gates
  <2>1. DOMAIN judged = 1..Cardinality(Dedupe(raw)) /\ judged = [i \in DOMAIN judged |-> judged[i]]
    OBVIOUS
  <2>2. \A i \in 1..Cardinality(Dedupe(raw)) :
          judged[i] = [copy |-> InIdOrder(Dedupe(raw))[i].copy,
                       seen |-> InIdOrder(Dedupe(raw))[i].seen,
                       verdict |-> Verdict(Gates(InIdOrder(Dedupe(raw))[i].copy, scams))]
    OBVIOUS
  <2> HIDE DEF judged
  <2> QED
    BY <2>1, <2>2, VerdictIsOne DEF IsJudged
<1>10. pass' = [pass EXCEPT ![r].at = "look", ![r].offers = <<>>, ![r].kept = judged]
       /\ Mishap(IF mail = x.offers THEN 0 ELSE 1, OfPass(r))
  BY <1>5 DEF raw
<1> HIDE DEF judged, Judged, Gates
<1>11. /\ judged \in Seq(Decided)
       /\ \A i \in DOMAIN raw : \E j \in DOMAIN judged :
            Copy[judged[j].copy].posting = Copy[raw[i]].posting
  BY <1>8, <1>9, DecidedKeepsAll
<1>12. pass' = [pass EXCEPT ![r] = y]
  BY <1>1, <1>10
<1>13. /\ y \in PassRecords /\ y.at = "look" /\ y.kept = judged /\ y.offers = <<>>
       /\ y.fresh = x.fresh /\ y.shown = x.shown
  <2> DEFINE none == <<>>
             after == [x EXCEPT !.at = "look", !.offers = none, !.kept = judged]
  <2>1. none \in Seq(DOMAIN Copy) /\ none = <<>> /\ y = after
    OBVIOUS
  <2> HIDE DEF none
  <2>2. /\ after \in PassRecords /\ after.at = "look" /\ after.kept = judged
        /\ after.offers = none /\ after.fresh = x.fresh /\ after.shown = x.shown
    BY <1>1, <1>11, <2>1 DEF PassRecords, Stages
  <2> HIDE DEF after, y
  <2> QED
    BY <2>1, <2>2
<1> HIDE DEF y
<1>14. excused \subseteq excused' /\ (mail # x.offers => OffersIn(x) \subseteq excused')
  <2> DEFINE n == IF mail = x.offers THEN 0 ELSE 1
  <2>1. excused \subseteq excused' /\ (n # 0 => OfPass(r) \subseteq excused')
    BY <1>10, MishapExplains
  <2> QED
    BY <2>1, HeldByPass
<1>15. SoundPass(y, jobs, told, excused')
  BY <1>1, <1>2, <1>13 DEF SoundPass
<1>16. KeepsMail(x, y)
  <2>1. KeptIn(x) = {}
    BY <1>1, <1>2, NoneHeld DEF SoundPass
  <2>2. OffersIn(x) \subseteq KeptIn(y) \/ OffersIn(x) \subseteq excused'
    <3>1. CASE mail # x.offers
      BY <1>14, <3>1
    <3>2. CASE mail = x.offers
      <4>1. OffersIn(x) = {Copy[mail[i]].posting : i \in DOMAIN mail}
        BY <3>2 DEF OffersIn, ToSet
      <4>2. KeptIn(y) = {Copy[judged[j].copy].posting : j \in DOMAIN judged}
        BY <1>13 DEF KeptIn
      <4>3. \A i \in DOMAIN mail : Copy[mail[i]].posting \in KeptIn(y)
        BY <1>8, <1>11, <4>2
      <4> QED
        BY <4>1, <4>3
    <3> QED
      BY <3>1, <3>2
  <2> QED
    BY <1>1, <1>2, <1>14, <2>1, <2>2 DEF KeepsMail, MailGoesOn
<1>17. \A p, c : MayTell(y, p, c) => MayTell(x, p, c)
  BY <1>1, <1>2, <1>13 DEF MayTell, SoundPass
<1> QED
  BY <1>2, <1>12, <1>13, <1>14, <1>15, <1>16, <1>17, QuietStep

\* The invariant holds at first and is kept by every step.
LEMMA PipeInvInductive ==
    ASSUME OutletsOnce
    PROVE  PipeSpec => []PipeInv
<1>1. PipeInit => PipeInv
  <2> SUFFICES ASSUME PipeInit PROVE PipeInv
    OBVIOUS
  <2>1. /\ jobs = [p \in Found |-> None] /\ debut = [p \in Found |-> None]
        /\ uids = {} /\ excused = {} /\ pass = [r \in Passes |-> NoPass] /\ overlapping = 0
        /\ told = [p \in Found |-> [c \in Configured |-> 0]]
    BY DEF PipeInit
  <2>2. \A r \in Passes : pass[r] = NoPass
    BY <2>1
  <2>3. Afoot(pass) = {}
    BY <2>2, NoPassIsEmpty DEF Afoot
  <2>4. PipeTypes
    BY <2>1, NoPassIsEmpty DEF PipeTypes
  <2>5. \A q \in Passes : SoundPass(pass[q], jobs, told, excused)
    BY <2>2, NoPassIsEmpty
  <2>6. MailKept(uids, jobs, excused, pass)
    BY <2>1 DEF MailKept
  <2>7. SurfacedKept(debut, jobs, told, excused, pass)
    <3>1. \A p \in Found : jobs[p] = None /\ debut[p] = None
      BY <2>1
    <3> QED
      BY <3>1, NoneIsNoVerdict DEF SurfacedKept
  <2>8. CrowdKept(pass, overlapping)
    BY <2>1, <2>3, FS_EmptySet DEF CrowdKept
  <2>9. ToldKept(jobs, told, overlapping, pass)
    BY <2>1 DEF ToldKept
  <2> QED
    BY <2>4, <2>5, <2>6, <2>7, <2>8, <2>9 DEF PipeInv
<1>2. PipeInv /\ [PipeNext]_pipeVars => PipeInv'
  <2> SUFFICES ASSUME PipeInv, [PipeNext]_pipeVars PROVE PipeInv'
    OBVIOUS
  <2>1. ASSUME NEW r \in Passes,
               \/ BeginPass(r) \/ ReadMail(r) \/ MailBreaks(r) \/ Evaluate(r) \/ Look(r) \/ Upsert(r)
               \/ ComposeDigest(r) \/ SkipOutlet(r) \/ PushDigest(r) \/ EndPass(r) \/ PassCrash(r)
        PROVE  PipeInv'
    BY <2>1, BeginStep, ReadStep, BreakStep, EvaluateStep, LookStep, UpsertStep, ComposeStep,
       SkipStep, PushStep, EndStep
  <2>2. CASE UNCHANGED pipeVars
    BY <2>2 DEF pipeVars, PipeInv, PipeTypes
  <2> QED
    BY <2>1, <2>2 DEF PipeNext
<1> QED
  BY <1>1, <1>2, PTL DEF PipeSpec

\* What the invariant says of losses and repeats.
LEMMA InvTells == PipeInv => ToldOnceOrExplained
<1> SUFFICES ASSUME PipeInv PROVE ToldOnceOrExplained
  OBVIOUS
<1> DEFINE held == (UNION {OfPass(r) : r \in Passes}) \cup excused
<1>1. \A q \in Passes : \A p :
        p \in OffersIn(pass[q]) \cup KeptIn(pass[q]) \cup pass[q].fresh \cup pass[q].shown => p \in held
  BY HeldByPass
<1>2. excused \subseteq held
  OBVIOUS
<1> HIDE DEF held
<1>3. ASSUME NEW m \in uids, Mails[m] # None
      PROVE  jobs[Copy[Mails[m]].posting] # None \/ Copy[Mails[m]].posting \in held
  <2> DEFINE p == Copy[Mails[m]].posting
  <2>1. jobs[p] # None \/ p \in excused
        \/ \E q \in Passes : p \in OffersIn(pass[q]) \cup KeptIn(pass[q])
    BY <1>3 DEF PipeInv, MailKept
  <2> HIDE DEF p
  <2>2. jobs[p] # None \/ p \in held
    BY <1>1, <1>2, <2>1
  <2> QED
    BY <2>2 DEF p
<1>4. ASSUME NEW p \in Found \ held, debut[p] = "surfaced", NEW c \in Configured
      PROVE  told[p][c] > 0
  <2>1. \/ p \in excused
        \/ \E q \in Passes : p \in pass[q].fresh \cup pass[q].shown
        \/ \A d \in Configured : told[p][d] > 0
    BY <1>4 DEF PipeInv, SurfacedKept
  <2> QED
    BY <1>1, <1>2, <2>1
<1>5. ASSUME NEW p \in Found, NEW c \in Configured
      PROVE  told[p][c] <= 1 + overlapping
  <2>1. told[p][c] \in Nat /\ overlapping \in Nat
    BY DEF PipeInv, PipeTypes
  <2>2. /\ jobs[p] = None => told[p][c] = 0
        /\ jobs[p] # None => told[p][c] + Cardinality(Tellers(pass, p, c)) <= 1 + overlapping
    BY DEF PipeInv, ToldKept
  <2>3. IsFiniteSet(Tellers(pass, p, c))
    <3>1. Tellers(pass, p, c) \subseteq Passes
      BY DEF Tellers
    <3> QED
      BY <3>1, PassesAreFew, FS_Subset
  <2>4. Cardinality(Tellers(pass, p, c)) \in Nat
    BY <2>3, FS_CardinalityType
  <2> QED
    BY <2>1, <2>2, <2>4
<1>6. ToldOnceOrExplained = (
        /\ \A m \in uids : Mails[m] # None =>
             jobs[Copy[Mails[m]].posting] # None \/ Copy[Mails[m]].posting \in held
        /\ \A p \in Found \ held : debut[p] = "surfaced" => \A c \in Configured : told[p][c] > 0
        /\ \A p \in Found, c \in Configured : told[p][c] <= 1 + overlapping)
  BY Zenon DEF ToldOnceOrExplained, held
<1> QED
  BY <1>3, <1>4, <1>5, <1>6

\* No posting is lost or told twice without a reason: an offer whose mail was
\* marked is stored, with a run, or explained; a posting surfaced when first
\* stored was told to every outlet, is with a run, or is explained; and an
\* outlet is told of it at most once more than runs have overlapped.
THEOREM NewsToldOnce ==
    ASSUME OutletsOnce
    PROVE  PipeSpec => []ToldOnceOrExplained
<1>1. PipeSpec => []PipeInv
  BY PipeInvInductive
<1> QED
  BY <1>1, InvTells, PTL

----------------------------------------------------------------------------
(* The digest.  A pass over a list is a function of the number of entries  *)
(* taken; a ledger that is right about the postings settled so far stays   *)
(* right with each entry, and the order in which a digest is filled makes  *)
(* what is shown already the postings that come before.                    *)
\* A walk over a list under way.
IsWalking(g, list, of, page, line, k) ==
    /\ g = [n \in 0..k |-> g[n]] /\ g[0] = page
    /\ \A n \in 1..k : g[n] = TakeUp(list, of, g[n - 1], line[n])
\* There is one to the end of the list: one that reached a place reaches the next.
LEMMA WalkExists ==
    ASSUME NEW list, NEW of, NEW page, NEW line, NEW N \in Nat
    PROVE  \E g : IsWalking(g, list, of, page, line, N)
<1> DEFINE Is(g, k) == IsWalking(g, list, of, page, line, k)
           S == {k \in 0..N : \E g : Is(g, k)}
<1>1. 0 \in S
  <2> DEFINE g == [n \in 0..0 |-> page]
  <2>1. g = [n \in 0..0 |-> g[n]] /\ g[0] = page
    OBVIOUS
  <2> HIDE DEF g
  <2>2. Is(g, 0)
    BY <2>1 DEF IsWalking
  <2> QED
    BY <2>2
<1>2. ASSUME NEW k \in 0..N, k < N, k \in S PROVE k + 1 \in S
  <2>1. PICK g : Is(g, k)
    BY <1>2
  <2> DEFINE step == TakeUp(list, of, g[k], line[k + 1])
             h == [n \in 0..(k + 1) |-> IF n <= k THEN g[n] ELSE step]
  <2>2. h = [n \in 0..(k + 1) |-> h[n]] /\ h[k + 1] = step /\ \A n \in 0..k : h[n] = g[n]
    OBVIOUS
  <2>3. step = TakeUp(list, of, g[k], line[k + 1])
    OBVIOUS
  <2> HIDE DEF h, step
  <2>4. h[0] = page
    <3>1. 0 \in 0..k
      OBVIOUS
    <3>2. h[0] = g[0]
      BY <2>2, <3>1
    <3>3. g[0] = page
      BY <2>1 DEF IsWalking
    <3> QED
      BY <3>2, <3>3
  <2>5. ASSUME NEW n \in 1..(k + 1) PROVE h[n] = TakeUp(list, of, h[n - 1], line[n])
    <3>4. n - 1 \in 0..k
      OBVIOUS
    <3>1. n - 1 \in 0..k /\ h[n - 1] = g[n - 1]
      BY <2>2, <3>4
    <3>2. CASE n = k + 1
      <4>1. h[n - 1] = g[k]
        BY <3>1, <3>2
      <4> QED
        BY <2>2, <2>3, <3>2, <4>1
    <3>3. CASE n # k + 1
      <4>1. n \in 1..k /\ h[n] = g[n]
        BY <2>2, <3>3
      <4> QED
        BY <2>1, <3>1, <4>1 DEF IsWalking
    <3> QED
      BY <3>2, <3>3
  <2>6. Is(h, k + 1)
    BY <2>2, <2>4, <2>5 DEF IsWalking
  <2>7. k + 1 \in 0..N
    BY <1>2
  <2> HIDE DEF Is
  <2> QED
    BY <2>6, <2>7
<1> HIDE DEF S
<1>3. N \in S
  BY <1>1, <1>2, ReachesAll
<1> QED
  BY <1>3 DEF S

\* What a walk returns is what there is after the last entry.
LEMMA WalkedInTurn ==
    ASSUME NEW list, NEW of, NEW page, NEW line, Len(line) \in Nat
    PROVE  \E g : /\ IsWalking(g, list, of, page, line, Len(line))
                  /\ Walk(list, of, page, line) = g[Len(line)]
<1> DEFINE N == Len(line)
           Eq(g) == g = [n \in 0..N |-> IF n = 0 THEN page ELSE TakeUp(list, of, g[n - 1], line[n])]
           upTo == CHOOSE g : Eq(g)
<1>1. Walk(list, of, page, line) = upTo[N]
  BY Zenon DEF Walk
<1> HIDE DEF N
<1>2. PICK f : IsWalking(f, list, of, page, line, N)
  BY WalkExists DEF N
<1>3. Eq(f)
  <2>1. /\ f = [n \in 0..N |-> f[n]] /\ f[0] = page
        /\ \A n \in 1..N : f[n] = TakeUp(list, of, f[n - 1], line[n])
    BY <1>2 DEF IsWalking
  <2>2. \A n \in 0..N : n # 0 => n \in 1..N
    OBVIOUS
  <2> QED
    BY <2>1, <2>2
<1> HIDE DEF Eq
<1>4. Eq(upTo)
  BY <1>3, Zenon
<1> HIDE DEF upTo
<1>5. \A n \in 0..N : upTo[n] = IF n = 0 THEN page ELSE TakeUp(list, of, upTo[n - 1], line[n])
  BY <1>4 DEF Eq
<1>6. upTo = [n \in 0..N |-> upTo[n]]
  BY <1>4 DEF Eq
<1>7. IsWalking(upTo, list, of, page, line, N)
  <2>1. \A n \in 1..N : n \in 0..N /\ n # 0
    BY DEF N
  <2>2. 0 \in 0..N
    BY DEF N
  <2> QED
    BY <1>5, <1>6, <2>1, <2>2, Zenon DEF IsWalking
<1> QED
  BY <1>1, <1>7 DEF N

\* The postings in their order: each has a place, and a later place is a higher number.
LEMMA OrderRises ==
    ASSUME NEW S \in SUBSET Openings
    PROVE  /\ Cardinality(S) \in Nat /\ InOrderOf(S) \in [1..Cardinality(S) -> S]
           /\ \A o \in S : \E i \in 1..Cardinality(S) : InOrderOf(S)[i] = o
           /\ \A i, j \in 1..Cardinality(S) : i < j => InOrderOf(S)[i] < InOrderOf(S)[j]
<1> DEFINE N == Cardinality(S)
           Below(e) == {k \in S : k <= e}
           place == [e \in S |-> Cardinality(Below(e))]
           line == InOrderOf(S)
<1>1. IsFiniteSet(S) /\ S \subseteq Nat
  BY OpeningsInOrder, FS_Subset
<1>3. N \in Nat /\ N >= 0
  BY <1>1, FS_CardinalityType
<1>4. \A e \in S : place[e] = Cardinality(Below(e))
  OBVIOUS
<1>5. ASSUME NEW e \in S
      PROVE  place[e] \in 1..N /\ IsFiniteSet(Below(e))
  <2>1. Below(e) \subseteq S /\ e \in Below(e)
    BY <1>1
  <2>2. IsFiniteSet(Below(e)) /\ Cardinality(Below(e)) <= N
    BY <1>1, <2>1, FS_Subset
  <2>3. Cardinality(Below(e)) \in Nat /\ Cardinality(Below(e)) # 0
    BY <2>1, <2>2, FS_CardinalityType, FS_EmptySet
  <2> HIDE DEF place, Below
  <2> QED
    BY <1>3, <1>4, <2>2, <2>3
<1>6. ASSUME NEW d \in S, NEW e \in S, d <= e
      PROVE  place[d] <= place[e] /\ (place[d] = place[e] => d = e)
  <2>0. d \in Nat /\ e \in Nat /\ \A k \in S : k \in Nat
    BY <1>1
  <2>8. \A k \in S : k <= d => k <= e
    BY <1>6, <2>0
  <2>9. e <= e
    BY <2>0
  <2>1. Below(d) \subseteq Below(e) /\ e \in Below(e)
    BY <2>8, <2>9
  <2>2. e \in Below(d) => e <= d
    OBVIOUS
  <2>3. IsFiniteSet(Below(e))
    BY <1>5
  <2> HIDE DEF Below
  <2>4. /\ Cardinality(Below(d)) <= Cardinality(Below(e))
        /\ Cardinality(Below(e)) = Cardinality(Below(d)) => Below(e) = Below(d)
    BY <2>1, <2>3, FS_Subset
  <2>5. place[d] <= place[e] /\ (place[d] = place[e] => e <= d)
    <3> HIDE DEF place
    <3> QED
      BY <1>4, <2>1, <2>2, <2>4
  <2> QED
    BY <1>1, <1>6, <2>5
<1> HIDE DEF place
<1>7. \A d, e \in S : place[d] = place[e] => d = e
  <2> SUFFICES ASSUME NEW d \in S, NEW e \in S, place[d] = place[e] PROVE d = e
    OBVIOUS
  <2>1. d <= e \/ e <= d
    BY <1>1
  <2> QED
    BY <1>6, <2>1
<1>8. place \in Injection(S, 1..N)
  <2>1. place \in [S -> 1..N]
    BY <1>5 DEF place
  <2> QED
    BY <1>7, <2>1 DEF Injection, IsInjective
<1>9. IsFiniteSet(1..N) /\ Cardinality(1..N) = N
  BY <1>3, FS_Interval
<1>10. place \in Surjection(S, 1..N)
  BY <1>8, <1>9, FS_Injection
<1>11. \A i \in 1..N : \E e \in S : place[e] = i
  BY <1>10 DEF Surjection
<1>12. \A i \in 1..N : line[i] = CHOOSE e \in S : place[e] = i
  BY DEF InOrderOf, place
<1>13. \A i \in 1..N : line[i] \in S /\ place[line[i]] = i
  BY <1>11, <1>12
<1>14. line = [i \in 1..N |-> line[i]]
  BY DEF InOrderOf
<1> HIDE DEF line
<1>15. \A e \in S : line[place[e]] = e
  BY <1>5, <1>7, <1>13
<1>16. ASSUME NEW i \in 1..N, NEW j \in 1..N, i < j
       PROVE  line[i] < line[j]
  <2>1. line[i] \in S /\ line[j] \in S /\ place[line[i]] = i /\ place[line[j]] = j
    BY <1>13
  <2>2. line[j] <= line[i] => j <= i
    <3> SUFFICES ASSUME line[j] <= line[i] PROVE j <= i
      OBVIOUS
    <3>1. place[line[j]] <= place[line[i]]
      BY <1>6, <2>1
    <3> QED
      BY <2>1, <3>1
  <2>3. line[i] \in Nat /\ line[j] \in Nat
    BY <1>1, <2>1
  <2>4. ~(j <= i)
    BY <1>16
  <2>5. ~(line[j] <= line[i])
    BY <2>2, <2>4
  <2> DEFINE a == line[i]
             b == line[j]
  <2>6. a \in Nat /\ b \in Nat /\ ~(b <= a)
    BY <2>3, <2>5
  <2> HIDE DEF a, b
  <2>7. a < b
    BY <2>6
  <2> QED
    BY <2>7 DEF a, b
<1> QED
  BY <1>3, <1>5, <1>13, <1>14, <1>15, <1>16 DEF line

\* A list of some postings, each once, in the order in which they come before another.
LineOf(line, T) ==
    /\ line \in Seq(T) /\ T \subseteq Openings
    /\ \A o \in T : \E i \in DOMAIN line : line[i] = o
    /\ \A i, j \in DOMAIN line : i < j => Before(line[i], line[j])
Taken(line, n) == {line[i] : i \in 1..n}

\* No posting comes before itself.
LEMMA BeforeIsStrict == \A o \in Openings : ~Before(o, o)
<1> SUFFICES ASSUME NEW o \in Openings PROVE ~Before(o, o)
  OBVIOUS
<1>1. o \in Nat
  BY OpeningsInOrder
<1>2. FillTurn(o) \in Nat
  BY DEF FillTurn
<1> QED
  BY <1>1, <1>2 DEF Before

\* The entries taken so far, the next, and all.
LEMMA TakenInTurn ==
    ASSUME NEW T, NEW line, LineOf(line, T)
    PROVE  /\ Len(line) \in Nat /\ Taken(line, 0) = {} /\ Taken(line, Len(line)) = T
           /\ \A n \in 0..Len(line) : n < Len(line) =>
                /\ line[n + 1] \in T /\ line[n + 1] \notin Taken(line, n)
                /\ Taken(line, n + 1) = Taken(line, n) \cup {line[n + 1]}
                /\ \A k \in Taken(line, n) : Before(k, line[n + 1])
                /\ \A k \in T \ Taken(line, n + 1) : Before(line[n + 1], k)
           /\ \A n \in 0..Len(line) : Taken(line, n) \subseteq T
<1>1. /\ line \in Seq(T) /\ T \subseteq Openings
      /\ \A o \in T : \E i \in DOMAIN line : line[i] = o
      /\ \A i, j \in DOMAIN line : i < j => Before(line[i], line[j])
  BY DEF LineOf
<1>2. DOMAIN line = 1..Len(line) /\ Len(line) \in Nat /\ \A i \in DOMAIN line : line[i] \in T
  BY <1>1
<1>3. Taken(line, 0) = {}
  BY DEF Taken
<1>4. Taken(line, Len(line)) = T
  BY <1>1, <1>2 DEF Taken
<1>5. ASSUME NEW n \in 0..Len(line), n < Len(line)
      PROVE  /\ line[n + 1] \in T /\ line[n + 1] \notin Taken(line, n)
             /\ Taken(line, n + 1) = Taken(line, n) \cup {line[n + 1]}
             /\ \A k \in Taken(line, n) : Before(k, line[n + 1])
             /\ \A k \in T \ Taken(line, n + 1) : Before(line[n + 1], k)
  <2>1. n + 1 \in DOMAIN line /\ \A i \in 1..n : i \in DOMAIN line /\ i < n + 1
    BY <1>2, <1>5
  <2>2. \A i \in 1..(n + 1) : i \in 1..n \/ i = n + 1
    OBVIOUS
  <2>3. n + 1 \in 1..(n + 1) /\ \A i \in 1..n : i \in 1..(n + 1)
    OBVIOUS
  <2>4. \A k \in Taken(line, n) : Before(k, line[n + 1])
    BY <1>1, <2>1 DEF Taken
  <2>5. Taken(line, n + 1) = Taken(line, n) \cup {line[n + 1]}
    BY <2>2, <2>3 DEF Taken
  <2>6. line[n + 1] \in T
    BY <1>2, <2>1
  <2>7. line[n + 1] \notin Taken(line, n)
    BY <1>1, <2>4, <2>6, BeforeIsStrict
  <2>8. ASSUME NEW k \in T \ Taken(line, n + 1) PROVE Before(line[n + 1], k)
    <3>1. PICK i \in DOMAIN line : line[i] = k
      BY <1>1
    <3>2. i \notin 1..(n + 1)
      BY <3>1 DEF Taken
    <3>3. n + 1 < i
      BY <1>2, <3>2
    <3> QED
      BY <1>1, <2>1, <3>1, <3>3
  <2> QED
    BY <2>4, <2>5, <2>6, <2>7, <2>8
<1>6. \A n \in 0..Len(line) : Taken(line, n) \subseteq T
  BY <1>2 DEF Taken
<1> QED
  BY <1>2, <1>3, <1>4, <1>5, <1>6

\* A list without repetition is as long as it has entries.
LEMMA CountListed ==
    ASSUME NEW X, NEW s \in Seq(X), ShownOnce(s)
    PROVE  /\ IsFiniteSet(ToSet(s)) /\ Cardinality(ToSet(s)) = Len(s) /\ Len(s) \in Nat
           /\ ToSet(s) \subseteq X
<1> DEFINE N == Len(s)
           T == ToSet(s)
           f == [i \in 1..N |-> s[i]]
<1>1. N \in Nat /\ DOMAIN s = 1..N /\ \A i \in 1..N : s[i] \in X
  OBVIOUS
<1>2. T = {s[i] : i \in 1..N}
  BY <1>1 DEF ToSet
<1>3. \A i \in 1..N : f[i] = s[i] /\ f[i] \in T
  BY <1>2
<1>4. f \in [1..N -> T]
  BY <1>3
<1>5. \A i, j \in 1..N : s[i] = s[j] => i = j
  BY <1>1 DEF ShownOnce
<1> HIDE DEF N, T
<1>6. \A t \in T : \E i \in 1..N : f[i] = t
  BY <1>2
<1> HIDE DEF f
<1>7. f \in Injection(1..N, T) /\ f \in Surjection(1..N, T)
  BY <1>3, <1>4, <1>5, <1>6 DEF Injection, IsInjective, Surjection
<1>8. IsFiniteSet(1..N) /\ Cardinality(1..N) = N
  BY <1>1, FS_Interval
<1>9. IsFiniteSet(T) /\ Cardinality(T) = Cardinality(1..N)
  BY <1>7, <1>8, FS_Surjection
<1>10. T \subseteq X
  BY <1>1, <1>2
<1> QED
  BY <1>1, <1>8, <1>9, <1>10 DEF N, T

\* A list one longer.
LEMMA ListGrows ==
    ASSUME NEW X, NEW s \in Seq(X), NEW x \in X
    PROVE  /\ Append(s, x) \in Seq(X) /\ Len(Append(s, x)) = Len(s) + 1 /\ Len(s) \in Nat
           /\ DOMAIN s = 1..Len(s) /\ DOMAIN Append(s, x) = 1..(Len(s) + 1)
           /\ \A i \in 1..Len(s) : Append(s, x)[i] = s[i]
           /\ Append(s, x)[Len(s) + 1] = x
           /\ ToSet(Append(s, x)) = ToSet(s) \cup {x}
           /\ ShownOnce(s) /\ x \notin ToSet(s) => ShownOnce(Append(s, x))
<1> DEFINE t == Append(s, x)
           N == Len(s)
<1>1. /\ t \in Seq(X) /\ Len(t) = N + 1 /\ N \in Nat
      /\ \A i \in 1..N : t[i] = s[i]
      /\ t[N + 1] = x
  BY AppendProperties
<1>2. DOMAIN s = 1..N /\ DOMAIN t = 1..(N + 1)
  BY <1>1
<1> HIDE DEF t, N
<1>3. \A i \in 1..(N + 1) : i \in 1..N \/ i = N + 1
  BY <1>1
<1>4. \A i \in 1..N : i \in 1..(N + 1)
  BY <1>1
<1>5. N + 1 \in 1..(N + 1)
  BY <1>1
<1>6. ToSet(s) = {s[i] : i \in 1..N} /\ ToSet(t) = {t[i] : i \in 1..(N + 1)}
  BY <1>2 DEF ToSet
<1>7. ToSet(t) = ToSet(s) \cup {x}
  BY <1>1, <1>3, <1>4, <1>5, <1>6
<1>8. ASSUME ShownOnce(s), x \notin ToSet(s) PROVE ShownOnce(t)
  <2> SUFFICES ASSUME NEW i \in 1..(N + 1), NEW j \in 1..(N + 1), t[i] = t[j] PROVE i = j
    BY <1>2 DEF ShownOnce
  <2>1. \A k \in 1..N : s[k] \in ToSet(s)
    BY <1>6
  <2>2. CASE i = N + 1 \/ j = N + 1
    BY <1>1, <1>3, <1>8, <2>1, <2>2
  <2>3. CASE i \in 1..N /\ j \in 1..N
    BY <1>1, <1>2, <1>8, <2>3 DEF ShownOnce
  <2> QED
    BY <1>3, <2>2, <2>3
<1> QED
  BY <1>1, <1>2, <1>7, <1>8 DEF t, N

\* The beginnings of a list one longer are those of the list, and itself.
LEMMA Beginnings ==
    ASSUME NEW X, NEW s \in Seq(X), NEW x \in X
    PROVE  /\ \A i \in 1..Len(s) : SubSeq(Append(s, x), 1, i) = SubSeq(s, 1, i)
           /\ SubSeq(Append(s, x), 1, Len(s) + 1) = Append(s, x)
<1>1. Append(s, x) \in Seq(X) /\ Len(Append(s, x)) = Len(s) + 1 /\ Len(s) \in Nat
  BY ListGrows
<1>2. Append(s, x) = s \o <<x>>
  BY AppendIsConcat
<1>3. SubSeq(Append(s, x), 1, Len(s) + 1) = Append(s, x)
  BY <1>1, SubSeqFull
<1>4. ASSUME NEW i \in 1..Len(s) PROVE SubSeq(Append(s, x), 1, i) = SubSeq(s, 1, i)
  <2>1. <<x>> \in Seq(X)
    OBVIOUS
  <2>2. 1 \in 1..Len(s)
    BY <1>1
  <2>3. SubSeq(s \o <<x>>, 1, i) = SubSeq(s, 1, i)
    BY <2>1, <2>2, SubSeqOfConcat1
  <2> QED
    BY <1>2, <2>3
<1> QED
  BY <1>3, <1>4

\* Sets of postings are finite, and a smaller one has no more of them.
LEMMA FewerOpenings ==
    ASSUME NEW T \in SUBSET Openings, NEW S \in SUBSET T
    PROVE  /\ IsFiniteSet(S) /\ Cardinality(S) \in Nat /\ Cardinality(T) \in Nat
           /\ Cardinality(S) <= Cardinality(T)
<1>1. IsFiniteSet(T)
  BY OpeningsInOrder, FS_Subset
<1> QED
  BY <1>1, FS_Subset, FS_CardinalityType

\* Sets that share nothing add up.
LEMMA ApartAddUp ==
    ASSUME NEW S \in SUBSET Openings, NEW T \in SUBSET Openings, S \cap T = {}
    PROVE  Cardinality(S \cup T) = Cardinality(S) + Cardinality(T)
<1>1. IsFiniteSet(S) /\ IsFiniteSet(T) /\ Cardinality(S) \in Nat /\ Cardinality(T) \in Nat
  BY FewerOpenings
<1>2. Cardinality(S \cup T) = Cardinality(S) + Cardinality(T) - Cardinality(S \cap T)
  BY <1>1, FS_Union
<1>3. Cardinality(S \cap T) = 0
  BY FS_EmptySet
<1> QED
  BY <1>1, <1>2, <1>3

\* What an edition is judged on: an engine and how its postings stand.
EditionShape ==
    /\ edition.engine \in {"v42", "v5"} /\ edition.standing \in [Openings -> Standings]
    /\ edition.engine = "v42" => \A o \in Openings : edition.standing[o] # "known"

\* The caps are numbers.
LEMMA CapsCount ==
    /\ SiteCap \in Nat
    /\ \A sec : SectionCap(sec) \in Nat /\ SectionCompanyCap(sec) \in Nat
    /\ \A o : CompanyCapOf(o) \in Nat /\ PeerCapOf(o) \in Nat
<1>1. /\ CompanyCap \in Nat /\ AutomationCompanyCap \in Nat /\ SiteCap \in Nat
      /\ BandCap \in Nat /\ AutomationCap \in Nat
  BY CapsAreNumbers
<1>2. \A sec : SectionCap(sec) \in Nat /\ SectionCompanyCap(sec) \in Nat
  BY <1>1 DEF SectionCap, SectionCompanyCap
<1> QED
  BY <1>1, <1>2 DEF CompanyCapOf, PeerCapOf

\* With more shown there are no fewer rivals, so what is withheld stays so.
LEMMA WithheldStays ==
    ASSUME NEW s, NEW t, ToSet(s) \subseteq ToSet(t), ToSet(t) \subseteq Openings,
           NEW o, Withheld(s, o)
    PROVE  Withheld(t, o)
<1>1. /\ CompanyRivals(s, o) \subseteq CompanyRivals(t, o)
      /\ SiteRivals(s, o) \subseteq SiteRivals(t, o)
      /\ PeerRivals(s, o) \subseteq PeerRivals(t, o)
  BY DEF CompanyRivals, SiteRivals, PeerRivals, Earlier
<1>2. /\ CompanyRivals(t, o) \subseteq Openings /\ SiteRivals(t, o) \subseteq Openings
      /\ PeerRivals(t, o) \subseteq Openings
  BY DEF CompanyRivals, SiteRivals, PeerRivals, Earlier
<1> DEFINE cs == Cardinality(CompanyRivals(s, o))
           ct == Cardinality(CompanyRivals(t, o))
           ss == Cardinality(SiteRivals(s, o))
           st == Cardinality(SiteRivals(t, o))
           ps == Cardinality(PeerRivals(s, o))
           pt == Cardinality(PeerRivals(t, o))
<1>3. cs \in Nat /\ ct \in Nat /\ cs <= ct
  BY <1>1, <1>2, FewerOpenings
<1>4. ss \in Nat /\ st \in Nat /\ ss <= st
  BY <1>1, <1>2, FewerOpenings
<1>5. ps \in Nat /\ pt \in Nat /\ ps <= pt
  BY <1>1, <1>2, FewerOpenings
<1>6. \/ cs >= CompanyCapOf(o)
      \/ ps >= PeerCapOf(o)
      \/ (SiteCap > 0 /\ ss >= SiteCap /\ ~Refilled(o))
  BY Zenon DEF Withheld
<1> DEFINE cc == CompanyCapOf(o)
           pc == PeerCapOf(o)
<1>7. cc \in Nat /\ pc \in Nat /\ SiteCap \in Nat
  BY CapsCount
<1>8. cs >= cc \/ ps >= pc \/ (SiteCap > 0 /\ ss >= SiteCap /\ ~Refilled(o))
  BY <1>6
<1>10. Withheld(t, o) <=> ct >= cc \/ pt >= pc \/ (SiteCap > 0 /\ st >= SiteCap /\ ~Refilled(o))
  BY Zenon DEF Withheld
<1> HIDE DEF cs, ct, ss, st, ps, pt, cc, pc
<1>9. ct >= cc \/ pt >= pc \/ (SiteCap > 0 /\ st >= SiteCap /\ ~Refilled(o))
  BY <1>3, <1>4, <1>5, <1>7, <1>8
<1> QED
  BY <1>9, <1>10

\* What is shown before a posting and counts against it withholds it.
LEMMA RivalsWithhold ==
    ASSUME NEW s, ToSet(s) \subseteq Openings, NEW o,
           NEW G, G \subseteq ToSet(s), \A k \in G : Before(k, o)
    PROVE  /\ (\A k \in G : Company[k] = Company[o]) /\ Cardinality(G) >= CompanyCapOf(o)
                => Withheld(s, o)
           /\ (\A k \in G : Peers(o, k)) /\ Cardinality(G) >= PeerCapOf(o) => Withheld(s, o)
           /\ (\A k \in G : Capped(o, k)) => Cardinality(SiteRivals(s, o)) >= Cardinality(G)
<1> DEFINE g == Cardinality(G)
           a == Cardinality(CompanyRivals(s, o))
           b == Cardinality(PeerRivals(s, o))
           c == Cardinality(SiteRivals(s, o))
           cc == CompanyCapOf(o)
           pc == PeerCapOf(o)
<1>1. /\ CompanyRivals(s, o) \subseteq Openings /\ SiteRivals(s, o) \subseteq Openings
      /\ PeerRivals(s, o) \subseteq Openings
  BY DEF CompanyRivals, SiteRivals, PeerRivals, Earlier
<1>2. G \subseteq Earlier(s, o)
  BY DEF Earlier
<1>3. (\A k \in G : Company[k] = Company[o]) => G \subseteq CompanyRivals(s, o)
  BY <1>2 DEF CompanyRivals
<1>4. (\A k \in G : Peers(o, k)) => G \subseteq PeerRivals(s, o)
  BY <1>2 DEF PeerRivals
<1>5. (\A k \in G : Capped(o, k)) => G \subseteq SiteRivals(s, o)
  BY <1>2 DEF SiteRivals
<1>6. cc \in Nat /\ pc \in Nat
  BY CapsCount
<1>7. G \subseteq CompanyRivals(s, o) => g \in Nat /\ a \in Nat /\ g <= a
  BY <1>1, FewerOpenings
<1>8. G \subseteq PeerRivals(s, o) => g \in Nat /\ b \in Nat /\ g <= b
  BY <1>1, FewerOpenings
<1>9. G \subseteq SiteRivals(s, o) => g \in Nat /\ c \in Nat /\ g <= c
  BY <1>1, FewerOpenings
<1>10. (a >= cc => Withheld(s, o)) /\ (b >= pc => Withheld(s, o))
  BY Zenon DEF Withheld
<1> HIDE DEF g, a, b, c, cc, pc
<1>11. g \in Nat /\ a \in Nat /\ g <= a /\ g >= cc => a >= cc
  BY <1>6
<1>12. g \in Nat /\ b \in Nat /\ g <= b /\ g >= pc => b >= pc
  BY <1>6
<1>13. g \in Nat /\ c \in Nat /\ g <= c => c >= g
  OBVIOUS
<1>14. (\A k \in G : Company[k] = Company[o]) /\ g >= cc => Withheld(s, o)
  BY <1>3, <1>7, <1>10, <1>11, Zenon
<1>15. (\A k \in G : Peers(o, k)) /\ g >= pc => Withheld(s, o)
  BY <1>4, <1>8, <1>10, <1>12, Zenon
<1>16. (\A k \in G : Capped(o, k)) => c >= g
  BY <1>5, <1>9, <1>13, Zenon
<1> QED
  BY <1>14, <1>15, <1>16, Zenon DEF g, c, cc, pc

\* A ledger, and how many postings it holds.
Ledgers == [shown : Seq(Openings), company : SUBSET Openings, site : SUBSET Openings,
            digest : SUBSET Openings, faint : SUBSET Openings, silent : SUBSET Openings,
            known : SUBSET Openings]
Counted(l) ==
    Len(l.shown) + Cardinality(l.company) + Cardinality(l.site) + Cardinality(l.digest)
    + Cardinality(l.faint) + Cardinality(l.silent) + Cardinality(l.known)
Within(l, S) ==
    /\ ToSet(l.shown) \subseteq S /\ l.company \subseteq S /\ l.site \subseteq S
    /\ l.digest \subseteq S /\ l.faint \subseteq S /\ l.silent \subseteq S /\ l.known \subseteq S
Candidate(o) == edition.standing[o] \in {"primary", "verify"}

\* A ledger that is right about the postings settled so far: it counts each of
\* them once, has withheld none for nothing and kept the caps.
Justified(shown, S) ==
    \A o \in S : Candidate(o) => o \in ToSet(shown) \/ Withheld(shown, o)
Fair(l, S) ==
    /\ S \in SUBSET Openings /\ l \in Ledgers /\ Within(l, S)
    /\ ShownOnce(l.shown) /\ CompaniesCapped(l.shown)
    /\ Cardinality(S) = Counted(l) /\ Justified(l.shown, S)

\* One of the sets a ledger keeps grows, the rest stays as it is.
HoldsMore(l, m, W) ==
    /\ m.shown = l.shown
    /\ \/ /\ m.company = l.company \cup W
          /\ m.site = l.site /\ m.digest = l.digest /\ m.faint = l.faint
          /\ m.silent = l.silent /\ m.known = l.known
       \/ /\ m.site = l.site \cup W
          /\ m.company = l.company /\ m.digest = l.digest /\ m.faint = l.faint
          /\ m.silent = l.silent /\ m.known = l.known
       \/ /\ m.digest = l.digest \cup W
          /\ m.company = l.company /\ m.site = l.site /\ m.faint = l.faint
          /\ m.silent = l.silent /\ m.known = l.known
       \/ /\ m.faint = l.faint \cup W
          /\ m.company = l.company /\ m.site = l.site /\ m.digest = l.digest
          /\ m.silent = l.silent /\ m.known = l.known
       \/ /\ m.silent = l.silent \cup W
          /\ m.company = l.company /\ m.site = l.site /\ m.digest = l.digest
          /\ m.faint = l.faint /\ m.known = l.known
       \/ /\ m.known = l.known \cup W
          /\ m.company = l.company /\ m.site = l.site /\ m.digest = l.digest
          /\ m.faint = l.faint /\ m.silent = l.silent

\* The fields of a ledger.
LEMMA LedgerFields ==
    ASSUME NEW l \in Ledgers
    PROVE  /\ l.shown \in Seq(Openings) /\ Len(l.shown) \in Nat
           /\ ToSet(l.shown) \subseteq Openings
           /\ l.company \in SUBSET Openings /\ l.site \in SUBSET Openings
           /\ l.digest \in SUBSET Openings /\ l.faint \in SUBSET Openings
           /\ l.silent \in SUBSET Openings /\ l.known \in SUBSET Openings
<1>1. l.shown \in Seq(Openings)
  BY DEF Ledgers
<1>2. Len(l.shown) \in Nat /\ ToSet(l.shown) \subseteq Openings
  BY <1>1 DEF ToSet
<1> QED
  BY <1>1, <1>2 DEF Ledgers

\* Some more are held back, for a cap that withholds those that are candidates.
LEMMA HoldsFair ==
    ASSUME NEW l, NEW S, Fair(l, S), NEW W \in SUBSET Openings, S \cap W = {},
           NEW m \in Ledgers, HoldsMore(l, m, W),
           \A o \in W : Candidate(o) => Withheld(l.shown, o)
    PROVE  Fair(m, S \cup W)
<1> DEFINE n == Cardinality(W)
           c1 == Cardinality(l.company)
           c2 == Cardinality(l.site)
           c3 == Cardinality(l.digest)
           c4 == Cardinality(l.faint)
           c5 == Cardinality(l.silent)
           c6 == Cardinality(l.known)
           d1 == Cardinality(m.company)
           d2 == Cardinality(m.site)
           d3 == Cardinality(m.digest)
           d4 == Cardinality(m.faint)
           d5 == Cardinality(m.silent)
           d6 == Cardinality(m.known)
<1>1. /\ S \in SUBSET Openings /\ l \in Ledgers /\ Within(l, S)
      /\ ShownOnce(l.shown) /\ CompaniesCapped(l.shown)
      /\ Cardinality(S) = Counted(l) /\ Justified(l.shown, S)
  BY DEF Fair
<1>2. m.shown = l.shown
  BY DEF HoldsMore
<1>3. /\ Len(l.shown) \in Nat /\ c1 \in Nat /\ c2 \in Nat /\ c3 \in Nat /\ c4 \in Nat
      /\ c5 \in Nat /\ c6 \in Nat /\ n \in Nat
  BY <1>1, LedgerFields, FewerOpenings
<1>4. Cardinality(S \cup W) = Cardinality(S) + n
  BY <1>1, ApartAddUp
<1>5. ASSUME NEW A \in SUBSET Openings, A \subseteq S
      PROVE  Cardinality(A \cup W) = Cardinality(A) + n
  <2>1. A \cap W = {}
    BY <1>5
  <2> QED
    BY <2>1, ApartAddUp
<1>6. \/ d1 = c1 + n /\ d2 = c2 /\ d3 = c3 /\ d4 = c4 /\ d5 = c5 /\ d6 = c6
      \/ d1 = c1 /\ d2 = c2 + n /\ d3 = c3 /\ d4 = c4 /\ d5 = c5 /\ d6 = c6
      \/ d1 = c1 /\ d2 = c2 /\ d3 = c3 + n /\ d4 = c4 /\ d5 = c5 /\ d6 = c6
      \/ d1 = c1 /\ d2 = c2 /\ d3 = c3 /\ d4 = c4 + n /\ d5 = c5 /\ d6 = c6
      \/ d1 = c1 /\ d2 = c2 /\ d3 = c3 /\ d4 = c4 /\ d5 = c5 + n /\ d6 = c6
      \/ d1 = c1 /\ d2 = c2 /\ d3 = c3 /\ d4 = c4 /\ d5 = c5 /\ d6 = c6 + n
  <2>1. /\ Cardinality(l.company \cup W) = c1 + n /\ Cardinality(l.site \cup W) = c2 + n
        /\ Cardinality(l.digest \cup W) = c3 + n /\ Cardinality(l.faint \cup W) = c4 + n
        /\ Cardinality(l.silent \cup W) = c5 + n /\ Cardinality(l.known \cup W) = c6 + n
    BY <1>1, <1>5, LedgerFields DEF Within
  <2> HIDE DEF n
  <2> QED
    BY <2>1, Zenon DEF HoldsMore
<1>7. Counted(l) = Len(l.shown) + c1 + c2 + c3 + c4 + c5 + c6
  BY DEF Counted
<1>8. Counted(m) = Len(l.shown) + d1 + d2 + d3 + d4 + d5 + d6
  BY <1>2 DEF Counted
<1> HIDE DEF n, c1, c2, c3, c4, c5, c6, d1, d2, d3, d4, d5, d6
<1>9. Counted(m) = Counted(l) + n
  <2> DEFINE k == Len(l.shown)
             x == k + c1 + c2 + c3 + c4 + c5 + c6
             y == k + d1 + d2 + d3 + d4 + d5 + d6
  <2>1. k \in Nat
    BY <1>3
  <2> HIDE DEF k
  <2>2. y = x + n
    <3>1. CASE d1 = c1 + n /\ d2 = c2 /\ d3 = c3 /\ d4 = c4 /\ d5 = c5 /\ d6 = c6
      BY <1>3, <2>1, <3>1
    <3>2. CASE d1 = c1 /\ d2 = c2 + n /\ d3 = c3 /\ d4 = c4 /\ d5 = c5 /\ d6 = c6
      BY <1>3, <2>1, <3>2
    <3>3. CASE d1 = c1 /\ d2 = c2 /\ d3 = c3 + n /\ d4 = c4 /\ d5 = c5 /\ d6 = c6
      BY <1>3, <2>1, <3>3
    <3>4. CASE d1 = c1 /\ d2 = c2 /\ d3 = c3 /\ d4 = c4 + n /\ d5 = c5 /\ d6 = c6
      BY <1>3, <2>1, <3>4
    <3>5. CASE d1 = c1 /\ d2 = c2 /\ d3 = c3 /\ d4 = c4 /\ d5 = c5 + n /\ d6 = c6
      BY <1>3, <2>1, <3>5
    <3>6. CASE d1 = c1 /\ d2 = c2 /\ d3 = c3 /\ d4 = c4 /\ d5 = c5 /\ d6 = c6 + n
      BY <1>3, <2>1, <3>6
    <3> QED
      BY <1>6, <3>1, <3>2, <3>3, <3>4, <3>5, <3>6
  <2>3. Counted(l) = x /\ Counted(m) = y
    BY <1>7, <1>8 DEF k
  <2> QED
    BY <2>2, <2>3
<1>10. Cardinality(S \cup W) = Counted(m)
  BY <1>1, <1>4, <1>9
<1>11. Within(m, S \cup W)
  <2>1. /\ ToSet(m.shown) \subseteq S /\ m.company \subseteq S \cup W /\ m.site \subseteq S \cup W
        /\ m.digest \subseteq S \cup W /\ m.faint \subseteq S \cup W
        /\ m.silent \subseteq S \cup W /\ m.known \subseteq S \cup W
    BY <1>1 DEF Within, HoldsMore
  <2> QED
    BY <2>1 DEF Within
<1>12. Justified(m.shown, S \cup W)
  BY <1>1, <1>2 DEF Justified
<1> QED
  BY <1>1, <1>2, <1>10, <1>11, <1>12 DEF Fair

\* One more is shown: its company has room.
LEMMA ShowsFair ==
    ASSUME NEW l, NEW S, Fair(l, S), NEW o \in Openings, o \notin S,
           NEW m \in Ledgers, m.shown = Append(l.shown, o),
           m.company = l.company, m.site = l.site, m.digest = l.digest, m.faint = l.faint,
           m.silent = l.silent, m.known = l.known,
           ~(Cardinality(OfCompany(l.shown, o)) >= CompanyCapOf(o))
    PROVE  Fair(m, S \cup {o})
<1> DEFINE s == l.shown
           t == m.shown
<1>1. /\ S \in SUBSET Openings /\ l \in Ledgers /\ Within(l, S)
      /\ ShownOnce(s) /\ CompaniesCapped(s)
      /\ Cardinality(S) = Counted(l) /\ Justified(s, S)
  BY DEF Fair
<1>2. s \in Seq(Openings) /\ Len(s) \in Nat /\ ToSet(s) \subseteq Openings
  BY <1>1, LedgerFields
<1>3. /\ t \in Seq(Openings) /\ Len(t) = Len(s) + 1
      /\ DOMAIN s = 1..Len(s) /\ DOMAIN t = 1..(Len(s) + 1)
      /\ \A i \in 1..Len(s) : t[i] = s[i]
      /\ t[Len(s) + 1] = o /\ ToSet(t) = ToSet(s) \cup {o}
      /\ o \notin ToSet(s) => ShownOnce(t)
  BY <1>1, <1>2, ListGrows
<1>4. o \notin ToSet(s)
  BY <1>1 DEF Within
<1>5. Within(m, S \cup {o})
  <2>1. /\ ToSet(t) \subseteq S \cup {o} /\ m.company \subseteq S /\ m.site \subseteq S
        /\ m.digest \subseteq S /\ m.faint \subseteq S /\ m.silent \subseteq S /\ m.known \subseteq S
    BY <1>1, <1>3 DEF Within
  <2> QED
    BY <2>1 DEF Within
<1>6. Counted(m) = Counted(l) + 1
  <2> DEFINE c1 == Cardinality(l.company)
             c2 == Cardinality(l.site)
             c3 == Cardinality(l.digest)
             c4 == Cardinality(l.faint)
             c5 == Cardinality(l.silent)
             c6 == Cardinality(l.known)
             k == Len(s)
  <2>1. /\ k \in Nat /\ c1 \in Nat /\ c2 \in Nat /\ c3 \in Nat /\ c4 \in Nat
        /\ c5 \in Nat /\ c6 \in Nat
    BY <1>1, LedgerFields, FewerOpenings
  <2>2. Counted(l) = k + c1 + c2 + c3 + c4 + c5 + c6
    BY DEF Counted
  <2>3. Counted(m) = (k + 1) + c1 + c2 + c3 + c4 + c5 + c6
    BY <1>3 DEF Counted
  <2> HIDE DEF k, c1, c2, c3, c4, c5, c6
  <2> QED
    BY <2>1, <2>2, <2>3
<1>7. Cardinality(S \cup {o}) = Counted(m)
  <2>1. Cardinality({o}) = 1
    BY FS_Singleton
  <2>2. Cardinality(S \cup {o}) = Cardinality(S) + Cardinality({o})
    BY <1>1, ApartAddUp
  <2> QED
    BY <1>1, <1>6, <2>1, <2>2
<1>8. Justified(t, S \cup {o})
  <2> SUFFICES ASSUME NEW p \in S \cup {o}, Candidate(p)
               PROVE  p \in ToSet(t) \/ Withheld(t, p)
    BY DEF Justified
  <2>1. CASE p = o
    BY <1>3, <2>1
  <2>2. CASE p \in S /\ p \in ToSet(s)
    BY <1>3, <2>2
  <2>3. CASE p \in S /\ Withheld(s, p)
    <3>1. ToSet(s) \subseteq ToSet(t) /\ ToSet(t) \subseteq Openings
      BY <1>2, <1>3
    <3> QED
      BY <2>3, <3>1, WithheldStays
  <2> QED
    BY <1>1, <2>1, <2>2, <2>3 DEF Justified
<1>9. CompaniesCapped(t)
  <2> SUFFICES ASSUME NEW i \in 1..(Len(s) + 1)
               PROVE  Cardinality(OfCompany(SubSeq(t, 1, i), t[i])) <= CompanyCapOf(t[i])
    BY <1>3 DEF CompaniesCapped
  <2>1. CASE i \in 1..Len(s)
    <3>1. t[i] = s[i] /\ SubSeq(t, 1, i) = SubSeq(s, 1, i)
      BY <1>2, <1>3, <2>1, Beginnings
    <3>2. Cardinality(OfCompany(SubSeq(s, 1, i), s[i])) <= CompanyCapOf(s[i])
      BY <1>1, <1>3, <2>1 DEF CompaniesCapped
    <3> QED
      BY <3>1, <3>2
  <2>2. CASE i = Len(s) + 1
    <3>1. t[i] = o /\ SubSeq(t, 1, i) = t
      BY <1>2, <1>3, <2>2, Beginnings
    <3>2. OfCompany(t, o) = OfCompany(s, o) \cup {o} /\ o \notin OfCompany(s, o)
      BY <1>3, <1>4 DEF OfCompany
    <3>3. OfCompany(s, o) \in SUBSET Openings
      BY <1>2 DEF OfCompany
    <3>4. Cardinality(OfCompany(t, o)) = Cardinality(OfCompany(s, o)) + Cardinality({o})
      BY <3>2, <3>3, ApartAddUp
    <3>5. Cardinality({o}) = 1
      BY FS_Singleton
    <3> DEFINE a == Cardinality(OfCompany(t, o))
               b == Cardinality(OfCompany(s, o))
               c == CompanyCapOf(o)
    <3>6. a = b + 1 /\ b \in Nat /\ c \in Nat /\ ~(b >= c)
      BY <3>3, <3>4, <3>5, FewerOpenings, CapsCount
    <3> HIDE DEF a, b, c
    <3>7. a <= c
      BY <3>6
    <3> QED
      BY <3>1, <3>7 DEF a, c
  <2> QED
    BY <1>2, <2>1, <2>2
<1> QED
  BY <1>1, <1>3, <1>4, <1>5, <1>7, <1>8, <1>9 DEF Fair

\* What is known of the postings of a section: they share their caps, and fill it in order.
LEMMA SectionFacts ==
    ASSUME EditionShape, edition.engine = "v42", NEW sec \in {"primary", "automation", "verify"}
    PROVE  LET T == Section(edition.standing, sec)
           IN  /\ T \in SUBSET Openings /\ LineOf(InOrderOf(T), T)
               /\ \A o \in T : /\ Candidate(o) /\ SectionOf(edition.standing, o) = sec
                               /\ CompanyCapOf(o) = SectionCompanyCap(sec)
                               /\ PeerCapOf(o) = SectionCap(sec)
                               /\ Refilled(o) => Backfill /\ SingleSource(T)
               /\ \A o, k \in T : Peers(o, k) /\ (Site[o] # None /\ Site[k] = Site[o] => Capped(o, k))
<1> DEFINE T == Section(edition.standing, sec)
<1>1. T \in SUBSET Openings
  BY DEF Section
<1>2. \A o \in T : Candidate(o) /\ SectionOf(edition.standing, o) = sec
  BY DEF Section, Candidate
<1>3. ASSUME NEW o \in T
      PROVE  /\ CompanyCapOf(o) = SectionCompanyCap(sec) /\ PeerCapOf(o) = SectionCap(sec)
             /\ (Refilled(o) => Backfill /\ SingleSource(T))
  <2> DEFINE st == edition.standing
  <2>1. edition.engine # "v5" /\ SectionOf(st, o) = sec
    BY <1>2
  <2> QED
    BY <2>1, Zenon DEF CompanyCapOf, PeerCapOf, Refilled
<1>4. ASSUME NEW o \in T, NEW k \in T
      PROVE  Peers(o, k) /\ (Site[o] # None /\ Site[k] = Site[o] => Capped(o, k))
  <2>1. edition.engine # "v5" /\ SectionOf(edition.standing, k) = SectionOf(edition.standing, o)
    BY <1>2
  <2>2. Peers(o, k)
    BY <2>1 DEF Peers
  <2> QED
    BY <2>1, <2>2 DEF Capped
<1>5. \A o, k \in T : FillTurn(o) = FillTurn(k)
  <2> SUFFICES ASSUME NEW o \in T, NEW k \in T PROVE FillTurn(o) = FillTurn(k)
    OBVIOUS
  <2>1. edition.engine # "v5" /\ SectionOf(edition.standing, k) = SectionOf(edition.standing, o)
    BY <1>2
  <2> QED
    BY <2>1, Zenon DEF FillTurn
<1>6. LineOf(InOrderOf(T), T)
  <2> DEFINE line == InOrderOf(T)
             n == Cardinality(T)
  <2>1. /\ n \in Nat /\ line \in [1..n -> T]
        /\ \A o \in T : \E i \in 1..n : line[i] = o
        /\ \A i, j \in 1..n : i < j => line[i] < line[j]
    BY <1>1, OrderRises
  <2> HIDE DEF line, n, T
  <2>2. line \in Seq(T) /\ DOMAIN line = 1..n
    BY <2>1
  <2>3. ASSUME NEW i \in 1..n, NEW j \in 1..n, i < j PROVE Before(line[i], line[j])
    <3>1. line[i] \in T /\ line[j] \in T /\ line[i] < line[j]
      BY <2>1, <2>3
    <3>2. FillTurn(line[i]) = FillTurn(line[j])
      BY <1>5, <3>1
    <3> QED
      BY <3>1, <3>2, Zenon DEF Before
  <2>4. LineOf(line, T)
    BY <1>1, <2>1, <2>2, <2>3 DEF LineOf
  <2> QED
    BY <2>4 DEF line
<1> QED
  BY <1>1, <1>2, <1>3, <1>4, <1>6, Zenon DEF T

\* In a section of a single source all share a platform that one of them has.
LEMMA OneSource ==
    ASSUME NEW T \in SUBSET Openings, SingleSource(T), NEW o \in T, NEW w \in T, Site[w] # None
    PROVE  Site[o] = Site[w]
<1> DEFINE key(p) == IF Site[p] = None THEN <<p>> ELSE <<0, Site[p]>>
           K == {key(p) : p \in T}
           f == [p \in T |-> key(p)]
<1>1. Cardinality(K) = 1
  BY DEF SingleSource
<1>2. IsFiniteSet(T)
  BY FewerOpenings
<1>3. f \in Surjection(T, K)
  BY DEF Surjection
<1>4. IsFiniteSet(K)
  <2> HIDE DEF f, K
  <2> QED
    BY <1>2, <1>3, FS_Surjection
<1>5. PICK x : K = {x}
  <2> HIDE DEF K
  <2> QED
    BY <1>1, <1>4, FS_Singleton
<1>6. key(o) = key(w)
  <2>1. key(o) \in K /\ key(w) \in K
    OBVIOUS
  <2> HIDE DEF K, key
  <2> QED
    BY <1>5, <2>1
<1>7. key(w) = <<0, Site[w]>>
  OBVIOUS
<1>8. CASE Site[o] = None
  <2>1. <<o>> = <<0, Site[w]>>
    BY <1>6, <1>7, <1>8
  <2>2. Len(<<o>>) = 1 /\ Len(<<0, Site[w]>>) = 2
    OBVIOUS
  <2> QED
    BY <2>1, <2>2
<1>9. CASE Site[o] # None
  <2>1. <<0, Site[o]>> = <<0, Site[w]>>
    BY <1>6, <1>7, <1>9
  <2> QED
    BY <2>1
<1> QED
  BY <1>8, <1>9

\* A page: a ledger, what the section shows and what of it waits.
Pages == [ledger : Ledgers, here : Seq(Openings), waiting : Seq(Openings)]

LEMMA PageMoves ==
    ASSUME NEW page \in Pages, NEW o \in Openings
    PROVE  /\ page.ledger \in Ledgers /\ page.here \in Seq(Openings) /\ page.waiting \in Seq(Openings)
           /\ LET q == ShowOn(page, o)
                  l == page.ledger
                  m == q.ledger
              IN  /\ q \in Pages /\ q.here = Append(page.here, o) /\ q.waiting = page.waiting
                  /\ m.shown = Append(l.shown, o) /\ m.company = l.company /\ m.site = l.site
                  /\ m.digest = l.digest /\ m.faint = l.faint /\ m.silent = l.silent
                  /\ m.known = l.known
           /\ LET q == [page EXCEPT !.waiting = Append(@, o)]
              IN  /\ q \in Pages /\ q.here = page.here /\ q.waiting = Append(page.waiting, o)
                  /\ q.ledger = page.ledger
           /\ LET q == [page EXCEPT !.ledger.company = @ \union {o}]
              IN  /\ q \in Pages /\ q.here = page.here /\ q.waiting = page.waiting
                  /\ HoldsMore(page.ledger, q.ledger, {o})
           /\ LET q == [page EXCEPT !.ledger.digest = @ \union {o}]
              IN  /\ q \in Pages /\ q.here = page.here /\ q.waiting = page.waiting
                  /\ HoldsMore(page.ledger, q.ledger, {o})
<1>1. /\ page.ledger \in Ledgers /\ page.here \in Seq(Openings) /\ page.waiting \in Seq(Openings)
      /\ page.ledger.shown \in Seq(Openings)
  BY DEF Pages, Ledgers
<1>2. /\ Append(page.here, o) \in Seq(Openings) /\ Append(page.waiting, o) \in Seq(Openings)
      /\ Append(page.ledger.shown, o) \in Seq(Openings)
  BY <1>1, AppendProperties
<1> DEFINE h == Append(page.here, o)
           w == Append(page.waiting, o)
           s == Append(page.ledger.shown, o)
<1>3. ShowOn(page, o) = [page EXCEPT !.here = h, !.ledger.shown = s]
  BY Zenon DEF ShowOn
<1>4. h \in Seq(Openings) /\ w \in Seq(Openings) /\ s \in Seq(Openings)
  BY <1>2
<1> HIDE DEF h, w, s
<1>5. LET q == ShowOn(page, o)
          l == page.ledger
          m == q.ledger
      IN  /\ q \in Pages /\ q.here = h /\ q.waiting = page.waiting
          /\ m.shown = s /\ m.company = l.company /\ m.site = l.site
          /\ m.digest = l.digest /\ m.faint = l.faint /\ m.silent = l.silent
          /\ m.known = l.known
  <2> DEFINE r == [page EXCEPT !.here = h]
             l == page.ledger
             m == [l EXCEPT !.shown = s]
             q == [page EXCEPT !.here = h, !.ledger.shown = s]
  <2>1. r \in Pages /\ r.here = h /\ r.waiting = page.waiting /\ r.ledger = l
    BY <1>4 DEF Pages
  <2>2. /\ m \in Ledgers /\ m.shown = s /\ m.company = l.company /\ m.site = l.site
        /\ m.digest = l.digest /\ m.faint = l.faint /\ m.silent = l.silent
        /\ m.known = l.known
    BY <1>1, <1>4 DEF Ledgers
  <2>3. q = [r EXCEPT !.ledger = m]
    BY <2>1
  <2> HIDE DEF r, m, l
  <2>4. LET t == [r EXCEPT !.ledger = m]
        IN  t \in Pages /\ t.here = r.here /\ t.waiting = r.waiting /\ t.ledger = m
    BY <2>1, <2>2 DEF Pages
  <2> HIDE DEF q
  <2>5. q \in Pages /\ q.here = h /\ q.waiting = page.waiting /\ q.ledger = m
    BY <2>1, <2>3, <2>4
  <2>6. ShowOn(page, o) = q
    BY <1>3 DEF q
  <2> QED
    BY <2>2, <2>5, <2>6 DEF l
<1>6. LET q == [page EXCEPT !.waiting = w]
      IN  q \in Pages /\ q.here = page.here /\ q.waiting = w /\ q.ledger = page.ledger
  BY <1>4 DEF Pages
<1>7. LET q == [page EXCEPT !.ledger.company = @ \union {o}]
      IN  /\ q \in Pages /\ q.here = page.here /\ q.waiting = page.waiting
          /\ HoldsMore(page.ledger, q.ledger, {o})
  BY DEF Pages, Ledgers, HoldsMore
<1>8. LET q == [page EXCEPT !.ledger.digest = @ \union {o}]
      IN  /\ q \in Pages /\ q.here = page.here /\ q.waiting = page.waiting
          /\ HoldsMore(page.ledger, q.ledger, {o})
  BY DEF Pages, Ledgers, HoldsMore
<1> QED
  BY <1>1, <1>5, <1>6, <1>7, <1>8 DEF h, w, s

\* Everything of the first comes before everything of the second.
Ahead(S, R) == \A k \in S, o \in R : Before(k, o)

\* A page whose ledger is right about what is settled, and that shows of the
\* section what it lists, beside what was shown before it.
PageOf(page, D, V) ==
    /\ page \in Pages /\ Fair(page.ledger, D) /\ ShownOnce(page.here)
    /\ ToSet(page.here) \subseteq ToSet(page.ledger.shown)
    /\ ToSet(page.ledger.shown) \subseteq V \cup ToSet(page.here)

\* A posting waits because its platform filled its share of the section with
\* what was shown before it.
SiteHeld(page, w) ==
    /\ Site[w] # None /\ SiteCap > 0
    /\ Cardinality(OfSite(page.here, w)) >= SiteCap
    /\ Cardinality(SiteRivals(page.ledger.shown, w)) >= SiteCap

\* The first pass under way: what it took is settled or waits, in order; and in
\* a section of one source all that is shown comes before what waits.
FirstPass(page, taken, B, V, T) ==
    /\ PageOf(page, (B \cup taken) \ ToSet(page.waiting), V)
    /\ ToSet(page.here) \subseteq taken /\ ToSet(page.waiting) \subseteq taken
    /\ \A i, j \in DOMAIN page.waiting : i < j => Before(page.waiting[i], page.waiting[j])
    /\ Ahead(ToSet(page.ledger.shown), T \ taken)
    /\ \A w \in ToSet(page.waiting) : SiteHeld(page, w)
    /\ SingleSource(T) => Ahead(ToSet(page.ledger.shown), ToSet(page.waiting))

\* The next posting of a section that a pass looks at.
NextOf(o, taken, B, T) ==
    /\ taken \subseteq T /\ T \subseteq Openings /\ B \subseteq Openings /\ B \cap T = {}
    /\ o \in T /\ o \notin taken
    /\ \A k \in taken : Before(k, o)
    /\ \A k \in T \ (taken \cup {o}) : Before(o, k)

\* What the first pass holds back of a section.
LEMMA FirstHolds ==
    ASSUME NEW B, NEW V, NEW T, NEW taken, NEW o, NextOf(o, taken, B, T),
           NEW page, FirstPass(page, taken, B, V, T), NEW q \in Pages,
           q.here = page.here, q.waiting = page.waiting,
           HoldsMore(page.ledger, q.ledger, {o}), Withheld(page.ledger.shown, o)
    PROVE  FirstPass(q, taken \cup {o}, B, V, T)
<1> DEFINE W == ToSet(page.waiting)
           D == (B \cup taken) \ W
           s == page.ledger.shown
<1>1. /\ PageOf(page, D, V)
      /\ ToSet(page.here) \subseteq taken /\ W \subseteq taken
      /\ \A i, j \in DOMAIN page.waiting : i < j => Before(page.waiting[i], page.waiting[j])
      /\ Ahead(ToSet(s), T \ taken)
      /\ \A w \in W : SiteHeld(page, w)
      /\ SingleSource(T) => Ahead(ToSet(s), W)
  BY DEF FirstPass
<1>2. /\ page \in Pages /\ Fair(page.ledger, D) /\ ShownOnce(page.here)
      /\ ToSet(page.here) \subseteq ToSet(s) /\ ToSet(s) \subseteq V \cup ToSet(page.here)
  BY <1>1 DEF PageOf
<1>3. q.ledger.shown = s
  BY DEF HoldsMore
<1>4. /\ o \in Openings /\ o \notin B /\ o \notin taken /\ taken \subseteq T /\ o \in T
  BY DEF NextOf
<1>5. (B \cup (taken \cup {o})) \ W = D \cup {o} /\ D \cap {o} = {}
  BY <1>1, <1>4
<1>6. q.ledger \in Ledgers
  BY DEF Pages
<1>7. Fair(q.ledger, D \cup {o})
  <2> HIDE DEF D, W
  <2> QED
    BY <1>2, <1>4, <1>5, <1>6, HoldsFair
<1>8. PageOf(q, D \cup {o}, V)
  <2> HIDE DEF D
  <2> QED
    BY <1>2, <1>3, <1>7 DEF PageOf
<1>9. Ahead(ToSet(s), T \ (taken \cup {o}))
  BY <1>1 DEF Ahead
<1>10. \A w \in W : SiteHeld(q, w)
  BY <1>1, <1>3 DEF SiteHeld
<1>11. (B \cup (taken \cup {o})) \ ToSet(q.waiting) = D \cup {o}
  BY <1>5
<1> HIDE DEF D
<1>12. PageOf(q, (B \cup (taken \cup {o})) \ ToSet(q.waiting), V)
  BY <1>8, <1>11
<1> QED
  BY <1>1, <1>3, <1>9, <1>10, <1>12 DEF FirstPass

\* What waits of it.
LEMMA FirstWaits ==
    ASSUME NEW B, NEW V, NEW T, NEW taken, NEW o, NextOf(o, taken, B, T),
           NEW page, FirstPass(page, taken, B, V, T), NEW q \in Pages,
           q.here = page.here, q.waiting = Append(page.waiting, o), q.ledger = page.ledger,
           SiteHeld(page, o)
    PROVE  FirstPass(q, taken \cup {o}, B, V, T)
<1> DEFINE W == ToSet(page.waiting)
           D == (B \cup taken) \ W
           s == page.ledger.shown
           w1 == page.waiting
           w2 == q.waiting
<1>1. /\ PageOf(page, D, V)
      /\ ToSet(page.here) \subseteq taken /\ W \subseteq taken
      /\ \A i, j \in DOMAIN w1 : i < j => Before(w1[i], w1[j])
      /\ Ahead(ToSet(s), T \ taken)
      /\ \A w \in W : SiteHeld(page, w)
      /\ SingleSource(T) => Ahead(ToSet(s), W)
  BY DEF FirstPass
<1>2. /\ page \in Pages /\ Fair(page.ledger, D) /\ ShownOnce(page.here)
      /\ ToSet(page.here) \subseteq ToSet(s) /\ ToSet(s) \subseteq V \cup ToSet(page.here)
  BY <1>1 DEF PageOf
<1>4. /\ o \in Openings /\ o \notin B /\ o \notin taken /\ taken \subseteq T /\ o \in T
      /\ \A k \in taken : Before(k, o)
  BY DEF NextOf
<1>3. w1 \in Seq(Openings)
  BY <1>2, <1>4, PageMoves
<1>5. /\ DOMAIN w1 = 1..Len(w1) /\ DOMAIN w2 = 1..(Len(w1) + 1) /\ Len(w1) \in Nat
      /\ \A i \in 1..Len(w1) : w2[i] = w1[i]
      /\ w2[Len(w1) + 1] = o
      /\ ToSet(w2) = W \cup {o}
  BY <1>3, <1>4, ListGrows
<1>6. (B \cup (taken \cup {o})) \ ToSet(w2) = D
  BY <1>1, <1>4, <1>5
<1>7. PageOf(q, D, V)
  BY <1>2 DEF PageOf
<1>8. ASSUME NEW i \in DOMAIN w2, NEW j \in DOMAIN w2, i < j
      PROVE  Before(w2[i], w2[j])
  <2>1. i \in 1..Len(w1) /\ w2[i] = w1[i] /\ (j \in 1..Len(w1) \/ j = Len(w1) + 1)
    BY <1>5, <1>8
  <2>2. CASE j \in 1..Len(w1)
    BY <1>1, <1>5, <1>8, <2>1, <2>2
  <2>3. CASE j = Len(w1) + 1
    <3>1. w1[i] \in W
      BY <1>5, <2>1 DEF ToSet
    <3> QED
      BY <1>1, <1>4, <1>5, <2>1, <2>3, <3>1
  <2> QED
    BY <2>1, <2>2, <2>3
<1>9. Ahead(ToSet(s), T \ (taken \cup {o}))
  BY <1>1 DEF Ahead
<1>10. \A w \in W \cup {o} : SiteHeld(q, w)
  BY <1>1 DEF SiteHeld
<1>11. SingleSource(T) => Ahead(ToSet(s), W \cup {o})
  BY <1>1, <1>4 DEF Ahead
<1>12. ToSet(w2) \subseteq taken \cup {o} /\ ToSet(q.here) \subseteq taken \cup {o}
  BY <1>1, <1>5
<1> HIDE DEF D
<1>13. PageOf(q, (B \cup (taken \cup {o})) \ ToSet(w2), V)
  BY <1>6, <1>7
<1> HIDE DEF W
<1> QED
  BY <1>5, <1>8, <1>9, <1>10, <1>11, <1>12, <1>13 DEF FirstPass

\* What it shows.
LEMMA FirstShows ==
    ASSUME NEW B, NEW V, NEW T, NEW taken, NEW o, NextOf(o, taken, B, T),
           NEW page, FirstPass(page, taken, B, V, T),
           ~(Cardinality(OfCompany(page.ledger.shown, o)) >= CompanyCapOf(o)),
           ~(SiteCap > 0 /\ Cardinality(OfSite(page.here, o)) >= SiteCap)
    PROVE  FirstPass(ShowOn(page, o), taken \cup {o}, B, V, T)
<1> DEFINE q == ShowOn(page, o)
           W == ToSet(page.waiting)
           D == (B \cup taken) \ W
           s == page.ledger.shown
           t == q.ledger.shown
           H == ToSet(page.here)
<1>1. /\ PageOf(page, D, V)
      /\ H \subseteq taken /\ W \subseteq taken
      /\ \A i, j \in DOMAIN page.waiting : i < j => Before(page.waiting[i], page.waiting[j])
      /\ Ahead(ToSet(s), T \ taken)
      /\ \A w \in W : SiteHeld(page, w)
      /\ SingleSource(T) => Ahead(ToSet(s), W)
  BY DEF FirstPass
<1>2. /\ page \in Pages /\ Fair(page.ledger, D) /\ ShownOnce(page.here)
      /\ H \subseteq ToSet(s) /\ ToSet(s) \subseteq V \cup H
  BY <1>1 DEF PageOf
<1>4. /\ o \in Openings /\ o \notin B /\ o \notin taken /\ taken \subseteq T /\ o \in T
      /\ T \in SUBSET Openings
      /\ \A k \in T \ (taken \cup {o}) : Before(o, k)
  BY DEF NextOf
<1>3. /\ q \in Pages /\ q.here = Append(page.here, o) /\ q.waiting = page.waiting
      /\ t = Append(s, o) /\ page.here \in Seq(Openings) /\ page.ledger \in Ledgers
      /\ q.ledger.company = page.ledger.company /\ q.ledger.site = page.ledger.site
      /\ q.ledger.digest = page.ledger.digest /\ q.ledger.faint = page.ledger.faint
      /\ q.ledger.silent = page.ledger.silent /\ q.ledger.known = page.ledger.known
  BY <1>2, <1>4, PageMoves
<1>5. q.ledger \in Ledgers /\ s \in Seq(Openings) /\ ToSet(s) \subseteq Openings
  <2>1. q.ledger \in Ledgers
    BY <1>3 DEF Pages
  <2> QED
    BY <1>3, <2>1, LedgerFields
<1> HIDE DEF q
<1>6. o \notin D
  BY <1>4
<1>7. Fair(q.ledger, D \cup {o})
  <2> HIDE DEF D
  <2> QED
    BY <1>2, <1>3, <1>4, <1>5, <1>6, ShowsFair
<1>8. ToSet(q.here) = H \cup {o} /\ ShownOnce(q.here)
  <2>1. o \notin H
    BY <1>1, <1>4
  <2> QED
    BY <1>2, <1>3, <1>4, <2>1, ListGrows
<1>9. ToSet(t) = ToSet(s) \cup {o}
  BY <1>3, <1>4, <1>5, ListGrows
<1>10. PageOf(q, D \cup {o}, V)
  <2>1. ToSet(q.here) \subseteq ToSet(t) /\ ToSet(t) \subseteq V \cup ToSet(q.here)
    BY <1>2, <1>8, <1>9
  <2> HIDE DEF D
  <2> QED
    BY <1>3, <1>7, <1>8, <2>1 DEF PageOf
<1>11. (B \cup (taken \cup {o})) \ ToSet(q.waiting) = D \cup {o}
  BY <1>1, <1>3, <1>4
<1>12. Ahead(ToSet(t), T \ (taken \cup {o}))
  BY <1>1, <1>4, <1>9 DEF Ahead
<1>13. ASSUME NEW w \in W PROVE SiteHeld(q, w)
  <2>1. /\ Site[w] # None /\ SiteCap > 0 /\ Cardinality(OfSite(page.here, w)) >= SiteCap
        /\ Cardinality(SiteRivals(s, w)) >= SiteCap
    BY <1>1 DEF SiteHeld
  <2>2. OfSite(page.here, w) \subseteq OfSite(q.here, w) /\ OfSite(q.here, w) \in SUBSET Openings
    BY <1>1, <1>4, <1>8 DEF OfSite
  <2>3. SiteRivals(s, w) \subseteq SiteRivals(t, w) /\ SiteRivals(t, w) \in SUBSET Openings
    BY <1>4, <1>5, <1>9 DEF SiteRivals, Earlier
  <2> DEFINE a == Cardinality(OfSite(page.here, w))
             b == Cardinality(OfSite(q.here, w))
             c == Cardinality(SiteRivals(s, w))
             d == Cardinality(SiteRivals(t, w))
  <2>4. a \in Nat /\ b \in Nat /\ a <= b
    BY <2>2, FewerOpenings
  <2>5. c \in Nat /\ d \in Nat /\ c <= d
    BY <2>3, FewerOpenings
  <2>6. a >= SiteCap /\ c >= SiteCap /\ SiteCap \in Nat
    BY <2>1, CapsCount
  <2> HIDE DEF a, b, c, d
  <2>7. b >= SiteCap /\ d >= SiteCap
    BY <2>4, <2>5, <2>6
  <2> QED
    BY <2>1, <2>7 DEF SiteHeld, b, d
<1>14. ASSUME SingleSource(T) PROVE Ahead(ToSet(t), W)
  <2> SUFFICES ASSUME NEW w \in W PROVE FALSE
    BY DEF Ahead
  <2>1. /\ Site[w] # None /\ SiteCap > 0 /\ Cardinality(OfSite(page.here, w)) >= SiteCap
    BY <1>1 DEF SiteHeld
  <2>2. Site[o] = Site[w]
    <3>1. w \in T
      BY <1>1, <1>4
    <3> QED
      BY <1>4, <1>14, <2>1, <3>1, OneSource
  <2>3. OfSite(page.here, w) = OfSite(page.here, o)
    BY <2>2 DEF OfSite
  <2> QED
    BY <2>1, <2>3
<1>15. ToSet(q.here) \subseteq taken \cup {o} /\ W \subseteq taken \cup {o}
  BY <1>1, <1>8
<1> HIDE DEF D
<1>16. PageOf(q, (B \cup (taken \cup {o})) \ ToSet(q.waiting), V)
  BY <1>10, <1>11
<1>17. FirstPass(q, taken \cup {o}, B, V, T)
  BY <1>1, <1>3, <1>12, <1>13, <1>14, <1>15, <1>16 DEF FirstPass
<1> QED
  BY <1>17 DEF q

\* The postings of a section share its caps.
SectionLike(sec, T) ==
    /\ T \in SUBSET Openings
    /\ \A o \in T : CompanyCapOf(o) = SectionCompanyCap(sec) /\ PeerCapOf(o) = SectionCap(sec)
    /\ \A o, k \in T : Peers(o, k) /\ (Site[o] # None /\ Site[k] = Site[o] => Capped(o, k))

\* A posting whose company is crowded, and one that finds its section full, are
\* withheld if what is shown came before.
LEMMA CrowdedOut ==
    ASSUME NEW sec, NEW T, SectionLike(sec, T), NEW o \in T, NEW page \in Pages,
           Ahead(ToSet(page.ledger.shown), {o})
    PROVE  /\ ~Crowded(page, sec, o) <=>
                ~(Cardinality(OfCompany(page.ledger.shown, o)) >= CompanyCapOf(o))
           /\ Crowded(page, sec, o) => Withheld(page.ledger.shown, o)
<1> DEFINE s == page.ledger.shown
           G == OfCompany(s, o)
<1>1. ToSet(s) \subseteq Openings
  BY LedgerFields DEF Pages
<1>2. CompanyCapOf(o) = SectionCompanyCap(sec)
  BY DEF SectionLike
<1>3. Crowded(page, sec, o) <=> Cardinality(G) >= CompanyCapOf(o)
  BY <1>2, Zenon DEF Crowded
<1>4. G \subseteq ToSet(s) /\ (\A k \in G : Before(k, o)) /\ (\A k \in G : Company[k] = Company[o])
  BY DEF OfCompany, Ahead
<1>5. Cardinality(G) >= CompanyCapOf(o) => Withheld(s, o)
  <2> HIDE DEF G, s
  <2> QED
    BY <1>1, <1>4, RivalsWithhold
<1> QED
  BY <1>3, <1>5

LEMMA FullOut ==
    ASSUME NEW sec, NEW T, SectionLike(sec, T), NEW o \in T, NEW page \in Pages,
           Ahead(ToSet(page.ledger.shown), {o}), ShownOnce(page.here),
           ToSet(page.here) \subseteq T, ToSet(page.here) \subseteq ToSet(page.ledger.shown),
           Len(page.here) >= SectionCap(sec)
    PROVE  Withheld(page.ledger.shown, o)
<1> DEFINE s == page.ledger.shown
           G == ToSet(page.here)
<1>1. ToSet(s) \subseteq Openings /\ page.here \in Seq(Openings)
  BY LedgerFields DEF Pages
<1>2. PeerCapOf(o) = SectionCap(sec) /\ \A k \in G : Peers(o, k)
  BY DEF SectionLike
<1>3. Cardinality(G) = Len(page.here)
  BY <1>1, CountListed
<1>4. Cardinality(G) >= PeerCapOf(o)
  BY <1>2, <1>3
<1>5. \A k \in G : Before(k, o)
  BY DEF Ahead
<1> HIDE DEF G, s
<1> QED
  BY <1>1, <1>2, <1>4, <1>5, RivalsWithhold DEF G, s

\* The first pass looks at the next posting.
LEMMA FirstConsiders ==
    ASSUME NEW sec, NEW B, NEW V, NEW T, SectionLike(sec, T),
           NEW taken, NEW o, NextOf(o, taken, B, T),
           NEW page, FirstPass(page, taken, B, V, T)
    PROVE  FirstPass(Consider(sec, page, o), taken \cup {o}, B, V, T)
<1> DEFINE s == page.ledger.shown
           H == ToSet(page.here)
<1>1. /\ PageOf(page, (B \cup taken) \ ToSet(page.waiting), V)
      /\ H \subseteq taken /\ Ahead(ToSet(s), T \ taken)
  BY DEF FirstPass
<1>2. page \in Pages /\ ShownOnce(page.here) /\ H \subseteq ToSet(s)
  BY <1>1 DEF PageOf
<1>3. o \in T /\ o \notin taken /\ o \in Openings /\ taken \subseteq T
  BY DEF NextOf
<1>4. Ahead(ToSet(s), {o})
  BY <1>1, <1>3 DEF Ahead
<1>5. CASE Crowded(page, sec, o)
  <2> DEFINE q == [page EXCEPT !.ledger.company = @ \union {o}]
  <2>1. Consider(sec, page, o) = q
    BY <1>5, Zenon DEF Consider
  <2>2. q \in Pages /\ q.here = page.here /\ q.waiting = page.waiting /\ HoldsMore(page.ledger, q.ledger, {o})
    BY <1>2, <1>3, PageMoves
  <2>3. Withheld(s, o)
    BY <1>2, <1>3, <1>4, <1>5, CrowdedOut
  <2> HIDE DEF q
  <2> QED
    BY <2>1, <2>2, <2>3, FirstHolds
<1>6. CASE ~Crowded(page, sec, o) /\ SiteCap > 0 /\ Cardinality(OfSite(page.here, o)) >= SiteCap
  <2> DEFINE q == [page EXCEPT !.waiting = Append(@, o)]
             G == OfSite(page.here, o)
  <2>1. Consider(sec, page, o) = q
    BY <1>6, Zenon DEF Consider
  <2>2. q \in Pages /\ q.here = page.here /\ q.waiting = Append(page.waiting, o) /\ q.ledger = page.ledger
    BY <1>2, <1>3, PageMoves
  <2>3. G \subseteq ToSet(s) /\ G \subseteq T /\ \A k \in G : Site[k] # None /\ Site[k] = Site[o]
    BY <1>1, <1>2, <1>3 DEF OfSite
  <2>4. Site[o] # None
    <3>1. G # {}
      <4>1. G = {} => Cardinality(G) = 0
        BY FS_EmptySet
      <4>2. SiteCap \in Nat
        BY CapsCount
      <4> HIDE DEF G
      <4> QED
        BY <1>6, <4>1, <4>2 DEF G
    <3> QED
      BY <2>3, <3>1
  <2>5. (\A k \in G : Capped(o, k)) /\ (\A k \in G : Before(k, o))
    BY <1>3, <1>4, <2>3, <2>4 DEF SectionLike, Ahead
  <2>6. ToSet(s) \subseteq Openings
    BY <1>2, LedgerFields DEF Pages
  <2>7. Cardinality(SiteRivals(s, o)) >= Cardinality(G)
    <3> HIDE DEF G, s
    <3> QED
      BY <2>3, <2>5, <2>6, RivalsWithhold
  <2> DEFINE g == Cardinality(G)
             c == Cardinality(SiteRivals(s, o))
  <2>8. SiteRivals(s, o) \in SUBSET Openings /\ G \in SUBSET Openings
    BY <2>3, <2>6 DEF SiteRivals, Earlier
  <2>9. g \in Nat /\ c \in Nat /\ SiteCap \in Nat
    BY <2>8, FewerOpenings, CapsCount
  <2>10. c >= g /\ g >= SiteCap
    BY <1>6, <2>7
  <2>11. SiteHeld(page, o)
    <3> HIDE DEF g, c
    <3>1. c >= SiteCap
      BY <2>9, <2>10
    <3> QED
      BY <1>6, <2>4, <3>1 DEF c, SiteHeld
  <2> HIDE DEF q
  <2> QED
    BY <2>1, <2>2, <2>11, FirstWaits
<1>7. CASE /\ ~Crowded(page, sec, o) /\ ~(SiteCap > 0 /\ Cardinality(OfSite(page.here, o)) >= SiteCap)
           /\ Len(page.here) >= SectionCap(sec)
  <2> DEFINE q == [page EXCEPT !.ledger.digest = @ \union {o}]
  <2>1. Consider(sec, page, o) = q
    BY <1>7, Zenon DEF Consider
  <2>2. q \in Pages /\ q.here = page.here /\ q.waiting = page.waiting /\ HoldsMore(page.ledger, q.ledger, {o})
    BY <1>2, <1>3, PageMoves
  <2>3. Withheld(s, o)
    <3>1. H \subseteq T
      BY <1>1, <1>3
    <3> QED
      BY <1>2, <1>3, <1>4, <1>7, <3>1, FullOut
  <2> HIDE DEF q
  <2> QED
    BY <2>1, <2>2, <2>3, FirstHolds
<1>8. CASE /\ ~Crowded(page, sec, o) /\ ~(SiteCap > 0 /\ Cardinality(OfSite(page.here, o)) >= SiteCap)
           /\ ~(Len(page.here) >= SectionCap(sec))
  <2>1. Consider(sec, page, o) = ShowOn(page, o)
    BY <1>8, Zenon DEF Consider
  <2>2. ~(Cardinality(OfCompany(s, o)) >= CompanyCapOf(o))
    BY <1>2, <1>3, <1>4, <1>8, CrowdedOut
  <2> QED
    BY <1>8, <2>1, <2>2, FirstShows
<1> QED
  BY <1>5, <1>6, <1>7, <1>8

\* The first pass over a section.
LEMMA FirstWalked ==
    ASSUME NEW sec, NEW B, NEW T, SectionLike(sec, T), NEW line, LineOf(line, T),
           B \cap T = {}, NEW l, Fair(l, B), Ahead(ToSet(l.shown), T)
    PROVE  FirstPass(Walk("section", sec, [ledger |-> l, here |-> <<>>, waiting |-> <<>>], line),
                     T, B, ToSet(l.shown), T)
<1> DEFINE V == ToSet(l.shown)
           start == [ledger |-> l, here |-> <<>>, waiting |-> <<>>]
           N == Len(line)
           P(p, n) == FirstPass(p, Taken(line, n), B, V, T)
<1>1. /\ N \in Nat /\ Taken(line, 0) = {} /\ Taken(line, N) = T
      /\ \A n \in 0..N : n < N =>
           /\ line[n + 1] \in T /\ line[n + 1] \notin Taken(line, n)
           /\ Taken(line, n + 1) = Taken(line, n) \cup {line[n + 1]}
           /\ \A k \in Taken(line, n) : Before(k, line[n + 1])
           /\ \A k \in T \ Taken(line, n + 1) : Before(line[n + 1], k)
      /\ \A n \in 0..N : Taken(line, n) \subseteq T
  BY TakenInTurn
<1>2. T \subseteq Openings /\ B \subseteq Openings
  BY DEF LineOf, Fair
<1>3. PICK g : /\ IsWalking(g, "section", sec, start, line, N)
               /\ Walk("section", sec, start, line) = g[N]
  BY <1>1, WalkedInTurn
<1>4. g[0] = start /\ \A n \in 1..N : g[n] = TakeUp("section", sec, g[n - 1], line[n])
  BY <1>3 DEF IsWalking
<1>5. \A p, o : TakeUp("section", sec, p, o) = Consider(sec, p, o)
  BY Zenon DEF TakeUp
<1>6. P(g[0], 0)
  <2>1. /\ start.here = <<>> /\ start.waiting = <<>> /\ start.ledger = l
        /\ ToSet(<<>>) = {} /\ DOMAIN <<>> = {}
    BY DEF ToSet
  <2>2. l \in Ledgers
    BY DEF Fair
  <2>3. start \in Pages
    BY <2>2 DEF Pages
  <2> HIDE DEF start
  <2>4. ShownOnce(<<>>)
    BY <2>1 DEF ShownOnce
  <2>5. (B \cup {}) \ ToSet(start.waiting) = B
    BY <2>1
  <2>6. PageOf(start, B, V)
    BY <2>1, <2>3, <2>4 DEF PageOf
  <2>7. FirstPass(start, {}, B, V, T)
    <3>1. PageOf(start, (B \cup {}) \ ToSet(start.waiting), V)
      BY <2>5, <2>6
    <3>2. Ahead(V, {}) /\ Ahead(V, T \ {})
      BY DEF Ahead
    <3> QED
      BY <2>1, <3>1, <3>2 DEF FirstPass
  <2> QED
    BY <1>1, <1>4, <2>7
<1>7. ASSUME NEW n \in 0..N, n < N, P(g[n], n) PROVE P(g[n + 1], n + 1)
  <2> DEFINE o == line[n + 1]
             taken == Taken(line, n)
  <2>1. NextOf(o, taken, B, T)
    <3>1. /\ o \in T /\ o \notin taken /\ taken \subseteq T
          /\ \A k \in taken : Before(k, o)
          /\ \A k \in T \ (taken \cup {o}) : Before(o, k)
      BY <1>1, <1>7
    <3> HIDE DEF o, taken
    <3> QED
      BY <1>2, <3>1 DEF NextOf
  <2>2. g[n + 1] = Consider(sec, g[n], o)
    <3>1. n + 1 \in 1..N /\ (n + 1) - 1 = n
      BY <1>1, <1>7
    <3> QED
      BY <1>4, <1>5, <3>1
  <2>3. Taken(line, n + 1) = taken \cup {o}
    BY <1>1, <1>7
  <2>4. FirstPass(g[n], taken, B, V, T)
    BY <1>7
  <2> HIDE DEF o, taken, V
  <2>5. FirstPass(Consider(sec, g[n], o), taken \cup {o}, B, V, T)
    BY <2>1, <2>4, FirstConsiders
  <2> QED
    BY <2>2, <2>3, <2>5
<1> DEFINE S == {n \in 0..N : P(g[n], n)}
<1>8. 0 \in S /\ \A n \in 0..N : n < N /\ n \in S => n + 1 \in S
  <2> HIDE DEF P
  <2>1. \A n \in 0..N : n < N => n + 1 \in 0..N
    BY <1>1
  <2> QED
    BY <1>1, <1>6, <1>7, <2>1
<1> HIDE DEF S
<1>11. N \in Nat
  BY <1>1
<1>12. N \in 0..N
  BY <1>11
<1>9. N \in S
  <2> HIDE DEF N
  <2>1. \A n \in 0..N : n \in S
    BY <1>8, <1>11, ReachesAll
  <2> QED
    BY <1>12, <2>1
<1>10. P(g[N], N)
  BY <1>9 DEF S
<1> QED
  BY <1>1, <1>3, <1>10

\* The second pass under way over what waited of a section.
SecondPass(page, taken, B, V, T, W) ==
    /\ PageOf(page, (B \cup taken) \ ToSet(page.waiting), V)
    /\ ToSet(page.here) \subseteq T /\ ToSet(page.waiting) \subseteq taken
    /\ Ahead(ToSet(page.ledger.shown), W \ taken)
    /\ \A w \in ToSet(page.waiting) : Withheld(page.ledger.shown, w)

\* The second pass looks at the next of them.
LEMMA SecondConsiders ==
    ASSUME NEW sec, NEW B, NEW V, NEW T, SectionLike(sec, T), NEW W, W \subseteq T,
           NEW taken, NEW o, NextOf(o, taken, B, W),
           NEW page, SecondPass(page, taken, B, V, T, W)
    PROVE  SecondPass(Refill(sec, page, o), taken \cup {o}, B, V, T, W)
<1> DEFINE s == page.ledger.shown
           H == ToSet(page.here)
           X == ToSet(page.waiting)
           D == (B \cup taken) \ X
<1>1. /\ PageOf(page, D, V) /\ H \subseteq T /\ X \subseteq taken
      /\ Ahead(ToSet(s), W \ taken) /\ \A w \in X : Withheld(s, w)
  BY DEF SecondPass
<1>2. /\ page \in Pages /\ Fair(page.ledger, D) /\ ShownOnce(page.here)
      /\ H \subseteq ToSet(s) /\ ToSet(s) \subseteq V \cup H
  BY <1>1 DEF PageOf
<1>3. /\ o \in W /\ o \notin B /\ o \notin taken /\ o \in Openings /\ taken \subseteq W /\ o \in T
  BY DEF NextOf
<1>4. /\ Ahead(ToSet(s), {o}) /\ Ahead(ToSet(s), W \ (taken \cup {o}))
  BY <1>1, <1>3 DEF Ahead
<1>5. (B \cup (taken \cup {o})) \ X = D \cup {o} /\ D \cap {o} = {} /\ o \notin D
  BY <1>1, <1>3
<1>6. (B \cup (taken \cup {o})) \ (X \cup {o}) = D
  BY <1>3
<1>7. s \in Seq(Openings) /\ ToSet(s) \subseteq Openings /\ page.here \in Seq(Openings)
      /\ page.waiting \in Seq(Openings)
  BY <1>2, LedgerFields DEF Pages
<1> HIDE DEF D
<1>8. CASE Len(page.here) >= SectionCap(sec)
  <2> DEFINE q == [page EXCEPT !.waiting = Append(@, o)]
  <2>1. Refill(sec, page, o) = q
    BY <1>8, Zenon DEF Refill
  <2>2. q \in Pages /\ q.here = page.here /\ q.waiting = Append(page.waiting, o) /\ q.ledger = page.ledger
    BY <1>2, <1>3, PageMoves
  <2>3. ToSet(q.waiting) = X \cup {o}
    BY <1>3, <1>7, <2>2, ListGrows
  <2>4. Withheld(s, o)
    BY <1>1, <1>2, <1>3, <1>4, <1>8, FullOut
  <2> HIDE DEF q
  <2>5. PageOf(q, D, V)
    BY <1>1, <2>2 DEF PageOf
  <2>6. PageOf(q, (B \cup (taken \cup {o})) \ ToSet(q.waiting), V)
    BY <1>6, <2>3, <2>5
  <2>7. SecondPass(q, taken \cup {o}, B, V, T, W)
    BY <1>1, <1>4, <2>2, <2>3, <2>4, <2>6 DEF SecondPass
  <2> QED
    BY <2>1, <2>7
<1>9. CASE ~(Len(page.here) >= SectionCap(sec)) /\ Crowded(page, sec, o)
  <2> DEFINE q == [page EXCEPT !.ledger.company = @ \union {o}]
  <2>1. Refill(sec, page, o) = q
    BY <1>9, Zenon DEF Refill
  <2>2. q \in Pages /\ q.here = page.here /\ q.waiting = page.waiting /\ HoldsMore(page.ledger, q.ledger, {o})
    BY <1>2, <1>3, PageMoves
  <2>3. Withheld(s, o)
    BY <1>2, <1>3, <1>4, <1>9, CrowdedOut
  <2> HIDE DEF q
  <2>4. q.ledger \in Ledgers /\ q.ledger.shown = s
    BY <2>2 DEF Pages, HoldsMore
  <2>5. Fair(q.ledger, D \cup {o})
    BY <1>2, <1>3, <1>5, <2>2, <2>3, <2>4, HoldsFair
  <2>6. PageOf(q, D \cup {o}, V)
    BY <1>2, <2>2, <2>4, <2>5 DEF PageOf
  <2>7. PageOf(q, (B \cup (taken \cup {o})) \ ToSet(q.waiting), V)
    BY <1>5, <2>2, <2>6
  <2>8. SecondPass(q, taken \cup {o}, B, V, T, W)
    BY <1>1, <1>4, <2>2, <2>4, <2>7 DEF SecondPass
  <2> QED
    BY <2>1, <2>8
<1>10. CASE ~(Len(page.here) >= SectionCap(sec)) /\ ~Crowded(page, sec, o)
  <2> DEFINE q == ShowOn(page, o)
             t == q.ledger.shown
  <2>1. Refill(sec, page, o) = q
    BY <1>10, Zenon DEF Refill
  <2>2. /\ q \in Pages /\ q.here = Append(page.here, o) /\ q.waiting = page.waiting
        /\ t = Append(s, o)
        /\ q.ledger.company = page.ledger.company /\ q.ledger.site = page.ledger.site
        /\ q.ledger.digest = page.ledger.digest /\ q.ledger.faint = page.ledger.faint
        /\ q.ledger.silent = page.ledger.silent /\ q.ledger.known = page.ledger.known
    BY <1>2, <1>3, PageMoves
  <2> HIDE DEF q
  <2>3. ~(Cardinality(OfCompany(s, o)) >= CompanyCapOf(o))
    BY <1>2, <1>3, <1>4, <1>10, CrowdedOut
  <2>4. q.ledger \in Ledgers
    BY <2>2 DEF Pages
  <2>5. Fair(q.ledger, D \cup {o})
    BY <1>2, <1>3, <1>5, <2>2, <2>3, <2>4, ShowsFair
  <2>6. ToSet(t) = ToSet(s) \cup {o}
    BY <1>3, <1>7, <2>2, ListGrows
  <2>7. o \notin H
    <3>1. ToSet(s) \subseteq D
      BY <1>2 DEF Fair, Within
    <3> QED
      BY <1>2, <1>5, <3>1
  <2>8. ToSet(q.here) = H \cup {o} /\ ShownOnce(q.here)
    BY <1>2, <1>3, <1>7, <2>2, <2>7, ListGrows
  <2>9. PageOf(q, D \cup {o}, V)
    <3>1. ToSet(q.here) \subseteq ToSet(t) /\ ToSet(t) \subseteq V \cup ToSet(q.here)
      BY <1>2, <2>6, <2>8
    <3> QED
      BY <2>2, <2>5, <2>8, <3>1 DEF PageOf
  <2>10. PageOf(q, (B \cup (taken \cup {o})) \ ToSet(q.waiting), V)
    BY <1>5, <2>2, <2>9
  <2>11. Ahead(ToSet(t), W \ (taken \cup {o}))
    <3>1. \A k \in W \ (taken \cup {o}) : Before(o, k)
      BY DEF NextOf
    <3> QED
      BY <1>4, <2>6, <3>1 DEF Ahead
  <2>12. \A w \in X : Withheld(t, w)
    <3>1. ToSet(s) \subseteq ToSet(t) /\ ToSet(t) \subseteq Openings
      BY <1>3, <1>7, <2>6
    <3> QED
      BY <1>1, <3>1, WithheldStays
  <2>13. ToSet(q.here) \subseteq T /\ X \subseteq taken \cup {o}
    BY <1>1, <1>3, <2>8
  <2>14. SecondPass(q, taken \cup {o}, B, V, T, W)
    BY <2>2, <2>10, <2>11, <2>12, <2>13 DEF SecondPass
  <2> QED
    BY <2>1, <2>14
<1> QED
  BY <1>8, <1>9, <1>10

\* The second pass over what waited.
LEMMA SecondWalked ==
    ASSUME NEW sec, NEW B, NEW V, NEW T, SectionLike(sec, T), NEW W, W \subseteq T,
           NEW line, LineOf(line, W), B \cap W = {}, B \subseteq Openings,
           NEW start, start.waiting = <<>>, PageOf(start, B, V), ToSet(start.here) \subseteq T,
           Ahead(ToSet(start.ledger.shown), W)
    PROVE  SecondPass(Walk("waiting", sec, start, line), W, B, V, T, W)
<1> DEFINE N == Len(line)
           P(p, n) == SecondPass(p, Taken(line, n), B, V, T, W)
<1>1. /\ N \in Nat /\ Taken(line, 0) = {} /\ Taken(line, N) = W
      /\ \A n \in 0..N : n < N =>
           /\ line[n + 1] \in W /\ line[n + 1] \notin Taken(line, n)
           /\ Taken(line, n + 1) = Taken(line, n) \cup {line[n + 1]}
           /\ \A k \in Taken(line, n) : Before(k, line[n + 1])
           /\ \A k \in W \ Taken(line, n + 1) : Before(line[n + 1], k)
      /\ \A n \in 0..N : Taken(line, n) \subseteq W
  BY TakenInTurn
<1>2. W \subseteq Openings
  BY DEF LineOf
<1>3. PICK g : /\ IsWalking(g, "waiting", sec, start, line, N)
               /\ Walk("waiting", sec, start, line) = g[N]
  BY <1>1, WalkedInTurn
<1>4. g[0] = start /\ \A n \in 1..N : g[n] = TakeUp("waiting", sec, g[n - 1], line[n])
  BY <1>3 DEF IsWalking
<1>5. \A p, o : TakeUp("waiting", sec, p, o) = Refill(sec, p, o)
  <2>1. "waiting" # "section"
    OBVIOUS
  <2> QED
    BY <2>1, Zenon DEF TakeUp
<1>6. P(g[0], 0)
  <2>1. ToSet(start.waiting) = {}
    BY DEF ToSet
  <2>2. (B \cup {}) \ ToSet(start.waiting) = B /\ W \ {} = W
    BY <2>1
  <2>3. SecondPass(start, {}, B, V, T, W)
    BY <2>1, <2>2 DEF SecondPass
  <2> QED
    BY <1>1, <1>4, <2>3
<1>7. ASSUME NEW n \in 0..N, n < N, P(g[n], n) PROVE P(g[n + 1], n + 1)
  <2> DEFINE o == line[n + 1]
             taken == Taken(line, n)
  <2>1. NextOf(o, taken, B, W)
    <3>1. /\ o \in W /\ o \notin taken /\ taken \subseteq W
          /\ \A k \in taken : Before(k, o)
          /\ \A k \in W \ (taken \cup {o}) : Before(o, k)
      BY <1>1, <1>7
    <3> HIDE DEF o, taken
    <3> QED
      BY <1>2, <3>1 DEF NextOf
  <2>2. g[n + 1] = Refill(sec, g[n], o)
    <3>1. n + 1 \in 1..N /\ (n + 1) - 1 = n
      BY <1>1, <1>7
    <3> QED
      BY <1>4, <1>5, <3>1
  <2>3. Taken(line, n + 1) = taken \cup {o}
    BY <1>1, <1>7
  <2>4. SecondPass(g[n], taken, B, V, T, W)
    BY <1>7
  <2> HIDE DEF o, taken
  <2>5. SecondPass(Refill(sec, g[n], o), taken \cup {o}, B, V, T, W)
    BY <2>1, <2>4, SecondConsiders
  <2> QED
    BY <2>2, <2>3, <2>5
<1> DEFINE S == {n \in 0..N : P(g[n], n)}
<1>8. 0 \in S /\ \A n \in 0..N : n < N /\ n \in S => n + 1 \in S
  <2> HIDE DEF P
  <2>1. \A n \in 0..N : n < N => n + 1 \in 0..N
    BY <1>1
  <2> QED
    BY <1>1, <1>6, <1>7, <2>1
<1> HIDE DEF S
<1>9. N \in Nat
  BY <1>1
<1>10. N \in 0..N
  BY <1>9
<1>11. N \in S
  <2> HIDE DEF N
  <2>1. \A n \in 0..N : n \in S
    BY <1>8, <1>9, ReachesAll
  <2> QED
    BY <1>10, <2>1
<1>12. P(g[N], N)
  BY <1>11 DEF S
<1> QED
  BY <1>1, <1>3, <1>12

\* What still waits is counted under the platform cap.
LEMMA WaitingCounted ==
    ASSUME NEW l, NEW D, NEW X \in SUBSET Openings, NEW S, S = D \cup X, D \cap X = {},
           Fair(l, D), \A w \in X : Withheld(l.shown, w)
    PROVE  Fair([l EXCEPT !.site = @ \union X], S)
<1> DEFINE m == [l EXCEPT !.site = @ \union X]
<1>1. l \in Ledgers
  BY DEF Fair
<1>2. m \in Ledgers /\ HoldsMore(l, m, X)
  BY <1>1 DEF Ledgers, HoldsMore
<1> HIDE DEF m
<1>3. Fair(m, D \cup X)
  BY <1>2, HoldsFair
<1> QED
  BY <1>3 DEF m

\* A section is added to a ledger that is right about what came before.
LEMMA SectionAdded ==
    ASSUME EditionShape, edition.engine = "v42", NEW sec \in {"primary", "automation", "verify"},
           NEW T, T = Section(edition.standing, sec),
           NEW l, NEW B, Fair(l, B), B \cap T = {}, Ahead(ToSet(l.shown), T)
    PROVE  LET m == AddSection(edition.standing, l, sec)
           IN  Fair(m, B \cup T) /\ ToSet(m.shown) \subseteq ToSet(l.shown) \cup T
<1> DEFINE V == ToSet(l.shown)
           line == InOrderOf(T)
           first == Walk("section", sec, [ledger |-> l, here |-> <<>>, waiting |-> <<>>], line)
           W == ToSet(first.waiting)
           refill == Backfill /\ SingleSource(T)
           start == [first EXCEPT !.waiting = <<>>]
           second == Walk("waiting", sec, start, first.waiting)
           page == IF refill THEN second ELSE first
           m == [page.ledger EXCEPT !.site = @ \union ToSet(page.waiting)]
<1>1. AddSection(edition.standing, l, sec) = m
  BY Zenon DEF AddSection
<1>2. /\ T \in SUBSET Openings /\ LineOf(line, T)
      /\ \A o \in T : /\ Candidate(o) /\ CompanyCapOf(o) = SectionCompanyCap(sec)
                      /\ PeerCapOf(o) = SectionCap(sec)
                      /\ Refilled(o) => refill
      /\ \A o, k \in T : Peers(o, k) /\ (Site[o] # None /\ Site[k] = Site[o] => Capped(o, k))
  BY SectionFacts
<1>3. SectionLike(sec, T)
  BY <1>2 DEF SectionLike
<1>4. FirstPass(first, T, B, V, T)
  BY <1>2, <1>3, FirstWalked
<1> HIDE DEF first
<1>5. B \in SUBSET Openings
  BY DEF Fair
<1>6. /\ PageOf(first, (B \cup T) \ W, V) /\ ToSet(first.here) \subseteq T /\ W \subseteq T
      /\ \A i, j \in DOMAIN first.waiting : i < j => Before(first.waiting[i], first.waiting[j])
      /\ \A w \in W : SiteHeld(first, w)
      /\ SingleSource(T) => Ahead(ToSet(first.ledger.shown), W)
  BY <1>4 DEF FirstPass
<1>7. /\ first \in Pages /\ Fair(first.ledger, (B \cup T) \ W) /\ ShownOnce(first.here)
      /\ ToSet(first.here) \subseteq ToSet(first.ledger.shown)
      /\ ToSet(first.ledger.shown) \subseteq V \cup ToSet(first.here)
  BY <1>6 DEF PageOf
<1>8. ASSUME NEW p, NEW X, X = ToSet(p.waiting), X \subseteq T,
             PageOf(p, (B \cup T) \ X, V), ToSet(p.here) \subseteq T,
             \A w \in X : Withheld(p.ledger.shown, w)
      PROVE  LET n == [p.ledger EXCEPT !.site = @ \union X]
             IN  Fair(n, B \cup T) /\ ToSet(n.shown) \subseteq V \cup T
  <2> DEFINE n == [p.ledger EXCEPT !.site = @ \union X]
             D == (B \cup T) \ X
  <2>1. Fair(p.ledger, D) /\ ToSet(p.ledger.shown) \subseteq V \cup T /\ p.ledger \in Ledgers
    BY <1>8 DEF PageOf, Fair
  <2>2. B \cup T = D \cup X /\ D \cap X = {} /\ X \in SUBSET Openings
    BY <1>2, <1>8
  <2>3. n.shown = p.ledger.shown
    BY <2>1 DEF Ledgers
  <2> HIDE DEF D
  <2>4. Fair(n, B \cup T)
    BY <1>8, <2>1, <2>2, WaitingCounted
  <2> QED
    BY <2>1, <2>3, <2>4
<1>9. CASE ~refill
  <2>1. \A w \in W : Withheld(first.ledger.shown, w)
    <3> SUFFICES ASSUME NEW w \in W PROVE Withheld(first.ledger.shown, w)
      OBVIOUS
    <3>1. ~Refilled(w)
      BY <1>2, <1>6, <1>9
    <3>2. SiteCap > 0 /\ Cardinality(SiteRivals(first.ledger.shown, w)) >= SiteCap
      BY <1>6 DEF SiteHeld
    <3> QED
      BY <3>1, <3>2, Zenon DEF Withheld
  <2>2. page = first
    BY <1>9
  <2>3. LET n == [first.ledger EXCEPT !.site = @ \union W]
        IN  Fair(n, B \cup T) /\ ToSet(n.shown) \subseteq V \cup T
    <3> HIDE DEF V
    <3> QED
      BY <1>6, <1>8, <2>1
  <2>4. m = [first.ledger EXCEPT !.site = @ \union W]
    BY <2>2
  <2> QED
    BY <1>1, <2>3, <2>4
<1>10. CASE refill
  <2> DEFINE B2 == (B \cup T) \ W
             w1 == first.waiting
  <2>1. w1 \in Seq(Openings)
    BY <1>7 DEF Pages
  <2>2. w1 \in Seq(W) /\ \A o \in W : \E i \in DOMAIN w1 : w1[i] = o
    <3>1. \A i \in DOMAIN w1 : w1[i] \in W
      BY DEF ToSet
    <3>2. \A o \in W : \E i \in DOMAIN w1 : w1[i] = o
      BY DEF ToSet
    <3> HIDE DEF W, w1
    <3>3. w1 \in [1..Len(w1) -> W] /\ Len(w1) \in Nat
      BY <2>1, <3>1
    <3>4. w1 \in Seq(W)
      BY <3>3
    <3> QED
      BY <3>2, <3>4
  <2>3. LineOf(w1, W)
    <3>1. W \subseteq Openings
      BY <1>2, <1>6
    <3> HIDE DEF W
    <3> QED
      BY <1>6, <2>2, <3>1 DEF LineOf
  <2>4. /\ start \in Pages /\ start.here = first.here /\ start.waiting = <<>>
        /\ start.ledger = first.ledger
    <3> DEFINE none == <<>>
    <3>1. none \in Seq(Openings)
      BY EmptySeq
    <3> HIDE DEF none
    <3>2. LET r == [first EXCEPT !.waiting = none]
          IN  r \in Pages /\ r.here = first.here /\ r.waiting = none /\ r.ledger = first.ledger
      BY <1>7, <3>1 DEF Pages
    <3> QED
      BY <3>2 DEF none
  <2> HIDE DEF start
  <2>5. PageOf(start, B2, V)
    BY <1>7, <2>4 DEF PageOf
  <2>6. B2 \cap W = {} /\ B2 \subseteq Openings /\ B2 \cup W = B \cup T
    BY <1>2, <1>5, <1>6
  <2>7. Ahead(ToSet(start.ledger.shown), W) /\ ToSet(start.here) \subseteq T
    BY <1>6, <1>10, <2>4
  <2>8. SecondPass(second, W, B2, V, T, W)
    <3> HIDE DEF B2, W, V, second
    <3> QED
      BY <1>3, <1>6, <2>3, <2>4, <2>5, <2>6, <2>7, SecondWalked DEF second
  <2> HIDE DEF second
  <2> DEFINE X == ToSet(second.waiting)
  <2>9. /\ PageOf(second, (B2 \cup W) \ X, V) /\ ToSet(second.here) \subseteq T /\ X \subseteq W
        /\ \A w \in X : Withheld(second.ledger.shown, w)
    BY <2>8 DEF SecondPass
  <2>10. PageOf(second, (B \cup T) \ X, V) /\ X \subseteq T
    BY <1>6, <2>6, <2>9
  <2>11. LET n == [second.ledger EXCEPT !.site = @ \union X]
         IN  Fair(n, B \cup T) /\ ToSet(n.shown) \subseteq V \cup T
    <3> HIDE DEF V
    <3> QED
      BY <1>8, <2>9, <2>10
  <2>12. m = [second.ledger EXCEPT !.site = @ \union X]
    BY <1>10
  <2> QED
    BY <1>1, <2>11, <2>12
<1> QED
  BY <1>9, <1>10

\* What a digest must settle.
Surfaced == {o \in Openings : edition.standing[o] # "rejected"}

\* The empty ledger, and one that holds what is faint or silent from the start.
LEMMA StartIsFair ==
    ASSUME EditionShape
    PROVE  /\ EmptyLedger.shown = <<>> /\ Fair(EmptyLedger, {})
           /\ LET F == {o \in Openings : edition.standing[o] = "faint"}
                  Q == {o \in Openings : edition.standing[o] = "silent"}
                  start == [EmptyLedger EXCEPT !.faint = F, !.silent = Q]
              IN  start.shown = <<>> /\ Fair(start, F \cup Q)
<1> DEFINE none == <<>>
           e == EmptyLedger
           F == {o \in Openings : edition.standing[o] = "faint"}
           Q == {o \in Openings : edition.standing[o] = "silent"}
           a == [e EXCEPT !.faint = F]
           b == [a EXCEPT !.silent = Q]
<1>1. none \in Seq(Openings) /\ Len(none) = 0 /\ ToSet(none) = {} /\ DOMAIN none = {}
  BY EmptySeq DEF ToSet
<1>2. Cardinality({}) = 0
  BY FS_EmptySet
<1>3. ShownOnce(none) /\ CompaniesCapped(none)
  BY <1>1 DEF ShownOnce, CompaniesCapped
<1>4. e = [shown |-> none, company |-> {}, site |-> {}, digest |-> {},
           faint |-> {}, silent |-> {}, known |-> {}]
  BY DEF EmptyLedger
<1> HIDE DEF none, e
<1>5. /\ e \in Ledgers /\ e.shown = none /\ e.company = {} /\ e.site = {} /\ e.digest = {}
      /\ e.faint = {} /\ e.silent = {} /\ e.known = {}
  BY <1>1, <1>4 DEF Ledgers
<1>6. Fair(e, {})
  <2>1. Counted(e) = 0
    BY <1>1, <1>2, <1>5 DEF Counted
  <2>2. Within(e, {}) /\ Justified(e.shown, {})
    BY <1>1, <1>5 DEF Within, Justified
  <2> QED
    BY <1>2, <1>3, <1>5, <2>1, <2>2 DEF Fair
<1>7. F \in SUBSET Openings /\ Q \in SUBSET Openings /\ F \cap Q = {}
  OBVIOUS
<1>8. \A o \in F \cup Q : ~Candidate(o)
  BY DEF Candidate
<1> HIDE DEF F, Q
<1>9. a \in Ledgers /\ HoldsMore(e, a, F) /\ a.shown = none
  BY <1>5, <1>7 DEF Ledgers, HoldsMore
<1>10. Fair(a, {} \cup F)
  BY <1>6, <1>7, <1>8, <1>9, HoldsFair
<1>11. {} \cup F = F
  OBVIOUS
<1>17. a.silent = {}
  BY <1>5 DEF Ledgers
<1> HIDE DEF a
<1>12. b \in Ledgers /\ HoldsMore(a, b, Q) /\ b.shown = none
  BY <1>7, <1>9, <1>17 DEF Ledgers, HoldsMore
<1> HIDE DEF b
<1>13. Fair(b, F \cup Q)
  BY <1>7, <1>8, <1>10, <1>11, <1>12, HoldsFair
<1>14. [e EXCEPT !.faint = F, !.silent = Q] = b
  BY DEF a, b
<1>15. EmptyLedger = e /\ <<>> = none
  BY DEF e, none
<1> QED
  BY <1>5, <1>6, <1>12, <1>13, <1>14, <1>15, Zenon DEF F, Q

\* A digest of three sections settles all there is.
LEMMA DailyIsFair ==
    ASSUME EditionShape, edition.engine = "v42"
    PROVE  Fair(DailyDigest(edition.standing), Surfaced)
<1> DEFINE st == edition.standing
           F == {o \in Openings : st[o] = "faint"}
           Q == {o \in Openings : st[o] = "silent"}
           B == F \cup Q
           start == [EmptyLedger EXCEPT !.faint = F, !.silent = Q]
           T1 == Section(st, "primary")
           T2 == Section(st, "automation")
           T3 == Section(st, "verify")
           l1 == AddSection(st, start, "primary")
           l2 == AddSection(st, l1, "automation")
           l3 == AddSection(st, l2, "verify")
<1>1. DailyDigest(st) = l3
  BY Zenon DEF DailyDigest
<1>2. start.shown = <<>> /\ Fair(start, B)
  BY StartIsFair
<1>3. st \in [Openings -> Standings] /\ \A o \in Openings : st[o] # "known"
  BY DEF EditionShape
<1>4. /\ \A o \in T1 : SectionOf(st, o) = "primary" /\ o \in Openings /\ o \notin B
      /\ \A o \in T2 : SectionOf(st, o) = "automation" /\ o \in Openings /\ o \notin B
      /\ \A o \in T3 : SectionOf(st, o) = "verify" /\ o \in Openings /\ o \notin B
  BY DEF Section
<1>5. B \cap T1 = {} /\ (B \cup T1) \cap T2 = {} /\ ((B \cup T1) \cup T2) \cap T3 = {}
  <2> HIDE DEF B, T1, T2, T3
  <2> QED
    BY <1>4
<1>6. ((B \cup T1) \cup T2) \cup T3 = Surfaced
  BY <1>3 DEF Section, SectionOf, Surfaced, Standings
<1>7. \A o \in Openings : /\ SectionOf(st, o) = "primary" => FillTurn(o) = 1
                          /\ SectionOf(st, o) = "automation" => FillTurn(o) = 2
                          /\ SectionOf(st, o) = "verify" => FillTurn(o) = 3
  <2> SUFFICES ASSUME NEW o \in Openings
               PROVE  /\ SectionOf(st, o) = "primary" => FillTurn(o) = 1
                      /\ SectionOf(st, o) = "automation" => FillTurn(o) = 2
                      /\ SectionOf(st, o) = "verify" => FillTurn(o) = 3
    OBVIOUS
  <2> DEFINE x == SectionOf(st, o)
  <2>1. FillTurn(o) = CASE x = "primary" -> 1 [] x = "automation" -> 2 [] OTHER -> 3
    BY Zenon DEF FillTurn
  <2> HIDE DEF x
  <2>2. /\ x = "primary" => FillTurn(o) = 1
        /\ x = "automation" => FillTurn(o) = 2
        /\ x = "verify" => FillTurn(o) = 3
    BY <2>1
  <2> QED
    BY <2>2 DEF x
<1>8. Ahead(T1, T2) /\ Ahead(T1 \cup T2, T3)
  <2>1. /\ \A o \in T1 : FillTurn(o) = 1
        /\ \A o \in T2 : FillTurn(o) = 2
        /\ \A o \in T3 : FillTurn(o) = 3
    BY <1>4, <1>7
  <2> HIDE DEF T1, T2, T3
  <2>2. \A k \in T1, o \in T2 : FillTurn(k) < FillTurn(o)
    BY <2>1
  <2>3. \A k \in T1 \cup T2, o \in T3 : FillTurn(k) < FillTurn(o)
    BY <2>1
  <2> QED
    BY <2>2, <2>3, Zenon DEF Ahead, Before
<1>9. ToSet(start.shown) = {}
  BY <1>2 DEF ToSet
<1> HIDE DEF start, B
<1>10. Fair(l1, B \cup T1) /\ ToSet(l1.shown) \subseteq {} \cup T1
  <2>1. Ahead(ToSet(start.shown), T1)
    BY <1>9 DEF Ahead
  <2>2. LET m == AddSection(edition.standing, start, "primary")
        IN  Fair(m, B \cup T1) /\ ToSet(m.shown) \subseteq ToSet(start.shown) \cup T1
    <3> HIDE DEF T1
    <3> QED
      BY <1>2, <1>5, <2>1, SectionAdded DEF T1
  <2> QED
    BY <1>9, <2>2
<1> HIDE DEF l1
<1>11. Fair(l2, (B \cup T1) \cup T2) /\ ToSet(l2.shown) \subseteq T1 \cup T2
  <2>1. Ahead(ToSet(l1.shown), T2)
    BY <1>8, <1>10 DEF Ahead
  <2>2. LET m == AddSection(edition.standing, l1, "automation")
        IN  Fair(m, (B \cup T1) \cup T2) /\ ToSet(m.shown) \subseteq ToSet(l1.shown) \cup T2
    <3> HIDE DEF T1, T2
    <3> QED
      BY <1>5, <1>10, <2>1, SectionAdded DEF T2
  <2> QED
    BY <1>10, <2>2
<1> HIDE DEF l2
<1>12. Fair(l3, ((B \cup T1) \cup T2) \cup T3)
  <2>1. Ahead(ToSet(l2.shown), T3)
    BY <1>8, <1>11 DEF Ahead
  <2>2. LET m == AddSection(edition.standing, l2, "verify")
        IN  Fair(m, ((B \cup T1) \cup T2) \cup T3)
    <3> HIDE DEF T1, T2, T3
    <3> QED
      BY <1>5, <1>11, <2>1, SectionAdded DEF T3
  <2> QED
    BY <2>2
<1> QED
  BY <1>1, <1>6, <1>12

\* The release order: the primaries, then the rest of what surfaced.
LEMMA ReleaseInOrder ==
    ASSUME EditionShape, edition.engine = "v5"
    PROVE  LineOf(ReleaseOrder(edition.standing), Surfaced)
<1> DEFINE st == edition.standing
           P == {o \in Openings : st[o] = "primary"}
           Q == {o \in Openings : st[o] # "primary" /\ st[o] # "rejected"}
           p == InOrderOf(P)
           q == InOrderOf(Q)
           m == Cardinality(P)
           n == Cardinality(Q)
           line == p \o q
           T == Surfaced
<1>1. ReleaseOrder(st) = line
  BY Zenon DEF ReleaseOrder
<1>2. P \in SUBSET Openings /\ Q \in SUBSET Openings
  OBVIOUS
<1>3. P \cup Q = T
  BY DEF Surfaced
<1>4. (\A o \in P : FillTurn(o) = 1) /\ (\A o \in Q : FillTurn(o) = 2)
  BY DEF FillTurn
<1> HIDE DEF P, Q, T
<1>5. /\ m \in Nat /\ p \in [1..m -> P]
      /\ \A o \in P : \E i \in 1..m : p[i] = o
      /\ \A i, j \in 1..m : i < j => p[i] < p[j]
  BY <1>2, OrderRises
<1>6. /\ n \in Nat /\ q \in [1..n -> Q]
      /\ \A o \in Q : \E i \in 1..n : q[i] = o
      /\ \A i, j \in 1..n : i < j => q[i] < q[j]
  BY <1>2, OrderRises
<1> HIDE DEF m, n, p, q
<1>7. /\ p \in Seq(T) /\ q \in Seq(T) /\ Len(p) = m /\ Len(q) = n
  BY <1>3, <1>5, <1>6
<1>8. /\ line \in Seq(T) /\ Len(line) = m + n
      /\ \A i \in 1..(m + n) : line[i] = IF i <= m THEN p[i] ELSE q[i - m]
  BY <1>7, ConcatProperties
<1> HIDE DEF line
<1>9. DOMAIN line = 1..(m + n)
  BY <1>8
<1>10. \A i \in 1..m : i \in 1..(m + n) /\ line[i] = p[i] /\ p[i] \in P
  BY <1>5, <1>6, <1>8
<1>11. \A i \in 1..n : m + i \in 1..(m + n) /\ line[m + i] = q[i] /\ q[i] \in Q
  <2> SUFFICES ASSUME NEW i \in 1..n
               PROVE  m + i \in 1..(m + n) /\ line[m + i] = q[i] /\ q[i] \in Q
    OBVIOUS
  <2>1. m + i \in 1..(m + n) /\ ~(m + i <= m) /\ (m + i) - m = i
    BY <1>5, <1>6
  <2> QED
    BY <1>6, <1>8, <2>1
<1>12. \A o \in T : \E i \in DOMAIN line : line[i] = o
  <2> SUFFICES ASSUME NEW o \in T PROVE \E i \in DOMAIN line : line[i] = o
    OBVIOUS
  <2>1. CASE o \in P
    BY <1>5, <1>9, <1>10, <2>1
  <2>2. CASE o \in Q
    BY <1>6, <1>9, <1>11, <2>2
  <2> QED
    BY <1>3, <2>1, <2>2
<1>13. ASSUME NEW i \in DOMAIN line, NEW j \in DOMAIN line, i < j
       PROVE  Before(line[i], line[j])
  <2>1. i \in Nat /\ j \in Nat /\ i \in 1..(m + n) /\ j \in 1..(m + n)
    BY <1>5, <1>6, <1>9
  <2>2. CASE j <= m
    <3>1. i \in 1..m /\ j \in 1..m
      BY <1>5, <1>13, <2>1, <2>2
    <3>2. line[i] < line[j] /\ line[i] \in P /\ line[j] \in P
      BY <1>5, <1>10, <1>13, <3>1
    <3>3. FillTurn(line[i]) = FillTurn(line[j])
      BY <1>4, <3>2
    <3> QED
      BY <3>2, <3>3, Zenon DEF Before
  <2>3. CASE i <= m /\ ~(j <= m)
    <3>1. i \in 1..m /\ j - m \in 1..n /\ m + (j - m) = j
      BY <1>5, <1>6, <2>1, <2>3
    <3>2. line[i] \in P /\ line[j] \in Q
      BY <1>10, <1>11, <3>1
    <3>3. FillTurn(line[i]) < FillTurn(line[j])
      BY <1>4, <3>2
    <3> QED
      BY <3>3, Zenon DEF Before
  <2>4. CASE ~(i <= m)
    <3>1. /\ i - m \in 1..n /\ m + (i - m) = i /\ j - m \in 1..n /\ m + (j - m) = j
          /\ i - m < j - m
      <4>1. i > m /\ j > m /\ i <= m + n /\ j <= m + n
        BY <1>5, <1>6, <1>13, <2>1, <2>4
      <4>2. i \in Int /\ j \in Int /\ m \in Int /\ n \in Int
        BY <1>5, <1>6, <2>1
      <4>3. i - m \in 1..n /\ m + (i - m) = i
        BY <4>1, <4>2
      <4>4. j - m \in 1..n /\ m + (j - m) = j
        BY <4>1, <4>2
      <4>5. i - m < j - m
        BY <1>13, <4>2
      <4> QED
        BY <4>3, <4>4, <4>5
    <3>2. line[i] = q[i - m] /\ line[j] = q[j - m] /\ line[i] \in Q /\ line[j] \in Q
      BY <1>11, <3>1
    <3>3. line[i] < line[j]
      BY <1>6, <3>1, <3>2
    <3>4. FillTurn(line[i]) = FillTurn(line[j])
      BY <1>4, <3>2
    <3> QED
      BY <3>3, <3>4, Zenon DEF Before
  <2> QED
    BY <2>2, <2>3, <2>4
<1>14. T \subseteq Openings
  BY <1>2, <1>3
<1>15. LineOf(line, T)
  BY <1>8, <1>12, <1>13, <1>14 DEF LineOf
<1> QED
  BY <1>1, <1>15 DEF T

\* The release walk places the next posting.
LEMMA PlacedFairly ==
    ASSUME EditionShape, edition.engine = "v5", NEW S, NEW o \in Openings, o \notin S,
           NEW l, Fair(l, S), \A k \in S : Before(k, o)
    PROVE  Fair(Place(edition.standing, l, o), S \cup {o})
<1> DEFINE st == edition.standing
           s == l.shown
<1>1. l \in Ledgers /\ ToSet(s) \subseteq S /\ S \subseteq Openings
  BY DEF Fair, Within
<1>2. s \in Seq(Openings) /\ ToSet(s) \subseteq Openings
  BY <1>1, LedgerFields
<1>3. \A k \in ToSet(s) : Before(k, o)
  BY <1>1
<1>4. CompanyCapOf(o) = CompanyCap /\ PeerCapOf(o) = BandCap /\ ~Refilled(o)
  BY DEF CompanyCapOf, PeerCapOf, Refilled
<1>5. ASSUME NEW m \in Ledgers, HoldsMore(l, m, {o}), Candidate(o) => Withheld(s, o)
      PROVE  Fair(m, S \cup {o})
  <2>1. S \cap {o} = {}
    OBVIOUS
  <2> QED
    BY <1>5, <2>1, HoldsFair
<1>6. CASE st[o] = "known"
  <2> DEFINE m == [l EXCEPT !.known = @ \union {o}]
  <2>1. Place(st, l, o) = m
    BY <1>6, Zenon DEF Place
  <2>2. m \in Ledgers /\ HoldsMore(l, m, {o})
    BY <1>1 DEF Ledgers, HoldsMore
  <2>3. ~Candidate(o)
    BY <1>6 DEF Candidate
  <2> HIDE DEF m
  <2> QED
    BY <1>5, <2>1, <2>2, <2>3
<1>7. CASE st[o] # "known" /\ st[o] = "silent"
  <2> DEFINE m == [l EXCEPT !.silent = @ \union {o}]
  <2>1. Place(st, l, o) = m
    BY <1>7, Zenon DEF Place
  <2>2. m \in Ledgers /\ HoldsMore(l, m, {o})
    BY <1>1 DEF Ledgers, HoldsMore
  <2>3. ~Candidate(o)
    BY <1>7 DEF Candidate
  <2> HIDE DEF m
  <2> QED
    BY <1>5, <2>1, <2>2, <2>3
<1> DEFINE C == OfCompany(s, o)
           M == OnMarketplace(s, o)
           K == {k \in ToSet(s) : st[k] = st[o]}
<1>8. CASE st[o] # "known" /\ st[o] # "silent" /\ Cardinality(C) >= CompanyCap
  <2> DEFINE m == [l EXCEPT !.company = @ \union {o}]
  <2>1. Place(st, l, o) = m
    BY <1>8, Zenon DEF Place
  <2>2. m \in Ledgers /\ HoldsMore(l, m, {o})
    BY <1>1 DEF Ledgers, HoldsMore
  <2>3. C \subseteq ToSet(s) /\ (\A k \in C : Before(k, o)) /\ \A k \in C : Company[k] = Company[o]
    BY <1>3 DEF OfCompany
  <2>4. Cardinality(C) >= CompanyCapOf(o)
    BY <1>4, <1>8
  <2>5. Withheld(s, o)
    <3> HIDE DEF C, s
    <3> QED
      BY <1>2, <2>3, <2>4, RivalsWithhold
  <2> HIDE DEF m
  <2> QED
    BY <1>5, <2>1, <2>2, <2>5
<1>9. CASE /\ st[o] # "known" /\ st[o] # "silent" /\ ~(Cardinality(C) >= CompanyCap)
           /\ SiteCap > 0 /\ Cardinality(M) >= SiteCap
  <2> DEFINE m == [l EXCEPT !.site = @ \union {o}]
  <2>1. Place(st, l, o) = m
    BY <1>9, Zenon DEF Place
  <2>2. m \in Ledgers /\ HoldsMore(l, m, {o})
    BY <1>1 DEF Ledgers, HoldsMore
  <2>3. M \subseteq ToSet(s) /\ (\A k \in M : Before(k, o)) /\ \A k \in M : Capped(o, k)
    BY <1>3 DEF OnMarketplace, Capped
  <2>4. Cardinality(SiteRivals(s, o)) >= Cardinality(M)
    <3> HIDE DEF M, s
    <3> QED
      BY <1>2, <2>3, RivalsWithhold
  <2> DEFINE a == Cardinality(SiteRivals(s, o))
             b == Cardinality(M)
  <2>5. SiteRivals(s, o) \in SUBSET Openings /\ M \in SUBSET Openings
    BY <1>2, <2>3 DEF SiteRivals, Earlier
  <2>6. a \in Nat /\ b \in Nat /\ SiteCap \in Nat /\ a >= b /\ b >= SiteCap
    BY <1>9, <2>4, <2>5, FewerOpenings, CapsCount
  <2>7. a >= SiteCap
    <3> HIDE DEF a, b
    <3> QED
      BY <2>6
  <2>8. Withheld(s, o)
    BY <1>4, <1>9, <2>7, Zenon DEF Withheld
  <2> HIDE DEF m
  <2> QED
    BY <1>5, <2>1, <2>2, <2>8
<1>10. CASE /\ st[o] # "known" /\ st[o] # "silent" /\ ~(Cardinality(C) >= CompanyCap)
            /\ ~(SiteCap > 0 /\ Cardinality(M) >= SiteCap) /\ Cardinality(K) >= BandCap
  <2> DEFINE m == [l EXCEPT !.digest = @ \union {o}]
  <2>1. Place(st, l, o) = m
    BY <1>10, Zenon DEF Place
  <2>2. m \in Ledgers /\ HoldsMore(l, m, {o})
    BY <1>1 DEF Ledgers, HoldsMore
  <2>3. K \subseteq ToSet(s) /\ (\A k \in K : Before(k, o)) /\ \A k \in K : Peers(o, k)
    BY <1>3 DEF Peers
  <2>4. Cardinality(K) >= PeerCapOf(o)
    BY <1>4, <1>10
  <2>5. Withheld(s, o)
    <3> HIDE DEF K, s
    <3> QED
      BY <1>2, <2>3, <2>4, RivalsWithhold
  <2> HIDE DEF m
  <2> QED
    BY <1>5, <2>1, <2>2, <2>5
<1>11. CASE /\ st[o] # "known" /\ st[o] # "silent" /\ ~(Cardinality(C) >= CompanyCap)
            /\ ~(SiteCap > 0 /\ Cardinality(M) >= SiteCap) /\ ~(Cardinality(K) >= BandCap)
  <2> DEFINE t == Append(s, o)
             m == [l EXCEPT !.shown = t]
  <2>1. Place(st, l, o) = m
    BY <1>11, Zenon DEF Place
  <2>2. t \in Seq(Openings)
    BY <1>2, AppendProperties
  <2> HIDE DEF t
  <2>3. /\ m \in Ledgers /\ m.shown = t /\ m.company = l.company /\ m.site = l.site
        /\ m.digest = l.digest /\ m.faint = l.faint /\ m.silent = l.silent /\ m.known = l.known
    BY <1>1, <2>2 DEF Ledgers
  <2> HIDE DEF m
  <2>4. m.shown = Append(l.shown, o)
    BY <2>3 DEF t
  <2>5. ~(Cardinality(OfCompany(l.shown, o)) >= CompanyCapOf(o))
    BY <1>4, <1>11
  <2> HIDE DEF s
  <2>6. Fair(m, S \cup {o})
    BY <2>3, <2>4, <2>5, ShowsFair
  <2> QED
    BY <2>1, <2>6
<1> QED
  BY <1>6, <1>7, <1>8, <1>9, <1>10, <1>11

\* A release settles all there is.
LEMMA ReleaseIsFair ==
    ASSUME EditionShape, edition.engine = "v5"
    PROVE  Fair(ReleaseDigest(edition.standing), Surfaced)
<1> DEFINE st == edition.standing
           T == Surfaced
           line == ReleaseOrder(st)
           N == Len(line)
           P(l, n) == Fair(l, Taken(line, n))
<1>1. LineOf(line, T)
  BY ReleaseInOrder
<1>2. /\ N \in Nat /\ Taken(line, 0) = {} /\ Taken(line, N) = T
      /\ \A n \in 0..N : n < N =>
           /\ line[n + 1] \in T /\ line[n + 1] \notin Taken(line, n)
           /\ Taken(line, n + 1) = Taken(line, n) \cup {line[n + 1]}
           /\ \A k \in Taken(line, n) : Before(k, line[n + 1])
  BY <1>1, TakenInTurn
<1> HIDE DEF line
<1>3. PICK g : /\ IsWalking(g, "release", st, EmptyLedger, line, N)
               /\ Walk("release", st, EmptyLedger, line) = g[N]
  BY <1>2, WalkedInTurn
<1>4. ReleaseDigest(st) = g[N]
  BY <1>3, Zenon DEF ReleaseDigest, line
<1>5. g[0] = EmptyLedger /\ \A n \in 1..N : g[n] = TakeUp("release", st, g[n - 1], line[n])
  BY <1>3 DEF IsWalking
<1>6. \A p, o : TakeUp("release", st, p, o) = Place(st, p, o)
  <2>1. "release" # "section" /\ "release" # "waiting"
    OBVIOUS
  <2> QED
    BY <2>1, Zenon DEF TakeUp
<1>7. P(g[0], 0)
  <2>1. Fair(EmptyLedger, {})
    BY StartIsFair
  <2> QED
    BY <1>2, <1>5, <2>1
<1>8. ASSUME NEW n \in 0..N, n < N, P(g[n], n) PROVE P(g[n + 1], n + 1)
  <2> DEFINE o == line[n + 1]
             S == Taken(line, n)
             l == g[n]
  <2>1. /\ o \in T /\ o \notin S /\ Taken(line, n + 1) = S \cup {o}
        /\ \A k \in S : Before(k, o)
    BY <1>2, <1>8
  <2>2. g[n + 1] = Place(st, l, o)
    <3>1. n + 1 \in 1..N /\ (n + 1) - 1 = n
      BY <1>2, <1>8
    <3> QED
      BY <1>5, <1>6, <3>1
  <2>3. Fair(l, S) /\ o \in Openings
    BY <1>8, <2>1 DEF Surfaced
  <2> HIDE DEF o, S, l
  <2>4. Fair(Place(st, l, o), S \cup {o})
    BY <2>1, <2>3, PlacedFairly
  <2> QED
    BY <2>1, <2>2, <2>4
<1> DEFINE S == {n \in 0..N : P(g[n], n)}
<1>9. 0 \in S /\ \A n \in 0..N : n < N /\ n \in S => n + 1 \in S
  <2> HIDE DEF P
  <2>1. \A n \in 0..N : n < N => n + 1 \in 0..N
    BY <1>2
  <2> QED
    BY <1>2, <1>7, <1>8, <2>1
<1> HIDE DEF S
<1>10. N \in Nat
  BY <1>2
<1>11. N \in 0..N
  BY <1>10
<1>12. N \in S
  <2> HIDE DEF N
  <2>1. \A n \in 0..N : n \in S
    BY <1>9, <1>10, ReachesAll
  <2> QED
    BY <1>11, <2>1
<1>13. P(g[N], N)
  BY <1>12 DEF S
<1> QED
  BY <1>2, <1>4, <1>13

\* What is built is the digest of the engine for the postings as they stand.
EditionInv ==
    /\ EditionShape
    /\ edition = [engine |-> edition.engine, standing |-> edition.standing,
                  ledger |-> edition.ledger, built |-> edition.built]
    /\ edition.built => edition.ledger = DigestOf(edition.engine, edition.standing)

LEMMA EditionInvInit == ASSUME EditionInit PROVE EditionInv
<1>1. CASE edition \in {[engine |-> "v42", standing |-> s, ledger |-> EmptyLedger, built |-> FALSE] :
                          s \in [Openings -> Standings \ {"known"}]}
  <2>1. PICK s \in [Openings -> Standings \ {"known"}] :
          edition = [engine |-> "v42", standing |-> s, ledger |-> EmptyLedger, built |-> FALSE]
    BY <1>1
  <2>2. edition.engine = "v42" /\ edition.standing = s /\ edition.built = FALSE
    BY <2>1
  <2>3. s \in [Openings -> Standings] /\ \A o \in Openings : s[o] # "known"
    OBVIOUS
  <2> QED
    BY <2>1, <2>2, <2>3 DEF EditionInv, EditionShape
<1>2. CASE edition \in {[engine |-> "v5", standing |-> s, ledger |-> EmptyLedger, built |-> FALSE] :
                          s \in [Openings -> Standings \ {"faint"}]}
  <2>1. PICK s \in [Openings -> Standings \ {"faint"}] :
          edition = [engine |-> "v5", standing |-> s, ledger |-> EmptyLedger, built |-> FALSE]
    BY <1>2
  <2>2. edition.engine = "v5" /\ edition.standing = s /\ edition.built = FALSE
    BY <2>1
  <2>3. s \in [Openings -> Standings]
    OBVIOUS
  <2> QED
    BY <2>1, <2>2, <2>3 DEF EditionInv, EditionShape
<1> QED
  BY <1>1, <1>2 DEF EditionInit

LEMMA EditionInvStep == ASSUME EditionInv, [BuildEdition]_edition PROVE EditionInv'
<1>1. CASE UNCHANGED edition
  BY <1>1 DEF EditionInv, EditionShape
<1>2. CASE BuildEdition
  <2> DEFINE d == DigestOf(edition.engine, edition.standing)
  <2>1. edition' = [edition EXCEPT !.built = TRUE, !.ledger = d]
    BY <1>2, Zenon DEF BuildEdition
  <2> HIDE DEF d
  <2>2. edition' = [engine |-> edition.engine, standing |-> edition.standing,
                    ledger |-> d, built |-> TRUE]
    BY <2>1 DEF EditionInv
  <2>3. /\ edition'.engine = edition.engine /\ edition'.standing = edition.standing
        /\ edition'.ledger = d /\ edition'.built = TRUE
    BY <2>2
  <2>4. edition'.ledger = DigestOf(edition'.engine, edition'.standing)
    BY <2>3 DEF d
  <2>5. EditionShape'
    BY <2>3 DEF EditionInv, EditionShape
  <2> QED
    BY <2>2, <2>3, <2>4, <2>5 DEF EditionInv
<1> QED
  BY <1>1, <1>2

LEMMA EditionIsJust == ASSUME EditionInv PROVE WithheldForBetter
<1> SUFFICES ASSUME edition.built PROVE WithheldForBetter
  BY DEF WithheldForBetter
<1> DEFINE l == edition.ledger
           shown == l.shown
<1>1. EditionShape /\ l = DigestOf(edition.engine, edition.standing)
  BY DEF EditionInv
<1>2. Fair(l, Surfaced)
  <2>1. CASE edition.engine = "v5"
    <3>1. l = ReleaseDigest(edition.standing)
      BY <1>1, <2>1 DEF DigestOf
    <3> QED
      BY <1>1, <2>1, <3>1, ReleaseIsFair
  <2>2. CASE edition.engine = "v42"
    <3>1. l = DailyDigest(edition.standing)
      BY <1>1, <2>2 DEF DigestOf
    <3> QED
      BY <1>1, <2>2, <3>1, DailyIsFair
  <2> QED
    BY <1>1, <2>1, <2>2 DEF EditionShape
<1>3. /\ ShownOnce(shown) /\ CompaniesCapped(shown) /\ Cardinality(Surfaced) = Counted(l)
      /\ Justified(shown, Surfaced)
  BY <1>2 DEF Fair
<1>4. AddsUp(edition.standing, l)
  BY <1>3 DEF AddsUp, Surfaced, Counted
<1>5. \A o \in Openings : edition.standing[o] \in {"primary", "verify"} =>
        o \in ToSet(shown) \/ Withheld(shown, o)
  <2> SUFFICES ASSUME NEW o \in Openings, edition.standing[o] \in {"primary", "verify"}
               PROVE  o \in ToSet(shown) \/ Withheld(shown, o)
    OBVIOUS
  <2>1. o \in Surfaced /\ Candidate(o)
    BY DEF Surfaced, Candidate
  <2> QED
    BY <1>3, <2>1 DEF Justified
<1> QED
  BY <1>3, <1>4, <1>5, Zenon DEF WithheldForBetter

\* No digest withholds a posting for nothing, loses one or shows one twice, for
\* every set of postings and every choice of caps: what is a candidate and not
\* shown meets a cap used up by what was shown before it, and with each posting
\* shown its company keeps to the cap (v41/digest.py).
THEOREM DigestIsJust == EditionSpec => []WithheldForBetter
<1>1. EditionInit => EditionInv
  BY EditionInvInit
<1>2. EditionInv /\ [BuildEdition]_edition => EditionInv'
  BY EditionInvStep
<1>3. EditionInv => WithheldForBetter
  BY EditionIsJust
<1> QED
  BY <1>1, <1>2, <1>3, PTL DEF EditionSpec
=============================================================================
