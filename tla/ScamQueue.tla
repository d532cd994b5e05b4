------------------------------ MODULE ScamQueue ------------------------------
(***************************************************************************)
(* The model's second opinion on suspicious postings: a run asks about at  *)
(* most JobsPerRun of them, in batches, within a daily number of calls;    *)
(* what it could not ask is kept in a file of pending IDs and goes first   *)
(* in the next run.  Failures never stop the run, and its rules-only       *)
(* scores stand until an answer raises them.                               *)
(***************************************************************************)
EXTENDS WorkspaceFiles, FiniteSets

CONSTANTS
  Suspects,       \* the postings, numbered in the order of a run's result
  Askers,         \* run processes
  JobsPerRun, BatchSize, Retries, CallsPerDay,
  MaxAsks,        \* bound: passes begun
  LastAskDay,     \* bound: the last day
  MaxSetbacks     \* bound: setbacks

ASSUME AskersAreFew == IsFiniteSet(Askers)
ASSUME SuspectsInOrder == Suspects \subseteq Nat /\ IsFiniteSet(Suspects)
ASSUME BatchesAreSmall == BatchSize \in 1..20 /\ JobsPerRun \in Nat /\ Retries \in Nat

VARIABLES
  pendingFile,    \* the IDs in llm_pending.json
  calls,          \* meta llm_calls of today
  asker,          \* what each process holds
  askDay, asks,
  passedOver,     \* history: passes in a row that asked others, not this one
  setbacks        \* history: answers that failed or lacked a posting, crashes,
                  \* overlapping passes, passes cut short by the day's budget

scamVars == <<pendingFile, calls, asker, askDay, asks, passedOver, setbacks>>

NotAsking == [at |-> "idle", pending |-> {}, suspicious |-> {}, first |-> {}, left |-> {},
              attempt |-> 0, asked |-> {}, classified |-> {}]

ScamInit ==
  /\ pendingFile = {}
  /\ calls = 0
  /\ asker = [a \in Askers |-> NotAsking]
  /\ askDay = 0 /\ asks = 0
  /\ passedOver = [j \in Suspects |-> 0]
  /\ setbacks = 0

(* Fault: the queue is kept but does not come first.                       *)
AsFound(pending, i, j) == i < j

(* borderline.sort: the pending ones first, each part in the run's order.  *)
GoesBefore(pending, i, j) ==
  \/ i \in pending /\ j \notin pending
  \/ (i \in pending <=> j \in pending) /\ i < j

(* The first n of a set of postings.                                       *)
UpTo(n, pending, S) == {j \in S : Cardinality({i \in S : GoesBefore(pending, i, j)}) < n}

(* The batch in hand: the first of what is left to ask.                    *)
AskBatch(ask) == UpTo(BatchSize, ask.first, ask.left)

Setback(n) == setbacks + n <= MaxSetbacks /\ setbacks' = setbacks + n

StartPass(a) ==
  /\ asker[a].at = "idle" /\ asks < MaxAsks
  /\ asks' = asks + 1
  /\ \E S \in (SUBSET Suspects) \ {{}} :
       LET selected == UpTo(JobsPerRun, pendingFile, S) IN
       asker' = [asker EXCEPT ![a] =
         [at |-> "batch", pending |-> pendingFile \union (S \ selected), suspicious |-> S,
          first |-> pendingFile, left |-> selected, attempt |-> 0, asked |-> {},
          classified |-> {}]]
  /\ Setback(IF \E b \in Askers : asker[b].at # "idle" THEN 1 ELSE 0)
  /\ UNCHANGED <<pendingFile, calls, askDay, passedOver>>

(* A batch that got no answer: it and all later ones wait.                 *)
Deferred(ask) ==
  [ask EXCEPT !.at = "save", !.left = {}, !.attempt = 0, !.pending = @ \union ask.left]

(* The daily budget is read before every attempt, then counted.            *)
CheckBudget(a) ==
  /\ asker[a].at = "batch" /\ asker[a].left # {}
  /\ \/ /\ calls < CallsPerDay
        /\ asker' = [asker EXCEPT ![a].at = "count"]
        /\ UNCHANGED setbacks
     \/ /\ calls >= CallsPerDay
        /\ asker' = [asker EXCEPT ![a] = Deferred(@)]
        /\ Setback(1)
  /\ UNCHANGED <<pendingFile, calls, askDay, asks, passedOver>>

CountCall(a) ==
  /\ asker[a].at = "count"
  /\ calls' = calls + 1
  /\ asker' = [asker EXCEPT ![a].at = "post",
                            ![a].asked = @ \union AskBatch(asker[a])]
  /\ UNCHANGED <<pendingFile, askDay, asks, passedOver, setbacks>>

(* 429, 5xx and network errors are tried again; another error or no JSON   *)
(* defers, as the last retry does.                                         *)
AskFails(a) ==
  /\ asker[a].at = "post"
  /\ \/ /\ asker[a].attempt < Retries
        /\ asker' = [asker EXCEPT ![a].at = "batch", ![a].attempt = @ + 1]
     \/ asker' = [asker EXCEPT ![a] = Deferred(@)]
  /\ Setback(1)
  /\ UNCHANGED <<pendingFile, calls, askDay, asks, passedOver>>

(* An answer that lacks a posting leaves it pending.                       *)
AskAnswered(a) ==
  /\ asker[a].at = "post"
  /\ \E answered \in SUBSET AskBatch(asker[a]) :
       LET batch == AskBatch(asker[a]) IN
       /\ asker' = [asker EXCEPT ![a].at = "batch", ![a].attempt = 0,
                                 ![a].left = @ \ batch,
                                 ![a].pending = (@ \union batch) \ answered,
                                 ![a].classified = @ \union answered]
       /\ Setback(IF answered = batch THEN 0 ELSE 1)
  /\ UNCHANGED <<pendingFile, calls, askDay, asks, passedOver>>

(* An exception anywhere in the loop defers what was not classified.       *)
Broken(ask) == [Deferred(ask) EXCEPT !.pending = @ \union (ask.asked \ ask.classified)]

AskBreaks(a) ==
  /\ asker[a].at \in {"batch", "count", "post"}
  /\ asker' = [asker EXCEPT ![a] = Broken(@)]
  /\ Setback(1)
  /\ UNCHANGED <<pendingFile, calls, askDay, asks, passedOver>>

(* The queue replaces the file whole; it may fail to.                      *)
SavePending(a) ==
  /\ asker[a].at = "save" \/ (asker[a].at = "batch" /\ asker[a].left = {})
  /\ \E saved \in BOOLEAN :
       /\ pendingFile' = IF saved THEN asker[a].pending ELSE pendingFile
       /\ Setback(IF saved THEN 0 ELSE 1)
  /\ passedOver' = [j \in Suspects |->
       IF j \in asker[a].asked \/ j \notin asker[a].suspicious THEN 0
       ELSE IF asker[a].asked = {} THEN passedOver[j] ELSE passedOver[j] + 1]
  /\ asker' = [asker EXCEPT ![a] = NotAsking]
  /\ UNCHANGED <<calls, askDay, asks>>

AskerCrash(a) ==
  /\ asker[a].at # "idle"
  /\ asker' = [asker EXCEPT ![a] = NotAsking]
  /\ Setback(1)
  /\ UNCHANGED <<pendingFile, calls, askDay, asks, passedOver>>

NextAskDay ==
  /\ askDay < LastAskDay
  /\ askDay' = askDay + 1 /\ calls' = 0
  /\ UNCHANGED <<pendingFile, asker, asks, passedOver, setbacks>>

ScamNext ==
  \/ \E a \in Askers :
       \/ StartPass(a) \/ CheckBudget(a) \/ CountCall(a) \/ AskFails(a) \/ AskAnswered(a)
       \/ AskBreaks(a) \/ SavePending(a) \/ AskerCrash(a)
  \/ NextAskDay

ScamSpec == ScamInit /\ [][ScamNext]_scamVars

----------------------------------------------------------------------------
(* The pending queue gives every suspicious posting its turn: while no     *)
(* more than two passes' worth are suspicious, a posting is passed over    *)
(* once at most for itself, and twice more for every setback: a pass that  *)
(* was cut short leaves a long queue, and the next one takes its start.    *)
(* (The queue remembers no age: beyond that number the order of the run    *)
(* decides among the pending again, and the last postings may never be     *)
(* asked about.)                                                           *)
EveryoneGetsATurn ==
  Cardinality(Suspects) <= 2 * JobsPerRun =>
    \A j \in Suspects : passedOver[j] <= 1 + 2 * setbacks
=============================================================================
