------------------------- MODULE VerificationMemory -------------------------
(***************************************************************************)
(* What a run remembers of the postings it could not verify.  Hydration    *)
(* (v41/resolve.py, hydrate_result) reads one JSON file when it starts,    *)
(* picks the postings it will fetch, and writes the whole file back: in    *)
(* the middle, when a cooldown or a cached body is saved, and at the end.  *)
(* The write truncates the file first and nothing locks it, so a crash or  *)
(* a second run (an operator's beside the scheduled one) may find it       *)
(* unreadable, which RetrievalBudget treats as empty.                      *)
(***************************************************************************)
EXTENDS WorkspaceFiles, FiniteSets

CONSTANTS
  Postings,     \* the public URLs the file is keyed by
  Sweeps,       \* the processes that hydrate: the scheduled run, an operator's
  Provider,     \* the discovery source of each posting, a number
  Rank,         \* the place of each posting in the priority order, a number
  Standing,     \* "shown", "soft" (rejected for want of evidence) or "hard"
  MaxCycles,    \* max_automatic_cycles
  WatchDays,    \* watch_recheck_days
  Shortlist,    \* enrichment_shortlist
  Reserve,      \* the slots of the shortlist that soft rejects may take
  LastDay       \* bound: the last day of a behaviour

ASSUME PositiveCycles == MaxCycles \in Nat \ {0} /\ WatchDays \in Nat \ {0}
ASSUME SlotsCounted == Shortlist \in Nat /\ Reserve \in Nat /\ Reserve <= Shortlist
ASSUME DaysCounted == LastDay \in Nat

VARIABLES
  memory,       \* the file: three maps, or Torn
  sweep,        \* what each process holds between its awaits
  today,
  failures,     \* history: failed cycles since a stored verification
  overlapped    \* history: two runs were under way at once

verificationVars == <<memory, sweep, today, failures, overlapped>>

Unknown == [cycles |-> [p \in Postings |-> 0],
            nextCheck |-> [p \in Postings |-> None],
            firstFailed |-> [p \in Postings |-> None]]

(* History written before first-failure times were kept.                   *)
Undated(p) == [Unknown EXCEPT !.cycles[p] = MaxCycles, !.nextCheck[p] = WatchDays]

Idle == [at |-> "idle", day |-> -1, mind |-> Unknown, picked |-> {}, verified |-> {}]

VerificationInit ==
  /\ memory \in {Unknown} \union {Undated(p) : p \in Postings}
  /\ sweep = [r \in Sweeps |-> Idle]
  /\ today = 0
  /\ failures = [p \in Postings |-> IF memory.cycles[p] = 0 THEN 0 ELSE MaxCycles]
  /\ overlapped = FALSE

----------------------------------------------------------------------------
(* The steps of one run.                                                   *)

(* New material evidence drops all that is remembered of a posting.        *)
Forget(m, S) ==
  [cycles |-> [p \in Postings |-> IF p \in S THEN 0 ELSE m.cycles[p]],
   nextCheck |-> [p \in Postings |-> IF p \in S THEN None ELSE m.nextCheck[p]],
   firstFailed |-> [p \in Postings |-> IF p \in S THEN None ELSE m.firstFailed[p]]]

(* The first failure is estimated, where no date was kept, from the        *)
(* scheduled recheck: one week for each recheck, a day for the first run.  *)
Estimated(m, p, d) ==
  LET rechecks == IF m.cycles[p] > MaxCycles THEN m.cycles[p] - MaxCycles ELSE 0
  IN IF m.nextCheck[p] = None THEN d
     ELSE m.nextCheck[p] - (WatchDays * (1 + rechecks) + 1)

Dated(m, d) ==
  [m EXCEPT !.firstFailed = [p \in Postings |->
     IF m.cycles[p] > 0 /\ m.firstFailed[p] = None
     THEN Estimated(m, p, d) ELSE m.firstFailed[p]]]

Paused(m, p, d) ==
  m.cycles[p] >= MaxCycles /\ m.nextCheck[p] # None /\ m.nextCheck[p] > d

Ahead(S, p) == {q \in S : Rank[q] < Rank[p]}

(* The sources take turns, so that one provider cannot fill the shortlist. *)
Turn(S, p) == Cardinality({q \in Ahead(S, p) : Provider[q] = Provider[p]})

TakenBefore(S, p) ==
  {q \in S : \/ Turn(S, q) < Turn(S, p)
             \/ Turn(S, q) = Turn(S, p) /\ Provider[q] < Provider[p]}

Candidates(chosen, m, d) ==
  LET eligible == {p \in chosen : ~Paused(m, p, d)}
      soft == {p \in eligible : Standing[p] = "soft"}
      shown == {p \in eligible : Standing[p] = "shown"}
      reserved == {p \in soft : Cardinality(Ahead(soft, p)) < Reserve}
      slots == Shortlist - Cardinality(reserved)
  IN reserved \union {p \in shown : Cardinality(TakenBefore(shown, p)) < slots}

(* Up to the first await: the file is read, or given up if it does not     *)
(* parse, evidence applied, history dated, the candidates chosen.          *)
StartSweep(r) ==
  /\ sweep[r].at = "idle" /\ sweep[r].day < today
  /\ \E chosen \in SUBSET Postings : \E fresh \in SUBSET chosen :
       LET read == IF memory = Torn THEN Unknown ELSE memory
           mind == Dated(Forget(read, fresh), today)
       IN sweep' = [sweep EXCEPT ![r] =
            [at |-> "fetching", day |-> today, mind |-> mind,
             picked |-> Candidates(chosen, mind, today), verified |-> {}]]
  /\ overlapped' = (overlapped \/ \E s \in Sweeps : sweep[s].at # "idle")
  /\ UNCHANGED <<memory, today, failures>>

(* A cooldown or a cached body is saved while postings are fetched: the    *)
(* whole file is opened for writing, which empties it.                     *)
SaveMidway(r) ==
  /\ sweep[r].at = "fetching" /\ sweep[r].picked # {}
  /\ sweep' = [sweep EXCEPT ![r].at = "saving"]
  /\ memory' = Torn
  /\ UNCHANGED <<today, failures, overlapped>>

(* Dates are written only for postings that still have failures.           *)
Saved(m) == [m EXCEPT !.firstFailed = [p \in Postings |->
               IF m.cycles[p] > 0 THEN m.firstFailed[p] ELSE None]]

(* Two writers in one file may leave the tail of the longer text.          *)
FileAfter(r) ==
  {Saved(sweep[r].mind)} \union
  (IF \E s \in Sweeps \ {r} : sweep[s].at \in {"saving", "storing"} THEN {Torn} ELSE {})

EndSave(r) ==
  /\ sweep[r].at = "saving"
  /\ memory' \in FileAfter(r)
  /\ sweep' = [sweep EXCEPT ![r].at = "fetching"]
  /\ UNCHANGED <<today, failures, overlapped>>

(* Fault: a verified posting keeps the failures it had.                    *)
LearntKeepsCycles(m, picked, verified, d) ==
  LET failed == picked \ verified IN
  [m EXCEPT !.cycles = [p \in Postings |-> IF p \in failed THEN @[p] + 1 ELSE @[p]],
            !.nextCheck = [p \in Postings |->
              IF p \in failed /\ m.cycles[p] + 1 >= MaxCycles THEN d + WatchDays ELSE @[p]],
            !.firstFailed = [p \in Postings |->
              IF p \in failed /\ @[p] = None THEN d ELSE @[p]]]

(* The answers are in: a complete, matching answer clears a posting; any   *)
(* other one, a deferred request included, is a failed cycle, and enough   *)
(* of them pause the posting.                                              *)
Learnt(m, picked, verified, d) ==
  LET failed == picked \ verified
      cycles == [p \in Postings |-> IF p \in verified THEN 0
                                    ELSE IF p \in failed THEN m.cycles[p] + 1
                                    ELSE m.cycles[p]]
  IN [cycles |-> cycles,
      nextCheck |-> [p \in Postings |->
         IF p \in verified THEN None
         ELSE IF p \in failed /\ cycles[p] >= MaxCycles THEN d + WatchDays
         ELSE m.nextCheck[p]],
      firstFailed |-> [p \in Postings |->
         IF p \in verified THEN None
         ELSE IF p \in failed /\ m.firstFailed[p] = None THEN d
         ELSE m.firstFailed[p]]]

Conclude(r) ==
  /\ sweep[r].at = "fetching"
  /\ \E verified \in SUBSET sweep[r].picked :
       /\ sweep' = [sweep EXCEPT
            ![r].at = "concluded", ![r].verified = verified, ![r].picked = {},
            ![r].mind = Learnt(@, sweep[r].picked, verified, sweep[r].day)]
       /\ failures' = [p \in Postings |->
            IF p \in sweep[r].picked \ verified THEN failures[p] + 1 ELSE failures[p]]
  /\ UNCHANGED <<memory, today, overlapped>>

StoreMemory(r) ==
  /\ sweep[r].at = "concluded"
  /\ sweep' = [sweep EXCEPT ![r].at = "storing"]
  /\ memory' = Torn
  /\ UNCHANGED <<today, failures, overlapped>>

EndSweep(r) ==
  /\ sweep[r].at = "storing"
  /\ memory' \in FileAfter(r)
  /\ failures' = [p \in Postings |-> IF p \in sweep[r].verified THEN 0 ELSE failures[p]]
  /\ sweep' = [sweep EXCEPT ![r] = [Idle EXCEPT !.day = sweep[r].day]]
  /\ UNCHANGED <<today, overlapped>>

SweepCrash(r) ==
  /\ sweep[r].at # "idle"
  /\ sweep' = [sweep EXCEPT ![r] = [Idle EXCEPT !.day = sweep[r].day]]
  /\ UNCHANGED <<memory, today, failures, overlapped>>

(* A run ends within its day: its request budget is counted in minutes.    *)
NextDay ==
  /\ today < LastDay
  /\ \A r \in Sweeps : sweep[r].at = "idle"
  /\ today' = today + 1
  /\ UNCHANGED <<memory, sweep, failures, overlapped>>

VerificationNext ==
  \/ \E r \in Sweeps :
       \/ StartSweep(r) \/ SaveMidway(r) \/ EndSave(r) \/ Conclude(r)
       \/ StoreMemory(r) \/ EndSweep(r) \/ SweepCrash(r)
  \/ NextDay

VerificationSpec == VerificationInit /\ [][VerificationNext]_verificationVars

----------------------------------------------------------------------------
Histories == [cycles : [Postings -> Nat],
              nextCheck : [Postings -> Int \union {None}],
              firstFailed : [Postings -> Int \union {None}]]

(* The file holds whole histories or does not parse; a process holds one.  *)
VerificationTypeOK ==
  /\ memory \in Histories \union {Torn}
  /\ sweep \in [Sweeps -> [at : {"idle", "fetching", "saving", "concluded", "storing"},
                           day : Int, mind : Histories,
                           picked : SUBSET Postings, verified : SUBSET Postings]]
  /\ today \in Nat
  /\ failures \in [Postings -> Nat]
  /\ overlapped \in BOOLEAN

(* Whatever runs crash or overlap, the three maps of a history agree: a    *)
(* posting is paused only after enough failed cycles, and for no longer    *)
(* than the recheck interval; a first-failure date is kept only for one    *)
(* that is failing, and a run always knows it (action_policy.py hides an   *)
(* undated posting by that date).                                          *)
HistoryAgrees ==
  /\ memory # Torn => \A p \in Postings :
       /\ memory.nextCheck[p] # None =>
            memory.cycles[p] >= MaxCycles /\ memory.nextCheck[p] <= today + WatchDays
       /\ memory.firstFailed[p] # None => memory.cycles[p] > 0
  /\ \A r \in Sweeps : sweep[r].at # "idle" => \A p \in Postings :
       LET m == sweep[r].mind IN
       /\ m.cycles[p] > 0 => m.firstFailed[p] # None
       /\ m.nextCheck[p] # None => m.cycles[p] >= MaxCycles

(* Unless two runs overlap, a posting is never held to more failed cycles  *)
(* than it had since the last time it was verified and that was stored:    *)
(* crashes, midway saves and a lost file only ever forget failures.        *)
NoPhantomFailures ==
  ~overlapped /\ memory # Torn => \A p \in Postings : memory.cycles[p] <= failures[p]

\* The stored memory is consistent and claims no failure that did not happen.
MemoryIsTrue == HistoryAgrees /\ NoPhantomFailures
=============================================================================
