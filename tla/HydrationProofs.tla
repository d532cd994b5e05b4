--------------------------- MODULE HydrationProofs ----------------------------
(***************************************************************************)
(* Proofs about hydration, for any postings, processes, hosts and bounds:  *)
(* the memory of postings that could not be verified, and the requests     *)
(* that read a posting again at its origin; and about the sources the      *)
(* postings come from, for any answers: what a source reports of itself    *)
(* and what the operator hears of it; and about the vacancies that records *)
(* and pages are grouped into, for any records, in any order.              *)
(***************************************************************************)
EXTENDS VerificationMemory, PostingFetch, SourceWatch, Canonicalization, FiniteSetTheorems,
        NaturalsInduction, WellFoundedInduction, SequenceTheorems, TLAPS

-----------------------------------------------------------------------------
(* The memory.  A history is kept true in the file and in every run's mind;*)
(* unless two runs overlap, one run at most has a mind, and neither it nor *)
(* the file holds a posting to more failures than it had.                  *)

\* What a run under way remembers of a posting agrees.
MindAgrees(r) ==
    /\ sweep[r].day <= today
    /\ sweep[r].at # "idle" => \A p \in Postings :
         /\ sweep[r].mind.cycles[p] > 0 => sweep[r].mind.firstFailed[p] # None
         /\ sweep[r].mind.nextCheck[p] # None =>
              /\ sweep[r].mind.cycles[p] >= MaxCycles
              /\ sweep[r].mind.nextCheck[p] <= today + WatchDays

\* What the file says of a posting agrees.
FileAgrees ==
    memory # Torn => \A p \in Postings :
        /\ memory.nextCheck[p] # None =>
             memory.cycles[p] >= MaxCycles /\ memory.nextCheck[p] <= today + WatchDays
        /\ memory.firstFailed[p] # None => memory.cycles[p] > 0

\* A run holds no posting to more failures than it had; those it verified, to none.
MindCharges(r) ==
    sweep[r].at # "idle" => \A p \in Postings :
        /\ sweep[r].mind.cycles[p] <= failures[p]
        /\ p \in sweep[r].verified => sweep[r].mind.cycles[p] = 0

ChargesAreTrue ==
    ~overlapped =>
        /\ memory # Torn => \A p \in Postings : memory.cycles[p] <= failures[p]
        /\ \A r \in Sweeps : MindCharges(r)
        /\ \A r, s \in Sweeps : sweep[r].at # "idle" /\ sweep[s].at # "idle" => r = s

MemoryInv ==
    /\ VerificationTypeOK
    /\ FileAgrees
    /\ \A r \in Sweeps : MindAgrees(r)
    /\ ChargesAreTrue

\* Operations on a history.
LEMMA ForgetIs ==
    ASSUME NEW m \in Histories, NEW S
    PROVE  /\ Forget(m, S) \in Histories
           /\ \A p \in Postings :
                /\ Forget(m, S).cycles[p] = IF p \in S THEN 0 ELSE m.cycles[p]
                /\ Forget(m, S).nextCheck[p] = IF p \in S THEN None ELSE m.nextCheck[p]
  BY DEF Forget, Histories

\* A history after its failures were given a date.
LEMMA DatedIs ==
    ASSUME NEW m \in Histories, NEW d \in Int
    PROVE  /\ Dated(m, d) \in Histories
           /\ Dated(m, d).cycles = m.cycles
           /\ Dated(m, d).nextCheck = m.nextCheck
           /\ \A p \in Postings :
                m.cycles[p] > 0 => Dated(m, d).firstFailed[p] # None
<1>1. \A p \in Postings : Estimated(m, p, d) \in Int
  <2> SUFFICES ASSUME NEW p \in Postings PROVE Estimated(m, p, d) \in Int
    OBVIOUS
  <2>1. m.cycles[p] \in Nat /\ m.nextCheck[p] \in Int \union {None}
    BY DEF Histories
  <2> QED
    BY <2>1, PositiveCycles DEF Estimated
<1> DEFINE ff == [p \in Postings |-> IF m.cycles[p] > 0 /\ m.firstFailed[p] = None
                                     THEN Estimated(m, p, d) ELSE m.firstFailed[p]]
<1>2. Dated(m, d) = [m EXCEPT !.firstFailed = ff]
  BY DEF Dated
<1>3. ff \in [Postings -> Int \union {None}]
  BY <1>1 DEF Histories
<1>4. \A p \in Postings : m.cycles[p] > 0 => ff[p] # None
  BY <1>1, NoneIsNoNumber
<1> HIDE DEF ff
<1> QED
  BY <1>2, <1>3, <1>4 DEF Histories

\* A history as it is written to the file.
LEMMA SavedIs ==
    ASSUME NEW m \in Histories
    PROVE  /\ Saved(m) \in Histories
           /\ Saved(m).cycles = m.cycles
           /\ Saved(m).nextCheck = m.nextCheck
           /\ \A p \in Postings : Saved(m).firstFailed[p] # None => m.cycles[p] > 0
<1> DEFINE ff == [p \in Postings |-> IF m.cycles[p] > 0 THEN m.firstFailed[p] ELSE None]
<1>1. Saved(m) = [m EXCEPT !.firstFailed = ff]
  BY DEF Saved
<1>2. /\ ff \in [Postings -> Int \union {None}]
      /\ \A p \in Postings : ff[p] # None => m.cycles[p] > 0
  BY DEF Histories
<1> HIDE DEF ff
<1> QED
  BY <1>1, <1>2 DEF Histories

\* A history after the answers of a run, posting by posting.
LEMMA LearntIs ==
    ASSUME NEW m \in Histories, NEW picked \in SUBSET Postings,
           NEW verified \in SUBSET Postings, NEW d \in Int
    PROVE  /\ Learnt(m, picked, verified, d) \in Histories
           /\ \A p \in Postings :
                LET n == Learnt(m, picked, verified, d)
                IN  \/ p \in verified /\ n.cycles[p] = 0 /\ n.nextCheck[p] = None
                    \/ /\ p \in picked \ verified
                       /\ n.cycles[p] = m.cycles[p] + 1 /\ n.firstFailed[p] # None
                       /\ n.nextCheck[p] = IF m.cycles[p] + 1 >= MaxCycles
                                           THEN d + WatchDays ELSE m.nextCheck[p]
                    \/ /\ p \notin picked \union verified
                       /\ n.cycles[p] = m.cycles[p]
                       /\ n.firstFailed[p] = m.firstFailed[p]
                       /\ n.nextCheck[p] = m.nextCheck[p]
<1>1. \A p \in Postings : /\ m.cycles[p] \in Nat
                          /\ m.nextCheck[p] \in Int \union {None}
                          /\ m.firstFailed[p] \in Int \union {None}
  BY DEF Histories
<1>2. d + WatchDays \in Int /\ d # None
  BY PositiveCycles, NoneIsNoNumber
<1> QED
  BY <1>1, <1>2 DEF Learnt, Histories

\* Only postings are tried.
LEMMA CandidatesAre ==
    ASSUME NEW among \in SUBSET Postings, NEW m, NEW d
    PROVE  Candidates(among, m, d) \in SUBSET Postings
  BY DEF Candidates

\* A history that knows nothing.
LEMMA UnknownIs ==
    /\ Unknown \in Histories /\ Idle.mind = Unknown
    /\ \A p \in Postings : /\ Unknown.cycles[p] = 0
                           /\ Unknown.nextCheck[p] = None
                           /\ Unknown.firstFailed[p] = None
  BY DEF Unknown, Histories, Idle

\* The first state.
LEMMA MemoryStarts == VerificationInit => MemoryInv
<1> SUFFICES ASSUME VerificationInit PROVE MemoryInv
  OBVIOUS
<1>1. \A p \in Postings :
        /\ Undated(p) \in Histories
        /\ \A q \in Postings :
             /\ Undated(p).cycles[q] = IF q = p THEN MaxCycles ELSE 0
             /\ Undated(p).nextCheck[q] = IF q = p THEN WatchDays ELSE None
             /\ Undated(p).firstFailed[q] = None
  <2> TAKE p \in Postings
  <2>1. Unknown \in Histories
    BY UnknownIs
  <2>2. Undated(p) \in Histories
    <3>1. \A m \in Histories : [m EXCEPT !.cycles[p] = MaxCycles] \in Histories
      BY PositiveCycles DEF Histories
    <3>2. \A m \in Histories : [m EXCEPT !.nextCheck[p] = WatchDays] \in Histories
      BY PositiveCycles DEF Histories
    <3>3. Undated(p) = [[Unknown EXCEPT !.cycles[p] = MaxCycles]
                          EXCEPT !.nextCheck[p] = WatchDays]
      BY DEF Undated
    <3> QED
      BY <2>1, <3>1, <3>2, <3>3
  <2>3. /\ Undated(p).cycles = [Unknown.cycles EXCEPT ![p] = MaxCycles]
        /\ Undated(p).nextCheck = [Unknown.nextCheck EXCEPT ![p] = WatchDays]
        /\ Undated(p).firstFailed = Unknown.firstFailed
    BY <2>1 DEF Undated, Histories
  <2>4. /\ Unknown.cycles \in [Postings -> Nat]
        /\ Unknown.nextCheck \in [Postings -> Int \union {None}]
    BY <2>1 DEF Histories
  <2> QED
    BY <2>2, <2>3, <2>4, UnknownIs
<1>2. /\ memory \in Histories
      /\ \A q \in Postings :
           /\ memory.firstFailed[q] = None
           /\ \/ memory.cycles[q] = 0 /\ memory.nextCheck[q] = None
              \/ memory.cycles[q] = MaxCycles /\ memory.nextCheck[q] = WatchDays
  BY <1>1, UnknownIs DEF VerificationInit
<1>3. \A r \in Sweeps : sweep[r] = Idle
  BY DEF VerificationInit
<1>4. \A q \in Postings : failures[q] = IF memory.cycles[q] = 0 THEN 0 ELSE MaxCycles
  BY DEF VerificationInit
<1>5. VerificationTypeOK
  <2>1. Idle \in [at : {"idle", "fetching", "saving", "concluded", "storing"},
                  day : Int, mind : Histories,
                  picked : SUBSET Postings, verified : SUBSET Postings]
    BY UnknownIs DEF Idle
  <2>2. failures \in [Postings -> Nat]
    BY PositiveCycles DEF VerificationInit
  <2> QED
    BY <1>2, <2>1, <2>2 DEF VerificationInit, VerificationTypeOK
<1>6. FileAgrees
  BY <1>2, PositiveCycles DEF FileAgrees, VerificationInit
<1>7. \A r \in Sweeps : MindAgrees(r) /\ sweep[r].at = "idle"
  BY <1>3 DEF MindAgrees, VerificationInit, Idle
<1>8. ChargesAreTrue
  BY <1>2, <1>4, <1>7, PositiveCycles DEF ChargesAreTrue, MindCharges
<1> QED
  BY <1>5, <1>6, <1>7, <1>8 DEF MemoryInv

\* The fields of what a run holds.
LEMMA SweepFields ==
    ASSUME VerificationTypeOK, NEW r \in Sweeps
    PROVE  /\ sweep[r].at \in {"idle", "fetching", "saving", "concluded", "storing"}
           /\ sweep[r].day \in Int /\ sweep[r].mind \in Histories
           /\ sweep[r].picked \in SUBSET Postings /\ sweep[r].verified \in SUBSET Postings
           /\ \A p \in Postings :
                /\ sweep[r].mind.cycles[p] \in Nat
                /\ sweep[r].mind.nextCheck[p] \in Int \union {None}
                /\ sweep[r].mind.firstFailed[p] \in Int \union {None}
  BY DEF VerificationTypeOK, Histories

\* A step in which a run keeps its mind, or ends, and the file is what it was,
\* torn, or what the run writes.
Carries(r) ==
    /\ UNCHANGED <<today, failures, overlapped>>
    /\ sweep[r].at # "idle"
    /\ sweep'[r] \in [at : {"idle", "fetching", "saving", "concluded", "storing"},
                      day : Int, mind : Histories,
                      picked : SUBSET Postings, verified : SUBSET Postings]
    /\ sweep'[r].day = sweep[r].day
    /\ sweep'[r].at # "idle" => /\ sweep'[r].mind = sweep[r].mind
                                /\ sweep'[r].verified = sweep[r].verified
    /\ sweep' = [sweep EXCEPT ![r] = sweep'[r]]
    /\ memory' \in {memory, Torn, Saved(sweep[r].mind)}

\* What a run writes is true of the postings.
LEMMA SavedAgrees ==
    ASSUME MemoryInv, NEW r \in Sweeps, sweep[r].at # "idle"
    PROVE  /\ Saved(sweep[r].mind) \in Histories
           /\ \A p \in Postings :
                /\ Saved(sweep[r].mind).nextCheck[p] # None =>
                     /\ Saved(sweep[r].mind).cycles[p] >= MaxCycles
                     /\ Saved(sweep[r].mind).nextCheck[p] <= today + WatchDays
                /\ Saved(sweep[r].mind).firstFailed[p] # None =>
                     Saved(sweep[r].mind).cycles[p] > 0
                /\ ~overlapped => Saved(sweep[r].mind).cycles[p] <= failures[p]
<1>1. sweep[r].mind \in Histories
  BY SweepFields DEF MemoryInv
<1>2. MindAgrees(r) /\ (~overlapped => MindCharges(r))
  BY DEF MemoryInv, ChargesAreTrue
<1> QED
  BY <1>1, <1>2, SavedIs DEF MindAgrees, MindCharges

\* A run that carries its mind on keeps what is true of it.
LEMMA CarriesKeep ==
    ASSUME MemoryInv, NEW r \in Sweeps, Carries(r)
    PROVE  MemoryInv'
<1>1. /\ today' = today /\ failures' = failures /\ overlapped' = overlapped
      /\ sweep[r].at # "idle" /\ sweep'[r].day = sweep[r].day
      /\ sweep'[r].at # "idle" => /\ sweep'[r].mind = sweep[r].mind
                                  /\ sweep'[r].verified = sweep[r].verified
      /\ \A s \in Sweeps : s # r => sweep'[s] = sweep[s]
      /\ memory' \in {memory, Torn, Saved(sweep[r].mind)}
  BY DEF Carries, MemoryInv, VerificationTypeOK
<1>2. VerificationTypeOK'
  BY <1>1, SavedAgrees DEF Carries, MemoryInv, VerificationTypeOK
<1>3. FileAgrees'
  BY <1>1, SavedAgrees DEF MemoryInv, FileAgrees
<1>4. ASSUME NEW s \in Sweeps PROVE MindAgrees(s)'
  <2>1. MindAgrees(s)
    BY DEF MemoryInv
  <2>2. CASE s = r
    BY <1>1, <2>1, <2>2 DEF MindAgrees
  <2>3. CASE s # r
    BY <1>1, <2>1, <2>3 DEF MindAgrees
  <2> QED
    BY <2>2, <2>3
<1>5. ChargesAreTrue'
  <2> SUFFICES ASSUME ~overlapped PROVE ChargesAreTrue'
    BY <1>1 DEF ChargesAreTrue
  <2>t. /\ memory # Torn => \A p \in Postings : memory.cycles[p] <= failures[p]
        /\ \A s \in Sweeps : MindCharges(s)
        /\ \A q, s \in Sweeps : sweep[q].at # "idle" /\ sweep[s].at # "idle" => q = s
    BY DEF MemoryInv, ChargesAreTrue
  <2>1. memory' # Torn => \A p \in Postings : memory'.cycles[p] <= failures'[p]
    BY <1>1, <2>t, SavedAgrees
  <2>2. ASSUME NEW s \in Sweeps PROVE MindCharges(s)'
    <3>1. CASE s = r
      BY <1>1, <2>t, <3>1 DEF MindCharges
    <3>2. CASE s # r
      BY <1>1, <2>t, <3>2 DEF MindCharges
    <3> QED
      BY <3>1, <3>2
  <2>3. \A s \in Sweeps : sweep'[s].at # "idle" => sweep[s].at # "idle"
    BY <1>1
  <2> QED
    BY <2>t, <2>1, <2>2, <2>3 DEF ChargesAreTrue
<1> QED
  BY <1>2, <1>3, <1>4, <1>5 DEF MemoryInv

\* Saving in the middle and storing open the file, which empties it.
LEMMA OpeningKeeps ==
    ASSUME MemoryInv, NEW r \in Sweeps, SaveMidway(r) \/ StoreMemory(r)
    PROVE  MemoryInv'
<1>1. sweep \in [Sweeps -> [at : {"idle", "fetching", "saving", "concluded", "storing"},
                            day : Int, mind : Histories,
                            picked : SUBSET Postings, verified : SUBSET Postings]]
  BY DEF MemoryInv, VerificationTypeOK
<1>2. CASE SaveMidway(r)
  <2>1. Carries(r)
    BY <1>1, <1>2 DEF SaveMidway, Carries
  <2> QED
    BY <2>1, CarriesKeep
<1>3. CASE StoreMemory(r)
  <2>1. Carries(r)
    BY <1>1, <1>3 DEF StoreMemory, Carries
  <2> QED
    BY <2>1, CarriesKeep
<1> QED
  BY <1>2, <1>3

\* The end of a save, and a death, leave the file whole, torn or as it was.
LEMMA ClosingKeeps ==
    ASSUME MemoryInv, NEW r \in Sweeps, EndSave(r) \/ SweepCrash(r)
    PROVE  MemoryInv'
<1>1. sweep \in [Sweeps -> [at : {"idle", "fetching", "saving", "concluded", "storing"},
                            day : Int, mind : Histories,
                            picked : SUBSET Postings, verified : SUBSET Postings]]
  BY DEF MemoryInv, VerificationTypeOK
<1>2. CASE EndSave(r)
  <2>1. memory' \in {memory, Torn, Saved(sweep[r].mind)}
    BY <1>2 DEF EndSave, FileAfter
  <2>2. Carries(r)
    BY <1>1, <1>2, <2>1 DEF EndSave, Carries
  <2> QED
    BY <2>2, CarriesKeep
<1>3. CASE SweepCrash(r)
  <2>1. /\ sweep'[r] = [Idle EXCEPT !.day = sweep[r].day]
        /\ sweep[r].day \in Int
    BY <1>1, <1>3 DEF SweepCrash
  <2>2. /\ sweep'[r] \in [at : {"idle", "fetching", "saving", "concluded", "storing"},
                          day : Int, mind : Histories,
                          picked : SUBSET Postings, verified : SUBSET Postings]
        /\ sweep'[r].at = "idle" /\ sweep'[r].day = sweep[r].day
    BY <2>1, UnknownIs DEF Idle
  <2>3. Carries(r)
    BY <1>1, <1>3, <2>2 DEF SweepCrash, Carries
  <2> QED
    BY <2>3, CarriesKeep
<1> QED
  BY <1>2, <1>3

\* What a run reads: the file, or nothing if it does not parse.
Read == IF memory = Torn THEN Unknown ELSE memory

\* What a run reads of the file is true of the postings.
LEMMA ReadAgrees ==
    ASSUME MemoryInv
    PROVE  /\ Read \in Histories
           /\ \A p \in Postings :
                /\ Read.nextCheck[p] # None =>
                     Read.cycles[p] >= MaxCycles /\ Read.nextCheck[p] <= today + WatchDays
                /\ ~overlapped => Read.cycles[p] <= failures[p]
<1>1. CASE memory = Torn
  <2>1. Read = Unknown /\ \A p \in Postings : failures[p] \in Nat
    BY <1>1 DEF Read, MemoryInv, VerificationTypeOK
  <2> QED
    BY <2>1, UnknownIs
<1>2. CASE memory # Torn
  BY <1>2 DEF Read, MemoryInv, VerificationTypeOK, FileAgrees, ChargesAreTrue
<1> QED
  BY <1>1, <1>2

\* A run that starts knows the date of every failure, and charges no more than
\* the file does.
LEMMA StartKeeps ==
    ASSUME MemoryInv, NEW r \in Sweeps, StartSweep(r)
    PROVE  MemoryInv'
<1>t. /\ VerificationTypeOK /\ FileAgrees
      /\ \A s \in Sweeps : MindAgrees(s)
      /\ ChargesAreTrue
  BY DEF MemoryInv
<1>p. PICK chosen \in SUBSET Postings : \E fresh \in SUBSET chosen :
        sweep' = [sweep EXCEPT ![r] =
          [at |-> "fetching", day |-> today, mind |-> Dated(Forget(Read, fresh), today),
           picked |-> Candidates(chosen, Dated(Forget(Read, fresh), today), today),
           verified |-> {}]]
  BY DEF StartSweep, Read
<1>1. PICK fresh \in SUBSET chosen :
        sweep' = [sweep EXCEPT ![r] =
          [at |-> "fetching", day |-> today, mind |-> Dated(Forget(Read, fresh), today),
           picked |-> Candidates(chosen, Dated(Forget(Read, fresh), today), today),
           verified |-> {}]]
  BY <1>p
<1>2. /\ memory' = memory /\ today' = today /\ failures' = failures
      /\ overlapped' = (overlapped \/ \E s \in Sweeps : sweep[s].at # "idle")
      /\ today \in Int /\ sweep[r].at = "idle"
  BY <1>t DEF StartSweep, VerificationTypeOK
<1> DEFINE m == Forget(Read, fresh)
           n == Dated(m, today)
<1>3. /\ m \in Histories
      /\ \A p \in Postings : \/ m.cycles[p] = 0 /\ m.nextCheck[p] = None
                             \/ /\ m.cycles[p] = Read.cycles[p]
                                /\ m.nextCheck[p] = Read.nextCheck[p]
  BY ReadAgrees, ForgetIs
<1>4. /\ n \in Histories /\ n.cycles = m.cycles /\ n.nextCheck = m.nextCheck
      /\ \A p \in Postings : n.cycles[p] > 0 => n.firstFailed[p] # None
  <2> HIDE DEF m
  <2> QED
    BY <1>2, <1>3, DatedIs
<1>5. Candidates(chosen, n, today) \in SUBSET Postings
  BY CandidatesAre
<1> HIDE DEF m, n
<1>6. /\ sweep'[r] = [at |-> "fetching", day |-> today, mind |-> n,
                      picked |-> Candidates(chosen, n, today), verified |-> {}]
      /\ \A s \in Sweeps : s # r => sweep'[s] = sweep[s]
      /\ sweep' = [sweep EXCEPT ![r] = sweep'[r]]
  BY <1>1, <1>t DEF VerificationTypeOK, m, n
<1>7. VerificationTypeOK'
  <2>1. sweep'[r] \in [at : {"idle", "fetching", "saving", "concluded", "storing"},
                       day : Int, mind : Histories,
                       picked : SUBSET Postings, verified : SUBSET Postings]
    BY <1>2, <1>4, <1>5, <1>6
  <2>2. overlapped' \in BOOLEAN
    BY <1>2, <1>t DEF VerificationTypeOK
  <2> QED
    BY <1>2, <1>6, <1>t, <2>1, <2>2 DEF VerificationTypeOK
<1>8. FileAgrees'
  BY <1>2, <1>t DEF FileAgrees
<1>9. ASSUME NEW s \in Sweeps PROVE MindAgrees(s)'
  <2>1. CASE s = r
    <3>1. \A p \in Postings :
            /\ n.cycles[p] > 0 => n.firstFailed[p] # None
            /\ n.nextCheck[p] # None =>
                 n.cycles[p] >= MaxCycles /\ n.nextCheck[p] <= today + WatchDays
      BY <1>3, <1>4, ReadAgrees
    <3> QED
      BY <1>2, <1>6, <2>1, <3>1 DEF MindAgrees
  <2>2. CASE s # r
    BY <1>2, <1>6, <1>t, <2>2 DEF MindAgrees
  <2> QED
    BY <2>1, <2>2
<1>10. ChargesAreTrue'
  <2> SUFFICES ASSUME ~overlapped' PROVE ChargesAreTrue'
    BY DEF ChargesAreTrue
  <2>1. ~overlapped /\ \A s \in Sweeps : sweep[s].at = "idle"
    BY <1>2
  <2>2. memory' # Torn => \A p \in Postings : memory'.cycles[p] <= failures'[p]
    BY <1>2, <1>t, <2>1 DEF ChargesAreTrue
  <2>3. \A p \in Postings : n.cycles[p] <= failures[p]
    BY <1>3, <1>4, <1>t, <2>1, ReadAgrees DEF VerificationTypeOK
  <2>4. \A s \in Sweeps : MindCharges(s)'
    BY <1>2, <1>6, <2>1, <2>3 DEF MindCharges
  <2>5. \A q, s \in Sweeps : sweep'[q].at # "idle" /\ sweep'[s].at # "idle" => q = s
    BY <1>6, <2>1
  <2> QED
    BY <2>2, <2>4, <2>5 DEF ChargesAreTrue
<1> QED
  BY <1>7, <1>8, <1>9, <1>10 DEF MemoryInv

\* The answers are charged to the postings as they are to the mind.
LEMMA ConcludeKeeps ==
    ASSUME MemoryInv, NEW r \in Sweeps, Conclude(r)
    PROVE  MemoryInv'
<1>t. /\ VerificationTypeOK /\ FileAgrees
      /\ \A s \in Sweeps : MindAgrees(s)
      /\ ChargesAreTrue
  BY DEF MemoryInv
<1>1. PICK verified \in SUBSET sweep[r].picked :
        /\ sweep' = [sweep EXCEPT
             ![r].at = "concluded", ![r].verified = verified, ![r].picked = {},
             ![r].mind = Learnt(@, sweep[r].picked, verified, sweep[r].day)]
        /\ failures' = [p \in Postings |->
             IF p \in sweep[r].picked \ verified THEN failures[p] + 1 ELSE failures[p]]
  BY DEF Conclude
<1>2. /\ memory' = memory /\ today' = today /\ overlapped' = overlapped
      /\ sweep[r].at = "fetching"
  BY DEF Conclude
<1>3. /\ sweep[r].picked \in SUBSET Postings /\ verified \in SUBSET Postings
      /\ sweep[r].mind \in Histories /\ sweep[r].day \in Int
      /\ \A p \in Postings : failures[p] \in Nat
  BY <1>t, SweepFields DEF VerificationTypeOK
<1> DEFINE m == sweep[r].mind
           n == Learnt(m, sweep[r].picked, verified, sweep[r].day)
<1>4. /\ n \in Histories
      /\ \A p \in Postings :
           \/ p \in verified /\ n.cycles[p] = 0 /\ n.nextCheck[p] = None
           \/ /\ p \in sweep[r].picked \ verified
              /\ n.cycles[p] = m.cycles[p] + 1 /\ n.firstFailed[p] # None
              /\ n.nextCheck[p] = IF m.cycles[p] + 1 >= MaxCycles
                                  THEN sweep[r].day + WatchDays ELSE m.nextCheck[p]
           \/ /\ p \notin sweep[r].picked \union verified
              /\ n.cycles[p] = m.cycles[p]
              /\ n.firstFailed[p] = m.firstFailed[p]
              /\ n.nextCheck[p] = m.nextCheck[p]
  BY <1>3, LearntIs
<1>5. /\ \A p \in Postings : /\ m.cycles[p] \in Nat
                             /\ m.nextCheck[p] \in Int \union {None}
      /\ MindAgrees(r)
  BY <1>t, SweepFields
<1> HIDE DEF n
<1>6. /\ sweep'[r].at = "concluded" /\ sweep'[r].day = sweep[r].day
      /\ sweep'[r].mind = n /\ sweep'[r].verified = verified
      /\ \A s \in Sweeps : s # r => sweep'[s] = sweep[s]
  BY <1>1, <1>t DEF VerificationTypeOK, n
<1>7. VerificationTypeOK'
  <2>1. sweep' \in [Sweeps -> [at : {"idle", "fetching", "saving", "concluded", "storing"},
                               day : Int, mind : Histories,
                               picked : SUBSET Postings, verified : SUBSET Postings]]
    <3>1. sweep'[r] \in [at : {"idle", "fetching", "saving", "concluded", "storing"},
                         day : Int, mind : Histories,
                         picked : SUBSET Postings, verified : SUBSET Postings]
      <4> DEFINE x == [sweep[r] EXCEPT !.at = "concluded", !.verified = verified,
                                       !.picked = {}, !.mind = n]
      <4>1. sweep'[r] = x
        BY <1>1, <1>t DEF VerificationTypeOK, n
      <4>2. sweep[r] \in [at : {"idle", "fetching", "saving", "concluded", "storing"},
                          day : Int, mind : Histories,
                          picked : SUBSET Postings, verified : SUBSET Postings]
        BY <1>t DEF VerificationTypeOK
      <4>3. n \in Histories
        BY <1>4
      <4> QED
        BY <1>3, <4>1, <4>2, <4>3
    <3>2. sweep' = [sweep EXCEPT ![r] = sweep'[r]]
      BY <1>1, <1>t DEF VerificationTypeOK
    <3> QED
      BY <1>t, <3>1, <3>2 DEF VerificationTypeOK
  <2>2. failures' \in [Postings -> Nat]
    BY <1>1, <1>3
  <2> QED
    BY <1>2, <1>t, <2>1, <2>2 DEF VerificationTypeOK
<1>8. FileAgrees'
  BY <1>2, <1>t DEF FileAgrees
<1>9. ASSUME NEW s \in Sweeps PROVE MindAgrees(s)'
  <2>1. CASE s = r
    <3>1. \A p \in Postings : n.cycles[p] > 0 => n.firstFailed[p] # None
      BY <1>2, <1>4, <1>5 DEF MindAgrees
    <3>2. \A p \in Postings : n.nextCheck[p] # None =>
            n.cycles[p] >= MaxCycles /\ n.nextCheck[p] <= today + WatchDays
      <4> SUFFICES ASSUME NEW p \in Postings, n.nextCheck[p] # None
                   PROVE  n.cycles[p] >= MaxCycles /\ n.nextCheck[p] <= today + WatchDays
        OBVIOUS
      <4>1. /\ sweep[r].day <= today /\ today \in Int
            /\ m.nextCheck[p] # None =>
                 m.cycles[p] >= MaxCycles /\ m.nextCheck[p] <= today + WatchDays
        BY <1>2, <1>5, <1>t DEF MindAgrees, VerificationTypeOK
      <4>2. CASE p \in sweep[r].picked \ verified
        <5>1. /\ n.cycles[p] = m.cycles[p] + 1
              /\ n.nextCheck[p] = IF m.cycles[p] + 1 >= MaxCycles
                                  THEN sweep[r].day + WatchDays ELSE m.nextCheck[p]
          BY <1>4, <4>2
        <5> QED
          BY <1>3, <1>5, <4>1, <5>1, PositiveCycles
      <4>3. CASE p \notin sweep[r].picked \ verified
        BY <1>4, <4>1, <4>3
      <4> QED
        BY <4>2, <4>3
    <3> QED
      BY <1>2, <1>5, <1>6, <2>1, <3>1, <3>2 DEF MindAgrees
  <2>2. CASE s # r
    BY <1>2, <1>6, <1>t, <2>2 DEF MindAgrees
  <2> QED
    BY <2>1, <2>2
<1>10. ChargesAreTrue'
  <2> SUFFICES ASSUME ~overlapped PROVE ChargesAreTrue'
    BY <1>2 DEF ChargesAreTrue
  <2>t. /\ memory # Torn => \A p \in Postings : memory.cycles[p] <= failures[p]
        /\ MindCharges(r)
        /\ \A q, s \in Sweeps : sweep[q].at # "idle" /\ sweep[s].at # "idle" => q = s
    BY <1>t DEF ChargesAreTrue
  <2>1. \A p \in Postings : failures[p] <= failures'[p]
    BY <1>1, <1>3
  <2>2. memory' # Torn => \A p \in Postings : memory'.cycles[p] <= failures'[p]
    <3> SUFFICES ASSUME memory # Torn, NEW p \in Postings
                 PROVE  memory.cycles[p] <= failures'[p]
      BY <1>2
    <3>1. memory.cycles[p] \in Nat /\ failures'[p] \in Nat
      BY <1>7, <1>t DEF VerificationTypeOK, Histories
    <3> QED
      BY <1>3, <2>t, <2>1, <3>1
  <2>3. \A p \in Postings : n.cycles[p] <= failures'[p] /\ (p \in verified => n.cycles[p] = 0)
    <3> SUFFICES ASSUME NEW p \in Postings
                 PROVE  n.cycles[p] <= failures'[p] /\ (p \in verified => n.cycles[p] = 0)
      OBVIOUS
    <3>1. m.cycles[p] <= failures[p]
      BY <1>2, <2>t DEF MindCharges
    <3>2. failures'[p] = IF p \in sweep[r].picked \ verified THEN failures[p] + 1
                         ELSE failures[p]
      BY <1>1
    <3> QED
      BY <1>3, <1>4, <1>5, <3>1, <3>2
  <2>4. \A s \in Sweeps : s # r => sweep'[s].at = "idle"
    BY <1>2, <1>6, <2>t
  <2>5. \A s \in Sweeps : MindCharges(s)'
    BY <1>6, <2>3, <2>4 DEF MindCharges
  <2> QED
    BY <1>2, <2>2, <2>4, <2>5 DEF ChargesAreTrue
<1> QED
  BY <1>7, <1>8, <1>9, <1>10 DEF MemoryInv

\* A posting that was verified has no failures left in the file that says so.
LEMMA EndKeeps ==
    ASSUME MemoryInv, NEW r \in Sweeps, EndSweep(r)
    PROVE  MemoryInv'
<1>t. /\ VerificationTypeOK /\ \A s \in Sweeps : MindAgrees(s)
      /\ ChargesAreTrue
  BY DEF MemoryInv
<1>1. /\ today' = today /\ overlapped' = overlapped
      /\ sweep[r].at = "storing" /\ sweep[r].at # "idle"
      /\ memory' \in {Torn, Saved(sweep[r].mind)}
      /\ failures' = [p \in Postings |-> IF p \in sweep[r].verified THEN 0 ELSE failures[p]]
      /\ sweep' = [sweep EXCEPT ![r] = [Idle EXCEPT !.day = sweep[r].day]]
  BY DEF EndSweep, FileAfter
<1>2. /\ sweep'[r] = [Idle EXCEPT !.day = sweep[r].day]
      /\ \A s \in Sweeps : s # r => sweep'[s] = sweep[s]
  BY <1>1, <1>t DEF VerificationTypeOK
<1>3. /\ sweep'[r].at = "idle" /\ sweep'[r].day = sweep[r].day
      /\ sweep'[r] \in [at : {"idle", "fetching", "saving", "concluded", "storing"},
                        day : Int, mind : Histories,
                        picked : SUBSET Postings, verified : SUBSET Postings]
  <2>1. sweep[r].day \in Int
    BY <1>t, SweepFields
  <2> QED
    BY <1>2, <2>1, UnknownIs DEF Idle
<1>4. VerificationTypeOK'
  <2>1. failures' \in [Postings -> Nat] /\ memory' \in Histories \union {Torn}
    BY <1>1, <1>t, SavedAgrees DEF VerificationTypeOK
  <2>2. sweep' \in [Sweeps -> [at : {"idle", "fetching", "saving", "concluded", "storing"},
                               day : Int, mind : Histories,
                               picked : SUBSET Postings, verified : SUBSET Postings]]
    BY <1>1, <1>2, <1>3, <1>t DEF VerificationTypeOK
  <2> QED
    BY <1>1, <1>t, <2>1, <2>2 DEF VerificationTypeOK
<1>5. FileAgrees'
  BY <1>1, SavedAgrees DEF FileAgrees
<1>6. \A s \in Sweeps : MindAgrees(s)'
  BY <1>1, <1>2, <1>3, <1>t DEF MindAgrees
<1>7. ChargesAreTrue'
  <2> SUFFICES ASSUME ~overlapped PROVE ChargesAreTrue'
    BY <1>1 DEF ChargesAreTrue
  <2>1. \A s \in Sweeps : sweep'[s].at = "idle"
    BY <1>1, <1>2, <1>3, <1>t DEF ChargesAreTrue
  <2>2. memory' # Torn => \A p \in Postings : memory'.cycles[p] <= failures'[p]
    <3> SUFFICES ASSUME memory' = Saved(sweep[r].mind), NEW p \in Postings
                 PROVE  memory'.cycles[p] <= failures'[p]
      BY <1>1
    <3>1. memory'.cycles[p] = sweep[r].mind.cycles[p]
      BY <1>t, SavedIs, SweepFields
    <3>2. MindCharges(r)
      BY <1>t DEF ChargesAreTrue
    <3> QED
      BY <1>1, <3>1, <3>2 DEF MindCharges
  <2> QED
    BY <2>1, <2>2 DEF ChargesAreTrue, MindCharges
<1> QED
  BY <1>4, <1>5, <1>6, <1>7 DEF MemoryInv

\* A day later every pause is nearer.
LEMMA NextDayKeeps == MemoryInv /\ NextDay => MemoryInv'
<1> SUFFICES ASSUME MemoryInv, NextDay PROVE MemoryInv'
  OBVIOUS
<1>t. /\ VerificationTypeOK /\ FileAgrees /\ ChargesAreTrue
      /\ \A s \in Sweeps : MindAgrees(s)
  BY DEF MemoryInv
<1>1. /\ today' = today + 1 /\ today \in Nat
      /\ memory' = memory /\ sweep' = sweep
      /\ failures' = failures /\ overlapped' = overlapped
      /\ \A s \in Sweeps : sweep[s].at = "idle" /\ sweep[s].day \in Int
  BY <1>t, SweepFields DEF NextDay, VerificationTypeOK
<1>2. VerificationTypeOK'
  BY <1>1, <1>t DEF VerificationTypeOK
<1>3. FileAgrees'
  <2> SUFFICES ASSUME memory # Torn, NEW p \in Postings, memory.nextCheck[p] # None
               PROVE  memory.nextCheck[p] <= today + 1 + WatchDays
    BY <1>1, <1>t DEF FileAgrees
  <2>1. memory.nextCheck[p] \in Int /\ memory.nextCheck[p] <= today + WatchDays
    BY <1>t DEF FileAgrees, VerificationTypeOK, Histories
  <2> QED
    BY <1>1, <2>1, PositiveCycles
<1>4. \A s \in Sweeps : MindAgrees(s)'
  BY <1>1, <1>t DEF MindAgrees
<1>5. ChargesAreTrue'
  BY <1>1, <1>t DEF ChargesAreTrue, MindCharges
<1> QED
  BY <1>2, <1>3, <1>4, <1>5 DEF MemoryInv

\* Every step.
LEMMA MemoryStep == MemoryInv /\ [VerificationNext]_verificationVars => MemoryInv'
<1> SUFFICES ASSUME MemoryInv, [VerificationNext]_verificationVars PROVE MemoryInv'
  OBVIOUS
<1>1. CASE UNCHANGED verificationVars
  BY <1>1 DEF verificationVars, MemoryInv, VerificationTypeOK, FileAgrees, MindAgrees,
              ChargesAreTrue, MindCharges
<1>2. ASSUME NEW r \in Sweeps,
             \/ StartSweep(r) \/ SaveMidway(r) \/ EndSave(r) \/ Conclude(r)
             \/ StoreMemory(r) \/ EndSweep(r) \/ SweepCrash(r)
      PROVE  MemoryInv'
  BY <1>2, StartKeeps, OpeningKeeps, ClosingKeeps, ConcludeKeeps, EndKeeps
<1> QED
  BY <1>1, <1>2, NextDayKeeps DEF VerificationNext

\* The memory of what could not be verified is consistent in the file and in
\* every run's mind, whatever runs crash or overlap, and while no two overlap it
\* holds no posting to failures it did not have (hydrate_result, RetrievalBudget).
THEOREM MemoryStaysTrue == VerificationSpec => []MemoryIsTrue
<1>1. MemoryInv => MemoryIsTrue
  BY DEF MemoryInv, MemoryIsTrue, HistoryAgrees, NoPhantomFailures, FileAgrees,
         MindAgrees, ChargesAreTrue
<1> QED
  BY <1>1, MemoryStarts, MemoryStep, PTL DEF VerificationSpec

-----------------------------------------------------------------------------
(* Fetching.                                                               *)

\* A posting that is listed is shown at this hour.
ListedNow == \A l \in Leaves : listed[l] => tick \in shownAt[l]

\* The rows of a page were listed at the hour it came.
PagesTrue ==
    \A u \in Addresses : pages[u] # None =>
        /\ pages[u].at <= tick
        /\ \A k \in pages[u].body.rows : pages[u].at \in shownAt[k]

FetchInv ==
    /\ FetchTypeOK
    /\ ListedNow
    /\ PagesTrue
    /\ OpenWhenSeen
    /\ HostsLeftAlone

\* What is read on a true page is true.
LEMMA ParsedIsTrue ==
    ASSUME FetchTypeOK, NEW l \in Leaves, NEW at \in Nat,
           NEW body \in [form : {"whole", "broken"}, moved : BOOLEAN,
                         notice : BOOLEAN, rows : SUBSET Leaves],
           \A k \in body.rows : at \in shownAt[k],
           tick - at <= CacheTtl, OpenWhenSeen
    PROVE  LET r == Parsed(l, body, at)
               f == FoundAfter(l, r)
           IN  /\ r.state \in {"complete", "failed", "partial", "unavailable"}
               /\ f \in [Leaves -> {None} \union
                    [vacancy : {"unknown", "verified_open", "explicitly_closed"},
                     age : Int, openAt : Nat \union {None}]]
               /\ \A k \in Leaves : f[k] # None =>
                    /\ f[k].openAt # None => f[k].openAt \in shownAt[k]
                    /\ f[k].age <= CacheTtl
<1> DEFINE r == Parsed(l, body, at)
           c == Child(r)
           f == FoundAfter(l, r)
<1>t. /\ tick \in Nat /\ shownAt \in [Leaves -> SUBSET Nat]
      /\ found \in [Leaves -> {None} \union
           [vacancy : {"unknown", "verified_open", "explicitly_closed"},
            age : Int, openAt : Nat \union {None}]]
  BY DEF FetchTypeOK
<1>1. \/ r.state \in {"failed", "partial", "unavailable"}
      \/ /\ r.state = "complete" /\ r.at = at /\ r.asked = tick
         /\ r.vacancy \in {"unknown", "verified_open", "explicitly_closed"}
         /\ r.vacancy = "verified_open" => l \in body.rows
  BY DEF Parsed, Failure
<1>2. f = [found EXCEPT ![l] = IF r.state = "complete" THEN c ELSE @]
  BY DEF FoundAfter
<1>3. r.state = "complete" =>
        /\ c \in [vacancy : {"unknown", "verified_open", "explicitly_closed"},
                  age : Int, openAt : Nat \union {None}]
        /\ c.openAt # None => c.openAt \in shownAt[l]
        /\ c.age <= CacheTtl
  <2> SUFFICES ASSUME r.state = "complete"
               PROVE  /\ c \in [vacancy : {"unknown", "verified_open", "explicitly_closed"},
                                age : Int, openAt : Nat \union {None}]
                      /\ c.openAt # None => c.openAt \in shownAt[l]
                      /\ c.age <= CacheTtl
    OBVIOUS
  <2>1. /\ r.at = at /\ r.asked = tick
        /\ r.vacancy \in {"unknown", "verified_open", "explicitly_closed"}
        /\ r.vacancy = "verified_open" => at \in shownAt[l]
    BY <1>1
  <2> HIDE DEF r
  <2> QED
    BY <1>t, <2>1 DEF Child
<1> HIDE DEF c, r
<1>4. f \in [Leaves -> {None} \union
           [vacancy : {"unknown", "verified_open", "explicitly_closed"},
            age : Int, openAt : Nat \union {None}]]
  BY <1>t, <1>2, <1>3
<1>5. ASSUME NEW k \in Leaves, f[k] # None
      PROVE  /\ f[k].openAt # None => f[k].openAt \in shownAt[k]
             /\ f[k].age <= CacheTtl
  <2>1. CASE f[k] = found[k]
    BY <1>5, <2>1 DEF OpenWhenSeen
  <2>2. CASE f[k] # found[k]
    <3>1. k = l /\ f[k] = c /\ r.state = "complete"
      BY <1>t, <1>2, <2>2
    <3> QED
      BY <1>3, <3>1
  <2> QED
    BY <2>1, <2>2
<1> QED
  BY <1>1, <1>4, <1>5 DEF r

\* What becomes of a page that was read.
LEMMA KeptIsTrue ==
    ASSUME FetchTypeOK, PagesTrue, NEW l \in Leaves, NEW cached \in BOOLEAN, NEW r,
           NEW body \in [form : {"whole", "broken"}, moved : BOOLEAN,
                         notice : BOOLEAN, rows : SUBSET Leaves],
           ~cached => \A k \in body.rows : tick \in shownAt[k]
    PROVE  LET kept == Kept(l, r, body, cached)
           IN  /\ kept \in [Addresses -> {None} \union
                    [at : Nat, body : [form : {"whole", "broken"}, moved : BOOLEAN,
                                       notice : BOOLEAN, rows : SUBSET Leaves]]]
               /\ \A u \in Addresses : kept[u] # None =>
                    /\ kept[u].at <= tick
                    /\ \A k \in kept[u].body.rows : kept[u].at \in shownAt[k]
<1> DEFINE x == [at |-> tick, body |-> body]
           kept == Kept(l, r, body, cached)
<1>1. /\ tick \in Nat /\ x.at = tick /\ x.body = body
      /\ x \in [at : Nat, body : [form : {"whole", "broken"}, moved : BOOLEAN,
                                  notice : BOOLEAN, rows : SUBSET Leaves]]
  BY DEF FetchTypeOK
<1>2. \/ kept = [pages EXCEPT ![Address[l]] = None]
      \/ kept = pages
      \/ ~cached /\ kept = [pages EXCEPT ![Address[l]] = x]
  BY DEF Kept
<1> HIDE DEF x, kept
<1>3. kept \in [Addresses -> {None} \union
        [at : Nat, body : [form : {"whole", "broken"}, moved : BOOLEAN,
                           notice : BOOLEAN, rows : SUBSET Leaves]]]
  BY <1>1, <1>2 DEF FetchTypeOK
<1>4. ASSUME NEW u \in Addresses, kept[u] # None
      PROVE  kept[u] = pages[u] \/ (~cached /\ kept[u] = x)
  BY <1>2, <1>4 DEF FetchTypeOK
<1>5. ASSUME NEW u \in Addresses, kept[u] # None
      PROVE  /\ kept[u].at <= tick
             /\ \A k \in kept[u].body.rows : kept[u].at \in shownAt[k]
  <2>1. CASE kept[u] = pages[u]
    BY <1>5, <2>1 DEF PagesTrue
  <2>2. CASE ~cached /\ kept[u] = x
    BY <1>1, <2>2
  <2> QED
    BY <1>4, <1>5, <2>1, <2>2
<1> QED
  BY <1>3, <1>5 DEF kept

\* One worker moves, into a gate only if there is room.
Rows == [at : {"idle", "acquire", "queued", "gated", "sent"},
         leaf : Leaves \union {None},
         trail : Seq(Addresses \union Elsewhere), tries : Nat]

Moves(w) ==
    /\ worker' = [worker EXCEPT ![w] = worker'[w]]
    /\ worker'[w] \in Rows
    /\ worker'[w].at # "idle" => worker'[w].leaf \in Leaves
    /\ worker'[w].at \in {"gated", "sent"} =>
         /\ worker'[w].trail = worker[w].trail
         /\ \/ worker[w].at \in {"gated", "sent"}
            \/ Cardinality(InGate(Target(w))) < PerHost

\* What all workers satisfy.
Manned ==
    /\ worker \in [Workers -> Rows]
    /\ \A w \in Workers : worker[w].at # "idle" => worker[w].leaf \in Leaves
    /\ \A h \in Hosts : Cardinality(InGate(h)) <= PerHost

\* A worker that moves leaves no gate with more than it admits.
LEMMA MovesKeep ==
    ASSUME Manned, NEW w \in Workers, Moves(w)
    PROVE  Manned'
<1>1. /\ worker' \in [Workers -> Rows]
      /\ \A v \in Workers : v # w => worker'[v] = worker[v]
      /\ \A v \in Workers : worker'[v].at # "idle" => worker'[v].leaf \in Leaves
  BY DEF Manned, Moves
<1>2. ASSUME NEW h \in Hosts PROVE Cardinality(InGate(h)') <= PerHost
  <2>1. /\ IsFiniteSet(Workers) /\ PerHost \in Nat
        /\ InGate(h) \subseteq Workers /\ InGate(h)' \subseteq Workers
    BY FetchAssumption DEF InGate
  <2>2. /\ IsFiniteSet(InGate(h)) /\ Cardinality(InGate(h)) \in Nat
        /\ IsFiniteSet(InGate(h)') /\ Cardinality(InGate(h)') \in Nat
    BY <2>1, FS_Subset, FS_CardinalityType
  <2>3. Cardinality(InGate(h)) <= PerHost
    BY DEF Manned
  <2>4. \A v \in Workers : v # w => (v \in InGate(h)' <=> v \in InGate(h))
    BY <1>1 DEF InGate, Target
  <2>5. CASE InGate(h)' \subseteq InGate(h)
    <3>1. Cardinality(InGate(h)') <= Cardinality(InGate(h))
      BY <2>2, <2>5, FS_Subset
    <3> QED
      BY <2>1, <2>2, <2>3, <3>1
  <2>6. CASE ~(InGate(h)' \subseteq InGate(h))
    <3>1. w \in InGate(h)' /\ w \notin InGate(h)
      BY <2>1, <2>4, <2>6
    <3>2. worker'[w].at \in {"gated", "sent"} /\ Target(w)' = h
      BY <3>1 DEF InGate
    <3>3. worker'[w].trail = worker[w].trail
      BY <3>2 DEF Moves
    <3>4. Target(w) = h
      BY <3>2, <3>3 DEF Target
    <3>5. Cardinality(InGate(h)) < PerHost
      BY <3>1, <3>2, <3>4 DEF Moves, InGate
    <3>6. InGate(h)' = InGate(h) \union {w}
      BY <2>1, <2>4, <3>1
    <3>7. Cardinality(InGate(h)') = Cardinality(InGate(h)) + 1
      BY <2>2, <3>1, <3>6, FS_AddElement
    <3> QED
      BY <2>1, <2>2, <3>5, <3>7
  <2> QED
    BY <2>5, <2>6
<1> QED
  BY <1>1, <1>2 DEF Manned

\* The invariant says so.
LEMMA InvIsManned == FetchInv => Manned
  BY DEF FetchInv, FetchTypeOK, HostsLeftAlone, Manned, Rows

\* A worker at rest, and one that asks at an address.
LEMMA WorkerRows ==
    /\ AtRest \in Rows /\ AtRest.at = "idle"
    /\ \A l \in Leaves : <<Address[l]>> \in Seq(Addresses \union Elsewhere)
    /\ \A t \in Seq(Addresses \union Elsewhere), u \in Elsewhere :
         Append(t, u) \in Seq(Addresses \union Elsewhere)
<1>1. AtRest \in Rows /\ AtRest.at = "idle"
  BY DEF AtRest, Rows
<1>2. \A l \in Leaves : <<Address[l]>> \in Seq(Addresses \union Elsewhere)
  BY DEF Addresses
<1>3. \A t \in Seq(Addresses \union Elsewhere), u \in Elsewhere :
        Append(t, u) \in Seq(Addresses \union Elsewhere)
  OBVIOUS
<1> QED
  BY <1>1, <1>2, <1>3

\* Every action of a worker moves it.
LEMMA WorkersMove ==
    ASSUME Manned, NEW w \in Workers,
           \/ \E l \in Leaves : Take(w, l)
           \/ Acquire(w) \/ EnterGate(w) \/ Send(w) \/ Refused(w) \/ Unwell(w)
           \/ Redirected(w) \/ NoAnswer(w) \/ Answered(w)
    PROVE  worker' = worker \/ Moves(w)
<1>t. /\ worker \in [Workers -> Rows] /\ worker[w] \in Rows
      /\ worker[w].at # "idle" => worker[w].leaf \in Leaves
      /\ worker[w].trail \in Seq(Addresses \union Elsewhere)
  BY DEF Manned, Rows
<1>1. ASSUME Done(w) PROVE Moves(w)
  BY <1>t, <1>1, WorkerRows DEF Done, Moves
<1>2. ASSUME NEW l \in Leaves, Take(w, l) PROVE worker' = worker \/ Moves(w)
  <2>1. CASE worker' = worker
    BY <2>1
  <2>2. CASE worker' = [worker EXCEPT ![w] =
               [at |-> "acquire", leaf |-> l, trail |-> <<Address[l]>>, tries |-> 0]]
    <3> DEFINE x == [at |-> "acquire", leaf |-> l, trail |-> <<Address[l]>>, tries |-> 0]
    <3>1. x \in Rows /\ x.at = "acquire" /\ x.leaf = l
      BY WorkerRows DEF Rows
    <3> HIDE DEF x
    <3>2. worker' = [worker EXCEPT ![w] = x]
      BY <2>2 DEF x
    <3> QED
      BY <1>t, <3>1, <3>2 DEF Moves
  <2> QED
    BY <1>2, <2>1, <2>2 DEF Take
<1>4. CASE Acquire(w)
  <2>1. CASE worker' = [worker EXCEPT ![w].at = "queued"]
    BY <1>t, <1>4, <2>1 DEF Acquire, Moves, Rows
  <2> QED
    BY <1>1, <1>4, <2>1 DEF Acquire
<1>5. CASE EnterGate(w)
  BY <1>t, <1>5 DEF EnterGate, Moves, Rows
<1>6. CASE Send(w)
  <2>1. CASE worker' = [worker EXCEPT ![w].at = "sent"]
    BY <1>t, <1>6, <2>1 DEF Send, Moves, Rows
  <2> QED
    BY <1>1, <1>6, <2>1 DEF Send
<1>7. CASE Refused(w) \/ NoAnswer(w) \/ Answered(w)
  BY <1>1, <1>7 DEF Refused, NoAnswer, Answered
<1>8. CASE Unwell(w)
  <2>1. ASSUME ~Done(w) PROVE Moves(w)
    <3> DEFINE x == [at |-> "acquire", leaf |-> worker[w].leaf,
                     trail |-> <<Address[worker[w].leaf]>>, tries |-> worker[w].tries + 1]
    <3>1. /\ <<Address[worker[w].leaf]>> \in Seq(Addresses \union Elsewhere)
          /\ worker[w].leaf \in Leaves /\ worker[w].tries + 1 \in Nat
      BY <1>t, <1>8, WorkerRows DEF Unwell, Rows
    <3>2. worker' = [worker EXCEPT ![w] = x]
      BY <1>8, <2>1 DEF Unwell
    <3>3. x \in Rows /\ x.at = "acquire" /\ x.leaf = worker[w].leaf
      BY <3>1 DEF Rows
    <3> HIDE DEF x
    <3> QED
      BY <1>t, <3>1, <3>2, <3>3 DEF Moves
  <2> QED
    BY <1>1, <2>1
<1>9. CASE Redirected(w)
  <2>1. ASSUME NEW u \in Elsewhere,
               worker' = [worker EXCEPT ![w].at = "acquire", ![w].trail = Append(@, u)]
        PROVE  Moves(w)
    <3>1. /\ Append(worker[w].trail, u) \in Seq(Addresses \union Elsewhere)
          /\ worker[w].leaf \in Leaves
      BY <1>t, <1>9, WorkerRows DEF Redirected
    <3> DEFINE t == Append(worker[w].trail, u)
    <3>2. worker'[w] = [worker[w] EXCEPT !.at = "acquire", !.trail = t]
      BY <1>t, <2>1
    <3>3. worker' = [worker EXCEPT ![w] = worker'[w]]
      BY <1>t, <2>1
    <3> HIDE DEF t
    <3>4. t \in Seq(Addresses \union Elsewhere)
      BY <3>1 DEF t
    <3> QED
      BY <1>t, <3>1, <3>2, <3>3, <3>4 DEF Moves, Rows
  <2> QED
    BY <1>1, <1>9, <2>1 DEF Redirected
<1> QED
  BY <1>2, <1>4, <1>5, <1>6, <1>7, <1>8, <1>9

\* The pages kept, and what was learnt.
PageRows == [at : Nat, body : [form : {"whole", "broken"}, moved : BOOLEAN,
                               notice : BOOLEAN, rows : SUBSET Leaves]]
FoundRows == [vacancy : {"unknown", "verified_open", "explicitly_closed"},
              age : Int, openAt : Nat \union {None}]

PagesKept == pages \in [Addresses -> {None} \union PageRows] /\ PagesTrue
FoundKept == found \in [Leaves -> {None} \union FoundRows] /\ OpenWhenSeen

\* The invariant, in the parts the actions of a worker touch.
LEMMA InvParts ==
    FetchInv <=> /\ Manned /\ PagesKept /\ FoundKept /\ ListedNow
                 /\ tick \in Nat
                 /\ listed \in [Leaves -> BOOLEAN] /\ shownAt \in [Leaves -> SUBSET Nat]
                 /\ sent \in Nat /\ sent <= RequestCap /\ hasty = FALSE
  BY DEF FetchInv, FetchTypeOK, HostsLeftAlone, Manned, Rows, PagesKept, FoundKept,
         PageRows, FoundRows

\* A worker that moves, with the hour and the listings as they were.
LEMMA WorkerKeeps ==
    ASSUME FetchInv, NEW w \in Workers, worker' = worker \/ Moves(w),
           UNCHANGED <<tick, listed, shownAt>>, PagesKept', FoundKept',
           sent' \in Nat, sent' <= RequestCap, hasty' = FALSE
    PROVE  FetchInv'
<1>1. Manned
  BY InvIsManned
<1>2. Manned'
  <2>1. CASE worker' = worker
    BY <1>1, <2>1 DEF Manned, InGate, Target
  <2>2. CASE Moves(w)
    BY <1>1, <2>2, MovesKeep
  <2> QED
    BY <2>1, <2>2
<1>3. /\ (tick \in Nat)' /\ ListedNow'
      /\ (listed \in [Leaves -> BOOLEAN])' /\ (shownAt \in [Leaves -> SUBSET Nat])'
  BY InvParts DEF ListedNow
<1> QED
  BY <1>2, <1>3 DEF FetchInv, FetchTypeOK, HostsLeftAlone, Manned, Rows, PagesKept, FoundKept,
                    PageRows, FoundRows

\* Pages and findings that nobody touches stay true.
LEMMA NothingRead ==
    ASSUME FetchInv, UNCHANGED <<tick, shownAt, pages, found>>
    PROVE  PagesKept' /\ FoundKept'
<1>1. PagesKept /\ FoundKept
  BY InvParts
<1> QED
  BY <1>1 DEF PagesKept, FoundKept, PagesTrue, OpenWhenSeen

\* The steps of a worker that read nothing.
LEMMA QuietSteps ==
    ASSUME FetchInv, NEW w \in Workers,
           Acquire(w) \/ EnterGate(w) \/ Send(w) \/ Refused(w) \/ Unwell(w)
             \/ Redirected(w) \/ NoAnswer(w)
    PROVE  FetchInv'
<1>1. worker' = worker \/ Moves(w)
  BY InvIsManned, WorkersMove
<1>2. UNCHANGED <<tick, listed, shownAt, pages, found>>
  BY DEF Acquire, EnterGate, Send, Refused, Unwell, Redirected, NoAnswer
<1>3. PagesKept' /\ FoundKept'
  BY <1>2, NothingRead
<1>4. sent \in Nat /\ sent <= RequestCap /\ RequestCap \in Nat /\ hasty = FALSE
  BY InvParts, FetchAssumption
<1>5. sent' \in Nat /\ sent' <= RequestCap /\ hasty' = FALSE
  <2>1. CASE Send(w)
    <3>1. \/ sent < RequestCap /\ sent' = sent + 1
          \/ sent' = sent
      BY <2>1 DEF Send, MaySend
    <3>2. hasty' = FALSE
      <4>1. CASE ~PausedHost(Target(w)) /\ hasty' = (hasty \/ PausedHost(Target(w)))
        BY <1>4, <4>1
      <4>2. CASE hasty' = hasty
        BY <1>4, <4>2
      <4> QED
        BY <2>1, <4>1, <4>2, Zenon DEF Send, MaySend
    <3> QED
      BY <1>4, <3>1, <3>2
  <2>2. CASE ~Send(w)
    BY <1>4, <2>2 DEF Acquire, EnterGate, Refused, Unwell, Redirected, NoAnswer
  <2> QED
    BY <2>1, <2>2
<1> QED
  BY <1>1, <1>2, <1>3, <1>5, WorkerKeeps

\* A posting is taken up: from a page that is kept, or by asking for one.
LEMMA TakeKeeps ==
    ASSUME FetchInv, NEW w \in Workers, NEW l \in Leaves, Take(w, l)
    PROVE  FetchInv'
<1>1. worker' = worker \/ Moves(w)
  BY InvIsManned, WorkersMove
<1>2. UNCHANGED <<tick, listed, shownAt, sent, hasty>>
  BY DEF Take
<1>3. sent' \in Nat /\ sent' <= RequestCap /\ hasty' = FALSE
  BY <1>2, InvParts
<1>4. PagesKept' /\ FoundKept'
  <2> DEFINE page == pages[Address[l]]
  <2>1. CASE page # None /\ tick - page.at <= CacheTtl
    <3>1. /\ page \in PageRows
          /\ \A k \in page.body.rows : page.at \in shownAt[k]
      BY <2>1, InvParts DEF PagesKept, PagesTrue, Addresses
    <3> DEFINE at == page.at
               body == page.body
               r == Parsed(l, body, at)
    <3>2. found' = FoundAfter(l, r) /\ pages' = Kept(l, r, body, TRUE)
      BY <2>1 DEF Take
    <3>3. at \in Nat /\ tick - at <= CacheTtl
          /\ body \in [form : {"whole", "broken"}, moved : BOOLEAN,
                       notice : BOOLEAN, rows : SUBSET Leaves]
          /\ \A k \in body.rows : at \in shownAt[k]
      BY <2>1, <3>1 DEF PageRows
    <3> HIDE DEF at, body
    <3>4. FetchTypeOK /\ PagesTrue /\ OpenWhenSeen
      BY DEF FetchInv
    <3>5. FoundKept'
      BY <1>2, <3>2, <3>3, <3>4, ParsedIsTrue DEF FoundKept, FoundRows, OpenWhenSeen
    <3> HIDE DEF r
    <3>6. PagesKept'
      BY <1>2, <3>2, <3>3, <3>4, KeptIsTrue DEF PagesKept, PageRows, PagesTrue
    <3> QED
      BY <3>5, <3>6
  <2>2. CASE ~(page # None /\ tick - page.at <= CacheTtl)
    BY <1>2, <2>2, NothingRead DEF Take
  <2> QED
    BY <2>1, <2>2
<1> QED
  BY <1>1, <1>2, <1>3, <1>4, WorkerKeeps

\* A page comes; its rows are the postings listed at this hour.
LEMMA AnsweredKeeps ==
    ASSUME FetchInv, NEW w \in Workers, Answered(w)
    PROVE  FetchInv'
<1>1. worker' = worker \/ Moves(w)
  BY InvIsManned, WorkersMove
<1>2. UNCHANGED <<tick, listed, shownAt, sent, hasty>>
  BY DEF Answered
<1>3. sent' \in Nat /\ sent' <= RequestCap /\ hasty' = FALSE
  BY <1>2, InvParts
<1>4. FetchTypeOK /\ PagesTrue /\ OpenWhenSeen /\ ListedNow /\ tick \in Nat
  BY DEF FetchInv, FetchTypeOK
<1> DEFINE l == worker[w].leaf
<1>5. l \in Leaves
  BY <1>4 DEF Answered, FetchTypeOK
<1> DEFINE moved == HostOf[Last(worker[w].trail)] # HostOf[Address[l]]
           rows == {k \in Leaves : listed[k] /\ Address[k] = Address[l]}
           page(f, n) == [form |-> f, moved |-> moved, notice |-> n, rows |-> rows]
<1>6. PICK form \in {"whole", "broken"}, notice \in BOOLEAN :
        /\ found' = FoundAfter(l, Parsed(l, page(form, notice), tick))
        /\ pages' = Kept(l, Parsed(l, page(form, notice), tick), page(form, notice), FALSE)
  BY DEF Answered
<1>7. moved \in BOOLEAN /\ rows \in SUBSET Leaves /\ \A k \in rows : tick \in shownAt[k]
  BY <1>4 DEF ListedNow
<1> DEFINE body == page(form, notice)
           r == Parsed(l, body, tick)
<1>8. body \in [form : {"whole", "broken"}, moved : BOOLEAN,
                notice : BOOLEAN, rows : SUBSET Leaves]
      /\ \A k \in body.rows : tick \in shownAt[k]
  <2> HIDE DEF moved, rows
  <2> QED
    BY <1>7
<1>9. found' = FoundAfter(l, r) /\ pages' = Kept(l, r, body, FALSE)
  BY <1>6
<1>10. tick - tick <= CacheTtl
  BY <1>4, FetchAssumption
<1> HIDE DEF body, l
<1>11. FoundKept'
  BY <1>2, <1>4, <1>5, <1>8, <1>9, <1>10, ParsedIsTrue DEF FoundKept, FoundRows, OpenWhenSeen
<1> HIDE DEF r
<1>12. PagesKept'
  BY <1>2, <1>4, <1>5, <1>8, <1>9, KeptIsTrue DEF PagesKept, PageRows, PagesTrue
<1> QED
  BY <1>1, <1>2, <1>3, <1>11, <1>12, WorkerKeeps

\* A new run starts with every worker at rest and nothing sent.
LEMMA NewRunKeeps == FetchInv /\ NewRun => FetchInv'
<1> SUFFICES ASSUME FetchInv, NewRun PROVE FetchInv'
  OBVIOUS
<1>1. UNCHANGED <<tick, listed, shownAt, pages, found, hasty>> /\ sent' = 0
  BY DEF NewRun
<1>2. PagesKept' /\ FoundKept'
  BY <1>1, NothingRead
<1>3. Manned'
  <2>1. \A w \in Workers : worker'[w] = AtRest
    BY DEF NewRun
  <2>2. \A h \in Hosts : InGate(h)' = {}
    BY <2>1, WorkerRows DEF InGate
  <2>3. Cardinality({}) <= PerHost
    BY FS_EmptySet, FetchAssumption
  <2>4. worker' \in [Workers -> Rows]
    BY WorkerRows DEF NewRun
  <2> QED
    BY <2>1, <2>2, <2>3, <2>4, WorkerRows DEF Manned
<1>4. /\ (tick \in Nat)' /\ ListedNow' /\ hasty' = FALSE
      /\ (listed \in [Leaves -> BOOLEAN])' /\ (shownAt \in [Leaves -> SUBSET Nat])'
  BY <1>1, InvParts DEF ListedNow
<1>5. sent' \in Nat /\ sent' <= RequestCap
  BY <1>1, FetchAssumption
<1> QED
  BY <1>2, <1>3, <1>4, <1>5 DEF FetchInv, FetchTypeOK, HostsLeftAlone, Manned, Rows,
                                PagesKept, FoundKept, PageRows, FoundRows

\* An hour passes, or the publisher lists a posting: what was shown stays shown.
LEMMA OutsideKeeps ==
    ASSUME FetchInv, Tick \/ \E l \in Leaves : List(l)
    PROVE  FetchInv'
<1>1. UNCHANGED <<pages, worker, sent, found, hasty>>
  BY DEF Tick, List
<1>2. /\ tick' \in Nat /\ tick <= tick'
      /\ (listed \in [Leaves -> BOOLEAN])' /\ (shownAt \in [Leaves -> SUBSET Nat])'
      /\ \A k \in Leaves : shownAt[k] \subseteq shownAt'[k]
      /\ ListedNow'
  <2>1. tick \in Nat /\ listed \in [Leaves -> BOOLEAN] /\ shownAt \in [Leaves -> SUBSET Nat]
        /\ ListedNow
    BY InvParts
  <2>2. CASE Tick
    <3>1. tick' = tick + 1 /\ listed' = listed
          /\ shownAt' = [k \in Leaves |-> IF listed[k] THEN shownAt[k] \union {tick + 1}
                                                       ELSE shownAt[k]]
      BY <2>2 DEF Tick
    <3>2. tick + 1 \in Nat /\ tick <= tick + 1
      BY <2>1
    <3>3. \A k \in Leaves : shownAt'[k] \in SUBSET Nat /\ shownAt[k] \subseteq shownAt'[k]
      BY <2>1, <3>1, <3>2
    <3>4. ListedNow'
      BY <2>1, <3>1 DEF ListedNow
    <3>5. (shownAt \in [Leaves -> SUBSET Nat])'
      BY <3>1, <3>3
    <3> QED
      BY <2>1, <3>1, <3>2, <3>3, <3>4, <3>5
  <2>3. ASSUME NEW l \in Leaves, List(l)
        PROVE  /\ tick' = tick
               /\ (listed \in [Leaves -> BOOLEAN])' /\ (shownAt \in [Leaves -> SUBSET Nat])'
               /\ \A k \in Leaves : shownAt[k] \subseteq shownAt'[k]
               /\ ListedNow'
    <3>1. /\ tick' = tick /\ listed' = [listed EXCEPT ![l] = ~@]
          /\ shownAt' = IF listed[l] THEN shownAt ELSE [shownAt EXCEPT ![l] = @ \union {tick}]
      BY <2>3 DEF List
    <3>2. (listed \in [Leaves -> BOOLEAN])' /\ (shownAt \in [Leaves -> SUBSET Nat])'
      BY <2>1, <3>1
    <3>3. \A k \in Leaves : shownAt[k] \subseteq shownAt'[k]
      BY <2>1, <3>1
    <3>4. ~listed[l] => tick \in shownAt'[l]
      BY <2>1, <3>1
    <3>5. \A k \in Leaves : listed'[k] => \/ k = l /\ ~listed[l]
                                          \/ k # l /\ listed[k]
      BY <2>1, <3>1, Zenon
    <3>6. ListedNow'
      BY <2>1, <3>1, <3>3, <3>4, <3>5 DEF ListedNow
    <3> QED
      BY <3>1, <3>2, <3>3, <3>6
  <2> QED
    BY <2>1, <2>2, <2>3
<1>3. PagesKept'
  <2>1. PagesKept
    BY InvParts
  <2>2. ASSUME NEW u \in Addresses, pages[u] # None
        PROVE  pages[u].at <= tick' /\ \A k \in pages[u].body.rows : pages[u].at \in shownAt'[k]
    <3>1. /\ pages[u] \in PageRows /\ pages[u].at <= tick
          /\ \A k \in pages[u].body.rows : pages[u].at \in shownAt[k]
      BY <2>1, <2>2 DEF PagesKept, PagesTrue
    <3>2. tick \in Nat /\ pages[u].at \in Nat /\ pages[u].body.rows \subseteq Leaves
      BY <3>1, InvParts DEF PageRows
    <3> QED
      BY <1>2, <3>1, <3>2
  <2> QED
    BY <1>1, <2>1, <2>2 DEF PagesKept, PagesTrue
<1>4. FoundKept'
  <2>1. FoundKept
    BY InvParts
  <2> QED
    BY <1>1, <1>2, <2>1 DEF FoundKept, OpenWhenSeen
<1>5. Manned'
  <2>1. Manned
    BY InvParts
  <2> QED
    BY <1>1, <2>1 DEF Manned, InGate, Target
<1>6. sent' \in Nat /\ sent' <= RequestCap /\ hasty' = FALSE
  BY <1>1, InvParts
<1> QED
  BY <1>2, <1>3, <1>4, <1>5, <1>6 DEF FetchInv, FetchTypeOK, HostsLeftAlone, Manned, Rows,
                                      PagesKept, FoundKept, PageRows, FoundRows

\* The first state: nothing kept, nothing learnt, nobody at work.
LEMMA FetchStarts == FetchInit => FetchInv
<1> SUFFICES ASSUME FetchInit PROVE FetchInv
  OBVIOUS
<1>1. Manned
  <2>1. worker = [w \in Workers |-> AtRest]
    BY DEF FetchInit
  <2>2. \A h \in Hosts : InGate(h) = {}
    BY <2>1, WorkerRows DEF InGate
  <2>3. Cardinality({}) <= PerHost
    BY FS_EmptySet, FetchAssumption
  <2> QED
    BY <2>1, <2>2, <2>3, WorkerRows DEF Manned
<1>2. PagesKept /\ FoundKept
  BY DEF FetchInit, PagesKept, FoundKept, PagesTrue, OpenWhenSeen
<1>3. /\ tick \in Nat /\ ListedNow
      /\ listed \in [Leaves -> BOOLEAN] /\ shownAt \in [Leaves -> SUBSET Nat]
      /\ sent \in Nat /\ sent <= RequestCap /\ hasty = FALSE
  BY FetchAssumption DEF FetchInit, ListedNow
<1> QED
  BY <1>1, <1>2, <1>3, InvParts

\* Every step.
LEMMA FetchStep == FetchInv /\ [FetchNext]_fetchVars => FetchInv'
<1> SUFFICES ASSUME FetchInv, [FetchNext]_fetchVars PROVE FetchInv'
  OBVIOUS
<1>1. ASSUME NEW w \in Workers, NEW l \in Leaves, Take(w, l) PROVE FetchInv'
  BY <1>1, TakeKeeps
<1>2. ASSUME NEW w \in Workers,
             Acquire(w) \/ EnterGate(w) \/ Send(w) \/ Refused(w) \/ Unwell(w)
               \/ Redirected(w) \/ NoAnswer(w)
      PROVE  FetchInv'
  BY <1>2, QuietSteps
<1>3. ASSUME NEW w \in Workers, Answered(w) PROVE FetchInv'
  BY <1>3, AnsweredKeeps
<1>4. CASE NewRun
  BY <1>4, NewRunKeeps
<1>5. CASE Tick \/ \E l \in Leaves : List(l)
  BY <1>5, OutsideKeeps
<1>6. CASE UNCHANGED fetchVars
  <2>1. UNCHANGED <<pages, worker, sent, tick, listed, found, shownAt, hasty>>
    BY <1>6 DEF fetchVars
  <2> QED
    BY <2>1 DEF FetchInv, FetchTypeOK, ListedNow, PagesTrue, OpenWhenSeen, HostsLeftAlone,
                InGate, Target
<1> QED
  BY <1>1, <1>2, <1>3, <1>4, <1>5, <1>6 DEF FetchNext

\* Whatever hosts answer, however postings come and go, and however many workers
\* and runs share the cache: a posting is said to be open as of an hour at which
\* it was listed, on a page no older than the cache allows
\* (hydrate_public_posting, child_observation).
THEOREM OpenOnlyWhenSeen == FetchSpec => []OpenWhenSeen
<1>1. FetchInv => OpenWhenSeen
  BY DEF FetchInv
<1> QED
  BY FetchStarts, FetchStep, <1>1, PTL DEF FetchSpec

\* And no request goes to a host before the time noted for it, a run sends no
\* more than its budget, and no host serves more at once than it may
\* (RetrievalBudget.acquire, consume_at_send).
THEOREM HostsAreLeftAlone == FetchSpec => []HostsLeftAlone
<1>1. FetchInv => HostsLeftAlone
  BY DEF FetchInv
<1> QED
  BY FetchStarts, FetchStep, <1>1, PTL DEF FetchSpec

-----------------------------------------------------------------------------
(* What the operator hears of the sources.  Without a lapse one run at most *)
(* is under way, so what it compares with is what the operator last heard.  *)

\* What a source is stored as and what the operator knows of it agree, unless
\* the last digest with a line for it only counted it.
Matches(s) ==
    IF healthState[s] = None THEN known[s] = "fine"
    ELSE known[s] # "counted" => (known[s] = "degraded" <=> Degraded(healthState[s]))

\* A run that has stored what it found says what the operator does not know.
WillCatchUp(w, s) ==
    /\ healthState[s] # None
    /\ Degraded(healthState[s]) <=> Degraded(watcher[w].health[s])
    /\ Degraded(watcher[w].health[s]) /\ known[s] \notin {"degraded", "counted"} =>
         watcher[w].said[s] # "none"
    /\ ~Degraded(watcher[w].health[s]) /\ known[s] = "degraded" =>
         watcher[w].said[s] = "recovered"

\* What a run is to say is the transition of what it holds.
SaysWhatChanged(w) ==
    watcher[w].at = "annotated" =>
      \A s \in Watched :
        watcher[w].said[s] = HealthTransition(healthState[s], watcher[w].health[s],
                                              watcher[w].asOf)

\* Without lapses one run at most is under way, and the pictures agree unless
\* it has stored what it has not yet told.
PictureInv ==
    lapses = 0 =>
      /\ \A v, w \in Watchers : watcher[v].at # "idle" /\ watcher[w].at # "idle" => v = w
      /\ \A w \in Watchers : SaysWhatChanged(w)
      /\ \A s \in Watched :
           (\A w \in Watchers : watcher[w].at # "recorded") => Matches(s)
      /\ \A w \in Watchers : watcher[w].at = "recorded" => \A s \in Watched : WillCatchUp(w, s)

\* The types of what is stored and held.
Tidings == {"none", "failed", "partial", "recovered", "error_changed", "coverage_drop"}
Watching == [at : {"idle", "fetched", "annotated", "recorded"}, dry : BOOLEAN,
             asOf : Nat \cup {None}, names : NameLimits \cup {None}, health : [Watched -> Healths] \cup {None},
             said : [Watched -> Tidings] \cup {None}]

WatchTypes ==
    /\ hour \in Nat /\ lapses \in Nat
    /\ healthState \in [Watched -> HealthRow \cup {None}]
    /\ watcher \in [Watchers -> Watching]
    /\ \A w \in Watchers : watcher[w].at # "idle" =>
         watcher[w].asOf \in Nat /\ watcher[w].health \in [Watched -> Healths]
    /\ \A w \in Watchers : watcher[w].at \in {"annotated", "recorded"} =>
         watcher[w].said \in [Watched -> Tidings]

\* The transition says what the operator does not know, whatever else it says.
LEMMA TransitionTells ==
    ASSUME NEW row, NEW h, NEW asOf
    PROVE  /\ Degraded(h) /\ (row = None \/ ~Degraded(row)) => HealthTransition(row, h, asOf) # "none"
           /\ ~Degraded(h) /\ row # None /\ Degraded(row) =>
                HealthTransition(row, h, asOf) = "recovered"
<1>1. ASSUME Degraded(h), row = None \/ ~Degraded(row) PROVE HealthTransition(row, h, asOf) # "none"
  <2>1. h.status # "none"
    BY <1>1 DEF Degraded
  <2> QED
    BY <1>1, <2>1 DEF HealthTransition
<1>2. ASSUME ~Degraded(h), row # None, Degraded(row)
      PROVE  HealthTransition(row, h, asOf) = "recovered"
  BY <1>2 DEF HealthTransition
<1> QED
  BY <1>1, <1>2

\* What a transition says is one of six things.
LEMMA TransitionIsTiding ==
    ASSUME NEW row, NEW h, NEW asOf
    PROVE  HealthTransition(row, h, asOf) \in Tidings
<1>1. Degraded(h) => h.status \in {"partial", "failed"}
  BY DEF Degraded
<1> QED
  BY <1>1 DEF HealthTransition, Tidings

\* One run's entry changes; the others' stay.
LEMMA OneWatcher ==
    ASSUME NEW w \in Watchers, watcher \in [Watchers -> Watching], NEW r,
           watcher' = [watcher EXCEPT ![w] = r]
    PROVE  /\ watcher'[w] = r /\ \A v \in Watchers : v # w => watcher'[v] = watcher[v]
           /\ r \in Watching => watcher' \in [Watchers -> Watching]
  OBVIOUS

\* Types: the entry of a run is replaced by one of the right type.
LEMMA EntryTyped ==
    ASSUME WatchTypes, NEW w \in Watchers, NEW r \in Watching,
           watcher' = [watcher EXCEPT ![w] = r],
           r.at # "idle" => r.asOf \in Nat /\ r.health \in [Watched -> Healths],
           r.at \in {"annotated", "recorded"} => r.said \in [Watched -> Tidings],
           hour' \in Nat, lapses' \in Nat, healthState' \in [Watched -> HealthRow \cup {None}]
    PROVE  WatchTypes'
<1>1. /\ watcher'[w] = r /\ watcher' \in [Watchers -> Watching]
      /\ \A v \in Watchers : v # w => watcher'[v] = watcher[v]
  BY OneWatcher DEF WatchTypes
<1>2. ASSUME NEW v \in Watchers, watcher'[v].at # "idle"
      PROVE  watcher'[v].asOf \in Nat /\ watcher'[v].health \in [Watched -> Healths]
  BY <1>1, <1>2 DEF WatchTypes
<1>3. ASSUME NEW v \in Watchers, watcher'[v].at \in {"annotated", "recorded"}
      PROVE  watcher'[v].said \in [Watched -> Tidings]
  BY <1>1, <1>3 DEF WatchTypes
<1> QED
  BY <1>1, <1>2, <1>3 DEF WatchTypes

\* A run that ends or crashes holds nothing.
LEMMA NothingHeld ==
    /\ NotWatching \in Watching /\ NotWatching.at = "idle"
  BY DEF NotWatching, Watching

\* What a run may be given.
LEMMA NewEntries ==
    ASSUME NEW e \in Watching, NEW health \in [Watched -> Healths], NEW dry \in BOOLEAN,
           NEW asOf \in Nat, NEW names \in NameLimits, NEW said \in [Watched -> Tidings]
    PROVE  LET began == [NotWatching EXCEPT !.at = "fetched", !.dry = dry, !.asOf = asOf,
                                            !.names = names, !.health = health]
               annotated == [e EXCEPT !.at = "annotated", !.said = said]
               recorded == [e EXCEPT !.at = "recorded"]
           IN  /\ began \in Watching /\ began.at = "fetched" /\ began.health = health
               /\ began.asOf = asOf
               /\ annotated \in Watching /\ annotated.at = "annotated" /\ annotated.said = said
               /\ annotated.health = e.health /\ annotated.asOf = e.asOf
               /\ recorded \in Watching /\ recorded.at = "recorded" /\ recorded.said = e.said
               /\ recorded.health = e.health /\ recorded.asOf = e.asOf
  BY DEF NotWatching, Watching

\* What a run stores of a source is a row, and of the health it found.
StoredRow(w, s) ==
    [status |-> watcher[w].health[s].status, count |-> watcher[w].health[s].count,
     error |-> watcher[w].health[s].error,
     alerted |-> IF watcher[w].said[s] # "none" THEN watcher[w].asOf
                 ELSE IF healthState[s] = None THEN None ELSE healthState[s].alerted]

\* Each source's row holds the status the run found, and stays typed.
LEMMA RowsStored ==
    ASSUME WatchTypes, NEW w \in Watchers, RecordHealth(w)
    PROVE  /\ healthState' \in [Watched -> HealthRow]
           /\ \A s \in Watched : healthState'[s].status = watcher[w].health[s].status
<1>1. watcher[w].asOf \in Nat /\ watcher[w].health \in [Watched -> Healths]
  BY DEF WatchTypes, RecordHealth
<1>2. healthState' = [s \in Watched |-> StoredRow(w, s)]
  BY DEF RecordHealth, StoredRow
<1>3. ASSUME NEW s \in Watched
      PROVE  StoredRow(w, s) \in HealthRow /\ StoredRow(w, s).status = watcher[w].health[s].status
  <2>1. watcher[w].health[s] \in Healths
    BY <1>1
  <2> DEFINE h == watcher[w].health[s]
  <2>2. /\ h.status \in {"ok", "empty", "partial", "failed", "disabled"} /\ h.count \in Nat
        /\ h.error \in {None, "http", "invalid_payload"}
    BY <2>1 DEF Healths
  <2>3. healthState[s] # None => healthState[s].alerted \in Nat \cup {None}
    BY DEF WatchTypes, HealthRow
  <2> HIDE DEF h
  <2> DEFINE a == IF watcher[w].said[s] # "none" THEN watcher[w].asOf
                  ELSE IF healthState[s] = None THEN None ELSE healthState[s].alerted
  <2>4. a \in Nat \cup {None}
    BY <1>1, <2>3
  <2> HIDE DEF a
  <2>5. [status |-> h.status, count |-> h.count, error |-> h.error, alerted |-> a] \in HealthRow
    BY <2>2, <2>4 DEF HealthRow
  <2>6. StoredRow(w, s) = [status |-> h.status, count |-> h.count, error |-> h.error, alerted |-> a]
    BY DEF StoredRow, h, a
  <2> QED
    BY <2>5, <2>6 DEF h
<1> QED
  BY <1>2, <1>3

\* A step that leaves a run idle: no other is under way, and what is known
\* agrees with what is stored.
LEMMA EndsWell ==
    ASSUME WatchTypes, PictureInv, NEW w \in Watchers, watcher[w].at # "idle",
           watcher' = [watcher EXCEPT ![w] = NotWatching],
           lapses' = 0 => lapses = 0,
           lapses' = 0 => \A s \in Watched : Matches(s)'
    PROVE  PictureInv'
<1>1. watcher'[w] = NotWatching /\ \A v \in Watchers : v # w => watcher'[v] = watcher[v]
  BY OneWatcher DEF WatchTypes
<1>2. SUFFICES ASSUME lapses' = 0 PROVE PictureInv'
  BY DEF PictureInv
<1>3. \A v \in Watchers : v # w => watcher[v].at = "idle"
  BY <1>2 DEF PictureInv
<1>4. \A v \in Watchers : watcher'[v].at = "idle"
  BY <1>1, <1>3, NothingHeld
<1> QED
  BY <1>2, <1>4 DEF PictureInv, SaysWhatChanged

\* Beginning a run.
LEMMA BeginKeepsPicture ==
    ASSUME WatchTypes, PictureInv, NEW w \in Watchers, BeginWatch(w)
    PROVE  WatchTypes' /\ PictureInv'
<1>1. /\ watcher[w].at = "idle" /\ healthState' = healthState /\ known' = known /\ hour' = hour
      /\ Lapse(IF \E v \in Watchers : watcher[v].at # "idle" THEN 1 ELSE 0)
  BY DEF BeginWatch
<1>2. PICK health \in Findings : \E dry \in BOOLEAN : \E names \in NameLimits :
        watcher' = [watcher EXCEPT ![w] = [NotWatching EXCEPT
          !.at = "fetched", !.dry = dry, !.asOf = hour, !.names = names, !.health = health]]
  BY DEF BeginWatch
<1>3. PICK dry \in BOOLEAN : \E names \in NameLimits :
        watcher' = [watcher EXCEPT ![w] = [NotWatching EXCEPT
          !.at = "fetched", !.dry = dry, !.asOf = hour, !.names = names, !.health = health]]
  BY <1>2
<1>n. PICK names \in NameLimits :
        watcher' = [watcher EXCEPT ![w] = [NotWatching EXCEPT
          !.at = "fetched", !.dry = dry, !.asOf = hour, !.names = names, !.health = health]]
  BY <1>3
<1> DEFINE r == [NotWatching EXCEPT !.at = "fetched", !.dry = dry, !.asOf = hour,
                                    !.names = names, !.health = health]
<1>h. health \in [Watched -> Healths]
  BY NoneIsNoRow
<1>4. r \in Watching /\ r.at = "fetched" /\ r.health = health /\ r.asOf = hour
  BY <1>h DEF NotWatching, Watching, WatchTypes
<1>5. watcher' = [watcher EXCEPT ![w] = r]
  BY <1>n
<1> HIDE DEF r
<1>6. watcher'[w] = r /\ \A v \in Watchers : v # w => watcher'[v] = watcher[v]
  BY <1>5, OneWatcher DEF WatchTypes
<1>7. lapses' \in Nat /\ (lapses' = 0 => lapses = 0 /\ \A v \in Watchers : watcher[v].at = "idle")
  BY <1>1 DEF Lapse, WatchTypes
<1>8. WatchTypes'
  BY <1>1, <1>4, <1>5, <1>7, <1>h, EntryTyped DEF WatchTypes
<1>9. ASSUME lapses' = 0 PROVE PictureInv'
  <2>1. \A v \in Watchers : v # w => watcher'[v].at = "idle"
    BY <1>6, <1>7, <1>9
  <2>2. \A v \in Watchers : watcher'[v].at # "recorded" /\ watcher'[v].at # "annotated"
    BY <1>4, <1>6, <2>1
  <2>3. \A s \in Watched : Matches(s)
    BY <1>7, <1>9 DEF PictureInv
  <2>4. \A s \in Watched : Matches(s)'
    BY <1>1, <2>3 DEF Matches
  <2> QED
    BY <2>1, <2>2, <2>4 DEF PictureInv, SaysWhatChanged
<1> QED
  BY <1>8, <1>9 DEF PictureInv

\* Comparing what was found with what is stored.
LEMMA AnnotateKeepsPicture ==
    ASSUME WatchTypes, PictureInv, NEW w \in Watchers, AnnotateHealth(w)
    PROVE  WatchTypes' /\ PictureInv'
<1> DEFINE told == [s \in Watched |->
                      HealthTransition(healthState[s], watcher[w].health[s], watcher[w].asOf)]
           r == [watcher[w] EXCEPT !.at = "annotated", !.said = told]
<1>1. /\ watcher[w].at = "fetched" /\ healthState' = healthState /\ known' = known
      /\ lapses' = lapses /\ hour' = hour
      /\ watcher' = [watcher EXCEPT ![w].at = "annotated", ![w].said = told]
  BY DEF AnnotateHealth
<1>2. told \in [Watched -> Tidings]
  BY TransitionIsTiding
<1>3. /\ watcher[w] \in Watching /\ watcher[w].asOf \in Nat
      /\ watcher[w].health \in [Watched -> Healths]
  BY <1>1 DEF WatchTypes
<1>4. \A s \in Watched :
        told[s] = HealthTransition(healthState[s], watcher[w].health[s], watcher[w].asOf)
  OBVIOUS
<1> HIDE DEF told
<1>5. watcher' = [watcher EXCEPT ![w] = r]
  BY <1>1 DEF WatchTypes
<1>6. /\ r \in Watching /\ r.at = "annotated" /\ r.said = told /\ r.health = watcher[w].health
      /\ r.asOf = watcher[w].asOf
  BY <1>2, <1>3 DEF Watching
<1> HIDE DEF r
<1>7. watcher'[w] = r /\ \A v \in Watchers : v # w => watcher'[v] = watcher[v]
  BY <1>5, OneWatcher DEF WatchTypes
<1>8. WatchTypes'
  BY <1>1, <1>2, <1>3, <1>5, <1>6, EntryTyped DEF WatchTypes
<1>9. ASSUME lapses = 0 PROVE PictureInv'
  <2>1. \A v \in Watchers : v # w => watcher[v].at = "idle"
    BY <1>1, <1>9 DEF PictureInv
  <2>2. \A v \in Watchers : v # w => watcher'[v].at = "idle"
    BY <1>7, <2>1
  <2>3. \A v \in Watchers : watcher[v].at # "recorded" /\ watcher'[v].at # "recorded"
    BY <1>1, <1>6, <1>7, <2>1
  <2>4. \A s \in Watched : Matches(s)'
    BY <1>1, <1>9, <2>3 DEF PictureInv, Matches
  <2>5. SaysWhatChanged(w)'
    BY <1>1, <1>4, <1>6, <1>7 DEF SaysWhatChanged
  <2>6. \A v \in Watchers : v # w => SaysWhatChanged(v)'
    BY <2>2 DEF SaysWhatChanged
  <2> QED
    BY <2>2, <2>3, <2>4, <2>5, <2>6 DEF PictureInv
<1> QED
  BY <1>1, <1>8, <1>9 DEF PictureInv

\* Storing what was found.
LEMMA RecordKeepsPicture ==
    ASSUME WatchTypes, PictureInv, NEW w \in Watchers, RecordHealth(w)
    PROVE  WatchTypes' /\ PictureInv'
<1> DEFINE r == [watcher[w] EXCEPT !.at = "recorded"]
<1>1. /\ watcher[w].at = "annotated" /\ known' = known /\ lapses' = lapses /\ hour' = hour
      /\ watcher' = [watcher EXCEPT ![w].at = "recorded"]
  BY DEF RecordHealth
<1>2. /\ watcher[w] \in Watching /\ watcher[w].asOf \in Nat
      /\ watcher[w].health \in [Watched -> Healths] /\ watcher[w].said \in [Watched -> Tidings]
  BY <1>1 DEF WatchTypes
<1>3. watcher' = [watcher EXCEPT ![w] = r]
  BY <1>1 DEF WatchTypes
<1>4. /\ r \in Watching /\ r.at = "recorded" /\ r.said = watcher[w].said
      /\ r.health = watcher[w].health /\ r.asOf = watcher[w].asOf
  BY <1>2 DEF Watching
<1> HIDE DEF r
<1>5. watcher'[w] = r /\ \A v \in Watchers : v # w => watcher'[v] = watcher[v]
  BY <1>3, OneWatcher DEF WatchTypes
<1>6. /\ healthState' \in [Watched -> HealthRow]
      /\ \A s \in Watched : healthState'[s].status = watcher[w].health[s].status
  BY RowsStored
<1>7. WatchTypes'
  BY <1>1, <1>2, <1>3, <1>4, <1>6, EntryTyped DEF WatchTypes
<1>8. ASSUME lapses = 0 PROVE PictureInv'
  <2>1. \A v \in Watchers : v # w => watcher[v].at = "idle"
    BY <1>1, <1>8 DEF PictureInv
  <2>2. \A v \in Watchers : v # w => watcher'[v].at = "idle"
    BY <1>5, <2>1
  <2>3. \A s \in Watched : Matches(s)
    BY <1>1, <1>8, <2>1 DEF PictureInv
  <2>4. \A s \in Watched :
          watcher[w].said[s] = HealthTransition(healthState[s], watcher[w].health[s],
                                                watcher[w].asOf)
    BY <1>1, <1>8 DEF PictureInv, SaysWhatChanged
  <2>5. ASSUME NEW s \in Watched PROVE WillCatchUp(w, s)'
    <3>1. healthState'[s] # None
      BY <1>6, NoneIsNoRow
    <3>2. Degraded(healthState'[s]) <=> Degraded(watcher[w].health[s])
      BY <1>6 DEF Degraded
    <3>3. Degraded(watcher[w].health[s]) /\ known[s] \notin {"degraded", "counted"} =>
            watcher[w].said[s] # "none"
      BY <2>3, <2>4, TransitionTells DEF Matches
    <3>4. ~Degraded(watcher[w].health[s]) /\ known[s] = "degraded" =>
            watcher[w].said[s] = "recovered"
      BY <2>3, <2>4, TransitionTells DEF Matches
    <3> QED
      BY <1>1, <1>4, <1>5, <3>1, <3>2, <3>3, <3>4 DEF WillCatchUp
  <2>6. \A v \in Watchers : SaysWhatChanged(v)'
    BY <1>4, <1>5, <2>2 DEF SaysWhatChanged
  <2>7. \A v \in Watchers : watcher'[v].at = "recorded" => v = w
    BY <2>2
  <2>8. watcher'[w].at = "recorded"
    BY <1>4, <1>5
  <2> QED
    BY <2>2, <2>5, <2>6, <2>7, <2>8 DEF PictureInv
<1> QED
  BY <1>1, <1>7, <1>8 DEF PictureInv

\* Telling the operator.
LEMMA TellKeepsPicture ==
    ASSUME WatchTypes, PictureInv, NEW w \in Watchers, TellHealth(w)
    PROVE  WatchTypes' /\ PictureInv'
<1>1. /\ watcher[w].at = "recorded" /\ healthState' = healthState /\ hour' = hour
      /\ watcher' = [watcher EXCEPT ![w] = NotWatching]
  BY DEF TellHealth
<1>2. PICK jobs \in BOOLEAN : \E tried \in BOOLEAN :
        /\ known' = IF (jobs \/ Alerted(w)) /\ tried THEN Heard(w) ELSE known
        /\ Lapse(IF tried THEN 0 ELSE 1)
  BY DEF TellHealth
<1>3. PICK tried \in BOOLEAN :
        /\ known' = IF (jobs \/ Alerted(w)) /\ tried THEN Heard(w) ELSE known
        /\ Lapse(IF tried THEN 0 ELSE 1)
  BY <1>2
<1>4. lapses' \in Nat /\ (lapses' = 0 => lapses = 0 /\ tried)
  BY <1>3 DEF Lapse, WatchTypes
<1>5. WatchTypes'
  BY <1>1, <1>4, NothingHeld, EntryTyped DEF WatchTypes
<1>6. ASSUME lapses' = 0, NEW s \in Watched PROVE Matches(s)'
  <2>1. WillCatchUp(w, s)
    BY <1>1, <1>4, <1>6 DEF PictureInv
  <2>2. CASE jobs \/ Alerted(w)
    <3>1. known'[s] = IF ~IsLine(w, s) THEN known[s]
                      ELSE IF s \notin Named(w) THEN "counted"
                      ELSE IF Degraded(watcher[w].health[s]) THEN "degraded"
                      ELSE IF watcher[w].said[s] = "recovered" THEN "fine" ELSE known[s]
      BY <1>3, <1>4, <1>6, <2>2 DEF Heard
    <3>2. CASE ~IsLine(w, s)
      <4>1. known'[s] = known[s] /\ ~Degraded(watcher[w].health[s]) /\ watcher[w].said[s] = "none"
        BY <3>1, <3>2 DEF IsLine
      <4> QED
        BY <1>1, <2>1, <4>1 DEF WillCatchUp, Matches
    <3>3. CASE IsLine(w, s) /\ s \notin Named(w)
      <4>1. known'[s] = "counted"
        BY <3>1, <3>3
      <4> QED
        BY <1>1, <2>1, <4>1 DEF WillCatchUp, Matches
    <3>4. CASE IsLine(w, s) /\ s \in Named(w)
      <4>1. known'[s] = IF Degraded(watcher[w].health[s]) THEN "degraded"
                        ELSE IF watcher[w].said[s] = "recovered" THEN "fine" ELSE known[s]
        BY <3>1, <3>4
      <4> QED
        BY <1>1, <2>1, <4>1 DEF WillCatchUp, Matches
    <3> QED
      BY <3>2, <3>3, <3>4
  <2>3. CASE ~(jobs \/ Alerted(w))
    <3>1. known' = known /\ watcher[w].said[s] = "none"
      BY <1>3, <2>3 DEF Alerted
    <3> QED
      BY <1>1, <2>1, <3>1 DEF WillCatchUp, Matches
  <2> QED
    BY <2>2, <2>3
<1>7. watcher[w].at # "idle"
  BY <1>1
<1> QED
  BY <1>1, <1>4, <1>5, <1>6, <1>7, EndsWell

\* A run that ends dry or crashes tells nothing, which is a lapse.
LEMMA LapseKeepsPicture ==
    ASSUME WatchTypes, PictureInv, NEW w \in Watchers, EndDryWatch(w) \/ WatcherCrash(w)
    PROVE  WatchTypes' /\ PictureInv'
<1>1. /\ watcher' = [watcher EXCEPT ![w] = NotWatching] /\ Lapse(1)
      /\ healthState' = healthState /\ hour' = hour
  BY DEF EndDryWatch, WatcherCrash
<1>2. lapses' \in Nat /\ lapses' # 0
  BY <1>1 DEF Lapse, WatchTypes
<1>3. WatchTypes'
  BY <1>1, <1>2, NothingHeld, EntryTyped DEF WatchTypes
<1> QED
  BY <1>2, <1>3 DEF PictureInv

\* The pictures agree whenever no run has yet to tell what it stored.
LEMMA PictureKept ==
    ASSUME WatchTypes, PictureInv, [WatchNext]_watchVars
    PROVE  WatchTypes' /\ PictureInv'
<1>1. ASSUME NEW w \in Watchers,
             \/ BeginWatch(w) \/ AnnotateHealth(w) \/ RecordHealth(w) \/ TellHealth(w)
             \/ EndDryWatch(w) \/ WatcherCrash(w)
      PROVE  WatchTypes' /\ PictureInv'
  BY <1>1, BeginKeepsPicture, AnnotateKeepsPicture, RecordKeepsPicture, TellKeepsPicture,
     LapseKeepsPicture
<1>2. CASE NextHour \/ UNCHANGED watchVars
  <2>1. /\ healthState' = healthState /\ watcher' = watcher /\ known' = known /\ lapses' = lapses
        /\ hour' \in Nat
    BY <1>2 DEF NextHour, watchVars, WatchTypes
  <2>2. WatchTypes'
    BY <2>1 DEF WatchTypes
  <2>3. PictureInv' <=> PictureInv
    BY <2>1 DEF PictureInv, SaysWhatChanged, Matches, WillCatchUp
  <2> QED
    BY <2>2, <2>3
<1> QED
  BY <1>1, <1>2 DEF WatchNext

\* At first nothing is stored and no run is under way.
LEMMA PictureBegins == WatchInit => WatchTypes /\ PictureInv
<1> SUFFICES ASSUME WatchInit PROVE WatchTypes /\ PictureInv
  OBVIOUS
<1>1. /\ healthState = [s \in Watched |-> None] /\ watcher = [v \in Watchers |-> NotWatching]
      /\ hour = 0 /\ lapses = 0 /\ known = [s \in Watched |-> "fine"]
  BY DEF WatchInit
<1>2. \A v \in Watchers : watcher[v].at = "idle"
  BY <1>1, NothingHeld
<1>3. WatchTypes
  BY <1>1, <1>2, NothingHeld DEF WatchTypes
<1>4. PictureInv
  BY <1>1, <1>2 DEF PictureInv, SaysWhatChanged, Matches
<1> QED
  BY <1>3, <1>4

\* What the invariant says of the picture.
LEMMA PictureFollows == PictureInv => PictureAgrees
  BY DEF PictureInv, PictureAgrees, Matches, Degraded

-----------------------------------------------------------------------------
(* What a source reports of itself.  What it gathers is followed entry by   *)
(* entry; the recursion has a solution, since one that reaches some entries *)
(* can be carried one further.                                              *)

\* A set of numbers has a least one; with it a claim about all numbers is
\* proved by looking at the least one it fails for.
LEMMA LeastNumber ==
    ASSUME NEW T \in SUBSET Nat, T # {}
    PROVE  \E x \in T : \A y \in T : x <= y
<1> DEFINE R == {ss \in Nat \X Nat : ss[1] < ss[2]}
<1>1. IsWellFoundedOn(R, Nat)
  BY NatLessThanWellFounded DEF OpToRel
<1>2. \E x \in T : \A y \in T : ~(<<y, x>> \in R)
  <2> HIDE DEF R
  <2> QED
    BY <1>1, WFMin
<1>3. \A x, y \in Nat : ~(<<y, x>> \in R) => x <= y
  <2> SUFFICES ASSUME NEW x \in Nat, NEW y \in Nat, y < x PROVE <<y, x>> \in R
    BY SMT
  <2> DEFINE ss == <<y, x>>
  <2>1. ss \in Nat \X Nat /\ ss[1] = y /\ ss[2] = x
    OBVIOUS
  <2> HIDE DEF ss
  <2>2. ss \in R
    BY <2>1
  <2> QED
    BY <2>2 DEF ss
<1> HIDE DEF R
<1> QED
  BY <1>2, <1>3


\* What holds of zero, and of every number after one it holds of, up to N.
LEMMA ReachesAll ==
    ASSUME NEW N \in Nat, NEW S, 0 \in S, \A n \in 0..N : n < N /\ n \in S => n + 1 \in S
    PROVE  \A n \in 0..N : n \in S
<1> DEFINE Lacks == {n \in 0..N : n \notin S}
<1>1. SUFFICES ASSUME Lacks # {} PROVE FALSE
  OBVIOUS
<1>2. Lacks \in SUBSET Nat /\ \A j : j \in Lacks <=> j \in 0..N /\ j \notin S
  OBVIOUS
<1> HIDE DEF Lacks
<1>6. PICK k \in Lacks : \A j \in Lacks : k <= j
  BY <1>1, <1>2, LeastNumber
<1>3. k \in 0..N /\ k \notin S /\ k # 0
  BY <1>2
<1>4. k - 1 \in 0..N /\ k - 1 < N /\ ~(k <= k - 1) /\ (k - 1) + 1 = k
  BY <1>3
<1>5. k - 1 \in S
  BY <1>2, <1>4, <1>6
<1> QED
  BY <1>3, <1>4, <1>5

\* A gathering under way: after each entry what was gathered before it, and it.
IsGathering(g, adapter, limit, answers, k) ==
    /\ g = [n \in 0..k |-> g[n]] /\ g[0] = Nothing
    /\ \A n \in 1..k : g[n] = AskNext(adapter, limit, answers, g[n - 1], n)

\* There is one to any entry: one that reached an entry reaches the next.
LEMMA GatheringExists ==
    ASSUME NEW adapter, NEW limit, NEW answers, NEW N \in Nat
    PROVE  \E g : IsGathering(g, adapter, limit, answers, N)
<1> DEFINE Is(g, k) == IsGathering(g, adapter, limit, answers, k)
           S == {k \in 0..N : \E g : Is(g, k)}
<1>1. 0 \in S
  <2> DEFINE g == [n \in 0..0 |-> Nothing]
  <2>1. g = [n \in 0..0 |-> g[n]] /\ g[0] = Nothing
    OBVIOUS
  <2> HIDE DEF g
  <2>2. Is(g, 0)
    BY <2>1 DEF IsGathering
  <2> QED
    BY <2>2
<1>2. ASSUME NEW k \in 0..N, k < N, k \in S PROVE k + 1 \in S
  <2>1. PICK g : Is(g, k)
    BY <1>2
  <2> DEFINE step == AskNext(adapter, limit, answers, g[k], k + 1)
             h == [n \in 0..(k + 1) |-> IF n <= k THEN g[n] ELSE step]
  <2>2. h = [n \in 0..(k + 1) |-> h[n]] /\ h[k + 1] = step /\ \A n \in 0..k : h[n] = g[n]
    OBVIOUS
  <2>3. step = AskNext(adapter, limit, answers, g[k], k + 1)
    OBVIOUS
  <2> HIDE DEF h, step
  <2>4. h[0] = Nothing
    BY <2>1, <2>2 DEF IsGathering
  <2>5. ASSUME NEW n \in 1..(k + 1) PROVE h[n] = AskNext(adapter, limit, answers, h[n - 1], n)
    <3>4. n - 1 \in 0..k
      OBVIOUS
    <3>1. n - 1 \in 0..k /\ h[n - 1] = g[n - 1]
      BY <2>2, <3>4
    <3>2. CASE n = k + 1
      <4>1. h[n - 1] = g[k]
        BY <3>1, <3>2
      <4> QED
        BY <2>2, <2>3, <3>2, <4>1
    <3>3. CASE n # k + 1
      <4>1. n \in 1..k /\ h[n] = g[n]
        BY <2>2, <3>3
      <4> QED
        BY <2>1, <3>1, <4>1 DEF IsGathering
    <3> QED
      BY <3>2, <3>3
  <2>6. Is(h, k + 1)
    BY <2>2, <2>4, <2>5 DEF IsGathering
  <2>7. k + 1 \in 0..N
    BY <1>2
  <2> HIDE DEF Is
  <2> QED
    BY <2>6, <2>7
<1> HIDE DEF S
<1>3. N \in S
  BY <1>1, <1>2, ReachesAll
<1> QED
  BY <1>3 DEF S

\* What a source gathers is what is gathered after its last entry.
LEMMA GatheredInTurn ==
    ASSUME NEW adapter, NEW limit, NEW answers, NEW N \in Nat, N = Requests(adapter)
    PROVE  \E g : /\ IsGathering(g, adapter, limit, answers, N)
                  /\ Gathering(adapter, limit, answers) = g[N]
<1> DEFINE Eq(g) == g = [n \in 0..N |->
                           IF n = 0 THEN Nothing
                           ELSE AskNext(adapter, limit, answers, g[n - 1], n)]
           upTo == CHOOSE g : Eq(g)
<1>1. Gathering(adapter, limit, answers) = upTo[N]
  BY Zenon DEF Gathering, Requests
<1>2. PICK f : IsGathering(f, adapter, limit, answers, N)
  BY GatheringExists
<1>3. Eq(f)
  <2>1. /\ f = [n \in 0..N |-> f[n]] /\ f[0] = Nothing
        /\ \A n \in 1..N : f[n] = AskNext(adapter, limit, answers, f[n - 1], n)
    BY <1>2 DEF IsGathering
  <2>2. \A n \in 0..N : n # 0 => n \in 1..N
    OBVIOUS
  <2> QED
    BY <2>1, <2>2
<1> HIDE DEF Eq
<1>4. Eq(upTo)
  BY <1>3, Zenon
<1> HIDE DEF upTo
<1>5. \A n \in 0..N : upTo[n] = IF n = 0 THEN Nothing
                              ELSE AskNext(adapter, limit, answers, upTo[n - 1], n)
  BY <1>4 DEF Eq
<1>6. upTo = [n \in 0..N |-> upTo[n]]
  BY <1>4 DEF Eq
<1>7. IsGathering(upTo, adapter, limit, answers, N)
  <2>1. \A n \in 1..N : n \in 0..N /\ n # 0
    OBVIOUS
  <2>2. 0 \in 0..N
    OBVIOUS
  <2> QED
    BY <1>5, <1>6, <2>1, <2>2, Zenon DEF IsGathering
<1> QED
  BY <1>1, <1>7

\* The rows of the first entries: none of none, and each entry's own rows more.
IsRows(g, answers, k) ==
    /\ g = [n \in 0..k |-> g[n]] /\ g[0] = 0
    /\ \A n \in 1..k : g[n] = g[n - 1] + answers[n].good

\* There are such numbers for all entries.
LEMMA RowsExist ==
    ASSUME NEW answers, Entries \in Nat
    PROVE  \E g : IsRows(g, answers, Entries)
<1> DEFINE Is(g, k) == IsRows(g, answers, k)
           S == {k \in 0..Entries : \E g : Is(g, k)}
<1>1. 0 \in S
  <2> DEFINE g == [n \in 0..0 |-> 0]
  <2>1. g = [n \in 0..0 |-> g[n]] /\ g[0] = 0
    OBVIOUS
  <2> HIDE DEF g
  <2>2. Is(g, 0)
    BY <2>1 DEF IsRows
  <2> QED
    BY <2>2
<1>2. ASSUME NEW k \in 0..Entries, k < Entries, k \in S PROVE k + 1 \in S
  <2>1. PICK g : Is(g, k)
    BY <1>2
  <2> DEFINE step == g[k] + answers[k + 1].good
             h == [n \in 0..(k + 1) |-> IF n <= k THEN g[n] ELSE step]
  <2>2. h = [n \in 0..(k + 1) |-> h[n]] /\ h[k + 1] = step /\ \A n \in 0..k : h[n] = g[n]
    OBVIOUS
  <2>3. step = g[k] + answers[k + 1].good
    OBVIOUS
  <2> HIDE DEF h, step
  <2>4. h[0] = 0
    <3>1. 0 \in 0..k
      OBVIOUS
    <3>2. h[0] = g[0]
      BY <2>2, <3>1
    <3>3. g[0] = 0
      BY <2>1 DEF IsRows
    <3> QED
      BY <3>2, <3>3
  <2>5. ASSUME NEW n \in 1..(k + 1) PROVE h[n] = h[n - 1] + answers[n].good
    <3>4. n - 1 \in 0..k
      OBVIOUS
    <3>1. h[n - 1] = g[n - 1]
      BY <2>2, <3>4
    <3>2. CASE n = k + 1
      <4>1. h[n - 1] = g[k]
        BY <3>1, <3>2
      <4> QED
        BY <2>2, <2>3, <3>2, <4>1
    <3>3. CASE n # k + 1
      <4>1. n \in 1..k /\ h[n] = g[n]
        BY <2>2, <3>3
      <4> QED
        BY <2>1, <3>1, <4>1 DEF IsRows
    <3> QED
      BY <3>2, <3>3
  <2>6. Is(h, k + 1)
    BY <2>2, <2>4, <2>5 DEF IsRows
  <2>7. k + 1 \in 0..Entries
    BY <1>2
  <2> HIDE DEF Is
  <2> QED
    BY <2>6, <2>7
<1> HIDE DEF S
<1>3. Entries \in S
  BY <1>1, <1>2, ReachesAll
<1> QED
  BY <1>3 DEF S

\* What an answer is made of.
LEMMA AnswerParts ==
    ASSUME NEW a \in Answers
    PROVE  /\ a.kind \in {"unnamed", "refused", "error", "held", "garbled", "read"}
           /\ a.good \in Nat /\ a.bad \in Nat
BY DEF Answers

\* The rows of an answer in its turn, a number at each place.
LEMMA RowsInTurn ==
    ASSUME NEW answers \in [1..Entries -> Answers], Entries \in Nat
    PROVE  /\ RowsUpTo(answers)[0] = 0
           /\ \A n \in 1..Entries :
                RowsUpTo(answers)[n] = RowsUpTo(answers)[n - 1] + answers[n].good
           /\ \A n \in 0..Entries : RowsUpTo(answers)[n] \in Nat
<1> DEFINE Eq(g) == g = [n \in 0..Entries |->
                           IF n = 0 THEN 0 ELSE g[n - 1] + answers[n].good]
           sum == CHOOSE g : Eq(g)
<1>1. RowsUpTo(answers) = sum
  BY Zenon DEF RowsUpTo
<1>2. PICK f : IsRows(f, answers, Entries)
  BY RowsExist
<1>3. Eq(f)
  <2>1. /\ f = [n \in 0..Entries |-> f[n]] /\ f[0] = 0
        /\ \A n \in 1..Entries : f[n] = f[n - 1] + answers[n].good
    BY <1>2 DEF IsRows
  <2>2. \A n \in 0..Entries : n # 0 => n \in 1..Entries
    OBVIOUS
  <2> QED
    BY <2>1, <2>2
<1> HIDE DEF Eq
<1>4. Eq(sum)
  BY <1>3, Zenon
<1> HIDE DEF sum
<1>5. \A n \in 0..Entries : sum[n] = IF n = 0 THEN 0 ELSE sum[n - 1] + answers[n].good
  BY <1>4 DEF Eq
<1>6. sum[0] = 0 /\ \A n \in 1..Entries : sum[n] = sum[n - 1] + answers[n].good
  BY <1>5
<1>7. \A n \in 1..Entries : answers[n].good \in Nat
  BY AnswerParts
<1> DEFINE S == {n \in 0..Entries : sum[n] \in Nat}
<1>8. 0 \in S
  BY <1>6
<1>9. ASSUME NEW n \in 0..Entries, n < Entries, n \in S PROVE n + 1 \in S
  <2>1. n + 1 \in 1..Entries /\ n + 1 \in 0..Entries /\ (n + 1) - 1 = n
    BY <1>9
  <2>2. sum[n + 1] = sum[n] + answers[n + 1].good
    BY <1>6, <2>1
  <2>3. sum[n] \in Nat /\ answers[n + 1].good \in Nat
    BY <1>7, <1>9, <2>1
  <2>4. sum[n + 1] \in Nat
    BY <2>2, <2>3
  <2> QED
    BY <2>1, <2>4
<1> HIDE DEF S
<1>10. \A n \in 0..Entries : n \in S
  BY <1>8, <1>9, ReachesAll
<1> QED
  BY <1>1, <1>6, <1>10 DEF S

-----------------------------------------------------------------------------
(* The steps of a gathering.                                                *)

\* What has been gathered.
EntryResults == {"ok", "empty", "partial", "failed", "deferred"}
SourceStatuses == {"ok", "empty", "partial", "failed"}
Errors == {None, "http", "invalid_board_slug", "invalid_payload", "invalid_rows"}
Gathered == [results : Seq(EntryResults), kept : Nat, asked : SUBSET Nat, stop : BOOLEAN,
             read : Nat, status : SourceStatuses, error : Errors]

\* Nothing has been gathered at first.
LEMMA NothingGathered ==
    /\ Nothing \in Gathered
    /\ Nothing.results = << >> /\ Nothing.kept = 0 /\ Nothing.asked = {} /\ ~Nothing.stop
    /\ Nothing.read = 0 /\ Nothing.status = "ok"
BY DEF Nothing, Gathered, EntryResults, SourceStatuses, Errors

\* What fits is no more than there is, and no more than the limit allows.
LEMMA FittingFits ==
    ASSUME NEW limit \in Nat \cup {None}, NEW kept \in Nat, NEW good \in Nat
    PROVE  /\ Fitting(limit, kept, good) \in Nat
           /\ Fitting(limit, kept, good) <= good
           /\ limit # None /\ kept <= limit => kept + Fitting(limit, kept, good) <= limit
<1>1. CASE limit = None
  BY <1>1 DEF Fitting
<1>2. CASE limit # None
  <2>1. limit \in Nat
    BY <1>2
  <2> QED
    BY <1>2, <2>1 DEF Fitting
<1> QED
  BY <1>1, <1>2

\* One result more, and nothing else but the error; one entry more asked; a
\* stop; and rows kept of an entry that was read.
AddsResult(n, h, result) ==
    /\ n \in Gathered /\ n.results = Append(h.results, result)
    /\ n.kept = h.kept /\ n.asked = h.asked /\ (n.stop <=> h.stop) /\ n.read = h.read
    /\ n.status = h.status
AddsAsked(n, h, i) ==
    /\ n \in Gathered /\ n.asked = h.asked \cup {i}
    /\ n.results = h.results /\ n.kept = h.kept /\ (n.stop <=> h.stop)
    /\ n.read = h.read /\ n.status = h.status
Stops(n, h) ==
    /\ n \in Gathered /\ n.stop
    /\ n.results = h.results /\ n.kept = h.kept /\ n.asked = h.asked
    /\ n.read = h.read /\ n.status = h.status
Keeps(n, h, fit) ==
    /\ n \in Gathered /\ n.kept = h.kept + fit /\ n.read = h.read + 1
    /\ n.results = h.results /\ n.asked = h.asked /\ (n.stop <=> h.stop)
    /\ n.status = h.status

\* Noting a result adds it, and changes nothing but the error beside it.
LEMMA NotedAdds ==
    ASSUME NEW h \in Gathered, NEW result \in EntryResults, NEW error \in Errors
    PROVE  AddsResult(Noted(h, result, error), h, result)
<1> DEFINE list == Append(h.results, result)
           err == IF error = None THEN h.error ELSE error
           n == Noted(h, result, error)
<1>1. list \in Seq(EntryResults) /\ err \in Errors
  BY DEF Gathered
<1>2. n = [h EXCEPT !.results = list, !.error = err]
  BY DEF Noted
<1> HIDE DEF list, err, n
<1>3. /\ n \in Gathered /\ n.results = list
      /\ n.kept = h.kept /\ n.asked = h.asked /\ n.stop = h.stop /\ n.read = h.read
      /\ n.status = h.status
  BY <1>1, <1>2 DEF Gathered
<1>4. AddsResult(n, h, result)
  BY <1>3 DEF list, AddsResult
<1> QED
  BY <1>4 DEF n

\* Asking an entry adds its number.
LEMMA AskingAdds ==
    ASSUME NEW h \in Gathered, NEW i \in Nat
    PROVE  AddsAsked([h EXCEPT !.asked = @ \cup {i}], h, i)
<1> DEFINE more == h.asked \cup {i}
           n == [h EXCEPT !.asked = @ \cup {i}]
<1>1. more \in SUBSET Nat
  BY DEF Gathered
<1>2. n = [h EXCEPT !.asked = more]
  OBVIOUS
<1> HIDE DEF more, n
<1>3. /\ n \in Gathered /\ n.asked = more
      /\ n.results = h.results /\ n.kept = h.kept /\ n.stop = h.stop
      /\ n.read = h.read /\ n.status = h.status
  BY <1>1, <1>2 DEF Gathered
<1>4. AddsAsked(n, h, i)
  BY <1>3 DEF more, AddsAsked
<1> QED
  BY <1>4 DEF n

\* Stopping changes nothing else.
LEMMA StoppingStops ==
    ASSUME NEW h \in Gathered
    PROVE  Stops([h EXCEPT !.stop = TRUE], h)
<1> DEFINE n == [h EXCEPT !.stop = TRUE]
<1>1. n \in Gathered /\ n.stop
  BY DEF Gathered
<1>2. /\ n.results = h.results /\ n.kept = h.kept /\ n.asked = h.asked
      /\ n.read = h.read /\ n.status = h.status
  BY DEF Gathered
<1> QED
  BY <1>1, <1>2 DEF Stops

\* Neither does keeping rows of an entry that was read.
LEMMA KeepingKeeps ==
    ASSUME NEW h \in Gathered, NEW fit \in Nat
    PROVE  Keeps([h EXCEPT !.kept = @ + fit, !.read = @ + 1], h, fit)
<1> DEFINE more == h.kept + fit
           next == h.read + 1
           n == [h EXCEPT !.kept = @ + fit, !.read = @ + 1]
<1>1. more \in Nat /\ next \in Nat
  BY DEF Gathered
<1>2. n = [h EXCEPT !.kept = more, !.read = next]
  OBVIOUS
<1> HIDE DEF more, next, n
<1>3. /\ n \in Gathered /\ n.kept = more /\ n.read = next
      /\ n.results = h.results /\ n.asked = h.asked /\ n.stop = h.stop
      /\ n.status = h.status
  BY <1>1, <1>2 DEF Gathered
<1>4. Keeps(n, h, fit)
  BY <1>3 DEF more, next, Keeps
<1> QED
  BY <1>4 DEF n

\* What asking one entry of a batch does, whatever its answer is.
EntryStep(h, n, a, i, limit) ==
    /\ n \in Gathered
    /\ \E r \in EntryResults :
         /\ n.results = Append(h.results, r)
         /\ r \in {"ok", "empty"} => a.kind = "read" /\ a.bad = 0 /\ n.kept = h.kept + a.good
    /\ n.asked = h.asked \/ n.asked = h.asked \cup {i}
    /\ h.stop => n.stop /\ n.asked = h.asked
    /\ n.asked # h.asked /\ a.kind \in {"refused", "held"} => n.stop
    /\ limit # None /\ h.kept <= limit => n.kept <= limit

\* AskEntry takes such a step.
LEMMA AskEntrySteps ==
    ASSUME NEW h \in Gathered, NEW answers, NEW i \in Nat, answers[i] \in Answers,
           NEW limit \in Nat \cup {None}
    PROVE  EntryStep(h, AskEntry(limit, answers, h, i), answers[i], i, limit)
<1> DEFINE a == answers[i]
           tried == [h EXCEPT !.asked = @ \cup {i}]
           fit == Fitting(limit, h.kept, a.good)
           n == AskEntry(limit, answers, h, i)
<1>1. /\ a.kind \in {"unnamed", "refused", "error", "held", "garbled", "read"}
      /\ a.good \in Nat /\ a.bad \in Nat
  BY AnswerParts
<1>2. /\ tried \in Gathered /\ tried.asked = h.asked \cup {i}
      /\ tried.results = h.results /\ tried.kept = h.kept /\ (tried.stop <=> h.stop)
      /\ tried.read = h.read /\ tried.status = h.status
  BY AskingAdds DEF AddsAsked
<1>3. h.kept \in Nat /\ h.asked \in SUBSET Nat
  BY DEF Gathered
<1>4. /\ fit \in Nat /\ fit <= a.good
      /\ limit # None /\ h.kept <= limit => h.kept + fit <= limit
  BY <1>1, <1>3, FittingFits
<1>r. {"ok", "empty", "partial", "failed", "deferred"} \subseteq EntryResults
  BY DEF EntryResults
<1>e. {None, "http", "invalid_board_slug", "invalid_payload", "invalid_rows"} \subseteq Errors
  BY DEF Errors
<1>5. CASE h.stop \/ Full(limit, h)
  <2>1. n = Noted(h, "deferred", None)
    BY <1>5 DEF AskEntry
  <2> HIDE DEF n
  <2>2. /\ n \in Gathered /\ n.results = Append(h.results, "deferred")
        /\ n.kept = h.kept /\ n.asked = h.asked /\ (n.stop <=> h.stop)
    <3>1. AddsResult(n, h, "deferred")
      BY <2>1, <1>r, <1>e, NotedAdds
    <3> QED
      BY <3>1 DEF AddsResult
  <2>3. EntryStep(h, n, a, i, limit)
    BY <2>2, <1>r, <1>3 DEF EntryStep
  <2> QED
    BY <2>3 DEF n
<1>6. CASE ~(h.stop \/ Full(limit, h)) /\ a.kind = "unnamed"
  <2>1. n = Noted(h, "failed", "invalid_board_slug")
    BY <1>6 DEF AskEntry
  <2> HIDE DEF n
  <2>2. /\ n \in Gathered /\ n.results = Append(h.results, "failed")
        /\ n.kept = h.kept /\ n.asked = h.asked /\ (n.stop <=> h.stop)
    <3>1. AddsResult(n, h, "failed")
      BY <2>1, <1>r, <1>e, NotedAdds
    <3> QED
      BY <3>1 DEF AddsResult
  <2>3. EntryStep(h, n, a, i, limit)
    BY <2>2, <1>r, <1>3 DEF EntryStep
  <2> QED
    BY <2>3 DEF n
<1>7. CASE ~(h.stop \/ Full(limit, h)) /\ a.kind \in {"refused", "held"}
  <2> DEFINE r == IF a.kind = "refused" THEN "failed" ELSE "deferred"
             e == IF a.kind = "refused" THEN "http" ELSE None
             m == Noted(tried, r, e)
  <2>1. n = [m EXCEPT !.stop = TRUE]
    BY <1>7 DEF AskEntry
  <2>2. r \in {"failed", "deferred"} /\ r \in EntryResults /\ e \in Errors
    BY <1>r, <1>e
  <2> HIDE DEF n, r, e, tried
  <2>3. /\ m \in Gathered /\ m.results = Append(tried.results, r)
        /\ m.kept = tried.kept /\ m.asked = tried.asked
    <3>1. AddsResult(m, tried, r)
      BY <2>2, <1>2, NotedAdds
    <3> QED
      BY <3>1 DEF AddsResult
  <2> HIDE DEF m
  <2>4. /\ n \in Gathered /\ n.stop
        /\ n.results = m.results /\ n.kept = m.kept /\ n.asked = m.asked
    <3>1. Stops(n, m)
      BY <2>1, <2>3, StoppingStops
    <3> QED
      BY <3>1 DEF Stops
  <2>5. EntryStep(h, n, a, i, limit)
    BY <2>2, <2>3, <2>4, <1>2, <1>3, <1>7 DEF EntryStep
  <2> QED
    BY <2>5 DEF n
<1>8. CASE ~(h.stop \/ Full(limit, h)) /\ a.kind \in {"error", "garbled"}
  <2> DEFINE e == IF a.kind = "error" THEN "http" ELSE "invalid_payload"
  <2>1. n = Noted(tried, "failed", e)
    BY <1>8 DEF AskEntry
  <2>2. e \in Errors
    BY <1>e
  <2> HIDE DEF n, e, tried
  <2>3. /\ n \in Gathered /\ n.results = Append(tried.results, "failed")
        /\ n.kept = tried.kept /\ n.asked = tried.asked /\ (n.stop <=> tried.stop)
    <3>1. AddsResult(n, tried, "failed")
      BY <2>1, <2>2, <1>2, <1>r, NotedAdds
    <3> QED
      BY <3>1 DEF AddsResult
  <2>4. EntryStep(h, n, a, i, limit)
    BY <2>3, <1>r, <1>2, <1>3, <1>8 DEF EntryStep
  <2> QED
    BY <2>4 DEF n
<1>9. CASE ~(h.stop \/ Full(limit, h)) /\ a.kind = "read"
  <2> DEFINE r == IF a.bad > 0 \/ fit < a.good THEN "partial"
                  ELSE IF a.good + a.bad > 0 THEN "ok" ELSE "empty"
             e == IF a.bad > 0 THEN "invalid_rows" ELSE None
             m == Noted(tried, r, e)
  <2>1. n = [m EXCEPT !.kept = @ + fit, !.read = @ + 1]
    BY <1>9 DEF AskEntry
  <2>2. r \in EntryResults /\ e \in Errors
    BY <1>r, <1>e
  <2>3. r \in {"ok", "empty"} => a.bad = 0 /\ fit = a.good
    BY <1>1, <1>4
  <2> HIDE DEF n, r, e, tried, fit
  <2>4. /\ m \in Gathered /\ m.results = Append(tried.results, r)
        /\ m.kept = tried.kept /\ m.asked = tried.asked /\ (m.stop <=> tried.stop)
    <3>1. AddsResult(m, tried, r)
      BY <2>2, <1>2, NotedAdds
    <3> QED
      BY <3>1 DEF AddsResult
  <2> HIDE DEF m
  <2>5. /\ n \in Gathered /\ n.kept = m.kept + fit
        /\ n.results = m.results /\ n.asked = m.asked /\ (n.stop <=> m.stop)
    <3>1. Keeps(n, m, fit)
      BY <2>1, <2>4, <1>4, KeepingKeeps
    <3> QED
      BY <3>1 DEF Keeps
  <2>6. EntryStep(h, n, a, i, limit)
    BY <2>2, <2>3, <2>4, <2>5, <1>2, <1>3, <1>4, <1>9 DEF EntryStep
  <2> QED
    BY <2>6 DEF n
<1> QED
  BY <1>1, <1>5, <1>6, <1>7, <1>8, <1>9

\* Cutting a gathering short stops it and sets its status; noting an error
\* changes nothing else.
Cuts(n, h, status) ==
    /\ n \in Gathered /\ n.stop /\ n.status = status
    /\ n.kept = h.kept /\ n.asked = h.asked /\ n.read = h.read

\* A result noted and the gathering cut there.
LEMMA CuttingCuts ==
    ASSUME NEW h \in Gathered, NEW result \in EntryResults, NEW status \in SourceStatuses,
           NEW error \in Errors
    PROVE  Cuts([Noted(h, result, error) EXCEPT !.stop = TRUE, !.status = status], h, status)
<1> DEFINE m == Noted(h, result, error)
           n == [m EXCEPT !.stop = TRUE, !.status = status]
<1>1. AddsResult(m, h, result)
  BY NotedAdds
<1> HIDE DEF m
<1>2. m \in Gathered /\ m.kept = h.kept /\ m.asked = h.asked /\ m.read = h.read
  BY <1>1 DEF AddsResult
<1>3. n \in Gathered /\ n.stop /\ n.status = status
  BY <1>2 DEF Gathered
<1>4. n.kept = m.kept /\ n.asked = m.asked /\ n.read = m.read
  BY <1>2 DEF Gathered
<1> HIDE DEF n
<1>5. Cuts(n, h, status)
  BY <1>2, <1>3, <1>4 DEF Cuts
<1> QED
  BY <1>5 DEF n, m

\* The same with an error noted afterwards.
LEMMA CuttingErrs ==
    ASSUME NEW h \in Gathered, NEW result \in EntryResults, NEW status \in SourceStatuses,
           NEW error \in Errors
    PROVE  Cuts([[Noted(h, result, None) EXCEPT !.stop = TRUE, !.status = status]
                 EXCEPT !.error = error], h, status)
<1> DEFINE m == [Noted(h, result, None) EXCEPT !.stop = TRUE, !.status = status]
           n == [m EXCEPT !.error = error]
<1>1. Cuts(m, h, status)
  BY CuttingCuts DEF Errors
<1> HIDE DEF m
<1>2. /\ m \in Gathered /\ m.stop /\ m.status = status
      /\ m.kept = h.kept /\ m.asked = h.asked /\ m.read = h.read
  BY <1>1 DEF Cuts
<1>3. n \in Gathered /\ n.stop
  BY <1>2 DEF Gathered
<1>4. n.status = m.status /\ n.kept = m.kept /\ n.asked = m.asked /\ n.read = m.read
  BY <1>2 DEF Gathered
<1> HIDE DEF n
<1>5. Cuts(n, h, status)
  BY <1>2, <1>3, <1>4 DEF Cuts
<1> QED
  BY <1>5 DEF n, m

\* A page: a gathering that was whole so far stays whole when the page was
\* read and nothing of it was cut, and is over when it was the last.
PageStep(h, n, a, i, limit) ==
    /\ n \in Gathered
    /\ h.stop => n = h
    /\ n.asked = h.asked \/ n.asked = h.asked \cup {i}
    /\ ~h.stop /\ n.asked # h.asked /\ a.kind \in {"refused", "held"} => n.stop
    /\ limit # None /\ h.kept <= limit => n.kept <= limit
    /\ ~h.stop /\ h.status = "ok" =>
         /\ n.status \in {"ok", "partial", "failed"}
         /\ ~n.stop => n.status = "ok"
         /\ n.status = "ok" => /\ n.asked = h.asked \cup {i} /\ n.kept = h.kept + a.good
                               /\ a.kind = "read" /\ (n.stop => a.last)
         /\ n.status = "failed" /\ (h.read = 0 => h.kept = 0) => n.kept = 0
    /\ (h.read = 0 => h.kept = 0) => (n.read = 0 => n.kept = 0)

\* AskPage takes such a step.
LEMMA AskPageSteps ==
    ASSUME NEW h \in Gathered, NEW answers, NEW i \in Nat, answers[i] \in Answers,
           NEW limit \in Nat \cup {None}
    PROVE  PageStep(h, AskPage(limit, answers, h, i), answers[i], i, limit)
<1> DEFINE a == answers[i]
           tried == [h EXCEPT !.asked = @ \cup {i}]
           fit == Fitting(limit, h.kept, a.good)
           n == AskPage(limit, answers, h, i)
<1>1. /\ a.kind \in {"unnamed", "refused", "error", "held", "garbled", "read"}
      /\ a.good \in Nat /\ a.bad \in Nat
  BY AnswerParts
<1>2. /\ tried \in Gathered /\ tried.asked = h.asked \cup {i}
      /\ tried.kept = h.kept /\ (tried.stop <=> h.stop)
      /\ tried.read = h.read /\ tried.status = h.status
  BY AskingAdds DEF AddsAsked
<1>3. h.kept \in Nat /\ h.asked \in SUBSET Nat /\ h.read \in Nat
  BY DEF Gathered
<1>4. /\ fit \in Nat /\ fit <= a.good
      /\ limit # None /\ h.kept <= limit => h.kept + fit <= limit
  BY <1>1, <1>3, FittingFits
<1>r. {"ok", "empty", "partial", "failed", "deferred"} \subseteq EntryResults
  BY DEF EntryResults
<1>s. {"ok", "empty", "partial", "failed"} \subseteq SourceStatuses
  BY DEF SourceStatuses
<1>e. {None, "http", "invalid_board_slug", "invalid_payload", "invalid_rows"} \subseteq Errors
  BY DEF Errors
<1>5. CASE h.stop
  <2>1. n = h
    BY <1>5 DEF AskPage
  <2> HIDE DEF n
  <2>2. PageStep(h, n, a, i, limit)
    BY <1>3, <1>5, <2>1 DEF PageStep
  <2> QED
    BY <2>2 DEF n
<1>6. CASE ~h.stop /\ Full(limit, h)
  <2>1. n = [Noted(h, "deferred", None) EXCEPT !.stop = TRUE, !.status = "partial"]
    BY <1>6 DEF AskPage
  <2> HIDE DEF n
  <2>2. Cuts(n, h, "partial")
    BY <2>1, <1>r, <1>s, <1>e, CuttingCuts
  <2>3. PageStep(h, n, a, i, limit)
    BY <2>2, <1>3, <1>6 DEF PageStep, Cuts
  <2> QED
    BY <2>3 DEF n
<1>7. CASE ~h.stop /\ ~Full(limit, h) /\ a.kind = "held"
  <2>1. n = [Noted(tried, "deferred", None) EXCEPT !.stop = TRUE, !.status = "partial"]
    BY <1>7 DEF AskPage
  <2> HIDE DEF n, tried
  <2>2. Cuts(n, tried, "partial")
    BY <2>1, <1>2, <1>r, <1>s, <1>e, CuttingCuts
  <2>3. PageStep(h, n, a, i, limit)
    BY <2>2, <1>2, <1>3, <1>7 DEF PageStep, Cuts
  <2> QED
    BY <2>3 DEF n
<1>8. CASE ~h.stop /\ ~Full(limit, h) /\ a.kind \in {"unnamed", "refused", "error"}
  <2> DEFINE status == IF h.read > 0 THEN "partial" ELSE "failed"
  <2>1. n = [[Noted(tried, "failed", None) EXCEPT !.stop = TRUE, !.status = status]
             EXCEPT !.error = "http"]
    BY <1>8 DEF AskPage
  <2>2. status \in {"partial", "failed"} /\ (status = "failed" => h.read = 0)
    BY <1>3
  <2> HIDE DEF n, tried, status
  <2>3. Cuts(n, tried, status)
    BY <2>1, <2>2, <1>2, <1>r, <1>s, <1>e, CuttingErrs
  <2>4. PageStep(h, n, a, i, limit)
    BY <2>2, <2>3, <1>2, <1>3, <1>8 DEF PageStep, Cuts
  <2> QED
    BY <2>4 DEF n
<1>9. CASE /\ ~h.stop /\ ~Full(limit, h) /\ a.kind \in {"garbled", "read"}
           /\ a.kind = "garbled" \/ a.bad > 0
  <2> DEFINE status == IF h.kept > 0 THEN "partial" ELSE "failed"
  <2>1. n = [[Noted(tried, "failed", None) EXCEPT !.stop = TRUE, !.status = status]
             EXCEPT !.error = "invalid_payload"]
    BY <1>9 DEF AskPage
  <2>2. status \in {"partial", "failed"} /\ (status = "failed" => h.kept = 0)
    BY <1>3
  <2> HIDE DEF n, tried, status
  <2>3. Cuts(n, tried, status)
    BY <2>1, <2>2, <1>2, <1>r, <1>s, <1>e, CuttingErrs
  <2>4. PageStep(h, n, a, i, limit)
    BY <2>2, <2>3, <1>2, <1>3, <1>9 DEF PageStep, Cuts
  <2> QED
    BY <2>4 DEF n
<1>10. CASE /\ ~h.stop /\ ~Full(limit, h) /\ a.kind = "read" /\ ~(a.bad > 0)
  <2> DEFINE m == Noted(tried, "ok", None)
             g == [m EXCEPT !.kept = @ + fit, !.read = @ + 1]
  <2>1. AddsResult(m, tried, "ok")
    BY <1>2, <1>r, <1>e, NotedAdds
  <2>2. m \in Gathered
    BY <2>1 DEF AddsResult
  <2>3. Keeps(g, m, fit)
    <3> HIDE DEF m, fit
    <3> QED
      BY <2>2, <1>4, KeepingKeeps
  <2>4. n = IF fit < a.good THEN [Noted(g, "deferred", None) EXCEPT !.stop = TRUE,
                                                                     !.status = "partial"]
            ELSE IF a.last THEN [g EXCEPT !.stop = TRUE] ELSE g
    BY <1>10 DEF AskPage
  <2> HIDE DEF n, tried, m, g, fit
  <2>5. /\ g \in Gathered /\ g.asked = h.asked \cup {i} /\ g.kept = h.kept + fit
        /\ g.read = h.read + 1 /\ (g.stop <=> h.stop) /\ g.status = h.status
    BY <1>2, <2>1, <2>3 DEF AddsResult, Keeps
  <2>6. CASE fit < a.good
    <3>1. Cuts(n, g, "partial")
      BY <2>4, <2>5, <2>6, <1>r, <1>s, <1>e, CuttingCuts
    <3> QED
      BY <3>1, <2>5, <1>3, <1>4, <1>10 DEF PageStep, Cuts, n
  <2>7. CASE ~(fit < a.good) /\ a.last
    <3>1. Stops(n, g)
      BY <2>4, <2>5, <2>7, StoppingStops
    <3>2. fit = a.good
      BY <1>1, <1>4, <2>7
    <3> QED
      BY <3>1, <3>2, <2>5, <2>7, <1>3, <1>4, <1>10 DEF PageStep, Stops, n
  <2>8. CASE ~(fit < a.good) /\ ~a.last
    <3>1. n = g /\ fit = a.good
      BY <2>4, <2>8, <1>1, <1>4
    <3> QED
      BY <3>1, <2>5, <1>3, <1>4, <1>10 DEF PageStep, n
  <2> QED
    BY <2>6, <2>7, <2>8
<1> QED
  BY <1>1, <1>5, <1>6, <1>7, <1>8, <1>9, <1>10

\* A page of a search: a search goes on only with what was read, or past what
\* lies behind a short page, and one that stops is not "ok".
TermStep(h, n, answers, i) ==
    /\ n \in Gathered
    /\ h.stop => n = h
    /\ n.asked = h.asked \/ n.asked = h.asked \cup {i}
    /\ ~h.stop /\ n.asked # h.asked /\ answers[i].kind \in {"refused", "held"} => n.stop
    /\ ~h.stop /\ h.status = "ok" =>
         /\ n.stop => n.status \in {"partial", "failed"}
         /\ ~n.stop => /\ n.status = "ok"
                       /\ \/ n.asked = h.asked /\ BehindShortPage(answers, h, i)
                          \/ /\ n.asked = h.asked \cup {i}
                             /\ answers[i].kind = "read" /\ answers[i].bad = 0
         /\ n.status = "failed" => n.kept = 0

\* AskTerm takes such a step.
LEMMA AskTermSteps ==
    ASSUME NEW h \in Gathered, NEW answers, NEW i \in Nat, answers[i] \in Answers
    PROVE  TermStep(h, AskTerm(answers, h, i), answers, i)
<1> DEFINE a == answers[i]
           tried == [h EXCEPT !.asked = @ \cup {i}]
           result == IF a.kind = "read" THEN "ok" ELSE "failed"
           error == IF a.kind = "read" THEN None ELSE "http"
           noted == Noted(tried, result, error)
           raised == a.kind = "held" \/ (a.kind = "read" /\ a.bad > 0)
           behind == BehindShortPage(answers, h, i)
           n == AskTerm(answers, h, i)
<1>1. /\ a.kind \in {"unnamed", "refused", "error", "held", "garbled", "read"}
      /\ a.good \in Nat /\ a.bad \in Nat
  BY AnswerParts
<1>2. /\ tried \in Gathered /\ tried.asked = h.asked \cup {i}
      /\ tried.kept = h.kept /\ (tried.stop <=> h.stop) /\ tried.status = h.status
  BY AskingAdds DEF AddsAsked
<1>3. h.kept \in Nat /\ h.asked \in SUBSET Nat
  BY DEF Gathered
<1>4. result \in EntryResults /\ error \in Errors
  BY DEF EntryResults, Errors
<1>5. n = IF h.stop \/ behind THEN h
          ELSE IF raised THEN [noted EXCEPT !.stop = TRUE, !.status = "failed", !.kept = 0]
          ELSE IF a.kind # "read" THEN
                 [noted EXCEPT !.stop = TRUE, !.status = IF h.kept > 0 THEN "partial" ELSE "failed"]
          ELSE [noted EXCEPT !.kept = @ + a.good, !.read = @ + 1]
  BY DEF AskTerm
<1> HIDE DEF n, tried, result, error
<1>6. AddsResult(noted, tried, result)
  BY <1>2, <1>4, NotedAdds
<1> HIDE DEF noted
<1>7. /\ noted \in Gathered /\ noted.asked = h.asked \cup {i} /\ (noted.stop <=> h.stop)
      /\ noted.kept = h.kept /\ noted.status = h.status
  BY <1>2, <1>6 DEF AddsResult
<1>8. CASE h.stop \/ behind
  <2>1. n = h
    BY <1>5, <1>8
  <2>2. TermStep(h, n, answers, i)
    <3> HIDE DEF behind
    <3>1. ~h.stop => behind
      BY <1>8
    <3>2. ~h.stop => BehindShortPage(answers, h, i)
      BY <3>1 DEF behind
    <3> QED
      BY <2>1, <3>2, <1>3 DEF TermStep
  <2> QED
    BY <2>2 DEF n
<1>9. CASE ~h.stop /\ ~behind /\ raised
  <2>1. n = [noted EXCEPT !.stop = TRUE, !.status = "failed", !.kept = 0]
    BY <1>5, <1>9
  <2>2. n \in Gathered /\ n.stop /\ n.status = "failed" /\ n.kept = 0 /\ n.asked = noted.asked
    BY <2>1, <1>7 DEF Gathered, SourceStatuses
  <2>3. TermStep(h, n, answers, i)
    BY <2>2, <1>7, <1>9 DEF TermStep
  <2> QED
    BY <2>3 DEF n
<1>10. CASE ~h.stop /\ ~behind /\ ~raised /\ a.kind # "read"
  <2> DEFINE status == IF h.kept > 0 THEN "partial" ELSE "failed"
  <2>1. n = [noted EXCEPT !.stop = TRUE, !.status = status]
    BY <1>5, <1>10
  <2>2. status \in {"partial", "failed"} /\ (status = "failed" => h.kept = 0)
    BY <1>3
  <2> HIDE DEF status
  <2>3. /\ n \in Gathered /\ n.stop /\ n.status = status /\ n.kept = noted.kept
        /\ n.asked = noted.asked
    BY <2>1, <2>2, <1>7 DEF Gathered, SourceStatuses
  <2>4. TermStep(h, n, answers, i)
    BY <2>2, <2>3, <1>7, <1>10 DEF TermStep
  <2> QED
    BY <2>4 DEF n
<1>11. CASE ~h.stop /\ ~behind /\ ~raised /\ a.kind = "read"
  <2> DEFINE more == noted.kept + a.good
             next == noted.read + 1
  <2>1. n = [noted EXCEPT !.kept = more, !.read = next]
    BY <1>5, <1>11
  <2>2. more \in Nat /\ next \in Nat
    <3>1. noted.kept \in Nat /\ noted.read \in Nat
      BY <1>7 DEF Gathered
    <3> QED
      BY <3>1, <1>1
  <2> HIDE DEF more, next
  <2>3. n \in Gathered /\ n.asked = noted.asked /\ n.stop = noted.stop /\ n.status = noted.status
    BY <2>1, <2>2, <1>7 DEF Gathered
  <2>4. a.bad = 0
    BY <1>1, <1>11
  <2>5. TermStep(h, n, answers, i)
    BY <2>3, <2>4, <1>7, <1>11 DEF TermStep
  <2> QED
    BY <2>5 DEF n
<1> QED
  BY <1>8, <1>9, <1>10, <1>11

-----------------------------------------------------------------------------
(* A gathering followed from its first entry to its last.                   *)

\* The members of a list with one more.
LEMMA MembersOfMore ==
    ASSUME NEW T, NEW s \in Seq(T), NEW r \in T
    PROVE  ToSet(Append(s, r)) = ToSet(s) \cup {r}
<1> DEFINE more == Append(s, r)
<1>1. Len(s) \in Nat /\ DOMAIN s = 1..Len(s) /\ DOMAIN more = 1..(Len(s) + 1)
  OBVIOUS
<1>2. more[Len(s) + 1] = r /\ \A i \in 1..Len(s) : more[i] = s[i]
  OBVIOUS
<1> HIDE DEF more
<1>3. 1..(Len(s) + 1) = 1..Len(s) \cup {Len(s) + 1}
  BY <1>1
<1>4. ToSet(more) = ToSet(s) \cup {r}
  BY <1>1, <1>2, <1>3 DEF ToSet
<1> QED
  BY <1>4 DEF more

\* Of the first entries only those before a refusal were asked, and it.
AskedInTurn(h, answers, n) ==
    /\ h.asked \subseteq 1..n
    /\ \A i \in h.asked : answers[i].kind \in {"refused", "held"} =>
         h.stop /\ \A j \in h.asked : j <= i

\* One entry more, asked only if nothing stopped before it.
LEMMA TurnGoesOn ==
    ASSUME NEW h, NEW m, NEW answers, NEW n \in Nat, AskedInTurn(h, answers, n),
           h.asked \subseteq Nat,
           m.asked = h.asked \/ (m.asked = h.asked \cup {n + 1} /\ ~h.stop),
           m.asked = h.asked => (h.stop => m.stop),
           m.asked # h.asked /\ answers[n + 1].kind \in {"refused", "held"} => m.stop
    PROVE  AskedInTurn(m, answers, n + 1)
<1>1. 1..n \subseteq 1..(n + 1) /\ n + 1 \in 1..(n + 1) /\ \A j \in 1..n : j <= n + 1
  OBVIOUS
<1>2. CASE m.asked = h.asked
  BY <1>1, <1>2 DEF AskedInTurn
<1>3. CASE m.asked = h.asked \cup {n + 1} /\ ~h.stop
  <2>1. n + 1 \notin h.asked
    BY DEF AskedInTurn
  <2>2. \A i \in h.asked : answers[i].kind \notin {"refused", "held"}
    BY <1>3 DEF AskedInTurn
  <2>3. \A j \in m.asked : j <= n + 1
    BY <1>3, <1>1 DEF AskedInTurn
  <2>4. m.asked \subseteq 1..(n + 1)
    BY <1>3, <1>1 DEF AskedInTurn
  <2>5. answers[n + 1].kind \in {"refused", "held"} => m.stop
    BY <1>3, <2>1
  <2> QED
    BY <1>3, <2>2, <2>3, <2>4, <2>5 DEF AskedInTurn
<1> QED
  BY <1>2, <1>3

\* A batch so far: a result per entry; all whole and kept unless one is not
\* "ok" or "empty"; never more than the limit.
BatchSoFar(h, answers, limit, rows, n) ==
    /\ h \in Gathered /\ AskedInTurn(h, answers, n) /\ Len(h.results) = n
    /\ limit # None => h.kept <= limit
    /\ ToSet(h.results) \subseteq {"ok", "empty"} =>
         h.kept = rows[n] /\ \A i \in 1..n : answers[i].kind = "read" /\ answers[i].bad = 0

\* One board or query more.
LEMMA BatchGoesOn ==
    ASSUME NEW h, NEW m, NEW answers, NEW limit, NEW rows, NEW n \in Nat,
           BatchSoFar(h, answers, limit, rows, n),
           EntryStep(h, m, answers[n + 1], n + 1, limit),
           rows[n + 1] = rows[n] + answers[n + 1].good
    PROVE  BatchSoFar(m, answers, limit, rows, n + 1)
<1>1. h \in Gathered /\ m \in Gathered
  BY DEF BatchSoFar, EntryStep
<1>2. h.asked \subseteq Nat /\ h.results \in Seq(EntryResults)
  BY <1>1 DEF Gathered
<1>3. AskedInTurn(m, answers, n + 1)
  <2>1. AskedInTurn(h, answers, n)
    BY DEF BatchSoFar
  <2>2. /\ m.asked = h.asked \/ (m.asked = h.asked \cup {n + 1} /\ ~h.stop)
        /\ m.asked = h.asked => (h.stop => m.stop)
        /\ m.asked # h.asked /\ answers[n + 1].kind \in {"refused", "held"} => m.stop
    BY DEF EntryStep
  <2> QED
    BY <1>2, <2>1, <2>2, TurnGoesOn
<1>4. PICK r \in EntryResults :
        /\ m.results = Append(h.results, r)
        /\ r \in {"ok", "empty"} =>
             /\ answers[n + 1].kind = "read" /\ answers[n + 1].bad = 0
             /\ m.kept = h.kept + answers[n + 1].good
  BY DEF EntryStep
<1>5. Len(h.results) = n
  BY DEF BatchSoFar
<1>6. Len(m.results) = n + 1
  BY <1>2, <1>4, <1>5
<1>7. ToSet(m.results) = ToSet(h.results) \cup {r}
  BY <1>2, <1>4, MembersOfMore
<1>8. limit # None => m.kept <= limit
  BY DEF BatchSoFar, EntryStep
<1>9. ASSUME ToSet(m.results) \subseteq {"ok", "empty"}
      PROVE  /\ m.kept = rows[n + 1]
             /\ \A i \in 1..(n + 1) : answers[i].kind = "read" /\ answers[i].bad = 0
  <2>1. ToSet(h.results) \subseteq {"ok", "empty"} /\ r \in {"ok", "empty"}
    BY <1>7, <1>9
  <2>2. h.kept = rows[n] /\ \A i \in 1..n : answers[i].kind = "read" /\ answers[i].bad = 0
    BY <2>1 DEF BatchSoFar
  <2>3. \A i \in 1..(n + 1) : i = n + 1 \/ i \in 1..n
    OBVIOUS
  <2>4. m.kept = rows[n + 1]
    BY <1>4, <2>1, <2>2
  <2> QED
    BY <1>4, <2>1, <2>2, <2>3, <2>4
<1> QED
  BY <1>1, <1>3, <1>6, <1>8, <1>9 DEF BatchSoFar

\* A list so far: whole while it goes on, and whole to its last page when it
\* stopped and is "ok"; nothing of it is kept when it failed.
ListSoFar(h, answers, limit, rows, n) ==
    /\ h \in Gathered /\ AskedInTurn(h, answers, n)
    /\ limit # None => h.kept <= limit
    /\ h.status \in {"ok", "partial", "failed"}
    /\ h.read = 0 => h.kept = 0
    /\ h.status = "failed" => h.kept = 0
    /\ ~h.stop => h.status = "ok" /\ h.asked = 1..n /\ h.kept = rows[n]
    /\ h.stop /\ h.status = "ok" =>
         \E k \in 1..n : /\ answers[k].kind = "read" /\ answers[k].last
                         /\ h.asked = 1..k /\ h.kept = rows[k]

\* One page more.
LEMMA ListGoesOn ==
    ASSUME NEW h, NEW m, NEW answers, NEW limit, NEW rows, NEW n \in Nat,
           ListSoFar(h, answers, limit, rows, n),
           PageStep(h, m, answers[n + 1], n + 1, limit),
           rows[n + 1] = rows[n] + answers[n + 1].good
    PROVE  ListSoFar(m, answers, limit, rows, n + 1)
<1>1. h \in Gathered /\ m \in Gathered
  BY DEF ListSoFar, PageStep
<1>2. h.asked \subseteq Nat
  BY <1>1 DEF Gathered
<1>3. AskedInTurn(m, answers, n + 1)
  <2>1. AskedInTurn(h, answers, n)
    BY DEF ListSoFar
  <2>2. CASE h.stop
    <3>1. m = h
      BY <2>2 DEF PageStep
    <3> QED
      BY <1>2, <2>1, <3>1, TurnGoesOn
  <2>3. CASE ~h.stop
    <3>1. /\ m.asked = h.asked \/ (m.asked = h.asked \cup {n + 1} /\ ~h.stop)
          /\ m.asked = h.asked => (h.stop => m.stop)
          /\ m.asked # h.asked /\ answers[n + 1].kind \in {"refused", "held"} => m.stop
      BY <2>3 DEF PageStep
    <3> QED
      BY <1>2, <2>1, <3>1, TurnGoesOn
  <2> QED
    BY <2>2, <2>3
<1>4. /\ limit # None => m.kept <= limit
      /\ m.read = 0 => m.kept = 0
  BY DEF ListSoFar, PageStep
<1>5. 1..(n + 1) = 1..n \cup {n + 1} /\ n + 1 \in 1..(n + 1) /\ 1..n \subseteq 1..(n + 1)
  OBVIOUS
<1>6. CASE h.stop
  <2>1. m = h
    BY <1>6 DEF PageStep
  <2>2. /\ h.status \in {"ok", "partial", "failed"}
        /\ h.status = "failed" => h.kept = 0
        /\ h.stop /\ h.status = "ok" =>
             \E k \in 1..n : /\ answers[k].kind = "read" /\ answers[k].last
                             /\ h.asked = 1..k /\ h.kept = rows[k]
    BY DEF ListSoFar
  <2>3. h.stop /\ h.status = "ok" =>
          \E k \in 1..(n + 1) : /\ answers[k].kind = "read" /\ answers[k].last
                                /\ h.asked = 1..k /\ h.kept = rows[k]
    BY <1>5, <2>2
  <2> QED
    BY <1>1, <1>3, <1>4, <1>6, <2>1, <2>2, <2>3 DEF ListSoFar
<1>7. CASE ~h.stop
  <2>1. h.status = "ok" /\ h.asked = 1..n /\ h.kept = rows[n] /\ (h.read = 0 => h.kept = 0)
    BY <1>7 DEF ListSoFar
  <2>2. /\ m.status \in {"ok", "partial", "failed"}
        /\ ~m.stop => m.status = "ok"
        /\ m.status = "ok" =>
             /\ m.asked = h.asked \cup {n + 1} /\ m.kept = h.kept + answers[n + 1].good
             /\ answers[n + 1].kind = "read" /\ (m.stop => answers[n + 1].last)
        /\ m.status = "failed" => m.kept = 0
    BY <1>7, <2>1 DEF PageStep
  <2>3. m.status = "ok" => m.asked = 1..(n + 1) /\ m.kept = rows[n + 1]
    BY <1>5, <2>1, <2>2
  <2> QED
    BY <1>1, <1>3, <1>4, <1>5, <2>2, <2>3 DEF ListSoFar
<1> QED
  BY <1>6, <1>7

\* A search so far: while it goes on each page was read or lies behind a short
\* one, and it is not "ok" once it stopped.
AskedWhole(h, answers, n) ==
    \A i \in 1..n : IF i \in h.asked THEN answers[i].kind = "read" /\ answers[i].bad = 0
                    ELSE BehindShortPage(answers, h, i)

SearchSoFar(h, answers, n) ==
    /\ h \in Gathered /\ AskedInTurn(h, answers, n)
    /\ h.status \in {"ok", "partial", "failed"}
    /\ h.status = "failed" => h.kept = 0
    /\ h.stop => h.status # "ok"
    /\ ~h.stop => h.status = "ok" /\ AskedWhole(h, answers, n)

\* One page more.
LEMMA SearchGoesOn ==
    ASSUME NEW h, NEW m, NEW answers, NEW n \in Nat,
           SearchSoFar(h, answers, n), TermStep(h, m, answers, n + 1)
    PROVE  SearchSoFar(m, answers, n + 1)
<1>1. h \in Gathered /\ m \in Gathered
  BY DEF SearchSoFar, TermStep
<1>2. h.asked \subseteq Nat
  BY <1>1 DEF Gathered
<1>3. AskedInTurn(m, answers, n + 1)
  <2>1. AskedInTurn(h, answers, n)
    BY DEF SearchSoFar
  <2>2. CASE h.stop
    <3>1. m = h
      BY <2>2 DEF TermStep
    <3> QED
      BY <1>2, <2>1, <3>1, TurnGoesOn
  <2>3. CASE ~h.stop
    <3>1. /\ m.asked = h.asked \/ (m.asked = h.asked \cup {n + 1} /\ ~h.stop)
          /\ m.asked = h.asked => (h.stop => m.stop)
          /\ m.asked # h.asked /\ answers[n + 1].kind \in {"refused", "held"} => m.stop
      BY <2>3 DEF TermStep
    <3> QED
      BY <1>2, <2>1, <3>1, TurnGoesOn
  <2> QED
    BY <2>2, <2>3
<1>4. 1..(n + 1) = 1..n \cup {n + 1}
  OBVIOUS
<1>5. CASE h.stop
  <2>1. m = h
    BY <1>5 DEF TermStep
  <2> QED
    BY <1>1, <1>3, <1>5, <2>1 DEF SearchSoFar
<1>6. CASE ~h.stop
  <2>1. h.status = "ok" /\ AskedWhole(h, answers, n) /\ h.asked \subseteq 1..n
    BY <1>6 DEF SearchSoFar, AskedInTurn
  <2>2. /\ m.stop => m.status \in {"partial", "failed"}
        /\ ~m.stop => /\ m.status = "ok"
                      /\ \/ m.asked = h.asked /\ BehindShortPage(answers, h, n + 1)
                         \/ /\ m.asked = h.asked \cup {n + 1}
                            /\ answers[n + 1].kind = "read" /\ answers[n + 1].bad = 0
        /\ m.status = "failed" => m.kept = 0
    BY <1>6, <2>1 DEF TermStep
  <2>3. ASSUME ~m.stop, NEW i \in 1..(n + 1)
        PROVE  IF i \in m.asked THEN answers[i].kind = "read" /\ answers[i].bad = 0
               ELSE BehindShortPage(answers, m, i)
    <3>1. h.asked \subseteq m.asked
      BY <2>2, <2>3
    <3>2. BehindShortPage(answers, h, i) => BehindShortPage(answers, m, i)
      BY <3>1 DEF BehindShortPage
    <3>3. n + 1 \notin h.asked
      BY <2>1
    <3>4. CASE i = n + 1
      BY <2>2, <2>3, <3>2, <3>3, <3>4
    <3>5. CASE i \in 1..n
      <4>1. i # n + 1 /\ (i \in m.asked => i \in h.asked)
        BY <2>2, <2>3, <3>5
      <4> QED
        BY <2>1, <3>1, <3>2, <3>5, <4>1 DEF AskedWhole
    <3> QED
      BY <1>4, <3>4, <3>5
  <2> QED
    BY <1>1, <1>3, <2>1, <2>2, <2>3 DEF SearchSoFar, AskedWhole
<1> QED
  BY <1>5, <1>6

\* The places of a gathering and its answers.
Places == [1..Entries -> Answers]
Caps == Nat \cup {None}

\* A batch, a list and a search are followed to their last entry.
LEMMA BatchFollowed ==
    ASSUME NEW answers \in Places, NEW limit \in Caps, Entries \in Nat, NEW g,
           IsGathering(g, "boards", limit, answers, Entries)
    PROVE  BatchSoFar(g[Entries], answers, limit, RowsUpTo(answers), Entries)
<1> DEFINE rows == RowsUpTo(answers)
           S == {n \in 0..Entries : BatchSoFar(g[n], answers, limit, rows, n)}
<1>1. rows[0] = 0 /\ \A n \in 1..Entries : rows[n] = rows[n - 1] + answers[n].good
  BY RowsInTurn DEF Places
<1> HIDE DEF rows
<1>2. 0 \in S
  <2>1. g[0] = Nothing
    BY DEF IsGathering
  <2>2. AskedInTurn(Nothing, answers, 0)
    BY NothingGathered DEF AskedInTurn
  <2>3. BatchSoFar(Nothing, answers, limit, rows, 0)
    BY <1>1, <2>2, NothingGathered DEF BatchSoFar, Caps
  <2> QED
    BY <2>1, <2>3
<1>3. ASSUME NEW n \in 0..Entries, n < Entries, n \in S PROVE n + 1 \in S
  <2>1. n \in Nat /\ n + 1 \in 0..Entries /\ n + 1 \in 1..Entries /\ (n + 1) - 1 = n
    BY <1>3
  <2>2. g[n + 1] = AskNext("boards", limit, answers, g[n], n + 1)
    BY <2>1 DEF IsGathering
  <2>3. g[n + 1] = AskEntry(limit, answers, g[n], n + 1)
    BY <2>2 DEF AskNext
  <2>4. g[n] \in Gathered /\ answers[n + 1] \in Answers /\ n + 1 \in Nat
    BY <1>3, <2>1 DEF BatchSoFar, Places
  <2>5. EntryStep(g[n], g[n + 1], answers[n + 1], n + 1, limit)
    BY <2>3, <2>4, AskEntrySteps DEF Caps
  <2>6. rows[n + 1] = rows[n] + answers[n + 1].good
    BY <1>1, <2>1
  <2>7. BatchSoFar(g[n + 1], answers, limit, rows, n + 1)
    BY <1>3, <2>1, <2>5, <2>6, BatchGoesOn
  <2> QED
    BY <2>1, <2>7
<1> HIDE DEF S
<1>4. \A n \in 0..Entries : n \in S
  BY <1>2, <1>3, ReachesAll
<1> QED
  BY <1>4 DEF S, rows
\* The pages of a list, up to the last.
LEMMA ListFollowed ==
    ASSUME NEW answers \in Places, NEW limit \in Caps, Entries \in Nat, NEW g,
           IsGathering(g, "pages", limit, answers, Entries)
    PROVE  ListSoFar(g[Entries], answers, limit, RowsUpTo(answers), Entries)
<1> DEFINE rows == RowsUpTo(answers)
           S == {n \in 0..Entries : ListSoFar(g[n], answers, limit, rows, n)}
<1>1. rows[0] = 0 /\ \A n \in 1..Entries : rows[n] = rows[n - 1] + answers[n].good
  BY RowsInTurn DEF Places
<1> HIDE DEF rows
<1>2. 0 \in S
  <2>1. g[0] = Nothing
    BY DEF IsGathering
  <2>2. AskedInTurn(Nothing, answers, 0)
    BY NothingGathered DEF AskedInTurn
  <2>3. ListSoFar(Nothing, answers, limit, rows, 0)
    BY <1>1, <2>2, NothingGathered DEF ListSoFar, Caps
  <2> QED
    BY <2>1, <2>3
<1>3. ASSUME NEW n \in 0..Entries, n < Entries, n \in S PROVE n + 1 \in S
  <2>1. n \in Nat /\ n + 1 \in 0..Entries /\ n + 1 \in 1..Entries /\ (n + 1) - 1 = n
    BY <1>3
  <2>2. g[n + 1] = AskNext("pages", limit, answers, g[n], n + 1)
    BY <2>1 DEF IsGathering
  <2>3. g[n + 1] = AskPage(limit, answers, g[n], n + 1)
    BY <2>2 DEF AskNext
  <2>4. g[n] \in Gathered /\ answers[n + 1] \in Answers /\ n + 1 \in Nat
    BY <1>3, <2>1 DEF ListSoFar, Places
  <2>5. PageStep(g[n], g[n + 1], answers[n + 1], n + 1, limit)
    BY <2>3, <2>4, AskPageSteps DEF Caps
  <2>6. rows[n + 1] = rows[n] + answers[n + 1].good
    BY <1>1, <2>1
  <2>7. ListSoFar(g[n + 1], answers, limit, rows, n + 1)
    BY <1>3, <2>1, <2>5, <2>6, ListGoesOn
  <2> QED
    BY <2>1, <2>7
<1> HIDE DEF S
<1>4. \A n \in 0..Entries : n \in S
  BY <1>2, <1>3, ReachesAll
<1> QED
  BY <1>4 DEF S, rows
\* The pages of a search, up to the last.
LEMMA SearchFollowed ==
    ASSUME NEW N \in Nat, NEW answers \in [1..N -> Answers], NEW limit, NEW g,
           IsGathering(g, "terms", limit, answers, N)
    PROVE  SearchSoFar(g[N], answers, N)
<1> DEFINE S == {n \in 0..N : SearchSoFar(g[n], answers, n)}
<1>2. 0 \in S
  <2>1. g[0] = Nothing
    BY DEF IsGathering
  <2>2. AskedInTurn(Nothing, answers, 0)
    BY NothingGathered DEF AskedInTurn
  <2>4. AskedWhole(Nothing, answers, 0)
    BY DEF AskedWhole
  <2>3. SearchSoFar(Nothing, answers, 0)
    BY <2>2, <2>4, NothingGathered DEF SearchSoFar
  <2> QED
    BY <2>1, <2>3
<1>3. ASSUME NEW n \in 0..N, n < N, n \in S PROVE n + 1 \in S
  <2>1. n \in Nat /\ n + 1 \in 0..N /\ n + 1 \in 1..N /\ (n + 1) - 1 = n
    BY <1>3
  <2>2. g[n + 1] = AskNext("terms", limit, answers, g[n], n + 1)
    BY <2>1 DEF IsGathering
  <2>3. g[n + 1] = AskTerm(answers, g[n], n + 1)
    BY <2>2 DEF AskNext
  <2>4. g[n] \in Gathered /\ answers[n + 1] \in Answers /\ n + 1 \in Nat
    BY <1>3, <2>1 DEF SearchSoFar
  <2>5. TermStep(g[n], g[n + 1], answers, n + 1)
    BY <2>3, <2>4, AskTermSteps
  <2>7. SearchSoFar(g[n + 1], answers, n + 1)
    BY <1>3, <2>1, <2>5, SearchGoesOn
  <2> QED
    BY <2>1, <2>7
<1> HIDE DEF S
<1>4. \A n \in 0..N : n \in S
  BY <1>2, <1>3, ReachesAll
<1> QED
  BY <1>4 DEF S

\* What HealthIsHonest asks of what a source reports.
Honest(adapter, limit, a, rows, h) ==
    /\ adapter = "boards" => Len(h.results) = Entries
    /\ \A i, j \in h.asked : i < j => a[i].kind \notin {"refused", "held"}
    /\ h.status = "failed" => h.kept = 0
    /\ limit # None => h.kept <= limit
    /\ h.status \in {"ok", "empty"} =>
         /\ adapter = "boards" => /\ \A i \in 1..Entries : a[i].kind = "read" /\ a[i].bad = 0
                                  /\ h.kept = rows[Entries]
         /\ adapter = "pages" => \E n \in 1..Entries :
              a[n].kind = "read" /\ a[n].last /\ h.asked = 1..n /\ h.kept = rows[n]
         /\ adapter = "terms" => AskedWhole(h, a, Requests("terms"))

\* Asked in turn, nothing was asked after a refusal.
LEMMA NoneAfterRefusal ==
    ASSUME NEW h, NEW answers, NEW n \in Nat, AskedInTurn(h, answers, n)
    PROVE  \A i, j \in h.asked : i < j => answers[i].kind \notin {"refused", "held"}
<1> SUFFICES ASSUME NEW i \in h.asked, NEW j \in h.asked, i < j,
                    answers[i].kind \in {"refused", "held"}
             PROVE  FALSE
  OBVIOUS
<1>1. i \in Nat /\ j \in Nat /\ j <= i
  BY DEF AskedInTurn
<1> QED
  BY <1>1

\* A report whose status is set says the rest as it was.
StatusSet(n, h, status) ==
    /\ n.status = status /\ n.results = h.results /\ n.kept = h.kept /\ n.asked = h.asked

\* Setting the status leaves the rest.
LEMMA SettingStatus ==
    ASSUME NEW h \in Gathered, NEW status
    PROVE  StatusSet([h EXCEPT !.status = status], h, status)
BY DEF StatusSet, Gathered
\* A batch reports "ok" only if every result was, and "failed" only if it kept
\* nothing.
LEMMA BatchIsHonest ==
    ASSUME NEW h, NEW answers, NEW limit, NEW rows, Entries \in Nat,
           BatchSoFar(h, answers, limit, rows, Entries)
    PROVE  Honest("boards", limit, answers, rows, Boards(h))
<1> DEFINE n == Boards(h)
           status == Status(h)
<1>1. h \in Gathered /\ AskedInTurn(h, answers, Entries)
  BY DEF BatchSoFar
<1>2. StatusSet(n, h, status)
  <2> HIDE DEF status
  <2>1. n = [h EXCEPT !.status = status]
    BY DEF Boards, status
  <2> QED
    BY <1>1, <2>1, SettingStatus
<1>3. h.kept \in Nat
  BY <1>1 DEF Gathered
<1>4. /\ status \in {"ok", "empty"} => ToSet(h.results) \subseteq {"ok", "empty"}
      /\ status = "failed" => h.kept = 0
  BY <1>3 DEF Status
<1> HIDE DEF n, status
<1>5. \A i, j \in n.asked : i < j => answers[i].kind \notin {"refused", "held"}
  BY <1>1, <1>2, NoneAfterRefusal DEF StatusSet
<1>6. /\ Len(n.results) = Entries
      /\ n.status = "failed" => n.kept = 0
      /\ limit # None => n.kept <= limit
      /\ n.status \in {"ok", "empty"} =>
           /\ \A i \in 1..Entries : answers[i].kind = "read" /\ answers[i].bad = 0
           /\ n.kept = rows[Entries]
  BY <1>2, <1>4 DEF StatusSet, BatchSoFar
<1>7. Honest("boards", limit, answers, rows, n)
  BY <1>5, <1>6 DEF Honest
<1> QED
  BY <1>7 DEF n
\* A list that did not stop at its last page reports itself partial.
LEMMA ListIsHonest ==
    ASSUME NEW h, NEW answers, NEW limit, NEW rows, Entries \in Nat,
           ListSoFar(h, answers, limit, rows, Entries)
    PROVE  Honest("pages", limit, answers, rows, Pages(h))
<1> DEFINE all == IF h.stop THEN h
                  ELSE [Noted(h, "deferred", None) EXCEPT !.status = "partial"]
           n == Pages(h)
<1>1. h \in Gathered /\ AskedInTurn(h, answers, Entries)
  BY DEF ListSoFar
<1>2. n = IF all.status = "ok" /\ all.kept = 0 THEN [all EXCEPT !.status = "empty"] ELSE all
  BY DEF Pages
<1>3. /\ all \in Gathered /\ all.kept = h.kept /\ all.asked = h.asked
      /\ all.status = IF h.stop THEN h.status ELSE "partial"
  <2>1. CASE h.stop
    BY <1>1, <2>1
  <2>2. CASE ~h.stop
    <3> DEFINE m == Noted(h, "deferred", None)
               c == [m EXCEPT !.status = "partial"]
    <3>1. AddsResult(m, h, "deferred")
      BY <1>1, NotedAdds DEF EntryResults, Errors
    <3>2. all = c
      BY <2>2
    <3> HIDE DEF m, all
    <3>3. m \in Gathered /\ m.kept = h.kept /\ m.asked = h.asked
      BY <3>1 DEF AddsResult
    <3>4. c \in Gathered /\ c.kept = m.kept /\ c.asked = m.asked /\ c.status = "partial"
      BY <3>3 DEF Gathered, SourceStatuses
    <3> QED
      BY <2>2, <3>2, <3>3, <3>4
  <2> QED
    BY <2>1, <2>2
<1> HIDE DEF n, all
<1>4. /\ n.kept = h.kept /\ n.asked = h.asked
      /\ n.status \in {"ok", "empty"} => h.stop /\ h.status \in {"ok", "empty"}
      /\ n.status = "failed" => h.status = "failed"
  <2>1. CASE all.status = "ok" /\ all.kept = 0
    <3>1. StatusSet(n, all, "empty")
      BY <1>2, <1>3, <2>1, SettingStatus
    <3> QED
      BY <1>3, <2>1, <3>1 DEF StatusSet
  <2>2. CASE ~(all.status = "ok" /\ all.kept = 0)
    BY <1>2, <1>3, <2>2
  <2> QED
    BY <2>1, <2>2
<1>5. \A i, j \in n.asked : i < j => answers[i].kind \notin {"refused", "held"}
  BY <1>1, <1>4, NoneAfterRefusal
<1>6. /\ n.status = "failed" => n.kept = 0
      /\ limit # None => n.kept <= limit
      /\ n.status \in {"ok", "empty"} =>
           \E k \in 1..Entries : /\ answers[k].kind = "read" /\ answers[k].last
                                 /\ n.asked = 1..k /\ n.kept = rows[k]
  BY <1>4 DEF ListSoFar
<1>7. Honest("pages", limit, answers, rows, n)
  BY <1>5, <1>6 DEF Honest
<1> QED
  BY <1>7 DEF n
\* A search is cut to the limit; what it says of the requests stays.
LEMMA SearchIsHonest ==
    ASSUME NEW h, NEW answers, NEW limit \in Caps, NEW rows, NEW N \in Nat,
           N = Requests("terms"), SearchSoFar(h, answers, N)
    PROVE  Honest("terms", limit, answers, rows, Terms(limit, h))
<1> DEFINE fit == Fitting(limit, 0, h.kept)
           cut == [h EXCEPT !.kept = fit]
           n == Terms(limit, h)
<1>1. h \in Gathered /\ AskedInTurn(h, answers, N)
  BY DEF SearchSoFar
<1>2. h.kept \in Nat
  BY <1>1 DEF Gathered
<1>3. n = IF cut.status = "ok" /\ cut.kept = 0 THEN [cut EXCEPT !.status = "empty"] ELSE cut
  BY DEF Terms
<1>4. fit \in Nat /\ fit <= h.kept /\ (limit # None => fit <= limit)
  <2>1. limit # None => limit \in Nat
    BY DEF Caps
  <2> HIDE DEF fit
  <2>2. /\ fit \in Nat /\ fit <= h.kept
        /\ limit # None /\ 0 <= limit => 0 + fit <= limit
    BY <1>2, FittingFits DEF Caps, fit
  <2> QED
    BY <2>1, <2>2
<1> HIDE DEF fit
<1>5. /\ cut \in Gathered /\ cut.kept = fit /\ cut.asked = h.asked
      /\ cut.status = h.status
  BY <1>1, <1>4 DEF Gathered
<1> HIDE DEF n, cut
<1>6. /\ n.kept = fit /\ n.asked = h.asked
      /\ n.status \in {"ok", "empty"} => h.status \in {"ok", "empty"}
      /\ n.status = "failed" => h.status = "failed"
  <2>1. CASE cut.status = "ok" /\ cut.kept = 0
    <3>1. StatusSet(n, cut, "empty")
      BY <1>3, <1>5, <2>1, SettingStatus
    <3> QED
      BY <1>5, <2>1, <3>1 DEF StatusSet
  <2>2. CASE ~(cut.status = "ok" /\ cut.kept = 0)
    BY <1>3, <1>5, <2>2
  <2> QED
    BY <2>1, <2>2
<1>7. \A i, j \in n.asked : i < j => answers[i].kind \notin {"refused", "held"}
  BY <1>1, <1>6, NoneAfterRefusal
<1>8. n.status = "failed" => n.kept = 0
  <2>1. h.status = "failed" => h.kept = 0
    BY DEF SearchSoFar
  <2> QED
    BY <1>2, <1>4, <1>6, <2>1
<1>9. n.status \in {"ok", "empty"} =>
        AskedWhole(n, answers, N)
  BY <1>6 DEF SearchSoFar, AskedWhole, BehindShortPage
<1>10. Honest("terms", limit, answers, rows, n)
  BY <1>4, <1>6, <1>7, <1>8, <1>9 DEF Honest
<1> QED
  BY <1>10 DEF n

\* Whatever the answers are, what a source collects is honest.
LEMMA CollectingIsHonest ==
    ASSUME NEW adapter \in {"boards", "pages", "terms"}, NEW limit \in Caps,
           NEW answers \in [1..Requests(adapter) -> Answers]
    PROVE  Honest(adapter, limit, answers, RowsUpTo(answers), Collect(adapter, limit, answers))
<1> DEFINE gathered == Gathering(adapter, limit, answers)
           rows == RowsUpTo(answers)
<1>0. Entries \in Nat /\ Requests(adapter) \in Nat
  BY EntriesAreCounted DEF Requests
<1>1. PICK g : /\ IsGathering(g, adapter, limit, answers, Requests(adapter))
               /\ gathered = g[Requests(adapter)]
  BY <1>0, GatheredInTurn
<1>2. /\ adapter = "boards" => Collect(adapter, limit, answers) = Boards(gathered)
      /\ adapter = "pages" => Collect(adapter, limit, answers) = Pages(gathered)
      /\ adapter = "terms" => Collect(adapter, limit, answers) = Terms(limit, gathered)
  BY DEF Collect
<1> HIDE DEF gathered
<1>3. CASE adapter = "boards"
  <2>1. BatchSoFar(gathered, answers, limit, rows, Entries)
    BY <1>0, <1>1, <1>3, BatchFollowed DEF Requests, Places
  <2>2. Honest("boards", limit, answers, rows, Boards(gathered))
    BY <1>0, <2>1, BatchIsHonest
  <2> QED
    BY <1>2, <1>3, <2>2
<1>4. CASE adapter = "pages"
  <2>1. ListSoFar(gathered, answers, limit, rows, Entries)
    BY <1>0, <1>1, <1>4, ListFollowed DEF Requests, Places
  <2>2. Honest("pages", limit, answers, rows, Pages(gathered))
    BY <1>0, <2>1, ListIsHonest
  <2> QED
    BY <1>2, <1>4, <2>2
<1>5. CASE adapter = "terms"
  <2>1. SearchSoFar(gathered, answers, Requests("terms"))
    BY <1>0, <1>1, <1>5, SearchFollowed
  <2>2. Honest("terms", limit, answers, rows, Terms(limit, gathered))
    BY <1>0, <1>5, <2>1, SearchIsHonest
  <2> QED
    BY <1>2, <1>5, <2>2
<1> QED
  BY <1>3, <1>4, <1>5

\* A source of a run is unasked yet, or says what was made of its answers.
CollectionInv ==
    /\ collection.adapter \in {"boards", "pages", "terms"} /\ collection.limit \in Limits
    /\ collection.answers \in [1..Requests(collection.adapter) -> Answers]
    /\ collection = [adapter |-> collection.adapter, limit |-> collection.limit,
                     answers |-> collection.answers, health |-> collection.health]
    /\ \/ collection.health = None
       \/ collection.health = Collect(collection.adapter, collection.limit, collection.answers)

\* At first it is unasked.
LEMMA CollectionBegins == CollectInit => CollectionInv
<1> SUFFICES ASSUME CollectInit PROVE CollectionInv
  OBVIOUS
<1>1. PICK adapter \in {"boards", "pages", "terms"} : \E limit \in Limits :
        \E answers \in [1..Requests(adapter) -> AnswersTo(adapter)] :
          collection = [adapter |-> adapter, limit |-> limit, answers |-> answers, health |-> None]
  BY DEF CollectInit
<1>2. PICK limit \in Limits : \E answers \in [1..Requests(adapter) -> AnswersTo(adapter)] :
        collection = [adapter |-> adapter, limit |-> limit, answers |-> answers, health |-> None]
  BY <1>1
<1>3. PICK answers \in [1..Requests(adapter) -> AnswersTo(adapter)] :
        collection = [adapter |-> adapter, limit |-> limit, answers |-> answers, health |-> None]
  BY <1>2
<1>4. AnswersTo(adapter) \subseteq Answers
  BY DEF AnswersTo
<1>5. answers \in [1..Requests(adapter) -> Answers]
  BY <1>4
<1> QED
  BY <1>3, <1>5 DEF CollectionInv

\* It says so once, after its entries were asked.
LEMMA CollectionKept == CollectionInv /\ CollectNext => CollectionInv'
<1> SUFFICES ASSUME CollectionInv, CollectNext PROVE CollectionInv'
  OBVIOUS
<1> DEFINE a == collection.adapter
           l == collection.limit
           s == collection.answers
           made == Collect(collection.adapter, collection.limit, collection.answers)
<1>1. /\ collection = [adapter |-> a, limit |-> l, answers |-> s, health |-> collection.health]
      /\ a \in {"boards", "pages", "terms"} /\ l \in Limits /\ s \in [1..Requests(a) -> Answers]
  BY DEF CollectionInv
<1>2. collection' = [collection EXCEPT !.health = made]
  BY DEF CollectNext
<1>3. made = Collect(a, l, s)
  OBVIOUS
<1> HIDE DEF made, a, l, s
<1>4. collection' = [adapter |-> a, limit |-> l, answers |-> s, health |-> made]
  BY <1>1, <1>2
<1>5. /\ collection'.adapter = a /\ collection'.limit = l /\ collection'.answers = s
      /\ collection'.health = made
  BY <1>4
<1> QED
  BY <1>1, <1>3, <1>4, <1>5 DEF CollectionInv

\* What a source says of itself once it was asked is honest.
LEMMA CollectedHonestly == CollectionInv => HealthIsHonest
<1> SUFFICES ASSUME CollectionInv, collection.health # None PROVE HealthIsHonest
  BY DEF HealthIsHonest
<1> DEFINE a == collection.answers
           h == collection.health
           l == collection.limit
           d == collection.adapter
           rows == RowsUpTo(a)
<1>1. /\ d \in {"boards", "pages", "terms"} /\ l \in Caps
      /\ a \in [1..Requests(d) -> Answers]
      /\ h = Collect(d, l, a)
  BY EntriesAreCounted DEF CollectionInv, Caps
<1>2. Honest(d, l, a, rows, h)
  BY <1>1, CollectingIsHonest
<1> HIDE DEF a, h, l, d, rows
<1> DEFINE whole == {i \in DOMAIN a : a[i].kind = "read"}
<1>d. DOMAIN a = 1..Requests(d)
  BY <1>1
<1>3. /\ d = "boards" => Len(h.results) = Entries
      /\ \A i, j \in h.asked : i < j => a[i].kind \notin {"refused", "held"}
      /\ h.status = "failed" => h.kept = 0
      /\ l # None => h.kept <= l
  BY <1>2 DEF Honest
<1>4. ASSUME h.status \in {"ok", "empty"}
      PROVE  CASE d = "boards" ->
                    whole = 1..Entries /\ h.kept = rows[Entries] /\ \A i \in whole : a[i].bad = 0
               [] d = "pages" -> \E n \in whole : a[n].last /\ h.asked = 1..n /\ h.kept = rows[n]
               [] OTHER -> \A i \in DOMAIN a :
                    IF i \in h.asked THEN i \in whole /\ a[i].bad = 0
                    ELSE BehindShortPage(a, h, i)
  <2>1. CASE d = "boards"
    <3>1. /\ \A i \in 1..Entries : a[i].kind = "read" /\ a[i].bad = 0
          /\ h.kept = rows[Entries]
      BY <1>2, <1>4, <2>1 DEF Honest
    <3>2. DOMAIN a = 1..Entries
      BY <1>d, <2>1 DEF Requests
    <3> QED
      BY <2>1, <3>1, <3>2
  <2>2. CASE d = "pages"
    <3>2. DOMAIN a = 1..Entries
      BY <1>d, <2>2 DEF Requests
    <3>1. \E n \in whole : a[n].last /\ h.asked = 1..n /\ h.kept = rows[n]
      BY <1>2, <1>4, <2>2, <3>2 DEF Honest
    <3> QED
      BY <2>2, <3>1
  <2>3. CASE d = "terms"
    <3>1. AskedWhole(h, a, Requests("terms")) /\ DOMAIN a = 1..Requests("terms")
      BY <1>2, <1>4, <1>d, <2>3 DEF Honest
    <3> QED
      BY <2>3, <3>1 DEF AskedWhole
  <2> QED
    BY <1>1, <2>1, <2>2, <2>3
<1> QED
  BY <1>3, <1>4 DEF HealthIsHonest, a, h, l, d, rows

\* A source that says it is whole was asked for everything and gave it, and
\* what the operator last heard of a source is what is stored of it, unless a
\* run in between was dry, crashed, failed to send or overlapped another.
THEOREM TrueReports == SourceSpec => []SourcesReportTruly
<1> DEFINE IInv == CollectionInv /\ WatchTypes /\ PictureInv
           Step == \/ CollectNext /\ UNCHANGED watchVars
                   \/ WatchNext /\ UNCHANGED collection
<1>1. CollectInit /\ WatchInit => IInv
  BY CollectionBegins, PictureBegins
<1>2. IInv /\ [Step]_<<collection, watchVars>> => IInv'
  <2> SUFFICES ASSUME IInv, [Step]_<<collection, watchVars>> PROVE IInv'
    OBVIOUS
  <2>1. CASE CollectNext /\ UNCHANGED watchVars
    <3>1. CollectionInv'
      BY <2>1, CollectionKept
    <3>2. WatchTypes' /\ PictureInv'
      BY <2>1, PictureKept
    <3> QED
      BY <3>1, <3>2
  <2>2. CASE WatchNext /\ UNCHANGED collection
    <3>1. CollectionInv'
      BY <2>2 DEF CollectionInv
    <3>2. WatchTypes' /\ PictureInv'
      BY <2>2, PictureKept
    <3> QED
      BY <3>1, <3>2
  <2>3. CASE UNCHANGED <<collection, watchVars>>
    <3>1. CollectionInv'
      BY <2>3 DEF CollectionInv
    <3>2. WatchTypes' /\ PictureInv'
      BY <2>3, PictureKept
    <3> QED
      BY <3>1, <3>2
  <2> QED
    BY <2>1, <2>2, <2>3
<1>3. IInv => SourcesReportTruly
  BY CollectedHonestly, PictureFollows DEF SourcesReportTruly
<1> QED
  BY <1>1, <1>2, <1>3, PTL DEF SourceSpec

----------------------------------------------------------------------------
(* The grouping.  Every cluster points at an earlier one or at itself, so  *)
(* climbing ends at a root.  Uniting two clusters moves all that climbed   *)
(* to the later root to the earlier one: those together stay together, and *)
(* none come together that no chain of links ties.                         *)

\* What roots are while clusters are joined: N of them, each points back.
Forest(roots, N) ==
    /\ roots \in [1..N -> 1..N]
    /\ \A k \in 1..N : roots[k] <= k

\* A climb is known for the first places.
IsClimb(g, roots, m) ==
    /\ g = [k \in 1..m |-> g[k]]
    /\ \A k \in 1..m : g[k] = IF roots[k] = k THEN k ELSE g[roots[k]]

\* It is known for all: a place that is no root points to one known already.
LEMMA ClimbExists ==
    ASSUME NEW N \in Nat, NEW roots, Forest(roots, N)
    PROVE  \E g : IsClimb(g, roots, N)
<1> DEFINE Is(g, m) == IsClimb(g, roots, m)
           S == {m \in 0..N : \E g : Is(g, m)}
<1>1. 0 \in S
  <2> DEFINE g == [k \in 1..0 |-> 0]
  <2>1. g = [k \in 1..0 |-> g[k]]
    OBVIOUS
  <2>2. Is(g, 0)
    BY <2>1 DEF IsClimb
  <2> HIDE DEF g, Is
  <2> QED
    BY <2>2
<1>2. ASSUME NEW m \in 0..N, m < N, m \in S PROVE m + 1 \in S
  <2>1. PICK g : Is(g, m)
    BY <1>2
  <2>0. m + 1 \in 1..N /\ m + 1 \in 0..N /\ m \in Nat
    BY <1>2
  <2> DEFINE step == IF roots[m + 1] = m + 1 THEN m + 1 ELSE g[roots[m + 1]]
             h == [k \in 1..(m + 1) |-> IF k <= m THEN g[k] ELSE step]
  <2>2. h = [k \in 1..(m + 1) |-> h[k]] /\ h[m + 1] = step /\ \A k \in 1..m : h[k] = g[k]
    BY <2>0
  <2>3. ASSUME NEW k \in 1..(m + 1)
        PROVE  h[k] = IF roots[k] = k THEN k ELSE h[roots[k]]
    <3>1. k \in 1..N /\ roots[k] \in 1..N /\ roots[k] <= k
      BY <2>0 DEF Forest
    <3>2. roots[k] # k => roots[k] \in 1..m
      BY <3>1, <2>0
    <3>3. roots[k] # k => h[roots[k]] = g[roots[k]]
      BY <2>2, <3>2
    <3>4. CASE k = m + 1
      <4>1. h[k] = step
        BY <2>2, <3>4
      <4> QED
        BY <3>3, <3>4, <4>1
    <3>5. CASE k # m + 1
      <4>1. k \in 1..m
        BY <2>0, <3>5
      <4>2. h[k] = g[k]
        BY <2>2, <4>1
      <4>3. g[k] = IF roots[k] = k THEN k ELSE g[roots[k]]
        BY <2>1, <4>1 DEF IsClimb
      <4> QED
        BY <3>3, <4>2, <4>3
    <3> QED
      BY <3>4, <3>5
  <2> HIDE DEF h, step
  <2>4. Is(h, m + 1)
    BY <2>2, <2>3 DEF IsClimb
  <2> HIDE DEF Is
  <2> QED
    BY <2>0, <2>4
<1> HIDE DEF S
<1>3. N \in S
  BY <1>1, <1>2, ReachesAll
<1> QED
  BY <1>3 DEF S

\* The root of a place is the place, or the root of what it points to.
LEMMA RootClimbs ==
    ASSUME NEW N \in Nat, NEW roots, Forest(roots, N), NEW k \in 1..N
    PROVE  Root(roots, k) = IF roots[k] = k THEN k ELSE Root(roots, roots[k])
<1> DEFINE Eq(g) == g = [i \in DOMAIN roots |-> IF roots[i] = i THEN i ELSE g[roots[i]]]
           up == CHOOSE g : Eq(g)
<1>1. \A i : Root(roots, i) = up[i]
  BY Zenon DEF Root
<1>2. PICK f : IsClimb(f, roots, N)
  BY ClimbExists
<1>3. Eq(f)
  <2>1. DOMAIN roots = 1..N
    BY DEF Forest
  <2> QED
    BY <1>2, <2>1 DEF IsClimb
<1> HIDE DEF Eq
<1>4. Eq(up)
  BY <1>3, Zenon
<1> HIDE DEF up
<1>5. DOMAIN roots = 1..N
  BY DEF Forest
<1>6. up[k] = IF roots[k] = k THEN k ELSE up[roots[k]]
  BY <1>4, <1>5 DEF Eq
<1> QED
  BY <1>1, <1>6

\* Climbing ends: at a place that points at itself, no later than where it began.
LEMMA ClimbEnds ==
    ASSUME NEW N \in Nat, NEW roots, Forest(roots, N)
    PROVE  \A k \in 1..N : /\ Root(roots, k) \in 1..N /\ Root(roots, k) <= k
                           /\ roots[Root(roots, k)] = Root(roots, k)
<1> DEFINE Ends(k) == /\ Root(roots, k) \in 1..N /\ Root(roots, k) <= k
                      /\ roots[Root(roots, k)] = Root(roots, k)
           S == {m \in 0..N : \A k \in 1..m : Ends(k)}
<1>1. 0 \in S
  OBVIOUS
<1>2. ASSUME NEW m \in 0..N, m < N, m \in S PROVE m + 1 \in S
  <2>1. m + 1 \in 1..N /\ m + 1 \in 0..N
    BY <1>2
  <2>2. Ends(m + 1)
    <3>1. roots[m + 1] \in 1..N /\ roots[m + 1] <= m + 1
      BY <2>1 DEF Forest
    <3>2. Root(roots, m + 1) = IF roots[m + 1] = m + 1 THEN m + 1 ELSE Root(roots, roots[m + 1])
      BY <2>1, RootClimbs
    <3>3. CASE roots[m + 1] = m + 1
      BY <2>1, <3>2, <3>3
    <3>4. CASE roots[m + 1] # m + 1
      <4>1. roots[m + 1] \in 1..m
        BY <3>1, <3>4
      <4>2. Ends(roots[m + 1])
        BY <1>2, <4>1
      <4>3. Root(roots, m + 1) = Root(roots, roots[m + 1])
        BY <3>2, <3>4
      <4> QED
        BY <3>1, <4>2, <4>3
    <3> QED
      BY <3>3, <3>4
  <2>3. \A k \in 1..(m + 1) : k \in 1..m \/ k = m + 1
    BY <1>2
  <2> HIDE DEF Ends
  <2> QED
    BY <1>2, <2>1, <2>2, <2>3
<1> HIDE DEF S
<1>3. N \in S
  BY <1>1, <1>2, ReachesAll
<1> QED
  BY <1>3 DEF S

\* Uniting moves all that climbed to the later of the two roots to the earlier one.
LEMMA UniteMoves ==
    ASSUME NEW N \in Nat, NEW roots, Forest(roots, N), NEW a \in 1..N, NEW b \in 1..N
    PROVE  LET late == IF Root(roots, a) > Root(roots, b) THEN Root(roots, a) ELSE Root(roots, b)
               early == IF Root(roots, a) > Root(roots, b) THEN Root(roots, b) ELSE Root(roots, a)
           IN /\ Forest(Unite(roots, a, b), N)
              /\ \A k \in 1..N : Root(Unite(roots, a, b), k) =
                    IF Root(roots, k) = late THEN early ELSE Root(roots, k)
<1> DEFINE l == Root(roots, a)
           r == Root(roots, b)
           late == IF l > r THEN l ELSE r
           early == IF l > r THEN r ELSE l
           new == Unite(roots, a, b)
<1>1. /\ late \in 1..N /\ early \in 1..N /\ early <= late
      /\ roots[late] = late /\ roots[early] = early
  <2>1. l \in 1..N /\ r \in 1..N /\ roots[l] = l /\ roots[r] = r
    BY ClimbEnds
  <2> HIDE DEF l, r
  <2> QED
    BY <2>1
<1>2. new = [roots EXCEPT ![late] = early]
  BY DEF Unite
<1> HIDE DEF l, r, late, early, new
<1>3. Forest(new, N)
  BY <1>1, <1>2 DEF Forest
<1>4. /\ new[late] = early
      /\ \A k \in 1..N : k # late => new[k] = roots[k]
  BY <1>1, <1>2 DEF Forest
<1> DEFINE Shifts(k) == Root(new, k) = IF Root(roots, k) = late THEN early ELSE Root(roots, k)
           S == {m \in 0..N : \A k \in 1..m : Shifts(k)}
<1>5. 0 \in S
  OBVIOUS
<1>6. ASSUME NEW m \in 0..N, m < N, m \in S PROVE m + 1 \in S
  <2> DEFINE k == m + 1
  <2>1. k \in 1..N /\ k \in 0..N /\ m \in Nat
    BY <1>6
  <2>2. Root(new, k) = IF new[k] = k THEN k ELSE Root(new, new[k])
    BY <1>3, <2>1, RootClimbs
  <2>3. Root(roots, k) = IF roots[k] = k THEN k ELSE Root(roots, roots[k])
    BY <2>1, RootClimbs
  <2>4. Root(new, early) = early
    <3>1. new[early] = early
      BY <1>1, <1>4
    <3> QED
      BY <1>1, <1>3, <3>1, RootClimbs
  <2>5. Shifts(k)
    <3>1. CASE k = late
      <4>1. Root(roots, k) = late
        BY <1>1, <2>3, <3>1
      <4>2. Root(new, k) = early
        BY <1>4, <2>2, <2>4, <3>1
      <4> QED
        BY <4>1, <4>2
    <3>2. CASE k # late
      <4>1. new[k] = roots[k]
        BY <1>4, <2>1, <3>2
      <4>2. CASE roots[k] = k
        BY <2>2, <2>3, <3>2, <4>1, <4>2
      <4>3. CASE roots[k] # k
        <5>1. roots[k] \in 1..m
          <6>1. roots[k] \in 1..N /\ roots[k] <= k
            BY <2>1 DEF Forest
          <6> QED
            BY <2>1, <4>3, <6>1
        <5>2. Shifts(roots[k])
          BY <1>6, <5>1
        <5>3. Root(new, k) = Root(new, roots[k]) /\ Root(roots, k) = Root(roots, roots[k])
          BY <2>2, <2>3, <4>1, <4>3
        <5> QED
          BY <5>2, <5>3
      <4> QED
        BY <4>2, <4>3
    <3> QED
      BY <3>1, <3>2
  <2>6. \A i \in 1..k : i \in 1..m \/ i = k
    BY <2>1
  <2> HIDE DEF Shifts
  <2>7. \A i \in 1..k : Shifts(i)
    BY <1>6, <2>5, <2>6
  <2> QED
    BY <2>1, <2>7
<1> HIDE DEF S
<1>7. N \in S
  BY <1>5, <1>6, ReachesAll
<1>8. \A k \in 1..N : Shifts(k)
  BY <1>7 DEF S
<1> QED
  BY <1>3, <1>8 DEF l, r, late, early, new

\* What a run evaluates: a finite list of observations, each with an ID of its own.
IsBatch(all) ==
    /\ Len(all) \in Nat /\ DOMAIN all = 1..Len(all)
    /\ \A n \in DOMAIN all :
         /\ all[n].id \in Nat /\ all[n].length \in Nat /\ all[n].paid \in BOOLEAN
         /\ all[n].kind \in {Kinds[i] : i \in 1..7}
    /\ \A n, k \in DOMAIN all : all[n].id = all[k].id => n = k

\* A cluster is known by its first place, which all places of one posting agree on.
LEMMA OwnersAgree ==
    ASSUME NEW all, IsBatch(all), NEW n \in Valid(all)
    PROVE  /\ Owner(all, n) \in Valid(all) /\ Owner(all, n) \in 1..Len(all)
           /\ PostingKey(all[Owner(all, n)]) = PostingKey(all[n])
           /\ \A k \in Valid(all) : PostingKey(all[k]) = PostingKey(all[n]) <=> Owner(all, k) = Owner(all, n)
<1>1. ASSUME NEW k \in Valid(all)
      PROVE  /\ Owner(all, k) \in Valid(all) /\ Owner(all, k) \in 1..Len(all)
             /\ PostingKey(all[Owner(all, k)]) = PostingKey(all[k])
  <2> DEFINE A == Alike(all, k)
  <2>1. A \in SUBSET Nat /\ k \in A /\ A \subseteq Valid(all) /\ Valid(all) \subseteq 1..Len(all)
    BY DEF Alike, Valid, IsBatch
  <2>2. \A i \in A : PostingKey(all[i]) = PostingKey(all[k])
    BY DEF Alike
  <2>3. Owner(all, k) = CHOOSE i \in A : \A j \in A : i <= j
    BY DEF Owner
  <2> HIDE DEF A
  <2>4. \E i \in A : \A j \in A : i <= j
    BY <2>1, LeastNumber
  <2>5. Owner(all, k) \in A
    BY <2>3, <2>4
  <2> QED
    BY <2>1, <2>2, <2>5
<1>2. ASSUME NEW k \in Valid(all), PostingKey(all[k]) = PostingKey(all[n])
      PROVE  Owner(all, k) = Owner(all, n)
  <2>1. Alike(all, k) = Alike(all, n)
    BY <1>2 DEF Alike
  <2> QED
    BY <2>1 DEF Owner
<1>3. ASSUME NEW k \in Valid(all), Owner(all, k) = Owner(all, n)
      PROVE  PostingKey(all[k]) = PostingKey(all[n])
  BY <1>1, <1>3
<1> QED
  BY <1>1, <1>2, <1>3

\* Two places whose clusters have come under one root.
Together(all, roots, n, k) == Root(roots, Owner(all, n)) = Root(roots, Owner(all, k))

\* None are together but those that a chain of links ties: whatever is closed
\* under links and holds one of them holds the other.
OnlyTied(all, roots) ==
    \A s \in SUBSET Sighted(all) : LinkClosed(s, all) =>
      \A n, k \in Valid(all) : Together(all, roots, n, k) /\ all[n] \in s => all[k] \in s

\* Those together stay together.
StayTogether(all, roots, new) ==
    \A n, k \in Valid(all) : Together(all, roots, n, k) => Together(all, new, n, k)

\* What a step of the joining may do.
JoinsRightly(all, roots, new) ==
    /\ Forest(new, Len(all)) /\ OnlyTied(all, new) /\ StayTogether(all, roots, new)

\* Joining an accepted original to a parent brings these two together, and only the tied.
LEMMA ParentJoined ==
    ASSUME NEW all, IsBatch(all), NEW roots, Forest(roots, Len(all)), OnlyTied(all, roots),
           NEW n \in Valid(all), Joins(all[n]), NEW k \in 1..Len(all)
    PROVE  /\ JoinsRightly(all, roots, Joined(all, roots, n, k))
           /\ k \in Valid(all) /\ all[k].id \in all[n].parents =>
                Together(all, Joined(all, roots, n, k), n, k)
<1> DEFINE new == Joined(all, roots, n, k)
<1>0. Len(all) \in Nat
  BY DEF IsBatch
<1>1. CASE ~(k \in Valid(all) /\ all[k].id \in all[n].parents)
  <2>1. new = roots
    BY <1>1 DEF Joined
  <2> HIDE DEF new
  <2> QED
    BY <1>1, <2>1 DEF JoinsRightly, StayTogether, new
<1>2. CASE k \in Valid(all) /\ all[k].id \in all[n].parents
  <2> DEFINE N == Len(all)
             a == Owner(all, n)
             b == Owner(all, k)
             late == IF Root(roots, a) > Root(roots, b) THEN Root(roots, a) ELSE Root(roots, b)
             early == IF Root(roots, a) > Root(roots, b) THEN Root(roots, b) ELSE Root(roots, a)
  <2>1. new = Unite(roots, a, b)
    BY <1>2 DEF Joined
  <2>2. a \in 1..N /\ b \in 1..N
    BY <1>2, OwnersAgree
  <2>3. \A i \in Valid(all) : Owner(all, i) \in 1..N
    BY OwnersAgree
  <2>4. /\ Forest(new, N)
        /\ \A i \in 1..N : Root(new, i) = IF Root(roots, i) = late THEN early ELSE Root(roots, i)
    <3>1. /\ Forest(Unite(roots, a, b), N)
          /\ \A i \in 1..N : Root(Unite(roots, a, b), i) =
                IF Root(roots, i) = late THEN early ELSE Root(roots, i)
      <4> HIDE DEF a, b, N
      <4> QED
        BY <1>0, <2>2, UniteMoves DEF N
    <3> HIDE DEF new, late, early
    <3> QED
      BY <2>1, <3>1
  <2>5. \/ late = Root(roots, a) /\ early = Root(roots, b)
        \/ late = Root(roots, b) /\ early = Root(roots, a)
    OBVIOUS
  <2> HIDE DEF new, late, early, N
  <2>6. \A i \in Valid(all) :
          Root(new, Owner(all, i)) = IF Root(roots, Owner(all, i)) = late THEN early
                                     ELSE Root(roots, Owner(all, i))
    BY <2>3, <2>4
  <2>7. StayTogether(all, roots, new)
    BY <2>6 DEF StayTogether, Together
  <2>8. Together(all, new, n, k)
    BY <1>2, <2>5, <2>6 DEF Together
  <2>9. OnlyTied(all, new)
    <3> SUFFICES ASSUME NEW s \in SUBSET Sighted(all), LinkClosed(s, all),
                        NEW i \in Valid(all), NEW j \in Valid(all),
                        Together(all, new, i, j), all[i] \in s
                 PROVE  all[j] \in s
      BY DEF OnlyTied
    <3>1. \A x, y \in Valid(all) : Together(all, roots, x, y) /\ all[x] \in s => all[y] \in s
      BY DEF OnlyTied
    <3>2. all[n] \in Sighted(all) /\ all[k] \in Sighted(all)
      BY <1>2 DEF Sighted
    <3>3. Link(all[n], all[k]) /\ Link(all[k], all[n])
      BY <1>2 DEF Link
    <3>4. all[n] \in s <=> all[k] \in s
      BY <3>2, <3>3 DEF LinkClosed
    <3>5. CASE Together(all, roots, i, j)
      BY <3>1, <3>5
    <3>6. CASE ~Together(all, roots, i, j)
      <4>1. \/ Together(all, roots, i, n) /\ Together(all, roots, k, j)
            \/ Together(all, roots, i, k) /\ Together(all, roots, n, j)
        BY <2>5, <2>6, <3>6 DEF Together
      <4> QED
        BY <1>2, <3>1, <3>4, <4>1
    <3> QED
      BY <3>5, <3>6
  <2> QED
    BY <2>4, <2>7, <2>8, <2>9 DEF JoinsRightly, N, new
<1> QED
  BY <1>1, <1>2

\* A walk over places that takes one step after the other, as far as a place.
IsJoining(g, all, roots, n, k) ==
    /\ g = [i \in 0..k |-> g[i]] /\ g[0] = roots
    /\ \A i \in 1..k : g[i] = Joined(all, g[i - 1], n, i)

\* There is one to the end.
LEMMA JoiningExists ==
    ASSUME NEW all, NEW roots, NEW n, NEW N \in Nat
    PROVE  \E g : IsJoining(g, all, roots, n, N)
<1> DEFINE Is(g, k) == IsJoining(g, all, roots, n, k)
           S == {k \in 0..N : \E g : Is(g, k)}
<1>1. 0 \in S
  <2> DEFINE g == [i \in 0..0 |-> roots]
  <2>1. g = [i \in 0..0 |-> g[i]] /\ g[0] = roots
    OBVIOUS
  <2> HIDE DEF g
  <2>2. Is(g, 0)
    BY <2>1 DEF IsJoining
  <2> QED
    BY <2>2
<1>2. ASSUME NEW k \in 0..N, k < N, k \in S PROVE k + 1 \in S
  <2>1. PICK g : Is(g, k)
    BY <1>2
  <2> DEFINE step == Joined(all, g[k], n, k + 1)
             h == [i \in 0..(k + 1) |-> IF i <= k THEN g[i] ELSE step]
  <2>2. h = [i \in 0..(k + 1) |-> h[i]] /\ h[k + 1] = step /\ \A i \in 0..k : h[i] = g[i]
    OBVIOUS
  <2>3. step = Joined(all, g[k], n, k + 1)
    OBVIOUS
  <2> HIDE DEF h, step
  <2>4. h[0] = roots
    <3>1. 0 \in 0..k
      OBVIOUS
    <3>2. g[0] = roots
      BY <2>1 DEF IsJoining
    <3> QED
      BY <2>2, <3>1, <3>2
  <2>5. ASSUME NEW i \in 1..(k + 1) PROVE h[i] = Joined(all, h[i - 1], n, i)
    <3>1. i - 1 \in 0..k
      OBVIOUS
    <3>2. h[i - 1] = g[i - 1]
      BY <2>2, <3>1
    <3>3. CASE i = k + 1
      <4>1. h[i - 1] = g[k]
        BY <3>2, <3>3
      <4> QED
        BY <2>2, <2>3, <3>3, <4>1
    <3>4. CASE i # k + 1
      <4>1. i \in 1..k /\ h[i] = g[i]
        BY <2>2, <3>4
      <4> QED
        BY <2>1, <3>2, <4>1 DEF IsJoining
    <3> QED
      BY <3>3, <3>4
  <2>6. Is(h, k + 1)
    BY <2>2, <2>4, <2>5 DEF IsJoining
  <2>7. k + 1 \in 0..N
    BY <1>2
  <2> HIDE DEF Is
  <2> QED
    BY <2>6, <2>7
<1> HIDE DEF S
<1>3. N \in S
  BY <1>1, <1>2, ReachesAll
<1> QED
  BY <1>3 DEF S

\* What an accepted original joins is what a walk to the end joined.
LEMMA JoinWalks ==
    ASSUME NEW all, IsBatch(all), NEW roots, NEW n \in Valid(all), Joins(all[n])
    PROVE  \E g : /\ IsJoining(g, all, roots, n, Len(all))
                  /\ Join(all, roots, n) = g[Len(all)]
<1> DEFINE N == Len(all)
           Eq(g) == g = [i \in 0..N |-> IF i = 0 THEN roots ELSE Joined(all, g[i - 1], n, i)]
           upTo == CHOOSE g : Eq(g)
<1>1. Join(all, roots, n) = upTo[N]
  BY Zenon DEF Join
<1>0. N \in Nat
  BY DEF IsBatch
<1> HIDE DEF N
<1>2. PICK f : IsJoining(f, all, roots, n, N)
  BY <1>0, JoiningExists
<1>3. Eq(f)
  <2>1. /\ f = [i \in 0..N |-> f[i]] /\ f[0] = roots
        /\ \A i \in 1..N : f[i] = Joined(all, f[i - 1], n, i)
    BY <1>2 DEF IsJoining
  <2>2. \A i \in 0..N : i # 0 => i \in 1..N
    OBVIOUS
  <2> QED
    BY <2>1, <2>2
<1> HIDE DEF Eq
<1>4. Eq(upTo)
  BY <1>3, Zenon
<1> HIDE DEF upTo
<1>5. \A i \in 0..N : upTo[i] = IF i = 0 THEN roots ELSE Joined(all, upTo[i - 1], n, i)
  BY <1>4 DEF Eq
<1>6. upTo = [i \in 0..N |-> upTo[i]]
  BY <1>4 DEF Eq
<1>7. IsJoining(upTo, all, roots, n, N)
  <2>1. \A i \in 1..N : i \in 0..N /\ i # 0
    BY <1>0
  <2>2. 0 \in 0..N
    BY <1>0
  <2> QED
    BY <1>5, <1>6, <2>1, <2>2, Zenon DEF IsJoining
<1> QED
  BY <1>1, <1>7 DEF N

\* The parents that an observation joins, once it was taken up.
LEMMA StaysJoined ==
    ASSUME NEW all, NEW roots, NEW mid, NEW new,
           JoinsRightly(all, roots, mid), JoinsRightly(all, mid, new)
    PROVE  JoinsRightly(all, roots, new)
BY Zenon DEF JoinsRightly, StayTogether

\* An observation that joins ends up with every parent that was observed.
LEMMA ParentsJoined ==
    ASSUME NEW all, IsBatch(all), NEW roots, Forest(roots, Len(all)), OnlyTied(all, roots), NEW n
    PROVE  /\ JoinsRightly(all, roots, Join(all, roots, n))
           /\ n \in Valid(all) /\ Joins(all[n]) =>
                \A k \in Valid(all) : all[k].id \in all[n].parents =>
                  Together(all, Join(all, roots, n), n, k)
<1>1. CASE ~(n \in Valid(all) /\ Joins(all[n]))
  <2>1. Join(all, roots, n) = roots
    BY <1>1 DEF Join
  <2> QED
    BY <1>1, <2>1 DEF JoinsRightly, StayTogether
<1>2. CASE n \in Valid(all) /\ Joins(all[n])
  <2> DEFINE N == Len(all)
             Parent(k) == k \in Valid(all) /\ all[k].id \in all[n].parents
  <2>1. PICK g : IsJoining(g, all, roots, n, N) /\ Join(all, roots, n) = g[N]
    BY <1>2, JoinWalks
  <2>0. N \in Nat /\ Valid(all) \subseteq 1..N
    BY DEF IsBatch, Valid
  <2> DEFINE Right(i) == /\ JoinsRightly(all, roots, g[i])
                         /\ \A k \in 1..i : Parent(k) => Together(all, g[i], n, k)
             S == {i \in 0..N : Right(i)}
  <2>2. 0 \in S
    <3>1. g[0] = roots
      BY <2>1 DEF IsJoining
    <3>2. Right(0)
      BY <3>1 DEF JoinsRightly, StayTogether
    <3> HIDE DEF Right
    <3> QED
      BY <2>0, <3>2
  <2>3. ASSUME NEW i \in 0..N, i < N, i \in S PROVE i + 1 \in S
    <3>0. i + 1 \in 1..N /\ i + 1 \in 0..N /\ (i + 1) - 1 = i
      BY <2>0, <2>3
    <3>1. g[i + 1] = Joined(all, g[i], n, i + 1)
      BY <2>1, <3>0 DEF IsJoining
    <3>2. Right(i)
      BY <2>3
    <3>3. Forest(g[i], N) /\ OnlyTied(all, g[i])
      BY <3>2 DEF JoinsRightly
    <3>4. /\ JoinsRightly(all, g[i], g[i + 1])
          /\ Parent(i + 1) => Together(all, g[i + 1], n, i + 1)
      BY <1>2, <3>0, <3>1, <3>3, ParentJoined
    <3>5. JoinsRightly(all, roots, g[i + 1])
      BY <3>2, <3>4, StaysJoined
    <3>6. ASSUME NEW k \in 1..(i + 1), Parent(k) PROVE Together(all, g[i + 1], n, k)
      <4>1. CASE k = i + 1
        BY <3>4, <3>6, <4>1
      <4>2. CASE k # i + 1
        <5>1. k \in 1..i
          BY <3>0, <4>2
        <5>2. Together(all, g[i], n, k)
          BY <3>2, <3>6, <5>1
        <5> QED
          BY <1>2, <3>4, <3>6, <5>2 DEF JoinsRightly, StayTogether
      <4> QED
        BY <4>1, <4>2
    <3>7. Right(i + 1)
      BY <3>5, <3>6
    <3> HIDE DEF Right
    <3> QED
      BY <3>0, <3>7
  <2> HIDE DEF S, N
  <2>4. N \in S
    <3>1. \A i \in 0..N : i < N /\ i \in S => i + 1 \in S
      BY <2>3
    <3>2. N \in Nat /\ N \in 0..N
      BY <2>0
    <3>3. \A i \in 0..N : i \in S
      BY <2>2, <3>1, <3>2, ReachesAll, Zenon
    <3> QED
      BY <3>2, <3>3
  <2>5. Right(N)
    BY <2>4 DEF S, N
  <2>6. \A k \in Valid(all) : k \in 1..N
    BY <2>0
  <2> QED
    BY <2>1, <2>5, <2>6
<1> QED
  BY <1>1, <1>2

\* A walk over the observations that lets each join its parents, as far as a place.
IsGrouping(g, all, k) ==
    /\ g = [i \in 0..k |-> g[i]] /\ g[0] = [i \in DOMAIN all |-> i]
    /\ \A i \in 1..k : g[i] = Join(all, g[i - 1], i)

\* There is one to the end.
LEMMA GroupingExists ==
    ASSUME NEW all, NEW N \in Nat
    PROVE  \E g : IsGrouping(g, all, N)
<1> DEFINE start == [i \in DOMAIN all |-> i]
           Is(g, k) == IsGrouping(g, all, k)
           S == {k \in 0..N : \E g : Is(g, k)}
<1>1. 0 \in S
  <2> DEFINE g == [i \in 0..0 |-> start]
  <2>1. g = [i \in 0..0 |-> g[i]] /\ g[0] = start
    OBVIOUS
  <2> HIDE DEF g
  <2>2. Is(g, 0)
    BY <2>1 DEF IsGrouping
  <2> QED
    BY <2>2
<1>2. ASSUME NEW k \in 0..N, k < N, k \in S PROVE k + 1 \in S
  <2>1. PICK g : Is(g, k)
    BY <1>2
  <2> DEFINE step == Join(all, g[k], k + 1)
             h == [i \in 0..(k + 1) |-> IF i <= k THEN g[i] ELSE step]
  <2>2. h = [i \in 0..(k + 1) |-> h[i]] /\ h[k + 1] = step /\ \A i \in 0..k : h[i] = g[i]
    OBVIOUS
  <2>3. step = Join(all, g[k], k + 1)
    OBVIOUS
  <2> HIDE DEF h, step
  <2>4. h[0] = start
    <3>1. 0 \in 0..k
      OBVIOUS
    <3>2. g[0] = start
      BY <2>1 DEF IsGrouping
    <3> QED
      BY <2>2, <3>1, <3>2
  <2>5. ASSUME NEW i \in 1..(k + 1) PROVE h[i] = Join(all, h[i - 1], i)
    <3>1. i - 1 \in 0..k
      OBVIOUS
    <3>2. h[i - 1] = g[i - 1]
      BY <2>2, <3>1
    <3>3. CASE i = k + 1
      <4>1. h[i - 1] = g[k]
        BY <3>2, <3>3
      <4> QED
        BY <2>2, <2>3, <3>3, <4>1
    <3>4. CASE i # k + 1
      <4>1. i \in 1..k /\ h[i] = g[i]
        BY <2>2, <3>4
      <4> QED
        BY <2>1, <3>2, <4>1 DEF IsGrouping
    <3> QED
      BY <3>3, <3>4
  <2>6. Is(h, k + 1)
    BY <2>2, <2>4, <2>5 DEF IsGrouping
  <2>7. k + 1 \in 0..N
    BY <1>2
  <2> HIDE DEF Is
  <2> QED
    BY <2>6, <2>7
<1> HIDE DEF S
<1>3. N \in S
  BY <1>1, <1>2, ReachesAll
<1> QED
  BY <1>3 DEF S

\* The roots of a batch are what such a walk ends with.
LEMMA RootsWalk ==
    ASSUME NEW all, IsBatch(all)
    PROVE  \E g : IsGrouping(g, all, Len(all)) /\ RootsOf(all) = g[Len(all)]
<1> DEFINE N == Len(all)
           start == [i \in DOMAIN all |-> i]
           Eq(g) == g = [i \in 0..N |-> IF i = 0 THEN start ELSE Join(all, g[i - 1], i)]
           upTo == CHOOSE g : Eq(g)
<1>1. RootsOf(all) = upTo[N]
  BY Zenon DEF RootsOf
<1>0. N \in Nat
  BY DEF IsBatch
<1> HIDE DEF N
<1>2. PICK f : IsGrouping(f, all, N)
  BY <1>0, GroupingExists
<1>3. Eq(f)
  <2>1. /\ f = [i \in 0..N |-> f[i]] /\ f[0] = start
        /\ \A i \in 1..N : f[i] = Join(all, f[i - 1], i)
    BY <1>2 DEF IsGrouping
  <2>2. \A i \in 0..N : i # 0 => i \in 1..N
    OBVIOUS
  <2> HIDE DEF start
  <2> QED
    BY <2>1, <2>2
<1> HIDE DEF Eq
<1>4. Eq(upTo)
  BY <1>3, Zenon
<1> HIDE DEF upTo
<1>7. IsGrouping(upTo, all, N)
  <2> HIDE DEF start
  <2>1. \A i \in 0..N : upTo[i] = IF i = 0 THEN start ELSE Join(all, upTo[i - 1], i)
    BY <1>4 DEF Eq
  <2>2. upTo = [i \in 0..N |-> upTo[i]]
    BY <1>4 DEF Eq
  <2>3. \A i \in 1..N : i \in 0..N /\ i # 0
    BY <1>0
  <2>4. 0 \in 0..N
    BY <1>0
  <2>5. upTo[0] = start /\ \A i \in 1..N : upTo[i] = Join(all, upTo[i - 1], i)
    BY <2>1, <2>3, <2>4, Zenon
  <2> QED
    BY <2>2, <2>5, Zenon DEF IsGrouping, start
<1> QED
  BY <1>1, <1>7 DEF N

\* At first every cluster is a root: together are the sightings of one posting.
LEMMA ApartAtFirst ==
    ASSUME NEW all, IsBatch(all)
    PROVE  LET start == [i \in DOMAIN all |-> i]
           IN Forest(start, Len(all)) /\ OnlyTied(all, start)
<1> DEFINE start == [i \in DOMAIN all |-> i]
           N == Len(all)
<1>1. start \in [1..N -> 1..N] /\ \A k \in 1..N : start[k] = k
  BY DEF IsBatch
<1>2. N \in Nat
  BY DEF IsBatch
<1> HIDE DEF start, N
<1>3. Forest(start, N)
  BY <1>1, <1>2 DEF Forest
<1>4. \A k \in 1..N : Root(start, k) = k
  BY <1>1, <1>2, <1>3, RootClimbs
<1>5. OnlyTied(all, start)
  <2> SUFFICES ASSUME NEW s \in SUBSET Sighted(all), LinkClosed(s, all),
                      NEW n \in Valid(all), NEW k \in Valid(all),
                      Together(all, start, n, k), all[n] \in s
               PROVE  all[k] \in s
    BY DEF OnlyTied
  <2>1. Owner(all, n) \in 1..N /\ Owner(all, k) \in 1..N
    BY OwnersAgree DEF N
  <2>2. Owner(all, n) = Owner(all, k)
    BY <1>4, <2>1 DEF Together
  <2>3. PostingKey(all[n]) = PostingKey(all[k])
    BY <2>2, OwnersAgree
  <2>4. Link(all[n], all[k]) /\ all[k] \in Sighted(all)
    BY <2>3 DEF Link, Sighted
  <2> QED
    BY <2>4 DEF LinkClosed
<1> QED
  BY <1>3, <1>5 DEF start, N

\* In the end every accepted original is with its parents, and only the tied are together.
LEMMA GroupedRightly ==
    ASSUME NEW all, IsBatch(all)
    PROVE  /\ OnlyTied(all, RootsOf(all))
           /\ \A n, k \in Valid(all) : Joins(all[n]) /\ all[k].id \in all[n].parents =>
                Together(all, RootsOf(all), n, k)
<1> DEFINE N == Len(all)
           Bound(n, k) == n \in Valid(all) /\ Joins(all[n]) /\ all[k].id \in all[n].parents
<1>1. PICK g : IsGrouping(g, all, N) /\ RootsOf(all) = g[N]
  BY RootsWalk
<1>0. N \in Nat /\ Valid(all) \subseteq 1..N
  BY DEF IsBatch, Valid
<1> DEFINE Right(i) == /\ Forest(g[i], N) /\ OnlyTied(all, g[i])
                       /\ \A n \in 1..i, k \in Valid(all) : Bound(n, k) => Together(all, g[i], n, k)
           S == {i \in 0..N : Right(i)}
<1>2. 0 \in S
  <2>1. g[0] = [i \in DOMAIN all |-> i]
    BY <1>1 DEF IsGrouping
  <2>2. Forest(g[0], N) /\ OnlyTied(all, g[0])
    BY <2>1, ApartAtFirst
  <2>3. Right(0)
    BY <2>2
  <2> HIDE DEF Right
  <2> QED
    BY <1>0, <2>3
<1>3. ASSUME NEW i \in 0..N, i < N, i \in S PROVE i + 1 \in S
  <2>0. i + 1 \in 1..N /\ i + 1 \in 0..N /\ (i + 1) - 1 = i
    BY <1>0, <1>3
  <2>1. g[i + 1] = Join(all, g[i], i + 1)
    BY <1>1, <2>0 DEF IsGrouping
  <2>2. Right(i)
    BY <1>3
  <2>3. /\ JoinsRightly(all, g[i], g[i + 1])
        /\ \A k \in Valid(all) : Bound(i + 1, k) => Together(all, g[i + 1], i + 1, k)
    BY <2>1, <2>2, ParentsJoined
  <2>4. ASSUME NEW n \in 1..(i + 1), NEW k \in Valid(all), Bound(n, k)
        PROVE  Together(all, g[i + 1], n, k)
    <3>1. CASE n = i + 1
      BY <2>3, <2>4, <3>1
    <3>2. CASE n # i + 1
      <4>1. n \in 1..i
        BY <2>0, <3>2
      <4>2. Together(all, g[i], n, k)
        BY <2>2, <2>4, <4>1
      <4> QED
        BY <2>3, <2>4, <4>2 DEF JoinsRightly, StayTogether
    <3> QED
      BY <3>1, <3>2
  <2>5. Right(i + 1)
    BY <2>3, <2>4 DEF JoinsRightly
  <2> HIDE DEF Right
  <2> QED
    BY <2>0, <2>5
<1> HIDE DEF S, N
<1>4. N \in S
  <2>1. \A i \in 0..N : i < N /\ i \in S => i + 1 \in S
    BY <1>3
  <2>2. N \in Nat /\ N \in 0..N
    BY <1>0
  <2>3. \A i \in 0..N : i \in S
    BY <1>2, <2>1, <2>2, ReachesAll, Zenon
  <2> QED
    BY <2>2, <2>3
<1>5. Right(N)
  BY <1>4 DEF S
<1>6. \A n \in Valid(all) : n \in 1..N
  BY <1>0
<1> QED
  BY <1>1, <1>5, <1>6

\* The observations that share a place's root are those tied to it.
LEMMA GroupIsTied ==
    ASSUME NEW all, IsBatch(all), NEW n \in Valid(all)
    PROVE  {all[k] : k \in {k \in Valid(all) : Together(all, RootsOf(all), k, n)}} = Tied(all[n], all)
<1> DEFINE roots == RootsOf(all)
           With == {all[k] : k \in {k \in Valid(all) : Together(all, roots, k, n)}}
<1>1. OnlyTied(all, roots)
  BY GroupedRightly
<1>2. \A i, k \in Valid(all) : Joins(all[i]) /\ all[k].id \in all[i].parents => Together(all, roots, i, k)
  BY GroupedRightly
<1> HIDE DEF roots
<1>3. ASSUME NEW b \in With PROVE b \in Tied(all[n], all)
  <2>1. PICK k \in Valid(all) : b = all[k] /\ Together(all, roots, k, n)
    BY <1>3
  <2>2. Together(all, roots, n, k)
    BY <2>1 DEF Together
  <2>3. \A s \in SUBSET Sighted(all) : all[n] \in s /\ LinkClosed(s, all) => all[k] \in s
    BY <1>1, <2>1, <2>2 DEF OnlyTied
  <2>4. b \in Sighted(all)
    BY <2>1 DEF Sighted
  <2> QED
    BY <2>1, <2>3, <2>4 DEF Tied
<1>4. LinkClosed(With, all)
  <2> SUFFICES ASSUME NEW a \in With, NEW b \in Sighted(all), Link(a, b) PROVE b \in With
    BY DEF LinkClosed
  <2>1. PICK i \in Valid(all) : a = all[i] /\ Together(all, roots, i, n)
    OBVIOUS
  <2>2. PICK k \in Valid(all) : b = all[k]
    BY DEF Sighted
  <2>3. Together(all, roots, k, i)
    <3>1. CASE PostingKey(a) = PostingKey(b)
      <4>1. Owner(all, i) = Owner(all, k)
        BY <2>1, <2>2, <3>1, OwnersAgree
      <4> QED
        BY <4>1 DEF Together
    <3>2. CASE Joins(a) /\ b.id \in a.parents
      BY <1>2, <2>1, <2>2, <3>2 DEF Together
    <3>3. CASE Joins(b) /\ a.id \in b.parents
      BY <1>2, <2>1, <2>2, <3>3 DEF Together
    <3> QED
      BY <3>1, <3>2, <3>3 DEF Link
  <2>4. Together(all, roots, k, n)
    BY <2>1, <2>3 DEF Together
  <2> QED
    BY <2>2, <2>4
<1>5. With \in SUBSET Sighted(all) /\ all[n] \in With
  BY DEF Together, Sighted
<1> HIDE DEF With
<1>6. ASSUME NEW b \in Tied(all[n], all) PROVE b \in With
  BY <1>4, <1>5 DEF Tied
<1>7. With = Tied(all[n], all)
  BY <1>3, <1>6
<1> QED
  BY <1>7 DEF With, roots

\* What is merged: the observations tied to each other.
LEMMA MergedAreTied ==
    ASSUME NEW all, IsBatch(all)
    PROVE  Merged(all) = {Tied(o, all) : o \in Sighted(all)}
<1> DEFINE With(n) == {all[k] : k \in {k \in Valid(all) : Together(all, RootsOf(all), k, n)}}
<1>1. Merged(all) = {With(n) : n \in Valid(all)}
  BY DEF Merged, Together
<1>2. \A n \in Valid(all) : With(n) = Tied(all[n], all)
  BY GroupIsTied
<1> HIDE DEF With
<1>3. {With(n) : n \in Valid(all)} = {Tied(all[n], all) : n \in Valid(all)}
  BY <1>2
<1> QED
  BY <1>1, <1>3 DEF Sighted

\* Those tied to an observation are tied to each other, and it is one of them.
LEMMA TiedIsShared ==
    ASSUME NEW all, NEW o \in Sighted(all)
    PROVE  /\ o \in Tied(o, all) /\ Tied(o, all) \subseteq Sighted(all)
           /\ LinkClosed(Tied(o, all), all)
           /\ \A p \in Tied(o, all) : Tied(p, all) = Tied(o, all)
<1> DEFINE T(q) == Tied(q, all)
<1>1. ASSUME NEW q \in Sighted(all)
      PROVE  q \in T(q) /\ T(q) \in SUBSET Sighted(all) /\ LinkClosed(T(q), all)
  BY DEF Tied, LinkClosed
<1>2. ASSUME NEW p \in T(o) PROVE T(p) = T(o)
  <2>1. p \in Sighted(all)
    BY <1>1, <1>2
  <2>2. T(p) \subseteq T(o)
    <3>1. \A b \in T(p) : \A s \in SUBSET Sighted(all) : p \in s /\ LinkClosed(s, all) => b \in s
      BY DEF Tied
    <3>2. p \in T(o) /\ LinkClosed(T(o), all) /\ T(o) \in SUBSET Sighted(all)
      BY <1>1, <1>2
    <3> QED
      BY <3>1, <3>2
  <2>3. o \in T(p)
    <3> DEFINE rest == Sighted(all) \ T(p)
    <3>1. LinkClosed(rest, all)
      <4> SUFFICES ASSUME NEW a \in rest, NEW b \in Sighted(all), Link(a, b), b \in T(p)
                   PROVE  FALSE
        BY DEF LinkClosed
      <4>1. Link(b, a)
        BY DEF Link
      <4>2. a \in T(p)
        BY <1>1, <2>1, <4>1 DEF LinkClosed
      <4> QED
        BY <4>2
    <3>2. p \notin rest /\ rest \in SUBSET Sighted(all)
      BY <1>1, <2>1
    <3>3. p \in Tied(o, all)
      BY <1>2
    <3>4. o \notin rest
      BY <3>1, <3>2, <3>3 DEF Tied
    <3> QED
      BY <3>4
  <2>4. T(o) \subseteq T(p)
    <3>1. \A b \in T(o) : \A s \in SUBSET Sighted(all) : o \in s /\ LinkClosed(s, all) => b \in s
      BY DEF Tied
    <3>2. LinkClosed(T(p), all) /\ T(p) \in SUBSET Sighted(all)
      BY <1>1, <2>1
    <3> QED
      BY <2>3, <3>1, <3>2
  <2> QED
    BY <2>2, <2>4
<1> QED
  BY <1>1, <1>2

----------------------------------------------------------------------------
(* The voice of a vacancy.  Of two observations one is the better, so a    *)
(* finite number of them has a best one, which names the vacancy.          *)

\* A kind has one rank, a rank one kind.
LEMMA RanksDiffer ==
    \A a, b \in {Kinds[i] : i \in 1..7} :
      SourceRank(a) \in Nat /\ (SourceRank(a) = SourceRank(b) => a = b)
<1>1. \A a \in {Kinds[i] : i \in 1..7} : SourceRank(a) \in 1..7 /\ Kinds[SourceRank(a)] = a
  <2> SUFFICES ASSUME NEW a \in {Kinds[i] : i \in 1..7}
               PROVE  SourceRank(a) \in 1..7 /\ Kinds[SourceRank(a)] = a
    OBVIOUS
  <2>1. \E n \in 1..7 : Kinds[n] = a
    OBVIOUS
  <2> QED
    BY <2>1 DEF SourceRank
<1> QED
  BY <1>1

\* Being better is a strict order, and total on what a batch observed.
LEMMA BetterIsOrder ==
    ASSUME NEW all, IsBatch(all), NEW a \in Sighted(all), NEW b \in Sighted(all),
           NEW c \in Sighted(all)
    PROVE  /\ a # b => Better(a, b) \/ Better(b, a)
           /\ Better(a, b) /\ Better(b, c) => Better(a, c)
<1>1. \A o \in {a, b, c} : /\ o.id \in Nat /\ o.length \in Nat /\ o.paid \in BOOLEAN
                           /\ o.kind \in {Kinds[i] : i \in 1..7}
  BY DEF Sighted, Valid, IsBatch
<1>2. \A o, q \in {a, b, c} : o.id = q.id => o = q
  BY DEF Sighted, Valid, IsBatch
<1>3. \A o, q \in {a, b, c} : /\ SourceRank(o.kind) \in Nat
                              /\ SourceRank(o.kind) = SourceRank(q.kind) => o.kind = q.kind
  BY <1>1, RanksDiffer
<1>4. a # b => Better(a, b) \/ Better(b, a)
  BY <1>1, <1>2, <1>3 DEF Better
<1>5. Better(a, b) /\ Better(b, c) => Better(a, c)
  BY <1>1, <1>3 DEF Better
<1> QED
  BY <1>4, <1>5

\* Among some of the observations there is a best one.
LEMMA BestIsThere ==
    ASSUME NEW all, IsBatch(all), NEW some \in SUBSET Sighted(all), some # {}
    PROVE  Best(some) \in some /\ \A q \in some \ {Best(some)} : Better(Best(some), q)
<1> DEFINE N == Len(all)
           Some(m) == {o \in some : \E n \in 1..m : o = all[n]}
           HasBest(T) == T # {} => \E o \in T : \A q \in T \ {o} : Better(o, q)
           S == {m \in 0..N : HasBest(Some(m))}
<1>0. N \in Nat /\ Valid(all) \subseteq 1..N
  BY DEF IsBatch, Valid
<1>1. 0 \in S
  BY <1>0
<1>2. ASSUME NEW m \in 0..N, m < N, m \in S PROVE m + 1 \in S
  <2> DEFINE new == all[m + 1]
  <2>0. m + 1 \in 0..N
    BY <1>0, <1>2
  <2>1. Some(m + 1) = IF new \in some THEN Some(m) \cup {new} ELSE Some(m)
    <3>1. \A o : (\E n \in 1..(m + 1) : o = all[n]) <=> ((\E n \in 1..m : o = all[n]) \/ o = new)
      <4>1. 1..(m + 1) = 1..m \cup {m + 1}
        BY <1>2
      <4> QED
        BY <4>1
    <3> QED
      BY <3>1
  <2>2. Some(m) \in SUBSET Sighted(all) /\ Some(m) \subseteq some
    OBVIOUS
  <2>3. HasBest(Some(m))
    BY <1>2
  <2> DEFINE old == Some(m)
             next == Some(m + 1)
  <2> HIDE DEF Some, new
  <2>4. CASE new \notin some
    BY <2>0, <2>1, <2>3, <2>4
  <2>5. CASE new \in some /\ (old = {} \/ new \in old)
    <3>1. next = {new} \/ next = old
      BY <2>1, <2>5
    <3>2. HasBest(next)
      BY <2>3, <3>1
    <3> QED
      BY <2>0, <3>2
  <2>6. CASE new \in some /\ old # {} /\ new \notin old
    <3>1. PICK o \in old : \A q \in old \ {o} : Better(o, q)
      BY <2>3, <2>6
    <3>2. next = old \cup {new}
      BY <2>1, <2>6
    <3>3. new \in Sighted(all) /\ old \subseteq Sighted(all)
      BY <2>2, <2>6
    <3>4. Better(o, new) \/ Better(new, o)
      BY <2>6, <3>1, <3>3, BetterIsOrder
    <3>5. CASE Better(o, new)
      <4>1. \A q \in next \ {o} : Better(o, q)
        BY <3>1, <3>2, <3>5
      <4> QED
        BY <2>0, <3>2, <4>1
    <3>6. CASE Better(new, o)
      <4>1. \A q \in old : Better(new, q)
        BY <3>1, <3>3, <3>6, BetterIsOrder
      <4>2. \A q \in next \ {new} : Better(new, q)
        BY <3>2, <4>1
      <4> QED
        BY <2>0, <3>2, <4>2
    <3> QED
      BY <3>4, <3>5, <3>6
  <2> QED
    BY <2>4, <2>5, <2>6
<1>3. Some(N) = some
  BY <1>0 DEF Sighted
<1> HIDE DEF S, N, Some
<1>4. N \in S
  <2>1. \A i \in 0..N : i < N /\ i \in S => i + 1 \in S
    BY <1>2
  <2>2. N \in Nat /\ N \in 0..N
    BY <1>0
  <2>3. \A i \in 0..N : i \in S
    BY <1>1, <2>1, <2>2, ReachesAll, Zenon
  <2> QED
    BY <2>2, <2>3
<1>5. \E o \in some : \A q \in some \ {o} : Better(o, q)
  BY <1>3, <1>4 DEF S
<1> QED
  BY <1>5 DEF Best

\* The observations of a batch with the IDs of some of them are these.
LEMMA IdsTell ==
    ASSUME NEW all, IsBatch(all), NEW some \in SUBSET Sighted(all)
    PROVE  {o \in ToSet(all) : o.id \in {p.id : p \in some}} = some
BY DEF IsBatch, Sighted, Valid, ToSet

\* A vacancy is a set of observations tied to each other, with its accounts.
LEMMA VacancyIs ==
    ASSUME NEW all, IsBatch(all), NEW v
    PROVE  v \in Vacancies(all) <=>
             \E o \in Sighted(all) :
               v = [job |-> Canonical(Tied(o, all)), accounts |-> AccountsOf(all, Canonical(Tied(o, all)))]
<1>1. Merged(all) = {Tied(o, all) : o \in Sighted(all)}
  BY MergedAreTied
<1> DEFINE Of(m) == [job |-> Canonical(m), accounts |-> AccountsOf(all, Canonical(m))]
<1>2. Vacancies(all) = {Of(m) : m \in Merged(all)}
  BY DEF Vacancies
<1> HIDE DEF Of
<1>3. v \in Vacancies(all) <=> \E o \in Sighted(all) : v = Of(Tied(o, all))
  BY <1>1, <1>2
<1> QED
  BY <1>3 DEF Of

\* It is named by the best of them.
LEMMA NamedByBest ==
    ASSUME NEW all, IsBatch(all), NEW o \in Sighted(all)
    PROVE  LET T == Tied(o, all)
           IN /\ Best(T) \in T /\ \A q \in T \ {Best(T)} : Better(Best(T), q)
              /\ Canonical(T).members = {p.id : p \in T}
              /\ Canonical(T).selected = Best(T).id
              /\ Canonical(T).id = PostingKey(Best(T))
              /\ Canonical(T).seen = {p.source : p \in T}
<1> DEFINE T == Tied(o, all)
<1>1. T \in SUBSET Sighted(all) /\ T # {}
  BY TiedIsShared
<1> HIDE DEF T
<1>2. Best(T) \in T /\ \A q \in T \ {Best(T)} : Better(Best(T), q)
  BY <1>1, BestIsThere
<1>3. /\ Canonical(T).members = {p.id : p \in T}
      /\ Canonical(T).selected = Best(T).id
      /\ Canonical(T).id = PostingKey(Best(T))
      /\ Canonical(T).seen = {p.source : p \in T}
  BY DEF Canonical, Identity
<1> QED
  BY <1>2, <1>3 DEF T

\* The first promise: the members of a vacancy are those tied to each other,
\* and the best of them speaks.
LEMMA VacanciesSpeak ==
    ASSUME NEW all, IsBatch(all)
    PROVE  /\ {v.job.members : v \in Vacancies(all)} = {{b.id : b \in Tied(o, all)} : o \in Sighted(all)}
           /\ \A v \in Vacancies(all) :
                \E best \in {o \in ToSet(all) : o.id \in v.job.members} :
                  /\ best.id = v.job.selected
                  /\ \A o \in {o \in ToSet(all) : o.id \in v.job.members} \ {best} : Better(best, o)
                  /\ v.job.seen = {o.source : o \in {o \in ToSet(all) : o.id \in v.job.members}}
<1> DEFINE Of(o) == [job |-> Canonical(Tied(o, all)),
                     accounts |-> AccountsOf(all, Canonical(Tied(o, all)))]
           Ids(o) == {b.id : b \in Tied(o, all)}
<1>1. \A v : v \in Vacancies(all) <=> \E o \in Sighted(all) : v = Of(o)
  BY VacancyIs
<1>2. \A o \in Sighted(all) : Of(o).job.members = Ids(o)
  BY NamedByBest
<1>3. {v.job.members : v \in Vacancies(all)} = {Ids(o) : o \in Sighted(all)}
  <2> HIDE DEF Of, Ids
  <2> QED
    BY <1>1, <1>2
<1>4. ASSUME NEW v \in Vacancies(all)
      PROVE  LET members == {o \in ToSet(all) : o.id \in v.job.members}
             IN \E best \in members :
                  /\ best.id = v.job.selected
                  /\ \A o \in members \ {best} : Better(best, o)
                  /\ v.job.seen = {o.source : o \in members}
  <2>1. PICK o \in Sighted(all) : v = Of(o)
    BY <1>1
  <2> DEFINE T == Tied(o, all)
             members == {q \in ToSet(all) : q.id \in v.job.members}
  <2>2. v.job = Canonical(T)
    BY <2>1
  <2>3. /\ Best(T) \in T /\ \A q \in T \ {Best(T)} : Better(Best(T), q)
        /\ v.job.members = {p.id : p \in T} /\ v.job.selected = Best(T).id
        /\ v.job.seen = {p.source : p \in T}
    BY <2>2, NamedByBest
  <2>4. T \in SUBSET Sighted(all)
    BY TiedIsShared
  <2>5. members = T
    BY <2>3, <2>4, IdsTell
  <2> HIDE DEF T, members
  <2>6. \E best \in members :
          /\ best.id = v.job.selected
          /\ \A q \in members \ {best} : Better(best, q)
          /\ v.job.seen = {q.source : q \in members}
    BY <2>3, <2>5
  <2> QED
    BY <2>6 DEF members
<1> QED
  BY <1>3, <1>4

\* The second: whoever shares a name shares everything.
LEMMA NamesDiffer ==
    ASSUME NEW all, IsBatch(all), NEW v \in Vacancies(all), NEW w \in Vacancies(all),
           v.job.id = w.job.id \/ v.job.selected = w.job.selected
    PROVE  v = w
<1>1. PICK o \in Sighted(all) :
        v = [job |-> Canonical(Tied(o, all)), accounts |-> AccountsOf(all, Canonical(Tied(o, all)))]
  BY VacancyIs
<1>2. PICK p \in Sighted(all) :
        w = [job |-> Canonical(Tied(p, all)), accounts |-> AccountsOf(all, Canonical(Tied(p, all)))]
  BY VacancyIs
<1> DEFINE a == Best(Tied(o, all))
           b == Best(Tied(p, all))
<1>3. a \in Tied(o, all) /\ v.job.id = PostingKey(a) /\ v.job.selected = a.id
  BY <1>1, NamedByBest
<1>4. b \in Tied(p, all) /\ w.job.id = PostingKey(b) /\ w.job.selected = b.id
  BY <1>2, NamedByBest
<1> HIDE DEF a, b
<1>5. a \in Sighted(all) /\ b \in Sighted(all)
  BY <1>3, <1>4, TiedIsShared
<1>6. a.id = b.id => a = b
  BY <1>5 DEF Sighted, Valid, IsBatch
<1>7. Link(a, b)
  BY <1>3, <1>4, <1>6 DEF Link
<1>8. b \in Tied(o, all)
  BY <1>3, <1>5, <1>7, TiedIsShared DEF LinkClosed
<1>9. Tied(o, all) = Tied(p, all)
  BY <1>4, <1>8, TiedIsShared
<1> QED
  BY <1>1, <1>2, <1>9

\* Only what a provider sent fails to be read.
IsLabelled(all) ==
    \A n \in DOMAIN all : /\ all[n].origin \in {"discovery", "hydration", "account_state"}
                          /\ all[n].origin # "discovery" => all[n].usable

\* The third: the ledger balances.  What is left of the batch when failed and
\* account states are taken away are the members of the vacancies.
LEMMA LedgerBalances ==
    ASSUME NEW all, IsBatch(all), IsLabelled(all)
    PROVE  LedgerOf(all, Count(all, "discovery"))
<1> DEFINE N == Len(all)
           D == {n \in DOMAIN all : all[n].origin = "discovery"}
           H == {n \in DOMAIN all : all[n].origin = "hydration"}
           A == {n \in DOMAIN all : all[n].origin = "account_state"}
           F == {n \in DOMAIN all : ~all[n].usable}
           V == Valid(all)
           vacancies == Vacancies(all)
           members == UNION {v.job.members : v \in vacancies}
<1>1. DOMAIN all = 1..N /\ N \in Nat
  BY DEF IsBatch
<1>2. IsFiniteSet(1..N) /\ Cardinality(1..N) = N
  <2> HIDE DEF N
  <2>1. 1 \in Int /\ N \in Int /\ N \in Nat
    BY <1>1
  <2>2. IsFiniteSet(1..N) /\ Cardinality(1..N) = IF 1 > N THEN 0 ELSE N - 1 + 1
    BY <2>1, FS_Interval
  <2> QED
    BY <2>1, <2>2
<1>3. /\ D \in SUBSET (1..N) /\ H \in SUBSET (1..N) /\ A \in SUBSET (1..N)
      /\ F \in SUBSET (1..N) /\ V \in SUBSET (1..N)
  BY <1>1 DEF Valid
<1>4. /\ (D \cup H) \cup A = 1..N /\ D \cap H = {} /\ (D \cup H) \cap A = {}
      /\ F \cup V = D \cup H /\ F \cap V = {}
  BY <1>1 DEF IsLabelled, Valid
<1>5. members = {all[n].id : n \in V}
  <2>1. {v.job.members : v \in vacancies} = {{b.id : b \in Tied(o, all)} : o \in Sighted(all)}
    BY VacanciesSpeak
  <2>2. members = UNION {{b.id : b \in Tied(o, all)} : o \in Sighted(all)}
    BY <2>1
  <2>3. \A o \in Sighted(all) : o \in Tied(o, all) /\ Tied(o, all) \subseteq Sighted(all)
    BY TiedIsShared
  <2> HIDE DEF members
  <2>4. members = {o.id : o \in Sighted(all)}
    BY <2>2, <2>3
  <2> QED
    BY <2>4 DEF Sighted
<1>6. IsFiniteSet(members) /\ Cardinality(members) = Cardinality(V)
  <2> DEFINE f == [n \in V |-> all[n].id]
  <2>1. f \in Bijection(V, members)
    <3>1. \A n, k \in V : f[n] = f[k] => n = k
      BY <1>1, <1>3 DEF IsBatch
    <3>2. f \in [V -> members] /\ \A m \in members : \E n \in V : f[n] = m
      BY <1>5
    <3> HIDE DEF members, V, f
    <3> QED
      BY <3>1, <3>2 DEF Bijection, Injection, Surjection, IsInjective
  <2>2. IsFiniteSet(V)
    BY <1>2, <1>3, FS_Subset
  <2> HIDE DEF members, V, f
  <2> QED
    BY <2>1, <2>2, FS_Bijection DEF ExistsBijection
<1>7. Cardinality(vacancies) <= Cardinality(members)
  <2> DEFINE f == [v \in vacancies |-> v.job.selected]
  <2>1. \A v \in vacancies : f[v] \in members
    <3> SUFFICES ASSUME NEW v \in vacancies PROVE v.job.selected \in members
      OBVIOUS
    <3>1. \E best \in {o \in ToSet(all) : o.id \in v.job.members} : best.id = v.job.selected
      BY VacanciesSpeak
    <3> QED
      BY <3>1
  <2>2. \A v, w \in vacancies : f[v] = f[w] => v = w
    BY NamesDiffer
  <2>3. f \in [vacancies -> members]
    BY <2>1
  <2> HIDE DEF vacancies, members, f
  <2>4. f \in Injection(vacancies, members)
    BY <2>2, <2>3 DEF Injection, IsInjective
  <2> QED
    BY <1>6, <2>4, FS_Injection
<1> HIDE DEF D, H, A, F, V
<1>8. /\ IsFiniteSet(D) /\ IsFiniteSet(H) /\ IsFiniteSet(A) /\ IsFiniteSet(F) /\ IsFiniteSet(V)
  BY <1>2, <1>3, FS_Subset
<1>9. /\ Cardinality(D) \in Nat /\ Cardinality(H) \in Nat /\ Cardinality(A) \in Nat
      /\ Cardinality(F) \in Nat /\ Cardinality(V) \in Nat
  BY <1>8, FS_CardinalityType
<1>16. Cardinality({}) = 0
  BY FS_EmptySet
<1>17. /\ Cardinality(D \cap H) = 0 /\ Cardinality((D \cup H) \cap A) = 0
       /\ Cardinality(F \cap V) = 0 /\ Cardinality((D \cup H) \cup A) = N
       /\ Cardinality(F \cup V) = Cardinality(D \cup H)
  BY <1>2, <1>4, <1>16, Zenon
<1>10. Cardinality(D \cup H) = Cardinality(D) + Cardinality(H) /\ IsFiniteSet(D \cup H)
  <2>1. /\ IsFiniteSet(D \cup H)
        /\ Cardinality(D \cup H) = Cardinality(D) + Cardinality(H) - Cardinality(D \cap H)
    BY <1>8, FS_Union
  <2> QED
    BY <1>9, <1>17, <2>1
<1>11. N = Cardinality(D \cup H) + Cardinality(A)
  <2>1. Cardinality((D \cup H) \cup A) =
          Cardinality(D \cup H) + Cardinality(A) - Cardinality((D \cup H) \cap A)
    BY <1>8, <1>10, FS_Union
  <2> QED
    BY <1>9, <1>10, <1>17, <2>1
<1>12. Cardinality(F) + Cardinality(V) = Cardinality(D \cup H)
  <2>1. Cardinality(F \cup V) = Cardinality(F) + Cardinality(V) - Cardinality(F \cap V)
    BY <1>8, FS_Union
  <2> QED
    BY <1>9, <1>17, <2>1
<1>13. /\ Count(all, "discovery") = Cardinality(D) /\ Count(all, "hydration") = Cardinality(H)
       /\ Count(all, "account_state") = Cardinality(A)
  BY DEF Count, D, H, A
<1> DEFINE failed == Cardinality(F)
           normalized == N - failed - Count(all, "hydration") - Count(all, "account_state")
<1>14. /\ Count(all, "discovery") = normalized + failed
       /\ normalized + Count(all, "hydration") = Cardinality(V)
  BY <1>1, <1>9, <1>10, <1>11, <1>12, <1>13
<1>15. normalized + Count(all, "hydration") = Cardinality(members)
  BY <1>6, <1>14
<1> HIDE DEF vacancies, members
<1> QED
  BY <1>7, <1>14, <1>15 DEF LedgerOf, N, F, vacancies, members

----------------------------------------------------------------------------
(* The run.  A discovery batch holds every provider record once; pages and *)
(* account states are appended behind it, under IDs of their own.          *)

\* What a provider's records become.
Sightings(release) == {Observation(release, i) : i \in DOMAIN Offered}

\* A batch of these, none twice.
IsFirst(b, release) ==
    /\ b \in Seq(Sightings(release))
    /\ \A n, k \in DOMAIN b : b[n].id = b[k].id => n = k

\* A batch grown out of another: it begins with it, and has every account state.
GrownFrom(all, b) ==
    /\ IsBatch(all) /\ IsLabelled(all)
    /\ DOMAIN b \subseteq DOMAIN all /\ \A k \in DOMAIN b : all[k] = b[k]
    /\ \A i \in DOMAIN AccountReports : \E n \in DOMAIN all : all[n] = Report(i)

\* A run knows what it evaluated.
CatalogueInv ==
    /\ catalogue = [release |-> catalogue.release, batch |-> catalogue.batch,
                    pages |-> catalogue.pages, passes |-> catalogue.passes,
                    first |-> catalogue.first, second |-> catalogue.second]
    /\ catalogue.pages \in SUBSET DOMAIN Originals /\ catalogue.passes \in 0..2
    /\ catalogue.passes < 2 => IsFirst(catalogue.batch, catalogue.release)
    /\ catalogue.passes = 1 => catalogue.first = Vacancies(catalogue.batch)
    /\ catalogue.passes = 2 =>
         \E b : /\ IsFirst(b, catalogue.release) /\ catalogue.first = Vacancies(b)
                /\ GrownFrom(catalogue.batch, b)
                /\ catalogue.second = Vacancies(catalogue.batch)

\* A provider's record becomes a sighting that joins nothing.
LEMMA SightingIs ==
    ASSUME NEW release, NEW o \in Sightings(release)
    PROVE  /\ o.id \in 1..Len(Offered) /\ o.origin = "discovery"
           /\ o.length \in Nat /\ o.paid \in BOOLEAN /\ o.kind \in {Kinds[i] : i \in 1..7}
           /\ ~Joins(o)
<1>1. PICK i \in DOMAIN Offered : o = Observation(release, i)
  BY DEF Sightings
<1>2. /\ o.id = i /\ o.origin = "discovery" /\ o.length = Offered[i].length
      /\ o.paid = Offered[i].paid /\ o.kind = SourceKind(release, Offered[i])
  BY <1>1 DEF Observation
<1>3. SourceKind(release, Offered[i]) \in {Kinds[n] : n \in 1..7}
  <2>1. {"content_farm", "unknown", "aggregator_unresolved", "reputable_board",
         "email_offer", "original_ats", "original_employer"} = {Kinds[n] : n \in 1..7}
    BY DEF Kinds
  <2>2. SourceKind(release, Offered[i]) \in
          {"content_farm", "unknown", "aggregator_unresolved", "reputable_board",
           "email_offer", "original_ats", "original_employer"}
    BY DEF SourceKind
  <2> QED
    BY <2>1, <2>2
<1>4. i \in 1..Len(Offered) /\ Offered[i].length \in Nat /\ Offered[i].paid \in BOOLEAN
  BY InputsAreFinite, InputsAreRecords
<1> QED
  BY <1>2, <1>3, <1>4 DEF Joins

\* A page and an account state have what an observation has, and IDs after the records'.
LEMMA AddedIs ==
    /\ \A i \in DOMAIN Originals :
         /\ Page(i).id = Len(Offered) + i /\ Page(i).origin = "hydration" /\ Page(i).usable
         /\ Page(i).length \in Nat /\ Page(i).paid \in BOOLEAN
         /\ Page(i).kind \in {Kinds[n] : n \in 1..7}
    /\ \A i \in DOMAIN AccountReports :
         /\ Report(i).id = Len(Offered) + Len(Originals) + i
         /\ Report(i).origin = "account_state" /\ Report(i).usable
         /\ Report(i).parents = AccountReports[i].parents
         /\ Report(i).length \in Nat /\ Report(i).paid \in BOOLEAN
         /\ Report(i).kind \in {Kinds[n] : n \in 1..7}
<1>1. ASSUME NEW i \in DOMAIN Originals
      PROVE  /\ Page(i).id = Len(Offered) + i /\ Page(i).origin = "hydration" /\ Page(i).usable
             /\ Page(i).length = Originals[i].length /\ Page(i).paid = Originals[i].paid
             /\ Page(i).kind = Originals[i].kind
  BY DEF Page
<1>2. 1 \in DOMAIN Originals
  BY InputsAreFinite
<1>3. ASSUME NEW i \in DOMAIN AccountReports
      PROVE  /\ Report(i).id = Len(Offered) + Len(Originals) + i
             /\ Report(i).origin = "account_state" /\ Report(i).usable = Page(1).usable
             /\ Report(i).parents = AccountReports[i].parents
             /\ Report(i).length = Page(1).length /\ Report(i).paid = Page(1).paid
             /\ Report(i).kind = Page(1).kind
  BY DEF Report, Page
<1> QED
  BY <1>1, <1>2, <1>3, InputsAreRecords

\* A first batch is one the grouping is right about.
LEMMA FirstIsBatch ==
    ASSUME NEW release, NEW b, IsFirst(b, release)
    PROVE  /\ IsBatch(b) /\ IsLabelled(b)
           /\ \A k \in DOMAIN b : b[k] \in Sightings(release)
<1>1. /\ Len(b) \in Nat /\ DOMAIN b = 1..Len(b)
      /\ \A k \in DOMAIN b : b[k] \in Sightings(release)
  BY DEF IsFirst
<1>2. \A k \in DOMAIN b :
        /\ b[k].id \in 1..Len(Offered) /\ b[k].origin = "discovery"
        /\ b[k].length \in Nat /\ b[k].paid \in BOOLEAN /\ b[k].kind \in {Kinds[i] : i \in 1..7}
  BY <1>1, SightingIs
<1>3. Len(Offered) \in Nat
  BY InputsAreFinite
<1>4. IsLabelled(b)
  BY <1>2 DEF IsLabelled
<1>5. IsBatch(b)
  <2>1. \A k \in DOMAIN b : b[k].id \in Nat
    BY <1>2, <1>3
  <2> QED
    BY <1>1, <1>2, <2>1 DEF IsBatch, IsFirst
<1> QED
  BY <1>1, <1>4, <1>5

\* Numbers in a row.
LEMMA RowOfSome ==
    ASSUME NEW S, IsFiniteSet(S)
    PROVE  /\ Cardinality(S) \in Nat /\ SetToSeq(S) \in [1..Cardinality(S) -> S]
           /\ \A i, j \in 1..Cardinality(S) : SetToSeq(S)[i] = SetToSeq(S)[j] => i = j
<1> DEFINE N == Cardinality(S)
           line == SetToSeq(S)
<1>1. N \in Nat /\ ExistsBijection(1..N, S)
  BY FS_CardinalityType
<1>2. line = CHOOSE f \in [1..N -> S] : IsInjective(f)
  BY DEF SetToSeq
<1>3. \E f \in [1..N -> S] : IsInjective(f)
  BY <1>1 DEF ExistsBijection, Bijection, Injection
<1>4. line \in [1..N -> S] /\ IsInjective(line)
  <2> HIDE DEF line, N
  <2> QED
    BY <1>2, <1>3
<1> HIDE DEF line, N
<1>5. \A i, j \in 1..N : line[i] = line[j] => i = j
  BY <1>4 DEF IsInjective
<1> QED
  BY <1>1, <1>4, <1>5 DEF line, N

\* Appending leaves the batch in front and the IDs apart.
LEMMA AppendedGrows ==
    ASSUME IsFirst(catalogue.batch, catalogue.release), catalogue.pages \in SUBSET DOMAIN Originals
    PROVE  GrownFrom(Appended, catalogue.batch)
<1> DEFINE b == catalogue.batch
           P == Cardinality(catalogue.pages)
           row == SetToSeq(catalogue.pages)
           extra == [k \in 1..P |-> Page(row[k])]
           reports == [k \in DOMAIN AccountReports |-> Report(k)]
           R == Len(AccountReports)
           O == Len(Offered)
           G == Len(Originals)
           All == Sightings(catalogue.release) \cup {Page(i) : i \in DOMAIN Originals}
                    \cup {Report(i) : i \in DOMAIN AccountReports}
           B == Len(b)
           front == b \o extra
           all == Appended
<1>1. /\ O \in Nat /\ G \in Nat /\ R \in Nat /\ DOMAIN AccountReports = 1..R
      /\ DOMAIN Originals = 1..G
  BY InputsAreFinite
<1>2. /\ P \in Nat /\ row \in [1..P -> catalogue.pages]
      /\ \A i, j \in 1..P : row[i] = row[j] => i = j
  <2>1. IsFiniteSet(1..G)
    BY <1>1, FS_Interval
  <2>2. IsFiniteSet(catalogue.pages)
    BY <1>1, <2>1, FS_Subset
  <2> QED
    BY <2>2, RowOfSome
<1>3. \A k \in 1..P : row[k] \in 1..G
  BY <1>1, <1>2
<1>4. b \in Seq(All) /\ B \in Nat /\ DOMAIN b = 1..B
  BY DEF IsFirst
<1>5. extra \in Seq(All) /\ Len(extra) = P /\ \A k \in 1..P : extra[k] = Page(row[k])
  <2>1. extra \in [1..P -> All]
    BY <1>1, <1>3
  <2> HIDE DEF All, extra
  <2>2. extra \in Seq(All) /\ Len(extra) = P
    BY <1>2, <2>1
  <2> QED
    BY <2>2 DEF extra
<1>6. reports \in Seq(All) /\ Len(reports) = R /\ \A k \in 1..R : reports[k] = Report(k)
  <2>1. reports \in [1..R -> All]
    BY <1>1
  <2> HIDE DEF All, reports
  <2>2. reports \in Seq(All) /\ Len(reports) = R
    BY <1>1, <2>1
  <2> QED
    BY <1>1, <2>2 DEF reports
<1>7. all = front \o reports
  BY DEF Appended
<1> HIDE DEF All, b, extra, reports, all, P, R, O, G, B, row
<1>8. /\ front \in Seq(All) /\ Len(front) = B + P
      /\ \A k \in 1..(B + P) : front[k] = IF k <= B THEN b[k] ELSE extra[k - B]
  BY <1>2, <1>4, <1>5 DEF B
<1> HIDE DEF front
<1>9. /\ all \in Seq(All) /\ Len(all) = B + P + R /\ DOMAIN all = 1..(B + P + R)
      /\ \A k \in 1..(B + P + R) :
           all[k] = IF k <= B + P THEN front[k] ELSE reports[k - (B + P)]
  <2> DEFINE L == Len(front)
             M == Len(reports)
  <2>1. L = B + P /\ M = R
    BY <1>6, <1>8
  <2>2. /\ front \o reports \in Seq(All) /\ Len(front \o reports) = L + M
        /\ \A k \in 1..(L + M) :
             (front \o reports)[k] = IF k <= L THEN front[k] ELSE reports[k - L]
    BY <1>6, <1>8, ConcatProperties
  <2>3. /\ all \in Seq(All) /\ Len(all) = L + M
        /\ \A k \in 1..(L + M) : all[k] = IF k <= L THEN front[k] ELSE reports[k - L]
    BY <1>7, <2>2, Zenon
  <2>4. DOMAIN all = 1..Len(all)
    BY <2>3
  <2> HIDE DEF L, M
  <2> QED
    BY <2>1, <2>3, <2>4, Zenon
<1>10. ASSUME NEW k \in 1..(B + P + R)
       PROVE  \/ k \in 1..B /\ all[k] = b[k]
              \/ \E i \in 1..P : k = B + i /\ all[k] = Page(row[i])
              \/ \E i \in 1..R : k = B + P + i /\ all[k] = Report(i)
  <2>1. CASE k <= B
    BY <1>1, <1>2, <1>4, <1>8, <1>9, <2>1
  <2>2. CASE B < k /\ k <= B + P
    <3>1. k - B \in 1..P /\ k = B + (k - B)
      BY <1>1, <1>2, <1>4, <2>2
    <3>2. all[k] = extra[k - B]
      BY <1>1, <1>2, <1>4, <1>8, <1>9, <2>2
    <3> QED
      BY <1>5, <3>1, <3>2
  <2>3. CASE B + P < k
    <3>1. k - (B + P) \in 1..R /\ k = B + P + (k - (B + P))
      BY <1>1, <1>2, <1>4, <2>3
    <3>2. all[k] = reports[k - (B + P)]
      BY <1>1, <1>2, <1>4, <1>9, <2>3
    <3> QED
      BY <1>6, <3>1, <3>2
  <2> QED
    BY <1>1, <1>2, <1>4, <2>1, <2>2, <2>3
<1>11. /\ IsBatch(b)
       /\ \A k \in 1..B : /\ b[k].id \in 1..O /\ b[k].origin = "discovery"
                          /\ b[k] \in Sightings(catalogue.release)
  <2>1. IsBatch(b) /\ \A k \in DOMAIN b : b[k] \in Sightings(catalogue.release)
    BY FirstIsBatch DEF b
  <2>2. \A k \in DOMAIN b : b[k].id \in 1..O /\ b[k].origin = "discovery"
    BY <2>1, SightingIs DEF O
  <2> QED
    BY <1>4, <2>1, <2>2
<1>12. \A i \in 1..P : /\ Page(row[i]).id = O + row[i] /\ row[i] \in 1..G
                       /\ Page(row[i]).origin = "hydration" /\ Page(row[i]).usable
                       /\ Page(row[i]).length \in Nat /\ Page(row[i]).paid \in BOOLEAN
                       /\ Page(row[i]).kind \in {Kinds[n] : n \in 1..7}
  BY <1>1, <1>3, AddedIs DEF O
<1>13. \A i \in 1..R : /\ Report(i).id = O + G + i
                       /\ Report(i).origin = "account_state" /\ Report(i).usable
                       /\ Report(i).length \in Nat /\ Report(i).paid \in BOOLEAN
                       /\ Report(i).kind \in {Kinds[n] : n \in 1..7}
  BY <1>1, AddedIs DEF O, G
<1>14. \A k \in DOMAIN all :
         /\ all[k].id \in Nat /\ all[k].length \in Nat /\ all[k].paid \in BOOLEAN
         /\ all[k].kind \in {Kinds[i] : i \in 1..7}
         /\ all[k].origin \in {"discovery", "hydration", "account_state"}
         /\ all[k].origin # "discovery" => all[k].usable
  <2> SUFFICES ASSUME NEW k \in 1..(B + P + R)
               PROVE  /\ all[k].id \in Nat /\ all[k].length \in Nat /\ all[k].paid \in BOOLEAN
                      /\ all[k].kind \in {Kinds[i] : i \in 1..7}
                      /\ all[k].origin \in {"discovery", "hydration", "account_state"}
                      /\ all[k].origin # "discovery" => all[k].usable
    BY <1>9
  <2>1. CASE k \in 1..B /\ all[k] = b[k]
    BY <1>4, <1>11, <2>1 DEF IsBatch
  <2>2. CASE \E i \in 1..P : k = B + i /\ all[k] = Page(row[i])
    BY <1>1, <1>12, <2>2
  <2>3. CASE \E i \in 1..R : k = B + P + i /\ all[k] = Report(i)
    BY <1>1, <1>13, <2>3
  <2> QED
    BY <1>10, <2>1, <2>2, <2>3
<1>15. \A n, k \in DOMAIN all : all[n].id = all[k].id => n = k
  <2> SUFFICES ASSUME NEW n \in 1..(B + P + R), NEW k \in 1..(B + P + R), all[n].id = all[k].id
               PROVE  n = k
    BY <1>9
  <2> DEFINE Discovered(j) == j \in 1..B /\ all[j].id \in 1..O /\ all[j] = b[j]
             Fetched(j) == \E i \in 1..P : j = B + i /\ row[i] \in 1..G /\ all[j].id = O + row[i]
             Reported(j) == \E i \in 1..R : j = B + P + i /\ all[j].id = O + G + i
  <2>1. \A j \in {n, k} : Discovered(j) \/ Fetched(j) \/ Reported(j)
    BY <1>10, <1>11, <1>12, <1>13
  <2>2. \A j \in {n, k} : /\ Discovered(j) => all[j].id \in 1..O
                          /\ Fetched(j) => all[j].id \in (O + 1)..(O + G)
                          /\ Reported(j) => all[j].id \in Nat /\ all[j].id > O + G
    BY <1>1
  <2>3. CASE Discovered(n) /\ Discovered(k)
    BY <1>4, <1>11, <2>3 DEF IsBatch
  <2>4. CASE Fetched(n) /\ Fetched(k)
    <3>1. PICK i \in 1..P : n = B + i /\ row[i] \in 1..G /\ all[n].id = O + row[i]
      BY <2>4
    <3>2. PICK j \in 1..P : k = B + j /\ row[j] \in 1..G /\ all[k].id = O + row[j]
      BY <2>4
    <3>3. row[i] = row[j]
      BY <1>1, <3>1, <3>2
    <3> QED
      BY <1>2, <3>1, <3>2, <3>3
  <2>5. CASE Reported(n) /\ Reported(k)
    BY <1>1, <2>5
  <2> HIDE DEF Discovered, Fetched, Reported
  <2> QED
    BY <1>1, <2>1, <2>2, <2>3, <2>4, <2>5
<1>16. IsBatch(all) /\ IsLabelled(all)
  <2>1. Len(all) \in Nat /\ DOMAIN all = 1..Len(all)
    BY <1>1, <1>2, <1>4, <1>9
  <2> QED
    BY <1>14, <1>15, <2>1 DEF IsBatch, IsLabelled
<1>17. DOMAIN b \subseteq DOMAIN all /\ \A k \in DOMAIN b : all[k] = b[k]
  BY <1>1, <1>2, <1>4, <1>8, <1>9
<1>18. ASSUME NEW i \in 1..R PROVE \E n \in DOMAIN all : all[n] = Report(i)
  <2>1. B + P + i \in 1..(B + P + R) /\ ~(B + P + i <= B + P) /\ (B + P + i) - (B + P) = i
    BY <1>1, <1>2, <1>4
  <2>2. all[B + P + i] = reports[i]
    BY <1>9, <2>1
  <2> QED
    BY <1>6, <1>9, <2>1, <2>2
<1> QED
  BY <1>1, <1>16, <1>17, <1>18 DEF GrownFrom, all, b

\* Before a run evaluates anything its batch is a first batch.
LEMMA CatalogueInitInv == CatalogueInit => CatalogueInv
<1> SUFFICES ASSUME CatalogueInit PROVE CatalogueInv
  OBVIOUS
<1>1. PICK release \in {"v42", "v5"}, order \in SetToSeqs(DOMAIN Offered),
           extra \in SUBSET DOMAIN Originals :
        catalogue = [release |-> release, batch |-> Batch(order, release), pages |-> extra,
                     passes |-> 0, first |-> {}, second |-> {}]
  BY DEF CatalogueInit
<1> DEFINE C == Cardinality(DOMAIN Offered)
           b == Batch(order, release)
<1>2. IsFiniteSet(DOMAIN Offered) /\ C \in Nat
  <2>1. DOMAIN Offered = 1..Len(Offered) /\ Len(Offered) \in Nat
    BY InputsAreFinite
  <2>2. IsFiniteSet(1..Len(Offered))
    BY <2>1, FS_Interval
  <2> QED
    BY <2>1, <2>2, FS_CardinalityType
<1>3. /\ order \in [1..C -> DOMAIN Offered]
      /\ \A i, j \in 1..C : order[i] = order[j] => i = j
  BY DEF SetToSeqs
<1>4. b \in Seq(Sightings(release)) /\ DOMAIN b = 1..C /\ \A k \in 1..C : b[k].id = order[k]
  <2> HIDE DEF C
  <2>1. b = [k \in 1..C |-> Observation(release, order[k])]
    BY <1>3 DEF Batch
  <2>2. \A k \in 1..C : b[k] \in Sightings(release) /\ b[k].id = order[k]
    <3>1. \A i : Observation(release, i).id = i
      BY DEF Observation
    <3>2. \A k \in 1..C : b[k] = Observation(release, order[k]) /\ order[k] \in DOMAIN Offered
      BY <1>3, <2>1
    <3> HIDE DEF b
    <3> QED
      BY <3>1, <3>2 DEF Sightings
  <2> DEFINE All == Sightings(release)
  <2> HIDE DEF b, All
  <2>3. b \in [1..C -> All]
    BY <2>1, <2>2 DEF All
  <2>4. b \in Seq(All)
    BY <1>2, <2>3
  <2> QED
    BY <2>2, <2>3, <2>4 DEF All
<1>5. IsFirst(b, release)
  <2> HIDE DEF b, C
  <2> QED
    BY <1>3, <1>4 DEF IsFirst
<1> HIDE DEF b
<1>6. /\ catalogue.release = release /\ catalogue.batch = b /\ catalogue.pages = extra
      /\ catalogue.passes = 0
  BY <1>1 DEF b
<1>7. catalogue = [release |-> catalogue.release, batch |-> catalogue.batch,
                   pages |-> catalogue.pages, passes |-> catalogue.passes,
                   first |-> catalogue.first, second |-> catalogue.second]
  BY <1>1
<1> QED
  BY <1>5, <1>6, <1>7 DEF CatalogueInv

\* An evaluation keeps what it evaluated.
LEMMA CatalogueStep == CatalogueInv /\ [CatalogueNext]_catalogue => CatalogueInv'
<1> SUFFICES ASSUME CatalogueInv, [CatalogueNext]_catalogue PROVE CatalogueInv'
  OBVIOUS
<1>1. CASE EvaluateBatch
  <2>1. /\ catalogue.passes = 0
        /\ catalogue' = [release |-> catalogue.release, batch |-> catalogue.batch,
                         pages |-> catalogue.pages, passes |-> 1,
                         first |-> Vacancies(catalogue.batch), second |-> catalogue.second]
    BY <1>1 DEF EvaluateBatch, CatalogueInv
  <2>2. IsFirst(catalogue.batch, catalogue.release) /\ catalogue.pages \in SUBSET DOMAIN Originals
    BY <2>1 DEF CatalogueInv
  <2>3. /\ catalogue'.release = catalogue.release /\ catalogue'.batch = catalogue.batch
        /\ catalogue'.pages = catalogue.pages /\ catalogue'.passes = 1
        /\ catalogue'.first = Vacancies(catalogue.batch)
    BY <2>1
  <2>4. catalogue' = [release |-> catalogue'.release, batch |-> catalogue'.batch,
                      pages |-> catalogue'.pages, passes |-> catalogue'.passes,
                      first |-> catalogue'.first, second |-> catalogue'.second]
    BY <2>1
  <2> QED
    BY <2>2, <2>3, <2>4 DEF CatalogueInv
<1>2. CASE EvaluateAgain
  <2>1. /\ catalogue.passes = 1
        /\ catalogue' = [release |-> catalogue.release, batch |-> Appended,
                         pages |-> catalogue.pages, passes |-> 2,
                         first |-> catalogue.first, second |-> Vacancies(Appended)]
    BY <1>2 DEF EvaluateAgain, CatalogueInv
  <2>2. /\ IsFirst(catalogue.batch, catalogue.release) /\ catalogue.pages \in SUBSET DOMAIN Originals
        /\ catalogue.first = Vacancies(catalogue.batch)
    BY <2>1 DEF CatalogueInv
  <2>3. GrownFrom(Appended, catalogue.batch)
    BY <2>2, AppendedGrows
  <2>4. /\ catalogue'.release = catalogue.release /\ catalogue'.batch = Appended
        /\ catalogue'.pages = catalogue.pages /\ catalogue'.passes = 2
        /\ catalogue'.first = catalogue.first /\ catalogue'.second = Vacancies(Appended)
    BY <2>1
  <2>5. catalogue' = [release |-> catalogue'.release, batch |-> catalogue'.batch,
                      pages |-> catalogue'.pages, passes |-> catalogue'.passes,
                      first |-> catalogue'.first, second |-> catalogue'.second]
    BY <2>1
  <2> QED
    BY <2>2, <2>3, <2>4, <2>5 DEF CatalogueInv
<1>3. CASE UNCHANGED catalogue
  BY <1>3 DEF CatalogueInv
<1> QED
  BY <1>1, <1>2, <1>3 DEF CatalogueNext

\* The batch that was evaluated last, and what came of it.
LEMMA LatestIs ==
    ASSUME CatalogueInv, catalogue.passes > 0
    PROVE  /\ IsBatch(catalogue.batch) /\ IsLabelled(catalogue.batch)
           /\ Latest = Vacancies(catalogue.batch)
<1>1. catalogue.passes \in 1..2
  BY DEF CatalogueInv
<1>2. CASE catalogue.passes = 1
  <2>1. IsFirst(catalogue.batch, catalogue.release) /\ catalogue.first = Vacancies(catalogue.batch)
    BY <1>2 DEF CatalogueInv
  <2>2. Latest = catalogue.first
    BY <1>2 DEF Latest
  <2> QED
    BY <2>1, <2>2, FirstIsBatch
<1>3. CASE catalogue.passes = 2
  <2>1. IsBatch(catalogue.batch) /\ IsLabelled(catalogue.batch)
    BY <1>3 DEF CatalogueInv, GrownFrom
  <2>2. catalogue.second = Vacancies(catalogue.batch)
    BY <1>3 DEF CatalogueInv
  <2>3. Latest = catalogue.second
    BY <1>3 DEF Latest
  <2> QED
    BY <2>1, <2>2, <2>3
<1> QED
  BY <1>1, <1>2, <1>3

\* In a batch grown out of another, a vacancy that no accepted original is a
\* member of is the old one under the old name.
LEMMA NamesAreKept ==
    ASSUME NEW release, NEW b, IsFirst(b, release), NEW all, GrownFrom(all, b),
           NEW v \in Vacancies(b), NEW w \in Vacancies(all),
           v.job.members \intersect w.job.members # {},
           ~ \E o \in ToSet(all) : o.id \in w.job.members /\ Joins(o)
    PROVE  v.job.id = w.job.id
<1>0. IsBatch(b) /\ IsBatch(all) /\ Sighted(b) \subseteq Sighted(all) /\ Sighted(all) \subseteq ToSet(all)
  BY FirstIsBatch DEF GrownFrom, Sighted, Valid, ToSet
<1>1. PICK o \in Sighted(b) : v.job = Canonical(Tied(o, b))
  BY <1>0, VacancyIs
<1>2. PICK p \in Sighted(all) : w.job = Canonical(Tied(p, all))
  BY <1>0, VacancyIs
<1> DEFINE T == Tied(o, b)
           U == Tied(p, all)
<1>3. /\ T \in SUBSET Sighted(b) /\ LinkClosed(T, b) /\ Best(T) \in T
      /\ v.job.members = {q.id : q \in T} /\ v.job.id = PostingKey(Best(T))
  BY <1>0, <1>1, TiedIsShared, NamedByBest
<1>4. /\ U \in SUBSET Sighted(all) /\ LinkClosed(U, all) /\ Best(U) \in U
      /\ w.job.members = {q.id : q \in U} /\ w.job.id = PostingKey(Best(U))
  BY <1>0, <1>2, TiedIsShared, NamedByBest
<1>5. PICK q \in T, r \in U : q.id = r.id
  <2> HIDE DEF T, U
  <2> QED
    BY <1>3, <1>4
<1>6. q = r /\ q \in Sighted(b) /\ q \in Sighted(all)
  <2>1. q \in Sighted(all) /\ r \in Sighted(all) /\ q \in Sighted(b)
    BY <1>0, <1>3, <1>4, <1>5
  <2> QED
    BY <1>0, <1>5, <2>1 DEF IsBatch, Sighted, Valid
<1>7. Tied(q, b) = T /\ Tied(q, all) = U
  BY <1>5, <1>6, TiedIsShared
<1> DEFINE K == {x \in Sighted(b) : PostingKey(x) = PostingKey(q)}
           W == {x \in U : PostingKey(x) = PostingKey(q)}
<1>8. LinkClosed(K, b)
  <2>1. \A x \in Sighted(b) : ~Joins(x)
    BY FirstIsBatch, SightingIs DEF Sighted, Valid
  <2> QED
    BY <2>1 DEF LinkClosed, Link
<1>9. LinkClosed(W, all)
  <2>1. \A x \in U : ~Joins(x)
    BY <1>0, <1>4
  <2> HIDE DEF U
  <2> SUFFICES ASSUME NEW x \in W, NEW y \in Sighted(all), Link(x, y) PROVE y \in W
    BY DEF LinkClosed
  <2>2. y \in U
    BY <1>4 DEF LinkClosed
  <2> QED
    BY <2>1, <2>2 DEF Link
<1>10. T \subseteq K
  <2>1. q \in K /\ K \in SUBSET Sighted(b)
    BY <1>6
  <2> HIDE DEF K
  <2>2. \A x \in Tied(q, b) : x \in K
    BY <1>8, <2>1 DEF Tied
  <2> QED
    BY <1>7, <2>2
<1>11. U \subseteq W
  <2>1. q \in W /\ W \in SUBSET Sighted(all)
    BY <1>4, <1>5, <1>6
  <2> HIDE DEF W
  <2>2. \A x \in Tied(q, all) : x \in W
    BY <1>9, <2>1 DEF Tied
  <2> QED
    BY <1>7, <2>2
<1> HIDE DEF T, U
<1> QED
  BY <1>3, <1>4, <1>10, <1>11

\* What a run knows of its vacancies makes them sound.
LEMMA InvSound == CatalogueInv => VacanciesAreSound
<1> SUFFICES ASSUME CatalogueInv PROVE VacanciesAreSound
  OBVIOUS
<1> DEFINE all == catalogue.batch
<1>1. VacanciesIgnoreOrder
  <2> SUFFICES ASSUME catalogue.passes > 0 PROVE VacanciesIgnoreOrder
    BY DEF VacanciesIgnoreOrder
  <2>1. IsBatch(all) /\ IsLabelled(all) /\ Latest = Vacancies(all)
    BY LatestIs
  <2>2. LedgerOf(all, Count(all, "discovery"))
    BY <2>1, LedgerBalances
  <2>3. {v.job.members : v \in Latest} = {{b.id : b \in Tied(o, all)} : o \in Sighted(all)}
    BY <2>1, VacanciesSpeak
  <2>4. \A v \in Latest :
          \E best \in {o \in ToSet(all) : o.id \in v.job.members} :
            /\ best.id = v.job.selected
            /\ \A o \in {o \in ToSet(all) : o.id \in v.job.members} \ {best} : Better(best, o)
            /\ v.job.seen = {o.source : o \in {o \in ToSet(all) : o.id \in v.job.members}}
    BY <2>1, VacanciesSpeak
  <2> QED
    BY <2>2, <2>3, <2>4 DEF VacanciesIgnoreOrder
<1>2. IdsNameVacancies
  <2>1. ASSUME catalogue.passes > 0, NEW v \in Latest, NEW w \in Latest, v.job.id = w.job.id
        PROVE  v = w
    BY <2>1, LatestIs, NamesDiffer
  <2>2. ASSUME catalogue.passes = 2, NEW k \in DOMAIN AccountReports, NEW v \in catalogue.second,
               AccountReports[k].parents \intersect v.job.members # {}
        PROVE  Report(k).id \in v.accounts
    <3>1. /\ IsBatch(all) /\ v \in Vacancies(all)
          /\ \E n \in DOMAIN all : all[n] = Report(k)
      BY <2>2 DEF CatalogueInv, GrownFrom
    <3>2. v.accounts = AccountsOf(all, v.job)
      BY <3>1, VacancyIs
    <3>3. Report(k).origin = "account_state" /\ Report(k).parents = AccountReports[k].parents
      BY AddedIs
    <3> QED
      BY <2>2, <3>1, <3>2, <3>3 DEF AccountsOf
  <2>3. ASSUME catalogue.passes = 2, NEW v \in catalogue.first, NEW w \in catalogue.second,
               v.job.members \intersect w.job.members # {}
        PROVE  \/ v.job.id = w.job.id
               \/ \E o \in ToSet(all) : o.id \in w.job.members /\ Joins(o)
    <3>1. PICK b : /\ IsFirst(b, catalogue.release) /\ v \in Vacancies(b)
                   /\ GrownFrom(all, b) /\ w \in Vacancies(all)
      BY <2>3 DEF CatalogueInv
    <3> QED
      BY <2>3, <3>1, NamesAreKept
  <2> QED
    BY <2>1, <2>2, <2>3 DEF IdsNameVacancies
<1> QED
  BY <1>1, <1>2 DEF VacanciesAreSound

\* Whatever was observed, in whatever order and batches: the observations of a
\* vacancy are those a chain of links ties and no more, the best of them speaks
\* for it, none is lost, no two vacancies have one ID, and an ID changes only
\* where an accepted original joined.
THEOREM VacanciesSound == CatalogueSpec => []VacanciesAreSound
<1>1. CatalogueSpec => []CatalogueInv
  BY CatalogueInitInv, CatalogueStep, PTL DEF CatalogueSpec
<1> QED
  BY <1>1, InvSound, PTL
=============================================================================
