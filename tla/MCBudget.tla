------------------------------- MODULE MCBudget -------------------------------
(***************************************************************************)
(* Small instances of RequestBudget: two tasks at one host, of one run or  *)
(* of two that overlap, without a source plan; and two tasks of one run    *)
(* with a plan of two routes that share a category.                        *)
(***************************************************************************)
EXTENDS RequestBudget, TLC

CONSTANTS t1, t2, rA, rB, known, pilot, jobs, h1, a0, a1

\* Two routes of one category, at one host.
Modes == known :> "core" @@ pilot :> "pilot"
OneCategory == [s \in Sources |-> jobs]
AtOneHost == [s \in Sources |-> h1]
PlanCeiling == [inspection |-> 5, search |-> 5]
RouteCeilings == [s \in Sources |-> [inspection |-> 2, search |-> 1]]
CategoryCeilings == [c \in {jobs} |-> [inspection |-> 1, search |-> 1]]
RouteSends == [s \in Sources |-> IF s = pilot THEN 1 ELSE 2]
CategorySends == [c \in {jobs} |-> 1]

TwoCalls == [r \in Runs |-> IF r = rA THEN 2 ELSE 1]

\* One run, or one run for each task; no credentials, or an account for one.
OneRun == {[t \in Tasks |-> rA]}
OneRunOrTwo == OneRun \cup {t1 :> rA @@ t2 :> rB}
At(a) == [host |-> h1, account |-> a]
NoAccount == {[t \in Tasks |-> At(a0)]}
AccountOrNot == NoAccount \cup {t1 :> At(a0) @@ t2 :> At(a1)}

SameTasks == Permutations(Tasks)
=============================================================================
