----------------------------- MODULE RequestBudget ----------------------------
(***************************************************************************)
(* bounded_transport.py: the requests of a run share a ceiling, a deadline,*)
(* a concurrency gate and a gate per host, and are booked in a database    *)
(* that a restarted run finds again.  Runs that overlap share the database *)
(* and with it the cooldowns, but no gates.  With a source plan, a request *)
(* under an inspection is booked there as well, in the same transaction    *)
(* (SourceBudget).                                                         *)
(*                                                                         *)
(* The tasks of an event loop interleave at their awaits: waiting for a   *)
(* gate, for the provider, for the body.  What lies between two awaits is  *)
(* one step.  A redirect, or the next page, is a further request.          *)
(***************************************************************************)
EXTENDS SourceBudget, Sequences

CONSTANTS
    Tasks,
    Owners,         \* the runs the tasks may work for, [Tasks -> Runs]
    Hosts,
    SourceHost,     \* SourceHost[s]: the host of route s
    Accounts,       \* credentials a request may carry ...
    Public,         \* ... and what stands for none
    Errands,        \* the requests the tasks may make, [Tasks -> host and account]
    None,
    Cap,            \* Cap[r]: requests of run r
    Concurrency,
    Deadline,
    Delays,         \* what a host may ask to wait
    MaxTime,        \* bound of the clock
    MaxCrashes      \* bound

ASSUME BudgetAssumption ==
    /\ IsFiniteSet(Tasks)
    /\ Owners \subseteq [Tasks -> Runs]
    /\ Errands \subseteq [Tasks -> [host: Hosts, account: Accounts]]
    /\ SourceHost \in [Sources -> Hosts]
    /\ Public \in Accounts
    /\ None \notin Works \cup Accounts
    /\ Cap \in [Runs -> Nat]
    /\ Concurrency \in Nat \ {0}
    /\ Deadline \in Nat
    /\ Delays \subseteq Nat
    /\ MaxTime \in Nat
    /\ MaxCrashes \in Nat

VARIABLES
    owner,      \* owner[t]: the run t works for
    pc,         \* where each task is
    scope,      \* scope[t]: the inspection t is in, or None
    holds,      \* holds[t]: t entered it itself
    target,     \* target[t]: host and account of t's request
    attempt,    \* attempt[t]: its row in attempts, or 0
    gate,       \* gate[r]: free places of the gate of run r
    hostGate,   \* hostGate[r, h]: free places of its gate for host h
    used,       \* used[r]: runs.used
    attempts,   \* attempts, in order of their IDs
    cooldowns,  \* cooldowns[sc]: the time until which scope sc is off limits
    now,
    crashes,
    asked       \* history: the latest time a scope asked to be left alone until

vars == <<work, holders, sent, owner, pc, scope, holds, target, attempt, gate,
          hostGate, used, attempts, cooldowns, now, crashes, asked>>
loop == <<owner, pc, scope, holds, target, attempt, gate, hostGate>>
books == <<used, attempts, cooldowns>>

\* A request on its way holds the run's gate, then also its host's.
Stages == {"out", "ready", "queued", "gated", "wire", "body", "done"}
HoldsGate(t) == pc[t] \in {"gated", "wire", "body"}
HoldsHost(t) == pc[t] \in {"wire", "body"}

Targets == [host: Hosts, account: Accounts]

\* scope: the host, or the host and the credentials.
HostScope(r) == [host |-> r.host, account |-> None]
Scopes == [host: Hosts, account: Accounts \cup {None}]

Init ==
    /\ SourceInit
    /\ owner \in Owners
    /\ pc = [t \in Tasks |-> "out"]
    /\ scope = [t \in Tasks |-> None]
    /\ holds = [t \in Tasks |-> FALSE]
    /\ target \in Errands
    /\ attempt = [t \in Tasks |-> 0]
    /\ gate = [r \in Runs |-> Concurrency]
    /\ hostGate = [g \in Runs \X Hosts |-> 1]
    /\ used = [r \in Runs |-> 0]
    /\ attempts = <<>>
    /\ cooldowns = [sc \in Scopes |-> 0]
    /\ now = 0
    /\ crashes = 0
    /\ asked = [sc \in Scopes |-> 0]

-----------------------------------------------------------------------------
(* Logical work.                                                           *)

\* A task begins outside any inspection, or inside that of the task that
\* started it (it gets a copy of its context), which it may outlive ...
Begin(t) ==
    /\ pc[t] = "out"
    /\ pc' = [pc EXCEPT ![t] = "ready"]
    /\ \E u \in Tasks : /\ u = t \/ owner[u] = owner[t]
                       /\ scope' = [scope EXCEPT ![t] = scope[u]]
    /\ UNCHANGED <<sourceVars, owner, holds, target, attempt, gate, hostGate, books,
                   now, crashes, asked>>

\* ... or enters one itself.
EnterInspection(t, k) ==
    /\ pc[t] = "out"
    /\ k.kind = "inspection" /\ k.run = owner[t]
    /\ ReserveWork(k)
    /\ pc' = [pc EXCEPT ![t] = "ready"]
    /\ scope' = [scope EXCEPT ![t] = k]
    /\ holds' = [holds EXCEPT ![t] = TRUE]
    /\ UNCHANGED <<owner, target, attempt, gate, hostGate, books, now, crashes,
                   asked>>

Search(t, k) ==
    /\ pc[t] = "out"
    /\ k.kind = "search" /\ k.run = owner[t]
    /\ ReserveWork(k)
    /\ pc' = [pc EXCEPT ![t] = "ready"]
    /\ UNCHANGED <<owner, scope, holds, target, attempt, gate, hostGate, books, now,
                   crashes, asked>>

ReadCache(t) ==
    /\ pc[t] = "ready"
    /\ scope[t] # None
    /\ CachedInspection(scope[t])
    /\ pc' = [pc EXCEPT ![t] = "done"]
    /\ UNCHANGED <<owner, scope, holds, target, attempt, gate, hostGate, books, now, crashes,
                   asked>>

\* However the work ended; the task may go on to the next document.
LeaveInspection(t) ==
    /\ pc[t] \in {"ready", "done"}
    /\ holds[t]
    /\ Leave(scope[t])
    /\ scope' = [scope EXCEPT ![t] = None]
    /\ holds' = [holds EXCEPT ![t] = FALSE]
    /\ pc' = [pc EXCEPT ![t] = "out"]
    /\ UNCHANGED <<owner, target, attempt, gate, hostGate, books, now, crashes,
                   asked>>

-----------------------------------------------------------------------------
(* One request: handle_async_request and LimitedStream.                    *)

TimeLeft == now < Deadline

Ask(t) ==
    /\ pc[t] = "ready"
    /\ TimeLeft
    /\ pc' = [pc EXCEPT ![t] = "queued"]
    /\ UNCHANGED <<sourceVars, owner, scope, holds, target, attempt, gate, hostGate, books,
                   now, crashes, asked>>

TakeGate(t) ==
    /\ pc[t] = "queued"
    /\ gate[owner[t]] > 0
    /\ gate' = [gate EXCEPT ![owner[t]] = @ - 1]
    /\ pc' = [pc EXCEPT ![t] = "gated"]
    /\ UNCHANGED <<sourceVars, owner, scope, holds, target, attempt, hostGate, books, now,
                   crashes, asked>>

\* One more place in the gate of t's run.
Freed(t) == [gate EXCEPT ![owner[t]] = @ + 1]

\* The time ran out, or the task was cancelled, while it waited for a gate.
GiveUp(t) ==
    /\ \/ pc[t] = "ready" /\ ~TimeLeft
       \/ pc[t] \in {"queued", "gated"}
    /\ gate' = IF HoldsGate(t) THEN Freed(t) ELSE gate
    /\ pc' = [pc EXCEPT ![t] = "done"]
    /\ UNCHANGED <<sourceVars, owner, scope, holds, target, attempt, hostGate, books, now,
                   crashes, asked>>

\* reserve: the host, or the account there, has asked for a pause.
Cooling(r) == \E sc \in {HostScope(r), r} : cooldowns[sc] > now

\* check_http, for a request under an inspection.
Allowed(t) ==
    scope[t] # None =>
        /\ target[t] = [host |-> SourceHost[scope[t].source], account |-> Public]
        /\ CheckHttp(scope[t])

Reservable(t) ==
    /\ TimeLeft
    /\ ~Cooling(target[t])
    /\ used[owner[t]] < Cap[owner[t]]
    /\ Allowed(t)

Booked(t, a) ==
    IF scope[t] = None THEN UNCHANGED sourceVars ELSE BookSent(scope[t], a)

\* The gate of t's run for the host t asks.
HostGateOf(t) == <<owner[t], target[t].host>>

\* The host gate is free, and the request is reserved ...
Reserve(t) ==
    /\ pc[t] = "gated"
    /\ hostGate[HostGateOf(t)] > 0
    /\ Reservable(t)
    /\ used' = [used EXCEPT ![owner[t]] = @ + 1]
    /\ attempts' = Append(attempts, [run |-> owner[t], state |-> "reserved_unknown"])
    /\ attempt' = [attempt EXCEPT ![t] = Len(attempts')]
    /\ Booked(t, Len(attempts'))
    /\ hostGate' = [hostGate EXCEPT ![HostGateOf(t)] = @ - 1]
    /\ pc' = [pc EXCEPT ![t] = "wire"]
    /\ UNCHANGED <<owner, scope, holds, target, gate, cooldowns, now, crashes, asked>>

\* ... or deferred: both gates are released again, nothing is booked.
Defer(t) ==
    /\ pc[t] = "gated"
    /\ hostGate[HostGateOf(t)] > 0
    /\ ~Reservable(t)
    /\ gate' = Freed(t)
    /\ pc' = [pc EXCEPT ![t] = "done"]
    /\ UNCHANGED <<sourceVars, owner, scope, holds, target, attempt, hostGate, books, now,
                   crashes, asked>>

Statuses == {"ok", "throttled", "unavailable"}

\* cooldown: 401, 403 and 429 pause the account at the host, 503 the host.
CooldownScope(r, status) == IF status = "throttled" THEN r ELSE HostScope(r)

Later(m, n) == IF m > n THEN m ELSE n

\* Fault: the newest answer decides, however short a pause it asks for.
LatestCooldown(sc, until) == [cooldowns EXCEPT ![sc] = until]

\* The longer of two cooldowns of one scope stays.
Cooldown(sc, until) == [cooldowns EXCEPT ![sc] = Later(@, until)]

\* The head of the response is there; its body is read under the same gates.
Respond(t, status, delay) ==
    LET sc == CooldownScope(target[t], status)
    IN  /\ pc[t] = "wire"
        /\ TimeLeft
        /\ IF status = "ok" THEN UNCHANGED <<cooldowns, asked>>
           ELSE /\ cooldowns' = Cooldown(sc, now + delay)
                /\ asked' = [asked EXCEPT ![sc] = Later(@, now + delay)]
        /\ pc' = [pc EXCEPT ![t] = "body"]
        /\ UNCHANGED <<sourceVars, owner, scope, holds, target, attempt, gate, hostGate, used,
                       attempts, now, crashes>>

\* Fault: the host's gate is not released.
ReleaseOwnGateOnly(t) ==
    /\ gate' = Freed(t)
    /\ UNCHANGED hostGate

Release(t) ==
    /\ gate' = Freed(t)
    /\ hostGate' = [hostGate EXCEPT ![HostGateOf(t)] = @ + 1]

\* finish: the row of the attempt gets its outcome.
Finish(t, state) ==
    attempts' = [attempts EXCEPT ![attempt[t]].state = state]

\* The bookkeeping of an outcome may fail (disk full, locked database): the
\* attempt stays unknown, the gates are released all the same.
Ends(t, state) ==
    /\ Finish(t, state) \/ UNCHANGED attempts
    /\ Release(t)
    /\ attempt' = [attempt EXCEPT ![t] = 0]
    /\ UNCHANGED <<sourceVars, owner, scope, holds, target, used, cooldowns, now, crashes,
                   asked>>

\* The body is read to its end; the task goes on with the next request, of the
\* same inspection, or is done.
Complete(t) ==
    /\ pc[t] = "body"
    /\ TimeLeft
    /\ Ends(t, "complete")
    /\ pc' = [pc EXCEPT ![t] = "ready"]

\* A timeout, an error, a size limit, a cancellation or a failure to record
\* a cooldown; the provider may have been reached.
Interrupt(t) ==
    /\ pc[t] \in {"wire", "body"}
    /\ Ends(t, "interrupted")
    /\ pc' = [pc EXCEPT ![t] = "done"]

-----------------------------------------------------------------------------
Tick ==
    /\ now < MaxTime
    /\ now' = now + 1
    /\ UNCHANGED <<sourceVars, loop, books, crashes, asked>>

\* The process of a run dies and the run is started again under its ID: the
\* tables stay, its tasks and gates are new.
Crash(r) ==
    LET mine == {t \in Tasks : owner[t] = r}
    IN  /\ crashes < MaxCrashes
        /\ crashes' = crashes + 1
        /\ pc' = [t \in Tasks |-> IF t \in mine THEN "out" ELSE pc[t]]
        /\ scope' = [t \in Tasks |-> IF t \in mine THEN None ELSE scope[t]]
        /\ holds' = [t \in Tasks |-> t \notin mine /\ holds[t]]
        /\ attempt' = [t \in Tasks |-> IF t \in mine THEN 0 ELSE attempt[t]]
        /\ gate' = [gate EXCEPT ![r] = Concurrency]
        /\ hostGate' = [g \in Runs \X Hosts |-> IF g[1] = r THEN 1 ELSE hostGate[g]]
        /\ UNCHANGED <<sourceVars, owner, target, books, now, asked>>

RequestStep(t) ==
    \/ TakeGate(t)
    \/ Reserve(t)
    \/ Defer(t)
    \/ \E status \in Statuses, delay \in Delays : Respond(t, status, delay)
    \/ Complete(t)
    \/ Interrupt(t)

TaskStep(t) ==
    \/ Begin(t)
    \/ \E k \in Works : EnterInspection(t, k) \/ Search(t, k)
    \/ ReadCache(t)
    \/ LeaveInspection(t)
    \/ Ask(t)
    \/ GiveUp(t)
    \/ RequestStep(t)

Next == (\E t \in Tasks : TaskStep(t)) \/ Tick \/ (\E r \in Runs : Crash(r))

\* The event loop runs every task that can go on; and every provider call and
\* body ends, by itself or by the request's own timeout.
Fairness == \A t \in Tasks : WF_vars(RequestStep(t))

Spec == Init /\ [][Next]_vars /\ Fairness
-----------------------------------------------------------------------------
(* Properties.                                                             *)

\* Type correctness.
BudgetTypeOK ==
    /\ work \in [Works -> WorkStates]
    /\ holders \in [Works -> Nat]
    /\ sent \subseteq (Nat \X Works)
    /\ owner \in [Tasks -> Runs]
    /\ pc \in [Tasks -> Stages]
    /\ scope \in [Tasks -> Works \cup {None}]
    /\ holds \in [Tasks -> BOOLEAN]
    /\ target \in [Tasks -> Targets]
    /\ attempt \in [Tasks -> Nat]
    /\ gate \in [Runs -> 0..Concurrency]
    /\ hostGate \in [Runs \X Hosts -> {0, 1}]
    /\ \A r \in Runs : used[r] \in 0..Cap[r]
    /\ attempts \in Seq([run: Runs, state: {"reserved_unknown", "interrupted", "complete"}])
    /\ cooldowns \in [Scopes -> Nat]
    /\ now \in Nat
    /\ crashes \in Nat
    /\ asked \in [Scopes -> Nat]

\* A pause that a host or an account there asked for, and that could be
\* recorded, is kept by every run, also when the answers to runs that overlap
\* arrive in any order.
PausesKept ==
    [][\A t \in Tasks : pc[t] # "wire" /\ pc'[t] = "wire" =>
          asked[HostScope(target[t])] <= now /\ asked[target[t]] <= now]_vars

\* The plan's ceilings hold at all times, refunds and restarts included.
WithinCeilings ==
    \A r \in Runs, kind \in Kinds :
        /\ Cardinality(OfKind(r, kind)) <= Ceiling[kind]
        /\ Cardinality(OfPilots(r, kind)) <= Ceiling[kind] \div 5
        /\ \A s \in Sources :
             /\ Cardinality(OfSource(r, s, kind)) <= RouteCeiling[s][kind]
             /\ Cardinality(OfCategory(r, Category[s], kind))
                  <= CategoryCeiling[Category[s]][kind]

\* "Only a proven unsent reservation is returned": a document for which a
\* request was reserved stays counted, and so does the one a task is working on,
\* whoever else leaves it first.
OnlyUnsentRefunded ==
    /\ \A b \in sent : work[b[2]] = "sent_unknown"
    /\ \A t \in Tasks : holds[t] => Live(scope[t])

\* A request that waits for its gates or its answer is not stuck: it is sent,
\* deferred or fails, even if the run's deadline never comes.
Settles ==
    \A t \in Tasks : (pc[t] \in {"queued", "gated", "wire", "body"})
                      ~> (pc[t] \in {"out", "ready", "done"})
=============================================================================
