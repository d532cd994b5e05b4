--------------------------- MODULE DeliveryPromise ----------------------------
(***************************************************************************)
(* What durable delivery promises, with no queue, lease, part or process   *)
(* left: a job passes through numbered states; each state reaches a        *)
(* destination at most once and never after a newer one; and what a        *)
(* destination is recorded to have (its baseline) only moves forward, to   *)
(* something that arrived there or, once, to what V4.2 had delivered       *)
(* before the cutover.                                                     *)
(***************************************************************************)
EXTENDS Integers

CONSTANTS Streams, Dests

VARIABLES
    current,    \* current[s]: number of the newest state of s
    arrived,    \* <<s, d, n>>: state n of s reached destination d
    confirmed   \* confirmed[s, d]: the state recorded as delivered, 0 if none

promiseVars == <<current, arrived, confirmed>>

PromiseInit ==
    /\ current = [s \in Streams |-> 0]
    /\ arrived = {}
    /\ confirmed = [b \in Streams \X Dests |-> 0]

\* Some jobs change; at the cutover some destinations are credited with the
\* newest state of a job they have nothing recorded for.
Observe ==
    /\ \E S \in SUBSET Streams :
         current' = [s \in Streams |-> IF s \in S THEN current[s] + 1
                                       ELSE current[s]]
    /\ \E A \in SUBSET {b \in Streams \X Dests : confirmed[b] = 0} :
         confirmed' = [b \in Streams \X Dests |->
                         IF b \in A THEN current'[b[1]] ELSE confirmed[b]]
    /\ UNCHANGED arrived

\* States arrive: each one new to its destination, later than everything that
\* arrived or was recorded there.
Arrive ==
    /\ arrived \subseteq arrived'
    /\ \A x \in arrived' \ arrived :
         /\ x \in Streams \X Dests \X Nat
         /\ 0 < x[3] /\ x[3] <= current[x[1]]
         /\ confirmed[x[1], x[2]] < x[3]
         /\ \A y \in arrived : y[1] = x[1] /\ y[2] = x[2] => y[3] < x[3]
    /\ UNCHANGED <<current, confirmed>>

\* Arrivals are recorded; the record never moves back.
Confirm ==
    /\ \A b \in Streams \X Dests :
         \/ confirmed'[b] = confirmed[b]
         \/ /\ confirmed'[b] > confirmed[b]
            /\ <<b[1], b[2], confirmed'[b]>> \in arrived
    /\ confirmed' \in [Streams \X Dests -> Nat]
    /\ UNCHANGED <<current, arrived>>

PromiseNext == Observe \/ Arrive \/ Confirm

PromiseSpec == PromiseInit /\ [][PromiseNext]_promiseVars
=============================================================================
