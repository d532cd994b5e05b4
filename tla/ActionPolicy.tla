---------------------------- MODULE ActionPolicy ----------------------------
(***************************************************************************)
(* What JobHound advises for one posting: the action policy of V5.5        *)
(* (v41/action_policy.py with the work, deadline and payout rules) and the *)
(* decision of v41/engine.py.  An assessment passes through a dozen rules  *)
(* that overwrite each other's answer; the order below is theirs.          *)
(* Evidence is what the rules tell apart: a date is its side of the limit  *)
(* it is compared with, a text the fact that was read from it.             *)
(***************************************************************************)
EXTENDS WorkspaceFiles, FiniteSets, FiniteSetsExt

CONSTANTS
  MaxChanges    \* bound: pieces of evidence that differ from the first capture

(* No value is no reason, and nothing a report says.                       *)
ASSUME NoneIsNoWord ==
  None \notin {"stale_unresolved_copy", "undated_copy_verification_exhausted",
               "verification_exhausted", "known_account_block",
               "account_block_recheck_due", "application_already_submitted",
               "assessment_already_completed", "captured_application_deadline_elapsed",
               "matching_source_explicitly_closed", "pool_not_allocated_work",
               "historical_buyer_request", "withdrawn", "submitted", "paid", "invalid",
               "elapsed", "short"}

(* The values each piece of evidence may take, the first capture's among   *)
(* them.  The reported_ fields are the scoped outcome projection.          *)
Evidence == [
  vetoes    |-> {{}, {"location"}, {"pay_below_floor"}},  \* blockers of _assess
  qualified |-> BOOLEAN,          \* the requirements were read and are met
  listing   |-> {"job", "non_job", "pool"},
  text      |-> {"original", "copy", None},  \* the full text, from a matching source
  vacancy   |-> {"open", "stale", "unseen", "closed"},
  route     |-> BOOLEAN,          \* an application route was seen
  doubt     |-> BOOLEAN,          \* an unresolved requirement
  payConflict |-> BOOLEAN,
  deadline  |-> {None, "elapsed", "short"},
  age       |-> {"fresh", "old", "undated"},
  failed    |-> {None, "some", "all"},  \* automatic checks, for longer than the watch age
  thread    |-> {None, "buyer", "past", "changed", "unpaid", "locked", "invalid"},
  market    |-> BOOLEAN,          \* a bid marketplace
  cost      |-> {None, "approved", "unapproved"},
  account   |-> {None, "blocked", "barred", "applied", "rejected", "assessed",
                 "invited", "pending", "allocated"},
  current   |-> BOOLEAN,          \* the account evidence has not expired
  private   |-> BOOLEAN,          \* an account-specific platform
  payout    |-> {None, "unmet"},  \* the payout minimum of the pay's source
  hold      |-> BOOLEAN,          \* the outcome binding is ambiguous
  reportedApplication |-> {None, "submitted", "rejected", "withdrawn"},
  reportedAccess |-> {None, "blocked", "accessible"},
  reportedStep |-> {None, "invited", "unready", "completed", "unselected", "unstated"},
  reportedReply |-> {None, "substantive"},
  reportedWork |-> {None, "unselected", "submitted", "paid", "allocated", "missing"},
  reportedSetup |-> {None, "pending", "completed"},
  disputed  |-> BOOLEAN,          \* the projection holds a conflict
  reportsFresh |-> BOOLEAN,
  due       |-> {None, "unknown", "elapsed", "infeasible", "urgent"}]

FirstCaptures == {
  [f \in DOMAIN Evidence |->
     CASE f = "vetoes" -> {} [] f = "listing" -> "job" [] f = "vacancy" -> vacancy
       [] f = "age" -> "fresh" [] f = "text" -> "original"
       [] f \in {"qualified", "route", "current", "reportsFresh"} -> TRUE
       [] f \in {"doubt", "payConflict", "market", "private", "hold", "disputed"} -> FALSE
       [] OTHER -> None] : vacancy \in {"open", "unseen"}}

VARIABLES
  evidence,    \* what is known of the posting
  assessment,  \* what the policy made of it
  decision,    \* the band it is shown in
  suspected    \* the language model called it a scam after the assessment

policyVars == <<evidence, assessment, decision, suspected>>

----------------------------------------------------------------------------
(* What the evidence amounts to.                                           *)
Reports(e) == \E f \in {"reportedApplication", "reportedAccess", "reportedStep",
  "reportedReply", "reportedWork", "reportedSetup"} : e[f] # None

(* compatibility_state: a report fills the account state, or disputes it.  *)
Disputes(e) ==
  \/ /\ e.account \in {"applied", "rejected"} /\ e.reportedApplication # None
     /\ e.reportedApplication # (IF e.account = "applied" THEN "submitted" ELSE "rejected")
  \/ /\ e.account \in {"assessed", "pending"}
     /\ e.reportedStep \in {"invited", "unready", "completed"}
     /\ (e.account = "assessed") # (e.reportedStep = "completed")
  \/ e.account = "blocked" /\ e.reportedAccess = "accessible"
  \/ e.account = "allocated" /\ e.reportedAccess = "blocked"

Application(e) ==
  IF e.account \in {"applied", "rejected"} THEN e.account
  ELSE IF e.reportedApplication = "submitted" THEN "applied" ELSE e.reportedApplication

Blocked(e) ==
  \/ e.account \in {"blocked", "barred"} \/ Application(e) = "rejected"
  \/ (e.reportedAccess = "blocked" /\ e.account # "allocated")

Assessed(e) ==
  e.account = "assessed" \/ (e.reportedStep = "completed" /\ e.account # "pending")

Confirmed(e) ==
  e.account = "allocated" \/ (e.reportedAccess = "accessible" /\ e.account # "blocked")

Affordable(e) == e.cost = "approved" \/ (e.cost = None /\ ~e.market)

Closed(e) == e.vacancy = "closed"

(* Checks that matter for a new application only.                          *)
NewOnly == {"current_open_status", "application_route"}
ClosedOnly == {"explicitly_closed", "application_deadline_elapsed"}

If(condition, x) == IF condition THEN {x} ELSE {}

----------------------------------------------------------------------------
(* The opening of apply_action_policy: blockers, lifecycle and tasks.      *)
Blockers(e) ==
  e.vetoes \union If(suspected, "scam_threshold")
  \union If(e.listing = "non_job", "non_opportunity")
  \union If(e.thread = "invalid", "thread_evidence_invalid")
  \union If(Closed(e), "explicitly_closed")
  \union If(e.deadline = "elapsed", "application_deadline_elapsed")
  \union If(e.deadline = "short", "deadline_infeasible")

(* The last rule that applies sets the lifecycle.                          *)
Reason(e) ==
  IF e.age = "old" /\ e.text # "original" THEN "stale_unresolved_copy"
  ELSE IF e.age = "undated" /\ e.text # "original" /\ e.failed # None
  THEN "undated_copy_verification_exhausted"
  ELSE IF e.age # "fresh" /\ e.failed = "all" THEN "verification_exhausted"
  ELSE IF Blocked(e)
  THEN IF e.current THEN "known_account_block" ELSE "account_block_recheck_due"
  ELSE IF Application(e) = "applied" THEN "application_already_submitted"
  ELSE IF Assessed(e) THEN "assessment_already_completed"
  ELSE IF e.deadline = "elapsed" THEN "captured_application_deadline_elapsed"
  ELSE IF Closed(e) THEN "matching_source_explicitly_closed"
  ELSE IF e.listing = "pool" THEN "pool_not_allocated_work"
  ELSE IF e.thread = "past" THEN "historical_buyer_request"
  ELSE None

Lifecycle(reason) ==
  IF reason = None THEN "active"
  ELSE IF reason \in {"captured_application_deadline_elapsed", "matching_source_explicitly_closed"}
  THEN "closed" ELSE "watch"

Tasks(e) ==
  If(e.text = None, "full_matching_requirements")
  \union If(e.vacancy # "open", "current_open_status")
  \union If(~e.route, "application_route")
  \union If(e.doubt, "requirement_unverified") \union If(e.payConflict, "pay_conflict")
  \union If(Blocked(e) \/ (e.private /\ ~Confirmed(e)), "project_access")
  \union If(e.market /\ e.cost = None, "bid_cost_scope_competition")
  \union If(~Affordable(e) /\ ~(e.market /\ e.cost = None), "onboarding_cost")
  \union If(e.thread = "changed", "community_scope_revision")
  \union If(e.thread = "locked", "community_contact_route")

Opening(e) ==
  [blockers |-> Blockers(e), reason |-> Reason(e), lifecycle |-> Lifecycle(Reason(e)),
   eligibility |-> IF e.vetoes # {} \/ suspected THEN "failed"
                   ELSE IF e.qualified THEN "passed" ELSE "unknown",
   tasks |-> Tasks(e), readiness |-> None, next |-> None, plan |-> None]

Answer(a, readiness, next) == [a EXCEPT !.readiness = readiness, !.next = next]
Shelve(a, lifecycle, reason) == [a EXCEPT !.lifecycle = lifecycle, !.reason = reason]
Asking(a, task) == Answer([a EXCEPT !.tasks = @ \union {task}], "verification_needed", "verify")

(* The first answer: allocated work, an invitation, a pending assessment,  *)
(* an application, or verification.                                        *)
FirstAnswer(e, a) ==
  LET open == a.eligibility = "passed" /\ ~Blocked(e) /\ e.current /\ a.tasks \subseteq NewOnly IN
  IF e.account = "allocated" /\ open THEN
         Answer([a EXCEPT !.tasks = {}], "allocated", "start_allocated_task")
  ELSE IF e.account = "invited" /\ open /\ Affordable(e) THEN
         Answer([a EXCEPT !.tasks = {}], "captured_next_step", "respond_to_invitation")
  ELSE IF e.account = "pending" /\ open /\ Affordable(e) THEN
         Answer([a EXCEPT !.tasks = {}], "captured_next_step", "complete_known_step")
  ELSE
         IF a.tasks = {} /\ a.lifecycle = "active" THEN Answer(a, "application_ready", "apply")
         ELSE Answer(a, "verification_needed", "verify")

ThreadDoubts(e, a) ==
  IF e.thread = "unpaid" /\ a.next \in {"apply", "verify"} THEN Asking(a, "community_paid_scope")
  ELSE IF e.thread = "changed" /\ a.next \in {"apply", "verify"}
  THEN Answer(a, "verification_needed", "verify") ELSE a

Waiting(a) ==
  IF a.lifecycle = "active" THEN a
  ELSE Answer(a, "watch",
    IF a.reason = "historical_buyer_request" THEN "await_change"
    ELSE IF a.reason \in {"application_already_submitted", "assessment_already_completed"}
    THEN "await_response"
    ELSE IF a.tasks = {} THEN "await_change" ELSE a.next)

----------------------------------------------------------------------------
(* apply_reviewed_work_action: claims about existing work own the answer.  *)
Finish(a, next, ready, readOnly) ==
  [Answer(a, IF ready THEN "allocated" ELSE "verification_needed", next) EXCEPT
     !.lifecycle = IF ready THEN "active" ELSE "watch", !.reason = "reviewed_existing_work",
     !.plan = [next |-> next, readOnly |-> readOnly]]

ExistingWork(e, a) ==
  IF e.reportedWork = "unselected"
  THEN Finish([a EXCEPT !.tasks = @ \union {"current_work_selection"}], "verify", FALSE, FALSE)
  ELSE IF e.reportedWork \in {"submitted", "paid"}
  THEN Finish([a EXCEPT !.tasks = If(e.disputed, "work_conflict")
                                  \union If(~e.reportsFresh, "work_evidence")],
              IF e.reportedWork = "paid" THEN "reconcile_payment_status" ELSE "await_response",
              FALSE, TRUE)
  ELSE LET tasks == (a.tasks \ (NewOnly \union
                       {"project_access", "onboarding_cost", "bid_cost_scope_competition"}))
             \union If(e.disputed \/ Disputes(e), "work_conflict")
             \union If(e.reportedApplication \in {"rejected", "withdrawn"}, "work_attempt_authority")
             \union If(Blocked(e), "work_account_restriction")
             \union If(e.reportedWork = "missing" \/ ~e.reportsFresh, "work_prerequisites")
             \union If(a.eligibility # "passed" \/ a.blockers \ ClosedOnly # {}, "work_suitability")
       IN IF tasks = {} THEN Finish([a EXCEPT !.tasks = {}], "start_allocated_task", TRUE, FALSE)
          ELSE Finish([a EXCEPT !.tasks = tasks], "verify", FALSE, FALSE)

(* existing_work_action_allowed.                                           *)
WorkAllowed(e, a) ==
  /\ a.plan # None /\ ~e.hold /\ e.reportedWork # "unselected" /\ a.next = a.plan.next
  /\ IF a.plan.readOnly THEN a.next \in {"reconcile_payment_status", "await_response"}
     ELSE /\ a.next = "start_allocated_task" /\ a.eligibility = "passed"
          /\ a.blockers \subseteq ClosedOnly

(* apply_reviewed_outcome_action, in its order.                            *)
Reported(e, a) ==
  IF ~Reports(e) THEN a
  ELSE IF e.reportedWork # None THEN ExistingWork(e, a)
  ELSE IF e.disputed \/ Disputes(e)
  THEN Answer([Shelve(a, "watch", "outcome_conflict") EXCEPT !.tasks = @ \union {"outcome_conflict"}],
              "watch", "verify")
  ELSE IF e.reportedApplication \in {"rejected", "withdrawn"}
  THEN Answer([Shelve(a, "closed", "exact_application_closed") EXCEPT !.tasks = {}],
              "watch", "await_change")
  ELSE IF e.reportedAccess = "blocked"
  THEN Answer(Shelve(a, "watch", "known_account_block"), "watch", "verify")
  ELSE IF e.reportedStep = "completed"
  THEN Answer([Shelve(a, "watch", "assessment_already_completed") EXCEPT !.tasks = {}],
              "watch", "await_response")
  ELSE IF a.blockers # {} \/ e.account = "barred" \/ a.reason = "known_account_block" THEN a
  ELSE IF e.reportedStep = "unselected"
  THEN Asking(Shelve(a, "watch", "assessment_step_not_selected"), "current_assessment_step")
  ELSE IF e.reportedStep = "unstated"
  THEN Asking(Shelve(a, "active", "assessment_step_state_unknown"), "assessment_step_state")
  ELSE IF e.reportedReply # None
  THEN IF e.reportsFresh
       THEN Answer([Shelve(a, "active", "current_buyer_reply") EXCEPT !.tasks = @ \ NewOnly],
                   "captured_next_step", "clarify_scope")
       ELSE Answer(Shelve(a, "watch", "buyer_update_needs_recheck"), "watch", "await_change")
  ELSE IF e.reportedStep \in {"invited", "unready"}
  THEN LET b == Shelve(a, "active", "existing_assessment_invitation") IN
       IF a.eligibility # "passed" \/ a.tasks \ NewOnly # {}
       THEN Answer(b, "verification_needed", "verify")
       ELSE IF e.reportedStep = "unready" \/ ~e.reportsFresh THEN Asking(b, "assessment_prerequisites")
       ELSE Answer([b EXCEPT !.tasks = {}], "captured_next_step", "complete_known_step")
  ELSE IF e.reportedAccess = "accessible" /\ ~e.reportsFresh
  THEN Answer([Shelve(a, "watch", "access_evidence_stale") EXCEPT !.tasks = @ \union {"project_access"}],
              "watch", "verify")
  ELSE IF e.reportedSetup = None THEN a
  ELSE IF e.reportedSetup = "completed" /\ e.reportsFresh
  THEN Answer([Shelve(a, "watch", "setup_checklist_completed") EXCEPT !.tasks = {}],
              "watch", "await_response")
  ELSE Asking(Shelve(a, "active", "setup_checklist_needs_review"), "setup_checklist")

----------------------------------------------------------------------------
(* What follows the reports.                                               *)
Held4Binding(e, a) == IF e.hold THEN Asking(a, "active_outcome_attempt") ELSE a

ClosedAgain(e, a) ==
  IF Closed(e) /\ a.lifecycle # "closed" /\ ~WorkAllowed(e, a)
  THEN [Shelve(a, "closed", "matching_source_explicitly_closed") EXCEPT
          !.readiness = "watch", !.tasks = {}]
  ELSE a

(* apply_action_constraints: an unproved due time asks for verification.   *)
DueTime(e, a) ==
  IF \/ e.hold \/ a.lifecycle = "closed" \/ e.due \in {None, "urgent"}
     \/ a.next \in {"await_response", "await_change", "reconcile_payment_status"}
     \/ e.reportedWork \in {None, "unselected"} /\ e.reportedStep \in {None, "unselected"}
  THEN a
  ELSE Asking(Shelve(a, IF e.due = "elapsed" THEN "watch" ELSE "active", "action_deadline"),
              "action_deadline")

(* finalize_rejected_action, and the plan's view of the result.            *)
Finalized(e, a) ==
  LET b == IF a.blockers = {} THEN a
           ELSE IF WorkAllowed(e, a)
           THEN IF a.plan.readOnly THEN [a EXCEPT !.eligibility = "failed"] ELSE a
           ELSE [Answer(a, IF a.lifecycle = "closed" THEN "closed" ELSE "blocked", "skip")
                   EXCEPT !.eligibility = "failed"]
  IN IF b.plan = None THEN b
     ELSE [b EXCEPT !.plan = [next |-> b.next, readOnly |->
             b.plan.readOnly /\ b.next \in {"reconcile_payment_status", "await_response"}]]

(* Fault: only an application or a check waits for the payout minimum.     *)
PayoutMinimumOfApplications(e, a) ==
  IF \/ e.payout = None \/ a.lifecycle = "closed" \/ a.blockers # {}
     \/ a.next \notin {"apply", "verify"}
  THEN a
  ELSE LET b == Asking(a, "payout_feasibility")
       IN IF b.plan = None THEN b ELSE [b EXCEPT !.plan = [next |-> "verify", readOnly |-> FALSE]]

(* apply_payout_constraints runs after the policy and its finalization.    *)
PayoutMinimum(e, a) ==
  IF \/ e.payout = None \/ a.lifecycle = "closed" \/ a.blockers # {}
     \/ a.next \notin {"apply", "verify", "complete_known_step", "start_allocated_task"}
  THEN a
  ELSE LET b == Asking(a, "payout_feasibility")
       IN IF b.plan = None THEN b ELSE [b EXCEPT !.plan = [next |-> "verify", readOnly |-> FALSE]]

Assess(e) ==
  LET a == Reported(e, Waiting(ThreadDoubts(e, FirstAnswer(e, Opening(e)))))
  IN PayoutMinimum(e, Finalized(e, DueTime(e, ClosedAgain(e, Held4Binding(e, a)))))

----------------------------------------------------------------------------
(* _decision: the band, and the last word of a blocker.                    *)
Rejected(e, a) == a.blockers # {} /\ ~WorkAllowed(e, a)

Ready(e, a) ==
  /\ a.eligibility = "passed" /\ a.lifecycle = "active" /\ a.tasks = {}
  /\ a.readiness \in {"application_ready", "allocated", "captured_next_step"}
  /\ ~e.payConflict

Band(e, a) == IF Rejected(e, a) THEN "REJECT" ELSE IF Ready(e, a) THEN "PRIMARY" ELSE "VERIFY"

Decided(e, a) ==
  /\ assessment' = IF Rejected(e, a) THEN Finalized(e, a) ELSE a
  /\ decision' = Band(e, a)

PolicyInit ==
  /\ evidence \in FirstCaptures
  /\ suspected = FALSE
  /\ assessment = Assess(evidence)
  /\ decision = Band(evidence, Assess(evidence))

(* New evidence (hydration, an account check, a reported outcome, the      *)
(* passing of a limit) and the reassessment of the posting.                *)
Changes(e) ==
  Min({Cardinality({f \in DOMAIN Evidence : e[f] # first[f]}) : first \in FirstCaptures})

Learn ==
  /\ \E f \in DOMAIN Evidence : \E v \in Evidence[f] \ {evidence[f]} :
       LET e == [evidence EXCEPT ![f] = v] IN
       /\ Changes(e) <= MaxChanges
       /\ evidence' = e
       /\ Decided(e, Assess(e))
  /\ UNCHANGED suspected

(* refine_scam_with_llm adds its veto to the assessment as it stands.      *)
Suspect ==
  /\ ~suspected /\ "scam_threshold" \notin assessment.blockers
  /\ suspected' = TRUE
  /\ Decided(evidence, [assessment EXCEPT !.blockers = @ \union {"scam_threshold"}])
  /\ UNCHANGED evidence

PolicyNext == Learn \/ Suspect

PolicySpec == PolicyInit /\ [][PolicyNext]_policyVars

----------------------------------------------------------------------------
(* A PRIMARY card is never shown on evidence that contradicts it, through  *)
(* whichever of the rules it became ready: none of its facts is a veto, a  *)
(* doubt or a conflict; an application is to an open posting that was read *)
(* in full and not yet applied to; allocated work was confirmed.           *)
ReadyMeansChecked ==
  LET e == evidence  next == assessment.next IN
  decision = "PRIMARY" =>
    /\ e.vetoes = {} /\ ~suspected /\ e.qualified /\ e.listing # "non_job"
    /\ ~e.hold /\ ~e.payConflict /\ ~e.doubt /\ e.text # None
    /\ (next \in {"apply", "complete_known_step"} => e.payout = None)
    /\ (next = "start_allocated_task" /\ assessment.blockers = {} => e.payout = None)
    /\ next = "apply" =>
         /\ e.vacancy = "open" /\ e.route /\ e.deadline = None
         /\ ~Blocked(e) /\ Application(e) \notin {"applied", "withdrawn"} /\ ~Assessed(e)
         /\ e.thread \in {None, "buyer"}
    /\ next = "start_allocated_task" =>
         /\ ~Blocked(e)
         /\ \/ e.account = "allocated" /\ e.current
            \/ e.reportedWork = "allocated" /\ e.reportsFresh /\ ~e.disputed
         /\ e.reportedWork \notin {"submitted", "paid"}

(* A veto has the last word, whenever it arrives: a blocked posting is     *)
(* rejected and tells the reader to skip it, unless exact existing work    *)
(* owns the answer; that one never starts work on a veto other than the    *)
(* closing of the vacancy (work_actions.py).                               *)
VetoWins ==
  LET a == assessment IN
  /\ decision = "REJECT" <=> a.next = "skip"
  /\ decision = "REJECT" => a.readiness \in {"closed", "blocked"} /\ a.eligibility = "failed"
  /\ a.blockers # {} /\ decision # "REJECT" =>
       /\ a.next \in {"start_allocated_task", "reconcile_payment_status", "await_response"}
       /\ a.next = "start_allocated_task" => a.blockers \subseteq ClosedOnly

\* The advice contradicts neither the evidence for it nor that against it.
AdviceAgrees == ReadyMeansChecked /\ VetoWins
=============================================================================
