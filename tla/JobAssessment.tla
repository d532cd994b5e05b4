---------------------------- MODULE JobAssessment ----------------------------
(***************************************************************************)
(* The assessment of one posting by v41/engine.py under V5.5: what the     *)
(* requirements, the pay and the other evidence of the posting amount to,  *)
(* the band it is shown in and its place in that band.  A posting is       *)
(* assessed anew after everything that is learnt of it (reassess_item).    *)
(*                                                                         *)
(* The posting is open, its text and its route were read and no account    *)
(* state is known: ActionPolicy is about those.  What a text was read as   *)
(* is a fact here; a fact is one of a few values, from best to worst.      *)
(***************************************************************************)
EXTENDS RequirementOutcomes, PayEvidence

CONSTANTS
  Demanded,     \* the sets of demands a posting may make
  Declarable,   \* the declarations the user may add
  PlatformTrusts,  \* the trusts a platform may be listed with, in hundredths
  FirstSeen,    \* the observations the posting is first known by
  MaxNews,      \* bound: what is learnt, gathered and declared
  LastDate      \* bound: the last day

ASSUME DeclarationsDated == Declarable \subseteq Declaration
ASSUME LanguagesAsked ==
  \A ds \in Demanded : \A d \in ds : d.kind = "language" => d.asked # {}
ASSUME BestTrustFirst ==
  /\ PlatformTrusts \in Seq(0..100) /\ PlatformTrusts # <<>>
  /\ \A i, j \in DOMAIN PlatformTrusts : i < j => PlatformTrusts[i] > PlatformTrusts[j]
ASSUME FirstSeenExist == FirstSeen \subseteq DOMAIN Source /\ FirstSeen # {}

VARIABLES
  learnt,    \* the facts of the posting
  gathered,  \* its observations
  demands,   \* what it demands
  declared,  \* the declarations in the user's profile
  date,     \* the day of the assessment
  verdict,   \* the assessment and the decision
  news       \* bounds the changes

assessmentVars == <<learnt, gathered, demands, declared, date, verdict, news>>

-----------------------------------------------------------------------------
(* The evidence.                                                           *)

\* The values of each fact, from best to worst.  A posting whose platform is
\* not listed has no trust of its own, which is neither better nor worse.
Ladder ==
  [scam |-> <<FALSE, TRUE>>, junk |-> <<FALSE, TRUE>>,
   place |-> <<"fits", "unstated", "conflicting", "elsewhere">>,
   seniority |-> <<"unspecified", "senior">>, trust |-> Append(PlatformTrusts, None),
   match |-> <<"strong", "medium", "weak">>, short |-> <<FALSE, TRUE>>,
   sales |-> <<FALSE, TRUE>>, generic |-> <<FALSE, TRUE>>,
   specialist |-> <<"none", "claimed", "unresolved", "unclaimed">>,
   requirements |-> <<"complete", "partial", "unknown">>, easy |-> <<TRUE, FALSE>>,
   truncated |-> <<FALSE, TRUE>>, guessed |-> <<FALSE, TRUE>>,
   age |-> <<"fresh", "aging", "undated">>]

Authority == <<"content_farm", "unknown", "aggregator_unresolved", "reputable_board",
               "email_offer", "original_ats", "original_employer">>

ASSUME KindsAreKnown == \A o \in DOMAIN Source : Source[o].kind \in Range(Authority)

\* source_actionability: of the observation that gives the posting its address.
BestKind(seen) ==
  Authority[Max({i \in DOMAIN Authority : \E o \in seen : Source[o].kind = Authority[i]})]

SourceOrder(kind) ==
  CASE kind \in FirstHand -> 6 [] kind = "reputable_board" -> 5
    [] kind = "aggregator_unresolved" -> 3 [] kind = "unknown" -> 2 [] OTHER -> 0

\* _trust, in hundredths: without a listed platform, the prior of the source
\* less a penalty for its uncertainty.  What counts for the priority is less
\* still where the platform is of low trust.
KindPrior(kind) ==
  CASE kind = "email_offer" -> 70 [] kind \in {"original_employer", "original_ats"} -> 63
    [] kind = "reputable_board" -> 54 [] kind = "aggregator_unresolved" -> 46
    [] kind = "unknown" -> 40 [] kind = "content_farm" -> 20
Trust(f, kind) ==
  IF f.trust = None THEN KindPrior(kind)
  ELSE IF f.trust < 50 THEN f.trust - 8 ELSE f.trust
BelowFloor(f) == f.trust # None /\ f.trust < 25

\* In hundredths, after two weeks for an aging posting.
Freshness(f) ==
  IF f.age = "fresh" THEN 100 ELSE IF f.age = "undated" THEN 0 ELSE IF f.easy THEN 81 ELSE 50

\* A profession or a specialism the profile does not claim.
OutsideTarget(f, met) == "required_profession" \in met.blockers \/ f.specialist = "unclaimed"

LowEvidence(f) == f.match = "weak" /\ f.short /\ ~f.sales
RoleMismatch(f, met) ==
  ~LowEvidence(f) /\ (f.match = "weak" \/ f.sales \/ f.generic \/ OutsideTarget(f, met))

-----------------------------------------------------------------------------
(* _assess.                                                                *)

\* The blockers, in the precedence of _decision.
VetoOrder == <<"scam", "source_quality", "location", "language", "credentials",
                 "seniority", "pay", "trust", "role", "low_evidence">>

Grounds(f, kind, pay, met) ==
  [scam |-> f.scam,
   source_quality |-> f.junk \/ kind = "content_farm",
   location |-> f.place = "elsewhere",
   language |-> "language" \in met.blockers,
   credentials |-> met.blockers \cap {"credentials", "experience"} # {},
   seniority |-> f.seniority = "senior",
   pay |-> MeetsFloor(pay.claim) = FALSE,
   trust |-> BelowFloor(f),
   role |-> RoleMismatch(f, met),
   low_evidence |-> LowEvidence(f)]

Objections(f, kind, pay, met) ==
  LET grounds == Grounds(f, kind, pay, met)
  IN  {i \in DOMAIN VetoOrder : grounds[VetoOrder[i]]}

\* What is left to verify, each a task of the action policy.
Doubts(f, pay, met, objections) ==
  met.unverified \cup
  {d \in {"location_scope_unknown", "location_scope_conflict", "specialist_domain",
          "specialist_requirements", "title_truncated", "company_identity", "pay_conflict"} :
     CASE d = "location_scope_unknown" -> f.place = "unstated"
       [] d = "location_scope_conflict" -> f.place = "conflicting"
       [] d = "specialist_domain" -> f.specialist = "unresolved"
       [] d = "specialist_requirements" ->
            objections = {} /\ f.requirements # "complete" /\ f.specialist # "none"
       [] d = "title_truncated" -> f.truncated
       [] d = "company_identity" -> f.guessed
       [] d = "pay_conflict" -> pay.conflict}

\* Fault: requirements nothing is known of pass for complete ones.
PassedUnlessPartial(f, met, objections) ==
  IF objections # {} THEN "failed"
  ELSE IF "language_unverified" \in met.unverified \/ f.specialist = "unresolved" THEN "unknown"
  ELSE IF f.requirements = "partial" THEN "unknown" ELSE "passed"

Eligibility(f, met, objections) ==
  IF objections # {} THEN "failed"
  ELSE IF "language_unverified" \in met.unverified \/ f.specialist = "unresolved" THEN "unknown"
  ELSE IF f.requirements = "complete" THEN "passed" ELSE "unknown"

-----------------------------------------------------------------------------
(* _decision.                                                              *)

BandOf(objections, doubts, eligibility) ==
  IF objections # {} THEN "reject"
  ELSE IF eligibility = "passed" /\ doubts = {} THEN "primary" ELSE "verify"

\* An advertised language of the profile's; never generic multilingual copy.
LanguageEdge(wanted) ==
  IF \E d \in wanted : /\ d.kind = "language" /\ d.required
                       /\ \E asked \in d.asked : asked.language \in Speaks
  THEN 1 ELSE 0

\* What orders the postings of a band, the most important first.
PriorityKey(f, kind, pay, objections, doubts) ==
  LET match == CASE f.match = "strong" -> 2 [] f.match = "medium" -> 1 [] OTHER -> 0
      economics == Economics(pay.claim, pay.credibility, f.match = "weak")
      readiness == IF objections # {} THEN 0 ELSE IF doubts = {} THEN 2 ELSE 1
      worth == CASE economics = "excellent" -> 3 [] economics \in {"viable", "budget_known"} -> 2
                 [] economics = "unknown" -> 1 [] OTHER -> 0
  IN  <<readiness, match, worth, LanguageEdge(demands), SourceOrder(kind), Trust(f, kind),
        Freshness(f)>>

\* The pay of each set of observations, which nothing else has a part in.
PayFrom == [seen \in SUBSET DOMAIN Source |-> PayOf(seen)]

\* _decision, of what _assess found.
Decision(f, kind, pay, met, objections) ==
  LET doubts == Doubts(f, pay, met, objections)
  IN  [band |-> BandOf(objections, doubts, Eligibility(f, met, objections)),
       reason |-> IF objections = {} THEN "surface" ELSE VetoOrder[Min(objections)],
       priority |-> PriorityKey(f, kind, pay, objections, doubts),
       pay |-> pay]

AssessFrom(f, kind, pay, met) == Decision(f, kind, pay, met, Objections(f, kind, pay, met))

AssessAs(f, seen, says, on) ==
  AssessFrom(f, BestKind(seen), PayFrom[seen], RequirementsMet(demands, says, on))

-----------------------------------------------------------------------------
(* What happens to a posting.                                              *)

Reassess(f, seen, says, on) ==
  /\ learnt' = f /\ gathered' = seen /\ declared' = says /\ date' = on
  /\ verdict' = AssessAs(f, seen, says, on)
  /\ UNCHANGED demands

Learning == news < MaxNews /\ news' = news + 1

\* A page that was read, or a registry that was updated, shows another value.
LearnFact(f, i) ==
  /\ Ladder[f][i] # learnt[f] /\ Learning
  /\ Reassess([learnt EXCEPT ![f] = Ladder[f][i]], gathered, declared, date)

Gather(o) ==
  /\ Learning /\ o \notin gathered /\ Source[o].parents \subseteq gathered
  /\ Reassess(learnt, gathered \cup {o}, declared, date)

Declare(d) ==
  /\ d \notin declared /\ Learning
  /\ Reassess(learnt, gathered, declared \cup {d}, date)

PassDate ==
  /\ date < LastDate /\ UNCHANGED news
  /\ Reassess(learnt, gathered, declared, date + 1)

AssessmentInit ==
  /\ learnt = [f \in DOMAIN Ladder |-> Ladder[f][1]]
  /\ gathered = FirstSeen /\ demands \in Demanded
  /\ declared = {} /\ date = 0 /\ news = 0
  /\ verdict = AssessAs(learnt, gathered, declared, date)

AssessmentNext ==
  \/ \E f \in DOMAIN Ladder : \E i \in DOMAIN Ladder[f] : LearnFact(f, i)
  \/ \E o \in DOMAIN Source : Gather(o)
  \/ \E d \in Declarable : Declare(d)
  \/ PassDate

AssessmentSpec == AssessmentInit /\ [][AssessmentNext]_assessmentVars

-----------------------------------------------------------------------------
(* Properties.                                                             *)

\* A task the user has said to avoid stays avoided until the user allows it
\* again: a later statement that the user is able to do it does not put a
\* posting that demands it before the user as ready to apply
\* (_scoped_language_outcome judges preferences and capabilities apart;
\* docs/dated_language_evidence.md).
Avoided(asked) ==
  \E no \in Preferences(Active(declared, asked.language, date), asked) :
    /\ no.stance = "avoid" /\ no.date # None
    /\ \A yes \in Preferences(Active(declared, asked.language, date), asked) :
         yes.stance = "allow" => yes.date # None /\ yes.date < no.date

AvoidanceSticks ==
  \A d \in demands :
    /\ d.kind = "language" /\ d.required /\ d.group = None
    /\ \A asked \in d.asked : Avoided(asked)
    => verdict.band # "primary"

\* A text whose amounts are not about the offered work (the funds of the
\* company, an allowance, another assignment) changes nothing of the pay: it
\* neither supplies an amount nor makes a contradiction
\* (extract_pay_candidates; docs/compensation_attribution.md).
SaysNothingOfThePay(o) ==
  /\ Source[o].parents = {} /\ Source[o].kind # "content_farm"
  /\ \A c \in Source[o].claims : c.scope # "work"

FundsFabricateNothing ==
  [][\A o \in gathered' \ gathered :
       SaysNothingOfThePay(o) /\ (\E p \in gathered : Source[p].kind # "content_farm") =>
         verdict'.pay = verdict.pay]_assessmentVars

\* Learning something worse of a posting never moves it up: neither to a better
\* band nor, within its band, before where it stood (_assess takes a dozen
\* facts in turn, which the tests vary one at a time).  Of two listed trusts the
\* lower is the worse.  That a platform is or is not listed is worse only where
\* it lowers what counts: a posting of an unknown source whose platform turns
\* out to be listed at .49 counts 41 for 40, and moves up.
BandOrder == [primary |-> 2, verify |-> 1, reject |-> 0]
Stands(v) == <<BandOrder[v.band]>> \o v.priority
MovesUp(v, w) ==
  \E i \in DOMAIN Stands(v) : /\ Stands(w)[i] > Stands(v)[i]
                             /\ \A j \in 1..(i - 1) : Stands(w)[j] = Stands(v)[j]

Worse(f, i, j) ==
  IF f = "trust" /\ None \in {Ladder[f][i], Ladder[f][j]}
  THEN LET other == [learnt EXCEPT ![f] = Ladder[f][j]]
       IN  Trust(other, BestKind(gathered)) < Trust(learnt, BestKind(gathered))
  ELSE i < j

WorseNeverPromoted ==
  [][learnt # learnt' =>
       \A f \in DOMAIN Ladder : \A i, j \in DOMAIN Ladder[f] :
         learnt[f] = Ladder[f][i] /\ learnt'[f] = Ladder[f][j] /\ Worse(f, i, j) =>
           ~MovesUp(verdict, verdict')]_assessmentVars
=============================================================================
