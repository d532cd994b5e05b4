------------------------- MODULE RequirementOutcomes -------------------------
(***************************************************************************)
(* requirement_outcomes of v41/requirements.py: what a posting demands of  *)
(* an applicant, held against the explicit evidence of the user's profile. *)
(* A language is judged by dated declarations, which separate what the     *)
(* user can do from what the user wants to do; years and credentials by    *)
(* what is documented.                                                     *)
(*                                                                         *)
(* A demand is what was extracted from the text; a claim of a weak copy is *)
(* no demand.  A credential the profile neither documents nor denies, and  *)
(* years without a documented field, are matters to verify.                *)
(***************************************************************************)
EXTENDS WorkspaceFiles, FiniteSets, FiniteSetsExt

CONSTANTS
  Speaks,       \* the profile's plain list of languages
  Documented,   \* years documented, by field
  Credentials,  \* formal credentials documented
  Absences,     \* formal credentials the user says are absent
  Professions,  \* capability domains of the profile
  YearsCeiling  \* max_required_years

ASSUME NoneIsNoState == None \notin {"unknown", "conflict", "preference_avoided"}

(* A level is its rank: 0 unknown, 1 basic, 2 fluent, 3 advanced, 4 native. *)
Declaration == [language : STRING, stance : {"capability", "avoid", "allow"},
                modality : {"general", "spoken", "written"}, level : 0..4,
                date : Nat \cup {None}]
Advanced == 3

-----------------------------------------------------------------------------
(* _scoped_language_outcome.                                               *)

\* Declarations of later days do not bear on a decision of today.
Active(declared, language, today) ==
  {d \in declared : d.language = language /\ (d.date = None \/ d.date <= today)}

Applies(d, asked) == d.modality \in {asked.modality, "general"}

Preferences(known, asked) ==
  {d \in known : Applies(d, asked) /\ d.stance # "capability" /\ d.level <= asked.level}

Capabilities(known, asked) ==
  LET able == {d \in known : Applies(d, asked) /\ d.stance = "capability"}
      scoped == {d \in able : d.modality = asked.modality}
  IN  IF scoped # {} THEN scoped ELSE able

\* The declarations of a group that count: of its latest day, and undated.
InForce(group) ==
  {d \in group : d.date = None \/ \A e \in group : e.date = None \/ e.date <= d.date}

\* Fault: a preference lasts until anything later is declared.
StandingOfAll(wishes, able) ==
  LET latest == InForce(wishes \cup able)
  IN  [wishes |-> wishes \cap latest, able |-> able \cap latest]

\* Preferences and capabilities are independent facts.
StandingOf(wishes, able) == [wishes |-> InForce(wishes), able |-> InForce(able)]

Enough(able, asked) ==
  LET d == CHOOSE d \in able : TRUE IN
  IF Cardinality({e.level : e \in able}) > 1 THEN "conflict"
  ELSE IF d.level = 0 THEN "unknown"
  ELSE IF asked.modality = "written" /\ asked.level >= Advanced /\ d.modality # "written" THEN "unknown"
  ELSE IF d.level >= asked.level THEN "supported" ELSE "insufficient"

\* None: the profile declares nothing of the language yet.
LanguageState(declared, asked, today) ==
  LET known == Active(declared, asked.language, today)
      now == StandingOf(Preferences(known, asked), Capabilities(known, asked))
  IN  IF known = {} THEN None
      ELSE IF \E d \in now.wishes \cup now.able : d.date = None THEN "unknown"
      ELSE IF Cardinality({d.stance : d \in now.wishes}) > 1 THEN "conflict"
      ELSE IF {d.stance : d \in now.wishes} = {"avoid"} THEN "preference_avoided"
      ELSE IF now.able # {} THEN Enough(now.able, asked)
      ELSE "unknown"

-----------------------------------------------------------------------------
NoObjection == [blockers |-> {}, unverified |-> {}]
RuledOut(by) == [blockers |-> {by}, unverified |-> {}]
Unverified(what) == [blockers |-> {}, unverified |-> {what}]

LanguageDemand(demand, declared, today) ==
  LET StateOf(asked) ==
        LET state == LanguageState(declared, asked, today)
        IN  IF state # None THEN state
            ELSE IF asked.language \in Speaks THEN "supported" ELSE "insufficient"
      states == {StateOf(asked) : asked \in demand.asked}
      met == "supported" \in states
      open == states \cap {"unknown", "conflict"} # {}
      failed == states \ {"supported", "unknown", "conflict"} # {}
  IN  IF demand.any /\ met THEN NoObjection
      ELSE IF demand.any /\ open THEN Unverified("language_unverified")
      ELSE [blockers |-> IF failed THEN {"language"} ELSE {},
                     unverified |-> IF open THEN {"language_unverified"} ELSE {}]

\* The years documented for the field of a demand, None where it names none.
YearsIn(field) == IF field \in DOMAIN Documented THEN Documented[field] ELSE None

ExperienceDemand(demand) ==
  LET years == YearsIn(demand.field) IN
  IF years = None
  THEN IF demand.years > YearsCeiling /\ demand.group = None
       THEN RuledOut("experience") ELSE Unverified("experience_unverified")
  ELSE IF years < demand.years THEN RuledOut("experience") ELSE NoObjection

CredentialDemand(demand) ==
  IF demand.credential \in Absences THEN RuledOut("credentials")
  ELSE IF demand.profession /\ demand.credential \notin Professions \cup Credentials THEN
         RuledOut("required_profession")
  ELSE IF demand.credential \in Credentials THEN NoObjection
                ELSE Unverified("credential_unverified")

\* One documented alternative satisfies its group.
Satisfied(demands) ==
  {d.group : d \in {e \in demands : /\ e.group # None
     /\ \/ e.kind = "experience" /\ YearsIn(e.field) # None /\ YearsIn(e.field) >= e.years
        \/ e.kind = "credential" /\ e.credential \in Credentials}}

\* requirement_outcomes: preferred and optional demands ask for nothing.
RequirementsMet(demands, declared, today) ==
  LET asking == {d \in demands : d.required /\ d.group \notin Satisfied(demands)}
      Outcome(d) == CASE d.kind = "language" -> LanguageDemand(d, declared, today)
                      [] d.kind = "experience" -> ExperienceDemand(d)
                      [] d.kind = "credential" -> CredentialDemand(d)
  IN  [blockers |-> UNION {Outcome(d).blockers : d \in asking},
       unverified |-> UNION {Outcome(d).unverified : d \in asking}]
=============================================================================
