----------------------------- MODULE OutcomeReview -----------------------------
(***************************************************************************)
(* v41/outcome_review.py and v41/outcome_aliases.py: offline previews that *)
(* bind a user's recorded attempts to evaluated roles and let one attempt  *)
(* refine the advice on a role.  A binding names the role's canonical ID,  *)
(* an observation of it and its URL; when the ID is gone, a reviewed alias *)
(* may lead to the role that retains the observation.  A preview starts    *)
(* from the evaluation of a capture or from an earlier preview of it, and  *)
(* from a journal of facts accepted before.                                *)
(*                                                                         *)
(* Facts are told apart by their attempt (scope) only; what a projection   *)
(* of them says is the matter of OutcomeFacts.                             *)
(***************************************************************************)
EXTENDS WorkspaceFiles, FiniteSets

CONSTANTS
  Captures,     \* roles of a capture, each with the observations it retains
  Ties,         \* bindings a reviewer can write
  Renamings,    \* aliases a reviewer can write
  MaxPreviews   \* bound: previews

ASSUME TiesAreFinite == IsFiniteSet(Ties)
ASSUME NoneIsNoRole == \A capture \in Captures : None \notin DOMAIN capture

VARIABLES
  roles,      \* the roles of the capture reviewed, with their observations
  imported,   \* attempts with accepted facts
  acting,     \* acting[r]: the attempt whose facts refine role r
  contested,  \* roles held back: several attempts claim them
  reviewed,   \* history: bindings and aliases of the last preview of these roles
  previews    \* history: previews so far

reviewVars == <<roles, imported, acting, contested, reviewed, previews>>

-----------------------------------------------------------------------------
\* The role retains the observation, everywhere under that URL.
Retains(r, seen, url) ==
  /\ \E o \in roles[r] : o.id = seen
  /\ \A o \in roles[r] : o.id = seen => o.url = url

Owners(seen) == {r \in DOMAIN roles : \E o \in roles[r] : o.id = seen}

\* The aliases of a file that hold: one-hop, from an ID that is gone to the
\* only role that retains the very observation reviewed.
Holding(aliases, ties) ==
  {a \in aliases :
     /\ \A b \in aliases : b.alias = a.alias \/ b.from = a.from => b = a
     /\ a.from \notin DOMAIN roles
     /\ \E t \in ties : t.role = a.from
     /\ a.to \in DOMAIN roles
     /\ Owners(a.seen) = {a.to}
     /\ Retains(a.to, a.seen, a.url)
     /\ \A o \in roles[a.to] : o.id = a.seen => o.print = a.print}

\* The role a binding leads to, None while it is held.
Destination(t, aliases, ties) ==
  LET way == {a \in Holding(aliases, ties) : a.from = t.role}
      ends == IF t.role \in DOMAIN roles THEN {t.role} ELSE {a.to : a \in way}
      sound == {r \in ends : /\ Retains(r, t.seen, t.url)
                             /\ \A a \in way : a.seen = t.seen /\ a.url = t.url}
  IN  IF sound = {} THEN None ELSE CHOOSE r \in sound : TRUE

Claimants(r, aliases, ties) ==
  {t \in ties : t.active /\ Destination(t, aliases, ties) = r}

\* Fault: an earlier preview of the same roles keeps its attempts acting.
KeptFromBefore == acting

\* A reused preview carries its facts, not its authority.
Cleared == [r \in DOMAIN roles |-> None]

-----------------------------------------------------------------------------
ReviewInit ==
  /\ roles \in Captures
  /\ imported = {}
  /\ acting = [r \in DOMAIN roles |-> None]
  /\ contested = {}
  /\ reviewed = [ties |-> {}, aliases |-> {}]
  /\ previews = 0

\* bind_outcomes: without aliases every binding must be exact, and the
\* preview fails where two active ones name the same role.
Exact(ties) ==
  /\ \A t \in ties : t.role \in DOMAIN roles /\ Retains(t.role, t.seen, t.url)
  /\ \A t, u \in ties : t.active /\ u.active /\ t.role = u.role => t = u

\* preview_outcomes: the facts of earlier attempts come from the journal, when
\* it is given, and from the preview reviewed; those of an attempt that is no
\* longer bound make it fail.  told are the attempts with facts in the new file.
Preview(ties, aliases, told, given, withAliases) ==
  LET prior == (IF given THEN imported ELSE {})
                 \cup ({acting[r] : r \in DOMAIN roles} \ {None})
      facts == prior \cup {s \in told : \E t \in ties : t.scope = s}
      ways == IF withAliases THEN aliases ELSE {}
  IN  /\ previews < MaxPreviews
      /\ \A t, u \in ties : t.scope = u.scope => t = u
      /\ \A s \in prior : \E t \in ties : t.scope = s
      /\ withAliases \/ Exact(ties)
      /\ imported' = facts
      /\ contested' = {r \in DOMAIN roles : Cardinality(Claimants(r, ways, ties)) > 1}
      /\ acting' = [r \in DOMAIN roles |->
           LET heard == {t \in Claimants(r, ways, ties) : t.scope \in facts}
           IN  IF heard # {} /\ r \notin contested' THEN (CHOOSE t \in heard : TRUE).scope
               ELSE Cleared[r]]
      /\ reviewed' = [ties |-> ties, aliases |-> ways]
      /\ previews' = previews + 1
      /\ UNCHANGED roles

\* run_outcome_review of another capture: its roles carry no attempt yet.
OpenCapture(capture) ==
  /\ previews < MaxPreviews
  /\ capture # roles
  /\ roles' = capture
  /\ acting' = [r \in DOMAIN capture |-> None]
  /\ contested' = {}
  /\ reviewed' = [ties |-> {}, aliases |-> {}]
  /\ UNCHANGED <<imported, previews>>

ReviewNext ==
  \/ \E ties \in SUBSET Ties, given \in {FALSE, imported # {}} :
     \E told \in SUBSET {t.scope : t \in ties} :
       \/ Preview(ties, {}, told, given, FALSE)
       \/ \E aliases \in SUBSET Renamings : Preview(ties, aliases, told, given, TRUE)
  \/ \E capture \in Captures : OpenCapture(capture)

ReviewSpec == ReviewInit /\ [][ReviewNext]_reviewVars

-----------------------------------------------------------------------------
\* The attempt that refines the advice on a role is one the last review
\* selected for it, by the role's ID or an alias that leads there, and its
\* only active selection: neither an attempt an earlier preview selected nor
\* one of two rivals acts (outcome_review.py:56, "carries facts, not
\* authority").
SelectionActs ==
  \A r \in DOMAIN roles :
    LET Selects(t) ==
          /\ t.active
          /\ Retains(r, t.seen, t.url)
          /\ \/ t.role = r
             \/ /\ t.role \notin DOMAIN roles
                /\ \E a \in reviewed.aliases : a.from = t.role /\ a.to = r
    IN  acting[r] # None =>
          /\ \E t \in reviewed.ties : Selects(t) /\ t.scope = acting[r]
          /\ \A t \in Claimants(r, reviewed.aliases, reviewed.ties) : t.scope = acting[r]
=============================================================================
