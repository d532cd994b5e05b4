------------------------------ MODULE PayEvidence ------------------------------
(***************************************************************************)
(* The pay of a posting: extract_pay_candidates of v41/extract.py and what *)
(* v41/engine.py makes of it, under the policy of V5.5.  Every observation *)
(* of the posting but a content farm's supplies claims; the most credible  *)
(* claim that is about the offered work is selected, and contradictions    *)
(* between credible claims are reported.                                   *)
(*                                                                         *)
(* A claim carries what its text was read as: the scope (the offered work, *)
(* or funds, an allowance, another assignment...), the unit, the amounts   *)
(* and the field it stands in.  Amounts are whole numbers of a currency;   *)
(* shares are counted in millionths.  Hourly rates that the code estimates *)
(* from piece rates are left out: V5.5 neither applies the floor to them   *)
(* nor ranks them.                                                         *)
(***************************************************************************)
EXTENDS WorkspaceFiles, FiniteSets, FiniteSetsExt, Sequences, Functions

CONSTANTS
  Source,      \* what each observation of the posting brings
  Floor,       \* pay.floor_usd
  Viable,      \* minimum_economics_credibility, in millionths
  Rates        \* pay.fx_to_usd, by currency

ASSUME ClaimsAreScoped ==
  \A o \in DOMAIN Source : \A c \in Source[o].claims : "scope" \in DOMAIN c

Whole == 1000000
Confidence == [email |-> 98, structured |-> 95, marketplace_snippet |-> 95,
               title |-> 85, description |-> 70]
ConfidentEnough == 65
FirstHand == {"email_offer", "original_employer", "original_ats"}

-----------------------------------------------------------------------------
\* The observations read: content farms only where there is nothing else.
ReadFor(gathered) ==
  LET sound == {o \in gathered : Source[o].kind # "content_farm"}
  IN  IF sound = {} THEN gathered ELSE sound

\* The observation and all it was derived from.
Lineage(gathered, o) ==
  LET line[n \in 0..Cardinality(DOMAIN Source)] ==
        IF n = 0 THEN {o}
        ELSE LET nearer == line[n - 1]
             IN  nearer \cup UNION {Source[p].parents : p \in nearer \cap gathered}
  IN  line[Cardinality(DOMAIN Source)]

DistinctSource(gathered, left, right) ==
  /\ Lineage(gathered, left) \cap Lineage(gathered, right) = {}
  /\ Source[left].host # Source[right].host
  /\ Source[left].text # Source[right].text

\* A listing that only copies a forum thread has no say on its terms.
CopiesThread(gathered, o) ==
  \E child \in gathered : Source[child].thread /\ o \in Source[child].parents

PayClaims(gathered) ==
  {[from |-> pair[1], claim |->
      IF CopiesThread(gathered, pair[1]) THEN [pair[2] EXCEPT !.scope = "unattributed_copy"]
      ELSE pair[2]] :
     pair \in UNION {{<<o, c>> : c \in Source[o].claims} : o \in ReadFor(gathered)}}

\* Fault: any amount in the text counts as pay.
AnyAmount(candidates) == candidates

\* Selectable: claims about the offered work.
AboutWork(candidates) == {x \in candidates : x.claim.scope = "work"}

SameTerms(c, d) ==
  /\ c.low # None
  /\ \A f \in {"scope", "unit", "currency", "low", "high", "upTo"} : c[f] = d[f]

Repeated(gathered, claims, x) ==
  \E y \in claims :
    /\ y.from # x.from
    /\ SameTerms(x.claim, y.claim)
    /\ DistinctSource(gathered, x.from, y.from)

\* _claim_credibility: the claim's own source and field, never another's.
Provenance(kind, field) ==
  IF kind \in FirstHand THEN Whole
  ELSE IF field \in {"email", "structured", "marketplace_snippet"}
  THEN CASE kind = "reputable_board" -> 820000 [] kind = "aggregator_unresolved" -> 700000
         [] OTHER -> 550000
  ELSE CASE kind = "reputable_board" -> 600000 [] kind = "aggregator_unresolved" -> 520000
         [] OTHER -> 450000

Credibility(gathered, claims, x) ==
  LET kind == Source[x.from].kind
      provenance == Provenance(kind, x.claim.field)
      discounted == IF x.claim.upTo THEN (provenance \div 100) * 72 ELSE provenance
      lifted == IF Repeated(gathered, claims, x) THEN (discounted \div 100) * 108 ELSE discounted
      capped == IF lifted > Whole THEN Whole ELSE lifted
  IN  IF x.claim.unit = "unknown" \/ x.claim.scope # "work" \/ kind = "content_farm" THEN 0
      ELSE (capped \div 100) * Confidence[x.claim.field]

\* The order of selection, where the amounts stand for the claim's text.
Precedes(k, l) == \E i \in DOMAIN k : k[i] < l[i] /\ \A j \in 1..(i - 1) : k[j] = l[j]

Selected(gathered, claims) ==
  LET able == AboutWork(claims)
      key == [x \in able |-> <<-Credibility(gathered, claims, x), -Confidence[x.claim.field],
                               x.from, x.claim.raw>>]
  IN  IF able = {} THEN None
      ELSE CHOOSE x \in able : \A y \in able \ {x} : Precedes(key[x], key[y])

-----------------------------------------------------------------------------
(* Contradictions.                                                         *)

InUsd(c, amount) == amount * Rates[c.currency]
Hourly(c) == c.unit = "labor_hour" /\ c.low # None /\ c.currency \in DOMAIN Rates

\* Twice the middle of an hourly claim.
Span(c) == InUsd(c, c.low) + InUsd(c, c.high)
FarFrom(c, d) == LET gap == Span(c) - Span(d)
                 IN  4 * (IF gap < 0 THEN -gap ELSE gap) > Span(d)

\* Between the credible claims, of which the first was selected.
Contradicted(claims, first) ==
  LET strong == {x.claim : x \in {y \in AboutWork(claims) :
                                   Confidence[y.claim.field] >= ConfidentEnough}}
      native == {c \in strong : c.low # None}
      units == {c.unit : c \in strong}
  IN  \/ "fixed" \in units /\ Cardinality(units) > 1
      \/ {"labor_hour", "output"} \subseteq units
      \/ Cardinality({InUsd(c, c.low) : c \in {d \in native : d.unit = "fixed"
                                                 /\ d.currency \in DOMAIN Rates}}) > 1
      \/ /\ first # None /\ Hourly(first.claim)
         /\ \E c \in strong : Hourly(c) /\ FarFrom(c, first.claim)
      \/ Cardinality({<<c.currency, c.unit, c.upTo>> : c \in native}) > 1
      \/ Cardinality({<<c.currency, c.low, c.high>> :
                        c \in {d \in native : d.unit # "labor_hour"}}) > 1
      \/ \E c \in strong : c.low = None

-----------------------------------------------------------------------------
(* What the assessment takes from it.                                      *)

\* The floor applies to a supported rate for labor hours that is no "up to".
MeetsFloor(c) == IF c = None \/ ~Hourly(c) \/ c.upTo THEN None ELSE InUsd(c, c.high) >= Floor

Economics(c, credibility, weakMatch) ==
  IF c = None THEN "unknown"
  ELSE IF MeetsFloor(c) = FALSE THEN "below_floor"
  ELSE IF credibility < Viable THEN "unknown"
  ELSE IF c.unit = "fixed" THEN IF weakMatch THEN "unknown" ELSE "budget_known"
  ELSE IF c.unit # "labor_hour" THEN "unknown"
  ELSE IF Hourly(c) /\ ~c.upTo /\ InUsd(c, c.low) >= 15 THEN "excellent" ELSE "viable"

PayBy(gathered, claims, x) ==
  [claim |-> IF x = None THEN None ELSE x.claim,
   credibility |-> IF x = None THEN 0 ELSE Credibility(gathered, claims, x),
   conflict |-> Contradicted(claims, x)]

PayAmong(gathered, claims) == PayBy(gathered, claims, Selected(gathered, claims))

PayOf(gathered) == PayAmong(gathered, PayClaims(gathered))
=============================================================================
