--------------------------- MODULE DigestSelection ---------------------------
(***************************************************************************)
(* Which postings of a run a digest shows.  The V4.2 digest fills three    *)
(* sections one after the other; the release digest walks one list.  Both  *)
(* hold back what exceeds a cap on a company, a platform or a section, and *)
(* count every posting exactly once in the presentation ledger.            *)
(* A posting is judged by its standing in the run: rejected, known or      *)
(* watched (not active), silent (nothing to notify), faint (under the      *)
(* priority floor), or a candidate of its band.                            *)
(***************************************************************************)
EXTENDS WorkspaceFiles, FiniteSets, Sequences, SequencesExt

CONSTANTS
  Openings,         \* the postings: their numbers are their priority order
  Automation,       \* those of the workflow automation family
  Company,          \* the counterparty of a posting
  Site,             \* its platform, or None
  Marketplace,      \* the platform the release digest caps
  CompanyCap, AutomationCompanyCap, SiteCap, BandCap, AutomationCap,
  Backfill          \* a section from a single source may exceed the SiteCap

ASSUME OpeningsInOrder == Openings \subseteq Nat /\ IsFiniteSet(Openings)
ASSUME CapsAreNumbers ==
  {CompanyCap, AutomationCompanyCap, SiteCap, BandCap, AutomationCap} \subseteq Nat

VARIABLE edition   \* [engine, standing, ledger], the ledger None until built

Standings == {"rejected", "known", "silent", "faint", "primary", "verify"}

----------------------------------------------------------------------------
(* A ledger: the postings shown, in order, and those held back, by reason. *)
EmptyLedger == [shown |-> <<>>, company |-> {}, site |-> {}, digest |-> {},
                faint |-> {}, silent |-> {}, known |-> {}]

InOrderOf(S) ==
  [i \in 1..Cardinality(S) |-> CHOOSE o \in S : Cardinality({k \in S : k <= o}) = i]

(* company_seen and platform_seen count what was shown.                    *)
OfCompany(shown, o) == {k \in ToSet(shown) : Company[k] = Company[o]}
OfSite(shown, o) == {k \in ToSet(shown) : Site[k] # None /\ Site[k] = Site[o]}

SectionOf(standing, o) == IF o \in Automation THEN "automation" ELSE standing[o]
Section(standing, sec) ==
  {o \in Openings : standing[o] \in {"primary", "verify"} /\ SectionOf(standing, o) = sec}

SectionCap(sec) == IF sec = "automation" THEN AutomationCap ELSE BandCap
SectionCompanyCap(sec) ==
  IF sec # "automation" \/ CompanyCap <= AutomationCompanyCap
  THEN CompanyCap ELSE AutomationCompanyCap

(* Fault: the companies are counted anew in every section.                 *)
CrowdedInSection(page, sec, o) ==
  Cardinality(OfCompany(page.here, o)) >= SectionCompanyCap(sec)

Crowded(page, sec, o) ==
  Cardinality(OfCompany(page.ledger.shown, o)) >= SectionCompanyCap(sec)

ShowOn(page, o) ==
  [page EXCEPT !.here = Append(@, o), !.ledger.shown = Append(@, o)]

(* The first pass over a section: a posting over the platform's cap waits. *)
Consider(sec, page, o) ==
  IF Crowded(page, sec, o) THEN [page EXCEPT !.ledger.company = @ \union {o}]
  ELSE IF SiteCap > 0 /\ Cardinality(OfSite(page.here, o)) >= SiteCap
  THEN [page EXCEPT !.waiting = Append(@, o)]
  ELSE IF Len(page.here) >= SectionCap(sec)
  THEN [page EXCEPT !.ledger.digest = @ \union {o}]
  ELSE ShowOn(page, o)

(* The second pass takes those that waited while there is room.            *)
Refill(sec, page, o) ==
  IF Len(page.here) >= SectionCap(sec) THEN [page EXCEPT !.waiting = Append(@, o)]
  ELSE IF Crowded(page, sec, o) THEN [page EXCEPT !.ledger.company = @ \union {o}]
  ELSE ShowOn(page, o)

SingleSource(section) ==
  Cardinality({IF Site[o] = None THEN <<o>> ELSE <<0, Site[o]>> : o \in section}) = 1

----------------------------------------------------------------------------
(* _build_release_digest: one pass, primaries first, one marketplace       *)
(* capped, no priority floor; what is not active is counted before the     *)
(* rest.                                                                   *)
ReleaseOrder(standing) ==
  InOrderOf({o \in Openings : standing[o] = "primary"}) \o
  InOrderOf({o \in Openings : standing[o] # "primary" /\ standing[o] # "rejected"})

OnMarketplace(shown, o) ==
  {k \in ToSet(shown) : Site[k] = Marketplace /\ Site[o] = Marketplace}

Place(standing, ledger, o) ==
  IF standing[o] = "known" THEN [ledger EXCEPT !.known = @ \union {o}]
  ELSE IF standing[o] = "silent" THEN [ledger EXCEPT !.silent = @ \union {o}]
  ELSE IF Cardinality(OfCompany(ledger.shown, o)) >= CompanyCap
  THEN [ledger EXCEPT !.company = @ \union {o}]
  ELSE IF SiteCap > 0 /\ Cardinality(OnMarketplace(ledger.shown, o)) >= SiteCap
  THEN [ledger EXCEPT !.site = @ \union {o}]
  ELSE IF Cardinality({k \in ToSet(ledger.shown) : standing[k] = standing[o]}) >= BandCap
  THEN [ledger EXCEPT !.digest = @ \union {o}]
  ELSE [ledger EXCEPT !.shown = Append(@, o)]

----------------------------------------------------------------------------
(* One list after the other: a section, what waited of it, a release.      *)
TakeUp(list, of, page, o) ==
  CASE list = "section" -> Consider(of, page, o)
    [] list = "waiting" -> Refill(of, page, o)
    [] list = "release" -> Place(of, page, o)

Walk(list, of, page, line) ==
  LET upTo[n \in 0..Len(line)] ==
        IF n = 0 THEN page ELSE TakeUp(list, of, upTo[n - 1], line[n])
  IN upTo[Len(line)]

AddSection(standing, ledger, sec) ==
  LET section == Section(standing, sec)
      first == Walk("section", sec, [ledger |-> ledger, here |-> <<>>, waiting |-> <<>>],
                    InOrderOf(section))
      page == IF Backfill /\ SingleSource(section)
              THEN Walk("waiting", sec, [first EXCEPT !.waiting = <<>>], first.waiting)
              ELSE first
  IN [page.ledger EXCEPT !.site = @ \union ToSet(page.waiting)]

(* build_digest for V4.2.                                                  *)
DailyDigest(standing) ==
  LET start == [EmptyLedger EXCEPT
                  !.faint = {o \in Openings : standing[o] = "faint"},
                  !.silent = {o \in Openings : standing[o] = "silent"}]
      primaries == AddSection(standing, start, "primary")
      automation == AddSection(standing, primaries, "automation")
  IN AddSection(standing, automation, "verify")

ReleaseDigest(standing) == Walk("release", standing, EmptyLedger, ReleaseOrder(standing))

DigestOf(engine, standing) ==
  IF engine = "v5" THEN ReleaseDigest(standing) ELSE DailyDigest(standing)

(* The presentation equation: what is not counted once blocks the digest.  *)
AddsUp(standing, ledger) ==
  Cardinality({o \in Openings : standing[o] # "rejected"}) =
    Len(ledger.shown) + Cardinality(ledger.company) + Cardinality(ledger.site)
    + Cardinality(ledger.digest) + Cardinality(ledger.faint)
    + Cardinality(ledger.silent) + Cardinality(ledger.known)

----------------------------------------------------------------------------
(* V4.2 does not ask whether a posting is active, V5 has no floor.         *)
EditionInit ==
  edition \in
    {[engine |-> "v42", standing |-> s, ledger |-> EmptyLedger, built |-> FALSE] :
       s \in [Openings -> Standings \ {"known"}]} \union
    {[engine |-> "v5", standing |-> s, ledger |-> EmptyLedger, built |-> FALSE] :
       s \in [Openings -> Standings \ {"faint"}]}

BuildEdition ==
  /\ ~edition.built
  /\ edition' = [edition EXCEPT !.built = TRUE,
                                !.ledger = DigestOf(edition.engine, edition.standing)]

EditionSpec == EditionInit /\ [][BuildEdition]_edition

----------------------------------------------------------------------------
(* The sections a cap speaks of: V5 caps its bands, and companies and the  *)
(* marketplace over the whole digest.                                      *)
Peers(o, k) ==
  LET st == edition.standing IN
  IF edition.engine = "v5" THEN st[k] = st[o]
  ELSE SectionOf(st, k) = SectionOf(st, o)

Capped(o, k) ==
  IF edition.engine = "v5" THEN Site[k] = Marketplace /\ Site[o] = Marketplace
  ELSE Peers(o, k) /\ Site[o] # None /\ Site[k] = Site[o]

(* The order a digest is filled in.                                        *)
FillTurn(o) ==
  LET st == edition.standing IN
  IF edition.engine = "v5" THEN IF st[o] = "primary" THEN 1 ELSE 2
  ELSE CASE SectionOf(st, o) = "primary" -> 1
         [] SectionOf(st, o) = "automation" -> 2
         [] OTHER -> 3
Before(k, o) == FillTurn(k) < FillTurn(o) \/ (FillTurn(k) = FillTurn(o) /\ k < o)

CompanyCapOf(o) ==
  IF edition.engine = "v5" THEN CompanyCap
  ELSE SectionCompanyCap(SectionOf(edition.standing, o))

PeerCapOf(o) ==
  IF edition.engine = "v5" THEN BandCap ELSE SectionCap(SectionOf(edition.standing, o))

(* What is shown before a posting and counts against it, cap by cap.     *)
Earlier(shown, o) == {k \in ToSet(shown) : Before(k, o)}
CompanyRivals(shown, o) == {k \in Earlier(shown, o) : Company[k] = Company[o]}
SiteRivals(shown, o) == {k \in Earlier(shown, o) : Capped(o, k)}
PeerRivals(shown, o) == {k \in Earlier(shown, o) : Peers(o, k)}

(* A section of a single source is filled up with what waited.             *)
Refilled(o) ==
  /\ edition.engine = "v42" /\ Backfill
  /\ SingleSource(Section(edition.standing, SectionOf(edition.standing, o)))

Withheld(shown, o) ==
  \/ Cardinality(CompanyRivals(shown, o)) >= CompanyCapOf(o)
  \/ Cardinality(PeerRivals(shown, o)) >= PeerCapOf(o)
  \/ SiteCap > 0 /\ Cardinality(SiteRivals(shown, o)) >= SiteCap /\ ~Refilled(o)

(* The same posting stands nowhere twice.                                  *)
ShownOnce(shown) == \A i, j \in DOMAIN shown : shown[i] = shown[j] => i = j

(* With each posting shown, its company keeps to the cap of its section.   *)
CompaniesCapped(shown) ==
  \A i \in DOMAIN shown :
    Cardinality(OfCompany(SubSeq(shown, 1, i), shown[i])) <= CompanyCapOf(shown[i])

(* No posting is withheld for nothing and none is lost: whatever is a      *)
(* candidate and not shown meets a cap that postings shown before it have  *)
(* used up; and the ledger counts every surfaced posting once.  The caps   *)
(* interact through the counters the sections share (v41/digest.py).       *)
WithheldForBetter ==
  edition.built =>
    LET shown == edition.ledger.shown
    IN /\ AddsUp(edition.standing, edition.ledger) /\ ShownOnce(shown)
       /\ \A o \in Openings : edition.standing[o] \in {"primary", "verify"} =>
            o \in ToSet(shown) \/ Withheld(shown, o)
       /\ CompaniesCapped(shown)
=============================================================================
