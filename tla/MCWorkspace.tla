----------------------------- MODULE MCWorkspace -----------------------------
(***************************************************************************)
(* Small instances of the parts of a workspace that share no state with    *)
(* each other: a behaviour exercises one of them while the rest keep their *)
(* first state, so that one run explores them all without multiplying them.*)
(***************************************************************************)
EXTENDS VerificationMemory, TrustMaintenance, LocalState, OutcomeFacts, ActionPolicy,
        NotifyLoop, ScamQueue, SourceWatch, DailyPipeline, Canonicalization, PostingFetch,
        HandoffReview, CommunityThread, OutcomeReview, JobAssessment

CONSTANTS Parts  \* the parts a run exercises

VARIABLE part

\* No part tells its two processes apart.
Exchanged == Permutations(Clerks)

----------------------------------------------------------------------------
\* VerificationMemory: two postings of one provider, one of them rejected for
\* want of evidence, and one slot that is reserved for such a posting.
OneProvider == <<1, 1>>
InOrder == <<1, 2>>
ShownAndSoft == <<"shown", "soft">>

\* TrustMaintenance: one platform whose story is carried by two outlets, or
\* two platforms that the same articles name.  Where a save may be cut between
\* two platforms, one process works for longer and the story is about the first.
OnePlatform == <<"a">>
TwoPlatforms == <<"a", "b">>
PayAndStability == [pay |-> 6, stable |-> 4]
SeedRegistry == [p \in Keys |-> [pay |-> 15, stable |-> 3]]
PriorTrust == [p \in Keys |-> 12]
FeedbackDeltas == [paid |-> [pay |-> 12], banned |-> [stable |-> -6, pay |-> -2],
                   noise |-> <<>>]
StoryOfOne == [a \in {"x", "y"} |->
  [names |-> {"a"}, outlet |-> a, published |-> 0, dim |-> "pay"]]
Story == [a \in {"x", "y"} |->
  [names |-> Keys, outlet |-> a, published |-> 0, dim |-> "pay"]]
Registry(staff) ==
  INSTANCE TrustMaintenance WITH
    Platforms <- TwoPlatforms, Clerks <- staff, Articles <- StoryOfOne,
    Seed <- [p \in Range(TwoPlatforms) |-> Seed["a"]],
    Prior <- [p \in Range(TwoPlatforms) |-> Prior["a"]],
    Outcomes <- {"paid", "noise"}, MinIdle <- 2, Lookback <- 2, LastWeek <- 2
OneAtATime ==
  \E c \in Clerks :
    (\A o \in Clerks \ {c} : clerk[o].at = "idle") /\ Registry({c})!TrustNext

\* OutcomeFacts: claims on one application, in chains and with other links.
Claim(id, predicate, value, actor, source, event, observed, supersedes) ==
  [id |-> id, scope |-> "s", predicate |-> predicate, value |-> value, actor |-> actor,
   source |-> source, event |-> event, observed |-> observed, supersedes |-> supersedes]
State(id, value, event, observed, supersedes) ==
  Claim(id, "application_state", value, "provider", "mail", event, observed, supersedes)
ApplicationClaims ==
  {State("a", "submitted", 1, 4, sup) : sup \in {{}, {"c"}}} \cup
  {State("b", "rejected", 2, 2, sup) : sup \in {{}, {"a"}}} \cup
  {State("c", "reopened", event, 3, {"b"}) : event \in {None, 3}} \cup
  {State("d", "submitted", 3, 4, sup) : sup \in {{}, {"c"}}} \cup
  {Claim("e", "buyer_reply", "substantive", "buyer", "community", None, 2, {"a"})}

\* DigestSelection: five postings that crowd a company, a platform and a band,
\* two of them automation work.  NotifyLoop follows the first.
FiveCompanies == <<"a", "a", "b", "c", "a">>
FiveSites == <<"m", "m", "m", None, "n">>
Shows(band, action, pay) ==
  [band |-> band, action |-> action, pay |-> pay, conflict |-> pay = None, url |-> 1, live |-> TRUE]
SomeFacts == {Shows("primary", "apply", 10), Shows("verify", "clarify_scope", None)}
ThreeChannels == <<"off", "mail", "chat">>

\* SourceWatch: any source beside a whole one, and beside one that fails when
\* it is whole or fails itself.
SomeSites == <<"s", "u">>
Entire == {h \in Healths : h.count = 4}
SomeFindings ==
  {[s |-> h, u |-> g] : h \in Healths, g \in Entire} \cup
  {[s |-> h, u |-> [status |-> "failed", count |-> 0, error |-> "invalid_payload"]] :
     h \in Entire \cup {k \in Healths : k.error = "http"}}

\* DailyPipeline: a posting on two boards, one of whose copies an excluded
\* topic and the text gate reject, and one that only a mail offers.
Listing(posting, source, gates) ==
  [posting |-> posting, source |-> source, ats |-> FALSE, paid |-> TRUE, length |-> 1,
   gates |-> gates, doubtful |-> FALSE]
SomeCopies == <<Listing(1, "adzuna", {}), Listing(1, "remoteok", {"quality", "hard"}),
                [Listing(2, "mail", {}) EXCEPT !.doubtful = TRUE]>>
OneMail == <<3>>
OneEmployer == <<"e", "e">>
MailAfterAbsent == <<"off", "mail">>

\* Canonicalization: an aggregator's listing, the same on a farm, one whose
\* original was resolved before, and an empty record.
Record(source, company, url, tier, paid, length) ==
  [source |-> source, state |-> "usable", title |-> "t", company |-> company, url |-> url,
   tier |-> tier, host |-> "other", paid |-> paid, length |-> length, resolved |-> None]
SomeRecords ==
  <<Record("search", None, "u1", "other", FALSE, 1), Record("search", "c", "u2", "farm", TRUE, 2),
    [Record("adzuna", "c", "u4", "other", TRUE, 1) EXCEPT !.resolved = "u3"],
    [Record("mail", None, None, "other", FALSE, 0) EXCEPT !.state = "empty"]>>
Original(url, kind, paid, length, parents, identity) ==
  [title |-> "t", company |-> "c", url |-> url, kind |-> kind, paid |-> paid, length |-> length,
   parents |-> parents, identity |-> identity]
SomeOriginals == <<Original("u9", "original_ats", FALSE, 3, {1}, "exact"),
                   Original("u9", "original_ats", FALSE, 4, {2}, "corroborated"),
                   Original("u3", "original_employer", TRUE, 2, {2}, "mismatch")>>
OneReport == <<[parents |-> {2}]>>

\* PostingFetch: one posting on a list, one with a page of its own that may
\* lead to another host and contradicts the one looked for, both on one host.
ListAndPage == <<"list", "page">>
TwoHosts == [list |-> "h", page |-> "h", other |-> "h2"]
Like(differs) == [differs |-> differs, sameId |-> TRUE, sameTitle |-> TRUE]
SameAndAnother == <<Like({}), Like({"country"})>>

\* HandoffReview: a posting that earlier code may have delivered, beside a
\* task the user was given, with one slot for actions.
Card(text, terms, support) == [text |-> text, terms |-> terms, support |-> support]
Kind(lane, scoped) == [lane |-> lane, facts |-> scoped, urgent |-> scoped]
SomeNatures == [task |-> Kind("action", TRUE), apply |-> Kind("action", FALSE),
                wait |-> Kind("status", FALSE)]
Applying == {Card("apply", None, 1), Card("apply", "r", 1)}
TaskBeside ==
  {<<first, second>> : first \in Applying \cup {Card("wait", "r", 2)},
                       second \in {Card("task", None, 1), None}}
SomePasts ==
  {<<None, None>>} \cup
  {<<[schema |-> schema, card |-> card, kept |-> kept], None>> :
     schema \in {"opening", "v2"}, card \in Applying, kept \in BOOLEAN}
TwoBuyers == <<"a", "b">>

\* OutcomeReview: a role that a later capture has under another ID, beside a
\* role of its own, and a capture where two roles retain the observation.
Shown(id, url) == [id |-> id, url |-> url, print |-> 1]
SomeCaptures ==
  {[old |-> {Shown(1, "u")}, other |-> {Shown(2, "v")}],
   [new |-> {Shown(1, "u"), Shown(3, "w")}, other |-> {Shown(2, "v")}],
   [new |-> {Shown(1, "u"), Shown(3, "w")}, other |-> {Shown(2, "v"), Shown(1, "u")}]}
SomeTies ==
  {[scope |-> "s", role |-> "old", seen |-> 1, url |-> "u", active |-> TRUE],
   [scope |-> "s", role |-> "other", seen |-> 2, url |-> "v", active |-> TRUE],
   [scope |-> "t", role |-> "new", seen |-> 3, url |-> "w", active |-> TRUE],
   [scope |-> "t", role |-> "other", seen |-> 2, url |-> "v", active |-> TRUE]}
Rename(alias, to, print) ==
  [alias |-> alias, from |-> "old", to |-> to, seen |-> 1, url |-> "u", print |-> print]
SomeRenamings == {Rename(1, "new", 1), Rename(1, "new", 2), Rename(2, "other", 1)}

\* JobAssessment: a board's listing with a wage, which other observations
\* repeat, contradict or only seem to, and what it may ask of its applicant.
Says(scope, unit, low, high, upTo) ==
  [scope |-> scope, unit |-> unit, currency |-> "usd", low |-> low, high |-> high,
   upTo |-> upTo, field |-> "description", raw |-> low]
Sighting(kind, host, claims) ==
  [kind |-> kind, host |-> host, text |-> host, parents |-> {}, thread |-> FALSE, claims |-> claims]
SomeTrusts == <<90, 60, 49, 20>>
SomeSources ==
  <<Sighting("reputable_board", "b", {Says("work", "labor_hour", 20, 30, FALSE)}),
    [Sighting("original_ats", "a", {Says("work", "labor_hour", 4, 4, FALSE)}) EXCEPT !.parents = {1}],
    Sighting("original_employer", "e", {Says("funds", "fixed", 900, 900, FALSE)}),
    Sighting("content_farm", "f", {Says("work", "fixed", 90, 90, FALSE)}),
    Sighting("aggregator_unresolved", "g", {Says("work", "labor_hour", 20, 30, FALSE)}),
    [Sighting("unknown", "t", {Says("work", "fixed", 50, 60, TRUE)})
       EXCEPT !.parents = {1}, !.thread = TRUE]>>
Asks(language, modality, level) == [language |-> language, modality |-> modality, level |-> level]
Speaking(any, asked) ==
  [kind |-> "language", required |-> TRUE, group |-> None, any |-> any, asked |-> asked]
Having(credential, profession, group) ==
  [kind |-> "credential", required |-> TRUE, group |-> group, credential |-> credential,
   profession |-> profession]
Years(field, years, group) ==
  [kind |-> "experience", required |-> TRUE, group |-> group, field |-> field, years |-> years]
SomeDemands ==
  {{Speaking(FALSE, {Asks("hi", "spoken", 3)})},
   {Speaking(TRUE, {Asks("hi", "written", 3), Asks("fr", "spoken", 1)}),
    Having("nurse", TRUE, None)},
   {Having("licence", FALSE, "either"), Years("data", 2, "either"), Years("web", 1, None)}}
Tells(stance, modality, level, day) ==
  [language |-> "hi", stance |-> stance, modality |-> modality, level |-> level, date |-> day]
SomeDeclarations ==
  {Tells("avoid", "spoken", 2, 0), Tells("capability", "general", 4, 1),
   Tells("allow", "spoken", 3, 1),
   Tells("capability", "general", 2, None)}
DataYears == [data |-> 3]
Dollars == [usd |-> 1]

----------------------------------------------------------------------------
Init ==
  /\ part \in Parts
  /\ VerificationInit /\ (part # "verification" => memory = Unknown)
  /\ IF part = "cut" THEN Registry(Clerks)!TrustInit ELSE TrustInit
  /\ LocalInit /\ (part # "local" => \A r \in Roots : root[r] = Absent)
  /\ OutcomeInit
  /\ PolicyInit /\ (part # "policy" => evidence.vacancy = "open")
  /\ EditionInit
  /\ part # "digest" =>
       edition.engine = "v5" /\ \A o \in Openings : edition.standing[o] = "silent"
  /\ NotifyInit /\ (part # "notify" => \A o \in Tracked : facts[o].band = "primary")
  /\ ScamInit
  /\ IF part = "collect" THEN CollectInit ELSE collection = [health |-> None]
  /\ WatchInit
  /\ PipeInit
  /\ IF part = "catalogue" THEN CatalogueInit ELSE catalogue = [passes |-> 0]
  /\ FetchInit /\ (part # "fetch" => \A l \in Leaves : listed[l])
  /\ ThreadInit
  /\ HandoffInit /\ (part # "handoff" => revised[1] = <<>>)
  /\ ReviewInit /\ (part # "review" => "old" \in DOMAIN roles)
  /\ AssessmentInit
  /\ part # "assess" => demands = {Speaking(FALSE, {Asks("hi", "spoken", 3)})}

Next ==
  /\ \/ /\ part = "verification" /\ VerificationNext
        /\ UNCHANGED <<trustVars, localVars, outcomeVars, policyVars, edition, notifyVars,
                        scamVars, collection, watchVars, pipeVars, catalogue, fetchVars,
                        handoffVars, threadVars, reviewVars, assessmentVars>>
     \/ /\ \/ part = "trust" /\ TrustNext
           \/ part = "cut" /\ OneAtATime
        /\ UNCHANGED <<verificationVars, localVars, outcomeVars, policyVars, edition,
                        notifyVars, scamVars, collection, watchVars, pipeVars, catalogue,
                        fetchVars, handoffVars, threadVars, reviewVars, assessmentVars>>
     \/ /\ part = "local" /\ LocalNext
        /\ UNCHANGED <<verificationVars, trustVars, outcomeVars, policyVars, edition,
                        notifyVars, scamVars, collection, watchVars, pipeVars, catalogue,
                        fetchVars, handoffVars, threadVars, reviewVars, assessmentVars>>
     \/ /\ part = "outcomes" /\ OutcomeNext
        /\ UNCHANGED <<verificationVars, trustVars, localVars, policyVars, edition,
                        notifyVars, scamVars, collection, watchVars, pipeVars, catalogue,
                        fetchVars, handoffVars, threadVars, reviewVars, assessmentVars>>
     \/ /\ part = "policy" /\ PolicyNext
        /\ UNCHANGED <<verificationVars, trustVars, localVars, outcomeVars, edition,
                        notifyVars, scamVars, collection, watchVars, pipeVars, catalogue,
                        fetchVars, handoffVars, threadVars, reviewVars, assessmentVars>>
     \/ /\ part = "digest" /\ BuildEdition
        /\ UNCHANGED <<verificationVars, trustVars, localVars, outcomeVars, policyVars,
                        notifyVars, scamVars, collection, watchVars, pipeVars, catalogue,
                        fetchVars, handoffVars, threadVars, reviewVars, assessmentVars>>
     \/ /\ part = "notify" /\ NotifyNext
        /\ UNCHANGED <<verificationVars, trustVars, localVars, outcomeVars, policyVars,
                        edition, scamVars, collection, watchVars, pipeVars, catalogue,
                        fetchVars, handoffVars, threadVars, reviewVars, assessmentVars>>
     \/ /\ part = "scam" /\ ScamNext
        /\ UNCHANGED <<verificationVars, trustVars, localVars, outcomeVars, policyVars,
                        edition, notifyVars, collection, watchVars, pipeVars, catalogue,
                        fetchVars, handoffVars, threadVars, reviewVars, assessmentVars>>
     \/ /\ part = "collect" /\ CollectNext
        /\ UNCHANGED <<verificationVars, trustVars, localVars, outcomeVars, policyVars,
                        edition, notifyVars, scamVars, watchVars, pipeVars, catalogue,
                        fetchVars, handoffVars, threadVars, reviewVars, assessmentVars>>
     \/ /\ part = "watch" /\ WatchNext
        /\ UNCHANGED <<verificationVars, trustVars, localVars, outcomeVars, policyVars,
                        edition, notifyVars, scamVars, collection, pipeVars, catalogue,
                        fetchVars, handoffVars, threadVars, reviewVars, assessmentVars>>
     \/ /\ part = "pipeline" /\ PipeNext
        /\ UNCHANGED <<verificationVars, trustVars, localVars, outcomeVars, policyVars,
                        edition, notifyVars, scamVars, collection, watchVars, catalogue,
                        fetchVars, handoffVars, threadVars, reviewVars, assessmentVars>>
     \/ /\ part = "catalogue" /\ CatalogueNext
        /\ UNCHANGED <<verificationVars, trustVars, localVars, outcomeVars, policyVars,
                        edition, notifyVars, scamVars, collection, watchVars, pipeVars,
                        fetchVars, handoffVars, threadVars, reviewVars, assessmentVars>>
     \/ /\ part = "fetch" /\ FetchNext
        /\ UNCHANGED <<verificationVars, trustVars, localVars, outcomeVars, policyVars,
                        edition, notifyVars, scamVars, collection, watchVars, pipeVars,
                        catalogue, handoffVars, threadVars, reviewVars, assessmentVars>>
     \/ /\ part = "handoff" /\ HandoffNext
        /\ UNCHANGED <<verificationVars, trustVars, localVars, outcomeVars, policyVars,
                        edition, notifyVars, scamVars, collection, watchVars, pipeVars,
                        catalogue, fetchVars, threadVars, reviewVars, assessmentVars>>
     \/ /\ part = "thread" /\ ThreadNext
        /\ UNCHANGED <<verificationVars, trustVars, localVars, outcomeVars, policyVars,
                        edition, notifyVars, scamVars, collection, watchVars, pipeVars,
                        catalogue, fetchVars, handoffVars, reviewVars, assessmentVars>>
     \/ /\ part = "review" /\ ReviewNext
        /\ UNCHANGED <<verificationVars, trustVars, localVars, outcomeVars, policyVars,
                        edition, notifyVars, scamVars, collection, watchVars, pipeVars,
                        catalogue, fetchVars, handoffVars, threadVars, assessmentVars>>
     \/ /\ part = "assess" /\ AssessmentNext
        /\ UNCHANGED <<verificationVars, trustVars, localVars, outcomeVars, policyVars,
                        edition, notifyVars, scamVars, collection, watchVars, pipeVars,
                        catalogue, fetchVars, handoffVars, threadVars, reviewVars>>
  /\ UNCHANGED part

Spec == Init /\ [][Next]_<<part, verificationVars, trustVars, localVars, outcomeVars,
                           policyVars, edition, notifyVars, scamVars, collection, watchVars,
                           pipeVars, catalogue, fetchVars, handoffVars, threadVars, reviewVars,
                           assessmentVars>>
=============================================================================
