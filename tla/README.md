# JobHound in TLA+

JobHound is a single-user job-search agent.  A run (`src/jobhound/cli.py`)
collects postings from sources over a bounded HTTP transport, hydrates and
resolves them, decides what each is worth, records the run, and tells the user
what really changed, by email or Telegram.  The part whose mistakes the user
feels is the last one: a card sent twice, never sent, sent out of order, or
counted as delivered when it was not.  This directory models that part first
and in most detail, then the cutover from the older V4.2 delivery, the budget of
HTTP requests that a run may spend, and the other stores and decisions of a
workspace, one module each; and it says what is left.

Contents

1. [Inventory of the system](#inventory)
2. [Modules, and how they correspond to the code](#modules)
3. [Runs: what is checked, with which bounds](#runs)
4. [Disagreements between code and documentation](#findings)
5. [Proofs](#proofs)
6. [Assumptions and abstractions](#assumptions)
7. [Plan](#plan)

## Inventory

Paths are below `src/jobhound/`.

| Component | State it keeps | Operations | Hard behaviour | Correct when |
|---|---|---|---|---|
| Durable outbox, `delivery_outbox.py` | SQLite: subjects, revisions, intents, baselines, aliases, legacy holds | `revise`, `enqueue`, `stage_delivery_run`, `claim_next`, `begin_send`, `finish`, `reconcile`, `_expire`, `import_legacy`, `adopt_legacy_baselines`, `register_alias`, `register_legacy_crosswalk`, `backfill_rollback_receipts` | leases that lapse under a live process, answers that come late or never, revisions that arrive between claim and send | each revision reaches a destination at most once and in order; what is recorded as delivered was delivered |
| Digest transport, `delivery_transport.py` | SQLite: envelopes, frozen membership, parts | `prepare`, `claim`, `begin_part`, `finish_part`, `expire_leases`, `reconcile_part`, `abandon`, `reissue_unsent`, `deliver_destination` | a digest is several provider calls; some succeed, some do not; it goes stale between two of them | the envelope, its parts and its rows tell one story; a digest with an unknown part waits for a reviewer |
| Run store, `v41/store.py` | runs, canonical jobs, transitions, source health, delivery receipts of runs | `record_run`, `record_delivery_run`, `_crosswalk_legacy_urls`, `enable_delivery_production` | old receipts without destination or material; IDs that change | staging is one transaction; an old receipt suppresses one occurrence and no more |
| Notifiers, `notify/` | none | `send_receipt` | a timeout says nothing about arrival | the receipt is truthful or "uncertain" |
| Command line, `cli.py` | none of its own | the run branches: V3, V4.2, durable | crash between any two steps | a repeated run repairs what the crashed one left |
| HTTP transport, `bounded_transport.py` | SQLite: runs, cooldowns, attempts; two semaphores per request | `reserve`, `finish`, `cooldown`, gates, `LimitedStream` | cancellation while two gates are held, a crash after the reservation | never more requests than the ceiling; no gate leaks; cooldowns hold |
| Source budget, `source_budget.py` | SQLite: source_work, source_attempts | `reserve_work`, `inspection`, `cached_inspection`, `check_http`, `sent` | several holders of one reservation | refunds only what was certainly not sent; ceilings hold |
| Source adapters, `sources/`, `pipeline.py` | source health; marks of read mails | `search`, batches, `ingest` | one failing, capped or refused source | a source's report of itself is true and the operator hears of a change |
| Hydration, `v41/hydration.py` | JSON cache of pages, cooldowns per host | fetch, redirect, retry, list or single posting | workers queued behind a gate while a host refuses; cached lists | open is said only of what was open; a host that asked is left alone |
| Resolution, `v41/resolve.py` | JSON memory of verification cycles, pauses, first failures | sweep, midway save, save | a crash in mid-cycle, two processes on one file | the maps agree and charge no failure that did not happen |
| Outcome ledger, `v41/outcomes.py`, `outcome_aliases.py`, `outcome_review.py` | claims, supersession, aliases, bindings, previews | import, project, preview | claims in any order, chains of corrections, reused previews | an accepted journal stays acceptable; only a present selection acts |
| Decision engine, `v41/engine.py`, `provenance.py`, `extract.py`, `requirements.py`, `action_policy.py` ... | none | assess, group, learn | precedence of conflicting evidence in any order | worse evidence promotes nothing; a veto has the last word; groups do not depend on order |
| Digest selection, `v41/digest.py` | none | caps per band, company, platform, refill | overlapping caps with shared counters | every posting is shown, or withheld for better ones, and counted once |
| V4.2 loop, `cli.py`, `v41/store.py` | run rows, receipts per channel | annotate, record, send, mark | record, then send, then mark; overlapping runs | a repeat has a cause |
| V3 pipeline, `pipeline.py`, `store.py` | jobs, mail marks | read, evaluate, upsert, push | everything stored before anything is pushed | nothing is lost or repeated without a cause |
| Scam classifier, `filters/scam_llm.py` | pending queue, daily budget | select, ask, save | failures, setbacks, overlap | everyone gets a turn |
| Trust maintenance, `trust/` | registry, remembered articles, cadence | feedback, review, decay, incident sweep | crash between apply and mark, a save cut short, two writers | score and audit log agree; a story counts once |
| Local profiles, `local_state.py` | profile directories, markers, backups | init, add, backup, restore | crashes and overlap between renames | a marked workspace is whole; a backup is one moment |
| Handoff signals, `handoff_*.py` | a copy of the delivery tables | select, adopt, retire, reissue, dispatch | news against adopted baselines; generations | no news is skipped, no current signal lost |
| Community, `v41/community.py` | none | paged read of a topic, projection | edits between pages, reads that end early | what is reported was the case |
| Text extraction, text filters, join, replay, review reports | none that lasts | text and batch functions | none a model checker reaches | (unit tests) |

How they interact.  One process runs `cli.py`: it writes the run and the
delivery rows in **one** SQLite transaction (`record_delivery_run`), then calls
`deliver_destination` per destination, which reads and writes the same tables
in one short transaction per handler (`BEGIN IMMEDIATE`) with the provider call
*between* two of them.  Nothing else is shared.  A second process (a later cron
run, a trial command, an operator's review command) may be at any point of the
same code at the same time, and any of them may die anywhere.  So the unit of
interleaving is the transaction, and the models have one action per transaction
and one per provider call.

The hazards this code is exposed to, each at its line and with the properties
that cover it, are listed in `PROJECT.json`; the one without a property says why.

## Modules

### Delivery

| Module | Models | State |
|---|---|---|
| `DeliveryTables` | the tables and the questions the code asks of them (`_reserved`, `_subject_reserved`, `_current`, `_set_intents`, `_accept`) | `revisions lastAsOf staged legacy intents baselines envelopes parts`, the processes `courier sender`, and two histories of what the provider took, `mailed posted` |
| `DeliveryOutbox` | `delivery_outbox.py`: staging, and the delivery of single rows | (the same) |
| `DigestTransport` | `delivery_transport.py`: envelopes and parts; `Next`, `Spec` and the properties of the whole | (the same) |
| `DeliveryPromise` | abstract: what a recipient is promised, no queue or process left | `current arrived confirmed` |
| `DeliveryInvariant` | the inductive invariant in named parts and the refinement mapping | |
| `DeliveryProofs`, `DeliveryOnceProofs` | the theorems, one module on the other: reservation and what is known of the provider; what was delivered, and the refinement | |
| `MCDelivery` | small instances for TLC | |

A row of `delivery_intents` is named by its UNIQUE key (subject and sequence of
its revision, destination, generation), an envelope by its creation rank, a
lease token by the process that claimed.  Correspondence of the actions:

| Action | Code | Notes |
|---|---|---|
| `ImportLegacy` | `import_legacy` | every production run calls it first; `StageRun` requires that it has (`LegacyImported`) |
| `Stage` | `record_delivery_run` -> `stage_delivery_run` -> `revise`, `enqueue`, `stage_coverage_updates`, `adopt_legacy_baselines` | one transaction, one action |
| `ClaimNext`, `BeginSend`, `CourierAnswered`, `Finish`, `CourierRefused` | `claim_next`, `begin_send`, the sender, `finish`, `_lease` raising | the order of `dispatch_fake` |
| `ExpireIntent`, `ExpireEnvelope` | `_expire` of either class | see [Assumptions](#assumptions) |
| `Prepare` | `deliverable_intents`, `prepare` | the members and the number of parts are chosen freely |
| `Claim`, `ClaimStale` | `claim`, with `_stale` | |
| `BeginPart`, `BeginPartStale` | `begin_part`, with the attempts check and `_stale` | |
| `SenderAnswered` | `notifier.send_receipt` | answers: taken and said so, taken or not and nothing said, not taken, refused for good |
| `FinishPart`, `SenderRefused` | `finish_part` -> `_settle_part`; its refusal of a lapsed lease | |
| `ReconcilePart`, `Reconcile`, `Abandon`, `ReissueUnsent` | the operator's commands | |
| `CourierDies`, `SenderDies` | the process is killed | the tables stay, the process forgets |

Row-wise delivery (`claim_next` ... `finish`) is today called by an offline
harness (`dispatch_fake`), digests by `cli.py`.  Both work on the same rows and
each has guards against the other (`_reserved`, `_subject_reserved`), so the
model runs them together.

### Cutover

`LegacyCutover` (instances in `MCCutover`) models what `cli.py` does with
V4.2's receipts, which know an ID and a channel and nothing else, over many
runs: import (`Enable`), the URL crosswalk to new IDs (`Link`, `Quarantined`),
staging and adoption (`Record`, `RecordRefused`), aliases registered by a
reviewer (`RegisterAlias`), delivery with the receipts mirrored back for a
rollback to V4.2 (`Deliver`, `Mirrors`).  It abstracts what the delivery modules
model: sending is one step, and there is one destination per channel.  Adoption
follows staging in one transaction, so a held row is never seen between steps.
The delivery modules in turn leave IDs alone: a subject there is what
`subject()` returns here.  `LegacyCutoverProofs` has the theorems.

### Request budget

| Module | Models | State |
|---|---|---|
| `SourceBudget` | `source_budget.py`: the work a source plan allows, its holders, and what was sent for it | `work holders sent` |
| `RequestBudget` | `bounded_transport.py`: the tasks of a run's event loop, its gates, and the tables a restarted or overlapping run finds | `owner pc scope holds target attempt`, the gates `gate hostGate`, the tables `used attempts cooldowns`, `now crashes`, the histories `called asked` |
| `RequestBudgetProofs` | the theorems about both | |
| `MCBudget` | small instances for TLC | |

| Action | Code | Notes |
|---|---|---|
| `Begin`, `EnterInspection`, `Search` | a task starts; `inspection`, `search` -> `reserve_work` | a task started inside an inspection inherits its scope (`ContextVar`) without being a holder, and may outlive it |
| `ReadCache`, `LeaveInspection` | `cached_inspection`; the `finally` of `inspection` | |
| `Ask`, `TakeGate`, `GiveUp` | `handle_async_request` up to the two gates | the place in the run's gate is held while waiting for the host's |
| `Reserve`, `Defer` | taking the host gate, then `reserve` -> `check_http`, `sent`; its refusals | no await in between, and one transaction: one action |
| `Respond` | the inner transport answers; `cooldown` | the gates stay with the body |
| `Complete`, `Interrupt` | `LimitedStream`, and the `except` of `handle_async_request` | writing the outcome may fail, the gates are released |
| `Crash` | the process dies, `RunBudget` is opened again for the same run | tables stay, gates and tasks are new |

Here the unit of interleaving is what lies between two awaits of one event
loop.  Two runs that overlap (two processes, two tasks of the model with
different owners) share cooldowns and nothing else.

### The other stores and decisions

Each of these modules stands alone: it shares no state with the others.
`MCWorkspace` extends them all, and a behaviour picks one `part` and exercises
it, so that one run explores the sum of their state spaces and not the product.
`WorkspaceFiles` has the two values they share, `None` and `Torn` (a file that
does not parse: what a crash leaves of a JSON file half written).  The trust
registry is YAML, and a prefix of it mostly does parse: `TrustMaintenance` says
what is left of it.

| Module | Models | Actions | The question |
|---|---|---|---|
| `VerificationMemory` | the memory of `resolve.py`, saved by `hydration.py` | `StartSweep`, `SaveMidway`, `Conclude`, `StoreMemory`, `EndSweep`, `SweepCrash` of two runs; days pass | do pauses, cycles and first failures agree after any crash or overlap, and charge no failure that did not happen: `MemoryIsTrue` |
| `PostingFetch` | `hydration.py` without a run's transport: cache, gates, cooldowns, redirects, retries, lists and pages | `Take`, `Acquire`, `EnterGate`, `Send` and six answers of two workers; listings change, hours pass, runs restart | `OpenWhenSeen`, `HostsLeftAlone` |
| `TrustMaintenance` | `trust/` and its callers in `cli.py` | `BeginFeedback`, `BeginReview`, `BeginMaintenance`, `Load`, `OpenRegistry`, `WritePart`, `WriteRegistry`, `SearchNews`, `Remember`, `ClerkCrash` ... | `AuditExplainsScore`, `RepeatsNeedInterruptions`, and (violated) `StoryFiresOnce` |
| `LocalState` | `local_state.py` | `Initialize`, `AddProfile`, `Backup`, `Restore` and the steps they are made of; `Edit`, `CommandCrash` | `MarkerMeansComplete`, `BackupIsOneMoment` |
| `OutcomeFacts` | `outcomes.py`: validation, supersession, projection | `ImportBatch`, `Later` | `JournalIsStable` |
| `OutcomeReview` | `outcome_review.py`, `outcome_aliases.py` | `Preview`, `OpenCapture` | `SelectionActs` |
| `ActionPolicy` | `action_policy.py`, `action_constraints.py`, `work_actions.py`, `payout.py` | `Learn`, `Suspect` | `AdviceAgrees` |
| `JobAssessment`, with the functions of `RequirementOutcomes` and `PayEvidence` | `engine.py`, `requirements.py`, `extract.py` | `LearnFact`, `Gather`, `Declare`, `PassDate`, each followed by the assessment | `WorseNeverPromoted`, `AvoidanceSticks`, `FundsFabricateNothing` |
| `Canonicalization` | `provenance.py` and the two evaluations of `engine.py` | `EvaluateBatch`, `EvaluateAgain` | `VacanciesAreSound`, against a reference definition of groups as smallest closed sets |
| `DigestSelection` | `digest.py`, both digests | `BuildEdition` | `WithheldForBetter` |
| `NotifyLoop` | the V4.2 branch of `cli.py`, transitions and receipts of `v41/store.py` | `StartRun` ... `Push`, `MarkNotified`, `RunCrash`; facts change, IDs move | `RepeatsExplained` |
| `DailyPipeline` | the V3 branch: `pipeline.py`, `dedupe.py`, `store.py`, mailbox | `BeginPass`, `ReadMail`, `Evaluate`, `Upsert`, `PushDigest`, `PassCrash` ... | `ToldOnceOrExplained` |
| `ScamQueue` | `scam_llm.py` | `StartPass`, `CheckBudget`, `CountCall`, `AskFails`, `AskAnswered`, `SavePending` ... | `EveryoneGetsATurn` |
| `SourceWatch` | `query_batch.py`, `ats_batch.py`, adapters' loops; health in `v41/store.py` and the alerts of `digest.py` | one collection; `WatchNext` of runs that are dry, crash, fail to send, or tell a digest that names all sources or some and counts the others | `SourcesReportTruly` |
| `HandoffReview` | `handoff_signal.py`, `handoff_review.py`, `handoff_reissue.py` over outbox and transport | `Review`, `CancelStale`, `Dispatch`, `Reconcile` | `DeliveredIsHeard`, `NothingCurrentGivenUp` |
| `CommunityThread` | `community.py` | `BeginRead`, `FetchPage`, `FetchFails`; `AddPost`, `EditPost` | `ReadingIsFair` |

In the parts that are functions of their input (digest, grouping, policy,
assessment), the actions feed one input after the other, in any order, to the
operator that is translated from the code; the property compares the results
with each other or with a reference definition.

The theorems about them are in `LocalStateProofs`, `HydrationProofs`
(`VerificationMemory`, `PostingFetch`, `SourceWatch` and `Canonicalization`), `WorkspaceProofs`
(`OutcomeFacts`, `OutcomeReview`, `TrustMaintenance`, `JobAssessment`, `ScamQueue`,
`CommunityThread` and `ActionPolicy`) and `NotificationProofs` (`NotifyLoop`,
`HandoffReview`, `DailyPipeline` and `DigestSelection`).

## Runs

Every "pass" run explores its whole state space; deadlock is not an error in
these models because all bounds can be used up.

| Run | Instance | Shows |
|---|---|---|
| `couriers` | one job that V4.2 had mailed, email and Telegram, two couriers, two runs, materials open / closed / with facts of the user | `LegacyNotResent`, `StatusFollowsDelivery`: with lapsed leases, late answers and deaths, old receipts and closures go where they should |
| `both_paths` | one job, one destination, a courier and a digest sender, three runs, two envelopes | `OneInFlight`, `PendingIsCurrent`, `DeliveredOnce`, and `KeepsPromise`: the whole implements `DeliveryPromise` |
| `digests` | one job, Telegram, two senders, digests of one or two parts, two attempts | `AcceptedWasDelivered`, `DeliveredOnce` |
| `reissue` | a job and a source-health scope, email, two envelopes, two generations | `DeliveredOnce`, `DeliveredIsFinal` while untried drafts are abandoned and reissued |
| `cancelled_digest` | two jobs, one digest | violated: see [below](#findings) |
| `changed_back` | one job, three runs | violated: see below |
| `cutover` | an old and a new ID at one page and an unrelated job, two old receipts, any number of runs, two revisions per subject | `LinkingNeverBlocks`, `FirstOccurrenceAdopted`, `SuppressedOnce`, `RollbackSees` |
| `shared_page` | two new IDs at the page of one old receipt | violated: see below |
| `requests` | two tasks of one run or of two, one host, with or without credentials, two requests for the first run and one for the second, one restart | `PausesKept`, and `Settles` under fairness |
| `inspections` | two tasks of one run, two routes of one category (core and pilot), one document and one query each, one inspection and one request for the category, one restart | `WithinCeilings`, `OnlyUnsentRefunded` |
| `workspace` | one part of [the other stores](#the-other-stores-and-decisions) per behaviour, 905 713 distinct states in all; its bounds are below | the twenty-two properties of that table |
| `twice_told` | incident news about two platforms in one article, two weeks, one clerk | violated: see below |

Stated in the modules, and not in a run of their own: the type invariants and
the inductive invariants `IInv`, `BudgetInv`, `CutoverInv` and `LocalInv` (proved,
see [Proofs](#proofs)), `ArrivesInOrder`, `StreamsApart`, `GatesBalanced` and
`CallsWithinCap`.  TLC found them true of the instances above; what they add to
the runs' properties is small.

Why the bounds are enough for the questions asked:

* *One job* suffices where the property is about one stream, because every
  guard that looks at other rows looks at rows of the same stream
  (`SameStream`) or of the same envelope; where membership of one digest
  matters, `reissue` and `cancelled_digest` have two streams.
* *Two or three runs* give a revision before, during and after a send.  Three
  are needed for a state that changes back.
* *Two attempts* give a first, a last and a refused attempt.
* *Two parts* give a digest that is half delivered; *two envelopes* one that
  replaces or follows another; *two processes* a live one and one whose lease
  lapsed under it.
* In `cutover`, `MaxSequence = 2` gives a first occurrence and a later change;
  the old ID itself may be observed again, which is how several current
  postings at one URL arise.

* In `requests`, a pause of one or two units and one tick tell a pause that is
  over from one that is not, and two answers in flight at once (of overlapping
  runs) ask for different pauses.  In `inspections` the category allows less
  than its routes together, so that a refund given wrongly shows as one too many.

The bounds of `workspace`, part by part:

| Part | Instance | Why it is enough |
|---|---|---|
| verification | one posting that is shown and one held for want of evidence, of one provider; two runs that overlap, two cycles, two days; either may crash at any step | a save may land before, between and after the other run's read and write; the second day sees what the first left, and one slot is contested |
| fetch | two postings on one host, one read from a list and one with a page that may lead elsewhere, two workers, two requests, one redirect, one retry, one change of a listing, two hours | a worker waits at the gate while the other is refused; a cached list outlives a change |
| trust | one platform, two clerks, two commands, three outcomes, two weeks, one crash | two writers of one registry, and a crash on each side of every write |
| cut | two platforms, one clerk, two commands, three weeks, one crash, anywhere in the file it writes | what is left of the file is read, amended and written back; of two platforms one may be whole and the other cut |
| local | two roots, two profiles, two processes, three commands, two versions of a file, one crash | a backup while a profile is added, an add after a crash, a restore over an unfinished one |
| outcomes | five claims on one application in nine variants, in batches of any order, journals of four | two corrections of one claim, a cycle of corrections, an undated claim |
| review | a role that a later capture knows under another ID and one it does not, three renamings, two previews | a preview answered after the tie it was made for has changed |
| policy, assess | two pieces of evidence beyond the first capture, in every order; platforms listed at .90, .60, .49 and .20 or not at all | an order matters only between two of them; these trusts are above, between and below the priors of sources that are not listed |
| catalogue | four records and three originals, in any order and batches | records that are one vacancy only through a third |
| digest | five openings of three companies and two platforms, every shared cap one or two | caps that bind at once, and a refill after them |
| notify | two overlapping runs, three channels of which one is not configured, two engines, one change of fact, one renaming, two interruptions | a repeat after a crash, after a failed push, after a move |
| pipeline | two copies of an offer and a mail, overlapping passes, cut by a limit or not, one mishap | the same, in the order of the older loop |
| scam | three suspects and two places in a run, two overlapping passes, three calls a day, two days, one setback | someone is always left over, which is what a queue can starve |
| collect, watch | two entries per source, two pages per term, with a limit and without; two sources, a digest that names both or one, three observations, dry, crashed or unsent | the second entry comes after a failure, a cap, a short page or a refusal; a source fails, recovers and fails again, named or only counted |
| handoff | a posting that earlier code may have delivered beside a task, one slot for actions, two reviews, two reissues | the second review meets what the first adopted, retired or left unsent |
| thread | a topic of up to three posts, pages of one, one edit and two additions at any point | a change before, between and after two page reads |

`SYMMETRY` is used for processes, tasks and materials in runs that check
invariants only.

Fairness is assumed in `RequestBudget` only, and only of `RequestStep`: the
event loop runs every task that can go on, and a provider call or a body ends
because `asyncio.timeout_at` ends it.  Nothing makes a task begin, give up
waiting, or make the clock advance, so `Settles` does not lean on the deadline:
a request gets out of the gates because every holder ahead of it does.

## Findings

Four runs show the code doing something else than it says.

* `cancelled_digest` / `CancelReleases`.  When one job of a waiting digest
  changes, `_stale` cancels the digest and sets its other rows back to
  `pending`, but leaves them in `delivery_envelope_items`; `_preparable` and
  `claim_next` refuse any row found there.  The unchanged job is never sent,
  although `deliver_destination` says cancelling "releases their jobs".
* `changed_back` / `OnlyRealChanges`.  `revise` compares with the newest
  revision, not with what the destination last got.  A delivered, B observed
  but not sent, A observed again: A is sent a second time, although "a job
  seen again with nothing changed stays quiet".
* `shared_page` / `LaterChangesAreSent`.  When two current postings share the
  URL of an old receipt, both are held on every run, because the old ID's own
  hold is never cleared and the ambiguous branch of `_crosswalk_legacy_urls`
  has no baseline check.  A posting adopted once is held again, and its next
  real change is taken as delivered without being sent.
* `twice_told` / `StoryFiresOnce`.  `incident_event`'s key is the URL alone and
  a second row for it is ignored (`INSERT OR IGNORE`), while
  `seen_incident_urls` asks per platform.  An article about two platforms is
  remembered for the first only, so every weekly sweep finds it unseen for the
  second and lowers that platform again, although `trust/incidents.py:8-9` says
  a story fires exactly once.

## Proofs

A run checks a property on one small instance; the theorems below hold for
every value of the constants that satisfies the assumptions named with them.

### Delivery

Under `DeliveryAssumption` (subjects are not scopes, a destination has a
channel, processes are told apart, bounds are numbers), for any sets of jobs,
scopes, destinations, runs, couriers and senders and any bounds:

| Theorem | Says |
|---|---|
| `DeliveryProofs!TypeCorrect` | `Spec => []TypeOK` |
| `DeliveryProofs!ReservationsHold` | `Spec => []ReservationInv` |
| `DeliveryProofs!OneRowInFlight` | `Spec => []OneInFlight` |
| `DeliveryProofs!PartsKnown`, `MailKnown` | `Spec => []PartsInv`, `Spec => []MailInv` |
| `DeliveryOnceProofs!Invariant` | `Spec => []IInv` |
| `DeliveryOnceProofs!NoSilentDuplicate` | `Spec => []DeliveredOnce` |
| `DeliveryOnceProofs!NoSilentLoss` | `Spec => []AcceptedWasDelivered` |
| `DeliveryOnceProofs!NoResurrection` | `Spec => []PendingIsCurrent` |
| `DeliveryOnceProofs!ClosuresAreKnown` | `Spec => []StatusFollowsDelivery` |
| `DeliveryOnceProofs!CutoverIsQuiet` | `Spec => []LegacyNotResent`, if every channel has one destination (`OnePerChannel`) |
| `DeliveryOnceProofs!AcceptedForGood` | `Spec => DeliveredIsFinal` |
| `DeliveryOnceProofs!DeliveryImplementsPromise` | `Spec => KeepsPromise`: the refinement of `DeliveryPromise` |

None of these properties is inductive.  `IInv` (in `DeliveryInvariant`) has four
groups, each proved in turn and each using those before it.

*Reservation.*  Whether a courier may claim a row is decided by looking at rows
*and* at envelopes: a row in a waiting digest is only `pending`, yet nothing
else of its job may start.  The strengthening says a row is **hot** when
something may yet be sent from it or may turn out to have been: it is in flight
on its own, or belongs to an envelope that is pending, leased or uncertain.
`ReservationInv` is `TypeOK` with

* `OneHot`: at most one hot row per job and destination,
* `MembersDisjoint`: no row is in two envelopes,
* `MembersFollow`: a member's status follows its envelope's (so a member in
  flight is in a hot envelope, and an envelope that ended holds no row in
  flight),
* `ReplacedIsRetired`: a row that a later generation replaced is superseded and
  its envelope abandoned, so that reissuing cannot make two rows hot.

The proof that a step keeps it is by the kind of step rather than by its
conjuncts: a step moves one row that is not reserved (`OneRowMoves`), or one
envelope with its members (`OneEnvelopeMoves`), or it is staging, `Prepare` or
`ReissueUnsent`, which have lemmas of their own.

*What is known of the provider.*  The provider's side is the two histories
`mailed` and `posted`, which no code reads.  The code knows only what a process
was answered while it held a lease, and the lease may have lapsed since.
`PartsInv` says what a sender at each stage may believe (`SenderKnows`) and what
a part that was taken can look like (`PostedState`: taken once; sending,
uncertain or accepted; an accepted part was taken); `MailInv` says the same of
couriers and rows outside every digest (`CourierKnows`, `MailedState`).  Two
facts carry it: a call about one row or envelope is made by one process at a
time, which holds although its lease may lapse under it, because a lapsed row is
uncertain and waits for the operator; and the operator does not rule while a
call is running (`Quiet`).

*The record.*  `RecordInv` relates the tables to those histories.
`HotIsNewest` is the heart of it: where a row is hot, everything of its job that
arrived at its destination, or was recorded there, is older.  It needs that what
becomes hot is the current revision (`FreeIsCurrent`), that a row replaced by a
reissue was never taken (`ReplacedIsUnsent`), and that rows are of revisions
that exist (`RowsExist`).  Old receipts need `LegacyState`: a held receipt's row
was never free, and one that is no longer held was adopted by a destination of
its channel.  A step is of one of five kinds, and the properties are proved of
the kinds: rows **proceed**, some to their end (`Proceeds`);
the provider **takes** something (`Takes`); a run is **staged** (`StagingMoves`);
or rows are **rearranged**: receipts imported, a digest frozen, an untried draft
reissued.

*The refinement* maps `current` to the number of the newest revision, `arrived`
to the revisions of the rows the provider took and `confirmed` to the
baselines.  A step that takes is `Arrive`, one that proceeds is `Confirm` or a
stutter, and staging is `Observe` or an adoption; `HotIsNewest` gives the
promise's guards.

`OnePerChannel` is a hypothesis of `CutoverIsQuiet` because the property is
about it: V4.2's receipts know a channel and no destination, and a receipt is
used up by one.

### Request budget

`RequestBudgetProofs` proves, under `BudgetAssumption` and `SourceAssumption`
(finitely many tasks, runs, sources and keys; limits are numbers):

* `BudgetInvariant`: `Spec => []BudgetInv`, and from it `BudgetTypes` (gates
  and requests used stay in their ranges),
* `CeilingsHold`: `Spec => []WithinCeilings`,
* `RefundsAreUnsent`: `Spec => []OnlyUnsentRefunded`,
* `PausesAreKept`: `Spec => PausesKept`.

A gate is a counter that many tasks move, and so are the holders of a document;
that a counter stays in its range is not visible in the counter.  `BudgetInv`
ties each to the set it counts: a gate is what is left when the tasks in it are
taken away (`GatesCounted`), a document has at least as many holders as tasks
are in it (`HoldersCounted`: *at least*, because a crash leaves holders behind,
which is why a refund after a crash may be missed and never wrongly made), and
the cooldown table is the latest pause asked for (`PausesNoted`).  The proof has
three parts that hardly touch: the plan's tables (`PlanInv`), the event loop's
gates (`LoopInv`) and the books (`BookInv`).  A step adds at most one document
to any of the sets the ceilings are about, and only when the ceiling has room
(`Grows`, `CeilingsKeep`).

### Cutover

`LegacyCutoverProofs` proves, under `CutoverAssumption` (every ID has a URL,
finitely many IDs can be observed):

* `LinkingIsSafe`: `Spec => []LinkingNeverBlocks`,
* `ReceiptsReachPostings`: `Spec => []FirstOccurrenceAdopted`,
* `ReceiptsAreSpent`: `Spec => []SuppressedOnce`,
* `RollbackIsSafe`: `Spec => []RollbackSees`,

from `CutoverInvariant`: `Spec => []CutoverInv`.  A receipt reaches the posting
it is about as a hold, and the invariant follows the hold: while runs may
record, a receipt of an ID that nothing tracks is a hold of that ID
(`ReceiptsHeld`); once a posting at its URL is tracked it is a hold of the
posting, until the posting's first row on the channel (`PostingsHeld`); then the
row is adopted and, if no other ID has the URL, the hold never comes back
(`AdoptedSettled`).  The condition on the URL is needed: `shared_page` shows
what happens without it.

### Local state

`LocalStateProofs` proves, for any data directories, profiles and processes and
any bounds, under the named assumptions of `LocalState` and `WorkspaceFiles`
(the first profile is a profile, no marker is the value for "none", the marker
is not itself a profile, and "none" is no number):

* `WorkspacesStayWhole`: `LocalSpec => []MarkerMeansComplete`: whatever other
  commands do and wherever a process dies, a workspace that has a marker has
  every profile its marker names.
* `BackupsAreMoments`: `LocalSpec => []BackupIsOneMoment`: a backup that
  finished holds the files as they all were at one moment, though it reads them
  one after the other without a lock.

Neither is inductive.  `LocalInv` adds what each command knows at each stage.
A command that adds a profile has read a marker and put its own directory in
place before it writes the marker back (`AddingOK`); a command that builds or
publishes a workspace works in a stage nobody else touches (`BuildingOK`,
`SealingOK`).  A backup's argument is in two facts.  Versions only grow, and a
file found with the version it was copied at was unchanged in between
(`HashingOK`, `ComparingOK`); and a marker that came back after a change could
deceive the comparison, but names read from a marker stay *seen* and every
later marker adds a name never seen before (`Seen`, `Apart`), so no marker
returns.  Steps fall into kinds with one lemma each: those that touch no root
(`QuietKeeps`), those that end a command (`EndsKeeps`), those that work on an
unmarked root (`UnmarkedStep`), on the archive (`ArchiveStep`) and on a marked
one (`MarkedStep`, `MarkedUndisturbed`).  The proof also shows that the copy
check of `Backup` is redundant: the later comparison alone suffices.

### Hydration

`HydrationProofs` proves, for any postings, runs, workers, hosts and bounds,
under `PositiveCycles`, `NoneIsNoNumber` and `FetchAssumption` (finitely many
workers; a run's budget, a host's gate and the age of a page are numbers):

* `MemoryStaysTrue`: `VerificationSpec => []MemoryIsTrue`: what the memory says
  of cycles, pauses and first failures agrees, whatever crashes or overlaps.
* `OpenOnlyWhenSeen`: `FetchSpec => []OpenWhenSeen`: a posting is said to be
  open as of an hour at which it was listed.
* `HostsAreLeftAlone`: `FetchSpec => []HostsLeftAlone`: no request goes to a
  host that asked to wait, nor beyond a run's budget or a host's gate.

The memory is one file that runs read, change in mind and write back whole.
`MemoryInv` therefore says of every run's mind what the property says of the
file (`MindAgrees`), and a bound on the days they know, since what a run writes
may be days old.  That no posting is charged with failures it did not have holds
only while no two runs overlap; then at most one run has a mind, and both it and
the file stay below the failures there were (`ChargesAreTrue`).  A torn file
reads as no memory, which charges nothing.

A page is kept for its address, and an address may be a list: what one posting's
answer says of its neighbours is used later.  `FetchInv` says that every row of
a kept page was listed at the hour the page came (`PagesTrue`) and that a listed
posting is listed now (`ListedNow`); an answer makes a row of the listed ones,
and reading a page dates its verdict by the page.  The bound on a gate follows a
worker: it moves alone, it enters a gate only if there is room, and inside it
keeps its address (`Moves`, `MovesKeep`), so a redirect leaves the gate first.

### Sources

`HydrationProofs` also proves `TrueReports`: `SourceSpec => []SourcesReportTruly`,
for any entries, answers, limits, sources and runs, under `EntriesAreCounted` and
`NoneIsNoRow`.

A batch of boards, queries or pages that reports itself whole was asked for all
and gave all.  A search (Adzuna) promises less: every page it asked for was read,
and a page it did not ask for lies behind a short page of its term.  It leaves a
term after `max_pages`, and drops rows beyond a limit, without saying so; `TermPages`
is that bound, and the property claims nothing of what lies beyond it.

What a source reports is a function of the answers, computed entry by entry, so
its part of the property is about a recursive function.  Such a function is
followed from one entry to the next: there is a gathering up to any entry
(`ReachesAll`, by the least entry there is none for), `GatheredInTurn` and
`RowsInTurn` say what it has there, and one lemma for each kind of source says
what an entry adds (`AskEntrySteps` for boards, `AskPageSteps` for pages,
`AskTermSteps` for the pages of terms).  What they keep is `BatchSoFar`, `ListSoFar` and
`SearchSoFar`: a gathering that lacks nothing so far was given everything so far.
That nothing is asked after a refusal is `AskedInTurn`.  The operator's picture of
a source's health is `PictureInv`: without a lapse there is one run at most, and
what the operator heard last is either what is stored or what that run will say
(`WillCatchUp`).  The V4.2 digest has a line for every source that is degraded or
changed; that of V5 names the first five and counts the others (`NameLimits` has
any such numbers).  A source that was only counted is neither heard to be degraded
nor to be well, and the property excepts it until a digest names it again.

### Grouping

`HydrationProofs` also proves `VacanciesSound`: `CatalogueSpec => []VacanciesAreSound`,
for any provider records, pages and account states, in any order, under
`InputsAreFinite` (there are finitely many, and at least one page that a report can
follow) and `InputsAreRecords` (lengths are numbers, kinds are the seven the code
ranks).

The reference definition says what a vacancy is without saying how it is found:
the smallest set that holds an observation and whatever links to one it holds.
The code finds it with parent pointers, so the proof has three layers.  Pointers
never lead to a later place, so every climb ends (`ClimbExists`, `ClimbEnds`), and
uniting two clusters moves all that climbed to the later root to the earlier one
(`UniteMoves`).  Hence each parent taken up brings it together with its original,
keeps together what was (`StayTogether`), and brings none together that no chain
of links ties (`OnlyTied`, `ParentJoined`).  The two nested loops keep these
(`ParentsJoined`, `GroupedRightly`), which makes groups and smallest closed sets
the same (`GroupIsTied`).

That the best observation exists and is unique needs the ranking to be a strict
total order on a batch (`BetterIsOrder`, `BestIsThere`).  Names differ since sightings
of one posting are always in one vacancy (`NamesDiffer`), and the ledger balances
since every observation that is left is in exactly one (`LedgerBalances`).  A second
pass evaluates a batch that begins with the first one and adds pages and account
states under IDs of their own (`AppendedGrows`): a vacancy that overlaps an old one
and holds no accepted original consists of one posting, in both batches
(`NamesAreKept`).

### Ledgers

`WorkspaceProofs` proves, for any claims, captures, bindings, platforms, articles
and processes, under `ClaimsComplete` and `ClaimsDated` (finitely many claims,
with dates that are numbers), `TiesAreFinite` and `NoneIsNoRole`,
`ClerksAreFew`, `NoneIsNoJob`, `WeightsAreTenths`, `SeedsInScale` and
`MovesAreWhole` (trust is counted in whole units, of finitely many dimensions):

* `JournalStands`: `OutcomeSpec => []JournalIsStable`: an accepted journal is
  accepted whole at any later time, and what closed an application stands until
  a later claim names it.
* `OnlySelectionsAct`: `ReviewSpec => []SelectionActs`: an attempt acts on a
  role only while the last review selects it there.
* `RepeatsAreInterruptions`: `TrustSpec => []RepeatsNeedInterruptions`: beyond
  its first time, a story moves a platform's trust once at most for each crash
  and each overlapping sweep.
* `AuditHolds`: `TrustSpec => []AuditExplainsScore`: while nobody writes, a registry
  that can be read explains a platform's trust by its seed and the evidence beside
  it, for every platform that no cut save touched (`harmed`).

An import drops the claims that supersede what is not there, then those that
superseded these, round after round.  `CascadeStops` shows that as many rounds
as there are claims suffice: a round that drops something leaves fewer.  What
is accepted is therefore anchored in itself and the journal, which with unique
IDs and past dates (`JournalInv`) is kept by every later import, and
`CascadeSpares` gives back exactly the journal.  The rounds are numbered, and a
claim about every number is proved by looking at the least number it fails for
(`LeastNumber`).

For the trust, no process knows what others hold, so `TrustInv` keeps an
account.  A story that may still move the trust is in the hands of a process
that has not written its incident; one that moved it is in the hands of a
process that will remember it, or of one that crashed.  All of these sweep, and
there is one sweeper more than there were overlaps at most.  A search returns a
story only while it is not remembered, and then the searcher is one sweeper more
than the holders (`SearchKeeps`); that is why the sum can not pass the bound.

The audit is kept by every copy of the registry that a process is about to save as
well as by the file (`AuditInv`), so it does not matter which of them is written
last: a lost update loses its evidence with it.  What a save that is cut short
leaves is a prefix of such a copy, in which only the platform at the cut is out of
step and only those after it are missing; where two processes write at once, the
longer of their texts shows beyond the shorter (`Overlaid`).  `harmed` keeps the
platforms so touched, whether a crash left the file or another process read it
half written, and `HarmedIn` those that the file shows while it is being written.
Amendments and decay treat each platform by itself, so the others stay in order.  That a change adds to the evidence what
it moves is arithmetic, of whole numbers only: the composite is a fold over the
dimensions, of which `SumIsWhole` shows that it exists and is a number, by the
size of the set summed over, and a positive delta was halved as often as the
event was reported before (`DiminishedIsWhole`).

### The V4.2 loop

`NotificationProofs` proves, for any postings, facts, engines, runs and channels,
under the named assumptions of `NotifyLoop` (what is reachable is configured):

* `NotifyRepeatsExplained`: `NotifySpec => []RepeatsExplained`, if no channel is
  configured twice (`ChannelsOnce`; the code does not check it, and a channel
  named twice is told everything twice).

A run looks at the receipts once, at its start, and sends later; what it sends
is noted later still.  For a posting and a channel call *slack* what crashes,
failed sends, overlapping runs and a new ID allow and repeats have not used.
A run that may still send can repeat once, so a slack above the number of such
runs is safe, and every interruption makes it so: a crash or a failed send adds
one, an overlapping run two.  What is left are the few situations an undisturbed
run is in, and the first overlap of two (`Account`): nothing runs and the newest
receipt is of what the channel last heard (`Settled`); one run looked at such
receipts and did not send yet (`BeforeSend`), or sent and did not note it
(`AwaitsNote`), or noted it (`AfterSend`); two runs of which neither looked
(`BothLook`), or one did (`FirstLooked`), or the other repeated already and the
one that looked will not (`OneRepeated`).  Two runs may both tell a posting as
new, but then the second repeats and the first does not, which is why an
overlap costs two at most.  Each action is one of a few kinds for an account,
with a lemma each: it pays (`PaidStep`), it leaves posting and channel alone
(`WorldAccounts`, `AdvanceAccounts`), it looks, notes, ends or starts, or it is
a push to this very channel (`UnsureAccounts`, `PushedAccounts`).

### The V3 loop

`NotificationProofs` also proves `NewsToldOnce`: `PipeSpec => []ToldOnceOrExplained`,
for any mails, copies of postings, employers, caps and limits, under the named
assumptions of `DailyPipeline` (finitely many copies and runs, IDs that have an
order, outlets that include the configured ones, a verdict that is not "none")
and `OutletsOnce` (no outlet is configured twice; the code does not check it).

The invariant, `PipeInv`, follows an offer from the marked mail to the table
(`MailKept`), a posting that was surfaced when first stored from there to the
outlets (`SurfacedKept`), and counts for every posting and outlet the runs that
may yet tell the one of the other (`ToldKept`).  A run that saw a posting as
unseen looked before the posting was first stored, so all such runs were under
way at that moment, and there was one more of them at most than runs had
overlapped (`CrowdKept`); a run that may tell an outlet does so once, since its
queue has no outlet twice (`RestOfQueue`).  Deduplication is followed record by
record (`DedupedInTurn`): no posting is kept twice and none is lost
(`DedupeKeepsAll`), and sorting by ID gives every entry a place (`OrderIsComplete`).
Every action is then a step of one run that keeps these things (`PassStep`).

### The digest

`NotificationProofs` also proves `DigestIsJust`: `EditionSpec => []WithheldForBetter`,
for every finite set of postings, whatever their companies and platforms, and
for all caps, under `OpeningsInOrder` (the postings are numbered in their
priority order) and `CapsAreNumbers` (the code takes a negative cap for zero).

A ledger is `Fair` about a set of postings when it counts each of them once, shows
none twice, has kept the company caps and has withheld no candidate for nothing.
The three sections of the daily digest and the one list of the release are walks
(`WalkedInTurn`), and every entry taken keeps the ledger fair about one posting
more (`HoldsFair`, `ShowsFair`).  The counters of the code do not ask what was
shown first; that they only count what comes before the posting at hand holds
because the list is in order (`OrderRises`) and each section comes after the one
before it.  The exception is a section that is filled up from what waited, where
a later posting may be shown before an earlier one that waits.  There the proof
needs that the section has a single source: once its platform is full, nothing
after that is shown in the first pass, so all that is shown comes before all
that waits (`FirstPass`, `FirstShows`, `OneSource`).  Once withheld a posting stays
so, since rivals only increase (`WithheldStays`).

### Handoff reviews

`NotificationProofs` also proves, for any jobs, targets, findings and reissue
plans, under `BoundsAreNumbers`, `FewTargets` (finitely many destinations) and
`PastsAreOld` (what earlier code delivered has an earlier material schema):

* `NothingIsGivenUp`: `HandoffSpec => []NothingCurrentGivenUp`: a signal of the
  current revision that was never attempted stays pending.
* `AdoptionSkipsNoNews`: `HandoffSpec => []DeliveredIsHeard`: what counts as
  delivered is what the target heard of last.

Neither is inductive.  `TablesTrue` says it of the four tables a review works on,
together with what they rest on: a row that exists is of a revision, and its card
has that revision's material (`RowsTrue`); a row of an earlier schema was
accepted, and while it is the baseline the card it kept is the one heard last,
which is why an acceptance may stand for another revision; a draft holds
existing rows of the present schema (`DraftsTrue`), so no answer touches what
earlier code left; a baseline is a revision of what was heard last
(`BaselinesTrue`).  A review is its stages on these tables, with a lemma each:
staging (`StagingKeepsTrue`, with `AdoptionSound` for the adopted baselines),
retirement (`RetireKeepsTrue`: a retired draft has no current row), reissue
(`ReissueKeepsTrue`: a plan names every current row of the drafts it abandons,
and each has another generation in its place) and composition
(`CompositionKeepsTrue`).  Which jobs a review selects does not matter; that it
selects among those offered does.

### The assessment

`WorkspaceProofs` also proves, for any facts, observations, demands, declarations and
days, under `DeclarationsDated`, `LanguagesAsked` (a language demand names a
language; `requirements.py` makes no other), `ClaimsAreScoped`,
`FirstSeenExist` (a posting has a first observation), `KindsAreKnown` (an
observation is of one of the seven kinds of source) and `NoneIsNoState`:

* `AvoidanceStands`: `AssessmentSpec => []AvoidanceSticks`: what the user avoids
  is not shown as ready to apply to.
* `FundsChangeNothing`: `AssessmentSpec => FundsFabricateNothing`: a text that
  says nothing of the pay changes nothing of it.
* `WorseNeverRises`: `AssessmentSpec => WorseNeverPromoted`: learning something worse
  of a posting moves it neither to a better band nor to an earlier place, for any
  list of platform trusts (`BestTrustFirst`: they are hundredths, best first).

All rest on what the assessment is a function of, so their invariants are short
(`AssessmentInv`, `PayInv`, `AssessedInv`) and the lemmas are about the operators.  For the
first, the declarations in force are the latest (`SomeInForce`), a task avoided
since the last permission is avoided or undecided (`AvoidedState`), and either
leaves an objection or a doubt (`DemandNotMet`, `DemandCounts`).  The second
compares the evidence with and without the text: what it adds is read
(`ReadBesides`) but not about the work (`ClaimsBesides`), it joins no two
lineages (`LineageKept`), so every claim keeps its credibility, also one that
another text repeats (`CredibilityKept`), and the same claim is selected and
contradicted by the same ones (`SelectionKept`, `ContradictionKept`).

For the third, the fifteen ladders order the values of each fact, and `NoBetter`
is what a step down any of them (`StepsDown`) leaves of it for the rules: a condition
that held against the posting holds still.  A rule may hand over to another (a weak
match of a short text stops being "low evidence" once it is a sales role, and
becomes a mismatch), so what is shown is not that each ground stays but that
without any ground now there was none before (`ObjectionsStay`); then the same of
the doubts and of eligibility, which look at different facts when there are no
objections (`DoubtsStay`, `EligibilityStays`).  So the band falls, and each
component of the priority with it (`TrustFalls`, `FreshnessFalls`, `RanksFall`,
`WorseStands`).  The trust is the exception to the ladders that the property states:
of two listed trusts the lower is the worse, but that a platform is listed at all
is worse only if it lowers what counts.  The code counts a trust below .50 as 8
less and gives a platform that is not listed the prior of its source, so a posting
of an unknown source (40) whose platform turns out to be listed at .49 (41) moves
up, and an email offer (70) whose platform is listed at .55 moves down.

### The classifier's queue and the forum topic

`WorkspaceProofs` also proves:

* `TurnsAreGiven`: `ScamSpec => []EveryoneGetsATurn`, for any postings, processes
  and limits under `SuspectsInOrder` (finitely many, numbered in the order of
  the run's result), `AskersAreFew` and `BatchesAreSmall` (the code forces the
  batch size between 1 and 20).
* `ReadsAreFair`: `ThreadSpec => []ReadingIsFair`, for any topic, page sizes and
  budgets; it needs no assumption.

A pass that nothing disturbs leaves a queue of at most `JobsPerRun` postings when
no more than twice as many are suspicious, and it takes the whole of such a
queue (`PendingComeFirst`).  So after such a pass every posting is on a list of
the next one.  A setback breaks that and may leave a longer queue, of which the
next pass asks only the start: a posting may be passed over by the pass that was
disturbed and by the one after it.  `Account` keeps this book for a posting:
passes and processes under way are paid for by setbacks; or nothing is under way
and the posting is in a short queue; or one pass is, undisturbed; or one that
will ask about it.  TLC finds the bound of one turn for a setback violated with four
postings, two places and a failed call, so the bound of two is not loose by
choice.

For a topic, `ReadAgrees` says what a read under way knows: as long as no post was
edited, what it has is the topic's, and if the posts it listed say "closed" then
the topic did at some time of the read.  Posts that are added later leave that
alone, since they are not among those listed.  A part read closes nothing, so
only a read of all the listed posts counts (`ProjectionFair`).  That the terms
are the newest follows from the last declaration being the latest by date, and
that no amount beside them was edited since from the guard that withholds them
otherwise (`TermsAreNewest`).  An edit later than the time a run observes at is
read as undated and escapes the guard; where none fell into the read there is no
such edit (`EditsKnown`).

### The action policy

`WorkspaceProofs` also proves `AdviceHolds`: `PolicySpec => []AdviceAgrees`, for
every combination of evidence and not only those within `MaxChanges` of a first
capture, under `NoneIsNoWord` (the absence of a reason is none of the reasons).

A dozen rules overwrite each other's answer, so what a ready answer rests on is
found by following it back to the rule that gave it.  Each rule therefore has a
lemma that says it leaves an answer as it is or makes one that is not ready:
`Advised` is what holds of an answer before the reports (`FirstAdvised`,
`ThreadAdvised`, `WaitingAdvised`), `Standing` after them (`ReportedStands`,
`WorkStands` for claims about existing work, `SilenceStands` where they are
silent) and `Stood` after the binding, the closing, the due time, the blockers
and the payout minimum.  `ReadyIsChecked` reads the checks off an answer that
stands and is ready, `BandVetoes` the last word of a veto off the finalized one.
The suspicion of the language model is the one step that decides without a new
assessment, so the invariant `PolicyInv` also keeps, as long as there is none, that a
plan that only reads is not ready: otherwise a suspicion that such work outranks
would leave a ready card (`SuspectKeeps`).

### What is not proved

Every safety invariant that a run checks is stated by a theorem, except where a
run is meant to find a violation.  Model-checked only: `Settles` of the request
budget, which is liveness.  Out of the prover's reach altogether: liveness under
fairness and `ENABLED`.  The library's induction theorems cannot be used here
either, so a recursive function is proved about only by its least counterexample:
the cascade of the journal, the composite of a platform's dimensions, the halving
of repeated evidence, what a source gathers, the deduplication of what a daily run
fetched, the walk of a digest, and the climb to a root with the loops that join.

## Assumptions

* *Clocks* are left out of delivery.  That a lease has lapsed, or that a back-off is over,
  is a choice made whenever the code looks.  This allows more than the code
  does, so safety carries over.
* `_expire` is called first in every handler.  It is a step of its own here
  (`ExpireIntent`, `ExpireEnvelope`): the handler's transaction is that step
  followed by the handler's own.
* *Order of picking* (`ORDER BY`, limits per run) is left out: any eligible row
  or envelope may be next.  `deliver_destination`'s order is one of those.
* *Providers* are truthful or silent: an acceptance means arrival, "not sent"
  and a permanent refusal mean none; anything else is uncertain.  This is what
  `notify/receipt.py` asks of a notifier.
* *The operator* reconciles with the truth, and reconciles or abandons only
  when no provider call about the row is still running (`Quiet`).  The code
  asks for evidence and cannot check it.
* A process holds one claim at a time, and a token is its process: claims of
  one process follow each other, and a process that died forgets its token.
* In `DigestTransport` a digest's choice of cards is free within the caps; rendering is left out.
* One workspace and one profile: every query is restricted to them.
* Generations are numbered from 1 (from 0 in the code).
* A run submitted again with the same request returns the stored report
  (`v41/store.py:690-697`); here it is simply not a step.
* No fairness is assumed of delivery: its properties so far are safety
  properties.
* In the budget, a route has one host, a task is in one inspection at a time
  (two holders are two tasks), the size and encoding limits of a body are one
  way to be interrupted, and the wall clock and the monotonic clock agree.  A
  pause whose recording fails is not kept; the code lets that request fail.
* Two processes never work under one run ID at a time: `cli.py` makes a fresh
  ID per run, a review has its workspace to itself.

* *Other stores*: a file is read and written in one step each, unless the code
  writes it in several; a rename is atomic and a plain write may be torn by a
  crash.  SQLite's transactions are atomic.
* The trust registry is emptied, then a part of it is on the disk or all of it, and
  either may be read.  A part is cut anywhere; a number cut among its digits (`0.5`
  of `0.55`) counts as missing, since what matters is that the platform at the
  cut is out of step.  A platform's evidence is kept as the running sums of its
  deltas.
* A text is what the code finds in it: a verdict of each gate, a set of claims,
  a set of demands.  Whether two texts are alike is a relation the instance
  gives; it need not be transitive.
* `PostingFetch` has the budget that hydration keeps for itself; under a run's
  bounded transport the budget is `RequestBudget`.
* Days, hours and weeks are ticks, at which every duration of the code is one
  or two.
* `HandoffReview` takes one destination, email, with digests of one part;
  `CommunityThread` takes the topic's first post as the request.

### Not modelled

See `components` in `PROJECT.json` for each part.  In general: regular
expressions and other text extraction, rendering, field mapping of the network
adapters, and reports that only read.  In particular: `--full-preview` and
pushes of alerts alone; coverage signals, legacy holds, Telegram parts and the
operator's `abandon` in handoffs; a reply's own routes in a topic; work terms
and payment arithmetic of outcomes; role priority, the penalty for
onboarding cost, urgency order and junk detection in the assessment.

### What the models show beside their properties

Behaviour met while modelling that no run states as a disagreement, and that a
maintainer may want to know:

* Delivery: a job whose text changed and whose buyer terms are new is held for
  review rather than told (`handoff_signal.py:163-167`).  A current signal that
  failed for good is recorded as queued or held and cannot be reissued.  A
  failed reissue leaves a marked copy of the previous database in the new
  directory.
* V4.2 loop: a promotion recorded in a dry run, hidden by a cap or in a failed
  push is never told.  One channel that works silences another that fails.
  Source-health alerts and the weekly cadence are used up by dry runs.  A
  channel listed twice in the configuration is told everything twice.
* V3 loop: it stores before it pushes, so a failed push, or a posting cut by a
  cap, is never pushed later.  A mail is marked read before its offer is
  stored.
* Scam queue: a failed call may cost a posting two turns, its own pass and the
  next, which takes the start of the longer queue.  Beyond twice `JobsPerRun` postings that stay suspicious, others
  starve, though a comment (`scam_llm.py:293-294`) says the order prevents it; overlapping runs
  check and count the day's budget in two steps and may exceed it.
* Verification: postings that need no more evidence may hold the daily slots;
  a request that was put off counts as a failed cycle.
* Fetching: a 429 after a redirect is noted for the host first asked
  (`hydration.py:671`).  A retry after a 5xx follows no redirect and parses the
  body of a 3xx.  An unlisted Ashby posting is open to hydration and closed to
  discovery.  `source_health_state` has the source as its key, but rows of
  hydration reuse its names (`resolve.py:719-724`), so a recovery is told
  where nothing changed.  Adzuna leaves a term after its last
  page allowed, and `Source.fetch` cuts a search to the limit, both silently.  A source
  that the V5 digest only counts (`digest.py:17-26`, `742-746`) is stored as alerted:
  one that recovers so is never named.
* Trust: a save of the registry that is cut short after a platform's dimensions
  leaves its moved score without evidence (`registry.py:58-64`).  The next command
  reads the prefix, amends it and writes it back as the whole registry, although
  `trust/update.py:57-59` calls it a complete audit log; `AuditExplainsScore`
  exempts such a platform.
* Local state: two concurrent `add_profile` can lose a name from the marker; a
  crash inside it leaves files that make the next backup refuse.
* Outcomes: an undated cycle of corrections leaves no current fact.
* Policy: the verification overlay hides that an operator's state has expired
  (`action_policy.py:136-140`); the payout minimum is not checked for work that
  exists on a closed vacancy.
* Requirements and pay: a later "allow basic" lifts an earlier "avoid advanced"
  (`requirements.py:709-729`); a missing degree inside an any-of group blocks
  although its alternative is only unverified (`requirements.py:652`); an
  hourly claim in a currency without a rate is called viable
  (`engine.py:574-577`); detection of duplicate claims is not transitive
  (`extract.py:951-965`).
* Community: a post edited between two page reads can make up a closure that
  never was; without edits what is read was the case.

## Plan

Done: the outbox, the digest transport, their composition, the abstract promise,
the cutover, the request budget with the source budget, the other stores and
decisions, and the theorems above.  Left, in this order:

1. `DeliveryRun`: `deliver_destination` as a process with `plan_dispatch` and
   per-run limits, for the hazard no property covers yet: that a backlog of
   retries leaves room for new rows, under weak fairness of the daily run.
2. Larger compositions: `HandoffReview` over the full transport, and
   `NotifyLoop` followed by the cutover.
