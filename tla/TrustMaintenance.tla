-------------------------- MODULE TrustMaintenance --------------------------
(***************************************************************************)
(* The trust registry: one YAML file of platforms, their trust dimensions  *)
(* and the evidence for each change.  Every change loads the whole file,   *)
(* amends it and writes it back; the feedback log, the remembered articles *)
(* and the sweep's cadence are in SQLite, committed row by row.  The       *)
(* scheduled run (decay, then the weekly news sweep) and the operator's    *)
(* commands are processes with no lock between them.                       *)
(* The evidence list of a platform is kept as the running sum of its       *)
(* deltas.  A file that was cut short mostly parses all the same: as the   *)
(* platforms before the cut, the last one with a piece of its entry.       *)
(***************************************************************************)
EXTENDS WorkspaceFiles, FiniteSets, Sequences, Functions, FiniteSetsExt

CONSTANTS
  Platforms,       \* the keys of the registry, in the order of the file
  Clerks,          \* the processes
  Dims,            \* the trust dimensions
  Weight,          \* the weight of each dimension, in tenths
  Seed,            \* the dimensions of each platform in the seed file
  Prior,           \* the decay target of each platform
  FullScale,       \* 1.0, in the units of a dimension
  Outcomes,        \* feedback events
  OutcomeDelta,    \* the dimensions an event moves, and by how much
  ReviewCap,       \* the most a review moves a dimension
  IncidentLoss,    \* what an incident takes
  DecayRate,       \* drift per week
  MinIdle,         \* weeks before a platform drifts
  SweepEvery,      \* weeks between two sweeps
  Lookback,        \* weeks an article stays fresh
  MinSources,      \* outlets that must carry a story
  Articles,        \* [names, outlet, published, dim] of each known URL
  LastWeek,        \* bound: the last week of a behaviour
  MaxCommands,     \* bound: commands begun
  MaxCrashes       \* bound: crashes

ASSUME WeightsAreTenths == Weight \in [Dims -> 0..10]
(* The processes of one machine; no value is no job.                       *)
ASSUME ClerksAreFew == IsFiniteSet(Clerks)
ASSUME NoneIsNoJob == None \notin {"feedback", "review", "decay", "incident"}
ASSUME SeedsInScale == Seed \in [Range(Platforms) -> [Dims -> 0..FullScale]]
(* Trust is counted in whole units of a dimension.                         *)
ASSUME MovesAreWhole ==
  /\ IsFiniteSet(Dims) /\ FullScale \in Nat
  /\ {ReviewCap, IncidentLoss, DecayRate, MinIdle} \subseteq Int
  /\ Prior \in [Range(Platforms) -> Int]
  /\ \A e \in Outcomes : \A d \in DOMAIN OutcomeDelta[e] : OutcomeDelta[e][d] \in Int

(* A platform is one key of the file.                                      *)
ASSUME KeysAreDistinct ==
  /\ Platforms \in Seq(Range(Platforms))
  /\ \A i, j \in DOMAIN Platforms : Platforms[i] = Platforms[j] => i = j

(* An entry of the registry that has its dimensions.                       *)
RegistryEntries ==
  [dims : [Dims -> Int], logged : Seq(Int), prior : Int \cup {None},
   reviewed : Int \cup {None}]

ASSUME TornIsNoEntry == Torn \notin RegistryEntries

VARIABLES
  registry,        \* platform_registry.yaml: the entries it lists, or Torn
  shared,          \* whether two processes had it open at once, and one has it still
  feedbackRows,    \* how many feedback_events rows an outcome has
  incidentRows,    \* the platform an article is remembered for, or None
  lastSweep,       \* meta: last_incident_sweep, or None
  clerk,           \* what each process holds
  week, commands, crashes,
  fired,           \* history: how often a story moved a platform's trust
  overlaps,        \* history: sweeps begun while another was under way
  harmed           \* history: the platforms where a save was cut short, or after

trustVars == <<registry, shared, feedbackRows, incidentRows, lastSweep, clerk, week,
               commands, crashes, fired, overlaps, harmed>>

Keys == Range(Platforms)

(* composite_trust: the weighted sum, rounded to a whole unit.             *)
Composite(dims) == (SumFunction([d \in Dims |-> Weight[d] * dims[d]]) + 5) \div 10

InScale(x) == IF x < 0 THEN 0 ELSE IF x > FullScale THEN FullScale ELSE x

AtHand == [at |-> "idle", job |-> None, on |-> None, event |-> None,
           deltas |-> <<>>, copy |-> Torn, queue |-> <<>>, news |-> {}]

TrustInit ==
  /\ registry = [p \in Keys |->
       [dims |-> Seed[p], logged |-> <<0>>, prior |-> Prior[p], reviewed |-> 0]]
  /\ shared = FALSE /\ harmed = {}
  /\ feedbackRows = [p \in Keys |-> [e \in Outcomes |-> 0]]
  /\ incidentRows = [a \in DOMAIN Articles |-> None]
  /\ lastSweep = None
  /\ clerk = [c \in Clerks |-> AtHand]
  /\ week = 0 /\ commands = 0 /\ crashes = 0
  /\ fired = [p \in Keys |-> [a \in DOMAIN Articles |-> 0]]
  /\ overlaps = 0

----------------------------------------------------------------------------
(* Amendments of one platform's entry.  What a change adds to the evidence *)
(* is the move of the composite, after the dimensions were clamped.        *)
Logged(entry) == entry.logged[Len(entry.logged)]

Evidenced(entry, dims) ==
  [entry EXCEPT
     !.dims = dims, !.reviewed = week,
     !.logged = Append(@, Logged(entry) + Composite(dims) - Composite(entry.dims))]

(* Fault: the evidence says what was asked for, not what the clamp left.   *)
AmendedAsAsked(entry, deltas) ==
  LET asked == SumFunction([d \in DOMAIN deltas |-> Weight[d] * deltas[d]]) IN
  [entry EXCEPT
     !.dims = [d \in Dims |-> IF d \in DOMAIN deltas
                              THEN InScale(entry.dims[d] + deltas[d]) ELSE entry.dims[d]],
     !.logged = Append(@, Logged(entry) + (asked + 5) \div 10), !.reviewed = week]

Amended(entry, deltas) ==
  Evidenced(entry, [d \in Dims |-> IF d \in DOMAIN deltas
                                   THEN InScale(entry.dims[d] + deltas[d])
                                   ELSE entry.dims[d]])

(* event_deltas: a positive delta counts half, and half of that again for  *)
(* every earlier occurrence.                                               *)
Diminished(delta, prior) ==
  LET left[n \in 0..prior] == IF n = 0 THEN delta \div 2 ELSE left[n - 1] \div 2
  IN left[prior]

EventDeltas(e, prior) ==
  [d \in DOMAIN OutcomeDelta[e] |->
     IF OutcomeDelta[e][d] > 0 THEN Diminished(OutcomeDelta[e][d], prior)
     ELSE OutcomeDelta[e][d]]

(* apply_decay: an idle entry drifts towards its prior, not past it; one   *)
(* without a date counts as idle, one without a prior stays.               *)
WeeksIdle(entry) == IF entry.reviewed = None THEN MinIdle ELSE week - entry.reviewed

Drifted(entry) ==
  LET gap == entry.prior - Composite(entry.dims)
      drift == DecayRate * WeeksIdle(entry)
      delta == Max({-drift, Min({drift, gap})})
  IN IF WeeksIdle(entry) < MinIdle \/ entry.prior = None THEN entry
     ELSE IF gap = 0 THEN entry
     ELSE Evidenced(entry, [d \in Dims |-> InScale(entry.dims[d] + delta)])

Decayed(data) == [p \in DOMAIN data |-> Drifted(data[p])]

----------------------------------------------------------------------------
(* What is left of a save that was cut short: nothing that parses, or the  *)
(* platforms up to some one, of whose entry there may be less than its     *)
(* dimensions (Torn), its dimensions without what follows them, or all but *)
(* its last evidence; a number cut among its digits counts as missing.     *)
Pieces(entry) ==
  IF entry = Torn THEN {Torn}
  ELSE {Torn} \cup
       {[entry EXCEPT !.logged = <<0>>, !.reviewed = None, !.prior = prior] :
          prior \in {None, entry.prior}} \cup
       {[entry EXCEPT !.logged = SubSeq(@, 1, n)] : n \in DOMAIN entry.logged}

CutAt(data, n, piece) ==
  [p \in {Platforms[i] : i \in 1..n} \cap DOMAIN data |->
     IF p = Platforms[n] THEN piece ELSE data[p]]

PlacesOf(data) == {n \in DOMAIN Platforms : Platforms[n] \in DOMAIN data}

CutShort(data) ==
  {Torn, <<>>} \cup
  UNION {{CutAt(data, n, piece) : piece \in Pieces(data[Platforms[n]])} : n \in PlacesOf(data)}

(* The platform a file ends with.                                          *)
Ends(data) ==
  {Platforms[n] : n \in {m \in PlacesOf(data) : \A k \in PlacesOf(data) : k <= m}}

(* Two processes that wrote at once: what the other left beyond the end of *)
(* this one's is taken for further evidence or further platforms.          *)
Overlaid(data, other) ==
  IF other = Torn THEN {Torn}
  ELSE {Torn, [p \in DOMAIN data \cup DOMAIN other |->
                 IF p \in DOMAIN data THEN data[p] ELSE other[p]]} \cup
       {[data EXCEPT ![p].logged = other[p].logged] :
          p \in {q \in Ends(data) \cap DOMAIN other : Torn \notin {data[q], other[q]}}}

(* Where a cut tells: the platform a file ends with, and those not in it.  *)
HarmedIn(data) == IF data = Torn THEN {} ELSE Ends(data) \cup (Keys \ DOMAIN data)

OthersWrite(c) == \E o \in Clerks \ {c} : clerk[o].at = "write"

(* A process that reads the file while it is written takes what it finds.  *)
CountReading(c) ==
  harmed' = IF OthersWrite(c) THEN harmed \cup HarmedIn(registry) ELSE harmed

----------------------------------------------------------------------------
(* The commands.                                                           *)
Begin(c, next) ==
  /\ clerk[c].at = "idle" /\ commands < MaxCommands
  /\ commands' = commands + 1
  /\ clerk' = [clerk EXCEPT ![c] = next]

(* The feedback command counts the earlier rows; an outcome that moves     *)
(* nothing is only logged.                                                 *)
BeginFeedback(c) ==
  /\ \E p \in Keys, e \in Outcomes :
       LET deltas == EventDeltas(e, feedbackRows[p][e]) IN
       IF DOMAIN deltas = {}
       THEN /\ Begin(c, AtHand)
            /\ feedbackRows' = [feedbackRows EXCEPT ![p][e] = @ + 1]
       ELSE /\ Begin(c, [AtHand EXCEPT !.at = "load", !.job = "feedback",
                                       !.on = p, !.event = e, !.deltas = deltas])
            /\ UNCHANGED feedbackRows
  /\ UNCHANGED <<registry, shared, incidentRows, lastSweep, week, crashes, fired, overlaps, harmed>>

BeginReview(c) ==
  /\ \E p \in Keys, rating \in {-ReviewCap, ReviewCap} :
       Begin(c, [AtHand EXCEPT !.at = "load", !.job = "review", !.on = p,
                               !.deltas = [d \in Dims |-> rating]])
  /\ UNCHANGED <<registry, shared, feedbackRows, incidentRows, lastSweep, week,
                 crashes, fired, overlaps, harmed>>

SweepDue == IF lastSweep = None THEN TRUE ELSE week - lastSweep >= SweepEvery

(* A process that goes on to sweep: over every platform it knows.          *)
ToSweep(known) ==
  [AtHand EXCEPT !.at = "sweep", !.queue = known]

Sweeping(c) == clerk[c].at # "idle" /\ clerk[c].job \notin {"feedback", "review", "decay"}

CountOverlap(c) ==
  overlaps' = overlaps + (IF \E o \in Clerks \ {c} : Sweeping(o) THEN 1 ELSE 0)

(* The platforms a run sweeps: those it read when it began, or reads now.  *)
Known ==
  {Platforms} \cup
  (IF registry = Torn THEN {} ELSE {SelectSeq(Platforms, LAMBDA p : p \in DOMAIN registry)})

(* load_registry wants every entry whole.                                  *)
EntriesWhole ==
  registry # Torn /\ \A p \in DOMAIN registry :
    registry[p] # Torn /\ None \notin {registry[p].prior, registry[p].reviewed}

(* Maintenance loads the registry for the decay: one that does not parse,  *)
(* or an entry without dimensions, ends the run.                           *)
Decayable == registry # Torn /\ \A p \in DOMAIN registry : registry[p] # Torn

BeginMaintenance(c) ==
  /\ \/ /\ ~Decayable /\ Begin(c, AtHand)
        /\ UNCHANGED <<overlaps, harmed>>
     \/ /\ Decayable /\ Decayed(registry) # registry
        /\ Begin(c, [AtHand EXCEPT !.at = "save", !.job = "decay", !.copy = Decayed(registry)])
        /\ CountReading(c)
        /\ UNCHANGED overlaps
     \/ /\ Decayable /\ Decayed(registry) = registry /\ SweepDue
        /\ \E known \in Known : Begin(c, ToSweep(known))
        /\ CountOverlap(c)
        /\ UNCHANGED harmed
     \/ /\ Decayable /\ Decayed(registry) = registry
        /\ ~SweepDue \/ ~EntriesWhole
        /\ Begin(c, AtHand)
        /\ UNCHANGED <<overlaps, harmed>>
  /\ UNCHANGED <<registry, shared, feedbackRows, incidentRows, lastSweep, week, crashes, fired>>

----------------------------------------------------------------------------
(* The steps the commands share.                                           *)

(* _apply_deltas up to the save: a registry that does not parse, does not  *)
(* list the platform or lacks its dimensions ends the command.             *)
Amendable(p) == registry # Torn /\ p \in DOMAIN registry /\ registry[p] # Torn

Load(c) ==
  /\ clerk[c].at = "load"
  /\ clerk' = [clerk EXCEPT ![c] =
       IF ~Amendable(clerk[c].on) THEN AtHand
       ELSE [@ EXCEPT !.at = "save",
                      !.copy = [registry EXCEPT ![clerk[c].on] = Amended(@, clerk[c].deltas)]]]
  /\ CountReading(c)
  /\ UNCHANGED <<registry, shared, feedbackRows, incidentRows, lastSweep, week,
                 commands, crashes, fired, overlaps>>

(* write_text: opening the file empties it.                                *)
OpenRegistry(c) ==
  /\ clerk[c].at = "save"
  /\ clerk' = [clerk EXCEPT ![c].at = "write"]
  /\ registry' = <<>>
  /\ shared' = (shared \/ OthersWrite(c))
  /\ UNCHANGED <<feedbackRows, incidentRows, lastSweep, week, commands,
                 crashes, fired, overlaps, harmed>>

(* Where two have the file open, each writes over what the other did.      *)
CountSharing(c) ==
  harmed' = IF shared THEN harmed \cup Ends(clerk[c].copy) \cup HarmedIn(registry)
            ELSE harmed

MayOverlay(c) == IF shared THEN Overlaid(clerk[c].copy, registry) ELSE {}

(* A part of the file reaches the disk, before the rest of it does.        *)
WritePart(c) ==
  /\ clerk[c].at = "write"
  /\ shared \/ registry = <<>>
  /\ registry' \in CutShort(clerk[c].copy) \cup MayOverlay(c)
  /\ CountSharing(c)
  /\ UNCHANGED <<shared, feedbackRows, incidentRows, lastSweep, clerk, week, commands,
                 crashes, fired, overlaps>>

(* The file is whole again, unless another process had it open too.        *)
WriteRegistry(c) ==
  /\ clerk[c].at = "write"
  /\ registry' \in {clerk[c].copy} \cup MayOverlay(c)
  /\ CountSharing(c)
  /\ shared' = (shared /\ OthersWrite(c))
  /\ clerk' = [clerk EXCEPT ![c].at = "saved", ![c].copy = Torn, ![c].deltas = <<>>]
  /\ fired' = IF clerk[c].job # "incident" THEN fired
              ELSE [fired EXCEPT ![clerk[c].on] =
                      [a \in DOMAIN Articles |-> @[a] + (IF a \in clerk[c].news THEN 1 ELSE 0)]]
  /\ UNCHANGED <<feedbackRows, incidentRows, lastSweep, week, commands, crashes, overlaps>>

(* What follows a save: the feedback row, the end of a review, or, after   *)
(* the decay, the sweep when it is due and its platforms can be read.      *)
Continue(c) ==
  /\ clerk[c].at = "saved" /\ clerk[c].job # "incident"
  /\ \/ /\ clerk[c].job = "decay" /\ SweepDue
        /\ \E known \in Known : clerk' = [clerk EXCEPT ![c] = ToSweep(known)]
        /\ CountOverlap(c)
     \/ /\ clerk[c].job # "decay" \/ ~SweepDue \/ ~EntriesWhole
        /\ clerk' = [clerk EXCEPT ![c] = AtHand]
        /\ UNCHANGED overlaps
  /\ feedbackRows' = IF clerk[c].job # "feedback" THEN feedbackRows
                     ELSE [feedbackRows EXCEPT ![clerk[c].on][clerk[c].event] = @ + 1]
  /\ UNCHANGED <<registry, shared, incidentRows, lastSweep, week, commands, crashes, fired,
                 harmed>>

----------------------------------------------------------------------------
(* The news sweep.                                                         *)

(* Fault: an article is forgotten on the last day it still counts.         *)
SeenRecently(p) ==
  {a \in DOMAIN Articles : incidentRows[a] = p /\ week - Articles[a].published < Lookback}

(* seen_incident_urls: the articles remembered for this platform.          *)
Seen(p) == {a \in DOMAIN Articles : incidentRows[a] = p}

Matching(p, found) ==
  {a \in found \ Seen(p) : p \in Articles[a].names /\ week - Articles[a].published <= Lookback}

OfDim(S, d) == {a \in S : Articles[a].dim = d}

Corroborated(S) == Cardinality({Articles[a].outlet : a \in S}) >= MinSources

(* detect: the best-matched dimension that enough outlets carry.           *)
Incidents(p, found) ==
  LET M == Matching(p, found)
      carried == {d \in Dims : Corroborated(OfDim(M, d))}
  IN {d \in carried : \A o \in carried : Cardinality(OfDim(M, o)) <= Cardinality(OfDim(M, d))}

(* The search for one platform: it fails, or returns some of the articles. *)
SearchNews(c) ==
  /\ clerk[c].at = "sweep" /\ clerk[c].queue # <<>>
  /\ \E found \in SUBSET {a \in DOMAIN Articles : Articles[a].published <= week} :
       LET p == Head(clerk[c].queue) IN
       \/ /\ Incidents(p, found) = {}
          /\ clerk' = [clerk EXCEPT ![c].queue = Tail(@)]
       \/ \E d \in Incidents(p, found) :
            clerk' = [clerk EXCEPT ![c] =
              [@ EXCEPT !.at = "load", !.job = "incident", !.on = p,
                        !.queue = Tail(clerk[c].queue), !.deltas = [o \in {d} |-> -IncidentLoss],
                        !.news = OfDim(Matching(p, found), d)]]
  /\ UNCHANGED <<registry, shared, feedbackRows, incidentRows, lastSweep, week,
                 commands, crashes, fired, overlaps, harmed>>

(* add_incident: INSERT OR IGNORE on the URL, one commit for each article. *)
Remember(c) ==
  /\ clerk[c].at = "saved" /\ clerk[c].job = "incident" /\ clerk[c].news # {}
  /\ \E a \in clerk[c].news :
       /\ incidentRows' = [incidentRows EXCEPT ![a] = IF @ = None THEN clerk[c].on ELSE @]
       /\ clerk' = [clerk EXCEPT ![c].news = @ \ {a}]
  /\ UNCHANGED <<registry, shared, feedbackRows, lastSweep, week, commands, crashes, fired, overlaps, harmed>>

NextPlatform(c) ==
  /\ clerk[c].at = "saved" /\ clerk[c].job = "incident" /\ clerk[c].news = {}
  /\ clerk' = [clerk EXCEPT ![c] = ToSweep(clerk[c].queue)]
  /\ UNCHANGED <<registry, shared, feedbackRows, incidentRows, lastSweep, week,
                 commands, crashes, fired, overlaps, harmed>>

(* set_meta: the cadence is kept once every platform was searched.         *)
EndSweeping(c) ==
  /\ clerk[c].at = "sweep" /\ clerk[c].queue = <<>>
  /\ clerk' = [clerk EXCEPT ![c] = AtHand]
  /\ lastSweep' = week
  /\ UNCHANGED <<registry, shared, feedbackRows, incidentRows, week, commands, crashes, fired, overlaps, harmed>>

(* A process that ends with the file open leaves what is on the disk.      *)
ClerkCrash(c) ==
  /\ clerk[c].at # "idle" /\ crashes < MaxCrashes
  /\ crashes' = crashes + 1
  /\ clerk' = [clerk EXCEPT ![c] = AtHand]
  /\ harmed' = IF clerk[c].at = "write" THEN harmed \cup HarmedIn(registry) ELSE harmed
  /\ shared' = (shared /\ OthersWrite(c))
  /\ UNCHANGED <<registry, feedbackRows, incidentRows, lastSweep, week, commands, fired, overlaps>>

(* A command ends within its week.                                         *)
NextWeek ==
  /\ week < LastWeek /\ \A c \in Clerks : clerk[c].at = "idle"
  /\ week' = week + 1
  /\ UNCHANGED <<registry, shared, feedbackRows, incidentRows, lastSweep, clerk,
                 commands, crashes, fired, overlaps, harmed>>

TrustNext ==
  \/ \E c \in Clerks :
       \/ BeginFeedback(c) \/ BeginReview(c) \/ BeginMaintenance(c)
       \/ Load(c) \/ OpenRegistry(c) \/ WritePart(c) \/ WriteRegistry(c) \/ Continue(c)
       \/ SearchNews(c) \/ Remember(c) \/ NextPlatform(c) \/ EndSweeping(c)
       \/ ClerkCrash(c)
  \/ NextWeek

TrustSpec == TrustInit /\ [][TrustNext]_trustVars

----------------------------------------------------------------------------
(* The registry is its own audit log (trust/update.py): whatever commands  *)
(* overlap, clamp, decay or crash, a platform's trust is its seed moved by *)
(* the evidence beside it -- a lost update loses both -- except where a    *)
(* save was cut short at the platform or before it, by a crash, a reader   *)
(* or another writer.  Nobody is writing when the file is looked at.       *)
LogExplains(p) ==
  /\ p \in DOMAIN registry
  /\ registry[p] # Torn
  /\ Composite(registry[p].dims) = Composite(Seed[p]) + Logged(registry[p])

AuditExplainsScore ==
  registry = Torn \/ (\E c \in Clerks : clerk[c].at = "write")
  \/ \A p \in Keys \ harmed : LogExplains(p)

(* A story about one platform moves its trust once, and once more only for *)
(* a crash between the registry and the remembered article, or for a sweep *)
(* begun while another was under way.                                      *)
RepeatsNeedInterruptions ==
  \A p \in Keys, a \in DOMAIN Articles :
    Articles[a].names = {p} => fired[p][a] <= 1 + crashes + overlaps

(* "Seen article URLs are remembered in sqlite so a story fires exactly    *)
(* once" (trust/incidents.py): no story moves a platform's trust twice.    *)
StoryFiresOnce == \A p \in Keys, a \in DOMAIN Articles : fired[p][a] <= 1
=============================================================================
