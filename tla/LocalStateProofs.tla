--------------------------- MODULE LocalStateProofs ---------------------------
(***************************************************************************)
(* Proofs about LocalState for any roots, profiles, processes and bounds.  *)
(*                                                                         *)
(* Why a marked workspace stays whole: a set of names that was once read   *)
(* from a marker stays seen, which is that each name has its files and no  *)
(* process may still withdraw them.  Every marker written later is such a  *)
(* set with one more name, and that name was in no set seen before: so the *)
(* marker of a workspace never returns to an earlier value.  Together with *)
(* versions that only grow this makes a file that was hashed and is found  *)
(* the same later the file there was at every moment in between.           *)
(***************************************************************************)
EXTENDS LocalState, TLAPS

-----------------------------------------------------------------------------
(* The inductive invariant.                                                *)

Versions == Nat \union {None}
Markers == (SUBSET Profiles) \union {None}
Held2 == [marker: Markers, has: [Profiles -> Versions]]
RootRows == [there: BOOLEAN, marker: Markers, has: [Profiles -> Versions],
             stages: Int, markerNew: BOOLEAN]
IsSnapshot(rows) == /\ DOMAIN rows = {Marker} \union Profiles
                    /\ rows[Marker] \in Markers /\ \A n \in Profiles : rows[n] \in Versions

Whole(held) == /\ held \in Held2 /\ held.marker # None
               /\ \A n \in held.marker : held.has[n] # None

\* Process d has made a profile in r and may still withdraw or mark it.
Entered(d, r) == /\ command[d].in = r
                 /\ command[d].at \in {"validate", "announce", "replace"}

Seen(r, names) ==
  \A n \in names : /\ root[r].has[n] # None
                   /\ \A d \in Commands : Entered(d, r) => command[d].name # n

Publishes(d, kind) == command[d].kind = kind /\ command[d].at \in {"rename", "seal"}

LocalTypeOK ==
  /\ root \in [Roots -> RootRows]
  /\ DOMAIN archive = {"there", "files", "manifest"}
  /\ DOMAIN command = Commands
  /\ \A c \in Commands :
       DOMAIN command[c] = {"at", "kind", "in", "name", "marker", "rows", "todo"}
  /\ \A c \in Commands :
       command[c].at \in {"idle", "reserve", "rename", "seal", "enter", "validate",
                          "announce", "replace", "hash", "copy", "compare"}

\* A process that adds a profile.
AddingOK(c) ==
  command[c].at \in {"enter", "validate", "announce", "replace"} =>
    /\ command[c].in \in Roots /\ command[c].name \in Profiles
    /\ command[c].marker \in SUBSET Profiles
    /\ root[command[c].in].marker # None
    /\ Seen(command[c].in, command[c].marker)
    /\ command[c].at # "enter" => root[command[c].in].has[command[c].name] # None

\* A process that publishes a workspace.
BuildingOK(c) ==
  command[c].at \in {"reserve", "rename", "seal"} /\ command[c].kind = "workspace" =>
    /\ command[c].in \in Roots /\ Whole(command[c].rows)
    /\ command[c].at # "reserve" => /\ root[command[c].in].there
                                    /\ root[command[c].in].marker = None
    /\ command[c].at = "seal" => root[command[c].in].has = command[c].rows.has

\* A process that publishes a backup.
SealingOK(c) ==
  command[c].at \in {"reserve", "rename", "seal"} /\ command[c].kind # "workspace" =>
    /\ command[c].kind = "backup"
    /\ Whole(command[c].rows) /\ command[c].rows \in moments
    /\ command[c].at # "reserve" => archive.there /\ archive.manifest = None
    /\ command[c].at = "seal" => archive.files = command[c].rows

\* The files that were hashed have not lost anything since.
HashingOK(c) ==
  command[c].at \in {"hash", "copy", "compare"} =>
    LET r == command[c].in IN
    /\ r \in Roots /\ root[r].marker # None
    /\ command[c].kind = "backup"
    /\ IsSnapshot(command[c].rows)
    /\ command[c].todo \subseteq {Marker} \union Profiles
    /\ \A n \in Profiles : n \in command[c].todo \/ command[c].rows[n] # None => Seen(r, {n})
    /\ \A n \in Profiles : command[c].rows[n] # None => command[c].rows[n] <= root[r].has[n]
    /\ command[c].rows[Marker] # None => Seen(r, command[c].rows[Marker])
    /\ IF command[c].at = "hash"
       THEN Marker \in command[c].todo \/ command[c].rows[Marker] # None
       ELSE command[c].rows[Marker] # None

\* At the second listing the workspace was moment, which has every file that
\* was found the same since, and the others unless they have changed since.
Agrees(c, moment) ==
  LET r == command[c].in  rows == command[c].rows  todo == command[c].todo IN
  /\ moment \in Held2
  /\ moment.marker # None
  /\ \A n \in Profiles : rows[n] # None <=> n \in moment.marker
  /\ \A n \in Profiles : rows[n] = None => moment.has[n] = None
  /\ \A n \in moment.marker :
       /\ moment.has[n] # None
       /\ rows[n] <= moment.has[n] /\ moment.has[n] <= root[r].has[n]
       /\ n \notin todo => rows[n] = moment.has[n]
  /\ root[r].marker = rows[Marker] \/ Marker \notin todo => moment.marker = rows[Marker]

ComparingOK(c) ==
  command[c].at = "compare" => \E moment \in moments : Agrees(c, moment)

LocalInv ==
  /\ LocalTypeOK
  /\ \A r \in Roots : root[r].marker # None =>
       /\ root[r].there /\ Seen(r, root[r].marker)
       /\ Held(root[r].marker, root[r].has) \in moments
  /\ \A c \in Commands : AddingOK(c) /\ BuildingOK(c) /\ SealingOK(c)
                         /\ HashingOK(c) /\ ComparingOK(c)
  /\ \A c, d \in Commands : c # d =>
       /\ \A r \in Roots : Entered(c, r) /\ Entered(d, r) => command[c].name # command[d].name
       /\ Publishes(c, "workspace") /\ Publishes(d, "workspace") => command[c].in # command[d].in
       /\ ~(Publishes(c, "backup") /\ Publishes(d, "backup"))
  /\ archive.manifest # None =>
       archive.there /\ Whole(archive.files) /\ archive.files \in moments
-----------------------------------------------------------------------------
(* What a step of one process leaves to the others.                        *)

CommandOK(c) == AddingOK(c) /\ BuildingOK(c) /\ SealingOK(c) /\ HashingOK(c) /\ ComparingOK(c)

\* In a workspace with a marker, what was seen stays seen.
SeenKept ==
  \A r \in Roots : root[r].marker # None =>
    \A n \in Profiles : Seen(r, {n}) => Seen(r, {n})'

\* Files only grow, and a marker changes to one that was never seen.
GrowsOnly ==
  \A r \in Roots : root[r].marker # None =>
    /\ root'[r].marker # None
    /\ \A n \in Profiles : Seen(r, {n}) => root[r].has[n] <= root'[r].has[n]
    /\ \A names \in SUBSET Profiles :
         Seen(r, names) /\ root'[r].marker = names => root[r].marker = names

\* Process d, which does nothing, finds its own work as it left it.
Undisturbed(d) ==
  /\ command'[d] = command[d]
  /\ \A r \in Roots : Entered(d, r) => root'[r].has[command[d].name] # None
  /\ Publishes(d, "workspace") =>
       /\ root'[command[d].in].there = root[command[d].in].there
       /\ root'[command[d].in].marker = root[command[d].in].marker
       /\ root'[command[d].in].has = root[command[d].in].has
  /\ Publishes(d, "backup") => archive' = archive

LEMMA SeenNames ==
  ASSUME NEW r, NEW names
  PROVE  /\ Seen(r, names) <=> \A n \in names : Seen(r, {n})
         /\ Seen(r, names)' <=> \A n \in names : Seen(r, {n})'
  BY DEF Seen

LEMMA OthersKeep ==
  ASSUME LocalInv, LocalTypeOK', SeenKept, GrowsOnly, moments \subseteq moments',
         NEW d \in Commands, Undisturbed(d)
  PROVE  CommandOK(d)'
<1> USE NoneIsNoNumber, MarkerIsNoProfile, NoneIsNoMarker
<1>1. AddingOK(d) /\ BuildingOK(d) /\ SealingOK(d) /\ HashingOK(d) /\ ComparingOK(d)
  BY DEF LocalInv
<1>2. /\ root \in [Roots -> RootRows] /\ root' \in [Roots -> RootRows]
      /\ command'[d] = command[d]
  BY DEF LocalInv, LocalTypeOK, Undisturbed
<1>3. ASSUME NEW r \in Roots, NEW names \in SUBSET Profiles, Seen(r, names),
             root[r].marker # None
      PROVE  Seen(r, names)'
  BY <1>3, SeenNames DEF SeenKept
<1>4. AddingOK(d)'
  <2> SUFFICES ASSUME command[d].at \in {"enter", "validate", "announce", "replace"}
      PROVE  AddingOK(d)'
    BY <1>2 DEF AddingOK
  <2>1. /\ command[d].in \in Roots /\ command[d].name \in Profiles
        /\ command[d].marker \in SUBSET Profiles
        /\ root[command[d].in].marker # None
        /\ Seen(command[d].in, command[d].marker)
    BY <1>1 DEF AddingOK
  <2>2. root'[command[d].in].marker # None
    BY <2>1 DEF GrowsOnly
  <2>r. PICK r \in Roots : r = command[d].in
    BY <2>1
  <2>m. PICK names \in SUBSET Profiles : names = command[d].marker
    BY <2>1
  <2>3. Seen(r, names)'
    BY <1>3, <2>1, <2>r, <2>m
  <2>4. command[d].at # "enter" => root'[command[d].in].has[command[d].name] # None
    BY <2>1 DEF Undisturbed, Entered
  <2> QED
    BY <1>2, <2>1, <2>r, <2>m, <2>2, <2>3, <2>4 DEF AddingOK
<1>5. BuildingOK(d)'
  BY <1>1, <1>2 DEF BuildingOK, Undisturbed, Publishes, Whole, Held2
<1>6. SealingOK(d)'
  BY <1>1, <1>2 DEF SealingOK, Undisturbed, Publishes, Whole, Held2
<1>s. SUFFICES ASSUME command[d].at \in {"hash", "copy", "compare"}
      PROVE  HashingOK(d)' /\ ComparingOK(d)'
  BY <1>2, <1>4, <1>5, <1>6 DEF HashingOK, ComparingOK, CommandOK
<1>r. PICK r \in Roots : r = command[d].in
  BY <1>1, <1>s DEF HashingOK
<1> DEFINE rows == command[d].rows
           todo == command[d].todo
<1>h. /\ root[r].marker # None /\ root'[r].marker # None
      /\ IsSnapshot(rows)
      /\ \A n \in Profiles : n \in todo \/ rows[n] # None => Seen(r, {n})
      /\ \A n \in Profiles : rows[n] # None => rows[n] <= root[r].has[n]
      /\ rows[Marker] # None => rows[Marker] \in SUBSET Profiles /\ Seen(r, rows[Marker])
  BY <1>1, <1>s, <1>r DEF HashingOK, GrowsOnly, IsSnapshot, Markers
<1>n. ASSUME NEW n \in Profiles, Seen(r, {n})
      PROVE  /\ root[r].has[n] \in Nat /\ root'[r].has[n] \in Nat
             /\ root[r].has[n] <= root'[r].has[n]
             /\ Seen(r, {n})'
  <2>1. Seen(r, {n})' /\ root[r].has[n] <= root'[r].has[n]
    BY <1>n, <1>h DEF SeenKept, GrowsOnly
  <2>2. root[r].has[n] # None /\ root'[r].has[n] # None
    BY <1>n, <2>1 DEF Seen
  <2>3. root[r].has[n] \in Versions /\ root'[r].has[n] \in Versions
    BY <1>2 DEF RootRows
  <2> QED
    BY <2>1, <2>2, <2>3 DEF Versions
<1>7. HashingOK(d)'
  <2>1. \A n \in Profiles : n \in todo \/ rows[n] # None => Seen(r, {n})'
    BY <1>h, <1>n
  <2>2. \A n \in Profiles : rows[n] # None => rows[n] <= root'[r].has[n]
    <3> SUFFICES ASSUME NEW n \in Profiles, rows[n] # None
        PROVE  rows[n] <= root'[r].has[n]
      OBVIOUS
    <3>1. rows[n] \in Nat /\ rows[n] <= root[r].has[n]
      BY <1>h DEF IsSnapshot, Versions
    <3>2. /\ root[r].has[n] \in Nat /\ root'[r].has[n] \in Nat
          /\ root[r].has[n] <= root'[r].has[n]
      BY <1>h, <1>n
    <3> HIDE DEF rows
    <3> QED
      BY <3>1, <3>2
  <2>3. rows[Marker] # None => Seen(r, rows[Marker])'
    <3> SUFFICES ASSUME rows[Marker] # None
        PROVE  Seen(r, rows[Marker])'
      OBVIOUS
    <3>m. PICK names \in SUBSET Profiles : names = rows[Marker]
      BY <1>h
    <3>1. Seen(r, names)'
      BY <1>3, <1>h, <3>m
    <3> QED
      BY <1>2, <3>m, <3>1
  <2> QED
    BY <1>1, <1>2, <1>s, <1>r, <1>h, <2>1, <2>2, <2>3 DEF HashingOK
<1>8. ComparingOK(d)'
  <2> SUFFICES ASSUME command[d].at = "compare"
      PROVE  ComparingOK(d)'
    BY <1>2 DEF ComparingOK
  <2>1. PICK moment \in moments : Agrees(d, moment)
    BY <1>1 DEF ComparingOK
  <2>2. \A n \in moment.marker :
          moment.has[n] <= root[r].has[n] => moment.has[n] <= root'[r].has[n]
    <3> SUFFICES ASSUME NEW n \in moment.marker, moment.has[n] <= root[r].has[n]
        PROVE  moment.has[n] <= root'[r].has[n]
      OBVIOUS
    <3>1. n \in Profiles /\ moment.has[n] \in Nat /\ rows[n] # None
      BY <2>1 DEF Agrees, Held2, Versions, Markers
    <3>2. /\ root[r].has[n] \in Nat /\ root'[r].has[n] \in Nat
          /\ root[r].has[n] <= root'[r].has[n]
      BY <1>h, <1>n, <3>1
    <3> QED
      BY <3>1, <3>2
  <2>3. rows[Marker] # None /\ rows[Marker] \in SUBSET Profiles
    BY <1>1, <1>s, <1>h DEF HashingOK
  <2>4. root'[r].marker = rows[Marker] => root[r].marker = rows[Marker]
    BY <1>h, <2>3 DEF GrowsOnly
  <2>5. Agrees(d, moment)'
    BY <1>2, <1>r, <2>1, <2>2, <2>4 DEF Agrees
  <2> QED
    BY <2>1, <2>5 DEF ComparingOK
<1> QED
  BY <1>4, <1>5, <1>6, <1>7, <1>8 DEF CommandOK

MarkedOK(r) ==
  root[r].marker # None => /\ root[r].there /\ Seen(r, root[r].marker)
                           /\ Held(root[r].marker, root[r].has) \in moments

Apart(c, d) ==
  /\ \A r \in Roots : Entered(c, r) /\ Entered(d, r) => command[c].name # command[d].name
  /\ Publishes(c, "workspace") /\ Publishes(d, "workspace") => command[c].in # command[d].in
  /\ ~(Publishes(c, "backup") /\ Publishes(d, "backup"))

ArchiveOK ==
  archive.manifest # None =>
    archive.there /\ Whole(archive.files) /\ archive.files \in moments

LEMMA Parts ==
  /\ LocalInv <=> /\ LocalTypeOK /\ ArchiveOK
                  /\ \A r \in Roots : MarkedOK(r)
                  /\ \A c \in Commands : CommandOK(c)
                  /\ \A c, d \in Commands : c # d => Apart(c, d)
  /\ LocalInv' <=> /\ LocalTypeOK' /\ ArchiveOK'
                   /\ \A r \in Roots : MarkedOK(r)'
                   /\ \A c \in Commands : CommandOK(c)'
                   /\ \A c, d \in Commands : c # d => Apart(c, d)'
  BY DEF LocalInv, ArchiveOK, MarkedOK, CommandOK, Apart

\* A step of process c need only be looked at where it does something.
LEMMA StepKeeps ==
  ASSUME LocalInv, NEW c \in Commands, LocalTypeOK', SeenKept, GrowsOnly,
         moments \subseteq moments', \A d \in Commands \ {c} : Undisturbed(d),
         CommandOK(c)', ArchiveOK', \A r \in Roots : MarkedOK(r)',
         \A d \in Commands \ {c} : Apart(c, d)'
  PROVE  LocalInv'
<1>1. \A d \in Commands \ {c} : CommandOK(d)'
  BY OthersKeep
<1>2. ASSUME NEW d \in Commands, NEW e \in Commands, d # e
      PROVE  Apart(d, e)'
  <2>1. CASE d = c
    BY <1>2, <2>1
  <2>2. CASE e = c
    <3>1. Apart(e, d)'
      BY <1>2, <2>2
    <3> QED
      BY <3>1 DEF Apart
  <2>3. CASE d # c /\ e # c
    <3>1. Apart(d, e)
      BY <1>2, Parts
    <3>2. command'[d] = command[d] /\ command'[e] = command[e]
      BY <2>3 DEF Undisturbed
    <3> QED
      BY <3>1, <3>2 DEF Apart, Entered, Publishes
  <2> QED
    BY <2>1, <2>2, <2>3
<1> QED
  BY <1>1, <1>2, Parts

\* A step of process c that changes no directory's marker or profiles, and
\* neither makes a profile nor begins to publish.
Quiet(c) ==
  /\ LocalTypeOK'
  /\ \A r \in Roots : /\ root'[r].there = root[r].there
                      /\ root'[r].marker = root[r].marker
                      /\ root'[r].has = root[r].has
  /\ archive' = archive /\ moments' = moments
  /\ \A d \in Commands \ {c} : command'[d] = command[d]
  /\ \A r \in Roots : Entered(c, r)' => Entered(c, r) /\ command'[c].name = command[c].name
  /\ \A kind \in {"workspace", "backup"} :
       Publishes(c, kind)' => Publishes(c, kind) /\ command'[c].in = command[c].in

LEMMA QuietKeeps ==
  ASSUME LocalInv, NEW c \in Commands, Quiet(c)
  PROVE  /\ SeenKept /\ GrowsOnly
         /\ CommandOK(c)' => LocalInv'
<1>1. root \in [Roots -> RootRows]
  BY DEF LocalInv, LocalTypeOK
<1>2. SeenKept
  BY DEF Quiet, SeenKept, Seen, Entered
<1>3. \A r \in Roots : \A n \in Profiles : Seen(r, {n}) => root[r].has[n] <= root'[r].has[n]
  <2> SUFFICES ASSUME NEW r \in Roots, NEW n \in Profiles, Seen(r, {n})
      PROVE  root[r].has[n] <= root'[r].has[n]
    OBVIOUS
  <2>1. root[r].has[n] \in Nat /\ root'[r].has[n] = root[r].has[n]
    BY <1>1 DEF RootRows, Seen, Versions, Quiet
  <2> QED
    BY <2>1
<1>4. GrowsOnly
  BY <1>3 DEF GrowsOnly, Quiet
<1>5. \A d \in Commands \ {c} : Undisturbed(d)
  <2> SUFFICES ASSUME NEW d \in Commands \ {c}
      PROVE  Undisturbed(d)
    OBVIOUS
  <2>1. AddingOK(d) /\ BuildingOK(d)
    BY DEF LocalInv
  <2> QED
    BY <2>1 DEF Undisturbed, Quiet, AddingOK, BuildingOK, Entered, Publishes
<1>6. ArchiveOK'
  BY Parts DEF ArchiveOK, Quiet, Whole, Held2
<1>7. ASSUME NEW r \in Roots
      PROVE  MarkedOK(r)'
  <2>1. MarkedOK(r)
    BY Parts
  <2> SUFFICES ASSUME root[r].marker # None
      PROVE  MarkedOK(r)'
    BY <2>1 DEF MarkedOK, Quiet
  <2>2. PICK names \in SUBSET Profiles : names = root[r].marker
    BY <1>1 DEF RootRows, Markers
  <2>3. Seen(r, names)'
    BY <1>2, <2>1, <2>2, SeenNames DEF MarkedOK, SeenKept
  <2> QED
    BY <2>1, <2>2, <2>3 DEF MarkedOK, Quiet
<1>8. ASSUME NEW d \in Commands \ {c}
      PROVE  Apart(c, d)'
  <2>1. Apart(c, d) /\ command'[d] = command[d]
    BY Parts DEF Quiet
  <2> QED
    BY <2>1 DEF Apart, Quiet, Entered, Publishes
<1> QED
  BY <1>2, <1>4, <1>5, <1>6, <1>7, <1>8, StepKeeps DEF Quiet

-----------------------------------------------------------------------------
(* The steps that change no directory's marker or profiles.                *)

LEMMA RestingOK ==
  ASSUME NEW c, command'[c].at = "idle"
  PROVE  CommandOK(c)'
  BY DEF CommandOK, AddingOK, BuildingOK, SealingOK, HashingOK, ComparingOK

\* A process that ends, of itself, refused or by a crash.
LEMMA EndsKeeps ==
  ASSUME LocalInv, NEW c \in Commands, Goes(c, Resting), root' \in [Roots -> RootRows],
         \A r \in Roots : /\ root'[r].there = root[r].there
                          /\ root'[r].marker = root[r].marker
                          /\ root'[r].has = root[r].has,
         archive' = archive, moments' = moments
  PROVE  LocalInv'
<1>1. LocalTypeOK'
  BY DEF LocalInv, LocalTypeOK, Goes, Resting
<1>2. command'[c].at = "idle" /\ \A d \in Commands \ {c} : command'[d] = command[d]
  BY DEF LocalInv, LocalTypeOK, Goes, Resting
<1>3. Quiet(c)
  BY <1>1, <1>2 DEF Quiet, Entered, Publishes
<1> QED
  BY <1>2, <1>3, RestingOK, QuietKeeps

LEMMA FreshIsWhole ==
  ASSUME NEW n \in Profiles
  PROVE  Whole(Fresh(n))
<1>1. {n} \in Markers /\ {n} # None
  BY NoneIsNoMarker DEF Markers
<1>2. [m \in Profiles |-> IF m = n THEN 0 ELSE None] \in [Profiles -> Versions]
  BY DEF Versions
<1>3. 0 # None
  BY NoneIsNoNumber
<1> QED
  BY <1>1, <1>2, <1>3 DEF Whole, Fresh, Held, Held2

LEMMA InitializeKeeps ==
  ASSUME LocalInv, NEW c \in Commands, Initialize(c)
  PROVE  LocalInv'
<1>1. PICK r \in Roots, n \in Profiles :
        Started(c, [Resting EXCEPT !.at = "reserve", !.kind = "workspace",
                                   !.in = r, !.rows = Fresh(n)])
  BY DEF Initialize
<1>2. /\ command'[c].at = "reserve" /\ command'[c].kind = "workspace"
      /\ command'[c].in = r /\ command'[c].rows = Fresh(n)
      /\ \A d \in Commands \ {c} : command'[d] = command[d]
      /\ LocalTypeOK'
  BY <1>1 DEF LocalInv, LocalTypeOK, Started, Resting, Initialize
<1>3. CommandOK(c)'
  BY <1>2, FreshIsWhole
     DEF CommandOK, AddingOK, BuildingOK, SealingOK, HashingOK, ComparingOK
<1>4. Quiet(c)
  BY <1>2 DEF Quiet, Entered, Publishes, Initialize
<1> QED
  BY <1>3, <1>4, QuietKeeps

LEMMA RestoreKeeps ==
  ASSUME LocalInv, NEW c \in Commands, Restore(c)
  PROVE  LocalInv'
<1>1. PICK r \in Roots :
        Started(c, [Resting EXCEPT !.at = "reserve", !.kind = "workspace",
                                   !.in = r, !.rows = archive.files])
  BY DEF Restore
<1>2. /\ command'[c].at = "reserve" /\ command'[c].kind = "workspace"
      /\ command'[c].in = r /\ command'[c].rows = archive.files
      /\ \A d \in Commands \ {c} : command'[d] = command[d]
      /\ LocalTypeOK'
  BY <1>1 DEF LocalInv, LocalTypeOK, Started, Resting, Restore
<1>3. Whole(archive.files)
  BY DEF LocalInv, Restore
<1>4. CommandOK(c)'
  BY <1>2, <1>3 DEF CommandOK, AddingOK, BuildingOK, SealingOK, HashingOK, ComparingOK, Whole, Held2
<1>5. Quiet(c)
  BY <1>2 DEF Quiet, Entered, Publishes, Restore
<1> QED
  BY <1>4, <1>5, QuietKeeps

LEMMA AddProfileKeeps ==
  ASSUME LocalInv, NEW c \in Commands, AddProfile(c)
  PROVE  LocalInv'
<1>1. PICK r \in Roots, n \in Profiles :
        /\ Usable(r) /\ n \notin root[r].marker
        /\ Started(c, [Resting EXCEPT !.at = "enter", !.kind = "add", !.in = r,
                                      !.name = n, !.marker = root[r].marker])
        /\ root' = [root EXCEPT ![r].stages = @ + 1]
  BY DEF AddProfile
<1>2. root \in [Roots -> RootRows]
  BY DEF LocalInv, LocalTypeOK
<1>3. root' \in [Roots -> RootRows]
  <2>1. root[r].stages + 1 \in Int
    BY <1>2 DEF RootRows
  <2> QED
    BY <1>1, <1>2, <2>1 DEF RootRows
<1>4. /\ command'[c].at = "enter" /\ command'[c].in = r /\ command'[c].name = n
      /\ command'[c].marker = root[r].marker
      /\ \A d \in Commands \ {c} : command'[d] = command[d]
      /\ LocalTypeOK'
  BY <1>1, <1>3 DEF LocalInv, LocalTypeOK, Started, Resting, AddProfile
<1>5. \A q \in Roots : /\ root'[q].there = root[q].there
                       /\ root'[q].marker = root[q].marker
                       /\ root'[q].has = root[q].has
  BY <1>1, <1>2 DEF RootRows
<1>6. Quiet(c)
  BY <1>4, <1>5 DEF Quiet, Entered, Publishes, AddProfile
<1>7. PICK names \in SUBSET Profiles : names = root[r].marker
  BY <1>1, <1>2 DEF RootRows, Markers, Usable
<1>8. Seen(r, names)'
  <2>1. Seen(r, names) /\ root[r].marker # None
    BY <1>1, <1>7, Parts DEF MarkedOK, Usable
  <2> QED
    BY <2>1, <1>6, QuietKeeps, SeenNames DEF SeenKept
<1>9. CommandOK(c)'
  BY <1>1, <1>4, <1>5, <1>7, <1>8
     DEF CommandOK, AddingOK, BuildingOK, SealingOK, HashingOK, ComparingOK, Usable
<1> QED
  BY <1>6, <1>9, QuietKeeps

LEMMA WriteMarkerKeeps ==
  ASSUME LocalInv, NEW c \in Commands, WriteMarker(c)
  PROVE  LocalInv'
<1>1. /\ root \in [Roots -> RootRows] /\ CommandOK(c) /\ command[c].in \in Roots
      /\ DOMAIN command = Commands
      /\ DOMAIN command[c] = {"at", "kind", "in", "name", "marker", "rows", "todo"}
  BY Parts DEF LocalTypeOK, WriteMarker, CommandOK, AddingOK
<1>2. CASE root[command[c].in].markerNew
  BY <1>1, <1>2, EndsKeeps DEF WriteMarker
<1>3. CASE ~root[command[c].in].markerNew
  <2>1. /\ command'[c] = [command[c] EXCEPT !.at = "replace"]
        /\ \A d \in Commands \ {c} : command'[d] = command[d]
        /\ root' = [root EXCEPT ![command[c].in].markerNew = TRUE]
        /\ command' = [command EXCEPT ![c] = [command[c] EXCEPT !.at = "replace"]]
    BY <1>1, <1>3 DEF WriteMarker, Goes
  <2>2. root' \in [Roots -> RootRows]
    <3>1. [root[command[c].in] EXCEPT !.markerNew = TRUE] \in RootRows
      BY <1>1 DEF RootRows
    <3> QED
      BY <1>1, <2>1, <3>1
  <2>3. /\ command'[c].at = "replace" /\ command'[c].in = command[c].in
        /\ command'[c].name = command[c].name /\ command'[c].marker = command[c].marker
    BY <1>1, <2>1
  <2>4. LocalTypeOK'
    BY <2>1, <2>2 DEF LocalInv, LocalTypeOK, WriteMarker
  <2>5. \A q \in Roots : /\ root'[q].there = root[q].there
                         /\ root'[q].marker = root[q].marker
                         /\ root'[q].has = root[q].has
    BY <1>1, <2>1 DEF RootRows
  <2>6. Quiet(c)
    BY <2>1, <2>3, <2>4, <2>5 DEF Quiet, Entered, Publishes, WriteMarker
  <2>7. PICK names \in SUBSET Profiles, r \in Roots : names = command[c].marker /\ r = command[c].in
    BY <1>1 DEF CommandOK, AddingOK, WriteMarker
  <2>8. Seen(r, names)'
    <3>1. Seen(r, names) /\ root[r].marker # None
      BY <1>1, <2>7 DEF CommandOK, AddingOK, WriteMarker
    <3> QED
      BY <2>6, <3>1, QuietKeeps, SeenNames DEF SeenKept
  <2>9. CommandOK(c)'
    BY <1>1, <2>3, <2>5, <2>7, <2>8
       DEF CommandOK, AddingOK, BuildingOK, SealingOK, HashingOK, ComparingOK, WriteMarker
  <2> QED
    BY <2>6, <2>9, QuietKeeps
<1> QED
  BY <1>2, <1>3

-----------------------------------------------------------------------------
(* The steps of a backup.                                                  *)

\* A backup begins, hashes, copies and compares without changing anything.
LEMMA BackupQuiet ==
  ASSUME LocalInv, NEW c \in Commands, LocalTypeOK', UNCHANGED <<root, archive, moments>>,
         \A d \in Commands \ {c} : command'[d] = command[d],
         command'[c].at \in {"idle", "hash", "copy", "compare"},
         HashingOK(c)', ComparingOK(c)'
  PROVE  LocalInv'
<1>1. Quiet(c)
  BY DEF Quiet, Entered, Publishes
<1>2. CommandOK(c)'
  BY DEF CommandOK, AddingOK, BuildingOK, SealingOK
<1> QED
  BY <1>1, <1>2, QuietKeeps

LEMMA BackupKeeps ==
  ASSUME LocalInv, NEW c \in Commands, Backup(c)
  PROVE  LocalInv'
<1>1. PICK r \in Roots :
        /\ Usable(r)
        /\ Started(c, [Resting EXCEPT !.at = "hash", !.kind = "backup", !.in = r,
             !.marker = root[r].marker,
             !.rows = [f \in {Marker} \union Profiles |-> None],
             !.todo = {Marker} \union root[r].marker])
  BY DEF Backup
<1>2. /\ command'[c].at = "hash" /\ command'[c].kind = "backup" /\ command'[c].in = r
      /\ command'[c].rows = [f \in {Marker} \union Profiles |-> None]
      /\ command'[c].todo = {Marker} \union root[r].marker
      /\ \A d \in Commands \ {c} : command'[d] = command[d]
      /\ LocalTypeOK'
  BY <1>1 DEF LocalInv, LocalTypeOK, Started, Resting, Backup
<1>3. root[r].marker # None /\ root[r].marker \in SUBSET Profiles /\ Seen(r, root[r].marker)
  BY <1>1, Parts DEF MarkedOK, Usable, LocalTypeOK, RootRows, Markers
<1>4. /\ IsSnapshot(command'[c].rows)
      /\ \A f \in {Marker} \union Profiles : command'[c].rows[f] = None
  BY <1>2 DEF IsSnapshot, Markers, Versions
<1>5. UNCHANGED <<root, archive, moments>>
  BY DEF Backup
<1>6. \A n \in Profiles : n \in command'[c].todo => Seen(r, {n})'
  <2> SUFFICES ASSUME NEW n \in Profiles, n \in command'[c].todo
      PROVE  Seen(r, {n})'
    OBVIOUS
  <2>1. Seen(r, {n})
    BY <1>2, <1>3, SeenNames, MarkerIsNoProfile
  <2> QED
    BY <1>2, <1>5, <2>1 DEF Seen, Entered
<1>7. HashingOK(c)'
  BY <1>2, <1>3, <1>4, <1>5, <1>6 DEF HashingOK
<1>8. ComparingOK(c)'
  BY <1>2 DEF ComparingOK
<1> QED
  BY <1>2, <1>5, <1>7, <1>8, BackupQuiet

LEMMA HashFileKeeps ==
  ASSUME LocalInv, NEW c \in Commands, HashFile(c)
  PROVE  LocalInv'
<1> USE NoneIsNoNumber, MarkerIsNoProfile
<1>1. /\ command[c].at = "hash" /\ HashingOK(c) /\ root \in [Roots -> RootRows]
      /\ DOMAIN command = Commands
      /\ DOMAIN command[c] = {"at", "kind", "in", "name", "marker", "rows", "todo"}
  BY Parts DEF HashFile, LocalTypeOK, CommandOK
<1>2. PICK r \in Roots : r = command[c].in
  BY <1>1 DEF HashingOK
<1>3. PICK f \in InTurn(command[c].todo) :
        LET rows == [command[c].rows EXCEPT ![f] = ContentOf(command[c].in, f)]
            left == command[c].todo \ {f}
        IN Goes(c, IF rows[f] = None THEN Resting
                   ELSE IF left # {} THEN [command[c] EXCEPT !.rows = rows, !.todo = left]
                   ELSE [command[c] EXCEPT !.at = "copy", !.rows = rows,
                           !.todo = {g \in DOMAIN rows : rows[g] # None}])
  BY DEF HashFile
<1> DEFINE old == command[c].rows
           left == command[c].todo \ {f}
<1>a. PICK rows : rows = [command[c].rows EXCEPT ![f] = ContentOf(command[c].in, f)]
  OBVIOUS
<1>4. f \in command[c].todo /\ f \in {Marker} \union Profiles
  BY <1>1 DEF InTurn, HashingOK
<1>5. UNCHANGED <<root, archive, moments>> /\ \A d \in Commands \ {c} : command'[d] = command[d]
  BY <1>3 DEF HashFile, Goes
<1>6. CASE rows[f] = None
  BY <1>3, <1>5, <1>6, <1>a, <1>1, EndsKeeps DEF HashFile
<1>7. CASE rows[f] # None
  <2>1. /\ command'[c].in = r /\ command'[c].kind = "backup" /\ command'[c].rows = rows
        /\ \/ command'[c].at = "hash" /\ command'[c].todo = left
           \/ /\ command'[c].at = "copy" /\ left = {}
              /\ command'[c].todo = {g \in DOMAIN rows : rows[g] # None}
        /\ DOMAIN command'[c] = DOMAIN command[c]
        /\ DOMAIN command' = DOMAIN command
    BY <1>1, <1>2, <1>3, <1>7, <1>a DEF Goes, HashingOK
  <2>2. LocalTypeOK'
    BY <1>1, <1>5, <2>1 DEF LocalInv, LocalTypeOK
  <2>3. /\ IsSnapshot(old)
        /\ root[r].marker # None /\ root[r].marker \in SUBSET Profiles
        /\ Seen(r, root[r].marker)
    BY <1>1, <1>2, Parts DEF HashingOK, MarkedOK, RootRows, Markers
  <2>4. /\ DOMAIN rows = {Marker} \union Profiles
        /\ rows[f] = ContentOf(r, f)
        /\ \A g \in {Marker} \union Profiles : g # f => rows[g] = old[g]
    BY <1>2, <1>4, <1>a, <2>3 DEF IsSnapshot
  <2>5. \A n \in Profiles : n \in command[c].todo \/ old[n] # None => Seen(r, {n})
    BY <1>1, <1>2 DEF HashingOK
  <2>6. \A n \in Profiles : ContentOf(r, n) = root[r].has[n] /\ root[r].has[n] \in Versions
    BY <1>1 DEF ContentOf, RootRows
  <2>7. ContentOf(r, Marker) = root[r].marker
    BY DEF ContentOf
  <2>8. IsSnapshot(rows)
    BY <2>3, <2>4, <2>6, <2>7 DEF IsSnapshot, Markers
  <2>9. \A n \in Profiles : n \in command'[c].todo \/ rows[n] # None => Seen(r, {n})
    BY <1>4, <2>1, <2>4, <2>5
  <2>10. \A n \in Profiles : rows[n] # None => rows[n] <= root[r].has[n]
    <3> SUFFICES ASSUME NEW n \in Profiles, rows[n] # None
        PROVE  rows[n] <= root[r].has[n]
      OBVIOUS
    <3>1. CASE n = f
      <4>1. rows[n] = root[r].has[n] /\ root[r].has[n] \in Nat
        BY <2>4, <2>6, <3>1 DEF Versions
      <4> QED
        BY <4>1
    <3>2. CASE n # f
      BY <1>1, <1>2, <2>4, <3>2 DEF HashingOK
    <3> QED
      BY <3>1, <3>2
  <2>11. rows[Marker] # None => Seen(r, rows[Marker])
    BY <1>1, <1>2, <2>3, <2>4, <2>7 DEF HashingOK
  <2>12. \/ command'[c].at = "hash" /\ Marker \in command'[c].todo
         \/ rows[Marker] # None
    BY <1>1, <1>7, <2>1, <2>4 DEF HashingOK
  <2>13. command'[c].todo \subseteq {Marker} \union Profiles
    BY <1>1, <2>1, <2>4 DEF HashingOK
  <2>14. ASSUME NEW names, Seen(r, names)
         PROVE  Seen(r, names)'
    BY <1>1, <1>5, <2>1, <2>14 DEF Seen, Entered
  <2>m. rows[Marker] # None => Seen(r, rows[Marker])'
    BY <2>11, <2>14, <1>5, <2>1 DEF Seen, Entered
  <2>15. HashingOK(c)'
    BY <1>5, <2>1, <2>3, <2>8, <2>9, <2>10, <2>m, <2>12, <2>13, <2>14 DEF HashingOK
  <2>16. ComparingOK(c)'
    BY <2>1 DEF ComparingOK
  <2> QED
    BY <1>5, <2>1, <2>2, <2>15, <2>16, BackupQuiet
<1> QED
  BY <1>6, <1>7

\* What is known of a process that hashes, copies or compares.
LEMMA BackupFacts ==
  ASSUME LocalInv, NEW c \in Commands, command[c].at \in {"hash", "copy", "compare"}
  PROVE  /\ CommandOK(c) /\ root \in [Roots -> RootRows]
         /\ DOMAIN command = Commands
         /\ DOMAIN command[c] = {"at", "kind", "in", "name", "marker", "rows", "todo"}
         /\ command[c].in \in Roots
         /\ IsSnapshot(command[c].rows)
         /\ MarkedOK(command[c].in)
         /\ root[command[c].in].marker \in SUBSET Profiles
  BY Parts DEF LocalTypeOK, CommandOK, HashingOK, RootRows, Markers

\* A process that found a file as it was hashed has one file less to do.
LEMMA TickOff ==
  ASSUME LocalInv, NEW c \in Commands, command[c].at \in {"copy", "compare"},
         UNCHANGED <<root, archive, moments>>, NEW f \in command[c].todo,
         SameBytes(c, f), Goes(c, [command[c] EXCEPT !.todo = @ \ {f}])
  PROVE  LocalInv'
<1> USE NoneIsNoNumber, MarkerIsNoProfile
<1>1. /\ CommandOK(c) /\ root \in [Roots -> RootRows]
      /\ DOMAIN command = Commands
      /\ DOMAIN command[c] = {"at", "kind", "in", "name", "marker", "rows", "todo"}
  BY BackupFacts
<1>2. PICK r \in Roots : r = command[c].in
  BY BackupFacts
<1>3. PICK rows : rows = command[c].rows
  OBVIOUS
<1>4. /\ command'[c].at = command[c].at /\ command'[c].in = r
      /\ command'[c].kind = command[c].kind /\ command'[c].rows = rows
      /\ command'[c].todo = command[c].todo \ {f}
      /\ \A d \in Commands \ {c} : command'[d] = command[d]
      /\ LocalTypeOK'
  BY <1>1, <1>2, <1>3 DEF LocalInv, LocalTypeOK, Goes
<1>5. ASSUME NEW names, Seen(r, names)
      PROVE  Seen(r, names)'
  BY <1>1, <1>4, <1>5 DEF Seen, Entered
<1>6. HashingOK(c)'
  <2>1. \A n \in Profiles : n \in command'[c].todo \/ rows[n] # None => Seen(r, {n})'
    BY <1>1, <1>2, <1>3, <1>4, <1>5 DEF CommandOK, HashingOK
  <2>2. rows[Marker] # None /\ Seen(r, rows[Marker])'
    BY <1>1, <1>2, <1>3, <1>5 DEF CommandOK, HashingOK
  <2> QED
    BY <1>1, <1>2, <1>3, <1>4, <2>1, <2>2 DEF CommandOK, HashingOK, IsSnapshot
<1>7. ComparingOK(c)'
  <2> SUFFICES ASSUME command[c].at = "compare"
      PROVE  ComparingOK(c)'
    BY <1>4 DEF ComparingOK
  <2>1. PICK moment \in moments : Agrees(c, moment)
    BY <1>1 DEF CommandOK, ComparingOK
  <2>2. ASSUME NEW n \in moment.marker, n \notin command'[c].todo
        PROVE  rows[n] = moment.has[n]
    <3>1. CASE n \notin command[c].todo
      BY <1>3, <2>1, <2>2, <3>1 DEF Agrees
    <3>2. CASE n = f
      <4>1. n \in Profiles /\ n # Marker /\ rows[n] = root[r].has[n]
        BY <1>2, <1>3, <2>1, <2>2, <3>2 DEF Agrees, Held2, Markers, SameBytes, ContentOf
      <4>2. moment.has[n] \in Nat /\ root[r].has[n] \in Nat
        <5>1. moment.has[n] \in Versions /\ moment.has[n] # None
          BY <2>1, <4>1, <2>2 DEF Agrees, Held2
        <5>2. root[r].has[n] \in Versions /\ root[r].has[n] # None
          <6>1. rows[n] # None
            BY <1>3, <2>1, <2>2, <4>1 DEF Agrees
          <6> QED
            BY <1>1, <4>1, <6>1 DEF RootRows
        <5> QED
          BY <5>1, <5>2 DEF Versions
      <4>3. rows[n] <= moment.has[n] /\ moment.has[n] <= root[r].has[n]
        BY <1>2, <1>3, <2>1, <2>2 DEF Agrees
      <4> QED
        BY <4>1, <4>2, <4>3
    <3> QED
      BY <1>4, <2>2, <3>1, <3>2
  <2>3. root[r].marker = rows[Marker] \/ Marker \notin command'[c].todo
          => moment.marker = rows[Marker]
    BY <1>2, <1>3, <1>4, <2>1 DEF Agrees, SameBytes, ContentOf
  <2>4. Agrees(c, moment)'
    BY <1>2, <1>3, <1>4, <2>1, <2>2, <2>3 DEF Agrees
  <2> QED
    BY <2>1, <2>4 DEF ComparingOK
<1> QED
  BY <1>4, <1>6, <1>7, BackupQuiet

LEMMA CopyKeeps ==
  ASSUME LocalInv, NEW c \in Commands, CopyFile(c) \/ CompareFile(c)
  PROVE  LocalInv'
<1>1. PICK f \in InTurn(command[c].todo) :
        Goes(c, IF SameBytes(c, f) THEN [command[c] EXCEPT !.todo = @ \ {f}] ELSE Resting)
  BY DEF CopyFile, CompareFile
<1>2. f \in command[c].todo
  BY <1>1 DEF InTurn
<1>3. root \in [Roots -> RootRows] /\ UNCHANGED <<root, archive, moments>>
  BY DEF LocalInv, LocalTypeOK, CopyFile, CompareFile
<1>4. CASE SameBytes(c, f)
  BY <1>1, <1>2, <1>3, <1>4, TickOff DEF CopyFile, CompareFile
<1>5. CASE ~SameBytes(c, f)
  BY <1>1, <1>3, <1>5, EndsKeeps
<1> QED
  BY <1>4, <1>5

\* The second listing finds the files of one moment.
LEMMA RelistKeeps ==
  ASSUME LocalInv, NEW c \in Commands, Relist(c)
  PROVE  LocalInv'
<1> USE NoneIsNoNumber, MarkerIsNoProfile
<1>1. /\ CommandOK(c) /\ root \in [Roots -> RootRows]
      /\ DOMAIN command = Commands
      /\ DOMAIN command[c] = {"at", "kind", "in", "name", "marker", "rows", "todo"}
      /\ command[c].at = "copy" /\ UNCHANGED <<root, archive, moments>>
  BY BackupFacts DEF Relist
<1>2. PICK r \in Roots : r = command[c].in
  BY <1>1, BackupFacts
<1>3. PICK rows : rows = command[c].rows
  OBVIOUS
<1> DEFINE found == Listed(r, root[r].marker)
                    /\ {Marker} \union root[r].marker = ListedFiles(c)
<1>4. CASE ~found
  BY <1>1, <1>2, <1>4, EndsKeeps DEF Relist
<1>5. CASE found
  <2>1. /\ command'[c].at = "compare" /\ command'[c].in = r
        /\ command'[c].kind = command[c].kind /\ command'[c].rows = rows
        /\ command'[c].todo = ListedFiles(c)
        /\ \A d \in Commands \ {c} : command'[d] = command[d]
        /\ LocalTypeOK'
    BY <1>1, <1>2, <1>3, <1>5 DEF LocalInv, LocalTypeOK, Goes, Relist
  <2>2. ASSUME NEW names, Seen(r, names)
        PROVE  Seen(r, names)'
    BY <1>1, <2>1, <2>2 DEF Seen, Entered
  <2>3. /\ IsSnapshot(rows) /\ ListedFiles(c) = {f \in {Marker} \union Profiles : rows[f] # None}
        /\ \A n \in Profiles : rows[n] # None => Seen(r, {n}) /\ rows[n] <= root[r].has[n]
        /\ rows[Marker] # None /\ Seen(r, rows[Marker])
        /\ command[c].kind = "backup" /\ root[r].marker # None
    BY <1>1, <1>2, <1>3 DEF CommandOK, HashingOK, ListedFiles, IsSnapshot
  <2>4. HashingOK(c)'
    <3>1. Seen(r, rows[Marker])' /\ \A n \in Profiles : rows[n] # None => Seen(r, {n})'
      BY <2>2, <2>3
    <3>2. ListedFiles(c) \subseteq {Marker} \union Profiles
      BY <2>3
    <3>3. \A n \in Profiles : n \in ListedFiles(c) => rows[n] # None
      BY <2>3
    <3>4. \A n \in Profiles : n \in command'[c].todo => Seen(r, {n})'
      BY <2>1, <3>1, <3>3
    <3> QED
      BY <1>1, <2>1, <2>3, <3>1, <3>2, <3>4 DEF HashingOK
  <2>5. ComparingOK(c)'
    <3> DEFINE now == Held(root[r].marker, root[r].has)
    <3>0. PICK moment \in moments : moment = now
      BY <2>3, Parts DEF MarkedOK
    <3>1. moment \in Held2 /\ moment.marker = root[r].marker /\ moment.has = root[r].has
      BY <1>1, <3>0 DEF Held, Held2, RootRows
    <3>2. \A n \in Profiles : rows[n] # None <=> n \in root[r].marker
      BY <1>5, <2>3
    <3>3. \A n \in Profiles : root[r].has[n] # None <=> n \in root[r].marker
      BY <1>5 DEF Listed
    <3>4. root[r].marker \in SUBSET Profiles
      BY <1>1, <2>3 DEF RootRows, Markers
    <3>5. \A n \in root[r].marker : rows[n] <= root[r].has[n] /\ root[r].has[n] <= root[r].has[n]
      <4> SUFFICES ASSUME NEW n \in root[r].marker
          PROVE  rows[n] <= root[r].has[n] /\ root[r].has[n] <= root[r].has[n]
        OBVIOUS
      <4>1. root[r].has[n] \in Versions /\ root[r].has[n] # None
        BY <1>1, <3>3, <3>4 DEF RootRows
      <4>2. rows[n] <= root[r].has[n]
        BY <2>3, <3>2, <3>4
      <4>3. root[r].has[n] \in Nat
        BY <4>1 DEF Versions
      <4> QED
        BY <4>2, <4>3
    <3>6. \A n \in root[r].marker : n \in ListedFiles(c)
      BY <1>5
    <3>7. Marker \in ListedFiles(c)
      BY <1>5
    <3>8. moment.marker # None
      BY <2>3, <3>1
    <3>9. \A n \in moment.marker : moment.has[n] # None
      BY <3>1, <3>3, <3>4
    <3>10. Agrees(c, moment)'
      BY <1>1, <2>1, <3>1, <3>2, <3>3, <3>5, <3>6, <3>7, <3>8, <3>9 DEF Agrees
    <3> QED
      BY <1>1, <3>10 DEF ComparingOK
  <2> QED
    BY <1>1, <2>1, <2>4, <2>5, BackupQuiet
<1> QED
  BY <1>4, <1>5

\* What was compared to the end is what the workspace held at that moment.
LEMMA WriteManifestKeeps ==
  ASSUME LocalInv, NEW c \in Commands, WriteManifest(c)
  PROVE  LocalInv'
<1> USE NoneIsNoNumber, MarkerIsNoProfile
<1>1. /\ CommandOK(c)
      /\ DOMAIN command = Commands
      /\ DOMAIN command[c] = {"at", "kind", "in", "name", "marker", "rows", "todo"}
      /\ command[c].at = "compare" /\ command[c].todo = {}
      /\ UNCHANGED <<root, archive, moments>>
  BY BackupFacts DEF WriteManifest
<1> DEFINE rows == command[c].rows
           files == Held(rows[Marker], [n \in Profiles |-> rows[n]])
<1>2. PICK moment \in moments : Agrees(c, moment)
  BY <1>1 DEF CommandOK, ComparingOK
<1>3. moment.marker = rows[Marker] /\ moment \in Held2
  BY <1>1, <1>2 DEF Agrees
<1>4. \A n \in Profiles : moment.has[n] = rows[n]
  BY <1>1, <1>2 DEF Agrees
<1>5. moment = files
  <2>1. moment.has = [n \in Profiles |-> rows[n]]
    BY <1>3, <1>4 DEF Held2
  <2> QED
    BY <1>3, <2>1 DEF Held, Held2
<1>6. Whole(moment)
  BY <1>2 DEF Whole, Agrees
<1>7. /\ command'[c].at = "reserve" /\ command'[c].kind = command[c].kind
      /\ command'[c].rows = files
      /\ \A d \in Commands \ {c} : command'[d] = command[d]
      /\ LocalTypeOK'
  BY <1>1 DEF LocalInv, LocalTypeOK, Goes, WriteManifest
<1>8. Quiet(c)
  BY <1>1, <1>7 DEF Quiet, Entered, Publishes
<1>9. command[c].kind = "backup"
  BY <1>1 DEF CommandOK, HashingOK
<1> HIDE DEF files
<1>10. CommandOK(c)'
  BY <1>1, <1>2, <1>5, <1>6, <1>7, <1>9
     DEF CommandOK, AddingOK, BuildingOK, SealingOK, HashingOK, ComparingOK, Whole, Held2
<1> QED
  BY <1>8, <1>10, QuietKeeps

-----------------------------------------------------------------------------
(* The steps of a publication.                                             *)

LEMMA PublisherFacts ==
  ASSUME LocalInv, NEW c \in Commands, command[c].at \in {"reserve", "rename", "seal"}
  PROVE  /\ CommandOK(c) /\ root \in [Roots -> RootRows]
         /\ DOMAIN archive = {"there", "files", "manifest"}
         /\ DOMAIN command = Commands
         /\ DOMAIN command[c] = {"at", "kind", "in", "name", "marker", "rows", "todo"}
         /\ command[c].kind = "workspace" => command[c].in \in Roots
         /\ command[c].kind # "workspace" => command[c].kind = "backup"
         /\ Whole(command[c].rows)
  BY Parts DEF LocalTypeOK, CommandOK, BuildingOK, SealingOK

\* A step of process c at a directory without a marker, where nobody else
\* publishes, disturbs nobody.
LEMMA UnmarkedKeeps ==
  ASSUME LocalInv, NEW c \in Commands, NEW r \in Roots, root[r].marker = None,
         root' \in [Roots -> RootRows], \A q \in Roots \ {r} : root'[q] = root[q],
         \A d \in Commands \ {c} : /\ command'[d] = command[d]
                                   /\ Publishes(d, "workspace") => command[d].in # r,
         \A q \in Roots : ~Entered(c, q)',
         archive' = archive
  PROVE  SeenKept /\ GrowsOnly /\ \A d \in Commands \ {c} : Undisturbed(d)
<1>1. root \in [Roots -> RootRows]
  BY DEF LocalInv, LocalTypeOK
<1>2. SeenKept
  BY DEF SeenKept, Seen, Entered
<1>3. ASSUME NEW q \in Roots, root[q].marker # None, NEW n \in Profiles, Seen(q, {n})
      PROVE  root[q].has[n] <= root'[q].has[n]
  <2>1. root[q].has[n] \in Nat /\ root'[q].has[n] = root[q].has[n]
    BY <1>1, <1>3 DEF RootRows, Seen, Versions
  <2> QED
    BY <2>1
<1>4. GrowsOnly
  BY <1>3 DEF GrowsOnly
<1>5. ASSUME NEW d \in Commands \ {c}
      PROVE  Undisturbed(d)
  <2>1. AddingOK(d) /\ BuildingOK(d)
    BY DEF LocalInv
  <2> QED
    BY <2>1 DEF Undisturbed, AddingOK, BuildingOK, Entered, Publishes
<1> QED
  BY <1>2, <1>4, <1>5

\* The rest of the invariant after such a step, which leaves no marker there.
LEMMA UnmarkedStep ==
  ASSUME LocalInv, NEW c \in Commands, NEW r \in Roots, root[r].marker = None,
         root'[r].marker = None,
         LocalTypeOK', \A q \in Roots \ {r} : root'[q] = root[q],
         \A d \in Commands \ {c} : /\ command'[d] = command[d]
                                   /\ Publishes(d, "workspace") => command[d].in # r,
         \A q \in Roots : ~Entered(c, q)',
         archive' = archive, moments' = moments,
         Publishes(c, "workspace")' => command'[c].in = r,
         ~Publishes(c, "backup")', CommandOK(c)'
  PROVE  LocalInv'
<1>1. SeenKept /\ GrowsOnly /\ \A d \in Commands \ {c} : Undisturbed(d)
  BY UnmarkedKeeps DEF LocalTypeOK
<1>2. ArchiveOK'
  BY Parts DEF ArchiveOK, Whole, Held2
<1>3. ASSUME NEW q \in Roots
      PROVE  MarkedOK(q)'
  <2>1. CASE q = r
    BY <2>1 DEF MarkedOK
  <2>2. CASE q # r
    <3>1. MarkedOK(q) /\ root'[q] = root[q] /\ root[q] \in RootRows
      BY <2>2, Parts DEF LocalTypeOK
    <3> SUFFICES ASSUME root[q].marker # None
        PROVE  MarkedOK(q)'
      BY <3>1 DEF MarkedOK
    <3>2. PICK names \in SUBSET Profiles : names = root[q].marker
      BY <3>1 DEF RootRows, Markers
    <3>3. Seen(q, names)'
      BY <1>1, <3>1, <3>2, SeenNames DEF MarkedOK, SeenKept
    <3> QED
      BY <3>1, <3>2, <3>3 DEF MarkedOK
  <2> QED
    BY <2>1, <2>2
<1>4. ASSUME NEW d \in Commands \ {c}
      PROVE  Apart(c, d)'
  BY DEF Apart, Publishes, Entered
<1> QED
  BY <1>1, <1>2, <1>3, <1>4, StepKeeps

\* A step of process c that changes the archive alone.
LEMMA ArchiveStep ==
  ASSUME LocalInv, NEW c \in Commands, UNCHANGED <<root, moments>>, LocalTypeOK',
         \A d \in Commands \ {c} : command'[d] = command[d] /\ ~Publishes(d, "backup"),
         \A q \in Roots : ~Entered(c, q)', ~Publishes(c, "workspace")',
         CommandOK(c)', ArchiveOK'
  PROVE  LocalInv'
<1>1. root \in [Roots -> RootRows]
  BY DEF LocalInv, LocalTypeOK
<1>2. ASSUME NEW d \in Commands \ {c}
      PROVE  Undisturbed(d)
  <2>1. AddingOK(d)
    BY DEF LocalInv
  <2> QED
    BY <2>1 DEF Undisturbed, AddingOK, Entered
<1>3. SeenKept
  BY DEF SeenKept, Seen, Entered
<1>4. ASSUME NEW r \in Roots
      PROVE  MarkedOK(r)'
  <2>1. MarkedOK(r)
    BY Parts
  <2> SUFFICES ASSUME root[r].marker # None
      PROVE  MarkedOK(r)'
    BY DEF MarkedOK
  <2>2. PICK names \in SUBSET Profiles : names = root[r].marker
    BY <1>1 DEF RootRows, Markers
  <2>3. Seen(r, names)'
    BY <1>3, <2>1, <2>2, SeenNames DEF MarkedOK, SeenKept
  <2> QED
    BY <2>1, <2>2, <2>3 DEF MarkedOK
<1>5. ASSUME NEW r \in Roots, NEW n \in Profiles, Seen(r, {n})
      PROVE  root[r].has[n] <= root'[r].has[n]
  <2>1. root[r].has[n] \in Nat
    BY <1>1, <1>5 DEF RootRows, Seen, Versions
  <2> QED
    BY <2>1
<1>6. GrowsOnly
  BY <1>5 DEF GrowsOnly
<1>7. \A d \in Commands \ {c} : Apart(c, d)'
  BY DEF Apart, Publishes, Entered
<1> QED
  BY <1>2, <1>3, <1>4, <1>6, <1>7, StepKeeps

LEMMA ReserveKeeps ==
  ASSUME LocalInv, NEW c \in Commands, ReserveTarget(c)
  PROVE  LocalInv'
<1>1. /\ CommandOK(c) /\ root \in [Roots -> RootRows]
      /\ DOMAIN archive = {"there", "files", "manifest"}
      /\ DOMAIN command = Commands
      /\ DOMAIN command[c] = {"at", "kind", "in", "name", "marker", "rows", "todo"}
      /\ command[c].at = "reserve" /\ Whole(command[c].rows) /\ moments' = moments
  BY PublisherFacts DEF ReserveTarget
<1> DEFINE refused == IF command[c].kind = "workspace" THEN root[command[c].in].there
                      ELSE archive.there
<1>2. CASE refused
  <2>1. Goes(c, Resting) /\ UNCHANGED <<root, archive>>
    BY <1>2 DEF ReserveTarget
  <2> QED
    BY <1>1, <2>1, EndsKeeps
<1>3. CASE ~refused /\ command[c].kind = "workspace"
  <2>1. PICK r \in Roots : r = command[c].in
    BY <1>3, PublisherFacts DEF ReserveTarget
  <2>2. /\ ~root[r].there /\ UNCHANGED archive
        /\ root' = [root EXCEPT ![r].there = TRUE]
        /\ Goes(c, [command[c] EXCEPT !.at = "rename"])
    BY <1>3, <2>1 DEF ReserveTarget
  <2>3. /\ root[r].marker = None /\ root'[r].marker = None /\ root'[r].there
        /\ \A q \in Roots \ {r} : root'[q] = root[q]
        /\ root' \in [Roots -> RootRows]
    <3>1. [root[r] EXCEPT !.there = TRUE] \in RootRows
      BY <1>1 DEF RootRows
    <3>2. root[r].marker = None
      BY <2>2, Parts DEF MarkedOK
    <3> QED
      BY <1>1, <2>2, <3>1, <3>2 DEF RootRows
  <2>4. /\ command'[c].at = "rename" /\ command'[c].kind = "workspace" /\ command'[c].in = r
        /\ command'[c].rows = command[c].rows
        /\ \A d \in Commands \ {c} : command'[d] = command[d]
        /\ LocalTypeOK'
    BY <1>1, <1>3, <2>1, <2>2, <2>3 DEF LocalInv, LocalTypeOK, Goes
  <2>5. \A d \in Commands : Publishes(d, "workspace") => command[d].in # r
    BY <2>2, Parts DEF CommandOK, BuildingOK, Publishes
  <2>6. CommandOK(c)'
    BY <1>1, <2>3, <2>4
       DEF CommandOK, AddingOK, BuildingOK, SealingOK, HashingOK, ComparingOK, Whole, Held2
  <2> QED
    BY <1>1, <2>2, <2>3, <2>4, <2>5, <2>6, UnmarkedStep DEF Entered, Publishes
<1>4. CASE ~refused /\ command[c].kind # "workspace"
  <2>1. /\ ~archive.there /\ UNCHANGED root
        /\ archive' = [archive EXCEPT !.there = TRUE]
        /\ Goes(c, [command[c] EXCEPT !.at = "rename"])
    BY <1>4 DEF ReserveTarget
  <2>2. archive.manifest = None /\ \A d \in Commands : ~Publishes(d, "backup")
    BY <2>1, Parts DEF ArchiveOK, CommandOK, SealingOK, Publishes
  <2>3. /\ archive'.there /\ archive'.manifest = None
        /\ command'[c].at = "rename" /\ command'[c].kind = "backup"
        /\ command'[c].rows = command[c].rows
        /\ \A d \in Commands \ {c} : command'[d] = command[d]
        /\ LocalTypeOK'
    BY <1>1, <1>4, <2>1, <2>2, PublisherFacts DEF LocalInv, LocalTypeOK, Goes
  <2>4. CommandOK(c)'
    BY <1>1, <1>4, <2>3
       DEF CommandOK, AddingOK, BuildingOK, SealingOK, HashingOK, ComparingOK, Whole, Held2
  <2> QED
    BY <1>1, <2>1, <2>2, <2>3, <2>4, ArchiveStep DEF ArchiveOK, Entered, Publishes
<1> QED
  BY <1>2, <1>3, <1>4

LEMMA PublishBodyKeeps ==
  ASSUME LocalInv, NEW c \in Commands, PublishBody(c)
  PROVE  LocalInv'
<1>1. /\ CommandOK(c) /\ root \in [Roots -> RootRows]
      /\ DOMAIN archive = {"there", "files", "manifest"}
      /\ DOMAIN command = Commands
      /\ DOMAIN command[c] = {"at", "kind", "in", "name", "marker", "rows", "todo"}
      /\ command[c].at = "rename" /\ Whole(command[c].rows) /\ moments' = moments
      /\ Goes(c, [command[c] EXCEPT !.at = "seal"])
  BY PublisherFacts DEF PublishBody
<1>2. /\ command'[c].at = "seal" /\ command'[c].kind = command[c].kind
      /\ command'[c].in = command[c].in /\ command'[c].rows = command[c].rows
      /\ \A d \in Commands \ {c} : command'[d] = command[d]
      /\ DOMAIN command' = Commands /\ DOMAIN command'[c] = DOMAIN command[c]
  BY <1>1 DEF Goes
<1>3. CASE command[c].kind = "workspace"
  <2>1. PICK r \in Roots : r = command[c].in
    BY <1>3, PublisherFacts DEF PublishBody
  <2>2. /\ UNCHANGED archive
        /\ root' = [root EXCEPT ![r].has = command[c].rows.has]
    BY <1>3, <2>1 DEF PublishBody
  <2>3. Publishes(c, "workspace") /\ root[r].marker = None /\ root[r].there
    BY <1>1, <1>3, <2>1 DEF Publishes, CommandOK, BuildingOK
  <2>4. /\ root'[r].marker = None /\ root'[r].there /\ root'[r].has = command[c].rows.has
        /\ \A q \in Roots \ {r} : root'[q] = root[q]
        /\ root' \in [Roots -> RootRows]
    <3>1. [root[r] EXCEPT !.has = command[c].rows.has] \in RootRows
      BY <1>1 DEF RootRows, Whole, Held2
    <3> QED
      BY <1>1, <2>2, <2>3, <3>1 DEF RootRows
  <2>5. LocalTypeOK'
    BY <1>1, <1>2, <2>2, <2>4 DEF LocalInv, LocalTypeOK
  <2>6. \A d \in Commands \ {c} : Publishes(d, "workspace") => command[d].in # r
    BY <2>1, <2>3, Parts DEF Apart
  <2>7. CommandOK(c)'
    BY <1>1, <1>2, <1>3, <2>1, <2>4
       DEF CommandOK, AddingOK, BuildingOK, SealingOK, HashingOK, ComparingOK, Whole, Held2
  <2> QED
    BY <1>1, <1>2, <1>3, <2>1, <2>2, <2>3, <2>4, <2>5, <2>6, <2>7, UnmarkedStep
       DEF Entered, Publishes
<1>4. CASE command[c].kind # "workspace"
  <2>1. UNCHANGED root /\ archive' = [archive EXCEPT !.files = command[c].rows]
    BY <1>4 DEF PublishBody
  <2>2. /\ Publishes(c, "backup") /\ command[c].kind = "backup"
        /\ archive.there /\ archive.manifest = None
    BY <1>1, <1>4 DEF Publishes, CommandOK, SealingOK
  <2>3. \A d \in Commands \ {c} : ~Publishes(d, "backup")
    BY <2>2, Parts DEF Apart
  <2>4. /\ archive'.there /\ archive'.manifest = None /\ archive'.files = command[c].rows
        /\ LocalTypeOK'
    BY <1>1, <1>2, <2>1, <2>2 DEF LocalInv, LocalTypeOK
  <2>5. CommandOK(c)'
    BY <1>1, <1>2, <2>2, <2>4
       DEF CommandOK, AddingOK, BuildingOK, SealingOK, HashingOK, ComparingOK, Whole, Held2
  <2> QED
    BY <1>1, <1>2, <2>1, <2>2, <2>3, <2>4, <2>5, ArchiveStep DEF ArchiveOK, Entered, Publishes
<1> QED
  BY <1>3, <1>4

LEMMA PublishSealKeeps ==
  ASSUME LocalInv, NEW c \in Commands, PublishSeal(c)
  PROVE  LocalInv'
<1>1. /\ CommandOK(c) /\ root \in [Roots -> RootRows]
      /\ DOMAIN archive = {"there", "files", "manifest"}
      /\ DOMAIN command = Commands
      /\ command[c].at = "seal" /\ Whole(command[c].rows)
      /\ Goes(c, Resting)
  BY PublisherFacts DEF PublishSeal
<1>2. /\ command'[c].at = "idle"
      /\ \A d \in Commands \ {c} : command'[d] = command[d]
      /\ DOMAIN command' = Commands /\ command'[c] = Resting
  BY <1>1 DEF Goes, Resting
<1>3. CommandOK(c)'
  BY <1>2, RestingOK
<1>4. CASE command[c].kind = "workspace"
  <2>1. PICK r \in Roots : r = command[c].in
    BY <1>4, PublisherFacts DEF PublishSeal
  <2>2. /\ UNCHANGED archive /\ Observed(r)
        /\ root' = [root EXCEPT ![r].marker = command[c].rows.marker]
    BY <1>4, <2>1 DEF PublishSeal
  <2>3. /\ Publishes(c, "workspace") /\ root[r].marker = None /\ root[r].there
        /\ root[r].has = command[c].rows.has
    BY <1>1, <1>4, <2>1 DEF Publishes, CommandOK, BuildingOK
  <2>4. /\ root'[r].marker = command[c].rows.marker /\ root'[r].there
        /\ root'[r].has = command[c].rows.has
        /\ \A q \in Roots \ {r} : root'[q] = root[q]
        /\ root' \in [Roots -> RootRows]
    <3>1. [root[r] EXCEPT !.marker = command[c].rows.marker] \in RootRows
      BY <1>1 DEF RootRows, Whole, Held2
    <3> QED
      BY <1>1, <2>2, <2>3, <3>1 DEF RootRows
  <2>5. LocalTypeOK'
    BY <1>1, <1>2, <2>2, <2>4 DEF LocalInv, LocalTypeOK, Resting
  <2>6. \A d \in Commands \ {c} : Publishes(d, "workspace") => command[d].in # r
    BY <2>1, <2>3, Parts DEF Apart
  <2>7. SeenKept /\ GrowsOnly /\ \A d \in Commands \ {c} : Undisturbed(d)
    BY <1>2, <2>2, <2>3, <2>4, <2>6, UnmarkedKeeps DEF Entered
  <2>8. moments \subseteq moments'
    BY <2>2 DEF Observed
  <2>9. ASSUME NEW q \in Roots
        PROVE  MarkedOK(q)'
    <3>1. CASE q = r
      <4>1. \A d \in Commands : ~Entered(d, r)'
        <5> SUFFICES ASSUME NEW d \in Commands
            PROVE  ~Entered(d, r)'
          OBVIOUS
        <5>1. AddingOK(d)
          BY DEF LocalInv
        <5> QED
          BY <1>2, <2>3, <5>1 DEF Entered, AddingOK
      <4>2. Seen(r, root[r].marker)'
        BY <1>1, <2>4, <4>1 DEF Seen, Whole
      <4>3. Held(root[r].marker, root[r].has)' \in moments'
        BY <1>1, <2>2, <2>4 DEF Observed, Whole
      <4> QED
        BY <2>4, <3>1, <4>2, <4>3 DEF MarkedOK
    <3>2. CASE q # r
      <4>1. MarkedOK(q) /\ root'[q] = root[q]
        BY <2>4, <3>2, Parts
      <4> SUFFICES ASSUME root[q].marker # None
          PROVE  MarkedOK(q)'
        BY <4>1 DEF MarkedOK
      <4>2. PICK names \in SUBSET Profiles : names = root[q].marker
        BY <1>1 DEF RootRows, Markers
      <4>3. Seen(q, names)'
        BY <2>7, <4>1, <4>2, SeenNames DEF MarkedOK, SeenKept
      <4> QED
        BY <2>8, <4>1, <4>2, <4>3 DEF MarkedOK
    <3> QED
      BY <3>1, <3>2
  <2>10. ArchiveOK'
    BY <2>2, <2>8, Parts DEF ArchiveOK, Whole, Held2
  <2>11. \A d \in Commands \ {c} : Apart(c, d)'
    BY <1>2 DEF Apart, Publishes, Entered
  <2> QED
    BY <1>3, <2>5, <2>7, <2>8, <2>9, <2>10, <2>11, StepKeeps
<1>5. CASE command[c].kind # "workspace"
  <2>1. UNCHANGED <<root, moments>> /\ archive' = [archive EXCEPT !.manifest = command[c].marker]
    BY <1>5 DEF PublishSeal
  <2>2. /\ Publishes(c, "backup") /\ archive.there
        /\ archive.files = command[c].rows /\ command[c].rows \in moments
    BY <1>1, <1>5 DEF Publishes, CommandOK, SealingOK
  <2>3. \A d \in Commands \ {c} : ~Publishes(d, "backup")
    BY <2>2, Parts DEF Apart
  <2>4. /\ archive'.there /\ archive'.files = command[c].rows
        /\ LocalTypeOK'
    BY <1>1, <1>2, <2>1, <2>2 DEF LocalInv, LocalTypeOK, Resting
  <2>5. ArchiveOK'
    BY <1>1, <2>1, <2>2, <2>4 DEF ArchiveOK, Whole, Held2
  <2> QED
    BY <1>2, <1>3, <2>1, <2>3, <2>4, <2>5, ArchiveStep DEF Entered, Publishes
<1> QED
  BY <1>4, <1>5

-----------------------------------------------------------------------------
(* The steps that change a workspace with a marker.                        *)

LEMMA MarkedStep ==
  ASSUME LocalInv, NEW r \in Roots, root[r].marker # None, root'[r].marker # None,
         root'[r].there = root[r].there, root' \in [Roots -> RootRows],
         \A q \in Roots \ {r} : root'[q] = root[q], archive' = archive, Observed(r),
         \A q \in Roots : \A n \in Profiles : Seen(q, {n}) => Seen(q, {n})',
         \A n \in Profiles : Seen(r, {n}) => root[r].has[n] <= root'[r].has[n],
         \A names \in SUBSET Profiles :
           Seen(r, names) /\ root'[r].marker = names => root[r].marker = names,
         \A n \in root'[r].marker : Seen(r, {n})'
  PROVE  /\ SeenKept /\ GrowsOnly /\ moments \subseteq moments'
         /\ ArchiveOK' /\ \A q \in Roots : MarkedOK(q)'
<1>1. root \in [Roots -> RootRows]
  BY DEF LocalInv, LocalTypeOK
<1>2. SeenKept
  BY DEF SeenKept
<1>3. ASSUME NEW q \in Roots \ {r}, NEW n \in Profiles, Seen(q, {n})
      PROVE  root[q].has[n] <= root'[q].has[n]
  <2>1. root[q].has[n] \in Nat
    BY <1>1, <1>3 DEF RootRows, Seen, Versions
  <2> QED
    BY <2>1
<1>4. GrowsOnly
  BY <1>3 DEF GrowsOnly
<1>5. moments \subseteq moments'
  BY DEF Observed
<1>6. ArchiveOK'
  BY <1>5, Parts DEF ArchiveOK, Whole, Held2
<1>7. ASSUME NEW q \in Roots
      PROVE  MarkedOK(q)'
  <2>1. MarkedOK(q)
    BY Parts
  <2>2. CASE q = r
    <3>1. Seen(r, root[r].marker)'
      BY DEF Seen
    <3>2. Held(root[r].marker, root[r].has)' \in moments'
      BY DEF Observed
    <3> QED
      BY <2>1, <2>2, <3>1, <3>2 DEF MarkedOK
  <2>3. CASE q # r
    <3> SUFFICES ASSUME root[q].marker # None
        PROVE  MarkedOK(q)'
      BY <2>3 DEF MarkedOK
    <3>1. PICK names \in SUBSET Profiles : names = root[q].marker
      BY <1>1 DEF RootRows, Markers
    <3>2. Seen(q, names)'
      BY <1>2, <2>1, <3>1, SeenNames DEF MarkedOK, SeenKept
    <3> QED
      BY <1>5, <2>1, <2>3, <3>1, <3>2 DEF MarkedOK
  <2> QED
    BY <2>2, <2>3
<1> QED
  BY <1>2, <1>4, <1>5, <1>6, <1>7

\* What is known of a process that adds a profile.
LEMMA AdderFacts ==
  ASSUME LocalInv, NEW c \in Commands,
         command[c].at \in {"enter", "validate", "announce", "replace"}
  PROVE  /\ CommandOK(c) /\ root \in [Roots -> RootRows]
         /\ DOMAIN command = Commands
         /\ DOMAIN command[c] = {"at", "kind", "in", "name", "marker", "rows", "todo"}
         /\ command[c].in \in Roots /\ command[c].name \in Profiles
         /\ command[c].marker \in SUBSET Profiles
         /\ root[command[c].in].marker # None
         /\ root[command[c].in].marker \in SUBSET Profiles
         /\ Seen(command[c].in, command[c].marker)
         /\ Seen(command[c].in, root[command[c].in].marker)
         /\ Held(root[command[c].in].marker, root[command[c].in].has) \in moments
  BY Parts DEF LocalTypeOK, CommandOK, AddingOK, MarkedOK, RootRows, Markers

\* Nobody publishes where there is a marker, so only profiles that somebody
\* made can be disturbed there.
LEMMA MarkedUndisturbed ==
  ASSUME LocalInv, NEW r \in Roots, root[r].marker # None,
         \A q \in Roots \ {r} : root'[q] = root[q], archive' = archive,
         NEW d \in Commands, command'[d] = command[d],
         Entered(d, r) => root'[r].has[command[d].name] # None
  PROVE  Undisturbed(d)
<1>1. AddingOK(d) /\ BuildingOK(d)
  BY DEF LocalInv
<1>2. Publishes(d, "workspace") => command[d].in \in Roots \ {r}
  BY <1>1 DEF BuildingOK, Publishes
<1>3. \A q \in Roots : Entered(d, q) => root'[q].has[command[d].name] # None
  BY <1>1 DEF AddingOK, Entered
<1> QED
  BY <1>2, <1>3 DEF Undisturbed

LEMMA EnterProfileKeeps ==
  ASSUME LocalInv, NEW c \in Commands, EnterProfile(c)
  PROVE  LocalInv'
<1> USE NoneIsNoNumber
<1>1. PICK r \in Roots, n \in Profiles, names \in SUBSET Profiles :
        r = command[c].in /\ n = command[c].name /\ names = command[c].marker
  BY AdderFacts DEF EnterProfile
<1>2. /\ command[c].at = "enter" /\ root \in [Roots -> RootRows]
      /\ DOMAIN command = Commands
      /\ DOMAIN command[c] = {"at", "kind", "in", "name", "marker", "rows", "todo"}
      /\ root[r].marker # None /\ Seen(r, names) /\ Seen(r, root[r].marker)
      /\ root[r].marker \in SUBSET Profiles
      /\ Held(root[r].marker, root[r].has) \in moments
      /\ Observed(r) /\ UNCHANGED archive
  BY <1>1, AdderFacts DEF EnterProfile
<1>3. root[r].stages - 1 \in Int
  BY <1>2 DEF RootRows
<1>4. CASE root[r].has[n] # None
  <2>1. Goes(c, Resting) /\ root' = [root EXCEPT ![r].stages = @ - 1]
    BY <1>1, <1>4 DEF EnterProfile
  <2>2. /\ root' \in [Roots -> RootRows]
        /\ \A q \in Roots : /\ root'[q].there = root[q].there
                            /\ root'[q].marker = root[q].marker
                            /\ root'[q].has = root[q].has
    BY <1>2, <1>3, <2>1 DEF RootRows
  <2>3. moments' = moments
    BY <1>2, <2>2 DEF Observed
  <2> QED
    BY <1>2, <2>1, <2>2, <2>3, EndsKeeps
<1>5. CASE root[r].has[n] = None
  <2>1. /\ Goes(c, [command[c] EXCEPT !.at = "validate"])
        /\ root' = [root EXCEPT ![r].stages = @ - 1, ![r].has[n] = 0]
    BY <1>1, <1>5 DEF EnterProfile
  <2>2. /\ command'[c].at = "validate" /\ command'[c].in = r /\ command'[c].name = n
        /\ command'[c].marker = names
        /\ \A d \in Commands \ {c} : command'[d] = command[d]
        /\ DOMAIN command' = Commands /\ DOMAIN command'[c] = DOMAIN command[c]
    BY <1>1, <1>2, <2>1 DEF Goes
  <2>3. /\ root'[r].there = root[r].there /\ root'[r].marker = root[r].marker
        /\ root'[r].has = [root[r].has EXCEPT ![n] = 0]
        /\ root[r].has \in [Profiles -> Versions] /\ root'[r].has \in [Profiles -> Versions]
        /\ \A q \in Roots \ {r} : root'[q] = root[q]
        /\ root' \in [Roots -> RootRows]
    <3>1. /\ root[r].has \in [Profiles -> Versions]
          /\ [root[r].has EXCEPT ![n] = 0] \in [Profiles -> Versions]
      BY <1>2 DEF RootRows, Versions
    <3>2. [root[r] EXCEPT !.stages = @ - 1, !.has = [root[r].has EXCEPT ![n] = 0]] \in RootRows
      BY <1>2, <1>3, <3>1 DEF RootRows
    <3>3. root' = [root EXCEPT ![r] = [root[r] EXCEPT !.stages = @ - 1,
                                          !.has = [root[r].has EXCEPT ![n] = 0]]]
      BY <1>2, <2>1 DEF RootRows
    <3> QED
      BY <1>2, <3>1, <3>2, <3>3 DEF RootRows
  <2>4. LocalTypeOK'
    BY <1>2, <2>2, <2>3 DEF LocalInv, LocalTypeOK
  <2>5. \A d \in Commands : Entered(d, r) => /\ root[r].has[command[d].name] # None
                                             /\ command[d].name \in Profiles \ {n}
    BY <1>5, Parts DEF CommandOK, AddingOK, Entered
  <2>6. \A d \in Commands \ {c} : Undisturbed(d)
    BY <1>2, <2>2, <2>3, <2>5, MarkedUndisturbed
  <2>7. ASSUME NEW q \in Roots, NEW m \in Profiles, Seen(q, {m})
        PROVE  Seen(q, {m})' /\ (q = r => root[r].has[m] <= root'[r].has[m])
    <3>1. root[q].has[m] # None
      BY <2>7 DEF Seen
    <3>2. root'[q].has[m] = root[q].has[m] /\ (q = r => m # n)
      BY <1>5, <2>3, <3>1
    <3>3. root[q].has[m] \in Nat
      BY <1>2, <3>1 DEF RootRows, Versions
    <3>4. Seen(q, {m})'
      BY <2>2, <2>7, <3>1, <3>2 DEF Seen, Entered
    <3> QED
      BY <3>2, <3>3, <3>4
  <2>8. \A m \in root'[r].marker : Seen(r, {m})'
    BY <1>2, <2>3, <2>7, SeenNames
  <2>9. /\ SeenKept /\ GrowsOnly /\ moments \subseteq moments'
        /\ ArchiveOK' /\ \A q \in Roots : MarkedOK(q)'
    BY <1>2, <2>3, <2>7, <2>8, MarkedStep
  <2>10. Seen(r, names)'
    BY <1>2, <2>7, SeenNames
  <2>11. root'[r].has[n] = 0
    BY <2>3
  <2>12. CommandOK(c)'
    BY <1>1, <1>2, <2>2, <2>3, <2>10, <2>11
       DEF CommandOK, AddingOK, BuildingOK, SealingOK, HashingOK, ComparingOK
  <2>13. ASSUME NEW d \in Commands \ {c}
         PROVE  Apart(c, d)'
    BY <2>2, <2>5 DEF Apart, Publishes, Entered
  <2> QED
    BY <2>4, <2>6, <2>9, <2>12, <2>13, StepKeeps
<1> QED
  BY <1>4, <1>5

\* A profile is accepted, or withdrawn before anybody has seen it.
LEMMA ValidateProfileKeeps ==
  ASSUME LocalInv, NEW c \in Commands, ValidateProfile(c)
  PROVE  LocalInv'
<1> USE NoneIsNoNumber
<1>1. PICK r \in Roots, n \in Profiles, names \in SUBSET Profiles :
        r = command[c].in /\ n = command[c].name /\ names = command[c].marker
  BY AdderFacts DEF ValidateProfile
<1>2. /\ command[c].at = "validate" /\ root \in [Roots -> RootRows]
      /\ DOMAIN command = Commands
      /\ DOMAIN command[c] = {"at", "kind", "in", "name", "marker", "rows", "todo"}
      /\ root[r].marker # None /\ Seen(r, names) /\ Seen(r, root[r].marker)
      /\ root[r].marker \in SUBSET Profiles
      /\ Held(root[r].marker, root[r].has) \in moments
      /\ Observed(r) /\ UNCHANGED archive /\ CommandOK(c)
  BY <1>1, AdderFacts DEF ValidateProfile
<1>3. CASE Goes(c, [command[c] EXCEPT !.at = "announce"]) /\ UNCHANGED root
  <2>1. /\ command'[c].at = "announce" /\ command'[c].in = r /\ command'[c].name = n
        /\ command'[c].marker = names
        /\ \A d \in Commands \ {c} : command'[d] = command[d]
        /\ DOMAIN command' = Commands /\ DOMAIN command'[c] = DOMAIN command[c]
    BY <1>1, <1>2, <1>3 DEF Goes
  <2>t. LocalTypeOK'
    BY <1>2, <1>3, <2>1 DEF LocalInv, LocalTypeOK
  <2>2. moments' = moments
    BY <1>2, <1>3 DEF Observed
  <2>3. Quiet(c)
    BY <1>1, <1>2, <1>3, <2>1, <2>t, <2>2 DEF Quiet, Entered, Publishes
  <2>4. Seen(r, names)'
    BY <1>2, <2>3, QuietKeeps, SeenNames DEF SeenKept
  <2>5. CommandOK(c)'
    BY <1>1, <1>2, <1>3, <2>1, <2>4
       DEF CommandOK, AddingOK, BuildingOK, SealingOK, HashingOK, ComparingOK
  <2> QED
    BY <2>3, <2>5, QuietKeeps
<1>4. CASE Goes(c, Resting) /\ root' = [root EXCEPT ![r].has[n] = None]
  <2>1. /\ command'[c] = Resting /\ command'[c].at = "idle"
        /\ \A d \in Commands \ {c} : command'[d] = command[d]
        /\ DOMAIN command' = Commands
    BY <1>2, <1>4 DEF Goes, Resting
  <2>2. /\ root'[r].there = root[r].there /\ root'[r].marker = root[r].marker
        /\ root'[r].has = [root[r].has EXCEPT ![n] = None]
        /\ root[r].has \in [Profiles -> Versions] /\ root'[r].has \in [Profiles -> Versions]
        /\ \A q \in Roots \ {r} : root'[q] = root[q]
        /\ root' \in [Roots -> RootRows]
    <3>1. /\ root[r].has \in [Profiles -> Versions]
          /\ [root[r].has EXCEPT ![n] = None] \in [Profiles -> Versions]
      BY <1>2 DEF RootRows, Versions
    <3>2. [root[r] EXCEPT !.has = [root[r].has EXCEPT ![n] = None]] \in RootRows
      BY <1>2, <3>1 DEF RootRows
    <3>3. root' = [root EXCEPT ![r] = [root[r] EXCEPT !.has = [root[r].has EXCEPT ![n] = None]]]
      BY <1>2, <1>4 DEF RootRows
    <3> QED
      BY <1>2, <3>1, <3>2, <3>3 DEF RootRows
  <2>3. LocalTypeOK'
    BY <1>2, <2>1, <2>2 DEF LocalInv, LocalTypeOK, Resting
  <2>4. Entered(c, r)
    BY <1>1, <1>2 DEF Entered
  <2>5. ASSUME NEW d \in Commands \ {c}, Entered(d, r)
        PROVE  root'[r].has[command[d].name] # None
    <3>1. AddingOK(d) /\ Apart(c, d)
      BY Parts DEF CommandOK
    <3>2. command[d].name \in Profiles /\ root[r].has[command[d].name] # None
      BY <2>5, <3>1 DEF AddingOK, Entered
    <3>3. command[d].name # n
      BY <1>1, <2>4, <2>5, <3>1 DEF Apart
    <3> QED
      BY <2>2, <3>2, <3>3
  <2>6. \A d \in Commands \ {c} : Undisturbed(d)
    BY <1>2, <2>1, <2>2, <2>5, MarkedUndisturbed
  <2>7. ASSUME NEW q \in Roots, NEW m \in Profiles, Seen(q, {m})
        PROVE  Seen(q, {m})' /\ (q = r => root[r].has[m] <= root'[r].has[m])
    <3>1. root[q].has[m] # None /\ (q = r => m # n)
      BY <1>1, <2>4, <2>7 DEF Seen
    <3>2. root'[q].has[m] = root[q].has[m]
      BY <2>2, <3>1
    <3>3. root[q].has[m] \in Nat
      BY <1>2, <3>1 DEF RootRows, Versions
    <3>4. Seen(q, {m})'
      BY <2>1, <2>7, <3>1, <3>2 DEF Seen, Entered
    <3> QED
      BY <3>2, <3>3, <3>4
  <2>8. \A m \in root'[r].marker : Seen(r, {m})'
    BY <1>2, <2>2, <2>7, SeenNames
  <2>9. /\ SeenKept /\ GrowsOnly /\ moments \subseteq moments'
        /\ ArchiveOK' /\ \A q \in Roots : MarkedOK(q)'
    BY <1>2, <2>2, <2>7, <2>8, MarkedStep
  <2>10. CommandOK(c)'
    BY <2>1, RestingOK
  <2>11. \A d \in Commands \ {c} : Apart(c, d)'
    BY <2>1 DEF Apart, Publishes, Entered
  <2> QED
    BY <2>3, <2>6, <2>9, <2>10, <2>11, StepKeeps
<1> QED
  BY <1>1, <1>3, <1>4 DEF ValidateProfile

\* The new marker has the names that were read at the start and one more,
\* which nobody has seen yet: it is none of the sets that were seen.
LEMMA ReplaceMarkerKeeps ==
  ASSUME LocalInv, NEW c \in Commands, ReplaceMarker(c)
  PROVE  LocalInv'
<1> USE NoneIsNoNumber, NoneIsNoMarker
<1>1. PICK r \in Roots, n \in Profiles, names \in SUBSET Profiles :
        r = command[c].in /\ n = command[c].name /\ names = command[c].marker
  BY AdderFacts DEF ReplaceMarker
<1>2. /\ command[c].at = "replace" /\ root \in [Roots -> RootRows]
      /\ DOMAIN command = Commands
      /\ DOMAIN command[c] = {"at", "kind", "in", "name", "marker", "rows", "todo"}
      /\ root[r].marker # None /\ Seen(r, names)
      /\ Observed(r) /\ UNCHANGED archive /\ CommandOK(c)
      /\ Goes(c, Resting)
      /\ root' = [root EXCEPT ![r].markerNew = FALSE, ![r].marker = names \union {n}]
  BY <1>1, AdderFacts DEF ReplaceMarker
<1>3. Entered(c, r) /\ root[r].has[n] # None
  BY <1>1, <1>2 DEF Entered, CommandOK, AddingOK
<1>4. /\ command'[c] = Resting /\ command'[c].at = "idle"
      /\ \A d \in Commands \ {c} : command'[d] = command[d]
      /\ DOMAIN command' = Commands
  BY <1>2 DEF Goes, Resting
<1>5. names \union {n} \in SUBSET Profiles /\ names \union {n} # None
  OBVIOUS
<1>6. /\ root'[r].there = root[r].there /\ root'[r].marker = names \union {n}
      /\ root'[r].has = root[r].has
      /\ \A q \in Roots \ {r} : root'[q] = root[q]
      /\ root' \in [Roots -> RootRows]
  <2>1. [root[r] EXCEPT !.markerNew = FALSE, !.marker = names \union {n}] \in RootRows
    BY <1>2, <1>5 DEF RootRows, Markers
  <2>2. root' = [root EXCEPT ![r] = [root[r] EXCEPT !.markerNew = FALSE,
                                                    !.marker = names \union {n}]]
    BY <1>2 DEF RootRows
  <2> QED
    BY <1>2, <2>1, <2>2 DEF RootRows
<1>7. LocalTypeOK'
  BY <1>2, <1>4, <1>6 DEF LocalInv, LocalTypeOK, Resting
<1>8. \A d \in Commands \ {c} : Undisturbed(d)
  <2> SUFFICES ASSUME NEW d \in Commands \ {c}, Entered(d, r)
      PROVE  root'[r].has[command[d].name] # None
    BY <1>2, <1>4, <1>5, <1>6, MarkedUndisturbed
  <2>1. AddingOK(d)
    BY Parts DEF CommandOK
  <2> QED
    BY <1>6, <2>1 DEF AddingOK, Entered
<1>9. ASSUME NEW q \in Roots, NEW m \in Profiles, Seen(q, {m})
      PROVE  Seen(q, {m})' /\ (q = r => root[r].has[m] <= root'[r].has[m])
  <2>1. root[q].has[m] # None /\ root'[q].has[m] = root[q].has[m]
    BY <1>6, <1>9 DEF Seen
  <2>2. root[q].has[m] \in Nat
    BY <1>2, <2>1 DEF RootRows, Versions
  <2>3. Seen(q, {m})'
    BY <1>4, <1>9, <2>1 DEF Seen, Entered
  <2> QED
    BY <2>1, <2>2, <2>3
<1>10. ASSUME NEW seen \in SUBSET Profiles, Seen(r, seen)
       PROVE  root'[r].marker # seen
  <2>1. n \notin seen
    BY <1>1, <1>3, <1>10 DEF Seen
  <2> QED
    BY <1>6, <2>1
<1>11. Seen(r, {n})'
  <2>1. ASSUME NEW d \in Commands \ {c}, Entered(d, r)
        PROVE  command[d].name # n
    BY <1>1, <1>3, <2>1, Parts DEF Apart
  <2> QED
    BY <1>3, <1>4, <1>6, <2>1 DEF Seen, Entered
<1>12. \A m \in root'[r].marker : Seen(r, {m})'
  BY <1>2, <1>6, <1>9, <1>11, SeenNames
<1>13. /\ SeenKept /\ GrowsOnly /\ moments \subseteq moments'
       /\ ArchiveOK' /\ \A q \in Roots : MarkedOK(q)'
  BY <1>2, <1>5, <1>6, <1>9, <1>10, <1>12, MarkedStep
<1>14. CommandOK(c)'
  BY <1>4, RestingOK
<1>15. \A d \in Commands \ {c} : Apart(c, d)'
  BY <1>4 DEF Apart, Publishes, Entered
<1> QED
  BY <1>7, <1>8, <1>13, <1>14, <1>15, StepKeeps

-----------------------------------------------------------------------------
(* The steps nobody takes: an edit of a profile's files, and a crash.      *)

LEMMA EditKeeps ==
  ASSUME LocalInv, Edit
  PROVE  LocalInv'
<1> USE NoneIsNoNumber
<1>1. PICK r \in Roots, n \in Profiles :
        /\ root[r].marker # None /\ n \in root[r].marker
        /\ root[r].has[n] # None
        /\ root' = [root EXCEPT ![r].has[n] = @ + 1]
        /\ Observed(r)
  BY DEF Edit
<1>2. UNCHANGED <<archive, command>> /\ root \in [Roots -> RootRows]
  BY DEF Edit, LocalInv, LocalTypeOK
<1>3. root[r].has \in [Profiles -> Versions] /\ root[r].has[n] \in Nat
  BY <1>1, <1>2 DEF RootRows, Versions
<1>4. /\ root'[r].there = root[r].there /\ root'[r].marker = root[r].marker
      /\ root'[r].has = [root[r].has EXCEPT ![n] = root[r].has[n] + 1]
      /\ \A q \in Roots \ {r} : root'[q] = root[q]
      /\ root' \in [Roots -> RootRows]
  <2>1. [root[r].has EXCEPT ![n] = root[r].has[n] + 1] \in [Profiles -> Versions]
    BY <1>3 DEF Versions
  <2>2. [root[r] EXCEPT !.has = [root[r].has EXCEPT ![n] = root[r].has[n] + 1]] \in RootRows
    BY <1>2, <2>1 DEF RootRows
  <2>3. root' = [root EXCEPT ![r] = [root[r] EXCEPT !.has =
                                       [root[r].has EXCEPT ![n] = root[r].has[n] + 1]]]
    BY <1>1, <1>2 DEF RootRows
  <2> QED
    BY <1>2, <2>1, <2>2, <2>3 DEF RootRows
<1>5. \A m \in Profiles : root[r].has[m] # None =>
        /\ root[r].has[m] \in Nat /\ root'[r].has[m] \in Nat
        /\ root[r].has[m] <= root'[r].has[m]
  <2> SUFFICES ASSUME NEW m \in Profiles, root[r].has[m] # None
      PROVE  /\ root[r].has[m] \in Nat /\ root'[r].has[m] \in Nat
             /\ root[r].has[m] <= root'[r].has[m]
    OBVIOUS
  <2>1. root[r].has[m] \in Nat
    BY <1>3 DEF Versions
  <2>2. root'[r].has[m] = IF m = n THEN root[r].has[n] + 1 ELSE root[r].has[m]
    BY <1>3, <1>4
  <2> QED
    BY <1>3, <2>1, <2>2
<1>6. LocalTypeOK'
  BY <1>2, <1>4 DEF LocalInv, LocalTypeOK
<1>7. \A d \in Commands : Undisturbed(d)
  <2> SUFFICES ASSUME NEW d \in Commands, Entered(d, r)
      PROVE  root'[r].has[command[d].name] # None
    BY <1>1, <1>2, <1>4, MarkedUndisturbed
  <2>1. AddingOK(d)
    BY Parts DEF CommandOK
  <2> QED
    BY <1>5, <2>1 DEF AddingOK, Entered
<1>8. ASSUME NEW q \in Roots, NEW m \in Profiles, Seen(q, {m})
      PROVE  Seen(q, {m})' /\ (q = r => root[r].has[m] <= root'[r].has[m])
  <2>1. root[q].has[m] # None
    BY <1>8 DEF Seen
  <2>2. root'[q].has[m] # None /\ (q = r => root[r].has[m] <= root'[r].has[m])
    <3>1. CASE q = r
      BY <1>5, <2>1, <3>1
    <3>2. CASE q # r
      BY <1>4, <2>1, <3>2
    <3> QED
      BY <3>1, <3>2
  <2>3. Seen(q, {m})'
    BY <1>2, <1>8, <2>2 DEF Seen, Entered
  <2> QED
    BY <2>2, <2>3
<1>9. \A m \in root'[r].marker : Seen(r, {m})'
  <2>1. Seen(r, root[r].marker) /\ root[r].marker \in SUBSET Profiles
    BY <1>1, <1>2, Parts DEF MarkedOK, RootRows, Markers
  <2> QED
    BY <1>4, <1>8, <2>1, SeenNames
<1>10. /\ SeenKept /\ GrowsOnly /\ moments \subseteq moments'
       /\ ArchiveOK' /\ \A q \in Roots : MarkedOK(q)'
  BY <1>1, <1>2, <1>4, <1>8, <1>9, MarkedStep
<1>11. \A d \in Commands : CommandOK(d)'
  BY <1>6, <1>7, <1>10, OthersKeep
<1>12. ASSUME NEW d \in Commands, NEW e \in Commands, d # e
       PROVE  Apart(d, e)'
  BY <1>2, <1>12, Parts DEF Apart, Entered, Publishes
<1> QED
  BY <1>6, <1>10, <1>11, <1>12, Parts

LEMMA CommandCrashKeeps ==
  ASSUME LocalInv, NEW c \in Commands, CommandCrash(c)
  PROVE  LocalInv'
<1>1. /\ Goes(c, Resting) /\ root' = root /\ archive' = archive /\ moments' = moments
      /\ root \in [Roots -> RootRows]
  BY DEF CommandCrash, LocalInv, LocalTypeOK
<1> QED
  BY <1>1, EndsKeeps

-----------------------------------------------------------------------------
(* The invariant.                                                          *)

LEMMA LocalInvStarts ==
  ASSUME LocalInit
  PROVE  LocalInv
<1> USE NoneIsNoNumber
<1>1. \A c \in Commands : command[c] = Resting
  BY DEF LocalInit
<1>2. \A r \in Roots : root[r] = Absent \/ root[r] = Installed
  BY DEF LocalInit
<1>3. Absent \in RootRows
  BY DEF Absent, RootRows, Markers, Versions
<1>4. /\ Installed \in RootRows /\ Installed.there
      /\ Installed.marker = {FirstProfile}
      /\ Installed.has = [m \in Profiles |-> IF m = FirstProfile THEN 0 ELSE None]
  <2>1. PICK m, h : /\ m = {FirstProfile} /\ m = Fresh(FirstProfile).marker
                    /\ h = [n \in Profiles |-> IF n = FirstProfile THEN 0 ELSE None]
                    /\ h = Fresh(FirstProfile).has
    BY DEF Fresh, Held
  <2>2. m \in Markers /\ h \in [Profiles -> Versions]
    BY <2>1, FirstProfileNamed DEF Markers, Versions
  <2>3. Installed = [Absent EXCEPT !.there = TRUE, !.marker = m, !.has = h]
    BY <2>1 DEF Installed
  <2>4. [Absent EXCEPT !.there = TRUE, !.marker = m, !.has = h] \in RootRows
    BY <1>3, <2>2 DEF RootRows
  <2>5. Installed.there /\ Installed.marker = m /\ Installed.has = h
    BY <1>3, <2>3 DEF RootRows
  <2> QED
    BY <2>1, <2>3, <2>4, <2>5
<1>5. root \in [Roots -> RootRows]
  BY <1>3, <1>4 DEF LocalInit
<1>6. LocalTypeOK
  BY <1>1, <1>5 DEF LocalInit, LocalTypeOK, Resting
<1>7. \A c \in Commands : CommandOK(c)
  BY <1>1 DEF CommandOK, AddingOK, BuildingOK, SealingOK, HashingOK, ComparingOK, Resting
<1>8. \A c \in Commands, d \in Commands : Apart(c, d)
  BY <1>1 DEF Apart, Entered, Publishes, Resting
<1>9. ArchiveOK
  BY DEF LocalInit, ArchiveOK
<1>10. ASSUME NEW r \in Roots, root[r].marker # None
       PROVE  MarkedOK(r)
  <2>1. root[r] = Installed
    BY <1>2, <1>10 DEF Absent
  <2>2. Seen(r, root[r].marker)
    BY <1>1, <1>4, <2>1, FirstProfileNamed DEF Seen, Entered, Resting
  <2>3. Held(root[r].marker, root[r].has) \in moments
    BY <1>4, <2>1 DEF LocalInit
  <2> QED
    BY <1>4, <2>1, <2>2, <2>3 DEF MarkedOK
<1> QED
  BY <1>6, <1>7, <1>8, <1>9, <1>10, Parts DEF MarkedOK

LEMMA LocalInvInductive ==
  ASSUME LocalInv, [LocalNext]_localVars
  PROVE  LocalInv'
<1>1. CASE UNCHANGED localVars
  BY <1>1 DEF localVars, LocalInv, LocalTypeOK, Seen, Entered, AddingOK, BuildingOK,
              SealingOK, HashingOK, ComparingOK, Agrees, Publishes, Whole, Held2, IsSnapshot
<1>2. CASE Edit
  BY <1>2, EditKeeps
<1>3. ASSUME NEW c \in Commands,
             \/ Initialize(c) \/ ReserveTarget(c) \/ PublishBody(c) \/ PublishSeal(c)
             \/ AddProfile(c) \/ EnterProfile(c) \/ ValidateProfile(c)
             \/ WriteMarker(c) \/ ReplaceMarker(c)
             \/ Backup(c) \/ HashFile(c) \/ CopyFile(c) \/ Relist(c) \/ CompareFile(c)
             \/ WriteManifest(c) \/ Restore(c) \/ CommandCrash(c)
      PROVE  LocalInv'
  BY <1>3, InitializeKeeps, ReserveKeeps, PublishBodyKeeps, PublishSealKeeps,
     AddProfileKeeps, EnterProfileKeeps, ValidateProfileKeeps, WriteMarkerKeeps,
     ReplaceMarkerKeeps, BackupKeeps, HashFileKeeps, CopyKeeps, RelistKeeps,
     WriteManifestKeeps, RestoreKeeps, CommandCrashKeeps
<1> QED
  BY <1>1, <1>2, <1>3 DEF LocalNext

\* Whatever number of init, profile add, backup, restore and edit overlap, and
\* wherever they crash, a workspace that has a marker has every profile the
\* marker names (local_state.py: _publish, add_profile, paths).
THEOREM WorkspacesStayWhole == LocalSpec => []MarkerMeansComplete
<1>1. LocalInit => LocalInv
  BY LocalInvStarts
<1>2. LocalInv /\ [LocalNext]_localVars => LocalInv'
  BY LocalInvInductive
<1>3. LocalInv => MarkerMeansComplete
  BY DEF LocalInv, MarkerMeansComplete, Seen
<1> QED
  BY <1>1, <1>2, <1>3, PTL DEF LocalSpec

\* A backup that was sealed has the files of the workspace at one moment: the
\* two listings and hashings of local_state.backup find every change, because
\* no marker and no file returns to what it was.
THEOREM BackupsAreMoments == LocalSpec => []BackupIsOneMoment
<1>1. LocalInit => LocalInv
  BY LocalInvStarts
<1>2. LocalInv /\ [LocalNext]_localVars => LocalInv'
  BY LocalInvInductive
<1>3. LocalInv => BackupIsOneMoment
  BY DEF LocalInv, BackupIsOneMoment
<1> QED
  BY <1>1, <1>2, <1>3, PTL DEF LocalSpec
=============================================================================
