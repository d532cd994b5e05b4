----------------------------- MODULE LocalState -----------------------------
(***************************************************************************)
(* The local workspaces of local_state.py: directories that init, profile  *)
(* add, backup and restore build aside and rename into place, with the     *)
(* marker (or the manifest of a backup) last.  Commands are processes that *)
(* share the file system without a lock, and a crash leaves what was done. *)
(* The files of a profile are one version number, which a review, a demo   *)
(* or an editor raises: contents never return to an earlier one.           *)
(***************************************************************************)
EXTENDS WorkspaceFiles, FiniteSets, FiniteSetsExt

CONSTANTS
  Roots,             \* the data directories
  Profiles,          \* the names of profiles
  Commands,          \* the processes
  FirstProfile,      \* the profile an installed workspace has
  MaxVersion,        \* bound: versions of a profile's files
  MaxLocalCommands,  \* bound: commands begun
  MaxLocalCrashes    \* bound: crashes

ASSUME FirstProfileNamed == FirstProfile \in Profiles
ASSUME NoneIsNoMarker == \A named \in SUBSET Profiles : named # None

VARIABLES
  root,          \* each data directory
  archive,       \* the directory of the backup
  command,       \* what each process is doing
  begun, halted, \* commands begun, crashes
  moments        \* history: what a marked workspace ever held

localVars == <<root, archive, command, begun, halted, moments>>

(* A directory that was never made: no marker, no profiles, no leftovers.  *)
Absent == [there |-> FALSE, marker |-> None, has |-> [n \in Profiles |-> None],
           stages |-> 0, markerNew |-> FALSE]

Held(marker, has) == [marker |-> marker, has |-> has]

Fresh(n) == Held({n}, [m \in Profiles |-> IF m = n THEN 0 ELSE None])

Installed == [Absent EXCEPT !.there = TRUE, !.marker = Fresh(FirstProfile).marker,
                            !.has = Fresh(FirstProfile).has]

Resting == [at |-> "idle", kind |-> None, in |-> None, name |-> None,
            marker |-> None, rows |-> None, todo |-> {}]

(* The files a backup lists: the marker and one for each marked profile.   *)
Marker == "marker"
ASSUME MarkerIsNoProfile == Marker \notin Profiles

ContentOf(r, f) == IF f = Marker THEN root[r].marker ELSE root[r].has[f]

LocalInit ==
  /\ LET home == CHOOSE r \in Roots : TRUE IN
       root \in {[r \in Roots |-> Absent],
                 [r \in Roots |-> IF r = home THEN Installed ELSE Absent]}
  /\ archive = [there |-> FALSE, files |-> None, manifest |-> None]
  /\ command = [c \in Commands |-> Resting]
  /\ begun = 0 /\ halted = 0
  /\ moments = {Held(root[r].marker, root[r].has) : r \in {r \in Roots : root[r].there}}

----------------------------------------------------------------------------
Started(c, next) ==
  /\ command[c].at = "idle" /\ begun < MaxLocalCommands
  /\ begun' = begun + 1
  /\ command' = [command EXCEPT ![c] = next]

Goes(c, next) == command' = [command EXCEPT ![c] = next]

Observed(r) ==
  moments' = IF root'[r].marker = None THEN moments
             ELSE moments \union {Held(root'[r].marker, root'[r].has)}

(* paths: the marker is there, and the profile it names first is whole.    *)
Usable(r) ==
  root[r].marker # None /\ \E n \in root[r].marker : root[r].has[n] # None

(* _files refuses what the marker does not name, a stage or a half-made    *)
(* marker included, and a marked profile without its policies.             *)
Listed(r, marker) ==
  /\ root[r].stages = 0 /\ ~root[r].markerNew
  /\ \A n \in Profiles : root[r].has[n] # None <=> n \in marker

(* initialize: the workspace is built in a stage beside its target.        *)
Initialize(c) ==
  /\ \E r \in Roots, n \in Profiles :
       /\ ~root[r].there
       /\ Started(c, [Resting EXCEPT !.at = "reserve", !.kind = "workspace",
                                     !.in = r, !.rows = Fresh(n)])
  /\ UNCHANGED <<root, archive, halted, moments>>

(* Fault: a target that was made meanwhile is taken over.                  *)
ReserveAnyTarget(c) ==
  /\ command[c].at = "reserve"
  /\ IF command[c].kind = "workspace"
     THEN root' = [root EXCEPT ![command[c].in].there = TRUE] /\ UNCHANGED archive
     ELSE archive' = [archive EXCEPT !.there = TRUE] /\ UNCHANGED root
  /\ Goes(c, [command[c] EXCEPT !.at = "rename"])
  /\ UNCHANGED <<begun, halted, moments>>

(* _publish: the target is made, which refuses one made meanwhile, and the *)
(* children follow, the marker or the manifest last.                       *)
ReserveTarget(c) ==
  /\ command[c].at = "reserve"
  /\ IF command[c].kind = "workspace"
     THEN /\ UNCHANGED archive
          /\ IF root[command[c].in].there THEN Goes(c, Resting) /\ UNCHANGED root
             ELSE /\ root' = [root EXCEPT ![command[c].in].there = TRUE]
                  /\ Goes(c, [command[c] EXCEPT !.at = "rename"])
     ELSE /\ UNCHANGED root
          /\ IF archive.there THEN Goes(c, Resting) /\ UNCHANGED archive
             ELSE /\ archive' = [archive EXCEPT !.there = TRUE]
                  /\ Goes(c, [command[c] EXCEPT !.at = "rename"])
  /\ UNCHANGED <<begun, halted, moments>>

PublishBody(c) ==
  /\ command[c].at = "rename"
  /\ Goes(c, [command[c] EXCEPT !.at = "seal"])
  /\ IF command[c].kind = "workspace"
     THEN root' = [root EXCEPT ![command[c].in].has = command[c].rows.has] /\ UNCHANGED archive
     ELSE archive' = [archive EXCEPT !.files = command[c].rows] /\ UNCHANGED root
  /\ UNCHANGED <<begun, halted, moments>>

PublishSeal(c) ==
  /\ command[c].at = "seal"
  /\ Goes(c, Resting)
  /\ IF command[c].kind = "workspace"
     THEN /\ root' = [root EXCEPT ![command[c].in].marker = command[c].rows.marker]
          /\ Observed(command[c].in)
          /\ UNCHANGED archive
     ELSE /\ archive' = [archive EXCEPT !.manifest = command[c].marker]
          /\ UNCHANGED <<root, moments>>
  /\ UNCHANGED <<begun, halted>>

----------------------------------------------------------------------------
(* add_profile.                                                            *)

(* The marker is read, and a stage with the example policies is made.      *)
AddProfile(c) ==
  /\ \E r \in Roots, n \in Profiles :
       /\ Usable(r) /\ n \notin root[r].marker /\ root[r].has[n] = None
       /\ Started(c, [Resting EXCEPT !.at = "enter", !.kind = "add", !.in = r,
                                     !.name = n, !.marker = root[r].marker])
       /\ root' = [root EXCEPT ![r].stages = @ + 1]
  /\ UNCHANGED <<archive, halted, moments>>

(* The stage is renamed to the profile; one made meanwhile refuses it, and *)
(* the stage is discarded.                                                 *)
EnterProfile(c) ==
  LET r == command[c].in  n == command[c].name IN
  /\ command[c].at = "enter"
  /\ IF root[r].has[n] # None
     THEN Goes(c, Resting) /\ root' = [root EXCEPT ![r].stages = @ - 1]
     ELSE /\ Goes(c, [command[c] EXCEPT !.at = "validate"])
          /\ root' = [root EXCEPT ![r].stages = @ - 1, ![r].has[n] = 0]
  /\ Observed(r)
  /\ UNCHANGED <<archive, begun, halted>>

(* load_policies accepts the example policies or refuses them; a refused   *)
(* profile goes back to its stage, which is then discarded.                *)
ValidateProfile(c) ==
  LET r == command[c].in IN
  /\ command[c].at = "validate"
  /\ \/ Goes(c, [command[c] EXCEPT !.at = "announce"]) /\ UNCHANGED root
     \/ Goes(c, Resting) /\ root' = [root EXCEPT ![r].has[command[c].name] = None]
  /\ Observed(r)
  /\ UNCHANGED <<archive, begun, halted>>

(* The new marker is the one read at the start with the name added; it is  *)
(* written under a name only one process can create, or the command ends   *)
(* with the profile in place and unmarked.                                 *)
WriteMarker(c) ==
  LET r == command[c].in IN
  /\ command[c].at = "announce"
  /\ IF root[r].markerNew THEN Goes(c, Resting) /\ UNCHANGED root
     ELSE /\ Goes(c, [command[c] EXCEPT !.at = "replace"])
          /\ root' = [root EXCEPT ![r].markerNew = TRUE]
  /\ UNCHANGED <<archive, begun, halted, moments>>

ReplaceMarker(c) ==
  LET r == command[c].in IN
  /\ command[c].at = "replace"
  /\ Goes(c, Resting)
  /\ root' = [root EXCEPT ![r].markerNew = FALSE,
                          ![r].marker = command[c].marker \union {command[c].name}]
  /\ Observed(r)
  /\ UNCHANGED <<archive, begun, halted>>

----------------------------------------------------------------------------
(* backup and restore.                                                     *)
(* Fault: a copy is taken to be what was hashed.                           *)
SameBytesAssumed(c, f) == TRUE

SameBytes(c, f) == ContentOf(command[c].in, f) = command[c].rows[f]

(* Files are taken by their paths, and the marker's is before any other.   *)
InTurn(files) == IF Marker \in files THEN {Marker} ELSE files

(* The files are listed, then hashed one after the other.                  *)
Backup(c) ==
  /\ \E r \in Roots :
       /\ Usable(r) /\ Listed(r, root[r].marker) /\ ~archive.there
       /\ Started(c, [Resting EXCEPT !.at = "hash", !.kind = "backup", !.in = r,
            !.marker = root[r].marker,
            !.rows = [f \in {Marker} \union Profiles |-> None],
            !.todo = {Marker} \union root[r].marker])
  /\ UNCHANGED <<root, archive, halted, moments>>

ListedFiles(c) == {f \in DOMAIN command[c].rows : command[c].rows[f] # None}

HashFile(c) ==
  /\ command[c].at = "hash"
  /\ \E f \in InTurn(command[c].todo) :
       LET rows == [command[c].rows EXCEPT ![f] = ContentOf(command[c].in, f)]
           left == command[c].todo \ {f}
       IN Goes(c, IF rows[f] = None THEN Resting
                  ELSE IF left # {} THEN [command[c] EXCEPT !.rows = rows, !.todo = left]
                  ELSE [command[c] EXCEPT !.at = "copy", !.rows = rows,
                          !.todo = {g \in DOMAIN rows : rows[g] # None}])
  /\ UNCHANGED <<root, archive, begun, halted, moments>>

(* Each file is copied, and must still have the bytes that were hashed.    *)
CopyFile(c) ==
  /\ command[c].at = "copy" /\ command[c].todo # {}
  /\ \E f \in InTurn(command[c].todo) :
       Goes(c, IF SameBytes(c, f) THEN [command[c] EXCEPT !.todo = @ \ {f}] ELSE Resting)
  /\ UNCHANGED <<root, archive, begun, halted, moments>>

(* The workspace is listed again, which must find the same files, and      *)
(* hashed again.                                                           *)
Relist(c) ==
  /\ command[c].at = "copy" /\ command[c].todo = {}
  /\ Goes(c, IF /\ Listed(command[c].in, root[command[c].in].marker)
                /\ {Marker} \union root[command[c].in].marker = ListedFiles(c)
             THEN [command[c] EXCEPT !.at = "compare", !.todo = ListedFiles(c)]
             ELSE Resting)
  /\ UNCHANGED <<root, archive, begun, halted, moments>>

CompareFile(c) ==
  /\ command[c].at = "compare" /\ command[c].todo # {}
  /\ \E f \in InTurn(command[c].todo) :
       Goes(c, IF SameBytes(c, f) THEN [command[c] EXCEPT !.todo = @ \ {f}] ELSE Resting)
  /\ UNCHANGED <<root, archive, begun, halted, moments>>

(* The manifest names the profiles of the marker as it is now.             *)
WriteManifest(c) ==
  /\ command[c].at = "compare" /\ command[c].todo = {}
  /\ Goes(c, [command[c] EXCEPT !.at = "reserve", !.marker = root[command[c].in].marker,
       !.rows = Held(@[Marker], [n \in Profiles |-> @[n]])])
  /\ UNCHANGED <<root, archive, begun, halted, moments>>

(* restore verifies a sealed backup, which nothing changes any more, copies*)
(* it to a stage, verifies the copy and publishes it.                      *)
Restore(c) ==
  /\ archive.manifest # None /\ archive.manifest = archive.files.marker
  /\ \E r \in Roots :
       /\ ~root[r].there
       /\ Started(c, [Resting EXCEPT !.at = "reserve", !.kind = "workspace",
                                     !.in = r, !.rows = archive.files])
  /\ UNCHANGED <<root, archive, halted, moments>>

----------------------------------------------------------------------------
(* A review, the demo or an editor changes the files of a profile.         *)
Edit ==
  /\ \E r \in Roots : \E n \in Profiles :
       /\ root[r].marker # None /\ n \in root[r].marker
       /\ root[r].has[n] # None /\ root[r].has[n] < MaxVersion
       /\ root' = [root EXCEPT ![r].has[n] = @ + 1]
       /\ Observed(r)
  /\ UNCHANGED <<archive, command, begun, halted>>

(* A crash leaves the file system as it is, stages included.               *)
CommandCrash(c) ==
  /\ command[c].at # "idle" /\ halted < MaxLocalCrashes
  /\ halted' = halted + 1
  /\ Goes(c, Resting)
  /\ UNCHANGED <<root, archive, begun, moments>>

LocalNext ==
  \/ \E c \in Commands :
       \/ Initialize(c) \/ ReserveTarget(c) \/ PublishBody(c) \/ PublishSeal(c)
       \/ AddProfile(c) \/ EnterProfile(c) \/ ValidateProfile(c)
       \/ WriteMarker(c) \/ ReplaceMarker(c)
       \/ Backup(c) \/ HashFile(c) \/ CopyFile(c) \/ Relist(c) \/ CompareFile(c)
       \/ WriteManifest(c) \/ Restore(c) \/ CommandCrash(c)
  \/ Edit

LocalSpec == LocalInit /\ [][LocalNext]_localVars

----------------------------------------------------------------------------
(* A workspace with a marker is whole, whatever commands overlap, fail or  *)
(* crash: every profile the marker names is there with its files, so what  *)
(* local_state.paths accepts can be run.                                   *)
MarkerMeansComplete ==
  \A r \in Roots : root[r].marker # None =>
    root[r].there /\ \A n \in root[r].marker : root[r].has[n] # None

(* A sealed backup is what a workspace held at one moment, though files    *)
(* change and profiles are added while they are hashed and copied.         *)
BackupIsOneMoment ==
  archive.manifest # None => archive.files \in moments
=============================================================================
