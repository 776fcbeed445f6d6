---------------------------- MODULE SnapshotFiles ----------------------------
(***************************************************************************)
(* The four files of a release, written by build-snapshot one after the    *)
(* other while runtimes may be opening the snapshot or have it open.  The  *)
(* builder may be killed between any two steps.  Builds of one release     *)
(* place follow one another.                                               *)
(*                                                                         *)
(* In the mode "directory" the files are removed and made anew in the      *)
(* output directory; in the mode "aliases" they are made in a temporary    *)
(* directory and copied over the named files, which changes the snapshot's *)
(* name in the manifest.  What is in a snapshot, and whether a build can   *)
(* be made from the data at all, is in SnapshotProjection; here it is a    *)
(* choice made when the build begins.                                      *)
(***************************************************************************)
EXTENDS Integers, Sequences

CONSTANTS
  MaxBuilds,   \* bound of the model
  Identities,  \* manifest identity: what the command line says of a build
  Readers,
  Modes        \* ways in which the releases of a place may be built

ASSUME FilesAssumption ==
  /\ MaxBuilds \in Nat
  /\ Identities # {}
  /\ Modes \subseteq {"directory", "aliases"}

Builds == 1 .. MaxBuilds
None == 0

Names == {"snapshot", "manifest", "gzip", "report"}

\* A snapshot file is "partial" until its transaction commits or its copy is
\* complete; "copied" has the identity of the temporary names.
Stages == {"partial", "copied", "full"}

VARIABLES
  mode,       \* how the releases of this place are built
  last,       \* number of builds begun
  builds,     \* [identity, data] of each build
  pc,         \* what the builder does next
  removed,    \* how many of the old files it has removed
  disk,       \* name -> file (snapshot) or build (the others), or None
  torn,       \* the manifest is being written
  contents,   \* snapshot file -> [build, stage]
  published,  \* the build of the last command that ended well, or None
  rpc,        \* where each reader is
  checks,     \* whether it was given a manifest
  manifestOf, \* the build of the manifest it read first
  fileOf      \* the snapshot file it connected to

builder == <<mode, last, builds, pc, removed, disk, torn, contents, published>>
readers == <<rpc, checks, manifestOf, fileOf>>
vars == <<builder, readers>>

Data == {"covered", "uncovered", "unbuildable"}

Places ==
  {"idle", "unlink", "report", "create", "project", "temporary",
   "truncate_snapshot", "copy_snapshot", "copy_report", "update_meta",
   "compress", "truncate_manifest", "write_manifest", "validate"}

\* The places of a build into a directory; those after its commit.
Sealed == {"compress", "truncate_manifest", "write_manifest", "validate"}

DirectoryPlaces == {"idle", "unlink", "report", "create", "project"} \union Sealed

ReaderPlaces ==
  {"closed", "manifest", "hash", "connect", "validate", "identity", "open"}

NoBuildYet == [identity |-> CHOOSE i \in Identities : TRUE, data |-> "unbuildable"]

TypeOK ==
  /\ mode \in Modes
  /\ last \in 0 .. MaxBuilds
  /\ builds \in [Builds -> [identity : Identities, data : Data]]
  /\ pc \in Places
  /\ removed \in 0 .. 4
  /\ disk \in [Names -> 0 .. MaxBuilds]
  /\ torn \in BOOLEAN
  /\ contents \in [Builds -> [build : Builds, stage : Stages]]
  /\ published \in 0 .. MaxBuilds
  /\ rpc \in [Readers -> ReaderPlaces]
  /\ checks \in [Readers -> BOOLEAN]
  /\ manifestOf \in [Readers -> 0 .. MaxBuilds]
  /\ fileOf \in [Readers -> 0 .. MaxBuilds]

Init ==
  /\ mode \in Modes
  /\ last = 0
  /\ builds = [b \in Builds |-> NoBuildYet]
  /\ pc = "idle"
  /\ removed = 0
  /\ disk = [n \in Names |-> None]
  /\ torn = FALSE
  /\ contents = [f \in Builds |-> [build |-> f, stage |-> "partial"]]
  /\ published = None
  /\ rpc = [r \in Readers |-> "closed"]
  /\ checks = [r \in Readers |-> FALSE]
  /\ manifestOf = [r \in Readers |-> None]
  /\ fileOf = [r \in Readers |-> None]

-----------------------------------------------------------------------------
(* The builder.                                                            *)

Begin(identity, data) ==
  /\ pc = "idle" /\ last < MaxBuilds
  /\ last' = last + 1
  /\ builds' = [builds EXCEPT ![last + 1] = [identity |-> identity, data |-> data]]
  /\ removed' = 0
  /\ IF mode = "directory"
     THEN pc' = "unlink" /\ published' = None
     ELSE pc' = "temporary" /\ published' = published
  /\ UNCHANGED <<mode, disk, torn, contents, readers>>

\* Fault: the old snapshot is written over.
ObsoleteButSnapshot == <<"manifest", "gzip", "report", "report">>

\* The order in which old files are removed.
Obsolete == <<"snapshot", "manifest", "gzip", "report">>

Unlink ==
  /\ pc = "unlink"
  /\ disk' = [disk EXCEPT ![Obsolete[removed + 1]] = None]
  /\ torn' = (torn /\ disk'["manifest"] # None)
  /\ removed' = removed + 1
  /\ pc' = IF removed = 3 THEN "report" ELSE "unlink"
  /\ UNCHANGED <<mode, last, builds, contents, published, readers>>

\* Fault: no report.
NoReport ==
  /\ pc = "report"
  /\ pc' = "create"
  /\ UNCHANGED <<mode, last, builds, removed, disk, torn, contents, published, readers>>

\* The report comes before the snapshot, which contains its hash.
WriteReport ==
  /\ pc = "report"
  /\ disk' = [disk EXCEPT !["report"] = last]
  /\ pc' = "create"
  /\ UNCHANGED <<mode, last, builds, removed, torn, contents, published, readers>>

\* The file behind the name of the snapshot, a new one if there is none.
SnapshotFile == IF disk["snapshot"] = None THEN last ELSE disk["snapshot"]

Put(stage) ==
  /\ disk' = [disk EXCEPT !["snapshot"] = SnapshotFile]
  /\ contents' = [contents EXCEPT ![SnapshotFile] = [build |-> last, stage |-> stage]]

\* sqlite3.connect and migrate_runtime_snapshot: tables without meta data.
CreateSnapshot ==
  /\ pc = "create"
  /\ Put("partial")
  /\ pc' = "project"
  /\ UNCHANGED <<mode, last, builds, removed, torn, published, readers>>

\* The projection commits, or it raises and rolls back.
Project ==
  /\ pc = "project"
  /\ IF builds[last].data = "unbuildable"
     THEN pc' = "idle" /\ UNCHANGED <<disk, contents>>
     ELSE pc' = "compress" /\ Put("full")
  /\ UNCHANGED <<mode, last, builds, removed, torn, published, readers>>

\* Fault: what was built in the temporary directory is not validated there.
BuildUnvalidated ==
  /\ pc = "temporary"
  /\ pc' = IF builds[last].data # "unbuildable" THEN "truncate_snapshot" ELSE "idle"
  /\ UNCHANGED <<mode, last, builds, removed, disk, torn, contents, published, readers>>

\* The whole build in the temporary directory, which is removed afterwards.
BuildInTemporary ==
  /\ pc = "temporary"
  /\ pc' = IF builds[last].data = "covered" THEN "truncate_snapshot" ELSE "idle"
  /\ UNCHANGED <<mode, last, builds, removed, disk, torn, contents, published, readers>>

\* shutil.copy2 opens the target for writing, then copies.
TruncateSnapshot ==
  /\ pc = "truncate_snapshot"
  /\ Put("partial")
  /\ published' = None
  /\ pc' = "copy_snapshot"
  /\ UNCHANGED <<mode, last, builds, removed, torn, readers>>

CopySnapshot ==
  /\ pc = "copy_snapshot"
  /\ Put("copied")
  /\ pc' = "copy_report"
  /\ UNCHANGED <<mode, last, builds, removed, torn, published, readers>>

CopyReport ==
  /\ pc = "copy_report"
  /\ disk' = [disk EXCEPT !["report"] = last]
  /\ pc' = "update_meta"
  /\ UNCHANGED <<mode, last, builds, removed, torn, contents, published, readers>>

\* The identity of the new names is put into the copied snapshot.
UpdateMeta ==
  /\ pc = "update_meta"
  /\ Put("full")
  /\ pc' = "compress"
  /\ UNCHANGED <<mode, last, builds, removed, torn, published, readers>>

Compress ==
  /\ pc = "compress"
  /\ disk' = [disk EXCEPT !["gzip"] = last]
  /\ pc' = "truncate_manifest"
  /\ UNCHANGED <<mode, last, builds, removed, torn, contents, published, readers>>

TruncateManifest ==
  /\ pc = "truncate_manifest"
  /\ disk' = [disk EXCEPT !["manifest"] = last]
  /\ torn' = TRUE
  /\ pc' = "write_manifest"
  /\ UNCHANGED <<mode, last, builds, removed, contents, published, readers>>

WriteManifest ==
  /\ pc = "write_manifest"
  /\ torn' = FALSE
  /\ pc' = "validate"
  /\ UNCHANGED <<mode, last, builds, removed, disk, contents, published, readers>>

\* Fault: only the tables are checked, not the meta data.
StoreAcceptsTables(f) == builds[contents[f].build].data = "covered"

\* The store's validation: tables, meta data, references and coverage.
StoreAccepts(f) ==
  /\ contents[f].stage \in {"copied", "full"}
  /\ builds[contents[f].build].data = "covered"

Identity(b) == builds[b].identity

ManifestReadable == disk["manifest"] # None /\ ~torn

\* The manifest embedded in the snapshot is that on disk.
IdentityMatches(f) ==
  /\ ManifestReadable
  /\ contents[f].stage = "full"
  /\ Identity(disk["manifest"]) = Identity(contents[f].build)

\* The sha256 and size that the manifest of build b gives.
HashMatches(f, b) == contents[f] = [build |-> b, stage |-> "full"]

\* SQLiteSnapshotStore.open and validate_release_artifacts at the end.
Validate ==
  /\ pc = "validate"
  /\ pc' = "idle"
  /\ published' =
       IF /\ HashMatches(disk["snapshot"], disk["manifest"])
          /\ disk["gzip"] = disk["manifest"]
          /\ StoreAccepts(disk["snapshot"])
          /\ IdentityMatches(disk["snapshot"])
       THEN last ELSE None
  /\ UNCHANGED <<mode, last, builds, removed, disk, torn, contents, readers>>

Crash ==
  /\ pc # "idle"
  /\ pc' = "idle"
  /\ UNCHANGED <<mode, last, builds, removed, disk, torn, contents, published, readers>>

-----------------------------------------------------------------------------
(* A reader: SQLiteSnapshotStore.open and close.  A check that fails raises *)
(* and hands nothing out.                                                  *)

\* The next place, or out of it all if the check fails.
Reach(r, place, ok) ==
  /\ rpc' = [rpc EXCEPT ![r] = IF ok THEN place ELSE "closed"]
  /\ UNCHANGED builder

\* The caller asks for the snapshot; a missing file is an error at once.
CheckFile(r, withManifest) ==
  /\ rpc[r] = "closed"
  /\ disk["snapshot"] # None
  /\ checks' = [checks EXCEPT ![r] = withManifest]
  /\ manifestOf' = [manifestOf EXCEPT ![r] = None]
  /\ fileOf' = [fileOf EXCEPT ![r] = None]
  /\ Reach(r, IF withManifest THEN "manifest" ELSE "connect", TRUE)

ReadManifest(r) ==
  /\ rpc[r] = "manifest"
  /\ manifestOf' = [manifestOf EXCEPT ![r] = disk["manifest"]]
  /\ Reach(r, "hash", ManifestReadable)
  /\ UNCHANGED <<checks, fileOf>>

\* Hash and size of what the name stands for now.
Hash(r) ==
  /\ rpc[r] = "hash"
  /\ Reach(r, "connect",
           disk["snapshot"] # None /\ HashMatches(disk["snapshot"], manifestOf[r]))
  /\ UNCHANGED <<checks, manifestOf, fileOf>>

\* From here on the reader holds the file, whatever becomes of its name.
Connect(r) ==
  /\ rpc[r] = "connect"
  /\ fileOf' = [fileOf EXCEPT ![r] = disk["snapshot"]]
  /\ Reach(r, "validate", disk["snapshot"] # None)
  /\ UNCHANGED <<checks, manifestOf>>

ValidateStore(r) ==
  /\ rpc[r] = "validate"
  /\ Reach(r, IF checks[r] THEN "identity" ELSE "open", StoreAccepts(fileOf[r]))
  /\ UNCHANGED <<checks, manifestOf, fileOf>>

\* The manifest is read a second time.
CheckIdentity(r) ==
  /\ rpc[r] = "identity"
  /\ Reach(r, "open", IdentityMatches(fileOf[r]))
  /\ UNCHANGED <<checks, manifestOf, fileOf>>

Close(r) ==
  /\ rpc[r] = "open"
  /\ Reach(r, "closed", TRUE)
  /\ UNCHANGED <<checks, manifestOf, fileOf>>

Build ==
  \/ \E i \in Identities, d \in Data : Begin(i, d)
  \/ Unlink \/ WriteReport \/ CreateSnapshot \/ Project
  \/ BuildInTemporary \/ TruncateSnapshot \/ CopySnapshot \/ CopyReport
  \/ UpdateMeta
  \/ Compress \/ TruncateManifest \/ WriteManifest \/ Validate
  \/ Crash

Read(r) ==
  \/ \E m \in BOOLEAN : CheckFile(r, m)
  \/ ReadManifest(r) \/ Hash(r) \/ Connect(r) \/ ValidateStore(r)
  \/ CheckIdentity(r) \/ Close(r)

Next == Build \/ \E r \in Readers : Read(r)

Spec == Init /\ [][Next]_vars

-----------------------------------------------------------------------------
\* In a directory, what an open reader reads is a complete, covered snapshot:
\* never one that is being built ("a published read-only snapshot, not the graph
\* that is being built").
OpenedIsRelease ==
  \A r \in Readers : mode = "directory" /\ rpc[r] = "open" =>
    /\ contents[fileOf[r]].stage # "partial"
    /\ builds[contents[fileOf[r]].build].data = "covered"

\* A snapshot and a readable manifest that are on disk together always belong
\* together, wherever earlier builds were killed: the old manifest is gone
\* before a new snapshot exists, and the new one comes after the commit.
ManifestMatchesSnapshot ==
  disk["snapshot"] # None /\ ManifestReadable
    => HashMatches(disk["snapshot"], disk["manifest"])

\* While the last command that ended well is the last one that was started,
\* its four files are those on disk.
ArtifactsAgree ==
  published # None =>
    /\ disk["snapshot"] # None
    /\ contents[disk["snapshot"]] = [build |-> published, stage |-> "full"]
    /\ \A n \in {"manifest", "gzip", "report"} : disk[n] = published
    /\ ~torn

\* Why it holds in a directory, part 1: a file belongs to the build that made
\* it, and its content is "full" from the commit on and for ever.
ContentsInv ==
  /\ pc \in DirectoryPlaces
  /\ pc # "idle" => last > 0
  /\ \A f \in Builds :
       /\ contents[f].build = f
       /\ contents[f].stage \in {"partial", "full"}
       /\ contents[f].stage = "full" => f =< last
  /\ pc \in {"unlink", "report", "create", "project"} => contents[last].stage = "partial"
  /\ pc \in Sealed => contents[last].stage = "full"

\* Part 2: what the builder has removed and made so far is (not) on disk.
DiskInv ==
  /\ disk["snapshot"] =< last
  /\ pc = "unlink" =>
       /\ removed < 4
       /\ removed > 0 => disk["snapshot"] = None
       /\ removed > 1 => disk["manifest"] = None
  /\ pc \in {"report", "create"} => disk["snapshot"] = None
  /\ pc \in {"project"} \union Sealed => disk["snapshot"] = last
  /\ pc \in {"report", "create", "project", "compress", "truncate_manifest"}
       => disk["manifest"] = None
  /\ pc \in {"write_manifest", "validate"} => disk["manifest"] = last
  /\ torn => disk["manifest"] # None
  /\ pc = "write_manifest" => torn
  /\ pc = "validate" => ~torn
  /\ pc \in {"create", "project"} \union Sealed => disk["report"] = last
  /\ pc \in Sealed \ {"compress"} => disk["gzip"] = last
  /\ published # None => pc = "idle"

\* Part 3: what a reader's checks have shown stays true.
ReaderInv ==
  \A r \in Readers :
    /\ rpc[r] \in {"validate", "identity", "open"} => fileOf[r] \in 1 .. last
    /\ rpc[r] \in {"identity", "open"} =>
         /\ contents[fileOf[r]].stage = "full"
         /\ builds[fileOf[r]].data = "covered"

\* The inductive invariant of the directory mode.
DirectoryInv ==
  /\ ContentsInv /\ DiskInv /\ ReaderInv
  /\ ManifestMatchesSnapshot /\ ArtifactsAgree

\* Why the files agree with aliases too: they are only touched between the copy
\* of a snapshot whose data passed, which ends the old release, and the
\* validation of the new one.
Copying == {"copy_snapshot", "copy_report", "update_meta"} \union Sealed

AliasInv ==
  /\ pc \in {"idle", "temporary", "truncate_snapshot"} \union Copying
  /\ pc # "idle" => last > 0
  /\ pc \in {"truncate_snapshot"} \union Copying => builds[last].data = "covered"
  /\ pc \in Copying => published = None /\ disk["snapshot"] # None
  /\ pc \in {"update_meta"} \union Sealed => disk["report"] = last
  /\ pc \in {"write_manifest", "validate"} => disk["manifest"] = last
  /\ ArtifactsAgree

\* The inductive invariant of both modes.
FilesInv == IF mode = "directory" THEN DirectoryInv ELSE AliasInv

\* With aliases a release is only taken away by a build whose data passed every
\* validation in the temporary directory, never by one that fails.
ReleaseOutlivesBadBuild ==
  [][mode = "aliases" /\ published # None /\ published' = None => builds'[last'].data = "covered"]_vars

\* The builds whose snapshot some file of the directory holds, reachable by name
\* or not.
CompleteBuilds ==
  {b \in Builds : \E f \in Builds :
     mode = "directory" /\ contents[f].build = b /\ contents[f].stage \in {"copied", "full"}}

Views == INSTANCE SnapshotViews WITH
  NoBuild <- None,
  complete <- CompleteBuilds,
  view <- [r \in Readers |->
             IF mode = "directory" /\ rpc[r] = "open" THEN contents[fileOf[r]].build ELSE None]

\* In a directory every reader sees one complete build from the moment it opens the snapshot
\* until it closes it, whatever happens to the files meanwhile.
ViewsImplemented == Views!Spec

=============================================================================
