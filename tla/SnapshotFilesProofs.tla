------------------------ MODULE SnapshotFilesProofs ------------------------
(***************************************************************************)
(* Proofs about SnapshotFiles, for any number of builds, readers and       *)
(* crashes: types, that the files of a release agree and that only a build *)
(* whose data passed ends it, in both modes; in a directory also that a    *)
(* reader sees one complete build.                                         *)
(***************************************************************************)
EXTENDS SnapshotFiles, TLAPS

USE FilesAssumption DEF Builds, None

\* The set of names has the four names in it.
LEMMA NoBuildTyped == NoBuildYet \in [identity : Identities, data : Data]
BY DEF NoBuildYet, Data

\* Initially every variable has its type.
LEMMA TypeOKInit == Init => TypeOK
<1> SUFFICES ASSUME Init PROVE TypeOK
  OBVIOUS
<1>1. builds \in [Builds -> [identity : Identities, data : Data]]
  BY NoBuildTyped DEF Init
<1>2. contents \in [Builds -> [build : Builds, stage : Stages]]
  BY DEF Init, Stages
<1>3. last \in 0 .. MaxBuilds /\ published \in 0 .. MaxBuilds /\ removed \in 0 .. 4
  BY DEF Init
<1>4. disk \in [Names -> 0 .. MaxBuilds]
  BY DEF Init
<1>5. pc \in Places /\ torn \in BOOLEAN
  BY DEF Init, Places
<1>6. /\ rpc \in [Readers -> ReaderPlaces]
      /\ checks \in [Readers -> BOOLEAN]
  BY DEF Init, ReaderPlaces
<1>7. /\ manifestOf \in [Readers -> 0 .. MaxBuilds]
      /\ fileOf \in [Readers -> 0 .. MaxBuilds]
  BY DEF Init
<1>8. mode \in Modes
  BY DEF Init
<1> QED
  BY <1>1, <1>2, <1>3, <1>4, <1>5, <1>6, <1>7, <1>8 DEF TypeOK

\* The file behind the snapshot's name is one of the builds' files.
LEMMA PutTyped ==
  ASSUME TypeOK, pc # "idle", last > 0, NEW stage \in Stages, Put(stage)
  PROVE  /\ disk' \in [Names -> 0 .. MaxBuilds]
         /\ contents' \in [Builds -> [build : Builds, stage : Stages]]
<1> DEFINE content == [build |-> last, stage |-> stage]
<1>1. last \in Builds /\ disk["snapshot"] \in 0 .. MaxBuilds
  BY DEF TypeOK, Names
<1>2. SnapshotFile \in Builds
  BY <1>1 DEF SnapshotFile
<1>3. content \in [build : Builds, stage : Stages]
  BY <1>1
<1>4. contents' = [contents EXCEPT ![SnapshotFile] = content]
  BY DEF Put
<1>5. contents' \in [Builds -> [build : Builds, stage : Stages]]
  <2> HIDE DEF content
  <2> QED
    BY <1>3, <1>4 DEF TypeOK
<1>6. disk' = [disk EXCEPT !["snapshot"] = SnapshotFile]
  BY DEF Put
<1>7. disk' \in [Names -> 0 .. MaxBuilds]
  <2>1. SnapshotFile \in 0 .. MaxBuilds
    BY <1>2
  <2>2. disk \in [Names -> 0 .. MaxBuilds]
    BY DEF TypeOK
  <2> QED
    BY <1>6, <2>1, <2>2
<1> QED
  BY <1>5, <1>7

\* A builder at work has begun a build, and counts what it removes.
BusyInv ==
  /\ pc # "idle" => last > 0
  /\ pc = "unlink" => removed < 4

\* Every step keeps the types, and that a builder at work has begun a build.
LEMMA TypeOKStep == TypeOK /\ BusyInv /\ [Next]_vars => TypeOK' /\ BusyInv'
<1> SUFFICES ASSUME TypeOK, BusyInv, [Next]_vars PROVE TypeOK' /\ BusyInv'
  OBVIOUS
<1> USE DEF TypeOK, BusyInv
<1>1. ASSUME NEW i \in Identities, NEW d \in Data, Begin(i, d) PROVE TypeOK' /\ BusyInv'
  BY SMTT(30), <1>1 DEF Begin, Places, readers
<1>2. CASE Unlink
  <2>1. removed \in 0 .. 3
    BY <1>2 DEF Unlink
  <2>2. disk' \in [Names -> 0 .. MaxBuilds]
    <3>1. disk' = [disk EXCEPT ![Obsolete[removed + 1]] = 0]
      BY <1>2 DEF Unlink
    <3>2. 0 \in 0 .. MaxBuilds
      OBVIOUS
    <3> QED
      BY <3>1, <3>2
  <2>3. torn' \in BOOLEAN
    BY <1>2 DEF Unlink
  <2> QED
    <3>1. /\ pc' \in {"report", "unlink"} /\ removed' = removed + 1
          /\ pc' = "unlink" => removed # 3
          /\ UNCHANGED <<mode, last, builds, contents, published, readers>>
          /\ last > 0
      BY <1>2 DEF Unlink
    <3> QED
      BY SMTT(30), <2>1, <2>2, <2>3, <3>1 DEF Places, readers
<1>3. CASE WriteReport
  BY <1>3 DEF WriteReport, Places, readers, Names
<1>4. CASE CreateSnapshot
  BY <1>4, PutTyped DEF CreateSnapshot, Places, readers, Stages
<1>5. CASE Project
  BY <1>5, PutTyped DEF Project, Places, readers, Stages
<1>6. CASE BuildInTemporary
  BY <1>6 DEF BuildInTemporary, Places, readers
<1>7. CASE TruncateSnapshot
  <2>1. "partial" \in Stages
    BY DEF Stages
  <2>2. /\ disk' \in [Names -> 0 .. MaxBuilds]
        /\ contents' \in [Builds -> [build : Builds, stage : Stages]]
    BY <1>7, <2>1, PutTyped DEF TruncateSnapshot
  <2>3. /\ published' \in 0 .. MaxBuilds /\ pc' \in Places \ {"unlink"}
        /\ UNCHANGED <<mode, last, builds, removed, torn, readers>>
        /\ last > 0
    BY <1>7 DEF TruncateSnapshot, Places
  <2> QED
    BY <2>2, <2>3 DEF readers
<1>8. CASE CopySnapshot
  BY <1>8, PutTyped DEF CopySnapshot, Places, readers, Stages
<1>9. CASE CopyReport
  BY <1>9 DEF CopyReport, Places, readers, Names
<1>10. CASE UpdateMeta
  BY <1>10, PutTyped DEF UpdateMeta, Places, readers, Stages
<1>11. CASE Compress
  BY <1>11 DEF Compress, Places, readers, Names
<1>12. CASE TruncateManifest
  BY <1>12 DEF TruncateManifest, Places, readers, Names
<1>13. CASE WriteManifest
  BY <1>13 DEF WriteManifest, Places, readers
<1>14. CASE Validate
  <2>1. published' \in 0 .. MaxBuilds /\ pc' = "idle"
    BY <1>14 DEF Validate
  <2>2. UNCHANGED <<mode, last, builds, removed, disk, torn, contents, readers>>
    BY <1>14 DEF Validate
  <2> QED
    BY <2>1, <2>2 DEF Places, readers
<1>15. CASE Crash
  BY <1>15 DEF Crash, Places, readers
<1>16. ASSUME NEW r \in Readers, Read(r) PROVE TypeOK' /\ BusyInv'
  <2>1. UNCHANGED builder
    BY <1>16 DEF Read, CheckFile, ReadManifest, Hash, Connect, ValidateStore,
                 CheckIdentity, Close, Reach
  <2>2. rpc' \in [Readers -> ReaderPlaces]
    BY <1>16 DEF Read, CheckFile, ReadManifest, Hash, Connect, ValidateStore,
                 CheckIdentity, Close, Reach, ReaderPlaces
  <2>3. disk["manifest"] \in 0 .. MaxBuilds /\ disk["snapshot"] \in 0 .. MaxBuilds
    BY DEF Names
  <2>4. /\ checks' \in [Readers -> BOOLEAN]
        /\ manifestOf' \in [Readers -> 0 .. MaxBuilds]
        /\ fileOf' \in [Readers -> 0 .. MaxBuilds]
    <3>1. ASSUME NEW m \in BOOLEAN, CheckFile(r, m) PROVE <2>4!:
      BY <3>1 DEF CheckFile
    <3>2. CASE ReadManifest(r)
      BY <3>2, <2>3 DEF ReadManifest
    <3>3. CASE Connect(r)
      BY <3>3, <2>3 DEF Connect
    <3>4. CASE Hash(r) \/ ValidateStore(r) \/ CheckIdentity(r) \/ Close(r)
      BY <3>4 DEF Hash, ValidateStore, CheckIdentity, Close
    <3> QED
      BY <1>16, <3>1, <3>2, <3>3, <3>4 DEF Read
  <2> QED
    BY <2>1, <2>2, <2>4 DEF builder
<1>17. CASE UNCHANGED vars
  BY <1>17 DEF vars, builder, readers
<1> QED
  BY <1>1, <1>2, <1>3, <1>4, <1>5, <1>6, <1>7, <1>8, <1>9, <1>10, <1>11, <1>12,
     <1>13, <1>14, <1>15, <1>16, <1>17 DEF Next, Build

\* Every reachable state has the right types, in either mode.
THEOREM TypeCorrect == Spec => []TypeOK
<1>1. Init => TypeOK /\ BusyInv
  BY TypeOKInit DEF Init, BusyInv
<1>2. TypeOK /\ BusyInv /\ [Next]_vars => (TypeOK /\ BusyInv)'
  BY TypeOKStep
<1> QED
  BY <1>1, <1>2, PTL DEF Spec

-----------------------------------------------------------------------------
(* The directory mode.                                                     *)

\* The mode of a place never changes.
LEMMA ModeKept == Next => mode' = mode
BY DEF Next, Build, Begin, Unlink, WriteReport, CreateSnapshot, Project, BuildInTemporary,
       TruncateSnapshot, CopySnapshot, CopyReport, UpdateMeta, Compress, TruncateManifest,
       WriteManifest, Validate, Crash, Read, CheckFile, ReadManifest, Hash, Connect,
       ValidateStore, CheckIdentity, Close, Reach, builder

\* Nothing is on disk and nobody is at work initially.
LEMMA DirectoryInvInit == Init => DirectoryInv
<1> SUFFICES ASSUME Init PROVE DirectoryInv
  OBVIOUS
<1>1. ContentsInv
  BY DEF Init, ContentsInv, DirectoryPlaces, Sealed
<1>2. /\ disk = [n \in Names |-> 0] /\ torn = FALSE /\ published = 0
      /\ pc = "idle" /\ last = 0
  BY DEF Init
<1>3. DiskInv
  BY <1>2 DEF DiskInv, Names, Sealed
<1>4. ReaderInv
  BY DEF Init, ReaderInv
<1>5. ManifestMatchesSnapshot /\ ArtifactsAgree
  BY <1>2 DEF ManifestMatchesSnapshot, ArtifactsAgree, Names
<1> QED
  BY <1>1, <1>3, <1>4, <1>5 DEF DirectoryInv

\* A put by the builder in a directory goes to the file of its own build.
LEMMA PutOwn ==
  ASSUME TypeOK, DirectoryInv, NEW stage \in Stages, Put(stage), pc \in {"create", "project"}
  PROVE  /\ last \in Builds
         /\ disk' = [disk EXCEPT !["snapshot"] = last]
         /\ contents' = [contents EXCEPT ![last] = [build |-> last, stage |-> stage]]
<1>1. last \in Builds
  BY DEF TypeOK, DirectoryInv, ContentsInv
<1>2. disk["snapshot"] = (IF pc = "create" THEN 0 ELSE last)
  BY DEF DirectoryInv, DiskInv
<1>3. SnapshotFile = last
  BY <1>2 DEF SnapshotFile
<1> QED
  BY <1>1, <1>3 DEF Put

\* The facts about files survive every step of the builder.
LEMMA ContentsInvStep ==
  ASSUME mode = "directory", TypeOK, DirectoryInv, Build
  PROVE  ContentsInv'
<1> USE DEF ContentsInv, DirectoryPlaces, Sealed
<1>0. ContentsInv /\ last \in 0 .. MaxBuilds
  BY DEF DirectoryInv, TypeOK
<1>1. ASSUME NEW i \in Identities, NEW d \in Data, Begin(i, d) PROVE ContentsInv'
  BY <1>0, <1>1 DEF Begin, TypeOK
<1>2. CASE Unlink
  BY <1>0, <1>2 DEF Unlink, readers
<1>3. CASE WriteReport
  BY <1>0, <1>3 DEF WriteReport
<1>4. CASE CreateSnapshot
  <2>1. contents' = [contents EXCEPT ![last] = [build |-> last, stage |-> "partial"]]
    BY <1>4, PutOwn DEF CreateSnapshot, Stages
  <2> QED
    BY <1>0, <1>4, <2>1 DEF CreateSnapshot, TypeOK
<1>5. CASE Project
  <2>1. CASE builds[last].data = "unbuildable"
    BY <1>0, <1>5, <2>1 DEF Project
  <2>2. CASE builds[last].data # "unbuildable"
    <3>1. /\ contents' = [contents EXCEPT ![last] = [build |-> last, stage |-> "full"]]
          /\ last \in Builds /\ last' = last /\ pc' = "compress"
      BY <1>5, <2>2, PutOwn DEF Project, Stages
    <3>2. contents'[last].stage = "full"
      BY <3>1 DEF TypeOK
    <3> QED
      BY <1>0, <3>1, <3>2 DEF TypeOK
  <2> QED
    BY <2>1, <2>2
<1>6. CASE Compress \/ TruncateManifest \/ WriteManifest \/ Validate \/ Crash
  BY <1>0, <1>6 DEF Compress, TruncateManifest, WriteManifest, Validate, Crash
<1> QED
  BY <1>0, <1>1, <1>2, <1>3, <1>4, <1>5, <1>6
     DEF Build, BuildInTemporary, TruncateSnapshot, CopySnapshot, CopyReport, UpdateMeta

\* So do the facts about what is on disk.
LEMMA DiskInvStep ==
  ASSUME mode = "directory", TypeOK, DirectoryInv, Build
  PROVE  DiskInv'
<1> USE DEF DiskInv, Sealed
<1>0. /\ DiskInv /\ last \in 0 .. MaxBuilds /\ removed \in 0 .. 4
      /\ disk \in [Names -> 0 .. MaxBuilds]
      /\ pc \in DirectoryPlaces
  BY DEF DirectoryInv, ContentsInv, TypeOK
<1>n. /\ "snapshot" \in Names /\ "manifest" \in Names
      /\ "gzip" \in Names /\ "report" \in Names
  BY DEF Names
<1>1. ASSUME NEW i \in Identities, NEW d \in Data, Begin(i, d) PROVE DiskInv'
  BY <1>0, <1>n, <1>1 DEF Begin
<1>2. CASE Unlink
  <2>1. /\ disk' = [disk EXCEPT ![Obsolete[removed + 1]] = 0]
        /\ torn' => disk'["manifest"] # 0
        /\ removed' = removed + 1 /\ removed \in 0 .. 3
        /\ pc' = IF removed = 3 THEN "report" ELSE "unlink"
        /\ pc = "unlink"
        /\ UNCHANGED <<last, published>>
    <3>1. torn' = (torn /\ disk'["manifest"] # 0)
      BY <1>2 DEF Unlink
    <3>2. torn' => disk'["manifest"] # 0
      BY <3>1
    <3> QED
      BY <1>0, <1>2, <3>2 DEF Unlink
  <2>2. CASE removed = 0
    BY <1>0, <1>n, <2>1, <2>2 DEF Obsolete
  <2>3. CASE removed = 1
    BY <1>0, <1>n, <2>1, <2>3 DEF Obsolete
  <2>4. CASE removed = 2
    BY <1>0, <1>n, <2>1, <2>4 DEF Obsolete
  <2>5. CASE removed = 3
    BY <1>0, <1>n, <2>1, <2>5 DEF Obsolete
  <2> QED
    BY <2>1, <2>2, <2>3, <2>4, <2>5
<1>3. CASE WriteReport
  BY <1>0, <1>n, <1>3 DEF WriteReport
<1>4. CASE CreateSnapshot
  <2>1. disk' = [disk EXCEPT !["snapshot"] = last]
    BY <1>4, PutOwn DEF CreateSnapshot, Stages
  <2> QED
    BY <1>0, <1>n, <1>4, <2>1 DEF CreateSnapshot
<1>5. CASE Project
  <2>1. CASE builds[last].data = "unbuildable"
    BY <1>0, <1>5, <2>1 DEF Project
  <2>2. CASE builds[last].data # "unbuildable"
    <3>1. /\ disk' = [disk EXCEPT !["snapshot"] = last] /\ pc' = "compress"
          /\ UNCHANGED <<last, torn, published>>
      BY <1>5, <2>2, PutOwn DEF Project, Stages
    <3> QED
      BY <1>0, <1>n, <1>5, <3>1 DEF Project
  <2> QED
    BY <2>1, <2>2
<1>6. CASE Compress
  BY <1>0, <1>n, <1>6 DEF Compress
<1>7. CASE TruncateManifest
  BY <1>0, <1>n, <1>7 DEF TruncateManifest, ContentsInv, DirectoryInv
<1>8. CASE WriteManifest \/ Validate \/ Crash
  BY <1>0, <1>n, <1>8 DEF WriteManifest, Validate, Crash
<1> QED
  BY <1>0, <1>1, <1>2, <1>3, <1>4, <1>5, <1>6, <1>7, <1>8
     DEF Build, BuildInTemporary, TruncateSnapshot, CopySnapshot, CopyReport, UpdateMeta,
         DirectoryPlaces

\* A manifest that can be read still belongs to the snapshot.
LEMMA ManifestStep ==
  ASSUME mode = "directory", TypeOK, DirectoryInv, Build
  PROVE  ManifestMatchesSnapshot'
<1> USE DEF ManifestMatchesSnapshot, ManifestReadable, HashMatches
<1>0. /\ ManifestMatchesSnapshot
      /\ disk \in [Names -> 0 .. MaxBuilds]
      /\ contents \in [Builds -> [build : Builds, stage : Stages]]
      /\ pc \in DirectoryPlaces
  BY DEF DirectoryInv, ContentsInv, TypeOK
<1>n. /\ "snapshot" \in Names /\ "manifest" \in Names
      /\ "gzip" \in Names /\ "report" \in Names
  BY DEF Names
<1>1. ASSUME NEW i \in Identities, NEW d \in Data, Begin(i, d)
      PROVE  ManifestMatchesSnapshot'
  BY <1>0, <1>1 DEF Begin
<1>2. CASE Unlink
  <2>1. /\ disk' = [disk EXCEPT ![Obsolete[removed + 1]] = 0]
        /\ contents' = contents
    BY <1>2 DEF Unlink
  <2>2. torn' = (torn /\ disk'["manifest"] # 0)
    BY <1>2 DEF Unlink
  <2>3. \A n \in Names : disk'[n] \in {0, disk[n]}
    BY <1>0, <2>1
  <2>4. disk'["snapshot"] # 0 /\ disk'["manifest"] # 0 /\ ~torn'
          => disk'["snapshot"] = disk["snapshot"] /\ disk'["manifest"] = disk["manifest"] /\ ~torn
    BY <1>n, <2>2, <2>3
  <2> QED
    BY <1>0, <2>1, <2>4
<1>3. CASE WriteReport \/ Compress
  BY <1>0, <1>n, <1>3 DEF WriteReport, Compress
<1>4. CASE CreateSnapshot \/ Project
  <2>1. disk["manifest"] = 0 /\ torn' = torn
    BY <1>4 DEF DirectoryInv, DiskInv, CreateSnapshot, Project
  <2>2. disk'["manifest"] = 0
    BY <1>0, <1>n, <1>4, <2>1 DEF CreateSnapshot, Project, Put
  <2> QED
    BY <2>2
<1>5. CASE TruncateManifest
  BY <1>5 DEF TruncateManifest
<1>6. CASE WriteManifest
  <2>1. /\ disk["snapshot"] = last /\ disk["manifest"] = last /\ last \in Builds
        /\ contents[last].build = last /\ contents[last].stage = "full"
    BY <1>6 DEF WriteManifest, DirectoryInv, DiskInv, ContentsInv, Sealed, TypeOK
  <2>2. contents[last] = [build |-> last, stage |-> "full"]
    BY <1>0, <2>1
  <2> QED
    BY <1>6, <2>1, <2>2 DEF WriteManifest
<1>7. CASE Validate \/ Crash
  BY <1>0, <1>7 DEF Validate, Crash
<1> QED
  BY <1>0, <1>1, <1>2, <1>3, <1>4, <1>5, <1>6, <1>7
     DEF Build, BuildInTemporary, TruncateSnapshot, CopySnapshot, CopyReport, UpdateMeta,
         DirectoryPlaces, Sealed

\* The files of a build that was published are those on disk until the next.
LEMMA ArtifactsStep ==
  ASSUME mode = "directory", TypeOK, DirectoryInv, Build
  PROVE  ArtifactsAgree'
<1>0. /\ ArtifactsAgree /\ DiskInv /\ ContentsInv
      /\ contents \in [Builds -> [build : Builds, stage : Stages]]
      /\ last \in 0 .. MaxBuilds
  BY DEF DirectoryInv, TypeOK
<1>1. ASSUME NEW i \in Identities, NEW d \in Data, Begin(i, d) PROVE ArtifactsAgree'
  BY <1>1 DEF Begin, ArtifactsAgree
<1>2. CASE Validate
  <2>1. /\ disk["snapshot"] = last /\ disk["manifest"] = last
        /\ disk["gzip"] = last /\ disk["report"] = last
        /\ ~torn /\ last > 0
    BY <1>0, <1>2 DEF Validate, DiskInv, ContentsInv, Sealed
  <2>2. contents[last] = [build |-> last, stage |-> "full"]
    BY <1>0, <1>2, <2>1 DEF Validate, ContentsInv, Sealed
  <2>3. published' \in {0, last} /\ UNCHANGED <<disk, contents, torn>>
    BY <1>2 DEF Validate
  <2> QED
    BY <2>1, <2>2, <2>3 DEF ArtifactsAgree
<1>3. CASE Crash
  BY <1>0, <1>3 DEF Crash, ArtifactsAgree
<1>4. CASE pc # "idle" /\ published' = published
  BY <1>0, <1>4 DEF ArtifactsAgree, DiskInv
<1> QED
  BY <1>0, <1>1, <1>2, <1>3, <1>4
     DEF Build, Unlink, WriteReport, CreateSnapshot, Project, Compress, TruncateManifest,
         WriteManifest, BuildInTemporary, TruncateSnapshot, CopySnapshot, CopyReport,
         UpdateMeta, ContentsInv, DirectoryPlaces, Sealed

\* A step of the builder leaves alone what a full file holds, its build's data
\* included.
LEMMA FullStaysFull ==
  ASSUME mode = "directory", TypeOK, DirectoryInv, Build,
         NEW f \in Builds, f =< last, contents[f].stage = "full"
  PROVE  contents'[f] = contents[f] /\ builds'[f] = builds[f] /\ last =< last'
<1>0. /\ ContentsInv
      /\ contents \in [Builds -> [build : Builds, stage : Stages]]
      /\ builds \in [Builds -> [identity : Identities, data : Data]]
      /\ last \in 0 .. MaxBuilds
  BY DEF DirectoryInv, TypeOK
<1>1. ASSUME NEW i \in Identities, NEW d \in Data, Begin(i, d)
      PROVE  contents'[f] = contents[f] /\ builds'[f] = builds[f] /\ last =< last'
  BY <1>0, <1>1 DEF Begin
<1>2. CASE CreateSnapshot \/ Project
  <2>1. contents[last].stage = "partial"
    BY <1>0, <1>2 DEF CreateSnapshot, Project, ContentsInv
  <2>2. f # last
    BY <2>1
  <2>3. ASSUME NEW stage \in Stages, Put(stage) PROVE contents'[f] = contents[f]
    BY <1>0, <1>2, <2>2, <2>3, PutOwn DEF CreateSnapshot, Project
  <2>4. contents'[f] = contents[f]
    BY <1>2, <2>3 DEF CreateSnapshot, Project, Stages
  <2> QED
    BY <1>0, <1>2, <2>4 DEF CreateSnapshot, Project
<1>3. CASE UNCHANGED <<last, builds, contents>>
  BY <1>0, <1>3
<1> QED
  BY <1>0, <1>1, <1>2, <1>3
     DEF Build, Unlink, WriteReport, Compress, TruncateManifest, WriteManifest, Validate,
         Crash, BuildInTemporary, TruncateSnapshot, CopySnapshot, CopyReport, UpdateMeta,
         ContentsInv, DirectoryPlaces, Sealed

\* What the checks of the readers have shown survives the builder's steps.
LEMMA ReaderInvBuild ==
  ASSUME mode = "directory", TypeOK, DirectoryInv, Build
  PROVE  ReaderInv'
<1>1. UNCHANGED readers
  BY DEF Build, Begin, Unlink, WriteReport, CreateSnapshot, Project, Compress,
         TruncateManifest, WriteManifest, Validate, Crash, BuildInTemporary,
         TruncateSnapshot, CopySnapshot, CopyReport, UpdateMeta
<1>2. last =< last' /\ last \in 0 .. MaxBuilds /\ last' \in 0 .. MaxBuilds
  <2>1. BusyInv
    BY DEF DirectoryInv, ContentsInv, DiskInv, BusyInv
  <2>2. TypeOK'
    BY <2>1, TypeOKStep DEF Next
  <2>3. last' = last \/ last' = last + 1
    BY DEF Build, Begin, Unlink, WriteReport, CreateSnapshot, Project, Compress,
           TruncateManifest, WriteManifest, Validate, Crash, BuildInTemporary,
           TruncateSnapshot, CopySnapshot, CopyReport, UpdateMeta
  <2> QED
    BY <2>2, <2>3 DEF TypeOK
<1>3. SUFFICES ASSUME NEW r \in Readers
      PROVE  /\ rpc[r] \in {"validate", "identity", "open"} => fileOf[r] \in 1 .. last'
             /\ rpc[r] \in {"identity", "open"} =>
                  /\ contents'[fileOf[r]].stage = "full"
                  /\ builds'[fileOf[r]].data = "covered"
  BY <1>1 DEF ReaderInv, readers
<1>4. rpc[r] \in {"validate", "identity", "open"} => fileOf[r] \in 1 .. last
  BY DEF DirectoryInv, ReaderInv
<1>5. ASSUME rpc[r] \in {"identity", "open"}
      PROVE  /\ contents'[fileOf[r]].stage = "full"
             /\ builds'[fileOf[r]].data = "covered"
  <2>1. /\ fileOf[r] \in Builds /\ fileOf[r] =< last
        /\ contents[fileOf[r]].stage = "full"
        /\ builds[fileOf[r]].data = "covered"
    BY <1>2, <1>4, <1>5 DEF DirectoryInv, ReaderInv
  <2> QED
    BY <2>1, FullStaysFull
<1> QED
  BY <1>2, <1>4, <1>5

\* A reader's own step shows what the invariant says of it.
LEMMA ReaderInvRead ==
  ASSUME TypeOK, DirectoryInv, NEW r \in Readers, Read(r)
  PROVE  ReaderInv'
<1>1. UNCHANGED builder
  BY DEF Read, CheckFile, ReadManifest, Hash, Connect, ValidateStore, CheckIdentity,
         Close, Reach
<1>2. /\ ReaderInv /\ ContentsInv /\ DiskInv
      /\ rpc \in [Readers -> ReaderPlaces] /\ fileOf \in [Readers -> 0 .. MaxBuilds]
      /\ last \in 0 .. MaxBuilds
      /\ disk["snapshot"] \in 0 .. MaxBuilds /\ disk["snapshot"] =< last
  BY DEF DirectoryInv, DiskInv, TypeOK, Names
<1>3. ASSUME NEW q \in Readers, q # r
      PROVE  rpc'[q] = rpc[q] /\ fileOf'[q] = fileOf[q]
  BY <1>2, <1>3 DEF Read, CheckFile, ReadManifest, Hash, Connect, ValidateStore,
                    CheckIdentity, Close, Reach
<1>4. /\ rpc'[r] \in {"validate", "identity", "open"} => fileOf'[r] \in 1 .. last
      /\ rpc'[r] \in {"identity", "open"} =>
           /\ contents[fileOf'[r]].stage = "full"
           /\ builds[fileOf'[r]].data = "covered"
  <2>1. CASE (\E m \in BOOLEAN : CheckFile(r, m)) \/ ReadManifest(r) \/ Hash(r) \/ Close(r)
    <3>1. rpc'[r] \notin {"validate", "identity", "open"}
      BY <1>2, <2>1 DEF CheckFile, ReadManifest, Hash, Close, Reach
    <3> QED
      BY <3>1
  <2>2. CASE Connect(r)
    <3>1. rpc'[r] \in {"validate", "closed"} /\ fileOf'[r] = disk["snapshot"]
      BY <1>2, <2>2 DEF Connect, Reach
    <3>2. rpc'[r] = "validate" => disk["snapshot"] # 0
      BY <1>2, <2>2 DEF Connect, Reach
    <3> QED
      BY <1>2, <3>1, <3>2
  <2>3. CASE ValidateStore(r)
    <3>1. /\ rpc[r] = "validate" /\ fileOf'[r] = fileOf[r]
          /\ rpc'[r] # "closed" => StoreAccepts(fileOf[r])
      BY <1>2, <2>3 DEF ValidateStore, Reach
    <3>2. fileOf[r] \in 1 .. last /\ fileOf[r] \in Builds
      BY <1>2, <3>1 DEF ReaderInv
    <3>3. StoreAccepts(fileOf[r]) =>
            /\ contents[fileOf[r]].stage = "full"
            /\ builds[fileOf[r]].data = "covered"
      BY <1>2, <3>2 DEF StoreAccepts, ContentsInv
    <3> QED
      BY <3>1, <3>2, <3>3
  <2>4. CASE CheckIdentity(r)
    BY <1>2, <2>4 DEF CheckIdentity, Reach, ReaderInv
  <2> QED
    BY <2>1, <2>2, <2>3, <2>4 DEF Read
<1> QED
  BY <1>1, <1>2, <1>3, <1>4 DEF ReaderInv, builder

\* The invariant of the directory mode is inductive.
LEMMA DirectoryInvStep ==
  ASSUME mode = "directory", TypeOK, DirectoryInv, [Next]_vars
  PROVE  DirectoryInv'
<1>1. CASE Build
  BY <1>1, ContentsInvStep, DiskInvStep, ManifestStep, ArtifactsStep, ReaderInvBuild
     DEF DirectoryInv
<1>2. ASSUME UNCHANGED builder, ReaderInv' PROVE DirectoryInv'
  BY <1>2 DEF DirectoryInv, ContentsInv, DiskInv, ManifestMatchesSnapshot, ArtifactsAgree,
              ManifestReadable, HashMatches, builder
<1>3. ASSUME NEW r \in Readers, Read(r) PROVE DirectoryInv'
  <2>1. UNCHANGED builder
    BY <1>3 DEF Read, CheckFile, ReadManifest, Hash, Connect, ValidateStore, CheckIdentity,
                Close, Reach
  <2> QED
    BY <1>2, <1>3, <2>1, ReaderInvRead
<1>4. CASE UNCHANGED vars
  <2>1. ReaderInv'
    BY <1>4 DEF vars, builder, readers, DirectoryInv, ReaderInv
  <2> QED
    BY <1>2, <1>4, <2>1 DEF vars
<1> QED
  BY <1>1, <1>3, <1>4 DEF Next

-----------------------------------------------------------------------------
(* The mode with aliases.                                                  *)

\* The release agrees while it is not touched, and once it was validated.
LEMMA AliasInvBuild ==
  ASSUME mode = "aliases", TypeOK, AliasInv, Build PROVE AliasInv'
<1> USE DEF AliasInv, Copying, Sealed
<1>0. /\ disk \in [Names -> 0 .. MaxBuilds] /\ last \in 0 .. MaxBuilds
      /\ contents \in [Builds -> [build : Builds, stage : Stages]]
      /\ builds \in [Builds -> [identity : Identities, data : Data]]
  BY DEF TypeOK
<1>n. /\ "snapshot" \in Names /\ "manifest" \in Names
      /\ "gzip" \in Names /\ "report" \in Names
  BY DEF Names
<1>1. ASSUME NEW i \in Identities, NEW d \in Data, Begin(i, d) PROVE AliasInv'
  BY <1>0, <1>1 DEF Begin, ArtifactsAgree
<1>2. CASE BuildInTemporary
  BY <1>0, <1>2 DEF BuildInTemporary, ArtifactsAgree
<1>3. ASSUME NEW stage \in Stages, Put(stage), last > 0, published' = None,
             builds' = builds, last' = last, builds[last].data = "covered",
             pc' \in {"copy_snapshot", "copy_report", "compress"},
             pc' = "compress" => disk["report"] = last
      PROVE  AliasInv'
  <2>1. SnapshotFile # 0
    BY <1>3 DEF SnapshotFile
  <2>2. disk' = [disk EXCEPT !["snapshot"] = SnapshotFile]
    BY <1>3 DEF Put
  <2>3. disk'["snapshot"] # 0 /\ disk'["report"] = disk["report"]
    BY <1>0, <1>n, <2>1, <2>2
  <2> QED
    BY <1>3, <2>3 DEF ArtifactsAgree
<1>4. CASE TruncateSnapshot \/ CopySnapshot \/ UpdateMeta
  <2>1. /\ last > 0 /\ published' = None /\ builds' = builds /\ last' = last
        /\ builds[last].data = "covered"
        /\ pc' \in {"copy_snapshot", "copy_report", "compress"}
        /\ pc' = "compress" => disk["report"] = last
    BY <1>4 DEF TruncateSnapshot, CopySnapshot, UpdateMeta
  <2>2. Put("partial") \/ Put("copied") \/ Put("full")
    BY <1>4 DEF TruncateSnapshot, CopySnapshot, UpdateMeta
  <2>3. "partial" \in Stages /\ "copied" \in Stages /\ "full" \in Stages
    BY DEF Stages
  <2> HIDE DEF AliasInv, Copying, Sealed
  <2> QED
    BY <1>3, <2>1, <2>2, <2>3
<1>5. CASE CopyReport \/ Compress \/ TruncateManifest \/ WriteManifest
  BY <1>0, <1>n, <1>5 DEF CopyReport, Compress, TruncateManifest, WriteManifest,
                          ArtifactsAgree
<1>6. CASE Validate
  <2>1. /\ disk["report"] = last /\ disk["manifest"] = last /\ disk["snapshot"] # None
        /\ pc' = "idle" /\ UNCHANGED <<last, builds, disk, contents, torn>>
        /\ published' # None =>
             /\ published' = last
             /\ HashMatches(disk["snapshot"], disk["manifest"])
             /\ disk["gzip"] = disk["manifest"]
             /\ IdentityMatches(disk["snapshot"])
    BY <1>6 DEF Validate
  <2>2. ArtifactsAgree'
    BY <2>1 DEF ArtifactsAgree, HashMatches, IdentityMatches, ManifestReadable
  <2> QED
    BY <2>1, <2>2
<1>7. CASE Crash
  BY <1>7 DEF Crash, ArtifactsAgree
<1> QED
  BY <1>1, <1>2, <1>4, <1>5, <1>6, <1>7
     DEF Build, Unlink, WriteReport, CreateSnapshot, Project

\* A step of a reader changes nothing here.
LEMMA AliasInvStep ==
  ASSUME mode = "aliases", TypeOK, AliasInv, [Next]_vars PROVE AliasInv'
<1>1. CASE UNCHANGED builder
  BY <1>1 DEF AliasInv, Copying, Sealed, ArtifactsAgree, builder
<1>2. ASSUME NEW r \in Readers, Read(r) PROVE UNCHANGED builder
  BY <1>2 DEF Read, CheckFile, ReadManifest, Hash, Connect, ValidateStore, CheckIdentity,
              Close, Reach
<1> QED
  BY <1>1, <1>2, AliasInvBuild DEF Next, vars

-----------------------------------------------------------------------------
(* Both modes.                                                             *)

\* The invariant of each mode implies what the types need.
LEMMA FilesInvBusy == FilesInv => BusyInv
BY DEF FilesInv, DirectoryInv, AliasInv, ContentsInv, DiskInv, BusyInv, Copying, Sealed

\* In either mode the files of a place and what readers know of them stay in step.
THEOREM FilesInvariant == Spec => [](TypeOK /\ FilesInv)
<1>1. Init => TypeOK /\ FilesInv
  <2>1. Init => AliasInv
    BY DEF Init, AliasInv, Copying, Sealed, ArtifactsAgree
  <2> QED
    BY <2>1, TypeOKInit, DirectoryInvInit DEF FilesInv
<1>2. TypeOK /\ FilesInv /\ [Next]_vars => (TypeOK /\ FilesInv)'
  <2> SUFFICES ASSUME TypeOK, FilesInv, [Next]_vars PROVE TypeOK' /\ FilesInv'
    OBVIOUS
  <2>1. TypeOK' /\ mode' = mode /\ mode \in {"directory", "aliases"}
    BY FilesInvBusy, TypeOKStep, ModeKept DEF TypeOK, vars, builder
  <2>2. CASE mode = "directory"
    BY <2>1, <2>2, DirectoryInvStep DEF FilesInv
  <2>3. CASE mode = "aliases"
    BY <2>1, <2>3, AliasInvStep DEF FilesInv
  <2> QED
    BY <2>1, <2>2, <2>3
<1> QED
  BY <1>1, <1>2, PTL DEF Spec

\* In a directory a manifest and a snapshot that are on disk together belong
\* together.
THEOREM ManifestAlwaysMatches ==
  Spec => [](mode = "directory" => ManifestMatchesSnapshot)
<1>1. FilesInv => (mode = "directory" => ManifestMatchesSnapshot)
  BY DEF FilesInv, DirectoryInv
<1> QED
  BY <1>1, FilesInvariant, PTL

\* The files of a command that ended well are those on disk, in either mode.
THEOREM ArtifactsAlwaysAgree == Spec => []ArtifactsAgree
<1>1. FilesInv => ArtifactsAgree
  BY DEF FilesInv, DirectoryInv, AliasInv
<1> QED
  BY <1>1, FilesInvariant, PTL

\* With aliases a release is taken away only by a build whose data passed every
\* validation in the temporary directory.
THEOREM BadBuildsSpareReleases == Spec => ReleaseOutlivesBadBuild
<1> DEFINE Ended == mode = "aliases" /\ published # None /\ published' = None
<1>1. FilesInv /\ [Next]_vars => (Ended => builds'[last'].data = "covered")
  <2> SUFFICES ASSUME FilesInv, [Next]_vars, Ended PROVE builds'[last'].data = "covered"
    OBVIOUS
  <2>1. AliasInv
    BY DEF FilesInv
  <2>2. CASE Build
    <3>1. pc = "truncate_snapshot" /\ UNCHANGED <<builds, last>>
      BY <2>1, <2>2 DEF AliasInv, Copying, Sealed, Build, Begin, Unlink, WriteReport,
                        CreateSnapshot, Project, BuildInTemporary, TruncateSnapshot,
                        CopySnapshot, CopyReport, UpdateMeta, Compress, TruncateManifest,
                        WriteManifest, Validate, Crash
    <3> QED
      BY <2>1, <3>1 DEF AliasInv
  <2>3. ASSUME UNCHANGED builder PROVE FALSE
    BY <2>3 DEF builder
  <2>4. ASSUME NEW r \in Readers, Read(r) PROVE UNCHANGED builder
    BY <2>4 DEF Read, CheckFile, ReadManifest, Hash, Connect, ValidateStore, CheckIdentity,
                Close, Reach
  <2> QED
    BY <2>2, <2>3, <2>4 DEF Next, vars
<1>2. FilesInv /\ [Next]_vars =>
        [mode = "aliases" /\ published # None /\ published' = None
           => builds'[last'].data = "covered"]_vars
  BY <1>1
<1> QED
  BY <1>2, FilesInvariant, PTL DEF Spec, ReleaseOutlivesBadBuild

\* What an open reader reads in a directory is a complete, covered snapshot.
THEOREM OpenedAlwaysRelease == Spec => []OpenedIsRelease
<1>1. TypeOK /\ FilesInv => OpenedIsRelease
  <2> SUFFICES ASSUME TypeOK, FilesInv, NEW r \in Readers, mode = "directory", rpc[r] = "open"
               PROVE  /\ contents[fileOf[r]].stage # "partial"
                      /\ builds[contents[fileOf[r]].build].data = "covered"
    BY DEF OpenedIsRelease
  <2>1. /\ fileOf[r] \in Builds /\ contents[fileOf[r]].stage = "full"
        /\ builds[fileOf[r]].data = "covered"
    BY DEF FilesInv, DirectoryInv, ReaderInv, TypeOK
  <2> QED
    BY <2>1 DEF FilesInv, DirectoryInv, ContentsInv
<1> QED
  BY <1>1, FilesInvariant, PTL

-----------------------------------------------------------------------------
(* The directory mode implements SnapshotViews.                            *)

\* The mapped view of the readers.
ViewOf ==
  [r \in Readers |->
     IF mode = "directory" /\ rpc[r] = "open" THEN contents[fileOf[r]].build ELSE 0]

\* In a directory the complete builds are those whose own file is full.
LEMMA CompleteOwn ==
  mode = "directory" /\ ContentsInv => CompleteBuilds = {b \in Builds : contents[b].stage = "full"}
BY DEF ContentsInv, CompleteBuilds

\* A step of the builder completes a build or changes nothing that is seen.
LEMMA BuildStepMaps ==
  ASSUME mode = "directory", TypeOK, DirectoryInv, ContentsInv', Build
  PROVE  [Views!Next]_<<CompleteBuilds, ViewOf>>
<1>0. mode = "directory" /\ mode' = "directory"
  BY DEF Build, Begin, Unlink, WriteReport, CreateSnapshot, Project, Compress,
         TruncateManifest, WriteManifest, Validate, Crash, BuildInTemporary,
         TruncateSnapshot, CopySnapshot, CopyReport, UpdateMeta
<1>1. ViewOf' = ViewOf
  <2>1. UNCHANGED readers
    BY DEF Build, Begin, Unlink, WriteReport, CreateSnapshot, Project, Compress,
           TruncateManifest, WriteManifest, Validate, Crash, BuildInTemporary,
           TruncateSnapshot, CopySnapshot, CopyReport, UpdateMeta
  <2>2. ASSUME NEW r \in Readers, rpc[r] = "open"
        PROVE  contents'[fileOf[r]] = contents[fileOf[r]]
    <3>1. /\ fileOf[r] \in Builds /\ fileOf[r] =< last
          /\ contents[fileOf[r]].stage = "full"
      BY <2>2 DEF DirectoryInv, ReaderInv, TypeOK
    <3> QED
      BY <3>1, FullStaysFull
  <2> QED
    BY <1>0, <2>1, <2>2 DEF ViewOf, readers
<1>2. \/ CompleteBuilds' = CompleteBuilds
      \/ last \in Builds /\ CompleteBuilds' = CompleteBuilds \union {last}
  <2>0. /\ contents \in [Builds -> [build : Builds, stage : Stages]]
        /\ ContentsInv /\ last \in 0 .. MaxBuilds
    BY DEF TypeOK, DirectoryInv
  <2>1. CASE UNCHANGED contents
    BY <1>0, <2>1 DEF CompleteBuilds
  <2>2. CASE CreateSnapshot
    <3>1. contents' = [contents EXCEPT ![last] = [build |-> last, stage |-> "partial"]]
      BY <2>2, PutOwn DEF CreateSnapshot, Stages
    <3>2. contents[last].stage = "partial"
      BY <2>0, <2>2 DEF CreateSnapshot, ContentsInv
    <3>3. \A b \in Builds : contents'[b].stage = "full" <=> contents[b].stage = "full"
      BY <2>0, <3>1, <3>2
    <3> QED
      BY <1>0, <2>0, <3>3, CompleteOwn DEF ContentsInv, CompleteBuilds
  <2>3. CASE Project /\ contents' # contents
    <3>1. /\ contents' = [contents EXCEPT ![last] = [build |-> last, stage |-> "full"]]
          /\ last \in Builds
      BY <2>3, PutOwn DEF Project, Stages
    <3>2. \A b \in Builds : contents'[b].stage = "full"
                             <=> contents[b].stage = "full" \/ b = last
      BY <2>0, <3>1
    <3>3. \A b \in Builds : contents'[b].build = b
      BY <2>0, <3>1 DEF ContentsInv
    <3>4. CompleteBuilds' = {b \in Builds : contents'[b].stage = "full"}
      BY <1>0, CompleteOwn DEF ContentsInv, CompleteBuilds
    <3> QED
      BY <1>0, <2>0, <3>1, <3>2, <3>4, CompleteOwn
  <2> QED
    BY <2>0, <2>1, <2>2, <2>3
       DEF Build, Begin, Unlink, WriteReport, Compress, TruncateManifest, WriteManifest,
           Validate, Crash, BuildInTemporary, TruncateSnapshot, CopySnapshot, CopyReport,
           UpdateMeta, ContentsInv, DirectoryPlaces, Sealed
<1> QED
  BY <1>1, <1>2 DEF Views!Next, Views!Complete, ViewOf

\* A step of a reader opens or closes its view, or is not seen.
LEMMA ReadStepMaps ==
  ASSUME mode = "directory", TypeOK, DirectoryInv, DirectoryInv', TypeOK',
         NEW r \in Readers, Read(r)
  PROVE  [Views!Next]_<<CompleteBuilds, ViewOf>>
<1>0. /\ rpc \in [Readers -> ReaderPlaces] /\ fileOf \in [Readers -> 0 .. MaxBuilds]
      /\ ContentsInv /\ last \in 0 .. MaxBuilds
  BY DEF TypeOK, DirectoryInv
<1>1. /\ contents' = contents /\ CompleteBuilds' = CompleteBuilds
      /\ mode = "directory" /\ mode' = "directory"
  BY DEF Read, CheckFile, ReadManifest, Hash, Connect, ValidateStore, CheckIdentity,
         Close, Reach, builder, CompleteBuilds
<1>2. ASSUME NEW q \in Readers, q # r
      PROVE  rpc'[q] = rpc[q] /\ fileOf'[q] = fileOf[q]
  BY <1>0, <1>2 DEF Read, CheckFile, ReadManifest, Hash, Connect, ValidateStore,
                    CheckIdentity, Close, Reach
<1>3. CASE rpc[r] # "open" /\ rpc'[r] # "open"
  <2>1. ViewOf' = ViewOf
    BY <1>1, <1>2, <1>3 DEF ViewOf
  <2> QED
    BY <1>1, <2>1
<1>4. CASE rpc[r] # "open" /\ rpc'[r] = "open"
  <2>1. fileOf'[r] = fileOf[r]
    BY <1>0, <1>4 DEF Read, CheckFile, ReadManifest, Hash, Connect, ValidateStore,
                      CheckIdentity, Close, Reach
  <2>2. fileOf'[r] \in Builds /\ contents'[fileOf'[r]].stage = "full"
    BY <1>4 DEF DirectoryInv, ReaderInv, TypeOK
  <2>3. /\ contents[fileOf[r]].build = fileOf[r] /\ fileOf[r] \in CompleteBuilds
        /\ fileOf[r] # 0
    BY <1>0, <1>1, <2>1, <2>2, CompleteOwn DEF ContentsInv
  <2>4. ViewOf[r] = 0 /\ ViewOf' = [ViewOf EXCEPT ![r] = fileOf[r]]
    BY <1>1, <1>2, <1>4, <2>1, <2>3 DEF ViewOf
  <2> QED
    BY <1>1, <2>3, <2>4 DEF Views!Next, Views!Open, ViewOf
<1>5. CASE rpc[r] = "open"
  <2>1. rpc'[r] = "closed"
    BY <1>0, <1>5 DEF Read, CheckFile, ReadManifest, Hash, Connect, ValidateStore,
                      CheckIdentity, Close, Reach
  <2>2. ViewOf' = [ViewOf EXCEPT ![r] = 0]
    BY <1>1, <1>2, <2>1 DEF ViewOf
  <2> QED
    BY <1>1, <2>2 DEF Views!Next, Views!Close, ViewOf
<1> QED
  BY <1>3, <1>4, <1>5

\* The files implement the views: in a directory each reader sees one complete
\* build from opening to closing, whatever builds and crashes come in between,
\* and with aliases nothing is claimed to be seen.
THEOREM ViewsRefinement == Spec => ViewsImplemented
<1>1. Init => Views!Init
  <2> SUFFICES ASSUME Init PROVE Views!Init
    OBVIOUS
  <2>1. CompleteBuilds = {}
    BY DEF Init, CompleteBuilds
  <2>2. \A r \in Readers : rpc[r] = "closed"
    BY DEF Init
  <2> QED
    BY <2>1, <2>2 DEF Views!Init
<1>2. /\ TypeOK /\ FilesInv /\ (TypeOK /\ FilesInv)'
      /\ [Next]_vars
      => [Views!Next]_<<CompleteBuilds, ViewOf>>
  <2> SUFFICES ASSUME TypeOK, FilesInv, TypeOK', FilesInv', [Next]_vars
               PROVE  [Views!Next]_<<CompleteBuilds, ViewOf>>
    OBVIOUS
  <2>1. mode' = mode
    BY ModeKept DEF vars, builder
  <2>2. CASE mode # "directory"
    BY <2>1, <2>2 DEF CompleteBuilds, ViewOf
  <2>3. CASE mode = "directory"
    <3>1. DirectoryInv /\ DirectoryInv' /\ ContentsInv'
      BY <2>1, <2>3 DEF FilesInv, DirectoryInv
    <3>2. CASE Build
      BY <2>3, <3>1, <3>2, BuildStepMaps
    <3>3. ASSUME NEW r \in Readers, Read(r)
          PROVE  [Views!Next]_<<CompleteBuilds, ViewOf>>
      BY <2>3, <3>1, <3>3, ReadStepMaps
    <3>4. CASE UNCHANGED vars
      BY <3>4 DEF vars, builder, readers, CompleteBuilds, ViewOf
    <3> QED
      BY <3>2, <3>3, <3>4 DEF Next
  <2> QED
    BY <2>2, <2>3
<1> QED
  BY <1>1, <1>2, FilesInvariant, PTL DEF Spec, ViewsImplemented, Views!Spec, ViewOf

=============================================================================
