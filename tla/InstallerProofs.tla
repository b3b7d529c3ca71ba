--------------------------- MODULE InstallerProofs ---------------------------
(***************************************************************************)
(* Theorems about the installer for any number of boards, directories,     *)
(* runs and failures: every step backs up before it overwrites             *)
(* (ImplementsBackupFirst), so the first content of every sector stays     *)
(* recoverable, and restorations write in place.  The one assumption, that *)
(* no two boards have media of the same size, is what restore_media's      *)
(* comparison of the capacities stands for: without it a backup can be     *)
(* written to another board than it was read from.                         *)
(***************************************************************************)
EXTENDS Installer, TLAPS

DistinctSizes ==
    \A u, v \in Units, m \in Media : Capacity[u][m] = Capacity[v][m] => u = v

AfterInfo == {"rid", "metadata", "backup", "partitions", "json", "write", "readback",
              "reset"}
AfterSelect == AfterInfo \union {"info"}
BeforeJson == {"enter", "select", "info", "rid", "metadata", "backup", "partitions", "json"}

FirstLba(m) == IF m = "emmc" THEN WriteLba ELSE 0

\* The board in loader mode, if it is still there, is the one that was
\* selected and measured.
LoaderInv ==
    \A u \in Units : mode[u] = "loader" =>
        /\ step \in AfterSelect => selected[u] = job.media
        /\ step \in AfterInfo => Capacity[u][job.media] = job.capacity

\* A complete backup.json tells where its blocks were read from.
JsonInv(d) ==
    /\ ~dir[d].used => dir[d].json = {}
    /\ \A j \in dir[d].json :
          /\ dir[d].json = {j}
          /\ j.media = "emmc" => j.backup_sectors = j.installed_sectors
          /\ j.media = "spi-nor" => j.backup_sectors = j.capacity_sectors
          /\ \E u \in Units :
                /\ j.capacity_sectors = Capacity[u][j.media]
                /\ dir[d].origin = Sectors(u, j.media, FirstLba(j.media), j.backup_sectors)

\* An installation: no backup.json before its time, the blocks read are still
\* what is in their sectors, and from then on the backup covers the image.
FlashInv ==
    job.op = "flash" =>
        /\ step \in BeforeJson => dir[job.dir].json = {}
        /\ step \in AfterInfo =>
              dir[job.dir].used /\ WriteLba + Len(artifact) <= job.capacity
        /\ step \in {"partitions", "json"} =>
              \E u \in Units :
                 /\ job.capacity = Capacity[u][job.media]
                 /\ dir[job.dir].origin =
                        Sectors(u, job.media, FirstLba(job.media), BackupSectors)
                 /\ dir[job.dir].data = Contained(dir[job.dir].origin)
        /\ step = "write" =>
              \E j \in dir[job.dir].json :
                 /\ j.media = job.media /\ j.capacity_sectors = job.capacity
                 /\ j.installed_sectors = Len(artifact)

\* A restoration makes no backup, and works on the medium and the capacity of its backup.json.
RestoreInv ==
    job.op = "restore" =>
        /\ step \notin {"metadata", "backup", "partitions", "json"}
        /\ \E j \in dir[job.dir].json :
              /\ j.media = job.media
              /\ step \in AfterInfo => j.capacity_sectors = job.capacity

Inv ==
    /\ TypeOK /\ LoaderInv /\ FlashInv /\ RestoreInv
    /\ \A d \in Dirs : JsonInv(d)

------------------------------------------------------------------------------
\* A range of sectors of a medium, as a file of places.
LEMMA SectorsFacts ==
  ASSUME NEW u, NEW m, NEW first, NEW n \in Nat
  PROVE  /\ DOMAIN Sectors(u, m, first, n) = 1..n
         /\ Len(Sectors(u, m, first, n)) = n
         /\ \A i \in 1..n : Sectors(u, m, first, n)[i] = <<u, m, first + i - 1>>
         /\ Inside(Sectors(u, m, first, n)) => Sectors(u, m, first, n) \in Seq(Places)
  BY DEF Sectors, Inside

\* What a file of places contains is a file of the same length.
LEMMA ContainedFacts ==
  ASSUME store \in [Places -> Contents], NEW places \in Seq(Places)
  PROVE  /\ Contained(places) \in Seq(Contents)
         /\ Len(Contained(places)) = Len(places)
         /\ \A i \in 1..Len(places) : Contained(places)[i] = store[places[i]]
  <1>1. DOMAIN places = 1..Len(places) /\ Len(places) \in Nat
    OBVIOUS
  <1>2. \A i \in 1..Len(places) : places[i] \in Places
    OBVIOUS
  <1> QED  BY <1>1, <1>2 DEF Contained

\* A write leaves contents in the sectors.
LEMMA WrittenType ==
  ASSUME store \in [Places -> Contents], NEW places, NEW blocks \in Seq(Contents),
         NEW good \in SUBSET DOMAIN blocks, NEW bad
  PROVE  Written(places, blocks, good, bad) \in [Places -> Contents]
  <1>1. \A i \in good : blocks[i] \in Contents
    OBVIOUS
  <1>2. \A p \in Places : (\E i \in good : places[i] = p) =>
           (CHOOSE i \in good : places[i] = p) \in good
    OBVIOUS
  <1> QED  BY <1>1, <1>2, ContentsAssumption DEF Written

\* A write changes only its places.
LEMMA WrittenChanges ==
  ASSUME NEW places, NEW blocks, NEW good, NEW bad, NEW p \in Places,
         Written(places, blocks, good, bad)[p] /= store[p]
  PROVE  \E i \in good \union bad :
            places[i] = p /\ Written(places, blocks, good, bad)[p] \in {blocks[i], Junk}
  <1>1. CASE \E i \in good : places[i] = p
    <2>1. /\ (CHOOSE i \in good : places[i] = p) \in good
          /\ places[CHOOSE i \in good : places[i] = p] = p
      BY <1>1
    <2> QED  BY <1>1, <2>1 DEF Written
  <1> QED  BY <1>1 DEF Written

\* The image of a running installation.
LEMMA ArtifactFacts ==
  ASSUME TypeOK, step /= "idle"
  PROVE  artifact \in Seq(Contents) /\ Len(artifact) \in Nat \ {0}
  <1>1. job.board \in Boards /\ job.media \in Media /\ build \in Builds
    BY DEF TypeOK
  <1>2. /\ Image[job.board][job.media][build] \in Seq(Contents)
        /\ Image[job.board][job.media][build] /= <<>>
    BY <1>1, ImageAssumption
  <1>3. artifact \in Seq(Contents) /\ artifact /= <<>>
    BY <1>2 DEF artifact
  <1> QED  BY <1>3

\* What the parameters of a command are in a running script.
LEMMA JobFacts ==
  ASSUME TypeOK, step /= "idle"
  PROVE  /\ job.dir \in Dirs /\ job.board \in Boards /\ job.media \in Media
         /\ job.op \in {"flash", "restore"} /\ job.capacity \in Nat
         /\ Payload \in Seq(Contents) /\ PayloadLba \in Nat /\ BackupFirstLba \in Nat
         /\ BackupSectors \in Nat
  <1>1. job \in [op : {"flash", "restore"}, dir : Dirs, board : Boards, media : Media,
                 capacity : Nat]
    BY DEF TypeOK
  <1>2. dir[job.dir].data \in Seq(Contents)
    BY <1>1 DEF TypeOK, Directories
  <1> QED
    BY <1>1, <1>2, ArtifactFacts, WriteLbaAssumption
       DEF Payload, PayloadLba, BackupFirstLba, BackupSectors

\* The variables a write touches keep their types.
LEMMA WriteType ==
  ASSUME TypeOK, NEW u \in Units, Write(u) \/ BadWrite(u) \/ TornWrite(u)
  PROVE  store' \in [Places -> Contents]
  <1>1. step = "write" /\ Payload \in Seq(Contents)
    BY JobFacts DEF Write, BadWrite, TornWrite, Advance, Die
  <1>2. \A bad : \A good \in SUBSET DOMAIN Payload :
           Written(Destination(u), Payload, good, bad) \in [Places -> Contents]
    BY <1>1, WrittenType DEF TypeOK
  <1>3. \A n \in 0..(Len(Payload) - 1) : 1..n \subseteq DOMAIN Payload
    BY <1>1
  <1>4. CASE Write(u)
    BY <1>2, <1>4 DEF Write
  <1>5. CASE BadWrite(u)
    BY <1>2, <1>5 DEF BadWrite
  <1>6. CASE TornWrite(u)
    BY <1>2, <1>3, <1>6 DEF TornWrite
  <1> QED  BY <1>4, <1>5, <1>6

\* A command that changes the files of its directory.
LEMMA DirType ==
  ASSUME TypeOK, step /= "idle", NEW x \in Directories, dir' = [dir EXCEPT ![job.dir] = x]
  PROVE  dir' \in [Dirs -> Directories]
  BY DEF TypeOK

LEMMA UsedType ==
  ASSUME TypeOK, step /= "idle", dir' = [dir EXCEPT ![job.dir].used = TRUE]
  PROVE  dir' \in [Dirs -> Directories]
  <1>1. dir[job.dir] \in Directories
    BY JobFacts DEF TypeOK
  <1>2. [dir[job.dir] EXCEPT !.used = TRUE] \in Directories
    BY <1>1 DEF Directories
  <1> QED  BY <1>2, DirType

LEMMA InitInv == Init => Inv
  <1> SUFFICES ASSUME Init PROVE Inv
    OBVIOUS
  <1>1. \A d \in Dirs : dir[d] = Empty
    BY DEF Init
  <1>2. Empty \in Directories
    BY DEF Empty, Directories
  <1>3. TypeOK
    <2>1. dir \in [Dirs -> Directories]
      BY <1>2 DEF Init
    <2>2. manifest \in Nat /\ build \in Builds
      BY BuildsAssumption DEF Init, Builds
    <2> QED  BY <2>1, <2>2, ContentsAssumption DEF Init, TypeOK, Steps
  <1> QED
    BY <1>1, <1>3
       DEF Init, Inv, LoaderInv, FlashInv, RestoreInv, JsonInv, Empty, NoJob, AfterInfo,
           AfterSelect

\* Every step keeps the types.
LEMMA TypeStep == TypeOK /\ [Next]_vars => TypeOK'
  <1> SUFFICES ASSUME TypeOK, [Next]_vars PROVE TypeOK'
    OBVIOUS
  <1> USE DEF Steps
  <1>1. ASSUME NEW op \in {"flash", "restore"}, NEW d \in Dirs, NEW b \in Boards,
               NEW m \in Media, Start(op, d, b, m)
        PROVE  TypeOK'
    BY <1>1 DEF TypeOK, Start, bench, repo
  <1>2. ASSUME NEW d \in Dirs, StartRestore(d) PROVE TypeOK'
    <2>1. PICK j \in dir[d].json : Start("restore", d, j.board, j.media)
      BY <1>2 DEF StartRestore
    <2>2. j.board \in Boards /\ j.media \in Media
      BY <2>1 DEF TypeOK, Directories, BackupJsons
    <2> QED  BY <1>1, <2>1, <2>2
  <1>3. ASSUME NEW d \in Dirs, NEW b \in Boards, NEW m \in Media, StartFlash(d, b, m)
        PROVE  TypeOK'
    BY <1>1, <1>3 DEF StartFlash
  <1>4. ASSUME NEW u \in Units, Command(u) PROVE TypeOK'
    <2>1. CASE EnterLoader(u)
      BY <2>1 DEF TypeOK, EnterLoader, Advance, bench, repo
    <2>2. CASE SelectStorage(u)
      <3>1. job.media \in Media
        BY <2>2, JobFacts DEF SelectStorage, Advance
      <3> QED  BY <2>2, <3>1 DEF TypeOK, SelectStorage, Advance, repo
    <2>3. CASE FlashInfo(u)
      <3>1. Capacity[u][selected[u]] \in Nat
        BY <2>3, CapacityAssumption DEF FlashInfo
      <3>2. step /= "idle" /\ step' \in Steps \ {"idle"}
        BY <2>3 DEF FlashInfo, Advance
      <3>3. job' = [job EXCEPT !.capacity = Capacity[u][selected[u]]]
        BY <2>3 DEF FlashInfo
      <3>4. dir' = [dir EXCEPT ![job.dir].used = TRUE]
        BY <2>3 DEF FlashInfo
      <3>5. dir' \in [Dirs -> Directories]
        BY <3>2, <3>4, UsedType
      <3>6. job' \in [op : {"flash", "restore"}, dir : Dirs, board : Boards, media : Media,
                      capacity : Nat]
        BY <3>1, <3>2, <3>3 DEF TypeOK
      <3> QED  BY <2>3, <3>2, <3>5, <3>6 DEF TypeOK, FlashInfo, Advance, bench, repo
    <2>4. CASE JedecId(u)
      BY <2>4 DEF TypeOK, JedecId, Advance, bench, repo
    <2>5. CASE ReadMetadata(u)
      <3>1. step = "metadata" /\ dir[job.dir] \in Directories /\ table[u] \in Tables
        BY <2>5, JobFacts DEF TypeOK, ReadMetadata, Advance
      <3>2. [dir[job.dir] EXCEPT !.table = {table[u]}] \in Directories
        BY <3>1 DEF Directories
      <3>3. dir' \in [Dirs -> Directories]
        BY <2>5, <3>1, <3>2, DirType DEF ReadMetadata
      <3> QED  BY <2>5, <3>3 DEF TypeOK, ReadMetadata, Advance, bench, repo
    <2>6. CASE Backup(u)
      <3> DEFINE places == Sectors(u, selected[u], BackupFirstLba, BackupSectors)
      <3>1. step = "backup" /\ Inside(places)
        BY <2>6 DEF Backup, Advance
      <3>2. places \in Seq(Places)
        BY <3>1, JobFacts, SectorsFacts
      <3>3. Contained(places) \in Seq(Contents) /\ Len(Contained(places)) = Len(places)
        BY <3>2, ContainedFacts DEF TypeOK
      <3> HIDE DEF places
      <3>4. dir' = [dir EXCEPT ![job.dir].origin = places, ![job.dir].data = Contained(places)]
        BY <2>6 DEF Backup, places
      <3>5. dir[job.dir] \in Directories
        BY <3>1, JobFacts DEF TypeOK
      <3>6. [dir[job.dir] EXCEPT !.origin = places, !.data = Contained(places)] \in Directories
        BY <3>2, <3>3, <3>5 DEF Directories
      <3>7. dir' \in [Dirs -> Directories]
        BY <3>1, <3>4, <3>6, DirType
      <3> QED  BY <2>6, <3>7 DEF TypeOK, Backup, Advance, bench, repo
    <2>7. CASE Write(u)
      BY <2>7, WriteType DEF TypeOK, Write, Advance, bench, repo
    <2>8. CASE BadWrite(u)
      BY <2>8, WriteType DEF TypeOK, BadWrite, Advance, bench, repo
    <2>9. CASE TornWrite(u)
      BY <2>9, WriteType DEF TypeOK, TornWrite, Die, bench, repo
    <2>10. CASE Readback(u)
      BY <2>10 DEF TypeOK, Readback, Advance, bench, repo
    <2>11. CASE Reset(u)
      BY <2>11 DEF TypeOK, Reset, repo
    <2> QED
      BY <1>4, <2>1, <2>2, <2>3, <2>4, <2>5, <2>6, <2>7, <2>8, <2>9, <2>10, <2>11 DEF Command
  <1>5. ASSUME NEW u \in Units, Plug(u) \/ Unplug(u) PROVE TypeOK'
    BY <1>5 DEF TypeOK, Plug, Unplug, repo
  <1>6. CASE CheckPartitions
    BY <1>6 DEF TypeOK, CheckPartitions, Advance, bench, repo
  <1>7. CASE WriteJson
    <2>1. step = "json" /\ dir[job.dir] \in Directories
      BY <1>7, JobFacts DEF TypeOK, WriteJson, Advance
    <2>2. BackupJson \in BackupJsons
      <3>1. dir[job.dir].data \in Seq(Contents) /\ manifest \in Nat
        BY <2>1 DEF Directories, TypeOK
      <3> QED
        BY <2>1, <3>1, JobFacts, ArtifactFacts, WriteLbaAssumption DEF BackupJson, BackupJsons
    <2>3. [dir[job.dir] EXCEPT !.json = {BackupJson}] \in Directories
      BY <2>1, <2>2 DEF Directories
    <2>4. dir' \in [Dirs -> Directories]
      BY <1>7, <2>1, <2>3, DirType DEF WriteJson
    <2> QED  BY <1>7, <2>4 DEF TypeOK, WriteJson, Advance, bench, repo
  <1>8. CASE Abort
    <2>1. dir' \in [Dirs -> Directories]
      BY <1>8, UsedType DEF TypeOK, Abort
    <2> QED  BY <1>8, <2>1 DEF TypeOK, Abort, Die, bench, repo
  <1>9. CASE UpdateRepo
    <2>1. build' \in Builds /\ manifest' \in Nat
      BY <1>9, BuildsAssumption DEF TypeOK, UpdateRepo, Builds
    <2> QED  BY <1>9, <2>1 DEF TypeOK, UpdateRepo, bench
  <1>10. CASE UNCHANGED vars
    BY <1>10 DEF TypeOK, vars, bench, repo
  <1> QED
    BY <1>2, <1>3, <1>4, <1>5, <1>6, <1>7, <1>8, <1>9, <1>10 DEF Next

------------------------------------------------------------------------------
\* The commands after flash_info that only move the script on.
LEMMA Moves ==
  ASSUME NEW u \in Units,
         \/ JedecId(u) \/ ReadMetadata(u) \/ Backup(u) \/ Write(u) \/ BadWrite(u)
         \/ Readback(u) \/ CheckPartitions \/ WriteJson
  PROVE  /\ step \in AfterInfo /\ step' \in AfterInfo
         /\ UNCHANGED <<mode, selected, job, build, manifest>>
  BY DEF JedecId, ReadMetadata, Backup, Write, BadWrite, Readback, CheckPartitions, WriteJson,
         Advance, bench, repo, AfterInfo

\* The actions that leave the directories and the images alone and lead to no
\* step at which FlashInv or RestoreInv say more.
LEMMA Ends ==
  ASSUME TypeOK, NEW u \in Units, TornWrite(u) \/ Reset(u) \/ Abort
  PROVE  step' = "idle" /\ job'.op = "none"
  BY DEF TornWrite, Reset, Abort, Die, NoJob

LEMMA LoaderStep == Inv /\ [Next]_vars => LoaderInv'
  <1> SUFFICES ASSUME Inv, [Next]_vars, NEW v \in Units, mode'[v] = "loader"
               PROVE  /\ step' \in AfterSelect => selected'[v] = job'.media
                      /\ step' \in AfterInfo => Capacity[v][job'.media] = job'.capacity
    BY DEF LoaderInv
  <1> USE DEF AfterSelect, AfterInfo
  <1>1. ASSUME NEW op, NEW d, NEW b, NEW m, Start(op, d, b, m) PROVE step' = "enter"
    BY <1>1 DEF Start
  <1>2. CASE \/ \E d \in Dirs : StartRestore(d)
            \/ \E d \in Dirs, b \in Boards, m \in Media : StartFlash(d, b, m)
    BY <1>1, <1>2 DEF StartRestore, StartFlash
  <1>3. ASSUME NEW u \in Units, EnterLoader(u) PROVE step' = "select"
    BY <1>3 DEF EnterLoader, Advance
  <1>4. ASSUME NEW u \in Units, SelectStorage(u)
        PROVE  step' = "info" /\ selected'[v] = job'.media
    BY <1>4 DEF Inv, TypeOK, SelectStorage, Advance, Target, Visible
  <1>5. ASSUME NEW u \in Units, FlashInfo(u)
        PROVE  selected'[v] = job'.media /\ Capacity[v][job'.media] = job'.capacity
    <2>1. u = v /\ step = "info" /\ mode' = mode /\ selected' = selected
      BY <1>5 DEF FlashInfo, Advance, Target, Visible, bench
    <2>2. selected[v] = job.media
      BY <2>1 DEF Inv, LoaderInv
    <2>3. job' = [job EXCEPT !.capacity = Capacity[v][job.media]]
      BY <1>5, <2>1, <2>2 DEF FlashInfo
    <2>4. job' = [op |-> job.op, dir |-> job.dir, board |-> job.board, media |-> job.media,
                  capacity |-> Capacity[v][job.media]]
      BY <2>1, <2>3 DEF Inv, TypeOK
    <2> QED  BY <2>1, <2>2, <2>4
  <1>6. ASSUME NEW u \in Units, \/ JedecId(u) \/ ReadMetadata(u) \/ Backup(u) \/ Write(u)
               \/ BadWrite(u) \/ Readback(u) \/ CheckPartitions \/ WriteJson
        PROVE  selected'[v] = job'.media /\ Capacity[v][job'.media] = job'.capacity
    BY <1>6, Moves DEF Inv, LoaderInv
  <1>7. ASSUME NEW u \in Units, TornWrite(u) \/ Reset(u) \/ Abort PROVE step' = "idle"
    BY <1>7, Ends DEF Inv
  <1>8. ASSUME NEW u \in Units, Plug(u) \/ Unplug(u)
        PROVE  u /= v /\ selected'[v] = selected[v] /\ mode[v] = "loader" /\ UNCHANGED <<step, job>>
    BY <1>8 DEF Inv, TypeOK, Plug, Unplug
  <1>9. CASE UpdateRepo \/ UNCHANGED vars
    BY <1>9 DEF UpdateRepo, Inv, LoaderInv, bench, vars
  <1>10. CASE \E u \in Units : Command(u) \/ Plug(u) \/ Unplug(u)
    BY <1>3, <1>4, <1>5, <1>6, <1>7, <1>8, <1>10 DEF Command, Inv, LoaderInv
  <1>11. CASE CheckPartitions \/ WriteJson \/ Abort
    <2>1. CASE Units = {}
      BY <2>1
    <2> QED  BY <1>6, <1>7, <1>11, <2>1
  <1> QED
    BY <1>2, <1>9, <1>10, <1>11 DEF Next

\* What a command adds to a directory, besides its backup and its backup.json.
LEMMA FilesKept ==
  ASSUME Inv, Next, ~\E u \in Units : Backup(u), ~WriteJson, NEW d \in Dirs
  PROVE  /\ dir'[d].json = dir[d].json /\ dir'[d].origin = dir[d].origin
         /\ dir'[d].data = dir[d].data
         /\ dir[d].used => dir'[d].used
  <1>0. /\ TypeOK /\ d \in DOMAIN dir
        /\ dir[d] \in [used : BOOLEAN, origin : Seq(Places), data : Seq(Contents),
                       table : SUBSET Tables, json : SUBSET BackupJsons]
    BY DEF Inv, TypeOK, Directories
  <1>1. CASE UNCHANGED dir
    BY <1>1
  <1>2. CASE step /= "idle" /\ dir' = [dir EXCEPT ![job.dir].used = TRUE]
    BY <1>0, <1>2, JobFacts
  <1>4. ASSUME NEW u \in Units, FlashInfo(u)
        PROVE  step /= "idle" /\ dir' = [dir EXCEPT ![job.dir].used = TRUE]
    BY <1>4 DEF FlashInfo, Advance
  <1>5. ASSUME Abort
        PROVE  UNCHANGED dir \/ (step /= "idle" /\ dir' = [dir EXCEPT ![job.dir].used = TRUE])
    BY <1>5, <1>0 DEF Abort, Die
  <1>7. ASSUME NEW u \in Units, Command(u), ~ReadMetadata(u), ~FlashInfo(u)
        PROVE  UNCHANGED dir
    BY <1>7 DEF Command, EnterLoader, SelectStorage, JedecId, Write, BadWrite, TornWrite,
                Readback, Reset
  <1>8. CASE \/ \E e \in Dirs : StartRestore(e)
            \/ \E e \in Dirs, b \in Boards, m \in Media : StartFlash(e, b, m)
    BY <1>1, <1>8 DEF StartRestore, StartFlash, Start
  <1>9. CASE (\E u \in Units : Plug(u) \/ Unplug(u)) \/ CheckPartitions \/ UpdateRepo
    BY <1>1, <1>9 DEF Plug, Unplug, CheckPartitions, UpdateRepo
  <1>10. ASSUME NEW u \in Units, Command(u)
         PROVE  /\ dir'[d].json = dir[d].json /\ dir'[d].origin = dir[d].origin
                /\ dir'[d].data = dir[d].data
                /\ dir[d].used => dir'[d].used
    <2>1. CASE ReadMetadata(u)
      <3>1. step /= "idle" /\ dir' = [dir EXCEPT ![job.dir].table = {table[u]}]
        BY <2>1 DEF ReadMetadata, Advance
      <3> QED  BY <1>0, <3>1, JobFacts
    <2>2. CASE FlashInfo(u)
      BY <1>2, <1>4, <2>2
    <2>3. CASE ~ReadMetadata(u) /\ ~FlashInfo(u)
      BY <1>1, <1>7, <1>10, <2>3
    <2> QED  BY <2>1, <2>2, <2>3
  <1> QED
    BY <1>1, <1>2, <1>5, <1>8, <1>9, <1>10 DEF Next

\* A backup is read in a directory that has no backup.json yet, and so is a
\* backup.json written.
LEMMA BackupFacts ==
  ASSUME Inv, (\E u \in Units : Backup(u)) \/ WriteJson
  PROVE  /\ step \in {"backup", "json"} /\ step /= "idle" /\ job.op = "flash"
         /\ job.dir \in Dirs /\ dir[job.dir].json = {} /\ dir[job.dir].used
         /\ WriteLba + Len(artifact) <= job.capacity
  <1>1. step \in {"backup", "json"}
    BY DEF Backup, WriteJson, Advance
  <1>2. job.op \in {"flash", "restore"} /\ job.dir \in Dirs
    BY <1>1, JobFacts DEF Inv
  <1>3. job.op = "flash"
    BY <1>1, <1>2 DEF Inv, RestoreInv
  <1> QED
    BY <1>1, <1>2, <1>3 DEF Inv, FlashInv, BeforeJson, AfterInfo

\* The other directories keep everything while a backup is made.
LEMMA BackupKeeps ==
  ASSUME Inv, NEW u \in Units, Backup(u) \/ WriteJson, NEW d \in Dirs, d /= job.dir
  PROVE  dir'[d] = dir[d]
  BY DEF Backup, WriteJson, Inv, TypeOK

\* What one backup.json says, apart from the directory it is in.
LEMMA WriteJsonFacts ==
  ASSUME Inv, WriteJson
  PROVE  /\ dir'[job.dir] = [dir[job.dir] EXCEPT !.json = {BackupJson}]
         /\ dir'[job.dir].json = {BackupJson} /\ dir'[job.dir].used
         /\ dir'[job.dir].origin = dir[job.dir].origin
         /\ dir'[job.dir].data = dir[job.dir].data
  <1>1. /\ job.dir \in DOMAIN dir /\ dir[job.dir].used
        /\ dir[job.dir] \in [used : BOOLEAN, origin : Seq(Places), data : Seq(Contents),
                             table : SUBSET Tables, json : SUBSET BackupJsons]
    BY BackupFacts DEF Inv, TypeOK, Directories
  <1>2. dir' = [dir EXCEPT ![job.dir].json = {BackupJson}]
    BY DEF WriteJson
  <1> QED  BY <1>1, <1>2

LEMMA JsonStep == Inv /\ [Next]_vars => \A d \in Dirs : JsonInv(d)'
  <1> SUFFICES ASSUME Inv, [Next]_vars, NEW d \in Dirs PROVE JsonInv(d)'
    OBVIOUS
  <1>1. JsonInv(d)
    BY DEF Inv
  <1>2. CASE /\ dir'[d].json = dir[d].json /\ dir'[d].origin = dir[d].origin
             /\ dir[d].used => dir'[d].used
    <2>1. dir[d].used \in BOOLEAN
      BY DEF Inv, TypeOK, Directories
    <2> QED  BY <1>1, <1>2, <2>1 DEF JsonInv
  <1>3. ASSUME NEW u \in Units, Backup(u) PROVE JsonInv(d)'
    <2>1. CASE d = job.dir
      <3>1. /\ d \in DOMAIN dir
            /\ dir[d] \in [used : BOOLEAN, origin : Seq(Places), data : Seq(Contents),
                           table : SUBSET Tables, json : SUBSET BackupJsons]
        BY DEF Inv, TypeOK, Directories
      <3>2. dir'[d].json = dir[d].json
        BY <1>3, <2>1, <3>1 DEF Backup
      <3>3. dir[d].json = {}
        BY <1>3, <2>1, BackupFacts
      <3> QED  BY <3>2, <3>3 DEF JsonInv
    <2> QED  BY <1>2, <1>3, <2>1, BackupKeeps
  <1>4. CASE WriteJson
    <2>1. CASE d = job.dir
      <3>1. step = "json"
        BY <1>4 DEF WriteJson, Advance
      <3>2. PICK u \in Units :
               /\ job.capacity = Capacity[u][job.media]
               /\ dir[d].origin = Sectors(u, job.media, FirstLba(job.media), BackupSectors)
        BY <1>4, <2>1, <3>1, BackupFacts DEF Inv, FlashInv
      <3>3. dir'[d].json = {BackupJson} /\ dir'[d].used /\ dir'[d].origin = dir[d].origin
        BY <1>4, <2>1, WriteJsonFacts
      <3>4. /\ BackupJson.media = job.media
            /\ BackupJson.capacity_sectors = job.capacity
            /\ BackupJson.backup_sectors = BackupSectors
            /\ BackupJson.installed_sectors = Len(artifact)
        BY DEF BackupJson
      <3>5. /\ job.media = "emmc" => BackupSectors = Len(artifact)
            /\ job.media = "spi-nor" => BackupSectors = job.capacity
        BY DEF BackupSectors
      <3> HIDE DEF BackupJson
      <3> QED  BY <3>2, <3>3, <3>4, <3>5 DEF JsonInv
    <2>2. CASE d /= job.dir
      <3>1. dir'[d] = dir[d]
        BY <1>4, <2>2 DEF WriteJson, Inv, TypeOK
      <3> QED  BY <1>2, <3>1
    <2> QED  BY <2>1, <2>2
  <1>5. CASE UNCHANGED vars
    BY <1>2, <1>5 DEF vars
  <1> QED
    BY <1>2, <1>3, <1>4, <1>5, FilesKept

\* A restoration starts, or goes on, with the one backup.json of its directory.
LEMMA RestoreStep == Inv /\ [Next]_vars => RestoreInv'
  <1> SUFFICES ASSUME Inv, [Next]_vars, job'.op = "restore"
               PROVE  /\ step' \notin {"metadata", "backup", "partitions", "json"}
                      /\ \E j \in dir'[job'.dir].json :
                            /\ j.media = job'.media
                            /\ step' \in AfterInfo => j.capacity_sectors = job'.capacity
    BY DEF RestoreInv
  <1>1. ASSUME NEW d \in Dirs, StartRestore(d)
        PROVE  \E j \in dir'[job'.dir].json :
                  step' = "enter" /\ j.media = job'.media
    BY <1>1 DEF StartRestore, Start
  <1>2. ASSUME NEW d \in Dirs, NEW b \in Boards, NEW m \in Media, StartFlash(d, b, m)
        PROVE  FALSE
    BY <1>2 DEF StartFlash, Start
  <1>3. ASSUME NEW u \in Units, TornWrite(u) \/ Reset(u) \/ Abort PROVE FALSE
    BY <1>3, Ends DEF Inv
  <1>4. CASE UNCHANGED <<job, dir, step>>
    BY <1>4 DEF Inv, RestoreInv
  <1>5. ASSUME NEW u \in Units, EnterLoader(u) \/ SelectStorage(u)
        PROVE  UNCHANGED <<job, dir>> /\ step' \in {"select", "info"}
    BY <1>5 DEF EnterLoader, SelectStorage, Advance
  <1>6. ASSUME NEW u \in Units, JedecId(u) \/ Write(u) \/ BadWrite(u) \/ Readback(u)
        PROVE  /\ UNCHANGED <<job, dir>> /\ step \in AfterInfo
               /\ step' \in {"backup", "write", "readback", "reset"}
               /\ step' = "backup" => job.op = "flash"
    BY <1>6 DEF JedecId, Write, BadWrite, Readback, Advance, AfterInfo
  <1>7. ASSUME NEW u \in Units, ReadMetadata(u) \/ Backup(u) \/ CheckPartitions \/ WriteJson
        PROVE  FALSE
    <2>1. job' = job /\ step \in {"metadata", "backup", "partitions", "json"}
      BY <1>7 DEF ReadMetadata, Backup, CheckPartitions, WriteJson, Advance
    <2> QED  BY <2>1 DEF Inv, RestoreInv
  <1>8. ASSUME NEW u \in Units, FlashInfo(u)
        PROVE  /\ step' \in {"rid", "write"}
               /\ \E j \in dir'[job'.dir].json :
                     j.media = job'.media /\ j.capacity_sectors = job'.capacity
    <2>1. step = "info" /\ job.dir \in Dirs
      BY <1>8, JobFacts DEF FlashInfo, Advance, Inv
    <2>2. job' = [job EXCEPT !.capacity = Capacity[u][selected[u]]]
      BY <1>8 DEF FlashInfo
    <2>3. job.op = "restore" /\ job'.dir = job.dir /\ job'.media = job.media
          /\ job'.capacity = Capacity[u][selected[u]]
      <3>1. job \in [op : {"flash", "restore"}, dir : Dirs, board : Boards, media : Media,
                     capacity : Nat]
        BY <2>1 DEF Inv, TypeOK
      <3> QED  BY <2>2, <3>1
    <2>4. PICK j \in dir[job.dir].json : j.media = job.media
      BY <2>3 DEF Inv, RestoreInv
    <2>5. Saved = j
      BY <2>1, <2>4 DEF Inv, JsonInv, Saved
    <2>6. Capacity[u][selected[u]] = Saved.capacity_sectors
      BY <1>8, <2>3 DEF FlashInfo
    <2>7. dir'[job.dir].json = dir[job.dir].json
      <3>1. dir' = [dir EXCEPT ![job.dir].used = TRUE]
        BY <1>8 DEF FlashInfo
      <3>2. /\ job.dir \in DOMAIN dir
            /\ dir[job.dir] \in [used : BOOLEAN, origin : Seq(Places), data : Seq(Contents),
                                 table : SUBSET Tables, json : SUBSET BackupJsons]
        BY <2>1 DEF Inv, TypeOK, Directories
      <3> QED  BY <3>1, <3>2
    <2>8. step' \in {"rid", "write"}
      BY <1>8, <2>3 DEF FlashInfo, Advance
    <2> QED  BY <2>3, <2>4, <2>5, <2>6, <2>7, <2>8
  <1>9. CASE (\E u \in Units : Plug(u) \/ Unplug(u)) \/ UpdateRepo \/ UNCHANGED vars
    BY <1>4, <1>9 DEF Plug, Unplug, UpdateRepo, vars, Inv, RestoreInv
  <1>10. ASSUME NEW u \in Units, EnterLoader(u) \/ SelectStorage(u)
         PROVE  /\ step' \notin {"metadata", "backup", "partitions", "json"}
                /\ \E j \in dir'[job'.dir].json :
                      /\ j.media = job'.media
                      /\ step' \in AfterInfo => j.capacity_sectors = job'.capacity
    BY <1>5, <1>10 DEF Inv, RestoreInv, AfterInfo
  <1>11. ASSUME NEW u \in Units, JedecId(u) \/ Write(u) \/ BadWrite(u) \/ Readback(u)
         PROVE  /\ step' \notin {"metadata", "backup", "partitions", "json"}
                /\ \E j \in dir'[job'.dir].json :
                      /\ j.media = job'.media
                      /\ step' \in AfterInfo => j.capacity_sectors = job'.capacity
    BY <1>6, <1>11 DEF Inv, RestoreInv
  <1>12. ASSUME NEW d \in Dirs, StartRestore(d)
         PROVE  /\ step' \notin {"metadata", "backup", "partitions", "json"}
                /\ \E j \in dir'[job'.dir].json :
                      /\ j.media = job'.media
                      /\ step' \in AfterInfo => j.capacity_sectors = job'.capacity
    BY <1>1, <1>12 DEF AfterInfo
  <1>13. CASE \E u \in Units : Command(u)
    <2>1. PICK u \in Units : Command(u)
      BY <1>13
    <2>2. CASE FlashInfo(u)
      BY <1>8, <2>2
    <2> QED  BY <1>3, <1>7, <1>10, <1>11, <2>1, <2>2 DEF Command
  <1>14. ASSUME CheckPartitions \/ WriteJson \/ Abort PROVE FALSE
    <2>1. CASE Abort
      BY <2>1 DEF Abort, Die, NoJob
    <2>2. CASE CheckPartitions \/ WriteJson
      <3>1. job' = job /\ step \in {"partitions", "json"}
        BY <2>2 DEF CheckPartitions, WriteJson, Advance
      <3> QED  BY <3>1 DEF Inv, RestoreInv
    <2> QED  BY <1>14, <2>1, <2>2
  <1> QED
    BY <1>2, <1>9, <1>12, <1>13, <1>14 DEF Next

\* An installation: each command up to the write prepares the next.
LEMMA FlashStep == Inv /\ [Next]_vars => FlashInv'
  <1> SUFFICES ASSUME Inv, [Next]_vars, job'.op = "flash" PROVE FlashInv'
    BY DEF FlashInv
  <1>1. ASSUME NEW d \in Dirs, NEW b \in Boards, NEW m \in Media, StartFlash(d, b, m)
        PROVE  FlashInv'
    <2>1. step' = "enter" /\ job'.dir = d /\ dir'[d].json = dir[d].json /\ ~dir[d].used
      BY <1>1 DEF StartFlash, Start
    <2>2. dir[d].json = {}
      BY <2>1 DEF Inv, JsonInv
    <2> QED  BY <2>1, <2>2 DEF FlashInv, AfterInfo
  <1>2. ASSUME NEW d \in Dirs, StartRestore(d) PROVE FALSE
    BY <1>2 DEF StartRestore, Start
  <1>3. ASSUME NEW u \in Units, TornWrite(u) \/ Reset(u) \/ Abort PROVE FALSE
    BY <1>3, Ends DEF Inv
  <1>4. ASSUME NEW u \in Units, EnterLoader(u) \/ SelectStorage(u) PROVE FlashInv'
    <2>1. /\ UNCHANGED <<job, dir>> /\ step \in BeforeJson
          /\ step' \in {"select", "info"}
      BY <1>4 DEF EnterLoader, SelectStorage, Advance, BeforeJson
    <2> QED  BY <2>1 DEF Inv, FlashInv, AfterInfo
  <1>5. ASSUME NEW u \in Units, FlashInfo(u) PROVE FlashInv'
    <2>1. step = "info" /\ job.dir \in Dirs /\ build' = build
      BY <1>5, JobFacts DEF FlashInfo, Advance, Inv, repo
    <2>2. job' = [job EXCEPT !.capacity = Capacity[u][selected[u]]]
      BY <1>5 DEF FlashInfo
    <2>3. /\ job.op = "flash" /\ job'.dir = job.dir /\ job'.media = job.media
          /\ job'.board = job.board /\ job'.capacity = Capacity[u][selected[u]]
      <3>1. job \in [op : {"flash", "restore"}, dir : Dirs, board : Boards, media : Media,
                     capacity : Nat]
        BY <2>1 DEF Inv, TypeOK
      <3> QED  BY <2>2, <3>1
    <2>4. artifact' = artifact
      BY <2>1, <2>3 DEF artifact
    <2>5. WriteLba + Len(artifact) <= Capacity[u][selected[u]]
      BY <1>5, <2>3 DEF FlashInfo
    <2>6. dir'[job.dir].json = dir[job.dir].json /\ dir'[job.dir].used
      <3>1. dir' = [dir EXCEPT ![job.dir].used = TRUE]
        BY <1>5 DEF FlashInfo
      <3>2. /\ job.dir \in DOMAIN dir
            /\ dir[job.dir] \in [used : BOOLEAN, origin : Seq(Places), data : Seq(Contents),
                                 table : SUBSET Tables, json : SUBSET BackupJsons]
        BY <2>1 DEF Inv, TypeOK, Directories
      <3> QED  BY <3>1, <3>2
    <2>7. dir[job.dir].json = {}
      BY <2>1, <2>3 DEF Inv, FlashInv, BeforeJson
    <2>8. step' \in {"rid", "metadata"}
      BY <1>5, <2>3 DEF FlashInfo, Advance
    <2> QED  BY <2>3, <2>4, <2>5, <2>6, <2>7, <2>8 DEF FlashInv
  <1>6. ASSUME NEW u \in Units,
               JedecId(u) \/ ReadMetadata(u) \/ Write(u) \/ BadWrite(u) \/ Readback(u)
        PROVE  FlashInv'
    <2>1. /\ UNCHANGED <<job, build>> /\ step \in AfterInfo
          /\ step' \in {"backup", "readback", "reset"} \/ job.op /= "flash"
          /\ step' = "backup" => step \in {"rid", "metadata"}
      BY <1>6 DEF JedecId, ReadMetadata, Write, BadWrite, Readback, Advance, AfterInfo, repo
    <2>2. /\ dir'[job.dir].json = dir[job.dir].json
          /\ dir[job.dir].used => dir'[job.dir].used
      <3>1. CASE ReadMetadata(u)
        <4>1. /\ job.dir \in DOMAIN dir
              /\ dir[job.dir] \in [used : BOOLEAN, origin : Seq(Places), data : Seq(Contents),
                                   table : SUBSET Tables, json : SUBSET BackupJsons]
          BY <3>1, JobFacts DEF Inv, TypeOK, Directories, ReadMetadata, Advance
        <4>2. dir' = [dir EXCEPT ![job.dir].table = {table[u]}]
          BY <3>1 DEF ReadMetadata
        <4> QED  BY <4>1, <4>2
      <3> QED  BY <1>6, <3>1 DEF JedecId, Write, BadWrite, Readback
    <2>3. artifact' = artifact
      BY <2>1 DEF artifact
    <2> QED  BY <2>1, <2>2, <2>3 DEF Inv, FlashInv, BeforeJson
  <1>7. ASSUME NEW u \in Units, Backup(u) PROVE FlashInv'
    <2> DEFINE places == Sectors(u, job.media, FirstLba(job.media), BackupSectors)
    <2>1. /\ step = "backup" /\ UNCHANGED <<job, build, store>>
          /\ step' \in {"partitions", "json"} /\ mode[u] = "loader"
      BY <1>7 DEF Backup, Advance, repo, Target
    <2>2. selected[u] = job.media /\ Capacity[u][job.media] = job.capacity
      BY <2>1 DEF Inv, LoaderInv, AfterSelect, AfterInfo
    <2>3. BackupFirstLba = FirstLba(job.media)
      BY DEF BackupFirstLba, FirstLba
    <2>4. dir' = [dir EXCEPT ![job.dir].origin = places, ![job.dir].data = Contained(places)]
      BY <1>7, <2>2, <2>3 DEF Backup
    <2>5. /\ job.dir \in DOMAIN dir
          /\ dir[job.dir] \in [used : BOOLEAN, origin : Seq(Places), data : Seq(Contents),
                               table : SUBSET Tables, json : SUBSET BackupJsons]
      BY <1>7, BackupFacts DEF Inv, TypeOK, Directories
    <2> HIDE DEF places
    <2>6. /\ dir'[job.dir].origin = places /\ dir'[job.dir].data = Contained(places)
          /\ dir'[job.dir].json = dir[job.dir].json /\ dir'[job.dir].used = dir[job.dir].used
      BY <2>4, <2>5
    <2>7. /\ dir[job.dir].json = {} /\ dir[job.dir].used
          /\ WriteLba + Len(artifact) <= job.capacity
      BY <1>7, BackupFacts
    <2>8. artifact' = artifact /\ BackupSectors' = BackupSectors
      BY <2>1 DEF artifact, BackupSectors
    <2>9. Contained(places)' = Contained(places)
      BY <2>1, <2>8 DEF Contained, places
    <2> QED
      BY <2>1, <2>2, <2>6, <2>7, <2>8, <2>9 DEF FlashInv, places
  <1>8. CASE CheckPartitions
    <2>1. /\ step = "partitions" /\ step' = "json" /\ UNCHANGED <<job, build, store, dir>>
      BY <1>8 DEF CheckPartitions, Advance, repo
    <2>2. artifact' = artifact /\ BackupSectors' = BackupSectors
      BY <2>1 DEF artifact, BackupSectors
    <2>3. Contained(dir[job.dir].origin)' = Contained(dir[job.dir].origin)
      BY <2>1 DEF Contained
    <2> QED
      BY <2>1, <2>2, <2>3 DEF Inv, FlashInv, AfterInfo, BeforeJson
  <1>9. CASE WriteJson
    <2>1. /\ step = "json" /\ step' = "write" /\ UNCHANGED <<job, build>>
      BY <1>9 DEF WriteJson, Advance, repo
    <2>2. artifact' = artifact
      BY <2>1 DEF artifact
    <2>3. dir'[job.dir].json = {BackupJson} /\ dir'[job.dir].used
      BY <1>9, WriteJsonFacts
    <2>4. /\ BackupJson.media = job.media /\ BackupJson.capacity_sectors = job.capacity
          /\ BackupJson.installed_sectors = Len(artifact)
      BY DEF BackupJson
    <2>5. WriteLba + Len(artifact) <= job.capacity
      BY <1>9, BackupFacts
    <2> HIDE DEF BackupJson
    <2> QED
      BY <2>1, <2>2, <2>3, <2>4, <2>5 DEF FlashInv, BeforeJson
  <1>10. ASSUME UNCHANGED <<job, dir, step, build, store>> PROVE FlashInv'
    <2>1. artifact' = artifact /\ BackupSectors' = BackupSectors
      BY <1>10 DEF artifact, BackupSectors
    <2>2. Contained(dir[job.dir].origin)' = Contained(dir[job.dir].origin)
      BY <1>10 DEF Contained
    <2> QED
      BY <1>10, <2>1, <2>2 DEF Inv, FlashInv
  <1>11. CASE (\E u \in Units : Plug(u) \/ Unplug(u)) \/ UNCHANGED vars
    BY <1>10, <1>11 DEF Plug, Unplug, vars, repo
  <1>12. CASE UpdateRepo
    BY <1>12 DEF UpdateRepo, Inv, TypeOK, NoJob
  <1>13. CASE Abort
    BY <1>13 DEF Abort, Die, NoJob
  <1>14. CASE \E u \in Units : Command(u)
    <2>1. PICK u \in Units : Command(u)
      BY <1>14
    <2>2. CASE FlashInfo(u)
      BY <1>5, <2>2
    <2>3. CASE Backup(u)
      BY <1>7, <2>3
    <2> QED  BY <1>3, <1>4, <1>6, <2>1, <2>2, <2>3 DEF Command
  <1> QED
    BY <1>1, <1>2, <1>8, <1>9, <1>11, <1>12, <1>13, <1>14 DEF Next

\* The invariant the theorems rest on, for any number of boards, directories,
\* runs and failures.
THEOREM InstallerInvariant == Spec => []Inv
  <1>1. Inv /\ [Next]_vars => Inv'
    BY TypeStep, LoaderStep, JsonStep, RestoreStep, FlashStep DEF Inv
  <1> QED  BY <1>1, InitInv, PTL DEF Spec

\* The values the variables can have (TypeOK).
THEOREM InstallerTypeSafe == Spec => []TypeOK
  <1>1. Inv => TypeOK
    BY DEF Inv
  <1> QED  BY <1>1, InstallerInvariant, PTL

------------------------------------------------------------------------------
\* What the backup of a directory holds, it holds for the promise.
LEMMA SavedBlocksFacts ==
  ASSUME NEW x
  PROVE  x \in SavedBlocks <=>
            \E d \in Dirs : /\ dir[d].json /= {}
                           /\ \E i \in DOMAIN dir[d].origin :
                                 x = <<dir[d].origin[i], dir[d].data[i]>>
  BY DEF SavedBlocks

\* Where the write of a restoration goes: where its blocks were read from.
LEMMA RestoreDestination ==
  ASSUME Inv, DistinctSizes, step = "write", job.op = "restore", NEW v \in Units, Target(v)
  PROVE  /\ job.dir \in Dirs /\ dir[job.dir].json /= {}
         /\ Destination(v) = dir[job.dir].origin /\ Payload = dir[job.dir].data
  <1>1. job.dir \in Dirs /\ job.media \in Media
    BY JobFacts DEF Inv
  <1>2. PICK j \in dir[job.dir].json : j.media = job.media /\ j.capacity_sectors = job.capacity
    BY DEF Inv, RestoreInv, AfterInfo
  <1>3. PICK u \in Units :
           /\ j.capacity_sectors = Capacity[u][j.media]
           /\ dir[job.dir].origin = Sectors(u, j.media, FirstLba(j.media), j.backup_sectors)
    BY <1>1, <1>2 DEF Inv, JsonInv
  <1>4. selected[v] = job.media /\ Capacity[v][job.media] = job.capacity
    BY DEF Inv, LoaderInv, Target, AfterSelect, AfterInfo
  <1>5. u = v
    BY <1>1, <1>2, <1>3, <1>4 DEF DistinctSizes
  <1>6. j.backup_sectors \in Nat /\ Len(dir[job.dir].origin) = Len(dir[job.dir].data)
    BY <1>1, <1>2 DEF Inv, TypeOK, Directories, BackupJsons
  <1>7. Len(dir[job.dir].data) = j.backup_sectors
    BY <1>3, <1>6, SectorsFacts
  <1>8. Payload = dir[job.dir].data /\ PayloadLba = FirstLba(job.media)
    BY DEF Payload, PayloadLba, BackupFirstLba, FirstLba
  <1> QED
    BY <1>1, <1>2, <1>3, <1>4, <1>5, <1>7, <1>8 DEF Destination

\* Where the write of an installation goes: into the sectors of its backup.
LEMMA FlashDestination ==
  ASSUME Inv, DistinctSizes, step = "write", job.op = "flash", NEW v \in Units, Target(v),
         NEW i \in DOMAIN Payload
  PROVE  /\ job.dir \in Dirs /\ dir[job.dir].json /= {}
         /\ \E k \in DOMAIN dir[job.dir].origin : dir[job.dir].origin[k] = Destination(v)[i]
  <1>1. job.dir \in Dirs /\ job.media \in Media
    BY JobFacts DEF Inv
  <1>2. PICK j \in dir[job.dir].json :
           /\ j.media = job.media /\ j.capacity_sectors = job.capacity
           /\ j.installed_sectors = Len(artifact)
    BY DEF Inv, FlashInv
  <1>3. PICK u \in Units :
           /\ j.capacity_sectors = Capacity[u][j.media]
           /\ dir[job.dir].origin = Sectors(u, j.media, FirstLba(j.media), j.backup_sectors)
    BY <1>1, <1>2 DEF Inv, JsonInv
  <1>4. selected[v] = job.media /\ Capacity[v][job.media] = job.capacity
    BY DEF Inv, LoaderInv, Target, AfterSelect, AfterInfo
  <1>5. u = v
    BY <1>1, <1>2, <1>3, <1>4 DEF DistinctSizes
  <1>6. /\ j.media = "emmc" => j.backup_sectors = j.installed_sectors
        /\ j.media = "spi-nor" => j.backup_sectors = j.capacity_sectors
        /\ j.backup_sectors \in Nat
    BY <1>1, <1>2 DEF Inv, JsonInv, TypeOK, Directories, BackupJsons
  <1>7. /\ artifact \in Seq(Contents) /\ Len(artifact) \in Nat
        /\ WriteLba + Len(artifact) <= job.capacity /\ job.capacity \in Nat
    BY ArtifactFacts, JobFacts DEF Inv, FlashInv, AfterInfo
  <1>8. Payload = artifact /\ PayloadLba = WriteLba
    BY DEF Payload, PayloadLba
  <1>9. i \in 1..Len(artifact) /\ i \in Nat
    BY <1>7, <1>8
  <1>10. Destination(v)[i] = <<v, job.media, WriteLba + i - 1>>
    BY <1>4, <1>7, <1>8, <1>9, SectorsFacts DEF Destination
  <1>11. /\ DOMAIN dir[job.dir].origin = 1..j.backup_sectors
         /\ \A k \in 1..j.backup_sectors :
               dir[job.dir].origin[k] = <<v, job.media, FirstLba(job.media) + k - 1>>
    BY <1>2, <1>3, <1>5, <1>6, SectorsFacts
  <1>12. CASE job.media = "emmc"
    <2>1. i \in 1..j.backup_sectors /\ FirstLba(job.media) = WriteLba
      BY <1>2, <1>6, <1>9, <1>12 DEF FirstLba
    <2> QED  BY <1>1, <1>2, <1>10, <1>11, <2>1
  <1>13. CASE job.media = "spi-nor"
    <2>1. WriteLba + i \in 1..j.backup_sectors /\ FirstLba(job.media) = 0
      BY <1>2, <1>6, <1>7, <1>9, <1>13, WriteLbaAssumption DEF FirstLba
    <2>2. 0 + (WriteLba + i) - 1 = WriteLba + i - 1
      BY <1>9, WriteLbaAssumption
    <2> QED  BY <1>1, <1>2, <1>10, <1>11, <2>1, <2>2
  <1> QED  BY <1>1, <1>12, <1>13 DEF Media

\* What a write changes: only places of its destination, to blocks of its
\* payload or to junk.
LEMMA WriteFacts ==
  ASSUME Inv, NEW v \in Units, Write(v) \/ BadWrite(v) \/ TornWrite(v)
  PROVE  /\ step = "write" /\ Target(v) /\ UNCHANGED dir
         /\ store' \in [Places -> Contents]
         /\ \A p \in Places : store'[p] /= store[p] =>
               \E i \in DOMAIN Payload :
                  Destination(v)[i] = p /\ store'[p] \in {Payload[i], Junk}
  <1>1. step = "write" /\ Target(v) /\ UNCHANGED dir
    BY DEF Write, BadWrite, TornWrite, Advance, Die
  <1>2. Payload \in Seq(Contents) /\ store \in [Places -> Contents]
    BY <1>1, JobFacts DEF Inv, TypeOK
  <1>3. PICK good \in SUBSET DOMAIN Payload, bad \in SUBSET DOMAIN Payload :
           store' = Written(Destination(v), Payload, good, bad)
    <2>1. \A n \in 0..(Len(Payload) - 1) :
             1..n \in SUBSET DOMAIN Payload /\ SUBSET {n + 1} \subseteq SUBSET DOMAIN Payload
      BY <1>2
    <2>2. CASE Write(v)
      BY <2>2 DEF Write
    <2>3. CASE BadWrite(v)
      BY <2>3 DEF BadWrite
    <2>4. CASE TornWrite(v)
      BY <2>1, <2>4 DEF TornWrite
    <2> QED  BY <2>2, <2>3, <2>4
  <1>4. /\ store' \in [Places -> Contents]
        /\ \A p \in Places : store'[p] /= store[p] =>
              \E i \in DOMAIN Payload :
                 Destination(v)[i] = p /\ store'[p] \in {Payload[i], Junk}
    <2>1. good \in SUBSET DOMAIN Payload /\ bad \in SUBSET DOMAIN Payload
      BY <1>3
    <2>2. store' \in [Places -> Contents]
      BY <1>2, <1>3, WrittenType
    <2>3. ASSUME NEW p \in Places, store'[p] /= store[p]
          PROVE  \E i \in DOMAIN Payload :
                    Destination(v)[i] = p /\ store'[p] \in {Payload[i], Junk}
      BY <1>3, <2>1, <2>3, WrittenChanges
    <2> QED  BY <2>2, <2>3
  <1> QED  BY <1>1, <1>4

\* A write keeps the promise.
LEMMA WritePromise ==
  ASSUME Inv, DistinctSizes, NEW v \in Units, Write(v) \/ BadWrite(v) \/ TornWrite(v)
  PROVE  Promise!Change
  <1>1. SavedBlocks' = SavedBlocks
    BY WriteFacts DEF SavedBlocks
  <1>2. ASSUME NEW p \in Places, store'[p] /= store[p]
        PROVE  \E c \in Contents : <<p, c>> \in SavedBlocks
    <2>1. PICK i \in DOMAIN Payload : Destination(v)[i] = p
      BY <1>2, WriteFacts
    <2>2. step = "write" /\ Target(v) /\ job.op \in {"flash", "restore"}
      BY WriteFacts, JobFacts DEF Inv
    <2>3. /\ job.dir \in Dirs
          /\ dir[job.dir].origin \in Seq(Places) /\ dir[job.dir].data \in Seq(Contents)
          /\ Len(dir[job.dir].origin) = Len(dir[job.dir].data)
      BY <2>2, JobFacts DEF Inv, TypeOK, Directories
    <2>4. /\ dir[job.dir].json /= {}
          /\ \E k \in DOMAIN dir[job.dir].origin : dir[job.dir].origin[k] = p
      BY <2>1, <2>2, <2>3, FlashDestination, RestoreDestination
    <2> QED  BY <2>3, <2>4, SavedBlocksFacts
  <1> QED  BY <1>1, <1>2, WriteFacts DEF Promise!Change

\* A finished backup holds what is in its sectors.
LEMMA JsonPromise ==
  ASSUME Inv, WriteJson
  PROVE  Promise!Save
  <1>1. step = "json" /\ UNCHANGED store
    BY DEF WriteJson, Advance
  <1>2. /\ job.dir \in Dirs /\ dir[job.dir].json = {}
        /\ dir[job.dir].data = Contained(dir[job.dir].origin)
    BY <1>1, BackupFacts DEF Inv, FlashInv
  <1>3. dir[job.dir].origin \in Seq(Places)
    BY <1>2 DEF Inv, TypeOK, Directories
  <1>4. \A i \in DOMAIN dir[job.dir].origin :
           /\ dir[job.dir].origin[i] \in Places
           /\ dir[job.dir].data[i] = store[dir[job.dir].origin[i]]
    BY <1>2, <1>3 DEF Contained
  <1>5. \A d \in Dirs : d /= job.dir => dir'[d] = dir[d]
    BY DEF WriteJson, Inv, TypeOK
  <1>6. /\ dir'[job.dir].origin = dir[job.dir].origin
        /\ dir'[job.dir].data = dir[job.dir].data
    BY WriteJsonFacts
  <1>7. ASSUME NEW x \in SavedBlocks PROVE x \in SavedBlocks'
    <2>1. PICK d \in Dirs : /\ dir[d].json /= {}
                            /\ \E i \in DOMAIN dir[d].origin :
                                  x = <<dir[d].origin[i], dir[d].data[i]>>
      BY <1>7, SavedBlocksFacts
    <2>2. dir'[d] = dir[d]
      BY <1>2, <1>5, <2>1
    <2> QED  BY <2>1, <2>2 DEF SavedBlocks
  <1>8. ASSUME NEW x \in SavedBlocks', x \notin SavedBlocks
        PROVE  x \in {<<p, store[p]>> : p \in Places}
    <2>1. PICK d \in Dirs : /\ dir'[d].json /= {}
                            /\ \E i \in DOMAIN dir'[d].origin :
                                  x = <<dir'[d].origin[i], dir'[d].data[i]>>
      BY <1>8 DEF SavedBlocks
    <2>2. CASE d = job.dir
      BY <1>4, <1>6, <2>1, <2>2
    <2>3. CASE d /= job.dir
      <3>1. dir'[d] = dir[d]
        BY <1>5, <2>3
      <3> QED  BY <1>8, <2>1, <3>1, SavedBlocksFacts
    <2> QED  BY <2>2, <2>3
  <1> QED  BY <1>1, <1>7, <1>8 DEF Promise!Save

\* A backup that has no backup.json yet promises nothing.
LEMMA BackupPromise ==
  ASSUME Inv, NEW u \in Units, Backup(u)
  PROVE  UNCHANGED <<store, SavedBlocks>>
  <1>1. \A d \in Dirs : d /= job.dir => dir'[d] = dir[d]
    BY DEF Backup, Inv, TypeOK
  <1>2. job.dir \in Dirs /\ dir[job.dir].json = {}
    BY BackupFacts
  <1>3. dir'[job.dir].json = {}
    <2>1. /\ job.dir \in DOMAIN dir
          /\ dir[job.dir] \in [used : BOOLEAN, origin : Seq(Places), data : Seq(Contents),
                               table : SUBSET Tables, json : SUBSET BackupJsons]
      BY <1>2 DEF Inv, TypeOK, Directories
    <2> QED  BY <1>2, <2>1 DEF Backup
  <1>4. {d \in Dirs : dir[d].json /= {}} = {d \in Dirs : dir'[d].json /= {}}
    BY <1>1, <1>2, <1>3
  <1>5. \A d \in {e \in Dirs : dir[e].json /= {}} : dir'[d] = dir[d]
    BY <1>1, <1>2
  <1>6. \A x : x \in SavedBlocks <=> x \in SavedBlocks'
    BY <1>4, <1>5 DEF SavedBlocks
  <1> QED  BY <1>6 DEF Backup

\* Every step of the installer is a step of the promise.
LEMMA PromiseStep ==
  ASSUME DistinctSizes
  PROVE  Inv /\ [Next]_vars => [Promise!Next]_(Promise!vars)
  <1> SUFFICES ASSUME Inv, [Next]_vars
               PROVE  Promise!Next \/ UNCHANGED <<store, SavedBlocks>>
    BY DEF Promise!vars
  <1>1. ASSUME NEW v \in Units, Write(v) \/ BadWrite(v) \/ TornWrite(v)
        PROVE  Promise!Next
    BY <1>1, WritePromise DEF Promise!Next
  <1>2. CASE WriteJson
    BY <1>2, JsonPromise DEF Promise!Next
  <1>3. ASSUME NEW u \in Units, Backup(u) PROVE UNCHANGED <<store, SavedBlocks>>
    BY <1>3, BackupPromise
  <1>4. CASE UNCHANGED vars
    BY <1>4 DEF vars, SavedBlocks
  <1>5. ASSUME Next, ~\E u \in Units : Backup(u), ~WriteJson PROVE UNCHANGED SavedBlocks
    <2>1. \A d \in Dirs : /\ dir'[d].json = dir[d].json /\ dir'[d].origin = dir[d].origin
                          /\ dir'[d].data = dir[d].data
      BY <1>5, FilesKept
    <2>2. \A x : x \in SavedBlocks <=> x \in SavedBlocks'
      BY <2>1 DEF SavedBlocks
    <2> QED  BY <2>2
  <1>6. ASSUME NEW u \in Units, Command(u),
               ~Write(u), ~BadWrite(u), ~TornWrite(u)
        PROVE  UNCHANGED store
    BY <1>6 DEF Command, EnterLoader, SelectStorage, FlashInfo, JedecId, ReadMetadata, Backup,
                Readback, Reset
  <1>7. ASSUME NEW u \in Units, Plug(u) \/ Unplug(u) PROVE UNCHANGED store
    BY <1>7 DEF Plug, Unplug
  <1>8. CASE CheckPartitions \/ Abort \/ UpdateRepo
    <2>1. CASE CheckPartitions \/ UpdateRepo
      BY <2>1 DEF CheckPartitions, UpdateRepo, SavedBlocks
    <2>2. CASE Abort
      <3>1. step' = "idle" /\ UNCHANGED store
        BY <2>2 DEF Abort, Die
      <3>2. ~WriteJson /\ ~\E u \in Units : Backup(u)
        BY <3>1 DEF WriteJson, Backup, Advance
      <3> QED  BY <1>5, <2>2, <3>1, <3>2 DEF Next
    <2> QED  BY <1>8, <2>1, <2>2
  <1>9. CASE \/ \E d \in Dirs : StartRestore(d)
            \/ \E d \in Dirs, b \in Boards, m \in Media : StartFlash(d, b, m)
    <2>1. UNCHANGED <<store, dir>>
      BY <1>9 DEF StartRestore, StartFlash, Start
    <2> QED  BY <2>1 DEF SavedBlocks
  <1>10. ASSUME NEW u \in Units, Command(u) \/ Plug(u) \/ Unplug(u)
         PROVE  Promise!Next \/ UNCHANGED <<store, SavedBlocks>>
    <2>1. Next
      BY <1>10 DEF Next
    <2>2. CASE WriteJson \/ (\E w \in Units : Backup(w))
      BY <1>2, <1>3, <2>2
    <2>3. CASE Write(u) \/ BadWrite(u) \/ TornWrite(u)
      BY <1>1, <2>3
    <2>4. CASE /\ ~Write(u) /\ ~BadWrite(u) /\ ~TornWrite(u)
               /\ ~WriteJson /\ ~\E w \in Units : Backup(w)
      BY <1>5, <1>6, <1>7, <1>10, <2>1, <2>4
    <2> QED  BY <2>2, <2>3, <2>4
  <1> QED
    BY <1>2, <1>4, <1>8, <1>9, <1>10 DEF Next

\* The installer implements the promise: whatever is unplugged, killed or
\* fails, nothing is overwritten before it is in a complete backup.
THEOREM InstallerBacksUpFirst ==
  ASSUME DistinctSizes
  PROVE  Spec => ImplementsBackupFirst
  <1>1. Init => Promise!Init
    <2> SUFFICES ASSUME Init PROVE Promise!Init
      OBVIOUS
    <2>1. \A d \in Dirs : dir[d].json = {}
      BY DEF Init, Empty
    <2> QED  BY <2>1 DEF Init, Promise!Init, SavedBlocks
  <1>2. Inv /\ [Next]_vars => [Promise!Next]_(Promise!vars)
    BY PromiseStep
  <1> QED
    BY <1>1, <1>2, InstallerInvariant, PTL DEF Spec, ImplementsBackupFirst, Promise!Spec

\* A sector that any backup holds, some backup holds as it was at first.
FirstSaved ==
    \A p \in Places : (\E c : <<p, c>> \in SavedBlocks) => <<p, Factory[p]>> \in SavedBlocks

LEMMA BackupFirstStep ==
  ASSUME Recoverable, FirstSaved, [Promise!Next]_(Promise!vars)
  PROVE  Recoverable' /\ FirstSaved'
<1> USE DEF Recoverable, Promise!Recoverable, FirstSaved
<1>1. CASE Promise!Save
  <2>1. ASSUME NEW p \in Places, NEW c, <<p, c>> \in SavedBlocks'
        PROVE  <<p, Factory[p]>> \in SavedBlocks'
    <3>1. <<p, c>> \in SavedBlocks \/ c = store[p]
      BY <1>1, <2>1 DEF Promise!Save
    <3> QED
      BY <1>1, <2>1, <3>1 DEF Promise!Save
  <2> QED
    BY <1>1, <2>1 DEF Promise!Save
<1>2. CASE Promise!Change
  BY <1>2 DEF Promise!Change
<1>3. CASE UNCHANGED Promise!vars
  BY <1>3 DEF Promise!vars
<1> QED
  BY <1>1, <1>2, <1>3 DEF Promise!Next

\* Who saves what it overwrites can always go back to the beginning.
THEOREM BackupFirstRecovers == Promise!Spec => []Recoverable
<1>1. Promise!Init => Recoverable /\ FirstSaved
  BY DEF Promise!Init, Recoverable, Promise!Recoverable, FirstSaved
<1> QED
  BY <1>1, BackupFirstStep, PTL DEF Promise!Spec

\* So the first content of every sector can always be had back.
THEOREM AlwaysRecoverable ==
  ASSUME DistinctSizes
  PROVE  Spec => []Recoverable
  BY InstallerBacksUpFirst, BackupFirstRecovers, PTL DEF ImplementsBackupFirst

\* A restoration puts every block back where it was read from.
THEOREM RestoredInPlace ==
  ASSUME DistinctSizes
  PROVE  Spec => RestoresInPlace
  <1> DEFINE InPlace ==
        \A p \in Places : job.op = "restore" /\ store'[p] /= store[p] =>
            \E i \in DOMAIN dir[job.dir].origin :
                dir[job.dir].origin[i] = p /\ store'[p] \in {dir[job.dir].data[i], Junk}
  <1>1. Inv /\ [Next]_vars => [InPlace]_vars
    <2> SUFFICES ASSUME Inv, [Next]_vars, NEW p \in Places, job.op = "restore",
                        store'[p] /= store[p]
                 PROVE  \E i \in DOMAIN dir[job.dir].origin :
                           /\ dir[job.dir].origin[i] = p
                           /\ store'[p] \in {dir[job.dir].data[i], Junk}
      OBVIOUS
    <2>1. PICK v \in Units : Write(v) \/ BadWrite(v) \/ TornWrite(v)
      <3>1. ~UNCHANGED store
        OBVIOUS
      <3> QED
        BY <3>1 DEF Next, vars, Command, EnterLoader, SelectStorage, FlashInfo, JedecId,
                    ReadMetadata, Backup, Readback, Reset, Plug, Unplug, CheckPartitions,
                    WriteJson, Abort, UpdateRepo, StartRestore, StartFlash, Start
    <2>2. PICK i \in DOMAIN Payload :
             Destination(v)[i] = p /\ store'[p] \in {Payload[i], Junk}
      BY <2>1, WriteFacts
    <2>3. /\ Destination(v) = dir[job.dir].origin /\ Payload = dir[job.dir].data
          /\ job.dir \in Dirs
      BY <2>1, WriteFacts, RestoreDestination
    <2>4. DOMAIN dir[job.dir].data = DOMAIN dir[job.dir].origin
      BY <2>3 DEF Inv, TypeOK, Directories
    <2> QED  BY <2>2, <2>3, <2>4
  <1> QED
    BY <1>1, InstallerInvariant, PTL DEF Spec, RestoresInPlace

\* What the documentation promises of two boards is true when their memories differ in size, which is
\* all that installer.sh compares: a backup of one of them is restored to that one and no other.  The
\* run swapped_boards shows two boards of the same size.
THEOREM RestoredToOwnBoard ==
  ASSUME DistinctSizes
  PROVE  Spec => RestoresOwnBoard
  <1> DEFINE InPlace ==
        \A p \in Places : job.op = "restore" /\ store'[p] /= store[p] =>
            \E i \in DOMAIN dir[job.dir].origin :
                dir[job.dir].origin[i] = p /\ store'[p] \in {dir[job.dir].data[i], Junk}
             Own ==
        \A p \in Places :
          LET backup == dir[job.dir]
          IN  job.op = "restore" /\ store'[p] /= store[p]
                 /\ (\A i \in DOMAIN backup.origin : backup.origin[i][1] = job.board)
              => p[1] = job.board
  <1>1. InPlace => Own
    OBVIOUS
  <1>2. Spec => [][InPlace]_vars
    BY RestoredInPlace DEF RestoresInPlace
  <1>3. RestoresOwnBoard <=> [][Own]_vars
    BY DEF RestoresOwnBoard
  <1> HIDE DEF InPlace, Own
  <1> QED
    BY <1>1, <1>2, <1>3, PTL

------------------------------------------------------------------------------
\* When the readback has been compared, some board holds what was to be written.
VerifiedInv ==
    step = "reset" =>
        \E u \in Units : \A i \in DOMAIN Payload :
            store[<<u, job.media, PayloadLba + i - 1>>] = Payload[i]

LEMMA VerifiedStep == Inv /\ VerifiedInv /\ [Next]_vars => VerifiedInv'
  <1> SUFFICES ASSUME Inv, VerifiedInv, [Next]_vars, step' = "reset" PROVE VerifiedInv'
    BY DEF VerifiedInv
  <1>1. CASE UNCHANGED <<store, dir, step, job, repo>>
    <2>1. Payload' = Payload /\ PayloadLba' = PayloadLba
      BY <1>1 DEF Payload, PayloadLba, BackupFirstLba, artifact, repo
    <2> QED  BY <1>1, <2>1 DEF VerifiedInv
  <1>2. ASSUME NEW u \in Units, Readback(u) PROVE VerifiedInv'
    <2>1. /\ step = "readback" /\ mode[u] = "loader" /\ Contained(Destination(u)) = Payload
          /\ UNCHANGED <<store, dir, job, repo>>
      BY <1>2 DEF Readback, Advance, Target
    <2>2. selected[u] = job.media
      BY <2>1 DEF Inv, LoaderInv, AfterSelect, AfterInfo
    <2>3. Payload' = Payload /\ PayloadLba' = PayloadLba
      BY <2>1 DEF Payload, PayloadLba, BackupFirstLba, artifact, repo
    <2>4. Payload \in Seq(Contents)
      BY <2>1, JobFacts DEF Inv
    <2>5. ASSUME NEW i \in DOMAIN Payload
          PROVE  store[<<u, job.media, PayloadLba + i - 1>>] = Payload[i]
      <3>1. Destination(u)[i] = <<u, job.media, PayloadLba + i - 1>> /\ i \in DOMAIN Destination(u)
        BY <2>2, <2>4, SectorsFacts DEF Destination
      <3>2. Contained(Destination(u))[i] = store[Destination(u)[i]]
        BY <3>1 DEF Contained
      <3> QED  BY <2>1, <3>1, <3>2
    <2> QED  BY <2>1, <2>3, <2>5 DEF VerifiedInv
  <1>3. ASSUME NEW u \in Units, Plug(u) \/ Unplug(u) PROVE UNCHANGED <<store, dir, step, job, repo>>
    BY <1>3 DEF Plug, Unplug
  <1>4. CASE UNCHANGED vars
    BY <1>1, <1>4 DEF vars
  <1>5. CASE UpdateRepo
    BY <1>5 DEF UpdateRepo
  <1>6. CASE \/ \E d \in Dirs : StartRestore(d)
             \/ \E d \in Dirs, b \in Boards, m \in Media : StartFlash(d, b, m)
             \/ CheckPartitions \/ WriteJson \/ Abort
    BY <1>6 DEF StartRestore, StartFlash, Start, CheckPartitions, WriteJson, Abort, Die, Advance
  <1>7. ASSUME NEW u \in Units, Command(u), ~Readback(u) PROVE FALSE
    BY <1>7 DEF Command, EnterLoader, SelectStorage, FlashInfo, JedecId, ReadMetadata, Backup,
                Write, BadWrite, TornWrite, Reset, Advance, Die
  <1> QED
    BY <1>1, <1>2, <1>3, <1>4, <1>5, <1>6, <1>7 DEF Next

\* Success is only reported of media that were read back and found equal, also
\* when the board was exchanged during the script.
THEOREM ReportsAreVerified == Spec => ReportsVerified
  <1>1. Init => VerifiedInv
    BY DEF Init, VerifiedInv
  <1>2. Inv /\ VerifiedInv =>
            (step = "reset" /\ said' \in {"installed", "restored"} =>
               \E u \in Units : \A i \in DOMAIN Payload :
                  store[<<u, job.media, PayloadLba + i - 1>>] = Payload[i])
    BY DEF VerifiedInv
  <1> QED
    BY <1>1, <1>2, VerifiedStep, InstallerInvariant, PTL DEF Spec, ReportsVerified

------------------------------------------------------------------------------
\* What backup.json says of the blocks beside it.
BackupInv(d) ==
    \A j \in dir[d].json :
        /\ j.installed_sectors > 0 /\ j.write_lba = WriteLba
        /\ WriteLba + j.installed_sectors <= j.capacity_sectors
        /\ Len(dir[d].data) = j.backup_sectors
        /\ dir[d].data = j.backup

BackupsInv == \A d \in Dirs : BackupInv(d)

LEMMA BackupStep == Inv /\ BackupsInv /\ [Next]_vars => BackupsInv'
  <1> SUFFICES ASSUME Inv, \A d \in Dirs : BackupInv(d), [Next]_vars, NEW d \in Dirs
               PROVE  BackupInv(d)'
    BY DEF BackupsInv
  <1>1. CASE dir'[d].json = dir[d].json /\ dir'[d].data = dir[d].data
    BY <1>1 DEF BackupInv
  <1>2. ASSUME NEW u \in Units, Backup(u), d = job.dir PROVE BackupInv(d)'
    <2>1. dir[d].json = {} /\ d \in DOMAIN dir
      BY <1>2, BackupFacts DEF Inv, TypeOK
    <2>2. dir[d] \in [used : BOOLEAN, origin : Seq(Places), data : Seq(Contents),
                      table : SUBSET Tables, json : SUBSET BackupJsons]
      BY DEF Inv, TypeOK, Directories
    <2>3. dir'[d].json = dir[d].json
      BY <1>2, <2>1, <2>2 DEF Backup
    <2> QED  BY <2>1, <2>3 DEF BackupInv
  <1>3. CASE WriteJson /\ d = job.dir
    <2>1. step = "json" /\ job.op = "flash" /\ WriteLba + Len(artifact) <= job.capacity
      BY <1>3, BackupFacts DEF WriteJson, Advance
    <2>2. Len(artifact) \in Nat \ {0} /\ BackupSectors \in Nat
      BY <2>1, ArtifactFacts, JobFacts DEF Inv
    <2>3. PICK u \in Units :
             dir[d].origin = Sectors(u, job.media, FirstLba(job.media), BackupSectors)
      BY <1>3, <2>1 DEF Inv, FlashInv
    <2>4. Len(dir[d].data) = BackupSectors
      <3>1. Len(dir[d].origin) = Len(dir[d].data)
        BY DEF Inv, TypeOK, Directories
      <3> QED  BY <2>2, <2>3, <3>1, SectorsFacts
    <2>5. dir'[d].json = {BackupJson} /\ dir'[d].data = dir[d].data
      BY <1>3, WriteJsonFacts
    <2>6. /\ BackupJson.installed_sectors = Len(artifact) /\ BackupJson.write_lba = WriteLba
          /\ BackupJson.capacity_sectors = job.capacity
          /\ BackupJson.backup_sectors = BackupSectors /\ BackupJson.backup = dir[d].data
      BY <1>3 DEF BackupJson
    <2> HIDE DEF BackupJson
    <2> QED  BY <2>1, <2>2, <2>4, <2>5, <2>6 DEF BackupInv
  <1>4. ASSUME NEW u \in Units, Backup(u) \/ WriteJson, d /= job.dir PROVE BackupInv(d)'
    BY <1>1, <1>4, BackupKeeps
  <1>5. CASE WriteJson /\ d /= job.dir
    BY <1>1, <1>5 DEF WriteJson, Inv, TypeOK
  <1>6. CASE UNCHANGED vars
    BY <1>1, <1>6 DEF vars
  <1> QED
    BY <1>1, <1>2, <1>3, <1>4, <1>5, <1>6, FilesKept

\* Every backup whose backup.json is complete can be restored, as long as the
\* manifests are the same, and only to the kind of medium it was read from.
THEOREM BackupsAreRestorable == Spec => []BackupsRestorable
  <1>1. Init => BackupsInv
    BY DEF Init, Empty, BackupsInv, BackupInv
  <1>2. Inv /\ BackupsInv => BackupsRestorable
    <2> SUFFICES ASSUME Inv, \A d \in Dirs : BackupInv(d), NEW d \in Dirs, NEW j \in dir[d].json,
                        j.manifest = <<j.board, manifest>>
                 PROVE  /\ RestoreAccepts(d)
                        /\ \A i \in DOMAIN dir[d].origin :
                              /\ dir[d].origin[i][2] = j.media
                              /\ j.capacity_sectors = Capacity[dir[d].origin[i][1]][dir[d].origin[i][2]]
      BY DEF BackupsRestorable, BackupsInv
    <2>1. j \in BackupJsons /\ j.media \in Media
      BY DEF Inv, TypeOK, Directories, BackupJsons
    <2>2. /\ j.media = "emmc" => j.backup_sectors = j.installed_sectors
          /\ j.media = "spi-nor" => j.backup_sectors = j.capacity_sectors
      BY DEF Inv, JsonInv
    <2>3. PICK u \in Units :
             /\ j.capacity_sectors = Capacity[u][j.media]
             /\ dir[d].origin = Sectors(u, j.media, FirstLba(j.media), j.backup_sectors)
      BY DEF Inv, JsonInv
    <2>4. /\ j.installed_sectors \in Nat /\ j.backup_sectors \in Nat /\ j.capacity_sectors \in Nat
          /\ WriteLba \in Nat \ {0}
      BY <2>1, WriteLbaAssumption DEF BackupJsons
    <2>5. RestoreAccepts(d)
      BY <2>1, <2>2, <2>4 DEF BackupInv, RestoreAccepts, Media
    <2>6. ASSUME NEW i \in DOMAIN dir[d].origin
          PROVE  dir[d].origin[i] = <<u, j.media, FirstLba(j.media) + i - 1>>
      <3>1. i \in DOMAIN Sectors(u, j.media, FirstLba(j.media), j.backup_sectors)
        BY <2>3
      <3> QED  BY <2>3, <3>1 DEF Sectors
    <2>7. ASSUME NEW i \in DOMAIN dir[d].origin
          PROVE  dir[d].origin[i][1] = u /\ dir[d].origin[i][2] = j.media
      BY <2>6
    <2> QED  BY <2>3, <2>5, <2>7
  <1> QED
    BY <1>1, <1>2, BackupStep, InstallerInvariant, PTL DEF Spec

------------------------------------------------------------------------------
\* The partition table that was read, and then checked, is that of the eMMC of
\* the size that was measured.
TableInv ==
    job.op = "flash" =>
        /\ step = "rid" => job.media = "spi-nor"
        /\ job.media = "emmc" /\ step \in {"backup", "partitions"} =>
              \E u \in Units : /\ Capacity[u]["emmc"] = job.capacity
                               /\ dir[job.dir].table = {table[u]}
        /\ job.media = "emmc" /\ step \in {"json", "write"} =>
              \E u \in Units : /\ Capacity[u]["emmc"] = job.capacity
                               /\ PartitionCheck(table[u], WriteLba, Len(artifact))

LEMMA TableStep == Inv /\ TableInv /\ [Next]_vars => TableInv'
  <1> SUFFICES ASSUME Inv, TableInv, [Next]_vars, job'.op = "flash" PROVE TableInv'
    BY DEF TableInv
  <1>0. table' = table
    BY DEF Next, vars, StartRestore, StartFlash, Start, Command, EnterLoader, SelectStorage,
           FlashInfo, JedecId, ReadMetadata, Backup, Write, BadWrite, TornWrite, Readback, Reset,
           Plug, Unplug, CheckPartitions, WriteJson, Abort, Die, Advance, UpdateRepo
  <1>1. ASSUME step' \notin {"rid", "backup", "partitions", "json", "write"} PROVE TableInv'
    BY <1>1 DEF TableInv
  <1>2. ASSUME NEW u \in Units, FlashInfo(u) PROVE TableInv'
    <2>1. job' = [job EXCEPT !.capacity = Capacity[u][selected[u]]] /\ step = "info"
          /\ step' = IF job.media = "spi-nor" THEN "rid"
                     ELSE IF job.op = "flash" THEN "metadata" ELSE "write"
      BY <1>2 DEF FlashInfo, Advance
    <2>2. job'.op = job.op /\ job'.media = job.media
      BY <2>1 DEF Inv, TypeOK
    <2> QED  BY <2>1, <2>2 DEF TableInv
  <1>3. ASSUME NEW u \in Units, JedecId(u) PROVE TableInv'
    <2>1. step = "rid" /\ job' = job /\ step' = "backup"
      BY <1>3 DEF JedecId, Advance
    <2> QED  BY <2>1 DEF TableInv
  <1>4. ASSUME NEW u \in Units, ReadMetadata(u) PROVE TableInv'
    <2>1. /\ step = "metadata" /\ step' = "backup" /\ job' = job /\ mode[u] = "loader"
          /\ dir' = [dir EXCEPT ![job.dir].table = {table[u]}]
      BY <1>4 DEF ReadMetadata, Advance, Target
    <2>2. Capacity[u][job.media] = job.capacity
      BY <2>1 DEF Inv, LoaderInv, AfterInfo
    <2>3. /\ job.dir \in DOMAIN dir
          /\ dir[job.dir] \in [used : BOOLEAN, origin : Seq(Places), data : Seq(Contents),
                               table : SUBSET Tables, json : SUBSET BackupJsons]
      BY <2>1, JobFacts DEF Inv, TypeOK, Directories
    <2>4. dir'[job.dir].table = {table[u]}
      BY <2>1, <2>3
    <2> QED  BY <1>0, <2>1, <2>2, <2>4 DEF TableInv
  <1>5. ASSUME NEW u \in Units, Backup(u) PROVE TableInv'
    <2>1. /\ step = "backup" /\ job' = job
          /\ step' = IF job.media = "emmc" THEN "partitions" ELSE "json"
          /\ job.dir \in DOMAIN dir
          /\ dir[job.dir] \in [used : BOOLEAN, origin : Seq(Places), data : Seq(Contents),
                               table : SUBSET Tables, json : SUBSET BackupJsons]
      BY <1>5, BackupFacts DEF Backup, Advance, Inv, TypeOK, Directories
    <2>2. dir'[job.dir].table = dir[job.dir].table
      BY <1>5, <2>1 DEF Backup
    <2> QED  BY <1>0, <2>1, <2>2 DEF TableInv
  <1>6. CASE CheckPartitions
    <2>1. /\ step = "partitions" /\ step' = "json" /\ UNCHANGED <<job, build>>
          /\ \A t \in dir[job.dir].table : PartitionCheck(t, WriteLba, Len(artifact))
      BY <1>6 DEF CheckPartitions, Advance, repo
    <2>2. artifact' = artifact
      BY <2>1 DEF artifact
    <2> QED  BY <1>0, <2>1, <2>2 DEF TableInv, PartitionCheck, check_gpt, check_mbr
  <1>7. CASE WriteJson
    <2>1. step = "json" /\ step' = "write" /\ UNCHANGED <<job, build>>
      BY <1>7 DEF WriteJson, Advance, repo
    <2>2. artifact' = artifact
      BY <2>1 DEF artifact
    <2> QED  BY <1>0, <2>1, <2>2 DEF TableInv, PartitionCheck, check_gpt, check_mbr
  <1>8. CASE UNCHANGED vars \/ \E u \in Units : Plug(u) \/ Unplug(u)
    <2>1. UNCHANGED <<dir, step, job, build>>
      BY <1>8 DEF vars, Plug, Unplug, repo
    <2>2. artifact' = artifact
      BY <2>1 DEF artifact
    <2> QED  BY <1>0, <2>1, <2>2 DEF TableInv, PartitionCheck, check_gpt, check_mbr
  <1>9. CASE \/ \E d \in Dirs : StartRestore(d)
             \/ \E d \in Dirs, b \in Boards, m \in Media : StartFlash(d, b, m)
             \/ \E u \in Units : \/ EnterLoader(u) \/ SelectStorage(u) \/ Write(u) \/ BadWrite(u)
                                 \/ TornWrite(u) \/ Readback(u) \/ Reset(u)
             \/ Abort
    BY <1>1, <1>9 DEF StartRestore, StartFlash, Start, EnterLoader, SelectStorage, Write, BadWrite,
                      TornWrite, Readback, Reset, Abort, Die, Advance
  <1>10. CASE UpdateRepo
    <2>1. step = "idle" /\ job' = job
      BY <1>10 DEF UpdateRepo
    <2> QED  BY <2>1 DEF Inv, TypeOK, NoJob
  <1> QED
    BY <1>2, <1>3, <1>4, <1>5, <1>6, <1>7, <1>8, <1>9, <1>10 DEF Next, Command

\* No sector of an image that the check lets pass is in a partition.
LEMMA CheckKeepsClear ==
  ASSUME NEW t \in Tables, NEW first \in Nat, NEW n \in Nat, PartitionCheck(t, first, n),
         NEW s \in first .. first + n - 1
  PROVE  s \notin Partitioned(t)
  <1>1. ASSUME NEW e \in t.gpt.entries, t.gpt.signature PROVE s \notin e.first .. e.last
    <2>1. e.first <= e.last /\ ~Overlaps(e.first, e.last, first, first + n - 1)
      BY <1>1 DEF PartitionCheck, check_gpt
    <2>2. e.first \in Nat /\ e.last \in Nat
      BY TablesAssumption
    <2> QED  BY <2>1, <2>2 DEF Overlaps
  <1>2. ASSUME NEW e \in t.mbr.entries, t.mbr.signature, e.kind \notin {0, 238}
        PROVE  s \notin e.first .. (e.first + e.count - 1)
    <2>1. e.count = 0 \/ ~Overlaps(e.first, e.first + e.count - 1, first, first + n - 1)
      BY <1>2 DEF PartitionCheck, check_mbr
    <2>2. e.first \in Nat /\ e.count \in Nat
      BY TablesAssumption
    <2> QED  BY <2>1, <2>2 DEF Overlaps
  <1> QED  BY <1>1, <1>2 DEF Partitioned

\* An installation leaves the first sectors and every partition of the eMMC
\* alone, also when boards are exchanged while it runs.
THEOREM InstallationsKeepClear ==
  ASSUME DistinctSizes
  PROVE  Spec => InstallKeepsClear
  <1> DEFINE Clear ==
        \A p \in Places : job.op = "flash" /\ store'[p] /= store[p] =>
            /\ p[3] >= WriteLba
            /\ p[2] = "emmc" => p[3] \notin Partitioned(table[p[1]])
  <1>1. Init => TableInv
    BY DEF Init, TableInv, NoJob
  <1>2. Inv /\ TableInv /\ [Next]_vars => [Clear]_vars
    <2> SUFFICES ASSUME Inv, TableInv, [Next]_vars, NEW p \in Places, job.op = "flash",
                        store'[p] /= store[p]
                 PROVE  /\ p[3] >= WriteLba
                        /\ p[2] = "emmc" => p[3] \notin Partitioned(table[p[1]])
      OBVIOUS
    <2>1. PICK v \in Units : Write(v) \/ BadWrite(v) \/ TornWrite(v)
      <3>1. ~UNCHANGED store
        OBVIOUS
      <3> QED
        BY <3>1 DEF Next, vars, Command, EnterLoader, SelectStorage, FlashInfo, JedecId,
                    ReadMetadata, Backup, Readback, Reset, Plug, Unplug, CheckPartitions,
                    WriteJson, Abort, UpdateRepo, StartRestore, StartFlash, Start
    <2>2. PICK i \in DOMAIN Payload : Destination(v)[i] = p
      BY <2>1, WriteFacts
    <2>3. step = "write" /\ Target(v)
      BY <2>1, WriteFacts
    <2>4. /\ Payload = artifact /\ PayloadLba = WriteLba
          /\ artifact \in Seq(Contents) /\ Len(artifact) \in Nat
      BY <2>3, ArtifactFacts DEF Inv, Payload, PayloadLba
    <2>5. i \in 1 .. Len(artifact) /\ WriteLba \in Nat
      BY <2>2, <2>4, WriteLbaAssumption
    <2>6. selected[v] = job.media /\ Capacity[v][job.media] = job.capacity
      BY <2>3 DEF Inv, LoaderInv, Target, AfterSelect, AfterInfo
    <2>7. p = <<v, job.media, WriteLba + i - 1>>
      <3>1. Destination(v) = Sectors(v, job.media, WriteLba, Len(artifact))
        BY <2>4, <2>6 DEF Destination
      <3> QED  BY <2>2, <2>5, <3>1 DEF Sectors
    <2>8. p[1] = v /\ p[2] = job.media /\ p[3] = WriteLba + i - 1
      BY <2>7
    <2>9. p[3] >= WriteLba /\ p[3] \in WriteLba .. WriteLba + Len(artifact) - 1
      BY <2>4, <2>5, <2>8
    <2>10. ASSUME p[2] = "emmc" PROVE p[3] \notin Partitioned(table[v])
      <3>1. PICK u \in Units : /\ Capacity[u]["emmc"] = job.capacity
                               /\ PartitionCheck(table[u], WriteLba, Len(artifact))
        BY <2>3, <2>8, <2>10 DEF TableInv
      <3>2. u = v
        BY <2>6, <2>8, <2>10, <3>1 DEF DistinctSizes, Media
      <3>3. table[v] \in Tables
        BY DEF Inv, TypeOK
      <3> QED  BY <2>4, <2>5, <2>9, <3>1, <3>2, <3>3, CheckKeepsClear
    <2> QED  BY <2>8, <2>9, <2>10
  <1> QED
    BY <1>1, <1>2, TableStep, InstallerInvariant, PTL DEF Spec, InstallKeepsClear
=============================================================================
