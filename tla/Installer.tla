------------------------------ MODULE Installer ------------------------------
(***************************************************************************)
(* tools/flash-chainload.sh and tools/check-partition-overlap.py: the      *)
(* installation of a first-stage image on the eMMC or the SPI NOR of a     *)
(* board in loader mode, with its mandatory backup, and the restoration of *)
(* such a backup.  One action per command that the script gives to the     *)
(* board; between any two of them the script may be killed, a command may  *)
(* fail, and boards may be unplugged and plugged in.                       *)
(*                                                                         *)
(* A sector is a place <<unit, medium, lba>>, a file the sequence of its   *)
(* blocks.  A checksum of a file is the file.                              *)
(***************************************************************************)
EXTENDS Integers, Sequences

CONSTANTS
    Units,          \* the boards on the bench
    Boards,         \* the board identifiers that have a manifest
    Capacity,       \* Capacity[u][m]: the sectors of medium m of unit u
    WriteLba,       \* boot_media.*.write_lba, 64 in every manifest
    Image,          \* Image[board][medium][build]: the blocks of an artifact
    Tables,         \* the partition tables an eMMC may have
    Contents,       \* what a sector can hold
    Factory,        \* what each sector held before the first installation
    Junk,           \* what a failed write leaves in a sector
    Dirs,           \* the backup directories
    MaxRuns, MaxPlugs, MaxFaults, MaxBuilds     \* bounds of a behaviour

Media == {"emmc", "spi-nor"}
Places == UNION {{<<u, m, s>> : s \in 0..(Capacity[u][m] - 1)} : u \in Units, m \in Media}
Builds == 0..MaxBuilds

ASSUME WriteLbaAssumption == WriteLba \in Nat \ {0}
ASSUME CapacityAssumption == Capacity \in [Units -> [Media -> Nat \ {0}]]
ASSUME ContentsAssumption == Factory \in [Places -> Contents] /\ Junk \in Contents
ASSUME BuildsAssumption == MaxBuilds \in Nat
ASSUME ImageAssumption ==
    /\ Image \in [Boards -> [Media -> [Builds -> Seq(Contents)]]]
    /\ \A b \in Boards, m \in Media, n \in Builds : Image[b][m][n] /= <<>>
ASSUME TablesAssumption ==
    \A t \in Tables :
        /\ \A e \in t.gpt.entries : e.first \in Nat /\ e.last \in Nat
        /\ \A e \in t.mbr.entries : e.first \in Nat /\ e.count \in Nat

VARIABLES
    store,          \* the content of every sector
    table,          \* the partition table in LBA 0-63 of each unit's eMMC
    mode,           \* how each unit appears on USB: "off", "maskrom", "loader"
    selected,       \* the medium each unit's loader has selected
    dir,            \* the files of each backup directory
    step,           \* where the script is
    job,            \* the arguments and variables of the script
    said,           \* what the script printed when it ended
    manifest,       \* the revision of the manifests in the repository
    build,          \* the build of the artifacts in the repository
    runs, plugs, faults

bench == <<mode, selected, plugs>>
repo == <<manifest, build>>
vars == <<store, table, bench, dir, step, job, said, repo, runs, faults>>

(***************************************************************************)
(* The board, as the commands of rkdeveloptool and xrock see it            *)
(***************************************************************************)
Visible == {u \in Units : mode[u] /= "off"}

\* A read or a write reaches the one visible board, in loader mode.
Target(u) == Visible = {u} /\ mode[u] = "loader"

Sectors(u, m, first, n) == [i \in 1..n |-> <<u, m, first + i - 1>>]
Inside(places) == \A i \in DOMAIN places : places[i] \in Places
Contained(places) == [i \in DOMAIN places |-> store[places[i]]]

\* The store after a write of blocks to places, of which only the blocks in
\* good arrive and those in bad leave junk.
Written(places, blocks, good, bad) ==
    [p \in Places |->
        IF \E i \in good : places[i] = p
        THEN blocks[CHOOSE i \in good : places[i] = p]
        ELSE IF \E i \in bad : places[i] = p THEN Junk ELSE store[p]]

(***************************************************************************)
(* check-partition-overlap.py                                              *)
(***************************************************************************)
\* Mutant: a range that begins at the last sector of the image is let pass.
Overlaps_OffByOne(first, last, target_first, target_last) ==
    first < target_last /\ target_first <= last

Overlaps(first, last, target_first, target_last) ==
    first <= target_last /\ target_first <= last

check_gpt(gpt, first, last) ==
    gpt.signature =>
        /\ gpt.valid
        /\ \A e \in gpt.entries :
              e.first <= e.last /\ ~Overlaps(e.first, e.last, first, last)

check_mbr(mbr, first, last) ==
    mbr.signature =>
        \A e \in mbr.entries :
            \/ e.kind \in {0, 238} \/ e.count = 0
            \/ ~Overlaps(e.first, e.first + e.count - 1, first, last)

PartitionCheck(t, first, n) ==
    check_gpt(t.gpt, first, first + n - 1) /\ check_mbr(t.mbr, first, first + n - 1)

(***************************************************************************)
(* The files of a backup directory.  origin is not in the files: it is     *)
(* where each block of data was read from.                                 *)
(***************************************************************************)
Empty == [used |-> FALSE, origin |-> <<>>, data |-> <<>>, table |-> {}, json |-> {}]

artifact == Image[job.board][job.media][build]

BackupFirstLba == IF job.media = "emmc" THEN WriteLba ELSE 0
BackupSectors == IF job.media = "emmc" THEN Len(artifact) ELSE job.capacity

\* Mutant: the length of the image instead of that of the backup is recorded.
BackupJson_ImageLength ==
    [board |-> job.board, media |-> job.media, write_lba |-> WriteLba,
     installed_sectors |-> Len(artifact), capacity_sectors |-> job.capacity,
     backup_sectors |-> Len(artifact), backup |-> dir[job.dir].data,
     manifest |-> <<job.board, manifest>>]

BackupJson ==
    [board |-> job.board, media |-> job.media, write_lba |-> WriteLba,
     installed_sectors |-> Len(artifact), capacity_sectors |-> job.capacity,
     backup_sectors |-> BackupSectors, backup |-> dir[job.dir].data,
     manifest |-> <<job.board, manifest>>]

\* What restore_media demands of a directory before it touches the board.
RestoreAccepts(d) ==
    \E j \in dir[d].json :
        /\ j.installed_sectors > 0 /\ j.backup_sectors > 0 /\ j.capacity_sectors > 0
        /\ j.write_lba + j.installed_sectors <= j.capacity_sectors
        /\ \/ j.media = "emmc" /\ j.backup_sectors = j.installed_sectors
           \/ /\ j.media = "spi-nor" /\ j.write_lba = WriteLba
              /\ j.backup_sectors = j.capacity_sectors
        /\ Len(dir[d].data) = j.backup_sectors
        /\ dir[d].data = j.backup
        /\ j.manifest = <<j.board, manifest>>
        /\ j.write_lba = WriteLba

Saved == CHOOSE j \in dir[job.dir].json : TRUE

(***************************************************************************)
(* The script                                                              *)
(***************************************************************************)
NoJob == [op |-> "none"]

Init ==
    /\ store = Factory
    /\ table \in [Units -> Tables]
    /\ mode = [u \in Units |-> "off"]
    /\ selected = [u \in Units |-> "none"]
    /\ dir = [d \in Dirs |-> Empty]
    /\ step = "idle" /\ said = "nothing"
    /\ job = NoJob
    /\ manifest = 0 /\ build = 0
    /\ runs = 0 /\ plugs = 0 /\ faults = 0

\* The checks before the first command: for an installation the directory
\* must be empty, for a restoration its files must be consistent.
Start(op, d, b, m) ==
    /\ step = "idle" /\ runs < MaxRuns
    /\ step' = "enter" /\ said' = "nothing" /\ runs' = runs + 1
    /\ job' = [op |-> op, dir |-> d, board |-> b, media |-> m, capacity |-> 0]
    /\ UNCHANGED <<store, table, bench, dir, repo, faults>>

\* Mutant: a directory that holds a backup already is accepted.
StartFlash_UsedDir(d, b, m) == Start("flash", d, b, m)

StartFlash(d, b, m) == ~dir[d].used /\ Start("flash", d, b, m)

StartRestore(d) ==
    /\ RestoreAccepts(d)
    /\ \E j \in dir[d].json : Start("restore", d, j.board, j.media)

\* The script's next step after a command that succeeded.
Advance(from, to) == step = from /\ step' = to /\ UNCHANGED <<said, repo, runs, table>>

\* enter_loader: xrock uploads the loader to a board in MaskROM mode.
EnterLoader(u) ==
    /\ Advance("enter", "select")
    /\ Visible = {u}
    /\ mode' = [mode EXCEPT ![u] = "loader"]
    /\ UNCHANGED <<store, selected, plugs, dir, job, faults>>

SelectStorage(u) ==
    /\ Advance("select", "info")
    /\ Target(u)
    /\ selected' = [selected EXCEPT ![u] = job.media]
    /\ UNCHANGED <<store, mode, plugs, dir, job, faults>>

\* Mutant: restore_media only checks that the backup fits.
FlashInfo_AnyCapacity(u) ==
    LET capacity == Capacity[u][selected[u]]
        after == IF job.media = "spi-nor" THEN "rid"
                 ELSE IF job.op = "flash" THEN "metadata" ELSE "write"
    IN  /\ Advance("info", after)
        /\ Target(u) /\ selected[u] \in Media
        /\ IF job.op = "flash"
           THEN WriteLba + Len(artifact) <= capacity
           ELSE BackupFirstLba + Saved.backup_sectors <= capacity
        /\ job' = [job EXCEPT !.capacity = capacity]
        /\ dir' = [dir EXCEPT ![job.dir].used = TRUE]
        /\ UNCHANGED <<store, bench, faults>>

\* rfi reports the capacity, and the ranges are checked against it.
FlashInfo(u) ==
    LET capacity == Capacity[u][selected[u]]
        after == IF job.media = "spi-nor" THEN "rid"
                 ELSE IF job.op = "flash" THEN "metadata" ELSE "write"
    IN  /\ Advance("info", after)
        /\ Target(u) /\ selected[u] \in Media
        /\ IF job.op = "flash"
           THEN WriteLba + Len(artifact) <= capacity
           ELSE /\ capacity = Saved.capacity_sectors
                /\ BackupFirstLba + Saved.backup_sectors <= capacity
        /\ job' = [job EXCEPT !.capacity = capacity]
        /\ dir' = [dir EXCEPT ![job.dir].used = TRUE]
        /\ UNCHANGED <<store, bench, faults>>

\* Mutant: the SPI NOR is written without a backup.
JedecId_NoBackup(u) ==
    /\ Advance("rid", "write")
    /\ Target(u)
    /\ UNCHANGED <<store, bench, dir, job, faults>>

\* record_jedec_id
JedecId(u) ==
    /\ Advance("rid", IF job.op = "flash" THEN "backup" ELSE "write")
    /\ Target(u)
    /\ UNCHANGED <<store, bench, dir, job, faults>>

\* rl 0 64: the partition tables of the eMMC
ReadMetadata(u) ==
    /\ Advance("metadata", "backup")
    /\ Target(u)
    /\ dir' = [dir EXCEPT ![job.dir].table = {table[u]}]
    /\ UNCHANGED <<store, bench, job, faults>>

\* Mutant: a short backup is not noticed.
Backup_Short(u) ==
    LET places == Sectors(u, selected[u], BackupFirstLba, BackupSectors)
    IN  /\ Advance("backup", IF job.media = "emmc" THEN "partitions" ELSE "json")
        /\ Target(u) /\ Inside(places)
        /\ dir' = [dir EXCEPT ![job.dir].origin = places,
                              ![job.dir].data = Tail(Contained(places))]
        /\ UNCHANGED <<store, bench, job, faults>>

\* The destination of an eMMC image, or the whole SPI NOR
Backup(u) ==
    LET places == Sectors(u, selected[u], BackupFirstLba, BackupSectors)
    IN  /\ Advance("backup", IF job.media = "emmc" THEN "partitions" ELSE "json")
        /\ Target(u) /\ Inside(places)
        /\ dir' = [dir EXCEPT ![job.dir].origin = places,
                              ![job.dir].data = Contained(places)]
        /\ UNCHANGED <<store, bench, job, faults>>

CheckPartitions ==
    /\ Advance("partitions", "json")
    /\ \A t \in dir[job.dir].table : PartitionCheck(t, WriteLba, Len(artifact))
    /\ UNCHANGED <<store, bench, dir, job, faults>>

\* write_backup_manifest.  A file torn by a crash is as good as none.
WriteJson ==
    /\ Advance("json", "write")
    /\ dir' = [dir EXCEPT ![job.dir].json = {BackupJson}]
    /\ UNCHANGED <<store, bench, job, faults>>

\* What is written and where: the artifact at write_lba, or the saved blocks,
\* those of an SPI NOR from sector 0.
Payload == IF job.op = "flash" THEN artifact ELSE dir[job.dir].data
PayloadLba == IF job.op = "flash" THEN WriteLba ELSE BackupFirstLba
Destination(u) == Sectors(u, selected[u], PayloadLba, Len(Payload))

Write(u) ==
    /\ Advance("write", "readback")
    /\ Target(u) /\ Inside(Destination(u))
    /\ store' = Written(Destination(u), Payload, DOMAIN Payload, {})
    /\ UNCHANGED <<bench, dir, job, faults>>

\* The command reports success, but one block did not take.
BadWrite(u) ==
    /\ Advance("write", "readback")
    /\ Target(u) /\ Inside(Destination(u)) /\ faults < MaxFaults
    /\ \E i \in DOMAIN Payload :
          store' = Written(Destination(u), Payload, DOMAIN Payload \ {i}, {i})
    /\ faults' = faults + 1
    /\ UNCHANGED <<bench, dir, job>>

\* The script ends without having reset the board.
Die(from) ==
    /\ step \in from
    /\ step' = "idle" /\ job' = NoJob /\ said' = "failed"
    /\ UNCHANGED <<table, bench, repo, runs>>

\* The write stops half-way, perhaps inside a block.
TornWrite(u) ==
    /\ Die({"write"})
    /\ Target(u) /\ Inside(Destination(u)) /\ faults < MaxFaults
    /\ \E n \in 0..(Len(Payload) - 1) :
          \E bad \in SUBSET {n + 1} :
             store' = Written(Destination(u), Payload, 1..n, bad)
    /\ faults' = faults + 1
    /\ UNCHANGED dir

\* Mutant: the readback is not compared.
Readback_NotCompared(u) ==
    /\ Advance("readback", "reset")
    /\ Target(u) /\ Inside(Destination(u))
    /\ UNCHANGED <<store, bench, dir, job, faults>>

\* The readback must be the payload block for block.
Readback(u) ==
    /\ Advance("readback", "reset")
    /\ Target(u) /\ Inside(Destination(u))
    /\ Contained(Destination(u)) = Payload
    /\ UNCHANGED <<store, bench, dir, job, faults>>

\* rd resets a board in either mode, and the script reports success.
Reset(u) ==
    /\ Visible = {u}
    /\ step = "reset" /\ step' = "idle" /\ job' = NoJob
    /\ said' = IF job.op = "flash" THEN "installed" ELSE "restored"
    /\ mode' = [mode EXCEPT ![u] = "off"]
    /\ selected' = [selected EXCEPT ![u] = "none"]
    /\ UNCHANGED <<store, table, plugs, dir, repo, runs, faults>>

\* A check or a command fails or the script is killed, anywhere.  From
\* flash_info on the directory may have a file more.
Abort ==
    /\ Die({"enter", "select", "info", "rid", "metadata", "backup", "partitions",
            "json", "write", "readback", "reset"})
    /\ \/ UNCHANGED dir
       \/ step = "info" /\ dir' = [dir EXCEPT ![job.dir].used = TRUE]
    /\ UNCHANGED <<store, faults>>

(***************************************************************************)
(* The bench: boards come in MaskROM mode, and forget the loader when they *)
(* lose power.  The repository is updated between two runs of the script.  *)
(***************************************************************************)
Plug(u) ==
    /\ mode[u] = "off" /\ plugs < MaxPlugs
    /\ mode' = [mode EXCEPT ![u] = "maskrom"]
    /\ plugs' = plugs + 1
    /\ UNCHANGED <<store, table, selected, dir, step, job, said, repo, runs, faults>>

Unplug(u) ==
    /\ mode[u] /= "off"
    /\ mode' = [mode EXCEPT ![u] = "off"]
    /\ selected' = [selected EXCEPT ![u] = "none"]
    /\ UNCHANGED <<store, table, plugs, dir, step, job, said, repo, runs, faults>>

UpdateRepo ==
    /\ step = "idle" /\ build < MaxBuilds
    /\ build' = build + 1
    /\ manifest' \in {manifest, manifest + 1}
    /\ UNCHANGED <<store, table, bench, dir, step, job, said, runs, faults>>

Command(u) ==
    \/ EnterLoader(u) \/ SelectStorage(u) \/ FlashInfo(u) \/ JedecId(u)
    \/ ReadMetadata(u) \/ Backup(u) \/ Write(u) \/ BadWrite(u) \/ TornWrite(u)
    \/ Readback(u) \/ Reset(u)

Next ==
    \/ \E d \in Dirs : StartRestore(d)
    \/ \E d \in Dirs, b \in Boards, m \in Media : StartFlash(d, b, m)
    \/ \E u \in Units : Command(u) \/ Plug(u) \/ Unplug(u)
    \/ CheckPartitions \/ WriteJson \/ Abort \/ UpdateRepo

Spec == Init /\ [][Next]_vars

(***************************************************************************)
(* Properties                                                              *)
(***************************************************************************)
\* The sectors of the partitions of a table that can be read.
Partitioned(t) ==
    UNION ({e.first..e.last : e \in {g \in t.gpt.entries : t.gpt.signature /\ t.gpt.valid}}
           \union {e.first..(e.first + e.count - 1) :
                     e \in {g \in t.mbr.entries : t.mbr.signature /\ g.kind \notin {0, 238}}})

Steps == {"idle", "enter", "select", "info", "rid", "metadata", "backup",
          "partitions", "json", "write", "readback", "reset"}

BackupJsons ==
    [board : Boards, media : Media, write_lba : Nat, installed_sectors : Nat,
     capacity_sectors : Nat, backup_sectors : Nat, backup : Seq(Contents),
     manifest : Boards \X Nat]

Directories ==
    {x \in [used : BOOLEAN, origin : Seq(Places), data : Seq(Contents),
            table : SUBSET Tables, json : SUBSET BackupJsons] : Len(x.origin) = Len(x.data)}

\* The values the variables of the script and of the bench can have; in a
\* directory, one block of data for each sector that was read.
TypeOK ==
    /\ store \in [Places -> Contents]
    /\ table \in [Units -> Tables]
    /\ mode \in [Units -> {"off", "maskrom", "loader"}]
    /\ selected \in [Units -> Media \union {"none"}]
    /\ dir \in [Dirs -> Directories]
    /\ step \in Steps
    /\ IF step = "idle" THEN job = NoJob
       ELSE job \in [op : {"flash", "restore"}, dir : Dirs, board : Boards,
                     media : Media, capacity : Nat]
    /\ said \in {"nothing", "installed", "restored", "failed"}
    /\ manifest \in Nat /\ build \in Builds

\* The blocks of the finished backups, with the sectors they were read from.
SavedBlocks ==
    UNION {{<<dir[d].origin[i], dir[d].data[i]>> : i \in DOMAIN dir[d].origin} :
              d \in {e \in Dirs : dir[e].json /= {}}}

Promise == INSTANCE BackupFirst WITH saved <- SavedBlocks

\* Whatever is unplugged, killed or fails, and whatever is installed or
\* restored afterwards: what a sector held before the first installation is
\* still there, or in a backup whose backup.json is complete.
Recoverable == Promise!Recoverable

\* Every step of the script keeps the promise: only sectors that a complete
\* backup holds are overwritten, and a backup, when its backup.json appears,
\* holds what is in those sectors at that moment.
ImplementsBackupFirst == Promise!Spec

\* What flash_media writes in a directory, restore_media accepts, under the
\* same manifests, on the medium it was read from.
BackupsRestorable ==
    \A d \in Dirs : \A j \in dir[d].json :
        j.manifest = <<j.board, manifest>> =>
            /\ RestoreAccepts(d)
            /\ \A i \in DOMAIN dir[d].origin :
                  LET p == dir[d].origin[i]
                  IN  p[2] = j.media /\ j.capacity_sectors = Capacity[p[1]][p[2]]

\* A restoration puts every block back where it was read from: on that unit,
\* that medium, that sector (or leaves junk there when the write fails).
RestoresInPlace ==
    [][\A p \in Places : job.op = "restore" /\ store'[p] /= store[p] =>
          LET d == dir[job.dir]
          IN  \E i \in DOMAIN d.origin : d.origin[i] = p /\ store'[p] \in {d.data[i], Junk}]_vars

\* docs/rk356x/chainloading.md:211-213: "Restoration rejects a backup whose
\* board ... differs from the selected target.  This stops a YY3568 backup
\* from being restored to ROCK 3A, or vice versa."  Here a unit is named after
\* its board: a backup that was read from the board it names is written only
\* to that board.
RestoresOwnBoard ==
    [][\A p \in Places :
          LET backup == dir[job.dir]
          IN  job.op = "restore" /\ store'[p] /= store[p]
                 /\ (\A i \in DOMAIN backup.origin : backup.origin[i][1] = job.board)
              => p[1] = job.board]_vars

\* An installation writes neither the first sectors of a medium nor a sector
\* of a partition of the eMMC.
InstallKeepsClear ==
    [][\A p \in Places : job.op = "flash" /\ store'[p] /= store[p] =>
          /\ p[3] >= WriteLba
          /\ p[2] = "emmc" => p[3] \notin Partitioned(table[p[1]])]_vars

\* The script reports success only when some board holds exactly what was to
\* be written.
ReportsVerified ==
    [][step = "reset" /\ said' \in {"installed", "restored"} =>
          \E u \in Units : \A i \in DOMAIN Payload :
              store[<<u, job.media, PayloadLba + i - 1>>] = Payload[i]]_vars
=============================================================================
