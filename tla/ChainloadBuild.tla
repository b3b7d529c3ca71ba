--------------------------- MODULE ChainloadBuild ---------------------------
(***************************************************************************)
(* The build tree of one chainloader board: the rules of the Makefile,     *)
(* tools/build-chainload-uboot.sh, tools/build-chainload-media.sh and the  *)
(* acceptance check of tests/check_chainload.py.                           *)
(*                                                                         *)
(* make decides by time stamps: a target is remade when it is absent or    *)
(* older than a prerequisite.  "old" holds the targets that are older than *)
(* a direct prerequisite; writing a target makes its dependants old.  The  *)
(* targets of one command are made in any order their prerequisites allow  *)
(* (make -j).  The pins - manifest, overlay, patches, BL31, sources and    *)
(* the tools of the machine - are one version number, changed at any time; *)
(* make notices the change of a file that is there and that a rule names.  *)
(***************************************************************************)
EXTENDS Integers, Sequences

CONSTANTS
    Boards, VariantBoards,      \* the boards, and those with the NVMe variant
    Media,                      \* the media that carry the combined binary
    None, Partial, Development, \* no file; a truncated one; a FIT of UBOOT_ITB
    MaxPins, MaxCommands, MaxFaults     \* bounds of a behaviour

Versions == 1..MaxPins
Uboot == {"fit", "source", "payload"}           \* what the script leaves
Targets == {"stage", "built", "binary", "nvme"} \union Uboot \union Media

\* A FIT names the snapshot that was compiled - the versions its files were
\* read from - and the version of the fragment and of the compiler.
Snapshots == SUBSET Versions
PinnedBuilds == [source : Snapshots, with : Versions]
Fits == PinnedBuilds \union {Development, Partial, None}
Binaries == [stage : Versions, fit : Fits] \union {Partial, None}

ASSUME NamesAssumption ==
    /\ Media \intersect ({"stage", "built", "binary", "nvme"} \union Uboot) = {}
    /\ VariantBoards \subseteq Boards
\* A command given to make, and how it ended.
Commands == [name : {"chainload", "check", "binary", "nvme"} \union Media,
             itb : {None, "file", "output"}, since : Versions]
Reports == [command : Commands, ok : BOOLEAN]

\* What stands for no content of its own is none.
ASSUME NothingAssumption ==
    /\ None \notin {Partial, "file", "output"}
    /\ \A x \in {None, Partial, Development} :
          /\ x \notin Versions /\ x \notin PinnedBuilds /\ x \notin Reports
          /\ x \notin [stage : Versions, fit : Fits] /\ \A s \in Snapshots : x /= s
ASSUME BoundsAssumption == MaxPins \in Nat \ {0} /\ MaxCommands \in Nat /\ MaxFaults \in Nat

VARIABLES
    board,
    pins,           \* the version of the pins
    noticed,        \* the last change of them that makes the stage, the stamp old
    tree,           \* the content of each target
    old,            \* the targets older than a direct prerequisite
    snapshot,       \* build/chainload/<board>/source: [of, compiled]
    script,         \* where build-chainload-uboot.sh is
    reading,        \* the version it read when it started
    raced,          \* a prerequisite of the stamp was edited while it ran
    command,        \* the command make was given
    todo,           \* the goals of its calls of make, one set per call
    done,           \* the targets this call has considered
    report,         \* the last command, and whether it succeeded
    commands, faults

makeVars == <<command, todo, done, report>>
scriptVars == <<snapshot, script, reading, raced>>
buildVars == <<board, pins, noticed, tree, old, scriptVars, makeVars, commands, faults>>

\* Mutant: the rule of the binary names the stage only.
Prerequisites_StageOnly ==
    [t \in Targets |-> CASE t \in Uboot -> {"built"} [] t = "binary" -> {"stage"}
                         [] t \in Media -> {"binary"} [] t = "nvme" -> {"payload"} [] OTHER -> {}]

Prerequisites ==
    [t \in Targets |-> CASE t \in Uboot -> {"built"}
                         [] t = "binary" -> {"stage", "fit"}
                         [] t \in Media -> {"binary"}
                         [] t = "nvme" -> {"payload"}
                         [] OTHER -> {}]

Dependants(t) == {u \in Targets : t \in Prerequisites[u]}

\* What an edit makes old: nothing for the compiler, the tools of the machine and an
\* overlay file that is deleted; else the sources and headers of the stage; the
\* overlay, the fragments, BL31 and the build script; DDR; the media script; the
\* manifest.
EditKinds ==
    LET images == Media \union {"nvme"}
    IN  {{}, {"stage"}, {"built"}, Media, images, {"stage", "built"} \union images}
WithPrerequisites(G) == G \union UNION {Prerequisites[t] : t \in G}
Closure(G) == WithPrerequisites(WithPrerequisites(WithPrerequisites(G)))

Variant == board \in VariantBoards
Images == Media \union (IF Variant THEN {"nvme"} ELSE {})
Empty == [t \in Targets |-> None]
NoSnapshot == [of |-> {}, compiled |-> FALSE]
Write(f, t, x) == [f EXCEPT ![t] = x]

(***************************************************************************)
(* make                                                                    *)
(***************************************************************************)
\* The goals each command gives to make.
Goals(name, itb) ==
    CASE name = "chainload" -> <<{"fit", "source", "binary"} \union Images>>
      [] name = "check" -> IF itb = None THEN <<{"binary"}, Images>> ELSE <<{"binary"}>>
      [] OTHER -> <<{name}>>

Start(name, itb) ==
    /\ command = None /\ commands < MaxCommands
    /\ command' = [name |-> name, itb |-> itb, since |-> pins]
    /\ todo' = Goals(name, itb)
    /\ done' = {}
    /\ report' = None
    /\ commands' = commands + 1
    /\ UNCHANGED <<board, pins, noticed, tree, old, scriptVars, faults>>

\* The command has ended; what it made stays.
Ends(ok) ==
    /\ command' = None /\ todo' = <<>> /\ done' = {}
    /\ script' = "off"
    /\ report' = [command |-> command, ok |-> ok]

Considers(t) ==
    /\ command /= None /\ todo /= <<>>
    /\ t \in Closure(Head(todo)) \ done
    /\ Prerequisites[t] \subseteq done
Stale(t) == tree[t] = None \/ t \in old
Runs(t) == Considers(t) /\ Stale(t)

\* What the recipe of t leaves is newer than everything it was made from.
Makes(t, x) ==
    /\ tree' = Write(tree, t, x)
    /\ old' = (old \ {t}) \union Dependants(t)
    /\ done' = done \union {t}
    /\ UNCHANGED <<board, pins, noticed, scriptVars, command, todo, report, commands, faults>>

\* A target that is up to date; the recipe of what the script leaves only
\* looks whether it is there.
Keep(t) ==
    /\ Considers(t) /\ tree[t] /= None
    /\ t \in old => t \in Uboot
    /\ done' = done \union {t}
    /\ UNCHANGED <<board, pins, noticed, tree, old, scriptVars, command, todo, report, commands, faults>>

MakeStage == Runs("stage") /\ Makes("stage", pins)

\* cat stage.bin fit > binary
MakeBinary ==
    Runs("binary") /\ Makes("binary", [stage |-> tree["stage"], fit |-> tree["fit"]])

\* build-chainload-media.sh: built in a temporary directory, then moved, which may
\* be a copy that is cut off (Fail).
MakeImage(m) ==
    /\ Runs(m) /\ snapshot.compiled
    /\ Makes(m, tree[IF m = "nvme" THEN "payload" ELSE "binary"])

\* check_built of tests/check_chainload.py
Passes(itb) ==
    /\ tree["binary"] = [stage |-> tree["stage"], fit |-> tree["fit"]]
    /\ tree["fit"] \notin {None, Partial}
    /\ itb = None =>
          /\ snapshot.compiled /\ tree["source"] /= None
          /\ \A m \in Media : tree[m] = tree["binary"]
          /\ Variant => tree["payload"] /= None /\ tree["nvme"] = tree["payload"]

NextCall ==
    /\ command /= None /\ todo /= <<>> /\ Head(todo) \subseteq done
    /\ todo' = Tail(todo) /\ done' = {}
    /\ UNCHANGED <<board, pins, noticed, tree, old, scriptVars, command, report, commands, faults>>

Finish ==
    /\ command /= None /\ todo = <<>>
    /\ Ends(command.name = "check" => Passes(command.itb))
    /\ UNCHANGED <<board, pins, noticed, tree, old, snapshot, reading, raced, commands, faults>>

\* A recipe that finds nothing to work with fails.
Refuse ==
    /\ \/ \E t \in Uboot : Considers(t) /\ tree[t] = None
       \/ \E m \in Images : Runs(m) /\ ~snapshot.compiled
       \/ Runs("built") /\ script = "off" /\ command.itb = "output" /\ tree["fit"] = None
    /\ Ends(FALSE)
    /\ UNCHANGED <<board, pins, noticed, tree, old, snapshot, reading, raced, commands, faults>>

(***************************************************************************)
(* The recipe of .uboot-built: tools/build-chainload-uboot.sh, then touch  *)
(***************************************************************************)
\* With UBOOT_ITB the script takes that FIT - unless it is the output itself -
\* and removes what belongs to the pinned one.
CopyDevelopment ==
    /\ Runs("built") /\ script = "off" /\ command.itb /= None
    /\ command.itb = "output" => tree["fit"] /= None
    /\ LET kept == Write(Write(tree, "source", None), "payload", None)
       IN  IF command.itb = "output"
           THEN tree' = kept /\ old' = old
           ELSE tree' = Write(kept, "fit", Development) /\ old' = old \union Dependants("fit")
    /\ script' = "touch" /\ raced' = FALSE
    /\ UNCHANGED <<board, pins, noticed, snapshot, reading, makeVars, commands, faults>>

\* Mutant: the FIT of the build before stays until the new one is copied.
RemoveOutputs_KeepsFit ==
    /\ Runs("built") /\ script = "off" /\ command.itb = None
    /\ tree' = Write(tree, "source", None)
    /\ script' = "export" /\ reading' = pins /\ raced' = FALSE
    /\ UNCHANGED <<board, pins, noticed, old, snapshot, makeVars, commands, faults>>

RemoveOutputs ==
    /\ Runs("built") /\ script = "off" /\ command.itb = None
    /\ tree' = Write(Write(tree, "fit", None), "source", None)
    /\ script' = "export" /\ reading' = pins /\ raced' = FALSE
    /\ UNCHANGED <<board, pins, noticed, old, snapshot, makeVars, commands, faults>>

\* export_snapshot: the pinned commit that was read, the overlay as it is now.
ExportSnapshot ==
    /\ script = "export"
    /\ snapshot' = [of |-> {reading, pins}, compiled |-> FALSE]
    /\ script' = "archive"
    /\ UNCHANGED <<board, pins, noticed, tree, old, reading, raced, makeVars, commands, faults>>

ArchiveSource ==
    /\ script = "archive"
    /\ tree' = Write(tree, "source", snapshot.of)
    /\ script' = "compile"
    /\ UNCHANGED <<board, pins, noticed, old, snapshot, reading, raced, makeVars, commands, faults>>

CompileFit ==
    /\ script = "compile"
    /\ snapshot' = [snapshot EXCEPT !.compiled = TRUE]
    /\ tree' = Write(tree, "fit", [source |-> snapshot.of, with |-> pins])
    /\ old' = old \union Dependants("fit")
    /\ script' = IF Variant THEN "variant" ELSE "touch"
    /\ UNCHANGED <<board, pins, noticed, reading, raced, makeVars, commands, faults>>

\* The variant is exported once more, from the overlay as it is then.
CompileVariant ==
    /\ script = "variant"
    /\ tree' = Write(tree, "payload", [source |-> {reading, pins}, with |-> pins])
    /\ old' = old \union Dependants("payload")
    /\ script' = "touch"
    /\ UNCHANGED <<board, pins, noticed, snapshot, reading, raced, makeVars, commands, faults>>

Touch ==
    /\ script = "touch"
    /\ tree' = Write(tree, "built", pins)
    /\ old' = (old \ {"built"}) \union Uboot
    /\ done' = done \union {"built"}
    /\ script' = "off"
    /\ UNCHANGED <<board, pins, noticed, snapshot, reading, raced, command, todo, report, commands, faults>>

(***************************************************************************)
(* What happens around make                                                *)
(***************************************************************************)
\* A change that makes old what is "seen" of it.
Changed(seen) ==
    /\ pins < MaxPins
    /\ pins' = pins + 1
    /\ noticed' = [t \in DOMAIN noticed |-> IF t \in seen THEN pins + 1 ELSE noticed[t]]
    /\ old' = old \union seen
    /\ raced' = (raced \/ (script /= "off" /\ "built" \in seen))
    /\ UNCHANGED <<board, tree, snapshot, script, reading, makeVars, commands, faults>>

Edit == \E seen \in EditKinds : Changed(seen)

\* A recipe fails or make is killed.  What was being copied, the output of cat and
\* what mv was moving from another file system stay behind truncated; on a signal
\* make removes the target, and mv the file that was there.
Fail ==
    /\ command /= None /\ faults < MaxFaults
    /\ faults' = faults + 1
    /\ Ends(FALSE)
    /\ \/ UNCHANGED <<tree, old>>
       \/ /\ \/ script = "compile"
             \/ Runs("built") /\ script = "off" /\ command.itb = "file"
          /\ tree' = Write(tree, "fit", Partial) /\ old' = old \union Dependants("fit")
       \/ /\ script = "variant"
          /\ tree' = Write(tree, "payload", Partial) /\ old' = old \union Dependants("payload")
       \/ \E t \in {"binary"} \union Images, left \in {Partial, None} :
             /\ Runs(t) /\ (t \in Images => snapshot.compiled)
             /\ tree' = Write(tree, t, left) /\ old' = (old \ {t}) \union Dependants(t)
    /\ \E tools \in {script = "compile", FALSE} :
          snapshot' = [snapshot EXCEPT !.compiled = @ \/ tools]
    /\ UNCHANGED <<board, pins, noticed, reading, raced, commands>>

Clean ==
    /\ command = None /\ commands < MaxCommands
    /\ tree' = Empty /\ old' = {} /\ snapshot' = NoSnapshot
    /\ report' = None /\ commands' = commands + 1
    /\ UNCHANGED <<board, pins, noticed, script, reading, raced, command, todo, done, faults>>

BuildInit ==
    /\ board \in Boards
    /\ pins = 1 /\ noticed = [t \in {"stage", "built"} |-> 1]
    /\ tree = Empty /\ old = {}
    /\ snapshot = NoSnapshot /\ script = "off" /\ reading = 1 /\ raced = FALSE
    /\ command = None /\ todo = <<>> /\ done = {} /\ report = None
    /\ commands = 0 /\ faults = 0

\* The steps of make and of its recipes, once a command was given.
MakeStep ==
    \/ \E t \in Targets : Keep(t)
    \/ MakeStage \/ MakeBinary \/ \E m \in Images : MakeImage(m)
    \/ NextCall \/ Finish \/ Refuse
    \/ CopyDevelopment \/ RemoveOutputs \/ ExportSnapshot \/ ArchiveSource
    \/ CompileFit \/ CompileVariant \/ Touch

Names == {"chainload", "check", "binary"} \union Images
BuildNext ==
    \/ MakeStep \/ Edit \/ Fail \/ Clean
    \/ \E name \in Names : Start(name, None)
    \/ \E name \in {"binary", "check"}, itb \in {"file", "output"} : Start(name, itb)
BuildSpec == BuildInit /\ [][BuildNext]_buildVars

-----------------------------------------------------------------------------
BuildTypeOK ==
    /\ board \in Boards /\ pins \in Versions /\ noticed \in [{"stage", "built"} -> Versions]
    /\ tree["stage"] \in Versions \union {None} /\ tree["built"] \in Versions \union {None}
    /\ tree["source"] \in Snapshots \union {None}
    /\ \A t \in {"fit", "payload", "nvme"} : tree[t] \in Fits
    /\ \A t \in {"binary"} \union Media : tree[t] \in Binaries
    /\ old \subseteq Targets /\ done \subseteq Targets
    /\ snapshot \in [of : Snapshots, compiled : BOOLEAN]
    /\ script \in {"off", "export", "archive", "compile", "variant", "touch"}
    /\ reading \in Versions /\ raced \in BOOLEAN
    /\ commands \in 0..MaxCommands /\ faults \in 0..MaxFaults

Pinned(fit) == fit \notin {None, Partial, Development}

\* Corresponding source: a source archive never lies beside a pinned FIT that was
\* compiled from another tree (build-chainload-uboot.sh removes both before it makes
\* either, and a development FIT takes the archive away).
SourceMatchesFit ==
    Pinned(tree["fit"]) /\ tree["source"] /= None => tree["fit"].source = tree["source"]

\* What embeds another stage, FIT or payload than the one beside it - after a script
\* that was followed by a failure - is older than that or truncated.
MismatchIsOld ==
    LET Holds(t, x) == t \in old \/ tree[t] \in {None, Partial, x}
    IN  /\ tree["fit"] /= None =>
              Holds("binary", [stage |-> tree["stage"], fit |-> tree["fit"]])
        /\ \A m \in Media : Holds(m, tree["binary"])
        /\ tree["payload"] /= None => Holds("nvme", tree["payload"])

\* The FIT lies beside its source, the binary is the stage and that FIT, the images
\* carry that binary or payload - or are one of "left".
OfOneTree(left) ==
    /\ Pinned(tree["fit"]) /\ tree["source"] = tree["fit"].source
    /\ tree["binary"] \in left \union {[stage |-> tree["stage"], fit |-> tree["fit"]]}
    /\ \A m \in Media : tree[m] \in left \union {tree["binary"]}
    /\ Variant => Pinned(tree["payload"]) /\ tree["nvme"] \in left \union {tree["payload"]}

\* No part is older than the last change that make notices.
UpToDate ==
    /\ noticed["stage"] <= tree["stage"]
    /\ \A t \in {"fit"} \union (IF Variant THEN {"payload"} ELSE {}) :
          \A v \in tree[t].source \union {tree[t].with} : noticed["built"] <= v

(***************************************************************************)
(* What a successful command says of the tree.  make chainload-check       *)
(* without UBOOT_ITB accepts only one whose FIT is pinned and complete and *)
(* has its source archive, whose binary is the stage followed by that FIT, *)
(* and whose images carry that binary - never a development FIT or what a  *)
(* failed command left behind.  make chainload leaves no image of another  *)
(* FIT or stage than those beside it, whatever was built or broken before, *)
(* but it takes what a cut-off cat or mv left truncated for new.  Nothing  *)
(* it leaves is older than the last edit make can see - an upgraded        *)
(* compiler or a deleted file it does not - unless that edit came after    *)
(* the command started or while the U-Boot script ran: touch then hides it *)
(* from every later make.                                                  *)
(***************************************************************************)
ReportTruthful ==
    LET Says(name) == report.ok /\ report.command.name = name /\ report.command.itb = None
    IN  report /= None =>
        /\ Says("check") => OfOneTree({})
        /\ Says("chainload") => OfOneTree({Partial})
        /\ /\ Says("chainload") /\ ~raced
           /\ \A t \in DOMAIN noticed : noticed[t] <= report.command.since
           => UpToDate
=============================================================================
