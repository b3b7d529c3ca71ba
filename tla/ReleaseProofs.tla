---------------------------- MODULE ReleaseProofs ----------------------------
(***************************************************************************)
(* Proofs about the build tree and the release job, for any boards, media, *)
(* versions of the pins, commands, faults and attempts: sources belong to  *)
(* the FIT beside them, a published release never changes, what the        *)
(* workflow publishes is of one build, a successful make says the truth    *)
(* about the tree, and a job that succeeds or fails does so for a reason.  *)
(***************************************************************************)
EXTENDS Release, TLAPS

Compared == {"stage", "fit", "source", "payload", "binary", "nvme"} \union Media

BaseInv ==
    /\ board \in Boards /\ pins \in Versions /\ reading \in Versions
    /\ DOMAIN tree = Targets
    /\ snapshot \in [of : Snapshots, compiled : BOOLEAN]
    /\ script \in {"off", "export", "archive", "compile", "variant", "touch"}
    /\ machine \in {"workstation", "runner"} /\ job \in Steps

\* Who runs commands, and that none is running between them.
CommandInv ==
    /\ command = None => script = "off" /\ done = {}
    /\ machine = "workstation" => job = "idle"
    /\ machine = "runner" /\ command /= None => job \in {"chainload", "check"}

\* A FIT lies beside its own source, beside none, or is no FIT.
SourceKept ==
    \/ tree["fit"] \in {None, Partial} \/ tree["source"] = None
    \/ Pinned(tree["fit"]) /\ tree["fit"].source = tree["source"]

\* While the script runs both are taken away and made in order.
SourceInv ==
    /\ script \in {"export", "archive"} => tree["fit"] = None /\ tree["source"] = None
    /\ script = "compile" => tree["fit"] = None /\ tree["source"] = snapshot.of
    /\ script \in {"off", "variant", "touch"} => SourceKept

DistInv ==
    dist /= None /\ dist.chain /= None
    => \/ dist.chain["fit"] = Partial
       \/ Pinned(dist.chain["fit"]) /\ dist.chain["source"] = dist.chain["fit"].source

TreeInv == BaseInv /\ CommandInv /\ SourceInv /\ DistInv

-----------------------------------------------------------------------------
LEMMA TargetNames ==
    /\ {"stage", "built", "fit", "source", "payload", "binary", "nvme"} \subseteq Targets
    /\ Media \subseteq Targets
    /\ \A m \in Media : m \notin {"stage", "built", "fit", "source", "payload", "binary", "nvme"}
    /\ Images \subseteq Media \union {"nvme"}
<1>1. {"stage", "built", "fit", "source", "payload", "binary", "nvme"} \subseteq Targets
  BY DEF Targets, Uboot
<1>2. Media \subseteq Targets
  BY DEF Targets
<1>3. ASSUME NEW m \in Media
      PROVE  m \notin {"stage", "built", "fit", "source", "payload", "binary", "nvme"}
  BY NamesAssumption DEF Uboot
<1>4. Images \subseteq Media \union {"nvme"}
  BY DEF Images
<1> QED
  BY <1>1, <1>2, <1>3, <1>4

LEMMA Written ==
    ASSUME BaseInv, NEW t \in Targets, NEW x
    PROVE  /\ DOMAIN Write(tree, t, x) = Targets
           /\ Write(tree, t, x)[t] = x
           /\ \A u \in Targets : u /= t => Write(tree, t, x)[u] = tree[u]
BY DEF BaseInv, Write

\* An edit, the upgrade of the runner's tools included, makes targets old and nothing else.
LEMMA UpgradeIsEdit == Upgrade => Edit
<1>1. {} \in EditKinds
  BY DEF EditKinds
<1> QED
  BY <1>1 DEF Upgrade, Edit

LEMMA EditChanges ==
    ASSUME Edit
    PROVE  /\ pins < MaxPins /\ pins' = pins + 1 /\ old \subseteq old'
           /\ UNCHANGED <<board, tree, snapshot, script, reading, makeVars, commands, faults>>
BY DEF Edit, Changed

-----------------------------------------------------------------------------
(***************************************************************************)
(* A FIT beside its source                                                 *)
(***************************************************************************)
LEMMA InitTreeInv == Init => TreeInv
<1> SUFFICES ASSUME Init PROVE TreeInv
  OBVIOUS
<1>1. tree["fit"] = None /\ tree["source"] = None /\ DOMAIN tree = Targets
  BY TargetNames DEF Init, BuildInit, Empty
<1>2. BaseInv
  BY <1>1, BoundsAssumption DEF Init, BuildInit, BaseInv, NoSnapshot, Versions, Snapshots, Steps
<1> QED
  BY <1>1, <1>2 DEF Init, BuildInit, TreeInv, CommandInv, SourceInv, SourceKept, DistInv

\* The recipes write no FIT and no source archive, but for the script's.
LEMMA RecipeKeeps ==
    ASSUME TreeInv, NEW t \in {"stage", "binary"} \union Images, NEW x,
           Considers(t), Makes(t, x), UNCHANGED releaseVars
    PROVE  TreeInv'
<1>1. t \in Targets /\ t /= "fit" /\ t /= "source"
  BY TargetNames
<1>2. tree'["fit"] = tree["fit"] /\ tree'["source"] = tree["source"] /\ DOMAIN tree' = Targets
  BY <1>1, Written, TargetNames DEF Makes, TreeInv
<1>3. BaseInv'
  BY <1>2 DEF TreeInv, BaseInv, Makes, scriptVars, releaseVars
<1>4. CommandInv'
  BY DEF TreeInv, CommandInv, Makes, scriptVars, releaseVars, Considers
<1>5. SourceInv' /\ DistInv'
  BY <1>2 DEF TreeInv, SourceInv, SourceKept, DistInv, Pinned, Makes, scriptVars, releaseVars
<1> QED
  BY <1>3, <1>4, <1>5 DEF TreeInv

LEMMA CallKeeps ==
    ASSUME TreeInv, UNCHANGED releaseVars,
           (\E t \in Targets : Keep(t)) \/ NextCall \/ Finish \/ Refuse
    PROVE  TreeInv'
<1>1. UNCHANGED <<board, pins, tree, snapshot, reading, machine, job, dist>>
  BY DEF Keep, NextCall, Finish, Refuse, scriptVars, releaseVars
<1>2. script' \in {script, "off"}
  BY DEF Keep, NextCall, Finish, Refuse, Ends, scriptVars
<1>3. BaseInv'
  BY <1>1, <1>2 DEF TreeInv, BaseInv
<1>4. CommandInv'
  BY <1>1 DEF TreeInv, CommandInv, Keep, NextCall, Finish, Refuse, Ends, Considers, scriptVars
<1>5. SourceInv' /\ DistInv'
  BY <1>1, <1>2 DEF TreeInv, BaseInv, SourceInv, SourceKept, DistInv, Pinned
<1> QED
  BY <1>3, <1>4, <1>5 DEF TreeInv

LEMMA ScriptKeeps ==
    ASSUME TreeInv, UNCHANGED releaseVars,
           \/ CopyDevelopment \/ RemoveOutputs \/ ExportSnapshot \/ ArchiveSource
           \/ CompileFit \/ CompileVariant \/ Touch
    PROVE  TreeInv'
<1>1. CommandInv'
  <2>1. command /= None
    BY DEF TreeInv, BaseInv, CommandInv, CopyDevelopment, RemoveOutputs, ExportSnapshot,
           ArchiveSource, CompileFit, CompileVariant, Touch, Runs, Considers
  <2> QED
    BY <2>1 DEF TreeInv, CommandInv, CopyDevelopment, RemoveOutputs, ExportSnapshot, ArchiveSource,
           CompileFit, CompileVariant, Touch, makeVars, releaseVars
<1>2. DistInv'
  BY DEF TreeInv, DistInv, Pinned, releaseVars
<1>3. CASE CopyDevelopment
  <2>1. tree'["source"] = None /\ DOMAIN tree' = Targets
    <3> DEFINE kept == Write(Write(tree, "source", None), "payload", None)
    <3>1. DOMAIN kept = Targets /\ kept["source"] = None
      BY TargetNames DEF TreeInv, BaseInv, Write
    <3>2. DOMAIN Write(kept, "fit", Development) = Targets
          /\ Write(kept, "fit", Development)["source"] = None
      BY <3>1, TargetNames DEF Write
    <3> QED
      BY <1>3, <3>1, <3>2 DEF CopyDevelopment
  <2>2. script' = "touch" /\ UNCHANGED <<board, pins, snapshot, reading, machine, job>>
    BY <1>3 DEF CopyDevelopment, releaseVars
  <2> QED
    BY <1>1, <1>2, <2>1, <2>2 DEF TreeInv, BaseInv, SourceInv, SourceKept
<1>4. CASE RemoveOutputs
  <2>1. tree'["source"] = None /\ tree'["fit"] = None /\ DOMAIN tree' = Targets
    BY <1>4, TargetNames DEF RemoveOutputs, TreeInv, BaseInv, Write
  <2>2. script' = "export" /\ reading' = pins /\ UNCHANGED <<board, pins, snapshot, machine, job>>
    BY <1>4 DEF RemoveOutputs, releaseVars
  <2> QED
    BY <1>1, <1>2, <2>1, <2>2 DEF TreeInv, BaseInv, SourceInv
<1>5. CASE ExportSnapshot
  <2>1. script' = "archive" /\ snapshot' = [of |-> {reading, pins}, compiled |-> FALSE]
        /\ script = "export" /\ UNCHANGED <<board, pins, tree, reading, machine, job>>
    BY <1>5 DEF ExportSnapshot, releaseVars
  <2>2. {reading, pins} \in Snapshots
    BY DEF TreeInv, BaseInv, Snapshots
  <2> QED
    BY <1>1, <1>2, <2>1, <2>2 DEF TreeInv, BaseInv, SourceInv
<1>6. CASE ArchiveSource
  <2>1. script' = "compile" /\ script = "archive"
        /\ UNCHANGED <<board, pins, snapshot, reading, machine, job>>
    BY <1>6 DEF ArchiveSource, releaseVars
  <2>2. tree'["source"] = snapshot.of /\ tree'["fit"] = tree["fit"] /\ DOMAIN tree' = Targets
    BY <1>6, Written, TargetNames DEF ArchiveSource, TreeInv
  <2> QED
    BY <1>1, <1>2, <2>1, <2>2 DEF TreeInv, BaseInv, SourceInv
<1>7. CASE CompileFit
  <2> DEFINE fit == [source |-> snapshot.of, with |-> pins]
  <2>1. script' \in {"variant", "touch"} /\ script = "compile"
        /\ UNCHANGED <<board, pins, reading, machine, job>>
        /\ snapshot' = [snapshot EXCEPT !.compiled = TRUE]
    BY <1>7 DEF CompileFit, releaseVars
  <2>2. tree'["source"] = tree["source"] /\ tree'["fit"] = fit /\ DOMAIN tree' = Targets
    BY <1>7, Written, TargetNames DEF CompileFit, TreeInv
  <2>3. Pinned(fit)
    BY NothingAssumption DEF TreeInv, BaseInv, PinnedBuilds, Pinned
  <2>4. snapshot' \in [of : Snapshots, compiled : BOOLEAN]
    BY <2>1 DEF TreeInv, BaseInv
  <2> QED
    BY <1>1, <1>2, <2>1, <2>2, <2>3, <2>4 DEF TreeInv, BaseInv, SourceInv, SourceKept
<1>8. CASE CompileVariant
  <2>1. script' = "touch" /\ script = "variant"
        /\ UNCHANGED <<board, pins, snapshot, reading, machine, job>>
    BY <1>8 DEF CompileVariant, releaseVars
  <2>2. tree'["source"] = tree["source"] /\ tree'["fit"] = tree["fit"] /\ DOMAIN tree' = Targets
    BY <1>8, Written, TargetNames DEF CompileVariant, TreeInv
  <2> QED
    BY <1>1, <1>2, <2>1, <2>2 DEF TreeInv, BaseInv, SourceInv, SourceKept, Pinned
<1>9. CASE Touch
  <2>1. script' = "off" /\ script = "touch"
        /\ UNCHANGED <<board, pins, snapshot, reading, machine, job>>
    BY <1>9 DEF Touch, releaseVars
  <2>2. tree'["source"] = tree["source"] /\ tree'["fit"] = tree["fit"] /\ DOMAIN tree' = Targets
    BY <1>9, Written, TargetNames DEF Touch, TreeInv
  <2> QED
    BY <1>1, <1>2, <2>1, <2>2 DEF TreeInv, BaseInv, SourceInv, SourceKept, Pinned
<1> QED
  BY <1>3, <1>4, <1>5, <1>6, <1>7, <1>8, <1>9

LEMMA AroundMakeKeeps ==
    ASSUME TreeInv, Breaks \/ Workstation \/ Upgrade \/ RunMake
    PROVE  TreeInv'
<1>1. CASE Breaks
  <2>1. tree'["source"] = tree["source"] /\ tree'["fit"] \in {tree["fit"], Partial}
        /\ DOMAIN tree' = Targets
    BY <1>1, Written, TargetNames DEF Breaks, Fail, TreeInv, BaseInv
  <2>2. UNCHANGED <<board, pins, reading, machine, job, dist>> /\ script' = "off" /\ done' = {}
        /\ command' = None
    BY <1>1 DEF Breaks, Fail, Ends, releaseVars
  <2>3. snapshot' \in [of : Snapshots, compiled : BOOLEAN]
    <3>1. PICK tools \in {script = "compile", FALSE} :
               snapshot' = [snapshot EXCEPT !.compiled = @ \/ tools]
      BY <1>1 DEF Breaks, Fail
    <3>2. (snapshot.compiled \/ tools) \in BOOLEAN
      OBVIOUS
    <3> QED
      BY <3>1, <3>2 DEF TreeInv, BaseInv
  <2>4. SourceKept \/ tree["fit"] = None
    BY DEF TreeInv, BaseInv, SourceInv
  <2>5. SourceInv'
    BY <2>1, <2>2, <2>4 DEF SourceInv, SourceKept, Pinned
  <2>6. DistInv'
    BY <2>2 DEF TreeInv, DistInv, Pinned
  <2> QED
    BY <2>1, <2>2, <2>3, <2>5, <2>6 DEF TreeInv, BaseInv, CommandInv
<1>2. CASE Edit /\ UNCHANGED releaseVars
  <2>1. pins' \in Versions
    BY <1>2, EditChanges, BoundsAssumption DEF TreeInv, BaseInv, Versions
  <2> QED
    BY <1>2, <2>1, EditChanges DEF TreeInv, BaseInv, CommandInv, SourceInv, SourceKept, DistInv,
       Pinned, makeVars, releaseVars
<1>3. CASE Clean /\ UNCHANGED releaseVars
  <2>1. tree'["source"] = None /\ tree'["fit"] = None /\ DOMAIN tree' = Targets
    BY <1>3, TargetNames DEF Clean, Empty
  <2>2. snapshot' \in [of : Snapshots, compiled : BOOLEAN]
    BY <1>3 DEF Clean, NoSnapshot, Snapshots
  <2> QED
    BY <1>3, <2>1, <2>2 DEF Clean, TreeInv, BaseInv, CommandInv, SourceInv, SourceKept, DistInv,
       Pinned, releaseVars
<1>4. ASSUME NEW name, NEW itb, Start(name, itb), UNCHANGED releaseVars,
             machine = "workstation" \/ job \in {"chainload", "check"}
      PROVE  TreeInv'
  BY <1>4 DEF Start, TreeInv, BaseInv, CommandInv, SourceInv, SourceKept, DistInv, Pinned,
     scriptVars, releaseVars
<1> QED
  BY <1>1, <1>2, <1>3, <1>4, UpgradeIsEdit DEF Workstation, Upgrade, RunMake

\* The archives hold what lay in the tree between two commands.
LEMMA ArchivesKeep ==
    ASSUME TreeInv, script = "off", NEW setting, Packable(setting), NEW whole,
           dist' = Archives(whole)
    PROVE  DistInv'
<1> SUFFICES ASSUME dist'.chain /= None
             PROVE  \/ dist'.chain["fit"] = Partial
                    \/ Pinned(dist'.chain["fit"])
                       /\ dist'.chain["source"] = dist'.chain["fit"].source
  BY DEF DistInv, Pinned
<1>1. dist'.chain = [t \in Inputs |-> tree[t]] /\ Present = Inputs
  BY DEF Archives, Packable
<1>2. {"fit", "source"} \subseteq Inputs
  BY DEF Inputs
<1>3. tree["fit"] /= None /\ tree["source"] /= None
  BY <1>1, <1>2 DEF Present
<1>4. SourceKept
  BY DEF TreeInv, SourceInv
<1> QED
  BY <1>1, <1>2, <1>3, <1>4 DEF SourceKept

LEMMA JobKeeps ==
    ASSUME TreeInv,
           \/ PackageLocally \/ Checkout \/ MakeEnded \/ Package \/ Verify \/ Lookup \/ Compare
           \/ DeleteDraft \/ CreateDraft \/ Confirm \/ Publish \/ Fault \/ PersonPublishes
    PROVE  TreeInv'
<1>1. CASE Checkout
  <2>1. tree'["source"] = None /\ tree'["fit"] = None /\ DOMAIN tree' = Targets
    BY <1>1, TargetNames DEF Checkout, Empty
  <2>2. snapshot' \in [of : Snapshots, compiled : BOOLEAN]
    BY <1>1 DEF Checkout, NoSnapshot, Snapshots
  <2>3. machine = "runner" /\ command = None /\ script = "off" /\ done = {}
    BY <1>1 DEF Checkout, Resting, TreeInv, CommandInv
  <2>4. /\ job' = "chainload" /\ dist' = None
        /\ UNCHANGED <<board, pins, reading, script, machine, command, done>>
    BY <1>1 DEF Checkout
  <2>5. BaseInv' /\ CommandInv'
    BY <2>1, <2>2, <2>3, <2>4 DEF TreeInv, BaseInv, CommandInv, Steps
  <2>6. SourceInv' /\ DistInv'
    BY <2>1, <2>3, <2>4 DEF SourceInv, SourceKept, DistInv
  <2> QED
    BY <2>5, <2>6 DEF TreeInv
<1>2. ASSUME UNCHANGED <<board, pins, tree, old, scriptVars, makeVars>>, UNCHANGED machine,
             job' \in Steps, DistInv',
             machine = "workstation" => job' = "idle",
             machine = "runner" => command = None \/ job' \in {"chainload", "check"}
      PROVE  TreeInv'
  BY <1>2 DEF TreeInv, BaseInv, CommandInv, SourceInv, SourceKept, Pinned, scriptVars, makeVars
<1>3. CASE PackageLocally
  <2>1. DistInv'
    BY <1>3, ArchivesKeep DEF PackageLocally, TreeInv, CommandInv
  <2> QED
    BY <1>2, <1>3, <2>1 DEF PackageLocally, TreeInv, BaseInv, CommandInv
<1>4. CASE Package \/ Fault
  <2>1. machine = "runner" /\ command = None /\ script = "off"
    BY <1>4 DEF Package, Fault, TreeInv, BaseInv, CommandInv, Steps
  <2>2. DistInv'
    <3>1. CASE dist' = dist
      BY <3>1 DEF TreeInv, DistInv, Pinned
    <3>2. CASE Packable("1") /\ \E whole \in BOOLEAN : dist' = Archives(whole)
      BY <2>1, <3>2, ArchivesKeep
    <3> QED
      BY <1>4, <3>1, <3>2 DEF Package, Fault, ToStep, OnHub
  <2>3. job' \in Steps /\ UNCHANGED machine
    BY <1>4 DEF Package, Fault, ToStep, OnHub, Steps
  <2>4. UNCHANGED <<board, pins, tree, old, scriptVars, makeVars>>
    BY <1>4 DEF Package, Fault, buildVars
  <2> QED
    BY <1>2, <2>1, <2>2, <2>3, <2>4
<1>5. CASE \/ MakeEnded \/ Verify \/ Lookup \/ Compare \/ DeleteDraft \/ CreateDraft
           \/ Confirm \/ Publish
  <2>1. UNCHANGED <<board, pins, tree, old, scriptVars, makeVars, machine, dist>>
    BY <1>5 DEF MakeEnded, Verify, Lookup, Compare, DeleteDraft, CreateDraft, Confirm, Publish,
       ToStep, OnHub, buildVars
  <2>2. job' \in Steps /\ job /= "idle"
    BY <1>5 DEF MakeEnded, Verify, Lookup, Compare, DeleteDraft, CreateDraft, Confirm, Publish,
       ToStep, OnHub, Steps
  <2>3. command = None
    BY <1>5 DEF MakeEnded, Verify, Lookup, Compare, DeleteDraft, CreateDraft, Confirm, Publish,
       TreeInv, BaseInv, CommandInv
  <2>4. DistInv'
    BY <2>1 DEF TreeInv, DistInv, Pinned
  <2> QED
    BY <1>2, <2>1, <2>2, <2>3, <2>4 DEF TreeInv, CommandInv
<1>6. CASE PersonPublishes
  <2>1. UNCHANGED <<board, pins, tree, old, scriptVars, makeVars, machine, dist, job>>
    BY <1>6 DEF PersonPublishes, buildVars
  <2>2. DistInv'
    BY <2>1 DEF TreeInv, DistInv, Pinned
  <2> QED
    BY <1>2, <2>1, <2>2 DEF TreeInv, BaseInv, CommandInv
<1> QED
  BY <1>1, <1>3, <1>4, <1>5, <1>6

LEMMA TreeInvKept == TreeInv /\ [Next]_vars => TreeInv'
<1> SUFFICES ASSUME TreeInv, [Next]_vars PROVE TreeInv'
  OBVIOUS
<1>1. CASE UNCHANGED vars
  BY <1>1 DEF TreeInv, BaseInv, CommandInv, SourceInv, SourceKept, DistInv, Pinned, vars, buildVars,
     scriptVars, makeVars, releaseVars
<1>2. CASE Works
  <2>1. CASE MakeStage \/ MakeBinary \/ \E m \in Images : MakeImage(m)
    BY <1>2, <2>1, RecipeKeeps DEF Works, MakeStage, MakeBinary, MakeImage, Runs
  <2>2. CASE (\E t \in Targets : Keep(t)) \/ NextCall \/ Finish \/ Refuse
    BY <1>2, <2>2, CallKeeps DEF Works
  <2>3. CASE \/ CopyDevelopment \/ RemoveOutputs \/ ExportSnapshot \/ ArchiveSource
             \/ CompileFit \/ CompileVariant \/ Touch
    BY <1>2, <2>3, ScriptKeeps DEF Works
  <2> QED
    BY <1>2, <2>1, <2>2, <2>3 DEF Works, MakeStep
<1>3. CASE Breaks \/ Workstation \/ Upgrade \/ RunMake
  BY <1>3, AroundMakeKeeps
<1>4. CASE \/ PackageLocally \/ Checkout \/ MakeEnded \/ Package \/ Verify \/ Lookup \/ Compare
           \/ DeleteDraft \/ CreateDraft \/ Confirm \/ Publish \/ Fault \/ PersonPublishes
  BY <1>4, JobKeeps
<1> QED
  BY <1>1, <1>2, <1>3, <1>4 DEF Next, Workflow

-----------------------------------------------------------------------------
(***************************************************************************)
(* Published releases                                                      *)
(***************************************************************************)
\* Drafts are the workflow's, and no job deletes or publishes anything else.
HubInv ==
    /\ hub /= None /\ hub.draft => hub = Draft(hub.assets)
    /\ job \in {"delete", "publish"} => ~Published
    /\ job = "publish" => hub = Draft(dist)

LEMMA HubInvKept == TreeInv /\ HubInv /\ [Next]_vars => HubInv' /\ (Published => hub' = hub)
<1> SUFFICES ASSUME TreeInv, HubInv, [Next]_vars PROVE HubInv' /\ (Published => hub' = hub)
  OBVIOUS
<1>1. CASE \/ UNCHANGED vars \/ Works \/ Breaks \/ Workstation \/ Upgrade \/ RunMake
  <2>1. UNCHANGED <<hub, job, dist>>
    BY <1>1 DEF vars, Works, Breaks, Workstation, Upgrade, RunMake, releaseVars
  <2> QED
    BY <2>1 DEF HubInv, Published, Draft
<1>2. CASE \/ PackageLocally \/ Checkout \/ MakeEnded \/ Package \/ Verify \/ Compare
  <2>1. hub' = hub /\ (job' = job \/ job' \notin {"delete", "publish"})
    BY <1>2 DEF PackageLocally, Checkout, MakeEnded, Package, Verify, Compare, ToStep
  <2>2. job' = "publish" => dist' = dist
    BY <1>2 DEF PackageLocally, Checkout, MakeEnded, Package, Verify, Compare, ToStep,
       TreeInv, CommandInv
  <2> QED
    BY <2>1, <2>2 DEF HubInv, Published, Draft
<1>3. CASE Lookup \/ Confirm
  <2>1. hub' = hub /\ dist' = dist
    BY <1>3 DEF Lookup, Confirm, ToStep
  <2>2. job' \in {"delete", "publish"} => hub /= None /\ hub.draft
    BY <1>3 DEF Lookup, Confirm, ToStep
  <2>3. job' = "publish" => hub = Draft(dist)
    BY <1>3 DEF Lookup, Confirm, ToStep, HubInv
  <2> QED
    BY <2>1, <2>2, <2>3 DEF HubInv, Published, Draft
<1>4. CASE DeleteDraft \/ (job = "delete" /\ OnHub(None, "failed"))
  BY <1>4 DEF DeleteDraft, OnHub, HubInv, Published
<1>5. CASE CreateDraft
  BY <1>5 DEF CreateDraft, OnHub, ToStep, HubInv, Published, Draft
<1>6. CASE Publish \/ (job = "publish" /\ OnHub([hub EXCEPT !.draft = FALSE], "failed"))
  <2>1. hub' = [Draft(dist) EXCEPT !.draft = FALSE] /\ job' \in {"done", "failed"} /\ ~Published
    BY <1>6 DEF Publish, OnHub, HubInv
  <2>2. ~hub'.draft
    BY <2>1 DEF Draft
  <2> QED
    BY <2>1, <2>2 DEF HubInv
<1>7. CASE job = "create" /\ hub = None /\ \E assets : OnHub(Draft(assets), "failed")
  BY <1>7 DEF OnHub, HubInv, Published, Draft
<1>8. CASE job' = "failed" /\ hub' = hub
  BY <1>8 DEF HubInv, Published, Draft
<1>9. CASE Fault
  BY <1>4, <1>6, <1>7, <1>8, <1>9 DEF Fault, ToStep
<1>10. CASE PersonPublishes
  BY <1>10 DEF PersonPublishes, HubInv, Published
<1> QED
  BY <1>1, <1>2, <1>3, <1>4, <1>5, <1>6, <1>9, <1>10 DEF Next, Workflow

(***************************************************************************)
(* docs/releases.md: a published release is never modified or deleted,     *)
(* whatever a retry finds - also one a person published before the lookup  *)
(* or before the draft is created (release.yml).                           *)
(***************************************************************************)
THEOREM PublishedStays == Spec => PublishedFinal
<1>1. Init => HubInv
  BY DEF Init, HubInv, Published
<1>2. TreeInv /\ HubInv /\ [Next]_vars => TreeInv' /\ HubInv'
  BY HubInvKept, TreeInvKept
<1>3. TreeInv /\ HubInv /\ [Next]_vars => [Published => hub' = hub]_vars
  BY HubInvKept
<1> QED
  BY InitTreeInv, <1>1, <1>2, <1>3, PTL DEF Spec, PublishedFinal

-----------------------------------------------------------------------------
(***************************************************************************)
(* What is published is of one build                                       *)
(***************************************************************************)
Building == machine = "runner" /\ job \in {"chainload", "check", "package"}
Now == [source |-> {pins}, with |-> pins]

\* On the runner nothing is edited during an attempt, so all there is is of these pins.
PinsInv ==
    Building =>
    /\ tree["stage"] \in {None, pins}
    /\ "stage" \in done \/ "binary" \in done => tree["stage"] = pins
    /\ tree["fit"] \in {None, Partial, Now}
    /\ tree["source"] \in {None, {pins}}
    /\ tree["payload"] \in {None, Partial, Now}
    /\ script /= "off" => reading = pins
    /\ script \in {"archive", "compile"} => snapshot.of = {pins}

\* The tree as chainload-check accepts it.
Accepted == Passes(None) /\ tree["stage"] = pins /\ tree["payload"] /= Partial

\* A command that was cut off fails its job; one that succeeded has seen the whole tree.
MakeInv ==
    Building =>
    /\ report = None \/ report \in Reports
    /\ command /= None => command \in Commands /\ command.name = job /\ command.itb = None
    /\ command /= None /\ job = "check" => todo = Goals("check", None) \/ tree["stage"] = pins
    /\ tree["payload"] = Partial =>
        command = None /\ report /= None /\ report.command.name = job /\ ~report.ok
    /\ job = "check" /\ command = None /\ Reported /\ report.ok => Accepted
    /\ job = "package" => Accepted

BuildingInv == PinsInv /\ MakeInv

LEMMA TreeChange ==
    ASSUME TreeInv, NEW t \in Targets, NEW x, tree' = Write(tree, t, x)
    PROVE  \A u \in Targets : tree'[u] = IF u = t THEN x ELSE tree[u]
BY Written DEF TreeInv

\* The steps that leave what the invariant looks at alone, and go on with the command.
LEMMA BuildingGoesOn ==
    ASSUME BuildingInv, Building, UNCHANGED <<board, pins, machine, job, report, command>>,
           command /= None, job /= "package",
           todo' = todo \/ tree'["stage"] = pins,
           tree["stage"] = pins => tree'["stage"] = pins,
           tree'["payload"] /= Partial
    PROVE  MakeInv'
<1>1. MakeInv
  BY DEF BuildingInv
<1>2. Goals("check", None)' = Goals("check", None)
  BY DEF Goals, Images, Variant
<1>3. job' = "check" => todo' = Goals("check", None)' \/ tree'["stage"] = pins'
  BY <1>1, <1>2 DEF MakeInv
<1> QED
  BY <1>1, <1>3 DEF MakeInv, Building

LEMMA MakeStepBuilding ==
    ASSUME TreeInv, BuildingInv, Works
    PROVE  BuildingInv'
<1> SUFFICES ASSUME Building PROVE BuildingInv'
  BY DEF BuildingInv, PinsInv, MakeInv, Building, Works, releaseVars
<1> USE NothingAssumption
<1>1. /\ command /= None /\ job /= "package" /\ Building'
      /\ UNCHANGED <<board, pins, machine, job>>
  <2>1. command /= None
    BY DEF Works, MakeStep, Keep, MakeStage, MakeBinary, MakeImage, NextCall, Finish, Refuse, Runs,
       Considers, CopyDevelopment, RemoveOutputs, ExportSnapshot, ArchiveSource, CompileFit,
       CompileVariant, Touch, TreeInv, CommandInv
  <2>2. UNCHANGED <<machine, job>>
    BY DEF Works, releaseVars
  <2>3. UNCHANGED <<board, pins>>
    BY DEF Works, MakeStep, Keep, MakeStage, MakeBinary, MakeImage, Makes, NextCall, Finish, Refuse,
       CopyDevelopment, RemoveOutputs, ExportSnapshot, ArchiveSource, CompileFit, CompileVariant, Touch
  <2> QED
    BY <2>1, <2>2, <2>3 DEF TreeInv, CommandInv, Building
<1>2. tree["payload"] /= Partial /\ command \in Commands /\ command.name = job /\ command.itb = None
  BY <1>1 DEF BuildingInv, MakeInv
<1>3. pins \in Versions /\ pins /= None
  BY DEF TreeInv, BaseInv
<1>4. ASSUME NEW t \in {"stage", "binary"} \union Images, NEW x, Makes(t, x),
             t = "stage" => x = pins, t = "binary" => "stage" \in done
      PROVE  BuildingInv'
  <2>1. /\ tree'["stage"] = IF t = "stage" THEN pins ELSE tree["stage"]
        /\ tree'["fit"] = tree["fit"] /\ tree'["source"] = tree["source"]
        /\ tree'["payload"] = tree["payload"]
    BY <1>4, TreeChange, TargetNames DEF Makes
  <2>2. done' = done \union {t} /\ UNCHANGED <<script, reading, snapshot, command, todo, report>>
    BY <1>4 DEF Makes, scriptVars
  <2>5. "stage" \in done' \/ "binary" \in done' => tree'["stage"] = pins
    <3>1. "stage" \in done \/ "binary" \in done => tree["stage"] = pins
      BY DEF BuildingInv, PinsInv
    <3>2. CASE t = "stage"
      BY <1>4, <2>1, <3>2
    <3>3. CASE t = "binary"
      BY <1>4, <2>1, <3>1, <3>3
    <3>4. CASE t \notin {"stage", "binary"}
      BY <2>1, <2>2, <3>1, <3>4
    <3> QED
      BY <3>2, <3>3, <3>4
  <2>7. PinsInv'
    BY <1>1, <1>4, <2>1, <2>2, <2>5 DEF BuildingInv, PinsInv, Now
  <2>6. MakeInv'
    BY <1>1, <1>2, <2>1, <2>2, BuildingGoesOn DEF BuildingInv
  <2> QED
    BY <2>6, <2>7 DEF BuildingInv
<1>5. CASE MakeStage
  BY <1>4, <1>5 DEF MakeStage
<1>6. CASE MakeBinary
  <2>1. Prerequisites["binary"] = {"stage", "fit"}
    BY TargetNames DEF Prerequisites, Uboot
  <2> QED
    BY <1>4, <1>6, <2>1 DEF MakeBinary, Runs, Considers
<1>7. CASE \E m \in Images : MakeImage(m)
  BY <1>4, <1>7, TargetNames DEF MakeImage
<1>8. CASE \E t \in Targets : Keep(t)
  <2> PICK t \in Targets : Keep(t)
    BY <1>8
  <2>1. /\ done' = done \union {t} /\ tree[t] /= None
        /\ UNCHANGED <<tree, script, reading, snapshot, todo, report, command>>
    BY DEF Keep, scriptVars
  <2>2. t = "binary" => "stage" \in done
    <3>1. Prerequisites["binary"] = {"stage", "fit"}
      BY TargetNames DEF Prerequisites, Uboot
    <3> QED
      BY <3>1 DEF Keep, Considers
  <2>3. PinsInv'
    BY <1>1, <2>1, <2>2 DEF BuildingInv, PinsInv, Now
  <2>4. MakeInv'
    BY <1>1, <1>2, <2>1, BuildingGoesOn
  <2> QED
    BY <2>3, <2>4 DEF BuildingInv
<1>9. CASE NextCall
  <2>1. /\ Head(todo) \subseteq done /\ done' = {}
        /\ UNCHANGED <<tree, script, reading, snapshot, report, command>>
    BY <1>9 DEF NextCall, scriptVars
  <2>2. PinsInv'
    BY <1>1, <2>1 DEF BuildingInv, PinsInv, Now
  <2>3. todo = Goals("check", None) => tree["stage"] = pins
    BY <2>1 DEF Goals, BuildingInv, PinsInv
  <2>4. job = "check" => tree["stage"] = pins
    BY <1>1, <2>3 DEF BuildingInv, MakeInv
  <2>5. MakeInv'
    BY <1>1, <1>2, <2>1, <2>4 DEF BuildingInv, MakeInv, Building, Reported
  <2> QED
    BY <2>2, <2>5 DEF BuildingInv
<1>10. CASE Finish
  <2> DEFINE ok == command.name = "check" => Passes(command.itb)
  <2>1. /\ command' = None /\ done' = {} /\ script' = "off" /\ todo = <<>>
        /\ report' = [command |-> command, ok |-> ok]
        /\ UNCHANGED <<tree, reading, snapshot>>
    BY <1>10 DEF Finish, Ends
  <2>2. PinsInv'
    BY <1>1, <2>1 DEF BuildingInv, PinsInv, Now
  <2>3. ok \in BOOLEAN
    OBVIOUS
  <2>4. report' \in Reports
    BY <1>2, <2>1, <2>3 DEF Reports
  <2>5. job = "check" => tree["stage"] = pins
    <3>1. <<>> /= Goals("check", None)
      BY DEF Goals
    <3> QED
      BY <1>1, <2>1, <3>1 DEF BuildingInv, MakeInv
  <2>6. Passes(None)' <=> Passes(None)
    BY <2>1, <1>10 DEF Finish, Passes, Variant
  <2>7. job = "check" /\ report'.ok => Passes(None)
    BY <1>2, <2>1
  <2>8. Accepted' \/ ~(job = "check" /\ report'.ok)
    BY <1>1, <1>2, <2>1, <2>5, <2>6, <2>7 DEF Accepted
  <2>9. MakeInv'
    BY <1>1, <1>2, <2>1, <2>4, <2>8 DEF MakeInv, Building
  <2> QED
    BY <2>2, <2>9 DEF BuildingInv
<1>11. CASE Refuse
  <2>1. /\ command' = None /\ done' = {} /\ script' = "off"
        /\ report' = [command |-> command, ok |-> FALSE]
        /\ UNCHANGED <<tree, reading, snapshot>>
    BY <1>11 DEF Refuse, Ends
  <2>2. PinsInv'
    BY <1>1, <2>1 DEF BuildingInv, PinsInv, Now
  <2>3. report' \in Reports
    BY <1>2, <2>1 DEF Reports
  <2>4. MakeInv'
    BY <1>1, <1>2, <2>1, <2>3 DEF MakeInv, Building
  <2> QED
    BY <2>2, <2>4 DEF BuildingInv
<1>12. CASE CopyDevelopment
  BY <1>2, <1>12 DEF CopyDevelopment
<1>13. CASE \/ RemoveOutputs \/ ExportSnapshot \/ ArchiveSource \/ CompileFit \/ CompileVariant
            \/ Touch
  <2>1. /\ UNCHANGED <<command, todo, report>>
        /\ done' \in {done, done \union {"built"}}
    BY <1>13 DEF RemoveOutputs, ExportSnapshot, ArchiveSource, CompileFit, CompileVariant, Touch,
       makeVars
  <2>2. /\ tree'["stage"] = tree["stage"]
        /\ tree'["fit"] \in {tree["fit"], None, Now}
        /\ tree'["source"] \in {tree["source"], None, {pins}}
        /\ tree'["payload"] \in {tree["payload"], Now}
        /\ script' /= "off" => reading' = pins
        /\ script' \in {"archive", "compile"} => snapshot'.of = {pins}
    <3>1. CASE RemoveOutputs
      <4>1. /\ tree'["stage"] = tree["stage"] /\ tree'["payload"] = tree["payload"]
            /\ tree'["fit"] = None /\ tree'["source"] = None
        BY <3>1, TargetNames DEF RemoveOutputs, TreeInv, BaseInv, Write
      <4> QED
        BY <3>1, <4>1 DEF RemoveOutputs
    <3>2. CASE ExportSnapshot
      BY <1>1, <3>2 DEF ExportSnapshot, BuildingInv, PinsInv
    <3>3. CASE ArchiveSource
      <4>1. snapshot.of = {pins} /\ reading = pins
        BY <3>3 DEF ArchiveSource, BuildingInv, PinsInv
      <4>2. \A t \in Targets : tree'[t] = IF t = "source" THEN {pins} ELSE tree[t]
        BY <3>3, <4>1, TreeChange, TargetNames DEF ArchiveSource
      <4> QED
        BY <3>3, <4>1, <4>2, TargetNames DEF ArchiveSource
    <3>4. CASE CompileFit
      <4>1. snapshot.of = {pins} /\ reading = pins
        BY <3>4 DEF CompileFit, BuildingInv, PinsInv
      <4>2. script' \in {"variant", "touch"} /\ reading' = reading
        BY <3>4 DEF CompileFit
      <4>3. tree' = Write(tree, "fit", Now)
        BY <3>4, <4>1 DEF CompileFit, Now
      <4>4. \A t \in Targets : tree'[t] = IF t = "fit" THEN Now ELSE tree[t]
        BY <4>3, TreeChange, TargetNames
      <4> QED
        BY <4>1, <4>2, <4>4, TargetNames
    <3>5. CASE CompileVariant
      <4>1. reading = pins
        BY <3>5 DEF CompileVariant, BuildingInv, PinsInv
      <4>2. tree' = Write(tree, "payload", Now)
        BY <3>5, <4>1 DEF CompileVariant, Now
      <4>3. \A t \in Targets : tree'[t] = IF t = "payload" THEN Now ELSE tree[t]
        BY <4>2, TreeChange, TargetNames
      <4>4. script' = "touch" /\ reading' = reading
        BY <3>5 DEF CompileVariant
      <4> QED
        BY <4>1, <4>3, <4>4, TargetNames
    <3>6. CASE Touch
      BY <3>6, TreeChange, TargetNames DEF Touch
    <3> QED
      BY <1>13, <3>1, <3>2, <3>3, <3>4, <3>5, <3>6
  <2>3. PinsInv'
    BY <1>1, <2>1, <2>2 DEF BuildingInv, PinsInv, Now
  <2>4. Now /= Partial
    BY <1>3 DEF Now, PinnedBuilds, Snapshots
  <2>5. MakeInv'
    BY <1>1, <1>2, <2>1, <2>2, <2>4, BuildingGoesOn
  <2> QED
    BY <2>3, <2>5 DEF BuildingInv
<1> QED
  BY <1>5, <1>6, <1>7, <1>8, <1>9, <1>10, <1>11, <1>12, <1>13 DEF Works, MakeStep

LEMMA BreakBuilding ==
    ASSUME TreeInv, BuildingInv, Breaks
    PROVE  BuildingInv'
<1> SUFFICES ASSUME Building PROVE BuildingInv'
  BY DEF BuildingInv, PinsInv, MakeInv, Building, Breaks, releaseVars
<1>1. /\ command /= None /\ command' = None /\ script' = "off" /\ done' = {}
      /\ report' = [command |-> command, ok |-> FALSE]
      /\ UNCHANGED <<pins, machine, job>>
  BY DEF Breaks, Fail, Ends, releaseVars
<1>2. job /= "package" /\ Building'
  BY <1>1 DEF TreeInv, CommandInv, Building
<1>3. command \in Commands /\ command.name = job
  BY <1>1 DEF BuildingInv, MakeInv
<1>4. /\ tree'["stage"] = tree["stage"] /\ tree'["source"] = tree["source"]
      /\ tree'["fit"] \in {tree["fit"], Partial} /\ tree'["payload"] \in {tree["payload"], Partial}
  <2>1. CASE tree' = tree
    BY <2>1
  <2>2. ASSUME NEW t \in {"fit", "payload", "binary"} \union Images, NEW x,
               tree' = Write(tree, t, x), t \in {"fit", "payload"} => x = Partial
        PROVE  <1>4
    BY <2>2, TreeChange, TargetNames
  <2>3. CASE \E t \in {"binary"} \union Images, left \in {Partial, None} : tree' = Write(tree, t, left)
    BY <2>2, <2>3, TargetNames
  <2>4. CASE tree' = Write(tree, "fit", Partial) \/ tree' = Write(tree, "payload", Partial)
    BY <2>2, <2>4
  <2> QED
    BY <2>1, <2>3, <2>4 DEF Breaks, Fail
<1>5. PinsInv'
  BY <1>1, <1>4 DEF BuildingInv, PinsInv, Now
<1>6. report' \in Reports
  BY <1>1, <1>3 DEF Reports
<1>7. MakeInv'
  BY <1>1, <1>2, <1>3, <1>6, NothingAssumption DEF MakeInv, Building
<1> QED
  BY <1>5, <1>7 DEF BuildingInv

\* The steps of the job up to the package; the others build nothing.
LEMMA JobBuilding ==
    ASSUME TreeInv, BuildingInv, Checkout \/ RunMake \/ MakeEnded
    PROVE  BuildingInv'
<1> USE NothingAssumption
<1>1. CASE Checkout
  <2>1. machine = "runner" /\ command = None /\ script = "off" /\ done = {}
    BY <1>1 DEF Checkout, Resting, TreeInv, CommandInv
  <2>2. tree' = Empty /\ report' = None /\ job' = "chainload"
        /\ UNCHANGED <<pins, script, reading, command, done>>
    BY <1>1 DEF Checkout
  <2>3. \A t \in Targets : tree'[t] = None
    BY <2>2 DEF Empty
  <2>4. PinsInv'
    BY <2>1, <2>2, <2>3, TargetNames DEF PinsInv
  <2>5. tree'["payload"] /= Partial
    BY <2>3, TargetNames
  <2>6. MakeInv'
    BY <2>1, <2>2, <2>5 DEF MakeInv, Reported
  <2> QED
    BY <2>4, <2>6 DEF BuildingInv
<1>2. CASE RunMake
  <2>1. job \in {"chainload", "check"} /\ command = None /\ ~Reported
        /\ command' = [name |-> job, itb |-> None, since |-> pins] /\ report' = None
        /\ todo' = Goals(job, None) /\ done' = {}
        /\ UNCHANGED <<board, pins, tree, script, snapshot, reading, machine, job>>
    BY <1>2 DEF RunMake, Start, scriptVars, releaseVars
  <2> SUFFICES ASSUME Building PROVE BuildingInv'
    BY <2>1 DEF BuildingInv, PinsInv, MakeInv, Building
  <2>2. script = "off"
    BY <2>1 DEF TreeInv, CommandInv
  <2>3. PinsInv'
    BY <2>1, <2>2 DEF BuildingInv, PinsInv, Now
  <2>4. command' \in Commands /\ command'.name = job' /\ command'.itb = None
    BY <2>1 DEF Commands, TreeInv, BaseInv
  <2>5. job = "check" => todo' = Goals("check", None)'
    BY <2>1 DEF Goals, Images, Variant
  <2>6. tree'["payload"] /= Partial
    BY <2>1 DEF BuildingInv, MakeInv, Reported
  <2>7. MakeInv'
    BY <2>1, <2>4, <2>5, <2>6 DEF MakeInv, Reported
  <2> QED
    BY <2>3, <2>7 DEF BuildingInv
<1>3. CASE MakeEnded
  <2>1. /\ job \in {"chainload", "check"} /\ command = None /\ Reported
        /\ job' = IF ~report.ok THEN "failed" ELSE IF job = "check" THEN "package" ELSE "check"
        /\ UNCHANGED <<board, pins, tree, script, snapshot, reading, machine, command, done, todo,
                       report>>
    BY <1>3 DEF MakeEnded, ToStep, buildVars, scriptVars, makeVars
  <2> SUFFICES ASSUME Building, report.ok PROVE BuildingInv'
    BY <2>1 DEF BuildingInv, PinsInv, MakeInv, Building
  <2>2. PinsInv'
    BY <2>1 DEF BuildingInv, PinsInv, Now, Building
  <2>3. tree["payload"] /= Partial /\ report.command.name = job
    BY <2>1 DEF BuildingInv, MakeInv, Reported
  <2>4. job = "check" => Accepted'
    BY <2>1 DEF BuildingInv, MakeInv, Accepted, Passes, Variant
  <2>5. MakeInv'
    BY <2>1, <2>3, <2>4 DEF BuildingInv, MakeInv, Reported
  <2> QED
    BY <2>2, <2>5 DEF BuildingInv
<1> QED
  BY <1>1, <1>2, <1>3

LEMMA BuildingKept == TreeInv /\ BuildingInv /\ [Next]_vars => BuildingInv'
<1> SUFFICES ASSUME TreeInv, BuildingInv, [Next]_vars PROVE BuildingInv'
  OBVIOUS
<1>1. CASE UNCHANGED vars
  BY <1>1 DEF vars, buildVars, releaseVars, scriptVars, makeVars, BuildingInv, PinsInv, MakeInv,
     Building, Now, Reported, Accepted, Passes, Goals, Images, Variant
<1>2. CASE Works
  BY <1>2, MakeStepBuilding
<1>3. CASE Breaks
  BY <1>3, BreakBuilding
<1>4. CASE Checkout \/ RunMake \/ MakeEnded
  BY <1>4, JobBuilding
<1>5. CASE ~Building'
  BY <1>5 DEF BuildingInv, PinsInv, MakeInv
<1>6. CASE \/ Workstation \/ Upgrade \/ PackageLocally \/ Package \/ Verify \/ Lookup \/ Compare
           \/ DeleteDraft \/ CreateDraft \/ Confirm \/ Publish \/ Fault \/ PersonPublishes
  BY <1>5, <1>6 DEF Workstation, Upgrade, Resting, PackageLocally, Package, Verify, Lookup, Compare,
     DeleteDraft, CreateDraft, Confirm, Publish, Fault, PersonPublishes, OnHub, ToStep, Building,
     releaseVars
<1> QED
  BY <1>1, <1>2, <1>3, <1>4, <1>6 DEF Next, Workflow

-----------------------------------------------------------------------------
WholeDist == dist.whole /\ OfOneBuild(dist.chain)

\* What was packaged on the runner, and what was published of it.
WholeInv ==
    /\ job \in Steps \ {"idle", "chainload", "check", "package", "failed"} => WholeDist
    /\ PublishedWhole

LEMMA BoardStays == [Next]_vars => board' = board
BY DEF Next, vars, buildVars, Workstation, Edit, Changed, Clean, Start, PackageLocally, Workflow, Works,
   MakeStep, Keep, MakeStage, MakeBinary, MakeImage, Makes, NextCall, Finish, Refuse,
   CopyDevelopment, RemoveOutputs, ExportSnapshot, ArchiveSource, CompileFit, CompileVariant, Touch,
   Checkout, RunMake, MakeEnded, Package, Verify, Lookup, Compare, DeleteDraft, CreateDraft,
   Confirm, Publish, Breaks, Fail, Fault, PersonPublishes, Upgrade

\* The tree that passed the check and holds every input is of one build.
LEMMA AcceptedWhole ==
    ASSUME TreeInv, BuildingInv, Building, Accepted, Present = Inputs
    PROVE  OfOneBuild([t \in Inputs |-> tree[t]])
<1> DEFINE chain == [t \in Inputs |-> tree[t]]
<1>1. {"fit", "source", "binary"} \union Images \subseteq Inputs
  BY DEF Inputs
<1>2. \A t \in Inputs : chain[t] = tree[t] /\ tree[t] /= None
  BY DEF Present
<1>3. /\ tree["binary"] = [stage |-> pins, fit |-> tree["fit"]]
      /\ tree["fit"] \notin {None, Partial} /\ tree["source"] /= None
      /\ \A m \in Media : tree[m] = tree["binary"]
      /\ Variant => tree["payload"] \notin {None, Partial} /\ tree["nvme"] = tree["payload"]
  BY DEF Accepted, Passes
<1>4. /\ tree["fit"] = Now /\ tree["source"] = {pins}
      /\ Variant => tree["nvme"] = Now
  BY <1>3 DEF BuildingInv, PinsInv
<1>5. Now = [source |-> {pins}, with |-> pins] /\ Now.with = pins
  BY DEF Now
<1>6. Media \subseteq Inputs /\ (Variant => "nvme" \in Inputs)
  BY <1>1 DEF Images
<1> QED
  BY <1>1, <1>2, <1>3, <1>4, <1>5, <1>6 DEF OfOneBuild

LEMMA WholeInvKept ==
    TreeInv /\ HubInv /\ BuildingInv /\ WholeInv /\ [Next]_vars => WholeInv'
<1> SUFFICES ASSUME TreeInv, HubInv, BuildingInv, WholeInv, [Next]_vars PROVE WholeInv'
  OBVIOUS
<1>1. board' = board
  BY BoardStays
<1>2. \A chain : OfOneBuild(chain)' <=> OfOneBuild(chain)
  BY <1>1 DEF OfOneBuild, Variant
<1>3. CASE hub' = hub /\ dist' = dist
           /\ (job' = job \/ job' \in {"chainload", "check", "package", "failed"} \/ WholeDist)
  <2>1. PublishedWhole'
    BY <1>1, <1>3 DEF WholeInv, PublishedWhole, Published, OfOneBuild, Variant
  <2>2. WholeDist => WholeDist'
    BY <1>1, <1>3 DEF WholeDist, OfOneBuild, Variant
  <2> QED
    BY <1>3, <2>1, <2>2 DEF WholeInv
<1>4. ASSUME hub' = hub, job' \in {"idle", "chainload", "failed"}
      PROVE  WholeInv'
  BY <1>1, <1>4 DEF WholeInv, PublishedWhole, Published, OfOneBuild, Variant
<1>5. ASSUME dist' = dist, job' = "failed" \/ WholeDist,
             hub' = None \/ hub'.draft \/ hub'.by = "person"
                \/ (WholeDist /\ hub'.assets = dist)
      PROVE  WholeInv'
  <2>1. WholeDist => WholeDist'
    BY <1>1, <1>5 DEF WholeDist, OfOneBuild, Variant
  <2>2. PublishedWhole'
    BY <1>1, <1>5 DEF PublishedWhole, Published, WholeDist, OfOneBuild, Variant
  <2> QED
    BY <1>5, <2>1, <2>2 DEF WholeInv
<1>6. CASE \/ UNCHANGED vars \/ Works \/ Breaks \/ Workstation \/ Upgrade \/ RunMake \/ MakeEnded
  BY <1>3, <1>6 DEF vars, Works, Breaks, Workstation, Upgrade, RunMake, MakeEnded, ToStep, releaseVars
<1>7. CASE PackageLocally \/ Checkout
  BY <1>4, <1>7 DEF PackageLocally, Checkout, TreeInv, CommandInv
<1>8. CASE Package
  <2>1. CASE Packable("1")
    <3>1. machine = "runner" /\ Present = Inputs /\ Inputs /= {}
      BY <1>8, <2>1 DEF Package, Packable, TreeInv, BaseInv, CommandInv, Inputs
    <3>2. Accepted /\ Building
      BY <1>8, <3>1 DEF Package, BuildingInv, MakeInv, Building
    <3>3. /\ dist' = [whole |-> TRUE, chain |-> [t \in Inputs |-> tree[t]]]
          /\ job' = "verify" /\ hub' = hub
      BY <1>8, <2>1, <3>1 DEF Package, Archives
    <3>4. OfOneBuild(dist'.chain)
      BY <3>1, <3>2, <3>3, AcceptedWhole
    <3>5. WholeDist'
      BY <1>1, <3>3, <3>4 DEF WholeDist, OfOneBuild, Variant
    <3>6. PublishedWhole'
      BY <1>1, <3>3 DEF WholeInv, PublishedWhole, Published, OfOneBuild, Variant
    <3> QED
      BY <3>5, <3>6 DEF WholeInv
  <2>2. CASE ~Packable("1")
    BY <1>4, <1>8, <2>2 DEF Package, ToStep
  <2> QED
    BY <2>1, <2>2
<1>9. CASE Verify \/ Lookup \/ Compare \/ Confirm
  <2>1. WholeDist
    BY <1>9 DEF Verify, Lookup, Compare, Confirm, WholeInv, Steps
  <2> QED
    BY <1>3, <1>9, <2>1 DEF Verify, Lookup, Compare, Confirm, ToStep
<1>10. CASE DeleteDraft \/ CreateDraft \/ Publish
  <2>1. WholeDist
    BY <1>10 DEF DeleteDraft, CreateDraft, Publish, WholeInv, Steps
  <2>2. CASE DeleteDraft \/ (CreateDraft /\ hub = None)
    BY <1>5, <2>1, <2>2 DEF DeleteDraft, CreateDraft, OnHub, Draft
  <2>3. CASE CreateDraft /\ hub /= None
    BY <1>4, <2>3 DEF CreateDraft, ToStep
  <2>4. CASE Publish
    <3>1. hub' = [Draft(dist) EXCEPT !.draft = FALSE] /\ dist' = dist
      BY <2>4 DEF Publish, OnHub, HubInv
    <3> QED
      BY <1>5, <2>1, <3>1 DEF Draft
  <2> QED
    BY <1>10, <2>2, <2>3, <2>4
<1>11. CASE Fault
  <2>1. job' = "failed"
    BY <1>11 DEF Fault, ToStep, OnHub
  <2>2. CASE hub' = hub
    BY <1>4, <2>1, <2>2
  <2>3. CASE dist' = dist /\ (hub' = None \/ \E assets : hub' = Draft(assets))
    BY <1>5, <2>1, <2>3 DEF Draft
  <2>4. CASE job = "publish" /\ OnHub([hub EXCEPT !.draft = FALSE], "failed")
    <3>1. hub' = [Draft(dist) EXCEPT !.draft = FALSE] /\ dist' = dist /\ WholeDist
      BY <2>4 DEF OnHub, HubInv, WholeInv, Steps
    <3> QED
      BY <1>5, <2>1, <3>1 DEF Draft
  <2> QED
    BY <1>11, <2>2, <2>3, <2>4 DEF Fault, ToStep, OnHub
<1>12. CASE PersonPublishes
  <2>1. dist' = dist /\ job' = job /\ hub'.by = "person"
    BY <1>12 DEF PersonPublishes
  <2>2. PublishedWhole'
    BY <2>1 DEF PublishedWhole
  <2>3. WholeDist => WholeDist'
    BY <1>1, <2>1 DEF WholeDist, OfOneBuild, Variant
  <2> QED
    BY <2>1, <2>2, <2>3 DEF WholeInv
<1> QED
  BY <1>6, <1>7, <1>8, <1>9, <1>10, <1>11, <1>12 DEF Next, Workflow

(***************************************************************************)
(* What the workflow publishes is complete and of one build - the binary   *)
(* carries the stage and the FIT of the same pins, the images that binary, *)
(* the archive the FIT's source - whatever drafts, partial uploads and     *)
(* truncated files the attempts before left (release.yml, release-dist.sh, *)
(* tests/check_chainload.py).                                              *)
(***************************************************************************)
THEOREM PublishedIsWhole == Spec => []PublishedWhole
<1> DEFINE Inv == TreeInv /\ HubInv /\ BuildingInv /\ WholeInv
<1>1. Init => HubInv /\ BuildingInv /\ WholeInv
  BY DEF Init, HubInv, BuildingInv, PinsInv, MakeInv, Building, WholeInv, PublishedWhole, Published
<1>2. Init => Inv
  BY <1>1, InitTreeInv
<1>3. Inv /\ [Next]_vars => Inv'
  BY TreeInvKept, HubInvKept, BuildingKept, WholeInvKept
<1>4. Inv => PublishedWhole
  BY DEF WholeInv
<1> QED
  BY <1>2, <1>3, <1>4, PTL DEF Spec
-----------------------------------------------------------------------------
(***************************************************************************)
(* What make has made                                                      *)
(***************************************************************************)
Fresh(t) == ~Stale(t)

TreeTypes ==
    /\ tree["stage"] \in Versions \union {None} /\ tree["fit"] \in Fits
    /\ tree["payload"] \in PinnedBuilds \union {Partial, None}

\* A report is of the command that ended last, and cleared when the next one is given.
CommandTypes ==
    /\ command /= None => command \in Commands /\ command.since <= pins /\ report = None
    /\ report /= None => report \in Reports /\ report.command.since <= pins

\* The edits that make has noticed are some of those there were.
NoticedInv ==
    /\ noticed \in [{"stage", "built"} -> Versions]
    /\ \A t \in {"stage", "built"} : noticed[t] <= pins

CountTypes == faults \in Nat /\ before \in Nat /\ before <= faults

LEMMA PrerequisitesAre ==
    /\ Prerequisites["stage"] = {} /\ Prerequisites["built"] = {}
    /\ \A t \in Uboot : Prerequisites[t] = {"built"}
    /\ Prerequisites["binary"] = {"stage", "fit"} /\ Prerequisites["nvme"] = {"payload"}
    /\ \A m \in Media : Prerequisites[m] = {"binary"}
<1>1. /\ Prerequisites["stage"] = {} /\ Prerequisites["built"] = {}
      /\ Prerequisites["binary"] = {"stage", "fit"} /\ Prerequisites["nvme"] = {"payload"}
  BY TargetNames DEF Prerequisites, Uboot
<1>2. \A t \in Uboot : Prerequisites[t] = {"built"}
  BY TargetNames DEF Prerequisites, Uboot, Targets
<1>3. \A m \in Media : Prerequisites[m] = {"binary"}
  BY TargetNames DEF Prerequisites, Uboot
<1> QED
  BY <1>1, <1>2, <1>3

LEMMA DependantsAre ==
    /\ Dependants("fit") = {"binary"} /\ Dependants("payload") = {"nvme"}
    /\ Dependants("binary") = Media
    /\ \A t : "stage" \notin Dependants(t) /\ "built" \notin Dependants(t)
<1>1. Targets = {"stage", "built", "binary", "nvme", "fit", "source", "payload"} \union Media
  BY DEF Targets, Uboot
<1>2. \A t : "stage" \notin Dependants(t) /\ "built" \notin Dependants(t)
  BY PrerequisitesAre DEF Dependants
<1>3. \A m \in Media : Prerequisites[m] = {"binary"}
  BY PrerequisitesAre
<1>4. /\ Prerequisites["fit"] = {"built"} /\ Prerequisites["source"] = {"built"}
      /\ Prerequisites["payload"] = {"built"} /\ Prerequisites["stage"] = {}
      /\ Prerequisites["built"] = {} /\ Prerequisites["binary"] = {"stage", "fit"}
      /\ Prerequisites["nvme"] = {"payload"}
  BY PrerequisitesAre DEF Uboot
<1>5. Dependants("fit") = {"binary"}
  BY <1>1, <1>3, <1>4 DEF Dependants
<1>6. Dependants("payload") = {"nvme"}
  BY <1>1, <1>3, <1>4 DEF Dependants
<1>7. Dependants("binary") = Media
  BY <1>1, <1>3, <1>4 DEF Dependants
<1> QED
  BY <1>2, <1>5, <1>6, <1>7

LEMMA ClosureDone ==
    ASSUME \A t \in done : Prerequisites[t] \subseteq done, NEW G, G \subseteq done
    PROVE  Closure(G) \subseteq done
<1>1. \A H : H \subseteq done => WithPrerequisites(H) \subseteq done
  BY DEF WithPrerequisites
<1> QED
  BY <1>1 DEF Closure

LEMMA StepsOfCommand ==
    ASSUME TreeInv, MakeStep
    PROVE  command /= None /\ UNCHANGED <<board, pins, commands, faults>>
<1>1. command /= None
  BY DEF MakeStep, Keep, MakeStage, MakeBinary, MakeImage, NextCall, Finish, Refuse, Runs,
     Considers, CopyDevelopment, RemoveOutputs, ExportSnapshot, ArchiveSource, CompileFit,
     CompileVariant, Touch, TreeInv, CommandInv
<1>2. UNCHANGED <<board, pins, commands, faults>>
  BY DEF MakeStep, Keep, MakeStage, MakeBinary, MakeImage, Makes, NextCall, Finish, Refuse,
     CopyDevelopment, RemoveOutputs, ExportSnapshot, ArchiveSource, CompileFit, CompileVariant, Touch
<1> QED
  BY <1>1, <1>2

LEMMA CopyWrites ==
    ASSUME TreeInv, CopyDevelopment
    PROVE  \A u \in Targets :
              tree'[u] = IF u \in {"source", "payload"} THEN None
                         ELSE IF u = "fit" /\ command.itb /= "output" THEN Development
                         ELSE tree[u]
<1> DEFINE kept == Write(Write(tree, "source", None), "payload", None)
<1>1. DOMAIN tree = Targets
  BY DEF TreeInv, BaseInv
<1>2. DOMAIN kept = Targets
      /\ \A u \in Targets : kept[u] = IF u \in {"source", "payload"} THEN None ELSE tree[u]
  BY <1>1, TargetNames DEF Write
<1>3. \A u \in Targets : Write(kept, "fit", Development)[u] = IF u = "fit" THEN Development ELSE kept[u]
  BY <1>2, TargetNames DEF Write
<1>4. tree' = IF command.itb = "output" THEN kept ELSE Write(kept, "fit", Development)
  BY DEF CopyDevelopment
<1> HIDE DEF kept
<1>5. CASE command.itb = "output"
  BY <1>2, <1>4, <1>5
<1>6. CASE command.itb /= "output"
  BY <1>2, <1>3, <1>4, <1>6
<1> QED
  BY <1>5, <1>6

LEMMA RemoveWrites ==
    ASSUME TreeInv, RemoveOutputs
    PROVE  \A u \in Targets : tree'[u] = IF u \in {"fit", "source"} THEN None ELSE tree[u]
<1> DEFINE less == Write(tree, "fit", None)
<1>1. DOMAIN less = Targets /\ \A u \in Targets : less[u] = IF u = "fit" THEN None ELSE tree[u]
  BY TargetNames DEF TreeInv, BaseInv, Write
<1>2. tree' = Write(less, "source", None)
  BY DEF RemoveOutputs
<1> HIDE DEF less
<1> QED
  BY <1>1, <1>2, TargetNames DEF Write

\* A failure leaves the tree as it is, or truncates one file.
LEMMA FailWrites ==
    ASSUME TreeInv, Fail
    PROVE  \/ UNCHANGED <<tree, old>>
           \/ /\ script = "compile" \/ (Runs("built") /\ script = "off")
              /\ \A u \in Targets : tree'[u] = IF u = "fit" THEN Partial ELSE tree[u]
              /\ old' = old \union {"binary"}
           \/ /\ script = "variant"
              /\ \A u \in Targets : tree'[u] = IF u = "payload" THEN Partial ELSE tree[u]
              /\ old' = old \union {"nvme"}
           \/ \E t \in {"binary"} \union Images, left \in {Partial, None} :
                 /\ \A u \in Targets : tree'[u] = IF u = t THEN left ELSE tree[u]
                 /\ old' = (old \ {t}) \union Dependants(t)
<1>1. CASE UNCHANGED <<tree, old>>
  BY <1>1
<1>2. ASSUME NEW t \in {"fit", "payload", "binary"} \union Images, NEW x, tree' = Write(tree, t, x)
      PROVE  \A u \in Targets : tree'[u] = IF u = t THEN x ELSE tree[u]
  BY <1>2, TreeChange, TargetNames
<1>3. CASE \E t \in {"binary"} \union Images, left \in {Partial, None} :
              tree' = Write(tree, t, left) /\ old' = (old \ {t}) \union Dependants(t)
  BY <1>2, <1>3
<1>4. CASE /\ script = "compile" \/ (Runs("built") /\ script = "off")
           /\ tree' = Write(tree, "fit", Partial) /\ old' = old \union {"binary"}
  BY <1>2, <1>4
<1>5. CASE /\ script = "variant"
           /\ tree' = Write(tree, "payload", Partial) /\ old' = old \union {"nvme"}
  BY <1>2, <1>5
<1> QED
  BY <1>1, <1>3, <1>4, <1>5, DependantsAre DEF Fail

LEMMA TreeTypesKept == TreeInv /\ TreeTypes /\ [Next]_vars => TreeTypes'
<1> SUFFICES ASSUME TreeInv, TreeTypes, [Next]_vars PROVE TreeTypes'
  OBVIOUS
<1> DEFINE Same(u) == tree'[u] = tree[u]
<1>1. ASSUME Same("stage"), Same("fit"), Same("payload")
      PROVE  TreeTypes'
  BY <1>1 DEF TreeTypes
<1>2. {None, Partial, Development} \subseteq Fits /\ PinnedBuilds \subseteq Fits
      /\ pins \in Versions /\ reading \in Versions /\ snapshot.of \in Snapshots
  BY DEF Fits, TreeInv, BaseInv
<1>3. CASE MakeStep
  <2>1. CASE \/ (\E t \in Targets : Keep(t)) \/ NextCall \/ Finish \/ Refuse \/ ExportSnapshot
    BY <1>1, <2>1 DEF Keep, NextCall, Finish, Refuse, ExportSnapshot
  <2>2. ASSUME NEW t \in {"binary", "source", "built"} \union Images, NEW x, tree' = Write(tree, t, x)
        PROVE  TreeTypes'
    BY <1>1, <2>2, TreeChange, TargetNames
  <2>3. CASE MakeBinary \/ (\E m \in Images : MakeImage(m)) \/ ArchiveSource \/ Touch
    BY <2>2, <2>3 DEF MakeBinary, MakeImage, Makes, ArchiveSource, Touch
  <2>4. CASE MakeStage
    <3>1. \A u \in Targets : tree'[u] = IF u = "stage" THEN pins ELSE tree[u]
      BY <2>4, TreeChange, TargetNames DEF MakeStage, Makes
    <3> QED
      BY <1>2, <3>1, TargetNames DEF TreeTypes
  <2>5. CASE CopyDevelopment
    BY <1>2, <2>5, CopyWrites, TargetNames DEF TreeTypes
  <2>6. CASE RemoveOutputs
    BY <1>2, <2>6, RemoveWrites, TargetNames DEF TreeTypes
  <2>7. CASE CompileFit
    <3>1. tree' = Write(tree, "fit", [source |-> snapshot.of, with |-> pins])
      BY <2>7 DEF CompileFit
    <3>2. [source |-> snapshot.of, with |-> pins] \in PinnedBuilds
      BY <1>2 DEF PinnedBuilds
    <3>3. \A u \in Targets : u /= "fit" => Same(u)
      BY <3>1, TreeChange, TargetNames
    <3>4. tree'["fit"] = [source |-> snapshot.of, with |-> pins]
      BY <3>1, TreeChange, TargetNames
    <3> QED
      BY <1>2, <3>2, <3>3, <3>4, TargetNames DEF TreeTypes
  <2>8. CASE CompileVariant
    <3>1. tree' = Write(tree, "payload", [source |-> {reading, pins}, with |-> pins])
      BY <2>8 DEF CompileVariant
    <3>2. [source |-> {reading, pins}, with |-> pins] \in PinnedBuilds
      BY <1>2 DEF PinnedBuilds, Snapshots
    <3>3. \A u \in Targets : u /= "payload" => Same(u)
      BY <3>1, TreeChange, TargetNames
    <3>4. tree'["payload"] = [source |-> {reading, pins}, with |-> pins]
      BY <3>1, TreeChange, TargetNames
    <3> QED
      BY <1>2, <3>2, <3>3, <3>4, TargetNames DEF TreeTypes
  <2> QED
    BY <1>3, <2>1, <2>3, <2>4, <2>5, <2>6, <2>7, <2>8 DEF MakeStep
<1>4. CASE Fail
  <2>1. CASE UNCHANGED tree
    BY <1>1, <2>1
  <2>2. ASSUME NEW t \in {"fit", "payload", "binary"} \union Images, NEW x,
               t \in {"fit", "payload"} => x = Partial,
               \A u \in Targets : tree'[u] = IF u = t THEN x ELSE tree[u]
        PROVE  TreeTypes'
    BY <1>2, <2>2, TargetNames DEF TreeTypes
  <2>3. CASE \E t \in {"binary"} \union Images, left \in {Partial, None} :
                \A u \in Targets : tree'[u] = IF u = t THEN left ELSE tree[u]
    BY <2>2, <2>3, TargetNames
  <2>4. CASE \E t \in {"fit", "payload"} :
                \A u \in Targets : tree'[u] = IF u = t THEN Partial ELSE tree[u]
    BY <2>2, <2>4
  <2> QED
    BY <1>4, <2>1, <2>3, <2>4, FailWrites
<1>5. CASE Clean \/ Checkout
  <2>1. \A u \in Targets : tree'[u] = None
    BY <1>5 DEF Clean, Checkout, Empty
  <2> QED
    BY <1>2, <2>1, TargetNames DEF TreeTypes
<1>6. CASE tree' = tree
  BY <1>1, <1>6
<1>7. CASE \/ UNCHANGED vars \/ Edit \/ (\E name, itb : Start(name, itb))
           \/ PackageLocally \/ MakeEnded \/ Package \/ Verify \/ Lookup \/ Compare \/ DeleteDraft
           \/ CreateDraft \/ Confirm \/ Publish \/ Fault \/ PersonPublishes
  BY <1>6, <1>7, EditChanges DEF vars, buildVars, Start, PackageLocally, MakeEnded, Package, Verify,
     Lookup, Compare, DeleteDraft, CreateDraft, Confirm, Publish, Fault, PersonPublishes
<1> QED
  BY <1>3, <1>4, <1>5, <1>7, UpgradeIsEdit DEF Next, Workflow, Works, Breaks, Workstation, RunMake

LEMMA CommandTypesKept == TreeInv /\ CommandTypes /\ [Next]_vars => CommandTypes'
<1> SUFFICES ASSUME TreeInv, CommandTypes, [Next]_vars PROVE CommandTypes'
  OBVIOUS
<1>1. pins \in Versions /\ Versions \subseteq Int
  BY DEF TreeInv, BaseInv, Versions
<1>2. CASE UNCHANGED <<pins, command, report>>
  BY <1>2 DEF CommandTypes
<1>3. ASSUME NEW ok \in BOOLEAN, command /= None, Ends(ok), pins' = pins
      PROVE  CommandTypes'
  <2>1. command \in Commands /\ command.since <= pins
    BY <1>3 DEF CommandTypes
  <2>2. command' = None /\ report' = [command |-> command, ok |-> ok]
    BY <1>3 DEF Ends
  <2>3. report' \in Reports /\ report'.command = command
    BY <2>1, <2>2 DEF Reports
  <2> QED
    BY <1>3, <2>1, <2>2, <2>3 DEF CommandTypes
<1>4. CASE MakeStep
  <2>1. CASE Finish \/ Refuse
    <3>1. command /= None /\ pins' = pins
      BY <1>4, StepsOfCommand
    <3> QED
      BY <1>3, <2>1, <3>1 DEF Finish, Refuse
  <2> QED
    BY <1>2, <1>4, <2>1 DEF MakeStep, Keep, MakeStage, MakeBinary, MakeImage, Makes, NextCall,
       CopyDevelopment, RemoveOutputs, ExportSnapshot, ArchiveSource, CompileFit, CompileVariant,
       Touch, makeVars
<1>5. CASE Fail
  BY <1>3, <1>5 DEF Fail
<1>6. CASE Edit
  <2>1. pins' = pins + 1 /\ command' = command /\ report' = report
    BY <1>6, EditChanges DEF makeVars
  <2>2. command /= None => command.since \in Versions
    BY DEF CommandTypes, Commands
  <2>3. report /= None => report.command.since \in Versions
    BY DEF CommandTypes, Reports, Commands
  <2> QED
    BY <1>1, <2>1, <2>2, <2>3 DEF CommandTypes, Versions
<1>7. ASSUME NEW name \in {"chainload", "check", "binary", "nvme"} \union Media,
             NEW itb \in {None, "file", "output"}, Start(name, itb)
      PROVE  CommandTypes'
  <2>1. command' = [name |-> name, itb |-> itb, since |-> pins] /\ report' = None /\ pins' = pins
    BY <1>7 DEF Start
  <2>2. command' \in Commands
    BY <1>1, <1>7, <2>1 DEF Commands
  <2> QED
    BY <1>1, <2>1, <2>2 DEF CommandTypes
<1>8. CASE Clean \/ Checkout
  <2>1. command = None /\ command' = command /\ report' = None
    BY <1>8 DEF Clean, Checkout, Resting, TreeInv, BaseInv, CommandInv
  <2> QED
    BY <2>1 DEF CommandTypes
<1>9. CASE Workstation \/ RunMake
  <2>1. Names \subseteq {"chainload", "check", "binary", "nvme"} \union Media
    BY TargetNames DEF Names
  <2> QED
    BY <1>6, <1>7, <1>8, <1>9, <2>1 DEF Workstation, RunMake
<1>10. CASE \/ UNCHANGED vars \/ PackageLocally \/ MakeEnded \/ Package \/ Verify \/ Lookup
            \/ Compare \/ DeleteDraft \/ CreateDraft \/ Confirm \/ Publish \/ Fault \/ PersonPublishes
  BY <1>2, <1>10 DEF vars, buildVars, makeVars, PackageLocally, MakeEnded, Package, Verify, Lookup,
     Compare, DeleteDraft, CreateDraft, Confirm, Publish, Fault, PersonPublishes
<1> QED
  BY <1>4, <1>5, <1>6, <1>8, <1>9, <1>10, UpgradeIsEdit DEF Next, Workflow, Works, Breaks

\* Only an edit changes the pins or what make has noticed of them.
LEMMA EditsAlone == [Next]_vars => Edit \/ UNCHANGED <<pins, noticed>>
BY UpgradeIsEdit
   DEF Next, vars, buildVars, Workstation, Clean, Start, PackageLocally, Workflow, Works,
   MakeStep, Keep, MakeStage, MakeBinary, MakeImage, Makes, NextCall, Finish, Refuse,
   CopyDevelopment, RemoveOutputs, ExportSnapshot, ArchiveSource, CompileFit, CompileVariant, Touch,
   Checkout, RunMake, MakeEnded, Package, Verify, Lookup, Compare, DeleteDraft, CreateDraft,
   Confirm, Publish, Breaks, Fail, Fault, PersonPublishes

\* What make sees of an edit is old, or else it has noticed no change of it.
LEMMA EditNoticed ==
    ASSUME Edit, NoticedInv, NEW t \in {"stage", "built"}
    PROVE  /\ ~raced' => ~raced
           /\ \/ /\ t \in old' /\ noticed'[t] = pins + 1
                 /\ t = "built" /\ script /= "off" => raced'
              \/ noticed'[t] = noticed[t]
<1> PICK seen \in EditKinds : Changed(seen)
  BY DEF Edit
<1>1. noticed'[t] = IF t \in seen THEN pins + 1 ELSE noticed[t]
  BY DEF Changed, NoticedInv
<1>2. old' = old \union seen
  BY DEF Changed
<1>3. (~raced' => ~raced) /\ (script /= "off" /\ "built" \in seen => raced')
  BY DEF Changed
<1>4. CASE t \in seen
  BY <1>1, <1>2, <1>3, <1>4
<1>5. CASE t \notin seen
  BY <1>1, <1>3, <1>5
<1> QED
  BY <1>4, <1>5

LEMMA NoticedInvKept == TreeInv /\ NoticedInv /\ [Next]_vars => NoticedInv'
<1> SUFFICES ASSUME TreeInv, NoticedInv, [Next]_vars PROVE NoticedInv'
  OBVIOUS
<1>1. CASE UNCHANGED <<pins, noticed>>
  BY <1>1 DEF NoticedInv
<1>2. CASE Edit
  <2>1. pins' = pins + 1 /\ pins < MaxPins /\ pins \in Versions /\ MaxPins \in Nat
    BY <1>2, EditChanges, BoundsAssumption DEF TreeInv, BaseInv
  <2>2. pins + 1 \in Versions
    BY <2>1 DEF Versions
  <2>3. \A t \in {"stage", "built"} : noticed'[t] \in {noticed[t], pins + 1}
    BY <1>2, EditNoticed
  <2>4. noticed' = [t \in {"stage", "built"} |-> noticed'[t]]
    BY <1>2 DEF Edit, Changed, NoticedInv
  <2>5. \A t \in {"stage", "built"} : noticed[t] \in Versions /\ noticed[t] <= pins
    BY DEF NoticedInv
  <2>6. \A t \in {"stage", "built"} : noticed'[t] \in Versions /\ noticed'[t] <= pins'
    BY <2>1, <2>2, <2>3, <2>5 DEF Versions
  <2> QED
    BY <2>4, <2>6 DEF NoticedInv
<1> QED
  BY <1>1, <1>2, EditsAlone

LEMMA CountTypesKept == TreeInv /\ CountTypes /\ [Next]_vars => CountTypes'
<1> SUFFICES ASSUME TreeInv, CountTypes, [Next]_vars PROVE CountTypes'
  OBVIOUS
<1>1. CASE faults' \in {faults, faults + 1} /\ before' = before
  BY <1>1 DEF CountTypes
<1>2. CASE Checkout
  BY <1>2 DEF Checkout, CountTypes
<1>3. CASE Works \/ Breaks \/ Workstation \/ Upgrade \/ RunMake
  <2>1. before' = before
    BY <1>3 DEF Works, Breaks, Workstation, Upgrade, RunMake, releaseVars
  <2>2. faults' \in {faults, faults + 1}
    BY <1>3, StepsOfCommand, EditChanges, UpgradeIsEdit
       DEF Works, Breaks, Fail, Workstation, Clean, Start, RunMake
  <2> QED
    BY <1>1, <2>1, <2>2
<1>4. CASE \/ UNCHANGED vars \/ PackageLocally \/ MakeEnded \/ Package \/ Verify \/ Lookup
           \/ Compare \/ DeleteDraft \/ CreateDraft \/ Confirm \/ Publish \/ Fault \/ PersonPublishes
  <2>1. before' = before /\ faults' \in {faults, faults + 1}
    BY <1>4 DEF vars, buildVars, releaseVars, PackageLocally, MakeEnded, Package, Verify, Lookup,
       Compare, DeleteDraft, CreateDraft, Confirm, Publish, Fault, PersonPublishes, ToStep, OnHub
  <2> QED
    BY <1>1, <2>1
<1> QED
  BY <1>2, <1>3, <1>4 DEF Next, Workflow

\* What make has considered is there and so is what it is made from; while the script
\* runs, the recipe that called it is not done and some goal of this call waits for it.
DoneInv ==
    /\ done \subseteq Targets
    /\ \A t \in done : Prerequisites[t] \subseteq done /\ tree[t] /= None
    /\ script /= "off" =>
        /\ "built" \notin done /\ Stale("built")
        /\ todo /= <<>> /\ "built" \in Closure(Head(todo))

LEMMA ScriptOffAtCall == DoneInv /\ NextCall => script = "off"
<1> SUFFICES ASSUME DoneInv, NextCall, script /= "off" PROVE FALSE
  OBVIOUS
<1>1. Closure(Head(todo)) \subseteq done
  BY ClosureDone DEF DoneInv, NextCall
<1> QED
  BY <1>1 DEF DoneInv

\* A recipe outside the script writes something.
LEMMA RecipesWrite ==
    ASSUME TreeInv, TreeTypes, DoneInv,
           MakeStage \/ MakeBinary \/ \E m \in Images : MakeImage(m)
    PROVE  \E t \in {"stage", "binary"} \union Images : \E x :
              /\ t \in Targets /\ Considers(t) /\ Stale(t) /\ Makes(t, x) /\ x /= None
              /\ t = "stage" => x = pins
              /\ t = "binary" => x = [stage |-> tree["stage"], fit |-> tree["fit"]]
              /\ t \in Media => x = tree["binary"]
              /\ t = "nvme" => x = tree["payload"]
<1>1. CASE MakeStage
  <2>1. pins /= None
    BY NothingAssumption DEF TreeInv, BaseInv
  <2> QED
    BY <1>1, <2>1, TargetNames DEF MakeStage, Runs
<1>2. CASE MakeBinary
  <2>1. tree["stage"] /= None
    BY <1>2, PrerequisitesAre DEF MakeBinary, Runs, Considers, DoneInv
  <2>2. [stage |-> tree["stage"], fit |-> tree["fit"]] \in [stage : Versions, fit : Fits]
    BY <2>1 DEF TreeTypes
  <2>3. [stage |-> tree["stage"], fit |-> tree["fit"]] /= None
    BY <2>2, NothingAssumption
  <2> QED
    BY <1>2, <2>3, TargetNames DEF MakeBinary, Runs
<1>3. ASSUME NEW m \in Images, MakeImage(m)
      PROVE  \E x : /\ m \in Targets /\ Considers(m) /\ Stale(m) /\ Makes(m, x) /\ x /= None
                    /\ m /= "stage" /\ m /= "binary"
                    /\ m \in Media => x = tree["binary"]
                    /\ m = "nvme" => x = tree["payload"]
  <2> DEFINE x == tree[IF m = "nvme" THEN "payload" ELSE "binary"]
  <2>1. m \in Targets /\ m /= "stage" /\ m /= "binary" /\ (m \in Media => m /= "nvme")
        /\ (m /= "nvme" => m \in Media)
    BY TargetNames
  <2>2. Considers(m) /\ Stale(m) /\ Makes(m, x)
    BY <1>3 DEF MakeImage, Runs
  <2>3. x /= None
    BY <2>1, <2>2, PrerequisitesAre DEF Considers, DoneInv
  <2> QED
    BY <2>1, <2>2, <2>3
<1> QED
  BY <1>1, <1>2, <1>3, TargetNames

LEMMA DoneInvKept == TreeInv /\ TreeTypes /\ DoneInv /\ [Next]_vars => DoneInv'
<1> SUFFICES ASSUME TreeInv, TreeTypes, DoneInv, [Next]_vars PROVE DoneInv'
  OBVIOUS
<1> USE PrerequisitesAre
<1>1. ASSUME done' = {}, script' = "off"
      PROVE  DoneInv'
  BY <1>1 DEF DoneInv
<1>2. board' = board
  BY BoardStays
<1>3. \A G : Closure(G)' = Closure(G)
  BY DEF Closure, WithPrerequisites, Prerequisites
<1>4. ASSUME NEW t \in Targets, Considers(t), done' = done \union {t}, tree'[t] /= None,
             \A u \in done : tree'[u] = tree[u], UNCHANGED <<script, todo>>,
             script /= "off" => t /= "built" /\ Stale("built")'
      PROVE  DoneInv'
  BY <1>4 DEF DoneInv, Considers, Closure, WithPrerequisites
<1>5. ASSUME NEW t \in Targets, t \in done, "built" \notin done
      PROVE  t \notin Uboot
  BY <1>5 DEF DoneInv
<1>6. ASSUME "built" \notin done, Stale("built"), todo /= <<>>, "built" \in Closure(Head(todo)),
             UNCHANGED <<done, todo>>,
             \A u \in Targets \ Uboot : tree'[u] = tree[u], old \subseteq old'
      PROVE  DoneInv'
  <2>1. \A u \in done : tree'[u] = tree[u]
    BY <1>5, <1>6 DEF DoneInv
  <2>2. Stale("built")'
    BY <1>6, TargetNames DEF Stale, Uboot
  <2> QED
    BY <1>6, <2>1, <2>2 DEF DoneInv, Closure, WithPrerequisites
<1>7. CASE MakeStage \/ MakeBinary \/ \E m \in Images : MakeImage(m)
  <2> PICK t \in {"stage", "binary"} \union Images :
             t \in Targets /\ Considers(t) /\ Stale(t) /\ \E x : Makes(t, x) /\ x /= None
    BY <1>7, RecipesWrite
  <2> PICK x : Makes(t, x) /\ x /= None
    OBVIOUS
  <2>1. \A u \in Targets : tree'[u] = IF u = t THEN x ELSE tree[u]
    BY TreeChange DEF Makes
  <2>2. t /= "built" /\ t \notin done
    BY TargetNames DEF Considers
  <2>3. done' = done \union {t} /\ UNCHANGED <<script, todo>> /\ old' = (old \ {t}) \union Dependants(t)
    BY DEF Makes, scriptVars
  <2>4. Stale("built") => Stale("built")'
    BY <2>1, <2>2, <2>3, TargetNames DEF Stale
  <2>5. tree'[t] /= None /\ \A u \in done : tree'[u] = tree[u]
    BY <2>1, <2>2 DEF DoneInv
  <2>6. script /= "off" => Stale("built")
    BY DEF DoneInv
  <2> QED
    BY <1>4, <2>2, <2>3, <2>4, <2>5, <2>6
<1>8. CASE \E t \in Targets : Keep(t)
  <2> PICK t \in Targets : Keep(t)
    BY <1>8
  <2>1. Considers(t) /\ tree[t] /= None /\ (t \in old => t \in Uboot)
        /\ done' = done \union {t} /\ UNCHANGED <<tree, old, script, todo>>
    BY DEF Keep, scriptVars
  <2>2. script /= "off" => t /= "built" /\ Stale("built")
    BY <2>1 DEF DoneInv, Stale, Uboot
  <2> QED
    BY <1>4, <2>1, <2>2 DEF Stale
<1>9. CASE NextCall
  BY <1>1, <1>9, ScriptOffAtCall DEF NextCall, scriptVars
<1>10. CASE Finish \/ Refuse \/ Fail
  BY <1>1, <1>10 DEF Finish, Refuse, Fail, Ends
<1>11. CASE CopyDevelopment \/ RemoveOutputs
  <2>1. "built" \notin done /\ Stale("built") /\ todo /= <<>> /\ "built" \in Closure(Head(todo))
        /\ UNCHANGED <<done, todo>> /\ old \subseteq old'
    BY <1>11 DEF CopyDevelopment, RemoveOutputs, Runs, Considers, makeVars
  <2>2. \A u \in Targets \ Uboot : tree'[u] = tree[u]
    BY <1>11, CopyWrites, RemoveWrites DEF Uboot
  <2> QED
    BY <1>6, <2>1, <2>2
<1>12. CASE ExportSnapshot \/ ArchiveSource \/ CompileFit \/ CompileVariant
  <2>1. script /= "off" /\ UNCHANGED <<done, todo>> /\ old \subseteq old'
    BY <1>12 DEF ExportSnapshot, ArchiveSource, CompileFit, CompileVariant, makeVars
  <2>2. \A u \in Targets \ Uboot : tree'[u] = tree[u]
    BY <1>12, TreeChange, TargetNames DEF ExportSnapshot, ArchiveSource, CompileFit, CompileVariant,
       Uboot
  <2> QED
    BY <1>6, <2>1, <2>2 DEF DoneInv
<1>13. CASE Touch
  <2>1. \A u \in Targets : tree'[u] = IF u = "built" THEN pins ELSE tree[u]
    BY <1>13, TreeChange, TargetNames DEF Touch
  <2>2. script' = "off" /\ done' = done \union {"built"} /\ "built" \notin done /\ pins /= None
    BY <1>13, NothingAssumption DEF Touch, DoneInv, TreeInv, BaseInv
  <2>3. \A u \in done : tree'[u] = tree[u]
    BY <2>1, <2>2 DEF DoneInv
  <2> QED
    BY <2>1, <2>2, <2>3, TargetNames DEF DoneInv
<1>14. CASE Edit
  <2>1. old \subseteq old' /\ UNCHANGED <<tree, script, done, todo>>
    BY <1>14, EditChanges DEF makeVars
  <2> QED
    BY <2>1 DEF DoneInv, Stale, Closure, WithPrerequisites
<1>15. CASE Clean \/ Checkout \/ \E name, itb : Start(name, itb)
  <2>1. command = None
    BY <1>15 DEF Clean, Checkout, Start, Resting, TreeInv, BaseInv, CommandInv
  <2>2. script = "off" /\ done = {}
    BY <2>1 DEF TreeInv, CommandInv
  <2>3. script' = "off" /\ done' = {}
    BY <1>15, <2>2 DEF Clean, Checkout, Start, scriptVars
  <2> QED
    BY <1>1, <2>3
<1>16. CASE UNCHANGED <<tree, old, script, done, todo>>
  BY <1>16 DEF DoneInv, Stale, Closure, WithPrerequisites
<1>17. CASE \/ UNCHANGED vars \/ PackageLocally \/ MakeEnded \/ Package \/ Verify \/ Lookup
            \/ Compare \/ DeleteDraft \/ CreateDraft \/ Confirm \/ Publish \/ Fault \/ PersonPublishes
  BY <1>16, <1>17 DEF vars, buildVars, scriptVars, makeVars, PackageLocally, MakeEnded, Package,
     Verify, Lookup, Compare, DeleteDraft, CreateDraft, Confirm, Publish, Fault, PersonPublishes
<1> QED
  BY <1>7, <1>8, <1>9, <1>10, <1>11, <1>12, <1>13, <1>14, <1>15, <1>17, UpgradeIsEdit
     DEF Next, Workflow, Works, MakeStep, Breaks, Workstation, RunMake

\* A file that is newer than what it is made from was made from what is there now, or it
\* is what a failure left truncated: make remakes whatever this does not hold of.
StampInv ==
    /\ Fresh("stage") => noticed["stage"] <= tree["stage"]
    /\ Fresh("binary") => \/ tree["binary"] = Partial \/ tree["fit"] = None
                          \/ tree["binary"] = [stage |-> tree["stage"], fit |-> tree["fit"]]
    /\ \A m \in Media : Fresh(m) => tree[m] \in {Partial, tree["binary"]}
    /\ Fresh("nvme") => tree["payload"] = None \/ tree["nvme"] \in {Partial, tree["payload"]}

LEMMA StampInvKept ==
    TreeInv /\ TreeTypes /\ NoticedInv /\ DoneInv /\ StampInv /\ [Next]_vars => StampInv'
<1> SUFFICES ASSUME TreeInv, TreeTypes, NoticedInv, DoneInv, StampInv, [Next]_vars
             PROVE  StampInv'
  OBVIOUS
<1> DEFINE Made == {"stage", "binary", "nvme"} \union Media
<1>1. ASSUME noticed' = noticed, \A u \in Made : tree'[u] = tree[u] /\ (u \in old => u \in old'),
             tree'["fit"] \in {tree["fit"], None} \/ "binary" \in old',
             tree'["payload"] \in {tree["payload"], None} \/ "nvme" \in old'
      PROVE  StampInv'
  BY <1>1 DEF StampInv, Fresh, Stale
<1>2. CASE MakeStage \/ MakeBinary \/ \E m \in Images : MakeImage(m)
  <2> PICK t \in {"stage", "binary"} \union Images : \E x :
             /\ t \in Targets /\ Makes(t, x) /\ x /= None
             /\ t = "stage" => x = pins
             /\ t = "binary" => x = [stage |-> tree["stage"], fit |-> tree["fit"]]
             /\ t \in Media => x = tree["binary"]
             /\ t = "nvme" => x = tree["payload"]
    BY <1>2, RecipesWrite
  <2> PICK x :
             /\ t \in Targets /\ Makes(t, x) /\ x /= None
             /\ t = "stage" => x = pins
             /\ t = "binary" => x = [stage |-> tree["stage"], fit |-> tree["fit"]]
             /\ t \in Media => x = tree["binary"]
             /\ t = "nvme" => x = tree["payload"]
    OBVIOUS
  <2>1. \A u \in Targets : tree'[u] = IF u = t THEN x ELSE tree[u]
    BY TreeChange DEF Makes
  <2>2. noticed' = noticed /\ old' = (old \ {t}) \union Dependants(t)
    BY DEF Makes
  <2>3. \A u \in Targets : t \in Prerequisites[u] => u \in old'
    BY <2>2 DEF Dependants
  <2>4. \A u \in Made : u /= t => tree'[u] = tree[u] /\ (u \in old => u \in old')
    BY <2>1, <2>2, TargetNames
  <2>5. tree'["fit"] = tree["fit"] /\ tree'["payload"] = tree["payload"] /\ tree'[t] = x
    BY <2>1, TargetNames
  <2>6. CASE t = "stage"
    <3>1. "binary" \in old'
      BY <2>3, <2>6, PrerequisitesAre, TargetNames
    <3>2. noticed["stage"] <= tree'["stage"]
      BY <2>5, <2>6 DEF NoticedInv
    <3> QED
      BY <2>2, <2>4, <2>5, <2>6, <3>1, <3>2, TargetNames DEF StampInv, Fresh, Stale
  <2>7. CASE t = "binary"
    <3>1. Media \subseteq old'
      BY <2>3, <2>7, PrerequisitesAre, TargetNames
    <3> QED
      BY <2>2, <2>4, <2>5, <2>7, <3>1, TargetNames DEF StampInv, Fresh, Stale
  <2>8. CASE t \in Media
    BY <2>2, <2>4, <2>5, <2>8, TargetNames DEF StampInv, Fresh, Stale
  <2>9. CASE t = "nvme"
    BY <2>2, <2>4, <2>5, <2>9, TargetNames DEF StampInv, Fresh, Stale
  <2> QED
    BY <2>6, <2>7, <2>8, <2>9, TargetNames
<1>3. Made \subseteq Targets /\ \A u \in Made : u \notin Uboot /\ u /= "built"
  BY TargetNames DEF Uboot
<1>4. CASE \/ (\E t \in Targets : Keep(t)) \/ NextCall \/ Finish \/ Refuse \/ ExportSnapshot
  BY <1>1, <1>4 DEF Keep, NextCall, Finish, Refuse, ExportSnapshot
<1>5. CASE CopyDevelopment \/ RemoveOutputs
  <2>1. noticed' = noticed /\ old \subseteq old'
    BY <1>5 DEF CopyDevelopment, RemoveOutputs
  <2>2. \A u \in Made : tree'[u] = tree[u]
    BY <1>3, <1>5, CopyWrites, RemoveWrites DEF Uboot
  <2>3. tree'["payload"] \in {tree["payload"], None}
    BY <1>5, CopyWrites, RemoveWrites, TargetNames
  <2>4. tree'["fit"] \in {tree["fit"], None} \/ "binary" \in old'
    <3>1. CASE RemoveOutputs
      BY <3>1, RemoveWrites, TargetNames
    <3>2. CASE CopyDevelopment /\ command.itb = "output"
      BY <3>2, CopyWrites, TargetNames
    <3>3. CASE CopyDevelopment /\ command.itb /= "output"
      BY <3>3, DependantsAre DEF CopyDevelopment
    <3> QED
      BY <1>5, <3>1, <3>2, <3>3
  <2> QED
    BY <1>1, <2>1, <2>2, <2>3, <2>4
<1>6. CASE ArchiveSource \/ CompileFit \/ CompileVariant \/ Touch
  <2>a. PICK t \in {"source", "fit", "payload", "built"} : \E x :
             /\ tree' = Write(tree, t, x)
             /\ t = "fit" => "binary" \in old'
             /\ t = "payload" => "nvme" \in old'
    BY <1>6, DependantsAre DEF ArchiveSource, CompileFit, CompileVariant, Touch
  <2>1. PICK x :
             /\ tree' = Write(tree, t, x)
             /\ t = "fit" => "binary" \in old'
             /\ t = "payload" => "nvme" \in old'
    BY <2>a
  <2>2. \A u \in Targets : u /= t => tree'[u] = tree[u]
    BY <2>1, TreeChange, TargetNames
  <2>3. noticed' = noticed /\ \A u \in Made : u \in old => u \in old'
    BY <1>3, <1>6 DEF ArchiveSource, CompileFit, CompileVariant, Touch
  <2>4. \A u \in Made : tree'[u] = tree[u]
    BY <1>3, <2>2 DEF Uboot
  <2> QED
    BY <1>1, <2>1, <2>2, <2>3, <2>4, TargetNames
<1>7. CASE Fail
  <2>1. noticed' = noticed
    BY <1>7 DEF Fail
  <2>2. CASE UNCHANGED <<tree, old>>
    BY <1>1, <2>1, <2>2
  <2>3. ASSUME NEW t \in {"fit", "payload"},
               \A u \in Targets : tree'[u] = IF u = t THEN Partial ELSE tree[u],
               old' = old \union {IF t = "fit" THEN "binary" ELSE "nvme"}
        PROVE  StampInv'
    <3>1. \A u \in Made : tree'[u] = tree[u]
      BY <1>3, <2>3 DEF Uboot
    <3> QED
      BY <1>1, <2>1, <2>3, <3>1, TargetNames
  <2>4. ASSUME NEW t \in {"binary"} \union Images, NEW left \in {Partial, None},
               \A u \in Targets : tree'[u] = IF u = t THEN left ELSE tree[u],
               old' = (old \ {t}) \union Dependants(t)
        PROVE  StampInv'
    <3>1. /\ \A u \in Made : u /= t => tree'[u] = tree[u] /\ (u \in old => u \in old')
          /\ tree'["fit"] = tree["fit"] /\ tree'["payload"] = tree["payload"] /\ tree'[t] = left
      BY <2>4, TargetNames
    <3>2. CASE t = "binary"
      <4>1. Media \subseteq old'
        BY <2>4, <3>2, DependantsAre
      <4> QED
        BY <2>1, <3>1, <3>2, <4>1, TargetNames DEF StampInv, Fresh, Stale
    <3>3. CASE t \in Media
      BY <2>1, <3>1, <3>3, TargetNames DEF StampInv, Fresh, Stale
    <3>4. CASE t = "nvme"
      BY <2>1, <3>1, <3>4, TargetNames DEF StampInv, Fresh, Stale
    <3> QED
      BY <3>2, <3>3, <3>4, TargetNames
  <2> QED
    BY <1>7, <2>2, <2>3, <2>4, FailWrites
<1>8. CASE Edit
  <2>1. old \subseteq old' /\ tree' = tree
    BY <1>8, EditChanges
  <2>2. "stage" \in old' \/ noticed'["stage"] = noticed["stage"]
    BY <1>8, EditNoticed
  <2> QED
    BY <2>1, <2>2 DEF StampInv, Fresh, Stale
<1>9. CASE Clean \/ Checkout
  <2>1. \A u \in Targets : tree'[u] = None
    BY <1>9 DEF Clean, Checkout, Empty
  <2> QED
    BY <2>1, TargetNames DEF StampInv, Fresh, Stale
<1>10. CASE UNCHANGED <<noticed, tree, old>>
  BY <1>1, <1>10
<1>11. CASE \/ UNCHANGED vars \/ PackageLocally \/ MakeEnded \/ Package \/ Verify \/ Lookup
            \/ Compare \/ DeleteDraft \/ CreateDraft \/ Confirm \/ Publish \/ Fault \/ PersonPublishes
            \/ \E name, itb : Start(name, itb)
  BY <1>10, <1>11 DEF vars, buildVars, PackageLocally, MakeEnded, Package, Verify, Lookup, Compare,
     DeleteDraft, CreateDraft, Confirm, Publish, Fault, PersonPublishes, Start
<1> QED
  BY <1>2, <1>4, <1>5, <1>6, <1>7, <1>8, <1>9, <1>11, UpgradeIsEdit
     DEF Next, Workflow, Works, MakeStep, Breaks, Workstation, RunMake

\* What the script leaves when it read nothing older than the last edit make noticed.
NotBefore(t) == \A v \in tree[t].source \union {tree[t].with} : noticed["built"] <= v
AsNoticed == NotBefore("fit") /\ (Variant => NotBefore("payload"))

\* Unless make was to notice an edit made while it ran, what the script left is not older
\* than any such edit as long as make finds it up to date; a development FIT leaves no
\* source archive.
ScriptInv ==
    ~raced =>
    /\ script \notin {"off", "touch"} => noticed["built"] <= reading
    /\ script \in {"archive", "compile"} => \A v \in snapshot.of : noticed["built"] <= v
    /\ script = "variant" => NotBefore("fit")
    /\ script = "touch" \/ (script = "off" /\ Fresh("built")) => tree["source"] = None \/ AsNoticed

LEMMA ScriptInvKept ==
    TreeInv /\ TreeTypes /\ NoticedInv /\ DoneInv /\ ScriptInv /\ [Next]_vars => ScriptInv'
<1> SUFFICES ASSUME TreeInv, TreeTypes, NoticedInv, DoneInv, ScriptInv, [Next]_vars
             PROVE  ScriptInv'
  OBVIOUS
<1>1. board' = board
  BY BoardStays
<1>2. ASSUME noticed' = noticed, raced' = raced, \A u \in Uboot : tree'[u] = tree[u],
             (script' = script /\ reading' = reading /\ snapshot' = snapshot) \/ script' = "off",
             Fresh("built")' => script = "off" /\ Fresh("built")
      PROVE  ScriptInv'
  <2>1. (AsNoticed' <=> AsNoticed) /\ (NotBefore("fit")' <=> NotBefore("fit"))
    BY <1>1, <1>2 DEF AsNoticed, NotBefore, Variant, Uboot
  <2> QED
    BY <1>2, <2>1 DEF ScriptInv, Uboot
<1>3. noticed["built"] <= pins
  BY DEF NoticedInv
<1>4. script /= "off" => Stale("built")
  BY DEF DoneInv
<1>5. CASE MakeStage \/ MakeBinary \/ \E m \in Images : MakeImage(m)
  <2> PICK t \in {"stage", "binary"} \union Images : \E x : t \in Targets /\ Makes(t, x)
    BY <1>5, RecipesWrite
  <2> PICK x : t \in Targets /\ Makes(t, x)
    OBVIOUS
  <2>1. \A u \in Targets : tree'[u] = IF u = t THEN x ELSE tree[u]
    BY TreeChange DEF Makes
  <2>2. t /= "built" /\ t \notin Uboot
    BY TargetNames DEF Uboot
  <2>3. UNCHANGED <<noticed, raced, script, reading, snapshot>> /\ \A u \in old : u = t \/ u \in old'
    BY DEF Makes, scriptVars
  <2>4. tree'["built"] = tree["built"] /\ \A u \in Uboot : tree'[u] = tree[u]
    BY <2>1, <2>2, TargetNames DEF Uboot
  <2>5. Stale("built") => Stale("built")'
    BY <2>2, <2>3, <2>4 DEF Stale
  <2> QED
    BY <1>2, <1>4, <2>3, <2>4, <2>5 DEF Fresh
<1>6. CASE \/ (\E t \in Targets : Keep(t)) \/ NextCall \/ Finish \/ Refuse
  <2>1. UNCHANGED <<noticed, raced, tree, old>>
        /\ (script' = "off" \/ UNCHANGED <<script, reading, snapshot>>)
    BY <1>6 DEF Keep, NextCall, Finish, Refuse, Ends, scriptVars
  <2> QED
    BY <1>2, <1>4, <2>1 DEF Stale, Fresh
<1>7. CASE Fail
  <2>1. UNCHANGED <<noticed, raced>> /\ script' = "off"
    BY <1>7 DEF Fail, Ends
  <2>2. CASE UNCHANGED <<tree, old>>
    BY <1>2, <1>4, <2>1, <2>2 DEF Stale, Fresh
  <2>3. ASSUME NEW t \in {"fit", "payload"}, Stale("built"), old \subseteq old',
               \A u \in Targets : tree'[u] = IF u = t THEN Partial ELSE tree[u]
        PROVE  ScriptInv'
    <3>1. Stale("built")'
      BY <2>3, TargetNames DEF Stale
    <3> QED
      BY <2>1, <3>1 DEF ScriptInv, Fresh
  <2>4. ASSUME NEW t \in {"binary"} \union Images, NEW left,
               \A u \in Targets : tree'[u] = IF u = t THEN left ELSE tree[u],
               old' = (old \ {t}) \union Dependants(t)
        PROVE  ScriptInv'
    <3>1. (\A u \in Uboot : tree'[u] = tree[u]) /\ tree'["built"] = tree["built"] /\ t /= "built"
      BY <2>4, TargetNames DEF Uboot
    <3>2. Stale("built") => Stale("built")'
      BY <2>4, <3>1 DEF Stale
    <3> QED
      BY <1>2, <1>4, <2>1, <3>1, <3>2 DEF Fresh
  <2> QED
    BY <1>4, <1>7, <2>2, <2>3, <2>4, FailWrites DEF Runs
<1>8. CASE CopyDevelopment
  <2>1. tree'["source"] = None
    BY <1>8, CopyWrites, TargetNames
  <2> QED
    BY <1>8, <2>1 DEF CopyDevelopment, ScriptInv
<1>9. CASE RemoveOutputs
  BY <1>3, <1>9 DEF RemoveOutputs, ScriptInv
<1>10. CASE ExportSnapshot
  BY <1>3, <1>10 DEF ExportSnapshot, ScriptInv
<1>11. CASE ArchiveSource
  BY <1>11 DEF ArchiveSource, ScriptInv
<1>12. CASE CompileFit
  <2>1. script = "compile" /\ UNCHANGED <<noticed, reading, raced>>
        /\ script' = IF Variant THEN "variant" ELSE "touch"
    BY <1>12 DEF CompileFit
  <2> SUFFICES ASSUME ~raced PROVE ScriptInv'
    BY <2>1 DEF ScriptInv
  <2>2. noticed["built"] <= reading /\ \A v \in snapshot.of : noticed["built"] <= v
    BY <2>1 DEF ScriptInv
  <2>3. tree' = Write(tree, "fit", [source |-> snapshot.of, with |-> pins])
    BY <1>12 DEF CompileFit
  <2>4. tree'["fit"] = [source |-> snapshot.of, with |-> pins]
    BY <2>3, TreeChange, TargetNames
  <2>5. NotBefore("fit")'
    BY <1>3, <2>1, <2>2, <2>4 DEF NotBefore
  <2> QED
    BY <1>1, <2>1, <2>2, <2>5 DEF ScriptInv, AsNoticed, Variant
<1>13. CASE CompileVariant
  <2>1. script = "variant" /\ script' = "touch" /\ UNCHANGED <<noticed, raced>>
    BY <1>13 DEF CompileVariant
  <2> SUFFICES ASSUME ~raced PROVE ScriptInv'
    BY <2>1 DEF ScriptInv
  <2>2. noticed["built"] <= reading /\ NotBefore("fit")
    BY <2>1 DEF ScriptInv
  <2>3. tree' = Write(tree, "payload", [source |-> {reading, pins}, with |-> pins])
    BY <1>13 DEF CompileVariant
  <2>4. tree'["payload"] = [source |-> {reading, pins}, with |-> pins] /\ tree'["fit"] = tree["fit"]
    BY <2>3, TreeChange, TargetNames
  <2>5. NotBefore("fit")' /\ NotBefore("payload")'
    BY <1>3, <2>1, <2>2, <2>4 DEF NotBefore
  <2> QED
    BY <2>1, <2>5 DEF ScriptInv, AsNoticed
<1>14. CASE Touch
  <2>1. \A u \in Targets : tree'[u] = IF u = "built" THEN pins ELSE tree[u]
    BY <1>14, TreeChange, TargetNames DEF Touch
  <2>2. \A u \in Uboot : tree'[u] = tree[u]
    BY <2>1, TargetNames DEF Uboot
  <2>3. script = "touch" /\ script' = "off" /\ UNCHANGED <<noticed, raced>>
    BY <1>14 DEF Touch
  <2>4. AsNoticed' <=> AsNoticed
    BY <1>1, <2>2, <2>3 DEF AsNoticed, NotBefore, Variant, Uboot
  <2> QED
    BY <2>2, <2>3, <2>4 DEF ScriptInv, Uboot
<1>15. CASE Edit
  <2>1. UNCHANGED <<script, reading, snapshot, tree>> /\ old \subseteq old'
    BY <1>15, EditChanges
  <2> SUFFICES ASSUME ~raced' PROVE ScriptInv'
    BY DEF ScriptInv
  <2>a. ~raced
    BY <1>15, EditNoticed
  <2>2. CASE "built" \in old' /\ script = "off"
    BY <2>1, <2>2 DEF ScriptInv, Fresh, Stale
  <2>3. CASE noticed'["built"] = noticed["built"]
    <3>1. (AsNoticed' <=> AsNoticed) /\ (NotBefore("fit")' <=> NotBefore("fit"))
      BY <1>1, <2>1, <2>3 DEF AsNoticed, NotBefore, Variant
    <3>2. Fresh("built")' => Fresh("built")
      BY <2>1 DEF Fresh, Stale
    <3> QED
      BY <2>a, <2>1, <2>3, <3>1, <3>2 DEF ScriptInv
  <2> QED
    BY <1>15, <2>2, <2>3, EditNoticed
<1>16. CASE Clean \/ Checkout
  <2>1. command = None /\ script' = script /\ tree' = Empty
    BY <1>16 DEF Clean, Checkout, Resting, TreeInv, BaseInv, CommandInv
  <2>2. script' = "off" /\ tree'["built"] = None
    BY <2>1, TargetNames DEF TreeInv, CommandInv, Empty
  <2> QED
    BY <2>2 DEF ScriptInv, Fresh, Stale
<1>17. CASE UNCHANGED <<noticed, tree, old, scriptVars>>
  BY <1>1, <1>17 DEF ScriptInv, AsNoticed, NotBefore, Variant, Fresh, Stale, scriptVars
<1>18. CASE \/ UNCHANGED vars \/ PackageLocally \/ MakeEnded \/ Package \/ Verify \/ Lookup
            \/ Compare \/ DeleteDraft \/ CreateDraft \/ Confirm \/ Publish \/ Fault \/ PersonPublishes
            \/ \E name, itb : Start(name, itb)
  BY <1>17, <1>18 DEF vars, buildVars, PackageLocally, MakeEnded, Package, Verify, Lookup, Compare,
     DeleteDraft, CreateDraft, Confirm, Publish, Fault, PersonPublishes, Start
<1> QED
  BY <1>5, <1>6, <1>7, <1>8, <1>9, <1>10, <1>11, <1>12, <1>13, <1>14, <1>15, <1>16, <1>18, UpgradeIsEdit
     DEF Next, Workflow, Works, MakeStep, Breaks, Workstation, RunMake

\* A truncated payload, and a truncated FIT beside a source archive, are there only until
\* the script has run through.
PartialInv ==
    /\ script = "variant" => Variant /\ tree["fit"] /= Partial
    /\ tree["payload"] = Partial =>
        Variant /\ Stale("built") /\ "built" \notin done /\ script /= "touch"
    /\ tree["fit"] = Partial /\ tree["source"] /= None =>
        Stale("built") /\ "built" \notin done /\ script /= "touch"

LEMMA PartialInvKept == TreeInv /\ TreeTypes /\ DoneInv /\ PartialInv /\ [Next]_vars => PartialInv'
<1> SUFFICES ASSUME TreeInv, TreeTypes, DoneInv, PartialInv, [Next]_vars PROVE PartialInv'
  OBVIOUS
<1> USE NothingAssumption
<1>1. Variant' <=> Variant
  BY BoardStays DEF Variant
<1>2. script /= "off" => Stale("built")
  BY DEF DoneInv
<1>3. ASSUME \A u \in {"payload", "built", "fit", "source"} : tree'[u] = tree[u],
             \A u \in old : u = "built" => u \in old',
             done' = {} \/ ("built" \in done' => "built" \in done),
             script' = script \/ script' = "off"
      PROVE  PartialInv'
  BY <1>1, <1>3 DEF PartialInv, Stale
<1>4. CASE MakeStage \/ MakeBinary \/ \E m \in Images : MakeImage(m)
  <2> PICK t \in {"stage", "binary"} \union Images : \E x : t \in Targets /\ Makes(t, x)
    BY <1>4, RecipesWrite
  <2> PICK x : t \in Targets /\ Makes(t, x)
    OBVIOUS
  <2>1. \A u \in Targets : u /= t => tree'[u] = tree[u]
    BY TreeChange DEF Makes
  <2>2. done' = done \union {t} /\ old' = (old \ {t}) \union Dependants(t) /\ script' = script
    BY DEF Makes, scriptVars
  <2>3. t \notin {"payload", "built", "fit", "source"}
    BY TargetNames
  <2> QED
    BY <1>3, <2>1, <2>2, <2>3, TargetNames
<1>5. CASE \E t \in Targets : Keep(t)
  <2> PICK t \in Targets : Keep(t)
    BY <1>5
  <2>1. done' = done \union {t} /\ UNCHANGED <<tree, old, script>>
        /\ (t = "built" => ~Stale("built"))
    BY DEF Keep, Stale, Uboot, scriptVars
  <2> QED
    BY <1>1, <2>1 DEF PartialInv, Stale
<1>6. CASE NextCall \/ Finish \/ Refuse
  BY <1>3, <1>6 DEF NextCall, Finish, Refuse, Ends, scriptVars
<1>7. CASE Fail
  <2>1. script' = "off" /\ done' = {}
    BY <1>7 DEF Fail, Ends
  <2>2. CASE UNCHANGED <<tree, old>>
    BY <1>3, <2>1, <2>2
  <2>3. ASSUME NEW t \in {"binary"} \union Images, NEW x,
               \A u \in Targets : tree'[u] = IF u = t THEN x ELSE tree[u],
               old' = (old \ {t}) \union Dependants(t)
        PROVE  PartialInv'
    <3>1. t \notin {"payload", "built", "fit", "source"}
      BY TargetNames
    <3> QED
      BY <1>3, <2>1, <2>3, <3>1, TargetNames
  <2>4. ASSUME NEW t \in {"fit", "payload"}, Stale("built"), t = "payload" => Variant,
               \A u \in Targets : tree'[u] = IF u = t THEN Partial ELSE tree[u],
               old \subseteq old'
        PROVE  PartialInv'
    <3>1. Stale("built")'
      BY <2>4, TargetNames DEF Stale
    <3>2. tree'["payload"] = Partial => Variant
      BY <2>4, TargetNames DEF PartialInv
    <3> QED
      BY <1>1, <2>1, <3>1, <3>2 DEF PartialInv
  <2>5. CASE /\ script = "compile" \/ (Runs("built") /\ script = "off")
             /\ \A u \in Targets : tree'[u] = IF u = "fit" THEN Partial ELSE tree[u]
             /\ old' = old \union {"binary"}
    BY <1>2, <2>4, <2>5 DEF Runs
  <2>6. CASE /\ script = "variant"
             /\ \A u \in Targets : tree'[u] = IF u = "payload" THEN Partial ELSE tree[u]
             /\ old' = old \union {"nvme"}
    BY <1>2, <2>4, <2>6 DEF PartialInv
  <2> QED
    BY <1>7, <2>2, <2>3, <2>5, <2>6, FailWrites
<1>8. CASE CopyDevelopment
  <2>1. tree'["payload"] = None /\ tree'["source"] = None /\ script' = "touch"
    BY <1>8, CopyWrites, TargetNames DEF CopyDevelopment
  <2> QED
    BY <2>1 DEF PartialInv
<1>9. CASE RemoveOutputs \/ ExportSnapshot \/ ArchiveSource \/ CompileFit
  <2>1. tree'["payload"] = tree["payload"] /\ tree'["built"] = tree["built"]
    BY <1>9, RemoveWrites, TreeChange, TargetNames DEF ExportSnapshot, ArchiveSource, CompileFit
  <2>2. tree'["fit"] /= Partial
    <3>1. CASE RemoveOutputs
      BY <3>1, RemoveWrites, TargetNames
    <3>2. CASE ExportSnapshot \/ ArchiveSource
      <4>1. tree["fit"] = None
        BY <3>2 DEF ExportSnapshot, ArchiveSource, TreeInv, SourceInv
      <4>2. tree'["fit"] = tree["fit"]
        BY <3>2, TreeChange, TargetNames DEF ExportSnapshot, ArchiveSource
      <4> QED
        BY <4>1, <4>2
    <3>3. CASE CompileFit
      <4>1. tree'["fit"] = [source |-> snapshot.of, with |-> pins]
        BY <3>3, TreeChange, TargetNames DEF CompileFit
      <4>2. [source |-> snapshot.of, with |-> pins] \in PinnedBuilds
        BY DEF TreeInv, BaseInv, PinnedBuilds
      <4> QED
        BY <4>1, <4>2
    <3> QED
      BY <1>9, <3>1, <3>2, <3>3
  <2>3. old \subseteq old' /\ done' = done
    BY <1>9 DEF RemoveOutputs, ExportSnapshot, ArchiveSource, CompileFit, makeVars
  <2>4. (script' = "variant" => Variant) /\ (script' = "touch" => ~Variant)
    BY <1>9 DEF RemoveOutputs, ExportSnapshot, ArchiveSource, CompileFit
  <2> QED
    BY <1>1, <2>1, <2>2, <2>3, <2>4 DEF PartialInv, Stale
<1>10. CASE CompileVariant
  <2>1. tree'["payload"] = [source |-> {reading, pins}, with |-> pins] /\ script' = "touch"
        /\ tree'["fit"] = tree["fit"]
    BY <1>10, TreeChange, TargetNames DEF CompileVariant
  <2>2. [source |-> {reading, pins}, with |-> pins] \in PinnedBuilds
    BY DEF TreeInv, BaseInv, PinnedBuilds, Snapshots
  <2>3. tree["fit"] /= Partial
    BY <1>10 DEF CompileVariant, PartialInv
  <2> QED
    BY <2>1, <2>2, <2>3 DEF PartialInv
<1>11. CASE Touch
  <2>1. UNCHANGED <<tree["payload"], tree["fit"], tree["source"]>>
        /\ script = "touch" /\ script' = "off"
    BY <1>11, TreeChange, TargetNames DEF Touch
  <2> QED
    BY <2>1 DEF PartialInv
<1>12. CASE Edit
  BY <1>3, <1>12, EditChanges DEF makeVars
<1>13. CASE Clean \/ Checkout
  <2>1. command = None /\ script' = script /\ tree' = Empty
    BY <1>13 DEF Clean, Checkout, Resting, TreeInv, BaseInv, CommandInv
  <2> QED
    BY <2>1, TargetNames DEF TreeInv, CommandInv, Empty, PartialInv
<1>14. ASSUME NEW name, NEW itb, Start(name, itb)
       PROVE  PartialInv'
  BY <1>3, <1>14 DEF Start, scriptVars
<1>15. CASE \/ UNCHANGED vars \/ PackageLocally \/ MakeEnded \/ Package \/ Verify \/ Lookup
            \/ Compare \/ DeleteDraft \/ CreateDraft \/ Confirm \/ Publish \/ Fault \/ PersonPublishes
  <2>1. UNCHANGED <<tree, old, done, script>>
    BY <1>15 DEF vars, buildVars, scriptVars, makeVars, PackageLocally, MakeEnded, Package, Verify,
       Lookup, Compare, DeleteDraft, CreateDraft, Confirm, Publish, Fault, PersonPublishes
  <2> QED
    BY <1>3, <2>1
<1> QED
  BY <1>4, <1>5, <1>6, <1>7, <1>8, <1>9, <1>10, <1>11, <1>12, <1>13, <1>14, <1>15, UpgradeIsEdit
     DEF Next, Workflow, Works, MakeStep, Breaks, Workstation, RunMake

\* What was considered after the last edit that makes it old is still up to date.
ConsideredInv ==
    command /= None =>
    \A t \in {"stage", "built"} \cap done : noticed[t] <= command.since => t \notin old

LEMMA ConsideredInvKept ==
    TreeInv /\ TreeTypes /\ CommandTypes /\ NoticedInv /\ DoneInv /\ ConsideredInv /\ [Next]_vars
    => ConsideredInv'
<1> SUFFICES ASSUME TreeInv, TreeTypes, CommandTypes, NoticedInv, DoneInv, ConsideredInv, [Next]_vars
             PROVE  ConsideredInv'
  OBVIOUS
<1>1. CASE done' = {} \/ command' = None
  BY <1>1 DEF ConsideredInv
<1>2. ASSUME UNCHANGED <<command, noticed>>, NEW t, t \notin old' \/ t \notin {"stage", "built"},
             done' \in {done, done \union {t}},
             \A u \in {"stage", "built"} : u \in old' => u \in old
      PROVE  ConsideredInv'
  BY <1>2 DEF ConsideredInv
<1>3. CASE MakeStage \/ MakeBinary \/ \E m \in Images : MakeImage(m)
  <2> PICK t \in {"stage", "binary"} \union Images : \E x :
             t \in Targets /\ Considers(t) /\ Makes(t, x)
    BY <1>3, RecipesWrite
  <2> PICK x :
             t \in Targets /\ Considers(t) /\ Makes(t, x)
    OBVIOUS
  <2>1. done' = done \union {t} /\ old' = (old \ {t}) \union Dependants(t)
        /\ UNCHANGED <<command, noticed>>
    BY DEF Makes
  <2>2. \A u \in {"stage", "built"} : u \in old' => u \in old /\ u /= t
    BY <2>1, DependantsAre
  <2> QED
    BY <1>2, <2>1, <2>2
<1>4. CASE \E t \in Targets : Keep(t)
  <2> PICK t \in Targets : Keep(t)
    BY <1>4
  <2>1. done' = done \union {t} /\ UNCHANGED <<command, noticed, old>> /\ (t \in old => t \in Uboot)
    BY DEF Keep
  <2> QED
    BY <1>2, <2>1 DEF Uboot
<1>5. CASE \/ CopyDevelopment \/ RemoveOutputs \/ ExportSnapshot \/ ArchiveSource \/ CompileFit
           \/ CompileVariant
  <2>1. UNCHANGED <<command, noticed, done>> /\ old' \subseteq old \union {"binary", "nvme"}
    BY <1>5, DependantsAre DEF CopyDevelopment, RemoveOutputs, ExportSnapshot, ArchiveSource,
       CompileFit, CompileVariant, makeVars
  <2> QED
    BY <2>1 DEF ConsideredInv
<1>6. CASE Touch
  <2>1. /\ done' = done \union {"built"} /\ old' = (old \ {"built"}) \union Uboot
        /\ UNCHANGED <<command, noticed>>
    BY <1>6 DEF Touch
  <2> QED
    BY <1>2, <2>1 DEF Uboot
<1>7. CASE NextCall \/ Finish \/ Refuse \/ Fail
  BY <1>1, <1>7 DEF NextCall, Finish, Refuse, Fail, Ends
<1>8. CASE Edit
  <2>1. UNCHANGED <<command, done>>
    BY <1>8, EditChanges DEF makeVars
  <2> SUFFICES ASSUME command /= None, NEW t \in {"stage", "built"} \cap done,
                      noticed'[t] <= command.since
               PROVE  t \notin old'
    BY <2>1 DEF ConsideredInv
  <2>2. command.since \in Int /\ command.since <= pins /\ pins \in Int
    BY DEF CommandTypes, Commands, Versions, TreeInv, BaseInv
  <2>3. PICK seen \in EditKinds : Changed(seen)
    BY <1>8 DEF Edit
  <2>4. noticed'[t] = IF t \in seen THEN pins + 1 ELSE noticed[t]
    BY <2>3 DEF Changed, NoticedInv
  <2>5. t \notin seen
    BY <2>2, <2>4
  <2>6. t \notin old
    BY <2>4, <2>5 DEF ConsideredInv
  <2> QED
    BY <2>3, <2>5, <2>6 DEF Changed
<1>9. CASE Clean \/ Checkout \/ \E name, itb : Start(name, itb)
  <2>1. command = None /\ (done' = done \/ done' = {})
    BY <1>9 DEF Clean, Checkout, Start, Resting, TreeInv, BaseInv, CommandInv
  <2> QED
    BY <1>1, <2>1 DEF TreeInv, CommandInv
<1>10. CASE \/ UNCHANGED vars \/ PackageLocally \/ MakeEnded \/ Package \/ Verify \/ Lookup
            \/ Compare \/ DeleteDraft \/ CreateDraft \/ Confirm \/ Publish \/ Fault \/ PersonPublishes
  <2>1. UNCHANGED <<command, noticed, old, done>>
    BY <1>10 DEF vars, buildVars, makeVars, PackageLocally, MakeEnded, Package, Verify, Lookup,
       Compare, DeleteDraft, CreateDraft, Confirm, Publish, Fault, PersonPublishes
  <2> QED
    BY <2>1 DEF ConsideredInv
<1> QED
  BY <1>3, <1>4, <1>5, <1>6, <1>7, <1>8, <1>9, <1>10, UpgradeIsEdit
     DEF Next, Workflow, Works, MakeStep, Breaks, Workstation, RunMake

\* What this call of make has considered matches what it is made from, or is truncated.
Matches(t) ==
    /\ t = "binary" =>
          tree["binary"] \in {Partial, [stage |-> tree["stage"], fit |-> tree["fit"]]}
    /\ t \in Media => tree[t] \in {Partial, tree["binary"]}
    /\ t = "nvme" => tree["nvme"] \in {Partial, tree["payload"]}
MatchInv == \A t \in done : Matches(t)

LEMMA MatchInvKept ==
    TreeInv /\ TreeTypes /\ DoneInv /\ StampInv /\ MatchInv /\ [Next]_vars => MatchInv'
<1> SUFFICES ASSUME TreeInv, TreeTypes, DoneInv, StampInv, MatchInv, [Next]_vars
             PROVE  MatchInv'
  OBVIOUS
<1>1. CASE done' = {}
  BY <1>1 DEF MatchInv
<1>2. ASSUME \A u \in done : tree'[u] = tree[u]
      PROVE  \A u \in done : Matches(u)'
  <2> SUFFICES ASSUME NEW u \in done PROVE Matches(u)'
    OBVIOUS
  <2>1. Matches(u) /\ tree'[u] = tree[u] /\ \A p \in Prerequisites[u] : tree'[p] = tree[p]
    BY <1>2 DEF MatchInv, DoneInv
  <2>2. CASE u = "binary"
    BY <2>1, <2>2, PrerequisitesAre, TargetNames DEF Matches
  <2>3. CASE u \in Media
    BY <2>1, <2>3, PrerequisitesAre, TargetNames DEF Matches
  <2>4. CASE u = "nvme"
    BY <2>1, <2>4, PrerequisitesAre, TargetNames DEF Matches
  <2> QED
    BY <2>2, <2>3, <2>4 DEF Matches
<1>3. ASSUME NEW t, done' \in {done, done \union {t}}, \A u \in done : tree'[u] = tree[u], Matches(t)'
      PROVE  MatchInv'
  BY <1>2, <1>3 DEF MatchInv
<1>4. Matches("built")'
  BY TargetNames DEF Matches
<1>5. CASE MakeStage \/ MakeBinary \/ \E m \in Images : MakeImage(m)
  <2> PICK t \in {"stage", "binary"} \union Images : \E x :
             /\ t \in Targets /\ Considers(t) /\ Makes(t, x)
             /\ t = "binary" => x = [stage |-> tree["stage"], fit |-> tree["fit"]]
             /\ t \in Media => x = tree["binary"]
             /\ t = "nvme" => x = tree["payload"]
    BY <1>5, RecipesWrite
  <2> PICK x :
             /\ t \in Targets /\ Considers(t) /\ Makes(t, x)
             /\ t = "binary" => x = [stage |-> tree["stage"], fit |-> tree["fit"]]
             /\ t \in Media => x = tree["binary"]
             /\ t = "nvme" => x = tree["payload"]
    OBVIOUS
  <2>1. \A u \in Targets : tree'[u] = IF u = t THEN x ELSE tree[u]
    BY TreeChange DEF Makes
  <2>2. done' = done \union {t} /\ \A u \in done : tree'[u] = tree[u]
    BY <2>1 DEF Makes, Considers, DoneInv
  <2>3. Matches(t)'
    <3>1. CASE t = "binary"
      BY <2>1, <3>1, TargetNames DEF Matches
    <3>2. CASE t \in Media
      BY <2>1, <3>2, TargetNames DEF Matches
    <3>3. CASE t = "nvme"
      BY <2>1, <3>3, TargetNames DEF Matches
    <3> QED
      BY <3>1, <3>2, <3>3 DEF Matches
  <2> QED
    BY <1>3, <2>2, <2>3
<1>6. CASE \E t \in Targets : Keep(t)
  <2> PICK t \in Targets : Keep(t)
    BY <1>6
  <2>1. done' = done \union {t} /\ tree' = tree /\ Considers(t) /\ tree[t] /= None
        /\ (t \in old => t \in Uboot)
    BY DEF Keep
  <2>2. \A p \in Prerequisites[t] : tree[p] /= None
    BY <2>1 DEF Considers, DoneInv
  <2>3. Matches(t)
    <3>1. CASE t = "binary"
      BY <2>1, <2>2, <3>1, PrerequisitesAre, TargetNames DEF Matches, StampInv, Fresh, Stale, Uboot
    <3>2. CASE t \in Media
      BY <2>1, <3>2, TargetNames DEF Matches, StampInv, Fresh, Stale, Uboot
    <3>3. CASE t = "nvme"
      BY <2>1, <2>2, <3>3, PrerequisitesAre, TargetNames DEF Matches, StampInv, Fresh, Stale, Uboot
    <3> QED
      BY <3>1, <3>2, <3>3 DEF Matches
  <2>4. Matches(t)'
    BY <2>1, <2>3 DEF Matches
  <2> QED
    BY <1>3, <2>1, <2>4
<1>7. CASE \/ CopyDevelopment \/ RemoveOutputs \/ ExportSnapshot \/ ArchiveSource \/ CompileFit
           \/ CompileVariant \/ Touch
  <2>1. "built" \notin done
    BY <1>7 DEF CopyDevelopment, RemoveOutputs, Runs, Considers, ExportSnapshot, ArchiveSource,
       CompileFit, CompileVariant, Touch, DoneInv
  <2>2. \A u \in done : u \in Targets /\ u /= "built" /\ u \notin Uboot
    BY <2>1, PrerequisitesAre DEF DoneInv
  <2>3. \A u \in Targets \ (Uboot \union {"built"}) : tree'[u] = tree[u]
    <3>1. CASE CopyDevelopment \/ RemoveOutputs
      BY <3>1, CopyWrites, RemoveWrites DEF Uboot
    <3>2. CASE ExportSnapshot \/ ArchiveSource \/ CompileFit \/ CompileVariant \/ Touch
      BY <3>2, TreeChange, TargetNames DEF ExportSnapshot, ArchiveSource, CompileFit,
         CompileVariant, Touch, Uboot
    <3> QED
      BY <1>7, <3>1, <3>2
  <2>4. done' \in {done, done \union {"built"}}
    BY <1>7 DEF CopyDevelopment, RemoveOutputs, ExportSnapshot, ArchiveSource, CompileFit,
       CompileVariant, Touch, makeVars
  <2> QED
    BY <1>3, <1>4, <2>2, <2>3, <2>4
<1>8. CASE NextCall \/ Finish \/ Refuse \/ Fail
  BY <1>1, <1>8 DEF NextCall, Finish, Refuse, Fail, Ends
<1>9. CASE Clean \/ Checkout \/ \E name, itb : Start(name, itb)
  <2>1. command = None /\ (done' = done \/ done' = {})
    BY <1>9 DEF Clean, Checkout, Start, Resting, TreeInv, BaseInv, CommandInv
  <2> QED
    BY <1>1, <2>1 DEF TreeInv, CommandInv
<1>10. CASE UNCHANGED <<tree, done>>
  BY <1>10 DEF MatchInv, Matches
<1>11. CASE \/ UNCHANGED vars \/ Edit \/ PackageLocally \/ MakeEnded \/ Package \/ Verify \/ Lookup
            \/ Compare \/ DeleteDraft \/ CreateDraft \/ Confirm \/ Publish \/ Fault \/ PersonPublishes
  BY <1>10, <1>11, EditChanges DEF vars, buildVars, makeVars, PackageLocally, MakeEnded, Package,
     Verify, Lookup, Compare, DeleteDraft, CreateDraft, Confirm, Publish, Fault, PersonPublishes
<1> QED
  BY <1>5, <1>6, <1>7, <1>8, <1>9, <1>11, UpgradeIsEdit
     DEF Next, Workflow, Works, MakeStep, Breaks, Workstation, RunMake

\* What the calls of make that have ended leave for the report.
CallInv ==
    command /= None =>
    /\ command.name = "chainload" =>
        \/ todo = Goals("chainload", None)
        \/ /\ todo = <<>> /\ OfOneTree({Partial})
           /\ ~raced /\ (\A t \in DOMAIN noticed : noticed[t] <= command.since) => UpToDate
    /\ command.name = "check" /\ command.itb = None =>
        todo = Goals("check", None) \/ tree["payload"] /= Partial

MakeInvariant ==
    /\ TreeInv /\ TreeTypes /\ CommandTypes /\ NoticedInv /\ DoneInv
    /\ StampInv /\ ScriptInv /\ PartialInv /\ ConsideredInv /\ MatchInv

\* make chainload has considered every artifact, so each is there and matches the others.
LEMMA CallMatches ==
    ASSUME MakeInvariant, script = "off", {"fit", "source", "binary"} \union Images \subseteq done
    PROVE  /\ {"fit", "source", "binary", "built", "stage"} \subseteq done
           /\ Variant => "payload" \in done
           /\ OfOneTree({Partial})
<1> USE NothingAssumption
<1>1. {"fit", "source", "binary", "built", "stage"} \subseteq done /\ Media \subseteq done
      /\ (Variant => {"nvme", "payload"} \subseteq done)
  <2>1. {"fit", "source", "binary"} \subseteq done /\ Media \subseteq done
        /\ (Variant => "nvme" \in done)
    BY DEF Images
  <2>2. \A t \in done : Prerequisites[t] \subseteq done
    BY DEF MakeInvariant, DoneInv
  <2> QED
    BY <2>1, <2>2, PrerequisitesAre DEF Uboot
<1>2. tree["fit"] /= None /\ tree["source"] /= None /\ (Variant => tree["payload"] /= None)
  BY <1>1 DEF MakeInvariant, DoneInv
<1>3. tree["fit"] /= Partial /\ tree["payload"] /= Partial
  BY <1>1, <1>2 DEF MakeInvariant, PartialInv
<1>4. Pinned(tree["fit"]) /\ tree["source"] = tree["fit"].source
  BY <1>2, <1>3 DEF MakeInvariant, TreeInv, SourceInv, SourceKept
<1>5. Variant => Pinned(tree["payload"])
  BY <1>2, <1>3 DEF MakeInvariant, TreeTypes, Pinned
<1>6. /\ tree["binary"] \in {Partial, [stage |-> tree["stage"], fit |-> tree["fit"]]}
      /\ \A m \in Media : tree[m] \in {Partial, tree["binary"]}
      /\ Variant => tree["nvme"] \in {Partial, tree["payload"]}
  BY <1>1 DEF MakeInvariant, MatchInv, Matches
<1> QED
  BY <1>1, <1>4, <1>5, <1>6 DEF OfOneTree

\* And what make was to notice before the command was given, it has remade.
LEMMA CallMakesUpToDate ==
    ASSUME MakeInvariant, command /= None, script = "off", ~raced,
           \A t \in DOMAIN noticed : noticed[t] <= command.since,
           {"fit", "source", "binary"} \union Images \subseteq done
    PROVE  UpToDate
<1>1. {"fit", "source", "binary", "built", "stage"} \subseteq done /\ (Variant => "payload" \in done)
  BY CallMatches
<1>2. \A t \in done : tree[t] /= None
  BY DEF MakeInvariant, DoneInv
<1>3. DOMAIN noticed = {"stage", "built"}
  BY DEF MakeInvariant, NoticedInv
<1>4. Fresh("stage") /\ Fresh("built")
  BY <1>1, <1>2, <1>3 DEF MakeInvariant, ConsideredInv, Fresh, Stale
<1>5. noticed["stage"] <= tree["stage"]
  BY <1>4 DEF MakeInvariant, StampInv
<1>6. AsNoticed
  BY <1>1, <1>2, <1>4 DEF MakeInvariant, ScriptInv
<1> QED
  BY <1>5, <1>6 DEF UpToDate, AsNoticed, NotBefore

LEMMA CallInvKept == MakeInvariant /\ CallInv /\ [Next]_vars => CallInv'
<1> SUFFICES ASSUME MakeInvariant, CallInv, [Next]_vars PROVE CallInv'
  OBVIOUS
<1> USE NothingAssumption
<1>1. board' = board /\ TreeInv /\ TreeTypes /\ DoneInv
  BY BoardStays DEF MakeInvariant
<1>2. \A name, itb : Goals(name, itb)' = Goals(name, itb)
  BY <1>1 DEF Goals, Images, Variant
<1>3. CASE command' = None
  BY <1>3 DEF CallInv
<1>4. ASSUME UNCHANGED <<command, todo>>, todo /= <<>>,
             tree'["payload"] = Partial => tree["payload"] = Partial
      PROVE  CallInv'
  BY <1>2, <1>4 DEF CallInv
<1>5. CASE MakeStage \/ MakeBinary \/ \E m \in Images : MakeImage(m)
  <2> PICK t \in {"stage", "binary"} \union Images : \E x :
             t \in Targets /\ Considers(t) /\ Makes(t, x)
    BY <1>1, <1>5, RecipesWrite
  <2> PICK x :
             t \in Targets /\ Considers(t) /\ Makes(t, x)
    OBVIOUS
  <2>1. tree'["payload"] = tree["payload"]
    BY <1>1, TreeChange, TargetNames DEF Makes
  <2> QED
    BY <1>4, <2>1 DEF Makes, Considers
<1>6. CASE \E t \in Targets : Keep(t)
  BY <1>4, <1>6 DEF Keep, Considers
<1>7. CASE CopyDevelopment \/ RemoveOutputs
  <2>1. tree'["payload"] \in {None, tree["payload"]}
    BY <1>1, <1>7, CopyWrites, RemoveWrites, TargetNames
  <2> QED
    BY <1>4, <1>7, <2>1 DEF CopyDevelopment, RemoveOutputs, Runs, Considers, makeVars
<1>8. CASE ExportSnapshot \/ ArchiveSource \/ CompileFit \/ CompileVariant \/ Touch
  <2>1. UNCHANGED <<command, todo>> /\ todo /= <<>>
    BY <1>1, <1>8 DEF ExportSnapshot, ArchiveSource, CompileFit, CompileVariant, Touch, makeVars,
       DoneInv
  <2>2. tree'["payload"] = tree["payload"]
        \/ tree'["payload"] = [source |-> {reading, pins}, with |-> pins]
    BY <1>1, <1>8, TreeChange, TargetNames DEF ExportSnapshot, ArchiveSource, CompileFit,
       CompileVariant, Touch
  <2>3. [source |-> {reading, pins}, with |-> pins] \in PinnedBuilds
    BY <1>1 DEF TreeInv, BaseInv, PinnedBuilds, Snapshots
  <2> QED
    BY <1>4, <2>1, <2>2, <2>3
<1>9. CASE NextCall
  <2>1. /\ command /= None /\ todo /= <<>> /\ Head(todo) \subseteq done /\ todo' = Tail(todo)
        /\ UNCHANGED <<noticed, tree, command, raced>>
    BY <1>9 DEF NextCall, scriptVars
  <2>2. script = "off"
    BY <1>1, <1>9, ScriptOffAtCall
  <2>3. CASE command.name = "chainload"
    <3>1. todo = <<{"fit", "source", "binary"} \union Images>>
      BY <2>1, <2>3 DEF CallInv, Goals
    <3>2. Head(todo) = {"fit", "source", "binary"} \union Images /\ Tail(todo) = <<>>
      BY <3>1
    <3>3. OfOneTree({Partial})
      BY <2>1, <2>2, <3>2, CallMatches
    <3>4. ~raced /\ (\A t \in DOMAIN noticed : noticed[t] <= command.since) => UpToDate
      BY <2>1, <2>2, <3>2, CallMakesUpToDate
    <3>5. (OfOneTree({Partial})' <=> OfOneTree({Partial})) /\ (UpToDate' <=> UpToDate)
      BY <1>1, <2>1 DEF OfOneTree, UpToDate, Pinned, Variant
    <3> QED
      BY <2>1, <2>3, <3>2, <3>3, <3>4, <3>5 DEF CallInv
  <2>4. CASE command.name = "check" /\ command.itb = None
    <3>1. CASE tree["payload"] /= Partial
      BY <2>1, <2>4, <3>1 DEF CallInv
    <3>2. CASE todo = Goals("check", None)
      <4>1. Head(todo) = {"binary"}
        BY <3>2 DEF Goals
      <4>2. "built" \in done
        BY <1>1, <2>1, <4>1, PrerequisitesAre DEF DoneInv, Uboot
      <4>3. tree["payload"] /= Partial
        BY <4>2 DEF MakeInvariant, PartialInv
      <4> QED
        BY <3>1, <4>3
    <3> QED
      BY <2>1, <2>4, <3>1, <3>2 DEF CallInv
  <2> QED
    BY <2>1, <2>3, <2>4 DEF CallInv
<1>10. CASE Finish \/ Refuse \/ Fail
  BY <1>3, <1>10 DEF Finish, Refuse, Fail, Ends
<1>11. CASE Edit
  <2>1. UNCHANGED <<command, todo, tree>>
    BY <1>11, EditChanges DEF makeVars
  <2>2. command /= None => command.since \in Int /\ command.since <= pins /\ pins \in Int
    BY DEF MakeInvariant, CommandTypes, Commands, Versions, TreeInv, BaseInv
  <2>3. NoticedInv /\ DOMAIN noticed = {"stage", "built"} /\ DOMAIN noticed' = DOMAIN noticed
    BY <1>11 DEF MakeInvariant, NoticedInv, Edit, Changed
  <2>4. ASSUME command /= None, ~raced', \A t \in DOMAIN noticed : noticed'[t] <= command.since
        PROVE  ~raced /\ \A t \in DOMAIN noticed : noticed'[t] = noticed[t]
    <3>1. \A t \in DOMAIN noticed : noticed'[t] /= pins + 1
      BY <2>2, <2>4
    <3>2. ~raced
      BY <1>11, <2>4 DEF Edit, Changed
    <3> QED
      BY <1>11, <2>3, <3>1, <3>2, EditNoticed
  <2>5. (OfOneTree({Partial})' <=> OfOneTree({Partial}))
        /\ ((\A t \in DOMAIN noticed : noticed'[t] = noticed[t]) => (UpToDate' <=> UpToDate))
    BY <1>1, <2>1, <2>3 DEF OfOneTree, UpToDate, Pinned, Variant
  <2> QED
    BY <1>2, <2>1, <2>3, <2>4, <2>5 DEF CallInv
<1>12. CASE Clean \/ Checkout
  <2>1. command' = None
    BY <1>1, <1>12 DEF Clean, Checkout, Resting, TreeInv, BaseInv, CommandInv
  <2> QED
    BY <1>3, <2>1
<1>13. ASSUME NEW name, NEW itb, Start(name, itb)
       PROVE  CallInv'
  <2>1. command' = [name |-> name, itb |-> itb, since |-> pins] /\ todo' = Goals(name, itb)
    BY <1>13 DEF Start
  <2>2. name = "chainload" => todo' = Goals("chainload", None)'
    BY <1>2, <2>1 DEF Goals
  <2>3. name = "check" /\ itb = None => todo' = Goals("check", None)'
    BY <1>2, <2>1
  <2> QED
    BY <2>1, <2>2, <2>3 DEF CallInv
<1>14. CASE UNCHANGED <<noticed, tree, raced, command, todo>>
  BY <1>1, <1>2, <1>14 DEF CallInv, OfOneTree, UpToDate, Pinned, Variant
<1>15. CASE \/ UNCHANGED vars \/ PackageLocally \/ MakeEnded \/ Package \/ Verify \/ Lookup
            \/ Compare \/ DeleteDraft \/ CreateDraft \/ Confirm \/ Publish \/ Fault \/ PersonPublishes
  BY <1>14, <1>15 DEF vars, buildVars, scriptVars, makeVars, PackageLocally, MakeEnded, Package,
     Verify, Lookup, Compare, DeleteDraft, CreateDraft, Confirm, Publish, Fault, PersonPublishes
<1> QED
  BY <1>5, <1>6, <1>7, <1>8, <1>9, <1>10, <1>11, <1>12, <1>13, <1>15, UpgradeIsEdit
     DEF Next, Workflow, Works, MakeStep, Breaks, Workstation, RunMake

Says(name) == report.ok /\ report.command.name = name /\ report.command.itb = None

Seen(since) == \A t \in DOMAIN noticed : noticed[t] <= since

LEMMA WhatIsReported ==
    ReportTruthful <=>
    (report /= None =>
     /\ Says("check") => OfOneTree({})
     /\ Says("chainload") => OfOneTree({Partial})
     /\ Says("chainload") /\ ~raced /\ Seen(report.command.since) => UpToDate)
BY DEF ReportTruthful, Says, Seen

LEMMA FinishReports ==
    ASSUME MakeInvariant, CallInv, Finish
    PROVE  ReportTruthful'
<1> USE NothingAssumption
<1>1. TreeInv /\ TreeTypes /\ DoneInv
  BY DEF MakeInvariant
<1>2. /\ command /= None /\ todo = <<>> /\ command' = None
      /\ report' = [command |-> command, ok |-> (command.name = "check" => Passes(command.itb))]
      /\ UNCHANGED <<board, noticed, tree, raced>>
  BY DEF Finish, Ends
<1>3. command.name = "chainload" =>
        OfOneTree({Partial}) /\ (~raced /\ Seen(command.since) => UpToDate)
  BY <1>2 DEF CallInv, Goals, Seen
<1>4. /\ UpToDate' <=> UpToDate
      /\ \A left : OfOneTree(left)' <=> OfOneTree(left)
  BY <1>2 DEF UpToDate, OfOneTree, Pinned, Variant
<1>5. ASSUME command.name = "check", command.itb = None, Passes(None)
      PROVE  OfOneTree({})
  <2>1. tree["payload"] /= Partial
    BY <1>2, <1>5 DEF CallInv, Goals
  <2>2. script = "off"
    BY <1>1, <1>2 DEF DoneInv
  <2>3. Pinned(tree["fit"]) /\ tree["source"] = tree["fit"].source
    BY <1>1, <1>5, <2>2 DEF TreeInv, SourceInv, SourceKept, Passes
  <2>4. Variant => Pinned(tree["payload"]) /\ tree["nvme"] = tree["payload"]
    BY <1>1, <1>5, <2>1 DEF TreeTypes, Passes, Pinned
  <2> QED
    BY <1>5, <2>3, <2>4 DEF Passes, OfOneTree
<1>6. report'.command = command /\ (report'.ok => (command.name = "check" => Passes(command.itb)))
  BY <1>2
<1>7. Says("check")' => OfOneTree({})'
  BY <1>4, <1>5, <1>6 DEF Says
<1>8. Says("chainload")' =>
        OfOneTree({Partial})' /\ (~raced' /\ Seen(report.command.since)' => UpToDate')
  <2>1. ASSUME Says("chainload")'
        PROVE  command.name = "chainload"
    BY <1>6, <2>1 DEF Says
  <2>2. Seen(report.command.since)' => Seen(command.since)
    BY <1>2, <1>6 DEF Seen
  <2> QED
    BY <1>2, <1>3, <1>4, <2>1, <2>2
<1> QED
  BY <1>7, <1>8 DEF ReportTruthful, Says, Seen

LEMMA ReportsKept == MakeInvariant /\ CallInv /\ ReportTruthful /\ [Next]_vars => ReportTruthful'
<1> SUFFICES ASSUME MakeInvariant, CallInv, ReportTruthful, [Next]_vars PROVE ReportTruthful'
  OBVIOUS
<1>1. board' = board /\ TreeInv /\ CommandTypes
  BY BoardStays DEF MakeInvariant
<1>2. CASE report' = None
  BY <1>2 DEF ReportTruthful
<1>3. CASE command /= None /\ report' = report
  BY <1>1, <1>2, <1>3 DEF CommandTypes
<1>4. ASSUME Ends(FALSE)
      PROVE  ReportTruthful'
  <2>1. report' = [command |-> command, ok |-> FALSE]
    BY <1>4 DEF Ends
  <2>2. ~report'.ok
    BY <2>1
  <2> QED
    BY <2>2 DEF ReportTruthful
<1>5. CASE MakeStep
  <2>1. CASE Finish
    BY <2>1, FinishReports
  <2>2. CASE Refuse
    BY <1>4, <2>2 DEF Refuse
  <2>3. CASE ~(Finish \/ Refuse)
    <3>1. report' = report
      BY <1>5, <2>3 DEF MakeStep, Keep, MakeStage, MakeBinary, MakeImage, Makes, NextCall,
         CopyDevelopment, RemoveOutputs, ExportSnapshot, ArchiveSource, CompileFit, CompileVariant,
         Touch, makeVars
    <3> QED
      BY <1>1, <1>3, <1>5, <3>1, StepsOfCommand
  <2> QED
    BY <2>1, <2>2, <2>3
<1>6. CASE Fail
  BY <1>4, <1>6 DEF Fail
<1>7. CASE Edit
  <2>1. UNCHANGED <<tree, report>>
    BY <1>7, EditChanges DEF makeVars
  <2>2. pins \in Int /\ (report /= None => report.command.since \in Int /\ report.command.since <= pins)
    BY <1>1 DEF CommandTypes, Reports, Commands, Versions, TreeInv, BaseInv
  <2>3. NoticedInv /\ DOMAIN noticed = {"stage", "built"} /\ DOMAIN noticed' = DOMAIN noticed
    BY <1>7 DEF MakeInvariant, NoticedInv, Edit, Changed
  <2>4. \A left : OfOneTree(left)' <=> OfOneTree(left)
    BY <1>1, <2>1 DEF OfOneTree, Pinned, Variant
  <2>5. ASSUME report /= None, ~raced', Seen(report.command.since)'
        PROVE  ~raced /\ Seen(report.command.since) /\ (UpToDate' <=> UpToDate)
    <3>1. \A t \in DOMAIN noticed : noticed'[t] <= report.command.since
      BY <2>1, <2>3, <2>5 DEF Seen
    <3>2. \A t \in DOMAIN noticed : noticed'[t] /= pins + 1
      BY <2>2, <2>5, <3>1
    <3>3. \A t \in DOMAIN noticed : noticed'[t] = noticed[t]
      BY <1>7, <2>3, <3>2, EditNoticed
    <3>4. ~raced
      BY <1>7, <2>5 DEF Edit, Changed
    <3>5. UpToDate' <=> UpToDate
      BY <1>1, <2>1, <2>3, <3>3 DEF UpToDate, Variant
    <3> QED
      BY <3>1, <3>3, <3>4, <3>5 DEF Seen
  <2>6. report /= None =>
        /\ Says("check") => OfOneTree({})
        /\ Says("chainload") => OfOneTree({Partial})
        /\ Says("chainload") /\ ~raced /\ Seen(report.command.since) => UpToDate
    BY WhatIsReported
  <2>7. \A name : Says(name)' <=> Says(name)
    BY <2>1 DEF Says
  <2>8. report' /= None =>
        /\ Says("check")' => OfOneTree({})'
        /\ Says("chainload")' => OfOneTree({Partial})'
        /\ Says("chainload")' /\ ~raced' /\ Seen(report.command.since)' => UpToDate'
    BY <2>1, <2>4, <2>5, <2>6, <2>7
  <2> QED
    BY <2>1, <2>8 DEF ReportTruthful, Says, Seen
<1>8. CASE Clean \/ Checkout \/ \E name, itb : Start(name, itb)
  BY <1>2, <1>8 DEF Clean, Checkout, Start
<1>9. CASE UNCHANGED <<noticed, tree, raced, report>>
  BY <1>1, <1>9 DEF ReportTruthful, OfOneTree, UpToDate, Pinned, Variant
<1>10. CASE \/ UNCHANGED vars \/ PackageLocally \/ MakeEnded \/ Package \/ Verify \/ Lookup
            \/ Compare \/ DeleteDraft \/ CreateDraft \/ Confirm \/ Publish \/ Fault \/ PersonPublishes
  BY <1>9, <1>10 DEF vars, buildVars, scriptVars, makeVars, PackageLocally, MakeEnded, Package,
     Verify, Lookup, Compare, DeleteDraft, CreateDraft, Confirm, Publish, Fault, PersonPublishes
<1> QED
  BY <1>5, <1>6, <1>7, <1>8, <1>10, UpgradeIsEdit
     DEF Next, Workflow, Works, Breaks, Workstation, RunMake

\* In the first state nothing is made, nothing runs and nothing was reported.
LEMMA InitMade == Init => MakeInvariant /\ CallInv /\ ReportTruthful
<1> SUFFICES ASSUME Init PROVE MakeInvariant /\ CallInv /\ ReportTruthful
  OBVIOUS
<1> USE NothingAssumption
<1>1. /\ \A t \in Targets : tree[t] = None
      /\ command = None /\ report = None /\ done = {} /\ script = "off"
      /\ faults = 0 /\ before = 0
  BY DEF Init, BuildInit, Empty
<1>2. TreeTypes /\ StampInv /\ PartialInv
  BY <1>1, TargetNames DEF TreeTypes, Fits, StampInv, PartialInv, Fresh, Stale
<1>3. ScriptInv
  BY <1>1, TargetNames DEF ScriptInv, Fresh, Stale
<1>4. CommandTypes /\ DoneInv /\ ConsideredInv /\ MatchInv /\ CallInv /\ ReportTruthful
  BY <1>1 DEF CommandTypes, DoneInv, ConsideredInv, MatchInv, CallInv, ReportTruthful
<1>5. NoticedInv
  BY BoundsAssumption DEF Init, BuildInit, NoticedInv, Versions
<1> QED
  BY <1>2, <1>3, <1>4, <1>5, InitTreeInv DEF MakeInvariant

LEMMA MakeInvariantKept == MakeInvariant /\ [Next]_vars => MakeInvariant'
BY TreeInvKept, TreeTypesKept, CommandTypesKept, NoticedInvKept, DoneInvKept, StampInvKept,
   ScriptInvKept, PartialInvKept, ConsideredInvKept, MatchInvKept DEF MakeInvariant

(***************************************************************************)
(* In the tree and in every distribution a FIT file that is called pinned  *)
(* lies beside the source it was compiled from or beside none, no          *)
(* distribution has a development FIT as its FIT file, and a binary or an  *)
(* image of another stage, FIT or payload than those beside it is older    *)
(* than they are or truncated, through any edits, failures, kills and      *)
(* mixtures of commands (Makefile, build-chainload-uboot.sh,               *)
(* build-chainload-media.sh, release-dist.sh).                             *)
(***************************************************************************)
THEOREM SourceCorresponds == Spec => []CorrespondingSource
<1>1. TreeInv => SourceMatchesFit
  BY DEF TreeInv, BaseInv, SourceInv, SourceKept, SourceMatchesFit, Pinned
<1>2. StampInv => MismatchIsOld
  BY DEF StampInv, MismatchIsOld, Fresh, Stale
<1>3. MakeInvariant => CorrespondingSource
  BY <1>1, <1>2 DEF MakeInvariant, TreeInv, DistInv, CorrespondingSource
<1>4. Init => MakeInvariant
  BY InitMade
<1> QED
  BY <1>3, <1>4, MakeInvariantKept, PTL DEF Spec

(***************************************************************************)
(* A successful make chainload-check without UBOOT_ITB has seen a pinned   *)
(* FIT beside its own source and a binary and images of that FIT.  A       *)
(* successful make chainload leaves the same - whatever commands failed,   *)
(* were killed or mixed before it - but for binaries and images that a     *)
(* failure left truncated; and the stage, the FIT and the payload are not  *)
(* older than any edit make can see that was made before it started,       *)
(* unless one was made while the U-Boot script ran (Makefile,              *)
(* build-chainload-uboot.sh, build-chainload-media.sh, check_chainload.py).*)
(***************************************************************************)
THEOREM ReportsAreTruthful == Spec => []ReportTruthful
<1> DEFINE Inv == MakeInvariant /\ CallInv /\ ReportTruthful
<1>1. Init => Inv
  BY InitMade
<1>2. Inv /\ [Next]_vars => Inv'
  BY MakeInvariantKept, CallInvKept, ReportsKept
<1> QED
  BY <1>1, <1>2, PTL DEF Spec

-----------------------------------------------------------------------------
(***************************************************************************)
(* How a job ends                                                          *)
(***************************************************************************)
\* An attempt up to its package in which nothing has failed.
Unharmed == Building /\ faults = before
Combined == [stage |-> pins, fit |-> Now]
Compiled == tree["fit"] = Now /\ tree["source"] = {pins} /\ snapshot.compiled

\* From a clean checkout each file is absent or as the pins give it.
CleanTreeInv ==
    Unharmed =>
    /\ tree["fit"] /= Partial /\ tree["payload"] /= Partial
    /\ tree["binary"] \in {None, Combined} /\ \A m \in Media : tree[m] \in {None, Combined}
    /\ tree["nvme"] \in {None, Now}
    /\ tree["binary"] /= None => tree["stage"] = pins

\* What the script made stays until it runs again.
CleanScriptInv ==
    Unharmed =>
    /\ script = "variant" => Compiled
    /\ script = "touch" \/ (script = "off" /\ tree["built"] /= None) =>
        Compiled /\ (Variant => tree["payload"] = Now)

\* Every call finds what it needs, so that no command fails.
CleanCallInv ==
    Unharmed =>
    /\ report /= None /\ report.command.name = job => report.ok
    /\ command /= None =>
        /\ todo \in {Goals(job, None), Tail(Goals(job, None)), <<>>}
        /\ job = "check" =>
            /\ todo /= Goals("check", None) => tree["built"] /= None /\ tree["binary"] /= None
            /\ todo = <<>> => \A m \in Images : tree[m] /= None

CleanInv == CleanTreeInv /\ CleanScriptInv /\ CleanCallInv

\* All that is known of an attempt on the runner.
AttemptInv == MakeInvariant /\ BuildingInv /\ CountTypes /\ CleanInv

LEMMA SomethingIsMade ==
    ASSUME TreeInv
    PROVE  /\ Now \in PinnedBuilds /\ Now /= None /\ Now /= Partial /\ Now \in Fits
           /\ {pins} /= None /\ pins /= None /\ Combined /= None /\ Combined \in Binaries
<1>1. pins \in Versions /\ {pins} \in Snapshots
  BY DEF TreeInv, BaseInv, Snapshots
<1>2. Now \in PinnedBuilds
  BY <1>1 DEF Now, PinnedBuilds
<1>3. Combined \in [stage : Versions, fit : Fits]
  BY <1>1, <1>2 DEF Combined, Fits
<1> QED
  BY <1>1, <1>2, <1>3, NothingAssumption DEF Fits, Binaries

\* The calls of the job reach the payload on boards with the variant only.
LEMMA PayloadIsTheVariants ==
    ASSUME NEW G, G \subseteq {"fit", "source", "binary"} \union Images, "payload" \in Closure(G)
    PROVE  Variant
<1> SUFFICES ASSUME ~Variant PROVE FALSE
  OBVIOUS
<1> DEFINE S == {"fit", "source", "binary", "stage", "built"} \union Media
<1>1. G \subseteq S
  BY DEF Images
<1>2. \A t \in S : Prerequisites[t] \subseteq S
  BY PrerequisitesAre DEF Uboot
<1>3. \A H : H \subseteq S => WithPrerequisites(H) \subseteq S
  BY <1>2 DEF WithPrerequisites
<1>4. Closure(G) \subseteq S
  BY <1>1, <1>3 DEF Closure
<1> QED
  BY <1>4, TargetNames

\* Once the recipe of .uboot-built is done, what the script leaves is there.
LEMMA BuiltIsCompiled ==
    ASSUME AttemptInv, Unharmed, "built" \in done
    PROVE  script = "off" /\ tree["built"] /= None /\ Compiled /\ (Variant => tree["payload"] = Now)
BY DEF AttemptInv, MakeInvariant, DoneInv, CleanInv, CleanScriptInv

LEMMA NothingRefused ==
    ASSUME AttemptInv, Unharmed, command /= None
    PROVE  ~Refuse /\ ~CopyDevelopment
<1>1. TreeInv /\ DoneInv
  BY DEF AttemptInv, MakeInvariant
<1>2. command.itb = None
  BY DEF AttemptInv, BuildingInv, MakeInv, Unharmed
<1>3. None /= "output"
  BY NothingAssumption
<1>4. todo /= <<>> => Head(todo) \subseteq {"fit", "source", "binary"} \union Images
  <2>1. todo \in {Goals(job, None), Tail(Goals(job, None)), <<>>} /\ job \in {"chainload", "check"}
    BY <1>1 DEF AttemptInv, CleanInv, CleanCallInv, TreeInv, CommandInv, Unharmed, Building
  <2>2. CASE job = "chainload"
    BY <2>1, <2>2 DEF Goals
  <2>3. CASE job = "check"
    BY <2>1, <2>3 DEF Goals
  <2> QED
    BY <2>1, <2>2, <2>3
<1>5. ASSUME NEW t \in Uboot, Considers(t)
      PROVE  tree[t] /= None
  <2>1. "built" \in done
    BY <1>5, PrerequisitesAre DEF Considers
  <2>2. Compiled /\ (Variant => tree["payload"] = Now)
    BY <2>1, BuiltIsCompiled
  <2>3. t = "payload" => Variant
    BY <1>4, <1>5, PayloadIsTheVariants DEF Considers
  <2> QED
    BY <1>1, <2>2, <2>3, SomethingIsMade DEF Compiled, Uboot
<1>6. ASSUME NEW m \in Images, Considers(m)
      PROVE  snapshot.compiled
  <2>1. "binary" \in done \/ "payload" \in done
    BY <1>6, PrerequisitesAre, TargetNames DEF Considers
  <2>2. "built" \in done
    BY <1>1, <2>1, PrerequisitesAre DEF DoneInv, Uboot
  <2> QED
    BY <2>2, BuiltIsCompiled DEF Compiled
<1>7. ~CopyDevelopment
  BY <1>2 DEF CopyDevelopment
<1>8. ~Refuse
  BY <1>2, <1>3, <1>5, <1>6 DEF Refuse, Runs
<1> QED
  BY <1>7, <1>8

LEMMA TwoCalls ==
    ASSUME NEW a, NEW b
    PROVE  /\ Head(<<a, b>>) = a /\ Tail(<<a, b>>) = <<b>> /\ <<b>> /= <<>> /\ <<a, b>> /= <<>>
           /\ Head(<<b>>) = b /\ Tail(<<b>>) = <<>> /\ <<b>> /= <<a, b>>
<1>1. Head(<<a, b>>) = a /\ Tail(<<a, b>>) = <<b>> /\ Head(<<b>>) = b /\ Tail(<<b>>) = <<>>
  OBVIOUS
<1>2. Len(<<b>>) = 1 /\ Len(<<a, b>>) = 2 /\ Len(<<>>) = 0
  OBVIOUS
<1> QED
  BY <1>1, <1>2

LEMMA CleanWorks ==
    ASSUME AttemptInv, Unharmed, Works
    PROVE  CleanInv'
<1>1. TreeInv /\ TreeTypes /\ CommandTypes /\ DoneInv /\ PinsInv /\ MakeInv
      /\ CleanTreeInv /\ CleanScriptInv /\ CleanCallInv
  BY DEF AttemptInv, MakeInvariant, BuildingInv, CleanInv
<1>2. /\ command /= None /\ UNCHANGED <<board, pins, faults, machine, job, before>>
      /\ job \in {"chainload", "check"}
  BY <1>1, StepsOfCommand DEF Works, releaseVars, Unharmed, Building, TreeInv, CommandInv
<1>3. Unharmed' /\ report = None /\ command.name = job /\ command.itb = None
  BY <1>1, <1>2 DEF Unharmed, Building, CommandTypes, MakeInv
<1>4. Now' = Now /\ Combined' = Combined /\ (Variant' <=> Variant) /\ Images' = Images
  BY <1>2 DEF Now, Combined, Variant, Images
<1>5. \A name, itb : Goals(name, itb)' = Goals(name, itb)
  BY <1>4 DEF Goals
<1>6. Now /= None /\ Now /= Partial /\ Combined /= None
  BY <1>1, SomethingIsMade
<1> DEFINE Made == {"stage", "binary", "nvme"} \union Media
<1>7. ASSUME \A u \in Made : tree'[u] = tree[u], tree'["fit"] /= Partial, tree'["payload"] /= Partial
      PROVE  CleanTreeInv'
  BY <1>1, <1>2, <1>3, <1>4, <1>7 DEF CleanTreeInv
<1>8. ASSUME \A u \in Uboot \union {"built"} : tree'[u] = tree[u], UNCHANGED <<script, snapshot>>
      PROVE  CleanScriptInv'
  <2>1. Compiled' <=> Compiled
    BY <1>2, <1>4, <1>8 DEF Compiled, Uboot
  <2> QED
    BY <1>1, <1>3, <1>4, <1>8, <2>1 DEF CleanScriptInv, Uboot
<1>9. ASSUME UNCHANGED <<report, command, todo>>,
             \A u \in Images \union {"built", "binary"} : tree[u] /= None => tree'[u] /= None
      PROVE  CleanCallInv'
  BY <1>1, <1>2, <1>3, <1>4, <1>5, <1>9 DEF CleanCallInv
<1>10. /\ Made \subseteq Targets /\ Uboot \union {"built"} \subseteq Targets
       /\ \A u \in Made : u \notin Uboot \union {"built"}
       /\ Images \subseteq Made
  BY TargetNames DEF Uboot
<1>11. CASE MakeStage \/ MakeBinary \/ \E m \in Images : MakeImage(m)
  <2> PICK t \in {"stage", "binary"} \union Images : \E x :
             /\ t \in Targets /\ Considers(t) /\ Makes(t, x) /\ x /= None
             /\ t = "stage" => x = pins
             /\ t = "binary" => x = [stage |-> tree["stage"], fit |-> tree["fit"]]
             /\ t \in Media => x = tree["binary"]
             /\ t = "nvme" => x = tree["payload"]
    BY <1>1, <1>11, RecipesWrite
  <2> PICK x :
             /\ t \in Targets /\ Considers(t) /\ Makes(t, x) /\ x /= None
             /\ t = "stage" => x = pins
             /\ t = "binary" => x = [stage |-> tree["stage"], fit |-> tree["fit"]]
             /\ t \in Media => x = tree["binary"]
             /\ t = "nvme" => x = tree["payload"]
    OBVIOUS
  <2>1. \A u \in Targets : tree'[u] = IF u = t THEN x ELSE tree[u]
    BY <1>1, TreeChange DEF Makes
  <2>2. UNCHANGED <<script, snapshot, report, command, todo>>
    BY DEF Makes, scriptVars
  <2>3. \A u \in Uboot \union {"built"} : tree'[u] = tree[u]
    BY <1>10, <2>1, TargetNames DEF Uboot
  <2>4. t = "binary" => x = Combined /\ tree["stage"] = pins
    <3>1. t = "binary" => "stage" \in done /\ "fit" \in done
      BY PrerequisitesAre DEF Considers
    <3>2. t = "binary" => tree["stage"] = pins /\ tree["fit"] = Now
      BY <1>1, <3>1 DEF PinsInv, Unharmed, DoneInv, CleanTreeInv
    <3> QED
      BY <3>2 DEF Combined
  <2>5. tree["payload"] \in {None, Now} /\ tree["stage"] \in {None, pins}
    BY <1>1 DEF PinsInv, Unharmed, CleanTreeInv
  <2>6. tree'["fit"] = tree["fit"] /\ tree'["payload"] = tree["payload"]
    BY <2>3 DEF Uboot
  <2>7. CleanTreeInv'
    <3>1. tree'["stage"] = IF t = "stage" THEN pins ELSE tree["stage"]
      BY <2>1, TargetNames
    <3>2. tree'["binary"] = IF t = "binary" THEN Combined ELSE tree["binary"]
      BY <2>1, <2>4, TargetNames
    <3>3. tree'["nvme"] \in {tree["nvme"], tree["payload"]}
      BY <2>1, TargetNames
    <3>4. \A m \in Media : tree'[m] \in {tree[m], tree["binary"]}
      BY <2>1, TargetNames
    <3> QED
      BY <1>1, <1>2, <1>3, <1>4, <2>4, <2>5, <2>6, <3>1, <3>2, <3>3, <3>4 DEF CleanTreeInv
  <2>8. \A u \in Images \union {"built", "binary"} : tree[u] /= None => tree'[u] /= None
    BY <1>10, <2>1
  <2> QED
    BY <1>8, <1>9, <2>2, <2>3, <2>7, <2>8 DEF CleanInv
<1>12. CASE \E t \in Targets : Keep(t)
  <2>1. UNCHANGED <<tree, script, snapshot, report, command, todo>>
    BY <1>12 DEF Keep, scriptVars
  <2> QED
    BY <1>1, <1>3, <1>7, <1>8, <1>9, <2>1 DEF CleanInv, CleanTreeInv
<1>13. CASE NextCall
  <2>1. /\ todo /= <<>> /\ Head(todo) \subseteq done /\ todo' = Tail(todo)
        /\ UNCHANGED <<tree, script, snapshot, report, command>>
    BY <1>13 DEF NextCall, scriptVars
  <2>2. CleanTreeInv' /\ CleanScriptInv'
    BY <1>1, <1>7, <1>8, <2>1 DEF CleanTreeInv
  <2>3. todo \in {Goals(job, None), Tail(Goals(job, None))}
    BY <1>1, <1>2, <2>1 DEF CleanCallInv
  <2>4. CASE job = "chainload"
    <3>1. todo' = <<>>
      BY <2>1, <2>3, <2>4 DEF Goals
    <3> QED
      BY <1>2, <1>3, <2>1, <2>2, <2>4, <3>1 DEF CleanInv, CleanCallInv
  <2>5. CASE job = "check"
    <3>1. Goals("check", None) = <<{"binary"}, Images>>
      BY DEF Goals
    <3>2. CASE todo = Goals("check", None)
      <4> DEFINE calls == <<{"binary"}, Images>>
      <4>1. Head(calls) = {"binary"} /\ Tail(calls) = <<Images>>
        BY TwoCalls
      <4>2. todo = calls /\ todo' = Tail(todo) /\ Goals("check", None) = calls
        BY <2>1, <3>1, <3>2
      <4>3. Head(todo) = {"binary"} /\ todo' = Tail(Goals("check", None)) /\ todo' = <<Images>>
        <5> HIDE DEF calls
        <5> QED
          BY <4>1, <4>2
      <4>4. {"binary", "built"} \subseteq done
        BY <1>1, <2>1, <4>3, PrerequisitesAre DEF DoneInv, Uboot
      <4>5. tree'["built"] /= None /\ tree'["binary"] /= None
        BY <1>1, <2>1, <4>4 DEF DoneInv
      <4>6. todo' /= <<>>
        BY <4>3, TwoCalls
      <4> QED
        BY <1>2, <1>3, <1>5, <2>1, <2>2, <2>5, <4>3, <4>5, <4>6 DEF CleanInv, CleanCallInv
    <3>3. CASE todo = Tail(Goals("check", None))
      <4> DEFINE calls == <<{"binary"}, Images>>
      <4>1. Tail(calls) = <<Images>>
        BY TwoCalls
      <4>2. todo = <<Images>>
        <5>1. Goals("check", None) = calls
          BY <3>1
        <5> HIDE DEF calls
        <5> QED
          BY <3>3, <4>1, <5>1
      <4>3. Head(todo) = Images /\ todo' = <<>> /\ todo /= Goals("check", None)
        BY <2>1, <3>1, <4>2, TwoCalls
      <4>4. tree["built"] /= None /\ tree["binary"] /= None
        BY <1>1, <1>2, <2>5, <4>3 DEF CleanCallInv
      <4>5. \A m \in Images : tree[m] /= None
        BY <1>1, <2>1, <4>3 DEF DoneInv
      <4> QED
        BY <1>2, <1>3, <1>4, <2>1, <2>2, <4>3, <4>4, <4>5 DEF CleanInv, CleanCallInv
    <3> QED
      BY <2>3, <2>5, <3>2, <3>3
  <2> QED
    BY <1>2, <2>4, <2>5
<1>14. CASE Finish
  <2>1. /\ todo = <<>> /\ command' = None
        /\ report' = [command |-> command, ok |-> (command.name = "check" => Passes(command.itb))]
        /\ UNCHANGED <<tree, snapshot>> /\ script' = "off"
    BY <1>14 DEF Finish, Ends
  <2>2. script = "off"
    BY <1>1, <2>1 DEF DoneInv
  <2>3. CleanTreeInv' /\ CleanScriptInv'
    BY <1>1, <1>7, <1>8, <2>1, <2>2 DEF CleanTreeInv
  <2>4. job = "check" => Passes(None)
    <3> SUFFICES ASSUME job = "check" PROVE Passes(None)
      OBVIOUS
    <3>1. <<>> /= Goals("check", None)
      BY DEF Goals
    <3>2. tree["built"] /= None /\ tree["binary"] /= None /\ \A m \in Images : tree[m] /= None
      BY <1>1, <1>2, <2>1, <3>1 DEF CleanCallInv
    <3>3. Compiled /\ (Variant => tree["payload"] = Now)
      BY <1>1, <2>2, <3>2 DEF CleanScriptInv
    <3>4. tree["binary"] = Combined /\ tree["stage"] = pins
      BY <1>1, <3>2 DEF CleanTreeInv
    <3>5. \A m \in Media : tree[m] = Combined
      BY <1>1, <3>2 DEF CleanTreeInv, Images
    <3>6. Variant => tree["nvme"] = Now
      BY <1>1, <3>2 DEF CleanTreeInv, Images
    <3>7. {pins} /= None
      BY <1>1, SomethingIsMade
    <3> QED
      BY <1>6, <3>3, <3>4, <3>5, <3>6, <3>7 DEF Passes, Compiled, Combined
  <2>5. report'.ok
    BY <1>3, <2>1, <2>4
  <2> QED
    BY <2>1, <2>3, <2>5 DEF CleanInv, CleanCallInv
<1>15. CASE RemoveOutputs
  <2>1. \A u \in Targets : tree'[u] = IF u \in {"fit", "source"} THEN None ELSE tree[u]
    BY <1>1, <1>15, RemoveWrites
  <2>2. script' = "export" /\ UNCHANGED <<report, command, todo>>
    BY <1>15 DEF RemoveOutputs, makeVars
  <2>3. (\A u \in Made : tree'[u] = tree[u]) /\ tree'["fit"] = None /\ tree'["payload"] = tree["payload"]
        /\ tree'["built"] = tree["built"]
    BY <1>10, <2>1, TargetNames DEF Uboot
  <2>4. CleanTreeInv'
    BY <1>1, <1>7, <2>3, NothingAssumption DEF CleanTreeInv
  <2>5. CleanCallInv'
    BY <1>9, <1>10, <2>2, <2>3
  <2> QED
    BY <2>2, <2>4, <2>5 DEF CleanInv, CleanScriptInv
<1>16. CASE ExportSnapshot \/ ArchiveSource
  <2>1. script' \in {"archive", "compile"} /\ UNCHANGED <<report, command, todo>>
    BY <1>16 DEF ExportSnapshot, ArchiveSource, makeVars
  <2>2. \A u \in Targets : u /= "source" => tree'[u] = tree[u]
    BY <1>1, <1>16, TreeChange, TargetNames DEF ExportSnapshot, ArchiveSource
  <2>3. CleanTreeInv'
    BY <1>1, <1>7, <1>10, <2>2, TargetNames DEF CleanTreeInv, Uboot
  <2>4. CleanCallInv'
    BY <1>9, <1>10, <2>1, <2>2, TargetNames DEF Uboot
  <2> QED
    BY <2>1, <2>3, <2>4 DEF CleanInv, CleanScriptInv
<1>17. CASE CompileFit
  <2>1. script = "compile" /\ snapshot.of = {pins} /\ tree["source"] = {pins}
    BY <1>1, <1>17 DEF CompileFit, PinsInv, Unharmed, TreeInv, SourceInv
  <2>2. tree' = Write(tree, "fit", Now)
    BY <1>17, <2>1 DEF CompileFit, Now
  <2>3. \A u \in Targets : tree'[u] = IF u = "fit" THEN Now ELSE tree[u]
    BY <1>1, <2>2, TreeChange, TargetNames
  <2>4. /\ snapshot' = [snapshot EXCEPT !.compiled = TRUE] /\ UNCHANGED <<report, command, todo>>
        /\ script' = IF Variant THEN "variant" ELSE "touch"
    BY <1>17 DEF CompileFit, makeVars
  <2>5. snapshot'.compiled
    BY <1>1, <2>4 DEF TreeInv, BaseInv
  <2>6. Compiled'
    BY <1>2, <1>4, <2>1, <2>3, <2>5, TargetNames DEF Compiled
  <2>7. CleanScriptInv'
    BY <1>4, <2>4, <2>6 DEF CleanScriptInv
  <2>8. CleanTreeInv'
    BY <1>1, <1>3, <1>6, <1>7, <1>10, <2>3, TargetNames DEF CleanTreeInv, Uboot
  <2>9. CleanCallInv'
    BY <1>9, <1>10, <2>3, <2>4, TargetNames DEF Uboot
  <2> QED
    BY <2>7, <2>8, <2>9 DEF CleanInv
<1>18. CASE CompileVariant
  <2>1. script = "variant" /\ reading = pins
    BY <1>1, <1>18 DEF CompileVariant, PinsInv, Unharmed
  <2>2. tree' = Write(tree, "payload", Now)
    BY <1>18, <2>1 DEF CompileVariant, Now
  <2>3. \A u \in Targets : tree'[u] = IF u = "payload" THEN Now ELSE tree[u]
    BY <1>1, <2>2, TreeChange, TargetNames
  <2>4. script' = "touch" /\ UNCHANGED <<snapshot, report, command, todo>>
    BY <1>18 DEF CompileVariant, makeVars
  <2>5. Compiled' /\ tree'["payload"] = Now'
    BY <1>1, <1>2, <1>3, <1>4, <2>1, <2>3, <2>4, TargetNames DEF Compiled, CleanScriptInv
  <2>6. CleanTreeInv'
    BY <1>1, <1>3, <1>6, <1>7, <1>10, <2>3, TargetNames DEF CleanTreeInv, Uboot
  <2>7. CleanCallInv'
    BY <1>9, <1>10, <2>3, <2>4, TargetNames DEF Uboot
  <2> QED
    BY <2>4, <2>5, <2>6, <2>7 DEF CleanInv, CleanScriptInv
<1>19. CASE Touch
  <2>1. \A u \in Targets : tree'[u] = IF u = "built" THEN pins ELSE tree[u]
    BY <1>1, <1>19, TreeChange, TargetNames DEF Touch
  <2>2. script = "touch" /\ script' = "off" /\ UNCHANGED <<snapshot, report, command, todo>>
    BY <1>19 DEF Touch
  <2>3. \A u \in Uboot \union Made : tree'[u] = tree[u]
    BY <1>10, <2>1, TargetNames DEF Uboot
  <2>4. Compiled' <=> Compiled
    BY <1>2, <1>4, <2>2, <2>3 DEF Compiled, Uboot
  <2>5. CleanScriptInv'
    BY <1>1, <1>3, <1>4, <2>2, <2>3, <2>4 DEF CleanScriptInv, Uboot
  <2>6. CleanTreeInv'
    BY <1>1, <1>3, <1>7, <2>3 DEF CleanTreeInv, Uboot
  <2>7. pins /= None
    BY <1>1, SomethingIsMade
  <2>8. CleanCallInv'
    BY <1>9, <1>10, <2>1, <2>2, <2>7
  <2> QED
    BY <2>5, <2>6, <2>8 DEF CleanInv
<1> QED
  BY <1>2, <1>11, <1>12, <1>13, <1>14, <1>15, <1>16, <1>17, <1>18, <1>19, NothingRefused
     DEF Works, MakeStep

LEMMA CleanInvKept == AttemptInv /\ [Next]_vars => CleanInv'
<1> SUFFICES ASSUME AttemptInv, [Next]_vars, Unharmed' PROVE CleanInv'
  BY DEF CleanInv, CleanTreeInv, CleanScriptInv, CleanCallInv
<1>1. TreeInv /\ CommandTypes /\ CountTypes /\ CleanTreeInv /\ CleanScriptInv /\ CleanCallInv
  BY DEF AttemptInv, MakeInvariant, CleanInv
<1>2. board' = board
  BY BoardStays
<1>3. CASE Breaks \/ Fault
  <2>1. faults' = faults + 1 /\ before' = before
    BY <1>3 DEF Breaks, Fail, Fault, ToStep, OnHub, releaseVars
  <2>2. faults' = before'
    BY DEF Unharmed
  <2>3. faults \in Nat /\ before \in Nat /\ before <= faults
    BY <1>1 DEF CountTypes
  <2> QED
    BY <2>1, <2>2, <2>3
<1>4. CASE Works
  <2>1. Unharmed
    BY <1>1, <1>4, StepsOfCommand DEF Works, releaseVars, Unharmed, Building
  <2> QED
    BY <1>4, <2>1, CleanWorks
<1>5. ASSUME UNCHANGED <<pins, tree, snapshot, script, faults, before>>, Unharmed
      PROVE  CleanTreeInv' /\ CleanScriptInv'
  BY <1>1, <1>2, <1>5 DEF CleanTreeInv, CleanScriptInv, Compiled, Combined, Now, Variant
<1>6. CASE RunMake
  <2>1. /\ command' = [name |-> job, itb |-> None, since |-> pins] /\ report' = None
        /\ todo' = Goals(job, None)
        /\ UNCHANGED <<pins, tree, snapshot, script, faults, before, job, machine>>
    BY <1>6 DEF RunMake, Start, scriptVars, releaseVars
  <2>2. Unharmed
    BY <2>1 DEF Unharmed, Building
  <2>3. Goals(job, None)' = Goals(job, None) /\ Goals("check", None)' = Goals("check", None)
    BY <1>2, <2>1 DEF Goals, Images, Variant
  <2>4. <<>> /= Goals("check", None)
    BY DEF Goals
  <2> QED
    BY <1>5, <2>1, <2>2, <2>3, <2>4 DEF CleanInv, CleanCallInv
<1>7. CASE MakeEnded
  <2>1. /\ command = None /\ Reported /\ UNCHANGED <<command, report>>
        /\ job' = IF ~report.ok THEN "failed" ELSE IF job = "check" THEN "package" ELSE "check"
        /\ UNCHANGED <<pins, tree, snapshot, script, faults, before, machine>>
        /\ job \in {"chainload", "check"}
    BY <1>7 DEF MakeEnded, ToStep, buildVars, scriptVars, makeVars
  <2>2. Unharmed
    BY <2>1 DEF Unharmed, Building
  <2> QED
    BY <1>5, <2>1, <2>2 DEF CleanInv, CleanCallInv, Reported
<1>8. CASE Checkout
  <2>1. /\ tree' = Empty /\ report' = None /\ UNCHANGED <<command, script, pins>>
        /\ command = None /\ script = "off"
    BY <1>1, <1>8 DEF Checkout, Resting, TreeInv, BaseInv, CommandInv
  <2>2. \A t \in Targets : tree'[t] = None
    BY <2>1 DEF Empty
  <2> QED
    BY <2>1, <2>2, TargetNames, NothingAssumption
       DEF CleanInv, CleanTreeInv, CleanScriptInv, CleanCallInv
<1>9. CASE UNCHANGED vars
  <2>1. Unharmed
    BY <1>9 DEF vars, buildVars, releaseVars, Unharmed, Building
  <2>2. Goals(job, None)' = Goals(job, None) /\ Goals("check", None)' = Goals("check", None)
        /\ Images' = Images
    BY <1>2, <1>9 DEF Goals, Images, Variant, vars, releaseVars
  <2> QED
    BY <1>1, <1>5, <1>9, <2>1, <2>2 DEF vars, buildVars, scriptVars, makeVars, releaseVars, CleanInv,
       CleanCallInv
<1>10. CASE \/ Workstation \/ Upgrade \/ PackageLocally \/ Package \/ Verify \/ Lookup \/ Compare
            \/ DeleteDraft \/ CreateDraft \/ Confirm \/ Publish \/ PersonPublishes
  <2>1. ~Building'
    BY <1>1, <1>10 DEF Workstation, Upgrade, Resting, PackageLocally, Package, Verify, Lookup,
       Compare, DeleteDraft, CreateDraft, Confirm, Publish, PersonPublishes, OnHub, ToStep, Building,
       releaseVars
  <2> QED
    BY <2>1 DEF Unharmed
<1> QED
  BY <1>3, <1>4, <1>6, <1>7, <1>8, <1>9, <1>10 DEF Next, Workflow

\* The directory of the package is empty until it is written; the steps on GitHub find the
\* release as the step before left it, or the one a person has published.
StepInv ==
    /\ Building => dist = None
    /\ job \in Steps \ {"idle", "chainload", "check", "package", "failed"} => dist \in Dists
    /\ job = "compare" => Published
    /\ job = "create" => hub = None \/ (Published /\ hub.assets = None)
    /\ job = "confirm" => hub = Draft(dist)

OutcomeInv == AttemptInv /\ HubInv /\ WholeInv /\ StepInv /\ OutcomeTruthful

\* A tree that was accepted holds every input, and its archive is a distribution.
LEMMA AcceptedPackable ==
    ASSUME AttemptInv, Building, Accepted
    PROVE  Present = Inputs /\ [whole |-> TRUE, chain |-> [t \in Inputs |-> tree[t]]] \in Dists
<1>1. TreeInv /\ TreeTypes /\ PinsInv
  BY DEF AttemptInv, MakeInvariant, BuildingInv
<1>2. /\ tree["fit"] = Now /\ tree["source"] = {pins} /\ tree["stage"] = pins
      /\ tree["binary"] = Combined
      /\ \A m \in Media : tree[m] = Combined
      /\ Variant => tree["nvme"] = Now
  BY <1>1 DEF Accepted, Passes, PinsInv, Combined
<1>3. /\ Now /= None /\ {pins} /= None /\ Combined /= None
      /\ {Now, {pins}, Combined} \subseteq Artifacts
  BY <1>1, SomethingIsMade DEF Artifacts, TreeInv, BaseInv, Snapshots
<1>4. \A t \in Inputs : tree[t] \in Artifacts /\ tree[t] /= None
  BY <1>2, <1>3 DEF Inputs, Images
<1>5. Inputs \subseteq Targets
  BY TargetNames DEF Inputs
<1>6. [t \in Inputs |-> tree[t]] \in [Inputs -> Artifacts]
  BY <1>4
<1>7. [t \in Inputs |-> tree[t]] \in UNION {[I -> Artifacts] : I \in SUBSET Targets}
  BY <1>5, <1>6
<1> QED
  BY <1>4, <1>7 DEF Present, Dists

LEMMA DraftIsARelease ==
    ASSUME NEW d \in Dists
    PROVE  Draft(d) \in Releases /\ [Draft(d) EXCEPT !.draft = FALSE] \in Releases
BY DEF Draft, Releases

\* Every step of the job, and what a person publishes meanwhile.
LEMMA OutcomeKept == OutcomeInv /\ [Next]_vars => StepInv' /\ OutcomeTruthful'
<1> SUFFICES ASSUME OutcomeInv, [Next]_vars PROVE StepInv' /\ OutcomeTruthful'
  OBVIOUS
<1>1. AttemptInv /\ HubInv /\ WholeInv /\ StepInv /\ OutcomeTruthful
  BY DEF OutcomeInv
<1>2. TreeInv /\ CountTypes
  BY <1>1 DEF AttemptInv, MakeInvariant
<1>3. ASSUME UNCHANGED <<machine, job, dist, hub, before>>, faults' \in {faults, faults + 1}
      PROVE  StepInv' /\ OutcomeTruthful'
  <2>1. StepInv'
    BY <1>1, <1>3 DEF StepInv, Building, Published, Draft
  <2>2. faults > before => faults' > before'
    BY <1>2, <1>3 DEF CountTypes
  <2> QED
    BY <1>1, <1>3, <2>1, <2>2 DEF OutcomeTruthful, Published
<1>4. CASE \/ UNCHANGED vars \/ Works \/ Breaks \/ Workstation \/ Upgrade \/ RunMake
  <2>1. UNCHANGED <<machine, job, dist, hub, before>>
    BY <1>4 DEF vars, Works, Breaks, Workstation, Upgrade, RunMake, releaseVars
  <2>2. faults' \in {faults, faults + 1}
    BY <1>2, <1>4, StepsOfCommand, EditChanges, UpgradeIsEdit
       DEF vars, buildVars, Works, Breaks, Fail, Workstation, Clean, Start, RunMake
  <2> QED
    BY <1>3, <2>1, <2>2
<1>5. CASE PackageLocally
  BY <1>2, <1>5 DEF PackageLocally, TreeInv, CommandInv, StepInv, OutcomeTruthful, Building
<1>6. CASE Checkout
  BY <1>6 DEF Checkout, StepInv, OutcomeTruthful
<1>7. CASE Fault
  <2>1. job' = "failed" /\ faults' = faults + 1 /\ before' = before
    BY <1>7 DEF Fault, ToStep, OnHub
  <2>2. faults' > before'
    BY <1>2, <2>1 DEF CountTypes
  <2> QED
    BY <2>1, <2>2 DEF StepInv, OutcomeTruthful, Building
<1>8. CASE MakeEnded
  <2>1. /\ job \in {"chainload", "check"} /\ Reported /\ UNCHANGED <<machine, dist, hub, before, faults>>
        /\ job' = IF ~report.ok THEN "failed" ELSE IF job = "check" THEN "package" ELSE "check"
    BY <1>8 DEF MakeEnded, ToStep, buildVars
  <2>2. Building /\ dist' = None
    BY <1>1, <1>2, <2>1 DEF TreeInv, BaseInv, CommandInv, Building, StepInv
  <2>3. StepInv'
    BY <2>1, <2>2 DEF StepInv, Steps
  <2>4. job' = "failed" => faults > before
    <3>1. job' = "failed" => ~report.ok
      BY <2>1
    <3>2. faults = before => report.ok
      BY <1>1, <2>1, <2>2 DEF AttemptInv, CleanInv, CleanCallInv, Unharmed, Reported
    <3> QED
      BY <1>2, <3>1, <3>2 DEF CountTypes
  <2> QED
    BY <2>1, <2>3, <2>4 DEF OutcomeTruthful
<1>9. CASE Package
  <2>1. Building /\ dist = None /\ Accepted
    BY <1>1, <1>2, <1>9 DEF Package, TreeInv, BaseInv, CommandInv, Building, StepInv, AttemptInv,
       BuildingInv, MakeInv
  <2>2. Present = Inputs /\ Inputs /= {} /\ [whole |-> TRUE, chain |-> [t \in Inputs |-> tree[t]]] \in Dists
    BY <1>1, <2>1, AcceptedPackable DEF Inputs
  <2>3. Packable("1")
    BY <2>1, <2>2 DEF Packable
  <2>4. dist' = [whole |-> TRUE, chain |-> [t \in Inputs |-> tree[t]]] /\ job' = "verify"
    BY <1>9, <2>2, <2>3 DEF Package, Archives
  <2>5. dist' \in Dists
    BY <2>2, <2>4
  <2> QED
    BY <2>4, <2>5 DEF StepInv, OutcomeTruthful, Building
<1>10. CASE Verify \/ Lookup \/ Compare \/ Confirm
  <2>1. /\ job \in {"verify", "lookup", "compare", "confirm"} /\ UNCHANGED <<dist, hub>>
        /\ dist \in Dists /\ dist /= None
    BY <1>1, <1>10, AbsenceAssumption DEF Verify, Lookup, Compare, Confirm, ToStep, StepInv, Steps
  <2>2. CASE Verify
    <3>1. dist.whole
      BY <1>1, <2>2 DEF Verify, WholeInv, WholeDist, Steps
    <3>2. job' = "lookup"
      BY <2>2, <3>1 DEF Verify, ToStep
    <3> QED
      BY <2>1, <3>2 DEF StepInv, OutcomeTruthful, Building
  <2>3. CASE Lookup
    <3>1. job' = IF hub = None THEN "create" ELSE IF hub.draft THEN "delete" ELSE "compare"
      BY <2>3 DEF Lookup, ToStep
    <3> QED
      BY <2>1, <3>1 DEF StepInv, OutcomeTruthful, Building, Published
  <2>4. CASE Compare
    <3>1. Published /\ job' = IF hub.assets = dist THEN "done" ELSE "failed"
      BY <1>1, <2>4 DEF Compare, ToStep, StepInv
    <3> QED
      BY <2>1, <3>1 DEF StepInv, OutcomeTruthful, Building, Published
  <2>5. CASE Confirm
    <3>1. hub = Draft(dist)
      BY <1>1, <2>5 DEF Confirm, StepInv
    <3>2. hub.draft /\ hub.assets = dist
      BY <3>1 DEF Draft
    <3>3. hub /= None
      BY <2>1, <3>1, DraftIsARelease, AbsenceAssumption
    <3> QED
      BY <2>1, <2>5, <3>1, <3>2, <3>3 DEF Confirm, ToStep, StepInv, OutcomeTruthful, Building
  <2> QED
    BY <1>10, <2>2, <2>3, <2>4, <2>5
<1>11. CASE DeleteDraft \/ CreateDraft \/ Publish
  <2>1. dist' = dist /\ dist \in Dists /\ dist /= None
    BY <1>1, <1>11, AbsenceAssumption DEF DeleteDraft, CreateDraft, Publish, OnHub, ToStep, StepInv, Steps
  <2>2. CASE DeleteDraft
    BY <2>1, <2>2 DEF DeleteDraft, OnHub, StepInv, OutcomeTruthful, Building
  <2>3. CASE CreateDraft /\ hub = None
    BY <2>1, <2>3 DEF CreateDraft, OnHub, StepInv, OutcomeTruthful, Building, Draft
  <2>4. CASE CreateDraft /\ hub /= None
    <3>1. Published /\ hub.assets = None
      BY <1>1, <2>4 DEF CreateDraft, StepInv
    <3>2. job' = "failed" /\ hub' = hub
      BY <2>4 DEF CreateDraft, ToStep
    <3> QED
      BY <2>1, <3>1, <3>2 DEF StepInv, OutcomeTruthful, Building, Published
  <2>5. CASE Publish
    <3>1. hub' = [Draft(dist) EXCEPT !.draft = FALSE] /\ job' = "done"
      BY <1>1, <2>5 DEF Publish, OnHub, HubInv
    <3>2. ~hub'.draft /\ hub'.assets = dist
      BY <3>1 DEF Draft
    <3>3. hub' /= None
      BY <2>1, <3>1, DraftIsARelease, AbsenceAssumption
    <3> QED
      BY <2>1, <3>1, <3>2, <3>3 DEF StepInv, OutcomeTruthful, Building, Published
  <2> QED
    BY <1>11, <2>2, <2>3, <2>4, <2>5
<1>12. CASE PersonPublishes
  <2>1. /\ job \in {"idle", "lookup", "create"} /\ job' = job /\ dist' = dist
        /\ hub' = [draft |-> FALSE, assets |-> None, by |-> "person"]
    BY <1>12 DEF PersonPublishes
  <2> QED
    BY <1>1, <2>1 DEF StepInv, OutcomeTruthful, Building, Published, Steps
<1> QED
  BY <1>4, <1>5, <1>6, <1>7, <1>8, <1>9, <1>10, <1>11, <1>12 DEF Next, Workflow

(***************************************************************************)
(* A job that is done leaves a published release with the assets of its    *)
(* own rebuild.  One that fails had a fault in its own attempt, or met a   *)
(* published release that differs: what earlier attempts left - stale      *)
(* drafts, partial uploads, answers that were lost, a build tree of other  *)
(* pins - never makes a retry fail, and on a clean checkout every recipe   *)
(* finds what it needs (release.yml, release-dist.sh, Makefile).           *)
(***************************************************************************)
THEOREM OutcomesAreTruthful == Spec => []OutcomeTruthful
<1>1. Init => OutcomeInv
  <2> SUFFICES ASSUME Init PROVE OutcomeInv
    OBVIOUS
  <2>1. job = "idle" /\ hub = None /\ faults = 0 /\ before = 0
    BY DEF Init, BuildInit
  <2>2. AttemptInv
    BY <2>1, InitMade DEF AttemptInv, BuildingInv, PinsInv, MakeInv, Building, CountTypes, CleanInv,
       CleanTreeInv, CleanScriptInv, CleanCallInv, Unharmed
  <2> QED
    BY <2>1, <2>2 DEF OutcomeInv, HubInv, WholeInv, PublishedWhole, Published, StepInv, Building,
       OutcomeTruthful
<1>2. OutcomeInv /\ [Next]_vars => OutcomeInv'
  <2> SUFFICES ASSUME OutcomeInv, [Next]_vars PROVE OutcomeInv'
    OBVIOUS
  <2>1. AttemptInv /\ MakeInvariant /\ TreeInv
    BY DEF OutcomeInv, AttemptInv, MakeInvariant
  <2>2. AttemptInv'
    BY <2>1, MakeInvariantKept, BuildingKept, CountTypesKept, CleanInvKept DEF AttemptInv
  <2>3. HubInv' /\ WholeInv'
    BY <2>1, HubInvKept, WholeInvKept DEF OutcomeInv, AttemptInv
  <2> QED
    BY <2>2, <2>3, OutcomeKept DEF OutcomeInv
<1>3. OutcomeInv => OutcomeTruthful
  BY DEF OutcomeInv
<1> QED
  BY <1>1, <1>2, <1>3, PTL DEF Spec
=============================================================================
