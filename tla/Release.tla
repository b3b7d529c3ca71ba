------------------------------- MODULE Release -------------------------------
(***************************************************************************)
(* tools/release-dist.sh and .github/workflows/release.yml over the build  *)
(* tree.  On a workstation anyone edits, builds with or without UBOOT_ITB  *)
(* and packages what lies there; the runner takes a clean checkout of a    *)
(* tag, builds, checks, packages and publishes on GitHub, where every call *)
(* may fail before or after it took effect.  A failed run is started       *)
(* again; the tools of the runner may have been upgraded in between.       *)
(***************************************************************************)
EXTENDS ChainloadBuild

CONSTANTS
    MaxAttempts,    \* bound: runs of the workflow for the tag
    MaxBreaks       \* bound: of the faults, those of make on the workstation

\* A distribution: complete or cut off, with the chainloader files or without any.
Artifacts == Versions \union Snapshots \union Fits \union Binaries
Dists == [whole : BOOLEAN, chain : UNION {[I -> Artifacts] : I \in SUBSET Targets} \union {None}]
\* The release of the tag.
Releases == [draft : BOOLEAN, assets : Dists \union {None}, by : {"workflow", "person"}]
ASSUME AbsenceAssumption == None \notin Dists /\ None \notin Releases

VARIABLES
    machine,        \* "workstation" or "runner"
    job,            \* the step of the workflow
    dist,           \* the output directory: [whole, chain]
    hub,            \* the release of the tag on GitHub: [draft, assets, by]; assets
                    \* that are not whole are a part of the upload
    attempts,
    before          \* the faults before this attempt

releaseVars == <<machine, job, dist, hub, attempts, before>>
vars == <<buildVars, releaseVars>>

\* chainload_inputs: the chainloader files of the board's package.
Inputs == {"fit", "source", "binary"} \union Images
Present == {t \in Inputs : tree[t] /= None}

Steps == {"idle", "chainload", "check", "package", "verify", "lookup", "compare",
          "delete", "create", "confirm", "publish", "done", "failed"}
Published == hub /= None /\ ~hub.draft
ToStep(s) == job' = s /\ UNCHANGED <<machine, dist, hub, attempts, before>>

(***************************************************************************)
(* tools/release-dist.sh                                                   *)
(***************************************************************************)
\* CHAINLOAD_RELEASE: every input or none under "auto", every input under "1".
\* The archives are made aside and moved last; the move may stop half-way.
Packable(setting) ==
    dist = None /\ (Present = Inputs \/ (setting = "auto" /\ Present = {}))
Archives(whole) ==
    [whole |-> whole,
     chain |-> IF Present = {} THEN None ELSE [t \in Inputs |-> tree[t]]]

PackageLocally ==
    /\ machine = "workstation" /\ command = None /\ Packable("auto")
    /\ \/ dist' = Archives(TRUE) /\ UNCHANGED faults
       \/ dist' = Archives(FALSE) /\ faults < MaxFaults /\ faults' = faults + 1
    /\ UNCHANGED <<board, pins, noticed, tree, old, scriptVars, makeVars, commands,
                   machine, job, hub, attempts, before>>

(***************************************************************************)
(* .github/workflows/release.yml                                           *)
(***************************************************************************)
Resting == job \in {"idle", "done", "failed"}

Checkout ==
    /\ machine = "runner" /\ Resting /\ attempts < MaxAttempts
    /\ attempts' = attempts + 1 /\ before' = faults
    /\ tree' = Empty /\ old' = {} /\ snapshot' = NoSnapshot
    /\ report' = None /\ commands' = 0 /\ dist' = None
    /\ job' = "chainload"
    /\ UNCHANGED <<board, pins, noticed, script, reading, raced, command, todo, done, faults,
                   machine, hub>>

\* make chainload and make chainload-check, each once.
Reported == report /= None /\ report.command.name = job
RunMake ==
    /\ job \in {"chainload", "check"} /\ command = None
    /\ ~Reported
    /\ Start(job, None)
    /\ UNCHANGED releaseVars
MakeEnded ==
    /\ job \in {"chainload", "check"} /\ command = None
    /\ Reported
    /\ ToStep(IF ~report.ok THEN "failed" ELSE IF job = "check" THEN "package" ELSE "check")
    /\ UNCHANGED buildVars

\* Without every input, or into a directory that is not empty, it dies.
Package ==
    /\ job = "package"
    /\ IF Packable("1")
       THEN /\ dist' = Archives(TRUE) /\ job' = "verify"
            /\ UNCHANGED <<machine, hub, attempts, before>>
       ELSE ToStep("failed")
    /\ UNCHANGED buildVars

\* The exact list of files, and their sums.
Verify ==
    /\ job = "verify"
    /\ ToStep(IF dist.whole THEN "lookup" ELSE "failed")
    /\ UNCHANGED buildVars

\* Mutants: a draft is taken as it is; a published release counts as a draft; a
\* draft counts as published; a draft that is in the way ends the job.
Lookup_TakesDraft ==
    /\ job = "lookup" /\ UNCHANGED buildVars
    /\ ToStep(IF hub = None THEN "create" ELSE IF hub.draft THEN "publish" ELSE "compare")
Lookup_AnyIsDraft ==
    /\ job = "lookup" /\ UNCHANGED buildVars
    /\ ToStep(IF hub = None THEN "create" ELSE "delete")
Lookup_DraftFails ==
    /\ job = "lookup" /\ UNCHANGED buildVars
    /\ ToStep(IF hub = None THEN "create" ELSE IF hub.draft THEN "failed" ELSE "compare")

Lookup ==
    /\ job = "lookup"
    /\ ToStep(IF hub = None THEN "create" ELSE IF hub.draft THEN "delete" ELSE "compare")
    /\ UNCHANGED buildVars

\* Mutant: SHA256SUMS is not compared.
Compare_NamesOnly ==
    /\ job = "compare" /\ UNCHANGED buildVars
    /\ ToStep(IF hub.assets /= None THEN "done" ELSE "failed")

\* A published release: names, sizes and SHA256SUMS against the rebuild.
Compare ==
    /\ job = "compare"
    /\ ToStep(IF hub.assets = dist THEN "done" ELSE "failed")
    /\ UNCHANGED buildVars

OnHub(release, s) ==
    /\ hub' = release /\ job' = s
    /\ UNCHANGED <<machine, dist, attempts, before>>

DeleteDraft ==
    /\ job = "delete" /\ OnHub(None, "create") /\ UNCHANGED buildVars

\* gh release create --draft; it fails when a release has appeared meanwhile.
Draft(assets) == [draft |-> TRUE, assets |-> assets, by |-> "workflow"]
CreateDraft ==
    /\ job = "create"
    /\ IF hub = None THEN OnHub(Draft(dist), "confirm") ELSE ToStep("failed")
    /\ UNCHANGED buildVars

\* load_release_record must find a draft, and its assets must be the local ones.
Confirm ==
    /\ job = "confirm"
    /\ ToStep(IF hub /= None /\ hub.draft /\ hub.assets = dist THEN "publish" ELSE "failed")
    /\ UNCHANGED buildVars

Publish ==
    /\ job = "publish" /\ OnHub([hub EXCEPT !.draft = FALSE], "done") /\ UNCHANGED buildVars

\* A step fails: nothing happened, it happened and the answer was lost, or a
\* draft stays with some of its assets.
Fault ==
    /\ job \in Steps \ {"idle", "chainload", "check", "done", "failed"}
    /\ faults < MaxFaults /\ faults' = faults + 1
    /\ \/ ToStep("failed")
       \/ /\ job = "package" /\ Packable("1")
          /\ dist' = Archives(FALSE) /\ job' = "failed"
          /\ UNCHANGED <<machine, hub, attempts, before>>
       \/ job = "delete" /\ OnHub(None, "failed")
       \/ /\ job = "create" /\ hub = None
          /\ \E whole \in BOOLEAN : OnHub(Draft([dist EXCEPT !.whole = whole]), "failed")
       \/ job = "publish" /\ OnHub([hub EXCEPT !.draft = FALSE], "failed")
    /\ UNCHANGED <<board, pins, noticed, tree, old, scriptVars, makeVars, commands>>

\* "Draft a new release" in the web interface: an empty published release.  Only
\* whether it is there at the lookup and when the draft is created matters.
PersonPublishes ==
    /\ machine = "runner" /\ hub = None /\ job \in {"idle", "lookup", "create"}
    /\ hub' = [draft |-> FALSE, assets |-> None, by |-> "person"]
    /\ UNCHANGED <<buildVars, machine, job, dist, attempts, before>>

\* Between two attempts the packages of the runner are upgraded.
Upgrade ==
    /\ machine = "runner" /\ Resting
    /\ Changed({}) /\ UNCHANGED releaseVars

(***************************************************************************)
Init ==
    /\ BuildInit
    /\ machine \in {"workstation", "runner"}
    /\ job = "idle" /\ dist = None /\ hub = None /\ attempts = 0 /\ before = 0

Works == MakeStep /\ UNCHANGED releaseVars
Breaks ==
    /\ machine = "workstation" => faults < MaxBreaks
    /\ Fail /\ UNCHANGED releaseVars
Workstation ==
    /\ machine = "workstation" /\ dist = None
    /\ \/ Edit \/ Clean
       \/ \E name \in Names : Start(name, None)
       \/ \E name \in {"binary", "check"}, itb \in {"file", "output"} : Start(name, itb)
    /\ UNCHANGED releaseVars
Workflow ==
    \/ Works \/ Checkout \/ RunMake \/ MakeEnded \/ Package \/ Verify
    \/ Lookup \/ Compare \/ DeleteDraft \/ CreateDraft \/ Confirm \/ Publish

Next ==
    \/ Workstation \/ PackageLocally
    \/ Workflow \/ Breaks \/ Fault \/ PersonPublishes \/ Upgrade

\* A command that was started runs on, the steps of a job follow each other,
\* and a job that failed is started again.
Fairness == WF_vars(Workflow)
Spec == Init /\ [][Next]_vars /\ Fairness

-----------------------------------------------------------------------------
(***************************************************************************)
(* Whatever fails, is killed or is edited in between: in the tree and in   *)
(* every distribution, local ones included, a pinned FIT file lies beside  *)
(* the source it was compiled from or none, and no distribution has a      *)
(* development FIT as its FIT file (release-dist.sh asks for every         *)
(* chainloader file or none, and a development build has no source).  The  *)
(* FIT that is embedded in a binary or an image may be another one, which  *)
(* release-dist.sh does not look at; but in the tree make knows it: such a *)
(* file is older than its parts or truncated.                              *)
(***************************************************************************)
CorrespondingSource ==
    /\ SourceMatchesFit /\ MismatchIsOld
    /\ dist /= None /\ dist.chain /= None
       => \/ dist.chain["fit"] = Partial
          \/ Pinned(dist.chain["fit"]) /\ dist.chain["source"] = dist.chain["fit"].source

\* The binary is the stage and the FIT of the same pins, the images carry that
\* binary, the source archive is what the FIT was compiled from.
OfOneBuild(chain) ==
    LET v == chain["fit"].with
    IN  /\ chain["fit"] = [source |-> {v}, with |-> v] /\ chain["source"] = {v}
        /\ chain["binary"] = [stage |-> v, fit |-> chain["fit"]]
        /\ \A m \in Media : chain[m] = chain["binary"]
        /\ Variant => chain["nvme"] = chain["fit"]

(***************************************************************************)
(* What the workflow publishes is complete and of one build, whatever the  *)
(* attempts before left in the build tree or on GitHub and whatever was    *)
(* upgraded between them.                                                  *)
(***************************************************************************)
PublishedWhole ==
    Published /\ hub.by = "workflow" => hub.assets.whole /\ OfOneBuild(hub.assets.chain)

(***************************************************************************)
(* docs/releases.md: a published release is never modified, whatever the   *)
(* retries find - also one that a person published before the lookup or    *)
(* before the draft is created.                                            *)
(***************************************************************************)
PublishedFinal == [][Published => hub' = hub]_vars

(***************************************************************************)
(* A job that succeeds leaves a published release with the assets of its   *)
(* own rebuild, also when it found the release published already.  One     *)
(* that fails does so for a fault of its own attempt, or because a         *)
(* different release is published: stale drafts, partial uploads and lost  *)
(* answers of earlier attempts never make a retry fail.                    *)
(***************************************************************************)
OutcomeTruthful ==
    /\ job = "done" => Published /\ hub.assets = dist
    /\ job = "failed" => faults > before \/ (Published /\ hub.assets /= dist)

(***************************************************************************)
(* A tag is published in the end: with fewer faults than attempts, some    *)
(* attempt gets through, whatever drafts the others left.                  *)
(***************************************************************************)
EventuallyPublished == machine = "runner" ~> Published
=============================================================================
