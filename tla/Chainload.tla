------------------------------ MODULE Chainload ------------------------------
(***************************************************************************)
(* The RK3568 first stage that hands a machine over to BL31 and U-Boot:    *)
(* chainload_run (loader.c), the FIT policy and loader (fit.c), the TF-A   *)
(* parameter block (tf_a.c) and the board hooks (rk3568.c).                *)
(*                                                                         *)
(* One processor runs the stage with interrupts masked, so a step is one   *)
(* stage of chainload_run, or one turn of a loop inside a stage.  What is  *)
(* hard is memory: the stage, its stack, the FIT appended to it, the       *)
(* staging copy and every load address share one physical address space    *)
(* behind a write-back cache.  `mem` is that space as the processor sees   *)
(* it, cell by cell, and `dirty` the cells whose value only the cache has. *)
(***************************************************************************)
EXTENDS Integers, Sequences, FiniteSets

CONSTANTS
    AddrMax,        \* UINTPTR_MAX, the largest address
    MaxImages,      \* CHAIN_MAX_IMAGES
    DtbSlack,       \* CHAIN_DTB_SLACK
    ParamsReserve,  \* CHAIN_PARAMS_RESERVE
    CacheLimit,     \* first address mapped uncached, 0xf0000000 on RK3568
    Boards,         \* the board policies (struct ChainPlatform) to consider
    Fits            \* the appended FITs to consider

Addr == 0 .. AddrMax

\* An absent property, and one whose length is neither 4 nor 8.
NoProp == -1
BadProp == -2
\* "no image of this role yet": UINT32_MAX for an index, 0 for the BL31 entry.
NoIndex == 0
NoEntry == 0

(***************************************************************************)
(* A board policy.  `ranges` are the permitted BL31 ranges.  The linker    *)
(* script puts the stage at [0, loaderEnd) and the FIT straight after it;  *)
(* boot.S puts the stack at [stackStart, stackEnd).                        *)
(***************************************************************************)
RangeSet == {r \in [start : Addr, end : Addr] : r.start < r.end}

BoardOK(b) ==
    /\ b.loaderEnd \in Addr /\ b.stackStart \in Addr /\ b.stackEnd \in Addr
    /\ b.stageStart \in Addr /\ b.stageEnd \in Addr
    /\ b.params \in Addr /\ b.bl31Entry \in Addr
    /\ b.bl33Entry \in Addr /\ b.bl33Limit \in Addr
    /\ b.protocolOK \in BOOLEAN
    /\ b.ranges \subseteq RangeSet
    /\ b.segments \in Nat

(***************************************************************************)
(* A FIT: its header and tree (`valid`, `structured`), the names its       *)
(* default configuration lists, and the image nodes by name.  `off` and    *)
(* `size` place a node's inline data in the FIT, `good` and `bad` count    *)
(* its SHA-256 subnodes with the right and with a wrong or short value.    *)
(***************************************************************************)
NodeOK(n, total) ==
    /\ n.external \in BOOLEAN /\ n.compressed \in BOOLEAN
    /\ n.off \in Nat /\ n.size \in Nat
    /\ 0 < n.off /\ n.off + n.size <= total
    /\ n.good \in Nat /\ n.bad \in Nat
    /\ n.arch \in {"none", "arm64", "other"}
    /\ n.type \in {"none", "flat_dt", "standalone", "firmware"}
    /\ n.os \in {"none", "u-boot", "arm-trusted-firmware", "tee"}
    /\ n.load \in Addr \cup {NoProp, BadProp}
    /\ n.entry \in Addr \cup {NoProp, BadProp}
    /\ n.isDtb \in BOOLEAN

FitOK(f) ==
    /\ f.valid \in BOOLEAN /\ f.structured \in BOOLEAN
    /\ f.size \in Nat
    /\ f.loadables \in Seq(STRING)
    /\ f.firmware \in STRING /\ f.fdt \in STRING
    /\ \A name \in DOMAIN f.nodes : NodeOK(f.nodes[name], f.size)

ASSUME SizesAssumption ==
    /\ AddrMax \in Nat /\ CacheLimit \in Nat
    /\ MaxImages \in Nat /\ DtbSlack \in Nat /\ ParamsReserve \in Nat

\* The appended FIT is inside the address space of the machine it boots.
ASSUME InputsAssumption ==
    /\ \A b \in Boards : BoardOK(b)
    /\ \A f \in Fits : FitOK(f)
    /\ \A b \in Boards, f \in Fits : b.loaderEnd + f.size <= AddrMax

VARIABLES
    board,     \* the policy compiled into this stage
    fit,       \* the FIT appended to it
    pc,        \* the stage of chainload_run
    i,         \* the loop counter of that stage
    plan,      \* struct ChainFitPlan
    mem,       \* what the processor reads at each address
    dirty,     \* cached addresses not yet cleaned to DRAM
    prepared,  \* prepare_handoff has succeeded
    recorded   \* names under /fit-images in the control DTB

vars == <<board, fit, pc, i, plan, mem, dirty, prepared, recorded>>

-----------------------------------------------------------------------------
(***************************************************************************)
(* Address ranges, half open as in the source.                             *)
(***************************************************************************)
In(a, start, end) == start <= a /\ a < end

Overlap(s1, e1, s2, e2) == s1 < e2 /\ s2 < e1

\* checked_end: the end of the range is representable.
EndOK(start, size) == size <= AddrMax - start

(***************************************************************************)
(* memcpy, which copies upwards: where it overtakes its own source it      *)
(* reads back what it has already written.                                 *)
(***************************************************************************)
Copy(m, dst, src, size) ==
    [a \in DOMAIN m |->
        IF ~In(a, dst, dst + size) THEN m[a]
        ELSE IF src < dst /\ dst < src + size
             THEN m[src + ((a - dst) % (dst - src))]
             ELSE m[src + (a - dst)]]

Cacheable(start, end) == {a \in Addr : In(a, start, end) /\ a < CacheLimit}

-----------------------------------------------------------------------------
(***************************************************************************)
(* The plan and what chain_fit_parse demands of it.                        *)
(***************************************************************************)
EmptyPlan == [images |-> <<>>, bl31Entry |-> NoEntry,
              bl33 |-> NoIndex, fdt |-> NoIndex]

Bl31Segments == {k \in DOMAIN plan.images : plan.images[k].role = "BL31"}

End(image) == image.load + image.size

ControlFdt == End(plan.images[plan.bl33])
ControlFdtEnd == ControlFdt + plan.images[plan.fdt].size + DtbSlack
ParamsEnd == board.params + ParamsReserve

\* The names add_image is called with, in order; the first is the primary.
Requested == <<fit.firmware>> \o fit.loadables \o <<fit.fdt>>

Staged(k) == board.stageStart + k

\* validate_hash reads the staged copy: one good SHA-256 node, no bad one.
HashVerified(n) ==
    /\ n.good = 1 /\ n.bad = 0
    /\ \A k \in n.off .. n.off + n.size - 1 : mem[Staged(k)] = <<"fit", k>>

\* Mutant: only the end of a segment is compared with the permitted range.
Bl31AddressAllowed_EndOnly(start, end) ==
    \E r \in board.ranges : start < end /\ end <= r.end

Bl31AddressAllowed(start, end) ==
    \E r \in board.ranges : r.start <= start /\ start < end /\ end <= r.end

\* UINTPTR_MAX marks an entry that is not given, even when it is.
EntryProp(n) == IF n.entry = NoProp THEN AddrMax ELSE n.entry

(***************************************************************************)
(* The three images add_image accepts: the entry it leaves in the plan and *)
(* the conditions of its branch.                                           *)
(***************************************************************************)
Role(n) == IF n.type = "flat_dt" THEN "FDT"
           ELSE IF n.os = "u-boot" THEN "BL33"
           ELSE IF n.os = "arm-trusted-firmware" THEN "BL31"
           ELSE "unsupported"

Entry(n, primary) ==
    IF EntryProp(n) = AddrMax /\ (Role(n) = "BL33" \/ (Role(n) = "BL31" /\ primary))
    THEN n.load ELSE EntryProp(n)

FdtAccepted(n) ==
    /\ Role(n) = "FDT"
    /\ n.arch # "other"
    /\ n.load = NoProp /\ EntryProp(n) = AddrMax
    /\ plan.fdt = NoIndex

Executable(n) ==
    /\ n.arch = "arm64"
    /\ n.load \in Addr /\ EndOK(n.load, n.size)

Bl33Accepted(n, primary) ==
    /\ Role(n) = "BL33" /\ Executable(n)
    /\ n.type = "standalone"
    /\ plan.bl33 = NoIndex
    /\ n.load = board.bl33Entry /\ Entry(n, primary) = board.bl33Entry
    /\ n.load + n.size <= board.bl33Limit

Bl31Accepted(n, primary) ==
    /\ Role(n) = "BL31" /\ Executable(n)
    /\ n.type = "firmware"
    /\ Bl31AddressAllowed(n.load, n.load + n.size)
    /\ Entry(n, primary) # AddrMax =>
         /\ Entry(n, primary) = board.bl31Entry
         /\ plan.bl31Entry = NoEntry

Accepted(name, primary) ==
    /\ Len(plan.images) < MaxImages
    /\ name \in DOMAIN fit.nodes
    /\ LET n == fit.nodes[name] IN
         /\ ~n.external /\ ~n.compressed
         /\ n.size > 0
         /\ HashVerified(n)
         /\ n.entry # BadProp
         /\ FdtAccepted(n) \/ Bl33Accepted(n, primary) \/ Bl31Accepted(n, primary)

\* Mutant: the load address is kept for a control DTB, which has none.
Added_KeepLoad(name, primary) ==
    LET n == fit.nodes[name]
        role == Role(n)
        at == Len(plan.images) + 1
    IN [images |-> Append(plan.images,
            [name |-> name, role |-> role, off |-> n.off, size |-> n.size,
             load |-> n.load, record |-> role # "FDT" /\ ~primary]),
        bl31Entry |-> IF role = "BL31" /\ Entry(n, primary) # AddrMax
                      THEN Entry(n, primary) ELSE plan.bl31Entry,
        bl33 |-> IF role = "BL33" THEN at ELSE plan.bl33,
        fdt |-> IF role = "FDT" THEN at ELSE plan.fdt]

Added(name, primary) ==
    LET n == fit.nodes[name]
        role == Role(n)
        at == Len(plan.images) + 1
    IN [images |-> Append(plan.images,
            [name |-> name, role |-> role, off |-> n.off, size |-> n.size,
             load |-> IF role = "FDT" THEN 0 ELSE n.load,
             record |-> role # "FDT" /\ ~primary]),
        bl31Entry |-> IF role = "BL31" /\ Entry(n, primary) # AddrMax
                      THEN Entry(n, primary) ELSE plan.bl31Entry,
        bl33 |-> IF role = "BL33" THEN at ELSE plan.bl33,
        fdt |-> IF role = "FDT" THEN at ELSE plan.fdt]

(***************************************************************************)
(* The checks on the whole plan that end chain_fit_parse.                  *)
(***************************************************************************)
Placed == {k \in DOMAIN plan.images : plan.images[k].role # "FDT"}

\* Mutant: nothing keeps an image off the BL31 parameters.
ClearOfArenas_NoParams(start, end) ==
    ~Overlap(start, end, board.stageStart, board.stageEnd)

ClearOfArenas(start, end) ==
    /\ ~Overlap(start, end, board.stageStart, board.stageEnd)
    /\ ~Overlap(start, end, board.params, ParamsEnd)

PlanComplete ==
    /\ Bl31Segments # {} /\ plan.bl31Entry # NoEntry
    /\ plan.bl33 # NoIndex /\ plan.fdt # NoIndex
    /\ board.segments # 0 => Cardinality(Bl31Segments) = board.segments

LayoutAccepted ==
    /\ PlanComplete
    /\ \A k, l \in Placed : k # l =>
         ~Overlap(plan.images[k].load, End(plan.images[k]),
                  plan.images[l].load, End(plan.images[l]))
    /\ ControlFdtEnd <= AddrMax /\ ControlFdtEnd <= board.bl33Limit
    /\ EndOK(board.params, ParamsReserve)
    /\ \A k \in Placed : ClearOfArenas(plan.images[k].load, End(plan.images[k]))
    /\ ClearOfArenas(ControlFdt, ControlFdtEnd)

-----------------------------------------------------------------------------
(***************************************************************************)
(* The stages.                                                             *)
(***************************************************************************)
PowerOn(b, f) ==
    [a \in Addr |-> IF In(a, b.loaderEnd, b.loaderEnd + f.size)
                    THEN <<"fit", a - b.loaderEnd>> ELSE <<"old", a>>]

Init ==
    /\ board \in Boards /\ fit \in Fits
    /\ pc = "policy" /\ i = 1
    /\ plan = EmptyPlan
    /\ mem = PowerOn(board, fit)
    /\ dirty = {} /\ prepared = FALSE /\ recorded = {}

Goto(stage) == pc' = stage /\ i' = 1

\* fail: report, leave the download marker for the BootROM, reset, halt.
Recover == pc' = "recovered" /\ UNCHANGED <<i, plan, mem, dirty, prepared, recorded>>

CheckPolicy ==
    /\ pc = "policy"
    /\ IF board.stageEnd <= board.stageStart \/ ~board.protocolOK
       THEN Recover
       ELSE Goto("stage") /\ UNCHANGED <<plan, mem, dirty, prepared, recorded>>
    /\ UNCHANGED <<board, fit>>

\* Mutant: the FIT is copied without comparing its size with the arena.
StageFit_NoLimit ==
    /\ pc = "stage"
    /\ IF ~fit.valid
       THEN Recover
       ELSE /\ mem' = Copy(mem, board.stageStart, board.loaderEnd, fit.size)
            /\ dirty' = dirty \cup Cacheable(board.stageStart, board.stageStart + fit.size)
            /\ Goto("parse")
            /\ UNCHANGED <<plan, prepared, recorded>>
    /\ UNCHANGED <<board, fit>>

StageFit ==
    /\ pc = "stage"
    /\ IF ~fit.valid \/ fit.size = 0 \/ fit.size > board.stageEnd - board.stageStart
       THEN Recover
       ELSE /\ mem' = Copy(mem, board.stageStart, board.loaderEnd, fit.size)
            /\ dirty' = dirty \cup Cacheable(board.stageStart, board.stageStart + fit.size)
            /\ Goto("parse")
            /\ UNCHANGED <<plan, prepared, recorded>>
    /\ UNCHANGED <<board, fit>>

\* chain_fit_parse up to its first add_image: the staged header and tree.
ParseTree ==
    /\ pc = "parse"
    /\ IF mem[Staged(0)] # <<"fit", 0>> \/ ~fit.structured
       THEN Recover
       ELSE /\ plan' = EmptyPlan
            /\ Goto("images")
            /\ UNCHANGED <<mem, dirty, prepared, recorded>>
    /\ UNCHANGED <<board, fit>>

\* A turn of add_image; the loadables are counted once the primary is in.
AddImage ==
    /\ pc = "images" /\ i <= Len(Requested)
    /\ IF (i = 2 => fit.loadables # <<>>) /\ Accepted(Requested[i], i = 1)
       THEN /\ plan' = Added(Requested[i], i = 1)
            /\ i' = i + 1
            /\ UNCHANGED <<pc, mem, dirty, prepared, recorded>>
       ELSE Recover
    /\ UNCHANGED <<board, fit>>

CheckLayout ==
    /\ pc = "images" /\ i > Len(Requested)
    /\ IF LayoutAccepted
       THEN Goto("prepare") /\ UNCHANGED <<plan, mem, dirty, prepared, recorded>>
       ELSE Recover
    /\ UNCHANGED <<board, fit>>

\* The power domains acknowledge in time, or wait_clear runs out of polls.
PrepareHandoff ==
    /\ pc = "prepare"
    /\ \/ /\ prepared' = TRUE
          /\ Goto("load")
          /\ UNCHANGED <<plan, mem, dirty, recorded>>
       \/ Recover
    /\ UNCHANGED <<board, fit>>

\* Mutant: the loop skips the control DTB without moving on.
LoadImage_Stuck ==
    /\ pc = "load" /\ i <= Len(plan.images)
    /\ LET image == plan.images[i] IN
         IF image.role = "FDT" THEN UNCHANGED <<mem, dirty, i>>
         ELSE /\ mem' = Copy(mem, image.load, Staged(image.off), image.size)
              /\ dirty' = dirty \cup Cacheable(image.load, End(image))
              /\ i' = i + 1
    /\ UNCHANGED <<board, fit, pc, plan, prepared, recorded>>

\* A turn of the first loop of chain_fit_load.
LoadImage ==
    /\ pc = "load" /\ i <= Len(plan.images)
    /\ LET image == plan.images[i] IN
         IF image.role = "FDT" THEN UNCHANGED <<mem, dirty>>
         ELSE /\ mem' = Copy(mem, image.load, Staged(image.off), image.size)
              /\ dirty' = dirty \cup Cacheable(image.load, End(image))
    /\ i' = i + 1
    /\ UNCHANGED <<board, fit, pc, plan, prepared, recorded>>

\* fdt_open_into: the control DTB moves behind U-Boot, with room to grow.
OpenControlDtb ==
    /\ pc = "load" /\ i > Len(plan.images)
    /\ LET dtb == plan.images[plan.fdt] IN
         IF ~fit.nodes[dtb.name].isDtb THEN Recover
         ELSE /\ mem' = Copy(mem, ControlFdt, Staged(dtb.off), dtb.size)
              /\ dirty' = dirty \cup Cacheable(ControlFdt, ControlFdt + dtb.size)
              /\ Goto("record")
              /\ UNCHANGED <<plan, prepared, recorded>>
    /\ UNCHANGED <<board, fit>>

\* Mutant: the loop records all but the last image.
RecordImage_OffByOne ==
    /\ pc = "record" /\ i <= Len(plan.images)
    /\ LET image == plan.images[i]
           slackStart == ControlFdt + plan.images[plan.fdt].size
           record == image.record /\ i + 1 < Len(plan.images)
       IN \/ /\ ~record
             /\ i' = i + 1
             /\ UNCHANGED <<pc, plan, mem, dirty, prepared, recorded>>
          \/ /\ record
             /\ mem' = [a \in Addr |-> IF In(a, slackStart, ControlFdtEnd)
                                       THEN <<"slack", 0>> ELSE mem[a]]
             /\ dirty' = dirty \cup Cacheable(slackStart, ControlFdtEnd)
             /\ \/ /\ recorded' = recorded \cup {image.name}
                   /\ i' = i + 1 /\ pc' = pc
                \/ /\ pc' = "recovered"
                   /\ UNCHANGED <<recorded, i>>
             /\ UNCHANGED <<plan, prepared>>
    /\ UNCHANGED <<board, fit>>

\* A turn of the second loop: record_image grows the control DTB into the
\* slack, or finds that too small for another /fit-images node.
RecordImage ==
    /\ pc = "record" /\ i <= Len(plan.images)
    /\ LET image == plan.images[i]
           slackStart == ControlFdt + plan.images[plan.fdt].size
       IN \/ /\ ~image.record
             /\ i' = i + 1
             /\ UNCHANGED <<pc, plan, mem, dirty, prepared, recorded>>
          \/ /\ image.record
             /\ mem' = [a \in Addr |-> IF In(a, slackStart, ControlFdtEnd)
                                       THEN <<"slack", 0>> ELSE mem[a]]
             /\ dirty' = dirty \cup Cacheable(slackStart, ControlFdtEnd)
             /\ \/ /\ recorded' = recorded \cup {image.name}
                   /\ i' = i + 1 /\ pc' = pc
                \/ /\ pc' = "recovered"
                   /\ UNCHANGED <<recorded, i>>
             /\ UNCHANGED <<plan, prepared>>
    /\ UNCHANGED <<board, fit>>

BuildParams ==
    /\ pc = "record" /\ i > Len(plan.images)
    /\ mem' = [a \in Addr |-> IF In(a, board.params, ParamsEnd)
                              THEN <<"params", a - board.params>> ELSE mem[a]]
    /\ dirty' = dirty \cup Cacheable(board.params, ParamsEnd)
    /\ Goto("clean")
    /\ UNCHANGED <<board, fit, plan, prepared, recorded>>

\* Mutant: an image that ends just below the uncached window is not cleaned.
CleanImage_OffByOne ==
    /\ pc = "clean" /\ i <= Len(plan.images)
    /\ LET image == plan.images[i] IN
         dirty' = IF image.role # "FDT" /\ End(image) < CacheLimit
                  THEN {a \in dirty : ~In(a, image.load, End(image))} ELSE dirty
    /\ i' = i + 1
    /\ UNCHANGED <<board, fit, pc, plan, mem, prepared, recorded>>

\* dcache_clean of one image, skipped when it does not end in cached memory.
CleanImage ==
    /\ pc = "clean" /\ i <= Len(plan.images)
    /\ LET image == plan.images[i] IN
         dirty' = IF image.role # "FDT" /\ End(image) <= CacheLimit
                  THEN {a \in dirty : ~In(a, image.load, End(image))} ELSE dirty
    /\ i' = i + 1
    /\ UNCHANGED <<board, fit, pc, plan, mem, prepared, recorded>>

\* Mutant: the control DTB is cleaned without the slack it has grown into.
CleanTables_NoSlack ==
    /\ pc = "clean" /\ i > Len(plan.images)
    /\ dirty' = {a \in dirty : ~In(a, ControlFdt, ControlFdtEnd - DtbSlack)
                               /\ ~In(a, board.params, ParamsEnd)}
    /\ Goto("jump")
    /\ UNCHANGED <<board, fit, plan, mem, prepared, recorded>>

CleanTables ==
    /\ pc = "clean" /\ i > Len(plan.images)
    /\ dirty' = {a \in dirty : ~In(a, ControlFdt, ControlFdtEnd)
                               /\ ~In(a, board.params, ParamsEnd)}
    /\ Goto("jump")
    /\ UNCHANGED <<board, fit, plan, mem, prepared, recorded>>

\* chain_jump_bl31: caches and MMU off, branch to BL31.
JumpBl31 ==
    /\ pc = "jump"
    /\ Goto("bl31")
    /\ UNCHANGED <<board, fit, plan, mem, dirty, prepared, recorded>>

\* BL31 owns the machine, or the stage spins in halt() until the reset.
Halted == pc \in {"bl31", "recovered"} /\ UNCHANGED vars

Next ==
    \/ CheckPolicy \/ StageFit \/ ParseTree \/ AddImage \/ CheckLayout
    \/ PrepareHandoff \/ LoadImage \/ OpenControlDtb \/ RecordImage
    \/ BuildParams \/ CleanImage \/ CleanTables \/ JumpBl31 \/ Halted

Spec == Init /\ [][Next]_vars

\* The stage is the only code running: it never stops between two steps.
FairSpec == Spec /\ WF_vars(Next)
-----------------------------------------------------------------------------
(***************************************************************************)
(* What a board port has to review, beyond what fit.c checks at run time:  *)
(* the permitted BL31 ranges, the BL33 window, the staging arena and the   *)
(* parameters leave the stage and its stack alone; BL31 never loads into   *)
(* the BL33 window, where the control DTB goes; no permitted range is      *)
(* cached in part.                                                         *)
(***************************************************************************)
LeavesStage(b, start, end) ==
    /\ ~Overlap(start, end, 0, b.loaderEnd)
    /\ ~Overlap(start, end, b.stackStart, b.stackEnd)

ReviewedLayout(b) ==
    /\ LeavesStage(b, b.stageStart, b.stageEnd)
    /\ LeavesStage(b, b.params, b.params + ParamsReserve)
    /\ LeavesStage(b, b.bl33Entry, b.bl33Limit)
    /\ b.bl33Limit <= CacheLimit
    /\ \A r \in b.ranges :
         /\ LeavesStage(b, r.start, r.end)
         /\ ~Overlap(r.start, r.end, b.bl33Entry, b.bl33Limit)
         /\ r.end <= CacheLimit \/ CacheLimit <= r.start

-----------------------------------------------------------------------------
(***************************************************************************)
(* Properties.                                                             *)
(***************************************************************************)
Content == {"fit", "old", "slack", "params"} \X Nat

ImageType == [name : STRING, role : {"BL31", "BL33", "FDT"}, off : Nat,
              size : Nat \ {0}, load : Addr, record : BOOLEAN]

PlanType == [images : Seq(ImageType), bl31Entry : Addr, bl33 : Nat, fdt : Nat]

Stages == {"policy", "stage", "parse", "images", "prepare", "load", "record",
           "clean", "jump", "bl31", "recovered"}

\* The type of every variable of the stage.
TypeOK ==
    /\ board \in Boards /\ fit \in Fits
    /\ pc \in Stages /\ i \in Nat \ {0}
    /\ plan \in PlanType
    /\ mem \in [Addr -> Content]
    /\ dirty \subseteq Addr
    /\ prepared \in BOOLEAN
    /\ recorded \subseteq STRING

Holds(start, off, size) ==
    \A k \in 0 .. size - 1 : mem[start + k] = <<"fit", off + k>>

\* Once chain_fit_load and chain_build_bl31_params are done, every BL31
\* segment, U-Boot, the control DTB and the parameters are in memory byte for
\* byte as they were verified: no later copy has run over an earlier one.
HandoffIntact ==
    pc \in {"clean", "jump", "bl31"} =>
        /\ \A k \in Placed : Holds(plan.images[k].load, plan.images[k].off,
                                   plan.images[k].size)
        /\ Holds(ControlFdt, plan.images[plan.fdt].off, plan.images[plan.fdt].size)
        /\ \A k \in 0 .. ParamsReserve - 1 : mem[board.params + k] = <<"params", k>>

\* Until the whole FIT is verified and the platform prepared, also when the
\* stage gives up before that, nothing outside the staging arena is written.
FailClosed ==
    ~prepared => \A a \in Addr :
        ~In(a, board.stageStart, board.stageEnd) => mem[a] = PowerOn(board, fit)[a]

\* The running stage and its stack are never overwritten by what it loads.
StageIntact ==
    \A a \in Addr : In(a, 0, board.loaderEnd) \/ In(a, board.stackStart, board.stackEnd)
                    => mem[a] = PowerOn(board, fit)[a]

Live == {a \in Addr :
    \/ \E k \in Placed : In(a, plan.images[k].load, End(plan.images[k]))
    \/ In(a, ControlFdt, ControlFdtEnd)
    \/ In(a, board.params, ParamsEnd)}

\* BL31 starts with the caches off: none of what it and U-Boot read is still
\* only in the cache.
CoherentHandoff == pc \in {"jump", "bl31"} => dirty \cap Live = {}

\* The control DTB U-Boot gets lists every loaded image but the primary one,
\* and nothing that was not loaded.
LoadablesRecorded ==
    pc \in {"clean", "jump", "bl31"} =>
        recorded = {fit.loadables[k] : k \in {l \in DOMAIN fit.loadables :
                        fit.nodes[fit.loadables[l]].type # "flat_dt"}}
                   \cup (IF fit.nodes[fit.fdt].type # "flat_dt" THEN {fit.fdt} ELSE {})

\* Every run of the stage ends, in BL31 or in the reset to MaskROM.
Terminates == <>(pc \in {"bl31", "recovered"})

(***************************************************************************)
(* The stage implements VerifiedBoot.  What must be in place is fixed when *)
(* the platform is prepared; an item is in place when its bytes are the    *)
(* verified ones and are in DRAM.                                          *)
(***************************************************************************)
InDram(start, size) == \A k \in 0 .. size - 1 : start + k \notin dirty

Needed ==
    IF prepared
    THEN {<<"image", k>> : k \in Placed} \cup {<<"control", 0>>, <<"params", 0>>}
    ELSE {}

InPlace ==
    {x \in Needed :
        \/ /\ x[1] = "image"
           /\ LET image == plan.images[x[2]] IN
                /\ Holds(image.load, image.off, image.size)
                /\ InDram(image.load, image.size)
        \/ /\ x[1] = "control"
           /\ LET dtb == plan.images[plan.fdt] IN
                /\ Holds(ControlFdt, dtb.off, dtb.size)
                /\ InDram(ControlFdt, dtb.size + DtbSlack)
        \/ /\ x[1] = "params"
           /\ \A k \in 0 .. ParamsReserve - 1 : mem[board.params + k] = <<"params", k>>
           /\ InDram(board.params, ParamsReserve)}

Phase == IF pc = "recovered" THEN "rejected"
         ELSE IF pc = "bl31" THEN "entered"
         ELSE IF prepared THEN "placing" ELSE "verifying"

Boot == INSTANCE VerifiedBoot WITH phase <- Phase, needed <- Needed, placed <- InPlace

\* The stage implements the contract of a verified boot.
ImplementsVerifiedBoot == Boot!Spec
=============================================================================
