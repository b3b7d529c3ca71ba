------------------------------- MODULE Firmware -------------------------------
(***************************************************************************)
(* The normal RK356x firmware after its hardware is up: the start of the   *)
(* payload appended to its image (rk356x/board.c, firmware.c) and the      *)
(* calls by which the payload asks for memory, screens and the device tree *)
(* (board.c, rk356x/io.c), over the DRAM detection and the map builder.    *)
(*                                                                         *)
(* The payload may use whatever memory the answers call free, while the    *)
(* firmware keeps using its own and reads some of it again at every call.  *)
(***************************************************************************)
EXTENDS MemoryMap, DramLayout

CONSTANTS
    ImageEnd,       \* _end_of_image, where the payload is appended
    MemTop,         \* the addresses whose contents are tracked: 0..MemTop-1
    HeaderSize,     \* sizeof(struct FuPayloadHeader)
    Block,          \* 2 MiB, the granularity of the page tables
    Inputs,         \* what the firmware may find: registers, tags, payload, dtb
    MaxCalls, MaxWrites     \* bounds of a behaviour

\* The image is below 2 MiB, and the ranges are apart from each other.
ASSUME LayoutAssumption ==
    /\ ImageEnd \in Nat /\ ImageEnd < LowEnd /\ ImageEnd < MemTop
    /\ MemTop \in Nat /\ HeaderSize \in Nat \ {0} /\ Block \in Nat \ {0}
    /\ LowEnd <= Payload /\ Payload < StackBottom /\ StackBottom < StackTop
    /\ StackTop <= DmaStart /\ DmaStart <= Dtb /\ Dtb < Shared /\ Shared < DmaEnd
    /\ DmaEnd <= FbStart /\ FbStart < FbEnd /\ FbEnd <= MmioStart /\ MmioStart <= Phys4G
    /\ 2 <= MaxBanks

\* The ranges that the page tables tell apart are of whole blocks, and the stack
\* begins at a page.  The contents of the arena are tracked.
ASSUME AlignmentAssumption ==
    /\ \A a \in {DmaStart, DmaEnd, FbStart, FbEnd, MmioStart} : a % Block = 0
    /\ StackBottom % Page = 0 /\ DmaEnd <= MemTop

\* Registers have numeric fields, and tag lists hold ranges of two words each.  A
\* payload is placed as docs/payloads.md wants it: at RK356X_PAYLOAD and below
\* the stacks, or with the image below 2 MiB.
ASSUME InputAssumption ==
    \A x \in Inputs :
        /\ {x.registers.version, x.registers.type, x.registers.type_high} \subseteq Nat
        /\ x.registers.lanes \in Seq(ChannelFields)
        /\ \A i \in DOMAIN x.tags : x.tags[i].kind = "ddr" => x.tags[i].banks \in Seq(WordBank)
        /\ x.dtb \in Nat /\ x.payload.size \in Nat
        /\ x.payload.magic =>
              /\ x.payload.size >= HeaderSize
              /\ IF x.payload.relocate
                 THEN x.payload.address = Payload /\ x.payload.size < StackBottom - Payload
                 ELSE ImageEnd + x.payload.size <= LowEnd

VARIABLES
    input,
    pc,             \* "detect", "dtb", "display", "start", "payload", "call",
                    \* "halted", "reset"
    mem,            \* the content of the tracked memory
    layout,         \* detected_layout, and whether layout_ready
    video,          \* rk356x_video.active
    entry,          \* where the payload was entered, with its exception level
    call,           \* the call being served
    held,           \* the pointers the payload was given, with what they pointed to
    calls, writes

vars == <<mapVars, input, pc, mem, layout, video, entry, call, held, calls, writes>>

NoLayout == [source |-> "none", total |-> 0, banks |-> <<>>]
NoEntry == [at |-> 0, el |-> 0]

\* The image with the payload behind it, and the rest of memory
Loaded(x) ==
    [a \in 0..(MemTop - 1) |->
        IF a < ImageEnd THEN <<"firmware", a>>
        ELSE IF a < ImageEnd + x.payload.size THEN <<"payload", a - ImageEnd>>
        ELSE <<"dram", a>>]

Init ==
    /\ MapInit
    /\ input \in Inputs
    /\ pc = "detect" /\ mem = Loaded(input)
    /\ layout = NoLayout /\ video = FALSE /\ entry = NoEntry
    /\ call = "none" /\ held = {} /\ calls = 0 /\ writes = 0

(***************************************************************************)
(* rk356x_board_entry                                                      *)
(***************************************************************************)
\* rk356x_get_dram_layout reads registers and tags once.
DetectDram ==
    /\ pc = "detect" /\ pc' = "dtb"
    /\ layout' = select_dram_layout(input.tags, input.registers)
    /\ UNCHANGED <<mapVars, input, mem, video, entry, call, held, calls, writes>>

\* rk356x_set_dtb cuts a tree that does not fit.
SetDtb ==
    LET size == IF input.dtb > Shared - Dtb THEN Shared - Dtb ELSE input.dtb
    IN  /\ pc = "dtb" /\ pc' = "display"
        /\ mem' = [a \in DOMAIN mem |->
                      IF Dtb <= a /\ a < Dtb + size THEN <<"dtb", a - Dtb>> ELSE mem[a]]
        /\ UNCHANGED <<mapVars, input, layout, video, entry, call, held, calls, writes>>

\* rk356x_display_init may fail, and the boot goes on.
InitDisplay ==
    /\ pc = "display" /\ pc' = "start"
    /\ video' \in BOOLEAN
    /\ UNCHANGED <<mapVars, input, mem, layout, entry, call, held, calls, writes>>

\* memcpy of lib.c, which goes upwards: a destination that begins inside the
\* source repeats the bytes before it.
Copy(dst, src, size) ==
    [a \in DOMAIN mem |->
        IF a < dst \/ a >= dst + size THEN mem[a]
        ELSE IF src < dst THEN mem[src + ((a - dst) % (dst - src))]
        ELSE mem[src + (a - dst)]]

\* Mutant: the header is taken to be copied already.
JumpToPayload_SkipHeader ==
    LET header == input.payload
        at == IF header.relocate THEN header.address ELSE ImageEnd
    IN  /\ pc = "start"
        /\ IF ~header.magic
           THEN pc' = "halted" /\ UNCHANGED <<mem, entry>>
           ELSE /\ pc' = "payload"
                /\ mem' = IF at = ImageEnd THEN mem
                          ELSE Copy(at + HeaderSize, ImageEnd, header.size - HeaderSize)
                /\ entry' = [at |-> at, el |-> IF at >= Payload THEN 2 ELSE 3]
        /\ UNCHANGED <<mapVars, input, layout, video, call, held, calls, writes>>

\* jump_to_payload.  bsod fills a framebuffer and halts.
JumpToPayload ==
    LET header == input.payload
        at == IF header.relocate THEN header.address ELSE ImageEnd
    IN  /\ pc = "start"
        /\ IF ~header.magic
           THEN pc' = "halted" /\ UNCHANGED <<mem, entry>>
           ELSE /\ pc' = "payload"
                /\ mem' = IF at = ImageEnd THEN mem ELSE Copy(at, ImageEnd, header.size)
                /\ entry' = [at |-> at, el |-> IF at >= Payload THEN 2 ELSE 3]
        /\ UNCHANGED <<mapVars, input, layout, video, call, held, calls, writes>>

(***************************************************************************)
(* process_firmware_call                                                   *)
(***************************************************************************)
\* Mutant: the page that the payload ends in is given away.
RoundUp_Down(x) == (x \div Page) * Page

RoundUp(x) == ((x + Page - 1) \div Page) * Page

\* Mutant: the header is read where the payload was relocated to.
PayloadEnd_Relocated ==
    LET size == input.payload.size
    IN  IF /\ mem[Payload] = <<"payload", 0>> /\ input.payload.magic
           /\ size >= HeaderSize /\ size < StackBottom - Payload
        THEN RoundUp(Payload + size) ELSE RoundUp(Payload)

\* payload_end of io.c reads the header behind the image at every call.
PayloadEnd ==
    LET size == input.payload.size
    IN  IF /\ mem[ImageEnd] = <<"payload", 0>> /\ input.payload.magic
           /\ size >= HeaderSize /\ size < StackBottom - Payload
        THEN RoundUp(Payload + size) ELSE RoundUp(Payload)

\* FU_GET_MEM_MAP and FU_GET_MEM_CHUNK both build the map again.
CallMap(which) ==
    /\ pc = "payload" /\ pc' = "call" /\ calls < MaxCalls
    /\ call' = which /\ calls' = calls + 1
    /\ BeginMap(layout.banks, PayloadEnd)
    /\ UNCHANGED <<input, mem, layout, video, entry, held, writes>>

Serve ==
    /\ pc = "call" /\ BuildMap
    /\ UNCHANGED <<input, pc, mem, layout, video, entry, call, held, calls, writes>>

Answer ==
    IF call = "map" THEN [of |-> "map", items |-> map]
    ELSE IF largest_low_free = 0 THEN [of |-> "nothing"]
    ELSE [of |-> "chunk", index |-> largest_low_free, item |-> map[largest_low_free]]

ReturnMap ==
    /\ pc = "call" /\ stage = "done" /\ pc' = "payload"
    /\ held' = held \union {Answer}
    /\ call' = "none"
    /\ UNCHANGED <<mapVars, input, mem, layout, video, entry, calls, writes>>

\* FU_GET_DTB and FU_GET_SCREEN_LIST.  The list is written before the map in
\* the shared page.
CallDtb ==
    /\ pc = "payload" /\ calls < MaxCalls /\ calls' = calls + 1
    /\ held' = held \union {[of |-> "dtb", first |-> mem[Dtb]]}
    /\ UNCHANGED <<mapVars, input, pc, mem, layout, video, entry, call, writes>>

CallScreens ==
    /\ pc = "payload" /\ calls < MaxCalls /\ calls' = calls + 1
    /\ mem' = [mem EXCEPT ![Shared] = <<"screens", video>>]
    /\ held' = held \union {[of |-> "screens", list |-> <<"screens", video>>]}
    /\ UNCHANGED <<mapVars, input, pc, layout, video, entry, call, writes>>

\* PSCI_SYSTEM_OFF and PSCI_SYSTEM_RESET both reset to MaskROM.
Reset ==
    /\ pc = "payload" /\ pc' = "reset"
    /\ UNCHANGED <<mapVars, input, mem, layout, video, entry, call, held, calls, writes>>

(***************************************************************************)
(* The payload, which uses the memory it was told it may use               *)
(***************************************************************************)
FreeItems(answer) ==
    CASE answer.of = "map" -> {answer.items[i] : i \in {k \in DOMAIN answer.items :
                                                        answer.items[k].flags = "unused"}}
      [] answer.of = "chunk" -> {answer.item}
      [] OTHER -> {}
FreeCells ==
    UNION {item.start..(item.end - 1) : item \in UNION {FreeItems(x) : x \in held}}

UseMemory ==
    /\ pc = "payload" /\ writes < MaxWrites
    /\ \E a \in FreeCells \intersect DOMAIN mem : mem' = [mem EXCEPT ![a] = <<"heap", a>>]
    /\ writes' = writes + 1
    /\ UNCHANGED <<mapVars, input, pc, layout, video, entry, call, held, calls>>

\* A relocated payload may change itself.  One that stays behind the image
\* must keep its header, which the firmware reads again.
ChangeItself ==
    /\ pc = "payload" /\ writes < MaxWrites /\ entry.at /= ImageEnd
    /\ mem' = [mem EXCEPT ![entry.at] = <<"changed", 0>>]
    /\ writes' = writes + 1
    /\ UNCHANGED <<mapVars, input, pc, layout, video, entry, call, held, calls>>

Next ==
    \/ DetectDram \/ SetDtb \/ InitDisplay \/ JumpToPayload
    \/ \E which \in {"map", "chunk"} : CallMap(which)
    \/ Serve \/ ReturnMap \/ CallDtb \/ CallScreens \/ Reset
    \/ UseMemory \/ ChangeItself

Spec == Init /\ [][Next]_vars

(***************************************************************************)
(* Properties                                                              *)
(***************************************************************************)
Cells(list) == UNION {list[i].start..(list[i].start + list[i].size - 1) : i \in DOMAIN list}

\* The decoded capacity is what the register fields say is installed, whenever
\* the second rank is no larger than the first and the sum is possible.
GeometryExact ==
    LET regs == input.registers
        decoded == decode_pmugrf(regs)
        known == DramType(regs) <= 10
                 /\ \A i \in DOMAIN regs.lanes : ChannelValid(regs, regs.lanes[i])
    IN  /\ decoded /= 0 => decoded = Installed(regs)
        /\ known /\ Installed(regs) \in KiB(30)..KiB(35) => decoded /= 0

\* The memory that a capacity stands for: what the MMIO window hides may be
\* found above 4 GiB.
Physical(capacity) ==
    {a \in 0..(capacity + Phys4G - MmioStart - 1) :
        IF capacity > MmioStart THEN a < MmioStart \/ a >= Phys4G ELSE a < capacity}

\* The geometry is exact, and it is the authority: with one, banks never leave the memory it
\* stands for, and a bank list from the tags is used only if it is all of it.
\* Without one the tags are used, and 1 GiB only without either.
CapacityHonoured ==
    /\ GeometryExact
    /\ pc /= "detect" =>
        LET capacity == Capacity(input.registers)
        IN  /\ \A i, j \in DOMAIN layout.banks :
                  i < j => layout.banks[i].start + layout.banks[i].size <= layout.banks[j].start
            /\ capacity /= 0 =>
                  /\ layout.total = capacity
                  /\ Cells(layout.banks) \subseteq Physical(capacity)
                  /\ layout.source = "atags" => Cells(layout.banks) = Physical(capacity)
            /\ layout.source = "fallback" => capacity = 0 /\ parse_atags(input.tags) = {}

\* A payload is entered with every byte it was built with.
PayloadIntact ==
    pc = "payload" /\ writes = 0 =>
        \A k \in 0..(input.payload.size - 1) : mem[entry.at + k] = <<"payload", k>>

\* A payload that uses the memory it was told is free never touches the
\* firmware, its stack, the shared arena, the shown picture or itself.
Owned ==
    (0..ImageEnd) \union (StackBottom..(StackTop - 1)) \union (DmaStart..(DmaEnd - 1))
        \union (IF video THEN FbStart..(FbEnd - 1) ELSE {})
        \union (entry.at..(entry.at + input.payload.size - 1))

FirmwareKept == \A a \in DOMAIN mem : mem[a] = <<"heap", a>> => a \notin Owned

\* firmware.h: "Structures/pointers returned from commands ... must always stay
\* intact": what a pointer pointed to is there again after every later call,
\* whatever the payload does with its memory meanwhile.
AnswersIntact ==
    pc = "payload" =>
        \A x \in held :
            /\ x.of = "map" => map = x.items
            /\ x.of = "chunk" => x.index \in DOMAIN map /\ map[x.index] = x.item
            /\ x.of = "dtb" => mem[Dtb] = x.first
            /\ x.of = "screens" => mem[Shared] = x.list

\* plat_setup_mmu
\* Mutant: the end of the DMA arena is left to the block after it.
Mapping_PartialBlock(a) ==
    LET address == a - (a % Block)
    IN  IF address >= MmioStart THEN "device"
        ELSE IF \/ DmaStart <= address /\ address + Block < DmaEnd
                \/ FbStart <= address /\ address < FbEnd
        THEN "noncacheable" ELSE "cacheable"

Mapping(a) ==
    LET address == a - (a % Block)
    IN  IF address >= MmioStart THEN "device"
        ELSE IF \/ DmaStart <= address /\ address < DmaEnd
                \/ FbStart <= address /\ address < FbEnd
        THEN "noncacheable" ELSE "cacheable"

\* The page tables and the map agree: no address reported as free memory is
\* mapped as device or uncached, and what other masters read is uncached.
MappedAsReported ==
    pc = "payload" /\ stage = "done" =>
        /\ \A i \in DOMAIN map : map[i].end <= Phys4G =>
              \A a \in map[i].start..(map[i].end - 1) :
                 CASE map[i].flags = "mmio" -> Mapping(a) = "device"
                   [] map[i].flags \in {"unused", "payload"} -> Mapping(a) = "cacheable"
                   [] map[i].flags = "framebuffer" -> Mapping(a) = "noncacheable"
                   [] OTHER -> TRUE
        /\ \A a \in DmaStart..(DmaEnd - 1) : Mapping(a) = "noncacheable"
        /\ \A a \in StackBottom..(StackTop - 1) : Mapping(a) = "cacheable"
=============================================================================
