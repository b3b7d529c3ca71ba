---------------------------- MODULE FirmwareProofs ----------------------------
(***************************************************************************)
(* Theorems about the normal firmware for any DRAM, any address map in     *)
(* order and any payload that is placed as docs/payloads.md wants it:      *)
(* every map handed out is faithful, memory that any answer called free is *)
(* never the firmware's, the payload's or the picture's, what an answer    *)
(* points to stays intact, the page tables agree with it, and the banks    *)
(* are those of the memory that is installed.                              *)
(***************************************************************************)
EXTENDS Firmware, MemoryMapProofs

Booting == {"detect", "dtb", "display", "start", "halted"}
Running == {"payload", "call", "reset"}

At == IF input.payload.relocate THEN input.payload.address ELSE ImageEnd

\* What an address must not be to be given away.
Between(a, low, high) == low <= a /\ a < high
Offerable(a) ==
    /\ a \in Nat /\ a >= LowEnd
    /\ ~Between(a, StackBottom, StackTop) /\ ~Between(a, DmaStart, DmaEnd)
    /\ ~Between(a, FbStart, FbEnd)
    /\ input.payload.relocate => ~Between(a, Payload, Payload + input.payload.size)

FwTypes ==
    /\ input \in Inputs /\ pc \in Booting \union Running
    /\ layout.banks \in BankLists
    /\ DOMAIN mem = 0..(MemTop - 1)

\* Before the payload runs nobody has been told of free memory.
BootInv ==
    pc \in Booting =>
        /\ held = {}
        /\ \A a, b \in 0..(MemTop - 1) : mem[a] /= <<"heap", b>>
EntryInv == pc \in Running => input.payload.magic /\ entry.at = At
\* The header behind the image outlives everything.
HeaderInv == input.payload.magic => mem[ImageEnd] = <<"payload", 0>>
CallInv ==
    pc = "call" /\ input.payload.relocate => payload_end >= Payload + input.payload.size
FreeInv == \A a \in FreeCells : Offerable(a)
HeapInv == \A a \in DOMAIN mem : mem[a] = <<"heap", a>> => Offerable(a)

FirmwareInv ==
    FwTypes /\ MapInv /\ BootInv /\ EntryInv /\ HeaderInv /\ CallInv /\ FreeInv /\ HeapInv

(***************************************************************************)
(* The least element of a set of ranges                                    *)
(***************************************************************************)
\* The first of the reserved ranges an address lies in is one of them.
LEMMA FirstIn ==
    ASSUME NEW C \in SUBSET Nat, C /= {}
    PROVE  (CHOOSE j \in C : \A k \in C : j <= k) \in C
BY LeastElement

\* rk356x_largest_low_free returns a free range, if there is any.
LEMMA LargestIsFree ==
    ASSUME MapTypes, LowFree /= {}
    PROVE  largest_low_free \in LowFree
<1>1. \A i \in LowFree : /\ i \in DOMAIN map /\ i \in Nat
                         /\ map[i].start \in Nat /\ map[i].end \in Nat
                         /\ map[i].end <= Phys4G
  <2> TAKE i \in LowFree
  <2>1. i \in DOMAIN map /\ map[i].end <= Phys4G
    BY DEF LowFree
  <2>2. map[i] \in Item /\ i \in Nat
    BY <2>1 DEF MapTypes
  <2> QED
    BY <2>1, <2>2 DEF Item
<1>2. \A i \in LowFree : Size(i) \in Int /\ Phys4G - Size(i) \in Nat
  BY <1>1, AddressAssumption DEF Size
<1>3. PICK m \in LowFree : \A j \in LowFree : Size(j) <= Size(m)
  <2> DEFINE T == {Phys4G - Size(i) : i \in LowFree}
  <2>1. T \in SUBSET Nat /\ T /= {}
    BY <1>2
  <2>2. PICK x \in T : \A y \in T : x <= y
    BY <2>1, LeastElement
  <2>3. PICK m \in LowFree : x = Phys4G - Size(m)
    BY <2>2
  <2>4. \A j \in LowFree : Phys4G - Size(m) <= Phys4G - Size(j)
    BY <2>2, <2>3
  <2> QED
    BY <1>2, <2>4, AddressAssumption
<1>4. PICK i \in LowFree : /\ Size(i) = Size(m)
                           /\ \A j \in LowFree : Size(j) = Size(m) => i <= j
  <2> DEFINE U == {j \in LowFree : Size(j) = Size(m)}
  <2>1. U \in SUBSET Nat /\ U /= {}
    BY <1>1
  <2>2. PICK i \in U : \A j \in U : i <= j
    BY <2>1, LeastElement
  <2> QED
    BY <2>2
<1>5. \A j \in LowFree : Size(j) < Size(i) \/ (Size(j) = Size(i) /\ i <= j)
  BY <1>2, <1>3, <1>4
<1> QED
  BY <1>4, <1>5 DEF largest_low_free

(***************************************************************************)
(* payload_end                                                             *)
(***************************************************************************)
\* Rounding up to a page never goes below.
LEMMA RoundUpBound ==
    ASSUME NEW x \in Nat
    PROVE  RoundUp(x) \in Nat /\ RoundUp(x) >= x
<1> DEFINE q == (x + Page - 1) \div Page
<1>1. Page \in Nat /\ Page > 0
  BY AddressAssumption
<1>2. q \in Nat /\ x + Page - 1 = q * Page + ((x + Page - 1) % Page)
  BY <1>1
<1>3. (x + Page - 1) % Page \in 0..(Page - 1)
  BY <1>1
<1>4. q * Page \in Nat
  BY <1>1, <1>2
<1> QED
  BY <1>1, <1>2, <1>3, <1>4 DEF RoundUp

(***************************************************************************)
(* The bank list                                                           *)
(***************************************************************************)
LEMMA CapacityType ==
    ASSUME NEW regs
    PROVE  Capacity(regs) \in Nat /\ Fallback \in Nat
<1>1. KiB(30) = 1048576
  BY DEF KiB
<1>2. decode_pmugrf(regs) \in Nat
  <2> DEFINE total == Sum([i \in DOMAIN regs.lanes |-> ChannelSize(regs, regs.lanes[i])])
  <2>1. \/ decode_pmugrf(regs) = total /\ total \in KiB(30)..KiB(35)
        \/ decode_pmugrf(regs) = 0
    BY DEF decode_pmugrf
  <2> QED
    BY <1>1, <2>1
<1> QED
  BY <1>1, <1>2, AddressAssumption DEF Capacity, Fallback

LEMMA SynthesizedBanks ==
    ASSUME NEW capacity \in Nat
    PROVE  synthesize_geometry(capacity) \in BankLists
<1> DEFINE low == [start |-> 0, size |-> IF capacity < MmioStart THEN capacity ELSE MmioStart]
           high == [start |-> Phys4G, size |-> capacity - Phys4G]
           first == IF capacity = 0 THEN <<>> ELSE <<low>>
           second == IF capacity > Phys4G THEN <<high>> ELSE <<>>
<1>1. low \in Bank /\ (capacity > Phys4G => high \in Bank)
  BY AddressAssumption DEF Bank
<1>2. first \in Seq(Bank) /\ Len(first) <= 1
  BY <1>1
<1>3. second \in Seq(Bank) /\ Len(second) <= 1
  BY <1>1
<1>4. synthesize_geometry(capacity) = first \o second
  BY DEF synthesize_geometry
<1> HIDE DEF first, second
<1>5. first \o second \in Seq(Bank) /\ Len(first \o second) <= 2
  <2>1. Len(first) \in Nat /\ Len(second) \in Nat
    BY <1>2, <1>3
  <2> QED
    BY <1>2, <1>3, <2>1
<1>6. Len(first \o second) <= MaxBanks
  <2>1. Len(first \o second) \in Nat /\ MaxBanks \in Nat
    BY <1>5, AddressAssumption
  <2> QED
    BY <1>5, <2>1, LayoutAssumption
<1> QED
  BY <1>4, <1>5, <1>6 DEF BankLists

\* Whichever source is chosen, the layout is a list of at most MaxBanks ranges.
LEMMA LayoutType ==
    ASSUME NEW x \in Inputs
    PROVE  select_dram_layout(x.tags, x.registers).banks \in BankLists
<1> DEFINE parsed == parse_atags(x.tags)
           geometry == Capacity(x.registers)
           matching == {b \in parsed : atags_match_geometry(b, geometry)}
<1>1. \A b \in parsed : b \in BankLists
  <2> SUFFICES ASSUME NEW i \in DOMAIN x.tags, x.tags[i].kind = "ddr",
                      BanksValid(x.tags[i].banks)
               PROVE  x.tags[i].banks \in BankLists
    BY DEF parse_atags
  <2>1. x.tags[i].banks \in Seq(WordBank)
    BY InputAssumption
  <2>2. x.tags[i].banks \in Seq(Bank)
    <3>1. WordBank \subseteq Bank
      BY AddrModAssumption DEF WordBank, Bank
    <3> QED
      BY <2>1, <3>1
  <2> QED
    BY <2>2, AddressAssumption DEF BanksValid, BankLists
<1>2. matching /= {} => (CHOOSE b \in matching : TRUE) \in BankLists
  <2>1. matching /= {} => (CHOOSE b \in matching : TRUE) \in matching
    OBVIOUS
  <2> QED
    BY <1>1, <2>1
<1>3. parsed /= {} => (CHOOSE b \in parsed : TRUE) \in BankLists
  <2>1. parsed /= {} => (CHOOSE b \in parsed : TRUE) \in parsed
    OBVIOUS
  <2> QED
    BY <1>1, <2>1
<1>4. /\ synthesize_geometry(geometry) \in BankLists
      /\ synthesize_geometry(Fallback) \in BankLists
  BY CapacityType, SynthesizedBanks
<1> HIDE DEF parsed, geometry
<1>5. select_dram_layout(x.tags, x.registers).banks =
        IF geometry /= 0 /\ matching /= {} THEN CHOOSE b \in matching : TRUE
        ELSE IF geometry /= 0 THEN synthesize_geometry(geometry)
        ELSE IF parsed /= {} THEN CHOOSE b \in parsed : TRUE
        ELSE synthesize_geometry(Fallback)
  BY DEF select_dram_layout, parsed, geometry
<1> HIDE DEF matching
<1> QED
  BY <1>2, <1>3, <1>4, <1>5

(***************************************************************************)
(* What the answers offer                                                  *)
(***************************************************************************)
\* An address that the map calls unused is in none of the reserved ranges.
LEMMA UnusedIsApart ==
    ASSUME MapTypes, NEW a \in Nat, FlagsAt(a) = "unused", NEW j \in 1..5
    PROVE  ~(Reserved[j].start <= a /\ a < Reserved[j].end)
<1> DEFINE inside == {k \in DOMAIN Reserved : Reserved[k].start <= a /\ a < Reserved[k].end}
           first == CHOOSE k \in inside : \A l \in inside : k <= l
<1> SUFFICES ASSUME j \in inside
             PROVE  FALSE
  BY RangeFacts
<1>1. inside \in SUBSET (1..5)
  BY RangeFacts
<1>2. first \in inside
  BY <1>1, FirstIn
<1>3. \A k \in 1..5 : Reserved[k].flags /= "unused"
  BY DEF Reserved
<1>4. Reserved[first].flags /= "unused"
  BY <1>1, <1>2, <1>3
<1>5. FlagsAt(a) = IF MmioStart <= a /\ a < Phys4G THEN "mmio"
                   ELSE IF ~\E i \in DOMAIN banks : InBank(a, banks[i]) THEN "none"
                   ELSE IF inside = {} THEN "unused" ELSE Reserved[first].flags
  BY DEF FlagsAt
<1> HIDE DEF inside, first
<1> QED
  BY <1>4, <1>5

\* What InputAssumption says of the payload and the tree.
PlacedFacts(x) ==
    /\ x.payload.size \in Nat /\ x.dtb \in Nat
    /\ x.payload.magic =>
          /\ x.payload.size >= HeaderSize
          /\ IF x.payload.relocate
             THEN x.payload.address = Payload /\ x.payload.size < StackBottom - Payload
             ELSE ImageEnd + x.payload.size <= LowEnd

\* The input is one of Inputs.
LEMMA InputFacts ==
    ASSUME FwTypes
    PROVE  PlacedFacts(input)
BY InputAssumption DEF FwTypes, PlacedFacts

\* A finished map calls nothing unused that must not be given away.
LEMMA UnusedIsOfferable ==
    ASSUME FwTypes, MapInv, stage = "done", CallInv, pc = "call",
           NEW i \in DOMAIN map, map[i].flags = "unused",
           NEW a \in map[i].start..(map[i].end - 1)
    PROVE  Offerable(a)
<1>1. MapTypes /\ Truthful(map)
  BY DEF MapInv, DoneInv, Canonical
<1>2. map[i].start \in Nat /\ map[i].end \in Nat
  <2>1. map[i] \in Item
    BY <1>1 DEF MapTypes
  <2> QED
    BY <2>1 DEF Item
<1>3. a \in Nat
  BY <1>2
<1>4. FlagsAt(a) = "unused"
  BY <1>1 DEF Truthful
<1>5. \A j \in 1..5 : ~(Reserved[j].start <= a /\ a < Reserved[j].end)
  BY <1>1, <1>3, <1>4, UnusedIsApart
<1>6. /\ ~(0 <= a /\ a < LowEnd) /\ ~(Payload <= a /\ a < payload_end)
      /\ ~Between(a, StackBottom, StackTop) /\ ~Between(a, DmaStart, DmaEnd)
      /\ ~Between(a, FbStart, FbEnd)
  <2>1. /\ Reserved[1].start = 0 /\ Reserved[1].end = LowEnd
        /\ Reserved[2].start = Payload /\ Reserved[2].end = payload_end
        /\ Reserved[3].start = StackBottom /\ Reserved[3].end = StackTop
        /\ Reserved[4].start = DmaStart /\ Reserved[4].end = DmaEnd
        /\ Reserved[5].start = FbStart /\ Reserved[5].end = FbEnd
    BY DEF Reserved
  <2>2. 1 \in 1..5 /\ 2 \in 1..5 /\ 3 \in 1..5 /\ 4 \in 1..5 /\ 5 \in 1..5
    OBVIOUS
  <2> QED
    BY <1>5, <2>1, <2>2 DEF Between
<1>7. a >= LowEnd
  BY <1>3, <1>6, AddressAssumption
<1>8. input.payload.relocate => ~Between(a, Payload, Payload + input.payload.size)
  <2> SUFFICES ASSUME input.payload.relocate, Between(a, Payload, Payload + input.payload.size)
               PROVE  FALSE
    OBVIOUS
  <2>1. payload_end >= Payload + input.payload.size
    BY DEF CallInv
  <2>2. input.payload.size \in Nat /\ Payload \in Nat /\ payload_end \in Nat
    BY <1>1, InputFacts, AddressAssumption DEF PlacedFacts, MapTypes
  <2> QED
    BY <1>3, <1>6, <2>1, <2>2 DEF Between
<1> QED
  BY <1>3, <1>6, <1>7, <1>8 DEF Offerable

(***************************************************************************)
(* The invariant                                                           *)
(***************************************************************************)
LEMMA FwInit == Init => FirmwareInv
<1> SUFFICES ASSUME Init
             PROVE  FirmwareInv
  OBVIOUS
<1>1. MapInv
  BY InitInv DEF Init
<1>2. FwTypes
  <2>1. layout.banks = <<>>
    BY DEF Init, NoLayout
  <2>2. layout.banks \in BankLists
    BY <2>1, AddressAssumption DEF BankLists
  <2>3. DOMAIN mem = 0..(MemTop - 1)
    BY DEF Init, Loaded
  <2> QED
    BY <2>2, <2>3 DEF Init, FwTypes, Booting
<1>3. \A a, b \in 0..(MemTop - 1) : mem[a] /= <<"heap", b>>
  <2> TAKE a, b \in 0..(MemTop - 1)
  <2>1. mem[a] \in {<<"firmware", a>>, <<"payload", a - ImageEnd>>, <<"dram", a>>}
    BY DEF Init, Loaded
  <2> QED
    BY <2>1
<1>4. BootInv
  BY <1>3 DEF Init, BootInv
<1>5. HeaderInv
  <2> SUFFICES ASSUME input.payload.magic
               PROVE  mem[ImageEnd] = <<"payload", 0>>
    BY DEF HeaderInv
  <2>1. input.payload.size >= HeaderSize /\ input.payload.size \in Nat
    BY <1>2, InputFacts DEF PlacedFacts
  <2>2. /\ ImageEnd \in 0..(MemTop - 1) /\ ~(ImageEnd < ImageEnd)
        /\ ImageEnd < ImageEnd + input.payload.size /\ ImageEnd - ImageEnd = 0
    BY <2>1, LayoutAssumption
  <2> QED
    BY <2>2 DEF Init, Loaded
<1>6. FreeInv /\ HeapInv
  <2>1. FreeCells = {}
    BY DEF Init, FreeCells
  <2> QED
    BY <1>2, <1>3, <2>1 DEF FreeInv, HeapInv, FwTypes
<1> QED
  BY <1>1, <1>2, <1>4, <1>5, <1>6
  DEF FirmwareInv, EntryInv, CallInv, Init, Running, Booting

\* The input never changes, so neither does what may be given away.
LEMMA SameInput ==
    ASSUME input' = input
    PROVE  At' = At /\ \A a : Offerable(a)' <=> Offerable(a)
BY DEF At, Offerable, Between

\* Steps that leave memory and answers alone.
LEMMA QuietStep ==
    ASSUME FirmwareInv, UNCHANGED <<input, mem, held>>
    PROVE  /\ HeaderInv' /\ FreeInv' /\ HeapInv'
           /\ DOMAIN mem' = 0..(MemTop - 1) /\ input' \in Inputs
<1>1. FreeCells' = FreeCells
  BY DEF FreeCells
<1> QED
  BY <1>1, SameInput DEF FirmwareInv, FwTypes, HeaderInv, FreeInv, HeapInv

\* The steps of the boot before the payload is started
LEMMA BootSteps ==
    ASSUME FirmwareInv, DetectDram \/ InitDisplay
    PROVE  FirmwareInv'
<1>1. UNCHANGED <<mapVars, input, mem, held>> /\ pc \in Booting /\ pc' \in Booting
  BY DEF DetectDram, InitDisplay, Booting
<1>2. layout'.banks \in BankLists
  BY LayoutType DEF FirmwareInv, FwTypes, DetectDram, InitDisplay
<1>3. MapInv'
  BY <1>1, NextInv DEF FirmwareInv
<1>4. FwTypes'
  BY <1>1, <1>2, QuietStep DEF FwTypes
<1>5. BootInv'
  BY <1>1 DEF FirmwareInv, BootInv
<1>6. EntryInv' /\ CallInv'
  BY <1>1 DEF EntryInv, CallInv, Booting, Running
<1> QED
  BY <1>1, <1>3, <1>4, <1>5, <1>6, QuietStep DEF FirmwareInv

\* rk356x_set_dtb writes above the image.
LEMMA SetDtbStep ==
    ASSUME FirmwareInv, SetDtb
    PROVE  FirmwareInv'
<1>1. /\ UNCHANGED <<mapVars, input, held, layout>> /\ pc \in Booting /\ pc' \in Booting
      /\ FwTypes /\ BootInv /\ HeaderInv
  BY DEF FirmwareInv, SetDtb, Booting
<1>2. /\ DOMAIN mem' = DOMAIN mem
      /\ \A a \in DOMAIN mem : mem'[a] = mem[a] \/ mem'[a] = <<"dtb", a - Dtb>>
      /\ \A a \in DOMAIN mem : a < Dtb => mem'[a] = mem[a]
  <2> DEFINE size == IF input.dtb > Shared - Dtb THEN Shared - Dtb ELSE input.dtb
  <2>1. mem' = [a \in DOMAIN mem |->
                   IF Dtb <= a /\ a < Dtb + size THEN <<"dtb", a - Dtb>> ELSE mem[a]]
    BY DEF SetDtb
  <2>2. \A a \in DOMAIN mem : a < Dtb => ~(Dtb <= a)
    BY <1>1, AddressAssumption DEF FwTypes
  <2> QED
    BY <2>1, <2>2
<1>3. MapInv'
  BY <1>1, NextInv DEF FirmwareInv
<1>4. FwTypes'
  BY <1>1, <1>2 DEF FwTypes
<1>5. \A a, b \in 0..(MemTop - 1) : mem'[a] /= <<"heap", b>>
  BY <1>1, <1>2 DEF FwTypes, BootInv
<1>6. BootInv'
  BY <1>1, <1>5 DEF BootInv
<1>7. HeaderInv'
  <2>1. ImageEnd \in 0..(MemTop - 1) /\ ImageEnd < Dtb
    BY LayoutAssumption, AddressAssumption
  <2> QED
    BY <1>1, <1>2, <2>1 DEF FwTypes, HeaderInv
<1>8. FreeInv' /\ HeapInv'
  <2>1. FreeCells' = {}
    BY <1>1 DEF BootInv, FreeCells
  <2> QED
    BY <1>4, <1>5, <2>1 DEF FreeInv, HeapInv, FwTypes
<1>9. EntryInv' /\ CallInv'
  BY <1>1 DEF EntryInv, CallInv, Booting, Running
<1> QED
  BY <1>3, <1>4, <1>6, <1>7, <1>8, <1>9 DEF FirmwareInv

\* The relocation writes above the image, and only what was in memory.
LEMMA JumpStep ==
    ASSUME FirmwareInv, JumpToPayload
    PROVE  FirmwareInv'
<1>1. /\ UNCHANGED <<mapVars, input, held, layout>> /\ pc = "start" /\ pc \in Booting
      /\ FwTypes /\ BootInv /\ HeaderInv
  BY DEF FirmwareInv, JumpToPayload, Booting
<1>2. MapInv'
  BY <1>1, NextInv DEF FirmwareInv
<1>3. CASE ~input.payload.magic
  <2>1. pc' = "halted" /\ UNCHANGED mem
    BY <1>3 DEF JumpToPayload
  <2>2. FwTypes' /\ BootInv'
    BY <1>1, <2>1 DEF FwTypes, BootInv, Booting
  <2>3. EntryInv' /\ CallInv'
    BY <2>1 DEF EntryInv, CallInv, Running
  <2> QED
    BY <1>1, <1>2, <2>1, <2>2, <2>3, QuietStep DEF FirmwareInv
<1>4. CASE input.payload.magic
  <2>1. /\ pc' = "payload" /\ entry'.at = At
        /\ mem' = IF At = ImageEnd THEN mem ELSE Copy(At, ImageEnd, input.payload.size)
    BY <1>4 DEF JumpToPayload, At
  <2>2. /\ input.payload.size \in Nat /\ At \in Nat /\ ImageEnd \in Nat
        /\ At /= ImageEnd => ImageEnd < At
    BY <1>1, <1>4, InputFacts, LayoutAssumption, AddressAssumption DEF PlacedFacts, At
  <2>3. ASSUME At /= ImageEnd
        PROVE  /\ DOMAIN mem' = DOMAIN mem
               /\ \A a \in DOMAIN mem : a < At => mem'[a] = mem[a]
               /\ \A a \in DOMAIN mem : \E b \in DOMAIN mem : mem'[a] = mem[b]
    <3>1. mem' = [a \in DOMAIN mem |->
                     IF a < At \/ a >= At + input.payload.size THEN mem[a]
                     ELSE mem[ImageEnd + ((a - At) % (At - ImageEnd))]]
      BY <2>1, <2>2, <2>3 DEF Copy
    <3>2. ASSUME NEW a \in DOMAIN mem, a >= At
          PROVE  ImageEnd + ((a - At) % (At - ImageEnd)) \in DOMAIN mem
      <4>1. a \in Nat /\ a <= MemTop - 1 /\ DOMAIN mem = 0..(MemTop - 1) /\ MemTop \in Nat
        BY <1>1, LayoutAssumption DEF FwTypes
      <4>2. a - At \in Nat /\ At - ImageEnd \in Nat /\ At - ImageEnd > 0
        BY <2>2, <2>3, <3>2, <4>1
      <4>3. (a - At) % (At - ImageEnd) \in 0..(At - ImageEnd - 1)
        BY <4>2
      <4> QED
        BY <2>2, <3>2, <4>1, <4>3
    <3>3. DOMAIN mem' = DOMAIN mem /\ \A a \in DOMAIN mem : a < At => mem'[a] = mem[a]
      BY <3>1
    <3>4. ASSUME NEW a \in DOMAIN mem
          PROVE  \E b \in DOMAIN mem : mem'[a] = mem[b]
      <4>1. CASE a < At \/ a >= At + input.payload.size
        BY <3>1, <4>1
      <4>2. CASE ~(a < At \/ a >= At + input.payload.size)
        <5>1. a >= At
          BY <1>1, <2>2, <4>2 DEF FwTypes
        <5>2. mem'[a] = mem[ImageEnd + ((a - At) % (At - ImageEnd))]
          BY <3>1, <4>2
        <5> QED
          BY <3>2, <5>1, <5>2
      <4> QED
        BY <4>1, <4>2
    <3> QED
      BY <3>3, <3>4
  <2>4. /\ DOMAIN mem' = DOMAIN mem
        /\ \A a \in DOMAIN mem : \E b \in DOMAIN mem : mem'[a] = mem[b]
    BY <2>1, <2>3
  <2>5. \A a, b \in 0..(MemTop - 1) : mem'[a] /= <<"heap", b>>
    BY <1>1, <2>4 DEF FwTypes, BootInv
  <2>6. HeaderInv'
    <3>1. ImageEnd \in DOMAIN mem
      BY <1>1, LayoutAssumption DEF FwTypes
    <3>2. mem'[ImageEnd] = mem[ImageEnd]
      BY <2>1, <2>2, <2>3, <3>1
    <3> QED
      BY <1>1, <3>2 DEF HeaderInv
  <2>7. FwTypes'
    BY <1>1, <2>1, <2>4 DEF FwTypes, Running
  <2>8. FreeInv' /\ HeapInv'
    <3>1. FreeCells' = {}
      BY <1>1 DEF BootInv, FreeCells
    <3> QED
      BY <2>5, <2>7, <3>1 DEF FreeInv, HeapInv, FwTypes
  <2>9. EntryInv' /\ BootInv' /\ CallInv'
    BY <1>1, <1>4, <2>1, SameInput DEF EntryInv, BootInv, CallInv, Booting
  <2> QED
    BY <1>2, <2>6, <2>7, <2>8, <2>9 DEF FirmwareInv
<1> QED
  BY <1>3, <1>4

\* A call that builds the map begins with the banks of the layout and an end of
\* the payload that is not too low, because the header is still there.
LEMMA CallMapStep ==
    ASSUME FirmwareInv, NEW which, CallMap(which)
    PROVE  FirmwareInv'
<1>1. /\ UNCHANGED <<input, mem, layout, entry, held>> /\ pc = "payload" /\ pc' = "call"
      /\ FwTypes /\ EntryInv /\ HeaderInv /\ MapInv
      /\ BeginMap(layout.banks, PayloadEnd)
  BY DEF FirmwareInv, CallMap
<1>2. /\ input.payload.magic /\ mem[ImageEnd] = <<"payload", 0>>
      /\ input.payload.size \in Nat /\ input.payload.size >= HeaderSize
      /\ input.payload.relocate => input.payload.size < StackBottom - Payload
  BY <1>1, InputFacts DEF EntryInv, HeaderInv, Running, PlacedFacts
<1>3. PayloadEnd \in Nat
  <2>1. Payload \in Nat /\ Payload + input.payload.size \in Nat
    BY <1>2, AddressAssumption
  <2> QED
    BY <2>1, RoundUpBound DEF PayloadEnd
<1>4. input.payload.relocate => PayloadEnd >= Payload + input.payload.size
  <2> SUFFICES ASSUME input.payload.relocate
               PROVE  PayloadEnd >= Payload + input.payload.size
    OBVIOUS
  <2>1. PayloadEnd = RoundUp(Payload + input.payload.size)
    BY <1>2 DEF PayloadEnd
  <2>2. Payload + input.payload.size \in Nat
    BY <1>2, AddressAssumption
  <2> QED
    BY <2>1, <2>2, RoundUpBound
<1>5. MapInv'
  BY <1>1, <1>3, BeginMapInv DEF FwTypes
<1>6. CallInv'
  <2>1. payload_end' = PayloadEnd
    BY <1>1 DEF BeginMap
  <2> QED
    BY <1>1, <1>4, <2>1 DEF CallInv
<1>7. FwTypes' /\ BootInv' /\ EntryInv'
  BY <1>1, SameInput DEF FwTypes, BootInv, EntryInv, Booting, Running
<1> QED
  BY <1>1, <1>5, <1>6, <1>7, QuietStep DEF FirmwareInv

\* The map is built while nothing else moves.
LEMMA ServeStep ==
    ASSUME FirmwareInv, Serve
    PROVE  FirmwareInv'
<1>1. /\ UNCHANGED <<input, pc, mem, layout, entry, held>> /\ pc = "call"
      /\ BuildMap /\ FwTypes /\ EntryInv /\ CallInv
  BY DEF FirmwareInv, Serve
<1>2. MapInv'
  BY <1>1, NextInv DEF FirmwareInv, MapNext
<1>3. payload_end' = payload_end
  BY <1>1 DEF BuildMap, AddRange, TableReady, MapInterval, MapReady
<1>4. FwTypes' /\ BootInv' /\ EntryInv' /\ CallInv'
  BY <1>1, <1>3, SameInput DEF FwTypes, BootInv, EntryInv, CallInv, Booting
<1> QED
  BY <1>1, <1>2, <1>4, QuietStep DEF FirmwareInv

\* An answer only calls free what the map calls unused.
LEMMA ReturnMapStep ==
    ASSUME FirmwareInv, ReturnMap
    PROVE  FirmwareInv'
<1>1. /\ UNCHANGED <<mapVars, input, mem, layout, entry>> /\ pc = "call" /\ pc' = "payload"
      /\ stage = "done" /\ held' = held \union {Answer}
      /\ FwTypes /\ MapInv /\ EntryInv /\ CallInv /\ FreeInv /\ HeaderInv /\ HeapInv
  BY DEF FirmwareInv, ReturnMap
<1>2. MapInv'
  BY <1>1, NextInv
<1>3. \A item \in FreeItems(Answer) :
         \E i \in DOMAIN map : item = map[i] /\ map[i].flags = "unused"
  <2>1. CASE call = "map"
    <3>1. Answer.of = "map" /\ Answer.items = map
      BY <2>1 DEF Answer
    <3>2. FreeItems(Answer) = {map[i] : i \in {k \in DOMAIN map : map[k].flags = "unused"}}
      BY <3>1 DEF FreeItems
    <3> QED
      BY <3>2
  <2>2. CASE call /= "map" /\ largest_low_free = 0
    <3>1. Answer.of = "nothing"
      BY <2>2 DEF Answer
    <3>2. FreeItems(Answer) = {}
      BY <3>1 DEF FreeItems
    <3> QED
      BY <3>2
  <2>3. CASE call /= "map" /\ largest_low_free /= 0
    <3>1. Answer.of = "chunk" /\ Answer.item = map[largest_low_free]
      BY <2>3 DEF Answer
    <3>2. FreeItems(Answer) = {map[largest_low_free]}
      BY <3>1 DEF FreeItems
    <3>3. LowFree /= {}
      BY <2>3 DEF largest_low_free
    <3>4. largest_low_free \in LowFree
      BY <1>1, <3>3, LargestIsFree DEF MapInv
    <3> QED
      BY <3>2, <3>4 DEF LowFree
  <2> QED
    BY <2>1, <2>2, <2>3
<1>4. FreeInv'
  <2> SUFFICES ASSUME NEW a \in FreeCells'
               PROVE  Offerable(a)
    BY <1>1, SameInput DEF FreeInv
  <2>4. PICK x \in held' : \E item \in FreeItems(x) : a \in item.start..(item.end - 1)
    BY DEF FreeCells
  <2>1. PICK item \in FreeItems(x) : a \in item.start..(item.end - 1)
    BY <2>4
  <2>2. CASE x \in held
    <3>1. a \in FreeCells
      BY <2>1, <2>2 DEF FreeCells
    <3> QED
      BY <1>1, <3>1 DEF FreeInv
  <2>3. CASE x = Answer
    <3>1. PICK i \in DOMAIN map : item = map[i] /\ map[i].flags = "unused"
      BY <1>3, <2>1, <2>3
    <3> QED
      BY <1>1, <2>1, <3>1, UnusedIsOfferable
  <2> QED
    BY <1>1, <2>4, <2>2, <2>3
<1>5. FwTypes' /\ BootInv' /\ EntryInv' /\ CallInv'
  BY <1>1, SameInput DEF FwTypes, BootInv, EntryInv, CallInv, Booting, Running
<1>6. HeaderInv' /\ HeapInv'
  BY <1>1, SameInput DEF HeaderInv, HeapInv
<1> QED
  BY <1>2, <1>4, <1>5, <1>6 DEF FirmwareInv

\* The other calls offer no memory.
LEMMA OtherCalls ==
    ASSUME FirmwareInv, CallDtb \/ CallScreens
    PROVE  FirmwareInv'
<1>1. /\ UNCHANGED <<mapVars, input, pc, layout, entry>> /\ pc = "payload"
      /\ FwTypes /\ EntryInv /\ FreeInv /\ HeaderInv /\ HeapInv
  BY DEF FirmwareInv, CallDtb, CallScreens
<1>2. MapInv'
  BY <1>1, NextInv DEF FirmwareInv
<1>3. PICK x : held' = held \union {x} /\ FreeItems(x) = {}
  <2>1. CASE CallDtb
    <3> DEFINE y == [of |-> "dtb", first |-> mem[Dtb]]
    <3>1. held' = held \union {y} /\ FreeItems(y) = {}
      BY <2>1 DEF CallDtb, FreeItems
    <3> QED
      BY <3>1
  <2>2. CASE CallScreens
    <3> DEFINE y == [of |-> "screens", list |-> <<"screens", video>>]
    <3>1. held' = held \union {y} /\ FreeItems(y) = {}
      BY <2>2 DEF CallScreens, FreeItems
    <3> QED
      BY <3>1
  <2> QED
    BY <2>1, <2>2
<1>4. FreeInv'
  <2>1. FreeCells' = FreeCells
    BY <1>3 DEF FreeCells
  <2> QED
    BY <1>1, <2>1, SameInput DEF FreeInv
<1>5. /\ DOMAIN mem' = DOMAIN mem
      /\ \A a \in DOMAIN mem : mem'[a] = mem[a] \/ (a = Shared /\ mem'[a] = <<"screens", video>>)
  BY DEF CallDtb, CallScreens
<1>6. HeaderInv' /\ HeapInv'
  <2>1. ImageEnd \in DOMAIN mem /\ ImageEnd /= Shared
    BY <1>1, LayoutAssumption, AddressAssumption DEF FwTypes
  <2>2. mem'[ImageEnd] = mem[ImageEnd]
    BY <1>5, <2>1
  <2>3. \A a \in DOMAIN mem : <<"screens", video>> /= <<"heap", a>>
    OBVIOUS
  <2> QED
    BY <1>1, <1>5, <2>2, <2>3, SameInput DEF HeaderInv, HeapInv
<1>7. FwTypes' /\ BootInv' /\ EntryInv' /\ CallInv'
  BY <1>1, <1>5, SameInput DEF FwTypes, BootInv, EntryInv, CallInv, Booting, Running
<1> QED
  BY <1>2, <1>4, <1>6, <1>7 DEF FirmwareInv

\* The payload writes where it was told it may, or over itself.
LEMMA PayloadSteps ==
    ASSUME FirmwareInv, UseMemory \/ ChangeItself
    PROVE  FirmwareInv'
<1>1. /\ UNCHANGED <<mapVars, input, pc, layout, entry, held>> /\ pc = "payload"
      /\ FwTypes /\ EntryInv /\ FreeInv /\ HeaderInv /\ HeapInv
  BY DEF FirmwareInv, UseMemory, ChangeItself
<1>2. MapInv'
  BY <1>1, NextInv DEF FirmwareInv
<1>3. FreeCells' = FreeCells
  BY <1>1 DEF FreeCells
<1>4. ImageEnd \in DOMAIN mem /\ ImageEnd < LowEnd /\ ImageEnd \in Nat /\ LowEnd \in Nat
  BY <1>1, LayoutAssumption, AddressAssumption DEF FwTypes
<1>5. CASE UseMemory
  <2>1. PICK a \in FreeCells \intersect DOMAIN mem : mem' = [mem EXCEPT ![a] = <<"heap", a>>]
    BY <1>5 DEF UseMemory
  <2>2. Offerable(a)
    BY <1>1, <2>1 DEF FreeInv
  <2>3. a /= ImageEnd
    BY <1>4, <2>2 DEF Offerable
  <2>4. DOMAIN mem' = DOMAIN mem /\ mem'[ImageEnd] = mem[ImageEnd]
    BY <1>4, <2>1, <2>3
  <2>5. HeapInv'
    <3> SUFFICES ASSUME NEW b \in DOMAIN mem, mem'[b] = <<"heap", b>>
                 PROVE  Offerable(b)
      BY <1>1, <2>4, SameInput DEF HeapInv
    <3>1. CASE b = a
      BY <2>2, <3>1
    <3>2. CASE b /= a
      BY <1>1, <2>1, <3>2 DEF HeapInv
    <3> QED
      BY <3>1, <3>2
  <2> QED
    BY <1>1, <1>2, <1>3, <2>4, <2>5, SameInput
    DEF FirmwareInv, FwTypes, BootInv, EntryInv, HeaderInv, CallInv, FreeInv, Booting
<1>6. CASE ChangeItself
  <2>1. /\ mem' = [mem EXCEPT ![entry.at] = <<"changed", 0>>] /\ entry.at /= ImageEnd
    BY <1>6 DEF ChangeItself
  <2>2. DOMAIN mem' = DOMAIN mem /\ mem'[ImageEnd] = mem[ImageEnd]
    BY <1>4, <2>1
  <2>3. \A b \in DOMAIN mem : mem'[b] = mem[b] \/ mem'[b] = <<"changed", 0>>
    BY <2>1
  <2>4. HeapInv'
    BY <1>1, <2>2, <2>3, SameInput DEF HeapInv
  <2> QED
    BY <1>1, <1>2, <1>3, <2>2, <2>4, SameInput
    DEF FirmwareInv, FwTypes, BootInv, EntryInv, HeaderInv, CallInv, FreeInv, Booting
<1> QED
  BY <1>5, <1>6

LEMMA ResetStep ==
    ASSUME FirmwareInv, Reset \/ UNCHANGED vars
    PROVE  FirmwareInv'
<1>1. /\ UNCHANGED <<mapVars, input, mem, layout, entry, held>>
      /\ pc' = pc \/ (pc = "payload" /\ pc' = "reset")
      /\ FwTypes /\ BootInv /\ EntryInv /\ CallInv
  BY DEF FirmwareInv, Reset, vars
<1>2. MapInv'
  BY <1>1, NextInv DEF FirmwareInv
<1>3. FwTypes' /\ BootInv' /\ EntryInv' /\ CallInv'
  BY <1>1, SameInput DEF FwTypes, BootInv, EntryInv, CallInv, Booting, Running, mapVars
<1> QED
  BY <1>1, <1>2, <1>3, QuietStep DEF FirmwareInv

\* Banks, table and map, header, answers and heap stay in step through every
\* boot, call and write of the payload.
THEOREM FirmwareInvariant == Spec => []FirmwareInv
<1>1. FirmwareInv /\ [Next]_vars => FirmwareInv'
  BY BootSteps, SetDtbStep, JumpStep, CallMapStep, ServeStep, ReturnMapStep, OtherCalls,
     PayloadSteps, ResetStep
  DEF Next
<1> QED
  BY <1>1, FwInit, PTL DEF Spec

\* Every map that the firmware builds for its payload is faithful.
THEOREM MapsAreFaithful == Spec => []MapFaithful
<1>1. FirmwareInv => MapFaithful
  BY InvImpliesFaithful DEF FirmwareInv
<1> QED
  BY <1>1, FirmwareInvariant, PTL

\* A payload that only uses memory called free never touches the firmware, its
\* stack, the shared arena, the shown picture or itself.
THEOREM FirmwareIsKept == Spec => []FirmwareKept
<1>1. FirmwareInv => FirmwareKept
  <2> SUFFICES ASSUME FirmwareInv, NEW a \in DOMAIN mem, mem[a] = <<"heap", a>>
               PROVE  a \notin Owned
    BY DEF FirmwareKept
  <2>1. Offerable(a) /\ FwTypes
    BY DEF FirmwareInv, HeapInv
  <2>2. pc \in Running
    BY <2>1 DEF FirmwareInv, BootInv, FwTypes
  <2>3. input.payload.magic /\ entry.at = At
    BY <2>2 DEF FirmwareInv, EntryInv
  <2>4. PlacedFacts(input)
    BY <2>1, InputFacts
  <2>5. a \notin 0..ImageEnd
    BY <2>1, LayoutAssumption, AddressAssumption DEF Offerable
  <2>6. /\ a \notin StackBottom..(StackTop - 1) /\ a \notin DmaStart..(DmaEnd - 1)
        /\ a \notin FbStart..(FbEnd - 1)
    BY <2>1, AddressAssumption DEF Offerable, Between
  <2>7. a \notin At..(At + input.payload.size - 1)
    <3>1. CASE input.payload.relocate
      <4>1. At = Payload /\ ~(Payload <= a /\ a < Payload + input.payload.size)
        BY <2>1, <2>3, <2>4, <3>1 DEF PlacedFacts, At, Offerable, Between
      <4> QED
        BY <2>1, <2>4, <4>1, AddressAssumption DEF PlacedFacts, Offerable
    <3>2. CASE ~input.payload.relocate
      <4>1. At = ImageEnd /\ ImageEnd + input.payload.size <= LowEnd /\ LowEnd <= a
        BY <2>1, <2>3, <2>4, <3>2, AddressAssumption DEF PlacedFacts, At, Offerable
      <4> QED
        BY <2>1, <2>4, <4>1, LayoutAssumption, AddressAssumption DEF PlacedFacts, Offerable
    <3> QED
      BY <3>1, <3>2
  <2> QED
    BY <2>3, <2>5, <2>6, <2>7 DEF Owned
<1> QED
  BY <1>1, FirmwareInvariant, PTL

(***************************************************************************)
(* Addresses and alignment                                                 *)
(***************************************************************************)
\* The order of the firmware's ranges
LEMMA LayoutOrder ==
    /\ ImageEnd \in Nat /\ LowEnd \in Nat /\ Payload \in Nat /\ StackBottom \in Nat
    /\ StackTop \in Nat /\ DmaStart \in Nat /\ Dtb \in Nat /\ Shared \in Nat
    /\ DmaEnd \in Nat /\ MemTop \in Nat
    /\ FbStart \in Nat /\ FbEnd \in Nat /\ MmioStart \in Nat /\ Phys4G \in Nat
    /\ ImageEnd < LowEnd /\ LowEnd <= Payload /\ Payload < StackBottom
    /\ StackBottom < StackTop /\ StackTop <= DmaStart /\ DmaStart <= Dtb
    /\ Dtb < Shared /\ Shared < DmaEnd /\ DmaEnd <= MemTop
    /\ DmaEnd <= FbStart /\ FbStart < FbEnd /\ FbEnd <= MmioStart /\ MmioStart <= Phys4G
<1>1. DmaEnd <= MemTop
  BY AlignmentAssumption
<1> QED
  BY <1>1, LayoutAssumption, AddressAssumption

\* An aligned bound separates blocks as it separates addresses.
LEMMA BlockBound ==
    ASSUME NEW x \in Nat, x % Block = 0, NEW a \in Nat
    PROVE  /\ a - (a % Block) \in Nat /\ a - (a % Block) <= a
           /\ x <= a - (a % Block) <=> x <= a
<1> DEFINE p == x \div Block
           q == a \div Block
<1>1. Block \in Nat /\ Block > 0
  BY LayoutAssumption
<1>2. p \in Nat /\ x = p * Block
  BY <1>1
<1>3. q \in Nat /\ a % Block \in 0..(Block - 1) /\ a = q * Block + (a % Block)
  BY <1>1
<1>4. a - (a % Block) = q * Block /\ q * Block \in Nat
  BY <1>1, <1>3
<1>5. p <= q => p * Block <= q * Block
  BY <1>1, <1>2, <1>3
<1>6. p >= q + 1 => p * Block >= q * Block + Block
  BY <1>1, <1>2, <1>3
<1> HIDE DEF p, q
<1>7. p <= q \/ p >= q + 1
  BY <1>2, <1>3
<1> QED
  BY <1>1, <1>2, <1>3, <1>4, <1>5, <1>6, <1>7

\* A page that begins below an aligned bound ends below it.
LEMMA RoundUpWithin ==
    ASSUME NEW x \in Nat, NEW s \in Nat, s % Page = 0, x <= s
    PROVE  RoundUp(x) <= s
<1> DEFINE q == (x + Page - 1) \div Page
           p == s \div Page
<1>1. Page \in Nat /\ Page > 0
  BY AddressAssumption
<1>2. p \in Nat /\ s = p * Page
  BY <1>1
<1>3. /\ q \in Nat /\ (x + Page - 1) % Page \in 0..(Page - 1)
      /\ x + Page - 1 = q * Page + ((x + Page - 1) % Page)
  BY <1>1
<1>4. q <= p => q * Page <= p * Page
  BY <1>1, <1>2, <1>3
<1>5. q >= p + 1 => q * Page >= p * Page + Page
  BY <1>1, <1>2, <1>3
<1>6. RoundUp(x) = q * Page
  BY DEF RoundUp
<1>7. q * Page \in Nat /\ p * Page \in Nat
  BY <1>1, <1>2, <1>3
<1> HIDE DEF p, q
<1>8. q <= p \/ q >= p + 1
  BY <1>2, <1>3
<1>9. q * Page <= x + Page - 1
  BY <1>3, <1>7, <1>1
<1> QED
  BY <1>1, <1>2, <1>4, <1>5, <1>6, <1>7, <1>8, <1>9

(***************************************************************************)
(* What the map is built from, and the answers that were given             *)
(***************************************************************************)
\* While its header is behind the image, a payload ends at the same page.
End ==
    IF input.payload.size < StackBottom - Payload
    THEN RoundUp(Payload + input.payload.size) ELSE RoundUp(Payload)

\* Every map is built from the layout of the boot.
SourceInv ==
    /\ pc \in Booting => stage = "idle"
    /\ pc = "payload" => stage \in {"idle", "done"}
    /\ pc = "call" => stage /= "idle"
    /\ stage /= "idle" => banks = layout.banks /\ payload_end = End

\* What was pointed to is what would be found now.
Kept(x) ==
    /\ x.of = "map" => stage /= "idle" /\ x.items \in Seq(Item) /\ Canonical(x.items)
    /\ x.of = "chunk" =>
          /\ stage /= "idle"
          /\ \E items \in Seq(Item) :
                Canonical(items) /\ x.index \in DOMAIN items /\ items[x.index] = x.item
    /\ x.of = "dtb" => mem[Dtb] = x.first
    /\ x.of = "screens" => x.list = <<"screens", video>> /\ mem[Shared] = x.list

\* The payload as it was built, where it is
Fits == input.payload.relocate => input.payload.size <= Payload - ImageEnd
BytesAt(at) == \A k \in 0..(input.payload.size - 1) : mem[at + k] = <<"payload", k>>
IntactInv ==
    /\ writes \in Nat
    /\ Fits /\ input.payload.magic =>
          /\ pc \in Booting => BytesAt(ImageEnd)
          /\ pc \in Running /\ writes = 0 => BytesAt(At)

AnswersInv == SourceInv /\ (\A x \in held : Kept(x)) /\ IntactInv

\* What the bytes of a payload are compared with stays the same.
LEMMA SameBytes ==
    ASSUME input' = input
    PROVE  /\ (Fits <=> Fits') /\ End' = End
           /\ \A at : mem' = mem => (BytesAt(at) <=> BytesAt(at)')
BY DEF Fits, End, BytesAt

\* An answer stays what it was while the map has the same sources and the tree
\* and the list are not written.
LEMMA KeptStays ==
    ASSUME UNCHANGED <<banks, payload_end, video>>, stage /= "idle" => stage' /= "idle",
           mem'[Dtb] = mem[Dtb], mem'[Shared] = mem[Shared], NEW x, Kept(x)
    PROVE  Kept(x)'
<1>1. \A items : Canonical(items) => Canonical(items)'
  <2>1. \A a : FlagsAt(a)' = FlagsAt(a)
    BY SameRanges
  <2> QED
    BY <2>1 DEF Canonical, Ordered, Truthful, Merged, Has
<1> QED
  BY <1>1 DEF Kept

LEMMA AnswersInit == Init => AnswersInv
<1> SUFFICES ASSUME Init
             PROVE  AnswersInv
  OBVIOUS
<1>1. SourceInv /\ held = {}
  BY DEF Init, MapInit, SourceInv, Booting, Running
<1>2. IntactInv
  <2> SUFFICES ASSUME Fits, input.payload.magic, NEW k \in 0..(input.payload.size - 1)
               PROVE  mem[ImageEnd + k] = <<"payload", k>>
    BY DEF Init, IntactInv, BytesAt, Booting, Running
  <2>1. PlacedFacts(input)
    BY FwInit, InputFacts DEF FirmwareInv
  <2>2. k \in Nat /\ k < input.payload.size /\ input.payload.size \in Nat
    BY <2>1 DEF PlacedFacts
  <2>3. ImageEnd + input.payload.size <= Payload
    BY <2>1, LayoutAssumption, AddressAssumption DEF PlacedFacts, Fits
  <2>4. /\ ImageEnd + k \in 0..(MemTop - 1) /\ ~(ImageEnd + k < ImageEnd)
        /\ ImageEnd + k < ImageEnd + input.payload.size /\ (ImageEnd + k) - ImageEnd = k
    BY <2>2, <2>3, LayoutOrder
  <2> QED
    BY <2>4 DEF Init, Loaded
<1> QED
  BY <1>1, <1>2 DEF AnswersInv

\* The steps of the boot before the payload is started
LEMMA AnswersBoot ==
    ASSUME FirmwareInv, AnswersInv, DetectDram \/ SetDtb \/ InitDisplay
    PROVE  AnswersInv'
<1>1. /\ UNCHANGED <<mapVars, input, held, writes>> /\ pc \in Booting /\ pc' \in Booting
      /\ held = {} /\ FwTypes /\ SourceInv /\ IntactInv
  BY DEF FirmwareInv, AnswersInv, DetectDram, SetDtb, InitDisplay, BootInv, Booting
<1>2. SourceInv'
  BY <1>1 DEF SourceInv, Booting, mapVars
<1>3. IntactInv'
  <2> SUFFICES ASSUME Fits, input.payload.magic, NEW k \in 0..(input.payload.size - 1)
               PROVE  mem'[ImageEnd + k] = <<"payload", k>>
    BY <1>1 DEF IntactInv, BytesAt, Fits, Booting, Running
  <2>1. PlacedFacts(input)
    BY <1>1, InputFacts
  <2>2. k \in Nat /\ k < input.payload.size /\ input.payload.size \in Nat
    BY <2>1 DEF PlacedFacts
  <2>3. ImageEnd + input.payload.size <= Payload
    BY <2>1, LayoutAssumption, AddressAssumption DEF PlacedFacts, Fits
  <2>4. ImageEnd + k \in DOMAIN mem /\ ImageEnd + k < Dtb /\ ~(Dtb <= ImageEnd + k)
    <3>1. ImageEnd + k \in Nat /\ ImageEnd + k < Payload
      BY <2>2, <2>3, LayoutOrder
    <3>2. ImageEnd + k < Dtb /\ ImageEnd + k < MemTop
      BY <3>1, LayoutOrder
    <3>3. DOMAIN mem = 0..(MemTop - 1)
      BY <1>1 DEF FwTypes
    <3> QED
      BY <3>1, <3>2, <3>3, LayoutOrder
  <2>5. mem[ImageEnd + k] = <<"payload", k>>
    BY <1>1 DEF IntactInv, BytesAt
  <2>6. CASE SetDtb
    BY <2>4, <2>5, <2>6 DEF SetDtb
  <2> QED
    BY <2>5, <2>6 DEF DetectDram, InitDisplay
<1> QED
  BY <1>1, <1>2, <1>3 DEF AnswersInv

\* A payload that is no longer than the way it is moved arrives whole.
LEMMA AnswersJump ==
    ASSUME FirmwareInv, AnswersInv, JumpToPayload
    PROVE  AnswersInv'
<1>1. /\ UNCHANGED <<mapVars, input, held, layout, writes>>
      /\ pc = "start" /\ pc \in Booting /\ held = {} /\ FwTypes /\ SourceInv /\ IntactInv
  BY DEF FirmwareInv, AnswersInv, JumpToPayload, BootInv, Booting
<1>2. pc' = IF input.payload.magic THEN "payload" ELSE "halted"
  BY DEF JumpToPayload
<1>3. SourceInv'
  BY <1>1, <1>2 DEF SourceInv, Booting, mapVars
<1>4. IntactInv'
  <2> SUFFICES ASSUME Fits, input.payload.magic, NEW k \in 0..(input.payload.size - 1)
               PROVE  mem'[At + k] = <<"payload", k>>
    BY <1>1, <1>2, SameInput DEF IntactInv, BytesAt, Fits, Booting, Running
  <2>1. PlacedFacts(input)
    BY <1>1, InputFacts
  <2>2. k \in Nat /\ k < input.payload.size /\ input.payload.size \in Nat
    BY <2>1 DEF PlacedFacts
  <2>3. mem[ImageEnd + k] = <<"payload", k>>
    BY <1>1 DEF IntactInv, BytesAt
  <2>4. mem' = IF At = ImageEnd THEN mem ELSE Copy(At, ImageEnd, input.payload.size)
    BY DEF JumpToPayload, At
  <2>5. CASE At = ImageEnd
    BY <2>3, <2>4, <2>5
  <2>6. CASE At /= ImageEnd
    <3>1. At = Payload /\ input.payload.size < StackBottom - Payload
      BY <2>1, <2>6 DEF At, PlacedFacts
    <3>2. input.payload.size <= Payload - ImageEnd /\ ImageEnd < Payload
      BY <2>6, LayoutAssumption, AddressAssumption DEF Fits, At
    <3>3. /\ At + k \in DOMAIN mem /\ ~(At + k < At) /\ ~(At + k >= At + input.payload.size)
          /\ (At + k) - At = k
      <4>1. At + k \in Nat /\ At + k < StackBottom
        BY <2>2, <3>1, LayoutOrder
      <4>2. At \in Nat /\ At + k < MemTop
        BY <3>1, <4>1, LayoutOrder
      <4>3. DOMAIN mem = 0..(MemTop - 1)
        BY <1>1 DEF FwTypes
      <4>4. At + k \in DOMAIN mem
        BY <4>1, <4>2, <4>3, LayoutOrder
      <4> QED
        BY <2>2, <4>2, <4>4
    <3>4. k % (At - ImageEnd) = k
      BY <2>2, <3>1, <3>2, LayoutAssumption, AddressAssumption
    <3> QED
      BY <2>3, <2>4, <2>6, <3>1, <3>2, <3>3, <3>4 DEF Copy
  <2> QED
    BY <2>5, <2>6
<1> QED
  BY <1>1, <1>3, <1>4 DEF AnswersInv

\* In a state where the payload runs, the header is there.
LEMMA EndOfPayload ==
    ASSUME FirmwareInv, pc \in Running
    PROVE  PayloadEnd = End
<1>1. /\ input.payload.magic /\ mem[ImageEnd] = <<"payload", 0>>
      /\ input.payload.size >= HeaderSize
  BY InputFacts DEF FirmwareInv, EntryInv, HeaderInv, PlacedFacts
<1> QED
  BY <1>1 DEF PayloadEnd, End

\* Steps that build a map: the first begins with the layout, the others find
\* it in place, so that what the earlier maps said is still so.
LEMMA AnswersCall ==
    ASSUME FirmwareInv, AnswersInv, (\E which : CallMap(which)) \/ Serve
    PROVE  AnswersInv'
<1>1. /\ UNCHANGED <<input, mem, layout, video, held, writes>>
      /\ pc \in {"payload", "call"} /\ pc' = "call" /\ SourceInv /\ IntactInv
      /\ UNCHANGED At
  BY DEF FirmwareInv, AnswersInv, CallMap, Serve, At
<1>2. /\ stage' /= "idle" /\ banks' = layout.banks /\ payload_end' = End
      /\ stage /= "idle" => UNCHANGED <<banks, payload_end>>
  <2>1. CASE \E which : CallMap(which)
    <3>1. pc = "payload" /\ BeginMap(layout.banks, PayloadEnd)
      BY <2>1 DEF CallMap
    <3>2. PayloadEnd = End
      BY <3>1, EndOfPayload DEF Running
    <3> QED
      BY <1>1, <3>1, <3>2 DEF BeginMap, SourceInv
  <2>2. CASE Serve
    <3>1. stage /= "idle" /\ banks = layout.banks /\ payload_end = End
      BY <1>1, <2>2 DEF Serve, SourceInv
    <3>2. UNCHANGED <<banks, payload_end>> /\ stage' /= "idle"
      BY <2>2, <3>1 DEF Serve, BuildMap, AddRange, TableReady, MapInterval, MapReady
    <3> QED
      BY <3>1, <3>2
  <2> QED
    BY <2>1, <2>2
<1>3. SourceInv'
  BY <1>1, <1>2, SameBytes DEF SourceInv, Booting
<1>4. ASSUME NEW x \in held
      PROVE  Kept(x)'
  <2>1. Kept(x)
    BY DEF AnswersInv
  <2>2. CASE stage /= "idle"
    BY <1>1, <1>2, <2>1, <2>2, KeptStays
  <2>3. CASE stage = "idle"
    BY <1>1, <2>1, <2>3 DEF Kept
  <2> QED
    BY <2>2, <2>3
<1>5. IntactInv'
  BY <1>1, SameBytes DEF IntactInv, Booting, Running
<1> QED
  BY <1>1, <1>3, <1>4, <1>5 DEF AnswersInv

\* An answer is kept when it is given.
LEMMA AnswersReturn ==
    ASSUME FirmwareInv, AnswersInv, ReturnMap
    PROVE  AnswersInv'
<1>1. /\ UNCHANGED <<mapVars, input, mem, layout, video, writes>> /\ UNCHANGED At
      /\ pc = "call" /\ pc' = "payload" /\ stage = "done"
      /\ held' = held \union {Answer} /\ SourceInv /\ IntactInv
  BY DEF AnswersInv, ReturnMap, At
<1>2. map \in Seq(Item) /\ Canonical(map) /\ MapTypes
  BY <1>1 DEF FirmwareInv, MapInv, MapTypes, DoneInv
<1>3. Kept(Answer)
  <2>1. CASE call = "map"
    <3>1. Answer = [of |-> "map", items |-> map]
      BY <2>1 DEF Answer
    <3>2. Answer.of = "map" /\ Answer.items = map
      BY <3>1
    <3> QED
      BY <1>1, <1>2, <3>2 DEF Kept
  <2>2. CASE call /= "map" /\ largest_low_free = 0
    <3>1. Answer.of = "nothing"
      BY <2>2 DEF Answer
    <3> QED
      BY <3>1 DEF Kept
  <2>3. CASE call /= "map" /\ largest_low_free /= 0
    <3>1. Answer = [of |-> "chunk", index |-> largest_low_free,
                    item |-> map[largest_low_free]]
      BY <2>3 DEF Answer
    <3>2. Answer.of = "chunk" /\ Answer.index = largest_low_free
          /\ Answer.item = map[largest_low_free]
      BY <3>1
    <3>3. LowFree /= {}
      BY <2>3 DEF largest_low_free
    <3>4. largest_low_free \in DOMAIN map
      BY <1>2, <3>3, LargestIsFree DEF LowFree
    <3> QED
      BY <1>1, <1>2, <3>2, <3>4 DEF Kept
  <2> QED
    BY <2>1, <2>2, <2>3
<1>4. ASSUME NEW x \in held'
      PROVE  Kept(x)'
  <2>1. Kept(x)
    BY <1>1, <1>3 DEF AnswersInv
  <2> QED
    BY <1>1, <2>1, KeptStays DEF mapVars
<1>5. SourceInv'
  BY <1>1, SameBytes DEF SourceInv, Booting, mapVars
<1>6. IntactInv'
  BY <1>1, SameBytes DEF IntactInv, Booting, Running
<1> QED
  BY <1>4, <1>5, <1>6 DEF AnswersInv

\* The screen list is not written into the payload.
LEMMA BytesStay ==
    ASSUME FirmwareInv, AnswersInv, pc = "payload", UNCHANGED <<input, pc, writes>>,
           NEW v, mem' = [mem EXCEPT ![Shared] = v]
    PROVE  IntactInv'
<1>1. FwTypes /\ EntryInv /\ IntactInv
  BY DEF FirmwareInv, AnswersInv
<1> SUFFICES ASSUME Fits, writes = 0, input.payload.magic,
                    NEW k \in 0..(input.payload.size - 1)
             PROVE  mem'[At + k] = <<"payload", k>>
  BY <1>1, SameInput, SameBytes DEF IntactInv, BytesAt, Booting, Running
<1>2. PlacedFacts(input)
  BY <1>1, InputFacts
<1>3. k \in Nat /\ k < input.payload.size /\ input.payload.size \in Nat
  BY <1>2 DEF PlacedFacts
<1>4. At + k \in Nat /\ At + k < StackBottom
  BY <1>2, <1>3, LayoutOrder DEF PlacedFacts, At
<1>5. At + k \in DOMAIN mem /\ At + k /= Shared
  BY <1>1, <1>4, LayoutOrder DEF FwTypes
<1>6. mem[At + k] = <<"payload", k>>
  BY <1>1 DEF IntactInv, BytesAt, Running
<1> QED
  BY <1>5, <1>6

\* The tree and the screen list are where they were.
LEMMA AnswersOther ==
    ASSUME FirmwareInv, AnswersInv, CallDtb \/ CallScreens
    PROVE  AnswersInv'
<1>1. /\ UNCHANGED <<mapVars, input, pc, layout, video, writes>> /\ UNCHANGED At
      /\ pc = "payload" /\ SourceInv /\ IntactInv /\ FwTypes
  BY DEF FirmwareInv, AnswersInv, CallDtb, CallScreens, At
<1>2. SourceInv'
  BY <1>1, SameBytes DEF SourceInv, mapVars
<1>3. Dtb \in DOMAIN mem /\ Shared \in DOMAIN mem /\ Dtb /= Shared
  BY <1>1, LayoutOrder DEF FwTypes
<1>4. CASE CallDtb
  <2> DEFINE y == [of |-> "dtb", first |-> mem[Dtb]]
  <2>1. held' = held \union {y} /\ mem' = mem
    BY <1>4 DEF CallDtb
  <2>2. y.of = "dtb" /\ y.first = mem[Dtb]
    OBVIOUS
  <2>3. Kept(y)
    BY <2>2 DEF Kept
  <2> HIDE DEF y
  <2>4. ASSUME NEW x \in held' PROVE Kept(x)'
    <3>1. Kept(x)
      BY <2>1, <2>3 DEF AnswersInv
    <3> QED
      BY <1>1, <2>1, <3>1, KeptStays DEF mapVars
  <2>5. IntactInv'
    BY <1>1, <2>1, SameBytes DEF IntactInv
  <2> QED
    BY <1>2, <2>4, <2>5 DEF AnswersInv
<1>5. CASE CallScreens
  <2>0. PICK y : y = [of |-> "screens", list |-> <<"screens", video>>]
    OBVIOUS
  <2>1. held' = held \union {y} /\ mem' = [mem EXCEPT ![Shared] = <<"screens", video>>]
    BY <1>5, <2>0 DEF CallScreens
  <2>2. y.of = "screens" /\ y.list = <<"screens", video>>
    BY <2>0
  <2>3. mem'[Shared] = <<"screens", video>> /\ mem'[Dtb] = mem[Dtb]
    BY <1>3, <2>1
  <2>4. Kept(y)'
    BY <1>1, <2>2, <2>3 DEF Kept
  <2>5. ASSUME NEW x \in held PROVE Kept(x)'
    <3>1. Kept(x)
      BY DEF AnswersInv
    <3>2. CASE x.of = "screens"
      <4>1. mem[Shared] = <<"screens", video>>
        BY <3>1, <3>2 DEF Kept
      <4> QED
        BY <1>1, <2>3, <3>1, <4>1, KeptStays DEF mapVars
    <3>3. CASE x.of /= "screens"
      <4>1. \A items : Canonical(items) => Canonical(items)'
        <5>1. \A a : FlagsAt(a)' = FlagsAt(a)
          BY <1>1, SameRanges DEF mapVars
        <5> QED
          BY <5>1 DEF Canonical, Ordered, Truthful, Merged, Has
      <4> QED
        BY <1>1, <2>3, <3>1, <3>3, <4>1 DEF Kept, mapVars
    <3> QED
      BY <3>2, <3>3
  <2>6. IntactInv'
    BY <1>1, <2>1, BytesStay
  <2> QED
    BY <1>2, <2>1, <2>4, <2>5, <2>6 DEF AnswersInv
<1> QED
  BY <1>4, <1>5

\* Memory that was called free is outside the arena, and so is the payload.
LEMMA AnswersPayload ==
    ASSUME FirmwareInv, AnswersInv, UseMemory \/ ChangeItself
    PROVE  AnswersInv'
<1>1. /\ UNCHANGED <<mapVars, input, pc, layout, video, entry, held>> /\ pc = "payload"
      /\ writes' = writes + 1 /\ FwTypes /\ SourceInv /\ FreeInv /\ EntryInv
  BY DEF FirmwareInv, AnswersInv, UseMemory, ChangeItself
<1>2. SourceInv'
  BY <1>1, SameBytes DEF SourceInv, mapVars
<1>3. mem'[Dtb] = mem[Dtb] /\ mem'[Shared] = mem[Shared]
  <2>1. PICK a, v : mem' = [mem EXCEPT ![a] = v] /\ a /= Dtb /\ a /= Shared
    <3>1. CASE UseMemory
      <4>1. PICK a \in FreeCells : mem' = [mem EXCEPT ![a] = <<"heap", a>>]
        BY <3>1 DEF UseMemory
      <4>2. Offerable(a)
        BY <1>1, <4>1 DEF FreeInv
      <4>3. a /= Dtb /\ a /= Shared
        BY <4>2, LayoutOrder DEF Offerable, Between
      <4> QED
        BY <4>1, <4>3
    <3>2. CASE ChangeItself
      <4>1. mem' = [mem EXCEPT ![entry.at] = <<"changed", 0>>] /\ entry.at /= ImageEnd
        BY <3>2 DEF ChangeItself
      <4>2. entry.at = Payload
        BY <1>1, <4>1, InputFacts DEF EntryInv, At, Running, PlacedFacts
      <4>3. entry.at /= Dtb /\ entry.at /= Shared
        BY <4>2, LayoutOrder
      <4> QED
        BY <4>1, <4>3
    <3> QED
      BY <3>1, <3>2
  <2> QED
    BY <2>1
<1>4. ASSUME NEW x \in held
      PROVE  Kept(x)'
  <2>1. Kept(x)
    BY DEF AnswersInv
  <2> QED
    BY <1>1, <1>3, <2>1, KeptStays DEF mapVars
<1>5. IntactInv'
  <2>1. writes' \in Nat /\ writes' /= 0
    BY <1>1 DEF AnswersInv, IntactInv
  <2> QED
    BY <1>1, <2>1 DEF IntactInv, Booting
<1> QED
  BY <1>1, <1>2, <1>4, <1>5 DEF AnswersInv

LEMMA AnswersReset ==
    ASSUME FirmwareInv, AnswersInv, Reset \/ UNCHANGED vars
    PROVE  AnswersInv'
<1>1. /\ UNCHANGED <<mapVars, input, mem, layout, video, entry, held, writes>>
      /\ UNCHANGED At
      /\ pc' = pc \/ (pc = "payload" /\ pc' = "reset")
      /\ SourceInv /\ IntactInv
  BY DEF AnswersInv, Reset, vars, At
<1>2. SourceInv'
  BY <1>1, SameBytes DEF SourceInv, Booting, mapVars
<1>3. ASSUME NEW x \in held
      PROVE  Kept(x)'
  <2>1. Kept(x)
    BY DEF AnswersInv
  <2> QED
    BY <1>1, <2>1, KeptStays DEF mapVars
<1>4. IntactInv'
  BY <1>1, SameBytes DEF IntactInv, Booting, Running
<1> QED
  BY <1>1, <1>2, <1>3, <1>4 DEF AnswersInv

\* Every map is built from the same sources, every answer is kept, and a
\* payload that fits arrives whole.
THEOREM AnswersInvariant == Spec => []AnswersInv
<1>1. FirmwareInv /\ AnswersInv /\ [Next]_vars => AnswersInv'
  BY AnswersBoot, AnswersJump, AnswersCall, AnswersReturn, AnswersOther, AnswersPayload,
     AnswersReset
  DEF Next
<1> QED
  BY <1>1, AnswersInit, FirmwareInvariant, PTL DEF Spec

\* Structures and pointers that a call returned stay intact, as firmware.h says:
\* a later map can only be the same one, and nothing writes the tree or changes
\* the list, whatever the payload does with the memory it was given.
THEOREM AnswersStayIntact == Spec => []AnswersIntact
<1>1. FirmwareInv /\ AnswersInv => AnswersIntact
  <2> SUFFICES ASSUME FirmwareInv, AnswersInv, pc = "payload", NEW x \in held
               PROVE  /\ x.of = "map" => map = x.items
                      /\ x.of = "chunk" => x.index \in DOMAIN map /\ map[x.index] = x.item
                      /\ x.of = "dtb" => mem[Dtb] = x.first
                      /\ x.of = "screens" => mem[Shared] = x.list
    BY DEF AnswersIntact
  <2>1. Kept(x)
    BY DEF AnswersInv
  <2>2. stage /= "idle" => map \in Seq(Item) /\ Canonical(map)
    BY DEF FirmwareInv, AnswersInv, SourceInv, MapInv, MapTypes, DoneInv
  <2>3. x.of = "map" => map = x.items
    BY <2>1, <2>2, CanonicalUnique DEF Kept
  <2>4. x.of = "chunk" => x.index \in DOMAIN map /\ map[x.index] = x.item
    BY <2>1, <2>2, CanonicalUnique DEF Kept
  <2> QED
    BY <2>1, <2>3, <2>4 DEF Kept
<1> QED
  BY <1>1, FirmwareInvariant, AnswersInvariant, PTL

\* memcpy goes upwards, so what is moved over its own end is only intact when it
\* is no longer than the way it is moved.  Nothing in the firmware checks that.
FitsBelow ==
    \A x \in Inputs :
        x.payload.relocate => x.payload.size <= Payload - ImageEnd

\* Such a payload is entered with every byte it was built with, and still has
\* them after every call as long as it has written nothing itself.
THEOREM PayloadArrives == FitsBelow => (Spec => []PayloadIntact)
<1> SUFFICES ASSUME FitsBelow
             PROVE  Spec => []PayloadIntact
  OBVIOUS
<1>1. FirmwareInv /\ AnswersInv => PayloadIntact
  <2> SUFFICES ASSUME FirmwareInv, AnswersInv, pc = "payload", writes = 0
               PROVE  BytesAt(entry.at)
    BY DEF PayloadIntact, BytesAt
  <2>1. Fits
    BY DEF FirmwareInv, FwTypes, FitsBelow, Fits
  <2>2. input.payload.magic /\ entry.at = At
    BY DEF FirmwareInv, EntryInv, Running
  <2> QED
    BY <2>1, <2>2 DEF AnswersInv, IntactInv, Running
<1> QED
  BY <1>1, FirmwareInvariant, AnswersInvariant, PTL

(***************************************************************************)
(* The page tables                                                         *)
(***************************************************************************)
\* What plat_setup_mmu maps an address as, without blocks
LEMMA MappingOf ==
    ASSUME NEW a \in Nat
    PROVE  Mapping(a) = IF a >= MmioStart THEN "device"
                        ELSE IF Between(a, DmaStart, DmaEnd) \/ Between(a, FbStart, FbEnd)
                        THEN "noncacheable" ELSE "cacheable"
<1> DEFINE b == a - (a % Block)
<1>1. \A x \in {DmaStart, DmaEnd, FbStart, FbEnd, MmioStart} : x \in Nat /\ x % Block = 0
  BY AlignmentAssumption, LayoutOrder
<1>2. b \in Nat /\ \A x \in {DmaStart, DmaEnd, FbStart, FbEnd, MmioStart} : x <= b <=> x <= a
  BY <1>1, BlockBound
<1>3. /\ b >= MmioStart <=> a >= MmioStart
      /\ (DmaStart <= b <=> DmaStart <= a) /\ (b < DmaEnd <=> a < DmaEnd)
      /\ (FbStart <= b <=> FbStart <= a) /\ (b < FbEnd <=> a < FbEnd)
  BY <1>2, LayoutOrder
<1>4. Mapping(a) = IF b >= MmioStart THEN "device"
                   ELSE IF \/ DmaStart <= b /\ b < DmaEnd
                           \/ FbStart <= b /\ b < FbEnd
                   THEN "noncacheable" ELSE "cacheable"
  BY DEF Mapping
<1> HIDE DEF b
<1> QED
  BY <1>3, <1>4 DEF Between

\* An address with the flags of a reserved range is in it.
LEMMA FlagsAreWhere ==
    ASSUME MapTypes, NEW a \in Nat
    PROVE  /\ FlagsAt(a) = "mmio" => MmioStart <= a
           /\ FlagsAt(a) /= "mmio" => ~(MmioStart <= a /\ a < Phys4G)
           /\ FlagsAt(a) = "payload" => Payload <= a /\ a < payload_end
           /\ FlagsAt(a) = "framebuffer" => FbStart <= a /\ a < FbEnd
<1> DEFINE inside == {k \in DOMAIN Reserved : Reserved[k].start <= a /\ a < Reserved[k].end}
           first == CHOOSE k \in inside : \A l \in inside : k <= l
<1>1. FlagsAt(a) = IF MmioStart <= a /\ a < Phys4G THEN "mmio"
                   ELSE IF ~\E i \in DOMAIN banks : InBank(a, banks[i]) THEN "none"
                   ELSE IF inside = {} THEN "unused" ELSE Reserved[first].flags
  BY DEF FlagsAt
<1>2. inside \in SUBSET (1..5)
  BY RangeFacts
<1>3. inside /= {} => first \in inside
  BY <1>2, FirstIn
<1>4. \A k \in 1..5 :
         /\ Reserved[k].flags /= "mmio"
         /\ Reserved[k].flags = "payload" => k = 2
         /\ Reserved[k].flags = "framebuffer" => k = 5
  BY DEF Reserved
<1>5. /\ Reserved[2].start = Payload /\ Reserved[2].end = payload_end
      /\ Reserved[5].start = FbStart /\ Reserved[5].end = FbEnd
  BY DEF Reserved
<1>6. inside /= {} => /\ first \in 1..5 /\ Reserved[first].start <= a
                      /\ a < Reserved[first].end
  BY <1>2, <1>3
<1> HIDE DEF inside, first
<1> QED
  BY <1>1, <1>4, <1>5, <1>6

\* The page tables and the map agree for any banks and payload, and what other
\* masters read is uncached.
THEOREM MappedAsTold == Spec => []MappedAsReported
<1>1. FirmwareInv /\ AnswersInv => MappedAsReported
  <2> SUFFICES ASSUME FirmwareInv, AnswersInv, pc = "payload", stage = "done"
               PROVE  MappedAsReported
    BY DEF MappedAsReported
  <2>1. MapTypes /\ Truthful(map) /\ PlacedFacts(input)
    BY InputFacts DEF FirmwareInv, MapInv, DoneInv, Canonical
  <2>2. payload_end <= StackBottom
    <3>1. payload_end = End
      BY DEF AnswersInv, SourceInv
    <3>2. StackBottom % Page = 0
      BY AlignmentAssumption
    <3>3. CASE input.payload.size < StackBottom - Payload
      <4>1. Payload + input.payload.size \in Nat /\ Payload + input.payload.size <= StackBottom
        BY <2>1, <3>3, LayoutOrder DEF PlacedFacts
      <4> QED
        BY <3>1, <3>2, <3>3, <4>1, LayoutOrder, RoundUpWithin DEF End
    <3>4. CASE ~(input.payload.size < StackBottom - Payload)
      <4>1. Payload <= StackBottom
        BY LayoutOrder
      <4> QED
        BY <3>1, <3>2, <3>4, <4>1, LayoutOrder, RoundUpWithin DEF End
    <3> QED
      BY <3>3, <3>4
  <2>3. ASSUME NEW i \in DOMAIN map, map[i].end <= Phys4G,
               NEW a \in map[i].start..(map[i].end - 1)
        PROVE  CASE map[i].flags = "mmio" -> Mapping(a) = "device"
                 [] map[i].flags \in {"unused", "payload"} -> Mapping(a) = "cacheable"
                 [] map[i].flags = "framebuffer" -> Mapping(a) = "noncacheable"
                 [] OTHER -> TRUE
    <3>1. map[i] \in Item
      BY <2>1 DEF MapTypes
    <3>2. map[i].start \in Nat /\ map[i].end \in Nat
      BY <3>1 DEF Item
    <3>3. a \in Nat /\ a < Phys4G
      BY <2>3, <3>2, LayoutOrder
    <3>4. FlagsAt(a) = map[i].flags
      BY <2>1 DEF Truthful
    <3>5. CASE map[i].flags = "mmio"
      <4>1. Mapping(a) = "device"
        BY <2>1, <3>3, <3>4, <3>5, FlagsAreWhere, MappingOf, LayoutOrder
      <4> QED
        BY <3>5, <4>1
    <3>6. CASE map[i].flags = "unused"
      <4>1. \A j \in 1..5 : ~(Reserved[j].start <= a /\ a < Reserved[j].end)
        BY <2>1, <3>3, <3>4, <3>6, UnusedIsApart
      <4>2. ~Between(a, DmaStart, DmaEnd) /\ ~Between(a, FbStart, FbEnd)
        <5>1. /\ Reserved[4].start = DmaStart /\ Reserved[4].end = DmaEnd
              /\ Reserved[5].start = FbStart /\ Reserved[5].end = FbEnd
          BY DEF Reserved
        <5>2. 4 \in 1..5 /\ 5 \in 1..5
          OBVIOUS
        <5> QED
          BY <4>1, <5>1, <5>2 DEF Between
      <4>3. ~(a >= MmioStart)
        BY <2>1, <3>3, <3>4, <3>6, FlagsAreWhere, LayoutOrder
      <4>4. Mapping(a) = "cacheable"
        BY <3>3, <4>2, <4>3, MappingOf
      <4> QED
        BY <3>6, <4>4
    <3>7. CASE map[i].flags = "payload"
      <4>1. Payload <= a /\ a < payload_end /\ payload_end \in Nat
        BY <2>1, <3>3, <3>4, <3>7, FlagsAreWhere DEF MapTypes
      <4>2. a < DmaStart /\ a < FbStart /\ a < MmioStart
        BY <2>2, <3>3, <4>1, LayoutOrder
      <4>3. Mapping(a) = "cacheable"
        BY <3>3, <4>2, MappingOf, LayoutOrder DEF Between
      <4> QED
        BY <3>7, <4>3
    <3>8. CASE map[i].flags = "framebuffer"
      <4>1. FbStart <= a /\ a < FbEnd
        BY <2>1, <3>3, <3>4, <3>8, FlagsAreWhere
      <4>2. Mapping(a) = "noncacheable"
        BY <3>3, <4>1, MappingOf, LayoutOrder DEF Between
      <4> QED
        BY <3>8, <4>2
    <3>9. CASE map[i].flags \notin {"mmio", "unused", "payload", "framebuffer"}
      BY <3>9
    <3> QED
      BY <3>5, <3>6, <3>7, <3>8, <3>9
  <2>4. ASSUME NEW a \in DmaStart..(DmaEnd - 1) PROVE Mapping(a) = "noncacheable"
    BY MappingOf, LayoutOrder DEF Between
  <2>5. ASSUME NEW a \in StackBottom..(StackTop - 1) PROVE Mapping(a) = "cacheable"
    BY MappingOf, LayoutOrder DEF Between
  <2> QED
    BY <2>3, <2>4, <2>5 DEF MappedAsReported
<1> QED
  BY <1>1, FirmwareInvariant, AnswersInvariant, PTL

(***************************************************************************)
(* The geometry                                                            *)
(***************************************************************************)
\* The powers of two that occur in sizes, which are at most 32 GiB
Doubles(k) == 2 ^ k \in Nat \ {0} /\ 2 ^ (k + 1) = 2 * 2 ^ k

LEMMA Doubling == \A k \in 0..25 : Doubles(k)
<1>1. /\ Doubles(0) /\ Doubles(1) /\ Doubles(2) /\ Doubles(3) /\ Doubles(4) /\ Doubles(5)
      /\ Doubles(6) /\ Doubles(7) /\ Doubles(8) /\ Doubles(9) /\ Doubles(10) /\ Doubles(11)
      /\ Doubles(12) /\ Doubles(13) /\ Doubles(14) /\ Doubles(15) /\ Doubles(16)
      /\ Doubles(17) /\ Doubles(18) /\ Doubles(19) /\ Doubles(20) /\ Doubles(21)
      /\ Doubles(22) /\ Doubles(23) /\ Doubles(24) /\ Doubles(25)
  BY DEF Doubles
<1> QED
  BY <1>1

\* Adding to the exponent multiplies.
Splits(d) == \A m \in 0..25 : m + d <= 25 => 2 ^ (m + d) = 2 ^ d * 2 ^ m

LEMMA PowerSum == \A d \in 0..8 : Splits(d)
<1>1. Splits(0)
  <2> SUFFICES ASSUME NEW m \in 0..25
               PROVE  2 ^ (m + 0) = 2 ^ 0 * 2 ^ m
    BY DEF Splits
  <2>1. 2 ^ 0 = 1 /\ m + 0 = m
    OBVIOUS
  <2>2. 2 ^ m \in Nat
    BY Doubling DEF Doubles
  <2> QED
    BY <2>1, <2>2
<1>2. ASSUME NEW d \in 0..7, Splits(d)
      PROVE  Splits(d + 1)
  <2> SUFFICES ASSUME NEW m \in 0..25, m + (d + 1) <= 25
               PROVE  2 ^ (m + (d + 1)) = 2 ^ (d + 1) * 2 ^ m
    BY DEF Splits
  <2> DEFINE x == 2 ^ m
             y == 2 ^ d
  <2>1. m + d \in 0..25 /\ d \in 0..25 /\ m + (d + 1) = (m + d) + 1
    OBVIOUS
  <2>2. x \in Nat /\ y \in Nat /\ 2 ^ (d + 1) = 2 * y
    BY <2>1, Doubling DEF Doubles
  <2>3. 2 ^ (m + (d + 1)) = 2 * 2 ^ (m + d)
    BY <2>1, Doubling DEF Doubles
  <2>4. 2 ^ (m + d) = y * x
    <3>1. m + d <= 25
      OBVIOUS
    <3> QED
      BY <1>2, <3>1, Zenon DEF Splits
  <2> HIDE DEF x, y
  <2>5. 2 * (y * x) = (2 * y) * x
    BY <2>2
  <2> QED
    BY <2>2, <2>3, <2>4, <2>5 DEF x
<1>3. \A d \in {0, 1, 2, 3, 4, 5, 6, 7} : Splits(d) => Splits(d + 1)
  BY <1>2
<1>4. Splits(1) /\ Splits(2) /\ Splits(3) /\ Splits(4)
  BY <1>1, <1>3
<1>5. Splits(5) /\ Splits(6) /\ Splits(7) /\ Splits(8)
  BY <1>3, <1>4
<1> QED
  BY <1>1, <1>4, <1>5

\* A second rank that is smaller by some bits of row and column
LEMMA RankQuotient ==
    ASSUME NEW e \in 20..35, NEW d \in 0..8
    PROVE  /\ KiB(e) \div 2 ^ d = KiB(e - d)
           /\ KiB(e) \in Nat /\ KiB(e - d) \in Nat
<1> DEFINE m == (e - d) - 10
           x == 2 ^ d
           y == 2 ^ m
<1>1. m \in 0..25 /\ m + d = e - 10 /\ m + d <= 25 /\ d \in 0..25 /\ e - 10 \in 0..25
  OBVIOUS
<1>2. x \in Nat \ {0} /\ y \in Nat /\ 2 ^ (e - 10) \in Nat
  BY <1>1, Doubling DEF Doubles
<1>3. 2 ^ (e - 10) = x * y
  <2>1. Splits(d)
    BY PowerSum
  <2> QED
    BY <1>1, <2>1 DEF Splits
<1>4. KiB(e) = 2 ^ (e - 10) /\ KiB(e - d) = y
  BY DEF KiB
<1> HIDE DEF m, x, y
<1>5. (x * y) \div x = y
  <2> DEFINE q == (x * y) \div x
  <2>1. x * y \in Nat /\ x * y = y * x
    BY <1>2
  <2>2. q \in Nat /\ x * y = q * x + ((x * y) % x) /\ (x * y) % x \in 0..(x - 1)
    BY <1>2, <2>1
  <2> HIDE DEF q
  <2>3. q > y => q * x >= y * x + x
    BY <1>2, <2>2
  <2>4. q < y => q * x + x <= y * x
    BY <1>2, <2>2
  <2>5. q * x \in Nat /\ y * x \in Nat
    BY <1>2, <2>2
  <2>6. q = y
    BY <1>2, <2>1, <2>2, <2>3, <2>4, <2>5
  <2> QED
    BY <2>6 DEF q
<1> QED
  BY <1>2, <1>3, <1>4, <1>5 DEF x

\* What InputAssumption says of the registers
RegisterFacts(regs) ==
    /\ regs.version \in Nat /\ regs.type \in Nat /\ regs.type_high \in Nat
    /\ regs.lanes \in Seq(ChannelFields)

\* What the fields of a channel mean, as in Installed
ChannelInstalled(regs, lane) ==
    LET ranks == RankSize(regs, lane, Rows(regs, lane.rows), 9 + lane.columns)
                 + IF lane.ranks = 1 THEN 0
                   ELSE RankSize(regs, lane, Rows(regs, lane.rows1), Columns1(regs, lane))
    IN  IF lane.three_quarters THEN 3 * (ranks \div 4) ELSE ranks

\* The decoder's shifts give what the fields mean.
LEMMA ChannelExact ==
    ASSUME NEW regs, RegisterFacts(regs), NEW lane \in ChannelFields,
           ChannelValid(regs, lane)
    PROVE  ChannelSize(regs, lane) = ChannelInstalled(regs, lane)
<1> DEFINE r0 == Rows(regs, lane.rows)
           r1 == Rows(regs, lane.rows1)
           c1 == Columns1(regs, lane)
           b == BankExponent(regs, lane)
           g == GroupExponent(regs, lane)
           e == Exponent(regs, lane)
           d == Delta(regs, lane)
<1>1. /\ lane.ranks \in 1..2 /\ lane.columns \in Nat /\ lane.columns1 \in Nat
      /\ lane.banks \in Nat /\ lane.rows \in Nat /\ lane.rows1 \in Nat
      /\ lane.width \in Nat /\ regs.version \in Nat
  BY DEF ChannelFields, RegisterFacts
<1>2. \A raw \in Nat : Rows(regs, raw) \in Int
  BY DEF Rows, decode_rows
<1>3. r0 \in Int /\ r1 \in Int /\ c1 \in Int /\ b \in Int /\ g \in Int
  BY <1>1, <1>2 DEF Columns1, BankExponent, GroupExponent
<1>4. /\ e = r0 + 9 + lane.columns + b + g + 2 - lane.width
      /\ d = r0 - r1 + 9 + lane.columns - c1
  BY DEF Exponent, Delta
<1>5. e \in 20..35 /\ (lane.ranks = 2 => d \in 0..8)
  BY DEF ChannelValid
<1>6. RankSize(regs, lane, r0, 9 + lane.columns) = KiB(r0 + (9 + lane.columns) + b + g
                                                         + 2 - lane.width)
  BY DEF RankSize
<1>7. RankSize(regs, lane, r1, c1) = KiB(r1 + c1 + b + g + 2 - lane.width)
  BY DEF RankSize
<1>8. ChannelSize(regs, lane) =
        LET second == IF lane.ranks = 1 THEN 0 ELSE KiB(e) \div 2 ^ d
        IN  IF lane.three_quarters THEN ((KiB(e) + second) \div 4) * 3 ELSE KiB(e) + second
  BY DEF ChannelSize
<1>9. ChannelInstalled(regs, lane) =
        LET ranks == RankSize(regs, lane, r0, 9 + lane.columns)
                     + IF lane.ranks = 1 THEN 0 ELSE RankSize(regs, lane, r1, c1)
        IN  IF lane.three_quarters THEN 3 * (ranks \div 4) ELSE ranks
  BY DEF ChannelInstalled
<1> HIDE DEF r0, r1, c1, b, g, e, d
<1>10. RankSize(regs, lane, r0, 9 + lane.columns) = KiB(e)
  <2>1. r0 + (9 + lane.columns) + b + g + 2 - lane.width = e
    BY <1>1, <1>3, <1>4
  <2> QED
    BY <1>6, <2>1
<1>11. KiB(e) \in Nat
  <2>1. 0 \in 0..8
    OBVIOUS
  <2> QED
    BY <1>5, <2>1, RankQuotient
<1>12. CASE lane.ranks = 1
  <2>1. (KiB(e) + 0) \div 4 \in Nat
    BY <1>11
  <2> QED
    BY <1>8, <1>9, <1>10, <1>11, <1>12, <2>1
<1>13. CASE lane.ranks = 2
  <2>1. r1 + c1 + b + g + 2 - lane.width = e - d
    BY <1>1, <1>3, <1>4
  <2>2. KiB(e) \div 2 ^ d = KiB(e - d) /\ KiB(e - d) \in Nat
    BY <1>5, <1>13, RankQuotient
  <2>3. RankSize(regs, lane, r1, c1) = KiB(e - d)
    BY <1>7, <2>1
  <2>4. (KiB(e) + KiB(e - d)) \div 4 \in Nat
    BY <1>11, <2>2
  <2> QED
    BY <1>8, <1>9, <1>10, <1>11, <1>13, <2>2, <2>3, <2>4
<1> QED
  BY <1>1, <1>12, <1>13

\* What is decoded is what is installed, and it is decoded when it can be.
LEMMA DecodeExact ==
    ASSUME FwTypes
    PROVE  GeometryExact
<1> DEFINE regs == input.registers
           valid == /\ DramType(regs) <= 10
                    /\ \A i \in DOMAIN regs.lanes : ChannelValid(regs, regs.lanes[i])
           total == Sum([i \in DOMAIN regs.lanes |-> ChannelSize(regs, regs.lanes[i])])
           real == Sum([i \in DOMAIN regs.lanes |-> ChannelInstalled(regs, regs.lanes[i])])
<1>1. RegisterFacts(regs)
  BY InputAssumption DEF FwTypes, RegisterFacts
<1>2. Installed(regs) = real
  BY DEF Installed, ChannelInstalled
<1>3. decode_pmugrf(regs) = IF valid /\ total \in KiB(30)..KiB(35) THEN total ELSE 0
  BY DEF decode_pmugrf
<1>4. valid => total = real
  <2> SUFFICES ASSUME valid
               PROVE  [i \in DOMAIN regs.lanes |-> ChannelSize(regs, regs.lanes[i])]
                      = [i \in DOMAIN regs.lanes |-> ChannelInstalled(regs, regs.lanes[i])]
    OBVIOUS
  <2>1. ASSUME NEW i \in DOMAIN regs.lanes
        PROVE  ChannelSize(regs, regs.lanes[i]) = ChannelInstalled(regs, regs.lanes[i])
    <3>1. regs.lanes[i] \in ChannelFields
      BY <1>1 DEF RegisterFacts
    <3> QED
      BY <1>1, <3>1, ChannelExact
  <2> QED
    BY <2>1
<1>5. KiB(30) = 1048576
  BY DEF KiB
<1>6. /\ decode_pmugrf(regs) /= 0 => decode_pmugrf(regs) = Installed(regs)
      /\ valid /\ Installed(regs) \in KiB(30)..KiB(35) => decode_pmugrf(regs) /= 0
  <2> HIDE DEF valid, total, real
  <2>1. valid /\ total \in KiB(30)..KiB(35) => total /= 0
    BY <1>5
  <2> QED
    BY <1>2, <1>3, <1>4, <2>1
<1> QED
  BY <1>6 DEF GeometryExact

(***************************************************************************)
(* The banks of a tag                                                      *)
(***************************************************************************)
\* The running total that rk356x_parse_atags keeps
TotalUpTo(list, g, m) ==
    g = [i \in 0..m |-> IF i = 0 THEN 0 ELSE Plus(g[i - 1], list[i].size)]

\* It exists for every number of banks, so that BankTotal is it.
LEMMA TotalExists ==
    ASSUME NEW list, Len(list) \in Nat
    PROVE  TotalUpTo(list, BankTotal(list), Len(list))
<1> DEFINE Without == {m \in 0..Len(list) : ~\E g : TotalUpTo(list, g, m)}
<1>1. Without = {}
  <2> SUFFICES ASSUME Without /= {} PROVE FALSE
    OBVIOUS
  <2>1. Without \in SUBSET Nat
    OBVIOUS
  <2>2. PICK m \in Without : \A k \in Without : m <= k
    BY <2>1, LeastElement
  <2>3. m \in Nat /\ m <= Len(list) /\ ~\E g : TotalUpTo(list, g, m)
    BY <2>2
  <2>4. CASE m = 0
    <3> DEFINE h == [i \in 0..m |-> 0]
    <3>1. h = [i \in 0..m |-> IF i = 0 THEN 0 ELSE Plus(h[i - 1], list[i].size)]
      BY <2>4
    <3> HIDE DEF h
    <3>2. TotalUpTo(list, h, m)
      BY <3>1 DEF TotalUpTo
    <3> QED
      BY <2>3, <3>2
  <2>5. CASE m > 0
    <3>1. m - 1 \in 0..Len(list) /\ ~(m <= m - 1)
      BY <2>3, <2>5
    <3>2. m - 1 \notin Without
      BY <2>2, <3>1
    <3>3. PICK g : TotalUpTo(list, g, m - 1)
      BY <3>1, <3>2
    <3> DEFINE h == [i \in 0..m |-> IF i < m THEN g[i] ELSE Plus(g[m - 1], list[m].size)]
               Rule(i) == IF i = 0 THEN 0 ELSE Plus(h[i - 1], list[i].size)
    <3>4. ASSUME NEW i \in 0..m
          PROVE  h[i] = Rule(i)
      <4>1. CASE i = m
        <5>1. i - 1 \in 0..m /\ i - 1 < m /\ i /= 0 /\ ~(i < m)
          BY <2>3, <2>5, <4>1
        <5>2. h[i] = Plus(g[m - 1], list[m].size) /\ h[i - 1] = g[i - 1]
          BY <5>1
        <5> QED
          BY <4>1, <5>1, <5>2
      <4>2. CASE i < m
        <5>1. i \in 0..(m - 1) /\ h[i] = g[i]
          BY <2>3, <4>2
        <5>2. g[i] = IF i = 0 THEN 0 ELSE Plus(g[i - 1], list[i].size)
          BY <3>3, <5>1 DEF TotalUpTo
        <5>3. i /= 0 => h[i - 1] = g[i - 1]
          BY <2>3, <4>2
        <5> QED
          BY <5>1, <5>2, <5>3
      <4> QED
        BY <2>3, <4>1, <4>2
    <3>5. h = [i \in 0..m |-> h[i]]
      OBVIOUS
    <3> HIDE DEF h
    <3>6. h = [i \in 0..m |-> Rule(i)]
      BY <3>4, <3>5
    <3>7. TotalUpTo(list, h, m)
      BY <3>6 DEF TotalUpTo
    <3> QED
      BY <2>3, <3>7
  <2> QED
    BY <2>3, <2>4, <2>5
<1>2. Len(list) \in 0..Len(list)
  OBVIOUS
<1>3. PICK g : TotalUpTo(list, g, Len(list))
  BY <1>1, <1>2
<1> QED
  BY <1>3 DEF TotalUpTo, BankTotal

\* What rk356x_parse_atags has checked of a list that it accepts: the banks are
\* in order and the sum of their sizes does not wrap.
LEMMA ValidBanks ==
    ASSUME NEW list \in Seq(WordBank), BanksValid(list)
    PROVE  /\ Len(list) \in Nat /\ DOMAIN list = 1..Len(list) /\ Len(list) >= 1
           /\ \A i \in 1..Len(list) :
                 /\ list[i].start \in Nat /\ list[i].size \in Nat
                 /\ Plus(list[i].start, list[i].size) = list[i].start + list[i].size
                 /\ i > 1 => list[i].start >= list[i - 1].start + list[i - 1].size
           /\ BankTotal(list)[0] = 0
           /\ \A i \in 1..Len(list) :
                 BankTotal(list)[i] = BankTotal(list)[i - 1] + list[i].size
           /\ \A i \in 0..Len(list) : BankTotal(list)[i] \in Nat
<1> DEFINE T == BankTotal(list)
<1>1. Len(list) \in Nat /\ DOMAIN list = 1..Len(list) /\ Len(list) >= 1
  BY DEF BanksValid
<1>2. AddrMod \in Nat /\ AddrMod > 0
  BY AddrModAssumption
<1>3. \A i \in 1..Len(list) : /\ list[i].start \in Nat /\ list[i].start < AddrMod
                              /\ list[i].size \in Nat /\ list[i].size < AddrMod
  <2> TAKE i \in 1..Len(list)
  <2>1. list[i] \in WordBank
    OBVIOUS
  <2> QED
    BY <1>2, <2>1 DEF WordBank
<1>4. ASSUME NEW x \in 0..(AddrMod - 1), NEW y \in 0..(AddrMod - 1), Plus(x, y) >= x
      PROVE  Plus(x, y) = x + y /\ x + y < AddrMod
  <2>1. CASE x + y < AddrMod
    BY <1>2, <2>1 DEF Plus
  <2>2. CASE x + y >= AddrMod
    <3>1. (x + y) % AddrMod = x + y - AddrMod
      BY <1>2, <2>2
    <3> QED
      BY <1>2, <1>4, <3>1 DEF Plus
  <2> QED
    BY <1>2, <2>1, <2>2
<1>5. \A x, y \in Nat : Plus(x, y) \in 0..(AddrMod - 1)
  BY <1>2 DEF Plus
<1>6. \A i \in 1..Len(list) :
         /\ Plus(list[i].start, list[i].size) = list[i].start + list[i].size
         /\ i > 1 => list[i].start >= list[i - 1].start + list[i - 1].size
  <2> TAKE i \in 1..Len(list)
  <2>1. /\ Plus(list[i].start, list[i].size) >= list[i].start
        /\ i > 1 => list[i].start >= list[i - 1].start + list[i - 1].size
    BY DEF BanksValid
  <2> QED
    BY <1>2, <1>3, <1>4, <2>1
<1>7. T[0] = 0 /\ \A i \in 1..Len(list) : T[i] = Plus(T[i - 1], list[i].size)
  <2>1. T = [i \in 0..Len(list) |-> IF i = 0 THEN 0 ELSE Plus(T[i - 1], list[i].size)]
    BY <1>1, TotalExists DEF TotalUpTo
  <2> HIDE DEF T
  <2>2. 0 \in 0..Len(list) /\ \A i \in 1..Len(list) : i \in 0..Len(list) /\ i /= 0
    BY <1>1
  <2> QED
    BY <2>1, <2>2
<1>8. \A i \in 1..Len(list) : T[i] >= T[i - 1]
  BY DEF BanksValid
<1> HIDE DEF T
<1>9. \A i \in 0..Len(list) : T[i] \in 0..(AddrMod - 1)
  <2> DEFINE Odd == {i \in 0..Len(list) : T[i] \notin 0..(AddrMod - 1)}
  <2> SUFFICES ASSUME Odd /= {} PROVE FALSE
    OBVIOUS
  <2>1. Odd \in SUBSET Nat
    BY <1>1
  <2>2. PICK i \in Odd : \A k \in Odd : i <= k
    BY <2>1, LeastElement
  <2>3. i /= 0 /\ i \in 1..Len(list) /\ i - 1 \in 0..Len(list) /\ ~(i <= i - 1)
    BY <1>1, <1>2, <1>7
  <2>4. T[i - 1] \in 0..(AddrMod - 1)
    BY <2>2, <2>3
  <2>5. T[i] = Plus(T[i - 1], list[i].size) /\ list[i].size \in Nat /\ T[i - 1] \in Nat
    BY <1>2, <1>3, <1>7, <2>3, <2>4
  <2> QED
    BY <1>5, <2>5
<1>10. \A i \in 1..Len(list) : T[i] = T[i - 1] + list[i].size
  <2> TAKE i \in 1..Len(list)
  <2>1. i - 1 \in 0..Len(list) /\ T[i] >= T[i - 1] /\ T[i] = Plus(T[i - 1], list[i].size)
    BY <1>1, <1>7, <1>8
  <2>2. T[i - 1] \in 0..(AddrMod - 1) /\ list[i].size \in 0..(AddrMod - 1)
    BY <1>2, <1>3, <1>9, <2>1
  <2> QED
    BY <1>4, <2>1, <2>2
<1>11. \A i \in 0..Len(list) : T[i] \in Nat
  BY <1>2, <1>9
<1> QED
  BY <1>1, <1>3, <1>6, <1>7, <1>10, <1>11 DEF T

LEMMA BanksInOrder ==
    ASSUME NEW list \in Seq(WordBank), BanksValid(list),
           NEW i \in 1..Len(list), NEW j \in 1..Len(list), i < j
    PROVE  list[i].start + list[i].size <= list[j].start
<1> DEFINE first(k) == list[k].start
           end(k) == list[k].start + list[k].size
           L == Len(list)
           Odd == {k \in 1..L : i < k /\ ~(end(i) <= first(k))}
<1>1. L \in Nat
  BY ValidBanks
<1>2. \A k \in 1..L : /\ first(k) \in Nat /\ end(k) \in Nat /\ first(k) <= end(k)
                      /\ k > 1 => end(k - 1) <= first(k)
  <2> TAKE k \in 1..L
  <2>1. /\ list[k].start \in Nat /\ list[k].size \in Nat
        /\ k > 1 => list[k].start >= end(k - 1)
    BY ValidBanks
  <2>2. k > 1 => list[k - 1].start \in Nat /\ list[k - 1].size \in Nat
    <3>1. k > 1 => k - 1 \in 1..L
      BY <1>1
    <3> QED
      BY <3>1, ValidBanks
  <2> QED
    BY <2>1, <2>2
<1> HIDE DEF first, end
<1>3. Odd = {}
  <2> SUFFICES ASSUME Odd /= {} PROVE FALSE
    OBVIOUS
  <2>1. Odd \in SUBSET Nat
    BY <1>1
  <2>2. PICK k \in Odd : \A m \in Odd : k <= m
    BY <2>1, LeastElement
  <2>3. k \in 1..L /\ i < k /\ ~(end(i) <= first(k))
    BY <2>2
  <2>4. k - 1 \in 1..L /\ ~(k <= k - 1) /\ (i = k - 1 \/ i < k - 1) /\ k > 1
    BY <1>1, <2>3
  <2>5. end(k - 1) <= first(k) /\ first(k) \in Nat /\ end(i) \in Nat
    BY <1>1, <1>2, <2>3, <2>4
  <2>6. first(k - 1) \in Nat /\ end(k - 1) \in Nat /\ first(k - 1) <= end(k - 1)
    BY <1>2, <2>4
  <2>7. k - 1 \notin Odd
    BY <2>2, <2>4
  <2>8. i = k - 1 \/ end(i) <= first(k - 1)
    BY <2>4, <2>7
  <2> QED
    BY <2>3, <2>5, <2>6, <2>8
<1>4. end(i) <= first(j)
  BY <1>3
<1> QED
  BY <1>4 DEF first, end

\* Where rk356x_select_dram_layout lets a bank be: below the MMIO window, or
\* above 4 GiB by no more than the window hides
Below(s, e, capacity) == s < MmioStart /\ e <= MmioStart /\ e <= capacity
Above(s, e, capacity) ==
    s >= Phys4G /\ capacity > MmioStart /\ e <= capacity + (Phys4G - MmioStart)

LEMMA BankPlace ==
    ASSUME NEW capacity \in Nat, NEW bank, bank.start \in Nat, bank.size \in Nat,
           Plus(bank.start, bank.size) = bank.start + bank.size,
           bank_within_capacity(bank, capacity)
    PROVE  \/ Below(bank.start, bank.start + bank.size, capacity)
           \/ Above(bank.start, bank.start + bank.size, capacity)
<1> DEFINE window == Phys4G - MmioStart
<1>1. window \in Nat /\ AddrMod \in Nat \ {0}
  BY LayoutOrder, AddrModAssumption
<1>2. Plus(capacity, window) <= capacity + window /\ Plus(capacity, window) \in Nat
  <2>1. capacity + window \in Nat
    BY <1>1
  <2>2. \A x \in Nat : x % AddrMod <= x /\ x % AddrMod \in Nat
    BY <1>1
  <2> QED
    BY <2>1, <2>2 DEF Plus
<1>3. CASE bank.start < MmioStart
  BY <1>3 DEF bank_within_capacity, Below
<1>4. CASE ~(bank.start < MmioStart)
  BY <1>1, <1>2, <1>4 DEF bank_within_capacity, Above
<1> QED
  BY <1>3, <1>4

\* Both places are in the memory that the capacity stands for.
LEMMA PlacesArePhysical ==
    ASSUME NEW capacity \in Nat, NEW s \in Nat, NEW e \in Nat,
           Below(s, e, capacity) \/ Above(s, e, capacity), NEW a \in s..(e - 1)
    PROVE  a \in Physical(capacity)
BY LayoutOrder DEF Below, Above, Physical

\* How many addresses of the memory are below an address
Rank(x) == IF x <= MmioStart THEN x ELSE x - (Phys4G - MmioStart)

LEMMA RankOfBank ==
    ASSUME NEW capacity \in Nat, NEW s \in Nat, NEW size \in Nat,
           Below(s, s + size, capacity) \/ Above(s, s + size, capacity)
    PROVE  /\ Rank(s) \in Nat /\ Rank(s + size) = Rank(s) + size
           /\ Rank(s + size) <= capacity
BY LayoutOrder DEF Below, Above, Rank

LEMMA RankInOrder ==
    ASSUME NEW capacity \in Nat, NEW s \in Nat, NEW e \in Nat, NEW t \in Nat, NEW f \in Nat,
           Below(s, e, capacity) \/ Above(s, e, capacity),
           Below(t, f, capacity) \/ Above(t, f, capacity), s <= e, e <= t
    PROVE  Rank(e) <= Rank(t)
BY LayoutOrder DEF Below, Above, Rank

LEMMA RankInside ==
    ASSUME NEW capacity \in Nat, NEW s \in Nat, NEW e \in Nat, s <= e,
           Below(s, e, capacity) \/ Above(s, e, capacity),
           NEW a \in Physical(capacity), Rank(s) <= Rank(a), Rank(a) < Rank(e)
    PROVE  a \in s..(e - 1)
<1>1. a \in Nat /\ IF capacity > MmioStart THEN a < MmioStart \/ a >= Phys4G
                   ELSE a < capacity
  BY LayoutOrder DEF Physical
<1> QED
  BY <1>1, LayoutOrder DEF Below, Above, Rank

\* Banks that are in the memory and as large as it are all of it: the running
\* total can never be behind the rank of a bank's end, or it would never catch
\* up, and never before it.
LEMMA MatchingIsAll ==
    ASSUME NEW capacity \in Nat, NEW list \in Seq(WordBank), BanksValid(list),
           atags_match_geometry(list, capacity)
    PROVE  Cells(list) = Physical(capacity)
<1> DEFINE T == BankTotal(list)
           L == Len(list)
           s(i) == list[i].start
           e(i) == list[i].start + list[i].size
<1>1. /\ L \in Nat /\ DOMAIN list = 1..L /\ L >= 1
      /\ \A i \in 1..L :
            /\ list[i].start \in Nat /\ list[i].size \in Nat
            /\ i > 1 => list[i].start >= e(i - 1)
            /\ T[i] = T[i - 1] + list[i].size
      /\ T[0] = 0 /\ \A i \in 0..L : T[i] \in Nat
  BY ValidBanks
<1>2. \A i \in 1..L : Below(s(i), e(i), capacity) \/ Above(s(i), e(i), capacity)
  <2> TAKE i \in 1..L
  <2>1. bank_within_capacity(list[i], capacity)
    BY <1>1 DEF atags_match_geometry
  <2>2. Plus(list[i].start, list[i].size) = list[i].start + list[i].size
    BY ValidBanks
  <2> QED
    BY <1>1, <2>1, <2>2, BankPlace
<1>3. T[L] = capacity
  BY DEF atags_match_geometry
<1> HIDE DEF T, L
<1>4. \A i \in 1..L : /\ s(i) \in Nat /\ e(i) \in Nat /\ s(i) <= e(i)
                      /\ Rank(s(i)) \in Nat /\ Rank(e(i)) = Rank(s(i)) + list[i].size
                      /\ Rank(e(i)) <= capacity /\ Rank(e(i)) \in Nat
  <2> TAKE i \in 1..L
  <2>1. list[i].start \in Nat /\ list[i].size \in Nat
    BY <1>1
  <2>2. /\ Rank(s(i)) \in Nat /\ Rank(e(i)) = Rank(s(i)) + list[i].size
        /\ Rank(e(i)) <= capacity
    BY <1>2, <2>1, RankOfBank
  <2>3. s(i) \in Nat /\ e(i) \in Nat /\ s(i) <= e(i)
    <3> DEFINE x == list[i].start
               y == list[i].size
    <3>1. x \in Nat /\ y \in Nat
      BY <2>1
    <3> HIDE DEF x, y
    <3>2. x + y \in Nat /\ x <= x + y
      BY <3>1
    <3> QED
      BY <3>1, <3>2 DEF x, y
  <2> QED
    BY <2>1, <2>2, <2>3
<1>5. \A i \in 1..L : i > 1 => Rank(e(i - 1)) <= Rank(s(i))
  <2> SUFFICES ASSUME NEW i \in 1..L, i > 1
               PROVE  Rank(e(i - 1)) <= Rank(s(i))
    OBVIOUS
  <2>1. i - 1 \in 1..L /\ e(i - 1) <= s(i)
    BY <1>1
  <2> QED
    BY <1>2, <1>4, <2>1, RankInOrder
<1> HIDE DEF s, e
<1>6. \A i \in 1..L : T[i] <= Rank(e(i))
  <2> DEFINE Odd == {i \in 1..L : ~(T[i] <= Rank(e(i)))}
  <2> SUFFICES ASSUME Odd /= {} PROVE FALSE
    OBVIOUS
  <2>1. Odd \in SUBSET Nat
    BY <1>1
  <2>2. PICK i \in Odd : \A k \in Odd : i <= k
    BY <2>1, LeastElement
  <2>3. i \in 1..L /\ ~(T[i] <= Rank(e(i))) /\ T[i] = T[i - 1] + list[i].size
    BY <1>1
  <2>4. T[i - 1] <= Rank(s(i))
    <3>1. CASE i = 1
      <4>1. i - 1 = 0 /\ Rank(s(i)) \in Nat
        BY <1>4, <2>3, <3>1
      <4> QED
        BY <1>1, <4>1
    <3>2. CASE i > 1
      <4>1. i - 1 \in 1..L /\ ~(i <= i - 1)
        BY <1>1, <2>3, <3>2
      <4>2. T[i - 1] <= Rank(e(i - 1))
        BY <2>2, <4>1
      <4>3. Rank(e(i - 1)) \in Nat /\ T[i - 1] \in Nat /\ Rank(s(i)) \in Nat
        BY <1>1, <1>4, <2>3, <4>1
      <4> QED
        BY <1>5, <2>3, <3>2, <4>2, <4>3
    <3> QED
      BY <1>1, <2>3, <3>1, <3>2
  <2>5. i - 1 \in 0..L
    BY <1>1, <2>3
  <2>6. T[i - 1] \in Nat /\ list[i].size \in Nat
    BY <1>1, <2>3, <2>5
  <2>7. Rank(s(i)) \in Nat /\ Rank(e(i)) = Rank(s(i)) + list[i].size
    BY <1>4, <2>3
  <2> QED
    BY <2>3, <2>4, <2>6, <2>7
<1>7. \A i \in 1..L : T[i] >= Rank(e(i))
  <2> DEFINE Odd == {k \in 0..(L - 1) : ~(T[L - k] >= Rank(e(L - k)))}
  <2>1. Odd = {}
    <3> SUFFICES ASSUME Odd /= {} PROVE FALSE
      OBVIOUS
    <3>1. Odd \in SUBSET Nat
      BY <1>1
    <3>2. PICK k \in Odd : \A m \in Odd : k <= m
      BY <3>1, LeastElement
    <3>3. k \in Nat /\ k <= L - 1 /\ ~(T[L - k] >= Rank(e(L - k)))
      BY <1>1, <3>2
    <3>4. CASE k = 0
      <4>1. L - k = L /\ L \in 1..L
        BY <1>1, <3>4
      <4> QED
        BY <1>3, <1>4, <3>3, <4>1
    <3>5. CASE k > 0
      <4> DEFINE j == L - k + 1
      <4>1. /\ j \in 1..L /\ j > 1 /\ j - 1 = L - k /\ j - 1 \in 1..L /\ j - 1 \in 0..L
            /\ k - 1 \in 0..(L - 1) /\ L - (k - 1) = j /\ ~(k <= k - 1)
        BY <1>1, <3>3, <3>5
      <4>2. T[j] >= Rank(e(j))
        <5>1. k - 1 \notin Odd
          BY <3>2, <4>1
        <5> QED
          BY <4>1, <5>1
      <4> HIDE DEF j
      <4>3. T[j] = T[j - 1] + list[j].size /\ T[j - 1] \in Nat /\ list[j].size \in Nat
        BY <1>1, <4>1
      <4>4. /\ Rank(e(j)) = Rank(s(j)) + list[j].size /\ Rank(s(j)) \in Nat
            /\ Rank(e(j - 1)) <= Rank(s(j)) /\ Rank(e(j - 1)) \in Nat
        BY <1>1, <1>4, <1>5, <4>1
      <4> HIDE DEF s, e, T
      <4>5. T[j - 1] >= Rank(e(j - 1))
        BY <4>2, <4>3, <4>4
      <4>6. ~(T[j - 1] >= Rank(e(j - 1)))
        BY <3>3, <4>1, Zenon
      <4> QED
        BY <4>5, <4>6, Zenon
    <3> QED
      BY <3>3, <3>4, <3>5
  <2> TAKE i \in 1..L
  <2>2. L - i \in 0..(L - 1) /\ L - (L - i) = i
    BY <1>1
  <2> QED
    BY <2>1, <2>2
<1>8. \A i \in 1..L : T[i] = Rank(e(i)) /\ T[i - 1] = Rank(s(i))
  <2> TAKE i \in 1..L
  <2>1. i \in 0..L /\ i - 1 \in 0..L
    BY <1>1
  <2>2. /\ T[i] \in Nat /\ T[i - 1] \in Nat /\ list[i].size \in Nat
        /\ T[i] = T[i - 1] + list[i].size
        /\ Rank(s(i)) \in Nat /\ Rank(e(i)) = Rank(s(i)) + list[i].size
        /\ T[i] <= Rank(e(i)) /\ T[i] >= Rank(e(i))
    BY <1>1, <1>4, <1>6, <1>7, <2>1
  <2> QED
    BY <2>2
<1>9. ASSUME NEW a \in Physical(capacity)
      PROVE  \E i \in 1..L : a \in s(i)..(e(i) - 1)
  <2>1. a \in Nat /\ Rank(a) \in Nat /\ Rank(a) < capacity
    BY LayoutOrder DEF Physical, Rank
  <2> DEFINE Later == {i \in 1..L : Rank(a) < T[i]}
  <2>2. L \in Later
    BY <1>1, <1>3, <2>1
  <2>3. Later \in SUBSET Nat
    BY <1>1
  <2>4. PICK i \in Later : \A k \in Later : i <= k
    BY <2>2, <2>3, LeastElement
  <2>5. i \in 1..L /\ Rank(a) < T[i]
    BY <2>4
  <2>6. T[i - 1] <= Rank(a)
    <3>1. CASE i = 1
      BY <1>1, <2>1, <3>1
    <3>2. CASE i > 1
      <4>1. i - 1 \in 1..L /\ i - 1 \in 0..L /\ ~(i <= i - 1)
        BY <1>1, <2>5, <3>2
      <4>2. i - 1 \notin Later
        BY <2>4, <4>1
      <4>3. T[i - 1] \in Nat
        BY <1>1, <4>1
      <4> QED
        BY <2>1, <4>1, <4>2, <4>3
    <3> QED
      BY <1>1, <2>5, <3>1, <3>2
  <2>7. Rank(s(i)) <= Rank(a) /\ Rank(a) < Rank(e(i))
    BY <1>8, <2>5, <2>6
  <2> QED
    BY <1>2, <1>4, <2>5, <2>7, RankInside
<1>10. ASSUME NEW i \in 1..L, NEW a \in s(i)..(e(i) - 1)
       PROVE  a \in Physical(capacity)
  BY <1>2, <1>4, PlacesArePhysical
<1>11. Cells(list) = UNION {s(i)..(e(i) - 1) : i \in 1..L}
  BY <1>1 DEF Cells, s, e
<1> QED
  BY <1>9, <1>10, <1>11

(***************************************************************************)
(* The layout                                                              *)
(***************************************************************************)
\* A list that was accepted from the tags
LEMMA ParsedBanks ==
    ASSUME NEW x \in Inputs, NEW list \in parse_atags(x.tags)
    PROVE  list \in Seq(WordBank) /\ BanksValid(list)
<1>1. PICK i \in DOMAIN x.tags :
         /\ x.tags[i].kind = "ddr" /\ BanksValid(x.tags[i].banks) /\ list = x.tags[i].banks
  BY DEF parse_atags
<1> QED
  BY <1>1, InputAssumption

\* What is made of a capacity alone
LEMMA SynthesizedLayout ==
    ASSUME NEW capacity \in Nat
    PROVE  LET list == synthesize_geometry(capacity)
           IN  /\ \A i, j \in DOMAIN list :
                     i < j => list[i].start + list[i].size <= list[j].start
               /\ Cells(list) \subseteq Physical(capacity)
<1> DEFINE low == [start |-> 0, size |-> IF capacity < MmioStart THEN capacity ELSE MmioStart]
           high == [start |-> Phys4G, size |-> capacity - Phys4G]
           list == synthesize_geometry(capacity)
<1>1. \/ capacity = 0 /\ list = <<>>
      \/ capacity /= 0 /\ list = <<low>>
      \/ /\ capacity > Phys4G
         /\ DOMAIN list = {1, 2} /\ list[1] = low /\ list[2] = high
  <2>1. list = (IF capacity = 0 THEN <<>> ELSE <<low>>)
               \o (IF capacity > Phys4G THEN <<high>> ELSE <<>>)
    BY DEF synthesize_geometry
  <2>2. capacity > Phys4G => capacity /= 0
    BY LayoutOrder
  <2> HIDE DEF list, low, high
  <2>3. <<>> \o <<>> = <<>>
    OBVIOUS
  <2>4. <<low>> \o <<>> = <<low>>
    <3>1. <<low>> \in Seq({low})
      OBVIOUS
    <3> QED
      BY <3>1
  <2>5. /\ DOMAIN (<<low>> \o <<high>>) = {1, 2}
        /\ (<<low>> \o <<high>>)[1] = low /\ (<<low>> \o <<high>>)[2] = high
    <3>1. <<low>> \in Seq({low, high})
      OBVIOUS
    <3>2. <<high>> \in Seq({low, high})
      OBVIOUS
    <3> QED
      BY <3>1, <3>2
  <2> QED
    BY <2>1, <2>2, <2>3, <2>4, <2>5
<1>2. /\ low.start = 0 /\ low.size \in Nat /\ low.size <= capacity /\ low.size <= MmioStart
      /\ high.start = Phys4G /\ (capacity > Phys4G => high.size = capacity - Phys4G)
  BY LayoutOrder
<1> HIDE DEF list, low, high
<1>3. ASSUME NEW a \in low.start..(low.start + low.size - 1)
      PROVE  a \in Physical(capacity)
  BY <1>2, LayoutOrder DEF Physical
<1>4. ASSUME capacity > Phys4G, NEW a \in high.start..(high.start + high.size - 1)
      PROVE  a \in Physical(capacity)
  BY <1>2, <1>4, LayoutOrder DEF Physical
<1>5. CASE list = <<>>
  BY <1>5 DEF Cells, list
<1>6. CASE list = <<low>>
  <2>1. DOMAIN list = {1} /\ list[1] = low
    BY <1>6
  <2>2. \A i, j \in DOMAIN list : ~(i < j)
    BY <2>1
  <2>3. Cells(list) \subseteq Physical(capacity)
    BY <1>3, <2>1 DEF Cells
  <2> QED
    BY <2>2, <2>3 DEF list
<1>7. CASE /\ capacity > Phys4G
           /\ DOMAIN list = {1, 2} /\ list[1] = low /\ list[2] = high
  <2>1. DOMAIN list = {1, 2} /\ list[1] = low /\ list[2] = high
    BY <1>7
  <2>2. low.start + low.size <= high.start
    BY <1>2, LayoutOrder
  <2>3. \A i, j \in DOMAIN list : i < j => list[i].start + list[i].size <= list[j].start
    BY <2>1, <2>2
  <2>4. Cells(list) \subseteq Physical(capacity)
    BY <1>3, <1>4, <1>7, <2>1 DEF Cells
  <2> QED
    BY <2>3, <2>4 DEF list
<1> QED
  BY <1>1, <1>5, <1>6, <1>7

\* The four ways of rk356x_select_dram_layout
LEMMA SelectedLayout ==
    ASSUME NEW x \in Inputs
    PROVE  LET selected == select_dram_layout(x.tags, x.registers)
               capacity == Capacity(x.registers)
           IN  /\ \A i, j \in DOMAIN selected.banks :
                     i < j => selected.banks[i].start + selected.banks[i].size
                              <= selected.banks[j].start
               /\ capacity /= 0 =>
                     /\ selected.total = capacity
                     /\ Cells(selected.banks) \subseteq Physical(capacity)
                     /\ selected.source = "atags" =>
                           Cells(selected.banks) = Physical(capacity)
               /\ selected.source = "fallback" => capacity = 0 /\ parse_atags(x.tags) = {}
<1> DEFINE chosen == select_dram_layout(x.tags, x.registers)
           parsed == parse_atags(x.tags)
           capacity == Capacity(x.registers)
           matching == {b \in parsed : atags_match_geometry(b, capacity)}
           InOrder(list) == \A i, j \in DOMAIN list :
                               i < j => list[i].start + list[i].size <= list[j].start
<1>1. capacity \in Nat /\ Fallback \in Nat
  BY CapacityType
<1>2. ASSUME NEW list \in parsed
      PROVE  InOrder(list)
  <2>1. list \in Seq(WordBank) /\ BanksValid(list)
    BY ParsedBanks
  <2>2. DOMAIN list = 1..Len(list)
    BY <2>1
  <2> QED
    BY <2>1, <2>2, BanksInOrder
<1>3. CASE capacity /= 0 /\ matching /= {}
  <2> DEFINE list == CHOOSE b \in matching : TRUE
  <2>1. list \in matching
    BY <1>3
  <2>2. /\ list \in parsed /\ atags_match_geometry(list, capacity)
        /\ list \in Seq(WordBank) /\ BanksValid(list)
    BY <2>1, ParsedBanks
  <2>3. chosen = [source |-> "atags", total |-> capacity, banks |-> list]
    BY <1>3 DEF select_dram_layout
  <2> HIDE DEF list, matching, parsed, chosen, capacity
  <2>4. chosen.source = "atags" /\ chosen.total = capacity /\ chosen.banks = list
    BY <2>3
  <2>5. Cells(list) = Physical(capacity) /\ InOrder(list)
    BY <1>1, <1>2, <2>2, MatchingIsAll
  <2> QED
    BY <2>4, <2>5 DEF chosen, capacity
<1>4. CASE capacity /= 0 /\ matching = {}
  <2>1. chosen = [source |-> "pmugrf", total |-> capacity,
                  banks |-> synthesize_geometry(capacity)]
    BY <1>4 DEF select_dram_layout
  <2> HIDE DEF matching, parsed, chosen, capacity
  <2>2. /\ chosen.source = "pmugrf" /\ chosen.total = capacity
        /\ chosen.banks = synthesize_geometry(capacity)
    BY <2>1
  <2>3. InOrder(synthesize_geometry(capacity))
        /\ Cells(synthesize_geometry(capacity)) \subseteq Physical(capacity)
    BY <1>1, SynthesizedLayout
  <2> QED
    BY <2>2, <2>3 DEF chosen, capacity
<1>5. CASE capacity = 0 /\ parsed /= {}
  <2> DEFINE list == CHOOSE b \in parsed : TRUE
  <2>1. list \in parsed
    BY <1>5
  <2>2. chosen = [source |-> "atags", total |-> BankTotal(list)[Len(list)], banks |-> list]
    BY <1>5 DEF select_dram_layout
  <2> HIDE DEF list, matching, parsed, chosen, capacity
  <2>3. chosen.source = "atags" /\ chosen.banks = list
    BY <2>2
  <2>4. InOrder(list)
    BY <1>2, <2>1
  <2> QED
    BY <1>5, <2>3, <2>4 DEF chosen, capacity
<1>6. CASE capacity = 0 /\ parsed = {}
  <2>1. chosen = [source |-> "fallback", total |-> Fallback,
                  banks |-> synthesize_geometry(Fallback)]
    BY <1>6 DEF select_dram_layout
  <2> HIDE DEF matching, parsed, chosen, capacity
  <2>2. chosen.source = "fallback" /\ chosen.banks = synthesize_geometry(Fallback)
    BY <2>1
  <2>3. InOrder(synthesize_geometry(Fallback))
    BY <1>1, SynthesizedLayout
  <2> QED
    BY <1>6, <2>2, <2>3 DEF chosen, capacity, parsed
<1> QED
  BY <1>3, <1>4, <1>5, <1>6

\* The layout is selected once, from what was found.
LayoutInv == pc /= "detect" => layout = select_dram_layout(input.tags, input.registers)

\* The decoded geometry is exact, and it is the authority: no bank leaves the
\* memory it stands for, a bank list from the tags is used with it only if it is
\* all of that memory, and 1 GiB is assumed only without either.
THEOREM CapacityIsHonoured == Spec => []CapacityHonoured
<1>1. Init => LayoutInv
  BY DEF Init, LayoutInv
<1>2. FirmwareInv /\ LayoutInv /\ [Next]_vars => LayoutInv'
  BY DEF Next, LayoutInv, DetectDram, SetDtb, InitDisplay, JumpToPayload, CallMap, Serve,
         ReturnMap, CallDtb, CallScreens, Reset, UseMemory, ChangeItself, vars
<1>3. FirmwareInv /\ LayoutInv => CapacityHonoured
  <2> SUFFICES ASSUME FirmwareInv, LayoutInv
               PROVE  CapacityHonoured
    OBVIOUS
  <2>1. FwTypes /\ input \in Inputs
    BY DEF FirmwareInv, FwTypes
  <2>2. pc /= "detect" => layout = select_dram_layout(input.tags, input.registers)
    BY DEF LayoutInv
  <2>3. GeometryExact
    BY <2>1, DecodeExact
  <2> QED
    BY <2>1, <2>2, <2>3, SelectedLayout DEF CapacityHonoured
<1> QED
  BY <1>1, <1>2, <1>3, FirmwareInvariant, PTL DEF Spec
=============================================================================
