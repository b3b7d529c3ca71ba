--------------------------- MODULE ChainloadProofs ---------------------------
(***************************************************************************)
(* Theorems about Chainload, for every address space, board policy and     *)
(* FIT.  The inductive invariant is built up in parts: here, what the plan *)
(* refers to (PlanInv) and what the staging arena still holds              *)
(* (StagedIntact); and for a board whose address policy has been reviewed  *)
(* (ReviewedLayout), what has been placed (PlaceInv) and what of it is in  *)
(* DRAM (CacheInv).  At the end, that the hash of a message in pieces is   *)
(* that of its padded blocks (Sha256).                                     *)
(***************************************************************************)
EXTENDS Chainload, Sha256, FoldLemmas, SequenceTheorems

-----------------------------------------------------------------------------
(***************************************************************************)
(* memcpy.                                                                 *)
(***************************************************************************)

\* A copy stays within the contents of memory, if its source is in memory.
LEMMA CopyType ==
    ASSUME NEW m \in [Addr -> Content], NEW dst \in Nat, NEW src \in Nat,
           NEW size \in Nat, src + size <= AddrMax + 1
    PROVE  Copy(m, dst, src, size) \in [Addr -> Content]
<1> DEFINE c == Copy(m, dst, src, size)
<1>1. c = [a \in Addr |-> c[a]] /\ DOMAIN m = Addr
  BY DEF Copy
<1>2. ASSUME NEW a \in Addr
      PROVE  c[a] \in Content
  <2>1. a \in Int /\ 0 <= a /\ a <= AddrMax /\ AddrMax \in Nat
    BY SizesAssumption DEF Addr
  <2>2. CASE ~In(a, dst, dst + size)
    BY <2>2, <1>1 DEF Copy
  <2>3. CASE In(a, dst, dst + size) /\ src < dst /\ dst < src + size
    <3>1. (a - dst) % (dst - src) \in 0 .. (dst - src - 1)
      BY <2>1, <2>3 DEF In
    <3>2. src + ((a - dst) % (dst - src)) \in Addr
      BY <3>1, <2>1, <2>3 DEF In, Addr
    <3> QED
      BY <3>2, <2>3, <1>1 DEF Copy
  <2>4. CASE In(a, dst, dst + size) /\ ~(src < dst /\ dst < src + size)
    <3>1. src + (a - dst) \in Addr
      BY <2>1, <2>4 DEF In, Addr
    <3> QED
      BY <3>1, <2>4, <1>1 DEF Copy
  <2> QED
    BY <2>2, <2>3, <2>4
<1> QED
  BY <1>1, <1>2

\* A copy changes nothing outside its destination.
LEMMA CopyElsewhere ==
    ASSUME NEW m \in [Addr -> Content], NEW dst, NEW src, NEW size,
           NEW a \in Addr, ~In(a, dst, dst + size)
    PROVE  Copy(m, dst, src, size)[a] = m[a]
BY DEF Copy

\* A copy to a disjoint destination carries every byte over.
LEMMA CopyDisjoint ==
    ASSUME NEW m \in [Addr -> Content], NEW dst \in Nat, NEW src \in Nat,
           NEW size \in Nat, dst + size <= AddrMax + 1,
           ~Overlap(dst, dst + size, src, src + size),
           NEW k \in 0 .. size - 1
    PROVE  Copy(m, dst, src, size)[dst + k] = m[src + k]
<1>1. dst + k \in Addr /\ In(dst + k, dst, dst + size)
  BY SizesAssumption DEF Addr, In
<1>2. ~(src < dst /\ dst < src + size)
  BY DEF Overlap
<1>3. src + ((dst + k) - dst) = src + k
  OBVIOUS
<1> QED
  BY <1>1, <1>2, <1>3 DEF Copy

-----------------------------------------------------------------------------
(***************************************************************************)
(* What the plan refers to.                                                *)
(***************************************************************************)
Parsed == {"parse", "images", "prepare", "load", "record", "clean", "jump", "bl31"}
Settled == {"prepare", "load", "record", "clean", "jump", "bl31"}
Handing == {"load", "record", "clean", "jump", "bl31"}

\* The FIT was found to fit the staging arena before it was copied there.
StageFits == pc \in Parsed => fit.size <= board.stageEnd - board.stageStart

ImageOK(k) ==
    LET image == plan.images[k] IN
    /\ image.name \in DOMAIN fit.nodes
    /\ image.off + image.size <= fit.size
    /\ image.role = "BL31" => Bl31AddressAllowed(image.load, End(image))
    /\ image.role = "BL33" => /\ k = plan.bl33
                              /\ image.load = board.bl33Entry
                              /\ End(image) <= board.bl33Limit
    /\ image.role = "FDT" => k = plan.fdt

PlanShape ==
    /\ \A k \in DOMAIN plan.images : ImageOK(k)
    /\ plan.bl33 # NoIndex => /\ plan.bl33 \in DOMAIN plan.images
                              /\ plan.images[plan.bl33].role = "BL33"
    /\ plan.fdt # NoIndex => /\ plan.fdt \in DOMAIN plan.images
                             /\ plan.images[plan.fdt].role = "FDT"

PlanInv ==
    /\ TypeOK /\ StageFits /\ PlanShape
    /\ pc \in Settled => LayoutAccepted
    /\ pc \in Handing => prepared
    /\ pc \in {"policy", "stage", "parse", "images", "prepare"} => ~prepared

USE DEF NoIndex, NoEntry

LEMMA NodeFacts ==
    ASSUME TypeOK, NEW name \in DOMAIN fit.nodes
    PROVE  NodeOK(fit.nodes[name], fit.size) /\ fit.size \in Nat
BY InputsAssumption DEF TypeOK, FitOK

LEMMA BoardFacts ==
    ASSUME TypeOK
    PROVE  BoardOK(board) /\ FitOK(fit) /\ board.loaderEnd + fit.size <= AddrMax
BY InputsAssumption DEF TypeOK

LEMMA PowerOnType ==
    ASSUME NEW b \in Boards, NEW f \in Fits
    PROVE  PowerOn(b, f) \in [Addr -> Content]
<1>1. b.loaderEnd \in Nat /\ f.size \in Nat
  BY InputsAssumption, SizesAssumption DEF BoardOK, FitOK, Addr
<1>2. ASSUME NEW a \in Addr
      PROVE  PowerOn(b, f)[a] \in Content
  <2>1. CASE In(a, b.loaderEnd, b.loaderEnd + f.size)
    BY <1>1, <2>1, SizesAssumption DEF PowerOn, Content, In, Addr
  <2>2. CASE ~In(a, b.loaderEnd, b.loaderEnd + f.size)
    BY <2>2, SizesAssumption DEF PowerOn, Content, Addr
  <2> QED
    BY <2>1, <2>2
<1> QED
  BY <1>2 DEF PowerOn

LEMMA PlanInvInit == Init => PlanInv
<1> SUFFICES ASSUME Init PROVE PlanInv
  OBVIOUS
<1>1. plan \in PlanType /\ plan.images = <<>> /\ DOMAIN plan.images = {}
  BY SizesAssumption DEF Init, EmptyPlan, PlanType, Addr
<1>2. TypeOK
  <2>1. mem \in [Addr -> Content]
    BY PowerOnType DEF Init
  <2>2. pc \in Stages /\ i \in Nat \ {0} /\ dirty \subseteq Addr
    BY DEF Init, Stages
  <2>3. prepared \in BOOLEAN /\ recorded \subseteq STRING
    BY DEF Init
  <2> QED
    BY <1>1, <2>1, <2>2, <2>3 DEF Init, TypeOK
<1> QED
  BY <1>1, <1>2 DEF Init, PlanInv, StageFits, PlanShape, Parsed, Settled, Handing, EmptyPlan

-----------------------------------------------------------------------------
\* The plan and what was concluded from it outlive every step but AddImage.
LEMMA PlanKept ==
    ASSUME PlanShape, UNCHANGED <<board, fit, plan>>
    PROVE  PlanShape' /\ (LayoutAccepted' <=> LayoutAccepted)
<1>1. PlanShape'
  BY DEF PlanShape, ImageOK, End, Bl31AddressAllowed
<1>2. LayoutAccepted' <=> LayoutAccepted
  BY DEF LayoutAccepted, PlanComplete, Placed, Bl31Segments, End, ControlFdt,
         ControlFdtEnd, ParamsEnd, ClearOfArenas
<1> QED
  BY <1>1, <1>2

\* Giving up disturbs nothing.
LEMMA PlanInvRecover ==
    ASSUME PlanInv, Recover, UNCHANGED <<board, fit>>
    PROVE  PlanInv'
<1>1. TypeOK' /\ pc' = "recovered"
  BY DEF PlanInv, TypeOK, Recover, Stages
<1>2. PlanShape'
  BY PlanKept DEF PlanInv, Recover
<1> QED
  BY <1>1, <1>2 DEF PlanInv, StageFits, Parsed, Settled, Handing

\* The staging arena holds the bytes of every planned image.
LEMMA StagedBounds ==
    ASSUME PlanInv, pc \in Parsed, NEW k \in DOMAIN plan.images
    PROVE  /\ plan.images[k] \in ImageType
           /\ Staged(plan.images[k].off) \in Nat
           /\ Staged(plan.images[k].off) + plan.images[k].size <= board.stageEnd
           /\ board.stageEnd <= AddrMax
<1>1. plan.images[k] \in ImageType
  BY DEF PlanInv, TypeOK, PlanType
<1>2. board.stageStart \in Addr /\ board.stageEnd \in Addr /\ fit.size \in Nat
  BY BoardFacts DEF PlanInv, BoardOK, FitOK
<1>3. plan.images[k].off + plan.images[k].size <= fit.size
  BY DEF PlanInv, PlanShape, ImageOK
<1> QED
  BY <1>1, <1>2, <1>3, SizesAssumption DEF PlanInv, StageFits, Staged, Addr, ImageType

\* What add_image appends is of the right shape.
LEMMA AddedImage ==
    ASSUME PlanInv, NEW name \in STRING, NEW primary \in BOOLEAN,
           Accepted(name, primary), plan' = Added(name, primary),
           UNCHANGED <<board, fit>>
    PROVE  plan' \in PlanType /\ PlanShape'
<1> DEFINE n == fit.nodes[name]
           at == Len(plan.images) + 1
           new == [name |-> name, role |-> Role(n), off |-> n.off, size |-> n.size,
                   load |-> IF Role(n) = "FDT" THEN 0 ELSE n.load,
                   record |-> Role(n) # "FDT" /\ ~primary]
<1>1. name \in DOMAIN fit.nodes
  BY DEF Accepted
<1>2. NodeOK(n, fit.size) /\ fit.size \in Nat
  BY <1>1, NodeFacts DEF PlanInv
<1>3. \/ FdtAccepted(n) \/ Bl33Accepted(n, primary) \/ Bl31Accepted(n, primary)
  BY DEF Accepted
<1>4. n.size > 0
  BY DEF Accepted
<1>5. new \in ImageType
  <2>1. Role(n) \in {"FDT", "BL31", "BL33"}
    BY <1>3 DEF FdtAccepted, Bl33Accepted, Bl31Accepted
  <2>2. Role(n) # "FDT" => n.load \in Addr
    BY <1>3 DEF FdtAccepted, Bl33Accepted, Bl31Accepted, Executable
  <2>3. 0 \in Addr
    BY SizesAssumption DEF Addr
  <2>4. (Role(n) # "FDT" /\ ~primary) \in BOOLEAN
    OBVIOUS
  <2>5. n.off \in Nat /\ n.size \in Nat \ {0}
    BY <1>2, <1>4 DEF NodeOK
  <2>6. (IF Role(n) = "FDT" THEN 0 ELSE n.load) \in Addr
    BY <2>2, <2>3
  <2> HIDE DEF n
  <2> QED
    BY <2>1, <2>4, <2>5, <2>6 DEF ImageType
<1>6. /\ plan.images \in Seq(ImageType) /\ Len(plan.images) \in Nat
      /\ DOMAIN plan.images = 1 .. Len(plan.images)
      /\ plan.bl31Entry \in Addr /\ plan.bl33 \in Nat /\ plan.fdt \in Nat
  BY DEF PlanInv, TypeOK, PlanType
<1>7. /\ plan'.images = Append(plan.images, new)
      /\ plan'.bl33 = IF Role(n) = "BL33" THEN at ELSE plan.bl33
      /\ plan'.fdt = IF Role(n) = "FDT" THEN at ELSE plan.fdt
      /\ plan'.bl31Entry = IF Role(n) = "BL31" /\ Entry(n, primary) # AddrMax
                           THEN Entry(n, primary) ELSE plan.bl31Entry
      /\ plan' = [images |-> plan'.images, bl31Entry |-> plan'.bl31Entry,
                  bl33 |-> plan'.bl33, fdt |-> plan'.fdt]
  BY DEF Added
<1>8. /\ DOMAIN plan'.images = 1 .. at /\ at \in Nat
      /\ plan'.images[at] = new
      /\ \A k \in DOMAIN plan.images : plan'.images[k] = plan.images[k]
      /\ plan'.images \in Seq(ImageType)
  <2> HIDE DEF new
  <2> QED
    BY <1>5, <1>6, <1>7
<1>9. plan' \in PlanType
  <2>1. plan'.bl31Entry \in Addr
    <3>1. Role(n) = "BL31" /\ Entry(n, primary) # AddrMax => Entry(n, primary) \in Addr
      BY <1>3, BoardFacts
      DEF FdtAccepted, Bl33Accepted, Bl31Accepted, PlanInv, BoardOK
    <3> QED
      BY <3>1, <1>6, <1>7
  <2>2. plan'.bl33 \in Nat /\ plan'.fdt \in Nat
    BY <1>6, <1>7, <1>8
  <2> QED
    BY <1>7, <1>8, <2>1, <2>2 DEF PlanType
<1>10. ASSUME NEW k \in DOMAIN plan.images
       PROVE  ImageOK(k)'
  <2>1. ImageOK(k) /\ k # 0
    BY <1>6 DEF PlanInv, PlanShape
  <2>2. plan.bl33 # 0 => Role(n) # "BL33"
    BY <1>3 DEF FdtAccepted, Bl33Accepted, Bl31Accepted
  <2>3. plan.fdt # 0 => Role(n) # "FDT"
    BY <1>3 DEF FdtAccepted, Bl33Accepted, Bl31Accepted
  <2>4. plan'.images[k] = plan.images[k]
    BY <1>8
  <2>5. plan.images[k].role = "BL33" => k = plan'.bl33
    BY <2>1, <2>2, <1>7 DEF ImageOK
  <2>6. plan.images[k].role = "FDT" => k = plan'.fdt
    BY <2>1, <2>3, <1>7 DEF ImageOK
  <2> QED
    BY <2>1, <2>4, <2>5, <2>6 DEF ImageOK, End, Bl31AddressAllowed
<1>15. PICK p \in Nat : p = at
  BY <1>8
<1>16. PICK image \in ImageType : image = new
  BY <1>5
<1>11. ImageOK(p)'
  <2>1. n.off + n.size <= fit.size
    BY <1>2 DEF NodeOK
  <2>2. Role(n) = "BL31" => Bl31AddressAllowed(n.load, n.load + n.size)
    BY <1>3 DEF FdtAccepted, Bl33Accepted, Bl31Accepted
  <2>3. Role(n) = "BL33" => n.load = board.bl33Entry /\ n.load + n.size <= board.bl33Limit
    BY <1>3 DEF FdtAccepted, Bl33Accepted, Bl31Accepted
  <2>4. /\ image.name = name /\ image.off = n.off /\ image.size = n.size
        /\ image.role = Role(n) /\ (Role(n) # "FDT" => image.load = n.load)
    BY <1>16
  <2> HIDE DEF n, new, at
  <2>5. board' = board /\ fit' = fit /\ plan'.images[p] = image
    BY <1>8, <1>15, <1>16
  <2>6. (image.role = "BL33" => p = plan'.bl33) /\ (image.role = "FDT" => p = plan'.fdt)
    BY <1>7, <1>15, <2>4
  <2>7. image.role = "BL31" => Bl31AddressAllowed(image.load, End(image))'
    BY <2>2, <2>4, <2>5 DEF End, Bl31AddressAllowed
  <2> QED
    BY <1>1, <2>1, <2>3, <2>4, <2>5, <2>6, <2>7 DEF ImageOK, End
<1>12. plan'.bl33 # 0 => /\ plan'.bl33 \in DOMAIN plan'.images
                         /\ plan'.images[plan'.bl33].role = "BL33"
  <2> HIDE DEF n
  <2> QED
    BY <1>6, <1>7, <1>8 DEF PlanInv, PlanShape
<1>13. plan'.fdt # 0 => /\ plan'.fdt \in DOMAIN plan'.images
                        /\ plan'.images[plan'.fdt].role = "FDT"
  <2> HIDE DEF n
  <2> QED
    BY <1>6, <1>7, <1>8 DEF PlanInv, PlanShape
<1>14. ASSUME NEW k \in DOMAIN plan'.images
       PROVE  ImageOK(k)'
  <2>1. k \in DOMAIN plan.images \/ k = p
    BY <1>6, <1>8, <1>15
  <2> QED
    BY <2>1, <1>10, <1>11
<1> QED
  BY <1>9, <1>12, <1>13, <1>14 DEF PlanShape

\* The stage's window and the FIT that is copied there are numbers.
LEMMA StageFacts ==
    ASSUME PlanInv
    PROVE  /\ board.stageStart \in Nat /\ board.stageEnd \in Nat /\ board.loaderEnd \in Nat
           /\ fit.size \in Nat
<1>1. BoardOK(board) /\ FitOK(fit)
  BY BoardFacts, Zenon DEF PlanInv
<1>2. /\ board.stageStart \in Addr /\ board.stageEnd \in Addr /\ board.loaderEnd \in Addr
      /\ fit.size \in Nat
  BY <1>1, Zenon DEF BoardOK, FitOK
<1> QED
  BY <1>2, SizesAssumption DEF Addr

\* Memory keeps its type through each of the three copies.
LEMMA StageCopyType ==
    ASSUME PlanInv, fit.size <= board.stageEnd - board.stageStart
    PROVE  Copy(mem, board.stageStart, board.loaderEnd, fit.size) \in [Addr -> Content]
<1>1. /\ board.stageStart \in Nat /\ board.loaderEnd \in Nat /\ fit.size \in Nat
      /\ board.loaderEnd + fit.size <= AddrMax + 1
  <2>1. board.loaderEnd + fit.size <= AddrMax
    BY BoardFacts, Zenon DEF PlanInv
  <2> QED
    BY <2>1, StageFacts, SizesAssumption
<1> QED
  BY <1>1, CopyType DEF PlanInv, TypeOK

LEMMA ImageCopyType ==
    ASSUME PlanInv, pc \in Parsed, NEW k \in DOMAIN plan.images, NEW dst \in Nat
    PROVE  Copy(mem, dst, Staged(plan.images[k].off), plan.images[k].size)
             \in [Addr -> Content]
<1>1. plan.images[k].size \in Nat
  BY StagedBounds DEF ImageType
<1>2. Staged(plan.images[k].off) + plan.images[k].size <= AddrMax + 1
  BY <1>1, StagedBounds, SizesAssumption, BoardFacts DEF BoardOK, Addr, PlanInv
<1> QED
  BY <1>1, <1>2, StagedBounds, CopyType DEF PlanInv, TypeOK

LEMMA PlanInvNext == PlanInv /\ [Next]_vars => PlanInv'
<1> SUFFICES ASSUME PlanInv, [Next]_vars PROVE PlanInv'
  OBVIOUS
<1> USE DEF Goto, Parsed, Settled, Handing, Stages
<1>1. CASE CheckPolicy
  <2>1. CASE Recover
    BY <2>1, <1>1, PlanInvRecover DEF CheckPolicy
  <2>2. CASE ~Recover
    <3>1. UNCHANGED <<board, fit, plan, mem, dirty, prepared, recorded>> /\ pc' = "stage" /\ i' = 1
          /\ pc = "policy"
      BY <1>1, <2>2 DEF CheckPolicy
    <3>2. PlanShape'
      BY <3>1, PlanKept DEF PlanInv
    <3> QED
      BY <3>1, <3>2 DEF PlanInv, TypeOK, StageFits
  <2> QED
    BY <2>1, <2>2
<1>2. CASE StageFit
  <2>1. CASE Recover
    BY <2>1, <1>2, PlanInvRecover DEF StageFit
  <2>2. CASE ~Recover
    <3>1. /\ UNCHANGED <<board, fit, plan, prepared, recorded>> /\ pc' = "parse" /\ i' = 1
          /\ pc = "stage" /\ fit.size <= board.stageEnd - board.stageStart
          /\ mem' = Copy(mem, board.stageStart, board.loaderEnd, fit.size)
          /\ dirty' = dirty \cup Cacheable(board.stageStart, board.stageStart + fit.size)
      <4>1. /\ board.stageStart \in Nat /\ board.stageEnd \in Nat /\ fit.size \in Nat
        BY StageFacts, Zenon
      <4> QED
        BY <1>2, <2>2, <4>1 DEF StageFit
    <3>2. PlanShape'
      BY <3>1, PlanKept DEF PlanInv
    <3>3. mem' \in [Addr -> Content] /\ dirty' \subseteq Addr
      BY <3>1, StageCopyType DEF PlanInv, TypeOK, Cacheable
    <3> QED
      BY <3>1, <3>2, <3>3 DEF PlanInv, TypeOK, StageFits
  <2> QED
    BY <2>1, <2>2
<1>3. CASE ParseTree
  <2>1. CASE Recover
    BY <2>1, <1>3, PlanInvRecover DEF ParseTree
  <2>2. CASE ~Recover
    <3>1. /\ UNCHANGED <<board, fit, mem, dirty, prepared, recorded>> /\ pc' = "images"
          /\ i' = 1 /\ pc = "parse" /\ plan' = EmptyPlan
      BY <1>3, <2>2 DEF ParseTree
    <3>2. plan' \in PlanType /\ DOMAIN plan'.images = {} /\ plan'.bl33 = 0 /\ plan'.fdt = 0
      BY <3>1, SizesAssumption DEF EmptyPlan, PlanType, Addr
    <3>3. PlanShape'
      BY <3>2 DEF PlanShape
    <3> QED
      BY <3>1, <3>2, <3>3 DEF PlanInv, TypeOK, StageFits
  <2> QED
    BY <2>1, <2>2
<1>4. CASE AddImage
  <2>1. CASE Recover
    BY <2>1, <1>4, PlanInvRecover DEF AddImage
  <2>2. CASE ~Recover
    <3>1. /\ UNCHANGED <<board, fit, pc, mem, dirty, prepared, recorded>> /\ i' = i + 1
          /\ pc = "images" /\ i <= Len(Requested)
          /\ Accepted(Requested[i], i = 1) /\ plan' = Added(Requested[i], i = 1)
      BY <1>4, <2>2 DEF AddImage
    <3>2. Requested[i] \in STRING
      <4>1. Requested \in Seq(STRING) /\ i \in 1 .. Len(Requested)
        BY <3>1, BoardFacts DEF PlanInv, TypeOK, FitOK, Requested
      <4> QED
        BY <4>1
    <3>3. plan' \in PlanType /\ PlanShape'
      BY <3>1, <3>2, AddedImage
    <3> QED
      BY <3>1, <3>3 DEF PlanInv, TypeOK, StageFits
  <2> QED
    BY <2>1, <2>2
<1>5. CASE CheckLayout
  <2>1. CASE Recover
    BY <2>1, <1>5, PlanInvRecover DEF CheckLayout
  <2>2. CASE ~Recover
    <3>1. /\ UNCHANGED <<board, fit, plan, mem, dirty, prepared, recorded>> /\ i' = 1
          /\ pc = "images" /\ pc' = "prepare" /\ LayoutAccepted
      BY <1>5, <2>2 DEF CheckLayout
    <3>2. PlanShape' /\ LayoutAccepted'
      BY <3>1, PlanKept DEF PlanInv
    <3> QED
      BY <3>1, <3>2 DEF PlanInv, TypeOK, StageFits
  <2> QED
    BY <2>1, <2>2
<1>6. CASE PrepareHandoff
  <2>1. CASE Recover
    BY <2>1, <1>6, PlanInvRecover DEF PrepareHandoff
  <2>2. CASE ~Recover
    <3>1. /\ UNCHANGED <<board, fit, plan, mem, dirty, recorded>> /\ i' = 1
          /\ pc = "prepare" /\ pc' = "load" /\ prepared' = TRUE
      BY <1>6, <2>2 DEF PrepareHandoff
    <3>2. PlanShape' /\ LayoutAccepted'
      BY <3>1, PlanKept DEF PlanInv
    <3> QED
      BY <3>1, <3>2 DEF PlanInv, TypeOK, StageFits
  <2> QED
    BY <2>1, <2>2
<1>7. CASE LoadImage
  <2>1. /\ UNCHANGED <<board, fit, pc, plan, prepared, recorded>> /\ i' = i + 1
        /\ pc = "load" /\ i \in DOMAIN plan.images
    BY <1>7 DEF LoadImage, PlanInv, TypeOK, PlanType
  <2>2. PlanShape' /\ LayoutAccepted'
    BY <2>1, PlanKept DEF PlanInv
  <2>3. mem' \in [Addr -> Content] /\ dirty' \subseteq Addr
    <3>1. CASE plan.images[i].role = "FDT"
      BY <3>1, <1>7 DEF LoadImage, PlanInv, TypeOK
    <3>2. CASE plan.images[i].role # "FDT"
      <4>1. plan.images[i].load \in Nat
        BY <2>1, StagedBounds DEF ImageType, Addr
      <4> QED
        BY <3>2, <4>1, <1>7, <2>1, ImageCopyType DEF LoadImage, PlanInv, TypeOK, Cacheable
    <3> QED
      BY <3>1, <3>2
  <2> QED
    BY <2>1, <2>2, <2>3 DEF PlanInv, TypeOK, StageFits
<1>8. CASE OpenControlDtb
  <2>1. CASE Recover
    BY <2>1, <1>8, PlanInvRecover DEF OpenControlDtb
  <2>2. CASE ~Recover
    <3> DEFINE dtb == plan.images[plan.fdt]
    <3>1. /\ UNCHANGED <<board, fit, plan, prepared, recorded>> /\ i' = 1
          /\ pc = "load" /\ pc' = "record"
          /\ mem' = Copy(mem, ControlFdt, Staged(dtb.off), dtb.size)
          /\ dirty' = dirty \cup Cacheable(ControlFdt, ControlFdt + dtb.size)
      BY <1>8, <2>2 DEF OpenControlDtb
    <3>2. PlanShape' /\ LayoutAccepted'
      BY <3>1, PlanKept DEF PlanInv
    <3>3. plan.fdt \in DOMAIN plan.images /\ plan.bl33 \in DOMAIN plan.images
      BY <3>1 DEF PlanInv, PlanShape, LayoutAccepted, PlanComplete
    <3>4. ControlFdt \in Nat
      <4>1. pc \in Parsed /\ plan.images[plan.bl33] \in ImageType
        BY <3>1, <3>3, StagedBounds DEF Parsed
      <4>2. plan.images[plan.bl33].load \in Nat /\ plan.images[plan.bl33].size \in Nat
        BY <4>1 DEF ImageType, Addr
      <4> QED
        BY <4>2 DEF ControlFdt, End
    <3>5. mem' \in [Addr -> Content] /\ dirty' \subseteq Addr
      BY <3>1, <3>3, <3>4, ImageCopyType DEF PlanInv, TypeOK, Cacheable
    <3> HIDE DEF dtb
    <3>6. TypeOK' /\ StageFits'
      <4>1. TypeOK /\ StageFits
        BY Zenon DEF PlanInv
      <4>2. TypeOK'
        BY <3>1, <3>5, <4>1 DEF TypeOK
      <4>3. StageFits'
        BY <3>1, <4>1 DEF StageFits
      <4> QED
        BY <4>2, <4>3
    <3> QED
      BY <3>1, <3>2, <3>6 DEF PlanInv
  <2> QED
    BY <2>1, <2>2
<1>9. CASE RecordImage
  <2>1. /\ UNCHANGED <<board, fit, plan, prepared>> /\ i' \in {i, i + 1}
        /\ pc = "record" /\ i \in DOMAIN plan.images
        /\ pc' \in {"record", "recovered"}
        /\ recorded' \in {recorded, recorded \cup {plan.images[i].name}}
    <3>1. pc = "record" /\ i \in DOMAIN plan.images /\ UNCHANGED <<board, fit>>
      BY <1>9 DEF RecordImage, PlanInv, TypeOK, PlanType
    <3>2. /\ UNCHANGED <<plan, prepared>> /\ (i' = i \/ i' = i + 1)
          /\ pc' \in {"record", "recovered"}
          /\ recorded' = recorded \/ recorded' = recorded \cup {plan.images[i].name}
      BY <1>9 DEF RecordImage
    <3> QED
      BY <3>1, <3>2
  <2>2. PlanShape' /\ LayoutAccepted'
    BY <2>1, PlanKept DEF PlanInv
  <2>3. recorded' \subseteq STRING
    BY <2>1, StagedBounds DEF PlanInv, TypeOK, ImageType
  <2> DEFINE slackStart == ControlFdt + plan.images[plan.fdt].size
             grown == [a \in Addr |-> IF In(a, slackStart, ControlFdtEnd)
                                      THEN <<"slack", 0>> ELSE mem[a]]
  <2>4. mem' \in [Addr -> Content] /\ dirty' \subseteq Addr
    <3>1. \/ UNCHANGED <<mem, dirty>>
          \/ /\ mem' = grown
             /\ dirty' = dirty \cup Cacheable(slackStart, ControlFdtEnd)
      BY <1>9 DEF RecordImage
    <3>2. <<"slack", 0>> \in Content
      BY DEF Content
    <3>3. mem \in [Addr -> Content] /\ dirty \subseteq Addr
      BY DEF PlanInv, TypeOK
    <3>4. grown \in [Addr -> Content] /\ Cacheable(slackStart, ControlFdtEnd) \subseteq Addr
      BY <3>2, <3>3 DEF Cacheable
    <3> HIDE DEF grown, slackStart
    <3> QED
      BY <3>1, <3>3, <3>4
  <2>5. TypeOK'
    BY <2>1, <2>3, <2>4 DEF PlanInv, TypeOK, Stages
  <2> QED
    BY <2>1, <2>2, <2>5 DEF PlanInv, StageFits, Parsed, Settled, Handing
<1>10. CASE BuildParams
  <2>1. /\ UNCHANGED <<board, fit, plan, prepared, recorded>> /\ i' = 1
        /\ pc = "record" /\ pc' = "clean"
    BY <1>10 DEF BuildParams
  <2>2. PlanShape' /\ LayoutAccepted'
    BY <2>1, PlanKept DEF PlanInv
  <2>3. mem' \in [Addr -> Content]
    <3>1. ASSUME NEW a \in Addr, In(a, board.params, ParamsEnd)
          PROVE  <<"params", a - board.params>> \in Content
      BY <3>1, BoardFacts, SizesAssumption DEF PlanInv, BoardOK, Addr, In, Content
    <3> QED
      BY <3>1, <1>10 DEF BuildParams, PlanInv, TypeOK
  <2>4. dirty' \subseteq Addr
    BY <1>10 DEF BuildParams, PlanInv, TypeOK, Cacheable
  <2> QED
    BY <2>1, <2>2, <2>3, <2>4 DEF PlanInv, TypeOK, StageFits
<1>11. CASE CleanImage
  <2>1. /\ UNCHANGED <<board, fit, pc, plan, mem, prepared, recorded>> /\ i' = i + 1
        /\ pc = "clean" /\ dirty' \subseteq dirty
    BY <1>11 DEF CleanImage
  <2>2. PlanShape' /\ LayoutAccepted'
    BY <2>1, PlanKept DEF PlanInv
  <2> QED
    BY <2>1, <2>2 DEF PlanInv, TypeOK, StageFits
<1>12. CASE CleanTables
  <2>1. /\ UNCHANGED <<board, fit, plan, mem, prepared, recorded>> /\ i' = 1
        /\ pc = "clean" /\ pc' = "jump" /\ dirty' \subseteq dirty
    BY <1>12 DEF CleanTables
  <2>2. PlanShape' /\ LayoutAccepted'
    BY <2>1, PlanKept DEF PlanInv
  <2> QED
    BY <2>1, <2>2 DEF PlanInv, TypeOK, StageFits
<1>13. CASE JumpBl31
  <2>1. /\ UNCHANGED <<board, fit, plan, mem, dirty, prepared, recorded>> /\ i' = 1
        /\ pc = "jump" /\ pc' = "bl31"
    BY <1>13 DEF JumpBl31
  <2>2. PlanShape' /\ LayoutAccepted'
    BY <2>1, PlanKept DEF PlanInv
  <2> QED
    BY <2>1, <2>2 DEF PlanInv, TypeOK, StageFits
<1>14. CASE UNCHANGED vars
  <2>1. UNCHANGED <<board, fit, pc, i, plan, mem, dirty, prepared, recorded>>
    BY <1>14 DEF vars
  <2>2. PlanShape' /\ (LayoutAccepted' <=> LayoutAccepted)
    BY <2>1, PlanKept DEF PlanInv
  <2> QED
    BY <2>1, <2>2 DEF PlanInv, TypeOK, StageFits
<1> QED
  BY <1>1, <1>2, <1>3, <1>4, <1>5, <1>6, <1>7, <1>8, <1>9, <1>10, <1>11, <1>12,
     <1>13, <1>14 DEF Next, Halted

\* The plan always describes images of the FIT at permitted addresses.
THEOREM PlanSafe == Spec => []PlanInv
BY PlanInvInit, PlanInvNext, PTL DEF Spec

\* Every variable keeps its type: memory is never read outside the address
\* space, whatever the FIT says.
THEOREM TypeSafe == Spec => []TypeOK
<1>1. PlanInv => TypeOK
  BY DEF PlanInv
<1> QED
  BY <1>1, PlanSafe, PTL

-----------------------------------------------------------------------------
(***************************************************************************)
(* Where an accepted plan puts things.                                     *)
(***************************************************************************)
LEMMA PlacedRange ==
    ASSUME PlanInv, pc \in Settled, NEW k \in Placed
    PROVE  LET image == plan.images[k] IN
           /\ k \in DOMAIN plan.images /\ image \in ImageType
           /\ image.role \in {"BL31", "BL33"}
           /\ image.load \in Nat /\ image.size \in Nat
           /\ End(image) = image.load + image.size
           /\ End(image) <= AddrMax
           /\ image.role = "BL31" => Bl31AddressAllowed(image.load, End(image))
           /\ image.role = "BL33" => /\ k = plan.bl33
                                     /\ image.load = board.bl33Entry
                                     /\ End(image) <= board.bl33Limit
<1> DEFINE image == plan.images[k]
<1>1. k \in DOMAIN plan.images /\ image.role # "FDT" /\ image \in ImageType
  BY DEF Placed, PlanInv, TypeOK, PlanType
<1>2. /\ image.role \in {"BL31", "BL33"} /\ image.load \in Nat /\ image.size \in Nat
      /\ End(image) = image.load + image.size
  BY <1>1 DEF ImageType, Addr, End
<1>3. ImageOK(k)
  BY <1>1 DEF PlanInv, PlanShape
<1>4. BoardOK(board)
  BY BoardFacts DEF PlanInv
<1>5. End(image) <= AddrMax
  <2>1. CASE image.role = "BL31"
    <3>1. PICK r \in board.ranges : End(image) <= r.end
      BY <1>3, <2>1 DEF ImageOK, Bl31AddressAllowed
    <3>2. r.end \in Addr
      BY <1>4 DEF BoardOK, RangeSet
    <3> QED
      BY <1>2, <3>1, <3>2, SizesAssumption DEF Addr
  <2>2. CASE image.role = "BL33"
    BY <1>2, <1>3, <1>4, <2>2, SizesAssumption DEF ImageOK, BoardOK, Addr
  <2> QED
    BY <1>2, <2>1, <2>2
<1> QED
  BY <1>1, <1>2, <1>3, <1>5 DEF ImageOK

LEMMA ControlRange ==
    ASSUME PlanInv, pc \in Settled
    PROVE  LET dtb == plan.images[plan.fdt] IN
           /\ plan.fdt \in DOMAIN plan.images /\ dtb \in ImageType
           /\ dtb.off \in Nat /\ dtb.size \in Nat
           /\ plan.bl33 \in Placed
           /\ ControlFdt = End(plan.images[plan.bl33])
           /\ ControlFdt \in Nat /\ ControlFdtEnd \in Nat
           /\ ControlFdt + dtb.size <= ControlFdtEnd
           /\ board.bl33Entry <= ControlFdt
           /\ ControlFdtEnd <= board.bl33Limit
           /\ ControlFdtEnd <= AddrMax
           /\ ControlFdtEnd = ControlFdt + dtb.size + DtbSlack
<1> DEFINE dtb == plan.images[plan.fdt]
<1>1. LayoutAccepted /\ PlanShape
  BY DEF PlanInv
<1>2. plan.fdt \in DOMAIN plan.images /\ plan.bl33 \in DOMAIN plan.images
  BY <1>1 DEF LayoutAccepted, PlanComplete, PlanShape
<1>3. plan.bl33 \in Placed
  BY <1>1, <1>2 DEF Placed, PlanShape, LayoutAccepted, PlanComplete
<1>4. dtb \in ImageType /\ dtb.off \in Nat /\ dtb.size \in Nat
  <2>1. plan.images \in Seq(ImageType)
    BY DEF PlanInv, TypeOK, PlanType
  <2>2. dtb \in ImageType
    BY <1>2, <2>1
  <2> HIDE DEF dtb
  <2> QED
    BY <2>2 DEF ImageType
<1>5. plan.images[plan.bl33].role = "BL33"
  BY <1>1 DEF LayoutAccepted, PlanComplete, PlanShape
<1>6. /\ ControlFdt = End(plan.images[plan.bl33]) /\ ControlFdt \in Nat
      /\ board.bl33Entry <= ControlFdt
  BY <1>3, <1>5, PlacedRange DEF ControlFdt
<1>7. ControlFdtEnd = ControlFdt + dtb.size + DtbSlack
  BY DEF ControlFdtEnd
<1>8. ControlFdtEnd \in Nat /\ ControlFdt + dtb.size <= ControlFdtEnd
  BY <1>4, <1>6, <1>7, SizesAssumption
<1> QED
  BY <1>1, <1>2, <1>3, <1>4, <1>6, <1>7, <1>8 DEF LayoutAccepted

-----------------------------------------------------------------------------
(***************************************************************************)
(* The source of every copy: the staging arena keeps the verified bytes    *)
(* until the last image and the control DTB are out of it.                 *)
(***************************************************************************)
HeldIn(m, start, off, size) ==
    \A k \in 0 .. size - 1 : m[start + k] = <<"fit", off + k>>

StagedIn(m, image) == HeldIn(m, Staged(image.off), image.off, image.size)

StagedIntact ==
    pc \in {"images", "prepare", "load"} =>
        \A k \in DOMAIN plan.images : StagedIn(mem, plan.images[k])

LEMMA HeldKept ==
    ASSUME NEW m \in [Addr -> Content], NEW w \in [Addr -> Content],
           NEW start \in Nat, NEW off \in Nat, NEW size \in Nat,
           start + size <= AddrMax + 1,
           \A a \in Addr : In(a, start, start + size) => w[a] = m[a],
           HeldIn(m, start, off, size)
    PROVE  HeldIn(w, start, off, size)
<1> SUFFICES ASSUME NEW k \in 0 .. size - 1
             PROVE  w[start + k] = <<"fit", off + k>>
  BY DEF HeldIn
<1>1. start + k \in Addr /\ In(start + k, start, start + size)
  BY SizesAssumption DEF Addr, In
<1> QED
  BY <1>1 DEF HeldIn

LEMMA HeldMoved ==
    ASSUME NEW m \in [Addr -> Content], NEW dst \in Nat, NEW src \in Nat,
           NEW off \in Nat, NEW size \in Nat, dst + size <= AddrMax + 1,
           ~Overlap(dst, dst + size, src, src + size), HeldIn(m, src, off, size)
    PROVE  HeldIn(Copy(m, dst, src, size), dst, off, size)
<1> SUFFICES ASSUME NEW k \in 0 .. size - 1
             PROVE  Copy(m, dst, src, size)[dst + k] = <<"fit", off + k>>
  BY DEF HeldIn
<1>1. Copy(m, dst, src, size)[dst + k] = m[src + k]
  BY CopyDisjoint
<1> QED
  BY <1>1 DEF HeldIn

\* An accepted image is verified where it is staged.
LEMMA AddedStaged ==
    ASSUME PlanInv, pc = "images", StagedIntact, NEW name \in STRING,
           NEW primary \in BOOLEAN,
           Accepted(name, primary), plan' = Added(name, primary),
           UNCHANGED <<board, fit, mem>>
    PROVE  \A k \in DOMAIN plan'.images : StagedIn(mem, plan'.images[k])
<1> DEFINE n == fit.nodes[name]
<1>1. PICK image : /\ plan'.images = Append(plan.images, image)
                   /\ image.off = n.off /\ image.size = n.size
  BY DEF Added
<1>2. plan.images \in Seq(ImageType)
  BY DEF PlanInv, TypeOK, PlanType
<1>3. NodeOK(n, fit.size) /\ HashVerified(n)
  BY NodeFacts DEF Accepted, PlanInv
<1>4. n.off \in Nat /\ n.size \in Nat /\ board.stageStart \in Nat
  BY <1>3, BoardFacts DEF NodeOK, PlanInv, BoardOK, Addr
<1>5. HeldIn(mem, Staged(n.off), n.off, n.size)
  <2> SUFFICES ASSUME NEW k \in 0 .. n.size - 1
               PROVE  mem[Staged(n.off) + k] = <<"fit", n.off + k>>
    BY DEF HeldIn
  <2> HIDE DEF n
  <2>1. n.off + k \in n.off .. n.off + n.size - 1
    BY <1>4
  <2>2. mem[Staged(n.off + k)] = <<"fit", n.off + k>>
    BY <1>3, <2>1 DEF HashVerified
  <2>3. Staged(n.off + k) = Staged(n.off) + k
    BY <1>4 DEF Staged
  <2> QED
    BY <2>2, <2>3
<1>6. ASSUME NEW k \in DOMAIN plan'.images
      PROVE  StagedIn(mem, plan'.images[k])
  <2>1. PICK im : im = plan'.images[k]
    OBVIOUS
  <2>2. StagedIn(mem, im)
    <3> HIDE DEF n
    <3>1. CASE k \in DOMAIN plan.images
      <4>1. im = plan.images[k]
        BY <1>1, <1>2, <2>1, <3>1
      <4> QED
        BY <4>1, <3>1 DEF StagedIntact
    <3>2. CASE k \notin DOMAIN plan.images
      <4>1. im = image
        BY <1>1, <1>2, <2>1, <3>2
      <4> QED
        BY <4>1, <1>1, <1>5 DEF StagedIn
    <3> QED
      BY <3>1, <3>2
  <2> QED
    BY <2>1, <2>2
<1> QED
  BY <1>6

LEMMA StagedIntactNext == PlanInv /\ PlanInv' /\ StagedIntact /\ [Next]_vars => StagedIntact'
<1> SUFFICES ASSUME PlanInv, PlanInv', StagedIntact, [Next]_vars PROVE StagedIntact'
  OBVIOUS
<1>1. CASE pc' \notin {"images", "prepare", "load"}
  BY <1>1 DEF StagedIntact
<1>2. CASE UNCHANGED <<board, plan, mem>> /\ pc \in {"images", "prepare", "load"}
  BY <1>2 DEF StagedIntact, StagedIn, Staged, HeldIn
<1>3. CASE ParseTree
  <2>1. CASE plan' = EmptyPlan
    BY <2>1 DEF StagedIntact, EmptyPlan
  <2>2. CASE plan' # EmptyPlan
    BY <1>3, <2>2, <1>1 DEF ParseTree, Recover
  <2> QED
    BY <2>1, <2>2
<1>4. CASE AddImage
  <2>1. CASE Recover
    BY <2>1, <1>1 DEF Recover
  <2>2. CASE ~Recover
    <3>1. /\ UNCHANGED <<board, fit, mem>> /\ pc = "images" /\ i <= Len(Requested)
          /\ Accepted(Requested[i], i = 1) /\ plan' = Added(Requested[i], i = 1)
      BY <1>4, <2>2 DEF AddImage
    <3>2. Requested[i] \in STRING
      <4>1. Requested \in Seq(STRING) /\ i \in 1 .. Len(Requested)
        BY <3>1, BoardFacts DEF PlanInv, TypeOK, FitOK, Requested
      <4> QED
        BY <4>1
    <3>3. PICK name \in STRING, primary \in BOOLEAN :
            name = Requested[i] /\ primary = (i = 1)
      BY <3>2
    <3>4. \A k \in DOMAIN plan'.images : StagedIn(mem, plan'.images[k])
      BY <3>1, <3>3, AddedStaged
    <3> QED
      BY <3>1, <3>4 DEF StagedIntact, StagedIn, HeldIn, Staged
  <2> QED
    BY <2>1, <2>2
<1>5. CASE LoadImage
  <2>1. /\ UNCHANGED <<board, plan>> /\ pc = "load" /\ i \in DOMAIN plan.images
    BY <1>5 DEF LoadImage, PlanInv, TypeOK, PlanType
  <2>2. CASE plan.images[i].role = "FDT"
    BY <2>1, <2>2, <1>2, <1>5 DEF LoadImage
  <2>3. CASE plan.images[i].role # "FDT"
    <3> DEFINE image == plan.images[i]
    <3>1. /\ i \in Placed /\ image.load \in Nat /\ image.size \in Nat
          /\ End(image) = image.load + image.size
      BY <2>1, <2>3, PlacedRange DEF Placed, Settled
    <3>2. ~Overlap(image.load, image.load + image.size, board.stageStart, board.stageEnd)
      BY <3>1, <2>1 DEF PlanInv, Settled, LayoutAccepted, ClearOfArenas
    <3>3. mem' = Copy(mem, image.load, Staged(image.off), image.size)
      BY <1>5, <2>3 DEF LoadImage
    <3>4. mem \in [Addr -> Content] /\ mem' \in [Addr -> Content]
      BY DEF PlanInv, TypeOK
    <3>5. board.stageStart \in Nat /\ board.stageEnd \in Nat /\ AddrMax \in Nat
      BY BoardFacts, SizesAssumption DEF PlanInv, BoardOK, Addr
    <3>6. ASSUME NEW a \in Addr, In(a, board.stageStart, board.stageEnd)
          PROVE  mem'[a] = mem[a]
      <4>1. ~In(a, image.load, image.load + image.size)
        BY <3>1, <3>2, <3>5, <3>6 DEF In, Overlap, Addr
      <4> QED
        BY <4>1, <3>3, <3>4, CopyElsewhere
    <3>7. ASSUME NEW k \in DOMAIN plan.images
          PROVE  StagedIn(mem', plan.images[k])
      <4> DEFINE start == Staged(plan.images[k].off)
                 size == plan.images[k].size
                 off == plan.images[k].off
      <4>1. /\ start \in Nat /\ size \in Nat /\ off \in Nat
            /\ start + size <= board.stageEnd /\ board.stageEnd <= AddrMax
        BY <2>1, StagedBounds DEF Parsed, ImageType
      <4>2. board.stageStart <= start
        BY <4>1, <3>5 DEF Staged
      <4>3. HeldIn(mem, start, off, size)
        BY <2>1 DEF StagedIntact, StagedIn
      <4> HIDE DEF start, size, off
      <4>4. \A a \in Addr : In(a, start, start + size) => mem'[a] = mem[a]
        BY <3>5, <3>6, <4>1, <4>2 DEF In, Addr
      <4>5. HeldIn(mem', start, off, size)
        BY <3>4, <3>5, <4>1, <4>3, <4>4, HeldKept
      <4> QED
        BY <4>5 DEF StagedIn, start, size, off
    <3> QED
      BY <2>1, <3>7 DEF StagedIntact, StagedIn, Staged
  <2> QED
    BY <2>2, <2>3
<1> QED
  BY <1>1, <1>2, <1>3, <1>4, <1>5
  DEF Next, vars, Goto, Recover, CheckPolicy, StageFit, CheckLayout, PrepareHandoff,
      OpenControlDtb, RecordImage, BuildParams, CleanImage, CleanTables, JumpBl31, Halted

LEMMA FailClosedNext == PlanInv /\ PlanInv' /\ FailClosed /\ [Next]_vars => FailClosed'
<1> SUFFICES ASSUME PlanInv, FailClosed, [Next]_vars PROVE FailClosed'
  OBVIOUS
<1>1. CASE UNCHANGED <<board, fit, mem, prepared>>
  BY <1>1 DEF FailClosed
<1>2. CASE prepared'
  BY <1>2 DEF FailClosed
<1>3. CASE StageFit
  <2>1. CASE Recover
    BY <2>1, <1>1, <1>3 DEF StageFit, Recover
  <2>2. CASE ~Recover
    <3>1. /\ UNCHANGED <<board, fit, prepared>>
          /\ mem' = Copy(mem, board.stageStart, board.loaderEnd, fit.size)
          /\ fit.size <= board.stageEnd - board.stageStart
      <4>1. /\ board.stageStart \in Nat /\ board.stageEnd \in Nat /\ fit.size \in Nat
        BY StageFacts, Zenon
      <4> QED
        BY <1>3, <2>2, <4>1 DEF StageFit
    <3>2. /\ board.stageStart \in Nat /\ board.stageEnd \in Nat /\ fit.size \in Nat
          /\ AddrMax \in Nat /\ mem \in [Addr -> Content]
      BY StageFacts, SizesAssumption, Zenon DEF PlanInv, TypeOK
    <3>3. ASSUME NEW a \in Addr, ~In(a, board.stageStart, board.stageEnd)
          PROVE  mem'[a] = mem[a]
      <4>1. ~In(a, board.stageStart, board.stageStart + fit.size)
        BY <3>1, <3>2, <3>3 DEF In, Addr
      <4> QED
        BY <4>1, <3>1, <3>2, CopyElsewhere
    <3> QED
      BY <3>1, <3>3 DEF FailClosed
  <2> QED
    BY <2>1, <2>2
<1>4. CASE pc \in Handing
  <2>1. prepared /\ prepared' = prepared
    BY <1>4 DEF PlanInv, Handing, Next, vars, Recover, CheckPolicy, StageFit, ParseTree,
       AddImage, CheckLayout, PrepareHandoff, LoadImage, OpenControlDtb, RecordImage,
       BuildParams, CleanImage, CleanTables, JumpBl31, Halted
  <2> QED
    BY <2>1, <1>2
<1>5. CASE pc \notin Handing /\ ~StageFit /\ ~prepared'
  <2>1. UNCHANGED <<board, fit, mem, prepared>>
    BY <1>5 DEF PlanInv, Handing, Next, vars, Recover, CheckPolicy, ParseTree,
       AddImage, CheckLayout, PrepareHandoff, LoadImage, OpenControlDtb, RecordImage,
       BuildParams, CleanImage, CleanTables, JumpBl31, Halted
  <2> QED
    BY <2>1, <1>1
<1> QED
  BY <1>2, <1>3, <1>4, <1>5

\* Whatever the FIT and whatever the board: until everything is verified and
\* the platform prepared, only the staging arena is written.
THEOREM FailsClosed == Spec => []FailClosed
<1>1. Init => FailClosed
  BY DEF Init, FailClosed
<1> QED
  BY <1>1, PlanSafe, FailClosedNext, PTL DEF Spec

-----------------------------------------------------------------------------
(***************************************************************************)
(* What is recorded in the control DTB.                                    *)
(***************************************************************************)
NeedsRecord(k) == k > 1 /\ fit.nodes[Requested[k]].type # "flat_dt"
RecordedUpTo(n) == {Requested[k] : k \in {l \in 1 .. n : NeedsRecord(l)}}

\* The plan holds the images in the order they were requested, and the second
\* loop of chain_fit_load has recorded those it has passed.
RecordInv ==
    /\ pc \in Settled \cup {"images"} =>
         \A k \in DOMAIN plan.images :
            /\ k <= Len(Requested) /\ plan.images[k].name = Requested[k]
            /\ plan.images[k].record <=> NeedsRecord(k)
    /\ pc = "images" => Len(plan.images) = i - 1 /\ i <= Len(Requested) + 1
    /\ pc \in Settled => Len(plan.images) = Len(Requested)
    /\ pc \in {"policy", "stage", "parse", "images", "prepare", "load"} => recorded = {}
    /\ pc = "record" => i <= Len(Requested) + 1 /\ recorded = RecordedUpTo(i - 1)
    /\ pc \in {"clean", "jump", "bl31"} => recorded = RecordedUpTo(Len(Requested))

LEMMA RequestedImages ==
    ASSUME PlanInv
    PROVE  /\ Requested \in Seq(STRING) /\ Len(Requested) = Len(fit.loadables) + 2
           /\ Requested[1] = fit.firmware
           /\ \A k \in DOMAIN fit.loadables : Requested[k + 1] = fit.loadables[k]
           /\ Requested[Len(fit.loadables) + 2] = fit.fdt
<1>1. fit.loadables \in Seq(STRING) /\ fit.firmware \in STRING /\ fit.fdt \in STRING
  BY BoardFacts DEF PlanInv, FitOK
<1> DEFINE front == <<fit.firmware>> \o fit.loadables
<1>2. /\ front \in Seq(STRING) /\ Len(front) = Len(fit.loadables) + 1
      /\ front[1] = fit.firmware
      /\ \A k \in DOMAIN fit.loadables : front[k + 1] = fit.loadables[k]
  BY <1>1
<1>3. Requested = front \o <<fit.fdt>>
  BY DEF Requested
<1> HIDE DEF front
<1>4. Len(fit.loadables) \in Nat /\ DOMAIN fit.loadables = 1 .. Len(fit.loadables)
  BY <1>1
<1> QED
  BY <1>1, <1>2, <1>3, <1>4

LEMMA RecordInvNext == PlanInv /\ RecordInv /\ [Next]_vars => RecordInv'
<1> SUFFICES ASSUME PlanInv, RecordInv, [Next]_vars PROVE RecordInv'
  OBVIOUS
<1>1. fit' = fit /\ Requested' = Requested
  BY DEF Next, vars, Requested, CheckPolicy, StageFit, ParseTree, AddImage, CheckLayout,
     PrepareHandoff, LoadImage, OpenControlDtb, RecordImage, BuildParams, CleanImage,
     CleanTables, JumpBl31, Halted
<1>2. (\A k : NeedsRecord(k)' <=> NeedsRecord(k)) /\ (\A n : RecordedUpTo(n)' = RecordedUpTo(n))
  BY <1>1 DEF NeedsRecord, RecordedUpTo
<1>3. /\ Requested \in Seq(STRING) /\ Len(Requested) \in Nat
      /\ i \in Nat /\ plan.images \in Seq(ImageType)
      /\ DOMAIN plan.images = 1 .. Len(plan.images) /\ Len(plan.images) \in Nat
  BY RequestedImages DEF PlanInv, TypeOK, PlanType
<1>4. ASSUME plan' = plan, pc' \in Settled \cup {"images"} => pc \in Settled \cup {"images"}
      PROVE  pc' \in Settled \cup {"images"} =>
               \A k \in DOMAIN plan'.images :
                  /\ k <= Len(Requested') /\ plan'.images[k].name = Requested'[k]
                  /\ plan'.images[k].record <=> NeedsRecord(k)'
  BY <1>1, <1>2, <1>4 DEF RecordInv
<1>5. CASE pc' = "recovered"
  BY <1>5 DEF RecordInv, Settled
<1>6. CASE UNCHANGED vars
  BY <1>1, <1>2, <1>4, <1>6 DEF RecordInv, vars
<1>7. CASE (CheckPolicy \/ StageFit) /\ pc' # "recovered"
  BY <1>7 DEF RecordInv, CheckPolicy, StageFit, Recover, Goto, Settled
<1>8. CASE ParseTree /\ pc' # "recovered"
  <2>1. plan'.images = <<>> /\ i' = 1 /\ pc' = "images" /\ recorded' = recorded /\ pc = "parse"
    BY <1>8 DEF ParseTree, Recover, Goto, EmptyPlan
  <2> QED
    BY <1>1, <1>3, <2>1 DEF RecordInv, Settled
<1>9. CASE AddImage /\ pc' # "recovered"
  <2> DEFINE n == fit.nodes[Requested[i]]
             image == plan'.images[i]
  <2>1. /\ pc = "images" /\ pc' = "images" /\ i <= Len(Requested) /\ i' = i + 1
        /\ plan' = Added(Requested[i], i = 1) /\ recorded' = recorded
    BY <1>9 DEF AddImage, Recover
  <2>2. Len(plan.images) = i - 1 /\ recorded = {}
    BY <2>1 DEF RecordInv
  <2>3. \E r : /\ plan'.images = Append(plan.images, r)
               /\ r.name = Requested[i]
               /\ r.record <=> n.type # "flat_dt" /\ i # 1
    <3>1. Role(n) # "FDT" <=> n.type # "flat_dt"
      BY DEF Role
    <3> DEFINE r == [name |-> Requested[i], role |-> Role(n), off |-> n.off, size |-> n.size,
                     load |-> IF Role(n) = "FDT" THEN 0 ELSE n.load,
                     record |-> Role(n) # "FDT" /\ ~(i = 1)]
    <3>2. plan'.images = Append(plan.images, r)
      BY <2>1 DEF Added
    <3>3. r.name = Requested[i] /\ (r.record <=> Role(n) # "FDT" /\ ~(i = 1))
      OBVIOUS
    <3> HIDE DEF r
    <3> QED
      BY <3>1, <3>2, <3>3
  <2>4. /\ Len(plan'.images) = i /\ DOMAIN plan'.images = 1 .. i
        /\ \A k \in 1 .. i - 1 : plan'.images[k] = plan.images[k]
        /\ image.name = Requested[i] /\ (image.record <=> n.type # "flat_dt" /\ i # 1)
    BY <1>3, <2>2, <2>3
  <2>5. image.record <=> NeedsRecord(i)
    BY <1>3, <2>2, <2>4 DEF NeedsRecord
  <2>6. ASSUME NEW k \in DOMAIN plan'.images
        PROVE  /\ k <= Len(Requested) /\ plan'.images[k].name = Requested[k]
               /\ plan'.images[k].record <=> NeedsRecord(k)
    <3>1. CASE k = i
      BY <2>1, <2>4, <2>5, <3>1
    <3>2. CASE k # i
      <4>1. k \in DOMAIN plan.images /\ plan'.images[k] = plan.images[k]
        BY <1>3, <2>2, <2>4, <3>2
      <4> QED
        BY <2>1, <4>1 DEF RecordInv
    <3> QED
      BY <3>1, <3>2
  <2> QED
    BY <1>1, <1>2, <1>3, <2>1, <2>2, <2>4, <2>6 DEF RecordInv, Settled
<1>10. CASE (CheckLayout \/ PrepareHandoff \/ LoadImage) /\ pc' # "recovered"
  <2>1. /\ plan' = plan /\ recorded' = recorded
        /\ \/ pc = "images" /\ pc' = "prepare" /\ i > Len(Requested)
           \/ pc \in {"prepare", "load"} /\ pc' = "load"
    BY <1>10 DEF CheckLayout, PrepareHandoff, LoadImage, Recover, Goto
  <2>2. pc = "images" => Len(plan.images) = Len(Requested)
    BY <1>3, <2>1 DEF RecordInv
  <2> QED
    BY <1>1, <1>4, <2>1, <2>2 DEF RecordInv, Settled
<1>11. CASE OpenControlDtb /\ pc' # "recovered"
  <2>1. plan' = plan /\ recorded' = recorded /\ pc = "load" /\ pc' = "record" /\ i' = 1
    BY <1>11 DEF OpenControlDtb, Recover, Goto
  <2>2. recorded' = RecordedUpTo(i' - 1)
    <3>1. i' - 1 = 0 /\ RecordedUpTo(0) = {}
      BY <2>1 DEF RecordedUpTo
    <3> QED
      BY <2>1, <3>1 DEF RecordInv
  <2>3. Len(plan.images) = Len(Requested)
    BY <2>1 DEF RecordInv, Settled
  <2> QED
    BY <1>1, <1>2, <1>3, <1>4, <2>1, <2>2, <2>3 DEF RecordInv, Settled
<1>12. CASE RecordImage /\ pc' # "recovered"
  <2>1. /\ plan' = plan /\ pc = "record" /\ pc' = "record" /\ i <= Len(plan.images) /\ i' = i + 1
        /\ recorded' = recorded \cup (IF plan.images[i].record THEN {plan.images[i].name} ELSE {})
    BY <1>12 DEF RecordImage
  <2>2. i \in DOMAIN plan.images /\ i >= 1 /\ Len(plan.images) = Len(Requested)
    BY <1>3, <2>1 DEF RecordInv, Settled, PlanInv, TypeOK
  <2>3. plan.images[i].name = Requested[i] /\ (plan.images[i].record <=> NeedsRecord(i))
    BY <2>1, <2>2 DEF RecordInv, Settled
  <2>4. recorded = RecordedUpTo(i - 1)
    BY <2>1 DEF RecordInv
  <2>5. 1 .. i = (1 .. i - 1) \cup {i}
    BY <2>2
  <2>6. RecordedUpTo(i) = RecordedUpTo(i - 1) \cup (IF NeedsRecord(i) THEN {Requested[i]} ELSE {})
    BY <2>5 DEF RecordedUpTo
  <2>7. recorded' = RecordedUpTo(i' - 1)
    <3>1. i' - 1 = i
      BY <1>3, <2>1
    <3> QED
      BY <2>1, <2>3, <2>4, <2>6, <3>1
  <2> QED
    BY <1>1, <1>2, <1>3, <1>4, <2>1, <2>2, <2>7 DEF RecordInv, Settled
<1>13. CASE BuildParams \/ CleanImage \/ CleanTables \/ JumpBl31
  <2>1. /\ plan' = plan /\ recorded' = recorded
        /\ \/ pc = "record" /\ pc' = "clean" /\ i > Len(plan.images)
           \/ pc \in {"clean", "jump", "bl31"} /\ pc' \in {"clean", "jump", "bl31"}
    BY <1>13 DEF BuildParams, CleanImage, CleanTables, JumpBl31, Goto
  <2>2. pc = "record" => i - 1 = Len(Requested)
    BY <1>3, <2>1 DEF RecordInv, Settled
  <2>3. recorded = RecordedUpTo(Len(Requested))
    BY <2>1, <2>2 DEF RecordInv
  <2> QED
    BY <1>1, <1>2, <1>4, <2>1, <2>3 DEF RecordInv, Settled
<1> QED
  BY <1>5, <1>6, <1>7, <1>8, <1>9, <1>10, <1>11, <1>12, <1>13 DEF Next, Halted

\* The control DTB that U-Boot gets lists every loaded image but the primary
\* one and nothing else, however many loadables a FIT has.
THEOREM LoadablesAreRecorded == Spec => []LoadablesRecorded
<1>1. Init => RecordInv
  BY DEF Init, RecordInv, Settled
<1>2. PlanInv /\ RecordInv => LoadablesRecorded
  <2> SUFFICES ASSUME PlanInv, RecordInv, pc \in {"clean", "jump", "bl31"}
               PROVE  LoadablesRecorded
    BY DEF LoadablesRecorded
  <2> DEFINE m == Len(fit.loadables)
             listed == {fit.loadables[k] : k \in {l \in DOMAIN fit.loadables :
                           fit.nodes[fit.loadables[l]].type # "flat_dt"}}
             last == IF fit.nodes[fit.fdt].type # "flat_dt" THEN {fit.fdt} ELSE {}
  <2>1. /\ fit.loadables \in Seq(STRING) /\ m \in Nat /\ DOMAIN fit.loadables = 1 .. m
        /\ Len(Requested) = m + 2
    BY RequestedImages, BoardFacts DEF PlanInv, FitOK
  <2>2. recorded = RecordedUpTo(m + 2)
    BY <2>1 DEF RecordInv
  <2>3. RecordedUpTo(m + 2) \subseteq listed \cup last
    <3> SUFFICES ASSUME NEW k \in 1 .. m + 2, NeedsRecord(k)
                 PROVE  Requested[k] \in listed \cup last
      BY DEF RecordedUpTo
    <3>1. CASE k = m + 2
      BY <3>1, RequestedImages DEF NeedsRecord
    <3>2. CASE k # m + 2
      <4>1. k - 1 \in 1 .. m /\ (k - 1) + 1 = k
        BY <2>1, <3>2 DEF NeedsRecord
      <4>2. Requested[k] = fit.loadables[k - 1]
        BY <2>1, <4>1, RequestedImages
      <4> QED
        BY <2>1, <4>1, <4>2 DEF NeedsRecord
    <3> QED
      BY <3>1, <3>2
  <2>4. listed \subseteq RecordedUpTo(m + 2)
    <3> SUFFICES ASSUME NEW l \in 1 .. m, fit.nodes[fit.loadables[l]].type # "flat_dt"
                 PROVE  fit.loadables[l] \in RecordedUpTo(m + 2)
      BY <2>1
    <3>1. Requested[l + 1] = fit.loadables[l] /\ l + 1 \in 1 .. m + 2 /\ l + 1 > 1
      <4>1. l + 1 \in 1 .. m + 2 /\ l + 1 > 1
        BY <2>1
      <4>2. \A k \in 1 .. m : Requested[k + 1] = fit.loadables[k]
        BY <2>1, RequestedImages, Zenon
      <4> QED
        BY <4>1, <4>2, Zenon
    <3> QED
      BY <3>1 DEF RecordedUpTo, NeedsRecord
  <2>5. last \subseteq RecordedUpTo(m + 2)
    <3>1. Requested[m + 2] = fit.fdt /\ m + 2 \in 1 .. m + 2 /\ m + 2 > 1
      BY <2>1, RequestedImages
    <3> QED
      BY <3>1 DEF RecordedUpTo, NeedsRecord
  <2> QED
    BY <2>2, <2>3, <2>4, <2>5 DEF LoadablesRecorded
<1> QED
  BY <1>1, <1>2, PlanSafe, RecordInvNext, PTL DEF Spec

-----------------------------------------------------------------------------
(***************************************************************************)
(* How many steps a boot has left                                          *)
(***************************************************************************)
Loops == {"images", "load", "record", "clean"}

\* The turns of one loop and the step that leaves it.
Round == Len(Requested) + 1

\* What comes after the stage, or after its loop, of a boot that does not give up.
After ==
    CASE pc = "policy" -> 4 * Round + 5 [] pc = "stage" -> 4 * Round + 4
      [] pc = "parse" -> 4 * Round + 3 [] pc \in {"images", "prepare"} -> 3 * Round + 2
      [] pc = "load" -> 2 * Round + 1 [] pc = "record" -> Round + 1
      [] pc \in {"clean", "jump"} -> 1 [] OTHER -> 0

Remaining == After + (IF pc \in Loops THEN Round + 1 - i ELSE 0)

LoopInv == pc \in Loops => i <= Round

StepsInv ==
    Remaining \in Nat /\ (Remaining = 0 <=> pc \in {"bl31", "recovered"})

LEMMA RoundFacts ==
    ASSUME PlanInv
    PROVE  Round \in Nat \ {0} /\ i \in Nat \ {0} /\ Len(plan.images) \in Nat /\ pc \in Stages
<1>1. Requested \in Seq(STRING)
  BY RequestedImages
<1> QED
  BY <1>1 DEF Round, PlanInv, TypeOK, PlanType

LEMMA StepsAreCounted ==
    ASSUME PlanInv, LoopInv
    PROVE  StepsInv
<1>1. Round \in Nat \ {0} /\ i \in Nat \ {0} /\ pc \in Stages /\ (pc \in Loops => i <= Round)
  BY RoundFacts DEF LoopInv
<1> HIDE DEF Round
<1>2. After \in Nat /\ (After = 0 <=> pc \in {"bl31", "recovered"})
  BY <1>1 DEF After, Stages
<1>3. CASE pc \in Loops
  BY <1>1, <1>2, <1>3 DEF StepsInv, Remaining, Loops
<1>4. CASE pc \notin Loops
  BY <1>2, <1>4 DEF StepsInv, Remaining
<1> QED
  BY <1>3, <1>4

\* The stages follow one another and a loop has as many turns as there are images.
LEMMA StageSteps ==
    ASSUME PlanInv, RecordInv, LoopInv, Next, ~UNCHANGED vars, pc' # "recovered"
    PROVE  \/ pc = "policy" /\ pc' = "stage"
           \/ pc = "stage" /\ pc' = "parse"
           \/ pc = "parse" /\ pc' = "images" /\ i' = 1
           \/ pc \in Loops /\ pc' = pc /\ i' = i + 1 /\ i < Round
           \/ pc = "images" /\ pc' = "prepare" /\ i = Round
           \/ pc = "prepare" /\ pc' = "load" /\ i' = 1
           \/ pc = "load" /\ pc' = "record" /\ i' = 1 /\ i = Round
           \/ pc = "record" /\ pc' = "clean" /\ i' = 1 /\ i = Round
           \/ pc = "clean" /\ pc' = "jump" /\ i = Round
           \/ pc = "jump" /\ pc' = "bl31"
<1>1. /\ Round \in Nat /\ i \in Nat /\ Len(Requested) \in Nat /\ Round = Len(Requested) + 1
      /\ (pc \in Loops => i <= Round)
  BY RoundFacts, RequestedImages DEF LoopInv, Round
<1>2. pc \in {"load", "record", "clean"} => Len(plan.images) = Len(Requested)
  BY DEF RecordInv, Settled
<1>3. CASE CheckPolicy \/ StageFit \/ ParseTree
  BY <1>3 DEF CheckPolicy, StageFit, ParseTree, Goto, Recover
<1>4. CASE AddImage \/ CheckLayout
  BY <1>1, <1>4 DEF AddImage, CheckLayout, Goto, Recover, Loops
<1>5. CASE PrepareHandoff
  BY <1>5 DEF PrepareHandoff, Goto, Recover
<1>6. CASE LoadImage \/ OpenControlDtb
  BY <1>1, <1>2, <1>6 DEF LoadImage, OpenControlDtb, Goto, Recover, Loops
<1>7. CASE RecordImage \/ BuildParams
  BY <1>1, <1>2, <1>7 DEF RecordImage, BuildParams, Goto, Loops
<1>8. CASE CleanImage \/ CleanTables
  BY <1>1, <1>2, <1>8 DEF CleanImage, CleanTables, Goto, Loops
<1>9. CASE JumpBl31
  BY <1>9 DEF JumpBl31, Goto
<1>10. ~Halted
  BY DEF Halted
<1> QED
  BY <1>3, <1>4, <1>5, <1>6, <1>7, <1>8, <1>9, <1>10, Zenon DEF Next

LEMMA LoopInvNext == PlanInv /\ RecordInv /\ LoopInv /\ [Next]_vars => LoopInv'
<1> SUFFICES ASSUME PlanInv, RecordInv, LoopInv, [Next]_vars PROVE LoopInv'
  OBVIOUS
<1>1. Round \in Nat \ {0} /\ i \in Nat \ {0}
  BY RoundFacts
<1>2. Requested' = Requested
  BY DEF Next, vars, Requested, CheckPolicy, StageFit, ParseTree, AddImage, CheckLayout,
     PrepareHandoff, LoadImage, OpenControlDtb, RecordImage, BuildParams, CleanImage,
     CleanTables, JumpBl31, Halted
<1>3. Round' = Round
  BY <1>2 DEF Round
<1> HIDE DEF Round
<1>4. CASE UNCHANGED vars
  BY <1>3, <1>4 DEF LoopInv, vars
<1>5. CASE pc' = "recovered"
  BY <1>5 DEF LoopInv, Loops
<1>6. CASE ~UNCHANGED vars /\ pc' # "recovered"
  BY <1>1, <1>3, <1>6, StageSteps DEF LoopInv, Loops
<1> QED
  BY <1>4, <1>5, <1>6

\* A boot always comes nearer to its end, by exactly one step unless it gives up: with n names in the
\* configuration it takes 4 n + 9 steps to reach BL31, and never more (main.c chainload_run, fit.c).
\* This is the half of Terminates that is about safety; that the steps are taken is the other.
THEOREM BootComesNearer ==
    Spec => /\ []StepsInv
            /\ [][\/ Remaining' = Remaining - 1
                  \/ pc' = "recovered" /\ Remaining' < Remaining]_vars
<1> DEFINE Nearer == \/ Remaining' = Remaining - 1
                     \/ pc' = "recovered" /\ Remaining' < Remaining
<1>1. Init => RecordInv /\ LoopInv
  BY DEF Init, RecordInv, Settled, LoopInv, Loops
<1>2. Spec => [](RecordInv /\ LoopInv)
  BY <1>1, PlanSafe, RecordInvNext, LoopInvNext, PTL DEF Spec
<1>3. PlanInv /\ LoopInv => StepsInv
  BY StepsAreCounted
<1>4. ASSUME PlanInv, RecordInv, LoopInv, StepsInv, StepsInv', [Next]_vars PROVE [Nearer]_vars
  <2> SUFFICES ASSUME Next, ~UNCHANGED vars PROVE Nearer
    BY <1>4
  <2>1. Round \in Nat \ {0} /\ i \in Nat \ {0} /\ pc \in Stages
    BY <1>4, RoundFacts
  <2>2. Round' = Round
    BY <1>4 DEF Round, Requested, Next, vars, CheckPolicy, StageFit, ParseTree, AddImage, CheckLayout,
       PrepareHandoff, LoadImage, OpenControlDtb, RecordImage, BuildParams, CleanImage,
       CleanTables, JumpBl31, Halted
  <2>3. CASE pc' = "recovered"
    <3>1. pc # "recovered" /\ pc # "bl31"
      BY <2>3 DEF Next, vars, CheckPolicy, StageFit, ParseTree, AddImage, CheckLayout,
         PrepareHandoff, LoadImage, OpenControlDtb, RecordImage, BuildParams, CleanImage,
         CleanTables, JumpBl31, Halted
    <3>2. Remaining \in Nat /\ Remaining # 0 /\ Remaining' = 0
      BY <1>4, <2>3, <3>1 DEF StepsInv
    <3> QED
      BY <2>3, <3>2
  <2>4. CASE pc' # "recovered"
    <3> HIDE DEF Round
    <3>1. Remaining' = Remaining - 1
      BY <1>4, <2>1, <2>2, <2>4, StageSteps DEF Remaining, After, Loops
    <3> QED
      BY <3>1
  <2> QED
    BY <2>3, <2>4
<1> HIDE DEF Nearer
<1>5. Spec => []StepsInv
  BY <1>2, <1>3, PlanSafe, PTL
<1>6. Spec => [][Nearer]_vars
  BY <1>2, <1>4, <1>5, PlanSafe, PTL DEF Spec
<1> QED
  BY <1>5, <1>6 DEF Nearer

-----------------------------------------------------------------------------
(***************************************************************************)
(* The hand-over to BL31, for every FIT and every reviewed board           *)
(***************************************************************************)
Reviewed == \A b \in Boards : ReviewedLayout(b)

DtbSize == plan.images[plan.fdt].size

-----------------------------------------------------------------------------
\* The only places a step writes to.
LEMMA WriteBounds ==
    ASSUME PlanInv, [Next]_vars, NEW a \in Addr, mem'[a] # mem[a]
    PROVE  \/ pc = "stage" /\ pc' = "parse" /\ In(a, board.stageStart, board.stageEnd)
           \/ /\ pc = "load" /\ pc' = "load" /\ i \in Placed /\ i' = i + 1
              /\ In(a, plan.images[i].load, End(plan.images[i]))
           \/ pc = "load" /\ pc' = "record" /\ In(a, ControlFdt, ControlFdtEnd)
           \/ /\ pc = "record" /\ pc' \in {"record", "recovered"}
              /\ In(a, ControlFdt + DtbSize, ControlFdtEnd)
           \/ pc = "record" /\ pc' = "clean" /\ In(a, board.params, ParamsEnd)
<1>1. mem \in [Addr -> Content] /\ AddrMax \in Nat
  BY SizesAssumption DEF PlanInv, TypeOK
<1>2. CASE StageFit
  <2>1. /\ pc = "stage" /\ pc' = "parse"
        /\ mem' = Copy(mem, board.stageStart, board.loaderEnd, fit.size)
        /\ ~(fit.size > board.stageEnd - board.stageStart)
    BY <1>2 DEF StageFit, Recover, Goto
  <2>2. board.stageStart \in Nat /\ board.stageEnd \in Nat /\ fit.size \in Nat
    BY BoardFacts, <1>1 DEF PlanInv, BoardOK, FitOK, Addr
  <2>3. In(a, board.stageStart, board.stageStart + fit.size)
    BY <1>1, <2>1, CopyElsewhere
  <2> QED
    BY <1>1, <2>1, <2>2, <2>3 DEF In, Addr
<1>3. CASE LoadImage
  <2>1. /\ pc = "load" /\ pc' = "load" /\ i \in DOMAIN plan.images /\ i' = i + 1
    BY <1>3 DEF LoadImage, PlanInv, TypeOK, PlanType
  <2>2. /\ plan.images[i].role # "FDT"
        /\ mem' = Copy(mem, plan.images[i].load, Staged(plan.images[i].off),
                       plan.images[i].size)
    BY <1>3 DEF LoadImage
  <2>3. In(a, plan.images[i].load, plan.images[i].load + plan.images[i].size)
    BY <1>1, <2>2, CopyElsewhere
  <2> QED
    BY <2>1, <2>2, <2>3 DEF Placed, End
<1>4. CASE OpenControlDtb
  <2> DEFINE dtb == plan.images[plan.fdt]
  <2>1. /\ pc = "load" /\ pc' = "record"
        /\ mem' = Copy(mem, ControlFdt, Staged(dtb.off), dtb.size)
    BY <1>4 DEF OpenControlDtb, Recover, Goto
  <2>2. In(a, ControlFdt, ControlFdt + dtb.size)
    BY <1>1, <2>1, CopyElsewhere
  <2>3. /\ ControlFdt \in Nat /\ dtb.size \in Nat /\ ControlFdtEnd \in Nat
        /\ ControlFdt + dtb.size <= ControlFdtEnd
    BY <2>1, ControlRange DEF Settled
  <2> HIDE DEF dtb
  <2> QED
    BY <1>1, <2>1, <2>2, <2>3 DEF In, Addr
<1>5. CASE RecordImage
  BY <1>1, <1>5 DEF RecordImage, DtbSize
<1>6. CASE BuildParams
  BY <1>1, <1>6 DEF BuildParams, Goto
<1> QED
  BY <1>2, <1>3, <1>4, <1>5, <1>6
  DEF Next, vars, Goto, Recover, CheckPolicy, ParseTree, AddImage, CheckLayout,
      PrepareHandoff, CleanImage, CleanTables, JumpBl31, Halted

\* The board and its FIT are what the machine was powered on with.
LEMMA InputsKept == [Next]_vars => UNCHANGED <<board, fit>>
BY DEF Next, vars, CheckPolicy, StageFit, ParseTree, AddImage, CheckLayout,
       PrepareHandoff, LoadImage, OpenControlDtb, RecordImage, BuildParams,
       CleanImage, CleanTables, JumpBl31, Halted

\* Once the layout is settled, so is the plan.
LEMMA SettledKept == pc \in Settled /\ [Next]_vars => UNCHANGED plan
BY DEF Settled, Next, vars, CheckPolicy, StageFit, ParseTree, AddImage, CheckLayout,
       PrepareHandoff, LoadImage, OpenControlDtb, RecordImage, BuildParams,
       CleanImage, CleanTables, JumpBl31, Halted, Goto, Recover

\* On a reviewed board nothing that is placed touches the stage.
LEMMA StageIntactNext ==
    ASSUME Reviewed, PlanInv, StageIntact, [Next]_vars
    PROVE  StageIntact'
<1> SUFFICES ASSUME NEW a \in Addr,
                    In(a, 0, board.loaderEnd) \/ In(a, board.stackStart, board.stackEnd),
                    mem'[a] # mem[a]
             PROVE  FALSE
  BY InputsKept DEF StageIntact
<1>1. BoardOK(board) /\ ReviewedLayout(board)
  BY BoardFacts DEF PlanInv, TypeOK, Reviewed
<1>2. /\ a \in Nat /\ board.loaderEnd \in Nat
      /\ board.stackStart \in Nat /\ board.stackEnd \in Nat
  BY <1>1, SizesAssumption DEF BoardOK, Addr
<1>3. ASSUME NEW s \in Nat, NEW e \in Nat, LeavesStage(board, s, e), In(a, s, e)
      PROVE  FALSE
  BY <1>2, <1>3 DEF LeavesStage, Overlap, In
<1>4. CASE In(a, board.stageStart, board.stageEnd)
  <2>1. board.stageStart \in Nat /\ board.stageEnd \in Nat
    BY <1>1, SizesAssumption DEF BoardOK, Addr
  <2> QED
    BY <1>1, <1>3, <1>4, <2>1 DEF ReviewedLayout
<1>5. CASE In(a, board.params, ParamsEnd)
  <2>1. board.params \in Nat /\ ParamsEnd \in Nat
    BY <1>1, SizesAssumption DEF BoardOK, Addr, ParamsEnd
  <2> QED
    BY <1>1, <1>3, <1>5, <2>1 DEF ReviewedLayout, ParamsEnd
<1>6. ASSUME NEW s \in Nat, NEW e \in Nat, board.bl33Entry <= s, e <= board.bl33Limit,
             In(a, s, e)
      PROVE  FALSE
  <2>1. board.bl33Entry \in Nat /\ board.bl33Limit \in Nat
    BY <1>1, SizesAssumption DEF BoardOK, Addr
  <2>2. In(a, board.bl33Entry, board.bl33Limit)
    BY <1>2, <1>6, <2>1 DEF In
  <2> QED
    BY <1>1, <1>3, <2>1, <2>2 DEF ReviewedLayout
<1>7. CASE pc \in {"load", "record"} /\ (\/ In(a, ControlFdt, ControlFdtEnd)
                                         \/ In(a, ControlFdt + DtbSize, ControlFdtEnd))
  <2>1. /\ ControlFdt \in Nat /\ DtbSize \in Nat /\ ControlFdtEnd \in Nat
        /\ board.bl33Entry <= ControlFdt /\ ControlFdtEnd <= board.bl33Limit
    BY <1>7, ControlRange DEF Settled, DtbSize
  <2>2. board.bl33Entry \in Nat
    BY <1>1, SizesAssumption DEF BoardOK, Addr
  <2>3. board.bl33Entry <= ControlFdt + DtbSize /\ ControlFdt + DtbSize \in Nat
    BY <2>1, <2>2
  <2> QED
    BY <1>6, <1>7, <2>1, <2>3
<1>8. CASE pc = "load" /\ i \in Placed /\ In(a, plan.images[i].load, End(plan.images[i]))
  <2> DEFINE image == plan.images[i]
  <2>1. /\ image.load \in Nat /\ End(image) \in Nat
        /\ image.role \in {"BL31", "BL33"}
        /\ image.role = "BL31" => Bl31AddressAllowed(image.load, End(image))
        /\ image.role = "BL33" => /\ image.load = board.bl33Entry
                                  /\ End(image) <= board.bl33Limit
    BY <1>8, PlacedRange DEF Settled
  <2>2. CASE image.role = "BL33"
    BY <1>6, <1>8, <2>1, <2>2
  <2>3. CASE image.role = "BL31"
    <3>1. PICK r \in board.ranges : r.start <= image.load /\ End(image) <= r.end
      BY <2>1, <2>3 DEF Bl31AddressAllowed
    <3>2. r.start \in Nat /\ r.end \in Nat
      BY <1>1, SizesAssumption DEF BoardOK, RangeSet, Addr
    <3>3. In(a, r.start, r.end)
      BY <1>2, <1>8, <2>1, <3>1, <3>2 DEF In
    <3>4. LeavesStage(board, r.start, r.end)
      BY <1>1 DEF ReviewedLayout
    <3> QED
      BY <1>3, <3>2, <3>3, <3>4
  <2> QED
    BY <2>1, <2>2, <2>3
<1> QED
  BY <1>4, <1>5, <1>7, <1>8, WriteBounds

\* On a reviewed board the running stage and its stack survive whatever the
\* FIT makes it load.
THEOREM StageSurvives ==
    ASSUME Reviewed
    PROVE  Spec => []StageIntact
<1>1. Init => StageIntact
  BY DEF Init, StageIntact
<1>2. PlanInv /\ StageIntact /\ [Next]_vars => StageIntact'
  BY StageIntactNext
<1> QED
  BY <1>1, <1>2, PlanSafe, PTL DEF Spec

-----------------------------------------------------------------------------
(***************************************************************************)
(* What has been placed.                                                   *)
(***************************************************************************)
Held(m, k) == HeldIn(m, plan.images[k].load, plan.images[k].off, plan.images[k].size)

ControlHeld(m) == HeldIn(m, ControlFdt, plan.images[plan.fdt].off, DtbSize)

ParamsHeld(m) == \A k \in 0 .. ParamsReserve - 1 : m[board.params + k] = <<"params", k>>

PlaceInv ==
    /\ pc = "load" => \A k \in Placed : k < i => Held(mem, k)
    /\ pc \in {"record", "clean", "jump", "bl31"} =>
         (\A k \in Placed : Held(mem, k)) /\ ControlHeld(mem)
    /\ pc \in {"clean", "jump", "bl31"} => ParamsHeld(mem)

\* What a write misses stays placed: images, control DTB.
LEMMA HeldMissed ==
    ASSUME PlanInv, PlanInv', pc \in Settled, NEW k \in Placed, Held(mem, k),
           \A a \in Addr : In(a, plan.images[k].load, End(plan.images[k]))
                           => mem'[a] = mem[a]
    PROVE  Held(mem', k)
<1> DEFINE image == plan.images[k]
<1>1. /\ image \in ImageType /\ image.load \in Nat /\ image.size \in Nat
      /\ End(image) = image.load + image.size /\ End(image) <= AddrMax
  BY PlacedRange
<1>2. image.off \in Nat
  <2> HIDE DEF image
  <2> QED
    BY <1>1 DEF ImageType
<1>3. mem \in [Addr -> Content] /\ mem' \in [Addr -> Content]
  BY DEF PlanInv, TypeOK
<1>4. /\ \A a \in Addr : In(a, image.load, image.load + image.size) => mem'[a] = mem[a]
      /\ HeldIn(mem, image.load, image.off, image.size)
      /\ image.load + image.size <= AddrMax + 1
  BY <1>1, SizesAssumption DEF Held
<1> HIDE DEF image
<1>5. HeldIn(mem', image.load, image.off, image.size)
  BY <1>1, <1>2, <1>3, <1>4, HeldKept
<1> QED
  BY <1>5 DEF Held, image

LEMMA ControlMissed ==
    ASSUME PlanInv, PlanInv', pc \in Settled, ControlHeld(mem),
           \A a \in Addr : In(a, ControlFdt, ControlFdt + DtbSize) => mem'[a] = mem[a]
    PROVE  ControlHeld(mem')
<1>1. /\ ControlFdt \in Nat /\ DtbSize \in Nat /\ plan.images[plan.fdt].off \in Nat
      /\ ControlFdt + DtbSize <= AddrMax + 1
  BY ControlRange, SizesAssumption DEF DtbSize
<1>2. mem \in [Addr -> Content] /\ mem' \in [Addr -> Content]
  BY DEF PlanInv, TypeOK
<1> QED
  BY <1>1, <1>2, HeldKept DEF ControlHeld

\* Accepted images are apart from each other, and on a reviewed board also
\* from the control DTB; all of them are apart from the arenas.
LEMMA Apart ==
    ASSUME Reviewed, PlanInv, pc \in Settled, NEW k \in Placed
    PROVE  LET load == plan.images[k].load
               end == End(plan.images[k])
           IN /\ \A l \in Placed : k # l =>
                   ~Overlap(plan.images[l].load, End(plan.images[l]), load, end)
              /\ ~Overlap(ControlFdt, ControlFdtEnd, load, end)
              /\ ~Overlap(load, end, board.stageStart, board.stageEnd)
              /\ ~Overlap(load, end, board.params, ParamsEnd)
<1> DEFINE image == plan.images[k]
<1>1. LayoutAccepted
  BY DEF PlanInv
<1>2. /\ image.load \in Nat /\ End(image) \in Nat
      /\ image.role \in {"BL31", "BL33"}
      /\ image.role = "BL31" => Bl31AddressAllowed(image.load, End(image))
      /\ image.role = "BL33" => k = plan.bl33
  BY PlacedRange
<1>3. /\ ControlFdt = End(plan.images[plan.bl33])
      /\ board.bl33Entry <= ControlFdt /\ ControlFdtEnd <= board.bl33Limit
      /\ ControlFdt \in Nat /\ ControlFdtEnd \in Nat
  BY ControlRange
<1>4. ~Overlap(ControlFdt, ControlFdtEnd, image.load, End(image))
  <2>1. CASE image.role = "BL33"
    BY <1>2, <1>3, <2>1 DEF Overlap
  <2>2. CASE image.role = "BL31"
    <3>1. BoardOK(board) /\ ReviewedLayout(board)
      BY BoardFacts DEF PlanInv, TypeOK, Reviewed
    <3>2. PICK r \in board.ranges : r.start <= image.load /\ End(image) <= r.end
      BY <1>2, <2>2 DEF Bl31AddressAllowed
    <3>3. r.start \in Nat /\ r.end \in Nat /\ board.bl33Entry \in Nat /\ board.bl33Limit \in Nat
      BY <3>1, SizesAssumption DEF BoardOK, RangeSet, Addr
    <3>4. ~Overlap(r.start, r.end, board.bl33Entry, board.bl33Limit)
      BY <3>1 DEF ReviewedLayout
    <3> QED
      BY <1>2, <1>3, <3>2, <3>3, <3>4 DEF Overlap
  <2> QED
    BY <1>2, <2>1, <2>2
<1>5. \A l \in Placed : k # l =>
        ~Overlap(plan.images[l].load, End(plan.images[l]), image.load, End(image))
  BY <1>1 DEF LayoutAccepted
<1> QED
  BY <1>1, <1>4, <1>5 DEF LayoutAccepted, ClearOfArenas

LEMMA PlaceInvLoad ==
    ASSUME Reviewed, PlanInv, PlanInv', StagedIntact, PlaceInv, LoadImage
    PROVE  PlaceInv'
<1>1. /\ pc = "load" /\ pc' = "load" /\ pc \in Settled /\ i' = i + 1
      /\ i \in DOMAIN plan.images /\ i \in Nat /\ UNCHANGED <<board, fit, plan>>
  BY DEF LoadImage, PlanInv, TypeOK, PlanType, Settled
<1>2. ASSUME NEW k \in Placed, k < i
      PROVE  Held(mem', k)
  <2>1. Held(mem, k)
    BY <1>1, <1>2 DEF PlaceInv
  <2>2. ASSUME NEW a \in Addr, In(a, plan.images[k].load, End(plan.images[k]))
        PROVE  mem'[a] = mem[a]
    <3>1. CASE i \notin Placed
      BY <1>1, <3>1 DEF LoadImage, Placed
    <3>2. CASE i \in Placed
      <4>1. ~Overlap(plan.images[i].load, End(plan.images[i]),
                     plan.images[k].load, End(plan.images[k]))
        BY <1>1, <1>2, <3>2, Apart
      <4>2. mem'[a] # mem[a] => In(a, plan.images[i].load, End(plan.images[i]))
        BY <1>1, WriteBounds DEF Next
      <4>3. /\ plan.images[k].load \in Nat /\ End(plan.images[k]) \in Nat
            /\ plan.images[i].load \in Nat /\ End(plan.images[i]) \in Nat
            /\ a \in Nat
        BY <1>1, <3>2, PlacedRange, SizesAssumption DEF Addr
      <4> QED
        BY <2>2, <4>1, <4>2, <4>3 DEF In, Overlap
    <3> QED
      BY <3>1, <3>2
  <2> QED
    BY <1>1, <2>1, <2>2, HeldMissed
<1>3. ASSUME i \in Placed
      PROVE  Held(mem', i)
  <2> DEFINE image == plan.images[i]
             src == Staged(image.off)
  <2>1. /\ image \in ImageType /\ image.load \in Nat /\ image.size \in Nat
        /\ End(image) = image.load + image.size /\ End(image) <= AddrMax
        /\ image.role # "FDT"
    BY <1>1, <1>3, PlacedRange DEF Placed
  <2>2. image.off \in Nat
    <3> HIDE DEF image
    <3> QED
      BY <2>1 DEF ImageType
  <2>3. /\ src \in Nat /\ src + image.size <= board.stageEnd /\ board.stageEnd <= AddrMax
        /\ src = board.stageStart + image.off /\ board.stageStart \in Nat
    BY <1>1, StagedBounds, BoardFacts, SizesAssumption
    DEF Parsed, PlanInv, BoardOK, Addr, Staged
  <2>4. ~Overlap(image.load, End(image), board.stageStart, board.stageEnd)
    BY <1>1, <1>3, Apart
  <2>5. HeldIn(mem, src, image.off, image.size)
    BY <1>1 DEF StagedIntact, StagedIn
  <2>6. mem' = Copy(mem, image.load, src, image.size)
    BY <2>1 DEF LoadImage
  <2>7. mem \in [Addr -> Content]
    BY DEF PlanInv, TypeOK
  <2>8. board.stageEnd \in Nat
    BY BoardFacts, SizesAssumption DEF PlanInv, BoardOK, Addr
  <2> HIDE DEF image, src
  <2>9. ~Overlap(image.load, image.load + image.size, src, src + image.size)
    BY <2>1, <2>2, <2>3, <2>4, <2>8 DEF Overlap
  <2>10. HeldIn(mem', image.load, image.off, image.size)
    BY <2>1, <2>2, <2>3, <2>5, <2>6, <2>7, <2>9, HeldMoved, SizesAssumption
  <2> QED
    BY <2>10 DEF Held, image
<1>4. ASSUME NEW k \in Placed, k < i + 1
      PROVE  Held(mem', k)
  <2>1. k \in Nat
    BY DEF Placed, PlanInv, TypeOK, PlanType
  <2>2. k < i \/ k = i
    BY <1>1, <1>4, <2>1
  <2> QED
    BY <1>2, <1>3, <2>2
<1>5. Placed' = Placed /\ \A k : (Held(mem, k))' <=> Held(mem', k)
  BY <1>1 DEF Placed, Held, HeldIn
<1> QED
  BY <1>1, <1>4, <1>5 DEF PlaceInv

LEMMA PlaceInvOpen ==
    ASSUME Reviewed, PlanInv, PlanInv', StagedIntact, PlaceInv, OpenControlDtb
    PROVE  PlaceInv'
<1> DEFINE dtb == plan.images[plan.fdt]
           src == Staged(dtb.off)
<1>1. CASE Recover
  BY <1>1 DEF Recover, PlaceInv
<1>2. CASE ~Recover
  <2>1. /\ pc = "load" /\ pc' = "record" /\ pc \in Settled /\ i \in Nat
        /\ UNCHANGED <<board, fit, plan>>
        /\ mem' = Copy(mem, ControlFdt, src, dtb.size)
        /\ i > Len(plan.images)
    BY <1>2 DEF OpenControlDtb, Goto, PlanInv, TypeOK, Settled
  <2>2. /\ dtb \in ImageType /\ dtb.off \in Nat /\ dtb.size \in Nat
        /\ ControlFdt \in Nat /\ ControlFdtEnd \in Nat /\ ControlFdtEnd <= AddrMax
        /\ ControlFdt + dtb.size <= ControlFdtEnd /\ plan.fdt \in DOMAIN plan.images
    BY <2>1, ControlRange
  <2>3. ASSUME NEW k \in Placed
        PROVE  Held(mem', k)
    <3>1. k < i
      BY <2>1 DEF Placed, PlanInv, TypeOK, PlanType
    <3>2. Held(mem, k)
      BY <2>1, <3>1 DEF PlaceInv
    <3>3. ~Overlap(ControlFdt, ControlFdtEnd, plan.images[k].load, End(plan.images[k]))
      BY <2>1, Apart
    <3>4. plan.images[k].load \in Nat /\ End(plan.images[k]) \in Nat
      BY <2>1, PlacedRange
    <3>5. ASSUME NEW a \in Addr, In(a, plan.images[k].load, End(plan.images[k]))
          PROVE  mem'[a] = mem[a]
      <4>1. mem'[a] # mem[a] => In(a, ControlFdt, ControlFdtEnd)
        BY <2>1, WriteBounds DEF Next
      <4>2. a \in Nat
        BY SizesAssumption DEF Addr
      <4> QED
        BY <2>2, <3>3, <3>4, <3>5, <4>1, <4>2 DEF In, Overlap
    <3> QED
      BY <2>1, <3>2, <3>5, HeldMissed
  <2>4. ControlHeld(mem')
    <3>1. /\ src \in Nat /\ src + dtb.size <= board.stageEnd /\ board.stageEnd <= AddrMax
          /\ src = board.stageStart + dtb.off
          /\ board.stageStart \in Nat /\ board.stageEnd \in Nat
      <4>1. pc \in Parsed
        BY <2>1 DEF Parsed
      <4>2. src \in Nat /\ src + dtb.size <= board.stageEnd /\ board.stageEnd <= AddrMax
        BY <2>2, <4>1, StagedBounds
      <4>3. board.stageStart \in Nat /\ board.stageEnd \in Nat
        BY BoardFacts, SizesAssumption DEF PlanInv, BoardOK, Addr
      <4> QED
        BY <4>2, <4>3 DEF Staged
    <3>2. ~Overlap(ControlFdt, ControlFdtEnd, board.stageStart, board.stageEnd)
      BY <2>1 DEF PlanInv, LayoutAccepted, ClearOfArenas
    <3>3. HeldIn(mem, src, dtb.off, dtb.size)
      BY <2>1, <2>2 DEF StagedIntact, StagedIn
    <3>4. mem \in [Addr -> Content]
      BY DEF PlanInv, TypeOK
    <3> HIDE DEF dtb, src
    <3>5. ~Overlap(ControlFdt, ControlFdt + dtb.size, src, src + dtb.size)
      BY <2>2, <3>1, <3>2 DEF Overlap
    <3>6. ControlFdt + dtb.size <= AddrMax + 1
      BY <2>2, SizesAssumption
    <3>7. HeldIn(Copy(mem, ControlFdt, src, dtb.size), ControlFdt, dtb.off, dtb.size)
      BY <2>2, <3>1, <3>3, <3>4, <3>5, <3>6, HeldMoved
    <3>8. HeldIn(mem', ControlFdt, dtb.off, dtb.size)
      BY <2>1, <3>7
    <3> QED
      BY <3>8 DEF ControlHeld, DtbSize, dtb
  <2>5. /\ Placed' = Placed /\ \A k : (Held(mem, k))' <=> Held(mem', k)
        /\ (ControlHeld(mem))' <=> ControlHeld(mem')
    BY <2>1 DEF Placed, Held, ControlHeld, HeldIn, ControlFdt, DtbSize, End
  <2> QED
    BY <2>1, <2>3, <2>4, <2>5 DEF PlaceInv
<1> QED
  BY <1>1, <1>2

LEMMA PlaceInvRecord ==
    ASSUME Reviewed, PlanInv, PlanInv', PlaceInv, RecordImage
    PROVE  PlaceInv'
<1>1. CASE pc' # "record"
  <2>1. pc' = "recovered"
    BY <1>1 DEF RecordImage
  <2> QED
    BY <2>1 DEF PlaceInv
<1>2. CASE pc' = "record"
  <2>1. pc = "record" /\ pc \in Settled /\ UNCHANGED <<board, fit, plan>>
    BY DEF RecordImage, Settled
  <2>2. /\ DtbSize \in Nat /\ ControlFdt \in Nat /\ ControlFdtEnd \in Nat
        /\ ControlFdt + DtbSize <= ControlFdtEnd
    BY <2>1, ControlRange DEF DtbSize
  <2>3. ASSUME NEW a \in Addr, mem'[a] # mem[a]
        PROVE  In(a, ControlFdt + DtbSize, ControlFdtEnd) /\ In(a, ControlFdt, ControlFdtEnd)
               /\ ~In(a, ControlFdt, ControlFdt + DtbSize)
    <3>1. In(a, ControlFdt + DtbSize, ControlFdtEnd)
      BY <1>2, <2>1, <2>3, WriteBounds DEF Next
    <3>2. a \in Nat
      BY SizesAssumption DEF Addr
    <3> QED
      BY <2>2, <3>1, <3>2 DEF In
  <2>4. ASSUME NEW k \in Placed
        PROVE  Held(mem', k)
    <3>1. Held(mem, k)
      BY <2>1 DEF PlaceInv
    <3>2. ~Overlap(ControlFdt, ControlFdtEnd, plan.images[k].load, End(plan.images[k]))
      BY <2>1, Apart
    <3>3. plan.images[k].load \in Nat /\ End(plan.images[k]) \in Nat
      BY <2>1, PlacedRange
    <3>4. ASSUME NEW a \in Addr, In(a, plan.images[k].load, End(plan.images[k]))
          PROVE  mem'[a] = mem[a]
      <4>1. a \in Nat
        BY SizesAssumption DEF Addr
      <4> QED
        BY <2>2, <2>3, <3>2, <3>3, <3>4, <4>1 DEF In, Overlap
    <3> QED
      BY <2>1, <3>1, <3>4, HeldMissed
  <2>5. ControlHeld(mem')
    BY <2>1, <2>3, ControlMissed DEF PlaceInv
  <2>6. /\ Placed' = Placed /\ \A k : (Held(mem, k))' <=> Held(mem', k)
        /\ (ControlHeld(mem))' <=> ControlHeld(mem')
    BY <2>1 DEF Placed, Held, ControlHeld, HeldIn, ControlFdt, DtbSize, End
  <2> QED
    BY <1>2, <2>4, <2>5, <2>6 DEF PlaceInv
<1> QED
  BY <1>1, <1>2

LEMMA PlaceInvParams ==
    ASSUME Reviewed, PlanInv, PlanInv', PlaceInv, BuildParams
    PROVE  PlaceInv'
<1>1. pc = "record" /\ pc' = "clean" /\ pc \in Settled /\ UNCHANGED <<board, fit, plan>>
  BY DEF BuildParams, Goto, Settled
<1>2. /\ board.params \in Nat /\ ParamsReserve \in Nat /\ AddrMax \in Nat
      /\ ParamsEnd = board.params + ParamsReserve /\ ParamsEnd <= AddrMax
  <2>1. EndOK(board.params, ParamsReserve)
    BY <1>1 DEF PlanInv, LayoutAccepted
  <2>2. board.params \in Nat /\ ParamsReserve \in Nat /\ AddrMax \in Nat
    BY BoardFacts, SizesAssumption DEF PlanInv, BoardOK, Addr
  <2> QED
    BY <2>1, <2>2 DEF EndOK, ParamsEnd
<1>3. ASSUME NEW a \in Addr, mem'[a] # mem[a]
      PROVE  In(a, board.params, ParamsEnd) /\ a \in Nat
  BY <1>1, <1>2, <1>3, WriteBounds DEF Next, Addr
<1>4. ASSUME NEW k \in Placed
      PROVE  Held(mem', k)
  <2>1. Held(mem, k)
    BY <1>1 DEF PlaceInv
  <2>2. ~Overlap(plan.images[k].load, End(plan.images[k]), board.params, ParamsEnd)
    BY <1>1, Apart
  <2>3. plan.images[k].load \in Nat /\ End(plan.images[k]) \in Nat
    BY <1>1, PlacedRange
  <2>4. ASSUME NEW a \in Addr, In(a, plan.images[k].load, End(plan.images[k]))
        PROVE  mem'[a] = mem[a]
    BY <1>2, <1>3, <2>2, <2>3, <2>4 DEF In, Overlap
  <2> QED
    BY <1>1, <2>1, <2>4, HeldMissed
<1>5. ControlHeld(mem')
  <2>1. ControlHeld(mem)
    BY <1>1 DEF PlaceInv
  <2>2. ~Overlap(ControlFdt, ControlFdtEnd, board.params, ParamsEnd)
    BY <1>1 DEF PlanInv, LayoutAccepted, ClearOfArenas
  <2>3. /\ ControlFdt \in Nat /\ ControlFdtEnd \in Nat /\ DtbSize \in Nat
        /\ ControlFdt + DtbSize <= ControlFdtEnd
    BY <1>1, ControlRange DEF DtbSize
  <2>4. ASSUME NEW a \in Addr, In(a, ControlFdt, ControlFdt + DtbSize)
        PROVE  mem'[a] = mem[a]
    BY <1>2, <1>3, <2>2, <2>3, <2>4 DEF In, Overlap
  <2> QED
    BY <1>1, <2>1, <2>4, ControlMissed
<1>6. ParamsHeld(mem')
  <2> SUFFICES ASSUME NEW k \in 0 .. ParamsReserve - 1
               PROVE  mem'[board.params + k] = <<"params", k>>
    BY DEF ParamsHeld
  <2>1. board.params + k \in Addr /\ In(board.params + k, board.params, ParamsEnd)
    BY <1>2 DEF Addr, In
  <2>2. (board.params + k) - board.params = k
    BY <1>2
  <2> QED
    BY <2>1, <2>2 DEF BuildParams
<1>7. /\ Placed' = Placed /\ \A k : (Held(mem, k))' <=> Held(mem', k)
      /\ (ControlHeld(mem))' <=> ControlHeld(mem')
      /\ (ParamsHeld(mem))' <=> ParamsHeld(mem')
  BY <1>1 DEF Placed, Held, ControlHeld, ParamsHeld, HeldIn, ControlFdt, DtbSize, End
<1> QED
  BY <1>1, <1>4, <1>5, <1>6, <1>7 DEF PlaceInv

\* Steps that leave memory alone leave what has been placed.
LEMMA PlaceInvKept ==
    ASSUME PlaceInv, UNCHANGED <<board, fit, plan, mem>>,
           \/ pc' = pc /\ (pc = "load" => i' = i)
           \/ pc \in {"clean", "jump", "bl31"} /\ pc' \in {"clean", "jump", "bl31"}
           \/ pc' \notin {"load", "record", "clean", "jump", "bl31"}
    PROVE  PlaceInv'
<1>1. /\ Placed' = Placed /\ \A k : (Held(mem, k))' <=> Held(mem, k)
      /\ (ControlHeld(mem))' <=> ControlHeld(mem)
      /\ (ParamsHeld(mem))' <=> ParamsHeld(mem)
  BY DEF Placed, Held, ControlHeld, ParamsHeld, HeldIn, ControlFdt, DtbSize, End
<1> QED
  BY <1>1 DEF PlaceInv

LEMMA PlaceInvNext ==
    ASSUME Reviewed, PlanInv, PlanInv', StagedIntact, PlaceInv, [Next]_vars
    PROVE  PlaceInv'
<1>1. CASE CheckPolicy \/ StageFit \/ ParseTree \/ AddImage \/ CheckLayout
  BY <1>1 DEF CheckPolicy, StageFit, ParseTree, AddImage, CheckLayout, Recover, Goto,
              PlaceInv
<1>2. CASE PrepareHandoff
  <2>1. CASE Recover
    BY <2>1 DEF Recover, PlaceInv
  <2>2. CASE ~Recover
    <3>1. pc' = "load" /\ i' = 1 /\ UNCHANGED <<board, fit, plan, mem>>
      BY <1>2, <2>2 DEF PrepareHandoff, Goto
    <3>2. \A k \in Placed' : ~(k < 1)
      BY DEF Placed, PlanInv, TypeOK, PlanType
    <3> QED
      BY <3>1, <3>2 DEF PlaceInv
  <2> QED
    BY <2>1, <2>2
<1>3. CASE LoadImage
  BY <1>3, PlaceInvLoad
<1>4. CASE OpenControlDtb
  BY <1>4, PlaceInvOpen
<1>5. CASE RecordImage
  BY <1>5, PlaceInvRecord
<1>6. CASE BuildParams
  BY <1>6, PlaceInvParams
<1>7. CASE CleanImage \/ CleanTables \/ JumpBl31
  BY <1>7, PlaceInvKept DEF CleanImage, CleanTables, JumpBl31, Goto
<1>8. CASE Halted \/ UNCHANGED vars
  BY <1>8, PlaceInvKept DEF Halted, vars
<1> QED
  BY <1>1, <1>2, <1>3, <1>4, <1>5, <1>6, <1>7, <1>8 DEF Next

\* The verified bytes are where BL31 and U-Boot expect them: PlaceInv and what
\* it rests on are invariants.
THEOREM HandoffSafe ==
    ASSUME Reviewed
    PROVE  Spec => [](PlanInv /\ StagedIntact /\ PlaceInv)
<1>1. Init => StagedIntact /\ PlaceInv
  BY DEF Init, StagedIntact, PlaceInv
<1>2. PlanInv /\ PlanInv' /\ StagedIntact /\ PlaceInv /\ [Next]_vars
      => StagedIntact' /\ PlaceInv'
  BY StagedIntactNext, PlaceInvNext
<1> QED
  BY <1>1, <1>2, PlanSafe, PTL DEF Spec

\* On a reviewed board no load runs over what was loaded before it.
THEOREM HandoffIsIntact ==
    ASSUME Reviewed
    PROVE  Spec => []HandoffIntact
<1>1. PlaceInv => HandoffIntact
  BY DEF PlaceInv, HandoffIntact, Held, HeldIn, Holds, ControlHeld, DtbSize, ParamsHeld
<1> QED
  BY <1>1, HandoffSafe, PTL

-----------------------------------------------------------------------------
(***************************************************************************)
(* What is in DRAM when the caches go off.                                 *)
(***************************************************************************)
Cleaned(k) == \A a \in dirty : ~In(a, plan.images[k].load, End(plan.images[k]))

CacheInv ==
    /\ dirty \subseteq {a \in Addr : a < CacheLimit}
    /\ pc = "clean" => \A k \in Placed : k < i => Cleaned(k)
    /\ CoherentHandoff

\* Only cached addresses are ever dirty.
LEMMA DirtyCached ==
    ASSUME CacheInv, [Next]_vars
    PROVE  dirty' \subseteq {a \in Addr : a < CacheLimit}
<1>1. dirty' \subseteq dirty \cup {a \in Addr : a < CacheLimit}
  BY DEF Next, vars, CheckPolicy, StageFit, ParseTree, AddImage, CheckLayout,
     PrepareHandoff, LoadImage, OpenControlDtb, RecordImage, BuildParams, CleanImage,
     CleanTables, JumpBl31, Halted, Goto, Recover, Cacheable
<1> QED
  BY <1>1 DEF CacheInv

LEMMA CleanImageNext ==
    ASSUME Reviewed, PlanInv, CacheInv, CleanImage
    PROVE  \A k \in Placed : k < i + 1 => \A a \in dirty' :
             ~In(a, plan.images[k].load, End(plan.images[k]))
<1>1. pc = "clean" /\ pc \in Settled /\ i \in Nat /\ dirty' \subseteq dirty
  BY DEF CleanImage, Settled, PlanInv, TypeOK
<1>2. ASSUME NEW k \in Placed, k < i + 1, NEW a \in dirty',
             In(a, plan.images[k].load, End(plan.images[k]))
      PROVE  FALSE
  <2>1. k \in Nat
    BY DEF Placed, PlanInv, TypeOK, PlanType
  <2>2. k = i
    BY <1>1, <1>2, <2>1 DEF CacheInv, Cleaned
  <2>3. plan.images[k].role # "FDT"
    BY DEF Placed
  <2>4. ~(End(plan.images[k]) <= CacheLimit)
    BY <1>2, <2>2, <2>3 DEF CleanImage
  <2> DEFINE image == plan.images[k]
  <2>5. /\ image.load \in Nat /\ End(image) \in Nat /\ image.role \in {"BL31", "BL33"}
        /\ image.role = "BL31" => Bl31AddressAllowed(image.load, End(image))
        /\ image.role = "BL33" => End(image) <= board.bl33Limit
    BY <1>1, PlacedRange
  <2>6. BoardOK(board) /\ ReviewedLayout(board)
    BY BoardFacts DEF PlanInv, TypeOK, Reviewed
  <2>7. image.role = "BL31"
    <3>1. board.bl33Limit \in Nat /\ board.bl33Limit <= CacheLimit /\ CacheLimit \in Nat
      BY <2>6, SizesAssumption DEF BoardOK, ReviewedLayout, Addr
    <3> QED
      BY <2>4, <2>5, <3>1
  <2>8. PICK r \in board.ranges : r.start <= image.load /\ End(image) <= r.end
    BY <2>5, <2>7 DEF Bl31AddressAllowed
  <2>9. r.start \in Nat /\ r.end \in Nat /\ CacheLimit \in Nat
    BY <2>6, SizesAssumption DEF BoardOK, RangeSet, Addr
  <2>10. CacheLimit <= r.start
    <3>1. r.end <= CacheLimit \/ CacheLimit <= r.start
      BY <2>6 DEF ReviewedLayout
    <3> QED
      BY <2>4, <2>5, <2>8, <2>9, <3>1
  <2>11. a \in Nat /\ a < CacheLimit
    BY <1>1, <1>2, SizesAssumption DEF CacheInv, Addr
  <2> QED
    BY <1>2, <2>5, <2>8, <2>9, <2>10, <2>11 DEF In
<1> QED
  BY <1>2

LEMMA CacheInvNext ==
    ASSUME Reviewed, PlanInv, CacheInv, [Next]_vars
    PROVE  CacheInv'
<1>1. CASE CleanImage
  <2>1. /\ pc' = "clean" /\ i' = i + 1 /\ UNCHANGED <<board, plan>>
    BY <1>1 DEF CleanImage
  <2>2. \A k \in Placed' : k < i' => (Cleaned(k))'
    BY <1>1, <2>1, CleanImageNext DEF Placed, Cleaned, End
  <2> QED
    BY <2>1, <2>2, DirtyCached DEF CacheInv, CoherentHandoff
<1>2. CASE CleanTables
  <2>1. /\ pc = "clean" /\ pc' = "jump" /\ UNCHANGED <<board, plan>>
        /\ i \in Nat /\ i > Len(plan.images)
        /\ dirty' = {a \in dirty : ~In(a, ControlFdt, ControlFdtEnd)
                                   /\ ~In(a, board.params, ParamsEnd)}
    BY <1>2 DEF CleanTables, Goto, PlanInv, TypeOK
  <2>2. ASSUME NEW k \in Placed
        PROVE  Cleaned(k)
    <3>1. k < i
      BY <2>1 DEF Placed, PlanInv, TypeOK, PlanType
    <3> QED
      BY <2>1, <3>1 DEF CacheInv
  <2>3. dirty' \cap Live = {}
    BY <2>1, <2>2 DEF Live, Cleaned
  <2>4. Live' = Live
    BY <2>1 DEF Live, Placed, ControlFdt, ControlFdtEnd, ParamsEnd, End
  <2> QED
    BY <2>1, <2>3, <2>4, DirtyCached DEF CacheInv, CoherentHandoff
<1>3. CASE BuildParams
  <2>1. pc' = "clean" /\ i' = 1 /\ UNCHANGED plan
    BY <1>3 DEF BuildParams, Goto
  <2>2. \A k \in Placed' : ~(k < 1)
    BY <2>1 DEF Placed, PlanInv, TypeOK, PlanType
  <2> QED
    BY <2>1, <2>2, DirtyCached DEF CacheInv, CoherentHandoff
<1>4. CASE JumpBl31 \/ Halted \/ UNCHANGED vars
  <2>1. /\ UNCHANGED <<board, plan, dirty>>
        /\ \/ pc' = pc /\ i' = i
           \/ pc = "jump" /\ pc' = "bl31"
    BY <1>4 DEF JumpBl31, Halted, vars, Goto
  <2>2. Live' = Live /\ Placed' = Placed /\ \A k : (Cleaned(k))' <=> Cleaned(k)
    BY <2>1 DEF Live, Placed, ControlFdt, ControlFdtEnd, ParamsEnd, End, Cleaned
  <2> QED
    BY <2>1, <2>2, DirtyCached DEF CacheInv, CoherentHandoff
<1>5. CASE pc' \notin {"clean", "jump", "bl31"}
  BY <1>5, DirtyCached DEF CacheInv, CoherentHandoff
<1> QED
  BY <1>1, <1>2, <1>3, <1>4, <1>5
  DEF Next, CheckPolicy, StageFit, ParseTree, AddImage, CheckLayout, PrepareHandoff,
      LoadImage, OpenControlDtb, RecordImage, Goto, Recover

\* BL31 and U-Boot find in DRAM what the stage wrote, on every reviewed board.
THEOREM HandoffIsCoherent ==
    ASSUME Reviewed
    PROVE  Spec => []CoherentHandoff
<1>1. Init => CacheInv
  BY DEF Init, CacheInv, CoherentHandoff
<1>2. PlanInv /\ CacheInv /\ [Next]_vars => CacheInv'
  BY CacheInvNext
<1>3. CacheInv => CoherentHandoff
  BY DEF CacheInv
<1> QED
  BY <1>1, <1>2, <1>3, PlanSafe, PTL DEF Spec

-----------------------------------------------------------------------------
(***************************************************************************)
(* The refinement.                                                         *)
(***************************************************************************)

\* When BL31 is entered everything it needs is in place, in DRAM.
LEMMA AllInPlace ==
    ASSUME PlanInv, PlaceInv, CoherentHandoff, pc = "jump"
    PROVE  InPlace = Needed
<1>1. pc \in Settled /\ prepared /\ dirty \cap Live = {} /\ dirty \subseteq Addr
  BY DEF Settled, Handing, PlanInv, CoherentHandoff, TypeOK
<1>2. SUFFICES ASSUME NEW x \in Needed PROVE x \in InPlace
  BY DEF InPlace
<1>3. \/ \E k \in Placed : x = <<"image", k>>
      \/ x = <<"control", 0>>
      \/ x = <<"params", 0>>
  BY <1>1, <1>2 DEF Needed
<1>4. CASE \E k \in Placed : x = <<"image", k>>
  <2>1. PICK k \in Placed : x = <<"image", k>>
    BY <1>4
  <2> DEFINE image == plan.images[k]
  <2>2. Holds(image.load, image.off, image.size)
    BY DEF PlaceInv, Held, HeldIn, Holds
  <2>3. InDram(image.load, image.size)
    <3>1. ASSUME NEW j \in 0 .. image.size - 1
          PROVE  In(image.load + j, image.load, End(image))
      <4>1. image.load \in Nat /\ image.size \in Nat /\ End(image) = image.load + image.size
        BY <1>1, PlacedRange
      <4> HIDE DEF image
      <4> QED
        BY <4>1 DEF In
    <3> QED
      BY <1>1, <3>1 DEF InDram, Live
  <2> QED
    BY <1>2, <2>1, <2>2, <2>3 DEF InPlace
<1>5. CASE x = <<"control", 0>>
  <2> DEFINE dtb == plan.images[plan.fdt]
  <2>1. Holds(ControlFdt, dtb.off, dtb.size)
    BY DEF PlaceInv, ControlHeld, DtbSize, HeldIn, Holds
  <2>2. /\ ControlFdt \in Nat /\ dtb.size \in Nat /\ DtbSlack \in Nat
        /\ ControlFdtEnd = ControlFdt + dtb.size + DtbSlack
    BY <1>1, ControlRange, SizesAssumption
  <2>3. InDram(ControlFdt, dtb.size + DtbSlack)
    <3> HIDE DEF dtb
    <3>1. ASSUME NEW j \in 0 .. (dtb.size + DtbSlack) - 1
          PROVE  In(ControlFdt + j, ControlFdt, ControlFdtEnd)
      BY <2>2 DEF In
    <3> QED
      BY <1>1, <3>1 DEF InDram, Live
  <2> QED
    BY <1>2, <1>5, <2>1, <2>3 DEF InPlace
<1>6. CASE x = <<"params", 0>>
  <2>1. \A k \in 0 .. ParamsReserve - 1 : mem[board.params + k] = <<"params", k>>
    BY DEF PlaceInv, ParamsHeld
  <2>2. InDram(board.params, ParamsReserve)
    <3>1. board.params \in Nat /\ ParamsReserve \in Nat
      BY BoardFacts, SizesAssumption DEF PlanInv, BoardOK, Addr
    <3>2. ASSUME NEW j \in 0 .. ParamsReserve - 1
          PROVE  In(board.params + j, board.params, ParamsEnd)
      BY <3>1 DEF In, ParamsEnd
    <3> QED
      BY <1>1, <3>2 DEF InDram, Live
  <2> QED
    BY <1>2, <1>6, <2>1, <2>2 DEF InPlace
<1> QED
  BY <1>3, <1>4, <1>5, <1>6

LEMMA StepRefines ==
    ASSUME PlanInv, PlanInv', PlaceInv, CoherentHandoff, [Next]_vars
    PROVE  [Boot!Next]_(Boot!vars)
<1> USE DEF Boot!Next, Boot!vars
<1>1. CASE UNCHANGED vars
  <2>1. UNCHANGED <<board, fit, pc, i, plan, mem, dirty, prepared, recorded>>
    BY <1>1 DEF vars
  <2> QED
    BY <2>1 DEF Phase, Needed, InPlace, Holds, InDram, Placed, ControlFdt, End
<1>2. CASE ~UNCHANGED vars /\ pc' = "recovered"
  <2>1. /\ UNCHANGED <<board, plan, prepared>> /\ pc \notin {"bl31", "recovered"}
    BY <1>2 DEF Next, CheckPolicy, StageFit, ParseTree, AddImage, CheckLayout,
       PrepareHandoff, LoadImage, OpenControlDtb, RecordImage, BuildParams,
       CleanImage, CleanTables, JumpBl31, Halted, Goto, Recover
  <2>2. Phase \in {"verifying", "placing"} /\ Phase' = "rejected"
    BY <1>2, <2>1 DEF Phase
  <2>3. Needed' = Needed
    BY <2>1 DEF Needed, Placed
  <2>4. InPlace' \subseteq Needed'
    BY DEF InPlace
  <2> QED
    BY <2>2, <2>3, <2>4 DEF Boot!Reject
<1>3. CASE PrepareHandoff /\ pc' # "recovered"
  <2>1. ~prepared /\ prepared' /\ pc = "prepare" /\ pc' = "load"
    BY <1>3 DEF PrepareHandoff, Goto, Recover, PlanInv
  <2>2. Phase = "verifying" /\ Phase' = "placing"
    BY <2>1 DEF Phase
  <2>3. InPlace' \subseteq Needed'
    BY DEF InPlace
  <2> QED
    BY <2>2, <2>3 DEF Boot!Accept
<1>4. CASE JumpBl31
  <2>1. /\ UNCHANGED <<board, plan, mem, dirty, prepared>>
        /\ pc = "jump" /\ pc' = "bl31"
    BY <1>4 DEF JumpBl31, Goto
  <2>2. prepared
    BY <2>1 DEF PlanInv, Handing
  <2>3. Phase = "placing" /\ Phase' = "entered"
    BY <2>1, <2>2 DEF Phase
  <2>4. InPlace = Needed
    BY <2>1, AllInPlace
  <2>5. UNCHANGED <<Needed, InPlace>>
    BY <2>1 DEF Needed, InPlace, Holds, InDram, Placed, ControlFdt, End
  <2> QED
    BY <2>3, <2>4, <2>5 DEF Boot!Enter
<1>5. CASE CheckPolicy \/ StageFit \/ ParseTree \/ AddImage \/ CheckLayout
  <2>1. pc' # "recovered" => ~prepared /\ ~prepared' /\ pc' # "bl31" /\ pc \notin {"bl31", "recovered"}
    BY <1>5 DEF CheckPolicy, StageFit, ParseTree, AddImage, CheckLayout, Goto, Recover,
                PlanInv
  <2>2. CASE pc' # "recovered"
    <3>1. Phase = "verifying" /\ Phase' = "verifying"
      BY <2>1, <2>2 DEF Phase
    <3>2. Needed = {} /\ InPlace = {} /\ Needed' = {} /\ InPlace' = {}
      BY <2>1, <2>2 DEF Needed, InPlace
    <3> QED
      BY <3>1, <3>2
  <2>3. CASE pc' = "recovered"
    BY <1>1, <1>2, <2>3
  <2> QED
    BY <2>2, <2>3
<1>6. CASE LoadImage \/ OpenControlDtb \/ RecordImage \/ BuildParams \/ CleanImage \/ CleanTables
  <2>1. pc' # "recovered" =>
          /\ UNCHANGED <<board, plan, prepared>> /\ pc \in Handing
          /\ pc # "bl31" /\ pc' \notin {"bl31", "recovered"}
    BY <1>6 DEF LoadImage, OpenControlDtb, RecordImage, BuildParams, CleanImage,
                CleanTables, Goto, Recover, Handing
  <2>2. CASE pc' # "recovered"
    <3>1. prepared
      BY <2>1, <2>2 DEF PlanInv
    <3>2. Phase = "placing" /\ Phase' = "placing"
      BY <2>1, <2>2, <3>1 DEF Phase, Handing
    <3>3. Needed' = Needed
      BY <2>1, <2>2 DEF Needed, Placed
    <3>4. InPlace' \subseteq Needed'
      BY DEF InPlace
    <3> QED
      BY <3>2, <3>3, <3>4 DEF Boot!Place
  <2>3. CASE pc' = "recovered"
    BY <1>1, <1>2, <2>3
  <2> QED
    BY <2>2, <2>3
<1>7. CASE Halted
  BY <1>1, <1>7 DEF Halted
<1> QED
  BY <1>1, <1>2, <1>3, <1>4, <1>5, <1>6, <1>7 DEF Next

\* On every reviewed board the stage implements a verified boot: it enters
\* BL31 only with everything the accepted configuration needs in place.
THEOREM VerifiedBootImplemented ==
    ASSUME Reviewed
    PROVE  Spec => ImplementsVerifiedBoot
<1>1. Init => Boot!Init
  BY DEF Init, Boot!Init, Phase, Needed, InPlace
<1>2. PlanInv /\ PlanInv' /\ PlaceInv /\ CoherentHandoff /\ [Next]_vars
      => [Boot!Next]_(Boot!vars)
  BY StepRefines
<1> QED
  BY <1>1, <1>2, PlanSafe, HandoffSafe, HandoffIsCoherent, PTL
  DEF Spec, ImplementsVerifiedBoot, Boot!Spec

-----------------------------------------------------------------------------
(***************************************************************************)
(* The hash (Sha256): padding, the buffer between two calls, the loops     *)
(* over bytes and pieces, and the last blocks.                             *)
(***************************************************************************)

LEMMA SizesAre == BlockSize \in Nat /\ LengthSize \in Nat /\ LengthSize < BlockSize
  BY ShaAssumption

LEMMA Times ==
  ASSUME NEW n \in Nat, NEW b \in Nat
  PROVE  n * b \in Nat /\ (n + 1) * b = n * b + b
  OBVIOUS

LEMMA TimesOrder ==
  ASSUME NEW m \in Nat, NEW n \in Nat, NEW b \in Nat, m < n
  PROVE  m * b + b <= n * b
<1>1. PICK d \in Nat : n = (m + 1) + d
  <2>1. n - (m + 1) \in Nat /\ n = (m + 1) + (n - (m + 1))
    OBVIOUS
  <2> QED
    BY <2>1
<1>2. n * b = m * b + b + d * b
  BY <1>1
<1>3. m * b \in Nat /\ d * b \in Nat
  BY Times
<1> QED
  BY <1>2, <1>3

\* A number is a multiple of the size of a block when a block begins there.
LEMMA Multiples ==
  ASSUME NEW a \in Nat
  PROVE  /\ a % BlockSize = 0 <=> \E k \in Nat : a = k * BlockSize
         /\ \A k \in Nat : a = k * BlockSize => a \div BlockSize = k
<1> DEFINE B == BlockSize
           q == a \div B
           r == a % B
<1>1. B \in Nat /\ B > 0
  BY SizesAre
<1>2. q \in Nat /\ r \in 0 .. B - 1 /\ a = q * B + r
  BY <1>1
<1> HIDE DEF B, q, r
<1>3. ASSUME NEW k \in Nat, a = k * B PROVE q = k /\ r = 0
  <2>1. k * B \in Nat /\ q * B \in Nat
    BY <1>1, <1>2, Times
  <2>2. ~(q < k)
    <3>1. q < k => q * B + B <= k * B
      BY <1>1, <1>2, TimesOrder
    <3> QED
      BY <1>1, <1>2, <1>3, <2>1, <3>1
  <2>3. ~(k < q)
    <3>1. k < q => k * B + B <= q * B
      BY <1>1, <1>2, TimesOrder
    <3> QED
      BY <1>1, <1>2, <1>3, <2>1, <3>1
  <2>4. q = k
    BY <1>2, <2>2, <2>3
  <2> QED
    BY <1>2, <1>3, <2>1, <2>4
<1>4. r = 0 => a = q * B
  <2>1. q * B \in Nat
    BY <1>1, <1>2, Times
  <2> QED
    BY <1>2, <2>1
<1>5. (r = 0 <=> \E k \in Nat : a = k * B) /\ \A k \in Nat : a = k * B => q = k
  BY <1>2, <1>3, <1>4
<1> QED
  BY <1>5, Zenon DEF B, q, r

\* The number of zeros in the padding of a message with so many blocks.
LEMMA ZerosAre ==
  ASSUME NEW k \in Nat, NEW size \in Nat,
         size + LengthSize <= k * BlockSize, k * BlockSize < size + LengthSize + BlockSize
  PROVE  (CHOOSE z \in 0 .. BlockSize - 1 : (size + z + LengthSize) % BlockSize = 0)
           = k * BlockSize - (size + LengthSize)
<1> DEFINE B == BlockSize
           least == k * B - (size + LengthSize)
           IsPad(z) == (size + z + LengthSize) % B = 0
<1>1. B \in Nat /\ LengthSize \in Nat /\ k * B \in Nat
  BY SizesAre, Times
<1>2. least \in 0 .. B - 1 /\ size + least + LengthSize = k * B
  BY <1>1
<1>3. IsPad(least)
  BY <1>1, <1>2, Multiples
<1>4. ASSUME NEW z \in 0 .. B - 1, IsPad(z) PROVE z = least
  <2>1. PICK j \in Nat : size + z + LengthSize = j * B
    <3>1. size + z + LengthSize \in Nat
      BY <1>1
    <3> QED
      BY <1>4, <3>1, Multiples
  <2> HIDE DEF B
  <2>2. j * B \in Nat
    BY <1>1, Times
  <2>3. j < k => j * B + B <= k * B
    BY <1>1, TimesOrder
  <2>4. k < j => k * B + B <= j * B
    BY <1>1, TimesOrder
  <2> QED
    BY <1>1, <1>2, <2>1, <2>2, <2>3, <2>4
<1> HIDE DEF least, IsPad
<1>5. (CHOOSE z \in 0 .. B - 1 : IsPad(z)) = least
  BY <1>2, <1>3, <1>4, Zenon
<1> QED
  BY <1>5, Zenon DEF least, IsPad

\* What a padded message is made of.
PaddedBytes(X, message) ==
    X \union {Mark, Zero} \union {LengthByte(Len(message), x) : x \in 1 .. LengthSize}

\* The padded message, place by place, when it fills so many blocks.
LEMMA PaddedIs ==
  ASSUME NEW X, NEW message \in Seq(X), NEW k \in Nat,
         Len(message) + 1 + LengthSize <= k * BlockSize,
         k * BlockSize < Len(message) + 1 + LengthSize + BlockSize
  PROVE  /\ Padded(message) \in Seq(PaddedBytes(X, message))
         /\ Len(Padded(message)) = k * BlockSize
         /\ \A j \in 1 .. k * BlockSize :
              Padded(message)[j] =
                IF j <= Len(message) THEN message[j]
                ELSE IF j = Len(message) + 1 THEN Mark
                ELSE IF j <= k * BlockSize - LengthSize THEN Zero
                ELSE LengthByte(Len(message), j - (k * BlockSize - LengthSize))
<1> DEFINE M == Len(message)
           Y == PaddedBytes(X, message)
           body == Append(message, Mark)
           z == k * BlockSize - (M + 1 + LengthSize)
           zeros == [x \in 1 .. z |-> Zero]
           count == [x \in 1 .. LengthSize |-> LengthByte(M, x)]
<1>1. M \in Nat /\ BlockSize \in Nat /\ LengthSize \in Nat /\ k * BlockSize \in Nat /\ z \in Nat
  BY SizesAre, Times
<1>2. message \in Seq(Y) /\ Mark \in Y /\ Zero \in Y /\ \A x \in 1 .. LengthSize : LengthByte(M, x) \in Y
  <2>1. X \subseteq Y
    BY DEF PaddedBytes
  <2>2. message \in Seq(Y)
    BY <2>1, SeqMonotonic
  <2> QED
    BY <2>2, Zenon DEF PaddedBytes
<1>3. /\ body \in Seq(Y) /\ Len(body) = M + 1
      /\ \A x \in 1 .. M : body[x] = message[x] 
      /\ body[M + 1] = Mark
  BY <1>2, AppendProperties
<1> HIDE DEF z, Y
<1>4. zeros \in Seq(Y) /\ Len(zeros) = z /\ \A x \in 1 .. z : zeros[x] = Zero
  BY <1>1, <1>2
<1>5. count \in Seq(Y) /\ Len(count) = LengthSize /\ \A x \in 1 .. LengthSize : count[x] = LengthByte(M, x)
  BY <1>1, <1>2
<1>6. Padded(message) = (body \o zeros) \o count
  <2>1. M + 1 \in Nat
    BY <1>1
  <2>2. (CHOOSE y \in 0 .. BlockSize - 1 : (M + 1 + y + LengthSize) % BlockSize = 0) = z
    BY <2>1, ZerosAre DEF z
  <2> HIDE DEF M, body
  <2>3. (CHOOSE y \in 0 .. BlockSize - 1 : (Len(body) + y + LengthSize) % BlockSize = 0) = z
    BY <1>3, <2>2
  <2> QED
    BY <2>3, Zenon DEF Padded, body, M
<1> HIDE DEF body, zeros, count, M
<1>7. /\ body \o zeros \in Seq(Y) /\ Len(body \o zeros) = M + 1 + z
      /\ \A j \in 1 .. M + 1 + z : (body \o zeros)[j] =
           IF j <= M THEN message[j] ELSE IF j = M + 1 THEN Mark ELSE Zero
  <2>1. /\ body \o zeros \in Seq(Y) /\ Len(body \o zeros) = Len(body) + Len(zeros)
        /\ \A j \in 1 .. Len(body) + Len(zeros) : (body \o zeros)[j] =
             IF j <= Len(body) THEN body[j] ELSE zeros[j - Len(body)]
    BY <1>3, <1>4, ConcatProperties
  <2>2. ASSUME NEW j \in 1 .. M + 1 + z
        PROVE  (body \o zeros)[j] = IF j <= M THEN message[j] ELSE IF j = M + 1 THEN Mark ELSE Zero
    <3>1. CASE j <= M + 1
      BY <1>1, <1>3, <1>4, <2>1, <3>1
    <3>2. CASE j > M + 1
      <4>1. j - (M + 1) \in 1 .. z
        BY <1>1, <3>2
      <4> QED
        BY <1>1, <1>3, <1>4, <2>1, <3>2, <4>1
    <3>3. j <= M + 1 \/ j > M + 1
      BY <1>1
    <3> QED
      BY <3>1, <3>2, <3>3, Zenon
  <2> QED
    BY <1>3, <1>4, <2>1, <2>2
<1> DEFINE all == body \o zeros
<1> HIDE DEF all
<1>8. /\ all \o count \in Seq(Y) /\ Len(all \o count) = M + 1 + z + LengthSize
      /\ \A j \in 1 .. M + 1 + z + LengthSize : (all \o count)[j] =
           IF j <= M + 1 + z THEN all[j] ELSE count[j - (M + 1 + z)]
  <2>1. /\ all \o count \in Seq(Y) /\ Len(all \o count) = Len(all) + Len(count)
        /\ \A j \in 1 .. Len(all) + Len(count) : (all \o count)[j] =
             IF j <= Len(all) THEN all[j] ELSE count[j - Len(all)]
    BY <1>5, <1>7, ConcatProperties DEF all
  <2> QED
    BY <1>5, <1>7, <2>1 DEF all
<1>9. z = k * BlockSize - (M + 1 + LengthSize)
  BY DEF z, M
<1> DEFINE K == k * BlockSize
<1> HIDE DEF K
<1>10. M + 1 + z + LengthSize = K /\ M + 1 + z = K - LengthSize
  BY <1>1, <1>9 DEF K
<1>11. ASSUME NEW j \in 1 .. K
       PROVE  (all \o count)[j] =
                IF j <= M THEN message[j] ELSE IF j = M + 1 THEN Mark
                ELSE IF j <= K - LengthSize THEN Zero ELSE LengthByte(M, j - (K - LengthSize))
  <2>1. CASE j <= K - LengthSize
    <3>1. (all \o count)[j] = all[j] /\ j \in 1 .. M + 1 + z
      BY <1>1, <1>8, <1>10, <2>1
    <3> QED
      BY <1>7, <2>1, <3>1 DEF all
  <2>2. CASE j > K - LengthSize
    <3>1. (all \o count)[j] = count[j - (K - LengthSize)]
      <4>1. (all \o count)[j] = IF j <= K - LengthSize THEN all[j] ELSE count[j - (K - LengthSize)]
        BY <1>8, <1>10, Zenon
      <4>2. ~(j <= K - LengthSize)
        BY <1>1, <2>2 DEF K
      <4> QED
        BY <4>1, <4>2, Zenon
    <3>2. j - (K - LengthSize) \in 1 .. LengthSize /\ j > M + 1
      BY <1>1, <1>10, <2>2 DEF K
    <3>3. (all \o count)[j] = LengthByte(M, j - (K - LengthSize))
      BY <1>5, <3>1, <3>2
    <3>4. ~(j <= M) /\ j # M + 1 /\ ~(j <= K - LengthSize)
      BY <1>1, <2>2, <3>2 DEF K
    <3> QED
      BY <3>3, <3>4, Zenon
  <2>3. j <= K - LengthSize \/ j > K - LengthSize
    BY <1>1 DEF K
  <2> QED
    BY <2>1, <2>2, <2>3, Zenon
<1>12. Padded(message) = all \o count
  BY <1>6 DEF all
<1> QED
  BY <1>8, <1>10, <1>11, <1>12 DEF K, M, Y

Ctx(h, total, used, block) == [h |-> h, total |-> total, used |-> used, block |-> block]
Block(X) == [1 .. BlockSize -> X]
\* The hash between two calls: the block is never full.
Ctxs(X) == [h : Seq(Block(X)), total : Nat, used : 0 .. BlockSize - 1, block : Block(X)]

\* The parts of a hash, and what the operators of Sha256 do to them.
LEMMA CtxIs ==
  ASSUME NEW h, NEW total, NEW used, NEW block
  PROVE  /\ Ctx(h, total, used, block).h = h /\ Ctx(h, total, used, block).total = total
         /\ Ctx(h, total, used, block).used = used /\ Ctx(h, total, used, block).block = block
         /\ \A X : Ctx(h, total, used, block) \in Ctxs(X) <=>
              h \in Seq(Block(X)) /\ total \in Nat /\ used \in 0 .. BlockSize - 1 /\ block \in Block(X)
  BY DEF Ctx, Ctxs

LEMMA CtxParts ==
  ASSUME NEW X, NEW ctx \in Ctxs(X)
  PROVE  ctx = Ctx(ctx.h, ctx.total, ctx.used, ctx.block)
  BY DEF Ctxs, Ctx

LEMMA TransformFields ==
  ASSUME NEW h, NEW total, NEW used, NEW block
  PROVE  Transform(Ctx(h, total, used, block)) = Ctx(Append(h, block), total, 0, block)
<1> DEFINE ctx == Ctx(h, total, used, block)
           hs == Append(h, block)
           begun == [ctx EXCEPT !.h = hs]
<1>1. begun = Ctx(hs, total, used, block)
  <2> HIDE DEF hs
  <2> QED
    BY DEF Ctx
<1>2. [begun EXCEPT !.used = 0] = Ctx(hs, total, 0, block)
  <2> HIDE DEF begun, hs
  <2> QED
    BY <1>1 DEF Ctx
<1>3. ctx.h = h /\ ctx.block = block
  BY CtxIs
<1> HIDE DEF ctx
<1>4. Transform(ctx) = [begun EXCEPT !.used = 0]
  <2>1. Transform(ctx) = [ctx EXCEPT !.h = hs, !.used = 0]
    BY <1>3 DEF Transform
  <2> HIDE DEF hs
  <2> QED
    BY <2>1
<1> QED
  BY <1>2, <1>4, Zenon DEF ctx

\* A block with one byte changed, and a hash with one byte put behind the others.
With(block, x, byte) == [block EXCEPT ![x] = byte]
Filled(ctx, byte) == [ctx EXCEPT !.block[ctx.used + 1] = byte, !.used = @ + 1]

LEMMA FilledFields ==
  ASSUME NEW h, NEW total, NEW used, NEW block, NEW byte
  PROVE  Filled(Ctx(h, total, used, block), byte)
           = Ctx(h, total, used + 1, With(block, used + 1, byte))
<1> DEFINE filled == With(block, used + 1, byte)
           ctx == Ctx(h, total, used, block)
           begun == [ctx EXCEPT !.block = filled]
<1>1. begun = Ctx(h, total, used, filled)
  <2> HIDE DEF filled
  <2> QED
    BY DEF Ctx
<1>2. [begun EXCEPT !.used = used + 1] = Ctx(h, total, used + 1, filled)
  <2> HIDE DEF filled, begun
  <2> QED
    BY <1>1 DEF Ctx
<1>3. ctx.block = block /\ ctx.used = used
  BY DEF Ctx
<1> HIDE DEF ctx
<1>4. Filled(ctx, byte) = [begun EXCEPT !.used = used + 1]
  BY <1>3 DEF Filled, With
<1> QED
  BY <1>2, <1>4, Zenon DEF ctx

LEMMA PutFields ==
  ASSUME NEW h, NEW total, NEW used, NEW block, NEW byte
  PROVE  Put(Ctx(h, total, used, block), byte)
           = IF used + 1 = BlockSize
             THEN Ctx(Append(h, With(block, used + 1, byte)), total, 0, With(block, used + 1, byte))
             ELSE Ctx(h, total, used + 1, With(block, used + 1, byte))
<1> DEFINE ctx == Ctx(h, total, used, block)
           filled == With(block, used + 1, byte)
           next == Ctx(h, total, used + 1, filled)
<1>1. Filled(ctx, byte) = next
  BY FilledFields
<1>4. next.used = used + 1
  BY CtxIs
<1>2. Transform(next) = Ctx(Append(h, filled), total, 0, filled)
  BY TransformFields, Zenon
<1> HIDE DEF ctx, next
<1>3. Put(ctx, byte) = IF next.used = BlockSize THEN Transform(next) ELSE next
  BY <1>1, Zenon DEF Put, Filled
<1> QED
  BY <1>2, <1>3, <1>4, Zenon DEF ctx, next

\* The first p bytes of m are in the hashed blocks and the one begun.
Absorbed(ctx, m, p) ==
    /\ p = Len(ctx.h) * BlockSize + ctx.used
    /\ \A b \in 1 .. Len(ctx.h), x \in 1 .. BlockSize :
         ctx.h[b][x] = m[(b - 1) * BlockSize + x]
    /\ \A x \in 1 .. ctx.used : ctx.block[x] = m[Len(ctx.h) * BlockSize + x]

\* One more byte, and the block is begun anew when it is full.
LEMMA PutFacts ==
  ASSUME NEW X, NEW ctx \in Ctxs(X), NEW byte \in X
  PROVE  /\ Put(ctx, byte) \in Ctxs(X) /\ Put(ctx, byte).total = ctx.total
         /\ \A m, p : Absorbed(ctx, m, p) /\ m[p + 1] = byte => Absorbed(Put(ctx, byte), m, p + 1)
<1> DEFINE B == BlockSize
           h == ctx.h
           used == ctx.used
           filled == With(ctx.block, used + 1, byte)
           n == Len(h)
<1>1. /\ h \in Seq(Block(X)) /\ ctx.total \in Nat /\ used \in 0 .. B - 1
      /\ ctx.block \in [1 .. B -> X] /\ B \in Nat /\ n \in Nat
  BY SizesAre DEF Ctxs, Block
<1>2. Put(ctx, byte) = IF used + 1 = B THEN Ctx(Append(h, filled), ctx.total, 0, filled)
                       ELSE Ctx(h, ctx.total, used + 1, filled)
  <2>1. Put(Ctx(h, ctx.total, used, ctx.block), byte)
          = IF used + 1 = B THEN Ctx(Append(h, filled), ctx.total, 0, filled)
            ELSE Ctx(h, ctx.total, used + 1, filled)
    BY PutFields
  <2>2. Ctx(h, ctx.total, used, ctx.block) = ctx
    BY CtxParts, Zenon
  <2> QED
    BY <2>1, <2>2, Zenon
<1>3. /\ filled \in [1 .. B -> X] /\ filled \in Block(X) /\ filled[used + 1] = byte
      /\ \A x \in 1 .. used : filled[x] = ctx.block[x]
  BY <1>1 DEF Block, With
<1> HIDE DEF B, h, used, filled, n
<1>4. ASSUME NEW m, NEW p, Absorbed(ctx, m, p), m[p + 1] = byte
      PROVE  /\ p = n * B + used /\ n * B \in Nat
             /\ \A b \in 1 .. n, x \in 1 .. B : h[b][x] = m[(b - 1) * B + x]
             /\ \A x \in 1 .. used + 1 : filled[x] = m[n * B + x]
  <2>1. /\ p = n * B + used /\ \A x \in 1 .. used : ctx.block[x] = m[n * B + x]
        /\ \A b \in 1 .. n, x \in 1 .. B : h[b][x] = m[(b - 1) * B + x]
    BY <1>4 DEF Absorbed, B, h, used, n
  <2> DEFINE q == n * B
  <2>2. q \in Nat
    BY <1>1, Times
  <2> HIDE DEF q
  <2>3. ASSUME NEW x \in 1 .. used + 1 PROVE filled[x] = m[q + x]
    <3>1. CASE x = used + 1
      <4>1. q + x = p + 1
        BY <1>1, <2>1, <2>2, <3>1 DEF q
      <4> QED
        BY <1>3, <1>4, <3>1, <4>1
    <3>2. CASE x # used + 1
      <4>1. x \in 1 .. used
        BY <1>1, <3>2
      <4> QED
        BY <1>3, <2>1, <4>1 DEF q
    <3> QED
      BY <3>1, <3>2
  <2> QED
    BY <2>1, <2>2, <2>3 DEF q
<1>5. CASE used + 1 = B
  <2> DEFINE hs == Append(h, filled)
             next == Ctx(hs, ctx.total, 0, filled)
  <2>1. /\ hs \in Seq(Block(X)) /\ Len(hs) = n + 1 /\ hs[n + 1] = filled
        /\ \A b \in 1 .. n : hs[b] = h[b]
    BY <1>1, <1>3 DEF n
  <2> HIDE DEF hs
  <2>2. /\ next \in Ctxs(X) /\ next.h = hs /\ next.total = ctx.total
        /\ next.used = 0 /\ next.block = filled
    <3>1. 0 \in 0 .. BlockSize - 1
      BY SizesAre
    <3> QED
      BY <1>1, <1>3, <2>1, <3>1, CtxIs
  <2> HIDE DEF next
  <2>3. ASSUME NEW m, NEW p, Absorbed(ctx, m, p), m[p + 1] = byte
        PROVE  Absorbed(next, m, p + 1)
    <3>1. /\ p = n * B + used /\ n * B \in Nat
          /\ \A b \in 1 .. n, x \in 1 .. B : h[b][x] = m[(b - 1) * B + x]
          /\ \A x \in 1 .. used + 1 : filled[x] = m[n * B + x]
      BY <1>4, <2>3
    <3>2. p + 1 = (n + 1) * B + 0
      <4>1. (n + 1) * B = n * B + B
        BY <1>1, Times
      <4> QED
        BY <1>1, <1>5, <3>1, <4>1
    <3>3. ASSUME NEW b \in 1 .. n + 1, NEW x \in 1 .. B
          PROVE  hs[b][x] = m[(b - 1) * B + x]
      <4>1. CASE b = n + 1
        <5>1. b - 1 = n
          BY <1>1, <4>1
        <5> QED
          BY <1>5, <2>1, <3>1, <4>1, <5>1
      <4>2. CASE b # n + 1
        <5>1. b \in 1 .. n
          BY <1>1, <4>2
        <5> QED
          BY <2>1, <3>1, <5>1
      <4> QED
        BY <4>1, <4>2
    <3> QED
      BY <2>1, <2>2, <3>2, <3>3 DEF Absorbed, B
  <2> QED
    BY <1>2, <1>5, <2>2, <2>3 DEF next, hs
<1>6. CASE used + 1 # B
  <2> DEFINE next == Ctx(h, ctx.total, used + 1, filled)
  <2>1. /\ next \in Ctxs(X) /\ next.h = h /\ next.total = ctx.total
        /\ next.used = used + 1 /\ next.block = filled
    <3>1. used + 1 \in 0 .. BlockSize - 1
      BY <1>1, <1>6 DEF B
    <3> QED
      BY <1>1, <1>3, <3>1, CtxIs
  <2> HIDE DEF next
  <2>2. ASSUME NEW m, NEW p, Absorbed(ctx, m, p), m[p + 1] = byte
        PROVE  Absorbed(next, m, p + 1)
    <3>1. p + 1 = n * B + (used + 1)
      BY <1>1, <1>4, <2>2
    <3> QED
      BY <1>4, <2>1, <2>2, <3>1 DEF Absorbed, n, B
  <2> QED
    BY <1>2, <1>6, <2>1, <2>2 DEF next
<1> QED
  BY <1>5, <1>6

\* The turns of the loop over the bytes of a piece.
PutRun(X, start, data, g) ==
    /\ g \in [0 .. Len(data) -> Ctxs(X)] /\ g[0] = start
    /\ \A n \in 1 .. Len(data) : g[n] = Put(g[n - 1], data[n])
    /\ g[Len(data)] = FoldLeft(Put, start, data)

LEMMA PutTurns ==
  ASSUME NEW X, NEW start \in Ctxs(X), NEW data \in Seq(X)
  PROVE  \E g : PutRun(X, start, data, g)
<1> DEFINE k == Len(data)
           H == Ctxs(X)
           step == [n \in 1 .. k |-> [ctx \in H |-> Put(ctx, data[n])]]
           Is(f) == f = [s \in SUBSET DOMAIN data |->
                           IF s = {} THEN start ELSE Put(f[s \ {Max(s)}], data[Max(s)])]
<1>1. k \in Nat /\ DOMAIN data = 1 .. k /\ \A n \in 1 .. k : data[n] \in X
  OBVIOUS
<1>a. \A n \in 1 .. k, ctx \in H : Put(ctx, data[n]) \in H
  BY <1>1, PutFacts
<1> HIDE DEF H
<1>2. step \in [1 .. k -> [H -> H]]
  BY <1>a
<1>b. start \in H
  BY DEF H
<1>3. FoldLeft(Put, start, data) = (CHOOSE h : Is(h))[DOMAIN data]
  BY Zenon DEF FoldLeft, MapThenFoldSet
<1>4. \E f : IsFold(H, start, k, step, f)
  <2> HIDE DEF step, k
  <2> QED
    BY <1>1, <1>2, <1>b, FoldExists
<1>5. PICK f : Is(f)
  <2>0. PICK f : IsFold(H, start, k, step, f)
    BY <1>4
  <2>1. f \in [SUBSET (1 .. k) -> H] /\ \A s \in SUBSET (1 .. k) :
          f[s] = IF s = {} THEN start ELSE step[Max(s)][f[s \ {Max(s)}]]
    BY <2>0 DEF IsFold
  <2>2. ASSUME NEW s \in SUBSET (1 .. k), s # {}
        PROVE  f[s] = Put(f[s \ {Max(s)}], data[Max(s)])
    <3>1. k \in Nat /\ s \ {Max(s)} \in SUBSET (1 .. k)
      BY <1>1
    <3>2. Max(s) \in 1 .. k /\ f[s \ {Max(s)}] \in H
      BY <2>1, <2>2, <3>1, MaxIn
    <3> QED
      BY <2>1, <2>2, <3>2
  <2>3. f[{}] = start /\ f = [s \in SUBSET (1 .. k) |-> f[s]]
    BY <2>1
  <2>4. Is(f)
    BY <1>1, <2>2, <2>3
  <2> QED
    BY <2>4
<1> DEFINE iter == CHOOSE h : Is(h)
<1>6. Is(iter)
  <2> HIDE DEF Is
  <2> QED
    BY <1>5, Zenon
<1>7. iter[{}] = start /\ \A s \in SUBSET (1 .. k) : s # {} /\ iter[s \ {Max(s)}] \in H =>
        iter[s] = step[Max(s)][iter[s \ {Max(s)}]]
  <2> HIDE DEF iter
  <2>1. iter[{}] = start
    BY <1>1, <1>6
  <2>2. ASSUME NEW s \in SUBSET (1 .. k), s # {}, iter[s \ {Max(s)}] \in H
        PROVE  iter[s] = step[Max(s)][iter[s \ {Max(s)}]]
    <3>2. Max(s) \in 1 .. k
      BY <1>1, <2>2, MaxIn
    <3>3. iter[s] = Put(iter[s \ {Max(s)}], data[Max(s)])
      BY <1>1, <1>6, <2>2
    <3> QED
      BY <2>2, <3>2, <3>3
  <2> QED
    BY <2>1, <2>2
<1>8. \E g : IsLoop(H, start, k, step, g) /\ g[k] = iter[1 .. k]
  <2> HIDE DEF iter, step, k
  <2>2. Unfolds(H, start, k, step, iter)
    BY <1>7 DEF Unfolds
  <2> QED
    BY <1>1, <1>2, <1>b, <2>2, FoldPrefixes
<1>9. PICK g : IsLoop(H, start, k, step, g) /\ g[k] = iter[1 .. k]
  BY <1>8
<1>10. ASSUME NEW n \in 1 .. k PROVE g[n] = Put(g[n - 1], data[n])
  <2>1. n - 1 \in 0 .. k
    BY <1>1
  <2>2. g[n - 1] \in H
    BY <1>9, <2>1 DEF IsLoop
  <2> QED
    BY <1>9, <2>2 DEF IsLoop
<1>11. g \in [0 .. k -> H] /\ g[0] = start
  BY <1>9 DEF IsLoop
<1> HIDE DEF iter, step
<1> QED
  BY <1>1, <1>3, <1>9, <1>10, <1>11, Zenon DEF iter, H, PutRun

\* A piece goes behind what has been absorbed.
LEMMA UpdateFacts ==
  ASSUME NEW X, NEW ctx \in Ctxs(X), NEW data \in Seq(X)
  PROVE  /\ Update(ctx, data) \in Ctxs(X) /\ Update(ctx, data).total = ctx.total + Len(data)
         /\ \A m : \A p \in Nat :
              Absorbed(ctx, m, p) /\ (\A x \in 1 .. Len(data) : data[x] = m[p + x]) =>
                Absorbed(Update(ctx, data), m, p + Len(data))
<1> DEFINE k == Len(data)
           start == [ctx EXCEPT !.total = @ + k]
<1>1. k \in Nat /\ DOMAIN data = 1 .. k /\ \A n \in 1 .. k : data[n] \in X
  OBVIOUS
<1>2. /\ start \in Ctxs(X) /\ start.total = ctx.total + k
      /\ start.h = ctx.h /\ start.used = ctx.used /\ start.block = ctx.block
  <2> HIDE DEF k
  <2> QED
    BY <1>1 DEF Ctxs
<1> HIDE DEF start
<1>3. PICK g : PutRun(X, start, data, g)
  <2>1. start \in Ctxs(X)
    BY <1>2
  <2> QED
    BY <2>1, PutTurns
<1>4. Update(ctx, data) = g[k]
  BY <1>3, Zenon DEF Update, start, PutRun
<1>5. /\ g \in [0 .. k -> Ctxs(X)] /\ g[0] = start
      /\ \A n \in 1 .. k : g[n] = Put(g[n - 1], data[n])
  BY <1>3, Zenon DEF PutRun
<1> HIDE DEF k
<1>6. g[k] \in Ctxs(X)
  BY <1>1, <1>5
<1>7. ASSUME NEW n \in 0 .. k - 1
      PROVE  /\ g[n] \in Ctxs(X) /\ g[n + 1] = Put(g[n], data[n + 1]) /\ data[n + 1] \in X
             /\ n + 1 \in 1 .. k /\ n + 1 \in 0 .. k
  <2>1. n + 1 \in 1 .. k /\ n \in 0 .. k /\ n + 1 \in 0 .. k /\ (n + 1) - 1 = n
    BY <1>1
  <2> QED
    BY <1>1, <1>5, <2>1
<1>8. g[k].total = ctx.total + k
  <2> DEFINE S == {n \in 0 .. k : g[n].total = ctx.total + k}
  <2>1. 0 \in S
    BY <1>1, <1>2, <1>5
  <2>2. ASSUME NEW n \in 0 .. k - 1, n \in S PROVE n + 1 \in S
    <3>1. Put(g[n], data[n + 1]).total = g[n].total
      BY <1>7, PutFacts, Zenon
    <3> QED
      BY <1>7, <2>2, <3>1
  <2> HIDE DEF S
  <2>3. \A n \in 0 .. k : n \in S
    BY <1>1, <2>1, <2>2, CountUp, Zenon
  <2> QED
    BY <1>1, <2>3 DEF S
<1>9. ASSUME NEW m, NEW p \in Nat, Absorbed(ctx, m, p), \A x \in 1 .. k : data[x] = m[p + x]
      PROVE  Absorbed(g[k], m, p + k)
  <2> DEFINE S == {n \in 0 .. k : Absorbed(g[n], m, p + n)}
  <2>1. 0 \in S
    <3>1. p + 0 = p /\ 0 \in 0 .. k
      BY <1>1
    <3>2. Absorbed(start, m, p)
      BY <1>2, <1>9 DEF Absorbed
    <3> QED
      BY <1>5, <3>1, <3>2
  <2>2. ASSUME NEW n \in 0 .. k - 1, n \in S PROVE n + 1 \in S
    <3>1. Absorbed(g[n], m, p + n)
      BY <2>2
    <3>2. m[(p + n) + 1] = data[n + 1] /\ (p + n) + 1 = p + (n + 1)
      BY <1>7, <1>9
    <3>3. Absorbed(Put(g[n], data[n + 1]), m, (p + n) + 1)
      BY <1>7, <3>1, <3>2, PutFacts, Zenon
    <3> QED
      BY <1>7, <3>2, <3>3
  <2> HIDE DEF S
  <2>3. \A n \in 0 .. k : n \in S
    BY <1>1, <2>1, <2>2, CountUp, Zenon
  <2> QED
    BY <1>1, <2>3 DEF S
<1> QED
  BY <1>4, <1>6, <1>8, <1>9 DEF k

\* The turns of the loop over the pieces of a message.
UpdateRun(X, start, pieces, g) ==
    /\ g \in [0 .. Len(pieces) -> Ctxs(X)] /\ g[0] = start
    /\ \A n \in 1 .. Len(pieces) : g[n] = Update(g[n - 1], pieces[n])
    /\ g[Len(pieces)] = FoldLeft(Update, start, pieces)

LEMMA UpdateTurns ==
  ASSUME NEW X, NEW start \in Ctxs(X), NEW pieces \in Seq(Seq(X))
  PROVE  \E g : UpdateRun(X, start, pieces, g)
<1> DEFINE k == Len(pieces)
           H == Ctxs(X)
           step == [n \in 1 .. k |-> [ctx \in H |-> Update(ctx, pieces[n])]]
           Is(f) == f = [s \in SUBSET DOMAIN pieces |->
                           IF s = {} THEN start ELSE Update(f[s \ {Max(s)}], pieces[Max(s)])]
<1>1. k \in Nat /\ DOMAIN pieces = 1 .. k /\ \A n \in 1 .. k : pieces[n] \in Seq(X)
  OBVIOUS
<1>a. \A n \in 1 .. k, ctx \in H : Update(ctx, pieces[n]) \in H
  BY <1>1, UpdateFacts
<1> HIDE DEF H
<1>2. step \in [1 .. k -> [H -> H]]
  BY <1>a
<1>b. start \in H
  BY DEF H
<1>3. FoldLeft(Update, start, pieces) = (CHOOSE h : Is(h))[DOMAIN pieces]
  BY Zenon DEF FoldLeft, MapThenFoldSet
<1>4. \E f : IsFold(H, start, k, step, f)
  <2> HIDE DEF step, k
  <2> QED
    BY <1>1, <1>2, <1>b, FoldExists
<1>5. PICK f : Is(f)
  <2>0. PICK f : IsFold(H, start, k, step, f)
    BY <1>4
  <2>1. f \in [SUBSET (1 .. k) -> H] /\ \A s \in SUBSET (1 .. k) :
          f[s] = IF s = {} THEN start ELSE step[Max(s)][f[s \ {Max(s)}]]
    BY <2>0 DEF IsFold
  <2>2. ASSUME NEW s \in SUBSET (1 .. k), s # {}
        PROVE  f[s] = Update(f[s \ {Max(s)}], pieces[Max(s)])
    <3>1. k \in Nat /\ s \ {Max(s)} \in SUBSET (1 .. k)
      BY <1>1
    <3>2. Max(s) \in 1 .. k /\ f[s \ {Max(s)}] \in H
      BY <2>1, <2>2, <3>1, MaxIn
    <3> QED
      BY <2>1, <2>2, <3>2
  <2>3. f[{}] = start /\ f = [s \in SUBSET (1 .. k) |-> f[s]]
    BY <2>1
  <2>4. Is(f)
    BY <1>1, <2>2, <2>3
  <2> QED
    BY <2>4
<1> DEFINE iter == CHOOSE h : Is(h)
<1>6. Is(iter)
  <2> HIDE DEF Is
  <2> QED
    BY <1>5, Zenon
<1>7. iter[{}] = start /\ \A s \in SUBSET (1 .. k) : s # {} /\ iter[s \ {Max(s)}] \in H =>
        iter[s] = step[Max(s)][iter[s \ {Max(s)}]]
  <2> HIDE DEF iter
  <2>1. iter[{}] = start
    BY <1>1, <1>6
  <2>2. ASSUME NEW s \in SUBSET (1 .. k), s # {}, iter[s \ {Max(s)}] \in H
        PROVE  iter[s] = step[Max(s)][iter[s \ {Max(s)}]]
    <3>2. Max(s) \in 1 .. k
      BY <1>1, <2>2, MaxIn
    <3>3. iter[s] = Update(iter[s \ {Max(s)}], pieces[Max(s)])
      BY <1>1, <1>6, <2>2
    <3> QED
      BY <2>2, <3>2, <3>3
  <2> QED
    BY <2>1, <2>2
<1>8. \E g : IsLoop(H, start, k, step, g) /\ g[k] = iter[1 .. k]
  <2> HIDE DEF iter, step, k
  <2>2. Unfolds(H, start, k, step, iter)
    BY <1>7 DEF Unfolds
  <2> QED
    BY <1>1, <1>2, <1>b, <2>2, FoldPrefixes
<1>9. PICK g : IsLoop(H, start, k, step, g) /\ g[k] = iter[1 .. k]
  BY <1>8
<1>10. ASSUME NEW n \in 1 .. k PROVE g[n] = Update(g[n - 1], pieces[n])
  <2>1. n - 1 \in 0 .. k
    BY <1>1
  <2>2. g[n - 1] \in H
    BY <1>9, <2>1 DEF IsLoop
  <2> QED
    BY <1>9, <2>2 DEF IsLoop
<1>11. g \in [0 .. k -> H] /\ g[0] = start
  BY <1>9 DEF IsLoop
<1> HIDE DEF iter, step
<1> QED
  BY <1>1, <1>3, <1>9, <1>10, <1>11, Zenon DEF iter, H, UpdateRun


\* The pieces, cut off at these places, are the message.
Cuts(message, pieces, cuts) ==
    /\ cuts \in [0 .. Len(pieces) -> Nat] /\ cuts[0] = 0 /\ cuts[Len(pieces)] = Len(message)
    /\ \A n \in 1 .. Len(pieces) :
         /\ cuts[n] = cuts[n - 1] + Len(pieces[n])
         /\ \A x \in 1 .. Len(pieces[n]) : pieces[n][x] = message[cuts[n - 1] + x]

\* When all pieces have been given the whole message has been absorbed.
LEMMA AllAbsorbed ==
  ASSUME NEW X, Zero \in X, NEW message, NEW pieces \in Seq(Seq(X)), NEW cuts,
         Cuts(message, pieces, cuts)
  PROVE  LET ctx == FoldLeft(Update, Sha256Init, pieces)
         IN  /\ ctx \in Ctxs(X) /\ ctx.total = Len(message)
             /\ Absorbed(ctx, message, Len(message))
<1> DEFINE k == Len(pieces)
<1>1. k \in Nat /\ \A n \in 1 .. k : pieces[n] \in Seq(X)
  OBVIOUS
<1>2. Sha256Init \in Ctxs(X) /\ Sha256Init.total = 0 /\ Absorbed(Sha256Init, message, 0)
  <2>1. BlockSize \in Nat /\ BlockSize > 0 /\ 0 * BlockSize = 0
    BY SizesAre
  <2>2. Sha256Init.block \in Block(X)
    BY <2>1 DEF Sha256Init, Block
  <2>3. /\ Sha256Init.h = <<>> /\ Sha256Init.total = 0 /\ Sha256Init.used = 0
        /\ Sha256Init = Ctx(Sha256Init.h, Sha256Init.total, Sha256Init.used, Sha256Init.block)
    BY DEF Sha256Init, Ctx
  <2>4. <<>> \in Seq(Block(X)) /\ Len(<<>>) = 0
    OBVIOUS
  <2>5. 0 \in 0 .. BlockSize - 1
    BY <2>1
  <2>6. Sha256Init \in Ctxs(X)
    <3> DEFINE zeros == Sha256Init.block
    <3>1. zeros \in Block(X) /\ 0 \in Nat
      BY <2>2
    <3> HIDE DEF zeros
    <3>2. Ctx(<<>>, 0, 0, zeros) \in Ctxs(X)
      BY <2>4, <2>5, <3>1, CtxIs
    <3> QED
      BY <2>3, <3>2, Zenon DEF zeros
  <2> QED
    BY <2>1, <2>3, <2>4, <2>6 DEF Absorbed
<1>3. PICK g : UpdateRun(X, Sha256Init, pieces, g)
  BY <1>2, UpdateTurns
<1>4. FoldLeft(Update, Sha256Init, pieces) = g[k]
  BY <1>3, Zenon DEF UpdateRun
<1>5. /\ g \in [0 .. k -> Ctxs(X)] /\ g[0] = Sha256Init
      /\ \A n \in 1 .. k : g[n] = Update(g[n - 1], pieces[n])
  BY <1>3, Zenon DEF UpdateRun
<1>6. /\ cuts \in [0 .. k -> Nat] /\ cuts[0] = 0 /\ cuts[k] = Len(message)
      /\ \A n \in 1 .. k : /\ cuts[n] = cuts[n - 1] + Len(pieces[n])
                           /\ \A x \in 1 .. Len(pieces[n]) : pieces[n][x] = message[cuts[n - 1] + x]
  BY DEF Cuts
<1> HIDE DEF k
<1> DEFINE S == {n \in 0 .. k : g[n].total = cuts[n] /\ Absorbed(g[n], message, cuts[n])}
<1>7. 0 \in S
  BY <1>1, <1>2, <1>5, <1>6
<1>8. ASSUME NEW n \in 0 .. k - 1, n \in S PROVE n + 1 \in S
  <2>1. /\ n + 1 \in 1 .. k /\ n \in 0 .. k /\ n + 1 \in 0 .. k /\ (n + 1) - 1 = n
    BY <1>1
  <2>2. /\ g[n] \in Ctxs(X) /\ g[n + 1] = Update(g[n], pieces[n + 1]) /\ pieces[n + 1] \in Seq(X)
        /\ cuts[n] \in Nat
    BY <1>1, <1>5, <1>6, <2>1
  <2>3. /\ cuts[n + 1] = cuts[n] + Len(pieces[n + 1])
        /\ \A x \in 1 .. Len(pieces[n + 1]) : pieces[n + 1][x] = message[cuts[n] + x]
    BY <1>6, <2>1
  <2>4. g[n].total = cuts[n] /\ Absorbed(g[n], message, cuts[n])
    BY <1>8
  <2>5. Absorbed(g[n + 1], message, cuts[n + 1])
    <3> DEFINE ctx == g[n]
               data == pieces[n + 1]
               p == cuts[n]
    <3>1. ctx \in Ctxs(X) /\ data \in Seq(X) /\ p \in Nat /\ Absorbed(ctx, message, p)
          /\ \A x \in 1 .. Len(data) : data[x] = message[p + x]
      BY <2>2, <2>3, <2>4
    <3> HIDE DEF ctx, data, p
    <3>2. Absorbed(Update(ctx, data), message, p + Len(data))
      BY <3>1, UpdateFacts, Zenon
    <3> QED
      BY <2>2, <2>3, <3>2, Zenon DEF ctx, data, p
  <2>6. g[n + 1].total = g[n].total + Len(pieces[n + 1])
    <3> DEFINE ctx == g[n]
               data == pieces[n + 1]
    <3>1. ctx \in Ctxs(X) /\ data \in Seq(X) /\ g[n + 1] = Update(ctx, data)
      BY <2>2
    <3> HIDE DEF ctx, data
    <3>2. Update(ctx, data).total = ctx.total + Len(data)
      BY <3>1, UpdateFacts, Zenon
    <3> QED
      BY <3>1, <3>2, Zenon DEF ctx, data
  <2> QED
    BY <2>1, <2>3, <2>4, <2>5, <2>6
<1>9. \A n \in 0 .. k : n \in S
  <2> HIDE DEF S
  <2> QED
    BY <1>1, <1>7, <1>8, CountUp, Zenon
<1>10. k \in 0 .. k
  BY <1>1
<1>11. g[k] \in Ctxs(X) /\ g[k].total = cuts[k] /\ Absorbed(g[k], message, cuts[k])
  BY <1>5, <1>9, <1>10
<1> QED
  BY <1>4, <1>6, <1>11, Zenon

\* What is hashed is the blocks of a sequence if it is that sequence in blocks.
LEMMA BlocksAre ==
  ASSUME NEW Y, NEW bytes \in Seq(Y), NEW k \in Nat, Len(bytes) = k * BlockSize,
         NEW h \in Seq(Block(Y)), Len(h) = k,
         \A b \in 1 .. k, x \in 1 .. BlockSize : h[b][x] = bytes[(b - 1) * BlockSize + x]
  PROVE  h = Blocks(bytes)
<1> DEFINE B == BlockSize
           Cut(b) == SubSeq(bytes, (b - 1) * B + 1, b * B)
<1>1. B \in Nat /\ B > 0 /\ k * B \in Nat
  BY SizesAre, Times
<1>2. Len(bytes) \div B = k
  BY <1>1, Multiples
<1>3. ASSUME NEW b \in 1 .. k PROVE h[b] = Cut(b)
  <2> DEFINE q == (b - 1) * B
  <2>1. q \in Nat /\ b * B = q + B /\ q + B <= k * B
    <3>1. b - 1 \in Nat /\ (b - 1) + 1 = b
      OBVIOUS
    <3>2. q \in Nat /\ b * B = q + B
      BY <1>1, <3>1, Times
    <3>3. b - 1 < k
      OBVIOUS
    <3> QED
      BY <1>1, <3>1, <3>2, <3>3, TimesOrder
  <2>2. h[b] \in [1 .. B -> Y] /\ \A x \in 1 .. B : h[b][x] = bytes[q + x]
    BY DEF Block
  <2> HIDE DEF q
  <2>3. \A x \in q + 1 .. q + B : bytes[x] \in Y
    <3>1. \A x \in 1 .. Len(bytes) : bytes[x] \in Y
      BY ElementOfSeq
    <3> QED
      BY <1>1, <2>1, <3>1
  <2>4. /\ SubSeq(bytes, q + 1, q + B) \in Seq(Y)
        /\ Len(SubSeq(bytes, q + 1, q + B)) = B
        /\ \A x \in 1 .. B : SubSeq(bytes, q + 1, q + B)[x] = bytes[q + x]
    <3>1. q + 1 \in Int /\ q + B \in Int /\ q + 1 <= q + B /\ (q + B) - (q + 1) + 1 = B
      BY <1>1, <2>1
    <3>2. /\ SubSeq(bytes, q + 1, q + B) \in Seq(Y)
          /\ Len(SubSeq(bytes, q + 1, q + B)) =
               IF q + 1 <= q + B THEN (q + B) - (q + 1) + 1 ELSE 0
          /\ \A x \in 1 .. (q + B) - (q + 1) + 1 :
               SubSeq(bytes, q + 1, q + B)[x] = bytes[(q + 1) + x - 1]
      BY <2>3, <3>1, SubSeqProperties
    <3>3. \A x \in 1 .. B : (q + 1) + x - 1 = q + x
      BY <2>1
    <3> QED
      BY <3>1, <3>2, <3>3
  <2> DEFINE s == SubSeq(bytes, q + 1, q + B)
  <2>5. s \in [1 .. B -> Y]
    BY <2>4, LenProperties
  <2>6. \A x \in 1 .. B : h[b][x] = s[x]
    BY <2>2, <2>4
  <2>7. h[b] = s
    <3> HIDE DEF s
    <3> QED
      <4> DEFINE t == h[b]
      <4>1. t \in [1 .. B -> Y] /\ \A x \in 1 .. B : t[x] = s[x]
        BY <2>2, <2>6
      <4> HIDE DEF t
      <4>2. t = [x \in 1 .. B |-> t[x]] /\ s = [x \in 1 .. B |-> s[x]]
        BY <2>5, <4>1
      <4>3. [x \in 1 .. B |-> t[x]] = [x \in 1 .. B |-> s[x]]
        BY <4>1
      <4> QED
        BY <4>2, <4>3, Zenon DEF t
  <2> QED
    BY <2>1, <2>7 DEF q
<1>4. h = [b \in 1 .. k |-> h[b]]
  <2>1. h \in [1 .. k -> Block(Y)]
    BY LenProperties
  <2> QED
    BY <2>1
<1>5. Blocks(bytes) = [b \in 1 .. k |-> Cut(b)]
  <2> HIDE DEF Cut
  <2> QED
    BY <1>2, Zenon DEF Blocks, Cut, B
<1> HIDE DEF Cut
<1> QED
  BY <1>3, <1>4, <1>5

Zeroed(block, used, last) ==
    [x \in 1 .. BlockSize |-> IF x > used /\ x <= last THEN Zero ELSE block[x]]

LEMMA ClearedFields ==
  ASSUME NEW h, NEW total, NEW used, NEW block, NEW last
  PROVE  Clear(Ctx(h, total, used, block), last) = Ctx(h, total, last, Zeroed(block, used, last))
<1> DEFINE ctx == Ctx(h, total, used, block)
           filled == Zeroed(block, used, last)
           begun == [ctx EXCEPT !.block = filled]
<1>1. begun = Ctx(h, total, used, filled)
  <2> HIDE DEF filled
  <2> QED
    BY DEF Ctx
<1>2. [begun EXCEPT !.used = last] = Ctx(h, total, last, filled)
  <2> HIDE DEF filled, begun
  <2> QED
    BY <1>1 DEF Ctx
<1>3. ctx.block = block /\ ctx.used = used
  BY DEF Ctx
<1> HIDE DEF ctx
<1>4. Clear(ctx, last) = [begun EXCEPT !.used = last]
  <2>1. Clear(ctx, last) = [ctx EXCEPT !.block = filled, !.used = last]
    BY <1>3 DEF Clear, Zeroed
  <2> HIDE DEF filled
  <2> QED
    BY <2>1
<1> QED
  BY <1>2, <1>4, Zenon DEF ctx

\* The blocks chain_sha256_final adds: one that ends the message, and before it, when the
\* length does not fit behind the mark, one that only has zeros there.
Room == BlockSize - LengthSize
Counted(total, block) ==
    [x \in 1 .. BlockSize |-> IF x > Room THEN LengthByte(total, x - Room) ELSE block[x]]
Ending(h, total, used, block) == Append(h, Counted(total, Zeroed(block, used, Room)))

LEMMA CountedIs ==
  ASSUME NEW total, NEW block, NEW x \in 1 .. BlockSize
  PROVE  Counted(total, block)[x] = IF x > Room THEN LengthByte(total, x - Room) ELSE block[x]
  BY DEF Counted

\* chain_sha256_final from the place where the length is written.
LEMMA EndingFields ==
  ASSUME NEW h, NEW total, NEW used, NEW block
  PROVE  LET cleared == Clear(Ctx(h, total, used, block), Room)
         IN  Transform([cleared EXCEPT !.block = [x \in 1 .. BlockSize |->
                          IF x > Room THEN LengthByte(total, x - Room) ELSE cleared.block[x]]]).h
               = Ending(h, total, used, block)
<1> DEFINE zeroed == Zeroed(block, used, Room)
           cleared == Ctx(h, total, Room, zeroed)
           last == Counted(total, zeroed)
<1>1. Clear(Ctx(h, total, used, block), Room) = cleared
  BY ClearedFields
<1>2. cleared.block = zeroed
  <2> HIDE DEF zeroed
  <2> QED
    BY DEF Ctx
<1>3. [cleared EXCEPT !.block = last] = Ctx(h, total, Room, last)
  <2> HIDE DEF last, zeroed
  <2> QED
    BY DEF Ctx
<1>4. Transform(Ctx(h, total, Room, last)) = Ctx(Append(h, last), total, 0, last)
  BY TransformFields
<1>5. Ctx(Append(h, last), total, 0, last).h = Append(h, last)
  <2> HIDE DEF last
  <2> QED
    BY DEF Ctx
<1>6. [cleared EXCEPT !.block = [x \in 1 .. BlockSize |->
                          IF x > Room THEN LengthByte(total, x - Room) ELSE cleared.block[x]]]
        = [cleared EXCEPT !.block = last]
  <2> HIDE DEF cleared, zeroed
  <2> QED
    BY <1>2 DEF Counted
<1> HIDE DEF cleared
<1> QED
  BY <1>1, <1>3, <1>4, <1>5, <1>6, Zenon DEF Ending

LEMMA FinalFields ==
  ASSUME NEW h, NEW total, NEW used, NEW block
  PROVE  Final(Ctx(h, total, used, block)) =
           IF used + 1 > Room
           THEN Ending(Append(h, Zeroed(With(block, used + 1, Mark), used + 1, BlockSize)), total, 0,
                       Zeroed(With(block, used + 1, Mark), used + 1, BlockSize))
           ELSE Ending(h, total, used + 1, With(block, used + 1, Mark))
<1> DEFINE ctx == Ctx(h, total, used, block)
           with == With(block, used + 1, Mark)
           zeroed == Zeroed(with, used + 1, BlockSize)
           marked == Ctx(h, total, used + 1, with)
           begun == IF marked.used > Room THEN Transform(Clear(marked, BlockSize)) ELSE marked
           EndOf(c) == LET cleared == Clear(c, Room)
                     IN  Transform([cleared EXCEPT !.block = [x \in 1 .. BlockSize |->
                           IF x > Room THEN LengthByte(total, x - Room) ELSE cleared.block[x]]]).h
<1>1. Filled(ctx, Mark) = marked
  BY FilledFields
<1>2. ctx.total = total /\ marked.used = used + 1
  BY CtxIs
<1>3. Transform(Clear(marked, BlockSize)) = Ctx(Append(h, zeroed), total, 0, zeroed)
  <2>1. Clear(marked, BlockSize) = Ctx(h, total, BlockSize, zeroed)
    BY ClearedFields
  <2>2. Transform(Ctx(h, total, BlockSize, zeroed)) = Ctx(Append(h, zeroed), total, 0, zeroed)
    BY TransformFields
  <2> QED
    BY <2>1, <2>2, Zenon
<1>4. /\ EndOf(Ctx(Append(h, zeroed), total, 0, zeroed)) = Ending(Append(h, zeroed), total, 0, zeroed)
      /\ EndOf(marked) = Ending(h, total, used + 1, with)
  <2> HIDE DEF zeroed, with
  <2> QED
    BY EndingFields, Zenon
<1>5. Final(ctx) = EndOf(begun)
  <2> HIDE DEF marked, ctx
  <2> QED
    BY <1>1, <1>2, Zenon DEF Final, Filled, Room
<1>6. CASE used + 1 > Room
  <2>1. begun = Ctx(Append(h, zeroed), total, 0, zeroed)
    BY <1>2, <1>3, <1>6, Zenon
  <2> HIDE DEF begun, ctx, EndOf, zeroed, with
  <2>2. Final(ctx) = Ending(Append(h, zeroed), total, 0, zeroed)
    BY <1>4, <1>5, <2>1, Zenon
  <2> QED
    BY <1>6, <2>2, Zenon DEF ctx, zeroed, with
<1>7. CASE ~(used + 1 > Room)
  <2>1. begun = marked
    BY <1>2, <1>7, Zenon
  <2> HIDE DEF begun, ctx, EndOf, with
  <2>2. Final(ctx) = Ending(h, total, used + 1, with)
    BY <1>4, <1>5, <2>1, Zenon
  <2> QED
    BY <1>7, <2>2, Zenon DEF ctx, with
<1> QED
  BY <1>6, <1>7

\* h has so many blocks, and they hold the first bytes of the sequence.
HoldsBytes(h, Y, n, bytes) ==
    /\ h \in Seq(Block(Y)) /\ Len(h) = n
    /\ \A b \in 1 .. n, x \in 1 .. BlockSize : h[b][x] = bytes[(b - 1) * BlockSize + x]

LEMMA HoldsMoreBytes ==
  ASSUME NEW Y, NEW h, NEW n \in Nat, NEW bytes, HoldsBytes(h, Y, n, bytes), NEW block \in Block(Y),
         \A x \in 1 .. BlockSize : block[x] = bytes[n * BlockSize + x]
  PROVE  HoldsBytes(Append(h, block), Y, n + 1, bytes)
<1>1. /\ h \in Seq(Block(Y)) /\ Len(h) = n
      /\ \A b \in 1 .. n, x \in 1 .. BlockSize : h[b][x] = bytes[(b - 1) * BlockSize + x]
  BY DEF HoldsBytes
<1> DEFINE hs == Append(h, block)
<1>2. /\ hs \in Seq(Block(Y)) /\ Len(hs) = n + 1 /\ hs[n + 1] = block
      /\ \A b \in 1 .. n : hs[b] = h[b]
  BY <1>1, AppendProperties
<1> HIDE DEF hs
<1>3. ASSUME NEW b \in 1 .. n + 1, NEW x \in 1 .. BlockSize
      PROVE  hs[b][x] = bytes[(b - 1) * BlockSize + x]
  <2>1. CASE b = n + 1
    <3>1. b - 1 = n
      BY <2>1
    <3> QED
      BY <1>2, <2>1, <3>1
  <2>2. CASE b # n + 1
    <3>1. b \in 1 .. n
      BY <2>2
    <3> QED
      BY <1>1, <1>2, <3>1
  <2> QED
    BY <2>1, <2>2
<1> QED
  BY <1>2, <1>3 DEF HoldsBytes, hs

\* The last one or two blocks are those of the padded message, and so all of them are.
LEMMA FinalHashes ==
  ASSUME NEW X, NEW message \in Seq(X), NEW ctx \in Ctxs(X),
         ctx.total = Len(message), Absorbed(ctx, message, Len(message))
  PROVE  Final(ctx) = Blocks(Padded(message))
<1> DEFINE B == BlockSize
           LS == LengthSize
           M == Len(message)
           P == Padded(message)
           Y == PaddedBytes(X, message)
           h == ctx.h
           u == ctx.used
           n == Len(h)
           q == n * B
           marked == With(ctx.block, u + 1, Mark)
<1>1. /\ B \in Nat /\ LS \in Nat /\ LS < B /\ M \in Nat /\ n \in Nat /\ q \in Nat
      /\ u \in 0 .. B - 1 /\ ctx.block \in [1 .. B -> X] /\ h \in Seq([1 .. B -> X])
  BY SizesAre, Times DEF Ctxs, Block
<1>2. /\ M = q + u
      /\ \A b \in 1 .. n, x \in 1 .. B : h[b][x] = message[(b - 1) * B + x]
      /\ \A x \in 1 .. u : ctx.block[x] = message[q + x]
  BY DEF Absorbed
<1>3. /\ X \subseteq Y /\ Mark \in Y /\ Zero \in Y /\ \A x \in 1 .. LS : LengthByte(M, x) \in Y
  BY Zenon DEF PaddedBytes
<1>4. Final(ctx) = IF u + 1 > Room
                   THEN Ending(Append(h, Zeroed(marked, u + 1, B)), M, 0, Zeroed(marked, u + 1, B))
                   ELSE Ending(h, M, u + 1, marked)
  <2> HIDE DEF u, h, M
  <2>1. Final(Ctx(h, M, u, ctx.block)) =
          IF u + 1 > Room
          THEN Ending(Append(h, Zeroed(marked, u + 1, B)), M, 0, Zeroed(marked, u + 1, B))
          ELSE Ending(h, M, u + 1, marked)
    BY FinalFields
  <2>2. Ctx(h, M, u, ctx.block) = ctx
    BY CtxParts, Zenon DEF h, M, u
  <2> QED
    BY <2>1, <2>2, Zenon
<1> DEFINE Is(j, k) == P[j] = IF j <= M THEN message[j] ELSE IF j = M + 1 THEN Mark
                              ELSE IF j <= k * B - LS THEN Zero ELSE LengthByte(M, j - (k * B - LS))
<1>5. ASSUME NEW k \in Nat, M + 1 + LS <= k * B, k * B < M + 1 + LS + B
      PROVE  P \in Seq(Y) /\ Len(P) = k * B /\ \A j \in 1 .. k * B : Is(j, k)
  BY <1>5, PaddedIs
<1>6. Room \in Nat /\ Room = B - LS /\ Room <= B /\ Room > 0
  BY <1>1 DEF Room
<1> HIDE DEF B, LS, M, P, Y, h, u, n, q, marked, Is
<1>7. marked \in [1 .. B -> Y] /\ marked[u + 1] = Mark /\ \A x \in 1 .. u : marked[x] = message[q + x]
  <2>1. ctx.block \in [1 .. B -> Y]
    BY <1>1, <1>3
  <2>2. u + 1 \in 1 .. B
    BY <1>1
  <2>3. \A x \in 1 .. u : x # u + 1 /\ x \in 1 .. B
    BY <1>1
  <2> QED
    BY <1>2, <1>3, <2>1, <2>2, <2>3 DEF marked, With
<1>8. ASSUME NEW k \in Nat, q <= k * B, \A j \in 1 .. k * B : Is(j, k) PROVE HoldsBytes(h, Y, n, P)
  <2>1. ASSUME NEW b \in 1 .. n, NEW x \in 1 .. B PROVE h[b][x] = P[(b - 1) * B + x]
    <3> DEFINE j == (b - 1) * B + x
    <3>1. b - 1 \in Nat /\ b - 1 < n
      BY <1>1
    <3>2. (b - 1) * B \in Nat /\ (b - 1) * B + B <= q
      BY <1>1, <3>1, Times, TimesOrder DEF q
    <3> HIDE DEF q
    <3>3. j \in 1 .. k * B /\ j <= M
      <4> DEFINE c == (b - 1) * B
                 K == k * B
      <4>1. c \in Nat /\ c + B <= q /\ K \in Nat /\ q <= K
        BY <1>1, <1>8, <3>2, Times
      <4> HIDE DEF c, K
      <4>2. c + x \in 1 .. K /\ c + x <= M
        BY <1>1, <1>2, <4>1
      <4> QED
        BY <4>2 DEF c, K
    <3>4. Is(j, k)
      BY <1>8, <3>3
    <3>5. P[j] = message[j]
      BY <3>3, <3>4, Zenon DEF Is
    <3> QED
      BY <1>2, <3>5
  <2>2. h \in Seq(Block(Y)) /\ Len(h) = n
    <3>1. [1 .. B -> X] \subseteq Block(Y)
      BY <1>3 DEF Block, B
    <3> QED
      BY <1>1, <3>1, SeqMonotonic DEF n
  <2> QED
    BY <2>1, <2>2 DEF HoldsBytes, B
\* The last block ends with the length, wherever it begins.
<1> DEFINE Ready(k, c, hs, used, block) ==
      /\ k \in Nat /\ c \in Nat /\ (k + 1) * B = c + B /\ c = k * B /\ HoldsBytes(hs, Y, k, P)
      /\ P \in Seq(Y) /\ Len(P) = (k + 1) * B /\ \A j \in 1 .. (k + 1) * B : Is(j, k + 1)
      /\ used \in Nat /\ used <= Room /\ M + 1 <= c + used
      /\ \A x \in 1 .. used : block[x] \in Y /\ block[x] = P[c + x]
<1>9. ASSUME NEW k, NEW c, NEW hs, NEW used, NEW block, Ready(k, c, hs, used, block)
      PROVE  Ending(hs, M, used, block) = Blocks(P)
  <2> DEFINE last == Counted(M, Zeroed(block, used, Room))
  <2>1. ASSUME NEW x \in 1 .. B PROVE last[x] \in Y /\ last[x] = P[c + x]
    <3>1. /\ x \in Nat /\ c + x \in 1 .. (k + 1) * B
          /\ (k + 1) * B - LS = c + Room
      BY <1>1, <1>6, <1>9
    <3>2. Is(c + x, k + 1)
      BY <1>9, <3>1
    <3>3. last[x] = IF x > Room THEN LengthByte(M, x - Room)
                    ELSE IF x > used THEN Zero ELSE block[x]
      <4> DEFINE zeroed == Zeroed(block, used, Room)
      <4>1. last[x] = IF x > Room THEN LengthByte(M, x - Room) ELSE zeroed[x]
        BY CountedIs, Zenon DEF B
      <4>2. zeroed[x] = IF x > used /\ x <= Room THEN Zero ELSE block[x]
        BY DEF Zeroed, B
      <4>3. x > Room \/ x <= Room
        BY <1>6, <3>1
      <4> HIDE DEF zeroed, last
      <4>4. ~(x > Room) => zeroed[x] = IF x > used THEN Zero ELSE block[x]
        BY <4>2, <4>3, Zenon
      <4> QED
        BY <4>1, <4>4, Zenon
    <3> HIDE DEF last
    <3>4. CASE x > Room
      <4>1. last[x] = LengthByte(M, x - Room) /\ x - Room \in 1 .. LS
        BY <1>1, <1>6, <3>3, <3>4
      <4>2. /\ ~(c + x <= M) /\ c + x # M + 1 /\ ~(c + x <= c + Room)
            /\ (c + x) - (c + Room) = x - Room
        BY <1>1, <1>6, <1>9, <3>4
      <4>3. P[c + x] = LengthByte(M, (c + x) - (c + Room))
        BY <3>1, <3>2, <4>2, Zenon DEF Is
      <4> QED
        BY <1>3, <4>1, <4>2, <4>3, Zenon
    <3>5. CASE ~(x > Room) /\ x > used
      <4>1. ~(c + x <= M) /\ c + x # M + 1 /\ c + x <= c + Room
        BY <1>1, <1>6, <1>9, <3>5
      <4>2. P[c + x] = Zero
        BY <3>1, <3>2, <4>1, Zenon DEF Is
      <4> QED
        BY <1>3, <3>3, <3>5, <4>2, Zenon
    <3>6. CASE ~(x > Room) /\ ~(x > used)
      <4>1. x \in 1 .. used
        BY <1>9, <3>1, <3>6
      <4> QED
        BY <1>9, <3>3, <3>6, <4>1, Zenon
    <3> QED
      BY <3>4, <3>5, <3>6, Zenon
  <2>2. last \in Block(Y)
    <3>1. last = [x \in 1 .. B |-> last[x]]
      BY DEF Counted, B
    <3> HIDE DEF last
    <3> QED
      BY <2>1, <3>1 DEF Block, B
  <2> HIDE DEF last
  <2>3. HoldsBytes(Append(hs, last), Y, k + 1, P)
    BY <1>9, <2>1, <2>2, HoldsMoreBytes DEF B
  <2>4. Append(hs, last) = Blocks(P)
    <3> DEFINE all == Append(hs, last)
    <3> HIDE DEF all
    <3>1. /\ all \in Seq(Block(Y)) /\ Len(all) = k + 1 /\ k + 1 \in Nat
          /\ \A b \in 1 .. k + 1, x \in 1 .. BlockSize : all[b][x] = P[(b - 1) * BlockSize + x]
      <4>1. k + 1 \in Nat
        BY <1>9
      <4>2. HoldsBytes(all, Y, k + 1, P)
        BY <2>3 DEF all
      <4> QED
        BY <4>1, <4>2, Zenon DEF HoldsBytes
    <3>2. P \in Seq(Y) /\ Len(P) = (k + 1) * BlockSize
      BY <1>9 DEF B
    <3>3. all = Blocks(P)
      BY <3>1, <3>2, BlocksAre
    <3> QED
      BY <3>3 DEF all
  <2> QED
    BY <2>4 DEF Ending, last
<1> HIDE DEF Ready
<1>10. CASE ~(u + 1 > Room)
  <2> DEFINE k == n + 1
  <2>1. k \in Nat /\ k * B = q + B
    BY <1>1, Times DEF q
  <2>2. P \in Seq(Y) /\ Len(P) = k * B /\ \A j \in 1 .. k * B : Is(j, k)
    <3> HIDE DEF k
    <3>1. M + 1 + LS <= k * B /\ k * B < M + 1 + LS + B
      BY <1>1, <1>2, <1>6, <1>10, <2>1
    <3> QED
      BY <1>5, <2>1, <3>1
  <2>3. HoldsBytes(h, Y, n, P)
    <3> HIDE DEF k
    <3>1. q <= k * B
      BY <1>1, <2>1
    <3> QED
      BY <1>8, <2>1, <2>2, <3>1
  <2>4. ASSUME NEW x \in 1 .. u + 1 PROVE marked[x] \in Y /\ marked[x] = P[q + x]
    <3>1. x \in 1 .. B /\ q + x \in 1 .. k * B
      <4> HIDE DEF k
      <4> QED
        BY <1>1, <2>1
    <3>2. Is(q + x, k) /\ marked[x] \in Y
      BY <1>7, <2>2, <3>1
    <3>3. CASE x = u + 1
      <4>1. ~(q + x <= M) /\ q + x = M + 1
        BY <1>1, <1>2, <3>3
      <4>2. P[q + x] = Mark
        BY <3>2, <4>1, Zenon DEF Is
      <4> QED
        BY <1>7, <3>2, <3>3, <4>2, Zenon
    <3>4. CASE x # u + 1
      <4>1. x \in 1 .. u /\ q + x <= M
        BY <1>1, <1>2, <3>4
      <4>2. P[q + x] = message[q + x]
        BY <3>2, <4>1, Zenon DEF Is
      <4> QED
        BY <1>7, <3>2, <4>1, <4>2, Zenon
    <3> QED
      BY <3>3, <3>4
  <2>5. u + 1 \in Nat /\ u + 1 <= Room /\ M + 1 <= q + (u + 1)
    BY <1>1, <1>2, <1>6, <1>10
  <2>6. (n + 1) * B = q + B /\ q = n * B
    BY <2>1 DEF q
  <2>7. Ending(h, M, u + 1, marked) = Blocks(P)
    <3> DEFINE used == u + 1
    <3>1. \A x \in 1 .. used : marked[x] \in Y /\ marked[x] = P[q + x]
      BY <2>4
    <3>2. \A j \in 1 .. (n + 1) * B : Is(j, n + 1)
      BY <2>2
    <3>3. Len(P) = (n + 1) * B
      BY <2>2
    <3> HIDE DEF used, k
    <3>4. used \in Nat /\ used <= Room /\ M + 1 <= q + used
      BY <2>5 DEF used
    <3>5. Ending(h, M, used, marked) = Blocks(P)
      <4>1. n \in Nat /\ q \in Nat /\ P \in Seq(Y)
        BY <1>1, <2>2
      <4>2. Ready(n, q, h, used, marked)
        BY <2>3, <2>6, <3>1, <3>2, <3>3, <3>4, <4>1, Zenon DEF Ready
      <4> QED
        BY <1>9, <4>2, Zenon
    <3> QED
      BY <3>5 DEF used
  <2> QED
    BY <1>4, <1>10, <2>7, Zenon DEF P
<1>11. CASE u + 1 > Room
  <2> DEFINE k == n + 2
             c == (n + 1) * B
             first == Zeroed(marked, u + 1, B)
  <2>1. /\ c \in Nat /\ c = q + B /\ k * B = c + B /\ k = (n + 1) + 1 /\ k \in Nat /\ n + 1 \in Nat
    <3>1. n + 1 \in Nat /\ k = (n + 1) + 1
      BY <1>1
    <3> QED
      BY <1>1, <3>1, Times DEF q
  <2> HIDE DEF c, k
  <2>2. P \in Seq(Y) /\ Len(P) = k * B /\ \A j \in 1 .. k * B : Is(j, k)
    <3>1. M + 1 + LS <= k * B /\ k * B < M + 1 + LS + B
      BY <1>1, <1>2, <1>6, <1>11, <2>1
    <3> QED
      BY <1>5, <2>1, <3>1
  <2>3. HoldsBytes(h, Y, n, P)
    <3>1. q <= k * B
      BY <1>1, <2>1
    <3> QED
      BY <1>8, <2>1, <2>2, <3>1
  <2>4. ASSUME NEW x \in 1 .. B PROVE first[x] \in Y /\ first[x] = P[q + x]
    <3>1. q + x \in 1 .. k * B /\ q + x <= k * B - LS
      BY <1>1, <2>1
    <3>2. Is(q + x, k) /\ marked[x] \in Y
      BY <1>7, <2>2, <3>1
    <3>3. first[x] = IF x > u + 1 THEN Zero ELSE marked[x]
      BY <1>1 DEF Zeroed, B
    <3> HIDE DEF first
    <3>4. CASE x = u + 1
      <4>1. ~(q + x <= M) /\ q + x = M + 1 /\ ~(x > u + 1)
        BY <1>1, <1>2, <3>4
      <4>2. P[q + x] = Mark
        BY <3>2, <4>1, Zenon DEF Is
      <4> QED
        BY <1>7, <3>2, <3>3, <3>4, <4>1, <4>2, Zenon
    <3>5. CASE x > u + 1
      <4>1. ~(q + x <= M) /\ q + x # M + 1
        BY <1>1, <1>2, <3>5
      <4>2. P[q + x] = Zero
        BY <3>1, <3>2, <4>1, Zenon DEF Is
      <4> QED
        BY <1>3, <3>3, <3>5, <4>2, Zenon
    <3>6. CASE x \in 1 .. u
      <4>1. q + x <= M /\ ~(x > u + 1)
        BY <1>1, <1>2, <3>6
      <4>2. P[q + x] = message[q + x]
        BY <3>2, <4>1, Zenon DEF Is
      <4> QED
        BY <1>7, <3>2, <3>3, <3>6, <4>1, <4>2, Zenon
    <3> QED
      BY <1>1, <3>4, <3>5, <3>6
  <2>5. first \in Block(Y)
    <3>1. first = [x \in 1 .. B |-> first[x]]
      BY DEF Zeroed, B
    <3> HIDE DEF first
    <3> QED
      BY <2>4, <3>1 DEF Block, B
  <2> HIDE DEF first
  <2>6. HoldsBytes(Append(h, first), Y, n + 1, P)
    BY <1>1, <2>3, <2>4, <2>5, HoldsMoreBytes DEF q, B
  <2>7. \A x \in 1 .. 0 : first[x] \in Y /\ first[x] = P[c + x]
    OBVIOUS
  <2>8. M + 1 <= c + 0 /\ 0 <= Room /\ 0 \in Nat
    BY <1>1, <1>2, <1>6, <2>1
  <2>9. Ending(Append(h, first), M, 0, first) = Blocks(P)
    <3>1. Ready(n + 1, c, Append(h, first), 0, first)
      <4>1. c = (n + 1) * B /\ (n + 1 + 1) * B = c + B
        BY <2>1 DEF c
      <4> QED
        BY <2>1, <2>2, <2>6, <2>7, <2>8, <4>1, Zenon DEF Ready
    <3> QED
      BY <1>9, <3>1, Zenon
  <2> QED
    BY <1>4, <1>11, <2>9, Zenon DEF P, first
<1> QED
  BY <1>10, <1>11

\* However a message is cut into pieces, and whatever its length and the sizes of a block and
\* of the count, what is hashed are the blocks of the padded message (sha256.c
\* chain_sha256_init, _update, _final).
THEOREM PiecesDoNotMatter ==
  ASSUME NEW X, NEW message \in Seq(X), NEW pieces \in Seq(Seq(X)), NEW cuts,
         Cuts(message, pieces, cuts)
  PROVE  Digest(pieces) = Blocks(Padded(message))
<1> DEFINE Z == X \union {Zero}
           ctx == FoldLeft(Update, Sha256Init, pieces)
<1>1. message \in Seq(Z) /\ pieces \in Seq(Seq(Z)) /\ Zero \in Z
  <2>1. X \subseteq Z /\ Zero \in Z
    BY Zenon
  <2> HIDE DEF Z
  <2>2. message \in Seq(Z) /\ Seq(X) \subseteq Seq(Z)
    BY <2>1, SeqMonotonic
  <2>3. pieces \in Seq(Seq(Z))
    BY <2>2, SeqMonotonic
  <2> QED
    BY <2>1, <2>2, <2>3
<1> HIDE DEF Z
<1>2. /\ ctx \in Ctxs(Z) /\ ctx.total = Len(message)
      /\ Absorbed(ctx, message, Len(message))
  BY <1>1, AllAbsorbed, Zenon
<1> HIDE DEF ctx
<1>3. Final(ctx) = Blocks(Padded(message))
  BY <1>1, <1>2, FinalHashes
<1> QED
  BY <1>3, Zenon DEF Digest, ctx

\* What the run evaluates holds for messages, blocks and bit counts of every size: however a message
\* is cut in three, the blocks hashed are those of the padded message (chain_sha256_update, _final).
THEOREM AnyMessageHashed == HashesBlocks
<1> SUFFICES ASSUME NEW n \in 0 .. LongestMessage, NEW x \in 0 .. n, NEW j \in x .. n
             PROVE  LET message == [k \in 1 .. n |-> Byte(k)]
                        pieces == <<SubSeq(message, 1, x), SubSeq(message, x + 1, j),
                                    SubSeq(message, j + 1, n)>>
                    IN  Digest(pieces) = Blocks(Padded(message))
  BY Zenon DEF HashesBlocks
<1> DEFINE message == [k \in 1 .. n |-> Byte(k)]
           X == {Byte(k) : k \in 1 .. n}
           first == SubSeq(message, 1, x)
           second == SubSeq(message, x + 1, j)
           third == SubSeq(message, j + 1, n)
           pieces == <<first, second, third>>
           cuts == [p \in 0 .. 3 |-> IF p = 0 THEN 0 ELSE IF p = 1 THEN x ELSE IF p = 2 THEN j ELSE n]
<1>1. /\ n \in Nat /\ x \in Nat /\ j \in Nat /\ x <= j /\ j <= n
  BY ShaAssumption
<1>2. message \in Seq(X) /\ Len(message) = n
  <2>1. \A k \in 1 .. n : Byte(k) \in X
    BY Zenon
  <2> HIDE DEF X
  <2> QED
    BY <1>1, <2>1
<1> HIDE DEF message, X
<1>3. \A k \in 1 .. n : message[k] \in X
  BY <1>2, ElementOfSeq
<1>4. /\ first \in Seq(X) /\ Len(first) = x /\ \A k \in 1 .. x : first[k] = message[0 + k]
  <2>1. \A k \in 1 .. x : message[k] \in X
    BY <1>1, <1>3
  <2> QED
    BY <1>1, <2>1, SubSeqProperties
<1>5. /\ second \in Seq(X) /\ Len(second) = j - x /\ \A k \in 1 .. j - x : second[k] = message[x + k]
  <2>1. \A k \in x + 1 .. j : message[k] \in X
    BY <1>1, <1>3
  <2> QED
    BY <1>1, <2>1, SubSeqProperties
<1>6. /\ third \in Seq(X) /\ Len(third) = n - j /\ \A k \in 1 .. n - j : third[k] = message[j + k]
  <2>1. \A k \in j + 1 .. n : message[k] \in X
    BY <1>1, <1>3
  <2> QED
    BY <1>1, <2>1, SubSeqProperties
<1> HIDE DEF first, second, third
<1>7. /\ pieces \in Seq(Seq(X)) /\ Len(pieces) = 3
      /\ pieces[1] = first /\ pieces[2] = second /\ pieces[3] = third
  BY <1>4, <1>5, <1>6
<1>8. /\ cuts \in [0 .. 3 -> Nat] /\ cuts[0] = 0 /\ cuts[1] = x /\ cuts[2] = j /\ cuts[3] = n
  BY <1>1
<1> HIDE DEF pieces, cuts
<1>9. ASSUME NEW p \in 1 .. 3
      PROVE  /\ cuts[p] = cuts[p - 1] + Len(pieces[p])
             /\ \A k \in 1 .. Len(pieces[p]) : pieces[p][k] = message[cuts[p - 1] + k]
  <2>1. CASE p = 1
    BY <1>1, <1>4, <1>7, <1>8, <2>1
  <2>2. CASE p = 2
    BY <1>1, <1>5, <1>7, <1>8, <2>2
  <2>3. CASE p = 3
    BY <1>1, <1>6, <1>7, <1>8, <2>3
  <2> QED
    BY <2>1, <2>2, <2>3
<1>10. Cuts(message, pieces, cuts)
  BY <1>2, <1>7, <1>8, <1>9 DEF Cuts
<1>11. Digest(pieces) = Blocks(Padded(message))
  BY <1>2, <1>7, <1>10, PiecesDoNotMatter
<1> QED
  BY <1>11, Zenon DEF message, pieces, first, second, third

=============================================================================
