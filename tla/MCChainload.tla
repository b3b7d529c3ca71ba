----------------------------- MODULE MCChainload -----------------------------
(***************************************************************************)
(* Small instances of Chainload.  The address space has 40 cells; the map  *)
(* follows the shipped one:                                                *)
(*                                                                         *)
(*    0..1   the stage (its FIT follows at 2)   12..17  BL33 window        *)
(*    3..9   BL31 DRAM range                    20..21  stack              *)
(*    8      BL31 parameters                    22..29  FIT staging        *)
(*                                              36..37  BL31 SRAM, uncached*)
(***************************************************************************)
EXTENDS Chainload, Sha256

Range2(start, end) == [start |-> start, end |-> end]

Shipped ==
    [loaderEnd |-> 2, stackStart |-> 20, stackEnd |-> 22,
     stageStart |-> 22, stageEnd |-> 30, params |-> 8,
     bl31Entry |-> 3, bl33Entry |-> 12, bl33Limit |-> 18, protocolOK |-> TRUE,
     ranges |-> {Range2(3, 10), Range2(36, 38)}, segments |-> 2]

\* Other reviewed ports: parameters outside the BL31 range, staging over the
\* appended FIT, staging inside the BL31 range, an open segment count, the
\* BL31 range flush with the BL33 window, and two that are refused at once.
OtherBoards ==
    {[Shipped EXCEPT !.params = 10],
     [Shipped EXCEPT !.stageStart = 5, !.stageEnd = 12, !.params = 30],
     [Shipped EXCEPT !.stageStart = 2, !.stageEnd = 9, !.bl31Entry = 9,
                     !.ranges = {Range2(9, 12), Range2(36, 38)}],
     [Shipped EXCEPT !.segments = 0, !.ranges = {Range2(3, 12), Range2(30, 35)}],
     [Shipped EXCEPT !.segments = 1],
     [Shipped EXCEPT !.stageEnd = 22],
     [Shipped EXCEPT !.stageEnd = 28],
     [Shipped EXCEPT !.protocolOK = FALSE]}

Node(off, size, type, os, load, entry) ==
    [external |-> FALSE, compressed |-> FALSE, off |-> off, size |-> size,
     good |-> 1, bad |-> 0, arch |-> "arm64", type |-> type, os |-> os,
     load |-> load, entry |-> entry, isDtb |-> TRUE]

Nodes(load1, entry1, load2, entry2) ==
    [atf1 |-> Node(1, 2, "firmware", "arm-trusted-firmware", load1, entry1),
     atf2 |-> Node(3, 1, "firmware", "arm-trusted-firmware", load2, entry2),
     uboot |-> Node(4, 2, "standalone", "u-boot", 12, NoProp),
     fdt |-> [Node(6, 1, "flat_dt", "none", NoProp, NoProp) EXCEPT !.arch = "none"]]

Tree(firmware, loadables, fdt, nodes) ==
    [valid |-> TRUE, structured |-> TRUE, size |-> 7, firmware |-> firmware,
     loadables |-> loadables, fdt |-> fdt, nodes |-> nodes]

Usual(nodes) == Tree("atf1", <<"uboot", "atf2">>, "fdt", nodes)

\* Every placement of the two BL31 segments, entry given or not.
Placements ==
    {Usual(Nodes(l1, e1, l2, e2)) :
        l1 \in {0, 3, 5, 7, 9, 11, 22, 31, 33, 36, 37, 39}, e1 \in {NoProp, 3},
        l2 \in {1, 3, 4, 5, 8, 9, 11, 12, 14, 33, 36, 37}, e2 \in {NoProp}}

Good == Nodes(3, 3, 36, NoProp)

\* One field of one image is wrong, or unusual.
Faulty(name) ==
    LET n == Good[name] IN
    {[n EXCEPT !.external = TRUE], [n EXCEPT !.compressed = TRUE],
     [n EXCEPT !.size = 0], [n EXCEPT !.good = 0], [n EXCEPT !.bad = 1],
     [n EXCEPT !.good = 2], [n EXCEPT !.arch = "other"], [n EXCEPT !.arch = "none"],
     [n EXCEPT !.type = "none"], [n EXCEPT !.type = "flat_dt"],
     [n EXCEPT !.os = "tee"], [n EXCEPT !.os = "none"], [n EXCEPT !.os = "u-boot"],
     [n EXCEPT !.load = BadProp], [n EXCEPT !.load = NoProp], [n EXCEPT !.load = 13],
     [n EXCEPT !.load = AddrMax], [n EXCEPT !.entry = BadProp],
     [n EXCEPT !.entry = AddrMax], [n EXCEPT !.entry = 5], [n EXCEPT !.entry = 12],
     [n EXCEPT !.isDtb = FALSE]}

Faults == UNION {{Usual([Good EXCEPT ![name] = n]) : n \in Faulty(name)} :
                 name \in DOMAIN Good}

\* The roles in other places, missing names, too many names.
Trees ==
    {Tree(w, l, d, Good) :
        w \in {"atf1", "uboot", "fdt", "gone"},
        l \in {<<>>, <<"uboot">>, <<"uboot", "atf2">>, <<"atf1", "atf2">>,
               <<"atf2", "atf1">>, <<"fdt", "atf2">>, <<"atf2", "fdt">>,
               <<"uboot", "uboot">>, <<"uboot", "atf2", "atf2">>},
        d \in {"fdt", "atf2", "uboot", "gone"}}

Headers == {[Usual(Good) EXCEPT !.valid = FALSE], [Usual(Good) EXCEPT !.structured = FALSE]}

MCFits == Placements \cup Faults \cup Trees \cup Headers

MCBoards == {Shipped} \cup OtherBoards

ASSUME \A b \in MCBoards : ReviewedLayout(b)
=============================================================================
