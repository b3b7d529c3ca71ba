---------------------------- MODULE MCBoardPolicy ----------------------------
(***************************************************************************)
(* The stage under every policy of a small set that the manifest validator *)
(* accepts: the shipped map with its second BL31 range moved about.        *)
(***************************************************************************)
EXTENDS BoardPolicy

Layout(start, end) ==
    [loaderEnd |-> 2, stackStart |-> 20, stackEnd |-> 22,
     stageStart |-> 22, stageEnd |-> 30, params |-> 8,
     bl31Entry |-> 3, bl33Entry |-> 12, bl33Limit |-> 18, protocolOK |-> TRUE,
     ranges |-> {[start |-> 3, end |-> 10], [start |-> start, end |-> end]},
     segments |-> 2]

MCManifests == {Layout(start, start + 2) : start \in 0 .. 36}

Node(off, size, type, os, load) ==
    [external |-> FALSE, compressed |-> FALSE, off |-> off, size |-> size,
     good |-> 1, bad |-> 0, arch |-> "arm64", type |-> type, os |-> os,
     load |-> load, entry |-> -1, isDtb |-> TRUE]

MCFits ==
    {[valid |-> TRUE, structured |-> TRUE, size |-> 7, firmware |-> "atf1",
      loadables |-> <<"uboot", "atf2">>, fdt |-> "fdt", nodes |->
        [atf1 |-> Node(1, 2, "firmware", "arm-trusted-firmware", 3),
         atf2 |-> Node(3, 1, "firmware", "arm-trusted-firmware", load),
         uboot |-> Node(4, 2, "standalone", "u-boot", 12),
         fdt |-> [Node(6, 1, "flat_dt", "none", -1) EXCEPT !.arch = "none"]]] :
     load \in 5 .. 37}

\* What Chainload is given: the layouts the validator lets through.
MCBoards == AcceptedBoards
=============================================================================
