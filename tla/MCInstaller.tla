----------------------------- MODULE MCInstaller -----------------------------
(***************************************************************************)
(* Small media: one sector before write_lba, images of one or two sectors. *)
(***************************************************************************)
EXTENDS Installer, TLC

Both(n) == [m \in Media |-> n]

\* Two boards whose media have different sizes, and two whose media have one.
DifferentSizes == [u \in Units |-> IF u = "rock3a" THEN Both(3) ELSE Both(4)]
SameSizes == [u \in Units |-> Both(3)]

\* The second build of an image is one sector longer.
Images ==
    [b \in Boards |-> [m \in Media |-> [n \in Builds |->
        [i \in 1..(n + 1) |-> <<b, m, ToString(n), i>>]]]]

FactoryContents == [p \in Places |-> p]
JunkBlock == <<"junk">>
AllContents ==
    Places \union {JunkBlock} \union
    UNION {{Images[b][m][n][i] : i \in DOMAIN Images[b][m][n]} :
              b \in Boards, m \in Media, n \in Builds}

NoGpt == [signature |-> FALSE, valid |-> FALSE, entries |-> {}]
NoMbr == [signature |-> FALSE, entries |-> {}]
Gpt(first, last) ==
    [signature |-> TRUE, valid |-> TRUE, entries |-> {[first |-> first, last |-> last]}]
Mbr(kind, first, count) ==
    [signature |-> TRUE, entries |-> {[kind |-> kind, first |-> first, count |-> count]}]

Blank == [gpt |-> NoGpt, mbr |-> NoMbr]
BlankTables == {Blank}
PartitionTables ==
    {[gpt |-> Gpt(2, 2), mbr |-> Mbr(238, 1, 2)],
     [gpt |-> NoGpt, mbr |-> Mbr(131, 2, 1)],
     [gpt |-> [Gpt(2, 2) EXCEPT !.valid = FALSE], mbr |-> Mbr(238, 1, 2)]}
=============================================================================
