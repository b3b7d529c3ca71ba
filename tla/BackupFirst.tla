----------------------------- MODULE BackupFirst -----------------------------
(***************************************************************************)
(* What the installer promises: nothing on a board's media is overwritten  *)
(* before what was there has been saved.  store is the content of every    *)
(* sector, saved the pairs of a sector and a content that some finished    *)
(* backup holds.                                                           *)
(***************************************************************************)
CONSTANTS
    Places,         \* the sectors of all media of all boards
    Contents,       \* what a sector can hold
    Factory         \* what each sector held before the first installation

VARIABLES store, saved

vars == <<store, saved>>

Init ==
    /\ store = Factory
    /\ saved = {}

\* A backup of some sectors is finished: it holds what they hold now.
Save ==
    /\ saved \subseteq saved'
    /\ saved' \ saved \subseteq {<<p, store[p]>> : p \in Places}
    /\ UNCHANGED store

\* Any change, of sectors that some backup holds.
Change ==
    /\ store' \in [Places -> Contents]
    /\ \A p \in Places : store'[p] /= store[p] => \E c \in Contents : <<p, c>> \in saved
    /\ UNCHANGED saved

Next == Save \/ Change

Spec == Init /\ [][Next]_vars

\* Every sector still holds what it held before the first installation, or
\* some backup does.
Recoverable ==
    \A p \in Places : store[p] = Factory[p] \/ <<p, Factory[p]>> \in saved
=============================================================================
