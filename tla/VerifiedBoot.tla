---------------------------- MODULE VerifiedBoot ----------------------------
(***************************************************************************)
(* What a boot stage promises, whatever it boots: first it only verifies;  *)
(* accepting fixes the set of items the next program needs; then it places *)
(* them; it enters that program only with every needed item in place, and  *)
(* until then it may always give up.  Entering and giving up are final.    *)
(***************************************************************************)
VARIABLES
    phase,   \* "verifying", "placing", "entered" or "rejected"
    needed,  \* the items the accepted configuration needs
    placed   \* those that are where the next program looks for them

vars == <<phase, needed, placed>>

Init == phase = "verifying" /\ needed = {} /\ placed = {}

\* Some items may be in place already, by accident.
Accept ==
    /\ phase = "verifying" /\ phase' = "placing"
    /\ placed' \subseteq needed'

\* Placing one item may disturb another one that is not finished yet.
Place ==
    /\ phase = "placing" /\ placed' \subseteq needed
    /\ UNCHANGED <<phase, needed>>

Enter ==
    /\ phase = "placing" /\ placed = needed
    /\ phase' = "entered"
    /\ UNCHANGED <<needed, placed>>

\* Giving up may leave an item half placed.
Reject ==
    /\ phase \in {"verifying", "placing"}
    /\ phase' = "rejected" /\ placed' \subseteq needed
    /\ UNCHANGED needed

Next == Accept \/ Place \/ Enter \/ Reject

Spec == Init /\ [][Next]_vars
=============================================================================
