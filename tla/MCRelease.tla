------------------------------ MODULE MCRelease ------------------------------
(* The release workflow and a workstation over small build trees.          *)
EXTENDS Release
=============================================================================
