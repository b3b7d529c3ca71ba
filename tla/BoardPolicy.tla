----------------------------- MODULE BoardPolicy -----------------------------
(***************************************************************************)
(* The layout checks of tools/chainload-manifest.py: what `validate` asks  *)
(* of a board manifest before it generates the stage's policy.  The stage  *)
(* booted under any policy that passes is Chainload's.                     *)
(***************************************************************************)
EXTENDS Chainload

CONSTANTS
    StageLimit,   \* 0x40000, where the stage must end
    ParamsLimit,  \* 0x200000, below which the BL31 parameters lie
    Manifests     \* the layouts a board author may write down

NamedRegions(b) == {<<0, StageLimit>>, <<b.stageStart, b.stageEnd>>,
                    <<b.bl33Entry, b.bl33Limit>>}

ManifestAccepted(b) ==
    /\ b.stageStart < b.stageEnd /\ b.bl33Entry < b.bl33Limit
    /\ b.params < ParamsLimit /\ b.segments # 0 /\ b.protocolOK
    /\ b.ranges # {} /\ \A r \in b.ranges : r.start < r.end
    /\ \E r \in b.ranges : In(b.bl31Entry, r.start, r.end)
    /\ \A r, q \in b.ranges : r # q => ~Overlap(r.start, r.end, q.start, q.end)
    /\ \A x, y \in NamedRegions(b) : x # y => ~Overlap(x[1], x[2], y[1], y[2])
    /\ \A x \in NamedRegions(b) : ~In(b.params, x[1], x[2])

AcceptedBoards == {b \in Manifests : ManifestAccepted(b)}
=============================================================================
