------------------------------ MODULE MCSelection ------------------------------
(* Small instances of Selection for TLC.                                   *)
EXTENDS Selection, TLC

CONSTANTS k1, k2

NoTags == [n \in {} |-> 0]
Kind(nil, tags, used) == [nil |-> nil, tags |-> tags, used |-> used]
MCKinds ==
    {Kind(TRUE, NoTags, FALSE), Kind(FALSE, NoTags, FALSE), Kind(FALSE, k1 :> 1, TRUE)}
    \cup {Kind(FALSE, t, FALSE) : t \in {k1 :> 1, k1 :> 2, (k1 :> 2) @@ (k2 :> 1)}}

MCFilters ==
    {[key |-> k1, vals |-> v] : v \in {{1}, {2}, {1, 2}}} \cup {[key |-> k2, vals |-> {1}]}
MCAllocationId == <<2, 3, 1>>

=============================================================================
