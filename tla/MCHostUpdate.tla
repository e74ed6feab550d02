---------------------------- MODULE MCHostUpdate ----------------------------
(* Two versions, each linked for either slot; no two builds are the same. *)
EXTENDS HostUpdate

MCBuilds ==
  <<[x \in Slots |-> IF x = 0 THEN <<{1}, {1}>> ELSE <<{1}, {}>>],
    [x \in Slots |-> IF x = 0 THEN <<{1}, {}>> ELSE <<{1}, {1}>>]>>
=============================================================================
