-------------------------------- MODULE MCPMem -------------------------------
(* A region of six units with words of 24: the proportions of 2^30 to 2^32. *)
EXTENDS PMem

MCSymmetry == Permutations(Owners)

MCRequests ==
    {[size |-> 1, alignment |-> 1], [size |-> 2, alignment |-> 2],
     [size |-> 10, alignment |-> 2], [size |-> 11, alignment |-> 1]}
=============================================================================
