---------------------------------- MODULE MCMesh ----------------------------------
(***********************************************************************************)
(* Two nodes that dial each other.                                                 *)
(***********************************************************************************)
EXTENDS Mesh

CONSTANTS a, b

MCNodes == {a, b}

MCLinks == {<<a, b>>, <<b, a>>}
===================================================================================
