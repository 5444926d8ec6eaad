----------------------------- MODULE MCPetLife -----------------------------
(* PetLife on a realm of two pets. *)
EXTENDS PetLife
=============================================================================
