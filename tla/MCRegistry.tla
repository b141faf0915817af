----------------------------- MODULE MCRegistry -----------------------------
(* Registry with 2 slots of 3 generations each, and a host that passes     *)
(* every i32 around the issued range as a handle.                          *)
EXTENDS Registry

MCHostValues == -1 .. IndexSpan * GenerationSpan
=============================================================================
