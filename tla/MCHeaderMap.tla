---------------------------- MODULE MCHeaderMap ----------------------------
(***************************************************************************)
(* Words of six bits: dumps of up to 63 bytes, tables of up to three       *)
(* headers or too many for a word, and sizes next to 0 and next to the     *)
(* width.                                                                  *)
(***************************************************************************)
EXTENDS HeaderMap

MCCounts == {0, 1, 2, 3, 7, 8, 63}
MCSizes == {0, 1, 2, 30, 59, 62, 63}
=============================================================================
