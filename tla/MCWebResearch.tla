--------------------------- MODULE MCWebResearch ---------------------------
(***************************************************************************)
(* An instance of WebResearch.  It has a liveness property, so it is       *)
(* checked without symmetry.                                               *)
(***************************************************************************)
EXTENDS WebResearch
=============================================================================
