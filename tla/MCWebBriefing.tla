--------------------------- MODULE MCWebBriefing ---------------------------
(***************************************************************************)
(* An instance of WebBriefing: URLs differ by name only.                   *)
(***************************************************************************)
EXTENDS WebBriefing, TLC

UrlSymmetry == Permutations(Urls)
=============================================================================
