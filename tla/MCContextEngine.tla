-------------------------- MODULE MCContextEngine --------------------------
(***************************************************************************)
(* Instances of ContextEngine: a window at which the recent turns alone    *)
(* may fill the input budget, and one that leaves room beside them.        *)
(***************************************************************************)
EXTENDS ContextEngine
=============================================================================
