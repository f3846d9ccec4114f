---------------------------- MODULE MCResultTabs ----------------------------
(* Two tabs and two connections; see ResultTabs. *)
EXTENDS ResultTabs
=============================================================================
