----------------------------- MODULE MCQueryMgr -----------------------------
(***************************************************************************)
(* Small instances of QueryMgr.                                            *)
(***************************************************************************)
EXTENDS QueryMgr

CONSTANTS q1, q2, c1, c2
=============================================================================
