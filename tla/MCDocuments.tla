---------------------------- MODULE MCDocuments ----------------------------
(* A clean document, one a browser may infect, and a new version of the    *)
(* first: the single documents meet copies of the scan and of the purge,   *)
(* the chain meets the clean-up, the purge and the legal hold.             *)
EXTENDS Documents, TLC
CONSTANTS d1, d2, d3, w1, w2, p1, p2

MCRoot == (d1 :> d1) @@ (d2 :> d1) @@ (d3 :> d3)

MCCases == {{d1, w1, w2, p1, p2}, {d3, w1, w2, p1}, {d1, d2, p1}}
=============================================================================
