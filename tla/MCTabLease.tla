------------------------------ MODULE MCTabLease ------------------------------
(* Two tabs of one origin.                                                 *)
EXTENDS TabLease
=============================================================================
