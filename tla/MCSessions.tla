----------------------------- MODULE MCSessions -----------------------------
(***************************************************************************)
(* Accounts and requests for Sessions.                                     *)
(***************************************************************************)
EXTENDS Sessions

CONSTANTS u1, a1, r1, r2

=============================================================================
