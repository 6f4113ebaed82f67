---------------------------- MODULE MCMFAProvider ----------------------------
(* Small instances of MFAProvider for TLC. *)
EXTENDS MFAProvider

CONSTANTS u1, u2, a2, k1, k2

(* The second user is called "auth_" and the name of the first. *)
AuthNames == [u \in Users |-> IF u = u1 THEN u2 ELSE a2]
=============================================================================
