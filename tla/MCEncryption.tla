----------------------------- MODULE MCEncryption -----------------------------
(* Small instances of EncryptionManager for TLC: threads are alike, and so *)
(* are the identifiers of keys.                                            *)
EXTENDS EncryptionManager, TLC

Alike == Permutations(Threads) \cup Permutations(Keys)
=============================================================================
