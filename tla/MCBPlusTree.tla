---------------------------- MODULE MCBPlusTree ----------------------------
(* BPlusTree with small values for TLC.                                    *)
EXTENDS BPlusTree

KeysTo8 == 1..8
=============================================================================
