---------------------------- MODULE MCBPlusTree -----------------------------
(* Instances of BPlusTree for TLC: small keys and page capacities, so that *)
(* a few operations split leaves, split internal pages and grow the tree  *)
(* to three levels, and a bound on the page ids allocated.                 *)
EXTENDS BPlusTree

MCKeys7 == 1..7
=============================================================================
