---------------------------- MODULE MCObjectStorage ----------------------------
(* Instances of ObjectStorage for TLC. *)
EXTENDS ObjectStorage, TLC

(* Keys and requests are alike; the importer and the styles are not. *)
Alike == Permutations(Keys) \cup Permutations(Users)

=============================================================================
