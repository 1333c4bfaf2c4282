--------------------------- MODULE MCNegotiation ---------------------------
(* Instances of Negotiation for TLC. *)
EXTENDS NegotiationContract, TLC

(* All runs check safety only: the managers and the requests are alike. *)
Alike == Permutations(Manager) \cup Permutations(Request)
=============================================================================
