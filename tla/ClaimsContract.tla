--------------------------- MODULE ClaimsContract ---------------------------
(* Claims implements RegisterContract: transactions of several statements that  *)
(* wait for, overtake and undo each other, seen through what they commit, enter   *)
(* and move claims at once.                                                       *)
EXTENDS Claims

Register == INSTANCE RegisterContract WITH
    Subjects <- Bloggers, Holders <- PRs, Marks <- Wechats, Unmarked <- "pending",
    registered <- known, claim <- claims, log <- logged

(* Whatever else commits between its statements, a batch enters its claims
   together and none twice, and a transfer moves one claim from who holds it at
   the commit. *)
ImplementsRegisterContract == Register!Spec

=============================================================================
