----------------------------- MODULE MCAckQueue -----------------------------
(* The command channel of AckQueue with a handful of commands, for TLC. *)
EXTENDS AckQueue, TLC

MCSymmetry == Permutations(Commands)
=============================================================================
