----------------------------- MODULE MCCliStats -----------------------------
EXTENDS CliStats

(* Zero, "the only valid action", a value beside the wrap, and one that the     *)
(* narrowing to COUNT_SIZE changes.                                              *)
PutNumbers == {0, COUNT_SIZE - 1, COUNT_SIZE + 2}
=============================================================================
