----------------------------- MODULE MCGenerator -----------------------------
(* Two forks for the runs of Generator; their names do not matter. *)
EXTENDS Generator, TLC

CONSTANTS main, side

Forks == {main, side}
EitherFork == Permutations(Forks)
=============================================================================
