----------------------------- MODULE MCBFTChain -----------------------------
(* Instances of BFTChain for TLC. *)
EXTENDS BFTChain

CONSTANTS v1, v2, v3

Validator(v, w) == [address |-> v, bftWeight |-> w]

Change(validators, precommit, certificate) ==
    [validators |-> validators, precommitThreshold |-> precommit,
     certificateThreshold |-> certificate]

\* One validator at a time: the window is three blocks and slides.
OneGenesis == Change(<<Validator(v1, 1)>>, 1, 1)
OneUpdates == {Change(<<Validator(v2, 1)>>, 1, 1), OneGenesis}

\* Two validators of different weight, one of them replaced or on standby.
TwoGenesis == Change(<<Validator(v1, 2), Validator(v2, 1)>>, 2, 2)
TwoUpdates == {Change(<<Validator(v2, 1), Validator(v3, 1)>>, 2, 1),
               Change(<<Validator(v1, 2), Validator(v2, 0)>>, 1, 1)}
=============================================================================
