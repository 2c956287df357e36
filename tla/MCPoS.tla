------------------------------- MODULE MCPoS -------------------------------
EXTENDS PoS

MCInitValidators == <<1>>
MCStakes == {-1, 2}
============================================================================
