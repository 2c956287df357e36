------------------------ MODULE MCInteroperability ------------------------
EXTENDS Interoperability

\* KLY of the mainchain and a token of the first sidechain.
MCTokens == {<<"M", 0>>, <<"A", 1>>}
============================================================================
