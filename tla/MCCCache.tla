------------------------------ MODULE MCCCache ------------------------------
EXTENDS CCache, Integers
\* Lines of two words: a store to a part of the line, and two to all of it.
MCWords == 1 .. 2
MCData == {<<0, 0>>, <<1, 0>>, <<1, 1>>}
MCStores == {<<1>>, <<0, 0>>, <<1, 1>>}
=============================================================================
