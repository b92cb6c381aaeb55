--------------------------- MODULE MCPoliteFlush ---------------------------
EXTENDS PoliteFlush

\* Half of all objects, all, and none.
MCRates == {<<1, 2>>, <<1, 1>>, <<0, 1>>}

=============================================================================
