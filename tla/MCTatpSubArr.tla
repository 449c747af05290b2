----------------------------- MODULE MCTatpSubArr -----------------------------
EXTENDS TatpSubArr

\* spe_arr; one of the contents is an element, one is not.
MCElements == <<1, 2, 3, 4>>
=============================================================================
