------------------------------ MODULE MCEsSearch ------------------------------
EXTENDS EsSearch
NoLimitOrTwo == {NoLimit, 0, 2, 3}
=============================================================================
