-------------------------- MODULE MCExtendibleHash --------------------------
(* Model values and small sets for checking ExtendibleHash with TLC.       *)
EXTENDS ExtendibleHash

CONSTANTS t1, t2, v1, v2

MCThreads1 == {t1}
MCThreads2 == {t1, t2}
MCValues == {v1, v2}
MCValues1 == {v1}
=============================================================================
