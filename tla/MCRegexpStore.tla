---------------------------- MODULE MCRegexpStore ----------------------------
(* An instance of RegexpStore for TLC: the goroutines and the patterns are  *)
(* model values, of which "good" and "other" compile and "bad" does not.    *)
EXTENDS RegexpStore

CONSTANTS g1, g2, good, other, bad

MCGoroutines == {g1, g2}
MCPatterns == {good, other, bad}
MCCompilable == {good, other}
=============================================================================
