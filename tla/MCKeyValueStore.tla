--------------------------- MODULE MCKeyValueStore ---------------------------
(* TLC instance of KeyValueStore: a directory "a", an entry "a/x" of it and a *)
(* key "b" outside it.                                                        *)
EXTENDS KeyValueStore, TLC

CONSTANTS a, ax, b

MCUnder(k) == IF k = a THEN {ax} ELSE {}
MCSymmetry == Permutations(Callers) \cup Permutations(Deleters)
=============================================================================
