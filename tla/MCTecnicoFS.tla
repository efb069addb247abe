----------------------------- MODULE MCTecnicoFS -----------------------------
(* The instances of TecnicoFS that TLC checks.                             *)
EXTENDS TecnicoFS, TLC

CONSTANTS f1, f2, v1, v2   \* file names, byte values

TwoNames == {f1, f2}
AnyName == TwoNames \cup {NoName}
JustNoName == {NoName}
NoBytes  == {Garbage}
TwoBytes == {v1, v2}

AnyLength == {<<>>, <<Garbage>>, <<Garbage, Garbage>>}
Mixed == {<<v1>>, <<v2>>, <<v1, v2>>, <<v2, v1>>}

(* The two modes mbroker.c uses, and all the flags at once.                *)
FewModes == {{"CREAT"}, {"APPEND"}, {"CREAT", "TRUNC", "APPEND"}}

NamesAndBytes == Permutations(TwoNames) \cup Permutations(TwoBytes)
Names == Permutations(TwoNames)
=============================================================================
