---------------------------- MODULE MCSqlEngine ----------------------------
(* Instances of SqlEngine.                                                  *)
EXTENDS SqlEngine

OneOrTwoRows == {<<1>>, <<2>>, <<1, 2>>, <<>>}
PairAndSingle == {<<1, 2>>, <<3>>, <<>>}
AllRows == {PKs}
PointQueries == {{2}, {3}}
=============================================================================
