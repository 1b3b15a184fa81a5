------------------------------- MODULE MCLogs -------------------------------
(* Records with shared and own tokens; the index has room for two terms.       *)
EXTENDS Logs

Rec(t, s) == [ts |-> t, toks |-> s]
SmallRecords == {Rec(1, <<"a">>), Rec(2, <<"a", "b">>), Rec(3, <<"c", "b">>), Rec(4, <<"a">>)}
Cond(o, x) == [op |-> o, v |-> x, w |-> 0]
SmallQueries ==
    {[toks |-> {}, where |-> <<[op |-> "between", v |-> 1, w |-> 3], Cond(">", 1), Cond("<", 4)>>],
     [toks |-> {"a"}, where |-> <<Cond("=", 2), Cond("<=", 3), Cond(">=", 1)>>],
     [toks |-> {"a", "b"}, where |-> <<>>]}
=============================================================================
