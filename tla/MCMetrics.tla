----------------------------- MODULE MCMetrics -----------------------------
(* Three points that share tags and buckets.                  *)
EXTENDS Metrics, TLC

Pt(t, s, x) == [ts |-> t, tags |-> s, v |-> x]
SmallPoints == <<Pt(3, {"b", "a"}, 5), Pt(1, {"a"}, 4), Pt(2, {"a", "b"}, 3)>>
Time(o, x) == [op |-> o, v |-> x, w |-> 0, tag |-> ""]
Tag(t) == [op |-> "=", v |-> 0, w |-> 0, tag |-> t]
SmallQueries ==
    {<<Tag("a"), Tag("b")>>, <<Time(">=", 2), Tag("b"), Time("<=", 3), Tag("a")>>,
     <<[op |-> "between", v |-> 1, w |-> 3, tag |-> ""], Time("<", 3), Time(">", 0)>>}
SmallResolutions == {2}
PassSymmetry == Permutations(Passes)
=============================================================================
