------------------------------ MODULE MCHeap -------------------------------
(* Instances of Heap, and of the encodings of its rows: bytes of two bits,     *)
(* numbers of two bytes.                                                       *)
EXTENDS HeapKeys

SmallKeyValues ==
    [uint64 |-> {<<0>>, <<1>>, <<4>>, <<15>>}, int64 |-> {<<-8>>, <<-1>>, <<0>>, <<7>>},
     string |-> {<<>>, <<1>>, <<1, 1>>, <<1, 3>>, <<3>>}, bytes |-> {<<>>, <<0>>, <<1>>, <<1, 0>>}]
SmallKeyKinds ==
    {<<"uint64">>, <<"int64">>, <<"string", "int64">>, <<"uint64", "string">>, <<"string", "bytes">>}
SmallTableIDs == {0, 3, 4, 15}

\* All rows of the kinds, with NULLs.
NullableRows(kinds) ==
    LET Of(kind) == Typed(kind) \cup {Null}
    IN  {[kinds |-> kinds, xs |-> t] :
            t \in {u \in [1 .. Len(kinds) -> UNION {Of(kinds[i]) : i \in 1 .. Len(kinds)}] :
                      \A i \in 1 .. Len(kinds) : u[i] \in Of(kinds[i])}}
SmallRowsOf ==
    [a |-> NullableRows(<<"uint64", "string", "bytes">>),
     b |-> NullableRows(<<"string">>) \cup NullableRows(<<"bytes", "int64">>)]
=============================================================================
