------------------------------- MODULE KVMap -------------------------------
(***************************************************************************)
(* What internal/engine/sql/kv promises: a map from keys to values.  A     *)
(* request is accepted, and then takes effect as a whole or is dropped (by *)
(* an error or a crash; a commit that failed is decided by the next Open). *)
(* A compaction has no effect on the map.                                  *)
(***************************************************************************)
CONSTANTS Keys, Values, Absent

VARIABLES map, req

NoRequest == [kind |-> "none"]
Request == [kind : {"set"}, key : Keys, val : Values] \cup [kind : {"delete"}, key : Keys]
           \cup [kind : {"compact"}]

Init == map = [k \in Keys |-> Absent] /\ req = NoRequest

\* A call of KVStore.Set, KVStore.Delete or KVStore.Compact is under way.
Accept == req = NoRequest /\ req' \in Request /\ UNCHANGED map

\* The request is durable; the caller sees nil.
Apply ==
    /\ req # NoRequest /\ req' = NoRequest
    /\ map' = CASE req.kind = "set" -> [map EXCEPT ![req.key] = req.val]
                [] req.kind = "delete" -> [map EXCEPT ![req.key] = Absent]
                [] OTHER -> map

\* The caller sees an error, or nothing.
Drop == req' = NoRequest /\ UNCHANGED map

\* KVStore.Delete, start to end.
Delete(k) == req = NoRequest /\ UNCHANGED req /\ map' = [map EXCEPT ![k] = Absent]

Next == Accept \/ Apply \/ Drop \/ \E k \in Keys : Delete(k)

Spec == Init /\ [][Next]_<<map, req>>
=============================================================================
