------------------------------ MODULE Catalog ------------------------------
(* The catalog: concurrent DDL and role operations over the system tables,    *)
(* the cache in front of them, Start, Stop and restarts.  A row of a system    *)
(* table is its newest version: readers use the largest transaction id, and a  *)
(* write below the newest version is refused (Heap).  This is the catalog that *)
(* New(h) builds.  The one of NewWithStores, which the runtime builds, has no  *)
(* handles: its bootstrap does nothing, its cache starts empty and its first   *)
(* write dereferences a nil metaHandle.                                        *)
EXTENDS Integers, FiniteSetsExt

CONSTANTS
    Callers,
    Calls,                  \* the calls a caller may make
    InitStore, InitMeta,    \* the database that the first process opens
    MaxTx, MaxId,           \* bounds on transaction ids and row ids
    MaxFaults, MaxEnds      \* how many writes fail; how often the catalog stops or dies

SysTables == {"tables", "users", "roles", "grants", "userRoles", "history", "audit"}
Creations == {"CreateTable", "RegisterTable"}
Ids == 1..MaxId
Gone == <<>>

\* Operations on tables return ErrEmptyName for an empty name.
ASSUME CatalogAssumption ==
    /\ InitMeta \in Nat /\ MaxId \in Nat
    /\ \A c \in Calls : c.kind \in Creations \cup {"DropTable"} => c.table # ""
    /\ DOMAIN InitStore = SysTables /\ \A t \in SysTables : DOMAIN InitStore[t] = Ids
    /\ \A t \in SysTables, i \in Ids : InitStore[t][i].tx \in 0..InitMeta

VARIABLES
    meta,           \* _plomvix_meta: the stored counter, 0 before the first bootstrap
    store,          \* the other system tables: id -> newest version
    nextTxID, started, cache, schemaVersion,
    starting,       \* how far a Start is: "no", "meta" and "rows" are what it does next
    heaps,          \* heapManager.heaps: the table ids that have a heap
    op,             \* the operation each caller is in
    acked,          \* history: the id under which a table was acknowledged, or 0
    halfDropped,    \* history: the ids that a DropTable removed before it returned an error
    faults, ends

disk == <<meta, store>>
memory == <<nextTxID, started, starting, cache, schemaVersion, heaps>>
history == <<acked, halfDropped, faults, ends>>
vars == <<disk, memory, op, history>>

TableNames == {c.table : c \in Calls} \ {""}
UserNames == {c.user : c \in Calls} \ {""}
RoleNames == {c.role : c \in Calls} \ {""}

NewCache ==
    [tables |-> [n \in TableNames |-> 0], users |-> [n \in UserNames |-> 0],
     roles |-> [n \in RoleNames |-> 0], legacy |-> {},
     grants |-> {}, grantsByKey |-> {}, userRoles |-> {}, assignments |-> {},
     pendingTables |-> {}, pendingUsers |-> {}, next |-> [t \in SysTables |-> 1]]

Idle == [pc |-> "idle", kind |-> "", table |-> "", user |-> "", tx |-> 0, id |-> 0,
         row |-> Gone, todo |-> {}]

Init ==
    /\ meta = InitMeta /\ store = InitStore
    /\ nextTxID = 0 /\ started = FALSE /\ starting = "no"
    /\ cache = NewCache /\ schemaVersion = 0 /\ heaps = {}
    /\ op = [p \in Callers |-> Idle]
    /\ acked = [n \in TableNames |-> 0] /\ halfDropped = {} /\ faults = 0 /\ ends = 0

At(p, pc) == op[p].pc = pc
Goto(p, pc) == op' = [op EXCEPT ![p].pc = pc]

---------------------------------------------------------------------------
(* Start and Stop.                                                            *)

\* enterpriseRows.Next never returns the first of the rows it holds.
Scanned(t) ==
    LET live == {i \in Ids : store[t][i].row # Gone}
    IN {i \in live : \E j \in live : j < i}

IdOf(t, name) == Max({0} \cup {i \in Scanned(t) : store[t][i].row[1] = name})

\* loadCache.
Loaded ==
    LET granted == {[id |-> i, row |-> store["grants"][i].row] : i \in Scanned("grants")}
        assigned == {[id |-> i, row |-> store["userRoles"][i].row] : i \in Scanned("userRoles")}
    IN [NewCache EXCEPT
          !.tables = [n \in TableNames |-> IdOf("tables", n)],
          !.users = [n \in UserNames |-> IdOf("users", n)],
          !.legacy = {n \in UserNames : \E i \in Scanned("users") : store["users"][i].row = <<n, "legacy">>},
          !.roles = [n \in RoleNames |-> IdOf("roles", n)],
          !.grants = granted,
          !.grantsByKey = {g \in granted : \A h \in granted : h.row = g.row => h.id <= g.id},
          !.userRoles = {a.row : a \in assigned},
          !.assignments = {a \in assigned : \A b \in assigned : b.row = a.row => b.id <= a.id},
          !.next = [t \in SysTables |-> Max({0} \cup Scanned(t)) + 1]]

\* Start holds no lock while it reads and writes the tables: operations on roles that
\* outlived a Stop go on in between.  bootstrap writes the meta row of a new database.
Start ==
    /\ starting = "no"
    /\ meta' = IF meta = 0 THEN 1 ELSE meta
    /\ starting' = "meta"
    /\ UNCHANGED <<store, nextTxID, started, cache, schemaVersion, heaps, op, history>>

LoadMeta ==
    /\ starting = "meta"
    /\ nextTxID' = meta /\ starting' = "rows"
    /\ UNCHANGED <<disk, started, cache, schemaVersion, heaps, op, history>>

\* The scans of loadCache are one step.
LoadCache ==
    /\ starting = "rows"
    /\ cache' = Loaded /\ started' = TRUE /\ starting' = "no"
    /\ UNCHANGED <<disk, nextTxID, schemaVersion, heaps, op, history>>

\* A read or write of the store fails.
StartFails ==
    /\ starting # "no"
    /\ faults < MaxFaults /\ faults' = faults + 1
    /\ starting' = "no"
    /\ UNCHANGED <<disk, nextTxID, started, cache, schemaVersion, heaps, op, acked, halfDropped, ends>>

Starting == ~started /\ (Start \/ LoadMeta \/ LoadCache \/ StartFails)

\* Mutant of Stop: the operations in flight are not counted.
StopAnyway ==
    /\ started
    /\ ends < MaxEnds /\ ends' = ends + 1
    /\ started' = FALSE /\ cache' = NewCache
    /\ UNCHANGED <<disk, nextTxID, starting, schemaVersion, heaps, op, acked, halfDropped, faults>>

\* ErrConflict while an operation on a table or a user is in flight.
Stop ==
    /\ started /\ cache.pendingTables = {} /\ cache.pendingUsers = {}
    /\ ends < MaxEnds /\ ends' = ends + 1
    /\ started' = FALSE /\ cache' = NewCache
    /\ UNCHANGED <<disk, nextTxID, starting, schemaVersion, heaps, op, acked, halfDropped, faults>>

\* The process dies.  An operation that finds c.cache = nil, because Stop does not
\* wait for operations on roles, panics: a crash as well.
Crash ==
    /\ ends < MaxEnds /\ ends' = ends + 1
    /\ nextTxID' = 0 /\ started' = FALSE /\ starting' = "no"
    /\ cache' = NewCache /\ schemaVersion' = 0 /\ heaps' = {}
    /\ op' = [p \in Callers |-> Idle]
    /\ UNCHANGED <<disk, acked, halfDropped, faults>>

---------------------------------------------------------------------------
(* The first, locked phase: checks, reserveTx and the pending marker.  A call  *)
(* that fails its checks returns an error and changes nothing.                 *)

Reserve(p, o) ==
    /\ started /\ nextTxID < MaxTx /\ nextTxID' = nextTxID + 1
    /\ op' = [op EXCEPT ![p] = [o EXCEPT !.pc = "meta", !.tx = nextTxID + 1]]
    /\ cache' = [cache EXCEPT !.pendingTables = @ \cup ({o.table} \ {""}),
                              !.pendingUsers = @ \cup ({o.user} \ {""})]
    /\ UNCHANGED <<disk, started, starting, schemaVersion, heaps, halfDropped, faults, ends>>

Called(c) == [Idle EXCEPT !.kind = c.kind]
Free(table) == cache.tables[table] = 0 /\ table \notin cache.pendingTables

CreateTable(p, c) ==
    /\ c.kind = "CreateTable" /\ At(p, "idle") /\ Free(c.table)
    /\ Reserve(p, [Called(c) EXCEPT !.table = c.table, !.row = <<c.table>>,
                                    !.id = cache.next["tables"]])
    /\ UNCHANGED acked

\* executeCreateTable: AllocateTableID, then CreateTableHeap, then RegisterTable.
AllocateTableID(p, c) ==
    /\ c.kind = "RegisterTable" /\ At(p, "idle") /\ started /\ cache.next["tables"] < MaxId
    /\ op' = [op EXCEPT ![p] = [Called(c) EXCEPT !.pc = "heap", !.row = <<c.table>>,
                                                  !.id = cache.next["tables"]]]
    /\ cache' = [cache EXCEPT !.next["tables"] = @ + 1]
    /\ UNCHANGED <<disk, nextTxID, started, starting, schemaVersion, heaps, history>>

CreateTableHeap(p) ==
    /\ At(p, "heap")
    /\ IF op[p].id \in heaps THEN op' = [op EXCEPT ![p] = Idle] /\ UNCHANGED heaps
       ELSE heaps' = heaps \cup {op[p].id} /\ Goto(p, "register")
    /\ UNCHANGED <<disk, nextTxID, started, starting, cache, schemaVersion, history>>

\* A refused RegisterTable removes the file of the heap, not the heap from the map.
RegisterTable(p) ==
    LET table == op[p].row[1]
    IN /\ At(p, "register")
       /\ IF started /\ Free(table) THEN Reserve(p, [op[p] EXCEPT !.table = table])
          ELSE op' = [op EXCEPT ![p] = Idle] /\ UNCHANGED <<disk, memory, halfDropped, faults, ends>>
       /\ UNCHANGED acked

DropTable(p, c) ==
    /\ c.kind = "DropTable" /\ At(p, "idle")
    /\ cache.tables[c.table] # 0 /\ c.table \notin cache.pendingTables
    /\ Reserve(p, [Called(c) EXCEPT !.table = c.table, !.row = <<c.table>>,
                                    !.id = cache.tables[c.table]])
    /\ acked' = [acked EXCEPT ![c.table] = 0]

CreateUser(p, c) ==
    /\ c.kind = "CreateUser" /\ At(p, "idle")
    /\ cache.users[c.user] = 0 /\ c.user \notin cache.pendingUsers
    /\ Reserve(p, [Called(c) EXCEPT !.user = c.user, !.row = <<c.user, "bcrypt">>])
    /\ UNCHANGED acked

\* Authenticate of a user whose hash is a legacy one; the login succeeds whatever
\* the migration that follows does.
Authenticate(p, c) ==
    /\ c.kind = "Migrate" /\ At(p, "idle") /\ c.user \in cache.legacy
    /\ op' = [op EXCEPT ![p] = [Called(c) EXCEPT !.pc = "migrate", !.id = cache.users[c.user],
                                                  !.row = <<c.user, "bcrypt">>]]
    /\ UNCHANGED <<disk, memory, history>>

MigrateLegacyPassword(p) ==
    LET user == op[p].row[1]
    IN /\ At(p, "migrate")
       /\ IF started /\ user \notin cache.pendingUsers THEN Reserve(p, [op[p] EXCEPT !.user = user])
          ELSE op' = [op EXCEPT ![p] = Idle] /\ UNCHANGED <<disk, memory, halfDropped, faults, ends>>
       /\ UNCHANGED acked

CreateRole(p, c) ==
    /\ c.kind = "CreateRole" /\ At(p, "idle") /\ cache.roles[c.role] = 0
    /\ Reserve(p, [Called(c) EXCEPT !.row = <<c.role>>])
    /\ UNCHANGED acked

DropRole(p, c) ==
    /\ c.kind = "DropRole" /\ At(p, "idle") /\ cache.roles[c.role] # 0
    /\ Reserve(p, [Called(c) EXCEPT !.row = <<c.role>>, !.id = cache.roles[c.role]])
    /\ UNCHANGED acked

AssignRole(p, c) ==
    LET pair == <<cache.users[c.user], cache.roles[c.role]>>
    IN /\ c.kind = "AssignRole" /\ At(p, "idle") /\ pair[1] # 0 /\ pair[2] # 0
       /\ \A a \in cache.assignments : a.row # pair
       /\ Reserve(p, [Called(c) EXCEPT !.row = pair])
       /\ UNCHANGED acked

RevokeRole(p, c) ==
    LET pair == <<cache.users[c.user], cache.roles[c.role]>>
    IN /\ c.kind = "RevokeRole" /\ At(p, "idle") /\ pair[1] # 0 /\ pair[2] # 0
       /\ \E a \in cache.assignments :
            a.row = pair /\ Reserve(p, [Called(c) EXCEPT !.row = pair, !.id = a.id])
       /\ UNCHANGED acked

\* A grant on no table is a grant on table id 0.
GrantKey(c) == <<cache.roles[c.role], IF c.table = "" THEN 0 ELSE cache.tables[c.table]>>
Resolves(c) == cache.roles[c.role] # 0 /\ (c.table # "" => cache.tables[c.table] # 0)

Grant(p, c) ==
    /\ c.kind = "Grant" /\ At(p, "idle") /\ Resolves(c)
    /\ \A g \in cache.grantsByKey : g.row # GrantKey(c)
    /\ Reserve(p, [Called(c) EXCEPT !.row = GrantKey(c)])
    /\ UNCHANGED acked

Revoke(p, c) ==
    /\ c.kind = "Revoke" /\ At(p, "idle") /\ Resolves(c)
    /\ \E g \in cache.grantsByKey :
         g.row = GrantKey(c) /\ Reserve(p, [Called(c) EXCEPT !.row = g.row, !.id = g.id])
    /\ UNCHANGED acked

---------------------------------------------------------------------------
(* The unlocked phase: the writes, meta first, all with the reserved id.       *)

TableOf(kind) ==
    CASE kind \in {"CreateTable", "RegisterTable", "DropTable"} -> "tables"
      [] kind \in {"CreateUser", "Migrate"} -> "users"
      [] kind \in {"CreateRole", "DropRole"} -> "roles"
      [] kind \in {"AssignRole", "RevokeRole"} -> "userRoles"
      [] kind \in {"Grant", "Revoke"} -> "grants"

Removes(kind) == kind \in {"DropTable", "DropRole", "RevokeRole", "Revoke"}
\* These read the next id of the cache, without the lock, when they insert.
TakesNextId(kind) == kind \in {"CreateUser", "CreateRole", "AssignRole", "Grant"}

Accepts(t, id, tx, wantsRow) ==
    store[t][id].tx < tx /\ (store[t][id].row # Gone) = wantsRow
Write(t, id, tx, row) == store' = [store EXCEPT ![t][id] = [tx |-> tx, row |-> row]]

\* The deferred removal of the marker: on every return after reserveTx.
Unmark(c, o) == [c EXCEPT !.pendingTables = @ \ {o.table}, !.pendingUsers = @ \ {o.user}]

\* A DropTable that fails after its first write leaves the table in the cache.
HalfDone(o) == IF o.kind = "DropTable" /\ o.pc \in {"history", "audit"} THEN {o.id} ELSE {}

Fail(p) ==
    /\ op' = [op EXCEPT ![p] = Idle] /\ cache' = Unmark(cache, op[p])
    /\ halfDropped' = halfDropped \cup HalfDone(op[p])
    /\ UNCHANGED <<disk, nextTxID, started, starting, schemaVersion, heaps, acked, faults, ends>>

\* DropRole deletes the grants and assignments of the role first.
AfterMeta(kind) == IF kind = "DropRole" THEN "cascade" ELSE "main"

\* Mutant of WriteMeta: the counter is overwritten, whatever its version.
WriteMetaBlind(p) ==
    /\ At(p, "meta")
    /\ meta' = op[p].tx
    /\ Goto(p, AfterMeta(op[p].kind))
    /\ UNCHANGED <<store, memory, history>>

\* metaHandle.Update refuses an id that is not above the stored one.
WriteMeta(p) ==
    /\ At(p, "meta")
    /\ IF op[p].tx > meta
       THEN /\ meta' = op[p].tx
            /\ Goto(p, AfterMeta(op[p].kind))
            /\ UNCHANGED <<store, memory, history>>
       ELSE Fail(p)

\* What the cache, read without the lock, has of the role.
Orphans(o) ==
    {<<"grants", g.id>> : g \in {x \in cache.grants : x.row[1] = o.id}}
    \cup {<<"userRoles", a.id>> : a \in {x \in cache.assignments : x.row[2] = o.id}}

Cascade(p) ==
    /\ At(p, "cascade") /\ started
    /\ op' = [op EXCEPT ![p].pc = "main", ![p].todo = Orphans(op[p])]
    /\ UNCHANGED <<disk, memory, history>>

\* Errors of the cascade are ignored.
DeleteOrphan(p) ==
    /\ At(p, "main")
    /\ \E w \in op[p].todo :
         /\ w[1] = "userRoles" => \A x \in op[p].todo : x[1] = "userRoles"
         /\ IF Accepts(w[1], w[2], op[p].tx, TRUE) THEN Write(w[1], w[2], op[p].tx, Gone)
            ELSE UNCHANGED store
         /\ op' = [op EXCEPT ![p].todo = @ \ {w}]
    /\ UNCHANGED <<meta, memory, history>>

AfterMain(kind) ==
    CASE TableOf(kind) = "tables" -> "history" [] kind = "Migrate" -> "apply" [] OTHER -> "audit"

\* Mutant of WriteMain: an error of the heap is ignored, as in the cascade.
WriteMainUnchecked(p) ==
    LET o == op[p]
        t == TableOf(o.kind)
        id == IF TakesNextId(o.kind) THEN cache.next[t] ELSE o.id
    IN /\ At(p, "main") /\ o.todo = {} /\ id \in Ids /\ (TakesNextId(o.kind) => started)
       /\ IF Accepts(t, id, o.tx, Removes(o.kind) \/ o.kind = "Migrate")
          THEN Write(t, id, o.tx, IF Removes(o.kind) THEN Gone ELSE o.row) ELSE UNCHANGED store
       /\ op' = [op EXCEPT ![p].pc = AfterMain(o.kind), ![p].id = id]
       /\ UNCHANGED <<meta, memory, history>>

WriteMain(p) ==
    LET o == op[p]
        t == TableOf(o.kind)
        id == IF TakesNextId(o.kind) THEN cache.next[t] ELSE o.id
    IN /\ At(p, "main") /\ o.todo = {} /\ id \in Ids /\ (TakesNextId(o.kind) => started)
       /\ IF Accepts(t, id, o.tx, Removes(o.kind) \/ o.kind = "Migrate")
          THEN /\ Write(t, id, o.tx, IF Removes(o.kind) THEN Gone ELSE o.row)
               /\ op' = [op EXCEPT ![p].pc = AfterMain(o.kind), ![p].id = id]
               /\ UNCHANGED <<meta, memory, history>>
          ELSE Fail(p)

WriteHistory(p) ==
    LET id == cache.next["history"]
    IN /\ At(p, "history") /\ id \in Ids
       /\ IF Accepts("history", id, op[p].tx, FALSE)
          THEN /\ Write("history", id, op[p].tx, <<op[p].id>>) /\ Goto(p, "audit")
               /\ UNCHANGED <<meta, memory, history>>
          ELSE Fail(p)

AuditLog(p) ==
    LET id == cache.next["audit"]
    IN /\ At(p, "audit") /\ started /\ id \in Ids
       /\ IF Accepts("audit", id, op[p].tx, FALSE)
          THEN /\ Write("audit", id, op[p].tx, <<op[p].kind>>) /\ Goto(p, "apply")
               /\ UNCHANGED <<meta, memory, history>>
          ELSE Fail(p)

\* A write fails for a reason of the store.
WriteFails(p) ==
    /\ op[p].pc \in {"meta", "main", "history", "audit"} /\ faults < MaxFaults
    /\ faults' = faults + 1
    /\ \/ /\ op[p].todo = {} /\ op' = [op EXCEPT ![p] = Idle] /\ cache' = Unmark(cache, op[p])
          /\ halfDropped' = halfDropped \cup HalfDone(op[p])
       \/ /\ \E w \in op[p].todo : op' = [op EXCEPT ![p].todo = @ \ {w}]
          /\ UNCHANGED <<cache, halfDropped>>
    /\ UNCHANGED <<disk, nextTxID, started, starting, schemaVersion, heaps, acked, ends>>

---------------------------------------------------------------------------
(* The last, locked phase: the cache follows the store.                        *)

\* The ids that an operation used up.
Advanced(c, o) ==
    [c EXCEPT !.next["audit"] = IF o.kind = "Migrate" THEN @ ELSE @ + 1,
              !.next["history"] = IF TableOf(o.kind) = "tables" THEN @ + 1 ELSE @,
              !.next[TableOf(o.kind)] =
                 IF TakesNextId(o.kind) \/ o.kind = "CreateTable" THEN @ + 1 ELSE @]

Put(set, x) == {y \in set : y.row # x.row} \cup {x}
Row(o) == [id |-> o.id, row |-> o.row]

CacheTable(c, o) == [c EXCEPT !.tables[o.table] = o.id]
CacheDropTable(c, o) == [c EXCEPT !.tables[o.table] = 0]
CacheUser(c, o) == [c EXCEPT !.users[o.user] = o.id]
CacheMigrated(c, o) == [c EXCEPT !.legacy = @ \ {o.user}]
CacheRole(c, o) == [c EXCEPT !.roles[o.row[1]] = o.id]
CacheDropRole(c, o) ==
    [c EXCEPT !.roles[o.row[1]] = 0,
              !.grants = {g \in @ : g.row[1] # o.id}, !.grantsByKey = {g \in @ : g.row[1] # o.id},
              !.userRoles = {r \in @ : r[2] # o.id}, !.assignments = {a \in @ : a.row[2] # o.id}]
CacheAssign(c, o) == [c EXCEPT !.userRoles = @ \cup {o.row}, !.assignments = Put(@, Row(o))]
CacheUnassign(c, o) ==
    [c EXCEPT !.userRoles = @ \ {o.row}, !.assignments = {a \in @ : a.row # o.row}]
CacheGrant(c, o) == [c EXCEPT !.grants = @ \cup {Row(o)}, !.grantsByKey = Put(@, Row(o))]
CacheRevoke(c, o) ==
    [c EXCEPT !.grants = @ \ {Row(o)}, !.grantsByKey = {g \in @ : g.row # o.row}]

Applied(c, o) ==
    CASE o.kind \in Creations -> CacheTable(c, o)
      [] o.kind = "DropTable" -> CacheDropTable(c, o)
      [] o.kind = "CreateUser" -> CacheUser(c, o)
      [] o.kind = "Migrate" -> CacheMigrated(c, o)
      [] o.kind = "CreateRole" -> CacheRole(c, o)
      [] o.kind = "DropRole" -> CacheDropRole(c, o)
      [] o.kind = "AssignRole" -> CacheAssign(c, o)
      [] o.kind = "RevokeRole" -> CacheUnassign(c, o)
      [] o.kind = "Grant" -> CacheGrant(c, o)
      [] o.kind = "Revoke" -> CacheRevoke(c, o)

Apply(p) ==
    LET o == op[p]
        creates == o.kind \in Creations
    IN /\ At(p, "apply") /\ started
       /\ cache' = Unmark(Applied(Advanced(cache, o), o), o)
       /\ schemaVersion' = IF TableOf(o.kind) = "tables" THEN schemaVersion + 1 ELSE schemaVersion
       /\ acked' = IF creates THEN [acked EXCEPT ![o.table] = o.id] ELSE acked
       /\ op' = [op EXCEPT ![p] = Idle]
       /\ UNCHANGED <<disk, nextTxID, started, starting, heaps, halfDropped, faults, ends>>

---------------------------------------------------------------------------
Calling(p) ==
    \E c \in Calls :
      \/ CreateTable(p, c) \/ AllocateTableID(p, c) \/ DropTable(p, c)
      \/ CreateUser(p, c) \/ Authenticate(p, c) \/ CreateRole(p, c) \/ DropRole(p, c)
      \/ AssignRole(p, c) \/ RevokeRole(p, c) \/ Grant(p, c) \/ Revoke(p, c)

Working(p) ==
    \/ CreateTableHeap(p) \/ RegisterTable(p) \/ MigrateLegacyPassword(p)
    \/ WriteMeta(p) \/ Cascade(p) \/ DeleteOrphan(p) \/ WriteMain(p) \/ WriteHistory(p) \/ AuditLog(p)
    \/ Apply(p)

Next ==
    \/ Starting \/ Stop \/ Crash
    \/ \E p \in Callers : Calling(p) \/ Working(p) \/ WriteFails(p)

Spec == Init /\ [][Next]_vars

---------------------------------------------------------------------------
Writing(p) == op[p].pc \in {"cascade", "main", "history", "audit", "apply"}

\* No stored version is above the stored counter, so that the ids a restarted
\* catalog reserves are above every version it finds (meta first).
VersionsCovered == \A t \in SysTables, i \in Ids : store[t][i].tx <= meta

\* Two operations never write under the same id, although the ids reserved by
\* operations on roles are reserved again after a Stop and a Start.
TxSerial ==
    \A p, q \in Callers : p # q /\ Writing(p) /\ Writing(q) => op[p].tx # op[q].tx

InFlight(p) == op[p].pc = "meta" \/ Writing(p)

\* The pending maps hold exactly the tables and users with an operation in flight,
\* one operation each: calls on one name never overlap, and Stop can succeed again
\* after each error.
MarkersExact ==
    /\ cache.pendingTables = {op[p].table : p \in {q \in Callers : InFlight(q)}} \ {""}
    /\ cache.pendingUsers = {op[p].user : p \in {q \in Callers : InFlight(q)}} \ {""}
    /\ \A p, q \in Callers :
         p # q /\ InFlight(p) /\ InFlight(q) =>
           /\ op[p].table # op[q].table \/ op[p].table = ""
           /\ op[p].user # op[q].user \/ op[p].user = ""

\* A table whose creation returned without an error is stored under its id until
\* somebody drops it: no other operation takes the id, no crash loses the row.
AckStored ==
    \A n \in TableNames : acked[n] # 0 => store["tables"][acked[n]].row = <<n>>

\* The same, but for the ids that a failed DropTable removed: the table it was about
\* is still in the cache, and dropping it again removes the row of whichever table
\* has its id by then.
AckDurable ==
    \A n \in TableNames :
      acked[n] # 0 /\ acked[n] \notin halfDropped => store["tables"][acked[n]].row = <<n>>

\* A started catalog knows every table that was acknowledged: agent/catalog_setup.md:32
\* has "The Catalog loads system tables into memory on `Start()`".
AckLoaded ==
    \A n \in TableNames : started /\ acked[n] # 0 => cache.tables[n] = acked[n]
=============================================================================
