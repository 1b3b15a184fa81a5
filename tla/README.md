# Verification of plomvix

Plomvix is a single-process database server written in Go: a PostgreSQL wire
front end over three engines (SQL rows, metrics, logs), each on its own page
file. This directory holds TLA+ models of its parts, translated from the code
under `src/`, the TLC configurations that check them on small instances, and
theorems about them that TLAPS checks for every value of the constants.

## 1. The system

| part | source | state | operations | what is hard |
|---|---|---|---|---|
| pager | `internal/storage/pager` | page file with two mirrored headers and an on-disk free list, redo log, in-memory copy of the header, transaction buffer | Open, Close, AllocatePage, FreePage, ReadPage, WritePage, BeginTx, CommitTx, RollbackTx | crash between any two I/O steps, I/O errors, unsynced truncate |
| KV store | `internal/engine/sql/kv` | B+tree in the pages of one pager, root pointer in a meta page, overflow chains | Open, Get, Set, Delete, Scan, Check, Compact | splits that span many pages, page leaks, crash in the middle |
| heap | `internal/engine/sql/heap` | append-only row versions and tombstones in a KV store | Insert, Update, Delete, Get, Scan, Vacuum | visibility, version order, vacuum against crash |
| transaction ids | `internal/engine/sql/tx` | two atomic counters | NextReadTx, NextWriteTx | races between the counters |
| vacuum manager | `internal/engine/sql/vacuum` | bounded queue, worker, pending counter | Start, Stop, ScheduleDeletion, Drain | shutdown against enqueue |
| SQL engine | `internal/engine/sql` | heap per table, adapters | Execute (select, DDL, DML) | several stores changed by one statement |
| catalog | `internal/catalog` | system heaps, cache, pending markers | CreateTable, DropTable, users, roles, grants, Start, Stop | concurrent DDL, partial failure, restart |
| logs engine | `internal/engine/logs` | append buffer, pages, token index, block directory | AppendLog, ScanRange, retention sweep | index against flush, eviction, retention |
| metrics engine | `internal/engine/metrics` | append buffer, pages, tag index, rollup store | AppendPoint, ScanRange, downsample | index against flush, rollup re-scan |
| planner | `internal/engine/sql/planner` | plan cache keyed by statement and schema version, iterators | Lookup, Store, Plan | stale plans |
| router | `internal/router` | none | Route | check before use |
| server | `internal/server` | session state, prepared statements, portals, throttle | startup, query, parse/bind/execute | protocol order, limits |
| lifecycle, runtime | `internal/lifecycle`, `internal/runtime` | component list, state | Register, Start, Stop, Run, signals | partial start, rollback, shutdown order |

Who calls whom: the server's sessions parse SQL and hand it to the router, which
checks permissions in the catalog and dispatches to an engine. The SQL engine
plans, and reads and writes heaps; a heap is a KV store; a KV store is a pager.
The catalog keeps its own tables in heaps of the same kind. The logs and metrics
engines write pages of their own pagers. The runtime builds all of these and the
lifecycle manager starts them in order and stops them in reverse.

## 2. Modules

| module | models | kind |
|---|---|---|
| `Pager` | `internal/storage/pager`: every method, one step per `WriteAt`+`Sync` | component |
| `KVMap` | what a key-value store promises: an atomic map | abstract |
| `BTree` | `internal/engine/sql/kv`: Open, Get, Set, Delete, Scan, Check, Compact over an abstract transactional pager | component |
| `HeapView` | what a versioned table promises its readers | abstract |
| `Heap` | `internal/engine/sql/heap`: one table over an atomic map | component |
| `KeyEncoding`, `HeapKeys` | `sql/key/key.go`, `sql/key/row.go` and `sql/heap/encode.go` as operators, and the heap with them | algorithms |
| `SqlEngine` | statements of concurrent sessions over `Heap`: counters, insert lock, plan cache, restart | composition |
| `Catalog` | `internal/catalog`: every operation that writes, Start, Stop, the cache, and CREATE TABLE of the SQL engine around it | component |
| `Lifecycle` | `internal/lifecycle`: Start and Stop of the components | component |
| `VacuumManager` | `internal/engine/sql/vacuum`: queue, workers, Stop | component |
| `Server` | `internal/server`: listener, accept loop, throttle, sessions, Stop | component |
| `Runtime` | `internal/runtime`: the three above, with the contexts of Start and Stop | composition |
| `TokenIndex`, `Logs` | `internal/engine/logs`: the token index; appends, scans, sweep | component |
| `TagIndex`, `Rollup`, `Gorilla` | `internal/engine/metrics`: the tag index, the aggregation, the encoding of timestamps | algorithms |
| `Metrics` | `internal/engine/metrics`: appends, scans, downsampling | component |
| `PagerProofs`, `PagerLogProofs`, `PagerDurableProofs`, `HeapProofs`, `SqlReadProofs`, `SqlProofs`, `CatalogProofs`, `RuntimeProofs` | theorems (section 5) | proofs |
| `MC...` | instances for TLC | model checking |

The layers are stacked by what each promises the next: `Pager` shows that CommitTx
is atomic and durable, which `BTree` takes as one step; `BTree` shows that it is
the map of `KVMap`, which `Heap` takes as its store; `SqlEngine` extends `Heap`.
`Catalog` takes from `Heap` that a write below the newest version of a row is
refused. `Logs` and `Metrics` take WritePage and AllocatePage of the pager as one step each.
`SqlEngine` and `Runtime` extend the modules they compose; the other links are by
hand: `BTree` has its own small pager (page bodies, free list, page count, open
transaction) rather than an instance of `Pager`.

### Pager

Every exported method holds `p.mu` throughout, so only a crash or an I/O error can
fall between two of its I/O steps. A method is an action that starts it, with its
checks, and an action per write; `pc` names the next write and `op` holds the
locals. `primary`, `mirror` and `body` are the main file, `wal` the log up to
`walSize` and `tail` what the file holds beyond it. The in-memory header and free
set are `mem`, the open transaction is `tx`. `content` and `live` are history: what callers were
promised. `Redo` is replayWALInternal as a function of log and file.

A body is abstracted to its first word, which is what the free list reads back from
it. After a failed Open the object is dropped, as every caller in the repository
does. A failing `Close` of the file itself is not modelled. `Heal` (rewriting a bad
header in Open) is one step. `PowerLoss` lets a crash also undo writes that were not
synced; `RollbackFailedCommit` says what callers do after CommitTx failed. A power loss may
also leave a complete record with wrong bytes in the log (`Garbage`). Open refuses such a log
and reconstructs nothing, so `Recoverable` speaks of logs without one; `LogAccepted` (section 4)
shows that the case is reached.

### BTree

One call at a time (`s.mu`), in steps: allocation of each page (durable on its own),
the commit, and for Compact the writes outside the transaction, the root swap and
the frees. `op` is the call in progress with its entries, page plan and pages to
free. `Descend`, `Place`, `Climb`, `SplitWrites`, `CompactPlan`, `NewLeaf` and
`NewInternal` are the algorithms of the tree as operators. The fan-outs are
parameters: 7 and 56 in the code, 1 or 2 in the runs, where every split and a third
level happen with four to six keys. A value is a name with the number of overflow pages it needs.
A panic inside prepareOverflow is covered by `Crash`. Pages that a split allocates
and does not use leak, in the model as in the code. A Scan that meets a value it cannot read
returns an error and no rows (`ScanFailed`), and Compact, which begins with one, does nothing.
The order checks of encodeLeafNode and encodeInternalNode are left out: they refuse nodes
whose keys do not ascend, and `TreeSound` shows that no such node is ever written.

### Heap

`cells[pk][version]` is the store's entry. Every method holds the table lock, so
Insert, Update and Delete are one step; Vacuum is a step for each row it looks at
and for each entry it deletes, because each deletion is a transaction of the store
that a crash can follow or an error (which Vacuum drops) can replace. `horizon` is
the largest `olderThan` so far: Vacuum's caller promises that no reader is left at or
below it. Refused calls change nothing.

`HeapView` has no versions, only what each reader sees. The refinement mapping
shows the row as it will be when the deletions under way are done, since the table
lock keeps readers out until then. `Resurrect` of `HeapView` is the one thing it permits
that a table should not do: an interrupted Vacuum brings a deleted row back. `DeletesHold`
says that nothing else does, and `DeletesAreFinal` (section 4) that this happens.

`KeyEncoding` has the encoders and decoders as operators on sequences of bytes: sign
flip, terminated strings, composite row keys, prefixes and `PrefixEnd` with its carry, row values with
a bitmap of NULLs. Bytes have two bits and numbers two bytes in the run, so that
every carry, terminator and sign boundary is met. `HeapKeys` ties them to the states
of the heap: a version that is stored stands for the rows of four tables with many
primary keys.

### SqlEngine

A session runs one statement at a time. Writers take an id (`NextWriteTx`) before
they take the adapter's lock; rows go in one at a time; an error path releases the
lock. Readers run NextReadTx one atomic operation at a time, look up the plan cache,
scan, and hold their rows until they are closed. UPDATE, DELETE and INSERT ... SELECT collect their
rows with ReadTxID 0, where nothing is visible, so that they take an id and change no
row. `Scan` buffers the visible rows (`snap`) and the client gets those of `Delivered` (`out`), which
start behind the first visible one, since
`enterpriseRows.Next` advances before it returns; the properties are about what the client gets. After a restart no table adapter
is registered and statements on existing tables are refused. One table; DDL, type coercion and
expressions are not modelled.

### Catalog

`store` is the newest version of each row of the system tables and `meta` the stored
transaction counter; `cache`, with the pending maps and the next ids, is what a process
holds. Every operation runs as the code does: checks and reservation of ids under the
lock (`Reserve`), the meta row (`WriteMeta`), its rows one write at a time, and the update of the cache
under the lock again (`Cache...`). Any write can fail, and the process can end
between any two. Start holds no lock while it writes the meta row of a new database, reads the
counter and scans the tables: it is three steps (the scans are one), with operations on roles that outlived a
Stop in between. DropRole reads the grants of its role from the cache after its meta row is
written (`Cascade`); with the cache gone it panics there, which `Crash` covers. `acked` remembers the tables whose creation returned nil, and `halfDropped`
the ids of tables that a failing DropTable removed from disk and left in the cache. A Stop is refused while tables or users are pending. A scan does not return its
first row, so that Start does not load it. Lookups and CheckPermission only read.

This is the catalog that `New(h)` builds, as the tests do. The runtime builds it with
`NewWithStores` (`runtime.go:137`), without a heap: bootstrap returns at once, no handle is
set, the cache starts empty, and the first operation that writes dereferences a nil
`metaHandle` (`catalog_ops.go:121`). What the `catalog` run and `CatalogProofs` show is therefore
about the package and not about the program as it is wired today.

### Lifecycle, VacuumManager, Server, Runtime

`call[p]` is where a goroutine is in Manager.Start or Manager.Stop, with its own copy of
the component list; the lock is held between components only. The vacuum manager has a step per
lock section or channel operation, with workers that choose between the queue and
the stop channel and then drain. A request is `processed` when os.Remove was called for its
file; the error of the call is dropped (`vacuum.go:186`). ScheduleDeletion refuses the reserved ids 1 to 999.
The server has the listener, the goroutine that waits
for the context, the accept loop with its throttle, which counts a connection first and takes it
back in a second step when it is one too many (`Refuse`), sessions as a whole and Stop. In
`Runtime` the manager starts and stops one component of each kind; sessions drop tables,
which schedules deletions. Runtime.Start cancels the context it gave to the
components when it returns, as its deferred call does.

### Logs

`disk` is the pages, `body` the current page in memory. AppendLog flushes a full
page and allocates the next, puts the record into the page in memory, enters its terms
into the index one at a time and flushes, without a lock around the whole. `TokenIndex` has the lists, the eviction order and the estimate of
memory that the code keeps. Scans read page by page beside appends; an indexed one intersects lists
of locators. Nothing in the program enters a block into the block directory, so a sweep frees no page. A process
can end at any step; a page allocated but not yet flushed has no header. decodeLogPage reads
such a page from offset 8 all the same, in the middle of a record: `DecodeLogPage` is the set of
what may come out, nothing or records without a meaning. The runtime opens the pagers of the logs and metrics engines but never their
stores (`runtime.go:177-238`): `Logs` and `Metrics` are about the packages, which the wired program does
not reach yet.

### Metrics

The same for points, in four steps without a lock around them: count, put, index, flush; all tags of a
point are entered at once. The run has one writer; with two most of its properties fail
(section 4). Two goroutines (the
ticker and a forced pass) downsample: they read the source page by page, aggregate
(`Rollup`) and append the buckets under the manager's lock. `SearchAll` is the merge
of sorted lists as the code does it. `Gorilla` encodes and decodes timestamps by their
second differences, in classes of 7, 9, 12 and 32 bits, cut off to the bits of the class and
extended by its sign. The last class has `WideBits` bits, 16 in the run, where TLC's own integers
still hold its bounds. A float is always written in full: the
other branch needs a state that is never reached.

## 3. Runs

| run | configuration | shows |
|---|---|---|
| `pager_crash` | 4 pages, checkpoint at every commit, any caller, crash at any step, no I/O errors | a committed transaction survives as a whole and no other leaves a trace (`Recoverable`, `RollbackIsFinal`), one header always decodes, reads return the last promised body, the free list is sound, no page is handed out twice, a file is refused only for its free list |
| `pager_fault` | one I/O error at any step, power loss, up to 4 log records before a checkpoint, callers that use transactions only | `Recoverable`, for logs that Open accepts |
| `kv_grow` | 6 keys, fan-out 2, three levels and more, one crash | the reads agree with one another, the tree is well formed, and Check accepts it |
| `kv_map` | 3 keys, 2 values, one crash or commit error, one Compact | the durable tree implements `KVMap` |
| `kv_errors` | 2 keys, a value with an overflow page, allocation and commit errors, Compact | the reads agree and no page gets two owners |
| `kv_rewrite_large` | a large value and another key in one leaf | violates `Implements` |
| `heap_table` | 2 keys, 2 rows, 3 transaction ids used in any order, any Vacuum, crash or store error in it; encodings over 2-bit bytes | `Heap` implements `HeapView`; a deleted row comes back only by an Insert or by a Vacuum interrupted at that row; row keys sort and decode as rows do, a prefix and its end bound one row or one table, row values come back with their NULLs |
| `sql_sessions` | 2 sessions, 3 keys, batches of one and two rows, write ids up to 4, restart | but for the first row of its scan, a SELECT gets the rows of the INSERTs that had returned and sees INSERTs in id order; every statement returns |
| `catalog` | 2 callers, 12 calls on a database with two rows in each table, one failed read or write, one Stop or crash | the stored counter covers every stored version, no two operations write under one id, the pending maps match what is in flight, an acknowledged table stays stored under its id (but for the ids in `halfDropped`) |
| `runtime` | 2 goroutines, storage, vacuum manager with a queue of 1, server with 1 place, 2 clients, requests for a reserved id and two others, one failing Start | the running components are a prefix of the registration order; the vacuum manager drains; the throttle counts exactly; an accepted deletion is processed unless Stop gave up waiting for the workers; Stop returns once the clients have left |
| `logs` | 1 writer, 4 records with shared terms, 2 records to a page, room for 2 terms, one failed write, one end, one sweep | a full scan returns what was acknowledged before it and nothing twice, an indexed one, on pages with their header, only what it was asked for; the index covers what was not evicted |
| `metrics` | 3 points that share tags and a bucket, 1 writer, 2 passes or a SELECT beside it, one failed call, one end | a pass sees a prefix of the points with all that were acknowledged before it; stored buckets are exact; a scan over the tag lists finds every point that this process had acknowledged and the WHERE clause asks for; a timestamp comes back exactly when its second difference is neither 64 nor beyond the widest class; a full scan with an upper bound in its WHERE clause returns what was acknowledged |

**Bounds.** Four pages give two data pages: enough for a free list of two, a
transaction of two pages, and an owned page next to a free one. Two transactions
leave records of one in the log while another runs. Six keys with fan-out 2 fill a
leaf, split it, split the internal nodes up to a new root, and leave empty
leaves behind. Three versions in a row are the least for Vacuum to keep one, delete
one and leave one above its bound; with four ids the run also passes (2.8 million
states, 15 minutes). Write ids up to 4 allow three statements before the counter's
bound; `MaxRead` bounds when a SELECT may begin, not how far the counter goes. Two ids above the
database's own let two catalog operations overlap, and an end between them reserves an id again.
A queue of 1 is full after one request, one place is taken by one client. Four records
and two to a page fill a page, replace it and evict a term; three points, one to a page, make a
pass read pages that appends add meanwhile.

**Fairness.** `WF_sqlVars(Run(s))` of `SqlEngine` says
that a session whose statement can take a step takes one: goroutines are scheduled,
and a waiter for a mutex gets it in the end (Go's mutexes do not starve).
NextReadTx can be overtaken by writers; the bound on write ids makes them finite in
number, so that the run shows termination once writers pause, not lock-freedom.
Beginning a statement and `Restart` have no fairness. `Runtime` has weak fairness for
each goroutine that exists: a caller inside Start or Stop, the context watcher, the
accept loop, each session's end after the client left, and each worker until a Stop of the vacuum
manager gives up waiting: then `Run` returns, `main` exits and the workers with it. Clients, new calls,
failures and timeouts have none; `StopTerminates` assumes in its statement that clients
do not stay for ever, since Stop of the server waits for its sessions.

**Deadlock** is checked in the pager, tree, heap and SQL runs. The catalog, runtime, logs
and metrics runs switch it off: their processes end for good once the ends and faults they
are given are used up, and a runtime that has stopped stays stopped.

**Symmetry** is used for the callers of `catalog` and the passes of `metrics`, which check
invariants only.

**Mutants.** Definitions named after another with a comment `Mutant of` are plausible
slips in the code (a dropped guard, a missing unlock, an off-by-one); each
property of each passing run is violated by one of them.

## 4. Where the code and its documents differ

One is a run, `kv_rewrite_large`: a write to a leaf destroys the reference to a large
value in the same leaf, while `docs/markdown/sql_engine_kv.md:48` says "Values up to 16MB are
supported via TOAST overflow pages." Further configurations, each violated by the code as
it is (module `MC` of the same prefix, except `HeapVacuumCrash.cfg`, for `Heap`):

| configuration | property | what happens |
|---|---|---|
| `BTreeOpenCrash.cfg` | `MetaReadable` | a crash between allocating and writing the meta page |
| `BTreeCheckPadded.cfg` | `CheckAccepts` | Check rejects a chain whose last page is not full |
| `BTreeCompactLarge.cfg` | `Implements` | Compact rewrites a large value into a wrong one |
| `BTreeCompactWide.cfg` | `ReadsAgree` | Compact's separators are wrong once the tree has a third level |
| `BTreeLostValue.cfg` | `Implements` | Set loses a large value when an allocation fails |
| `BTreeFailedCommit.cfg` | `SetIsLocal` | a transaction left open by a failed commit joins the next Set |
| `HeapVacuumCrash.cfg` | `DeletesAreFinal` | Vacuum deletes the tombstone first; interrupted, the row is back |
| `SqlBatch.cfg` | `BatchAtomic` | rows of a failed or unfinished INSERT are visible; `dml_insert.go:22`: "InsertBatch atomically appends multiple rows under one write lock." |
| `SqlStalePlan.cfg` | `OwnPlan` | a SELECT is answered with another one's literals; `planner/cache.go:9`: "CacheKey uniquely identifies a cached plan." |
| `CatalogLostTable.cfg` | `AckLoaded` | the first row of a system table is not loaded on Start; `agent/catalog_setup.md:32`: "The Catalog loads system tables into memory on `Start()`" |
| `CatalogHalfDrop.cfg` | `AckStored` | a DropTable that fails after deleting its row leaves the table in the cache; dropped again, it deletes the row of the table that has the id by then |

The following are the configuration of a run with another property in place of its own
(an INVARIANT, but for `StopTimesOut` and `AlwaysProcessed`, each a PROPERTY) and, where the table says so, another
value of one constant:

| configuration | constant | property | what happens |
|---|---|---|---|
| `PagerCrash.cfg` | | `OpenSucceeds` | a crash in AllocatePage while it reuses a page makes the file unopenable; `agent/engine/sql_engine/storage_enterprise.md:4`: "It closes the crash-consistency gaps left in Basic" |
| `PagerCrash.cfg` | `FreeArgs = {1, 2}` | `MirrorReserved` | FreePage accepts page 1, the mirror header |
| `PagerCrash.cfg` | `MaxFaults = 1` | `FreeListReadable` | a failed header write leaves memory and chain different |
| `PagerCrash.cfg` | `MaxFaults = 1` | `RollbackIsFinal` | a transaction whose CommitTx failed after its marker is rolled back and returns |
| `PagerCrash.cfg` | `CheckpointThreshold = 3` | `Recoverable` | with a threshold above 0, replay overwrites a later direct write |
| `PagerCrash.cfg` | `PowerLoss = TRUE` | `Recoverable` | the unsynced truncate comes back after a power loss |
| `PagerFault.cfg` | | `LogAccepted` | a power loss leaves a complete record with wrong bytes, and Open refuses the log with all that was committed in it, as `agent/engine/sql_engine/storage_enterprise.md:117` asks: "MUST return ErrWALCorrupt and MUST NOT truncate the WAL" |
| `SqlEngine.cfg` | | `AllReturned` | a SELECT never returns the first row of its scan; `dml_insert_enterprise_test.go:199` is skipped for the "known heap scan bug", `heap_test.go:261` for the same reason |
| `HeapTable.cfg` | | `BytesPrefixBounds` | byte slices in a key have no terminator: the range of one row holds others, while `key/row.go:75` has "Used to scan all versions of a given PK" |
| `Runtime.cfg` | | `ListensAfterStart` | the listener is closed when Runtime.Start returns, by the deferred cancel of the context; `server.go:70`: "Start begins listening on the configured address." |
| `Runtime.cfg` | | `DrainedBeforeStorage` | a connection accepted before Stop is added to the WaitGroup after Wait returned, and served on stopped storage (`agent/wiring_main.md:12` has the order) |
| `Runtime.cfg` | | `AlwaysProcessed` | a Stop of the vacuum manager that gives up waiting leaves accepted requests behind: the process ends and the queue was only in memory |
| `Runtime.cfg` | | `StopTimesOut` | Stop waits for a client that stays, beyond its timeout |
| `Logs.cfg` | `Writers = {p1, p2}` | `ScanComplete` | two writers count the same records and overwrite each other; `agent/engine/logs/logs_engine_enterprise.md:13` and `store.go:60` have concurrent ingestion |
| `Logs.cfg` | | `AckedReadable` | a page that a crash left without its header is appended to and cannot be decoded |
| `Logs.cfg` | | `ReturnsAppended` | decodeLogPage reads such a page misaligned, and a scan can return records that nobody wrote |
| `Logs.cfg` | | `MemoryCapped` | the estimate falls below what the lists take; `index.go:20`: "It enforces a memory cap via LRU key eviction" |
| `Logs.cfg` | `Cutoffs = {5}` | `EmptyTakesTerms` | a sweep gives nothing of the estimate back: an emptied index refuses terms |
| `Logs.cfg` | | `WhereExact` | of two bounds in a WHERE clause the last one counts |
| `Metrics.cfg` | | `LocatedMatches` | after a failed flush a locator shows another point |
| `Metrics.cfg` | | `LocatedComplete` | after a restart the tag index is empty and a query by tag finds nothing |
| `Metrics.cfg` | | `NoRangeReturnsAll` | a full scan takes an absent end, 0, as a bound and leaves out every point after time 0; `metrics/engine.go:233`: "start=0, end=0 means no range filter applied" |
| `Metrics.cfg` | | `StoredOnce` | every pass appends all buckets again |
| `Metrics.cfg` | | `StoredWhole` | a page that cannot be read is passed over and its points are missing from the bucket |
| `Metrics.cfg` | | `RollupReadable` | a page of buckets without its header is appended to |
| `Metrics.cfg` | | `EdgesReadBack` | a second difference of 64 is written in 7 bits and read as -64, and one beyond 32 bits loses its upper bits; `agent/engine/metrics/metrics_engine_enterprise.md:138` asks that it "decodes error-free" |
| `Metrics.cfg` | `Writers = {p1, p2}` | `SearchExact`, `LocatedFinds`, `ScanComplete`, `PassSeesPrefix` | two AppendPoint calls count the same points, overwrite each other and enter the index in another order than the page, so that the merge of the lists, which takes them to be sorted, misses points; `metrics_engine_enterprise.md:13` has INSERT operations under a read lock, "allowing concurrent writes" |
| `Metrics.cfg` | a point of time -1 in `SmallPoints` | `BucketsExact` | the division of downsample rounds towards zero: a time before 1970 falls into the bucket after its own |

Two differences have no configuration. `agent/engine/sql_engine/table_heap_enterprise.md:168-180` has
Vacuum delete a row's old versions with the tombstone on top of them when there is a newer version
("v1 normal, v2 tombstone, v3 normal, Vacuum(2) -> deletes v1 and v2, keeps v3"); the code
keeps them, which costs space and no reader sees. `agent/ddl_enterprise.md:20` gives the ids up to 999 to
system tables, and ScheduleDeletion refuses them, but the catalog counts the ids of user
tables from 1 (`cache.go:63`): the files of the first 999 tables are never removed.

## 5. Theorems

`PagerProofs`, for every file size, value set, bound and pattern of faults:

- `TypeCorrect`: `Spec => [](TypeOK /\ ShapeOK)`. `ShapeOK` ties the locals to the step
  they are used in, without which the types are not inductive.
- `HeaderAlwaysRecoverable`: `Spec => []HeaderRecoverable`. `HeaderInv` strengthens it:
  page 0 is valid except while it is being rewritten, and then page 1 is valid.

`PagerLogProofs` and `PagerDurableProofs`, for every file size, value set, and any number of transactions and
crashes of the process. Every theorem has the hypothesis `DefaultPager`: a checkpoint at every
commit (`CheckpointThreshold = 0`, the default), no I/O errors, no power loss, and no caller
frees page 1. Section 4 shows what goes wrong without each part.

- `CommittedSurvives`: `[]Recoverable` (without a power loss the log has no corrupt complete
  record, so that it holds unconditionally). `ReadPageReturnsLatest`: `[]ReadsLatest`.
- `FreeListAlwaysSound`: `[]FreeListSound`. `PagesAllocatedOnce`: `[]AllocatedOnce`.
- `RolledBackStaysBack`: `[]RollbackIsFinal`. `OnlyFreeListRefused`: `[]RefusalIsFreeList`.

They follow from one inductive invariant, `DurableInv`, which TLC checked with the constants of
`pager_crash` before it was proved. The log has a committed transaction only from its
EOT marker to the next Truncate (`LogInv`), and `txnBuffer` is what the records of the open
transaction say (`TxInv`), so that the marker makes replay do what CommitTx is about to do
(`CommitRedo`). Replay does not depend on the pages it writes, so it can be repeated over
torn ones (`RedoAgain`). The walk of Open can only meet pages of a set that no caller owns and
the log does not write (`Guards`): the pages that the old header guards until writeHeader
replaces it, those that the new one guards after (`FreeInv`). A page of the
chain never points back to the head (`HeadUnique`), so popping and pushing it keeps it a list
(`Popped`, `Pushed`). `PagerLogProofs` has the invariant and its parts on the methods, the log and
the transaction, `PagerDurableProofs` the free list and the theorems.

`HeapProofs`, for every set of keys and rows and any number of transactions:

- `TypeCorrect`: `Spec => []TypeOK`.
- `Refinement`: `Spec => Implements`, that is `View!Spec`. The invariant it needs is `TypeOK` with
  `VacuumInv`: the versions still to be deleted are hidden by one that stays, or are all that is left of their
  row. A write changes what readers from its id on see (`WriteRow`); what
  Vacuum picks makes no difference (`DoomedUnseen`); an interrupted deletion is a
  stutter or `Resurrect` (`ExposeRow`).
- `DeletedRowsStay`: `Spec => DeletesHold`, step by step over the view of the refinement: a write of
  `HeapView` changes one row, and a row that every reader finds absent can only be inserted
  (`WriteHolds`).

`SqlReadProofs` and `SqlProofs`, for any sessions, keys, rows, batches and bounds:

- `ReadsCommitted`: `SqlSpec => []CommittedVisible`: what a client gets of the INSERTs that had
  returned is all but the first row of the scan.
- `ReadsPrefix`: `SqlSpec => []PrefixReads`, the same for INSERTs in the order of their ids.

Both follow from `SqlInv`, which TLC checked before. No key has more than one version and
none a tombstone, since UPDATE and DELETE find no rows (`TableInv`). The session that inserts
holds the lock and has an id above that of every INSERT that returned (`WriterInv`): ids are
drawn before the lock is taken, but `lastWriteTxID` is checked under it. The id of a reader
reaches every INSERT that had returned when it began, and once it has seen a row of an INSERT that
returned or holds the lock, no smaller INSERT can return that it has not seen (`ReaderInv`).
No two sessions hold one write id (`OwnIds`). `SqlReadProofs` has the types and the steps of
a reader, `SqlProofs` those of a writer.

`CatalogProofs`, for any callers, databases, failures and ends:

- `MetaFirst`: the stored counter covers every stored version (`VersionsCovered`), since every
  operation writes the meta row with its id before the first row under it.
- `TxSerialised`: no two operations write under one id (`TxSerial`), whatever Stop and Start do
  to the counter in memory: the version check of the meta row lets one of them through.
- `PendingMarkersExact`: the pending maps are exactly the operations in flight
  (`MarkersExact`). `MarkInv` adds what each kind of operation carries at each step, so
  that an operation sets and removes its own marker only, and that a process that is not
  started has no markers.
- `AckedTablesStay`: an acknowledged table stays stored under its id (`AckDurable`). `AckInv`:
  whoever holds an id (an acknowledgement, the cache, an operation past its first write) finds
  the row of its table there, unless the id is in `halfDropped` or a DropTable in flight has
  just deleted the row, and that DropTable has withdrawn the acknowledgement. An insert is
  refused where a row is stored, so ids given out twice do no harm; a delete needs the table
  in the cache, and by `MarkInv` no two operations are on one table.

TLC checked `MarkInv` and `AckInv` before they were proved.

`RuntimeProofs`:

- `StopOrder`: the running components are the first ones of the registration order
  (`PrefixRunning`), for any number of components and callers and any failing Start.
- `ThrottleCounts`: the throttle counts exactly the connections that hold a place
  (`ThrottleExact`), and one more only while the accept loop is refusing one, for any clients and any
  positive limit. With limit 0 TryAcquire does
  not count, but Release still counts down.
- `RuntimeVacuums`: `Spec => VacuumSpec`, the runtime, whoever calls Start and Stop and
  whatever sessions do, implements the vacuum manager as specified by itself.
- `RuntimeDrains`, from that and `Drains`: a Stop of the vacuum manager that returned nil has
  processed every accepted request (`StopDrains`), for any number of workers and any queue size.
- `RuntimeCountsOut`, from `CountedOut`: when `pendingCount` is zero every accepted request was
  processed (`DrainedAtZero`): it counts what is queued and what workers hold.

The theorems assume the `...Assumption` of the modules they are about, and of the constants
nothing else. TLC evaluates these assumptions in every run of the module. The one fact about
numbers that needs induction, that a non-empty set of naturals has a least element,
comes from the library's `WFMin`.

Only model-checked: `Pager` with I/O errors or a larger checkpoint threshold, all of `BTree`, `Logs`,
`Metrics` and the encodings. Out of the
prover's reach: `StatementsReturn`, `AcceptedProcessed` and `StopTerminates` (liveness), and
what the recursive functions of the tree, the encodings and the aggregation compute for
every input.

## 6. What could follow

1. An abstract `PageStore`, implemented by `Pager` and used by `BTree`, `Logs` and `Metrics`.
2. The extended protocol of a session (parse, bind, execute, sync) beside `Server`.

## 7. Not modelled

Parsing, message framing, configuration and logging are input and output. A session's
messages touch only the state of their own connection; `Server` has a session as a
whole. The router reads the catalog and calls one engine. The planner's iterators (sort,
limit, group, join) work on the rows of one statement with no shared state; expressions and type
coercion are functions of a row. The in-memory store is not what the SQL engine uses.
System tables are computed from the catalog on demand. In the parts that are modelled:
the engine's side of DDL other than CREATE TABLE, the branch of the float codec that is never
taken, the compression of blocks, which nothing calls, the block directory, which nothing fills,
Close of the metrics store (a process may end at any step), the catalog without a heap that the runtime
builds (section 2), what os.Remove does, and keys of one column, which only tests
encode.

## 8. Running

    tlc -workers 2 -config PagerCrash.cfg MCPager
    tlc -workers 2 -config HeapVacuumCrash.cfg Heap
    tlapm HeapProofs.tla

The longest run, `SqlEngine.cfg`, takes about three minutes; the longest proofs,
`CatalogProofs.tla` and `PagerLogProofs.tla`, about ten.
