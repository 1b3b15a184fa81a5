-------------------------------- MODULE Logs --------------------------------
(* The logs store: appends to the current page, the token index, full and      *)
(* indexed scans, the retention sweep, Open, Close and restarts.  A page holds   *)
(* PageCap records; WritePage and AllocatePage of the pager are atomic.  Nothing *)
(* in the program enters a block into the directory, so that a sweep frees no  *)
(* page and only sweeps the index.                                             *)
EXTENDS TokenIndex, FiniteSets

CONSTANTS
    Writers, Records,       \* records: [ts, toks], toks a sequence of distinct tokens
    PageCap, Queries,       \* queries: [toks, where], where a sequence of conditions [op, v, w] on time
    Cutoffs, MaxFaults, MaxEnds     \* bounds: sweep times, failed writes, ends of the process

ASSUME LogsAssumption ==
    /\ PageCap \in Nat \ {0}
    /\ \A r \in Records : r.ts \in Nat /\ IsInjective(r.toks)

VARIABLES
    disk,               \* the pages: is the header written, and the records
    opened, cur, body,  \* LogsStore: opened, currentPageID, currentBody
    idx,
    op,                 \* AppendLog, by writer
    scan,               \* one SELECT
    acked, unindexed, cutoff,   \* history: acknowledged records, terms that lost locators, last sweep
    faults, ends

vars == <<disk, opened, cur, body, idx, op, scan, acked, unindexed, cutoff, faults, ends>>
storeVars == <<disk, opened, cur, body>>
histVars == <<acked, unindexed, cutoff, faults, ends>>

Terms == UNION {ToSet(r.toks) : r \in Records}
Hole == [ts |-> 0, toks |-> <<>>]
ZeroPage == [header |-> FALSE, recs |-> <<>>]
NewPage == [header |-> TRUE, recs |-> <<>>]
Idle == [pc |-> "idle", rec |-> Hole, n |-> 0, loc |-> <<>>, todo |-> <<>>]
NoScan == [pc |-> "idle", q |-> [toks |-> {}, lo |-> 0, hi |-> 0], where |-> <<>>, pages |-> {},
           locs |-> {}, res |-> <<>>, must |-> {}]  \* history: where, must

Init ==
    /\ disk = <<>> /\ opened = "closed" /\ cur = 0 /\ body = ZeroPage
    /\ idx = EmptyIndex /\ op = [p \in Writers |-> Idle] /\ scan = NoScan
    /\ acked = {} /\ unindexed = {} /\ cutoff = 0 /\ faults = 0 /\ ends = 0

---------------------------------------------------------------------------
(* Open and Close.                                                            *)

\* A file without pages gets its first one; else the last page becomes the current one.
Open ==
    /\ opened = "closed"
    /\ IF disk = <<>>
       THEN disk' = <<ZeroPage>> /\ cur' = 1 /\ body' = NewPage /\ opened' = "flushing"
       ELSE cur' = Len(disk) /\ body' = disk[Len(disk)] /\ opened' = "open" /\ UNCHANGED disk
    /\ UNCHANGED <<idx, op, scan, histVars>>

OpenFlush ==
    /\ opened = "flushing" /\ opened' = "open" /\ disk' = [disk EXCEPT ![cur] = body]
    /\ UNCHANGED <<cur, body, idx, op, scan, histVars>>

\* A process opens its store once.
Close ==
    /\ opened = "open" /\ opened' = "shut" /\ disk' = [disk EXCEPT ![cur] = body]
    /\ UNCHANGED <<cur, body, idx, op, scan, histVars>>

\* The process ends, after Close or by a crash; the next one starts with an empty index.
Restart ==
    /\ ends < MaxEnds /\ ends' = ends + 1
    /\ opened' = "closed" /\ cur' = 0 /\ body' = ZeroPage
    /\ idx' = EmptyIndex /\ op' = [p \in Writers |-> Idle] /\ scan' = NoScan
    /\ unindexed' = Terms
    /\ UNCHANGED <<disk, acked, cutoff, faults>>

---------------------------------------------------------------------------
(* AppendLog.                                                                 *)

Used == UNION {ToSet(disk[i].recs) : i \in 1 .. Len(disk)} \cup ToSet(body.recs)
        \cup {op[p].rec : p \in Writers}

\* The header of the current page is read; a full page has to be replaced first.
AppendLog(p, r) ==
    /\ op[p].pc = "idle" /\ opened = "open" /\ r \notin Used
    /\ op' = [op EXCEPT ![p] = [Idle EXCEPT
                !.pc = IF Len(body.recs) + 1 > PageCap THEN "full" ELSE "put",
                !.rec = r, !.n = Len(body.recs)]]
    /\ UNCHANGED <<storeVars, idx, scan, histVars>>

FlushFull(p) ==
    /\ op[p].pc = "full" /\ opened = "open"
    /\ disk' = [disk EXCEPT ![cur] = body] /\ op' = [op EXCEPT ![p].pc = "allocate"]
    /\ UNCHANGED <<opened, cur, body, idx, scan, histVars>>

\* The new page gets its header in memory; on disk it is zero until the next flush.
AllocatePage(p) ==
    /\ op[p].pc = "allocate" /\ opened = "open"
    /\ disk' = Append(disk, ZeroPage) /\ cur' = Len(disk) + 1 /\ body' = NewPage
    /\ op' = [op EXCEPT ![p].pc = "put", ![p].n = 0]
    /\ UNCHANGED <<opened, idx, scan, histVars>>

\* The record goes behind the n records that were counted; the header then counts n + 1.
\* Where the page was replaced in between, zero bytes lie below it.
Put(p) ==
    /\ op[p].pc = "put"
    /\ LET o == op[p]
           below == [i \in 1 .. o.n |-> IF i <= Len(body.recs) THEN body.recs[i] ELSE Hole]
       IN  /\ body' = [body EXCEPT !.recs = Append(below, o.rec)]
           /\ op' = [op EXCEPT ![p].pc = "index", ![p].todo = o.rec.toks,
                        ![p].loc = [page |-> cur, i |-> o.n + 1, ts |-> o.rec.ts]]
    /\ UNCHANGED <<disk, opened, cur, idx, scan, histVars>>

\* One token into the index.
IndexToken(p) ==
    LET t == Head(op[p].todo)
        new == Insert(idx, t, op[p].loc)
    IN  /\ op[p].pc = "index" /\ op[p].todo # <<>>
        /\ idx' = new /\ op' = [op EXCEPT ![p].todo = Tail(@)]
        /\ unindexed' = unindexed \cup {u \in DOMAIN idx.locs \cup {t} : u \notin DOMAIN new.locs}
        /\ UNCHANGED <<storeVars, scan, acked, cutoff, faults, ends>>

Flush(p) ==
    /\ op[p].pc = "index" /\ op[p].todo = <<>> /\ opened = "open"
    /\ disk' = [disk EXCEPT ![cur] = body] /\ op' = [op EXCEPT ![p] = Idle]
    /\ acked' = acked \cup {op[p].rec}
    /\ UNCHANGED <<opened, cur, body, idx, scan, unindexed, cutoff, faults, ends>>

\* A call of the pager fails, as it does once the store is closed: the append returns the
\* error and leaves body and index as they are.
PagerFails(p) ==
    /\ op[p].pc \in {"full", "allocate", "index"} /\ op[p].todo = <<>>
    /\ \/ opened # "open" /\ UNCHANGED faults
       \/ faults < MaxFaults /\ faults' = faults + 1
    /\ op' = [op EXCEPT ![p] = Idle]
    /\ UNCHANGED <<storeVars, idx, scan, acked, unindexed, cutoff, ends>>

---------------------------------------------------------------------------
(* The retention worker.                                                      *)

\* Mutant of Sweep: the cutoff itself is swept as well.
SweepMore(c) ==
    /\ c > cutoff /\ cutoff' = c
    /\ idx' = SweepIndex(idx, c + 1)
    /\ UNCHANGED <<storeVars, op, scan, acked, unindexed, faults, ends>>

Sweep(c) ==
    /\ c > cutoff /\ cutoff' = c
    /\ idx' = SweepIndex(idx, c)
    /\ UNCHANGED <<storeVars, op, scan, acked, unindexed, faults, ends>>

---------------------------------------------------------------------------
(* SELECT: over the index when the filter has tokens, else over all pages.     *)

\* Mutant of WalkLogsWhere: the bound of < is taken off twice.
WalkLogsWhereTwice(where) ==
    LET Bound(b, c) ==
            CASE c.op = ">=" -> [b EXCEPT !.lo = c.v]
              [] c.op = "<=" -> [b EXCEPT !.hi = c.v]
              [] c.op = ">" -> [b EXCEPT !.lo = c.v + 1]
              [] c.op = "<" -> [b EXCEPT !.hi = c.v - 2]
              [] c.op = "=" -> [lo |-> c.v, hi |-> c.v]
              [] c.op = "between" -> [lo |-> c.v, hi |-> c.w]
    IN  FoldLeft(Bound, [lo |-> 0, hi |-> 0], where)

\* A condition replaces the bounds of those before it; zero is no bound.  Left out: an
\* operator that is not supported is an error, and no Select; a comparison of another column
\* is ignored.
WalkLogsWhere(where) ==
    LET Bound(b, c) ==
            CASE c.op = ">=" -> [b EXCEPT !.lo = c.v]
              [] c.op = "<=" -> [b EXCEPT !.hi = c.v]
              [] c.op = ">" -> [b EXCEPT !.lo = c.v + 1]
              [] c.op = "<" -> [b EXCEPT !.hi = c.v - 1]
              [] c.op = "=" -> [lo |-> c.v, hi |-> c.v]
              [] c.op = "between" -> [lo |-> c.v, hi |-> c.w]
    IN  FoldLeft(Bound, [lo |-> 0, hi |-> 0], where)

Select(q) ==
    /\ scan.pc = "idle" /\ opened = "open"
    /\ LET locs == SearchAll(idx, q.toks)
           range == WalkLogsWhere(q.where)
       IN  scan' = [NoScan EXCEPT
               !.pc = "read", !.q = [toks |-> q.toks, lo |-> range.lo, hi |-> range.hi],
               !.where = q.where, !.locs = locs, !.must = acked,
               !.pages = IF q.toks = {} THEN 1 .. Len(disk) ELSE {loc.page : loc \in locs}]
    /\ UNCHANGED <<storeVars, idx, op, histVars>>

InRange(q, r) == (q.lo # 0 => r.ts >= q.lo) /\ (q.hi # 0 => r.ts <= q.hi)

\* The first record of a page without its header is written from offset zero and loses its
\* first bytes to the header: what is decoded behind offset 8 is nothing or records without a
\* meaning, as many as are counted at most.
DecodeLogPage(pg) ==
    IF pg.header THEN {pg.recs}
    ELSE {[i \in 1 .. k |-> [ts |-> t, toks |-> <<>>]] :
              k \in 0 .. Len(pg.recs), t \in {r.ts : r \in Records}}

\* Mutant of Found: the position of the locator is not looked at.
FoundAny(page, recs) == SelectSeq(recs, LAMBDA r : InRange(scan.q, r))

Found(page, recs) ==
    LET Hit(i) == scan.q.toks = {} \/ \E loc \in scan.locs : loc.page = page /\ loc.i = i
        at == SelectSeq([i \in 1 .. Len(recs) |-> i],
                        LAMBDA i : Hit(i) /\ InRange(scan.q, recs[i]))
    IN  [k \in 1 .. Len(at) |-> recs[at[k]]]

\* A full scan goes through the pages in order, an indexed one in the order of a map.
ReadPage(page) ==
    /\ scan.pc = "read" /\ page \in scan.pages /\ opened = "open"
    /\ scan.q.toks = {} => \A other \in scan.pages : page <= other
    /\ \E recs \in DecodeLogPage(disk[page]) :
           scan' = [scan EXCEPT !.pages = @ \ {page}, !.res = @ \o Found(page, recs)]
    /\ UNCHANGED <<storeVars, idx, op, histVars>>

Return ==
    /\ scan.pc = "read" /\ (scan.pages = {} \/ opened # "open") /\ scan' = NoScan
    /\ UNCHANGED <<storeVars, idx, op, histVars>>

---------------------------------------------------------------------------
Writing(p) ==
    \/ \E r \in Records : AppendLog(p, r)
    \/ FlushFull(p) \/ AllocatePage(p) \/ Put(p) \/ IndexToken(p) \/ Flush(p) \/ PagerFails(p)

Next ==
    \/ Open \/ OpenFlush \/ Close \/ Restart
    \/ \E p \in Writers : Writing(p)
    \/ \E c \in Cutoffs : Sweep(c)
    \/ \E q \in Queries : Select(q)
    \/ \E page \in 1 .. Len(disk) : ReadPage(page)
    \/ Return

Spec == Init /\ [][Next]_vars

---------------------------------------------------------------------------
Scanned == scan.pc = "read" /\ scan.pages = {}
Readable(r) == \E i \in 1 .. Len(disk) : r \in ToSet(disk[i].recs) /\ disk[i].header
Headless == \E i \in 1 .. Len(disk) : disk[i].recs # <<>> /\ ~disk[i].header

\* What the conditions of a WHERE clause mean.
Satisfies(r, where) ==
    \A i \in 1 .. Len(where) : LET c == where[i] IN
        CASE c.op = ">=" -> r.ts >= c.v [] c.op = "<=" -> r.ts <= c.v [] c.op = ">" -> r.ts > c.v
          [] c.op = "<" -> r.ts < c.v [] c.op = "=" -> r.ts = c.v
          [] c.op = "between" -> c.v <= r.ts /\ r.ts <= c.w

\* A full scan that runs beside appends, failed writes and restarts returns every record
\* that satisfies its WHERE clause and was acknowledged before it began, and none twice,
\* unless a page that a crash left without its header was appended to.
ScanComplete ==
    (Scanned /\ scan.q.toks = {} /\ ~Headless) =>
        /\ \A r \in scan.must : Satisfies(r, scan.where) => r \in ToSet(scan.res)
        /\ IsInjective(scan.res)

\* An indexed scan returns only records with all tokens asked for: no locator ever comes
\* to point at another record, also after a failed flush, unless a page that a crash left
\* without its header was appended to.
IndexSound ==
    (Scanned /\ scan.q.toks # {} /\ ~Headless) =>
        \A i \in 1 .. Len(scan.res) :
            scan.q.toks \subseteq ToSet(scan.res[i].toks) /\ InRange(scan.q, scan.res[i])

\* Every record that a scan returns was appended: the bytes of a page without its header are
\* returned as records nobody wrote.
ReturnsAppended == Scanned => ToSet(scan.res) \subseteq Records

\* An acknowledged record that is not older than the last sweep is found by each of its
\* terms, until the term was evicted or the process ended.
IndexCovers ==
    \A r \in acked : \A t \in ToSet(r.toks) \ unindexed :
        r.ts >= cutoff => \E loc \in ToSet(LocsOf(idx, t)) :
            /\ loc.i <= Len(disk[loc.page].recs) /\ disk[loc.page].recs[loc.i] = r

\* What AppendLog acknowledged is in a page that can be decoded.
AckedReadable == \A r \in acked : Readable(r)

\* "It enforces a memory cap via LRU key eviction" (index.go): the lists take no more than
\* the estimate, and the estimate no more than the cap.
MemoryCapped == SizeOf(idx) <= idx.mem /\ idx.mem < MaxMem

\* An index with no terms takes the next one.  Sweep gives nothing of the estimate back.
EmptyTakesTerms == idx.locs = <<>> => idx.mem + LocSize + KeySize < MaxMem

\* A scan returns only records that satisfy its WHERE clause.  Of two bounds the last one
\* counts, and a bound of zero is none.
WhereExact == \A i \in 1 .. Len(scan.res) : Satisfies(scan.res[i], scan.where)
=============================================================================
