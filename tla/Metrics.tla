------------------------------ MODULE Metrics ------------------------------
(* The metrics store with its tag index, the rollup manager and SELECT.         *)
(* Writers append without a lock; passes of the rollup or a SELECT run beside    *)
(* them and read the pages through the pager (not both at a time: they share     *)
(* nothing they write).  WritePage and AllocatePage are atomic.  A page without  *)
(* its header, left by an end between AllocatePage and the first flush, is       *)
(* written from offset zero: its first point loses its time to the header.       *)
EXTENDS TagIndex, Rollup, Gorilla

CONSTANTS
    Writers,
    Points,             \* [ts, tags, v], in the order they are sent; a lost one is sent again
    PageCap, RollupCap, \* points and buckets of a page
    Queries,            \* WHERE clauses: sequences of conditions [op, v, w, tag]
    Passes, Resolutions,    \* goroutines that downsample; resolutions in seconds
    MaxBuckets,         \* bound: no pass begins with more buckets on the pages
    MaxFaults, MaxEnds  \* bounds: failed reads and writes, ends of the process

ASSUME MetricsAssumption ==
    /\ PageCap \in Nat \ {0} /\ RollupCap \in Nat \ {0} /\ Resolutions \subseteq Nat \ {0}

VARIABLES
    disk, opened, cur, body,    \* pages; MetricsStore
    idx, op,                    \* the tag index; AppendPoint
    pass,                       \* downsample, by goroutine
    rbody, rdisk, ropened,      \* RollupManager: current page, pages
    rlock,                      \* RollupManager.mu
    scan,                       \* one SELECT
    acked, indexed,             \* history: acknowledged points, and those indexed by this process
    faults, ends

vars == <<disk, opened, cur, body, idx, op, pass, rbody, rdisk, ropened, rlock, scan, acked, indexed, faults, ends>>
storeVars == <<disk, opened, cur, body>>
rollVars == <<pass, rbody, rdisk, ropened, rlock>>
endVars == <<faults, ends>>

ZeroPage == [header |-> FALSE, pts |-> <<>>]
NewPage == [header |-> TRUE, pts |-> <<>>]
Zero == [ts |-> 0, tags |-> {}, v |-> 0]
Garbled == 1000     \* the header, read as a time
Idle == [pc |-> "idle", pt |-> Zero, n |-> 0]
NoPass == [pc |-> "idle", secs |-> 1, next |-> 1, count |-> 0, seen |-> <<>>, buckets |-> <<>>,
           whole |-> TRUE, must |-> {}]     \* history: every page decoded; acknowledged at its start
NoScan == [pc |-> "idle", tags |-> <<>>, lo |-> 0, hi |-> 0, locs |-> <<>>, pages |-> {}, next |-> 1,
           count |-> 0, res |-> <<>>,
           where |-> <<>>, whole |-> TRUE, must |-> {}]     \* history: WHERE, and as of a pass

Init ==
    /\ disk = <<>> /\ opened = "closed" /\ cur = 0 /\ body = ZeroPage
    /\ idx = <<>> /\ op = [p \in Writers |-> Idle]
    /\ pass = [g \in Passes |-> NoPass] /\ rlock = {}
    /\ rbody = ZeroPage /\ rdisk = <<>> /\ ropened = "closed"
    /\ scan = NoScan /\ acked = {} /\ indexed = {} /\ faults = 0 /\ ends = 0

Fault == faults < MaxFaults /\ faults' = faults + 1

---------------------------------------------------------------------------
(* Open, and the end of a process.                                            *)

Open ==
    /\ opened = "closed"
    /\ IF disk = <<>>
       THEN disk' = <<ZeroPage>> /\ cur' = 1 /\ body' = NewPage /\ opened' = "flushing"
       ELSE cur' = Len(disk) /\ body' = disk[Len(disk)] /\ opened' = "open" /\ UNCHANGED disk
    /\ UNCHANGED <<idx, op, rollVars, scan, acked, indexed, endVars>>

OpenFlush ==
    /\ opened = "flushing" /\ opened' = "open" /\ disk' = [disk EXCEPT ![cur] = body]
    /\ UNCHANGED <<cur, body, idx, op, rollVars, scan, acked, indexed, endVars>>

RollupOpen ==
    /\ ropened = "closed" /\ opened = "open"
    /\ IF rdisk = <<>>
       THEN rdisk' = <<ZeroPage>> /\ rbody' = NewPage /\ ropened' = "flushing"
       ELSE rbody' = rdisk[Len(rdisk)] /\ ropened' = "open" /\ UNCHANGED rdisk
    /\ UNCHANGED <<storeVars, idx, op, pass, rlock, scan, acked, indexed, endVars>>

FlushRollup(pages, body0) == [pages EXCEPT ![Len(pages)] = body0]

RollupOpenFlush ==
    /\ ropened = "flushing" /\ ropened' = "open" /\ rdisk' = FlushRollup(rdisk, rbody)
    /\ UNCHANGED <<storeVars, idx, op, pass, rbody, rlock, scan, acked, indexed, endVars>>

\* The index and what was only in memory are gone.
Restart ==
    /\ ends < MaxEnds /\ ends' = ends + 1
    /\ opened' = "closed" /\ cur' = 0 /\ body' = ZeroPage
    /\ idx' = <<>> /\ op' = [p \in Writers |-> Idle]
    /\ pass' = [g \in Passes |-> NoPass] /\ rlock' = {}
    /\ rbody' = ZeroPage /\ ropened' = "closed"
    /\ scan' = NoScan /\ indexed' = {}
    /\ UNCHANGED <<disk, rdisk, acked, faults>>

---------------------------------------------------------------------------
(* AppendPoint.                                                               *)

AllPoints == FlattenSeq([i \in 1 .. Len(disk) |-> disk[i].pts])

Underway == UNION {{op[p].pt : p \in Writers}, ToSet(AllPoints), ToSet(body.pts)}

\* The header of the current page is read; a full page has to be replaced first.
AppendPoint(p) ==
    /\ op[p].pc = "idle" /\ opened = "open"
    /\ LET missing == SelectSeq(Points, LAMBDA pt : pt \notin Underway)
       IN  /\ missing # <<>>
           /\ op' = [op EXCEPT ![p] = [pc |-> IF Len(body.pts) + 1 > PageCap THEN "full" ELSE "put",
                                       pt |-> Head(missing), n |-> Len(body.pts)]]
    /\ UNCHANGED <<storeVars, idx, rollVars, scan, acked, indexed, endVars>>

FlushFull(p) ==
    /\ op[p].pc = "full" /\ disk' = [disk EXCEPT ![cur] = body]
    /\ op' = [op EXCEPT ![p].pc = "allocate"]
    /\ UNCHANGED <<opened, cur, body, idx, rollVars, scan, acked, indexed, endVars>>

AllocatePage(p) ==
    /\ op[p].pc = "allocate"
    /\ disk' = Append(disk, ZeroPage) /\ cur' = Len(disk) + 1 /\ body' = NewPage
    /\ op' = [op EXCEPT ![p].pc = "put", ![p].n = 0]
    /\ UNCHANGED <<opened, idx, rollVars, scan, acked, indexed, endVars>>

\* The point goes behind the n points that were counted; the header then counts n + 1.
Put(p) ==
    /\ op[p].pc = "put"
    /\ LET below == [i \in 1 .. op[p].n |-> IF i <= Len(body.pts) THEN body.pts[i] ELSE Zero]
       IN  body' = [body EXCEPT !.pts = Append(below, op[p].pt)]
    /\ op' = [op EXCEPT ![p].pc = "index"]
    /\ UNCHANGED <<disk, opened, cur, idx, rollVars, scan, acked, indexed, endVars>>

\* Its tags go into the index, with the page that is the current one by now.
Index(p) ==
    /\ op[p].pc = "index"
    /\ idx' = InsertTags(idx, op[p].pt.tags, [page |-> cur, i |-> op[p].n + 1, pt |-> op[p].pt])
    /\ indexed' = indexed \cup {op[p].pt} /\ op' = [op EXCEPT ![p].pc = "flush"]
    /\ UNCHANGED <<storeVars, rollVars, scan, acked, endVars>>

Flush(p) ==
    /\ op[p].pc = "flush" /\ disk' = [disk EXCEPT ![cur] = body] /\ op' = [op EXCEPT ![p] = Idle]
    /\ acked' = acked \cup {op[p].pt}
    /\ UNCHANGED <<opened, cur, body, idx, rollVars, scan, indexed, endVars>>

\* The append returns the error; page and index keep the point.
PagerFails(p) ==
    /\ op[p].pc \in {"full", "allocate", "flush"} /\ Fault /\ op' = [op EXCEPT ![p] = Idle]
    /\ UNCHANGED <<storeVars, idx, rollVars, scan, acked, indexed, ends>>

Appending(p) ==
    \/ AppendPoint(p) \/ FlushFull(p) \/ AllocatePage(p) \/ Put(p) \/ Index(p) \/ Flush(p)
    \/ PagerFails(p)

---------------------------------------------------------------------------
(* downsample: the pages there are, one by one, then the buckets under the lock. *)

Broken(pg) == ~pg.header /\ pg.pts # <<>>

\* Behind offset 8 a page without its header gives nothing, or points without a meaning where
\* the tags are short.
DecodePage(pg) ==
    IF ~Broken(pg) THEN {pg.pts}
    ELSE {[i \in 1 .. k |-> [ts |-> t, tags |-> {}, v |-> Garbled]] :
              k \in 0 .. Len(pg.pts), t \in {pt.ts : pt \in ToSet(Points)}}

Stored == FlattenSeq([i \in 1 .. Len(rdisk) |-> rdisk[i].pts])

Downsample(g, secs) ==
    /\ pass[g].pc = "idle" /\ ropened = "open" /\ Len(Stored) <= MaxBuckets /\ scan.pc = "idle"
    /\ pass' = [pass EXCEPT ![g] = [NoPass EXCEPT !.pc = "read", !.secs = secs,
                                       !.count = Len(disk), !.must = acked]]
    /\ UNCHANGED <<storeVars, idx, op, rbody, rdisk, ropened, rlock, scan, acked, indexed, endVars>>

\* Mutant of ReadSource: the number of pages is read again for every page.
ReadSourceGrown(g) ==
    /\ pass[g].pc = "read" /\ pass[g].next <= Len(disk)
    /\ \E pts \in DecodePage(disk[pass[g].next]) :
           pass' = [pass EXCEPT ![g].next = @ + 1, ![g].seen = @ \o pts, ![g].count = Len(disk),
                       ![g].buckets = AccumulateAll(@, pts, pass[g].secs),
                       ![g].whole = @ /\ ~Broken(disk[pass[g].next])]
    /\ UNCHANGED <<storeVars, idx, op, rbody, rdisk, ropened, rlock, scan, acked, indexed, endVars>>

ReadSource(g) ==
    /\ pass[g].pc = "read" /\ pass[g].next <= pass[g].count
    /\ \E pts \in DecodePage(disk[pass[g].next]) :
           pass' = [pass EXCEPT ![g].next = @ + 1, ![g].seen = @ \o pts,
                       ![g].buckets = AccumulateAll(@, pts, pass[g].secs),
                       ![g].whole = @ /\ ~Broken(disk[pass[g].next])]
    /\ UNCHANGED <<storeVars, idx, op, rbody, rdisk, ropened, rlock, scan, acked, indexed, endVars>>

\* A page that cannot be read is passed over.
SkipPage(g) ==
    /\ pass[g].pc = "read" /\ pass[g].next <= pass[g].count /\ Fault
    /\ pass' = [pass EXCEPT ![g].next = @ + 1, ![g].whole = FALSE]
    /\ UNCHANGED <<storeVars, idx, op, rbody, rdisk, ropened, rlock, scan, acked, indexed, ends>>

LockRollup(g) ==
    /\ pass[g].pc = "read" /\ pass[g].next > pass[g].count /\ rlock = {} /\ rlock' = {g}
    /\ pass' = [pass EXCEPT ![g] = [NoPass EXCEPT !.pc = "write", !.buckets = pass[g].buckets,
                                       !.secs = pass[g].secs, !.whole = pass[g].whole]]
    /\ UNCHANGED <<storeVars, idx, op, rbody, rdisk, ropened, scan, acked, indexed, endVars>>

\* History: the resolution, and whether the pass read every page.
Bucket(g, s) ==
    LET acc == pass[g].buckets[s]
    IN  [start |-> s, count |-> acc.count, sum |-> acc.sum, min |-> acc.min, max |-> acc.max,
         secs |-> pass[g].secs, whole |-> pass[g].whole]

RollupFull == Len(rbody.pts) + 1 > RollupCap

\* A full page is flushed and the next one allocated, in memory with its header.
RollupPage(g) ==
    /\ pass[g].pc = "write" /\ DOMAIN pass[g].buckets # {} /\ RollupFull
    /\ rdisk' = Append(FlushRollup(rdisk, rbody), ZeroPage) /\ rbody' = NewPage
    /\ UNCHANGED <<storeVars, idx, op, pass, ropened, rlock, scan, acked, indexed, endVars>>

\* One bucket, in the order of a map, on the page in memory and on disk.
AppendRollupBucket(g, s) ==
    LET new == [rbody EXCEPT !.pts = Append(@, Bucket(g, s))]
    IN  /\ pass[g].pc = "write" /\ ~RollupFull
        /\ rbody' = new /\ rdisk' = FlushRollup(rdisk, new)
        /\ pass' = [pass EXCEPT ![g].buckets = [b \in DOMAIN @ \ {s} |-> @[b]]]
        /\ UNCHANGED <<storeVars, idx, op, ropened, rlock, scan, acked, indexed, endVars>>

\* A failed call ends the pass.  A full page may have been flushed before the allocation
\* failed; on another page the bucket stays in memory.
RollupFails(g, s) ==
    /\ pass[g].pc = "write" /\ Fault /\ pass' = [pass EXCEPT ![g] = NoPass] /\ rlock' = {}
    /\ \/ RollupFull /\ rdisk' \in {rdisk, FlushRollup(rdisk, rbody)} /\ UNCHANGED rbody
       \/ ~RollupFull /\ rbody' = [rbody EXCEPT !.pts = Append(@, Bucket(g, s))] /\ UNCHANGED rdisk
    /\ UNCHANGED <<storeVars, idx, op, ropened, scan, acked, indexed, ends>>

PassDone(g) ==
    /\ pass[g].pc = "write" /\ DOMAIN pass[g].buckets = {}
    /\ pass' = [pass EXCEPT ![g] = NoPass] /\ rlock' = {}
    /\ UNCHANGED <<storeVars, idx, op, rbody, rdisk, ropened, scan, acked, indexed, endVars>>

---------------------------------------------------------------------------
(* SELECT: by the index if it knows all tags, else over all pages.             *)

\* A condition on time replaces the bound of those before it; any column compared with =
\* becomes a tag.  Without bounds both are zero.
WalkWhere(where) ==
    LET Bound(b, c) ==
            CASE c.op = ">=" -> [b EXCEPT !.lo = c.v]
              [] c.op = "<=" -> [b EXCEPT !.hi = c.v]
              [] c.op = ">" -> [b EXCEPT !.lo = c.v + 1]
              [] c.op = "<" -> [b EXCEPT !.hi = c.v - 1]
              [] c.op = "between" -> [b EXCEPT !.lo = c.v, !.hi = c.w]
              [] c.op = "=" -> [b EXCEPT !.tags = Append(@, c.tag)]
        walked[i \in 0 .. Len(where)] ==
            IF i = 0 THEN [lo |-> 0, hi |-> 0, tags |-> <<>>] ELSE Bound(walked[i - 1], where[i])
    IN  walked[Len(where)]

\* Mutant of Select: the last page is left out.
SelectShort(where) ==
    /\ scan.pc = "idle" /\ opened = "open" /\ \A g \in Passes : pass[g].pc = "idle"
    /\ LET q == WalkWhere(where)
           locs == SearchAll(idx, q.tags)
       IN  scan' = [NoScan EXCEPT
               !.pc = IF locs = <<>> THEN "full" ELSE "located", !.tags = q.tags, !.lo = q.lo,
               !.hi = q.hi, !.locs = locs, !.pages = {locs[i].page : i \in 1 .. Len(locs)},
               !.count = Len(disk) - 1, !.must = acked, !.where = where]
    /\ UNCHANGED <<storeVars, idx, op, rollVars, acked, indexed, endVars>>

\* The locators of all tags, or the number of pages for a full scan.
Select(where) ==
    /\ scan.pc = "idle" /\ opened = "open" /\ \A g \in Passes : pass[g].pc = "idle"
    /\ LET q == WalkWhere(where)
           locs == SearchAll(idx, q.tags)
       IN  scan' = [NoScan EXCEPT
               !.pc = IF locs = <<>> THEN "full" ELSE "located", !.tags = q.tags, !.lo = q.lo,
               !.hi = q.hi, !.locs = locs, !.pages = {locs[i].page : i \in 1 .. Len(locs)},
               !.count = Len(disk), !.must = acked, !.where = where]
    /\ UNCHANGED <<storeVars, idx, op, rollVars, acked, indexed, endVars>>

MatchTags(pt, tagSeq) == ToSet(tagSeq) \subseteq pt.tags

\* A page of a full scan, both bounds as they are.
ScanPage ==
    /\ scan.pc = "full" /\ scan.next <= scan.count
    /\ \E pts \in DecodePage(disk[scan.next]) :
           scan' = [scan EXCEPT !.next = @ + 1, !.whole = @ /\ ~Broken(disk[scan.next]),
                       !.res = @ \o SelectSeq(pts, LAMBDA pt :
                           pt.ts >= scan.lo /\ pt.ts <= scan.hi /\ MatchTags(pt, scan.tags))]
    /\ UNCHANGED <<storeVars, idx, op, rollVars, acked, indexed, endVars>>

\* The bytes at a locator; what is not written yet decodes as a point of zeros.
DecodeRawPoint(loc) ==
    LET pg == disk[loc.page]
    IN  IF loc.i > Len(pg.pts) THEN Zero
        ELSE IF ~pg.header /\ loc.i = 1 THEN [pg.pts[1] EXCEPT !.ts = Garbled] ELSE pg.pts[loc.i]

\* The locators of one page, in the order of a map; a zero upper bound is none.
ReadLocations(p) ==
    /\ scan.pc = "located"
    /\ LET here == SelectSeq(scan.locs, LAMBDA loc : loc.page = p)
           pts == [i \in 1 .. Len(here) |-> DecodeRawPoint(here[i])]
       IN  scan' = [scan EXCEPT !.pages = @ \ {p}, !.whole = @ /\ ~Broken(disk[p]),
                       !.res = @ \o SelectSeq(pts, LAMBDA pt :
                           pt.ts >= scan.lo /\ (scan.hi = 0 \/ pt.ts <= scan.hi))]
    /\ UNCHANGED <<storeVars, idx, op, rollVars, acked, indexed, endVars>>

Scanned == (scan.pc = "full" /\ scan.next > scan.count) \/ (scan.pc = "located" /\ scan.pages = {})

Return ==
    /\ Scanned /\ scan' = NoScan
    /\ UNCHANGED <<storeVars, idx, op, rollVars, acked, indexed, endVars>>

\* A page that cannot be read: an error of the full scan, passed over by the indexed one.
ScanFails ==
    /\ ~Scanned /\ Fault
    /\ \/ scan.pc = "full" /\ scan' = NoScan
       \/ \E p \in scan.pages : scan' = [scan EXCEPT !.pages = @ \ {p}, !.whole = FALSE]
    /\ UNCHANGED <<storeVars, idx, op, rollVars, acked, indexed, ends>>

---------------------------------------------------------------------------
Next ==
    \/ Open \/ OpenFlush \/ RollupOpen \/ RollupOpenFlush \/ Restart
    \/ \E p \in Writers : Appending(p)
    \/ \E g \in Passes :
          \/ \E secs \in Resolutions : Downsample(g, secs)
          \/ ReadSource(g) \/ SkipPage(g) \/ LockRollup(g) \/ RollupPage(g) \/ PassDone(g)
          \/ \E s \in DOMAIN pass[g].buckets : AppendRollupBucket(g, s) \/ RollupFails(g, s)
    \/ \E where \in Queries : Select(where)
    \/ \E p \in scan.pages : ReadLocations(p)
    \/ ScanPage \/ Return \/ ScanFails

Spec == Init /\ [][Next]_vars

---------------------------------------------------------------------------
Readable == FlattenSeq([i \in 1 .. Len(disk) |-> IF disk[i].header THEN disk[i].pts ELSE <<>>])

\* What the conditions of a WHERE clause mean.
Satisfies(pt, where) ==
    \A i \in 1 .. Len(where) : LET c == where[i] IN
        CASE c.op = ">=" -> pt.ts >= c.v [] c.op = "<=" -> pt.ts <= c.v [] c.op = ">" -> pt.ts > c.v
          [] c.op = "<" -> pt.ts < c.v [] c.op = "between" -> c.v <= pt.ts /\ pt.ts <= c.w
          [] c.op = "=" -> c.tag \in pt.tags

HasEnd(where) == \E i \in 1 .. Len(where) : where[i].op \in {"<=", "<", "between"}

\* With one writer, a pass of downsample that decoded every page has seen a prefix of the
\* appended points, with all that were acknowledged before it began, although appends fill
\* and add pages meanwhile.
PassSeesPrefix ==
    \A g \in Passes : (pass[g].pc = "read" /\ pass[g].next > pass[g].count /\ pass[g].whole) =>
        /\ IsPrefix(pass[g].seen, Readable)
        /\ pass[g].must \subseteq ToSet(pass[g].seen)

\* With one writer and times from 1970 on, every bucket appendRollupBucket left on disk is the
\* aggregate of its interval over the points up to some moment: through concurrent passes,
\* appends, failed writes and restarts.  Left out are the buckets of a pass that passed over a
\* page or met one without its header (StoredWhole), and pages of buckets without theirs.
BucketsExact ==
    \A i \in 1 .. Len(rdisk) : \A b \in ToSet(rdisk[i].pts) : (b.whole /\ rdisk[i].header) =>
        \E n \in 1 .. Len(Readable) : IsAggregate(b, SubSeq(Readable, 1, n), b.secs)

Lossless(dod) == dod # 64 /\ dod \in -(2 ^ (WideBits - 1)) .. 2 ^ (WideBits - 1) - 1
ReadBack ==
    {n \in 1 .. 3 : \A dods \in [1 .. n - 1 -> EdgeDods] :
        RoundTrip(Times(5, dods)) <=> \A i \in 1 .. n - 1 : Lossless(dods[i])}

\* As many timestamps as there are points come back from the encoding of writeTimestamp
\* exactly when no second difference is 64 or needs more than the widest class has, over
\* differences around the bounds of every class.
TimestampsReadBack == Len(AllPoints) \in ReadBack \cup {0}

\* With one writer, a full scan whose WHERE clause bounds the time from above returns every
\* point that satisfies the clause and was acknowledged before it began, and what it returns
\* is in the order of the appends and nothing twice, while appends go on.  Left out is a scan
\* that met a page without its header.
ScanComplete ==
    (scan.pc = "full" /\ Scanned /\ scan.whole /\ HasEnd(scan.where)) =>
        /\ \A pt \in scan.must : Satisfies(pt, scan.where) => pt \in ToSet(scan.res)
        /\ scan.res = SelectSeq(Readable, LAMBDA pt : pt \in ToSet(scan.res))

\* With one writer, a scan over the index returns every point that satisfies its WHERE clause
\* and was acknowledged by this process before it began: intersectLocs merges lists that are
\* sorted, and a locator finds its point, through failed flushes and new pages.  Left out is a
\* scan that passed over a page or met one without its header.
LocatedFinds ==
    (scan.pc = "located" /\ Scanned /\ scan.whole) =>
        \A pt \in scan.must \cap indexed : Satisfies(pt, scan.where) => pt \in ToSet(scan.res)

---------------------------------------------------------------------------
(* What the code does not give; the witnesses.                                *)

\* SearchAll finds exactly the points with all the tags, each once, of those indexed since the
\* process began.  Two appends can enter the index in another order than the page.
SearchExact ==
    \A where \in Queries :
        LET tags == WalkWhere(where).tags
            locs == SearchAll(idx, tags)
        IN  /\ {locs[i].pt : i \in 1 .. Len(locs)} =
                   IF tags = <<>> THEN {} ELSE {pt \in indexed : MatchTags(pt, tags)}
            /\ IsInjective(locs)

\* An indexed scan returns points with the tags asked for.  A locator is in the index before
\* its point is on disk, and after a failed flush.
LocatedMatches ==
    scan.pc = "located" => \A i \in 1 .. Len(scan.res) : MatchTags(scan.res[i], scan.tags)

\* An indexed scan finds the acknowledged points.  The index of a new process is empty.
LocatedComplete ==
    scan.pc = "located" => \A pt \in scan.must :
        MatchTags(pt, scan.tags) => pt \in {scan.locs[i].pt : i \in 1 .. Len(scan.locs)}

\* "start=0, end=0 means no range filter applied" (parseWhere).
NoRangeReturnsAll ==
    (scan.pc = "full" /\ Scanned /\ scan.whole /\ scan.lo = 0 /\ scan.hi = 0) =>
        \A pt \in scan.must : MatchTags(pt, scan.tags) => pt \in ToSet(scan.res)

\* Every timestamp comes back.
EdgesReadBack == \A dod \in EdgeDods : Len(AllPoints) > 0 => RoundTrip(Times(5, <<dod>>))

\* A bucket start is stored once.  Every pass appends all its buckets again.
StoredOnce == \A j, k \in 1 .. Len(Stored) : Stored[j].start = Stored[k].start => j = k

\* Stored buckets lack no page.  A page that cannot be read is passed over, and one without
\* its header is decoded as something else.
StoredWhole == \A b \in ToSet(Stored) : b.whole

\* Stored buckets can be decoded.  A page of buckets that a crash left without its header is
\* appended to from offset zero.
RollupReadable == \A i \in 1 .. Len(rdisk) : rdisk[i].pts # <<>> => rdisk[i].header
=============================================================================
