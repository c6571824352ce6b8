----------------------------- MODULE DeviceScan -----------------------------
(***************************************************************************)
(* One query on the records that a device has in a normal data part        *)
(* (QueryDevData, TraversalDataPage), while inserts split pages and the     *)
(* writer writes them.  The query looks a page up in the index, and only    *)
(* then takes the device lock and the page lock and reads the page; while  *)
(* it holds them it looks up the page to go on with.  Between the lookup   *)
(* and the locks the page may be split.                                    *)
(*                                                                         *)
(* The condition of the query is a range of timestamps; its LIMIT and its  *)
(* timeout, which cut a result short, are left out.                        *)
(***************************************************************************)
EXTENDS NormalPart

CONSTANTS
    Kinds,       \* the queries: "asc", "desc", "first", "last", "snapshot"
    Ranges       \* of timestamps, <<bgTs, edTs>>

ASSUME DeviceScanAssumption ==
    /\ Kinds \subseteq {"asc", "desc", "first", "last", "snapshot"}
    /\ Ranges \subseteq Nat \X Nat

VARIABLES
    scan,        \* the query: its place, range, the entry it goes to and its result
    before       \* history: the values accepted when it began; the index, for "desc" and "snapshot"

scanVars == <<scan, before>>

NoScan == [pc |-> "none", kind |-> "asc", range |-> <<0, 0>>, at |-> Entry(0, 1), got |-> <<>>]
NoBefore == [recs |-> NoRecs, index |-> {}]

Ascends(kind) == kind \in {"asc", "first"}
Ends(kind) == kind \in {"first", "last", "snapshot"}       \* with its first record

\* GetIndex for the end of the range the query begins with.
FirstEntries(kind, range) ==
    CASE kind = "snapshot" -> {e \in index : IsLast(index, e)}
      [] Ascends(kind) -> Covering(index, range[1])
      [] OTHER -> Covering(index, range[2])

Begin(kind, range) ==
    /\ sync.pc # "redo" /\ scan.pc = "none"
    /\ \/ index = {} /\ scan' = [NoScan EXCEPT !.pc = "done", !.kind = kind, !.range = range]
       \/ \E e \in FirstEntries(kind, range) :
             scan' = [NoScan EXCEPT !.pc = "read", !.kind = kind, !.range = range, !.at = e]
    /\ before' = [recs |-> latest, index |-> IF kind \in {"desc", "snapshot"} THEN index ELSE {}]
    /\ UNCHANGED vars

\* TraversalDataPage: the records of the page that the query takes, in its order.
Greatest(S) == {k \in S : \A j \in S : j <= k}
Precedes(j, k) == IF Ascends(scan.kind) THEN j < k ELSE k < j
InOrder(S) ==
    CHOOSE s \in [1 .. Cardinality(S) -> S] :
        /\ \A k \in S : \E i \in 1 .. Cardinality(S) : s[i] = k
        /\ \A i, j \in 1 .. Cardinality(S) : i < j => Precedes(s[i], s[j])
TakenKeys(h) ==
    LET inRange == {k \in Held(h) : scan.range[1] <= k /\ k <= scan.range[2]}
    IN  CASE scan.kind = "snapshot" -> Greatest(Held(h))
          [] scan.kind = "first" -> Least(inRange)
          [] scan.kind = "last" -> Greatest(inRange)
          [] OTHER -> inRange
Taken(h) ==
    LET ks == TakenKeys(h)
    IN  [i \in 1 .. Cardinality(ks) |-> <<InOrder(ks)[i], h.recs[InOrder(ks)[i]]>>]

\* GetNextIndex, GetPrevIndex
NextEntries(k) ==
    LET above == {e \in index : \A f \in Covering(index, k) : f.ts < e.ts}
    IN  {e \in above : \A f \in above : e.ts <= f.ts}
PrevEntries(k) ==
    LET below == {e \in index : \A f \in Covering(index, k) : e.ts < f.ts}
    IN  {e \in below : \A f \in below : f.ts <= e.ts}

\* The page begins after the range, or holds the end of it.
AfterRangeEarly(e) == Ascends(scan.kind) /\ e.ts >= scan.range[2]   \* mutant: off by one
AfterRange(e) == Ascends(scan.kind) /\ e.ts > scan.range[2]
AtEnd(k) == IF Ascends(scan.kind) THEN k >= scan.range[2] ELSE k <= scan.range[1]

\* The pages to go on with, from the last record of the page in the query's order.
Onward(h) ==
    IF Ascends(scan.kind)
    THEN UNION {NextEntries(k) : k \in {j \in Greatest(Held(h)) : ~AtEnd(j)}}
    ELSE UNION {PrevEntries(k) : k \in {j \in Least(Held(h)) : ~AtEnd(j)}}

\* GetRecTstamp and GetLastTstamp fail on a page without records, and so does the query;
\* the snapshot asks for neither.
Fruitless(h) == Held(h) = {} /\ scan.kind # "snapshot"

\* One page, under the device lock and the page lock.
ReadPage ==
    /\ scan.pc = "read"
    /\ LET h == Page(scan.at.no)
           taken == Taken(h)
           onward == IF Ends(scan.kind) /\ (taken # <<>> \/ scan.kind = "snapshot") THEN {} ELSE Onward(h)
       IN  \/ /\ AfterRange(scan.at)
              /\ scan' = [scan EXCEPT !.pc = "done"]
              /\ UNCHANGED pool
           \/ /\ ~AfterRange(scan.at)
              /\ pool' = [pool EXCEPT ![scan.at.no] = h]
              /\ \/ /\ onward = {}
                    /\ scan' = [scan EXCEPT !.pc = IF Fruitless(h) THEN "failed" ELSE "done", !.got = @ \o taken]
                 \/ \E e \in onward : scan' = [scan EXCEPT !.at = e, !.got = @ \o taken]
    /\ UNCHANGED <<before, index, nextPageNo, dirtyList, sync, diskVars, history, crashes, fails>>

\* A step of the part; a crash ends the query.
PartStep ==
    /\ Next
    /\ IF crashes' = crashes THEN UNCHANGED scanVars ELSE scan' = NoScan /\ before' = NoBefore

ScanInit == Init /\ scan = NoScan /\ before = NoBefore
ScanNext ==
    \/ PartStep
    \/ /\ damaged = {}
       /\ \/ \E kind \in Kinds, range \in Ranges : Begin(kind, range)
          \/ ReadPage
ScanSpec == ScanInit /\ [][ScanNext]_<<vars, scanVars>>

-----------------------------------------------------------------------------
(* Properties.                                                              *)

Results == {scan.got[i] : i \in 1 .. Len(scan.got)}
Over(kinds) == scan.pc = "done" /\ scan.kind \in kinds /\ damaged = {}

\* The keys the query should return: they were there when it began.
Expected == {k \in Keys : before.recs[k] # 0 /\ scan.range[1] <= k /\ k <= scan.range[2]}
\* Those that it has not returned, or with an older value.
Missed == {k \in Expected : \A r \in Results : r[1] = k => r[2] < before.recs[k]}

\* A query that is over, whatever splits have moved since it began: an ascending one has returned
\* every record that was there, because it goes on from the last timestamp it has read; "first"
\* returns none after another that was there; a descending one has missed a record, and the
\* snapshot returned an older one, only if a split or a new page has given the record a new page
\* since.  And no query returns a timestamp twice or out of order.  After a failing write and a
\* restart a page may be empty, and a snapshot that meets it returns nothing.
ScanExact ==
    /\ Over({"asc"}) => Missed = {}
    /\ Over({"first"}) => \A k \in Expected : \E r \in Results : r[1] <= k
    /\ Over({"desc"}) => \A k \in Missed : ~(Covering(index, k) \subseteq before.index)
    /\ Over({"snapshot"}) /\ fails = 0 => \A k \in Keys : before.recs[k] # 0 =>
          (\E r \in Results : r[1] >= k) \/ ~(Covering(index, k) \subseteq before.index)
    /\ damaged = {} =>
          \A i, j \in 1 .. Len(scan.got) :
             i < j => IF Ascends(scan.kind) THEN scan.got[i][1] < scan.got[j][1]
                                            ELSE scan.got[i][1] > scan.got[j][1]
=============================================================================
