-------------------------- MODULE DeviceScanProofs --------------------------
(***************************************************************************)
(* Proofs about module DeviceScan: what the queries on a device's records  *)
(* return, for every set of keys, every split of their pages and every     *)
(* interleaving with inserts, syncs, crashes and restarts.                 *)
(*                                                                         *)
(* A query reads one page at a time and goes on from the entry of the page *)
(* it has read, while inserts add entries and divide pages.  The invariant *)
(* says what it has returned so far (Going) and in the end (Done), from    *)
(* what it knows of the part (Known): entries stay and values only grow.   *)
(* It rests on the invariants of module NormalPartProofs, and on one more: *)
(* while no write fails no page of the index is empty (NInv), for a query  *)
(* that meets one fails, and a snapshot returns nothing.                   *)
(***************************************************************************)
EXTENDS DeviceScan, NormalPartProofs

(* No page of the index is empty, while no write fails.                     *)

Empty(c) == c.recs = NoRecs
\* An entry of the index covers a record, and the data file has records of a page that was
\* written, if not from RecoverDW on, then once it has put the copies back.
Used == \A e \in index : \E k \in Keys : e \in Covering(index, k) /\ latest[k] # 0
CopiesHeld == \A c \in CopiesOf(dw) \cup CopiesOf(sync.batch) : ~Empty(c)
DiskHeld == \A e \in index : ~pool[e.no].onlyMem => ~Empty(disk[e.no])
RedoHeld == \A e \in index : ~Empty(disk[e.no]) \/ \E c \in CopiesOf(dw) : c.no = e.no

NInv == damaged = {} => /\ CopiesHeld
                        /\ sync.pc = "redo" => RedoHeld
                        /\ sync.pc # "redo" => Used /\ DiskHeld

-----------------------------------------------------------------------------
(* The query.                                                               *)

ScanKinds == {"asc", "desc", "first", "last", "snapshot"}
Records == Keys \X (0 .. MaxVer)
Scans == [pc : {"none", "read", "done", "failed"}, kind : ScanKinds, range : Nat \X Nat,
          at : [ts : Keys \cup {0}, no : PageNos \cup {1}], got : Seq(Records)]
Befores == [recs : [Keys -> 0 .. MaxVer], index : SUBSET Entries]
ScanType == scan \in Scans /\ before \in Befores

Ordered == \A i, j \in 1 .. Len(scan.got) : i < j => Precedes(scan.got[i][1], scan.got[j][1])

\* The query has returned the record, or a newer one.
Returned(k) == \E r \in Results : r[1] = k /\ before.recs[k] <= r[2]

\* What the query has returned before it reads its next page.
AscGoing ==
    /\ \A r \in Results : r[1] < scan.at.ts
    /\ scan.kind = "asc" => \A k \in Expected : k < scan.at.ts => Returned(k)
    /\ scan.kind = "first" => scan.got = <<>> /\ \A k \in Expected : scan.at.ts <= k
DescGoing ==
    /\ \A r \in Results : \E f \in index : scan.at.ts < f.ts /\ f.ts <= r[1]
    /\ scan.kind = "desc" =>
          \A k \in Expected : \A c \in Covering(index, k) :
              c \in before.index /\ scan.at.ts < c.ts => Returned(k)
    /\ scan.kind = "snapshot" =>
          scan.got = <<>> /\ scan.at \in before.index /\ IsLast(before.index, scan.at)
Going == /\ scan.at \in index
         /\ Ascends(scan.kind) => AscGoing
         /\ ~Ascends(scan.kind) => DescGoing

\* What it has returned in the end.
Done ==
    /\ scan.kind = "asc" => \A k \in Expected : Returned(k)
    /\ scan.kind = "first" => \A k \in Expected : \E r \in Results : r[1] <= k
    /\ scan.kind = "desc" =>
          \A k \in Expected : \A c \in Covering(index, k) : c \in before.index => Returned(k)
    /\ scan.kind = "snapshot" /\ fails = 0 =>
          \A k \in Keys : \A c \in Covering(index, k) :
              before.recs[k] # 0 /\ c \in before.index => \E r \in Results : k <= r[1]

\* What it knows of the part.
Known == before.index \subseteq index /\ \A k \in Keys : before.recs[k] <= latest[k]

QInv == damaged = {} =>
    /\ Ordered
    /\ sync.pc = "redo" => scan.pc = "none"
    /\ scan.pc \in {"read", "done"} => Known
    /\ scan.pc = "read" => Going
    /\ scan.pc = "done" => Done

-----------------------------------------------------------------------------
(* Least and greatest keys, and sets of keys as sequences.                  *)

LEMMA SomeLeast ==
    ASSUME NEW T \in SUBSET Nat, T # {}
    PROVE  \E n \in T : \A m \in T : n <= m
<1>1. PICK y \in T : TRUE
  OBVIOUS
<1>2. PICK d \in T : \A e \in T : ~ (<<e, d>> \in OpToRel(<, Nat))
  BY <1>1, WFMin, NatLessThanWellFounded, Zenon
<1>3. \A e \in T : ~ (e < d)
  BY <1>2 DEF OpToRel
<1> QED
  BY <1>3

LEMMA KeysFinite ==
    ASSUME NEW S \in SUBSET Keys
    PROVE  IsFiniteSet(S) /\ Cardinality(S) \in Nat /\ S \subseteq Nat
BY NormalPartAssumption, FS_Subset, FS_CardinalityType

\* The smallest set of keys for which something fails would have one key less in
\* a set for which it holds.
LEMMA SomeGreatest ==
    ASSUME NEW S \in SUBSET Keys, S # {}
    PROVE  \E m \in S : \A k \in S : k <= m
<1> DEFINE Top(U) == \E m \in U : \A k \in U : k <= m
           Bad == {U \in SUBSET Keys : U # {} /\ ~Top(U)}
           T == {Cardinality(U) : U \in Bad}
<1> SUFFICES ASSUME S \in Bad PROVE FALSE
  OBVIOUS
<1>1. T \in SUBSET Nat /\ T # {}
  BY KeysFinite
<1>2. PICK n \in T : \A m \in T : n <= m
  <2> HIDE DEF T
  <2> QED
    BY <1>1, SomeLeast
<1>3. PICK U \in Bad : n = Cardinality(U)
  OBVIOUS
<1>4. PICK x \in U : TRUE
  OBVIOUS
<1> DEFINE V == U \ {x}
<1>5. Cardinality(V) = n - 1 /\ n \in Nat /\ V \in SUBSET Keys /\ U \subseteq Nat
  BY <1>1, <1>3, <1>4, KeysFinite, FS_RemoveElement
<1>6. V \notin Bad
  <2> SUFFICES ASSUME V \in Bad PROVE FALSE
    OBVIOUS
  <2>1. n - 1 \in T
    BY <1>5
  <2> QED
    BY <1>2, <1>5, <2>1
<1>7. CASE V = {}
  <2>1. \A k \in U : k = x
    BY <1>7
  <2>2. x <= x
    BY <1>4, <1>5
  <2> QED
    BY <1>3, <1>4, <2>1, <2>2
<1>8. CASE V # {}
  <2>1. PICK m \in V : \A k \in V : k <= m
    BY <1>5, <1>6, <1>8
  <2>2. m \in U /\ m \in Nat /\ x \in Nat /\ \A k \in U : k \in Nat /\ (k = x \/ k <= m)
    BY <1>4, <1>5, <2>1
  <2>3. CASE x <= m
    BY <1>3, <2>2, <2>3
  <2>4. CASE m < x
    <3>1. \A k \in U : k <= x
      BY <2>2, <2>4
    <3> QED
      BY <1>3, <1>4, <3>1
  <2> QED
    BY <2>2, <2>3, <2>4
<1> QED
  BY <1>7, <1>8

\* A set of keys as a sequence that ascends.
LEMMA Ascending ==
    ASSUME NEW S \in SUBSET Keys
    PROVE  \E s \in [1 .. Cardinality(S) -> S] :
              /\ \A k \in S : \E i \in 1 .. Cardinality(S) : s[i] = k
              /\ \A i, j \in 1 .. Cardinality(S) : i < j => s[i] < s[j]
<1> DEFINE Is(U, s) == /\ \A k \in U : \E i \in 1 .. Cardinality(U) : s[i] = k
                       /\ \A i, j \in 1 .. Cardinality(U) : i < j => s[i] < s[j]
           Sorts(U) == \E s \in [1 .. Cardinality(U) -> U] : Is(U, s)
           Bad == {U \in SUBSET Keys : ~Sorts(U)}
           T == {Cardinality(U) : U \in Bad}
<1> SUFFICES ASSUME S \in Bad PROVE FALSE
  OBVIOUS
<1>1. T \in SUBSET Nat /\ T # {}
  BY KeysFinite
<1>2. PICK n \in T : \A m \in T : n <= m
  <2> HIDE DEF T
  <2> QED
    BY <1>1, SomeLeast
<1>3. PICK U \in Bad : n = Cardinality(U)
  OBVIOUS
<1>4. U \in SUBSET Keys /\ n \in Nat /\ IsFiniteSet(U) /\ \A k \in U : k \in Nat
  BY <1>3, KeysFinite
<1>5. CASE U = {}
  <2>1. n = 0
    BY <1>3, <1>5, FS_EmptySet
  <2>2. \A i : i \notin 1 .. Cardinality(U)
    BY <1>3, <2>1
  <2> DEFINE s == [i \in 1 .. Cardinality(U) |-> 0]
  <2>3. s \in [1 .. Cardinality(U) -> U]
    BY <2>2
  <2>4. Is(U, s)
    BY <1>5, <2>2
  <2> QED
    BY <1>3, <2>3, <2>4
<1>6. CASE U # {}
  <2>1. PICK x \in U : \A k \in U : k <= x
    BY <1>4, <1>6, SomeGreatest
  <2> DEFINE V == U \ {x}
             m == n - 1
  <2>2. Cardinality(V) = m /\ V \in SUBSET Keys /\ m \in Nat
    BY <1>3, <1>4, <2>1, FS_RemoveElement, KeysFinite
  <2>3. V \notin Bad
    <3> SUFFICES ASSUME V \in Bad PROVE FALSE
      OBVIOUS
    <3>1. m \in T
      BY <2>2
    <3> QED
      BY <1>2, <1>4, <2>2, <3>1
  <2>4. PICK r \in [1 .. m -> V] :
           /\ \A k \in V : \E i \in 1 .. m : r[i] = k
           /\ \A i, j \in 1 .. m : i < j => r[i] < r[j]
    BY <2>2, <2>3
  <2> DEFINE s == [i \in 1 .. n |-> IF i = n THEN x ELSE r[i]]
  <2>5. n = m + 1 /\ n \in 1 .. n /\ \A i \in 1 .. n : i = n \/ (i \in 1 .. m /\ i < n)
    BY <1>4, <2>2
  <2> HIDE DEF m
  <2>6. s[n] = x /\ \A i \in 1 .. m : i \in 1 .. n /\ i # n /\ s[i] = r[i]
    BY <2>2, <2>5
  <2>7. s \in [1 .. n -> U]
    BY <2>1, <2>4, <2>5
  <2>8. ASSUME NEW k \in U PROVE \E i \in 1 .. n : s[i] = k
    <3>1. CASE k = x
      BY <2>5, <2>6, <3>1
    <3>2. CASE k # x
      <4>1. PICK i \in 1 .. m : r[i] = k
        BY <2>4, <3>2
      <4> QED
        BY <2>6, <4>1
    <3> QED
      BY <3>1, <3>2
  <2>9. ASSUME NEW i \in 1 .. n, NEW j \in 1 .. n, i < j PROVE s[i] < s[j]
    <3>1. i # n /\ i \in 1 .. m /\ s[i] = r[i] /\ r[i] \in V
      BY <2>4, <2>5, <2>6, <2>9
    <3>2. CASE j = n
      <4>1. r[i] \in U /\ r[i] # x
        BY <3>1
      <4> QED
        BY <1>4, <2>1, <2>6, <3>1, <3>2, <4>1
    <3>3. CASE j # n
      BY <2>4, <2>5, <2>6, <2>9, <3>1, <3>3
    <3> QED
      BY <3>2, <3>3
  <2> HIDE DEF s
  <2> QED
    BY <1>3, <2>7, <2>8, <2>9
<1> QED
  BY <1>5, <1>6

\* The keys of a set in the order of the query.
LEMMA Sorted ==
    ASSUME NEW S \in SUBSET Keys
    PROVE  /\ InOrder(S) \in [1 .. Cardinality(S) -> S]
           /\ \A k \in S : \E i \in 1 .. Cardinality(S) : InOrder(S)[i] = k
           /\ \A i, j \in 1 .. Cardinality(S) : i < j => Precedes(InOrder(S)[i], InOrder(S)[j])
<1> DEFINE n == Cardinality(S)
           Is(s) == /\ \A k \in S : \E i \in 1 .. n : s[i] = k
                    /\ \A i, j \in 1 .. n : i < j => Precedes(s[i], s[j])
<1>1. PICK a \in [1 .. n -> S] :
         /\ \A k \in S : \E i \in 1 .. n : a[i] = k
         /\ \A i, j \in 1 .. n : i < j => a[i] < a[j]
  BY Ascending
<1>2. n \in Nat
  BY KeysFinite
<1> HIDE DEF n
<1>3. \E s \in [1 .. n -> S] : Is(s)
  <2>1. CASE Ascends(scan.kind)
    BY <1>1, <2>1 DEF Precedes
  <2>2. CASE ~Ascends(scan.kind)
    <3> DEFINE d == [i \in 1 .. n |-> a[n + 1 - i]]
    <3>1. \A i \in 1 .. n : n + 1 - i \in 1 .. n /\ n + 1 - (n + 1 - i) = i
      BY <1>2
    <3>2. d \in [1 .. n -> S]
      BY <1>1, <3>1
    <3>3. ASSUME NEW k \in S PROVE \E i \in 1 .. n : d[i] = k
      <4>1. PICK i \in 1 .. n : a[i] = k
        BY <1>1
      <4>2. d[n + 1 - i] = k
        BY <3>1, <4>1
      <4> QED
        BY <3>1, <4>2
    <3>4. ASSUME NEW i \in 1 .. n, NEW j \in 1 .. n, i < j PROVE Precedes(d[i], d[j])
      <4>1. n + 1 - j < n + 1 - i
        BY <1>2, <3>4
      <4>2. a[n + 1 - j] < a[n + 1 - i]
        BY <1>1, <3>1, <4>1
      <4> QED
        BY <2>2, <4>2 DEF Precedes
    <3> HIDE DEF d
    <3> QED
      BY <3>2, <3>3, <3>4
  <2> QED
    BY <2>1, <2>2
<1>4. InOrder(S) = CHOOSE s \in [1 .. n -> S] : Is(s)
  BY DEF InOrder, n
<1> DEFINE o == InOrder(S)
<1>5. o \in [1 .. n -> S] /\ Is(o)
  <2> HIDE DEF Is
  <2> QED
    BY <1>3, <1>4
<1> QED
  BY <1>5 DEF n

-----------------------------------------------------------------------------
(* The index and the pages, as a query finds them in an open part.          *)

LEMMA Indexed0 ==
    ASSUME IInv, Filled
    PROVE  /\ index \in SUBSET Entries /\ Distinct(index) /\ (index = {} \/ Zero(index))
           /\ \A e \in index : e.ts \in Nat /\ e.no \in PageNos
           /\ latest \in [Keys -> 0 .. MaxVer] /\ \A k \in Keys : k \in Nat /\ latest[k] \in Nat
<1>1. index \in SUBSET Entries /\ latest \in [Keys -> 0 .. MaxVer]
  BY DEF IInv, TypeOK
<1>2. \A k \in Keys : latest[k] \in Nat
  BY <1>1, NormalPartAssumption
<1> QED
  BY <1>1, <1>2, EntryType DEF Filled, IndexOK

\* Which entry covers a timestamp.
LEMMA CoverIs ==
    ASSUME IInv, Filled, NEW k \in Keys
    PROVE  /\ \A e \in index : e \in Covering(index, k) <=>
                 e.ts <= k /\ \A f \in index : f.ts <= k => f.ts <= e.ts
           /\ \A e \in Covering(index, k) : e \in index /\ Covering(index, k) = {e}
           /\ index # {} => Covering(index, k) # {}
           /\ latest[k] # 0 => Covering(index, k) # {}
<1>1. index = {} => Covering(index, k) = {} /\ latest[k] = 0
  BY DEF Covering, Filled, Right, NoRecs
<1>2. ASSUME index # {}
      PROVE  /\ Zero(index) /\ Distinct(index) /\ index \in SUBSET Entries
  BY <1>2, Indexed0
<1>3. \A e \in Covering(index, k) : e \in index
  BY DEF Covering
<1> QED
  BY <1>1, <1>2, <1>3, CoverZero, CoverOne, CoverSome

\* The records of the page of an entry.
LEMMA PageHolds ==
    ASSUME IInv, Filled, NEW e \in index
    PROVE  /\ Held(Page(e.no)) = {k \in Keys : e \in Covering(index, k) /\ latest[k] # 0}
           /\ \A k \in Held(Page(e.no)) : Page(e.no).recs[k] = latest[k]
<1>1. \A k \in Keys : /\ e \in Covering(index, k) => Page(e.no).recs[k] = latest[k]
                      /\ Page(e.no).recs[k] # 0 => e \in Covering(index, k)
  BY DEF Filled, Right
<1> QED
  BY <1>1 DEF Held

\* The entries of NextEntries and PrevEntries.
Above(e, f) == e.ts < f.ts /\ \A g \in index : e.ts < g.ts => f.ts <= g.ts
Below(e, f) == f.ts < e.ts /\ \A g \in index : g.ts < e.ts => g.ts <= f.ts

LEMMA NextIs ==
    ASSUME IInv, Filled, NEW k \in Keys, NEW e \in Covering(index, k)
    PROVE  /\ \A f \in NextEntries(k) : f \in index /\ Above(e, f)
           /\ NextEntries(k) = {} => \A f \in index : f.ts <= e.ts
<1>1. Covering(index, k) = {e} /\ e \in index
  BY CoverIs
<1> DEFINE U == {f \in index : e.ts < f.ts}
<1>2. NextEntries(k) = {f \in U : \A g \in U : f.ts <= g.ts}
  BY <1>1 DEF NextEntries
<1>3. \A f \in NextEntries(k) : f \in index /\ Above(e, f)
  BY <1>2 DEF Above
<1>4. ASSUME U # {} PROVE NextEntries(k) # {}
  <2> DEFINE T == {f.ts : f \in U}
  <2>1. T \in SUBSET Nat /\ T # {}
    BY <1>4, Indexed0
  <2>2. PICK n \in T : \A m \in T : n <= m
    <3> HIDE DEF T
    <3> QED
      BY <2>1, SomeLeast
  <2>3. PICK f \in U : n = f.ts
    OBVIOUS
  <2>4. \A g \in U : f.ts <= g.ts
    BY <2>2, <2>3
  <2> QED
    BY <1>2, <2>3, <2>4
<1>5. \A f \in index : e.ts \in Nat /\ f.ts \in Nat
  BY <1>1, Indexed0
<1>6. NextEntries(k) = {} => \A f \in index : f.ts <= e.ts
  BY <1>4, <1>5
<1> QED
  BY <1>3, <1>6

LEMMA PrevIs ==
    ASSUME IInv, Filled, NEW k \in Keys, NEW e \in Covering(index, k)
    PROVE  /\ \A f \in PrevEntries(k) : f \in index /\ Below(e, f)
           /\ PrevEntries(k) = {} => \A f \in index : e.ts <= f.ts
<1>1. Covering(index, k) = {e} /\ e \in index
  BY CoverIs
<1>2. \A f \in index : e.ts \in Nat /\ f.ts \in Nat
  BY <1>1, Indexed0
<1> DEFINE U == {f \in index : f.ts < e.ts}
<1>3. PrevEntries(k) = {f \in U : \A g \in U : g.ts <= f.ts}
  BY <1>1 DEF PrevEntries
<1>4. \A f \in PrevEntries(k) : f \in index /\ Below(e, f)
  BY <1>3 DEF Below
<1>5. ASSUME U # {} PROVE PrevEntries(k) # {}
  <2> DEFINE T == {f.ts + 1 : f \in U}
  <2>1. T \in SUBSET (1 .. e.ts) /\ T # {} /\ e.ts \in Nat
    BY <1>1, <1>2, <1>5
  <2>2. PICK n \in T : \A m \in T : m <= n
    <3> HIDE DEF T
    <3> QED
      BY <2>1, MaxOfInterval
  <2>3. PICK f \in U : n = f.ts + 1
    OBVIOUS
  <2>4. \A g \in U : g.ts <= f.ts
    <3> TAKE g \in U
    <3>1. g.ts + 1 <= f.ts + 1
      BY <2>2, <2>3
    <3> QED
      BY <1>2, <3>1
  <2> QED
    BY <1>3, <2>3, <2>4
<1>6. PrevEntries(k) = {} => \A f \in index : e.ts <= f.ts
  BY <1>2, <1>5
<1> QED
  BY <1>4, <1>6

-----------------------------------------------------------------------------
(* What the query takes out of a page, and where it goes on.                *)

LEMMA TakenIs ==
    ASSUME NEW h, h.recs \in [Keys -> 0 .. MaxVer]
    PROVE  /\ Taken(h) \in Seq(Records)
           /\ TakenKeys(h) \in SUBSET Held(h)
           /\ {Taken(h)[i] : i \in 1 .. Len(Taken(h))} = {<<k, h.recs[k]>> : k \in TakenKeys(h)}
           /\ \A i, j \in 1 .. Len(Taken(h)) : i < j => Precedes(Taken(h)[i][1], Taken(h)[j][1])
<1> DEFINE ks == TakenKeys(h)
           n == Cardinality(ks)
           o == InOrder(ks)
           t == [i \in 1 .. n |-> <<o[i], h.recs[o[i]]>>]
<1>1. ks \in SUBSET Held(h) /\ ks \in SUBSET Keys
  BY DEF TakenKeys, Held, Least, Greatest
<1>2. Taken(h) = t
  BY DEF Taken
<1>3. /\ o \in [1 .. n -> ks] /\ n \in Nat
      /\ \A k \in ks : \E i \in 1 .. n : o[i] = k
      /\ \A i, j \in 1 .. n : i < j => Precedes(o[i], o[j])
  BY <1>1, Sorted, KeysFinite
<1> HIDE DEF ks, n, o
<1>4. \A i \in 1 .. n : t[i] = <<o[i], h.recs[o[i]]>> /\ t[i] \in Records /\ o[i] \in ks
  BY <1>1, <1>3 DEF Records
<1>5. t \in Seq(Records) /\ Len(t) = n
  BY <1>3, <1>4
<1>6. {t[i] : i \in 1 .. n} = {<<k, h.recs[k]>> : k \in ks}
  BY <1>3, <1>4
<1>7. \A i, j \in 1 .. n : i < j => Precedes(t[i][1], t[j][1])
  BY <1>3, <1>4
<1> HIDE DEF t
<1> QED
  BY <1>1, <1>2, <1>5, <1>6, <1>7 DEF ks

LEMMA OnwardAsc ==
    ASSUME IInv, Filled, NEW e \in index, Held(Page(e.no)) # {}, Ascends(scan.kind),
           scan.range \in Nat \X Nat
    PROVE  /\ \A f \in Onward(Page(e.no)) : f \in index /\ Above(e, f)
           /\ Onward(Page(e.no)) = {} =>
                 \A k \in Keys : e.ts <= k /\ k <= scan.range[2] => e \in Covering(index, k)
<1> DEFINE H == Held(Page(e.no))
<1>1. H = {k \in Keys : e \in Covering(index, k) /\ latest[k] # 0}
  BY PageHolds
<1> HIDE DEF H
<1>2. H \in SUBSET Keys /\ H \subseteq Nat /\ scan.range[2] \in Nat
  BY <1>1, EntryType
<1>3. PICK m \in H : \A k \in H : k <= m
  <2>1. H # {}
    BY DEF H
  <2> QED
    BY <1>2, <2>1, SomeGreatest
<1>4. m \in Keys /\ m \in Nat /\ e \in Covering(index, m)
  BY <1>1, <1>2, <1>3
<1>5. Greatest(H) = {m}
  <2>1. m \in Greatest(H)
    BY <1>3 DEF Greatest
  <2>2. \A j \in Greatest(H) : j \in H /\ m <= j /\ j <= m
    BY <1>3 DEF Greatest
  <2>3. ASSUME NEW j \in Greatest(H) PROVE j = m
    <3>1. j \in Nat /\ m \in Nat
      BY <1>2, <1>4, <2>2
    <3> QED
      BY <2>2, <3>1
  <2> QED
    BY <2>1, <2>3
<1>6. Onward(Page(e.no)) = UNION {NextEntries(k) : k \in {j \in {m} : ~AtEnd(j)}}
  BY <1>5 DEF Onward, H
<1>7. CASE AtEnd(m)
  <2>1. Onward(Page(e.no)) = {}
    BY <1>6, <1>7
  <2>2. scan.range[2] <= m
    BY <1>2, <1>4, <1>7 DEF AtEnd
  <2>3. ASSUME NEW k \in Keys, e.ts <= k, k <= scan.range[2]
        PROVE  e \in Covering(index, k)
    <3>1. \A f \in index : f.ts <= m => f.ts <= e.ts
      BY <1>4, CoverIs
    <3>2. \A f \in index : f.ts <= k => f.ts <= m
      <4>1. k \in Nat /\ \A f \in index : f.ts \in Nat
        BY Indexed0
      <4>2. k <= m
        BY <1>2, <1>4, <2>2, <2>3, <4>1
      <4> QED
        BY <1>4, <4>1, <4>2
    <3> QED
      BY <2>3, <3>1, <3>2, CoverIs
  <2> QED
    BY <2>1, <2>3
<1>8. CASE ~AtEnd(m)
  <2>1. Onward(Page(e.no)) = NextEntries(m)
    BY <1>6, <1>8
  <2>2. /\ \A f \in NextEntries(m) : f \in index /\ Above(e, f)
        /\ NextEntries(m) = {} => \A f \in index : f.ts <= e.ts
    BY <1>4, NextIs
  <2>3. ASSUME NextEntries(m) = {}, NEW k \in Keys, e.ts <= k
        PROVE  e \in Covering(index, k)
    BY <2>2, <2>3, CoverIs
  <2> QED
    BY <2>1, <2>2, <2>3
<1> QED
  BY <1>7, <1>8

LEMMA OnwardDesc ==
    ASSUME IInv, Filled, NEW e \in index, Held(Page(e.no)) # {}, ~Ascends(scan.kind),
           scan.range \in Nat \X Nat
    PROVE  /\ \A f \in Onward(Page(e.no)) : f \in index /\ Below(e, f)
           /\ Onward(Page(e.no)) = {} =>
                 \A k \in Keys : scan.range[1] <= k => \A c \in Covering(index, k) : e.ts <= c.ts
<1> DEFINE H == Held(Page(e.no))
<1>1. H = {k \in Keys : e \in Covering(index, k) /\ latest[k] # 0}
  BY PageHolds
<1> HIDE DEF H
<1>2. H \in SUBSET Keys /\ H \subseteq Nat /\ scan.range[1] \in Nat
  BY <1>1, EntryType
<1>3. PICK m \in H : \A k \in H : m <= k
  <2>1. H # {}
    BY DEF H
  <2> QED
    BY <1>2, <2>1, SomeLeast
<1>4. m \in Keys /\ m \in Nat /\ e \in Covering(index, m)
  BY <1>1, <1>2, <1>3
<1>5. Least(H) = {m}
  <2>1. m \in Least(H)
    BY <1>3 DEF Least
  <2>2. \A j \in Least(H) : j \in H /\ m <= j /\ j <= m
    BY <1>3 DEF Least
  <2>3. ASSUME NEW j \in Least(H) PROVE j = m
    <3>1. j \in Nat /\ m \in Nat
      BY <1>2, <1>4, <2>2
    <3> QED
      BY <2>2, <3>1
  <2> QED
    BY <2>1, <2>3
<1>6. Onward(Page(e.no)) = UNION {PrevEntries(k) : k \in {j \in {m} : ~AtEnd(j)}}
  BY <1>5 DEF Onward, H
<1>7. CASE AtEnd(m)
  <2>1. Onward(Page(e.no)) = {}
    BY <1>6, <1>7
  <2>2. m <= scan.range[1] /\ e.ts <= m /\ e.ts \in Nat
    BY <1>2, <1>4, <1>7, CoverIs, Indexed0 DEF AtEnd
  <2>3. ASSUME NEW k \in Keys, scan.range[1] <= k, NEW c \in Covering(index, k)
        PROVE  e.ts <= c.ts
    <3>1. e.ts <= k
      BY <1>2, <1>4, <2>2, <2>3, EntryType
    <3> QED
      BY <3>1, <2>3, CoverIs
  <2> QED
    BY <2>1, <2>3
<1>8. CASE ~AtEnd(m)
  <2>1. Onward(Page(e.no)) = PrevEntries(m)
    BY <1>6, <1>8
  <2>2. /\ \A f \in PrevEntries(m) : f \in index /\ Below(e, f)
        /\ PrevEntries(m) = {} => \A f \in index : e.ts <= f.ts
    BY <1>4, PrevIs
  <2>3. ASSUME PrevEntries(m) = {}, NEW k \in Keys, NEW c \in Covering(index, k)
        PROVE  e.ts <= c.ts
    BY <2>2, <2>3, CoverIs
  <2> QED
    BY <2>1, <2>2, <2>3
<1> QED
  BY <1>7, <1>8

\* What the result is when the records of a page have been added to it.
LEMMA GotGrows ==
    ASSUME ScanType, NEW h, h.recs \in [Keys -> 0 .. MaxVer], Ordered,
           scan'.kind = scan.kind, scan'.got = scan.got \o Taken(h),
           \A r \in Results : \A k \in TakenKeys(h) : Precedes(r[1], k)
    PROVE  /\ Results' = Results \cup {<<k, h.recs[k]>> : k \in TakenKeys(h)}
           /\ Ordered'
<1> DEFINE s == scan.got
           t == Taken(h)
           m == Len(s)
           n == Len(t)
<1>1. s \in Seq(Records)
  BY DEF ScanType, Scans
<1>2. /\ t \in Seq(Records)
      /\ {t[i] : i \in 1 .. n} = {<<k, h.recs[k]>> : k \in TakenKeys(h)}
      /\ \A i, j \in 1 .. n : i < j => Precedes(t[i][1], t[j][1])
  BY TakenIs
<1> HIDE DEF t
<1>3. m \in Nat /\ n \in Nat
  BY <1>1, <1>2
<1>4. /\ Len(s \o t) = m + n
      /\ \A i \in 1 .. m : (s \o t)[i] = s[i]
      /\ \A i \in m + 1 .. m + n : (s \o t)[i] = t[i - m]
  BY <1>1, <1>2
<1>5. \A i \in 1 .. m + n : i \in 1 .. m \/ (i \in m + 1 .. m + n /\ i - m \in 1 .. n)
  BY <1>3
<1>6. \A i \in 1 .. n : i + m \in m + 1 .. m + n /\ (i + m) - m = i
  BY <1>3
<1>7. \A j, k : (Precedes(j, k))' <=> Precedes(j, k)
  BY DEF Precedes, Ascends
<1>8. scan'.got = s \o t
  BY DEF t
<1> HIDE DEF s, m, n
<1>9. Results' = {(s \o t)[i] : i \in 1 .. m + n}
  BY <1>4, <1>8 DEF Results
<1>10. {(s \o t)[i] : i \in 1 .. m + n} = {s[i] : i \in 1 .. m} \cup {t[i] : i \in 1 .. n}
  <2>1. \A i \in 1 .. m + n : (s \o t)[i] \in {s[j] : j \in 1 .. m} \cup {t[j] : j \in 1 .. n}
    BY <1>4, <1>5
  <2>2. \A i \in 1 .. m : i \in 1 .. m + n
    BY <1>3
  <2>3. \A i \in 1 .. n : i + m \in 1 .. m + n /\ (s \o t)[i + m] = t[i]
    BY <1>3, <1>4, <1>6
  <2> DEFINE L == {(s \o t)[i] : i \in 1 .. m + n}
  <2>4. \A i \in 1 .. m : s[i] \in L
    BY <1>4, <2>2
  <2>5. \A i \in 1 .. n : t[i] \in L
    BY <2>3
  <2>6. {s[i] : i \in 1 .. m} \subseteq L /\ {t[i] : i \in 1 .. n} \subseteq L
    <3> HIDE DEF L
    <3> QED
      BY <2>4, <2>5
  <2> QED
    BY <2>1, <2>6
<1>11. Results = {s[i] : i \in 1 .. m}
  BY DEF Results, s, m
<1>12. ASSUME NEW i \in 1 .. m + n, NEW j \in 1 .. m + n, i < j
       PROVE  Precedes((s \o t)[i][1], (s \o t)[j][1])
  <2>1. CASE i \in 1 .. m /\ j \in 1 .. m
    BY <1>4, <1>12, <2>1 DEF Ordered, s, m
  <2>2. CASE i \in 1 .. m /\ j \in m + 1 .. m + n
    <3>1. t[j - m] \in {t[x] : x \in 1 .. n}
      BY <1>5, <2>2, <1>3
    <3>2. PICK k \in TakenKeys(h) : t[j - m] = <<k, h.recs[k]>>
      BY <1>2, <3>1
    <3>3. s[i] \in Results
      BY <1>11, <2>2
    <3> QED
      BY <1>4, <2>2, <3>2, <3>3
  <2>3. CASE i \in m + 1 .. m + n /\ j \in m + 1 .. m + n
    <3>1. i - m \in 1 .. n /\ j - m \in 1 .. n /\ i - m < j - m
      BY <1>3, <1>12, <2>3
    <3> QED
      BY <1>2, <1>4, <2>3, <3>1
  <2>4. CASE i \in m + 1 .. m + n /\ j \in 1 .. m
    BY <1>3, <1>12, <2>4
  <2> QED
    BY <1>5, <2>1, <2>2, <2>3, <2>4
<1>13. Ordered'
  BY <1>4, <1>7, <1>8, <1>12 DEF Ordered
<1> QED
  BY <1>2, <1>9, <1>10, <1>11, <1>13 DEF n

LEMMA ReadForms ==
    ASSUME ScanType, ReadPage, NEW h, h = Page(scan.at.no)
    PROVE  /\ scan.pc = "read" /\ scan'.kind = scan.kind /\ scan'.range = scan.range
           /\ UNCHANGED <<before, index, latest, fails, damaged, sync>>
           /\ \/ AfterRange(scan.at) /\ scan'.pc = "done" /\ scan'.got = scan.got
              \/ /\ ~AfterRange(scan.at) /\ scan'.got = scan.got \o Taken(h)
                 /\ \/ scan'.pc = "failed"
                    \/ /\ scan'.pc = "done" /\ (Held(h) # {} \/ scan.kind = "snapshot")
                       /\ Onward(h) = {} \/ (Ends(scan.kind) /\ (Taken(h) # <<>> \/ scan.kind = "snapshot"))
                    \/ /\ scan'.pc = "read" /\ Held(h) # {} /\ scan'.at \in Onward(h)
                       /\ ~ (Ends(scan.kind) /\ (Taken(h) # <<>> \/ scan.kind = "snapshot"))
<1> DEFINE stops == Ends(scan.kind) /\ (Taken(h) # <<>> \/ scan.kind = "snapshot")
           onward == IF stops THEN {} ELSE Onward(h)
<1>1. scan = [pc |-> scan.pc, kind |-> scan.kind, range |-> scan.range, at |-> scan.at, got |-> scan.got]
  BY DEF ScanType, Scans
<1>2. /\ scan.pc = "read"
      /\ UNCHANGED <<before, index, latest, fails, damaged, sync>>
      /\ \/ AfterRange(scan.at) /\ scan' = [scan EXCEPT !.pc = "done"]
         \/ /\ ~AfterRange(scan.at)
            /\ \/ /\ onward = {}
                  /\ scan' = [scan EXCEPT !.pc = IF Fruitless(h) THEN "failed" ELSE "done",
                                          !.got = scan.got \o Taken(h)]
               \/ \E e \in onward : scan' = [scan EXCEPT !.at = e, !.got = scan.got \o Taken(h)]
  BY DEF ReadPage, history
<1> HIDE DEF stops
<1>3. CASE AfterRange(scan.at) /\ scan' = [scan EXCEPT !.pc = "done"]
  BY <1>1, <1>2, <1>3
<1>4. CASE /\ ~AfterRange(scan.at) /\ onward = {}
           /\ scan' = [scan EXCEPT !.pc = IF Fruitless(h) THEN "failed" ELSE "done",
                                   !.got = scan.got \o Taken(h)]
  <2>1. /\ scan'.kind = scan.kind /\ scan'.range = scan.range /\ scan'.got = scan.got \o Taken(h)
        /\ scan'.pc = IF Fruitless(h) THEN "failed" ELSE "done"
    BY <1>1, <1>4
  <2>2. Onward(h) = {} \/ stops
    BY <1>4
  <2> QED
    BY <1>2, <1>4, <2>1, <2>2 DEF Fruitless, stops
<1>5. ASSUME ~AfterRange(scan.at), NEW e \in onward,
             scan' = [scan EXCEPT !.at = e, !.got = scan.got \o Taken(h)]
      PROVE  /\ scan'.kind = scan.kind /\ scan'.range = scan.range /\ scan'.got = scan.got \o Taken(h)
             /\ scan'.pc = "read" /\ Held(h) # {} /\ scan'.at \in Onward(h) /\ ~stops
  <2>1. /\ scan'.kind = scan.kind /\ scan'.range = scan.range /\ scan'.got = scan.got \o Taken(h)
        /\ scan'.pc = "read" /\ scan'.at = e
    BY <1>1, <1>2, <1>5
  <2>2. e \in Onward(h) /\ ~stops
    BY <1>5
  <2>3. Held(h) # {}
    BY <2>2 DEF Onward, Greatest, Least
  <2> QED
    BY <2>1, <2>2, <2>3
<1> QED
  BY <1>2, <1>3, <1>4, <1>5 DEF stops

-----------------------------------------------------------------------------
(* One page of a query.                                                     *)

LEMMA ScanNumbers ==
    ASSUME ScanType
    PROVE  /\ scan.range \in Nat \X Nat /\ scan.range[1] \in Nat /\ scan.range[2] \in Nat
           /\ \A k \in Keys : k \in Nat /\ before.recs[k] \in Nat
           /\ \A r \in Results : r \in Records /\ r[1] \in Keys /\ r[1] \in Nat /\ r[2] \in Nat
           /\ scan.kind \in ScanKinds /\ Expected \in SUBSET Keys
<1>1. scan.range \in Nat \X Nat /\ scan.kind \in ScanKinds /\ scan.got \in Seq(Records)
  BY DEF ScanType, Scans
<1>2. before.recs \in [Keys -> 0 .. MaxVer]
  BY DEF ScanType, Befores
<1>3. \A k \in Keys : k \in Nat /\ before.recs[k] \in Nat
  BY <1>2, EntryType, NormalPartAssumption
<1>4. \A r \in Results : r \in Records
  BY <1>1 DEF Results
<1>5. \A r \in Records : r[1] \in Keys /\ r[1] \in Nat /\ r[2] \in Nat
  <2>1. \A r \in Records : r[1] \in Keys /\ r[2] \in 0 .. MaxVer
    BY DEF Records
  <2>2. Keys \subseteq Nat /\ 0 .. MaxVer \subseteq Nat
    BY NormalPartAssumption
  <2> QED
    BY <2>1, <2>2
<1> QED
  BY <1>1, <1>3, <1>4, <1>5 DEF Expected

\* A page that is read.
LEMMA ReadTypes ==
    ASSUME IInv, Filled, ScanType, scan.at \in index, ReadPage, NEW h, h = Page(scan.at.no)
    PROVE  /\ ScanType' /\ h \in Header /\ h.recs \in [Keys -> 0 .. MaxVer]
           /\ scan.at.no \in PageNos /\ scan.at.ts \in Nat
<1>1. scan.at \in Entries /\ scan.at.no \in PageNos /\ scan.at.ts \in Nat
  BY Indexed0
<1>2. h \in Header
  BY <1>1, PageType DEF IInv
<1>3. h.recs \in [Keys -> 0 .. MaxVer]
  BY <1>2 DEF Header
<1>4. Taken(h) \in Seq(Records)
  BY <1>3, TakenIs
<1>5. scan.got \in Seq(Records) /\ scan.got \o Taken(h) \in Seq(Records)
  <2>1. scan.got \in Seq(Records)
    BY DEF ScanType, Scans
  <2> QED
    BY <1>4, <2>1
<1>6. before' = before
  BY DEF ReadPage
<1>7. \/ scan' = [scan EXCEPT !.pc = "done"]
      \/ \E pc \in {"failed", "done"} : scan' = [scan EXCEPT !.pc = pc, !.got = scan.got \o Taken(h)]
      \/ \E e \in Onward(h) : scan' = [scan EXCEPT !.at = e, !.got = scan.got \o Taken(h)]
  BY DEF ReadPage
<1>8. Onward(h) \subseteq Entries
  <2>1. Onward(h) \subseteq index
    BY DEF Onward, NextEntries, PrevEntries
  <2> QED
    BY <2>1, Indexed0
<1>9. scan' \in Scans
  <2>1. scan \in Scans
    BY DEF ScanType
  <2> DEFINE g == scan.got \o Taken(h)
  <2>2. g \in Seq(Records)
    BY <1>5
  <2> HIDE DEF g
  <2>3. [scan EXCEPT !.pc = "done"] \in Scans
    BY <2>1 DEF Scans
  <2>4. \A pc \in {"failed", "done"} : [scan EXCEPT !.pc = pc, !.got = g] \in Scans
    BY <2>1, <2>2 DEF Scans
  <2>5. \A e \in Entries : [scan EXCEPT !.at = e, !.got = g] \in Scans
    BY <2>1, <2>2 DEF Scans, Entries
  <2> QED
    BY <1>7, <1>8, <2>3, <2>4, <2>5 DEF g
<1>10. ScanType'
  BY <1>6, <1>9 DEF ScanType
<1> QED
  BY <1>1, <1>2, <1>3, <1>10

\* The order of what was returned and what is in the page.
LEMMA ReadAfter ==
    ASSUME IInv, Filled, ScanType, Going, NEW k \in Held(Page(scan.at.no)), NEW r \in Results
    PROVE  Precedes(r[1], k)
<1> DEFINE e == scan.at
<1>1. e \in index /\ k \in Keys /\ e \in Covering(index, k)
  BY PageHolds DEF Going
<1>2. e.ts <= k /\ \A f \in index : f.ts <= k => f.ts <= e.ts
  BY <1>1, CoverIs
<1>3. e.ts \in Nat /\ k \in Nat /\ r[1] \in Nat /\ \A f \in index : f.ts \in Nat
  BY <1>1, Indexed0, ScanNumbers
<1>4. CASE Ascends(scan.kind)
  <2>1. r[1] < e.ts
    BY <1>4 DEF Going, AscGoing
  <2> QED
    BY <1>2, <1>3, <1>4, <2>1 DEF Precedes
<1>5. CASE ~Ascends(scan.kind)
  <2>1. PICK f \in index : e.ts < f.ts /\ f.ts <= r[1]
    BY <1>5 DEF Going, DescGoing
  <2>2. k < f.ts
    BY <1>2, <1>3, <2>1
  <2>3. k < r[1]
    BY <1>3, <2>1, <2>2
  <2> QED
    BY <1>5, <2>3 DEF Precedes
<1> QED
  BY <1>4, <1>5

LEMMA ReadGot ==
    ASSUME IInv, Filled, ScanType, Ordered, Going, ReadPage, NEW h, h = Page(scan.at.no)
    PROVE  /\ Ordered'
           /\ AfterRange(scan.at) => Results' = Results
           /\ ~AfterRange(scan.at) => Results' = Results \cup {<<k, latest[k]>> : k \in TakenKeys(h)}
           /\ TakenKeys(h) \in SUBSET Held(h)
           /\ Taken(h) = <<>> <=> TakenKeys(h) = {}
<1>1. scan.at \in index
  BY DEF Going
<1>2. h.recs \in [Keys -> 0 .. MaxVer]
  BY <1>1, ReadTypes
<1>3. /\ TakenKeys(h) \in SUBSET Held(h) /\ Taken(h) \in Seq(Records)
      /\ {Taken(h)[i] : i \in 1 .. Len(Taken(h))} = {<<k, h.recs[k]>> : k \in TakenKeys(h)}
  BY <1>2, TakenIs
<1>4. Taken(h) = <<>> <=> TakenKeys(h) = {}
  <2> DEFINE t == Taken(h)
  <2>1. t = <<>> <=> 1 .. Len(t) = {}
    BY <1>3
  <2>2. 1 .. Len(t) = {} <=> {t[i] : i \in 1 .. Len(t)} = {}
    OBVIOUS
  <2>3. TakenKeys(h) = {} <=> {<<k, h.recs[k]>> : k \in TakenKeys(h)} = {}
    OBVIOUS
  <2> QED
    BY <1>3, <2>1, <2>2, <2>3
<1>5. scan'.kind = scan.kind
  BY ReadForms
<1>6. CASE AfterRange(scan.at)
  <2>1. scan'.got = scan.got
    BY <1>6, ReadForms
  <2>2. Results' = Results
    BY <2>1 DEF Results
  <2>3. Ordered'
    BY <1>5, <2>1 DEF Ordered, Precedes, Ascends
  <2> QED
    BY <1>3, <1>4, <1>6, <2>2, <2>3
<1>7. CASE ~AfterRange(scan.at)
  <2>1. scan'.got = scan.got \o Taken(h)
    BY <1>7, ReadForms
  <2>2. \A r \in Results : \A k \in TakenKeys(h) : Precedes(r[1], k)
    BY <1>3, ReadAfter
  <2>3. Results' = Results \cup {<<k, h.recs[k]>> : k \in TakenKeys(h)}
    BY <1>2, <1>5, <2>1, <2>2, GotGrows, ZenonT(30)
  <2>6. Ordered'
    BY <1>2, <1>5, <2>1, <2>2, GotGrows, ZenonT(30)
  <2>4. \A k \in TakenKeys(h) : h.recs[k] = latest[k]
    BY <1>1, <1>3, PageHolds
  <2>5. {<<k, h.recs[k]>> : k \in TakenKeys(h)} = {<<k, latest[k]>> : k \in TakenKeys(h)}
    BY <2>4
  <2> QED
    BY <1>3, <1>4, <1>7, <2>3, <2>5, <2>6
<1> QED
  BY <1>6, <1>7

\* The keys an entry covers reach to the next one.
LEMMA Between ==
    ASSUME IInv, Filled, NEW e \in index, NEW f \in index, Above(e, f), NEW k \in Keys
    PROVE  e \in Covering(index, k) <=> e.ts <= k /\ k < f.ts
<1>1. e.ts \in Nat /\ f.ts \in Nat /\ k \in Nat /\ \A g \in index : g.ts \in Nat
  BY Indexed0
<1>2. e \in Covering(index, k) <=> e.ts <= k /\ \A g \in index : g.ts <= k => g.ts <= e.ts
  BY CoverIs
<1>3. e.ts < f.ts /\ \A g \in index : e.ts < g.ts => f.ts <= g.ts
  BY DEF Above
<1>4. ASSUME e.ts <= k, \A g \in index : g.ts <= k => g.ts <= e.ts PROVE k < f.ts
  BY <1>1, <1>3, <1>4
<1>5. ASSUME e.ts <= k, k < f.ts, NEW g \in index, g.ts <= k PROVE g.ts <= e.ts
  BY <1>1, <1>3, <1>5
<1> QED
  BY <1>2, <1>4, <1>5

\* What the query looks for in the page.
LEMMA Looked ==
    ASSUME IInv, Filled, ScanType, Known, NEW e \in index, NEW k \in Keys,
           before.recs[k] # 0, e \in Covering(index, k)
    PROVE  k \in Held(Page(e.no)) /\ before.recs[k] <= latest[k]
<1>1. before.recs[k] \in Nat /\ latest[k] \in Nat
  BY ScanNumbers, Indexed0
<1>2. before.recs[k] <= latest[k]
  BY DEF Known
<1>3. latest[k] # 0
  BY <1>1, <1>2
<1> QED
  BY <1>2, <1>3, PageHolds

LEMMA SomeTaken ==
    ASSUME NEW h, h.recs \in [Keys -> 0 .. MaxVer],
           NEW S \in SUBSET Held(h), S # {}
    PROVE  Least(S) # {} /\ Greatest(S) # {}
<1>1. S \in SUBSET Keys /\ S \in SUBSET Nat
  BY KeysFinite DEF Held
<1>2. \E n \in S : \A m \in S : n <= m
  BY <1>1, SomeLeast
<1>3. \E n \in S : \A m \in S : m <= n
  BY <1>1, SomeGreatest
<1> QED
  BY <1>2, <1>3 DEF Least, Greatest

\* What does not change when a page is read.
LEMMA ReadSame ==
    ASSUME ScanType, ReadPage
    PROVE  /\ Expected' = Expected /\ (Known' <=> Known)
           /\ \A c, k : (c \in Covering(index, k))' <=> c \in Covering(index, k)
           /\ \A k : Results \subseteq Results' /\ Returned(k) => Returned(k)'
<1>1. /\ scan'.range = scan.range /\ before' = before /\ index' = index /\ latest' = latest
  BY ReadForms
<1>2. Expected' = Expected
  BY <1>1 DEF Expected
<1>3. Known' <=> Known
  BY <1>1 DEF Known
<1>4. \A c, k : (c \in Covering(index, k))' <=> c \in Covering(index, k)
  BY <1>1
<1>5. \A k : Results \subseteq Results' /\ Returned(k) => Returned(k)'
  BY <1>1 DEF Returned
<1> QED
  BY <1>2, <1>3, <1>4, <1>5

-----------------------------------------------------------------------------
(* What each kind of query has returned after a page.                       *)

\* The forms of a read page that an ascending query may find.
LEMMA ReadFacts ==
    ASSUME IInv, Filled, ScanType, Ordered, Going, Known, ReadPage, NEW h, h = Page(scan.at.no)
    PROVE  /\ scan.at \in index /\ scan.at.ts \in Nat /\ scan.range \in Nat \X Nat
           /\ \A k \in Keys : k \in Nat
           /\ \A k \in Expected : k \in Keys /\ before.recs[k] # 0 /\ scan.range[1] <= k /\ k <= scan.range[2]
           /\ \A k \in Held(h) : k \in Keys /\ scan.at \in Covering(index, k)
           /\ \A k \in Expected : scan.at \in Covering(index, k) => k \in Held(h) /\ before.recs[k] <= latest[k]
           /\ \A f \in index : f.ts \in Nat
           /\ scan.range[1] \in Nat /\ scan.range[2] \in Nat
           /\ \A r \in Results : r[1] \in Nat
           /\ Results \subseteq Results' /\ \A k : Returned(k) => Returned(k)'
<1>1. scan.at \in index
  BY DEF Going
<1>2. \A k \in Expected : k \in Keys /\ before.recs[k] # 0 /\ scan.range[1] <= k /\ k <= scan.range[2]
  BY DEF Expected
<1>3. \A k \in Held(h) : k \in Keys /\ scan.at \in Covering(index, k)
  BY <1>1, PageHolds
<1>4. \A k \in Expected : scan.at \in Covering(index, k) => k \in Held(h) /\ before.recs[k] <= latest[k]
  BY <1>1, <1>2, Looked
<1>5. (\A f \in index : f.ts \in Nat) /\ \A k \in Keys : k \in Nat
  BY Indexed0
<1>6. /\ scan.range \in Nat \X Nat /\ scan.range[1] \in Nat /\ scan.range[2] \in Nat
      /\ \A r \in Results : r[1] \in Nat
  BY ScanNumbers
<1>7. Results \subseteq Results'
  BY ReadGot
<1>8. \A k : Returned(k) => Returned(k)'
  BY <1>7, ReadSame
<1> QED
  BY <1>1, <1>2, <1>3, <1>4, <1>5, <1>6, <1>7, <1>8

\* "asc": all records up to the page it goes on with.
LEMMA ReadAsc ==
    ASSUME IInv, Filled, ScanType, Ordered, Going, Known, ReadPage, scan.kind = "asc"
    PROVE  /\ scan'.pc = "done" => \A k \in Expected : Returned(k)'
           /\ scan'.pc = "read" => \A k \in Expected : k < scan'.at.ts => Returned(k)'
<1> DEFINE e == scan.at
           h == Page(scan.at.no)
<1>1. /\ e \in index /\ e.ts \in Nat /\ scan.range \in Nat \X Nat
      /\ \A k \in Keys : k \in Nat
      /\ \A k \in Expected : k \in Keys /\ scan.range[1] <= k /\ k <= scan.range[2]
      /\ \A k \in Expected : e \in Covering(index, k) => k \in Held(h) /\ before.recs[k] <= latest[k]
      /\ \A f \in index : f.ts \in Nat
      /\ scan.range[1] \in Nat /\ scan.range[2] \in Nat
  BY ReadFacts
<1>2. Ascends(scan.kind) /\ ~Ends(scan.kind)
  BY DEF Ascends, Ends
<1>3. \A k \in Expected : k < e.ts => Returned(k)'
  <2>1. \A k \in Expected : k < e.ts => Returned(k)
    BY <1>2 DEF Going, AscGoing
  <2> QED
    BY <2>1, ReadFacts
<1>4. CASE AfterRange(e)
  <2>1. e.ts > scan.range[2]
    BY <1>4, <1>2 DEF AfterRange
  <2>2. \A k \in Expected : k < e.ts
    BY <1>1, <2>1
  <2>3. scan'.pc # "read"
    BY <1>4, ReadForms
  <2> QED
    BY <1>3, <2>2, <2>3
<1>5. CASE ~AfterRange(e)
  <2>1. Results' = Results \cup {<<k, latest[k]>> : k \in TakenKeys(h)}
    BY <1>5, ReadGot
  <2>2. TakenKeys(h) = {k \in Held(h) : scan.range[1] <= k /\ k <= scan.range[2]}
    BY DEF TakenKeys
  <2>3. ASSUME NEW k \in Expected, e \in Covering(index, k)
        PROVE  Returned(k)'
    <3>1. k \in TakenKeys(h) /\ before.recs[k] <= latest[k]
      BY <1>1, <2>2, <2>3
    <3>2. <<k, latest[k]>> \in Results'
      BY <2>1, <3>1
    <3>3. before' = before
      BY ReadForms
    <3> QED
      BY <3>1, <3>2, <3>3 DEF Returned
  <2>4. ASSUME scan'.pc = "done"
        PROVE  \A k \in Expected : Returned(k)'
    <3>1. Held(h) # {} /\ Onward(h) = {}
      BY <1>2, <1>5, <2>4, ReadForms
    <3>2. \A k \in Keys : e.ts <= k /\ k <= scan.range[2] => e \in Covering(index, k)
      BY <1>1, <1>2, <3>1, OnwardAsc
    <3>3. \A k \in Expected : k < e.ts \/ e \in Covering(index, k)
      BY <1>1, <3>2
    <3> QED
      BY <1>3, <2>3, <3>3
  <2>5. ASSUME scan'.pc = "read"
        PROVE  \A k \in Expected : k < scan'.at.ts => Returned(k)'
    <3>1. Held(h) # {} /\ scan'.at \in Onward(h)
      BY <1>2, <1>5, <2>5, ReadForms
    <3>2. scan'.at \in index /\ Above(e, scan'.at)
      BY <1>1, <1>2, <3>1, OnwardAsc
    <3>3. \A k \in Expected : k < scan'.at.ts => k < e.ts \/ e \in Covering(index, k)
      BY <1>1, <3>2, Between
    <3> QED
      BY <1>3, <2>3, <3>3
  <2> QED
    BY <2>4, <2>5
<1> QED
  BY <1>4, <1>5

\* "first": the first record, and until then nothing.
LEMMA ReadFirst ==
    ASSUME IInv, Filled, ScanType, Ordered, Going, Known, ReadPage, scan.kind = "first"
    PROVE  /\ scan'.pc = "done" => \A k \in Expected : \E r \in Results' : r[1] <= k
           /\ scan'.pc = "read" =>
                 scan'.got = <<>> /\ \A k \in Expected : scan'.at.ts <= k
<1> DEFINE e == scan.at
           h == Page(scan.at.no)
           I == {k \in Held(h) : scan.range[1] <= k /\ k <= scan.range[2]}
<1>1. /\ e \in index /\ e.ts \in Nat /\ scan.range \in Nat \X Nat
      /\ \A k \in Keys : k \in Nat
      /\ \A k \in Expected : k \in Keys /\ scan.range[1] <= k /\ k <= scan.range[2]
      /\ \A k \in Held(h) : k \in Keys /\ scan.at \in Covering(index, k)
      /\ \A k \in Expected : e \in Covering(index, k) => k \in Held(h)
      /\ \A f \in index : f.ts \in Nat
      /\ scan.range[1] \in Nat /\ scan.range[2] \in Nat
  BY ReadFacts
<1>2. Ascends(scan.kind) /\ Ends(scan.kind) /\ scan.kind # "snapshot"
  BY DEF Ascends, Ends
<1>3. scan.got = <<>> /\ \A k \in Expected : e.ts <= k
  BY <1>2 DEF Going, AscGoing
<1>4. CASE AfterRange(e)
  <2>1. e.ts > scan.range[2]
    BY <1>4, <1>2 DEF AfterRange
  <2>2. \A k \in Expected : FALSE
    BY <1>1, <1>3, <2>1
  <2>3. scan'.pc # "read"
    BY <1>4, ReadForms
  <2> QED
    BY <2>2, <2>3
<1>5. CASE ~AfterRange(e)
  <2>1. /\ Results' = Results \cup {<<k, latest[k]>> : k \in TakenKeys(h)}
        /\ Taken(h) = <<>> <=> TakenKeys(h) = {}
    BY <1>5, ReadGot
  <2>2. TakenKeys(h) = Least(I)
    BY DEF TakenKeys
  <2>3. \A k \in Expected : e \in Covering(index, k) => k \in I
    BY <1>1
  <2>4. I \in SUBSET Held(h)
    OBVIOUS
  <2>5. TakenKeys(h) = {} => I = {}
    <3>1. h.recs \in [Keys -> 0 .. MaxVer]
      BY <1>1, ReadTypes
    <3> HIDE DEF I, h
    <3> QED
      BY <2>2, <2>4, <3>1, SomeTaken
  <2>6. ASSUME TakenKeys(h) # {}
        PROVE  \A k \in Expected : \E r \in Results' : r[1] <= k
    <3>1. PICK m \in I : \A j \in I : m <= j
      BY <2>2, <2>6 DEF Least
    <3>2. <<m, latest[m]>> \in Results'
      BY <2>1, <2>2, <3>1 DEF Least
    <3>3. m \in Keys /\ m \in Nat /\ e \in Covering(index, m)
      BY <1>1, <3>1
    <3>4. ASSUME NEW k \in Expected PROVE m <= k
      <4>1. k \in Keys /\ k \in Nat /\ e.ts <= k
        BY <1>1, <1>3
      <4>2. CASE e \in Covering(index, k)
        BY <2>3, <3>1, <4>2
      <4>3. CASE e \notin Covering(index, k)
        <5>1. PICK g \in index : g.ts <= k /\ ~(g.ts <= e.ts)
          BY <1>1, <4>1, <4>3, CoverIs
        <5>2. ~(g.ts <= m)
          BY <3>3, <5>1, <1>1, CoverIs
        <5> QED
          BY <1>1, <3>3, <4>1, <5>1, <5>2
      <4> QED
        BY <4>2, <4>3
    <3> QED
      BY <3>2, <3>4
  <2>7. ASSUME scan'.pc = "done", TakenKeys(h) = {}
        PROVE  \A k \in Expected : FALSE
    <3>1. Held(h) # {} /\ Onward(h) = {}
      BY <1>2, <1>5, <2>1, <2>7, ReadForms
    <3>2. \A k \in Keys : e.ts <= k /\ k <= scan.range[2] => e \in Covering(index, k)
      BY <1>1, <1>2, <3>1, OnwardAsc
    <3> QED
      BY <1>1, <1>3, <2>3, <2>5, <2>7, <3>2
  <2>8. ASSUME scan'.pc = "read"
        PROVE  scan'.got = <<>> /\ \A k \in Expected : scan'.at.ts <= k
    <3>1. Held(h) # {} /\ scan'.at \in Onward(h) /\ Taken(h) = <<>> /\ scan'.got = scan.got \o Taken(h)
      BY <1>2, <1>5, <2>8, ReadForms
    <3>2. scan'.at \in index /\ Above(e, scan'.at)
      BY <1>1, <1>2, <3>1, OnwardAsc
    <3>3. \A k \in Expected : ~(k < scan'.at.ts)
      BY <1>1, <1>3, <2>1, <2>3, <2>5, <3>1, <3>2, Between
    <3>4. \A k \in Expected : scan'.at.ts <= k
      BY <1>1, <3>2, <3>3
    <3>5. scan'.got = <<>>
      BY <1>3, <3>1
    <3> QED
      BY <3>4, <3>5
  <2> QED
    BY <2>6, <2>7, <2>8
<1> QED
  BY <1>4, <1>5

\* "desc": all records from the page it goes on with, unless they have a new page.
LEMMA ReadBackwards ==
    ASSUME IInv, Filled, ScanType, Ordered, Going, Known, ReadPage, scan.kind = "desc"
    PROVE  /\ scan'.pc = "done" =>
                 \A k \in Expected : \A c \in Covering(index, k) : c \in before.index => Returned(k)'
           /\ scan'.pc = "read" =>
                 \A k \in Expected : \A c \in Covering(index, k) :
                     c \in before.index /\ scan'.at.ts < c.ts => Returned(k)'
<1> DEFINE e == scan.at
           h == Page(scan.at.no)
<1>1. /\ e \in index /\ e.ts \in Nat /\ scan.range \in Nat \X Nat
      /\ \A k \in Keys : k \in Nat
      /\ \A k \in Expected : k \in Keys /\ scan.range[1] <= k /\ k <= scan.range[2]
      /\ \A k \in Expected : e \in Covering(index, k) => k \in Held(h) /\ before.recs[k] <= latest[k]
      /\ \A f \in index : f.ts \in Nat
      /\ scan.range[1] \in Nat /\ scan.range[2] \in Nat
  BY ReadFacts
<1>2. ~Ascends(scan.kind) /\ ~Ends(scan.kind) /\ ~AfterRange(e)
  BY DEF Ascends, Ends, AfterRange
<1>3. \A k \in Expected : \A c \in Covering(index, k) :
          c \in before.index /\ e.ts < c.ts => Returned(k)'
  <2>1. \A k \in Expected : \A c \in Covering(index, k) :
          c \in before.index /\ e.ts < c.ts => Returned(k)
    BY <1>2 DEF Going, DescGoing
  <2> QED
    BY <2>1, ReadFacts
<1>4. Results' = Results \cup {<<k, latest[k]>> : k \in TakenKeys(h)}
  BY <1>2, ReadGot
<1>5. TakenKeys(h) = {k \in Held(h) : scan.range[1] <= k /\ k <= scan.range[2]}
  BY DEF TakenKeys
<1>6. ASSUME NEW k \in Expected, e \in Covering(index, k)
      PROVE  Returned(k)'
  <2>1. k \in TakenKeys(h) /\ before.recs[k] <= latest[k]
    BY <1>1, <1>5, <1>6
  <2>2. <<k, latest[k]>> \in Results'
    BY <1>4, <2>1
  <2>3. before' = before
    BY ReadForms
  <2> QED
    BY <2>1, <2>2, <2>3 DEF Returned
<1>7. ASSUME NEW k \in Expected, NEW c \in Covering(index, k), e.ts <= c.ts, c \in before.index
      PROVE  Returned(k)'
  <2>1. c \in index /\ c.ts \in Nat
    BY <1>1, CoverIs
  <2>2. CASE e.ts < c.ts
    BY <1>3, <1>7, <2>2
  <2>3. CASE e.ts = c.ts
    <3>1. e = c
      BY <1>1, <2>1, <2>3, Indexed0 DEF Distinct
    <3> QED
      BY <1>6, <1>7, <3>1
  <2> QED
    BY <1>1, <1>7, <2>1, <2>2, <2>3
<1>8. ASSUME scan'.pc = "done"
      PROVE  \A k \in Expected : \A c \in Covering(index, k) : c \in before.index => Returned(k)'
  <2>1. Held(h) # {} /\ Onward(h) = {}
    BY <1>2, <1>8, ReadForms
  <2>2. \A k \in Keys : scan.range[1] <= k => \A c \in Covering(index, k) : e.ts <= c.ts
    BY <1>1, <1>2, <2>1, OnwardDesc
  <2> QED
    BY <1>1, <1>7, <2>2
<1>9. ASSUME scan'.pc = "read"
      PROVE  \A k \in Expected : \A c \in Covering(index, k) :
                 c \in before.index /\ scan'.at.ts < c.ts => Returned(k)'
  <2>1. Held(h) # {} /\ scan'.at \in Onward(h)
    BY <1>2, <1>9, ReadForms
  <2>2. scan'.at \in index /\ Below(e, scan'.at)
    BY <1>1, <1>2, <2>1, OnwardDesc
  <2>3. \A k \in Expected : \A c \in Covering(index, k) : scan'.at.ts < c.ts => e.ts <= c.ts
    BY <1>1, <2>2, CoverIs DEF Below
  <2> QED
    BY <1>7, <2>3
<1> QED
  BY <1>8, <1>9

\* "snapshot": the last record of the last page there was.
LEMMA ReadSnapshot ==
    ASSUME IInv, Filled, ScanType, Ordered, Going, Known, ReadPage, scan.kind = "snapshot"
    PROVE  /\ scan'.pc # "read"
           /\ scan'.pc = "done" /\ Used =>
                 \A k \in Keys : \A c \in Covering(index, k) :
                     before.recs[k] # 0 /\ c \in before.index => \E r \in Results' : k <= r[1]
<1> DEFINE e == scan.at
           h == Page(scan.at.no)
<1>1. /\ e \in index /\ e.ts \in Nat /\ \A k \in Keys : k \in Nat
      /\ \A k \in Held(h) : k \in Keys /\ e \in Covering(index, k)
      /\ \A f \in index : f.ts \in Nat
  BY ReadFacts
<1>2. ~Ascends(scan.kind) /\ Ends(scan.kind) /\ ~AfterRange(e)
  BY DEF Ascends, Ends, AfterRange
<1>3. e \in before.index /\ IsLast(before.index, e)
  BY <1>2 DEF Going, DescGoing
<1>4. Results' = Results \cup {<<k, latest[k]>> : k \in TakenKeys(h)}
  BY <1>2, ReadGot
<1>5. TakenKeys(h) = Greatest(Held(h))
  BY DEF TakenKeys
<1>6. scan'.pc # "read"
  BY <1>2, ReadForms
<1>7. ASSUME Used, NEW k \in Keys, NEW c \in Covering(index, k), before.recs[k] # 0, c \in before.index
      PROVE  \E r \in Results' : k <= r[1]
  <2>1. Held(h) # {}
    BY <1>1, <1>7, PageHolds DEF Used
  <2>2. h.recs \in [Keys -> 0 .. MaxVer]
    BY <1>1, ReadTypes
  <2>3. Greatest(Held(h)) # {}
    <3> HIDE DEF h
    <3> QED
      BY <2>1, <2>2, SomeTaken
  <2>4. PICK m \in Held(h) : \A j \in Held(h) : j <= m
    BY <2>3 DEF Greatest
  <2>5. m \in TakenKeys(h)
    BY <1>5, <2>4 DEF Greatest
  <2>6. <<m, latest[m]>> \in Results'
    BY <1>4, <2>5
  <2>7. c \in index /\ c.ts <= e.ts
    BY <1>3, <1>7, CoverIs DEF IsLast
  <2>8. CASE c.ts = e.ts
    <3>1. c = e
      BY <1>1, <2>7, <2>8, Indexed0 DEF Distinct
    <3>2. k \in Held(h)
      BY <1>1, <1>7, <3>1, Looked
    <3> QED
      BY <2>4, <2>6, <3>2
  <2>9. CASE c.ts # e.ts
    <3>1. ~(e.ts <= k)
      BY <1>1, <1>7, <2>7, <2>9, CoverIs
    <3>2. e.ts <= m
      BY <1>1, <2>4, CoverIs
    <3>3. k <= m
      BY <1>1, <2>4, <3>1, <3>2
    <3> QED
      BY <2>6, <3>3
  <2> QED
    BY <2>8, <2>9
<1> QED
  BY <1>6, <1>7

\* A page of a query that goes backwards, and of one that goes forwards.
LEMMA ReadOn ==
    ASSUME IInv, Filled, ScanType, Ordered, Going, Known, ReadPage, scan'.pc = "read"
    PROVE  /\ scan'.at \in index
           /\ Ascends(scan.kind) => \A r \in Results' : r[1] < scan'.at.ts
           /\ ~Ascends(scan.kind) =>
                 \A r \in Results' : \E f \in index : scan'.at.ts < f.ts /\ f.ts <= r[1]
<1> DEFINE e == scan.at
           h == Page(scan.at.no)
           f == scan'.at
<1>1. /\ e \in index /\ e.ts \in Nat /\ scan.range \in Nat \X Nat
      /\ \A k \in Keys : k \in Nat
      /\ \A k \in Held(h) : k \in Keys /\ e \in Covering(index, k)
      /\ \A g \in index : g.ts \in Nat
      /\ \A r \in Results : r[1] \in Nat
  BY ReadFacts
<1>2. ~AfterRange(e) /\ Held(h) # {} /\ f \in Onward(h)
  BY ReadForms
<1>3. /\ Results' = Results \cup {<<k, latest[k]>> : k \in TakenKeys(h)}
      /\ TakenKeys(h) \in SUBSET Held(h)
  BY <1>2, ReadGot
<1>4. ASSUME NEW r \in Results' PROVE r \in Results \/ \E k \in Held(h) : r[1] = k
  BY <1>3
<1>5. CASE Ascends(scan.kind)
  <2>1. f \in index /\ Above(e, f)
    BY <1>1, <1>2, <1>5, OnwardAsc
  <2>2. \A r \in Results : r[1] < e.ts
    BY <1>5 DEF Going, AscGoing
  <2>3. \A k \in Held(h) : k < f.ts
    BY <1>1, <2>1, Between
  <2>4. e.ts < f.ts
    BY <2>1 DEF Above
  <2>5. \A r \in Results : r[1] < f.ts
    BY <1>1, <2>1, <2>2, <2>4
  <2> QED
    BY <1>4, <1>5, <2>1, <2>3, <2>5
<1>6. CASE ~Ascends(scan.kind)
  <2>1. f \in index /\ Below(e, f)
    BY <1>1, <1>2, <1>6, OnwardDesc
  <2>2. \A r \in Results : \E g \in index : e.ts < g.ts /\ g.ts <= r[1]
    BY <1>6 DEF Going, DescGoing
  <2>3. \A k \in Held(h) : e.ts <= k
    BY <1>1, CoverIs
  <2>4. f.ts < e.ts
    BY <2>1 DEF Below
  <2>5. \A r \in Results : \E g \in index : f.ts < g.ts /\ g.ts <= r[1]
    BY <1>1, <2>1, <2>2, <2>4
  <2>6. \A k \in Held(h) : \E g \in index : f.ts < g.ts /\ g.ts <= k
    BY <1>1, <2>3, <2>4
  <2> QED
    BY <1>4, <1>6, <2>1, <2>5, <2>6
<1> QED
  BY <1>5, <1>6

\* A page that is read keeps what is known of the query.
LEMMA ReadKnown ==
    ASSUME IInv, LInv, fails = 0 => NInv, ScanType, QInv, damaged = {}, ReadPage
    PROVE  ScanType' /\ QInv'
<1> DEFINE h == Page(scan.at.no)
<1>1. /\ scan.pc = "read" /\ scan'.kind = scan.kind /\ scan'.range = scan.range
      /\ UNCHANGED <<before, index, latest, fails, damaged, sync>>
  BY ReadForms
<1>2. Ordered /\ Known /\ Going /\ sync.pc # "redo"
  BY <1>1 DEF QInv
<1>3. Filled
  BY <1>2 DEF LInv
<1>4. scan.at \in index
  BY <1>2 DEF Going
<1>5. ScanType' /\ Ordered'
  BY <1>2, <1>3, <1>4, ReadTypes, ReadGot
<1>6. Expected' = Expected /\ Known'
  BY <1>2, ReadSame
<1>7. \A k : Covering(index, k)' = Covering(index, k)
  BY <1>1
<1>8. fails = 0 => Used
  BY <1>2 DEF NInv
<1>9. scan.kind \in ScanKinds /\ scan.kind \in {"asc", "first"} <=> Ascends(scan.kind)
  BY ScanNumbers DEF Ascends
<1>10. Ascends(scan'.kind) <=> Ascends(scan.kind)
  BY <1>1 DEF Ascends
<1>11. ASSUME scan'.pc = "done" PROVE Done'
  <2>1. scan'.kind = "asc" => \A k \in Expected' : Returned(k)'
    BY <1>1, <1>2, <1>3, <1>6, <1>11, ReadAsc
  <2>2. scan'.kind = "first" => \A k \in Expected' : \E r \in Results' : r[1] <= k
    BY <1>1, <1>2, <1>3, <1>6, <1>11, ReadFirst
  <2>3. scan'.kind = "desc" =>
          \A k \in Expected' : \A c \in Covering(index, k)' : c \in before'.index => Returned(k)'
    BY <1>1, <1>2, <1>3, <1>6, <1>7, <1>11, ReadBackwards
  <2>4. scan'.kind = "snapshot" /\ fails' = 0 =>
          \A k \in Keys : \A c \in Covering(index, k)' :
              before'.recs[k] # 0 /\ c \in before'.index => \E r \in Results' : k <= r[1]
    BY <1>1, <1>2, <1>3, <1>7, <1>8, <1>11, ReadSnapshot
  <2> QED
    BY <2>1, <2>2, <2>3, <2>4 DEF Done
<1>12. ASSUME scan'.pc = "read" PROVE Going'
  <2>1. /\ scan'.at \in index'
        /\ Ascends(scan.kind) => \A r \in Results' : r[1] < scan'.at.ts
        /\ ~Ascends(scan.kind) =>
              \A r \in Results' : \E f \in index' : scan'.at.ts < f.ts /\ f.ts <= r[1]
    BY <1>1, <1>2, <1>3, <1>12, ReadOn
  <2>2. scan'.kind = "asc" => \A k \in Expected' : k < scan'.at.ts => Returned(k)'
    BY <1>1, <1>2, <1>3, <1>6, <1>12, ReadAsc
  <2>3. scan'.kind = "first" => scan'.got = <<>> /\ \A k \in Expected' : scan'.at.ts <= k
    BY <1>1, <1>2, <1>3, <1>6, <1>12, ReadFirst
  <2>4. scan'.kind = "desc" =>
          \A k \in Expected' : \A c \in Covering(index, k)' :
              c \in before'.index /\ scan'.at.ts < c.ts => Returned(k)'
    BY <1>1, <1>2, <1>3, <1>6, <1>7, <1>12, ReadBackwards
  <2>5. scan'.kind # "snapshot"
    BY <1>1, <1>2, <1>3, <1>12, ReadSnapshot
  <2>6. Ascends(scan'.kind) => AscGoing'
    BY <1>10, <2>1, <2>2, <2>3 DEF AscGoing
  <2>7. ~Ascends(scan'.kind) => DescGoing'
    BY <1>10, <2>1, <2>4, <2>5 DEF DescGoing
  <2> QED
    BY <2>1, <2>6, <2>7 DEF Going
<1>13. sync'.pc # "redo"
  BY <1>1, <1>2
<1> QED
  BY <1>5, <1>6, <1>11, <1>12, <1>13 DEF QInv

-----------------------------------------------------------------------------
(* A query begins.                                                          *)

\* A query begins with the page of the end of its range.
LEMMA BeginKnown ==
    ASSUME IInv, LInv, ScanType, QInv, damaged = {},
           NEW kind \in Kinds, NEW range \in Ranges, Begin(kind, range)
    PROVE  ScanType' /\ QInv'
<1>1. /\ sync.pc # "redo" /\ scan.pc = "none"
      /\ UNCHANGED <<index, latest, fails, damaged, sync>>
      /\ before' = [recs |-> latest, index |-> IF kind \in {"desc", "snapshot"} THEN index ELSE {}]
      /\ \/ index = {} /\ scan' = [NoScan EXCEPT !.pc = "done", !.kind = kind, !.range = range]
         \/ \E e \in FirstEntries(kind, range) :
               scan' = [NoScan EXCEPT !.pc = "read", !.kind = kind, !.range = range, !.at = e]
  BY DEF Begin, vars, memVars, history
<1>2. Filled
  BY <1>1 DEF LInv
<1>3. /\ index \in SUBSET Entries /\ (index = {} \/ Zero(index))
      /\ \A e \in index : e.ts \in Nat /\ e.no \in PageNos
      /\ latest \in [Keys -> 0 .. MaxVer] /\ \A k \in Keys : k \in Nat /\ latest[k] \in Nat
  BY <1>2, Indexed0
<1>4. kind \in ScanKinds /\ range \in Nat \X Nat /\ range[1] \in Nat /\ range[2] \in Nat
  BY DeviceScanAssumption DEF ScanKinds
<1>5. FirstEntries(kind, range) \subseteq index
  BY DEF FirstEntries, Covering
<1>6. PICK pc \in {"read", "done"}, at \in Entries \cup {Entry(0, 1)} :
          /\ scan' = [pc |-> pc, kind |-> kind, range |-> range, at |-> at, got |-> <<>>]
          /\ pc = "done" => index = {}
          /\ pc = "read" => at \in FirstEntries(kind, range)
  <2>1. CASE index = {} /\ scan' = [NoScan EXCEPT !.pc = "done", !.kind = kind, !.range = range]
    BY <2>1 DEF NoScan
  <2>2. ASSUME NEW e \in FirstEntries(kind, range),
               scan' = [NoScan EXCEPT !.pc = "read", !.kind = kind, !.range = range, !.at = e]
        PROVE  /\ e \in Entries
               /\ scan' = [pc |-> "read", kind |-> kind, range |-> range, at |-> e, got |-> <<>>]
    BY <1>3, <1>5, <2>2 DEF NoScan
  <2> QED
    BY <1>1, <2>1, <2>2
<1>7. ScanType'
  <2>1. scan' \in Scans
    BY <1>4, <1>6 DEF Scans, Entry, Entries
  <2>2. before' \in Befores
    BY <1>1, <1>3 DEF Befores
  <2> QED
    BY <2>1, <2>2 DEF ScanType
<1>8. /\ scan'.pc = pc /\ scan'.kind = kind /\ scan'.range = range /\ scan'.at = at /\ scan'.got = <<>>
      /\ before'.recs = latest /\ before'.index = IF kind \in {"desc", "snapshot"} THEN index ELSE {}
  BY <1>1, <1>6
<1>9. Results' = {}
  BY <1>8 DEF Results
<1>10. Ordered'
  BY <1>8 DEF Ordered
<1>11. Known'
  <2>1. index' = index /\ latest' = latest
    BY <1>1
  <2>2. before'.index \subseteq index
    BY <1>8
  <2>3. \A k \in Keys : before'.recs[k] <= latest[k]
    BY <1>3, <1>8
  <2> QED
    BY <2>1, <2>2, <2>3 DEF Known
<1>12. Expected' = {k \in Keys : latest[k] # 0 /\ range[1] <= k /\ k <= range[2]}
  BY <1>8 DEF Expected
<1>13. ASSUME pc = "done" PROVE Done'
  <2>1. index = {} /\ latest = NoRecs
    BY <1>2, <1>6, <1>13 DEF Filled, Right
  <2>2. Expected' = {} /\ \A k \in Keys : latest[k] = 0
    BY <1>12, <2>1 DEF NoRecs
  <2> QED
    BY <1>8, <2>2 DEF Done
<1>14. ASSUME pc = "read" PROVE Going'
  <2>1. at \in FirstEntries(kind, range) /\ at \in index /\ Zero(index)
    BY <1>3, <1>5, <1>6, <1>14
  <2>2. \A t \in Nat : at \in Covering(index, t) =>
            at.ts <= t /\ \A f \in index : f.ts <= t => f.ts <= at.ts
    BY <1>3, <2>1 DEF Covering, Covers, Zero
  <2>3. CASE Ascends(kind)
    <3>1. at \in Covering(index, range[1])
      BY <2>1, <2>3 DEF FirstEntries, Ascends
    <3>2. at.ts <= range[1]
      BY <1>4, <2>2, <3>1
    <3>3. \A k \in Expected' : at.ts <= k
      BY <1>3, <1>4, <1>12, <2>1, <3>2
    <3>4. \A k \in Expected' : ~(k < at.ts)
      BY <1>3, <1>12, <2>1, <3>3
    <3>5. AscGoing'
      BY <1>8, <1>9, <3>3, <3>4 DEF AscGoing
    <3> QED
      BY <1>1, <1>8, <2>1, <2>3, <3>5 DEF Going, Ascends
  <2>4. CASE ~Ascends(kind)
    <3>1. ASSUME kind = "desc", NEW k \in Expected', NEW c \in Covering(index, k), at.ts < c.ts
          PROVE  FALSE
      <4>1. at \in Covering(index, range[2])
        BY <2>1, <3>1 DEF FirstEntries, Ascends
      <4>2. k \in Keys /\ k \in Nat /\ k <= range[2]
        BY <1>3, <1>12
      <4>3. c \in index /\ c.ts <= k
        BY <1>2, <4>2, CoverIs
      <4> QED
        BY <1>3, <1>4, <2>1, <2>2, <3>1, <4>1, <4>2, <4>3
    <3>2. ASSUME kind = "snapshot" PROVE at \in before'.index /\ IsLast(before'.index, at)
      <4> DEFINE L == {e \in index : IsLast(index, e)}
      <4>0. FirstEntries("snapshot", range) = L
        <5> HIDE DEF L
        <5>1. FirstEntries("snapshot", range) =
                  CASE "snapshot" = "snapshot" -> L
                    [] Ascends("snapshot") -> Covering(index, range[1])
                    [] OTHER -> Covering(index, range[2])
          BY DEF FirstEntries, L
        <5>2. ~Ascends("snapshot")
          BY DEF Ascends
        <5> QED
          BY <5>1, <5>2
      <4>1. FirstEntries("snapshot", range) = {e \in index : IsLast(index, e)}
        BY <4>0 DEF L
      <4>2. before'.index = index
        BY <1>8, <3>2
      <4>3. IsLast(index, at)
        BY <2>1, <3>2, <4>1
      <4>4. IsLast(before'.index, at)
        BY <4>2, <4>3
      <4> QED
        BY <2>1, <4>2, <4>4
    <3>3. \A k : Covering(index, k)' = Covering(index, k)
      BY <1>1
    <3>4. DescGoing'
      BY <1>8, <1>9, <3>1, <3>2, <3>3 DEF DescGoing
    <3> QED
      BY <1>1, <1>8, <2>1, <2>4, <3>4 DEF Going, Ascends
  <2> QED
    BY <2>3, <2>4
<1> QED
  BY <1>1, <1>6, <1>7, <1>8, <1>10, <1>11, <1>13, <1>14 DEF QInv

-----------------------------------------------------------------------------
(* The part goes on under a query.                                          *)

\* An open part gets more entries and newer values.
LEMMA OpenStep ==
    ASSUME IInv, Next, sync.pc # "redo", crashes' = crashes
    PROVE  /\ sync'.pc # "redo" /\ index \subseteq index' /\ (fails' = 0 => fails = 0)
           /\ \A k \in Keys : latest[k] <= latest'[k]
<1>1. /\ TypeOK /\ Control /\ crashes \in Nat /\ fails \in Nat
      /\ \A k \in Keys : latest[k] \in Nat /\ latest[k] <= latest[k]
  <2>1. latest \in [Keys -> 0 .. MaxVer] /\ MaxVer \in Nat
    BY NormalPartAssumption DEF IInv, TypeOK
  <2>2. crashes \in 0 .. MaxCrashes /\ fails \in 0 .. MaxFails /\ MaxCrashes \in Nat /\ MaxFails \in Nat
    BY NormalPartAssumption DEF IInv, TypeOK
  <2>3. \A k \in Keys : latest[k] \in Nat /\ latest[k] <= latest[k]
    BY <2>1
  <2> QED
    BY <2>2, <2>3 DEF IInv
<1>2. ASSUME NEW k \in Keys, InsertRec(k)
      PROVE  /\ sync' = sync /\ fails' = fails /\ index \subseteq index'
             /\ latest' = [latest EXCEPT ![k] = latest[k] + 1]
  BY <1>2 DEF InsertRec, InsertFirst, InsertInPage, InsertAfter, InsertSplit, Accept
<1>3. ASSUME NEW k \in Keys, latest' = [latest EXCEPT ![k] = latest[k] + 1], NEW j \in Keys
      PROVE  latest[j] <= latest'[j]
  <2>1. latest \in [Keys -> 0 .. MaxVer]
    BY <1>1 DEF TypeOK
  <2>2. latest'[j] = IF j = k THEN latest[k] + 1 ELSE latest[j]
    BY <1>3, <2>1
  <2> QED
    BY <1>1, <2>2
<1>4. ASSUME NEW p \in PageNos, Evict(p)
      PROVE  sync' = sync /\ fails' = fails /\ index' = index /\ latest' = latest
  BY <1>4 DEF Evict, history
<1>5. ASSUME NEW all \in BOOLEAN, Mark(all)
      PROVE  sync'.pc # "redo" /\ fails' = fails /\ index' = index /\ latest' = latest
  BY <1>1, <1>5, MarkStep DEF Mark, SyncStep
<1>6. CASE TakeSplit \/ TakeRest
  <2>1. sync.pc \in {"split", "rest"} /\ sync.vec = NoVec /\ sync.batch = <<>> /\ sync.at = 0
    BY <1>1, <1>6 DEF TakeSplit, TakeRest, Control
  <2>2. sync'.pc \in {"rest", "copy", "idle"}
    BY <1>6, <2>1, <1>1, TakeSplitStep, TakeRestStep
  <2>3. fails' = fails /\ index' = index /\ latest' = latest
    BY <1>6 DEF TakeSplit, TakeRest, SyncStep
  <2> QED
    BY <2>2, <2>3, <1>1
<1>7. ASSUME NEW p \in PageNos, CopyPage(p)
      PROVE  sync'.pc # "redo" /\ fails' = fails /\ index' = index /\ latest' = latest
  <2>1. sync.pc = "copy" /\ Len(sync.batch) < BatchSize
    BY <1>7, <1>1 DEF CopyPage, Control
  <2>2. sync'.pc \in {"dw", "copy"}
    BY <1>7, <2>1, <1>1, CopyPageStep
  <2> QED
    BY <1>7, <2>2 DEF CopyPage, SyncStep
<1>8. CASE WriteDw
  <2>1. sync'.pc = "data"
    BY <1>8, <1>1, WriteDwStep
  <2> QED
    BY <1>1, <1>8, <2>1 DEF WriteDw, SyncStep
<1>9. CASE WriteData
  <2>1. sync.pc = "data" /\ sync.at < Len(sync.batch)
    BY <1>9, <1>1 DEF WriteData, Control
  <2>2. sync'.pc \in {"data", "index"}
    BY <1>9, <2>1, <1>1, WriteDataStep
  <2> QED
    BY <1>1, <1>9, <2>2 DEF WriteData, SyncStep
<1>10. CASE WriteIdx \/ WriteIdxFails
  <2>1. sync'.pc # "redo"
    BY <1>10, <1>1, WriteIdxStep DEF Emptied
  <2>2. index' = index /\ latest' = latest /\ (fails' = fails \/ fails' = fails + 1)
    BY <1>10 DEF WriteIdx, WriteIdxFails, Fails, SyncStep
  <2> QED
    BY <1>1, <2>1, <2>2
<1>11. CASE WriteFails
  <2>1. sync'.pc # "redo"
    BY <1>11, <1>1, WriteFailsStep DEF Emptied, Control
  <2>2. index' = index /\ latest' = latest /\ fails' = fails + 1
    BY <1>11 DEF WriteFails, Fails, SyncStep
  <2> QED
    BY <1>1, <2>1, <2>2
<1>12. CASE Crash
  BY <1>1, <1>12 DEF Crash
<1>13. CASE Redo \/ EndRedo
  BY <1>13 DEF Redo, EndRedo
<1> QED
  BY <1>1, <1>2, <1>3, <1>4, <1>5, <1>6, <1>7, <1>8, <1>9, <1>10, <1>11, <1>12, <1>13 DEF Next

\* A step of the part keeps what is known of the query.
LEMMA PartKnown ==
    ASSUME IInv, ScanType, QInv, PartStep
    PROVE  ScanType' /\ QInv'
<1>1. Next /\ damaged = {}
  BY DEF PartStep, Next
<1>2. Ordered /\ (sync.pc = "redo" => scan.pc = "none")
  BY <1>1 DEF QInv
<1>3. CASE crashes' # crashes
  <2>1. scan' = NoScan /\ before' = NoBefore
    BY <1>3 DEF PartStep
  <2>2. NoScan \in Scans
    <3>1. Entry(0, 1) \in [ts : Keys \cup {0}, no : PageNos \cup {1}]
      BY DEF Entry
    <3>2. <<0, 0>> \in Nat \X Nat /\ <<>> \in Seq(Records)
      OBVIOUS
    <3> QED
      BY <3>1, <3>2 DEF NoScan, Scans, ScanKinds
  <2>3. NoBefore \in Befores
    BY NormalPartAssumption DEF NoBefore, Befores, NoRecs
  <2>4. scan'.pc = "none" /\ scan'.got = <<>>
    BY <2>1 DEF NoScan
  <2>5. Ordered'
    BY <2>4 DEF Ordered
  <2> QED
    BY <2>1, <2>2, <2>3, <2>4, <2>5 DEF ScanType, QInv
<1>4. CASE crashes' = crashes
  <2>1. scan' = scan /\ before' = before
    BY <1>4 DEF PartStep, scanVars
  <2>2. ScanType'
    BY <2>1 DEF ScanType
  <2>3. Ordered' /\ Results' = Results /\ Expected' = Expected
    BY <1>2, <2>1 DEF Ordered, Precedes, Results, Expected
  <2>4. CASE scan.pc \notin {"read", "done"}
    BY <1>2, <1>4, <2>1, <2>2, <2>3, <2>4, <1>1, OpenStep DEF QInv
  <2>5. CASE scan.pc \in {"read", "done"}
    <3>1. Known /\ (scan.pc = "read" => Going) /\ (scan.pc = "done" => Done) /\ sync.pc # "redo"
      BY <1>1, <1>2, <2>5 DEF QInv
    <3>2. /\ sync'.pc # "redo" /\ index \subseteq index' /\ (fails' = 0 => fails = 0)
          /\ \A k \in Keys : latest[k] <= latest'[k]
      BY <1>1, <1>4, <3>1, OpenStep
    <3>3. \A k \in Keys : \A c \in Covering(index, k)' : c \in before.index => c \in Covering(index, k)
      <4>1. before.index \subseteq index
        BY <3>1 DEF Known
      <4> QED
        BY <3>2, <4>1 DEF Covering, Covers
    <3>4. \A k : Returned(k)' <=> Returned(k)
      BY <2>1, <2>3 DEF Returned
    <3>5. Known'
      <4>1. \A k \in Keys : before.recs[k] \in Nat /\ latest[k] \in Nat /\ latest'[k] \in Nat
        <5>1. latest \in [Keys -> 0 .. MaxVer] /\ MaxVer \in Nat
          BY NormalPartAssumption DEF IInv, TypeOK
        <5>2. latest' \in [Keys -> 0 .. MaxVer]
          <6>1. IInv'
            BY <1>1, NextInv
          <6> QED
            BY <6>1 DEF IInv, TypeOK
        <5>3. \A k \in Keys : before.recs[k] \in Nat
          BY ScanNumbers
        <5> QED
          BY <5>1, <5>2, <5>3
      <4>2. \A k \in Keys : before.recs[k] <= latest[k]
        BY <3>1 DEF Known
      <4>3. \A k \in Keys : before.recs[k] <= latest'[k]
        BY <3>2, <4>1, <4>2
      <4>4. before.index \subseteq index'
        BY <3>1, <3>2 DEF Known
      <4> QED
        BY <2>1, <4>3, <4>4 DEF Known
    <3>6. \A k \in Expected : k \in Keys
      BY DEF Expected
    <3>7. ASSUME scan.pc = "read" PROVE Going'
      <4>1. scan.at \in index'
        BY <3>1, <3>2, <3>7 DEF Going
      <4>2. ASSUME Ascends(scan.kind) PROVE AscGoing'
        <5>1. AscGoing
          BY <3>1, <3>7, <4>2 DEF Going
        <5> QED
          BY <2>1, <2>3, <3>4, <5>1 DEF AscGoing
      <4>3. ASSUME ~Ascends(scan.kind) PROVE DescGoing'
        <5>1. DescGoing
          BY <3>1, <3>7, <4>3 DEF Going
        <5>2. \A r \in Results' : \E f \in index' : scan'.at.ts < f.ts /\ f.ts <= r[1]
          BY <2>1, <2>3, <3>2, <5>1 DEF DescGoing
        <5>3. scan'.kind = "desc" =>
                \A k \in Expected' : \A c \in Covering(index, k)' :
                    c \in before'.index /\ scan'.at.ts < c.ts => Returned(k)'
          BY <2>1, <2>3, <3>3, <3>4, <3>6, <5>1 DEF DescGoing
        <5> QED
          BY <2>1, <5>1, <5>2, <5>3 DEF DescGoing, IsLast
      <4> QED
        BY <2>1, <4>1, <4>2, <4>3 DEF Going, Ascends
    <3>8. ASSUME scan.pc = "done" PROVE Done'
      <4>1. Done
        BY <3>1, <3>8
      <4>2. scan'.kind = "asc" => \A k \in Expected' : Returned(k)'
        BY <2>1, <2>3, <3>4, <4>1 DEF Done
      <4>3. scan'.kind = "first" => \A k \in Expected' : \E r \in Results' : r[1] <= k
        BY <2>1, <2>3, <4>1 DEF Done
      <4>4. scan'.kind = "desc" =>
              \A k \in Expected' : \A c \in Covering(index, k)' : c \in before'.index => Returned(k)'
        BY <2>1, <2>3, <3>3, <3>4, <3>6, <4>1 DEF Done
      <4>5. scan'.kind = "snapshot" /\ fails' = 0 =>
              \A k \in Keys : \A c \in Covering(index, k)' :
                  before'.recs[k] # 0 /\ c \in before'.index => \E r \in Results' : k <= r[1]
        BY <2>1, <2>3, <3>2, <3>3, <4>1 DEF Done
      <4> QED
        BY <4>2, <4>3, <4>4, <4>5 DEF Done
    <3> QED
      BY <2>1, <2>2, <2>3, <3>1, <3>2, <3>5, <3>7, <3>8 DEF QInv
  <2> QED
    BY <2>4, <2>5
<1> QED
  BY <1>3, <1>4

\* A page that is not in the pool is read from the data file.
Loads == \A q \in PageNos : \/ pool'[q] = pool[q]
                            \/ ~pool[q].init /\ pool'[q] = Cleared(disk[q])

LEMMA ReadLoads ==
    ASSUME IInv, Filled, ReadPage, scan.at \in index
    PROVE  /\ Loads /\ TypeOK'
           /\ UNCHANGED <<index, dirtyList, sync, disk, idxFile, dw, latest, marked, safe, dropped,
                          damaged, fails>>
<1>1. TypeOK
  BY DEF IInv
<1>2. UNCHANGED <<index, nextPageNo, dirtyList, sync, disk, idxFile, dw, latest, marked, safe,
                  dropped, damaged, crashes, fails>>
  BY DEF ReadPage, diskVars, history
<1>3. pool' = pool \/ pool' = [pool EXCEPT ![scan.at.no] = Page(scan.at.no)]
  BY DEF ReadPage
<1>4. scan.at.no \in PageNos
  BY Indexed0
<1>5. Page(scan.at.no) \in Header
  BY <1>1, <1>4, PageType
<1>6. pool \in [PageNos -> Header]
  BY <1>1 DEF TypeOK
<1>7. pool' \in [PageNos -> Header]
  BY <1>3, <1>4, <1>5, <1>6
<1>8. TypeOK'
  BY <1>1, <1>2, <1>7 DEF TypeOK
<1>9. Loads
  <2>1. ASSUME NEW q \in PageNos
        PROVE  pool'[q] = pool[q] \/ (q = scan.at.no /\ pool'[q] = Page(q))
    BY <1>3, <1>4, <1>6
  <2>2. \A q \in PageNos : Page(q) = pool[q] \/ (~pool[q].init /\ Page(q) = Cleared(disk[q]))
    BY DEF Page
  <2> QED
    BY <2>1, <2>2 DEF Loads
<1> QED
  BY <1>2, <1>8, <1>9

LEMMA LoadKeeps ==
    ASSUME IInv, Filled, TypeOK', Loads, sync.pc # "redo",
           UNCHANGED <<index, dirtyList, sync, disk, idxFile, dw, latest, marked, safe, dropped,
                       damaged, fails>>
    PROVE  IInv' /\ Filled' /\ PagesKeep
<1>1. TypeOK /\ Owned /\ CleanIsOnDisk /\ DirtyIsListed
  BY DEF IInv
<1>2. ASSUME NEW q \in PageNos, ~pool[q].init, pool'[q] = Cleared(disk[q])
      PROVE  /\ ~IsDirty(pool'[q]) /\ pool'[q].init /\ ~pool'[q].onlyMem
             /\ pool'[q].ts = disk[q].ts /\ pool'[q].recs = disk[q].recs
             /\ ~pool[q].onlyMem /\ ~IsDirty(pool[q]) /\ ~pool[q].due
             /\ Page(q).ts = disk[q].ts /\ Page(q).recs = disk[q].recs
             /\ Page(q)' = pool'[q]
  <2>1. disk[q] \in Content
    BY <1>1 DEF TypeOK
  <2>2. /\ ~IsDirty(pool'[q]) /\ pool'[q].init /\ ~pool'[q].onlyMem
        /\ pool'[q].ts = disk[q].ts /\ pool'[q].recs = disk[q].recs
    BY <1>2, <2>1, ContentTypes, ClearedContents
  <2>3. ~pool[q].onlyMem /\ ~IsDirty(pool[q])
    BY <1>1, <1>2, PageOnlyMem DEF Owned
  <2>4. ~pool[q].due
    BY <2>3 DEF IsDirty
  <2> QED
    BY <1>1, <1>2, <2>2, <2>3, <2>4, PageType, PageTypeAfter
<1>3. ASSUME NEW q \in PageNos
      PROVE  Page(q).ts = Page(q)'.ts /\ Page(q).recs = Page(q)'.recs
  <2>1. CASE pool'[q] = pool[q]
    BY <1>1, <2>1, PageKeeps
  <2>2. CASE ~pool[q].init /\ pool'[q] = Cleared(disk[q])
    BY <1>2, <2>2
  <2> QED
    BY <2>1, <2>2 DEF Loads
<1>4. \A q \in PageNos : pool'[q].onlyMem <=> pool[q].onlyMem
  BY <1>2 DEF Loads
<1>5. PagesKeep
  <2>1. \A q \in PageNos : pool'[q].onlyMem => pool'[q].recs = pool[q].recs
    BY <1>2 DEF Loads
  <2> QED
    BY <1>3, <1>4, <2>1 DEF PagesKeep
<1>6. Filled'
  <2>1. \A q \in PageNos : pool'[q].onlyMem =>
            pool[q].onlyMem /\ IsDirty(pool'[q]) /\ pool'[q].ts = pool[q].ts
    BY <1>2 DEF Loads, Filled, MemPages
  <2>2. \A e \in index : e.no \in PageNos
    BY <1>1, EntryType DEF TypeOK
  <2>3. \A e \in index : ~pool'[e.no].onlyMem => disk'[e.no].ts \in {e.ts, 0}
    BY <1>4, <2>2 DEF Filled, DiskTs
  <2>4. idxFile \subseteq index
    BY DEF Filled, IndexOK
  <2>5. \A i \in 1 .. sync.at : sync.batch[i].no \in PageNos
    <3> TAKE i \in 1 .. sync.at
    <3>1. i \in 1 .. Len(sync.batch)
      BY <1>1, AtType
    <3> QED
      BY <1>1, <3>1, BatchPage
  <2>6. Written'
    BY <1>4, <2>2, <2>4, <2>5 DEF Filled, Written
  <2> QED
    BY <1>1, <1>3, <2>1, <2>3, <2>4, <2>6, WriterKeeps
<1>7. IInv'
  <2>1. ASSUME NEW q \in PageNos
        PROVE  /\ pool[q].due => pool'[q].due
               /\ IsDirty(pool'[q]) => pool'[q].init /\ (IsDirty(pool[q]) \/ q \in dirtyList')
               /\ \/ pool'[q].fresh
                  \/ ~pool'[q].init
                  \/ ~pool[q].init /\ pool'[q].ts = disk[q].ts /\ pool'[q].recs = disk[q].recs
                  \/ /\ pool[q].init /\ pool'[q].ts = pool[q].ts /\ pool'[q].recs = pool[q].recs
                     /\ ~pool[q].fresh
    <3>1. CASE pool'[q] = pool[q]
      BY <1>1, <3>1 DEF Owned
    <3>2. CASE ~pool[q].init /\ pool'[q] = Cleared(disk[q])
      BY <1>2, <3>2
    <3> QED
      BY <3>1, <3>2 DEF Loads
  <2> QED
    BY <2>1, PoolStep
<1> QED
  BY <1>5, <1>6, <1>7

\* A page that is read keeps what is known of the part.
LEMMA ReadPart ==
    ASSUME IInv, LInv, fails = 0 => FInv /\ NInv, ScanType, QInv, damaged = {}, ReadPage
    PROVE  IInv' /\ LInv' /\ (fails' = 0 => FInv' /\ NInv')
<1>1. scan.pc = "read" /\ scan.at \in index /\ sync.pc # "redo" /\ Filled
  <2>1. scan.pc = "read"
    BY ReadForms
  <2>2. scan.at \in index /\ sync.pc # "redo"
    BY <2>1 DEF QInv, Going
  <2> QED
    BY <2>1, <2>2 DEF LInv
<1>2. /\ Loads /\ TypeOK'
      /\ UNCHANGED <<index, dirtyList, sync, disk, idxFile, dw, latest, marked, safe, dropped,
                     damaged, fails>>
  BY <1>1, ReadLoads
<1>3. IInv' /\ Filled' /\ PagesKeep
  BY <1>1, <1>2, LoadKeeps
<1>4. TypeOK
  BY DEF IInv
<1>5. LInv'
  BY <1>1, <1>2, <1>3 DEF LInv
<1>6. ASSUME fails = 0 PROVE FInv'
  <2>1. Exact /\ Stored
    BY <1>1, <1>6 DEF FInv
  <2>2. Writing' <=> Writing
    BY <1>2 DEF Writing
  <2>3. Exact' /\ Stored'
    BY <1>2, <1>3, <1>4, <2>1, <2>2, QuietExact
  <2> QED
    BY <1>1, <1>2, <2>3 DEF FInv
<1>7. ASSUME fails = 0 PROVE NInv'
  <2>1. CopiesHeld /\ Used /\ DiskHeld
    BY <1>1, <1>7 DEF NInv
  <2>2. CopiesHeld'
    BY <1>2, <2>1 DEF CopiesHeld, CopiesOf, Empty
  <2>3. Used'
    BY <1>2, <2>1 DEF Used
  <2>4. DiskHeld'
    <3>1. \A e \in index : e.no \in PageNos
      BY <1>1, Indexed0
    <3>2. \A e \in index : ~pool'[e.no].onlyMem <=> ~pool[e.no].onlyMem
      BY <1>3, <3>1 DEF PagesKeep
    <3> QED
      BY <1>2, <2>1, <3>2 DEF DiskHeld, Empty
  <2> QED
    BY <1>1, <1>2, <2>2, <2>3, <2>4 DEF NInv
<1> QED
  BY <1>2, <1>3, <1>5, <1>6, <1>7

-----------------------------------------------------------------------------
(* No page of the index is empty, while no write fails.                     *)

LEMMA SomeRecord ==
    ASSUME NEW c, c.recs \in [Keys -> 0 .. MaxVer]
    PROVE  Empty(c) <=> \A k \in Keys : c.recs[k] = 0
<1>1. Empty(c) => \A k \in Keys : c.recs[k] = 0
  BY DEF Empty, NoRecs
<1>2. (\A k \in Keys : c.recs[k] = 0) => Empty(c)
  BY DEF Empty, NoRecs
<1> QED
  BY <1>1, <1>2

\* An entry covers a record if, and only if, its page has one.
LEMMA UsedPages ==
    ASSUME IInv, Filled
    PROVE  Used <=> \A e \in index : Page(e.no).recs # NoRecs
<1>1. TypeOK /\ \A e \in index : e.no \in PageNos
  BY Indexed0 DEF IInv
<1>2. ASSUME NEW e \in index
      PROVE  (\E k \in Keys : e \in Covering(index, k) /\ latest[k] # 0) <=> Page(e.no).recs # NoRecs
  <2>1. Page(e.no) \in Header
    BY <1>1, PageType
  <2>2. Page(e.no).recs \in [Keys -> 0 .. MaxVer]
    BY <2>1 DEF Header
  <2>3. Page(e.no).recs # NoRecs <=> \E k \in Keys : Page(e.no).recs[k] # 0
    BY <2>2, SomeRecord DEF Empty
  <2>4. \A k \in Keys : /\ e \in Covering(index, k) => Page(e.no).recs[k] = latest[k]
                        /\ Page(e.no).recs[k] # 0 => e \in Covering(index, k)
    BY DEF Filled, Right
  <2> QED
    BY <2>3, <2>4
<1> QED
  BY <1>2 DEF Used

\* A step that changes no file but the double-write file, and no record.
LEMMA QuietHeld ==
    ASSUME IInv, Filled, CopiesHeld, Used, DiskHeld, PagesKeep, UNCHANGED <<index, latest, disk>>,
           CopiesOf(dw') \cup CopiesOf(sync'.batch) \subseteq CopiesOf(dw) \cup CopiesOf(sync.batch)
    PROVE  CopiesHeld' /\ Used' /\ DiskHeld'
<1>1. CopiesHeld'
  <2>1. \A c \in CopiesOf(dw') \cup CopiesOf(sync'.batch) : ~Empty(c)
    BY DEF CopiesHeld
  <2> QED
    BY <2>1 DEF CopiesHeld, CopiesOf
<1>2. Used'
  BY DEF Used
<1>3. DiskHeld'
  <2>1. \A e \in index : e.no \in PageNos
    BY Indexed0
  <2>2. \A e \in index : ~pool'[e.no].onlyMem <=> ~pool[e.no].onlyMem
    BY <2>1 DEF PagesKeep
  <2> QED
    BY <2>2 DEF DiskHeld, Empty
<1> QED
  BY <1>1, <1>2, <1>3

\* A page that is copied is one of the index.
LEMMA CopyHeld ==
    ASSUME IInv, Filled, CopiesHeld, Used, DiskHeld, NEW p \in PageNos, CopyPage(p)
    PROVE  CopiesHeld' /\ Used' /\ DiskHeld'
<1>1. TypeOK /\ Control
  BY DEF IInv
<1>2. Filled' /\ PagesKeep /\ pool[p].init /\ HasEntry(p)
  BY CopyPageFilled
<1>3. PICK c \in Copies : /\ c.no = p /\ c.ts = pool[p].ts /\ c.recs = pool[p].recs
                          /\ CopiesOf(sync'.batch) \subseteq CopiesOf(sync.batch) \cup {c}
  BY CopyPageFilled
<1>4. UNCHANGED <<index, latest, disk, dw>>
  BY DEF CopyPage, SyncStep, diskVars
<1>5. ~Empty(c)
  <2>1. PICK e \in index : e.no = p
    BY <1>2 DEF HasEntry
  <2>2. Page(p).recs # NoRecs
    BY <2>1, UsedPages
  <2>3. Page(p) = pool[p]
    BY <1>1, <1>2, PageType
  <2> QED
    BY <1>3, <2>2, <2>3 DEF Empty
<1>6. CopiesHeld'
  <2>1. \A d \in CopiesOf(dw) \cup CopiesOf(sync'.batch) : ~Empty(d)
    BY <1>3, <1>5 DEF CopiesHeld
  <2> QED
    BY <1>4, <2>1 DEF CopiesHeld, CopiesOf
<1>7. Used'
  BY <1>4 DEF Used
<1>8. DiskHeld'
  <2>1. \A e \in index : e.no \in PageNos
    BY Indexed0
  <2>2. \A e \in index : ~pool'[e.no].onlyMem <=> ~pool[e.no].onlyMem
    BY <1>2, <2>1 DEF PagesKeep
  <2> QED
    BY <1>4, <2>2 DEF DiskHeld, Empty
<1> QED
  BY <1>6, <1>7, <1>8

\* A page that is written is the copy.
LEMMA WriteHeld ==
    ASSUME IInv, Filled, CopiesHeld, Used, DiskHeld, WriteData
    PROVE  CopiesHeld' /\ Used' /\ DiskHeld'
<1> DEFINE b == sync.batch[sync.at + 1]
<1>1. TypeOK /\ Control
  BY DEF IInv
<1>2. sync.pc = "data" /\ sync.at < Len(sync.batch)
  BY <1>1 DEF WriteData, Control
<1>3. /\ b \in CopiesOf(sync.batch) /\ b.no \in PageNos
      /\ disk'[b.no] = [ts |-> b.ts, recs |-> b.recs]
      /\ \A q \in PageNos : q # b.no => pool'[q] = pool[q] /\ disk'[q] = disk[q]
  BY WriteDataPages
<1>4. sync'.batch = sync.batch /\ UNCHANGED <<index>>
  BY <1>1, <1>2, WriteDataStep
<1>5. UNCHANGED <<latest, dw>>
  BY DEF WriteData, SyncStep
<1> HIDE DEF b
<1>6. ~Empty(b)
  BY <1>3 DEF CopiesHeld
<1>7. CopiesHeld'
  BY <1>4, <1>5 DEF CopiesHeld, CopiesOf, Empty
<1>8. Used'
  BY <1>4, <1>5 DEF Used
<1>9. DiskHeld'
  <2>1. ASSUME NEW e \in index, ~pool'[e.no].onlyMem
        PROVE  disk'[e.no].recs # NoRecs
    <3>1. e.no \in PageNos
      BY Indexed0
    <3>2. CASE e.no = b.no
      BY <1>3, <1>6, <3>2 DEF Empty
    <3>3. CASE e.no # b.no
      BY <1>3, <2>1, <3>1, <3>3 DEF DiskHeld, Empty
    <3> QED
      BY <3>2, <3>3
  <2> QED
    BY <1>4, <2>1 DEF DiskHeld, Empty
<1> QED
  BY <1>7, <1>8, <1>9

\* An insert leaves a record in both pages of a split.
LEMMA InsertHeld ==
    ASSUME IInv, Filled, Exact, CopiesHeld, Used, DiskHeld, NEW k \in Keys, InsertRec(k), damaged' = {}
    PROVE  CopiesHeld' /\ Used' /\ DiskHeld'
<1>1. TypeOK /\ IInv' /\ Filled' /\ Grown
  BY InsertInv, InsertFilled DEF IInv
<1>2. TypeOK'
  BY <1>1 DEF IInv
<1>3. UNCHANGED <<sync, disk, idxFile, dw>> /\ index \subseteq index'
  BY <1>1 DEF Grown
<1>4. CopiesHeld'
  BY <1>3 DEF CopiesHeld, CopiesOf, Empty
<1>5. DiskHeld'
  BY <1>1, <1>3 DEF DiskHeld, Empty, Grown
<1>6. \A e \in index' : e.no \in PageNos
  BY <1>2, EntryType DEF TypeOK
<1>7. ASSUME NEW e \in index'
      PROVE  Page(e.no)'.recs # NoRecs
  <2>1. CASE e \in index
    <3>1. Page(e.no).recs # NoRecs
      BY <2>1, UsedPages
    <3> QED
      BY <1>1, <2>1, <3>1 DEF Grown
  <2>2. CASE e \notin index
    <3>1. pool'[e.no].onlyMem
      BY <1>1, <2>2 DEF Grown
    <3>2. pool'[e.no].recs # NoRecs
      <4>1. pool'[e.no].recs # NoRecs \/ pool'[e.no] = pool[e.no]
        BY <1>1, <1>6, <3>1 DEF Grown
      <4> QED
        BY <1>6, <3>1, <4>1 DEF Exact, MemHeld
    <3>3. pool'[e.no].init
      BY <1>1, <1>6, <3>1 DEF Filled, MemPages, IInv, Owned
    <3> QED
      BY <1>2, <1>6, <3>2, <3>3, PageTypeAfter
  <2> QED
    BY <2>1, <2>2
<1>8. (IInv /\ Filled => (Used <=> \A e \in index : Page(e.no).recs # NoRecs))'
  BY <1>1, UsedPages, PTL
<1> QED
  BY <1>1, <1>4, <1>5, <1>7, <1>8

LEMMA StoredPlaced ==
    ASSUME Stored
    PROVE  Placed
BY DEF Stored, Placed, Idled

\* A page that a crash has torn has a copy.
LEMMA CrashHeld ==
    ASSUME IInv, LInv, Stored, damaged = {}, NInv, Crash
    PROVE  CopiesHeld' /\ RedoHeld'
<1>1. TypeOK /\ Control
  BY DEF IInv
<1>2. PICK o \in CrashOutcomes :
          /\ disk' = o.disk /\ idxFile' = o.idxFile /\ dw' = o.dw /\ index' = o.idxFile
          /\ sync' = [Idle EXCEPT !.pc = "redo", !.batch = o.dw]
  BY DEF Crash
<1>3. /\ o.idxFile \subseteq index /\ \A e \in o.idxFile : ~pool[e.no].onlyMem
      /\ CopiesOf(o.dw) \subseteq CopiesOf(dw)
  BY OutcomeKnown
<1>4. \/ /\ o.dw = dw
         /\ \A p \in PageNos : o.disk[p] = disk[p] \/ \E c \in CopiesOf(dw) : c.no = p
      \/ o.dw = <<>> /\ o.disk = disk /\ ~Writing
  BY <1>1, OutcomeFiles, StoredPlaced
<1>5. sync'.batch = o.dw
  BY <1>2 DEF Idle
<1>6. CopiesHeld'
  <2>1. \A c \in CopiesOf(o.dw) : ~Empty(c)
    BY <1>3 DEF NInv, CopiesHeld
  <2> QED
    BY <1>2, <1>5, <2>1 DEF CopiesHeld, CopiesOf, Empty
<1>7. ASSUME NEW e \in o.idxFile
      PROVE  o.disk[e.no].recs # NoRecs \/ \E c \in CopiesOf(o.dw) : c.no = e.no
  <2>1. e \in index /\ e.no \in PageNos /\ ~pool[e.no].onlyMem
    BY <1>1, <1>3, EntryType DEF TypeOK
  <2>2. CASE o.disk[e.no] # disk[e.no]
    BY <1>4, <2>1, <2>2
  <2>3. CASE o.disk[e.no] = disk[e.no]
    <3>1. CASE sync.pc = "redo"
      <4>1. disk[e.no].recs # NoRecs \/ \E c \in CopiesOf(dw) : c.no = e.no
        BY <2>1, <3>1 DEF NInv, RedoHeld, Empty
      <4>2. o.dw = dw
        BY <1>4, <3>1 DEF Writing
      <4> QED
        BY <2>3, <4>1, <4>2
    <3>2. CASE sync.pc # "redo"
      BY <2>1, <2>3, <3>2 DEF NInv, DiskHeld, Empty
    <3> QED
      BY <3>1, <3>2
  <2> QED
    BY <2>2, <2>3
<1>8. RedoHeld'
  BY <1>2, <1>7 DEF RedoHeld, Empty, CopiesOf
<1> QED
  BY <1>6, <1>8

\* RecoverDW puts a copy back.
LEMMA PutHeld ==
    ASSUME IInv, Redone, CopiesHeld, RedoHeld, Redo
    PROVE  CopiesHeld' /\ RedoHeld'
<1> DEFINE b == sync.batch[sync.at + 1]
<1>1. /\ sync'.batch = sync.batch /\ dw = sync.batch /\ b \in CopiesOf(dw) /\ b.no \in PageNos
      /\ disk' = [disk EXCEPT ![b.no] = Kept(b)]
      /\ index' = index \cup (IF \E e \in index : e.ts = b.ts THEN {} ELSE {Entry(b.ts, b.no)})
      /\ UNCHANGED <<idxFile, dw>>
  BY RedoWrites
<1> HIDE DEF b
<1>2. disk \in [PageNos -> Content] /\ \A e \in index : e.no \in PageNos
  BY EntryType DEF IInv, TypeOK
<1>3. CopiesHeld'
  BY <1>1 DEF CopiesHeld, CopiesOf, Empty
<1>4. ASSUME NEW e \in index'
      PROVE  disk'[e.no].recs # NoRecs \/ \E c \in CopiesOf(dw) : c.no = e.no
  <2>1. e \in index \/ e.no = b.no
    BY <1>1 DEF Entry
  <2>2. CASE e.no = b.no
    BY <1>1, <2>2
  <2>3. CASE e \in index /\ e.no # b.no
    <3>1. disk'[e.no] = disk[e.no]
      BY <1>1, <1>2, <2>3
    <3> QED
      BY <2>3, <3>1 DEF RedoHeld, Empty
  <2> QED
    BY <2>1, <2>2, <2>3
<1>5. RedoHeld'
  BY <1>1, <1>4 DEF RedoHeld, Empty, CopiesOf
<1> QED
  BY <1>3, <1>5

\* All copies are back: no page of the index is empty.
LEMMA EndHeld ==
    ASSUME IInv, Redone, RedoneExact, Stored, CopiesHeld, RedoHeld, EndRedo, damaged' = {}
    PROVE  CopiesHeld' /\ Used' /\ DiskHeld'
<1>1. TypeOK /\ Control
  BY DEF IInv
<1>2. TypeOK' /\ sync.pc = "redo" /\ sync' = Idle /\ UNCHANGED <<pool, disk>>
  BY <1>1, EndRedoStep
<1>3. index' = index /\ dw' = <<>>
  BY DEF EndRedo, memVars
<1>4. CopiesOf(sync'.batch) = {} /\ CopiesOf(dw') = {}
  BY <1>2, <1>3, IdleType, NoCopies
<1>5. CopiesHeld'
  BY <1>4 DEF CopiesHeld, CopiesOf
<1>6. \A c \in CopiesOf(dw) : disk[c.no] = Kept(c)
  BY RedoAtEnd
<1>7. ASSUME NEW e \in index
      PROVE  disk[e.no].recs # NoRecs
  <2>1. CASE \E c \in CopiesOf(dw) : c.no = e.no
    <3>1. PICK c \in CopiesOf(dw) : c.no = e.no
      BY <2>1
    <3>2. disk[e.no].recs = c.recs
      <4>1. disk[c.no] = Kept(c)
        BY <1>6, <3>1
      <4>2. Kept(c).recs = c.recs
        BY DEF Kept
      <4> QED
        BY <3>1, <4>1, <4>2
    <3> QED
      BY <3>1, <3>2 DEF CopiesHeld, Empty
  <2>2. CASE ~ \E c \in CopiesOf(dw) : c.no = e.no
    BY <2>2 DEF RedoHeld, Empty
  <2> QED
    BY <2>1, <2>2
<1>8. DiskHeld'
  BY <1>2, <1>3, <1>7 DEF DiskHeld, Empty
<1>9. IInv' /\ Filled'
  <2>1. IInv'
    BY RestartInv
  <2> QED
    BY <2>1, EndRedoFilled
<1>10. \A e \in index' : Page(e.no)'.recs # NoRecs
  <2>1. \A e \in index : e.no \in PageNos
    BY <1>1, EntryType DEF TypeOK
  <2>2. \A p \in PageNos : ~pool'[p].init
    BY <1>1, <1>2, ContentTypes DEF Control
  <2>3. \A p \in PageNos : Page(p)'.recs = disk[p].recs
    BY <1>2, <2>2, PageTypeAfter
  <2> QED
    BY <1>3, <1>7, <2>1, <2>3
<1>11. (IInv /\ Filled => (Used <=> \A e \in index : Page(e.no).recs # NoRecs))'
  BY <1>1, UsedPages, PTL
<1> QED
  BY <1>5, <1>8, <1>9, <1>10, <1>11

LEMMA InitHeld == Init => NInv
<1> SUFFICES ASSUME Init PROVE NInv
  OBVIOUS
<1>1. index = {} /\ sync = Idle /\ dw = <<>>
  BY DEF Init
<1>2. sync.pc # "redo" /\ CopiesOf(sync.batch) = {} /\ CopiesOf(dw) = {}
  BY <1>1, IdleType, NoCopies
<1> QED
  BY <1>1, <1>2 DEF NInv, CopiesHeld, Used, DiskHeld

\* While no write fails, no page of the index is empty.
LEMMA NextHeld ==
    ASSUME IInv, LInv, FInv, NInv, Next, fails' = 0, damaged' = {}
    PROVE  NInv'
<1> SUFFICES /\ CopiesHeld'
             /\ sync'.pc = "redo" => RedoHeld'
             /\ sync'.pc # "redo" => Used' /\ DiskHeld'
  BY DEF NInv
<1>1. TypeOK /\ Control /\ damaged = {}
  BY DEF IInv, Next
<1>2. /\ CopiesHeld
      /\ sync.pc = "redo" => RedoHeld
      /\ sync.pc # "redo" => Used /\ DiskHeld
  BY <1>1 DEF NInv
<1>3. (sync.pc = "redo" => Redone) /\ (sync.pc # "redo" => Filled)
  BY <1>1 DEF LInv
<1>4. Stored /\ (sync.pc = "redo" => RedoneExact) /\ (sync.pc # "redo" => Exact)
  BY <1>1 DEF FInv
<1>5. ASSUME NEW k \in Keys, InsertRec(k)
      PROVE  sync'.pc # "redo" /\ CopiesHeld' /\ Used' /\ DiskHeld'
  <2>1. sync.pc # "redo" /\ sync' = sync
    BY <1>5 DEF InsertRec, InsertFirst, InsertInPage, InsertAfter, InsertSplit, Accept
  <2> QED
    BY <1>2, <1>3, <1>4, <1>5, <2>1, InsertHeld
<1>6. ASSUME NEW p \in PageNos, Evict(p)
      PROVE  sync'.pc # "redo" /\ CopiesHeld' /\ Used' /\ DiskHeld'
  <2>1. sync' = sync /\ pool[p].init /\ UNCHANGED <<index, latest, disk, dw>>
    BY <1>6 DEF Evict, diskVars, history
  <2>2. sync.pc # "redo"
    BY <1>1, <2>1, ContentTypes DEF Control
  <2>3. PagesKeep
    BY <1>3, <1>6, <2>2, EvictFilled
  <2> QED
    BY <1>2, <1>3, <2>1, <2>2, <2>3, QuietHeld
<1>7. ASSUME NEW all \in BOOLEAN, Mark(all)
      PROVE  sync'.pc # "redo" /\ CopiesHeld' /\ Used' /\ DiskHeld'
  <2>1. sync.pc = "idle" /\ sync'.pc = "split" /\ sync'.batch = <<>> /\ UNCHANGED <<index, disk>>
    BY <1>1, <1>7, MarkStep
  <2>2. UNCHANGED <<latest, dw>>
    BY <1>7 DEF Mark, SyncStep, diskVars
  <2>3. PagesKeep
    BY <1>3, <1>7, <2>1, MarkFilled
  <2>4. CopiesOf(sync'.batch) = {}
    BY <2>1, NoCopies
  <2> QED
    BY <1>2, <1>3, <2>1, <2>2, <2>3, <2>4, QuietHeld
<1>8. CASE TakeSplit \/ TakeRest
  <2>1. sync.pc \in {"split", "rest"}
    BY <1>8 DEF TakeSplit, TakeRest
  <2>2. sync.vec = NoVec /\ sync.batch = <<>> /\ sync.at = 0
    BY <1>1, <2>1 DEF Control
  <2>3. /\ sync'.pc \in {"rest", "copy", "idle"} /\ sync'.batch = <<>>
        /\ UNCHANGED <<index, pool, disk>>
    BY <1>8, <2>2, <1>1, TakeSplitStep, TakeRestStep
  <2>4. UNCHANGED <<latest, dw>>
    BY <1>8 DEF TakeSplit, TakeRest, SyncStep, diskVars
  <2>5. PagesKeep
    BY <2>3 DEF PagesKeep, Page
  <2>6. CopiesOf(sync'.batch) = {}
    BY <2>3, NoCopies
  <2> QED
    BY <1>2, <1>3, <2>1, <2>3, <2>4, <2>5, <2>6, QuietHeld
<1>9. ASSUME NEW p \in PageNos, CopyPage(p)
      PROVE  sync'.pc # "redo" /\ CopiesHeld' /\ Used' /\ DiskHeld'
  <2>1. sync.pc = "copy" /\ Len(sync.batch) < BatchSize
    BY <1>9, <1>1 DEF CopyPage, Control
  <2>2. sync'.pc \in {"dw", "copy"}
    BY <1>9, <2>1, <1>1, CopyPageStep
  <2> QED
    BY <1>2, <1>3, <1>9, <2>1, <2>2, CopyHeld
<1>10. CASE WriteDw
  <2>1. /\ sync.pc = "dw" /\ sync'.pc = "data" /\ sync'.batch = sync.batch
        /\ UNCHANGED <<index, pool, disk>>
    BY <1>10, <1>1, WriteDwStep
  <2>2. dw' = sync.batch /\ latest' = latest
    BY <1>10 DEF WriteDw, SyncStep
  <2>3. PagesKeep
    BY <2>1 DEF PagesKeep, Page
  <2>4. CopiesOf(dw') \cup CopiesOf(sync'.batch) \subseteq CopiesOf(dw) \cup CopiesOf(sync.batch)
    BY <2>1, <2>2
  <2> QED
    BY <1>2, <1>3, <2>1, <2>2, <2>3, <2>4, QuietHeld
<1>11. CASE WriteData
  <2>1. sync.pc = "data" /\ sync.at < Len(sync.batch)
    BY <1>11, <1>1 DEF WriteData, Control
  <2>2. sync'.pc \in {"data", "index"}
    BY <1>11, <2>1, <1>1, WriteDataStep
  <2> QED
    BY <1>2, <1>3, <1>11, <2>1, <2>2, WriteHeld
<1>12. CASE WriteIdx
  <2>1. sync.pc = "index" /\ sync'.pc # "redo" /\ UNCHANGED <<index, pool, disk>>
    BY <1>12, <1>1, WriteIdxStep DEF Emptied
  <2>2. sync'.batch = <<>>
    BY <1>12, <1>1, WriteIdxStep DEF Emptied
  <2>3. UNCHANGED <<latest, dw>>
    BY <1>12 DEF WriteIdx, SyncStep
  <2>4. PagesKeep
    BY <2>1 DEF PagesKeep, Page
  <2>5. CopiesOf(sync'.batch) = {}
    BY <2>2, NoCopies
  <2> QED
    BY <1>2, <1>3, <2>1, <2>3, <2>4, <2>5, QuietHeld
<1>13. CASE Crash
  <2>1. sync'.pc = "redo"
    BY <1>1, <1>13, CrashStep
  <2> QED
    BY <1>1, <1>4, <1>13, <2>1, CrashHeld
<1>14. CASE Redo
  <2>1. sync.pc = "redo" /\ sync'.pc = "redo"
    BY <1>1, <1>14, RedoStep
  <2> QED
    BY <1>2, <1>3, <1>14, <2>1, PutHeld
<1>15. CASE EndRedo
  <2>1. sync.pc = "redo" /\ sync' = Idle
    BY <1>1, <1>15, EndRedoStep
  <2> QED
    BY <1>2, <1>3, <1>4, <1>15, <2>1, EndHeld, IdleType
<1> QED
  BY <1>1, <1>5, <1>6, <1>7, <1>8, <1>9, <1>10, <1>11, <1>12, <1>13, <1>14, <1>15, NoFailure DEF Next

AllInv == IInv /\ LInv /\ (fails = 0 => FInv /\ NInv) /\ ScanType /\ QInv

-----------------------------------------------------------------------------
(* The queries are exact.                                                   *)

\* What the query has returned is what it should.
LEMMA DoneExact ==
    ASSUME IInv, LInv, ScanType, QInv
    PROVE  ScanExact
<1>1. damaged = {} => Ordered
  BY DEF QInv
<1>2. damaged = {} =>
        \A i, j \in 1 .. Len(scan.got) :
           i < j => IF Ascends(scan.kind) THEN scan.got[i][1] < scan.got[j][1]
                                          ELSE scan.got[i][1] > scan.got[j][1]
  <2> SUFFICES ASSUME damaged = {}, NEW i \in 1 .. Len(scan.got), NEW j \in 1 .. Len(scan.got), i < j
               PROVE  IF Ascends(scan.kind) THEN scan.got[i][1] < scan.got[j][1]
                                            ELSE scan.got[i][1] > scan.got[j][1]
    OBVIOUS
  <2>1. Precedes(scan.got[i][1], scan.got[j][1])
    BY <1>1 DEF Ordered
  <2>2. scan.got[i] \in Results /\ scan.got[j] \in Results
    BY DEF Results
  <2>3. scan.got[i][1] \in Nat /\ scan.got[j][1] \in Nat
    BY <2>2, ScanNumbers
  <2> QED
    BY <2>1, <2>3 DEF Precedes
<1>3. CASE scan.pc = "done" /\ damaged = {}
  <2>1. Known /\ Done /\ sync.pc # "redo" /\ Filled
    BY <1>3 DEF QInv, LInv
  <2>2. /\ \A k \in Keys : k \in Nat /\ before.recs[k] \in Nat
        /\ \A r \in Results : r[1] \in Nat /\ r[2] \in Nat
    BY ScanNumbers
  <2>3. \A k \in Keys : before.recs[k] # 0 => Covering(index, k) # {}
    <3> SUFFICES ASSUME NEW k \in Keys, before.recs[k] # 0 PROVE Covering(index, k) # {}
      OBVIOUS
    <3>1. before.recs[k] <= latest[k] /\ latest[k] \in Nat
      BY <2>1, Indexed0 DEF Known
    <3>2. latest[k] # 0
      BY <2>2, <3>1
    <3> QED
      BY <2>1, <3>2, CoverIs
  <2>4. \A k \in Missed : k \in Keys /\ k \in Expected /\ before.recs[k] # 0 /\ ~Returned(k)
    <3> SUFFICES ASSUME NEW k \in Missed
                 PROVE  k \in Keys /\ k \in Expected /\ before.recs[k] # 0 /\ ~Returned(k)
      OBVIOUS
    <3>1. k \in Keys /\ k \in Expected /\ before.recs[k] # 0
      BY DEF Missed, Expected
    <3>2. \A r \in Results : r[1] = k => r[2] < before.recs[k]
      BY DEF Missed
    <3>3. ~Returned(k)
      BY <2>2, <3>1, <3>2 DEF Returned
    <3> QED
      BY <3>1, <3>3
  <2>5. scan.kind = "asc" => Missed = {}
    BY <2>1, <2>4 DEF Done
  <2>6. scan.kind = "first" => \A k \in Expected : \E r \in Results : r[1] <= k
    BY <2>1 DEF Done
  <2>7. scan.kind = "desc" => \A k \in Missed : ~(Covering(index, k) \subseteq before.index)
    <3> SUFFICES ASSUME scan.kind = "desc", NEW k \in Missed, Covering(index, k) \subseteq before.index
                 PROVE  FALSE
      OBVIOUS
    <3>1. PICK c \in Covering(index, k) : TRUE
      BY <2>3, <2>4
    <3>2. Returned(k)
      BY <2>1, <2>4, <3>1 DEF Done
    <3> QED
      BY <2>4, <3>2
  <2>8. scan.kind = "snapshot" /\ fails = 0 => \A k \in Keys : before.recs[k] # 0 =>
          (\E r \in Results : r[1] >= k) \/ ~(Covering(index, k) \subseteq before.index)
    <3> SUFFICES ASSUME scan.kind = "snapshot", fails = 0, NEW k \in Keys, before.recs[k] # 0,
                        Covering(index, k) \subseteq before.index
                 PROVE  \E r \in Results : r[1] >= k
      OBVIOUS
    <3>1. PICK c \in Covering(index, k) : TRUE
      BY <2>3
    <3>2. PICK r \in Results : k <= r[1]
      BY <2>1, <3>1 DEF Done
    <3>3. r[1] >= k
      BY <2>2, <3>2
    <3> QED
      BY <3>3
  <2> QED
    BY <1>2, <2>5, <2>6, <2>7, <2>8 DEF ScanExact, Over
<1> QED
  BY <1>2, <1>3 DEF ScanExact, Over

\* A write that has failed stays counted.
LEMMA FailsStay ==
    ASSUME TypeOK, Next, fails' = 0
    PROVE  fails = 0
<1>1. fails \in Nat
  BY NormalPartAssumption DEF TypeOK
<1>2. ASSUME NEW k \in Keys, InsertRec(k)
      PROVE  fails' = fails
  BY <1>2 DEF InsertRec, InsertFirst, InsertInPage, InsertAfter, InsertSplit, Accept
<1>3. /\ \A p \in PageNos : Evict(p) => fails' = fails
      /\ \A all \in BOOLEAN : Mark(all) => fails' = fails
      /\ \A p \in PageNos : CopyPage(p) => fails' = fails
  BY DEF Evict, Mark, CopyPage
<1>4. TakeSplit \/ TakeRest \/ WriteDw \/ WriteData \/ WriteIdx => fails' = fails
  BY DEF TakeSplit, TakeRest, WriteDw, WriteData, WriteIdx
<1>5. WriteFails \/ WriteIdxFails => fails' = fails + 1
  BY DEF WriteFails, WriteIdxFails, Fails
<1>6. Crash \/ Redo \/ EndRedo => fails' = fails
  BY DEF Crash, Redo, EndRedo
<1> QED
  BY <1>1, <1>2, <1>3, <1>4, <1>5, <1>6 DEF Next

LEMMA InitAll == ScanInit => AllInv
<1> SUFFICES ASSUME ScanInit PROVE AllInv
  OBVIOUS
<1>1. Init /\ scan = NoScan /\ before = NoBefore
  BY DEF ScanInit
<1>2. IInv /\ LInv /\ FInv /\ NInv
  BY <1>1, InitInv, InitFilled, InitExact, InitHeld
<1>3. NoScan \in Scans
  <2>1. Entry(0, 1) \in [ts : Keys \cup {0}, no : PageNos \cup {1}]
    BY DEF Entry
  <2>2. <<0, 0>> \in Nat \X Nat /\ <<>> \in Seq(Records)
    OBVIOUS
  <2> QED
    BY <2>1, <2>2 DEF NoScan, Scans, ScanKinds
<1>4. NoBefore \in Befores
  BY NormalPartAssumption DEF NoBefore, Befores, NoRecs
<1>5. scan.pc = "none" /\ scan.got = <<>>
  BY <1>1 DEF NoScan
<1>6. QInv
  BY <1>5 DEF QInv, Ordered
<1> QED
  BY <1>1, <1>2, <1>3, <1>4, <1>6 DEF AllInv, ScanType

LEMMA NextAll == AllInv /\ [ScanNext]_<<vars, scanVars>> => AllInv'
<1> SUFFICES ASSUME AllInv, [ScanNext]_<<vars, scanVars>> PROVE AllInv'
  OBVIOUS
<1>1. IInv /\ LInv /\ (fails = 0 => FInv /\ NInv) /\ ScanType /\ QInv
  BY DEF AllInv
<1>2. CASE PartStep
  <2>1. Next /\ damaged = {}
    BY <1>2 DEF PartStep, Next
  <2>2. IInv' /\ LInv'
    BY <1>1, <2>1, NextInv, NextFilled
  <2>3. ASSUME fails' = 0 PROVE FInv' /\ NInv'
    <3>1. FInv /\ NInv
      BY <1>1, <2>1, <2>3, FailsStay DEF IInv
    <3>2. FInv'
      BY <1>1, <2>1, <2>3, <3>1, NextExact
    <3>3. CASE damaged' = {}
      BY <1>1, <2>1, <2>3, <3>1, <3>2, <3>3, NextHeld
    <3>4. CASE damaged' # {}
      BY <3>2, <3>4 DEF NInv
    <3> QED
      BY <3>3, <3>4
  <2>4. ScanType' /\ QInv'
    BY <1>1, <1>2, PartKnown
  <2> QED
    BY <2>2, <2>3, <2>4 DEF AllInv
<1>3. ASSUME UNCHANGED vars
      PROVE  IInv' /\ LInv' /\ (fails' = 0 => FInv' /\ NInv')
  <2>1. IInv' /\ LInv'
    BY <1>1, <1>3, NextInv, NextFilled
  <2>2. UNCHANGED <<index, pool, sync, disk, dw, latest, damaged, fails>>
    BY <1>3 DEF vars, memVars, diskVars, history
  <2>3. fails = 0 => FInv'
    BY <1>1, <1>3, <2>2, NextExact
  <2>4. fails = 0 => NInv'
    BY <1>1, <2>2 DEF NInv, CopiesHeld, CopiesOf, Used, DiskHeld, RedoHeld, Empty
  <2> QED
    BY <2>1, <2>2, <2>3, <2>4
<1>4. ASSUME damaged = {}, NEW kind \in Kinds, NEW range \in Ranges, Begin(kind, range)
      PROVE  AllInv'
  <2>1. UNCHANGED vars
    BY <1>4 DEF Begin
  <2>2. ScanType' /\ QInv'
    BY <1>1, <1>4, BeginKnown
  <2> QED
    BY <1>3, <2>1, <2>2 DEF AllInv
<1>5. CASE damaged = {} /\ ReadPage
  <2>1. ScanType' /\ QInv'
    BY <1>1, <1>5, ReadKnown
  <2>2. IInv' /\ LInv' /\ (fails' = 0 => FInv' /\ NInv')
    BY <1>1, <1>5, ReadPart
  <2> QED
    BY <2>1, <2>2 DEF AllInv
<1>6. CASE UNCHANGED <<vars, scanVars>>
  <2>1. UNCHANGED vars /\ scan' = scan /\ before' = before
    BY <1>6 DEF scanVars
  <2>2. UNCHANGED <<index, sync, latest, damaged, fails>>
    BY <2>1 DEF vars, memVars, history
  <2>3. ScanType'
    BY <1>1, <2>1 DEF ScanType
  <2>4. QInv'
    BY <1>1, <2>1, <2>2
       DEF QInv, Ordered, Precedes, Known, Going, AscGoing, DescGoing, Done, Returned, Results, Expected
  <2> QED
    BY <1>3, <2>1, <2>3, <2>4 DEF AllInv
<1> QED
  BY <1>2, <1>4, <1>5, <1>6 DEF ScanNext

\* ScanExact holds in every reachable state: however inserts divide the pages a query has yet to
\* read, and whatever is synced, evicted and read again meanwhile, an ascending query misses no
\* record that was there when it began (GetNextIndex looks up the entry behind the last timestamp
\* read), a descending query and the snapshot only one that a split or a new page has moved since
\* (GetPrevIndex, GetIndex), and none returns a timestamp twice or out of order (QueryDevData,
\* TraversalDataPage).
THEOREM ScansExact == ScanSpec => []ScanExact
<1>1. AllInv => ScanExact
  BY DoneExact DEF AllInv
<1> QED
  BY InitAll, NextAll, <1>1, PTL DEF ScanSpec
=============================================================================
