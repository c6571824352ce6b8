-------------------------- MODULE NormalPartProofs --------------------------
(***************************************************************************)
(* Proofs about module NormalPart, whatever the number of timestamps,      *)
(* pages, records to a page and pages to a batch: its type; that the dirty  *)
(* list and the versions in the page headers never forget a page; that a    *)
(* lookup finds the last value that was accepted; that the files, read as   *)
(* the next start would read them, change a batch of pages at a time; and   *)
(* that what a full sync has written survives any power failure.           *)
(***************************************************************************)
EXTENDS NormalPart, TLAPS, FiniteSetTheorems, SequenceTheorems, WellFoundedInduction

LEMMA MaxOfInterval ==
    ASSUME NEW n \in Nat, NEW S \in SUBSET (1 .. n), S # {}
    PROVE  \E m \in S : \A x \in S : x <= m
<1> DEFINE T == {n - x : x \in S}
<1>1. PICK y \in S : TRUE
  OBVIOUS
<1>2. T \subseteq Nat /\ n - y \in T
  BY <1>1
<1>3. PICK d \in T : \A e \in T : ~ (<<e, d>> \in OpToRel(<, Nat))
  BY <1>2, WFMin, NatLessThanWellFounded, Zenon
<1>4. \A e \in T : ~ (e < d)
  BY <1>2, <1>3 DEF OpToRel
<1>5. PICK m \in S : d = n - m
  OBVIOUS
<1>6. \A x \in S : x <= m
  <2> TAKE x \in S
  <2>1. n - x \in T
    OBVIOUS
  <2>2. ~ (n - x < n - m)
    BY <1>4, <1>5, <2>1
  <2> QED
    BY <2>2
<1> QED
  BY <1>6

-----------------------------------------------------------------------------
(* The operators on page headers and contents keep their types.             *)

LEMMA RoundRobinType ==
    ASSUME NEW h \in Header
    PROVE  /\ RoundRobin(h) \in Header
           /\ IsDirty(RoundRobin(h)) <=> IsDirty(h)
           /\ RoundRobin(h).due <=> IsDirty(h)
           /\ ~RoundRobin(h).fresh
           /\ RoundRobin(h).ts = h.ts /\ RoundRobin(h).recs = h.recs
           /\ RoundRobin(h).init <=> h.init
<1> DEFINE d == h.due \/ h.fresh
<1>1. d \in BOOLEAN
  BY DEF Header
<1>2. /\ RoundRobin(h) \in Header
      /\ RoundRobin(h).due <=> d
      /\ ~RoundRobin(h).fresh
      /\ RoundRobin(h).ts = h.ts /\ RoundRobin(h).recs = h.recs
      /\ RoundRobin(h).init <=> h.init
  BY <1>1 DEF Header, RoundRobin
<1> QED
  BY <1>2 DEF IsDirty

LEMMA SyncedType ==
    ASSUME NEW h \in Header
    PROVE  /\ Synced(h) \in Header
           /\ IsDirty(Synced(h)) <=> h.fresh
           /\ Synced(h).fresh <=> h.fresh
           /\ Synced(h).ts = h.ts /\ Synced(h).recs = h.recs
           /\ Synced(h).init <=> h.init
<1>1. 0 \in 0 .. MaxPage
  BY NormalPartAssumption
<1>2. /\ Synced(h) \in Header
      /\ ~Synced(h).due
      /\ Synced(h).fresh <=> h.fresh
      /\ Synced(h).ts = h.ts /\ Synced(h).recs = h.recs
      /\ Synced(h).init <=> h.init
  BY <1>1 DEF Header, Synced
<1> QED
  BY <1>2 DEF IsDirty

LEMMA ContentTypes ==
    /\ NoRecs \in [Keys -> 0 .. MaxVer]
    /\ Blank \in Content
    /\ \A c \in Content : /\ Cleared(c) \in Header /\ ~IsDirty(Cleared(c)) /\ Cleared(c).init
                          /\ Cleared(c).ts = c.ts /\ Cleared(c).recs = c.recs
    /\ Absent \in Header /\ ~IsDirty(Absent) /\ ~Absent.init
<1>1. 0 \in 0 .. MaxVer /\ 0 \in 0 .. MaxPage
  BY NormalPartAssumption
<1>2. NoRecs \in [Keys -> 0 .. MaxVer]
  BY <1>1 DEF NoRecs
<1>3. Blank \in Content
  BY <1>2 DEF Blank, Content
<1>4. ASSUME NEW c \in Content
      PROVE  /\ Cleared(c) \in Header /\ ~IsDirty(Cleared(c)) /\ Cleared(c).init
             /\ Cleared(c).ts = c.ts /\ Cleared(c).recs = c.recs
  BY <1>1 DEF Content, Cleared, Header, IsDirty
<1>5. Absent \in Header /\ ~Absent.init /\ ~Absent.due /\ ~Absent.fresh
  <2>1. Cleared(Blank) \in Header /\ ~Cleared(Blank).due /\ ~Cleared(Blank).fresh
    BY <1>3, <1>4 DEF IsDirty
  <2> QED
    BY <2>1 DEF Absent, Header
<1> QED
  BY <1>2, <1>3, <1>4, <1>5 DEF IsDirty

\* What the macros that InsertRec uses leave alone.
LEMMA MacroTypes ==
    ASSUME NEW h \in Header
    PROVE  /\ \A r \in [Keys -> 0 .. MaxVer] :
                 /\ Updated(h, r) \in Header /\ Updated(h, r).fresh
                 /\ Updated(h, r).due <=> h.due
                 /\ Updated(h, r).init <=> h.init
           /\ /\ OnlyMem(h) \in Header
              /\ OnlyMem(h).fresh <=> h.fresh
              /\ OnlyMem(h).due <=> h.due
              /\ OnlyMem(h).init <=> h.init
           /\ /\ Full(h) \in Header
              /\ Full(h).fresh <=> h.fresh
              /\ Full(h).due <=> h.due
              /\ Full(h).init <=> h.init
              /\ Full(h).ts = h.ts /\ Full(h).recs = h.recs
           /\ \A g \in 0 .. MaxPage :
                 /\ InGroup(h, g) \in Header
                 /\ InGroup(h, g).fresh <=> h.fresh
                 /\ InGroup(h, g).due <=> h.due
                 /\ InGroup(h, g).init <=> h.init
<1>1. \A r \in [Keys -> 0 .. MaxVer] :
          /\ Updated(h, r) \in Header /\ Updated(h, r).fresh
          /\ Updated(h, r).due <=> h.due
          /\ Updated(h, r).init <=> h.init
  BY DEF Updated, Header
<1>2. /\ OnlyMem(h) \in Header
      /\ OnlyMem(h).fresh <=> h.fresh
      /\ OnlyMem(h).due <=> h.due
      /\ OnlyMem(h).init <=> h.init
  BY DEF OnlyMem, Header
<1>3. /\ Full(h) \in Header
      /\ Full(h).fresh <=> h.fresh
      /\ Full(h).due <=> h.due
      /\ Full(h).init <=> h.init
      /\ Full(h).ts = h.ts /\ Full(h).recs = h.recs
  BY DEF Full, Header
<1>4. \A g \in 0 .. MaxPage :
          /\ InGroup(h, g) \in Header
          /\ InGroup(h, g).fresh <=> h.fresh
          /\ InGroup(h, g).due <=> h.due
          /\ InGroup(h, g).init <=> h.init
  BY DEF InGroup, Header
<1> QED
  BY <1>1, <1>2, <1>3, <1>4

LEMMA PageType ==
    ASSUME TypeOK, NEW p \in PageNos
    PROVE  /\ Page(p) \in Header /\ Page(p).init
           /\ pool[p].init => Page(p) = pool[p]
           /\ ~pool[p].init => ~Page(p).due /\ ~Page(p).fresh
           /\ ~pool[p].init => Page(p).ts = disk[p].ts /\ Page(p).recs = disk[p].recs
<1>1. pool[p] \in Header /\ disk[p] \in Content
  BY DEF TypeOK
<1>2. Cleared(disk[p]) \in Header /\ Cleared(disk[p]).init /\ ~IsDirty(Cleared(disk[p]))
      /\ Cleared(disk[p]).ts = disk[p].ts /\ Cleared(disk[p]).recs = disk[p].recs
  BY <1>1, ContentTypes
<1> QED
  BY <1>1, <1>2 DEF Page, IsDirty

LEMMA NewPageType ==
    ASSUME TypeOK, NEW p \in PageNos, NEW k \in Keys \cup {0}
    PROVE  /\ NewPage(p, k) \in Header /\ NewPage(p, k).init
           /\ NewPage(p, k).due <=> pool[p].due
<1> DEFINE h == pool[p]
<1>1. h \in Header
  BY DEF TypeOK
<1>2. [h EXCEPT !.ts = k] \in Header
      /\ ([h EXCEPT !.ts = k].due <=> h.due)
  BY <1>1 DEF Header
<1> DEFINE g == [h EXCEPT !.ts = k]
<1>3. [g EXCEPT !.recs = NoRecs] \in Header /\ ([g EXCEPT !.recs = NoRecs].due <=> h.due)
  <2> HIDE DEF g
  <2> QED
    BY <1>2, ContentTypes DEF Header, g
<1> DEFINE f == [g EXCEPT !.recs = NoRecs]
<1>4. [f EXCEPT !.init = TRUE] \in Header /\ [f EXCEPT !.init = TRUE].init
      /\ ([f EXCEPT !.init = TRUE].due <=> h.due)
  <2> HIDE DEF f
  <2>1. f \in Header /\ (f.due <=> h.due)
    BY <1>3 DEF f
  <2> QED
    BY <2>1 DEF Header
<1>5. NewPage(p, k) = [f EXCEPT !.init = TRUE]
  BY DEF NewPage
<1> QED
  BY <1>4, <1>5

-----------------------------------------------------------------------------
(* The cases of InsertRec: the type, and which headers they change.         *)

LEMMA AcceptType ==
    ASSUME TypeOK, NEW k \in Keys, latest[k] < MaxVer, Accept(k)
    PROVE  /\ latest' \in [Keys -> 0 .. MaxVer] /\ latest'[k] \in 0 .. MaxVer
           /\ [NoRecs EXCEPT ![k] = latest'[k]] \in [Keys -> 0 .. MaxVer]
           /\ \A r \in [Keys -> 0 .. MaxVer] : [r EXCEPT ![k] = latest'[k]] \in [Keys -> 0 .. MaxVer]
           /\ UNCHANGED <<sync, disk, idxFile, dw, marked, safe, dropped, crashes, fails>>
<1>1. latest \in [Keys -> 0 .. MaxVer]
  BY DEF TypeOK
<1>2. latest[k] + 1 \in 0 .. MaxVer
  BY <1>1, NormalPartAssumption
<1>3. latest' = [latest EXCEPT ![k] = latest[k] + 1]
  BY DEF Accept
<1>4. latest' \in [Keys -> 0 .. MaxVer] /\ latest'[k] \in 0 .. MaxVer
  BY <1>1, <1>2, <1>3
<1>5. UNCHANGED <<sync, disk, idxFile, dw, marked, safe, dropped, crashes, fails>>
  BY DEF Accept, diskVars
<1> QED
  BY <1>4, <1>5, ContentTypes

\* A new page that takes its first records.
LEMMA FreshPage ==
    ASSUME TypeOK, NEW n \in PageNos, NEW t \in Keys \cup {0}, NEW r \in [Keys -> 0 .. MaxVer]
    PROVE  LET g == OnlyMem(Updated(NewPage(n, t), r))
           IN  g \in Header /\ g.init /\ g.fresh /\ (g.due <=> pool[n].due)
<1> DEFINE u == Updated(NewPage(n, t), r)
<1>1. u \in Header /\ u.init /\ u.fresh /\ (u.due <=> pool[n].due)
  BY NewPageType, MacroTypes
<1> QED
  BY <1>1, MacroTypes

LEMMA FirstStep ==
    ASSUME TypeOK, NEW k \in Keys, latest[k] < MaxVer, InsertFirst(k), NEW n, n = nextPageNo
    PROVE  /\ TypeOK'
           /\ n \in PageNos /\ index = {} /\ index' = {Entry(0, n)}
           /\ \A q \in PageNos : q # n => pool'[q] = pool[q]
           /\ pool'[n].init /\ pool'[n].fresh /\ (pool'[n].due <=> pool[n].due)
           /\ dirtyList' = dirtyList \cup {n}
           /\ UNCHANGED <<sync, disk, idxFile, dw, dropped, damaged>>
<1> DEFINE g == OnlyMem(Updated(NewPage(n, 0), [NoRecs EXCEPT ![k] = latest'[k]]))
<1>1. n \in PageNos /\ Accept(k) /\ index = {} /\ pool' = [pool EXCEPT ![n] = g]
      /\ dirtyList' = dirtyList \cup {n} /\ index' = {Entry(0, n)} /\ nextPageNo' = n + 1
      /\ damaged' = damaged
  BY DEF InsertFirst
<1>2. g \in Header /\ g.init /\ g.fresh /\ (g.due <=> pool[n].due)
  BY <1>1, AcceptType, FreshPage
<1> HIDE DEF g
<1>3. pool \in [PageNos -> Header]
  BY DEF TypeOK
<1>4. /\ pool' \in [PageNos -> Header]
      /\ pool'[n] = g
      /\ \A q \in PageNos : q # n => pool'[q] = pool[q]
  BY <1>1, <1>2, <1>3
<1>5. nextPageNo' \in 1 .. MaxPage + 1
  BY <1>1, NormalPartAssumption DEF PageNos
<1>6. index' \subseteq Entries
  BY <1>1 DEF Entry, Entries
<1>7. TypeOK'
  BY <1>1, <1>4, <1>5, <1>6, AcceptType DEF TypeOK
<1> QED
  BY <1>1, <1>2, <1>4, <1>7, AcceptType

LEMMA InPageStep ==
    ASSUME TypeOK, NEW k \in Keys, latest[k] < MaxVer, NEW p \in PageNos, InsertInPage(k, p)
    PROVE  /\ TypeOK'
           /\ \A q \in PageNos : q # p => pool'[q] = pool[q]
           /\ pool'[p].init /\ pool'[p].fresh /\ (pool'[p].due <=> Page(p).due)
           /\ dirtyList' = IF IsDirty(Page(p)) THEN dirtyList ELSE dirtyList \cup {p}
           /\ UNCHANGED <<index, sync, disk, idxFile, dw, dropped, damaged>>
<1> DEFINE h == Page(p)
           g == Updated(h, [h.recs EXCEPT ![k] = latest'[k]])
<1>1. Accept(k) /\ pool' = [pool EXCEPT ![p] = g]
      /\ dirtyList' = (IF IsDirty(h) THEN dirtyList ELSE dirtyList \cup {p})
      /\ UNCHANGED <<index, nextPageNo, damaged>>
  BY DEF InsertInPage
<1>2. h \in Header /\ h.init
  BY PageType
<1>3. h.recs \in [Keys -> 0 .. MaxVer]
  BY <1>2 DEF Header
<1>4. g \in Header /\ g.init /\ g.fresh /\ (g.due <=> h.due)
  BY <1>1, <1>2, <1>3, AcceptType, MacroTypes
<1>5. pool \in [PageNos -> Header]
  BY DEF TypeOK
<1> HIDE DEF g
<1>6. /\ pool' \in [PageNos -> Header]
      /\ pool'[p] = g
      /\ \A q \in PageNos : q # p => pool'[q] = pool[q]
  BY <1>1, <1>4, <1>5
<1>7. dirtyList' \subseteq PageNos
  BY <1>1 DEF TypeOK
<1>8. TypeOK'
  BY <1>1, <1>6, <1>7, AcceptType DEF TypeOK
<1> QED
  BY <1>1, <1>4, <1>6, <1>8, AcceptType

LEMMA AfterStep ==
    ASSUME TypeOK, NEW k \in Keys, latest[k] < MaxVer, NEW p \in PageNos, InsertAfter(k, p),
           NEW n, n = nextPageNo
    PROVE  /\ TypeOK'
           /\ n \in PageNos /\ index' = index \cup {Entry(k, n)}
           /\ \A q \in PageNos : q # p /\ q # n => pool'[q] = pool[q]
           /\ p # n => /\ pool'[p].init /\ (pool'[p].due <=> Page(p).due)
                       /\ pool'[p].fresh <=> Page(p).fresh
                       /\ pool'[p].ts = Page(p).ts /\ pool'[p].recs = Page(p).recs
           /\ pool'[n].init /\ pool'[n].fresh /\ (pool'[n].due <=> pool[n].due)
           /\ dirtyList' = dirtyList \cup {n}
           /\ damaged' = damaged \cup Reuse
           /\ UNCHANGED <<sync, disk, idxFile, dw, dropped>>
<1> DEFINE h == Page(p)
           f == IF IsDirty(h) THEN Full(h) ELSE h
           g == OnlyMem(Updated(NewPage(n, k), [NoRecs EXCEPT ![k] = latest'[k]]))
<1>1. n \in PageNos /\ Accept(k) /\ pool' = [pool EXCEPT ![p] = f, ![n] = g]
      /\ dirtyList' = dirtyList \cup {n} /\ index' = index \cup {Entry(k, n)}
      /\ damaged' = damaged \cup Reuse /\ nextPageNo' = n + 1
  BY DEF InsertAfter
<1>2. h \in Header /\ h.init
  BY PageType
<1>3. f \in Header /\ f.init /\ (f.due <=> h.due) /\ (f.fresh <=> h.fresh)
      /\ f.ts = h.ts /\ f.recs = h.recs
  BY <1>2, MacroTypes
<1>4. g \in Header /\ g.init /\ g.fresh /\ (g.due <=> pool[n].due)
  BY <1>1, AcceptType, FreshPage
<1> HIDE DEF f, g
<1>5. pool \in [PageNos -> Header]
  BY DEF TypeOK
<1>6. /\ pool' \in [PageNos -> Header]
      /\ pool'[n] = g
      /\ p # n => pool'[p] = f
      /\ \A q \in PageNos : q # p /\ q # n => pool'[q] = pool[q]
  BY <1>1, <1>3, <1>4, <1>5
<1>7. nextPageNo' \in 1 .. MaxPage + 1 /\ dirtyList' \subseteq PageNos
  BY <1>1, NormalPartAssumption DEF PageNos, TypeOK
<1>8. index' \subseteq Entries
  BY <1>1 DEF Entry, Entries, TypeOK
<1>9. damaged' \subseteq {"doubled", "reused", "torn", "headless"}
  BY <1>1 DEF Reuse, TypeOK
<1>10. TypeOK'
  BY <1>1, <1>6, <1>7, <1>8, <1>9, AcceptType DEF TypeOK
<1> QED
  BY <1>1, <1>3, <1>4, <1>6, <1>10, AcceptType

LEMMA SplitStep ==
    ASSUME TypeOK, NEW k \in Keys, latest[k] < MaxVer, NEW e \in index, InsertSplit(k, e),
           NEW p, p = e.no, NEW n, n = nextPageNo
    PROVE  /\ TypeOK'
           /\ p \in PageNos /\ n \in PageNos /\ \E t \in Keys : index' = index \cup {Entry(t, n)}
           /\ \A q \in PageNos : q # p /\ q # n => pool'[q] = pool[q]
           /\ p # n => pool'[p].init /\ pool'[p].fresh /\ (pool'[p].due <=> Page(p).due)
           /\ pool'[n].init /\ pool'[n].fresh /\ (pool'[n].due <=> pool[n].due)
           /\ dirtyList' = dirtyList \cup (IF IsDirty(Page(p)) THEN {n} ELSE {n, p})
           /\ damaged \cup Reuse \subseteq damaged'
           /\ UNCHANGED <<sync, disk, idxFile, dw, dropped>>
<1> DEFINE h == Page(p)
           tail == MovedOut(h, IF IsLast(index, e) THEN MovesLast ELSE MovesMid)
           old == StaysIn(h, tail)
           new == MovedTo(h, tail)
           F(toNew) == InGroup(Full(Updated(h, IF toNew THEN old ELSE [old EXCEPT ![k] = latest'[k]])),
                               SplitGroup(h, p))
           G(toNew, b) ==
               InGroup(Full(OnlyMem(Updated(b, IF toNew THEN [new EXCEPT ![k] = latest'[k]] ELSE new))),
                       IF h.onlyMem THEN b.grp ELSE p)
<1>1. p \in PageNos
  BY DEF TypeOK, Entries
<1>2. h \in Header
  BY <1>1, PageType
<1>3. old \in [Keys -> 0 .. MaxVer] /\ new \in [Keys -> 0 .. MaxVer]
  <2>1. h.recs \in [Keys -> 0 .. MaxVer]
    BY <1>2 DEF Header
  <2>2. 0 \in 0 .. MaxVer
    BY NormalPartAssumption
  <2> QED
    BY <2>1, <2>2 DEF StaysIn, MovedTo
<1>4. tail \subseteq Keys
  BY DEF MovedOut, Held
<1> HIDE DEF tail, old, new
<1>5. PICK first \in Least(tail) :
         /\ Accept(k)
         /\ pool' = [pool EXCEPT ![p] = F(ToNewPage(k, first)), ![n] = G(ToNewPage(k, first), NewPage(n, first))]
         /\ dirtyList' = dirtyList \cup (IF IsDirty(h) THEN {n} ELSE {n, p})
         /\ index' = index \cup {Entry(first, n)}
         /\ damaged' = damaged \cup Reuse \cup (IF k = first /\ ~ToNewPage(k, first) THEN {"doubled"} ELSE {})
  BY DEF InsertSplit, tail, old, new
<1>6. n \in PageNos /\ nextPageNo' = n + 1
  BY DEF InsertSplit
<1>7. first \in Keys
  BY <1>4 DEF Least
<1> DEFINE toNew == ToNewPage(k, first)
           b == NewPage(n, first)
           r == IF toNew THEN old ELSE [old EXCEPT ![k] = latest'[k]]
           s == IF toNew THEN [new EXCEPT ![k] = latest'[k]] ELSE new
<1>8. r \in [Keys -> 0 .. MaxVer] /\ s \in [Keys -> 0 .. MaxVer]
  BY <1>3, <1>5, AcceptType
<1>9. SplitGroup(h, p) \in 0 .. MaxPage
  BY <1>1, <1>2, NormalPartAssumption DEF SplitGroup, Header, PageNos
<1>10. b \in Header /\ b.init /\ (b.due <=> pool[n].due)
  BY <1>6, <1>7, NewPageType
<1>11. (IF h.onlyMem THEN b.grp ELSE p) \in 0 .. MaxPage
  <2>1. b.grp \in 0 .. MaxPage
    BY <1>10 DEF Header
  <2> QED
    BY <1>1, <2>1, NormalPartAssumption DEF PageNos
<1>12. F(toNew) \in Header /\ F(toNew).init /\ F(toNew).fresh /\ (F(toNew).due <=> h.due)
  <2> DEFINE f1 == Updated(h, r)
             f2 == Full(f1)
  <2>0. h.init
    BY <1>1, PageType
  <2>1. f1 \in Header /\ f1.init /\ f1.fresh /\ (f1.due <=> h.due)
    <3> HIDE DEF r, h
    <3> QED
      BY <2>0, <1>2, <1>8, MacroTypes
  <2>2. f2 \in Header /\ f2.init /\ f2.fresh /\ (f2.due <=> h.due)
    BY <2>1, MacroTypes
  <2>3. F(toNew) = InGroup(f2, SplitGroup(h, p))
    OBVIOUS
  <2> QED
    BY <2>2, <2>3, <1>9, MacroTypes
<1>13. G(toNew, b) \in Header /\ G(toNew, b).init /\ G(toNew, b).fresh /\ (G(toNew, b).due <=> pool[n].due)
  <2> DEFINE g1 == OnlyMem(Updated(b, s))
             g2 == Full(g1)
  <2>1. g1 \in Header /\ g1.init /\ g1.fresh /\ (g1.due <=> pool[n].due)
    BY <1>6, <1>7, <1>8, FreshPage
  <2>2. g2 \in Header /\ g2.init /\ g2.fresh /\ (g2.due <=> pool[n].due)
    BY <2>1, MacroTypes
  <2>3. G(toNew, b) = InGroup(g2, IF h.onlyMem THEN b.grp ELSE p)
    OBVIOUS
  <2> QED
    BY <2>2, <2>3, <1>11, MacroTypes
<1>14. pool' = [pool EXCEPT ![p] = F(toNew), ![n] = G(toNew, b)]
  BY <1>5
<1> HIDE DEF F, G, toNew, b
<1>15. pool \in [PageNos -> Header]
  BY DEF TypeOK
<1>16. /\ pool' \in [PageNos -> Header]
       /\ pool'[n] = G(toNew, b)
       /\ p # n => pool'[p] = F(toNew)
       /\ \A q \in PageNos : q # p /\ q # n => pool'[q] = pool[q]
  BY <1>1, <1>6, <1>12, <1>13, <1>14, <1>15
<1>17. nextPageNo' \in 1 .. MaxPage + 1 /\ dirtyList' \subseteq PageNos
  <2>1. nextPageNo' \in 1 .. MaxPage + 1
    BY <1>6, NormalPartAssumption DEF PageNos
  <2>2. dirtyList \subseteq PageNos
    BY DEF TypeOK
  <2> QED
    BY <1>1, <1>5, <1>6, <2>1, <2>2
<1>18. index' \subseteq Entries
  BY <1>5, <1>6, <1>7 DEF Entry, Entries, TypeOK
<1>19. damaged' \subseteq {"doubled", "reused", "torn", "headless"}
  BY <1>5 DEF Reuse, TypeOK
<1>20. TypeOK'
  BY <1>5, <1>16, <1>17, <1>18, <1>19, AcceptType DEF TypeOK
<1> QED
  BY <1>1, <1>5, <1>6, <1>7, <1>12, <1>13, <1>16, <1>20, AcceptType

-----------------------------------------------------------------------------
(* The steps of the writer: the type, and the fields of sync.               *)

LEMMA VecTypes ==
    /\ NoVec \in Vecs /\ DOMAIN NoVec = {}
    /\ \A S \in SUBSET PageNos : \A f \in [S -> 0 .. MaxPage] : f \in Vecs
    /\ \A v \in Vecs : DOMAIN v \subseteq PageNos
BY DEF NoVec, Vecs

LEMMA IdleType ==
    /\ Idle \in Syncs /\ Idle.pc = "idle" /\ Idle.vec = NoVec /\ Idle.batch = <<>> /\ Idle.at = 0
    /\ Len(<<>>) = 0 /\ Len(<<>>) <= BatchSize /\ 0 <= Len(<<>>)
<1>1. <<>> \in Seq(Copies)
  OBVIOUS
<1> QED
  BY <1>1, VecTypes, NormalPartAssumption DEF Idle, Syncs

\* The fields that a step of the writer gives to sync.
SyncIs(s, pc, all, pass, vec, batch, at) ==
    /\ s.pc = pc /\ s.all = all /\ s.pass = pass /\ s.vec = vec /\ s.batch = batch /\ s.at = at

LEMMA MarkStep ==
    ASSUME TypeOK, NEW all \in BOOLEAN, Mark(all)
    PROVE  /\ TypeOK'
           /\ sync.pc = "idle" /\ sync'.pc = "split" /\ sync'.vec = NoVec
           /\ sync'.batch = <<>> /\ sync'.at = 0
           /\ \A p \in PageNos : pool'[p] = pool[p] \/ (p \in dirtyList /\ pool'[p] = RoundRobin(pool[p]))
           /\ UNCHANGED <<index, dirtyList, disk, dropped, damaged>>
<1>1. /\ pool' = [p \in PageNos |-> IF p \in ToMark(all) THEN RoundRobin(pool[p]) ELSE pool[p]]
      /\ sync' = [Idle EXCEPT !.pc = "split", !.all = all]
      /\ marked' = IF all THEN latest ELSE NoRecs
      /\ UNCHANGED <<index, nextPageNo, latest, damaged, crashes, dirtyList, disk, idxFile, dw,
                     safe, dropped, fails>>
      /\ sync.pc = "idle"
  BY DEF Mark, SyncStep, diskVars
<1>2. pool' \in [PageNos -> Header]
  <2>1. \A p \in PageNos : RoundRobin(pool[p]) \in Header /\ pool[p] \in Header
    BY RoundRobinType DEF TypeOK
  <2> QED
    BY <1>1, <2>1
<1>3. /\ sync' \in Syncs /\ sync'.pc = "split" /\ sync'.vec = NoVec
      /\ sync'.batch = <<>> /\ sync'.at = 0
  BY <1>1, IdleType DEF Syncs
<1>4. marked' \in [Keys -> 0 .. MaxVer]
  BY <1>1, ContentTypes DEF TypeOK
<1>5. \A p \in PageNos : pool'[p] = pool[p] \/ (p \in dirtyList /\ pool'[p] = RoundRobin(pool[p]))
  BY <1>1 DEF ToMark
<1>6. TypeOK'
  BY <1>1, <1>2, <1>3, <1>4, IdleType DEF TypeOK
<1> QED
  BY <1>1, <1>3, <1>5, <1>6

LEMMA EndedStep ==
    ASSUME TypeOK, Ended
    PROVE  /\ sync' = Idle
           /\ marked' \in [Keys -> 0 .. MaxVer] /\ safe' \in [Keys -> 0 .. MaxVer]
<1>1. marked \in [Keys -> 0 .. MaxVer] /\ safe \in [Keys -> 0 .. MaxVer]
  BY DEF TypeOK
<1>2. [k \in Keys |-> IF marked[k] > safe[k] THEN marked[k] ELSE safe[k]] \in [Keys -> 0 .. MaxVer]
  BY <1>1
<1> QED
  BY <1>1, <1>2, ContentTypes DEF Ended

\* How a pass ends: nothing is in the writer's hands.
Emptied == /\ sync'.vec = NoVec /\ sync'.batch = <<>> /\ sync'.at = 0
           /\ sync'.pc \in {"idle", "rest"}

LEMMA PassEndsStep ==
    ASSUME TypeOK, PassEnds
    PROVE  /\ sync' \in Syncs /\ Emptied
           /\ marked' \in [Keys -> 0 .. MaxVer] /\ safe' \in [Keys -> 0 .. MaxVer]
<1>1. CASE sync.pass = 2 /\ Ended
  BY <1>1, EndedStep, IdleType DEF Emptied
<1>2. CASE /\ sync' = [sync EXCEPT !.pc = "rest", !.pass = 2, !.vec = NoVec, !.batch = <<>>, !.at = 0]
           /\ UNCHANGED <<marked, safe>>
  <2>1. sync \in Syncs /\ <<>> \in Seq(Copies)
    BY DEF TypeOK
  <2>2. sync' \in Syncs /\ Emptied
    BY <1>2, <2>1, VecTypes DEF Syncs, Emptied
  <2> QED
    BY <1>2, <2>2 DEF TypeOK
<1> QED
  BY <1>1, <1>2 DEF PassEnds

LEMMA BatchEndsStep ==
    ASSUME TypeOK, BatchEnds
    PROVE  /\ sync' \in Syncs
           /\ \/ Emptied /\ DOMAIN sync.vec = {}
              \/ /\ sync'.pc = "copy" /\ DOMAIN sync.vec # {} /\ sync'.vec = sync.vec
                 /\ sync'.batch = <<>> /\ sync'.at = 0
           /\ marked' \in [Keys -> 0 .. MaxVer] /\ safe' \in [Keys -> 0 .. MaxVer]
<1>1. CASE DOMAIN sync.vec = {} /\ PassEnds
  BY <1>1, PassEndsStep
<1>2. CASE /\ DOMAIN sync.vec # {}
           /\ sync' = [sync EXCEPT !.pc = "copy", !.batch = <<>>, !.at = 0]
           /\ UNCHANGED <<marked, safe>>
  <2>1. sync \in Syncs /\ <<>> \in Seq(Copies)
    BY DEF TypeOK
  <2>2. sync' \in Syncs /\ sync'.pc = "copy" /\ sync'.vec = sync.vec
        /\ sync'.batch = <<>> /\ sync'.at = 0
    BY <1>2, <2>1 DEF Syncs
  <2> QED
    BY <1>2, <2>2 DEF TypeOK
<1> QED
  BY <1>1, <1>2 DEF BatchEnds

LEMMA TakeSplitStep ==
    ASSUME TypeOK, TakeSplit, sync.vec = NoVec, sync.batch = <<>>, sync.at = 0
    PROVE  /\ TypeOK'
           /\ sync.pc = "split" /\ sync'.batch = <<>> /\ sync'.at = 0
           /\ dirtyList' = dirtyList \ DOMAIN sync'.vec
           /\ DOMAIN sync'.vec \subseteq Due
           /\ \/ sync'.pc = "rest" /\ sync'.vec = NoVec
              \/ sync'.pc = "copy" /\ DOMAIN sync'.vec # {}
           /\ UNCHANGED <<index, pool, disk, dropped, damaged>>
<1> DEFINE taken == {p \in Due : pool[p].grp # 0}
<1>1. /\ dirtyList' = dirtyList \ taken
      /\ sync' = IF taken = {} THEN [sync EXCEPT !.pc = "rest", !.pass = 2]
                 ELSE [sync EXCEPT !.pc = "copy", !.vec = [p \in taken |-> pool[p].grp]]
      /\ UNCHANGED <<index, nextPageNo, latest, damaged, crashes, pool, disk, idxFile, dw,
                     marked, safe, dropped, fails>>
      /\ sync.pc = "split"
  BY DEF TakeSplit, SyncStep, diskVars
<1>2. taken \subseteq Due /\ taken \subseteq PageNos /\ sync \in Syncs
  BY DEF Due, TypeOK
<1>3. [p \in taken |-> pool[p].grp] \in Vecs
  <2>1. \A p \in PageNos : pool[p].grp \in 0 .. MaxPage
    BY DEF TypeOK, Header
  <2>2. [p \in taken |-> pool[p].grp] \in [taken -> 0 .. MaxPage]
    BY <1>2, <2>1
  <2> QED
    BY <1>2, <2>2, VecTypes
<1>4. /\ sync' \in Syncs /\ sync'.batch = <<>> /\ sync'.at = 0
      /\ DOMAIN sync'.vec = taken
      /\ \/ sync'.pc = "rest" /\ sync'.vec = NoVec
         \/ sync'.pc = "copy" /\ taken # {}
  <2>1. CASE taken = {}
    <3>1. sync' = [sync EXCEPT !.pc = "rest", !.pass = 2]
      BY <1>1, <2>1
    <3>2. sync' \in Syncs /\ sync'.pc = "rest" /\ sync'.vec = sync.vec /\ sync'.batch = sync.batch
          /\ sync'.at = sync.at
      BY <1>2, <3>1 DEF Syncs
    <3> QED
      BY <2>1, <3>2, VecTypes
  <2>2. CASE taken # {}
    <3> DEFINE v == [p \in taken |-> pool[p].grp]
    <3>1. sync' = [sync EXCEPT !.pc = "copy", !.vec = v] /\ DOMAIN v = taken
      BY <1>1, <2>2
    <3> HIDE DEF v, taken
    <3>2. sync' \in Syncs /\ sync'.pc = "copy" /\ sync'.vec = v /\ sync'.batch = sync.batch
          /\ sync'.at = sync.at
      BY <1>2, <1>3, <3>1 DEF Syncs, v
    <3> QED
      BY <2>2, <3>1, <3>2
  <2> QED
    BY <2>1, <2>2
<1>5. TypeOK'
  BY <1>1, <1>4, IdleType DEF TypeOK
<1> QED
  BY <1>1, <1>2, <1>4, <1>5

LEMMA TakeRestStep ==
    ASSUME TypeOK, TakeRest, sync.vec = NoVec, sync.batch = <<>>, sync.at = 0
    PROVE  /\ TypeOK'
           /\ sync.pc = "rest" /\ sync'.batch = <<>> /\ sync'.at = 0
           /\ dirtyList' = dirtyList \ DOMAIN sync'.vec
           /\ DOMAIN sync'.vec \subseteq Due
           /\ \/ sync'.pc = "idle" /\ sync'.vec = NoVec
              \/ sync'.pc = "copy" /\ DOMAIN sync'.vec # {}
           /\ UNCHANGED <<index, pool, disk, dropped, damaged>>
<1>1. /\ dirtyList' = dirtyList \ Due
      /\ UNCHANGED <<index, nextPageNo, latest, damaged, crashes, pool, disk, idxFile, dw, dropped, fails>>
      /\ sync.pc = "rest"
  BY DEF TakeRest, SyncStep, diskVars
<1>2. Due \subseteq PageNos /\ sync \in Syncs
  BY DEF Due, TypeOK
<1>3. CASE Due = {} /\ Ended
  <2>1. /\ sync' \in Syncs /\ sync'.pc = "idle" /\ sync'.vec = NoVec /\ sync'.batch = <<>> /\ sync'.at = 0
        /\ marked' \in [Keys -> 0 .. MaxVer] /\ safe' \in [Keys -> 0 .. MaxVer]
    BY <1>3, EndedStep, IdleType
  <2>2. TypeOK'
    BY <1>1, <2>1, IdleType DEF TypeOK
  <2> QED
    BY <1>1, <1>3, <2>1, <2>2, VecTypes
<1>4. CASE /\ Due # {}
           /\ sync' = [sync EXCEPT !.pc = "copy", !.vec = [p \in Due |-> p]]
           /\ UNCHANGED <<marked, safe>>
  <2> DEFINE v == [p \in Due |-> p]
  <2>1. v \in [Due -> 0 .. MaxPage] /\ DOMAIN v = Due
    BY <1>2, NormalPartAssumption DEF PageNos
  <2>2. v \in Vecs
    BY <1>2, <2>1, VecTypes
  <2> HIDE DEF v
  <2>3. sync' \in Syncs /\ sync'.pc = "copy" /\ sync'.vec = v /\ sync'.batch = sync.batch
        /\ sync'.at = sync.at
    BY <1>2, <1>4, <2>2 DEF Syncs, v
  <2>4. TypeOK'
    BY <1>1, <1>4, <2>3, IdleType DEF TypeOK
  <2> QED
    BY <1>1, <1>4, <2>1, <2>3, <2>4
<1> QED
  BY <1>3, <1>4 DEF TakeRest

LEMMA CopyPageStep ==
    ASSUME TypeOK, NEW p \in PageNos, CopyPage(p), Len(sync.batch) < BatchSize
    PROVE  /\ TypeOK'
           /\ sync.pc = "copy" /\ p \in DOMAIN sync.vec
           /\ \E c \in Copies : /\ c.no = p /\ c.ts = pool[p].ts /\ c.recs = pool[p].recs
                                /\ sync'.batch = Append(sync.batch, c)
           /\ DOMAIN sync'.vec = DOMAIN sync.vec \ {p} /\ sync'.at = sync.at
           /\ \/ sync'.pc = "dw"
              \/ sync'.pc = "copy" /\ DOMAIN sync'.vec # {} /\ Len(sync'.batch) < BatchSize
           /\ pool' = [pool EXCEPT ![p] = RoundRobin(pool[p])]
           /\ UNCHANGED <<index, dirtyList, disk, dropped, damaged>>
<1> DEFINE left == DOMAIN sync.vec \ {p}
           c == [no |-> p, ts |-> pool[p].ts, recs |-> pool[p].recs, new |-> pool[p].onlyMem]
           b == Append(sync.batch, c)
           v == [q \in left |-> sync.vec[q]]
           x == IF left = {} \/ BufferFull(b) THEN "dw" ELSE "copy"
<1>1. /\ sync' = [sync EXCEPT !.vec = v, !.batch = b, !.pc = x]
      /\ pool' = [pool EXCEPT ![p] = RoundRobin(pool[p])]
      /\ UNCHANGED <<index, nextPageNo, latest, damaged, crashes, dirtyList, disk, idxFile, dw,
                     marked, safe, dropped, fails>>
      /\ sync.pc = "copy" /\ p \in DOMAIN sync.vec
  BY DEF CopyPage, SyncStep, diskVars
<1>2. sync \in Syncs /\ pool[p] \in Header /\ pool \in [PageNos -> Header]
  BY DEF TypeOK
<1>3. c \in Copies
  BY <1>2 DEF Header, Copies
<1>4. v \in Vecs /\ DOMAIN v = left
  <2>1. PICK S \in SUBSET PageNos : sync.vec \in [S -> 0 .. MaxPage]
    BY <1>2 DEF Syncs, Vecs
  <2>2. v \in [left -> 0 .. MaxPage] /\ left \subseteq PageNos
    BY <2>1
  <2> QED
    BY <2>2, VecTypes
<1>5. sync.batch \in Seq(Copies)
  BY <1>2 DEF Syncs
<1> HIDE DEF c
<1>6. b \in Seq(Copies) /\ Len(b) = Len(sync.batch) + 1 /\ Len(sync.batch) \in Nat
  BY <1>3, <1>5
<1> HIDE DEF v, left, b
<1>7. x \in {"dw", "copy"} /\ (x = "copy" => left # {} /\ Len(b) # BatchSize)
  BY DEF BufferFull
<1> HIDE DEF x
<1>8. sync' \in Syncs /\ SyncIs(sync', x, sync.all, sync.pass, v, b, sync.at)
  BY <1>1, <1>2, <1>4, <1>6, <1>7 DEF Syncs, SyncIs
<1>9. pool' \in [PageNos -> Header]
  BY <1>1, <1>2, RoundRobinType
<1>10. sync.at \in Nat /\ sync.at <= Len(sync.batch) /\ Len(b) <= BatchSize
  BY <1>2, <1>6, NormalPartAssumption DEF Syncs, TypeOK
<1>11. sync'.at <= Len(sync'.batch) /\ Len(sync'.batch) <= BatchSize
  <2>1. sync.at <= Len(b)
    BY <1>6, <1>10
  <2> QED
    BY <1>8, <1>10, <2>1 DEF SyncIs
<1>12. TypeOK'
  BY <1>1, <1>8, <1>9, <1>11 DEF TypeOK
<1>13. /\ sync'.batch = b /\ DOMAIN sync'.vec = left /\ sync'.at = sync.at /\ sync'.pc = x
  BY <1>4, <1>8 DEF SyncIs
<1>14. x = "copy" => Len(b) < BatchSize
  BY <1>6, <1>7, <1>10, NormalPartAssumption
<1>15. c.no = p /\ c.ts = pool[p].ts /\ c.recs = pool[p].recs
  BY DEF c
<1>16. \E d \in Copies : /\ d.no = p /\ d.ts = pool[p].ts /\ d.recs = pool[p].recs
                         /\ sync'.batch = Append(sync.batch, d)
  BY <1>3, <1>13, <1>15 DEF b
<1> QED
  BY <1>1, <1>7, <1>12, <1>13, <1>14, <1>16 DEF left

LEMMA WriteDwStep ==
    ASSUME TypeOK, WriteDw
    PROVE  /\ TypeOK'
           /\ sync.pc = "dw" /\ sync'.pc = "data" /\ sync'.vec = sync.vec
           /\ sync'.batch = sync.batch /\ sync'.at = sync.at
           /\ UNCHANGED <<index, pool, dirtyList, disk, dropped, damaged>>
<1>1. /\ sync.pc = "dw" /\ dw' = sync.batch /\ sync' = [sync EXCEPT !.pc = "data"]
      /\ UNCHANGED <<index, nextPageNo, latest, damaged, crashes, pool, dirtyList, disk, idxFile,
                     marked, safe, dropped, fails>>
  BY DEF WriteDw, SyncStep
<1>2. sync' \in Syncs /\ sync'.pc = "data" /\ sync'.vec = sync.vec
      /\ sync'.batch = sync.batch /\ sync'.at = sync.at
  BY <1>1 DEF TypeOK, Syncs
<1>3. dw' \in Seq(Copies) /\ Len(dw') <= BatchSize
  BY <1>1 DEF TypeOK, Syncs
<1>4. TypeOK'
  BY <1>1, <1>2, <1>3 DEF TypeOK
<1> QED
  BY <1>1, <1>2, <1>4

\* The page that WriteData or Redo writes is one of the batch.
LEMMA BatchPage ==
    ASSUME TypeOK, NEW i \in 1 .. Len(sync.batch)
    PROVE  /\ sync.batch[i] \in Copies /\ sync.batch[i].no \in PageNos
           /\ [ts |-> sync.batch[i].ts, recs |-> sync.batch[i].recs] \in Content
<1>1. sync.batch \in Seq(Copies)
  BY DEF TypeOK, Syncs
<1>2. sync.batch[i] \in Copies
  BY <1>1
<1> QED
  BY <1>2 DEF Copies, Content

LEMMA AtType ==
    ASSUME TypeOK
    PROVE  /\ sync.at \in Nat /\ Len(sync.batch) \in Nat /\ sync.at <= Len(sync.batch)
           /\ Len(sync.batch) <= BatchSize
           /\ sync.at < Len(sync.batch) => sync.at + 1 \in 1 .. Len(sync.batch)
<1>1. sync.batch \in Seq(Copies) /\ sync.at \in Nat
  BY DEF TypeOK, Syncs
<1>2. Len(sync.batch) \in Nat
  BY <1>1
<1>3. sync.at <= Len(sync.batch) /\ Len(sync.batch) <= BatchSize
  BY DEF TypeOK
<1> QED
  BY <1>1, <1>2, <1>3

LEMMA WriteDataStep ==
    ASSUME TypeOK, WriteData, sync.at < Len(sync.batch),
           NEW b, b = sync.batch[sync.at + 1]
    PROVE  /\ TypeOK'
           /\ b.no \in PageNos
           /\ sync.pc = "data" /\ sync'.vec = sync.vec /\ sync'.batch = sync.batch
           /\ sync'.at = sync.at + 1
           /\ \/ sync'.pc = "data" /\ sync'.at < Len(sync'.batch)
              \/ sync'.pc = "index" /\ sync'.at = Len(sync'.batch)
           /\ pool' = [pool EXCEPT ![b.no] = Synced(pool[b.no])]
           /\ dirtyList' = IF pool[b.no].fresh THEN dirtyList \cup {b.no} ELSE dirtyList
           /\ disk' = [disk EXCEPT ![b.no] = [ts |-> b.ts, recs |-> b.recs]]
           /\ UNCHANGED <<index, dropped, damaged>>
<1>0. b \in Copies /\ b.no \in PageNos /\ [ts |-> b.ts, recs |-> b.recs] \in Content
  BY AtType, BatchPage
<1> DEFINE x == IF sync.at + 1 = Len(sync.batch) THEN "index" ELSE "data"
<1>1. /\ sync.pc = "data"
      /\ disk' = [disk EXCEPT ![b.no] = [ts |-> b.ts, recs |-> b.recs]]
      /\ pool' = [pool EXCEPT ![b.no] = Synced(pool[b.no])]
      /\ dirtyList' = Relisted(b.no)
      /\ sync' = [sync EXCEPT !.at = sync.at + 1, !.pc = x]
      /\ UNCHANGED <<index, nextPageNo, latest, damaged, crashes, idxFile, dw, marked, safe, dropped, fails>>
  BY DEF WriteData, SyncStep
<1>2. sync \in Syncs /\ sync.at + 1 \in Nat
  BY DEF TypeOK, Syncs
<1>3. x \in {"index", "data"}
  OBVIOUS
<1>4. (x = "index" => sync.at + 1 = Len(sync.batch)) /\ (x = "data" => sync.at + 1 # Len(sync.batch))
  OBVIOUS
<1> HIDE DEF x
<1>5. sync' \in Syncs /\ SyncIs(sync', x, sync.all, sync.pass, sync.vec, sync.batch, sync.at + 1)
  BY <1>1, <1>2, <1>3 DEF Syncs, SyncIs
<1>6. PICK n \in Nat, a \in Nat : n = Len(sync.batch) /\ a = sync.at /\ a < n
  BY AtType
<1>7. /\ sync'.at = a + 1 /\ a + 1 <= n /\ Len(sync'.batch) = n
      /\ x = "data" => a + 1 < n
  BY <1>4, <1>5, <1>6 DEF SyncIs
<1>8. pool[b.no] \in Header /\ pool \in [PageNos -> Header] /\ disk \in [PageNos -> Content]
      /\ dirtyList \subseteq PageNos
  BY <1>0 DEF TypeOK
<1>9. pool' \in [PageNos -> Header] /\ disk' \in [PageNos -> Content]
  BY <1>0, <1>1, <1>8, SyncedType
<1>10. dirtyList' = IF pool[b.no].fresh THEN dirtyList \cup {b.no} ELSE dirtyList
  BY <1>1, <1>8, SyncedType DEF Relisted
<1>11. Len(sync'.batch) <= BatchSize /\ sync'.at <= Len(sync'.batch)
  <2>1. n <= BatchSize
    BY <1>6, AtType
  <2> QED
    BY <2>1, <1>7
<1>12. TypeOK'
  BY <1>0, <1>1, <1>5, <1>8, <1>9, <1>10, <1>11 DEF TypeOK
<1>13. \/ sync'.pc = "data" /\ sync'.at < Len(sync'.batch)
       \/ sync'.pc = "index" /\ sync'.at = Len(sync'.batch)
  BY <1>3, <1>4, <1>5, <1>6, <1>7 DEF SyncIs
<1> QED
  BY <1>0, <1>1, <1>5, <1>10, <1>12, <1>13 DEF SyncIs

LEMMA NewEntriesType ==
    ASSUME NEW b \in Seq(Copies)
    PROVE  NewEntries(b) \subseteq Entries
<1>1. \A i \in 1 .. Len(b) : b[i] \in Copies
  BY DEF NewEntries
<1> QED
  BY <1>1 DEF NewEntries, Entry, Entries, Copies

LEMMA WriteIdxStep ==
    ASSUME TypeOK, WriteIdx \/ WriteIdxFails
    PROVE  /\ TypeOK'
           /\ sync.pc = "index" /\ dropped \subseteq dropped'
           /\ \/ Emptied /\ DOMAIN sync.vec = {}
              \/ /\ sync'.pc = "copy" /\ DOMAIN sync.vec # {} /\ sync'.vec = sync.vec
                 /\ sync'.batch = <<>> /\ sync'.at = 0
           /\ UNCHANGED <<index, pool, dirtyList, disk, damaged>>
<1>1. BatchEnds /\ sync.pc = "index"
      /\ UNCHANGED <<index, nextPageNo, latest, damaged, crashes, pool, dirtyList, disk, dw>>
  BY DEF WriteIdx, WriteIdxFails, SyncStep, diskVars
<1>2. /\ sync' \in Syncs
      /\ \/ Emptied /\ DOMAIN sync.vec = {}
         \/ /\ sync'.pc = "copy" /\ DOMAIN sync.vec # {} /\ sync'.vec = sync.vec
            /\ sync'.batch = <<>> /\ sync'.at = 0
      /\ marked' \in [Keys -> 0 .. MaxVer] /\ safe' \in [Keys -> 0 .. MaxVer]
  BY <1>1, BatchEndsStep
<1>3. sync'.at <= Len(sync'.batch) /\ Len(sync'.batch) <= BatchSize
  BY <1>2, IdleType DEF Emptied
<1>4. sync.batch \in Seq(Copies)
  BY DEF TypeOK, Syncs
<1>5. NewEntries(sync.batch) \subseteq Entries
  BY <1>4, NewEntriesType
<1>6. idxFile' \subseteq Entries
  BY <1>5 DEF WriteIdx, WriteIdxFails, diskVars, TypeOK
<1>7. fails' \in 0 .. MaxFails
  BY NormalPartAssumption DEF WriteIdx, WriteIdxFails, Fails, TypeOK
<1>8. dropped \subseteq dropped' /\ dropped' \subseteq PageNos
  <2>1. {e.no : e \in NewEntries(sync.batch)} \subseteq PageNos
    BY <1>5 DEF Entries
  <2> QED
    BY <2>1 DEF WriteIdx, WriteIdxFails, Fails, TypeOK
<1>9. TypeOK'
  BY <1>1, <1>2, <1>3, <1>6, <1>7, <1>8 DEF TypeOK
<1> QED
  BY <1>1, <1>2, <1>8, <1>9

LEMMA WriteFailsStep ==
    ASSUME TypeOK, WriteFails, sync.pc = "data" => sync.at < Len(sync.batch)
    PROVE  /\ TypeOK'
           /\ sync.pc \in {"dw", "data"}
           /\ Emptied
           /\ dropped' = dropped \cup DOMAIN sync.vec \cup InBatch
           /\ \A p \in PageNos : disk'[p] # disk[p] =>
                 sync.pc = "data" /\ p = sync.batch[sync.at + 1].no /\ disk'[p] = Blank
           /\ UNCHANGED <<index, pool, dirtyList, damaged>>
<1>1. /\ PassEnds
      /\ dropped' = dropped \cup DOMAIN sync.vec \cup InBatch
      /\ fails < MaxFails /\ fails' = fails + 1
      /\ UNCHANGED <<index, nextPageNo, latest, damaged, crashes, pool, dirtyList, idxFile>>
      /\ \/ sync.pc = "dw" /\ dw' \in {dw, <<>>} /\ UNCHANGED disk
         \/ /\ sync.pc = "data" /\ UNCHANGED dw
            /\ disk' \in {disk, [disk EXCEPT ![sync.batch[sync.at + 1].no] = Blank]}
  BY DEF WriteFails, Fails, SyncStep
<1>2. sync' \in Syncs /\ Emptied
      /\ marked' \in [Keys -> 0 .. MaxVer] /\ safe' \in [Keys -> 0 .. MaxVer]
  BY <1>1, PassEndsStep
<1>3. sync'.at <= Len(sync'.batch) /\ Len(sync'.batch) <= BatchSize
  BY <1>2, IdleType DEF Emptied
<1>4. fails' \in 0 .. MaxFails
  BY <1>1, NormalPartAssumption DEF TypeOK
<1>5. DOMAIN sync.vec \subseteq PageNos
  BY VecTypes DEF TypeOK, Syncs
<1>6. InBatch \subseteq PageNos
  BY BatchPage DEF InBatch
<1>7. dw' \in Seq(Copies) /\ Len(dw') <= BatchSize
  <2>1. dw \in Seq(Copies) /\ Len(dw) <= BatchSize
    BY DEF TypeOK
  <2>2. <<>> \in Seq(Copies)
    OBVIOUS
  <2> QED
    BY <1>1, <2>1, <2>2, IdleType
<1>8. /\ disk' \in [PageNos -> Content]
      /\ \A p \in PageNos : disk'[p] # disk[p] =>
            sync.pc = "data" /\ p = sync.batch[sync.at + 1].no /\ disk'[p] = Blank
  <2>1. disk \in [PageNos -> Content]
    BY DEF TypeOK
  <2>2. CASE UNCHANGED disk
    BY <2>1, <2>2
  <2>3. CASE sync.pc = "data" /\ disk' = [disk EXCEPT ![sync.batch[sync.at + 1].no] = Blank]
    BY <2>1, <2>3, ContentTypes
  <2> QED
    BY <1>1, <2>2, <2>3
<1>9. TypeOK'
  BY <1>1, <1>2, <1>3, <1>4, <1>5, <1>6, <1>7, <1>8 DEF TypeOK
<1> QED
  BY <1>1, <1>2, <1>8, <1>9

LEMMA EvictStep ==
    ASSUME TypeOK, NEW p \in PageNos, Evict(p)
    PROVE  /\ TypeOK'
           /\ pool[p].init /\ ~IsDirty(pool[p])
           /\ pool' = [pool EXCEPT ![p] = Absent]
           /\ UNCHANGED <<index, dirtyList, sync, disk, dropped, damaged>>
<1>1. /\ pool[p].init /\ ~IsDirty(pool[p])
      /\ pool' = [pool EXCEPT ![p] = Absent]
      /\ UNCHANGED <<index, nextPageNo, dirtyList, sync, disk, idxFile, dw, latest, marked, safe,
                     dropped, damaged, crashes, fails>>
  BY DEF Evict, diskVars, history
<1>2. pool' \in [PageNos -> Header]
  BY <1>1, ContentTypes DEF TypeOK
<1>3. TypeOK'
  BY <1>1, <1>2 DEF TypeOK
<1> QED
  BY <1>1, <1>3

-----------------------------------------------------------------------------
(* Crash and recovery: the type.                                            *)

\* The three files of a crash have the types of the files.
LEMMA OutcomeType ==
    ASSUME TypeOK, NEW o \in CrashOutcomes
    PROVE  /\ o.disk \in [PageNos -> Content] /\ o.idxFile \subseteq Entries
           /\ o.dw \in Seq(Copies) /\ Len(o.dw) <= BatchSize
<1> DEFINE Typed(f) == /\ f.disk \in [PageNos -> Content] /\ f.idxFile \subseteq Entries
                       /\ f.dw \in Seq(Copies) /\ Len(f.dw) <= BatchSize
<1>1. /\ disk \in [PageNos -> Content] /\ idxFile \subseteq Entries /\ index \subseteq Entries
      /\ dw \in Seq(Copies) /\ Len(dw) <= BatchSize /\ sync.batch \in Seq(Copies)
  BY DEF TypeOK, Syncs
<1>2. CASE o = Now
  BY <1>1, <1>2 DEF Now, FilesOf
<1>3. CASE o = FilesOf(disk, idxFile, <<>>)
  <2>1. <<>> \in Seq(Copies)
    OBVIOUS
  <2> QED
    BY <1>1, <1>3, <2>1, IdleType DEF FilesOf
<1>4. CASE sync.at < Len(sync.batch) /\ o = Torn(sync.batch[sync.at + 1].no)
  <2>1. [disk EXCEPT ![sync.batch[sync.at + 1].no] = Blank] \in [PageNos -> Content]
    BY <1>1, ContentTypes
  <2> QED
    BY <1>1, <1>4, <2>1 DEF Torn, FilesOf
<1>5. ASSUME NEW es \in SUBSET Entries, o = Indexed(es)
      PROVE  Typed(o)
  BY <1>1, <1>5 DEF Indexed, FilesOf
<1>6. CASE \E n \in 1 .. Len(sync.batch) : o = Indexed(NewEntries(SubSeq(sync.batch, 1, n)))
  <2>1. PICK n \in 1 .. Len(sync.batch) : o = Indexed(NewEntries(SubSeq(sync.batch, 1, n)))
    BY <1>6
  <2>2. SubSeq(sync.batch, 1, n) \in Seq(Copies)
    BY <1>1, SubSeqProperties
  <2>3. NewEntries(SubSeq(sync.batch, 1, n)) \subseteq Entries
    BY <2>2, NewEntriesType
  <2> QED
    BY <2>1, <2>3, <1>5
<1>7. CASE \E n \in 1 .. Len(sync.batch) :
             o = Indexed({e \in index : \E i \in 1 .. n : e.no = sync.batch[i].no})
  <2>1. PICK n \in 1 .. Len(sync.batch) :
           o = Indexed({e \in index : \E i \in 1 .. n : e.no = sync.batch[i].no})
    BY <1>7
  <2>2. {e \in index : \E i \in 1 .. n : e.no = sync.batch[i].no} \subseteq Entries
    BY <1>1
  <2> QED
    BY <2>1, <2>2, <1>5
<1> QED
  BY <1>2, <1>3, <1>4, <1>6, <1>7 DEF CrashOutcomes

LEMMA CrashStep ==
    ASSUME TypeOK, Crash
    PROVE  /\ TypeOK'
           /\ sync'.pc = "redo" /\ sync'.vec = NoVec
           /\ \A p \in PageNos : pool'[p] = Absent
<1>1. PICK o \in CrashOutcomes :
         /\ disk' = o.disk /\ idxFile' = o.idxFile /\ dw' = o.dw
         /\ index' = o.idxFile
         /\ nextPageNo' \in NextNo(o.idxFile)
         /\ sync' = [Idle EXCEPT !.pc = "redo", !.batch = o.dw]
         /\ safe' = [k \in Keys |-> IF safe[k] <= Recovered(o, k) THEN safe[k] ELSE 0]
  BY DEF Crash
<1>2. /\ pool' = [p \in PageNos |-> Absent]
      /\ dirtyList' = {} /\ dropped' = {} /\ marked' = NoRecs
      /\ crashes < MaxCrashes /\ crashes' = crashes + 1
      /\ UNCHANGED <<latest, damaged, fails>>
  BY DEF Crash
<1>3. /\ o.disk \in [PageNos -> Content] /\ o.idxFile \subseteq Entries
      /\ o.dw \in Seq(Copies) /\ Len(o.dw) <= BatchSize
  BY OutcomeType
<1>4. /\ sync' \in Syncs /\ sync'.pc = "redo" /\ sync'.vec = NoVec /\ sync'.batch = o.dw /\ sync'.at = 0
  BY <1>1, <1>3, IdleType DEF Syncs
<1>5. 0 <= Len(o.dw)
  <2>1. Len(o.dw) \in Nat
    BY <1>3
  <2> QED
    BY <2>1
<1>6. nextPageNo' \in 1 .. MaxPage + 1
  BY <1>1 DEF NextNo
<1>7. pool' \in [PageNos -> Header]
  BY <1>2, ContentTypes
<1>8. safe' \in [Keys -> 0 .. MaxVer]
  <2>1. \A k \in Keys : safe[k] \in 0 .. MaxVer /\ 0 \in 0 .. MaxVer
    BY NormalPartAssumption DEF TypeOK
  <2> QED
    BY <1>1, <2>1
<1>9. crashes' \in 0 .. MaxCrashes
  BY <1>2, NormalPartAssumption DEF TypeOK
<1>10. marked' \in [Keys -> 0 .. MaxVer] /\ UNCHANGED <<latest, damaged, fails>>
  BY <1>2, ContentTypes
<1>11. sync'.at <= Len(sync'.batch) /\ Len(sync'.batch) <= BatchSize
  BY <1>3, <1>4, <1>5
<1>12. TypeOK'
  BY <1>1, <1>2, <1>3, <1>4, <1>6, <1>7, <1>8, <1>9, <1>10, <1>11 DEF TypeOK
<1> QED
  BY <1>2, <1>4, <1>12

LEMMA RedoStep ==
    ASSUME TypeOK, Redo
    PROVE  /\ TypeOK'
           /\ sync.pc = "redo" /\ sync'.pc = "redo" /\ sync'.vec = sync.vec
           /\ UNCHANGED <<pool, dirtyList, dropped, damaged>>
<1> DEFINE b == sync.batch[sync.at + 1]
           r == RedoPage([index |-> index, disk |-> disk], b)
           past == {e.no + 1 : e \in {f \in Covering(index, b.ts) : f.ts # b.ts /\ f.no >= nextPageNo}}
<1>1. /\ sync.pc = "redo" /\ sync.at < Len(sync.batch)
      /\ index' = r.index /\ disk' = r.disk
      /\ nextPageNo' \in (IF past = {} THEN {nextPageNo} ELSE past)
      /\ sync' = [sync EXCEPT !.at = sync.at + 1]
      /\ UNCHANGED <<pool, dirtyList, idxFile, dw, latest, marked, safe, dropped, damaged, crashes, fails>>
  BY DEF Redo, history
<1>2. b \in Copies /\ b.no \in PageNos /\ [ts |-> b.ts, recs |-> b.recs] \in Content
  BY <1>1, AtType, BatchPage
<1>3. Entry(b.ts, b.no) \in Entries
  BY <1>2 DEF Entry, Entries, Copies
<1>4. index \subseteq Entries /\ disk \in [PageNos -> Content] /\ nextPageNo \in 1 .. MaxPage + 1
      /\ sync \in Syncs
  BY DEF TypeOK
<1>5. past \subseteq 1 .. MaxPage + 1
  BY <1>4, NormalPartAssumption DEF Covering, Entries, PageNos
<1> HIDE DEF b, past
<1>6. index' \subseteq Entries /\ disk' \in [PageNos -> Content]
  BY <1>1, <1>2, <1>3, <1>4 DEF RedoPage
<1>7. nextPageNo' \in 1 .. MaxPage + 1
  BY <1>1, <1>4, <1>5
<1>8. sync' \in Syncs /\ sync'.pc = "redo" /\ sync'.vec = sync.vec /\ sync'.batch = sync.batch
      /\ sync'.at = sync.at + 1
  <2>1. sync.at + 1 \in Nat
    BY AtType
  <2> QED
    BY <1>1, <1>4, <2>1 DEF Syncs
<1>9. sync'.at <= Len(sync'.batch) /\ Len(sync'.batch) <= BatchSize
  <2>1. PICK n \in Nat, a \in Nat : n = Len(sync.batch) /\ a = sync.at /\ a < n
    BY <1>1, AtType
  <2>2. a + 1 <= n
    BY <2>1
  <2>3. Len(sync'.batch) = n /\ sync'.at = a + 1
    BY <1>8, <2>1
  <2>4. n <= BatchSize
    BY <2>1, AtType
  <2> QED
    BY <2>2, <2>3, <2>4
<1>10. TypeOK'
  BY <1>1, <1>6, <1>7, <1>8, <1>9 DEF TypeOK
<1> QED
  BY <1>1, <1>8, <1>10

LEMMA EndRedoStep ==
    ASSUME TypeOK, EndRedo
    PROVE  /\ TypeOK'
           /\ sync.pc = "redo" /\ sync' = Idle
           /\ UNCHANGED <<pool, dirtyList, disk, dropped>>
<1>1. /\ sync.pc = "redo" /\ sync' = Idle
      /\ idxFile' = index /\ dw' = <<>>
      /\ latest' = [k \in Keys |-> Find(index, disk, k)]
      /\ damaged' = damaged \cup TornRestart
      /\ UNCHANGED <<index, nextPageNo, pool, dirtyList, disk, marked, safe, dropped, crashes, fails>>
  BY DEF EndRedo, memVars
<1>2. index \subseteq Entries /\ disk \in [PageNos -> Content]
  BY DEF TypeOK
<1>3. ASSUME NEW k \in Keys
      PROVE  Find(index, disk, k) \in 0 .. MaxVer
  <2>1. CASE Covering(index, k) = {}
    BY <2>1, NormalPartAssumption DEF Find
  <2>2. CASE Covering(index, k) # {}
    <3> DEFINE e == CHOOSE e \in Covering(index, k) : TRUE
    <3>1. e \in Covering(index, k)
      BY <2>2
    <3>2. e.no \in PageNos
      BY <1>2, <3>1 DEF Covering, Entries
    <3>3. Find(index, disk, k) = disk[e.no].recs[k]
      BY <2>2 DEF Find
    <3> HIDE DEF e
    <3>4. disk[e.no].recs \in [Keys -> 0 .. MaxVer]
      BY <1>2, <3>2 DEF Content
    <3> QED
      BY <3>3, <3>4
  <2> QED
    BY <2>1, <2>2
<1>4. latest' \in [Keys -> 0 .. MaxVer]
  BY <1>1, <1>3
<1>5. damaged' \subseteq {"doubled", "reused", "torn", "headless"}
  BY <1>1 DEF TornRestart, TypeOK
<1>6. dw' \in Seq(Copies) /\ Len(dw') <= BatchSize
  <2>1. <<>> \in Seq(Copies)
    OBVIOUS
  <2> QED
    BY <1>1, <2>1, IdleType
<1>7. TypeOK'
  BY <1>1, <1>2, <1>4, <1>5, <1>6, IdleType DEF TypeOK
<1> QED
  BY <1>1, <1>7

-----------------------------------------------------------------------------
(* The inductive invariant.                                                 *)

Left == sync.at + 1 .. Len(sync.batch)

\* What the place in the writer says of its locals.
Control ==
    /\ sync.pc \in {"idle", "split", "rest"} => sync.vec = NoVec /\ sync.batch = <<>> /\ sync.at = 0
    /\ sync.pc = "copy" => sync.at = 0 /\ Len(sync.batch) < BatchSize
    /\ sync.pc = "dw" => sync.at = 0 /\ sync.batch # <<>>
    /\ sync.pc = "data" => sync.at < Len(sync.batch)
    /\ sync.pc = "index" => sync.at = Len(sync.batch)
    /\ sync.pc = "redo" => sync.vec = NoVec /\ \A p \in PageNos : pool[p] = Absent

\* A page the writer holds stays due until it is written, so it stays in the pool;
\* and the writer holds it once.
Owned ==
    /\ \A p \in PageNos : IsDirty(pool[p]) => pool[p].init
    /\ sync.pc # "redo" =>
          /\ \A p \in InHand : pool[p].due
          /\ \A i, j \in Left : sync.batch[i].no = sync.batch[j].no => i = j
          /\ \A i \in Left : sync.batch[i].no \notin DOMAIN sync.vec

\* A page in the buffer that was not changed since it was copied is the page in the
\* pool.
SameAsPool(b, h) == ~h.fresh => b.ts = h.ts /\ b.recs = h.recs
Copied == sync.pc # "redo" => \A i \in Left : SameAsPool(sync.batch[i], pool[sync.batch[i].no])

IInv == TypeOK /\ Control /\ Owned /\ Copied /\ DirtyIsListed /\ CleanIsOnDisk

LEMMA InHandType ==
    ASSUME TypeOK
    PROVE  /\ InHand \subseteq PageNos
           /\ DOMAIN sync.vec \subseteq InHand
           /\ \A i \in Left : /\ i \in 1 .. Len(sync.batch) /\ sync.batch[i] \in Copies
                              /\ sync.batch[i].no \in PageNos /\ sync.batch[i].no \in InHand
<1>1. DOMAIN sync.vec \subseteq PageNos
  BY VecTypes DEF TypeOK, Syncs
<1>2. \A i \in Left : i \in 1 .. Len(sync.batch)
  BY AtType DEF Left
<1>3. \A i \in Left : sync.batch[i] \in Copies /\ sync.batch[i].no \in PageNos
  BY <1>2, BatchPage
<1> QED
  BY <1>1, <1>2, <1>3 DEF InHand, Left

\* A step that leaves the writer and the files alone, and never makes a page less
\* dirty, keeps the invariant if it lists the pages it makes dirty.
LEMMA PoolStep ==
    ASSUME IInv, TypeOK', sync.pc # "redo", UNCHANGED <<sync, disk, dropped>>,
           dirtyList \subseteq dirtyList',
           \A p \in PageNos :
              /\ pool[p].due => pool'[p].due
              /\ IsDirty(pool'[p]) => pool'[p].init /\ (IsDirty(pool[p]) \/ p \in dirtyList')
              /\ \/ pool'[p].fresh
                 \/ ~pool'[p].init
                 \/ ~pool[p].init /\ pool'[p].ts = disk[p].ts /\ pool'[p].recs = disk[p].recs
                 \/ /\ pool[p].init /\ pool'[p].ts = pool[p].ts /\ pool'[p].recs = pool[p].recs
                    /\ ~pool[p].fresh
    PROVE  IInv'
<1>1. TypeOK /\ Control /\ Owned /\ Copied /\ DirtyIsListed /\ CleanIsOnDisk
  BY DEF IInv
<1>2. Left' = Left /\ InHand' = InHand /\ sync'.pc = sync.pc
  BY DEF Left, InHand
<1>3. \A i \in Left : sync.batch[i].no \in PageNos /\ sync.batch[i].no \in InHand
  BY <1>1, InHandType
<1>4. Control'
  BY <1>1 DEF Control
<1>5. Owned'
  <2>1. \A p \in PageNos : IsDirty(pool'[p]) => pool'[p].init
    OBVIOUS
  <2>2. \A p \in InHand : pool'[p].due
    BY <1>1, InHandType DEF Owned
  <2> QED
    BY <1>1, <1>2, <2>1, <2>2 DEF Owned
<1>6. Copied'
  <2> SUFFICES ASSUME NEW i \in Left, ~pool'[sync.batch[i].no].fresh
               PROVE  /\ sync.batch[i].ts = pool'[sync.batch[i].no].ts
                      /\ sync.batch[i].recs = pool'[sync.batch[i].no].recs
    BY <1>2 DEF Copied, SameAsPool
  <2> DEFINE p == sync.batch[i].no
  <2>1. p \in PageNos /\ pool[p].due /\ pool[p].init
    BY <1>1, <1>3 DEF Owned, IsDirty
  <2>2. pool'[p].init
    BY <2>1 DEF IsDirty
  <2>3. pool'[p].ts = pool[p].ts /\ pool'[p].recs = pool[p].recs /\ ~pool[p].fresh
    BY <2>1, <2>2
  <2> QED
    BY <1>1, <2>3 DEF Copied, SameAsPool
<1>7. DirtyIsListed'
  BY <1>1, <1>2 DEF DirtyIsListed
<1>8. CleanIsOnDisk'
  BY <1>1 DEF CleanIsOnDisk, IsDirty
<1> QED
  BY <1>4, <1>5, <1>6, <1>7, <1>8 DEF IInv

LEMMA InsertInv ==
    ASSUME IInv, NEW k \in Keys, InsertRec(k)
    PROVE  IInv'
<1>1. TypeOK /\ Control /\ Owned /\ DirtyIsListed /\ CleanIsOnDisk
  BY DEF IInv
<1>2. sync.pc # "redo" /\ latest[k] < MaxVer
  BY DEF InsertRec
<1> DEFINE n == nextPageNo
\* A page the step leaves alone, and one it fills.
<1>3. \A p \in PageNos : (IsDirty(pool[p]) => pool[p].init) /\ (pool[p].due => pool[p].init)
  BY <1>1 DEF Owned, IsDirty
<1>4. CASE InsertFirst(k)
  <2>1. /\ TypeOK' /\ n \in PageNos
        /\ \A q \in PageNos : q # n => pool'[q] = pool[q]
        /\ pool'[n].init /\ pool'[n].fresh /\ (pool'[n].due <=> pool[n].due)
        /\ dirtyList' = dirtyList \cup {n}
        /\ UNCHANGED <<sync, disk, dropped>>
    BY <1>1, <1>2, <1>4, FirstStep
  <2> HIDE DEF n
  <2> QED
    BY <1>2, <1>3, <2>1, PoolStep
<1>5. ASSUME NEW p \in PageNos, InsertInPage(k, p)
      PROVE  IInv'
  <2>1. /\ TypeOK'
        /\ \A q \in PageNos : q # p => pool'[q] = pool[q]
        /\ pool'[p].init /\ pool'[p].fresh /\ (pool'[p].due <=> Page(p).due)
        /\ dirtyList' = IF IsDirty(Page(p)) THEN dirtyList ELSE dirtyList \cup {p}
        /\ UNCHANGED <<sync, disk, dropped>>
    BY <1>1, <1>2, <1>5, InPageStep
  <2>2. /\ pool[p].due => pool'[p].due
        /\ IsDirty(pool[p]) \/ p \in dirtyList'
    BY <1>1, <1>3, <2>1, PageType DEF IsDirty
  <2> QED
    BY <1>2, <1>3, <2>1, <2>2, PoolStep
<1>6. ASSUME NEW p \in PageNos, InsertAfter(k, p)
      PROVE  IInv'
  <2>1. /\ TypeOK' /\ n \in PageNos
        /\ \A q \in PageNos : q # p /\ q # n => pool'[q] = pool[q]
        /\ p # n => /\ pool'[p].init /\ (pool'[p].due <=> Page(p).due)
                    /\ pool'[p].fresh <=> Page(p).fresh
                    /\ pool'[p].ts = Page(p).ts /\ pool'[p].recs = Page(p).recs
        /\ pool'[n].init /\ pool'[n].fresh /\ (pool'[n].due <=> pool[n].due)
        /\ dirtyList' = dirtyList \cup {n}
        /\ UNCHANGED <<sync, disk, dropped>>
    BY <1>1, <1>2, <1>6, AfterStep
  <2> HIDE DEF n
  <2>2. p # n => /\ pool[p].due => pool'[p].due
                 /\ IsDirty(pool'[p]) => IsDirty(pool[p])
                 /\ \/ pool'[p].fresh
                    \/ ~pool[p].init /\ pool'[p].ts = disk[p].ts /\ pool'[p].recs = disk[p].recs
                    \/ /\ pool[p].init /\ pool'[p].ts = pool[p].ts /\ pool'[p].recs = pool[p].recs
                       /\ ~pool[p].fresh
    BY <1>1, <1>3, <2>1, PageType DEF IsDirty
  <2> QED
    BY <1>2, <1>3, <2>1, <2>2, PoolStep
<1>7. ASSUME NEW e \in index, InsertSplit(k, e)
      PROVE  IInv'
  <2> DEFINE p == e.no
  <2>1. /\ TypeOK' /\ p \in PageNos /\ n \in PageNos
        /\ \A q \in PageNos : q # p /\ q # n => pool'[q] = pool[q]
        /\ p # n => pool'[p].init /\ pool'[p].fresh /\ (pool'[p].due <=> Page(p).due)
        /\ pool'[n].init /\ pool'[n].fresh /\ (pool'[n].due <=> pool[n].due)
        /\ dirtyList' = dirtyList \cup (IF IsDirty(Page(p)) THEN {n} ELSE {n, p})
        /\ UNCHANGED <<sync, disk, dropped>>
    BY <1>1, <1>2, <1>7, SplitStep
  <2> HIDE DEF n, p
  <2>2. p # n => /\ pool[p].due => pool'[p].due
                 /\ IsDirty(pool[p]) \/ p \in dirtyList'
    BY <1>1, <1>3, <2>1, PageType DEF IsDirty
  <2> QED
    BY <1>2, <1>3, <2>1, <2>2, PoolStep
<1>8. \A e \in Covering(index, k) : e \in index /\ e.no \in PageNos
  BY <1>1 DEF Covering, TypeOK, Entries
<1> QED
  BY <1>4, <1>5, <1>6, <1>7, <1>8 DEF InsertRec

LEMMA EvictInv ==
    ASSUME IInv, NEW p \in PageNos, Evict(p)
    PROVE  IInv'
<1>1. TypeOK /\ Control /\ Owned
  BY DEF IInv
<1>2. /\ TypeOK' /\ pool[p].init /\ ~IsDirty(pool[p])
      /\ pool' = [pool EXCEPT ![p] = Absent]
      /\ UNCHANGED <<dirtyList, sync, disk, dropped>>
  BY <1>1, EvictStep
<1>3. sync.pc # "redo"
  BY <1>1, <1>2, ContentTypes DEF Control
<1>4. pool'[p] = Absent /\ \A q \in PageNos : q # p => pool'[q] = pool[q]
  BY <1>1, <1>2 DEF TypeOK
<1>5. \A q \in PageNos : IsDirty(pool[q]) => pool[q].init
  BY <1>1 DEF Owned
<1>6. ~pool[p].due
  BY <1>2 DEF IsDirty
<1> QED
  BY <1>2, <1>3, <1>4, <1>5, <1>6, PoolStep, ContentTypes

\* A step of the writer that changes no page.
LEMMA HandStep ==
    ASSUME IInv, TypeOK', Control', UNCHANGED <<pool, disk>>,
           sync.pc # "redo", sync'.pc # "redo", dropped \subseteq dropped',
           \A p \in InHand' : pool[p].due,
           dirtyList \cup InHand \subseteq dirtyList' \cup InHand' \cup dropped',
           \/ sync'.batch = <<>> /\ sync'.at = 0
           \/ sync'.batch = sync.batch /\ sync'.at = sync.at /\ sync'.vec = sync.vec
    PROVE  IInv'
<1>1. TypeOK /\ Owned /\ Copied /\ DirtyIsListed /\ CleanIsOnDisk
  BY DEF IInv
<1>2. Owned' /\ Copied'
  <2>1. CASE sync'.batch = <<>> /\ sync'.at = 0
    <3>1. \A i : i \notin Left'
      BY <2>1, IdleType DEF Left
    <3> QED
      BY <1>1, <3>1 DEF Owned, Copied
  <2>2. CASE sync'.batch = sync.batch /\ sync'.at = sync.at /\ sync'.vec = sync.vec
    BY <1>1, <2>2 DEF Owned, Copied, Left
  <2> QED
    BY <2>1, <2>2
<1>3. DirtyIsListed' /\ CleanIsOnDisk'
  BY <1>1 DEF DirtyIsListed, CleanIsOnDisk
<1> QED
  BY <1>2, <1>3 DEF IInv

\* The writer holds the pages of vec, when no page is in the buffer.
LEMMA EmptyBuffer ==
    /\ (sync.batch = <<>> /\ sync.at = 0) => InHand = DOMAIN sync.vec /\ Left = {}
    /\ (sync.batch = <<>> /\ sync.at = 0)' => (InHand' = DOMAIN sync'.vec /\ Left' = {})
<1>1. 0 + 1 .. Len(<<>>) = {}
  BY IdleType
<1> QED
  BY <1>1 DEF InHand, Left

LEMMA MarkInv ==
    ASSUME IInv, NEW all \in BOOLEAN, Mark(all)
    PROVE  IInv'
<1>1. TypeOK /\ Control /\ Owned /\ DirtyIsListed /\ CleanIsOnDisk
  BY DEF IInv
<1>2. /\ TypeOK'
      /\ sync.pc = "idle" /\ sync'.pc = "split" /\ sync'.vec = NoVec
      /\ sync'.batch = <<>> /\ sync'.at = 0
      /\ \A p \in PageNos : pool'[p] = pool[p] \/ pool'[p] = RoundRobin(pool[p])
      /\ UNCHANGED <<dirtyList, disk, dropped>>
  BY <1>1, MarkStep
<1>3. \A p \in PageNos : /\ IsDirty(pool'[p]) <=> IsDirty(pool[p])
                         /\ pool'[p].ts = pool[p].ts /\ pool'[p].recs = pool[p].recs
                         /\ pool'[p].init <=> pool[p].init
  <2> TAKE p \in PageNos
  <2>1. pool[p] \in Header
    BY <1>1 DEF TypeOK
  <2>2. CASE pool'[p] = pool[p]
    BY <2>2
  <2>3. CASE pool'[p] = RoundRobin(pool[p])
    BY <2>1, <2>3, RoundRobinType
  <2> QED
    BY <1>2, <2>2, <2>3
<1>4. InHand = {} /\ InHand' = {} /\ Left' = {}
  BY <1>1, <1>2, EmptyBuffer, VecTypes DEF Control
<1>5. Control'
  BY <1>2 DEF Control
<1>6. Owned' /\ Copied'
  BY <1>1, <1>3, <1>4 DEF Owned, Copied
<1>7. DirtyIsListed' /\ CleanIsOnDisk'
  BY <1>1, <1>2, <1>3, <1>4 DEF DirtyIsListed, CleanIsOnDisk
<1> QED
  BY <1>2, <1>5, <1>6, <1>7 DEF IInv

LEMMA TakeInv ==
    ASSUME IInv, TakeSplit \/ TakeRest
    PROVE  IInv'
<1>1. TypeOK /\ Control
  BY DEF IInv
<1>2. sync.pc \in {"split", "rest"}
  BY DEF TakeSplit, TakeRest
<1>3. sync.vec = NoVec /\ sync.batch = <<>> /\ sync.at = 0
  BY <1>1, <1>2 DEF Control
<1>4. /\ TypeOK'
      /\ sync'.batch = <<>> /\ sync'.at = 0
      /\ dirtyList' = dirtyList \ DOMAIN sync'.vec
      /\ DOMAIN sync'.vec \subseteq Due
      /\ \/ sync'.pc \in {"idle", "rest"} /\ sync'.vec = NoVec
         \/ sync'.pc = "copy"
      /\ UNCHANGED <<pool, disk, dropped>>
  BY <1>1, <1>3, TakeSplitStep, TakeRestStep
<1>5. Control'
  BY <1>4, IdleType, NormalPartAssumption DEF Control
<1>6. InHand = {} /\ InHand' = DOMAIN sync'.vec
  BY <1>3, <1>4, EmptyBuffer, VecTypes
<1>7. \A p \in InHand' : pool[p].due
  BY <1>4, <1>6 DEF Due
<1> QED
  BY <1>2, <1>4, <1>5, <1>6, <1>7, HandStep

LEMMA WriteDwInv ==
    ASSUME IInv, WriteDw
    PROVE  IInv'
<1>1. TypeOK /\ Control /\ Owned
  BY DEF IInv
<1>2. /\ TypeOK'
      /\ sync.pc = "dw" /\ sync'.pc = "data" /\ sync'.vec = sync.vec
      /\ sync'.batch = sync.batch /\ sync'.at = sync.at
      /\ UNCHANGED <<pool, dirtyList, disk, dropped>>
  BY <1>1, WriteDwStep
<1>3. sync.at < Len(sync.batch)
  <2>1. sync.batch \in Seq(Copies) /\ sync.batch # <<>>
    BY <1>1, <1>2 DEF Control, TypeOK, Syncs
  <2>2. Len(sync.batch) \in Nat /\ Len(sync.batch) # 0
    BY <2>1, EmptySeq
  <2>3. sync.at = 0
    BY <1>1, <1>2 DEF Control
  <2> QED
    BY <2>2, <2>3
<1>4. Control'
  BY <1>2, <1>3 DEF Control
<1>5. InHand' = InHand
  BY <1>2 DEF InHand
<1>6. \A p \in InHand' : pool[p].due
  BY <1>1, <1>2, <1>5 DEF Owned
<1> QED
  BY <1>2, <1>4, <1>5, <1>6, HandStep

LEMMA WriteIdxInv ==
    ASSUME IInv, WriteIdx \/ WriteIdxFails
    PROVE  IInv'
<1>1. TypeOK /\ Control /\ Owned
  BY DEF IInv
<1>2. /\ TypeOK'
      /\ sync.pc = "index" /\ dropped \subseteq dropped'
      /\ \/ Emptied /\ DOMAIN sync.vec = {}
         \/ /\ sync'.pc = "copy" /\ sync'.vec = sync.vec
            /\ sync'.batch = <<>> /\ sync'.at = 0
      /\ UNCHANGED <<pool, dirtyList, disk>>
  BY <1>1, WriteIdxStep
<1>3. InHand = DOMAIN sync.vec
  <2>1. Left = {}
    <3>1. sync.at = Len(sync.batch) /\ Len(sync.batch) \in Nat
      BY <1>1, <1>2, AtType DEF Control
    <3> QED
      BY <3>1 DEF Left
  <2> QED
    BY <2>1 DEF InHand, Left
<1>4. InHand' = DOMAIN sync'.vec /\ DOMAIN sync'.vec = DOMAIN sync.vec
  BY <1>2, EmptyBuffer, VecTypes DEF Emptied
<1>5. Control'
  BY <1>2, IdleType, NormalPartAssumption DEF Control, Emptied
<1>6. \A p \in InHand' : pool[p].due
  BY <1>1, <1>2, <1>3, <1>4 DEF Owned
<1>7. sync'.batch = <<>> /\ sync'.at = 0 /\ sync'.pc # "redo"
  BY <1>2 DEF Emptied
<1> QED
  BY <1>2, <1>3, <1>4, <1>5, <1>6, <1>7, HandStep

LEMMA WriteFailsInv ==
    ASSUME IInv, WriteFails
    PROVE  IInv'
<1>1. TypeOK /\ Control /\ Owned /\ DirtyIsListed /\ CleanIsOnDisk
  BY DEF IInv
<1>2. /\ TypeOK'
      /\ sync.pc \in {"dw", "data"} /\ Emptied
      /\ dropped' = dropped \cup DOMAIN sync.vec \cup InBatch
      /\ \A p \in PageNos : disk'[p] # disk[p] =>
            sync.pc = "data" /\ p = sync.batch[sync.at + 1].no
      /\ UNCHANGED <<pool, dirtyList>>
  BY <1>1, WriteFailsStep DEF Control
<1>3. InHand' = {} /\ Left' = {}
  BY <1>2, EmptyBuffer, VecTypes DEF Emptied
<1>4. InHand \subseteq DOMAIN sync.vec \cup InBatch
  <2>1. \A i \in Left : i \in 1 .. Len(sync.batch)
    BY <1>1, InHandType
  <2> QED
    BY <2>1 DEF InHand, InBatch, Left
<1>5. Control'
  BY <1>2 DEF Control, Emptied
<1>6. Owned' /\ Copied'
  BY <1>1, <1>2, <1>3 DEF Owned, Copied
<1>7. DirtyIsListed'
  BY <1>1, <1>2, <1>4 DEF DirtyIsListed
\* The page that may be torn is in the writer's hands, and dirty.
<1>8. \A p \in PageNos : ~IsDirty(pool[p]) => disk'[p] = disk[p]
  <2> SUFFICES ASSUME NEW p \in PageNos, disk'[p] # disk[p]
               PROVE  IsDirty(pool[p])
    OBVIOUS
  <2>1. sync.pc = "data" /\ p = sync.batch[sync.at + 1].no
    BY <1>2
  <2>2. sync.at + 1 \in Left
    <3>1. sync.at < Len(sync.batch)
      BY <1>1, <2>1 DEF Control
    <3> QED
      BY <1>1, <3>1, AtType DEF Left
  <2>3. p \in InHand
    BY <1>1, <2>1, <2>2, InHandType
  <2> QED
    BY <1>1, <2>1, <2>3 DEF Owned, IsDirty
<1>9. CleanIsOnDisk'
  BY <1>1, <1>2, <1>8 DEF CleanIsOnDisk
<1> QED
  BY <1>2, <1>5, <1>6, <1>7, <1>9 DEF IInv

LEMMA CopyPageInv ==
    ASSUME IInv, NEW p \in PageNos, CopyPage(p)
    PROVE  IInv'
<1>1. TypeOK /\ Control /\ Owned /\ Copied /\ DirtyIsListed /\ CleanIsOnDisk
  BY DEF IInv
<1>2. sync.pc = "copy" /\ sync.at = 0 /\ Len(sync.batch) < BatchSize
  BY <1>1 DEF CopyPage, Control
<1>3. PICK c \in Copies : /\ c.no = p /\ c.ts = pool[p].ts /\ c.recs = pool[p].recs
                          /\ sync'.batch = Append(sync.batch, c)
  BY <1>1, <1>2, CopyPageStep
<1>4. /\ TypeOK' /\ p \in DOMAIN sync.vec
      /\ DOMAIN sync'.vec = DOMAIN sync.vec \ {p} /\ sync'.at = 0
      /\ \/ sync'.pc = "dw"
         \/ sync'.pc = "copy" /\ Len(sync'.batch) < BatchSize
      /\ pool' = [pool EXCEPT ![p] = RoundRobin(pool[p])]
      /\ UNCHANGED <<dirtyList, disk, dropped>>
  BY <1>1, <1>2, CopyPageStep
<1>5. PICK m \in Nat : m = Len(sync.batch)
  BY <1>1, AtType
<1>6. sync.batch \in Seq(Copies)
  BY <1>1 DEF TypeOK, Syncs
<1>7. /\ Len(sync'.batch) = m + 1 /\ sync'.batch # <<>>
      /\ \A i \in 1 .. m : sync'.batch[i] = sync.batch[i]
      /\ sync'.batch[m + 1] = c
  BY <1>3, <1>5, <1>6, AppendProperties
<1>8. Left = 1 .. m /\ Left' = 1 .. m + 1
  BY <1>2, <1>4, <1>5, <1>7 DEF Left
\* The same pages are in the writer's hands.
<1>9. InHand' = InHand
  <2>1. InHand = DOMAIN sync.vec \cup {sync.batch[i].no : i \in 1 .. m}
    BY <1>8 DEF InHand, Left
  <2>2. InHand' = DOMAIN sync'.vec \cup {sync'.batch[i].no : i \in 1 .. m + 1}
    BY <1>8 DEF InHand, Left
  <2>3. {sync'.batch[i].no : i \in 1 .. m + 1} = {sync.batch[i].no : i \in 1 .. m} \cup {p}
    BY <1>3, <1>7
  <2> QED
    BY <1>4, <2>1, <2>2, <2>3
<1>10. /\ pool'[p] = RoundRobin(pool[p]) /\ pool[p] \in Header
       /\ \A q \in PageNos : q # p => pool'[q] = pool[q]
  BY <1>1, <1>4 DEF TypeOK
<1>11. pool[p].due /\ IsDirty(pool[p]) /\ pool[p].init
  BY <1>1, <1>2, <1>4, InHandType DEF Owned, IsDirty
<1>12. /\ pool'[p].due /\ ~pool'[p].fresh /\ pool'[p].init /\ IsDirty(pool'[p])
       /\ pool'[p].ts = pool[p].ts /\ pool'[p].recs = pool[p].recs
  BY <1>10, <1>11, RoundRobinType
<1>13. Control'
  BY <1>4, <1>7 DEF Control
<1>14. Owned'
  <2>1. \A q \in PageNos : IsDirty(pool'[q]) => pool'[q].init
    BY <1>1, <1>10, <1>12 DEF Owned
  <2>2. \A q \in InHand' : pool'[q].due
    BY <1>1, <1>2, <1>9, <1>10, <1>12, InHandType DEF Owned
  <2>3. \A i \in 1 .. m : /\ sync.batch[i].no \notin DOMAIN sync.vec
                          /\ \A j \in 1 .. m : sync.batch[i].no = sync.batch[j].no => i = j
    BY <1>1, <1>2, <1>8 DEF Owned
  <2>4. \A i \in 1 .. m + 1 : i \in 1 .. m \/ i = m + 1
    OBVIOUS
  <2>5. \A i, j \in 1 .. m + 1 : sync'.batch[i].no = sync'.batch[j].no => i = j
    <3> TAKE i, j \in 1 .. m + 1
    <3> HAVE sync'.batch[i].no = sync'.batch[j].no
    <3>1. CASE i \in 1 .. m /\ j \in 1 .. m
      BY <3>1, <2>3, <1>7
    <3>2. CASE i \in 1 .. m /\ j = m + 1
      BY <3>2, <2>3, <1>3, <1>4, <1>7
    <3>3. CASE i = m + 1 /\ j \in 1 .. m
      BY <3>3, <2>3, <1>3, <1>4, <1>7
    <3>4. CASE i = m + 1 /\ j = m + 1
      BY <3>4
    <3> QED
      BY <2>4, <3>1, <3>2, <3>3, <3>4
  <2>6. \A i \in 1 .. m + 1 : sync'.batch[i].no \notin DOMAIN sync'.vec
    BY <1>3, <1>4, <1>7, <2>3, <2>4
  <2> QED
    BY <1>8, <2>1, <2>2, <2>5, <2>6 DEF Owned
<1>15. Copied'
  <2>1. SUFFICES ASSUME NEW i \in 1 .. m + 1
                 PROVE  SameAsPool(sync'.batch[i], pool'[sync'.batch[i].no])
    BY <1>8 DEF Copied
  <2>2. CASE i = m + 1
    BY <2>2, <1>3, <1>7, <1>12 DEF SameAsPool
  <2>3. CASE i \in 1 .. m
    <3>1. sync.batch[i].no \in PageNos /\ sync.batch[i].no # p
      BY <2>3, <1>1, <1>2, <1>4, <1>8, InHandType DEF Owned
    <3>2. SameAsPool(sync.batch[i], pool[sync.batch[i].no])
      BY <2>3, <1>1, <1>2, <1>8 DEF Copied
    <3> QED
      BY <2>3, <3>1, <3>2, <1>7, <1>10
  <2> QED
    BY <2>2, <2>3
<1>16. DirtyIsListed'
  BY <1>1, <1>4, <1>9, <1>10, <1>11 DEF DirtyIsListed
<1>17. CleanIsOnDisk'
  BY <1>1, <1>4, <1>10, <1>12 DEF CleanIsOnDisk
<1> QED
  BY <1>4, <1>13, <1>14, <1>15, <1>16, <1>17 DEF IInv

LEMMA WriteDataInv ==
    ASSUME IInv, WriteData
    PROVE  IInv'
<1>1. TypeOK /\ Control /\ Owned /\ Copied /\ DirtyIsListed /\ CleanIsOnDisk
  BY DEF IInv
<1>2. sync.pc = "data" /\ sync.at < Len(sync.batch)
  BY <1>1 DEF WriteData, Control
<1> DEFINE b == sync.batch[sync.at + 1]
           p == b.no
<1>3. /\ TypeOK' /\ p \in PageNos
      /\ sync'.vec = sync.vec /\ sync'.batch = sync.batch /\ sync'.at = sync.at + 1
      /\ \/ sync'.pc = "data" /\ sync'.at < Len(sync'.batch)
         \/ sync'.pc = "index" /\ sync'.at = Len(sync'.batch)
      /\ pool' = [pool EXCEPT ![p] = Synced(pool[p])]
      /\ dirtyList' = IF pool[p].fresh THEN dirtyList \cup {p} ELSE dirtyList
      /\ disk' = [disk EXCEPT ![p] = [ts |-> b.ts, recs |-> b.recs]]
      /\ UNCHANGED dropped
  BY <1>1, <1>2, WriteDataStep
<1>4. PICK a \in Nat, n \in Nat : a = sync.at /\ n = Len(sync.batch) /\ a < n
  BY <1>1, <1>2, AtType
<1>5. Left = a + 1 .. n /\ Left' = a + 2 .. n
  BY <1>3, <1>4 DEF Left
<1>6. b = sync.batch[a + 1] /\ a + 1 \in Left
      /\ Left' \subseteq Left /\ a + 1 \notin Left' /\ \A i \in Left : i = a + 1 \/ i \in Left'
  BY <1>4, <1>5
<1>7. /\ \A i \in Left' : sync.batch[i].no # p
      /\ p \notin DOMAIN sync.vec
      /\ pool[p].due /\ pool[p].init
  <2>1. p \in InHand
    BY <1>1, <1>6, InHandType
  <2>2. pool[p].due /\ pool[p].init
    BY <1>1, <1>2, <1>3, <2>1 DEF Owned, IsDirty
  <2> QED
    BY <1>1, <1>2, <1>6, <2>2 DEF Owned
<1>8. InHand = InHand' \cup {p} /\ InHand' = DOMAIN sync.vec \cup {sync.batch[i].no : i \in Left'}
  BY <1>3, <1>6 DEF InHand, Left
<1>9. p \notin InHand'
  BY <1>7, <1>8
<1> HIDE DEF p, b
<1>10. pool[p] \in Header /\ pool \in [PageNos -> Header] /\ disk \in [PageNos -> Content]
  BY <1>1, <1>3 DEF TypeOK
<1>11. /\ pool'[p] = Synced(pool[p]) /\ disk'[p] = [ts |-> b.ts, recs |-> b.recs]
       /\ \A q \in PageNos : q # p => pool'[q] = pool[q] /\ disk'[q] = disk[q]
  BY <1>3, <1>10
<1>12. /\ IsDirty(pool'[p]) <=> pool[p].fresh
       /\ pool'[p].ts = pool[p].ts /\ pool'[p].recs = pool[p].recs /\ pool'[p].init
  BY <1>7, <1>10, <1>11, SyncedType
<1>13. Control'
  BY <1>3 DEF Control
<1>14. Owned'
  <2>1. \A q \in PageNos : IsDirty(pool'[q]) => pool'[q].init
    BY <1>1, <1>11, <1>12 DEF Owned
  <2>2. \A q \in InHand' : pool'[q].due
    BY <1>1, <1>2, <1>8, <1>9, <1>11, InHandType DEF Owned
  <2> QED
    BY <1>1, <1>2, <1>3, <1>6, <2>1, <2>2 DEF Owned
<1>15. Copied'
  <2>1. SUFFICES ASSUME NEW i \in Left'
                 PROVE  SameAsPool(sync.batch[i], pool'[sync.batch[i].no])
    BY <1>3 DEF Copied
  <2>2. sync.batch[i].no \in PageNos /\ sync.batch[i].no # p
    BY <1>1, <1>6, <1>7, InHandType
  <2> QED
    BY <1>1, <1>2, <1>6, <1>11, <2>2 DEF Copied
<1>16. DirtyIsListed'
  <2> SUFFICES ASSUME NEW q \in PageNos \ dropped, IsDirty(pool'[q])
               PROVE  q \in dirtyList' \cup InHand'
    BY <1>3 DEF DirtyIsListed
  <2>1. CASE q = p
    BY <2>1, <1>3, <1>12
  <2>2. CASE q # p
    BY <2>2, <1>1, <1>3, <1>8, <1>11 DEF DirtyIsListed
  <2> QED
    BY <2>1, <2>2
<1>17. CleanIsOnDisk'
  <2> SUFFICES ASSUME NEW q \in PageNos, pool'[q].init, ~IsDirty(pool'[q])
               PROVE  pool'[q].ts = disk'[q].ts /\ pool'[q].recs = disk'[q].recs
    BY <1>3 DEF CleanIsOnDisk
  <2>1. CASE q = p
    <3>1. SameAsPool(b, pool[p])
      BY <1>1, <1>2, <1>6 DEF Copied, p
    <3> QED
      BY <2>1, <3>1, <1>11, <1>12 DEF SameAsPool
  <2>2. CASE q # p
    BY <2>2, <1>1, <1>11 DEF CleanIsOnDisk
  <2> QED
    BY <2>1, <2>2
<1> QED
  BY <1>3, <1>13, <1>14, <1>15, <1>16, <1>17 DEF IInv

\* A start: the pool is empty.
LEMMA RestartInv ==
    ASSUME IInv, Crash \/ Redo \/ EndRedo
    PROVE  IInv'
<1>1. TypeOK /\ Control
  BY DEF IInv
<1>2. TypeOK' /\ Control' /\ \A p \in PageNos : pool'[p] = Absent
  <2>1. CASE Crash
    BY <1>1, <2>1, CrashStep DEF Control
  <2>2. CASE Redo
    BY <1>1, <2>2, RedoStep DEF Control
  <2>3. CASE EndRedo
    BY <1>1, <2>3, EndRedoStep, IdleType DEF Control
  <2> QED
    BY <2>1, <2>2, <2>3
<1>3. \A p \in PageNos : ~IsDirty(pool'[p]) /\ ~pool'[p].init
  BY <1>2, ContentTypes
<1>4. sync'.pc # "redo" => InHand' = {} /\ Left' = {}
  <2> HAVE sync'.pc # "redo"
  <2>1. EndRedo
    BY <1>1, CrashStep, RedoStep
  <2>2. sync' = Idle
    BY <1>1, <2>1, EndRedoStep
  <2> QED
    BY <2>2, IdleType, VecTypes, EmptyBuffer
<1>5. Owned' /\ Copied'
  BY <1>3, <1>4 DEF Owned, Copied
<1>6. DirtyIsListed' /\ CleanIsOnDisk'
  BY <1>3 DEF DirtyIsListed, CleanIsOnDisk
<1> QED
  BY <1>2, <1>5, <1>6 DEF IInv

-----------------------------------------------------------------------------

LEMMA InitInv == Init => IInv
<1> SUFFICES ASSUME Init PROVE IInv
  OBVIOUS
<1>1. /\ index = {} /\ idxFile = {} /\ nextPageNo = 1
      /\ pool = [p \in PageNos |-> Absent] /\ dirtyList = {} /\ sync = Idle
      /\ disk = [p \in PageNos |-> Blank] /\ dw = <<>>
      /\ latest = NoRecs /\ marked = NoRecs /\ safe = NoRecs
      /\ dropped = {} /\ damaged = {} /\ crashes = 0 /\ fails = 0
  BY DEF Init
<1>2. 1 \in 1 .. MaxPage + 1 /\ 0 \in 0 .. MaxCrashes /\ 0 \in 0 .. MaxFails
  BY NormalPartAssumption
<1>3. <<>> \in Seq(Copies)
  OBVIOUS
<1>4. \A p \in PageNos : pool[p] = Absent
  BY <1>1
<1>5. TypeOK
  BY <1>1, <1>2, <1>3, ContentTypes, IdleType DEF TypeOK
<1>6. InHand = {} /\ Left = {}
  BY <1>1, IdleType, VecTypes, EmptyBuffer
<1>7. Control
  BY <1>1, IdleType DEF Control
<1>8. Owned /\ Copied /\ DirtyIsListed /\ CleanIsOnDisk
  BY <1>4, <1>6, ContentTypes DEF Owned, Copied, DirtyIsListed, CleanIsOnDisk
<1> QED
  BY <1>5, <1>7, <1>8 DEF IInv

LEMMA NextInv == IInv /\ [Next]_vars => IInv'
<1> SUFFICES ASSUME IInv, [Next]_vars PROVE IInv'
  OBVIOUS
<1>1. ASSUME NEW k \in Keys, InsertRec(k) PROVE IInv'
  BY <1>1, InsertInv
<1>2. ASSUME NEW p \in PageNos, Evict(p) PROVE IInv'
  BY <1>2, EvictInv
<1>3. ASSUME NEW all \in BOOLEAN, Mark(all) PROVE IInv'
  BY <1>3, MarkInv
<1>4. CASE TakeSplit \/ TakeRest
  BY <1>4, TakeInv
<1>5. ASSUME NEW p \in PageNos, CopyPage(p) PROVE IInv'
  BY <1>5, CopyPageInv
<1>6. CASE WriteDw
  BY <1>6, WriteDwInv
<1>7. CASE WriteData
  BY <1>7, WriteDataInv
<1>8. CASE WriteIdx \/ WriteIdxFails
  BY <1>8, WriteIdxInv
<1>9. CASE WriteFails
  BY <1>9, WriteFailsInv
<1>10. CASE Crash \/ Redo \/ EndRedo
  BY <1>10, RestartInv
<1>11. CASE UNCHANGED vars
  BY <1>11 DEF vars, memVars, diskVars, history, IInv, TypeOK, Control, Owned, Copied, SameAsPool,
               Left, InHand, DirtyIsListed, CleanIsOnDisk
<1> QED
  BY <1>1, <1>2, <1>3, <1>4, <1>5, <1>6, <1>7, <1>8, <1>9, <1>10, <1>11 DEF Next

LEMMA Inductive == Spec => []IInv
<1>1. Init => IInv
  BY InitInv
<1>2. IInv /\ [Next]_vars => IInv'
  BY NextInv
<1> QED
  BY <1>1, <1>2, PTL DEF Spec

\* The state of the part keeps its type, the buffer and the double-write file never
\* hold more than SYNC_PAGE_CNT pages, and the page numbers stay in their range.
THEOREM PartTypeCorrect == Spec => []TypeOK
<1>1. IInv => TypeOK
  BY DEF IInv
<1> QED
  BY <1>1, Inductive, PTL

\* No page that has been changed is ever forgotten: it is on the dirty list or in
\* the writer's hands until it is written, whatever the order of inserts, splits,
\* evictions, page writes and crashes.
THEOREM DirtyPagesListed == Spec => []DirtyIsListed
<1>1. IInv => DirtyIsListed
  BY DEF IInv
<1> QED
  BY <1>1, Inductive, PTL

\* The pool may give away the memory of a clean page: the data file has its content.
THEOREM CleanPagesOnDisk == Spec => []CleanIsOnDisk
<1>1. IInv => CleanIsOnDisk
  BY DEF IInv
<1> QED
  BY <1>1, Inductive, PTL

-----------------------------------------------------------------------------
(* The index: a timestamp has one entry, and it is found by comparing.      *)

Zero(idx) == \E e \in idx : e.ts = 0
Distinct(idx) == \A e, f \in idx : e.ts = f.ts \/ e.no = f.no => e = f

LEMMA EntryType ==
    /\ 0 \in Nat /\ \A k \in Keys : k \in Nat
    /\ \A e \in Entries : /\ e.ts \in Keys \cup {0} /\ e.ts \in Nat /\ e.no \in PageNos
                          /\ e = Entry(e.ts, e.no)
    /\ \A t \in Keys \cup {0} : \A n \in PageNos :
          Entry(t, n) \in Entries /\ Entry(t, n).ts = t /\ Entry(t, n).no = n
<1>1. Keys \subseteq Nat
  BY NormalPartAssumption
<1>2. ASSUME NEW e \in Entries
      PROVE  e.ts \in Keys \cup {0} /\ e.no \in PageNos /\ e = Entry(e.ts, e.no)
  BY DEF Entries, Entry
<1>3. ASSUME NEW e \in Entries
      PROVE  e.ts \in Nat
  <2>1. e.ts \in Keys \/ e.ts = 0
    BY <1>2
  <2>2. 0 \in Nat
    OBVIOUS
  <2> QED
    BY <1>1, <2>1, <2>2
<1> QED
  BY <1>1, <1>2, <1>3 DEF Entries, Entry

LEMMA CoverZero ==
    ASSUME NEW idx \in SUBSET Entries, Zero(idx), NEW k \in Keys
    PROVE  \A e \in idx : e \in Covering(idx, k) <=>
              e.ts <= k /\ \A f \in idx : f.ts <= k => f.ts <= e.ts
<1>1. k \in Nat /\ \A e \in idx : e.ts \in Nat
  BY EntryType
<1>2. PICK z \in idx : z.ts = 0
  BY DEF Zero
<1>3. ~ (k < z.ts)
  BY <1>1, <1>2
<1> QED
  BY <1>2, <1>3 DEF Covering, Covers

LEMMA CoverOne ==
    ASSUME NEW idx \in SUBSET Entries, Zero(idx), Distinct(idx), NEW k \in Keys
    PROVE  \A e, f \in Covering(idx, k) : e = f
<1> SUFFICES ASSUME NEW e \in idx, NEW f \in idx, e \in Covering(idx, k), f \in Covering(idx, k)
             PROVE  e = f
  BY DEF Covering
<1>1. k \in Nat /\ e.ts \in Nat /\ f.ts \in Nat
  BY EntryType
<1>2. e.ts <= f.ts /\ f.ts <= e.ts
  BY CoverZero
<1>3. e.ts = f.ts
  BY <1>1, <1>2
<1> QED
  BY <1>3 DEF Distinct

LEMMA CoverSome ==
    ASSUME NEW idx \in SUBSET Entries, Zero(idx), NEW k \in Keys
    PROVE  Covering(idx, k) # {}
<1>1. k \in Nat /\ \A e \in idx : e.ts \in Nat
  BY EntryType
<1> DEFINE S == {e.ts + 1 : e \in {f \in idx : f.ts <= k}}
<1>2. S \subseteq 1 .. k + 1
  BY <1>1
<1>3. S # {}
  <2>1. PICK z \in idx : z.ts = 0
    BY DEF Zero
  <2>2. z.ts <= k
    BY <1>1, <2>1
  <2> QED
    BY <2>2
<1>4. PICK m \in S : \A x \in S : x <= m
  <2> HIDE DEF S
  <2>1. k + 1 \in Nat
    BY <1>1
  <2> QED
    BY <2>1, <1>2, <1>3, MaxOfInterval
<1>5. PICK e \in idx : e.ts <= k /\ m = e.ts + 1
  OBVIOUS
<1>6. \A f \in idx : f.ts <= k => f.ts <= e.ts
  <2> SUFFICES ASSUME NEW f \in idx, f.ts <= k
               PROVE  f.ts <= e.ts
    OBVIOUS
  <2>1. f.ts + 1 \in S
    OBVIOUS
  <2>2. f.ts + 1 <= e.ts + 1
    BY <1>4, <1>5, <2>1
  <2> QED
    BY <1>1, <2>2
<1> QED
  BY <1>5, <1>6, CoverZero

\* A new entry takes over the timestamps from its own on, from the entry that
\* covered it.
LEMMA CoverDivided ==
    ASSUME NEW idx \in SUBSET Entries, Zero(idx), NEW t \in Keys, NEW n \in PageNos,
           NEW e \in idx, e \in Covering(idx, t), e.ts # t, Entry(t, n) \notin idx,
           NEW all, all = idx \cup {Entry(t, n)}, NEW j \in Keys
    PROVE  /\ Entry(t, n) \in Covering(all, j) <=> e \in Covering(idx, j) /\ t <= j
           /\ e \in Covering(all, j) <=> e \in Covering(idx, j) /\ j < t
           /\ Distinct(idx) => \A f \in idx : f # e => (f \in Covering(all, j) <=> f \in Covering(idx, j))
<1> DEFINE new == Entry(t, n)
<1>1. new \in Entries /\ new.ts = t
  BY DEF Entry, Entries
<1>2. all \in SUBSET Entries /\ Zero(all) /\ all = idx \cup {new}
  BY <1>1 DEF Zero
<1>3. t \in Nat /\ j \in Nat /\ \A f \in idx : f.ts \in Nat
  BY EntryType
<1>4. e.ts <= t /\ \A f \in idx : f.ts <= t => f.ts <= e.ts
  BY CoverZero
<1>5. e.ts < t
  BY <1>3, <1>4
<1> HIDE DEF new
<1>6. \A f \in all : f \in Covering(all, j) <=>
         f.ts <= j /\ (t <= j => t <= f.ts) /\ \A g \in idx : g.ts <= j => g.ts <= f.ts
  BY <1>1, <1>2, CoverZero
<1>7. \A f \in idx : f \in Covering(idx, j) <=>
         f.ts <= j /\ \A g \in idx : g.ts <= j => g.ts <= f.ts
  BY CoverZero
<1>8. new \in Covering(all, j) <=> e \in Covering(idx, j) /\ t <= j
  <2>1. ASSUME new \in Covering(all, j)
        PROVE  e \in Covering(idx, j) /\ t <= j
    <3>1. t <= j /\ \A g \in idx : g.ts <= j => g.ts <= t
      BY <1>1, <1>2, <1>6, <2>1
    <3>2. \A g \in idx : g.ts <= j => g.ts <= e.ts
      BY <1>4, <3>1
    <3>3. e.ts <= j
      BY <1>3, <1>5, <3>1
    <3> QED
      BY <1>7, <3>1, <3>2, <3>3
  <2>2. ASSUME e \in Covering(idx, j), t <= j
        PROVE  new \in Covering(all, j)
    <3>1. \A g \in idx : g.ts <= j => g.ts <= t
      <4> TAKE g \in idx
      <4> HAVE g.ts <= j
      <4>1. g.ts <= e.ts
        BY <1>7, <2>2
      <4> QED
        BY <1>3, <1>5, <4>1
    <3>2. new \in Covering(all, j) <=>
             t <= j /\ (t <= j => t <= t) /\ \A g \in idx : g.ts <= j => g.ts <= t
      BY <1>1, <1>2, <1>6
    <3> QED
      BY <1>3, <2>2, <3>1, <3>2
  <2> QED
    BY <2>1, <2>2
<1>9. e \in Covering(all, j) <=> e \in Covering(idx, j) /\ j < t
  <2>1. (t <= j => t <= e.ts) <=> j < t
    BY <1>3, <1>5
  <2> QED
    BY <1>6, <1>7, <2>1
<1>10. ASSUME NEW f \in idx, f # e, Distinct(idx)
       PROVE  f \in Covering(all, j) <=> f \in Covering(idx, j)
  <2>1. ASSUME f \in Covering(idx, j), t <= j
        PROVE  t <= f.ts
    <3>1. e.ts <= f.ts
      BY <1>3, <1>5, <1>7, <2>1
    <3>2. f.ts # e.ts
      BY <1>10 DEF Distinct
    <3>3. f.ts <= t => f.ts <= e.ts
      BY <1>4
    <3> QED
      BY <1>3, <3>1, <3>2, <3>3
  <2> QED
    BY <1>6, <1>7, <2>1
<1> QED
  BY <1>8, <1>9, <1>10 DEF new

-----------------------------------------------------------------------------
(* What holds between the index, the pages and the three files.             *)

CopiesOf(b) == {b[i] : i \in 1 .. Len(b)}
HasEntry(p) == \E e \in index : e.no = p

\* A page has one entry, the first page begins with the day, and the index file
\* is behind the index.
IndexOK == Distinct(index) /\ (index = {} \/ Zero(index)) /\ idxFile \subseteq index

\* The copies of pages are of pages the index has, so that what RecoverDW adds to
\* the index after a crash is an entry it had.  A page whose content was lost
\* begins with 0, and its entry is not added then.
KnownCopy(c) == Entry(c.ts, c.no) \in index \/ (c.ts = 0 /\ Zero(idxFile))
CopiesKnown ==
    /\ \A c \in CopiesOf(dw) \cup CopiesOf(sync.batch) : KnownCopy(c)
    /\ \A c \in CopiesOf(sync.batch) : HasEntry(c.no) /\ (c.new => Entry(c.ts, c.no) \in index)

PageTs == \A e \in index : Page(e.no).ts = e.ts \/ (Page(e.no).ts = 0 /\ Zero(idxFile))
MemPages == \A p \in PageNos : pool[p].onlyMem => IsDirty(pool[p]) /\ Entry(pool[p].ts, p) \in index
ListKnown == \A p \in dirtyList \cup DOMAIN sync.vec : HasEntry(p)

\* The pages that have been written; a torn one is empty.
DiskTs == \A e \in index : ~pool[e.no].onlyMem => disk[e.no].ts \in {e.ts, 0}
Written == /\ \A e \in idxFile : ~pool[e.no].onlyMem
           /\ \A i \in 1 .. sync.at : ~pool[sync.batch[i].no].onlyMem

\* A page holds the last values of the timestamps its entry covers, and no others.
Right == /\ index = {} => latest = NoRecs
         /\ \A e \in index : \A k \in Keys :
               /\ e \in Covering(index, k) => Page(e.no).recs[k] = latest[k]
               /\ Page(e.no).recs[k] # 0 => e \in Covering(index, k)

Filled == IndexOK /\ CopiesKnown /\ PageTs /\ MemPages /\ ListKnown /\ DiskTs /\ Written /\ Right

\* While RecoverDW runs, the entries it has added and those it may still add are
\* an index.
CopyEntries(idx, w) == {Entry(c.ts, c.no) : c \in {d \in CopiesOf(w) : d.ts # 0 \/ ~Zero(idx)}}
Redone ==
    /\ sync.batch = dw /\ dirtyList = {} /\ idxFile \subseteq index
    /\ Distinct(index \cup CopyEntries(idxFile, dw))
    /\ \A e \in index : disk[e.no].ts \in {e.ts, 0}

LInv == damaged = {} => /\ sync.pc = "redo" => Redone
                        /\ sync.pc # "redo" => Filled

\* What a step does to the pages that has nothing to do with the files, and what an
\* insert does to the entries: a new one is of a page that is in memory only.
PagesKeep ==
    \A p \in PageNos : /\ Page(p)'.ts = Page(p).ts
                       /\ pool'[p].onlyMem <=> pool[p].onlyMem
                       /\ pool'[p].onlyMem => pool'[p].recs = pool[p].recs
Grown ==
    /\ UNCHANGED <<sync, disk, idxFile, dw>> /\ index \subseteq index'
    /\ \A e \in index : /\ Page(e.no)'.ts = Page(e.no).ts
                        /\ pool'[e.no].onlyMem <=> pool[e.no].onlyMem
    /\ \A e \in index' : e \notin index => pool'[e.no].onlyMem /\ Page(e.no)'.ts = e.ts
    /\ \A p \in PageNos : pool'[p].onlyMem => pool'[p].recs # NoRecs \/ pool'[p] = pool[p]
    /\ \A e \in index : Page(e.no)'.recs = Page(e.no).recs \/ Page(e.no)'.recs # NoRecs

\* A step of the writer: the index and what the pages hold stay as they are.
LEMMA WriterKeeps ==
    ASSUME Filled, UNCHANGED <<index, latest>>, TypeOK, TypeOK',
           idxFile \subseteq idxFile', idxFile' \subseteq index,
           \A p \in PageNos : Page(p).ts = Page(p)'.ts /\ Page(p).recs = Page(p)'.recs,
           \A p \in PageNos : pool'[p].onlyMem =>
                pool[p].onlyMem /\ IsDirty(pool'[p]) /\ pool'[p].ts = pool[p].ts,
           \A e \in index : ~pool'[e.no].onlyMem => disk'[e.no].ts \in {e.ts, 0},
           Written',
           \A c \in CopiesOf(dw') \cup CopiesOf(sync'.batch) :
                c \in CopiesOf(dw) \cup CopiesOf(sync.batch) \/ KnownCopy(c),
           \A c \in CopiesOf(sync'.batch) :
                c \in CopiesOf(sync.batch) \/ (HasEntry(c.no) /\ (c.new => Entry(c.ts, c.no) \in index)),
           \A p \in dirtyList' \cup DOMAIN sync'.vec :
                p \in dirtyList \cup DOMAIN sync.vec \/ HasEntry(p)
    PROVE  Filled'
<1>1. \A e \in index : e.no \in PageNos
  BY EntryType DEF TypeOK
<1>2. Zero(idxFile) => Zero(idxFile')
  BY DEF Zero
<1>3. IndexOK'
  BY DEF Filled, IndexOK
<1>4. CopiesKnown'
  <2>1. \A c : KnownCopy(c) => (KnownCopy(c))'
    BY <1>2 DEF KnownCopy
  <2>2. \A c \in CopiesOf(dw') \cup CopiesOf(sync'.batch) : (KnownCopy(c))'
    BY <2>1 DEF Filled, CopiesKnown
  <2>3. \A c \in CopiesOf(sync'.batch) : (HasEntry(c.no))' /\ (c.new => Entry(c.ts, c.no) \in index')
    BY DEF Filled, CopiesKnown, HasEntry
  <2> QED
    BY <2>2, <2>3 DEF CopiesKnown, CopiesOf
<1>5. PageTs'
  BY <1>1, <1>2 DEF Filled, PageTs
<1>6. MemPages'
  BY DEF Filled, MemPages
<1>7. ListKnown'
  BY DEF Filled, ListKnown, HasEntry
<1>8. DiskTs'
  BY DEF DiskTs
<1>9. Right'
  BY <1>1 DEF Filled, Right
<1> QED
  BY <1>3, <1>4, <1>5, <1>6, <1>7, <1>8, <1>9 DEF Filled

\* What the macros do with the content and with the mark of a page that is not in
\* the data file.
LEMMA MacroContents ==
    ASSUME NEW h \in Header
    PROVE  /\ \A r \in [Keys -> 0 .. MaxVer] :
                 /\ Updated(h, r).ts = h.ts /\ Updated(h, r).recs = r
                 /\ Updated(h, r).onlyMem <=> h.onlyMem
           /\ OnlyMem(h).ts = h.ts /\ OnlyMem(h).recs = h.recs /\ OnlyMem(h).onlyMem
           /\ Full(h).onlyMem <=> h.onlyMem
           /\ \A g \in 0 .. MaxPage :
                 /\ InGroup(h, g).ts = h.ts /\ InGroup(h, g).recs = h.recs
                 /\ InGroup(h, g).onlyMem <=> h.onlyMem
           /\ RoundRobin(h).onlyMem <=> h.onlyMem
           /\ ~Synced(h).onlyMem
<1>1. \A r \in [Keys -> 0 .. MaxVer] :
          /\ Updated(h, r).ts = h.ts /\ Updated(h, r).recs = r
          /\ Updated(h, r).onlyMem <=> h.onlyMem
  BY DEF Updated, Header
<1>2. OnlyMem(h).ts = h.ts /\ OnlyMem(h).recs = h.recs /\ OnlyMem(h).onlyMem
  BY DEF OnlyMem, Header
<1>3. Full(h).onlyMem <=> h.onlyMem
  BY DEF Full, Header
<1>4. \A g \in 0 .. MaxPage :
          /\ InGroup(h, g).ts = h.ts /\ InGroup(h, g).recs = h.recs
          /\ InGroup(h, g).onlyMem <=> h.onlyMem
  BY DEF InGroup, Header
<1>5. RoundRobin(h).onlyMem <=> h.onlyMem
  BY DEF RoundRobin, Header
<1>6. ~Synced(h).onlyMem
  BY DEF Synced, Header
<1> QED
  BY <1>1, <1>2, <1>3, <1>4, <1>5, <1>6

LEMMA ClearedContents ==
    /\ \A c \in Content : ~Cleared(c).onlyMem
    /\ ~Absent.onlyMem
<1>1. \A c \in Content : ~Cleared(c).onlyMem
  BY DEF Cleared
<1>2. ~Absent.onlyMem
  BY DEF Absent, Cleared
<1> QED
  BY <1>1, <1>2

\* PageType, after the step.
LEMMA PageTypeAfter ==
    ASSUME TypeOK', NEW p \in PageNos
    PROVE  /\ pool'[p].init => Page(p)' = pool'[p]
           /\ ~pool'[p].init => Page(p)'.ts = disk'[p].ts /\ Page(p)'.recs = disk'[p].recs
<1>1. pool'[p] \in Header /\ disk'[p] \in Content
  BY DEF TypeOK
<1>2. Cleared(disk'[p]).ts = disk'[p].ts /\ Cleared(disk'[p]).recs = disk'[p].recs
  BY <1>1, ContentTypes
<1> QED
  BY <1>1, <1>2 DEF Page

\* A page whose content the step leaves alone.
LEMMA PageKeeps ==
    ASSUME TypeOK, TypeOK', NEW p \in PageNos,
           pool'[p].init <=> pool[p].init,
           pool'[p].ts = pool[p].ts, pool'[p].recs = pool[p].recs,
           pool[p].init \/ disk'[p] = disk[p]
    PROVE  Page(p).ts = Page(p)'.ts /\ Page(p).recs = Page(p)'.recs
BY PageType, PageTypeAfter

\* A page is marked as one that is only in memory while it is in the pool.
LEMMA PageOnlyMem ==
    ASSUME IInv, Filled, NEW p \in PageNos
    PROVE  /\ Page(p).onlyMem <=> pool[p].onlyMem
           /\ pool[p].onlyMem => pool[p].init
<1>1. pool[p].onlyMem => pool[p].init
  BY DEF Filled, MemPages, IInv, Owned
<1>2. disk[p] \in Content
  BY DEF IInv, TypeOK
<1> QED
  BY <1>1, <1>2, ClearedContents DEF Page

LEMMA NoCopies ==
    /\ CopiesOf(<<>>) = {}
    /\ \A i : i \notin 1 .. 0
BY IdleType DEF CopiesOf

LEMMA MarkFilled ==
    ASSUME IInv, Filled, NEW all \in BOOLEAN, Mark(all)
    PROVE  Filled' /\ PagesKeep
<1>1. TypeOK
  BY DEF IInv
<1>2. /\ TypeOK' /\ sync'.vec = NoVec /\ sync'.batch = <<>> /\ sync'.at = 0
      /\ \A p \in PageNos : pool'[p] = pool[p] \/ pool'[p] = RoundRobin(pool[p])
      /\ UNCHANGED <<index, dirtyList, disk>>
  BY <1>1, MarkStep
<1>3. UNCHANGED <<latest, idxFile, dw>>
  BY DEF Mark, SyncStep, diskVars
<1>4. \A p \in PageNos : /\ IsDirty(pool'[p]) <=> IsDirty(pool[p])
                         /\ pool'[p].ts = pool[p].ts /\ pool'[p].recs = pool[p].recs
                         /\ pool'[p].init <=> pool[p].init
                         /\ pool'[p].onlyMem <=> pool[p].onlyMem
  <2> TAKE p \in PageNos
  <2>1. pool[p] \in Header
    BY <1>1 DEF TypeOK
  <2>2. CASE pool'[p] = pool[p]
    BY <2>2
  <2>3. CASE pool'[p] = RoundRobin(pool[p])
    BY <2>1, <2>3, RoundRobinType, MacroContents
  <2> QED
    BY <1>2, <2>2, <2>3
<1>5. \A p \in PageNos : Page(p).ts = Page(p)'.ts /\ Page(p).recs = Page(p)'.recs
  BY <1>1, <1>2, <1>4, PageKeeps
<1>6. \A e \in index : e.no \in PageNos
  BY <1>1, EntryType DEF TypeOK
<1>7. idxFile \subseteq index
  BY DEF Filled, IndexOK
<1>8. \A p \in PageNos : pool'[p].onlyMem => pool[p].onlyMem /\ IsDirty(pool'[p]) /\ pool'[p].ts = pool[p].ts
  BY <1>4 DEF Filled, MemPages
<1>9. \A e \in index : ~pool'[e.no].onlyMem => disk'[e.no].ts \in {e.ts, 0}
  BY <1>2, <1>4, <1>6 DEF Filled, DiskTs
<1>10. Written'
  BY <1>2, <1>3, <1>4, <1>6, <1>7, NoCopies DEF Filled, Written
<1>11. CopiesOf(sync'.batch) = {}
  BY <1>2, NoCopies
<1>12. DOMAIN sync'.vec = {}
  BY <1>2, VecTypes
<1>13. PagesKeep
  BY <1>4, <1>5 DEF PagesKeep
<1> QED
  BY <1>1, <1>2, <1>3, <1>5, <1>7, <1>8, <1>9, <1>10, <1>11, <1>12, <1>13, WriterKeeps

\* A step of the writer that changes no page and no file but the index file.
LEMMA HandFilled ==
    ASSUME IInv, Filled, TypeOK', UNCHANGED <<index, latest, pool, disk>>,
           idxFile \subseteq idxFile', idxFile' \subseteq index,
           \A e \in idxFile' : ~pool[e.no].onlyMem,
           \/ sync'.batch = <<>> /\ sync'.at = 0
           \/ sync'.batch = sync.batch /\ sync'.at = sync.at,
           CopiesOf(dw') \subseteq CopiesOf(dw) \cup CopiesOf(sync.batch),
           \A p \in dirtyList' \cup DOMAIN sync'.vec : p \in dirtyList \cup DOMAIN sync.vec
    PROVE  Filled'
<1>1. TypeOK
  BY DEF IInv
<1>2. \A p \in PageNos : Page(p).ts = Page(p)'.ts /\ Page(p).recs = Page(p)'.recs
  BY <1>1, PageKeeps
<1>3. \A p \in PageNos : pool'[p].onlyMem => pool[p].onlyMem /\ IsDirty(pool'[p]) /\ pool'[p].ts = pool[p].ts
  BY DEF Filled, MemPages
<1>4. \A e \in index : ~pool'[e.no].onlyMem => disk'[e.no].ts \in {e.ts, 0}
  BY DEF Filled, DiskTs
<1>5. Written'
  BY NoCopies DEF Filled, Written
<1>6. CopiesOf(sync'.batch) \subseteq CopiesOf(sync.batch)
  BY NoCopies
<1> QED
  BY <1>1, <1>2, <1>3, <1>4, <1>5, <1>6, WriterKeeps

LEMMA TakeFilled ==
    ASSUME IInv, Filled, TakeSplit \/ TakeRest
    PROVE  Filled'
<1>1. TypeOK /\ Control
  BY DEF IInv
<1>2. sync.pc \in {"split", "rest"}
  BY DEF TakeSplit, TakeRest
<1>3. sync.vec = NoVec /\ sync.batch = <<>> /\ sync.at = 0
  BY <1>1, <1>2 DEF Control
<1>4. /\ TypeOK' /\ sync'.batch = <<>> /\ sync'.at = 0
      /\ dirtyList' = dirtyList \ DOMAIN sync'.vec
      /\ DOMAIN sync'.vec \subseteq Due
      /\ UNCHANGED <<index, pool, disk>>
  BY <1>1, <1>3, TakeSplitStep, TakeRestStep
<1>5. UNCHANGED <<latest, idxFile, dw>>
  BY DEF TakeSplit, TakeRest, SyncStep, diskVars
<1>6. \A p \in dirtyList' \cup DOMAIN sync'.vec : p \in dirtyList \cup DOMAIN sync.vec
  BY <1>4 DEF Due
<1>7. idxFile \subseteq index /\ \A e \in idxFile : ~pool[e.no].onlyMem
  BY DEF Filled, IndexOK, Written
<1> QED
  BY <1>4, <1>5, <1>6, <1>7, HandFilled

LEMMA WriteDwFilled ==
    ASSUME IInv, Filled, WriteDw
    PROVE  Filled'
<1>1. TypeOK
  BY DEF IInv
<1>2. /\ TypeOK' /\ sync'.vec = sync.vec /\ sync'.batch = sync.batch /\ sync'.at = sync.at
      /\ UNCHANGED <<index, pool, dirtyList, disk>>
  BY <1>1, WriteDwStep
<1>3. dw' = sync.batch /\ UNCHANGED <<latest, idxFile>>
  BY DEF WriteDw, SyncStep
<1>4. idxFile \subseteq index /\ \A e \in idxFile : ~pool[e.no].onlyMem
  BY DEF Filled, IndexOK, Written
<1> QED
  BY <1>2, <1>3, <1>4, HandFilled

\* Every page of a batch that has new entries is in the data file when they are
\* written.
LEMMA NewEntriesWritten ==
    ASSUME IInv, Filled, sync.pc = "index", NEW n \in Nat, n <= Len(sync.batch),
           NEW e, \E i \in 1 .. n : sync.batch[i].new /\ e = Entry(sync.batch[i].ts, sync.batch[i].no)
    PROVE  e \in index /\ ~pool[e.no].onlyMem
<1>1. PICK i \in 1 .. n : sync.batch[i].new /\ e = Entry(sync.batch[i].ts, sync.batch[i].no)
  OBVIOUS
<1>2. sync.at = Len(sync.batch) /\ Len(sync.batch) \in Nat
  BY AtType DEF IInv, Control
<1>3. i \in 1 .. Len(sync.batch)
  BY <1>2
<1>4. sync.batch[i] \in CopiesOf(sync.batch)
  BY <1>3 DEF CopiesOf
<1>5. e \in index
  BY <1>1, <1>4 DEF Filled, CopiesKnown
<1>6. ~pool[sync.batch[i].no].onlyMem
  BY <1>2, <1>3 DEF Filled, Written
<1>7. e.no = sync.batch[i].no
  BY <1>1 DEF Entry
<1> QED
  BY <1>5, <1>6, <1>7

LEMMA WriteIdxFilled ==
    ASSUME IInv, Filled, WriteIdx \/ WriteIdxFails
    PROVE  Filled'
<1>1. TypeOK
  BY DEF IInv
<1>2. /\ TypeOK' /\ sync.pc = "index"
      /\ \/ Emptied /\ DOMAIN sync.vec = {}
         \/ sync'.vec = sync.vec /\ sync'.batch = <<>> /\ sync'.at = 0
      /\ UNCHANGED <<index, pool, dirtyList, disk>>
  BY <1>1, WriteIdxStep
<1>3. UNCHANGED <<latest, dw>> /\ (idxFile' = idxFile \/ idxFile' = idxFile \cup NewEntries(sync.batch))
  BY DEF WriteIdx, WriteIdxFails, SyncStep, diskVars
<1>4. DOMAIN sync'.vec \subseteq DOMAIN sync.vec /\ sync'.batch = <<>> /\ sync'.at = 0
  BY <1>2, VecTypes DEF Emptied
<1>5. \A e \in NewEntries(sync.batch) : e \in index /\ ~pool[e.no].onlyMem
  <2> TAKE e \in NewEntries(sync.batch)
  <2>1. Len(sync.batch) \in Nat /\ Len(sync.batch) <= Len(sync.batch)
    BY <1>1, AtType
  <2>2. \E i \in 1 .. Len(sync.batch) : sync.batch[i].new /\ e = Entry(sync.batch[i].ts, sync.batch[i].no)
    BY DEF NewEntries
  <2> QED
    BY <1>2, <2>1, <2>2, NewEntriesWritten
<1>6. idxFile \subseteq index /\ \A e \in idxFile : ~pool[e.no].onlyMem
  BY DEF Filled, IndexOK, Written
<1> QED
  BY <1>2, <1>3, <1>4, <1>5, <1>6, HandFilled

\* The page that WriteData writes next.
LEMMA NextPage ==
    ASSUME IInv, sync.pc = "data"
    PROVE  LET b == sync.batch[sync.at + 1]
           IN  /\ sync.at \in Nat /\ sync.at < Len(sync.batch)
               /\ b \in CopiesOf(sync.batch) /\ b \in Copies /\ b.no \in PageNos
               /\ pool[b.no].due /\ pool[b.no].init /\ SameAsPool(b, pool[b.no])
<1> DEFINE i == sync.at + 1
<1>1. TypeOK /\ Control /\ Owned /\ Copied
  BY DEF IInv
<1>2. sync.at \in Nat /\ sync.at < Len(sync.batch) /\ i \in 1 .. Len(sync.batch)
  BY <1>1, AtType DEF Control
<1>3. i \in Left
  BY <1>1, <1>2, AtType DEF Left
<1>4. sync.batch[i] \in Copies /\ sync.batch[i].no \in PageNos /\ sync.batch[i].no \in InHand
  BY <1>1, <1>3, InHandType
<1>5. pool[sync.batch[i].no].due /\ pool[sync.batch[i].no].init
  BY <1>1, <1>4 DEF Owned, IsDirty
<1>6. SameAsPool(sync.batch[i], pool[sync.batch[i].no])
  BY <1>1, <1>3 DEF Copied
<1> QED
  BY <1>2, <1>4, <1>5, <1>6 DEF CopiesOf

LEMMA WriteFailsFilled ==
    ASSUME IInv, Filled, WriteFails
    PROVE  Filled'
<1>1. TypeOK /\ (sync.pc = "data" => sync.at < Len(sync.batch))
  BY DEF IInv, Control
<1>2. /\ TypeOK' /\ Emptied
      /\ \A p \in PageNos : disk'[p] # disk[p] =>
            sync.pc = "data" /\ p = sync.batch[sync.at + 1].no /\ disk'[p] = Blank
      /\ UNCHANGED <<index, pool, dirtyList>>
  BY <1>1, WriteFailsStep
<1>3. UNCHANGED <<latest, idxFile>> /\ dw' \in {dw, <<>>}
  BY DEF WriteFails, SyncStep
<1>4. sync'.batch = <<>> /\ sync'.at = 0 /\ DOMAIN sync'.vec = {} /\ CopiesOf(sync'.batch) = {}
  BY <1>2, VecTypes, NoCopies DEF Emptied
<1>5. \A p \in PageNos : pool[p].init \/ disk'[p] = disk[p]
  BY <1>2, NextPage
<1>6. \A p \in PageNos : Page(p).ts = Page(p)'.ts /\ Page(p).recs = Page(p)'.recs
  BY <1>1, <1>2, <1>5, PageKeeps
<1>7. \A p \in PageNos : pool'[p].onlyMem => pool[p].onlyMem /\ IsDirty(pool'[p]) /\ pool'[p].ts = pool[p].ts
  BY <1>2 DEF Filled, MemPages
<1>8. \A e \in index : ~pool'[e.no].onlyMem => disk'[e.no].ts \in {e.ts, 0}
  <2> SUFFICES ASSUME NEW e \in index, ~pool[e.no].onlyMem
               PROVE  disk'[e.no].ts \in {e.ts, 0}
    BY <1>2
  <2>1. e.no \in PageNos
    BY <1>1, EntryType DEF TypeOK
  <2>2. disk'[e.no] = disk[e.no] \/ disk'[e.no].ts = 0
    BY <1>2, <2>1 DEF Blank
  <2> QED
    BY <2>2 DEF Filled, DiskTs
<1>9. Written'
  BY <1>2, <1>3, <1>4, NoCopies DEF Filled, Written
<1>10. CopiesOf(dw') \subseteq CopiesOf(dw)
  BY <1>3, NoCopies
<1>11. idxFile \subseteq index
  BY DEF Filled, IndexOK
<1> QED
  BY <1>1, <1>2, <1>3, <1>4, <1>6, <1>7, <1>8, <1>9, <1>10, <1>11, WriterKeeps

\* What WriteData does to the page it writes.
LEMMA WriteDataPages ==
    ASSUME IInv, WriteData, NEW b, b = sync.batch[sync.at + 1]
    PROVE  /\ b \in CopiesOf(sync.batch) /\ b.no \in PageNos
           /\ disk'[b.no] = [ts |-> b.ts, recs |-> b.recs]
           /\ ~pool'[b.no].onlyMem
           /\ \A q \in PageNos : q # b.no => pool'[q] = pool[q] /\ disk'[q] = disk[q]
           /\ \A q \in PageNos : Page(q).ts = Page(q)'.ts /\ Page(q).recs = Page(q)'.recs
<1> DEFINE p == b.no
<1>1. TypeOK
  BY DEF IInv
<1>2. sync.pc = "data"
  BY DEF WriteData
<1>3. /\ sync.at \in Nat /\ sync.at < Len(sync.batch)
      /\ b \in CopiesOf(sync.batch) /\ p \in PageNos /\ pool[p].init
  BY <1>2, NextPage
<1>4. /\ TypeOK' /\ sync'.vec = sync.vec /\ sync'.batch = sync.batch /\ sync'.at = sync.at + 1
      /\ pool' = [pool EXCEPT ![p] = Synced(pool[p])]
      /\ dirtyList' = IF pool[p].fresh THEN dirtyList \cup {p} ELSE dirtyList
      /\ disk' = [disk EXCEPT ![p] = [ts |-> b.ts, recs |-> b.recs]]
      /\ UNCHANGED index
  BY <1>1, <1>3, WriteDataStep
<1>5. UNCHANGED <<latest, idxFile, dw>>
  BY DEF WriteData, SyncStep
<1>6. pool[p] \in Header /\ pool \in [PageNos -> Header] /\ disk \in [PageNos -> Content]
  BY <1>1, <1>3 DEF TypeOK
<1>7. /\ pool'[p] = Synced(pool[p])
      /\ disk'[p] = [ts |-> b.ts, recs |-> b.recs] /\ disk'[p].ts = b.ts
      /\ \A q \in PageNos : q # p => pool'[q] = pool[q] /\ disk'[q] = disk[q]
  BY <1>3, <1>4, <1>6
<1>8. pool'[p].ts = pool[p].ts /\ pool'[p].recs = pool[p].recs /\ (pool'[p].init <=> pool[p].init)
       /\ ~pool'[p].onlyMem
  BY <1>6, <1>7, SyncedType, MacroContents
<1>9. \A q \in PageNos : Page(q).ts = Page(q)'.ts /\ Page(q).recs = Page(q)'.recs
  <2> TAKE q \in PageNos
  <2>1. CASE q = p
    BY <2>1, <1>1, <1>3, <1>4, <1>8, PageKeeps
  <2>2. CASE q # p
    BY <2>2, <1>1, <1>4, <1>7, PageKeeps
  <2> QED
    BY <2>1, <2>2
<1> QED
  BY <1>3, <1>7, <1>8, <1>9

LEMMA WriteDataFilled ==
    ASSUME IInv, Filled, WriteData
    PROVE  Filled'
<1> DEFINE b == sync.batch[sync.at + 1]
           p == b.no
<1>1. TypeOK
  BY DEF IInv
<1>2. sync.pc = "data"
  BY DEF WriteData
<1>3. /\ sync.at \in Nat /\ sync.at < Len(sync.batch)
      /\ b \in CopiesOf(sync.batch) /\ p \in PageNos /\ pool[p].init
  BY <1>2, NextPage
<1>4. /\ TypeOK' /\ sync'.vec = sync.vec /\ sync'.batch = sync.batch /\ sync'.at = sync.at + 1
      /\ pool' = [pool EXCEPT ![p] = Synced(pool[p])]
      /\ dirtyList' = IF pool[p].fresh THEN dirtyList \cup {p} ELSE dirtyList
      /\ disk' = [disk EXCEPT ![p] = [ts |-> b.ts, recs |-> b.recs]]
      /\ UNCHANGED index
  BY <1>1, <1>3, WriteDataStep
<1>5. UNCHANGED <<latest, idxFile, dw>>
  BY DEF WriteData, SyncStep
<1>6. HasEntry(p) /\ KnownCopy(b)
  BY <1>3 DEF Filled, CopiesKnown
<1>7. b = sync.batch[sync.at + 1] /\ p = b.no
  OBVIOUS
<1> HIDE DEF b, p
<1>8. /\ disk'[p].ts = b.ts /\ ~pool'[p].onlyMem
      /\ \A q \in PageNos : q # p => pool'[q] = pool[q] /\ disk'[q] = disk[q]
      /\ \A q \in PageNos : Page(q).ts = Page(q)'.ts /\ Page(q).recs = Page(q)'.recs
  <2>1. /\ disk'[b.no] = [ts |-> b.ts, recs |-> b.recs] /\ ~pool'[b.no].onlyMem
        /\ \A q \in PageNos : q # b.no => pool'[q] = pool[q] /\ disk'[q] = disk[q]
        /\ \A q \in PageNos : Page(q).ts = Page(q)'.ts /\ Page(q).recs = Page(q)'.recs
    BY <1>7, WriteDataPages, Zenon
  <2>2. disk'[b.no].ts = b.ts
    BY <2>1
  <2> QED
    BY <2>1, <2>2, <1>7, Zenon
<1>9. \A q \in PageNos : pool'[q].onlyMem => pool[q].onlyMem /\ IsDirty(pool'[q]) /\ pool'[q].ts = pool[q].ts
  BY <1>8 DEF Filled, MemPages
<1>10. \A e \in index : ~pool'[e.no].onlyMem => disk'[e.no].ts \in {e.ts, 0}
  <2> SUFFICES ASSUME NEW e \in index, ~pool'[e.no].onlyMem
               PROVE  disk'[e.no].ts \in {e.ts, 0}
    OBVIOUS
  <2>1. e.no \in PageNos
    BY <1>1, EntryType DEF TypeOK
  <2>2. CASE e.no # p
    BY <2>1, <2>2, <1>8 DEF Filled, DiskTs
  <2>3. CASE e.no = p
    <3>1. CASE b.ts = 0
      BY <3>1, <2>3, <1>8
    <3>2. CASE Entry(b.ts, b.no) \in index
      <4>1. Entry(b.ts, b.no).no = p /\ Entry(b.ts, b.no).ts = b.ts
        BY DEF Entry, p
      <4>2. e = Entry(b.ts, b.no)
        BY <2>3, <3>2, <4>1 DEF Filled, IndexOK, Distinct
      <4> QED
        BY <2>3, <4>1, <4>2, <1>8
    <3> QED
      BY <3>1, <3>2, <1>6 DEF KnownCopy
  <2> QED
    BY <2>2, <2>3
<1>11. Written'
  <2>1. \A e \in idxFile : ~pool[e.no].onlyMem /\ e.no \in PageNos
    BY <1>1, EntryType DEF TypeOK, Filled, Written
  <2>2. \A e \in idxFile' : ~pool'[e.no].onlyMem
    BY <2>1, <1>5, <1>8
  <2>3. ASSUME NEW i \in 1 .. sync'.at
        PROVE  ~pool'[sync'.batch[i].no].onlyMem
    <3>1. CASE i = sync.at + 1
      BY <3>1, <1>4, <1>7, <1>8
    <3>2. CASE i # sync.at + 1
      <4>1. i \in 1 .. sync.at
        BY <3>2, <1>3, <1>4
      <4>2. i \in 1 .. Len(sync.batch)
        BY <4>1, <1>1, <1>3, AtType
      <4>3. sync.batch[i].no \in PageNos
        BY <4>2, <1>1, BatchPage
      <4> QED
        BY <4>1, <4>3, <1>4, <1>8 DEF Filled, Written
    <3> QED
      BY <3>1, <3>2
  <2> QED
    BY <2>2, <2>3 DEF Written
<1>12. idxFile \subseteq index
  BY DEF Filled, IndexOK
<1>13. \A q \in dirtyList' \cup DOMAIN sync'.vec : q \in dirtyList \cup DOMAIN sync.vec \/ HasEntry(q)
  BY <1>4, <1>6
<1> QED
  BY <1>1, <1>4, <1>5, <1>8, <1>9, <1>10, <1>11, <1>12, <1>13, WriterKeeps

LEMMA CopyPageFilled ==
    ASSUME IInv, Filled, NEW p \in PageNos, CopyPage(p)
    PROVE  /\ Filled' /\ PagesKeep
           /\ pool[p].init /\ HasEntry(p)
           /\ \E c \in Copies : /\ c.no = p /\ c.ts = pool[p].ts /\ c.recs = pool[p].recs
                                /\ c.new <=> pool[p].onlyMem
                                /\ CopiesOf(sync'.batch) \subseteq CopiesOf(sync.batch) \cup {c}
<1> DEFINE c == [no |-> p, ts |-> pool[p].ts, recs |-> pool[p].recs, new |-> pool[p].onlyMem]
<1>1. TypeOK /\ Control /\ Owned
  BY DEF IInv
<1>2. sync.pc = "copy" /\ sync.at = 0 /\ Len(sync.batch) < BatchSize
  BY <1>1 DEF CopyPage, Control
<1>3. /\ TypeOK' /\ p \in DOMAIN sync.vec
      /\ DOMAIN sync'.vec = DOMAIN sync.vec \ {p} /\ sync'.at = 0
      /\ pool' = [pool EXCEPT ![p] = RoundRobin(pool[p])]
      /\ UNCHANGED <<index, dirtyList, disk>>
  BY <1>1, <1>2, CopyPageStep
<1>4. sync'.batch = Append(sync.batch, c) /\ UNCHANGED <<latest, idxFile, dw>>
  <2>1. sync \in Syncs
    BY <1>1 DEF TypeOK
  <2> DEFINE left == DOMAIN sync.vec \ {p}
             b == Append(sync.batch, c)
             v == [q \in left |-> sync.vec[q]]
             x == IF left = {} \/ BufferFull(b) THEN "dw" ELSE "copy"
  <2>2. sync' = [sync EXCEPT !.vec = v, !.batch = b, !.pc = x]
    BY DEF CopyPage
  <2> HIDE DEF v, b, x
  <2>3. sync'.batch = b
    BY <2>1, <2>2 DEF Syncs
  <2> QED
    BY <2>3 DEF b, CopyPage, SyncStep, diskVars
<1>5. pool[p] \in Header /\ \A q \in PageNos : q # p => pool'[q] = pool[q]
  BY <1>1, <1>3 DEF TypeOK
<1>6. pool'[p] = RoundRobin(pool[p])
  BY <1>1, <1>3 DEF TypeOK
<1>7. pool[p].due /\ pool[p].init /\ IsDirty(pool[p])
  BY <1>1, <1>2, <1>3, InHandType DEF Owned, IsDirty
<1>8. /\ IsDirty(pool'[p]) <=> IsDirty(pool[p])
      /\ pool'[p].ts = pool[p].ts /\ pool'[p].recs = pool[p].recs
      /\ pool'[p].init <=> pool[p].init
      /\ pool'[p].onlyMem <=> pool[p].onlyMem
  BY <1>5, <1>6, RoundRobinType, MacroContents
<1>9. \A q \in PageNos : Page(q).ts = Page(q)'.ts /\ Page(q).recs = Page(q)'.recs
  <2> TAKE q \in PageNos
  <2>1. CASE q = p
    BY <2>1, <1>1, <1>3, <1>8, PageKeeps
  <2>2. CASE q # p
    BY <2>2, <1>1, <1>3, <1>5, PageKeeps
  <2> QED
    BY <2>1, <2>2
<1>10. \A q \in PageNos : pool'[q].onlyMem => pool[q].onlyMem /\ IsDirty(pool'[q]) /\ pool'[q].ts = pool[q].ts
  BY <1>5, <1>8 DEF Filled, MemPages
<1>11. \A e \in index : e.no \in PageNos
  BY <1>1, EntryType DEF TypeOK
<1>12. \A e \in index : pool'[e.no].onlyMem <=> pool[e.no].onlyMem
  BY <1>5, <1>8, <1>11
<1>13. \A e \in index : ~pool'[e.no].onlyMem => disk'[e.no].ts \in {e.ts, 0}
  BY <1>3, <1>12 DEF Filled, DiskTs
<1>14. idxFile \subseteq index
  BY DEF Filled, IndexOK
<1>15. Written'
  BY <1>3, <1>4, <1>12, <1>14, NoCopies DEF Filled, Written
\* The new copy is of a page the index has.
<1>16. HasEntry(p)
  BY <1>3 DEF Filled, ListKnown
<1>17. KnownCopy(c)
  <2>1. PICK e \in index : e.no = p
    BY <1>16 DEF HasEntry
  <2>2. e = Entry(e.ts, p)
    BY <2>1, <1>1, EntryType DEF TypeOK
  <2>3. Page(p) = pool[p]
    BY <1>1, <1>7, PageType
  <2>4. pool[p].ts = e.ts \/ (pool[p].ts = 0 /\ Zero(idxFile))
    BY <2>1, <2>3 DEF Filled, PageTs
  <2> QED
    BY <2>1, <2>2, <2>4 DEF KnownCopy
<1>18. c.new => Entry(c.ts, c.no) \in index
  BY DEF Filled, MemPages
<1>19. CopiesOf(sync'.batch) \subseteq CopiesOf(sync.batch) \cup {c}
  <2>1. sync.batch \in Seq(Copies) /\ c \in Copies
    BY <1>1, <1>5 DEF TypeOK, Syncs, Header, Copies
  <2> HIDE DEF c
  <2>2. PICK m \in Nat : m = Len(sync.batch)
    BY <1>1, AtType
  <2>3. /\ Len(sync'.batch) = m + 1 /\ sync'.batch[m + 1] = c
        /\ \A i \in 1 .. m : sync'.batch[i] = sync.batch[i]
    BY <1>4, <2>1, <2>2, AppendProperties
  <2>4. \A i \in 1 .. m + 1 : i \in 1 .. m \/ i = m + 1
    OBVIOUS
  <2> QED
    BY <2>2, <2>3, <2>4 DEF CopiesOf
<1>20. /\ c.no = p /\ c.ts = pool[p].ts /\ c.recs = pool[p].recs
       /\ c.new <=> pool[p].onlyMem
  OBVIOUS
<1>21. PagesKeep
  BY <1>5, <1>8, <1>9 DEF PagesKeep
<1>22. c \in Copies
  BY <1>1, <1>5 DEF TypeOK, Syncs, Header, Copies
<1> HIDE DEF c
<1>23. Filled'
  BY <1>1, <1>3, <1>4, <1>9, <1>10, <1>13, <1>14, <1>15, <1>16, <1>17, <1>18, <1>19, <1>20, WriterKeeps
<1> QED
  BY <1>7, <1>16, <1>19, <1>20, <1>21, <1>22, <1>23

LEMMA EvictFilled ==
    ASSUME IInv, Filled, NEW p \in PageNos, Evict(p)
    PROVE  Filled' /\ PagesKeep
<1>1. TypeOK /\ CleanIsOnDisk
  BY DEF IInv
<1>2. /\ TypeOK' /\ pool[p].init /\ ~IsDirty(pool[p])
      /\ pool' = [pool EXCEPT ![p] = Absent]
      /\ UNCHANGED <<index, dirtyList, sync, disk>>
  BY <1>1, EvictStep
<1>3. UNCHANGED <<latest, idxFile, dw>>
  BY DEF Evict, diskVars, history
<1>4. pool'[p] = Absent /\ \A q \in PageNos : q # p => pool'[q] = pool[q]
  BY <1>1, <1>2 DEF TypeOK
<1>5. ~pool'[p].init /\ ~pool'[p].onlyMem /\ ~pool[p].onlyMem
  <2>1. ~pool[p].onlyMem
    BY <1>2 DEF Filled, MemPages
  <2> QED
    BY <2>1, <1>4, ContentTypes, ClearedContents
<1>6. \A q \in PageNos : Page(q).ts = Page(q)'.ts /\ Page(q).recs = Page(q)'.recs
  <2> TAKE q \in PageNos
  <2>1. CASE q = p
    <3>1. Page(p) = pool[p] /\ pool[p].ts = disk[p].ts /\ pool[p].recs = disk[p].recs
      BY <1>1, <1>2, PageType DEF CleanIsOnDisk
    <3>2. Page(p)'.ts = disk[p].ts /\ Page(p)'.recs = disk[p].recs
      BY <1>2, <1>5, PageTypeAfter
    <3> QED
      BY <2>1, <3>1, <3>2
  <2>2. CASE q # p
    BY <2>2, <1>1, <1>2, <1>4, PageKeeps
  <2> QED
    BY <2>1, <2>2
<1>7. \A q \in PageNos : pool'[q].onlyMem => pool[q].onlyMem /\ IsDirty(pool'[q]) /\ pool'[q].ts = pool[q].ts
  BY <1>4, <1>5 DEF Filled, MemPages
<1>8. \A e \in index : e.no \in PageNos
  BY <1>1, EntryType DEF TypeOK
<1>9. \A q \in PageNos : ~pool'[q].onlyMem <=> ~pool[q].onlyMem
  BY <1>4, <1>5
<1>10. \A e \in index : ~pool'[e.no].onlyMem => disk'[e.no].ts \in {e.ts, 0}
  BY <1>2, <1>8, <1>9 DEF Filled, DiskTs
<1>11. idxFile \subseteq index
  BY DEF Filled, IndexOK
<1>12. Written'
  <2>1. \A e \in idxFile : ~pool'[e.no].onlyMem
    BY <1>8, <1>9, <1>11 DEF Filled, Written
  <2>2. \A i \in 1 .. sync.at : sync.batch[i].no \in PageNos
    <3> TAKE i \in 1 .. sync.at
    <3>1. i \in 1 .. Len(sync.batch)
      BY <1>1, AtType
    <3> QED
      BY <1>1, <3>1, BatchPage
  <2>3. \A i \in 1 .. sync.at : ~pool'[sync.batch[i].no].onlyMem
    BY <1>9, <2>2 DEF Filled, Written
  <2> QED
    BY <1>2, <1>3, <2>1, <2>3 DEF Written
<1>13. PagesKeep
  BY <1>4, <1>5, <1>6, <1>9 DEF PagesKeep
<1> QED
  BY <1>1, <1>2, <1>3, <1>6, <1>7, <1>10, <1>11, <1>12, <1>13, WriterKeeps

-----------------------------------------------------------------------------
(* InsertRec.                                                               *)

\* The index grows, and the other entries keep what they say of their pages.
LEMMA InsertKeeps ==
    ASSUME IInv, Filled, TypeOK', UNCHANGED <<sync, disk, idxFile, dw>>,
           index \subseteq index', Distinct(index'), Zero(index'),
           \A e \in index : /\ Page(e.no)'.ts = Page(e.no).ts
                            /\ pool'[e.no].onlyMem <=> pool[e.no].onlyMem,
           \A e \in index' : e \notin index => pool'[e.no].onlyMem /\ Page(e.no)'.ts = e.ts,
           \A p \in PageNos : pool'[p].onlyMem => IsDirty(pool'[p]) /\ Entry(pool'[p].ts, p) \in index',
           \A p \in dirtyList' : p \in dirtyList \/ HasEntry(p)',
           Right'
    PROVE  Filled'
<1>1. TypeOK
  BY DEF IInv
<1>2. \A e \in index : e.no \in PageNos
  BY <1>1, EntryType DEF TypeOK
<1>3. IndexOK'
  BY DEF Filled, IndexOK
<1>4. \A p : HasEntry(p) => HasEntry(p)'
  BY DEF HasEntry
<1>5. CopiesKnown'
  <2>1. \A c : KnownCopy(c) => (KnownCopy(c))'
    BY DEF KnownCopy
  <2> QED
    BY <1>4, <2>1 DEF Filled, CopiesKnown, CopiesOf
<1>6. PageTs'
  BY DEF Filled, PageTs
<1>7. MemPages'
  BY DEF MemPages
<1>8. ListKnown'
  BY <1>4 DEF Filled, ListKnown
<1>9. DiskTs'
  BY DEF Filled, DiskTs
<1>10. Written'
  <2>1. \A e \in idxFile : ~pool'[e.no].onlyMem
    BY DEF Filled, Written, IndexOK
  <2>2. ASSUME NEW i \in 1 .. sync.at
        PROVE  ~pool'[sync.batch[i].no].onlyMem
    <3>1. sync.batch[i] \in CopiesOf(sync.batch)
      BY <1>1, AtType DEF CopiesOf
    <3>2. PICK e \in index : e.no = sync.batch[i].no
      BY <3>1 DEF Filled, CopiesKnown, HasEntry
    <3> QED
      BY <3>2 DEF Filled, Written
  <2> QED
    BY <2>1, <2>2 DEF Written
<1> QED
  BY <1>3, <1>5, <1>6, <1>7, <1>8, <1>9, <1>10 DEF Filled

\* A new page that takes its first records.
LEMMA FreshContents ==
    ASSUME TypeOK, NEW n \in PageNos, NEW t \in Keys \cup {0}, NEW r \in [Keys -> 0 .. MaxVer]
    PROVE  LET g == OnlyMem(Updated(NewPage(n, t), r))
           IN  g.ts = t /\ g.recs = r /\ g.onlyMem
<1> DEFINE b == NewPage(n, t)
           u == Updated(b, r)
<1>1. b \in Header
  BY NewPageType
<1>2. b.ts = t
  <2>1. pool[n] \in Header
    BY DEF TypeOK
  <2> QED
    BY <2>1 DEF NewPage, Header
<1> HIDE DEF b
<1>3. u \in Header /\ u.ts = t /\ u.recs = r
  <2>1. u \in Header
    BY <1>1, MacroTypes
  <2>2. u.ts = b.ts /\ u.recs = r
    BY <1>1, MacroContents
  <2> QED
    BY <2>1, <2>2, <1>2
<1> HIDE DEF u
<1>4. OnlyMem(u).ts = t /\ OnlyMem(u).recs = r /\ OnlyMem(u).onlyMem
  BY <1>3, MacroContents
<1> QED
  BY <1>4 DEF u, b

LEMMA FirstFilled ==
    ASSUME IInv, Filled, NEW k \in Keys, latest[k] < MaxVer, InsertFirst(k), NEW n, n = nextPageNo
    PROVE  Filled' /\ Grown
<1> DEFINE r == [NoRecs EXCEPT ![k] = latest'[k]]
           g == OnlyMem(Updated(NewPage(n, 0), r))
<1>1. TypeOK
  BY DEF IInv
<1>2. /\ TypeOK' /\ n \in PageNos /\ index = {} /\ index' = {Entry(0, n)}
      /\ \A q \in PageNos : q # n => pool'[q] = pool[q]
      /\ pool'[n].init /\ pool'[n].fresh
      /\ dirtyList' = dirtyList \cup {n}
      /\ UNCHANGED <<sync, disk, idxFile, dw>>
  BY <1>1, FirstStep
<1>3. /\ Accept(k) /\ pool' = [pool EXCEPT ![n] = g]
  BY DEF InsertFirst
<1>4. latest' = [latest EXCEPT ![k] = latest[k] + 1] /\ latest = NoRecs
  BY <1>2, <1>3 DEF Accept, Filled, Right
<1>5. \A j \in Keys : r[j] = latest'[j]
  BY <1>4 DEF NoRecs
<1>6. r \in [Keys -> 0 .. MaxVer]
  BY <1>1, <1>3, AcceptType
<1> HIDE DEF r
<1>7. pool'[n] = g
  BY <1>1, <1>2, <1>3 DEF TypeOK
<1>8. pool'[n].ts = 0 /\ pool'[n].recs = r /\ pool'[n].onlyMem
  BY <1>1, <1>2, <1>6, <1>7, FreshContents
<1> HIDE DEF g
<1>9. Page(n)'.ts = 0 /\ Page(n)'.recs = r
  BY <1>2, <1>8, PageTypeAfter
<1>10. Entry(0, n).ts = 0 /\ Entry(0, n).no = n /\ Entry(0, n) \in Entries
  BY <1>2, EntryType
<1>11. Distinct(index') /\ Zero(index') /\ index' \in SUBSET Entries
  BY <1>2, <1>10 DEF Distinct, Zero
<1>12. \A j \in Keys : Entry(0, n) \in Covering(index', j)
  <2> TAKE j \in Keys
  <2>1. j \in Nat /\ 0 \in Nat
    BY EntryType
  <2> QED
    BY <1>2, <1>10, <1>11, <2>1, CoverZero
<1>13. Right'
  BY <1>2, <1>5, <1>9, <1>10, <1>12 DEF Right
<1>14. \A p \in PageNos : pool'[p].onlyMem => IsDirty(pool'[p]) /\ Entry(pool'[p].ts, p) \in index'
  <2>1. \A p \in PageNos : ~pool[p].onlyMem
    BY <1>2 DEF Filled, MemPages
  <2> QED
    BY <1>2, <1>8, <2>1 DEF IsDirty
<1>15. HasEntry(n)'
  BY <1>2, <1>10 DEF HasEntry
<1>16. r # NoRecs
  BY <1>1, <1>4, <1>5 DEF TypeOK, NoRecs
<1>17. Grown
  BY <1>2, <1>8, <1>9, <1>10, <1>16 DEF Grown
<1> QED
  BY <1>2, <1>8, <1>9, <1>10, <1>11, <1>13, <1>14, <1>15, <1>17, InsertKeeps

LEMMA InPageFilled ==
    ASSUME IInv, Filled, NEW k \in Keys, latest[k] < MaxVer,
           NEW e \in Covering(index, k), InsertInPage(k, e.no)
    PROVE  Filled' /\ Grown
<1> DEFINE p == e.no
           h == Page(p)
           r == [h.recs EXCEPT ![k] = latest'[k]]
<1>1. TypeOK /\ Owned
  BY DEF IInv
<1>2. e \in index /\ p \in PageNos /\ \A f \in index : f.no \in PageNos
  BY <1>1, EntryType DEF TypeOK, Covering
<1>3. /\ TypeOK' /\ pool'[p].init /\ pool'[p].fresh
      /\ \A q \in PageNos : q # p => pool'[q] = pool[q]
      /\ dirtyList' = IF IsDirty(h) THEN dirtyList ELSE dirtyList \cup {p}
      /\ UNCHANGED <<index, sync, disk, idxFile, dw>>
  BY <1>1, <1>2, InPageStep
<1>4. Accept(k) /\ pool' = [pool EXCEPT ![p] = Updated(h, r)]
  BY DEF InsertInPage
<1>5. h \in Header /\ (h.onlyMem <=> pool[p].onlyMem) /\ (pool[p].init => h = pool[p])
      /\ (pool[p].onlyMem => pool[p].init)
  BY <1>1, <1>2, PageType, PageOnlyMem
<1>6. h.recs \in [Keys -> 0 .. MaxVer]
  BY <1>5 DEF Header
<1>7. r \in [Keys -> 0 .. MaxVer]
  BY <1>1, <1>4, <1>6, AcceptType
<1>8. \A j \in Keys : r[j] = IF j = k THEN latest'[k] ELSE h.recs[j]
  BY <1>6
<1> HIDE DEF r
<1>9. pool'[p] = Updated(h, r)
  BY <1>1, <1>2, <1>4 DEF TypeOK
<1>10. pool'[p].ts = h.ts /\ pool'[p].recs = r /\ (pool'[p].onlyMem <=> pool[p].onlyMem)
  BY <1>5, <1>7, <1>9, MacroContents
<1> HIDE DEF p, h
<1>11. Page(p)'.ts = Page(p).ts /\ Page(p)'.recs = r
  BY <1>2, <1>3, <1>10, PageTypeAfter DEF h
<1>12. \A q \in PageNos : q # p => Page(q)' = Page(q)
  BY <1>3 DEF Page
<1>13. latest' = [latest EXCEPT ![k] = latest[k] + 1] /\ latest \in [Keys -> 0 .. MaxVer]
  BY <1>1, <1>4 DEF Accept, TypeOK
<1>14. \A j \in Keys : j # k => latest'[j] = latest[j]
  BY <1>13
<1>15. Distinct(index) /\ Zero(index) /\ index \in SUBSET Entries
  BY <1>1, <1>2 DEF Filled, IndexOK, TypeOK
<1>16. \A f \in index : f # e => f.no # p /\ f \notin Covering(index, k)
  <2> SUFFICES ASSUME NEW f \in index, f # e
               PROVE  f.no # p /\ f \notin Covering(index, k)
    OBVIOUS
  <2>1. f.no # p
    BY <1>2, <1>15 DEF Distinct, p
  <2>2. f \notin Covering(index, k)
    BY <1>15, CoverOne
  <2> QED
    BY <2>1, <2>2
<1>17. ASSUME NEW f \in index, NEW j \in Keys
       PROVE  /\ f \in Covering(index, j) => Page(f.no)'.recs[j] = latest'[j]
              /\ Page(f.no)'.recs[j] # 0 => f \in Covering(index, j)
  <2>1. /\ f \in Covering(index, j) => Page(f.no).recs[j] = latest[j]
        /\ Page(f.no).recs[j] # 0 => f \in Covering(index, j)
    BY DEF Filled, Right
  <2>2. CASE f # e
    BY <2>1, <2>2, <1>2, <1>12, <1>14, <1>16
  <2>3. CASE f = e /\ j = k
    BY <2>3, <1>8, <1>11 DEF p
  <2>4. CASE f = e /\ j # k
    BY <2>1, <2>4, <1>8, <1>11, <1>14 DEF p, h
  <2> QED
    BY <2>2, <2>3, <2>4
<1>18. Right'
  BY <1>2, <1>3, <1>17 DEF Right
<1>19. \A f \in index : /\ Page(f.no)'.ts = Page(f.no).ts
                        /\ pool'[f.no].onlyMem <=> pool[f.no].onlyMem
  BY <1>2, <1>3, <1>10, <1>11, <1>12
<1>20. \A q \in PageNos : pool'[q].onlyMem => IsDirty(pool'[q]) /\ Entry(pool'[q].ts, q) \in index'
  BY <1>3, <1>5, <1>10 DEF Filled, MemPages, IsDirty
<1>21. HasEntry(p)'
  BY <1>2, <1>3 DEF HasEntry, p
<1>22. r # NoRecs
  <2>1. latest'[k] = latest[k] + 1 /\ latest[k] \in Nat
    BY <1>13
  <2> QED
    BY <2>1, <1>8 DEF NoRecs
<1>24. \A f \in index : Page(f.no)'.recs = Page(f.no).recs \/ Page(f.no)'.recs # NoRecs
  BY <1>2, <1>11, <1>12, <1>22
<1>23. Grown
  BY <1>3, <1>10, <1>19, <1>22, <1>24 DEF Grown
<1> QED
  BY <1>3, <1>15, <1>18, <1>19, <1>20, <1>21, <1>23, InsertKeeps

\* The page of e is divided at t: what it holds from t on is in a new page.
LEMMA DividedFilled ==
    ASSUME IInv, Filled, TypeOK', NEW k \in Keys, NEW e \in Covering(index, k),
           NEW t \in Keys, e \in Covering(index, t), e.ts # t,
           NEW n \in PageNos, ~HasEntry(n), index' = index \cup {Entry(t, n)},
           UNCHANGED <<sync, disk, idxFile, dw>>,
           dirtyList' \subseteq dirtyList \cup {n, e.no},
           \A j \in Keys : j # k => latest'[j] = latest[j],
           \A q \in PageNos : q # e.no /\ q # n => pool'[q] = pool[q],
           pool'[n].init, pool'[n].ts = t, pool'[n].onlyMem, IsDirty(pool'[n]),
           pool'[e.no].init, pool'[e.no].ts = Page(e.no).ts,
           pool'[e.no].onlyMem <=> Page(e.no).onlyMem,
           pool[e.no].onlyMem => IsDirty(pool'[e.no]),
           \A j \in Keys : pool'[n].recs[j] =
                IF j < t THEN 0 ELSE IF j = k THEN latest'[k] ELSE Page(e.no).recs[j],
           \A j \in Keys : pool'[e.no].recs[j] =
                IF t <= j THEN 0 ELSE IF j = k THEN latest'[k] ELSE Page(e.no).recs[j],
           \E j \in Keys : pool'[n].recs[j] # 0, \E j \in Keys : pool'[e.no].recs[j] # 0
    PROVE  Filled' /\ Grown
<1> DEFINE p == e.no
           new == Entry(t, n)
<1>1. TypeOK /\ index \in SUBSET Entries
  BY DEF IInv, TypeOK
<1>2. e \in index /\ p \in PageNos /\ \A f \in index : f.no \in PageNos
  BY <1>1, EntryType DEF Covering
<1>3. Distinct(index) /\ Zero(index)
  BY <1>2 DEF Filled, IndexOK
<1>4. new \in Entries /\ new.ts = t /\ new.no = n
  BY EntryType
<1>5. \A f \in index : f.no # n
  BY DEF HasEntry
<1>6. new \notin index /\ p # n
  BY <1>2, <1>4, <1>5
<1>7. \A f \in index : f.ts # t
  <2> SUFFICES ASSUME NEW f \in index, f.ts = t
               PROVE  FALSE
    OBVIOUS
  <2>1. e.ts \in Nat /\ t \in Nat
    BY <1>1, <1>2, EntryType
  <2>2. e.ts <= t /\ (t <= t => t <= e.ts)
    BY <1>1, <1>2, <1>3, CoverZero
  <2> QED
    BY <2>1, <2>2
<1> HIDE DEF new
<1>8. Distinct(index') /\ Zero(index')
  BY <1>3, <1>4, <1>5, <1>7 DEF Distinct, Zero, new
<1>9. \A f \in index : f # e => f.no # p
  BY <1>2, <1>3 DEF Distinct
<1>10. \A j \in Keys : /\ new \in Covering(index', j) <=> e \in Covering(index, j) /\ t <= j
                       /\ e \in Covering(index', j) <=> e \in Covering(index, j) /\ j < t
                       /\ \A f \in index : f # e => (f \in Covering(index', j) <=> f \in Covering(index, j))
  <2> TAKE j \in Keys
  <2>1. Entry(t, n) \notin index
    BY <1>6 DEF new
  <2>2. /\ Entry(t, n) \in Covering(index', j) <=> e \in Covering(index, j) /\ t <= j
        /\ e \in Covering(index', j) <=> e \in Covering(index, j) /\ j < t
        /\ Distinct(index) => \A f \in index : f # e => (f \in Covering(index', j) <=> f \in Covering(index, j))
    BY <1>1, <1>2, <1>3, <2>1, CoverDivided
  <2> QED
    BY <1>3, <2>2 DEF new
<1> HIDE DEF p
<1>11. Page(n)' = pool'[n] /\ Page(p)' = pool'[p]
  BY <1>2, PageTypeAfter DEF p
<1>12. \A q \in PageNos : q # p /\ q # n => Page(q)' = Page(q)
  BY DEF Page, p
<1>13. \A j \in Keys : /\ e \in Covering(index, j) => Page(p).recs[j] = latest[j]
                       /\ Page(p).recs[j] # 0 => e \in Covering(index, j)
  BY <1>2 DEF Filled, Right, p
<1>14. \A j \in Keys : j \in Nat
  BY EntryType
<1>15. ASSUME NEW j \in Keys
       PROVE  /\ new \in Covering(index', j) => Page(n)'.recs[j] = latest'[j]
              /\ Page(n)'.recs[j] # 0 => new \in Covering(index', j)
  <2>1. CASE t <= j
    <3>1. Page(n)'.recs[j] = IF j = k THEN latest'[k] ELSE Page(p).recs[j]
      BY <2>1, <1>11, <1>14 DEF p
    <3> QED
      BY <2>1, <3>1, <1>10, <1>13
  <2>2. CASE ~ (t <= j)
    <3>1. Page(n)'.recs[j] = 0
      BY <2>2, <1>11, <1>14
    <3> QED
      BY <2>2, <3>1, <1>10
  <2> QED
    BY <2>1, <2>2
<1>16. ASSUME NEW j \in Keys
       PROVE  /\ e \in Covering(index', j) => Page(p)'.recs[j] = latest'[j]
              /\ Page(p)'.recs[j] # 0 => e \in Covering(index', j)
  <2>1. CASE t <= j
    <3>1. Page(p)'.recs[j] = 0
      BY <2>1, <1>11 DEF p
    <3>2. ~ (j < t)
      BY <2>1, <1>14
    <3> QED
      BY <3>1, <3>2, <1>10
  <2>2. CASE ~ (t <= j)
    <3>1. Page(p)'.recs[j] = IF j = k THEN latest'[k] ELSE Page(p).recs[j]
      BY <2>2, <1>11 DEF p
    <3>2. j < t
      BY <2>2, <1>14
    <3> QED
      BY <3>1, <3>2, <1>10, <1>13
  <2> QED
    BY <2>1, <2>2
<1>17. ASSUME NEW f \in index, f # e, NEW j \in Keys
       PROVE  /\ f \in Covering(index', j) => Page(f.no)'.recs[j] = latest'[j]
              /\ Page(f.no)'.recs[j] # 0 => f \in Covering(index', j)
  <2>1. Page(f.no)' = Page(f.no)
    BY <1>2, <1>5, <1>9, <1>12, <1>17
  <2>2. f \notin Covering(index, k)
    BY <1>1, <1>3, <1>17, CoverOne
  <2>3. /\ f \in Covering(index, j) => Page(f.no).recs[j] = latest[j]
        /\ Page(f.no).recs[j] # 0 => f \in Covering(index, j)
    BY DEF Filled, Right
  <2> QED
    BY <2>1, <2>2, <2>3, <1>10, <1>17
<1>18. Right'
  <2>1. ASSUME NEW f \in index', NEW j \in Keys
        PROVE  /\ f \in Covering(index', j) => Page(f.no)'.recs[j] = latest'[j]
               /\ Page(f.no)'.recs[j] # 0 => f \in Covering(index', j)
    <3>1. CASE f = new
      BY <3>1, <1>4, <1>15
    <3>2. CASE f = e
      BY <3>2, <1>16 DEF p
    <3>3. CASE f \in index /\ f # e
      BY <3>3, <1>17
    <3> QED
      BY <2>1, <3>1, <3>2, <3>3 DEF new
  <2>2. index' # {}
    BY <1>2
  <2> QED
    BY <2>1, <2>2 DEF Right
<1>19. \A f \in index : /\ Page(f.no)'.ts = Page(f.no).ts
                        /\ pool'[f.no].onlyMem <=> pool[f.no].onlyMem
  <2> TAKE f \in index
  <2>1. CASE f = e
    BY <2>1, <1>2, <1>11, PageOnlyMem DEF p
  <2>2. CASE f # e
    BY <2>2, <1>2, <1>5, <1>9, <1>12 DEF p
  <2> QED
    BY <2>1, <2>2
<1>20. \A f \in index' : f \notin index => pool'[f.no].onlyMem /\ Page(f.no)'.ts = f.ts
  BY <1>4, <1>11 DEF new
<1>21. \A q \in PageNos : pool'[q].onlyMem => IsDirty(pool'[q]) /\ Entry(pool'[q].ts, q) \in index'
  <2> TAKE q \in PageNos
  <2>1. CASE q = n
    BY <2>1
  <2>2. CASE q = p
    <3>1. pool'[p].onlyMem => pool[p].onlyMem /\ pool[p].init
      BY <1>2, PageOnlyMem DEF p
    <3>2. pool[p].init => Page(p) = pool[p]
      BY <1>1, <1>2, PageType
    <3> QED
      BY <2>2, <3>1, <3>2, <1>2 DEF Filled, MemPages, p
  <2>3. CASE q # n /\ q # p
    BY <2>3 DEF Filled, MemPages, p
  <2> QED
    BY <2>1, <2>2, <2>3
<1>22. HasEntry(n)' /\ HasEntry(p)'
  BY <1>2, <1>4 DEF HasEntry, new, p
<1>23. \A q \in dirtyList' : q \in dirtyList \/ HasEntry(q)'
  BY <1>22 DEF p
<1>24. pool'[n].recs # NoRecs /\ pool'[p].recs # NoRecs
  BY DEF NoRecs, p
<1>26. \A f \in index : Page(f.no)'.recs = Page(f.no).recs \/ Page(f.no)'.recs # NoRecs
  <2> TAKE f \in index
  <2>1. CASE f = e
    BY <2>1, <1>11, <1>24 DEF p
  <2>2. CASE f # e
    BY <2>2, <1>2, <1>5, <1>9, <1>12
  <2> QED
    BY <2>1, <2>2
<1>25. Grown
  BY <1>19, <1>20, <1>24, <1>26 DEF Grown, p
<1> QED
  BY <1>8, <1>18, <1>19, <1>20, <1>21, <1>23, <1>25, InsertKeeps

LEMMA AfterFilled ==
    ASSUME IInv, Filled, NEW k \in Keys, latest[k] < MaxVer,
           NEW e \in Covering(index, k), InsertAfter(k, e.no), damaged' = {},
           NEW n, n = nextPageNo
    PROVE  Filled' /\ Grown
<1> DEFINE p == e.no
           h == Page(p)
           f == IF IsDirty(h) THEN Full(h) ELSE h
           r == [NoRecs EXCEPT ![k] = latest'[k]]
           g == OnlyMem(Updated(NewPage(n, k), r))
<1>1. TypeOK
  BY DEF IInv
<1>2. e \in index /\ p \in PageNos
  BY <1>1, EntryType DEF TypeOK, Covering
<1>3. /\ TypeOK' /\ n \in PageNos /\ index' = index \cup {Entry(k, n)}
      /\ \A q \in PageNos : q # p /\ q # n => pool'[q] = pool[q]
      /\ pool'[n].init /\ pool'[n].fresh
      /\ dirtyList' = dirtyList \cup {n}
      /\ damaged' = damaged \cup Reuse
      /\ UNCHANGED <<sync, disk, idxFile, dw>>
  BY <1>1, <1>2, AfterStep
<1>4. /\ Accept(k) /\ pool' = [pool EXCEPT ![p] = f, ![n] = g]
      /\ Cardinality(Held(h)) = PageCap
      /\ \A j \in Held(h) : j < k
  BY DEF InsertAfter
<1>5. ~HasEntry(n)
  BY <1>3 DEF Reuse, HasEntry
<1>6. p # n
  BY <1>2, <1>5 DEF HasEntry
<1>7. /\ h \in Header /\ h.init /\ (pool[p].init => h = pool[p])
      /\ (h.onlyMem <=> pool[p].onlyMem) /\ (pool[p].onlyMem => pool[p].init)
  BY <1>1, <1>2, PageType, PageOnlyMem
<1>8. f.init /\ f.ts = h.ts /\ f.recs = h.recs /\ (f.onlyMem <=> h.onlyMem)
      /\ (f.fresh <=> h.fresh) /\ (f.due <=> h.due)
  BY <1>7, MacroTypes, MacroContents
<1>9. r \in [Keys -> 0 .. MaxVer] /\ \A j \in Keys : r[j] = IF j = k THEN latest'[k] ELSE 0
  BY <1>1, <1>4, AcceptType DEF NoRecs
<1> HIDE DEF r
<1>10. g.ts = k /\ g.recs = r /\ g.onlyMem
  BY <1>1, <1>3, <1>9, FreshContents
<1> HIDE DEF f, g
<1>11. pool'[n] = g /\ pool'[p] = f
  BY <1>1, <1>2, <1>3, <1>4, <1>6 DEF TypeOK
<1>12. Held(h) # {}
  <2>1. PageCap # 0
    BY NormalPartAssumption
  <2> QED
    BY <2>1, <1>4, FS_EmptySet
<1>13. e.ts # k
  <2>1. PICK j \in Held(h) : j < k
    BY <1>4, <1>12
  <2>2. j \in Keys /\ h.recs[j] # 0
    BY <2>1 DEF Held
  <2>3. e \in Covering(index, j)
    BY <1>2, <2>2 DEF Filled, Right
  <2>4. e.ts <= j
    BY <1>1, <1>2, <2>2, <2>3, CoverZero DEF Filled, IndexOK, TypeOK
  <2>5. e.ts \in Nat /\ j \in Nat /\ k \in Nat
    BY <1>1, <1>2, <2>2, EntryType DEF TypeOK
  <2> QED
    BY <2>1, <2>4, <2>5
<1>14. \A j \in Keys : pool'[n].recs[j] =
          IF j < k THEN 0 ELSE IF j = k THEN latest'[k] ELSE Page(e.no).recs[j]
  <2> TAKE j \in Keys
  <2>1. j \in Nat /\ k \in Nat
    BY EntryType
  <2>2. k < j => h.recs[j] = 0
    BY <2>1, <1>4 DEF Held
  <2> QED
    BY <2>1, <2>2, <1>9, <1>10, <1>11
<1>15. \A j \in Keys : pool'[e.no].recs[j] =
          IF k <= j THEN 0 ELSE IF j = k THEN latest'[k] ELSE Page(e.no).recs[j]
  <2> TAKE j \in Keys
  <2>1. j \in Nat /\ k \in Nat
    BY EntryType
  <2>2. k <= j => h.recs[j] = 0
    BY <2>1, <1>4 DEF Held
  <2> QED
    BY <2>1, <2>2, <1>8, <1>11
<1>16. \A j \in Keys : j # k => latest'[j] = latest[j]
  BY <1>1, <1>4 DEF Accept, TypeOK
<1>17. pool[p].onlyMem => IsDirty(pool'[p])
  <2> HAVE pool[p].onlyMem
  <2>1. IsDirty(pool[p])
    BY <1>2 DEF Filled, MemPages
  <2>2. h.due \/ h.fresh
    BY <2>1, <1>7 DEF IsDirty
  <2>3. f.due \/ f.fresh
    BY <2>2, <1>8
  <2> QED
    BY <2>3, <1>11 DEF IsDirty
<1>20. latest'[k] # 0
  BY <1>1, <1>4 DEF Accept, TypeOK
<1>21. \E j \in Keys : pool'[n].recs[j] # 0
  BY <1>9, <1>10, <1>11, <1>20
<1>22. \E j \in Keys : pool'[e.no].recs[j] # 0
  <2>1. PICK j \in Keys : h.recs[j] # 0
    BY <1>12 DEF Held
  <2> QED
    BY <2>1, <1>8, <1>11
<1> HIDE DEF h
<1>18. /\ pool'[p].init /\ pool'[p].ts = Page(p).ts /\ (pool'[p].onlyMem <=> Page(p).onlyMem)
       /\ pool'[n].ts = k /\ pool'[n].onlyMem /\ IsDirty(pool'[n])
  BY <1>3, <1>8, <1>10, <1>11 DEF h, IsDirty
<1>19. dirtyList' \subseteq dirtyList \cup {n, e.no}
  BY <1>3
<1> QED
  BY <1>3, <1>5, <1>13, <1>14, <1>15, <1>16, <1>17, <1>18, <1>19, <1>21, <1>22, DividedFilled

\* SplitMost moves what a page holds from a timestamp on, and leaves something.
LEMMA TailFrom ==
    ASSUME NEW h, NEW m \in Nat, m < Cardinality(Held(h)), NEW first \in Least(MovedOut(h, m))
    PROVE  /\ first \in Held(h) /\ first \in Keys
           /\ \A j \in Held(h) : j \in MovedOut(h, m) <=> first <= j
           /\ MovedOut(h, m) \subseteq Held(h)
           /\ \E i \in Held(h) : i < first
<1> DEFINE From(k) == {j \in Held(h) : j >= k}
<1>1. Held(h) \subseteq Keys /\ IsFiniteSet(Held(h))
  <2>1. Held(h) \in SUBSET Keys
    BY DEF Held
  <2> QED
    BY <2>1, NormalPartAssumption, FS_Subset
<1>2. \A k : IsFiniteSet(From(k)) /\ Cardinality(From(k)) \in Nat
  <2> TAKE k
  <2>1. From(k) \in SUBSET Held(h)
    OBVIOUS
  <2> QED
    BY <1>1, <2>1, FS_Subset, FS_CardinalityType
<1>3. /\ first \in MovedOut(h, m) /\ \A j \in MovedOut(h, m) : first <= j
      /\ first \in Held(h) /\ Cardinality(From(first)) <= m
  BY DEF Least, MovedOut
<1>4. first \in Nat /\ \A j \in Held(h) : j \in Nat
  BY <1>1, <1>3, EntryType
<1>5. ASSUME NEW j \in Held(h), first <= j
      PROVE  j \in MovedOut(h, m)
  <2>1. From(j) \in SUBSET From(first)
    BY <1>4, <1>5
  <2>2. Cardinality(From(j)) <= Cardinality(From(first))
    BY <1>2, <2>1, FS_Subset
  <2>3. Cardinality(From(j)) <= m
    <3> HIDE DEF From
    <3> QED
      BY <1>2, <1>3, <2>2
  <2> QED
    BY <2>3 DEF MovedOut
<1>6. \E i \in Held(h) : i < first
  <2> SUFFICES ASSUME \A i \in Held(h) : ~ (i < first)
               PROVE  FALSE
    OBVIOUS
  <2>1. From(first) = Held(h)
    BY <1>4
  <2>2. Cardinality(Held(h)) \in Nat
    BY <1>1, FS_CardinalityType
  <2> QED
    BY <1>3, <2>1, <2>2
<1> QED
  BY <1>1, <1>3, <1>5, <1>6 DEF MovedOut

LEMMA SplitFilled ==
    ASSUME IInv, Filled, NEW k \in Keys, latest[k] < MaxVer,
           NEW e \in Covering(index, k), InsertSplit(k, e), damaged' = {},
           NEW n, n = nextPageNo
    PROVE  Filled' /\ Grown
<1> DEFINE p == e.no
           h == Page(p)
           m == IF IsLast(index, e) THEN MovesLast ELSE MovesMid
           tail == MovedOut(h, m)
           old == StaysIn(h, tail)
           new == MovedTo(h, tail)
           R(toNew) == IF toNew THEN old ELSE [old EXCEPT ![k] = latest'[k]]
           S(toNew) == IF toNew THEN [new EXCEPT ![k] = latest'[k]] ELSE new
           F(r) == InGroup(Full(Updated(h, r)), SplitGroup(h, p))
           G(b, s) == InGroup(Full(OnlyMem(Updated(b, s))), IF h.onlyMem THEN b.grp ELSE p)
<1>1. TypeOK
  BY DEF IInv
<1>2. e \in index /\ p \in PageNos
  BY <1>1, EntryType DEF TypeOK, Covering
<1>3. /\ TypeOK' /\ n \in PageNos
      /\ \A q \in PageNos : q # p /\ q # n => pool'[q] = pool[q]
      /\ p # n => pool'[p].init /\ pool'[p].fresh
      /\ pool'[n].init /\ pool'[n].fresh
      /\ dirtyList' = dirtyList \cup (IF IsDirty(h) THEN {n} ELSE {n, p})
      /\ damaged \cup Reuse \subseteq damaged'
      /\ UNCHANGED <<sync, disk, idxFile, dw>>
  BY <1>1, <1>2, SplitStep
<1>4. PICK first \in Least(tail) :
         /\ Accept(k)
         /\ Cardinality(Held(h)) = PageCap
         /\ pool' = [pool EXCEPT ![p] = F(R(ToNewPage(k, first))),
                                 ![n] = G(NewPage(n, first), S(ToNewPage(k, first)))]
         /\ index' = index \cup {Entry(first, n)}
         /\ k = first => ToNewPage(k, first)
  BY DEF InsertSplit
<1>5. ~HasEntry(n)
  BY <1>3 DEF Reuse, HasEntry
<1>6. p # n
  BY <1>2, <1>5 DEF HasEntry
<1>7. /\ h \in Header /\ (pool[p].init => h = pool[p])
      /\ (h.onlyMem <=> pool[p].onlyMem) /\ (pool[p].onlyMem => pool[p].init)
  BY <1>1, <1>2, PageType, PageOnlyMem
<1>8. /\ first \in Held(h) /\ first \in Keys
      /\ \A j \in Held(h) : j \in tail <=> first <= j
      /\ tail \subseteq Held(h)
      /\ \E i \in Held(h) : i < first
  <2>1. m \in Nat /\ m < PageCap
    BY NormalPartAssumption
  <2> HIDE DEF m, h
  <2> QED
    BY <2>1, <1>4, TailFrom
<1> DEFINE toNew == ToNewPage(k, first)
           b == NewPage(n, first)
<1>9. k # first /\ (toNew <=> first < k)
  <2>1. k \in Nat /\ first \in Nat
    BY <1>8, EntryType
  <2> QED
    BY <2>1, <1>4 DEF ToNewPage
<1>10. /\ old \in [Keys -> 0 .. MaxVer] /\ new \in [Keys -> 0 .. MaxVer]
       /\ \A j \in Keys : /\ old[j] = IF j \in tail THEN 0 ELSE h.recs[j]
                          /\ new[j] = IF j \in tail THEN h.recs[j] ELSE 0
  <2>1. h.recs \in [Keys -> 0 .. MaxVer]
    BY <1>7 DEF Header
  <2>2. 0 \in 0 .. MaxVer
    BY NormalPartAssumption
  <2> HIDE DEF tail, h
  <2> QED
    BY <2>1, <2>2 DEF StaysIn, MovedTo
<1> HIDE DEF tail, old, new, toNew
<1>11. /\ R(toNew) \in [Keys -> 0 .. MaxVer] /\ S(toNew) \in [Keys -> 0 .. MaxVer]
       /\ \A j \in Keys : /\ R(toNew)[j] = IF ~toNew /\ j = k THEN latest'[k] ELSE old[j]
                          /\ S(toNew)[j] = IF toNew /\ j = k THEN latest'[k] ELSE new[j]
  BY <1>1, <1>4, <1>10, AcceptType
<1> DEFINE r == R(toNew)
           s == S(toNew)
<1>12. pool' = [pool EXCEPT ![p] = F(r), ![n] = G(b, s)]
  BY <1>4 DEF toNew
<1>13. SplitGroup(h, p) \in 0 .. MaxPage
  BY <1>2, <1>7, NormalPartAssumption DEF SplitGroup, Header, PageNos
<1>14. b \in Header
  BY <1>1, <1>3, <1>8, NewPageType
<1>15. (IF h.onlyMem THEN b.grp ELSE p) \in 0 .. MaxPage
  <2>1. b.grp \in 0 .. MaxPage
    BY <1>14 DEF Header
  <2> QED
    BY <1>2, <2>1, NormalPartAssumption DEF PageNos
<1>16. r \in [Keys -> 0 .. MaxVer] /\ s \in [Keys -> 0 .. MaxVer]
  BY <1>11
<1> HIDE DEF r, s
<1>17. F(r).ts = h.ts /\ F(r).recs = r /\ (F(r).onlyMem <=> h.onlyMem)
  <2> DEFINE f1 == Updated(h, r)
             f2 == Full(f1)
  <2>1. f1 \in Header
    BY <1>7, <1>16, MacroTypes
  <2>2. f1.ts = h.ts /\ f1.recs = r /\ (f1.onlyMem <=> h.onlyMem)
    BY <1>7, <1>16, MacroContents
  <2> HIDE DEF f1
  <2>3. f2 \in Header /\ f2.ts = f1.ts /\ f2.recs = f1.recs
    BY <2>1, MacroTypes
  <2>4. f2.onlyMem <=> f1.onlyMem
    BY <2>1, MacroContents
  <2> HIDE DEF f2
  <2>5. /\ InGroup(f2, SplitGroup(h, p)).ts = f2.ts /\ InGroup(f2, SplitGroup(h, p)).recs = f2.recs
        /\ InGroup(f2, SplitGroup(h, p)).onlyMem <=> f2.onlyMem
    BY <2>3, <1>13, MacroContents
  <2> QED
    BY <2>2, <2>3, <2>4, <2>5 DEF f1, f2
<1>18. G(b, s).ts = first /\ G(b, s).recs = s /\ G(b, s).onlyMem
  <2> DEFINE g1 == OnlyMem(Updated(b, s))
             g2 == Full(g1)
             grp == IF h.onlyMem THEN b.grp ELSE p
  <2>1. g1.ts = first /\ g1.recs = s /\ g1.onlyMem
    BY <1>1, <1>3, <1>8, <1>16, FreshContents
  <2>2. g1 \in Header
    BY <1>1, <1>3, <1>8, <1>16, FreshPage
  <2> HIDE DEF g1
  <2>3. g2 \in Header /\ g2.ts = g1.ts /\ g2.recs = g1.recs
    BY <2>2, MacroTypes
  <2>4. g2.onlyMem <=> g1.onlyMem
    BY <2>2, MacroContents
  <2>5. grp \in 0 .. MaxPage
    BY <1>15
  <2> HIDE DEF g2, grp
  <2>6. InGroup(g2, grp).ts = g2.ts /\ InGroup(g2, grp).recs = g2.recs
        /\ (InGroup(g2, grp).onlyMem <=> g2.onlyMem)
    BY <2>3, <2>5, MacroContents
  <2> QED
    BY <2>1, <2>3, <2>4, <2>6 DEF g1, g2, grp
<1> HIDE DEF F, G
<1>19. pool'[n] = G(b, s) /\ pool'[p] = F(r)
  BY <1>1, <1>2, <1>3, <1>6, <1>12 DEF TypeOK
<1>20. first \in Nat /\ k \in Nat /\ \A j \in Keys : j \in Nat
  BY <1>8, EntryType
<1>21. e \in Covering(index, first) /\ e.ts # first
  <2>1. ASSUME NEW j \in Held(h)
        PROVE  e \in Covering(index, j) /\ j \in Keys
    <3>1. j \in Keys /\ h.recs[j] # 0
      BY DEF Held
    <3> QED
      BY <3>1, <1>2 DEF Filled, Right
  <2>2. PICK i \in Held(h) : i < first
    BY <1>8
  <2>3. e.ts <= i
    BY <1>1, <1>2, <2>1, CoverZero DEF Filled, IndexOK, TypeOK
  <2>4. e.ts \in Nat /\ i \in Nat
    BY <1>1, <1>2, <2>1, EntryType DEF TypeOK
  <2> QED
    BY <1>8, <1>20, <2>1, <2>2, <2>3, <2>4
<1>22. \A j \in Keys : pool'[n].recs[j] =
          IF j < first THEN 0 ELSE IF j = k THEN latest'[k] ELSE Page(e.no).recs[j]
  <2> TAKE j \in Keys
  <2>1. s[j] = IF toNew /\ j = k THEN latest'[k] ELSE new[j]
    BY <1>11 DEF s
  <2>2. j \in tail => first <= j
    BY <1>8
  <2>3. first <= j /\ j \notin tail => h.recs[j] = 0
    BY <1>8 DEF Held
  <2>4. s[j] = IF j < first THEN 0 ELSE IF j = k THEN latest'[k] ELSE h.recs[j]
    BY <1>9, <1>10, <1>20, <2>1, <2>2, <2>3
  <2> QED
    BY <1>18, <1>19, <2>4
<1>23. \A j \in Keys : pool'[e.no].recs[j] =
          IF first <= j THEN 0 ELSE IF j = k THEN latest'[k] ELSE Page(e.no).recs[j]
  <2> TAKE j \in Keys
  <2>1. r[j] = IF ~toNew /\ j = k THEN latest'[k] ELSE old[j]
    BY <1>11 DEF r
  <2>2. j \in tail => first <= j
    BY <1>8
  <2>3. first <= j /\ j \notin tail => h.recs[j] = 0
    BY <1>8 DEF Held
  <2>4. r[j] = IF first <= j THEN 0 ELSE IF j = k THEN latest'[k] ELSE h.recs[j]
    BY <1>9, <1>10, <1>20, <2>1, <2>2, <2>3
  <2> QED
    BY <1>17, <1>19, <2>4
<1>24. \A j \in Keys : j # k => latest'[j] = latest[j]
  BY <1>1, <1>4 DEF Accept, TypeOK
<1>28. latest'[k] # 0
  BY <1>1, <1>4 DEF Accept, TypeOK
<1>29. \A j \in Held(h) : j \in Keys /\ Page(e.no).recs[j] # 0
  BY DEF Held
<1>30. \E j \in Keys : pool'[n].recs[j] # 0
  BY <1>8, <1>9, <1>20, <1>22, <1>29
<1>31. \E j \in Keys : pool'[e.no].recs[j] # 0
  <2>1. PICK i \in Held(h) : i < first
    BY <1>8
  <2> QED
    <3>1. i \in Keys /\ Page(e.no).recs[i] # 0
      BY <1>29, Zenon
    <3> HIDE DEF h
    <3>2. i \in Nat
      BY <3>1, <1>20
    <3>3. ~ (first <= i)
      BY <2>1, <3>2, <1>20
    <3> QED
      BY <3>1, <3>3, <1>23, <1>28
<1> HIDE DEF h
<1>25. /\ pool'[p].init /\ pool'[p].ts = Page(p).ts /\ (pool'[p].onlyMem <=> Page(p).onlyMem)
       /\ IsDirty(pool'[p])
       /\ pool'[n].ts = first /\ pool'[n].onlyMem /\ IsDirty(pool'[n])
  BY <1>3, <1>6, <1>17, <1>18, <1>19 DEF h, IsDirty
<1>26. dirtyList' \subseteq dirtyList \cup {n, e.no}
  BY <1>3
<1>27. /\ TypeOK' /\ n \in PageNos /\ first \in Keys /\ index' = index \cup {Entry(first, n)}
       /\ \A q \in PageNos : q # e.no /\ q # n => pool'[q] = pool[q]
       /\ pool'[n].init
       /\ UNCHANGED <<sync, disk, idxFile, dw>>
  BY <1>3, <1>4, <1>8
<1> HIDE DEF b
<1> QED
  BY <1>5, <1>21, <1>22, <1>23, <1>24, <1>25, <1>26, <1>27, <1>30, <1>31, DividedFilled

LEMMA InsertFilled ==
    ASSUME IInv, Filled, NEW k \in Keys, InsertRec(k), damaged' = {}
    PROVE  Filled' /\ Grown
<1>1. latest[k] < MaxVer
  BY DEF InsertRec
<1>2. CASE InsertFirst(k)
  BY <1>1, <1>2, FirstFilled
<1>3. ASSUME NEW e \in Covering(index, k),
             InsertInPage(k, e.no) \/ InsertAfter(k, e.no) \/ InsertSplit(k, e)
      PROVE  Filled' /\ Grown /\ Grown
  BY <1>1, <1>3, InPageFilled, AfterFilled, SplitFilled
<1> QED
  BY <1>2, <1>3 DEF InsertRec

-----------------------------------------------------------------------------
(* A crash, and the RecoverDW of the next start.                            *)

\* What the files hold after a crash: the index file has the entries it had, and
\* perhaps others of pages that are written, and a torn page is empty.
LEMMA OutcomeKnown ==
    ASSUME IInv, LInv, damaged = {}, NEW o \in CrashOutcomes
    PROVE  /\ idxFile \subseteq o.idxFile /\ o.idxFile \subseteq index
           /\ \A e \in o.idxFile : ~pool[e.no].onlyMem
           /\ CopiesOf(o.dw) \subseteq CopiesOf(dw)
           /\ \A p \in PageNos : o.disk[p] = disk[p] \/ o.disk[p].ts = 0
<1> DEFINE Known(f) == /\ idxFile \subseteq f.idxFile /\ f.idxFile \subseteq index
                       /\ \A e \in f.idxFile : ~pool[e.no].onlyMem
                       /\ CopiesOf(f.dw) \subseteq CopiesOf(dw)
                       /\ \A p \in PageNos : f.disk[p] = disk[p] \/ f.disk[p].ts = 0
<1>1. TypeOK /\ Control
  BY DEF IInv
<1>2. sync.pc = "redo" => Redone
  BY DEF LInv
<1>3. sync.pc # "redo" => Filled
  BY DEF LInv
<1>4. sync.pc = "redo" => \A p \in PageNos : ~pool[p].onlyMem
  BY <1>1, ClearedContents DEF Control
<1>5. \A e \in index : e.no \in PageNos
  BY <1>1, EntryType DEF TypeOK
<1>6. idxFile \subseteq index /\ \A e \in idxFile : ~pool[e.no].onlyMem
  BY <1>2, <1>3, <1>4, <1>5 DEF Redone, Filled, IndexOK, Written
<1>7. CASE o = Now
  BY <1>6, <1>7 DEF Now, FilesOf
<1>8. CASE o = FilesOf(disk, idxFile, <<>>)
  BY <1>6, <1>8, NoCopies DEF FilesOf
<1>9. CASE \E p : o = Torn(p)
  <2>1. PICK p : o = Torn(p)
    BY <1>9
  <2>2. disk \in [PageNos -> Content]
    BY <1>1 DEF TypeOK
  <2>3. \A q \in PageNos : o.disk[q] = disk[q] \/ o.disk[q].ts = 0
    BY <2>1, <2>2 DEF Torn, FilesOf, Blank
  <2> QED
    BY <1>6, <2>1, <2>3 DEF Torn, FilesOf
<1>10. ASSUME NEW es, \A e \in es : e \in index /\ ~pool[e.no].onlyMem, o = Indexed(es)
       PROVE  Known(o)
  BY <1>6, <1>10 DEF Indexed, FilesOf
<1>11. CASE sync.pc = "index" /\ \E n \in 1 .. Len(sync.batch) : o = Indexed(NewEntries(SubSeq(sync.batch, 1, n)))
  <2>1. PICK n \in 1 .. Len(sync.batch) : o = Indexed(NewEntries(SubSeq(sync.batch, 1, n)))
    BY <1>11
  <2>2. ASSUME NEW e \in NewEntries(SubSeq(sync.batch, 1, n))
        PROVE  e \in index /\ ~pool[e.no].onlyMem
    <3>1. sync.batch \in Seq(Copies) /\ Len(sync.batch) \in Nat /\ n \in Nat /\ n <= Len(sync.batch)
      BY <1>1, AtType DEF TypeOK, Syncs
    <3>2. /\ Len(SubSeq(sync.batch, 1, n)) = n
          /\ \A i \in 1 .. n : SubSeq(sync.batch, 1, n)[i] = sync.batch[i]
      BY <3>1, SubSeqProperties
    <3>3. \E i \in 1 .. n : sync.batch[i].new /\ e = Entry(sync.batch[i].ts, sync.batch[i].no)
      BY <3>2 DEF NewEntries
    <3> QED
      BY <1>3, <1>11, <3>1, <3>3, NewEntriesWritten
  <2> QED
    BY <2>1, <2>2, <1>10
<1>12. CASE sync.pc = "redo" /\ \E n \in 1 .. Len(sync.batch) :
                o = Indexed({e \in index : \E i \in 1 .. n : e.no = sync.batch[i].no})
  <2>1. PICK n \in 1 .. Len(sync.batch) :
           o = Indexed({e \in index : \E i \in 1 .. n : e.no = sync.batch[i].no})
    BY <1>12
  <2>2. \A e \in {e \in index : \E i \in 1 .. n : e.no = sync.batch[i].no} : e \in index /\ ~pool[e.no].onlyMem
    BY <1>4, <1>5, <1>12
  <2> QED
    BY <2>1, <2>2, <1>10
<1> QED
  BY <1>7, <1>8, <1>9, <1>11, <1>12 DEF CrashOutcomes

\* What the index and the copies are before a crash is an index.
LEMMA BigIndex ==
    ASSUME LInv, damaged = {}, NEW i, NEW w, idxFile \subseteq i, i \subseteq index,
           CopiesOf(w) \subseteq CopiesOf(dw)
    PROVE  Distinct(i \cup CopyEntries(i, w))
<1>1. Zero(idxFile) => Zero(i)
  BY DEF Zero
<1>2. CASE sync.pc = "redo"
  <2>1. i \cup CopyEntries(i, w) \subseteq index \cup CopyEntries(idxFile, dw)
    BY <1>1 DEF CopyEntries
  <2>2. Distinct(index \cup CopyEntries(idxFile, dw))
    BY <1>2 DEF LInv, Redone
  <2> HIDE DEF CopyEntries
  <2> QED
    BY <2>1, <2>2 DEF Distinct
<1>3. CASE sync.pc # "redo"
  <2>1. ASSUME NEW c \in CopiesOf(w), c.ts # 0 \/ ~Zero(i)
        PROVE  Entry(c.ts, c.no) \in index
    <3>1. KnownCopy(c)
      BY <1>3 DEF LInv, Filled, CopiesKnown
    <3> QED
      BY <3>1, <2>1, <1>1 DEF KnownCopy
  <2>2. i \cup CopyEntries(i, w) \subseteq index
    BY <2>1 DEF CopyEntries
  <2>3. Distinct(index)
    BY <1>3 DEF LInv, Filled, IndexOK
  <2> QED
    BY <2>2, <2>3 DEF Distinct
<1> QED
  BY <1>2, <1>3

LEMMA CrashRedone ==
    ASSUME IInv, LInv, damaged = {}, Crash
    PROVE  Redone'
<1>1. PICK o \in CrashOutcomes :
         /\ disk' = o.disk /\ idxFile' = o.idxFile /\ dw' = o.dw /\ index' = o.idxFile
         /\ sync' = [Idle EXCEPT !.pc = "redo", !.batch = o.dw]
  BY DEF Crash
<1>2. dirtyList' = {}
  BY DEF Crash
<1>3. sync'.batch = dw'
  BY <1>1 DEF Idle
<1>4. /\ idxFile \subseteq o.idxFile /\ o.idxFile \subseteq index
      /\ \A e \in o.idxFile : ~pool[e.no].onlyMem
      /\ CopiesOf(o.dw) \subseteq CopiesOf(dw)
      /\ \A p \in PageNos : o.disk[p] = disk[p] \/ o.disk[p].ts = 0
  BY OutcomeKnown
<1>5. Distinct(o.idxFile \cup CopyEntries(o.idxFile, o.dw))
  BY <1>4, BigIndex
<1>6. \A e \in index : ~pool[e.no].onlyMem => disk[e.no].ts \in {e.ts, 0}
  <2>1. CASE sync.pc = "redo"
    BY <2>1 DEF LInv, Redone
  <2>2. CASE sync.pc # "redo"
    BY <2>2 DEF LInv, Filled, DiskTs
  <2> QED
    BY <2>1, <2>2
<1>7. \A e \in index : e.no \in PageNos
  BY EntryType DEF IInv, TypeOK
<1>8. \A e \in o.idxFile : o.disk[e.no].ts \in {e.ts, 0}
  BY <1>4, <1>6, <1>7
<1> QED
  BY <1>1, <1>2, <1>3, <1>5, <1>8 DEF Redone, CopyEntries, CopiesOf, Distinct, Zero

LEMMA RedoRedone ==
    ASSUME IInv, Redone, Redo
    PROVE  Redone'
<1> DEFINE b == sync.batch[sync.at + 1]
           r == RedoPage([index |-> index, disk |-> disk], b)
           all == index \cup CopyEntries(idxFile, dw)
<1>1. TypeOK
  BY DEF IInv
<1>2. /\ sync.at < Len(sync.batch)
      /\ index' = r.index /\ disk' = r.disk
      /\ sync' = [sync EXCEPT !.at = sync.at + 1]
      /\ UNCHANGED <<dirtyList, idxFile, dw>>
  BY DEF Redo
<1>3. sync'.batch = sync.batch
  BY <1>1, <1>2 DEF TypeOK, Syncs
<1>4. b \in CopiesOf(dw) /\ b \in Copies /\ b.no \in PageNos /\ b.ts \in Keys \cup {0}
  <2>1. sync.at + 1 \in 1 .. Len(sync.batch)
    BY <1>1, <1>2, AtType
  <2>2. b \in Copies /\ b.no \in PageNos
    BY <1>1, <2>1, BatchPage
  <2> QED
    BY <2>1, <2>2 DEF Redone, CopiesOf, Copies
<1> HIDE DEF b
<1> DEFINE new == Entry(b.ts, b.no)
<1>5. /\ index' = index \cup (IF \E e \in index : e.ts = b.ts THEN {} ELSE {new})
      /\ disk' = [disk EXCEPT ![b.no] = [ts |-> b.ts, recs |-> b.recs]]
  BY <1>2 DEF RedoPage
<1>6. new.ts = b.ts /\ new.no = b.no
  BY DEF Entry
<1>7. b.ts # 0 \/ ~Zero(idxFile) => new \in CopyEntries(idxFile, dw)
  BY <1>4 DEF CopyEntries
<1> HIDE DEF new
<1>8. index' \subseteq all /\ index \subseteq index'
  <2>1. CASE b.ts # 0 \/ ~Zero(idxFile)
    BY <2>1, <1>5, <1>7
  <2>2. CASE b.ts = 0 /\ Zero(idxFile)
    <3>1. \E e \in index : e.ts = b.ts
      BY <2>2 DEF Zero, Redone
    <3> QED
      BY <3>1, <1>5
  <2> QED
    BY <2>1, <2>2
<1>9. Distinct(all)
  BY DEF Redone
<1>10. Distinct(index' \cup CopyEntries(idxFile', dw'))
  <2>1. index' \cup CopyEntries(idxFile', dw') \subseteq all
    BY <1>2, <1>8 DEF CopyEntries, CopiesOf, Zero
  <2> HIDE DEF all
  <2> QED
    BY <2>1, <1>9 DEF Distinct
<1>11. ASSUME NEW e \in index'
       PROVE  disk'[e.no].ts \in {e.ts, 0}
  <2>1. disk \in [PageNos -> Content] /\ e.no \in PageNos
    <3>1. e \in index \/ e = new
      BY <1>5
    <3> QED
      BY <3>1, <1>1, <1>4, <1>6, EntryType DEF TypeOK
  <2>2. CASE e.no = b.no
    <3>1. disk'[e.no].ts = b.ts
      BY <2>1, <2>2, <1>4, <1>5
    <3>2. CASE b.ts = 0
      BY <3>1, <3>2
    <3>3. CASE b.ts # 0
      <4>1. e \in all /\ new \in all
        BY <3>3, <1>7, <1>8
      <4>2. e = new
        BY <4>1, <2>2, <1>6, <1>9 DEF Distinct
      <4> QED
        BY <3>1, <4>2, <1>6
    <3> QED
      BY <3>2, <3>3
  <2>3. CASE e.no # b.no
    <3>1. e \in index
      BY <2>3, <1>5, <1>6
    <3>2. disk'[e.no] = disk[e.no]
      BY <2>1, <2>3, <1>4, <1>5
    <3> QED
      BY <3>1, <3>2 DEF Redone
  <2> QED
    BY <2>2, <2>3
<1>12. idxFile' \subseteq index' /\ sync'.batch = dw' /\ dirtyList' = {}
  BY <1>2, <1>3, <1>8 DEF Redone
<1> QED
  BY <1>10, <1>11, <1>12 DEF Redone

\* The part is open again: its records are those a reader finds.
LEMMA EndRedoFilled ==
    ASSUME IInv, Redone, EndRedo, damaged' = {}
    PROVE  Filled'
<1>1. TypeOK /\ Control
  BY DEF IInv
<1>2. /\ TypeOK' /\ sync.pc = "redo" /\ sync' = Idle
      /\ UNCHANGED <<pool, dirtyList, disk>>
  BY <1>1, EndRedoStep
<1>3. /\ idxFile' = index /\ index' = index /\ dw' = <<>>
      /\ latest' = [k \in Keys |-> Find(index, disk, k)]
      /\ TornRestart = {}
  BY DEF EndRedo, memVars
<1>4. /\ sync'.vec = NoVec /\ DOMAIN sync'.vec = {} /\ sync'.at = 0
      /\ CopiesOf(sync'.batch) = {} /\ CopiesOf(dw') = {}
  BY <1>2, <1>3, IdleType, VecTypes, NoCopies
<1>5. index \in SUBSET Entries /\ \A e \in index : e.no \in PageNos
  BY <1>1, EntryType DEF TypeOK
<1>6. Strays(index, disk) = {} /\ (index = {} \/ Zero(index))
  BY <1>3 DEF TornRestart, Zero
<1>7. Distinct(index)
  BY DEF Redone, Distinct
<1>8. \A p \in PageNos : ~pool'[p].onlyMem /\ ~pool'[p].init
  BY <1>1, <1>2, ContentTypes, ClearedContents DEF Control
<1>9. \A p \in PageNos : Page(p)'.ts = disk[p].ts /\ Page(p)'.recs = disk[p].recs
  BY <1>2, <1>8, PageTypeAfter
<1>10. IndexOK'
  BY <1>3, <1>6, <1>7 DEF IndexOK
<1>11. CopiesKnown'
  BY <1>4 DEF CopiesKnown, CopiesOf
<1>12. PageTs'
  BY <1>3, <1>5, <1>6, <1>9 DEF PageTs, Redone
<1>13. MemPages'
  BY <1>8 DEF MemPages
<1>14. ListKnown'
  BY <1>2, <1>4 DEF ListKnown, Redone
<1>15. DiskTs'
  BY <1>2, <1>3 DEF DiskTs, Redone
<1>16. Written'
  BY <1>3, <1>4, <1>5, <1>8, NoCopies DEF Written
<1>17. index = {} => latest' = NoRecs
  <2> HAVE index = {}
  <2>1. \A k \in Keys : Find(index, disk, k) = 0
    BY DEF Find, Covering
  <2> QED
    BY <2>1, <1>3 DEF NoRecs
<1>18. ASSUME NEW e \in index, NEW k \in Keys
       PROVE  /\ e \in Covering(index, k) => disk[e.no].recs[k] = latest'[k]
              /\ disk[e.no].recs[k] # 0 => e \in Covering(index, k)
  <2>1. ASSUME e \in Covering(index, k)
        PROVE  disk[e.no].recs[k] = latest'[k]
    <3> DEFINE f == CHOOSE f \in Covering(index, k) : TRUE
    <3>1. f \in Covering(index, k)
      BY <2>1
    <3>2. f = e
      <4> HIDE DEF f
      <4> QED
        BY <2>1, <3>1, <1>5, <1>6, <1>7, CoverOne
    <3>3. Find(index, disk, k) = disk[f.no].recs[k]
      BY <2>1 DEF Find
    <3> QED
      BY <3>2, <3>3, <1>3
  <2>2. ASSUME disk[e.no].recs[k] # 0, e \notin Covering(index, k)
        PROVE  FALSE
    <3>1. <<e.no, k>> \in Strays(index, disk)
      BY <2>2 DEF Strays, Held
    <3> QED
      BY <3>1, <1>6
  <2> QED
    BY <2>1, <2>2
<1>19. Right'
  BY <1>3, <1>5, <1>9, <1>17, <1>18 DEF Right
<1> QED
  BY <1>10, <1>11, <1>12, <1>13, <1>14, <1>15, <1>16, <1>19 DEF Filled

-----------------------------------------------------------------------------

LEMMA InitFilled == Init => LInv
<1> SUFFICES ASSUME Init PROVE LInv
  OBVIOUS
<1>1. TypeOK
  BY InitInv DEF IInv
<1>2. /\ index = {} /\ idxFile = {} /\ dirtyList = {} /\ sync = Idle /\ dw = <<>> /\ latest = NoRecs
      /\ \A p \in PageNos : pool[p] = Absent
  BY DEF Init
<1>3. /\ sync.pc = "idle" /\ DOMAIN sync.vec = {} /\ sync.at = 0
      /\ CopiesOf(sync.batch) = {} /\ CopiesOf(dw) = {}
  BY <1>2, IdleType, VecTypes, NoCopies
<1>4. IndexOK /\ CopiesKnown /\ PageTs /\ ListKnown /\ DiskTs /\ Right
  BY <1>2, <1>3 DEF IndexOK, Distinct, CopiesKnown, PageTs, ListKnown, DiskTs, Right
<1>5. MemPages /\ Written
  BY <1>2, <1>3, ClearedContents, NoCopies DEF MemPages, Written
<1> QED
  BY <1>3, <1>4, <1>5 DEF LInv, Filled

LEMMA NextFilled == IInv /\ LInv /\ [Next]_vars => LInv'
<1> SUFFICES ASSUME IInv, LInv, [Next]_vars, damaged' = {}
             PROVE  /\ sync'.pc = "redo" => Redone'
                    /\ sync'.pc # "redo" => Filled'
  BY DEF LInv
<1>1. TypeOK /\ Control
  BY DEF IInv
<1>2. CASE UNCHANGED vars
  <2>1. damaged = {}
    BY <1>2 DEF vars, history
  <2>2. UNCHANGED <<index, pool, dirtyList, sync, disk, idxFile, dw, latest>>
    BY <1>2 DEF vars, memVars, diskVars, history
  <2>3. (sync.pc = "redo" => Redone) /\ (sync.pc # "redo" => Filled)
    BY <2>1 DEF LInv
  <2>4. Redone => Redone'
    BY <2>2 DEF Redone, CopyEntries, CopiesOf
  <2>5. Filled => Filled'
    BY <2>2 DEF Filled, IndexOK, CopiesKnown, CopiesOf, KnownCopy, HasEntry, PageTs, Page, MemPages,
                ListKnown, DiskTs, Written, Right
  <2> QED
    BY <2>2, <2>3, <2>4, <2>5
<1>3. CASE Next
  <2>1. damaged = {}
    BY <1>3 DEF Next
  <2>2. (sync.pc = "redo" => Redone) /\ (sync.pc # "redo" => Filled)
    BY <2>1 DEF LInv
\* The steps that are none of a start: the writer is not there, before and after.
  <2>3. ASSUME NEW k \in Keys, InsertRec(k)
        PROVE  sync'.pc # "redo" /\ Filled'
    <3>1. sync.pc # "redo" /\ sync' = sync
      BY <2>3 DEF InsertRec, InsertFirst, InsertInPage, InsertAfter, InsertSplit, Accept
    <3> QED
      BY <2>2, <2>3, <3>1, InsertFilled
  <2>4. ASSUME NEW p \in PageNos, Evict(p)
        PROVE  sync'.pc # "redo" /\ Filled'
    <3>1. sync' = sync /\ pool[p].init
      BY <2>4 DEF Evict
    <3>2. sync.pc # "redo"
      BY <3>1, <1>1, ContentTypes DEF Control
    <3> QED
      BY <2>2, <2>4, <3>1, <3>2, EvictFilled
  <2>5. ASSUME NEW all \in BOOLEAN, Mark(all)
        PROVE  sync'.pc # "redo" /\ Filled'
    <3>1. sync.pc = "idle" /\ sync'.pc = "split"
      BY <2>5, <1>1, MarkStep
    <3> QED
      BY <2>2, <2>5, <3>1, MarkFilled
  <2>6. CASE TakeSplit \/ TakeRest
    <3>1. sync.pc \in {"split", "rest"}
      BY <2>6 DEF TakeSplit, TakeRest
    <3>2. sync.vec = NoVec /\ sync.batch = <<>> /\ sync.at = 0
      BY <1>1, <3>1 DEF Control
    <3>3. sync'.pc \in {"rest", "copy", "idle"}
      BY <2>6, <3>2, <1>1, TakeSplitStep, TakeRestStep
    <3> QED
      BY <2>2, <2>6, <3>1, <3>3, TakeFilled
  <2>7. ASSUME NEW p \in PageNos, CopyPage(p)
        PROVE  sync'.pc # "redo" /\ Filled'
    <3>1. sync.pc = "copy" /\ Len(sync.batch) < BatchSize
      BY <2>7, <1>1 DEF CopyPage, Control
    <3>2. sync'.pc \in {"dw", "copy"}
      BY <2>7, <3>1, <1>1, CopyPageStep
    <3> QED
      BY <2>2, <2>7, <3>1, <3>2, CopyPageFilled
  <2>8. CASE WriteDw
    <3>1. sync.pc = "dw" /\ sync'.pc = "data"
      BY <2>8, <1>1, WriteDwStep
    <3> QED
      BY <2>2, <2>8, <3>1, WriteDwFilled
  <2>9. CASE WriteData
    <3>1. sync.pc = "data" /\ sync.at < Len(sync.batch)
      BY <2>9, <1>1 DEF WriteData, Control
    <3>2. sync'.pc \in {"data", "index"}
      BY <2>9, <3>1, <1>1, WriteDataStep
    <3> QED
      BY <2>2, <2>9, <3>1, <3>2, WriteDataFilled
  <2>10. CASE WriteIdx \/ WriteIdxFails
    <3>1. sync.pc = "index" /\ sync'.pc # "redo"
      BY <2>10, <1>1, WriteIdxStep DEF Emptied
    <3> QED
      BY <2>2, <2>10, <3>1, WriteIdxFilled
  <2>11. CASE WriteFails
    <3>1. sync.pc # "redo" /\ sync'.pc # "redo"
      BY <2>11, <1>1, WriteFailsStep DEF Emptied, Control
    <3> QED
      BY <2>2, <2>11, <3>1, WriteFailsFilled
  <2>12. CASE Crash
    BY <2>1, <2>12, <1>1, CrashStep, CrashRedone
  <2>13. CASE Redo
    BY <2>2, <2>13, <1>1, RedoStep, RedoRedone
  <2>14. CASE EndRedo
    BY <2>2, <2>14, <1>1, EndRedoStep, EndRedoFilled, IdleType
  <2> QED
    BY <1>3, <2>3, <2>4, <2>5, <2>6, <2>7, <2>8, <2>9, <2>10, <2>11, <2>12, <2>13, <2>14 DEF Next
<1> QED
  BY <1>2, <1>3

LEMMA FilledLookup ==
    ASSUME IInv, LInv
    PROVE  LookupLatest
<1> SUFFICES ASSUME sync.pc # "redo", damaged = {}
             PROVE  /\ \A k \in Keys : Find(index, InMemory, k) = latest[k]
                    /\ Strays(index, InMemory) = {}
  BY DEF LookupLatest, Sound
<1>1. Filled
  BY DEF LInv
<1>2. index \in SUBSET Entries /\ \A e \in index : e.no \in PageNos
  BY EntryType DEF IInv, TypeOK
<1>3. \A e \in index : InMemory[e.no] = Page(e.no)
  BY <1>2 DEF InMemory
<1>4. ASSUME NEW k \in Keys
      PROVE  Find(index, InMemory, k) = latest[k]
  <2>1. CASE index = {}
    BY <2>1, <1>1 DEF Filled, Right, NoRecs, Find, Covering
  <2>2. CASE index # {}
    <3> DEFINE e == CHOOSE e \in Covering(index, k) : TRUE
    <3>1. Covering(index, k) # {}
      BY <2>2, <1>1, <1>2, CoverSome DEF Filled, IndexOK
    <3>2. e \in Covering(index, k)
      BY <3>1
    <3>3. Find(index, InMemory, k) = InMemory[e.no].recs[k]
      BY <3>1 DEF Find
    <3> HIDE DEF e
    <3>4. e \in index
      BY <3>2 DEF Covering
    <3> QED
      BY <3>2, <3>3, <3>4, <1>1, <1>3 DEF Filled, Right
  <2> QED
    BY <2>1, <2>2
<1>5. Strays(index, InMemory) = {}
  <2>1. ASSUME NEW e \in index
        PROVE  {j \in Held(InMemory[e.no]) : e \notin Covering(index, j)} = {}
    BY <1>1, <1>3 DEF Filled, Right, Held
  <2> QED
    BY <2>1 DEF Strays
<1> QED
  BY <1>4, <1>5

\* A lookup finds the last value that was accepted, and no page holds a timestamp
\* that the index looks for in another one, whatever splits, evictions, page writes,
\* failures of a write and restarts came between, as long as no page number is taken
\* twice, no record is put before the page it belongs to, and no restart found a torn
\* split (GetIndex, GetPage, SplitMost, AddIdx, RecoverDW).
THEOREM LookupsLatest == Spec => []LookupLatest
<1>1. Init => IInv /\ LInv
  BY InitInv, InitFilled
<1>2. IInv /\ LInv /\ [Next]_vars => IInv' /\ LInv'
  BY NextInv, NextFilled
<1>3. IInv /\ LInv => LookupLatest
  BY FilledLookup
<1> QED
  BY <1>1, <1>2, <1>3, PTL DEF Spec

-----------------------------------------------------------------------------
(* What Open and RecoverDW make of the files.                               *)

Kept(c) == [ts |-> c.ts, recs |-> c.recs]

\* The data file with the first copies written over it, and the index with their
\* entries.
Overlay(d, w, n) ==
    [p \in PageNos |-> IF \E i \in 1 .. n : w[i].no = p
                       THEN Kept(w[CHOOSE i \in 1 .. n : w[i].no = p]) ELSE d[p]]
WithEntries(idx, w, n) ==
    idx \cup {Entry(w[i].ts, w[i].no) : i \in {j \in 1 .. n : w[j].ts # 0 \/ ~Zero(idx)}}

Once(w) == \A i, j \in 1 .. Len(w) : w[i].no = w[j].no => i = j

\* A function that obeys the equation of redo is redo.
LEMMA ReopenedBy ==
    ASSUME NEW o, Len(o.dw) \in Nat, NEW f,
           f = [n \in 0 .. Len(o.dw) |->
                  IF n = 0 THEN [index |-> o.idxFile, disk |-> o.disk]
                           ELSE RedoPage(f[n - 1], o.dw[n])]
    PROVE  Reopened(o) = f[Len(o.dw)]
<1> DEFINE L == Len(o.dw)
           Obeys(g) == g = [n \in 0 .. L |->
                              IF n = 0 THEN [index |-> o.idxFile, disk |-> o.disk]
                                       ELSE RedoPage(g[n - 1], o.dw[n])]
           g == CHOOSE g : Obeys(g)
<1>1. Obeys(g)
  OBVIOUS
<1>2. Reopened(o) = g[L]
  BY DEF Reopened
<1> HIDE DEF g
<1>3. \A n \in 0 .. L : /\ g[n] = IF n = 0 THEN [index |-> o.idxFile, disk |-> o.disk]
                                           ELSE RedoPage(g[n - 1], o.dw[n])
                        /\ f[n] = IF n = 0 THEN [index |-> o.idxFile, disk |-> o.disk]
                                           ELSE RedoPage(f[n - 1], o.dw[n])
  BY <1>1
<1> DEFINE S == {n \in 0 .. L : g[n] # f[n]}
<1>4. S = {}
  <2> SUFFICES ASSUME S # {} PROVE FALSE
    OBVIOUS
  <2>1. S \subseteq Nat
    OBVIOUS
  <2>2. PICK m \in S : \A x \in S : ~ (<<x, m>> \in OpToRel(<, Nat))
    BY <2>1, WFMin, NatLessThanWellFounded, Zenon
  <2>3. m \in 0 .. L /\ g[m] # f[m]
    OBVIOUS
  <2>4. m # 0
    BY <1>3, <2>3
  <2>5. m - 1 \in 0 .. L /\ m - 1 < m /\ m - 1 \in Nat
    BY <2>3, <2>4
  <2>6. m - 1 \notin S
    <3>1. \A x \in S : ~ (x < m)
      BY <2>1, <2>2 DEF OpToRel
    <3> HIDE DEF S
    <3> QED
      BY <2>5, <3>1
  <2>7. g[m - 1] = f[m - 1]
    BY <2>5, <2>6
  <2> QED
    BY <1>3, <2>3, <2>4, <2>7
<1>5. L \in 0 .. L
  OBVIOUS
<1> QED
  BY <1>2, <1>4, <1>5

\* The copies are of different pages, and their entries with those of the index
\* file are an index: what Reopened gives.
LEMMA ReopenedIs ==
    ASSUME NEW o, o.disk \in [PageNos -> Content], o.idxFile \subseteq Entries, o.dw \in Seq(Copies),
           Once(o.dw), Distinct(o.idxFile \cup CopyEntries(o.idxFile, o.dw))
    PROVE  Reopened(o) = [index |-> WithEntries(o.idxFile, o.dw, Len(o.dw)),
                          disk |-> Overlay(o.disk, o.dw, Len(o.dw))]
<1> DEFINE w == o.dw
           L == Len(w)
           i == o.idxFile
           d == o.disk
           F(n) == [index |-> WithEntries(i, w, n), disk |-> Overlay(d, w, n)]
           f == [n \in 0 .. L |-> F(n)]
<1>1. L \in Nat /\ \A n \in 1 .. L : w[n] \in Copies /\ w[n].no \in PageNos
  <2>1. \A n \in 1 .. L : w[n] \in Copies
    OBVIOUS
  <2> QED
    BY <2>1 DEF Copies
<1>2. F(0) = [index |-> i, disk |-> d]
  <2>1. \A n : n \notin 1 .. 0
    OBVIOUS
  <2>2. WithEntries(i, w, 0) = i
    BY <2>1 DEF WithEntries
  <2>3. Overlay(d, w, 0) = d
    BY <2>1 DEF Overlay
  <2> QED
    BY <2>2, <2>3
<1>3. ASSUME NEW n \in 1 .. L
      PROVE  F(n) = RedoPage(F(n - 1), w[n])
  <2> DEFINE b == w[n]
             m == n - 1
             new == Entry(b.ts, b.no)
             all == i \cup CopyEntries(i, w)
  <2>1. m \in Nat /\ n \in Nat /\ n = m + 1 /\ \A j : j \in 1 .. n <=> j \in 1 .. m \/ j = n
    OBVIOUS
  <2>2. Overlay(d, w, n) = [Overlay(d, w, m) EXCEPT ![b.no] = Kept(b)]
    <3>1. ASSUME NEW p \in PageNos
          PROVE  Overlay(d, w, n)[p] = [Overlay(d, w, m) EXCEPT ![b.no] = Kept(b)][p]
      <4>1. CASE p = b.no
        <5>1. \A j \in 1 .. n : w[j].no = p => j = n
          BY <4>1, <1>1 DEF Once
        <5>2. (CHOOSE j \in 1 .. n : w[j].no = p) = n
          BY <4>1, <2>1, <5>1
        <5>3. Overlay(d, w, n)[p] = Kept(b)
          BY <4>1, <2>1, <5>2 DEF Overlay
        <5> QED
          BY <4>1, <5>3 DEF Overlay
      <4>2. CASE p # b.no
        <5>1. \A j \in 1 .. n : w[j].no = p <=> (j \in 1 .. m /\ w[j].no = p)
          BY <4>2, <2>1
        <5>2. (CHOOSE j \in 1 .. n : w[j].no = p) = (CHOOSE j \in 1 .. m : w[j].no = p)
          BY <2>1, <5>1
        <5>3. (\E j \in 1 .. n : w[j].no = p) <=> (\E j \in 1 .. m : w[j].no = p)
          BY <2>1, <5>1
        <5> QED
          BY <4>2, <5>2, <5>3 DEF Overlay
      <4> QED
        BY <4>1, <4>2
    <3> QED
      BY <3>1 DEF Overlay
  <2>3. b \in CopiesOf(w) /\ new.ts = b.ts
    BY DEF CopiesOf, Entry
  <2>4. WithEntries(i, w, m) \subseteq all
    <3>1. \A j \in 1 .. m : w[j] \in CopiesOf(w)
      BY <1>1, <2>1 DEF CopiesOf
    <3> QED
      BY <3>1 DEF WithEntries, CopyEntries
  <2>5. WithEntries(i, w, n) =
           WithEntries(i, w, m) \cup (IF \E e \in WithEntries(i, w, m) : e.ts = b.ts THEN {} ELSE {new})
    <3>1. CASE b.ts # 0 \/ ~Zero(i)
      <4>1. WithEntries(i, w, n) = WithEntries(i, w, m) \cup {new}
        BY <3>1, <2>1 DEF WithEntries
      <4>2. new \in all
        BY <3>1, <2>3 DEF CopyEntries
      <4>3. \A e \in WithEntries(i, w, m) : e.ts = b.ts => e = new
        <5> HIDE DEF all, new
        <5> QED
          BY <2>3, <2>4, <4>2 DEF Distinct, all
      <4> QED
        BY <4>1, <4>3
    <3>2. CASE b.ts = 0 /\ Zero(i)
      <4>1. WithEntries(i, w, n) = WithEntries(i, w, m)
        BY <3>2, <2>1 DEF WithEntries
      <4>2. \E e \in WithEntries(i, w, m) : e.ts = b.ts
        BY <3>2 DEF WithEntries, Zero
      <4> QED
        BY <4>1, <4>2
    <3> QED
      BY <3>1, <3>2
  <2> QED
    BY <2>2, <2>5 DEF RedoPage, Kept
<1> HIDE DEF F
<1>4. f = [n \in 0 .. L |-> IF n = 0 THEN [index |-> i, disk |-> d] ELSE RedoPage(f[n - 1], w[n])]
  <2>1. ASSUME NEW n \in 0 .. L
        PROVE  f[n] = IF n = 0 THEN [index |-> i, disk |-> d] ELSE RedoPage(f[n - 1], w[n])
    <3>1. CASE n = 0
      BY <3>1, <1>2
    <3>2. CASE n # 0
      <4>1. n \in 1 .. L /\ n - 1 \in 0 .. L
        BY <3>2, <1>1
      <4> QED
        BY <3>2, <4>1, <1>3
    <3> QED
      BY <3>1, <3>2
  <2> QED
    BY <2>1
<1> HIDE DEF f
<1>5. Reopened(o) = f[L]
  BY <1>1, <1>4, ReopenedBy
<1> QED
  BY <1>1, <1>5 DEF f, F

\* Every copy has its entry: what the index holds after RecoverDW.
AllEntries(w) == {Entry(c.ts, c.no) : c \in CopiesOf(w)}

LEMMA AllEntriesOf ==
    /\ AllEntries(<<>>) = {}
    /\ \A w : \A i \in 1 .. Len(w) : w[i] \in CopiesOf(w) /\ Entry(w[i].ts, w[i].no) \in AllEntries(w)
    /\ \A w : \A c \in CopiesOf(w) :
          Entry(c.ts, c.no) \in AllEntries(w) /\ Entry(c.ts, c.no).ts = c.ts /\ Entry(c.ts, c.no).no = c.no
    /\ \A w : \A e \in AllEntries(w) : \E c \in CopiesOf(w) : e.ts = c.ts /\ e.no = c.no /\ e = Entry(c.ts, c.no)
<1>1. AllEntries(<<>>) = {}
  BY NoCopies DEF AllEntries
<1>2. \A w : \A i \in 1 .. Len(w) : w[i] \in CopiesOf(w) /\ Entry(w[i].ts, w[i].no) \in AllEntries(w)
  BY DEF AllEntries, CopiesOf
<1>3. \A w : \A c \in CopiesOf(w) :
          Entry(c.ts, c.no) \in AllEntries(w) /\ Entry(c.ts, c.no).ts = c.ts /\ Entry(c.ts, c.no).no = c.no
  BY DEF AllEntries, Entry
<1>4. \A w : \A e \in AllEntries(w) : \E c \in CopiesOf(w) : e.ts = c.ts /\ e.no = c.no /\ e = Entry(c.ts, c.no)
  BY DEF AllEntries, Entry
<1> QED
  BY <1>1, <1>2, <1>3, <1>4

\* If the entries of the index file and of the copies belong to one index, Reopened
\* has them all.
LEMMA ReopenedUnion ==
    ASSUME NEW o, o.disk \in [PageNos -> Content], o.idxFile \subseteq Entries, o.dw \in Seq(Copies),
           Once(o.dw), Distinct(o.idxFile \cup AllEntries(o.dw))
    PROVE  Reopened(o) = [index |-> o.idxFile \cup AllEntries(o.dw),
                          disk |-> Overlay(o.disk, o.dw, Len(o.dw))]
<1> DEFINE i == o.idxFile
           w == o.dw
<1>1. CopyEntries(i, w) \subseteq AllEntries(w)
  BY DEF CopyEntries, AllEntries
<1>2. Distinct(i \cup CopyEntries(i, w))
  BY <1>1 DEF Distinct
<1>3. Reopened(o) = [index |-> WithEntries(i, w, Len(w)), disk |-> Overlay(o.disk, w, Len(w))]
  BY <1>2, ReopenedIs
<1>4. WithEntries(i, w, Len(w)) \subseteq i \cup AllEntries(w)
  BY DEF WithEntries, AllEntries, CopiesOf
<1>5. ASSUME NEW e \in AllEntries(w)
      PROVE  e \in WithEntries(i, w, Len(w))
  <2>1. PICK j \in 1 .. Len(w) : e = Entry(w[j].ts, w[j].no)
    BY DEF AllEntries, CopiesOf
  <2>2. CASE w[j].ts # 0 \/ ~Zero(i)
    BY <2>1, <2>2 DEF WithEntries
  <2>3. CASE w[j].ts = 0 /\ Zero(i)
    <3>1. PICK f \in i : f.ts = 0
      BY <2>3 DEF Zero
    <3>2. e.ts = 0
      BY <2>1, <2>3 DEF Entry
    <3>3. e = f
      BY <3>1, <3>2 DEF Distinct
    <3> QED
      BY <3>1, <3>3 DEF WithEntries
  <2> QED
    BY <2>2, <2>3
<1>6. i \subseteq WithEntries(i, w, Len(w))
  BY DEF WithEntries
<1>7. WithEntries(i, w, Len(w)) = i \cup AllEntries(w)
  BY <1>4, <1>5, <1>6
<1> QED
  BY <1>3, <1>7

\* The data file as RecoverDW leaves it.
LEMMA OverlayIs ==
    ASSUME NEW d, NEW w \in Seq(Copies), Once(w)
    PROVE  /\ \A c \in CopiesOf(w) : Overlay(d, w, Len(w))[c.no] = Kept(c)
           /\ \A p \in PageNos : (\A c \in CopiesOf(w) : c.no # p) => Overlay(d, w, Len(w))[p] = d[p]
           /\ DOMAIN Overlay(d, w, Len(w)) = PageNos
           /\ Overlay(d, w, Len(w)) = [p \in PageNos |-> Overlay(d, w, Len(w))[p]]
<1>1. \A i \in 1 .. Len(w) : w[i] \in Copies /\ w[i].no \in PageNos
  <2>1. \A i \in 1 .. Len(w) : w[i] \in Copies
    OBVIOUS
  <2> QED
    BY <2>1 DEF Copies
<1>2. ASSUME NEW c \in CopiesOf(w)
      PROVE  Overlay(d, w, Len(w))[c.no] = Kept(c)
  <2>1. PICK i \in 1 .. Len(w) : c = w[i]
    BY DEF CopiesOf
  <2>2. \A j \in 1 .. Len(w) : w[j].no = c.no => j = i
    BY <2>1 DEF Once
  <2>3. (CHOOSE j \in 1 .. Len(w) : w[j].no = c.no) = i
    BY <2>1, <2>2
  <2> QED
    BY <2>1, <2>3, <1>1 DEF Overlay
<1>3. ASSUME NEW p \in PageNos, \A c \in CopiesOf(w) : c.no # p
      PROVE  Overlay(d, w, Len(w))[p] = d[p]
  <2>1. \A i \in 1 .. Len(w) : w[i].no # p
    BY <1>3 DEF CopiesOf
  <2> QED
    BY <2>1 DEF Overlay
<1>4. DOMAIN Overlay(d, w, Len(w)) = PageNos
  BY DEF Overlay
<1>5. Overlay(d, w, Len(w)) = [p \in PageNos |-> Overlay(d, w, Len(w))[p]]
  BY DEF Overlay
<1> QED
  BY <1>2, <1>3, <1>4, <1>5

-----------------------------------------------------------------------------
(* The order of the writes, while none of them fails.                       *)

PageExact == \A e \in index : Page(e.no).ts = e.ts
CopiesListed == AllEntries(dw) \cup AllEntries(sync.batch) \subseteq index
DiskExact == \A e \in index : ~pool[e.no].onlyMem => disk[e.no].ts = e.ts
MemHeld == \A p \in PageNos : pool[p].onlyMem => pool[p].recs # NoRecs

\* A page that was written has its entry in the index file, or is one of the batch
\* that gets it next.
EntryWritten ==
    \A e \in index : pool[e.no].onlyMem \/ e \in idxFile
                     \/ \E i \in 1 .. sync.at : /\ sync.batch[i].new
                                                /\ e = Entry(sync.batch[i].ts, sync.batch[i].no)

\* A copy is of a page that the index file has, or of one that was not written yet.
BatchMarked ==
    \A i \in 1 .. Len(sync.batch) :
        LET c == sync.batch[i]
        IN  /\ ~c.new => Entry(c.ts, c.no) \in idxFile
            /\ c.new => c.recs # NoRecs
            /\ c.new /\ sync.at < i => pool[c.no].onlyMem

Exact == PageExact /\ CopiesListed /\ DiskExact /\ MemHeld /\ EntryWritten /\ BatchMarked

\* The double-write file: it is the batch while the pages are written, and before and
\* after it has nothing that the other files do not have.
Writing == sync.pc \in {"data", "index", "redo"}
Idled(c) == disk[c.no] = Kept(c) /\ Entry(c.ts, c.no) \in idxFile
Stored ==
    /\ Once(dw)
    /\ Writing => dw = sync.batch
    /\ ~Writing => \A c \in CopiesOf(dw) : Idled(c)
    /\ \A i \in 1 .. sync.at : disk[sync.batch[i].no] = Kept(sync.batch[i])
    /\ \A p \in PageNos : \/ disk[p] = Blank
                          \/ \E e \in idxFile : e.no = p
                          \/ \E c \in CopiesOf(dw) : c.no = p

\* RecoverDW ends with the entries of the index file and of all copies.
RedoneExact ==
    /\ Distinct(index \cup AllEntries(dw)) /\ index \subseteq idxFile \cup AllEntries(dw)
    /\ \A i \in 1 .. sync.at : Entry(sync.batch[i].ts, sync.batch[i].no) \in index
    /\ \A e \in index : (\A c \in CopiesOf(dw) : c.no # e.no) => disk[e.no].ts = e.ts

FInv == damaged = {} => /\ Stored
                        /\ sync.pc = "redo" => RedoneExact
                        /\ sync.pc # "redo" => Exact

\* What a copy that the writer takes is.
TakenCopy(c) ==
    /\ Entry(c.ts, c.no) \in index
    /\ ~c.new => Entry(c.ts, c.no) \in idxFile
    /\ c.new => c.recs # NoRecs /\ pool[c.no].onlyMem

\* A step that writes no file.
LEMMA QuietExact ==
    ASSUME Exact, Stored, TypeOK, TypeOK', PagesKeep, UNCHANGED <<index, disk, idxFile, dw>>,
           \/ sync'.batch = sync.batch /\ sync'.at = sync.at /\ (Writing' <=> Writing)
           \/ /\ sync.at = 0 /\ sync'.at = 0 /\ ~Writing /\ ~Writing'
              /\ \A c \in CopiesOf(sync'.batch) : c \in CopiesOf(sync.batch) \/ TakenCopy(c)
    PROVE  Exact' /\ Stored'
<1>1. \A e \in index : e.no \in PageNos
  BY EntryType DEF TypeOK
<1>2. \A i : i \notin 1 .. 0
  BY NoCopies
<1>3. PageExact' /\ DiskExact' /\ MemHeld'
  BY <1>1 DEF Exact, PageExact, DiskExact, MemHeld, PagesKeep
<1>4. CASE sync'.batch = sync.batch /\ sync'.at = sync.at /\ (Writing' <=> Writing)
  <2>1. CopiesListed'
    BY <1>4 DEF Exact, CopiesListed, AllEntries, CopiesOf
  <2>2. EntryWritten'
    BY <1>1, <1>4 DEF Exact, EntryWritten, PagesKeep
  <2>3. BatchMarked'
    <3>1. \A i \in 1 .. Len(sync.batch) : sync.batch[i].no \in PageNos
      BY BatchPage
    <3> QED
      BY <3>1, <1>4 DEF Exact, BatchMarked, PagesKeep
  <2>4. Stored'
    BY <1>4 DEF Stored, Idled, CopiesOf
  <2> QED
    BY <1>3, <2>1, <2>2, <2>3, <2>4 DEF Exact
<1>5. CASE /\ sync.at = 0 /\ sync'.at = 0 /\ ~Writing /\ ~Writing'
           /\ \A c \in CopiesOf(sync'.batch) : c \in CopiesOf(sync.batch) \/ TakenCopy(c)
  <2>1. \A c \in CopiesOf(sync.batch) : Entry(c.ts, c.no) \in index
    BY AllEntriesOf DEF Exact, CopiesListed
  <2>2. ASSUME NEW c \in CopiesOf(sync.batch)
        PROVE  TakenCopy(c)
    <3>1. PICK i \in 1 .. Len(sync.batch) : c = sync.batch[i]
      BY DEF CopiesOf
    <3>2. sync.at < i
      BY <1>5
    <3> QED
      BY <2>1, <3>1, <3>2 DEF Exact, BatchMarked, TakenCopy
  <2>3. \A c \in CopiesOf(sync'.batch) : TakenCopy(c)
    BY <1>5, <2>2
  <2>4. CopiesListed'
    <3>1. AllEntries(sync'.batch) \subseteq index
      BY <2>3, AllEntriesOf DEF TakenCopy
    <3>2. AllEntries(dw) \subseteq index
      BY DEF Exact, CopiesListed
    <3> QED
      BY <3>1, <3>2 DEF CopiesListed, AllEntries, CopiesOf
  <2>5. EntryWritten'
    BY <1>1, <1>2, <1>5 DEF Exact, EntryWritten, PagesKeep
  <2>6. BatchMarked'
    <3>1. \A i \in 1 .. Len(sync'.batch) : TakenCopy(sync'.batch[i])
      BY <2>3 DEF CopiesOf
    <3>2. \A c : pool[c.no].onlyMem /\ Entry(c.ts, c.no) \in index => pool'[c.no].onlyMem
      <4> SUFFICES ASSUME NEW c, pool[c.no].onlyMem, Entry(c.ts, c.no) \in index
                   PROVE  pool'[c.no].onlyMem
        OBVIOUS
      <4>1. c.no \in PageNos
        BY <1>1 DEF Entry
      <4> QED
        BY <4>1 DEF PagesKeep
    <3> QED
      BY <3>1, <3>2 DEF BatchMarked, TakenCopy
  <2>7. Stored'
    BY <1>2, <1>5 DEF Stored, Idled, CopiesOf
  <2> QED
    BY <1>3, <2>4, <2>5, <2>6, <2>7 DEF Exact
<1> QED
  BY <1>4, <1>5

LEMMA MarkExact ==
    ASSUME IInv, Filled, Exact, Stored, NEW all \in BOOLEAN, Mark(all)
    PROVE  Exact' /\ Stored'
<1>1. TypeOK /\ Control
  BY DEF IInv
<1>2. /\ TypeOK' /\ sync'.batch = <<>> /\ sync'.at = 0 /\ sync.pc = "idle" /\ sync'.pc = "split"
      /\ UNCHANGED <<index, disk>>
  BY <1>1, MarkStep
<1>3. UNCHANGED <<idxFile, dw>>
  BY DEF Mark, diskVars
<1>4. PagesKeep
  BY MarkFilled
<1>5. sync.at = 0 /\ ~Writing /\ ~Writing' /\ CopiesOf(sync'.batch) = {}
  BY <1>1, <1>2, NoCopies DEF Control, Writing
<1> QED
  BY <1>1, <1>2, <1>3, <1>4, <1>5, QuietExact

LEMMA TakeExact ==
    ASSUME IInv, Filled, Exact, Stored, TakeSplit \/ TakeRest
    PROVE  Exact' /\ Stored'
<1>1. TypeOK /\ Control
  BY DEF IInv
<1>2. sync.pc \in {"split", "rest"}
  BY DEF TakeSplit, TakeRest
<1>3. sync.vec = NoVec /\ sync.batch = <<>> /\ sync.at = 0
  BY <1>1, <1>2 DEF Control
<1>4. /\ TypeOK' /\ sync'.batch = <<>> /\ sync'.at = 0 /\ sync'.pc \in {"rest", "copy", "idle"}
      /\ UNCHANGED <<index, pool, disk>>
  BY <1>1, <1>3, TakeSplitStep, TakeRestStep
<1>5. UNCHANGED <<idxFile, dw>>
  BY DEF TakeSplit, TakeRest, diskVars
<1>6. ~Writing /\ ~Writing' /\ CopiesOf(sync'.batch) = {}
  BY <1>2, <1>4, NoCopies DEF Writing
<1>7. PagesKeep
  BY <1>4 DEF PagesKeep, Page
<1> QED
  BY <1>1, <1>3, <1>4, <1>5, <1>6, <1>7, QuietExact

LEMMA CopyPageExact ==
    ASSUME IInv, Filled, Exact, Stored, NEW p \in PageNos, CopyPage(p)
    PROVE  Exact' /\ Stored'
<1>1. TypeOK /\ Control
  BY DEF IInv
<1>2. sync.pc = "copy" /\ sync.at = 0 /\ Len(sync.batch) < BatchSize
  BY <1>1 DEF CopyPage, Control
<1>3. TypeOK' /\ sync'.at = 0 /\ sync'.pc \in {"dw", "copy"} /\ UNCHANGED <<index, disk>>
  BY <1>1, <1>2, CopyPageStep
<1>4. UNCHANGED <<idxFile, dw>>
  BY DEF CopyPage, diskVars
<1>5. PagesKeep /\ pool[p].init /\ HasEntry(p)
  BY CopyPageFilled
<1>6. PICK c \in Copies : /\ c.no = p /\ c.ts = pool[p].ts /\ c.recs = pool[p].recs
                          /\ c.new <=> pool[p].onlyMem
                          /\ CopiesOf(sync'.batch) \subseteq CopiesOf(sync.batch) \cup {c}
  BY CopyPageFilled
<1>7. PICK e \in index : e.no = p
  BY <1>5 DEF HasEntry
<1>8. e.ts = pool[p].ts
  <2>1. Page(p) = pool[p]
    BY <1>1, <1>5, PageType
  <2> QED
    BY <2>1, <1>7 DEF Exact, PageExact
<1>9. Entry(c.ts, c.no) = e
  BY <1>1, <1>6, <1>7, <1>8, EntryType DEF TypeOK
<1>10. ~pool[p].onlyMem => e \in idxFile
  BY <1>2, <1>7, NoCopies DEF Exact, EntryWritten
<1>11. TakenCopy(c)
  <2>1. ~c.new => Entry(c.ts, c.no) \in idxFile
    BY <1>6, <1>9, <1>10, Zenon
  <2>2. c.new => c.recs # NoRecs /\ pool[c.no].onlyMem
    BY <1>6, Zenon DEF Exact, MemHeld
  <2> QED
    BY <2>1, <2>2, <1>9 DEF TakenCopy
<1>12. ~Writing /\ ~Writing'
  BY <1>2, <1>3 DEF Writing
<1> QED
  BY <1>1, <1>2, <1>3, <1>4, <1>5, <1>6, <1>11, <1>12, QuietExact

LEMMA EvictExact ==
    ASSUME IInv, Filled, Exact, Stored, NEW p \in PageNos, Evict(p)
    PROVE  Exact' /\ Stored'
<1>1. TypeOK
  BY DEF IInv
<1>2. TypeOK' /\ UNCHANGED <<index, sync, disk>>
  BY <1>1, EvictStep
<1>3. UNCHANGED <<idxFile, dw>>
  BY DEF Evict, diskVars
<1>4. PagesKeep
  BY EvictFilled
<1>5. Writing' <=> Writing
  BY <1>2 DEF Writing
<1> QED
  BY <1>1, <1>2, <1>3, <1>4, <1>5, QuietExact

\* An insert.
LEMMA InsertExact ==
    ASSUME TypeOK, Exact, Stored, Grown
    PROVE  Exact' /\ Stored'
<1>1. \A e \in index : e.no \in PageNos
  BY EntryType DEF TypeOK
<1>2. UNCHANGED <<sync, disk, idxFile, dw>> /\ index \subseteq index'
  BY DEF Grown
<1>3. PageExact' /\ DiskExact' /\ MemHeld'
  BY <1>2 DEF Exact, PageExact, DiskExact, MemHeld, Grown
<1>4. CopiesListed'
  BY <1>2 DEF Exact, CopiesListed, AllEntries, CopiesOf
<1>5. EntryWritten'
  BY <1>2 DEF Exact, EntryWritten, Grown
<1>6. BatchMarked'
  <2>1. ASSUME NEW i \in 1 .. Len(sync.batch)
        PROVE  pool'[sync.batch[i].no].onlyMem <=> pool[sync.batch[i].no].onlyMem
    <3>1. Entry(sync.batch[i].ts, sync.batch[i].no) \in index
      BY AllEntriesOf DEF Exact, CopiesListed
    <3>2. Entry(sync.batch[i].ts, sync.batch[i].no).no = sync.batch[i].no
      BY DEF Entry
    <3> QED
      BY <3>1, <3>2 DEF Grown
  <2> QED
    BY <1>2, <2>1 DEF Exact, BatchMarked
<1>7. Stored'
  BY <1>2 DEF Stored, Idled, CopiesOf, Writing
<1> QED
  BY <1>3, <1>4, <1>5, <1>6, <1>7 DEF Exact

LEMMA WriteDwExact ==
    ASSUME IInv, Filled, Exact, Stored, WriteDw
    PROVE  Exact' /\ Stored'
<1>1. TypeOK /\ Control /\ Owned
  BY DEF IInv
<1>2. /\ TypeOK' /\ sync.pc = "dw" /\ sync'.pc = "data" /\ sync'.batch = sync.batch /\ sync'.at = sync.at
      /\ UNCHANGED <<index, pool, disk>>
  BY <1>1, WriteDwStep
<1>3. dw' = sync.batch /\ idxFile' = idxFile
  BY DEF WriteDw
<1>4. sync.at = 0 /\ ~Writing /\ Writing'
  BY <1>1, <1>2 DEF Control, Writing
<1>5. PageExact' /\ DiskExact' /\ MemHeld' /\ EntryWritten' /\ BatchMarked'
  BY <1>2, <1>3 DEF Exact, PageExact, DiskExact, MemHeld, EntryWritten, BatchMarked, Page
<1>6. CopiesListed'
  BY <1>2, <1>3 DEF Exact, CopiesListed, AllEntries, CopiesOf
<1>7. Once(sync.batch)
  <2>1. Left = 1 .. Len(sync.batch)
    BY <1>1, <1>4, AtType DEF Left
  <2>2. sync.pc # "redo"
    BY <1>2
  <2> QED
    BY <1>1, <2>1, <2>2 DEF Owned, Once
<1>8. \A p \in PageNos : disk[p] = Blank \/ \E e \in idxFile : e.no = p
  <2>1. \A c \in CopiesOf(dw) : Entry(c.ts, c.no) \in idxFile
    BY <1>4 DEF Stored, Idled
  <2>2. \A c \in CopiesOf(dw) : \E e \in idxFile : e.no = c.no
    BY <2>1 DEF Entry
  <2> QED
    BY <2>2 DEF Stored
<1>9. Stored'
  <2>1. Once(dw') /\ dw' = sync'.batch
    BY <1>2, <1>3, <1>7 DEF Once
  <2>2. \A i \in 1 .. sync'.at : disk'[sync'.batch[i].no] = Kept(sync'.batch[i])
    BY <1>2, <1>4, NoCopies
  <2> QED
    BY <1>2, <1>3, <1>4, <1>8, <2>1, <2>2 DEF Stored
<1> QED
  BY <1>5, <1>6, <1>9 DEF Exact

LEMMA WriteDataExact ==
    ASSUME IInv, Filled, Exact, Stored, WriteData
    PROVE  Exact' /\ Stored'
<1> DEFINE b == sync.batch[sync.at + 1]
<1>1. TypeOK
  BY DEF IInv
<1>2. sync.pc = "data" /\ UNCHANGED <<index, idxFile, dw>>
  BY DEF WriteData, SyncStep
<1>3. PICK a \in Nat, l \in Nat : a = sync.at /\ l = Len(sync.batch) /\ a < l
  BY <1>2, NextPage, AtType DEF IInv, TypeOK
<1>4. /\ sync'.batch = sync.batch /\ sync'.at = a + 1 /\ sync'.pc \in {"data", "index"}
  BY <1>1, <1>3, WriteDataStep
<1>5. /\ b \in CopiesOf(sync.batch) /\ b.no \in PageNos
      /\ disk'[b.no] = [ts |-> b.ts, recs |-> b.recs]
      /\ ~pool'[b.no].onlyMem
      /\ \A q \in PageNos : q # b.no => pool'[q] = pool[q] /\ disk'[q] = disk[q]
      /\ \A q \in PageNos : Page(q).ts = Page(q)'.ts /\ Page(q).recs = Page(q)'.recs
  BY WriteDataPages
<1>6. b = sync.batch[a + 1] /\ a + 1 \in 1 .. l
  BY <1>3
<1>7. Writing /\ Writing' /\ dw = sync.batch
  BY <1>2, <1>4 DEF Writing, Stored
<1> HIDE DEF b
<1>8. \A e \in index : e.no \in PageNos
  BY <1>1, EntryType DEF TypeOK
<1>9. disk'[b.no].ts = b.ts /\ disk'[b.no] = Kept(b)
  BY <1>5 DEF Kept
<1>10. \A e \in index : e.no = b.no => e = Entry(b.ts, b.no) /\ e.ts = b.ts
  <2>1. Entry(b.ts, b.no) \in index
    BY <1>5, AllEntriesOf DEF Exact, CopiesListed
  <2>2. Entry(b.ts, b.no).no = b.no /\ Entry(b.ts, b.no).ts = b.ts
    BY DEF Entry
  <2>3. Distinct(index)
    BY DEF Filled, IndexOK
  <2> QED
    BY <2>1, <2>2, <2>3 DEF Distinct
\* The pages of the batch are different ones.
<1>11. \A i \in 1 .. l : i # a + 1 => sync.batch[i].no # b.no /\ sync.batch[i].no \in PageNos
  <2>1. \A i \in 1 .. l : sync.batch[i].no \in PageNos
    BY <1>1, <1>3, BatchPage
  <2> QED
    BY <2>1, <1>3, <1>6, <1>7 DEF Stored, Once
<1>12. PageExact'
  BY <1>2, <1>5, <1>8 DEF Exact, PageExact
<1>13. CopiesListed'
  BY <1>2, <1>4 DEF Exact, CopiesListed, AllEntries, CopiesOf
<1>14. DiskExact'
  <2> SUFFICES ASSUME NEW e \in index, ~pool'[e.no].onlyMem
               PROVE  disk'[e.no].ts = e.ts
    BY <1>2 DEF DiskExact
  <2>1. CASE e.no = b.no
    BY <2>1, <1>9, <1>10
  <2>2. CASE e.no # b.no
    BY <2>2, <1>5, <1>8 DEF Exact, DiskExact
  <2> QED
    BY <2>1, <2>2
<1>15. MemHeld'
  BY <1>5 DEF Exact, MemHeld
<1>16. EntryWritten'
  <2> SUFFICES ASSUME NEW e \in index
               PROVE  pool'[e.no].onlyMem \/ e \in idxFile
                      \/ \E i \in 1 .. a + 1 : /\ sync.batch[i].new
                                               /\ e = Entry(sync.batch[i].ts, sync.batch[i].no)
    BY <1>2, <1>4 DEF EntryWritten
  <2>1. CASE e.no = b.no
    <3>1. e = Entry(b.ts, b.no)
      BY <2>1, <1>10
    <3>2. ~b.new => Entry(b.ts, b.no) \in idxFile
      BY <1>3, <1>6 DEF Exact, BatchMarked
    <3>3. a + 1 \in 1 .. a + 1
      BY <1>3
    <3> QED
      BY <3>1, <3>2, <3>3, <1>6
  <2>2. CASE e.no # b.no
    <3>1. pool'[e.no] = pool[e.no]
      BY <2>2, <1>5, <1>8
    <3>2. \A i \in 1 .. a : i \in 1 .. a + 1
      BY <1>3
    <3> QED
      BY <3>1, <3>2, <1>3 DEF Exact, EntryWritten
  <2> QED
    BY <2>1, <2>2
<1>17. BatchMarked'
  <2>1. ASSUME NEW i \in 1 .. l
        PROVE  a + 1 < i => a < i /\ pool'[sync.batch[i].no] = pool[sync.batch[i].no]
    BY <1>3, <1>5, <1>11
  <2> QED
    BY <2>1, <1>2, <1>3, <1>4 DEF Exact, BatchMarked
<1>18. Stored'
  <2>1. ASSUME NEW i \in 1 .. a + 1
        PROVE  disk'[sync.batch[i].no] = Kept(sync.batch[i])
    <3>1. CASE i = a + 1
      BY <3>1, <1>6, <1>9
    <3>2. CASE i # a + 1
      <4>1. i \in 1 .. a /\ i \in 1 .. l
        BY <3>2, <1>3
      <4>2. disk'[sync.batch[i].no] = disk[sync.batch[i].no]
        BY <4>1, <3>2, <1>5, <1>11
      <4> QED
        BY <4>1, <4>2, <1>3 DEF Stored
    <3> QED
      BY <3>1, <3>2
  <2>2. ASSUME NEW p \in PageNos
        PROVE  disk'[p] = Blank \/ (\E e \in idxFile : e.no = p) \/ (\E c \in CopiesOf(dw) : c.no = p)
    <3>1. CASE p = b.no
      BY <3>1, <1>5, <1>7
    <3>2. CASE p # b.no
      BY <3>2, <1>5 DEF Stored
    <3> QED
      BY <3>1, <3>2
  <2>3. Once(dw') /\ dw' = sync'.batch /\ CopiesOf(dw') = CopiesOf(dw)
    BY <1>2, <1>4, <1>7 DEF Stored, Once, CopiesOf
  <2> QED
    BY <2>1, <2>2, <2>3, <1>2, <1>4, <1>7 DEF Stored
<1> QED
  BY <1>12, <1>13, <1>14, <1>15, <1>16, <1>17, <1>18 DEF Exact

LEMMA WriteIdxExact ==
    ASSUME IInv, Filled, Exact, Stored, WriteIdx
    PROVE  Exact' /\ Stored'
<1>1. TypeOK /\ Control
  BY DEF IInv
<1>2. /\ TypeOK' /\ sync.pc = "index" /\ sync'.batch = <<>> /\ sync'.at = 0
      /\ sync'.pc \notin {"data", "index", "redo"}
      /\ UNCHANGED <<index, pool, disk>>
  BY <1>1, WriteIdxStep DEF Emptied
<1>3. idxFile' = idxFile \cup NewEntries(sync.batch) /\ dw' = dw
  BY DEF WriteIdx
<1>4. Writing /\ ~Writing' /\ dw = sync.batch /\ sync.at = Len(sync.batch)
  BY <1>1, <1>2 DEF Writing, Stored, Control
<1>5. CopiesOf(sync'.batch) = {} /\ AllEntries(sync'.batch) = {} /\ Len(sync'.batch) = 0
  BY <1>2, NoCopies, AllEntriesOf, IdleType
\* Now every page of the batch has its entry in the index file.
<1>6. \A i \in 1 .. Len(sync.batch) : Entry(sync.batch[i].ts, sync.batch[i].no) \in idxFile'
  <2> TAKE i \in 1 .. Len(sync.batch)
  <2>1. sync.batch[i].new => Entry(sync.batch[i].ts, sync.batch[i].no) \in NewEntries(sync.batch)
    BY DEF NewEntries
  <2>2. ~sync.batch[i].new => Entry(sync.batch[i].ts, sync.batch[i].no) \in idxFile
    BY DEF Exact, BatchMarked
  <2> QED
    BY <2>1, <2>2, <1>3
<1>7. PageExact' /\ DiskExact' /\ MemHeld'
  BY <1>2 DEF Exact, PageExact, DiskExact, MemHeld, Page
<1>8. CopiesListed'
  BY <1>2, <1>3, <1>5 DEF Exact, CopiesListed, AllEntries, CopiesOf
<1>9. EntryWritten'
  BY <1>2, <1>3, <1>4, <1>6 DEF Exact, EntryWritten
<1>10. BatchMarked'
  BY <1>5, NoCopies DEF BatchMarked
<1>11. Stored'
  <2>1. \A c \in CopiesOf(dw) : (Idled(c))'
    <3>1. ASSUME NEW c \in CopiesOf(dw)
          PROVE  disk'[c.no] = Kept(c) /\ Entry(c.ts, c.no) \in idxFile'
      <4>1. PICK i \in 1 .. Len(sync.batch) : c = sync.batch[i]
        BY <1>4 DEF CopiesOf
      <4> QED
        BY <4>1, <1>2, <1>4, <1>6 DEF Stored
    <3> QED
      BY <3>1 DEF Idled
  <2>2. \A i \in 1 .. sync'.at : disk'[sync'.batch[i].no] = Kept(sync'.batch[i])
    BY <1>2, NoCopies
  <2>3. \A p \in PageNos : disk'[p] = Blank \/ (\E e \in idxFile' : e.no = p) \/ (\E c \in CopiesOf(dw) : c.no = p)
    BY <1>2, <1>3 DEF Stored
  <2>4. CopiesOf(dw') = CopiesOf(dw) /\ Once(dw')
    BY <1>3 DEF CopiesOf, Stored, Once
  <2> QED
    BY <2>1, <2>2, <2>3, <2>4, <1>4 DEF Stored
<1> QED
  BY <1>7, <1>8, <1>9, <1>10, <1>11 DEF Exact

-----------------------------------------------------------------------------
(* A crash, and the RecoverDW of the next start.                            *)

\* The entries of the index and of the copies are one index, and the index file and
\* the copies have all that is in the data file.
LEMMA OneIndex ==
    ASSUME LInv, FInv, damaged = {}
    PROVE  /\ Distinct(index \cup AllEntries(dw)) /\ idxFile \subseteq index
           /\ Stored
           /\ \A e \in idxFile : (\A c \in CopiesOf(dw) : c.no # e.no) =>
                 disk[e.no].ts = e.ts \/ pool[e.no].onlyMem
<1>1. CASE sync.pc = "redo"
  BY <1>1 DEF LInv, FInv, Redone, RedoneExact
<1>2. CASE sync.pc # "redo"
  <2>1. index \cup AllEntries(dw) = index
    BY <1>2 DEF FInv, Exact, CopiesListed
  <2> QED
    BY <1>2, <2>1 DEF LInv, FInv, Filled, IndexOK, Exact, DiskExact
<1> QED
  BY <1>1, <1>2

\* What a crash makes of the files: the index file may have got entries of the batch,
\* a page of which there is a copy may be torn, and the double-write file is lost
\* only before the first page of its batch is written.
Survives(o) ==
    /\ idxFile \subseteq o.idxFile /\ o.idxFile \subseteq idxFile \cup AllEntries(dw)
    /\ \/ /\ o.dw = dw
          /\ \A p \in PageNos : o.disk[p] = disk[p]
                                \/ (o.disk[p] = Blank /\ \E c \in CopiesOf(dw) : c.no = p)
       \/ /\ o.dw = <<>> /\ o.disk = disk /\ o.idxFile = idxFile
          /\ \A c \in CopiesOf(dw) : Idled(c)

LEMMA OutcomeSurvives ==
    ASSUME IInv, LInv, FInv, damaged = {}, NEW o \in CrashOutcomes
    PROVE  Survives(o)
<1>1. TypeOK /\ Control
  BY DEF IInv
<1>2. Stored
  BY DEF FInv
<1>3. CASE o = Now
  <2>1. o.idxFile = idxFile /\ o.dw = dw /\ o.disk = disk
    BY <1>3 DEF Now, FilesOf
  <2> QED
    BY <2>1 DEF Survives
<1>4. CASE sync.pc = "dw" /\ o = FilesOf(disk, idxFile, <<>>)
  <2>1. \A c \in CopiesOf(dw) : Idled(c)
    BY <1>2, <1>4 DEF Stored, Writing
  <2> QED
    BY <1>4, <2>1 DEF FilesOf, Survives
<1>5. CASE /\ sync.pc \in {"data", "redo"} /\ sync.at < Len(sync.batch)
           /\ o = Torn(sync.batch[sync.at + 1].no)
  <2> DEFINE b == sync.batch[sync.at + 1]
  <2>1. b \in CopiesOf(dw)
    <3>1. sync.at + 1 \in 1 .. Len(sync.batch)
      BY <1>1, <1>5, AtType
    <3>2. dw = sync.batch
      BY <1>2, <1>5 DEF Stored, Writing
    <3> QED
      BY <3>1, <3>2 DEF CopiesOf
  <2> HIDE DEF b
  <2>2. disk \in [PageNos -> Content]
    BY <1>1 DEF TypeOK
  <2>3. o.idxFile = idxFile /\ o.dw = dw /\ o.disk = [disk EXCEPT ![b.no] = Blank]
    BY <1>5 DEF Torn, FilesOf, b
  <2>4. \A p \in PageNos : o.disk[p] = disk[p] \/ (o.disk[p] = Blank /\ p = b.no)
    BY <2>2, <2>3
  <2> QED
    BY <2>1, <2>3, <2>4, Zenon DEF Survives
<1>6. ASSUME NEW es, es \subseteq idxFile \cup AllEntries(dw), o = Indexed(es)
      PROVE  Survives(o)
  <2>1. o.idxFile = idxFile \cup es /\ o.dw = dw /\ o.disk = disk
    BY <1>6 DEF Indexed, FilesOf
  <2> QED
    BY <2>1, <1>6 DEF Survives
<1>7. CASE sync.pc = "index" /\ \E n \in 1 .. Len(sync.batch) : o = Indexed(NewEntries(SubSeq(sync.batch, 1, n)))
  <2>1. PICK n \in 1 .. Len(sync.batch) : o = Indexed(NewEntries(SubSeq(sync.batch, 1, n)))
    BY <1>7
  <2>2. sync.batch \in Seq(Copies) /\ Len(sync.batch) \in Nat /\ n \in Nat /\ n <= Len(sync.batch)
    BY <1>1, AtType DEF TypeOK, Syncs
  <2>3. /\ Len(SubSeq(sync.batch, 1, n)) = n
        /\ \A i \in 1 .. n : SubSeq(sync.batch, 1, n)[i] = sync.batch[i] /\ i \in 1 .. Len(sync.batch)
    BY <2>2, SubSeqProperties
  <2>4. dw = sync.batch
    BY <1>2, <1>7 DEF Stored, Writing
  <2>5. NewEntries(SubSeq(sync.batch, 1, n)) \subseteq AllEntries(dw)
    BY <2>3, <2>4, AllEntriesOf DEF NewEntries
  <2> QED
    BY <2>1, <2>5, <1>6
<1>8. CASE sync.pc = "redo" /\ \E n \in 1 .. Len(sync.batch) :
                o = Indexed({e \in index : \E i \in 1 .. n : e.no = sync.batch[i].no})
  <2>1. PICK n \in 1 .. Len(sync.batch) :
           o = Indexed({e \in index : \E i \in 1 .. n : e.no = sync.batch[i].no})
    BY <1>8
  <2>2. index \subseteq idxFile \cup AllEntries(dw)
    BY <1>8 DEF FInv, RedoneExact
  <2> QED
    BY <2>1, <2>2, <1>6
<1> QED
  BY <1>3, <1>4, <1>5, <1>7, <1>8 DEF CrashOutcomes

LEMMA CrashExact ==
    ASSUME IInv, LInv, FInv, damaged = {}, Crash
    PROVE  RedoneExact' /\ Stored' /\ sync'.pc = "redo"
<1>1. PICK o \in CrashOutcomes :
         /\ disk' = o.disk /\ idxFile' = o.idxFile /\ dw' = o.dw /\ index' = o.idxFile
         /\ sync' = [Idle EXCEPT !.pc = "redo", !.batch = o.dw]
  BY DEF Crash
<1>2. Survives(o)
  BY OutcomeSurvives
<1>3. sync'.pc = "redo" /\ sync'.batch = dw' /\ sync'.at = 0 /\ Writing'
  BY <1>1 DEF Idle, Writing
<1>4. /\ Distinct(index \cup AllEntries(dw)) /\ idxFile \subseteq index
      /\ Stored
      /\ \A e \in idxFile : (\A c \in CopiesOf(dw) : c.no # e.no) =>
            disk[e.no].ts = e.ts \/ pool[e.no].onlyMem
  BY OneIndex
<1>5. \A e \in idxFile : e.no \in PageNos /\ ~pool[e.no].onlyMem
  <2>1. \A e \in idxFile : e.no \in PageNos
    BY EntryType DEF IInv, TypeOK
  <2>2. \A e \in o.idxFile : ~pool[e.no].onlyMem
    BY OutcomeKnown
  <2> QED
    BY <2>1, <2>2, <1>2 DEF Survives
<1>6. AllEntries(o.dw) \subseteq AllEntries(dw) /\ Once(o.dw)
  <2>1. CASE o.dw = dw
    BY <2>1, <1>4 DEF Stored
  <2>2. CASE o.dw = <<>>
    BY <2>2, AllEntriesOf, NoCopies, IdleType DEF Once
  <2> QED
    BY <2>1, <2>2, <1>2 DEF Survives
<1>7. Distinct(o.idxFile \cup AllEntries(o.dw))
  <2>1. o.idxFile \cup AllEntries(o.dw) \subseteq index \cup AllEntries(dw)
    BY <1>2, <1>4, <1>6 DEF Survives
  <2> QED
    BY <2>1, <1>4 DEF Distinct
<1>8. ASSUME NEW e \in o.idxFile, \A c \in CopiesOf(o.dw) : c.no # e.no
      PROVE  o.disk[e.no].ts = e.ts
  <2>1. CASE /\ o.dw = dw
             /\ \A p \in PageNos : o.disk[p] = disk[p]
                                   \/ (o.disk[p] = Blank /\ \E c \in CopiesOf(dw) : c.no = p)
    <3>1. e \in idxFile
      BY <1>2, <1>8, <2>1, AllEntriesOf DEF Survives
    <3>2. o.disk[e.no] = disk[e.no]
      BY <3>1, <1>5, <1>8, <2>1
    <3> QED
      BY <3>1, <3>2, <1>4, <1>5, <1>8, <2>1
  <2>2. CASE /\ o.dw = <<>> /\ o.disk = disk /\ o.idxFile = idxFile
             /\ \A c \in CopiesOf(dw) : Idled(c)
    <3>1. CASE \A c \in CopiesOf(dw) : c.no # e.no
      BY <3>1, <2>2, <1>4, <1>5
    <3>2. CASE \E c \in CopiesOf(dw) : c.no = e.no
      <4>1. PICK c \in CopiesOf(dw) : c.no = e.no
        BY <3>2
      <4>2. Entry(c.ts, c.no).no = e.no /\ Entry(c.ts, c.no).ts = c.ts /\ Entry(c.ts, c.no) \in idxFile
        BY <2>2, <4>1 DEF Idled, Entry
      <4>3. e = Entry(c.ts, c.no)
        BY <4>2, <2>2, <1>4 DEF Distinct
      <4>4. disk[e.no].ts = c.ts
        <5>1. disk[e.no] = Kept(c)
          BY <4>1, <2>2 DEF Idled
        <5> QED
          BY <5>1 DEF Kept
      <4> QED
        BY <4>2, <4>3, <4>4, <2>2
    <3> QED
      BY <3>1, <3>2
  <2> QED
    BY <2>1, <2>2, <1>2 DEF Survives
<1>9. ASSUME NEW p \in PageNos
      PROVE  o.disk[p] = Blank \/ (\E e \in o.idxFile : e.no = p) \/ (\E c \in CopiesOf(o.dw) : c.no = p)
  <2>1. disk[p] = Blank \/ (\E e \in idxFile : e.no = p) \/ (\E c \in CopiesOf(dw) : c.no = p)
    BY <1>4 DEF Stored
  <2>2. CASE o.dw = dw /\ (o.disk[p] = disk[p] \/ o.disk[p] = Blank)
    BY <2>1, <2>2, <1>2 DEF Survives
  <2>3. CASE o.disk = disk /\ o.idxFile = idxFile /\ \A c \in CopiesOf(dw) : Idled(c)
    <3>1. \A c \in CopiesOf(dw) : \E e \in idxFile : e.no = c.no
      BY <2>3 DEF Idled, Entry
    <3> QED
      BY <2>1, <2>3, <3>1
  <2> QED
    BY <2>2, <2>3, <1>2 DEF Survives
<1>10. RedoneExact'
  <2>1. Distinct(index' \cup AllEntries(dw)')
    BY <1>1, <1>7 DEF AllEntries, CopiesOf, Distinct
  <2>2. \A i \in 1 .. sync'.at : Entry(sync'.batch[i].ts, sync'.batch[i].no) \in index'
    BY <1>3, NoCopies
  <2>3. \A e \in index' : (\A c \in CopiesOf(dw)' : c.no # e.no) => disk'[e.no].ts = e.ts
    BY <1>1, <1>8 DEF CopiesOf
  <2>4. index' \subseteq idxFile'
    BY <1>1
  <2> QED
    BY <2>1, <2>2, <2>3, <2>4 DEF RedoneExact
<1>11. Stored'
  <2>1. Once(dw)'
    BY <1>1, <1>6 DEF Once
  <2>2. \A i \in 1 .. sync'.at : disk'[sync'.batch[i].no] = Kept(sync'.batch[i])
    BY <1>3, NoCopies
  <2>3. \A p \in PageNos : disk'[p] = Blank \/ (\E e \in idxFile' : e.no = p) \/ (\E c \in CopiesOf(dw)' : c.no = p)
    BY <1>1, <1>9 DEF CopiesOf
  <2> QED
    BY <2>1, <2>2, <2>3, <1>3 DEF Stored
<1> QED
  BY <1>3, <1>10, <1>11

\* What Redo does.
LEMMA RedoWrites ==
    ASSUME IInv, Redone, Redo, NEW b, b = sync.batch[sync.at + 1]
    PROVE  /\ sync.pc = "redo" /\ sync'.pc = "redo"
           /\ sync'.batch = sync.batch /\ sync'.at = sync.at + 1
           /\ sync.at \in Nat /\ Len(sync.batch) \in Nat /\ sync.at < Len(sync.batch)
           /\ dw = sync.batch /\ b \in CopiesOf(dw) /\ b.no \in PageNos
           /\ disk' = [disk EXCEPT ![b.no] = Kept(b)]
           /\ index' = index \cup (IF \E e \in index : e.ts = b.ts THEN {} ELSE {Entry(b.ts, b.no)})
           /\ UNCHANGED <<idxFile, dw>>
<1> DEFINE r == RedoPage([index |-> index, disk |-> disk], b)
<1>1. TypeOK
  BY DEF IInv
<1>2. /\ sync.pc = "redo" /\ sync.at < Len(sync.batch)
      /\ index' = r.index /\ disk' = r.disk
      /\ sync' = [sync EXCEPT !.at = sync.at + 1]
      /\ UNCHANGED <<idxFile, dw>>
  BY DEF Redo
<1>3. sync'.batch = sync.batch /\ sync'.at = sync.at + 1 /\ sync'.pc = "redo"
  BY <1>1, <1>2 DEF TypeOK, Syncs
<1>4. sync.at \in Nat /\ Len(sync.batch) \in Nat /\ sync.at + 1 \in 1 .. Len(sync.batch)
  BY <1>1, <1>2, AtType
<1>5. dw = sync.batch
  BY DEF Redone
<1>6. b \in CopiesOf(dw) /\ b.no \in PageNos
  BY <1>1, <1>4, <1>5, BatchPage DEF CopiesOf
<1>7. /\ index' = index \cup (IF \E e \in index : e.ts = b.ts THEN {} ELSE {Entry(b.ts, b.no)})
      /\ disk' = [disk EXCEPT ![b.no] = Kept(b)]
  BY <1>2 DEF RedoPage, Kept
<1> QED
  BY <1>2, <1>3, <1>4, <1>5, <1>6, <1>7

LEMMA RedoExactKept ==
    ASSUME IInv, Redone, RedoneExact, Stored, Redo
    PROVE  RedoneExact' /\ Stored'
<1> DEFINE b == sync.batch[sync.at + 1]
           new == Entry(b.ts, b.no)
<1>1. TypeOK
  BY DEF IInv
<1>2. /\ sync.pc = "redo" /\ sync'.pc = "redo"
      /\ sync'.batch = sync.batch /\ sync'.at = sync.at + 1
      /\ sync.at \in Nat /\ Len(sync.batch) \in Nat /\ sync.at < Len(sync.batch)
      /\ dw = sync.batch /\ b \in CopiesOf(dw) /\ b.no \in PageNos
      /\ disk' = [disk EXCEPT ![b.no] = Kept(b)]
      /\ index' = index \cup (IF \E e \in index : e.ts = b.ts THEN {} ELSE {Entry(b.ts, b.no)})
      /\ UNCHANGED <<idxFile, dw>>
  BY RedoWrites
<1>3. PICK a \in Nat, l \in Nat : a = sync.at /\ l = Len(sync.batch) /\ a < l
  BY <1>2
<1>4. b = sync.batch[a + 1] /\ a + 1 \in 1 .. l
  BY <1>3
<1>5. new \in AllEntries(dw) /\ new.ts = b.ts /\ new.no = b.no
  BY <1>2, AllEntriesOf
<1> HIDE DEF b
<1>6. disk \in [PageNos -> Content] /\ \A e \in index : e.no \in PageNos
  BY <1>1, EntryType DEF TypeOK
<1>7. disk'[b.no] = Kept(b) /\ \A p \in PageNos : p # b.no => disk'[p] = disk[p]
  BY <1>2, <1>6
<1>8. index \subseteq index' /\ index' \subseteq index \cup {new}
  BY <1>2
<1>9. new \in index'
  <2>1. ASSUME NEW e \in index, e.ts = b.ts
        PROVE  e = new
    BY <2>1, <1>5 DEF RedoneExact, Distinct
  <2> HIDE DEF new
  <2> QED
    BY <2>1, <1>2 DEF new
<1> HIDE DEF new
<1>10. CopiesOf(dw') = CopiesOf(dw) /\ AllEntries(dw') = AllEntries(dw)
  BY <1>2 DEF CopiesOf, AllEntries
<1>11. RedoneExact'
  <2>1. Distinct(index' \cup AllEntries(dw'))
    <3>1. index' \cup AllEntries(dw') \subseteq index \cup AllEntries(dw)
      BY <1>5, <1>8, <1>10
    <3> QED
      BY <3>1 DEF RedoneExact, Distinct
  <2>2. index' \subseteq idxFile' \cup AllEntries(dw')
    BY <1>2, <1>5, <1>8, <1>10 DEF RedoneExact
  <2>3. ASSUME NEW i \in 1 .. a + 1
        PROVE  Entry(sync.batch[i].ts, sync.batch[i].no) \in index'
    <3>1. CASE i = a + 1
      BY <3>1, <1>4, <1>9 DEF new
    <3>2. CASE i # a + 1
      <4>1. i \in 1 .. a
        BY <3>2, <1>3
      <4> QED
        BY <4>1, <1>3, <1>8 DEF RedoneExact
    <3> QED
      BY <3>1, <3>2
  <2>4. ASSUME NEW e \in index', \A c \in CopiesOf(dw) : c.no # e.no
        PROVE  disk'[e.no].ts = e.ts
    <3>1. e.no # b.no
      BY <2>4, <1>2
    <3>2. e \in index
      BY <3>1, <1>5, <1>8
    <3> QED
      BY <2>4, <3>1, <3>2, <1>6, <1>7 DEF RedoneExact
  <2> QED
    BY <2>1, <2>2, <2>3, <2>4, <1>2, <1>3, <1>10 DEF RedoneExact
<1>12. Stored'
  <2>1. ASSUME NEW i \in 1 .. a + 1
        PROVE  disk'[sync.batch[i].no] = Kept(sync.batch[i])
    <3>1. CASE i = a + 1
      BY <3>1, <1>4, <1>7
    <3>2. CASE i # a + 1
      <4>1. i \in 1 .. a /\ i \in 1 .. l
        BY <3>2, <1>3
      <4>2. sync.batch[i].no # b.no /\ sync.batch[i].no \in PageNos
        <5>1. sync.batch[i].no \in PageNos
          BY <4>1, <1>1, <1>3, BatchPage
        <5> QED
          BY <5>1, <3>2, <4>1, <1>2, <1>3, <1>4 DEF Stored, Once
      <4> QED
        BY <4>1, <4>2, <1>3, <1>7 DEF Stored
    <3> QED
      BY <3>1, <3>2
  <2>2. ASSUME NEW p \in PageNos
        PROVE  disk'[p] = Blank \/ (\E e \in idxFile : e.no = p) \/ (\E c \in CopiesOf(dw) : c.no = p)
    <3>1. CASE p = b.no
      BY <3>1, <1>2
    <3>2. CASE p # b.no
      BY <3>2, <1>7 DEF Stored
    <3> QED
      BY <3>1, <3>2
  <2>3. Once(dw') /\ dw' = sync'.batch
    BY <1>2 DEF Stored, Once
  <2>4. Writing'
    BY <1>2 DEF Writing
  <2> QED
    BY <2>1, <2>2, <2>3, <2>4, <1>2, <1>3, <1>10 DEF Stored
<1> QED
  BY <1>11, <1>12

\* At the end every copy is in the data file, and has its entry in the index.
LEMMA RedoAtEnd ==
    ASSUME IInv, RedoneExact, Stored, EndRedo
    PROVE  \A c \in CopiesOf(dw) : disk[c.no] = Kept(c) /\ Entry(c.ts, c.no) \in index
<1>1. sync.pc = "redo" /\ sync.at = Len(sync.batch)
  BY DEF EndRedo
<1>2. dw = sync.batch
  BY <1>1 DEF Stored, Writing
<1>3. \A i \in 1 .. Len(sync.batch) : disk[sync.batch[i].no] = Kept(sync.batch[i])
                                      /\ Entry(sync.batch[i].ts, sync.batch[i].no) \in index
  BY <1>1 DEF Stored, RedoneExact
<1> QED
  BY <1>2, <1>3 DEF CopiesOf

LEMMA EndRedoExact ==
    ASSUME IInv, Redone, RedoneExact, Stored, EndRedo
    PROVE  Exact' /\ Stored'
<1>1. TypeOK /\ Control
  BY DEF IInv
<1>2. TypeOK' /\ sync.pc = "redo" /\ sync' = Idle /\ UNCHANGED <<pool, disk>>
  BY <1>1, EndRedoStep
<1>3. idxFile' = index /\ index' = index /\ dw' = <<>>
  BY DEF EndRedo, memVars
<1>4. /\ sync'.at = 0 /\ sync'.batch = <<>> /\ ~Writing' /\ Len(sync'.batch) = 0
      /\ CopiesOf(sync'.batch) = {} /\ AllEntries(sync'.batch) = {}
      /\ CopiesOf(dw') = {} /\ AllEntries(dw') = {}
  BY <1>2, <1>3, IdleType, NoCopies, AllEntriesOf DEF Writing, Idle
<1>5. \A e \in index : e.no \in PageNos
  BY <1>1, EntryType DEF TypeOK
<1>6. \A p \in PageNos : ~pool'[p].onlyMem /\ ~pool'[p].init
  BY <1>1, <1>2, ContentTypes, ClearedContents DEF Control
<1>7. \A c \in CopiesOf(dw) : disk[c.no] = Kept(c) /\ Entry(c.ts, c.no) \in index
  BY RedoAtEnd
<1>8. ASSUME NEW e \in index
      PROVE  disk[e.no].ts = e.ts
  <2>1. CASE \A c \in CopiesOf(dw) : c.no # e.no
    BY <2>1 DEF RedoneExact
  <2>2. CASE \E c \in CopiesOf(dw) : c.no = e.no
    <3>1. PICK c \in CopiesOf(dw) : c.no = e.no
      BY <2>2
    <3>2. disk[e.no] = Kept(c) /\ Entry(c.ts, c.no) \in index
      BY <3>1, <1>7
    <3>3. Entry(c.ts, c.no).no = e.no /\ Entry(c.ts, c.no).ts = c.ts
      BY <3>1 DEF Entry
    <3>4. e = Entry(c.ts, c.no)
      BY <3>2, <3>3 DEF RedoneExact, Distinct
    <3>5. disk[e.no].ts = c.ts
      BY <3>2 DEF Kept
    <3> QED
      BY <3>3, <3>4, <3>5
  <2> QED
    BY <2>1, <2>2
<1>9. \A p \in PageNos : Page(p)'.ts = disk[p].ts
  BY <1>2, <1>6, PageTypeAfter
<1>10. PageExact' /\ DiskExact' /\ MemHeld'
  BY <1>2, <1>3, <1>5, <1>6, <1>8, <1>9 DEF PageExact, DiskExact, MemHeld
<1>11. CopiesListed' /\ EntryWritten'
  BY <1>3, <1>4 DEF CopiesListed, EntryWritten, AllEntries, CopiesOf
<1>12. BatchMarked'
  BY <1>4, NoCopies DEF BatchMarked
<1>13. Stored'
  <2>1. Once(dw')
    BY <1>3, IdleType, NoCopies DEF Once
  <2>2. \A i \in 1 .. sync'.at : disk'[sync'.batch[i].no] = Kept(sync'.batch[i])
    BY <1>4, NoCopies
  <2>3. ASSUME NEW p \in PageNos
        PROVE  disk[p] = Blank \/ \E e \in index : e.no = p
    <3>1. \A c \in CopiesOf(dw) : \E e \in index : e.no = c.no
      BY <1>7 DEF Entry
    <3>2. idxFile \subseteq index
      BY DEF Redone
    <3> QED
      BY <3>1, <3>2 DEF Stored
  <2> QED
    BY <2>1, <2>2, <2>3, <1>2, <1>3, <1>4 DEF Stored
<1> QED
  BY <1>10, <1>11, <1>12, <1>13 DEF Exact

LEMMA InitExact == Init => FInv
<1> SUFFICES ASSUME Init PROVE FInv
  OBVIOUS
<1>1. /\ index = {} /\ idxFile = {} /\ sync = Idle /\ dw = <<>>
      /\ \A p \in PageNos : pool[p] = Absent /\ disk[p] = Blank
  BY DEF Init
<1>2. /\ sync.pc = "idle" /\ sync.at = 0 /\ Len(sync.batch) = 0 /\ sync.batch = <<>>
      /\ CopiesOf(dw) = {} /\ AllEntries(dw) = {} /\ AllEntries(sync.batch) = {}
  BY <1>1, IdleType, NoCopies, AllEntriesOf DEF Idle
<1>3. PageExact /\ CopiesListed /\ DiskExact /\ EntryWritten
  BY <1>1, <1>2 DEF PageExact, CopiesListed, DiskExact, EntryWritten
<1>4. MemHeld /\ BatchMarked
  BY <1>1, <1>2, ClearedContents, NoCopies DEF MemHeld, BatchMarked
<1>5. Stored
  BY <1>1, <1>2, NoCopies, IdleType DEF Stored, Once, Writing
<1> QED
  BY <1>2, <1>3, <1>4, <1>5 DEF FInv, Exact

\* A failing write is counted.
LEMMA NoFailure ==
    ASSUME TypeOK, fails' = 0
    PROVE  ~WriteFails /\ ~WriteIdxFails
<1>1. fails \in Nat
  BY NormalPartAssumption DEF TypeOK
<1> QED
  BY <1>1 DEF WriteFails, WriteIdxFails, Fails

LEMMA NextExact == IInv /\ LInv /\ FInv /\ [Next]_vars /\ fails' = 0 => FInv'
<1> SUFFICES ASSUME IInv, LInv, FInv, [Next]_vars, fails' = 0, damaged' = {}
             PROVE  /\ Stored'
                    /\ sync'.pc = "redo" => RedoneExact'
                    /\ sync'.pc # "redo" => Exact'
  BY DEF FInv
<1>1. TypeOK /\ Control
  BY DEF IInv
<1>2. CASE UNCHANGED vars
  <2>1. damaged = {}
    BY <1>2 DEF vars, history
  <2>2. UNCHANGED <<index, pool, dirtyList, sync, disk, idxFile, dw>>
    BY <1>2 DEF vars, memVars, diskVars
  <2>3. Stored /\ (sync.pc = "redo" => RedoneExact) /\ (sync.pc # "redo" => Exact)
    BY <2>1 DEF FInv
  <2>4. RedoneExact => RedoneExact'
    BY <2>2 DEF RedoneExact, AllEntries, CopiesOf
  <2>5. Exact => Exact'
    BY <2>2 DEF Exact, PageExact, CopiesListed, DiskExact, MemHeld, EntryWritten, BatchMarked,
                AllEntries, CopiesOf, Page
  <2>6. Stored => Stored'
    BY <2>2 DEF Stored, Once, Writing, Idled, CopiesOf
  <2> QED
    BY <2>2, <2>3, <2>4, <2>5, <2>6
<1>3. CASE Next
  <2>1. damaged = {}
    BY <1>3 DEF Next
  <2>2. (sync.pc = "redo" => Redone) /\ (sync.pc # "redo" => Filled)
    BY <2>1 DEF LInv
  <2>3. Stored /\ (sync.pc = "redo" => RedoneExact) /\ (sync.pc # "redo" => Exact)
    BY <2>1 DEF FInv
  <2>4. ASSUME NEW k \in Keys, InsertRec(k)
        PROVE  sync'.pc # "redo" /\ Exact' /\ Stored'
    <3>1. sync.pc # "redo" /\ sync' = sync
      BY <2>4 DEF InsertRec, InsertFirst, InsertInPage, InsertAfter, InsertSplit, Accept
    <3>2. Grown
      BY <2>2, <2>4, <3>1, InsertFilled
    <3> QED
      BY <2>3, <3>1, <3>2, <1>1, InsertExact
  <2>5. ASSUME NEW p \in PageNos, Evict(p)
        PROVE  sync'.pc # "redo" /\ Exact' /\ Stored'
    <3>1. sync' = sync /\ pool[p].init
      BY <2>5 DEF Evict
    <3>2. sync.pc # "redo"
      BY <3>1, <1>1, ContentTypes DEF Control
    <3> QED
      BY <2>2, <2>3, <2>5, <3>1, <3>2, EvictExact
  <2>6. ASSUME NEW all \in BOOLEAN, Mark(all)
        PROVE  sync'.pc # "redo" /\ Exact' /\ Stored'
    <3>1. sync.pc = "idle" /\ sync'.pc = "split"
      BY <2>6, <1>1, MarkStep
    <3> QED
      BY <2>2, <2>3, <2>6, <3>1, MarkExact
  <2>7. CASE TakeSplit \/ TakeRest
    <3>1. sync.pc \in {"split", "rest"}
      BY <2>7 DEF TakeSplit, TakeRest
    <3>2. sync.vec = NoVec /\ sync.batch = <<>> /\ sync.at = 0
      BY <1>1, <3>1 DEF Control
    <3>3. sync'.pc \in {"rest", "copy", "idle"}
      BY <2>7, <3>2, <1>1, TakeSplitStep, TakeRestStep
    <3> QED
      BY <2>2, <2>3, <2>7, <3>1, <3>3, TakeExact
  <2>8. ASSUME NEW p \in PageNos, CopyPage(p)
        PROVE  sync'.pc # "redo" /\ Exact' /\ Stored'
    <3>1. sync.pc = "copy" /\ Len(sync.batch) < BatchSize
      BY <2>8, <1>1 DEF CopyPage, Control
    <3>2. sync'.pc \in {"dw", "copy"}
      BY <2>8, <3>1, <1>1, CopyPageStep
    <3> QED
      BY <2>2, <2>3, <2>8, <3>1, <3>2, CopyPageExact
  <2>9. CASE WriteDw
    <3>1. sync.pc = "dw" /\ sync'.pc = "data"
      BY <2>9, <1>1, WriteDwStep
    <3> QED
      BY <2>2, <2>3, <2>9, <3>1, WriteDwExact
  <2>10. CASE WriteData
    <3>1. sync.pc = "data" /\ sync.at < Len(sync.batch)
      BY <2>10, <1>1 DEF WriteData, Control
    <3>2. sync'.pc \in {"data", "index"}
      BY <2>10, <3>1, <1>1, WriteDataStep
    <3> QED
      BY <2>2, <2>3, <2>10, <3>1, <3>2, WriteDataExact
  <2>11. CASE WriteIdx
    <3>1. sync.pc = "index" /\ sync'.pc # "redo"
      BY <2>11, <1>1, WriteIdxStep DEF Emptied
    <3> QED
      BY <2>2, <2>3, <2>11, <3>1, WriteIdxExact
  <2>12. CASE Crash
    BY <2>1, <2>12, CrashExact
  <2>13. CASE Redo
    BY <2>2, <2>3, <2>13, <1>1, RedoStep, RedoExactKept
  <2>14. CASE EndRedo
    BY <2>2, <2>3, <2>14, <1>1, EndRedoStep, EndRedoExact, IdleType
  <2> QED
    BY <1>1, <1>3, <2>4, <2>5, <2>6, <2>7, <2>8, <2>9, <2>10, <2>11, <2>12, <2>13, <2>14, NoFailure DEF Next
<1> QED
  BY <1>2, <1>3

-----------------------------------------------------------------------------
(* What the next start would find changes a batch at a time.                *)

Readable(o) ==
    /\ o.disk \in [PageNos -> Content] /\ o.idxFile \subseteq Entries /\ o.dw \in Seq(Copies)
    /\ Once(o.dw) /\ Distinct(o.idxFile \cup AllEntries(o.dw))

LEMMA ReadableNow == IInv /\ LInv /\ FInv /\ damaged = {} => Readable(Now)
<1> SUFFICES ASSUME IInv, LInv, FInv, damaged = {} PROVE Readable(Now)
  OBVIOUS
<1>1. Distinct(index \cup AllEntries(dw)) /\ idxFile \subseteq index /\ Stored
  BY OneIndex
<1>2. Distinct(idxFile \cup AllEntries(dw))
  BY <1>1 DEF Distinct
<1>3. disk \in [PageNos -> Content] /\ idxFile \subseteq Entries /\ dw \in Seq(Copies)
  BY DEF IInv, TypeOK
<1>4. Once(dw)
  BY <1>1 DEF Stored
<1>5. Now.disk = disk /\ Now.idxFile = idxFile /\ Now.dw = dw
  BY DEF Now, FilesOf
<1> QED
  BY <1>2, <1>3, <1>4, <1>5 DEF Readable

LEMMA SameReopened ==
    ASSUME NEW o, NEW r, Readable(o), Readable(r),
           o.idxFile \cup AllEntries(o.dw) = r.idxFile \cup AllEntries(r.dw),
           \A p \in PageNos : Overlay(o.disk, o.dw, Len(o.dw))[p] = Overlay(r.disk, r.dw, Len(r.dw))[p]
    PROVE  Reopened(o) = Reopened(r)
<1>1. Overlay(o.disk, o.dw, Len(o.dw)) = Overlay(r.disk, r.dw, Len(r.dw))
  BY DEF Overlay
<1>2. Reopened(o) = [index |-> o.idxFile \cup AllEntries(o.dw), disk |-> Overlay(o.disk, o.dw, Len(o.dw))]
  BY ReopenedUnion DEF Readable
<1>3. Reopened(r) = [index |-> r.idxFile \cup AllEntries(r.dw), disk |-> Overlay(r.disk, r.dw, Len(r.dw))]
  BY ReopenedUnion DEF Readable
<1> QED
  BY <1>1, <1>2, <1>3

\* Pages of which the double-write file has a copy are written, and entries it has
\* are added to the index file.
LEMMA CopiesCover ==
    ASSUME NEW o, NEW r, Readable(o), r.disk \in [PageNos -> Content], r.dw = o.dw,
           o.idxFile \subseteq r.idxFile, r.idxFile \subseteq o.idxFile \cup AllEntries(o.dw),
           \A p \in PageNos : (\A c \in CopiesOf(o.dw) : c.no # p) => r.disk[p] = o.disk[p]
    PROVE  Reopened(r) = Reopened(o)
<1>1. r.idxFile \cup AllEntries(r.dw) = o.idxFile \cup AllEntries(o.dw)
  OBVIOUS
<1>2. o.idxFile \subseteq Entries /\ o.dw \in Seq(Copies) /\ Once(o.dw)
  BY DEF Readable
<1>3. AllEntries(o.dw) \subseteq Entries
  <2>1. \A c \in CopiesOf(o.dw) : c \in Copies
    BY <1>2 DEF CopiesOf
  <2> QED
    BY <2>1 DEF AllEntries, Entry, Entries, Copies
<1>4. Readable(r)
  BY <1>1, <1>2, <1>3 DEF Readable
<1>5. ASSUME NEW p \in PageNos
      PROVE  Overlay(o.disk, o.dw, Len(o.dw))[p] = Overlay(r.disk, r.dw, Len(r.dw))[p]
  <2>1. CASE \E c \in CopiesOf(o.dw) : c.no = p
    BY <2>1, <1>2, OverlayIs
  <2>2. CASE \A c \in CopiesOf(o.dw) : c.no # p
    BY <2>2, <1>2, OverlayIs
  <2> QED
    BY <2>1, <2>2
<1> QED
  BY <1>1, <1>4, <1>5, SameReopened

\* The double-write file is emptied when the other files have all that is in it.
LEMMA CopiesDone ==
    ASSUME NEW o, NEW r, Readable(o), r.disk \in [PageNos -> Content], r.dw = <<>>,
           r.idxFile = o.idxFile \cup AllEntries(o.dw),
           \A c \in CopiesOf(o.dw) : r.disk[c.no] = Kept(c),
           \A p \in PageNos : (\A c \in CopiesOf(o.dw) : c.no # p) => r.disk[p] = o.disk[p]
    PROVE  Reopened(r) = Reopened(o)
<1>1. CopiesOf(r.dw) = {} /\ AllEntries(r.dw) = {} /\ r.dw \in Seq(Copies)
  BY NoCopies, AllEntriesOf
<1>2. o.idxFile \subseteq Entries /\ o.dw \in Seq(Copies) /\ Once(o.dw)
      /\ Distinct(o.idxFile \cup AllEntries(o.dw))
  BY DEF Readable
<1>3. AllEntries(o.dw) \subseteq Entries
  <2>1. \A c \in CopiesOf(o.dw) : c \in Copies
    BY <1>2 DEF CopiesOf
  <2> QED
    BY <2>1 DEF AllEntries, Entry, Entries, Copies
<1>4. r.idxFile \cup AllEntries(r.dw) = o.idxFile \cup AllEntries(o.dw) /\ r.idxFile \subseteq Entries
  BY <1>1, <1>2, <1>3
<1>5. Once(r.dw)
  BY DEF Once
<1>6. Readable(r)
  BY <1>1, <1>2, <1>4, <1>5 DEF Readable
<1>7. ASSUME NEW p \in PageNos
      PROVE  Overlay(o.disk, o.dw, Len(o.dw))[p] = Overlay(r.disk, r.dw, Len(r.dw))[p]
  <2>1. Overlay(r.disk, r.dw, Len(r.dw))[p] = r.disk[p]
    <3>1. \A i \in 1 .. Len(r.dw) : r.dw[i] \in CopiesOf(r.dw)
      BY AllEntriesOf
    <3>2. \A i \in 1 .. Len(r.dw) : r.dw[i].no # p
      BY <1>1, <3>1
    <3> QED
      BY <3>2 DEF Overlay
  <2>2. CASE \E c \in CopiesOf(o.dw) : c.no = p
    BY <2>1, <2>2, <1>2, OverlayIs
  <2>3. CASE \A c \in CopiesOf(o.dw) : c.no # p
    BY <2>1, <2>3, <1>2, OverlayIs
  <2> QED
    BY <2>2, <2>3
<1> QED
  BY <1>4, <1>6, <1>7, SameReopened


\* A batch is of no more pages than it has copies.
LEMMA CopiedPages ==
    ASSUME NEW w \in Seq(Copies), NEW S, \A p \in S : \E c \in CopiesOf(w) : c.no = p
    PROVE  Cardinality(S) \in Nat /\ Cardinality(S) <= Len(w)
<1> DEFINE n == Len(w)
           T == {w[i].no : i \in 1 .. n}
           f == [i \in 1 .. n |-> w[i].no]
<1>1. n \in Nat
  OBVIOUS
<1>2. IsFiniteSet(1 .. n) /\ Cardinality(1 .. n) = n
  BY <1>1, FS_Interval
<1>3. f \in Surjection(1 .. n, T)
  BY DEF Surjection
<1>4. IsFiniteSet(T) /\ Cardinality(T) <= n
  BY <1>2, <1>3, FS_Surjection
<1>5. S \subseteq T
  BY DEF CopiesOf
<1> HIDE DEF T, n
<1>6. IsFiniteSet(S) /\ Cardinality(S) <= Cardinality(T)
  BY <1>4, <1>5, FS_Subset
<1>7. Cardinality(S) \in Nat /\ Cardinality(T) \in Nat
  BY <1>4, <1>6, FS_CardinalityType
<1> QED
  BY <1>1, <1>4, <1>6, <1>7 DEF n

\* The abstract specification's step, in the words of this one.
LEMMA PutBatchIs ==
    ASSUME NEW d, NEW i, NEW e, NEW j, NEW changed,
           Reopened(Now) = [index |-> i, disk |-> d], Reopened(Now)' = [index |-> j, disk |-> e],
           changed = {p \in PageNos : e[p] # d[p]}, changed # {}, Cardinality(changed) <= BatchSize,
           e \in [PageNos -> Content], j = i \cup {Entry(e[p].ts, p) : p \in changed}
    PROVE  Files!PutBatch
<1>1. Files!Cardinality(changed) = Cardinality(changed)
  BY DEF Files!Cardinality, Cardinality
<1>2. Reopened(Now).disk = d /\ Reopened(Now).index = i
  OBVIOUS
<1>3. (Reopened(Now).disk)' = e /\ (Reopened(Now).index)' = j
  OBVIOUS
<1>4. {[ts |-> e[p].ts, no |-> p] : p \in changed} = {Entry(e[p].ts, p) : p \in changed}
  BY DEF Entry
<1> QED
  BY <1>1, <1>2, <1>3, <1>4 DEF Files!PutBatch

\* The files as they are when a batch is ready to be written.
LEMMA BatchReady ==
    ASSUME IInv, LInv, FInv, damaged = {}, sync.pc = "dw"
    PROVE  /\ sync.batch \in Seq(Copies) /\ Len(sync.batch) <= BatchSize /\ Readable(Now)
           /\ Reopened(Now) = [index |-> idxFile, disk |-> disk]
           /\ \A c \in CopiesOf(sync.batch) :
                 /\ c \in Copies
                 /\ ~c.new => Entry(c.ts, c.no) \in idxFile
                 /\ c.new => disk[c.no] # Kept(c)
<1>1. TypeOK /\ Control
  BY DEF IInv
<1>2. Exact /\ Stored /\ Filled /\ ~Writing /\ sync.at = 0
  BY <1>1 DEF FInv, LInv, Writing, Control
<1>3. /\ sync.batch \in Seq(Copies) /\ Len(sync.batch) <= BatchSize
      /\ disk \in [PageNos -> Content] /\ dw \in Seq(Copies) /\ Once(dw)
  BY <1>1, <1>2 DEF TypeOK, Syncs, Stored
<1>4. Readable(Now) /\ Now.disk = disk /\ Now.idxFile = idxFile /\ Now.dw = dw
  BY ReadableNow DEF Now, FilesOf
<1>5. \A c \in CopiesOf(dw) : Idled(c)
  BY <1>2 DEF Stored
<1>6. Reopened(Now) = [index |-> idxFile, disk |-> disk]
  <2>1. Reopened(Now) = [index |-> idxFile \cup AllEntries(dw), disk |-> Overlay(disk, dw, Len(dw))]
    BY <1>4, ReopenedUnion DEF Readable
  <2>2. idxFile \cup AllEntries(dw) = idxFile
    BY <1>5 DEF AllEntries, Idled
  <2>3. ASSUME NEW p \in PageNos
        PROVE  Overlay(disk, dw, Len(dw))[p] = disk[p]
    BY <1>3, <1>5, OverlayIs DEF Idled
  <2>4. Overlay(disk, dw, Len(dw)) = disk
    BY <1>3, <2>3 DEF Overlay
  <2> QED
    BY <2>1, <2>2, <2>4
<1>7. ASSUME NEW c \in CopiesOf(sync.batch)
      PROVE  /\ c \in Copies
             /\ ~c.new => Entry(c.ts, c.no) \in idxFile
             /\ c.new => disk[c.no] # Kept(c)
  <2>1. PICK i \in 1 .. Len(sync.batch) : c = sync.batch[i]
    BY DEF CopiesOf
  <2>2. c \in Copies /\ c.no \in PageNos
    BY <1>3, <2>1, BatchPage, <1>1
  <2>3. /\ ~c.new => Entry(c.ts, c.no) \in idxFile
        /\ c.new => c.recs # NoRecs /\ pool[c.no].onlyMem
    BY <1>2, <2>1 DEF Exact, BatchMarked
  <2>4. ASSUME c.new
        PROVE  disk[c.no] = Blank
    <3>1. \A e \in idxFile : e.no # c.no
      BY <1>2, <2>3, <2>4 DEF Filled, Written
    <3>2. \A b \in CopiesOf(dw) : b.no # c.no
      BY <1>5, <3>1 DEF Idled, Entry
    <3> QED
      BY <1>2, <2>2, <3>1, <3>2 DEF Stored
  <2> QED
    BY <2>2, <2>3, <2>4 DEF Blank, Kept
<1> QED
  BY <1>3, <1>4, <1>6, <1>7

\* The double-write file is written: the batch is put, or it has nothing new.
LEMMA WriteDwPuts ==
    ASSUME IInv, LInv, FInv, damaged = {}, WriteDw, Readable(Now)'
    PROVE  Reopened(Now)' = Reopened(Now) \/ Files!PutBatch
<1> DEFINE w == sync.batch
           D == Overlay(disk, w, Len(w))
           J == idxFile \cup AllEntries(w)
           changed == {p \in PageNos : D[p] # disk[p]}
<1>1. sync.pc = "dw" /\ dw' = sync.batch /\ UNCHANGED <<disk, idxFile>>
  BY DEF WriteDw
<1>2. /\ w \in Seq(Copies) /\ Len(w) <= BatchSize /\ Readable(Now)
      /\ Reopened(Now) = [index |-> idxFile, disk |-> disk]
      /\ \A c \in CopiesOf(w) : /\ c \in Copies
                                /\ ~c.new => Entry(c.ts, c.no) \in idxFile
                                /\ c.new => disk[c.no] # Kept(c)
  BY <1>1, BatchReady
<1>3. Now'.disk = disk /\ Now'.idxFile = idxFile /\ Now'.dw = w
  BY <1>1 DEF Now, FilesOf
<1>4. Reopened(Now)' = [index |-> J, disk |-> D]
  <2>1. Readable(Now')
    OBVIOUS
  <2>2. Reopened(Now') = [index |-> J, disk |-> D]
    BY <1>3, <2>1, ReopenedUnion DEF Readable
  <2> QED
    BY <2>2
<1>5. Once(w)
  BY <1>3 DEF Readable
<1>6. /\ \A c \in CopiesOf(w) : D[c.no] = Kept(c) /\ c.no \in PageNos
      /\ \A p \in PageNos : (\A c \in CopiesOf(w) : c.no # p) => D[p] = disk[p]
      /\ D = [p \in PageNos |-> D[p]]
  BY <1>2, <1>5, OverlayIs DEF Copies
<1>7. disk \in [PageNos -> Content]
  BY DEF IInv, TypeOK
<1> HIDE DEF D, w
<1>8. \A p \in changed : \E c \in CopiesOf(w) : c.no = p
  BY <1>6
<1>9. \A p \in changed : Entry(D[p].ts, p) \in AllEntries(w)
  <2>1. ASSUME NEW p \in changed
        PROVE  Entry(D[p].ts, p) \in AllEntries(w)
    <3>1. PICK c \in CopiesOf(w) : c.no = p
      BY <1>8
    <3>2. D[p] = Kept(c) /\ Kept(c).ts = c.ts
      BY <1>6, <3>1 DEF Kept
    <3> QED
      BY <3>1, <3>2, AllEntriesOf
  <2> QED
    BY <2>1
<1>10. \A e \in AllEntries(w) : e \in idxFile \/ (e.no \in changed /\ e = Entry(D[e.no].ts, e.no))
  <2>1. ASSUME NEW c \in CopiesOf(w)
        PROVE  Entry(c.ts, c.no) \in idxFile
               \/ (c.no \in changed /\ Entry(c.ts, c.no) = Entry(D[c.no].ts, c.no))
    <3>1. CASE ~c.new
      BY <1>2, <3>1
    <3>2. CASE c.new
      <4>1. D[c.no] = Kept(c) /\ c.no \in PageNos /\ disk[c.no] # Kept(c)
        BY <1>2, <1>6, <3>2
      <4>2. D[c.no].ts = c.ts
        BY <4>1 DEF Kept
      <4> QED
        BY <4>1, <4>2
    <3> QED
      BY <3>1, <3>2
  <2>2. ASSUME NEW e \in AllEntries(w)
        PROVE  e \in idxFile \/ (e.no \in changed /\ e = Entry(D[e.no].ts, e.no))
    <3>1. PICK c \in CopiesOf(w) : e.no = c.no /\ e = Entry(c.ts, c.no)
      BY AllEntriesOf
    <3> HIDE DEF changed
    <3> QED
      BY <2>1, <3>1
  <2> QED
    BY <2>2
<1>11. J = idxFile \cup {Entry(D[p].ts, p) : p \in changed}
  <2> HIDE DEF changed
  <2> QED
    BY <1>9, <1>10
<1>12. CASE changed = {}
  <2>1. J = idxFile
    BY <1>11, <1>12
  <2>2. D = disk
    BY <1>6, <1>7, <1>12
  <2> QED
    BY <1>2, <1>4, <2>1, <2>2
<1>13. CASE changed # {}
  <2>1. Cardinality(changed) <= BatchSize
    <3>1. Cardinality(changed) \in Nat /\ Cardinality(changed) <= Len(w)
      BY <1>2, <1>8, CopiedPages
    <3>2. BatchSize \in Nat /\ Len(w) \in Nat
      BY <1>2, NormalPartAssumption
    <3> HIDE DEF changed
    <3> QED
      BY <1>2, <3>1, <3>2
  <2>2. D \in [PageNos -> Content]
    <3>1. \A c \in CopiesOf(w) : Kept(c) \in Content
      BY <1>2 DEF Kept, Copies, Content
    <3>2. \A p \in PageNos : D[p] \in Content
      BY <1>6, <1>7, <3>1
    <3> QED
      BY <1>6, <3>2
  <2> QED
    BY <1>2, <1>4, <1>11, <1>13, <2>1, <2>2, PutBatchIs
<1> QED
  BY <1>12, <1>13

\* The other writes, and a power failure, leave what the next start would find.
LEMMA OthersKeep ==
    ASSUME IInv, LInv, FInv, damaged = {}, TypeOK', WriteData \/ WriteIdx \/ Crash \/ Redo \/ EndRedo
    PROVE  Reopened(Now)' = Reopened(Now)
<1>1. TypeOK /\ Control /\ Stored
  BY DEF IInv, FInv
<1>2. Readable(Now) /\ Now.disk = disk /\ Now.idxFile = idxFile /\ Now.dw = dw
  BY ReadableNow DEF Now, FilesOf
<1>3. Now'.disk = disk' /\ Now'.idxFile = idxFile' /\ Now'.dw = dw'
  BY DEF Now, FilesOf
<1>4. disk \in [PageNos -> Content] /\ disk' \in [PageNos -> Content]
  BY <1>1 DEF TypeOK
<1>5. SUFFICES Reopened(Now') = Reopened(Now)
  OBVIOUS
<1>6. ASSUME NEW c \in CopiesOf(dw), disk' = [disk EXCEPT ![c.no] = Kept(c)], UNCHANGED <<idxFile, dw>>
      PROVE  Reopened(Now') = Reopened(Now)
  <2>1. \A p \in PageNos : (\A b \in CopiesOf(dw) : b.no # p) => disk'[p] = disk[p]
    BY <1>4, <1>6
  <2> QED
    BY <1>2, <1>3, <1>4, <1>6, <2>1, CopiesCover
<1>7. CASE WriteData
  <2> DEFINE b == sync.batch[sync.at + 1]
  <2>1. sync.pc = "data" /\ disk' = [disk EXCEPT ![b.no] = [ts |-> b.ts, recs |-> b.recs]]
        /\ UNCHANGED <<idxFile, dw>>
    BY <1>7 DEF WriteData
  <2>2. dw = sync.batch /\ sync.at < Len(sync.batch)
    BY <1>1, <2>1 DEF Stored, Writing, Control
  <2>3. sync.at + 1 \in 1 .. Len(sync.batch)
    BY <1>1, <2>2, AtType
  <2>4. b \in CopiesOf(dw)
    BY <2>2, <2>3 DEF CopiesOf
  <2> QED
    BY <1>6, <2>1, <2>4 DEF Kept
<1>8. CASE WriteIdx
  <2>1. sync.pc = "index" /\ idxFile' = idxFile \cup NewEntries(sync.batch) /\ UNCHANGED <<disk, dw>>
    BY <1>8 DEF WriteIdx
  <2>2. dw = sync.batch
    BY <1>1, <2>1 DEF Stored, Writing
  <2>3. NewEntries(sync.batch) \subseteq AllEntries(dw)
    BY <2>2, AllEntriesOf DEF NewEntries
  <2> QED
    BY <1>2, <1>3, <1>4, <2>1, <2>3, CopiesCover
<1>9. CASE Crash
  <2>1. PICK o \in CrashOutcomes : disk' = o.disk /\ idxFile' = o.idxFile /\ dw' = o.dw
    BY <1>9 DEF Crash
  <2>2. Survives(o)
    BY OutcomeSurvives
  <2>3. CASE o.dw = dw
    <3>1. idxFile \subseteq idxFile' /\ idxFile' \subseteq idxFile \cup AllEntries(dw)
      BY <2>1, <2>2 DEF Survives
    <3>2. \A p \in PageNos : (\A b \in CopiesOf(dw) : b.no # p) => disk'[p] = disk[p]
      BY <2>1, <2>2 DEF Survives
    <3> QED
      BY <1>2, <1>3, <1>4, <2>1, <2>3, <3>1, <3>2, CopiesCover
  <2>4. CASE o.dw # dw
    <3>1. dw' = <<>> /\ disk' = disk /\ idxFile' = idxFile /\ \A c \in CopiesOf(dw) : Idled(c)
      BY <2>1, <2>2, <2>4 DEF Survives
    <3>2. idxFile' = idxFile \cup AllEntries(dw) /\ \A c \in CopiesOf(dw) : disk'[c.no] = Kept(c)
      BY <3>1 DEF AllEntries, Idled
    <3> QED
      BY <1>2, <1>3, <1>4, <3>1, <3>2, CopiesDone
  <2> QED
    BY <2>3, <2>4
<1>10. CASE Redo
  <2> DEFINE b == sync.batch[sync.at + 1]
  <2>1. Redone
    BY <1>10 DEF Redo, LInv
  <2>2. b \in CopiesOf(dw) /\ disk' = [disk EXCEPT ![b.no] = Kept(b)] /\ UNCHANGED <<idxFile, dw>>
    BY <1>10, <2>1, RedoWrites
  <2> HIDE DEF b
  <2> QED
    BY <1>6, <2>2
<1>11. CASE EndRedo
  <2>1. sync.pc = "redo" /\ idxFile' = index /\ dw' = <<>> /\ disk' = disk
    BY <1>11 DEF EndRedo
  <2>2. RedoneExact /\ idxFile \subseteq index
    BY <2>1 DEF FInv, LInv, Redone
  <2>3. \A c \in CopiesOf(dw) : disk[c.no] = Kept(c) /\ Entry(c.ts, c.no) \in index
    BY <1>1, <1>11, <2>2, RedoAtEnd
  <2>4. index = idxFile \cup AllEntries(dw)
    BY <2>2, <2>3 DEF RedoneExact, AllEntries
  <2> QED
    BY <1>2, <1>3, <1>4, <2>1, <2>3, <2>4, CopiesDone
<1> QED
  BY <1>7, <1>8, <1>9, <1>10, <1>11

LEMMA StepPuts ==
    ASSUME IInv, LInv, FInv, [Next]_vars, fails' = 0
    PROVE  Reopened(Now)' = Reopened(Now) \/ Files!PutBatch
<1>1. CASE UNCHANGED <<disk, idxFile, dw>>
  <2>1. Now' = Now
    BY <1>1 DEF Now, FilesOf
  <2> QED
    BY <2>1
<1>2. CASE WriteDw \/ WriteData \/ WriteIdx \/ Crash \/ Redo \/ EndRedo
  <2>1. CASE UNCHANGED vars
    BY <2>1, <1>1 DEF vars, diskVars
  <2>2. CASE Next
    <3>1. damaged = {} /\ TypeOK'
      BY <2>2, NextInv DEF Next, IInv
    <3>2. CASE WriteDw
      <4>1. damaged' = {}
        BY <3>1, <3>2 DEF WriteDw, SyncStep
      <4>2. IInv' /\ LInv' /\ FInv'
        BY <2>2, NextInv, NextFilled, NextExact
      <4>3. (IInv /\ LInv /\ FInv /\ damaged = {} => Readable(Now))'
        BY ReadableNow, PTL
      <4> QED
        BY <3>1, <3>2, <4>1, <4>2, <4>3, WriteDwPuts
    <3>3. CASE WriteData \/ WriteIdx \/ Crash \/ Redo \/ EndRedo
      BY <3>1, <3>3, OthersKeep
    <3> QED
      BY <1>2, <3>2, <3>3
  <2> QED
    BY <2>1, <2>2
<1>3. CASE UNCHANGED vars
  BY <1>1, <1>3 DEF vars, diskVars
<1>4. CASE Next /\ ~(WriteDw \/ WriteData \/ WriteIdx \/ Crash \/ Redo \/ EndRedo)
  <2>1. ~WriteFails /\ ~WriteIdxFails
    BY NoFailure DEF IInv
  <2>2. ASSUME NEW k \in Keys, InsertRec(k)
        PROVE  UNCHANGED <<disk, idxFile, dw>>
    BY <2>2 DEF InsertRec, InsertFirst, InsertInPage, InsertAfter, InsertSplit, Accept, diskVars
  <2>3. ASSUME NEW p \in PageNos, Evict(p) \/ CopyPage(p)
        PROVE  UNCHANGED <<disk, idxFile, dw>>
    BY <2>3 DEF Evict, CopyPage, diskVars
  <2>4. ASSUME NEW all \in BOOLEAN, Mark(all)
        PROVE  UNCHANGED <<disk, idxFile, dw>>
    BY <2>4 DEF Mark, diskVars
  <2>5. CASE TakeSplit \/ TakeRest
    BY <1>1, <2>5 DEF TakeSplit, TakeRest, diskVars
  <2> QED
    BY <1>1, <1>4, <2>1, <2>2, <2>3, <2>4, <2>5 DEF Next
<1> QED
  BY <1>2, <1>3, <1>4

\* While no write fails, the files read as the next start would read them change by
\* whole batches of pages with their entries, and in no other way: a power failure,
\* a torn page and a RecoverDW that is itself cut off change nothing in them.  (The
\* copy of a page that a failing write has torn is lost with the next batch.)
THEOREM BatchesAtomic == Spec /\ [](fails = 0) => AtomicBatches
<1>1. Init => IInv /\ LInv /\ FInv
  BY InitInv, InitFilled, InitExact
<1>2. IInv /\ LInv /\ FInv /\ [Next]_vars /\ (fails = 0)' => IInv' /\ LInv' /\ FInv'
  BY NextInv, NextFilled, NextExact
<1>3. Init => Files!Init
  <2> SUFFICES ASSUME Init PROVE Files!Init
    OBVIOUS
  <2>1. idxFile = {} /\ dw = <<>> /\ damaged = {} /\ disk = [p \in PageNos |-> Blank]
    BY DEF Init
  <2>2. Readable(Now)
    BY <1>1, <2>1, ReadableNow
  <2>3. Reopened(Now) = [index |-> idxFile \cup AllEntries(dw), disk |-> Overlay(disk, dw, Len(dw))]
    <3>1. Now.disk = disk /\ Now.idxFile = idxFile /\ Now.dw = dw
      BY DEF Now, FilesOf
    <3> QED
      BY <2>2, <3>1, ReopenedUnion DEF Readable
  <2>4. AllEntries(dw) = {} /\ Overlay(disk, dw, Len(dw)) = disk
    BY <2>1, AllEntriesOf, IdleType DEF Overlay
  <2> QED
    BY <2>1, <2>3, <2>4 DEF Files!Init
<1>4. IInv /\ LInv /\ FInv /\ [Next]_vars /\ (fails = 0)'
      => [Files!PutBatch]_<<Reopened(Now).disk, Reopened(Now).index>>
  BY StepPuts
<1> QED
  BY <1>1, <1>2, <1>3, <1>4, PTL DEF Spec, AtomicBatches, Files!Spec

-----------------------------------------------------------------------------
(* What a full sync has written stays, although writes may fail.            *)

\* The double-write file is the batch while the pages are written; before and after
\* it has nothing that the data file does not have, but of pages that a failing write
\* has left behind.
Placed ==
    /\ Once(dw)
    /\ Writing => dw = sync.batch
    /\ \A i \in 1 .. sync.at : disk[sync.batch[i].no] = Kept(sync.batch[i])
    /\ ~Writing => \A c \in CopiesOf(dw) :
                      disk[c.no] = Kept(c) \/ (c.no \in dropped /\ IsDirty(pool[c.no]))

\* A page that was written has its entry in the index file, or is one of the batch
\* that gets it next, or one that a failing write has left behind.
EntryKept ==
    \A e \in index : \/ pool[e.no].onlyMem \/ e.no \in dropped \/ e \in idxFile
                     \/ \E i \in 1 .. sync.at : /\ sync.batch[i].new
                                                /\ e = Entry(sync.batch[i].ts, sync.batch[i].no)
NewMarked == \A i \in Left : pool[sync.batch[i].no].onlyMem => sync.batch[i].new
DirtyKnown == \A p \in PageNos : IsDirty(pool[p]) => HasEntry(p)

\* The second pass takes every page that is due.
DueTaken == sync.pass = 2 /\ sync.pc # "rest" => Due = {}

\* Of a timestamp the data file has, in the page that covers it, what the last full sync has
\* written, and what the running one has to write unless the page is due.  A page in
\* memory only, and one that a failing write has left behind, owe nothing.
Reached == \A k \in Keys : safe[k] <= latest[k] /\ marked[k] <= latest[k]
ValueKept ==
    \A e \in index : \A k \in Keys : e \in Covering(index, k) /\ e.no \notin dropped =>
        /\ ~pool[e.no].onlyMem =>
              /\ safe[k] <= disk[e.no].recs[k]
              /\ marked[k] <= disk[e.no].recs[k] \/ pool[e.no].due
        /\ \A c \in CopiesOf(sync.batch) : c.no = e.no =>
              safe[k] <= c.recs[k] /\ marked[k] <= c.recs[k]

Flushed == EntryKept /\ NewMarked /\ DueTaken /\ Reached /\ ValueKept

\* While RecoverDW runs: what it will end with has it.
RedoKept ==
    /\ \A k \in Keys : safe[k] <= Recovered(Now, k)
    /\ marked = NoRecs
    /\ index \subseteq idxFile \cup CopyEntries(idxFile, dw)
    /\ \A i \in 1 .. sync.at : sync.batch[i].ts # 0 \/ ~Zero(idxFile) =>
                                  Entry(sync.batch[i].ts, sync.batch[i].no) \in index

GInv == damaged = {} => /\ Placed /\ DirtyKnown
                        /\ sync.pc = "redo" => RedoKept
                        /\ sync.pc # "redo" => Flushed

-----------------------------------------------------------------------------
(* What the next start makes of files that writes have failed on.           *)

Legible(o) ==
    /\ o.disk \in [PageNos -> Content] /\ o.idxFile \subseteq Entries /\ o.dw \in Seq(Copies)
    /\ Once(o.dw) /\ Distinct(o.idxFile \cup CopyEntries(o.idxFile, o.dw))

LEMMA ReopenedAll ==
    ASSUME NEW o, Legible(o)
    PROVE  Reopened(o) = [index |-> o.idxFile \cup CopyEntries(o.idxFile, o.dw),
                          disk |-> Overlay(o.disk, o.dw, Len(o.dw))]
<1>1. WithEntries(o.idxFile, o.dw, Len(o.dw)) = o.idxFile \cup CopyEntries(o.idxFile, o.dw)
  BY DEF WithEntries, CopyEntries, CopiesOf
<1> QED
  BY <1>1, ReopenedIs DEF Legible

\* The parts of it that the properties use.
LEMMA ReopenedParts ==
    ASSUME NEW o, Legible(o)
    PROVE  /\ Reopened(o).index = o.idxFile \cup CopyEntries(o.idxFile, o.dw)
           /\ Reopened(o).index \subseteq Entries
           /\ Reopened(o).disk \in [PageNos -> Content]
           /\ \A c \in CopiesOf(o.dw) : Reopened(o).disk[c.no] = Kept(c)
           /\ \A p \in PageNos : (\A c \in CopiesOf(o.dw) : c.no # p) => Reopened(o).disk[p] = o.disk[p]
<1> DEFINE D == Overlay(o.disk, o.dw, Len(o.dw))
<1>1. Reopened(o).index = o.idxFile \cup CopyEntries(o.idxFile, o.dw) /\ Reopened(o).disk = D
  BY ReopenedAll
<1>2. o.disk \in [PageNos -> Content] /\ o.idxFile \subseteq Entries /\ o.dw \in Seq(Copies) /\ Once(o.dw)
  BY DEF Legible
<1>3. \A c \in CopiesOf(o.dw) : c \in Copies
  BY <1>2 DEF CopiesOf
<1>4. CopyEntries(o.idxFile, o.dw) \subseteq Entries
  BY <1>3 DEF CopyEntries, Entry, Entries, Copies
<1>5. /\ \A c \in CopiesOf(o.dw) : D[c.no] = Kept(c)
      /\ \A p \in PageNos : (\A c \in CopiesOf(o.dw) : c.no # p) => D[p] = o.disk[p]
      /\ D = [p \in PageNos |-> D[p]]
  BY <1>2, OverlayIs
<1> HIDE DEF D
<1>6. \A c \in CopiesOf(o.dw) : Kept(c) \in Content
  BY <1>3 DEF Kept, Copies, Content
<1>7. \A p \in PageNos : D[p] \in Content
  BY <1>2, <1>5, <1>6
<1>8. D \in [PageNos -> Content]
  BY <1>5, <1>7
<1> QED
  BY <1>1, <1>2, <1>4, <1>5, <1>8

LEMMA OutcomeFiles ==
    ASSUME TypeOK, Control, Placed, NEW o \in CrashOutcomes
    PROVE  \/ /\ o.dw = dw
              /\ \A p \in PageNos : o.disk[p] = disk[p] \/ \E c \in CopiesOf(dw) : c.no = p
           \/ o.dw = <<>> /\ o.disk = disk /\ o.idxFile = idxFile /\ ~Writing
<1>1. CASE o = Now
  BY <1>1 DEF Now, FilesOf
<1>2. CASE sync.pc = "dw" /\ o = FilesOf(disk, idxFile, <<>>)
  BY <1>2 DEF FilesOf, Writing
<1>3. CASE /\ sync.pc \in {"data", "redo"} /\ sync.at < Len(sync.batch)
           /\ o = Torn(sync.batch[sync.at + 1].no)
  <2> DEFINE b == sync.batch[sync.at + 1]
  <2>1. b \in CopiesOf(dw)
    <3>1. sync.at + 1 \in 1 .. Len(sync.batch)
      BY <1>3, AtType
    <3>2. dw = sync.batch
      BY <1>3 DEF Placed, Writing
    <3> QED
      BY <3>1, <3>2 DEF CopiesOf
  <2> HIDE DEF b
  <2>2. disk \in [PageNos -> Content]
    BY DEF TypeOK
  <2>3. o.dw = dw /\ o.disk = [disk EXCEPT ![b.no] = Blank]
    BY <1>3 DEF Torn, FilesOf, b
  <2>4. \A p \in PageNos : o.disk[p] = disk[p] \/ p = b.no
    BY <2>2, <2>3
  <2> QED
    BY <2>1, <2>3, <2>4
<1>4. ASSUME NEW es, o = Indexed(es)
      PROVE  o.dw = dw /\ o.disk = disk
  BY <1>4 DEF Indexed, FilesOf
<1>5. CASE sync.pc = "index" /\ \E n \in 1 .. Len(sync.batch) : o = Indexed(NewEntries(SubSeq(sync.batch, 1, n)))
  BY <1>4, <1>5
<1>6. CASE sync.pc = "redo" /\ \E n \in 1 .. Len(sync.batch) :
                o = Indexed({e \in index : \E i \in 1 .. n : e.no = sync.batch[i].no})
  BY <1>4, <1>6
<1> QED
  BY <1>1, <1>2, <1>3, <1>5, <1>6 DEF CrashOutcomes

LEMMA OutcomeLegible ==
    ASSUME IInv, LInv, Placed, damaged = {}, NEW o \in CrashOutcomes
    PROVE  Legible(o)
<1>1. TypeOK /\ Control
  BY DEF IInv
<1>2. o.disk \in [PageNos -> Content] /\ o.idxFile \subseteq Entries /\ o.dw \in Seq(Copies)
  BY <1>1, OutcomeType
<1>3. Once(o.dw)
  <2>1. o.dw = dw \/ o.dw = <<>>
    BY <1>1, OutcomeFiles
  <2> QED
    BY <2>1, IdleType DEF Placed, Once
<1>4. /\ idxFile \subseteq o.idxFile /\ o.idxFile \subseteq index
      /\ CopiesOf(o.dw) \subseteq CopiesOf(dw)
  BY OutcomeKnown
<1> QED
  BY <1>2, <1>3, <1>4, BigIndex DEF Legible

\* Pages of which the double-write file has a copy are written, and entries are added
\* that the next start adds.
LEMMA RedoCovers ==
    ASSUME NEW o, NEW r, Legible(o), r.disk \in [PageNos -> Content], r.dw = o.dw,
           o.idxFile \subseteq r.idxFile, r.idxFile \subseteq o.idxFile \cup CopyEntries(o.idxFile, o.dw),
           \A p \in PageNos : r.disk[p] = o.disk[p] \/ \E c \in CopiesOf(o.dw) : c.no = p
    PROVE  Reopened(r) = Reopened(o)
<1> DEFINE All == o.idxFile \cup CopyEntries(o.idxFile, o.dw)
           Sum == r.idxFile \cup CopyEntries(r.idxFile, r.dw)
<1>1. /\ o.idxFile \subseteq Entries /\ o.dw \in Seq(Copies) /\ Once(o.dw) /\ Distinct(All)
  BY DEF Legible
<1>2. Zero(o.idxFile) => Zero(r.idxFile)
  BY DEF Zero
<1>3. Sum \subseteq All
  BY <1>2 DEF CopyEntries
<1>4. All \subseteq Sum
  <2>1. ASSUME NEW c \in CopiesOf(o.dw), c.ts # 0 \/ ~Zero(o.idxFile)
        PROVE  Entry(c.ts, c.no) \in Sum
    <3>1. CASE c.ts # 0 \/ ~Zero(r.idxFile)
      BY <3>1 DEF CopyEntries
    <3>2. CASE c.ts = 0 /\ Zero(r.idxFile)
      <4>1. PICK f \in r.idxFile : f.ts = 0
        BY <3>2 DEF Zero
      <4>2. Entry(c.ts, c.no) \in All /\ f \in All
        BY <2>1, <4>1 DEF CopyEntries
      <4>3. Entry(c.ts, c.no).ts = 0
        BY <3>2 DEF Entry
      <4> HIDE DEF All
      <4>4. Entry(c.ts, c.no) = f
        BY <1>1, <4>1, <4>2, <4>3 DEF Distinct
      <4> QED
        BY <4>1, <4>4
    <3> QED
      BY <3>1, <3>2
  <2> HIDE DEF Sum
  <2>2. CopyEntries(o.idxFile, o.dw) \subseteq Sum
    BY <2>1 DEF CopyEntries
  <2>3. o.idxFile \subseteq Sum
    BY DEF Sum
  <2> QED
    BY <2>2, <2>3
<1>5. Sum = All
  BY <1>3, <1>4
<1> HIDE DEF Sum, All
<1>6. CopyEntries(o.idxFile, o.dw) \subseteq Entries
  <2>1. \A c \in CopiesOf(o.dw) : c \in Copies
    BY <1>1 DEF CopiesOf
  <2> QED
    BY <2>1 DEF CopyEntries, Entry, Entries, Copies
<1>7. Legible(r)
  BY <1>1, <1>5, <1>6 DEF Legible, Sum
<1>8. ASSUME NEW p \in PageNos
      PROVE  Overlay(o.disk, o.dw, Len(o.dw))[p] = Overlay(r.disk, r.dw, Len(r.dw))[p]
  <2>1. CASE \E c \in CopiesOf(o.dw) : c.no = p
    BY <2>1, <1>1, OverlayIs
  <2>2. CASE \A c \in CopiesOf(o.dw) : c.no # p
    BY <2>2, <1>1, OverlayIs
  <2> QED
    BY <2>1, <2>2
<1>9. Overlay(o.disk, o.dw, Len(o.dw)) = Overlay(r.disk, r.dw, Len(r.dw))
  BY <1>8 DEF Overlay
<1>10. /\ Reopened(o) = [index |-> All, disk |-> Overlay(o.disk, o.dw, Len(o.dw))]
       /\ Reopened(r) = [index |-> Sum, disk |-> Overlay(r.disk, r.dw, Len(r.dw))]
  BY <1>7, ReopenedAll DEF All, Sum
<1> QED
  BY <1>5, <1>9, <1>10

\* An entry covers in a part of the index what it covers in the whole.
LEMMA CoverInPart ==
    ASSUME NEW idx \in SUBSET Entries, Zero(idx), Distinct(idx), NEW part \in SUBSET idx, NEW e \in part,
           NEW k \in Keys, e \in Covering(idx, k)
    PROVE  Covering(part, k) = {e}
<1>1. k \in Nat /\ \A f \in idx : f.ts \in Nat
  BY EntryType
<1>2. e.ts <= k /\ \A f \in idx : f.ts <= k => f.ts <= e.ts
  BY CoverZero
<1>3. e \in Covering(part, k)
  BY <1>2 DEF Covering, Covers
<1>4. ASSUME NEW f \in Covering(part, k)
      PROVE  f = e
  <2>1. f \in part /\ f \in idx
    BY <1>4 DEF Covering
  <2>2. ~ (k < e.ts)
    BY <1>1, <1>2
  <2>3. f.ts <= k /\ e.ts <= f.ts
    BY <1>2, <1>4, <2>2 DEF Covering, Covers
  <2>4. f.ts <= e.ts
    BY <1>2, <2>1, <2>3
  <2>5. f.ts = e.ts
    BY <1>1, <2>1, <2>3, <2>4
  <2> QED
    BY <2>1, <2>5 DEF Distinct
<1> QED
  BY <1>3, <1>4

\* What the next start reads while the part is open: of a clean page what memory has,
\* of a page that was not left behind what the full syncs have written.
LEMMA ReadBack ==
    ASSUME IInv, LInv, Placed, Flushed, damaged = {}, sync.pc # "redo", NEW o \in CrashOutcomes
    PROVE  /\ Reopened(o).index \subseteq index
           /\ \A e \in index : ~pool[e.no].onlyMem /\ e.no \notin dropped => e \in Reopened(o).index
           /\ \A p \in PageNos : ~IsDirty(pool[p]) => Reopened(o).disk[p].recs = Page(p).recs
           /\ \A e \in index : \A k \in Keys :
                 e \in Covering(index, k) /\ e.no \notin dropped /\ ~pool[e.no].onlyMem =>
                    safe[k] <= Reopened(o).disk[e.no].recs[k]
<1> DEFINE R == Reopened(o)
<1>1. TypeOK /\ Control /\ Filled /\ IndexOK /\ \A e \in index : e.no \in PageNos
  BY EntryType DEF IInv, LInv, Filled, TypeOK
<1>2. Legible(o)
  BY OutcomeLegible
<1>3. /\ R.index = o.idxFile \cup CopyEntries(o.idxFile, o.dw)
      /\ \A c \in CopiesOf(o.dw) : R.disk[c.no] = Kept(c)
      /\ \A p \in PageNos : (\A c \in CopiesOf(o.dw) : c.no # p) => R.disk[p] = o.disk[p]
  BY <1>2, ReopenedParts
<1> HIDE DEF R
<1>4. \/ /\ o.dw = dw
         /\ \A p \in PageNos : o.disk[p] = disk[p] \/ \E c \in CopiesOf(dw) : c.no = p
      \/ o.dw = <<>> /\ o.disk = disk /\ o.idxFile = idxFile /\ ~Writing
  BY <1>1, OutcomeFiles
<1>5. idxFile \subseteq o.idxFile /\ o.idxFile \subseteq index /\ CopiesOf(o.dw) \subseteq CopiesOf(dw)
  BY OutcomeKnown
<1>6. \A p \in PageNos : \/ R.disk[p] = disk[p]
                         \/ \E c \in CopiesOf(dw) : c.no = p /\ R.disk[p] = Kept(c)
  BY <1>3, <1>4, <1>5, NoCopies
<1>7. Writing => o.dw = dw /\ dw = sync.batch
  BY <1>4 DEF Placed
<1>8. R.index \subseteq index
  <2>1. ASSUME NEW c \in CopiesOf(o.dw), c.ts # 0 \/ ~Zero(o.idxFile)
        PROVE  Entry(c.ts, c.no) \in index
    <3>1. KnownCopy(c)
      BY <1>1, <1>5 DEF Filled, CopiesKnown
    <3>2. Zero(idxFile) => Zero(o.idxFile)
      BY <1>5 DEF Zero
    <3> QED
      BY <2>1, <3>1, <3>2 DEF KnownCopy
  <2> QED
    BY <1>3, <1>5, <2>1 DEF CopyEntries
<1>9. ASSUME NEW e \in index, ~pool[e.no].onlyMem, e.no \notin dropped
      PROVE  e \in R.index
  <2>1. CASE e \in idxFile
    BY <2>1, <1>3, <1>5
  <2>2. CASE \E i \in 1 .. sync.at : sync.batch[i].new /\ e = Entry(sync.batch[i].ts, sync.batch[i].no)
    <3>1. PICK i \in 1 .. sync.at : e = Entry(sync.batch[i].ts, sync.batch[i].no)
      BY <2>2
    <3>2. i \in 1 .. Len(sync.batch) /\ Len(sync.batch) \in Nat /\ sync.at \in Nat /\ sync.at # 0
      BY <1>1, <3>1, AtType DEF TypeOK
    <3>3. Writing
      BY <1>1, <3>2 DEF Control, Writing, TypeOK, Syncs
    <3>4. sync.batch[i] \in CopiesOf(o.dw)
      BY <1>7, <3>2, <3>3 DEF CopiesOf
    <3>5. CASE sync.batch[i].ts # 0 \/ ~Zero(o.idxFile)
      BY <1>3, <3>1, <3>4, <3>5 DEF CopyEntries
    <3>6. CASE sync.batch[i].ts = 0 /\ Zero(o.idxFile)
      <4>1. PICK f \in o.idxFile : f.ts = 0
        BY <3>6 DEF Zero
      <4>2. e.ts = 0
        BY <3>1, <3>6 DEF Entry
      <4>3. e = f
        BY <1>1, <1>5, <1>9, <4>1, <4>2 DEF IndexOK, Distinct
      <4> QED
        BY <1>3, <4>1, <4>3
    <3> QED
      BY <3>5, <3>6
  <2> QED
    BY <1>9, <2>1, <2>2 DEF Flushed, EntryKept
<1>10. ASSUME NEW p \in PageNos, ~IsDirty(pool[p])
       PROVE  R.disk[p].recs = Page(p).recs
  <2>1. disk[p].recs = Page(p).recs
    BY <1>1, <1>10, PageType DEF IInv, CleanIsOnDisk
  <2>2. ASSUME NEW c \in CopiesOf(dw), c.no = p
        PROVE  disk[p] = Kept(c)
    <3>1. CASE ~Writing
      BY <1>10, <2>2, <3>1 DEF Placed
    <3>2. CASE Writing
      <4>1. PICK i \in 1 .. Len(sync.batch) : c = sync.batch[i]
        BY <1>7, <2>2, <3>2 DEF CopiesOf
      <4>2. CASE i \in Left
        <5>1. p \in InHand
          BY <1>1, <2>2, <4>1, <4>2, InHandType
        <5> QED
          BY <1>10, <5>1 DEF IInv, Owned, IsDirty
      <4>3. CASE i \notin Left
        <5>1. i \in 1 .. sync.at
          BY <1>1, <4>1, <4>3, AtType DEF Left, TypeOK
        <5> QED
          BY <2>2, <4>1, <5>1 DEF Placed
      <4> QED
        BY <4>2, <4>3
    <3> QED
      BY <3>1, <3>2
  <2> QED
    BY <1>6, <2>1, <2>2
<1>11. ASSUME NEW e \in index, NEW k \in Keys, e \in Covering(index, k), e.no \notin dropped, ~pool[e.no].onlyMem
       PROVE  safe[k] <= R.disk[e.no].recs[k]
  <2>1. /\ safe[k] <= disk[e.no].recs[k]
        /\ \A c \in CopiesOf(sync.batch) : c.no = e.no => safe[k] <= c.recs[k]
    BY <1>11 DEF Flushed, ValueKept
  <2>2. CASE R.disk[e.no] = disk[e.no]
    BY <2>1, <2>2
  <2>3. CASE \E c \in CopiesOf(dw) : c.no = e.no /\ R.disk[e.no] = Kept(c)
    <3>1. PICK c \in CopiesOf(dw) : c.no = e.no /\ R.disk[e.no] = Kept(c)
      BY <2>3
    <3>2. R.disk[e.no].recs = c.recs
      BY <3>1 DEF Kept
    <3>3. CASE Writing
      BY <1>7, <2>1, <3>1, <3>2, <3>3
    <3>4. CASE ~Writing
      <4>1. disk[e.no] = R.disk[e.no]
        BY <1>11, <3>1, <3>4 DEF Placed
      <4> QED
        BY <2>1, <4>1
    <3> QED
      BY <3>3, <3>4
  <2> QED
    BY <1>1, <1>6, <2>2, <2>3
<1> QED
  BY <1>8, <1>9, <1>10, <1>11 DEF R

\* In a restart every next one ends with the same.
LEMMA RedoOutcomes ==
    ASSUME IInv, LInv, Placed, RedoKept, damaged = {}, sync.pc = "redo", NEW o \in CrashOutcomes
    PROVE  Reopened(o) = Reopened(Now) /\ Legible(Now)
<1>1. TypeOK /\ Control
  BY DEF IInv
<1>2. Now \in CrashOutcomes
  BY DEF CrashOutcomes
<1>3. Legible(Now) /\ Legible(o)
  BY <1>2, OutcomeLegible
<1>4. Now.disk = disk /\ Now.idxFile = idxFile /\ Now.dw = dw
  BY DEF Now, FilesOf
<1>5. /\ o.dw = dw
      /\ \A p \in PageNos : o.disk[p] = disk[p] \/ \E c \in CopiesOf(dw) : c.no = p
  BY <1>1, OutcomeFiles DEF Writing
<1>6. idxFile \subseteq o.idxFile /\ o.idxFile \subseteq index
  BY OutcomeKnown
<1>7. o.idxFile \subseteq idxFile \cup CopyEntries(idxFile, dw)
  BY <1>6 DEF RedoKept
<1>8. o.disk \in [PageNos -> Content]
  BY <1>3 DEF Legible
<1> QED
  BY <1>3, <1>4, <1>5, <1>6, <1>7, <1>8, RedoCovers

LEMMA FlushedRead ==
    ASSUME IInv, LInv, GInv
    PROVE  FlushedStays
<1> SUFFICES ASSUME damaged = {}, NEW o \in CrashOutcomes
             PROVE  /\ \A k \in Keys : safe[k] # 0 => Recovered(o, k) >= safe[k] \/ InTransit(k)
                    /\ sync.pc # "redo" =>
                         \A s \in Strays(Reopened(o).index, Reopened(o).disk) :
                             IsDirty(Page(s[1])) /\ s[2] \notin Held(Page(s[1]))
  BY DEF FlushedStays
<1> DEFINE R == Reopened(o)
<1>1. TypeOK /\ Placed
  BY DEF IInv, GInv
<1>2. \A k \in Keys : safe[k] \in Nat /\ latest[k] \in Nat
  <2>1. \A k \in Keys : safe[k] \in 0 .. MaxVer /\ latest[k] \in 0 .. MaxVer
    BY <1>1 DEF TypeOK
  <2> QED
    BY <2>1, NormalPartAssumption
<1>3. Legible(o) /\ R.index \subseteq Entries /\ R.disk \in [PageNos -> Content]
  BY <1>1, OutcomeLegible, ReopenedParts
<1> HIDE DEF R
<1>4. \A p \in PageNos : \A k \in Keys : R.disk[p].recs[k] \in Nat
  <2>1. \A p \in PageNos : \A k \in Keys : R.disk[p].recs[k] \in 0 .. MaxVer
    BY <1>3 DEF Content
  <2> QED
    BY <2>1, NormalPartAssumption
<1>5. CASE sync.pc = "redo"
  <2>1. RedoKept
    BY <1>5 DEF GInv
  <2>2. Reopened(o) = Reopened(Now)
    BY <1>1, <1>5, <2>1, RedoOutcomes
  <2>3. \A k \in Keys : Recovered(o, k) = Recovered(Now, k)
    BY <2>2 DEF Recovered
  <2>4. \A k \in Keys : safe[k] <= Recovered(o, k)
    BY <2>1, <2>3 DEF RedoKept
  <2> QED
    BY <1>5, <2>4
<1>6. CASE sync.pc # "redo"
  <2>1. Filled /\ Flushed /\ index \in SUBSET Entries /\ \A e \in index : e.no \in PageNos
    BY <1>1, <1>6, EntryType DEF LInv, GInv, TypeOK
  <2>2. /\ R.index \subseteq index
        /\ \A e \in index : ~pool[e.no].onlyMem /\ e.no \notin dropped => e \in R.index
        /\ \A p \in PageNos : ~IsDirty(pool[p]) => R.disk[p].recs = Page(p).recs
        /\ \A e \in index : \A k \in Keys :
              e \in Covering(index, k) /\ e.no \notin dropped /\ ~pool[e.no].onlyMem =>
                 safe[k] <= R.disk[e.no].recs[k]
    BY <1>1, <1>6, <2>1, ReadBack DEF R
  <2>3. ASSUME NEW k \in Keys, safe[k] # 0, ~InTransit(k)
        PROVE  safe[k] <= Recovered(o, k)
    <3>1. index # {}
      <4>1. safe[k] <= latest[k]
        BY <2>1 DEF Flushed, Reached
      <4> QED
        BY <1>2, <2>1, <2>3, <4>1 DEF Filled, Right, NoRecs
    <3>2. Zero(index) /\ Distinct(index)
      BY <2>1, <3>1 DEF Filled, IndexOK
    <3>3. PICK e \in Covering(index, k) : TRUE
      BY <2>1, <3>2, CoverSome
    <3>4. e \in index /\ e.no \in PageNos
      BY <2>1, <3>3 DEF Covering
    <3>5. ~Page(e.no).onlyMem /\ e.no \notin dropped
      BY <2>3, <3>3 DEF InTransit
    <3>6. ~pool[e.no].onlyMem
      BY <2>1, <3>4, <3>5, PageOnlyMem
    <3>7. Covering(R.index, k) = {e}
      BY <2>1, <2>2, <3>2, <3>3, <3>4, <3>5, <3>6, CoverInPart
    <3>8. Recovered(o, k) = R.disk[e.no].recs[k]
      <4>1. Recovered(o, k) = Find(R.index, R.disk, k)
        BY DEF Recovered, R
      <4> QED
        BY <3>7, <4>1 DEF Find
    <3> QED
      BY <2>2, <3>3, <3>4, <3>5, <3>6, <3>8
  <2>4. ASSUME NEW e \in R.index, NEW k \in Held(R.disk[e.no]), e \notin Covering(R.index, k)
        PROVE  IsDirty(Page(e.no)) /\ k \notin Held(Page(e.no))
    <3>1. k \in Keys /\ e \in index /\ e.no \in PageNos /\ R.disk[e.no].recs[k] # 0
      BY <2>1, <2>2, <2>4 DEF Held
    <3>2. Zero(index) /\ Distinct(index)
      BY <2>1, <3>1 DEF Filled, IndexOK
    <3>3. e \notin Covering(index, k)
      BY <2>1, <2>2, <2>4, <3>1, <3>2, CoverInPart
    <3>4. Page(e.no).recs[k] = 0
      BY <2>1, <3>1, <3>3 DEF Filled, Right
    <3>5. IsDirty(pool[e.no])
      BY <2>2, <3>1, <3>4
    <3>6. IsDirty(Page(e.no))
      BY <3>1, <3>5 DEF IInv, Owned, Page
    <3> QED
      BY <3>4, <3>6 DEF Held
  <2>5. \A s \in Strays(R.index, R.disk) : IsDirty(Page(s[1])) /\ s[2] \notin Held(Page(s[1]))
    <3> SUFFICES ASSUME NEW s \in Strays(R.index, R.disk)
                 PROVE  IsDirty(Page(s[1])) /\ s[2] \notin Held(Page(s[1]))
      OBVIOUS
    <3>1. PICK e \in R.index : s \in {<<e.no, k>> : k \in {j \in Held(R.disk[e.no]) : e \notin Covering(R.index, j)}}
      BY DEF Strays
    <3>2. PICK k \in Held(R.disk[e.no]) : e \notin Covering(R.index, k) /\ s = <<e.no, k>>
      BY <3>1
    <3> QED
      BY <2>4, <3>2
  <2>6. ASSUME NEW k \in Keys, safe[k] # 0
        PROVE  Recovered(o, k) >= safe[k] \/ InTransit(k)
    <3>1. Recovered(o, k) \in Nat
      <4>1. CASE Covering(R.index, k) = {}
        BY <4>1 DEF Recovered, Find, R
      <4>2. CASE Covering(R.index, k) # {}
        <5> DEFINE e == CHOOSE e \in Covering(R.index, k) : TRUE
        <5>1. e \in R.index
          BY <4>2 DEF Covering
        <5>2. Recovered(o, k) = R.disk[e.no].recs[k]
          BY <4>2 DEF Recovered, Find, R
        <5> HIDE DEF e
        <5>3. e.no \in PageNos
          BY <1>3, <5>1, EntryType
        <5> QED
          BY <1>4, <5>2, <5>3
      <4> QED
        BY <4>1, <4>2
    <3> QED
      BY <1>2, <2>3, <2>6, <3>1
  <2> QED
    BY <2>5, <2>6 DEF R
<1> QED
  BY <1>5, <1>6

-----------------------------------------------------------------------------
(* The steps.                                                               *)

\* An insert makes no page due and none clean, and what it makes dirty has an entry.
LEMMA InsertMarks ==
    ASSUME IInv, DirtyKnown, NEW k \in Keys, InsertRec(k), damaged' = {}, NEW n, n = nextPageNo
    PROVE  /\ \A q \in PageNos : /\ pool'[q].due <=> pool[q].due
                                 /\ IsDirty(pool[q]) => IsDirty(pool'[q])
                                 /\ IsDirty(pool'[q]) => HasEntry(q)'
                                 /\ q \in dirtyList' => q \in dirtyList \/ ~pool[q].due
           /\ \A j \in Keys : latest[j] <= latest'[j]
           /\ UNCHANGED <<sync, disk, idxFile, dw, safe, marked, dropped>>
<1> DEFINE Marks(q) == /\ pool'[q].due <=> pool[q].due
                       /\ IsDirty(pool[q]) => IsDirty(pool'[q])
                       /\ IsDirty(pool'[q]) => HasEntry(q)'
                       /\ q \in dirtyList' => q \in dirtyList \/ ~pool[q].due
<1>1. TypeOK /\ latest[k] < MaxVer
  BY DEF IInv, InsertRec
<1>2. \A q \in PageNos : (IsDirty(pool[q]) => pool[q].init) /\ (pool[q].due => IsDirty(pool[q]))
                         /\ (IsDirty(pool[q]) => HasEntry(q))
  BY DEF IInv, Owned, IsDirty, DirtyKnown
<1>3. Accept(k)
  BY DEF InsertRec, InsertFirst, InsertInPage, InsertAfter, InsertSplit
<1>4. \A j \in Keys : latest[j] <= latest'[j]
  <2>1. \A j \in Keys : latest[j] \in Nat
    <3>1. \A j \in Keys : latest[j] \in 0 .. MaxVer
      BY <1>1 DEF TypeOK
    <3> QED
      BY <3>1, NormalPartAssumption
  <2>2. latest \in [Keys -> 0 .. MaxVer] /\ latest' = [latest EXCEPT ![k] = latest[k] + 1]
    BY <1>1, <1>3 DEF TypeOK, Accept
  <2>3. \A j \in Keys : latest'[j] = latest[j] \/ latest'[j] = latest[j] + 1
    BY <2>2
  <2> QED
    BY <2>1, <2>3
<1>5. UNCHANGED <<sync, disk, idxFile, dw, safe, marked, dropped>>
  BY <1>1, <1>3, AcceptType
<1>6. index \subseteq index'
  BY DEF InsertRec, InsertFirst, InsertInPage, InsertAfter, InsertSplit
<1>7. \A q : HasEntry(q) => HasEntry(q)'
  BY <1>6 DEF HasEntry
\* The page the index sends the record to, and a new one.
<1>8. ASSUME NEW q \in PageNos
      PROVE  /\ Page(q).due <=> pool[q].due
             /\ IsDirty(Page(q)) <=> IsDirty(pool[q])
  BY <1>1, <1>2, PageType DEF IsDirty
<1>9. ASSUME ~HasEntry(n), n \in PageNos, HasEntry(n)', pool'[n].fresh, pool'[n].due <=> pool[n].due
      PROVE  Marks(n)
  <2>1. ~IsDirty(pool[n]) /\ ~pool[n].due
    BY <1>2, <1>9
  <2> QED
    BY <1>9, <2>1
<1>10. ASSUME NEW t, n \in PageNos, Entry(t, n) \in index'
       PROVE  HasEntry(n)'
  <2>1. Entry(t, n).no = n
    BY DEF Entry
  <2> QED
    BY <1>10, <2>1 DEF HasEntry
<1>11. ASSUME Reuse = {}
       PROVE  ~HasEntry(n)
  BY <1>11 DEF Reuse, HasEntry
<1>12. \A e \in index : e.no \in PageNos /\ HasEntry(e.no)
  BY <1>1, EntryType DEF TypeOK, HasEntry
<1>13. ASSUME InsertFirst(k)
       PROVE  \A q \in PageNos : Marks(q)
  <2>1. /\ n \in PageNos /\ index = {} /\ index' = {Entry(0, n)}
        /\ \A q \in PageNos : q # n => pool'[q] = pool[q]
        /\ pool'[n].fresh /\ (pool'[n].due <=> pool[n].due)
        /\ dirtyList' = dirtyList \cup {n}
    BY <1>1, <1>13, FirstStep
  <2>2. ~HasEntry(n)
    BY <2>1 DEF HasEntry
  <2>3. Entry(0, n) \in index'
    BY <2>1
  <2>4. Marks(n)
    BY <1>9, <1>10, <2>1, <2>2, <2>3
  <2>5. \A q \in PageNos : q # n => Marks(q)
    BY <1>2, <1>7, <2>1
  <2> QED
    BY <2>4, <2>5
<1>14. ASSUME NEW e \in index, InsertInPage(k, e.no)
       PROVE  \A q \in PageNos : Marks(q)
  <2> DEFINE p == e.no
  <2>1. /\ \A q \in PageNos : q # p => pool'[q] = pool[q]
        /\ pool'[p].fresh /\ (pool'[p].due <=> Page(p).due)
        /\ dirtyList' = IF IsDirty(Page(p)) THEN dirtyList ELSE dirtyList \cup {p}
    BY <1>1, <1>12, <1>14, InPageStep
  <2>2. p \in PageNos /\ HasEntry(p)'
    BY <1>7, <1>12
  <2> HIDE DEF p
  <2>3. pool'[p].due <=> pool[p].due
    BY <1>8, <2>1, <2>2
  <2>4. IsDirty(pool'[p])
    BY <2>1 DEF IsDirty
  <2>5. \A q \in dirtyList' : q \in dirtyList \/ (q = p /\ ~IsDirty(pool[p]))
    BY <1>8, <2>1, <2>2
  <2>6. Marks(p)
    BY <1>2, <2>2, <2>3, <2>4, <2>5
  <2>7. \A q \in PageNos : q # p => Marks(q)
    BY <1>2, <1>7, <2>1, <2>5
  <2> QED
    BY <2>6, <2>7
<1>15. ASSUME NEW e \in index, InsertAfter(k, e.no)
       PROVE  \A q \in PageNos : Marks(q)
  <2> DEFINE p == e.no
  <2>1. /\ n \in PageNos /\ index' = index \cup {Entry(k, n)}
        /\ \A q \in PageNos : q # p /\ q # n => pool'[q] = pool[q]
        /\ p # n => /\ pool'[p].due <=> Page(p).due
                    /\ pool'[p].fresh <=> Page(p).fresh
        /\ pool'[n].fresh /\ (pool'[n].due <=> pool[n].due)
        /\ dirtyList' = dirtyList \cup {n}
        /\ damaged' = damaged \cup Reuse
    BY <1>1, <1>12, <1>15, AfterStep
  <2>2. ~HasEntry(n) /\ Entry(k, n) \in index'
    BY <1>11, <2>1
  <2>3. Marks(n)
    BY <1>9, <1>10, <2>1, <2>2
  <2>4. p \in PageNos /\ HasEntry(p) /\ HasEntry(p)' /\ p # n
    BY <1>7, <1>12, <2>2
  <2> HIDE DEF p
  <2>5. pool'[p].due <=> pool[p].due
    BY <1>8, <2>1, <2>4
  <2>6. IsDirty(pool'[p]) <=> IsDirty(pool[p])
    BY <1>8, <2>1, <2>4 DEF IsDirty
  <2>7. Marks(p)
    BY <2>1, <2>4, <2>5, <2>6
  <2>8. \A q \in PageNos : q # p /\ q # n => Marks(q)
    BY <1>2, <1>7, <2>1
  <2> QED
    BY <2>3, <2>7, <2>8
<1>16. ASSUME NEW e \in index, InsertSplit(k, e)
       PROVE  \A q \in PageNos : Marks(q)
  <2> DEFINE p == e.no
  <2>1. /\ n \in PageNos /\ \E t \in Keys : index' = index \cup {Entry(t, n)}
        /\ \A q \in PageNos : q # p /\ q # n => pool'[q] = pool[q]
        /\ p # n => pool'[p].fresh /\ (pool'[p].due <=> Page(p).due)
        /\ pool'[n].fresh /\ (pool'[n].due <=> pool[n].due)
        /\ dirtyList' = dirtyList \cup (IF IsDirty(Page(p)) THEN {n} ELSE {n, p})
        /\ damaged \cup Reuse \subseteq damaged'
    BY <1>1, <1>16, SplitStep
  <2>2. ~HasEntry(n) /\ HasEntry(n)'
    BY <1>10, <1>11, <2>1
  <2>3. Marks(n)
    BY <1>9, <2>1, <2>2
  <2>4. p \in PageNos /\ HasEntry(p) /\ HasEntry(p)' /\ p # n
    BY <1>7, <1>12, <2>2
  <2> HIDE DEF p
  <2>5. (pool'[p].due <=> pool[p].due) /\ IsDirty(pool'[p])
    BY <1>8, <2>1, <2>4 DEF IsDirty
  <2>6. \A q \in dirtyList' : q \in dirtyList \/ q = n \/ (q = p /\ ~IsDirty(pool[p]))
    BY <1>8, <2>1, <2>4
  <2>7. Marks(p)
    BY <1>2, <2>4, <2>5, <2>6
  <2>8. \A q \in PageNos : q # p /\ q # n => Marks(q)
    BY <1>2, <1>7, <2>1, <2>6
  <2> QED
    BY <2>3, <2>7, <2>8
<1>17. \A e \in Covering(index, k) : e \in index
  BY DEF Covering
<1> HIDE DEF Marks
<1>18. \A q \in PageNos : Marks(q)
  <2>1. CASE InsertFirst(k)
    BY <1>13, <2>1
  <2>2. CASE \E e \in Covering(index, k) : InsertInPage(k, e.no) \/ InsertAfter(k, e.no) \/ InsertSplit(k, e)
    BY <1>14, <1>15, <1>16, <1>17, <2>2
  <2> QED
    BY <2>1, <2>2 DEF InsertRec
<1> QED
  BY <1>4, <1>5, <1>18 DEF Marks

LEMMA SomeCopies ==
    ASSUME TypeOK
    PROVE  /\ \A c \in CopiesOf(dw) \cup CopiesOf(sync.batch) : c \in Copies /\ c.no \in PageNos
           /\ \A i \in 1 .. Len(sync.batch) : sync.batch[i] \in CopiesOf(sync.batch)
           /\ \A i \in 1 .. sync.at : sync.batch[i] \in CopiesOf(sync.batch) /\ i \in 1 .. Len(sync.batch)
<1>1. dw \in Seq(Copies) /\ sync.batch \in Seq(Copies)
  BY DEF TypeOK, Syncs
<1>2. \A c \in CopiesOf(dw) \cup CopiesOf(sync.batch) : c \in Copies
  BY <1>1 DEF CopiesOf
<1>3. \A c \in Copies : c.no \in PageNos
  BY DEF Copies
<1>4. \A i \in 1 .. sync.at : i \in 1 .. Len(sync.batch)
  BY AtType DEF TypeOK
<1> QED
  BY <1>2, <1>3, <1>4 DEF CopiesOf

LEMMA InsertKept ==
    ASSUME IInv, Filled, Placed, DirtyKnown, Flushed, NEW k \in Keys, InsertRec(k), damaged' = {}, TypeOK'
    PROVE  Placed' /\ DirtyKnown' /\ Flushed'
<1>1. TypeOK /\ Filled' /\ Grown
  BY InsertFilled DEF IInv
<1>2. /\ \A q \in PageNos : /\ pool'[q].due <=> pool[q].due
                            /\ IsDirty(pool[q]) => IsDirty(pool'[q])
                            /\ IsDirty(pool'[q]) => HasEntry(q)'
                            /\ q \in dirtyList' => q \in dirtyList \/ ~pool[q].due
      /\ \A j \in Keys : latest[j] <= latest'[j]
      /\ UNCHANGED <<sync, disk, idxFile, dw, safe, marked, dropped>>
  BY InsertMarks
<1>3. \A c \in CopiesOf(dw) \cup CopiesOf(sync.batch) : c \in Copies /\ c.no \in PageNos
  BY <1>1, SomeCopies
<1>4. DirtyKnown'
  BY <1>2 DEF DirtyKnown
<1>5. Placed'
  <2>1. \A c \in CopiesOf(dw) : disk[c.no] = Kept(c) \/ (c.no \in dropped /\ IsDirty(pool[c.no]))
                                => disk[c.no] = Kept(c) \/ (c.no \in dropped /\ IsDirty(pool'[c.no]))
    BY <1>2, <1>3
  <2> QED
    BY <1>2, <2>1 DEF Placed, Writing, Once, CopiesOf
<1>6. EntryKept'
  BY <1>1, <1>2 DEF Grown, Flushed, EntryKept
<1>7. \A c \in CopiesOf(sync.batch) : \E e \in index : e.no = c.no
  BY DEF Filled, CopiesKnown, HasEntry
<1>8. NewMarked'
  <2>1. ASSUME NEW i \in Left, pool'[sync.batch[i].no].onlyMem
        PROVE  sync.batch[i].new
    <3>1. sync.batch[i] \in CopiesOf(sync.batch)
      BY <1>1, InHandType, SomeCopies
    <3>2. PICK e \in index : e.no = sync.batch[i].no
      BY <1>7, <3>1
    <3>3. pool[sync.batch[i].no].onlyMem
      BY <1>1, <2>1, <3>2 DEF Grown
    <3> QED
      BY <2>1, <3>3 DEF Flushed, NewMarked
  <2> QED
    BY <1>2, <2>1 DEF NewMarked, Left
<1>9. DueTaken'
  <2>1. Due' \subseteq Due
    BY <1>1, <1>2 DEF Due, TypeOK
  <2> QED
    BY <1>2, <2>1 DEF Flushed, DueTaken
<1>10. Reached'
  <2>1. ASSUME NEW j \in Keys
        PROVE  safe[j] \in Nat /\ marked[j] \in Nat /\ latest[j] \in Nat /\ latest'[j] \in Nat
    <3>1. /\ safe[j] \in 0 .. MaxVer /\ marked[j] \in 0 .. MaxVer
          /\ latest[j] \in 0 .. MaxVer /\ latest'[j] \in 0 .. MaxVer
      BY <1>1 DEF TypeOK
    <3> QED
      BY <3>1, NormalPartAssumption
  <2>2. \A j \in Keys : safe[j] <= latest'[j] /\ marked[j] <= latest'[j]
    BY <1>2, <2>1 DEF Flushed, Reached
  <2> QED
    BY <1>2, <2>2 DEF Reached
<1>11. ValueKept'
  <2> SUFFICES ASSUME NEW e \in index', NEW j \in Keys, e \in Covering(index', j), e.no \notin dropped
               PROVE  /\ ~pool'[e.no].onlyMem =>
                            /\ safe[j] <= disk[e.no].recs[j]
                            /\ marked[j] <= disk[e.no].recs[j] \/ pool'[e.no].due
                      /\ \A c \in CopiesOf(sync.batch) : c.no = e.no =>
                            safe[j] <= c.recs[j] /\ marked[j] <= c.recs[j]
    BY <1>2 DEF ValueKept, CopiesOf
  <2>1. Distinct(index') /\ Zero(index') /\ index \subseteq index' /\ index' \in SUBSET Entries
    BY <1>1 DEF Filled, IndexOK, Grown, TypeOK
  <2>2. CASE e \in index
    <3>1. e \in Covering(index, j)
      BY <2>1, <2>2, CoverInPart
    <3>2. e.no \in PageNos /\ (pool'[e.no].onlyMem <=> pool[e.no].onlyMem)
      BY <1>1, <2>1, <2>2, EntryType DEF Grown
    <3> QED
      BY <1>2, <2>2, <3>1, <3>2 DEF Flushed, ValueKept
  <2>3. CASE e \notin index
    <3>1. pool'[e.no].onlyMem
      BY <1>1, <2>3 DEF Grown
    <3>2. \A c \in CopiesOf(sync.batch) : c.no # e.no
      BY <1>7, <2>1, <2>3 DEF Distinct
    <3> QED
      BY <3>1, <3>2
  <2> QED
    BY <2>2, <2>3
<1> QED
  BY <1>4, <1>5, <1>6, <1>8, <1>9, <1>10, <1>11 DEF Flushed

\* A step that writes nothing to the data and index files.
LEMMA QuietFlushed ==
    ASSUME TypeOK, Flushed, UNCHANGED <<index, disk, idxFile, latest, safe, dropped>>,
           \A p \in PageNos : pool'[p].onlyMem <=> pool[p].onlyMem,
           \/ sync'.batch = sync.batch /\ sync'.at = sync.at
           \/ sync.at = 0 /\ sync'.at = 0,
           NewMarked', DueTaken', \A k \in Keys : marked'[k] <= latest[k],
           \A e \in index : \A k \in Keys : e \in Covering(index, k) /\ e.no \notin dropped =>
              /\ ~pool[e.no].onlyMem => marked'[k] <= disk[e.no].recs[k] \/ pool'[e.no].due
              /\ \A c \in CopiesOf(sync'.batch) : c.no = e.no => safe[k] <= c.recs[k] /\ marked'[k] <= c.recs[k]
    PROVE  Flushed'
<1>1. \A e \in index : e.no \in PageNos
  BY EntryType DEF TypeOK
<1>2. EntryKept'
  BY <1>1, NoCopies DEF Flushed, EntryKept
<1>3. Reached'
  BY DEF Flushed, Reached
<1>4. ValueKept'
  BY <1>1 DEF Flushed, ValueKept, CopiesOf
<1> QED
  BY <1>2, <1>3, <1>4 DEF Flushed

LEMMA QuietPlaced ==
    ASSUME TypeOK, Placed, DirtyKnown, UNCHANGED <<index, disk, dw, dropped>>,
           \A p \in PageNos : IsDirty(pool'[p]) <=> IsDirty(pool[p]),
           \/ sync'.batch = sync.batch /\ sync'.at = sync.at /\ (Writing' <=> Writing)
           \/ sync'.at = 0 /\ ~Writing /\ ~Writing'
    PROVE  Placed' /\ DirtyKnown'
<1>1. \A c \in CopiesOf(dw) : c.no \in PageNos
  BY SomeCopies
<1>2. Placed'
  BY <1>1, NoCopies DEF Placed, Once, CopiesOf
<1>3. DirtyKnown'
  BY DEF DirtyKnown, HasEntry
<1> QED
  BY <1>2, <1>3

\* What the pages and the copies have is a value or nothing.
LEMMA ValueTypes ==
    ASSUME TypeOK
    PROVE  /\ \A k \in Keys : latest[k] \in Nat /\ marked[k] \in Nat /\ safe[k] \in Nat
           /\ \A p \in PageNos : \A k \in Keys : disk[p].recs[k] \in Nat
           /\ \A c \in CopiesOf(sync.batch) : \A k \in Keys : c.recs[k] \in Nat
<1>1. \A v \in 0 .. MaxVer : v \in Nat
  BY NormalPartAssumption
<1>2. \A k \in Keys : latest[k] \in 0 .. MaxVer /\ marked[k] \in 0 .. MaxVer /\ safe[k] \in 0 .. MaxVer
  BY DEF TypeOK
<1>3. \A p \in PageNos : \A k \in Keys : disk[p].recs[k] \in 0 .. MaxVer
  BY DEF TypeOK, Content
<1>4. \A c \in CopiesOf(sync.batch) : \A k \in Keys : c.recs[k] \in 0 .. MaxVer
  BY SomeCopies DEF Copies
<1> QED
  BY <1>1, <1>2, <1>3, <1>4

\* The data file has of a clean page what a lookup finds there.
LEMMA CleanHasLatest ==
    ASSUME IInv, Filled, NEW e \in index, NEW k \in Keys, e \in Covering(index, k), ~IsDirty(pool[e.no])
    PROVE  disk[e.no].recs[k] = latest[k]
<1>1. TypeOK /\ e.no \in PageNos
  BY EntryType DEF IInv, TypeOK
<1>2. disk[e.no].recs = Page(e.no).recs
  BY <1>1, PageType DEF IInv, CleanIsOnDisk
<1> QED
  BY <1>2 DEF Filled, Right

LEMMA EvictKept ==
    ASSUME IInv, Filled, Placed, DirtyKnown, Flushed, NEW p \in PageNos, Evict(p)
    PROVE  Placed' /\ DirtyKnown' /\ Flushed'
<1>1. TypeOK
  BY DEF IInv
<1>2. /\ ~IsDirty(pool[p]) /\ pool' = [pool EXCEPT ![p] = Absent]
      /\ UNCHANGED <<index, dirtyList, sync, disk, dropped>>
  BY <1>1, EvictStep
<1>3. UNCHANGED <<latest, idxFile, dw, marked, safe>>
  BY DEF Evict, diskVars, history
<1>4. pool'[p] = Absent /\ \A q \in PageNos : q # p => pool'[q] = pool[q]
  BY <1>1, <1>2 DEF TypeOK
<1>5. ~pool[p].onlyMem /\ ~pool[p].due
  BY <1>2 DEF Filled, MemPages, IsDirty
<1>6. ~IsDirty(Absent) /\ ~Absent.onlyMem /\ ~Absent.due
  BY ContentTypes, ClearedContents DEF IsDirty
<1>7. \A q \in PageNos : /\ IsDirty(pool'[q]) <=> IsDirty(pool[q])
                         /\ pool'[q].onlyMem <=> pool[q].onlyMem
                         /\ pool'[q].due <=> pool[q].due
  BY <1>2, <1>4, <1>5, <1>6
<1>8. Placed' /\ DirtyKnown'
  <2>1. Writing' <=> Writing
    BY <1>2 DEF Writing
  <2> QED
    BY <1>1, <1>2, <1>3, <1>7, <2>1, QuietPlaced
<1>9. NewMarked'
  BY <1>1, <1>2, <1>7, InHandType DEF Flushed, NewMarked, Left
<1>10. DueTaken'
  <2>1. Due' = Due
    BY <1>1, <1>2, <1>7 DEF Due, TypeOK
  <2> QED
    BY <1>2, <2>1 DEF Flushed, DueTaken
<1>11. \A e \in index : e.no \in PageNos
  BY <1>1, EntryType DEF TypeOK
<1>12. Flushed'
  BY <1>1, <1>2, <1>3, <1>7, <1>9, <1>10, <1>11, QuietFlushed DEF Flushed, ValueKept, Reached
<1> QED
  BY <1>8, <1>12

\* From then on a full sync owes every page that differs from the data file.
LEMMA MarkKept ==
    ASSUME IInv, Filled, Placed, DirtyKnown, Flushed, NEW all \in BOOLEAN, Mark(all)
    PROVE  Placed' /\ DirtyKnown' /\ Flushed'
<1>1. TypeOK /\ Control
  BY DEF IInv
<1>2. /\ sync.pc = "idle" /\ sync'.pc = "split" /\ sync'.batch = <<>> /\ sync'.at = 0
      /\ \A p \in PageNos : pool'[p] = pool[p] \/ pool'[p] = RoundRobin(pool[p])
      /\ UNCHANGED <<index, dirtyList, disk, dropped>>
  BY <1>1, MarkStep
<1>3. /\ sync.vec = NoVec /\ sync.batch = <<>> /\ sync.at = 0
      /\ UNCHANGED <<latest, idxFile, dw, safe>>
      /\ marked' = IF all THEN latest ELSE NoRecs
      /\ \A p \in PageNos : p \in ToMark(all) => pool'[p] = RoundRobin(pool[p])
  BY <1>1, <1>2 DEF Control, Mark, SyncStep, diskVars
<1>4. \A p \in PageNos : /\ IsDirty(pool'[p]) <=> IsDirty(pool[p])
                         /\ pool'[p].onlyMem <=> pool[p].onlyMem
  <2> TAKE p \in PageNos
  <2>1. pool[p] \in Header
    BY <1>1 DEF TypeOK
  <2> QED
    BY <1>2, <2>1, RoundRobinType, MacroContents
<1>5. Placed' /\ DirtyKnown'
  <2>1. ~Writing /\ ~Writing'
    BY <1>2 DEF Writing
  <2> QED
    BY <1>1, <1>2, <1>3, <1>4, <2>1, QuietPlaced
<1>6. sync'.pass = 1
  BY IdleType DEF Mark, Idle
<1>7. NewMarked' /\ DueTaken'
  <2>1. Left' = {}
    BY <1>2, EmptyBuffer
  <2> QED
    BY <1>6, <2>1 DEF NewMarked, DueTaken
<1>8. \A e \in index : e.no \in PageNos
  BY <1>1, EntryType DEF TypeOK
<1>9. \A k \in Keys : /\ latest[k] \in Nat /\ 0 <= latest[k]
                      /\ \A p \in PageNos : disk[p].recs[k] \in Nat /\ 0 <= disk[p].recs[k]
  BY <1>1, ValueTypes
<1>10. \A k \in Keys : marked'[k] = (IF all THEN latest[k] ELSE 0)
  BY <1>3 DEF NoRecs
<1>11. ASSUME NEW e \in index, NEW k \in Keys, e \in Covering(index, k), e.no \notin dropped
       PROVE  marked'[k] <= disk[e.no].recs[k] \/ pool'[e.no].due
  <2>1. CASE ~all
    BY <2>1, <1>8, <1>9, <1>10
  <2>2. CASE ~IsDirty(pool[e.no])
    BY <2>2, <1>8, <1>9, <1>10, <1>11, CleanHasLatest
  <2>3. CASE all /\ IsDirty(pool[e.no])
    <3>1. InHand = {}
      BY <1>3, EmptyBuffer, VecTypes
    <3>2. e.no \in dirtyList
      BY <1>8, <1>11, <2>3, <3>1 DEF IInv, DirtyIsListed
    <3>3. pool'[e.no] = RoundRobin(pool[e.no]) /\ pool[e.no] \in Header
      BY <1>1, <1>3, <1>8, <2>3, <3>2 DEF ToMark, TypeOK
    <3> QED
      BY <2>3, <3>3, RoundRobinType
  <2> QED
    BY <2>1, <2>2, <2>3
<1>12. \A k \in Keys : marked'[k] <= latest[k]
  BY <1>9, <1>10
<1>13. CopiesOf(sync'.batch) = {}
  BY <1>2, NoCopies
<1>14. Flushed'
  BY <1>1, <1>2, <1>3, <1>4, <1>7, <1>11, <1>12, <1>13, QuietFlushed
<1> QED
  BY <1>5, <1>14

\* What a batch leaves behind when it is done or given up.
LEMMA EndsForms ==
    ASSUME TypeOK, BatchEnds \/ PassEnds
    PROVE  /\ sync'.batch = <<>> /\ sync'.at = 0 /\ sync'.pc \in {"idle", "rest", "copy"}
           /\ \/ UNCHANGED <<marked, safe>> /\ (sync'.pc = "rest" \/ sync'.pass = sync.pass)
              \/ Ended /\ sync.pass = 2
<1>1. sync \in Syncs
  BY DEF TypeOK
<1>2. CASE sync' = [sync EXCEPT !.pc = "rest", !.pass = 2, !.vec = NoVec, !.batch = <<>>, !.at = 0] /\ UNCHANGED <<marked, safe>>
  BY <1>1, <1>2 DEF Syncs
<1>3. CASE sync' = [sync EXCEPT !.pc = "copy", !.batch = <<>>, !.at = 0] /\ UNCHANGED <<marked, safe>>
  BY <1>1, <1>3 DEF Syncs
<1>4. CASE Ended /\ sync.pass = 2
  BY <1>4, IdleType DEF Ended
<1> QED
  BY <1>2, <1>3, <1>4 DEF BatchEnds, PassEnds

\* When a full sync ends, no page it did not leave behind is due.
LEMMA NoneDue ==
    ASSUME IInv, Due = {}, NEW p \in PageNos, p \notin dropped, p \notin InHand
    PROVE  ~pool[p].due
<1>1. SUFFICES ASSUME pool[p].due
               PROVE  FALSE
  OBVIOUS
<1>2. p \in dirtyList
  BY <1>1 DEF IInv, DirtyIsListed, IsDirty
<1> QED
  BY <1>1, <1>2 DEF Due

LEMMA BatchLeft ==
    ASSUME IInv, Flushed, UNCHANGED <<index, latest, pool>>,
           sync'.batch = <<>>, sync'.at = 0, DueTaken',
           idxFile \subseteq idxFile', dropped \subseteq dropped',
           \A p \in PageNos : p \notin dropped' => disk'[p] = disk[p],
           \A i \in 1 .. sync.at : sync.batch[i].new =>
                 \/ Entry(sync.batch[i].ts, sync.batch[i].no) \in idxFile'
                 \/ sync.batch[i].no \in dropped',
           \/ UNCHANGED <<marked, safe>>
           \/ Ended /\ Due = {} /\ InHand \subseteq dropped'
    PROVE  Flushed'
<1>1. TypeOK /\ \A e \in index : e.no \in PageNos
  BY EntryType DEF IInv, TypeOK
<1>2. EntryKept'
  <2>1. ASSUME NEW e \in index, ~pool[e.no].onlyMem, e.no \notin dropped'
        PROVE  e \in idxFile'
    <3>1. CASE \E i \in 1 .. sync.at : sync.batch[i].new /\ e = Entry(sync.batch[i].ts, sync.batch[i].no)
      <4>1. PICK i \in 1 .. sync.at : sync.batch[i].new /\ e = Entry(sync.batch[i].ts, sync.batch[i].no)
        BY <3>1
      <4>2. e.no = sync.batch[i].no
        BY <4>1 DEF Entry
      <4> QED
        BY <2>1, <4>1, <4>2
    <3> QED
      BY <2>1, <3>1 DEF Flushed, EntryKept
  <2> QED
    BY <2>1 DEF EntryKept
<1>3. NewMarked'
  BY EmptyBuffer DEF NewMarked
<1>4. /\ \A k \in Keys : latest[k] \in Nat /\ marked[k] \in Nat /\ safe[k] \in Nat
      /\ \A p \in PageNos : \A k \in Keys : disk[p].recs[k] \in Nat
  BY <1>1, ValueTypes
<1>5. CopiesOf(sync'.batch) = {}
  BY NoCopies
<1>6. CASE UNCHANGED <<marked, safe>>
  <2>1. Reached'
    BY <1>6 DEF Flushed, Reached
  <2>2. ValueKept'
    BY <1>1, <1>5, <1>6 DEF Flushed, ValueKept
  <2> QED
    BY <1>2, <1>3, <2>1, <2>2 DEF Flushed
<1>7. CASE Ended /\ Due = {} /\ InHand \subseteq dropped'
  <2>1. \A k \in Keys : marked'[k] = 0 /\ (safe'[k] = marked[k] \/ safe'[k] = safe[k])
    BY <1>1, <1>7 DEF Ended, NoRecs, TypeOK
  <2>2. \A k \in Keys : 0 <= latest[k] /\ \A p \in PageNos : 0 <= disk[p].recs[k]
    BY <1>4
  <2>3. Reached'
    BY <2>1, <2>2 DEF Flushed, Reached
  <2>4. ASSUME NEW e \in index, NEW k \in Keys, e \in Covering(index, k), e.no \notin dropped', ~pool[e.no].onlyMem
        PROVE  safe'[k] <= disk'[e.no].recs[k] /\ marked'[k] <= disk'[e.no].recs[k]
    <3>1. e.no \in PageNos /\ e.no \notin dropped /\ e.no \notin InHand /\ disk'[e.no] = disk[e.no]
      BY <1>1, <1>7, <2>4
    <3>2. ~pool[e.no].due
      BY <1>7, <3>1, NoneDue
    <3>3. safe[k] <= disk[e.no].recs[k] /\ marked[k] <= disk[e.no].recs[k]
      BY <2>4, <3>1, <3>2 DEF Flushed, ValueKept
    <3> QED
      BY <2>1, <2>2, <3>1, <3>3
  <2>5. ValueKept'
    BY <1>5, <2>4 DEF ValueKept
  <2> QED
    BY <1>2, <1>3, <2>3, <2>5 DEF Flushed
<1> QED
  BY <1>6, <1>7

\* The second pass is over the pages that were taken.
LEMMA PassKeeps ==
    ASSUME IInv, Flushed, sync.pc # "rest", UNCHANGED <<pool, dirtyList>>,
           sync'.pc = "rest" \/ sync'.pass = sync.pass
    PROVE  DueTaken'
<1>1. Due' = Due
  BY DEF Due
<1> QED
  BY <1>1 DEF Flushed, DueTaken

LEMMA TakeKept ==
    ASSUME IInv, Filled, Placed, DirtyKnown, Flushed, TakeSplit \/ TakeRest
    PROVE  Placed' /\ DirtyKnown' /\ Flushed'
<1>1. TypeOK /\ Control
  BY DEF IInv
<1>2. sync.pc \in {"split", "rest"}
  BY DEF TakeSplit, TakeRest
<1>3. sync.vec = NoVec /\ sync.batch = <<>> /\ sync.at = 0
  BY <1>1, <1>2 DEF Control
<1>4. /\ sync'.batch = <<>> /\ sync'.at = 0 /\ sync'.pc \in {"idle", "rest", "copy"}
      /\ dirtyList' = dirtyList \ DOMAIN sync'.vec
      /\ UNCHANGED <<index, pool, disk, dropped>>
  BY <1>1, <1>3, TakeSplitStep, TakeRestStep
<1>5. UNCHANGED <<latest, idxFile, dw>>
  BY DEF TakeSplit, TakeRest, SyncStep, diskVars
<1>6. Placed' /\ DirtyKnown'
  <2>1. ~Writing /\ ~Writing'
    BY <1>2, <1>4 DEF Writing
  <2> QED
    BY <1>1, <1>4, <1>5, <2>1, QuietPlaced
<1>7. Due' \subseteq Due
  BY <1>4 DEF Due
<1>8. InHand = {}
  BY <1>3, EmptyBuffer, VecTypes
<1>9. sync \in Syncs
  BY <1>1 DEF TypeOK
<1>10. CASE TakeSplit
  <2>1. sync.pc = "split" /\ UNCHANGED <<marked, safe>>
    BY <1>10 DEF TakeSplit
  <2>2. \/ sync' = [sync EXCEPT !.pc = "rest", !.pass = 2]
        \/ \E v : sync' = [sync EXCEPT !.pc = "copy", !.vec = v]
    BY <1>10 DEF TakeSplit
  <2>3. sync'.pc = "rest" \/ sync'.pass = sync.pass
    BY <1>9, <2>2 DEF Syncs
  <2>4. DueTaken'
    BY <1>7, <2>1, <2>3 DEF Flushed, DueTaken
  <2> QED
    BY <1>3, <1>4, <1>5, <1>6, <2>1, <2>4, BatchLeft
<1>11. CASE TakeRest
  <2>1. dirtyList' = dirtyList \ Due /\ ((Due = {} /\ Ended) \/ UNCHANGED <<marked, safe>>)
    BY <1>11 DEF TakeRest
  <2>2. Due' = {}
    BY <1>4, <2>1 DEF Due
  <2>3. DueTaken'
    BY <2>2 DEF DueTaken
  <2> QED
    BY <1>3, <1>4, <1>5, <1>6, <1>8, <2>1, <2>3, BatchLeft
<1> QED
  BY <1>10, <1>11

LEMMA LeftCopies == TypeOK => \A j \in Left : sync.batch[j] \in CopiesOf(sync.batch)
BY InHandType, SomeCopies

LEMMA CopyKept ==
    ASSUME IInv, Filled, Placed, DirtyKnown, Flushed, NEW p \in PageNos, CopyPage(p)
    PROVE  Placed' /\ DirtyKnown' /\ Flushed'
<1>1. TypeOK /\ Control /\ Owned
  BY DEF IInv
<1>2. sync.pc = "copy" /\ sync.at = 0 /\ Len(sync.batch) < BatchSize
  BY <1>1 DEF CopyPage, Control
<1>3. /\ TypeOK' /\ p \in DOMAIN sync.vec /\ sync'.at = 0 /\ sync'.pc \in {"dw", "copy"}
      /\ pool' = [pool EXCEPT ![p] = RoundRobin(pool[p])]
      /\ UNCHANGED <<index, dirtyList, disk, dropped>>
  BY <1>1, <1>2, CopyPageStep
<1>4. UNCHANGED <<latest, idxFile, dw, marked, safe>>
  BY DEF CopyPage, SyncStep, diskVars
<1>5. PICK c \in Copies : /\ c.no = p /\ c.recs = pool[p].recs /\ (c.new <=> pool[p].onlyMem)
                          /\ CopiesOf(sync'.batch) \subseteq CopiesOf(sync.batch) \cup {c}
  BY CopyPageFilled
<1>6. pool[p].due /\ pool[p].init
  BY <1>1, <1>2, <1>3, InHandType DEF Owned, IsDirty
<1>7. pool[p] \in Header /\ pool'[p] = RoundRobin(pool[p]) /\ \A q \in PageNos : q # p => pool'[q] = pool[q]
  BY <1>1, <1>3 DEF TypeOK
<1>8. \A q \in PageNos : /\ IsDirty(pool'[q]) <=> IsDirty(pool[q])
                         /\ pool'[q].onlyMem <=> pool[q].onlyMem
                         /\ pool'[q].due <=> pool[q].due
  <2>1. IsDirty(pool[p]) /\ RoundRobin(pool[p]).due /\ IsDirty(RoundRobin(pool[p]))
    BY <1>6, <1>7, RoundRobinType DEF IsDirty
  <2>2. RoundRobin(pool[p]).onlyMem <=> pool[p].onlyMem
    BY <1>7, MacroContents
  <2> QED
    BY <1>6, <1>7, <2>1, <2>2
<1>9. Placed' /\ DirtyKnown'
  <2>1. ~Writing /\ ~Writing'
    BY <1>2, <1>3 DEF Writing
  <2> QED
    BY <1>1, <1>3, <1>4, <1>8, <2>1, QuietPlaced
<1>10. NewMarked'
  <2> SUFFICES ASSUME NEW i \in Left', pool'[sync'.batch[i].no].onlyMem
               PROVE  sync'.batch[i].new
    BY DEF NewMarked
  <2>1. sync'.batch[i] \in CopiesOf(sync'.batch)
    <3>1. (\A j \in Left : sync.batch[j] \in CopiesOf(sync.batch))'
      <4>1. TypeOK'
        BY <1>3
      <4> QED
        BY <4>1, LeftCopies, PTL
    <3> QED
      BY <3>1 DEF CopiesOf
  <2>2. CASE sync'.batch[i] = c
    BY <2>2, <1>5, <1>8
  <2>3. CASE sync'.batch[i] \in CopiesOf(sync.batch)
    <3>1. PICK j \in 1 .. Len(sync.batch) : sync'.batch[i] = sync.batch[j]
      BY <2>3 DEF CopiesOf
    <3>2. j \in Left
      BY <1>1, <1>2, AtType DEF Left
    <3>3. sync.batch[j].no \in PageNos
      BY <1>1, <3>2, InHandType
    <3> QED
      BY <2>3, <1>8, <3>1, <3>2, <3>3 DEF Flushed, NewMarked
  <2> QED
    BY <1>5, <2>1, <2>2, <2>3
<1>11. DueTaken'
  <2>1. Due' = Due
    BY <1>1, <1>3, <1>8 DEF Due, TypeOK
  <2>2. sync'.pass = sync.pass
    <3>1. sync \in Syncs
      BY <1>1 DEF TypeOK
    <3>2. \E v, b, x : sync' = [sync EXCEPT !.vec = v, !.batch = b, !.pc = x]
      BY DEF CopyPage
    <3> QED
      BY <3>1, <3>2 DEF Syncs
  <2> QED
    BY <1>2, <2>1, <2>2 DEF Flushed, DueTaken
<1>12. \A e \in index : e.no \in PageNos
  BY <1>1, EntryType DEF TypeOK
<1>13. ASSUME NEW e \in index, NEW k \in Keys, e \in Covering(index, k), e.no = p
       PROVE  safe[k] <= c.recs[k] /\ marked[k] <= c.recs[k]
  <2>1. Page(e.no).recs[k] = latest[k]
    BY <1>13 DEF Filled, Right
  <2>2. Page(p) = pool[p]
    BY <1>1, <1>6, PageType
  <2> QED
    BY <1>5, <1>13, <2>1, <2>2 DEF Flushed, Reached
<1>14. ASSUME NEW e \in index, NEW k \in Keys, e \in Covering(index, k), e.no \notin dropped
       PROVE  /\ ~pool[e.no].onlyMem => marked[k] <= disk[e.no].recs[k] \/ pool'[e.no].due
              /\ \A d \in CopiesOf(sync'.batch) : d.no = e.no => safe[k] <= d.recs[k] /\ marked[k] <= d.recs[k]
  <2>1. \A d \in CopiesOf(sync.batch) : d.no = e.no => safe[k] <= d.recs[k] /\ marked[k] <= d.recs[k]
    BY <1>14 DEF Flushed, ValueKept
  <2>2. \A d \in CopiesOf(sync'.batch) : d.no = e.no => safe[k] <= d.recs[k] /\ marked[k] <= d.recs[k]
    BY <1>5, <1>13, <1>14, <2>1
  <2> QED
    BY <1>8, <1>12, <1>14, <2>2 DEF Flushed, ValueKept
<1>15. Flushed'
  BY <1>1, <1>2, <1>3, <1>4, <1>8, <1>10, <1>11, <1>14, QuietFlushed DEF Flushed, Reached
<1> QED
  BY <1>9, <1>15

LEMMA WriteDwKept ==
    ASSUME IInv, Filled, Placed, DirtyKnown, Flushed, WriteDw
    PROVE  Placed' /\ DirtyKnown' /\ Flushed'
<1>1. TypeOK /\ Control /\ Owned
  BY DEF IInv
<1>2. /\ sync.pc = "dw" /\ sync'.pc = "data" /\ sync'.batch = sync.batch /\ sync'.at = sync.at
      /\ UNCHANGED <<index, pool, dirtyList, disk, dropped>>
  BY <1>1, WriteDwStep
<1>3. dw' = sync.batch /\ UNCHANGED <<latest, idxFile, marked, safe>>
  BY DEF WriteDw, SyncStep
<1>4. sync.at = 0
  BY <1>1, <1>2 DEF Control
<1>5. Placed'
  <2>1. \A i \in 1 .. Len(sync.batch) : i \in Left
    BY <1>1, <1>4, AtType DEF Left
  <2>2. Once(sync.batch)
    BY <1>1, <1>2, <2>1 DEF Owned, Once
  <2>3. Writing' /\ dw' = sync'.batch /\ Once(dw')
    BY <1>2, <1>3, <2>2 DEF Writing
  <2> QED
    BY <1>2, <1>4, <2>3, NoCopies DEF Placed, Once
<1>6. DirtyKnown'
  BY <1>2 DEF DirtyKnown, HasEntry
<1>7. DueTaken'
  <2>1. sync \in Syncs /\ sync' = [sync EXCEPT !.pc = "data"]
    BY <1>1 DEF TypeOK, WriteDw
  <2>2. sync'.pass = sync.pass
    BY <2>1 DEF Syncs
  <2> QED
    BY <1>2, <2>2, PassKeeps
<1>8. NewMarked'
  BY <1>2 DEF Flushed, NewMarked, Left
<1>9. Flushed'
  BY <1>1, <1>2, <1>3, <1>7, <1>8, QuietFlushed DEF Flushed, ValueKept, Reached
<1> QED
  BY <1>5, <1>6, <1>9

LEMMA WriteDataKept ==
    ASSUME IInv, Filled, Placed, DirtyKnown, Flushed, WriteData
    PROVE  Placed' /\ DirtyKnown' /\ Flushed'
<1> DEFINE n == sync.at + 1
           b == sync.batch[n]
           p == b.no
<1>1. TypeOK /\ Control /\ Owned
  BY DEF IInv
<1>2. sync.pc = "data" /\ UNCHANGED <<latest, idxFile, dw, marked, safe>>
  BY DEF WriteData, SyncStep
<1>3. /\ sync.at \in Nat /\ sync.at < Len(sync.batch) /\ Len(sync.batch) \in Nat
      /\ b \in CopiesOf(sync.batch) /\ p \in PageNos /\ pool[p].due
  BY <1>1, <1>2, NextPage, AtType
<1>4. /\ TypeOK' /\ sync'.batch = sync.batch /\ sync'.at = n /\ sync'.pc \in {"data", "index"}
      /\ pool' = [pool EXCEPT ![p] = Synced(pool[p])]
      /\ dirtyList' = IF pool[p].fresh THEN dirtyList \cup {p} ELSE dirtyList
      /\ UNCHANGED <<index, dropped>>
  BY <1>1, <1>3, WriteDataStep
<1>5. /\ disk'[p] = Kept(b) /\ ~pool'[p].onlyMem
      /\ \A q \in PageNos : q # p => pool'[q] = pool[q] /\ disk'[q] = disk[q]
  BY WriteDataPages DEF Kept
<1>6. ~pool'[p].due
  <2>1. pool[p] \in Header /\ pool'[p] = Synced(pool[p])
    BY <1>1, <1>3, <1>4 DEF TypeOK
  <2> QED
    BY <2>1 DEF Synced, Header
<1>7. dw = sync.batch /\ Once(sync.batch)
  BY <1>2 DEF Placed, Writing
<1>8. n \in 1 .. Len(sync.batch) /\ n \in Left /\ \A i \in 1 .. sync.at : i \in 1 .. Len(sync.batch) /\ i # n /\ i \in 1 .. n
  BY <1>3 DEF Left
<1>9. \A i \in 1 .. n : i \in 1 .. sync.at \/ i = n
  BY <1>3
<1>10. \A i \in 1 .. Len(sync.batch) : sync.batch[i].no \in PageNos /\ (i # n => sync.batch[i].no # p)
  BY <1>1, <1>7, <1>8, BatchPage DEF Once
<1>11. \A e \in index : e.no \in PageNos
  BY <1>1, EntryType DEF TypeOK
<1>12. b = sync.batch[n] /\ p = b.no
  OBVIOUS
<1> HIDE DEF b, p, n
<1>13. Placed'
  <2>1. \A i \in 1 .. n : disk'[sync.batch[i].no] = Kept(sync.batch[i])
    BY <1>5, <1>8, <1>9, <1>10, <1>12 DEF Placed
  <2>2. Writing'
    BY <1>4 DEF Writing
  <2> QED
    BY <1>2, <1>4, <1>7, <2>1, <2>2 DEF Placed, Once
<1>14. DirtyKnown'
  <2>1. IsDirty(pool[p])
    BY <1>3 DEF IsDirty
  <2>2. \A q \in PageNos : IsDirty(pool'[q]) => HasEntry(q)
    BY <1>3, <1>5, <2>1 DEF DirtyKnown
  <2> QED
    BY <1>4, <2>2 DEF DirtyKnown, HasEntry
<1>15. EntryKept'
  <2> SUFFICES ASSUME NEW e \in index, ~pool'[e.no].onlyMem, e.no \notin dropped, e \notin idxFile
               PROVE  \E i \in 1 .. n : sync.batch[i].new /\ e = Entry(sync.batch[i].ts, sync.batch[i].no)
    BY <1>2, <1>4 DEF EntryKept
  <2>1. CASE ~pool[e.no].onlyMem
    BY <2>1, <1>8 DEF Flushed, EntryKept
  <2>2. CASE pool[e.no].onlyMem
    <3>1. e.no = p
      BY <2>2, <1>5, <1>11
    <3>2. b.new
      BY <2>2, <3>1, <1>8, <1>12 DEF Flushed, NewMarked
    <3>3. Entry(b.ts, b.no) \in index
      BY <1>3, <3>2 DEF Filled, CopiesKnown
    <3>4. Entry(b.ts, b.no).no = e.no
      BY <3>1, <1>12 DEF Entry
    <3>5. e = Entry(b.ts, b.no)
      BY <3>3, <3>4 DEF Filled, IndexOK, Distinct
    <3>6. n \in 1 .. n
      BY <1>3, <1>8
    <3> QED
      BY <3>2, <3>5, <3>6, <1>12
  <2> QED
    BY <2>1, <2>2
<1>16. NewMarked'
  <2>1. ASSUME NEW i \in n + 1 .. Len(sync.batch)
        PROVE  i \in Left /\ i \in 1 .. Len(sync.batch) /\ i # n
    BY <1>3 DEF Left, n
  <2>2. ASSUME NEW i \in n + 1 .. Len(sync.batch), pool'[sync.batch[i].no].onlyMem
        PROVE  sync.batch[i].new
    BY <1>5, <1>10, <2>1, <2>2 DEF Flushed, NewMarked
  <2> QED
    BY <1>4, <2>2 DEF NewMarked, Left
<1>17. DueTaken'
  <2>1. Due' \subseteq Due
    BY <1>1, <1>3, <1>4, <1>5, <1>6 DEF Due, TypeOK
  <2>2. sync'.pass = sync.pass
    <3>1. sync \in Syncs /\ \E x : sync' = [sync EXCEPT !.at = @ + 1, !.pc = x]
      BY <1>1 DEF TypeOK, WriteData
    <3> QED
      BY <3>1 DEF Syncs
  <2> QED
    BY <1>2, <2>1, <2>2 DEF Flushed, DueTaken
<1>18. Reached'
  BY <1>2 DEF Flushed, Reached
<1>19. ValueKept'
  <2> SUFFICES ASSUME NEW e \in index, NEW k \in Keys, e \in Covering(index, k), e.no \notin dropped
               PROVE  /\ ~pool'[e.no].onlyMem =>
                            /\ safe[k] <= disk'[e.no].recs[k]
                            /\ marked[k] <= disk'[e.no].recs[k] \/ pool'[e.no].due
                      /\ \A c \in CopiesOf(sync.batch) : c.no = e.no =>
                            safe[k] <= c.recs[k] /\ marked[k] <= c.recs[k]
    BY <1>2, <1>4 DEF ValueKept, CopiesOf
  <2>1. \A c \in CopiesOf(sync.batch) : c.no = e.no => safe[k] <= c.recs[k] /\ marked[k] <= c.recs[k]
    BY DEF Flushed, ValueKept
  <2>2. CASE e.no = p
    <3>1. safe[k] <= b.recs[k] /\ marked[k] <= b.recs[k]
      BY <1>3, <1>12, <2>1, <2>2
    <3>2. Kept(b).recs = b.recs
      BY DEF Kept
    <3> QED
      BY <1>5, <2>1, <2>2, <3>1, <3>2
  <2>3. CASE e.no # p
    BY <1>5, <1>11, <2>1, <2>3 DEF Flushed, ValueKept
  <2> QED
    BY <2>2, <2>3
<1> QED
  BY <1>13, <1>14, <1>15, <1>16, <1>17, <1>18, <1>19 DEF Flushed

LEMMA WriteIdxKept ==
    ASSUME IInv, Filled, Placed, DirtyKnown, Flushed, WriteIdx \/ WriteIdxFails
    PROVE  Placed' /\ DirtyKnown' /\ Flushed'
<1>1. TypeOK /\ Control
  BY DEF IInv
<1>2. sync.pc = "index" /\ BatchEnds /\ UNCHANGED <<index, latest, pool, dirtyList, disk, dw>>
  BY DEF WriteIdx, WriteIdxFails, SyncStep, diskVars
<1>3. \/ idxFile' = idxFile \cup NewEntries(sync.batch) /\ dropped' = dropped
      \/ idxFile' = idxFile /\ dropped' = dropped \cup {e.no : e \in NewEntries(sync.batch)}
  BY DEF WriteIdx, WriteIdxFails, Fails, diskVars
<1>4. sync.at = Len(sync.batch) /\ Len(sync.batch) \in Nat /\ dw = sync.batch
  BY <1>1, <1>2, AtType DEF Control, Placed, Writing
<1>5. /\ sync'.batch = <<>> /\ sync'.at = 0 /\ sync'.pc \in {"idle", "rest", "copy"}
      /\ \/ UNCHANGED <<marked, safe>> /\ (sync'.pc = "rest" \/ sync'.pass = sync.pass)
         \/ Ended /\ sync.pass = 2
  BY <1>1, <1>2, EndsForms
<1>6. \A i \in 1 .. sync.at : sync.batch[i].new =>
         \/ Entry(sync.batch[i].ts, sync.batch[i].no) \in idxFile'
         \/ sync.batch[i].no \in dropped'
  <2>1. ASSUME NEW i \in 1 .. sync.at, sync.batch[i].new
        PROVE  /\ Entry(sync.batch[i].ts, sync.batch[i].no) \in NewEntries(sync.batch)
               /\ Entry(sync.batch[i].ts, sync.batch[i].no).no = sync.batch[i].no
    BY <1>4, <2>1 DEF NewEntries, Entry
  <2> QED
    BY <1>3, <2>1
<1>7. Placed'
  <2>1. ~Writing'
    BY <1>5 DEF Writing
  <2>2. \A c \in CopiesOf(dw) : disk[c.no] = Kept(c)
    BY <1>4 DEF Placed, CopiesOf
  <2> QED
    BY <1>2, <1>5, <2>1, <2>2, NoCopies DEF Placed, Once, CopiesOf
<1>8. DirtyKnown'
  BY <1>2 DEF DirtyKnown, HasEntry
<1>9. idxFile \subseteq idxFile' /\ dropped \subseteq dropped'
  BY <1>3
<1>10. \/ UNCHANGED <<marked, safe>> /\ (sync'.pc = "rest" \/ sync'.pass = sync.pass)
       \/ Ended /\ Due = {} /\ InHand \subseteq dropped'
  <2>1. CASE DOMAIN sync.vec = {}
    <3>1. InHand = {}
      BY <1>4, <2>1 DEF InHand
    <3>2. sync.pass = 2 => Due = {}
      BY <1>2 DEF Flushed, DueTaken
    <3> QED
      BY <1>5, <3>1, <3>2
  <2>2. CASE DOMAIN sync.vec # {}
    <3>1. sync' = [sync EXCEPT !.pc = "copy", !.batch = <<>>, !.at = 0] /\ UNCHANGED <<marked, safe>>
      BY <1>2, <2>2 DEF BatchEnds
    <3>2. sync'.pass = sync.pass
      BY <1>1, <3>1 DEF TypeOK, Syncs
    <3> QED
      BY <3>1, <3>2
  <2> QED
    BY <2>1, <2>2
<1>11. DueTaken'
  <2>1. CASE sync'.pc = "rest" \/ sync'.pass = sync.pass
    BY <1>2, <2>1, PassKeeps
  <2>2. CASE Ended
    BY <2>2 DEF Ended, Idle, DueTaken
  <2> QED
    BY <1>5, <2>1, <2>2
<1>12. Flushed'
  BY <1>2, <1>5, <1>6, <1>9, <1>10, <1>11, BatchLeft
<1> QED
  BY <1>7, <1>8, <1>12

LEMMA WriteFailsKept ==
    ASSUME IInv, Filled, Placed, DirtyKnown, Flushed, WriteFails
    PROVE  Placed' /\ DirtyKnown' /\ Flushed'
<1>1. TypeOK /\ Control /\ Owned /\ (sync.pc = "data" => sync.at < Len(sync.batch))
  BY DEF IInv, Control
<1>2. /\ sync.pc \in {"dw", "data"}
      /\ dropped' = dropped \cup DOMAIN sync.vec \cup InBatch
      /\ \A p \in PageNos : disk'[p] # disk[p] =>
            sync.pc = "data" /\ p = sync.batch[sync.at + 1].no
      /\ UNCHANGED <<index, pool, dirtyList>>
  BY <1>1, WriteFailsStep
<1>3. PassEnds /\ UNCHANGED <<latest, idxFile>> /\ (dw' = dw \/ (dw' = <<>> /\ sync.pc = "dw"))
  BY DEF WriteFails, SyncStep
<1>4. /\ sync'.batch = <<>> /\ sync'.at = 0 /\ sync'.pc \in {"idle", "rest", "copy"}
      /\ \/ UNCHANGED <<marked, safe>> /\ (sync'.pc = "rest" \/ sync'.pass = sync.pass)
         \/ Ended /\ sync.pass = 2
  BY <1>1, <1>3, EndsForms
<1>5. /\ sync.at \in Nat /\ Len(sync.batch) \in Nat
      /\ \A i \in 1 .. sync.at : i \in 1 .. Len(sync.batch)
      /\ \A i \in 1 .. Len(sync.batch) : sync.batch[i].no \in PageNos /\ sync.batch[i].no \in InBatch
      /\ \A i \in 1 .. Len(sync.batch) : i \in 1 .. sync.at \/ i \in Left
  <2>1. sync.at \in Nat /\ Len(sync.batch) \in Nat /\ sync.at <= Len(sync.batch)
    BY <1>1, AtType
  <2>2. \A i \in 1 .. Len(sync.batch) : sync.batch[i].no \in PageNos /\ sync.batch[i].no \in InBatch
    BY <1>1, BatchPage DEF InBatch
  <2>3. \A i \in 1 .. Len(sync.batch) : i \in 1 .. sync.at \/ i \in Left
    BY <2>1 DEF Left
  <2>4. \A i \in 1 .. sync.at : i \in 1 .. Len(sync.batch)
    BY <2>1
  <2> QED
    BY <2>1, <2>2, <2>3, <2>4
<1>6. sync.pc = "data" => sync.at + 1 \in 1 .. Len(sync.batch)
  BY <1>1, <1>5
<1>7. \A p \in PageNos : p \notin dropped' => disk'[p] = disk[p]
  BY <1>2, <1>5, <1>6
<1>8. \A c \in CopiesOf(dw') : disk'[c.no] = Kept(c) \/ (c.no \in dropped' /\ IsDirty(pool[c.no]))
  <2>1. CASE sync.pc = "dw"
    <3>1. CopiesOf(dw') \subseteq CopiesOf(dw) /\ ~Writing
      BY <1>3, <2>1, NoCopies DEF Writing
    <3>2. \A c \in CopiesOf(dw) : disk'[c.no] = disk[c.no]
      BY <1>1, <1>2, <2>1, SomeCopies
    <3> QED
      BY <1>2, <3>1, <3>2 DEF Placed
  <2>2. CASE sync.pc = "data"
    <3>1. dw' = sync.batch /\ Once(sync.batch)
      BY <1>3, <2>2 DEF Placed, Writing
    <3> SUFFICES ASSUME NEW i \in 1 .. Len(sync.batch)
                 PROVE  \/ disk'[sync.batch[i].no] = Kept(sync.batch[i])
                        \/ sync.batch[i].no \in dropped' /\ IsDirty(pool[sync.batch[i].no])
      BY <3>1 DEF CopiesOf
    <3>2. CASE i \in 1 .. sync.at
      <4>1. i # sync.at + 1
        BY <1>5, <3>2
      <4>2. sync.batch[i].no # sync.batch[sync.at + 1].no
        BY <1>6, <2>2, <3>1, <4>1 DEF Once
      <4>3. disk'[sync.batch[i].no] = disk[sync.batch[i].no]
        BY <1>2, <1>5, <4>2
      <4> QED
        BY <3>2, <4>3 DEF Placed
    <3>3. CASE i \in Left
      <4>1. pool[sync.batch[i].no].due
        BY <1>1, <1>2, <3>3, InHandType DEF Owned
      <4> QED
        BY <1>2, <1>5, <4>1 DEF IsDirty
    <3> QED
      BY <1>5, <3>2, <3>3
  <2> QED
    BY <1>2, <2>1, <2>2
<1>9. Placed'
  <2>1. ~Writing'
    BY <1>4 DEF Writing
  <2>2. Once(dw')
    BY <1>3, IdleType DEF Placed, Once
  <2> QED
    BY <1>2, <1>4, <1>8, <2>1, <2>2, NoCopies DEF Placed, Once, CopiesOf
<1>10. DirtyKnown'
  BY <1>2 DEF DirtyKnown, HasEntry
<1>11. InHand \subseteq dropped' /\ \A i \in 1 .. sync.at : sync.batch[i].no \in dropped'
  <2>1. \A i \in Left : i \in 1 .. Len(sync.batch)
    BY <1>1, InHandType
  <2> QED
    BY <1>2, <1>5, <2>1 DEF InHand, Left
<1>12. sync.pass = 2 => Due = {}
  BY <1>2 DEF Flushed, DueTaken
<1>13. DueTaken'
  <2>1. CASE sync'.pc = "rest" \/ sync'.pass = sync.pass
    BY <1>2, <2>1, PassKeeps
  <2>2. CASE Ended
    BY <2>2 DEF Ended, Idle, DueTaken
  <2> QED
    BY <1>4, <2>1, <2>2
<1>14. Flushed'
  BY <1>2, <1>3, <1>4, <1>7, <1>11, <1>12, <1>13, BatchLeft
<1> QED
  BY <1>9, <1>10, <1>14

-----------------------------------------------------------------------------
(* The next start.                                                          *)

LEMMA RecoveredType ==
    ASSUME NEW o, Legible(o), NEW k \in Keys
    PROVE  Recovered(o, k) \in Nat
<1> DEFINE R == Reopened(o)
<1>1. R.index \subseteq Entries /\ R.disk \in [PageNos -> Content]
  BY ReopenedParts
<1>2. Recovered(o, k) = Find(R.index, R.disk, k)
  BY DEF Recovered
<1> HIDE DEF R
<1>3. CASE Covering(R.index, k) = {}
  BY <1>2, <1>3 DEF Find
<1>4. CASE Covering(R.index, k) # {}
  <2> DEFINE e == CHOOSE e \in Covering(R.index, k) : TRUE
  <2>1. e \in R.index
    BY <1>4 DEF Covering
  <2>2. Recovered(o, k) = R.disk[e.no].recs[k]
    BY <1>2, <1>4 DEF Find
  <2> HIDE DEF e
  <2>3. e.no \in PageNos
    BY <1>1, <2>1, EntryType
  <2>4. R.disk[e.no].recs[k] \in 0 .. MaxVer
    BY <1>1, <2>3 DEF Content
  <2> QED
    BY <2>2, <2>4, NormalPartAssumption
<1> QED
  BY <1>3, <1>4

LEMMA CrashKept ==
    ASSUME IInv, LInv, Placed, damaged = {}, Crash
    PROVE  Placed' /\ DirtyKnown' /\ RedoKept'
<1>1. TypeOK
  BY DEF IInv
<1>2. TypeOK' /\ sync'.pc = "redo" /\ \A p \in PageNos : pool'[p] = Absent
  BY <1>1, CrashStep
<1>3. PICK o \in CrashOutcomes :
         /\ disk' = o.disk /\ idxFile' = o.idxFile /\ dw' = o.dw /\ index' = o.idxFile
         /\ sync' = [Idle EXCEPT !.pc = "redo", !.batch = o.dw]
         /\ safe' = [k \in Keys |-> IF safe[k] <= Recovered(o, k) THEN safe[k] ELSE 0]
  BY DEF Crash
<1>4. marked' = NoRecs /\ sync'.batch = dw' /\ sync'.at = 0
  BY <1>3 DEF Crash, Idle
<1>5. Legible(o)
  BY OutcomeLegible
<1>6. Placed'
  <2>1. Once(dw')
    BY <1>3, <1>5 DEF Legible, Once
  <2>2. Writing'
    BY <1>2 DEF Writing
  <2> QED
    BY <1>4, <2>1, <2>2, NoCopies DEF Placed, Once
<1>7. DirtyKnown'
  BY <1>2, ContentTypes DEF DirtyKnown
<1>8. PICK r : r = Now'
  OBVIOUS
<1>9. r.disk = o.disk /\ r.idxFile = o.idxFile /\ r.dw = o.dw
  BY <1>3, <1>8 DEF Now, FilesOf
<1>10. Reopened(r) = Reopened(o)
  BY <1>5, <1>9, RedoCovers DEF Legible
<1>11. \A k \in Keys : safe'[k] <= Recovered(o, k)
  <2>1. \A k \in Keys : 0 <= Recovered(o, k)
    BY <1>5, RecoveredType
  <2> QED
    BY <1>3, <2>1
<1>12. \A k \in Keys : safe'[k] <= Recovered(r, k)
  BY <1>10, <1>11 DEF Recovered
<1>13. \A k \in Keys : Recovered(Now, k)' = Recovered(r, k)
  BY <1>8 DEF Recovered
<1>14. RedoKept'
  BY <1>3, <1>4, <1>12, <1>13, NoCopies DEF RedoKept
<1> QED
  BY <1>6, <1>7, <1>14

LEMMA RedoStays ==
    ASSUME IInv, Redone, Placed, DirtyKnown, RedoKept, Legible(Now), Redo
    PROVE  Placed' /\ DirtyKnown' /\ RedoKept'
<1> DEFINE b == sync.batch[sync.at + 1]
           new == Entry(b.ts, b.no)
           all == idxFile \cup CopyEntries(idxFile, dw)
<1>1. TypeOK /\ Control
  BY DEF IInv
<1>2. /\ sync.pc = "redo" /\ sync'.pc = "redo"
      /\ sync'.batch = sync.batch /\ sync'.at = sync.at + 1
      /\ sync.at \in Nat /\ Len(sync.batch) \in Nat /\ sync.at < Len(sync.batch)
      /\ dw = sync.batch /\ b \in CopiesOf(dw) /\ b.no \in PageNos
      /\ disk' = [disk EXCEPT ![b.no] = Kept(b)]
      /\ index' = index \cup (IF \E e \in index : e.ts = b.ts THEN {} ELSE {new})
      /\ UNCHANGED <<idxFile, dw>>
  BY RedoWrites
<1>3. TypeOK' /\ UNCHANGED <<pool, safe, marked>>
  BY <1>1, RedoStep DEF Redo, history
<1>4. PICK a \in Nat, l \in Nat : a = sync.at /\ l = Len(sync.batch) /\ a < l
  BY <1>2
<1>5. b = sync.batch[a + 1] /\ a + 1 \in 1 .. l
  BY <1>4
<1>6. new.ts = b.ts /\ (b.ts # 0 \/ ~Zero(idxFile) => new \in CopyEntries(idxFile, dw))
  BY <1>2 DEF CopyEntries, Entry
<1> HIDE DEF b
<1>7. disk'[b.no] = Kept(b) /\ \A p \in PageNos : p # b.no => disk'[p] = disk[p]
  BY <1>1, <1>2 DEF TypeOK
<1>8. \A i \in 1 .. a + 1 : i = a + 1 \/ (i \in 1 .. a /\ i \in 1 .. l)
  BY <1>4
<1>9. Placed'
  <2>1. ASSUME NEW i \in 1 .. a + 1
        PROVE  disk'[sync.batch[i].no] = Kept(sync.batch[i])
    <3>1. CASE i = a + 1
      BY <3>1, <1>5, <1>7
    <3>2. CASE i # a + 1
      <4>1. i \in 1 .. a /\ i \in 1 .. l
        BY <3>2, <1>8
      <4>2. sync.batch[i].no \in PageNos
        BY <4>1, <1>1, <1>4, BatchPage
      <4>3. sync.batch[i].no # b.no
        BY <3>2, <4>1, <1>2, <1>4, <1>5 DEF Placed, Once
      <4> QED
        BY <4>1, <4>2, <4>3, <1>4, <1>7 DEF Placed
    <3> QED
      BY <3>1, <3>2
  <2>2. Once(dw') /\ dw' = sync'.batch /\ Writing'
    BY <1>2 DEF Placed, Once, Writing
  <2> QED
    BY <2>1, <2>2, <1>2, <1>4 DEF Placed
<1>10. DirtyKnown'
  <2>1. \A p \in PageNos : ~IsDirty(pool'[p])
    BY <1>1, <1>2, <1>3, ContentTypes DEF Control
  <2> QED
    BY <2>1 DEF DirtyKnown
<1> HIDE DEF new
<1>11. index \subseteq index' /\ index' \subseteq index \cup {new}
  BY <1>2
<1>12. index' \subseteq all
  <2>1. index \subseteq all
    BY DEF RedoKept
  <2>2. CASE b.ts # 0 \/ ~Zero(idxFile)
    BY <2>1, <2>2, <1>6, <1>11
  <2>3. CASE b.ts = 0 /\ Zero(idxFile)
    <3>1. \E e \in index : e.ts = b.ts
      BY <2>3 DEF Zero, Redone
    <3> QED
      BY <2>1, <3>1, <1>2
  <2> QED
    BY <2>2, <2>3
<1>13. b.ts # 0 \/ ~Zero(idxFile) => new \in index'
  <2> HAVE b.ts # 0 \/ ~Zero(idxFile)
  <2>1. ASSUME NEW e \in index, e.ts = b.ts
        PROVE  e = new
    BY <2>1, <1>6 DEF Redone, Distinct
  <2> QED
    BY <2>1, <1>2
<1>14. ASSUME NEW i \in 1 .. a + 1, sync.batch[i].ts # 0 \/ ~Zero(idxFile)
       PROVE  Entry(sync.batch[i].ts, sync.batch[i].no) \in index'
  <2>1. CASE i = a + 1
    BY <2>1, <1>5, <1>13, <1>14 DEF new
  <2>2. CASE i # a + 1
    BY <2>2, <1>4, <1>8, <1>11, <1>14 DEF RedoKept
  <2> QED
    BY <2>1, <2>2
<1>15. PICK r : r = Now'
  OBVIOUS
<1>16. /\ r.disk = disk' /\ r.idxFile = idxFile /\ r.dw = dw
       /\ Now.disk = disk /\ Now.idxFile = idxFile /\ Now.dw = dw
  BY <1>2, <1>15 DEF Now, FilesOf
<1>17. Reopened(r) = Reopened(Now)
  <2>1. \A p \in PageNos : r.disk[p] = Now.disk[p] \/ \E c \in CopiesOf(Now.dw) : c.no = p
    BY <1>2, <1>7, <1>16
  <2>2. r.disk \in [PageNos -> Content]
    BY <1>3, <1>16 DEF TypeOK
  <2> QED
    BY <2>1, <2>2, <1>16, RedoCovers
<1>18. \A k \in Keys : safe[k] <= Recovered(r, k)
  BY <1>17 DEF RedoKept, Recovered
<1>19. \A k \in Keys : Recovered(Now, k)' = Recovered(r, k)
  BY <1>15 DEF Recovered
<1>20. CopyEntries(idxFile', dw') = CopyEntries(idxFile, dw)
  BY <1>2 DEF CopyEntries, CopiesOf, Zero
<1>21. RedoKept'
  <2>1. \A i \in 1 .. sync'.at : sync'.batch[i].ts # 0 \/ ~Zero(idxFile') =>
                                    Entry(sync'.batch[i].ts, sync'.batch[i].no) \in index'
    BY <1>2, <1>4, <1>14 DEF Zero
  <2>2. index' \subseteq idxFile' \cup CopyEntries(idxFile', dw')
    BY <1>2, <1>12, <1>20
  <2>3. marked' = NoRecs /\ \A k \in Keys : safe'[k] <= Recovered(Now, k)'
    BY <1>3, <1>18, <1>19 DEF RedoKept
  <2> QED
    BY <2>1, <2>2, <2>3 DEF RedoKept
<1> QED
  BY <1>9, <1>10, <1>21

\* What RecoverDW ends with is what it was going to end with all along.
LEMMA EndRedoKept ==
    ASSUME IInv, Redone, Placed, DirtyKnown, RedoKept, Legible(Now), EndRedo, Filled'
    PROVE  Placed' /\ DirtyKnown' /\ Flushed'
<1>1. TypeOK /\ Control
  BY DEF IInv
<1>2. TypeOK' /\ sync.pc = "redo" /\ sync' = Idle /\ UNCHANGED <<pool, dirtyList, disk, dropped>>
  BY <1>1, EndRedoStep
<1>3. /\ sync.at = Len(sync.batch) /\ idxFile' = index /\ index' = index /\ dw' = <<>>
      /\ latest' = [k \in Keys |-> Find(index, disk, k)]
      /\ UNCHANGED <<marked, safe>>
  BY DEF EndRedo, memVars
<1>4. /\ sync'.at = 0 /\ sync'.batch = <<>> /\ ~Writing' /\ sync'.pass = 1 /\ Left' = {}
      /\ CopiesOf(sync'.batch) = {} /\ CopiesOf(dw') = {}
  <2>1. sync'.at = 0 /\ sync'.batch = <<>> /\ sync'.pass = 1 /\ sync'.pc = "idle"
    BY <1>2 DEF Idle
  <2> QED
    BY <1>3, <2>1, NoCopies, EmptyBuffer DEF Writing
<1>5. \A p \in PageNos : ~IsDirty(pool'[p]) /\ ~pool'[p].init
  BY <1>1, <1>2, ContentTypes DEF Control
<1>6. Placed'
  <2>1. Once(dw')
    BY <1>3, IdleType, NoCopies DEF Once
  <2> QED
    BY <1>4, <2>1, NoCopies DEF Placed
<1>7. DirtyKnown'
  BY <1>5 DEF DirtyKnown
<1>8. /\ Now.disk = disk /\ Now.idxFile = idxFile /\ Now.dw = dw
  BY DEF Now, FilesOf
<1> DEFINE R == Reopened(Now)
<1>9. /\ R.index = idxFile \cup CopyEntries(idxFile, dw)
      /\ R.disk \in [PageNos -> Content]
      /\ \A c \in CopiesOf(dw) : R.disk[c.no] = Kept(c)
      /\ \A p \in PageNos : (\A c \in CopiesOf(dw) : c.no # p) => R.disk[p] = disk[p]
  BY <1>8, ReopenedParts
<1> HIDE DEF R
<1>10. R.disk = disk
  <2>1. \A c \in CopiesOf(dw) : disk[c.no] = Kept(c)
    BY <1>3 DEF Placed, Redone, CopiesOf
  <2>2. \A p \in PageNos : R.disk[p] = disk[p]
    BY <1>9, <2>1
  <2> QED
    BY <1>1, <1>9, <2>2 DEF TypeOK
<1>11. R.index = index
  <2>1. CopyEntries(idxFile, dw) \subseteq index
    BY <1>3 DEF CopyEntries, CopiesOf, RedoKept, Redone
  <2> QED
    BY <1>9, <2>1 DEF RedoKept, Redone
<1>12. \A k \in Keys : latest'[k] = Recovered(Now, k)
  BY <1>3, <1>10, <1>11 DEF Recovered, R
<1>13. \A k \in Keys : safe[k] <= latest'[k] /\ 0 <= latest'[k] /\ marked[k] = 0
  <2>1. \A k \in Keys : Recovered(Now, k) \in Nat
    BY RecoveredType
  <2> QED
    BY <1>12, <2>1 DEF RedoKept, NoRecs
<1>14. EntryKept' /\ NewMarked' /\ DueTaken'
  BY <1>3, <1>4 DEF EntryKept, NewMarked, DueTaken
<1>15. Reached'
  BY <1>3, <1>13 DEF Reached
<1>16. ValueKept'
  <2>1. ASSUME NEW e \in index, NEW k \in Keys, e \in Covering(index, k)
        PROVE  disk[e.no].recs[k] = latest'[k]
    <3>1. e.no \in PageNos
      BY <1>1, EntryType DEF TypeOK
    <3>2. Page(e.no)'.recs = disk[e.no].recs
      BY <1>2, <1>5, <3>1, PageTypeAfter
    <3>3. \A f \in index' : \A j \in Keys : f \in Covering(index', j) => Page(f.no)'.recs[j] = latest'[j]
      BY DEF Filled, Right
    <3>4. Page(e.no)'.recs[k] = latest'[k]
      BY <1>3, <2>1, <3>3
    <3> QED
      BY <3>2, <3>4
  <2> QED
    BY <1>2, <1>3, <1>4, <1>13, <2>1 DEF ValueKept
<1> QED
  BY <1>6, <1>7, <1>14, <1>15, <1>16 DEF Flushed

-----------------------------------------------------------------------------

LEMMA InitKept == Init => GInv
<1> SUFFICES ASSUME Init PROVE GInv
  OBVIOUS
<1>1. IInv
  BY InitInv
<1>2. /\ index = {} /\ idxFile = {} /\ pool = [p \in PageNos |-> Absent] /\ sync = Idle
      /\ dw = <<>> /\ latest = NoRecs /\ marked = NoRecs /\ safe = NoRecs
  BY DEF Init
<1>3. sync.pc = "idle" /\ sync.pass = 1 /\ sync.at = 0 /\ sync.batch = <<>>
  BY <1>2 DEF Idle
<1>4. CopiesOf(dw) = {} /\ CopiesOf(sync.batch) = {} /\ Left = {}
  BY <1>2, <1>3, NoCopies, EmptyBuffer
<1>5. Placed
  <2>1. Once(dw)
    BY <1>2, IdleType, NoCopies DEF Once
  <2> QED
    BY <1>3, <1>4, <2>1, NoCopies DEF Placed, Writing
<1>6. DirtyKnown
  BY <1>2, ContentTypes DEF DirtyKnown
<1>7. Reached
  BY <1>2 DEF Reached, NoRecs
<1>8. EntryKept /\ NewMarked /\ DueTaken /\ ValueKept
  BY <1>2, <1>3, <1>4 DEF EntryKept, NewMarked, DueTaken, ValueKept
<1> QED
  BY <1>3, <1>5, <1>6, <1>7, <1>8 DEF GInv, Flushed

LEMMA NextKept == IInv /\ LInv /\ GInv /\ [Next]_vars => GInv'
<1> SUFFICES ASSUME IInv, LInv, GInv, [Next]_vars, damaged' = {}
             PROVE  /\ Placed' /\ DirtyKnown'
                    /\ sync'.pc = "redo" => RedoKept'
                    /\ sync'.pc # "redo" => Flushed'
  BY DEF GInv
<1>1. TypeOK /\ Control /\ TypeOK'
  BY NextInv DEF IInv
<1>2. CASE UNCHANGED vars
  <2>1. UNCHANGED <<index, pool, dirtyList, sync, disk, idxFile, dw, latest, marked, safe, dropped, damaged>>
    BY <1>2 DEF vars, memVars, diskVars, history
  <2>2. /\ Placed /\ DirtyKnown
        /\ sync.pc = "redo" => RedoKept
        /\ sync.pc # "redo" => Flushed
    BY <2>1 DEF GInv
  <2>3. Placed' /\ DirtyKnown'
    BY <2>1, <2>2 DEF Placed, DirtyKnown, Once, Writing, CopiesOf, HasEntry
  <2>4. RedoKept => RedoKept'
    <3>1. Now' = Now
      BY <2>1 DEF Now, FilesOf
    <3>2. \A k \in Keys : Recovered(Now, k)' = Recovered(Now, k)
      BY <3>1 DEF Recovered
    <3>3. CopyEntries(idxFile', dw') = CopyEntries(idxFile, dw)
      BY <2>1 DEF CopyEntries, CopiesOf, Zero
    <3>4. Zero(idxFile') <=> Zero(idxFile)
      BY <2>1 DEF Zero
    <3> QED
      BY <2>1, <3>2, <3>3, <3>4 DEF RedoKept
  <2>5. Flushed => Flushed'
    <3>1. Due' = Due /\ Left' = Left /\ CopiesOf(sync'.batch) = CopiesOf(sync.batch)
      BY <2>1 DEF Due, Left, CopiesOf
    <3> QED
      BY <2>1, <3>1 DEF Flushed, EntryKept, NewMarked, DueTaken, Reached, ValueKept
  <2> QED
    BY <2>1, <2>2, <2>3, <2>4, <2>5
<1>3. CASE Next
  <2>1. damaged = {}
    BY <1>3 DEF Next
  <2>2. /\ sync.pc = "redo" => Redone /\ RedoKept
        /\ sync.pc # "redo" => Filled /\ Flushed
        /\ Placed /\ DirtyKnown
    BY <2>1 DEF LInv, GInv
  <2>3. LInv'
    BY NextFilled
  <2>4. Legible(Now)
    <3>1. Now \in CrashOutcomes
      BY DEF CrashOutcomes
    <3> QED
      BY <2>1, <2>2, <3>1, OutcomeLegible
  <2>5. ASSUME NEW k \in Keys, InsertRec(k)
        PROVE  sync'.pc # "redo" /\ Placed' /\ DirtyKnown' /\ Flushed'
    <3>1. sync.pc # "redo" /\ sync' = sync
      BY <2>5 DEF InsertRec, InsertFirst, InsertInPage, InsertAfter, InsertSplit, Accept
    <3> QED
      BY <1>1, <2>2, <2>5, <3>1, InsertKept
  <2>6. ASSUME NEW p \in PageNos, Evict(p)
        PROVE  sync'.pc # "redo" /\ Placed' /\ DirtyKnown' /\ Flushed'
    <3>1. sync' = sync /\ pool[p].init
      BY <2>6 DEF Evict
    <3>2. sync.pc # "redo"
      BY <3>1, <1>1, ContentTypes DEF Control
    <3> QED
      BY <2>2, <2>6, <3>1, <3>2, EvictKept
  <2>7. ASSUME NEW all \in BOOLEAN, Mark(all)
        PROVE  sync'.pc # "redo" /\ Placed' /\ DirtyKnown' /\ Flushed'
    <3>1. sync.pc = "idle" /\ sync'.pc = "split"
      BY <2>7, <1>1, MarkStep
    <3> QED
      BY <2>2, <2>7, <3>1, MarkKept
  <2>8. CASE TakeSplit \/ TakeRest
    <3>1. sync.pc \in {"split", "rest"}
      BY <2>8 DEF TakeSplit, TakeRest
    <3>2. sync.vec = NoVec /\ sync.batch = <<>> /\ sync.at = 0
      BY <1>1, <3>1 DEF Control
    <3>3. sync'.pc \in {"rest", "copy", "idle"}
      BY <2>8, <3>2, <1>1, TakeSplitStep, TakeRestStep
    <3> QED
      BY <2>2, <2>8, <3>1, <3>3, TakeKept
  <2>9. ASSUME NEW p \in PageNos, CopyPage(p)
        PROVE  sync'.pc # "redo" /\ Placed' /\ DirtyKnown' /\ Flushed'
    <3>1. sync.pc = "copy" /\ Len(sync.batch) < BatchSize
      BY <2>9, <1>1 DEF CopyPage, Control
    <3>2. sync'.pc \in {"dw", "copy"}
      BY <2>9, <3>1, <1>1, CopyPageStep
    <3> QED
      BY <2>2, <2>9, <3>1, <3>2, CopyKept
  <2>10. CASE WriteDw
    <3>1. sync.pc = "dw" /\ sync'.pc = "data"
      BY <2>10, <1>1, WriteDwStep
    <3> QED
      BY <2>2, <2>10, <3>1, WriteDwKept
  <2>11. CASE WriteData
    <3>1. sync.pc = "data" /\ sync.at < Len(sync.batch)
      BY <2>11, <1>1 DEF WriteData, Control
    <3>2. sync'.pc \in {"data", "index"}
      BY <2>11, <3>1, <1>1, WriteDataStep
    <3> QED
      BY <2>2, <2>11, <3>1, <3>2, WriteDataKept
  <2>12. CASE WriteIdx \/ WriteIdxFails
    <3>1. sync.pc = "index" /\ sync'.pc # "redo"
      BY <2>12, <1>1, WriteIdxStep DEF Emptied
    <3> QED
      BY <2>2, <2>12, <3>1, WriteIdxKept
  <2>13. CASE WriteFails
    <3>1. sync.pc # "redo" /\ sync'.pc # "redo"
      BY <2>13, <1>1, WriteFailsStep DEF Emptied, Control
    <3> QED
      BY <2>2, <2>13, <3>1, WriteFailsKept
  <2>14. CASE Crash
    BY <2>1, <2>2, <2>14, <1>1, CrashStep, CrashKept
  <2>15. CASE Redo
    BY <2>2, <2>4, <2>15, <1>1, RedoStep, RedoStays
  <2>16. CASE EndRedo
    <3>1. sync.pc = "redo" /\ sync'.pc # "redo"
      BY <2>16, <1>1, EndRedoStep, IdleType
    <3>2. Filled'
      BY <2>3, <3>1 DEF LInv
    <3> QED
      BY <2>2, <2>4, <2>16, <3>1, <3>2, EndRedoKept
  <2> QED
    BY <1>3, <2>5, <2>6, <2>7, <2>8, <2>9, <2>10, <2>11, <2>12, <2>13, <2>14, <2>15, <2>16 DEF Next
<1> QED
  BY <1>2, <1>3

\* What a finished full sync has written survives a power failure at any later moment,
\* of a start that is cut off as well, but for a record in transit; and a page holds
\* records of another one after it only if a split has moved them there.
THEOREM FlushedSurvives == Spec => []FlushedStays
<1>1. Init => IInv /\ LInv /\ GInv
  BY InitInv, InitFilled, InitKept
<1>2. IInv /\ LInv /\ GInv /\ [Next]_vars => (IInv /\ LInv /\ GInv)'
  BY NextInv, NextFilled, NextKept
<1>3. IInv /\ LInv /\ GInv => FlushedStays
  BY FlushedRead
<1> QED
  BY <1>1, <1>2, <1>3, PTL DEF Spec

\* Both together, also of values that replace others.
THEOREM ValuesStay == Spec => []ValuesKept
BY LookupsLatest, FlushedSurvives, PTL DEF ValuesKept
=============================================================================
