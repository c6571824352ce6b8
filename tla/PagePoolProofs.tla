---------------------------- MODULE PagePoolProofs ----------------------------
(***************************************************************************)
(* Proofs about PagePool, for every number of threads, frames and parts.   *)
(*                                                                         *)
(* The copy of a page in the pool is the newest one for three reasons.  A  *)
(* count is the number of threads that hold the frame (Counted): a thread  *)
(* changes it by what it holds, unless an unlocked decrement met another   *)
(* change, which sets raced.  A frame that a thread holds is therefore not *)
(* taken for another page (HeldPage), and one that is dirty is not taken   *)
(* either, so a page is read from its file only when the file has it       *)
(* (Versions).  And a page may have two frames, since ClearPageForMask     *)
(* leaves the frames of a removed part in the list while their pages leave *)
(* the map; but only a part past the insert window is removed, and no      *)
(* thread inserts into it any more (Settled, Orphans), so that the second  *)
(* frame is the same or is never read again; if a failed write had left it *)
(* dirty, its part is detached without what is only there.  A new page is  *)
(* made empty in its frame, and nobody else has it before it is filled     *)
(* (Chosen).                                                               *)
(*                                                                         *)
(* After a race the counts are wrong, and only what Bounded says remains:  *)
(* an increment adds one for a thread that was attaching and that now no   *)
(* longer is, so counts and loaded counts stay within the threads.         *)
(***************************************************************************)
EXTENDS PagePool, FiniteSetTheorems, SequenceTheorems, TLAPS

-----------------------------------------------------------------------------
(* The inductive invariant.                                                *)

UserType == [pc : {"idle", "alloc", "get", "scan", "wait", "read", "use", "split", "held", "release"},
             op : {"insert", "query", "alloc"}, page : Pages \cup {NoPage}, at : 0 .. FrameCnt, seen : Nat]
FrameType == [code : Pages \cup {NoPage}, ref : Nat, dirty : BOOLEAN, init : BOOLEAN, ver : Nat]

Getting == {u \in Users : user[u].pc \in {"alloc", "get", "scan", "wait"}}
Holding(u, f) == user[u].pc \in {"read", "use", "split", "held", "release"} /\ user[u].at = f
Holders(f) == {u \in Users : Holding(u, f)}
Listed(f) == f \in dirtyList \cup sync.todo \cup sync.copied

\* The values of the variables.
FrameTypes == frame \in [Frames -> FrameType]
UserTypes ==
    /\ user \in [Users -> UserType]
    /\ \A u \in Users : /\ user[u].pc # "idle" => user[u].page \in Pages
                        /\ user[u].pc = "idle" => user[u].op = "query"
                        /\ user[u].pc = "split" => user[u].op = "insert"
                        /\ user[u].pc \in {"read", "use", "split", "held", "release"} => user[u].at \in Frames
PageTypes == pageMap \in [Pages -> 0 .. FrameCnt] /\ disk \in [Pages -> Nat] /\ newest \in [Pages -> Nat]
SyncTypes ==
    /\ dirtyList \in SUBSET Frames /\ stranded \in SUBSET Frames
    /\ sync \in [todo : SUBSET Frames, copied : SUBSET Frames, ver : [Frames -> Nat],
                 wrote : BOOLEAN, failed : BOOLEAN]
PartTypes ==
    /\ phase \in {"redo", "up"} /\ raced \in BOOLEAN /\ admin \in 0 .. MaxAdmin /\ fails \in 0 .. MaxFails
    /\ pageMutex \in [PageNos -> Threads \cup {"none"}] /\ old \in SUBSET Parts
    /\ place \in [Parts -> {"in", "leaving", "out"}]
Types == FrameTypes /\ UserTypes /\ PageTypes /\ SyncTypes /\ PartTypes

\* No frame is twice in the lists.
Lists ==
    /\ useCacheSize \in AllocCnt .. FrameCnt /\ \E n \in Nat : useCacheSize = n * AllocCnt
    /\ readList \in Seq(1 .. useCacheSize) /\ freeList \in Seq(1 .. useCacheSize)
    /\ IsInjective(readList) /\ IsInjective(freeList) /\ Range(readList) \cap Range(freeList) = {}

\* A frame in the free list, or not yet allocated, is as it was made; one that is referred to is
\* not.
Fresh ==
    /\ \A i \in 1 .. Len(freeList) : frame[freeList[i]] = Cleared
    /\ \A f \in Frames : f > useCacheSize => frame[f] = Cleared
    /\ \A u \in Users, f \in Frames : Holding(u, f) => frame[f].code # NoPage

\* A dirty frame waits in one place to be written, or has been left by a failed write.
Dirt ==
    /\ \A f \in Frames : frame[f].dirty <=> Listed(f) \/ f \in stranded
    /\ sync.todo \cap sync.copied = {} /\ dirtyList \cap (sync.todo \cup sync.copied) = {}
    /\ \A f \in stranded : ~Listed(f)
    /\ \A f \in Frames : frame[f].dirty => frame[f].code \in Pages

MapExact == \A c \in Pages : pageMap[c] # 0 => frame[pageMap[c]].code = c

\* What a thread adds to a count it adds once.
Bounded ==
    /\ \A f \in Frames : frame[f].ref + Cardinality(Getting) <= Cardinality(Users)
    /\ \A u \in Users : user[u].pc = "release" => user[u].seen + Cardinality(Getting) <= Cardinality(Users)

\* A frame that a thread holds has its page, and counts the threads that hold it; one thread at a
\* time is between the load and the store of a count.
HeldPage == \A u \in Users, f \in Frames : Holding(u, f) => frame[f].code = user[u].page
Counted == \A f \in Frames : frame[f].ref = Cardinality(Holders(f))
Loaded ==
    /\ \A u \in Users : user[u].pc = "release" => user[u].seen = frame[user[u].at].ref
    /\ \A u, v \in Users : user[u].pc = "release" /\ user[v].pc = "release" /\ user[u].at = user[v].at => u = v

\* The page that an AllocPage has chosen is nobody else's, and nothing was inserted into it.
Chosen ==
    \A u \in Users : user[u].op = "alloc" =>
       /\ user[u].page \in NewPages /\ newest[user[u].page] = 0
       /\ \A v \in Users \ {u} : user[v].page # user[u].page

\* A frame that the map does not give for its page has only pages of a part that was removed from
\* the table once: it takes no more inserts, and what is dirty of it nobody will read or write.
Mapped(f) == frame[f].code \in Pages /\ pageMap[frame[f].code] = f
Settled(p) ==
    /\ p \in old
    /\ \A u \in Users : user[u].op # "query" => user[u].page[1] # p
    /\ \A f \in Frames : frame[f].dirty /\ frame[f].code[1] = p => f \in stranded /\ ~Mapped(f)
Orphans ==
    /\ \A f \in Frames : frame[f].code \in Pages /\ ~Mapped(f) => Settled(frame[f].code[1])
    /\ \A p \in Parts : place[p] = "leaving" => p \in old

\* Where the newest version of a page is.
Versions ==
    /\ \A f \in Frames : frame[f].dirty => frame[f].init
    /\ \A f \in Frames : frame[f].init /\ (Mapped(f) \/ \E u \in Users : Holding(u, f))
                         => frame[f].ver = newest[frame[f].code]
    /\ \A u \in Users : user[u].pc \in {"use", "split"} => frame[user[u].at].init
    /\ \A c \in Pages : (pageMap[c] # 0 => ~frame[pageMap[c]].dirty) => disk[c] = newest[c]

Exact == HeldPage /\ Counted /\ Loaded /\ Chosen /\ Orphans /\ Versions
IInv == Types /\ Lists /\ Fresh /\ Dirt /\ MapExact /\ Bounded /\ (raced \/ Exact)

-----------------------------------------------------------------------------
(* The LRU list.                                                           *)

\* What RemoveAt of the community modules returns.
LEMMA RemovedAt ==
    ASSUME NEW S, NEW s \in Seq(S), NEW k \in 1 .. Len(s)
    PROVE  /\ RemoveAt(s, k) \in Seq(S) /\ Len(RemoveAt(s, k)) = Len(s) - 1
           /\ \A j \in 1 .. Len(s) - 1 : RemoveAt(s, k)[j] = IF j < k THEN s[j] ELSE s[j + 1]
<1> DEFINE a == SubSeq(s, 1, k - 1)
           b == SubSeq(s, k + 1, Len(s))
<1>1. RemoveAt(s, k) = a \o b
  BY DEF RemoveAt
<1>2. a \in Seq(S) /\ Len(a) = k - 1 /\ \A j \in 1 .. k - 1 : a[j] = s[j]
  OBVIOUS
<1>3. b \in Seq(S) /\ Len(b) = Len(s) - k /\ \A j \in 1 .. Len(s) - k : b[j] = s[k + j]
  OBVIOUS
<1> HIDE DEF a, b
<1>4. /\ a \o b \in Seq(S) /\ Len(a \o b) = Len(s) - 1
      /\ \A j \in 1 .. Len(s) - 1 : (a \o b)[j] = IF j <= k - 1 THEN a[j] ELSE b[j - (k - 1)]
  BY <1>2, <1>3, ConcatProperties
<1>5. ASSUME NEW j \in 1 .. Len(s) - 1
      PROVE  (a \o b)[j] = IF j < k THEN s[j] ELSE s[j + 1]
  <2>1. CASE j < k
    <3>1. j \in 1 .. k - 1
      BY <2>1
    <3> QED
      BY <3>1, <2>1, <1>2, <1>4
  <2>2. CASE j >= k
    <3>1. j - (k - 1) \in 1 .. Len(s) - k /\ k + (j - (k - 1)) = j + 1 /\ ~(j <= k - 1)
      BY <2>2
    <3>2. b[j - (k - 1)] = s[j + 1]
      BY <3>1, <1>3
    <3> QED
      BY <3>1, <3>2, <2>2, <1>4
  <2>3. j < k \/ j >= k
    OBVIOUS
  <2> QED
    BY <2>1, <2>2, <2>3
<1> QED
  BY <1>1, <1>4, <1>5

\* A frame that is moved to the front is in the list once, and nothing else changes its presence.
LEMMA MovedToFront ==
    ASSUME NEW S, NEW f \in S, readList \in Seq(S), IsInjective(readList)
    PROVE  /\ MoveToFront(f) \in Seq(S) /\ IsInjective(MoveToFront(f))
           /\ Range(MoveToFront(f)) = Range(readList) \cup {f}
<1> DEFINE s == readList
<1>1. ASSUME NEW t \in Seq(S), IsInjective(t), f \notin Range(t)
      PROVE  <<f>> \o t \in Seq(S) /\ IsInjective(<<f>> \o t) /\ Range(<<f>> \o t) = Range(t) \cup {f}
  <2>1. /\ <<f>> \o t \in Seq(S) /\ Len(<<f>> \o t) = Len(t) + 1 /\ (<<f>> \o t)[1] = f
        /\ \A j \in 1 .. Len(t) : (<<f>> \o t)[j + 1] = t[j]
    OBVIOUS
  <2>2. \A i \in 2 .. Len(t) + 1 : i - 1 \in 1 .. Len(t) /\ (<<f>> \o t)[i] = t[i - 1]
    BY <2>1
  <2>3. \A i \in 1 .. Len(t) : t[i] # f
    BY <1>1 DEF Range
  <2>4. \A i, j \in 1 .. Len(t) + 1 : (<<f>> \o t)[i] = (<<f>> \o t)[j] => i = j
    BY <2>1, <2>2, <2>3, <1>1 DEF IsInjective
  <2>5. IsInjective(<<f>> \o t)
    BY <2>1, <2>4 DEF IsInjective
  <2>6. \A x : x \in Range(<<f>> \o t) <=> x = f \/ x \in Range(t)
    <3>1. DOMAIN (<<f>> \o t) = 1 .. Len(t) + 1 /\ DOMAIN t = 1 .. Len(t)
      BY <2>1
    <3>2. \A x : x \in Range(t) <=> \E i \in 1 .. Len(t) : t[i] = x
      BY <3>1 DEF Range
    <3>3. \A x : x \in Range(<<f>> \o t) <=> \E i \in 1 .. Len(t) + 1 : (<<f>> \o t)[i] = x
      BY <3>1 DEF Range
    <3>4. \A i \in 1 .. Len(t) : i + 1 \in 1 .. Len(t) + 1
      OBVIOUS
    <3>5. 1 \in 1 .. Len(t) + 1 /\ \A i \in 1 .. Len(t) + 1 : i = 1 \/ i \in 2 .. Len(t) + 1
      OBVIOUS
    <3> QED
      BY <2>1, <2>2, <3>2, <3>3, <3>4, <3>5
  <2> QED
    BY <2>1, <2>5, <2>6
<1>2. CASE f \notin Range(s)
  BY <1>1, <1>2 DEF MoveToFront
<1>3. CASE f \in Range(s)
  <2> DEFINE k == CHOOSE i \in DOMAIN s : s[i] = f
             t == RemoveAt(s, k)
  <2>1. k \in 1 .. Len(s) /\ s[k] = f
    BY <1>3 DEF Range
  <2>2. MoveToFront(f) = <<f>> \o t
    BY <1>3 DEF MoveToFront
  <2> HIDE DEF k
  <2>3. /\ t \in Seq(S) /\ Len(t) = Len(s) - 1
        /\ \A j \in 1 .. Len(s) - 1 : t[j] = IF j < k THEN s[j] ELSE s[j + 1]
    BY <2>1, RemovedAt
  <2> HIDE DEF t
  <2>4. \A i, j \in 1 .. Len(s) : s[i] = s[j] => i = j
    BY DEF IsInjective
  <2>5. \A j \in 1 .. Len(t) : t[j] # f
    BY <2>1, <2>3, <2>4
  <2>6. \A i, j \in 1 .. Len(t) : t[i] = t[j] => i = j
    BY <2>1, <2>3, <2>4
  <2>7. IsInjective(t) /\ f \notin Range(t)
    BY <2>3, <2>5, <2>6 DEF IsInjective, Range
  <2>8. \A i \in 1 .. Len(s) : i # k => \E j \in 1 .. Len(t) : t[j] = s[i]
    <3> TAKE i \in 1 .. Len(s)
    <3>1. CASE i < k
      BY <3>1, <2>1, <2>3
    <3>2. CASE i > k
      <4>1. i - 1 \in 1 .. Len(t) /\ t[i - 1] = s[i]
        BY <3>2, <2>1, <2>3
      <4> QED
        BY <4>1
    <3> QED
      BY <3>1, <3>2, <2>1
  <2>9. \A j \in 1 .. Len(t) : \E i \in 1 .. Len(s) : s[i] = t[j]
    BY <2>1, <2>3
  <2>10. \A x : x \in Range(t) \cup {f} <=> x \in Range(s)
    <3>1. /\ \A x : x \in Range(t) <=> \E i \in 1 .. Len(t) : t[i] = x
          /\ \A x : x \in Range(s) <=> \E i \in 1 .. Len(s) : s[i] = x
      BY <2>3 DEF Range
    <3> QED
      BY <3>1, <2>1, <2>8, <2>9
  <2> QED
    BY <2>2, <2>3, <2>7, <2>10, <1>1
<1> QED
  BY <1>2, <1>3

-----------------------------------------------------------------------------
(* Sets of threads.                                                        *)

\* The sets of threads are finite, and one thread more or less is one more or less in number.
LEMMA UserSets ==
    /\ IsFiniteSet(Users) /\ Threads \subseteq Users /\ NewPages \subseteq Pages
    /\ \A u \in Inserters : u \in Threads /\ New(u) \in Users /\ New(u) \notin Threads
    /\ FrameCnt \in Nat /\ AllocCnt \in 1 .. FrameCnt /\ NoPage \notin Pages
    /\ \A S \in SUBSET Users : /\ IsFiniteSet(S) /\ Cardinality(S) \in Nat /\ Cardinality(S) <= Cardinality(Users)
                               /\ Cardinality(S) = 0 <=> S = {}
                               /\ \A u \in S : Cardinality(S \ {u}) = Cardinality(S) - 1
                               /\ \A u \in Users \ S : Cardinality(S \cup {u}) = Cardinality(S) + 1
                               /\ \A T \in SUBSET Users : S \cap T = {} =>
                                     Cardinality(S) + Cardinality(T) <= Cardinality(Users)
<1>1. IsFiniteSet(Users)
  <2>1. IsFiniteSet({New(u) : u \in Inserters})
    <3> DEFINE T == {New(u) : u \in Inserters}
               ref == [u \in Inserters |-> New(u)]
    <3>1. IsFiniteSet(Inserters)
      BY PagePoolAssumption
    <3>2. ref \in Surjection(Inserters, T)
      BY DEF Surjection
    <3> HIDE DEF T, ref
    <3>3. IsFiniteSet(T)
      BY <3>1, <3>2, FS_Surjection
    <3> QED
      BY <3>3 DEF T
  <2> QED
    BY <2>1, PagePoolAssumption, FS_Union DEF Users, Threads
<1>2. Cardinality(Users) \in Nat
  BY <1>1, FS_CardinalityType
<1>3. ASSUME NEW S \in SUBSET Users
      PROVE  /\ IsFiniteSet(S) /\ Cardinality(S) \in Nat /\ Cardinality(S) <= Cardinality(Users)
             /\ Cardinality(S) = 0 <=> S = {}
  <2>1. IsFiniteSet(S) /\ Cardinality(S) <= Cardinality(Users)
    BY <1>1, FS_Subset
  <2> QED
    BY <2>1, FS_CardinalityType, FS_EmptySet
<1>4. ASSUME NEW S \in SUBSET Users, NEW u \in S
      PROVE  Cardinality(S \ {u}) = Cardinality(S) - 1
  BY <1>3, FS_RemoveElement
<1>5. ASSUME NEW S \in SUBSET Users, NEW u \in Users \ S
      PROVE  Cardinality(S \cup {u}) = Cardinality(S) + 1
  BY <1>3, FS_AddElement
<1>6. ASSUME NEW S \in SUBSET Users, NEW T \in SUBSET Users, S \cap T = {}
      PROVE  Cardinality(S) + Cardinality(T) <= Cardinality(Users)
  <2>1. IsFiniteSet(S) /\ IsFiniteSet(T) /\ Cardinality(S) \in Nat /\ Cardinality(T) \in Nat
    BY <1>3
  <2>2. Cardinality(S \cup T) = Cardinality(S) + Cardinality(T) - Cardinality(S \cap T)
    BY <2>1, FS_Union
  <2>3. Cardinality(S \cap T) = 0
    BY <1>6, FS_EmptySet
  <2>4. S \cup T \in SUBSET Users
    OBVIOUS
  <2>5. Cardinality(S \cup T) <= Cardinality(Users)
    BY <2>4, <1>3
  <2> QED
    BY <2>1, <2>2, <2>3, <2>5
<1>7. \A u \in Inserters : u \in Threads /\ New(u) \in Users /\ New(u) \notin Threads
  BY PagePoolAssumption DEF Users, Threads
<1>8. Threads \subseteq Users
  BY DEF Users
<1> QED
  BY <1>1, <1>3, <1>4, <1>5, <1>6, <1>7, <1>8, PagePoolAssumption

LEMMA TypesInit == Init => Types /\ Lists /\ Fresh /\ Dirt /\ MapExact
<1> SUFFICES ASSUME Init PROVE Types /\ Lists /\ Fresh /\ Dirt /\ MapExact
  OBVIOUS
<1>1. FrameTypes /\ \A f \in Frames : frame[f] = Cleared
  BY DEF Init, FrameTypes, FrameType, Cleared
<1>2. UserTypes /\ \A u \in Users : user[u].pc = "idle"
  BY UserSets DEF Init, UserTypes, UserType, IdleUser
<1>3. PageTypes /\ \A c \in Pages : pageMap[c] = 0
  BY UserSets DEF Init, PageTypes
<1>4. SyncTypes /\ dirtyList = {} /\ stranded = {} /\ sync.todo = {} /\ sync.copied = {}
  BY DEF Init, SyncTypes, IdleSync
<1>5. PartTypes
  <2>1. OldParts \subseteq Parts /\ MaxAdmin \in Nat /\ MaxFails \in Nat
    BY PagePoolAssumption DEF Parts
  <2>2. 0 \in 0 .. MaxAdmin /\ 0 \in 0 .. MaxFails
    BY <2>1
  <2> QED
    BY <2>1, <2>2 DEF Init, PartTypes
<1>6. Lists
  <2>1. /\ useCacheSize = AllocCnt /\ readList = <<>> /\ freeList \in Seq(1 .. AllocCnt)
        /\ DOMAIN freeList = 1 .. AllocCnt /\ \A i \in 1 .. AllocCnt : freeList[i] = i
    BY UserSets DEF Init
  <2>2. useCacheSize \in AllocCnt .. FrameCnt /\ AllocCnt = 1 * AllocCnt /\ 1 \in Nat
    BY <2>1, UserSets
  <2> QED
    BY <2>1, <2>2 DEF Lists, IsInjective, Range
<1>7. \A i \in 1 .. Len(freeList) : freeList[i] \in Frames
  BY UserSets DEF Init, Frames
<1>8. Fresh
  BY <1>1, <1>2, <1>7 DEF Fresh, Holding
<1>9. Dirt
  BY <1>1, <1>4 DEF Dirt, Listed, Cleared
<1>10. MapExact
  BY <1>3 DEF MapExact
<1> QED
  BY <1>1, <1>2, <1>3, <1>4, <1>5, <1>6, <1>8, <1>9, <1>10 DEF Types

\* A thread's next record.
LEMMA UserTyped ==
    ASSUME UserTypes, NEW u \in Users, NEW to \in UserType, user' = [user EXCEPT ![u] = to],
           to.pc # "idle" => to.page \in Pages, to.pc = "idle" => to.op = "query",
           to.pc = "split" => to.op = "insert", to.pc \in {"read", "use", "split", "held", "release"} => to.at \in Frames
    PROVE  UserTypes'
BY DEF UserTypes

\* A frame's next header.
LEMMA FrameTyped ==
    ASSUME FrameTypes, NEW f \in Frames, NEW to \in FrameType, frame' = [frame EXCEPT ![f] = to]
    PROVE  FrameTypes'
BY DEF FrameTypes

\* What a thread does, in its record and in its frame: the actions of a thread, with the frame they
\* change and what becomes of it.
LEMMA LockTypes ==
    ASSUME Types, NEW u \in Users, NEW c \in Pages, NEW op \in {"insert", "query"}, Lock(u, c, op)
    PROVE  Types'
<1> DEFINE to == [user[u] EXCEPT !.pc = "get", !.op = op, !.page = c]
<1>1. to \in UserType /\ to.pc = "get" /\ to.page \in Pages
  BY DEF Types, UserTypes, UserType
<1>2. user' = [user EXCEPT ![u] = to]
  BY DEF Lock, UserStep
<1>3. UserTypes'
  BY <1>1, <1>2, UserTyped DEF Types
<1>4. PartTypes'
  <2>1. c[2] \in PageNos /\ u \in Threads
    BY DEF PageNos, Lock, Begins
  <2> QED
    BY <2>1 DEF Lock, UserStep, Threading, counts, Types, PartTypes
<1> QED
  BY <1>3, <1>4 DEF Lock, UserStep, Threading, Types, FrameTypes, PageTypes, SyncTypes

\* An AllocPage begins, for the first record of a device or by the reference beside that of the full
\* page.
LEMMA AllocBegins ==
    ASSUME Types, NEW u \in Users, NEW d \in NewPages, FirstPage(u, d) \/ FullPage(u, d)
    PROVE  /\ Types' /\ ~raced /\ Unused(d) /\ d \in Pages
           /\ UNCHANGED <<frame, lists, pageMap, disk, newest, dirtyList, stranded, sync, old, place, raced>>
           /\ \E v \in Users :
                 /\ user[v].pc = "idle" /\ user'[v] = Allocates(d)
                 /\ \A w \in Users \ {v} : \/ user'[w] = user[w]
                                            \/ /\ user[w].pc = "use" /\ user[w].op = "insert"
                                               /\ user'[w] = [user[w] EXCEPT !.pc = "split"]
           /\ d[1] \notin old \/ \E w \in Users : user[w].op = "insert" /\ user[w].page[1] = d[1]
<1>1. /\ Allocates(d) \in UserType /\ Allocates(d).pc = "alloc" /\ Allocates(d).page = d /\ d \in Pages
  <2>1. d \in Pages /\ 0 \in 0 .. FrameCnt
    BY UserSets
  <2> QED
    BY <2>1 DEF Allocates, IdleUser, UserType
<1>2. CASE FirstPage(u, d)
  <2>1. user' = [user EXCEPT ![u] = Allocates(d)] /\ user[u].pc = "idle" /\ ~raced /\ d[1] \notin old /\ Unused(d)
    BY <1>2 DEF FirstPage, Begins, MayInsert, UserStep
  <2>2. UserTypes'
    BY <1>1, <2>1, UserTyped DEF Types
  <2>3. UNCHANGED <<phase, frame, lists, pageMap, disk, newest, dirtyList, stranded, sync, pageMutex, old, place, counts, raced>>
    BY <1>2 DEF FirstPage, UserStep, Threading
  <2>4. Types'
    BY <2>2, <2>3 DEF Types, FrameTypes, PageTypes, SyncTypes, PartTypes, counts
  <2>5. user'[u] = Allocates(d) /\ \A w \in Users \ {u} : user'[w] = user[w]
    BY <2>1 DEF Types, UserTypes
  <2> QED
    BY <1>1, <2>1, <2>3, <2>4, <2>5
<1>3. CASE FullPage(u, d)
  <2> DEFINE n == New(u)
             to == [user[u] EXCEPT !.pc = "split"]
  <2>1. /\ user' = [user EXCEPT ![u].pc = "split", ![n] = Allocates(d)]
        /\ user[u].pc = "use" /\ user[u].op = "insert" /\ user[n].pc = "idle" /\ ~raced /\ Unused(d)
        /\ d[1] = user[u].page[1] /\ u \in Inserters
    BY <1>3 DEF FullPage
  <2> HIDE DEF n
  <2>2. to \in UserType /\ to.pc = "split" /\ to.op = "insert" /\ to.page \in Pages /\ to.at \in Frames
    BY <2>1 DEF Types, UserTypes, UserType
  <2>3. user' = [user EXCEPT ![u] = to, ![n] = Allocates(d)]
    BY <2>1 DEF Types, UserTypes
  <2>4. UserTypes'
    BY <1>1, <2>1, <2>2, <2>3 DEF Types, UserTypes
  <2>5. UNCHANGED <<phase, frame, lists, pageMap, disk, newest, dirtyList, stranded, sync, pageMutex, old, place, counts, raced>>
    BY <1>3 DEF FullPage, Threading
  <2>6. Types'
    BY <2>4, <2>5 DEF Types, FrameTypes, PageTypes, SyncTypes, PartTypes, counts
  <2>7. n \in Users
    BY <2>1, UserSets DEF n
  <2>8. user'[n] = Allocates(d) /\ \A w \in Users \ {n} : user'[w] = user[w] \/ (w = u /\ user'[w] = to)
    BY <2>3, <2>7 DEF Types, UserTypes
  <2>9. \E v \in Users :
           /\ user[v].pc = "idle" /\ user'[v] = Allocates(d)
           /\ \A w \in Users \ {v} : \/ user'[w] = user[w]
                                      \/ /\ user[w].pc = "use" /\ user[w].op = "insert"
                                         /\ user'[w] = [user[w] EXCEPT !.pc = "split"]
    <3> WITNESS n \in Users
    <3> QED
      BY <2>1, <2>8
  <2> QED
    BY <1>1, <2>1, <2>5, <2>6, <2>9
<1> QED
  BY <1>2, <1>3

LEMMA GetPageTypes ==
    ASSUME Types, NEW u \in Users, GetPage(u)
    PROVE  /\ Types'
           /\ LET f == pageMap[user[u].page] IN
              /\ f \in Frames /\ frame' = [frame EXCEPT ![f] = [frame[f] EXCEPT !.ref = @ + 1]]
              /\ user' = [user EXCEPT ![u] = [user[u] EXCEPT !.pc = "read", !.at = f]]
<1> DEFINE f == pageMap[user[u].page]
           to == [user[u] EXCEPT !.pc = "read", !.at = f]
           fr == [frame[f] EXCEPT !.ref = @ + 1]
<1>1. f \in Frames /\ user[u].page \in Pages /\ user[u].pc = "get"
  BY UserSets DEF GetPage, Types, UserTypes, PageTypes, Frames
<1>2. to \in UserType /\ to.pc = "read" /\ to.at = f /\ to.page = user[u].page
  <2>1. f \in 0 .. FrameCnt
    BY <1>1, UserSets DEF Frames
  <2> HIDE DEF f
  <2> QED
    BY <1>1, <2>1 DEF Types, UserTypes, UserType
<1>3. fr \in FrameType
  BY <1>1 DEF Types, FrameTypes, FrameType
<1>4. user' = [user EXCEPT ![u] = to]
  BY DEF GetPage, UserStep
<1>5. frame' = [frame EXCEPT ![f] = fr]
  BY <1>1 DEF GetPage, Attached, Types, FrameTypes
<1>6. UserTypes'
  BY <1>1, <1>2, <1>4, UserTyped DEF Types
<1>7. FrameTypes'
  BY <1>1, <1>3, <1>5, FrameTyped DEF Types
<1>8. raced' \in BOOLEAN
  BY DEF GetPage, Types, PartTypes
<1>9. PageTypes' /\ SyncTypes' /\ PartTypes'
  BY <1>8 DEF GetPage, UserStep, Threading, counts, Types, PageTypes, SyncTypes, PartTypes
<1> QED
  BY <1>1, <1>4, <1>5, <1>6, <1>7, <1>9 DEF Types

LEMMA GetPageRacedTypes ==
    ASSUME Types, NEW u \in Users, GetPageRaced(u)
    PROVE  /\ Types' /\ raced'
           /\ LET f == pageMap[user[u].page] IN
              /\ f \in Frames /\ frame' = [frame EXCEPT ![f] = [frame[f] EXCEPT !.ref = @ + 1]]
              /\ \E v \in Users \ {u} :
                    /\ user[v].pc = "release"
                    /\ user' = [user EXCEPT ![u] = [user[u] EXCEPT !.pc = "read", !.at = f], ![v] = IdleUser]
<1> DEFINE f == pageMap[user[u].page]
           to == [user[u] EXCEPT !.pc = "read", !.at = f]
           fr == [frame[f] EXCEPT !.ref = @ + 1]
<1>1. f \in Frames /\ user[u].page \in Pages /\ user[u].pc = "get"
  BY UserSets DEF GetPageRaced, Types, UserTypes, PageTypes, Frames
<1>2. to \in UserType /\ to.pc = "read" /\ to.at = f /\ to.page = user[u].page
  <2>1. f \in 0 .. FrameCnt
    BY <1>1, UserSets DEF Frames
  <2> HIDE DEF f
  <2> QED
    BY <1>1, <2>1 DEF Types, UserTypes, UserType
<1>3. fr \in FrameType
  BY <1>1 DEF Types, FrameTypes, FrameType
<1>4. PICK v \in Releasing(f) :
             user' = [user EXCEPT ![u].pc = "read", ![u].at = f, ![v] = IdleUser]
  BY DEF GetPageRaced
<1>5. v \in Users /\ user[v].pc = "release" /\ v # u
  BY <1>1, <1>4 DEF Releasing
<1>6. user' = [user EXCEPT ![u] = to, ![v] = IdleUser]
  BY <1>4, <1>5 DEF Types, UserTypes
<1>7. frame' = [frame EXCEPT ![f] = fr]
  BY <1>1 DEF GetPageRaced, Attached, Types, FrameTypes
<1>8. IdleUser \in UserType /\ IdleUser.pc = "idle" /\ IdleUser.op = "query"
  BY UserSets DEF IdleUser, UserType
<1>9. UserTypes'
  BY <1>1, <1>2, <1>5, <1>6, <1>8 DEF Types, UserTypes
<1>10. FrameTypes'
  BY <1>1, <1>3, <1>7, FrameTyped DEF Types
<1>11. raced' /\ raced' \in BOOLEAN
  BY DEF GetPageRaced
<1>12. PageTypes' /\ SyncTypes' /\ PartTypes'
  BY <1>11 DEF GetPageRaced, Threading, counts, Types, PageTypes, SyncTypes, PartTypes
<1> QED
  BY <1>1, <1>5, <1>6, <1>7, <1>9, <1>10, <1>11, <1>12 DEF Types

LEMMA GetNewPageTypes ==
    ASSUME Types, Lists, NEW u \in Users, GetNewPage(u)
    PROVE  /\ Types'
           /\ user[u].pc = "get" /\ user[u].page \in Pages /\ pageMap[user[u].page] = 0
           /\ \E f \in Frames, erased \in Pages \cup {NoPage} :
                 /\ GetFreePage(f, erased) /\ f \in 1 .. useCacheSize
                 /\ frame' = [frame EXCEPT ![f] = [Cleared EXCEPT !.code = user[u].page, !.ref = 1]]
                 /\ freeList' = IF freeList = <<>> THEN freeList ELSE Tail(freeList)
                 /\ readList' = MoveToFront(f)
                 /\ pageMap' = [c \in Pages |-> IF c = user[u].page THEN f ELSE IF c = erased THEN 0 ELSE pageMap[c]]
                 /\ user' = [user EXCEPT ![u] = [user[u] EXCEPT !.pc = "read", !.at = f]]
<1>1. PICK f \in Frames, erased \in Pages \cup {NoPage} :
          /\ GetFreePage(f, erased)
          /\ frame' = Attached([frame EXCEPT ![f] = [Cleared EXCEPT !.code = user[u].page]], f)
          /\ freeList' = IF freeList = <<>> THEN freeList ELSE Tail(freeList)
          /\ readList' = MoveToFront(f)
          /\ pageMap' = [c \in Pages |-> IF c = user[u].page THEN f ELSE IF c = erased THEN 0 ELSE pageMap[c]]
          /\ UserStep(u, [user[u] EXCEPT !.pc = "read", !.at = f])
  BY DEF GetNewPage
<1> DEFINE to == [user[u] EXCEPT !.pc = "read", !.at = f]
           fr == [Cleared EXCEPT !.code = user[u].page, !.ref = 1]
<1>2. user[u].page \in Pages /\ user[u].pc = "get" /\ pageMap[user[u].page] = 0
  BY DEF GetNewPage, Types, UserTypes
<1>3. to \in UserType /\ to.pc = "read" /\ to.at = f /\ to.page = user[u].page
  <2>1. f \in 0 .. FrameCnt
    BY UserSets DEF Frames
  <2> QED
    BY <1>2, <2>1 DEF Types, UserTypes, UserType
<1>4. fr \in FrameType
  BY <1>2 DEF FrameType, Cleared
<1>5. user' = [user EXCEPT ![u] = to]
  BY <1>1 DEF UserStep
<1>6. frame' = [frame EXCEPT ![f] = fr]
  <2>1. frame' = [frame EXCEPT ![f] = [[Cleared EXCEPT !.code = user[u].page] EXCEPT !.ref = @ + 1]]
    BY <1>1 DEF Types, FrameTypes, Attached
  <2>2. [[Cleared EXCEPT !.code = user[u].page] EXCEPT !.ref = @ + 1] = fr
    BY DEF Cleared
  <2> QED
    BY <2>1, <2>2
<1>7. UserTypes'
  BY <1>2, <1>3, <1>5, UserTyped DEF Types
<1>8. FrameTypes'
  BY <1>4, <1>6, FrameTyped DEF Types
<1>9. f \in 0 .. FrameCnt
  BY UserSets DEF Frames
<1>10. PageTypes'
  <2>1. disk' = disk /\ newest' = newest
    BY DEF GetNewPage
  <2>2. pageMap' \in [Pages -> 0 .. FrameCnt]
    BY <1>1, <1>9, UserSets DEF Types, PageTypes
  <2> QED
    BY <2>1, <2>2 DEF Types, PageTypes
<1>11. SyncTypes' /\ PartTypes'
  BY <1>1 DEF GetNewPage, UserStep, Threading, counts, Types, SyncTypes, PartTypes
<1>12. f \in 1 .. useCacheSize
  <2>1. CASE freeList # <<>>
    <3>1. f = freeList[1] /\ 1 \in 1 .. Len(freeList)
      BY <1>1, <2>1 DEF GetFreePage, Lists
    <3>2. freeList \in Seq(1 .. useCacheSize)
      BY DEF Lists
    <3> QED
      BY <3>1, <3>2, ElementOfSeq
  <2>2. CASE freeList = <<>>
    <3>1. PICK i \in 1 .. Len(readList) : readList[i] = f
      BY <1>1, <2>2 DEF GetFreePage
    <3>2. readList \in Seq(1 .. useCacheSize)
      BY DEF Lists
    <3> QED
      BY <3>1, <3>2, ElementOfSeq
  <2> QED
    BY <2>1, <2>2
<1> QED
  BY <1>1, <1>2, <1>5, <1>6, <1>7, <1>8, <1>10, <1>11, <1>12 DEF Types

\* On its way to a frame a thread changes nothing else.
LEMMA SeekTypes ==
    ASSUME Types, NEW u \in Users, AllocPage(u) \/ Scan(u) \/ Wait(u)
    PROVE  /\ Types' /\ user[u].pc \in {"alloc", "get", "scan"}
           /\ UNCHANGED <<frame, lists, pageMap, disk, newest, dirtyList, stranded, sync, old, place, raced>>
           /\ \E pc \in {"get", "scan", "wait"} : user' = [user EXCEPT ![u] = [user[u] EXCEPT !.pc = pc]]
<1>1. PICK pc \in {"get", "scan", "wait"} : user' = [user EXCEPT ![u] = [user[u] EXCEPT !.pc = pc]]
  BY DEF AllocPage, Scan, Wait, UserStep
<1> DEFINE to == [user[u] EXCEPT !.pc = pc]
<1>2. to \in UserType /\ to.pc = pc /\ to.page \in Pages /\ user[u].pc \in {"alloc", "get", "scan"}
  BY DEF AllocPage, Scan, Wait, Types, UserTypes, UserType
<1>3. UserTypes'
  BY <1>1, <1>2, UserTyped DEF Types
<1>4. UNCHANGED <<phase, frame, lists, pageMap, disk, newest, dirtyList, stranded, sync, pageMutex, old, place, counts, raced>>
  BY DEF AllocPage, Scan, Wait, UserStep, Threading
<1> QED
  BY <1>1, <1>2, <1>3, <1>4 DEF Types, FrameTypes, PageTypes, SyncTypes, PartTypes, counts

LEMMA ReadPageTypes ==
    ASSUME Types, NEW u \in Users, ReadPage(u) \/ InitPage(u)
    PROVE  /\ Types' /\ user[u].pc = "read" /\ user[u].at \in Frames /\ user[u].page \in Pages
           /\ UNCHANGED <<lists, pageMap, disk, newest, dirtyList, stranded, sync, old, place, raced>>
           /\ user' = [user EXCEPT ![u] = [user[u] EXCEPT !.pc = "use"]]
           /\ \E n \in Nat :
                 /\ \/ ~frame[user[u].at].init /\ n = disk[user[u].page]
                    \/ frame[user[u].at].init /\ n = frame[user[u].at].ver
                    \/ user[u].op = "alloc" /\ n = 0
                 /\ frame' = [frame EXCEPT ![user[u].at] = [@ EXCEPT !.init = TRUE, !.ver = n]]
<1> DEFINE f == user[u].at
           to == [user[u] EXCEPT !.pc = "use"]
<1>1. /\ to \in UserType /\ to.pc = "use" /\ to.page \in Pages /\ user[u].pc = "read" /\ to.at \in Frames
      /\ f \in Frames /\ user[u].page \in Pages
  BY DEF ReadPage, InitPage, Types, UserTypes, UserType
<1>2. /\ user' = [user EXCEPT ![u] = to]
      /\ UNCHANGED <<phase, lists, pageMap, disk, newest, dirtyList, stranded, sync, pageMutex, old, place, counts, raced>>
  BY DEF ReadPage, InitPage, UserStep, Threading
<1>3. UserTypes'
  BY <1>1, <1>2, UserTyped DEF Types
<1>4. frame[f] \in FrameType /\ frame[f].ver \in Nat /\ disk[user[u].page] \in Nat
  BY <1>1 DEF Types, FrameTypes, FrameType, PageTypes
<1>5. ASSUME NEW n \in Nat PROVE [frame[f] EXCEPT !.init = TRUE, !.ver = n] \in FrameType
  BY <1>4 DEF FrameType
<1>6. \E n \in Nat :
         /\ \/ ~frame[f].init /\ n = disk[user[u].page]
            \/ frame[f].init /\ n = frame[f].ver
            \/ user[u].op = "alloc" /\ n = 0
         /\ frame' = [frame EXCEPT ![f] = [frame[f] EXCEPT !.init = TRUE, !.ver = n]]
  <2>1. CASE ReadPage(u) /\ ~frame[f].init
    <3>1. frame' = [frame EXCEPT ![f].init = TRUE, ![f].ver = disk[user[u].page]]
      BY <2>1 DEF ReadPage
    <3>2. frame' = [frame EXCEPT ![f] = [frame[f] EXCEPT !.init = TRUE, !.ver = disk[user[u].page]]]
      BY <1>1, <3>1 DEF Types, FrameTypes
    <3> QED
      BY <1>4, <2>1, <3>2
  <2>2. CASE ReadPage(u) /\ frame[f].init
    <3>1. frame' = frame
      BY <2>2 DEF ReadPage
    <3>2. [frame[f] EXCEPT !.init = TRUE, !.ver = frame[f].ver] = frame[f]
      BY <1>4, <2>2 DEF FrameType
    <3>3. frame' = [frame EXCEPT ![f] = [frame[f] EXCEPT !.init = TRUE, !.ver = frame[f].ver]]
      BY <1>1, <3>1, <3>2 DEF Types, FrameTypes
    <3> QED
      BY <1>4, <2>2, <3>3
  <2>3. CASE InitPage(u)
    <3>1. frame' = [frame EXCEPT ![f].init = TRUE, ![f].ver = 0] /\ user[u].op = "alloc"
      BY <2>3 DEF InitPage
    <3>2. frame' = [frame EXCEPT ![f] = [frame[f] EXCEPT !.init = TRUE, !.ver = 0]]
      BY <1>1, <3>1 DEF Types, FrameTypes
    <3> QED
      BY <3>1, <3>2
  <2> QED
    BY <2>1, <2>2, <2>3
<1>7. FrameTypes'
  BY <1>1, <1>5, <1>6, FrameTyped DEF Types
<1> QED
  BY <1>1, <1>2, <1>3, <1>6, <1>7 DEF Types, PageTypes, SyncTypes, PartTypes, counts

\* What becomes of a page that a thread uses: it is changed, by an insert, or stays as it is.
ChangedOrNot(u) == \/ Change(user[u].at) /\ user[u].op # "query"
                   \/ UNCHANGED <<frame, dirtyList, newest>>

LEMMA UsePageTypes ==
    ASSUME Types, Fresh, NEW u \in Users, UsePage(u) \/ FillPage(u) \/ EndSplit(u)
    PROVE  /\ Types' /\ user[u].pc \in {"use", "split"} /\ user[u].at \in Frames /\ user[u].page \in Pages
           /\ UNCHANGED <<lists, pageMap, disk, stranded, sync, old, place, raced>>
           /\ ChangedOrNot(u)
           /\ user' = [user EXCEPT ![u] = [user[u] EXCEPT !.pc = "held", !.op = "query"]]
<1> DEFINE f == user[u].at
           c == frame[f].code
           to == [user[u] EXCEPT !.pc = "held", !.op = "query"]
           fr == [frame[f] EXCEPT !.ver = @ + 1, !.dirty = TRUE]
<1>1. /\ to \in UserType /\ to.pc = "held" /\ to.page \in Pages /\ user[u].pc \in {"use", "split"} /\ to.at \in Frames
      /\ f \in Frames /\ user[u].page \in Pages
  BY DEF UsePage, FillPage, EndSplit, Types, UserTypes, UserType
<1>2. /\ user' = [user EXCEPT ![u] = to] /\ UNCHANGED <<lists, pageMap, disk, raced>> /\ Threading
  BY DEF UsePage, FillPage, EndSplit, Used, UserStep
<1>3. UserTypes'
  BY <1>1, <1>2, UserTyped DEF Types
<1>4. ChangedOrNot(u)
  <2>1. user[u].pc = "split" => user[u].op = "insert"
    BY DEF Types, UserTypes
  <2> QED
    BY <2>1 DEF UsePage, FillPage, EndSplit, ChangedOrNot
<1>5. c \in Pages
  BY <1>1 DEF Fresh, Holding, Types, FrameTypes, FrameType
<1>6. FrameTypes' /\ PageTypes' /\ SyncTypes'
  <2>1. CASE Change(f)
    <3>1. /\ frame' = [frame EXCEPT ![f].ver = @ + 1, ![f].dirty = TRUE]
          /\ newest' = [newest EXCEPT ![c] = @ + 1] /\ dirtyList' \in SUBSET Frames
      BY <1>1, <2>1 DEF Change, Types, SyncTypes
    <3> HIDE DEF c
    <3>2. frame' = [frame EXCEPT ![f] = fr]
      BY <1>1, <3>1 DEF Types, FrameTypes
    <3>3. frame[f] \in FrameType /\ frame[f].ver + 1 \in Nat
      BY <1>1 DEF Types, FrameTypes, FrameType
    <3>4. fr \in FrameType
      BY <3>3 DEF FrameType
    <3>5. FrameTypes'
      BY <1>1, <3>2, <3>4, FrameTyped DEF Types
    <3>6. PageTypes'
      BY <1>2, <1>5, <3>1 DEF Types, PageTypes
    <3>7. SyncTypes'
      BY <1>2, <3>1 DEF Threading, Types, SyncTypes
    <3> QED
      BY <3>5, <3>6, <3>7
  <2>2. CASE UNCHANGED <<frame, dirtyList, newest>>
    BY <1>2, <2>2 DEF Threading, Types, FrameTypes, PageTypes, SyncTypes
  <2> QED
    BY <1>4, <2>1, <2>2 DEF ChangedOrNot
<1>7. PartTypes'
  <2>1. user[u].page[2] \in PageNos
    BY <1>1 DEF PageNos
  <2>2. pageMutex' \in [PageNos -> Threads \cup {"none"}]
    BY <2>1 DEF UsePage, FillPage, EndSplit, Unlock, Types, PartTypes
  <2> QED
    BY <1>2, <2>2 DEF Threading, counts, Types, PartTypes
<1> QED
  BY <1>1, <1>2, <1>3, <1>4, <1>6, <1>7 DEF Types, Threading

LEMMA LoadRefTypes ==
    ASSUME Types, NEW u \in Users, LoadRef(u)
    PROVE  /\ Types' /\ user[u].pc = "held" /\ user[u].at \in Frames
           /\ user' = [user EXCEPT ![u] = [user[u] EXCEPT !.pc = "release", !.seen = frame[user[u].at].ref]]
<1> DEFINE to == [user[u] EXCEPT !.pc = "release", !.seen = frame[user[u].at].ref]
<1>1. to.pc = "release" /\ to.page \in Pages /\ user[u].pc = "held" /\ to.at \in Frames /\ user[u].at \in Frames
  BY DEF LoadRef, Types, UserTypes, UserType
<1>2. to \in UserType
  <2>1. frame[user[u].at].ref \in Nat
    BY <1>1 DEF Types, FrameTypes, FrameType
  <2> QED
    BY <1>1, <2>1 DEF Types, UserTypes, UserType
<1>3. user' = [user EXCEPT ![u] = to]
  BY DEF LoadRef, UserStep
<1>4. UserTypes'
  BY <1>1, <1>2, <1>3, UserTyped DEF Types
<1>5. raced' \in BOOLEAN
  BY DEF LoadRef, Types, PartTypes
<1> QED
  BY <1>1, <1>3, <1>4, <1>5 DEF LoadRef, UserStep, Threading, counts, Types, FrameTypes, PageTypes, SyncTypes, PartTypes

LEMMA StoreRefTypes ==
    ASSUME Types, NEW u \in Users, StoreRef(u)
    PROVE  /\ Types' /\ user[u].pc = "release" /\ user[u].at \in Frames
           /\ user' = [user EXCEPT ![u] = IdleUser]
           /\ frame' = [frame EXCEPT ![user[u].at].ref = IF user[u].seen > 0 THEN user[u].seen - 1 ELSE 0]
<1> DEFINE n == IF user[u].seen > 0 THEN user[u].seen - 1 ELSE 0
           fr == [frame[user[u].at] EXCEPT !.ref = n]
<1>1. user[u].pc = "release" /\ user[u].at \in Frames /\ n \in Nat
  BY DEF StoreRef, Types, UserTypes, UserType
<1>2. IdleUser \in UserType /\ IdleUser.pc = "idle" /\ IdleUser.op = "query"
  BY UserSets DEF IdleUser, UserType
<1>3. user' = [user EXCEPT ![u] = IdleUser]
  BY DEF StoreRef, UserStep
<1>4. UserTypes'
  BY <1>2, <1>3, UserTyped DEF Types
<1>5. frame' = [frame EXCEPT ![user[u].at] = fr]
  BY <1>1 DEF StoreRef, Types, FrameTypes
<1>6. fr \in FrameType
  BY <1>1 DEF Types, FrameTypes, FrameType
<1>7. FrameTypes'
  BY <1>1, <1>5, <1>6, FrameTyped DEF Types
<1> QED
  BY <1>1, <1>3, <1>4, <1>7 DEF StoreRef, UserStep, Threading, counts, Types, PageTypes, SyncTypes, PartTypes

LEMMA AllocCacheTypes ==
    ASSUME Types, NEW u \in Users, AllocCache(u)
    PROVE  Types'
BY DEF AllocCache, Threading, counts, Types, FrameTypes, UserTypes, PageTypes, SyncTypes, PartTypes

\* Who waits is woken up: nobody holds more or less, nor attaches.
LEMMA WokenTypes ==
    ASSUME UserTypes, user' = Woken
    PROVE  /\ UserTypes'
           /\ \A u \in Users : /\ user'[u].op = user[u].op /\ user'[u].page = user[u].page /\ user'[u].at = user[u].at
                               /\ user'[u].seen = user[u].seen
                               /\ user'[u].pc = IF user[u].pc = "wait" THEN "get" ELSE user[u].pc
BY DEF Woken, Waiting, UserTypes, UserType

LEMMA SyncTypesNext ==
    ASSUME Types, Dirt, SyncNext
    PROVE  /\ Types'
           /\ \A u \in Users : /\ user'[u].op = user[u].op /\ user'[u].page = user[u].page /\ user'[u].at = user[u].at
                               /\ user'[u].seen = user[u].seen
                               /\ user'[u].pc = user[u].pc \/ (user[u].pc = "wait" /\ user'[u].pc = "get")
<1>1. CASE SyncBegin
  <2>1. SyncTypes'
    BY <1>1 DEF SyncBegin, SyncStep, Types, SyncTypes, IdleSync
  <2> QED
    BY <1>1, <2>1 DEF SyncBegin, SyncStep, lists, Types, FrameTypes, UserTypes, PageTypes, PartTypes
<1>2. CASE SyncCopy
  <2>1. PICK f \in sync.todo : sync' = [sync EXCEPT !.todo = @ \ {f}, !.copied = @ \cup {f}, !.ver[f] = frame[f].ver]
    BY <1>2 DEF SyncCopy, SyncStep
  <2>2. f \in Frames /\ frame[f].ver \in Nat
    BY <2>1 DEF Types, SyncTypes, FrameTypes, FrameType
  <2>3. dirtyList' = dirtyList /\ stranded' = stranded
    BY <1>2 DEF SyncCopy
  <2>4. SyncTypes'
    BY <2>1, <2>2, <2>3 DEF Types, SyncTypes
  <2> QED
    BY <1>2, <2>4 DEF SyncCopy, SyncStep, lists, Types, FrameTypes, UserTypes, PageTypes, PartTypes
<1>3. CASE SyncWrite
  <2>1. PICK f \in sync.copied :
             /\ disk' = [disk EXCEPT ![frame[f].code] = sync.ver[f]]
             /\ frame' = [frame EXCEPT ![f].dirty = frame[f].ver # sync.ver[f]]
             /\ dirtyList' = IF frame[f].ver # sync.ver[f] THEN dirtyList \cup {f} ELSE dirtyList
             /\ SyncStep([sync EXCEPT !.copied = @ \ {f}, !.ver[f] = 0, !.wrote = TRUE])
    BY <1>3 DEF SyncWrite
  <2>2. f \in Frames /\ sync.ver[f] \in Nat /\ frame[f].code \in Pages /\ frame[f] \in FrameType
    BY <2>1 DEF Types, SyncTypes, FrameTypes, Dirt, Listed
  <2>3. [frame[f] EXCEPT !.dirty = frame[f].ver # sync.ver[f]] \in FrameType
    BY <2>2 DEF FrameType
  <2>4. FrameTypes'
    BY <2>1, <2>2, <2>3 DEF Types, FrameTypes
  <2>5. SyncTypes'
    <3>1. stranded' = stranded /\ sync' = [sync EXCEPT !.copied = @ \ {f}, !.ver[f] = 0, !.wrote = TRUE]
      BY <1>3, <2>1 DEF SyncWrite, SyncStep
    <3>2. dirtyList' \in SUBSET Frames
      BY <2>1, <2>2 DEF Types, SyncTypes
    <3> QED
      BY <2>2, <3>1, <3>2 DEF Types, SyncTypes
  <2>6. PageTypes'
    BY <2>1, <2>2 DEF SyncStep, Types, PageTypes
  <2>7. PartTypes' /\ user' = user
    BY <1>3, <2>1 DEF SyncWrite, SyncStep, Types, PartTypes
  <2> QED
    BY <2>4, <2>5, <2>6, <2>7 DEF Types, UserTypes
<1>4. CASE SyncFails
  <2>1. SyncTypes'
    BY <1>4 DEF SyncFails, SyncStep, Types, SyncTypes, IdleSync
  <2>2. fails' \in 0 .. MaxFails
    BY <1>4, PagePoolAssumption DEF SyncFails, Types, PartTypes
  <2> QED
    BY <1>4, <2>1, <2>2 DEF SyncFails, SyncStep, Types, FrameTypes, UserTypes, PageTypes, PartTypes
<1>5. CASE SyncNotify
  <2>1. SyncTypes'
    BY <1>5 DEF SyncNotify, SyncStep, Types, SyncTypes, IdleSync
  <2>2. /\ UserTypes'
        /\ \A u \in Users : /\ user'[u].op = user[u].op /\ user'[u].page = user[u].page /\ user'[u].at = user[u].at
                            /\ user'[u].seen = user[u].seen
                            /\ user'[u].pc = IF user[u].pc = "wait" THEN "get" ELSE user[u].pc
    BY <1>5, WokenTypes DEF SyncNotify, Types
  <2>3. FrameTypes' /\ PageTypes' /\ PartTypes'
    BY <1>5 DEF SyncNotify, SyncStep, Types, FrameTypes, PageTypes, PartTypes
  <2> QED
    BY <2>1, <2>2, <2>3 DEF Types
<1> QED
  BY <1>1, <1>2, <1>3, <1>4, <1>5 DEF SyncNext

LEMMA PartStepTypes ==
    ASSUME Types, NEW p \in Parts, PassWindow(p) \/ RemovePart(p) \/ AttachPart(p)
    PROVE  Types'
<1>1. PartTypes'
  <2>1. CASE PassWindow(p)
    BY <2>1 DEF PassWindow, counts, Types, PartTypes
  <2>2. CASE RemovePart(p)
    <3>1. admin' \in 0 .. MaxAdmin
      BY <2>2, PagePoolAssumption DEF RemovePart, Types, PartTypes
    <3> QED
      BY <2>2, <3>1 DEF RemovePart, AdminStep, Types, PartTypes
  <2>3. CASE AttachPart(p)
    BY <2>3 DEF AttachPart, AdminStep, Types, PartTypes
  <2> QED
    BY <2>1, <2>2, <2>3
<1> QED
  BY <1>1 DEF PassWindow, RemovePart, AttachPart, AdminStep, Types, FrameTypes, UserTypes, PageTypes, SyncTypes

\* What ClearPages leaves: the dirty pages of the part are clean, and in the file or gone.
LEMMA ClearPagesTypes ==
    ASSUME Types, NEW p \in Parts, NEW writes \in BOOLEAN, ClearPages(p, writes)
    PROVE  /\ Types'
           /\ \A f \in Frames : frame'[f] = IF f \in PagesOf(p) THEN [frame[f] EXCEPT !.dirty = FALSE] ELSE frame[f]
           /\ \A f \in Frames : /\ frame'[f].code = frame[f].code /\ frame'[f].ref = frame[f].ref
                                /\ frame'[f].init = frame[f].init /\ frame'[f].ver = frame[f].ver
                                /\ frame'[f].dirty = (frame[f].dirty /\ f \notin PagesOf(p))
           /\ \A u \in Users : /\ user'[u].op = user[u].op /\ user'[u].page = user[u].page /\ user'[u].at = user[u].at
                               /\ user'[u].seen = user[u].seen
                               /\ user'[u].pc = user[u].pc \/ (user[u].pc = "wait" /\ user'[u].pc = "get")
<1> DEFINE dirty == PagesOf(p)
<1>1. \A f \in Frames : frame'[f] = IF f \in dirty THEN [frame[f] EXCEPT !.dirty = FALSE] ELSE frame[f]
  BY DEF ClearPages
<1>2. \A f \in Frames : frame[f] \in FrameType
  BY DEF Types, FrameTypes
<1>3. \A f \in Frames : /\ frame'[f] \in FrameType
                        /\ frame'[f].code = frame[f].code /\ frame'[f].ref = frame[f].ref
                        /\ frame'[f].init = frame[f].init /\ frame'[f].ver = frame[f].ver
                        /\ frame'[f].dirty = (frame[f].dirty /\ f \notin dirty)
  <2> HIDE DEF dirty
  <2> QED
    BY <1>1, <1>2 DEF FrameType
<1>4. FrameTypes'
  <2>1. frame' = [f \in Frames |-> IF f \in dirty THEN [frame[f] EXCEPT !.dirty = FALSE] ELSE frame[f]]
    BY DEF ClearPages
  <2> HIDE DEF dirty
  <2> QED
    BY <2>1, <1>1, <1>3 DEF FrameTypes
<1>5. user' = Woken
  BY DEF ClearPages
<1>6. /\ UserTypes'
      /\ \A u \in Users : /\ user'[u].op = user[u].op /\ user'[u].page = user[u].page /\ user'[u].at = user[u].at
                          /\ user'[u].seen = user[u].seen
                          /\ user'[u].pc = user[u].pc \/ (user[u].pc = "wait" /\ user'[u].pc = "get")
  BY <1>5, WokenTypes DEF Types
<1>7. PageTypes'
  <2>1. ASSUME NEW c \in Pages PROVE disk'[c] \in Nat
    <3>1. disk'[c] = IF c[1] # p THEN disk[c] ELSE IF ~writes THEN 0
                     ELSE IF \E f \in dirty : frame[f].code = c
                          THEN frame[CHOOSE f \in dirty : frame[f].code = c].ver ELSE disk[c]
      BY DEF ClearPages
    <3>2. \A f \in dirty : frame[f].ver \in Nat
      BY <1>2 DEF PagesOf, FrameType
    <3>3. disk[c] \in Nat
      BY DEF Types, PageTypes
    <3> HIDE DEF dirty
    <3> QED
      BY <3>1, <3>2, <3>3
  <2>2. disk' \in [Pages -> Nat]
    BY <2>1 DEF ClearPages
  <2>3. newest' \in [Pages -> Nat]
    <3>1. newest' = [c \in Pages |-> IF c[1] = p THEN disk'[c] ELSE newest[c]]
      BY DEF ClearPages
    <3> QED
      BY <2>1, <3>1 DEF Types, PageTypes
  <2>4. pageMap' \in [Pages -> 0 .. FrameCnt]
    BY UserSets DEF ClearPages, Types, PageTypes
  <2> QED
    BY <2>2, <2>3, <2>4 DEF PageTypes
<1>8. SyncTypes'
  BY DEF ClearPages, AdminStep, Types, SyncTypes
<1>9. PartTypes'
  BY DEF ClearPages, AdminStep, Types, PartTypes
<1> QED
  BY <1>1, <1>3, <1>4, <1>6, <1>7, <1>8, <1>9 DEF Types

-----------------------------------------------------------------------------
(* The lists.                                                              *)

LEMMA ListFacts ==
    ASSUME Lists
    PROVE  /\ useCacheSize \in Nat /\ useCacheSize <= FrameCnt /\ 1 .. useCacheSize \subseteq Frames
           /\ \A i \in 1 .. Len(freeList) : freeList[i] \in 1 .. useCacheSize
           /\ \A f \in Range(freeList) : \E i \in 1 .. Len(freeList) : freeList[i] = f
<1>1. freeList \in Seq(1 .. useCacheSize) /\ useCacheSize \in AllocCnt .. FrameCnt
  BY DEF Lists
<1>2. useCacheSize \in Nat /\ useCacheSize <= FrameCnt
  BY <1>1, UserSets
<1>3. DOMAIN freeList = 1 .. Len(freeList)
  BY <1>1
<1>4. \A i \in 1 .. Len(freeList) : freeList[i] \in 1 .. useCacheSize
  BY <1>1, ElementOfSeq
<1>5. 1 .. useCacheSize \subseteq Frames
  BY <1>2, UserSets DEF Frames
<1> QED
  BY <1>2, <1>3, <1>4, <1>5 DEF Range

\* A frame with a page is in use.
LEMMA InCache ==
    ASSUME Lists, Fresh, NEW f \in Frames, frame[f].code # NoPage
    PROVE  f \in 1 .. useCacheSize /\ f \notin Range(freeList)
<1>1. frame[f] # Cleared
  BY DEF Cleared
<1>2. f \in Nat /\ f >= 1 /\ useCacheSize \in Nat
  BY ListFacts, UserSets DEF Frames
<1> QED
  BY <1>1, <1>2, ListFacts DEF Fresh

LEMMA ListsMoved ==
    ASSUME Lists, Fresh, NEW f \in Frames, frame[f].code # NoPage, readList' = MoveToFront(f),
           UNCHANGED <<freeList, useCacheSize>>
    PROVE  Lists'
<1>1. f \in 1 .. useCacheSize /\ f \notin Range(freeList)
  BY InCache
<1>2. /\ MoveToFront(f) \in Seq(1 .. useCacheSize) /\ IsInjective(MoveToFront(f))
      /\ Range(MoveToFront(f)) = Range(readList) \cup {f}
  BY <1>1, MovedToFront DEF Lists
<1>3. IsInjective(readList') /\ Range(readList') = Range(readList) \cup {f}
  BY <1>2
<1> QED
  BY <1>1, <1>2, <1>3 DEF Lists

LEMMA ListsGetNewPage ==
    ASSUME Types, Lists, Fresh, NEW f \in 1 .. useCacheSize, NEW erased,
           GetFreePage(f, erased), readList' = MoveToFront(f),
           freeList' = IF freeList = <<>> THEN freeList ELSE Tail(freeList), useCacheSize' = useCacheSize
    PROVE  /\ Lists' /\ frame[f].ref = 0 /\ ~frame[f].dirty
           /\ \A i \in 1 .. Len(freeList') : freeList'[i] \in Range(freeList) /\ freeList'[i] # f
           /\ erased = frame[f].code
<1>1. /\ MoveToFront(f) \in Seq(1 .. useCacheSize) /\ IsInjective(MoveToFront(f))
      /\ Range(MoveToFront(f)) = Range(readList) \cup {f}
  BY MovedToFront DEF Lists
<1>2. freeList \in Seq(1 .. useCacheSize) /\ \A i, j \in 1 .. Len(freeList) : freeList[i] = freeList[j] => i = j
  BY DEF Lists, IsInjective
<1>3. CASE freeList = <<>>
  <2>1. Evictable(f) /\ freeList' = <<>> /\ erased = frame[f].code
    BY <1>3 DEF GetFreePage
  <2>2. Lists'
    BY <1>1, <1>3, <2>1 DEF Lists, IsInjective, Range
  <2>3. 1 .. Len(freeList') = {}
    BY <2>1
  <2>4. frame[f].ref = 0 /\ ~frame[f].dirty
    BY <2>1 DEF Evictable
  <2> QED
    BY <2>1, <2>2, <2>3, <2>4
<1>4. CASE freeList # <<>>
  <2> DEFINE t == Tail(freeList)
  <2>1. f = freeList[1] /\ erased = NoPage /\ 1 \in 1 .. Len(freeList) /\ freeList' = t
    BY <1>2, <1>4 DEF GetFreePage
  <2>2. /\ t \in Seq(1 .. useCacheSize) /\ Len(t) = Len(freeList) - 1 /\ Len(freeList) \in Nat
        /\ \A i \in 1 .. Len(t) : t[i] = freeList[i + 1]
    BY <1>2, <1>4, HeadTailProperties
  <2> HIDE DEF t
  <2>3. frame[f] = Cleared
    BY <2>1 DEF Fresh
  <2>4. \A i \in 1 .. Len(t) : i + 1 \in 1 .. Len(freeList)
    BY <2>2
  <2>5. \A i, j \in 1 .. Len(t) : t[i] = t[j] => i = j
    BY <1>2, <2>2, <2>4
  <2>6. \A i \in 1 .. Len(t) : t[i] # f /\ t[i] \in Range(freeList)
    BY <1>2, <2>1, <2>2, <2>4 DEF Range
  <2>7. IsInjective(t) /\ f \notin Range(t) /\ Range(t) \subseteq Range(freeList)
    <3>1. DOMAIN t = 1 .. Len(t)
      BY <2>2
    <3> QED
      BY <3>1, <2>5, <2>6 DEF IsInjective, Range
  <2>8. Lists'
    <3>1. /\ readList' \in Seq(1 .. useCacheSize)' /\ IsInjective(readList)'
          /\ freeList' \in Seq(1 .. useCacheSize)' /\ IsInjective(freeList)'
      BY <1>1, <2>1, <2>2, <2>7
    <3>2. Range(readList)' = Range(readList) \cup {f} /\ Range(freeList)' = Range(t)
      BY <1>1, <2>1
    <3> QED
      BY <2>7, <3>1, <3>2 DEF Lists
  <2>9. frame[f].ref = 0 /\ ~frame[f].dirty /\ erased = frame[f].code
    BY <2>1, <2>3 DEF Cleared
  <2> QED
    BY <2>1, <2>6, <2>8, <2>9
<1> QED
  BY <1>3, <1>4

\* The pool grows by whole allocations, up to its size and no further.
LEMMA GrowsToSize ==
    ASSUME Lists, useCacheSize < FrameCnt
    PROVE  /\ useCacheSize + AllocCnt <= FrameCnt
           /\ \E n \in Nat : useCacheSize + AllocCnt = n * AllocCnt
<1>1. PICK k \in Nat : FrameCnt = k * AllocCnt
  BY PagePoolAssumption
<1>2. PICK n \in Nat : useCacheSize = n * AllocCnt
  BY DEF Lists
<1>3. AllocCnt \in Nat /\ AllocCnt >= 1
  BY UserSets
<1>4. n < k
  BY <1>1, <1>2, <1>3
<1>5. n + 1 \in Nat /\ n + 1 <= k /\ (n + 1) * AllocCnt = n * AllocCnt + AllocCnt
  BY <1>3, <1>4
<1>6. (n + 1) * AllocCnt <= k * AllocCnt
  BY <1>3, <1>5
<1> QED
  BY <1>1, <1>2, <1>5, <1>6

LEMMA ListsAlloc ==
    ASSUME Lists, NEW u \in Users, AllocCache(u)
    PROVE  /\ Lists' /\ useCacheSize' > useCacheSize /\ useCacheSize' \in Nat
           /\ \A i \in 1 .. Len(freeList') : freeList'[i] > useCacheSize /\ freeList'[i] \in Frames
<1> DEFINE m == useCacheSize + AllocCnt
<1>1. /\ useCacheSize \in Nat /\ AllocCnt \in Nat /\ AllocCnt >= 1 /\ m \in AllocCnt .. FrameCnt
      /\ useCacheSize' = m /\ readList' = readList /\ \E n \in Nat : m = n * AllocCnt
  BY GrowsToSize, ListFacts, UserSets DEF AllocCache
<1>2. freeList' = [i \in 1 .. AllocCnt |-> useCacheSize + i]
  BY DEF AllocCache
<1>3. \A i \in 1 .. AllocCnt : useCacheSize + i \in 1 .. m /\ useCacheSize + i > useCacheSize
  BY <1>1
<1>4. freeList' \in Seq(1 .. m) /\ Len(freeList') = AllocCnt /\ DOMAIN freeList' = 1 .. AllocCnt
  <2>1. freeList' \in [1 .. AllocCnt -> 1 .. m]
    BY <1>2, <1>3
  <2> QED
    BY <1>1, <1>2, <2>1
<1>5. \A x \in Range(freeList') : x > useCacheSize
  BY <1>2, <1>3, <1>4 DEF Range
<1>6. \A i, j \in 1 .. AllocCnt : freeList'[i] = freeList'[j] => i = j
  BY <1>1, <1>2
<1>7. IsInjective(freeList')
  BY <1>4, <1>6 DEF IsInjective
<1>8. readList \in Seq(1 .. useCacheSize) /\ readList \in Seq(1 .. m)
  <2>1. readList \in Seq(1 .. useCacheSize)
    BY DEF Lists
  <2>2. 1 .. useCacheSize \subseteq 1 .. m
    BY <1>1
  <2> QED
    BY <2>1, <2>2, SeqMonotonic
<1>9. \A x \in Range(readList) : x \in 1 .. useCacheSize
  <2>1. DOMAIN readList = 1 .. Len(readList)
    BY <1>8
  <2> QED
    BY <1>8, <2>1, ElementOfSeq DEF Range
<1>10. Range(readList') \cap Range(freeList') = {}
  <2> SUFFICES ASSUME NEW x \in Range(readList), x \in Range(freeList') PROVE FALSE
    BY <1>1
  <2>1. x \in 1 .. useCacheSize /\ x > useCacheSize
    BY <1>5, <1>9
  <2> QED
    BY <2>1, <1>1
<1>11. m \in Nat /\ 1 .. m \subseteq Frames /\ useCacheSize' > useCacheSize
  BY <1>1, UserSets DEF Frames
<1>12. Lists'
  BY <1>1, <1>4, <1>7, <1>8, <1>10 DEF Lists
<1> QED
  BY <1>1, <1>2, <1>3, <1>3, <1>4, <1>11, <1>12

\* Where no page changes its frame and no frame is written or cleaned.
LEMMA BaseKept ==
    ASSUME Lists, Fresh, Dirt, MapExact, UNCHANGED <<freeList, useCacheSize, pageMap, dirtyList, stranded>>,
           sync'.todo = sync.todo, sync'.copied = sync.copied,
           \A f \in Frames : /\ frame'[f].code = frame[f].code /\ frame'[f].dirty = frame[f].dirty
                             /\ frame'[f] = frame[f] \/ frame[f].code # NoPage,
           \A u \in Users, f \in Frames : Holding(u, f)' => Holding(u, f) \/ frame[f].code # NoPage,
           PageTypes
    PROVE  Fresh' /\ Dirt' /\ MapExact'
<1>1. \A f \in Frames : frame[f] = Cleared => frame'[f] = Cleared
  BY DEF Cleared
<1>2. \A i \in 1 .. Len(freeList) : freeList[i] \in Frames
  BY ListFacts
<1>3. Fresh'
  BY <1>1, <1>2 DEF Fresh
<1>4. Dirt'
  BY DEF Dirt, Listed
<1>5. \A c \in Pages : pageMap[c] # 0 => pageMap[c] \in Frames
  BY UserSets DEF PageTypes, Frames
<1>6. MapExact'
  BY <1>5 DEF MapExact
<1> QED
  BY <1>3, <1>4, <1>6

-----------------------------------------------------------------------------
(* The steps of a thread.                                                  *)

\* Where no thread begins or ends to hold a frame and no count changes, none begins to attach.
LEMMA HoldersKept ==
    ASSUME \A v \in Users, f \in Frames : Holding(v, f)' <=> Holding(v, f)
    PROVE  \A f \in Frames : Holders(f)' = Holders(f)
BY DEF Holders

\* A thread begins, or the reference beside that of a full page: as long as the counts are right
\* there are as many more threads as may yet attach.
LEMMA BeginInv ==
    ASSUME IInv, ~raced, Types', Chosen', NEW u \in Users,
           UNCHANGED <<frame, lists, pageMap, disk, newest, dirtyList, stranded, sync, old, place, raced>>,
           user[u].pc = "idle", user'[u].pc \in {"alloc", "get"},
           user'[u].op # "query" =>
              \/ user'[u].page[1] \notin old
              \/ \E w \in Users : user[w].op # "query" /\ user[w].page[1] = user'[u].page[1],
           \A w \in Users \ {u} : \/ user'[w] = user[w]
                                  \/ user[w].pc = "use" /\ user'[w] = [user[w] EXCEPT !.pc = "split"]
    PROVE  IInv'
<1>1. Types /\ Lists /\ Fresh /\ Dirt /\ MapExact /\ Bounded /\ Exact /\ PageTypes
  BY DEF IInv, Types
<1>2. ASSUME NEW w \in Users \ {u}
      PROVE  /\ user'[w].op = user[w].op /\ user'[w].page = user[w].page /\ user'[w].at = user[w].at
             /\ user'[w].seen = user[w].seen
             /\ user'[w].pc = user[w].pc \/ (user[w].pc = "use" /\ user'[w].pc = "split")
  BY <1>1 DEF Types, UserTypes, UserType
<1>3. \A v \in Users, f \in Frames : Holding(v, f)' <=> Holding(v, f)
  BY <1>2 DEF Holding
<1>4. Lists' /\ Fresh' /\ Dirt' /\ MapExact'
  BY <1>1, <1>3, BaseKept DEF Lists, lists
<1>5. Bounded'
  <2>1. Getting' \in SUBSET Users
    BY DEF Getting
  <2>2. ASSUME NEW f \in Frames
        PROVE  frame[f].ref + Cardinality(Getting') <= Cardinality(Users)
    <3>1. Holders(f) \cap Getting' = {} /\ Holders(f) \in SUBSET Users
      BY <1>2 DEF Holders, Holding, Getting
    <3>2. frame[f].ref = Cardinality(Holders(f))
      BY <1>1 DEF Exact, Counted
    <3> QED
      BY <2>1, <3>1, <3>2, UserSets
  <2>3. ASSUME NEW v \in Users, user'[v].pc = "release"
        PROVE  user'[v].seen + Cardinality(Getting') <= Cardinality(Users)
    <3>1. /\ user'[v].seen = user[v].seen /\ user[v].seen = frame[user[v].at].ref /\ user[v].at \in Frames
      BY <2>3, <1>1, <1>2 DEF Exact, Loaded, Types, UserTypes
    <3> QED
      BY <3>1, <2>2
  <2> QED
    BY <2>2, <2>3 DEF Bounded
<1>6. HeldPage'
  BY <1>1, <1>2, <1>3 DEF Exact, HeldPage, Holding
<1>7. Counted'
  BY <1>1, <1>3, HoldersKept DEF Exact, Counted
<1>8. Loaded'
  <2>1. ASSUME NEW w \in Users, user'[w].pc = "release"
        PROVE  user[w].pc = "release" /\ user'[w].at = user[w].at /\ user'[w].seen = user[w].seen
    BY <1>2, <2>1
  <2> QED
    BY <1>1, <2>1 DEF Exact, Loaded
<1>9. Orphans'
  <2>1. ASSUME NEW p, Settled(p) PROVE Settled(p)'
    <3>1. \A w \in Users : user'[w].op # "query" => user'[w].page[1] # p
      BY <1>2, <2>1 DEF Settled
    <3> QED
      BY <2>1, <3>1 DEF Settled, Mapped
  <2> QED
    BY <1>1, <2>1 DEF Exact, Orphans, Mapped
<1>10. Versions'
  <2>1. \A w \in Users : user'[w].pc \in {"use", "split"} => user[w].pc \in {"use", "split"} /\ user'[w].at = user[w].at
    BY <1>2
  <2> QED
    BY <1>1, <1>3, <2>1 DEF Exact, Versions, Mapped
<1> QED
  BY <1>4, <1>5, <1>6, <1>7, <1>8, <1>9, <1>10 DEF IInv, Exact

LEMMA LockInv ==
    ASSUME IInv, NEW u \in Users, NEW c \in Pages, NEW op \in {"insert", "query"}, Lock(u, c, op)
    PROVE  IInv'
<1>1. Types' /\ Types
  BY LockTypes DEF IInv
<1>2. /\ UNCHANGED <<frame, lists, pageMap, disk, newest, dirtyList, stranded, sync, old, place, raced>>
      /\ user[u].pc = "idle" /\ (op = "insert" => c[1] \notin old) /\ ~raced
      /\ c \in NewPages => newest[c] # 0
  BY DEF Lock, Begins, MayInsert, UserStep, Threading
<1>3. /\ user'[u].pc = "get" /\ user'[u].op = op /\ user'[u].page = c
      /\ \A v \in Users \ {u} : user'[v] = user[v]
  BY <1>1 DEF Lock, UserStep, Types, UserTypes, UserType
<1>4. Chosen'
  BY <1>2, <1>3 DEF Chosen, IInv, Exact
<1> QED
  BY <1>1, <1>2, <1>3, <1>4, BeginInv

LEMMA AllocBeginsInv ==
    ASSUME IInv, NEW u \in Users, NEW d \in NewPages, FirstPage(u, d) \/ FullPage(u, d)
    PROVE  IInv'
<1>1. /\ Types' /\ Types /\ ~raced /\ Unused(d) /\ d \in Pages
      /\ UNCHANGED <<frame, lists, pageMap, disk, newest, dirtyList, stranded, sync, old, place, raced>>
      /\ d[1] \notin old \/ \E w \in Users : user[w].op = "insert" /\ user[w].page[1] = d[1]
  BY AllocBegins DEF IInv
<1>2. PICK v \in Users :
         /\ user[v].pc = "idle" /\ user'[v] = Allocates(d)
         /\ \A w \in Users \ {v} : \/ user'[w] = user[w]
                                    \/ /\ user[w].pc = "use" /\ user[w].op = "insert"
                                       /\ user'[w] = [user[w] EXCEPT !.pc = "split"]
  BY AllocBegins DEF IInv
<1>3. user'[v].pc = "alloc" /\ user'[v].op = "alloc" /\ user'[v].page = d
  BY <1>2 DEF Allocates, IdleUser
<1>4. Chosen'
  <2>1. \A w \in Users \ {v} : user'[w].op = user[w].op /\ user'[w].page = user[w].page
    BY <1>1, <1>2 DEF Types, UserTypes, UserType
  <2>2. newest[d] = 0 /\ \A w \in Users : user[w].page # d
    BY <1>1 DEF Unused
  <2> QED
    BY <1>1, <1>3, <2>1, <2>2 DEF Chosen, IInv, Exact
<1>5. \A w \in Users \ {v} : \/ user'[w] = user[w]
                             \/ user[w].pc = "use" /\ user'[w] = [user[w] EXCEPT !.pc = "split"]
  BY <1>2
<1>6. \/ user'[v].page[1] \notin old
      \/ \E w \in Users : user[w].op # "query" /\ user[w].page[1] = user'[v].page[1]
  BY <1>1, <1>3
<1> QED
  BY <1>1, <1>2, <1>3, <1>4, <1>5, <1>6, BeginInv

\* A thread takes a frame that the map gives for its page: as far as it goes whether or not a
\* decrement is lost on the way.
LEMMA GetPageBase ==
    ASSUME IInv, NEW u \in Users, NEW f \in Frames, f = pageMap[user[u].page], user[u].page \in Pages,
           user[u].pc = "get", frame' = [frame EXCEPT ![f] = [frame[f] EXCEPT !.ref = @ + 1]],
           readList' = MoveToFront(f), UNCHANGED <<freeList, useCacheSize, pageMap, dirtyList, stranded, sync>>,
           user'[u] = [user[u] EXCEPT !.pc = "read", !.at = f],
           \A v \in Users \ {u} : user'[v] = user[v] \/ (user[v].pc = "release" /\ user'[v].pc = "idle"),
           Types'
    PROVE  Lists' /\ Fresh' /\ Dirt' /\ MapExact' /\ Bounded'
<1>1. Types /\ Lists /\ Fresh /\ Dirt /\ MapExact /\ Bounded /\ PageTypes
  BY DEF IInv, Types
<1>2. frame[f].code = user[u].page /\ frame[f].code # NoPage
  BY <1>1, UserSets DEF MapExact, Frames
<1>3. \A g \in Frames : /\ frame'[g].code = frame[g].code /\ frame'[g].dirty = frame[g].dirty
                        /\ frame'[g].ref = IF g = f THEN frame[g].ref + 1 ELSE frame[g].ref
                        /\ g # f => frame'[g] = frame[g]
  BY <1>1 DEF Types, FrameTypes, FrameType
<1>4. Lists'
  BY <1>1, <1>2, ListsMoved
<1>5. user'[u].pc = "read" /\ user'[u].at = f
  BY <1>1 DEF Types, UserTypes, UserType
<1>6. \A v \in Users, g \in Frames : Holding(v, g)' => Holding(v, g) \/ frame[g].code # NoPage
  <2>1. ASSUME NEW v \in Users \ {u}, NEW g \in Frames, Holding(v, g)' PROVE Holding(v, g)
    BY <2>1 DEF Holding
  <2>2. ASSUME NEW g \in Frames, Holding(u, g)' PROVE frame[g].code # NoPage
    BY <2>2, <1>2, <1>5 DEF Holding
  <2> QED
    BY <2>1, <2>2
<1>7. Fresh' /\ Dirt' /\ MapExact'
  BY <1>1, <1>2, <1>3, <1>6, BaseKept
<1>8. Getting' = Getting \ {u} /\ u \in Getting /\ Getting \in SUBSET Users
  BY <1>5 DEF Getting
<1>9. Cardinality(Getting') = Cardinality(Getting) - 1 /\ Cardinality(Getting) \in Nat /\ Cardinality(Users) \in Nat
  BY <1>8, UserSets
<1>10. ASSUME NEW g \in Frames
       PROVE  frame'[g].ref + Cardinality(Getting') <= Cardinality(Users)
  <2>1. frame[g].ref \in Nat /\ frame[g].ref + Cardinality(Getting) <= Cardinality(Users)
    BY <1>1 DEF Bounded, Types, FrameTypes, FrameType
  <2> QED
    BY <1>3, <1>9, <2>1
<1>11. ASSUME NEW v \in Users, user'[v].pc = "release"
       PROVE  user'[v].seen + Cardinality(Getting') <= Cardinality(Users)
  <2>1. user'[v] = user[v] /\ user[v].pc = "release"
    BY <1>5, <1>11
  <2>2. user[v].seen \in Nat /\ user[v].seen + Cardinality(Getting) <= Cardinality(Users)
    BY <1>1, <2>1 DEF Bounded, Types, UserTypes, UserType
  <2> QED
    BY <1>9, <2>1, <2>2
<1>12. Bounded'
  BY <1>10, <1>11 DEF Bounded
<1> QED
  BY <1>4, <1>7, <1>12

LEMMA GetPageRacedInv ==
    ASSUME IInv, NEW u \in Users, GetPageRaced(u)
    PROVE  IInv'
<1> DEFINE f == pageMap[user[u].page]
<1>1. /\ Types' /\ raced' /\ f \in Frames
      /\ frame' = [frame EXCEPT ![f] = [frame[f] EXCEPT !.ref = @ + 1]]
  BY GetPageRacedTypes DEF IInv
<1>2. PICK v \in Users \ {u} :
          /\ user[v].pc = "release"
          /\ user' = [user EXCEPT ![u] = [user[u] EXCEPT !.pc = "read", !.at = f], ![v] = IdleUser]
  BY GetPageRacedTypes DEF IInv
<1>3. user'[u] = [user[u] EXCEPT !.pc = "read", !.at = f]
  BY <1>2 DEF IInv, Types, UserTypes
<1>4. \A w \in Users \ {u} : user'[w] = user[w] \/ (user[w].pc = "release" /\ user'[w].pc = "idle")
  BY <1>2 DEF IInv, Types, UserTypes, IdleUser
<1>5. user[u].pc = "get" /\ user[u].page \in Pages
  BY DEF GetPageRaced, IInv, Types, UserTypes
<1>6. readList' = MoveToFront(f) /\ UNCHANGED <<freeList, useCacheSize, pageMap, dirtyList, stranded, sync>>
  BY DEF GetPageRaced, Threading
<1> HIDE DEF f
<1>7. f = pageMap[user[u].page]
  BY DEF f
<1> QED
  BY <1>1, <1>3, <1>4, <1>5, <1>6, <1>7, GetPageBase DEF IInv

LEMMA GetPageInv ==
    ASSUME IInv, NEW u \in Users, GetPage(u)
    PROVE  IInv'
<1>1. PICK f \in Frames :
         /\ f = pageMap[user[u].page] /\ frame' = [frame EXCEPT ![f] = [frame[f] EXCEPT !.ref = @ + 1]]
         /\ user' = [user EXCEPT ![u] = [user[u] EXCEPT !.pc = "read", !.at = f]]
  BY GetPageTypes DEF IInv
<1>2. Types'
  BY GetPageTypes DEF IInv
<1>3. /\ user[u].pc = "get" /\ user[u].page \in Pages /\ readList' = MoveToFront(f)
      /\ UNCHANGED <<freeList, useCacheSize, pageMap, dirtyList, stranded, sync, disk, newest, old, place>>
      /\ raced' = (raced \/ Releasing(f) # {})
  BY <1>1 DEF GetPage, UserStep, Threading, IInv, Types, UserTypes
<1>4. /\ user'[u] = [user[u] EXCEPT !.pc = "read", !.at = f]
      /\ \A v \in Users \ {u} : user'[v] = user[v]
  BY <1>1 DEF IInv, Types, UserTypes
<1>5. Lists' /\ Fresh' /\ Dirt' /\ MapExact' /\ Bounded'
  BY <1>1, <1>2, <1>3, <1>4, GetPageBase
<1>6. ASSUME ~raced' PROVE Exact'
  <2>1. Exact /\ Releasing(f) = {} /\ frame[f].code = user[u].page /\ Mapped(f) /\ Types
    <3>1. Exact /\ Releasing(f) = {} /\ Types /\ MapExact
      BY <1>3, <1>6 DEF IInv
    <3>2. f # 0
      BY <1>1, UserSets DEF Frames
    <3> QED
      BY <1>1, <1>3, <3>1, <3>2 DEF MapExact, Mapped
  <2>2. \A g \in Frames : /\ frame'[g].code = frame[g].code /\ frame'[g].dirty = frame[g].dirty
                          /\ frame'[g].init = frame[g].init /\ frame'[g].ver = frame[g].ver
                          /\ frame'[g].ref = IF g = f THEN frame[g].ref + 1 ELSE frame[g].ref
    BY <1>1, <2>1 DEF Types, FrameTypes, FrameType
  <2>3. user'[u].pc = "read" /\ user'[u].at = f /\ user'[u].page = user[u].page /\ user'[u].op = user[u].op
    BY <1>4, <2>1 DEF Types, UserTypes, UserType
  <2>4. /\ \A v \in Users \ {u}, g \in Frames : Holding(v, g)' <=> Holding(v, g)
        /\ \A g \in Frames : Holding(u, g)' <=> g = f
        /\ \A g \in Frames : ~Holding(u, g)
    BY <1>3, <1>4, <2>3 DEF Holding
  <2>5. HeldPage'
    <3>1. ASSUME NEW v \in Users, NEW g \in Frames, Holding(v, g)'
          PROVE  frame[g].code = user'[v].page
      <4>1. CASE v = u
        BY <2>1, <2>3, <2>4, <3>1, <4>1
      <4>2. CASE v # u
        BY <1>4, <2>1, <2>4, <3>1, <4>2 DEF Exact, HeldPage
      <4> QED
        BY <4>1, <4>2
    <3> QED
      BY <2>2, <3>1 DEF HeldPage
  <2>6. Counted'
    <3>1. Holders(f)' = Holders(f) \cup {u} /\ u \notin Holders(f) /\ Holders(f) \in SUBSET Users
      <4>1. \A v \in Users : Holding(v, f)' <=> Holding(v, f) \/ v = u
        BY <2>4
      <4> QED
        BY <2>4, <4>1 DEF Holders
    <3>2. \A g \in Frames : g # f => Holders(g)' = Holders(g)
      BY <2>4 DEF Holders
    <3>3. Cardinality(Holders(f)') = Cardinality(Holders(f)) + 1
      BY <3>1, UserSets
    <3> QED
      BY <1>1, <2>1, <2>2, <3>2, <3>3 DEF Exact, Counted
  <2>7. Loaded'
    <3>1. \A v \in Users : user'[v].pc = "release" =>
              v # u /\ user'[v] = user[v] /\ user[v].at # f /\ user[v].at \in Frames
      BY <1>4, <2>1, <2>3 DEF Releasing, Types, UserTypes
    <3> QED
      BY <2>1, <2>2, <3>1 DEF Exact, Loaded
  <2>8. \A g \in Frames : Mapped(g)' <=> Mapped(g)
    BY <1>3, <2>2 DEF Mapped
  <2>9. \A v \in Users : user'[v].op = user[v].op /\ user'[v].page = user[v].page
    BY <1>4, <2>3
  <2>10. Chosen'
    BY <1>3, <2>1, <2>9 DEF Exact, Chosen
  <2>11. Orphans'
    <3>1. \A p : Settled(p) => Settled(p)'
      BY <1>3, <2>2, <2>8, <2>9 DEF Settled
    <3> QED
      BY <1>3, <2>1, <2>2, <2>8, <3>1 DEF Exact, Orphans
  <2>12. Versions'
    <3>1. \A g \in Frames : (\E v \in Users : Holding(v, g)') => Mapped(g) \/ \E v \in Users : Holding(v, g)
      BY <2>1, <2>4
    <3>2. \A v \in Users : user'[v].pc \in {"use", "split"} =>
              user[v].pc \in {"use", "split"} /\ user'[v].at = user[v].at /\ user[v].at \in Frames
      BY <1>4, <2>1, <2>3 DEF Types, UserTypes
    <3>3. \A c \in Pages : pageMap[c] # 0 => pageMap[c] \in Frames
      BY <2>1, UserSets DEF Types, PageTypes, Frames
    <3> QED
      BY <1>3, <2>1, <2>2, <2>8, <3>1, <3>2, <3>3 DEF Exact, Versions
  <2> QED
    BY <2>5, <2>6, <2>7, <2>10, <2>11, <2>12 DEF Exact
<1> QED
  BY <1>2, <1>5, <1>6 DEF IInv

LEMMA GetNewPageInv ==
    ASSUME IInv, NEW u \in Users, GetNewPage(u)
    PROVE  IInv'
<1>1. /\ Types' /\ Types /\ Lists /\ Fresh /\ Dirt /\ MapExact /\ Bounded
      /\ user[u].pc = "get" /\ user[u].page \in Pages /\ pageMap[user[u].page] = 0
  BY GetNewPageTypes DEF IInv
<1>2. PICK f \in Frames, erased \in Pages \cup {NoPage} :
         /\ GetFreePage(f, erased) /\ f \in 1 .. useCacheSize
         /\ frame' = [frame EXCEPT ![f] = [Cleared EXCEPT !.code = user[u].page, !.ref = 1]]
         /\ freeList' = IF freeList = <<>> THEN freeList ELSE Tail(freeList)
         /\ readList' = MoveToFront(f)
         /\ pageMap' = [c \in Pages |-> IF c = user[u].page THEN f ELSE IF c = erased THEN 0 ELSE pageMap[c]]
         /\ user' = [user EXCEPT ![u] = [user[u] EXCEPT !.pc = "read", !.at = f]]
  BY GetNewPageTypes DEF IInv
<1> DEFINE c0 == user[u].page
<1>3. UNCHANGED <<useCacheSize, disk, newest, dirtyList, stranded, sync, old, place, raced>>
  BY DEF GetNewPage, UserStep, Threading
<1>4. /\ Lists' /\ frame[f].ref = 0 /\ ~frame[f].dirty /\ erased = frame[f].code
      /\ \A i \in 1 .. Len(freeList') : freeList'[i] \in Range(freeList) /\ freeList'[i] # f
  BY <1>1, <1>2, <1>3, ListsGetNewPage
<1>5. /\ user'[u].pc = "read" /\ user'[u].at = f /\ user'[u].page = c0 /\ user'[u].op = user[u].op
      /\ \A v \in Users \ {u} : user'[v] = user[v]
  BY <1>1, <1>2 DEF Types, UserTypes, UserType
<1>6. /\ frame'[f].code = c0 /\ frame'[f].ref = 1 /\ frame'[f].dirty = FALSE /\ frame'[f].init = FALSE
      /\ \A g \in Frames \ {f} : frame'[g] = frame[g]
  BY <1>1, <1>2 DEF Types, FrameTypes, Cleared
<1>7. /\ pageMap'[c0] = f /\ \A c \in Pages \ {c0} : pageMap'[c] = IF c = erased THEN 0 ELSE pageMap[c]
      /\ \A c \in Pages : pageMap[c] # 0 => pageMap[c] \in Frames
  BY <1>1, <1>2, UserSets DEF Types, PageTypes, Frames
<1>8. /\ \A v \in Users \ {u}, g \in Frames : Holding(v, g)' <=> Holding(v, g)
      /\ \A g \in Frames : Holding(u, g)' <=> g = f
      /\ \A g \in Frames : ~Holding(u, g)
  BY <1>1, <1>5 DEF Holding
<1> HIDE DEF c0
<1>9. c0 \in Pages /\ c0 # NoPage /\ pageMap[c0] = 0
  BY <1>1, UserSets DEF c0
<1>10. Fresh'
  <2>1. \A i \in 1 .. Len(freeList') : frame'[freeList'[i]] = Cleared
    <3> SUFFICES ASSUME NEW i \in 1 .. Len(freeList') PROVE frame'[freeList'[i]] = Cleared
      OBVIOUS
    <3>1. PICK j \in 1 .. Len(freeList) : freeList[j] = freeList'[i]
      BY <1>1, <1>4, ListFacts
    <3>2. freeList'[i] # f /\ freeList'[i] \in Frames
      BY <1>1, <1>4, <3>1, ListFacts
    <3> QED
      BY <1>1, <1>6, <3>1, <3>2 DEF Fresh
  <2>2. \A g \in Frames : g > useCacheSize => g # f
    BY <1>1, <1>2, ListFacts
  <2>3. \A v \in Users, g \in Frames : Holding(v, g)' => frame'[g].code # NoPage
    BY <1>1, <1>6, <1>8, <1>9 DEF Fresh
  <2> QED
    BY <1>1, <1>3, <1>6, <2>1, <2>2, <2>3 DEF Fresh
<1>11. Dirt'
  BY <1>1, <1>3, <1>4, <1>6 DEF Dirt, Listed
<1>12. MapExact'
  BY <1>1, <1>4, <1>6, <1>7 DEF MapExact
<1>13. Bounded'
  <2>1. Getting' = Getting \ {u} /\ u \in Getting /\ Getting \in SUBSET Users
    BY <1>1, <1>5 DEF Getting
  <2>2. /\ Cardinality(Getting') = Cardinality(Getting) - 1
        /\ Cardinality(Getting) \in Nat /\ Cardinality(Users) \in Nat
        /\ Cardinality(Getting) <= Cardinality(Users)
    BY <2>1, UserSets
  <2>3. ASSUME NEW g \in Frames
        PROVE  frame'[g].ref + Cardinality(Getting') <= Cardinality(Users)
    <3>1. frame[g].ref \in Nat /\ frame[g].ref + Cardinality(Getting) <= Cardinality(Users)
      BY <1>1 DEF Bounded, Types, FrameTypes, FrameType
    <3>2. frame'[g].ref = 1 \/ frame'[g].ref = frame[g].ref
      BY <1>6
    <3> QED
      BY <2>2, <3>1, <3>2
  <2>4. ASSUME NEW v \in Users, user'[v].pc = "release"
        PROVE  user'[v].seen + Cardinality(Getting') <= Cardinality(Users)
    <3>1. user'[v] = user[v] /\ user[v].pc = "release"
      BY <1>5, <2>4
    <3>2. user[v].seen \in Nat /\ user[v].seen + Cardinality(Getting) <= Cardinality(Users)
      BY <1>1, <3>1 DEF Bounded, Types, UserTypes, UserType
    <3> QED
      BY <2>2, <3>1, <3>2
  <2> QED
    BY <2>3, <2>4 DEF Bounded
<1>14. ASSUME Exact PROVE Exact'
  <2>1. Holders(f) = {} /\ \A v \in Users : ~Holding(v, f)
    <3>1. Cardinality(Holders(f)) = 0 /\ Holders(f) \in SUBSET Users
      BY <1>4, <1>14 DEF Exact, Counted, Holders
    <3>2. Holders(f) = {}
      BY <3>1, UserSets
    <3> QED
      BY <3>2 DEF Holders
  <2>2. HeldPage'
    BY <1>5, <1>6, <1>8, <1>14, <2>1 DEF Exact, HeldPage
  <2>3. Counted'
    <3>1. Holders(f)' = {u}
      BY <1>8, <2>1 DEF Holders
    <3>2. \A g \in Frames \ {f} : Holders(g)' = Holders(g)
      BY <1>8 DEF Holders
    <3>3. Cardinality(Holders(f)') = 1
      BY <3>1, FS_Singleton
    <3> QED
      BY <1>6, <1>14, <3>2, <3>3 DEF Exact, Counted
  <2>4. Loaded'
    <3>1. \A v \in Users : user'[v].pc = "release" =>
              v # u /\ user'[v] = user[v] /\ user[v].at # f /\ user[v].at \in Frames
      BY <1>1, <1>5, <2>1 DEF Holding, Types, UserTypes
    <3> QED
      BY <1>6, <1>14, <3>1 DEF Exact, Loaded
  <2>5. \A v \in Users : user'[v].op = user[v].op /\ user'[v].page = user[v].page
    BY <1>5 DEF c0
  <2>6. \A g \in Frames \ {f} : Mapped(g)' => Mapped(g)
    <3>1. \A g \in Frames : g # 0
      BY UserSets DEF Frames
    <3> QED
      BY <1>6, <1>7, <3>1 DEF Mapped
  <2>7. ASSUME NEW p, Settled(p) PROVE Settled(p)'
    <3>1. \A g \in Frames : frame'[g].dirty => g # f /\ frame'[g] = frame[g]
      BY <1>6
    <3> QED
      BY <1>3, <2>5, <2>6, <2>7, <3>1 DEF Settled
  <2>8. ASSUME NEW g \in Frames \ {f}, frame[g].code \in Pages, ~Mapped(g)'
        PROVE  Settled(frame[g].code[1])
    \* g was not mapped either, or its page is the one whose frame goes, which is another then
    <3>1. CASE ~Mapped(g)
      BY <1>14, <2>8, <3>1 DEF Exact, Orphans
    <3>2. CASE Mapped(g)
      <4>1. frame[g].code # c0 /\ g # 0 /\ frame'[g].code = frame[g].code
        BY <1>6, <1>9, <2>8, <3>2, UserSets DEF Mapped, Frames
      <4>2. frame[g].code = erased /\ pageMap[erased] = g
        BY <1>6, <1>7, <2>8, <3>2, <4>1 DEF Mapped
      <4>3. frame[f].code \in Pages /\ ~Mapped(f) /\ frame[f].code = frame[g].code
        BY <1>4, <2>8, <4>2 DEF Mapped
      <4> QED
        BY <1>14, <4>3 DEF Exact, Orphans
    <3> QED
      BY <3>1, <3>2
  <2>9. Orphans'
    <3>1. Mapped(f)'
      BY <1>6, <1>7, <1>9 DEF Mapped
    <3>2. ASSUME NEW g \in Frames, frame'[g].code \in Pages, ~Mapped(g)'
          PROVE  Settled(frame[g].code[1])'
      <4>1. g # f /\ frame'[g] = frame[g]
        BY <1>6, <3>1, <3>2
      <4> QED
        BY <2>7, <2>8, <3>2, <4>1
    <3> QED
      BY <1>3, <1>14, <3>2 DEF Exact, Orphans
  <2>10. Chosen'
    BY <1>3, <1>14, <2>5 DEF Exact, Chosen
  <2>11. Versions'
    <3>1. \A v \in Users : user'[v].pc \in {"use", "split"} =>
              user[v] = user'[v] /\ Holding(v, user[v].at) /\ user[v].at # f /\ user[v].at \in Frames
      BY <1>1, <1>5, <2>1 DEF Holding, Types, UserTypes
    <3>2. \A g \in Frames \ {f} : (\E v \in Users : Holding(v, g)') => \E v \in Users : Holding(v, g)
      BY <1>8
    <3>3. ASSUME NEW c \in Pages, pageMap'[c] # 0 => ~frame'[pageMap'[c]].dirty
          PROVE  disk'[c] = newest'[c]
      \* a dirty frame of the page would be in the map, and would stay there
      <4>1. ASSUME pageMap[c] # 0, frame[pageMap[c]].dirty PROVE FALSE
        <5>1. PICK g \in Frames : g = pageMap[c]
          BY <1>7, <4>1
        <5>2. frame[g].code = c /\ g # f /\ Mapped(g) /\ frame[g].dirty /\ g # 0
          BY <1>1, <1>4, <4>1, <5>1 DEF MapExact, Mapped
        <5>3. ~Settled(c[1])
          BY <5>2 DEF Settled
        <5>4. Mapped(g)'
          BY <2>8, <5>2, <5>3
        <5>5. pageMap'[c] = g /\ frame'[g].dirty
          BY <1>6, <5>2, <5>4 DEF Mapped
        <5> QED
          BY <3>3, <5>2, <5>5
      <4> QED
        BY <1>3, <1>14, <4>1 DEF Exact, Versions
    <3> QED
      BY <1>3, <1>6, <1>14, <2>6, <3>1, <3>2, <3>3 DEF Exact, Versions
  <2> QED
    BY <2>2, <2>3, <2>4, <2>9, <2>10, <2>11 DEF Exact
<1> QED
  BY <1>1, <1>3, <1>4, <1>10, <1>11, <1>12, <1>13, <1>14 DEF IInv

LEMMA AllocCacheInv ==
    ASSUME IInv, NEW u \in Users, AllocCache(u)
    PROVE  IInv'
<1>1. /\ Types' /\ Types /\ Lists /\ Fresh /\ Dirt /\ MapExact /\ Bounded
      /\ UNCHANGED <<frame, pageMap, disk, newest, dirtyList, stranded, user, sync, old, place, raced>>
  BY AllocCacheTypes DEF IInv, AllocCache, Threading
<1>2. /\ Lists' /\ useCacheSize' > useCacheSize /\ useCacheSize' \in Nat
      /\ \A i \in 1 .. Len(freeList') : freeList'[i] > useCacheSize /\ freeList'[i] \in Frames
  BY <1>1, ListsAlloc
<1>3. Fresh'
  <2>1. \A f \in Frames : f > useCacheSize' => f > useCacheSize
    BY <1>1, <1>2, ListFacts, UserSets DEF Frames
  <2> QED
    BY <1>1, <1>2, <2>1 DEF Fresh, Holding
<1>4. Dirt' /\ MapExact' /\ Bounded'
  BY <1>1 DEF Dirt, Listed, MapExact, Bounded, Getting
<1>5. ASSUME Exact PROVE Exact'
  BY <1>1, <1>5 DEF Exact, HeldPage, Counted, Loaded, Chosen, Orphans, Versions, Holding, Holders, Mapped, Settled
<1> QED
  BY <1>1, <1>2, <1>3, <1>4, <1>5 DEF IInv

LEMMA SeekInv ==
    ASSUME IInv, NEW u \in Users, AllocPage(u) \/ Scan(u) \/ Wait(u)
    PROVE  IInv'
<1>1. /\ Types' /\ Types /\ Lists /\ Fresh /\ Dirt /\ MapExact /\ Bounded /\ PageTypes
      /\ user[u].pc \in {"alloc", "get", "scan"}
      /\ UNCHANGED <<frame, lists, pageMap, disk, newest, dirtyList, stranded, sync, old, place, raced>>
  BY SeekTypes DEF IInv, Types
<1>2. PICK pc \in {"get", "scan", "wait"} : user' = [user EXCEPT ![u] = [user[u] EXCEPT !.pc = pc]]
  BY SeekTypes DEF IInv
<1>3. /\ user'[u].pc = pc /\ user'[u].op = user[u].op /\ user'[u].page = user[u].page
      /\ \A v \in Users \ {u} : user'[v] = user[v]
  BY <1>1, <1>2 DEF Types, UserTypes, UserType
<1>4. \A v \in Users, f \in Frames : Holding(v, f)' <=> Holding(v, f)
  BY <1>1, <1>3 DEF Holding
<1>5. Lists' /\ Fresh' /\ Dirt' /\ MapExact'
  BY <1>1, <1>4, BaseKept DEF Lists, lists
<1>6. Getting' = Getting
  BY <1>1, <1>3 DEF Getting
<1>7. Bounded'
  BY <1>1, <1>3, <1>6 DEF Bounded
<1>8. ASSUME Exact PROVE Exact'
  <2>1. HeldPage' /\ Counted' /\ Loaded'
    BY <1>1, <1>3, <1>4, <1>8, HoldersKept DEF Exact, HeldPage, Counted, Loaded
  <2>2. \A v \in Users : user'[v].op = user[v].op /\ user'[v].page = user[v].page
    BY <1>3
  <2>3. Chosen' /\ Orphans'
    BY <1>1, <1>8, <2>2 DEF Exact, Chosen, Orphans, Mapped, Settled
  <2>4. Versions'
    BY <1>1, <1>3, <1>4, <1>8 DEF Exact, Versions, Mapped
  <2> QED
    BY <2>1, <2>3, <2>4 DEF Exact
<1> QED
  BY <1>1, <1>5, <1>7, <1>8 DEF IInv

LEMMA ReadPageInv ==
    ASSUME IInv, NEW u \in Users, ReadPage(u) \/ InitPage(u)
    PROVE  IInv'
<1>1. /\ Types' /\ Types /\ Lists /\ Fresh /\ Dirt /\ MapExact /\ Bounded /\ PageTypes
      /\ user[u].pc = "read" /\ user[u].at \in Frames /\ user[u].page \in Pages
      /\ user' = [user EXCEPT ![u] = [user[u] EXCEPT !.pc = "use"]]
  BY ReadPageTypes DEF IInv, Types
<1>2. UNCHANGED <<lists, pageMap, disk, newest, dirtyList, stranded, sync, old, place, raced>>
  BY ReadPageTypes DEF IInv
<1>3. PICK f \in Frames : f = user[u].at
  BY <1>1
<1>4. PICK n \in Nat :
         /\ \/ ~frame[f].init /\ n = disk[user[u].page]
            \/ frame[f].init /\ n = frame[f].ver
            \/ user[u].op = "alloc" /\ n = 0
         /\ frame' = [frame EXCEPT ![f] = [@ EXCEPT !.init = TRUE, !.ver = n]]
  BY <1>3, ReadPageTypes DEF IInv
<1>5. \A g \in Frames : /\ frame'[g].code = frame[g].code /\ frame'[g].dirty = frame[g].dirty
                        /\ frame'[g].ref = frame[g].ref
                        /\ g # f => frame'[g] = frame[g]
  BY <1>1, <1>4 DEF Types, FrameTypes, FrameType
<1>6. frame'[f].init = TRUE /\ frame'[f].ver = n
  BY <1>1, <1>4 DEF Types, FrameTypes, FrameType
<1>7. /\ user'[u].pc = "use" /\ user'[u].op = user[u].op /\ user'[u].page = user[u].page /\ user'[u].at = f
      /\ \A v \in Users \ {u} : user'[v] = user[v]
  BY <1>1, <1>3 DEF Types, UserTypes, UserType
<1>8. Holding(u, f) /\ \A v \in Users, g \in Frames : Holding(v, g)' <=> Holding(v, g)
  BY <1>1, <1>3, <1>7 DEF Holding
<1>9. Lists' /\ Fresh' /\ Dirt' /\ MapExact'
  <2>1. frame[f].code # NoPage
    BY <1>1, <1>8 DEF Fresh
  <2> QED
    BY <1>1, <1>2, <1>5, <1>8, <2>1, BaseKept DEF Lists, lists
<1>10. Getting' = Getting
  BY <1>1, <1>7 DEF Getting
<1>11. Bounded'
  BY <1>1, <1>5, <1>7, <1>10 DEF Bounded
<1>12. ASSUME Exact PROVE Exact'
  <2>1. HeldPage' /\ Counted'
    BY <1>5, <1>7, <1>8, <1>12, HoldersKept DEF Exact, HeldPage, Counted
  <2>2. Loaded'
    <3>1. \A v \in Users : user'[v].pc = "release" => user'[v] = user[v] /\ user[v].at \in Frames
      BY <1>1, <1>7 DEF Types, UserTypes
    <3> QED
      BY <1>5, <1>12, <3>1 DEF Exact, Loaded
  <2>3. \A g \in Frames : Mapped(g)' <=> Mapped(g)
    BY <1>2, <1>5 DEF Mapped
  <2>4. Orphans'
    <3>1. \A v \in Users : user'[v].op = user[v].op /\ user'[v].page = user[v].page
      BY <1>7
    <3>2. \A p : Settled(p) => Settled(p)'
      BY <1>2, <1>5, <2>3, <3>1 DEF Settled
    <3> QED
      BY <1>2, <1>5, <1>12, <2>3, <3>2 DEF Exact, Orphans
  <2>5. Chosen'
    <3>1. \A v \in Users : user'[v].op = user[v].op /\ user'[v].page = user[v].page
      BY <1>7
    <3> QED
      BY <1>2, <1>12, <3>1 DEF Exact, Chosen
  \* what is read from the file is the newest version: if the map gives another frame for the page,
  \* it is not dirty; and nothing was inserted into a new page
  <2>6. frame[f].code = user[u].page /\ frame[f].code \in Pages
    BY <1>1, <1>8, <1>12 DEF Exact, HeldPage
  <2>7. ~frame[f].init => disk[user[u].page] = newest[user[u].page]
    <3> DEFINE c == user[u].page
    <3> SUFFICES ASSUME ~frame[f].init, pageMap[c] # 0, frame[pageMap[c]].dirty PROVE FALSE
      BY <1>1, <1>12 DEF Exact, Versions
    <3>1. PICK g \in Frames : g = pageMap[c]
      BY <1>1, UserSets DEF PageTypes, Frames
    <3>2. g # f /\ frame[g].code = c /\ Mapped(g) /\ ~Mapped(f)
      BY <1>1, <1>12, <2>6, <3>1 DEF Exact, Versions, MapExact, Mapped
    <3>3. Settled(c[1])
      BY <1>12, <2>6, <3>2 DEF Exact, Orphans
    <3> QED
      BY <3>1, <3>2, <3>3 DEF Settled
  <2>8. Versions'
    <3>1. frame'[f].ver = newest[frame[f].code]
      <4>1. user[u].op = "alloc" => newest[user[u].page] = 0
        BY <1>12 DEF Exact, Chosen
      <4>2. frame[f].init => frame[f].ver = newest[frame[f].code]
        BY <1>8, <1>12 DEF Exact, Versions
      <4> QED
        BY <1>4, <1>6, <2>6, <2>7, <4>1, <4>2
    <3>2. \A v \in Users : user'[v].pc \in {"use", "split"} => v = u \/ (user'[v] = user[v] /\ user[v].at \in Frames)
      BY <1>1, <1>7 DEF Types, UserTypes
    <3>3. \A g \in Frames : g # f => frame'[g] = frame[g]
      BY <1>5
    <3>4. \A c \in Pages : pageMap[c] # 0 => pageMap[c] \in Frames
      BY <1>1, UserSets DEF PageTypes, Frames
    <3>5. \A v \in Users : user'[v].pc \in {"use", "split"} => frame'[user'[v].at].init
      <4>1. \A v \in Users : user[v].pc \in {"use", "split"} => frame[user[v].at].init
        BY <1>12 DEF Exact, Versions
      <4> QED
        BY <1>6, <1>7, <3>2, <3>3, <4>1
    <3>6. \A g \in Frames : frame'[g].dirty => frame'[g].init
      BY <1>5, <1>6, <3>3, <1>12 DEF Exact, Versions
    <3>7. \A c \in Pages : (pageMap'[c] # 0 => ~frame'[pageMap'[c]].dirty) => disk'[c] = newest'[c]
      BY <1>2, <1>5, <3>4, <1>12 DEF Exact, Versions
    <3>8. ASSUME NEW g \in Frames, frame'[g].init, Mapped(g)' \/ \E v \in Users : Holding(v, g)'
          PROVE  frame'[g].ver = newest'[frame'[g].code]
      <4>1. CASE g = f
        BY <1>2, <1>5, <3>1, <4>1
      <4>2. CASE g # f
        BY <1>2, <1>8, <2>3, <3>3, <3>8, <4>2, <1>12 DEF Exact, Versions
      <4> QED
        BY <4>1, <4>2
    <3> QED
      BY <3>5, <3>6, <3>7, <3>8 DEF Versions
  <2> QED
    BY <2>1, <2>2, <2>4, <2>5, <2>8 DEF Exact
<1> QED
  BY <1>1, <1>2, <1>9, <1>11, <1>12 DEF IInv

LEMMA UsePageInv ==
    ASSUME IInv, NEW u \in Users, UsePage(u) \/ FillPage(u) \/ EndSplit(u)
    PROVE  IInv'
<1>1. /\ Types' /\ Types /\ Lists /\ Fresh /\ Dirt /\ MapExact /\ Bounded /\ PageTypes
      /\ user[u].pc \in {"use", "split"} /\ user[u].at \in Frames /\ user[u].page \in Pages
      /\ user' = [user EXCEPT ![u] = [user[u] EXCEPT !.pc = "held", !.op = "query"]]
      /\ ChangedOrNot(u)
  BY UsePageTypes DEF IInv, Types
<1>2. UNCHANGED <<lists, pageMap, disk, stranded, sync, old, place, raced>>
  BY UsePageTypes DEF IInv
<1>3. PICK f \in Frames, c \in Pages : f = user[u].at /\ c = user[u].page
  BY <1>1
<1>4. /\ user'[u].pc = "held" /\ user'[u].op = "query" /\ user'[u].page = c /\ user'[u].at = f
      /\ \A v \in Users \ {u} : user'[v] = user[v]
  BY <1>1, <1>3 DEF Types, UserTypes, UserType
<1>5. Holding(u, f) /\ \A v \in Users, g \in Frames : Holding(v, g)' <=> Holding(v, g)
  BY <1>1, <1>3, <1>4 DEF Holding
<1>6. frame[f].code # NoPage /\ frame[f].code \in Pages /\ frame[f] # Cleared
  BY <1>1, <1>5 DEF Fresh, Cleared, Types, FrameTypes, FrameType
<1>7. Getting' = Getting
  BY <1>1, <1>4 DEF Getting
\* the frame and the page
<1>8. CASE Change(f) /\ user[u].op # "query"
  <2>1. /\ frame' = [frame EXCEPT ![f].ver = @ + 1, ![f].dirty = TRUE]
        /\ dirtyList' = IF frame[f].dirty THEN dirtyList ELSE dirtyList \cup {f}
        /\ newest' = [newest EXCEPT ![frame[f].code] = @ + 1]
    BY <1>8 DEF Change
  <2>2. /\ \A g \in Frames : /\ frame'[g].code = frame[g].code /\ frame'[g].ref = frame[g].ref
                             /\ frame'[g].init = frame[g].init /\ (g # f => frame'[g] = frame[g])
        /\ frame'[f].dirty = TRUE /\ frame'[f].ver = frame[f].ver + 1
    BY <1>1, <2>1 DEF Types, FrameTypes, FrameType
  <2>3. /\ frame[f].code = c => newest'[c] = newest[c] + 1
        /\ \A d \in Pages : d # frame[f].code => newest'[d] = newest[d]
    BY <1>1, <2>1 DEF PageTypes
  <2>4. Fresh'
    <3>1. \A i \in 1 .. Len(freeList) : freeList[i] \in Frames
      BY <1>1, ListFacts
    <3> QED
      BY <1>1, <1>2, <1>5, <1>6, <2>2, <3>1 DEF Fresh, lists
  <2>5. Dirt'
    <3>1. /\ Listed(f)' \/ f \in stranded
          /\ f \in stranded => ~Listed(f)'
      BY <1>1, <1>2, <2>1 DEF Dirt, Listed
    <3>2. \A g \in Frames : g # f => (Listed(g)' <=> Listed(g))
      BY <1>2, <2>1 DEF Listed
    <3>3. dirtyList' \cap (sync.todo \cup sync.copied) = {}
      BY <1>1, <2>1 DEF Dirt, Listed
    <3>4. \A g \in stranded : g \in Frames
      BY <1>1 DEF Types, SyncTypes
    <3> QED
      BY <1>1, <1>2, <1>6, <2>2, <3>1, <3>2, <3>3, <3>4 DEF Dirt
  <2>6. MapExact'
    <3>1. \A d \in Pages : pageMap[d] # 0 => pageMap[d] \in Frames
      BY <1>1, UserSets DEF PageTypes, Frames
    <3> QED
      BY <1>1, <1>2, <2>2, <3>1 DEF MapExact
  <2>7. Bounded'
    BY <1>1, <1>4, <1>7, <2>2 DEF Bounded
  <2>8. ASSUME Exact PROVE Exact'
    <3>1. frame[f].code = c /\ frame[f].init /\ ~Settled(c[1]) /\ Mapped(f)
      <4>1. frame[f].code = c /\ frame[f].init
        BY <1>1, <1>3, <1>5, <2>8 DEF Exact, HeldPage, Versions
      <4>2. ~Settled(c[1])
        BY <1>3, <1>8 DEF Settled
      <4> QED
        BY <2>8, <4>1, <4>2 DEF Exact, Orphans
    <3>2. HeldPage' /\ Counted'
      BY <1>3, <1>4, <1>5, <2>2, <2>8, HoldersKept DEF Exact, HeldPage, Counted
    <3>3. Loaded'
      <4>1. \A v \in Users : user'[v].pc = "release" => user'[v] = user[v] /\ user[v].at \in Frames
        BY <1>1, <1>4 DEF Types, UserTypes
      <4> QED
        BY <2>2, <2>8, <4>1 DEF Exact, Loaded
    <3>4. \A g \in Frames : Mapped(g)' <=> Mapped(g)
      BY <1>2, <2>2 DEF Mapped
    <3>5. ASSUME NEW p, Settled(p) PROVE Settled(p)'
      <4>1. p # c[1]
        BY <3>1, <3>5
      <4>2. \A v \in Users : user'[v].op # "query" => user'[v] = user[v]
        BY <1>4
      <4>3. \A g \in Frames : g # f => frame'[g] = frame[g]
        BY <2>2
      <4> QED
        BY <1>2, <2>2, <3>1, <3>4, <3>5, <4>1, <4>2, <4>3 DEF Settled
    <3>6. Orphans'
      BY <1>2, <2>2, <2>8, <3>4, <3>5 DEF Exact, Orphans
    \* another frame with the page, mapped or held, would be one of a part that takes no inserts
    <3>7. \A g \in Frames : g # f => frame[g].code # c
      <4> SUFFICES ASSUME NEW g \in Frames, g # f, frame[g].code = c PROVE FALSE
        OBVIOUS
      <4>1. ~Mapped(g)
        BY <3>1 DEF Mapped
      <4> QED
        BY <2>8, <3>1, <4>1 DEF Exact, Orphans
    <3>8. frame'[f].ver = newest'[c]
      BY <1>5, <2>2, <2>3, <2>8, <3>1 DEF Exact, Versions
    <3>9. ASSUME NEW g \in Frames, frame'[g].init, Mapped(g)' \/ \E v \in Users : Holding(v, g)'
          PROVE  frame'[g].ver = newest'[frame'[g].code]
      <4>1. CASE g = f
        BY <2>2, <3>1, <3>8, <4>1
      <4>2. CASE g # f
        <5>1. frame'[g] = frame[g] /\ frame[g].init /\ (Mapped(g) \/ \E v \in Users : Holding(v, g))
          BY <1>5, <2>2, <3>4, <3>9, <4>2
        <5>2. frame[g].code \in Pages
          BY <1>1, <5>1 DEF Mapped, Fresh, Types, FrameTypes, FrameType
        <5> QED
          BY <2>3, <2>8, <3>1, <3>7, <4>2, <5>1, <5>2 DEF Exact, Versions
      <4> QED
        BY <4>1, <4>2
    <3>10. ASSUME NEW d \in Pages, pageMap'[d] # 0 => ~frame'[pageMap'[d]].dirty
           PROVE  disk'[d] = newest'[d]
      <4>1. pageMap[d] # 0 => pageMap[d] \in Frames /\ frame[pageMap[d]].code = d
        BY <1>1, UserSets DEF PageTypes, MapExact, Frames
      <4>2. pageMap[c] = f /\ f # 0
        BY <3>1, UserSets DEF Mapped, Frames
      <4>3. d # c
        BY <1>2, <2>2, <3>10, <4>2
      <4>4. pageMap[d] # 0 => pageMap[d] # f /\ frame'[pageMap[d]] = frame[pageMap[d]]
        BY <2>2, <3>1, <4>1, <4>3
      <4>5. pageMap[d] # 0 => ~frame[pageMap[d]].dirty
        BY <1>2, <3>10, <4>4
      <4> QED
        BY <1>2, <2>3, <2>8, <3>1, <4>3, <4>5 DEF Exact, Versions
    <3>11. \A g \in Frames : frame'[g].dirty => frame'[g].init
      <4>1. \A g \in Frames : frame'[g].dirty => g = f \/ frame[g].dirty
        BY <2>2
      <4> QED
        BY <2>2, <2>8, <3>1, <4>1 DEF Exact, Versions
    <3>12. \A v \in Users : user'[v].pc \in {"use", "split"} =>
              user[v].pc \in {"use", "split"} /\ user'[v].at = user[v].at /\ user[v].at \in Frames
      BY <1>1, <1>4 DEF Types, UserTypes
    <3>13. Versions'
      BY <2>2, <2>8, <3>9, <3>10, <3>11, <3>12 DEF Exact, Versions
    \* the page of an AllocPage of another thread is not this one
    <3>14. Chosen'
      <4>1. \A v \in Users : user'[v].op = "alloc" => v # u /\ user'[v] = user[v] /\ user[v].page # c
        BY <1>3, <1>4, <2>8 DEF Exact, Chosen
      <4>2. \A v \in Users : user'[v].page = user[v].page
        BY <1>3, <1>4
      <4> QED
        BY <2>3, <2>8, <3>1, <4>1, <4>2, UserSets DEF Exact, Chosen
    <3> QED
      BY <3>2, <3>3, <3>6, <3>13, <3>14 DEF Exact
  <2>9. Lists'
    BY <1>1, <1>2 DEF Lists, lists
  <2> QED
    BY <1>1, <1>2, <2>4, <2>5, <2>6, <2>7, <2>8, <2>9 DEF IInv
<1>9. CASE UNCHANGED <<frame, dirtyList, newest>>
  <2>1. UNCHANGED <<frame, dirtyList, newest>>
    BY <1>9
  <2>2. Lists' /\ Fresh' /\ Dirt' /\ MapExact'
    BY <1>1, <1>2, <1>5, <2>1, BaseKept DEF Lists, lists
  <2>3. Bounded'
    BY <1>1, <1>4, <1>7, <2>1 DEF Bounded
  <2>4. ASSUME Exact PROVE Exact'
    <3>1. HeldPage' /\ Counted' /\ Loaded'
      BY <1>3, <1>4, <1>5, <2>1, <2>4, HoldersKept DEF Exact, HeldPage, Counted, Loaded
    <3>2. \A v \in Users : (user'[v].op # "query" => user'[v].op = user[v].op) /\ user'[v].page = user[v].page
      BY <1>3, <1>4
    <3>3. Chosen' /\ Orphans'
      BY <1>2, <2>1, <2>4, <3>2 DEF Exact, Chosen, Orphans, Mapped, Settled
    <3>4. Versions'
      BY <1>2, <1>4, <1>5, <2>1, <2>4 DEF Exact, Versions, Mapped
    <3> QED
      BY <3>1, <3>3, <3>4 DEF Exact
  <2> QED
    BY <1>1, <1>2, <2>2, <2>3, <2>4 DEF IInv
<1> QED
  BY <1>1, <1>3, <1>8, <1>9 DEF ChangedOrNot

LEMMA LoadRefInv ==
    ASSUME IInv, NEW u \in Users, LoadRef(u)
    PROVE  IInv'
<1>1. /\ Types' /\ Types /\ Lists /\ Fresh /\ Dirt /\ MapExact /\ Bounded /\ PageTypes
      /\ user[u].pc = "held" /\ user[u].at \in Frames
      /\ user' = [user EXCEPT ![u] = [user[u] EXCEPT !.pc = "release", !.seen = frame[user[u].at].ref]]
  BY LoadRefTypes DEF IInv, Types
<1>2. /\ UNCHANGED <<frame, lists, pageMap, disk, newest, dirtyList, stranded, sync, old, place>>
      /\ raced' = (raced \/ Releasing(user[u].at) # {})
  BY DEF LoadRef, UserStep, Threading, lists
<1>3. /\ user'[u].pc = "release" /\ user'[u].op = user[u].op /\ user'[u].page = user[u].page
      /\ user'[u].at = user[u].at /\ user'[u].seen = frame[user[u].at].ref
      /\ \A v \in Users \ {u} : user'[v] = user[v]
  BY <1>1 DEF Types, UserTypes, UserType
<1>4. \A v \in Users, g \in Frames : Holding(v, g)' <=> Holding(v, g)
  BY <1>1, <1>3 DEF Holding
<1>5. Lists' /\ Fresh' /\ Dirt' /\ MapExact'
  BY <1>1, <1>2, <1>4, BaseKept DEF Lists, lists
<1>6. Getting' = Getting
  BY <1>1, <1>3 DEF Getting
<1>7. Bounded'
  BY <1>1, <1>2, <1>3, <1>6 DEF Bounded
<1>8. ASSUME ~raced' PROVE Exact'
  <2>1. Exact /\ Releasing(user[u].at) = {}
    BY <1>2, <1>8 DEF IInv
  <2>2. HeldPage' /\ Counted'
    BY <1>2, <1>3, <1>4, <2>1, HoldersKept DEF Exact, HeldPage, Counted
  <2>3. Loaded'
    <3>1. \A v \in Users \ {u} : user[v].pc = "release" => user[v].at # user[u].at
      BY <2>1 DEF Releasing
    <3> QED
      BY <1>2, <1>3, <2>1, <3>1 DEF Exact, Loaded
  <2>4. \A v \in Users : user'[v].op = user[v].op /\ user'[v].page = user[v].page
    BY <1>3
  <2>5. Chosen' /\ Orphans'
    BY <1>2, <2>1, <2>4 DEF Exact, Chosen, Orphans, Mapped, Settled
  <2>6. Versions'
    BY <1>2, <1>3, <1>4, <2>1 DEF Exact, Versions, Mapped
  <2> QED
    BY <2>2, <2>3, <2>5, <2>6 DEF Exact
<1> QED
  BY <1>1, <1>5, <1>7, <1>8 DEF IInv

LEMMA StoreRefInv ==
    ASSUME IInv, NEW u \in Users, StoreRef(u)
    PROVE  IInv'
<1> DEFINE n == IF user[u].seen > 0 THEN user[u].seen - 1 ELSE 0
<1>1. /\ Types' /\ Types /\ Lists /\ Fresh /\ Dirt /\ MapExact /\ Bounded /\ PageTypes
      /\ user[u].pc = "release" /\ user[u].at \in Frames
      /\ user' = [user EXCEPT ![u] = IdleUser] /\ frame' = [frame EXCEPT ![user[u].at].ref = n]
  BY StoreRefTypes DEF IInv, Types
<1>2. UNCHANGED <<lists, pageMap, disk, newest, dirtyList, stranded, sync, old, place, raced>>
  BY DEF StoreRef, UserStep, Threading, lists
<1>3. PICK f \in Frames : f = user[u].at
  BY <1>1
<1>4. /\ user'[u].pc = "idle" /\ user'[u].op = "query" /\ user'[u].page = NoPage
      /\ \A v \in Users \ {u} : user'[v] = user[v]
  BY <1>1 DEF Types, UserTypes, IdleUser
<1>5. \A g \in Frames : /\ frame'[g].code = frame[g].code /\ frame'[g].dirty = frame[g].dirty
                        /\ frame'[g].init = frame[g].init /\ frame'[g].ver = frame[g].ver
                        /\ frame'[g].ref = IF g = f THEN n ELSE frame[g].ref
                        /\ g # f => frame'[g] = frame[g]
  <2> HIDE DEF n
  <2> QED
    BY <1>1, <1>3 DEF Types, FrameTypes, FrameType
<1>6. /\ Holding(u, f) /\ \A g \in Frames : Holding(u, g) => g = f
      /\ \A g \in Frames : ~Holding(u, g)'
      /\ \A v \in Users \ {u}, g \in Frames : Holding(v, g)' <=> Holding(v, g)
  BY <1>1, <1>3, <1>4 DEF Holding
<1>7. Lists' /\ Fresh' /\ Dirt' /\ MapExact'
  <2>1. frame[f].code # NoPage
    BY <1>1, <1>6 DEF Fresh
  <2>2. \A v \in Users, g \in Frames : Holding(v, g)' => Holding(v, g)
    BY <1>6
  <2> QED
    BY <1>1, <1>2, <1>5, <2>1, <2>2, BaseKept DEF Lists, lists
<1>8. Getting' = Getting /\ Getting \in SUBSET Users
  BY <1>1, <1>4 DEF Getting
<1>9. n \in Nat /\ n + Cardinality(Getting) <= Cardinality(Users)
  <2>1. user[u].seen \in Nat /\ user[u].seen + Cardinality(Getting) <= Cardinality(Users)
    BY <1>1 DEF Bounded, Types, UserTypes, UserType
  <2>2. Cardinality(Getting) \in Nat /\ Cardinality(Users) \in Nat
    BY <1>8, UserSets
  <2> QED
    BY <2>1, <2>2
<1>10. Bounded'
  BY <1>1, <1>4, <1>5, <1>8, <1>9 DEF Bounded
<1>11. ASSUME Exact PROVE Exact'
  <2>1. HeldPage'
    BY <1>4, <1>5, <1>6, <1>11 DEF Exact, HeldPage
  <2>2. Counted'
    <3>1. Holders(f)' = Holders(f) \ {u} /\ u \in Holders(f) /\ Holders(f) \in SUBSET Users
      BY <1>6 DEF Holders
    <3>2. \A g \in Frames : g # f => Holders(g)' = Holders(g)
      BY <1>6 DEF Holders
    <3>3. /\ Cardinality(Holders(f)') = Cardinality(Holders(f)) - 1 /\ Cardinality(Holders(f)) \in Nat
          /\ Cardinality(Holders(f)) # 0
      BY <3>1, UserSets
    <3>4. user[u].seen = Cardinality(Holders(f))
      BY <1>1, <1>3, <1>11 DEF Exact, Counted, Loaded
    <3>5. n = Cardinality(Holders(f)')
      BY <3>3, <3>4
    <3> QED
      BY <1>5, <1>11, <3>2, <3>5 DEF Exact, Counted
  <2>3. Loaded'
    <3>1. \A v \in Users : user'[v].pc = "release" =>
              v # u /\ user'[v] = user[v] /\ user[v].at # f /\ user[v].at \in Frames
      BY <1>1, <1>3, <1>4, <1>11 DEF Exact, Loaded, Types, UserTypes
    <3> QED
      BY <1>5, <1>11, <3>1 DEF Exact, Loaded
  <2>4. Orphans'
    <3>1. \A v \in Users : user'[v].op # "query" => user'[v] = user[v]
      BY <1>4
    <3>2. \A p : Settled(p) => Settled(p)'
      BY <1>2, <1>5, <3>1 DEF Settled, Mapped
    <3>3. \A g \in Frames : Mapped(g)' <=> Mapped(g)
      BY <1>2, <1>5 DEF Mapped
    <3> QED
      BY <1>2, <1>5, <1>11, <3>2, <3>3 DEF Exact, Orphans
  <2>5. Versions'
    <3>1. \A v \in Users : user'[v].pc \in {"use", "split"} => user'[v] = user[v] /\ user[v].at \in Frames
      BY <1>1, <1>4 DEF Types, UserTypes
    <3>2. \A g \in Frames : (\E v \in Users : Holding(v, g)') => \E v \in Users : Holding(v, g)
      BY <1>6
    <3>3. \A c \in Pages : pageMap[c] # 0 => pageMap[c] \in Frames
      BY <1>1, UserSets DEF PageTypes, Frames
    <3> QED
      BY <1>2, <1>5, <1>11, <3>1, <3>2, <3>3 DEF Exact, Versions, Mapped
  <2>6. Chosen'
    BY <1>2, <1>4, <1>11, UserSets DEF Exact, Chosen
  <2> QED
    BY <2>1, <2>2, <2>3, <2>4, <2>5, <2>6 DEF Exact
<1> QED
  BY <1>1, <1>2, <1>7, <1>10, <1>11 DEF IInv

-----------------------------------------------------------------------------
(* The steps of the sync thread and of the administrator.                  *)

\* A thread that is woken up is where it was.
SameThreads ==
    \A u \in Users : /\ user'[u].op = user[u].op /\ user'[u].page = user[u].page /\ user'[u].at = user[u].at
                     /\ user'[u].seen = user[u].seen
                     /\ user'[u].pc = user[u].pc \/ (user[u].pc = "wait" /\ user'[u].pc = "get")

LEMMA ThreadsKept ==
    ASSUME SameThreads
    PROVE  /\ \A u \in Users, f \in Frames : Holding(u, f)' <=> Holding(u, f)
           /\ \A f \in Frames : Holders(f)' = Holders(f)
           /\ Getting' = Getting
           /\ \A u \in Users : /\ user'[u].pc = "release" <=> user[u].pc = "release"
                               /\ user'[u].pc \in {"use", "split"} <=> user[u].pc \in {"use", "split"}
<1>1. \A u \in Users, f \in Frames : Holding(u, f)' <=> Holding(u, f)
  BY DEF SameThreads, Holding
<1>2. \A f \in Frames : Holders(f)' = Holders(f)
  BY <1>1, HoldersKept
<1>3. Getting' = Getting
  BY DEF SameThreads, Getting
<1> QED
  BY <1>1, <1>2, <1>3 DEF SameThreads

\* A step of the sync thread or of the administrator takes no reference and gives none up, moves
\* no page, and marks frames clean only.
LEMMA OthersBase ==
    ASSUME Types, Fresh, Lists, Bounded, SameThreads, UNCHANGED <<freeList, useCacheSize>>,
           \A f \in Frames : /\ frame'[f].code = frame[f].code /\ frame'[f].ref = frame[f].ref
                             /\ frame[f].code = NoPage => frame'[f] = frame[f]
    PROVE  Fresh' /\ Bounded'
<1>1. \A i \in 1 .. Len(freeList) : freeList[i] \in Frames
  BY ListFacts
<1>2. \A f \in Frames : frame[f] = Cleared => frame'[f] = Cleared
  BY DEF Cleared
<1>3. Fresh'
  BY <1>1, <1>2, ThreadsKept DEF Fresh
<1>4. Bounded'
  BY ThreadsKept DEF Bounded, SameThreads, Types, UserTypes, UserType
<1> QED
  BY <1>3, <1>4

LEMMA OthersExact ==
    ASSUME Types, Exact, SameThreads,
           \A f \in Frames : frame'[f].code = frame[f].code /\ frame'[f].ref = frame[f].ref,
           \A u \in Users : user[u].op = "alloc" => newest'[user[u].page] = newest[user[u].page]
    PROVE  HeldPage' /\ Counted' /\ Loaded' /\ Chosen'
<1>1. \A u \in Users : user[u].pc = "release" => user[u].at \in Frames
  BY DEF Types, UserTypes
<1>2. HeldPage'
  BY ThreadsKept DEF Exact, HeldPage, SameThreads
<1>3. Counted'
  BY ThreadsKept DEF Exact, Counted
<1>4. Loaded'
  BY <1>1, ThreadsKept DEF Exact, Loaded, SameThreads
<1>5. Chosen'
  BY DEF Exact, Chosen, SameThreads
<1> QED
  BY <1>2, <1>3, <1>4, <1>5

LEMMA PartStepInv ==
    ASSUME IInv, RedoEnd \/ \E p \in Parts : PassWindow(p) \/ RemovePart(p) \/ AttachPart(p)
    PROVE  IInv'
<1>1. Types'
  <2>1. CASE RedoEnd
    BY <2>1 DEF RedoEnd, counts, IInv, Types, FrameTypes, UserTypes, PageTypes, SyncTypes, PartTypes
  <2>2. CASE \E p \in Parts : PassWindow(p) \/ RemovePart(p) \/ AttachPart(p)
    BY <2>2, PartStepTypes DEF IInv
  <2> QED
    BY <2>1, <2>2
<1>2. UNCHANGED <<frame, lists, pageMap, disk, newest, dirtyList, stranded, user, sync, raced>> /\ old \subseteq old'
  BY DEF RedoEnd, PassWindow, RemovePart, AttachPart, AdminStep
<1>3. \A p \in Parts : place'[p] = "leaving" => place[p] = "leaving" \/ p \in old
  <2>1. place \in [Parts -> {"in", "leaving", "out"}]
    BY DEF IInv, Types, PartTypes
  <2> QED
    BY <2>1 DEF RedoEnd, PassWindow, RemovePart, AttachPart
<1>4. Lists' /\ Fresh' /\ Dirt' /\ MapExact' /\ Bounded'
  BY <1>2 DEF IInv, Lists, lists, Fresh, Holding, Dirt, Listed, MapExact, Bounded, Getting
<1>5. ASSUME Exact PROVE Exact'
  <2>1. HeldPage' /\ Counted' /\ Loaded' /\ Chosen' /\ Versions'
    BY <1>2, <1>5 DEF Exact, HeldPage, Counted, Loaded, Chosen, Versions, Holding, Holders, Mapped
  <2>2. Orphans'
    BY <1>2, <1>3, <1>5 DEF Exact, Orphans, Mapped, Settled
  <2> QED
    BY <2>1, <2>2 DEF Exact
<1> QED
  BY <1>1, <1>2, <1>4, <1>5 DEF IInv

LEMMA SyncBeginInv ==
    ASSUME IInv, SyncBegin \/ SyncCopy \/ SyncFails
    PROVE  IInv'
<1>1. Types' /\ Types /\ Lists /\ Fresh /\ Dirt /\ MapExact /\ Bounded
  BY SyncTypesNext DEF IInv, SyncNext
<1>2. UNCHANGED <<frame, lists, pageMap, disk, newest, user, old, place, raced>> /\ stranded \subseteq stranded'
  BY DEF SyncBegin, SyncCopy, SyncFails, SyncStep, lists
<1>3. Dirt'
  <2>1. CASE SyncBegin
    <3>1. /\ sync.todo = {} /\ sync.copied = {} /\ dirtyList' = {} /\ sync'.todo = dirtyList /\ sync'.copied = {}
          /\ stranded' = stranded
      BY <2>1 DEF SyncBegin, SyncStep, IdleSync
    <3> QED
      BY <1>1, <1>2, <3>1 DEF Dirt, Listed
  <2>2. CASE SyncCopy
    <3>1. PICK f \in sync.todo : sync' = [sync EXCEPT !.todo = @ \ {f}, !.copied = @ \cup {f}, !.ver[f] = frame[f].ver]
      BY <2>2 DEF SyncCopy, SyncStep
    <3>2. /\ dirtyList' = dirtyList /\ sync'.todo = sync.todo \ {f} /\ sync'.copied = sync.copied \cup {f}
          /\ stranded' = stranded
      BY <1>1, <2>2, <3>1 DEF SyncCopy, Types, SyncTypes
    <3> QED
      BY <1>1, <1>2, <3>1, <3>2 DEF Dirt, Listed
  <2>3. CASE SyncFails
    <3>1. /\ sync.todo = {} /\ dirtyList' = dirtyList /\ sync'.todo = {} /\ sync'.copied = {}
          /\ stranded' = stranded \cup sync.copied
      BY <2>3 DEF SyncFails, SyncStep, IdleSync
    <3> QED
      BY <1>1, <1>2, <3>1 DEF Dirt, Listed
  <2> QED
    BY <2>1, <2>2, <2>3
<1>4. Lists' /\ Fresh' /\ MapExact' /\ Bounded'
  BY <1>1, <1>2 DEF Lists, lists, Fresh, Holding, MapExact, Bounded, Getting
<1>5. ASSUME Exact PROVE Exact'
  BY <1>2, <1>5 DEF Exact, HeldPage, Counted, Loaded, Chosen, Versions, Holding, Holders, Mapped, Orphans, Settled
<1> QED
  BY <1>1, <1>2, <1>3, <1>4, <1>5 DEF IInv

\* A wake-up moves nothing but the threads that wait.
LEMMA SyncNotifyInv ==
    ASSUME IInv, SyncNotify
    PROVE  IInv'
<1>1. Types' /\ Types /\ Lists /\ Fresh /\ Dirt /\ MapExact /\ Bounded /\ PageTypes
  BY SyncTypesNext DEF IInv, SyncNext, Types
<1>2. SameThreads
  BY <1>1, SyncTypesNext DEF SyncNext, SameThreads
<1>3. /\ UNCHANGED <<frame, lists, pageMap, disk, newest, dirtyList, stranded, old, place, raced>>
      /\ sync.todo = {} /\ sync.copied = {} /\ sync'.todo = {} /\ sync'.copied = {}
  BY DEF SyncNotify, SyncStep, IdleSync
<1>4. Fresh' /\ Bounded'
  BY <1>1, <1>2, <1>3, OthersBase DEF lists
<1>5. Lists' /\ Dirt' /\ MapExact'
  BY <1>1, <1>3 DEF Lists, lists, Dirt, Listed, MapExact
<1>6. ASSUME Exact PROVE Exact'
  <2>1. HeldPage' /\ Counted' /\ Loaded' /\ Chosen'
    BY <1>1, <1>2, <1>3, <1>6, OthersExact
  <2>2. Orphans'
    BY <1>2, <1>3, <1>6 DEF Exact, Orphans, Mapped, Settled, SameThreads
  <2>3. Versions'
    <3>1. \A u \in Users, f \in Frames : Holding(u, f)' <=> Holding(u, f)
      BY <1>2, ThreadsKept
    <3>2. \A u \in Users : user'[u].pc \in {"use", "split"} => user[u].pc \in {"use", "split"} /\ user'[u].at = user[u].at
      BY <1>2 DEF SameThreads
    <3> QED
      BY <1>3, <1>6, <3>1, <3>2 DEF Exact, Versions, Mapped
  <2> QED
    BY <2>1, <2>2, <2>3 DEF Exact
<1> QED
  BY <1>1, <1>3, <1>4, <1>5, <1>6 DEF IInv

LEMMA SyncWriteInv ==
    ASSUME IInv, SyncWrite
    PROVE  IInv'
<1>1. Types' /\ Types /\ Lists /\ Fresh /\ Dirt /\ MapExact /\ Bounded /\ PageTypes
  BY SyncTypesNext DEF IInv, SyncNext, Types
<1>2. SameThreads
  BY <1>1, SyncTypesNext DEF SyncNext, SameThreads
<1>3. UNCHANGED <<lists, pageMap, newest, stranded, old, place, raced>>
  BY DEF SyncWrite, SyncStep, lists
<1>4. PICK f \in sync.copied :
         /\ disk' = [disk EXCEPT ![frame[f].code] = sync.ver[f]]
         /\ frame' = [frame EXCEPT ![f].dirty = frame[f].ver # sync.ver[f]]
         /\ dirtyList' = IF frame[f].ver # sync.ver[f] THEN dirtyList \cup {f} ELSE dirtyList
         /\ sync' = [sync EXCEPT !.copied = @ \ {f}, !.ver[f] = 0, !.wrote = TRUE]
  BY DEF SyncWrite, SyncStep
<1>5. f \in Frames /\ frame[f].dirty /\ f \notin stranded /\ frame[f].code \in Pages /\ frame[f].code # NoPage
  BY <1>1, <1>4, UserSets DEF Types, SyncTypes, Dirt, Listed
<1>6. \A g \in Frames : /\ frame'[g].code = frame[g].code /\ frame'[g].ref = frame[g].ref
                        /\ frame'[g].init = frame[g].init /\ frame'[g].ver = frame[g].ver
                        /\ g # f => frame'[g] = frame[g]
  BY <1>1, <1>4, <1>5 DEF Types, FrameTypes, FrameType
<1>7. frame'[f].dirty = (frame[f].ver # sync.ver[f])
  BY <1>1, <1>4, <1>5 DEF Types, FrameTypes
<1>8. sync'.todo = sync.todo /\ sync'.copied = sync.copied \ {f}
  BY <1>1, <1>4 DEF Types, SyncTypes
<1>9. Lists'
  BY <1>1, <1>3 DEF Lists, lists
<1>10. Fresh' /\ Bounded'
  BY <1>1, <1>2, <1>3, <1>5, <1>6, OthersBase DEF lists
<1>11. Dirt'
  <2>1. f \notin sync.todo /\ f \notin dirtyList
    BY <1>1, <1>4 DEF Dirt
  <2>2. \A g \in Frames : g # f => (Listed(g)' <=> Listed(g))
    BY <1>4, <1>8 DEF Listed
  <2>3. Listed(f)' <=> frame'[f].dirty
    BY <1>4, <1>7, <1>8, <2>1 DEF Listed
  <2>4. \A g \in stranded : g \in Frames /\ g # f
    BY <1>1, <1>5 DEF Types, SyncTypes
  <2>5. dirtyList' \cap (sync'.todo \cup sync'.copied) = {} /\ sync'.todo \cap sync'.copied = {}
    BY <1>1, <1>4, <1>8, <2>1 DEF Dirt
  <2> QED
    BY <1>1, <1>3, <1>5, <1>6, <2>2, <2>3, <2>4, <2>5 DEF Dirt
<1>12. MapExact'
  <2>1. \A c \in Pages : pageMap[c] # 0 => pageMap[c] \in Frames
    BY <1>1, UserSets DEF PageTypes, Frames
  <2> QED
    BY <1>1, <1>3, <1>6, <2>1 DEF MapExact
<1>13. ASSUME Exact PROVE Exact'
  <2>1. HeldPage' /\ Counted' /\ Loaded' /\ Chosen'
    BY <1>1, <1>2, <1>3, <1>6, <1>13, OthersExact
  <2>2. \A g \in Frames : (Mapped(g)' <=> Mapped(g)) /\ (frame'[g].dirty => frame[g].dirty)
    BY <1>3, <1>5, <1>6 DEF Mapped
  <2>3. Orphans'
    <3>1. \A p : Settled(p) => Settled(p)'
      BY <1>2, <1>3, <1>6, <2>2 DEF Settled, SameThreads
    <3> QED
      BY <1>3, <1>6, <1>13, <2>2, <3>1 DEF Exact, Orphans
  <2>4. Mapped(f) /\ frame[f].ver = newest[frame[f].code]
    <3>1. ~Settled(frame[f].code[1])
      BY <1>5 DEF Settled
    <3>2. Mapped(f)
      BY <1>5, <1>13, <3>1 DEF Exact, Orphans
    <3> QED
      BY <1>5, <1>13, <3>2 DEF Exact, Versions
  <2>5. ASSUME NEW d \in Pages, pageMap'[d] # 0 => ~frame'[pageMap'[d]].dirty
        PROVE  disk'[d] = newest'[d]
    <3>1. CASE d = frame[f].code
      <4>1. pageMap'[d] = f /\ f # 0
        BY <1>3, <1>5, <2>4, <3>1, UserSets DEF Mapped, Frames
      <4>2. frame[f].ver = sync.ver[f] /\ disk'[d] = sync.ver[f]
        BY <1>1, <1>4, <1>5, <1>7, <2>5, <3>1, <4>1 DEF PageTypes
      <4> QED
        BY <1>3, <2>4, <3>1, <4>2
    <3>2. CASE d # frame[f].code
      <4>1. disk'[d] = disk[d]
        BY <1>1, <1>4, <3>2 DEF PageTypes
      <4>2. pageMap[d] # 0 => pageMap[d] \in Frames /\ pageMap[d] # f
        BY <1>1, <3>2, UserSets DEF PageTypes, MapExact, Frames
      <4>3. pageMap[d] # 0 => ~frame[pageMap[d]].dirty
        BY <1>3, <1>6, <2>5, <4>2
      <4> QED
        BY <1>3, <1>13, <4>1, <4>3 DEF Exact, Versions
    <3> QED
      BY <3>1, <3>2
  <2>6. \A u \in Users : user'[u].pc \in {"use", "split"} =>
            user[u].pc \in {"use", "split"} /\ user'[u].at = user[u].at /\ user[u].at \in Frames
    BY <1>1, <1>2, ThreadsKept DEF SameThreads, Types, UserTypes
  <2>7. \A g \in Frames : (\E u \in Users : Holding(u, g)') => \E u \in Users : Holding(u, g)
    BY <1>2, ThreadsKept
  <2>8. Versions'
    BY <1>3, <1>6, <1>13, <2>2, <2>5, <2>6, <2>7 DEF Exact, Versions
  <2> QED
    BY <2>1, <2>3, <2>8 DEF Exact
<1> QED
  BY <1>1, <1>3, <1>9, <1>10, <1>11, <1>12, <1>13 DEF IInv

\* The part is out of the table and nobody uses a page of it: what is dirty of it is in the dirty
\* list, and is written or dropped with it.
LEMMA ClearPagesInv ==
    ASSUME IInv, NEW p \in Parts, NEW writes \in BOOLEAN, ClearPages(p, writes)
    PROVE  IInv'
<1>1. Types' /\ Types /\ Lists /\ Fresh /\ Dirt /\ MapExact /\ Bounded /\ PageTypes
  BY ClearPagesTypes DEF IInv, Types
<1>2. SameThreads
  BY <1>1, ClearPagesTypes DEF SameThreads
<1>3. /\ UNCHANGED <<lists, stranded, sync, old, raced>> /\ place[p] = "leaving" /\ ~InUse(p)
      /\ place' = [place EXCEPT ![p] = "out"] /\ dirtyList' = dirtyList \ PagesOf(p)
  BY DEF ClearPages, AdminStep
<1>4. \A f \in Frames : /\ frame'[f].code = frame[f].code /\ frame'[f].ref = frame[f].ref
                        /\ frame'[f].init = frame[f].init /\ frame'[f].ver = frame[f].ver
                        /\ frame'[f].dirty = (frame[f].dirty /\ f \notin PagesOf(p))
  BY <1>1, ClearPagesTypes
<1>5. \A f \in PagesOf(p) : f \in Frames /\ f \in dirtyList /\ frame[f].code[1] = p /\ frame[f].dirty
  BY <1>1 DEF PagesOf, Dirt, Listed
<1>6. \A f \in Frames : frame[f].dirty /\ frame[f].code[1] = p => f \in PagesOf(p) \/ f \in stranded
  BY <1>1, <1>3 DEF PagesOf, Dirt, Listed, InUse
<1>7. \A u \in Users : user[u].pc # "idle" => user[u].page[1] # p
  BY <1>3 DEF InUse
<1>8. Lists'
  BY <1>1, <1>3 DEF Lists, lists
<1>9. Fresh' /\ Bounded'
  <2>1. \A f \in Frames : frame[f].code = NoPage => frame'[f] = frame[f]
    <3>1. \A f \in Frames : frame[f].code = NoPage => f \notin PagesOf(p)
      BY <1>1, <1>5, UserSets DEF Dirt
    <3> QED
      BY <1>1, <3>1, ClearPagesTypes
  <2> QED
    BY <1>1, <1>2, <1>3, <1>4, <2>1, OthersBase DEF lists
<1>10. Dirt'
  <2>1. \A f \in Frames : Listed(f)' <=> Listed(f) /\ f \notin PagesOf(p)
    BY <1>1, <1>3, <1>5 DEF Listed, Dirt
  <2>2. \A f \in stranded : f \in Frames /\ f \notin PagesOf(p)
    BY <1>1, <1>5 DEF Listed, Dirt, Types, SyncTypes
  <2> QED
    BY <1>1, <1>3, <1>4, <2>1, <2>2 DEF Dirt
<1>11. \A c \in Pages : /\ pageMap'[c] = IF c[1] = p THEN 0 ELSE pageMap[c]
                        /\ newest'[c] = IF c[1] = p THEN disk'[c] ELSE newest[c]
                        /\ c[1] # p => disk'[c] = disk[c]
  BY DEF ClearPages
<1>12. MapExact'
  <2>1. \A c \in Pages : pageMap[c] # 0 => pageMap[c] \in Frames
    BY <1>1, UserSets DEF PageTypes, Frames
  <2> QED
    BY <1>1, <1>4, <1>11, <2>1 DEF MapExact
<1>13. ASSUME Exact PROVE Exact'
  <2>1. HeldPage' /\ Counted' /\ Loaded' /\ Chosen'
    <3>1. \A u \in Users : user[u].op = "alloc" => user[u].page \in Pages /\ user[u].page[1] # p
      BY <1>1, <1>7 DEF Types, UserTypes
    <3> QED
      BY <1>1, <1>2, <1>4, <1>11, <1>13, <3>1, OthersExact
  <2>2. \A f \in Frames : frame[f].code \in Pages =>
            IF frame[f].code[1] = p THEN ~Mapped(f)' ELSE Mapped(f)' <=> Mapped(f)
    <3>1. \A f \in Frames : f # 0
      BY UserSets DEF Frames
    <3> QED
      BY <1>4, <1>11, <3>1 DEF Mapped
  <2>3. \A f \in Frames : Mapped(f)' => Mapped(f)
    BY <1>4, <2>2 DEF Mapped
  <2>4. /\ \A q : Settled(q) => Settled(q)'
        /\ Settled(p)'
    <3>1. p \in old
      BY <1>3, <1>13 DEF Exact, Orphans
    <3>2. \A u \in Users : user[u].op # "query" => user[u].page[1] # p
      BY <1>1, <1>7 DEF Types, UserTypes
    <3>3. \A u \in Users : user'[u].op # "query" => user'[u].page[1] # p
      BY <1>2, <3>2 DEF SameThreads
    <3>4. \A f \in Frames : frame'[f].dirty => frame[f].dirty /\ frame[f].code \in Pages
      BY <1>1, <1>4 DEF Dirt
    <3>5. Settled(p)'
      BY <1>3, <1>4, <1>6, <2>2, <3>1, <3>3, <3>4 DEF Settled
    <3>6. ASSUME NEW q, Settled(q) PROVE Settled(q)'
      BY <1>2, <1>3, <1>4, <2>3, <3>6 DEF Settled, SameThreads
    <3> QED
      BY <3>5, <3>6
  <2>5. Orphans'
    <3>1. \A f \in Frames : frame'[f].code \in Pages /\ ~Mapped(f)' => Settled(frame[f].code[1])'
      BY <1>4, <1>13, <2>2, <2>4 DEF Exact, Orphans
    <3>2. \A q \in Parts : place'[q] = "leaving" => place[q] = "leaving"
      BY <1>1, <1>3 DEF Types, PartTypes
    <3>3. Settled(p)' /\ \A f \in Frames : frame'[f].code = frame[f].code
      BY <1>4, <2>4
    <3> QED
      BY <1>3, <1>13, <3>1, <3>2, <3>3 DEF Exact, Orphans
  <2>6. ASSUME NEW c \in Pages, pageMap'[c] # 0 => ~frame'[pageMap'[c]].dirty
        PROVE  disk'[c] = newest'[c]
    <3>1. CASE c[1] = p
      BY <1>11, <3>1
    <3>2. CASE c[1] # p
      <4>1. pageMap'[c] = pageMap[c] /\ disk'[c] = disk[c] /\ newest'[c] = newest[c]
        BY <1>11, <3>2
      <4>2. pageMap[c] # 0 => pageMap[c] \in Frames /\ frame[pageMap[c]].code = c
        BY <1>1, UserSets DEF PageTypes, MapExact, Frames
      <4>3. pageMap[c] # 0 => pageMap[c] \notin PagesOf(p)
        BY <1>5, <3>2, <4>2
      <4>4. pageMap[c] # 0 => ~frame[pageMap[c]].dirty
        BY <1>4, <2>6, <4>1, <4>2, <4>3
      <4> QED
        BY <1>13, <4>1, <4>4 DEF Exact, Versions
    <3> QED
      BY <3>1, <3>2
  <2>7. \A u \in Users, f \in Frames : Holding(u, f)' =>
            Holding(u, f) /\ frame[f].code \in Pages /\ frame[f].code[1] # p
    <3> SUFFICES ASSUME NEW u \in Users, NEW f \in Frames, Holding(u, f)
                 PROVE  frame[f].code \in Pages /\ frame[f].code[1] # p
      BY <1>2, ThreadsKept
    <3>1. user[u].pc # "idle"
      BY DEF Holding
    <3> QED
      BY <1>1, <1>7, <1>13, <3>1 DEF Exact, HeldPage, Types, UserTypes
  <2>8. ASSUME NEW f \in Frames, frame'[f].init, Mapped(f)' \/ \E u \in Users : Holding(u, f)'
        PROVE  frame'[f].ver = newest'[frame'[f].code]
    <3>1. frame[f].code \in Pages /\ frame[f].code[1] # p /\ (Mapped(f) \/ \E u \in Users : Holding(u, f))
      <4>1. CASE \E u \in Users : Holding(u, f)'
        BY <4>1, <2>7
      <4>2. CASE Mapped(f)'
        <5>1. frame[f].code \in Pages
          BY <1>4, <4>2 DEF Mapped
        <5> QED
          BY <2>2, <4>2, <5>1
      <4> QED
        BY <2>8, <4>1, <4>2
    <3>2. frame[f].ver = newest[frame[f].code]
      BY <1>4, <1>13, <2>8, <3>1 DEF Exact, Versions
    <3> QED
      BY <1>4, <1>11, <3>1, <3>2
  <2>9. \A u \in Users : user'[u].pc \in {"use", "split"} => frame'[user'[u].at].init
    <3>1. \A u \in Users : user'[u].pc \in {"use", "split"} =>
              user[u].pc \in {"use", "split"} /\ user'[u].at = user[u].at /\ user[u].at \in Frames
      BY <1>1, <1>2, ThreadsKept DEF SameThreads, Types, UserTypes
    <3> QED
      BY <1>4, <1>13, <3>1 DEF Exact, Versions
  <2>10. Versions'
    <3>1. \A f \in Frames : frame'[f].dirty => frame'[f].init
      BY <1>4, <1>13 DEF Exact, Versions
    <3> QED
      BY <3>1, <2>6, <2>8, <2>9 DEF Versions
  <2> QED
    BY <2>1, <2>5, <2>10 DEF Exact
<1> QED
  BY <1>1, <1>3, <1>8, <1>9, <1>10, <1>12, <1>13 DEF IInv

-----------------------------------------------------------------------------
(* The theorems.                                                           *)

LEMMA InitInv == Init => IInv
<1> SUFFICES ASSUME Init PROVE IInv
  OBVIOUS
<1>1. Types /\ Lists /\ Fresh /\ Dirt /\ MapExact
  BY TypesInit
<1>2. /\ \A u \in Users : user[u].pc = "idle" /\ user[u].op = "query"
      /\ \A f \in Frames : frame[f] = Cleared
  BY DEF Init, IdleUser
<1>3. Getting = {} /\ \A f \in Frames : Holders(f) = {}
  BY <1>2 DEF Getting, Holders, Holding
<1>4. \A S \in SUBSET Users : S = {} => Cardinality(S) = 0
  BY UserSets
<1>5. \A f \in Frames : frame[f].ref = 0 /\ frame[f].code = NoPage /\ ~frame[f].dirty /\ ~frame[f].init
  BY <1>2 DEF Cleared
<1>6. Bounded
  <2>1. Cardinality(Getting) = 0 /\ Cardinality(Users) \in Nat
    BY <1>3, <1>4, UserSets
  <2> QED
    BY <1>2, <1>5, <2>1 DEF Bounded
<1>7. HeldPage /\ Counted /\ Loaded
  BY <1>2, <1>3, <1>4, <1>5 DEF HeldPage, Counted, Loaded, Holding
<1>8. Orphans /\ Chosen
  BY <1>2, <1>5, UserSets DEF Orphans, Chosen, Init
<1>9. Versions
  BY <1>2, <1>5 DEF Versions, Init
<1> QED
  BY <1>1, <1>6, <1>7, <1>8, <1>9 DEF IInv, Exact

LEMMA NextInv == IInv /\ [Next]_vars => IInv'
<1> SUFFICES ASSUME IInv, [Next]_vars PROVE IInv'
  OBVIOUS
<1>1. ASSUME NEW u \in Users, UserNext(u) PROVE IInv'
  BY <1>1, LockInv, AllocBeginsInv, GetPageInv, GetPageRacedInv, GetNewPageInv, AllocCacheInv, SeekInv, ReadPageInv,
     UsePageInv, LoadRefInv, StoreRefInv DEF UserNext
<1>2. CASE RedoEnd
  BY <1>2, PartStepInv
<1>3. CASE SyncNext
  BY <1>3, SyncBeginInv, SyncWriteInv, SyncNotifyInv DEF SyncNext
<1>4. CASE AdminNext
  BY <1>4, PartStepInv, ClearPagesInv DEF AdminNext
<1>5. CASE UNCHANGED vars
  <2>1. UNCHANGED <<phase, frame, readList, freeList, useCacheSize, pageMap, disk, newest, dirtyList, stranded, user,
                    sync, pageMutex, old, place, admin, fails, raced>>
    BY <1>5 DEF vars, lists, counts
  <2>2. Types' /\ Lists' /\ Fresh' /\ Dirt' /\ MapExact' /\ Bounded'
    BY <2>1 DEF IInv, Types, FrameTypes, UserTypes, PageTypes, SyncTypes, PartTypes, Lists, Fresh, Dirt, MapExact,
       Bounded, Holding, Listed, Getting
  <2>3. Exact => Exact'
    BY <2>1 DEF Exact, HeldPage, Counted, Loaded, Chosen, Orphans, Versions, Holding, Holders, Mapped, Settled
  <2> QED
    BY <2>1, <2>2, <2>3 DEF IInv
<1> QED
  BY <1>1, <1>2, <1>3, <1>4, <1>5 DEF Next

\* The inductive invariant holds in every state.
THEOREM PoolInvariant == Spec => []IInv
<1>1. Init => IInv
  BY InitInv
<1>2. IInv /\ [Next]_vars => IInv'
  BY NextInv
<1> QED
  BY <1>1, <1>2, PTL DEF Spec

\* Whatever the threads, the frames and the parts, no frame is twice in the LRU and free lists
\* (_GetFreePage, GetNewPage, _AllocCache), and a count of references exceeds the number of threads
\* in no state, not even after a change without the lock was lost (PageRef).
THEOREM PoolTypes == Spec => []TypeOK
<1>1. IInv => TypeOK
  <2> SUFFICES ASSUME IInv PROVE TypeOK
    OBVIOUS
  <2>1. FrameTypes /\ UserTypes /\ PageTypes /\ SyncTypes /\ PartTypes /\ Lists /\ Bounded
    BY DEF IInv, Types
  <2>2. frame \in [Frames -> [code : Pages \cup {NoPage}, ref : 0 .. Cardinality(Users), dirty : BOOLEAN,
                              init : BOOLEAN, ver : Nat]]
    <3>1. Cardinality(Users) \in Nat /\ Cardinality(Getting) \in Nat
      <4>1. Users \in SUBSET Users /\ Getting \in SUBSET Users
        BY DEF Getting
      <4> QED
        BY <4>1, UserSets
    <3>2. \A f \in Frames : frame[f].ref \in Nat /\ frame[f].ref + Cardinality(Getting) <= Cardinality(Users)
      BY <2>1 DEF FrameTypes, FrameType, Bounded
    <3>3. \A f \in Frames : frame[f].ref \in 0 .. Cardinality(Users)
      BY <3>1, <3>2
    <3> QED
      BY <2>1, <3>3 DEF FrameTypes, FrameType
  <2>3. /\ IsInjective(readList \o freeList) /\ Range(readList) \cup Range(freeList) \subseteq 1 .. useCacheSize
        /\ useCacheSize \in AllocCnt .. FrameCnt
    <3> DEFINE S == 1 .. useCacheSize
               m == Len(readList)
    <3>1. readList \in Seq(S) /\ freeList \in Seq(S) /\ Range(readList) \cap Range(freeList) = {}
      BY <2>1 DEF Lists
    <3>2. DOMAIN readList = 1 .. m /\ DOMAIN freeList = 1 .. Len(freeList) /\ m \in Nat /\ Len(freeList) \in Nat
      BY <3>1
    <3>3. /\ \A i \in 1 .. m : readList[i] \in S /\ readList[i] \in Range(readList)
          /\ \A i \in 1 .. Len(freeList) : freeList[i] \in S /\ freeList[i] \in Range(freeList)
      BY <3>1, <3>2, ElementOfSeq DEF Range
    <3>4. /\ DOMAIN (readList \o freeList) = 1 .. m + Len(freeList)
          /\ \A i \in 1 .. m + Len(freeList) :
                (readList \o freeList)[i] = IF i <= m THEN readList[i] ELSE freeList[i - m]
      BY <3>1, ConcatProperties
    <3>5. /\ \A i, j \in 1 .. m : readList[i] = readList[j] => i = j
          /\ \A i, j \in 1 .. Len(freeList) : freeList[i] = freeList[j] => i = j
      BY <2>1, <3>2 DEF Lists, IsInjective
    <3>6. \A i \in 1 .. m + Len(freeList) : IF i <= m THEN i \in 1 .. m ELSE i - m \in 1 .. Len(freeList)
      BY <3>2
    <3>7. \A i \in 1 .. m, j \in 1 .. Len(freeList) : readList[i] # freeList[j]
      BY <3>1, <3>3
    <3>8. ASSUME NEW i \in 1 .. m + Len(freeList), NEW j \in 1 .. m + Len(freeList),
                 (readList \o freeList)[i] = (readList \o freeList)[j]
          PROVE  i = j
      <4>1. i \in Int /\ j \in Int /\ m \in Int
        BY <3>2
      <4>2. CASE i <= m /\ j <= m
        BY <4>2, <3>4, <3>5, <3>6, <3>8
      <4>3. CASE ~(i <= m) /\ ~(j <= m)
        <5>1. i - m = j - m
          BY <4>3, <3>4, <3>5, <3>6, <3>8
        <5> QED
          BY <4>1, <5>1
      <4>4. CASE (i <= m) # (j <= m)
        BY <4>4, <3>4, <3>6, <3>7, <3>8
      <4> QED
        BY <4>2, <4>3, <4>4
    <3>9. Range(readList) \cup Range(freeList) \subseteq S
      BY <3>2, <3>3 DEF Range
    <3> QED
      BY <2>1, <3>4, <3>8, <3>9 DEF IsInjective, Lists
  <2>4. /\ \A u \in Users : user[u].pc \in {"idle", "alloc", "get", "scan", "wait", "read", "use", "split", "held", "release"}
        /\ dirtyList \cup stranded \cup sync.todo \cup sync.copied \subseteq Frames
    BY <2>1 DEF UserTypes, UserType, SyncTypes
  <2> QED
    BY <2>1, <2>2, <2>3, <2>4 DEF TypeOK, PageTypes, PartTypes
<1> QED
  BY <1>1, PoolInvariant, PTL

\* Whatever the threads, the frames and the parts: as long as no unlocked change of a count has met
\* another, the frame that a thread uses has its page as the last insert left it, a dirty frame is
\* the one the map gives and waits to be written, unless a failed write has left it, and a page
\* whose frame is not dirty is in its file as it is (GetPage, _GetFreePage, SyncDirtyPages,
\* ClearPageForMask).
THEOREM CopyNewest == Spec => []NewestCopy
<1>1. IInv => NewestCopy
  <2> SUFFICES ASSUME IInv, Exact PROVE NewestCopy
    BY DEF IInv, NewestCopy
  <2>1. ASSUME NEW u \in Users, user[u].pc \in {"use", "split"}
        PROVE  frame[user[u].at].code = user[u].page /\ frame[user[u].at].ver = newest[user[u].page]
    <3>1. user[u].at \in Frames /\ Holding(u, user[u].at)
      BY <2>1 DEF IInv, Types, UserTypes, Holding
    <3> QED
      BY <2>1, <3>1 DEF Exact, HeldPage, Versions
  <2>2. ASSUME NEW f \in Frames, frame[f].dirty, f \notin stranded
        PROVE  pageMap[frame[f].code] = f /\ f \in dirtyList \cup sync.todo \cup sync.copied
    <3>1. frame[f].code \in Pages /\ Listed(f)
      BY <2>2 DEF IInv, Dirt
    <3>2. Mapped(f)
      BY <2>2, <3>1 DEF Exact, Orphans, Settled
    <3> QED
      BY <3>1, <3>2 DEF Mapped, Listed
  <2> QED
    BY <2>1, <2>2 DEF NewestCopy, Exact, Versions
<1> QED
  BY <1>1, PoolInvariant, PTL
=============================================================================
