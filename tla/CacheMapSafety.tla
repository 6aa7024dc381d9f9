--------------------------- MODULE CacheMapSafety ---------------------------
(***************************************************************************)
(* Theorems about the memory of CacheMap: that every variable keeps its    *)
(* type, that the victim of an eviction is a least used entry, and that    *)
(* clients that keep to the contract make the cache read nothing that is   *)
(* gone.                                                                   *)
(***************************************************************************)
EXTENDS CacheMapProofs, SequenceTheorems, WellFoundedInduction

(* The types *)

Entries(t) == [value : Values, visits : Nat, last : 0..t]
EntryOK == entry \in [Keys -> {NULL} \cup Entries(now)]

\* The order lists the keys of the dict, once each.
OrderOK ==
  /\ order \in Seq(Present) /\ Len(order) = Size
  /\ \A k \in Present : \E i \in 1..Len(order) : order[i] = k
  /\ \A i, j \in 1..Len(order) : order[i] = order[j] => i = j

Breaches == {"overlap", "shrink", "grow", "init", "pop", "raised"}
Faults == {"none", "out_of_list", "null_entry", "freed_key"}

ScalarsOK ==
  /\ capacity \in Capacities /\ now \in Nat
  /\ breach \subseteq Breaches /\ fault \in Faults

\* What a frame holds where it is.
FrameData(f) ==
  /\ f \in Frames
  /\ f.op \in Puts => f.key \in Keys /\ f.val \in Values
  /\ f.at \in {"first", "pair"} => f.key \in Keys
  /\ f.at = "pair" => f.val \in Values
  /\ f.op = "set_capacity" => f.cap \in Capacities
  /\ f.op = "set_capacity" /\ f.at \in Choose => f.left >= 1

FramesOK == call = [c \in Callers |-> call[c]] /\ \A c \in Callers : FrameData(call[c])

TInv == EntryOK /\ OrderOK /\ ScalarsOK /\ FramesOK

-----------------------------------------------------------------------------
(* The order *)

LEMMA RemoveAtFacts ==
  ASSUME NEW S, NEW s \in Seq(S), NEW i \in 1..Len(s)
  PROVE  /\ Seqs!RemoveAt(s, i) \in Seq(S) /\ Len(Seqs!RemoveAt(s, i)) = Len(s) - 1
         /\ \A j \in 1..Len(s) - 1 :
              Seqs!RemoveAt(s, i)[j] = IF j < i THEN s[j] ELSE s[j + 1]
<1> DEFINE a == SubSeq(s, 1, i - 1)
           b == SubSeq(s, i + 1, Len(s))
<1>1. a \in Seq(S) /\ Len(a) = i - 1 /\ \A j \in 1..i - 1 : a[j] = s[j]
  BY SubSeqProperties
<1>2. b \in Seq(S) /\ Len(b) = Len(s) - i /\ \A j \in 1..Len(s) - i : b[j] = s[i + j]
  BY SubSeqProperties
<1>3. Seqs!RemoveAt(s, i) = a \o b
  BY DEF Seqs!RemoveAt
<1> HIDE DEF a, b
<1>4. /\ a \o b \in Seq(S) /\ Len(a \o b) = Len(a) + Len(b)
      /\ \A j \in 1..Len(a) + Len(b) : (a \o b)[j] = IF j <= Len(a) THEN a[j] ELSE b[j - Len(a)]
  BY <1>1, <1>2, ConcatProperties
<1>5. Len(s) \in Nat /\ Len(a) + Len(b) = Len(s) - 1
  BY <1>1, <1>2, LenProperties
<1>6. ASSUME NEW j \in 1..Len(s) - 1
      PROVE  (a \o b)[j] = IF j < i THEN s[j] ELSE s[j + 1]
  <2>1. CASE j < i
    <3>1. (a \o b)[j] = a[j]
      BY <1>1, <1>4, <1>5, <2>1
    <3> QED BY <1>1, <2>1, <3>1
  <2>2. CASE ~(j < i)
    <3>1. (a \o b)[j] = b[j - (i - 1)]
      BY <1>1, <1>4, <1>5, <2>2
    <3>2. j - (i - 1) \in 1..Len(s) - i /\ i + (j - (i - 1)) = j + 1
      BY <1>5, <2>2
    <3> QED BY <1>2, <2>2, <3>1, <3>2
  <2> QED BY <2>1, <2>2
<1> QED BY <1>3, <1>4, <1>5, <1>6

LEMMA SameOrder ==
  ASSUME OrderOK, Present' = Present, order' = order PROVE OrderOK'
  BY DEF OrderOK, Size

LEMMA DropOrder ==
  ASSUME IInv, OrderOK, NEW k \in Present, Drop(k)
  PROVE  OrderOK' /\ Present' = Present \ {k} /\ Size' = Size - 1
<1>1. Present' = Present \ {k}
  BY Dropped
<1>2. Size' = Size - 1 /\ Size \in Nat
  BY <1>1, Sizes, FS_RemoveElement DEF Size
<1>3. PICK i \in 1..Len(order) : order[i] = k /\ order' = Seqs!RemoveAt(order, i)
  BY DEF Drop
<1> DEFINE s == order'
           n == Len(order)
<1>4. n \in Nat /\ n = Size /\ \A j \in 1..n : order[j] \in Present
  BY LenProperties, ElementOfSeq DEF OrderOK
<1>5. /\ s \in Seq(Present) /\ Len(s) = n - 1
      /\ \A j \in 1..n - 1 : s[j] = IF j < i THEN order[j] ELSE order[j + 1]
  BY <1>3, RemoveAtFacts DEF OrderOK
<1>6. \A j, l \in 1..n : order[j] = order[l] => j = l
  BY DEF OrderOK
<1> HIDE DEF n
<1>7. \A j \in 1..n - 1 : s[j] \in Present \ {k}
  BY <1>3, <1>4, <1>5, <1>6 DEF n
<1>8. s \in Seq(Present \ {k})
  <2>1. s \in [1..Len(s) -> Present]
    BY <1>5, LenProperties
  <2>2. s \in [1..n - 1 -> Present \ {k}]
    BY <1>5, <1>7, <2>1
  <2>3. n - 1 \in Nat
    BY <1>3, <1>4 DEF n
  <2> QED BY <2>2, <2>3, SeqDef
<1>9. ASSUME NEW e \in Present \ {k} PROVE \E j \in 1..n - 1 : s[j] = e
  <2>1. PICK l \in 1..n : order[l] = e
    BY DEF OrderOK, n
  <2>2. l # i
    BY <1>3, <2>1
  <2>3. CASE l < i
    BY <1>3, <1>4, <1>5, <2>1, <2>3 DEF n
  <2>4. CASE l > i
    <3>1. l - 1 \in 1..n - 1 /\ ~(l - 1 < i) /\ (l - 1) + 1 = l
      BY <1>3, <1>4, <2>4 DEF n
    <3> QED BY <1>5, <2>1, <3>1
  <2> QED BY <1>3, <2>2, <2>3, <2>4
<1>10. ASSUME NEW j \in 1..n - 1, NEW l \in 1..n - 1, s[j] = s[l] PROVE j = l
  <2>1. /\ j \in 1..n /\ l \in 1..n /\ j + 1 \in 1..n /\ l + 1 \in 1..n /\ i \in Int
    BY <1>3, <1>4 DEF n
  <2> QED BY <1>5, <1>6, <1>10, <2>1
<1>11. OrderOK'
  BY <1>1, <1>2, <1>4, <1>5, <1>8, <1>9, <1>10 DEF OrderOK
<1> QED BY <1>1, <1>2, <1>11

LEMMA AppendOrder ==
  ASSUME OrderOK, NEW k, k \notin Present, Present' = Present \cup {k},
         order' = Append(order, k)
  PROVE  OrderOK'
<1>1. Size' = Size + 1 /\ Size \in Nat
  BY Sizes, FS_AddElement DEF Size
<1> DEFINE S == Present \cup {k}
           n == Len(order)
<1>2. order \in Seq(S) /\ n \in Nat /\ \A j \in 1..n : order[j] \in Present
  BY SeqMonotonic, LenProperties, ElementOfSeq DEF OrderOK
<1>3. /\ order' \in Seq(S) /\ Len(order') = n + 1
      /\ \A j \in 1..n : order'[j] = order[j]
      /\ order'[n + 1] = k
  BY <1>2, AppendProperties
<1>4. /\ n = Size /\ \A j, l \in 1..n : order[j] = order[l] => j = l
      /\ \A e \in Present : \E j \in 1..n : order[j] = e
  BY DEF OrderOK
<1> HIDE DEF n
<1>5. \A e \in S : \E j \in 1..n + 1 : order'[j] = e
  BY <1>2, <1>3, <1>4
<1>6. \A j, l \in 1..n + 1 : order'[j] = order'[l] => j = l
  BY <1>2, <1>3, <1>4
<1> QED BY <1>1, <1>3, <1>4, <1>5, <1>6 DEF OrderOK

LEMMA EmptyOrder ==
  ASSUME Present' = {}, order' = <<>> PROVE OrderOK'
<1>1. Size' = 0
  BY FS_EmptySet DEF Size
<1>2. <<>> \in Seq({}) /\ Len(<<>>) = 0
  BY EmptySeq
<1> QED BY <1>1, <1>2 DEF OrderOK

-----------------------------------------------------------------------------
(* Entries *)

LEMMA EntryType ==
  ASSUME EntryOK, ScalarsOK, NEW k \in Present
  PROVE  /\ k \in Keys /\ entry[k] \in Entries(now) /\ entry[k] # NULL
         /\ Visited(entry[k]) \in Entries(now)
  BY DEF EntryOK, ScalarsOK, Present, Entries, Visited, Entry

LEMMA NewEntry ==
  ASSUME ScalarsOK, NEW v \in Values
  PROVE  Entry(v, DefaultVisits, now) \in Entries(now)
  BY NumbersAssumption DEF ScalarsOK, Entries, Entry

LEMMA NotNull == ASSUME NEW t \in Nat, NEW e \in Entries(t) PROVE e # NULL
  BY NullAssumption DEF Entries

LEMMA PutEntry ==
  ASSUME EntryOK, NEW k \in Keys, NEW e \in {NULL} \cup Entries(now),
         entry' = [entry EXCEPT ![k] = e], UNCHANGED now
  PROVE  EntryOK' /\ Present' = IF e = NULL THEN Present \ {k} ELSE Present \cup {k}
  BY DEF EntryOK, Present

LEMMA SameEntry == ASSUME EntryOK, UNCHANGED <<entry, now>> PROVE EntryOK' /\ Present' = Present
  BY DEF EntryOK, Present

LEMMA VisitEntry ==
  ASSUME EntryOK, ScalarsOK, NEW k \in Present, UNCHANGED now,
         entry' = [entry EXCEPT ![k] = Visited(@)]
  PROVE  EntryOK' /\ Present' = Present
<1>1. k \in Keys /\ Visited(entry[k]) \in Entries(now)
  BY EntryType
<1>2. Visited(entry[k]) # NULL
  BY <1>1, NotNull DEF ScalarsOK
<1>3. entry' = [entry EXCEPT ![k] = Visited(entry[k])]
  OBVIOUS
<1> HIDE DEF Visited
<1>4. EntryOK' /\ Present' = Present \cup {k}
  BY <1>1, <1>2, <1>3, PutEntry
<1> QED BY <1>4

-----------------------------------------------------------------------------
(* Frames *)

Ops == {"idle", "put", "setdefault", "setnx", "update", "evict", "next_evict_key",
        "set_capacity", "popitem", "pop"}
Ats == Fragile \cup {"idle", "lookup", "pop"}
Scans == [now : Nat, count : Nat, list : Seq(Keys), i : Nat, min : Nat,
          rv : Keys \cup {NULL}, key : Keys \cup {NULL}]

LEMMA FramesIs ==
  Frames = [op : Ops, at : Ats, key : Keys \cup {NULL}, val : Values \cup {NULL},
            todo : Seq(Keys \X Values), victim : Keys \cup {NULL}, left : Nat,
            cap : Capacities \cup {0}, scan : Scans]
  BY DEF Frames, Ops, Ats, Scans

\* ... and the frames with which a search begins.
Begun == [op : Ops, at : Ats \cup {"evict"}, key : Keys \cup {NULL}, val : Values \cup {NULL},
          todo : Seq(Keys \X Values), victim : Keys \cup {NULL}, left : Nat,
          cap : Capacities \cup {0}, scan : Scans]

LEMMA FramesBegun == Frames \subseteq Begun
  BY FramesIs DEF Begun

LEMMA NoScanType == NoScan \in Scans
<1>1. <<>> \in Seq(Keys)
  BY EmptySeq
<1> QED BY <1>1 DEF NoScan, Scan, Scans

LEMMA FrameType ==
  ASSUME NEW op \in Ops, NEW at \in Ats, NEW k \in Keys \cup {NULL},
         NEW v \in Values \cup {NULL}, NEW todo \in Seq(Keys \X Values)
  PROVE  LET f == Frame(op, at, k, v, todo) IN
         /\ f \in Frames /\ f.op = op /\ f.at = at /\ f.key = k /\ f.val = v
         /\ f.todo = todo /\ f.victim = NULL /\ f.left = 0 /\ f.cap = 0 /\ f.scan = NoScan
<1>1. Frame(op, at, k, v, todo) \in Frames
  BY NoScanType, FramesIs DEF Frame
<1> QED BY <1>1 DEF Frame

LEMMA FieldTypes ==
  ASSUME NEW f \in Frames
  PROVE  /\ f.op \in Ops /\ f.at \in Ats /\ f.key \in Keys \cup {NULL}
         /\ f.val \in Values \cup {NULL} /\ f.todo \in Seq(Keys \X Values)
         /\ f.victim \in Keys \cup {NULL} /\ f.left \in Nat /\ f.cap \in Capacities \cup {0}
         /\ f.scan \in Scans
  BY FramesIs

LEMMA IdleData == FrameData(Idle)
<1>1. <<>> \in Seq(Keys \X Values) /\ "idle" \in Ops /\ "idle" \in Ats
  BY EmptySeq DEF Ops, Ats
<1>2. Idle \in Frames
  BY <1>1, FrameType DEF Idle
<1> QED BY <1>2, IdleFrame DEF FrameData, Choose, Puts

LEMMA LookupData ==
  ASSUME NEW op \in Puts, NEW k \in Keys, NEW v \in Values,
         NEW todo \in Seq(Keys \X Values)
  PROVE  FrameData(Frame(op, "lookup", k, v, todo))
<1>1. op \in Ops /\ "lookup" \in Ats
  BY DEF Ops, Ats, Puts
<1> DEFINE f == Frame(op, "lookup", k, v, todo)
<1>2. f \in Frames /\ f.op = op /\ f.at = "lookup" /\ f.key = k /\ f.val = v
  BY <1>1, FrameType
<1> HIDE DEF f
<1>3. FrameData(f)
  BY <1>2 DEF FrameData, Puts, Choose
<1> QED BY <1>3 DEF f

LEMMA StepFrames ==
  ASSUME FramesOK, NEW c \in Callers, NEW g, Goes(c, g), FrameData(g) PROVE FramesOK'
  BY DEF FramesOK, Goes

LEMMA SameFrames == ASSUME FramesOK, UNCHANGED call PROVE FramesOK'
  BY DEF FramesOK

-----------------------------------------------------------------------------
(* The walk over a small cache finds a key of the cache. *)

LEMMA NatMin ==
  ASSUME NEW T, T \subseteq Nat, T # {} PROVE \E x \in T : \A y \in T : x <= y
<1> DEFINE R == OpToRel(<, Nat)
<1>1. IsWellFoundedOn(R, Nat)
  BY Zenon, NatLessThanWellFounded
<1> HIDE DEF R
<1>2. PICK x \in T : \A y \in T : ~(<<y, x>> \in R)
  BY <1>1, WFMin
<1>3. ASSUME NEW y \in T, ~(x <= y) PROVE FALSE
  <2>1. x \in Nat /\ y \in Nat /\ y < x
    BY <1>3
  <2>2. <<y, x>> \in R
    BY <2>1 DEF R, OpToRel
  <2> QED BY <1>2, <2>2
<1> QED BY <1>2, <1>3

LEMMA WeightType ==
  ASSUME NEW t \in Nat, NEW e, e.visits \in Nat, e.last \in Nat
  PROVE  Weight(e, t) \in Nat
<1> DEFINE d == (t - e.last) \div DecayEvery
<1>1. d \in Int
  BY NumbersAssumption
<1> HIDE DEF d
<1>2. Weight(e, t) = IF e.last > t \/ e.visits <= d THEN 0 ELSE e.visits - d
  BY DEF Weight, d
<1> QED BY <1>1, <1>2
LEMMA WeightAtType ==
  ASSUME EntryOK, OrderOK, ScalarsOK, NEW i \in 1..Len(order)
  PROVE  order[i] \in Present /\ WeightAt(i) \in Nat
<1>1. order[i] \in Present
  BY ElementOfSeq DEF OrderOK
<1>2. entry[order[i]].visits \in Nat /\ entry[order[i]].last \in Nat /\ now \in Nat
  BY <1>1, EntryType DEF Entries, ScalarsOK
<1> QED BY <1>1, <1>2, WeightType DEF WeightAt

\* the first of the least weights among the positions from
FirstLeast(from) ==
  {i \in from : \A j \in from : WeightAt(i) < WeightAt(j) \/ (WeightAt(i) = WeightAt(j) /\ i <= j)}

LEMMA WalkLeast ==
  ASSUME EntryOK, OrderOK, ScalarsOK, NEW from, from \subseteq 1..Len(order), from # {}
  PROVE  (CHOOSE i \in FirstLeast(from) : TRUE) \in FirstLeast(from)
<1>1. \A i \in from : i \in Nat /\ WeightAt(i) \in Nat
  BY WeightAtType
<1> DEFINE W == {WeightAt(i) : i \in from}
<1>2. W \subseteq Nat /\ W # {}
  BY <1>1
<1>3. PICK w \in W : \A x \in W : w <= x
  BY <1>2, NatMin
<1> DEFINE T == {i \in from : WeightAt(i) = w}
<1>4. T \subseteq Nat /\ T # {}
  BY <1>1, <1>3
<1>5. PICK i \in T : \A j \in T : i <= j
  BY <1>4, NatMin
<1>6. ASSUME NEW j \in from
      PROVE  WeightAt(i) < WeightAt(j) \/ (WeightAt(i) = WeightAt(j) /\ i <= j)
  <2>1. WeightAt(j) \in W /\ WeightAt(i) = w /\ i \in from
    BY <1>5
  <2>2. w <= WeightAt(j) /\ i \in Nat /\ j \in Nat /\ WeightAt(j) \in Nat /\ w \in Nat
    BY <1>1, <1>2, <1>3, <2>1
  <2>3. WeightAt(j) = w => i <= j
    BY <1>5
  <2>4. w < WeightAt(j) \/ w = WeightAt(j)
    BY <2>2
  <2> QED BY <2>1, <2>3, <2>4
<1>7. i \in FirstLeast(from)
  BY <1>5, <1>6 DEF FirstLeast
<1> QED BY <1>7

LEMMA WalkFinds ==
  ASSUME EntryOK, OrderOK, ScalarsOK, Present # {} PROVE NextEvictKey \in Present
<1> DEFINE n == Len(order)
           from == {i \in 1..n : \A j \in i..n : WeightAt(j) > 0}
<1>1. n \in Nat \ {0}
  BY LenProperties DEF OrderOK
<1>2. NextEvictKey = IF from = {} THEN order[n] ELSE order[CHOOSE i \in FirstLeast(from) : TRUE]
  BY DEF NextEvictKey, FirstLeast
<1>3. CASE from = {}
  BY <1>1, <1>2, <1>3, WeightAtType
<1>4. CASE from # {}
  <2>1. (CHOOSE i \in FirstLeast(from) : TRUE) \in 1..n
    <3>1. from \subseteq 1..Len(order)
      OBVIOUS
    <3> HIDE DEF from
    <3>2. (CHOOSE i \in FirstLeast(from) : TRUE) \in FirstLeast(from)
      BY <1>4, <3>1, WalkLeast
    <3> QED BY <3>1, <3>2 DEF FirstLeast
  <2> QED BY <1>2, <1>4, <2>1, WeightAtType
<1> QED BY <1>3, <1>4

-----------------------------------------------------------------------------
(* The search for a victim *)

\* The frame g of a call with frame f that has begun to search.
Searching(f, g) ==
  /\ FrameData(g)
  /\ \/ g = Idle /\ f.op = "next_evict_key"
     \/ /\ g.op = f.op /\ g.key = f.key /\ g.val = f.val /\ g.todo = f.todo
        /\ g.left = f.left /\ g.cap = f.cap
        /\ \/ g.at = "victim" /\ g.victim \in Present
           \/ g.at = "list" /\ Size >= BucketSize
              /\ g.scan = Scan(now, Size, <<>>, 0, 0, NULL, NULL)

\* A frame that can search.
Searcher(f) ==
  /\ f \in Begun
  /\ f.op \in Puts => f.key \in Keys /\ f.val \in Values
  /\ f.op = "set_capacity" => f.cap \in Capacities /\ f.left >= 1

LEMMA ChosenData ==
  ASSUME NEW c \in Callers, NEW f, Searcher(f), NEW k \in Keys \cup {NULL}, Chosen(c, f, k)
  PROVE  \E g : /\ Goes(c, g) /\ FrameData(g)
                /\ \/ g = Idle /\ f.op = "next_evict_key"
                   \/ /\ g.op = f.op /\ g.key = f.key /\ g.val = f.val /\ g.todo = f.todo
                      /\ g.left = f.left /\ g.cap = f.cap
                      /\ g.at = "victim" /\ g.victim = k
<1>1. CASE f.op = "next_evict_key"
  BY <1>1, IdleData DEF Chosen, Returns
<1>2. CASE f.op # "next_evict_key"
  <2> DEFINE g == [f EXCEPT !.at = "victim", !.victim = k, !.scan = NoScan]
  <2>1. Goes(c, g)
    BY <1>2 DEF Chosen
  <2>2. "victim" \in Ats
    BY DEF Ats, Fragile
  <2>3. /\ g.op = f.op /\ g.key = f.key /\ g.val = f.val /\ g.todo = f.todo
        /\ g.left = f.left /\ g.cap = f.cap /\ g.at = "victim" /\ g.victim = k
    BY DEF Searcher, Begun
  <2>4. g \in Frames
    BY <2>2, NoScanType, FramesIs DEF Searcher, Begun
  <2> HIDE DEF g
  <2>5. FrameData(g)
    BY <2>3, <2>4 DEF FrameData, Searcher
  <2> QED BY <2>1, <2>3, <2>5
<1> QED BY <1>1, <1>2

LEMMA ChoosingData ==
  ASSUME EntryOK, OrderOK, ScalarsOK, NEW c \in Callers, NEW f, Searcher(f),
         Present # {}, Choosing(c, f)
  PROVE  \E g : Goes(c, g) /\ Searching(f, g)
<1>1. CASE Size < BucketSize
  <2>1. Chosen(c, f, NextEvictKey) /\ NextEvictKey \in Present /\ Present \subseteq Keys
    BY <1>1, WalkFinds DEF Choosing, Present
  <2> QED BY <2>1, ChosenData DEF Searching
<1>2. CASE ~(Size < BucketSize)
  <2> DEFINE s == Scan(now, Size, <<>>, 0, 0, NULL, NULL)
             g == [f EXCEPT !.at = "list", !.scan = s]
  <2>1. Goes(c, g)
    BY <1>2 DEF Choosing
  <2>2. "list" \in Ats
    BY DEF Ats, Fragile
  <2>3. s \in Scans
    <3>1. <<>> \in Seq(Keys)
      BY EmptySeq
    <3> QED BY <3>1, Sizes DEF Scan, Scans, ScalarsOK
  <2> HIDE DEF s
  <2>4. /\ g.op = f.op /\ g.key = f.key /\ g.val = f.val /\ g.todo = f.todo
        /\ g.left = f.left /\ g.cap = f.cap /\ g.at = "list" /\ g.scan = s
    BY DEF Searcher, Begun
  <2>5. g \in Frames
    BY <2>2, <2>3, FramesIs DEF Searcher, Begun
  <2> HIDE DEF g
  <2>6. FrameData(g)
    BY <2>4, <2>5 DEF FrameData, Searcher
  <2>7. Size >= BucketSize
    BY <1>2, Sizes, NumbersAssumption
  <2> QED BY <2>1, <2>4, <2>6, <2>7 DEF Searching, s
<1> QED BY <1>1, <1>2

-----------------------------------------------------------------------------
(* Steps and the types *)

LEMMA CallData ==
  ASSUME IInv, TInv, NEW c \in Callers
  PROVE  LET f == call[c] IN
         /\ FrameOK(f) /\ FrameData(f) /\ f \in Frames /\ f \in Begun
         /\ f.at \in Choose => Searcher(f)
  BY FrameOf, FramesBegun DEF TInv, FramesOK, FrameData, Searcher

LEMMA ChangesType == \A c : Changes(c) \subseteq Breaches
  BY DEF Changes, Breaches

\* Steps that leave the cache alone.
LEMMA SameCacheT ==
  ASSUME TInv, UNCHANGED <<cache, now>>, breach' \subseteq Breaches, fault' \in Faults, FramesOK'
  PROVE  TInv'
<1>1. EntryOK' /\ OrderOK'
  BY SameEntry, SameOrder DEF TInv, cache
<1> QED BY <1>1 DEF TInv, ScalarsOK, cache

LEMMA StutterT == ASSUME TInv, UNCHANGED vars PROVE TInv'
  BY SameCacheT, SameFrames DEF TInv, ScalarsOK, vars

LEMMA TickT == ASSUME TInv, Tick PROVE TInv'
<1>1. now' = now + 1 /\ now \in Nat /\ UNCHANGED <<cache, call, breach, fault>>
  BY DEF Tick, TInv, ScalarsOK
<1>2. Entries(now) \subseteq Entries(now')
  BY <1>1 DEF Entries
<1>3. EntryOK'
  BY <1>1, <1>2 DEF TInv, EntryOK, cache
<1>4. OrderOK'
  <2>1. Present' = Present
    BY <1>1 DEF Present, cache
  <2> QED BY <1>1, <2>1, SameOrder DEF TInv, cache
<1> QED BY <1>1, <1>3, <1>4, SameFrames DEF TInv, ScalarsOK, cache

LEMMA ListKeysT == ASSUME IInv, TInv, NEW c \in Callers, ListKeys(c) PROVE TInv'
<1> DEFINE g == [call[c] EXCEPT !.at = "sample", !.scan.list = order]
<1>1. call[c].at = "list" /\ Goes(c, g) /\ UNCHANGED <<cache, now, breach, fault>>
  BY DEF ListKeys, Inside
<1>2. order \in Seq(Keys)
  BY SeqMonotonic DEF TInv, OrderOK, Present
<1> DEFINE s == [call[c].scan EXCEPT !.list = order]
<1>3. s \in Scans
  <2>1. call[c].scan \in Scans
    BY CallData, FieldTypes
  <2> QED BY <1>2, <2>1 DEF Scans
<1>4. g = [call[c] EXCEPT !.at = "sample", !.scan = s]
  BY CallData, FramesIs
<1> HIDE DEF s, g
<1>5. "sample" \in Ats
  BY DEF Ats, Fragile
<1>6. /\ g \in Frames /\ g.at = "sample" /\ g.op = call[c].op /\ g.key = call[c].key
      /\ g.val = call[c].val /\ g.cap = call[c].cap /\ g.left = call[c].left
  BY <1>3, <1>4, <1>5, CallData, FramesIs
<1>7. FrameData(g)
  BY <1>1, <1>6, CallData DEF FrameData, Choose
<1> QED BY <1>1, <1>7, StepFrames, SameCacheT DEF TInv, ScalarsOK

LEMMA SampleScan ==
  ASSUME IInv, TInv, NEW c \in Callers, NEW s \in Scans, call[c].at = "sample",
         Goes(c, [call[c] EXCEPT !.scan = s])
  PROVE  LET g == [call[c] EXCEPT !.scan = s] IN
         /\ FrameData(g) /\ g.at = "sample" /\ g.scan = s /\ g.op = call[c].op
         /\ g.cap = call[c].cap /\ g.left = call[c].left
<1> DEFINE g == [call[c] EXCEPT !.scan = s]
<1>1. /\ g \in Frames /\ g.at = "sample" /\ g.op = call[c].op /\ g.key = call[c].key
      /\ g.val = call[c].val /\ g.cap = call[c].cap /\ g.left = call[c].left /\ g.scan = s
  BY CallData, FramesIs
<1> HIDE DEF g
<1>2. FrameData(g)
  BY <1>1, CallData DEF FrameData, Choose
<1> QED BY <1>1, <1>2 DEF g

\* The scan after a key of the list has been looked at.
Looked(s, k, w) ==
  Scan(s.now, s.count, s.list, s.i + 1, IF Better(s, w) THEN w ELSE s.min,
       IF Better(s, w) THEN k ELSE s.rv, k)

LEMMA FoundWeight ==
  ASSUME IInv, TInv, NEW c \in Callers, NEW pos, Found(call[c].scan, pos)
  PROVE  LET k == call[c].scan.list[pos + 1] IN
         /\ k \in Present /\ k \in Keys
         /\ Weight(entry[k], call[c].scan.now) \in Nat
<1> DEFINE k == call[c].scan.list[pos + 1]
<1>1. k \in Present
  BY DEF Found
<1> HIDE DEF k
<1>2. entry[k].visits \in Nat /\ entry[k].last \in Nat /\ k \in Keys
  BY <1>1, EntryType DEF TInv, Entries, ScalarsOK
<1>3. call[c].scan.now \in Nat
  BY CallData, FieldTypes DEF Scans
<1>4. k \in Present /\ k \in Keys /\ Weight(entry[k], call[c].scan.now) \in Nat
  BY <1>1, <1>2, <1>3, WeightType
<1> QED BY <1>4 DEF k

LEMMA LookedType ==
  ASSUME NEW s \in Scans, NEW k \in Keys, NEW w \in Nat PROVE Looked(s, k, w) \in Scans
<1>1. CASE Better(s, w)
  BY <1>1 DEF Looked, Scan, Scans
<1>2. CASE ~Better(s, w)
  BY <1>2 DEF Looked, Scan, Scans
<1> QED BY <1>1, <1>2

LEMMA SampleT == ASSUME IInv, TInv, NEW c \in Callers, Sample(c) PROVE TInv'
<1> DEFINE s == call[c].scan
<1>1. call[c].at = "sample" /\ UNCHANGED <<cache, now>>
  BY DEF Sample, Inside, Crash
<1>2. s \in Scans
  BY CallData, FieldTypes
<1>3. PICK r \in 0..Buckets(s) :
        LET pos == s.i * Buckets(s) + r
            k   == s.list[pos + 1]
        IN \/ /\ Found(s, pos) /\ UNCHANGED <<breach, fault>>
              /\ Goes(c, [call[c] EXCEPT !.scan = Looked(s, k, Weight(entry[k], s.now))])
           \/ /\ Crash(c, pos)
              /\ breach' = IF Found(s, pos) THEN breach \cup {"raised"} ELSE breach
  BY Zenon DEF Sample, Looked
<1> DEFINE pos == s.i * Buckets(s) + r
           k == s.list[pos + 1]
           w == Weight(entry[k], s.now)
<1>4. CASE Crash(c, pos) /\ breach' = IF Found(s, pos) THEN breach \cup {"raised"} ELSE breach
  <2>1. UNCHANGED call /\ fault' \in Faults
    BY <1>4 DEF Crash, Faults
  <2>2. breach' \subseteq Breaches
    BY <1>4 DEF TInv, ScalarsOK, Breaches
  <2> QED BY <1>1, <2>1, <2>2, SameFrames, SameCacheT DEF TInv
<1>5. CASE /\ Found(s, pos) /\ UNCHANGED <<breach, fault>>
           /\ Goes(c, [call[c] EXCEPT !.scan = Looked(s, k, w)])
  <2>1. k \in Keys /\ w \in Nat
    BY Zenon, <1>5, FoundWeight
  <2> HIDE DEF k, w
  <2>2. Looked(s, k, w) \in Scans
    BY <1>2, <2>1, LookedType
  <2>3. FrameData([call[c] EXCEPT !.scan = Looked(s, k, w)])
    BY <1>1, <1>5, <2>2, SampleScan
  <2> QED BY <1>1, <1>5, <2>3, StepFrames, SameCacheT DEF TInv, ScalarsOK
<1> QED BY <1>3, <1>4, <1>5

LEMMA SampledT ==
  ASSUME IInv, TInv, NEW c \in Callers, call[c].at = "sample", NEW k \in Keys \cup {NULL},
         Sampled(c, k)
  PROVE  TInv'
<1>1. CASE Chosen(c, call[c], k) /\ UNCHANGED <<cache, now, breach, fault>>
  <2>1. Searcher(call[c])
    BY CallData DEF Choose
  <2>2. PICK g : Goes(c, g) /\ FrameData(g)
    BY <1>1, <2>1, ChosenData
  <2> QED BY <1>1, <2>2, StepFrames, SameCacheT DEF TInv, ScalarsOK
<1>2. CASE fault' = "freed_key" /\ UNCHANGED <<cache, now, call, breach>>
  BY <1>2, SameFrames, SameCacheT DEF TInv, ScalarsOK, Faults
<1> QED BY <1>1, <1>2 DEF Sampled

LEMMA SampleEndT == ASSUME IInv, TInv, NEW c \in Callers, SampleEnd(c) PROVE TInv'
<1>1. call[c].at = "sample"
  BY DEF SampleEnd, Inside
<1>2. call[c].scan.rv \in Keys \cup {NULL} /\ call[c].scan.key \in Keys \cup {NULL}
  BY CallData, FieldTypes DEF Scans
<1>3. ASSUME NEW pos, NEW b, Crash(c, pos),
             breach' = IF b THEN breach \cup {"raised"} ELSE breach
      PROVE  TInv'
  <2>1. UNCHANGED <<cache, now, call>> /\ fault' \in Faults
    BY <1>3 DEF Crash, Faults
  <2>2. breach' \subseteq Breaches
    BY <1>3 DEF TInv, ScalarsOK, Breaches
  <2> QED BY <2>1, <2>2, SameFrames, SameCacheT DEF TInv
<1> QED BY <1>1, <1>2, <1>3, SampledT DEF SampleEnd

LEMMA EvictBeginT ==
  ASSUME IInv, TInv, NEW c \in Callers, NEW op \in {"evict", "next_evict_key"}, EvictBegin(c, op)
  PROVE  TInv'
<1> DEFINE f == Frame(op, "evict", NULL, NULL, <<>>)
<1>1. UNCHANGED <<cache, now, breach, fault>>
  BY DEF EvictBegin
<1>2. CASE UNCHANGED call
  BY <1>1, <1>2, SameFrames, SameCacheT DEF TInv, ScalarsOK
<1>3. CASE Present # {} /\ Choosing(c, f)
  <2>1. Searcher(f)
    <3>1. <<>> \in Seq(Keys \X Values)
      BY EmptySeq
    <3> QED BY <3>1, NoScanType DEF Searcher, Frame, Begun, Ops, Puts
  <2> HIDE DEF f
  <2>2. PICK g : Goes(c, g) /\ Searching(f, g)
    BY <1>3, <2>1, ChoosingData DEF TInv
  <2> QED BY <1>1, <2>2, StepFrames, SameCacheT DEF TInv, ScalarsOK, Searching
<1> QED BY <1>2, <1>3 DEF EvictBegin

LEMMA FailsT == ASSUME TInv, NEW c \in Callers, Fails(c) PROVE TInv'
  BY IdleData, StepFrames, SameCacheT DEF TInv, ScalarsOK, Fails, Returns

LEMMA PutBeginT ==
  ASSUME TInv, NEW c \in Callers, NEW k \in Keys, NEW v \in Values, PutBegin(c, k, v)
  PROVE  TInv'
<1>1. <<>> \in Seq(Keys \X Values) /\ "put" \in Puts
  BY EmptySeq DEF Puts
<1>2. FrameData(Frame("put", "lookup", k, v, <<>>))
  BY <1>1, LookupData
<1> QED BY <1>2, StepFrames, SameCacheT DEF TInv, ScalarsOK, PutBegin

LEMMA PutDoneData ==
  ASSUME NEW c \in Callers, NEW f, f.todo \in Seq(Keys \X Values), PutDone(c, f)
  PROVE  \E g : Goes(c, g) /\ FrameData(g) /\ g.at \in {"idle", "lookup"} /\ g.op # "set_capacity"
<1>1. CASE f.todo # <<>>
  <2>1. f.todo[1] \in Keys \X Values /\ Tail(f.todo) \in Seq(Keys \X Values)
    BY <1>1, HeadTailProperties, EmptySeq, ElementOfSeq
  <2> DEFINE g == Frame("update", "lookup", f.todo[1][1], f.todo[1][2], Tail(f.todo))
  <2>2. FrameData(g)
    BY <2>1, LookupData DEF Puts
  <2>3. Goes(c, g)
    BY <1>1 DEF PutDone, Updating
  <2>4. g.at = "lookup" /\ g.op = "update"
    BY DEF Frame
  <2> HIDE DEF g
  <2> QED BY <2>2, <2>3, <2>4
<1>2. CASE ~(f.todo # <<>>)
  BY <1>2, IdleData, IdleFrame DEF PutDone, Returns
<1> QED BY <1>1, <1>2

LEMMA UpdateType ==
  ASSUME NEW u \in Updates
  PROVE  u[1] \o SubSeq(u[2], Len(u[1]) + 1, Len(u[2])) \in Seq(Keys \X Values)
<1> DEFINE a == u[1]
           b == u[2]
<1>1. a \in Seq(Keys \X Values) /\ b \in Seq(Keys \X Values)
  BY UpdatesAssumption
<1> HIDE DEF a, b
<1>2. Len(a) \in Nat /\ Len(b) \in Nat
  BY <1>1, LenProperties
<1>3. SubSeq(b, Len(a) + 1, Len(b)) \in Seq(Keys \X Values)
  BY <1>1, <1>2, SubSeqProperties, ElementOfSeq
<1>4. a \o SubSeq(b, Len(a) + 1, Len(b)) \in Seq(Keys \X Values)
  BY <1>1, <1>3, ConcatProperties
<1> QED BY <1>4 DEF a, b

\* The frame of update() that is to put the first of some entries.
LEMMA UpdatingData ==
  ASSUME NEW todo \in Seq(Keys \X Values), todo # <<>> PROVE FrameData(Updating(todo))
<1>1. todo[1] \in Keys \X Values /\ Tail(todo) \in Seq(Keys \X Values)
  BY HeadTailProperties, EmptySeq, ElementOfSeq
<1> QED BY <1>1, LookupData DEF Puts, Updating

LEMMA UpdateT ==
  ASSUME TInv, NEW c \in Callers, NEW u \in Updates, Update(c, u[1], u[2]) PROVE TInv'
<1> DEFINE todo == u[1] \o SubSeq(u[2], Len(u[1]) + 1, Len(u[2]))
<1>1. /\ UNCHANGED <<cache, now, breach, fault>>
      /\ UNCHANGED call \/ (todo # <<>> /\ Goes(c, Updating(todo)))
  BY Zenon DEF Update
<1>2. todo \in Seq(Keys \X Values)
  BY UpdateType
<1> HIDE DEF todo
<1>3. CASE UNCHANGED call
  BY <1>1, <1>3, SameFrames, SameCacheT DEF TInv, ScalarsOK
<1>4. CASE todo # <<>> /\ Goes(c, Updating(todo))
  <2>1. FrameData(Updating(todo))
    BY <1>2, <1>4, UpdatingData
  <2> QED BY <1>1, <1>4, <2>1, StepFrames, SameCacheT DEF TInv, ScalarsOK
<1> QED BY <1>1, <1>3, <1>4

LEMMA MakeRoomT == ASSUME IInv, TInv, NEW c \in Callers, MakeRoom(c) PROVE TInv'
<1> DEFINE f == call[c]
<1>1. /\ f.at = "lookup" /\ f.op \in Puts /\ UNCHANGED <<cache, now, fault>>
      /\ breach' \subseteq Breaches
  BY CallData DEF MakeRoom, Inside, FrameOK, TInv, ScalarsOK, Breaches
<1>2. Searcher(f) /\ f \in Frames
  BY <1>1, CallData DEF Searcher, FrameData, Puts
<1>3. CASE Full
  <2>1. Present # {}
    <3>1. Size # 0
      BY <1>3, Sizes, CapacitiesAssumption DEF Full, TInv, ScalarsOK
    <3> QED BY <3>1, FS_EmptySet DEF Size
  <2>2. Choosing(c, f)
    BY <1>3 DEF MakeRoom
  <2> HIDE DEF f
  <2>3. PICK g : Goes(c, g) /\ Searching(f, g)
    BY <1>2, <2>1, <2>2, ChoosingData DEF TInv
  <2> QED BY <1>1, <2>3, StepFrames, SameCacheT DEF TInv, ScalarsOK, Searching
<1>4. CASE ~Full
  <2> DEFINE g == [f EXCEPT !.at = "insert"]
  <2>1. Goes(c, g)
    BY <1>4 DEF MakeRoom, At
  <2>2. "insert" \in Ats
    BY DEF Ats, Fragile
  <2>3. g \in Frames /\ g.at = "insert" /\ g.op = f.op /\ g.key = f.key /\ g.val = f.val
    BY <1>2, <2>2, FramesIs
  <2>4. FrameData(g)
    <3> HIDE DEF g
    <3> QED BY <1>1, <1>2, <2>3 DEF FrameData, Searcher, Puts, Choose
  <2> QED BY <1>1, <2>1, <2>4, StepFrames, SameCacheT DEF TInv, ScalarsOK
<1> QED BY <1>3, <1>4

LEMMA DefaultT ==
  ASSUME IInv, TInv, NEW c \in Callers, NEW op \in {"setdefault", "setnx"}, NEW k \in Keys,
         NEW v \in Values \cup {NULL}, PresentDefault(c, op, k) \/ AbsentDefault(c, op, k, v)
  PROVE  TInv'
<1>1. CASE PresentDefault(c, op, k)
  <2>1. /\ k \in Present /\ entry' = [entry EXCEPT ![k] = Visited(@)]
        /\ UNCHANGED <<order, capacity, now, call, breach, fault>>
    BY <1>1 DEF PresentDefault
  <2>2. EntryOK' /\ Present' = Present
    BY <2>1, VisitEntry DEF TInv
  <2> QED BY <2>1, <2>2, SameOrder, SameFrames DEF TInv, ScalarsOK
<1>2. CASE AbsentDefault(c, op, k, v) /\ v = NULL
  BY <1>2, SameFrames, SameCacheT DEF AbsentDefault, TInv, ScalarsOK
<1>3. CASE AbsentDefault(c, op, k, v) /\ v # NULL
  <2>1. <<>> \in Seq(Keys \X Values) /\ op \in Puts
    BY EmptySeq DEF Puts
  <2>2. FrameData(Frame(op, "lookup", k, v, <<>>))
    BY <1>3, <2>1, LookupData
  <2> QED BY <1>3, <2>2, StepFrames, SameCacheT DEF TInv, ScalarsOK, AbsentDefault
<1> QED BY <1>1, <1>2, <1>3

LEMMA ReplaceEntry ==
  ASSUME EntryOK, ScalarsOK, NEW k \in Present, NEW v \in Values, UNCHANGED now,
         entry' = [entry EXCEPT ![k].value = v]
  PROVE  EntryOK' /\ Present' = Present
<1> DEFINE e == [entry[k] EXCEPT !.value = v]
<1>1. k \in Keys /\ e \in Entries(now)
  BY EntryType DEF Entries
<1>2. e # NULL
  BY <1>1, NotNull DEF ScalarsOK
<1>3. entry' = [entry EXCEPT ![k] = e]
  OBVIOUS
<1> HIDE DEF e
<1>4. EntryOK' /\ Present' = Present \cup {k}
  BY <1>1, <1>2, <1>3, PutEntry
<1> QED BY <1>4

LEMMA ReplaceT == ASSUME IInv, TInv, NEW c \in Callers, Replace(c) PROVE TInv'
<1> DEFINE f == call[c]
<1>1. /\ f.at = "lookup" /\ f.key \in Present /\ PutDone(c, f)
      /\ entry' = [entry EXCEPT ![f.key].value = f.val]
      /\ UNCHANGED <<order, capacity, now, fault>> /\ breach' \subseteq Breaches
  BY DEF Replace, Inside, TInv, ScalarsOK, Breaches
<1>2. f.val \in Values /\ f.todo \in Seq(Keys \X Values)
  BY <1>1, CallData, FieldTypes DEF FrameData, FrameOK
<1>3. EntryOK' /\ Present' = Present
  BY <1>1, <1>2, ReplaceEntry DEF TInv
<1> HIDE DEF f
<1>4. PICK g : Goes(c, g) /\ FrameData(g)
  BY <1>1, <1>2, PutDoneData
<1> QED BY <1>1, <1>3, <1>4, SameOrder, StepFrames DEF TInv, ScalarsOK

LEMMA InsertT ==
  ASSUME IInv, TInv, NEW c \in Callers, Insert(c)
  PROVE  TInv' /\ Present' = Present \cup {call[c].key} /\ call[c].key \in Keys
<1> DEFINE f == call[c]
           e == Entry(f.val, DefaultVisits, now)
<1>1. /\ f.at = "insert" /\ PutDone(c, f) /\ entry' = [entry EXCEPT ![f.key] = e]
      /\ order' = IF f.key \in Present THEN order ELSE Append(order, f.key)
      /\ UNCHANGED <<capacity, now, fault>> /\ breach' \subseteq Breaches
  BY ChangesType DEF Insert, Inside, TInv, ScalarsOK
<1>2. f.key \in Keys /\ f.val \in Values /\ f.todo \in Seq(Keys \X Values)
  BY <1>1, CallData, FieldTypes DEF FrameData, FrameOK
<1> HIDE DEF f
<1>3. e \in Entries(now) /\ e # NULL
  BY <1>2, NewEntry, NotNull DEF TInv, ScalarsOK
<1> HIDE DEF e
<1>4. EntryOK' /\ Present' = Present \cup {f.key}
  BY <1>1, <1>2, <1>3, PutEntry DEF TInv
<1>5. OrderOK'
  <2>1. CASE f.key \in Present
    <3>1. Present' = Present
      BY <1>4, <2>1
    <3> QED BY <1>1, <2>1, <3>1, SameOrder DEF TInv
  <2>2. CASE f.key \notin Present
    BY <1>1, <1>4, <2>2, AppendOrder DEF TInv
  <2> QED BY <2>1, <2>2
<1>6. PICK g : Goes(c, g) /\ FrameData(g)
  BY <1>1, <1>2, PutDoneData
<1>7. TInv'
  BY <1>1, <1>4, <1>5, <1>6, StepFrames DEF TInv, ScalarsOK
<1> QED BY <1>2, <1>4, <1>7 DEF f

LEMMA DropT ==
  ASSUME IInv, TInv, NEW k \in Present, Drop(k), UNCHANGED now
  PROVE  EntryOK' /\ OrderOK' /\ Present' = Present \ {k} /\ Size' = Size - 1
<1>1. k \in Keys /\ entry' = [entry EXCEPT ![k] = NULL]
  BY DEF Drop, Present
<1>2. EntryOK'
  BY <1>1, PutEntry DEF TInv
<1> QED BY <1>2, DropOrder DEF TInv

\* The frame of a call whose eviction is over.
LEMMA EvictedData ==
  ASSUME IInv, TInv, NEW c \in Callers, call[c].at \in Choose, call[c].op # "next_evict_key",
         Evicted(c, call[c])
  PROVE  \E g : /\ Goes(c, g) /\ FrameData(g)
                /\ \/ g = Idle
                   \/ /\ call[c].op = "set_capacity" /\ g.op = "set_capacity" /\ g.at = "again"
                      /\ g.cap = call[c].cap /\ g.left = call[c].left - 1
                   \/ call[c].op \in Puts /\ g.op = call[c].op /\ g.at = "insert"
<1> DEFINE f == call[c]
<1>1. /\ f \in Frames /\ Searcher(f) /\ f.op \in Puts \cup {"evict", "set_capacity"}
      /\ f.left \in Nat
  BY CallData, FieldTypes DEF FrameOK
<1>2. CASE f.op = "evict"
  BY <1>2, IdleData DEF Evicted, Returns
<1>3. CASE f.op = "set_capacity"
  <2> DEFINE n == f.left - 1
             g == [f EXCEPT !.at = "again", !.left = n, !.victim = NULL, !.scan = NoScan]
  <2>1. Goes(c, g)
    BY <1>3 DEF Evicted
  <2>2. n \in Nat /\ "again" \in Ats
    BY <1>1, <1>3 DEF Searcher, Ats, Fragile
  <2> HIDE DEF n
  <2>3. g \in Frames /\ g.op = f.op /\ g.at = "again" /\ g.cap = f.cap /\ g.left = n
    BY <1>1, <2>2, NoScanType, FramesIs
  <2> HIDE DEF g
  <2>4. FrameData(g)
    BY <1>1, <1>3, <2>3 DEF FrameData, Searcher, Puts, Choose
  <2> QED BY <1>3, <2>1, <2>3, <2>4 DEF n
<1>4. CASE f.op \in Puts
  <2> DEFINE g == [f EXCEPT !.at = "insert", !.victim = NULL, !.scan = NoScan]
  <2>1. Goes(c, g)
    BY <1>4 DEF Evicted, Puts
  <2>2. "insert" \in Ats
    BY DEF Ats, Fragile
  <2>3. g \in Frames /\ g.op = f.op /\ g.at = "insert" /\ g.key = f.key /\ g.val = f.val
    BY <1>1, <2>2, NoScanType, FramesIs
  <2> HIDE DEF g
  <2>4. FrameData(g)
    BY <1>1, <1>4, <2>3 DEF FrameData, Searcher, Puts, Choose
  <2> QED BY <1>4, <2>1, <2>3, <2>4
<1> QED BY <1>1, <1>2, <1>3, <1>4

LEMMA EvictT == ASSUME IInv, TInv, NEW c \in Callers, Evict(c) PROVE TInv'
<1>1. /\ call[c].at = "victim" /\ call[c].victim \in Present /\ Drop(call[c].victim)
      /\ Evicted(c, call[c]) /\ UNCHANGED <<capacity, now, fault>> /\ breach' \subseteq Breaches
  BY ChangesType DEF Evict, Inside, TInv, ScalarsOK
<1>2. EntryOK' /\ OrderOK'
  BY <1>1, DropT
<1>3. call[c].at \in Choose /\ call[c].op # "next_evict_key"
  BY <1>1, CallData DEF FrameOK, Choose
<1>4. PICK g : Goes(c, g) /\ FrameData(g)
  BY <1>1, <1>3, EvictedData
<1> QED BY <1>1, <1>2, <1>4, StepFrames DEF TInv, ScalarsOK

LEMMA ListNoMemoryT == ASSUME IInv, TInv, NEW c \in Callers, ListNoMemory(c) PROVE TInv'
<1>1. /\ call[c].at \in Choose /\ UNCHANGED <<cache, now, fault>> /\ breach' \subseteq Breaches
  BY DEF ListNoMemory, Inside, TInv, ScalarsOK, Breaches, Choose
<1>2. \E g : Goes(c, g) /\ FrameData(g)
  <2>1. CASE call[c].op = "next_evict_key"
    BY <2>1, IdleData DEF ListNoMemory, Returns
  <2>2. CASE call[c].op # "next_evict_key"
    <3>1. Evicted(c, call[c])
      BY <2>2 DEF ListNoMemory
    <3> QED BY <1>1, <2>2, <3>1, EvictedData
  <2> QED BY <2>1, <2>2
<1> QED BY <1>1, <1>2, StepFrames, SameCacheT DEF TInv, ScalarsOK

\* set_capacity() that begins to evict.
LEMMA ShrinkerType ==
  ASSUME IInv, TInv, NEW n \in Capacities, Size > n
  PROVE  LET f == [Frame("set_capacity", "evict", NULL, NULL, <<>>)
                     EXCEPT !.left = Size - n, !.cap = n]
         IN /\ Searcher(f) /\ f.op = "set_capacity" /\ f.left = Size - n /\ f.cap = n
            /\ Present # {}
<1> DEFINE d == Size - n
<1>1. d \in Nat /\ d >= 1 /\ Size # 0
  BY Sizes, CapacitiesAssumption
<1> HIDE DEF d
<1> DEFINE f == [Frame("set_capacity", "evict", NULL, NULL, <<>>) EXCEPT !.left = d, !.cap = n]
<1>2. <<>> \in Seq(Keys \X Values)
  BY EmptySeq
<1>3. f \in Begun /\ f.op = "set_capacity" /\ f.left = d /\ f.cap = n
  BY <1>1, <1>2, NoScanType DEF Begun, Frame, Ops
<1> HIDE DEF f
<1>4. Searcher(f) /\ f.op = "set_capacity" /\ f.left = d /\ f.cap = n
  BY <1>1, <1>3 DEF Searcher, Puts
<1>5. Present # {}
  BY <1>1, FS_EmptySet DEF Size
<1> QED BY <1>4, <1>5 DEF f, d

LEMMA SetCapacityT ==
  ASSUME IInv, TInv, NEW c \in Callers, NEW n \in Capacities, SetCapacity(c, n) \/ Reinit(c, n)
  PROVE  TInv'
<1>1. UNCHANGED <<entry, order, now, fault>> /\ breach' \subseteq Breaches
  BY DEF SetCapacity, Reinit, Grows, TInv, ScalarsOK, Breaches
<1>2. EntryOK' /\ OrderOK'
  BY <1>1, SameEntry, SameOrder DEF TInv
<1>3. CASE capacity' = n /\ UNCHANGED call
  BY <1>1, <1>2, <1>3, SameFrames DEF TInv, ScalarsOK
<1>4. CASE SetCapacity(c, n) /\ n < capacity /\ Size > n
  <2> DEFINE f == [Frame("set_capacity", "evict", NULL, NULL, <<>>) EXCEPT !.left = Size - n, !.cap = n]
  <2>1. Choosing(c, f) /\ UNCHANGED capacity
    BY <1>4 DEF SetCapacity
  <2>2. Searcher(f) /\ Present # {}
    BY Zenon, <1>4, ShrinkerType
  <2> HIDE DEF f
  <2>3. PICK g : Goes(c, g) /\ Searching(f, g)
    BY <2>1, <2>2, ChoosingData DEF TInv
  <2> QED BY <1>1, <1>2, <2>1, <2>3, StepFrames DEF TInv, ScalarsOK, Searching
<1> QED BY <1>3, <1>4 DEF SetCapacity, Reinit

LEMMA ShrinkOnT == ASSUME IInv, TInv, NEW c \in Callers, ShrinkOn(c) PROVE TInv'
<1>1. /\ call[c].at = "again" /\ call[c].op = "set_capacity"
      /\ UNCHANGED <<entry, order, now, breach, fault>>
  BY CallData DEF ShrinkOn, Inside, FrameOK
<1>2. EntryOK' /\ OrderOK'
  BY <1>1, SameEntry, SameOrder DEF TInv
<1>3. call[c].cap \in Capacities /\ call[c].left \in Nat
  BY <1>1, CallData, FieldTypes DEF FrameData
<1>4. CASE More(call[c]) /\ Present # {}
  <2>1. Choosing(c, call[c]) /\ UNCHANGED capacity
    BY <1>4 DEF ShrinkOn
  <2>2. Searcher(call[c])
    BY <1>1, <1>3, <1>4, CallData DEF Searcher, More, Puts
  <2>3. PICK g : Goes(c, g) /\ Searching(call[c], g)
    BY <1>4, <2>1, <2>2, ChoosingData DEF TInv
  <2> QED BY <1>1, <1>2, <2>1, <2>3, StepFrames DEF TInv, ScalarsOK, Searching
<1>5. CASE ~(More(call[c]) /\ Present # {})
  <2>1. capacity' = call[c].cap /\ Goes(c, Idle)
    BY <1>5 DEF ShrinkOn, Returns
  <2> QED BY <1>1, <1>2, <1>3, <2>1, IdleData, StepFrames DEF TInv, ScalarsOK
<1> QED BY <1>4, <1>5

LEMMA LookT ==
  ASSUME IInv, TInv, NEW c \in Callers, NEW k \in Keys,
         Subscript(c, k) \/ Get(c, k) \/ Delete(c, k)
  PROVE  TInv'
<1>1. UNCHANGED <<capacity, now, call, fault>> /\ breach' \subseteq Breaches
  BY ChangesType DEF Subscript, Get, Delete, cache, TInv, ScalarsOK
<1>2. CASE UNCHANGED <<entry, order>>
  BY <1>1, <1>2, SameEntry, SameOrder, SameFrames DEF TInv, ScalarsOK
<1>3. CASE k \in Present /\ entry' = [entry EXCEPT ![k] = Visited(@)] /\ UNCHANGED order
  BY <1>1, <1>3, VisitEntry, SameOrder, SameFrames DEF TInv, ScalarsOK
<1>4. CASE k \in Present /\ Drop(k)
  BY <1>1, <1>4, DropT, SameFrames DEF TInv, ScalarsOK
<1> QED BY <1>2, <1>3, <1>4 DEF Subscript, Get, Delete, cache

LEMMA PopData == ASSUME NEW k \in Keys PROVE FrameData(Frame("pop", "pop", k, NULL, <<>>))
<1> DEFINE f == Frame("pop", "pop", k, NULL, <<>>)
<1>1. <<>> \in Seq(Keys \X Values) /\ "pop" \in Ops /\ "pop" \in Ats
  BY EmptySeq DEF Ops, Ats
<1>2. f \in Frames /\ f.op = "pop" /\ f.at = "pop"
  BY <1>1, NoScanType, FramesIs DEF Frame
<1> HIDE DEF f
<1>3. FrameData(f)
  BY <1>2 DEF FrameData, Puts
<1> QED BY <1>3 DEF f

LEMMA PopBeginT ==
  ASSUME TInv, NEW c \in Callers, NEW k \in Keys, PopBegin(c, k) PROVE TInv'
<1>1. UNCHANGED <<cache, now, fault>> /\ breach' \subseteq Breaches
  BY DEF PopBegin, TInv, ScalarsOK, Breaches
<1>2. UNCHANGED call \/ Goes(c, Frame("pop", "pop", k, NULL, <<>>))
  BY DEF PopBegin
<1>3. FramesOK'
  BY <1>2, PopData, StepFrames, SameFrames DEF TInv
<1> QED BY <1>1, <1>3, SameCacheT DEF TInv, ScalarsOK

LEMMA PopEndT == ASSUME IInv, TInv, NEW c \in Callers, PopEnd(c) PROVE TInv'
<1>1. /\ call[c].key \in Present /\ Drop(call[c].key) /\ Goes(c, Idle)
      /\ UNCHANGED <<capacity, now, fault>> /\ breach' \subseteq Breaches
  BY ChangesType DEF PopEnd, Returns, TInv, ScalarsOK
<1> QED BY <1>1, DropT, IdleData, StepFrames DEF TInv, ScalarsOK

LEMMA AllT ==
  ASSUME IInv, TInv, NEW c \in Callers, ValuesOf(c) \/ Clear(c) PROVE TInv'
<1>1. UNCHANGED <<capacity, now, call, fault>> /\ breach' \subseteq Breaches
  BY ChangesType DEF ValuesOf, Clear, TInv, ScalarsOK
<1>2. CASE ValuesOf(c)
  <2>1. /\ UNCHANGED order
        /\ entry' = [k \in Keys |-> IF k \in Present THEN Visited(entry[k]) ELSE NULL]
    BY <1>2 DEF ValuesOf
  <2>2. \A k \in Present : Visited(entry[k]) \in Entries(now) /\ Visited(entry[k]) # NULL
    BY EntryType, NotNull DEF TInv, ScalarsOK
  <2> HIDE DEF Visited
  <2>3. EntryOK' /\ Present' = Present
    BY <1>1, <2>1, <2>2 DEF EntryOK, Present
  <2> QED BY <1>1, <2>1, <2>3, SameOrder, SameFrames DEF TInv, ScalarsOK
<1>3. CASE Clear(c)
  <2>1. entry' = [k \in Keys |-> NULL] /\ order' = <<>>
    BY <1>3 DEF Clear
  <2>2. EntryOK' /\ Present' = {}
    BY <2>1 DEF EntryOK, Present
  <2> QED BY <1>1, <2>1, <2>2, EmptyOrder, SameFrames DEF TInv, ScalarsOK
<1> QED BY <1>2, <1>3

\* The frames of popitem().
LEMMA PopItemData ==
  ASSUME NEW at \in {"first", "pair"}, NEW k \in Keys, NEW v \in Values \cup {NULL},
         at = "pair" => v \in Values
  PROVE  LET f == Frame("popitem", at, k, v, <<>>) IN
         FrameData(f) /\ f.op = "popitem" /\ f.at = at /\ f.key = k /\ f.val = v
<1> DEFINE f == Frame("popitem", at, k, v, <<>>)
<1>1. <<>> \in Seq(Keys \X Values) /\ "popitem" \in Ops /\ at \in Ats
  BY EmptySeq DEF Ops, Ats, Fragile
<1>2. f \in Frames
  BY <1>1, NoScanType, FramesIs DEF Frame
<1>3. f.op = "popitem" /\ f.at = at /\ f.key = k /\ f.val = v
  BY DEF Frame
<1> HIDE DEF f
<1>4. FrameData(f)
  BY <1>2, <1>3 DEF FrameData, Puts
<1> QED BY <1>3, <1>4 DEF f

LEMMA HeadPresent == ASSUME OrderOK, Present # {} PROVE Head(order) \in Present
<1>1. order # <<>>
  BY EmptySeq DEF OrderOK
<1> QED BY <1>1, HeadTailProperties DEF OrderOK

LEMMA PopItemT ==
  ASSUME IInv, TInv, NEW c \in Callers, PopItemBegin(c) \/ PopItemFound(c) \/ PopItemEnd(c)
  PROVE  TInv'
<1>1. CASE PopItemBegin(c)
  <2>1. CASE Present = {}
    BY <1>1, <2>1, SameFrames, SameCacheT DEF PopItemBegin, TInv, ScalarsOK
  <2>2. CASE Present # {}
    <3> DEFINE k == Head(order)
    <3>1. k \in Keys
      BY <2>2, HeadPresent DEF TInv, Present
    <3>2. Goes(c, Frame("popitem", "first", k, NULL, <<>>)) /\ UNCHANGED <<cache, now, breach, fault>>
      BY <1>1, <2>2 DEF PopItemBegin
    <3> HIDE DEF k
    <3>3. FrameData(Frame("popitem", "first", k, NULL, <<>>))
      BY <3>1, PopItemData
    <3> QED BY <3>2, <3>3, StepFrames, SameCacheT DEF TInv, ScalarsOK
  <2> QED BY <2>1, <2>2
<1>2. CASE PopItemFound(c)
  <2> DEFINE k == call[c].key
             v == entry[k].value
  <2>1. UNCHANGED <<order, capacity, now, breach>>
    BY <1>2 DEF PopItemFound
  <2>2. CASE k \notin Present
    <3>1. UNCHANGED <<cache, now, breach, call>> /\ fault' \in Faults
      BY <1>2, <2>1, <2>2 DEF PopItemFound, Faults, cache
    <3> QED BY <3>1, SameFrames, SameCacheT DEF TInv, ScalarsOK
  <2>3. CASE k \in Present
    <3>1. /\ entry' = [entry EXCEPT ![k] = Visited(@)] /\ UNCHANGED fault
          /\ Goes(c, Frame("popitem", "pair", k, v, <<>>))
      BY <1>2, <2>3 DEF PopItemFound
    <3>2. k \in Keys /\ v \in Values
      BY <2>3, EntryType DEF TInv, Entries
    <3>3. EntryOK' /\ Present' = Present
      BY <2>1, <2>3, <3>1, VisitEntry DEF TInv
    <3> HIDE DEF k, v
    <3>4. FrameData(Frame("popitem", "pair", k, v, <<>>))
      BY <3>2, PopItemData
    <3> QED BY <2>1, <3>1, <3>3, <3>4, SameOrder, StepFrames DEF TInv, ScalarsOK
  <2> QED BY <2>2, <2>3
<1>3. CASE PopItemEnd(c)
  <2>1. /\ Returns(c) /\ UNCHANGED <<capacity, now, fault>> /\ breach' \subseteq Breaches
    BY <1>3, ChangesType DEF PopItemEnd, TInv, ScalarsOK, Breaches
  <2>2. FramesOK'
    BY <2>1, IdleData, StepFrames DEF TInv, Returns
  <2>3. CASE UNCHANGED <<entry, order>>
    BY <2>1, <2>2, <2>3, SameEntry, SameOrder DEF TInv, ScalarsOK
  <2>4. CASE call[c].key \in Present /\ Drop(call[c].key)
    BY <2>1, <2>2, <2>4, DropT DEF TInv, ScalarsOK
  <2> QED BY <1>3, <2>3, <2>4 DEF PopItemEnd
<1> QED BY <1>1, <1>2, <1>3

-----------------------------------------------------------------------------

LEMMA InitT == Init => TInv
<1> SUFFICES ASSUME Init PROVE TInv OBVIOUS
<1>1. Present = {} /\ Size = 0
  BY FS_EmptySet DEF Init, Present, Size
<1>2. OrderOK
  BY <1>1, EmptySeq DEF Init, OrderOK
<1>3. EntryOK /\ ScalarsOK
  BY DEF Init, EntryOK, ScalarsOK, Faults
<1>4. FramesOK
  BY IdleData DEF Init, FramesOK
<1> QED BY <1>2, <1>3, <1>4 DEF TInv

LEMMA StepT == IInv /\ TInv /\ [Next]_vars => TInv'
<1> SUFFICES ASSUME IInv, TInv, [Next]_vars PROVE TInv' OBVIOUS
<1>1. CASE UNCHANGED vars
  BY <1>1, StutterT
<1>2. CASE Tick
  BY <1>2, TickT
<1>3. ASSUME NEW c \in Callers, Enter(c) PROVE TInv'
  <2>1. ASSUME NEW k \in Keys, NEW v \in Values, PutBegin(c, k, v) PROVE TInv'
    BY <2>1, PutBeginT
  <2>2. ASSUME NEW k \in Keys, Subscript(c, k) \/ Get(c, k) \/ Delete(c, k) \/ PopBegin(c, k)
        PROVE TInv'
    BY <2>2, LookT, PopBeginT
  <2>3. ASSUME NEW k \in Keys, NEW op \in {"setdefault", "setnx"}, NEW v \in Values \cup {NULL},
               PresentDefault(c, op, k) \/ AbsentDefault(c, op, k, v)
        PROVE TInv'
    BY <2>3, DefaultT
  <2>4. ASSUME NEW u \in Updates, Update(c, u[1], u[2]) PROVE TInv'
    BY <2>4, UpdateT
  <2>5. ASSUME NEW op \in {"evict", "next_evict_key"}, EvictBegin(c, op) PROVE TInv'
    BY <2>5, EvictBeginT
  <2>6. ASSUME NEW n \in Capacities, SetCapacity(c, n) \/ Reinit(c, n) PROVE TInv'
    BY <2>6, SetCapacityT
  <2>7. CASE ValuesOf(c) \/ Clear(c)
    BY <2>7, AllT
  <2>8. CASE PopItemBegin(c)
    BY <2>8, PopItemT
  <2>9. NULL \in Values \cup {NULL} /\ "setnx" \in {"setdefault", "setnx"}
    OBVIOUS
  <2> QED BY <1>3, <2>1, <2>2, <2>3, <2>4, <2>5, <2>6, <2>7, <2>8, <2>9 DEF Enter
<1>4. ASSUME NEW c \in Callers, GoOn(c) PROVE TInv'
  BY <1>4, ReplaceT, MakeRoomT, InsertT, ListKeysT, ListNoMemoryT, SampleT, SampleEndT,
     EvictT, ShrinkOnT, FailsT, PopItemT, PopEndT DEF GoOn
<1> QED BY <1>1, <1>2, <1>3, <1>4 DEF Next

\* Every variable of the cache keeps its type, whatever clients do: the order
\* lists the keys of the dict and no others, and no entry was visited in the
\* future.
THEOREM TypeKept == Spec => []TypeOK
<1>1. IInv /\ TInv => TypeOK
  <2> SUFFICES ASSUME TInv PROVE TypeOK OBVIOUS
  <2>1. call \in [Callers -> Frames]
    BY DEF TInv, FramesOK, FrameData
  <2> QED BY <2>1 DEF TInv, EntryOK, Entries, OrderOK, ScalarsOK, Breaches, Faults, TypeOK
<1> QED BY <1>1, InitIInv, StepIInv, InitT, StepT, PTL DEF Spec

-----------------------------------------------------------------------------
(* The choice of the victim *)

\* No visit is later than the clock, so that the unsigned weight is RefWeight.
LEMMA WeightIs ==
  ASSUME EntryOK, ScalarsOK, NEW k \in Present
  PROVE  Weight(entry[k], now) = RefWeight(k) /\ RefWeight(k) \in Nat
<1>1. entry[k].visits \in Nat /\ entry[k].last \in 0..now /\ now \in Nat
  BY EntryType DEF Entries, ScalarsOK
<1> DEFINE d == (now - entry[k].last) \div DecayEvery
<1>2. d \in Int
  BY <1>1, NumbersAssumption
<1> HIDE DEF d
<1>3. Weight(entry[k], now) = IF entry[k].visits <= d THEN 0 ELSE entry[k].visits - d
  BY <1>1 DEF Weight, d
<1>4. RefWeight(k) = IF entry[k].visits - d < 0 THEN 0 ELSE entry[k].visits - d
  BY DEF RefWeight, d
<1> QED BY <1>1, <1>2, <1>3, <1>4

\* Where no weight is zero, the walk over a small cache finds a least one.
LEMMA WalkIsLeast ==
  ASSUME EntryOK, OrderOK, ScalarsOK, Present # {}, \A k \in Present : RefWeight(k) > 0
  PROVE  \A k \in Present : RefWeight(NextEvictKey) <= RefWeight(k)
<1> DEFINE n == Len(order)
           from == {i \in 1..n : \A j \in i..n : WeightAt(j) > 0}
<1>1. n \in Nat \ {0}
  BY LenProperties DEF OrderOK
<1>2. NextEvictKey = IF from = {} THEN order[n] ELSE order[CHOOSE i \in FirstLeast(from) : TRUE]
  BY DEF NextEvictKey, FirstLeast
<1>3. \A i \in 1..n : /\ order[i] \in Present /\ WeightAt(i) \in Nat
                      /\ WeightAt(i) = RefWeight(order[i]) /\ WeightAt(i) > 0
  BY WeightAtType, WeightIs DEF WeightAt
<1>4. from = 1..n
  BY <1>1, <1>3
<1> HIDE DEF from
<1>5. PICK i \in FirstLeast(from) : NextEvictKey = order[i]
  <2>1. from \subseteq 1..Len(order) /\ from # {}
    <3>1. 1 \in 1..n
      BY <1>1
    <3> QED BY <1>4, <3>1
  <2>2. (CHOOSE i \in FirstLeast(from) : TRUE) \in FirstLeast(from)
    BY <2>1, WalkLeast
  <2> QED BY <1>2, <2>1, <2>2
<1>6. ASSUME NEW k \in Present PROVE RefWeight(NextEvictKey) <= RefWeight(k)
  <2>1. PICK j \in 1..n : order[j] = k
    BY DEF OrderOK
  <2>2. i \in 1..n /\ (WeightAt(i) < WeightAt(j) \/ WeightAt(i) = WeightAt(j))
    BY <1>4, <1>5 DEF FirstLeast
  <2>3. /\ WeightAt(i) \in Nat /\ WeightAt(i) = RefWeight(NextEvictKey)
        /\ WeightAt(j) \in Nat /\ WeightAt(j) = RefWeight(k)
    BY <1>3, <1>5, <2>1, <2>2
  <2> QED BY <2>2, <2>3
<1> QED BY <1>6

\* what EvictsLeast says of a step
Leasts == (\A k \in Present : RefWeight(k) > 0) => MostUnusedAmong(Picked(call', result'))

\* A step in which nothing is picked by a walk.
LEMMA NonePicked ==
  ASSUME IInv, NEW c \in Callers, NEW g, Goes(c, g), g.at = "victim" => call[c].at \in Choose,
         result'.op = "next_evict_key" => call[c].at \in Choose /\ g.at \notin Choose
  PROVE  Leasts
<1>0. call'[c] = g /\ \A d \in Callers \ {c} : call'[d] = call[d]
  BY DEF Goes, IInv, Typed, CallOK
<1>1. \A d \in Callers : call'[d].at = "victim" => call[d].at \in Choose
  BY <1>0 DEF Choose
<1>2. result'.op = "next_evict_key" => call' # call
  <2> QED BY <1>0
<1>3. {call'[d].victim : d \in {d \in Callers : /\ call[d].at \notin {"victim", "list", "sample"}
                                                /\ call'[d].at = "victim"}} = {}
  BY <1>1 DEF Choose
<1>4. Picked(call', result') = {}
  BY <1>2, <1>3 DEF Picked
<1> QED BY <1>4 DEF Leasts, MostUnusedAmong

LEMMA StayPicked ==
  ASSUME UNCHANGED call, result'.op # "next_evict_key" \/ result'.out = <<>>
  PROVE  Leasts
<1>1. {call'[d].victim : d \in {d \in Callers : /\ call[d].at \notin {"victim", "list", "sample"}
                                                /\ call'[d].at = "victim"}} = {}
  OBVIOUS
<1>2. (IF result'.op = "next_evict_key" /\ call' = call
       THEN {result'.out[i] : i \in 1..Len(result'.out)} ELSE {}) = {}
  <2>1. CASE result'.op # "next_evict_key"
    BY <2>1
  <2>2. CASE result'.out = <<>>
    <3>1. Len(result'.out) = 0
      BY <2>2
    <3>2. 1..Len(result'.out) = {}
      BY <3>1
    <3> QED BY <3>2
  <2> QED BY <2>1, <2>2
<1>3. Picked(call', result') = {}
  BY <1>1, <1>2 DEF Picked
<1> QED BY <1>3 DEF Leasts, MostUnusedAmong

LEMMA ChoosingPicked ==
  ASSUME IInv, TInv, NEW c \in Callers, NEW f, Searcher(f), Choosing(c, f), Present # {}
  PROVE  Leasts
<1>1. CASE ~(Size < BucketSize)
  <2>1. PICK g : Goes(c, g) /\ g.at # "victim"
    <3> DEFINE g == [f EXCEPT !.at = "list", !.scan = Scan(now, Size, <<>>, 0, 0, NULL, NULL)]
    <3>1. Goes(c, g) /\ g.at = "list"
      BY <1>1 DEF Choosing, Searcher, Begun
    <3> QED BY <3>1
  <2>2. result' = Pending
    BY <1>1 DEF Choosing
  <2>3. result'.op # "next_evict_key"
    BY <2>2 DEF Pending, Answer
  <2> QED BY <2>1, <2>3, NonePicked
<1>2. CASE Size < BucketSize
  <2> DEFINE k == NextEvictKey
  <2>1. Chosen(c, f, k) /\ k \in Present /\ k \in Keys
    BY <1>2, WalkFinds DEF Choosing, TInv, Present
  <2>2. (\A m \in Present : RefWeight(m) > 0) => \A m \in Present : RefWeight(k) <= RefWeight(m)
    BY WalkIsLeast DEF TInv
  <2> HIDE DEF k
  <2>3. SUFFICES \A p \in Picked(call', result') : p = k
    BY <2>2 DEF Leasts, MostUnusedAmong
  <2>4. PICK g : Goes(c, g) /\ (g.at = "victim" => g.victim = k)
    <3>1. PICK h : Goes(c, h) /\ (h = Idle \/ h.victim = k)
      BY <2>1, ChosenData
    <3> QED BY <3>1, IdleFrame
  <2>5. \A d \in Callers : call[d].at # "victim" /\ call'[d].at = "victim" => call'[d].victim = k
    <3>1. call'[c] = g /\ \A d \in Callers \ {c} : call'[d] = call[d]
      BY <2>4 DEF Goes, IInv, Typed, CallOK
    <3> QED BY <2>4, <3>1
  <2>6. result'.op = "next_evict_key" => \A i \in 1..Len(result'.out) : result'.out[i] = k
    <3>1. result' = Answer(f.op, <<k>>) \/ result' = Pending
      BY <2>1 DEF Chosen
    <3>2. CASE result' = Answer(f.op, <<k>>)
      BY <3>2 DEF Answer
    <3>3. CASE result' = Pending
      BY <3>3 DEF Pending, Answer
    <3> QED BY <3>1, <3>2, <3>3
  <2> QED BY <2>5, <2>6 DEF Picked
<1> QED BY <1>1, <1>2

\* a put that is over
LEMMA PutDonePicked ==
  ASSUME IInv, NEW c \in Callers, NEW f, PutDone(c, f), f.op # "next_evict_key"
  PROVE  Leasts
<1>1. PICK g : Goes(c, g) /\ g.at \notin Fragile
  BY PutDoneStep
<1>2. result'.op # "next_evict_key"
  BY DEF PutDone, Answer, Pending
<1> QED BY <1>1, <1>2, NonePicked DEF Fragile

\* an eviction that is over
LEMMA EvictedPicked ==
  ASSUME IInv, NEW c \in Callers, call[c].at \in Choose, call[c].op # "next_evict_key",
         Evicted(c, call[c])
  PROVE  Leasts
<1>1. PICK g : Goes(c, g) /\ g.at # "victim"
  BY EvictedStep, IdleFrame
<1>2. result'.op # "next_evict_key"
  BY DEF Evicted, Answer, Pending
<1> QED BY <1>1, <1>2, NonePicked

LEMMA TickPicked == ASSUME Tick PROVE Leasts
  BY StayPicked DEF Tick, Pending, Answer

\* the methods of one step, and those that begin
LEMMA LookPicked ==
  ASSUME NEW c \in Callers, NEW k, Subscript(c, k) \/ Get(c, k) \/ Delete(c, k)
  PROVE  Leasts
<1>1. UNCHANGED call /\ result'.op # "next_evict_key"
  BY DEF Subscript, Get, Delete, Answer
<1> QED BY <1>1, StayPicked

LEMMA PopPicked ==
  ASSUME IInv, NEW c \in Callers, NEW k, PopBegin(c, k) \/ PopEnd(c) PROVE Leasts
<1>1. result'.op # "next_evict_key"
  BY DEF PopBegin, PopEnd, Answer, Pending
<1>2. UNCHANGED call \/ Goes(c, Frame("pop", "pop", k, NULL, <<>>)) \/ Goes(c, Idle)
  BY DEF PopBegin, PopEnd, Returns
<1>3. Frame("pop", "pop", k, NULL, <<>>).at = "pop"
  BY DEF Frame
<1> QED BY <1>1, <1>2, <1>3, IdleFrame, StayPicked, NonePicked

LEMMA AllPicked ==
  ASSUME NEW c \in Callers, ValuesOf(c) \/ Clear(c) PROVE Leasts
<1>1. UNCHANGED call /\ result'.op # "next_evict_key"
  BY DEF ValuesOf, Clear, Answer
<1> QED BY <1>1, StayPicked

LEMMA PutBeginPicked ==
  ASSUME IInv, NEW c \in Callers, NEW k, NEW v, PutBegin(c, k, v) PROVE Leasts
<1>1. Goes(c, Frame("put", "lookup", k, v, <<>>)) /\ result'.op # "next_evict_key"
  BY DEF PutBegin, Pending, Answer
<1>2. Frame("put", "lookup", k, v, <<>>).at = "lookup"
  BY DEF Frame
<1> QED BY <1>1, <1>2, NonePicked

LEMMA DefaultPicked ==
  ASSUME IInv, NEW c \in Callers, NEW op \in {"setdefault", "setnx"}, NEW k, NEW v,
         PresentDefault(c, op, k) \/ AbsentDefault(c, op, k, v)
  PROVE  Leasts
<1>1. result'.op # "next_evict_key"
  BY DEF PresentDefault, AbsentDefault, Answer, Pending
<1>2. UNCHANGED call \/ Goes(c, Frame(op, "lookup", k, v, <<>>))
  BY DEF PresentDefault, AbsentDefault
<1>3. Frame(op, "lookup", k, v, <<>>).at = "lookup"
  BY DEF Frame
<1> QED BY <1>1, <1>2, <1>3, StayPicked, NonePicked

LEMMA UpdatePicked ==
  ASSUME IInv, NEW c \in Callers, NEW arg, NEW kw, Update(c, arg, kw) PROVE Leasts
<1>1. result'.op # "next_evict_key"
  BY DEF Update, Answer
<1>2. UNCHANGED call \/ \E todo : Goes(c, Updating(todo))
  BY DEF Update
<1>3. \A todo : Updating(todo).at = "lookup"
  BY DEF Updating, Frame
<1> QED BY <1>1, <1>2, <1>3, StayPicked, NonePicked

LEMMA EvictBeginPicked ==
  ASSUME IInv, TInv, NEW c \in Callers, NEW op \in {"evict", "next_evict_key"}, EvictBegin(c, op)
  PROVE  Leasts
<1> DEFINE f == Frame(op, "evict", NULL, NULL, <<>>)
<1>1. CASE Present = {}
  BY <1>1, StayPicked DEF EvictBegin, Answer
<1>2. CASE Present # {}
  <2>1. Choosing(c, f)
    BY <1>2 DEF EvictBegin
  <2>2. Searcher(f)
    <3>1. <<>> \in Seq(Keys \X Values)
      BY EmptySeq
    <3> QED BY <3>1, NoScanType DEF Searcher, Frame, Begun, Ops, Puts
  <2> HIDE DEF f
  <2> QED BY <1>2, <2>1, <2>2, ChoosingPicked
<1> QED BY <1>1, <1>2

LEMMA CapacityPicked ==
  ASSUME IInv, TInv, NEW c \in Callers, NEW n \in Capacities, SetCapacity(c, n) \/ Reinit(c, n)
  PROVE  Leasts
<1>1. CASE Reinit(c, n) \/ ~(n < capacity /\ Size > n)
  <2>1. UNCHANGED call /\ result'.op # "next_evict_key"
    BY <1>1 DEF SetCapacity, Reinit, Answer
  <2> QED BY <2>1, StayPicked
<1>2. CASE SetCapacity(c, n) /\ n < capacity /\ Size > n
  <2> DEFINE f == [Frame("set_capacity", "evict", NULL, NULL, <<>>) EXCEPT !.left = Size - n, !.cap = n]
  <2>1. Choosing(c, f)
    BY <1>2 DEF SetCapacity
  <2>2. Searcher(f) /\ Present # {}
    BY <1>2, ShrinkerType
  <2> HIDE DEF f
  <2> QED BY <2>1, <2>2, ChoosingPicked
<1> QED BY <1>1, <1>2

LEMMA ShrinkOnPicked ==
  ASSUME IInv, TInv, NEW c \in Callers, ShrinkOn(c) PROVE Leasts
<1>1. call[c].at = "again" /\ call[c].op = "set_capacity"
  BY CallData DEF ShrinkOn, Inside, FrameOK
<1>2. CASE More(call[c]) /\ Present # {}
  <2>1. Choosing(c, call[c])
    BY <1>2 DEF ShrinkOn
  <2>2. call[c].cap \in Capacities /\ call[c].left \in Nat
    BY <1>1, CallData, FieldTypes DEF FrameData
  <2>3. Searcher(call[c])
    BY <1>1, <1>2, <2>2, CallData DEF Searcher, More, Puts
  <2> QED BY <1>2, <2>1, <2>3, ChoosingPicked
<1>3. CASE ~(More(call[c]) /\ Present # {})
  <2>1. Goes(c, Idle) /\ result'.op # "next_evict_key"
    BY <1>3 DEF ShrinkOn, Returns, Answer
  <2> QED BY <2>1, IdleFrame, NonePicked
<1> QED BY <1>2, <1>3

LEMMA MakeRoomPicked ==
  ASSUME IInv, TInv, NEW c \in Callers, MakeRoom(c) PROVE Leasts
<1>1. call[c].at = "lookup" /\ call[c].op \in Puts
  BY CallData DEF MakeRoom, Inside, FrameOK
<1>2. CASE Full
  <2>1. Present # {}
    <3>1. Size # 0
      BY <1>2, Sizes, CapacitiesAssumption DEF Full, TInv, ScalarsOK
    <3> QED BY <3>1, FS_EmptySet DEF Size
  <2>2. Searcher(call[c])
    BY <1>1, CallData DEF Searcher, FrameData, Puts
  <2>3. Choosing(c, call[c])
    BY <1>2 DEF MakeRoom
  <2> QED BY <2>1, <2>2, <2>3, ChoosingPicked
<1>3. CASE ~Full
  <2> DEFINE g == At(call[c], "insert")
  <2>1. Goes(c, g) /\ result'.op # "next_evict_key"
    BY <1>3 DEF MakeRoom, Pending, Answer
  <2>2. g.at = "insert"
    BY FrameOf DEF At, Fields
  <2> HIDE DEF g
  <2> QED BY <2>1, <2>2, NonePicked
<1> QED BY <1>2, <1>3

LEMMA PutPicked ==
  ASSUME IInv, NEW c \in Callers, Replace(c) \/ Insert(c) PROVE Leasts
<1>1. PutDone(c, call[c]) /\ call[c].at \in {"lookup", "insert"}
  BY DEF Replace, Insert, Inside
<1>2. call[c].op # "next_evict_key"
  BY <1>1, FrameOf DEF FrameOK, Puts
<1> QED BY <1>1, <1>2, PutDonePicked

LEMMA EvictPicked ==
  ASSUME IInv, NEW c \in Callers, Evict(c) PROVE Leasts
<1>1. call[c].at = "victim" /\ Evicted(c, call[c])
  BY DEF Evict, Inside
<1>2. call[c].at \in Choose /\ call[c].op # "next_evict_key"
  BY <1>1, FrameOf DEF FrameOK, Choose
<1> QED BY <1>1, <1>2, EvictedPicked

LEMMA ListPicked ==
  ASSUME IInv, NEW c \in Callers, ListKeys(c) \/ ListNoMemory(c) PROVE Leasts
<1>1. call[c].at = "list" /\ call[c].at \in Choose
  BY DEF ListKeys, ListNoMemory, Inside, Choose
<1>2. CASE ListKeys(c)
  BY <1>1, <1>2, NonePicked DEF ListKeys, Pending, Answer
<1>3. CASE ListNoMemory(c) /\ call[c].op = "next_evict_key"
  <2>1. Goes(c, Idle) /\ result'.op # "next_evict_key"
    BY <1>3 DEF ListNoMemory, Returns, Answer
  <2> QED BY <2>1, IdleFrame, NonePicked
<1>4. CASE ListNoMemory(c) /\ call[c].op # "next_evict_key"
  BY <1>1, <1>4, EvictedPicked DEF ListNoMemory
<1> QED BY <1>2, <1>3, <1>4

\* A sampled cache has a victim of its own, of which EvictsLeast says nothing.
LEMMA SamplePicked ==
  ASSUME IInv, NEW c \in Callers, Sample(c) \/ SampleEnd(c) PROVE Leasts
<1>1. call[c].at = "sample" /\ call[c].at \in Choose
  <2>1. Inside(c, "sample")
    BY Zenon DEF Sample, SampleEnd
  <2> QED BY <2>1 DEF Inside, Choose
<1>2. CASE UNCHANGED call /\ result' = Pending
  BY <1>2, StayPicked DEF Pending, Answer
<1>3. ASSUME NEW g, Goes(c, g), result' = Pending PROVE Leasts
  BY <1>1, <1>3, NonePicked DEF Pending, Answer
<1>4. ASSUME NEW k, Chosen(c, call[c], k) PROVE Leasts
  <2>1. CASE call[c].op = "next_evict_key"
    <3>1. Goes(c, Idle)
      BY <1>4, <2>1 DEF Chosen, Returns
    <3>2. Idle.at = "idle" /\ Idle.at \notin Choose
      BY IdleFrame DEF Choose
    <3> QED BY <1>1, <3>1, <3>2, NonePicked
  <2>2. CASE call[c].op # "next_evict_key"
    BY <1>3, <1>4, <2>2 DEF Chosen
  <2> QED BY <2>1, <2>2
<1>5. ASSUME NEW k, Sampled(c, k) PROVE Leasts
  BY <1>2, <1>4, <1>5 DEF Sampled
<1>6. CASE Sample(c)
  <2>1. result' = Pending /\ (UNCHANGED call \/ \E g : Goes(c, g))
    BY Zenon, <1>6 DEF Sample, Crash
  <2> QED BY <1>2, <1>3, <2>1
<1>7. CASE SampleEnd(c)
  <2>1. (UNCHANGED call /\ result' = Pending) \/ \E k : Sampled(c, k)
    BY <1>7 DEF SampleEnd, Crash
  <2> QED BY <1>2, <1>5, <2>1
<1> QED BY <1>6, <1>7

LEMMA FailsPicked ==
  ASSUME IInv, NEW c \in Callers, Fails(c) PROVE Leasts
<1>1. Goes(c, Idle) /\ result'.op # "next_evict_key"
  BY DEF Fails, Returns, Answer
<1> QED BY <1>1, IdleFrame, NonePicked

LEMMA PopItemPicked ==
  ASSUME IInv, NEW c \in Callers, PopItemBegin(c) \/ PopItemFound(c) \/ PopItemEnd(c)
  PROVE  Leasts
<1>1. result'.op # "next_evict_key"
  BY DEF PopItemBegin, PopItemFound, PopItemEnd, Answer, Pending
<1>2. \A at, k, v : Frame("popitem", at, k, v, <<>>).at = at
  BY DEF Frame
<1>3. UNCHANGED call \/ \E g : Goes(c, g) /\ g.at # "victim"
  BY <1>2, IdleFrame DEF PopItemBegin, PopItemFound, PopItemEnd, Returns
<1> QED BY <1>1, <1>3, StayPicked, NonePicked

LEMMA EnterPicked ==
  ASSUME IInv, TInv, NEW c \in Callers, Enter(c) PROVE Leasts
<1>1. ASSUME NEW k, NEW v, PutBegin(c, k, v) PROVE Leasts
  BY <1>1, PutBeginPicked
<1>2. ASSUME NEW k, Subscript(c, k) \/ Get(c, k) \/ Delete(c, k) \/ PopBegin(c, k) PROVE Leasts
  BY <1>2, LookPicked, PopPicked
<1>3. ASSUME NEW k, NEW op \in {"setdefault", "setnx"}, NEW v,
             PresentDefault(c, op, k) \/ AbsentDefault(c, op, k, v)
      PROVE  Leasts
  BY <1>3, DefaultPicked
<1>4. ASSUME NEW arg, NEW kw, Update(c, arg, kw) PROVE Leasts
  BY <1>4, UpdatePicked
<1>5. ASSUME NEW op \in {"evict", "next_evict_key"}, EvictBegin(c, op) PROVE Leasts
  BY <1>5, EvictBeginPicked
<1>6. ASSUME NEW n \in Capacities, SetCapacity(c, n) \/ Reinit(c, n) PROVE Leasts
  BY <1>6, CapacityPicked
<1>7. CASE ValuesOf(c) \/ Clear(c)
  BY <1>7, AllPicked
<1>8. CASE PopItemBegin(c)
  BY <1>8, PopItemPicked
<1>9. "setnx" \in {"setdefault", "setnx"} /\ "setdefault" \in {"setdefault", "setnx"}
  OBVIOUS
<1> QED BY <1>1, <1>2, <1>3, <1>4, <1>5, <1>6, <1>7, <1>8, <1>9 DEF Enter

LEMMA GoOnPicked ==
  ASSUME IInv, TInv, NEW c \in Callers, GoOn(c) PROVE Leasts
  BY PutPicked, MakeRoomPicked, ListPicked, SamplePicked, EvictPicked, ShrinkOnPicked,
     FailsPicked, PopItemPicked, PopPicked DEF GoOn

\* As long as no entry's weight has gone down to zero, the key that a walk over
\* a small cache picks, to evict it or to answer it, has the least weight of all,
\* whatever has been visited, however the dict's order has changed, and
\* whatever clients do.
THEOREM VictimsLeast == Spec => EvictsLeast
<1>1. IInv /\ TInv /\ [Next]_vars => [Leasts]_vars
  <2> SUFFICES ASSUME IInv, TInv, Next PROVE Leasts OBVIOUS
  <2> QED BY TickPicked, EnterPicked, GoOnPicked DEF Next
<1>2. Init => IInv /\ TInv
  BY InitIInv, InitT
<1>3. IInv /\ TInv /\ [Next]_vars => IInv' /\ TInv'
  BY StepIInv, StepT
<1>4. Spec => [][Leasts]_vars
  BY <1>1, <1>2, <1>3, PTL DEF Spec
<1> QED BY <1>4 DEF EvictsLeast, Leasts

-----------------------------------------------------------------------------
(* What the frames of clients that keep to the contract know of a cache    *)
(* with the keys P, n of them, in the order o, the entries e and the       *)
(* capacity m.                                                             *)

\* The list of keys is still that of the cache; the key kept so far, and the
\* one last looked at, are in it.
ScanSound(s, P, o) ==
  /\ s.list = o /\ s.i <= BucketNum - 1
  /\ IF s.i = 0 THEN s.min = 0 ELSE s.rv \in P /\ s.key \in P

Sound(f, P, n, o, e, m) ==
  /\ f.at \in {"list", "sample"} => f.scan.count = n /\ n >= BucketSize
  /\ f.at = "list" => f.scan.i = 0 /\ f.scan.min = 0
  /\ f.at = "sample" => ScanSound(f.scan, P, o)
  /\ f.at = "victim" => f.victim \in P
  /\ f.at \in {"first", "pair"} => f.key \in P
  /\ f.at = "pair" => e[f.key].value = f.val
  /\ f.op \in Puts /\ f.at \in Choose => n >= m /\ f.key \notin P
  /\ f.op = "set_capacity" => f.cap <= m /\ n = f.cap + f.left
  /\ f.at # "pop"

SInv == Kept => /\ fault = "none"
                /\ \A c \in Callers : Sound(call[c], Present, Size, order, entry, capacity)

SafeInv == IInv /\ TInv /\ SInv

\* A frame that no other call can disturb.
LEMMA CalmSound ==
  ASSUME NEW f, FrameOK(f), f.at \notin Fragile \cup {"pop"}, NEW P, NEW n, NEW o, NEW e, NEW m
  PROVE  Sound(f, P, n, o, e, m)
  BY DEF FrameOK, Fragile, Choose, Sound

LEMMA IdleSound == ASSUME NEW P, NEW n, NEW o, NEW e, NEW m PROVE Sound(Idle, P, n, o, e, m)
  BY IdleFrame, CalmSound DEF Fragile

\* Visits do not matter to a frame.
LEMMA ValuesSound ==
  ASSUME NEW f, NEW P, NEW n, NEW o, NEW e1, NEW e2, NEW m, Sound(f, P, n, o, e1, m),
         \A k \in P : e2[k].value = e1[k].value
  PROVE  Sound(f, P, n, o, e2, m)
  BY DEF Sound

\* A step of one frame, which becomes g, that changes no key.
LEMMA SameKeysS ==
  ASSUME SafeInv, Kept' => Kept, NEW c \in Callers, NEW g, Goes(c, g),
         Kept' => Sound(g, Present, Size, order, entry', capacity) /\ fault' = fault,
         Present' = Present, UNCHANGED <<order, capacity>>,
         \A k \in Present : entry'[k].value = entry[k].value
  PROVE  SInv'
<1> SUFFICES ASSUME Kept', NEW d \in Callers
             PROVE  /\ fault' = "none"
                    /\ Sound(call'[d], Present', Size', order', entry', capacity')
  BY DEF SInv
<1>1. Kept /\ fault = "none" /\ Sound(call[d], Present, Size, order, entry, capacity)
  BY DEF SafeInv, SInv
<1>2. Sound(call[d], Present, Size, order, entry', capacity)
  BY <1>1, ValuesSound
<1>3. Size' = Size
  BY DEF Size
<1>4. call'[d] = IF d = c THEN g ELSE call[d]
  BY DEF SafeInv, IInv, Typed, CallOK, Goes
<1> QED BY <1>1, <1>2, <1>3, <1>4

LEMMA StayS ==
  ASSUME SafeInv, Kept' => Kept, UNCHANGED <<call, order, capacity>>,
         Kept' => fault' = fault,
         Present' = Present, \A k \in Present : entry'[k].value = entry[k].value
  PROVE  SInv'
<1>1. ASSUME Kept', NEW d \in Callers
      PROVE  /\ fault' = "none"
             /\ Sound(call'[d], Present', Size', order', entry', capacity')
  <2>1. Kept /\ fault = "none" /\ Sound(call[d], Present, Size, order, entry, capacity)
    BY <1>1 DEF SafeInv, SInv
  <2>2. Sound(call[d], Present, Size, order, entry', capacity)
    BY <2>1, ValuesSound
  <2> QED BY <1>1, <2>1, <2>2 DEF Size
<1>2. Kept' => fault' = "none"
  BY DEF SafeInv, SInv
<1> QED BY <1>1, <1>2 DEF SInv

\* The same of steps that leave the cache alone, ...
LEMMA SameCacheS ==
  ASSUME SafeInv, Kept' => Kept, NEW c \in Callers, NEW g, Goes(c, g), UNCHANGED cache,
         Kept' => Sound(g, Present, Size, order, entry, capacity) /\ fault' = fault
  PROVE  SInv'
<1>1. Present' = Present /\ UNCHANGED <<entry, order, capacity>>
  BY DEF Present, cache
<1> QED BY <1>1, SameKeysS

LEMMA SameAllS ==
  ASSUME SafeInv, Kept' => Kept, UNCHANGED <<cache, call>>, Kept' => fault' = fault
  PROVE  SInv'
<1>1. Present' = Present /\ UNCHANGED <<entry, order, capacity, call>>
  BY DEF Present, cache
<1> QED BY <1>1, StayS

\* ... and of steps that change the keys while nobody depends on them.
LEMMA ChangesS ==
  ASSUME SafeInv, NEW c \in Callers, breach' = breach \cup Changes(c), NEW g, Goes(c, g),
         Kept' => Sound(g, Present', Size', order', entry', capacity') /\ fault' = fault
  PROVE  SInv'
<1> SUFFICES ASSUME Kept', NEW d \in Callers
             PROVE  /\ fault' = "none"
                    /\ Sound(call'[d], Present', Size', order', entry', capacity')
  BY DEF SInv
<1>1. Kept /\ Changes(c) = {} /\ fault = "none"
  BY DEF Kept, SafeInv, SInv
<1>2. d # c => call[d].at \notin Fragile
  BY <1>1 DEF Changes
<1>3. d # c => Sound(call[d], Present', Size', order', entry', capacity')
  <2>1. call[d].at # "pop"
    BY <1>1 DEF SafeInv, SInv, Sound
  <2> QED BY <1>2, <2>1, FrameOf, CalmSound DEF SafeInv
<1>4. call'[d] = IF d = c THEN g ELSE call[d]
  BY DEF SafeInv, IInv, Typed, CallOK, Goes
<1> QED BY <1>1, <1>3, <1>4

LEMMA IdleChangesS ==
  ASSUME SafeInv, NEW c \in Callers, call[c] = Idle, UNCHANGED call,
         Kept' => breach' = breach \cup Changes(c) /\ fault' = fault
  PROVE  SInv'
<1> SUFFICES ASSUME Kept', NEW d \in Callers
             PROVE  /\ fault' = "none"
                    /\ Sound(call'[d], Present', Size', order', entry', capacity')
  BY DEF SInv
<1>1. Kept /\ Changes(c) = {} /\ fault = "none"
  BY DEF Kept, SafeInv, SInv
<1>2. call[d].at \notin Fragile \cup {"pop"}
  <2>1. call[d].at # "pop"
    BY <1>1 DEF SafeInv, SInv, Sound
  <2> QED BY <1>1, <2>1, IdleFrame DEF Changes, Fragile
<1>3. Sound(call[d], Present', Size', order', entry', capacity')
  BY <1>2, FrameOf, CalmSound DEF SafeInv
<1> QED BY <1>1, <1>3

\* A frame that has begun to search.
LEMMA SearchingSound ==
  ASSUME NEW f, NEW g, Searching(f, g), NEW P, P = Present, NEW n, n = Size, NEW o, NEW e, NEW m,
         f.op \in Puts => n >= m /\ f.key \notin P,
         f.op = "set_capacity" => f.cap <= m /\ n = f.cap + f.left
  PROVE  Sound(g, P, n, o, e, m)
<1>1. CASE g = Idle
  BY <1>1, IdleSound
<1>2. CASE g # Idle
  <2>1. /\ g.op = f.op /\ g.key = f.key /\ g.cap = f.cap /\ g.left = f.left
        /\ \/ g.at = "victim" /\ g.victim \in Present
           \/ g.at = "list" /\ Size >= BucketSize
              /\ g.scan = Scan(now, Size, <<>>, 0, 0, NULL, NULL)
    BY <1>2 DEF Searching
  <2> QED BY <2>1 DEF Sound, Scan
<1> QED BY <1>1, <1>2

-----------------------------------------------------------------------------
(* Positions in the list *)

LEMMA Division ==
  ASSUME NEW n \in Nat, NEW b \in Nat \ {0}
  PROVE  n \div b \in Nat /\ n % b \in 0..b - 1 /\ n = b * (n \div b) + (n % b)
  OBVIOUS

LEMMA BucketsFit ==
  ASSUME NEW s, s.count \in Nat, s.count >= BucketSize
  PROVE  /\ Buckets(s) \in Nat \ {0}
         /\ s.count = BucketNum * Buckets(s) + (s.count % BucketNum)
         /\ s.count % BucketNum \in 0..BucketNum - 1
<1> DEFINE n == s.count
           b == n \div BucketNum
           m == n % BucketNum
<1>1. n \in Nat /\ BucketNum \in Nat \ {0, 1} /\ n >= BucketNum
  BY NumbersAssumption
<1>2. b \in Nat /\ m \in 0..BucketNum - 1 /\ n = BucketNum * b + m
  BY <1>1, Division
<1> HIDE DEF n, b, m
<1>3. b # 0
  BY <1>1, <1>2
<1> QED BY <1>2, <1>3 DEF Buckets, n, b, m

LEMMA InBuckets ==
  ASSUME NEW N \in Nat \ {0, 1}, NEW B \in Nat \ {0}, NEW i \in 0..N - 2, NEW r \in 0..B
  PROVE  i * B + r \in Nat /\ i * B + r < N * B
<1>1. i * B \in Nat /\ (N - 2) * B = N * B - 2 * B /\ N * B \in Nat
  OBVIOUS
<1>2. i * B <= (N - 2) * B
  OBVIOUS
<1> QED BY <1>1, <1>2

-----------------------------------------------------------------------------
(* Steps and what the frames know *)

LEMMA CallSound ==
  ASSUME SafeInv, Kept, NEW c \in Callers
  PROVE  fault = "none" /\ Sound(call[c], Present, Size, order, entry, capacity)
  BY DEF SafeInv, SInv

LEMMA VisitValue ==
  ASSUME SafeInv, NEW k, entry' = [entry EXCEPT ![k] = Visited(@)]
  PROVE  \A j \in Present : entry'[j].value = entry[j].value
  BY DEF SafeInv, IInv, Typed, Present, Visited, Entry

LEMMA StutterS == ASSUME SafeInv, UNCHANGED vars PROVE SInv'
  BY SameAllS DEF vars, Kept

LEMMA TickS == ASSUME SafeInv, Tick PROVE SInv'
  BY SameAllS DEF Tick, Kept

LEMMA FailsS == ASSUME SafeInv, NEW c \in Callers, Fails(c) PROVE SInv'
  BY IdleSound, SameCacheS DEF Fails, Returns, Kept

LEMMA ListKeysS == ASSUME SafeInv, NEW c \in Callers, ListKeys(c) PROVE SInv'
<1> DEFINE f == call[c]
           g == [f EXCEPT !.at = "sample", !.scan.list = order]
<1>1. f.at = "list" /\ Goes(c, g) /\ UNCHANGED <<cache, now, breach, fault>>
  BY DEF ListKeys, Inside
<1>2. f \in Frames /\ f.scan \in Scans
  BY CallData, FieldTypes DEF SafeInv
<1>3. /\ g.at = "sample" /\ g.op = f.op /\ g.cap = f.cap /\ g.left = f.left /\ g.key = f.key
      /\ g.scan.list = order /\ g.scan.count = f.scan.count /\ g.scan.i = f.scan.i
      /\ g.scan.min = f.scan.min
  BY <1>2, FramesIs DEF Scans
<1> HIDE DEF g
<1>4. ASSUME Kept PROVE Sound(g, Present, Size, order, entry, capacity)
  <2>1. Sound(f, Present, Size, order, entry, capacity)
    BY <1>4, CallSound
  <2> HIDE DEF f
  <2> QED BY <1>1, <1>3, <2>1, NumbersAssumption DEF Sound, ScanSound, Choose
<1> QED BY <1>1, <1>4, SameCacheS DEF Kept

\* The scans of clients that keep to the contract find the keys they look for.
LEMMA ScanFinds ==
  ASSUME SafeInv, Kept, NEW c \in Callers, call[c].at = "sample"
  PROVE  LET s == call[c].scan IN
         /\ s \in Scans /\ ScanSound(s, Present, order)
         /\ s.count = Size /\ Len(s.list) = Size /\ s.count >= BucketSize
         /\ \A pos \in Nat : pos < Size => Found(s, pos) /\ s.list[pos + 1] \in Present
<1> DEFINE s == call[c].scan
<1>1. s \in Scans /\ ScanSound(s, Present, order) /\ s.count = Size /\ s.count >= BucketSize
  BY CallSound, CallData, FieldTypes DEF SafeInv, Sound
<1>2. s.list = order /\ Len(order) = Size /\ order \in Seq(Present) /\ Size \in Nat
  BY <1>1, Sizes DEF ScanSound, SafeInv, TInv, OrderOK
<1> HIDE DEF s
<1>3. \A pos \in Nat : pos < Size => Found(s, pos) /\ s.list[pos + 1] \in Present
  BY <1>2, ElementOfSeq DEF Found
<1> QED BY <1>1, <1>2, <1>3 DEF s

LEMMA LookedSound ==
  ASSUME NEW s \in Scans, NEW P, NEW o, ScanSound(s, P, o), s.i < BucketNum - 1, NEW k \in P, NEW w
  PROVE  ScanSound(Looked(s, k, w), P, o)
<1> DEFINE z == Looked(s, k, w)
<1>1. /\ z.list = s.list /\ z.i = s.i + 1 /\ z.key = k
      /\ z.rv = IF Better(s, w) THEN k ELSE s.rv
  BY DEF Looked, Scan
<1> HIDE DEF z
<1>2. s.i \in Nat /\ z.i # 0 /\ z.i <= BucketNum - 1
  BY <1>1, NumbersAssumption DEF Scans
<1>3. s.i = 0 => Better(s, w)
  BY DEF ScanSound, Better
<1> QED BY <1>1, <1>2, <1>3 DEF ScanSound, z

LEMMA SampleS == ASSUME SafeInv, NEW c \in Callers, Sample(c) PROVE SInv'
<1> DEFINE f == call[c]
           s == f.scan
           B == Buckets(s)
<1>1. f.at = "sample" /\ s.i < BucketNum - 1 /\ UNCHANGED <<cache, now>>
  BY DEF Sample, Inside, Crash
<1>2. PICK r \in 0..B :
        LET pos == s.i * B + r
            k   == s.list[pos + 1]
        IN \/ /\ Found(s, pos) /\ UNCHANGED <<breach, fault>>
              /\ Goes(c, [f EXCEPT !.scan = Looked(s, k, Weight(entry[k], s.now))])
           \/ /\ Crash(c, pos)
              /\ breach' = IF Found(s, pos) THEN breach \cup {"raised"} ELSE breach
  BY Zenon DEF Sample, Looked
<1> DEFINE pos == s.i * B + r
           k == s.list[pos + 1]
           w == Weight(entry[k], s.now)
<1>3. Kept => pos \in Nat /\ pos < Size /\ Found(s, pos) /\ k \in Present
  <2> SUFFICES ASSUME Kept PROVE pos \in Nat /\ pos < Size /\ Found(s, pos) /\ k \in Present
    OBVIOUS
  <2>1. /\ s.i \in Nat /\ s.count = Size /\ s.count >= BucketSize /\ Size \in Nat
        /\ \A p \in Nat : p < Size => Found(s, p) /\ s.list[p + 1] \in Present
    BY <1>1, ScanFinds, Sizes DEF Scans
  <2>2. /\ B \in Nat \ {0} /\ s.count = BucketNum * B + (s.count % BucketNum)
        /\ s.count % BucketNum \in 0..BucketNum - 1
    BY <2>1, BucketsFit
  <2> DEFINE i == s.i
             m == s.count % BucketNum
  <2>3. i \in 0..BucketNum - 2 /\ BucketNum \in Nat \ {0, 1}
    BY <1>1, <2>1, NumbersAssumption
  <2> HIDE DEF i, B
  <2>4. i * B + r \in Nat /\ i * B + r < BucketNum * B
    BY <2>2, <2>3, InBuckets
  <2> HIDE DEF m
  <2>5. m \in Nat /\ Size = BucketNum * B + m /\ BucketNum * B \in Nat
    BY <2>1, <2>2, <2>3 DEF m
  <2>6. i * B + r < Size
    BY <2>4, <2>5
  <2> QED BY <2>1, <2>4, <2>6 DEF i
<1>4. CASE Crash(c, pos) /\ breach' = IF Found(s, pos) THEN breach \cup {"raised"} ELSE breach
  <2>1. UNCHANGED <<cache, call>>
    BY <1>4 DEF Crash
  <2>2. (Kept' => Kept) /\ ~Kept'
    BY <1>3, <1>4 DEF Kept
  <2> QED BY <2>1, <2>2, SameAllS
<1>5. CASE /\ Found(s, pos) /\ UNCHANGED <<breach, fault>>
           /\ Goes(c, [f EXCEPT !.scan = Looked(s, k, w)])
  <2>1. k \in Keys /\ w \in Nat /\ s \in Scans
    BY Zenon, <1>5, FoundWeight, CallData, FieldTypes DEF SafeInv
  <2> DEFINE z == Looked(s, k, w)
             g == [f EXCEPT !.scan = z]
  <2>2. z \in Scans /\ z.count = s.count
    BY <2>1, LookedType DEF Looked, Scan
  <2>3. Kept => ScanSound(z, Present, order)
    BY <1>1, <1>3, <2>1, ScanFinds, LookedSound
  <2>4. Goes(c, g)
    BY <1>5
  <2> HIDE DEF z
  <2>5. /\ g.at = "sample" /\ g.scan = z /\ g.op = f.op /\ g.cap = f.cap /\ g.left = f.left
        /\ g.key = f.key
    BY <1>1, <2>2, CallData, FramesIs DEF SafeInv
  <2> HIDE DEF g
  <2>6. ASSUME Kept PROVE Sound(g, Present, Size, order, entry, capacity)
    <3>1. Sound(f, Present, Size, order, entry, capacity)
      BY <2>6, CallSound
    <3> QED BY <1>1, <2>2, <2>3, <2>5, <2>6, <3>1 DEF Sound, Choose
  <2> QED BY <1>1, <1>5, <2>4, <2>6, SameCacheS DEF Kept
<1> QED BY <1>2, <1>4, <1>5

LEMMA SampledS ==
  ASSUME SafeInv, NEW c \in Callers, call[c].at = "sample", NEW k \in Keys \cup {NULL},
         Kept => k \in Present, Sampled(c, k)
  PROVE  SInv'
<1> DEFINE f == call[c]
<1>1. CASE Chosen(c, f, k) /\ UNCHANGED <<cache, now, breach, fault>>
  <2>1. Searcher(f)
    BY CallData DEF SafeInv, Choose
  <2>2. PICK g : /\ Goes(c, g)
                 /\ \/ g = Idle
                    \/ /\ g.op = f.op /\ g.left = f.left /\ g.cap = f.cap /\ g.key = f.key
                       /\ g.at = "victim" /\ g.victim = k
    BY <1>1, <2>1, ChosenData
  <2>3. ASSUME Kept PROVE Sound(g, Present, Size, order, entry, capacity)
    <3>1. Sound(f, Present, Size, order, entry, capacity)
      BY <2>3, CallSound
    <3>2. CASE g = Idle
      BY <3>2, IdleSound
    <3>3. CASE g # Idle
      BY <2>2, <2>3, <3>1, <3>3 DEF Sound, Choose
    <3> QED BY <3>2, <3>3
  <2> QED BY <1>1, <2>2, <2>3, SameCacheS DEF Kept
<1>2. CASE k \notin Present /\ UNCHANGED <<cache, now, call, breach>>
  BY <1>2, SameAllS DEF Kept
<1> QED BY <1>1, <1>2 DEF Sampled

LEMMA SampleEndS == ASSUME SafeInv, NEW c \in Callers, SampleEnd(c) PROVE SInv'
<1> DEFINE s == call[c].scan
           m == s.count % BucketNum
           pos == BucketNum * Buckets(s) + (m \div 2)
<1>1. call[c].at = "sample" /\ s.i = BucketNum - 1
  BY DEF SampleEnd, Inside
<1>2. s.rv \in Keys \cup {NULL} /\ s.key \in Keys \cup {NULL}
  BY CallData, FieldTypes DEF Scans, SafeInv
<1>3. Kept => s.rv \in Present /\ s.key \in Present
  BY <1>1, ScanFinds, NumbersAssumption DEF ScanSound
<1>4. Kept /\ m # 0 => Found(s, pos)
  <2> SUFFICES ASSUME Kept, m # 0 PROVE Found(s, pos)
    OBVIOUS
  <2>1. /\ s.count = Size /\ s.count >= BucketSize /\ Size \in Nat
        /\ \A p \in Nat : p < Size => Found(s, p)
    BY <1>1, ScanFinds, Sizes
  <2>2. Buckets(s) \in Nat \ {0} /\ Size = BucketNum * Buckets(s) + m /\ m \in 0..BucketNum - 1
    BY <2>1, BucketsFit
  <2> DEFINE C == BucketNum * Buckets(s)
  <2>3. C \in Nat
    BY <2>2, NumbersAssumption
  <2> HIDE DEF C, m
  <2>4. m \div 2 \in Nat /\ m \div 2 < m
    BY <2>2, NumbersAssumption
  <2>5. C + (m \div 2) \in Nat /\ C + (m \div 2) < Size
    BY <2>2, <2>3, <2>4, NumbersAssumption DEF C
  <2> QED BY <2>1, <2>5 DEF C
<1>5. ASSUME Crash(c, pos), m # 0,
             breach' = IF Found(s, pos) THEN breach \cup {"raised"} ELSE breach
      PROVE  SInv'
  <2>1. UNCHANGED <<cache, call>>
    BY <1>5 DEF Crash
  <2>2. (Kept' => Kept) /\ ~Kept'
    BY <1>4, <1>5 DEF Kept
  <2> QED BY <2>1, <2>2, SameAllS
<1>6. \/ \E k \in {s.rv, s.key} : Sampled(c, k)
      \/ /\ Crash(c, pos) /\ m # 0
         /\ breach' = IF Found(s, pos) THEN breach \cup {"raised"} ELSE breach
  BY DEF SampleEnd
<1> QED BY <1>1, <1>2, <1>3, <1>5, <1>6, SampledS

LEMMA EvictBeginS ==
  ASSUME SafeInv, NEW c \in Callers, NEW op \in {"evict", "next_evict_key"}, EvictBegin(c, op)
  PROVE  SInv'
<1> DEFINE f == Frame(op, "evict", NULL, NULL, <<>>)
<1>1. UNCHANGED <<cache, now, breach, fault>>
  BY DEF EvictBegin
<1>2. CASE UNCHANGED call
  BY <1>1, <1>2, SameAllS DEF Kept
<1>3. CASE Present # {} /\ Choosing(c, f)
  <2>1. Searcher(f) /\ f.op = op
    <3>1. <<>> \in Seq(Keys \X Values)
      BY EmptySeq
    <3> QED BY <3>1, NoScanType DEF Searcher, Frame, Begun, Ops, Puts
  <2> HIDE DEF f
  <2>2. PICK g : Goes(c, g) /\ Searching(f, g)
    BY <1>3, <2>1, ChoosingData DEF SafeInv, TInv
  <2>3. Sound(g, Present, Size, order, entry, capacity)
    BY <2>1, <2>2, SearchingSound DEF Puts
  <2> QED BY <1>1, <2>2, <2>3, SameCacheS DEF Kept
<1> QED BY <1>2, <1>3 DEF EvictBegin

\* A frame that begins to look a key up.
LEMMA LookupSound ==
  ASSUME NEW op \in Puts, NEW k, NEW v, NEW todo, NEW P, NEW n, NEW o, NEW e, NEW m
  PROVE  Sound(Frame(op, "lookup", k, v, todo), P, n, o, e, m)
<1>1. FrameOK(Frame(op, "lookup", k, v, todo)) /\ Frame(op, "lookup", k, v, todo).at = "lookup"
  BY NewFrame DEF Frame
<1> QED BY <1>1, CalmSound DEF Fragile

LEMMA PutBeginS ==
  ASSUME SafeInv, NEW c \in Callers, NEW k \in Keys, NEW v \in Values, PutBegin(c, k, v)
  PROVE  SInv'
<1>1. Sound(Frame("put", "lookup", k, v, <<>>), Present, Size, order, entry, capacity)
  BY LookupSound DEF Puts
<1> QED BY <1>1, SameCacheS DEF PutBegin, Kept

LEMMA PutDoneSound ==
  ASSUME NEW c \in Callers, NEW f, PutDone(c, f)
  PROVE  \E g : Goes(c, g) /\ \A P, n, o, e, m : Sound(g, P, n, o, e, m)
<1>1. PICK g : Goes(c, g) /\ FrameOK(g) /\ g.at \notin Fragile \cup {"pop"}
  BY PutDoneStep
<1> QED BY <1>1, CalmSound

LEMMA UpdateS ==
  ASSUME SafeInv, NEW c \in Callers, NEW u \in Updates, Update(c, u[1], u[2]) PROVE SInv'
<1>1. UNCHANGED <<cache, now, breach, fault>>
  BY DEF Update
<1>2. UNCHANGED call \/ \E todo : Goes(c, Updating(todo))
  BY DEF Update
<1>3. \A todo : Sound(Updating(todo), Present, Size, order, entry, capacity)
  BY LookupSound DEF Updating, Puts
<1> QED BY <1>1, <1>2, <1>3, SameAllS, SameCacheS DEF Kept

LEMMA MakeRoomS == ASSUME SafeInv, NEW c \in Callers, MakeRoom(c) PROVE SInv'
<1> DEFINE f == call[c]
<1>1. /\ f.at = "lookup" /\ f.op \in Puts /\ UNCHANGED <<cache, now, fault>>
      /\ breach \subseteq breach' /\ f.key \notin Present
  BY CallData DEF MakeRoom, Inside, FrameOK, SafeInv
<1>2. Searcher(f) /\ f \in Frames
  BY <1>1, CallData DEF Searcher, FrameData, Puts, SafeInv
<1>3. CASE Full
  <2>1. Present # {}
    <3>1. Size # 0
      BY <1>3, Sizes, CapacitiesAssumption DEF Full, SafeInv, TInv, ScalarsOK
    <3> QED BY <3>1, FS_EmptySet DEF Size
  <2>2. Choosing(c, f) /\ Size >= capacity
    BY <1>3 DEF MakeRoom, Full
  <2> HIDE DEF f
  <2>3. PICK g : Goes(c, g) /\ Searching(f, g)
    BY <1>2, <2>1, <2>2, ChoosingData DEF SafeInv, TInv
  <2>4. Sound(g, Present, Size, order, entry, capacity)
    BY <1>1, <2>2, <2>3, SearchingSound DEF Puts
  <2> QED BY <1>1, <2>3, <2>4, SameCacheS DEF Kept
<1>4. CASE ~Full
  <2> DEFINE g == [f EXCEPT !.at = "insert"]
  <2>1. Goes(c, g)
    BY <1>4 DEF MakeRoom, At
  <2>2. g.at = "insert" /\ g.op = f.op
    BY <1>2, FramesIs
  <2> HIDE DEF g
  <2>3. Sound(g, Present, Size, order, entry, capacity)
    BY <1>1, <2>2 DEF Sound, Puts, Choose
  <2> QED BY <1>1, <2>1, <2>3, SameCacheS DEF Kept
<1> QED BY <1>3, <1>4

LEMMA DefaultS ==
  ASSUME SafeInv, NEW c \in Callers, NEW op \in {"setdefault", "setnx"}, NEW k \in Keys,
         NEW v \in Values \cup {NULL}, PresentDefault(c, op, k) \/ AbsentDefault(c, op, k, v)
  PROVE  SInv'
<1>1. CASE PresentDefault(c, op, k)
  <2>1. /\ k \in Present /\ entry' = [entry EXCEPT ![k] = Visited(@)]
        /\ UNCHANGED <<order, capacity, now, call, breach, fault>>
    BY <1>1 DEF PresentDefault
  <2>2. Present' = Present
    BY <2>1, VisitEntry DEF SafeInv, TInv
  <2>3. \A j \in Present : entry'[j].value = entry[j].value
    BY <2>1, VisitValue
  <2> QED BY <2>1, <2>2, <2>3, StayS DEF Kept
<1>2. CASE AbsentDefault(c, op, k, v) /\ v = NULL
  BY <1>2, SameAllS DEF AbsentDefault, Kept
<1>3. CASE AbsentDefault(c, op, k, v) /\ v # NULL
  <2>1. Sound(Frame(op, "lookup", k, v, <<>>), Present, Size, order, entry, capacity)
    BY LookupSound DEF Puts
  <2> QED BY <1>3, <2>1, SameCacheS DEF AbsentDefault, Kept
<1> QED BY <1>1, <1>2, <1>3

LEMMA ReplaceS == ASSUME SafeInv, NEW c \in Callers, Replace(c) PROVE SInv'
<1> DEFINE f == call[c]
<1>1. /\ f.at = "lookup" /\ f.key \in Present /\ PutDone(c, f)
      /\ entry' = [entry EXCEPT ![f.key].value = f.val]
      /\ UNCHANGED <<order, capacity, now, fault>>
      /\ breach' = IF \E d \in Callers : call[d].at = "pair" /\ call[d].key = f.key
                   THEN breach \cup {"overlap"} ELSE breach
  BY DEF Replace, Inside
<1>2. f.val \in Values
  BY <1>1, CallData DEF FrameData, FrameOK, SafeInv
<1>3. Present' = Present /\ \A k \in Present \ {f.key} : entry'[k] = entry[k]
  BY <1>1, <1>2, ReplaceEntry DEF SafeInv, TInv, IInv, Typed, Present
<1> HIDE DEF f
<1>4. PICK g : Goes(c, g) /\ Sound(g, Present, Size, order, entry', capacity)
  BY <1>1, PutDoneSound
<1>5. ASSUME Kept', NEW d \in Callers
      PROVE  /\ fault' = "none"
             /\ Sound(call'[d], Present', Size', order', entry', capacity')
  <2>1. Kept /\ ~(call[d].at = "pair" /\ call[d].key = f.key)
    BY <1>1, <1>5 DEF Kept
  <2>2. fault = "none" /\ Sound(call[d], Present, Size, order, entry, capacity)
    BY <2>1, CallSound
  <2>3. Sound(call[d], Present, Size, order, entry', capacity)
    BY <1>3, <2>1, <2>2 DEF Sound
  <2>4. call'[d] = IF d = c THEN g ELSE call[d]
    BY <1>4 DEF SafeInv, IInv, Typed, CallOK, Goes
  <2>5. Size' = Size
    BY <1>3 DEF Size
  <2> QED BY <1>1, <1>3, <1>4, <2>2, <2>3, <2>4, <2>5
<1> QED BY <1>5 DEF SInv

LEMMA InsertS == ASSUME SafeInv, NEW c \in Callers, Insert(c) PROVE SInv'
<1>1. PICK g : Goes(c, g) /\ Sound(g, Present', Size', order', entry', capacity')
  BY PutDoneSound DEF Insert
<1>2. breach' = breach \cup Changes(c) /\ fault' = fault
  BY DEF Insert
<1> QED BY <1>1, <1>2, ChangesS

LEMMA EvictS == ASSUME SafeInv, NEW c \in Callers, Evict(c) PROVE SInv'
<1> DEFINE f == call[c]
<1>1. /\ f.at = "victim" /\ f.victim \in Present /\ Drop(f.victim)
      /\ Evicted(c, f) /\ UNCHANGED <<capacity, now, fault>>
      /\ breach' = breach \cup Changes(c)
  BY DEF Evict, Inside
<1>2. Size' = Size - 1 /\ Size \in Nat
  BY <1>1, DropT, Sizes DEF SafeInv
<1>3. f.at \in Choose /\ f.op # "next_evict_key"
  BY <1>1, CallData DEF FrameOK, Choose, SafeInv
<1>4. PICK g : /\ Goes(c, g)
               /\ \/ g = Idle
                  \/ /\ f.op = "set_capacity" /\ g.op = "set_capacity" /\ g.at = "again"
                     /\ g.cap = f.cap /\ g.left = f.left - 1
                  \/ f.op \in Puts /\ g.op = f.op /\ g.at = "insert"
  BY <1>1, <1>3, EvictedData DEF SafeInv
<1>5. ASSUME Kept' PROVE Sound(g, Present', Size', order', entry', capacity')
  <2>1. Kept
    BY <1>1, <1>5 DEF Kept
  <2>2. Sound(f, Present, Size, order, entry, capacity)
    BY <2>1, CallSound
  <2>3. f.left \in Nat /\ (f.op = "set_capacity" => f.cap \in Nat)
    BY CallData, FieldTypes, CapacitiesAssumption DEF SafeInv, FrameData
  <2>4. CASE g = Idle
    BY <2>4, IdleSound
  <2>5. CASE g.op = "set_capacity" /\ g.at = "again" /\ f.op = "set_capacity"
             /\ g.cap = f.cap /\ g.left = f.left - 1
    <3>1. g.cap <= capacity' /\ Size' = g.cap + g.left
      BY <1>1, <1>2, <2>2, <2>3, <2>5 DEF Sound
    <3> HIDE DEF f
    <3> QED BY <2>5, <3>1 DEF Sound, Puts
  <2>6. CASE f.op \in Puts /\ g.op = f.op /\ g.at = "insert"
    BY <2>6 DEF Sound, Puts, Choose
  <2> QED BY <1>4, <2>4, <2>5, <2>6
<1> QED BY <1>1, <1>4, <1>5, ChangesS

LEMMA ListNoMemoryS == ASSUME SafeInv, NEW c \in Callers, ListNoMemory(c) PROVE SInv'
<1>1. ~Kept'
  BY DEF ListNoMemory, Kept
<1> QED BY <1>1 DEF SInv

\* Clients that keep to the contract do not set the capacity while an entry is
\* about to be added, nor below what another call is lowering it to.
LEMMA CapacityS ==
  ASSUME SafeInv, UNCHANGED <<entry, order, fault>>, NEW n \in Nat, capacity' = n, Kept' => Kept,
         Kept' => Adders = {} \/ n = capacity \/ n <= Size,
         Kept' => n >= capacity \/ Size <= n,
         Kept' => \A d \in Callers :
                    Sound(call'[d], Present, Size, order, entry, n) \/ call'[d] = call[d],
         Callers # {}
  PROVE  SInv'
<1>1. ASSUME Kept', NEW d \in Callers
      PROVE  /\ fault' = "none"
             /\ Sound(call'[d], Present', Size', order', entry', capacity')
  <2>1. /\ fault = "none" /\ Sound(call[d], Present, Size, order, entry, capacity)
        /\ FrameOK(call[d]) /\ call[d] \in Frames
        /\ call[d].op = "set_capacity" => call[d].cap \in Capacities
    BY <1>1, CallSound, CallData DEF SafeInv, FrameData
  <2>2. Present' = Present /\ Size' = Size /\ Size \in Nat /\ capacity \in Nat
    BY Sizes, CapacitiesAssumption DEF Present, Size, SafeInv, TInv, ScalarsOK
  <2>3. Sound(call[d], Present, Size, order, entry, n)
    <3>1. call[d].op \in Puts /\ call[d].at \in Choose => Size >= n
      <4>1. call[d].op \in Puts /\ call[d].at \in Choose => d \in Adders
        BY DEF Adders, Puts, Choose, Fragile
      <4> QED BY <1>1, <2>1, <2>2, <4>1 DEF Sound
    <3>2. call[d].op = "set_capacity" => call[d].cap <= n
      <4>1. call[d].op = "set_capacity" =>
              /\ call[d].cap <= capacity /\ Size = call[d].cap + call[d].left
              /\ call[d].cap \in Nat /\ call[d].left \in Nat
        BY <2>1, FieldTypes, CapacitiesAssumption DEF Sound
      <4> QED BY <1>1, <2>2, <4>1
    <3> QED BY <2>1, <3>1, <3>2 DEF Sound
  <2> QED BY <1>1, <2>1, <2>2, <2>3
<1> QED BY <1>1 DEF SInv

LEMMA SetCapacityS ==
  ASSUME SafeInv, NEW c \in Callers, NEW n \in Capacities, SetCapacity(c, n) PROVE SInv'
<1>1. /\ UNCHANGED <<entry, order, now, fault>> /\ breach \subseteq breach'
      /\ breach' = breach \cup IF Adders = {} THEN {}
                               ELSE (IF n < capacity THEN {"shrink"} ELSE {}) \cup Grows(n)
  BY DEF SetCapacity
<1>2. n \in Nat /\ capacity \in Nat /\ Size \in Nat
  BY Sizes, CapacitiesAssumption DEF SafeInv, TInv, ScalarsOK
<1>3. CASE n < capacity /\ Size > n
  <2> DEFINE f == [Frame("set_capacity", "evict", NULL, NULL, <<>>) EXCEPT !.left = Size - n, !.cap = n]
  <2>1. Choosing(c, f) /\ UNCHANGED cache
    BY <1>1, <1>3 DEF SetCapacity, cache
  <2>2. Searcher(f) /\ Present # {} /\ f.op = "set_capacity" /\ f.left = Size - n /\ f.cap = n
    BY Zenon, <1>3, ShrinkerType DEF SafeInv
  <2> HIDE DEF f
  <2>3. PICK g : Goes(c, g) /\ Searching(f, g)
    BY <2>1, <2>2, ChoosingData DEF SafeInv, TInv
  <2>4. Sound(g, Present, Size, order, entry, capacity)
    <3>1. f.cap <= capacity /\ Size = f.cap + f.left
      BY <1>2, <1>3, <2>2
    <3> QED BY <2>2, <2>3, <3>1, SearchingSound DEF Puts
  <2> QED BY <1>1, <2>1, <2>3, <2>4, SameCacheS DEF Kept
<1>4. CASE ~(n < capacity /\ Size > n)
  <2>1. capacity' = n /\ UNCHANGED call
    BY <1>4 DEF SetCapacity
  <2>2. n >= capacity \/ Size <= n
    BY <1>2, <1>4
  <2>3. Kept' => Adders = {} \/ n = capacity
    BY <1>1, <1>2 DEF Kept, Grows
  <2> QED BY <1>1, <1>2, <2>1, <2>2, <2>3, CapacityS DEF Kept
<1> QED BY <1>3, <1>4

LEMMA ReinitS ==
  ASSUME SafeInv, NEW c \in Callers, NEW n \in Capacities, Reinit(c, n) PROVE SInv'
<1>1. /\ UNCHANGED <<entry, order, now, call, fault>> /\ breach \subseteq breach' /\ capacity' = n
      /\ breach' = breach \cup (IF n < capacity THEN {"init"} ELSE {}) \cup Grows(n)
  BY DEF Reinit
<1>2. n \in Nat /\ capacity \in Nat
  BY CapacitiesAssumption DEF SafeInv, TInv, ScalarsOK
<1>3. Kept' => n >= capacity /\ (Adders = {} \/ n = capacity)
  BY <1>1, <1>2 DEF Kept, Grows
<1> QED BY <1>1, <1>2, <1>3, CapacityS DEF Kept

LEMMA ShrinkOnS == ASSUME SafeInv, NEW c \in Callers, ShrinkOn(c) PROVE SInv'
<1> DEFINE f == call[c]
<1>1. /\ f.at = "again" /\ f.op = "set_capacity" /\ c \in Shrinkers
      /\ UNCHANGED <<entry, order, now, breach, fault>>
  BY CallData DEF ShrinkOn, Inside, FrameOK, SafeInv, Shrinkers
<1>2. f.cap \in Capacities /\ f.left \in Nat /\ f.cap \in Nat \ {0} /\ Size \in Nat
  BY <1>1, CallData, FieldTypes, CapacitiesAssumption, Sizes DEF FrameData, SafeInv
<1>3. Kept => f.cap <= capacity /\ Size = f.cap + f.left /\ Adders = {}
  <2> SUFFICES ASSUME Kept PROVE f.cap <= capacity /\ Size = f.cap + f.left /\ Adders = {}
    OBVIOUS
  <2>1. Sound(f, Present, Size, order, entry, capacity)
    BY CallSound
  <2>2. Mild
    BY DEF Kept, Mild
  <2>3. Adders = {}
    BY <1>1, <2>2 DEF SafeInv, IInv, MildInv, ShrinkOK
  <2> QED BY <1>1, <2>1, <2>3 DEF Sound
<1>4. CASE More(f) /\ Present # {}
  <2>1. Choosing(c, f) /\ UNCHANGED cache
    BY <1>1, <1>4 DEF ShrinkOn, cache
  <2>2. Searcher(f)
    BY <1>1, <1>2, <1>4, CallData DEF Searcher, More, Puts, SafeInv
  <2> HIDE DEF f
  <2>3. PICK g : Goes(c, g) /\ Searching(f, g)
    BY <1>4, <2>1, <2>2, ChoosingData DEF SafeInv, TInv
  <2>4. Kept => Sound(g, Present, Size, order, entry, capacity)
    BY <1>1, <1>3, <2>3, SearchingSound DEF Puts
  <2> QED BY <1>1, <2>1, <2>3, <2>4, SameCacheS DEF Kept
<1>5. CASE ~(More(f) /\ Present # {})
  <2>1. capacity' = f.cap /\ Goes(c, Idle)
    BY <1>5 DEF ShrinkOn, Returns
  <2>2. Kept => Size = f.cap
    <3>1. CASE Present = {}
      <4>1. Size = 0
        BY <3>1, FS_EmptySet DEF Size
      <4> QED BY <1>2, <1>3, <4>1
    <3>2. CASE ~More(f)
      BY <1>2, <1>3, <3>2 DEF More
    <3> QED BY <1>5, <3>1, <3>2
  <2> HIDE DEF f
  <2>3. \A d \in Callers :
          Sound(call'[d], Present, Size, order, entry, capacity') \/ call'[d] = call[d]
    BY <2>1, IdleSound DEF SafeInv, IInv, Typed, CallOK, Goes
  <2>4. Size <= capacity' \/ ~Kept
    BY <1>2, <2>1, <2>2
  <2>5. Kept' <=> Kept
    BY <1>1 DEF Kept
  <2> QED BY <1>1, <1>2, <1>3, <2>1, <2>3, <2>4, <2>5, CapacityS
<1> QED BY <1>4, <1>5

LEMMA LookS ==
  ASSUME SafeInv, NEW c \in Callers, NEW k \in Keys,
         Subscript(c, k) \/ Get(c, k) \/ Delete(c, k)
  PROVE  SInv'
<1>1. UNCHANGED <<capacity, now, call, fault>> /\ call[c] = Idle /\ (Kept' => Kept)
  BY DEF Subscript, Get, Delete, cache, CanCall, Kept
<1>2. CASE UNCHANGED <<entry, order>>
  BY <1>1, <1>2, SameAllS DEF cache
<1>3. CASE k \in Present /\ entry' = [entry EXCEPT ![k] = Visited(@)] /\ UNCHANGED order
  <2>1. Present' = Present
    BY <1>1, <1>3, VisitEntry DEF SafeInv, TInv
  <2>2. \A j \in Present : entry'[j].value = entry[j].value
    BY <1>3, VisitValue
  <2> QED BY <1>1, <1>3, <2>1, <2>2, StayS
<1>4. CASE breach' = breach \cup Changes(c)
  BY <1>1, <1>4, IdleChangesS
<1> QED BY <1>2, <1>3, <1>4 DEF Subscript, Get, Delete, cache

LEMMA PopS ==
  ASSUME SafeInv, NEW c \in Callers, NEW k, PopBegin(c, k) \/ PopEnd(c) PROVE SInv'
<1>1. CASE PopBegin(c, k) /\ k \in Present
  <2>1. ~Kept'
    BY <1>1 DEF PopBegin, Kept
  <2> QED BY <2>1 DEF SInv
<1>2. CASE PopBegin(c, k) /\ k \notin Present
  BY <1>2, SameAllS DEF PopBegin, Kept
<1>3. CASE PopEnd(c)
  <2>1. breach' = breach \cup Changes(c) /\ Goes(c, Idle) /\ fault' = fault
    BY <1>3 DEF PopEnd, Returns
  <2> QED BY <2>1, IdleSound, ChangesS
<1> QED BY <1>1, <1>2, <1>3

LEMMA AllS ==
  ASSUME SafeInv, NEW c \in Callers, ValuesOf(c) \/ Clear(c) PROVE SInv'
<1>1. CASE ValuesOf(c)
  <2>1. /\ UNCHANGED <<order, capacity, call, breach, fault>>
        /\ entry' = [k \in Keys |-> IF k \in Present THEN Visited(entry[k]) ELSE NULL]
    BY <1>1 DEF ValuesOf
  <2>2. \A k \in Present : Visited(entry[k]) # NULL /\ Visited(entry[k]).value = entry[k].value
    <3>1. \A k \in Present : Visited(entry[k]) # NULL
      BY EntryType, NotNull DEF SafeInv, TInv, ScalarsOK
    <3> QED BY <3>1 DEF Visited, Entry
  <2> HIDE DEF Visited
  <2>3. Present' = Present /\ \A k \in Present : entry'[k].value = entry[k].value
    BY <2>1, <2>2 DEF Present
  <2> QED BY <2>1, <2>3, StayS DEF Kept
<1>2. CASE Clear(c) /\ Present = {}
  <2>1. entry' = [k \in Keys |-> NULL] /\ UNCHANGED <<capacity, call, fault, breach>> /\ order' = <<>>
    BY <1>2 DEF Clear
  <2>2. Present' = {} /\ order = <<>>
    <3>1. Size = 0
      BY <1>2, FS_EmptySet DEF Size
    <3>2. order = <<>>
      BY <3>1, EmptySeq DEF SafeInv, TInv, OrderOK
    <3> QED BY <2>1, <3>2 DEF Present
  <2> QED BY <1>2, <2>1, <2>2, StayS DEF Kept
<1>3. CASE Clear(c) /\ Present # {}
  <2>1. breach' = breach \cup Changes(c) /\ UNCHANGED <<call, fault>> /\ call[c] = Idle
    BY <1>3 DEF Clear, CanCall
  <2> QED BY <2>1, IdleChangesS
<1> QED BY <1>1, <1>2, <1>3

\* The frames of popitem() while the key they hold is there.
LEMMA PopItemSound ==
  ASSUME NEW at \in {"first", "pair"}, NEW v, NEW P, NEW k \in P, NEW n, NEW o, NEW e, NEW m,
         at = "pair" => e[k].value = v
  PROVE  Sound(Frame("popitem", at, k, v, <<>>), P, n, o, e, m)
<1> DEFINE f == Frame("popitem", at, k, v, <<>>)
<1>1. f.op = "popitem" /\ f.at = at /\ f.key = k /\ f.val = v
  BY DEF Frame
<1> HIDE DEF f
<1>2. Sound(f, P, n, o, e, m)
  BY <1>1 DEF Sound, Puts
<1> QED BY <1>2 DEF f

LEMMA PopItemS ==
  ASSUME SafeInv, NEW c \in Callers, PopItemBegin(c) \/ PopItemFound(c) \/ PopItemEnd(c)
  PROVE  SInv'
<1>1. CASE PopItemBegin(c)
  <2>1. CASE Present = {}
    BY <1>1, <2>1, SameAllS DEF PopItemBegin, Kept
  <2>2. CASE Present # {}
    <3> DEFINE k == Head(order)
    <3>1. k \in Present
      BY <2>2, HeadPresent DEF SafeInv, TInv
    <3>2. Goes(c, Frame("popitem", "first", k, NULL, <<>>)) /\ UNCHANGED <<cache, now, breach, fault>>
      BY <1>1, <2>2 DEF PopItemBegin
    <3> HIDE DEF k
    <3>3. Sound(Frame("popitem", "first", k, NULL, <<>>), Present, Size, order, entry, capacity)
      BY <3>1, PopItemSound
    <3> QED BY <3>2, <3>3, SameCacheS DEF Kept
  <2> QED BY <2>1, <2>2
<1>2. CASE PopItemFound(c)
  <2> DEFINE k == call[c].key
             v == entry[k].value
  <2>1. call[c].at = "first" /\ UNCHANGED <<order, capacity, now, breach>>
    BY <1>2 DEF PopItemFound, Inside
  <2>2. Kept => k \in Present
    BY <2>1, CallSound DEF Sound
  <2>3. CASE k \notin Present
    <3>1. ~Kept'
      BY <2>1, <2>2, <2>3 DEF Kept
    <3> QED BY <3>1 DEF SInv
  <2>4. CASE k \in Present
    <3>1. /\ entry' = [entry EXCEPT ![k] = Visited(@)] /\ UNCHANGED fault
          /\ Goes(c, Frame("popitem", "pair", k, v, <<>>))
      BY <1>2, <2>4 DEF PopItemFound
    <3>2. Present' = Present
      BY <2>1, <2>4, <3>1, VisitEntry DEF SafeInv, TInv
    <3>3. \A j \in Present : entry'[j].value = entry[j].value
      BY <3>1, VisitValue
    <3>4. entry'[k].value = v
      BY <2>4, <3>3
    <3> HIDE DEF k, v
    <3>5. Sound(Frame("popitem", "pair", k, v, <<>>), Present, Size, order, entry', capacity)
      BY <2>4, <3>4, PopItemSound
    <3> QED BY <2>1, <3>1, <3>2, <3>3, <3>5, SameKeysS DEF Kept
  <2> QED BY <2>3, <2>4
<1>3. CASE PopItemEnd(c)
  <2>1. call[c].at = "pair" /\ Goes(c, Idle) /\ fault' = fault
    BY <1>3 DEF PopItemEnd, Returns, Inside
  <2>2. CASE breach' = breach \cup Changes(c)
    BY <2>1, <2>2, IdleSound, ChangesS
  <2>3. CASE breach' = IF call[c].key \in Present THEN breach \cup {"raised"} ELSE breach
    <3>1. Kept => call[c].key \in Present
      BY <2>1, CallSound DEF Sound
    <3>2. ~Kept'
      BY <2>3, <3>1 DEF Kept
    <3> QED BY <3>2 DEF SInv
  <2> QED BY <1>3, <2>2, <2>3 DEF PopItemEnd
<1> QED BY <1>1, <1>2, <1>3

-----------------------------------------------------------------------------

LEMMA InitS == Init => SInv
  BY IdleSound DEF Init, SInv

LEMMA StepS == SafeInv /\ [Next]_vars => SInv'
<1> SUFFICES ASSUME SafeInv, [Next]_vars PROVE SInv' OBVIOUS
<1>1. CASE UNCHANGED vars
  BY <1>1, StutterS
<1>2. CASE Tick
  BY <1>2, TickS
<1>3. ASSUME NEW c \in Callers, Enter(c) PROVE SInv'
  <2>1. ASSUME NEW k \in Keys, NEW v \in Values, PutBegin(c, k, v) PROVE SInv'
    BY <2>1, PutBeginS
  <2>2. ASSUME NEW k \in Keys, Subscript(c, k) \/ Get(c, k) \/ Delete(c, k) \/ PopBegin(c, k)
        PROVE SInv'
    BY <2>2, LookS, PopS
  <2>3. ASSUME NEW k \in Keys, NEW op \in {"setdefault", "setnx"}, NEW v \in Values \cup {NULL},
               PresentDefault(c, op, k) \/ AbsentDefault(c, op, k, v)
        PROVE SInv'
    BY <2>3, DefaultS
  <2>4. ASSUME NEW u \in Updates, Update(c, u[1], u[2]) PROVE SInv'
    BY <2>4, UpdateS
  <2>5. ASSUME NEW op \in {"evict", "next_evict_key"}, EvictBegin(c, op) PROVE SInv'
    BY <2>5, EvictBeginS
  <2>6. ASSUME NEW n \in Capacities, SetCapacity(c, n) \/ Reinit(c, n) PROVE SInv'
    BY <2>6, SetCapacityS, ReinitS
  <2>7. CASE ValuesOf(c) \/ Clear(c)
    BY <2>7, AllS
  <2>8. CASE PopItemBegin(c)
    BY <2>8, PopItemS
  <2>9. NULL \in Values \cup {NULL} /\ "setnx" \in {"setdefault", "setnx"}
    OBVIOUS
  <2> QED BY <1>3, <2>1, <2>2, <2>3, <2>4, <2>5, <2>6, <2>7, <2>8, <2>9 DEF Enter
<1>4. ASSUME NEW c \in Callers, GoOn(c) PROVE SInv'
  BY <1>4, ReplaceS, MakeRoomS, InsertS, ListKeysS, ListNoMemoryS, SampleS, SampleEndS,
     EvictS, ShrinkOnS, FailsS, PopItemS, PopS DEF GoOn
<1> QED BY <1>1, <1>2, <1>3, <1>4 DEF Next

LEMMA InitSafe == Init => SafeInv
  BY InitIInv, InitT, InitS DEF SafeInv

LEMMA StepSafe == SafeInv /\ [Next]_vars => SafeInv'
<1> SUFFICES ASSUME SafeInv, [Next]_vars PROVE SafeInv' OBVIOUS
<1>1. IInv' /\ TInv' /\ SInv'
  BY StepIInv, StepT, StepS DEF SafeInv
<1> QED BY <1>1 DEF SafeInv

\* Clients that keep to the contract never make the sampling of a large cache
\* read beyond the list of keys or the weight of an entry that is gone, nor
\* evict() or popitem() use a freed key: for any number of buckets and of keys.
THEOREM MemorySafe == Spec => []NoFault
<1>1. SafeInv => NoFault
  <2>1. ASSUME SInv PROVE NoFault
    BY <2>1 DEF SInv, NoFault
  <2> QED BY <2>1 DEF SafeInv
<1> QED BY <1>1, InitSafe, StepSafe, PTL DEF Spec
=============================================================================
