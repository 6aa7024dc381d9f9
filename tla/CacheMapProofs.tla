--------------------------- MODULE CacheMapProofs ---------------------------
(***************************************************************************)
(* Theorems about CacheMap, for every set of keys, callers and capacities. *)
(***************************************************************************)
EXTENDS CacheMap, FiniteSetTheorems, TLAPS

(* The invariant *)

Choose == {"list", "sample", "victim"}
Fields == {"op", "at", "key", "val", "todo", "victim", "left", "cap", "scan"}

\* Where a frame is says which methods it can be inside; set_capacity() is
\* inside its loop, with an eviction left whenever it looks for a victim.
FrameOK(f) ==
  /\ DOMAIN f = Fields
  /\ f.at \in {"lookup", "insert"} => f.op \in Puts
  /\ f.at \in Choose => f.op \in Puts \cup {"evict", "next_evict_key", "set_capacity"}
  /\ f.at = "victim" => f.op # "next_evict_key"
  /\ f.at \in {"first", "pair"} => f.op = "popitem"
  /\ f.at = "pop" => f.op = "pop"
  /\ f.at = "again" => f.op = "set_capacity"
  /\ f.op = "set_capacity" => /\ f.cap \in Nat /\ f.left \in Int
                              /\ f.at \in Choose \cup {"again"}

CallOK == call = [c \in Callers |-> call[c]] /\ \A c \in Callers : FrameOK(call[c])

Typed == DOMAIN entry = Keys /\ capacity \in Nat /\ CallOK

\* Of clients that overlap as they like.
Mild == breach \cap {"shrink", "init", "raised"} = {}

\* set_capacity() has enough evictions left, and nobody is about to add.
ShrinkOK(f) ==
  /\ Adders = {}
  /\ Size <= f.cap + f.left
  /\ f.at \in Choose => f.left >= 1

MildInv == Mild => /\ Overshoot
                   /\ \A c \in Shrinkers : ShrinkOK(call[c])

\* Of clients that keep to the contract: there is room for what is about to be
\* inserted.
KeptInv == Kept => /\ Size <= capacity
                   /\ Inserters # {} => Size < capacity

IInv == Typed /\ MildInv /\ KeptInv

-----------------------------------------------------------------------------
(* Frames *)

LEMMA NewFrame ==
  ASSUME NEW op, NEW at, NEW k, NEW v, NEW todo,
         \/ op \in Puts /\ at = "lookup"
         \/ op = "popitem" /\ at = "first"
         \/ op = "popitem" /\ at = "pair"
         \/ op = "pop" /\ at = "pop"
         \/ op = "idle" /\ at = "idle"
         \/ op \in {"evict", "next_evict_key"} /\ at = "evict"
  PROVE  FrameOK(Frame(op, at, k, v, todo))
  BY DEF FrameOK, Frame, Fields, Choose, Puts

LEMMA IdleFrame == FrameOK(Idle) /\ Idle.at = "idle" /\ Idle.op = "idle"
  BY DEF FrameOK, Idle, Frame, Fields, Choose, Puts

-----------------------------------------------------------------------------
(* Sizes *)

LEMMA Sizes ==
  /\ IsFiniteSet(Present) /\ Size \in Nat
  /\ IsFiniteSet(Inserters) /\ Cardinality(Inserters) \in Nat
  /\ Cardinality(Callers) \in Nat
<1>1. Present \in SUBSET Keys /\ Inserters \in SUBSET Callers
  BY DEF Present, Inserters
<1>2. IsFiniteSet(Present) /\ IsFiniteSet(Inserters)
  BY <1>1, FiniteAssumption, FS_Subset
<1> QED BY <1>2, FiniteAssumption, FS_CardinalityType DEF Size

LEMMA Fewer ==
  ASSUME NEW S, IsFiniteSet(S), NEW T, T \subseteq S
  PROVE  Cardinality(T) \in Nat /\ Cardinality(S) \in Nat /\ Cardinality(T) <= Cardinality(S)
  BY FS_Subset, FS_CardinalityType

\* A frame that goes from f to g gets no closer to an insertion or an eviction.
NoMore(f, g) ==
  /\ g.at = "insert" => f.at = "insert"
  /\ g.op \in Puts /\ g.at \in Fragile => f.op \in Puts /\ f.at \in Fragile
  /\ g.op = "set_capacity" => /\ f.op = "set_capacity"
                              /\ g.cap = f.cap /\ g.left = f.left
                              /\ g.at \in Choose => f.at \in Choose

\* A step that adds no entry and brings no frame closer to doing so.
LEMMA Harmless ==
  ASSUME IInv, CallOK', DOMAIN entry' = Keys, Present' \subseteq Present,
         capacity' = capacity, breach \subseteq breach',
         \A c \in Callers : NoMore(call[c], call'[c])
  PROVE  IInv'
<1>1. /\ Size \in Nat /\ Size' \in Nat /\ Size' <= Size
      /\ Cardinality(Inserters) \in Nat /\ Cardinality(Inserters') \in Nat
      /\ Cardinality(Inserters') <= Cardinality(Inserters)
      /\ Inserters' \subseteq Inserters
      /\ Cardinality(Callers) \in Nat
  <2>1. Inserters' \subseteq Inserters
    BY DEF Inserters, NoMore
  <2> QED BY <2>1, Sizes, Fewer DEF Size
<1>2. Adders' \subseteq Adders /\ Shrinkers' \subseteq Shrinkers
  BY DEF Adders, Shrinkers, NoMore, Puts
<1>3. (Mild' => Mild) /\ (Kept' => Kept)
  BY DEF Mild, Kept
<1>4. Typed'
  BY DEF IInv, Typed
<1>5. MildInv'
  <2> SUFFICES ASSUME Mild' PROVE Overshoot' /\ \A c \in Shrinkers' : ShrinkOK(call[c])'
    BY DEF MildInv
  <2>1. Overshoot'
    <3>1. Size + Cardinality(Inserters) <= capacity + Cardinality(Callers) - 1
      BY <1>3 DEF IInv, MildInv, Overshoot, Mild
    <3> QED BY <1>1, <3>1 DEF IInv, Typed, Overshoot
  <2>2. ASSUME NEW c \in Shrinkers' PROVE ShrinkOK(call[c])'
    <3>1. c \in Callers /\ c \in Shrinkers /\ ShrinkOK(call[c])
      BY <1>2, <1>3 DEF IInv, MildInv, Shrinkers
    <3>2. /\ call'[c].cap = call[c].cap /\ call'[c].left = call[c].left
          /\ call'[c].at \in Choose => call[c].at \in Choose
          /\ call[c].cap \in Nat /\ call[c].left \in Int
      BY <3>1 DEF Shrinkers, NoMore, IInv, Typed, CallOK, FrameOK
    <3> QED BY <1>1, <1>2, <3>1, <3>2 DEF ShrinkOK
  <2> QED BY <2>1, <2>2
<1>6. KeptInv'
  BY <1>1, <1>3 DEF IInv, Typed, KeptInv
<1> QED BY <1>4, <1>5, <1>6 DEF IInv

\* The same of a step of one frame, which becomes g.
LEMMA HarmlessFrame ==
  ASSUME IInv, NEW c \in Callers, NEW g, Goes(c, g), FrameOK(g), NoMore(call[c], g),
         DOMAIN entry' = Keys, Present' \subseteq Present, capacity' = capacity,
         breach \subseteq breach'
  PROVE  IInv'
<1>1. CallOK'
  BY DEF IInv, Typed, CallOK, Goes
<1>2. \A d \in Callers : NoMore(call[d], call'[d])
  BY DEF IInv, Typed, CallOK, Goes, NoMore
<1> QED BY <1>1, <1>2, Harmless

LEMMA HarmlessStay ==
  ASSUME IInv, UNCHANGED call, DOMAIN entry' = Keys, Present' \subseteq Present,
         capacity' = capacity, breach \subseteq breach'
  PROVE  IInv'
<1>1. CallOK' /\ \A d \in Callers : NoMore(call[d], call'[d])
  BY DEF IInv, Typed, CallOK, NoMore
<1> QED BY <1>1, Harmless

LEMMA HarmlessReturn ==
  ASSUME IInv, NEW c \in Callers, Returns(c), DOMAIN entry' = Keys,
         Present' \subseteq Present, capacity' = capacity, breach \subseteq breach'
  PROVE  IInv'
<1>1. NoMore(call[c], Idle)
  BY IdleFrame DEF NoMore, Puts
<1> QED BY <1>1, IdleFrame, HarmlessFrame DEF Returns

-----------------------------------------------------------------------------
(* Steps that bring no entry closer *)

LEMMA SameEntries ==
  ASSUME IInv, UNCHANGED entry
  PROVE  DOMAIN entry' = Keys /\ Present' = Present
  BY DEF IInv, Typed, Present

LEMMA OneEntry ==
  ASSUME IInv, NEW k, NEW e, entry' = [entry EXCEPT ![k] = e]
  PROVE  /\ DOMAIN entry' = Keys
         /\ Present' \subseteq Present \cup {k}
         /\ k \in Present => Present' \subseteq Present
  BY DEF IInv, Typed, Present

LEMMA Dropped ==
  ASSUME IInv, NEW k, Drop(k)
  PROVE  DOMAIN entry' = Keys /\ Present' = Present \ {k}
  BY DEF IInv, Typed, Present, Drop

\* The frame of a call that has chosen a victim, or begins to.
Chooses(c, f, g) ==
  /\ Goes(c, g) /\ FrameOK(g)
  /\ \/ g = Idle /\ f.op = "next_evict_key"
     \/ g.at \in Choose /\ g.op = f.op /\ g.cap = f.cap /\ g.left = f.left

LEMMA ChosenStep ==
  ASSUME NEW c \in Callers, NEW f, DOMAIN f = Fields, NEW k, Chosen(c, f, k),
         f.op \in Puts \cup {"evict", "next_evict_key", "set_capacity"},
         f.op = "set_capacity" => f.cap \in Nat /\ f.left \in Int
  PROVE  \E g : Chooses(c, f, g)
<1>1. CASE f.op = "next_evict_key"
  BY <1>1, IdleFrame DEF Chosen, Chooses, Returns
<1>2. CASE f.op # "next_evict_key"
  <2> DEFINE g == [f EXCEPT !.at = "victim", !.victim = k, !.scan = NoScan]
  <2>1. Goes(c, g)
    BY <1>2 DEF Chosen
  <2>2. "victim" \in Choose
    BY DEF Choose
  <2>3. FrameOK(g) /\ g.at = "victim" /\ g.op = f.op /\ g.cap = f.cap /\ g.left = f.left
    BY <1>2, <2>2 DEF FrameOK, Fields, Choose, Puts
  <2> HIDE DEF g
  <2> QED BY <2>1, <2>2, <2>3 DEF Chooses
<1> QED BY <1>1, <1>2

LEMMA ChoosingStep ==
  ASSUME NEW c \in Callers, NEW f, DOMAIN f = Fields, Choosing(c, f),
         f.op \in Puts \cup {"evict", "next_evict_key", "set_capacity"},
         f.op = "set_capacity" => f.cap \in Nat /\ f.left \in Int
  PROVE  \E g : Chooses(c, f, g)
<1>1. CASE Size < BucketSize
  <2>1. Chosen(c, f, NextEvictKey)
    BY <1>1 DEF Choosing
  <2> QED BY <2>1, ChosenStep
<1>2. CASE ~(Size < BucketSize)
  <2> DEFINE s == Scan(now, Size, <<>>, 0, 0, NULL, NULL)
             g == [f EXCEPT !.at = "list", !.scan = s]
  <2>1. Goes(c, g)
    BY <1>2 DEF Choosing
  <2>2. "list" \in Choose
    BY DEF Choose
  <2> HIDE DEF s
  <2>3. FrameOK(g) /\ g.at = "list" /\ g.op = f.op /\ g.cap = f.cap /\ g.left = f.left
    BY <2>2 DEF FrameOK, Fields, Choose, Puts
  <2> HIDE DEF g
  <2> QED BY <2>1, <2>2, <2>3 DEF Chooses
<1> QED BY <1>1, <1>2

LEMMA FrameOf ==
  ASSUME IInv, NEW c \in Callers PROVE FrameOK(call[c]) /\ DOMAIN call[c] = Fields
  BY DEF IInv, Typed, CallOK, FrameOK

LEMMA TickHarmless == IInv /\ Tick => IInv'
  BY SameEntries, HarmlessStay DEF Tick, cache

LEMMA ListKeysHarmless ==
  ASSUME IInv, NEW c \in Callers, ListKeys(c) PROVE IInv'
<1> DEFINE g == [call[c] EXCEPT !.at = "sample", !.scan.list = order]
<1>1. call[c].at = "list" /\ Goes(c, g) /\ UNCHANGED <<entry, capacity, breach>>
  BY DEF ListKeys, Inside, cache
<1>2. /\ FrameOK(g) /\ g.at = "sample" /\ g.op = call[c].op
      /\ g.cap = call[c].cap /\ g.left = call[c].left
  BY <1>1, FrameOf DEF FrameOK, Fields, Choose, Puts
<1> HIDE DEF g
<1>3. NoMore(call[c], g)
  BY <1>1, <1>2 DEF NoMore, Fragile, Choose
<1> QED BY <1>1, <1>2, <1>3, SameEntries, HarmlessFrame

\* Sampling goes on, crashes, or ends with a victim.
LEMMA SampleHarmless ==
  ASSUME IInv, NEW c \in Callers, Sample(c) \/ SampleEnd(c) PROVE IInv'
<1>1. call[c].at = "sample" /\ UNCHANGED <<entry, capacity>> /\ breach \subseteq breach'
  BY Zenon DEF Sample, SampleEnd, Sampled, Inside, cache, Crash
<1>2. CASE UNCHANGED call
  BY <1>1, <1>2, SameEntries, HarmlessStay
<1>3. CASE \E s : Goes(c, [call[c] EXCEPT !.scan = s])
  <2>1. PICK s : Goes(c, [call[c] EXCEPT !.scan = s])
    BY <1>3
  <2> DEFINE g == [call[c] EXCEPT !.scan = s]
  <2>2. /\ FrameOK(g) /\ g.at = "sample" /\ g.op = call[c].op
        /\ g.cap = call[c].cap /\ g.left = call[c].left
    BY <1>1, FrameOf DEF FrameOK, Fields, Choose, Puts
  <2>3. Goes(c, g)
    BY <2>1
  <2> HIDE DEF g
  <2>4. NoMore(call[c], g)
    BY <1>1, <2>2 DEF NoMore, Fragile, Choose
  <2> QED BY <1>1, <2>2, <2>3, <2>4, SameEntries, HarmlessFrame
<1>4. CASE \E k : Chosen(c, call[c], k)
  <2>1. PICK k : Chosen(c, call[c], k)
    BY <1>4
  <2>2. PICK g : Chooses(c, call[c], g)
    <3>1. /\ call[c].op \in Puts \cup {"evict", "next_evict_key", "set_capacity"}
          /\ call[c].op = "set_capacity" => call[c].cap \in Nat /\ call[c].left \in Int
      BY <1>1, FrameOf DEF FrameOK, Choose
    <3> QED BY <2>1, <3>1, FrameOf, ChosenStep
  <2>3. NoMore(call[c], g)
    BY <1>1, <2>2, IdleFrame DEF NoMore, Chooses, Fragile, Choose, Puts
  <2> QED BY <1>1, <2>2, <2>3, SameEntries, HarmlessFrame DEF Chooses
<1> QED BY Zenon, <1>2, <1>3, <1>4 DEF Sample, SampleEnd, Sampled, Crash

LEMMA EvictBeginHarmless ==
  ASSUME IInv, NEW c \in Callers, NEW op \in {"evict", "next_evict_key"}, EvictBegin(c, op)
  PROVE  IInv'
<1> DEFINE f == Frame(op, "evict", NULL, NULL, <<>>)
<1>1. UNCHANGED <<entry, capacity, breach>>
  BY DEF EvictBegin, cache
<1>2. CASE UNCHANGED call
  BY <1>1, <1>2, SameEntries, HarmlessStay
<1>3. CASE Choosing(c, f)
  <2>1. /\ DOMAIN f = Fields /\ f.op = op
    BY DEF Frame, Fields
  <2> HIDE DEF f
  <2>2. PICK g : Chooses(c, f, g)
    BY <1>3, <2>1, ChoosingStep
  <2>3. NoMore(call[c], g)
    BY <2>1, <2>2, IdleFrame DEF NoMore, Chooses, Puts, Choose
  <2> QED BY <1>1, <2>2, <2>3, SameEntries, HarmlessFrame DEF Chooses
<1> QED BY <1>2, <1>3 DEF EvictBegin

LEMMA FailsHarmless ==
  ASSUME IInv, NEW c \in Callers, Fails(c) PROVE IInv'
  BY SameEntries, HarmlessReturn DEF Fails, cache

\* A frame that begins to look a key up.
LEMMA LookupFrame ==
  ASSUME NEW f, NEW op \in Puts, NEW k, NEW v, NEW todo
  PROVE  LET g == Frame(op, "lookup", k, v, todo) IN FrameOK(g) /\ NoMore(f, g)
<1>1. FrameOK(Frame(op, "lookup", k, v, todo))
  BY NewFrame
<1>2. NoMore(f, Frame(op, "lookup", k, v, todo))
  BY DEF NoMore, Frame, Fragile, Puts
<1> QED BY <1>1, <1>2

LEMMA PutBeginHarmless ==
  ASSUME IInv, NEW c \in Callers, NEW k, NEW v, PutBegin(c, k, v) PROVE IInv'
<1> DEFINE g == Frame("put", "lookup", k, v, <<>>)
<1>1. FrameOK(g) /\ NoMore(call[c], g)
  BY LookupFrame DEF Puts
<1>2. Goes(c, g) /\ UNCHANGED <<entry, capacity, breach>>
  BY DEF PutBegin, cache
<1> HIDE DEF g
<1> QED BY <1>1, <1>2, SameEntries, HarmlessFrame

\* What follows a put is another lookup, or nothing.
LEMMA PutDoneStep ==
  ASSUME NEW c \in Callers, NEW f, PutDone(c, f)
  PROVE  \E g : /\ Goes(c, g) /\ FrameOK(g) /\ NoMore(call[c], g)
                /\ g.at \notin Fragile \cup {"pop"} /\ g.op # "set_capacity"
<1>1. CASE f.todo # <<>>
  <2> DEFINE g == Frame("update", "lookup", f.todo[1][1], f.todo[1][2], Tail(f.todo))
  <2>1. Goes(c, g)
    BY <1>1 DEF PutDone, Updating
  <2>2. FrameOK(g) /\ NoMore(call[c], g)
    BY LookupFrame DEF Puts
  <2>3. g.at \notin Fragile \cup {"pop"} /\ g.op # "set_capacity"
    BY DEF Frame, Fragile
  <2> HIDE DEF g
  <2> QED BY <2>1, <2>2, <2>3
<1>2. CASE ~(f.todo # <<>>)
  <2>1. Goes(c, Idle)
    BY <1>2 DEF PutDone, Returns
  <2> QED BY <2>1, IdleFrame DEF NoMore, Puts, Fragile
<1> QED BY <1>1, <1>2

LEMMA ReplaceHarmless ==
  ASSUME IInv, NEW c \in Callers, Replace(c) PROVE IInv'
<1>1. /\ call[c].key \in Present /\ PutDone(c, call[c]) /\ UNCHANGED capacity
      /\ breach \subseteq breach'
      /\ entry' = [entry EXCEPT ![call[c].key].value = call[c].val]
  BY DEF Replace
<1>2. DOMAIN entry' = Keys /\ Present' \subseteq Present
  <2> DEFINE e == [entry[call[c].key] EXCEPT !.value = call[c].val]
  <2>1. entry' = [entry EXCEPT ![call[c].key] = e]
    BY <1>1
  <2> HIDE DEF e
  <2> QED BY <1>1, <2>1, OneEntry
<1>3. PICK g : Goes(c, g) /\ FrameOK(g) /\ NoMore(call[c], g)
  BY <1>1, PutDoneStep
<1> QED BY <1>1, <1>2, <1>3, HarmlessFrame

LEMMA UpdateHarmless ==
  ASSUME IInv, NEW c \in Callers, NEW arg, NEW kw, Update(c, arg, kw) PROVE IInv'
<1>1. UNCHANGED <<entry, capacity, breach>>
  BY DEF Update, cache
<1>2. CASE UNCHANGED call
  BY <1>1, <1>2, SameEntries, HarmlessStay
<1>3. CASE \E todo : Goes(c, Updating(todo))
  <2>1. PICK g : Goes(c, g) /\ FrameOK(g) /\ NoMore(call[c], g)
    BY <1>3, LookupFrame DEF Updating, Puts
  <2> QED BY <1>1, <2>1, SameEntries, HarmlessFrame
<1> QED BY <1>2, <1>3 DEF Update

LEMMA DefaultHarmless ==
  ASSUME IInv, NEW c \in Callers, NEW op \in {"setdefault", "setnx"}, NEW k, NEW v,
         PresentDefault(c, op, k) \/ AbsentDefault(c, op, k, v)
  PROVE  IInv'
<1>1. CASE PresentDefault(c, op, k)
  <2>1. /\ k \in Present /\ entry' = [entry EXCEPT ![k] = Visited(entry[k])]
        /\ UNCHANGED <<capacity, breach, call>>
    BY <1>1 DEF PresentDefault
  <2> QED BY <2>1, OneEntry, HarmlessStay
<1>2. CASE AbsentDefault(c, op, k, v)
  <2>1. UNCHANGED <<entry, capacity, breach>>
    BY <1>2 DEF AbsentDefault, cache
  <2>2. CASE v = NULL
    BY <1>2, <2>1, <2>2, SameEntries, HarmlessStay DEF AbsentDefault
  <2>3. CASE v # NULL
    <3> DEFINE g == Frame(op, "lookup", k, v, <<>>)
    <3>1. FrameOK(g) /\ NoMore(call[c], g)
      BY LookupFrame DEF Puts
    <3>2. Goes(c, g)
      BY <1>2, <2>3 DEF AbsentDefault
    <3> HIDE DEF g
    <3> QED BY <2>1, <3>1, <3>2, SameEntries, HarmlessFrame
  <2> QED BY <2>2, <2>3
<1> QED BY <1>1, <1>2

\* Lookups and removals.
LEMMA LookHarmless ==
  ASSUME IInv, NEW c \in Callers, NEW k,
         Subscript(c, k) \/ Get(c, k) \/ Delete(c, k)
  PROVE  IInv'
<1>1. UNCHANGED <<capacity, call>> /\ breach \subseteq breach'
  BY DEF Subscript, Get, Delete, cache
<1>2. CASE UNCHANGED entry
  BY <1>1, <1>2, SameEntries, HarmlessStay
<1>3. CASE k \in Present /\ entry' = [entry EXCEPT ![k] = Visited(entry[k])]
  BY <1>1, <1>3, OneEntry, HarmlessStay
<1>4. CASE Drop(k)
  BY <1>1, <1>4, Dropped, HarmlessStay
<1> QED BY <1>2, <1>3, <1>4 DEF Subscript, Get, Delete, cache

LEMMA PopHarmless ==
  ASSUME IInv, NEW c \in Callers, NEW k, PopBegin(c, k) \/ PopEnd(c) PROVE IInv'
<1>1. CASE PopBegin(c, k)
  <2> DEFINE g == Frame("pop", "pop", k, NULL, <<>>)
  <2>1. UNCHANGED <<entry, capacity>> /\ breach \subseteq breach'
    BY <1>1 DEF PopBegin, cache
  <2>2. CASE UNCHANGED call
    BY <2>1, <2>2, SameEntries, HarmlessStay
  <2>3. CASE Goes(c, g)
    <3>1. FrameOK(g)
      BY NewFrame
    <3>2. NoMore(call[c], g)
      BY DEF NoMore, Frame, Puts
    <3> HIDE DEF g
    <3> QED BY <2>1, <2>3, <3>1, <3>2, SameEntries, HarmlessFrame
  <2> QED BY <1>1, <2>2, <2>3 DEF PopBegin
<1>2. CASE PopEnd(c)
  <2>1. /\ Returns(c) /\ UNCHANGED capacity /\ breach \subseteq breach'
        /\ Drop(call[c].key)
    BY <1>2 DEF PopEnd
  <2> QED BY <2>1, Dropped, HarmlessReturn
<1> QED BY <1>1, <1>2

LEMMA AllHarmless ==
  ASSUME IInv, NEW c \in Callers, ValuesOf(c) \/ Clear(c) PROVE IInv'
<1>1. UNCHANGED <<capacity, call>> /\ breach \subseteq breach'
  BY DEF ValuesOf, Clear
<1>2. DOMAIN entry' = Keys /\ Present' \subseteq Present
  BY DEF ValuesOf, Clear, Present
<1> QED BY <1>1, <1>2, HarmlessStay

LEMMA PopItemHarmless ==
  ASSUME IInv, NEW c \in Callers, PopItemBegin(c) \/ PopItemFound(c) \/ PopItemEnd(c)
  PROVE  IInv'
<1>1. ASSUME NEW at \in {"first", "pair"}, NEW k, NEW v
      PROVE  LET g == Frame("popitem", at, k, v, <<>>) IN FrameOK(g) /\ NoMore(call[c], g)
  <2>1. FrameOK(Frame("popitem", at, k, v, <<>>))
    BY NewFrame
  <2>2. NoMore(call[c], Frame("popitem", at, k, v, <<>>))
    BY DEF NoMore, Frame, Puts
  <2> QED BY <2>1, <2>2
<1>2. CASE PopItemBegin(c)
  <2>1. UNCHANGED <<entry, capacity, breach>>
    BY <1>2 DEF PopItemBegin, cache
  <2>2. CASE UNCHANGED call
    BY <2>1, <2>2, SameEntries, HarmlessStay
  <2>3. CASE Goes(c, Frame("popitem", "first", Head(order), NULL, <<>>))
    <3> DEFINE g == Frame("popitem", "first", Head(order), NULL, <<>>)
    <3>1. FrameOK(g) /\ NoMore(call[c], g) /\ Goes(c, g)
      BY <1>1, <2>3
    <3> HIDE DEF g
    <3> QED BY <2>1, <3>1, SameEntries, HarmlessFrame
  <2> QED BY <1>2, <2>2, <2>3 DEF PopItemBegin
<1>3. CASE PopItemFound(c)
  <2> DEFINE k == call[c].key
             g == Frame("popitem", "pair", k, entry[k].value, <<>>)
  <2>1. UNCHANGED <<capacity, breach>>
    BY <1>3 DEF PopItemFound
  <2>2. CASE UNCHANGED <<entry, call>>
    BY <2>1, <2>2, SameEntries, HarmlessStay
  <2>3. CASE k \in Present /\ entry' = [entry EXCEPT ![k] = Visited(entry[k])] /\ Goes(c, g)
    <3>1. FrameOK(g) /\ NoMore(call[c], g)
      BY <1>1
    <3> HIDE DEF g, k
    <3> QED BY <2>1, <2>3, <3>1, OneEntry, HarmlessFrame
  <2> QED BY <1>3, <2>2, <2>3 DEF PopItemFound
<1>4. CASE PopItemEnd(c)
  <2>1. Returns(c) /\ UNCHANGED capacity /\ breach \subseteq breach'
    BY <1>4 DEF PopItemEnd
  <2>2. CASE UNCHANGED entry
    BY <2>1, <2>2, SameEntries, HarmlessReturn
  <2>3. CASE Drop(call[c].key)
    BY <2>1, <2>3, Dropped, HarmlessReturn
  <2> QED BY <1>4, <2>2, <2>3 DEF PopItemEnd
<1> QED BY <1>2, <1>3, <1>4

-----------------------------------------------------------------------------
(* Steps that count *)

\* What becomes of the sets of frames when c goes on with g.
LEMMA FrameSets ==
  ASSUME IInv, NEW c \in Callers, NEW g, Goes(c, g), FrameOK(g)
  PROVE  /\ CallOK'
         /\ call'[c] = g /\ \A d \in Callers \ {c} : call'[d] = call[d]
         /\ Inserters' = IF g.at = "insert" THEN Inserters \cup {c} ELSE Inserters \ {c}
         /\ Adders' = IF g.op \in Puts /\ g.at \in Fragile
                      THEN Adders \cup {c} ELSE Adders \ {c}
         /\ Shrinkers' = IF g.op = "set_capacity" THEN Shrinkers \cup {c} ELSE Shrinkers \ {c}
<1>1. CallOK'
  BY DEF IInv, Typed, CallOK, Goes
<1>2. call'[c] = g /\ \A d \in Callers \ {c} : call'[d] = call[d]
  BY DEF IInv, Typed, CallOK, Goes
<1>3. Inserters' = IF g.at = "insert" THEN Inserters \cup {c} ELSE Inserters \ {c}
  BY <1>2 DEF Inserters
<1>4. Adders' = IF g.op \in Puts /\ g.at \in Fragile THEN Adders \cup {c} ELSE Adders \ {c}
  BY <1>2 DEF Adders, Puts
<1>5. Shrinkers' = IF g.op = "set_capacity" THEN Shrinkers \cup {c} ELSE Shrinkers \ {c}
  BY <1>2 DEF Shrinkers
<1> QED BY <1>1, <1>2, <1>3, <1>4, <1>5

\* A frame that is about to insert is not counted twice.
LEMMA OneMore ==
  ASSUME NEW c \in Callers
  PROVE  /\ Cardinality(Inserters \cup {c}) =
              IF c \in Inserters THEN Cardinality(Inserters) ELSE Cardinality(Inserters) + 1
         /\ Cardinality(Inserters \ {c}) =
              IF c \in Inserters THEN Cardinality(Inserters) - 1 ELSE Cardinality(Inserters)
         /\ c \notin Inserters => Cardinality(Inserters) <= Cardinality(Callers) - 1
         /\ Cardinality(Callers) >= 1
<1>1. /\ Cardinality(Inserters \cup {c}) =
           IF c \in Inserters THEN Cardinality(Inserters) ELSE Cardinality(Inserters) + 1
      /\ Cardinality(Inserters \ {c}) =
           IF c \in Inserters THEN Cardinality(Inserters) - 1 ELSE Cardinality(Inserters)
  BY Sizes, FS_AddElement, FS_RemoveElement
<1>2. IsFiniteSet(Callers \ {c}) /\ Cardinality(Callers \ {c}) = Cardinality(Callers) - 1
  BY FiniteAssumption, FS_RemoveElement
<1>3. Cardinality(Callers \ {c}) \in Nat
  BY <1>2, FS_CardinalityType
<1>4. c \notin Inserters => Inserters \subseteq Callers \ {c}
  BY DEF Inserters
<1>5. c \notin Inserters => Cardinality(Inserters) <= Cardinality(Callers \ {c})
  BY <1>2, <1>4, Fewer
<1> QED BY <1>1, <1>2, <1>3, <1>5, Sizes

LEMMA SomeCaller == ASSUME NEW c \in Callers PROVE Cardinality(Callers) \in Nat \ {0}
<1>1. Cardinality(Callers) >= 1 /\ Cardinality(Callers) \in Nat
  BY OneMore, Sizes
<1> QED BY <1>1

LEMMA MakeRoomIInv ==
  ASSUME IInv, NEW c \in Callers, MakeRoom(c) PROVE IInv'
<1>1. /\ call[c].at = "lookup" /\ call[c].op \in Puts /\ FrameOK(call[c])
      /\ UNCHANGED <<entry, capacity>>
      /\ breach' = IF Shrinkers # {} THEN breach \cup {"shrink"} ELSE breach
      /\ c \notin Inserters
  BY FrameOf DEF MakeRoom, Inside, cache, FrameOK, Inserters
<1>2. DOMAIN entry' = Keys /\ Size' = Size /\ Size \in Nat /\ capacity \in Nat
  BY <1>1, SameEntries, Sizes DEF Size, IInv, Typed
<1>3. Mild' => Mild /\ Shrinkers = {}
  BY <1>1 DEF Mild
<1>4. Kept' => Kept
  BY <1>1 DEF Kept
<1>5. CASE Full
  <2>1. PICK g : Chooses(c, call[c], g)
    <3>1. Choosing(c, call[c])
      BY <1>5 DEF MakeRoom
    <3> QED BY <1>1, <3>1, FrameOf, ChoosingStep DEF Puts
  <2>2. Goes(c, g) /\ FrameOK(g) /\ g.at # "insert" /\ g.op # "set_capacity"
    BY <1>1, <2>1, IdleFrame DEF Chooses, Choose, Puts
  <2>3. CallOK' /\ Inserters' = Inserters /\ Shrinkers' \subseteq Shrinkers
    BY <1>1, <2>2, FrameSets
  <2>4. MildInv'
    BY <1>1, <1>2, <1>3, <2>3 DEF IInv, MildInv, Overshoot
  <2>5. KeptInv'
    BY <1>1, <1>2, <1>4, <2>3 DEF IInv, KeptInv
  <2> QED BY <1>1, <1>2, <2>3, <2>4, <2>5 DEF IInv, Typed
<1>6. CASE ~Full
  <2>1. FrameOK(At(call[c], "insert")) /\ At(call[c], "insert").at = "insert"
        /\ At(call[c], "insert").op = call[c].op
    BY <1>1 DEF FrameOK, Fields, Choose, Puts, At
  <2>2. Goes(c, At(call[c], "insert"))
    BY <1>6 DEF MakeRoom
  <2>3. CallOK' /\ Inserters' = Inserters \cup {c} /\ Shrinkers' \subseteq Shrinkers
    BY <1>1, <2>1, <2>2, FrameSets DEF Puts
  <2>4. Size < capacity
    BY <1>2, <1>6 DEF Full
  <2>5. MildInv'
    <3>1. Size + Cardinality(Inserters \cup {c}) <= capacity + Cardinality(Callers) - 1
      BY <1>1, <1>2, <2>4, OneMore, Sizes
    <3> QED BY <1>1, <1>2, <1>3, <2>3, <3>1 DEF MildInv, Overshoot
  <2>6. KeptInv'
    BY <1>1, <1>2, <2>4 DEF KeptInv
  <2> QED BY <1>1, <1>2, <2>3, <2>5, <2>6 DEF IInv, Typed
<1> QED BY <1>5, <1>6

LEMMA InsertIInv ==
  ASSUME IInv, NEW c \in Callers, Insert(c) PROVE IInv'
<1>1. /\ call[c].at = "insert" /\ call[c].op \in Puts /\ FrameOK(call[c])
      /\ UNCHANGED capacity /\ breach' = breach \cup Changes(c) /\ c \in Inserters
      /\ c \in Adders
  BY FrameOf DEF Insert, Inside, FrameOK, Inserters, Adders, Puts, Fragile
<1>2. /\ DOMAIN entry' = Keys /\ Size \in Nat /\ Size' \in Nat /\ Size' <= Size + 1
      /\ capacity \in Nat
  <2>1. DOMAIN entry' = Keys /\ Present' \subseteq Present \cup {call[c].key}
    BY OneEntry DEF Insert
  <2>2. /\ IsFiniteSet(Present \cup {call[c].key})
        /\ Cardinality(Present \cup {call[c].key}) <= Cardinality(Present) + 1
    <3>1. IsFiniteSet(Present) /\ Cardinality(Present) \in Nat
      BY Sizes DEF Size
    <3> QED BY <3>1, FS_AddElement
  <2>3. Cardinality(Present') \in Nat
        /\ Cardinality(Present') <= Cardinality(Present \cup {call[c].key})
        /\ Cardinality(Present \cup {call[c].key}) \in Nat
    BY <2>1, <2>2, Fewer
  <2> QED BY <2>1, <2>2, <2>3, Sizes DEF Size, IInv, Typed
<1>3. PICK g : Goes(c, g) /\ FrameOK(g) /\ g.at \notin Fragile /\ g.op # "set_capacity"
  BY PutDoneStep DEF Insert
<1>4. CallOK' /\ Inserters' = Inserters \ {c} /\ Shrinkers' \subseteq Shrinkers
  BY <1>3, FrameSets DEF Fragile
<1>5. (Mild' => Mild) /\ (Kept' => Kept /\ Changes(c) = {})
  BY <1>1 DEF Mild, Kept
<1>6. MildInv'
  <2> SUFFICES ASSUME Mild' PROVE Overshoot' /\ Shrinkers' = {}
    BY DEF MildInv
  <2>1. Shrinkers' = {}
    BY <1>1, <1>4, <1>5 DEF IInv, MildInv, ShrinkOK
  <2>2. Size + Cardinality(Inserters) <= capacity + Cardinality(Callers) - 1
    BY <1>5 DEF IInv, MildInv, Overshoot, Mild
  <2>3. Cardinality(Inserters \ {c}) = Cardinality(Inserters) - 1
    BY <1>1, OneMore
  <2>4. Size' + Cardinality(Inserters') <= capacity' + Cardinality(Callers) - 1
    BY <1>1, <1>2, <1>4, <2>2, <2>3, Sizes
  <2> QED BY <2>1, <2>4 DEF Overshoot
<1>7. KeptInv'
  <2> SUFFICES ASSUME Kept' PROVE Size' <= capacity' /\ Inserters' = {}
    BY DEF KeptInv
  <2>1. Size < capacity
    BY <1>1, <1>5 DEF IInv, KeptInv
  <2>2. Inserters' = {}
    BY <1>4, <1>5 DEF Changes, Inserters, Fragile
  <2> QED BY <1>1, <1>2, <2>1, <2>2
<1> QED BY <1>1, <1>2, <1>4, <1>6, <1>7 DEF IInv, Typed

\* The frame of a call whose eviction is over.
LEMMA EvictedStep ==
  ASSUME IInv, NEW c \in Callers, call[c].at \in Choose, call[c].op # "next_evict_key",
         Evicted(c, call[c])
  PROVE  \E g : /\ Goes(c, g) /\ FrameOK(g)
                /\ \/ call[c].op = "evict" /\ g = Idle
                   \/ /\ call[c].op = "set_capacity" /\ g.op = "set_capacity" /\ g.at = "again"
                      /\ g.cap = call[c].cap /\ g.left = call[c].left - 1
                   \/ call[c].op \in Puts /\ g.op = call[c].op /\ g.at = "insert"
<1>1. FrameOK(call[c]) /\ call[c].op \in Puts \cup {"evict", "set_capacity"}
  BY FrameOf DEF FrameOK
<1>2. CASE call[c].op = "evict"
  BY <1>2, IdleFrame DEF Evicted, Returns
<1>3. CASE call[c].op = "set_capacity"
  <2> DEFINE g == [call[c] EXCEPT !.at = "again", !.left = @ - 1, !.victim = NULL, !.scan = NoScan]
  <2>1. Goes(c, g)
    BY <1>3 DEF Evicted
  <2>2. /\ FrameOK(g) /\ g.op = "set_capacity" /\ g.at = "again"
        /\ g.cap = call[c].cap /\ g.left = call[c].left - 1
    BY <1>1, <1>3 DEF FrameOK, Fields, Choose, Puts
  <2> HIDE DEF g
  <2> QED BY <1>3, <2>1, <2>2
<1>4. CASE call[c].op \in Puts
  <2> DEFINE g == [call[c] EXCEPT !.at = "insert", !.victim = NULL, !.scan = NoScan]
  <2>1. Goes(c, g)
    BY <1>4 DEF Evicted, Puts
  <2>2. FrameOK(g) /\ g.op = call[c].op /\ g.at = "insert"
    BY <1>1, <1>4 DEF FrameOK, Fields, Choose, Puts
  <2> HIDE DEF g
  <2> QED BY <1>4, <2>1, <2>2
<1> QED BY <1>1, <1>2, <1>3, <1>4

LEMMA EvictIInv ==
  ASSUME IInv, NEW c \in Callers, Evict(c) PROVE IInv'
<1>1. /\ call[c].at = "victim" /\ call[c].victim \in Present /\ Evicted(c, call[c])
      /\ UNCHANGED capacity /\ breach' = breach \cup Changes(c)
      /\ c \notin Inserters /\ FrameOK(call[c]) /\ call[c].op # "next_evict_key"
  BY FrameOf DEF Evict, Inside, Inserters, FrameOK
<1>2. /\ DOMAIN entry' = Keys /\ Size' = Size - 1 /\ Size \in Nat /\ Size' \in Nat
      /\ capacity \in Nat
  <2>1. DOMAIN entry' = Keys /\ Present' = Present \ {call[c].victim}
    BY Dropped DEF Evict
  <2>2. /\ Cardinality(Present \ {call[c].victim}) = Cardinality(Present) - 1
        /\ IsFiniteSet(Present \ {call[c].victim})
    BY <1>1, Sizes, FS_RemoveElement
  <2>3. Cardinality(Present \ {call[c].victim}) \in Nat
    BY <2>2, FS_CardinalityType
  <2> QED BY <2>1, <2>2, <2>3, Sizes DEF Size, IInv, Typed
<1>3. (Mild' => Mild) /\ (Kept' => Kept)
  BY <1>1 DEF Mild, Kept
<1>4. PICK g : /\ Goes(c, g) /\ FrameOK(g)
               /\ \/ call[c].op = "evict" /\ g = Idle
                  \/ /\ call[c].op = "set_capacity" /\ g.op = "set_capacity" /\ g.at = "again"
                     /\ g.cap = call[c].cap /\ g.left = call[c].left - 1
                  \/ call[c].op \in Puts /\ g.op = call[c].op /\ g.at = "insert"
  BY <1>1, EvictedStep DEF Choose
<1>5. CallOK' /\ call'[c] = g /\ \A d \in Callers \ {c} : call'[d] = call[d]
  BY <1>4, FrameSets
<1>6. Typed'
  BY <1>1, <1>2, <1>5 DEF Typed
<1>7. KeptInv'
  BY <1>1, <1>2, <1>3 DEF IInv, KeptInv
<1>8. CASE call[c].op \in Puts
  <2>1. g.op # "set_capacity" /\ g.at = "insert"
    BY <1>4, <1>8, IdleFrame DEF Puts
  <2>2. Inserters' = Inserters \cup {c} /\ Shrinkers' \subseteq Shrinkers
    BY <1>4, <2>1, FrameSets
  <2>3. c \in Adders
    BY <1>1, <1>8 DEF Adders, Puts, Fragile
  <2>4. Mild => Shrinkers = {}
    BY <2>3 DEF IInv, MildInv, ShrinkOK
  <2>5. Cardinality(Inserters \cup {c}) = Cardinality(Inserters) + 1
    BY <1>1, OneMore
  <2>6. MildInv'
    BY <1>1, <1>2, <1>3, <2>2, <2>4, <2>5, Sizes DEF IInv, MildInv, Overshoot
  <2> QED BY <1>6, <1>7, <2>6 DEF IInv
<1>9. CASE call[c].op \notin Puts
  <2>1. g.at \notin {"insert"} \cup Choose /\ ~(g.op \in Puts)
    BY <1>4, <1>9, IdleFrame DEF Choose, Puts
  <2>2. Inserters' = Inserters /\ Adders' \subseteq Adders
    BY SMTT(30), <1>1, <1>4, <2>1, FrameSets
  <2>3. ASSUME Mild', NEW d \in Shrinkers' PROVE ShrinkOK(call[d])'
    <3>1. CASE d = c
      <4>1. /\ call[c].op = "set_capacity" /\ g.cap = call[c].cap /\ g.left = call[c].left - 1
            /\ c \in Shrinkers
        BY <1>4, <1>5, <1>9, <2>3, <3>1, IdleFrame DEF Shrinkers
      <4>2. ShrinkOK(call[c]) /\ call[c].cap \in Nat /\ call[c].left \in Int
        BY <1>1, <1>3, <2>3, <4>1 DEF IInv, MildInv, FrameOK
      <4> QED BY <1>2, <1>5, <2>1, <2>2, <3>1, <4>1, <4>2 DEF ShrinkOK
    <3>2. CASE d # c
      <4>1. d \in Callers /\ d \in Shrinkers /\ call'[d] = call[d]
        BY <1>5, <2>3, <3>2 DEF Shrinkers
      <4>2. ShrinkOK(call[d]) /\ call[d].cap \in Nat /\ call[d].left \in Int
        BY <1>3, <2>3, <4>1, FrameOf DEF IInv, MildInv, FrameOK, Shrinkers
      <4> QED BY <1>2, <2>2, <4>1, <4>2 DEF ShrinkOK
    <3> QED BY <3>1, <3>2
  <2>4. Mild' => Overshoot'
    BY <1>1, <1>2, <1>3, <2>2, Sizes DEF IInv, MildInv, Overshoot
  <2> QED BY <1>6, <1>7, <2>3, <2>4 DEF IInv, MildInv
<1> QED BY <1>8, <1>9

\* The list of keys could not be built: nothing is known of the size.
LEMMA ListNoMemoryIInv ==
  ASSUME IInv, NEW c \in Callers, ListNoMemory(c) PROVE IInv'
<1>1. /\ call[c].at = "list" /\ UNCHANGED <<entry, capacity>>
      /\ breach' = breach \cup {"raised"}
  BY DEF ListNoMemory, Inside, cache
<1>2. CallOK'
  <2>1. CASE call[c].op = "next_evict_key"
    <3>1. Goes(c, Idle)
      BY <2>1 DEF ListNoMemory, Returns
    <3> QED BY <3>1, IdleFrame, FrameSets
  <2>2. CASE call[c].op # "next_evict_key"
    <3>1. \E g : Goes(c, g) /\ FrameOK(g)
      BY <1>1, <2>2, EvictedStep DEF ListNoMemory, Choose
    <3> QED BY <3>1, FrameSets
  <2> QED BY <2>1, <2>2
<1>3. Typed'
  BY <1>1, <1>2, SameEntries DEF IInv, Typed
<1>4. ~Mild' /\ ~Kept'
  BY <1>1 DEF Mild, Kept
<1> QED BY <1>3, <1>4 DEF IInv, MildInv, KeptInv

LEMMA InsertersAdd == ASSUME IInv PROVE Inserters \subseteq Adders
  BY FrameOf DEF Inserters, Adders, FrameOK, Puts, Fragile

LEMMA NobodyInserts == ASSUME IInv, Adders = {} PROVE Inserters = {} /\ Cardinality(Inserters) = 0
  BY InsertersAdd, FS_EmptySet

LEMMA SetCapacityIInv ==
  ASSUME IInv, NEW c \in Callers, NEW n \in Capacities, SetCapacity(c, n) PROVE IInv'
<1>1. /\ call[c] = Idle /\ UNCHANGED entry /\ n \in Nat /\ capacity \in Nat /\ Size \in Nat
      /\ breach \subseteq breach'
      /\ n < capacity /\ Adders # {} => "shrink" \in breach'
  BY CapacitiesAssumption, Sizes DEF SetCapacity, CanCall, IInv, Typed
<1>2. DOMAIN entry' = Keys /\ Size' = Size
  BY <1>1, SameEntries DEF Size
<1>3. /\ Mild' => Mild /\ (n < capacity => Adders = {})
      /\ Kept' => Kept /\ (n < capacity => Adders = {})
  BY <1>1 DEF Mild, Kept
<1>4. Cardinality(Callers) \in Nat \ {0} /\ Cardinality(Inserters) \in Nat
  BY SomeCaller, Sizes
<1>5. CASE n < capacity /\ Size > n
  <2> DEFINE f == [Frame("set_capacity", "evict", NULL, NULL, <<>>) EXCEPT !.left = Size - n, !.cap = n]
  <2>1. /\ DOMAIN f = Fields /\ f.op = "set_capacity" /\ f.cap = n /\ f.left = Size - n
    BY <1>1 DEF Frame, Fields
  <2>2. Choosing(c, f) /\ UNCHANGED capacity
    BY <1>5 DEF SetCapacity
  <2> HIDE DEF f
  <2>3. PICK g : Chooses(c, f, g)
    BY <1>1, <2>1, <2>2, ChoosingStep
  <2>4. /\ Goes(c, g) /\ FrameOK(g) /\ g.at \in Choose /\ g.op = "set_capacity"
        /\ g.cap = n /\ g.left = Size - n
    BY <2>1, <2>3 DEF Chooses
  <2>5. /\ CallOK' /\ call'[c] = g /\ \A d \in Callers \ {c} : call'[d] = call[d]
        /\ Inserters' \subseteq Inserters /\ Adders' \subseteq Adders
    BY <2>4, FrameSets DEF Choose, Puts
  <2>6. Cardinality(Inserters') <= Cardinality(Inserters) /\ Cardinality(Inserters') \in Nat
    BY <2>5, Sizes, Fewer
  <2>7. ASSUME Mild', NEW d \in Shrinkers' PROVE ShrinkOK(call[d])'
    <3>1. CASE d = c
      BY <1>1, <1>2, <1>3, <1>5, <2>4, <2>5, <2>7, <3>1 DEF ShrinkOK
    <3>2. CASE d # c
      <4>1. d \in Shrinkers /\ call'[d] = call[d]
        BY <2>5, <2>7, <3>2 DEF Shrinkers
      <4> QED BY <1>2, <1>3, <2>5, <2>7, <4>1 DEF IInv, MildInv, ShrinkOK
    <3> QED BY <3>1, <3>2
  <2>8. Mild' => Overshoot'
    BY <1>1, <1>2, <1>3, <1>4, <2>2, <2>6 DEF IInv, MildInv, Overshoot
  <2>9. KeptInv'
    BY <1>2, <1>3, <2>2, <2>5 DEF IInv, KeptInv
  <2> QED BY <1>1, <1>2, <2>2, <2>5, <2>7, <2>8, <2>9 DEF IInv, Typed, MildInv
<1>6. CASE ~(n < capacity /\ Size > n)
  <2>1. capacity' = n /\ UNCHANGED call
    BY <1>6 DEF SetCapacity
  <2>2. /\ Inserters' = Inserters /\ Adders' = Adders /\ Shrinkers' = Shrinkers
        /\ CallOK' /\ \A d \in Shrinkers : ShrinkOK(call[d]) => ShrinkOK(call[d])'
    BY <1>2, <2>1 DEF Inserters, Adders, Shrinkers, IInv, Typed, CallOK, ShrinkOK
  <2>3. CASE n < capacity
    <3>1. Adders = {} => Inserters = {} /\ Cardinality(Inserters) = 0
      BY NobodyInserts
    <3>2. MildInv'
      BY <1>1, <1>2, <1>3, <1>4, <1>6, <2>1, <2>2, <2>3, <3>1 DEF IInv, MildInv, Overshoot
    <3>3. KeptInv'
      BY <1>1, <1>2, <1>3, <1>6, <2>1, <2>2, <2>3, <3>1 DEF KeptInv
    <3> QED BY <1>1, <1>2, <2>1, <2>2, <3>2, <3>3 DEF IInv, Typed
  <2>4. CASE n >= capacity
    <3>2. MildInv'
      BY <1>1, <1>2, <1>3, <1>4, <2>1, <2>2, <2>4 DEF IInv, MildInv, Overshoot
    <3>3. KeptInv'
      BY <1>1, <1>2, <1>3, <2>1, <2>2, <2>4 DEF IInv, KeptInv
    <3> QED BY <1>1, <1>2, <2>1, <2>2, <3>2, <3>3 DEF IInv, Typed
  <2> QED BY <1>1, <2>3, <2>4
<1> QED BY <1>5, <1>6

LEMMA ShrinkOnIInv ==
  ASSUME IInv, NEW c \in Callers, ShrinkOn(c) PROVE IInv'
<1>1. /\ call[c].at = "again" /\ call[c].op = "set_capacity" /\ c \in Shrinkers
      /\ call[c].cap \in Nat /\ call[c].left \in Int
      /\ UNCHANGED <<entry, breach>> /\ capacity \in Nat /\ Size \in Nat
  BY FrameOf, Sizes DEF ShrinkOn, Inside, Shrinkers, FrameOK, IInv, Typed
<1>2. DOMAIN entry' = Keys /\ Size' = Size
  BY <1>1, SameEntries DEF Size
<1>3. (Mild' <=> Mild) /\ (Kept' <=> Kept) /\ (Kept => Mild)
  BY <1>1 DEF Mild, Kept
<1>4. Mild => ShrinkOK(call[c]) /\ Inserters = {} /\ Cardinality(Inserters) = 0
  BY <1>1, NobodyInserts DEF IInv, MildInv, ShrinkOK
<1>5. Cardinality(Callers) \in Nat \ {0}
  BY SomeCaller, Sizes
<1>6. CASE More(call[c]) /\ Present # {}
  <2>1. Choosing(c, call[c]) /\ UNCHANGED capacity
    BY <1>6 DEF ShrinkOn
  <2>2. PICK g : Chooses(c, call[c], g)
    BY <1>1, <2>1, FrameOf, ChoosingStep
  <2>3. /\ Goes(c, g) /\ FrameOK(g) /\ g.at \in Choose /\ g.op = "set_capacity"
        /\ g.cap = call[c].cap /\ g.left = call[c].left
    BY <1>1, <2>2 DEF Chooses
  <2>4. /\ CallOK' /\ call'[c] = g /\ \A d \in Callers \ {c} : call'[d] = call[d]
        /\ Inserters' \subseteq Inserters /\ Adders' \subseteq Adders
        /\ Shrinkers' \subseteq Shrinkers
    BY <1>1, <2>3, FrameSets DEF Choose, Puts
  <2>5. Mild => Inserters' = {} /\ Cardinality(Inserters') = 0
    BY <1>4, <2>4, FS_EmptySet
  <2>6. ASSUME Mild, NEW d \in Shrinkers PROVE ShrinkOK(call[d])'
    <3>1. CASE d = c
      <4>1. call[c].left >= 1
        BY <1>1, <1>6 DEF More
      <4> QED BY <1>2, <1>4, <2>3, <2>4, <2>6, <3>1, <4>1 DEF ShrinkOK
    <3>2. CASE d # c
      <4>1. ShrinkOK(call[d]) /\ call'[d] = call[d]
        BY <2>4, <2>6, <3>2 DEF Shrinkers, IInv, MildInv
      <4> QED BY <1>2, <2>4, <4>1 DEF ShrinkOK
    <3> QED BY <3>1, <3>2
  <2>7. Mild => Overshoot'
    BY <1>1, <1>2, <1>4, <1>5, <2>1, <2>5 DEF IInv, MildInv, Overshoot, Mild
  <2>8. KeptInv'
    BY <1>2, <1>3, <2>1, <2>4 DEF IInv, KeptInv
  <2> QED BY <1>1, <1>2, <1>3, <2>1, <2>4, <2>6, <2>7, <2>8 DEF IInv, Typed, MildInv
<1>7. CASE ~(More(call[c]) /\ Present # {})
  <2>1. capacity' = call[c].cap /\ Goes(c, Idle)
    BY <1>7 DEF ShrinkOn, Returns
  <2>2. /\ CallOK' /\ \A d \in Callers \ {c} : call'[d] = call[d]
        /\ Inserters' \subseteq Inserters /\ Adders' \subseteq Adders
        /\ Shrinkers' \subseteq Shrinkers \ {c}
    BY <2>1, IdleFrame, FrameSets DEF Puts
  <2>3. Mild => Size <= call[c].cap
    <3>1. CASE Present = {}
      BY <1>1, <3>1, FS_EmptySet DEF Size
    <3>2. CASE ~More(call[c])
      BY <1>1, <1>4, <3>2 DEF More, ShrinkOK
    <3> QED BY <1>7, <3>1, <3>2
  <2>4. Mild => Inserters' = {} /\ Cardinality(Inserters') = 0
    BY <1>4, <2>2, FS_EmptySet
  <2>5. Mild => Overshoot'
    BY <1>1, <1>2, <1>5, <2>1, <2>3, <2>4 DEF Overshoot
  <2>6. ASSUME Mild, NEW d \in Shrinkers' PROVE ShrinkOK(call[d])'
    <3>1. d \in Shrinkers /\ ShrinkOK(call[d]) /\ call'[d] = call[d]
      BY <2>2, <2>6 DEF Shrinkers, IInv, MildInv
    <3> QED BY <1>2, <2>2, <3>1 DEF ShrinkOK
  <2>7. KeptInv'
    BY <1>2, <1>3, <2>1, <2>3, <2>4 DEF KeptInv
  <2> QED BY <1>1, <1>2, <1>3, <2>1, <2>2, <2>5, <2>6, <2>7 DEF IInv, Typed, MildInv
<1> QED BY <1>6, <1>7

LEMMA ReinitIInv ==
  ASSUME IInv, NEW c \in Callers, NEW n \in Capacities, Reinit(c, n) PROVE IInv'
<1>1. /\ UNCHANGED <<entry, call>> /\ capacity' = n /\ n \in Nat /\ capacity \in Nat
      /\ Size \in Nat /\ breach \subseteq breach' /\ (n < capacity => "init" \in breach')
  BY CapacitiesAssumption, Sizes DEF Reinit, IInv, Typed
<1>2. DOMAIN entry' = Keys /\ Size' = Size
  BY <1>1, SameEntries DEF Size
<1>3. (Mild' => Mild /\ n >= capacity) /\ (Kept' => Kept /\ n >= capacity)
  BY <1>1 DEF Mild, Kept
<1>4. /\ Inserters' = Inserters /\ Adders' = Adders /\ Shrinkers' = Shrinkers
      /\ CallOK' /\ \A d \in Shrinkers : ShrinkOK(call[d]) => ShrinkOK(call[d])'
  BY <1>1, <1>2 DEF Inserters, Adders, Shrinkers, IInv, Typed, CallOK, ShrinkOK
<1>5. MildInv'
  BY <1>1, <1>2, <1>3, <1>4, Sizes DEF IInv, MildInv, Overshoot
<1>6. KeptInv'
  BY <1>1, <1>2, <1>3, <1>4 DEF IInv, KeptInv
<1> QED BY <1>1, <1>2, <1>4, <1>5, <1>6 DEF IInv, Typed

-----------------------------------------------------------------------------

LEMMA InitIInv == Init => IInv
<1> SUFFICES ASSUME Init PROVE IInv OBVIOUS
<1>1. Typed
  BY CapacitiesAssumption, IdleFrame DEF Init, Typed, CallOK
<1>2. Present = {} /\ Size = 0
  BY FS_EmptySet DEF Init, Present, Size
<1>3. Inserters = {} /\ Shrinkers = {} /\ Cardinality(Inserters) = 0
  BY IdleFrame, FS_EmptySet DEF Init, Inserters, Shrinkers
<1>4. capacity \in Nat \ {0} /\ Cardinality(Callers) \in Nat
  BY CapacitiesAssumption, Sizes DEF Init
<1>5. Overshoot
  BY <1>2, <1>3, <1>4 DEF Overshoot
<1> QED BY <1>1, <1>2, <1>3, <1>4, <1>5 DEF IInv, MildInv, KeptInv

LEMMA StepIInv == IInv /\ [Next]_vars => IInv'
<1> SUFFICES ASSUME IInv, [Next]_vars PROVE IInv' OBVIOUS
<1>1. CASE UNCHANGED vars
  BY <1>1, SameEntries, HarmlessStay DEF vars, cache
<1>2. CASE Tick
  BY <1>2, TickHarmless
<1>3. ASSUME NEW c \in Callers, Enter(c) PROVE IInv'
  <2>1. ASSUME NEW k \in Keys, NEW v \in Values, PutBegin(c, k, v) PROVE IInv'
    BY <2>1, PutBeginHarmless
  <2>2. ASSUME NEW k \in Keys, Subscript(c, k) \/ Get(c, k) \/ Delete(c, k) \/ PopBegin(c, k)
        PROVE IInv'
    BY <2>2, LookHarmless, PopHarmless
  <2>3. ASSUME NEW k \in Keys, NEW op \in {"setdefault", "setnx"}, NEW v,
               PresentDefault(c, op, k) \/ AbsentDefault(c, op, k, v)
        PROVE IInv'
    BY <2>3, DefaultHarmless
  <2>4. ASSUME NEW u \in Updates, Update(c, u[1], u[2]) PROVE IInv'
    BY <2>4, UpdateHarmless
  <2>5. ASSUME NEW op \in {"evict", "next_evict_key"}, EvictBegin(c, op) PROVE IInv'
    BY <2>5, EvictBeginHarmless
  <2>6. ASSUME NEW n \in Capacities, SetCapacity(c, n) \/ Reinit(c, n) PROVE IInv'
    BY <2>6, SetCapacityIInv, ReinitIInv
  <2>7. CASE ValuesOf(c) \/ Clear(c)
    BY <2>7, AllHarmless
  <2>8. CASE PopItemBegin(c)
    BY <2>8, PopItemHarmless
  <2> QED BY <1>3, <2>1, <2>2, <2>3, <2>4, <2>5, <2>6, <2>7, <2>8 DEF Enter
<1>4. ASSUME NEW c \in Callers, GoOn(c) PROVE IInv'
  BY <1>4, ReplaceHarmless, MakeRoomIInv, InsertIInv, ListKeysHarmless, ListNoMemoryIInv,
     SampleHarmless, EvictIInv, ShrinkOnIInv, FailsHarmless, PopItemHarmless,
     PopHarmless DEF GoOn
<1> QED BY <1>1, <1>2, <1>3, <1>4 DEF Next

\* For every set of keys and callers, every capacity and both ways of choosing
\* a victim: clients that keep to the contract never see more entries than the
\* capacity, not even from the Python code that runs inside a call, ...
THEOREM CapacityKept == Spec => []WithinCapacity
<1>1. IInv => WithinCapacity
  BY DEF IInv, KeptInv, WithinCapacity
<1> QED BY <1>1, InitIInv, StepIInv, PTL DEF Spec

\* ... and n calls that overlap as they like exceed it by n - 1 at most,
\* however often they do.
THEOREM OvershootBounded == Spec => []Overshoot
<1>1. IInv => Overshoot
  BY DEF IInv, MildInv, Mild, Overshoot
<1> QED BY <1>1, InitIInv, StepIInv, PTL DEF Spec
=============================================================================
