-------------------------- MODULE SortedMapProofs --------------------------
(***************************************************************************)
(* Theorems about SortedMap, for every finite set of keys and of callers   *)
(* and every set of values: the tree stays red-black, the length counts    *)
(* its nodes, no call follows a freed node, and SortedMap implements       *)
(* SortedDict.  Of clients that break the contract: types, and the count   *)
(* of references to the sentinel (the last part of the module).            *)
(***************************************************************************)
EXTENDS SortedMap, RBTreeDeletion, SequenceTheorems

\* Unless a call has changed the tree under another one, the tree is in the
\* order of its keys.
USE NaturalRanks

\* the keys that have a value
Present(v) == {k \in Keys : v[k] # NULL}

\* what compares with each key of L outside S as the keys of S do
Belongs(L, S, k) ==
  \A m \in L \ S, a \in S, d \in Sides : Before(Natural, d, k, m) <=> Before(Natural, d, a, m)

\* q is the list of S in ascending order.
Ascends(q, S) ==
  /\ q \in Seq(S) /\ Len(q) = Cardinality(S)
  /\ {q[i] : i \in 1..Len(q)} = S
  /\ \A i \in 1..Len(q)-1 : q[i] < q[i + 1]

\* a call points into the tree, or will list it: Pointing, of its frame
Points(f) == \/ f.op \in Searches \cup Puts /\ f.node # Nil
             \/ f.op \in Pairs \cup Lists

\* The locals of a method: a search or a put is at a node below which its key
\* belongs, the others point to nodes of the map.
Placed(t, v, f) ==
  /\ f.op \in Searches \cup Puts \cup Pairs \cup Lists \cup Releasing \cup {"idle"}
  /\ f.op \in Searches \cup Puts =>
       /\ f.key \in Keys
       /\ f.node # Nil => f.node \in Present(v) /\ Belongs(Present(v), Subtree(t, f.node), f.key)
  /\ f.op \in Puts \cup {"setdefault"} => f.val \in Values
  /\ f.op \in Puts => f.list \in Seq(Keys \X Values)
  /\ f.op \in Pairs => f.node \in Present(v)
  /\ f.op = "popitem" => f.val = v[f.node]
  /\ f.op \in {"popitem", "min"} => \A k \in Present(v) : f.node <= k
  /\ f.op = "max" => \A k \in Present(v) : f.node >= k
  /\ f.op = "items" => f.node \in Present(v) \cup {Nil}
  /\ f.op \in Releasing \cup {"keys", "idle"} => f.node = Nil

\* The locals of a method that lists the keys L.
Counted(L, f) ==
  /\ f.op \in Lists => f.count = Cardinality(L)
  /\ f.op = "items" /\ f.node = Nil => f.list = <<>>
  /\ f.op = "items" /\ f.node # Nil => Ascends(f.list, {k \in L : k < f.node})

\* what does not depend on the length
Framed ==
  /\ value \in [Keys -> Values \cup {NULL}]
  /\ call = [c \in Callers |-> call[c]]
  /\ \A c \in Callers : Placed(tree, value, call[c])
  /\ fix = NoFix \/ (fix.kind \in {"insert", "delete"} /\ \A c \in Callers : ~Points(call[c]))

\* what does
Counts ==
  /\ length \in Int
  /\ ~Clearing => length = Cardinality(Present(value)) + Cardinality(Removals)
  /\ Clearing => /\ Present(value) = {} /\ Removals = {} /\ length > 0
                 /\ \A c, d \in Callers : call[c].op = "cleared" /\ call[d].op = "cleared" => c = d
  /\ \A c \in Callers : Counted(Present(value), call[c])

\* the tree, which a loop may be repairing, in the order of ranking rk
TreeIn(rk) ==
  \/ fix = NoFix /\ SortedTree(rk, tree, Present(value))
  \/ fix.kind = "insert" /\ InsertTree(rk, tree, Present(value), fix.at)
  \/ fix.kind = "delete" /\ DeleteTree(rk, tree, Present(value), fix.at, fix.root)

TreeKept == TreeIn(Natural)

\* Nothing is listed while something is being removed or cleared.
Parted ==
  /\ DOMAIN call = Callers
  /\ Kept => \A c, d \in Callers : call[c].op \in Lists => call[d].op \notin Releasing

IInv ==
  /\ OverlapExplains
  /\ "overlap" \notin breach /\ fault = "none" => Framed /\ TreeKept
  /\ Kept => fault = "none" /\ Counts

-----------------------------------------------------------------------------
(* Frames *)

\* the fields of a frame
LEMMA FrameIs ==
  ASSUME NEW op, NEW key, NEW val, NEW node, NEW count, NEW list
  PROVE  LET f == Frame(op, key, val, node, count, list)
         IN f.op = op /\ f.key = key /\ f.val = val /\ f.node = node /\ f.count = count /\ f.list = list
  BY DEF Frame

\* The frame of a method that does not point into the tree fits any tree.
LEMMA PlacedStill ==
  ASSUME NEW t, NEW v, NEW f, Placed(t, v, f), ~Points(f), NEW r, NEW w
  PROVE  Placed(r, w, f)
  BY DEF Placed, Points, Searches, Puts, Pairs, Lists, Releasing

\* An idle caller knows nothing.
LEMMA IdlePlaced ==
  ASSUME NEW t, NEW v, NEW L
  PROVE  Placed(t, v, Idle) /\ ~Points(Idle) /\ Counted(L, Idle) /\ Idle.op = "idle"
<1>1. Idle.op = "idle" /\ Idle.node = Nil
  BY FrameIs DEF Idle
<1> QED BY <1>1 DEF Placed, Points, Counted, Searches, Puts, Pairs, Lists, Releasing

\* A put that begins.
LEMMA PutPlaced ==
  ASSUME NEW t, NEW v, NEW L, NEW f, f.op \in Puts, f.key \in Keys, f.val \in Values,
         f.node = Nil, f.list \in Seq(Keys \X Values)
  PROVE  Placed(t, v, f) /\ ~Points(f) /\ Counted(L, f) /\ f.op \notin Releasing
  BY DEF Placed, Points, Counted, Searches, Puts, Pairs, Lists, Releasing

\* What is left to put is put next.
LEMMA AfterPutPlaced ==
  ASSUME NEW t, NEW v, NEW L, NEW f, f.list \in Seq(Keys \X Values)
  PROVE  LET g == AfterPut(f)
         IN Placed(t, v, g) /\ ~Points(g) /\ Counted(L, g) /\ g.op \notin Releasing
<1> DEFINE g == AfterPut(f)
           q == f.list
<1>1. CASE q = <<>>
  <2>1. g = Idle
    BY <1>1 DEF AfterPut
  <2> QED BY <2>1, IdlePlaced DEF Releasing
<1>2. CASE q # <<>>
  <2>1. q[1] \in Keys \X Values /\ Tail(q) \in Seq(Keys \X Values)
    BY <1>2
  <2>2. q[1][1] \in Keys /\ q[1][2] \in Values
    BY <2>1
  <2>3. g = Frame("update", q[1][1], q[1][2], Nil, 0, Tail(q))
    BY <1>2 DEF AfterPut
  <2>4. /\ g.op \in Puts /\ g.key \in Keys /\ g.val \in Values /\ g.node = Nil
        /\ g.list \in Seq(Keys \X Values)
    BY <2>1, <2>2, <2>3 DEF Puts, Frame
  <2> QED BY <2>4, PutPlaced
<1> QED BY <1>1, <1>2

-----------------------------------------------------------------------------
(* Steps that leave the tree, the values and the length alone *)

\* c goes on with frame g.
LEMMA FramedGoes ==
  ASSUME Framed, NEW c \in Callers, NEW g, Goes(c, g), Placed(tree, value, g),
         fix = NoFix, UNCHANGED <<tree, value, fix>>
  PROVE  Framed'
<1>1. call' = [d \in Callers |-> call'[d]] /\ \A d \in Callers : call'[d] = IF d = c THEN g ELSE call[d]
  BY DEF Framed, Goes
<1>2. \A d \in Callers : Placed(tree', value', call'[d])
  BY <1>1 DEF Framed
<1> QED BY <1>1, <1>2 DEF Framed

\* The same for the counts, when neither frame is releasing something.
LEMMA CountsGoes ==
  ASSUME Counts, NEW c \in Callers, NEW g, call = [d \in Callers |-> call[d]], Goes(c, g),
         Counted(Present(value), g), call[c].op \notin Releasing, g.op \notin Releasing,
         UNCHANGED <<value, length>>
  PROVE  Counts'
<1>1. \A d \in Callers : call'[d] = IF d = c THEN g ELSE call[d]
  BY DEF Goes
<1>2. \A d \in Callers : /\ call'[d].op = "removed" <=> call[d].op = "removed"
                         /\ call'[d].op = "cleared" <=> call[d].op = "cleared"
  BY <1>1 DEF Releasing
<1>3. Removals' = Removals /\ (Clearing' <=> Clearing)
  BY <1>2 DEF Removals, Clearing
<1>4. \A d \in Callers : Counted(Present(value'), call'[d])
  BY <1>1 DEF Counts
<1>5. Present(value)' = Present(value) /\ length' = length
  OBVIOUS
<1> QED BY <1>2, <1>3, <1>4, <1>5 DEF Counts

\* A step of c that leaves the tree and the values alone keeps the invariant if its new
\* frame is right.
LEMMA QuietKeeps ==
  ASSUME IInv, Running, NEW c \in Callers, NEW g, Goes(c, g),
         UNCHANGED <<tree, value, length, fix, fault>>, breach \subseteq breach',
         call[c].op \notin Releasing, g.op \notin Releasing,
         Framed /\ TreeKept => Placed(tree, value, g),
         Framed /\ TreeKept /\ Counts /\ breach' = {} => Counted(Present(value), g)
  PROVE  IInv'
<1>1. fault = "none" /\ fix = NoFix /\ fault' = "none"
  BY DEF Running
<1>2. OverlapExplains'
  BY <1>1 DEF OverlapExplains
<1>3. ASSUME "overlap" \notin breach' PROVE Framed /\ TreeKept /\ Framed' /\ TreeKept'
  <2>1. Framed /\ TreeKept
    BY <1>1, <1>3 DEF IInv
  <2>2. Framed'
    BY <1>1, <2>1, FramedGoes
  <2>3. TreeKept'
    BY <2>1 DEF TreeKept, TreeIn, Present
  <2> QED BY <2>1, <2>2, <2>3
<1>4. ASSUME breach' = {} PROVE Counts'
  <2>1. Kept /\ Counts /\ Framed /\ TreeKept
    BY <1>3, <1>4 DEF IInv, Kept
  <2>2. call = [d \in Callers |-> call[d]]
    BY <2>1 DEF Framed
  <2> QED BY <1>4, <2>1, <2>2, CountsGoes
<1> QED BY <1>1, <1>2, <1>3, <1>4 DEF IInv, Kept

\* nothing but the answer changes
LEMMA StutterKeeps ==
  ASSUME IInv, UNCHANGED <<tree, value, length, fix, fault, breach, call>>
  PROVE  IInv'
<1>1. (Framed <=> Framed') /\ (TreeKept <=> TreeKept') /\ (Counts <=> Counts')
  BY DEF Framed, TreeKept, TreeIn, Counts, Clearing, Removals, Present
<1> QED BY <1>1 DEF IInv, OverlapExplains, Kept

\* A method begins with a descent.
LEMMA BeginKeeps ==
  ASSUME IInv, NEW c \in Callers, NEW k \in Keys, NEW v, NEW op,
         op \in {"get", "remove", "setnx"} \/ (op \in {"put", "setdefault"} /\ v \in Values),
         Begin(c, op, k, v)
  PROVE  IInv'
<1> DEFINE g == Frame(op, k, v, Nil, 0, <<>>)
<1>1. g.op = op /\ g.key = k /\ g.val = v /\ g.node = Nil /\ g.list = <<>>
  BY DEF Frame
<1>2. <<>> \in Seq(Keys \X Values)
  OBVIOUS
<1>3. Placed(tree, value, g) /\ Counted(Present(value), g) /\ g.op \notin Releasing
  BY <1>1, <1>2 DEF Placed, Counted, Searches, Puts, Pairs, Lists, Releasing
<1>4. Running /\ Goes(c, g) /\ call[c].op \notin Releasing
  BY DEF Begin, CanCall, Releasing
<1>5. UNCHANGED <<tree, value, length, fix, fault, breach>>
  BY DEF Begin, shape
<1> HIDE DEF g
<1> QED BY <1>3, <1>4, <1>5, QuietKeeps

\* update() begins with its first entry.
LEMMA UpdateKeeps ==
  ASSUME IInv, NEW c \in Callers, NEW u \in Updates, Update(c, u[1], u[2])
  PROVE  IInv'
<1> DEFINE todo == u[1] \o SubSeq(u[2], Len(u[1]) + 1, Len(u[2]))
           f == Frame("update", NULL, NULL, Nil, 0, todo)
           g == AfterPut(f)
<1>1. todo \in Seq(Keys \X Values)
  <2>1. u[1] \in Seq(Keys \X Values) /\ u[2] \in Seq(Keys \X Values)
    BY UpdatesAssumption
  <2>2. Len(u[1]) \in Nat /\ Len(u[2]) \in Nat
    BY <2>1, LenProperties
  <2>3. \A i \in (Len(u[1]) + 1)..Len(u[2]) : i \in 1..Len(u[2])
    BY <2>2
  <2>4. SubSeq(u[2], Len(u[1]) + 1, Len(u[2])) \in Seq(Keys \X Values)
    BY <2>1, <2>2, <2>3
  <2> QED BY <2>1, <2>4
<1>2. f.list = todo
  BY DEF Frame
<1> HIDE DEF f
<1>3. Placed(tree, value, g) /\ Counted(Present(value), g) /\ g.op \notin Releasing
  BY <1>1, <1>2, AfterPutPlaced
<1>4. /\ Running /\ call[c].op \notin Releasing /\ (call' = call \/ Goes(c, g))
      /\ UNCHANGED <<tree, value, length, fix, fault, breach>>
  BY DEF Update, CanCall, Releasing, shape, f
<1> HIDE DEF g
<1>5. CASE call' = call
  BY <1>4, <1>5, StutterKeeps
<1>6. CASE Goes(c, g)
  BY <1>3, <1>4, <1>6, QuietKeeps
<1> QED BY <1>4, <1>5, <1>6

\* A call that gives up, or answers and leaves everything as it was.
LEMMA ReturnKeeps ==
  ASSUME IInv, NEW c \in Callers, Running, call[c].op \notin Releasing, Returns(c),
         UNCHANGED <<tree, value, length, fix, fault, breach>>
  PROVE  IInv'
<1>1. Placed(tree, value, Idle) /\ Counted(Present(value), Idle) /\ Idle.op \notin Releasing
  BY IdlePlaced DEF Releasing
<1>2. Goes(c, Idle)
  BY DEF Returns
<1> QED BY <1>1, <1>2, QuietKeeps

\* The calls that only answer.
LEMMA AnswerKeeps ==
  ASSUME IInv, NEW c \in Callers,
         Fails(c) \/ Found(c) \/ NotFound(c) \/ NoMemory(c) \/ Peek(c) \/ ListEmpty(c)
  PROVE  IInv'
<1>1. /\ Running /\ call[c].op \notin Releasing /\ Returns(c)
      /\ UNCHANGED <<tree, value, length, fix, fault, breach>>
  BY DEF Fails, Found, NotFound, NoMemory, Peek, ListEmpty, Allocated, Descending, Inside, shape,
         Searches, Puts, Pairs, Lists, Releasing
<1> QED BY <1>1, ReturnKeeps

\* len() changes nothing.
LEMMA SizeKeeps ==
  ASSUME IInv, NEW c \in Callers, Size(c) PROVE IInv'
<1>1. UNCHANGED <<tree, value, length, fix, fault, breach, call>>
  BY DEF Size, shape
<1> QED BY <1>1, StutterKeeps

\* setdefault() and setnx() go on with a put.
LEMMA PutAbsentKeeps ==
  ASSUME IInv, NEW c \in Callers, PutAbsent(c) PROVE IInv'
<1> DEFINE f == call[c]
<1>1. Running /\ f.op \in {"setdefault", "setnx"} /\ UNCHANGED <<tree, value, length, fix, fault, breach>>
  BY DEF PutAbsent, Descending, Inside, shape
<1>2. PICK g : /\ Goes(c, g) /\ g.op \in Puts /\ g.key = f.key /\ g.node = Nil /\ g.list = <<>>
               /\ IF f.op = "setdefault" THEN g.val = f.val ELSE g.val \in Values
  <2>1. CASE f.op = "setdefault"
    BY <2>1 DEF PutAbsent, Frame, Puts
  <2>2. CASE f.op # "setdefault"
    <3>1. PICK v \in Values : Goes(c, Frame("setnx_put", f.key, v, Nil, 0, <<>>))
      BY <2>2 DEF PutAbsent
    <3> DEFINE g == Frame("setnx_put", f.key, v, Nil, 0, <<>>)
    <3>2. g.op \in Puts /\ g.key = f.key /\ g.node = Nil /\ g.list = <<>> /\ g.val \in Values
      BY DEF Frame, Puts
    <3> HIDE DEF g
    <3>3. Goes(c, g)
      BY <3>1 DEF g
    <3> QED BY <2>2, <3>2, <3>3
  <2> QED BY <2>1, <2>2
<1>3. <<>> \in Seq(Keys \X Values)
  OBVIOUS
<1>4. ASSUME Framed PROVE Placed(tree, value, g)
  <2>1. Placed(tree, value, f)
    BY <1>4 DEF Framed
  <2>2. f.key \in Keys /\ (f.op = "setdefault" => f.val \in Values)
    BY <1>1, <2>1 DEF Placed, Searches
  <2> QED BY <1>2, <1>3, <2>2, PutPlaced
<1>5. Counted(Present(value), g) /\ g.op \notin Releasing /\ f.op \notin Releasing
  BY <1>1, <1>2 DEF Counted, Puts, Lists, Releasing
<1> QED BY <1>1, <1>2, <1>4, <1>5, QuietKeeps

-----------------------------------------------------------------------------
(* Descents *)

\* A tree that a loop is repairing links the keys of the map, too.
LEMMA TreeIs ==
  ASSUME NEW rk, TreeIn(rk)
  PROVE  /\ \E u : Search(rk, tree, Present(value), u)
         /\ fix = NoFix => SortedTree(rk, tree, Present(value))
<1>1. CASE fix = NoFix /\ SortedTree(rk, tree, Present(value))
  BY <1>1 DEF SortedTree
<1>2. CASE fix.kind = "insert" /\ InsertTree(rk, tree, Present(value), fix.at)
  BY <1>2 DEF InsertTree, NoFix, Fix
<1>3. CASE fix.kind = "delete" /\ DeleteTree(rk, tree, Present(value), fix.at, fix.root)
  BY <1>3 DEF DeleteTree, NoFix, Fix
<1> QED BY <1>1, <1>2, <1>3 DEF TreeIn

\* The keys of the map are those linked, in their order.
LEMMA Certified ==
  ASSUME Framed, TreeKept
  PROVE  /\ \E u : Search(Natural, tree, Present(value), u)
         /\ fix = NoFix => SortedTree(Natural, tree, Present(value))
  BY TreeIs DEF TreeKept

\* What a frame knows of its key, in terms of the certificate.
LEMMA BelongsFits ==
  ASSUME NEW t, NEW L, NEW u, Search(Natural, t, L, u), NEW n \in L \cup {Nil}, NEW k
  PROVE  Belongs(L, Subtree(t, n), k) <=> Fits(Natural, L, u, n, k)
  BY SubtreeIs DEF Belongs, Fits

\* A descent goes to the side of the key.
LEMMA SideAtIs ==
  ASSUME NEW f, f.key \in Int, f.node \in Int, f.key # f.node
  PROVE  SideAt(f) \in Sides /\ Before(Natural, SideAt(f), f.key, f.node)
  BY NaturalIs DEF SideAt, Sides, Before

\* Below the node that a descent goes to, its key still belongs.
LEMMA DescendKeeps ==
  ASSUME IInv, NEW c \in Callers, Descend(c) PROVE IInv'
<1> DEFINE f == call[c]
           g == At(f, Below(f))
<1>1. /\ Running /\ f.op \in Searches \cup Puts /\ f.node # NULL /\ f.node # f.key
      /\ Below(f) # Nil /\ Goes(c, g)
      /\ UNCHANGED <<tree, value, length, fix, fault, breach>>
  BY DEF Descend, Descending, Inside, Dangling, Hit, Miss, shape
<1>2. /\ g.op = f.op /\ g.key = f.key /\ g.val = f.val /\ g.node = Below(f)
      /\ g.count = f.count /\ g.list = f.list
  BY DEF At, Frame
<1> HIDE DEF g
<1>3. ASSUME Framed, TreeKept PROVE Placed(tree, value, g)
  <2> DEFINE L == Present(value)
             m == Below(f)
  <2>1. PICK u : Search(Natural, tree, L, u)
    BY <1>3, Certified
  <2>2. Placed(tree, value, f)
    BY <1>3 DEF Framed
  <2>3. /\ f.key \in Keys /\ f.key \in Int
        /\ f.node # Nil => f.node \in L /\ Belongs(L, Subtree(tree, f.node), f.key)
    BY <1>1, <2>2, KeysAssumption DEF Placed
  <2>4. m \in L /\ Belongs(L, Subtree(tree, m), f.key)
    <3>1. CASE f.node = Nil
      <4>1. m = tree.root /\ m # Nil
        BY <1>1, <3>1 DEF Below
      <4>2. tree.root \in L \cup {Nil}
        BY <2>1, Facts
      <4>3. Fits(Natural, L, u, tree.root, f.key)
        BY <2>1, FitsRoot
      <4> HIDE DEF L, m
      <4> QED BY <2>1, <4>1, <4>2, <4>3, BelongsFits
    <3>2. CASE f.node # Nil
      <4> DEFINE n == f.node
                 s == SideAt(f)
                 k == f.key
      <4>1. n \in L /\ n \in Int /\ k \in Int /\ m = tree.kid[n][s] /\ m # Nil /\ k # n
        BY <1>1, <2>1, <2>3, <3>2, Facts DEF Below
      <4>2. s \in Sides /\ Before(Natural, s, k, n)
        BY <1>1, <4>1, SideAtIs
      <4>3. Belongs(L, Subtree(tree, n), k)
        BY <2>3, <3>2
      <4> HIDE DEF L, m, n, s, k
      <4>4. Fits(Natural, L, u, n, k)
        BY <2>1, <4>1, <4>3, BelongsFits
      <4>5. Fits(Natural, L, u, m, k)
        BY <2>1, <4>1, <4>2, <4>4, FitsBelow
      <4>6. m \in L
        BY <2>1, <4>1, <4>2, KidFacts
      <4> QED BY <2>1, <4>5, <4>6, BelongsFits DEF k
    <3> QED BY <3>1, <3>2
  <2> QED BY <1>1, <1>2, <2>2, <2>4 DEF Placed, Searches, Puts, Pairs, Lists, Releasing
<1>4. Counted(Present(value), g) /\ g.op \notin Releasing /\ f.op \notin Releasing
  BY <1>1, <1>2 DEF Counted, Searches, Puts, Lists, Releasing
<1> QED BY <1>1, <1>3, <1>4, QuietKeeps

\* A method that found no place below its node has looked for a key that the
\* map does not hold.
LEMMA MissIs ==
  ASSUME Framed, TreeKept, fix = NoFix, NEW c \in Callers, call[c].op \in Searches \cup Puts,
         call[c].node # NULL, Miss(call[c])
  PROVE  /\ call[c].key \in Keys \ Present(value)
         /\ call[c].node = Nil => tree.root = Nil
         /\ call[c].node # Nil =>
              /\ call[c].node \in Present(value) /\ SideAt(call[c]) \in Sides
              /\ tree.kid[call[c].node][SideAt(call[c])] = Nil
              /\ Before(Natural, SideAt(call[c]), call[c].key, call[c].node)
              /\ Belongs(Present(value), Subtree(tree, call[c].node), call[c].key)
<1> DEFINE f == call[c]
           L == Present(value)
<1>1. PICK u : Search(Natural, tree, L, u)
  BY Certified
<1>2. Placed(tree, value, f)
  BY DEF Framed
<1>3. /\ f.key \in Keys /\ f.key \in Int
      /\ f.node # Nil => f.node \in L /\ Belongs(L, Subtree(tree, f.node), f.key)
  BY <1>2, KeysAssumption DEF Placed
<1>4. f.node # f.key /\ Below(f) = Nil
  BY DEF Miss, Hit
<1>5. CASE f.node = Nil
  <2>1. tree.root = Nil
    BY <1>4, <1>5 DEF Below
  <2>2. L = {}
    BY <1>1, <2>1, Facts
  <2> QED BY <1>3, <1>5, <2>1, <2>2
<1>6. CASE f.node # Nil
  <2> DEFINE n == f.node
             s == SideAt(f)
             k == f.key
  <2>1. n \in L /\ n \in Int /\ k \in Int /\ k \in Keys /\ tree.kid[n][s] = Nil
    BY <1>1, <1>3, <1>4, <1>6, Facts DEF Below
  <2>2. s \in Sides /\ Before(Natural, s, k, n)
    BY <1>4, <2>1, SideAtIs
  <2>3. Belongs(L, Subtree(tree, n), k)
    BY <1>3, <1>6
  <2> HIDE DEF L, n, s, k
  <2>4. Fits(Natural, L, u, n, k)
    BY <1>1, <2>1, <2>3, BelongsFits
  <2>5. k \notin L
    BY <1>1, <2>1, <2>2, <2>4, FitsMiss
  <2>6. k \in Keys \ L
    BY <2>1, <2>5
  <2> QED BY <1>6, <2>1, <2>2, <2>3, <2>6 DEF k, n, s, L
<1> QED BY <1>5, <1>6

-----------------------------------------------------------------------------
(* Puts and the loops *)

\* The frame of a method that lists nothing is right for any set of keys.
LEMMA CountedStill ==
  ASSUME NEW f, ~Points(f), NEW L PROVE Counted(L, f)
  BY DEF Points, Counted, Lists

\* The map and the calls that remove are finite.
LEMMA FiniteSets ==
  /\ IsFiniteSet(Present(value)) /\ Cardinality(Present(value)) \in Nat
  /\ IsFiniteSet(Removals) /\ Cardinality(Removals) \in Nat
<1>1. Present(value) \subseteq Keys /\ Removals \subseteq Callers
  BY DEF Present, Removals
<1>2. IsFiniteSet(Present(value)) /\ IsFiniteSet(Removals)
  BY <1>1, KeysAssumption, CallersAssumption, FS_Subset
<1> QED BY <1>2, FS_CardinalityType

\* What a put that replaces a value changes, and what it does not.
LEMMA ReplacedIs ==
  ASSUME IInv, NEW c \in Callers, Replaced(c), "overlap" \notin breach'
  PROVE  LET f == call[c]
             g == AfterPut(f)
             L == Present(value)
         IN  /\ Framed /\ TreeKept /\ Framed' /\ TreeKept' /\ Present(value') = L
             /\ \A M : Counted(M, g)
             /\ g.op \notin Releasing
<1> DEFINE f == call[c]
           g == AfterPut(f)
           L == Present(value)
<1>0. /\ Running /\ fault = "none" /\ fix = NoFix /\ f.op \in Puts /\ f.node = f.key
      /\ value' = [value EXCEPT ![f.key] = f.val] /\ Goes(c, g)
      /\ UNCHANGED <<tree, length, fix, fault>>
      /\ breach' = IF \E d \in Callers : call[d].op = "popitem" /\ call[d].node = f.key
                   THEN breach \cup {"overlap"} ELSE breach
  BY DEF Replaced, Descending, Inside, Running, Hit
<1>1. "overlap" \notin breach /\ \A d \in Callers : call[d].op = "popitem" => call[d].node # f.key
  BY <1>0
<1>2. Framed /\ TreeKept
  BY <1>0, <1>1 DEF IInv
<1>3. Placed(tree, value, f)
  BY <1>2 DEF Framed
<1>4. f.key \in L /\ f.key \in Keys /\ f.val \in Values /\ f.list \in Seq(Keys \X Values)
  BY <1>0, <1>3, NilAssumption DEF Placed
<1>5. value' \in [Keys -> Values \cup {NULL}] /\ value'[f.key] = f.val /\ f.val # NULL
      /\ \A k \in Keys : k # f.key => value'[k] = value[k]
  BY <1>0, <1>2, <1>4, ValuesAssumption DEF Framed
<1>6. Present(value') = L
  BY <1>4, <1>5 DEF Present
<1>7. /\ Placed(tree', value', g) /\ g.op \notin Releasing /\ \A M : Counted(M, g)
  BY <1>4, AfterPutPlaced
<1>8. \A d \in Callers : call'[d] = IF d = c THEN g ELSE call[d]
  BY <1>0, <1>2 DEF Framed, Goes
<1>9. ASSUME NEW d \in Callers, d # c PROVE Placed(tree', value', call'[d])
  <2>1. Placed(tree, value, call[d]) /\ call'[d] = call[d] /\ tree' = tree
    BY <1>0, <1>2, <1>8, <1>9 DEF Framed
  <2>2. call[d].op = "popitem" => call[d].node # f.key /\ call[d].node \in Keys
    BY <1>1, <2>1 DEF Placed, Pairs, Present
  <2>3. call[d].op = "popitem" => call[d].val = value'[call[d].node]
    BY <1>5, <2>1, <2>2 DEF Placed
  <2> QED BY <1>6, <2>1, <2>3 DEF Placed
<1>10. call' = [d \in Callers |-> call'[d]]
  BY <1>0, <1>2 DEF Framed, Goes
<1>11. fix' = NoFix
  BY <1>0
<1>12. Framed'
  BY <1>5, <1>7, <1>8, <1>9, <1>10, <1>11 DEF Framed
<1>13. TreeKept'
  BY <1>0, <1>2, <1>6 DEF TreeKept, TreeIn
<1> QED BY <1>2, <1>6, <1>7, <1>12, <1>13

\* Replacing a value leaves the keys alone.
LEMMA ReplacedKeeps ==
  ASSUME IInv, NEW c \in Callers, Replaced(c) PROVE IInv'
<1> DEFINE f == call[c]
           g == AfterPut(f)
           L == Present(value)
<1>1. /\ Running /\ fault = "none" /\ fix = NoFix /\ f.op \in Puts /\ f.node = f.key
      /\ value' = [value EXCEPT ![f.key] = f.val] /\ Goes(c, g)
      /\ UNCHANGED <<tree, length, fix, fault>>
      /\ breach' = IF \E d \in Callers : call[d].op = "popitem" /\ call[d].node = f.key
                   THEN breach \cup {"overlap"} ELSE breach
  BY DEF Replaced, Descending, Inside, Running, Hit
<1>2. OverlapExplains'
  BY <1>1 DEF OverlapExplains
<1>3. ASSUME "overlap" \notin breach'
      PROVE  /\ Framed /\ TreeKept /\ Framed' /\ TreeKept' /\ Present(value') = L
             /\ \A M : Counted(M, g)
             /\ g.op \notin Releasing
  <2> QED BY <1>3, ReplacedIs
<1>4. ASSUME breach' = {} PROVE Counts'
  <2>1. breach = {} /\ Framed /\ Counts /\ Present(value') = L /\ g.op \notin Releasing
        /\ \A M : Counted(M, g)
    BY <1>1, <1>3, <1>4 DEF IInv, Kept
  <2>2. \A d \in Callers : call'[d] = IF d = c THEN g ELSE call[d]
    BY <1>1, <2>1 DEF Framed, Goes
  <2>3. \A d \in Callers : /\ call'[d].op = "removed" <=> call[d].op = "removed"
                           /\ call'[d].op = "cleared" <=> call[d].op = "cleared"
    BY <1>1, <2>1, <2>2 DEF Releasing, Puts
  <2>4. Removals' = Removals /\ (Clearing' <=> Clearing)
    BY <2>3 DEF Removals, Clearing
  <2>5. \A d \in Callers : Counted(Present(value'), call'[d])
    BY <2>1, <2>2 DEF Counts
  <2> QED BY <1>1, <2>1, <2>3, <2>4, <2>5 DEF Counts
<1> QED BY <1>1, <1>2, <1>3, <1>4 DEF IInv, Kept

\* What a put that links a node changes.
LEMMA LinkNodeIs ==
  ASSUME IInv, NEW c \in Callers, LinkNode(c), "overlap" \notin breach'
  PROVE  LET f == call[c]
             g == AfterPut(f)
             k == f.key
             L == Present(value)
         IN  /\ fault' = "none" /\ Framed /\ TreeKept' /\ Framed' /\ k \in Keys \ L
             /\ Present(value') = L \cup {k}
             /\ \A d \in Callers : call'[d] = IF d = c THEN g ELSE call[d]
             /\ \A d \in Callers : ~Points(call'[d])
             /\ g.op \notin Releasing
<1> DEFINE f == call[c]
           g == AfterPut(f)
           k == f.key
           y == f.node
           s == IF f.node = Nil THEN "left" ELSE SideAt(f)
           L == Present(value)
<1>0. /\ Running /\ fault = "none" /\ fix = NoFix /\ f.op \in Puts /\ f.node # NULL /\ Miss(f)
      /\ tree' = Link(tree, k, y, s) /\ value' = [value EXCEPT ![k] = f.val] /\ Goes(c, g)
      /\ fix' = Fix("insert", k, Nil) /\ length' = length + 1
      /\ fault' = IF value[k] # NULL THEN "duplicate_key" ELSE fault
      /\ breach' = breach \cup Overlap(c) \cup Nested({"cleared"})
  BY DEF LinkNode, Linking, Descending, Inside, Running, Dangling
<1>1. "overlap" \notin breach /\ "overlap" \notin Overlap(c)
  BY <1>0
<1>2. Framed /\ TreeKept /\ \A d \in Callers \ {c} : ~Points(call[d])
  BY <1>0, <1>1 DEF IInv, Overlap, Pointing, Points
<1>3. Placed(tree, value, f)
  BY <1>2 DEF Framed
<1>4. f.val \in Values /\ f.list \in Seq(Keys \X Values)
  BY <1>0, <1>3 DEF Placed
<1>5. /\ k \in Keys \ L
      /\ y = Nil => tree.root = Nil
      /\ y # Nil => /\ y \in L /\ s \in Sides /\ tree.kid[y][s] = Nil
                    /\ Before(Natural, s, k, y) /\ Belongs(L, Subtree(tree, y), k)
  BY <1>0, <1>2, MissIs
<1>6. value[k] = NULL /\ k \in Keys
  BY <1>5 DEF Present
<1>7. value' \in [Keys -> Values \cup {NULL}] /\ value'[k] = f.val /\ f.val # NULL
      /\ \A j \in Keys : j # k => value'[j] = value[j]
  BY <1>0, <1>2, <1>4, <1>6, ValuesAssumption DEF Framed
<1>8. Present(value') = L \cup {k}
  BY <1>6, <1>7 DEF Present
<1>9. /\ Placed(tree', value', g) /\ g.op \notin Releasing /\ ~Points(g)
  BY <1>4, AfterPutPlaced
<1>10. /\ call' = [d \in Callers |-> call'[d]]
       /\ \A d \in Callers : call'[d] = IF d = c THEN g ELSE call[d]
  BY <1>0, <1>2 DEF Framed, Goes
<1>11. \A d \in Callers : ~Points(call'[d])
  BY <1>2, <1>9, <1>10
<1>12. \A d \in Callers : Placed(tree', value', call'[d])
  <2>1. \A d \in Callers \ {c} : Placed(tree, value, call[d]) /\ ~Points(call[d])
    BY <1>2 DEF Framed
  <2>2. \A d \in Callers \ {c} : Placed(tree', value', call[d])
    BY <2>1, PlacedStill
  <2> QED BY <1>9, <1>10, <2>2
<1>13. fix'.kind = "insert" /\ fix'.at = k
  BY <1>0 DEF Fix
<1>14. Framed'
  BY <1>7, <1>10, <1>11, <1>12, <1>13 DEF Framed
<1>15. InsertTree(Natural, tree', L \cup {k}, k)
  <2>1. SortedTree(Natural, tree, L)
    BY <1>0, <1>2, Certified
  <2>2. PICK u, h : Search(Natural, tree, L, u) /\ Balance(tree, L, h)
    BY <2>1 DEF SortedTree
  <2>3. y \in L \cup {Nil} /\ s \in Sides
    BY <1>5 DEF Sides
  <2> DEFINE r == Link(tree, k, y, s)
  <2>r. r = Link(tree, k, y, s) /\ tree' = r
    BY <1>0
  <2>5. y # Nil => Belongs(L, Subtree(tree, y), k)
    BY <1>5
  <2>6. /\ y = Nil => tree.root = Nil
        /\ y # Nil => tree.kid[y][s] = Nil /\ Before(Natural, s, k, y)
    BY <1>5
  <2> HIDE DEF L, k, y, s, r
  <2>7. y # Nil => Fits(Natural, L, u, y, k)
    BY <2>2, <2>3, <2>5, BelongsFits
  <2>8. InsertTree(Natural, r, L \cup {k}, k)
    BY <1>5, <2>2, <2>3, <2>6, <2>7, <2>r, LinkKeeps
  <2> QED BY <2>8, <2>r
<1>16. TreeKept'
  BY <1>8, <1>13, <1>15 DEF TreeKept, TreeIn
<1> QED BY <1>0, <1>2, <1>5, <1>6, <1>8, <1>9, <1>10, <1>11, <1>14, <1>16

\* RBTree_PutNode: the new node is linked where its key belongs, and its key is new.
LEMMA LinkNodeKeeps ==
  ASSUME IInv, NEW c \in Callers, LinkNode(c) PROVE IInv'
<1> DEFINE f == call[c]
           g == AfterPut(f)
           k == f.key
           L == Present(value)
<1>1. /\ Running /\ fault = "none" /\ f.op \in Puts /\ length' = length + 1
      /\ breach' = breach \cup Overlap(c) \cup Nested({"cleared"})
  BY DEF LinkNode, Linking, Descending, Inside, Running
<1>2. ASSUME "overlap" \notin breach'
      PROVE  /\ fault' = "none" /\ Framed /\ TreeKept' /\ Framed' /\ k \in Keys \ L
             /\ Present(value') = L \cup {k}
             /\ \A d \in Callers : call'[d] = IF d = c THEN g ELSE call[d]
             /\ \A d \in Callers : ~Points(call'[d])
             /\ g.op \notin Releasing
  <2> QED BY <1>2, LinkNodeIs
<1>3. OverlapExplains'
  BY <1>2 DEF OverlapExplains
<1>4. ASSUME breach' = {} PROVE fault' = "none" /\ Counts'
  <2>1. /\ breach = {} /\ fault' = "none" /\ Framed /\ Counts
        /\ k \in Keys \ L /\ Present(value') = L \cup {k}
        /\ \A d \in Callers : call'[d] = IF d = c THEN g ELSE call[d]
        /\ \A d \in Callers : ~Points(call'[d])
        /\ g.op \notin Releasing /\ Nested({"cleared"}) = {}
    BY <1>1, <1>2, <1>4 DEF IInv, Kept
  <2>2. \A d \in Callers : /\ call'[d].op = "removed" <=> call[d].op = "removed"
                           /\ call'[d].op = "cleared" <=> call[d].op = "cleared"
    BY <1>1, <2>1 DEF Releasing, Puts
  <2>3. Removals' = Removals /\ ~Clearing /\ ~Clearing'
    <3>1. ~Clearing
      BY <2>1 DEF Nested, Clearing
    <3> QED BY <2>2, <3>1 DEF Removals, Clearing
  <2>4. \A d \in Callers : Counted(Present(value'), call'[d])
    BY <2>1, CountedStill
  <2>5. Cardinality(L \cup {k}) = Cardinality(L) + 1
    BY <2>1, FiniteSets, FS_AddElement
  <2>6. length \in Int /\ length = Cardinality(L) + Cardinality(Removals)
    BY <2>1, <2>3 DEF Counts
  <2>7. Cardinality(L) \in Nat /\ Cardinality(Removals) \in Nat
    BY FiniteSets
  <2>8. length' = Cardinality(L \cup {k}) + Cardinality(Removals) /\ length' \in Int
    BY <1>1, <2>5, <2>6, <2>7
  <2> QED BY <2>1, <2>3, <2>4, <2>8 DEF Counts
<1> QED BY <1>2, <1>3, <1>4 DEF IInv, Kept

\* An iteration of a loop, and its end, keep the order and the invariant of the loop.
LEMMA LoopTree ==
  ASSUME NEW rk \in Rankings, TreeIn(rk), FixInsert \/ FixDelete PROVE TreeIn(rk)'
<1> DEFINE L == Present(value)
<1>1. UNCHANGED value
  BY DEF FixInsert, FixDelete
<1>2. ASSUME FixInsert PROVE TreeIn(rk)'
  <2>1. fix.kind = "insert" /\ InsertTree(rk, tree, L, fix.at)
    BY <1>2 DEF TreeIn, FixInsert, NoFix, Fix
  <2>2. CASE InsertFixGoesOn(tree, fix.at)
    <3>1. PICK u, h : Search(rk, tree, L, u) /\ Inserting(tree, L, h, fix.at)
      BY <2>1 DEF InsertTree
    <3> DEFINE r == InsertFix(tree, fix.at)
    <3>2. InsertTree(rk, r.tree, L, r.at)
      <4> HIDE DEF L
      <4> QED BY <2>2, <3>1, InsertFixKeeps
    <3>3. tree' = r.tree /\ fix' = Fix("insert", r.at, Nil)
      BY <1>2, <2>2 DEF FixInsert
    <3> HIDE DEF r
    <3>4. fix'.kind = "insert" /\ fix'.at = r.at
      BY <3>3 DEF Fix
    <3> QED BY <1>1, <3>2, <3>3, <3>4 DEF TreeIn
  <2>3. CASE ~InsertFixGoesOn(tree, fix.at)
    <3> DEFINE r == SetColor(tree, tree.root, "black")
    <3>1. SortedTree(rk, r, L)
      <4> HIDE DEF L
      <4> QED BY <2>1, <2>3, InsertFixEnds
    <3>2. tree' = r /\ fix' = NoFix
      BY <1>2, <2>3 DEF FixInsert
    <3> HIDE DEF r
    <3> QED BY <1>1, <3>1, <3>2 DEF TreeIn
  <2> QED BY <2>2, <2>3
<1>3. ASSUME FixDelete PROVE TreeIn(rk)'
  <2>1. fix.kind = "delete" /\ DeleteTree(rk, tree, L, fix.at, fix.root)
    BY <1>3 DEF TreeIn, FixDelete, NoFix, Fix
  <2>2. CASE DeleteFixGoesOn(tree, fix.at, fix.root)
    <3> DEFINE r == DeleteFix(tree, fix.at, fix.root)
    <3>1. DeleteTree(rk, r.tree, L, r.at, fix.root)
      <4> HIDE DEF L
      <4> QED BY <2>1, <2>2, DeleteFixKeeps
    <3>2. tree' = r.tree /\ fix' = Fix("delete", r.at, fix.root)
      BY <1>3, <2>2 DEF FixDelete
    <3> HIDE DEF r
    <3>3. fix'.kind = "delete" /\ fix'.at = r.at /\ fix'.root = fix.root
      BY <3>2 DEF Fix
    <3> QED BY <1>1, <3>1, <3>2, <3>3 DEF TreeIn
  <2>3. CASE ~DeleteFixGoesOn(tree, fix.at, fix.root)
    <3> DEFINE r == SetColor(tree, fix.at, "black")
    <3>1. SortedTree(rk, r, L)
      <4> HIDE DEF L
      <4> QED BY <2>1, <2>3, DeleteFixEnds
    <3>2. tree' = r /\ fix' = NoFix
      BY <1>3, <2>3 DEF FixDelete
    <3> HIDE DEF r
    <3> QED BY <1>1, <3>1, <3>2 DEF TreeIn
  <2> QED BY <2>2, <2>3
<1> QED BY <1>2, <1>3

\* An iteration of a loop, and its end, change the links and nothing else.
LEMMA LoopKeeps ==
  ASSUME IInv, FixInsert \/ FixDelete PROVE IInv'
<1>1. UNCHANGED <<value, length, call, breach, fault>> /\ fix.kind \in {"insert", "delete"}
  BY DEF FixInsert, FixDelete
<1>2. fix # NoFix
  BY <1>1 DEF NoFix, Fix
<1>3. fix' = NoFix \/ fix'.kind \in {"insert", "delete"}
  BY DEF FixInsert, FixDelete, Fix
<1>4. ASSUME Framed PROVE Framed'
  <2>1. \A d \in Callers : ~Points(call[d]) /\ Placed(tree, value, call[d])
    BY <1>2, <1>4 DEF Framed
  <2>2. \A d \in Callers : Placed(tree', value', call'[d])
    BY <1>1, <2>1, PlacedStill
  <2> QED BY <1>1, <1>3, <1>4, <2>1, <2>2 DEF Framed
<1>5. TreeKept => TreeKept'
  BY LoopTree DEF TreeKept
<1>6. Counts => Counts'
  BY <1>1 DEF Counts, Clearing, Removals
<1> QED BY <1>1, <1>4, <1>5, <1>6 DEF IInv, OverlapExplains, Kept

-----------------------------------------------------------------------------
(* Removals *)

\* A tree without nodes is red-black.
LEMMA EmptyTree ==
  ASSUME NEW rk \in Rankings, NEW t \in Trees, t.root = Nil, t.color[Nil] = "black",
         \A k \in Keys : t.parent[k] = NULL /\ \A s \in Sides : t.kid[k][s] = NULL
  PROVE  SortedTree(rk, t, {})
<1> DEFINE u == [n \in Nodes |-> {}]
           h == [n \in Nodes |-> 1]
<1>1. u \in [Nodes -> SUBSET {}] /\ u[Nil] = {} /\ u[t.root] = {} /\ Nil \in Nodes
  BY DEF Nodes
<1>2. KidsOK(rk, t, {}, u) /\ ParentsOK(t, {}) /\ Enclosed(t, {}, u)
  BY DEF KidsOK, ParentsOK, Enclosed
<1>3. Search(rk, t, {}, u)
  BY <1>1, <1>2 DEF Search
<1>4. Heights(t, {}, h, NULL, "left")
  BY <1>1 DEF Heights
<1>5. IsBlack(t, Nil) /\ IsBlack(t, t.root)
  BY DEF IsBlack, IsRed
<1>6. Balance(t, {}, h)
  BY <1>4, <1>5 DEF Balance
<1> QED BY <1>3, <1>6 DEF SortedTree

\* The last node leaves an empty tree.
LEMMA LastGoes ==
  ASSUME NEW rk \in Rankings, NEW t, NEW n \in Keys, SortedTree(rk, t, {n}),
         NEW r, r = Forget(Tree(Nil, t.kid, t.parent, t.color), n)
  PROVE  SortedTree(rk, r, {})
<1> DEFINE q == Tree(Nil, t.kid, t.parent, t.color)
<1>1. PICK u, h : Search(rk, t, {n}, u) /\ Balance(t, {n}, h)
  BY DEF SortedTree
<1>2. t \in Trees /\ n \in Nodes /\ n # Nil /\ Nil \in Nodes
  BY <1>1, NilAssumption, Facts DEF Nodes
<1>3. q \in Trees /\ q.root = Nil /\ q.kid = t.kid /\ q.parent = t.parent /\ q.color = t.color
  BY <1>2 DEF Trees, Tree
<1>q. r = Forget(q, n)
  OBVIOUS
<1> HIDE DEF q
<1>4. r \in Trees
  BY <1>2, <1>3, <1>q, ForgetType
<1>5. /\ r.root = Nil /\ r.color[Nil] = q.color[Nil]
      /\ \A m \in Nodes, d \in Sides : r.kid[m][d] = IF m = n THEN NULL ELSE q.kid[m][d]
      /\ \A m \in Nodes : r.parent[m] = IF m = n THEN NULL ELSE q.parent[m]
  BY <1>2, <1>3, <1>q, ForgetIs
<1>6. t.color[Nil] = "black"
  <2>1. IsBlack(t, Nil) /\ t.color[Nil] \in {"red", "black"}
    BY <1>1, <1>2 DEF Balance, Trees
  <2> QED BY <2>1 DEF IsBlack, IsRed
<1>7. \A k \in Keys \ {n} : t.parent[k] = NULL /\ \A s \in Sides : t.kid[k][s] = NULL
  BY <1>1 DEF Search
<1>8. \A k \in Keys : r.parent[k] = NULL /\ \A s \in Sides : r.kid[k][s] = NULL
  BY <1>3, <1>5, <1>7 DEF Nodes
<1> QED BY <1>3, <1>4, <1>5, <1>6, <1>8, EmptyTree

\* the frame of a call that has removed a node
Gone == Frame("removed", NULL, NULL, Nil, 0, <<>>)

\* What RBTree_RemoveNode changes.
LEMMA UnlinkIs ==
  ASSUME IInv, NEW c \in Callers, NEW n, Running, call[c].op \in {"remove", "popitem"}, Unlink(c, n),
         Framed /\ TreeKept => n \in Present(value),
         Framed /\ TreeKept => fault' = IF LosesNodes(n) THEN "lost_nodes" ELSE fault,
         "overlap" \notin breach'
  PROVE  LET L == Present(value)
         IN  /\ Framed /\ TreeKept /\ Framed' /\ n \in L /\ n \in Keys /\ Linked(tree) = L
             /\ Present(value') = L \ {n}
             /\ fault' = IF LosesNodes(n) THEN "lost_nodes" ELSE fault
             /\ \A e \in Callers : call'[e] = IF e = c THEN Gone ELSE call[e]
             /\ \A e \in Callers : ~Points(call'[e])
<1> DEFINE L == Present(value)
<1>0. /\ fault = "none" /\ fix = NoFix
      /\ value' = [value EXCEPT ![n] = NULL]
      /\ breach' = breach \cup Overlap(c) \cup Nested({"cleared"})
      /\ call' = [Freed({n}) EXCEPT ![c] = Gone]
      /\ fix' = NoFix \/ \E x, r : fix' = Fix("delete", x, r)
  BY DEF Unlink, Running, Gone
<1>g. Gone.op = "removed" /\ Gone.node = Nil
  BY DEF Gone, Frame
<1>1. "overlap" \notin breach /\ "overlap" \notin Overlap(c)
  BY <1>0
<1>2. Framed /\ TreeKept /\ \A e \in Callers \ {c} : ~Points(call[e])
  BY <1>0, <1>1 DEF IInv, Overlap, Pointing, Points
<1>3. n \in L /\ n \in Keys /\ n # Nil
  BY <1>2, NilAssumption DEF Present
<1>4. PICK u : Search(Natural, tree, L, u)
  BY <1>2, Certified
<1>5. Linked(tree) = L
  <2> HIDE DEF L
  <2> QED BY <1>4, SearchIsLinked, SearchIsOrdered
<1>6. value' \in [Keys -> Values \cup {NULL}] /\ value'[n] = NULL
      /\ \A j \in Keys : j # n => value'[j] = value[j]
  BY <1>0, <1>2, <1>3 DEF Framed
<1>7. Present(value') = L \ {n}
  BY <1>6 DEF Present
<1>8. ASSUME NEW e \in Callers, e # c PROVE Placed(tree, value, call[e]) /\ call[e].node # n
  <2>1. Placed(tree, value, call[e]) /\ ~Points(call[e])
    BY <1>2, <1>8 DEF Framed
  <2>2. call[e].node = Nil
    BY <2>1 DEF Placed, Points
  <2> QED BY <1>3, <2>1, <2>2
<1>9. /\ call' = [e \in Callers |-> call'[e]]
      /\ \A e \in Callers : call'[e] = IF e = c THEN Gone ELSE call[e]
  BY <1>0, <1>8 DEF Freed
<1>10. ~Points(Gone) /\ Placed(tree', value', Gone)
  BY <1>g DEF Points, Placed, Searches, Puts, Pairs, Lists, Releasing
<1>11. \A e \in Callers : ~Points(call'[e]) /\ Placed(tree', value', call'[e])
  <2>1. \A e \in Callers \ {c} : Placed(tree, value, call[e]) /\ ~Points(call[e])
    BY <1>2, <1>8
  <2>2. \A e \in Callers \ {c} : Placed(tree', value', call[e])
    BY <2>1, PlacedStill
  <2> QED BY <1>2, <1>9, <1>10, <2>2
<1>12. fix' = NoFix \/ fix'.kind = "delete"
  BY <1>0 DEF Fix
<1>13. Framed'
  BY <1>6, <1>9, <1>11, <1>12 DEF Framed
<1> QED BY <1>2, <1>3, <1>5, <1>7, <1>9, <1>11, <1>13

\* RBTree_RemoveNode keeps the order and starts the loop in its invariant.
LEMMA UnlinkTree ==
  ASSUME NEW rk \in Rankings, TreeIn(rk), fix = NoFix, NEW c, NEW n \in Present(value), Unlink(c, n),
         ~LosesNodes(n), Linked(tree) = Present(value), Present(value') = Present(value) \ {n}
  PROVE  TreeIn(rk)'
<1> DEFINE L == Present(value)
           last == tree.root = n /\ length = 1
           d == Delete(tree, n)
<1>0. /\ last => tree' = Forget(Tree(Nil, tree.kid, tree.parent, tree.color), n) /\ fix' = NoFix
      /\ ~last => /\ tree' = Forget(d.tree, n)
                  /\ fix' = IF d.color = "black" THEN Fix("delete", d.at, d.tree.root) ELSE NoFix
  BY DEF Unlink
<1>1. n \in L /\ n \in Keys /\ Present(value') = L \ {n}
  BY DEF Present
<1>2. SortedTree(rk, tree, L)
  BY <1>0, <1>1, TreeIs
<1>3. CASE last
  <2>1. L = {n}
    BY <1>1, <1>3 DEF LosesNodes
  <2>2. SortedTree(rk, tree', {})
    BY <1>0, <1>1, <1>2, <1>3, <2>1, LastGoes
  <2>3. Present(value') = {}
    BY <1>1, <2>1
  <2> QED BY <1>0, <1>3, <2>2, <2>3 DEF TreeIn
<1>4. CASE ~last
  <2>1. PICK u, h : Search(rk, tree, L, u) /\ Balance(tree, L, h)
    BY <1>2 DEF SortedTree
  <2>2. IF d.color = "black" THEN DeleteTree(rk, Forget(d.tree, n), L \ {n}, d.at, d.tree.root)
        ELSE SortedTree(rk, Forget(d.tree, n), L \ {n})
    <3> HIDE DEF L
    <3> QED BY <1>1, <2>1, DeleteKeeps
  <2>3. tree' = Forget(d.tree, n)
        /\ fix' = IF d.color = "black" THEN Fix("delete", d.at, d.tree.root) ELSE NoFix
    BY <1>0, <1>4
  <2>4. Present(value') = L \ {n}
    BY <1>1
  <2> HIDE DEF d, L
  <2>5. CASE d.color = "black"
    <3>1. fix'.kind = "delete" /\ fix'.at = d.at /\ fix'.root = d.tree.root
      BY <2>3, <2>5 DEF Fix
    <3>2. DeleteTree(rk, tree', Present(value'), fix'.at, fix'.root)
      BY <2>2, <2>3, <2>4, <2>5, <3>1
    <3> QED BY <3>1, <3>2 DEF TreeIn
  <2>6. CASE d.color # "black"
    <3>1. fix' = NoFix /\ SortedTree(rk, tree', Present(value'))
      BY <2>2, <2>3, <2>4, <2>6
    <3> QED BY <3>1 DEF TreeIn
  <2> QED BY <2>5, <2>6
<1> QED BY <1>3, <1>4

\* RBTree_RemoveNode: node n of the map leaves the tree.
LEMMA UnlinkKeeps ==
  ASSUME IInv, NEW c \in Callers, NEW n, Running, call[c].op \in {"remove", "popitem"}, Unlink(c, n),
         length' = length,
         Framed /\ TreeKept => n \in Present(value),
         Framed /\ TreeKept => fault' = IF LosesNodes(n) THEN "lost_nodes" ELSE fault
  PROVE  IInv'
<1> DEFINE L == Present(value)
           last == tree.root = n /\ length = 1
           d == Delete(tree, n)
<1>1. /\ fault = "none" /\ fix = NoFix
      /\ value' = [value EXCEPT ![n] = NULL]
      /\ breach' = breach \cup Overlap(c) \cup Nested({"cleared"})
      /\ call' = [Freed({n}) EXCEPT ![c] = Gone]
      /\ last => tree' = Forget(Tree(Nil, tree.kid, tree.parent, tree.color), n) /\ fix' = NoFix
      /\ ~last => /\ tree' = Forget(d.tree, n)
                  /\ fix' = IF d.color = "black" THEN Fix("delete", d.at, d.tree.root) ELSE NoFix
  BY DEF Unlink, Running, Gone
<1>2. Gone.op = "removed" /\ Gone.node = Nil
  BY DEF Gone, Frame
<1>3. ASSUME "overlap" \notin breach'
      PROVE  /\ Framed /\ TreeKept /\ Framed' /\ n \in L /\ n \in Keys /\ Linked(tree) = L
             /\ Present(value') = L \ {n}
             /\ fault' = IF LosesNodes(n) THEN "lost_nodes" ELSE fault
             /\ \A e \in Callers : call'[e] = IF e = c THEN Gone ELSE call[e]
             /\ \A e \in Callers : ~Points(call'[e])
  <2> QED BY <1>3, UnlinkIs
<1>4. ASSUME "overlap" \notin breach', fault' = "none" PROVE TreeKept'
  <2>1. TreeKept /\ n \in L /\ ~LosesNodes(n) /\ Linked(tree) = L /\ Present(value') = L \ {n}
    BY <1>1, <1>3, <1>4
  <2> QED BY <1>1, <2>1, UnlinkTree DEF TreeKept
<1>5. OverlapExplains'
  <2>1. ASSUME "overlap" \notin breach' PROVE fault' \in {"none", "lost_nodes"}
    BY <1>1, <1>3, <2>1
  <2> QED BY <2>1 DEF OverlapExplains
<1>6. ASSUME breach' = {} PROVE fault' = "none" /\ Counts'
  <2>1. /\ breach = {} /\ Framed /\ Counts /\ n \in L /\ Linked(tree) = L /\ Present(value') = L \ {n}
        /\ fault' = IF LosesNodes(n) THEN "lost_nodes" ELSE fault
        /\ \A e \in Callers : call'[e] = IF e = c THEN Gone ELSE call[e]
        /\ \A e \in Callers : ~Points(call'[e])
        /\ Nested({"cleared"}) = {}
    BY <1>1, <1>3, <1>6 DEF IInv, Kept
  <2>2. ~Clearing /\ ~Clearing'
    <3>1. \A e \in Callers : call[e].op # "cleared"
      BY <2>1 DEF Nested
    <3>2. \A e \in Callers : call'[e].op # "cleared"
      BY <1>2, <2>1, <3>1
    <3> QED BY <3>1, <3>2 DEF Clearing
  <2>3. Removals' = Removals \cup {c} /\ c \notin Removals
    BY <1>2, <2>1 DEF Removals
  <2>4. /\ length \in Int /\ length = Cardinality(L) + Cardinality(Removals)
        /\ Cardinality(L) \in Nat /\ Cardinality(Removals) \in Nat
        /\ IsFiniteSet(L) /\ IsFiniteSet(Removals)
    BY <2>1, <2>2, FiniteSets DEF Counts
  <2>5. Cardinality(L \ {n}) = Cardinality(L) - 1
    BY <2>1, <2>4, FS_RemoveElement
  <2>6. Cardinality(Removals \cup {c}) = Cardinality(Removals) + 1
    BY <2>3, <2>4, FS_AddElement
  <2>7. \A e \in Callers : Counted(Present(value'), call'[e])
    BY <2>1, CountedStill
  <2>8. fault' = "none"
    <3> SUFFICES ASSUME last, L # {n} PROVE FALSE
      BY <1>1, <2>1 DEF LosesNodes
    <3>1. Cardinality(L \ {n}) = 0
      <4>1. Cardinality(L \ {n}) \in Nat
        BY <2>4, FS_RemoveElement, FS_CardinalityType
      <4> QED BY <2>4, <2>5, <4>1
    <3>2. L \ {n} = {}
      BY <2>4, <3>1, FS_RemoveElement, FS_EmptySet
    <3> QED BY <2>1, <3>2
  <2>9. length' = Cardinality(L \ {n}) + Cardinality(Removals \cup {c})
    BY <2>4, <2>5, <2>6
  <2> QED BY <2>1, <2>2, <2>3, <2>4, <2>7, <2>8, <2>9 DEF Counts
<1> QED BY <1>3, <1>4, <1>5, <1>6 DEF IInv, Kept

\* del and pop() unlink the node of their key.
LEMMA RemoveKeeps ==
  ASSUME IInv, NEW c \in Callers, Remove(c) PROVE IInv'
<1> DEFINE f == call[c]
<1>1. /\ Running /\ f.op = "remove" /\ f.node = f.key /\ Unlink(c, f.key) /\ length' = length
      /\ fault' = IF LosesNodes(f.key) THEN "lost_nodes" ELSE fault
  BY DEF Remove, Descending, Inside, Hit
<1>2. ASSUME Framed PROVE f.key \in Present(value)
  <2>1. Placed(tree, value, f)
    BY <1>2 DEF Framed
  <2> QED BY <1>1, <2>1, NilAssumption DEF Placed, Searches
<1> QED BY <1>1, <1>2, UnlinkKeeps

\* popitem() unlinks the first node.
LEMMA PopItemKeeps ==
  ASSUME IInv, NEW c \in Callers, PopItem(c) PROVE IInv'
<1> DEFINE f == call[c]
<1>1. /\ Running /\ f.op = "popitem" /\ Unlink(c, f.node) /\ length' = length
      /\ fault' = IF f.val # value[f.node] THEN "freed_value"
                  ELSE IF LosesNodes(f.node) THEN "lost_nodes" ELSE fault
  BY DEF PopItem, Inside
<1>2. ASSUME Framed PROVE f.node \in Present(value) /\ f.val = value[f.node]
  <2>1. Placed(tree, value, f)
    BY <1>2 DEF Framed
  <2> QED BY <1>1, <2>1 DEF Placed, Pairs
<1> QED BY <1>1, <1>2, UnlinkKeeps

\* The length is reduced, and what is removed is no longer counted.
LEMMA RemoveEndKeeps ==
  ASSUME IInv, NEW c \in Callers, RemoveEnd(c) PROVE IInv'
<1>1. /\ Running /\ fault = "none" /\ fix = NoFix /\ call[c].op = "removed" /\ length' = length - 1
      /\ Goes(c, Idle) /\ UNCHANGED <<tree, value, fix, breach, fault>>
  BY DEF RemoveEnd, Inside, Returns, Running
<1>2. ASSUME Framed PROVE Framed'
  BY <1>1, <1>2, IdlePlaced, FramedGoes
<1>3. TreeKept => TreeKept'
  BY <1>1 DEF TreeKept, TreeIn
<1>4. ASSUME Framed, Counts PROVE Counts'
  <2>1. \A d \in Callers : call'[d] = IF d = c THEN Idle ELSE call[d]
    BY <1>1, <1>4 DEF Framed, Goes
  <2>2. Idle.op = "idle" /\ \A L : Counted(L, Idle)
    BY IdlePlaced
  <2>3. Removals' = Removals \ {c} /\ c \in Removals /\ ~Clearing
    BY <1>1, <1>4, <2>1, <2>2 DEF Removals, Counts
  <2>4. ~Clearing'
    BY <2>1, <2>2, <2>3 DEF Clearing
  <2>5. Cardinality(Removals \ {c}) = Cardinality(Removals) - 1
    BY <2>3, FiniteSets, FS_RemoveElement
  <2>6. \A d \in Callers : Counted(Present(value'), call'[d])
    BY <1>1, <1>4, <2>1, <2>2 DEF Counts
  <2>7. length \in Int /\ length = Cardinality(Present(value)) + Cardinality(Removals)
    BY <1>4, <2>3 DEF Counts
  <2>8. length' = Cardinality(Present(value')) + Cardinality(Removals \ {c}) /\ length' \in Int
    BY <1>1, <2>5, <2>7, FiniteSets
  <2> QED BY <2>3, <2>4, <2>6, <2>8 DEF Counts
<1> QED BY <1>1, <1>2, <1>3, <1>4 DEF IInv, OverlapExplains, Kept

-----------------------------------------------------------------------------
(* Lists *)

\* An ascending list with a lesser key in front, or a greater one at the end.
LEMMA AscendsCons ==
  ASSUME NEW S \in SUBSET Int, IsFiniteSet(S), NEW q, Ascends(q, S), NEW m \in Int,
         \A k \in S : m < k
  PROVE  Ascends(<<m>> \o q, {m} \cup S)
<1> DEFINE T == {m} \cup S
           r == <<m>> \o q
           n == Len(q)
<1>1. q \in Seq(S) /\ n = Cardinality(S) /\ {q[i] : i \in 1..n} = S /\ \A i \in 1..n-1 : q[i] < q[i + 1]
  BY DEF Ascends
<1>2. n \in Nat /\ \A i \in 1..n : q[i] \in S
  BY <1>1, ElementOfSeq, LenProperties
<1>3. q \in Seq(T) /\ <<m>> \in Seq(T)
  BY <1>1, SeqMonotonic
<1>4. r \in Seq(T) /\ Len(r) = n + 1 /\ r[1] = m /\ \A i \in 2..n+1 : r[i] = q[i - 1]
  BY <1>1, <1>2, <1>3
<1>5. Cardinality(T) = n + 1
  <2>1. m \notin S /\ T = S \cup {m}
    OBVIOUS
  <2>2. Cardinality(S \cup {m}) = Cardinality(S) + 1
    BY <2>1, FS_AddElement
  <2>3. Cardinality(S) = n
    BY <1>1
  <2>4. Cardinality(T) = Cardinality(S \cup {m})
    BY <2>1
  <2> HIDE DEF T, n
  <2> QED BY <2>2, <2>3, <2>4
<1> HIDE DEF r, n
<1>6. \A i \in 1..n+1 : r[i] \in T
  <2> SUFFICES ASSUME NEW i \in 1..n+1 PROVE r[i] \in T
    OBVIOUS
  <2>1. i = 1 \/ (i \in 2..n+1 /\ i - 1 \in 1..n)
    BY <1>2
  <2> QED BY <1>2, <1>4, <2>1
<1>7. ASSUME NEW k \in T PROVE \E i \in 1..n+1 : r[i] = k
  <2>1. CASE k = m
    <3>1. 1 \in 1..n+1
      BY <1>2
    <3> QED BY <1>4, <2>1, <3>1
  <2>2. CASE k \in S
    <3>1. PICK i \in 1..n : q[i] = k
      BY <1>1, <2>2
    <3>2. i + 1 \in 2..n+1 /\ i + 1 \in 1..n+1 /\ (i + 1) - 1 = i
      BY <1>2
    <3>3. r[i + 1] = k
      BY <1>4, <3>1, <3>2
    <3> QED BY <3>2, <3>3
  <2> QED BY <2>1, <2>2
<1>8. {r[i] : i \in 1..Len(r)} = T
  <2>1. {r[i] : i \in 1..n+1} = T
    <3> HIDE DEF T
    <3> QED BY <1>6, <1>7
  <2> QED BY <1>4, <2>1
<1>9. ASSUME NEW i \in 1..Len(r)-1 PROVE r[i] < r[i + 1]
  <2>1. i \in 1..n
    BY <1>2, <1>4, <1>9
  <2>2. r[i + 1] = q[i] /\ q[i] \in S
    <3>1. i + 1 \in 2..n+1 /\ (i + 1) - 1 = i
      BY <1>2, <2>1
    <3> QED BY <1>2, <1>4, <2>1, <3>1
  <2>3. CASE i = 1
    BY <1>4, <2>2, <2>3
  <2>4. CASE i # 1
    <3>1. i \in 2..n+1 /\ i - 1 \in 1..n-1 /\ (i - 1) + 1 = i
      BY <1>2, <2>1, <2>4
    <3>2. q[i - 1] < q[(i - 1) + 1]
      BY <1>1, <3>1
    <3>3. r[i] = q[i - 1]
      BY <1>4, <3>1
    <3> QED BY <2>2, <3>1, <3>2, <3>3
  <2> QED BY <2>3, <2>4
<1>10. Ascends(r, T)
  BY <1>4, <1>5, <1>8, <1>9 DEF Ascends
<1> QED BY <1>10 DEF r

\* the same at the end of the list
LEMMA AscendsAppend ==
  ASSUME NEW S \in SUBSET Int, IsFiniteSet(S), NEW q, Ascends(q, S), NEW m \in Int,
         \A k \in S : k < m
  PROVE  Ascends(Append(q, m), S \cup {m})
<1> DEFINE T == S \cup {m}
           r == Append(q, m)
           n == Len(q)
<1>1. q \in Seq(S) /\ n = Cardinality(S) /\ {q[i] : i \in 1..n} = S /\ \A i \in 1..n-1 : q[i] < q[i + 1]
  BY DEF Ascends
<1>2. n \in Nat /\ \A i \in 1..n : q[i] \in S
  BY <1>1, ElementOfSeq, LenProperties
<1>3. q \in Seq(T) /\ m \in T
  BY <1>1, SeqMonotonic
<1>4. r \in Seq(T) /\ Len(r) = n + 1 /\ r[n + 1] = m /\ \A i \in 1..n : r[i] = q[i]
  BY <1>1, <1>2, <1>3
<1>5. Cardinality(T) = n + 1
  <2>1. m \notin S /\ T = S \cup {m}
    OBVIOUS
  <2>2. Cardinality(S \cup {m}) = Cardinality(S) + 1
    BY <2>1, FS_AddElement
  <2>3. Cardinality(S) = n
    BY <1>1
  <2>4. Cardinality(T) = Cardinality(S \cup {m})
    BY <2>1
  <2> HIDE DEF T, n
  <2> QED BY <2>2, <2>3, <2>4
<1> HIDE DEF r, n
<1>6. \A i \in 1..n+1 : r[i] \in T
  <2> SUFFICES ASSUME NEW i \in 1..n+1 PROVE r[i] \in T
    OBVIOUS
  <2>1. i = n + 1 \/ i \in 1..n
    BY <1>2
  <2> QED BY <1>2, <1>4, <2>1
<1>7. ASSUME NEW k \in T PROVE \E i \in 1..n+1 : r[i] = k
  <2>1. CASE k = m
    <3>1. n + 1 \in 1..n+1
      BY <1>2
    <3> QED BY <1>4, <2>1, <3>1
  <2>2. CASE k \in S
    <3>1. PICK i \in 1..n : q[i] = k
      BY <1>1, <2>2
    <3>2. i \in 1..n+1
      BY <1>2
    <3> QED BY <1>4, <3>1, <3>2
  <2> QED BY <2>1, <2>2
<1>8. {r[i] : i \in 1..Len(r)} = T
  <2>1. {r[i] : i \in 1..n+1} = T
    <3> HIDE DEF T
    <3> QED BY <1>6, <1>7
  <2> QED BY <1>4, <2>1
<1>9. ASSUME NEW i \in 1..Len(r)-1 PROVE r[i] < r[i + 1]
  <2>1. i \in 1..n /\ r[i] = q[i] /\ q[i] \in S
    BY <1>2, <1>4, <1>9
  <2>2. CASE i = n
    BY <1>4, <2>1, <2>2
  <2>3. CASE i # n
    <3>1. i + 1 \in 1..n /\ i \in 1..n-1
      BY <1>2, <2>1, <2>3
    <3> QED BY <1>1, <1>4, <2>1, <3>1
  <2> QED BY <2>2, <2>3
<1>10. Ascends(r, T)
  BY <1>4, <1>5, <1>8, <1>9 DEF Ascends
<1> QED BY <1>10 DEF r

\* a is the first key of L after n, NULL if n is the last
Follows(L, n, a) ==
  \/ a = NULL /\ \A k \in L : k <= n
  \/ a \in L /\ n < a /\ \A k \in L : n < k => a <= k

\* rbtree_next finds the next key.
LEMMA NextFollows ==
  ASSUME NEW t, NEW L, NEW u, Search(Natural, t, L, u), NEW n \in L
  PROVE  Follows(L, n, NextNode(t, n))
<1>1. Succ(Natural, L, n, NextNode(t, n)) /\ L \subseteq Int
  BY NextIs, Facts
<1> QED BY <1>1, NaturalIs DEF Succ, Follows

\* what the walk from m on lists
UpFrom(L, m) == {k \in L : m <= k}

\* What is from m on is m and what is from the next node on.
LEMMA UpStep ==
  ASSUME NEW L \in SUBSET Int, IsFiniteSet(L), NULL \notin L, NEW m \in L, NEW a, Follows(L, m, a)
  PROVE  /\ Cardinality(UpFrom(L, m)) \in Nat /\ Cardinality(UpFrom(L, m)) <= Cardinality(L)
         /\ a = NULL => UpFrom(L, m) = {m} /\ Cardinality(UpFrom(L, m)) = 1
         /\ a # NULL => /\ a \in L /\ UpFrom(L, m) = {m} \cup UpFrom(L, a)
                        /\ \A k \in UpFrom(L, a) : m < k
                        /\ Cardinality(UpFrom(L, m)) = Cardinality(UpFrom(L, a)) + 1
<1>1. \A k \in L : UpFrom(L, k) \in SUBSET L /\ IsFiniteSet(UpFrom(L, k)) /\ Cardinality(UpFrom(L, k)) \in Nat
  BY FS_Subset, FS_CardinalityType DEF UpFrom
<1>2. Cardinality(UpFrom(L, m)) <= Cardinality(L)
  BY <1>1, FS_Subset
<1>3. ASSUME a = NULL PROVE UpFrom(L, m) = {m} /\ Cardinality(UpFrom(L, m)) = 1
  <2>1. UpFrom(L, m) = {m}
    <3>1. \A k \in L : k <= m
      BY <1>3 DEF Follows
    <3>2. \A k \in L : m <= k <=> k = m
      BY <3>1
    <3> QED BY <3>2 DEF UpFrom
  <2> QED BY <2>1, FS_Singleton
<1>4. ASSUME a # NULL
      PROVE  /\ a \in L /\ UpFrom(L, m) = {m} \cup UpFrom(L, a)
             /\ \A k \in UpFrom(L, a) : m < k
             /\ Cardinality(UpFrom(L, m)) = Cardinality(UpFrom(L, a)) + 1
  <2>1. a \in L /\ m < a /\ \A k \in L : m < k => a <= k
    BY <1>4 DEF Follows
  <2>2. \A k \in UpFrom(L, a) : m < k
    BY <2>1 DEF UpFrom
  <2>3. UpFrom(L, m) = {m} \cup UpFrom(L, a)
    <3>1. \A k \in L : m <= k <=> k = m \/ a <= k
      BY <2>1
    <3> QED BY <2>1, <3>1 DEF UpFrom
  <2>4. m \notin UpFrom(L, a)
    BY <2>1 DEF UpFrom
  <2>5. Cardinality(UpFrom(L, m)) = Cardinality(UpFrom(L, a)) + 1
    <3>1. UpFrom(L, m) = UpFrom(L, a) \cup {m}
      BY <2>3
    <3>2. IsFiniteSet(UpFrom(L, a))
      BY <1>1, <2>1
    <3> QED BY <2>4, <3>1, <3>2, FS_AddElement
  <2> QED BY <2>1, <2>2, <2>3, <2>5
<1> QED BY <1>1, <1>2, <1>3, <1>4

\* The recursion of From has a solution.
LEMMA WalkExists ==
  ASSUME NEW L \in SUBSET Int, IsFiniteSet(L), NULL \notin L, NEW N, \A m \in L : Follows(L, m, N[m])
  PROVE  \E f : f = [m \in L |-> IF N[m] = NULL THEN <<m>> ELSE <<m>> \o f[N[m]]]
<1>3. \A m \in L : /\ Cardinality(UpFrom(L, m)) \in Nat /\ Cardinality(UpFrom(L, m)) <= Cardinality(L)
                   /\ N[m] = NULL => Cardinality(UpFrom(L, m)) = 1
                   /\ N[m] # NULL => /\ N[m] \in L
                                     /\ Cardinality(UpFrom(L, m)) = Cardinality(UpFrom(L, N[m])) + 1
  BY UpStep
<1> DEFINE W == [L -> Seq(L)]
           a == [m \in L |-> <<>>]
           F == [x \in W |-> [m \in L |-> IF N[m] = NULL THEN <<m>> ELSE <<m>> \o x[N[m]]]]
           D == Cardinality(L)
<1>4. a \in W
  OBVIOUS
<1>5. F \in [W -> W]
  <2> SUFFICES ASSUME NEW x \in W, NEW m \in L
               PROVE  (IF N[m] = NULL THEN <<m>> ELSE <<m>> \o x[N[m]]) \in Seq(L)
    OBVIOUS
  <2>1. <<m>> \in Seq(L)
    OBVIOUS
  <2>2. CASE N[m] = NULL
    BY <2>1, <2>2
  <2>3. CASE N[m] # NULL
    <3>1. x[N[m]] \in Seq(L)
      BY <1>3, <2>3
    <3>2. <<m>> \o x[N[m]] \in Seq(L)
      BY <2>1, <3>1
    <3> QED BY <2>3, <3>2
  <2> QED BY <2>2, <2>3
<1>6. PICK X \in [0..D -> W] : X[0] = a /\ \A d \in 1..D : X[d] = F[X[d - 1]]
  <2>1. D \in Nat
    BY FS_CardinalityType
  <2> HIDE DEF W, a, F, D
  <2>2. \E X : Iterated(X, W, a, F, D)
    BY <1>4, <1>5, <2>1, Iterates
  <2> QED BY <2>2 DEF Iterated
<1> DEFINE g == [m \in L |-> X[Cardinality(UpFrom(L, m))][m]]
<1>7. ASSUME NEW m \in L PROVE g[m] = IF N[m] = NULL THEN <<m>> ELSE <<m>> \o g[N[m]]
  <2> DEFINE d == Cardinality(UpFrom(L, m))
             x == X[d - 1]
  <2>1. d \in 1..D /\ d - 1 \in 0..D
    <3>1. d \in Nat /\ d <= D /\ D \in Nat
      BY <1>3, FS_CardinalityType
    <3>2. d # 0
      <4>1. CASE N[m] = NULL
        BY <1>3, <4>1
      <4>2. CASE N[m] # NULL
        <5>1. d = Cardinality(UpFrom(L, N[m])) + 1 /\ Cardinality(UpFrom(L, N[m])) \in Nat
          BY <1>3, <4>2
        <5> QED BY <5>1
      <4> QED BY <4>1, <4>2
    <3> HIDE DEF d, D
    <3> QED BY <3>1, <3>2
  <2>2. x \in W /\ X[d] = F[x]
    BY <1>6, <2>1
  <2>3. g[m] = IF N[m] = NULL THEN <<m>> ELSE <<m>> \o x[N[m]]
    BY <2>2
  <2>4. ASSUME N[m] # NULL PROVE g[N[m]] = x[N[m]]
    <3>1. N[m] \in L /\ d = Cardinality(UpFrom(L, N[m])) + 1 /\ Cardinality(UpFrom(L, N[m])) \in Nat
      BY <1>3, <2>4
    <3>2. d - 1 = Cardinality(UpFrom(L, N[m]))
      BY <3>1
    <3> QED BY <3>1, <3>2
  <2> QED BY <2>3, <2>4
<1>8. g = [m \in L |-> g[m]]
  OBVIOUS
<1> HIDE DEF g
<1>9. g = [m \in L |-> IF N[m] = NULL THEN <<m>> ELSE <<m>> \o g[N[m]]]
  BY <1>7, <1>8
<1> QED BY <1>9

\* A walk from each key to the next one lists all keys from there on.
LEMMA WalkAscends ==
  ASSUME NEW L \in SUBSET Int, IsFiniteSet(L), NULL \notin L, NEW N, \A m \in L : Follows(L, m, N[m]),
         NEW f, f = [m \in L |-> IF N[m] = NULL THEN <<m>> ELSE <<m>> \o f[N[m]]],
         NEW n \in L
  PROVE  Ascends(f[n], UpFrom(L, n))
<1>1. \A m \in L : f[m] = IF N[m] = NULL THEN <<m>> ELSE <<m>> \o f[N[m]]
  OBVIOUS
<1>2. \A m \in L : /\ Cardinality(UpFrom(L, m)) \in Nat
                   /\ N[m] = NULL => UpFrom(L, m) = {m} /\ Cardinality(UpFrom(L, m)) = 1
                   /\ N[m] # NULL => /\ N[m] \in L /\ UpFrom(L, m) = {m} \cup UpFrom(L, N[m])
                                     /\ \A k \in UpFrom(L, N[m]) : m < k
                                     /\ Cardinality(UpFrom(L, m)) = Cardinality(UpFrom(L, N[m])) + 1
  BY UpStep
<1> DEFINE S == {m \in L : ~Ascends(f[m], UpFrom(L, m))}
           T == {Cardinality(UpFrom(L, m)) : m \in S}
<1> SUFFICES ASSUME S # {} PROVE FALSE
  OBVIOUS
<1>3. T \subseteq Nat /\ T # {}
  <2>1. PICK m \in S : TRUE
    OBVIOUS
  <2>2. Cardinality(UpFrom(L, m)) \in T
    BY <2>1
  <2>3. S \subseteq L
    OBVIOUS
  <2> HIDE DEF S
  <2>4. T \subseteq Nat
    BY <1>2, <2>3
  <2> QED BY <2>2, <2>4
<1>4. PICK d \in T : \A e \in T : d <= e
  <2> HIDE DEF T
  <2> QED BY <1>3, NatMin
<1>5. PICK m \in S : d = Cardinality(UpFrom(L, m))
  BY <1>4
<1>6. m \in L /\ m \in Int /\ ~Ascends(f[m], UpFrom(L, m)) /\ \A k \in S : d <= Cardinality(UpFrom(L, k))
  BY <1>4, <1>5
<1> HIDE DEF T
<1>7. CASE N[m] = NULL
  <2>1. f[m] = <<m>> /\ UpFrom(L, m) = {m} /\ Cardinality({m}) = 1
    BY <1>1, <1>2, <1>6, <1>7
  <2>2. Ascends(<<m>>, {m})
    BY <2>1 DEF Ascends
  <2> QED BY <1>6, <2>1, <2>2
<1>8. CASE N[m] # NULL
  <2> DEFINE k == N[m]
  <2>1. /\ k \in L /\ UpFrom(L, m) = {m} \cup UpFrom(L, k) /\ (\A j \in UpFrom(L, k) : m < j)
        /\ Cardinality(UpFrom(L, m)) = Cardinality(UpFrom(L, k)) + 1 /\ f[m] = <<m>> \o f[k]
        /\ Cardinality(UpFrom(L, k)) \in Nat
    BY <1>1, <1>2, <1>6, <1>8
  <2> HIDE DEF k
  <2>2. k \notin S
    <3> SUFFICES ASSUME k \in S PROVE FALSE
      OBVIOUS
    <3>1. d <= Cardinality(UpFrom(L, k))
      BY <1>6
    <3> QED BY <1>5, <2>1, <3>1
  <2>3. Ascends(f[k], UpFrom(L, k))
    BY <2>1, <2>2
  <2>4. UpFrom(L, k) \in SUBSET Int /\ IsFiniteSet(UpFrom(L, k))
    BY <2>1, FS_Subset DEF UpFrom
  <2>5. Ascends(f[m], UpFrom(L, m))
    <3> DEFINE q == f[k]
               U == UpFrom(L, k)
    <3>1. f[m] = <<m>> \o q /\ UpFrom(L, m) = {m} \cup U
      BY <2>1
    <3>2. U \in SUBSET Int /\ IsFiniteSet(U) /\ Ascends(q, U) /\ \A j \in U : m < j
      BY <2>1, <2>3, <2>4
    <3> HIDE DEF q, U
    <3>3. Ascends(<<m>> \o q, {m} \cup U)
      BY <1>6, <3>2, AscendsCons
    <3> QED BY <3>1, <3>3
  <2> QED BY <1>6, <2>5
<1> QED BY <1>7, <1>8

\* The walk of keys() lists the keys from n on in ascending order.
LEMMA FromIs ==
  ASSUME NEW L, L = Linked(tree), NEW u, Search(Natural, tree, L, u), NEW n \in L
  PROVE  Ascends(From(n), UpFrom(L, n))
<1>1. L \in SUBSET Int /\ IsFiniteSet(L) /\ NULL \notin L
  BY KeysAssumption, NilAssumption, Facts, FS_Subset
<1> DEFINE N == [m \in L |-> NextNode(tree, m)]
           W(f) == f = [m \in L |-> IF N[m] = NULL THEN <<m>> ELSE <<m>> \o f[N[m]]]
           f == CHOOSE g : g = [m \in Linked(tree) |->
                                 LET next == NextNode(tree, m)
                                 IN IF next = NULL THEN <<m>> ELSE <<m>> \o g[next]]
<1>2. From(n) = f[n]
  BY DEF From
<1>3. f = CHOOSE g : W(g)
  <2>1. \A g : W(g) <=> g = [m \in Linked(tree) |->
                              LET next == NextNode(tree, m)
                              IN IF next = NULL THEN <<m>> ELSE <<m>> \o g[next]]
    OBVIOUS
  <2> HIDE DEF W
  <2> QED BY <2>1
<1>4. \A m \in L : Follows(L, m, N[m])
  BY NextFollows
<1> HIDE DEF N, f
<1>5. \E g : W(g)
  BY <1>1, <1>4, WalkExists
<1>6. W(f)
  <2> HIDE DEF W
  <2> QED BY <1>3, <1>5
<1>7. f = [m \in L |-> IF N[m] = NULL THEN <<m>> ELSE <<m>> \o f[N[m]]]
  BY <1>6
<1> HIDE DEF W
<1>8. Ascends(f[n], UpFrom(L, n))
  BY <1>1, <1>4, <1>7, WalkAscends
<1> QED BY <1>2, <1>8

\* A call that lists knows the number of entries, and a map without a root has none.
LEMMA ListsIs ==
  ASSUME IInv, Kept, fix = NoFix, NEW c \in Callers, call[c].op \in Lists
  PROVE  /\ Framed /\ TreeKept /\ Counts /\ fault = "none"
         /\ call[c].count = Cardinality(Present(value))
         /\ Present(value) = {} <=> tree.root = Nil
         /\ Linked(tree) = Present(value)
         /\ \E u : Search(Natural, tree, Present(value), u)
<1> DEFINE L == Present(value)
<1>1. Framed /\ TreeKept /\ Counts /\ fault = "none"
  BY DEF IInv, Kept
<1>2. call[c].count = Cardinality(L)
  BY <1>1 DEF Counts, Counted
<1>3. PICK u : Search(Natural, tree, L, u)
  BY <1>1, Certified
<1>4. (L = {} <=> tree.root = Nil) /\ Linked(tree) = L
  <2> HIDE DEF L
  <2> QED BY <1>3, Facts, SearchIsLinked, SearchIsOrdered
<1> QED BY <1>1, <1>2, <1>3, <1>4

\* A walk that is not nested into a release finds a root.
LEMMA NoRootKeeps ==
  ASSUME IInv, Parted, NEW c \in Callers, NoRoot(c) PROVE IInv'
<1>1. /\ Running /\ fix = NoFix /\ call[c].op \in Lists /\ tree.root = Nil /\ length # 0
      /\ fault' = "null_node" /\ breach' = breach
  BY DEF NoRoot, Allocated, Inside, Running
<1>2. ~Kept
  <2> SUFFICES ASSUME Kept PROVE FALSE
    OBVIOUS
  <2>1. Counts /\ Present(value) = {}
    BY <1>1, ListsIs
  <2>2. ~Clearing /\ Removals = {}
    BY <1>1 DEF Parted, Clearing, Removals, Releasing
  <2>3. length = Cardinality({}) + Cardinality({})
    BY <2>1, <2>2 DEF Counts
  <2> QED BY <1>1, <2>3, FS_EmptySet
<1>3. OverlapExplains'
  BY <1>1 DEF OverlapExplains
<1> QED BY <1>1, <1>2, <1>3 DEF IInv, Kept

\* Only an overlap makes a call point to a node that is gone.
LEMMA UseAfterFreeKeeps ==
  ASSUME IInv, NEW c \in Callers, UseAfterFree(c) PROVE IInv'
<1>1. /\ fault = "none" /\ call[c].op # "idle" /\ call[c].node = NULL
      /\ fault' = "freed_node" /\ breach' = breach
  BY DEF UseAfterFree, Running, Dangling
<1>2. "overlap" \in breach
  <2> SUFFICES ASSUME "overlap" \notin breach PROVE FALSE
    OBVIOUS
  <2>1. Framed
    BY <1>1 DEF IInv
  <2>2. Placed(tree, value, call[c])
    BY <2>1 DEF Framed
  <2>3. NULL \notin Present(value) /\ NULL # Nil
    BY NilAssumption DEF Present
  <2> QED BY <1>1, <2>2, <2>3 DEF Placed, Lists
<1>3. OverlapExplains' /\ ~Kept'
  BY <1>1, <1>2 DEF OverlapExplains, Kept
<1> QED BY <1>1, <1>3 DEF IInv

\* A list is as long as the map unless something is being released.
LEMMA ListBeginKeeps ==
  ASSUME IInv, NEW c \in Callers, NEW op \in Lists, ListBegin(c, op) PROVE IInv'
<1> DEFINE g == Frame(op, NULL, NULL, Nil, length, <<>>)
<1>1. /\ Running /\ call[c].op \notin Releasing /\ Goes(c, g)
      /\ UNCHANGED <<tree, value, length, fix, fault>>
      /\ breach' = breach \cup Nested(Releasing)
  BY DEF ListBegin, CanCall, Releasing, shape
<1>2. g.op = op /\ g.node = Nil /\ g.count = length /\ g.list = <<>>
  BY DEF Frame
<1> HIDE DEF g
<1>3. Placed(tree, value, g) /\ g.op \notin Releasing
  BY <1>2 DEF Placed, Searches, Puts, Pairs, Lists, Releasing
<1>4. ASSUME Counts, breach' = {} PROVE Counted(Present(value), g)
  <2>1. \A d \in Callers : call[d].op \notin Releasing
    BY <1>1, <1>4 DEF Nested
  <2>2. ~Clearing /\ Removals = {}
    BY <2>1 DEF Clearing, Removals, Releasing
  <2>3. length = Cardinality(Present(value)) + 0
    BY <1>4, <2>2, FS_EmptySet DEF Counts
  <2>4. length = Cardinality(Present(value))
    BY <2>3, FiniteSets
  <2> QED BY <1>2, <2>4 DEF Counted
<1> QED BY <1>1, <1>3, <1>4, QuietKeeps

\* A walk that ends with as many keys as the map has returns them.
LEMMA ListedKeeps ==
  ASSUME IInv, NEW c \in Callers, NEW q, Running, call[c].op \in Lists, Listed(c, q),
         UNCHANGED <<tree, value, length, fix, breach>>,
         Kept => Len(q) <= call[c].count
  PROVE  IInv'
<1>1. /\ fault = "none" /\ fix = NoFix /\ Goes(c, Idle) /\ call[c].op \notin Releasing
      /\ fault' = IF Len(q) > call[c].count THEN "over_release" ELSE fault
  BY DEF Listed, Running, Returns, Lists, Releasing
<1>2. CASE fault' = fault
  BY <1>1, <1>2, ReturnKeeps DEF Returns
<1>3. CASE fault' # fault
  <2>1. fault' = "over_release" /\ Len(q) > call[c].count
    BY <1>1, <1>3
  <2>2. ~Kept
    <3> SUFFICES ASSUME Kept PROVE FALSE
      OBVIOUS
    <3>1. call[c].count \in Nat
      BY <1>1, ListsIs, FiniteSets
    <3> QED BY <1>3, <1>1, <3>1
  <2>3. OverlapExplains' /\ ~Kept'
    BY <2>1, <2>2 DEF OverlapExplains, Kept
  <2> QED BY <2>1, <2>3 DEF IInv
<1> QED BY <1>2, <1>3

\* The ends of the tree are those of its keys.
LEMMA EndsAre ==
  ASSUME NEW t, NEW L, NEW u, Search(Natural, t, L, u), L # {}
  PROVE  /\ t.root \in L
         /\ Least(t, t.root) \in L /\ \A k \in L : Least(t, t.root) <= k
         /\ Greatest(t, t.root) \in L /\ \A k \in L : k <= Greatest(t, t.root)
<1>1. t.root \in L /\ u[t.root] = L /\ L \subseteq Int
  BY Facts
<1>2. Edge(Natural, "left", L, Least(t, t.root)) /\ Edge(Natural, "right", L, Greatest(t, t.root))
  BY <1>1, LeastIs
<1>3. ASSUME NEW m \in L, NEW k \in L
      PROVE  /\ (k # m => Before(Natural, "left", m, k)) => m <= k
             /\ (k # m => Before(Natural, "right", m, k)) => k <= m
  BY <1>1, NaturalIs DEF Before
<1> QED BY <1>1, <1>2, <1>3 DEF Edge

\* popitem(), min() and max() find a node of the map.
LEMMA PairBeginKeeps ==
  ASSUME IInv, NEW c \in Callers, NEW op \in Pairs, PairBegin(c, op) PROVE IInv'
<1> DEFINE n == IF op = "max" THEN Greatest(tree, tree.root) ELSE Least(tree, tree.root)
           g == Frame(op, NULL, value[n], n, 0, <<>>)
<1>1. /\ Running /\ fix = NoFix /\ call[c].op \notin Releasing
      /\ UNCHANGED <<tree, value, length, fix, fault, breach>>
      /\ call' = call \/ (tree.root # Nil /\ Goes(c, g))
  BY DEF PairBegin, CanCall, Running, Releasing, shape
<1>2. CASE call' = call
  BY <1>1, <1>2, StutterKeeps
<1>3. CASE tree.root # Nil /\ Goes(c, g)
  <2>1. g.op = op /\ g.node = n /\ g.val = value[n]
    BY DEF Frame
  <2>2. ASSUME Framed, TreeKept
        PROVE  /\ n \in Present(value)
               /\ op = "max" => \A k \in Present(value) : n >= k
               /\ op # "max" => \A k \in Present(value) : n <= k
    <3> DEFINE L == Present(value)
    <3>1. PICK u : Search(Natural, tree, L, u)
      BY <2>2, Certified
    <3>2. L # {}
      <4> HIDE DEF L
      <4> QED BY <1>3, <3>1, Facts
    <3>3. L \subseteq Int
      BY KeysAssumption DEF Present
    <3> HIDE DEF L
    <3>4. CASE op = "max"
      <4>1. n = Greatest(tree, tree.root)
        BY <3>4
      <4>2. n \in L /\ \A k \in L : k <= n
        BY <3>1, <3>2, <4>1, EndsAre
      <4>3. \A k \in L : n >= k
        BY <3>3, <4>2
      <4> QED BY <3>4, <4>2, <4>3 DEF L
    <3>5. CASE op # "max"
      <4>1. n = Least(tree, tree.root)
        BY <3>5
      <4>2. n \in L /\ \A k \in L : n <= k
        BY <3>1, <3>2, <4>1, EndsAre
      <4> QED BY <3>5, <4>2 DEF L
    <3> QED BY <3>4, <3>5
  <2> HIDE DEF g, n
  <2>3. ASSUME Framed, TreeKept PROVE Placed(tree, value, g)
    BY <2>1, <2>2, <2>3 DEF Placed, Searches, Puts, Pairs, Lists, Releasing
  <2>4. Counted(Present(value), g) /\ g.op \notin Releasing
    BY <2>1 DEF Counted, Pairs, Lists, Releasing
  <2> QED BY <1>1, <1>3, <2>3, <2>4, QuietKeeps
<1> QED BY <1>1, <1>2, <1>3

\* keys() lists as many keys as the map has.
LEMMA ListKeysKeeps ==
  ASSUME IInv, NEW c \in Callers, ListKeys(c) PROVE IInv'
<1> DEFINE L == Present(value)
           m == Least(tree, tree.root)
           q == From(m)
<1>1. /\ Running /\ fix = NoFix /\ call[c].op \in Lists /\ Listed(c, q) /\ tree.root # Nil
      /\ UNCHANGED <<tree, value, length, fix, breach>>
  BY DEF ListKeys, Allocated, Inside, Running, Lists, shape
<1>2. ASSUME Kept PROVE Len(q) <= call[c].count
  <2>1. L # {} /\ call[c].count = Cardinality(L) /\ Linked(tree) = L
    BY <1>1, <1>2, ListsIs
  <2>2. PICK u : Search(Natural, tree, L, u)
    BY <1>1, <1>2, ListsIs
  <2>3. L \subseteq Int
    BY KeysAssumption DEF L, Present
  <2> HIDE DEF L, m
  <2>4. m \in L /\ \A k \in L : m <= k
    BY <2>1, <2>2, EndsAre DEF m
  <2>5. Ascends(q, UpFrom(L, m))
    BY <2>1, <2>2, <2>4, FromIs
  <2>6. UpFrom(L, m) = L
    BY <2>4 DEF UpFrom
  <2>7. Len(q) = Cardinality(L) /\ Cardinality(L) \in Nat
    BY <2>5, <2>6, FiniteSets DEF Ascends, L
  <2> QED BY <2>1, <2>7
<1> HIDE DEF q
<1> QED BY <1>1, <1>2, ListedKeeps

\* items() starts at the first key.
LEMMA ItemsFirstKeeps ==
  ASSUME IInv, NEW c \in Callers, ItemsFirst(c) PROVE IInv'
<1> DEFINE f == call[c]
           n == Least(tree, tree.root)
           g == At(f, n)
           L == Present(value)
<1>1. /\ Running /\ fix = NoFix /\ f.op = "items" /\ f.node = Nil /\ tree.root # Nil /\ Goes(c, g)
      /\ UNCHANGED <<tree, value, length, fix, fault, breach>>
  BY DEF ItemsFirst, Allocated, Inside, Running, shape
<1>2. g.op = f.op /\ g.node = n /\ g.count = f.count /\ g.list = f.list
  BY DEF At, Frame
<1>3. ASSUME Framed, TreeKept PROVE n \in L /\ \A k \in L : n <= k
  <2>1. PICK u : Search(Natural, tree, L, u)
    BY <1>3, Certified
  <2> HIDE DEF L
  <2>2. L # {}
    BY <1>1, <2>1, Facts
  <2> QED BY <2>1, <2>2, EndsAre
<1> HIDE DEF g, n
<1>4. ASSUME Framed, TreeKept PROVE Placed(tree, value, g)
  BY <1>1, <1>2, <1>3, <1>4 DEF Placed, Searches, Puts, Pairs, Lists, Releasing
<1>5. ASSUME Framed, TreeKept, Counts PROVE Counted(L, g)
  <2>1. n \in L /\ n # Nil /\ (\A k \in L : n <= k) /\ L \subseteq Int
    BY <1>3, <1>5, KeysAssumption, NilAssumption DEF Present
  <2>2. Counted(L, f)
    BY <1>5 DEF Counts
  <2> HIDE DEF L
  <2>3. f.count = Cardinality(L) /\ f.list = <<>>
    BY <1>1, <2>2 DEF Counted, Lists
  <2>4. {k \in L : k < n} = {}
    <3>1. n \in Int /\ \A k \in L : ~(k < n)
      BY <2>1
    <3> QED BY <3>1
  <2>5. Ascends(<<>>, {})
    BY FS_EmptySet DEF Ascends
  <2> QED BY <1>1, <1>2, <2>1, <2>3, <2>4, <2>5 DEF Counted, Lists
<1>6. g.op \notin Releasing /\ f.op \notin Releasing
  BY <1>1, <1>2 DEF Releasing
<1> QED BY <1>1, <1>4, <1>5, <1>6, QuietKeeps

\* The walk of items() has listed the keys before its node.
LEMMA ItemsNextKeeps ==
  ASSUME IInv, NEW c \in Callers, ItemsNext(c) PROVE IInv'
<1> DEFINE f == call[c]
           keys == Append(f.list, f.node)
           next == NextNode(tree, f.node)
           g == Frame(f.op, f.key, f.val, next, f.count, keys)
           L == Present(value)
           S(n) == {k \in L : k < n}
<1>1. /\ Running /\ fix = NoFix /\ f.op = "items" /\ f.node \in Keys /\ fault = "none"
      /\ UNCHANGED <<tree, value, length, fix, breach>>
      /\ \/ Listed(c, keys)
         \/ next # NULL /\ Goes(c, g) /\ fault' = fault
  BY DEF ItemsNext, Inside, Running, shape
<1>2. g.op = "items" /\ g.node = next /\ g.count = f.count /\ g.list = keys
  BY <1>1 DEF Frame
<1>3. f.node # Nil /\ f.op \in Lists /\ f.op \notin Releasing
  BY <1>1, NilAssumption DEF Lists, Releasing
<1>4. ASSUME Framed, TreeKept
      PROVE  /\ f.node \in L /\ f.node \in Int /\ L \subseteq Int /\ L \subseteq Keys /\ NULL \notin L
             /\ Nil \notin L /\ Follows(L, f.node, next)
  <2>1. f.node \in L /\ L \subseteq Keys
    <3>1. Placed(tree, value, f)
      BY <1>4 DEF Framed
    <3>2. f.node \in L
      BY <1>1, <1>3, <3>1 DEF Placed
    <3> QED BY <3>2 DEF Present
  <2>2. PICK u : Search(Natural, tree, L, u)
    BY <1>4, Certified
  <2> HIDE DEF L
  <2>3. Follows(L, f.node, next)
    BY <2>1, <2>2, NextFollows
  <2> QED BY <2>1, <2>3, KeysAssumption, NilAssumption
<1> HIDE DEF g, next
<1>5. ASSUME Framed, TreeKept, Counts
      PROVE  /\ f.count = Cardinality(L) /\ IsFiniteSet(L) /\ Cardinality(L) \in Nat
             /\ Ascends(keys, S(f.node) \cup {f.node})
  <2>1. Counted(L, f) /\ IsFiniteSet(L) /\ Cardinality(L) \in Nat /\ L \subseteq Int /\ f.node \in Int
    BY <1>4, <1>5, FiniteSets DEF Counts
  <2> HIDE DEF L
  <2>2. f.count = Cardinality(L) /\ Ascends(f.list, S(f.node))
    BY <1>1, <1>3, <2>1 DEF Counted
  <2>3. S(f.node) \in SUBSET Int /\ IsFiniteSet(S(f.node)) /\ \A k \in S(f.node) : k < f.node
    BY <2>1, FS_Subset
  <2> HIDE DEF S
  <2>4. Ascends(keys, S(f.node) \cup {f.node})
    BY <2>1, <2>2, <2>3, AscendsAppend
  <2> QED BY <2>1, <2>2, <2>4
<1>6. CASE Listed(c, keys)
  <2>1. ASSUME Kept PROVE Len(keys) <= f.count
    <3>1. Framed /\ TreeKept /\ Counts
      BY <1>1, <2>1 DEF IInv, Kept
    <3>2. /\ f.node \in L /\ f.count = Cardinality(L) /\ IsFiniteSet(L)
          /\ Len(keys) = Cardinality(S(f.node) \cup {f.node})
      BY <1>4, <1>5, <3>1 DEF Ascends
    <3>3. S(f.node) \cup {f.node} \in SUBSET L
      BY <3>2
    <3> HIDE DEF L, S, keys
    <3>4. Cardinality(S(f.node) \cup {f.node}) <= Cardinality(L)
      BY <3>2, <3>3, FS_Subset
    <3> QED BY <3>2, <3>4
  <2> HIDE DEF keys
  <2> QED BY <1>1, <1>3, <1>6, <2>1, ListedKeeps
<1>7. CASE next # NULL /\ Goes(c, g) /\ fault' = fault
  <2>1. ASSUME Framed, TreeKept
        PROVE  next \in L /\ next # Nil /\ S(next) = S(f.node) \cup {f.node}
    <3>1. next \in L /\ f.node < next /\ (\A k \in L : f.node < k => next <= k)
      BY <1>4, <1>7, <2>1 DEF Follows
    <3>2. f.node \in L /\ L \subseteq Int /\ Nil \notin L
      BY <1>4, <2>1
    <3> HIDE DEF L
    <3>3. ASSUME NEW k \in L PROVE k < next <=> k < f.node \/ k = f.node
      <4>1. k \in Int /\ next \in Int /\ f.node \in Int /\ f.node < next /\ (f.node < k => next <= k)
        BY <3>1, <3>2
      <4> HIDE DEF f
      <4> QED BY <4>1
    <3> QED BY <3>1, <3>2, <3>3
  <2>2. ASSUME Framed, TreeKept PROVE Placed(tree, value, g)
    BY <1>2, <2>1, <2>2 DEF Placed, Searches, Puts, Pairs, Lists, Releasing
  <2>3. ASSUME Framed, TreeKept, Counts PROVE Counted(L, g)
    <3>1. /\ next # Nil /\ S(next) = S(f.node) \cup {f.node} /\ f.count = Cardinality(L)
          /\ Ascends(keys, S(f.node) \cup {f.node})
      BY <1>5, <2>1, <2>3
    <3> HIDE DEF L, keys
    <3>2. Ascends(keys, S(next))
      BY <3>1
    <3> QED BY <1>2, <3>1, <3>2 DEF Counted, Lists
  <2>4. g.op \notin Releasing
    BY <1>2 DEF Releasing
  <2> QED BY <1>1, <1>3, <1>7, <2>2, <2>3, <2>4, QuietKeeps
<1> QED BY <1>1, <1>6, <1>7

-----------------------------------------------------------------------------
(* clear() *)

\* The length is reset when the map is empty and nothing else is released.
LEMMA ClearEndKeeps ==
  ASSUME IInv, NEW c \in Callers, ClearEnd(c) PROVE IInv'
<1>1. /\ Running /\ fault = "none" /\ fix = NoFix /\ call[c].op = "cleared" /\ length' = 0
      /\ Goes(c, Idle) /\ UNCHANGED <<tree, value, fix, breach, fault>>
  BY DEF ClearEnd, Inside, Returns, Running
<1>2. ASSUME Framed PROVE Framed'
  BY <1>1, <1>2, IdlePlaced, FramedGoes
<1>3. TreeKept => TreeKept'
  BY <1>1 DEF TreeKept, TreeIn
<1>4. ASSUME Framed, Counts PROVE Counts'
  <2>1. \A d \in Callers : call'[d] = IF d = c THEN Idle ELSE call[d]
    BY <1>1, <1>4 DEF Framed, Goes
  <2>2. Idle.op = "idle" /\ \A L : Counted(L, Idle)
    BY IdlePlaced
  <2>3. Clearing
    BY <1>1 DEF Clearing
  <2>4. /\ Present(value) = {} /\ Removals = {}
        /\ \A d \in Callers : call[d].op = "cleared" => d = c
    BY <1>1, <1>4, <2>3 DEF Counts
  <2>5. ~Clearing' /\ Removals' = {}
    BY <2>1, <2>2, <2>4 DEF Clearing, Removals
  <2>6. \A d \in Callers : Counted(Present(value'), call'[d])
    BY <1>1, <1>4, <2>1, <2>2 DEF Counts
  <2>7. length' = Cardinality({}) + Cardinality({}) /\ length' \in Int
    BY <1>1, FS_EmptySet
  <2>8. Present(value') = {}
    BY <1>1, <2>4
  <2> QED BY <2>5, <2>6, <2>7, <2>8 DEF Counts
<1> QED BY <1>1, <1>2, <1>3, <1>4 DEF IInv, OverlapExplains, Kept

\* the frame of a call that has cleared the map
Cleared == Frame("cleared", NULL, NULL, Nil, 0, <<>>)

\* A tree all nodes of which are released is empty.
LEMMA ClearedTree ==
  ASSUME NEW rk \in Rankings, NEW t, NEW L, SortedTree(rk, t, L), NEW r,
         r = [root   |-> Nil,
              kid    |-> [n \in Nodes |-> IF n \in L THEN [s \in Sides |-> NULL] ELSE t.kid[n]],
              parent |-> [n \in Nodes |-> IF n \in L THEN NULL ELSE t.parent[n]],
              color  |-> [n \in Nodes |-> IF n \in L THEN "red" ELSE t.color[n]]]
  PROVE  SortedTree(rk, r, {})
<1>1. PICK u, h : Search(rk, t, L, u) /\ Balance(t, L, h)
  BY DEF SortedTree
<1>2. t \in Trees /\ Nil \in Nodes /\ Nil \notin L
  BY <1>1, Facts
<1>3. r.root = Nil /\ r \in Trees
  <2>1. r.kid \in [Nodes -> [Sides -> Nodes \cup {NULL}]]
    <3>1. [s \in Sides |-> NULL] \in [Sides -> Nodes \cup {NULL}]
      OBVIOUS
    <3>2. \A n \in Nodes : t.kid[n] \in [Sides -> Nodes \cup {NULL}]
      BY <1>2 DEF Trees
    <3> QED BY <3>1, <3>2
  <2>2. r.parent \in [Nodes -> Nodes \cup {NULL}] /\ r.color \in [Nodes -> {"red", "black"}]
    BY <1>2 DEF Trees
  <2> QED BY <1>2, <2>1, <2>2 DEF Trees
<1>4. r.color[Nil] = "black"
  <2>1. IsBlack(t, Nil) /\ t.color[Nil] \in {"red", "black"}
    BY <1>1, <1>2 DEF Balance, Trees
  <2> QED BY <1>2, <2>1 DEF IsBlack, IsRed
<1>5. \A k \in Keys : r.parent[k] = NULL /\ \A s \in Sides : r.kid[k][s] = NULL
  <2>1. \A k \in Keys \ L : t.parent[k] = NULL /\ \A s \in Sides : t.kid[k][s] = NULL
    BY <1>1 DEF Search
  <2> QED BY <2>1 DEF Nodes
<1> QED BY <1>3, <1>4, <1>5, EmptyTree

\* What clear() changes before the destructors run.
LEMMA ClearBeginIs ==
  ASSUME IInv, NEW c \in Callers, ClearBegin(c), length # 0, "overlap" \notin breach'
  PROVE  /\ Framed /\ TreeKept /\ Framed' /\ TreeKept' /\ Present(value') = {}
         /\ \A e \in Callers : call'[e] = IF e = c THEN Cleared ELSE call[e]
         /\ \A e \in Callers : ~Points(call'[e])
<1> DEFINE L == Present(value)
           gone == Linked(tree)
<1>0. /\ Running /\ fault = "none" /\ fix = NoFix /\ UNCHANGED <<fix, fault>> /\ call[c].op = "idle"
      /\ tree' = [root   |-> Nil,
                  kid    |-> [n \in Nodes |-> IF n \in gone THEN [s \in Sides |-> NULL]
                                              ELSE tree.kid[n]],
                  parent |-> [n \in Nodes |-> IF n \in gone THEN NULL ELSE tree.parent[n]],
                  color  |-> [n \in Nodes |-> IF n \in gone THEN "red" ELSE tree.color[n]]]
      /\ value' = [k \in Keys |-> IF k \in gone THEN NULL ELSE value[k]]
      /\ call' = [Freed(gone) EXCEPT ![c] = Cleared]
      /\ breach' = breach \cup Overlap(c) \cup Nested(Releasing)
      /\ length' = length
  BY DEF ClearBegin, CanCall, Running, Cleared
<1>g. Cleared.op = "cleared" /\ Cleared.node = Nil
  BY DEF Cleared, Frame
<1> HIDE DEF gone
<1>1. "overlap" \notin breach /\ "overlap" \notin Overlap(c)
  BY <1>0
<1>2. Framed /\ TreeKept /\ \A e \in Callers \ {c} : ~Points(call[e])
  BY <1>0, <1>1 DEF IInv, Overlap, Pointing, Points
<1>3. SortedTree(Natural, tree, L)
  BY <1>0, <1>2, Certified
<1>4. PICK u, h : Search(Natural, tree, L, u) /\ Balance(tree, L, h)
  BY <1>3 DEF SortedTree
<1>5. gone = L /\ L \subseteq Keys /\ tree \in Trees /\ Nil \notin L
  <2>1. L \subseteq Keys
    BY DEF Present
  <2> HIDE DEF L
  <2> QED BY <1>4, <2>1, SearchIsLinked, SearchIsOrdered, Facts DEF gone
<1>6. value' \in [Keys -> Values \cup {NULL}] /\ Present(value') = {}
  <2>1. \A k \in Keys : value'[k] = NULL
    BY <1>0, <1>5 DEF Present
  <2>2. value' \in [Keys -> Values \cup {NULL}]
    BY <1>0, <2>1
  <2> QED BY <2>1, <2>2 DEF Present
<1>7. ASSUME NEW e \in Callers, e # c
      PROVE  Placed(tree, value, call[e]) /\ ~Points(call[e]) /\ call[e].node \notin gone
  <2>1. Placed(tree, value, call[e]) /\ ~Points(call[e])
    BY <1>2, <1>7 DEF Framed
  <2>2. call[e].node = Nil
    BY <2>1 DEF Placed, Points
  <2> QED BY <1>5, <2>1, <2>2
<1>8. /\ call' = [e \in Callers |-> call'[e]]
      /\ \A e \in Callers : call'[e] = IF e = c THEN Cleared ELSE call[e]
  BY <1>0, <1>7 DEF Freed
<1>9. ~Points(Cleared) /\ Placed(tree', value', Cleared)
  BY <1>g DEF Points, Placed, Searches, Puts, Pairs, Lists, Releasing
<1>10. \A e \in Callers : ~Points(call'[e]) /\ Placed(tree', value', call'[e])
  <2>1. \A e \in Callers \ {c} : Placed(tree', value', call[e])
    BY <1>7, PlacedStill
  <2> QED BY <1>7, <1>8, <1>9, <2>1
<1>11. Framed'
  BY <1>0, <1>6, <1>8, <1>10 DEF Framed
<1>12. SortedTree(Natural, tree', {})
  BY <1>0, <1>3, <1>5, ClearedTree
<1>13. TreeKept'
  BY <1>0, <1>6, <1>12 DEF TreeKept, TreeIn
<1> QED BY <1>2, <1>6, <1>8, <1>10, <1>11, <1>13

\* Every node leaves the tree at once.
LEMMA ClearBeginKeeps ==
  ASSUME IInv, NEW c \in Callers, ClearBegin(c) PROVE IInv'
<1> DEFINE L == Present(value)
           gone == Linked(tree)
<1>1. Running /\ fault = "none" /\ fix = NoFix /\ UNCHANGED <<fix, fault>> /\ call[c].op = "idle"
  BY DEF ClearBegin, CanCall, Running
<1>2. CASE length = 0
  <2>1. UNCHANGED <<tree, value, length, fix, fault, breach, call>>
    BY <1>1, <1>2 DEF ClearBegin, shape
  <2> QED BY <2>1, StutterKeeps
<1>3. CASE length # 0
  <2>1. /\ tree' = [root   |-> Nil,
                    kid    |-> [n \in Nodes |-> IF n \in gone THEN [s \in Sides |-> NULL]
                                                ELSE tree.kid[n]],
                    parent |-> [n \in Nodes |-> IF n \in gone THEN NULL ELSE tree.parent[n]],
                    color  |-> [n \in Nodes |-> IF n \in gone THEN "red" ELSE tree.color[n]]]
        /\ value' = [k \in Keys |-> IF k \in gone THEN NULL ELSE value[k]]
        /\ call' = [Freed(gone) EXCEPT ![c] = Cleared]
        /\ breach' = breach \cup Overlap(c) \cup Nested(Releasing)
        /\ length' = length
    BY <1>3 DEF ClearBegin, Cleared
  <2> HIDE DEF gone
  <2>2. Cleared.op = "cleared" /\ Cleared.node = Nil
    BY DEF Cleared, Frame
  <2>3. ASSUME "overlap" \notin breach'
        PROVE  /\ Framed /\ TreeKept /\ Framed' /\ TreeKept' /\ Present(value') = {}
               /\ \A e \in Callers : call'[e] = IF e = c THEN Cleared ELSE call[e]
               /\ \A e \in Callers : ~Points(call'[e])
    <3> QED BY <1>3, <2>3, ClearBeginIs
  <2>4. OverlapExplains'
    BY <1>1 DEF OverlapExplains
  <2>5. ASSUME breach' = {} PROVE Counts'
    <3>1. /\ breach = {} /\ Framed /\ Counts /\ Present(value') = {} /\ Nested(Releasing) = {}
          /\ \A e \in Callers : call'[e] = IF e = c THEN Cleared ELSE call[e]
          /\ \A e \in Callers : ~Points(call'[e])
      BY <2>1, <2>3, <2>5 DEF IInv, Kept
    <3>2. \A e \in Callers : call[e].op \notin {"removed", "cleared"}
      BY <3>1 DEF Nested, Releasing
    <3>3. \A e \in Callers : call'[e].op # "removed" /\ (call'[e].op = "cleared" <=> e = c)
      BY <2>2, <3>1, <3>2
    <3>4. Clearing' /\ Removals' = {}
      BY <3>3 DEF Clearing, Removals
    <3>5. \A e \in Callers : Counted(Present(value'), call'[e])
      BY <3>1, CountedStill
    <3>6. length' \in Int /\ length' > 0
      <4>1. ~Clearing /\ Removals = {}
        BY <3>2 DEF Clearing, Removals
      <4>2. length \in Int /\ length = Cardinality(Present(value)) + Cardinality({})
        BY <3>1, <4>1 DEF Counts
      <4>3. length \in Int /\ length = Cardinality(Present(value)) /\ length \in Nat
        BY <4>2, FiniteSets, FS_EmptySet
      <4> QED BY <1>3, <2>1, <4>3
    <3> QED BY <3>1, <3>3, <3>4, <3>5, <3>6 DEF Counts
  <2> QED BY <1>1, <2>3, <2>4, <2>5 DEF IInv, Kept
<1> QED BY <1>2, <1>3

-----------------------------------------------------------------------------
(* Lists and releases *)

\* A breach of the contract stays recorded.
LEMMA BreachStays == ASSUME Next PROVE breach \subseteq breach'
<1>1. CASE Fixing
  BY <1>1 DEF Fixing, FixInsert, FixDelete
<1>2. ASSUME NEW c \in Callers, Enter(c) PROVE breach \subseteq breach'
  <2>1. ASSUME NEW k, NEW v, NEW op, Begin(c, op, k, v) PROVE breach \subseteq breach'
    BY <2>1 DEF Begin
  <2>2. ASSUME NEW a, NEW b, Update(c, a, b) PROVE breach \subseteq breach'
    BY <2>2 DEF Update
  <2>3. ASSUME NEW op, PairBegin(c, op) \/ ListBegin(c, op) PROVE breach \subseteq breach'
    BY <2>3 DEF PairBegin, ListBegin
  <2>4. CASE Size(c) \/ ClearBegin(c)
    BY <2>4 DEF Size, ClearBegin
  <2> QED BY <1>2, <2>1, <2>2, <2>3, <2>4 DEF Enter
<1>3. ASSUME NEW c \in Callers, GoOn(c) PROVE breach \subseteq breach'
  <2>1. CASE Descend(c) \/ Fails(c) \/ UseAfterFree(c) \/ Found(c) \/ NotFound(c) \/ PutAbsent(c)
    BY <2>1 DEF Descend, Fails, UseAfterFree, Found, NotFound, PutAbsent
  <2>2. CASE Replaced(c) \/ LinkNode(c)
    BY <2>2 DEF Replaced, LinkNode, Linking
  <2>3. CASE Remove(c) \/ PopItem(c)
    BY <2>3 DEF Remove, PopItem, Unlink
  <2>4. CASE RemoveEnd(c) \/ NoMemory(c) \/ Peek(c) \/ NoRoot(c) \/ ListEmpty(c) \/ ClearEnd(c)
    BY <2>4 DEF RemoveEnd, NoMemory, Peek, NoRoot, ListEmpty, ClearEnd
  <2>5. CASE ListKeys(c) \/ ItemsFirst(c) \/ ItemsNext(c)
    BY <2>5 DEF ListKeys, ItemsFirst, ItemsNext
  <2> QED BY <1>3, <2>1, <2>2, <2>3, <2>4, <2>5 DEF GoOn
<1> QED BY <1>1, <1>2, <1>3 DEF Next

\* A step of c that changes only its own frame, and neither lists nor releases because of it.
LEMMA PartedGoes ==
  ASSUME Parted, breach \subseteq breach', NEW c \in Callers, NEW g, call' = call \/ Goes(c, g),
         g.op = call[c].op \/ g.op \notin Lists \cup Releasing
  PROVE  Parted'
<1>1. DOMAIN call' = Callers /\ \A d \in Callers : call'[d] = call[d] \/ (d = c /\ call'[d] = g)
  BY DEF Parted, Goes
<1>2. \A d \in Callers : call'[d].op = call[d].op \/ call'[d].op \notin Lists \cup Releasing
  BY <1>1
<1> QED BY <1>1, <1>2 DEF Parted, Kept

\* What leaves the tree under a list is an overlap.
LEMMA PartedAlone ==
  ASSUME Parted, NEW c \in Callers, NEW g, NEW nodes, call' = [Freed(nodes) EXCEPT ![c] = g],
         g.op \notin Lists, Overlap(c) \subseteq breach'
  PROVE  Parted'
<1>1. /\ DOMAIN call' = Callers /\ call'[c].op \notin Lists
      /\ \A d \in Callers \ {c} : call'[d].op = call[d].op
  BY DEF Freed, At, Frame
<1>2. ASSUME breach' = {} PROVE \A d \in Callers : call'[d].op \notin Lists
  <2>1. \A d \in Callers \ {c} : ~Pointing(d)
    BY <1>2 DEF Overlap
  <2> QED BY <1>1, <2>1 DEF Pointing
<1> QED BY <1>1, <1>2 DEF Parted, Kept

\* the first step of a method
LEMMA PartedEnter ==
  ASSUME Parted, breach \subseteq breach', NEW c \in Callers, Enter(c) PROVE Parted'
<1>1. ASSUME NEW k, NEW v, NEW op \in {"get", "remove", "setnx", "put", "setdefault"}, Begin(c, op, k, v)
      PROVE  Parted'
  <2> DEFINE g == Frame(op, k, v, Nil, 0, <<>>)
  <2>1. Goes(c, g) /\ g.op \notin Lists \cup Releasing
    BY <1>1 DEF Begin, Frame, Lists, Releasing
  <2> HIDE DEF g
  <2> QED BY <2>1, PartedGoes
<1>2. ASSUME NEW a, NEW b, Update(c, a, b) PROVE Parted'
  <2>1. PICK f : call' = call \/ Goes(c, AfterPut(f))
    BY <1>2 DEF Update
  <2>2. AfterPut(f).op \notin Lists \cup Releasing
    BY DEF AfterPut, Idle, Frame, Lists, Releasing
  <2> QED BY <2>1, <2>2, PartedGoes
<1>3. ASSUME NEW op \in Pairs, PairBegin(c, op) PROVE Parted'
  <2>1. PICK v, n : call' = call \/ Goes(c, Frame(op, NULL, v, n, 0, <<>>))
    BY <1>3 DEF PairBegin
  <2>2. Frame(op, NULL, v, n, 0, <<>>).op \notin Lists \cup Releasing
    BY DEF Frame, Pairs, Lists, Releasing
  <2> QED BY <2>1, <2>2, PartedGoes
<1>4. ASSUME NEW op \in Lists, ListBegin(c, op) PROVE Parted'
  <2> DEFINE g == Frame(op, NULL, NULL, Nil, length, <<>>)
  <2>1. Goes(c, g) /\ g.op \notin Releasing /\ breach' = breach \cup Nested(Releasing)
    BY <1>4 DEF ListBegin, Frame, Lists, Releasing
  <2> HIDE DEF g
  <2>2. DOMAIN call' = Callers /\ \A d \in Callers : call'[d] = IF d = c THEN g ELSE call[d]
    BY <2>1 DEF Parted, Goes
  <2>3. breach' = {} => \A d \in Callers : call'[d].op \notin Releasing
    BY <2>1, <2>2 DEF Nested
  <2> QED BY <2>2, <2>3 DEF Parted, Kept
<1>5. CASE Size(c)
  BY <1>5, PartedGoes DEF Size
<1>6. CASE ClearBegin(c)
  <2>1. CASE call' = call
    BY <2>1, PartedGoes
  <2>2. CASE call' # call
    <3>1. PICK nodes : /\ call' = [Freed(nodes) EXCEPT ![c] = Frame("cleared", NULL, NULL, Nil, 0, <<>>)]
                       /\ Overlap(c) \subseteq breach'
      BY <1>6, <2>2 DEF ClearBegin
    <3>2. Frame("cleared", NULL, NULL, Nil, 0, <<>>).op \notin Lists
      BY DEF Frame, Lists
    <3> QED BY <3>1, <3>2, PartedAlone
  <2> QED BY <2>1, <2>2
<1> QED BY <1>1, <1>2, <1>3, <1>4, <1>5, <1>6 DEF Enter

\* the steps after it
LEMMA PartedGoOn ==
  ASSUME Parted, breach \subseteq breach', NEW c \in Callers, GoOn(c) PROVE Parted'
<1> USE DEF Frame, Lists, Releasing
<1>1. \A n : At(call[c], n).op = call[c].op
  BY DEF At
<1>2. CASE Descend(c) \/ ItemsFirst(c) \/ UseAfterFree(c) \/ NoRoot(c)
  <2>1. PICK n : call' = call \/ Goes(c, At(call[c], n))
    BY <1>2 DEF Descend, ItemsFirst, UseAfterFree, NoRoot
  <2> QED BY <1>1, <2>1, PartedGoes
<1>3. CASE Returns(c)
  <2>1. Idle.op \notin Lists \cup Releasing
    BY DEF Idle
  <2> QED BY <1>3, <2>1, PartedGoes DEF Returns
<1>4. CASE PutAbsent(c)
  <2>1. PICK op, k, v : Goes(c, Frame(op, k, v, Nil, 0, <<>>)) /\ op \in {"setdefault_put", "setnx_put"}
    BY <1>4 DEF PutAbsent
  <2> DEFINE g == Frame(op, k, v, Nil, 0, <<>>)
  <2>2. g.op \notin Lists \cup Releasing
    BY <2>1
  <2> HIDE DEF g
  <2> QED BY <2>1, <2>2, PartedGoes DEF g
<1>5. CASE Replaced(c) \/ LinkNode(c)
  <2>1. Goes(c, AfterPut(call[c]))
    BY <1>5 DEF Replaced, LinkNode, Linking
  <2>2. AfterPut(call[c]).op \notin Lists \cup Releasing
    BY DEF AfterPut, Idle
  <2> QED BY <2>1, <2>2, PartedGoes
<1>6. CASE Remove(c) \/ PopItem(c)
  <2>1. PICK n : Unlink(c, n)
    BY <1>6 DEF Remove, PopItem
  <2>2. /\ call' = [Freed({n}) EXCEPT ![c] = Frame("removed", NULL, NULL, Nil, 0, <<>>)]
        /\ Overlap(c) \subseteq breach'
    BY <2>1 DEF Unlink
  <2>3. Frame("removed", NULL, NULL, Nil, 0, <<>>).op \notin Lists
    OBVIOUS
  <2> QED BY <2>2, <2>3, PartedAlone
<1>7. CASE ItemsNext(c)
  <2>1. call[c].op = "items"
    BY <1>7 DEF ItemsNext, Inside
  <2>2. Returns(c) \/ \E n, k, q : Goes(c, Frame(call[c].op, call[c].key, call[c].val, n, k, q))
    BY <1>7 DEF ItemsNext, Listed
  <2>3. \A n, k, q : Frame(call[c].op, call[c].key, call[c].val, n, k, q).op = call[c].op
    OBVIOUS
  <2> QED BY <1>3, <2>2, <2>3, PartedGoes
<1>8. Fails(c) \/ Found(c) \/ NotFound(c) \/ RemoveEnd(c) \/ ClearEnd(c) => Returns(c)
  BY DEF Fails, Found, NotFound, RemoveEnd, ClearEnd
<1>9. NoMemory(c) \/ Peek(c) \/ ListEmpty(c) \/ ListKeys(c) => Returns(c)
  BY DEF NoMemory, Peek, ListEmpty, ListKeys, Listed
<1> QED BY <1>2, <1>3, <1>4, <1>5, <1>6, <1>7, <1>8, <1>9 DEF GoOn

\* Nothing is listed while something is released, unless the contract is broken.
LEMMA PartedHolds == Spec => []Parted
<1>1. Init => Parted
  BY DEF Init, Idle, Frame, Lists, Parted
<1>2. Parted /\ [Next]_vars => Parted'
  <2> SUFFICES ASSUME Parted, [Next]_vars PROVE Parted'
    OBVIOUS
  <2>1. CASE UNCHANGED vars
    BY <2>1 DEF vars, Parted, Kept
  <2>2. CASE Fixing
    BY <2>2 DEF Fixing, FixInsert, FixDelete, Parted, Kept
  <2> QED BY <2>1, <2>2, BreachStays, PartedEnter, PartedGoOn DEF Next
<1> QED BY <1>1, <1>2, PTL DEF Spec

-----------------------------------------------------------------------------
(* The invariant *)

\* A new map satisfies the invariant.
LEMMA InitKept == Init => IInv
<1> SUFFICES ASSUME Init PROVE IInv
  OBVIOUS
<1>1. /\ tree = Empty /\ value = [k \in Keys |-> NULL] /\ length = 0
      /\ call = [c \in Callers |-> Idle] /\ fix = NoFix /\ breach = {} /\ fault = "none"
  BY DEF Init
<1>2. Present(value) = {}
  BY <1>1 DEF Present
<1>3. \A t, v, L : Placed(t, v, Idle) /\ Counted(L, Idle) /\ Idle.op = "idle"
  BY IdlePlaced
<1>4. call = [c \in Callers |-> call[c]] /\ \A c \in Callers : call[c] = Idle
  BY <1>1
<1>5. Framed
  <2>1. value \in [Keys -> Values \cup {NULL}]
    BY <1>1
  <2>2. \A c \in Callers : Placed(tree, value, call[c])
    BY <1>3, <1>4
  <2> QED BY <1>1, <1>4, <2>1, <2>2 DEF Framed
<1>6. TreeKept
  <2>1. Empty.root = Nil /\ Nil \in Nodes /\ Keys \subseteq Nodes
    BY DEF Empty, Nodes
  <2>2. Empty \in Trees
    <3>1. [s \in Sides |-> NULL] \in [Sides -> Nodes \cup {NULL}]
      OBVIOUS
    <3>2. Empty.kid \in [Nodes -> [Sides -> Nodes \cup {NULL}]]
      BY <3>1 DEF Empty
    <3>3. Empty.parent \in [Nodes -> Nodes \cup {NULL}] /\ Empty.color \in [Nodes -> {"red", "black"}]
      BY DEF Empty
    <3>4. Empty = [root |-> Empty.root, kid |-> Empty.kid, parent |-> Empty.parent,
                   color |-> Empty.color]
      BY DEF Empty
    <3> QED BY <2>1, <3>2, <3>3, <3>4 DEF Trees
  <2>3. Empty.color[Nil] = "black"
    BY <2>1 DEF Empty
  <2>4. \A k \in Keys : Empty.parent[k] = NULL /\ \A s \in Sides : Empty.kid[k][s] = NULL
    BY <2>1 DEF Empty
  <2>5. SortedTree(Natural, tree, {})
    BY <1>1, <2>1, <2>2, <2>3, <2>4, EmptyTree
  <2> QED BY <1>1, <1>2, <2>5 DEF TreeKept, TreeIn
<1>7. Counts
  <2>1. ~Clearing /\ Removals = {}
    BY <1>3, <1>4 DEF Clearing, Removals
  <2>2. length = Cardinality({}) + Cardinality({}) /\ length \in Int
    BY <1>1, FS_EmptySet
  <2>3. \A c \in Callers : Counted(Present(value), call[c])
    BY <1>3, <1>4
  <2> QED BY <1>2, <2>1, <2>2, <2>3 DEF Counts
<1> QED BY <1>1, <1>5, <1>6, <1>7 DEF IInv, OverlapExplains

\* the first step of a method
LEMMA EnterKeeps ==
  ASSUME IInv, NEW c \in Callers, Enter(c) PROVE IInv'
<1>1. ASSUME NEW k \in Keys, NEW op \in {"get", "remove", "setnx"}, Begin(c, op, k, NULL)
      PROVE  IInv'
  BY <1>1, BeginKeeps
<1>2. ASSUME NEW k \in Keys, NEW v \in Values, NEW op \in {"put", "setdefault"}, Begin(c, op, k, v)
      PROVE  IInv'
  BY <1>2, BeginKeeps
<1>3. ASSUME NEW u \in Updates, Update(c, u[1], u[2]) PROVE IInv'
  BY <1>3, UpdateKeeps
<1>4. ASSUME NEW op \in Pairs, PairBegin(c, op) PROVE IInv'
  BY <1>4, PairBeginKeeps
<1>5. ASSUME NEW op \in Lists, ListBegin(c, op) PROVE IInv'
  BY <1>5, ListBeginKeeps
<1>6. CASE Size(c)
  BY <1>6, SizeKeeps
<1>7. CASE ClearBegin(c)
  BY <1>7, ClearBeginKeeps
<1> QED BY <1>1, <1>2, <1>3, <1>4, <1>5, <1>6, <1>7 DEF Enter

\* the steps after it
LEMMA GoOnKeeps ==
  ASSUME IInv, Parted, NEW c \in Callers, GoOn(c) PROVE IInv'
<1>1. CASE Descend(c)
  BY <1>1, DescendKeeps
<1>2. CASE Fails(c) \/ Found(c) \/ NotFound(c) \/ NoMemory(c) \/ Peek(c) \/ ListEmpty(c)
  BY <1>2, AnswerKeeps
<1>3. CASE UseAfterFree(c)
  BY <1>3, UseAfterFreeKeeps
<1>4. CASE PutAbsent(c)
  BY <1>4, PutAbsentKeeps
<1>5. CASE Replaced(c)
  BY <1>5, ReplacedKeeps
<1>6. CASE LinkNode(c)
  BY <1>6, LinkNodeKeeps
<1>7. CASE Remove(c)
  BY <1>7, RemoveKeeps
<1>8. CASE RemoveEnd(c)
  BY <1>8, RemoveEndKeeps
<1>9. CASE PopItem(c)
  BY <1>9, PopItemKeeps
<1>10. CASE NoRoot(c)
  BY <1>10, NoRootKeeps
<1>11. CASE ListKeys(c)
  BY <1>11, ListKeysKeeps
<1>12. CASE ItemsFirst(c)
  BY <1>12, ItemsFirstKeeps
<1>13. CASE ItemsNext(c)
  BY <1>13, ItemsNextKeeps
<1>14. CASE ClearEnd(c)
  BY <1>14, ClearEndKeeps
<1> QED BY <1>1, <1>2, <1>3, <1>4, <1>5, <1>6, <1>7, <1>8, <1>9, <1>10, <1>11, <1>12, <1>13, <1>14
        DEF GoOn

\* Every step of the methods of src/src/rbtree.c, of any number of callers, keeps the
\* invariant.
THEOREM NextKeeps == IInv /\ Parted /\ [Next]_vars => IInv'
<1> SUFFICES ASSUME IInv, Parted, [Next]_vars PROVE IInv'
  OBVIOUS
<1>1. CASE Fixing
  BY <1>1, LoopKeeps DEF Fixing
<1>2. ASSUME NEW c \in Callers, Enter(c) PROVE IInv'
  BY <1>2, EnterKeeps
<1>3. ASSUME NEW c \in Callers, GoOn(c) PROVE IInv'
  BY <1>3, GoOnKeeps
<1>4. CASE UNCHANGED vars
  BY <1>4, StutterKeeps DEF vars, shape
<1> QED BY <1>1, <1>2, <1>3, <1>4 DEF Next

\* The invariant holds of every behaviour, for every set of keys, values and callers.
THEOREM Invariance == Spec => []IInv
<1> QED BY InitKept, NextKeeps, PartedHolds, PTL DEF Spec

-----------------------------------------------------------------------------
(* What the invariant says *)

\* At every step, those of the rebalancing loops included, the linked nodes are those of the
\* keys of the map, in search order, with parent pointers inverse to the child pointers.
THEOREM SearchTreeHolds == Spec => []SearchTree
<1>1. IInv => SearchTree
  <2> SUFFICES ASSUME IInv, Kept PROVE Ordered(tree) /\ Doubly(tree) /\ Linked(tree) = Present(value)
    BY DEF SearchTree, Present
  <2> DEFINE L == Present(value)
  <2>1. Framed /\ TreeKept
    BY DEF IInv, Kept
  <2>2. PICK u : Search(Natural, tree, L, u)
    BY <2>1, Certified
  <2> HIDE DEF L
  <2> QED BY <2>2, SearchIsLinked, SearchIsOrdered DEF L
<1> QED BY <1>1, Invariance, PTL

\* Whenever Python code can look, the tree is red-black.
THEOREM BalancedHolds == Spec => []Balanced
<1>1. IInv => Balanced
  <2> SUFFICES ASSUME IInv, Kept, fix = NoFix PROVE RedBlack(tree)
    BY DEF Balanced
  <2>1. Framed /\ TreeKept
    BY DEF IInv, Kept
  <2>2. SortedTree(Natural, tree, Present(value))
    BY <2>1, Certified
  <2> QED BY <2>2, BalanceIsRedBlack DEF SortedTree
<1> QED BY <1>1, Invariance, PTL

\* the tree between two iterations of rbtree_insert_fix
LEMMA InsertingIs ==
  ASSUME NEW t, NEW L, NEW z, InsertTree(Natural, t, L, z), NEW e
  PROVE  /\ BlackHeight(t, t.root, NULL, e) # -1
         /\ NoRedRed(t, z)
         /\ IsRed(t, t.root) => z = t.root
         /\ IsBlack(t, Nil)
<1>1. PICK u, h : Search(Natural, t, L, u) /\ Inserting(t, L, h, z)
  BY DEF InsertTree
<1>2. Linked(t) = L /\ t.root \in L \cup {Nil} /\ NULL \notin L
  BY <1>1, SearchIsLinked, SearchIsOrdered, Facts
<1>3. Heights(t, L, h, NULL, "left")
  BY <1>1 DEF Inserting
<1>4. Heights(t, L, h, NULL, e)
  BY <1>2, <1>3, NoExtra
<1>5. BlackHeight(t, t.root, NULL, e) # -1
  BY <1>1, <1>2, <1>4, BlackHeightIs
<1> QED BY <1>1, <1>2, <1>5 DEF Inserting, NoRedRed

\* and of rbtree_delete_fixup
LEMMA DeletingIs ==
  ASSUME NEW t, NEW L, NEW x, NEW root, DeleteTree(Natural, t, L, x, root)
  PROVE  /\ BlackHeight(t, t.root, IF x = root /\ IsBlack(t, x) THEN NULL ELSE t.parent[x],
                        SideOf(t, x)) # -1
         /\ NoRedRed(t, x)
         /\ IsRed(t, t.root) => x = t.root
         /\ IsBlack(t, Nil)
<1>1. PICK u, h : Search(Natural, t, L, u) /\ Deleting(t, L, h, x, root)
  BY DEF DeleteTree
<1>2. Linked(t) = L /\ t.root \in L \cup {Nil} /\ NULL \notin L
  BY <1>1, SearchIsLinked, SearchIsOrdered, Facts
<1> DEFINE e == SideOf(t, x)
           p == IF x = root /\ IsBlack(t, x) THEN NULL ELSE t.parent[x]
<1>3. CASE x = root /\ IsBlack(t, x) /\ Balance(t, L, h)
  <2>1. Heights(t, L, h, NULL, "left") /\ p = NULL
    BY <1>3 DEF Balance
  <2> HIDE DEF e
  <2>2. Heights(t, L, h, NULL, e)
    BY <1>2, <2>1, NoExtra
  <2>3. BlackHeight(t, t.root, NULL, e) # -1
    BY <1>1, <1>2, <2>2, BlackHeightIs
  <2>4. NoRedRed(t, x)
    BY <1>2, <1>3 DEF Balance, NoRedRed
  <2>5. (IsRed(t, t.root) => x = t.root) /\ IsBlack(t, Nil)
    BY <1>3 DEF Balance, IsBlack
  <2> QED BY <2>1, <2>3, <2>4, <2>5 DEF e
<1>4. CASE Paintable(t, L, h, x)
  <2>1. p = t.parent[x] /\ Heights(t, L, h, t.parent[x], e)
    BY <1>4 DEF Paintable, IsBlack
  <2> HIDE DEF e
  <2>3. BlackHeight(t, t.root, t.parent[x], e) # -1
    BY <1>1, <1>2, <2>1, BlackHeightIs
  <2>4. NoRedRed(t, x)
    BY <1>2, <1>4 DEF Paintable, NoRedRed
  <2> QED BY <1>4, <2>1, <2>3, <2>4 DEF Paintable, e
<1>5. ASSUME NEW d, Lacking(t, L, h, x, t.parent[x], d), x # root
      PROVE  /\ p = t.parent[x] /\ e = d
             /\ BlackHeight(t, t.root, t.parent[x], d) # -1
  <2> DEFINE q == t.parent[x]
  <2>1. /\ q \in L /\ d \in Sides /\ t.kid[q][d] = x /\ Heights(t, L, h, q, d)
    BY <1>5 DEF Lacking
  <2>2. e = d
    <3>1. CASE d = "left"
      BY <2>1, <3>1 DEF SideOf
    <3>2. CASE d = "right"
      <4>1. t.kid[q]["left"] # x
        <5> SUFFICES ASSUME t.kid[q]["left"] = x PROVE FALSE
          OBVIOUS
        <5>1. "left" \in Sides /\ "left" # "right" /\ x \in Nodes
          BY <1>1, <1>5, Facts DEF Sides, Lacking
        <5>2. /\ h[q] = h[x] + One(q = q /\ "left" = d) + One(IsBlack(t, q))
              /\ h[q] = h[x] + One(q = q /\ d = d) + One(IsBlack(t, q))
          BY <2>1, <5>1 DEF Heights, HeightAt
        <5>3. h[x] \in Nat
          BY <2>1, <5>1 DEF Heights
        <5> QED BY <3>2, <5>2, <5>3 DEF One
      <4> QED BY <3>2, <4>1 DEF SideOf
    <3> QED BY <2>1, <3>1, <3>2 DEF Sides
  <2> HIDE DEF q
  <2>3. BlackHeight(t, t.root, q, d) # -1
    BY <1>1, <1>2, <2>1, BlackHeightIs
  <2> QED BY <1>5, <2>2, <2>3 DEF q
<1>6. ASSUME NEW d, Lacking(t, L, h, x, t.parent[x], d), x # root
      PROVE  NoRedRed(t, x) /\ (IsRed(t, t.root) => x = t.root) /\ IsBlack(t, Nil)
  BY <1>2, <1>6 DEF Lacking, NoRedRed, NoReds, IsBlack
<1> QED BY <1>1, <1>3, <1>4, <1>5, <1>6 DEF Deleting

\* Between two iterations of rbtree_insert_fix and of rbtree_delete_fixup, what their loops
\* rely on holds.
THEOREM FixInvariantHolds == Spec => []FixInvariant
<1>1. IInv => FixInvariant
  <2> SUFFICES ASSUME IInv, Kept, fix # NoFix
               PROVE  /\ BlackHeight(tree, tree.root, Extra, SideOf(tree, fix.at)) # -1
                      /\ NoRedRed(tree, fix.at)
                      /\ IsRed(tree, tree.root) => fix.at = tree.root
                      /\ IsBlack(tree, Nil)
    BY DEF FixInvariant
  <2> DEFINE L == Present(value)
  <2>1. TreeKept
    BY DEF IInv, Kept
  <2> HIDE DEF L
  <2>2. CASE fix.kind = "insert" /\ InsertTree(Natural, tree, L, fix.at)
    <3>1. Extra = NULL
      BY <2>2 DEF Extra
    <3> DEFINE e == SideOf(tree, fix.at)
    <3> HIDE DEF e
    <3>2. /\ BlackHeight(tree, tree.root, NULL, e) # -1
          /\ NoRedRed(tree, fix.at)
          /\ IsRed(tree, tree.root) => fix.at = tree.root
          /\ IsBlack(tree, Nil)
      BY <2>2, InsertingIs
    <3> QED BY <3>1, <3>2 DEF e
  <2>3. CASE fix.kind = "delete" /\ DeleteTree(Natural, tree, L, fix.at, fix.root)
    <3>1. Extra = IF fix.at = fix.root /\ IsBlack(tree, fix.at) THEN NULL ELSE tree.parent[fix.at]
      BY <2>3 DEF Extra
    <3> DEFINE p == IF fix.at = fix.root /\ IsBlack(tree, fix.at) THEN NULL ELSE tree.parent[fix.at]
    <3>2. /\ BlackHeight(tree, tree.root, p, SideOf(tree, fix.at)) # -1
          /\ NoRedRed(tree, fix.at)
          /\ IsRed(tree, tree.root) => fix.at = tree.root
          /\ IsBlack(tree, Nil)
      BY <2>3, DeletingIs
    <3> HIDE DEF p
    <3> QED BY <3>1, <3>2 DEF p
  <2> QED BY <2>1, <2>2, <2>3 DEF TreeKept, TreeIn, L
<1> QED BY <1>1, Invariance, PTL

\* len() counts the nodes, and besides them only what is being removed.
THEOREM LengthCountsHolds == Spec => []LengthCounts
<1>1. IInv => LengthCounts
  <2> SUFFICES ASSUME IInv, Kept, ~Clearing
               PROVE  length = Cardinality(Linked(tree)) + Cardinality(Removals)
    BY DEF LengthCounts
  <2> DEFINE L == Present(value)
  <2>1. Framed /\ TreeKept /\ Counts
    BY DEF IInv, Kept
  <2>2. PICK u : Search(Natural, tree, L, u)
    BY <2>1, Certified
  <2>3. length = Cardinality(L) + Cardinality(Removals)
    BY <2>1 DEF Counts
  <2> HIDE DEF L
  <2>4. Linked(tree) = L
    BY <2>2, SearchIsLinked, SearchIsOrdered
  <2> QED BY <2>3, <2>4
<1> QED BY <1>1, Invariance, PTL

\* Under the contract, no freed node is followed, no freed value handed out, no list overrun,
\* no key put twice and no node lost.
THEOREM NoFaultHolds == Spec => []NoFault
<1>1. IInv => NoFault
  BY DEF IInv, NoFault
<1> QED BY <1>1, Invariance, PTL

\* Whatever clients do, only a call that changes the tree under another one makes that one use
\* what was freed or put a key that is there.
THEOREM OverlapExplainsHolds == Spec => []OverlapExplains
<1>1. IInv => OverlapExplains
  BY DEF IInv
<1> QED BY <1>1, Invariance, PTL

-----------------------------------------------------------------------------
(* The map implements the sorted dictionary *)

\* The clients have kept to the contract.
Good == IInv /\ Kept /\ OneDict

\* what the invariant says then
LEMMA GoodIs ==
  ASSUME Good
  PROVE  /\ Framed /\ TreeKept /\ Counts /\ breach = {} /\ fault = "none"
         /\ call = [c \in Callers |-> call[c]]
         /\ \A c \in Callers : Placed(tree, value, call[c]) /\ Counted(Present(value), call[c])
  BY DEF Good, IInv, Kept, Framed, Counts

\* The keys of the dictionary are those of the map.
LEMMA ContentsIs ==
  /\ Dict!Present = Present(value) /\ DOMAIN Contents = Present(value)
  /\ \A k \in Present(value) : Contents[k] = value[k]
  /\ Dict!Cardinality(Dict!Present) = Cardinality(Present(value))
<1>1. DOMAIN Contents = Present(value) /\ \A k \in Present(value) : Contents[k] = value[k]
  BY DEF Contents, Present
<1>2. Dict!Present = DOMAIN Contents
  BY DEF Dict!Present
<1>3. Dict!Cardinality(Dict!Present) = Cardinality(Dict!Present)
  BY Zenon DEF Dict!Cardinality, Cardinality
<1> QED BY <1>1, <1>2, <1>3

\* An empty map is an empty dictionary.
LEMMA NothingIs == Present(value) = {} => Contents = [k \in {} |-> 0]
  BY DEF Contents, Present

\* len() counts the keys and what is leaving.
LEMMA LeavingIs ==
  ASSUME Good
  PROVE  /\ Leaving \in Nat /\ Cardinality(Present(value)) \in Nat
         /\ length = Cardinality(Present(value)) + Leaving
<1>1. Counts /\ Cardinality(Present(value)) \in Nat /\ Cardinality(Removals) \in Nat
  BY GoodIs, FiniteSets
<1>2. CASE Clearing
  <2>1. Present(value) = {} /\ length > 0 /\ length \in Int /\ Leaving = length
    BY <1>1, <1>2 DEF Counts, Leaving
  <2>2. Cardinality(Present(value)) = 0
    BY <2>1, FS_EmptySet
  <2> QED BY <2>1, <2>2
<1>3. CASE ~Clearing
  BY <1>1, <1>3 DEF Counts, Leaving
<1> QED BY <1>2, <1>3

\* The same entries count as leaving while the same calls release something.
LEMMA LeavingStays ==
  ASSUME \A d \in Callers : /\ call'[d].op = "removed" <=> call[d].op = "removed"
                            /\ call'[d].op = "cleared" <=> call[d].op = "cleared",
         Clearing => length' = length
  PROVE  Leaving' = Leaving
<1>1. Removals' = Removals /\ (Clearing' <=> Clearing)
  BY DEF Removals, Clearing
<1>2. CASE Clearing
  BY <1>1, <1>2 DEF Leaving
<1>3. CASE ~Clearing
  BY <1>1, <1>3 DEF Leaving
<1> QED BY <1>2, <1>3

\* c goes on with frame g and neither frame releases anything.
LEMMA GoesLeaving ==
  ASSUME Good, NEW c \in Callers, NEW g, Goes(c, g), call[c].op \notin Releasing,
         g.op \notin Releasing, Clearing => length' = length
  PROVE  Leaving' = Leaving
<1>1. \A d \in Callers : call'[d] = IF d = c THEN g ELSE call[d]
  BY GoodIs DEF Goes
<1>2. \A d \in Callers : /\ call'[d].op = "removed" <=> call[d].op = "removed"
                         /\ call'[d].op = "cleared" <=> call[d].op = "cleared"
  BY <1>1 DEF Releasing
<1> QED BY <1>2, LeavingStays

\* A call that returns and releases nothing.
LEMMA ReturnsLeaving ==
  ASSUME Good, NEW c \in Callers, Returns(c), call[c].op \notin Releasing, length' = length
  PROVE  Leaving' = Leaving
<1>1. Goes(c, Idle) /\ Idle.op \notin Releasing
  BY IdlePlaced DEF Returns, Releasing
<1> QED BY <1>1, GoesLeaving

\* No frame changes.
LEMMA SameLeaving == UNCHANGED <<call, length>> => Leaving' = Leaving
  BY DEF Leaving, Clearing, Removals

\* What is left alone in most steps.
LEMMA SameContents == value' = value => Contents' = Contents
  BY DEF Contents

\* What is asked for is what each frame says.
LEMMA CallsAre == \A d \in Callers : Calls[d] = Called(call[d])
  BY DEF Calls

LEMMA CalledIs ==
  ASSUME NEW f
  PROVE  /\ Called(f).op = f.op /\ Called(f).key = f.key
         /\ Called(f).val = (IF f.op \in Pairs THEN NULL ELSE f.val)
         /\ Called(f).todo = (IF f.op \in Puts THEN f.list ELSE <<>>)
  BY DEF Called

LEMMA CalledFrame ==
  ASSUME NEW op, NEW key, NEW val, NEW node, NEW count, NEW list
  PROVE  Called(Frame(op, key, val, node, count, list)) =
           Dict!Call(op, key, IF op \in Pairs THEN NULL ELSE val, IF op \in Puts THEN list ELSE <<>>)
  BY DEF Called, Frame, Dict!Call

LEMMA IdleCalled == Called(Idle) = Dict!Bare("idle")
  BY CalledFrame DEF Idle, Dict!Bare, Pairs, Puts

\* No frame asks for anything else than before.
LEMMA SameCalls ==
  ASSUME \A d \in Callers : Called(call'[d]) = Called(call[d])
  PROVE  Calls' = Calls
  BY DEF Calls

\* The frame of c does.
LEMMA AsksIs ==
  ASSUME NEW c \in Callers, NEW q,
         \A d \in Callers : Called(call'[d]) = IF d = c THEN q ELSE Called(call[d])
  PROVE  Dict!Asks(c, q)
<1>1. Calls' = [d \in Callers |-> IF d = c THEN q ELSE Called(call[d])]
  BY DEF Calls
<1>2. [Calls EXCEPT ![c] = q] = [d \in Callers |-> IF d = c THEN q ELSE Called(call[d])]
  BY DEF Calls
<1> QED BY <1>1, <1>2 DEF Dict!Asks

LEMMA GoesCalls ==
  ASSUME Good, NEW c \in Callers, NEW g, Goes(c, g)
  PROVE  /\ Dict!Asks(c, Called(g))
         /\ Called(g) = Called(call[c]) => Calls' = Calls
<1>1. \A d \in Callers : call'[d] = IF d = c THEN g ELSE call[d]
  BY GoodIs DEF Goes
<1>2. \A d \in Callers : Called(call'[d]) = IF d = c THEN Called(g) ELSE Called(call[d])
  BY <1>1
<1>3. Dict!Asks(c, Called(g))
  BY <1>2, AsksIs
<1>4. ASSUME Called(g) = Called(call[c]) PROVE Calls' = Calls
  <2>1. \A d \in Callers : Called(call'[d]) = Called(call[d])
    BY <1>2, <1>4
  <2> QED BY <2>1, SameCalls
<1> QED BY <1>3, <1>4

\* A call that is over.
LEMMA ReturnsCalls ==
  ASSUME Good, NEW c \in Callers, Returns(c)
  PROVE  Dict!Done(c)
  BY GoesCalls, IdleCalled DEF Returns, Dict!Done

\* A caller inside no method has asked for nothing.
LEMMA FreeIs == ASSUME NEW c \in Callers, CanCall(c) PROVE Dict!Free(c)
  BY CallsAre, CalledIs DEF CanCall, Dict!Free

LEMMA StepKept == ASSUME Good', NEW c \in Callers, Dict!Step(c) PROVE Dict!Kept
  BY DEF Dict!Kept, Good, Kept

\* A step nobody sees.
LEMMA QuietSim ==
  ASSUME Good', UNCHANGED <<value, Leaving, Calls>>, result' = Pending
  PROVE  Dict!Kept
<1>1. Dict!Quiet
  BY SameContents DEF Dict!Quiet, Dict!Held, Dict!Pending, Dict!Answer, Pending, Answer
<1> QED BY <1>1 DEF Dict!Kept, Good, Kept

\* A call goes on with what it was asked for, and releases nothing.
LEMMA GoesSim ==
  ASSUME Good, Good', NEW c \in Callers, NEW g, Goes(c, g), call[c].op \notin Releasing,
         Called(g) = Called(call[c]), UNCHANGED <<value, length>>, result' = Pending
  PROVE  Dict!Kept
<1>1. g.op \notin Releasing
  BY CalledIs
<1>2. Leaving' = Leaving /\ Calls' = Calls
  BY <1>1, GoesLeaving, GoesCalls
<1> QED BY <1>2, QuietSim

\* A call is asked for.
LEMMA AskSim ==
  ASSUME Good, Good', NEW c \in Callers, CanCall(c), NEW g, Goes(c, g), g.op \notin Releasing,
         UNCHANGED <<value, length>>, result' = Pending,
         \/ \E k \in Keys, op \in {"get", "remove", "setnx"} : Called(g) = Dict!Call(op, k, NULL, <<>>)
         \/ \E k \in Keys, v \in Values, op \in {"put", "setdefault"} :
              Called(g) = Dict!Call(op, k, v, <<>>)
         \/ \E op \in {"popitem", "min", "max", "keys", "items"} : Called(g) = Dict!Bare(op)
  PROVE  Dict!Kept
<1>1. call[c].op \notin Releasing
  BY DEF CanCall, Releasing
<1>2. Dict!Free(c) /\ Dict!Asks(c, Called(g)) /\ UNCHANGED Dict!Held
  BY <1>1, FreeIs, GoesCalls, GoesLeaving, SameContents DEF Dict!Held
<1>3. result' = Dict!Pending
  BY DEF Dict!Pending, Dict!Answer, Pending, Answer
<1> DEFINE q == Called(g)
<1> HIDE DEF q
<1>4. \/ \E k \in Keys, op \in {"get", "remove", "setnx"} : Dict!Asks(c, Dict!Call(op, k, NULL, <<>>))
      \/ \E k \in Keys, v \in Values, op \in {"put", "setdefault"} :
           Dict!Asks(c, Dict!Call(op, k, v, <<>>))
      \/ \E op \in {"popitem", "min", "max", "keys", "items"} : Dict!Asks(c, Dict!Bare(op))
  <2>1. \A r : q = r => Dict!Asks(c, r)
    BY <1>2 DEF q
  <2> QED BY <2>1 DEF q
<1>5. Dict!Ask(c)
  BY <1>2, <1>3, <1>4 DEF Dict!Ask
<1> QED BY <1>5, StepKept DEF Dict!Step

\* The steps that begin a search or a put.
LEMMA BeginSim ==
  ASSUME Good, Good', NEW c \in Callers, NEW k \in Keys, NEW v, NEW op,
         (op \in {"get", "remove", "setnx"} /\ v = NULL) \/ (op \in {"put", "setdefault"} /\ v \in Values),
         Begin(c, op, k, v)
  PROVE  Dict!Kept
<1> DEFINE g == Frame(op, k, v, Nil, 0, <<>>)
<1>1. g.op \notin Releasing /\ op \notin Pairs
  BY DEF Frame, Releasing, Pairs
<1>2. CanCall(c) /\ Goes(c, g) /\ UNCHANGED <<value, length>> /\ result' = Pending
  BY DEF Begin, shape
<1>3. Called(g) = Dict!Call(op, k, v, <<>>)
  BY <1>1, CalledFrame
<1> HIDE DEF g
<1> QED BY <1>1, <1>2, <1>3, AskSim

\* A descent goes on.
LEMMA DescendSim == ASSUME Good, Good', NEW c \in Callers, Descend(c) PROVE Dict!Kept
<1> DEFINE g == At(call[c], Below(call[c]))
<1>1. /\ Goes(c, g) /\ UNCHANGED <<value, length>> /\ result' = Pending /\ call[c].op \notin Releasing
  BY DEF Descend, Descending, Inside, shape, Searches, Puts, Releasing
<1>2. Called(g) = Called(call[c])
  BY DEF At, Frame, Called
<1> HIDE DEF g
<1> QED BY <1>1, <1>2, GoesSim

\* A call that raises leaves the dictionary alone.
LEMMA FailsSim == ASSUME Good, Good', NEW c \in Callers, Fails(c) \/ NoMemory(c) PROVE Dict!Kept
<1>1. /\ Returns(c) /\ UNCHANGED <<value, length>> /\ result' = Answer("error", <<>>)
      /\ call[c].op \notin Releasing \cup {"idle"}
  BY DEF Fails, NoMemory, Inside, shape, Searches, Puts, Pairs, Lists, Releasing
<1>2. Dict!Done(c) /\ UNCHANGED Dict!Held
  BY <1>1, ReturnsCalls, ReturnsLeaving, SameContents DEF Dict!Held
<1>3. Calls[c].op \notin {"idle", "removed", "cleared"}
  BY <1>1, CallsAre, CalledIs DEF Releasing
<1>4. Dict!Fails(c)
  BY <1>1, <1>2, <1>3 DEF Dict!Fails, Dict!Answer, Answer
<1> QED BY <1>4, StepKept DEF Dict!Step

\* setdefault() and setnx() have not found their key and go on with a put.
LEMMA PutAbsentSim == ASSUME Good, Good', NEW c \in Callers, PutAbsent(c) PROVE Dict!Kept
<1> DEFINE f == call[c]
           q == Calls[c]
<1>1. /\ UNCHANGED <<value, length>> /\ result' = Pending /\ f.op \notin Releasing /\ Running
      /\ f.op \in {"setdefault", "setnx"} /\ f.node # NULL /\ Miss(f)
  BY DEF PutAbsent, Descending, Inside, Dangling, shape, Releasing
<1>2. f.key \notin Present(value)
  BY <1>1, GoodIs, MissIs DEF Running, Searches
<1>3. q = Dict!Call(f.op, f.key, f.val, <<>>) /\ q.key \notin Dict!Present
  <2>1. Called(f) = Dict!Call(f.op, f.key, f.val, <<>>)
    BY <1>1 DEF Called, Dict!Call, Pairs, Puts
  <2>2. q = Dict!Call(f.op, f.key, f.val, <<>>) /\ q.key = f.key
    BY <2>1, CallsAre DEF Dict!Call
  <2> QED BY <1>2, <2>2, ContentsIs
<1>4. \E v, op : /\ Goes(c, Frame(op, f.key, v, Nil, 0, <<>>)) /\ op \notin Releasing \cup Pairs
                 /\ \/ f.op = "setdefault" /\ op = "setdefault_put" /\ v = f.val
                    \/ f.op = "setnx" /\ op = "setnx_put" /\ v \in Values
  <2>1. CASE f.op = "setdefault"
    BY <2>1 DEF PutAbsent, Releasing, Pairs
  <2>2. CASE f.op = "setnx"
    BY <2>2 DEF PutAbsent, Releasing, Pairs
  <2> QED BY <1>1, <2>1, <2>2
<1>5. PICK v, op : /\ Goes(c, Frame(op, f.key, v, Nil, 0, <<>>)) /\ op \notin Releasing \cup Pairs
                   /\ \/ f.op = "setdefault" /\ op = "setdefault_put" /\ v = f.val
                      \/ f.op = "setnx" /\ op = "setnx_put" /\ v \in Values
  BY <1>4
<1> DEFINE g == Frame(op, f.key, v, Nil, 0, <<>>)
<1>6. g.op = op /\ Called(g) = Dict!Call(op, f.key, v, <<>>)
  BY <1>5, CalledFrame, FrameIs
<1> HIDE DEF g
<1>7. Dict!Asks(c, Dict!Call(op, f.key, v, <<>>)) /\ UNCHANGED Dict!Held
  BY <1>1, <1>5, <1>6, GoesCalls, GoesLeaving, SameContents DEF Dict!Held, g
<1> HIDE DEF q, f
<1>8. \/ q.op = "setdefault" /\ Dict!Asks(c, Dict!Call("setdefault_put", q.key, q.val, <<>>))
      \/ q.op = "setnx" /\ \E w \in Values : Dict!Asks(c, Dict!Call("setnx_put", q.key, w, <<>>))
  <2>1. q.op = f.op /\ q.key = f.key /\ q.val = f.val
    BY <1>3 DEF Dict!Call
  <2> QED BY <1>5, <1>7, <2>1
<1>9. Dict!Missing(c)
  BY <1>1, <1>3, <1>7, <1>8 DEF Dict!Missing, q, Dict!Pending, Dict!Answer, Pending, Answer
<1> QED BY <1>9, StepKept DEF Dict!Step

\* The loops change the links alone.
LEMMA LoopSim == ASSUME Good', FixInsert \/ FixDelete PROVE Dict!Kept
<1>1. UNCHANGED <<value, length, call>> /\ result' = Pending
  BY DEF FixInsert, FixDelete
<1>2. Calls' = Calls
  BY <1>1, SameCalls
<1> QED BY <1>1, <1>2, SameLeaving, QuietSim

\* With a dict or keywords, but not both, update() puts all it was given.
LEMMA TodoIs ==
  ASSUME OneDict, NEW u \in Updates
  PROVE  /\ u[1] \o u[2] \in Seq(Keys \X Values)
         /\ u[1] \o SubSeq(u[2], Len(u[1]) + 1, Len(u[2])) = u[1] \o u[2]
<1>1. u[1] \in Seq(Keys \X Values) /\ u[2] \in Seq(Keys \X Values) /\ <<>> \in Seq(Keys \X Values)
  BY UpdatesAssumption
<1>2. CASE u[1] = <<>>
  <2>1. Len(u[1]) + 1 = 1
    BY <1>2
  <2>2. SubSeq(u[2], 1, Len(u[2])) = u[2]
    BY <1>1, SubSeqFull
  <2> QED BY <1>1, <1>2, <2>1, <2>2
<1>3. CASE u[2] = <<>>
  <2> DEFINE m == Len(u[1]) + 1
             n == Len(u[2])
  <2>1. m \in Int /\ n \in Int /\ n < m
    <3>1. Len(u[1]) \in Nat /\ Len(u[2]) = 0
      BY <1>1, <1>3
    <3> QED BY <3>1
  <2> HIDE DEF m, n
  <2>2. SubSeq(u[2], m, n) = <<>>
    BY <2>1, SubSeqEmpty
  <2>3. SubSeq(u[2], Len(u[1]) + 1, Len(u[2])) = u[2]
    BY <1>3, <2>2 DEF m, n
  <2>4. u[1] \o u[2] \in Seq(Keys \X Values)
    BY <1>1
  <2> QED BY <2>3, <2>4
<1> QED BY <1>2, <1>3 DEF OneDict

\* What is put next is what is asked for next.
LEMMA AfterPutCalled ==
  ASSUME NEW f
  PROVE  Called(AfterPut(f)) = IF f.list = <<>> THEN Dict!Bare("idle") ELSE Dict!Updating(f.list)
<1>1. CASE f.list = <<>>
  BY <1>1, IdleCalled DEF AfterPut
<1>2. CASE f.list # <<>>
  <2>1. "update" \in Puts /\ "update" \notin Pairs
    BY DEF Puts, Pairs
  <2> QED BY <1>2, <2>1, CalledFrame DEF AfterPut, Dict!Updating
<1> QED BY <1>1, <1>2

\* update() of nothing answers; else it begins.
LEMMA UpdateSim ==
  ASSUME Good, Good', NEW c \in Callers, NEW u \in Updates, Update(c, u[1], u[2]) PROVE Dict!Kept
<1> DEFINE todo == u[1] \o u[2]
           f == Frame("update", NULL, NULL, Nil, 0, todo)
           g == AfterPut(f)
<1>1. todo = u[1] \o SubSeq(u[2], Len(u[1]) + 1, Len(u[2]))
  BY TodoIs DEF Good
<1>2. /\ UNCHANGED <<value, length>> /\ call[c].op \notin Releasing /\ CanCall(c)
      /\ \/ todo = <<>> /\ result' = Answer("update", todo) /\ call' = call
         \/ todo # <<>> /\ Goes(c, g) /\ result' = Answer("asked", todo)
  BY <1>1 DEF Update, CanCall, shape, Releasing
<1>3. Dict!Free(c) /\ Contents' = Contents
  BY <1>2, FreeIs, SameContents
<1> HIDE DEF todo
<1>4. f.list = todo
  BY FrameIs
<1> HIDE DEF f
<1>5. CASE todo = <<>> /\ result' = Answer("update", todo) /\ call' = call
  <2>1. result' = Dict!Answer("update", <<>>)
    BY <1>5 DEF Answer, Dict!Answer
  <2>2. Calls' = Calls /\ Leaving' = Leaving
    BY <1>2, <1>5, SameCalls, SameLeaving
  <2>3. Dict!UpdateNothing(c)
    BY <1>3, <2>1, <2>2 DEF Dict!UpdateNothing, Dict!Held
  <2> QED BY <2>3, StepKept DEF Dict!Step
<1>6. CASE todo # <<>> /\ Goes(c, g) /\ result' = Answer("asked", todo)
  <2>1. result'.op = "asked" /\ result'.out = todo
    BY <1>6 DEF Answer
  <2>2. g.op = "update" /\ Called(g) = Dict!Updating(todo)
    BY <1>4, <1>6, AfterPutCalled DEF AfterPut, Frame
  <2> HIDE DEF g
  <2>3. Dict!Asks(c, Dict!Updating(result'.out))
    BY <1>6, <2>1, <2>2, GoesCalls
  <2>4. Leaving' = Leaving
    <3>1. g.op \notin Releasing
      BY <2>2 DEF Releasing
    <3> QED BY <1>2, <1>6, <3>1, GoesLeaving
  <2>5. Dict!AskUpdate(c)
    BY <1>3, <2>1, <2>3, <2>4 DEF Dict!AskUpdate, Dict!Held
  <2> QED BY <2>5, StepKept DEF Dict!Step
<1> QED BY <1>2, <1>5, <1>6

-----------------------------------------------------------------------------
(* Answers *)

\* A search that found its key answers the value, one that did not, nothing.
LEMMA FoundSim == ASSUME Good, Good', NEW c \in Callers, Found(c) \/ NotFound(c) PROVE Dict!Kept
<1> DEFINE f == call[c]
<1>1. /\ Running /\ f.op \in Searches /\ f.node # NULL /\ Returns(c) /\ UNCHANGED <<value, length>>
      /\ f.op \notin Releasing
  BY DEF Found, NotFound, Descending, Inside, Dangling, shape, Searches, Releasing
<1>2. UNCHANGED Dict!Held /\ Dict!Done(c)
  BY <1>1, ReturnsLeaving, ReturnsCalls, SameContents DEF Dict!Held
<1>3. f.key \in Keys /\ (f.node # Nil => f.node \in Present(value))
  BY <1>1, GoodIs DEF Placed
<1>q. Calls[c].op = f.op /\ Calls[c].key = f.key
  BY CallsAre, CalledIs
<1> HIDE DEF f
<1>4. CASE Found(c)
  <2>1. f.op \in {"get", "setdefault", "setnx"} /\ result' = Answer(f.op, <<value[f.key]>>) /\ f.node = f.key
    BY <1>4 DEF Found, Descending, Inside, Hit, f
  <2>2. f.key \in Dict!Present /\ Contents[f.key] = value[f.key]
    BY <1>3, <2>1, NilAssumption, ContentsIs
  <2>3. Dict!Found(c)
    BY <1>2, <1>q, <2>1, <2>2 DEF Dict!Found, Dict!Answer, Answer
  <2> QED BY <2>3, StepKept DEF Dict!Step
<1>5. CASE NotFound(c)
  <2>1. f.op \in {"get", "remove"} /\ result' = Answer(f.op, <<>>) /\ Miss(f)
    BY <1>5 DEF NotFound, Descending, Inside, f
  <2>2. f.key \notin Present(value)
    BY <1>1, <2>1, GoodIs, MissIs DEF Running, f
  <2>3. f.key \notin Dict!Present
    BY <2>2, ContentsIs
  <2>4. Dict!NotFound(c)
    BY <1>2, <1>q, <2>1, <2>3 DEF Dict!NotFound, Dict!Answer, Answer
  <2> QED BY <2>4, StepKept DEF Dict!Step
<1> QED BY <1>4, <1>5

\* min() and max() answer the end that they found.
LEMMA PeekSim == ASSUME Good, Good', NEW c \in Callers, Peek(c) PROVE Dict!Kept
<1> DEFINE f == call[c]
           k == f.node
<1>1. /\ f.op \in {"min", "max"} /\ result' = Answer(f.op, <<k, value[k]>>)
      /\ Returns(c) /\ UNCHANGED <<value, length>> /\ f.op \notin Releasing
  BY DEF Peek, Inside, shape, Releasing
<1>2. UNCHANGED Dict!Held /\ Dict!Done(c) /\ Calls[c].op = f.op
  BY <1>1, ReturnsLeaving, ReturnsCalls, SameContents, CallsAre, CalledIs DEF Dict!Held
<1>3. Placed(tree, value, f)
  BY GoodIs
<1>4. k \in Present(value) /\ k \in Keys /\ k \in Dict!Present /\ Contents[k] = value[k]
  BY <1>1, <1>3, ContentsIs DEF Placed, Pairs, Present
<1>5. (f.op = "min" => Dict!IsLeast(k)) /\ (f.op = "max" => Dict!IsGreatest(k))
  BY <1>3, ContentsIs DEF Placed, Dict!IsLeast, Dict!IsGreatest
<1> HIDE DEF f, k
<1>6. Dict!Peek(c, k)
  BY <1>1, <1>2, <1>4, <1>5 DEF Dict!Peek, Dict!Answer, Answer
<1> QED BY <1>4, <1>6, StepKept DEF Dict!Step

\* A pair of an empty map is refused; else the call begins.
LEMMA PairBeginSim ==
  ASSUME Good, Good', NEW c \in Callers, NEW op \in Pairs, PairBegin(c, op) PROVE Dict!Kept
<1> DEFINE n == IF op = "max" THEN Greatest(tree, tree.root) ELSE Least(tree, tree.root)
           g == Frame(op, NULL, value[n], n, 0, <<>>)
<1>1. /\ UNCHANGED <<value, length>> /\ CanCall(c)
      /\ \/ tree.root = Nil /\ result' = Answer(op, <<>>) /\ call' = call
         \/ Goes(c, g) /\ result' = Pending
  BY DEF PairBegin, CanCall, shape, Releasing
<1>2. CASE tree.root = Nil /\ result' = Answer(op, <<>>) /\ call' = call
  <2>1. PICK u : Search(Natural, tree, Present(value), u)
    BY GoodIs, Certified
  <2>2. Present(value) = {}
    <3> DEFINE L == Present(value)
    <3> HIDE DEF L
    <3>1. L = {}
      BY <1>2, <2>1, Facts DEF L
    <3> QED BY <3>1 DEF L
  <2>3. result' \in {Dict!Answer(o, <<>>) : o \in {"popitem", "min", "max"}}
    BY <1>2 DEF Dict!Answer, Answer, Pairs
  <2>4. UNCHANGED <<Calls, Leaving, Contents>> /\ Dict!Free(c)
    BY <1>1, <1>2, FreeIs, SameCalls, SameContents, SameLeaving
  <2>5. Dict!PeekEmpty(c)
    BY <2>2, <2>3, <2>4, ContentsIs DEF Dict!PeekEmpty, Dict!Held
  <2> QED BY <2>5, StepKept DEF Dict!Step
<1>3. CASE Goes(c, g) /\ result' = Pending
  <2>1. g.op = op /\ op \in {"popitem", "min", "max"} /\ op \notin Puts
    BY DEF Frame, Pairs, Puts
  <2>2. g.op \notin Releasing /\ Called(g) = Dict!Bare(op)
    BY <2>1, CalledFrame DEF Releasing, Dict!Bare
  <2> HIDE DEF g
  <2> QED BY <1>1, <1>3, <2>1, <2>2, AskSim
<1> QED BY <1>1, <1>2, <1>3

\* len() answers the keys and what is leaving.
LEMMA SizeSim == ASSUME Good, Good', NEW c \in Callers, Size(c) PROVE Dict!Kept
<1>1. UNCHANGED <<value, length, call>> /\ result' = Answer("len", <<length>>) /\ CanCall(c)
  BY DEF Size, shape
<1>2. length = Dict!Cardinality(Dict!Present) + Leaving
  BY LeavingIs, ContentsIs
<1>3. UNCHANGED <<Calls, Leaving, Contents>> /\ Dict!Free(c)
  BY <1>1, FreeIs, SameCalls, SameContents, SameLeaving
<1>4. Dict!Count(c)
  BY <1>1, <1>2, <1>3 DEF Dict!Count, Dict!Held, Dict!Answer, Answer
<1> QED BY <1>4, StepKept DEF Dict!Step

-----------------------------------------------------------------------------
(* Puts and removals *)

\* What a put that is over answers is what the dictionary does.
LEMMA PutAnswerIs ==
  ASSUME NEW f, f.op \in Puts, f.list = <<>>
  PROVE  PutAnswer(f) = Dict!PutAnswer(Called(f))
<1>1. Called(f).op = f.op /\ Called(f).val = f.val
  BY CalledIs DEF Puts, Pairs
<1>2. CASE f.op = "put"
  BY <1>1, <1>2 DEF PutAnswer, Dict!PutAnswer, Dict!Answer, Answer
<1>3. CASE f.op = "update"
  BY <1>1, <1>3 DEF PutAnswer, Dict!PutAnswer, Dict!Answer, Answer
<1>4. CASE f.op = "setdefault_put"
  BY <1>1, <1>4 DEF PutAnswer, Dict!PutAnswer, Dict!Answer, Answer
<1>5. CASE f.op = "setnx_put"
  BY <1>1, <1>5 DEF PutAnswer, Dict!PutAnswer, Dict!Answer, Answer
<1> QED BY <1>2, <1>3, <1>4, <1>5 DEF Puts

\* A value is put under a key.
LEMMA PutSim ==
  ASSUME Good, Good', NEW c \in Callers, NEW f, f = call[c], f.op \in Puts,
         f.key \in Keys, f.val \in Values, Framed, Goes(c, AfterPut(f)),
         value' = [value EXCEPT ![f.key] = f.val], result' = PutAnswer(f), Leaving' = Leaving
  PROVE  Dict!Kept
<1> DEFINE k == f.key
           L == Present(value)
<1>1. /\ value'[k] = f.val /\ f.val # NULL
      /\ \A j \in Keys : j # k => value'[j] = value[j]
  BY ValuesAssumption DEF Framed
<1>2. Present(value') = L \cup {k}
  BY <1>1 DEF Present
<1>3. Contents' = [j \in Present(value') |-> value'[j]]
  BY DEF Contents, Present
<1>4. \A j \in L \cup {k} : value'[j] = IF j = k THEN f.val ELSE Contents[j]
  BY <1>1, ContentsIs DEF Present
<1>5. Contents' = [j \in L \cup {k} |-> IF j = k THEN f.val ELSE Contents[j]]
  BY <1>2, <1>3, <1>4
<1>6. Dict!Set(k, f.val)
  BY <1>5, ContentsIs DEF Dict!Set
<1> DEFINE q == Calls[c]
<1>7. q = Called(f) /\ q.op = f.op /\ q.key = k /\ q.val = f.val /\ q.todo = f.list
  BY CallsAre, CalledIs DEF Puts, Pairs
<1>8. IF f.list = <<>> THEN Dict!Done(c) /\ result' = Dict!PutAnswer(q)
      ELSE Dict!Asks(c, Dict!Updating(f.list)) /\ result' = Dict!Pending
  <2>1. Dict!Asks(c, Called(AfterPut(f)))
    BY GoesCalls
  <2>2. CASE f.list = <<>>
    <3>1. Called(AfterPut(f)) = Dict!Bare("idle")
      BY <2>2, AfterPutCalled
    <3> QED BY <1>7, <2>1, <2>2, <3>1, PutAnswerIs DEF Dict!Done
  <2>3. CASE f.list # <<>>
    <3>1. Called(AfterPut(f)) = Dict!Updating(f.list)
      BY <2>3, AfterPutCalled
    <3>2. result' = Dict!Pending
      BY <2>3 DEF PutAnswer, Dict!Pending, Dict!Answer, Pending, Answer
    <3> QED BY <2>1, <2>3, <3>1, <3>2
  <2> QED BY <2>2, <2>3
<1> HIDE DEF q, k
<1>9. Dict!Put(c)
  BY <1>6, <1>7, <1>8 DEF Dict!Put, Puts, q
<1> QED BY <1>9, StepKept DEF Dict!Step

\* RBTree_PutNode puts the value in the node of its key,
LEMMA ReplacedSim == ASSUME Good, Good', NEW c \in Callers, Replaced(c) PROVE Dict!Kept
<1> DEFINE f == call[c]
           g == AfterPut(f)
<1>1. /\ f.op \in Puts /\ f.op \notin Releasing /\ Goes(c, g) /\ length' = length
      /\ value' = [value EXCEPT ![f.key] = f.val] /\ result' = PutAnswer(f)
  BY DEF Replaced, Descending, Inside, Puts, Releasing
<1>2. Framed /\ g.op \notin Releasing
  BY ReplacedIs DEF Good, Kept
<1>3. f.key \in Keys /\ f.val \in Values
  BY <1>1, GoodIs DEF Placed
<1>f. f = call[c] /\ Goes(c, AfterPut(f))
  BY <1>1
<1> HIDE DEF g
<1>4. Leaving' = Leaving
  BY <1>1, <1>2, GoesLeaving
<1> HIDE DEF f
<1> QED BY <1>1, <1>2, <1>3, <1>4, <1>f, PutSim

\* or in a new one.
LEMMA LinkNodeSim == ASSUME Good, Good', NEW c \in Callers, LinkNode(c) PROVE Dict!Kept
<1> DEFINE f == call[c]
           g == AfterPut(f)
<1>1. /\ f.op \in Puts /\ f.op \notin Releasing /\ Goes(c, g)
      /\ value' = [value EXCEPT ![f.key] = f.val] /\ result' = PutAnswer(f)
      /\ Nested({"cleared"}) \subseteq breach'
  BY DEF LinkNode, Linking, Descending, Inside, Puts, Releasing
<1>2. Framed /\ g.op \notin Releasing
  BY LinkNodeIs DEF Good, Kept
<1>3. f.key \in Keys /\ f.val \in Values
  BY <1>1, GoodIs DEF Placed
<1>4. ~Clearing
  BY <1>1 DEF Good, Kept, Nested, Clearing
<1>f. f = call[c] /\ Goes(c, AfterPut(f))
  BY <1>1
<1> HIDE DEF g
<1>5. Leaving' = Leaving
  BY <1>1, <1>2, <1>4, GoesLeaving
<1> HIDE DEF f
<1> QED BY <1>1, <1>2, <1>3, <1>5, <1>f, PutSim

\* An entry leaves the map and is counted until it is gone.
LEMMA UnlinkSim ==
  ASSUME Good, Good', NEW c \in Callers, NEW n, Running, call[c].op \in {"remove", "popitem"},
         Unlink(c, n), n \in Present(value),
         fault' = IF LosesNodes(n) THEN "lost_nodes" ELSE fault,
         \/ call[c].op = "remove" /\ call[c].key = n /\ result' = Answer("remove", <<value[n]>>)
         \/ /\ call[c].op = "popitem" /\ result' = Answer("popitem", <<n, value[n]>>)
            /\ \A k \in Present(value) : n <= k
  PROVE  Dict!Kept
<1> DEFINE L == Present(value)
<1>1. /\ Present(value') = L \ {n} /\ n \in Keys
      /\ \A e \in Callers : call'[e] = IF e = c THEN Gone ELSE call[e]
  <2>1. "overlap" \notin breach'
    BY DEF Good, Kept
  <2> QED BY <2>1, UnlinkIs DEF Good
<1>2. value' = [value EXCEPT ![n] = NULL] /\ Nested({"cleared"}) \subseteq breach'
  BY DEF Unlink
<1>3. \A j \in Keys : j # n => value'[j] = value[j]
  BY <1>2, GoodIs DEF Framed
<1>4. Contents' = [j \in L \ {n} |-> Contents[j]]
  <2>1. Contents' = [j \in Present(value') |-> value'[j]]
    BY DEF Contents, Present
  <2>2. \A j \in L \ {n} : value'[j] = Contents[j]
    BY <1>3, ContentsIs DEF Present
  <2> QED BY <1>1, <2>1, <2>2
<1>5. Leaving' = Leaving + 1
  <2>1. ~Clearing
    BY <1>2 DEF Good, Kept, Nested, Clearing
  <2>2. Gone.op = "removed"
    BY DEF Gone, Frame
  <2>3. ~Clearing' /\ Removals' = Removals \cup {c} /\ c \notin Removals
    BY <1>1, <2>1, <2>2 DEF Clearing, Removals
  <2>4. Cardinality(Removals \cup {c}) = Cardinality(Removals) + 1
    BY <2>3, FiniteSets, FS_AddElement
  <2> QED BY <2>1, <2>3, <2>4 DEF Leaving
<1>6. n \in Dict!Present /\ Contents[n] = value[n] /\ Dict!Unset(n)
  BY <1>4, ContentsIs DEF Dict!Unset
<1>7. (\A k \in L : n <= k) => Dict!IsLeast(n)
  BY ContentsIs DEF Dict!IsLeast
<1>8. Calls[c].op = call[c].op /\ Calls[c].key = call[c].key
  BY CallsAre, CalledIs
<1>9. Dict!Asks(c, Dict!Bare("removed"))
  <2>1. Called(Gone) = Dict!Bare("removed")
    BY CalledFrame DEF Gone, Dict!Bare, Pairs, Puts
  <2>2. \A d \in Callers : Called(call'[d]) = IF d = c THEN Dict!Bare("removed") ELSE Called(call[d])
    BY <1>1, <2>1
  <2> QED BY <2>2, AsksIs
<1>10. Dict!Remove(c, n)
  BY <1>5, <1>6, <1>7, <1>8, <1>9 DEF Dict!Remove, Dict!Answer, Answer
<1> QED BY <1>1, <1>10, StepKept DEF Dict!Step

\* del and pop() take out the key they were called with.
LEMMA RemoveSim == ASSUME Good, Good', NEW c \in Callers, Remove(c) PROVE Dict!Kept
<1> DEFINE n == call[c].key
<1>1. /\ Running /\ call[c].op = "remove" /\ call[c].node = n /\ Unlink(c, n)
      /\ fault' = IF LosesNodes(n) THEN "lost_nodes" ELSE fault
      /\ result' = Answer("remove", <<value[n]>>)
  BY DEF Remove, Descending, Inside, Hit
<1>2. n \in Present(value)
  BY <1>1, GoodIs, NilAssumption DEF Placed, Searches
<1>3. call[c].key = n
  OBVIOUS
<1> HIDE DEF n
<1> QED BY <1>1, <1>2, <1>3, UnlinkSim

\* popitem() takes out the least key, with the value it has read.
LEMMA PopItemSim == ASSUME Good, Good', NEW c \in Callers, PopItem(c) PROVE Dict!Kept
<1> DEFINE f == call[c]
           n == f.node
<1>1. /\ Running /\ f.op = "popitem" /\ Unlink(c, n)
      /\ fault' = IF f.val # value[n] THEN "freed_value"
                  ELSE IF LosesNodes(n) THEN "lost_nodes" ELSE fault
      /\ result' = Answer("popitem", <<n, f.val>>)
  BY DEF PopItem, Inside
<1>2. n \in Present(value) /\ f.val = value[n] /\ \A k \in Present(value) : n <= k
  BY <1>1, GoodIs DEF Placed, Pairs
<1>3. fault' = IF LosesNodes(n) THEN "lost_nodes" ELSE fault
  BY <1>1, <1>2
<1>4. result' = Answer("popitem", <<n, value[n]>>)
  BY <1>1, <1>2
<1> HIDE DEF n
<1> QED BY <1>1, <1>2, <1>3, <1>4, UnlinkSim

\* What has left is gone.
LEMMA RemoveEndSim == ASSUME Good, Good', NEW c \in Callers, RemoveEnd(c) PROVE Dict!Kept
<1>1. /\ call[c].op = "removed" /\ Goes(c, Idle) /\ value' = value /\ result' = Pending
  BY DEF RemoveEnd, Inside, Returns
<1>2. Idle.op = "idle"
  BY IdlePlaced
<1>3. c \in Removals /\ ~Clearing
  BY <1>1, GoodIs DEF Removals, Counts
<1>4. \A d \in Callers : call'[d] = IF d = c THEN Idle ELSE call[d]
  BY <1>1, GoodIs DEF Goes
<1>5. Removals' = Removals \ {c} /\ ~Clearing'
  BY <1>2, <1>3, <1>4 DEF Removals, Clearing
<1>6. Cardinality(Removals \ {c}) = Cardinality(Removals) - 1
  BY <1>3, FiniteSets, FS_RemoveElement
<1>7. Leaving' = Leaving - 1
  BY <1>3, <1>5, <1>6 DEF Leaving
<1>8. Dict!Done(c) /\ Calls[c].op = "removed"
  BY <1>1, ReturnsCalls, CallsAre, CalledIs DEF Returns
<1>9. Dict!Released(c)
  BY <1>1, <1>7, <1>8, SameContents DEF Dict!Released, Dict!Pending, Dict!Answer, Pending, Answer
<1> QED BY <1>9, StepKept DEF Dict!Step

\* Everything that clear() has taken out is gone at once.
LEMMA ClearEndSim == ASSUME Good, Good', NEW c \in Callers, ClearEnd(c) PROVE Dict!Kept
<1>1. /\ call[c].op = "cleared" /\ Goes(c, Idle) /\ value' = value /\ result' = Pending
  BY DEF ClearEnd, Inside, Returns
<1>2. Idle.op = "idle"
  BY IdlePlaced
<1>3. Clearing
  BY <1>1 DEF Clearing
<1>4. /\ Removals = {} /\ length > 0 /\ Leaving = length /\ Leaving \in Nat
      /\ \A d \in Callers : call[d].op = "cleared" => d = c
  BY <1>1, <1>3, GoodIs, LeavingIs DEF Counts, Leaving
<1>5. \A d \in Callers : call'[d] = IF d = c THEN Idle ELSE call[d]
  BY <1>1, GoodIs DEF Goes
<1>6. Removals' = {} /\ ~Clearing'
  BY <1>2, <1>4, <1>5 DEF Removals, Clearing
<1>7. Leaving' = 0
  BY <1>6, FS_EmptySet DEF Leaving
<1>8. Dict!Done(c) /\ Calls[c].op = "cleared"
  BY <1>1, ReturnsCalls, CallsAre, CalledIs DEF Returns
<1>9. Dict!Released(c)
  BY <1>1, <1>7, <1>8, SameContents DEF Dict!Released, Dict!Pending, Dict!Answer, Pending, Answer
<1> QED BY <1>9, StepKept DEF Dict!Step

\* All entries leave the map.
LEMMA ClearSim == ASSUME Good, Good', NEW c \in Callers, ClearBegin(c) PROVE Dict!Kept
<1>1. result' = Dict!Answer("clear", <<>>) /\ Dict!Free(c)
  BY FreeIs DEF ClearBegin, Dict!Answer, Answer
<1>2. CASE length = 0
  <2>1. UNCHANGED <<value, length, call>>
    BY <1>2 DEF ClearBegin, shape
  <2>2. Cardinality(Present(value)) = 0 /\ Leaving = 0
    BY <1>2, LeavingIs
  <2>3. Present(value) = {}
    BY <2>2, FiniteSets, FS_EmptySet
  <2>4. UNCHANGED <<Calls, Leaving, Contents>>
    BY <2>1, SameCalls, SameContents, SameLeaving
  <2>5. Dict!Clear(c)
    BY <1>1, <2>2, <2>3, <2>4, ContentsIs DEF Dict!Clear, Dict!Held
  <2> QED BY <2>5, StepKept DEF Dict!Step
<1>3. CASE length # 0
  <2>1. /\ Present(value') = {}
        /\ \A e \in Callers : call'[e] = IF e = c THEN Cleared ELSE call[e]
    <3>1. "overlap" \notin breach'
      BY DEF Good, Kept
    <3> QED BY <1>3, <3>1, ClearBeginIs DEF Good
  <2>2. Contents' = [k \in {} |-> 0]
    BY <2>1 DEF Contents, Present
  <2>3. Cleared.op = "cleared" /\ Called(Cleared) = Dict!Bare("cleared")
    BY CalledFrame, FrameIs DEF Cleared, Dict!Bare, Pairs, Puts
  <2>4. Clearing'
    BY <2>1, <2>3 DEF Clearing
  <2>5. length' = length
    BY <1>3 DEF ClearBegin
  <2>6. Leaving' = Leaving + Dict!Cardinality(Dict!Present)
    BY <2>4, <2>5, LeavingIs, ContentsIs DEF Leaving
  <2>7. Dict!Asks(c, Dict!Bare("cleared"))
    <3>1. \A d \in Callers : Called(call'[d]) = IF d = c THEN Dict!Bare("cleared") ELSE Called(call[d])
      BY <2>1, <2>3
    <3> QED BY <3>1, AsksIs
  <2>8. Dict!Clear(c)
    BY <1>1, <2>2, <2>6, <2>7 DEF Dict!Clear
  <2> QED BY <2>8, StepKept DEF Dict!Step
<1> QED BY <1>2, <1>3

-----------------------------------------------------------------------------
(* Lists *)

\* The keys in ascending order are a listing of the dictionary.
LEMMA ListSim ==
  ASSUME Good, Good', NEW c \in Callers, Returns(c), UNCHANGED <<value, length>>,
         NEW q, Ascends(q, Present(value)),
         call[c].op \in Lists, result' = Answer(call[c].op, q)
  PROVE  Dict!Kept
<1>1. Dict!IsListing(q)
  <2>1. /\ Len(q) = Cardinality(Present(value)) /\ {q[i] : i \in 1..Len(q)} = Present(value)
        /\ \A i \in 1..Len(q)-1 : q[i] < q[i + 1]
    BY DEF Ascends
  <2> QED BY <2>1, ContentsIs DEF Dict!IsListing
<1>2. /\ Calls[c].op \in {"keys", "items"} /\ result'.op = Calls[c].op /\ result'.out = q
      /\ call[c].op \notin Releasing
  BY CallsAre, CalledIs DEF Answer, Lists, Releasing
<1>3. Dict!Done(c) /\ UNCHANGED Dict!Held
  BY <1>2, ReturnsCalls, ReturnsLeaving, SameContents DEF Dict!Held
<1>4. Dict!List(c)
  BY <1>1, <1>2, <1>3 DEF Dict!List
<1> QED BY <1>4, StepKept DEF Dict!Step

\* A walk over all keys fills the list exactly.
LEMMA ListedSim ==
  ASSUME Good, Good', NEW c \in Callers, NEW q, Listed(c, q), UNCHANGED <<value, length>>,
         call[c].op \in Lists, Ascends(q, Present(value))
  PROVE  Dict!Kept
<1> DEFINE f == call[c]
<1>1. /\ Returns(c) /\ f.op \notin Releasing
      /\ result' = Answer(f.op, q \o [i \in 1..(f.count - Len(q)) |-> NULL])
  BY DEF Listed, Lists, Releasing
<1>2. /\ f.count = Cardinality(Present(value)) /\ Len(q) = Cardinality(Present(value))
      /\ q \in Seq(Present(value))
  BY GoodIs DEF Counted, Ascends
<1>3. 1..(f.count - Len(q)) = {}
  BY <1>2, FiniteSets
<1>4. [i \in 1..(f.count - Len(q)) |-> NULL] = <<>>
  BY <1>3
<1>5. q \o <<>> = q
  BY <1>2, ConcatEmptySeq
<1>6. result' = Answer(f.op, q)
  BY <1>1, <1>4, <1>5
<1> QED BY <1>1, <1>6, ListSim

\* A list is allocated.
LEMMA ListBeginSim ==
  ASSUME Good, Good', NEW c \in Callers, NEW op \in Lists, ListBegin(c, op) PROVE Dict!Kept
<1> DEFINE g == Frame(op, NULL, NULL, Nil, length, <<>>)
<1>1. UNCHANGED <<value, length>> /\ CanCall(c) /\ Goes(c, g) /\ result' = Pending
  BY DEF ListBegin, shape
<1>2. g.op \notin Releasing /\ op \in {"popitem", "min", "max", "keys", "items"}
  BY DEF Frame, Lists, Releasing
<1>3. Called(g) = Dict!Bare(op)
  BY CalledFrame DEF Dict!Bare, Puts, Pairs, Lists
<1> HIDE DEF g
<1> QED BY <1>1, <1>2, <1>3, AskSim

\* An empty map has an empty list.
LEMMA ListEmptySim == ASSUME Good, Good', NEW c \in Callers, ListEmpty(c) PROVE Dict!Kept
<1>1. /\ UNCHANGED <<value, length>> /\ call[c].op \in Lists /\ length = 0 /\ Returns(c)
      /\ result' = Answer(call[c].op, [i \in 1..call[c].count |-> NULL])
  BY DEF ListEmpty, Allocated, Inside, shape
<1>2. Cardinality(Present(value)) = 0
  BY <1>1, LeavingIs
<1>3. Present(value) = {} /\ call[c].count = 0
  BY <1>1, <1>2, GoodIs, FiniteSets, FS_EmptySet DEF Counted
<1>4. Ascends(<<>>, Present(value))
  BY <1>2, <1>3 DEF Ascends
<1>5. [i \in 1..call[c].count |-> NULL] = <<>>
  BY <1>3
<1> QED BY <1>1, <1>4, <1>5, ListSim

\* keys() walks over all keys in one step.
LEMMA ListKeysSim == ASSUME Good, Good', NEW c \in Callers, ListKeys(c) PROVE Dict!Kept
<1> DEFINE L == Present(value)
           m == Least(tree, tree.root)
           q == From(m)
<1>1. /\ Running /\ fix = NoFix /\ call[c].op \in Lists /\ Listed(c, q) /\ UNCHANGED <<value, length>>
      /\ tree.root # Nil
  BY DEF ListKeys, Allocated, Inside, Running, Lists, shape
<1>2. Ascends(q, L)
  <2>1. L # {} /\ Linked(tree) = L
    BY <1>1, ListsIs DEF Good
  <2>2. PICK u : Search(Natural, tree, L, u)
    BY <1>1, ListsIs DEF Good
  <2>3. L \subseteq Int
    BY KeysAssumption DEF L, Present
  <2> HIDE DEF L, m
  <2>4. m \in L /\ \A k \in L : m <= k
    BY <2>1, <2>2, EndsAre DEF m
  <2>5. Ascends(q, UpFrom(L, m))
    BY <2>1, <2>2, <2>4, FromIs
  <2>6. UpFrom(L, m) = L
    BY <2>4 DEF UpFrom
  <2> QED BY <2>5, <2>6
<1> HIDE DEF q
<1> QED BY <1>1, <1>2, ListedSim

\* items() begins its walk.
LEMMA ItemsFirstSim == ASSUME Good, Good', NEW c \in Callers, ItemsFirst(c) PROVE Dict!Kept
<1> DEFINE g == At(call[c], Least(tree, tree.root))
<1>1. /\ Goes(c, g) /\ UNCHANGED <<value, length>> /\ result' = Pending /\ call[c].op \notin Releasing
  BY DEF ItemsFirst, Allocated, Inside, shape, Releasing
<1>2. Called(g) = Called(call[c])
  BY DEF At, Frame, Called, Puts, Pairs
<1> HIDE DEF g
<1> QED BY <1>1, <1>2, GoesSim

\* items() ends after the last key.
LEMMA ItemsNextSim == ASSUME Good, Good', NEW c \in Callers, ItemsNext(c) PROVE Dict!Kept
<1> DEFINE f == call[c]
           n == f.node
           keys == Append(f.list, n)
           next == NextNode(tree, n)
           g == Frame(f.op, f.key, f.val, next, f.count, keys)
           L == Present(value)
           S == {k \in L : k < n}
<1>1. /\ Running /\ fix = NoFix /\ f.op = "items" /\ n \in Keys /\ UNCHANGED <<value, length>>
      /\ \/ Listed(c, keys) /\ (next = NULL \/ Len(keys) > f.count)
         \/ Goes(c, g) /\ result' = Pending
  BY DEF ItemsNext, Inside, Running, shape
<1>2. CASE Goes(c, g) /\ result' = Pending
  <2>1. f.op \notin Releasing
    BY <1>1 DEF Releasing
  <2>2. Called(g) = Called(f)
    BY <1>1, <2>1 DEF Called, Frame, Puts, Pairs
  <2> HIDE DEF g
  <2> QED BY <1>1, <1>2, <2>1, <2>2, GoesSim
<1>3. CASE Listed(c, keys) /\ (next = NULL \/ Len(keys) > f.count)
  <2>1. /\ n \in L /\ n # Nil /\ n \in Int /\ L \subseteq Int /\ IsFiniteSet(L) /\ NULL \notin L
        /\ f.count = Cardinality(L) /\ Ascends(f.list, S)
    BY <1>1, GoodIs, FiniteSets, KeysAssumption, NilAssumption DEF Placed, Counted, Lists, Present
  <2>2. PICK u : Search(Natural, tree, L, u)
    BY GoodIs, Certified
  <2> HIDE DEF L, n
  <2>3. Follows(L, n, next)
    BY <2>1, <2>2, NextFollows
  <2>4. S \in SUBSET Int /\ IsFiniteSet(S) /\ \A k \in S : k < n
    BY <2>1, FS_Subset
  <2>5. S \cup {n} \in SUBSET L
    BY <2>1
  <2> HIDE DEF S
  <2>6. Ascends(keys, S \cup {n})
    BY <2>1, <2>4, AscendsAppend
  <2> HIDE DEF keys, next
  <2>7. Len(keys) = Cardinality(S \cup {n}) /\ Cardinality(S \cup {n}) <= Cardinality(L)
        /\ Cardinality(S \cup {n}) \in Nat /\ Cardinality(L) \in Nat
    BY <2>1, <2>5, <2>6, FS_Subset, FS_CardinalityType DEF Ascends
  <2>8. next = NULL
    BY <1>3, <2>1, <2>7
  <2>9. S \cup {n} = L
    <3>1. \A k \in L : k <= n
      BY <2>1, <2>3, <2>8 DEF Follows
    <3>2. \A k \in L : k < n \/ k = n
      BY <2>1, <3>1
    <3> QED BY <2>5, <3>2 DEF S
  <2>10. Ascends(keys, L)
    BY <2>6, <2>9
  <2> QED BY <1>1, <1>3, <2>10, ListedSim DEF L, Lists
<1> QED BY <1>1, <1>2, <1>3

-----------------------------------------------------------------------------
(* The refinement *)

\* The first step of each method,
LEMMA EnterSim == ASSUME Good, Good', NEW c \in Callers, Enter(c) PROVE Dict!Kept
<1>1. ASSUME NEW k \in Keys, NEW op \in {"get", "remove", "setnx"}, Begin(c, op, k, NULL)
      PROVE  Dict!Kept
  BY <1>1, BeginSim
<1>2. ASSUME NEW k \in Keys, NEW v \in Values, NEW op \in {"put", "setdefault"}, Begin(c, op, k, v)
      PROVE  Dict!Kept
  BY <1>2, BeginSim
<1>3. ASSUME NEW u \in Updates, Update(c, u[1], u[2]) PROVE Dict!Kept
  BY <1>3, UpdateSim
<1>4. ASSUME NEW op \in Pairs, PairBegin(c, op) PROVE Dict!Kept
  BY <1>4, PairBeginSim
<1>5. ASSUME NEW op \in Lists, ListBegin(c, op) PROVE Dict!Kept
  BY <1>5, ListBeginSim
<1>6. CASE Size(c)
  BY <1>6, SizeSim
<1>7. CASE ClearBegin(c)
  BY <1>7, ClearSim
<1> QED BY <1>1, <1>2, <1>3, <1>4, <1>5, <1>6, <1>7 DEF Enter

\* and the steps after it.
LEMMA GoOnSim == ASSUME Good, Good', NEW c \in Callers, GoOn(c) PROVE Dict!Kept
<1>1. CASE Descend(c)
  BY <1>1, DescendSim
<1>2. CASE Fails(c) \/ NoMemory(c)
  BY <1>2, FailsSim
<1>3. CASE UseAfterFree(c) \/ NoRoot(c)
  <2>1. fault' # "none"
    BY <1>3 DEF UseAfterFree, NoRoot
  <2>2. fault' = "none"
    BY DEF Good, IInv, Kept
  <2> QED BY <2>1, <2>2
<1>4. CASE Found(c) \/ NotFound(c)
  BY <1>4, FoundSim
<1>5. CASE PutAbsent(c)
  BY <1>5, PutAbsentSim
<1>6. CASE Replaced(c)
  BY <1>6, ReplacedSim
<1>7. CASE LinkNode(c)
  BY <1>7, LinkNodeSim
<1>8. CASE Remove(c)
  BY <1>8, RemoveSim
<1>9. CASE RemoveEnd(c)
  BY <1>9, RemoveEndSim
<1>10. CASE PopItem(c)
  BY <1>10, PopItemSim
<1>11. CASE Peek(c)
  BY <1>11, PeekSim
<1>12. CASE ListKeys(c)
  BY <1>12, ListKeysSim
<1>13. CASE ItemsFirst(c)
  BY <1>13, ItemsFirstSim
<1>16. CASE ListEmpty(c)
  BY <1>16, ListEmptySim
<1>14. CASE ItemsNext(c)
  BY <1>14, ItemsNextSim
<1>15. CASE ClearEnd(c)
  BY <1>15, ClearEndSim
<1> QED BY <1>1, <1>2, <1>3, <1>4, <1>5, <1>6, <1>7, <1>8, <1>9, <1>10, <1>11, <1>12, <1>13, <1>14, <1>15,
          <1>16 DEF GoOn

\* Every step is one of the dictionary or a stutter.
LEMMA StepSim == IInv /\ IInv' /\ [Next]_vars => [Dict!Next]_(Dict!vars)
<1>1. UNCHANGED vars => UNCHANGED Dict!vars
  BY SameContents, SameLeaving, SameCalls DEF vars, shape, Dict!vars
<1>2. breach' # {} \/ ~OneDict => Dict!Next
  BY DEF Dict!Next, OneDict
<1>3. ASSUME IInv, IInv', Next, breach' = {}, OneDict PROVE Dict!Next
  <2>1. Good /\ Good'
    BY <1>3, BreachStays DEF Good, Kept, OneDict
  <2>2. Dict!Kept
    BY <1>3, <2>1, LoopSim, EnterSim, GoOnSim DEF Next, Fixing
  <2> QED BY <2>1, <2>2 DEF Dict!Next, Good, Kept
<1> QED BY <1>1, <1>2, <1>3

\* The map implements the sorted dictionary, whatever Python code runs inside its calls: every
\* answer of get(), min(), max(), popitem(), keys(), items() and len() is what the dictionary
\* holds as the call returns.
THEOREM Refines == Spec => IsDict
<1>1. Init => Dict!Init
  <2> SUFFICES ASSUME Init PROVE Dict!Init
    OBVIOUS
  <2>1. Present(value) = {} /\ breach = {} /\ result = Pending
    BY DEF Init, Present
  <2>2. Contents = [k \in {} |-> 0]
    BY <2>1, NothingIs
  <2>3. Leaving = 0
    <3>1. Idle.op = "idle" /\ \A c \in Callers : call[c] = Idle
      BY IdlePlaced DEF Init
    <3>2. ~Clearing /\ Removals = {}
      BY <3>1 DEF Clearing, Removals
    <3> QED BY <3>2, FS_EmptySet DEF Leaving
  <2>4. Calls = [c \in Callers |-> Dict!Bare("idle")]
    <3>1. \A c \in Callers : call[c] = Idle
      BY DEF Init
    <3> QED BY <3>1, IdleCalled DEF Calls
  <2> QED BY <2>1, <2>2, <2>3, <2>4 DEF Dict!Init, Dict!Answer, Answer, Dict!Pending, Pending
<1> QED BY <1>1, Invariance, StepSim, PTL DEF Spec, IsDict

-----------------------------------------------------------------------------
(* Pointers to the sentinel, and a node that is linked out of order *)

\* the pointers to the sentinel in a tree that links L
NilLinks(t, L) == {p \in L \X Sides : t.kid[p[1]][p[2]] = Nil}

\* Every node but the root hangs on one pointer.
LEMMA LinksCount ==
  ASSUME NEW rk \in Rankings, NEW t, NEW L, NEW u, Search(rk, t, L, u), L # {}
  PROVE  ExistsBijection(L \ {t.root}, (L \X Sides) \ NilLinks(t, L))
<1> DEFINE S == L \ {t.root}
           T == (L \X Sides) \ NilLinks(t, L)
           f == [n \in S |-> <<t.parent[n], SideOf(t, n)>>]
<1>1. ASSUME NEW n \in S
      PROVE  /\ f[n] \in T /\ t.parent[n] \in L /\ SideOf(t, n) \in Sides
             /\ t.kid[t.parent[n]][SideOf(t, n)] = n
  <2>1. /\ t.parent[n] \in L /\ SideOf(t, n) \in Sides /\ n # Nil
        /\ t.kid[t.parent[n]][SideOf(t, n)] = n
    BY Above, Facts
  <2> QED BY <2>1 DEF NilLinks
<1>2. f \in [S -> T]
  BY <1>1
<1>3. ASSUME NEW a \in S, NEW b \in S, f[a] = f[b] PROVE a = b
  <2>1. t.parent[a] = t.parent[b] /\ SideOf(t, a) = SideOf(t, b)
    BY <1>3
  <2> QED BY <1>1, <2>1
<1>4. ASSUME NEW p \in T PROVE \E n \in S : f[n] = p
  <2>1. PICK a \in L, d \in Sides : p = <<a, d>>
    OBVIOUS
  <2>2. t.kid[a][d] # Nil
    BY <2>1 DEF NilLinks
  <2> DEFINE n == t.kid[a][d]
  <2>3. n \in L /\ n # t.root
    BY <2>2, KidFacts
  <2>4. a = t.parent[n] /\ d = SideOf(t, n)
    BY <2>3, Above
  <2> QED BY <2>1, <2>3, <2>4
<1>5. f \in Bijection(S, T)
  <2> HIDE DEF f, S, T
  <2>1. f \in Injection(S, T)
    BY <1>2, <1>3 DEF Injection, IsInjective
  <2>2. f \in Surjection(S, T)
    BY <1>2, <1>4 DEF Surjection
  <2> QED BY <2>1, <2>2 DEF Bijection
<1> QED BY <1>5 DEF ExistsBijection

\* A tree of n nodes points to the sentinel n + 1 times.
LEMMA NilLinksCount ==
  ASSUME NEW rk \in Rankings, NEW t, NEW L, NEW u, Search(rk, t, L, u), L # {}, IsFiniteSet(L)
  PROVE  Cardinality(NilLinks(t, L)) = Cardinality(L) + 1
<1> DEFINE P == L \X Sides
           N == NilLinks(t, L)
           S == L \ {t.root}
           T == P \ N
<1>1. IsFiniteSet(Sides) /\ Cardinality(Sides) = 2
  <2>1. IsFiniteSet({"left"}) /\ Cardinality({"left"}) = 1
    BY FS_Singleton
  <2>2. "right" \notin {"left"} /\ Sides = {"left"} \cup {"right"}
    BY DEF Sides
  <2>3. /\ IsFiniteSet({"left"} \cup {"right"})
        /\ Cardinality({"left"} \cup {"right"}) = Cardinality({"left"}) + 1
    BY <2>1, <2>2, FS_AddElement
  <2> QED BY <2>1, <2>2, <2>3
<1>2. Cardinality(L) \in Nat
  BY FS_CardinalityType
<1>3. IsFiniteSet(P) /\ Cardinality(P) = Cardinality(L) * 2
  BY <1>1, FS_Product
<1>4. t.root \in L
  BY Facts
<1>5. IsFiniteSet(S) /\ Cardinality(S) = Cardinality(L) - 1
  BY <1>4, FS_RemoveElement
<1>6. IsFiniteSet(T) /\ Cardinality(T) = Cardinality(S)
  BY <1>5, LinksCount, FS_Bijection
<1>7. N \in SUBSET P /\ P \cap N = N
  BY DEF NilLinks
<1> HIDE DEF P, N, S, T
<1>8. IsFiniteSet(N) /\ Cardinality(N) \in Nat
  BY <1>3, <1>7, FS_Subset, FS_CardinalityType
<1>9. Cardinality(T) = Cardinality(P) - Cardinality(N)
  <2>1. Cardinality(P \ N) = Cardinality(P) - Cardinality(P \cap N)
    BY <1>3, FS_Difference
  <2>2. T = P \ N
    BY DEF T
  <2> QED BY <1>7, <2>1, <2>2, Zenon
<1>10. Cardinality(N) = Cardinality(L) + 1
  BY <1>2, <1>3, <1>5, <1>6, <1>8, <1>9
<1> QED BY <1>10 DEF N

\* q ranks z next to y, on side s of it, and ranks the others as rk does.
Beside(rk, q, z, y, s) ==
  /\ q \in Rankings
  /\ \A a, b \in Int \ {z}, d \in Sides : Before(q, d, a, b) <=> Before(rk, d, a, b)
  /\ Before(q, s, z, y)
  /\ \A a \in Int \ {z, y}, d \in Sides : Before(q, d, z, a) <=> Before(rk, d, y, a)

\* There is room between two ranks.
LEMMA BesideExists ==
  ASSUME NEW rk \in Rankings, NEW z \in Int, NEW y \in Int, z # y, NEW s \in Sides
  PROVE  \E q : Beside(rk, q, z, y, s)
<1> DEFINE q == [n \in Int |-> IF n = z THEN IF s = "left" THEN 2 * rk[y] - 1 ELSE 2 * rk[y] + 1
                               ELSE 2 * rk[n]]
<1>1. \A a \in Int : rk[a] \in Int
  BY RankIs
<1>2. \A a, b \in Int : rk[a] = rk[b] => a = b
  BY RankIs
<1>3. /\ q \in [Int -> Int] /\ \A a \in Int \ {z} : q[a] = 2 * rk[a]
      /\ s = "left" => q[z] = 2 * rk[y] - 1
      /\ s # "left" => q[z] = 2 * rk[y] + 1
  BY <1>1
<1> HIDE DEF q
<1>4. ASSUME NEW a \in Int, NEW b \in Int, q[a] = q[b] PROVE a = b
  <2>1. rk[a] \in Int /\ rk[b] \in Int /\ rk[y] \in Int
    BY <1>1
  <2>2. CASE a # z /\ b # z
    BY <1>2, <1>3, <1>4, <2>1, <2>2
  <2>3. CASE a = z /\ b # z
    BY <1>3, <1>4, <2>1, <2>3
  <2>4. CASE a # z /\ b = z
    BY <1>3, <1>4, <2>1, <2>4
  <2> QED BY <2>2, <2>3, <2>4
<1>5. q \in Rankings
  BY <1>3, <1>4 DEF Rankings
<1>6. ASSUME NEW a \in Int \ {z}, NEW b \in Int \ {z}, NEW d \in Sides
      PROVE  Before(q, d, a, b) <=> Before(rk, d, a, b)
  <2>1. rk[a] \in Int /\ rk[b] \in Int /\ q[a] = 2 * rk[a] /\ q[b] = 2 * rk[b]
    BY <1>1, <1>3
  <2> QED BY <2>1 DEF Before
<1>7. Before(q, s, z, y)
  <2>1. rk[y] \in Int /\ q[y] = 2 * rk[y]
    BY <1>1, <1>3
  <2> QED BY <1>3, <2>1 DEF Before
<1>8. ASSUME NEW a \in Int \ {z, y}, NEW d \in Sides
      PROVE  Before(q, d, z, a) <=> Before(rk, d, y, a)
  <2>1. rk[a] \in Int /\ rk[y] \in Int /\ q[a] = 2 * rk[a] /\ rk[a] # rk[y]
    BY <1>1, <1>2, <1>3
  <2> QED BY <1>3, <2>1 DEF Before
<1>9. Beside(rk, q, z, y, s)
  BY <1>5, <1>6, <1>7, <1>8 DEF Beside
<1> QED BY <1>9

\* The search order of a tree depends on the ranks of its nodes alone.
LEMMA SameOrder ==
  ASSUME NEW rk \in Rankings, NEW t, NEW L, NEW u, Search(rk, t, L, u), NEW q \in Rankings,
         \A a, b \in L, d \in Sides : Before(q, d, a, b) <=> Before(rk, d, a, b)
  PROVE  Search(q, t, L, u)
<1>1. ASSUME NEW n \in L, NEW s \in Sides, NEW m \in u[t.kid[n][s]] PROVE Before(q, s, m, n)
  <2>1. Before(rk, s, m, n) /\ m \in L
    BY KidFacts, NodeFacts
  <2> QED BY <2>1
<1>2. KidsOK(q, t, L, u)
  <2>1. KidsOK(rk, t, L, u)
    BY DEF Search
  <2> QED BY <1>1, <2>1 DEF KidsOK
<1> QED BY <1>2 DEF Search

\* Wherever a node is linked, in the place of a pointer to the sentinel, the loop
\* starts in its invariant, in some order.
THEOREM LinkAnywhere ==
  ASSUME NEW rk \in Rankings, NEW t, NEW L, SortedTree(rk, t, L),
         NEW z \in Keys \ L, NEW y \in L \cup {Nil}, NEW s \in Sides,
         y = Nil => t.root = Nil, y # Nil => t.kid[y][s] = Nil,
         NEW r, r = Link(t, z, y, s)
  PROVE  \E q \in Rankings : InsertTree(q, r, L \cup {z}, z)
<1>1. PICK u, h : Search(rk, t, L, u) /\ Balance(t, L, h)
  BY DEF SortedTree
<1>2. CASE y = Nil
  BY <1>1, <1>2, LinkKeeps
<1>3. CASE y # Nil
  <2>a. y \in L /\ z \in Int /\ z \notin L
    BY <1>3, KeysAssumption
  <2>b. L \subseteq Int
    BY <1>1, Facts
  <2>c. y \in u[y]
    BY <1>1, <2>a, NodeFacts
  <2>1. y \in L /\ y \in Int /\ z \in Int /\ z # y /\ y \in u[y] /\ L \subseteq Int \ {z}
    BY <2>a, <2>b, <2>c
  <2>2. PICK q : Beside(rk, q, z, y, s)
    BY <2>1, BesideExists
  <2>3. /\ q \in Rankings /\ Before(q, s, z, y)
        /\ \A a, b \in L, d \in Sides : Before(q, d, a, b) <=> Before(rk, d, a, b)
    BY <2>1, <2>2 DEF Beside
  <2>4. Search(q, t, L, u)
    BY <1>1, <2>1, <2>3, SameOrder
  <2>5. ASSUME NEW m \in L \ u[y], NEW a \in u[y], NEW d \in Sides
        PROVE  Before(q, d, z, m) <=> Before(q, d, a, m)
    <3>1. PICK e \in Sides : \A b \in u[y] : Before(rk, e, m, b)
      BY <1>1, <2>1, Apart
    <3>2. m \in Int \ {z, y} /\ a \in Int \ {z} /\ u[y] \subseteq L
      BY <1>1, <2>1, NodeFacts
    <3>3. Before(rk, e, m, y) /\ Before(rk, e, m, a)
      BY <2>1, <3>1
    <3>4. Before(rk, d, y, m) <=> Before(rk, d, a, m)
      BY <2>1, <3>2, <3>3, BeforeIs, SidesAre
    <3>5. Before(q, d, z, m) <=> Before(rk, d, y, m)
      BY <2>2, <3>2 DEF Beside
    <3> QED BY <2>3, <3>2, <3>4, <3>5
  <2>6. Fits(q, L, u, y, z)
    BY <2>5 DEF Fits
  <2> QED BY <1>1, <1>3, <2>1, <2>3, <2>4, <2>6, LinkKeeps
<1> QED BY <1>2, <1>3

-----------------------------------------------------------------------------
(* Of every client: until a fault, the tree is red-black in some order, and  *)
(* the calls point to its nodes, to the sentinel, or to nodes that are gone. *)

\* A frame, with what each method needs of it.
Traced(v, f) ==
  /\ f \in Frames
  /\ f.node \in Present(v) \cup {Nil, NULL}
  /\ f.op \in Searches \cup Puts => f.key \in Keys
  /\ f.op \in Puts \cup {"setdefault"} => f.val \in Values
  /\ f.op \in Puts => f.list \in Seq(Keys \X Values)
  /\ f.op \in Pairs => f.node # Nil
  /\ f.op \in Lists => f.list \in Seq(Keys)

Ranked == \E rk \in Rankings : TreeIn(rk)

Sound ==
  /\ call = [c \in Callers |-> call[c]]
  /\ \A c \in Callers : Traced(value, call[c])
  /\ Ranked
  /\ sref = Cardinality(Present(value)) + 2

\* the types of what the nodes hold
Typed ==
  /\ tree \in Trees /\ value \in [Keys -> Values \cup {NULL}]
  /\ \A k \in Keys, s \in Sides : value[k] # NULL => tree.kid[k][s] # NULL

Faults == {"none", "freed_node", "freed_value", "null_node",
           "over_release", "duplicate_key", "lost_nodes"}

\* the types of the rest
Scalars ==
  /\ length \in Int /\ sref \in Int
  /\ fix.kind \in {"none", "insert", "delete"} /\ fix.at \in Nodes /\ fix.root \in Nodes
  /\ breach \subseteq {"overlap", "nested"} /\ fault \in Faults

AnyInv ==
  /\ Typed /\ Scalars /\ call \in [Callers -> Frames]
  /\ fault = "none" => Sound

\* A frame with the fields a step gives it.
LEMMA FrameType ==
  ASSUME NEW op \in Searches \cup Puts \cup Pairs \cup Lists \cup Releasing \cup {"idle"},
         NEW key \in Keys \cup {NULL}, NEW val \in Values \cup {NULL}, NEW node \in Nodes \cup {NULL},
         NEW count \in Int, NEW list \in Seq(Keys \cup (Keys \X Values))
  PROVE  Frame(op, key, val, node, count, list) \in Frames
  BY DEF Frame, Frames

\* lists of keys or entries
LEMMA ListTypes ==
  /\ <<>> \in Seq(Keys \cup (Keys \X Values)) /\ <<>> \in Seq(Keys) /\ <<>> \in Seq(Keys \X Values)
  /\ \A q \in Seq(Keys) : q \in Seq(Keys \cup (Keys \X Values))
  /\ \A q \in Seq(Keys \X Values) : q \in Seq(Keys \cup (Keys \X Values))
<1>1. ASSUME NEW S, NEW T, S \subseteq T, NEW q \in Seq(S) PROVE q \in Seq(T)
  <2>1. q \in [1..Len(q) -> S] /\ Len(q) \in Nat
    OBVIOUS
  <2>2. q \in [1..Len(q) -> T]
    BY <1>1, <2>1
  <2> QED BY <2>1, <2>2
<1> QED BY <1>1

\* The frame of a call that points to no node.
LEMMA TracedAway ==
  ASSUME NEW v, NEW op, NEW key \in Keys \cup {NULL}, NEW val \in Values \cup {NULL}, NEW count \in Int,
         op \in Searches \cup Puts \cup Lists \cup Releasing \cup {"idle"},
         op \in Searches \cup Puts => key \in Keys,
         op \in {"setdefault"} => val \in Values, op \notin Puts
  PROVE  Traced(v, Frame(op, key, val, Nil, count, <<>>))
<1> DEFINE f == Frame(op, key, val, Nil, count, <<>>)
<1>1. f.op = op /\ f.key = key /\ f.val = val /\ f.node = Nil /\ f.list = <<>>
  BY FrameIs
<1>2. f \in Frames
  <2>1. Nil \in Nodes
    BY DEF Nodes
  <2> QED BY <2>1, ListTypes, FrameType
<1> HIDE DEF f
<1>3. f.op \notin Pairs
  BY <1>1 DEF Searches, Puts, Pairs, Lists, Releasing
<1>4. Traced(v, f)
  BY <1>1, <1>2, <1>3, ListTypes DEF Traced
<1> QED BY <1>4 DEF f

\* The frame of a put that begins.
LEMMA TracedPut ==
  ASSUME NEW v, NEW op \in Puts, NEW key \in Keys, NEW val \in Values, NEW list \in Seq(Keys \X Values)
  PROVE  Traced(v, Frame(op, key, val, Nil, 0, list))
<1> DEFINE f == Frame(op, key, val, Nil, 0, list)
<1>1. f.op = op /\ f.key = key /\ f.val = val /\ f.node = Nil /\ f.list = list
  BY FrameIs
<1>2. f \in Frames
  <2>1. Nil \in Nodes
    BY DEF Nodes
  <2> QED BY <2>1, ListTypes, FrameType
<1> HIDE DEF f
<1>3. f.op \notin Pairs /\ f.op \notin Lists
  BY <1>1 DEF Puts, Pairs, Lists
<1>4. Traced(v, f)
  BY <1>1, <1>2, <1>3 DEF Traced
<1> QED BY <1>4 DEF f

\* an idle caller
LEMMA TracedIdle == ASSUME NEW v PROVE Traced(v, Idle)
<1>1. "idle" \notin Searches \cup Puts
  BY DEF Searches, Puts
<1>2. Traced(v, Frame("idle", NULL, NULL, Nil, 0, <<>>))
  BY <1>1, TracedAway
<1> QED BY <1>2 DEF Idle

\* What is left to put is put next.
LEMMA TracedAfter ==
  ASSUME NEW v, NEW f, f.list \in Seq(Keys \X Values) PROVE Traced(v, AfterPut(f))
<1> DEFINE q == f.list
<1>1. CASE q = <<>>
  BY <1>1, TracedIdle DEF AfterPut
<1>2. CASE q # <<>>
  <2>1. q[1] \in Keys \X Values /\ Tail(q) \in Seq(Keys \X Values)
    BY <1>2
  <2>2. q[1][1] \in Keys /\ q[1][2] \in Values
    BY <2>1
  <2>3. AfterPut(f) = Frame("update", q[1][1], q[1][2], Nil, 0, Tail(q))
    BY <1>2 DEF AfterPut
  <2> QED BY <2>1, <2>2, <2>3, TracedPut DEF Puts
<1> QED BY <1>1, <1>2

\* The frame of a call that moves to another node, or whose node is gone.
LEMMA TracedAt ==
  ASSUME NEW v, NEW f, Traced(v, f), NEW w, NEW n \in Present(w) \cup {NULL}
  PROVE  Traced(w, At(f, n)) /\ At(f, n).op = f.op
<1> DEFINE g == At(f, n)
<1>1. g.op = f.op /\ g.key = f.key /\ g.val = f.val /\ g.node = n /\ g.list = f.list
  BY FrameIs DEF At
<1>2. g \in Frames
  <2>1. /\ f.op \in Searches \cup Puts \cup Pairs \cup Lists \cup Releasing \cup {"idle"}
        /\ f.key \in Keys \cup {NULL} /\ f.val \in Values \cup {NULL}
        /\ f.count \in Int /\ f.list \in Seq(Keys \cup (Keys \X Values))
    BY DEF Traced, Frames
  <2>2. n \in Nodes \cup {NULL}
    BY DEF Present, Nodes
  <2> QED BY <2>1, <2>2, FrameType DEF At
<1> HIDE DEF g
<1>3. n # Nil
  BY NilAssumption DEF Present
<1>4. Traced(w, g)
  BY <1>1, <1>2, <1>3 DEF Traced
<1> QED BY <1>1, <1>4 DEF g

\* Nothing but the frames depends on which values the keys have.
LEMMA TracedSame ==
  ASSUME NEW v, NEW f, Traced(v, f), NEW w, f.node \in Present(w) \cup {Nil, NULL}
  PROVE  Traced(w, f)
  BY DEF Traced

\* Between the loops and before a fault, the tree is red-black in some order.
LEMMA SoundTree ==
  ASSUME AnyInv, Running
  PROVE  /\ fault = "none" /\ fix = NoFix /\ Sound
         /\ call = [c \in Callers |-> call[c]] /\ \A c \in Callers : Traced(value, call[c])
         /\ \E rk \in Rankings : SortedTree(rk, tree, Present(value))
<1>1. fault = "none" /\ fix = NoFix /\ Sound
  BY DEF AnyInv, Running
<1>2. PICK rk \in Rankings : TreeIn(rk)
  BY <1>1 DEF Sound, Ranked
<1>3. SortedTree(rk, tree, Present(value))
  BY <1>1, <1>2, TreeIs
<1> QED BY <1>1, <1>3 DEF Sound

\* The flags of a breach are two.
LEMMA BreachType == \A c, ops : Overlap(c) \subseteq {"overlap"} /\ Nested(ops) \subseteq {"nested"}
  BY DEF Overlap, Nested

\* A step that leaves the tree and the values alone.
LEMMA QuietAny ==
  ASSUME AnyInv, Running, NEW c \in Callers, NEW g, Traced(value, g), call' = call \/ Goes(c, g),
         UNCHANGED <<tree, value, sref, fix>>, length' \in Int,
         breach' \subseteq {"overlap", "nested"}, fault' \in Faults
  PROVE  AnyInv'
<1>1. Sound /\ call = [d \in Callers |-> call[d]] /\ \A d \in Callers : Traced(value, call[d])
  BY SoundTree
<1>2. /\ call' = [d \in Callers |-> call'[d]]
      /\ \A d \in Callers : call'[d] = call[d] \/ call'[d] = g
  BY <1>1 DEF Goes
<1>3. \A d \in Callers : Traced(value, call'[d])
  BY <1>1, <1>2
<1>4. call' \in [Callers -> Frames]
  <2>1. \A d \in Callers : call'[d] \in Frames
    BY <1>3 DEF Traced
  <2> QED BY <1>2, <2>1
<1>5. Typed' /\ Scalars'
  BY DEF AnyInv, Typed, Scalars
<1>6. Sound'
  <2>1. Ranked => Ranked'
    BY DEF Ranked, TreeIn
  <2>2. value' = value /\ sref' = sref
    OBVIOUS
  <2>3. \A d \in Callers : Traced(value, call[d])'
    BY <1>3, <2>2
  <2> QED BY <1>1, <1>2, <2>1, <2>2, <2>3 DEF Sound
<1> QED BY <1>4, <1>5, <1>6 DEF AnyInv

\* A call that returns, or is not changed, leaves everything else as it was.
LEMMA ReturnAny ==
  ASSUME AnyInv, Running, NEW c \in Callers, call' = call \/ Returns(c),
         UNCHANGED <<tree, value, length, sref, fix, breach>>, fault' \in Faults
  PROVE  AnyInv'
<1>1. Traced(value, Idle) /\ (call' = call \/ Goes(c, Idle))
  BY TracedIdle DEF Returns
<1>2. length' \in Int /\ breach' \subseteq {"overlap", "nested"}
  BY DEF AnyInv, Scalars
<1> QED BY <1>1, <1>2, QuietAny

\* The steps that only answer, fail, or follow a pointer to a node that is gone.
LEMMA AnswerAny ==
  ASSUME AnyInv, NEW c \in Callers,
         \/ Fails(c) \/ Found(c) \/ NotFound(c) \/ NoMemory(c) \/ Peek(c) \/ ListEmpty(c)
         \/ UseAfterFree(c) \/ NoRoot(c) \/ ListKeys(c) \/ Size(c)
  PROVE  AnyInv'
<1>1. /\ Running /\ (call' = call \/ Returns(c)) /\ UNCHANGED <<tree, value, length, sref, fix, breach>>
      /\ fault' \in {fault, "freed_node", "null_node", "over_release"}
  <2>1. CASE ListKeys(c)
    BY <2>1 DEF ListKeys, Listed, Allocated, Inside, shape
  <2>2. CASE NoRoot(c) \/ UseAfterFree(c) \/ Size(c)
    BY <2>2 DEF NoRoot, UseAfterFree, Size, Allocated, CanCall, Inside, shape
  <2>3. CASE Fails(c) \/ Found(c) \/ NotFound(c) \/ NoMemory(c) \/ Peek(c) \/ ListEmpty(c)
    BY <2>3 DEF Fails, Found, NotFound, NoMemory, Peek, ListEmpty, Allocated, Descending, Inside,
                shape
  <2> QED BY <2>1, <2>2, <2>3
<1>2. fault' \in Faults
  BY <1>1 DEF AnyInv, Scalars, Faults
<1> QED BY <1>1, <1>2, ReturnAny

\* A descent begins.
LEMMA BeginAny ==
  ASSUME AnyInv, NEW c \in Callers, NEW k \in Keys, NEW v, NEW op,
         (op \in {"get", "remove", "setnx"} /\ v = NULL) \/ (op \in {"put", "setdefault"} /\ v \in Values),
         Begin(c, op, k, v)
  PROVE  AnyInv'
<1> DEFINE g == Frame(op, k, v, Nil, 0, <<>>)
<1>1. Running /\ Goes(c, g) /\ UNCHANGED <<tree, value, length, sref, fix, breach, fault>>
  BY DEF Begin, CanCall, shape
<1>2. Traced(value, g)
  <2>1. CASE op = "put"
    BY <2>1, ListTypes, TracedPut DEF Puts
  <2>2. CASE op # "put"
    <3>1. op \in Searches /\ op \notin Puts /\ v \in Values \cup {NULL} /\ (op = "setdefault" => v \in Values)
      BY <2>2 DEF Searches, Puts
    <3> QED BY <3>1, TracedAway
  <2> QED BY <2>1, <2>2
<1>3. length' \in Int /\ breach' \subseteq {"overlap", "nested"} /\ fault' \in Faults
  BY <1>1 DEF AnyInv, Scalars
<1> HIDE DEF g
<1> QED BY <1>1, <1>2, <1>3, QuietAny

\* The entries update() goes through.
LEMMA TodoType ==
  ASSUME NEW u \in Updates
  PROVE  u[1] \o SubSeq(u[2], Len(u[1]) + 1, Len(u[2])) \in Seq(Keys \X Values)
<1>1. u[1] \in Seq(Keys \X Values) /\ u[2] \in Seq(Keys \X Values)
  BY UpdatesAssumption
<1>2. Len(u[1]) \in Nat /\ Len(u[2]) \in Nat
  BY <1>1, LenProperties
<1>3. \A i \in (Len(u[1]) + 1)..Len(u[2]) : i \in 1..Len(u[2])
  BY <1>2
<1>4. SubSeq(u[2], Len(u[1]) + 1, Len(u[2])) \in Seq(Keys \X Values)
  BY <1>1, <1>2, <1>3
<1> QED BY <1>1, <1>4

\* update() begins.
LEMMA UpdateAny ==
  ASSUME AnyInv, NEW c \in Callers, NEW u \in Updates, Update(c, u[1], u[2])
  PROVE  AnyInv'
<1> DEFINE todo == u[1] \o SubSeq(u[2], Len(u[1]) + 1, Len(u[2]))
           f == Frame("update", NULL, NULL, Nil, 0, todo)
           g == AfterPut(f)
<1>1. todo \in Seq(Keys \X Values)
  BY TodoType
<1>2. f.list = todo
  BY DEF Frame
<1> HIDE DEF f, todo
<1>3. Traced(value, g)
  BY <1>1, <1>2, TracedAfter
<1>4. /\ Running /\ (call' = call \/ Goes(c, g))
      /\ UNCHANGED <<tree, value, length, sref, fix, breach, fault>>
  BY DEF Update, CanCall, shape, f, todo
<1>5. length' \in Int /\ breach' \subseteq {"overlap", "nested"} /\ fault' \in Faults
  BY <1>4 DEF AnyInv, Scalars
<1> HIDE DEF g
<1> QED BY <1>3, <1>4, <1>5, QuietAny

\* setdefault() and setnx() go on with a put.
LEMMA PutAbsentAny ==
  ASSUME AnyInv, NEW c \in Callers, PutAbsent(c) PROVE AnyInv'
<1> DEFINE f == call[c]
<1>1. /\ Running /\ f.op \in {"setdefault", "setnx"}
      /\ UNCHANGED <<tree, value, length, sref, fix, fault, breach>>
  BY DEF PutAbsent, Descending, Inside, shape
<1>2. f.key \in Keys /\ (f.op = "setdefault" => f.val \in Values)
  <2>1. Traced(value, f)
    BY <1>1, SoundTree
  <2> QED BY <1>1, <2>1 DEF Traced, Searches
<1>3. length' \in Int /\ breach' \subseteq {"overlap", "nested"} /\ fault' \in Faults
  BY <1>1 DEF AnyInv, Scalars
<1>4. \A v, op : op \in Puts /\ v \in Values => Traced(value, Frame(op, f.key, v, Nil, 0, <<>>))
  BY <1>2, ListTypes, TracedPut
<1>5. CASE f.op = "setdefault"
  <2> DEFINE g == Frame("setdefault_put", f.key, f.val, Nil, 0, <<>>)
  <2>1. Goes(c, g)
    BY <1>5 DEF PutAbsent
  <2>2. Traced(value, g)
    BY <1>2, <1>4, <1>5 DEF Puts
  <2> HIDE DEF g
  <2> QED BY <1>1, <1>3, <2>1, <2>2, QuietAny
<1>6. CASE f.op # "setdefault"
  <2>1. PICK v \in Values : Goes(c, Frame("setnx_put", f.key, v, Nil, 0, <<>>))
    BY <1>6 DEF PutAbsent
  <2> DEFINE g == Frame("setnx_put", f.key, v, Nil, 0, <<>>)
  <2>2. Goes(c, g)
    BY <2>1
  <2>3. Traced(value, g)
    BY <1>4 DEF Puts
  <2> HIDE DEF g
  <2> QED BY <1>1, <1>3, <2>2, <2>3, QuietAny
<1> QED BY <1>5, <1>6

\* Where the pointers of the tree and its walks lead.
LEMMA WalksAre ==
  ASSUME AnyInv, Running
  PROVE  LET L == Present(value)
         IN  /\ Linked(tree) = L /\ tree.root \in L \cup {Nil}
             /\ tree.root # Nil => Least(tree, tree.root) \in L /\ Greatest(tree, tree.root) \in L
             /\ \A n \in L, s \in Sides : tree.kid[n][s] \in L \cup {Nil}
             /\ \A n \in L : NextNode(tree, n) \in L \cup {NULL}
<1> DEFINE L == Present(value)
<1>1. PICK rk \in Rankings : SortedTree(rk, tree, L)
  BY SoundTree
<1>2. PICK u : Search(rk, tree, L, u)
  BY <1>1 DEF SortedTree
<1> HIDE DEF L
<1>3. Linked(tree) = L /\ tree.root \in L \cup {Nil} /\ u[tree.root] = L
  BY <1>2, SearchIsLinked, Facts
<1>4. ASSUME tree.root # Nil PROVE Least(tree, tree.root) \in L /\ Greatest(tree, tree.root) \in L
  <2>1. tree.root \in L
    BY <1>3, <1>4
  <2>2. Edge(rk, "left", L, Least(tree, tree.root)) /\ Edge(rk, "right", L, Greatest(tree, tree.root))
    BY <1>2, <1>3, <2>1, LeastIs
  <2> QED BY <2>2 DEF Edge
<1>5. \A n \in L, s \in Sides : tree.kid[n][s] \in L \cup {Nil}
  BY <1>2, KidFacts
<1>6. ASSUME NEW n \in L PROVE NextNode(tree, n) \in L \cup {NULL}
  <2>1. Succ(rk, L, n, NextNode(tree, n))
    BY <1>2, NextIs
  <2> QED BY <2>1 DEF Succ
<1> QED BY <1>3, <1>4, <1>5, <1>6 DEF L

\* A descent goes on to a node of the tree.
LEMMA BelowIs ==
  ASSUME AnyInv, NEW c \in Callers, Descending(c, Searches \cup Puts)
  PROVE  /\ Below(call[c]) \in Present(value) \cup {Nil}
         /\ call[c].node \in Present(value) \cup {Nil} /\ SideAt(call[c]) \in Sides
<1> DEFINE f == call[c]
<1>1. Running /\ f.node # NULL
  BY DEF Descending, Inside, Dangling
<1>2. f.node \in Present(value) \cup {Nil}
  BY <1>1, SoundTree DEF Traced
<1>3. SideAt(f) \in Sides
  BY DEF SideAt, Sides
<1>4. CASE f.node = Nil
  <2>1. Below(f) = tree.root
    BY <1>4 DEF Below
  <2> QED BY <1>1, <1>2, <1>3, <2>1, WalksAre
<1>5. CASE f.node # Nil
  <2>1. Below(f) = tree.kid[f.node][SideAt(f)] /\ f.node \in Present(value)
    BY <1>2, <1>5 DEF Below
  <2> QED BY <1>1, <1>2, <1>3, <2>1, WalksAre
<1> QED BY <1>4, <1>5

\* A descent, a walk and a step of one go on at a node of the tree.
LEMMA MoveAny ==
  ASSUME AnyInv, NEW c \in Callers, Running, NEW n \in Present(value), Goes(c, At(call[c], n)),
         UNCHANGED <<tree, value, length, sref, fix, breach, fault>>
  PROVE  AnyInv'
<1> DEFINE g == At(call[c], n)
<1>1. Traced(value, g)
  <2>1. Traced(value, call[c])
    BY SoundTree
  <2> QED BY <2>1, TracedAt
<1>2. length' \in Int /\ breach' \subseteq {"overlap", "nested"} /\ fault' \in Faults
  BY DEF AnyInv, Scalars
<1> HIDE DEF g
<1>3. Goes(c, g)
  BY DEF g
<1> QED BY <1>1, <1>2, <1>3, QuietAny

\* A descent goes on below the node it is at.
LEMMA DescendAny ==
  ASSUME AnyInv, NEW c \in Callers, Descend(c) PROVE AnyInv'
<1>1. /\ Descending(c, Searches \cup Puts) /\ Running /\ ~Hit(call[c]) /\ ~Miss(call[c])
      /\ Goes(c, At(call[c], Below(call[c])))
      /\ UNCHANGED <<tree, value, length, sref, fix, breach, fault>>
  BY DEF Descend, Descending, Inside, shape
<1>2. Below(call[c]) \in Present(value)
  BY <1>1, BelowIs DEF Miss
<1> QED BY <1>1, <1>2, MoveAny

\* items() begins its walk.
LEMMA ItemsFirstAny ==
  ASSUME AnyInv, NEW c \in Callers, ItemsFirst(c) PROVE AnyInv'
<1>1. /\ Running /\ tree.root # Nil /\ Goes(c, At(call[c], Least(tree, tree.root)))
      /\ UNCHANGED <<tree, value, length, sref, fix, breach, fault>>
  BY DEF ItemsFirst, Allocated, Inside, shape
<1>2. Least(tree, tree.root) \in Present(value)
  BY <1>1, WalksAre
<1> QED BY <1>1, <1>2, MoveAny

\* items() goes on with its walk.
LEMMA ItemsNextAny ==
  ASSUME AnyInv, NEW c \in Callers, ItemsNext(c) PROVE AnyInv'
<1> DEFINE f == call[c]
           keys == Append(f.list, f.node)
           next == NextNode(tree, f.node)
           g == Frame(f.op, f.key, f.val, next, f.count, keys)
<1>1. /\ Running /\ f.op = "items" /\ f.node \in Keys
      /\ UNCHANGED <<tree, value, length, sref, fix, breach>>
      /\ \/ Listed(c, keys)
         \/ next # NULL /\ Goes(c, g) /\ fault' = fault
  BY DEF ItemsNext, Inside, shape
<1>2. CASE Listed(c, keys)
  <2>1. Returns(c) /\ fault' \in {fault, "over_release"}
    BY <1>2 DEF Listed
  <2>2. fault' \in Faults
    BY <2>1 DEF AnyInv, Scalars, Faults
  <2> QED BY <1>1, <2>1, <2>2, ReturnAny
<1>3. CASE next # NULL /\ Goes(c, g) /\ fault' = fault
  <2>1. Traced(value, f) /\ f \in Frames /\ f.list \in Seq(Keys) /\ f.count \in Int
    <3>1. Traced(value, f)
      BY <1>1, SoundTree
    <3> QED BY <1>1, <3>1 DEF Traced, Frames, Lists
  <2>2. f.node \in Present(value)
    BY <1>1, <2>1, NilAssumption DEF Traced
  <2>3. next \in Present(value)
    BY <1>1, <1>3, <2>2, WalksAre
  <2>4. keys \in Seq(Keys)
    <3>1. \A q \in Seq(Keys), k \in Keys : Append(q, k) \in Seq(Keys)
      OBVIOUS
    <3> QED BY <1>1, <2>1, <3>1
  <2>5. g.op = "items" /\ g.node = next /\ g.list = keys
    <3> HIDE DEF keys, next
    <3> QED BY <1>1, FrameIs
  <2>6. g \in Frames
    <3>1. next \in Nodes \cup {NULL}
      BY <2>3 DEF Present, Nodes
    <3>2. f.op \in Lists /\ f.key \in Keys \cup {NULL} /\ f.val \in Values \cup {NULL}
      BY <1>1, <2>1 DEF Frames, Lists
    <3>3. keys \in Seq(Keys \cup (Keys \X Values))
      BY <2>4, ListTypes
    <3> HIDE DEF keys, next
    <3> QED BY <2>1, <3>1, <3>2, <3>3, FrameType
  <2> HIDE DEF g, keys, next
  <2>7. Traced(value, g)
    BY <2>3, <2>4, <2>5, <2>6 DEF Traced, Searches, Puts, Pairs
  <2>8. length' \in Int /\ breach' \subseteq {"overlap", "nested"} /\ fault' \in Faults
    BY <1>1, <1>3 DEF AnyInv, Scalars
  <2> QED BY <1>1, <1>3, <2>7, <2>8, QuietAny
<1> QED BY <1>1, <1>2, <1>3

\* popitem(), min() and max() point to a node of the tree.
LEMMA PairBeginAny ==
  ASSUME AnyInv, NEW c \in Callers, NEW op \in Pairs, PairBegin(c, op) PROVE AnyInv'
<1> DEFINE n == IF op = "max" THEN Greatest(tree, tree.root) ELSE Least(tree, tree.root)
           g == Frame(op, NULL, value[n], n, 0, <<>>)
<1>1. /\ Running /\ UNCHANGED <<tree, value, length, sref, fix, fault, breach>>
      /\ call' = call \/ (tree.root # Nil /\ Goes(c, g))
  BY DEF PairBegin, CanCall, shape
<1>2. fault' \in Faults /\ length' \in Int /\ breach' \subseteq {"overlap", "nested"}
  BY <1>1 DEF AnyInv, Scalars
<1>3. CASE call' = call
  BY <1>1, <1>2, <1>3, ReturnAny
<1>4. CASE tree.root # Nil /\ Goes(c, g)
  <2>1. n \in Present(value)
    BY <1>1, <1>4, WalksAre
  <2>2. value[n] \in Values \cup {NULL} /\ n \in Nodes \cup {NULL} /\ n # Nil
    <3>1. n \in Keys /\ value \in [Keys -> Values \cup {NULL}]
      BY <2>1 DEF AnyInv, Typed, Present
    <3> HIDE DEF n
    <3> QED BY <3>1, NilAssumption DEF Nodes
  <2> HIDE DEF n
  <2>3. g.op = op /\ g.node = n
    BY FrameIs
  <2>4. g \in Frames
    <3>1. NULL \in Keys \cup {NULL} /\ 0 \in Int
      OBVIOUS
    <3> QED BY <2>2, <3>1, ListTypes, FrameType
  <2> HIDE DEF g
  <2>5. Traced(value, g)
    BY <2>1, <2>2, <2>3, <2>4 DEF Traced, Searches, Puts, Pairs, Lists
  <2> QED BY <1>1, <1>2, <1>4, <2>5, QuietAny
<1> QED BY <1>1, <1>3, <1>4

\* keys() and items() read the length.
LEMMA ListBeginAny ==
  ASSUME AnyInv, NEW c \in Callers, NEW op \in Lists, ListBegin(c, op) PROVE AnyInv'
<1> DEFINE g == Frame(op, NULL, NULL, Nil, length, <<>>)
<1>1. /\ Running /\ UNCHANGED <<tree, value, length, sref, fix, fault>>
      /\ Goes(c, g) /\ breach' = breach \cup Nested(Releasing)
  BY DEF ListBegin, CanCall, shape
<1>2. fault' \in Faults /\ length \in Int /\ length' \in Int /\ breach \subseteq {"overlap", "nested"}
  BY <1>1 DEF AnyInv, Scalars
<1>3. breach' \subseteq {"overlap", "nested"}
  BY <1>1, <1>2, BreachType
<1>4. Traced(value, g)
  <2>1. op \notin Searches \cup Puts /\ op # "setdefault"
    BY DEF Searches, Puts, Lists
  <2> QED BY <1>2, <2>1, TracedAway
<1> HIDE DEF g
<1> QED BY <1>1, <1>2, <1>3, <1>4, QuietAny

\* What is removed is no longer counted, or the length is reset.
LEMMA EndAny ==
  ASSUME AnyInv, NEW c \in Callers, RemoveEnd(c) \/ ClearEnd(c) PROVE AnyInv'
<1>1. /\ Running /\ Goes(c, Idle) /\ UNCHANGED <<tree, value, sref, fix, breach, fault>>
      /\ length' \in {length - 1, 0}
  BY DEF RemoveEnd, ClearEnd, Inside, Returns
<1>2. fault' \in Faults /\ length' \in Int /\ breach' \subseteq {"overlap", "nested"}
  BY <1>1 DEF AnyInv, Scalars
<1> QED BY <1>1, <1>2, TracedIdle, QuietAny

-----------------------------------------------------------------------------
(* What a tree with a certificate is. *)

\* The nodes of a tree have both children set, and a loop is at one of them.
LEMMA TreeTyped ==
  Ranked /\ value \in [Keys -> Values \cup {NULL}]
  => Typed /\ (fix = NoFix \/ fix.at \in Nodes)
<1> SUFFICES ASSUME NEW rk \in Rankings, TreeIn(rk), value \in [Keys -> Values \cup {NULL}]
             PROVE  Typed /\ (fix = NoFix \/ fix.at \in Nodes)
  BY DEF Ranked
<1> DEFINE L == Present(value)
<1>1. PICK u : Search(rk, tree, L, u)
  BY TreeIs
<1>k. L \subseteq Keys
  BY DEF Present
<1>2. tree \in Trees /\ \A n \in L, s \in Sides : tree.kid[n][s] \in L \cup {Nil}
  <2> HIDE DEF L
  <2> QED BY <1>1, KidFacts, Facts
<1>3. ASSUME NEW k \in Keys, NEW s \in Sides, value[k] # NULL PROVE tree.kid[k][s] # NULL
  <2>1. k \in L
    BY <1>3 DEF Present
  <2> HIDE DEF L
  <2> QED BY <1>2, <1>k, <2>1, NilAssumption
<1>4. fix = NoFix \/ fix.at \in Nodes
  <2>1. ASSUME InsertTree(rk, tree, L, fix.at) PROVE fix.at \in Nodes
    <3> HIDE DEF L
    <3> QED BY <1>k, <2>1 DEF InsertTree, Inserting, Nodes
  <2>2. ASSUME DeleteTree(rk, tree, L, fix.at, fix.root) PROVE fix.at \in Nodes
    <3> HIDE DEF L
    <3> QED BY <1>k, <2>2, Facts DEF DeleteTree, Deleting, Lacking, Paintable, Nodes
  <2> QED BY <2>1, <2>2 DEF TreeIn
<1> QED BY <1>2, <1>3, <1>4 DEF Typed

\* the same of the next state
LEMMA TreeTypedNext ==
  Ranked' /\ value' \in [Keys -> Values \cup {NULL}] => Typed' /\ (fix' = NoFix \/ fix'.at \in Nodes)
<1>1. Ranked' /\ (value \in [Keys -> Values \cup {NULL}])' => Typed' /\ (fix = NoFix \/ fix.at \in Nodes)'
  BY TreeTyped, PTL
<1> QED BY <1>1

-----------------------------------------------------------------------------

\* A put that replaces a value.
LEMMA ReplacedAny ==
  ASSUME AnyInv, NEW c \in Callers, Replaced(c) PROVE AnyInv'
<1> DEFINE f == call[c]
           g == AfterPut(f)
           L == Present(value)
<1>1. /\ Running /\ f.op \in Puts /\ f.node = f.key /\ value' = [value EXCEPT ![f.key] = f.val]
      /\ Goes(c, g) /\ UNCHANGED <<tree, length, sref, fix, fault>>
      /\ breach' \in {breach, breach \cup {"overlap"}}
  BY DEF Replaced, Descending, Inside, Hit
<1>2. /\ Sound /\ call = [d \in Callers |-> call[d]] /\ \A d \in Callers : Traced(value, call[d])
  BY <1>1, SoundTree
<1>3. f.key \in Keys /\ f.key \in L /\ f.val \in Values /\ f.list \in Seq(Keys \X Values)
  <2>1. Traced(value, f)
    BY <1>2
  <2> QED BY <1>1, <2>1, NilAssumption DEF Traced
<1>4. value' \in [Keys -> Values \cup {NULL}] /\ value'[f.key] = f.val /\ f.val # NULL
      /\ \A k \in Keys : k # f.key => value'[k] = value[k]
  BY <1>1, <1>3, ValuesAssumption DEF AnyInv, Typed
<1>5. Present(value') = L
  BY <1>3, <1>4 DEF Present
<1>6. Traced(value', g)
  BY <1>3, TracedAfter
<1>7. /\ call' = [d \in Callers |-> call'[d]]
      /\ \A d \in Callers : call'[d] = IF d = c THEN g ELSE call[d]
  BY <1>1, <1>2 DEF Goes
<1>8. \A d \in Callers : Traced(value', call'[d])
  <2>1. \A d \in Callers : call[d].node \in Present(value') \cup {Nil, NULL}
    BY <1>2, <1>5 DEF Traced
  <2>2. \A d \in Callers : Traced(value', call[d])
    BY <1>2, <2>1, TracedSame
  <2> QED BY <1>6, <1>7, <2>2
<1>9. call' \in [Callers -> Frames]
  <2>1. \A d \in Callers : call'[d] \in Frames
    BY <1>8 DEF Traced
  <2> QED BY <1>7, <2>1
<1>10. Typed'
  <2>1. \A k \in Keys, s \in Sides : value'[k] # NULL => tree.kid[k][s] # NULL
    BY <1>3, <1>4 DEF AnyInv, Typed, Present
  <2> QED BY <1>1, <1>4, <2>1 DEF AnyInv, Typed
<1>11. Scalars'
  BY <1>1 DEF AnyInv, Scalars
<1>12. Sound'
  <2>1. Ranked => Ranked'
    BY <1>1, <1>5 DEF Ranked, TreeIn
  <2>2. sref' = Cardinality(Present(value')) + 2
    BY <1>1, <1>2, <1>5 DEF Sound
  <2> QED BY <1>2, <1>7, <1>8, <2>1, <2>2 DEF Sound
<1> QED BY <1>9, <1>10, <1>11, <1>12 DEF AnyInv

\* An iteration of a loop.
LEMMA LoopAny ==
  ASSUME AnyInv, FixInsert \/ FixDelete PROVE AnyInv'
<1> DEFINE L == Present(value)
<1>1. fault = "none" /\ UNCHANGED <<value, length, sref, call, breach, fault>>
  BY DEF FixInsert, FixDelete
<1>2. Sound /\ value \in [Keys -> Values \cup {NULL}]
  BY <1>1 DEF AnyInv, Typed
<1>3. PICK rk \in Rankings : TreeIn(rk)
  BY <1>2 DEF Sound, Ranked
<1>4. Ranked'
  <2>1. TreeIn(rk)'
    BY <1>3, LoopTree
  <2> QED BY <2>1 DEF Ranked
<1>5. Sound'
  <2>1. \A d \in Callers : Traced(value, call[d])'
    BY <1>1, <1>2 DEF Sound
  <2> QED BY <1>1, <1>2, <1>4, <2>1 DEF Sound
<1>6. Typed'
  BY <1>1, <1>2, <1>4, TreeTypedNext
<1>7. fix.kind \in {"none", "insert", "delete"} /\ fix.root \in Nodes /\ Nil \in Nodes
  BY DEF AnyInv, Scalars, Nodes
<1>8. fix'.root \in Nodes /\ fix'.kind \in {"none", "insert", "delete"}
  BY <1>7 DEF FixInsert, FixDelete, Fix, NoFix
<1>9. fix'.at \in Nodes
  <2>1. fix' = NoFix \/ fix'.at \in Nodes
    BY <1>1, <1>2, <1>4, TreeTypedNext
  <2> QED BY <1>7, <2>1 DEF NoFix, Fix
<1>10. Scalars'
  BY <1>1, <1>8, <1>9 DEF AnyInv, Scalars
<1> QED BY <1>1, <1>5, <1>6, <1>10 DEF AnyInv

\* The calls of a step that gives caller c a new frame.
LEMMA GoesAny ==
  ASSUME AnyInv, Running, NEW c \in Callers, NEW g, Traced(value', g), Goes(c, g),
         Present(value) \subseteq Present(value')
  PROVE  /\ call' = [d \in Callers |-> call'[d]] /\ call' \in [Callers -> Frames]
         /\ \A d \in Callers : Traced(value', call'[d])
<1>1. call = [d \in Callers |-> call[d]] /\ \A d \in Callers : Traced(value, call[d])
  BY SoundTree
<1>2. /\ call' = [d \in Callers |-> call'[d]]
      /\ \A d \in Callers : call'[d] = IF d = c THEN g ELSE call[d]
  BY <1>1 DEF Goes
<1>3. \A d \in Callers : Traced(value', call'[d])
  <2>1. \A d \in Callers : call[d].node \in Present(value') \cup {Nil, NULL}
    BY <1>1 DEF Traced
  <2>2. \A d \in Callers : Traced(value', call[d])
    BY <1>1, <2>1, TracedSame
  <2> QED BY <1>2, <2>2
<1>4. \A d \in Callers : call'[d] \in Frames
  BY <1>3 DEF Traced
<1> QED BY <1>2, <1>3, <1>4

\* A put links its node, of a key that may be in the tree by now.
LEMMA LinkNodeAny ==
  ASSUME AnyInv, NEW c \in Callers, LinkNode(c) PROVE AnyInv'
<1> DEFINE f == call[c]
           g == AfterPut(f)
           L == Present(value)
           y == f.node
           z == f.key
           s == IF y = Nil THEN "left" ELSE SideAt(f)
<1>1. /\ Running /\ f.op \in Puts /\ Descending(c, Searches \cup Puts) /\ Miss(f)
      /\ tree' = Link(tree, z, y, s) /\ value' = [value EXCEPT ![z] = f.val]
      /\ fix' = Fix("insert", z, Nil) /\ Goes(c, g)
      /\ fault' = (IF value[z] # NULL THEN "duplicate_key" ELSE fault)
      /\ length' = length + 1 /\ sref' = sref + 1
      /\ breach' = breach \cup Overlap(c) \cup Nested({"cleared"})
  BY DEF LinkNode, Linking, Descending, Inside
<1>2. z \in Keys /\ f.val \in Values /\ f.list \in Seq(Keys \X Values)
  <2>1. Traced(value, f)
    BY <1>1, SoundTree
  <2> QED BY <1>1, <2>1 DEF Traced
<1>3. /\ y \in L \cup {Nil} /\ s \in Sides /\ y # z /\ y \in Nodes
      /\ y = Nil => tree.root = Nil
      /\ y # Nil => tree.kid[y][s] = Nil
  <2>1. y \in L \cup {Nil} /\ SideAt(f) \in Sides /\ y # z /\ Below(f) = Nil
    BY <1>1, BelowIs DEF Miss, Hit
  <2>2. y \in Nodes
    BY <2>1 DEF Present, Nodes
  <2> QED BY <2>1, <2>2 DEF Below, Sides
<1>4. tree \in Trees /\ value \in [Keys -> Values \cup {NULL}] /\ fault = "none"
      /\ \A k \in Keys, d \in Sides : value[k] # NULL => tree.kid[k][d] # NULL
  BY <1>1 DEF AnyInv, Typed, Running
<1> HIDE DEF f, L, y, z, s
<1>5. /\ tree' \in Trees
      /\ \A n \in Nodes, d \in Sides :
           tree'.kid[n][d] = IF n = z THEN Nil ELSE IF y # Nil /\ n = y /\ d = s THEN z ELSE tree.kid[n][d]
  BY <1>1, <1>2, <1>3, <1>4, LinkFields
<1>6. /\ value' \in [Keys -> Values \cup {NULL}] /\ value'[z] = f.val /\ f.val # NULL
      /\ \A k \in Keys : k # z => value'[k] = value[k]
  BY <1>1, <1>2, <1>4, ValuesAssumption
<1>7. Present(value') = L \cup {z}
  BY <1>2, <1>6 DEF Present, L
<1>8. Typed'
  <2>1. ASSUME NEW k \in Keys, NEW d \in Sides, value'[k] # NULL PROVE tree'.kid[k][d] # NULL
    <3>1. k \in Nodes /\ z # NULL /\ Nil # NULL
      BY <1>2, NilAssumption DEF Nodes
    <3>2. k # z => tree.kid[k][d] # NULL
      BY <1>4, <1>6, <2>1
    <3> QED BY <1>5, <3>1, <3>2
  <2> QED BY <1>5, <1>6, <2>1 DEF Typed
<1>9. Scalars'
  <2>1. /\ length \in Int /\ sref \in Int /\ breach \subseteq {"overlap", "nested"}
    BY DEF AnyInv, Scalars
  <2>2. length' \in Int /\ sref' \in Int
    BY <1>1, <2>1
  <2>3. breach' \subseteq {"overlap", "nested"}
    BY <1>1, <2>1, BreachType
  <2>4. fix'.kind = "insert" /\ fix'.at \in Nodes /\ fix'.root \in Nodes
    BY <1>1, <1>2 DEF Fix, Nodes
  <2>5. fault' \in Faults
    BY <1>1, <1>4 DEF Faults
  <2> QED BY <2>2, <2>3, <2>4, <2>5 DEF Scalars
<1>10. Traced(value', g)
  BY <1>2, TracedAfter
<1> HIDE DEF g
<1>11. /\ call' = [d \in Callers |-> call'[d]] /\ call' \in [Callers -> Frames]
       /\ \A d \in Callers : Traced(value', call'[d])
  BY <1>1, <1>7, <1>10, GoesAny DEF L
<1>12. ASSUME fault' = "none" PROVE Sound'
  <2>1. z \notin L /\ z \in Keys \ L
    BY <1>1, <1>2, <1>12 DEF L, Present
  <2>2. PICK rk \in Rankings : SortedTree(rk, tree, L)
    BY <1>1, SoundTree DEF L
  <2>3. PICK q \in Rankings : InsertTree(q, tree', L \cup {z}, z)
    BY <1>1, <1>3, <2>1, <2>2, LinkAnywhere
  <2>4. Ranked'
    <3>1. fix'.kind = "insert" /\ fix'.at = z
      BY <1>1 DEF Fix
    <3> QED BY <1>7, <2>3, <3>1 DEF Ranked, TreeIn
  <2>5. sref' = Cardinality(Present(value')) + 2
    <3>1. sref = Cardinality(L) + 2 /\ IsFiniteSet(L) /\ Cardinality(L) \in Nat
      BY <1>1, SoundTree, FiniteSets DEF Sound, L
    <3>2. Cardinality(L \cup {z}) = Cardinality(L) + 1
      BY <2>1, <3>1, FS_AddElement
    <3>3. Cardinality(Present(value')) = Cardinality(L) + 1 /\ sref' = sref + 1
      BY <1>1, <1>7, <3>2, Zenon
    <3> QED BY <3>1, <3>3
  <2> QED BY <1>11, <2>4, <2>5 DEF Sound
<1> QED BY <1>8, <1>9, <1>11, <1>12 DEF AnyInv

\* The calls that pointed to nodes that are gone point to nothing.
LEMMA FreedAny ==
  ASSUME AnyInv, Running, NEW c \in Callers, NEW g, Traced(value', g), NEW S,
         call' = [Freed(S) EXCEPT ![c] = g], Present(value') = Present(value) \ S
  PROVE  /\ call' = [d \in Callers |-> call'[d]] /\ call' \in [Callers -> Frames]
         /\ \A d \in Callers : Traced(value', call'[d])
<1>1. call = [d \in Callers |-> call[d]] /\ \A d \in Callers : Traced(value, call[d])
  BY SoundTree
<1>2. /\ call' = [d \in Callers |-> call'[d]]
      /\ \A d \in Callers : call'[d] = IF d = c THEN g ELSE IF call[d].node \in S THEN At(call[d], NULL)
                                       ELSE call[d]
  BY DEF Freed
<1>3. ASSUME NEW d \in Callers PROVE Traced(value', call'[d])
  <2>1. CASE d = c
    BY <1>2, <2>1
  <2>2. CASE d # c /\ call[d].node \in S
    <3>1. Traced(value', At(call[d], NULL))
      BY <1>1, TracedAt
    <3> QED BY <1>2, <2>2, <3>1
  <2>3. CASE d # c /\ call[d].node \notin S
    <3>1. call[d].node \in Present(value') \cup {Nil, NULL}
      BY <1>1, <2>3 DEF Traced
    <3>2. Traced(value', call[d])
      BY <1>1, <3>1, TracedSame
    <3> QED BY <1>2, <2>3, <3>2
  <2> QED BY <2>1, <2>2, <2>3
<1>4. \A d \in Callers : call'[d] \in Frames
  BY <1>3 DEF Traced
<1> QED BY <1>2, <1>3, <1>4

\* RBTree_RemoveNode, of any client.
LEMMA UnlinkAny ==
  ASSUME AnyInv, NEW c \in Callers, NEW n \in Present(value), Running, Unlink(c, n), length' = length,
         fault' \in Faults, fault' = "none" => ~LosesNodes(n)
  PROVE  AnyInv'
<1> DEFINE L == Present(value)
           last == tree.root = n /\ length = 1
           d == Delete(tree, n)
           q == Tree(Nil, tree.kid, tree.parent, tree.color)
<1>1. /\ last => tree' = Forget(q, n) /\ fix' = NoFix
      /\ ~last => /\ tree' = Forget(d.tree, n)
                  /\ fix' = IF d.color = "black" THEN Fix("delete", d.at, d.tree.root) ELSE NoFix
      /\ value' = [value EXCEPT ![n] = NULL] /\ sref' = sref - 1
      /\ breach' = breach \cup Overlap(c) \cup Nested({"cleared"})
      /\ call' = [Freed({n}) EXCEPT ![c] = Gone]
  BY DEF Unlink, Gone
<1>2. n \in L /\ n \in Keys /\ n \in Nodes
  BY DEF Present, Nodes
<1>3. tree \in Trees /\ value \in [Keys -> Values \cup {NULL}] /\ fault = "none" /\ fix = NoFix
      /\ \A k \in Keys, e \in Sides : value[k] # NULL => tree.kid[k][e] # NULL
  BY DEF AnyInv, Typed, Running
<1>4. /\ value' \in [Keys -> Values \cup {NULL}] /\ value'[n] = NULL
      /\ \A k \in Keys : k # n => value'[k] = value[k]
  BY <1>1, <1>2, <1>3
<1>5. Present(value') = L \ {n}
  BY <1>4 DEF Present
<1>6. Traced(value', Gone)
  <2>1. "removed" \in Releasing /\ "removed" \notin Searches \cup Puts
    BY DEF Releasing, Searches, Puts
  <2> QED BY <2>1, TracedAway DEF Gone
<1>7. /\ call' = [e \in Callers |-> call'[e]] /\ call' \in [Callers -> Frames]
      /\ \A e \in Callers : Traced(value', call'[e])
  BY <1>1, <1>5, <1>6, FreedAny
<1>8. ASSUME ~LosesNodes(n) PROVE Ranked'
  <2>1. PICK rk \in Rankings : TreeIn(rk)
    BY SoundTree DEF Sound, Ranked
  <2>2. Linked(tree) = L
    BY WalksAre
  <2>3. TreeIn(rk)'
    BY <1>3, <1>5, <1>8, <2>1, <2>2, UnlinkTree
  <2> QED BY <2>3 DEF Ranked
<1>9. Typed' /\ fix'.at \in Nodes /\ fix'.root \in Nodes
  <2>1. CASE last
    <3>1. q \in Trees /\ q.kid = tree.kid
      BY <1>3 DEF Trees, Tree, Nodes
    <3>2. tree' = Forget(q, n) /\ fix' = NoFix
      BY <1>1, <2>1
    <3> HIDE DEF q
    <3>3. /\ tree' \in Trees
          /\ \A k \in Nodes, e \in Sides : tree'.kid[k][e] = IF k = n THEN NULL ELSE q.kid[k][e]
      BY <1>2, <3>1, <3>2, ForgetType, ForgetIs
    <3>4. ASSUME NEW k \in Keys, NEW e \in Sides, value'[k] # NULL PROVE tree'.kid[k][e] # NULL
      <4>1. k # n /\ k \in Nodes /\ tree.kid[k][e] # NULL
        BY <1>3, <1>4, <3>4 DEF Nodes
      <4> QED BY <3>1, <3>3, <4>1
    <3>5. Typed'
      BY <1>4, <3>3, <3>4 DEF Typed
    <3> QED BY <3>2, <3>5 DEF NoFix, Fix, Nodes
  <2>2. CASE ~last
    <3>1. Ranked'
      BY <1>8, <2>2 DEF LosesNodes
    <3>2. Typed' /\ (fix' = NoFix \/ fix'.at \in Nodes)
      BY <1>4, <3>1, TreeTypedNext
    <3>3. tree'.root = d.tree.root
      <4>1. PICK rk \in Rankings : SortedTree(rk, tree, L)
        BY SoundTree
      <4>2. PICK u, h : Search(rk, tree, L, u) /\ Balance(tree, L, h)
        BY <4>1 DEF SortedTree
      <4>3. Forget(d.tree, n).root = d.tree.root
        BY <4>2, DeleteKeeps
      <4> QED BY <1>1, <2>2, <4>3
    <3>4. tree'.root \in Nodes
      BY <3>2 DEF Typed, Trees
    <3> HIDE DEF d
    <3> QED BY <1>1, <2>2, <3>2, <3>3, <3>4 DEF NoFix, Fix, Nodes
  <2> QED BY <2>1, <2>2
<1>10. Scalars'
  <2>1. /\ length \in Int /\ sref \in Int /\ breach \subseteq {"overlap", "nested"}
    BY DEF AnyInv, Scalars
  <2>2. length' \in Int /\ sref' \in Int
    BY <1>1, <2>1
  <2>3. breach' \subseteq {"overlap", "nested"}
    BY <1>1, <2>1, BreachType
  <2>4. fix'.kind \in {"none", "insert", "delete"}
    BY <1>1 DEF Fix, NoFix
  <2> QED BY <1>9, <2>2, <2>3, <2>4 DEF Scalars
<1>11. ASSUME fault' = "none" PROVE Sound'
  <2>1. Ranked'
    BY <1>8, <1>11
  <2>2. sref' = Cardinality(Present(value')) + 2
    <3>1. sref = Cardinality(L) + 2 /\ IsFiniteSet(L) /\ Cardinality(L) \in Nat
      BY SoundTree, FiniteSets DEF Sound
    <3> HIDE DEF L
    <3>2. Cardinality(L \ {n}) = Cardinality(L) - 1
      BY <1>2, <3>1, FS_RemoveElement
    <3>3. Cardinality(Present(value')) = Cardinality(L) - 1 /\ sref' = sref - 1
      BY <1>1, <1>5, <3>2, Zenon
    <3> QED BY <3>1, <3>3
  <2> QED BY <1>7, <2>1, <2>2 DEF Sound
<1> QED BY <1>7, <1>9, <1>10, <1>11 DEF AnyInv

\* remove() and popitem()
LEMMA RemovalAny ==
  ASSUME AnyInv, NEW c \in Callers, Remove(c) \/ PopItem(c) PROVE AnyInv'
<1> DEFINE f == call[c]
           n == IF f.op = "remove" THEN f.key ELSE f.node
<1>1. /\ Running /\ Unlink(c, n) /\ length' = length /\ f.node # NULL
      /\ (f.op = "remove" /\ f.node = f.key) \/ f.op = "popitem"
      /\ fault' \in {fault, "lost_nodes", "freed_value"}
      /\ fault' = "none" => ~LosesNodes(n)
  <2>1. CASE Remove(c)
    <3>1. f.op = "remove" /\ n = f.key
      BY <2>1 DEF Remove, Descending, Inside
    <3> HIDE DEF n
    <3> QED BY <2>1, <3>1 DEF Remove, Descending, Inside, Hit, Dangling, Running
  <2>2. CASE PopItem(c)
    <3>1. f.op = "popitem" /\ n = f.node
      BY <2>2 DEF PopItem, Inside
    <3> HIDE DEF n
    <3> QED BY <2>2, <3>1 DEF PopItem, Inside, Dangling, Running
  <2> QED BY <2>1, <2>2
<1>2. n \in Present(value)
  <2>1. Traced(value, f)
    BY <1>1, SoundTree
  <2>2. CASE f.op = "remove"
    BY <1>1, <2>1, <2>2, NilAssumption DEF Traced, Searches
  <2>3. CASE f.op = "popitem"
    BY <1>1, <2>1, <2>3 DEF Traced, Pairs
  <2> QED BY <1>1, <2>2, <2>3
<1>3. fault' \in Faults
  BY <1>1 DEF AnyInv, Scalars, Faults
<1> HIDE DEF n
<1> QED BY <1>1, <1>2, <1>3, UnlinkAny

\* clear() releases every node.
LEMMA ClearBeginAny ==
  ASSUME AnyInv, NEW c \in Callers, ClearBegin(c) PROVE AnyInv'
<1> DEFINE L == Present(value)
           gone == Linked(tree)
<1>1. Running /\ UNCHANGED <<fix, fault>>
  BY DEF ClearBegin, CanCall
<1>2. CASE length = 0
  <2>1. UNCHANGED <<tree, value, length, sref, call, breach>>
    BY <1>2 DEF ClearBegin, shape
  <2>2. fault' \in Faults
    BY <1>1 DEF AnyInv, Scalars
  <2> QED BY <1>1, <2>1, <2>2, ReturnAny
<1>3. CASE length # 0
  <2>1. /\ tree' = [root   |-> Nil,
                    kid    |-> [n \in Nodes |-> IF n \in gone THEN [s \in Sides |-> NULL]
                                                ELSE tree.kid[n]],
                    parent |-> [n \in Nodes |-> IF n \in gone THEN NULL ELSE tree.parent[n]],
                    color  |-> [n \in Nodes |-> IF n \in gone THEN "red" ELSE tree.color[n]]]
        /\ value' = [k \in Keys |-> IF k \in gone THEN NULL ELSE value[k]]
        /\ sref' = (IF gone = {} THEN sref ELSE sref + 1 - (Cardinality(gone) + 1))
        /\ call' = [Freed(gone) EXCEPT ![c] = Cleared]
        /\ breach' = breach \cup Overlap(c) \cup Nested(Releasing)
        /\ length' = length
    BY <1>3 DEF ClearBegin, Cleared
  <2>2. gone = L
    BY <1>1, WalksAre
  <2> HIDE DEF gone
  <2>3. PICK rk \in Rankings : SortedTree(rk, tree, L)
    BY <1>1, SoundTree
  <2>4. SortedTree(rk, tree', {})
    <3> HIDE DEF L
    <3> QED BY <2>1, <2>2, <2>3, ClearedTree
  <2>5. value' \in [Keys -> Values \cup {NULL}] /\ Present(value') = {}
    <3>1. \A k \in Keys : value'[k] = NULL
      BY <2>1, <2>2 DEF Present
    <3>2. value' = [k \in Keys |-> value'[k]]
      BY <2>1
    <3> QED BY <3>1, <3>2 DEF Present
  <2>6. Ranked'
    <3>1. fix' = NoFix
      BY <1>1 DEF Running
    <3> QED BY <2>4, <2>5, <3>1 DEF Ranked, TreeIn
  <2>7. Typed'
    BY <2>5, <2>6, TreeTypedNext
  <2>8. Traced(value', Cleared)
    <3>1. "cleared" \in Releasing /\ "cleared" \notin Searches \cup Puts
      BY DEF Releasing, Searches, Puts
    <3> QED BY <3>1, TracedAway DEF Cleared
  <2>9. /\ call' = [e \in Callers |-> call'[e]] /\ call' \in [Callers -> Frames]
        /\ \A e \in Callers : Traced(value', call'[e])
    <3>1. Present(value') = L \ gone
      BY <2>2, <2>5
    <3> QED BY <1>1, <2>1, <2>8, <3>1, FreedAny
  <2>10. sref' = 2
    <3>1. sref = Cardinality(L) + 2 /\ Cardinality(L) \in Nat
      BY <1>1, SoundTree, FiniteSets DEF Sound
    <3>2. Cardinality({}) = 0
      BY FS_EmptySet
    <3>3. gone = {} => sref' = Cardinality({}) + 2
      BY <2>1, <2>2, <3>1
    <3>4. gone # {} => sref' = sref + 1 - (Cardinality(L) + 1)
      BY <2>1, <2>2
    <3> HIDE DEF L
    <3> QED BY <3>1, <3>2, <3>3, <3>4
  <2>11. Scalars'
    <3>1. /\ length \in Int /\ breach \subseteq {"overlap", "nested"} /\ fault \in Faults
          /\ fix.kind \in {"none", "insert", "delete"} /\ fix.at \in Nodes /\ fix.root \in Nodes
      BY DEF AnyInv, Scalars
    <3>2. breach' \subseteq {"overlap", "nested"}
      BY <2>1, <3>1, BreachType
    <3> QED BY <1>1, <2>1, <2>10, <3>1, <3>2 DEF Scalars
  <2>12. Sound'
    <3>1. sref' = Cardinality(Present(value')) + 2
      BY <2>5, <2>10, FS_EmptySet
    <3> QED BY <2>6, <2>9, <3>1 DEF Sound
  <2> QED BY <2>7, <2>9, <2>11, <2>12 DEF AnyInv
<1> QED BY <1>2, <1>3

\* A new map satisfies the invariant.
LEMMA InitAny == Init => AnyInv
<1> SUFFICES ASSUME Init PROVE AnyInv
  OBVIOUS
<1>1. /\ tree = Empty /\ value = [k \in Keys |-> NULL] /\ length = 0 /\ sref = 2
      /\ call = [c \in Callers |-> Idle] /\ fix = NoFix /\ breach = {} /\ fault = "none"
  BY DEF Init
<1>2. Present(value) = {} /\ value \in [Keys -> Values \cup {NULL}]
  BY <1>1 DEF Present
<1>3. Ranked
  <2>1. TreeKept
    BY <1>1, InitKept DEF IInv
  <2> QED BY <2>1, NaturalRanks DEF TreeKept, Ranked
<1>4. Typed
  BY <1>2, <1>3, TreeTyped
<1>5. call = [c \in Callers |-> call[c]] /\ \A c \in Callers : Traced(value, call[c])
  BY <1>1, TracedIdle
<1>6. call \in [Callers -> Frames]
  <2>1. \A c \in Callers : call[c] \in Frames
    BY <1>5 DEF Traced
  <2> QED BY <1>5, <2>1
<1>7. Scalars
  BY <1>1 DEF Scalars, NoFix, Fix, Nodes, Faults
<1>8. Sound
  <2>1. sref = Cardinality(Present(value)) + 2
    BY <1>1, <1>2, FS_EmptySet
  <2> QED BY <1>3, <1>5, <2>1 DEF Sound
<1> QED BY <1>4, <1>6, <1>7, <1>8 DEF AnyInv

\* Every step of any client keeps the invariant.
THEOREM NextAny == AnyInv /\ [Next]_vars => AnyInv'
<1> SUFFICES ASSUME AnyInv, [Next]_vars PROVE AnyInv'
  OBVIOUS
<1>1. CASE Fixing
  BY <1>1, LoopAny DEF Fixing
<1>2. ASSUME NEW c \in Callers, Enter(c) PROVE AnyInv'
  <2>1. ASSUME NEW k \in Keys, NEW op \in {"get", "remove", "setnx"}, Begin(c, op, k, NULL)
        PROVE  AnyInv'
    BY <2>1, BeginAny
  <2>2. ASSUME NEW k \in Keys, NEW v \in Values, NEW op \in {"put", "setdefault"}, Begin(c, op, k, v)
        PROVE  AnyInv'
    BY <2>2, BeginAny
  <2>3. ASSUME NEW u \in Updates, Update(c, u[1], u[2]) PROVE AnyInv'
    BY <2>3, UpdateAny
  <2>4. ASSUME NEW op \in Pairs, PairBegin(c, op) PROVE AnyInv'
    BY <2>4, PairBeginAny
  <2>5. ASSUME NEW op \in Lists, ListBegin(c, op) PROVE AnyInv'
    BY <2>5, ListBeginAny
  <2>6. CASE Size(c)
    BY <2>6, AnswerAny
  <2>7. CASE ClearBegin(c)
    BY <2>7, ClearBeginAny
  <2> QED BY <1>2, <2>1, <2>2, <2>3, <2>4, <2>5, <2>6, <2>7 DEF Enter
<1>3. ASSUME NEW c \in Callers, GoOn(c) PROVE AnyInv'
  <2>1. CASE \/ Fails(c) \/ Found(c) \/ NotFound(c) \/ NoMemory(c) \/ Peek(c) \/ ListEmpty(c)
             \/ UseAfterFree(c) \/ NoRoot(c) \/ ListKeys(c)
    BY <2>1, AnswerAny
  <2>2. CASE Descend(c)
    BY <2>2, DescendAny
  <2>3. CASE PutAbsent(c)
    BY <2>3, PutAbsentAny
  <2>4. CASE Replaced(c)
    BY <2>4, ReplacedAny
  <2>5. CASE LinkNode(c)
    BY <2>5, LinkNodeAny
  <2>6. CASE Remove(c) \/ PopItem(c)
    BY <2>6, RemovalAny
  <2>7. CASE RemoveEnd(c) \/ ClearEnd(c)
    BY <2>7, EndAny
  <2>8. CASE ItemsFirst(c)
    BY <2>8, ItemsFirstAny
  <2>9. CASE ItemsNext(c)
    BY <2>9, ItemsNextAny
  <2> QED BY <1>3, <2>1, <2>2, <2>3, <2>4, <2>5, <2>6, <2>7, <2>8, <2>9 DEF GoOn
<1>4. CASE UNCHANGED vars
  <2>1. UNCHANGED <<tree, value, length, sref, call, fix, breach, fault>>
    BY <1>4 DEF vars, shape
  <2>2. Typed' /\ Scalars' /\ call' \in [Callers -> Frames]
    BY <2>1 DEF AnyInv, Typed, Scalars
  <2>3. Sound => Sound'
    <3>1. Ranked => Ranked'
      BY <2>1 DEF Ranked, TreeIn
    <3> QED BY <2>1, <3>1 DEF Sound
  <2> QED BY <2>1, <2>2, <2>3 DEF AnyInv
<1> QED BY <1>1, <1>2, <1>3, <1>4 DEF Next

\* The invariant holds whatever the clients do.
THEOREM AnyClient == Spec => []AnyInv
<1> QED BY InitAny, NextAny, PTL DEF Spec

\* Every variable of src/src/rbtree.c that the model keeps has its type, and the nodes of the
\* map have both children set, whatever the clients do and after a fault, too.
THEOREM TypeOKHolds == Spec => []TypeOK
<1>1. AnyInv => TypeOK
  BY DEF AnyInv, Typed, Scalars, TypeOK, Trees, Faults
<1> QED BY <1>1, AnyClient, PTL

\* The map owns one reference to the sentinel per pointer to it, between all steps of all
\* methods of src/src/rbtree.c, those of the rotations included, until the first memory error:
\* the clients need not keep the contract.
THEOREM SentinelCountedHolds == Spec => []SentinelCounted
<1>1. AnyInv => SentinelCounted
  <2> SUFFICES ASSUME AnyInv, fault = "none" PROVE sref = SentinelPointers + 1
    BY DEF SentinelCounted
  <2> DEFINE L == Present(value)
  <2>1. Ranked /\ sref = Cardinality(L) + 2
    BY DEF AnyInv, Sound
  <2>2. PICK rk \in Rankings : TreeIn(rk)
    BY <2>1 DEF Ranked
  <2>3. PICK u : Search(rk, tree, L, u)
    BY <2>2, TreeIs
  <2>4. IsFiniteSet(L) /\ Cardinality(L) \in Nat
    BY FiniteSets
  <2> HIDE DEF L
  <2>5. CASE tree.root = Nil
    <3>1. L = {}
      BY <2>3, <2>5, Facts
    <3>2. Cardinality(L) = 0 /\ SentinelPointers = 1
      BY <2>5, <3>1, FS_EmptySet DEF SentinelPointers
    <3> QED BY <2>1, <3>2
  <2>6. CASE tree.root # Nil
    <3>1. Linked(tree) = L
      BY <2>3, SearchIsLinked
    <3>2. L # {}
      BY <2>3, <2>6, Facts
    <3>3. Cardinality(NilLinks(tree, L)) = Cardinality(L) + 1
      BY <2>3, <2>4, <3>2, NilLinksCount
    <3>4. SentinelPointers = Cardinality(NilLinks(tree, L))
      BY <2>6, <3>1 DEF SentinelPointers, NilLinks
    <3> QED BY <2>1, <2>4, <3>3, <3>4
  <2> QED BY <2>5, <2>6
<1> QED BY <1>1, AnyClient, PTL

-----------------------------------------------------------------------------
(* The loops climb                                                           *)

\* In terms of the walks of the tree, GoesAbove is GoesUp.
LEMMA GoesAboveIs ==
  ASSUME NEW rk \in Rankings, NEW t, NEW L, NEW u, Search(rk, t, L, u), NEW x, NEW r, NEW y,
         GoesAbove(t, L, u, x, r, y)
  PROVE  /\ r.root = t.root /\ r.kid = t.kid /\ r.parent = t.parent
         /\ Subtree(t, x) \subseteq Subtree(t, y) \ {y}
<1>1. x \in L \cup {Nil} /\ y \in L \cup {Nil}
  BY DEF GoesAbove
<1>2. Subtree(t, x) = u[x]
  BY <1>1, SubtreeIs
<1>3. Subtree(t, y) = u[y]
  BY <1>1, SubtreeIs
<1> QED BY <1>2, <1>3 DEF GoesAbove

\* While a loop is running, nothing else does.
LEMMA OnlyLoops == ASSUME Next, GoesOn PROVE FixInsert \/ FixDelete
<1>1. fix # NoFix
  BY DEF GoesOn, NoFix, Fix
<1>2. ~Running
  BY <1>1 DEF Running
<1>3. ASSUME NEW c \in Callers, Enter(c) PROVE FALSE
  BY <1>2, <1>3 DEF Enter, Begin, Update, PairBegin, ListBegin, Size, ClearBegin, CanCall
<1>4. ASSUME NEW c \in Callers, GoOn(c) PROVE FALSE
  <2>1. \A ops : ~Inside(c, ops) /\ ~Descending(c, ops) /\ ~Allocated(c, ops)
    BY <1>2 DEF Inside, Descending, Allocated
  <2>2. ~(\/ Descend(c) \/ Fails(c) \/ UseAfterFree(c) \/ Found(c) \/ NotFound(c)
          \/ PutAbsent(c) \/ Replaced(c) \/ LinkNode(c))
    BY <1>2, <2>1 DEF Descend, Fails, UseAfterFree, Found, NotFound, PutAbsent, Replaced,
                      LinkNode, Linking
  <2>3. ~(\/ Remove(c) \/ RemoveEnd(c) \/ NoMemory(c) \/ PopItem(c) \/ Peek(c)
          \/ ListEmpty(c) \/ NoRoot(c) \/ ListKeys(c) \/ ItemsFirst(c) \/ ItemsNext(c)
          \/ ClearEnd(c))
    BY <2>1 DEF Remove, RemoveEnd, NoMemory, PopItem, Peek, ListEmpty, NoRoot, ListKeys,
                ItemsFirst, ItemsNext, ClearEnd
  <2> QED BY <1>4, <2>2, <2>3 DEF GoOn
<1> QED BY <1>3, <1>4 DEF Next, Fixing

\* An iteration that another one follows goes up.
LEMMA LoopGoesUp ==
  ASSUME AnyInv, FixInsert \/ FixDelete, GoesOn, GoesOn' PROVE GoesUp
<1> DEFINE L == Present(value)
<1>1. PICK rk \in Rankings : TreeIn(rk)
  BY DEF AnyInv, Sound, Ranked, FixInsert, FixDelete
<1>2. CASE FixInsert
  <2>1. fix.kind = "insert" /\ InsertTree(rk, tree, L, fix.at)
    BY <1>1, <1>2 DEF TreeIn, FixInsert, NoFix, Fix
  <2>2. InsertFixGoesOn(tree, fix.at)
    BY <2>1 DEF GoesOn
  <2>3. PICK u, h : Search(rk, tree, L, u) /\ Inserting(tree, L, h, fix.at)
    BY <2>1 DEF InsertTree
  <2> DEFINE r == InsertFix(tree, fix.at)
  <2>4. InsertFixGoesOn(r.tree, r.at) => GoesAbove(tree, L, u, fix.at, r.tree, r.at)
    <3> HIDE DEF L
    <3> QED BY <2>2, <2>3, InsertFixKeeps
  <2>5. tree' = r.tree /\ fix' = Fix("insert", r.at, Nil)
    BY <1>2, <2>2 DEF FixInsert
  <2> HIDE DEF r
  <2>6. fix'.kind = "insert" /\ fix'.at = r.at
    BY <2>5 DEF Fix
  <2>7. GoesAbove(tree, L, u, fix.at, tree', fix'.at)
    BY <2>4, <2>5, <2>6 DEF GoesOn
  <2> QED BY <2>3, <2>7, GoesAboveIs DEF GoesUp
<1>3. CASE FixDelete
  <2>1. fix.kind = "delete" /\ DeleteTree(rk, tree, L, fix.at, fix.root)
    BY <1>1, <1>3 DEF TreeIn, FixDelete, NoFix, Fix
  <2>2. DeleteFixGoesOn(tree, fix.at, fix.root)
    BY <2>1 DEF GoesOn
  <2> DEFINE r == DeleteFix(tree, fix.at, fix.root)
  <2>3. DeleteFixGoesOn(r.tree, r.at, fix.root) =>
          \E u : Search(rk, tree, L, u) /\ GoesAbove(tree, L, u, fix.at, r.tree, r.at)
    <3> HIDE DEF L
    <3> QED BY <2>1, <2>2, DeleteFixKeeps
  <2>4. tree' = r.tree /\ fix' = Fix("delete", r.at, fix.root)
    BY <1>3, <2>2 DEF FixDelete
  <2> HIDE DEF r
  <2>5. fix'.kind = "delete" /\ fix'.at = r.at /\ fix'.root = fix.root
    BY <2>4 DEF Fix
  <2>6. DeleteFixGoesOn(tree', fix'.at, fix'.root)
    BY <2>5 DEF GoesOn
  <2>7. PICK u : Search(rk, tree, L, u) /\ GoesAbove(tree, L, u, fix.at, tree', fix'.at)
    BY <2>3, <2>4, <2>5, <2>6
  <2> QED BY <2>7, GoesAboveIs DEF GoesUp
<1> QED BY <1>2, <1>3

\* rbtree_insert_fix and rbtree_delete_fixup of src/src/rbtree.c climb until they rotate, in
\* the tree of any number of keys and whatever clients have done to it: all iterations of a loop
\* but the last leave the links as they are and start the next one higher up, so that there are
\* at most as many as the tree has levels, the sentinel's included.
THEOREM LoopsClimbHolds == Spec => LoopsClimb
<1>1. AnyInv /\ [Next]_vars => [GoesOn /\ GoesOn' => GoesUp]_vars
  BY OnlyLoops, LoopGoesUp
<1> QED BY <1>1, AnyClient, PTL DEF Spec, LoopsClimb
=============================================================================
