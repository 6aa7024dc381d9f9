----------------------------- MODULE SortedMap -----------------------------
(***************************************************************************)
(* ctools.SortedMap, src/src/rbtree.c: the methods of the map over the     *)
(* tree operations of RBTree.                                              *)
(*                                                                         *)
(* The methods run under the GIL, but Python code, and through it any      *)
(* other call on the same map, may run at every comparison of two keys, in *)
(* the callback of setnx(), in a collection that the allocation of a node, *)
(* a list or a tuple starts, and in the destructors of the keys and values *)
(* that are dropped.  The methods are split there; call holds the C locals *)
(* they go on with.  The two rebalancing loops run no Python code: fix is  *)
(* the loop being run, one step per iteration, and nothing else runs until *)
(* it is done.                                                             *)
(***************************************************************************)
EXTENDS RBTree, Sequences

CONSTANTS Values,   \* what the map holds
          Callers,  \* frames that may be inside a method at the same time
          Updates   \* the arguments of update(): pairs of entry sequences

ASSUME ValuesAssumption == NULL \notin Values
ASSUME CallersAssumption == IsFiniteSet(Callers)
ASSUME UpdatesAssumption ==
  \A u \in Updates : u[1] \in Seq(Keys \X Values) /\ u[2] \in Seq(Keys \X Values)

VARIABLES tree,
          value,   \* per key, the value of its node
          length,
          sref,    \* ghost: references to the sentinel this map owns
          call,    \* per caller, the method it is inside and its locals
          fix,     \* the rebalancing loop being run: its kind, its x or z, its root
          result,  \* ghost: what the method that returned in the last step answered
          breach,  \* ghost: how the clients have broken the contract
          fault    \* ghost: the first memory error or loss of a node

shape == <<tree, value, length, sref>>
vars == <<shape, call, fix, result, breach, fault>>

\* A frame: the key and value of the call, the node it points to (the
\* sentinel: not in the tree yet; NULL: a node that is gone), the length it
\* has read, and the entries it still has to put or the keys it has listed.
Frame(op, key, val, node, count, list) ==
  [op |-> op, key |-> key, val |-> val, node |-> node, count |-> count, list |-> list]
Idle == Frame("idle", NULL, NULL, Nil, 0, <<>>)
At(f, node) == Frame(f.op, f.key, f.val, node, f.count, f.list)

Fix(kind, at, root) == [kind |-> kind, at |-> at, root |-> root]
NoFix == Fix("none", Nil, Nil)
Answer(op, out) == [op |-> op, out |-> out]
Pending == Answer("pending", <<>>)

\* SortedMap(): one reference for the root and one for the sentinel field
Init == /\ tree = Empty
        /\ value = [k \in Keys |-> NULL]
        /\ length = 0
        /\ sref = 2
        /\ call = [c \in Callers |-> Idle]
        /\ fix = NoFix
        /\ result = Pending
        /\ breach = {}
        /\ fault = "none"

Running == fault = "none" /\ fix = NoFix
CanCall(c) == Running /\ call[c].op = "idle"
Inside(c, ops) == Running /\ call[c].op \in ops

Goes(c, f) == call' = [call EXCEPT ![c] = f]
Returns(c) == Goes(c, Idle)

-----------------------------------------------------------------------------
(* The contract: no link of the tree changes while another call points     *)
(* into it or is about to list it, and nothing lists or clears the map     *)
(* from the destructors of what is being removed.                          *)

Searches == {"get", "remove", "setdefault", "setnx"}
Puts == {"put", "setdefault_put", "setnx_put", "update"}
Pairs == {"popitem", "min", "max"}
Lists == {"keys", "items"}
Releasing == {"removed", "cleared"}

Pointing(d) == \/ call[d].op \in Searches \cup Puts /\ call[d].node # Nil
               \/ call[d].op \in Pairs \cup Lists
Overlap(c) == IF \E d \in Callers \ {c} : Pointing(d) THEN {"overlap"} ELSE {}
Nested(ops) == IF \E d \in Callers : call[d].op \in ops THEN {"nested"} ELSE {}

\* the calls that point to one of the given nodes, which are freed
Freed(nodes) == [d \in Callers |-> IF call[d].node \in nodes
                                   THEN At(call[d], NULL) ELSE call[d]]
Dangling(c) == call[c].node = NULL

-----------------------------------------------------------------------------
(* Descents: rbtree_find, and the loop of RBTree_PutNode.  A frame at the  *)
(* sentinel is about to read the root (RBTreeNode_New may start a          *)
(* collection before a put does); a frame at a node is comparing with it.  *)

Begin(c, op, k, v) ==
  /\ CanCall(c)
  /\ Goes(c, Frame(op, k, v, Nil, 0, <<>>))
  /\ result' = Pending
  /\ UNCHANGED <<shape, fix, breach, fault>>

\* Definitions named ...Slip or ...Lost are plausible slips in the code of the
\* definition they precede; no behaviour of the model uses them.
HitSlip(f) == f.node = f.key /\ f.op \in Searches
Hit(f) == f.node = f.key
SideAt(f) == IF f.key < f.node THEN "left" ELSE "right"
Below(f) == IF f.node = Nil THEN tree.root ELSE tree.kid[f.node][SideAt(f)]
Miss(f) == ~Hit(f) /\ Below(f) = Nil

Descending(c, ops) == Inside(c, ops) /\ ~Dangling(c)

Descend(c) ==
  /\ Descending(c, Searches \cup Puts)
  /\ ~Hit(call[c]) /\ ~Miss(call[c])
  /\ Goes(c, At(call[c], Below(call[c])))
  /\ result' = Pending
  /\ UNCHANGED <<shape, fix, breach, fault>>

\* The comparison raised, no node could be allocated, or the callback of
\* setnx() raised.
Fails(c) ==
  /\ Inside(c, Searches \cup Puts)
  /\ call[c].node # Nil \/ call[c].op \in Puts
  /\ Returns(c)
  /\ result' = Answer("error", <<>>)
  /\ UNCHANGED <<shape, fix, breach, fault>>

\* a pointer to a freed node is followed
UseAfterFree(c) ==
  /\ Running /\ call[c].op # "idle" /\ Dangling(c)
  /\ fault' = "freed_node"
  /\ result' = Pending
  /\ UNCHANGED <<shape, call, fix, breach>>

\* RBTree_Get, and the methods that are done when it finds the key
Found(c) ==
  /\ Descending(c, {"get", "setdefault", "setnx"})
  /\ Hit(call[c])
  /\ result' = Answer(call[c].op, <<value[call[c].key]>>)
  /\ Returns(c)
  /\ UNCHANGED <<shape, fix, breach, fault>>

NotFound(c) ==
  /\ Descending(c, {"get", "remove"})
  /\ Miss(call[c])
  /\ result' = Answer(call[c].op, <<>>)
  /\ Returns(c)
  /\ UNCHANGED <<shape, fix, breach, fault>>

\* setdefault() and setnx() put, from the root again; the callback of setnx()
\* runs first, and its answer is the value.
PutAbsent(c) ==
  /\ Descending(c, {"setdefault", "setnx"})
  /\ Miss(call[c])
  /\ LET f == call[c] IN
     IF f.op = "setdefault"
     THEN Goes(c, Frame("setdefault_put", f.key, f.val, Nil, 0, <<>>))
     ELSE \E v \in Values : Goes(c, Frame("setnx_put", f.key, v, Nil, 0, <<>>))
  /\ result' = Pending
  /\ UNCHANGED <<shape, fix, breach, fault>>

-----------------------------------------------------------------------------
(* RBTree_PutNode *)

\* what a method that has put its entry does next: update() goes on with the
\* entries left, the others return
AfterPut(f) ==
  IF f.list = <<>> THEN Idle
  ELSE Frame("update", f.list[1][1], f.list[1][2], Nil, 0, Tail(f.list))

PutAnswer(f) ==
  IF f.list # <<>> THEN Pending
  ELSE CASE f.op = "put" -> Answer("put", <<>>)
         [] f.op = "update" -> Answer("update", <<>>)
         [] f.op = "setdefault_put" -> Answer("setdefault", <<f.val>>)
         [] f.op = "setnx_put" -> Answer("setnx", <<f.val>>)

\* the value of the node is replaced; popitem() holds the old one
Replaced(c) ==
  /\ Descending(c, Puts)
  /\ Hit(call[c])
  /\ LET f == call[c] IN
     /\ value' = [value EXCEPT ![f.key] = f.val]
     /\ breach' = IF \E d \in Callers : call[d].op = "popitem" /\ call[d].node = f.key
                  THEN breach \cup {"overlap"} ELSE breach
     /\ result' = PutAnswer(f)
     /\ Goes(c, AfterPut(f))
  /\ UNCHANGED <<tree, length, sref, fix, fault>>

\* the new node takes the place of one pointer to the sentinel and brings two
Linking(c, nodes, refs) ==
  /\ Descending(c, Puts)
  /\ Miss(call[c])
  /\ LET f == call[c] IN
     /\ tree' = Link(tree, f.key, f.node, IF f.node = Nil THEN "left" ELSE SideAt(f))
     /\ value' = [value EXCEPT ![f.key] = f.val]
     /\ fix' = Fix("insert", f.key, Nil)
     /\ result' = PutAnswer(f)
     /\ Goes(c, AfterPut(f))
     /\ fault' = IF value[f.key] # NULL THEN "duplicate_key" ELSE fault
  /\ length' = length + nodes
  /\ sref' = sref + refs
  /\ breach' = breach \cup Overlap(c) \cup Nested({"cleared"})

LinkNodeSlip(c) == Linking(c, 1, 2)
LinkNodeLost(c) == Linking(c, 0, 1)
LinkNode(c) == Linking(c, 1, 1)

\* RBTree_update: one cursor walks both dicts, so that as many keyword
\* entries are skipped as the argument has entries.  result is what it was
\* asked for, of which todo is what it is going to put.
Update(c, arg, kw) ==
  /\ CanCall(c)
  /\ LET todo == arg \o SubSeq(kw, Len(arg) + 1, Len(kw))
     IN IF todo = <<>>
        THEN result' = Answer("update", arg \o kw) /\ UNCHANGED call
        ELSE /\ Goes(c, AfterPut(Frame("update", NULL, NULL, Nil, 0, todo)))
             /\ result' = Answer("asked", arg \o kw)
  /\ UNCHANGED <<shape, fix, breach, fault>>

-----------------------------------------------------------------------------
(* The rebalancing loops *)

FixInsert ==
  /\ fix.kind = "insert" /\ fault = "none"
  /\ IF InsertFixGoesOn(tree, fix.at)
     THEN LET r == InsertFix(tree, fix.at)
          IN tree' = r.tree /\ fix' = Fix("insert", r.at, Nil)
     ELSE tree' = SetColor(tree, tree.root, "black") /\ fix' = NoFix
  /\ result' = Pending
  /\ UNCHANGED <<value, length, sref, call, breach, fault>>

FixDeleteSlip ==
  /\ fix.kind = "delete" /\ fault = "none"
  /\ IF DeleteFixGoesOn(tree, fix.at, fix.root)
     THEN LET r == DeleteFix(tree, fix.at, fix.root)
          IN tree' = r.tree /\ fix' = Fix("delete", r.at, fix.root)
     ELSE fix' = NoFix /\ UNCHANGED tree
  /\ result' = Pending
  /\ UNCHANGED <<value, length, sref, call, breach, fault>>

FixDelete ==
  /\ fix.kind = "delete" /\ fault = "none"
  /\ IF DeleteFixGoesOn(tree, fix.at, fix.root)
     THEN LET r == DeleteFix(tree, fix.at, fix.root)
          IN tree' = r.tree /\ fix' = Fix("delete", r.at, fix.root)
     ELSE tree' = SetColor(tree, fix.at, "black") /\ fix' = NoFix
  /\ result' = Pending
  /\ UNCHANGED <<value, length, sref, call, breach, fault>>

-----------------------------------------------------------------------------
(* RBTree_RemoveNode: the node leaves the tree, then its key and its value *)
(* are released, then the length is reduced.  A length that is too small   *)
(* makes the last-node case drop a tree that has other nodes.              *)

LosesNodes(n) == tree.root = n /\ length = 1 /\ Linked(tree) # {n}

Unlink(c, n) ==
  LET d == Delete(tree, n)
  IN /\ IF tree.root = n /\ length = 1
        THEN /\ tree' = Forget(Tree(Nil, tree.kid, tree.parent, tree.color), n)
             /\ fix' = NoFix
        ELSE /\ tree' = Forget(d.tree, n)
             /\ fix' = IF d.color = "black" THEN Fix("delete", d.at, d.tree.root) ELSE NoFix
     /\ value' = [value EXCEPT ![n] = NULL]
     /\ sref' = sref - 1
     /\ breach' = breach \cup Overlap(c) \cup Nested({"cleared"})
     /\ call' = [Freed({n}) EXCEPT ![c] = Frame("removed", NULL, NULL, Nil, 0, <<>>)]

Remove(c) ==
  /\ Descending(c, {"remove"})
  /\ Hit(call[c])
  /\ Unlink(c, call[c].key)
  /\ result' = Answer("remove", <<value[call[c].key]>>)
  /\ fault' = IF LosesNodes(call[c].key) THEN "lost_nodes" ELSE fault
  /\ UNCHANGED length

RemoveEndSlip(c) ==
  /\ Inside(c, {"removed"})
  /\ Returns(c)
  /\ result' = Pending
  /\ UNCHANGED <<shape, fix, breach, fault>>

RemoveEnd(c) ==
  /\ Inside(c, {"removed"})
  /\ length' = length - 1
  /\ Returns(c)
  /\ result' = Pending
  /\ UNCHANGED <<tree, value, sref, fix, breach, fault>>

-----------------------------------------------------------------------------
(* popitem(), min() and max(): the node is chosen, the pair is allocated,  *)
(* then filled.  popitem() has read the value before.                      *)

PairBegin(c, op) ==
  /\ CanCall(c)
  /\ IF tree.root = Nil
     THEN result' = Answer(op, <<>>) /\ UNCHANGED call
     ELSE LET n == IF op = "max" THEN Greatest(tree, tree.root) ELSE Least(tree, tree.root)
          IN result' = Pending /\ Goes(c, Frame(op, NULL, value[n], n, 0, <<>>))
  /\ UNCHANGED <<shape, fix, breach, fault>>

PopItem(c) ==
  /\ Inside(c, {"popitem"}) /\ ~Dangling(c)
  /\ LET f == call[c] IN
     /\ fault' = IF f.val # value[f.node] THEN "freed_value"
                 ELSE IF LosesNodes(f.node) THEN "lost_nodes" ELSE fault
     /\ result' = Answer("popitem", <<f.node, f.val>>)
     /\ Unlink(c, f.node)
  /\ UNCHANGED length

Peek(c) ==
  /\ Inside(c, {"min", "max"}) /\ ~Dangling(c)
  /\ result' = Answer(call[c].op, <<call[c].node, value[call[c].node]>>)
  /\ Returns(c)
  /\ UNCHANGED <<shape, fix, breach, fault>>

-----------------------------------------------------------------------------
(* keys(), values() and items(): a list as long as the map is allocated,   *)
(* then the length is tested and the list filled in one walk.  items()     *)
(* allocates a pair at every node of the walk, the others run no Python    *)
(* code in it.                                                             *)

ListBegin(c, op) ==
  /\ CanCall(c)
  /\ Goes(c, Frame(op, NULL, NULL, Nil, length, <<>>))
  /\ result' = Pending
  /\ breach' = breach \cup Nested(Releasing)
  /\ UNCHANGED <<shape, fix, fault>>

\* the list of a call at the sentinel has been allocated
Allocated(c, ops) == Inside(c, ops) /\ call[c].node = Nil

\* an empty map: the list is returned as it was allocated
ListEmpty(c) ==
  /\ Allocated(c, Lists) /\ length = 0
  /\ result' = Answer(call[c].op, [i \in 1..call[c].count |-> NULL])
  /\ Returns(c)
  /\ UNCHANGED <<shape, fix, breach, fault>>

\* the pair of popitem(), min(), max() or items(), or the list, could not be
\* allocated
NoMemory(c) ==
  /\ Inside(c, Pairs \cup Lists)
  /\ Returns(c)
  /\ result' = Answer("error", <<>>)
  /\ UNCHANGED <<shape, fix, breach, fault>>

\* The walk is over with these keys: slots left over stay NULL; one key too
\* many is refused by PyList_SetItem and then released once too often.
Listed(c, keys) ==
  /\ fault' = IF Len(keys) > call[c].count THEN "over_release" ELSE fault
  /\ result' = Answer(call[c].op,
                      keys \o [i \in 1..(call[c].count - Len(keys)) |-> NULL])
  /\ Returns(c)

NoRoot(c) ==
  /\ Allocated(c, Lists) /\ length # 0 /\ tree.root = Nil
  /\ fault' = "null_node"
  /\ result' = Pending
  /\ UNCHANGED <<shape, call, fix, breach>>

\* the keys from node n on
From(n) ==
  LET walk[m \in Linked(tree)] ==
                          LET next == NextNode(tree, m)
                          IN IF next = NULL THEN <<m>> ELSE <<m>> \o walk[next]
  IN walk[n]

ListKeys(c) ==
  /\ Allocated(c, {"keys"}) /\ length # 0 /\ tree.root # Nil
  /\ Listed(c, From(Least(tree, tree.root)))
  /\ UNCHANGED <<shape, fix, breach>>

\* the first node; its pair is being allocated
ItemsFirst(c) ==
  /\ Allocated(c, {"items"}) /\ length # 0 /\ tree.root # Nil
  /\ Goes(c, At(call[c], Least(tree, tree.root)))
  /\ result' = Pending
  /\ UNCHANGED <<shape, fix, breach, fault>>

ItemsNext(c) ==
  /\ Inside(c, {"items"}) /\ call[c].node \in Keys
  /\ LET f    == call[c]
         keys == Append(f.list, f.node)
         next == NextNode(tree, f.node)
     IN IF next = NULL \/ Len(keys) > f.count
        THEN Listed(c, keys)
        ELSE /\ Goes(c, Frame(f.op, f.key, f.val, next, f.count, keys))
             /\ result' = Pending
             /\ UNCHANGED fault
  /\ UNCHANGED <<shape, fix, breach>>

-----------------------------------------------------------------------------
(* len() and clear() *)

Size(c) ==
  /\ CanCall(c)
  /\ result' = Answer("len", <<length>>)
  /\ UNCHANGED <<shape, call, fix, breach, fault>>

\* The old root is released, and every node with it; the destructors of its
\* keys and values run before the length is reset.
ClearBegin(c) ==
  /\ CanCall(c)
  /\ result' = Answer("clear", <<>>)
  /\ IF length = 0
     THEN UNCHANGED <<shape, call, breach>>
     ELSE LET gone == Linked(tree)
          IN /\ tree' = [root   |-> Nil,
                         kid    |-> [n \in Nodes |-> IF n \in gone THEN [s \in Sides |-> NULL]
                                                    ELSE tree.kid[n]],
                         parent |-> [n \in Nodes |->
                                       IF n \in gone THEN NULL ELSE tree.parent[n]],
                         color  |-> [n \in Nodes |->
                                       IF n \in gone THEN "red" ELSE tree.color[n]]]
             /\ value' = [k \in Keys |-> IF k \in gone THEN NULL ELSE value[k]]
             /\ sref' = IF gone = {} THEN sref ELSE sref + 1 - (Cardinality(gone) + 1)
             /\ call' = [Freed(gone) EXCEPT
                           ![c] = Frame("cleared", NULL, NULL, Nil, 0, <<>>)]
             /\ breach' = breach \cup Overlap(c) \cup Nested(Releasing)
             /\ UNCHANGED length
  /\ UNCHANGED <<fix, fault>>

ClearEnd(c) ==
  /\ Inside(c, {"cleared"})
  /\ length' = 0
  /\ Returns(c)
  /\ result' = Pending
  /\ UNCHANGED <<tree, value, sref, fix, breach, fault>>

-----------------------------------------------------------------------------

Enter(c) == \/ \E k \in Keys, op \in {"get", "remove", "setnx"} : Begin(c, op, k, NULL)
            \/ \E k \in Keys, v \in Values, op \in {"put", "setdefault"} : Begin(c, op, k, v)
            \/ \E u \in Updates : Update(c, u[1], u[2])
            \/ \E op \in Pairs : PairBegin(c, op)
            \/ \E op \in Lists : ListBegin(c, op)
            \/ Size(c) \/ ClearBegin(c)

\* what a call that has been entered goes on with
GoOn(c) == \/ Descend(c) \/ Fails(c) \/ UseAfterFree(c)
           \/ Found(c) \/ NotFound(c) \/ PutAbsent(c)
           \/ Replaced(c) \/ LinkNode(c)
           \/ Remove(c) \/ RemoveEnd(c)
           \/ NoMemory(c) \/ PopItem(c) \/ Peek(c)
           \/ ListEmpty(c) \/ NoRoot(c) \/ ListKeys(c) \/ ItemsFirst(c) \/ ItemsNext(c)
           \/ ClearEnd(c)

Fixing == FixInsert \/ FixDelete

Next == Fixing \/ \E c \in Callers : Enter(c) \/ GoOn(c)

Spec == Init /\ [][Next]_vars

\* The loops run to their end; comparisons, callbacks and destructors return.
Fairness == WF_vars(Fixing) /\ \A c \in Callers : WF_vars(GoOn(c))

FairSpec == Spec /\ Fairness

-----------------------------------------------------------------------------
(* Properties *)

Frames == [op : Searches \cup Puts \cup Pairs \cup Lists \cup Releasing \cup {"idle"},
           key : Keys \cup {NULL}, val : Values \cup {NULL}, node : Nodes \cup {NULL},
           count : Int, list : Seq(Keys \cup (Keys \X Values))]

\* Every variable has its type; the nodes of the map have both children set.
TypeOK ==
  /\ tree.root \in Nodes
  /\ tree.kid \in [Nodes -> [Sides -> Nodes \cup {NULL}]]
  /\ tree.parent \in [Nodes -> Nodes \cup {NULL}]
  /\ tree.color \in [Nodes -> {"red", "black"}]
  /\ value \in [Keys -> Values \cup {NULL}]
  /\ length \in Int /\ sref \in Int
  /\ \A k \in Keys, s \in Sides : value[k] # NULL => tree.kid[k][s] # NULL
  /\ call \in [Callers -> Frames]
  /\ fix.kind \in {"none", "insert", "delete"}
  /\ fix.at \in Nodes /\ fix.root \in Nodes
  /\ breach \subseteq {"overlap", "nested"}
  /\ fault \in {"none", "freed_node", "freed_value", "null_node",
                "over_release", "duplicate_key", "lost_nodes"}

Kept == breach = {}

\* The tree is in search order and its parent pointers are the inverse of its
\* child pointers at every step, those of the rebalancing loops included:
\* what rbtree_find, rbtree_next and the rotations rely on.
SearchTree == Kept => /\ Ordered(tree)
                      /\ Doubly(tree)
                      /\ Linked(tree) = {k \in Keys : value[k] # NULL}

\* Whenever Python code can look, the tree is a red-black tree: its depth is
\* at most twice the logarithm of its size.
Balanced == Kept /\ fix = NoFix => RedBlack(tree)

\* The node whose pointer to fix.at counts one black node more while a deletion
\* is repaired; none once the loop is left through the root read on entry.
Extra == IF fix.kind # "delete" \/ (fix.at = fix.root /\ IsBlack(tree, fix.at))
         THEN NULL ELSE tree.parent[fix.at]

\* The invariant of both loops: the black heights agree but for the node x of
\* rbtree_delete_fixup, which counts twice, and of two red nodes in a row one
\* is the node z of rbtree_insert_fix, or x, which is about to turn black.
FixInvariant ==
  Kept /\ fix # NoFix =>
    /\ BlackHeight(tree, tree.root, Extra, SideOf(tree, fix.at)) # -1
    /\ NoRedRed(tree, fix.at)
    /\ IsRed(tree, tree.root) => fix.at = tree.root
    /\ IsBlack(tree, Nil)

\* a loop is running, and the test of its head is true
GoesOn == \/ fix.kind = "insert" /\ InsertFixGoesOn(tree, fix.at)
          \/ fix.kind = "delete" /\ DeleteFixGoesOn(tree, fix.at, fix.root)

\* What bounds both loops by the height of the tree: an iteration that is not
\* the last one turns no link, and the node it leaves to the next one is above
\* the node it has dealt with.  An iteration that rotates is the last.
GoesUp ==
  /\ tree'.root = tree.root /\ tree'.kid = tree.kid /\ tree'.parent = tree.parent
  /\ Subtree(tree, fix.at) \subseteq Subtree(tree, fix'.at) \ {fix'.at}
LoopsClimb == [][GoesOn /\ GoesOn' => GoesUp]_vars

Removals == {c \in Callers : call[c].op = "removed"}
Clearing == \E c \in Callers : call[c].op = "cleared"

\* len() counts the nodes of the tree, and besides them only what is being
\* removed: PyList_New(length) and the length == 1 test of RBTree_RemoveNode
\* depend on it.
LengthCounts ==
  Kept /\ ~Clearing => length = Cardinality(Linked(tree)) + Cardinality(Removals)

SentinelPointers ==
  IF tree.root = Nil THEN 1
  ELSE Cardinality({p \in Linked(tree) \X Sides : tree.kid[p[1]][p[2]] = Nil})

\* The sentinel, one object for all maps of the process, neither leaks nor is
\* released too often: the map owns one reference per pointer to it, at every
\* step and whatever the clients do (test_sentinel of tests/test_sortedmap.py
\* compares the count before and after).
SentinelCounted == fault = "none" => sref = SentinelPointers + 1

\* A client that keeps to the contract never makes the map follow a pointer to
\* a freed node, hand out a freed value, or overrun a list.
NoFault == Kept => fault = "none"

\* Without the contract: destructors that list or clear the map corrupt its
\* length, but only a call that changes the tree under another one can make
\* that one use what was freed or put a key that is there.
OverlapExplains ==
  fault \in {"freed_node", "freed_value", "duplicate_key"} => "overlap" \in breach

\* what the map holds, and how much of what it no longer holds len() counts
Contents == [k \in {j \in Keys : value[j] # NULL} |-> value[k]]
Leaving == IF Clearing THEN length ELSE Cardinality(Removals)

\* what a caller has asked for, the state of its search left out
Called(f) == [op |-> f.op, key |-> f.key,
              val |-> IF f.op \in Pairs THEN NULL ELSE f.val,
              todo |-> IF f.op \in Puts THEN f.list ELSE <<>>]

\* No update() is asked for with both a dict and keywords: one that is drops
\* keywords, and is promised nothing.
OneDict == \A u \in Updates : u[1] = <<>> \/ u[2] = <<>>

Calls == [c \in Callers |-> Called(call[c])]

Dict == INSTANCE SortedDict WITH
          dict <- Contents, leaving <- Leaving, call <- Calls,
          broken <- breach # {} \/ ~OneDict

\* The map implements the sorted dictionary.
IsDict == Dict!Init /\ [][Dict!Next]_(Dict!vars)

\* Every call returns: no descent, walk or rebalancing loop runs for ever.
CallsReturn == \A c \in Callers : call[c].op # "idle" ~> call[c].op = "idle"

\* "Iterate sorted keys." (the doc of keys()), of every client: a slot of the
\* list that was left NULL aside, keys come in ascending order.
KeysSorted ==
  result.op = "keys" =>
    \A i, j \in 1..Len(result.out) :
      i < j /\ NULL \notin {result.out[i], result.out[j]} => result.out[i] < result.out[j]
=============================================================================
