------------------------------- MODULE RBTree -------------------------------
(***************************************************************************)
(* The red-black tree of src/src/rbtree.c as functions from trees to       *)
(* trees.  A node is named by its key: a tree never links two nodes of one *)
(* key while the clients of SortedMap keep to its contract.                *)
(*                                                                         *)
(* The mirrored halves of the C functions are one definition here, with a  *)
(* side s that is "left" in the first half and "right" in the second.      *)
(***************************************************************************)
EXTENDS Integers, FiniteSets

CONSTANTS Keys,  \* what can be a key; compared as integers
          Nil,   \* the sentinel, a node shared by every map
          NULL   \* the NULL pointer

ASSUME KeysAssumption == Keys \subseteq Int /\ IsFiniteSet(Keys)
ASSUME NilAssumption == Nil \notin Keys /\ NULL \notin Keys /\ Nil # NULL

Nodes == Keys \cup {Nil}
Sides == {"left", "right"}
Other(s) == IF s = "left" THEN "right" ELSE "left"

(* A tree: the root, per node and side the child, per node the parent and  *)
(* the color.  A node outside the tree is as RBTreeNode_New leaves it.     *)

Empty == [root   |-> Nil,
          kid    |-> [n \in Nodes |-> [s \in Sides |-> NULL]],
          parent |-> [n \in Nodes |-> NULL],
          color  |-> [n \in Nodes |-> IF n = Nil THEN "black" ELSE "red"]]

\* the fields of a tree after assignments to some of them
Tree(root, kid, parent, color) ==
  [root |-> root, kid |-> kid, parent |-> parent, color |-> color]
SetKid(t, n, s, m) == [t EXCEPT !.kid[n][s] = m]
SetParent(t, n, m) == [t EXCEPT !.parent[n] = m]
SetColor(t, n, c) == [t EXCEPT !.color[n] = c]

IsRed(t, n) == t.color[n] = "red"
IsBlack(t, n) == ~IsRed(t, n)

\* The side of its parent on which node n hangs.
SideOf(t, n) == IF n = t.kid[t.parent[n]]["left"] THEN "left" ELSE "right"

\* What pointed to u from above points to v: the root, or u's parent.
Replace(t, u, v) ==
  IF t.parent[u] = Nil THEN [t EXCEPT !.root = v] ELSE SetKid(t, t.parent[u], SideOf(t, u), v)

\* Definitions named ...Slip or ...Shallow are plausible slips in the code of
\* the definition they precede; no behaviour of the model uses them.
RotateSlip(t, s, x) ==
  LET o == Other(s)
      y == t.kid[x][o]
  IN [Replace(t, x, y) EXCEPT
        !.kid[x][o] = t.kid[y][s], !.kid[y][s] = x,
        !.parent[y] = t.parent[x], !.parent[x] = y]

\* x goes down on side s, its child y on the other side comes up, and b, which
\* was between them, goes over from y to x.
Turn(t, s, x, y, b) ==
  LET t1 == IF b = Nil THEN t ELSE SetParent(t, b, x)
      t2 == SetKid(SetKid(Replace(t1, x, y), x, Other(s), b), y, s, x)
  IN SetParent(SetParent(t2, y, t.parent[x]), x, y)

\* rbtree_left_rotate for s = "left", rbtree_right_rotate for s = "right"
Rotate(t, s, x) ==
  LET y == t.kid[x][Other(s)] IN Turn(t, s, x, y, t.kid[y][s])

-----------------------------------------------------------------------------
(* Insertion *)

LinkSlip(t, z, y, s) ==
  LET t1 == IF y = Nil THEN [t EXCEPT !.root = z] ELSE SetKid(t, y, s, z)
  IN SetColor(SetKid(SetParent(t1, z, y), z, "left", Nil), z, "red")

\* RBTree_PutNode: z becomes the child of y on side s, or the root.
Link(t, z, y, s) ==
  LET t1 == IF y = Nil THEN [t EXCEPT !.root = z] ELSE SetKid(t, y, s, z)
      t2 == SetKid(SetKid(SetParent(t1, z, y), z, "left", Nil), z, "right", Nil)
  IN SetColor(t2, z, "red")

InsertFixGoesOn(t, z) == IsRed(t, t.parent[z])

\* case 1: p, the parent of z, and its sibling y are red; g is above them
RecolorSlip(t, p, y, g) == SetColor(SetColor(t, p, "black"), y, "black")
Recolor(t, p, y, g) == SetColor(SetColor(SetColor(t, p, "black"), y, "black"), g, "red")

\* One iteration of rbtree_insert_fix: the tree and the z it leaves.
InsertFix(t, z) ==
  LET p == t.parent[z]
      g == t.parent[p]
      s == SideOf(t, p)
      y == t.kid[g][Other(s)]
      inner == z = t.kid[p][Other(s)]
      z1 == IF inner THEN p ELSE z
      t1 == IF inner THEN Rotate(t, s, p) ELSE t
      p1 == t1.parent[z1]
  IN IF IsRed(t, y)
     THEN [tree |-> Recolor(t, p, y, g), at |-> g]
     ELSE [tree |-> Rotate(SetColor(SetColor(t1, p1, "black"), g, "red"), Other(s), g),
           at   |-> z1]

-----------------------------------------------------------------------------
(* Deletion *)

\* rbtree_transplant: v, which may be the sentinel, takes the place of u.
Transplant(t, u, v) == SetParent(Replace(t, u, v), v, t.parent[u])

\* rbtree_min
Least(t, n) ==
  LET down[m \in Keys] == IF t.kid[m]["left"] \in Keys THEN down[t.kid[m]["left"]] ELSE m
  IN down[n]

GreatestSlip(t, n) == n

\* the walk of RBTree_max
Greatest(t, n) ==
  LET down[m \in Keys] == IF t.kid[m]["right"] \in Keys THEN down[t.kid[m]["right"]] ELSE m
  IN down[n]

\* rbtree_next, NULL after the last node
NextNode(t, n) ==
  LET up[m \in Keys] == IF m = t.root \/ t.parent[m] \notin Keys THEN NULL
                        ELSE IF SideOf(t, m) = "left" THEN t.parent[m] ELSE up[t.parent[m]]
  IN IF t.kid[n]["right"] # Nil THEN Least(t, t.kid[n]["right"]) ELSE up[n]

\* rbtree_delete up to the fixup: the tree, the node x that took the place of
\* the node that was spliced out, and the color of the latter.
Delete(t, z) ==
  LET l == t.kid[z]["left"]
      r == t.kid[z]["right"]
      y == Least(t, r)
      x == t.kid[y]["right"]
      detached == IF t.parent[y] = z THEN SetParent(t, x, y)
                  ELSE SetParent(SetKid(Transplant(t, y, x), y, "right", r), r, y)
      moved == SetParent(SetKid(Transplant(detached, z, y), y, "left", l), l, y)
  IN IF l = Nil THEN [tree |-> Transplant(t, z, r), at |-> r, color |-> t.color[z]]
     ELSE IF r = Nil THEN [tree |-> Transplant(t, z, l), at |-> l, color |-> t.color[z]]
     ELSE [tree |-> SetColor(moved, y, t.color[z]), at |-> x, color |-> t.color[y]]

\* the fields of a node that has left the tree
Forget(t, z) ==
  SetColor(SetParent(SetKid(SetKid(t, z, "left", NULL), z, "right", NULL), z, NULL), z, "red")

DeleteFixGoesOn(t, x, root) == x # root /\ IsBlack(t, x)

DeleteFixSlip(t, x, root) ==
  LET w == t.kid[t.parent[x]][Other(SideOf(t, x))]
  IN [tree |-> SetColor(t, w, "red"), at |-> x]

\* One iteration of rbtree_delete_fixup, for an x on side s.  The root the C
\* function read on entry is the node the last case ends the loop with.
DeleteFixOn(t, x, s, root) ==
  LET p  == t.parent[x]
      o  == Other(s)
      w0 == t.kid[p][o]
      t1 == IF IsRed(t, w0) THEN Rotate(SetColor(SetColor(t, w0, "black"), p, "red"), s, p)
                            ELSE t
      w1 == t1.kid[p][o]
      far  == t1.kid[w1][o]
      near == t1.kid[w1][s]
  IN IF IsBlack(t1, near) /\ IsBlack(t1, far)
     THEN [tree |-> SetColor(t1, w1, "red"), at |-> p]
     ELSE LET t2 == IF IsBlack(t1, far)
                    THEN Rotate(SetColor(SetColor(t1, near, "black"), w1, "red"), o, w1)
                    ELSE t1
              w2 == t2.kid[p][o]
              t3 == SetColor(SetColor(SetColor(t2, w2, t2.color[p]), p, "black"),
                             t2.kid[w2][o], "black")
          IN [tree |-> Rotate(t3, s, p), at |-> root]

DeleteFixLost(t, x, root) ==
  LET f == DeleteFixOn(t, x, SideOf(t, x), root)
  IN IF f.at = t.parent[x] THEN f ELSE [f EXCEPT !.at = x]
DeleteFixShallow(t, x, root) == DeleteFixOn(t, x, SideOf(t, Nil), root)
DeleteFix(t, x, root) == DeleteFixOn(t, x, SideOf(t, x), root)

-----------------------------------------------------------------------------
(* What a tree should look like, without reference to the code *)

Depth == Cardinality(Keys)

\* the keys in the subtree of n, at most d levels of it for p = <<n, d>>
Subtree(t, n) ==
  LET sub[p \in (Nodes \cup {NULL}) \X (0..Depth)] ==
        IF p[1] \notin Keys THEN {}
        ELSE IF p[2] = 0 THEN {p[1]}
        ELSE {p[1]} \cup sub[<<t.kid[p[1]]["left"], p[2] - 1>>]
                    \cup sub[<<t.kid[p[1]]["right"], p[2] - 1>>]
  IN sub[<<n, Depth>>]

Linked(t) == Subtree(t, t.root)

\* Search order: what is on the left is less, what is on the right greater.
Ordered(t) ==
  \A n \in Linked(t) : /\ \A m \in Subtree(t, t.kid[n]["left"]) : m < n
                       /\ \A m \in Subtree(t, t.kid[n]["right"]) : m > n

\* Parent pointers are the inverse of child pointers.
Doubly(t) ==
  /\ t.root # Nil => t.parent[t.root] = Nil
  /\ \A n \in Linked(t), s \in Sides : t.kid[n][s] # Nil => t.parent[t.kid[n][s]] = n

\* The number of black nodes on the paths from n down, n and the sentinel
\* included, or -1 if two paths differ.  The child pointer of node p on side e
\* counts as one more black node; p is NULL when there is none.
BlackHeight(t, n, p, e) ==
  LET one(b) == IF b THEN 1 ELSE 0
      bh[q \in (Nodes \cup {NULL}) \X (0..Depth)] ==
        IF q[1] \notin Keys \/ q[2] = 0 THEN 1
        ELSE LET l == bh[<<t.kid[q[1]]["left"], q[2] - 1>>]
                 r == bh[<<t.kid[q[1]]["right"], q[2] - 1>>]
                 bl == l + one(q[1] = p /\ e = "left")
                 br == r + one(q[1] = p /\ e = "right")
             IN IF l = -1 \/ r = -1 \/ bl # br THEN -1 ELSE bl + one(IsBlack(t, q[1]))
  IN bh[<<n, Depth>>]

\* no red node has a red child, unless one of the two is `but`
NoRedRed(t, but) ==
  \A n \in Linked(t), s \in Sides :
    IsRed(t, n) /\ IsRed(t, t.kid[n][s]) => but \in {n, t.kid[n][s]}

RedBlack(t) == /\ IsBlack(t, t.root) /\ IsBlack(t, Nil)
               /\ NoRedRed(t, NULL)
               /\ BlackHeight(t, t.root, NULL, "left") # -1
=============================================================================
