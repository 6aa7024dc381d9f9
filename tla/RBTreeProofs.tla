---------------------------- MODULE RBTreeProofs ----------------------------
(***************************************************************************)
(* Theorems about the tree algorithms of RBTree, for every tree and every  *)
(* set of keys: rotations, insertion with the loop of rbtree_insert_fix,   *)
(* the walks along a tree, and what a certificate says of its shape.       *)
(***************************************************************************)
EXTENDS RBTree, FiniteSetTheorems, WellFoundedInduction, TLAPS

Trees == [root : Nodes, kid : [Nodes -> [Sides -> Nodes \cup {NULL}]],
          parent : [Nodes -> Nodes \cup {NULL}], color : [Nodes -> {"red", "black"}]]

(* The order of the tree.  It is the order of the keys, unless a call has  *)
(* put a key where another one left the tree meanwhile: then the tree is   *)
(* in the order of some other numbering of its keys.                       *)
Rankings == {f \in [Int -> Int] : \A a, b \in Int : f[a] = f[b] => a = b}
Natural == [k \in Int |-> k]

(* A certificate: the set L of the linked keys, and per node the set u[n]  *)
(* of the keys in its subtree.  With it, each fact about the tree is about *)
(* a node and its neighbours.                                              *)

Before(rk, s, a, b) == IF s = "left" THEN rk[a] < rk[b] ELSE rk[a] > rk[b]

KidsOK(rk, t, L, u) ==
  \A n \in L :
    /\ n \in u[n] /\ u[n] \subseteq L
    /\ \A s \in Sides : /\ t.kid[n][s] \in L \cup {Nil}
                        /\ u[t.kid[n][s]] \subseteq u[n]
                        /\ \A m \in u[t.kid[n][s]] : Before(rk, s, m, n)
    /\ \A m \in u[n] : m = n \/ \E s \in Sides : m \in u[t.kid[n][s]]

ParentsOK(t, L) ==
  /\ t.root # Nil => t.parent[t.root] = Nil
  /\ \A n \in L, s \in Sides : t.kid[n][s] # Nil => t.parent[t.kid[n][s]] = n
  /\ \A n \in L \ {t.root} : t.parent[n] \in L /\ \E s \in Sides : t.kid[t.parent[n]][s] = n

\* The subtrees of a subtree are parts of it, and so is the parent of each of
\* its nodes but the topmost.
Enclosed(t, L, u) ==
  \A n \in L : \A m \in u[n] : u[m] \subseteq u[n] /\ (m # n => t.parent[m] \in u[n])

\* The tree links the keys L, in search order; no other node has children.
Search(rk, t, L, u) ==
  /\ t \in Trees
  /\ L \subseteq Keys /\ t.root \in L \cup {Nil}
  /\ u \in [Nodes -> SUBSET L] /\ u[Nil] = {} /\ u[t.root] = L
  /\ KidsOK(rk, t, L, u) /\ ParentsOK(t, L) /\ Enclosed(t, L, u)
  /\ \A k \in Keys \ L : t.parent[k] = NULL /\ \A s \in Sides : t.kid[k][s] = NULL

\* the two sides of a node
LEMMA SidesAre ==
  ASSUME NEW s \in Sides
  PROVE  /\ s \in {"left", "right"} /\ Other(s) \in Sides /\ Other(s) # s /\ Other(Other(s)) = s
         /\ \A d \in Sides : d = s \/ d = Other(s)
  BY DEF Sides, Other

\* Keys are ordered, backwards on the right side.
LEMMA BeforeIs ==
  ASSUME NEW rk \in Rankings, NEW s \in Sides, NEW a \in Int, NEW b \in Int
  PROVE  /\ Before(rk, s, a, b) => a # b
         /\ Before(rk, Other(s), a, b) <=> Before(rk, s, b, a)
         /\ Before(rk, s, a, b) => ~Before(rk, s, b, a)
         /\ a = b \/ Before(rk, s, a, b) \/ Before(rk, s, b, a)
         /\ \A c \in Int : Before(rk, s, a, b) /\ Before(rk, s, b, c) => Before(rk, s, a, c)
  BY DEF Sides, Other, Before, Rankings

\* Rankings are injective.
LEMMA RankIs ==
  ASSUME NEW rk \in Rankings
  PROVE  /\ \A a \in Int : rk[a] \in Int
         /\ \A a, b \in Int : rk[a] = rk[b] => a = b
  BY DEF Rankings

\* the order of the keys
LEMMA NaturalRanks == Natural \in Rankings
  BY DEF Natural, Rankings

LEMMA NaturalIs == \A k \in Int : Natural[k] = k
  BY DEF Natural

\* what holds of every node
LEMMA Facts ==
  ASSUME NEW rk \in Rankings, NEW t, NEW L, NEW u, Search(rk, t, L, u)
  PROVE  /\ Nil \notin L /\ Nil \notin Keys /\ NULL \notin Nodes /\ L \subseteq Int
         /\ L \subseteq Nodes /\ Nil \in Nodes /\ L \subseteq Keys /\ Keys \subseteq Nodes
         /\ t \in Trees /\ t.root \in Nodes /\ t.root \in L \cup {Nil}
         /\ u \in [Nodes -> SUBSET L] /\ u[Nil] = {} /\ u[t.root] = L
  BY NilAssumption, KeysAssumption DEF Search, Nodes

\* what holds of a linked node
LEMMA NodeFacts ==
  ASSUME NEW rk \in Rankings, NEW t, NEW L, NEW u, Search(rk, t, L, u), NEW n \in L
  PROVE  /\ n \in Int /\ n \in Nodes /\ n # Nil /\ n \in u[n] /\ u[n] \subseteq L
         /\ t.parent[n] \in Nodes /\ (t.parent[n] = Nil <=> n = t.root)
         /\ \A m \in u[n] : m = n \/ \E s \in Sides : m \in u[t.kid[n][s]]
<1>1. n \in Int /\ n \in Nodes /\ n # Nil
  BY Facts
<1>2. n \in u[n] /\ u[n] \subseteq L /\ \A m \in u[n] : m = n \/ \E s \in Sides : m \in u[t.kid[n][s]]
  BY DEF Search, KidsOK
<1>3. CASE n = t.root
  <2>1. t.parent[n] = Nil
    BY <1>1, <1>3 DEF Search, ParentsOK
  <2> QED BY <1>1, <1>2, <1>3, <2>1, Facts
<1>4. CASE n # t.root
  <2>1. t.parent[n] \in L
    BY <1>4 DEF Search, ParentsOK
  <2> QED BY <1>1, <1>2, <1>4, <2>1, Facts
<1> QED BY <1>3, <1>4

\* what holds of a child
LEMMA KidFacts ==
  ASSUME NEW rk \in Rankings, NEW t, NEW L, NEW u, Search(rk, t, L, u), NEW n \in L, NEW s \in Sides
  PROVE  /\ t.kid[n][s] \in L \cup {Nil} /\ t.kid[n][s] \in Nodes /\ t.kid[n][s] # n
         /\ u[t.kid[n][s]] \subseteq u[n] /\ n \notin u[t.kid[n][s]]
         /\ \A m \in u[t.kid[n][s]] : Before(rk, s, m, n)
         /\ t.kid[n][s] # Nil => /\ t.parent[t.kid[n][s]] = n
                                 /\ t.kid[n][s] \in L /\ Before(rk, s, t.kid[n][s], n)
                                 /\ t.kid[n][s] # t.root
                                 /\ t.kid[n][Other(s)] # t.kid[n][s]
<1>1. /\ t.kid[n][s] \in L \cup {Nil} /\ u[t.kid[n][s]] \subseteq u[n]
      /\ \A m \in u[t.kid[n][s]] : Before(rk, s, m, n)
  BY DEF Search, KidsOK
<1>2. n \notin u[t.kid[n][s]]
  BY <1>1, BeforeIs, NodeFacts
<1>3. t.kid[n][s] # n /\ t.kid[n][s] \in Nodes
  BY <1>1, <1>2, NodeFacts, Facts
<1>4. ASSUME t.kid[n][s] # Nil
      PROVE  /\ t.parent[t.kid[n][s]] = n /\ t.kid[n][s] \in L /\ Before(rk, s, t.kid[n][s], n)
             /\ t.kid[n][s] # t.root /\ t.kid[n][Other(s)] # t.kid[n][s]
  <2>1. t.parent[t.kid[n][s]] = n /\ t.kid[n][s] \in L
    BY <1>1, <1>4 DEF Search, ParentsOK
  <2>2. t.kid[n][s] \in u[t.kid[n][s]]
    BY <2>1, NodeFacts
  <2>3. t.kid[n][s] # t.root
    BY <2>1, NodeFacts
  <2>4. t.kid[n][Other(s)] # t.kid[n][s]
    <3>1. \A m \in u[t.kid[n][Other(s)]] : Before(rk, Other(s), m, n)
      BY SidesAre DEF Search, KidsOK
    <3>2. n \in Int /\ t.kid[n][s] \in Int
      BY <2>1, NodeFacts
    <3> QED BY <1>1, <2>2, <3>1, <3>2, BeforeIs
  <2> QED BY <1>1, <2>1, <2>2, <2>3, <2>4
<1> QED BY <1>1, <1>2, <1>3, <1>4

\* what points to a node from above
LEMMA Above ==
  ASSUME NEW rk \in Rankings, NEW t, NEW L, NEW u, Search(rk, t, L, u), NEW x \in L, x # t.root
  PROVE  /\ t.parent[x] \in L /\ SideOf(t, x) \in Sides /\ t.kid[t.parent[x]][SideOf(t, x)] = x
         /\ \A n \in L, s \in Sides : t.kid[n][s] = x => n = t.parent[x] /\ s = SideOf(t, x)
<1>1. t.parent[x] \in L /\ \E s \in Sides : t.kid[t.parent[x]][s] = x
  BY DEF Search, ParentsOK
<1>2. SideOf(t, x) \in Sides /\ t.kid[t.parent[x]][SideOf(t, x)] = x
  BY <1>1 DEF SideOf, Sides
<1>3. ASSUME NEW n \in L, NEW s \in Sides, t.kid[n][s] = x PROVE n = t.parent[x] /\ s = SideOf(t, x)
  <2>1. x # Nil
    BY Facts
  <2>2. n = t.parent[x] /\ t.kid[n][Other(s)] # x
    BY <1>3, <2>1, KidFacts
  <2> QED BY <1>2, <1>3, <2>2, SidesAre
<1> QED BY <1>1, <1>2, <1>3

-----------------------------------------------------------------------------
(* Assignments to the fields of a tree *)

\* An assignment to a child pointer gives a tree.
LEMMA SetKidType ==
  ASSUME NEW t \in Trees, NEW n \in Nodes, NEW s \in Sides, NEW m \in Nodes \cup {NULL}
  PROVE  SetKid(t, n, s, m) \in Trees
  BY DEF SetKid, Trees

\* what it changes
LEMMA SetKidIs ==
  ASSUME NEW t \in Trees, NEW n \in Nodes, NEW s \in Sides, NEW m \in Nodes \cup {NULL},
         NEW r, r = SetKid(t, n, s, m)
  PROVE  /\ r.root = t.root /\ r.parent = t.parent /\ r.color = t.color
         /\ \A k \in Nodes, d \in Sides :
              r.kid[k][d] = IF k = n /\ d = s THEN m ELSE t.kid[k][d]
  BY DEF SetKid, Trees

\* An assignment to a parent pointer gives a tree.
LEMMA SetParentType ==
  ASSUME NEW t \in Trees, NEW n \in Nodes, NEW m \in Nodes \cup {NULL}
  PROVE  SetParent(t, n, m) \in Trees
  BY DEF SetParent, Trees

\* what it changes
LEMMA SetParentIs ==
  ASSUME NEW t \in Trees, NEW n \in Nodes, NEW m \in Nodes \cup {NULL},
         NEW r, r = SetParent(t, n, m)
  PROVE  /\ r.root = t.root /\ r.kid = t.kid /\ r.color = t.color
         /\ \A k \in Nodes : r.parent[k] = IF k = n THEN m ELSE t.parent[k]
  BY DEF SetParent, Trees

\* An assignment to a color gives a tree.
LEMMA SetColorType ==
  ASSUME NEW t \in Trees, NEW n \in Nodes, NEW c \in {"red", "black"}
  PROVE  SetColor(t, n, c) \in Trees
  BY DEF SetColor, Trees

\* what it changes
LEMMA SetColorIs ==
  ASSUME NEW t \in Trees, NEW n \in Nodes, NEW c \in {"red", "black"},
         NEW r, r = SetColor(t, n, c)
  PROVE  /\ r.root = t.root /\ r.kid = t.kid /\ r.parent = t.parent
         /\ \A k \in Nodes : r.color[k] = IF k = n THEN c ELSE t.color[k]
  BY DEF SetColor, Trees

\* A node hangs on one of the two sides.
LEMMA SideOfType == ASSUME NEW t, NEW n PROVE SideOf(t, n) \in Sides
  BY DEF SideOf, Sides

\* Replace gives a tree.
LEMMA ReplaceType ==
  ASSUME NEW t \in Trees, NEW x \in Nodes, NEW y \in Nodes, t.parent[x] \in Nodes
  PROVE  Replace(t, x, y) \in Trees
<1>1. CASE t.parent[x] = Nil
  BY <1>1 DEF Replace, Trees
<1>2. CASE t.parent[x] # Nil
  BY <1>2, SetKidType, SideOfType DEF Replace
<1> QED BY <1>1, <1>2

\* y hangs where x did, or is the root
LEMMA ReplaceIs ==
  ASSUME NEW t \in Trees, NEW x \in Nodes, NEW y \in Nodes, t.parent[x] \in Nodes,
         NEW r, r = Replace(t, x, y)
  PROVE  /\ r.parent = t.parent /\ r.color = t.color
         /\ r.root = IF t.parent[x] = Nil THEN y ELSE t.root
         /\ \A k \in Nodes, d \in Sides :
              r.kid[k][d] = IF t.parent[x] # Nil /\ k = t.parent[x] /\ d = SideOf(t, x) THEN y
                            ELSE t.kid[k][d]
<1>1. CASE t.parent[x] = Nil
  BY <1>1 DEF Replace, Trees
<1>2. CASE t.parent[x] # Nil
  <2>1. r = SetKid(t, t.parent[x], SideOf(t, x), y)
    BY <1>2 DEF Replace
  <2> QED BY <1>2, <2>1, SideOfType, SetKidIs
<1> QED BY <1>1, <1>2

\* the fields of a tree after the assignments of a rotation
LEMMA TurnFields ==
  ASSUME NEW t \in Trees, NEW s \in Sides, NEW x \in Keys, NEW y \in Keys, NEW b \in Nodes,
         t.parent[x] \in Nodes, y # x, b # x,
         NEW r, r = Turn(t, s, x, y, b)
  PROVE  /\ r \in Trees /\ r.color = t.color
         /\ r.root = IF t.parent[x] = Nil THEN y ELSE t.root
         /\ \A n \in Nodes, d \in Sides :
              r.kid[n][d] = IF n = y /\ d = s THEN x
                            ELSE IF n = x /\ d = Other(s) THEN b
                            ELSE IF t.parent[x] # Nil /\ n = t.parent[x] /\ d = SideOf(t, x) THEN y
                            ELSE t.kid[n][d]
         /\ \A n \in Nodes :
              r.parent[n] = IF n = x THEN y ELSE IF n = y THEN t.parent[x]
                            ELSE IF n = b /\ b # Nil THEN x ELSE t.parent[n]
<1> DEFINE o == Other(s)
           t1 == IF b = Nil THEN t ELSE SetParent(t, b, x)
           q == Replace(t1, x, y)
           q1 == SetKid(q, x, o, b)
           q2 == SetKid(q1, y, s, x)
           q3 == SetParent(q2, y, t.parent[x])
<1>a. (b = Nil => t1 = t) /\ (b # Nil => t1 = SetParent(t, b, x))
  OBVIOUS
<1>b. q = Replace(t1, x, y)
  OBVIOUS
<1>c. q1 = SetKid(q, x, o, b)
  OBVIOUS
<1>d. q2 = SetKid(q1, y, s, x)
  OBVIOUS
<1>e. q3 = SetParent(q2, y, t.parent[x])
  OBVIOUS
<1>f. r = SetParent(q3, x, y)
  BY DEF Turn
<1> HIDE DEF t1, q, q1, q2, q3
<1>1. x \in Nodes /\ y \in Nodes /\ o \in Sides
  BY SidesAre DEF Nodes
<1>2. t1 \in Trees
  BY <1>a, <1>1, SetParentType
<1>3. /\ t1.color = t.color /\ t1.root = t.root /\ t1.kid = t.kid
      /\ \A n \in Nodes : t1.parent[n] = IF n = b /\ b # Nil THEN x ELSE t.parent[n]
  <2>1. CASE b = Nil
    BY <1>a, <2>1
  <2>2. CASE b # Nil
    <3>1. t1 = SetParent(t, b, x)
      BY <1>a, <2>2
    <3> QED BY <1>1, <2>2, <3>1, SetParentIs
  <2> QED BY <2>1, <2>2
<1>4. t1.parent[x] = t.parent[x] /\ SideOf(t1, x) = SideOf(t, x)
  BY <1>1, <1>3 DEF SideOf
<1>5. q \in Trees
  BY <1>b, <1>1, <1>2, <1>4, ReplaceType
<1>6. /\ q.color = t.color /\ q.parent = t1.parent
      /\ q.root = IF t.parent[x] = Nil THEN y ELSE t.root
      /\ \A n \in Nodes, d \in Sides :
           q.kid[n][d] = IF t.parent[x] # Nil /\ n = t.parent[x] /\ d = SideOf(t, x) THEN y
                         ELSE t.kid[n][d]
  BY SMTT(30), <1>b, <1>1, <1>2, <1>3, <1>4, ReplaceIs
<1>7. q1 \in Trees
  BY <1>c, <1>1, <1>5, SetKidType
<1>8. /\ q1.color = q.color /\ q1.parent = q.parent /\ q1.root = q.root
      /\ \A n \in Nodes, d \in Sides :
           q1.kid[n][d] = IF n = x /\ d = o THEN b ELSE q.kid[n][d]
  BY SMTT(30), <1>c, <1>1, <1>5, SetKidIs
<1>9. q2 \in Trees
  BY <1>d, <1>1, <1>7, SetKidType
<1>10. /\ q2.color = q.color /\ q2.parent = q.parent /\ q2.root = q.root
       /\ \A n \in Nodes, d \in Sides :
            q2.kid[n][d] = IF n = y /\ d = s THEN x ELSE q1.kid[n][d]
  BY SMTT(30), <1>d, <1>1, <1>7, <1>8, SetKidIs
<1>11. q3 \in Trees
  BY <1>e, <1>1, <1>9, SetParentType
<1>12. /\ q3.color = q.color /\ q3.root = q.root /\ q3.kid = q2.kid
       /\ \A n \in Nodes : q3.parent[n] = IF n = y THEN t.parent[x] ELSE q.parent[n]
  BY <1>e, <1>1, <1>9, <1>10, SetParentIs
<1>13. r \in Trees
  BY <1>f, <1>1, <1>11, SetParentType
<1>14. /\ r.color = q.color /\ r.root = q.root /\ r.kid = q2.kid
       /\ \A n \in Nodes : r.parent[n] = IF n = x THEN y ELSE q3.parent[n]
  BY <1>f, <1>1, <1>11, <1>12, SetParentIs
<1>15. \A n \in Nodes, d \in Sides :
        r.kid[n][d] = IF n = y /\ d = s THEN x
                      ELSE IF n = x /\ d = o THEN b
                      ELSE IF t.parent[x] # Nil /\ n = t.parent[x] /\ d = SideOf(t, x) THEN y
                      ELSE t.kid[n][d]
  BY <1>6, <1>8, <1>10, <1>14
<1>16. \A n \in Nodes :
         r.parent[n] = IF n = x THEN y ELSE IF n = y THEN t.parent[x]
                       ELSE IF n = b /\ b # Nil THEN x ELSE t.parent[n]
  BY <1>3, <1>6, <1>12, <1>14
<1> QED BY <1>6, <1>13, <1>14, <1>15, <1>16

-----------------------------------------------------------------------------
(* Rotations *)

\* the subtrees after y has come up from below x
Turned(t, u, s, x) ==
  [u EXCEPT ![x] = {x} \cup u[t.kid[x][s]] \cup u[t.kid[t.kid[x][Other(s)]][s]],
            ![t.kid[x][Other(s)]] = u[x]]

\* the fields of a tree after a rotation of x and its child
LEMMA RotateFields ==
  ASSUME NEW rk \in Rankings, NEW t, NEW L, NEW u, Search(rk, t, L, u), NEW s \in Sides, NEW x \in L,
         t.kid[x][Other(s)] # Nil, NEW r, r = Rotate(t, s, x)
  PROVE  \E y \in L, b \in L \cup {Nil} :
         /\ y = t.kid[x][Other(s)] /\ b = t.kid[y][s] /\ y # x /\ b # x /\ b # y
         /\ r \in Trees /\ r.color = t.color
         /\ r.root = IF x = t.root THEN y ELSE t.root
         /\ \A n \in Nodes, d \in Sides :
              r.kid[n][d] = IF n = y /\ d = s THEN x
                            ELSE IF n = x /\ d = Other(s) THEN b
                            ELSE IF x # t.root /\ n = t.parent[x] /\ d = SideOf(t, x) THEN y
                            ELSE t.kid[n][d]
         /\ \A n \in Nodes :
              r.parent[n] = IF n = x THEN y ELSE IF n = y THEN t.parent[x]
                            ELSE IF n = b /\ b # Nil THEN x ELSE t.parent[n]
<1> DEFINE y == t.kid[x][Other(s)]
           b == t.kid[y][s]
<1>1. y \in L /\ y # x /\ t.parent[y] = x /\ Before(rk, Other(s), y, x)
  BY KidFacts, SidesAre
<1>2. b \in L \cup {Nil} /\ b # y /\ b \in Nodes
  BY <1>1, KidFacts
<1>3. b # x
  <2> SUFFICES ASSUME b = x PROVE FALSE
    OBVIOUS
  <2>1. Before(rk, s, x, y) /\ Before(rk, Other(s), y, x) /\ x \in u[b] /\ b # Nil
    BY <1>1, KidFacts, NodeFacts
  <2>2. u[b] \subseteq u[y] /\ u[y] \subseteq u[x] /\ x \notin u[y]
    BY <1>1, KidFacts, SidesAre
  <2> QED BY <2>1, <2>2
<1>4. t.parent[x] \in Nodes /\ x \in Keys /\ y \in Keys /\ (t.parent[x] = Nil <=> x = t.root)
  BY <1>1, Facts, NodeFacts
<1>5. r = Turn(t, s, x, y, b)
  BY DEF Rotate
<1>6. t \in Trees
  BY Facts
<1> HIDE DEF y, b
<1>7. /\ r \in Trees /\ r.color = t.color
      /\ r.root = IF t.parent[x] = Nil THEN y ELSE t.root
      /\ \A n \in Nodes, d \in Sides :
           r.kid[n][d] = IF n = y /\ d = s THEN x
                         ELSE IF n = x /\ d = Other(s) THEN b
                         ELSE IF t.parent[x] # Nil /\ n = t.parent[x] /\ d = SideOf(t, x) THEN y
                         ELSE t.kid[n][d]
      /\ \A n \in Nodes :
           r.parent[n] = IF n = x THEN y ELSE IF n = y THEN t.parent[x]
                         ELSE IF n = b /\ b # Nil THEN x ELSE t.parent[n]
  BY <1>1, <1>2, <1>3, <1>4, <1>5, <1>6, TurnFields
<1>8. y = t.kid[x][Other(s)] /\ b = t.kid[y][s]
  BY DEF y, b
<1> QED BY SMTT(30), <1>1, <1>2, <1>3, <1>4, <1>7, <1>8

\* The nodes around a rotation, before and after it.
Rotated(t, L, u, s, x, y, b, r, v) ==
  LET o == Other(s) IN
  /\ y \in L /\ b \in L \cup {Nil} /\ y = t.kid[x][o] /\ b = t.kid[y][s]
  /\ y # x /\ b # x /\ b # y /\ x \notin u[y] /\ y # t.root
  /\ r \in Trees /\ r.color = t.color /\ r.root = IF x = t.root THEN y ELSE t.root
  /\ \A n \in Nodes : r.parent[n] = IF n = x THEN y ELSE IF n = y THEN t.parent[x]
                                     ELSE IF n = b /\ b # Nil THEN x ELSE t.parent[n]
  /\ r.kid[x][s] = t.kid[x][s] /\ r.kid[x][o] = b /\ r.kid[y][s] = x /\ r.kid[y][o] = t.kid[y][o]
  /\ \A n \in L, d \in Sides : n # x /\ n # y =>
       \/ /\ x # t.root /\ n = t.parent[x] /\ d = SideOf(t, x)
          /\ t.kid[n][d] = x /\ r.kid[n][d] = y
       \/ r.kid[n][d] = t.kid[n][d] /\ t.kid[n][d] # x /\ t.kid[n][d] # y
  /\ \A n \in Nodes \ L, d \in Sides : r.kid[n][d] = t.kid[n][d]
  /\ t.kid[x][s] # x /\ t.kid[x][s] # y /\ t.kid[y][o] # x /\ t.kid[y][o] # y
  /\ t.parent[x] # x /\ t.parent[x] # y
  /\ v \in [Nodes -> SUBSET L]
  /\ v[x] = {x} \cup u[t.kid[x][s]] \cup u[b] /\ v[y] = u[x]
  /\ \A n \in Nodes : n # x /\ n # y => v[n] = u[n]

\* the children, the parents and the subtrees after a rotation
LEMMA RotateKids ==
  ASSUME NEW rk \in Rankings, NEW t, NEW L, NEW u, Search(rk, t, L, u), NEW s \in Sides, NEW x \in L,
         t.kid[x][Other(s)] # Nil
  PROVE  \E y, b : Rotated(t, L, u, s, x, y, b, Rotate(t, s, x), Turned(t, u, s, x))
<1> DEFINE r == Rotate(t, s, x)
           v == Turned(t, u, s, x)
           o == Other(s)
<1>0. s \in Sides /\ o \in Sides /\ o # s /\ Other(o) = s /\ \A d \in Sides : d = s \/ d = o
  BY SidesAre
<1>1. PICK y \in L, b \in L \cup {Nil} :
         /\ y = t.kid[x][o] /\ b = t.kid[y][s] /\ y # x /\ b # x /\ b # y
         /\ r \in Trees /\ r.color = t.color
         /\ r.root = IF x = t.root THEN y ELSE t.root
         /\ \A n \in Nodes, d \in Sides :
              r.kid[n][d] = IF n = y /\ d = s THEN x
                            ELSE IF n = x /\ d = o THEN b
                            ELSE IF x # t.root /\ n = t.parent[x] /\ d = SideOf(t, x) THEN y
                            ELSE t.kid[n][d]
         /\ \A n \in Nodes :
              r.parent[n] = IF n = x THEN y ELSE IF n = y THEN t.parent[x]
                            ELSE IF n = b /\ b # Nil THEN x ELSE t.parent[n]
  BY RotateFields
<1> HIDE DEF r
<1>2. /\ v \in [Nodes -> SUBSET L]
      /\ v[x] = {x} \cup u[t.kid[x][s]] \cup u[b] /\ v[y] = u[x]
      /\ \A n \in Nodes : n # x /\ n # y => v[n] = u[n]
  <2> DEFINE w == {x} \cup u[t.kid[x][s]] \cup u[t.kid[t.kid[x][Other(s)]][s]]
  <2>1. v = [u EXCEPT ![x] = w, ![t.kid[x][o]] = u[x]]
    BY DEF Turned
  <2>3. w = {x} \cup u[t.kid[x][s]] \cup u[b] /\ t.kid[x][o] = y
    BY <1>1
  <2>2. w \in SUBSET L /\ u[x] \in SUBSET L
    <3>1. t.kid[x][s] \in Nodes /\ b \in Nodes /\ x \in Nodes
      BY KidFacts, Facts
    <3>2. u[t.kid[x][s]] \subseteq L /\ u[b] \subseteq L /\ u[x] \subseteq L
      BY <3>1, Facts
    <3> QED BY <2>3, <3>2
  <2> HIDE DEF w, v
  <2>4. v = [u EXCEPT ![x] = w, ![y] = u[x]]
    BY <2>1, <2>3
  <2>5. u \in [Nodes -> SUBSET L] /\ x \in Nodes /\ y \in Nodes /\ y # x
    BY <1>1, Facts
  <2>6. v \in [Nodes -> SUBSET L]
    BY <2>2, <2>4, <2>5
  <2>7. v[x] = w /\ v[y] = u[x] /\ \A n \in Nodes : n # x /\ n # y => v[n] = u[n]
    BY <2>4, <2>5
  <2> QED BY <2>3, <2>6, <2>7
<1> HIDE DEF v
\* the nodes around
<1>3. /\ x \in Nodes /\ y \in Nodes /\ x \in Int /\ y \in Int /\ x # Nil /\ y # Nil
      /\ Before(rk, o, y, x) /\ t.parent[y] = x
      /\ u[y] \subseteq u[x] /\ x \notin u[y] /\ x \in u[x] /\ y \in u[y] /\ y # t.root
  BY <1>0, <1>1, KidFacts, NodeFacts
<1>4. \A n \in L, d \in Sides : t.kid[n][d] = y => n = x /\ d = o
  BY <1>0, <1>1, <1>3, Above
<1>5. \A n \in L, d \in Sides : t.kid[n][d] = x => x # t.root /\ n = t.parent[x] /\ d = SideOf(t, x)
  BY <1>3, Above, KidFacts
<1>6. t.parent[x] # x /\ t.parent[x] # y
  <2>1. CASE x = t.root
    BY <2>1, <1>3, NodeFacts
  <2>2. CASE x # t.root
    <3>1. /\ t.parent[x] \in L /\ SideOf(t, x) \in Sides
          /\ t.kid[t.parent[x]][SideOf(t, x)] = x
      BY <2>2, Above
    <3>2. x \in u[t.parent[x]] /\ t.parent[x] # x
      BY <1>3, <3>1, KidFacts
    <3> QED BY <1>3, <3>1, <3>2
  <2> QED BY <2>1, <2>2
\* the children of each node
<1>7. r.kid[x][s] = t.kid[x][s] /\ r.kid[x][o] = b /\ r.kid[y][s] = x /\ r.kid[y][o] = t.kid[y][o]
  BY <1>0, <1>1, <1>3, <1>6
<1>8. \A n \in L, d \in Sides : n # x /\ n # y =>
        \/ /\ x # t.root /\ n = t.parent[x] /\ d = SideOf(t, x)
           /\ t.kid[n][d] = x /\ r.kid[n][d] = y
        \/ r.kid[n][d] = t.kid[n][d] /\ t.kid[n][d] # x /\ t.kid[n][d] # y
  BY <1>1, <1>4, <1>5, Facts, Above
<1>9. /\ t.kid[x][s] # x /\ t.kid[x][s] # y /\ t.kid[y][o] # x /\ t.kid[y][o] # y
      /\ t.kid[x][s] \in L \cup {Nil} /\ t.kid[y][o] \in L \cup {Nil}
  <2>1. /\ t.kid[x][s] \in L \cup {Nil} /\ t.kid[y][o] \in L \cup {Nil}
        /\ t.kid[x][s] # x /\ t.kid[y][o] # y
    BY <1>0, KidFacts
  <2>2. t.kid[x][s] # y
    BY <1>0, <1>4
  <2>3. t.kid[y][o] # x
    BY <1>0, <1>5, <1>6
  <2> QED BY <2>1, <2>2, <2>3
<1>10. \A n \in Nodes \ L, d \in Sides : r.kid[n][d] = t.kid[n][d]
  <2>1. x # t.root => t.parent[x] \in L
    BY Above
  <2> QED BY <1>1, <2>1
<1>11. Rotated(t, L, u, s, x, y, b, r, v)
  BY Zenon, <1>1, <1>2, <1>3, <1>6, <1>7, <1>8, <1>9, <1>10 DEF Rotated
<1> QED BY <1>11 DEF r, v

\* the parts of a certificate
LEMMA SearchIs ==
  ASSUME NEW rk \in Rankings, NEW r, NEW L, NEW v,
         r \in Trees, L \subseteq Keys, r.root \in L \cup {Nil},
         v \in [Nodes -> SUBSET L], v[Nil] = {}, v[r.root] = L,
         KidsOK(rk, r, L, v), ParentsOK(r, L), Enclosed(r, L, v),
         \A k \in Keys \ L : r.parent[k] = NULL /\ \A d \in Sides : r.kid[k][d] = NULL
  PROVE  Search(rk, r, L, v)
  BY DEF Search

\* A rotation keeps the keys of the tree, the search order and the parents.
THEOREM RotateSearch ==
  ASSUME NEW rk \in Rankings, NEW t, NEW L, NEW u, Search(rk, t, L, u), NEW s \in Sides, NEW x \in L,
         t.kid[x][Other(s)] # Nil
  PROVE  Search(rk, Rotate(t, s, x), L, Turned(t, u, s, x))
<1> DEFINE r == Rotate(t, s, x)
           v == Turned(t, u, s, x)
           o == Other(s)
<1>0. s \in Sides /\ o \in Sides /\ o # s /\ Other(o) = s /\ \A d \in Sides : d = s \/ d = o
  BY SidesAre
<1>a. PICK y, b : Rotated(t, L, u, s, x, y, b, r, v)
  BY RotateKids
<1> HIDE DEF r, v
<1>y. y \in L /\ b \in L \cup {Nil}
  BY Zenon, <1>a DEF Rotated
<1>1. /\ y \in L /\ b \in L \cup {Nil} /\ y = t.kid[x][o] /\ b = t.kid[y][s] /\ y # x /\ b # x /\ b # y
      /\ r \in Trees /\ r.root = IF x = t.root THEN y ELSE t.root
      /\ \A n \in Nodes : r.parent[n] = IF n = x THEN y ELSE IF n = y THEN t.parent[x]
                                         ELSE IF n = b /\ b # Nil THEN x ELSE t.parent[n]
  BY Zenon, <1>a DEF Rotated
<1>2. /\ v \in [Nodes -> SUBSET L]
      /\ v[x] = {x} \cup u[t.kid[x][s]] \cup u[b] /\ v[y] = u[x]
      /\ \A n \in Nodes : n # x /\ n # y => v[n] = u[n]
  BY Zenon, <1>a DEF Rotated
<1>3. /\ x \in Nodes /\ y \in Nodes /\ x \in Int /\ y \in Int /\ x # Nil /\ y # Nil
      /\ Before(rk, o, y, x) /\ t.parent[y] = x
      /\ u[y] \subseteq u[x] /\ x \notin u[y] /\ x \in u[x] /\ y \in u[y] /\ y # t.root
  BY <1>0, <1>1, KidFacts, NodeFacts
<1>6. t.parent[x] # x /\ t.parent[x] # y
  BY Zenon, <1>a DEF Rotated
<1>7. r.kid[x][s] = t.kid[x][s] /\ r.kid[x][o] = b /\ r.kid[y][s] = x /\ r.kid[y][o] = t.kid[y][o]
  BY Zenon, <1>a DEF Rotated
<1>8. \A n \in L, d \in Sides : n # x /\ n # y =>
        \/ x # t.root /\ n = t.parent[x] /\ d = SideOf(t, x) /\ t.kid[n][d] = x /\ r.kid[n][d] = y
        \/ r.kid[n][d] = t.kid[n][d] /\ t.kid[n][d] # x /\ t.kid[n][d] # y
  BY ZenonT(40), <1>a DEF Rotated
<1>9. /\ t.kid[x][s] # x /\ t.kid[x][s] # y /\ t.kid[y][o] # x /\ t.kid[y][o] # y
      /\ t.kid[x][s] \in L \cup {Nil} /\ t.kid[y][o] \in L \cup {Nil}
  <2>1. t.kid[x][s] \in L \cup {Nil} /\ t.kid[y][o] \in L \cup {Nil}
    BY <1>0, <1>y, KidFacts
  <2> QED BY Zenon, <1>a, <2>1 DEF Rotated
<1>10. v[t.kid[x][s]] = u[t.kid[x][s]] /\ v[b] = u[b] /\ v[t.kid[y][o]] = u[t.kid[y][o]]
  <2>1. t.kid[x][s] \in Nodes /\ b \in Nodes /\ t.kid[y][o] \in Nodes
    BY <1>0, <1>y, KidFacts, Facts
  <2>2. b # x /\ b # y
    BY <1>1
  <2> QED BY <1>2, <1>9, <2>1, <2>2
<1>11. /\ \A m \in u[t.kid[x][s]] : m \in Int /\ Before(rk, s, m, x)
       /\ \A m \in u[b] : m \in Int /\ Before(rk, s, m, y) /\ Before(rk, o, m, x) /\ m \in u[y]
       /\ \A m \in u[t.kid[y][o]] : m \in Int /\ Before(rk, o, m, y) /\ m \in u[y]
       /\ \A m \in u[y] : m = y \/ m \in u[b] \/ m \in u[t.kid[y][o]]
       /\ \A m \in u[x] : m = x \/ m \in u[t.kid[x][s]] \/ m \in u[y]
  <2>1. /\ \A m \in u[t.kid[x][s]] : Before(rk, s, m, x)
        /\ \A m \in u[y] : Before(rk, o, m, x)
        /\ \A m \in u[x] : m = x \/ m \in u[t.kid[x][s]] \/ m \in u[y]
    BY <1>0, <1>1, KidFacts, NodeFacts
  <2>2. /\ \A m \in u[b] : Before(rk, s, m, y) /\ m \in u[y]
        /\ \A m \in u[t.kid[y][o]] : Before(rk, o, m, y) /\ m \in u[y]
        /\ \A m \in u[y] : m = y \/ m \in u[b] \/ m \in u[t.kid[y][o]]
    <3>1. t.kid[y][s] = b
      BY <1>1
    <3>2. /\ \A m \in u[t.kid[y][s]] : Before(rk, s, m, y) /\ m \in u[y]
          /\ \A m \in u[t.kid[y][o]] : Before(rk, o, m, y) /\ m \in u[y]
      BY <1>0, <1>y, KidFacts
    <3>3. \A m \in u[y] : m = y \/ m \in u[t.kid[y][s]] \/ m \in u[t.kid[y][o]]
      BY <1>0, <1>y, NodeFacts
    <3> QED BY <3>1, <3>2, <3>3
  <2>3. u[t.kid[x][s]] \subseteq Int /\ u[b] \subseteq Int /\ u[t.kid[y][o]] \subseteq Int
    <3>1. t.kid[x][s] \in Nodes /\ b \in Nodes /\ t.kid[y][o] \in Nodes
      BY <1>0, <1>y, KidFacts, Facts
    <3>2. \A n \in Nodes : u[n] \subseteq Int
      BY Facts
    <3> QED BY <3>1, <3>2
  <2> QED BY <2>1, <2>2, <2>3
<1>12. KidsOK(rk, r, L, v)
  <2> SUFFICES ASSUME NEW n \in L
               PROVE  /\ n \in v[n] /\ v[n] \subseteq L
                      /\ \A d \in Sides : /\ r.kid[n][d] \in L \cup {Nil}
                                          /\ v[r.kid[n][d]] \subseteq v[n]
                                          /\ \A m \in v[r.kid[n][d]] : Before(rk, d, m, n)
                      /\ \A m \in v[n] : m = n \/ \E d \in Sides : m \in v[r.kid[n][d]]
    BY DEF KidsOK
  <2>1. CASE n = x
    <3>1. /\ r.kid[x][s] \in L \cup {Nil} /\ r.kid[x][o] \in L \cup {Nil}
          /\ v[r.kid[x][s]] = u[t.kid[x][s]] /\ v[r.kid[x][o]] = u[b]
      BY Zenon, <1>1, <1>7, <1>9, <1>10
    <3> QED BY <1>0, <1>2, <1>11, <2>1, <3>1, Facts
  <2>2. CASE n = y
    <3>1. /\ r.kid[y][s] \in L \cup {Nil} /\ r.kid[y][o] \in L \cup {Nil}
          /\ v[r.kid[y][s]] = {x} \cup u[t.kid[x][s]] \cup u[b] /\ v[r.kid[y][o]] = u[t.kid[y][o]]
      BY <1>2, <1>7, <1>9, <1>10
    <3>2. v[y] = u[x] /\ y \in u[x] /\ u[x] \subseteq L
      BY <1>2, <1>3, Facts
    <3>3. /\ u[t.kid[x][s]] \subseteq u[x] /\ u[t.kid[y][o]] \subseteq u[x]
          /\ u[b] \subseteq u[x]
      BY <1>0, <1>3, <1>11, KidFacts
    <3>4. \A m \in v[r.kid[y][s]] : Before(rk, s, m, y)
      <4>1. Before(rk, s, x, y)
        BY <1>3, BeforeIs
      <4>2. \A m \in u[t.kid[x][s]] : Before(rk, s, m, y)
        BY <1>3, <1>11, <4>1, BeforeIs
      <4> QED BY <1>11, <3>1, <4>1, <4>2
    <3>5. \A m \in v[r.kid[y][o]] : Before(rk, o, m, y)
      BY <1>11, <3>1
    <3>6. \A m \in v[y] : m = y \/ m \in v[r.kid[y][s]] \/ m \in v[r.kid[y][o]]
      BY <1>11, <3>1, <3>2
    <3> QED BY <1>0, <1>3, <2>2, <3>1, <3>2, <3>3, <3>4, <3>5, <3>6
  <2>3. CASE n # x /\ n # y
    <3>1. v[n] = u[n] /\ n \in u[n] /\ u[n] \subseteq L
      BY <1>2, <2>3, Facts, NodeFacts
    <3>2. ASSUME NEW d \in Sides
          PROVE  /\ r.kid[n][d] \in L \cup {Nil} /\ v[r.kid[n][d]] = u[t.kid[n][d]]
      <4>1. CASE t.kid[n][d] = x /\ r.kid[n][d] = y
        BY <1>1, <1>2, <4>1
      <4>2. CASE r.kid[n][d] = t.kid[n][d] /\ t.kid[n][d] # x /\ t.kid[n][d] # y
        BY <1>2, <4>2, KidFacts
      <4> QED BY <1>8, <2>3, <4>1, <4>2
    <3>3. ASSUME NEW d \in Sides
          PROVE  /\ r.kid[n][d] \in L \cup {Nil}
                 /\ v[r.kid[n][d]] \subseteq v[n]
                 /\ \A m \in v[r.kid[n][d]] : Before(rk, d, m, n)
      BY <3>1, <3>2, KidFacts
    <3>4. \A m \in v[n] : m = n \/ \E d \in Sides : m \in v[r.kid[n][d]]
      BY <3>1, <3>2, NodeFacts
    <3> QED BY <3>1, <3>3, <3>4
  <2> QED BY <2>1, <2>2, <2>3
\* the parents
<1>13. ParentsOK(r, L)
  <2>1. r.root # Nil => r.parent[r.root] = Nil
    <3>1. CASE x = t.root
      <4>1. r.root = y /\ r.parent[y] = t.parent[x]
        BY Zenon, <1>1, <1>3, <3>1
      <4> QED BY <3>1, <4>1, NodeFacts
    <3>2. CASE x # t.root
      <4>1. r.root = t.root /\ t.root # Nil /\ t.root \in L /\ t.parent[t.root] = Nil
        BY <1>1, <3>2, Facts, NodeFacts
      <4>2. t.root # b
        <5>1. t.kid[y][s] = b
          BY <1>1
        <5> QED BY <1>y, <4>1, <5>1, KidFacts
      <4> QED BY <1>1, <1>3, <3>2, <4>1, <4>2, Facts
    <3> QED BY <3>1, <3>2
  <2>2. ASSUME NEW n \in L, NEW d \in Sides, r.kid[n][d] # Nil PROVE r.parent[r.kid[n][d]] = n
    <3>1. CASE n = x
      <4>1. CASE d = s
        <5>1. t.kid[x][s] \in L /\ t.parent[t.kid[x][s]] = x /\ t.kid[x][s] # b
          <6>1. t.kid[x][s] \in L /\ t.parent[t.kid[x][s]] = x
            BY <1>7, <2>2, <3>1, <4>1, KidFacts
          <6>2. b # Nil => t.parent[b] = y
            BY <1>1, KidFacts
          <6> QED BY <1>1, <6>1, <6>2, Facts
        <5>2. t.kid[x][s] \in Nodes
          BY <5>1, Facts
        <5>3. r.parent[t.kid[x][s]] = t.parent[t.kid[x][s]]
          BY <1>1, <1>9, <5>1, <5>2
        <5> QED BY <1>7, <3>1, <4>1, <5>1, <5>3
      <4>2. CASE d = o
        BY <1>1, <1>7, <2>2, <3>1, <4>2, Facts
      <4> QED BY <1>0, <4>1, <4>2
    <3>2. CASE n = y
      <4>1. CASE d = s
        BY <1>1, <1>3, <1>7, <3>2, <4>1
      <4>2. CASE d = o
        <5>1. t.kid[y][o] # Nil
          BY <1>7, <2>2, <3>2, <4>2
        <5>2. t.kid[y][o] \in L /\ t.parent[t.kid[y][o]] = y /\ t.kid[y][Other(o)] # t.kid[y][o]
          BY <1>0, <1>y, <5>1, KidFacts
        <5>3. t.kid[y][o] \in Nodes /\ t.kid[y][o] # b
          <6>1. t.kid[y][Other(o)] = b
            BY <1>0, <1>1
          <6> QED BY <5>2, <6>1, Facts
        <5>4. r.parent[t.kid[y][o]] = t.parent[t.kid[y][o]]
          BY <1>1, <1>9, <5>3
        <5> QED BY <1>7, <3>2, <4>2, <5>2, <5>4
      <4> QED BY <1>0, <4>1, <4>2
    <3>3. CASE n # x /\ n # y
      <4>1. CASE x # t.root /\ n = t.parent[x] /\ d = SideOf(t, x) /\ r.kid[n][d] = y
        BY <1>1, <1>3, <4>1
      <4>2. CASE r.kid[n][d] = t.kid[n][d] /\ t.kid[n][d] # x /\ t.kid[n][d] # y
        <5>1. t.kid[n][d] \in L /\ t.parent[t.kid[n][d]] = n
          BY <2>2, <4>2, KidFacts
        <5>2. t.kid[n][d] # b
          BY <1>0, <1>1, <3>3, <5>1, KidFacts, Facts
        <5> QED BY <1>1, <4>2, <5>1, <5>2, Facts
      <4> QED BY <1>8, <3>3, <4>1, <4>2
    <3> QED BY <3>1, <3>2, <3>3
  <2>3. ASSUME NEW n \in L \ {r.root}
        PROVE  r.parent[n] \in L /\ \E d \in Sides : r.kid[r.parent[n]][d] = n
    <3>1. CASE n = x
      BY <1>0, <1>1, <1>3, <1>7, <3>1
    <3>2. CASE n = y
      <4>1. x # t.root
        BY <1>1, <2>3, <3>2
      <4>2. t.parent[x] \in L /\ SideOf(t, x) \in Sides
        BY <4>1, Above
      <4>3. r.kid[t.parent[x]][SideOf(t, x)] = y
        <5>1. t.kid[t.parent[x]][SideOf(t, x)] = x
          BY <4>1, Above
        <5> QED BY <1>6, <1>8, <4>2, <5>1
      <4> QED BY Zenon, <1>1, <1>3, <3>2, <4>2, <4>3
    <3>3. CASE n = b
      <4>1. b # Nil /\ b # x /\ b # y /\ b \in Nodes
        BY <1>1, <3>3, Facts
      <4>2. r.parent[b] = x
        BY <1>1, <4>1
      <4> QED BY <1>0, <1>7, <3>3, <4>2
    <3>4. CASE n # x /\ n # y /\ n # b
      <4>1. n # t.root
        BY <1>1, <2>3, <3>4
      <4>2. /\ t.parent[n] \in L /\ SideOf(t, n) \in Sides
            /\ t.kid[t.parent[n]][SideOf(t, n)] = n /\ r.parent[n] = t.parent[n]
        BY <1>1, <3>4, <4>1, Above, Facts
      <4>3. r.kid[t.parent[n]][SideOf(t, n)] = n
        <5>1. CASE t.parent[n] = x
          BY <1>0, <1>1, <1>7, <3>4, <4>2, <5>1
        <5>2. CASE t.parent[n] = y
          BY <1>0, <1>1, <1>7, <3>4, <4>2, <5>2
        <5>3. CASE t.parent[n] # x /\ t.parent[n] # y
          BY <1>8, <3>4, <4>2, <5>3, Above
        <5> QED BY <5>1, <5>2, <5>3
      <4> QED BY <4>2, <4>3
    <3> QED BY <3>1, <3>2, <3>3, <3>4
  <2> QED BY <2>1, <2>2, <2>3 DEF ParentsOK
<1>14. \A k \in Keys \ L : r.parent[k] = NULL /\ \A d \in Sides : r.kid[k][d] = NULL
  <2>1. \A n \in Nodes \ L, d \in Sides : r.kid[n][d] = t.kid[n][d]
    BY Zenon, <1>a DEF Rotated
  <2>2. \A n \in Nodes \ L : n # Nil => r.parent[n] = t.parent[n]
    BY <1>y, <1>1
  <2>3. \A k \in Keys \ L : t.parent[k] = NULL /\ \A d \in Sides : t.kid[k][d] = NULL
    BY DEF Search
  <2> QED BY <2>1, <2>2, <2>3, Facts
<1>15. r.root \in L \cup {Nil} /\ v[Nil] = {} /\ v[r.root] = L
  <2>1. v[Nil] = {}
    BY <1>y, <1>2, <1>3, Facts
  <2>2. CASE x = t.root
    BY Zenon, <1>1, <1>2, <2>1, <2>2, Facts
  <2>3. CASE x # t.root
    <3>1. r.root = t.root /\ t.root \in Nodes /\ u[t.root] = L /\ t.root \in L \cup {Nil}
      BY <1>1, <2>3, Facts
    <3>2. v[t.root] = u[t.root]
      BY <1>2, <1>3, <2>3, <3>1
    <3> QED BY <2>1, <3>1, <3>2
  <2> QED BY <2>1, <2>2, <2>3
\* the nesting
<1>16. Enclosed(r, L, v)
  <2>0. \A n \in L : \A m \in u[n] : u[m] \subseteq u[n] /\ (m # n => t.parent[m] \in u[n])
    BY DEF Search, Enclosed
  <2>1. u[t.kid[x][s]] \subseteq L /\ u[b] \subseteq L /\ u[x] \subseteq L /\ u[y] \subseteq L
    BY <1>y, <1>9, Facts
  <2>2. y \notin u[b] /\ y \notin u[t.kid[x][s]] /\ x \notin u[b] /\ x \notin u[t.kid[x][s]]
    BY <1>0, <1>3, <1>11, BeforeIs
  <2>3. u[b] \subseteq u[x] /\ u[t.kid[x][s]] \subseteq u[x] /\ v[x] \subseteq u[x]
    BY <1>0, <1>2, <1>3, <1>11, KidFacts
  <2>4. b # Nil => b \in L /\ b \in u[b] /\ t.parent[b] = y /\ b \notin u[t.kid[x][s]]
    <3> SUFFICES ASSUME b # Nil PROVE b \in L /\ b \in u[b] /\ t.parent[b] = y /\ b \notin u[t.kid[x][s]]
      OBVIOUS
    <3>1. b \in L /\ b \in u[b]
      BY <1>y, NodeFacts
    <3>2. t.parent[b] = y
      BY <1>0, <1>1, <1>y, KidFacts
    <3>3. b \notin u[t.kid[x][s]]
      BY <1>0, <1>3, <1>11, <3>1, BeforeIs
    <3> QED BY <3>1, <3>2, <3>3
  <2>5. \A m \in L : m # x /\ m # y => v[m] = u[m] /\ (m = b \/ r.parent[m] = t.parent[m])
    BY <1>1, <1>2, Facts
  <2>6. r.parent[x] = y /\ r.parent[y] = t.parent[x] /\ (b # Nil => r.parent[b] = x)
    BY <1>1, <1>3, Facts
  <2> SUFFICES ASSUME NEW n \in L, NEW m \in v[n]
               PROVE  v[m] \subseteq v[n] /\ (m # n => r.parent[m] \in v[n])
    BY DEF Enclosed
  <2>7. m \in L
    BY <1>2, Facts
  <2>8. CASE n # x /\ n # y
    <3>1. v[n] = u[n] /\ m \in u[n]
      BY <2>5, <2>8
    <3>2. y \in u[n] => x \in u[n]
      BY <1>3, <2>0, <2>8
    <3>3. x \in u[n] => u[x] \subseteq u[n] /\ y \in u[n] /\ t.parent[x] \in u[n]
      BY <1>3, <2>0, <2>8
    <3>4. CASE m = x
      BY <2>3, <2>6, <3>1, <3>3, <3>4
    <3>5. CASE m = y
      BY <1>2, <2>6, <3>1, <3>2, <3>3, <3>5
    <3>6. CASE m # x /\ m # y
      <4>1. v[m] \subseteq v[n]
        BY <2>0, <2>5, <2>7, <3>1, <3>6
      <4>2. CASE m = b
        <5>1. b # Nil
          BY <2>7, <4>2, Facts
        <5>2. m # n => y \in u[n]
          BY <2>0, <2>4, <3>1, <4>2, <5>1
        <5> QED BY <2>6, <3>1, <3>2, <4>1, <4>2, <5>1, <5>2
      <4>3. CASE m # b
        BY <2>0, <2>5, <2>7, <3>1, <3>6, <4>1, <4>3
      <4> QED BY <4>2, <4>3
    <3> QED BY <3>4, <3>5, <3>6
  <2>9. CASE n = y
    <3>1. v[n] = u[x] /\ m \in u[x]
      BY <1>2, <2>9
    <3>2. CASE m = x
      BY <1>3, <2>3, <2>6, <3>1, <3>2
    <3>3. CASE m = y
      BY <1>2, <2>9, <3>3
    <3>4. CASE m # x /\ m # y
      <4>1. v[m] \subseteq v[n]
        BY <2>0, <2>5, <2>7, <3>1, <3>4
      <4>2. CASE m = b
        BY <1>3, <2>6, <2>7, <3>1, <4>1, <4>2, Facts
      <4>3. CASE m # b
        BY <2>0, <2>5, <2>7, <3>1, <3>4, <4>1, <4>3
      <4> QED BY <4>2, <4>3
    <3> QED BY <3>2, <3>3, <3>4
  <2>10. CASE n = x
    <3>1. m = x \/ m \in u[t.kid[x][s]] \/ m \in u[b]
      BY <1>2, <2>10
    <3>2. CASE m = x
      BY <2>10, <3>2
    <3>3. CASE m \in u[t.kid[x][s]]
      <4>0. t.kid[x][s] # Nil
        BY <3>3, Facts
      <4>1. t.kid[x][s] \in L /\ t.parent[t.kid[x][s]] = x
        BY <1>0, <4>0, KidFacts
      <4>2. m # x /\ m # y /\ m # b
        BY <2>2, <2>4, <2>7, <3>3, Facts
      <4>3. v[m] = u[m] /\ r.parent[m] = t.parent[m]
        BY <2>5, <2>7, <4>2
      <4>4. u[m] \subseteq u[t.kid[x][s]]
        BY <2>0, <3>3, <4>1
      <4>5. m = t.kid[x][s] \/ t.parent[m] \in u[t.kid[x][s]]
        BY <2>0, <3>3, <4>1
      <4> QED BY <1>2, <2>10, <4>1, <4>3, <4>4, <4>5
    <3>4. CASE m \in u[b]
      <4>0. b # Nil
        BY <3>4, Facts
      <4>1. b \in L
        BY <2>4, <4>0
      <4>2. m # x /\ m # y
        BY <2>2, <3>4
      <4>3. v[m] = u[m] /\ (m = b \/ r.parent[m] = t.parent[m])
        BY <2>5, <2>7, <4>2
      <4>4. u[m] \subseteq u[b]
        BY <2>0, <3>4, <4>1
      <4>5. m = b \/ t.parent[m] \in u[b]
        BY <2>0, <3>4, <4>1
      <4> QED BY <1>2, <2>6, <2>10, <4>0, <4>3, <4>4, <4>5
    <3> QED BY <3>1, <3>2, <3>3, <3>4
  <2> QED BY <2>8, <2>9, <2>10
<1>17. Search(rk, r, L, v)
  BY <1>1, <1>2, <1>12, <1>13, <1>14, <1>15, <1>16, Facts, SearchIs
<1> QED BY <1>17 DEF r, v

\* Key k belongs into the subtree of n: it compares with each key outside as
\* the keys of the subtree do.
Fits(rk, L, u, n, k) ==
  \A m \in L \ u[n], a \in u[n], d \in Sides : Before(rk, d, k, m) <=> Before(rk, d, a, m)

\* the subtrees once z hangs below y
Grown(L, u, z, y) ==
  [n \in Nodes |-> IF n = z THEN {z} ELSE IF n \in L /\ y \in u[n] THEN u[n] \cup {z} ELSE u[n]]

\* the fields of a tree after a node has been linked
LEMMA LinkFields ==
  ASSUME NEW t \in Trees, NEW z \in Keys, NEW y \in Nodes, NEW s \in Sides, y # z,
         NEW r, r = Link(t, z, y, s)
  PROVE  /\ r \in Trees /\ r.root = IF y = Nil THEN z ELSE t.root
         /\ \A n \in Nodes, d \in Sides :
              r.kid[n][d] = IF n = z THEN Nil ELSE IF y # Nil /\ n = y /\ d = s THEN z ELSE t.kid[n][d]
         /\ \A n \in Nodes : r.parent[n] = IF n = z THEN y ELSE t.parent[n]
         /\ \A n \in Nodes : r.color[n] = IF n = z THEN "red" ELSE t.color[n]
<1> DEFINE t1 == IF y = Nil THEN [t EXCEPT !.root = z] ELSE SetKid(t, y, s, z)
           q1 == SetParent(t1, z, y)
           q2 == SetKid(q1, z, "left", Nil)
           q3 == SetKid(q2, z, "right", Nil)
<1>a. (y = Nil => t1 = [t EXCEPT !.root = z]) /\ (y # Nil => t1 = SetKid(t, y, s, z))
  OBVIOUS
<1>b. q1 = SetParent(t1, z, y)
  OBVIOUS
<1>c. q2 = SetKid(q1, z, "left", Nil)
  OBVIOUS
<1>d. q3 = SetKid(q2, z, "right", Nil)
  OBVIOUS
<1>e. r = SetColor(q3, z, "red")
  BY DEF Link
<1> HIDE DEF t1, q1, q2, q3
<1>1. z \in Nodes /\ Nil \in Nodes /\ "left" \in Sides /\ "right" \in Sides
      /\ \A d \in Sides : d = "left" \/ d = "right"
  BY DEF Nodes, Sides
<1>2. t1 \in Trees
  <2>1. CASE y = Nil
    BY <1>a, <1>1, <2>1 DEF Trees
  <2>2. CASE y # Nil
    BY <1>a, <1>1, <2>2, SetKidType
  <2> QED BY <2>1, <2>2
<1>3. /\ t1.root = IF y = Nil THEN z ELSE t.root
      /\ t1.parent = t.parent /\ t1.color = t.color
      /\ \A n \in Nodes, d \in Sides :
           t1.kid[n][d] = IF y # Nil /\ n = y /\ d = s THEN z ELSE t.kid[n][d]
  <2>1. CASE y = Nil
    BY <1>a, <1>1, <2>1 DEF Trees
  <2>2. CASE y # Nil
    <3>1. t1 = SetKid(t, y, s, z)
      BY <1>a, <2>2
    <3> QED BY <1>1, <2>2, <3>1, SetKidIs
  <2> QED BY <2>1, <2>2
<1>4. q1 \in Trees
  BY <1>b, <1>1, <1>2, SetParentType
<1>5. /\ q1.root = t1.root /\ q1.kid = t1.kid /\ q1.color = t1.color
      /\ \A n \in Nodes : q1.parent[n] = IF n = z THEN y ELSE t1.parent[n]
  BY <1>b, <1>1, <1>2, SetParentIs
<1>6. q2 \in Trees
  BY <1>c, <1>1, <1>4, SetKidType
<1>7. /\ q2.root = q1.root /\ q2.parent = q1.parent /\ q2.color = q1.color
      /\ \A n \in Nodes, d \in Sides :
           q2.kid[n][d] = IF n = z /\ d = "left" THEN Nil ELSE q1.kid[n][d]
  BY SMTT(30), <1>c, <1>1, <1>4, SetKidIs
<1>8. q3 \in Trees
  BY <1>d, <1>1, <1>6, SetKidType
<1>9. /\ q3.root = q2.root /\ q3.parent = q2.parent /\ q3.color = q2.color
      /\ \A n \in Nodes, d \in Sides :
           q3.kid[n][d] = IF n = z /\ d = "right" THEN Nil ELSE q2.kid[n][d]
  BY SMTT(30), <1>d, <1>1, <1>6, SetKidIs
<1>10. r \in Trees
  BY <1>e, <1>1, <1>8, SetColorType
<1>11. /\ r.root = q3.root /\ r.parent = q3.parent /\ r.kid = q3.kid
       /\ \A n \in Nodes : r.color[n] = IF n = z THEN "red" ELSE q3.color[n]
  BY <1>e, <1>1, <1>8, SetColorIs
<1>12. \A n \in Nodes, d \in Sides :
         r.kid[n][d] = IF n = z THEN Nil ELSE IF y # Nil /\ n = y /\ d = s THEN z ELSE t.kid[n][d]
  BY <1>1, <1>3, <1>5, <1>7, <1>9, <1>11
<1>13. \A n \in Nodes : r.parent[n] = IF n = z THEN y ELSE t.parent[n]
  BY <1>3, <1>5, <1>7, <1>9, <1>11
<1>14. \A n \in Nodes : r.color[n] = IF n = z THEN "red" ELSE t.color[n]
  BY <1>3, <1>5, <1>7, <1>9, <1>11
<1> QED BY <1>3, <1>5, <1>7, <1>9, <1>10, <1>11, <1>12, <1>13, <1>14

\* A new key where a search for it ends keeps the search order.
LEMMA LinkSearch ==
  ASSUME NEW rk \in Rankings, NEW t, NEW L, NEW u, Search(rk, t, L, u), NEW z \in Keys \ L,
         NEW y \in L \cup {Nil},
         NEW s \in Sides, y = Nil => t.root = Nil,
         y # Nil => t.kid[y][s] = Nil /\ Before(rk, s, z, y) /\ Fits(rk, L, u, y, z)
  PROVE  Search(rk, Link(t, z, y, s), L \cup {z}, Grown(L, u, z, y))
<1> DEFINE r == Link(t, z, y, s)
           v == Grown(L, u, z, y)
           M == L \cup {z}
<1>0. /\ z \in Keys /\ z \notin L /\ z \in Nodes /\ z \in Int /\ z # Nil /\ y \in Nodes /\ y # z
      /\ M \subseteq Keys /\ L \subseteq Nodes
  BY Facts, KeysAssumption
<1>1. /\ r \in Trees /\ r.root = IF y = Nil THEN z ELSE t.root
      /\ \A n \in Nodes, d \in Sides :
           r.kid[n][d] = IF n = z THEN Nil ELSE IF y # Nil /\ n = y /\ d = s THEN z ELSE t.kid[n][d]
      /\ \A n \in Nodes : r.parent[n] = IF n = z THEN y ELSE t.parent[n]
  <2>1. t \in Trees
    BY Facts
  <2> HIDE DEF r
  <2>2. r = Link(t, z, y, s)
    BY DEF r
  <2> QED BY <1>0, <2>1, <2>2, LinkFields
<1>2. /\ v \in [Nodes -> SUBSET M] /\ v[z] = {z} /\ v[Nil] = {}
      /\ \A n \in L : y \in u[n] => v[n] = u[n] \cup {z}
      /\ \A n \in L \cup {Nil} : y \notin u[n] => v[n] = u[n]
      /\ \A n \in L \cup {Nil} : u[n] \subseteq L /\ u[n] \subseteq v[n]
  <2>1. v = [n \in Nodes |-> IF n = z THEN {z} ELSE IF n \in L /\ y \in u[n] THEN u[n] \cup {z} ELSE u[n]]
    BY DEF Grown
  <2> HIDE DEF v
  <2>2. \A n \in Nodes : u[n] \subseteq L
    BY Facts
  <2>3. v \in [Nodes -> SUBSET M]
    BY <2>1, <2>2
  <2> QED BY <1>0, <2>1, <2>2, <2>3, Facts
<1> HIDE DEF r, v
<1>3. y = Nil => L = {}
  BY Facts
<1>4. \A n \in L : \A m \in u[n] : u[m] \subseteq u[n] /\ (m # n => t.parent[m] \in u[n])
  BY DEF Search, Enclosed
<1>5. \A n \in L, d \in Sides : r.kid[n][d] = IF n = y /\ d = s THEN z ELSE t.kid[n][d]
  BY <1>0, <1>1, <1>3
<1>6. ASSUME NEW n \in L, NEW d \in Sides, y \in u[t.kid[n][d]] PROVE Before(rk, d, z, n)
  <2>1. y # Nil /\ y \in L /\ n \in Int /\ y \in Int
    BY <1>3, <1>6, NodeFacts
  <2>2. t.kid[n][d] \in L /\ n \notin u[t.kid[n][d]] /\ Before(rk, d, y, n)
    BY <1>6, KidFacts, Facts
  <2>3. n \notin u[y] /\ y \in u[y]
    BY <1>4, <1>6, <2>1, <2>2, NodeFacts
  <2> QED BY <2>1, <2>2, <2>3 DEF Fits
<1>7. KidsOK(rk, r, M, v)
  <2> SUFFICES ASSUME NEW n \in M
               PROVE  /\ n \in v[n] /\ v[n] \subseteq M
                      /\ \A d \in Sides : /\ r.kid[n][d] \in M \cup {Nil}
                                          /\ v[r.kid[n][d]] \subseteq v[n]
                                          /\ \A m \in v[r.kid[n][d]] : Before(rk, d, m, n)
                      /\ \A m \in v[n] : m = n \/ \E d \in Sides : m \in v[r.kid[n][d]]
    BY DEF KidsOK
  <2>1. CASE n = z
    BY <1>0, <1>1, <1>2, <2>1
  <2>2. CASE n \in L
    <3>1. n \in v[n] /\ v[n] \subseteq M
      BY <1>0, <1>2, <2>2, NodeFacts
    <3>2. ASSUME NEW d \in Sides
          PROVE  /\ r.kid[n][d] \in M \cup {Nil} /\ v[r.kid[n][d]] \subseteq v[n]
                 /\ \A m \in v[r.kid[n][d]] : Before(rk, d, m, n)
      <4>1. CASE n = y /\ d = s
        <5>1. y \in u[n]
          BY <2>2, <4>1, NodeFacts
        <5> QED BY <1>2, <1>5, <2>2, <4>1, <5>1, Facts
      <4>2. CASE ~(n = y /\ d = s)
        <5>1. r.kid[n][d] = t.kid[n][d] /\ t.kid[n][d] \in L \cup {Nil}
          BY <1>5, <2>2, <4>2, KidFacts
        <5>2. u[t.kid[n][d]] \subseteq u[n] /\ \A m \in u[t.kid[n][d]] : Before(rk, d, m, n)
          BY <2>2, KidFacts
        <5>3. CASE y \in u[t.kid[n][d]]
          <6>1. v[t.kid[n][d]] = u[t.kid[n][d]] \cup {z} /\ v[n] = u[n] \cup {z}
            BY <1>2, <2>2, <5>1, <5>2, <5>3, Facts
          <6> QED BY <1>6, <2>2, <5>1, <5>2, <5>3, <6>1
        <5>4. CASE y \notin u[t.kid[n][d]]
          BY <1>2, <2>2, <5>1, <5>2, <5>4
        <5> QED BY <5>3, <5>4
      <4> QED BY <4>1, <4>2
    <3>3. ASSUME NEW m \in v[n] PROVE m = n \/ \E d \in Sides : m \in v[r.kid[n][d]]
      <4>1. CASE m = z
        <5>1. y \in u[n]
          BY <1>0, <1>2, <2>2, <4>1
        <5>2. CASE n = y
          BY <1>2, <1>5, <2>2, <4>1, <5>2
        <5>3. CASE n # y
          <6>1. PICK d \in Sides : y \in u[t.kid[n][d]]
            BY <2>2, <5>1, <5>3, NodeFacts
          <6>2. t.kid[n][d] \in L
            BY <2>2, <6>1, KidFacts, Facts
          <6> QED BY <1>2, <1>5, <2>2, <4>1, <5>3, <6>1, <6>2
        <5> QED BY <5>2, <5>3
      <4>2. CASE m # z
        <5>1. m \in u[n]
          BY <1>2, <2>2, <4>2
        <5>2. CASE m # n
          <6>1. PICK d \in Sides : m \in u[t.kid[n][d]]
            BY <2>2, <5>1, <5>2, NodeFacts
          <6>2. t.kid[n][d] \in L
            BY <2>2, <6>1, KidFacts, Facts
          <6>3. ~(n = y /\ d = s)
            BY <1>3, <2>2, <6>2, Facts
          <6> QED BY <1>2, <1>5, <2>2, <6>1, <6>2, <6>3
        <5> QED BY <5>2
      <4> QED BY <4>1, <4>2
    <3> QED BY <3>1, <3>2, <3>3
  <2> QED BY <2>1, <2>2
<1>8. ParentsOK(r, M)
  <2>1. r.root # Nil => r.parent[r.root] = Nil
    <3>1. CASE y = Nil
      BY <1>0, <1>1, <3>1
    <3>2. CASE y # Nil
      <4>1. t.root \in L /\ t.root # z /\ t.root \in Nodes /\ t.parent[t.root] = Nil
        <5>1. t.root \in L
          BY <3>2, Facts
        <5> QED BY <1>0, <5>1, NodeFacts
      <4> QED BY <1>1, <3>2, <4>1
    <3> QED BY <3>1, <3>2
  <2>2. ASSUME NEW n \in M, NEW d \in Sides, r.kid[n][d] # Nil PROVE r.parent[r.kid[n][d]] = n
    <3>1. CASE n = z
      BY <1>0, <1>1, <2>2, <3>1
    <3>2. CASE n \in L /\ n = y /\ d = s
      BY <1>0, <1>1, <1>5, <3>2
    <3>3. CASE n \in L /\ ~(n = y /\ d = s)
      <4>1. r.kid[n][d] = t.kid[n][d] /\ t.kid[n][d] \in L /\ t.parent[t.kid[n][d]] = n
        BY <1>5, <2>2, <3>3, KidFacts
      <4> QED BY <1>0, <1>1, <4>1
    <3> QED BY <3>1, <3>2, <3>3
  <2>3. ASSUME NEW n \in M \ {r.root}
        PROVE  r.parent[n] \in M /\ \E d \in Sides : r.kid[r.parent[n]][d] = n
    <3>1. CASE n = z
      <4>1. y # Nil /\ y \in L
        BY <1>1, <2>3, <3>1
      <4> QED BY <1>0, <1>1, <1>5, <3>1, <4>1
    <3>2. CASE n \in L
      <4>1. n # t.root /\ n # z /\ n # Nil /\ n \in Nodes
        BY <1>0, <1>1, <1>3, <2>3, <3>2, Facts
      <4>2. /\ t.parent[n] \in L /\ SideOf(t, n) \in Sides /\ r.parent[n] = t.parent[n]
            /\ t.kid[t.parent[n]][SideOf(t, n)] = n
        BY <1>1, <3>2, <4>1, Above
      <4>3. ~(t.parent[n] = y /\ SideOf(t, n) = s)
        BY <1>3, <4>1, <4>2, Facts
      <4> QED BY <1>5, <4>2, <4>3
    <3> QED BY <3>1, <3>2
  <2> QED BY <2>1, <2>2, <2>3 DEF ParentsOK
<1>9. Enclosed(r, M, v)
  <2> SUFFICES ASSUME NEW n \in M, NEW m \in v[n]
               PROVE  v[m] \subseteq v[n] /\ (m # n => r.parent[m] \in v[n])
    BY DEF Enclosed
  <2>1. CASE n = z
    BY <1>2, <2>1
  <2>2. CASE n \in L /\ m = z
    <3>1. y \in u[n]
      BY <1>0, <1>2, <2>2
    <3> QED BY <1>0, <1>1, <1>2, <2>2, <3>1
  <2>3. CASE n \in L /\ m # z
    <3>1. m \in u[n] /\ m \in L
      BY <1>2, <2>3
    <3>2. v[m] \subseteq v[n]
      BY <1>2, <1>4, <2>3, <3>1
    <3> QED BY <1>0, <1>1, <1>2, <1>4, <2>3, <3>1, <3>2
  <2> QED BY <2>1, <2>2, <2>3
<1>10. \A k \in Keys \ M : r.parent[k] = NULL /\ \A d \in Sides : r.kid[k][d] = NULL
  <2>1. \A k \in Keys \ L : t.parent[k] = NULL /\ \A d \in Sides : t.kid[k][d] = NULL
    BY DEF Search
  <2> QED BY <1>0, <1>1, <1>3, <2>1, Facts
<1>11. r.root \in M \cup {Nil} /\ v[r.root] = M
  <2>1. CASE y = Nil
    BY <1>1, <1>2, <1>3, <2>1
  <2>2. CASE y # Nil
    <3>1. t.root \in L
      BY <2>2, Facts
    <3> QED BY <1>1, <1>2, <2>2, <3>1, Facts
  <2> QED BY <2>1, <2>2
<1>12. Search(rk, r, M, v)
  BY <1>0, <1>1, <1>2, <1>7, <1>8, <1>9, <1>10, <1>11, SearchIs
<1> QED BY <1>12 DEF r, v

One(b) == IF b THEN 1 ELSE 0

\* h gives per node the number of black nodes on each path from it down; the
\* child pointer of p on side e counts as one black node more.
HeightAt(t, h, p, e, n) ==
  \A s \in Sides : h[n] = h[t.kid[n][s]] + One(n = p /\ s = e) + One(IsBlack(t, n))
Heights(t, L, h, p, e) ==
  /\ h \in [Nodes -> Nat \ {0}] /\ h[Nil] = 1
  /\ \A n \in L : HeightAt(t, h, p, e, n)

\* The search order has nothing to do with the colors.
LEMMA SearchColor ==
  ASSUME NEW rk \in Rankings, NEW t, NEW L, NEW u, Search(rk, t, L, u), NEW r \in Trees,
         r.root = t.root, r.kid = t.kid, r.parent = t.parent
  PROVE  Search(rk, r, L, u)
<1>1. KidsOK(rk, r, L, u) /\ ParentsOK(r, L) /\ Enclosed(r, L, u)
  BY DEF Search, KidsOK, ParentsOK, Enclosed
<1>2. \A k \in Keys \ L : r.parent[k] = NULL /\ \A d \in Sides : r.kid[k][d] = NULL
  BY DEF Search
<1> QED BY <1>1, <1>2, Facts, SearchIs

\* A node is red or black.
LEMMA ColorIs == ASSUME NEW t \in Trees, NEW n \in Nodes
                 PROVE  IsRed(t, n) <=> ~IsBlack(t, n)
  BY DEF IsRed, IsBlack

\* what a pointer or a node adds to a height
LEMMA OneIs == One(TRUE) = 1 /\ One(FALSE) = 0 /\ \A b \in BOOLEAN : One(b) \in {0, 1}
  BY DEF One

\* the height of a node and of its child
LEMMA HeightFacts ==
  ASSUME NEW rk \in Rankings, NEW t, NEW L, NEW u, Search(rk, t, L, u), NEW h, NEW p, NEW e,
         Heights(t, L, h, p, e),
         NEW n \in L, NEW s \in Sides
  PROVE  /\ h[n] \in Nat /\ h[t.kid[n][s]] \in Nat /\ h[t.kid[n][s]] > 0
         /\ ~(n = p /\ s = e) /\ IsBlack(t, n) => h[n] = h[t.kid[n][s]] + 1
         /\ ~(n = p /\ s = e) /\ ~IsBlack(t, n) => h[n] = h[t.kid[n][s]]
         /\ (n = p /\ s = e) /\ IsBlack(t, n) => h[n] = h[t.kid[n][s]] + 2
         /\ (n = p /\ s = e) /\ ~IsBlack(t, n) => h[n] = h[t.kid[n][s]] + 1
<1>1. h[n] = h[t.kid[n][s]] + One(n = p /\ s = e) + One(IsBlack(t, n))
  BY DEF Heights, HeightAt
<1>2. h[n] \in Nat /\ h[t.kid[n][s]] \in Nat /\ h[t.kid[n][s]] > 0
  BY KidFacts, Facts DEF Heights
<1> QED BY <1>1, <1>2 DEF One

\* A rotation below which the number of black nodes stays what it was.
LEMMA RotateHeights ==
  ASSUME NEW rk \in Rankings, NEW t, NEW L, NEW u, Search(rk, t, L, u), NEW s \in Sides, NEW x \in L,
         NEW y, NEW b, NEW r, NEW v, Rotated(t, L, u, s, x, y, b, r, v),
         NEW h, NEW p, NEW e, NEW q \in Trees, q.kid = t.kid, Heights(q, L, h, p, e),
         NEW g \in [Nodes -> Nat \ {0}], g[y] = h[x],
         \A n \in L \cup {Nil} : n # x /\ n # y => g[n] = h[n],
         \A n \in L : n # x /\ n # y => r.color[n] = q.color[n],
         HeightAt(r, g, p, e, x), HeightAt(r, g, p, e, y)
  PROVE  Heights(r, L, g, p, e)
<1>1. g[Nil] = 1
  <2>0. y \in L
    BY Zenon DEF Rotated
  <2>1. x # Nil /\ y # Nil
    BY <2>0, Facts
  <2> QED BY <2>1 DEF Heights
<1>2. ASSUME NEW n \in L, n # x, n # y PROVE HeightAt(r, g, p, e, n)
  <2> SUFFICES ASSUME NEW d \in Sides
               PROVE  g[n] = g[r.kid[n][d]] + One(n = p /\ d = e) + One(IsBlack(r, n))
    BY DEF HeightAt
  <2>1. h[n] = h[t.kid[n][d]] + One(n = p /\ d = e) + One(IsBlack(q, n))
    BY DEF Heights, HeightAt
  <2>2. g[n] = h[n] /\ (IsBlack(r, n) <=> IsBlack(q, n))
    BY <1>2 DEF IsBlack, IsRed
  <2>3. g[r.kid[n][d]] = h[t.kid[n][d]]
    <3>1. \/ t.kid[n][d] = x /\ r.kid[n][d] = y
          \/ r.kid[n][d] = t.kid[n][d] /\ t.kid[n][d] # x /\ t.kid[n][d] # y
      BY ZenonT(40), <1>2 DEF Rotated
    <3>2. t.kid[n][d] \in L \cup {Nil}
      BY KidFacts
    <3> QED BY <3>1, <3>2
  <2> QED BY <2>1, <2>2, <2>3 DEF One
<1> QED BY <1>1, <1>2 DEF Heights

\* A red node is rotated above its black parent and the two swap colors.
Lift(t, s, x) == Rotate(SetColor(SetColor(t, t.kid[x][Other(s)], "black"), x, "red"), s, x)
LiftHeights(t, h, s, x) == [h EXCEPT ![t.kid[x][Other(s)]] = h[x], ![x] = h[t.kid[x][Other(s)]]]

\* The trees before and after a rotation of x and its child y.
Moved(t, L, s, x, y, r) ==
  LET o == Other(s) IN
  /\ y \in L /\ y = t.kid[x][o] /\ y # x /\ y # t.root /\ t.parent[x] # y
  /\ r \in Trees /\ r.root = IF x = t.root THEN y ELSE t.root
  /\ t.kid[y][s] # x /\ t.kid[y][s] # y
  /\ \A n \in Nodes : r.parent[n] = IF n = x THEN y ELSE IF n = y THEN t.parent[x]
                                     ELSE IF n = t.kid[y][s] /\ n # Nil THEN x ELSE t.parent[n]
  /\ r.kid[x][s] = t.kid[x][s] /\ r.kid[x][o] = t.kid[y][s]
  /\ r.kid[y][s] = x /\ r.kid[y][o] = t.kid[y][o]
  /\ \A n \in L, d \in Sides : n # x /\ n # y =>
       \/ t.kid[n][d] = x /\ r.kid[n][d] = y
       \/ r.kid[n][d] = t.kid[n][d] /\ t.kid[n][d] # x /\ t.kid[n][d] # y

\* A rotation moves the nodes as Moved says.
LEMMA RotatedMoves ==
  ASSUME NEW t, NEW L, NEW u, NEW s \in Sides, NEW x \in L, NEW y, NEW b, NEW r, NEW v,
         Rotated(t, L, u, s, x, y, b, r, v)
  PROVE  Moved(t, L, s, x, y, r)
<1>1. b = t.kid[y][s] /\ b # x /\ b # y
  BY Zenon DEF Rotated
<1>2. /\ y \in L /\ y = t.kid[x][Other(s)] /\ y # x /\ y # t.root /\ t.parent[x] # y
      /\ r \in Trees /\ r.root = IF x = t.root THEN y ELSE t.root
      /\ r.kid[x][s] = t.kid[x][s] /\ r.kid[x][Other(s)] = b
      /\ r.kid[y][s] = x /\ r.kid[y][Other(s)] = t.kid[y][Other(s)]
      /\ \A n \in L, d \in Sides : n # x /\ n # y =>
           \/ t.kid[n][d] = x /\ r.kid[n][d] = y
           \/ r.kid[n][d] = t.kid[n][d] /\ t.kid[n][d] # x /\ t.kid[n][d] # y
  BY ZenonT(40) DEF Rotated
<1>3. \A n \in Nodes : r.parent[n] = IF n = x THEN y ELSE IF n = y THEN t.parent[x]
                                      ELSE IF n = b /\ n # Nil THEN x ELSE t.parent[n]
  BY ZenonT(40) DEF Rotated
<1> QED BY ZenonT(40), <1>1, <1>2, <1>3 DEF Moved

\* x turns red and y black.
LEMMA SwapColors ==
  ASSUME NEW rk \in Rankings, NEW t, NEW L, NEW u, Search(rk, t, L, u), NEW x \in L, NEW y \in L, y # x,
         NEW q, q = SetColor(SetColor(t, y, "black"), x, "red")
  PROVE  /\ Search(rk, q, L, u) /\ q.root = t.root /\ q.kid = t.kid /\ q.parent = t.parent
         /\ \A m \in Nodes : q.color[m] = IF m = x THEN "red" ELSE IF m = y THEN "black" ELSE t.color[m]
<1> DEFINE q1 == SetColor(t, y, "black")
<1>e. q1 = SetColor(t, y, "black")
  OBVIOUS
<1>f. q = SetColor(q1, x, "red")
  OBVIOUS
<1> HIDE DEF q1
<1>0. t \in Trees /\ x \in Nodes /\ y \in Nodes
  BY Facts
<1>1. q1 \in Trees
  BY <1>0, <1>e, SetColorType
<1>2. /\ q1.root = t.root /\ q1.kid = t.kid /\ q1.parent = t.parent
      /\ \A m \in Nodes : q1.color[m] = IF m = y THEN "black" ELSE t.color[m]
  BY <1>0, <1>e, SetColorIs
<1>3. q \in Trees
  BY <1>0, <1>1, <1>f, SetColorType
<1>4. /\ q.root = q1.root /\ q.kid = q1.kid /\ q.parent = q1.parent
      /\ \A m \in Nodes : q.color[m] = IF m = x THEN "red" ELSE q1.color[m]
  BY <1>0, <1>1, <1>f, SetColorIs
<1>5. Search(rk, q, L, u)
  BY <1>2, <1>3, <1>4, SearchColor
<1> QED BY <1>2, <1>4, <1>5

\* A red node that is lifted above its black parent keeps order and heights.
LEMMA LiftOK ==
  ASSUME NEW rk \in Rankings, NEW t, NEW L, NEW u, Search(rk, t, L, u), NEW s \in Sides, NEW x \in L,
         IsBlack(t, x), IsRed(t, t.kid[x][Other(s)]), IsBlack(t, Nil),
         NEW h, NEW p, NEW e, Heights(t, L, h, p, e), p # t.kid[x][Other(s)], p = x => e = s,
         NEW r, r = Lift(t, s, x)
  PROVE  \E y, v, g :
           /\ y \in L /\ Moved(t, L, s, x, y, r) /\ Search(rk, r, L, v) /\ Heights(r, L, g, p, e)
           /\ \A n \in Nodes : r.color[n] = IF n = x THEN "red" ELSE IF n = y THEN "black"
                                            ELSE t.color[n]
<1> DEFINE o == Other(s)
           y == t.kid[x][o]
           q == SetColor(SetColor(t, y, "black"), x, "red")
           g == LiftHeights(t, h, s, x)
           v == Turned(q, u, s, x)
<1>0. s \in Sides /\ o \in Sides /\ o # s /\ Other(o) = s /\ \A d \in Sides : d = s \/ d = o
  BY SidesAre
<1>1. y \in L /\ y # x /\ t.kid[x][s] # y /\ t.kid[y][s] # y /\ t.kid[y][o] # y
      /\ y # Nil /\ x # Nil /\ x \in Nodes /\ y \in Nodes
  <2>1. y # Nil
    BY DEF IsBlack
  <2>2. y \in L /\ y # x /\ t.kid[x][s] # y
    BY <1>0, <2>1, KidFacts
  <2> QED BY <1>0, <2>1, <2>2, KidFacts, Facts
<1>r. r = Rotate(q, s, x)
  BY DEF Lift
<1>f. q = SetColor(SetColor(t, y, "black"), x, "red")
  OBVIOUS
<1>g. g = [h EXCEPT ![y] = h[x], ![x] = h[y]]
  BY DEF LiftHeights
<1>y. y = t.kid[x][o]
  OBVIOUS
<1> HIDE DEF q, g, y
<1>3. /\ Search(rk, q, L, u) /\ q.root = t.root /\ q.kid = t.kid /\ q.parent = t.parent
      /\ \A m \in Nodes : q.color[m] = IF m = x THEN "red" ELSE IF m = y THEN "black"
                                       ELSE t.color[m]
  BY <1>1, <1>f, SwapColors
<1>4. q.kid[x][o] = y /\ y # Nil
  BY <1>1, <1>3, <1>y
<1>5. Search(rk, r, L, v)
  BY <1>3, <1>4, <1>r, RotateSearch
<1>6. PICK y1, b : Rotated(q, L, u, s, x, y1, b, r, v)
  BY <1>3, <1>4, <1>r, RotateKids
<1> HIDE DEF v
<1>7. y1 = y /\ r.color = q.color
  BY <1>4, <1>6 DEF Rotated
<1>8. Rotated(q, L, u, s, x, y, b, r, v) /\ Moved(q, L, s, x, y, r)
  BY <1>6, <1>7, RotatedMoves
<1>9. Moved(t, L, s, x, y, r)
  <2>1. \A k, R : t.kid = k /\ q.kid = k /\ t.parent = R /\ q.parent = R /\ Moved(q, L, s, x, y, r)
                  => Moved(t, L, s, x, y, r)
    BY <1>3 DEF Moved
  <2> QED BY <1>3, <1>8, <2>1
<1>10. \A n \in Nodes : r.color[n] = IF n = x THEN "red" ELSE IF n = y THEN "black" ELSE t.color[n]
  BY <1>3, <1>7
<1>11. h \in [Nodes -> Nat \ {0}] /\ h[x] = h[y] + 1 /\ h[y] = h[t.kid[y][s]] /\ h[y] = h[t.kid[y][o]]
  <2>1. ~IsBlack(t, y)
    BY <1>y DEF IsBlack
  <2>2. h \in [Nodes -> Nat \ {0}]
    BY DEF Heights
  <2>3. ~(x = p /\ o = e) /\ p # y
    BY <1>0, <1>y
  <2>4. h[x] = h[t.kid[x][o]] + 1
    BY <1>0, <2>3, HeightFacts
  <2>5. h[y] = h[t.kid[y][s]] /\ h[y] = h[t.kid[y][o]]
    BY <1>0, <1>1, <2>1, <2>3, HeightFacts
  <2> QED BY <1>y, <2>2, <2>4, <2>5
<1>12. /\ g \in [Nodes -> Nat \ {0}] /\ g[x] = h[y] /\ g[y] = h[x]
       /\ \A n \in Nodes : n # x /\ n # y => g[n] = h[n]
  BY <1>1, <1>11, <1>g
<1>13. HeightAt(r, g, p, e, x)
  <2>1. ~IsBlack(r, x)
    BY <1>1, <1>10 DEF IsBlack, IsRed
  <2>2. g[r.kid[x][s]] = h[t.kid[x][s]] /\ g[r.kid[x][o]] = h[t.kid[y][s]]
    <3>1. r.kid[x][s] = t.kid[x][s] /\ r.kid[x][o] = t.kid[y][s] /\ t.kid[y][s] # x /\ t.kid[y][s] # y
      BY <1>9 DEF Moved
    <3>2. t.kid[x][s] \in Nodes /\ t.kid[y][s] \in Nodes /\ t.kid[x][s] # x /\ t.kid[x][s] # y
      BY <1>0, <1>1, KidFacts
    <3> QED BY <1>12, <3>1, <3>2
  <2>3. h[x] = h[t.kid[x][s]] + One(x = p /\ s = e) + One(TRUE)
    BY DEF Heights, HeightAt
  <2>4. h[t.kid[x][s]] \in Nat /\ h[t.kid[y][s]] \in Nat /\ h[x] \in Nat /\ h[y] \in Nat
    BY <1>1, HeightFacts
  <2>5. g[x] = g[r.kid[x][s]] + One(x = p /\ s = e) + One(FALSE)
    BY <1>11, <1>12, <2>2, <2>3, <2>4 DEF One
  <2>6. ~(x = p /\ o = e)
    BY <1>0
  <2>7. g[x] = g[r.kid[x][o]] + One(FALSE) + One(FALSE)
    <3>1. h[y] = h[t.kid[y][s]]
      BY <1>11
    <3>2. h[y] = h[t.kid[y][s]] + 0 + 0
      BY <2>4, <3>1
    <3> QED BY <1>12, <2>2, <3>2, OneIs
  <2>8. One(x = p /\ o = e) = One(FALSE) /\ One(IsBlack(r, x)) = One(FALSE)
    BY <2>1, <2>6 DEF One
  <2> QED BY <1>0, <2>5, <2>7, <2>8 DEF HeightAt
<1>14. HeightAt(r, g, p, e, y)
  <2>1. IsBlack(r, y)
    BY <1>1, <1>10 DEF IsBlack, IsRed
  <2>2. g[r.kid[y][s]] = h[y] /\ g[r.kid[y][o]] = h[t.kid[y][o]]
    <3>1. r.kid[y][s] = x /\ r.kid[y][o] = t.kid[y][o] /\ t.kid[y][o] # x /\ t.kid[y][o] # y
      <4>1. r.kid[y][s] = x /\ r.kid[y][o] = t.kid[y][o]
        BY <1>9 DEF Moved
      <4>2. q.kid[y][o] # x /\ q.kid[y][o] # y
        BY Zenon, <1>8 DEF Rotated
      <4> QED BY <1>3, <4>1, <4>2
    <3>2. t.kid[y][o] \in Nodes
      BY <1>0, <1>1, KidFacts
    <3> QED BY <1>12, <3>1, <3>2
  <2>3. h[x] \in Nat /\ h[y] \in Nat
    BY <1>1, HeightFacts
  <2>4. g[y] = h[y] + One(FALSE) + One(TRUE)
    BY <1>11, <1>12, <2>3 DEF One
  <2>5. y # p
    BY <1>y
  <2> QED BY <1>0, <1>11, <2>1, <2>2, <2>4, <2>5 DEF HeightAt
<1>15. \A n \in L \cup {Nil} : n # x /\ n # y => g[n] = h[n]
  BY <1>12, Facts
<1>16. \A n \in L : n # x /\ n # y => r.color[n] = t.color[n]
  BY <1>10, Facts
<1>17. t \in Trees /\ t.kid = q.kid
  BY <1>3, Facts
<1>18. Heights(r, L, g, p, e)
  BY <1>3, <1>8, <1>12, <1>13, <1>14, <1>15, <1>16, <1>17, RotateHeights
<1> QED BY <1>1, <1>5, <1>9, <1>10, <1>18

\* A red node and its child have as many black nodes below them.
LEMMA RedHeight ==
  ASSUME NEW t, NEW h, NEW p, NEW e, NEW n, NEW s \in Sides, n # p, ~IsBlack(t, n), h[n] \in Nat,
         h[n] = h[t.kid[n][s]], h[n] = h[t.kid[n][Other(s)]]
  PROVE  HeightAt(t, h, p, e, n)
<1> SUFFICES ASSUME NEW d \in Sides
             PROVE  h[n] = h[t.kid[n][d]] + One(n = p /\ d = e) + One(IsBlack(t, n))
  BY DEF HeightAt
<1>1. h[n] = h[t.kid[n][d]]
  <2>1. d = s \/ d = Other(s)
    BY SidesAre
  <2> QED BY <2>1
<1>2. One(n = p /\ d = e) = 0 /\ One(IsBlack(t, n)) = 0
  BY DEF One
<1> QED BY <1>1, <1>2

\* A rotation of two red nodes changes no height.
LEMMA RotateReds ==
  ASSUME NEW rk \in Rankings, NEW t, NEW L, NEW u, Search(rk, t, L, u), NEW s \in Sides, NEW x \in L,
         IsRed(t, x), IsRed(t, t.kid[x][Other(s)]), IsBlack(t, Nil),
         NEW h, NEW e, Heights(t, L, h, NULL, e),
         NEW r, r = Rotate(t, s, x)
  PROVE  \E y, v : /\ y \in L /\ Moved(t, L, s, x, y, r) /\ Search(rk, r, L, v)
                   /\ Heights(r, L, h, NULL, e) /\ r.color = t.color
<1> DEFINE o == Other(s)
           y == t.kid[x][o]
           v == Turned(t, u, s, x)
<1>0. s \in Sides /\ o \in Sides /\ o # s /\ Other(o) = s /\ \A d \in Sides : d = s \/ d = o
  BY SidesAre
<1>1. y \in L /\ y # Nil
  <2>1. y # Nil
    BY DEF IsBlack
  <2> QED BY <1>0, <2>1, KidFacts
<1>y. y = t.kid[x][o]
  OBVIOUS
<1> HIDE DEF y
<1>2. Search(rk, r, L, v)
  BY <1>1, <1>y, RotateSearch
<1>3. PICK y1, b : Rotated(t, L, u, s, x, y1, b, r, v)
  BY <1>1, <1>y, RotateKids
<1> HIDE DEF v
<1>4. y1 = y /\ r.color = t.color /\ b = t.kid[y][s]
  BY Zenon, <1>y, <1>3 DEF Rotated
<1>5. Rotated(t, L, u, s, x, y, b, r, v) /\ Moved(t, L, s, x, y, r)
  BY <1>3, <1>4, RotatedMoves
<1>6. x # NULL /\ y # NULL /\ ~IsBlack(t, x) /\ ~IsBlack(t, y) /\ ~IsBlack(r, x) /\ ~IsBlack(r, y)
  BY <1>1, <1>4, <1>y, Facts DEF IsBlack, IsRed
<1>7. /\ h[x] = h[y] /\ h[x] = h[t.kid[x][s]] /\ h[y] = h[t.kid[y][s]] /\ h[y] = h[t.kid[y][o]]
      /\ h[x] \in Nat /\ h[y] \in Nat
  BY <1>0, <1>1, <1>6, <1>y, HeightFacts
<1>8. /\ r.kid[x][s] = t.kid[x][s] /\ r.kid[x][o] = t.kid[y][s]
      /\ r.kid[y][s] = x /\ r.kid[y][o] = t.kid[y][o]
  BY <1>5 DEF Moved
<1>9. HeightAt(r, h, NULL, e, x)
  <2>1. h[x] = h[r.kid[x][s]] /\ h[x] = h[r.kid[x][o]]
    BY <1>7, <1>8
  <2> QED BY <1>0, <1>6, <1>7, <2>1, RedHeight
<1>10. HeightAt(r, h, NULL, e, y)
  <2>1. h[y] = h[r.kid[y][s]] /\ h[y] = h[r.kid[y][o]]
    BY <1>7, <1>8
  <2> QED BY <1>0, <1>6, <1>7, <2>1, RedHeight
<1>11. t \in Trees /\ h \in [Nodes -> Nat \ {0}] /\ h[y] = h[x]
  BY <1>7, Facts DEF Heights
<1>12. Heights(r, L, h, NULL, e)
  BY <1>4, <1>5, <1>9, <1>10, <1>11, RotateHeights
<1> QED BY <1>1, <1>2, <1>4, <1>5, <1>12

\* What holds of the tree between two iterations of rbtree_insert_fix: it is
\* balanced but for z, which is red like its parent, or the root.
Inserting(t, L, h, z) ==
  /\ z \in L /\ IsRed(t, z) /\ IsBlack(t, Nil) /\ Heights(t, L, h, NULL, "left")
  /\ \A n \in L, s \in Sides : IsRed(t, n) /\ IsRed(t, t.kid[n][s]) => t.kid[n][s] = z
  /\ IsRed(t, t.root) => z = t.root

InsertTree(rk, t, L, z) == \E u, h : Search(rk, t, L, u) /\ Inserting(t, L, h, z)

\* where the loop goes on
LEMMA InsertNodes ==
  ASSUME NEW rk \in Rankings, NEW t, NEW L, NEW u, Search(rk, t, L, u), NEW h, NEW z, Inserting(t, L, h, z),
         InsertFixGoesOn(t, z)
  PROVE  \E p \in L, g \in L :
           LET s == SideOf(t, p)
               y == t.kid[g][Other(s)]
           IN /\ p = t.parent[z] /\ g = t.parent[p] /\ z # t.root /\ p # t.root
              /\ s \in Sides /\ t.kid[g][s] = p /\ y \in L \cup {Nil} /\ y # p
              /\ IsRed(t, p) /\ IsBlack(t, g) /\ p # z /\ g # p /\ g # z
              /\ \E d \in Sides : t.kid[p][d] = z
              /\ z \in L
<1> DEFINE p == t.parent[z]
           g == t.parent[p]
           s == SideOf(t, p)
           y == t.kid[g][Other(s)]
<1>1. z \in L /\ IsRed(t, p) /\ IsBlack(t, Nil)
  BY DEF Inserting, InsertFixGoesOn
<1>2. z # t.root /\ p \in L /\ SideOf(t, z) \in Sides /\ t.kid[p][SideOf(t, z)] = z
  <2>1. p # Nil
    BY <1>1 DEF IsBlack
  <2>2. z # t.root
    BY <1>1, <2>1, NodeFacts
  <2> QED BY <1>1, <2>2, Above
<1>3. p # t.root
  BY <1>1, <1>2 DEF Inserting
<1>4. g \in L /\ s \in Sides /\ t.kid[g][s] = p
  BY <1>2, <1>3, Above
<1>5. z # p /\ g # p
  BY <1>2, <1>4, KidFacts
<1>6. IsBlack(t, g)
  BY <1>1, <1>4, <1>5 DEF Inserting, IsBlack
<1>7. y \in L \cup {Nil} /\ y # p
  BY <1>2, <1>4, KidFacts, SidesAre, Facts
<1>8. g # z
  BY <1>6 DEF Inserting, IsBlack
<1> QED BY <1>1, <1>2, <1>3, <1>4, <1>5, <1>6, <1>7, <1>8

\* case 1: p and its sibling y are red and turn black, g turns red
LEMMA RecolorOK ==
  ASSUME NEW rk \in Rankings, NEW t, NEW L, NEW u, Search(rk, t, L, u), NEW h, NEW z, Inserting(t, L, h, z),
         NEW p \in L, NEW g \in L, NEW s \in Sides, NEW y,
         p = t.parent[z], y = t.kid[g][Other(s)], t.kid[g][s] = p, IsRed(t, y), IsRed(t, p),
         z # t.root, p # t.root, IsBlack(t, g), y # p, g # p, g # z,
         NEW r, r = Recolor(t, p, y, g)
  PROVE  InsertTree(rk, r, L, g)
<1> DEFINE q1 == SetColor(t, p, "black")
           q2 == SetColor(q1, y, "black")
           k == [h EXCEPT ![p] = h[p] + 1, ![y] = h[p] + 1]
<1>a. q1 = SetColor(t, p, "black")
  OBVIOUS
<1>b. q2 = SetColor(q1, y, "black")
  OBVIOUS
<1>c. r = SetColor(q2, g, "red")
  BY DEF Recolor
<1>d. k = [h EXCEPT ![p] = h[p] + 1, ![y] = h[p] + 1]
  OBVIOUS
<1> HIDE DEF q1, q2, k
<1>0. s \in Sides /\ Other(s) \in Sides /\ Other(s) # s /\ \A d \in Sides : d = s \/ d = Other(s)
  BY SidesAre
<1>1. y \in L /\ y # g /\ y # Nil
  <2>1. y # Nil
    BY DEF Inserting, IsBlack
  <2> QED BY <1>0, <2>1, KidFacts
<1>2. t \in Trees /\ p \in Nodes /\ g \in Nodes /\ y \in Nodes
  BY <1>1, Facts
<1>3. q1 \in Trees
  BY <1>2, <1>a, SetColorType
<1>4. /\ q1.root = t.root /\ q1.kid = t.kid /\ q1.parent = t.parent
      /\ \A m \in Nodes : q1.color[m] = IF m = p THEN "black" ELSE t.color[m]
  BY <1>2, <1>a, SetColorIs
<1>5. q2 \in Trees
  BY <1>2, <1>3, <1>b, SetColorType
<1>6. /\ q2.root = q1.root /\ q2.kid = q1.kid /\ q2.parent = q1.parent
      /\ \A m \in Nodes : q2.color[m] = IF m = y THEN "black" ELSE q1.color[m]
  BY <1>2, <1>3, <1>b, SetColorIs
<1>7. r \in Trees
  BY <1>2, <1>5, <1>c, SetColorType
<1>8. /\ r.root = q2.root /\ r.kid = q2.kid /\ r.parent = q2.parent
      /\ \A m \in Nodes : r.color[m] = IF m = g THEN "red" ELSE q2.color[m]
  BY <1>2, <1>5, <1>c, SetColorIs
<1>9. /\ r.root = t.root /\ r.kid = t.kid /\ r.parent = t.parent
      /\ \A m \in Nodes : r.color[m] = IF m = g THEN "red" ELSE IF m \in {p, y} THEN "black"
                                       ELSE t.color[m]
  BY <1>4, <1>6, <1>8
<1>10. Search(rk, r, L, u)
  BY <1>7, <1>9, SearchColor
<1>11. /\ IsRed(r, g) /\ IsBlack(r, p) /\ IsBlack(r, y)
       /\ \A m \in Nodes : m \notin {g, p, y} => (IsRed(r, m) <=> IsRed(t, m))
  BY <1>1, <1>2, <1>9 DEF IsRed, IsBlack
<1>12. IsBlack(r, Nil)
  <2>1. Nil \notin {g, p, y} /\ Nil \in Nodes
    BY <1>1, Facts
  <2> QED BY <1>11, <2>1 DEF Inserting, IsBlack
\* the heights
<1>13. \A n \in L, d \in Sides : t.kid[n][d] \in {p, y} => n = g
  <2>1. t.parent[p] = g /\ t.parent[y] = g
    <3>1. p # Nil
      BY Facts
    <3> QED BY <1>0, <1>1, <3>1, KidFacts
  <2> QED BY <1>1, <2>1, KidFacts, Facts
<1>14. h \in [Nodes -> Nat \ {0}] /\ h[p] \in Nat /\ h[g] = h[p] + 1 /\ h[y] = h[p]
  <2>1. g # NULL
    BY <1>2, Facts
  <2>2. h[g] = h[t.kid[g][s]] + 1 /\ h[g] = h[t.kid[g][Other(s)]] + 1
    BY <1>0, <2>1, HeightFacts DEF Inserting
  <2>3. h \in [Nodes -> Nat \ {0}] /\ h[p] \in Nat /\ h[y] \in Nat
    BY <1>2 DEF Inserting, Heights
  <2> QED BY <2>2, <2>3
<1>15. /\ k \in [Nodes -> Nat \ {0}] /\ k[p] = h[p] + 1 /\ k[y] = h[p] + 1
       /\ \A m \in Nodes : m \notin {p, y} => k[m] = h[m]
  BY <1>2, <1>14, <1>d
<1>16. ASSUME NEW n \in L PROVE HeightAt(r, k, NULL, "left", n)
  <2>1. n # NULL /\ n \in Nodes
    BY Facts
  <2>0. HeightAt(t, h, NULL, "left", n)
    BY DEF Inserting, Heights
  <2>2. CASE n = g
    <3>1. k[g] = k[r.kid[g][s]] /\ k[g] = k[r.kid[g][Other(s)]]
      <4>1. k[g] = h[g] /\ r.kid[g][s] = p /\ r.kid[g][Other(s)] = y
        BY <1>1, <1>2, <1>9, <1>15
      <4> QED BY <1>14, <1>15, <4>1
    <3>2. ~IsBlack(r, g) /\ k[g] \in Nat
      BY <1>2, <1>11, <1>15 DEF IsBlack
    <3> QED BY Zenon, <1>0, <2>1, <2>2, <3>1, <3>2, RedHeight
  <2>3. CASE n # g
    <3> SUFFICES ASSUME NEW d \in Sides
                 PROVE  k[n] = k[r.kid[n][d]] + One(n = NULL /\ d = "left") + One(IsBlack(r, n))
      BY DEF HeightAt
    <3>0. h[n] = h[t.kid[n][d]] + One(n = NULL /\ d = "left") + One(IsBlack(t, n))
      BY <2>0 DEF HeightAt
    <3>1. k[r.kid[n][d]] = h[t.kid[n][d]]
      <4>1. t.kid[n][d] \notin {p, y}
        BY <1>13, <2>3
      <4>2. t.kid[n][d] \in Nodes
        BY KidFacts
      <4> QED BY <1>9, <1>15, <4>1, <4>2
    <3>2. h[t.kid[n][d]] \in Nat
      BY <1>14, KidFacts
    <3>3. CASE n \notin {p, y}
      <4>1. k[n] = h[n] /\ (IsBlack(r, n) <=> IsBlack(t, n))
        BY <1>11, <1>15, <2>1, <2>3, <3>3 DEF IsBlack
      <4> QED BY <3>0, <3>1, <4>1 DEF One
    <3>4. CASE n \in {p, y}
      <4>1. k[n] = h[n] + 1 /\ IsBlack(r, n) /\ ~IsBlack(t, n)
        BY <1>11, <1>14, <1>15, <3>4 DEF IsBlack
      <4> QED BY <2>1, <3>0, <3>1, <3>2, <4>1 DEF One
    <3> QED BY <3>3, <3>4
  <2> QED BY <2>2, <2>3
<1>17. Heights(r, L, k, NULL, "left")
  <2>1. k[Nil] = 1
    BY <1>1, <1>15, Facts DEF Inserting, Heights
  <2> QED BY <1>15, <1>16, <2>1 DEF Heights
\* the colors
<1>18. ASSUME NEW n \in L, NEW d \in Sides, IsRed(r, n), IsRed(r, r.kid[n][d])
       PROVE  r.kid[n][d] = g
  <2> SUFFICES ASSUME t.kid[n][d] # g PROVE FALSE
    BY <1>9
  <2>1. t.kid[n][d] \notin {g, p, y} /\ n \notin {p, y} /\ t.kid[n][d] \in Nodes /\ n \in Nodes
    BY <1>9, <1>11, <1>18, KidFacts, NodeFacts DEF IsBlack
  <2>2. n # g
    BY <1>0, <2>1
  <2>3. IsRed(t, n) /\ IsRed(t, t.kid[n][d])
    BY <1>9, <1>11, <1>18, <2>1, <2>2
  <2>4. t.kid[n][d] = z /\ z \in L
    BY <2>3 DEF Inserting
  <2>5. t.parent[z] = n
    BY <2>4, KidFacts, Facts
  <2> QED BY <2>1, <2>5
<1>19. IsRed(r, r.root) => g = r.root
  <2>1. t.root \in Nodes
    BY Facts
  <2> QED BY <1>9, <1>11, <2>1 DEF Inserting, IsBlack
<1>20. Inserting(r, L, k, g)
  BY ZenonT(40), <1>11, <1>12, <1>17, <1>18, <1>19 DEF Inserting
<1> QED BY <1>10, <1>20 DEF InsertTree

\* Before the rotation that ends the loop: g, its child p and the child z of p
\* are in a row on side s.
Lifting(t, L, h, z, p, g, s) ==
  /\ Heights(t, L, h, NULL, "left") /\ IsBlack(t, Nil)
  /\ z \in L /\ p \in L /\ g \in L /\ s \in Sides
  /\ t.kid[g][s] = p /\ IsRed(t, z) /\ IsRed(t, p) /\ IsBlack(t, g) /\ z # g /\ z # p
  /\ IsBlack(t, t.kid[g][Other(s)]) /\ IsBlack(t, t.kid[p][Other(s)])
  /\ \A n \in L, d \in Sides : IsRed(t, n) /\ IsRed(t, t.kid[n][d]) /\ n # p => t.kid[n][d] = z
  /\ t.root # z /\ t.root # p /\ (IsRed(t, t.root) => z = t.root)

\* case 3 of rbtree_insert_fix: the parent of z is lifted above its black parent
LEMMA LiftInserting ==
  ASSUME NEW rk \in Rankings, NEW t, NEW L, NEW u, Search(rk, t, L, u), NEW h, NEW z, NEW p, NEW g, NEW s,
         Lifting(t, L, h, z, p, g, s),
         NEW r, r = Lift(t, Other(s), g)
  PROVE  InsertTree(rk, r, L, z) /\ (t.kid[p][s] = z => IsBlack(r, r.parent[z]))
<1> DEFINE o == Other(s)
<1>l. /\ Heights(t, L, h, NULL, "left") /\ IsBlack(t, Nil)
      /\ z \in L /\ p \in L /\ g \in L /\ s \in Sides
      /\ t.kid[g][s] = p /\ IsRed(t, z) /\ IsRed(t, p) /\ IsBlack(t, g) /\ z # g /\ z # p
      /\ IsBlack(t, t.kid[g][o]) /\ IsBlack(t, t.kid[p][o])
      /\ t.root # z /\ t.root # p /\ (IsRed(t, t.root) => z = t.root)
      /\ \A n \in L, d \in Sides : IsRed(t, n) /\ IsRed(t, t.kid[n][d]) /\ n # p => t.kid[n][d] = z
  BY DEF Lifting
<1>0. s \in Sides /\ o \in Sides /\ o # s /\ Other(o) = s /\ \A d \in Sides : d = s \/ d = o
  BY <1>l, SidesAre
<1>1. NULL # t.kid[g][Other(o)] /\ NULL # g
  BY <1>0, <1>l, Facts
<1>2. PICK y, v, k :
        /\ y \in L /\ Moved(t, L, o, g, y, r) /\ Search(rk, r, L, v) /\ Heights(r, L, k, NULL, "left")
        /\ \A n \in Nodes : r.color[n] = IF n = g THEN "red" ELSE IF n = y THEN "black"
                                         ELSE t.color[n]
  <2>1. IsRed(t, t.kid[g][Other(o)])
    BY <1>l, <1>0
  <2> QED BY <1>l, <1>0, <1>1, <2>1, LiftOK
<1>3. y = p /\ p # g /\ p \in Nodes /\ g \in Nodes /\ z \in Nodes /\ p # t.root
  BY <1>l, <1>0, <1>2, Facts, KidFacts DEF Moved
<1>4. /\ r.root = IF g = t.root THEN p ELSE t.root
      /\ r.kid[g][o] = t.kid[g][o] /\ r.kid[g][s] = t.kid[p][o]
      /\ \A n \in L, d \in Sides : n # g /\ n # p =>
           \/ r.kid[n][d] = p
           \/ r.kid[n][d] = t.kid[n][d] /\ t.kid[n][d] # g /\ t.kid[n][d] # p
  BY <1>l, <1>0, <1>2, <1>3 DEF Moved
<1>5. /\ IsRed(r, g) /\ IsBlack(r, p)
      /\ \A m \in Nodes : m \notin {g, p} => (IsRed(r, m) <=> IsRed(t, m))
  BY <1>l, <1>2, <1>3 DEF IsRed, IsBlack
<1>6. z \in L /\ IsRed(r, z) /\ IsBlack(r, Nil)
  <2>1. Nil \in Nodes /\ Nil \notin {g, p}
    BY <1>l, Facts
  <2> QED BY <1>l, <1>3, <1>5, <2>1 DEF IsBlack
<1>7. ASSUME NEW n \in L, NEW d \in Sides, IsRed(r, n), IsRed(r, r.kid[n][d])
      PROVE  r.kid[n][d] = z
  <2>1. n # p /\ n \in Nodes
    BY <1>l, <1>5, <1>7, Facts DEF IsBlack
  <2>2. CASE n = g
    <3>1. ~IsRed(t, r.kid[n][d])
      BY <1>l, <1>0, <1>4, <2>2 DEF IsBlack
    <3>2. r.kid[n][d] \in {g, p} /\ r.kid[n][d] # p
      <4>1. r.kid[n][d] \in Nodes
        BY <1>l, <1>2, KidFacts
      <4> QED BY <1>l, <1>5, <1>7, <3>1, <4>1 DEF IsBlack
    <3>3. r.kid[n][d] # n
      BY <1>l, <1>2, KidFacts
    <3> QED BY <1>l, <2>2, <3>2, <3>3
  <2>3. CASE n # g
    <3>1. r.kid[n][d] # p
      BY <1>l, <1>5, <1>7 DEF IsBlack
    <3>2. r.kid[n][d] = t.kid[n][d] /\ t.kid[n][d] # g /\ t.kid[n][d] # p
      BY <1>l, <1>4, <2>1, <2>3, <3>1
    <3>3. t.kid[n][d] \in Nodes
      BY <1>l, KidFacts
    <3>4. IsRed(t, n) /\ IsRed(t, t.kid[n][d])
      BY <1>l, <1>5, <1>7, <2>1, <2>3, <3>2, <3>3
    <3> QED BY <1>l, <2>1, <3>2, <3>4
  <2> QED BY <1>l, <2>2, <2>3
<1>8. IsRed(r, r.root) => z = r.root
  <2>1. t.root \in Nodes
    BY <1>l, Facts
  <2>2. CASE g = t.root
    BY <1>l, <1>4, <1>5, <2>2 DEF IsBlack
  <2>3. CASE g # t.root
    BY <1>l, <1>3, <1>4, <1>5, <2>1, <2>3
  <2> QED BY <1>l, <2>2, <2>3
<1>9. Inserting(r, L, k, z)
  BY <1>l, <1>2, <1>6, <1>7, <1>8 DEF Inserting
<1>10. ASSUME t.kid[p][s] = z PROVE r.parent[z] = p
  <2>1. r.kid[p][s] = z
    BY <1>0, <1>2, <1>3, <1>10 DEF Moved
  <2>2. z # Nil
    BY <1>l, Facts
  <2> QED BY <1>l, <1>2, <2>1, <2>2, KidFacts
<1> QED BY <1>2, <1>5, <1>9, <1>10 DEF InsertTree

\* y is above x, and the colors alone tell r from t.
GoesAbove(t, L, u, x, r, y) ==
  /\ r.root = t.root /\ r.kid = t.kid /\ r.parent = t.parent
  /\ x \in L \cup {Nil} /\ y \in L /\ u[x] \subseteq u[y] /\ y \notin u[x]

\* An iteration of rbtree_insert_fix keeps the search order and the invariant,
\* and if it is not the last one, it climbs.
THEOREM InsertFixKeeps ==
  ASSUME NEW rk \in Rankings, NEW t, NEW L, NEW u, Search(rk, t, L, u), NEW h, NEW z, Inserting(t, L, h, z),
         InsertFixGoesOn(t, z)
  PROVE  LET f == InsertFix(t, z)
         IN /\ InsertTree(rk, f.tree, L, f.at)
            /\ InsertFixGoesOn(f.tree, f.at) => GoesAbove(t, L, u, z, f.tree, f.at)
<1>1. PICK p \in L, g \in L :
           LET s == SideOf(t, p)
               y == t.kid[g][Other(s)]
           IN /\ p = t.parent[z] /\ g = t.parent[p] /\ z # t.root /\ p # t.root
              /\ s \in Sides /\ t.kid[g][s] = p /\ y \in L \cup {Nil} /\ y # p
              /\ IsRed(t, p) /\ IsBlack(t, g) /\ p # z /\ g # p /\ g # z
              /\ \E d \in Sides : t.kid[p][d] = z
              /\ z \in L
  BY InsertNodes
<1> DEFINE s == SideOf(t, p)
           o == Other(s)
           y == t.kid[g][o]
           f == InsertFix(t, z)
<1>s. s \in Sides
  BY <1>1
<1>5. /\ p = t.parent[z] /\ g = t.parent[p] /\ z # t.root /\ p # t.root
      /\ t.kid[g][s] = p /\ y \in L \cup {Nil} /\ y # p
      /\ IsRed(t, p) /\ IsBlack(t, g) /\ p # z /\ g # p /\ g # z /\ z \in L
  BY <1>1
<1>6. \E d \in Sides : t.kid[p][d] = z
  BY <1>1
<1> HIDE DEF s
<1>0. s \in Sides /\ o \in Sides /\ o # s /\ Other(o) = s /\ \A d \in Sides : d = s \/ d = o
  BY <1>s, SidesAre
<1>2. CASE IsRed(t, y)
  <2>1. f = [tree |-> Recolor(t, p, y, g), at |-> g]
    BY <1>1, <1>2 DEF InsertFix, s
  <2> DEFINE r == Recolor(t, p, y, g)
             w == y
  <2>2. r = Recolor(t, p, w, g) /\ w = t.kid[g][Other(s)]
    OBVIOUS
  <2>3. IsRed(t, w) /\ w # p
    BY <1>2, <1>5
  <2> HIDE DEF r, w
  <2>4. InsertTree(rk, r, L, g)
    BY Zenon, <1>0, <1>5, <2>2, <2>3, RecolorOK
  <2>5. r.root = t.root /\ r.kid = t.kid /\ r.parent = t.parent
    <3>1. t \in Trees /\ p \in Nodes /\ w \in Nodes /\ g \in Nodes
      BY <1>0, <2>2, Facts, KidFacts
    <3> QED BY <2>2, <3>1 DEF Recolor, SetColor, Trees
  <2>6. u[z] \subseteq u[g] /\ g \notin u[z]
    <3>1. /\ u[z] \subseteq u[p] /\ u[p] \subseteq u[g] /\ g \notin u[p]
      BY <1>5, <1>6, <1>s, KidFacts
    <3> QED BY <3>1
  <2>7. GoesAbove(t, L, u, z, r, g)
    BY <1>5, <2>5, <2>6 DEF GoesAbove
  <2> QED BY <2>1, <2>4, <2>7 DEF r
<1>3. CASE ~IsRed(t, y) /\ z # t.kid[p][o]
  <2>1. f = [tree |-> Lift(t, o, g), at |-> z]
    BY <1>0, <1>1, <1>3 DEF InsertFix, Lift, s
  <2>2. t.kid[p][s] = z /\ z \in L
    BY <1>0, <1>1, <1>3
  <2>3. IsBlack(t, t.kid[p][o])
    BY <1>0, <1>1, <1>3 DEF Inserting, IsBlack
  <2>4. t.kid[g][s] = p
    BY <1>1 DEF s
  <2>6. /\ Heights(t, L, h, NULL, "left") /\ IsBlack(t, Nil) /\ IsRed(t, z)
        /\ IsBlack(t, t.kid[g][o]) /\ t.root \notin {z, p} /\ (IsRed(t, t.root) => z = t.root)
        /\ \A n \in L, d \in Sides : IsRed(t, n) /\ IsRed(t, t.kid[n][d]) => t.kid[n][d] = z
    BY <1>3, <1>5 DEF Inserting, IsBlack
  <2>7. \A d \in Sides : IsRed(t, t.kid[p][d]) => t.kid[p][d] = z
    BY <1>5, <2>6
  <2> DEFINE r == Lift(t, Other(s), g)
  <2>9. Lifting(t, L, h, z, p, g, s)
    BY Zenon, <1>0, <1>5, <2>2, <2>3, <2>4, <2>6, <2>7 DEF Lifting
  <2>8. r = Lift(t, Other(s), g)
    OBVIOUS
  <2> HIDE DEF r
  <2>5. InsertTree(rk, r, L, z) /\ ~InsertFixGoesOn(r, z)
    BY <2>2, <2>8, <2>9, LiftInserting DEF InsertFixGoesOn, IsBlack
  <2> QED BY <2>1, <2>5, <2>8
<1>4. CASE ~IsRed(t, y) /\ z = t.kid[p][o]
  <2> DEFINE t1 == Rotate(t, s, p)
  <2>f. f = [tree |-> Rotate(SetColor(SetColor(t1, t1.parent[p], "black"), g, "red"), o, g),
             at |-> p]
    BY Zenon, <1>1, <1>4 DEF InsertFix, s
  <2>0. t1 = Rotate(t, s, p)
    OBVIOUS
  <2> HIDE DEF t1, f
  <2>z. IsRed(t, t.kid[p][Other(s)]) /\ IsBlack(t, Nil) /\ Heights(t, L, h, NULL, "left")
    BY <1>4 DEF Inserting
  <2>1. PICK z1, v1 : /\ z1 \in L /\ Moved(t, L, s, p, z1, t1) /\ Search(rk, t1, L, v1)
                       /\ Heights(t1, L, h, NULL, "left") /\ t1.color = t.color
    BY <1>0, <1>5, <2>0, <2>z, RotateReds
  <2>2. z1 = z
    BY <1>4, <2>1 DEF Moved
  <2>3. p \in Nodes /\ g \in Nodes /\ z \in Nodes /\ p # Nil /\ z # Nil
    BY <1>1, Facts
  <2>4. \A d \in Sides : IsBlack(t, t.kid[z][d])
    <3>1. \A d \in Sides : t.kid[z][d] # z
      BY <1>5, KidFacts
    <3> QED BY <1>5, <3>1 DEF Inserting, IsBlack
  <2>5. IsBlack(t, t.kid[p][s])
    <3>1. t.kid[p][s] # z
      BY <1>0, <1>4, <2>3, KidFacts
    <3> QED BY <1>0, <1>1, <3>1 DEF Inserting, IsBlack
  <2>6. /\ t1.parent[p] = z /\ t1.kid[p][s] = t.kid[p][s] /\ t1.kid[p][o] = t.kid[z][s]
        /\ t1.kid[z][s] = p /\ t1.kid[z][o] = t.kid[z][o] /\ t1.root = t.root
        /\ \A n \in L, d \in Sides : n # p /\ n # z =>
             \/ t.kid[n][d] = p /\ t1.kid[n][d] = z
             \/ t1.kid[n][d] = t.kid[n][d] /\ t.kid[n][d] # p /\ t.kid[n][d] # z
    BY <1>1, <2>1, <2>2, <2>3 DEF Moved
  <2>7. t1.kid[g][s] = z /\ t1.kid[g][o] = y
    <3>1. t.kid[g][s] = p /\ t.kid[g][o] # p
      BY <1>1 DEF s
    <3> QED BY <1>0, <1>1, <2>6, <3>1
  <2>8. f = [tree |-> Lift(t1, o, g), at |-> p]
    BY <1>0, <2>f, <2>6, <2>7 DEF Lift
  <2>9. \A n : IsRed(t1, n) <=> IsRed(t, n)
    BY <2>1 DEF IsRed
  <2>10. ASSUME NEW n \in L \ {z}, NEW d \in Sides, IsRed(t1, n), IsRed(t1, t1.kid[n][d])
         PROVE  t1.kid[n][d] = p
    <3>1. CASE n = p
      BY <1>0, <2>4, <2>5, <2>6, <2>9, <2>10, <3>1 DEF IsBlack
    <3>2. CASE n # p /\ t.kid[n][d] = p /\ t1.kid[n][d] = z
      <4>1. n = g
        BY <1>1, <2>3, <3>2, KidFacts
      <4> QED BY <1>1, <2>9, <2>10, <4>1 DEF IsBlack
    <3>3. CASE n # p /\ t1.kid[n][d] = t.kid[n][d] /\ t.kid[n][d] # p /\ t.kid[n][d] # z
      BY <2>9, <2>10, <3>3 DEF Inserting
    <3> QED BY <2>6, <2>10, <3>1, <3>2, <3>3
  <2>11. /\ IsRed(t1, p) /\ IsRed(t1, z) /\ IsBlack(t1, g) /\ IsBlack(t1, Nil)
         /\ IsBlack(t1, t1.kid[g][o]) /\ IsBlack(t1, t1.kid[z][o])
    BY Zenon, <1>0, <1>1, <1>4, <2>4, <2>6, <2>7, <2>9 DEF Inserting, IsBlack
  <2>12. \A d \in Sides : IsRed(t1, t1.kid[z][d]) => t1.kid[z][d] = p
    BY <1>0, <2>4, <2>6, <2>9 DEF IsBlack
  <2>13. t1.root \notin {z, p} /\ (IsRed(t1, t1.root) => p = t1.root)
    BY <1>1, <2>6, <2>9 DEF Inserting
  <2>16. Lifting(t1, L, h, p, z, g, s)
    BY <1>0, <1>5, <2>1, <2>7, <2>10, <2>11, <2>12, <2>13 DEF Lifting
  <2> DEFINE r == Lift(t1, Other(s), g)
  <2>15. r = Lift(t1, Other(s), g)
    OBVIOUS
  <2> HIDE DEF r
  <2>14. InsertTree(rk, r, L, p) /\ ~InsertFixGoesOn(r, p)
    BY <2>1, <2>6, <2>15, <2>16, LiftInserting DEF InsertFixGoesOn, IsBlack
  <2> QED BY <2>8, <2>14, <2>15 DEF f
<1> QED BY <1>2, <1>3, <1>4

\* A red-black tree: heights agree, no two red nodes in a row, a black root.
Balance(t, L, h) ==
  /\ Heights(t, L, h, NULL, "left") /\ IsBlack(t, Nil) /\ IsBlack(t, t.root)
  /\ \A n \in L, s \in Sides : ~(IsRed(t, n) /\ IsRed(t, t.kid[n][s]))

SortedTree(rk, t, L) == \E u, h : Search(rk, t, L, u) /\ Balance(t, L, h)

\* Linking a new node starts the loop of rbtree_insert_fix in its invariant.
THEOREM LinkKeeps ==
  ASSUME NEW rk \in Rankings, NEW t, NEW L, NEW u, Search(rk, t, L, u), NEW h, Balance(t, L, h),
         NEW z \in Keys \ L, NEW y \in L \cup {Nil},
         NEW s \in Sides, y = Nil => t.root = Nil,
         y # Nil => t.kid[y][s] = Nil /\ Before(rk, s, z, y) /\ Fits(rk, L, u, y, z),
         NEW r, r = Link(t, z, y, s)
  PROVE  InsertTree(rk, r, L \cup {z}, z)
<1> DEFINE v == Grown(L, u, z, y)
           M == L \cup {z}
           k == [h EXCEPT ![z] = 1]
<1>1. Search(rk, r, M, v)
  BY LinkSearch
<1>2. z \in Nodes /\ y \in Nodes /\ y # z /\ z \in Keys /\ t \in Trees /\ z # Nil /\ z # NULL
  BY Facts
<1>3. /\ r.root = IF y = Nil THEN z ELSE t.root
      /\ \A n \in Nodes, d \in Sides :
           r.kid[n][d] = IF n = z THEN Nil ELSE IF y # Nil /\ n = y /\ d = s THEN z ELSE t.kid[n][d]
      /\ \A n \in Nodes : r.color[n] = IF n = z THEN "red" ELSE t.color[n]
  BY <1>2, LinkFields
<1> HIDE DEF v, k
<1>4. IsRed(r, z) /\ \A n \in Nodes : n # z => (IsRed(r, n) <=> IsRed(t, n))
  BY <1>2, <1>3 DEF IsRed
<1>5. IsBlack(t, Nil) /\ IsBlack(r, Nil) /\ Nil \in Nodes
  BY <1>2, <1>4, Facts DEF Balance, IsBlack
<1>6. h \in [Nodes -> Nat \ {0}] /\ h[Nil] = 1
  BY DEF Balance, Heights
<1>7. /\ k \in [Nodes -> Nat \ {0}] /\ k[Nil] = 1 /\ k[z] = 1
      /\ \A n \in Nodes : n # z => k[n] = h[n]
  BY <1>2, <1>6 DEF k
<1>8. ASSUME NEW n \in M PROVE HeightAt(r, k, NULL, "left", n)
  <2>1. CASE n = z
    <3>1. r.kid[z]["left"] = Nil /\ r.kid[z][Other("left")] = Nil /\ "left" \in Sides
      BY <1>2, <1>3 DEF Sides, Other
    <3>2. ~IsBlack(r, z)
      BY <1>4 DEF IsBlack
    <3> QED BY <1>2, <1>7, <2>1, <3>1, <3>2, RedHeight
  <2>2. CASE n # z
    <3> SUFFICES ASSUME NEW d \in Sides
                 PROVE  k[n] = k[r.kid[n][d]] + One(n = NULL /\ d = "left") + One(IsBlack(r, n))
      BY DEF HeightAt
    <3>0. n \in L /\ n \in Nodes
      BY <2>2, Facts
    <3>1. h[n] = h[t.kid[n][d]] + One(n = NULL /\ d = "left") + One(IsBlack(t, n))
      BY <3>0 DEF Balance, Heights, HeightAt
    <3>2. k[n] = h[n] /\ (IsBlack(r, n) <=> IsBlack(t, n))
      BY <1>4, <1>7, <2>2, <3>0 DEF IsBlack
    <3>3. k[r.kid[n][d]] = h[t.kid[n][d]]
      <4>1. CASE n = y /\ d = s
        <5>1. r.kid[n][d] = z /\ t.kid[n][d] = Nil
          BY <1>3, <2>2, <3>0, <4>1, Facts
        <5> QED BY <1>6, <1>7, <5>1
      <4>2. CASE ~(n = y /\ d = s)
        <5>1. r.kid[n][d] = t.kid[n][d]
          BY <1>3, <2>2, <3>0, <4>2
        <5>2. t.kid[n][d] \in Nodes /\ t.kid[n][d] # z
          BY <1>2, <3>0, KidFacts
        <5> QED BY <1>7, <5>1, <5>2
      <4> QED BY <4>1, <4>2
    <3> QED BY <3>1, <3>2, <3>3 DEF One
  <2> QED BY <2>1, <2>2
<1>9. ASSUME NEW n \in M, NEW d \in Sides, IsRed(r, n), IsRed(r, r.kid[n][d])
      PROVE  r.kid[n][d] = z
  <2> SUFFICES ASSUME r.kid[n][d] # z PROVE FALSE
    OBVIOUS
  <2>1. n # z
    BY <1>2, <1>3, <1>5, <1>9 DEF IsBlack
  <2>2. n \in L /\ n \in Nodes
    BY <2>1, Facts
  <2>3. r.kid[n][d] = t.kid[n][d]
    BY <1>3, <2>1, <2>2
  <2>4. t.kid[n][d] \in Nodes /\ t.kid[n][d] # z
    BY <2>2, <2>3, KidFacts
  <2>5. IsRed(t, n) /\ IsRed(t, t.kid[n][d])
    BY <1>4, <1>9, <2>1, <2>2, <2>3, <2>4
  <2> QED BY <2>2, <2>5 DEF Balance
<1>10. IsRed(r, r.root) => z = r.root
  <2>1. t.root \in Nodes
    BY Facts
  <2> QED BY <1>3, <1>4, <2>1 DEF Balance, IsBlack
<1>11. Heights(r, M, k, NULL, "left")
  BY <1>7, <1>8 DEF Heights
<1>12. Inserting(r, M, k, z)
  BY <1>4, <1>5, <1>9, <1>10, <1>11 DEF Inserting
<1> QED BY <1>1, <1>12 DEF InsertTree

\* A tree whose only flaw is a red root is red-black once the root is black.
\* n is the root, or was when the loop began.
Rootless(t, L, h) ==
  /\ Heights(t, L, h, NULL, "left") /\ IsBlack(t, Nil)
  /\ \A n \in L, s \in Sides : IsRed(t, n) /\ IsRed(t, t.kid[n][s]) => n = t.root

\* Painting the root black keeps the heights equal.
LEMMA RootHeight ==
  ASSUME NEW rk \in Rankings, NEW t, NEW L, NEW u, Search(rk, t, L, u), NEW h, NEW n, n = t.root,
         Rootless(t, L, h), NEW r, r = SetColor(t, n, "black")
  PROVE  SortedTree(rk, r, L)
<1> DEFINE k == IF IsBlack(t, n) THEN h ELSE [h EXCEPT ![n] = h[n] + 1]
<1>1. t \in Trees /\ n \in Nodes /\ n \in L \cup {Nil} /\ Nil \in Nodes
  BY Facts
<1>2. r \in Trees
  BY <1>1, SetColorType
<1>3. /\ r.root = t.root /\ r.kid = t.kid /\ r.parent = t.parent
      /\ \A m \in Nodes : r.color[m] = IF m = n THEN "black" ELSE t.color[m]
  BY <1>1, SetColorIs
<1>4. Search(rk, r, L, u)
  BY <1>2, <1>3, SearchColor
<1>5. IsBlack(r, n) /\ \A m \in Nodes : m # n => (IsRed(r, m) <=> IsRed(t, m))
  BY <1>1, <1>3 DEF IsRed, IsBlack
<1>6. IsBlack(t, Nil) /\ IsBlack(r, Nil)
  BY <1>1, <1>5 DEF Rootless, IsBlack
<1>7. h \in [Nodes -> Nat \ {0}] /\ h[Nil] = 1
  BY DEF Rootless, Heights
<1>8. /\ k \in [Nodes -> Nat \ {0}] /\ k[Nil] = 1
      /\ k[n] = h[n] + (IF IsBlack(t, n) THEN 0 ELSE 1)
      /\ \A m \in Nodes : m # n => k[m] = h[m]
  <2>1. CASE IsBlack(t, n)
    <3>1. k = h
      BY <2>1
    <3> HIDE DEF k
    <3> QED BY <1>1, <1>7, <2>1, <3>1
  <2>2. CASE ~IsBlack(t, n)
    <3>1. k = [h EXCEPT ![n] = h[n] + 1] /\ n # Nil
      BY <1>6, <2>2
    <3> HIDE DEF k
    <3> QED BY <1>1, <1>7, <2>2, <3>1
  <2> QED BY <2>1, <2>2
<1> HIDE DEF k
<1>9. ASSUME NEW m \in L PROVE HeightAt(r, k, NULL, "left", m)
  <2> SUFFICES ASSUME NEW d \in Sides
               PROVE  k[m] = k[r.kid[m][d]] + One(m = NULL /\ d = "left") + One(IsBlack(r, m))
    BY DEF HeightAt
  <2>0. m \in Nodes /\ m # NULL
    BY Facts
  <2>1. h[m] = h[t.kid[m][d]] + One(m = NULL /\ d = "left") + One(IsBlack(t, m))
    BY DEF Rootless, Heights, HeightAt
  <2>2. k[r.kid[m][d]] = h[t.kid[m][d]] /\ h[t.kid[m][d]] \in Nat
    <3>1. t.kid[m][d] # n /\ t.kid[m][d] \in Nodes
      BY <1>1, <1>6, KidFacts, Facts
    <3>2. n = Nil \/ t.kid[m][d] # n
      BY <3>1
    <3> QED BY <1>3, <1>7, <1>8, <3>1
  <2>3. CASE m = n
    BY <1>5, <1>8, <2>0, <2>1, <2>2, <2>3 DEF One
  <2>4. CASE m # n
    <3>1. k[m] = h[m] /\ (IsBlack(r, m) <=> IsBlack(t, m))
      BY <1>5, <1>8, <2>0, <2>4 DEF IsBlack
    <3> QED BY <2>1, <2>2, <3>1 DEF One
  <2> QED BY <2>3, <2>4
<1>10. Heights(r, L, k, NULL, "left")
  BY <1>8, <1>9 DEF Heights
<1>11. ASSUME NEW m \in L, NEW d \in Sides PROVE ~(IsRed(r, m) /\ IsRed(r, r.kid[m][d]))
  <2> SUFFICES ASSUME IsRed(r, m), IsRed(r, r.kid[m][d]) PROVE FALSE
    OBVIOUS
  <2>1. m # n /\ t.kid[m][d] # n /\ t.kid[m][d] \in Nodes /\ m \in Nodes
    BY <1>3, <1>5, KidFacts, Facts DEF IsBlack
  <2>2. IsRed(t, m) /\ IsRed(t, t.kid[m][d])
    BY <1>3, <1>5, <2>1
  <2> QED BY <2>1, <2>2 DEF Rootless
<1>12. Balance(r, L, k)
  BY <1>3, <1>5, <1>6, <1>10, <1>11 DEF Balance
<1> QED BY <1>4, <1>12 DEF SortedTree

\* Where rbtree_insert_fix ends, the tree is a red-black tree.
THEOREM InsertFixEnds ==
  ASSUME NEW rk \in Rankings, NEW t, NEW L, NEW z, InsertTree(rk, t, L, z), ~InsertFixGoesOn(t, z),
         NEW r, r = SetColor(t, t.root, "black")
  PROVE  SortedTree(rk, r, L)
<1>1. PICK u, h : Search(rk, t, L, u) /\ Inserting(t, L, h, z)
  BY DEF InsertTree
<1>2. ASSUME NEW n \in L, NEW s \in Sides, IsRed(t, n), IsRed(t, t.kid[n][s]) PROVE n = t.root
  <2>1. t.kid[n][s] = z /\ z \in L
    BY <1>1, <1>2 DEF Inserting
  <2>2. t.parent[z] = n
    BY <1>1, <2>1, KidFacts, Facts
  <2> QED BY <1>2, <2>2 DEF InsertFixGoesOn
<1>3. Rootless(t, L, h)
  BY <1>1, <1>2 DEF Rootless, Inserting
<1> QED BY <1>1, <1>3, RootHeight

\* Two nodes in each other's subtree are one.
LEMMA NestedFacts ==
  ASSUME NEW rk \in Rankings, NEW t, NEW L, NEW u, Search(rk, t, L, u), NEW n \in L, NEW m \in u[n]
  PROVE  /\ m \in L /\ u[m] \subseteq u[n] /\ (m # n => t.parent[m] \in u[n]) /\ (n \in u[m] => m = n)
<1>1. m \in L /\ u[m] \subseteq u[n] /\ (m # n => t.parent[m] \in u[n])
  BY NodeFacts DEF Search, Enclosed
<1>2. ASSUME m # n PROVE n \notin u[m]
  <2>1. PICK d \in Sides : m \in u[t.kid[n][d]]
    BY <1>2, NodeFacts
  <2>2. t.kid[n][d] \in L /\ n \notin u[t.kid[n][d]]
    BY <2>1, KidFacts, Facts
  <2>3. u[m] \subseteq u[t.kid[n][d]]
    BY <2>1, <2>2 DEF Search, Enclosed
  <2> QED BY <2>2, <2>3
<1> QED BY <1>1, <1>2

\* rbtree_transplant gives a tree.
LEMMA TransplantType ==
  ASSUME NEW t \in Trees, NEW x \in Nodes, NEW y \in Nodes, t.parent[x] \in Nodes
  PROVE  Transplant(t, x, y) \in Trees
  BY ReplaceType, SetParentType DEF Transplant

\* what it changes
LEMMA TransplantIs ==
  ASSUME NEW t \in Trees, NEW x \in Nodes, NEW y \in Nodes, t.parent[x] \in Nodes,
         NEW r, r = Transplant(t, x, y)
  PROVE  /\ r.color = t.color
         /\ r.root = IF t.parent[x] = Nil THEN y ELSE t.root
         /\ \A k \in Nodes : r.parent[k] = IF k = y THEN t.parent[x] ELSE t.parent[k]
         /\ \A k \in Nodes, d \in Sides :
              r.kid[k][d] = IF t.parent[x] # Nil /\ k = t.parent[x] /\ d = SideOf(t, x) THEN y
                            ELSE t.kid[k][d]
<1> DEFINE q == Replace(t, x, y)
<1>a. q = Replace(t, x, y)
  OBVIOUS
<1>b. r = SetParent(q, y, t.parent[x])
  BY DEF Transplant
<1> HIDE DEF q
<1>1. q \in Trees
  BY <1>a, ReplaceType
<1>2. /\ q.parent = t.parent /\ q.color = t.color
      /\ q.root = IF t.parent[x] = Nil THEN y ELSE t.root
      /\ \A k \in Nodes, d \in Sides :
           q.kid[k][d] = IF t.parent[x] # Nil /\ k = t.parent[x] /\ d = SideOf(t, x) THEN y
                         ELSE t.kid[k][d]
  BY <1>a, ReplaceIs
<1>3. /\ r.root = q.root /\ r.kid = q.kid /\ r.color = q.color
      /\ \A k \in Nodes : r.parent[k] = IF k = y THEN t.parent[x] ELSE q.parent[k]
  BY <1>b, <1>1, SetParentIs
<1> QED BY <1>2, <1>3

\* A node that is forgotten leaves a tree.
LEMMA ForgetType ==
  ASSUME NEW t \in Trees, NEW z \in Nodes
  PROVE  Forget(t, z) \in Trees
<1>1. "left" \in Sides /\ "right" \in Sides
  BY DEF Sides
<1> QED BY <1>1, SetKidType, SetParentType, SetColorType DEF Forget

\* what it changes
LEMMA ForgetIs ==
  ASSUME NEW t \in Trees, NEW z \in Nodes, NEW r, r = Forget(t, z)
  PROVE  /\ r.root = t.root
         /\ \A k \in Nodes, d \in Sides : r.kid[k][d] = IF k = z THEN NULL ELSE t.kid[k][d]
         /\ \A k \in Nodes : r.parent[k] = IF k = z THEN NULL ELSE t.parent[k]
         /\ \A k \in Nodes : r.color[k] = IF k = z THEN "red" ELSE t.color[k]
<1> DEFINE q1 == SetKid(t, z, "left", NULL)
           q2 == SetKid(q1, z, "right", NULL)
           q3 == SetParent(q2, z, NULL)
<1>a. q1 = SetKid(t, z, "left", NULL)
  OBVIOUS
<1>b. q2 = SetKid(q1, z, "right", NULL)
  OBVIOUS
<1>c. q3 = SetParent(q2, z, NULL)
  OBVIOUS
<1>d. r = SetColor(q3, z, "red")
  BY DEF Forget
<1> HIDE DEF q1, q2, q3
<1>1. "left" \in Sides /\ "right" \in Sides /\ \A d \in Sides : d = "left" \/ d = "right"
  BY DEF Sides
<1>2. q1 \in Trees
  BY <1>a, <1>1, SetKidType
<1>3. /\ q1.root = t.root /\ q1.parent = t.parent /\ q1.color = t.color
      /\ \A k \in Nodes, d \in Sides : q1.kid[k][d] = IF k = z /\ d = "left" THEN NULL ELSE t.kid[k][d]
  BY <1>a, <1>1, SetKidIs
<1>4. q2 \in Trees
  BY <1>b, <1>1, <1>2, SetKidType
<1>5. /\ q2.root = q1.root /\ q2.parent = q1.parent /\ q2.color = q1.color
      /\ \A k \in Nodes, d \in Sides : q2.kid[k][d] = IF k = z /\ d = "right" THEN NULL ELSE q1.kid[k][d]
  BY <1>b, <1>1, <1>2, SetKidIs
<1>6. q3 \in Trees
  BY <1>c, <1>4, SetParentType
<1>7. /\ q3.root = q2.root /\ q3.kid = q2.kid /\ q3.color = q2.color
      /\ \A k \in Nodes : q3.parent[k] = IF k = z THEN NULL ELSE q2.parent[k]
  BY <1>c, <1>4, SetParentIs
<1>8. /\ r.root = q3.root /\ r.kid = q3.kid /\ r.parent = q3.parent
      /\ \A k \in Nodes : r.color[k] = IF k = z THEN "red" ELSE q3.color[k]
  BY <1>d, <1>6, SetColorIs
<1> QED BY <1>1, <1>3, <1>5, <1>7, <1>8

-----------------------------------------------------------------------------
(* A node with at most one child leaves the tree. *)

Splice(t, z, s) == Forget(Transplant(t, z, t.kid[z][Other(s)]), z)
Without(L, u, z) == [n \in Nodes |-> u[n] \ {z}]

\* the fields of a tree from which a node with one child at most has gone
LEMMA SpliceFields ==
  ASSUME NEW rk \in Rankings, NEW t, NEW L, NEW u, Search(rk, t, L, u), NEW s \in Sides, NEW z \in L,
         NEW v, v = t.kid[z][Other(s)], NEW r, r = Splice(t, z, s)
  PROVE  /\ r \in Trees
         /\ r.root = IF z = t.root THEN v ELSE t.root
         /\ \A k \in Nodes, d \in Sides :
              r.kid[k][d] = IF k = z THEN NULL
                            ELSE IF z # t.root /\ k = t.parent[z] /\ d = SideOf(t, z) THEN v
                            ELSE t.kid[k][d]
         /\ \A k \in Nodes : r.parent[k] = IF k = z THEN NULL ELSE IF k = v THEN t.parent[z]
                                           ELSE t.parent[k]
         /\ \A k \in Nodes : r.color[k] = IF k = z THEN "red" ELSE t.color[k]
<1> DEFINE q == Transplant(t, z, v)
<1>a. q = Transplant(t, z, v)
  OBVIOUS
<1>b. r = Forget(q, z)
  BY DEF Splice
<1> HIDE DEF q
<1>1. t \in Trees /\ z \in Nodes /\ t.parent[z] \in Nodes /\ (t.parent[z] = Nil <=> z = t.root)
  BY Facts, NodeFacts
<1>2. v \in Nodes /\ v # z
  BY SidesAre, KidFacts
<1>3. q \in Trees
  BY <1>a, <1>1, <1>2, TransplantType
<1>4. /\ q.color = t.color
      /\ q.root = IF t.parent[z] = Nil THEN v ELSE t.root
      /\ \A k \in Nodes : q.parent[k] = IF k = v THEN t.parent[z] ELSE t.parent[k]
      /\ \A k \in Nodes, d \in Sides :
           q.kid[k][d] = IF t.parent[z] # Nil /\ k = t.parent[z] /\ d = SideOf(t, z) THEN v
                         ELSE t.kid[k][d]
  BY <1>a, <1>1, <1>2, TransplantIs
<1>5. r \in Trees
  BY <1>b, <1>1, <1>3, ForgetType
<1>6. /\ r.root = q.root
      /\ \A k \in Nodes, d \in Sides : r.kid[k][d] = IF k = z THEN NULL ELSE q.kid[k][d]
      /\ \A k \in Nodes : r.parent[k] = IF k = z THEN NULL ELSE q.parent[k]
      /\ \A k \in Nodes : r.color[k] = IF k = z THEN "red" ELSE q.color[k]
  BY <1>b, <1>1, <1>3, ForgetIs
<1>7. r.root = IF z = t.root THEN v ELSE t.root
  BY <1>1, <1>4, <1>6
<1> QED BY <1>1, <1>2, <1>4, <1>5, <1>6, <1>7

\* the nodes around z, before and after it is spliced out
Spliced(t, L, s, z, v, r) ==
  /\ v = t.kid[z][Other(s)] /\ v \in L \cup {Nil} /\ v # z
  /\ r \in Trees /\ r.root = IF z = t.root THEN v ELSE t.root
  /\ \A n \in L, d \in Sides : n # z =>
       \/ t.kid[n][d] = z /\ r.kid[n][d] = v /\ z # t.root /\ n = t.parent[z] /\ d = SideOf(t, z)
       \/ r.kid[n][d] = t.kid[n][d] /\ t.kid[n][d] # z
  /\ \A k \in Keys \ L : \A d \in Sides : r.kid[k][d] = t.kid[k][d]
  /\ \A d \in Sides : r.kid[z][d] = NULL
  /\ \A k \in Nodes : r.parent[k] = IF k = z THEN NULL ELSE IF k = v THEN t.parent[z]
                                    ELSE t.parent[k]
  /\ \A k \in Nodes : r.color[k] = IF k = z THEN "red" ELSE t.color[k]

\* the child pointers of that tree
LEMMA SpliceKids ==
  ASSUME NEW rk \in Rankings, NEW t, NEW L, NEW u, Search(rk, t, L, u), NEW s \in Sides, NEW z \in L,
         NEW v, v = t.kid[z][Other(s)], NEW r, r = Splice(t, z, s)
  PROVE  Spliced(t, L, s, z, v, r)
<1>1. /\ r \in Trees
      /\ r.root = IF z = t.root THEN v ELSE t.root
      /\ \A k \in Nodes, d \in Sides :
           r.kid[k][d] = IF k = z THEN NULL
                         ELSE IF z # t.root /\ k = t.parent[z] /\ d = SideOf(t, z) THEN v
                         ELSE t.kid[k][d]
      /\ \A k \in Nodes : r.parent[k] = IF k = z THEN NULL ELSE IF k = v THEN t.parent[z]
                                        ELSE t.parent[k]
      /\ \A k \in Nodes : r.color[k] = IF k = z THEN "red" ELSE t.color[k]
  BY SpliceFields
<1>2. z \in Nodes /\ z # Nil /\ v \in L \cup {Nil} /\ v # z
  BY SidesAre, KidFacts, Facts
<1>3. \A n \in L, d \in Sides : t.kid[n][d] = z =>
        z # t.root /\ n = t.parent[z] /\ d = SideOf(t, z)
  BY <1>2, KidFacts, Above
<1>4. z # t.root => t.parent[z] \in L /\ t.kid[t.parent[z]][SideOf(t, z)] = z
  BY Above
<1>5. \A n \in L, d \in Sides : n # z =>
        \/ t.kid[n][d] = z /\ r.kid[n][d] = v /\ z # t.root /\ n = t.parent[z] /\ d = SideOf(t, z)
        \/ r.kid[n][d] = t.kid[n][d] /\ t.kid[n][d] # z
  BY <1>1, <1>3, <1>4, Facts
<1>6. \A k \in Keys \ L : \A d \in Sides : r.kid[k][d] = t.kid[k][d]
  BY <1>1, <1>4, Facts
<1> QED BY <1>1, <1>2, <1>5, <1>6 DEF Spliced

\* That tree is in search order.
LEMMA SpliceSearch ==
  ASSUME NEW rk \in Rankings, NEW t, NEW L, NEW u, Search(rk, t, L, u), NEW s \in Sides,
         NEW z \in L, t.kid[z][s] = Nil,
         NEW v, NEW r, Spliced(t, L, s, z, v, r)
  PROVE  Search(rk, r, L \ {z}, Without(L, u, z))
<1> DEFINE w == Without(L, u, z)
           M == L \ {z}
<1>0. s \in Sides /\ Other(s) \in Sides /\ Other(s) # s /\ \A d \in Sides : d = s \/ d = Other(s)
  BY SidesAre
<1>1. /\ w \in [Nodes -> SUBSET M] /\ w[Nil] = {}
      /\ \A n \in Nodes : w[n] = u[n] \ {z}
  BY Facts DEF Without
<1> HIDE DEF w
<1>2. /\ v = t.kid[z][Other(s)] /\ v \in L \cup {Nil} /\ v # z
      /\ r \in Trees /\ r.root = IF z = t.root THEN v ELSE t.root
      /\ \A n \in L, d \in Sides : n # z =>
           \/ t.kid[n][d] = z /\ r.kid[n][d] = v /\ z # t.root /\ n = t.parent[z] /\ d = SideOf(t, z)
           \/ r.kid[n][d] = t.kid[n][d] /\ t.kid[n][d] # z
      /\ \A k \in Nodes : r.parent[k] = IF k = z THEN NULL ELSE IF k = v THEN t.parent[z]
                                        ELSE t.parent[k]
  BY DEF Spliced
<1>3. /\ z \in Nodes /\ z # Nil /\ v \in M \cup {Nil} /\ v \in Nodes /\ z \notin u[v]
      /\ u[z] = {z} \cup u[v] /\ w[z] = w[v]
  <2>1. z \in u[z] /\ \A m \in u[z] : m = z \/ m \in u[t.kid[z][s]] \/ m \in u[v]
    BY <1>0, <1>2, NodeFacts
  <2>2. u[v] \subseteq u[z] /\ z \notin u[v]
    BY <1>0, <1>2, KidFacts
  <2>3. u[t.kid[z][s]] = {}
    BY Facts
  <2>4. u[z] = {z} \cup u[v]
    BY <2>1, <2>2, <2>3
  <2>5. z \in Nodes /\ z # Nil /\ v \in M \cup {Nil} /\ v \in Nodes
    BY <1>2, Facts
  <2> QED BY <1>1, <2>2, <2>4, <2>5
<1>4. ASSUME NEW n \in M, NEW d \in Sides
      PROVE  r.kid[n][d] \in M \cup {Nil} /\ w[r.kid[n][d]] = u[t.kid[n][d]] \ {z}
  <2>1. t.kid[n][d] \in L \cup {Nil} /\ t.kid[n][d] \in Nodes
    BY KidFacts
  <2>2. CASE t.kid[n][d] = z /\ r.kid[n][d] = v
    BY <1>1, <1>3, <2>2
  <2>3. CASE r.kid[n][d] = t.kid[n][d] /\ t.kid[n][d] # z
    BY <1>1, <2>1, <2>3
  <2> QED BY <1>2, <2>2, <2>3
<1>5. KidsOK(rk, r, M, w)
  <2> SUFFICES ASSUME NEW n \in M
               PROVE  /\ n \in w[n] /\ w[n] \subseteq M
                      /\ \A d \in Sides : /\ r.kid[n][d] \in M \cup {Nil}
                                          /\ w[r.kid[n][d]] \subseteq w[n]
                                          /\ \A m \in w[r.kid[n][d]] : Before(rk, d, m, n)
                      /\ \A m \in w[n] : m = n \/ \E d \in Sides : m \in w[r.kid[n][d]]
    BY DEF KidsOK
  <2>1. n \in w[n] /\ w[n] \subseteq M
    BY <1>1, NodeFacts
  <2>2. ASSUME NEW d \in Sides
        PROVE  /\ r.kid[n][d] \in M \cup {Nil} /\ w[r.kid[n][d]] \subseteq w[n]
               /\ \A m \in w[r.kid[n][d]] : Before(rk, d, m, n)
    BY <1>1, <1>4, KidFacts, Facts
  <2>3. \A m \in w[n] : m = n \/ \E d \in Sides : m \in w[r.kid[n][d]]
    <3> SUFFICES ASSUME NEW m \in w[n], m # n PROVE \E d \in Sides : m \in w[r.kid[n][d]]
      OBVIOUS
    <3>1. m \in u[n] /\ m # z
      BY <1>1, Facts
    <3>2. PICK d \in Sides : m \in u[t.kid[n][d]]
      BY <3>1, NodeFacts
    <3> QED BY <1>4, <3>1, <3>2
  <2> QED BY <2>1, <2>2, <2>3
<1>6. v # Nil => t.parent[v] = z /\ v # t.root
  BY <1>0, <1>2, KidFacts
<1>7. ParentsOK(r, M)
  <2>1. r.root # Nil => r.parent[r.root] = Nil
    <3>1. CASE z = t.root
      BY <1>2, <1>3, <3>1, NodeFacts
    <3>2. CASE z # t.root
      <4>1. t.root \in L /\ t.root # v /\ t.root \in Nodes
        BY <1>6, <3>2, Facts
      <4> QED BY <1>2, <3>2, <4>1, NodeFacts
    <3> QED BY <3>1, <3>2
  <2>2. ASSUME NEW n \in M, NEW d \in Sides, r.kid[n][d] # Nil PROVE r.parent[r.kid[n][d]] = n
    <3>1. CASE r.kid[n][d] = v /\ n = t.parent[z]
      BY <1>2, <1>3, <3>1
    <3>2. CASE r.kid[n][d] = t.kid[n][d] /\ t.kid[n][d] # z
      <4>1. t.kid[n][d] \in L /\ t.parent[t.kid[n][d]] = n
        BY <2>2, <3>2, KidFacts
      <4>2. t.kid[n][d] # v
        BY <1>6, <2>2, <3>2, <4>1
      <4> QED BY <1>2, <3>2, <4>1, <4>2, Facts
    <3> QED BY <1>2, <3>1, <3>2
  <2>3. ASSUME NEW n \in M \ {r.root}
        PROVE  r.parent[n] \in M /\ \E d \in Sides : r.kid[r.parent[n]][d] = n
    <3>1. CASE n = v
      <4>1. z # t.root
        BY <1>2, <2>3, <3>1
      <4>2. /\ t.parent[z] \in L /\ SideOf(t, z) \in Sides /\ t.kid[t.parent[z]][SideOf(t, z)] = z
        BY <4>1, Above
      <4>3. t.parent[z] # z
        BY <4>2, KidFacts
      <4> QED BY <1>2, <1>3, <3>1, <4>2, <4>3
    <3>2. CASE n # v
      <4>1. n # t.root
        BY <1>2, <2>3, <3>2, Facts
      <4>2. /\ t.parent[n] \in L /\ SideOf(t, n) \in Sides /\ t.kid[t.parent[n]][SideOf(t, n)] = n
            /\ r.parent[n] = t.parent[n]
        BY <1>2, <3>2, <4>1, Above, Facts
      <4>3. t.parent[n] # z
        <5>1. n # Nil
          BY Facts
        <5> QED BY <1>0, <1>2, <3>2, <4>2, <5>1
      <4> QED BY <1>2, <4>2, <4>3
    <3> QED BY <3>1, <3>2
  <2> QED BY <2>1, <2>2, <2>3 DEF ParentsOK
<1>8. Enclosed(r, M, w)
  <2> SUFFICES ASSUME NEW n \in M, NEW m \in w[n]
               PROVE  w[m] \subseteq w[n] /\ (m # n => r.parent[m] \in w[n])
    BY DEF Enclosed
  <2>1. m \in u[n] /\ m # z /\ m \in L /\ n \in Nodes /\ m \in Nodes
    BY <1>1, Facts
  <2>2. u[m] \subseteq u[n] /\ (m # n => t.parent[m] \in u[n])
    BY <2>1, NestedFacts
  <2>3. ASSUME m # n PROVE r.parent[m] \in w[n]
    <3>1. CASE m = v
      <4>1. z \in u[n]
        BY <1>3, <1>6, <2>1, <2>2, <2>3, <3>1, Facts
      <4>2. t.parent[z] \in u[n]
        BY <4>1, NestedFacts
      <4>3. t.parent[z] # z
        <5>1. z # t.root
          BY <4>2, NodeFacts, Facts
        <5>2. t.parent[z] \in L /\ SideOf(t, z) \in Sides /\ t.kid[t.parent[z]][SideOf(t, z)] = z
          BY <5>1, Above
        <5> QED BY <5>2, KidFacts
      <4> QED BY <1>1, <1>2, <2>1, <3>1, <4>2, <4>3
    <3>2. CASE m # v
      <4>1. t.parent[m] # z
        <5>1. m # t.root
          BY <2>1, <2>2, <2>3, NodeFacts, Facts
        <5>2. SideOf(t, m) \in Sides /\ t.kid[t.parent[m]][SideOf(t, m)] = m
          BY <2>1, <5>1, Above
        <5> QED BY <1>0, <1>2, <2>1, <3>2, <5>2, Facts
      <4> QED BY <1>1, <1>2, <2>1, <2>2, <2>3, <3>2, <4>1
    <3> QED BY <3>1, <3>2
  <2> QED BY <1>1, <2>1, <2>2, <2>3
<1>9. \A k \in Keys \ M : r.parent[k] = NULL /\ \A d \in Sides : r.kid[k][d] = NULL
  <2>1. \A k \in Keys \ L : t.parent[k] = NULL /\ \A d \in Sides : t.kid[k][d] = NULL
    BY DEF Search
  <2>2. \A k \in Keys \ L : \A d \in Sides : r.kid[k][d] = t.kid[k][d]
    BY DEF Spliced
  <2>3. \A d \in Sides : r.kid[z][d] = NULL
    BY DEF Spliced
  <2> QED BY <1>2, <1>3, <2>1, <2>2, <2>3, Facts
<1>10. r.root \in M \cup {Nil} /\ w[r.root] = M
  <2>1. CASE z = t.root
    BY <1>1, <1>2, <1>3, <2>1, Facts
  <2>2. CASE z # t.root
    BY <1>1, <1>2, <2>2, Facts
  <2> QED BY <2>1, <2>2
<1>11. M \subseteq Keys
  BY Facts
<1> QED BY <1>1, <1>2, <1>5, <1>7, <1>8, <1>9, <1>10, <1>11, SearchIs DEF w

\* Every set of natural numbers has a least one.
LEMMA NatMin ==
  ASSUME NEW T, T \subseteq Nat, T # {} PROVE \E x \in T : \A y \in T : x <= y
<1> DEFINE R == OpToRel(<, Nat)
<1>1. IsWellFoundedOn(R, Nat)
  BY Zenon, NatLessThanWellFounded
<1> HIDE DEF R
<1>2. PICK x \in T : \A y \in T : ~(<<y, x>> \in R)
  BY <1>1, WFMin
<1>3. ASSUME NEW y \in T, ~(x <= y) PROVE FALSE
  <2>1. x \in Nat /\ y \in Nat /\ y < x
    BY <1>3
  <2>2. <<y, x>> \in R
    BY <2>1 DEF R, OpToRel
  <2> QED BY <1>2, <2>2
<1> QED BY <1>2, <1>3

\* A node of S with no other node of S below it.
LEMMA Lowest ==
  ASSUME NEW rk \in Rankings, NEW t, NEW L, NEW u, Search(rk, t, L, u), NEW S \in SUBSET L, S # {}
  PROVE  \E n \in S : \A m \in S : m \in u[n] => m = n
<1>1. \A n \in L : IsFiniteSet(u[n]) /\ Cardinality(u[n]) \in Nat
  BY KeysAssumption, Facts, FS_Subset, FS_CardinalityType
<1> DEFINE C == {Cardinality(u[n]) : n \in S}
<1>a. C \subseteq Nat /\ C # {}
  BY <1>1
<1>2. PICK c \in C : \A d \in C : c <= d
  <2> HIDE DEF C
  <2> QED BY <1>a, NatMin
<1>3. PICK n \in S : c = Cardinality(u[n])
  BY <1>2
<1>b. \A m \in S : Cardinality(u[n]) <= Cardinality(u[m])
  BY <1>2, <1>3
<1> HIDE DEF C
<1>4. ASSUME NEW m \in S, m \in u[n], m # n PROVE FALSE
  <2>1. u[m] \subseteq u[n] /\ n \notin u[m] /\ n \in u[n]
    BY <1>4, NestedFacts, NodeFacts
  <2>2. u[m] # u[n] /\ m \in L /\ n \in L
    BY <2>1
  <2>3. Cardinality(u[m]) <= Cardinality(u[n]) /\ Cardinality(u[m]) # Cardinality(u[n])
    BY <1>1, <2>1, <2>2, FS_Subset
  <2>4. Cardinality(u[n]) <= Cardinality(u[m]) /\ Cardinality(u[n]) \in Nat /\ Cardinality(u[m]) \in Nat
    BY <1>1, <1>b, <2>2
  <2> QED BY <2>3, <2>4
<1> QED BY <1>4

\* A node of S that is below no other node of S.
LEMMA Highest ==
  ASSUME NEW rk \in Rankings, NEW t, NEW L, NEW u, Search(rk, t, L, u), NEW S \in SUBSET L, S # {}
  PROVE  \E n \in S : \A m \in S : n \in u[m] => m = n
<1>0. IsFiniteSet(L)
  BY KeysAssumption, Facts, FS_Subset
<1>1. \A n \in L : IsFiniteSet(L \ u[n]) /\ Cardinality(L \ u[n]) \in Nat
  BY <1>0, FS_Subset, FS_CardinalityType
<1> DEFINE C == {Cardinality(L \ u[n]) : n \in S}
<1>a. C \subseteq Nat /\ C # {}
  BY <1>1
<1>2. PICK c \in C : \A d \in C : c <= d
  <2> HIDE DEF C
  <2> QED BY <1>a, NatMin
<1>3. PICK n \in S : c = Cardinality(L \ u[n])
  BY <1>2
<1>b. \A m \in S : Cardinality(L \ u[n]) <= Cardinality(L \ u[m])
  BY <1>2, <1>3
<1> HIDE DEF C
<1>4. ASSUME NEW m \in S, n \in u[m], m # n PROVE FALSE
  <2>1. u[n] \subseteq u[m] /\ m \notin u[n] /\ m \in u[m] /\ m \in L
    BY <1>4, NestedFacts, NodeFacts
  <2>2. L \ u[m] \subseteq L \ u[n] /\ L \ u[m] # L \ u[n]
    BY <2>1
  <2>3. Cardinality(L \ u[m]) <= Cardinality(L \ u[n]) /\ Cardinality(L \ u[m]) # Cardinality(L \ u[n])
    BY <1>1, <2>2, FS_Subset
  <2>4. /\ Cardinality(L \ u[n]) <= Cardinality(L \ u[m])
        /\ Cardinality(L \ u[n]) \in Nat /\ Cardinality(L \ u[m]) \in Nat
    BY <1>1, <1>b, <2>1
  <2> QED BY <2>3, <2>4
<1> QED BY <1>4

\* Two subtrees are apart unless one is within the other.
LEMMA Laminar ==
  ASSUME NEW rk \in Rankings, NEW t, NEW L, NEW u, Search(rk, t, L, u), NEW n \in L, NEW m \in L,
         NEW a \in u[n], a \in u[m]
  PROVE  n \in u[m] \/ m \in u[n]
<1> DEFINE S == u[n] \cap u[m]
<1>1. S \in SUBSET L /\ S # {}
  BY NodeFacts
<1> HIDE DEF S
<1>2. PICK k \in S : \A j \in S : k \in u[j] => j = k
  BY <1>1, Highest
<1>3. k \in u[n] /\ k \in u[m] /\ k \in L
  BY <1>1 DEF S
<1> SUFFICES ASSUME k # n, k # m PROVE FALSE
  BY <1>3
<1>4. t.parent[k] \in S
  BY <1>3, NestedFacts DEF S
<1>5. t.parent[k] # Nil
  BY <1>1, <1>4, Facts
<1>6. SideOf(t, k) \in Sides /\ t.kid[t.parent[k]][SideOf(t, k)] = k /\ t.parent[k] \in L
  BY <1>3, <1>5, NodeFacts, Above
<1>7. k \in u[t.parent[k]] /\ t.parent[k] # k
  BY <1>3, <1>6, KidFacts, NodeFacts
<1> QED BY <1>2, <1>4, <1>7

-----------------------------------------------------------------------------
(* The walk along one side: rbtree_min and the loop of RBTree_max *)

\* a is the key of S that is first when s is "left", last when s is "right".
Edge(rk, s, S, a) == a \in S /\ \A b \in S : b # a => Before(rk, s, a, b)

Steps(t, s, f) == f = [m \in Keys |-> IF t.kid[m][s] \in Keys THEN f[t.kid[m][s]] ELSE m]

\* The edge of a subtree is the edge of the subtree of the child on the side.
LEMMA EdgeStep ==
  ASSUME NEW rk \in Rankings, NEW t, NEW L, NEW u, Search(rk, t, L, u), NEW s \in Sides, NEW n \in L
  PROVE  /\ t.kid[n][s] \notin Keys => Edge(rk, s, u[n], n)
         /\ t.kid[n][s] \in Keys =>
              /\ t.kid[n][s] \in L
              /\ \A a : Edge(rk, s, u[t.kid[n][s]], a) => Edge(rk, s, u[n], a)
<1>0. s \in Sides /\ Other(s) \in Sides /\ \A d \in Sides : d = s \/ d = Other(s)
  BY SidesAre
<1>1. /\ n \in u[n] /\ n \in Int
      /\ \A m \in u[n] : m = n \/ m \in u[t.kid[n][s]] \/ m \in u[t.kid[n][Other(s)]]
  BY <1>0, NodeFacts
<1>2. /\ \A m \in u[t.kid[n][s]] : Before(rk, s, m, n) /\ m \in u[n]
      /\ \A m \in u[t.kid[n][Other(s)]] : Before(rk, Other(s), m, n)
  BY <1>0, KidFacts
<1>3. \A m \in u[n] : m \in Int
  BY Facts
<1>4. \A m \in u[n] : m \in u[t.kid[n][Other(s)]] => Before(rk, s, n, m)
  BY <1>0, <1>1, <1>2, <1>3, BeforeIs
<1>5. ASSUME t.kid[n][s] \notin Keys PROVE Edge(rk, s, u[n], n)
  <2>1. u[t.kid[n][s]] = {}
    BY <1>5, KidFacts, Facts
  <2> QED BY <1>1, <1>4, <2>1 DEF Edge
<1>6. ASSUME t.kid[n][s] \in Keys
      PROVE  t.kid[n][s] \in L /\ \A a : Edge(rk, s, u[t.kid[n][s]], a) => Edge(rk, s, u[n], a)
  <2>1. t.kid[n][s] \in L
    BY <1>6, KidFacts, Facts
  <2>2. ASSUME NEW a, Edge(rk, s, u[t.kid[n][s]], a) PROVE Edge(rk, s, u[n], a)
    <3>1. a \in u[n] /\ Before(rk, s, a, n) /\ a \in Int
      BY <1>2, <1>3, <2>2 DEF Edge
    <3>2. ASSUME NEW b \in u[n], b # a PROVE Before(rk, s, a, b)
      <4>1. CASE b = n
        BY <3>1, <4>1
      <4>2. CASE b \in u[t.kid[n][s]]
        BY <2>2, <3>2, <4>2 DEF Edge
      <4>3. CASE b \in u[t.kid[n][Other(s)]]
        BY <1>1, <1>3, <1>4, <3>1, <4>3, BeforeIs
      <4> QED BY <1>1, <4>1, <4>2, <4>3
    <3> QED BY <3>1, <3>2 DEF Edge
  <2> QED BY <2>1, <2>2
<1> QED BY <1>5, <1>6

\* A subtree has a first and a last key.
LEMMA EdgeExists ==
  ASSUME NEW rk \in Rankings, NEW t, NEW L, NEW u, Search(rk, t, L, u), NEW s \in Sides, NEW n \in L
  PROVE  \E a : Edge(rk, s, u[n], a)
<1> DEFINE S == {m \in L : ~\E a : Edge(rk, s, u[m], a)}
<1> SUFFICES ASSUME S # {} PROVE FALSE
  OBVIOUS
<1>1. PICK m \in S : \A j \in S : j \in u[m] => j = m
  <2>1. S \in SUBSET L
    OBVIOUS
  <2> HIDE DEF S
  <2> QED BY <2>1, Lowest
<1>2. m \in L /\ ~\E a : Edge(rk, s, u[m], a)
  BY <1>1
<1>3. t.kid[m][s] \in Keys /\ t.kid[m][s] \in L
  BY <1>2, EdgeStep
<1>4. t.kid[m][s] \in u[m] /\ t.kid[m][s] # m
  BY <1>2, <1>3, KidFacts, NodeFacts
<1>5. \E a : Edge(rk, s, u[t.kid[m][s]], a)
  BY <1>1, <1>3, <1>4
<1> QED BY <1>2, <1>3, <1>5, EdgeStep

\* There is one first and one last key.
LEMMA EdgeOnly ==
  ASSUME NEW rk \in Rankings, NEW s \in Sides, NEW S \in SUBSET Int, NEW a, NEW b,
         Edge(rk, s, S, a), Edge(rk, s, S, b)
  PROVE  a = b
<1>1. a # b => Before(rk, s, a, b) /\ Before(rk, s, b, a) /\ a \in Int /\ b \in Int
  BY DEF Edge
<1> QED BY <1>1, BeforeIs

\* A walk along one side ends at the edge.
LEMMA WalkIs ==
  ASSUME NEW rk \in Rankings, NEW t, NEW L, NEW u, Search(rk, t, L, u), NEW s \in Sides, NEW f,
         f = CHOOSE g : Steps(t, s, g)
  PROVE  \A n \in L : Edge(rk, s, u[n], f[n])
<1>0. \A n \in L : \E a : Edge(rk, s, u[n], a)
  BY EdgeExists
<1> DEFINE e(n) == CHOOSE a : Edge(rk, s, u[n], a)
           g == [m \in Keys |-> IF m \in L THEN e(m) ELSE m]
<1>1. \A n \in L : Edge(rk, s, u[n], e(n))
  BY <1>0
<1>2. \A n, a : n \in L /\ Edge(rk, s, u[n], a) => a = e(n)
  <2>1. \A n \in L : u[n] \in SUBSET Int
    BY Facts
  <2> QED BY <1>1, <2>1, EdgeOnly
<1> HIDE DEF e
<1>3. ASSUME NEW m \in Keys PROVE g[m] = IF t.kid[m][s] \in Keys THEN g[t.kid[m][s]] ELSE m
  <2>1. CASE m \in L /\ t.kid[m][s] \in Keys
    <3>1. t.kid[m][s] \in L /\ Edge(rk, s, u[m], e(t.kid[m][s]))
      BY <1>1, <2>1, EdgeStep
    <3> QED BY <1>2, <2>1, <3>1
  <2>2. CASE m \in L /\ t.kid[m][s] \notin Keys
    BY <1>2, <2>2, EdgeStep
  <2>3. CASE m \notin L
    <3>1. t.kid[m][s] \notin Keys
      BY <2>3, NilAssumption DEF Search
    <3> QED BY <2>3, <3>1
  <2> QED BY <2>1, <2>2, <2>3
<1>4. Steps(t, s, g)
  BY <1>3 DEF Steps
<1>5. Steps(t, s, f)
  BY <1>4
<1>6. f = [m \in Keys |-> IF t.kid[m][s] \in Keys THEN f[t.kid[m][s]] ELSE m]
  BY <1>5 DEF Steps
<1> DEFINE S == {m \in L : ~Edge(rk, s, u[m], f[m])}
<1> SUFFICES ASSUME S # {} PROVE FALSE
  OBVIOUS
<1>7. PICK m \in S : \A j \in S : j \in u[m] => j = m
  <2>1. S \in SUBSET L
    OBVIOUS
  <2> HIDE DEF S
  <2> QED BY <2>1, Lowest
<1>8. m \in Keys /\ m \in L /\ ~Edge(rk, s, u[m], f[m])
  BY <1>7, Facts
<1>9. f[m] = IF t.kid[m][s] \in Keys THEN f[t.kid[m][s]] ELSE m
  BY <1>6, <1>8
<1>10. CASE t.kid[m][s] \in Keys
  <2>1. t.kid[m][s] \in L
    BY <1>8, <1>10, EdgeStep
  <2>2. t.kid[m][s] \in u[m] /\ t.kid[m][s] # m
    BY <1>8, <2>1, KidFacts, NodeFacts
  <2>3. Edge(rk, s, u[t.kid[m][s]], f[t.kid[m][s]])
    BY <1>7, <2>1, <2>2
  <2> QED BY <1>8, <1>9, <1>10, <2>3, EdgeStep
<1>11. CASE t.kid[m][s] \notin Keys
  BY <1>8, <1>9, <1>11, EdgeStep
<1> QED BY <1>10, <1>11

\* rbtree_min finds the first key below n, the walk of RBTree_max the last.
THEOREM LeastIs ==
  ASSUME NEW rk \in Rankings, NEW t, NEW L, NEW u, Search(rk, t, L, u), NEW n \in L
  PROVE  /\ Edge(rk, "left", u[n], Least(t, n)) /\ t.kid[Least(t, n)]["left"] = Nil
         /\ Edge(rk, "right", u[n], Greatest(t, n)) /\ t.kid[Greatest(t, n)]["right"] = Nil
<1>0. "left" \in Sides /\ "right" \in Sides
  BY DEF Sides
<1> DEFINE f == CHOOSE g : Steps(t, "left", g)
           h == CHOOSE g : Steps(t, "right", g)
<1>1. Least(t, n) = f[n]
  BY DEF Least, Steps
<1>2. Greatest(t, n) = h[n]
  BY DEF Greatest, Steps
<1>f. f = CHOOSE g : Steps(t, "left", g)
  OBVIOUS
<1>h. h = CHOOSE g : Steps(t, "right", g)
  OBVIOUS
<1> HIDE DEF f, h
<1>3. Edge(rk, "left", u[n], f[n])
  BY <1>0, <1>f, WalkIs
<1>4. Edge(rk, "right", u[n], h[n])
  BY <1>0, <1>h, WalkIs
<1>5. ASSUME NEW s \in Sides, NEW a, Edge(rk, s, u[n], a) PROVE t.kid[a][s] = Nil
  <2>1. a \in u[n] /\ a \in L /\ u[a] \subseteq u[n] /\ a \in Int
    BY <1>5, NestedFacts, NodeFacts DEF Edge
  <2> SUFFICES ASSUME t.kid[a][s] # Nil PROVE FALSE
    OBVIOUS
  <2>2. t.kid[a][s] \in L /\ Before(rk, s, t.kid[a][s], a) /\ t.kid[a][s] # a /\ t.kid[a][s] \in Int
    BY <2>1, KidFacts, NodeFacts
  <2>3. t.kid[a][s] \in u[n]
    BY <2>1, <2>2, KidFacts, NodeFacts
  <2>4. Before(rk, s, a, t.kid[a][s])
    BY <1>5, <2>2, <2>3 DEF Edge
  <2> QED BY <2>1, <2>2, <2>4, BeforeIs
<1> QED BY <1>0, <1>1, <1>2, <1>3, <1>4, <1>5

-----------------------------------------------------------------------------
(* Where a key belongs *)

\* A key outside a subtree is on one side of all of it.
LEMMA Apart ==
  ASSUME NEW rk \in Rankings, NEW t, NEW L, NEW u, Search(rk, t, L, u), NEW n \in L, NEW k \in L,
         k \notin u[n]
  PROVE  \E d \in Sides : \A a \in u[n] : Before(rk, d, k, a)
<1> DEFINE S == {m \in L : n \in u[m] /\ k \in u[m]}
<1>1. t.root \in S
  <2>1. t.root \in L \cup {Nil} /\ u[Nil] = {} /\ u[t.root] = L
    BY Facts
  <2> QED BY <2>1
<1>2. PICK m \in S : \A j \in S : j \in u[m] => j = m
  <2>1. S \in SUBSET L /\ S # {}
    BY <1>1
  <2> HIDE DEF S
  <2> QED BY <2>1, Lowest
<1>3. m \in L /\ n \in u[m] /\ k \in u[m] /\ n # m /\ m \in Int
  BY <1>2, NodeFacts
<1>4. PICK e \in Sides : n \in u[t.kid[m][e]]
  BY <1>3, NodeFacts
<1> DEFINE c == t.kid[m][e]
           o == Other(e)
<1>5. c \in L /\ c \in u[m] /\ c # m
  <2>1. c \in L
    BY <1>3, <1>4, KidFacts, Facts
  <2> QED BY <1>3, <2>1, KidFacts, NodeFacts
<1>6. u[n] \subseteq u[c]
  BY <1>4, <1>5, NestedFacts
<1>7. \A a \in u[n] : a \in Int /\ Before(rk, e, a, m)
  BY <1>3, <1>6, KidFacts, Facts
<1>8. o \in Sides /\ (\A d \in Sides : d = e \/ d = o) /\ k \in Int
  BY SidesAre, Facts
<1>9. \A a \in u[n] : Before(rk, o, m, a)
  BY <1>3, <1>7, BeforeIs
<1>10. CASE k = m
  BY <1>8, <1>9, <1>10
<1>11. CASE k # m
  <2>1. k \notin u[c]
    BY <1>2, <1>4, <1>5
  <2>2. k \in u[t.kid[m][o]]
    BY <1>3, <1>8, <1>11, <2>1, NodeFacts
  <2>3. Before(rk, o, k, m)
    BY <1>3, <1>8, <2>2, KidFacts
  <2>4. \A a \in u[n] : Before(rk, o, k, a)
    BY <1>3, <1>7, <1>8, <1>9, <2>3, BeforeIs
  <2> QED BY <1>8, <2>4
<1> QED BY <1>10, <1>11

\* Every key belongs below the root.
LEMMA FitsRoot ==
  ASSUME NEW rk \in Rankings, NEW t, NEW L, NEW u, Search(rk, t, L, u), NEW k
  PROVE  Fits(rk, L, u, t.root, k)
  BY Facts DEF Fits

\* A key that belongs below n and differs from it belongs below its child on
\* the side of the key, the step of rbtree_find and RBTree_PutNode.
LEMMA FitsBelow ==
  ASSUME NEW rk \in Rankings, NEW t, NEW L, NEW u, Search(rk, t, L, u), NEW n \in L, NEW k \in Int,
         NEW s \in Sides,
         Fits(rk, L, u, n, k), Before(rk, s, k, n)
  PROVE  Fits(rk, L, u, t.kid[n][s], k)
<1> DEFINE c == t.kid[n][s]
           o == Other(s)
<1> SUFFICES ASSUME NEW m \in L \ u[c], NEW a \in u[c], NEW d \in Sides
             PROVE  Before(rk, d, k, m) <=> Before(rk, d, a, m)
  BY DEF Fits
<1>1. /\ u[c] \subseteq u[n] /\ Before(rk, s, a, n) /\ a \in Int /\ m \in Int /\ n \in Int
  BY KidFacts, NodeFacts, Facts
<1>2. CASE m \notin u[n]
  BY <1>1, <1>2 DEF Fits
<1>3. o \in Sides /\ (\A e \in Sides : e = s \/ e = o)
  BY SidesAre
<1>4. CASE m \in u[n]
  <2>1. m = n \/ m \in u[t.kid[n][o]]
    BY <1>3, <1>4, NodeFacts
  <2>2. m = n \/ Before(rk, o, m, n)
    BY <1>3, <2>1, KidFacts
  <2>3. Before(rk, s, k, m) /\ Before(rk, s, a, m)
    BY <1>1, <2>2, BeforeIs
  <2>4. ~Before(rk, o, k, m) /\ ~Before(rk, o, a, m)
    BY <1>1, <2>3, BeforeIs
  <2> QED BY <1>3, <2>3, <2>4
<1> QED BY <1>2, <1>4

\* A key that belongs below n, where its side has no child, is not in the tree.
LEMMA FitsMiss ==
  ASSUME NEW rk \in Rankings, NEW t, NEW L, NEW u, Search(rk, t, L, u), NEW n \in L, NEW k \in Int,
         NEW s \in Sides,
         Fits(rk, L, u, n, k), Before(rk, s, k, n), t.kid[n][s] = Nil
  PROVE  k \notin L
<1> SUFFICES ASSUME k \in L PROVE FALSE
  OBVIOUS
<1>1. n \in u[n] /\ n \in Int /\ Other(s) \in Sides /\ \A e \in Sides : e = s \/ e = Other(s)
  BY NodeFacts, SidesAre
<1>2. k \in u[n]
  <2>1. ~Before(rk, s, k, k)
    BY BeforeIs
  <2>2. CASE k \notin u[n]
    <3>1. Before(rk, Other(s), k, k) <=> Before(rk, Other(s), n, k)
      BY <1>1, <2>2 DEF Fits
    <3>2. Before(rk, Other(s), n, k)
      BY <1>1, BeforeIs
    <3> QED BY <1>1, <3>1, <3>2, BeforeIs
  <2> QED BY <2>2
<1>3. k # n /\ ~Before(rk, Other(s), k, n)
  BY <1>1, BeforeIs
<1>4. k \in u[t.kid[n][s]] \/ k \in u[t.kid[n][Other(s)]]
  BY <1>1, <1>2, <1>3, NodeFacts
<1>5. k \notin u[t.kid[n][Other(s)]]
  BY <1>1, <1>3, KidFacts
<1> QED BY <1>4, <1>5, Facts

-----------------------------------------------------------------------------
(* rbtree_next *)

\* a is the first key of L after n, NULL if n is the last
Succ(rk, L, n, a) ==
  \/ a = NULL /\ \A k \in L : rk[k] <= rk[n]
  \/ a \in L /\ rk[n] < rk[a] /\ \A k \in L : rk[n] < rk[k] => rk[a] <= rk[k]

\* a is the first key after the subtree of m, NULL if there is none
Beyond(rk, L, u, m, a) ==
  \/ a = NULL /\ \A k \in L \ u[m] : rk[k] < rk[m]
  \/ a \in L /\ a \notin u[m] /\ rk[m] < rk[a] /\ \A k \in L \ u[m] : rk[k] < rk[m] \/ rk[a] <= rk[k]

Climbs(t, f) ==
  f = [m \in Keys |-> IF m = t.root \/ t.parent[m] \notin Keys THEN NULL
                      ELSE IF SideOf(t, m) = "left" THEN t.parent[m] ELSE f[t.parent[m]]]

\* What is beyond a node on the left is its parent, on the right what is beyond
\* the parent.
LEMMA BeyondStep ==
  ASSUME NEW rk \in Rankings, NEW t, NEW L, NEW u, Search(rk, t, L, u), NEW m \in L
  PROVE  /\ m = t.root \/ t.parent[m] \notin Keys <=> m = t.root
         /\ m = t.root => Beyond(rk, L, u, m, NULL)
         /\ m # t.root => /\ t.parent[m] \in L /\ m \in u[t.parent[m]] /\ m # t.parent[m]
                          /\ SideOf(t, m) = "left" => Beyond(rk, L, u, m, t.parent[m])
                          /\ SideOf(t, m) # "left" =>
                               \A a : Beyond(rk, L, u, t.parent[m], a) => Beyond(rk, L, u, m, a)
<1>1. CASE m = t.root
  <2>1. L \ u[m] = {}
    BY <1>1, Facts
  <2> QED BY <1>1, <2>1 DEF Beyond
<1>2. CASE m # t.root
  <2> DEFINE p == t.parent[m]
             s == SideOf(t, m)
             o == Other(s)
  <2>1. p \in L /\ s \in Sides /\ t.kid[p][s] = m
    BY <1>2, Above
  <2>2. p \in Keys /\ p \in Int /\ m \in Int /\ p \in u[p] /\ L \subseteq Int /\ m \in u[m] /\ m # Nil
    BY <2>1, NodeFacts, Facts
  <2>3. u[m] \subseteq u[p] /\ m # p /\ Before(rk, s, m, p) /\ m \in u[p]
    BY <2>1, <2>2, KidFacts
  <2>4. o \in Sides /\ (\A d \in Sides : d = s \/ d = o)
    BY <2>1, SidesAre
  <2>5. ASSUME NEW k \in u[p], k \notin u[m], k # p PROVE Before(rk, o, k, p) /\ k \in Int
    <3>1. k \in u[t.kid[p][o]]
      BY <2>1, <2>4, <2>5, NodeFacts
    <3> QED BY <2>1, <2>4, <3>1, KidFacts, Facts
  <2>6. ASSUME NEW k \in L, k \notin u[p]
        PROVE  (rk[k] < rk[p] /\ rk[k] < rk[m]) \/ (rk[k] > rk[p] /\ rk[k] > rk[m])
    <3>1. PICK d \in Sides : \A a \in u[p] : Before(rk, d, k, a)
      BY <2>1, <2>6, Apart
    <3>2. Before(rk, d, k, p) /\ Before(rk, d, k, m)
      BY <2>2, <2>3, <3>1
    <3> QED BY <3>2 DEF Before, Sides
  <2>7. ASSUME s = "left" PROVE Beyond(rk, L, u, m, p)
    <3>1. p \notin u[m] /\ rk[m] < rk[p]
      BY <2>1, <2>3, <2>7, KidFacts DEF Before
    <3>2. ASSUME NEW k \in L, k \notin u[m] PROVE rk[k] < rk[m] \/ rk[p] <= rk[k]
      <4>1. CASE k \in u[p] /\ k # p
        BY <2>2, <2>5, <2>7, <3>2, <4>1, RankIs DEF Before, Other
      <4>2. CASE k \notin u[p]
        BY <2>2, <2>6, <4>2, RankIs
      <4> QED BY <2>2, <4>1, <4>2, RankIs
    <3> QED BY <2>1, <3>1, <3>2 DEF Beyond
  <2>8. ASSUME s # "left", NEW a, Beyond(rk, L, u, p, a) PROVE Beyond(rk, L, u, m, a)
    <3>0. s = "right" /\ o = "left" /\ rk[p] < rk[m]
      BY <2>1, <2>2, <2>3, <2>8 DEF Before, Sides, Other
    <3>1. ASSUME NEW k \in L, k \notin u[m], rk[k] < rk[p] \/ k = p \/ k \in u[p] PROVE rk[k] < rk[m]
      <4>1. CASE k \in u[p] /\ k # p
        BY <2>2, <2>5, <3>0, <3>1, <4>1, RankIs DEF Before
      <4>2. CASE k \notin u[p]
        <5>1. rk[k] < rk[p]
          BY <2>2, <3>1, <4>2
        <5>2. rk[k] \in Int /\ rk[p] \in Int
          BY <2>2, RankIs
        <5> QED BY <2>6, <4>2, <5>1, <5>2
      <4>3. CASE k = p
        BY <3>0, <4>3
      <4> QED BY <4>1, <4>2, <4>3
    <3>2. CASE a = NULL /\ \A k \in L \ u[p] : rk[k] < rk[p]
      BY <3>1, <3>2 DEF Beyond
    <3>3. CASE /\ a \in L /\ a \notin u[p] /\ rk[p] < rk[a]
               /\ \A k \in L \ u[p] : rk[k] < rk[p] \/ rk[a] <= rk[k]
      <4>1. a \notin u[m] /\ a \in Int
        BY <2>2, <2>3, <3>3
      <4>2. rk[m] < rk[a]
        <5>1. (rk[a] < rk[p] /\ rk[a] < rk[m]) \/ (rk[a] > rk[p] /\ rk[a] > rk[m])
          BY <2>6, <3>3
        <5> QED BY <2>2, <3>3, <4>1, <5>1, RankIs
      <4> QED BY <3>1, <3>3, <4>1, <4>2 DEF Beyond
    <3> QED BY <2>8, <3>2, <3>3 DEF Beyond
  <2> QED BY <1>2, <2>1, <2>2, <2>3, <2>7, <2>8
<1> QED BY <1>1, <1>2

\* There is one first key after a subtree, or none.
LEMMA BeyondOnly ==
  ASSUME NEW rk \in Rankings, NEW L, L \subseteq Keys, NEW u, NEW m \in L, m \in u[m], NEW a, NEW b,
         Beyond(rk, L, u, m, a), Beyond(rk, L, u, m, b)
  PROVE  a = b
<1>0. L \subseteq Int /\ NULL \notin L /\ m \in Int
  BY KeysAssumption, NilAssumption
<1>1. NULL \notin L /\ rk[m] \in Int /\ \A k \in L : rk[k] \in Int
  BY <1>0, RankIs
<1>2. CASE a = NULL
  <2>1. \A k \in L \ u[m] : rk[k] < rk[m]
    BY <1>1, <1>2 DEF Beyond
  <2>2. ~(b \in L /\ b \notin u[m] /\ rk[m] < rk[b])
    BY <1>1, <2>1
  <2> QED BY <1>2, <2>2 DEF Beyond
<1>3. CASE a # NULL
  <2>1. a \in L \ u[m] /\ rk[m] < rk[a] /\ \A k \in L \ u[m] : rk[k] < rk[m] \/ rk[a] <= rk[k]
    BY <1>3 DEF Beyond
  <2>2. b # NULL
    BY <1>1, <2>1 DEF Beyond
  <2>3. b \in L \ u[m] /\ rk[m] < rk[b] /\ \A k \in L \ u[m] : rk[k] < rk[m] \/ rk[b] <= rk[k]
    BY <2>2 DEF Beyond
  <2>4. rk[a] <= rk[b] /\ rk[b] <= rk[a]
    BY <1>1, <2>1, <2>3
  <2>5. a \in Int /\ b \in Int /\ rk[a] = rk[b]
    BY <1>0, <1>1, <2>1, <2>3, <2>4
  <2> QED BY <2>5, RankIs
<1> QED BY <1>2, <1>3

\* There is a first key after a subtree, or none.
LEMMA BeyondExists ==
  ASSUME NEW rk \in Rankings, NEW t, NEW L, NEW u, Search(rk, t, L, u), NEW n \in L
  PROVE  \E a : Beyond(rk, L, u, n, a)
<1> DEFINE S == {m \in L : ~\E a : Beyond(rk, L, u, m, a)}
<1> SUFFICES ASSUME S # {} PROVE FALSE
  OBVIOUS
<1>1. PICK m \in S : \A j \in S : m \in u[j] => j = m
  <2>1. S \in SUBSET L
    OBVIOUS
  <2> HIDE DEF S
  <2> QED BY <2>1, Highest
<1>2. m \in L /\ ~\E a : Beyond(rk, L, u, m, a)
  BY <1>1
<1>3. m # t.root
  BY <1>2, BeyondStep
<1>4. t.parent[m] \in L /\ m \in u[t.parent[m]] /\ t.parent[m] # m
  BY <1>2, <1>3, BeyondStep
<1>5. \E a : Beyond(rk, L, u, t.parent[m], a)
  BY <1>1, <1>4
<1> QED BY <1>2, <1>3, <1>5, BeyondStep

\* The climb of rbtree_next ends at the first key beyond the subtree.
LEMMA ClimbIs ==
  ASSUME NEW rk \in Rankings, NEW t, NEW L, NEW u, Search(rk, t, L, u), NEW f, f = CHOOSE g : Climbs(t, g)
  PROVE  \A n \in L : Beyond(rk, L, u, n, f[n])
<1> DEFINE e(n) == CHOOSE a : Beyond(rk, L, u, n, a)
           g == [m \in Keys |-> IF m \in L THEN e(m) ELSE NULL]
<1>0. L \subseteq Keys
  BY Facts
<1>1. \A n \in L : Beyond(rk, L, u, n, e(n))
  BY BeyondExists
<1>2. \A n, a : n \in L /\ Beyond(rk, L, u, n, a) => a = e(n)
  <2>1. \A n \in L : n \in u[n]
    BY NodeFacts
  <2> QED BY <1>0, <1>1, <2>1, BeyondOnly
<1> HIDE DEF e
<1>3. ASSUME NEW m \in Keys
      PROVE  g[m] = IF m = t.root \/ t.parent[m] \notin Keys THEN NULL
                    ELSE IF SideOf(t, m) = "left" THEN t.parent[m] ELSE g[t.parent[m]]
  <2>1. CASE m \in L /\ m = t.root
    BY <1>2, <2>1, BeyondStep
  <2>2. CASE m \in L /\ m # t.root
    <3>1. t.parent[m] \in L /\ t.parent[m] \in Keys
      BY <1>0, <2>2, BeyondStep
    <3>2. CASE SideOf(t, m) = "left"
      BY <1>2, <2>2, <3>1, <3>2, BeyondStep
    <3>3. CASE SideOf(t, m) # "left"
      <4>1. Beyond(rk, L, u, m, e(t.parent[m]))
        BY <1>1, <2>2, <3>1, <3>3, BeyondStep
      <4> QED BY <1>2, <2>2, <3>1, <3>3, <4>1
    <3> QED BY <3>2, <3>3
  <2>3. CASE m \notin L
    <3>1. t.parent[m] \notin Keys
      BY <2>3, NilAssumption DEF Search
    <3> QED BY <2>3, <3>1
  <2> QED BY <2>1, <2>2, <2>3
<1>4. Climbs(t, g)
  BY <1>3 DEF Climbs
<1>5. Climbs(t, f)
  BY <1>4
<1>6. f = [m \in Keys |-> IF m = t.root \/ t.parent[m] \notin Keys THEN NULL
                          ELSE IF SideOf(t, m) = "left" THEN t.parent[m] ELSE f[t.parent[m]]]
  BY <1>5 DEF Climbs
<1> DEFINE S == {m \in L : ~Beyond(rk, L, u, m, f[m])}
<1> SUFFICES ASSUME S # {} PROVE FALSE
  OBVIOUS
<1>7. PICK m \in S : \A j \in S : m \in u[j] => j = m
  <2>1. S \in SUBSET L
    OBVIOUS
  <2> HIDE DEF S
  <2> QED BY <2>1, Highest
<1>8. m \in Keys /\ m \in L /\ ~Beyond(rk, L, u, m, f[m])
  BY <1>0, <1>7
<1>9. f[m] = IF m = t.root \/ t.parent[m] \notin Keys THEN NULL
             ELSE IF SideOf(t, m) = "left" THEN t.parent[m] ELSE f[t.parent[m]]
  BY <1>6, <1>8
<1>10. CASE m = t.root
  BY <1>8, <1>9, <1>10, BeyondStep
<1>11. CASE m # t.root
  <2>1. t.parent[m] \in L /\ t.parent[m] \in Keys /\ m \in u[t.parent[m]] /\ t.parent[m] # m
    BY <1>0, <1>8, <1>11, BeyondStep
  <2>2. Beyond(rk, L, u, t.parent[m], f[t.parent[m]])
    BY <1>7, <2>1
  <2> QED BY <1>8, <1>9, <1>11, <2>1, <2>2, BeyondStep
<1> QED BY <1>10, <1>11

\* rbtree_next finds the next key of the tree, or NULL after the last one.
THEOREM NextIs ==
  ASSUME NEW rk \in Rankings, NEW t, NEW L, NEW u, Search(rk, t, L, u), NEW n \in L
  PROVE  Succ(rk, L, n, NextNode(t, n))
<1> DEFINE f == CHOOSE g : Climbs(t, g)
           c == t.kid[n]["right"]
<1>1. NextNode(t, n) = IF c # Nil THEN Least(t, c) ELSE f[n]
  BY DEF NextNode, Climbs
<1>f. f = CHOOSE g : Climbs(t, g)
  OBVIOUS
<1> HIDE DEF f
<1>2. "right" \in Sides /\ "left" \in Sides /\ (\A d \in Sides : d = "left" \/ d = "right")
  BY DEF Sides
<1>3. /\ n \in Int /\ L \subseteq Int /\ u[n] \subseteq L /\ n \in u[n] /\ u[Nil] = {}
      /\ \A m \in u[n] : m = n \/ m \in u[t.kid[n]["left"]] \/ m \in u[c]
  BY <1>2, NodeFacts, Facts
<1>4. \A m \in u[t.kid[n]["left"]] : rk[m] < rk[n]
  <2>1. \A m \in u[t.kid[n]["left"]] : Before(rk, "left", m, n)
    BY <1>2, KidFacts
  <2> QED BY <2>1 DEF Before
<1>5. \A m \in u[c] : rk[m] > rk[n]
  <2>1. \A m \in u[c] : Before(rk, "right", m, n)
    BY <1>2, KidFacts
  <2> QED BY <2>1 DEF Before
<1>6. CASE c # Nil
  <2>1. c \in L /\ u[c] \subseteq u[n]
    BY <1>2, <1>6, KidFacts
  <2> DEFINE a == Least(t, c)
  <2>2. Edge(rk, "left", u[c], a)
    BY <2>1, LeastIs
  <2> HIDE DEF a
  <2>3. a \in u[c] /\ a \in L /\ rk[n] < rk[a] /\ a \in u[n] /\ \A b \in u[c] : b # a => rk[a] < rk[b]
    BY <1>3, <1>5, <2>1, <2>2 DEF Edge, Before
  <2>4. ASSUME NEW k \in L, rk[n] < rk[k] PROVE rk[a] <= rk[k]
    <3>1. CASE k \in u[n]
      <4>1. k \in Int /\ k # n /\ ~(rk[k] < rk[n])
        BY <1>3, <2>4, RankIs
      <4>2. k \in u[c]
        BY <1>3, <1>4, <3>1, <4>1
      <4>3. a \in Int /\ (k # a => rk[a] < rk[k])
        BY <1>3, <2>3, <4>2
      <4> QED BY <4>1, <4>3, RankIs
    <3>2. CASE k \notin u[n]
      <4>1. PICK d \in Sides : \A b \in u[n] : Before(rk, d, k, b)
        BY <3>2, Apart
      <4>2. Before(rk, d, k, n) /\ Before(rk, d, k, a) /\ k \in Int /\ a \in Int
        BY <1>3, <2>3, <4>1
      <4> QED BY <1>2, <1>3, <2>4, <4>2, RankIs DEF Before
    <3> QED BY <3>1, <3>2
  <2> QED BY <1>1, <1>6, <2>3, <2>4 DEF Succ, a
<1>7. CASE c = Nil
  <2>1. Beyond(rk, L, u, n, f[n])
    BY <1>f, ClimbIs
  <2>2. \A k \in L : rk[n] < rk[k] => k \notin u[n]
    <3>1. ASSUME NEW k \in L, rk[n] < rk[k] PROVE k \notin u[n]
      <4>1. k # n /\ ~(rk[k] < rk[n])
        <5>1. rk[n] \in Int /\ rk[k] \in Int
          BY <1>3, RankIs
        <5> QED BY <3>1, <5>1
      <4> QED BY <1>3, <1>4, <1>7, <4>1
    <3> QED BY <3>1
  <2>3. Succ(rk, L, n, f[n])
    <3> DEFINE a == f[n]
    <3>1. Beyond(rk, L, u, n, a)
      BY <2>1
    <3> HIDE DEF a
    <3>2. \A k \in L : rk[k] <= rk[n] \/ rk[n] < rk[k]
      BY <1>3, RankIs
    <3>3. Succ(rk, L, n, a)
      BY <1>3, <2>2, <3>1, <3>2, RankIs DEF Beyond, Succ
    <3> QED BY <3>3 DEF a
  <2> QED BY <1>1, <1>7, <2>3
<1> QED BY <1>6, <1>7

-----------------------------------------------------------------------------
(* What Linked, Ordered, Doubly and BlackHeight say of a tree with a        *)
(* certificate                                                             *)

\* X starts with a and goes on with F, D times.
Iterated(X, W, a, F, D) ==
  X \in [0..D -> W] /\ X[0] = a /\ \A d \in 1..D : X[d] = F[X[d - 1]]

\* There is a sequence of any length that starts with a and goes on with F.
LEMMA Iterates ==
  ASSUME NEW W, NEW a \in W, NEW F \in [W -> W], NEW D \in Nat
  PROVE  \E X : Iterated(X, W, a, F, D)
<1> DEFINE Ok(n) == \E X : Iterated(X, W, a, F, n)
           T == {n \in Nat : ~Ok(n)}
<1>1. Ok(0)
  <2> DEFINE X == [i \in 0..0 |-> a]
  <2>1. X \in [0..0 -> W] /\ X[0] = a /\ \A d \in 1..0 : X[d] = F[X[d - 1]]
    OBVIOUS
  <2> QED BY <2>1 DEF Iterated
<1>2. ASSUME NEW n \in Nat, n # 0, Ok(n - 1) PROVE Ok(n)
  <2>1. PICK X \in [0..(n - 1) -> W] : X[0] = a /\ \A d \in 1..(n - 1) : X[d] = F[X[d - 1]]
    BY <1>2 DEF Iterated
  <2> DEFINE Y == [i \in 0..n |-> IF i = n THEN F[X[n - 1]] ELSE X[i]]
  <2>2. n - 1 \in 0..(n - 1) /\ 0 \in 0..(n - 1)
    BY <1>2
  <2>3. Y \in [0..n -> W]
    <3>1. \A i \in 0..n : i = n \/ i \in 0..(n - 1)
      BY <1>2
    <3> QED BY <2>2, <3>1
  <2>4. Y[0] = a
    BY <1>2, <2>1, <2>2
  <2>5. ASSUME NEW d \in 1..n PROVE Y[d] = F[Y[d - 1]]
    <3>1. d \in 0..n /\ d - 1 \in 0..n /\ d - 1 # n /\ d - 1 \in 0..(n - 1)
      BY <1>2
    <3>2. Y[d - 1] = X[d - 1]
      BY <3>1
    <3>3. CASE d = n
      BY <3>1, <3>2, <3>3
    <3>4. CASE d # n
      <4>1. d \in 1..(n - 1)
        BY <1>2, <3>4
      <4> QED BY <2>1, <3>1, <3>2, <3>4, <4>1
    <3> QED BY <3>3, <3>4
  <2> HIDE DEF Y
  <2> QED BY <2>3, <2>4, <2>5 DEF Iterated
<1> SUFFICES ASSUME T # {} PROVE FALSE
  OBVIOUS
<1>3. PICK n \in T : \A m \in T : n <= m
  <2>1. T \subseteq Nat
    OBVIOUS
  <2> HIDE DEF T
  <2> QED BY <2>1, NatMin
<1>4. n \in Nat /\ ~Ok(n)
  BY <1>3
<1>5. n # 0
  BY <1>1, <1>4
<1> HIDE DEF Ok
<1>6. n - 1 \in Nat /\ ~(n <= n - 1)
  BY <1>4, <1>5
<1>7. Ok(n - 1)
  BY <1>3, <1>6
<1> QED BY <1>2, <1>4, <1>5, <1>7

\* the number of keys below a node and below its child
LEMMA Sizes ==
  ASSUME NEW rk \in Rankings, NEW t, NEW L, NEW u, Search(rk, t, L, u), NEW n \in L
  PROVE  /\ Cardinality(u[n]) \in Nat /\ Cardinality(u[n]) > 0 /\ Cardinality(u[n]) <= Depth
         /\ \A s \in Sides : t.kid[n][s] # Nil =>
              /\ Cardinality(u[t.kid[n][s]]) \in Nat
              /\ Cardinality(u[t.kid[n][s]]) < Cardinality(u[n])
<1>1. L \subseteq Keys /\ n \in u[n] /\ u[n] \subseteq L
  BY NodeFacts, Facts
<1>2. IsFiniteSet(Keys) /\ IsFiniteSet(u[n]) /\ Cardinality(u[n]) \in Nat /\ Cardinality(u[n]) <= Depth
  BY <1>1, KeysAssumption, FS_Subset, FS_CardinalityType DEF Depth
<1>3. Cardinality(u[n]) # 0
  BY <1>1, <1>2, FS_EmptySet
<1>4. ASSUME NEW s \in Sides, t.kid[n][s] # Nil
      PROVE  /\ Cardinality(u[t.kid[n][s]]) \in Nat
             /\ Cardinality(u[t.kid[n][s]]) < Cardinality(u[n])
  <2> DEFINE S == u[t.kid[n][s]]
  <2>1. S \subseteq u[n] /\ S # u[n]
    BY <1>1, <1>4, KidFacts
  <2> HIDE DEF S
  <2>2. Cardinality(S) \in Nat /\ Cardinality(S) <= Cardinality(u[n]) /\ Cardinality(S) # Cardinality(u[n])
    BY <1>2, <2>1, FS_Subset, FS_CardinalityType
  <2>3. Cardinality(S) \in Nat /\ Cardinality(S) < Cardinality(u[n])
    BY <1>2, <2>2
  <2> QED BY <2>3 DEF S
<1> QED BY <1>2, <1>3, <1>4

\* The depth bound is a natural number, at least the size of every set of keys.
LEMMA DepthIs == Depth \in Nat
  BY KeysAssumption, FS_CardinalityType DEF Depth

Levels == (Nodes \cup {NULL}) \X (0..Depth)

Subtrees(t, f) ==
  f = [p \in Levels |->
        IF p[1] \notin Keys THEN {}
        ELSE IF p[2] = 0 THEN {p[1]}
        ELSE {p[1]} \cup f[<<t.kid[p[1]]["left"], p[2] - 1>>]
                    \cup f[<<t.kid[p[1]]["right"], p[2] - 1>>]]

\* The recursion of Subtree has a solution.
LEMMA SubtreesExist == ASSUME NEW t \in Trees PROVE \E f : Subtrees(t, f)
<1> DEFINE N == Nodes \cup {NULL}
           W == [N -> SUBSET Keys]
           a == [n \in N |-> IF n \in Keys THEN {n} ELSE {}]
           F == [x \in W |-> [n \in N |-> IF n \notin Keys THEN {}
                                          ELSE {n} \cup x[t.kid[n]["left"]] \cup x[t.kid[n]["right"]]]]
<1>1. \A n \in Keys : t.kid[n]["left"] \in N /\ t.kid[n]["right"] \in N
  BY DEF Trees, Nodes, Sides
<1>2. a \in W
  OBVIOUS
<1>3. F \in [W -> W]
  <2>1. \A x \in W, n \in N : (IF n \notin Keys THEN {}
            ELSE {n} \cup x[t.kid[n]["left"]] \cup x[t.kid[n]["right"]]) \in SUBSET Keys
    BY <1>1
  <2> QED BY <2>1
<1>4. PICK X \in [0..Depth -> W] : X[0] = a /\ \A d \in 1..Depth : X[d] = F[X[d - 1]]
  <2> HIDE DEF W, a, F
  <2>1. \E X : Iterated(X, W, a, F, Depth)
    BY <1>2, <1>3, DepthIs, Iterates
  <2> QED BY <2>1 DEF Iterated
<1> DEFINE f == [p \in Levels |-> X[p[2]][p[1]]]
<1>5. ASSUME NEW p \in Levels
      PROVE  f[p] = IF p[1] \notin Keys THEN {}
                    ELSE IF p[2] = 0 THEN {p[1]}
                    ELSE {p[1]} \cup f[<<t.kid[p[1]]["left"], p[2] - 1>>]
                                \cup f[<<t.kid[p[1]]["right"], p[2] - 1>>]
  <2>1. p[1] \in N /\ p[2] \in 0..Depth /\ f[p] = X[p[2]][p[1]]
    BY DEF Levels
  <2>2. CASE p[2] = 0
    BY <1>4, <2>1, <2>2
  <2>3. CASE p[2] # 0
    <3> DEFINE d == p[2]
               x == X[d - 1]
    <3>1. d \in 1..Depth /\ d - 1 \in 0..Depth
      BY <2>1, <2>3, DepthIs
    <3>2. x \in W /\ X[d] = F[x]
      BY <1>4, <3>1
    <3>3. X[d][p[1]] = IF p[1] \notin Keys THEN {}
                       ELSE {p[1]} \cup x[t.kid[p[1]]["left"]] \cup x[t.kid[p[1]]["right"]]
      BY Zenon, <2>1, <3>2
    <3>4. ASSUME p[1] \in Keys
          PROVE  /\ f[<<t.kid[p[1]]["left"], d - 1>>] = x[t.kid[p[1]]["left"]]
                 /\ f[<<t.kid[p[1]]["right"], d - 1>>] = x[t.kid[p[1]]["right"]]
      BY <1>1, <3>1, <3>4 DEF Levels
    <3> QED BY Zenon, <2>1, <2>3, <3>3, <3>4
  <2> QED BY Zenon, <2>2, <2>3
<1>6. Subtrees(t, f)
  <2>0. f = [p \in Levels |-> f[p]]
    OBVIOUS
  <2> HIDE DEF f
  <2>1. f = [p \in Levels |->
        IF p[1] \notin Keys THEN {}
        ELSE IF p[2] = 0 THEN {p[1]}
        ELSE {p[1]} \cup f[<<t.kid[p[1]]["left"], p[2] - 1>>]
                    \cup f[<<t.kid[p[1]]["right"], p[2] - 1>>]]
    BY <1>5, <2>0
  <2> QED BY Zenon, <2>1 DEF Subtrees
<1> QED BY <1>6

\* Subtree computes the certificate.
LEMMA SubtreeIs ==
  ASSUME NEW rk \in Rankings, NEW t, NEW L, NEW u, Search(rk, t, L, u), NEW n \in L \cup {Nil}
  PROVE  Subtree(t, n) = u[n]
<1> DEFINE f == CHOOSE g : Subtrees(t, g)
<1>1. Subtree(t, n) = f[<<n, Depth>>]
  BY DEF Subtree, Subtrees, Levels
<1>2. Subtrees(t, f)
  BY SubtreesExist, Facts
<1> HIDE DEF f
<1>3. \A p \in Levels :
        f[p] = IF p[1] \notin Keys THEN {}
               ELSE IF p[2] = 0 THEN {p[1]}
               ELSE {p[1]} \cup f[<<t.kid[p[1]]["left"], p[2] - 1>>]
                           \cup f[<<t.kid[p[1]]["right"], p[2] - 1>>]
  BY Zenon, <1>2 DEF Subtrees
<1>4. \A m \in Nodes \cup {NULL}, d \in 0..Depth :
        <<m, d>> \in Levels /\ <<m, d>>[1] = m /\ <<m, d>>[2] = d
  BY DEF Levels
<1>5. \A d \in 0..Depth : f[<<Nil, d>>] = {} /\ u[Nil] = {}
  BY <1>3, <1>4, Facts
<1> DEFINE Good(m) == \A d \in 0..Depth : Cardinality(u[m]) <= d => f[<<m, d>>] = u[m]
           S == {m \in L : ~Good(m)}
<1>6. S = {}
  <2> SUFFICES ASSUME S # {} PROVE FALSE
    OBVIOUS
  <2>1. PICK m \in S : \A j \in S : j \in u[m] => j = m
    <3>1. S \in SUBSET L
      OBVIOUS
    <3> HIDE DEF S
    <3> QED BY <3>1, Lowest
  <2>2. m \in L /\ m \in Keys /\ m \in Nodes
    BY <2>1, Facts
  <2>3. PICK d \in 0..Depth : Cardinality(u[m]) <= d /\ f[<<m, d>>] # u[m]
    BY <2>1
  <2>4. Cardinality(u[m]) \in Nat /\ Cardinality(u[m]) > 0 /\ d \in Nat
    BY <2>2, Sizes, DepthIs
  <2>5. d # 0 /\ d - 1 \in 0..Depth
    BY <2>3, <2>4, DepthIs
  <2>6. ASSUME NEW s \in Sides PROVE f[<<t.kid[m][s], d - 1>>] = u[t.kid[m][s]]
    <3>1. CASE t.kid[m][s] = Nil
      BY <1>5, <2>5, <3>1
    <3>2. CASE t.kid[m][s] # Nil
      <4> DEFINE k == t.kid[m][s]
      <4>1. k \in L /\ k # m /\ k \in u[m]
        BY <2>2, <3>2, KidFacts, NodeFacts
      <4>2. Cardinality(u[k]) \in Nat /\ Cardinality(u[k]) < Cardinality(u[m])
        BY <2>2, <3>2, Sizes
      <4>3. Good(k)
        BY <2>1, <4>1
      <4> HIDE DEF k
      <4>4. Cardinality(u[k]) <= d - 1
        BY <2>3, <2>4, <4>2
      <4>5. f[<<k, d - 1>>] = u[k]
        BY <2>5, <4>3, <4>4
      <4> QED BY <4>5 DEF k
    <3> QED BY <3>1, <3>2
  <2>7. f[<<m, d>>] = {m} \cup f[<<t.kid[m]["left"], d - 1>>] \cup f[<<t.kid[m]["right"], d - 1>>]
    BY <1>3, <1>4, <2>2, <2>3, <2>5
  <2>8. "left" \in Sides /\ "right" \in Sides /\ (\A e \in Sides : e = "left" \/ e = "right")
    BY DEF Sides
  <2>9. f[<<m, d>>] = {m} \cup u[t.kid[m]["left"]] \cup u[t.kid[m]["right"]]
    BY <2>6, <2>7, <2>8
  <2>10. u[m] = {m} \cup u[t.kid[m]["left"]] \cup u[t.kid[m]["right"]]
    <3>1. m \in u[m] /\ \A j \in u[m] : j = m \/ j \in u[t.kid[m]["left"]] \/ j \in u[t.kid[m]["right"]]
      BY <2>2, <2>8, NodeFacts
    <3>2. u[t.kid[m]["left"]] \subseteq u[m] /\ u[t.kid[m]["right"]] \subseteq u[m]
      BY <2>2, <2>8, KidFacts
    <3> QED BY <3>1, <3>2
  <2> QED BY <2>3, <2>9, <2>10
<1>7. Depth \in 0..Depth
  BY DepthIs
<1>8. CASE n = Nil
  BY <1>1, <1>5, <1>7, <1>8
<1>9. CASE n # Nil
  <2>1. n \in L /\ Cardinality(u[n]) <= Depth
    BY <1>9, Sizes
  <2> QED BY <1>1, <1>6, <1>7, <2>1
<1> QED BY <1>8, <1>9

\* A tree with a certificate links the keys of the certificate.
THEOREM SearchIsLinked ==
  ASSUME NEW rk \in Rankings, NEW t, NEW L, NEW u, Search(rk, t, L, u)
  PROVE  Linked(t) = L /\ Doubly(t)
<1>1. Linked(t) = L
  BY SubtreeIs, Facts DEF Linked
<1>2. Doubly(t)
  BY <1>1 DEF Doubly, Search, ParentsOK
<1> QED BY <1>1, <1>2

\* If its order is that of the keys, it is a search tree.
THEOREM SearchIsOrdered ==
  ASSUME NEW t, NEW L, NEW u, Search(Natural, t, L, u)
  PROVE  Ordered(t)
<1>1. Natural \in Rankings /\ \A k \in Int : Natural[k] = k
  BY NaturalRanks, NaturalIs
<1>2. Linked(t) = L /\ L \subseteq Int
  BY <1>1, SearchIsLinked, Facts
<1>3. ASSUME NEW n \in L
      PROVE  /\ \A m \in Subtree(t, t.kid[n]["left"]) : m < n
             /\ \A m \in Subtree(t, t.kid[n]["right"]) : m > n
  <2>1. "left" \in Sides /\ "right" \in Sides /\ n \in Int
    BY <1>2 DEF Sides
  <2>2. ASSUME NEW s \in Sides, NEW m \in Subtree(t, t.kid[n][s])
        PROVE  Before(Natural, s, m, n) /\ m \in Int
    <3>1. /\ t.kid[n][s] \in L \cup {Nil} /\ u[t.kid[n][s]] \subseteq u[n] /\ u[n] \subseteq L
          /\ \A k \in u[t.kid[n][s]] : Before(Natural, s, k, n)
      BY <1>1, KidFacts, NodeFacts
    <3>2. Subtree(t, t.kid[n][s]) = u[t.kid[n][s]]
      BY <1>1, <3>1, SubtreeIs
    <3> QED BY <1>2, <3>1, <3>2
  <2>3. ASSUME NEW m \in Subtree(t, t.kid[n]["left"]) PROVE m < n
    <3>1. Before(Natural, "left", m, n) /\ m \in Int
      BY <2>1, <2>2
    <3> QED BY <1>1, <2>1, <3>1 DEF Before
  <2>4. ASSUME NEW m \in Subtree(t, t.kid[n]["right"]) PROVE m > n
    <3>1. Before(Natural, "right", m, n) /\ m \in Int
      BY <2>1, <2>2
    <3> QED BY <1>1, <2>1, <3>1 DEF Before
  <2> QED BY <2>3, <2>4
<1> QED BY <1>2, <1>3 DEF Ordered

\* the number of black nodes below n and a child, or -1, from those below the
\* two children
Higher(t, p, e, n, l, r) ==
  IF l = -1 \/ r = -1 \/ l + One(n = p /\ e = "left") # r + One(n = p /\ e = "right") THEN -1
  ELSE l + One(n = p /\ e = "left") + One(IsBlack(t, n))

BlackHeights(t, p, e, f) ==
  f = [q \in Levels |->
        IF q[1] \notin Keys \/ q[2] = 0 THEN 1
        ELSE Higher(t, p, e, q[1], f[<<t.kid[q[1]]["left"], q[2] - 1>>],
                    f[<<t.kid[q[1]]["right"], q[2] - 1>>])]

\* The recursion of BlackHeight has a solution.
LEMMA BlackHeightsExist ==
  ASSUME NEW t \in Trees, NEW p, NEW e PROVE \E f : BlackHeights(t, p, e, f)
<1> DEFINE N == Nodes \cup {NULL}
           W == [N -> Int]
           a == [n \in N |-> 1]
           F == [x \in W |-> [n \in N |-> IF n \notin Keys THEN 1
                      ELSE Higher(t, p, e, n, x[t.kid[n]["left"]], x[t.kid[n]["right"]])]]
<1>1. \A n \in Keys : t.kid[n]["left"] \in N /\ t.kid[n]["right"] \in N
  BY DEF Trees, Nodes, Sides
<1>2. a \in W
  OBVIOUS
<1>3. F \in [W -> W]
  <2>1. \A n \in N, l \in Int, r \in Int : Higher(t, p, e, n, l, r) \in Int
    BY DEF Higher, One
  <2>2. \A x \in W, n \in N : (IF n \notin Keys THEN 1
            ELSE Higher(t, p, e, n, x[t.kid[n]["left"]], x[t.kid[n]["right"]])) \in Int
    <3> SUFFICES ASSUME NEW x \in W, NEW n \in N, n \in Keys
                 PROVE  Higher(t, p, e, n, x[t.kid[n]["left"]], x[t.kid[n]["right"]]) \in Int
      OBVIOUS
    <3>1. x[t.kid[n]["left"]] \in Int /\ x[t.kid[n]["right"]] \in Int
      BY <1>1
    <3> DEFINE l == x[t.kid[n]["left"]]
               r == x[t.kid[n]["right"]]
    <3>2. l \in Int /\ r \in Int
      BY <3>1
    <3> HIDE DEF l, r
    <3>3. Higher(t, p, e, n, l, r) \in Int
      BY <2>1, <3>2
    <3> QED BY <3>3 DEF l, r
  <2> QED BY <2>2
<1>4. PICK X \in [0..Depth -> W] : X[0] = a /\ \A d \in 1..Depth : X[d] = F[X[d - 1]]
  <2> HIDE DEF W, a, F
  <2>1. \E X : Iterated(X, W, a, F, Depth)
    BY <1>2, <1>3, DepthIs, Iterates
  <2> QED BY <2>1 DEF Iterated
<1> DEFINE f == [q \in Levels |-> X[q[2]][q[1]]]
<1>5. ASSUME NEW q \in Levels
      PROVE  f[q] = IF q[1] \notin Keys \/ q[2] = 0 THEN 1
                    ELSE Higher(t, p, e, q[1], f[<<t.kid[q[1]]["left"], q[2] - 1>>],
                                f[<<t.kid[q[1]]["right"], q[2] - 1>>])
  <2>1. q[1] \in N /\ q[2] \in 0..Depth /\ f[q] = X[q[2]][q[1]]
    BY DEF Levels
  <2>2. CASE q[2] = 0
    BY <1>4, <2>1, <2>2
  <2>3. CASE q[2] # 0
    <3> DEFINE d == q[2]
               x == X[d - 1]
    <3>1. d \in 1..Depth /\ d - 1 \in 0..Depth
      BY <2>1, <2>3, DepthIs
    <3>2. x \in W /\ X[d] = F[x]
      BY <1>4, <3>1
    <3>3. X[d][q[1]] = IF q[1] \notin Keys THEN 1
                       ELSE Higher(t, p, e, q[1], x[t.kid[q[1]]["left"]], x[t.kid[q[1]]["right"]])
      BY Zenon, <2>1, <3>2
    <3>4. ASSUME q[1] \in Keys
          PROVE  /\ f[<<t.kid[q[1]]["left"], d - 1>>] = x[t.kid[q[1]]["left"]]
                 /\ f[<<t.kid[q[1]]["right"], d - 1>>] = x[t.kid[q[1]]["right"]]
      BY <1>1, <3>1, <3>4 DEF Levels
    <3> QED BY Zenon, <2>1, <2>3, <3>3, <3>4
  <2> QED BY <2>2, <2>3
<1>6. BlackHeights(t, p, e, f)
  <2>0. f = [q \in Levels |-> f[q]]
    OBVIOUS
  <2> HIDE DEF f
  <2>1. f = [q \in Levels |->
              IF q[1] \notin Keys \/ q[2] = 0 THEN 1
              ELSE Higher(t, p, e, q[1], f[<<t.kid[q[1]]["left"], q[2] - 1>>],
                          f[<<t.kid[q[1]]["right"], q[2] - 1>>])]
    BY <1>5, <2>0
  <2> QED BY <2>1 DEF BlackHeights
<1> QED BY <1>6

\* Where the heights agree, the recursion of BlackHeight computes them.
LEMMA HigherIs ==
  ASSUME NEW rk \in Rankings, NEW t, NEW L, NEW u, Search(rk, t, L, u), NEW h, NEW p, NEW e,
         Heights(t, L, h, p, e),
         NEW m \in L
  PROVE  Higher(t, p, e, m, h[t.kid[m]["left"]], h[t.kid[m]["right"]]) = h[m]
<1>1. "left" \in Sides /\ "right" \in Sides
  BY DEF Sides
<1>2. \A s \in Sides : h[t.kid[m][s]] \in Nat /\ h[t.kid[m][s]] > 0
  BY KidFacts DEF Heights
<1>3. \A s \in Sides : h[m] = h[t.kid[m][s]] + One(m = p /\ s = e) + One(IsBlack(t, m))
  BY DEF Heights, HeightAt
<1> DEFINE l == h[t.kid[m]["left"]]
           r == h[t.kid[m]["right"]]
           bl == One(m = p /\ e = "left")
           br == One(m = p /\ e = "right")
           b == One(IsBlack(t, m))
<1>4. bl \in Nat /\ br \in Nat /\ b \in Nat
  BY DEF One
<1>5. One(m = p /\ "left" = e) = bl /\ One(m = p /\ "right" = e) = br
  BY DEF One
<1>6. /\ l \in Nat /\ l > 0 /\ r \in Nat /\ r > 0
      /\ h[m] = l + bl + b /\ h[m] = r + br + b
  BY <1>1, <1>2, <1>3, <1>5
<1>7. Higher(t, p, e, m, l, r) = IF l = -1 \/ r = -1 \/ l + bl # r + br THEN -1 ELSE l + bl + b
  BY DEF Higher
<1> HIDE DEF l, r, bl, br, b
<1>8. l # -1 /\ r # -1 /\ l + bl = r + br
  BY <1>4, <1>6
<1>9. Higher(t, p, e, m, l, r) = h[m]
  BY <1>6, <1>7, <1>8
<1> QED BY <1>9 DEF l, r

\* Where heights can be given to the nodes, BlackHeight finds no two paths that
\* differ.
LEMMA BlackHeightIs ==
  ASSUME NEW rk \in Rankings, NEW t, NEW L, NEW u, Search(rk, t, L, u), NEW h, NEW p, NEW e,
         Heights(t, L, h, p, e),
         NEW n \in L \cup {Nil}
  PROVE  BlackHeight(t, n, p, e) = h[n] /\ h[n] # -1
<1> DEFINE f == CHOOSE g : BlackHeights(t, p, e, g)
<1>1. BlackHeight(t, n, p, e) = f[<<n, Depth>>]
  BY DEF BlackHeight, BlackHeights, Levels, Higher, One
<1>2. BlackHeights(t, p, e, f)
  BY BlackHeightsExist, Facts
<1> HIDE DEF f
<1>3. \A q \in Levels :
        f[q] = IF q[1] \notin Keys \/ q[2] = 0 THEN 1
               ELSE Higher(t, p, e, q[1], f[<<t.kid[q[1]]["left"], q[2] - 1>>],
                           f[<<t.kid[q[1]]["right"], q[2] - 1>>])
  BY <1>2 DEF BlackHeights
<1>4. \A m \in Nodes \cup {NULL}, d \in 0..Depth :
        <<m, d>> \in Levels /\ <<m, d>>[1] = m /\ <<m, d>>[2] = d
  BY DEF Levels
<1>5. \A d \in 0..Depth : f[<<Nil, d>>] = 1 /\ h[Nil] = 1
  BY <1>3, <1>4, Facts DEF Heights
<1> DEFINE Good(m) == \A d \in 0..Depth : Cardinality(u[m]) <= d => f[<<m, d>>] = h[m]
           S == {m \in L : ~Good(m)}
<1>6. S = {}
  <2> SUFFICES ASSUME S # {} PROVE FALSE
    OBVIOUS
  <2>1. PICK m \in S : \A j \in S : j \in u[m] => j = m
    <3>1. S \in SUBSET L
      OBVIOUS
    <3> HIDE DEF S
    <3> QED BY <3>1, Lowest
  <2>2. m \in L /\ m \in Keys /\ m \in Nodes
    BY <2>1, Facts
  <2>3. PICK d \in 0..Depth : Cardinality(u[m]) <= d /\ f[<<m, d>>] # h[m]
    BY <2>1
  <2>4. Cardinality(u[m]) \in Nat /\ Cardinality(u[m]) > 0 /\ d \in Nat
    BY <2>2, Sizes, DepthIs
  <2>5. d # 0 /\ d - 1 \in 0..Depth
    BY <2>3, <2>4, DepthIs
  <2>6. ASSUME NEW s \in Sides PROVE f[<<t.kid[m][s], d - 1>>] = h[t.kid[m][s]]
    <3>1. CASE t.kid[m][s] = Nil
      BY <1>5, <2>5, <3>1
    <3>2. CASE t.kid[m][s] # Nil
      <4> DEFINE k == t.kid[m][s]
      <4>1. k \in L /\ k # m /\ k \in u[m]
        BY <2>2, <3>2, KidFacts, NodeFacts
      <4>2. Cardinality(u[k]) \in Nat /\ Cardinality(u[k]) < Cardinality(u[m])
        BY <2>2, <3>2, Sizes
      <4>3. Good(k)
        BY <2>1, <4>1
      <4> HIDE DEF k
      <4>4. Cardinality(u[k]) <= d - 1
        BY <2>3, <2>4, <4>2
      <4>5. f[<<k, d - 1>>] = h[k]
        BY <2>5, <4>3, <4>4
      <4> QED BY <4>5 DEF k
    <3> QED BY <3>1, <3>2
  <2>7. f[<<m, d>>] = Higher(t, p, e, m, f[<<t.kid[m]["left"], d - 1>>], f[<<t.kid[m]["right"], d - 1>>])
    BY <1>3, <1>4, <2>2, <2>3, <2>5
  <2>8. "left" \in Sides /\ "right" \in Sides
    BY DEF Sides
  <2>9. f[<<m, d>>] = h[m]
    BY <2>2, <2>6, <2>7, <2>8, HigherIs
  <2> QED BY <2>3, <2>9
<1>7. Depth \in 0..Depth
  BY DepthIs
<1>8. CASE n = Nil
  BY <1>1, <1>5, <1>7, <1>8
<1>9. CASE n # Nil
  <2>1. n \in L /\ Cardinality(u[n]) <= Depth
    BY <1>9, Sizes
  <2>2. h[n] \in Nat
    BY <2>1, Facts DEF Heights
  <2> QED BY <1>1, <1>6, <1>7, <2>1, <2>2
<1> QED BY <1>8, <1>9

\* A tree with heights, no two red nodes in a row and a black root is red-black.
THEOREM BalanceIsRedBlack ==
  ASSUME NEW rk \in Rankings, NEW t, NEW L, NEW u, Search(rk, t, L, u), NEW h, Balance(t, L, h)
  PROVE  RedBlack(t)
<1>1. Linked(t) = L /\ t.root \in L \cup {Nil}
  BY SearchIsLinked, Facts
<1>2. BlackHeight(t, t.root, NULL, "left") # -1
  BY <1>1, BlackHeightIs DEF Balance
<1>3. NoRedRed(t, NULL)
  BY <1>1 DEF NoRedRed, Balance
<1> QED BY <1>2, <1>3 DEF RedBlack, Balance
=============================================================================
