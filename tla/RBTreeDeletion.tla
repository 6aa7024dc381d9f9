--------------------------- MODULE RBTreeDeletion ---------------------------
(***************************************************************************)
(* Theorems about deletion from a tree of RBTree, for every tree and every *)
(* set of keys, with the loop of rbtree_delete_fixup.                      *)
(***************************************************************************)
EXTENDS RBTreeProofs

(* z has two children: its successor y, the first key on its right, is     *)
(* spliced out and takes the place and the color of z.                     *)

Succeeds(rk, t, L, u, z, l, r, y, x) ==
  /\ z \in L /\ l = t.kid[z]["left"] /\ r = t.kid[z]["right"] /\ l # Nil /\ r # Nil
  /\ Edge(rk, "left", u[r], y) /\ t.kid[y]["left"] = Nil /\ x = t.kid[y]["right"]

\* the parts of the tree around z and y
Around(rk, t, L, u, z, l, r, y, x) ==
  /\ l \in L /\ r \in L /\ y \in L /\ x \in L \cup {Nil} /\ z \in L
  /\ l # r /\ l # z /\ r # z /\ y # z /\ y # l /\ x # l /\ x # z /\ x # y /\ x # r
  /\ l = t.kid[z]["left"] /\ r = t.kid[z]["right"] /\ x = t.kid[y]["right"] /\ t.kid[y]["left"] = Nil
  /\ t.parent[l] = z /\ t.parent[r] = z /\ (x # Nil => t.parent[x] = y)
  /\ l # t.root /\ r # t.root /\ y # t.root /\ x # t.root
  /\ y \in u[r] /\ u[r] \subseteq u[z] /\ u[l] \subseteq u[z] /\ u[x] \subseteq u[r]
  /\ u[y] = {y} \cup u[x] /\ u[z] = {z} \cup u[l] \cup u[r]
  /\ z \notin u[l] /\ z \notin u[r] /\ y \notin u[l] /\ y \notin u[x] /\ z \notin u[x]
  /\ \A m \in u[l] : Before(rk, "left", m, z) /\ Before(rk, "left", m, y)
  /\ \A m \in u[r] : Before(rk, "right", m, z) /\ (m # y => Before(rk, "right", m, y))
  /\ t.parent[y] \in L /\ t.parent[y] # y /\ (t.parent[y] = z <=> y = r)
  /\ y # r => t.parent[y] \in u[r] /\ t.kid[t.parent[y]]["left"] = y /\ SideOf(t, y) = "left"

\* the nodes around a node with two children and its successor
LEMMA AroundIs ==
  ASSUME NEW rk \in Rankings, NEW t, NEW L, NEW u, Search(rk, t, L, u), NEW z, NEW l, NEW r, NEW y, NEW x,
         Succeeds(rk, t, L, u, z, l, r, y, x)
  PROVE  Around(rk, t, L, u, z, l, r, y, x)
<1>0. /\ "left" \in Sides /\ "right" \in Sides /\ Other("left") = "right" /\ Other("right") = "left"
      /\ \A d \in Sides : d = "left" \/ d = "right"
  BY DEF Sides, Other
<1>1. /\ z \in L /\ l = t.kid[z]["left"] /\ r = t.kid[z]["right"] /\ l # Nil /\ r # Nil
      /\ y \in u[r] /\ t.kid[y]["left"] = Nil /\ x = t.kid[y]["right"]
      /\ \A m \in u[r] : m # y => Before(rk, "left", y, m)
  BY DEF Succeeds, Edge
<1>2. /\ l \in L /\ r \in L /\ l # r /\ l # z /\ r # z /\ t.parent[l] = z /\ t.parent[r] = z
      /\ l # t.root /\ r # t.root /\ u[r] \subseteq u[z] /\ u[l] \subseteq u[z]
      /\ z \notin u[l] /\ z \notin u[r]
      /\ (\A m \in u[l] : Before(rk, "left", m, z)) /\ (\A m \in u[r] : Before(rk, "right", m, z))
  BY <1>0, <1>1, KidFacts
<1>3. y \in L /\ u[y] \subseteq u[r] /\ y # z /\ (y # r => t.parent[y] \in u[r])
  BY <1>1, <1>2, NestedFacts
<1>4. /\ x \in L \cup {Nil} /\ u[x] \subseteq u[y] /\ y \notin u[x] /\ x # y
      /\ (x # Nil => t.parent[x] = y /\ x # t.root)
  BY <1>0, <1>1, <1>3, KidFacts
<1>5. \A m \in L : m \in Int /\ m # Nil /\ m \in u[m] /\ u[m] \subseteq L
  BY NodeFacts
<1>6. \A m \in u[l] : m \in Int /\ Before(rk, "left", m, z) /\ Before(rk, "left", m, y) /\ m # y
  <2>1. y \in Int /\ z \in Int /\ Before(rk, "left", z, y)
    BY <1>0, <1>1, <1>2, <1>3, <1>5, BeforeIs
  <2>2. u[l] \subseteq Int
    BY <1>2, <1>5
  <2> QED BY <1>0, <1>2, <2>1, <2>2, BeforeIs
<1>7. l # y /\ y \notin u[l]
  BY <1>2, <1>5, <1>6
<1>8. u[y] = {y} \cup u[x]
  <2>1. \A m \in u[y] : m = y \/ m \in u[t.kid[y]["left"]] \/ m \in u[t.kid[y]["right"]]
    BY <1>0, <1>3, NodeFacts
  <2>2. u[t.kid[y]["left"]] = {} /\ u[t.kid[y]["right"]] = u[x]
    BY <1>1, Facts
  <2> QED BY <1>3, <1>4, <1>5, <2>1, <2>2
<1>9. u[z] = {z} \cup u[l] \cup u[r]
  <2>1. \A m \in u[z] : m = z \/ m \in u[l] \/ m \in u[r]
    BY <1>0, <1>1, NodeFacts
  <2> QED BY <1>1, <1>2, <1>5, <2>1
<1>10. x # z /\ x # l /\ x # r /\ z \notin u[x] /\ u[x] \subseteq u[r]
  <2>1. z \notin u[x] /\ u[x] \subseteq u[r]
    BY <1>2, <1>3, <1>4
  <2>2. x # r
    <3>1. CASE x = r
      BY <1>2, <1>3, <1>4, <1>5, <3>1, NestedFacts
    <3> QED BY <3>1
  <2>3. x # l
    BY <1>2, <1>3, <1>4, <1>5, <1>7
  <2>4. x # z
    BY <1>1, <1>4, <1>5, <2>1
  <2> QED BY <2>1, <2>2, <2>3, <2>4
<1>11. y # t.root
  <2>1. u[t.root] = L
    BY Facts
  <2> QED BY <1>1, <1>2, <1>3, <2>1
<1>12. /\ t.parent[y] \in L /\ SideOf(t, y) \in Sides /\ t.kid[t.parent[y]][SideOf(t, y)] = y
       /\ t.parent[y] # y
  <2>1. /\ t.parent[y] \in L /\ SideOf(t, y) \in Sides /\ t.kid[t.parent[y]][SideOf(t, y)] = y
    BY <1>3, <1>11, Above
  <2> QED BY <2>1, KidFacts
<1>13. t.parent[y] = z <=> y = r
  BY <1>2, <1>3
<1>14. ASSUME y # r PROVE t.kid[t.parent[y]]["left"] = y /\ SideOf(t, y) = "left"
  <2>1. t.parent[y] \in u[r] /\ t.parent[y] # y
    BY <1>3, <1>12, <1>14
  <2>2. Before(rk, "left", y, t.parent[y]) /\ y \in Int /\ t.parent[y] \in Int
    BY <1>1, <1>3, <1>5, <1>12, <2>1
  <2>3. SideOf(t, y) # "right"
    <3> SUFFICES ASSUME SideOf(t, y) = "right" PROVE FALSE
      OBVIOUS
    <3>1. Before(rk, "right", y, t.parent[y])
      BY <1>0, <1>3, <1>5, <1>12, KidFacts
    <3> QED BY <1>0, <2>2, <3>1, BeforeIs
  <2>4. SideOf(t, y) = "left"
    BY <1>0, <1>12, <2>3
  <2> QED BY <1>12, <2>4
<1>15. \A m \in u[r] : m # y => Before(rk, "right", m, y)
  <2>1. u[r] \subseteq Int /\ y \in Int
    BY <1>2, <1>3, <1>5
  <2> QED BY <1>0, <1>1, <2>1, BeforeIs
<1>16. x # t.root
  <2>1. CASE x = Nil
    BY <1>2, <2>1, Facts
  <2> QED BY <1>4, <2>1
<1> QED BY <1>1, <1>2, <1>3, <1>4, <1>6, <1>7, <1>8, <1>9, <1>10, <1>11, <1>12, <1>13, <1>14,
           <1>15, <1>16 DEF Around

\* the tree after the three assignments that replace z by y
Taken(t, z, l, r, y, x) ==
  LET detached == IF t.parent[y] = z THEN SetParent(t, x, y)
                  ELSE SetParent(SetKid(Transplant(t, y, x), y, "right", r), r, y)
      moved == SetParent(SetKid(Transplant(detached, z, y), y, "left", l), l, y)
  IN SetColor(moved, y, t.color[z])

Replaced2(t, z, l, r, y, x) == Forget(Taken(t, z, l, r, y, x), z)

Swapped(t, L, z, l, r, y, x, f) ==
  /\ f.root = IF z = t.root THEN y ELSE t.root
  /\ \A k \in Nodes, d \in Sides :
       f.kid[k][d] = IF k = z THEN NULL
                     ELSE IF k = y THEN (IF d = "left" THEN l ELSE IF y = r THEN x ELSE r)
                     ELSE IF z # t.root /\ k = t.parent[z] /\ d = SideOf(t, z) THEN y
                     ELSE IF y # r /\ k = t.parent[y] /\ d = "left" THEN x
                     ELSE t.kid[k][d]
  /\ \A k \in Nodes :
       f.parent[k] = IF k = z THEN NULL ELSE IF k = y THEN t.parent[z]
                     ELSE IF k = l \/ k = r THEN y
                     ELSE IF k = x THEN (IF y = r THEN y ELSE t.parent[y])
                     ELSE t.parent[k]
  /\ \A k \in Nodes : f.color[k] = IF k = z THEN "red" ELSE IF k = y THEN t.color[z] ELSE t.color[k]

\* the fields of a tree whose successor node has been detached
LEMMA DetachFields ==
  ASSUME NEW rk \in Rankings, NEW t, NEW L, NEW u, Search(rk, t, L, u), NEW z, NEW l, NEW r, NEW y, NEW x,
         Around(rk, t, L, u, z, l, r, y, x),
         NEW q, q = IF t.parent[y] = z THEN SetParent(t, x, y)
                    ELSE SetParent(SetKid(Transplant(t, y, x), y, "right", r), r, y)
  PROVE  /\ q \in Trees /\ q.root = t.root /\ q.color = t.color
         /\ \A k \in Nodes, d \in Sides :
              q.kid[k][d] = IF y # r /\ k = y /\ d = "right" THEN r
                            ELSE IF y # r /\ k = t.parent[y] /\ d = "left" THEN x
                            ELSE t.kid[k][d]
         /\ \A k \in Nodes :
              q.parent[k] = IF y # r /\ k = r THEN y
                            ELSE IF k = x THEN (IF y = r THEN y ELSE t.parent[y])
                            ELSE t.parent[k]
<1>0. /\ y \in L /\ r \in L /\ x \in L \cup {Nil} /\ y # t.root /\ x # r
      /\ (t.parent[y] = z <=> y = r) /\ (y # r => SideOf(t, y) = "left")
      /\ t.parent[y] \in L /\ t.parent[y] # y
  BY DEF Around
<1>1. /\ t \in Trees /\ y \in Nodes /\ r \in Nodes /\ x \in Nodes /\ t.parent[y] \in Nodes
      /\ "right" \in Sides /\ t.parent[y] # Nil
  BY <1>0, Facts DEF Sides
<1>2. CASE y = r
  <2>1. q = SetParent(t, x, y)
    BY <1>0, <1>2
  <2>2. q \in Trees
    BY <1>1, <2>1, SetParentType
  <2>3. /\ q.root = t.root /\ q.kid = t.kid /\ q.color = t.color
        /\ \A k \in Nodes : q.parent[k] = IF k = x THEN y ELSE t.parent[k]
    BY <1>1, <2>1, SetParentIs
  <2> QED BY <1>2, <2>2, <2>3
<1>3. CASE y # r
  <2> DEFINE a == Transplant(t, y, x)
             b == SetKid(a, y, "right", r)
  <2>a. a = Transplant(t, y, x)
    OBVIOUS
  <2>b. b = SetKid(a, y, "right", r)
    OBVIOUS
  <2>c. q = SetParent(b, r, y)
    BY <1>0, <1>3
  <2> HIDE DEF a, b
  <2>1. a \in Trees
    BY <1>1, <2>a, TransplantType
  <2>2. /\ a.color = t.color /\ a.root = t.root
        /\ \A k \in Nodes : a.parent[k] = IF k = x THEN t.parent[y] ELSE t.parent[k]
        /\ \A k \in Nodes, d \in Sides :
             a.kid[k][d] = IF k = t.parent[y] /\ d = SideOf(t, y) THEN x ELSE t.kid[k][d]
    BY <1>1, <2>a, TransplantIs
  <2>3. b \in Trees
    BY <1>1, <2>1, <2>b, SetKidType
  <2>4. /\ b.root = a.root /\ b.parent = a.parent /\ b.color = a.color
        /\ \A k \in Nodes, d \in Sides :
             b.kid[k][d] = IF k = y /\ d = "right" THEN r ELSE a.kid[k][d]
    BY <1>1, <2>1, <2>b, SetKidIs
  <2>5. q \in Trees
    BY <1>1, <2>3, <2>c, SetParentType
  <2>6. /\ q.root = b.root /\ q.kid = b.kid /\ q.color = b.color
        /\ \A k \in Nodes : q.parent[k] = IF k = r THEN y ELSE b.parent[k]
    BY <1>1, <2>3, <2>c, SetParentIs
  <2>7. SideOf(t, y) = "left"
    BY <1>0, <1>3
  <2> QED BY <1>3, <2>2, <2>4, <2>5, <2>6, <2>7
<1> QED BY <1>2, <1>3

\* the fields of a tree in which the successor has taken the place of the node
LEMMA SwapFields ==
  ASSUME NEW rk \in Rankings, NEW t, NEW L, NEW u, Search(rk, t, L, u), NEW z, NEW l, NEW r, NEW y, NEW x,
         Around(rk, t, L, u, z, l, r, y, x), NEW f, f = Replaced2(t, z, l, r, y, x)
  PROVE  f \in Trees /\ Swapped(t, L, z, l, r, y, x, f) /\ f.root = Taken(t, z, l, r, y, x).root
<1> DEFINE q == IF t.parent[y] = z THEN SetParent(t, x, y)
                ELSE SetParent(SetKid(Transplant(t, y, x), y, "right", r), r, y)
           a == Transplant(q, z, y)
           b == SetKid(a, y, "left", l)
           c == SetParent(b, l, y)
           e == SetColor(c, y, t.color[z])
<1>q. q = IF t.parent[y] = z THEN SetParent(t, x, y)
          ELSE SetParent(SetKid(Transplant(t, y, x), y, "right", r), r, y)
  OBVIOUS
<1>a. a = Transplant(q, z, y)
  OBVIOUS
<1>b. b = SetKid(a, y, "left", l)
  OBVIOUS
<1>c. c = SetParent(b, l, y)
  OBVIOUS
<1>d. e = SetColor(c, y, t.color[z])
  OBVIOUS
<1>e. e = Taken(t, z, l, r, y, x)
  BY DEF Taken
<1>f. f = Forget(e, z)
  BY <1>e DEF Replaced2
<1> HIDE DEF q, a, b, c, e
<1>0. /\ l \in L /\ r \in L /\ y \in L /\ x \in L \cup {Nil} /\ z \in L
      /\ l # r /\ l # z /\ r # z /\ y # z /\ y # l /\ x # l /\ x # z /\ x # y /\ x # r
      /\ r = t.kid[z]["right"] /\ x = t.kid[y]["right"] /\ t.kid[y]["left"] = Nil
      /\ y \in u[r] /\ u[r] \subseteq u[z] /\ t.parent[y] # y
      /\ t.parent[y] \in L /\ (t.parent[y] = z <=> y = r) /\ (y # r => t.parent[y] \in u[r])
  BY DEF Around
<1>1. /\ t \in Trees /\ y \in Nodes /\ r \in Nodes /\ x \in Nodes /\ z \in Nodes /\ l \in Nodes
      /\ "left" \in Sides /\ t.parent[z] \in Nodes /\ (t.parent[z] = Nil <=> z = t.root)
      /\ t.color[z] \in {"red", "black"} /\ \A d \in Sides : d = "left" \/ d = "right"
  BY <1>0, Facts, NodeFacts DEF Sides, Trees
<1>2. /\ q \in Trees /\ q.root = t.root /\ q.color = t.color
      /\ \A k \in Nodes, d \in Sides :
           q.kid[k][d] = IF y # r /\ k = y /\ d = "right" THEN r
                         ELSE IF y # r /\ k = t.parent[y] /\ d = "left" THEN x
                         ELSE t.kid[k][d]
      /\ \A k \in Nodes :
           q.parent[k] = IF y # r /\ k = r THEN y
                         ELSE IF k = x THEN (IF y = r THEN y ELSE t.parent[y])
                         ELSE t.parent[k]
  BY <1>q, DetachFields
<1>3. z # t.root => /\ t.parent[z] \in L /\ t.parent[z] \notin u[z] /\ t.parent[z] # y
                    /\ t.parent[z] # z /\ t.parent[z] # t.parent[y]
  <2> SUFFICES ASSUME z # t.root
               PROVE  /\ t.parent[z] \in L /\ t.parent[z] \notin u[z] /\ t.parent[z] # y
                      /\ t.parent[z] # z /\ t.parent[z] # t.parent[y]
    OBVIOUS
  <2>1. /\ t.parent[z] \in L /\ SideOf(t, z) \in Sides /\ t.kid[t.parent[z]][SideOf(t, z)] = z
    BY <1>0, Above
  <2>2. t.parent[z] # z /\ z \in u[t.parent[z]]
    BY <1>0, <2>1, KidFacts, NodeFacts
  <2>3. t.parent[z] \notin u[z] /\ z \in u[z] /\ r \in u[r]
    BY <1>0, <2>1, <2>2, NestedFacts, NodeFacts
  <2>4. y \in u[z] /\ t.parent[y] \in u[z]
    BY <1>0, <2>3
  <2> QED BY <2>1, <2>2, <2>3, <2>4
<1>4. q.parent[z] = t.parent[z]
  BY <1>0, <1>1, <1>2
<1>5. z # t.root => SideOf(q, z) = SideOf(t, z)
  BY <1>1, <1>2, <1>3, <1>4 DEF SideOf
<1>6. a \in Trees
  BY <1>a, <1>1, <1>2, <1>4, TransplantType
<1>7. /\ a.color = t.color
      /\ a.root = IF z = t.root THEN y ELSE t.root
      /\ \A k \in Nodes : a.parent[k] = IF k = y THEN t.parent[z] ELSE q.parent[k]
      /\ \A k \in Nodes, d \in Sides :
           a.kid[k][d] = IF z # t.root /\ k = t.parent[z] /\ d = SideOf(t, z) THEN y
                         ELSE q.kid[k][d]
  <2>0. /\ q \in Trees /\ q.parent[z] \in Nodes /\ q.color = t.color /\ q.root = t.root
        /\ (q.parent[z] = Nil <=> z = t.root)
    BY <1>1, <1>2, <1>4
  <2>1. /\ a.color = q.color
        /\ a.root = IF q.parent[z] = Nil THEN y ELSE q.root
        /\ \A k \in Nodes : a.parent[k] = IF k = y THEN q.parent[z] ELSE q.parent[k]
        /\ \A k \in Nodes, d \in Sides :
             a.kid[k][d] = IF q.parent[z] # Nil /\ k = q.parent[z] /\ d = SideOf(q, z) THEN y
                           ELSE q.kid[k][d]
    BY <1>a, <1>1, <2>0, TransplantIs
  <2> HIDE <1>2
  <2> QED BY <1>4, <1>5, <2>0, <2>1
<1>8. b \in Trees
  BY <1>b, <1>1, <1>6, SetKidType
<1>9. /\ b.root = a.root /\ b.parent = a.parent /\ b.color = a.color
      /\ \A k \in Nodes, d \in Sides : b.kid[k][d] = IF k = y /\ d = "left" THEN l ELSE a.kid[k][d]
  <2>1. a \in Trees /\ y \in Nodes /\ l \in Nodes \cup {NULL} /\ "left" \in Sides
    BY <1>1, <1>6
  <2> QED BY <1>b, <2>1, SetKidIs
<1>10. c \in Trees
  BY <1>c, <1>1, <1>8, SetParentType
<1>11. /\ c.root = b.root /\ c.kid = b.kid /\ c.color = b.color
       /\ \A k \in Nodes : c.parent[k] = IF k = l THEN y ELSE b.parent[k]
  BY <1>c, <1>1, <1>8, SetParentIs
<1>12. e \in Trees
  BY <1>d, <1>1, <1>10, SetColorType
<1>13. /\ e.root = c.root /\ e.kid = c.kid /\ e.parent = c.parent
       /\ \A k \in Nodes : e.color[k] = IF k = y THEN t.color[z] ELSE c.color[k]
  BY <1>d, <1>1, <1>10, SetColorIs
<1>14. f \in Trees
  BY <1>f, <1>1, <1>12, ForgetType
<1>15. /\ f.root = e.root
       /\ \A k \in Nodes, d \in Sides : f.kid[k][d] = IF k = z THEN NULL ELSE e.kid[k][d]
       /\ \A k \in Nodes : f.parent[k] = IF k = z THEN NULL ELSE e.parent[k]
       /\ \A k \in Nodes : f.color[k] = IF k = z THEN "red" ELSE e.color[k]
  BY <1>f, <1>1, <1>12, ForgetIs
<1>16. ASSUME NEW k \in Nodes, NEW d \in Sides
       PROVE  f.kid[k][d] = IF k = z THEN NULL
                     ELSE IF k = y THEN (IF d = "left" THEN l ELSE IF y = r THEN x ELSE r)
                     ELSE IF z # t.root /\ k = t.parent[z] /\ d = SideOf(t, z) THEN y
                     ELSE IF y # r /\ k = t.parent[y] /\ d = "left" THEN x
                     ELSE t.kid[k][d]
  <2>1. f.kid[k][d] = IF k = z THEN NULL ELSE IF k = y /\ d = "left" THEN l ELSE a.kid[k][d]
    BY <1>9, <1>11, <1>13, <1>15
  <2>2. CASE k = y
    <3>1. a.kid[k][d] = q.kid[y][d]
      BY <1>3, <1>7, <2>2
    <3>2. d = "right" => q.kid[y][d] = IF y = r THEN x ELSE r
      BY <1>0, <1>1, <1>2
    <3> QED BY <1>0, <1>1, <2>1, <2>2, <3>1, <3>2
  <2>3. CASE k # y
    BY <1>2, <1>7, <2>1, <2>3
  <2> QED BY <2>2, <2>3
<1>17. ASSUME NEW k \in Nodes
       PROVE  f.parent[k] = IF k = z THEN NULL ELSE IF k = y THEN t.parent[z]
                     ELSE IF k = l \/ k = r THEN y
                     ELSE IF k = x THEN (IF y = r THEN y ELSE t.parent[y])
                     ELSE t.parent[k]
  <2>1. f.parent[k] = IF k = z THEN NULL ELSE IF k = l THEN y ELSE IF k = y THEN t.parent[z]
                      ELSE q.parent[k]
    BY <1>7, <1>9, <1>11, <1>13, <1>15
  <2> QED BY <1>0, <1>2, <2>1
<1>18. \A k \in Nodes : f.color[k] = IF k = z THEN "red" ELSE IF k = y THEN t.color[z] ELSE t.color[k]
  BY <1>7, <1>9, <1>11, <1>13, <1>15
<1>19. f.root = IF z = t.root THEN y ELSE t.root
  BY <1>7, <1>9, <1>11, <1>13, <1>15
<1> QED BY <1>e, <1>14, <1>15, <1>16, <1>17, <1>18, <1>19 DEF Swapped

\* what is below a node when y has taken the place of z
Resettled(L, u, z, y) ==
  [n \in Nodes |-> IF n = y THEN u[z] \ {z} ELSE IF z \in u[n] THEN u[n] \ {z} ELSE u[n] \ {y}]

\* the children before and after, for a node n other than y and z
Exchanged(t, L, z, r, y, x, f) ==
  /\ \A n \in L, d \in Sides : n # z /\ n # y =>
       \/ t.kid[n][d] = z /\ f.kid[n][d] = y /\ f.parent[y] = n
       \/ t.kid[n][d] = y /\ f.kid[n][d] = x /\ n = t.parent[y] /\ y # r
       \/ t.kid[n][d] # z /\ t.kid[n][d] # y /\ f.kid[n][d] = t.kid[n][d]
  /\ \A k \in Keys \ L : f.parent[k] = NULL /\ \A d \in Sides : f.kid[k][d] = NULL
  /\ \A d \in Sides : f.kid[z][d] = NULL
  /\ f.parent[z] = NULL
  /\ z # t.root => /\ t.parent[z] \in L /\ t.parent[z] # z /\ t.parent[z] # y
                   /\ t.kid[t.parent[z]][SideOf(t, z)] = z /\ SideOf(t, z) \in Sides
                   /\ f.kid[t.parent[z]][SideOf(t, z)] = y

\* the child pointers of that tree
LEMMA SwapKids ==
  ASSUME NEW rk \in Rankings, NEW t, NEW L, NEW u, Search(rk, t, L, u), NEW z, NEW l, NEW r, NEW y, NEW x,
         Around(rk, t, L, u, z, l, r, y, x), NEW f, Swapped(t, L, z, l, r, y, x, f)
  PROVE  Exchanged(t, L, z, r, y, x, f)
<1>0. /\ y \in L /\ z \in L /\ y # z /\ y # t.root /\ l \in L /\ r \in L /\ x \in L \cup {Nil}
      /\ (t.parent[y] = z <=> y = r) /\ (y # r => SideOf(t, y) = "left")
      /\ t.parent[y] \in L /\ t.parent[y] # y /\ y \in u[r] /\ u[r] \subseteq u[z]
      /\ (y # r => t.parent[y] \in u[r])
  BY DEF Around
<1>1. /\ y \in Nodes /\ z \in Nodes /\ y # Nil /\ z # Nil /\ y \in Int /\ "left" \in Sides
      /\ L \subseteq Nodes /\ Keys \subseteq Nodes /\ z \notin Keys \ L /\ y \notin Keys \ L
  BY <1>0, Facts DEF Sides
<1>2. /\ \A k \in Nodes, d \in Sides :
           f.kid[k][d] = IF k = z THEN NULL
                         ELSE IF k = y THEN (IF d = "left" THEN l ELSE IF y = r THEN x ELSE r)
                         ELSE IF z # t.root /\ k = t.parent[z] /\ d = SideOf(t, z) THEN y
                         ELSE IF y # r /\ k = t.parent[y] /\ d = "left" THEN x
                         ELSE t.kid[k][d]
      /\ \A k \in Nodes :
           f.parent[k] = IF k = z THEN NULL ELSE IF k = y THEN t.parent[z]
                         ELSE IF k = l \/ k = r THEN y
                         ELSE IF k = x THEN (IF y = r THEN y ELSE t.parent[y])
                         ELSE t.parent[k]
  BY DEF Swapped
<1>3. ASSUME z # t.root
      PROVE  /\ t.parent[z] \in L /\ SideOf(t, z) \in Sides /\ t.kid[t.parent[z]][SideOf(t, z)] = z
             /\ t.parent[z] # z /\ t.parent[z] # y
  <2>1. /\ t.parent[z] \in L /\ SideOf(t, z) \in Sides /\ t.kid[t.parent[z]][SideOf(t, z)] = z
    BY <1>0, <1>3, Above
  <2>2. t.parent[z] # z /\ z \in u[t.parent[z]]
    BY <1>0, <2>1, KidFacts, NodeFacts
  <2>3. y \in u[z] /\ u[y] \subseteq u[z] /\ z \notin u[y]
    BY <1>0, NestedFacts
  <2> QED BY <2>1, <2>2, <2>3
<1>4. \A n \in L, d \in Sides : t.kid[n][d] = z => z # t.root /\ n = t.parent[z] /\ d = SideOf(t, z)
  BY <1>0, <1>1, KidFacts, Above
<1>5. \A n \in L, d \in Sides : t.kid[n][d] = y => n = t.parent[y] /\ d = SideOf(t, y)
  BY <1>0, Above
<1>6. t.kid[t.parent[y]][SideOf(t, y)] = y
  BY <1>0, Above
<1>7. ASSUME NEW n \in L, NEW d \in Sides, n # z, n # y
      PROVE  \/ t.kid[n][d] = z /\ f.kid[n][d] = y /\ f.parent[y] = n
             \/ t.kid[n][d] = y /\ f.kid[n][d] = x /\ n = t.parent[y] /\ y # r
             \/ t.kid[n][d] # z /\ t.kid[n][d] # y /\ f.kid[n][d] = t.kid[n][d]
  <2>1. f.kid[n][d] = IF z # t.root /\ n = t.parent[z] /\ d = SideOf(t, z) THEN y
                      ELSE IF y # r /\ n = t.parent[y] /\ d = "left" THEN x
                      ELSE t.kid[n][d]
    BY <1>1, <1>2, <1>7
  <2>2. f.parent[y] = t.parent[z]
    BY <1>0, <1>1, <1>2
  <2>3. CASE t.kid[n][d] = z
    BY <1>4, <2>1, <2>2, <2>3
  <2>4. CASE t.kid[n][d] = y
    <3>1. n = t.parent[y] /\ d = SideOf(t, y)
      BY <1>5, <2>4
    <3>2. y # r
      BY <1>0, <1>7, <3>1
    <3>3. ~(z # t.root /\ n = t.parent[z] /\ d = SideOf(t, z))
      BY <1>0, <1>3, <2>4
    <3> QED BY <1>0, <2>1, <2>4, <3>1, <3>2, <3>3
  <2>5. CASE t.kid[n][d] # z /\ t.kid[n][d] # y
    <3>1. ~(z # t.root /\ n = t.parent[z] /\ d = SideOf(t, z))
      BY <1>3, <2>5
    <3>2. ~(y # r /\ n = t.parent[y] /\ d = "left")
      BY <1>0, <1>6, <2>5
    <3> QED BY <2>1, <2>5, <3>1, <3>2
  <2> QED BY <2>3, <2>4, <2>5
<1>8. ASSUME NEW k \in Keys \ L PROVE f.parent[k] = NULL /\ \A d \in Sides : f.kid[k][d] = NULL
  <2>1. t.parent[k] = NULL /\ \A d \in Sides : t.kid[k][d] = NULL
    BY DEF Search
  <2>2. k \in Nodes /\ k # z /\ k # y /\ k # l /\ k # r /\ k # x /\ k # t.parent[y]
        /\ (z # t.root => k # t.parent[z])
    BY <1>0, <1>3, Facts
  <2> QED BY <1>2, <2>1, <2>2
<1>9. f.parent[z] = NULL /\ \A d \in Sides : f.kid[z][d] = NULL
  BY <1>1, <1>2
<1>10. z # t.root => f.kid[t.parent[z]][SideOf(t, z)] = y
  BY <1>1, <1>2, <1>3
<1> QED BY <1>3, <1>7, <1>8, <1>9, <1>10 DEF Exchanged

\* what is below the nodes around z and y
Resettles(t, L, u, z, l, r, y, x, w) ==
  /\ w \in [Nodes -> SUBSET (L \ {z})] /\ w[Nil] = {}
  /\ w[y] = u[z] \ {z}
  /\ \A n \in Nodes : n # y => w[n] = IF z \in u[n] THEN u[n] \ {z} ELSE u[n] \ {y}
  /\ w[l] = u[l] /\ w[x] = u[x] /\ (y # r => w[r] = u[r] \ {y})
  /\ \A n \in L : n # y /\ y \in u[n] /\ z \notin u[n] => n \in u[r]
  /\ \A n \in L, d \in Sides : n # z /\ z \in u[n] /\ y \in u[t.kid[n][d]] =>
       z \in u[t.kid[n][d]]

\* the certificate of that tree
LEMMA ResettledIs ==
  ASSUME NEW rk \in Rankings, NEW t, NEW L, NEW u, Search(rk, t, L, u), NEW z, NEW l, NEW r, NEW y, NEW x,
         Around(rk, t, L, u, z, l, r, y, x), NEW w, w = Resettled(L, u, z, y)
  PROVE  Resettles(t, L, u, z, l, r, y, x, w)
<1>0. /\ l \in L /\ r \in L /\ y \in L /\ x \in L \cup {Nil} /\ z \in L
      /\ y # z /\ y # l /\ x # y /\ r # z /\ t.parent[r] = z
      /\ y \in u[r] /\ u[r] \subseteq u[z]
      /\ z \notin u[l] /\ z \notin u[r] /\ y \notin u[l] /\ y \notin u[x] /\ z \notin u[x]
  BY DEF Around
<1>1. /\ z \in Nodes /\ y \in Nodes /\ l \in Nodes /\ r \in Nodes /\ x \in Nodes /\ Nil \in Nodes
      /\ u[Nil] = {} /\ y # Nil /\ u \in [Nodes -> SUBSET L]
  BY <1>0, Facts
<1>2. /\ w[y] = u[z] \ {z}
      /\ \A n \in Nodes : n # y => w[n] = IF z \in u[n] THEN u[n] \ {z} ELSE u[n] \ {y}
  BY <1>1 DEF Resettled
<1>3. w \in [Nodes -> SUBSET (L \ {z})]
  BY <1>1 DEF Resettled
<1>4. w[Nil] = {} /\ w[l] = u[l] /\ w[x] = u[x] /\ (y # r => w[r] = u[r] \ {y})
  <2>1. w[Nil] = u[Nil] \ {y}
    BY <1>1, <1>2
  <2>2. w[l] = u[l] \ {y} /\ u[l] \ {y} = u[l]
    <3>1. l \in Nodes /\ l # y /\ z \notin u[l] /\ y \notin u[l]
      BY <1>0, <1>1
    <3> QED BY <1>2, <3>1
  <2>3. w[x] = u[x] \ {y} /\ u[x] \ {y} = u[x]
    <3>1. x \in Nodes /\ x # y /\ z \notin u[x] /\ y \notin u[x]
      BY <1>0, <1>1
    <3> QED BY <1>2, <3>1
  <2>4. y # r => w[r] = u[r] \ {y}
    <3>1. r \in Nodes /\ z \notin u[r]
      BY <1>0, <1>1
    <3> QED BY <1>2, <3>1
  <2> QED BY <1>1, <2>1, <2>2, <2>3, <2>4
<1>5. ASSUME NEW n \in L, n # y, y \in u[n], z \notin u[n] PROVE n \in u[r]
  <2>1. n \in u[r] \/ r \in u[n]
    BY <1>0, <1>5, Laminar
  <2>2. r = n
        \/ n \in u[r]
    BY <1>0, <1>5, <2>1, NestedFacts
  <2> QED BY <1>0, <2>2, NodeFacts
<1>6. ASSUME NEW n \in L, NEW d \in Sides, n # z, z \in u[n], y \in u[t.kid[n][d]]
      PROVE  z \in u[t.kid[n][d]]
  <2>1. PICK e \in Sides : z \in u[t.kid[n][e]]
    BY <1>0, <1>6, NodeFacts
  <2>2. t.kid[n][e] \in L
    BY <1>1, <2>1, KidFacts
  <2>3. y \in u[t.kid[n][e]]
    BY <1>0, <2>1, <2>2, NestedFacts
  <2>4. CASE e = d
    BY <2>1, <2>4
  <2>5. CASE e # d
    <3>1. e = Other(d) /\ y \in Int /\ n \in Int
      BY <1>0, <2>5, SidesAre, Facts
    <3>2. Before(rk, d, y, n) /\ Before(rk, e, y, n)
      BY <1>6, <2>3, KidFacts
    <3> QED BY <3>1, <3>2, BeforeIs
  <2> QED BY <2>4, <2>5
<1> QED BY <1>2, <1>3, <1>4, <1>5, <1>6 DEF Resettles

\* what is below each of its nodes
LEMMA ResettledMember ==
  ASSUME NEW rk \in Rankings, NEW t, NEW L, NEW u, Search(rk, t, L, u), NEW z, NEW l, NEW r, NEW y, NEW x,
         Around(rk, t, L, u, z, l, r, y, x), NEW w, Resettles(t, L, u, z, l, r, y, x, w),
         NEW n \in Nodes, NEW k
  PROVE  k \in w[n] <=> /\ n = y => k \in u[z] /\ k # z
                        /\ n # y => k \in u[n] /\ k # z
                        /\ n # y /\ k = y => z \in u[n]
<1>1. y # z
  BY DEF Around
<1>2. CASE n = y
  <2>1. w[n] = u[z] \ {z}
    BY <1>2 DEF Resettles
  <2> QED BY <1>2, <2>1
<1>3. CASE n # y /\ z \in u[n]
  <2>1. w[n] = u[n] \ {z}
    BY <1>3 DEF Resettles
  <2> QED BY <1>3, <2>1
<1>4. CASE n # y /\ z \notin u[n]
  <2>1. w[n] = u[n] \ {y}
    BY <1>4 DEF Resettles
  <2> QED BY <1>4, <2>1
<1> QED BY <1>2, <1>3, <1>4

\* Its subtrees are nested.
LEMMA SwapNested ==
  ASSUME NEW rk \in Rankings, NEW t, NEW L, NEW u, Search(rk, t, L, u), NEW z, NEW l, NEW r, NEW y, NEW x,
         Around(rk, t, L, u, z, l, r, y, x), NEW f, Swapped(t, L, z, l, r, y, x, f),
         NEW w, Resettles(t, L, u, z, l, r, y, x, w)
  PROVE  Enclosed(f, L \ {z}, w)
<1>0. /\ l \in L /\ r \in L /\ y \in L /\ x \in L \cup {Nil} /\ z \in L
      /\ l # r /\ l # z /\ r # z /\ y # z /\ y # l /\ x # l /\ x # z /\ x # y /\ x # r
      /\ l = t.kid[z]["left"] /\ r = t.kid[z]["right"] /\ x = t.kid[y]["right"] /\ t.kid[y]["left"] = Nil
      /\ t.parent[l] = z /\ t.parent[r] = z /\ (x # Nil => t.parent[x] = y)
      /\ y \in u[r] /\ u[r] \subseteq u[z] /\ z \notin u[r]
      /\ t.parent[y] \in L /\ t.parent[y] # y /\ (t.parent[y] = z <=> y = r)
      /\ (y # r => t.parent[y] \in u[r])
  BY DEF Around
<1>1. \A n \in Nodes : \A k : k \in w[n] <=> /\ n = y => k \in u[z] /\ k # z
                                             /\ n # y => k \in u[n] /\ k # z
                                             /\ n # y /\ k = y => z \in u[n]
  BY ResettledMember
<1>2. \A k \in Nodes : f.parent[k] = IF k = z THEN NULL ELSE IF k = y THEN t.parent[z]
                                     ELSE IF k = l \/ k = r THEN y
                                     ELSE IF k = x THEN (IF y = r THEN y ELSE t.parent[y])
                                     ELSE t.parent[k]
  BY DEF Swapped
<1> SUFFICES ASSUME NEW n \in L \ {z}, NEW m \in w[n]
             PROVE  w[m] \subseteq w[n] /\ (m # n => f.parent[m] \in w[n])
  BY DEF Enclosed
<1>3. /\ n \in L /\ n # z /\ n \in Nodes /\ n # Nil /\ y \in Nodes /\ z \in Nodes
      /\ y \in u[z] /\ z \in u[z] /\ y \in u[y] /\ u[z] \subseteq L /\ u[n] \subseteq L
  BY <1>0, NodeFacts
<1>4. /\ m \in L /\ m # z /\ m \in Nodes /\ m # Nil /\ (n # y => m \in u[n]) /\ (n = y => m \in u[z])
      /\ u[m] \subseteq L
  <2>1. m \in L /\ m # z /\ (n # y => m \in u[n]) /\ (n = y => m \in u[z])
    BY <1>1, <1>3
  <2> QED BY <2>1, NodeFacts
<1>5. ASSUME NEW k \in L, k # z, n = y => k \in u[z], n # y => k \in u[n],
             k = y => n = y \/ z \in u[n]
      PROVE  k \in w[n]
  BY <1>1, <1>3, <1>5
<1>6. n # y /\ m = y => z \in u[n]
  BY <1>1, <1>3
<1>7. w[m] \subseteq w[n]
  <2>1. CASE n = y /\ m # y
    <3>1. u[m] \subseteq u[z]
      BY <1>0, <1>4, <2>1, NestedFacts
    <3>2. z \notin u[m]
      BY <1>0, <1>4, <2>1, NestedFacts
    <3> QED BY <1>1, <1>3, <1>4, <2>1, <3>1, <3>2
  <2>2. CASE n # y /\ m = y
    <3>1. u[z] \subseteq u[n] /\ z \in u[n]
      BY <1>3, <1>6, <2>2, NestedFacts
    <3> QED BY <1>1, <1>3, <2>2, <3>1
  <2>3. CASE n # y /\ m # y
    <3>1. u[m] \subseteq u[n]
      BY <1>3, <1>4, <2>3, NestedFacts
    <3> QED BY <1>1, <1>3, <1>4, <2>3, <3>1
  <2> QED BY <2>1, <2>2, <2>3
<1>8. ASSUME m # n PROVE f.parent[m] \in w[n]
  <2>1. CASE m = y
    <3>1. z \in u[n] /\ z # n
      BY <1>3, <1>6, <1>8, <2>1
    <3>2. t.parent[z] \in u[n] /\ u[z] \subseteq u[n] /\ z \in L
      BY <1>3, <3>1, NestedFacts
    <3>3. t.parent[z] # z
      <4>1. z # t.root
        BY <1>3, <3>2, NodeFacts, Facts
      <4>2. t.parent[z] \in L /\ SideOf(t, z) \in Sides /\ t.kid[t.parent[z]][SideOf(t, z)] = z
        BY <4>1, <3>2, Above
      <4> QED BY <4>2, KidFacts
    <3>4. f.parent[m] = t.parent[z]
      BY <1>0, <1>2, <1>3, <2>1
    <3> QED BY <1>3, <1>5, <1>8, <2>1, <3>1, <3>2, <3>3, <3>4
  <2>2. CASE m = l \/ m = r
    <3>1. m # y => f.parent[m] = y
      BY <1>0, <1>2, <1>4, <2>2
    <3>2. CASE m = y
      BY <2>1, <3>2
    <3>3. CASE m # y
      <4>1. n # y => z \in u[n]
        BY <1>0, <1>3, <1>4, <1>8, <2>2, NestedFacts
      <4>2. n # y => y \in u[n]
        BY <1>3, <4>1, NestedFacts
      <4> QED BY <1>0, <1>3, <1>5, <3>1, <3>3, <4>1, <4>2
    <3> QED BY <3>2, <3>3
  <2>3. CASE m = x
    <3>1. f.parent[m] = IF y = r THEN y ELSE t.parent[y]
      BY <1>0, <1>2, <1>4, <2>3
    <3>2. n # y => y \in u[n]
      BY <1>0, <1>3, <1>4, <1>8, <2>3, NestedFacts
    <3>3. n # y => t.parent[y] \in u[n]
      BY <1>3, <3>2, NestedFacts
    <3>4. CASE y = r
      <4>1. n # y => z \in u[n]
        BY Zenon, <1>0, <3>3, <3>4
      <4> QED BY ZenonT(40), <1>0, <1>3, <1>5, <3>1, <3>2, <3>4, <4>1
    <3>5. CASE y # r
      <4>1. t.parent[y] \in u[z] /\ t.parent[y] # z
        BY <1>0, <3>5
      <4> QED BY <1>0, <1>5, <3>1, <3>3, <3>5, <4>1
    <3> QED BY <3>4, <3>5
  <2>4. CASE m # y /\ m # l /\ m # r /\ m # x
    <3>1. f.parent[m] = t.parent[m]
      BY <1>2, <1>4, <2>4
    <3>2. (n = y => t.parent[m] \in u[z]) /\ (n # y => t.parent[m] \in u[n])
      BY <1>0, <1>3, <1>4, <1>8, NestedFacts
    <3>3. t.parent[m] \in L
      BY <1>3, <3>2
    <3>4. m # t.root /\ SideOf(t, m) \in Sides /\ t.kid[t.parent[m]][SideOf(t, m)] = m
      BY <1>4, <3>3, NodeFacts, Above, Facts
    <3>5. t.parent[m] # z /\ t.parent[m] # y
      BY <1>0, <1>4, <2>4, <3>4 DEF Sides
    <3> QED BY <1>5, <3>1, <3>2, <3>3, <3>5
  <2> QED BY <2>1, <2>2, <2>3, <2>4
<1> QED BY <1>7, <1>8

\* what hangs from y and from another node afterwards
LEMMA SwapBelow ==
  ASSUME NEW rk \in Rankings, NEW t, NEW L, NEW u, Search(rk, t, L, u), NEW z, NEW l, NEW r, NEW y, NEW x,
         Around(rk, t, L, u, z, l, r, y, x), NEW f, Swapped(t, L, z, l, r, y, x, f),
         NEW w, Resettles(t, L, u, z, l, r, y, x, w)
  PROVE  KidsOK(rk, f, L \ {z}, w)
<1>0. /\ l \in L /\ r \in L /\ y \in L /\ x \in L \cup {Nil} /\ z \in L
      /\ y # z /\ y # l /\ l # z /\ r # z /\ x # z /\ x # y
      /\ y \in u[r] /\ u[r] \subseteq u[z] /\ u[l] \subseteq u[z] /\ u[x] \subseteq u[r]
      /\ u[y] = {y} \cup u[x] /\ u[z] = {z} \cup u[l] \cup u[r]
      /\ z \notin u[l] /\ z \notin u[r] /\ y \notin u[l] /\ y \notin u[x] /\ z \notin u[x]
      /\ \A m \in u[l] : Before(rk, "left", m, y)
      /\ \A m \in u[r] : m # y => Before(rk, "right", m, y)
      /\ (t.parent[y] = z <=> y = r) /\ (y # r => t.parent[y] \in u[r])
  BY DEF Around
<1>1. \A n \in Nodes : \A k : k \in w[n] <=> /\ n = y => k \in u[z] /\ k # z
                                             /\ n # y => k \in u[n] /\ k # z
                                             /\ n # y /\ k = y => z \in u[n]
  BY ResettledMember
<1>2. /\ w[l] = u[l] /\ w[x] = u[x] /\ (y # r => w[r] = u[r] \ {y})
      /\ \A n \in L : n # y /\ y \in u[n] /\ z \notin u[n] => n \in u[r]
      /\ \A n \in L, d \in Sides : n # z /\ z \in u[n] /\ y \in u[t.kid[n][d]] =>
           z \in u[t.kid[n][d]]
  BY DEF Resettles
<1>3. /\ y \in Nodes /\ z \in Nodes /\ y \in u[y] /\ z \in u[z] /\ y \in u[z] /\ u[z] \subseteq L
      /\ y # Nil /\ z # Nil
  BY <1>0, NodeFacts
<1>4. \A d \in Sides : f.kid[y][d] = IF d = "left" THEN l ELSE IF y = r THEN x ELSE r
  BY <1>0, <1>3 DEF Swapped
<1>5. \A n \in L, d \in Sides : n # z /\ n # y =>
        \/ t.kid[n][d] = z /\ f.kid[n][d] = y
        \/ t.kid[n][d] = y /\ f.kid[n][d] = x /\ n = t.parent[y] /\ y # r
        \/ t.kid[n][d] # z /\ t.kid[n][d] # y /\ f.kid[n][d] = t.kid[n][d]
  BY SwapKids DEF Exchanged
<1> SUFFICES ASSUME NEW n \in L \ {z}
             PROVE  /\ n \in w[n] /\ w[n] \subseteq L \ {z}
                    /\ \A d \in Sides : /\ f.kid[n][d] \in (L \ {z}) \cup {Nil}
                                        /\ w[f.kid[n][d]] \subseteq w[n]
                                        /\ \A m \in w[f.kid[n][d]] : Before(rk, d, m, n)
                    /\ \A m \in w[n] : m = n \/ \E d \in Sides : m \in w[f.kid[n][d]]
  BY DEF KidsOK
<1>6. /\ n \in L /\ n # z /\ n \in Nodes /\ n \in u[n] /\ u[n] \subseteq L
      /\ \A m \in u[n] : m = n \/ \E d \in Sides : m \in u[t.kid[n][d]]
  BY NodeFacts
<1>7. n \in w[n] /\ w[n] \subseteq L \ {z}
  BY <1>1, <1>3, <1>6
<1>8. CASE n = y
  <2>1. ASSUME NEW d \in Sides
        PROVE  /\ f.kid[n][d] \in (L \ {z}) \cup {Nil}
               /\ w[f.kid[n][d]] \subseteq w[n]
               /\ \A m \in w[f.kid[n][d]] : Before(rk, d, m, n)
    <3>1. CASE d = "left"
      <4>1. f.kid[n][d] = l /\ w[l] = u[l]
        BY <1>2, <1>4, <1>8, <3>1
      <4>2. u[l] \subseteq w[n]
        BY <1>0, <1>1, <1>6, <1>8
      <4> QED BY <1>0, <1>8, <3>1, <4>1, <4>2
    <3>2. CASE d # "left" /\ y = r
      <4>1. f.kid[n][d] = x /\ w[x] = u[x] /\ d = "right"
        BY <1>2, <1>4, <1>8, <3>2 DEF Sides
      <4>2. u[x] \subseteq w[n]
        BY <1>0, <1>1, <1>6, <1>8
      <4>3. x # z
        BY <1>0
      <4> QED BY <1>0, <1>8, <4>1, <4>2, <4>3
    <3>3. CASE d # "left" /\ y # r
      <4>1. f.kid[n][d] = r /\ w[r] = u[r] \ {y} /\ d = "right"
        BY <1>2, <1>4, <1>8, <3>3 DEF Sides
      <4>2. u[r] \subseteq w[n]
        BY <1>0, <1>1, <1>6, <1>8
      <4> QED BY <1>0, <1>8, <4>1, <4>2
    <3> QED BY <3>1, <3>2, <3>3
  <2>2. ASSUME NEW m \in w[n], m # n PROVE \E d \in Sides : m \in w[f.kid[n][d]]
    <3>1. m \in u[z] /\ m # z
      BY <1>1, <1>6, <1>8
    <3>2. CASE m \in u[l]
      <4>1. f.kid[n]["left"] = l /\ "left" \in Sides
        BY <1>4, <1>8 DEF Sides
      <4> QED BY <1>2, <3>2, <4>1
    <3>3. CASE m \in u[r] /\ y # r
      <4>1. f.kid[n]["right"] = r /\ "right" \in Sides
        BY <1>4, <1>8, <3>3 DEF Sides
      <4> QED BY <1>2, <1>8, <2>2, <3>3, <4>1
    <3>4. CASE m \in u[r] /\ y = r
      <4>1. f.kid[n]["right"] = x /\ "right" \in Sides
        BY <1>4, <1>8, <3>4 DEF Sides
      <4>2. m \in u[x]
        BY <1>0, <1>8, <2>2, <3>4
      <4> QED BY <1>2, <4>1, <4>2
    <3> QED BY <1>0, <3>1, <3>2, <3>3, <3>4
  <2> QED BY <1>7, <2>1, <2>2
<1>9. CASE n # y
  <2>1. ASSUME NEW d \in Sides
        PROVE  /\ f.kid[n][d] \in (L \ {z}) \cup {Nil}
               /\ w[f.kid[n][d]] \subseteq w[n]
               /\ \A m \in w[f.kid[n][d]] : Before(rk, d, m, n)
    <3>1. /\ t.kid[n][d] \in L \cup {Nil} /\ u[t.kid[n][d]] \subseteq u[n] /\ t.kid[n][d] \in Nodes
          /\ \A m \in u[t.kid[n][d]] : Before(rk, d, m, n)
      BY <1>6, KidFacts
    <3>2. CASE t.kid[n][d] = z /\ f.kid[n][d] = y
      <4>1. w[y] \subseteq u[t.kid[n][d]] /\ z \in u[n]
        BY <1>1, <1>3, <3>1, <3>2
      <4>2. w[y] \subseteq w[n]
        BY <1>1, <1>3, <1>6, <1>9, <3>1, <4>1
      <4> QED BY <1>0, <3>1, <3>2, <4>1, <4>2
    <3>3. CASE t.kid[n][d] = y /\ f.kid[n][d] = x
      <4>1. w[x] = u[x] /\ u[x] \subseteq u[t.kid[n][d]] /\ x # z
        BY <1>0, <1>2, <3>3
      <4>2. u[x] \subseteq w[n]
        BY <1>0, <1>1, <1>6, <1>9, <3>1, <4>1
      <4> QED BY <1>0, <3>1, <3>3, <4>1, <4>2
    <3>4. CASE t.kid[n][d] # z /\ t.kid[n][d] # y /\ f.kid[n][d] = t.kid[n][d]
      <4>1. w[t.kid[n][d]] \subseteq u[t.kid[n][d]]
        BY <1>1, <3>1, <3>4
      <4>2. w[t.kid[n][d]] \subseteq w[n]
        BY <1>1, <1>6, <1>9, <3>1, <3>4
      <4> QED BY <3>1, <3>4, <4>1, <4>2
    <3> QED BY <1>5, <1>6, <1>9, <3>2, <3>3, <3>4
  <2>2. ASSUME NEW m \in w[n], m # n PROVE \E d \in Sides : m \in w[f.kid[n][d]]
    <3>1. m \in u[n] /\ m # z /\ (m = y => z \in u[n])
      BY <1>1, <1>6, <1>9
    <3>2. PICK d \in Sides : m \in u[t.kid[n][d]]
      BY <1>6, <2>2, <3>1
    <3>3. t.kid[n][d] \in L \cup {Nil} /\ u[t.kid[n][d]] \subseteq u[n] /\ t.kid[n][d] \in Nodes
      BY <1>6, KidFacts
    <3>4. CASE t.kid[n][d] = z /\ f.kid[n][d] = y
      BY <1>1, <1>3, <3>1, <3>2, <3>4
    <3>5. CASE t.kid[n][d] = y /\ f.kid[n][d] = x /\ n = t.parent[y] /\ y # r
      <4>1. n \in u[r]
        BY <1>0, <3>5
      <4>2. z \notin u[n]
        <5>1. u[n] \subseteq u[r]
          BY <1>0, <4>1, NestedFacts
        <5> QED BY <1>0, <5>1
      <4>3. m \in u[x]
        BY <1>0, <3>1, <3>2, <3>5, <4>2
      <4> QED BY <1>2, <3>5, <4>3
    <3>6. CASE t.kid[n][d] # z /\ t.kid[n][d] # y /\ f.kid[n][d] = t.kid[n][d]
      <4>1. m = y => z \in u[t.kid[n][d]]
        BY <1>2, <1>6, <3>1, <3>2
      <4>2. m \in w[t.kid[n][d]]
        BY <1>1, <3>1, <3>2, <3>3, <3>6, <4>1
      <4> QED BY <3>6, <4>2
    <3> QED BY <1>5, <1>6, <1>9, <3>4, <3>5, <3>6
  <2> QED BY <1>7, <2>1, <2>2
<1> QED BY <1>8, <1>9

\* Its parent pointers are the inverse of its child pointers.
LEMMA SwapParents ==
  ASSUME NEW rk \in Rankings, NEW t, NEW L, NEW u, Search(rk, t, L, u), NEW z, NEW l, NEW r, NEW y, NEW x,
         Around(rk, t, L, u, z, l, r, y, x), NEW f, Swapped(t, L, z, l, r, y, x, f)
  PROVE  ParentsOK(f, L \ {z})
<1>0. /\ l \in L /\ r \in L /\ y \in L /\ x \in L \cup {Nil} /\ z \in L
      /\ l # r /\ l # z /\ r # z /\ y # z /\ y # l /\ x # l /\ x # z /\ x # y /\ x # r
      /\ l = t.kid[z]["left"] /\ r = t.kid[z]["right"] /\ x = t.kid[y]["right"] /\ t.kid[y]["left"] = Nil
      /\ t.parent[l] = z /\ t.parent[r] = z /\ (x # Nil => t.parent[x] = y)
      /\ y \in u[r] /\ u[r] \subseteq u[z] /\ z \notin u[r]
      /\ l # t.root /\ r # t.root /\ y # t.root /\ x # t.root
      /\ t.parent[y] \in L /\ t.parent[y] # y /\ (t.parent[y] = z <=> y = r)
      /\ (y # r => t.kid[t.parent[y]]["left"] = y /\ SideOf(t, y) = "left")
  BY DEF Around
<1>1. \A k \in Nodes : f.parent[k] = IF k = z THEN NULL ELSE IF k = y THEN t.parent[z]
                                     ELSE IF k = l \/ k = r THEN y
                                     ELSE IF k = x THEN (IF y = r THEN y ELSE t.parent[y])
                                     ELSE t.parent[k]
  BY DEF Swapped
<1>2. /\ \A n \in L, d \in Sides : n # z /\ n # y =>
           \/ t.kid[n][d] = z /\ f.kid[n][d] = y /\ f.parent[y] = n
           \/ t.kid[n][d] = y /\ f.kid[n][d] = x /\ n = t.parent[y] /\ y # r
           \/ t.kid[n][d] # z /\ t.kid[n][d] # y /\ f.kid[n][d] = t.kid[n][d]
      /\ z # t.root => /\ t.parent[z] \in L /\ t.parent[z] # z /\ t.parent[z] # y
                       /\ t.kid[t.parent[z]][SideOf(t, z)] = z /\ SideOf(t, z) \in Sides
                       /\ f.kid[t.parent[z]][SideOf(t, z)] = y
  BY SwapKids DEF Exchanged
<1>3. /\ y \in Nodes /\ z \in Nodes /\ l \in Nodes /\ r \in Nodes /\ x \in Nodes
      /\ y # Nil /\ z # Nil /\ "left" \in Sides /\ "right" \in Sides
      /\ (t.parent[z] = Nil <=> z = t.root) /\ t.root \in Nodes /\ t.root \in L \cup {Nil}
      /\ Nil \in Nodes /\ Nil \notin L /\ L \subseteq Nodes
      /\ \A d \in Sides : d = "left" \/ d = "right"
  BY <1>0, Facts, NodeFacts DEF Sides
<1>4. \A d \in Sides : f.kid[y][d] = IF d = "left" THEN l ELSE IF y = r THEN x ELSE r
  BY <1>0, <1>3 DEF Swapped
<1>5. f.root = IF z = t.root THEN y ELSE t.root
  BY DEF Swapped
<1>6. f.root # Nil => f.parent[f.root] = Nil
  <2>1. CASE z = t.root
    BY Zenon, <1>0, <1>1, <1>3, <1>5, <2>1
  <2>2. CASE z # t.root
    <3>1. t.root # Nil => t.parent[t.root] = Nil
      BY DEF Search, ParentsOK
    <3> QED BY <1>0, <1>1, <1>3, <1>5, <2>2, <3>1
  <2> QED BY <2>1, <2>2
<1>7. ASSUME NEW n \in L \ {z}, NEW d \in Sides, f.kid[n][d] # Nil PROVE f.parent[f.kid[n][d]] = n
  <2>1. CASE n = y
    <3>1. CASE d = "left"
      BY <1>0, <1>1, <1>3, <1>4, <2>1, <3>1
    <3>2. CASE d # "left" /\ y = r
      BY ZenonT(40), <1>0, <1>1, <1>3, <1>4, <1>7, <2>1, <3>2
    <3>3. CASE d # "left" /\ y # r
      BY <1>0, <1>1, <1>3, <1>4, <2>1, <3>3
    <3> QED BY <3>1, <3>2, <3>3
  <2>2. CASE n # y
    <3>1. CASE f.kid[n][d] = y /\ f.parent[y] = n
      BY <3>1
    <3>2. CASE f.kid[n][d] = x /\ n = t.parent[y] /\ y # r
      BY <1>0, <1>1, <1>3, <3>2
    <3>3. CASE t.kid[n][d] # z /\ t.kid[n][d] # y /\ f.kid[n][d] = t.kid[n][d]
      <4>1. t.kid[n][d] \in Nodes /\ t.parent[t.kid[n][d]] = n
        BY <1>7, <3>3, KidFacts
      <4>2. t.kid[n][d] # l /\ t.kid[n][d] # r /\ t.kid[n][d] # x
        BY <1>0, <1>7, <2>2, <3>3, <4>1
      <4> QED BY <1>1, <3>3, <4>1, <4>2
    <3> QED BY <1>2, <1>7, <2>2, <3>1, <3>2, <3>3
  <2> QED BY <2>1, <2>2
<1>8. ASSUME NEW n \in L \ {z}, n # f.root
      PROVE  f.parent[n] \in L \ {z} /\ \E d \in Sides : f.kid[f.parent[n]][d] = n
  <2>0. n \in L /\ n # z /\ n \in Nodes /\ n # Nil
    BY <1>3, <1>8
  <2>1. CASE n = y
    <3>1. z # t.root
      BY <1>5, <1>8, <2>1
    <3>2. f.parent[n] = t.parent[z]
      BY <1>0, <1>1, <1>3, <2>1
    <3> QED BY <1>2, <2>1, <3>1, <3>2
  <2>2. CASE n # y /\ n = l
    BY <1>0, <1>1, <1>3, <1>4, <2>2
  <2>3. CASE n # y /\ n = r
    <3>1. f.parent[n] = y /\ f.kid[y]["right"] = r
      BY <1>0, <1>1, <1>3, <1>4, <2>3
    <3> QED BY <1>0, <1>3, <2>3, <3>1
  <2>4. CASE n = x /\ y = r
    <3>1. f.parent[n] = y /\ f.kid[y]["right"] = x
      BY Zenon, <1>0, <1>1, <1>3, <1>4, <2>4
    <3> QED BY ZenonT(40), <1>0, <1>3, <2>4, <3>1
  <2>5. CASE n = x /\ y # r
    <3>1. f.parent[n] = t.parent[y] /\ t.parent[y] # z
      BY <1>0, <1>1, <1>3, <2>5
    <3>2. f.kid[t.parent[y]]["left"] = x
      BY <1>0, <1>2, <1>3, <2>5, <3>1
    <3> QED BY <1>0, <1>3, <2>5, <3>1, <3>2
  <2>6. CASE n # y /\ n # l /\ n # r /\ n # x
    <3>1. f.parent[n] = t.parent[n]
      BY <1>1, <2>0, <2>6
    <3>2. n # t.root
      BY <1>5, <1>8, <2>0
    <3>3. t.parent[n] \in L /\ SideOf(t, n) \in Sides /\ t.kid[t.parent[n]][SideOf(t, n)] = n
      BY <2>0, <3>2, Above
    <3>4. t.parent[n] # z /\ t.parent[n] # y
      BY <1>0, <1>3, <2>0, <2>6, <3>3
    <3>5. f.kid[t.parent[n]][SideOf(t, n)] = n
      BY <1>2, <2>0, <2>6, <3>3, <3>4
    <3> QED BY <3>1, <3>3, <3>4, <3>5
  <2> QED BY <2>1, <2>2, <2>3, <2>4, <2>5, <2>6
<1> QED BY <1>6, <1>7, <1>8 DEF ParentsOK

\* The deletion of a node with two children keeps the others, in order.
LEMMA SwapSearch ==
  ASSUME NEW rk \in Rankings, NEW t, NEW L, NEW u, Search(rk, t, L, u), NEW z, NEW l, NEW r, NEW y, NEW x,
         Around(rk, t, L, u, z, l, r, y, x), NEW f \in Trees, Swapped(t, L, z, l, r, y, x, f),
         NEW w, Resettles(t, L, u, z, l, r, y, x, w)
  PROVE  Search(rk, f, L \ {z}, w)
<1> DEFINE M == L \ {z}
<1>1. KidsOK(rk, f, M, w)
  BY SwapBelow
<1>2. ParentsOK(f, M)
  BY SwapParents
<1>3. Enclosed(f, M, w)
  BY SwapNested
<1>4. w \in [Nodes -> SUBSET M] /\ w[Nil] = {}
  BY DEF Resettles
<1>5. /\ y \in L /\ z \in L /\ y # z /\ t.root # y
      /\ y \in Nodes /\ z \in Nodes /\ L \subseteq Keys
      /\ t.root \in L \cup {Nil} /\ t.root \in Nodes /\ u[t.root] = L
  BY Facts DEF Around
<1>6. f.root \in M \cup {Nil} /\ w[f.root] = M
  <2>1. CASE z = t.root
    <3>1. f.root = y
      BY <2>1 DEF Swapped
    <3>2. w[y] = u[z] \ {z}
      BY DEF Resettles
    <3> QED BY <1>5, <2>1, <3>1, <3>2
  <2>2. CASE z # t.root
    <3>1. f.root = t.root
      BY <2>2 DEF Swapped
    <3>2. w[t.root] = u[t.root] \ {z}
      BY <1>5 DEF Resettles
    <3> QED BY <1>5, <2>2, <3>1, <3>2
  <2> QED BY <2>1, <2>2
<1>7. \A k \in Keys \ M : f.parent[k] = NULL /\ \A d \in Sides : f.kid[k][d] = NULL
  <2>1. /\ \A k \in Keys \ L : f.parent[k] = NULL /\ \A d \in Sides : f.kid[k][d] = NULL
        /\ f.parent[z] = NULL /\ \A d \in Sides : f.kid[z][d] = NULL
    BY SwapKids DEF Exchanged
  <2> QED BY <2>1
<1>8. M \subseteq Keys
  BY <1>5
<1> HIDE DEF M
<1>9. Search(rk, f, M, w)
  BY <1>1, <1>2, <1>3, <1>4, <1>6, <1>7, <1>8, SearchIs
<1> QED BY <1>9 DEF M

\* no two red nodes in a row
NoReds(t, L) == \A n \in L, d \in Sides : ~(IsRed(t, n) /\ IsRed(t, t.kid[n][d]))

\* The subtree of x, the child of p on side e, has one black node too few.
Lacking(t, L, h, x, p, e) ==
  /\ x \in L \cup {Nil} /\ p \in L /\ e \in Sides /\ t.kid[p][e] = x /\ t.parent[x] = p
  /\ IsBlack(t, x) /\ IsBlack(t, Nil) /\ IsBlack(t, t.root)
  /\ NoReds(t, L) /\ Heights(t, L, h, p, e)

\* x lacks one black node above it, and is red.
Paintable(t, L, h, x) ==
  /\ x \in L /\ IsRed(t, x) /\ IsBlack(t, Nil)
  /\ IsRed(t, t.root) => x = t.root
  /\ \A n \in L, d \in Sides : IsRed(t, n) /\ IsRed(t, t.kid[n][d]) => x \in {n, t.kid[n][d]}
  /\ Heights(t, L, h, t.parent[x], SideOf(t, x))

\* What holds of the tree between two iterations of rbtree_delete_fixup: it is
\* balanced but for x, whose subtree counts one black node more, or it is done.
Deleting(t, L, h, x, root) ==
  \/ x = root /\ x \in L \cup {Nil} /\ IsBlack(t, x) /\ Balance(t, L, h)
  \/ Paintable(t, L, h, x)
  \/ \E e : Lacking(t, L, h, x, t.parent[x], e) /\ root = t.root /\ root \in L /\ x # root

DeleteTree(rk, t, L, x, root) == \E u, h : Search(rk, t, L, u) /\ Deleting(t, L, h, x, root)

\* A pointer that is not in the tree counts nothing.
LEMMA NoExtra ==
  ASSUME NEW t, NEW L, NEW h, NEW p, NEW e, NEW q, NEW d, Heights(t, L, h, p, e), p \notin L, q \notin L
  PROVE  Heights(t, L, h, q, d)
<1>1. ASSUME NEW n \in L PROVE HeightAt(t, h, q, d, n)
  <2> SUFFICES ASSUME NEW s \in Sides
               PROVE  h[n] = h[t.kid[n][s]] + One(n = q /\ s = d) + One(IsBlack(t, n))
    BY DEF HeightAt
  <2>1. h[n] = h[t.kid[n][s]] + One(n = p /\ s = e) + One(IsBlack(t, n))
    BY DEF Heights, HeightAt
  <2>2. One(n = p /\ s = e) = 0 /\ One(n = q /\ s = d) = 0
    BY DEF One
  <2> QED BY <2>1, <2>2
<1> QED BY <1>1 DEF Heights

\* the pointer from above to what is spliced out, in both trees
LEMMA SpliceHeights ==
  ASSUME NEW rk \in Rankings, NEW t, NEW L, NEW u, Search(rk, t, L, u), NEW h, Balance(t, L, h),
         NEW s \in Sides, NEW z \in L, NEW v, NEW r, Spliced(t, L, s, z, v, r)
  PROVE  /\ IsRed(t, z) => Heights(r, L \ {z}, h, NULL, "left")
         /\ IsBlack(t, z) => Heights(r, L \ {z}, h, t.parent[z], SideOf(t, z))
<1>0. Other(s) \in Sides
  BY SidesAre
<1>1. /\ h \in [Nodes -> Nat \ {0}] /\ h[Nil] = 1 /\ NULL \notin L
      /\ \A n \in L : HeightAt(t, h, NULL, "left", n)
  BY Facts DEF Balance, Heights
<1>2. v = t.kid[z][Other(s)]
      /\ \A n \in L, d \in Sides : n # z =>
           \/ t.kid[n][d] = z /\ r.kid[n][d] = v /\ z # t.root /\ n = t.parent[z] /\ d = SideOf(t, z)
           \/ r.kid[n][d] = t.kid[n][d] /\ t.kid[n][d] # z
      /\ \A k \in Nodes : k # z => r.color[k] = t.color[k]
  BY DEF Spliced
<1>3. h[z] = h[v] + One(IsBlack(t, z)) /\ h[v] \in Nat
  <2>1. h[z] = h[v] + One(z = NULL /\ Other(s) = "left") + One(IsBlack(t, z))
    BY <1>0, <1>1, <1>2 DEF HeightAt
  <2>2. One(z = NULL /\ Other(s) = "left") = 0
    BY <1>1 DEF One
  <2>3. h[v] \in Nat
    BY <1>0, <1>1, <1>2, KidFacts
  <2> QED BY <2>1, <2>2, <2>3
<1>4. \A n \in L \ {z} : n \in Nodes /\ (IsBlack(r, n) <=> IsBlack(t, n))
  BY <1>2, Facts DEF IsBlack, IsRed
<1>5. \A n \in L, d \in Sides :
        /\ h[t.kid[n][d]] \in Nat
        /\ h[n] = h[t.kid[n][d]] + One(IsBlack(t, n))
  <2> TAKE n \in L, d \in Sides
  <2>1. h[n] = h[t.kid[n][d]] + One(n = NULL /\ d = "left") + One(IsBlack(t, n))
    BY <1>1 DEF HeightAt
  <2>2. h[t.kid[n][d]] \in Nat
    BY <1>1, KidFacts
  <2>3. One(n = NULL /\ d = "left") = 0
    BY <1>1 DEF One
  <2> QED BY <2>1, <2>2, <2>3
<1>6. ASSUME IsRed(t, z), NEW n \in L \ {z} PROVE HeightAt(r, h, NULL, "left", n)
  <2> SUFFICES ASSUME NEW d \in Sides
               PROVE  h[n] = h[r.kid[n][d]] + One(n = NULL /\ d = "left") + One(IsBlack(r, n))
    BY DEF HeightAt
  <2>1. One(n = NULL /\ d = "left") = 0 /\ One(IsBlack(r, n)) = One(IsBlack(t, n))
    BY <1>1, <1>4 DEF One
  <2>2. h[r.kid[n][d]] = h[t.kid[n][d]]
    <3>1. h[z] = h[v]
      BY <1>3, <1>6 DEF One, IsBlack
    <3> QED BY <1>2, <3>1
  <2> QED BY <1>5, <2>1, <2>2 DEF One
<1>7. ASSUME IsBlack(t, z), NEW n \in L \ {z}
      PROVE  HeightAt(r, h, t.parent[z], SideOf(t, z), n)
  <2> SUFFICES ASSUME NEW d \in Sides
               PROVE  h[n] = h[r.kid[n][d]] + One(n = t.parent[z] /\ d = SideOf(t, z))
                             + One(IsBlack(r, n))
    BY DEF HeightAt
  <2>1. One(IsBlack(r, n)) = One(IsBlack(t, n)) /\ One(IsBlack(t, n)) \in Nat
    BY <1>4 DEF One
  <2>2. h[n] = h[t.kid[n][d]] + One(IsBlack(t, n)) /\ h[t.kid[n][d]] \in Nat
    BY <1>5
  <2>3. CASE t.kid[n][d] = z /\ r.kid[n][d] = v /\ n = t.parent[z] /\ d = SideOf(t, z)
    <3>1. h[z] = h[v] + 1
      BY <1>3, <1>7 DEF One
    <3>2. One(n = t.parent[z] /\ d = SideOf(t, z)) = 1
      BY <2>3 DEF One
    <3> QED BY <1>3, <2>1, <2>2, <2>3, <3>1, <3>2
  <2>4. CASE r.kid[n][d] = t.kid[n][d] /\ t.kid[n][d] # z
    <3>1. ~(n = t.parent[z] /\ d = SideOf(t, z))
      <4>1. CASE z = t.root
        <5>1. t.parent[z] = Nil
          BY <4>1, NodeFacts
        <5> QED BY <5>1, Facts
      <4>2. CASE z # t.root
        BY <2>4, <4>2, Above
      <4> QED BY <4>1, <4>2
    <3>2. One(n = t.parent[z] /\ d = SideOf(t, z)) = 0
      BY <3>1 DEF One
    <3> QED BY <2>1, <2>2, <2>4, <3>2
  <2> QED BY <1>2, <2>3, <2>4
<1> QED BY <1>1, <1>6, <1>7 DEF Heights

\* Deleting a node with one child at most starts the loop of rbtree_delete_fixup in its
\* invariant, or needs no repair.
LEMMA SpliceKeeps ==
  ASSUME NEW rk \in Rankings, NEW t, NEW L, NEW u, Search(rk, t, L, u), NEW h, Balance(t, L, h),
         NEW s \in Sides, NEW z \in L, t.kid[z][s] = Nil, NEW v, NEW r, Spliced(t, L, s, z, v, r)
  PROVE  /\ IsRed(t, z) => SortedTree(rk, r, L \ {z})
         /\ IsBlack(t, z) => DeleteTree(rk, r, L \ {z}, v, r.root)
<1> DEFINE M == L \ {z}
           w == Without(L, u, z)
<1>1. Search(rk, r, M, w)
  BY SpliceSearch
<1> HIDE DEF w
<1>2. /\ v = t.kid[z][Other(s)] /\ v \in L \cup {Nil} /\ v # z
      /\ r.root = IF z = t.root THEN v ELSE t.root
      /\ \A n \in L, d \in Sides : n # z =>
           \/ t.kid[n][d] = z /\ r.kid[n][d] = v /\ z # t.root /\ n = t.parent[z] /\ d = SideOf(t, z)
           \/ r.kid[n][d] = t.kid[n][d] /\ t.kid[n][d] # z
      /\ \A k \in Nodes : r.parent[k] = IF k = z THEN NULL ELSE IF k = v THEN t.parent[z]
                                        ELSE t.parent[k]
      /\ \A k \in Nodes : k # z => r.color[k] = t.color[k]
  BY DEF Spliced
<1>3. /\ v \in Nodes /\ v \in M \cup {Nil} /\ z # Nil /\ Other(s) \in Sides /\ Nil \notin L
      /\ L \subseteq Nodes /\ Nil \in Nodes /\ t.root \in Nodes /\ t.root \in L \cup {Nil}
  BY <1>2, Facts, SidesAre
<1>4. \A n \in Nodes : n # z => (IsRed(r, n) <=> IsRed(t, n))
  BY <1>2 DEF IsRed
<1>5. /\ IsBlack(t, Nil) /\ IsBlack(t, t.root) /\ IsBlack(r, Nil)
      /\ \A n \in L, d \in Sides : ~(IsRed(t, n) /\ IsRed(t, t.kid[n][d]))
  BY <1>3, <1>4 DEF Balance, IsBlack
<1>6. /\ IsRed(t, z) => Heights(r, M, h, NULL, "left")
      /\ IsBlack(t, z) => Heights(r, M, h, t.parent[z], SideOf(t, z))
  BY SpliceHeights
\* the red nodes
<1>7. ASSUME NEW n \in M, NEW d \in Sides, IsRed(r, n), IsRed(r, r.kid[n][d])
      PROVE  /\ IsBlack(t, z) /\ r.kid[n][d] = v /\ IsRed(r, v)
  <2>1. IsRed(t, n)
    BY <1>3, <1>4, <1>7
  <2>2. CASE t.kid[n][d] = z /\ r.kid[n][d] = v
    BY <1>5, <1>7, <2>1, <2>2 DEF IsBlack
  <2>3. CASE r.kid[n][d] = t.kid[n][d] /\ t.kid[n][d] # z
    <3>1. t.kid[n][d] \in Nodes
      BY KidFacts
    <3> QED BY <1>4, <1>5, <1>7, <2>1, <2>3, <3>1
  <2> QED BY <1>2, <2>2, <2>3
<1>8. ASSUME IsRed(t, z) PROVE SortedTree(rk, r, M)
  <2>1. z # t.root
    BY <1>5, <1>8 DEF IsBlack
  <2>2. IsBlack(r, r.root)
    BY <1>2, <1>3, <1>4, <1>5, <2>1 DEF IsBlack
  <2>3. \A n \in M, d \in Sides : ~(IsRed(r, n) /\ IsRed(r, r.kid[n][d]))
    BY <1>7, <1>8 DEF IsBlack
  <2>4. Balance(r, M, h)
    BY <1>5, <1>6, <1>8, <2>2, <2>3 DEF Balance
  <2> QED BY <1>1, <2>4 DEF SortedTree
<1>9. ASSUME IsBlack(t, z) PROVE \E k : Deleting(r, M, k, v, r.root)
  <2>0. Heights(r, M, h, t.parent[z], SideOf(t, z))
    BY <1>6, <1>9
  <2>1. r.parent[v] = t.parent[z] /\ IsBlack(r, Nil)
    BY <1>2, <1>3, <1>5
  <2>2. CASE z = t.root /\ IsBlack(r, v)
    <3>1. t.parent[z] \notin M
      BY <2>2, NodeFacts, Facts
    <3>2. NULL \notin M
      BY Facts
    <3>3. Heights(r, M, h, NULL, "left")
      BY <2>0, <3>1, <3>2, NoExtra
    <3>4. r.root = v
      BY <1>2, <2>2
    <3>5. \A n \in M, d \in Sides : ~(IsRed(r, n) /\ IsRed(r, r.kid[n][d]))
      BY <1>7, <2>2 DEF IsBlack
    <3>6. Balance(r, M, h)
      BY <2>1, <2>2, <3>3, <3>4, <3>5 DEF Balance
    <3> QED BY <1>3, <2>2, <3>4, <3>6 DEF Deleting
  <2>3. CASE IsRed(r, v)
    <3>1. v \in M /\ v \in Nodes
      BY <1>3, <1>5, <2>3 DEF IsBlack
    <3>2. IsRed(r, r.root) => v = r.root
      <4>1. z # t.root => IsBlack(r, t.root)
        BY <1>3, <1>4, <1>5 DEF IsBlack
      <4> QED BY <1>2, <4>1 DEF IsBlack
    <3>3. Heights(r, M, h, r.parent[v], SideOf(r, v))
      <4>1. CASE z = t.root
        <5>1. t.parent[z] \notin M
          BY <4>1, NodeFacts, Facts
        <5> QED BY <2>0, <2>1, <5>1, NoExtra
      <4>2. CASE z # t.root
        <5>1. /\ t.parent[z] \in L /\ SideOf(t, z) \in Sides /\ t.kid[t.parent[z]][SideOf(t, z)] = z
          BY <4>2, Above
        <5>2. t.parent[z] # z
          BY <5>1, KidFacts
        <5>3. r.kid[t.parent[z]][SideOf(t, z)] = v
          BY <1>2, <5>1, <5>2
        <5>4. v # r.root
          <6>1. v # t.root
            BY <1>2, <1>3, <3>1, KidFacts, Facts
          <6> QED BY <1>2, <4>2, <6>1
        <5>5. SideOf(t, z) = SideOf(r, v)
          BY <1>1, <3>1, <5>1, <5>2, <5>3, <5>4, Above
        <5> QED BY <2>0, <2>1, <5>5
      <4> QED BY <4>1, <4>2
    <3>4. \A n \in M, d \in Sides : IsRed(r, n) /\ IsRed(r, r.kid[n][d]) => v \in {n, r.kid[n][d]}
      BY <1>7
    <3> QED BY <2>1, <2>3, <3>1, <3>2, <3>3, <3>4 DEF Deleting, Paintable
  <2>4. CASE z # t.root /\ IsBlack(r, v)
    <3>1. /\ t.parent[z] \in L /\ SideOf(t, z) \in Sides /\ t.kid[t.parent[z]][SideOf(t, z)] = z
      BY <2>4, Above
    <3>2. t.parent[z] # z
      BY <3>1, KidFacts
    <3>3. r.kid[t.parent[z]][SideOf(t, z)] = v
      BY <1>2, <3>1, <3>2
    <3>4. r.root = t.root /\ IsBlack(r, r.root) /\ r.root \in M
      <4>1. t.root \in L
        BY <1>3, <2>4, Facts
      <4> QED BY <1>2, <1>3, <1>4, <1>5, <2>4, <4>1 DEF IsBlack
    <3>5. v # r.root
      <4>1. v # Nil => v # t.root
        BY <1>2, <1>3, KidFacts
      <4> QED BY <1>3, <3>4, <4>1
    <3>6. NoReds(r, M)
      BY <1>7, <2>4 DEF NoReds, IsBlack
    <3>7. Lacking(r, M, h, v, r.parent[v], SideOf(t, z))
      BY <1>3, <2>0, <2>1, <2>4, <3>1, <3>2, <3>3, <3>4, <3>6 DEF Lacking
    <3> QED BY <3>4, <3>5, <3>7 DEF Deleting
  <2> QED BY <2>2, <2>3, <2>4 DEF IsBlack
<1> QED BY <1>1, <1>8, <1>9 DEF DeleteTree

\* the child pointer the successor y hung from, in the tree without it
Hole(t, r, y) == IF y = r THEN <<y, "right">> ELSE <<t.parent[y], "left">>

\* the heights when the successor has taken the place of the node
LEMMA SwapHeights ==
  ASSUME NEW rk \in Rankings, NEW t, NEW L, NEW u, Search(rk, t, L, u), NEW h, Balance(t, L, h),
         NEW z, NEW l, NEW r, NEW y, NEW x, Around(rk, t, L, u, z, l, r, y, x),
         NEW f \in Trees, Swapped(t, L, z, l, r, y, x, f), NEW g, g = [h EXCEPT ![y] = h[z]]
  PROVE  /\ IsRed(t, y) => Heights(f, L \ {z}, g, NULL, "left")
         /\ IsBlack(t, y) => Heights(f, L \ {z}, g, Hole(t, r, y)[1], Hole(t, r, y)[2])
<1> DEFINE p == Hole(t, r, y)[1]
           e == Hole(t, r, y)[2]
<1>p. p = (IF y = r THEN y ELSE t.parent[y]) /\ e = (IF y = r THEN "right" ELSE "left")
  BY DEF Hole
<1> HIDE DEF p, e
<1>0. /\ l \in L /\ r \in L /\ y \in L /\ x \in L \cup {Nil} /\ z \in L
      /\ y # z /\ y # l /\ x # y /\ t.parent[y] # y /\ t.parent[y] \in L
      /\ l = t.kid[z]["left"] /\ r = t.kid[z]["right"] /\ x = t.kid[y]["right"]
      /\ (t.parent[y] = z <=> y = r)
      /\ (y # r => t.kid[t.parent[y]]["left"] = y)
  BY DEF Around
<1>1. /\ h \in [Nodes -> Nat \ {0}] /\ h[Nil] = 1 /\ NULL \notin L
      /\ \A n \in L : HeightAt(t, h, NULL, "left", n)
  BY Facts DEF Balance, Heights
<1>2. /\ y \in Nodes /\ z \in Nodes /\ l \in Nodes /\ r \in Nodes /\ x \in Nodes /\ y # Nil
      /\ "left" \in Sides /\ "right" \in Sides /\ \A d \in Sides : d = "left" \/ d = "right"
  BY <1>0, Facts DEF Sides
<1>3. \A n \in L, d \in Sides :
        /\ h[t.kid[n][d]] \in Nat
        /\ h[n] = h[t.kid[n][d]] + One(IsBlack(t, n))
  <2> TAKE n \in L, d \in Sides
  <2>1. h[n] = h[t.kid[n][d]] + One(n = NULL /\ d = "left") + One(IsBlack(t, n))
    BY <1>1 DEF HeightAt
  <2>2. h[t.kid[n][d]] \in Nat
    BY <1>1, KidFacts
  <2>3. One(n = NULL /\ d = "left") = 0
    BY <1>1 DEF One
  <2> QED BY <2>1, <2>2, <2>3
<1>4. /\ g \in [Nodes -> Nat \ {0}] /\ g[Nil] = 1 /\ g[y] = h[z]
      /\ \A n \in Nodes : n # y => g[n] = h[n]
  BY <1>1, <1>2
<1>5. \A n \in Nodes : /\ n # y /\ n # z => (IsBlack(f, n) <=> IsBlack(t, n))
                       /\ n = y => (IsBlack(f, n) <=> IsBlack(t, z))
  BY <1>0 DEF Swapped, IsBlack, IsRed
<1>6. \A d \in Sides : f.kid[y][d] = IF d = "left" THEN l ELSE IF y = r THEN x ELSE r
  BY <1>0, <1>2 DEF Swapped
<1>7. \A n \in L, d \in Sides : n # z /\ n # y =>
        \/ t.kid[n][d] = z /\ f.kid[n][d] = y
        \/ t.kid[n][d] = y /\ f.kid[n][d] = x /\ n = t.parent[y] /\ y # r
        \/ t.kid[n][d] # z /\ t.kid[n][d] # y /\ f.kid[n][d] = t.kid[n][d]
  BY SwapKids DEF Exchanged
<1>8. h[y] = h[x] + One(IsBlack(t, y)) /\ h[x] \in Nat
  BY <1>0, <1>2, <1>3
\* what the heights come to, node by node
<1>9. ASSUME NEW n \in L \ {z}, NEW d \in Sides
      PROVE  g[n] = g[f.kid[n][d]] + (IF n = p /\ d = e THEN One(IsBlack(t, y)) ELSE 0)
                    + One(IsBlack(f, n))
  <2>0. n \in Nodes /\ t.kid[n][d] \in Nodes /\ h[t.kid[n][d]] \in Nat /\ n # z
        /\ One(IsBlack(f, n)) \in Nat /\ One(IsBlack(t, y)) \in Nat
    BY <1>3, KidFacts, Facts DEF One
  <2>1. CASE n = y
    <3>1. g[n] = h[z] /\ One(IsBlack(f, n)) = One(IsBlack(t, z))
      BY <1>2, <1>4, <1>5, <2>1 DEF One
    <3>2. CASE d = "left"
      <4>1. g[f.kid[n][d]] = h[l] /\ ~(n = p /\ d = e)
        BY <1>0, <1>2, <1>4, <1>6, <1>p, <2>1, <3>2
      <4>2. h[z] = h[l] + One(IsBlack(t, z)) /\ h[l] \in Nat
        BY <1>0, <1>2, <1>3
      <4> QED BY <2>0, <3>1, <4>1, <4>2
    <3>3. CASE d = "right" /\ y # r
      <4>1. g[f.kid[n][d]] = h[r] /\ ~(n = p /\ d = e)
        BY <1>0, <1>2, <1>4, <1>6, <1>p, <2>1, <3>3
      <4>2. h[z] = h[r] + One(IsBlack(t, z)) /\ h[r] \in Nat
        BY <1>0, <1>2, <1>3
      <4> QED BY <2>0, <3>1, <4>1, <4>2
    <3>4. CASE d = "right" /\ y = r
      <4>1. g[f.kid[n][d]] = h[x] /\ n = p /\ d = e
        BY ZenonT(40), <1>0, <1>2, <1>4, <1>6, <1>p, <2>1, <3>4
      <4>2. h[z] = h[y] + One(IsBlack(t, z))
        BY <1>0, <1>2, <1>3, <3>4
      <4> QED BY <1>8, <2>0, <3>1, <4>1, <4>2
    <3> QED BY <1>2, <3>2, <3>3, <3>4
  <2>2. CASE n # y
    <3>1. g[n] = h[n] /\ One(IsBlack(f, n)) = One(IsBlack(t, n))
      BY <1>4, <1>5, <2>0, <2>2 DEF One
    <3>2. h[n] = h[t.kid[n][d]] + One(IsBlack(t, n))
      BY <1>3
    <3>3. CASE t.kid[n][d] = z /\ f.kid[n][d] = y
      <4>1. ~(n = p /\ d = e)
        <5>1. CASE y = r
          BY <1>p, <2>2, <5>1
        <5>2. CASE y # r
          BY <1>0, <1>p, <3>3, <5>2
        <5> QED BY <5>1, <5>2
      <4> QED BY <1>4, <2>0, <3>1, <3>2, <3>3, <4>1
    <3>4. CASE t.kid[n][d] = y /\ f.kid[n][d] = x /\ n = t.parent[y] /\ y # r
      <4>1. n = p /\ d = e
        <5>1. t.kid[n][Other(d)] # y
          BY <1>2, <3>4, KidFacts
        <5>2. d = "left"
          BY <1>0, <1>2, <3>4, <5>1 DEF Other
        <5> QED BY <1>p, <3>4, <5>2
      <4>2. g[f.kid[n][d]] = h[x]
        BY <1>0, <1>2, <1>4, <3>4
      <4> QED BY <1>8, <2>0, <3>1, <3>2, <3>4, <4>1, <4>2
    <3>5. CASE t.kid[n][d] # z /\ t.kid[n][d] # y /\ f.kid[n][d] = t.kid[n][d]
      <4>1. ~(n = p /\ d = e)
        <5>1. CASE y = r
          BY <1>p, <2>2, <5>1
        <5>2. CASE y # r
          BY <1>0, <1>p, <3>5, <5>2
        <5> QED BY <5>1, <5>2
      <4>2. g[f.kid[n][d]] = h[t.kid[n][d]]
        BY <1>4, <2>0, <3>5
      <4> QED BY <2>0, <3>1, <3>2, <4>1, <4>2
    <3> QED BY <1>7, <2>0, <2>2, <3>3, <3>4, <3>5
  <2> QED BY <2>1, <2>2
<1>10. \A n \in L \ {z}, d \in Sides : g[f.kid[n][d]] \in Nat
  <2> TAKE n \in L \ {z}, d \in Sides
  <2>1. f.kid[n][d] \in Nodes
    <3>1. CASE n = y
      BY <1>2, <1>6, <3>1
    <3>2. CASE n # y
      <4>1. t.kid[n][d] \in Nodes
        BY KidFacts
      <4> QED BY <1>2, <1>7, <3>2, <4>1
    <3> QED BY <3>1, <3>2
  <2> QED BY <1>4, <2>1
<1>11. ASSUME IsRed(t, y), NEW n \in L \ {z} PROVE HeightAt(f, g, NULL, "left", n)
  <2> SUFFICES ASSUME NEW d \in Sides
               PROVE  g[n] = g[f.kid[n][d]] + One(n = NULL /\ d = "left") + One(IsBlack(f, n))
    BY DEF HeightAt
  <2>1. One(IsBlack(t, y)) = 0 /\ One(n = NULL /\ d = "left") = 0
    BY <1>1, <1>11 DEF One, IsBlack
  <2>2. g[n] = g[f.kid[n][d]] + 0 + One(IsBlack(f, n))
    BY <1>9, <2>1
  <2> QED BY <2>1, <2>2
<1>12. ASSUME IsBlack(t, y), NEW n \in L \ {z} PROVE HeightAt(f, g, p, e, n)
  <2> SUFFICES ASSUME NEW d \in Sides
               PROVE  g[n] = g[f.kid[n][d]] + One(n = p /\ d = e) + One(IsBlack(f, n))
    BY DEF HeightAt
  <2>1. One(IsBlack(t, y)) = 1
    BY <1>12 DEF One
  <2>2. One(n = p /\ d = e) = IF n = p /\ d = e THEN One(IsBlack(t, y)) ELSE 0
    BY <2>1 DEF One
  <2> QED BY <1>9, <2>2
<1> QED BY <1>4, <1>11, <1>12 DEF Heights, p, e

\* Deleting a node with two children starts the loop in its invariant, or needs no repair.
LEMMA SwapKeeps ==
  ASSUME NEW rk \in Rankings, NEW t, NEW L, NEW u, Search(rk, t, L, u), NEW h, Balance(t, L, h),
         NEW z, NEW l, NEW r, NEW y, NEW x, Around(rk, t, L, u, z, l, r, y, x),
         NEW f \in Trees, Swapped(t, L, z, l, r, y, x, f)
  PROVE  /\ IsRed(t, y) => SortedTree(rk, f, L \ {z})
         /\ IsBlack(t, y) => DeleteTree(rk, f, L \ {z}, x, f.root)
<1> DEFINE M == L \ {z}
           w == Resettled(L, u, z, y)
           g == [h EXCEPT ![y] = h[z]]
           p == Hole(t, r, y)[1]
           e == Hole(t, r, y)[2]
<1>p. p = (IF y = r THEN y ELSE t.parent[y]) /\ e = (IF y = r THEN "right" ELSE "left")
  BY DEF Hole
<1>a. w = Resettled(L, u, z, y)
  OBVIOUS
<1>b. g = [h EXCEPT ![y] = h[z]]
  OBVIOUS
<1>c. (IsRed(t, y) => Heights(f, M, g, NULL, "left")) /\ (IsBlack(t, y) => Heights(f, M, g, p, e))
  BY SwapHeights
<1> HIDE DEF p, e, w, g
<1>1. Search(rk, f, M, w)
  BY <1>a, ResettledIs, SwapSearch
<1>0. /\ l \in L /\ r \in L /\ y \in L /\ x \in L \cup {Nil} /\ z \in L
      /\ y # z /\ y # l /\ l # z /\ r # z /\ x # y /\ x # z /\ x # l /\ x # r
      /\ t.parent[y] # y /\ t.parent[y] \in L
      /\ l = t.kid[z]["left"] /\ r = t.kid[z]["right"] /\ x = t.kid[y]["right"]
      /\ (t.parent[y] = z <=> y = r) /\ y # t.root /\ x # t.root
      /\ (y # r => t.kid[t.parent[y]]["left"] = y)
  BY DEF Around
<1>2. /\ y \in Nodes /\ z \in Nodes /\ l \in Nodes /\ r \in Nodes /\ x \in Nodes /\ y # Nil
      /\ "left" \in Sides /\ "right" \in Sides /\ \A d \in Sides : d = "left" \/ d = "right"
      /\ Nil \in Nodes /\ Nil \notin L /\ t.root \in Nodes /\ L \subseteq Nodes
      /\ t.root \in L
  BY <1>0, Facts, NodeFacts DEF Sides
<1>3. f.root = (IF z = t.root THEN y ELSE t.root) /\ f.root \in M /\ f.root # x
  <2>1. f.root = IF z = t.root THEN y ELSE t.root
    BY DEF Swapped
  <2> QED BY <1>0, <1>2, <2>1
<1>4. /\ \A n \in Nodes : n # y /\ n # z => (IsRed(f, n) <=> IsRed(t, n))
      /\ IsRed(f, y) <=> IsRed(t, z)
  BY <1>0, <1>2 DEF Swapped, IsRed
<1>5. /\ IsBlack(t, Nil) /\ IsBlack(t, t.root)
      /\ \A n \in L, d \in Sides : ~(IsRed(t, n) /\ IsRed(t, t.kid[n][d]))
  BY DEF Balance
<1>6. IsBlack(f, Nil) /\ IsBlack(f, f.root)
  <2>1. IsBlack(f, Nil)
    BY <1>0, <1>2, <1>4, <1>5 DEF IsBlack
  <2>2. IsBlack(f, f.root)
    BY <1>0, <1>2, <1>3, <1>4, <1>5 DEF IsBlack
  <2> QED BY <2>1, <2>2
<1>7. \A d \in Sides : f.kid[y][d] = IF d = "left" THEN l ELSE IF y = r THEN x ELSE r
  BY <1>0, <1>2 DEF Swapped
<1>8. \A n \in L, d \in Sides : n # z /\ n # y =>
        \/ t.kid[n][d] = z /\ f.kid[n][d] = y /\ f.parent[y] = n
        \/ t.kid[n][d] = y /\ f.kid[n][d] = x /\ n = t.parent[y] /\ y # r
        \/ t.kid[n][d] # z /\ t.kid[n][d] # y /\ f.kid[n][d] = t.kid[n][d]
  BY SwapKids DEF Exchanged
<1>9. IsRed(t, y) => ~IsRed(t, x)
  BY <1>0, <1>2, <1>5
\* two red nodes in a row: the lower one is x
<1>10. ASSUME NEW n \in M, NEW d \in Sides, IsRed(f, n), IsRed(f, f.kid[n][d])
       PROVE  f.kid[n][d] = x /\ IsBlack(t, y) /\ IsRed(f, x)
  <2>1. CASE n = y
    <3>1. IsRed(t, z)
      BY <1>4, <1>10, <2>1
    <3>2. ~IsRed(t, l) /\ ~IsRed(t, r)
      BY <1>0, <1>2, <1>5, <3>1
    <3>3. ~IsRed(f, l) /\ (r # y => ~IsRed(f, r))
      BY <1>0, <1>2, <1>4, <3>2
    <3>4. f.kid[n][d] = x /\ y = r
      BY <1>2, <1>7, <1>10, <2>1, <3>3
    <3> QED BY <1>10, <3>2, <3>4 DEF IsBlack
  <2>2. CASE n # y
    <3>0. n \in L /\ n # z /\ IsRed(t, n) /\ t.kid[n][d] \in Nodes
      BY <1>2, <1>4, <1>10, <2>2, KidFacts
    <3>1. CASE t.kid[n][d] = z /\ f.kid[n][d] = y
      BY <1>4, <1>5, <1>10, <3>0, <3>1
    <3>2. CASE t.kid[n][d] = y /\ f.kid[n][d] = x
      BY <1>5, <1>10, <3>0, <3>2 DEF IsBlack
    <3>3. CASE t.kid[n][d] # z /\ t.kid[n][d] # y /\ f.kid[n][d] = t.kid[n][d]
      BY <1>4, <1>5, <1>10, <3>0, <3>3
    <3> QED BY <1>8, <2>2, <3>0, <3>1, <3>2, <3>3
  <2> QED BY <2>1, <2>2
<1>11. ASSUME IsRed(t, y) PROVE SortedTree(rk, f, M)
  <2>1. \A n \in M, d \in Sides : ~(IsRed(f, n) /\ IsRed(f, f.kid[n][d]))
    BY <1>10, <1>11 DEF IsBlack
  <2>2. Balance(f, M, g)
    BY <1>c, <1>6, <1>11, <2>1 DEF Balance
  <2> QED BY <1>1, <2>2 DEF SortedTree
<1>12. ASSUME IsBlack(t, y) PROVE \E k : Deleting(f, M, k, x, f.root)
  <2>0. Heights(f, M, g, p, e)
    BY <1>c, <1>12
  <2>1. p \in M /\ e \in Sides /\ f.kid[p][e] = x /\ f.parent[x] = p
    <3>1. f.parent[x] = p
      <4>1. f.parent[x] = IF y = r THEN y ELSE t.parent[y]
        BY <1>0, <1>2 DEF Swapped
      <4> QED BY <1>p, <4>1
    <3>2. CASE y = r
      BY Zenon, <1>0, <1>2, <1>7, <1>p, <3>1, <3>2
    <3>3. CASE y # r
      <4>1. f.kid[t.parent[y]]["left"] = x
        BY <1>0, <1>2, <1>8, <3>3
      <4> QED BY <1>0, <1>2, <1>p, <3>1, <3>3, <4>1
    <3> QED BY <3>2, <3>3
  <2>2. CASE IsRed(f, x)
    <3>1. x \in M
      BY <1>0, <1>6, <2>2 DEF IsBlack
    <3>2. SideOf(f, x) = e
      BY <1>1, <1>3, <2>1, <3>1, Above
    <3>3. \A n \in M, d \in Sides : IsRed(f, n) /\ IsRed(f, f.kid[n][d]) => x \in {n, f.kid[n][d]}
      BY <1>10
    <3> QED BY <1>6, <2>0, <2>1, <2>2, <3>1, <3>2, <3>3 DEF Deleting, Paintable, IsBlack
  <2>3. CASE IsBlack(f, x)
    <3>1. NoReds(f, M)
      BY <1>10, <2>3 DEF NoReds, IsBlack
    <3>2. x \in M \cup {Nil}
      BY <1>0
    <3>3. Lacking(f, M, g, x, f.parent[x], e)
      BY <1>6, <2>0, <2>1, <2>3, <3>1, <3>2 DEF Lacking
    <3> QED BY <1>3, <3>3 DEF Deleting
  <2> QED BY <2>2, <2>3 DEF IsBlack
<1> QED BY <1>1, <1>11, <1>12 DEF DeleteTree

\* rbtree_delete keeps the other keys in order, and leaves a red-black tree or
\* starts the loop of rbtree_delete_fixup in its invariant.
THEOREM DeleteKeeps ==
  ASSUME NEW rk \in Rankings, NEW t, NEW L, NEW u, Search(rk, t, L, u), NEW h, Balance(t, L, h), NEW z \in L
  PROVE  LET d == Delete(t, z) IN
         /\ Forget(d.tree, z).root = d.tree.root
         /\ IF d.color = "black" THEN DeleteTree(rk, Forget(d.tree, z), L \ {z}, d.at, d.tree.root)
            ELSE SortedTree(rk, Forget(d.tree, z), L \ {z})
<1> DEFINE l == t.kid[z]["left"]
           r == t.kid[z]["right"]
           d == Delete(t, z)
<1>0. /\ "left" \in Sides /\ "right" \in Sides /\ Other("left") = "right" /\ Other("right") = "left"
      /\ t \in Trees /\ z \in Nodes /\ t.parent[z] \in Nodes
      /\ \A n \in Nodes : t.color[n] \in {"red", "black"}
      /\ l \in L \cup {Nil} /\ r \in L \cup {Nil} /\ l \in Nodes /\ r \in Nodes
  BY Facts, NodeFacts, KidFacts DEF Sides, Other, Trees
<1>1. ASSUME NEW s \in Sides, t.kid[z][s] = Nil,
             d = [tree |-> Transplant(t, z, t.kid[z][Other(s)]), at |-> t.kid[z][Other(s)],
                  color |-> t.color[z]]
      PROVE  /\ Forget(d.tree, z).root = d.tree.root
             /\ IF d.color = "black" THEN DeleteTree(rk, Forget(d.tree, z), L \ {z}, d.at, d.tree.root)
                ELSE SortedTree(rk, Forget(d.tree, z), L \ {z})
  <2> DEFINE v == t.kid[z][Other(s)]
             f == Splice(t, z, s)
  <2>1. f = Forget(d.tree, z)
    BY <1>1 DEF Splice
  <2>v. v = t.kid[z][Other(s)] /\ v \in Nodes
    BY SidesAre, KidFacts
  <2>f. f = Splice(t, z, s)
    OBVIOUS
  <2> HIDE DEF v, f
  <2>2. Spliced(t, L, s, z, v, f)
    BY <2>v, <2>f, SpliceKids
  <2>3. /\ IsRed(t, z) => SortedTree(rk, f, L \ {z})
        /\ IsBlack(t, z) => DeleteTree(rk, f, L \ {z}, v, f.root)
    BY <1>1, <2>2, SpliceKeeps
  <2>4. f.root = d.tree.root
    <3>1. d.tree \in Trees
      BY <1>0, <1>1, <2>v, TransplantType
    <3> QED BY <1>0, <2>1, <3>1, ForgetIs
  <2>5. d.at = v /\ d.color = t.color[z]
    BY <1>1, <2>v
  <2> HIDE DEF d
  <2>6. d.color = "black" <=> IsBlack(t, z)
    BY <1>0, <2>5 DEF IsBlack, IsRed
  <2> QED BY <2>1, <2>3, <2>4, <2>5, <2>6 DEF IsBlack
<1>2. CASE l = Nil
  <2>1. d = [tree |-> Transplant(t, z, r), at |-> r, color |-> t.color[z]]
    BY <1>2 DEF Delete
  <2> HIDE DEF d
  <2>2. d = [tree |-> Transplant(t, z, t.kid[z][Other("left")]), at |-> t.kid[z][Other("left")],
             color |-> t.color[z]]
    BY <1>0, <2>1
  <2> QED BY <1>0, <1>1, <1>2, <2>2 DEF d
<1>3. CASE l # Nil /\ r = Nil
  <2>1. d = [tree |-> Transplant(t, z, l), at |-> l, color |-> t.color[z]]
    BY <1>3 DEF Delete
  <2> HIDE DEF d
  <2>2. d = [tree |-> Transplant(t, z, t.kid[z][Other("right")]), at |-> t.kid[z][Other("right")],
             color |-> t.color[z]]
    BY <1>0, <2>1
  <2> QED BY <1>0, <1>1, <1>3, <2>2 DEF d
<1>4. CASE l # Nil /\ r # Nil
  <2> DEFINE y == Least(t, r)
             x == t.kid[y]["right"]
             f == Replaced2(t, z, l, r, y, x)
  <2>1. d = [tree |-> Taken(t, z, l, r, y, x), at |-> x, color |-> t.color[y]]
    BY <1>4 DEF Delete, Taken
  <2>2. f = Forget(d.tree, z)
    BY <2>1 DEF Replaced2
  <2>a. l = t.kid[z]["left"] /\ r = t.kid[z]["right"] /\ x = t.kid[y]["right"] /\ y = Least(t, r)
    OBVIOUS
  <2>b. f = Replaced2(t, z, l, r, y, x)
    OBVIOUS
  <2> HIDE DEF d, l, r, y, x, f
  <2>3. Succeeds(rk, t, L, u, z, l, r, y, x)
    <3>1. r \in L
      BY <1>0, <1>4
    <3>2. Edge(rk, "left", u[r], y) /\ t.kid[y]["left"] = Nil
      BY <2>a, <3>1, LeastIs
    <3> QED BY <1>4, <2>a, <3>2 DEF Succeeds
  <2>4. Around(rk, t, L, u, z, l, r, y, x)
    BY <2>3, AroundIs
  <2>5. f \in Trees /\ Swapped(t, L, z, l, r, y, x, f) /\ f.root = Taken(t, z, l, r, y, x).root
    BY <2>b, <2>4, SwapFields
  <2>6. /\ IsRed(t, y) => SortedTree(rk, f, L \ {z})
        /\ IsBlack(t, y) => DeleteTree(rk, f, L \ {z}, x, f.root)
    BY <2>4, <2>5, SwapKeeps
  <2>7. d.tree = Taken(t, z, l, r, y, x) /\ d.at = x /\ d.color = t.color[y]
    BY <2>1
  <2>8. d.color = "black" <=> IsBlack(t, y)
    <3>1. y \in Nodes
      BY <2>4, Facts DEF Around
    <3> QED BY <1>0, <2>7, <3>1 DEF IsBlack, IsRed
  <2>9. /\ Forget(d.tree, z).root = d.tree.root
        /\ IF d.color = "black" THEN DeleteTree(rk, Forget(d.tree, z), L \ {z}, d.at, d.tree.root)
           ELSE SortedTree(rk, Forget(d.tree, z), L \ {z})
    BY <2>2, <2>5, <2>6, <2>7, <2>8 DEF IsBlack
  <2> QED BY <2>9 DEF d
<1> QED BY <1>2, <1>3, <1>4

\* the sibling w of x, which has a black node more below it than x
LEMMA Sibling ==
  ASSUME NEW rk \in Rankings, NEW t, NEW L, NEW u, Search(rk, t, L, u), NEW h, NEW x, NEW p, NEW s,
         Lacking(t, L, h, x, p, s),
         NEW w, w = t.kid[p][Other(s)]
  PROVE  /\ s \in Sides /\ Other(s) \in Sides /\ Other(s) # s /\ Other(Other(s)) = s
         /\ w \in L /\ w # x /\ w # p /\ x # p /\ w # Nil /\ w # t.root /\ t.parent[w] = p
         /\ x \in Nodes /\ p \in Nodes /\ w \in Nodes
         /\ h[w] = h[x] + 1 /\ h[x] \in Nat /\ h[x] > 0
         /\ h[p] = h[w] + One(IsBlack(t, p))
         /\ SideOf(t, x) = s
<1>0. /\ s \in Sides /\ Other(s) \in Sides /\ Other(s) # s /\ Other(Other(s)) = s
      /\ p \in L /\ t.kid[p][s] = x /\ x \in L \cup {Nil}
  BY SidesAre DEF Lacking
<1>1. /\ h \in [Nodes -> Nat \ {0}] /\ h[Nil] = 1
      /\ h[p] = h[x] + One(p = p /\ s = s) + One(IsBlack(t, p))
      /\ h[p] = h[w] + One(p = p /\ Other(s) = s) + One(IsBlack(t, p))
  BY <1>0 DEF Lacking, Heights, HeightAt
<1>2. x \in Nodes /\ p \in Nodes /\ w \in Nodes /\ x # p /\ w # p /\ w \in L \cup {Nil}
  BY <1>0, KidFacts, Facts
<1>3. h[x] \in Nat /\ h[x] > 0 /\ h[w] \in Nat
  BY <1>1, <1>2
<1>4. h[w] = h[x] + 1 /\ h[p] = h[w] + One(IsBlack(t, p))
  <2>1. One(p = p /\ s = s) = 1 /\ One(p = p /\ Other(s) = s) = 0 /\ One(IsBlack(t, p)) \in {0, 1}
    BY <1>0 DEF One
  <2> QED BY <1>1, <1>3, <2>1
<1>5. w # Nil /\ w \in L /\ w # x
  BY <1>1, <1>2, <1>3, <1>4
<1>6. w # t.root /\ t.parent[w] = p
  BY <1>0, <1>5, KidFacts
<1>7. SideOf(t, x) = s
  <2>1. t.parent[x] = p
    BY DEF Lacking
  <2>2. s = "left" \/ s = "right"
    BY <1>0 DEF Sides
  <2> QED BY <1>0, <1>5, <2>1, <2>2 DEF SideOf, Other
<1> QED BY <1>0, <1>2, <1>3, <1>4, <1>5, <1>6, <1>7

LackingTree(rk, t, L, x, p, e) == \E u, h : Search(rk, t, L, u) /\ Lacking(t, L, h, x, p, e)

\* case 1: the sibling is red and is lifted above the parent, so that x gets a
\* black sibling
LEMMA LiftSibling ==
  ASSUME NEW rk \in Rankings, NEW t, NEW L, NEW x, NEW p, NEW s, LackingTree(rk, t, L, x, p, s),
         NEW w, w = t.kid[p][Other(s)], IsRed(t, w), NEW r, r = Lift(t, s, p)
  PROVE  /\ LackingTree(rk, r, L, x, p, s) /\ IsBlack(r, r.kid[p][Other(s)])
         /\ IsRed(r, p) /\ r.root = (IF p = t.root THEN w ELSE t.root)
<1> DEFINE o == Other(s)
<1>1. PICK u, h : Search(rk, t, L, u) /\ Lacking(t, L, h, x, p, s)
  BY DEF LackingTree
<1>2. /\ s \in Sides /\ o \in Sides /\ o # s /\ Other(o) = s
      /\ w \in L /\ w # x /\ w # p /\ x # p /\ w # Nil /\ w # t.root /\ t.parent[w] = p
      /\ x \in Nodes /\ p \in Nodes /\ w \in Nodes
  BY <1>1, Sibling
<1>3. /\ x \in L \cup {Nil} /\ p \in L /\ t.kid[p][s] = x /\ t.parent[x] = p
      /\ IsBlack(t, x) /\ IsBlack(t, Nil) /\ IsBlack(t, t.root)
      /\ NoReds(t, L) /\ Heights(t, L, h, p, s)
  BY <1>1 DEF Lacking
<1>4. IsBlack(t, p)
  BY <1>2, <1>3 DEF NoReds, IsBlack
<1>5. PICK y, v, g :
           /\ y \in L /\ Moved(t, L, s, p, y, r) /\ Search(rk, r, L, v) /\ Heights(r, L, g, p, s)
           /\ \A n \in Nodes : r.color[n] = IF n = p THEN "red" ELSE IF n = y THEN "black"
                                            ELSE t.color[n]
  BY <1>1, <1>2, <1>3, <1>4, LiftOK
<1>6. y = w
  BY <1>5 DEF Moved
<1>7. /\ r.root = (IF p = t.root THEN w ELSE t.root)
      /\ t.kid[w][s] # p /\ t.kid[w][s] # w
      /\ r.kid[p][s] = x /\ r.kid[p][o] = t.kid[w][s] /\ r.kid[w][s] = p /\ r.kid[w][o] = t.kid[w][o]
      /\ \A n \in Nodes : r.parent[n] = IF n = p THEN w ELSE IF n = w THEN t.parent[p]
                                        ELSE IF n = t.kid[w][s] /\ n # Nil THEN p ELSE t.parent[n]
      /\ \A n \in L, d \in Sides : n # p /\ n # w =>
           \/ t.kid[n][d] = p /\ r.kid[n][d] = w
           \/ r.kid[n][d] = t.kid[n][d] /\ t.kid[n][d] # p /\ t.kid[n][d] # w
  <2>1. Moved(t, L, s, p, w, r)
    BY <1>5, <1>6
  <2> QED BY <1>3, <2>1 DEF Moved
<1>8. /\ IsRed(r, p) /\ IsBlack(r, w)
      /\ \A n \in Nodes : n # p /\ n # w => (IsRed(r, n) <=> IsRed(t, n))
  BY <1>2, <1>5, <1>6 DEF IsRed, IsBlack
<1>9. r.parent[x] = p
  <2>1. x # Nil => x # t.kid[w][s]
    <3>1. t.kid[w][s] # Nil => t.parent[t.kid[w][s]] = w
      BY <1>1, <1>2, KidFacts
    <3> QED BY <1>2, <1>3, <3>1
  <2> QED BY <1>2, <1>3, <1>7, <2>1
<1>10. IsBlack(r, x) /\ IsBlack(r, Nil) /\ IsBlack(r, r.root)
  <2>1. Nil \in Nodes /\ Nil # p /\ Nil # w /\ t.root \in Nodes
    BY <1>1, <1>2, <1>3, Facts
  <2> QED BY <1>2, <1>3, <1>7, <1>8, <2>1 DEF IsBlack
<1>11. IsBlack(r, t.kid[w][s]) /\ t.kid[w][s] \in Nodes /\ \A d \in Sides : ~IsRed(t, t.kid[w][d])
  <2>1. t.kid[w][s] \in Nodes
    BY <1>1, <1>2, KidFacts
  <2>2. \A d \in Sides : ~IsRed(t, t.kid[w][d])
    BY <1>2, <1>3 DEF NoReds
  <2> QED BY <1>2, <1>7, <1>8, <2>1, <2>2 DEF IsBlack
<1>12. NoReds(r, L)
  <2> SUFFICES ASSUME NEW n \in L, NEW d \in Sides, IsRed(r, n), IsRed(r, r.kid[n][d]) PROVE FALSE
    BY DEF NoReds
  <2>0. n \in Nodes /\ t.kid[n][d] \in Nodes /\ (d = s \/ d = o)
    <3>1. t.kid[n][d] \in Nodes
      BY <1>1, KidFacts
    <3> QED BY <1>1, <1>2, <3>1, Facts, SidesAre
  <2>1. CASE n = p
    BY <1>7, <1>10, <1>11, <2>0, <2>1 DEF IsBlack
  <2>2. CASE n # p
    <3>1. n # w
      BY <1>8 DEF IsBlack
    <3>2. r.kid[n][d] # w
      BY <1>8 DEF IsBlack
    <3>3. r.kid[n][d] = t.kid[n][d] /\ t.kid[n][d] # p /\ t.kid[n][d] # w
      BY <1>7, <2>2, <3>1, <3>2
    <3> QED BY <1>3, <1>8, <2>0, <2>2, <3>1, <3>3 DEF NoReds
  <2> QED BY <2>1, <2>2
<1>13. Lacking(r, L, g, x, p, s)
  BY <1>2, <1>3, <1>5, <1>7, <1>9, <1>10, <1>12 DEF Lacking
<1> QED BY Zenon, <1>5, <1>7, <1>8, <1>11, <1>13 DEF LackingTree

\* The sibling w is black, its far child is black and its near one is red.
Bent(rk, t, L, x, p, s, w) ==
  /\ LackingTree(rk, t, L, x, p, s) /\ w = t.kid[p][Other(s)] /\ IsBlack(t, w)
  /\ IsBlack(t, t.kid[w][Other(s)]) /\ IsRed(t, t.kid[w][s])
\* The sibling is black and its far child is red.
Straight(rk, t, L, x, p, s) ==
  /\ LackingTree(rk, t, L, x, p, s) /\ IsBlack(t, t.kid[p][Other(s)])
  /\ IsRed(t, t.kid[t.kid[p][Other(s)]][Other(s)])

\* case 3: the near child of the sibling is red and is lifted above it, so that
\* x gets a sibling with a red far child
LEMMA LiftNephew ==
  ASSUME NEW rk \in Rankings, NEW t, NEW L, NEW x, NEW p, NEW s, NEW w, Bent(rk, t, L, x, p, s, w),
         NEW r, r = Lift(t, Other(s), w)
  PROVE  Straight(rk, r, L, x, p, s) /\ r.root = t.root /\ (IsRed(r, p) <=> IsRed(t, p))
<1> DEFINE o == Other(s)
           m == t.kid[w][s]
<1>b. /\ LackingTree(rk, t, L, x, p, s) /\ w = t.kid[p][Other(s)] /\ IsBlack(t, w)
      /\ IsBlack(t, t.kid[w][Other(s)]) /\ IsRed(t, t.kid[w][s])
  BY DEF Bent
<1>1. PICK u, h : Search(rk, t, L, u) /\ Lacking(t, L, h, x, p, s)
  BY <1>b DEF LackingTree
<1>2. /\ s \in Sides /\ o \in Sides /\ o # s /\ Other(o) = s
      /\ w \in L /\ w # x /\ w # p /\ x # p /\ w # Nil /\ w # t.root /\ t.parent[w] = p
      /\ x \in Nodes /\ p \in Nodes /\ w \in Nodes
  BY <1>1, <1>b, Sibling
<1>3. /\ x \in L \cup {Nil} /\ p \in L /\ t.kid[p][s] = x /\ t.parent[x] = p
      /\ IsBlack(t, x) /\ IsBlack(t, Nil) /\ IsBlack(t, t.root)
      /\ NoReds(t, L) /\ Heights(t, L, h, p, s)
  BY <1>1 DEF Lacking
<1>k. \A c \in Sides : t.kid[w][c] \in Nodes /\ t.kid[w][c] # w
  <2> TAKE c \in Sides
  <2>1. w \in L /\ Search(rk, t, L, u)
    BY <1>1, <1>2
  <2> QED BY <2>1, KidFacts
<1>m. m = t.kid[w][Other(o)] /\ m \in L /\ m # w /\ t.parent[m] = w /\ m # p /\ m \in Nodes /\ m # Nil
      /\ IsRed(t, m)
  <2>1. m # Nil
    BY <1>b, <1>3 DEF IsBlack
  <2>2. m \in L /\ m # w /\ t.parent[m] = w
    BY <1>1, <1>2, <2>1, KidFacts
  <2>3. m # p
    <3>1. p \notin u[w]
      BY <1>b, <1>1, <1>2, <1>3, KidFacts
    <3>2. m \in u[m] /\ u[m] \subseteq u[w]
      <4>1. m = t.kid[w][s] /\ m \in L /\ w \in L /\ s \in Sides
        BY <1>2, <2>2
      <4>2. m \in u[m]
        BY <1>1, <4>1, NodeFacts
      <4>3. u[t.kid[w][s]] \subseteq u[w]
        BY <1>1, <4>1, KidFacts
      <4> QED BY <4>1, <4>2, <4>3
    <3> QED BY <3>1, <3>2
  <2>4. m = t.kid[w][Other(o)] /\ IsRed(t, m)
    BY <1>b, <1>2
  <2> HIDE DEF m
  <2>5. m \in Nodes
    BY <1>1, <2>2, Facts
  <2> QED BY <2>1, <2>2, <2>3, <2>4, <2>5
<1> HIDE DEF m
<1>5. PICK y, v, g :
           /\ y \in L /\ Moved(t, L, o, w, y, r) /\ Search(rk, r, L, v) /\ Heights(r, L, g, p, s)
           /\ \A n \in Nodes : r.color[n] = IF n = w THEN "red" ELSE IF n = y THEN "black"
                                            ELSE t.color[n]
  <2>1. IsRed(t, t.kid[w][Other(o)]) /\ p # t.kid[w][Other(o)] /\ (p = w => s = o)
    BY <1>2, <1>m
  <2> QED BY <1>b, <1>1, <1>2, <1>3, <2>1, LiftOK
<1>6. y = m
  BY <1>5, <1>m DEF Moved
<1>7. /\ r.root = t.root
      /\ t.kid[m][o] # w /\ t.kid[m][o] # m
      /\ r.kid[w][o] = t.kid[w][o] /\ r.kid[w][s] = t.kid[m][o] /\ r.kid[m][o] = w
      /\ r.kid[m][s] = t.kid[m][s]
      /\ \A n \in Nodes : r.parent[n] = IF n = w THEN m ELSE IF n = m THEN t.parent[w]
                                        ELSE IF n = t.kid[m][o] /\ n # Nil THEN w ELSE t.parent[n]
      /\ \A n \in L, d \in Sides : n # w /\ n # m =>
           \/ t.kid[n][d] = w /\ r.kid[n][d] = m
           \/ r.kid[n][d] = t.kid[n][d] /\ t.kid[n][d] # w /\ t.kid[n][d] # m
  <2>1. Moved(t, L, o, w, m, r)
    BY <1>5, <1>6
  <2> QED BY <1>2, <2>1 DEF Moved
<1>8. /\ IsRed(r, w) /\ IsBlack(r, m)
      /\ \A n \in Nodes : n # w /\ n # m => (IsRed(r, n) <=> IsRed(t, n))
  BY <1>2, <1>m, <1>5, <1>6 DEF IsRed, IsBlack
<1>9. r.kid[p][o] = m /\ r.kid[p][s] = x
  BY ZenonT(40), <1>b, <1>2, <1>3, <1>7, <1>m
<1>10. x # m /\ r.parent[x] = p
  <2>1. x # m
    BY <1>2, <1>3, <1>m
  <2>2. x # Nil => x # t.kid[m][o]
    <3>1. t.kid[m][o] # Nil => t.parent[t.kid[m][o]] = m
      <4>1. m \in L /\ o \in Sides
        BY <1>2, <1>m
      <4> QED BY <1>1, <4>1, KidFacts
    <3> QED BY <1>3, <1>m, <3>1
  <2> QED BY <1>2, <1>3, <1>7, <2>1, <2>2
<1>11. IsBlack(r, x) /\ IsBlack(r, Nil) /\ IsBlack(r, r.root)
  <2>1. Nil \in Nodes /\ Nil # w /\ Nil # m /\ t.root \in Nodes /\ t.root # m
    <3>1. t.root # m
      BY <1>3, <1>m DEF IsBlack
    <3> QED BY <1>1, <1>2, <1>m, <3>1, Facts
  <2> QED BY <1>2, <1>3, <1>7, <1>8, <1>10, <2>1 DEF IsBlack
<1>12. \A d \in Sides : ~IsRed(t, t.kid[m][d])
  BY <1>3, <1>m DEF NoReds
<1>13. NoReds(r, L)
  <2> SUFFICES ASSUME NEW n \in L, NEW d \in Sides, IsRed(r, n), IsRed(r, r.kid[n][d]) PROVE FALSE
    BY DEF NoReds
  <2>0. n \in Nodes /\ t.kid[n][d] \in Nodes /\ (d = s \/ d = o)
    <3>1. t.kid[n][d] \in Nodes
      BY <1>1, KidFacts
    <3> QED BY <1>1, <1>2, <3>1, Facts, SidesAre
  <2>1. CASE n = w
    <3>1. /\ t.kid[m][o] \in Nodes /\ ~IsRed(t, t.kid[m][o])
          /\ t.kid[w][o] \in Nodes /\ ~IsRed(t, t.kid[w][o])
          /\ t.kid[w][o] # w
      <4>1. t.kid[m][o] \in Nodes /\ t.kid[w][o] \in Nodes /\ t.kid[w][o] # w
        <5>1. m \in L /\ o \in Sides /\ w \in L
          BY <1>2, <1>m
        <5>2. t.kid[m][o] \in Nodes
          BY <1>1, <5>1, KidFacts
        <5> QED BY <1>k, <5>1, <5>2
      <4>2. ~IsRed(t, t.kid[m][o])
        BY <1>2, <1>12
      <4> QED BY <1>b, <4>1, <4>2 DEF IsBlack
    <3>2. ~IsRed(r, t.kid[m][o])
      BY <1>7, <1>8, <3>1
    <3>3. ~IsRed(r, t.kid[w][o])
      BY <1>8, <3>1 DEF IsBlack
    <3> QED BY <1>7, <2>0, <2>1, <3>2, <3>3
  <2>2. CASE n # w
    <3>1. n # m
      BY <1>8 DEF IsBlack
    <3>2. r.kid[n][d] # m
      BY <1>8 DEF IsBlack
    <3>3. r.kid[n][d] = t.kid[n][d] /\ t.kid[n][d] # w /\ t.kid[n][d] # m
      BY <1>7, <2>2, <3>1, <3>2
    <3> QED BY <1>3, <1>8, <2>0, <2>2, <3>1, <3>3 DEF NoReds
  <2> QED BY <2>1, <2>2
<1>14. Lacking(r, L, g, x, p, s)
  BY <1>2, <1>3, <1>5, <1>9, <1>10, <1>11, <1>13 DEF Lacking
<1>15. IsRed(r, p) <=> IsRed(t, p)
  BY <1>2, <1>8, <1>m
<1>16. LackingTree(rk, r, L, x, p, s) /\ r.root = t.root
  BY <1>5, <1>7, <1>14 DEF LackingTree
<1>17. r.kid[p][Other(s)] = m
  BY <1>9
<1>18. IsBlack(r, r.kid[p][Other(s)]) /\ IsRed(r, r.kid[r.kid[p][Other(s)]][Other(s)])
  BY Zenon, <1>7, <1>8, <1>17, <1>b DEF IsBlack
<1> QED BY <1>15, <1>16, <1>18 DEF Straight

\* root, read on entry of the loop, is still the root or the red parent of x
Reaches(t, L, p, root) == root \in L /\ (root = t.root \/ (root = p /\ IsRed(t, p)))

\* case 2: the sibling and its children are black, and it turns red: now the
\* subtree of the parent has one black node too few
LEMMA LendSibling ==
  ASSUME NEW rk \in Rankings, NEW t, NEW L, NEW x, NEW p, NEW s, LackingTree(rk, t, L, x, p, s),
         NEW w, w = t.kid[p][Other(s)], IsBlack(t, w), \A d \in Sides : IsBlack(t, t.kid[w][d]),
         NEW root, Reaches(t, L, p, root), NEW r, r = SetColor(t, w, "red")
  PROVE  DeleteTree(rk, r, L, p, root)
<1> DEFINE o == Other(s)
           q == t.parent[p]
           e == SideOf(t, p)
<1>1. PICK u, h : Search(rk, t, L, u) /\ Lacking(t, L, h, x, p, s)
  BY DEF LackingTree
<1>2. /\ s \in Sides /\ o \in Sides /\ o # s /\ Other(o) = s
      /\ w \in L /\ w # x /\ w # p /\ x # p /\ w # Nil /\ w # t.root /\ t.parent[w] = p
      /\ x \in Nodes /\ p \in Nodes /\ w \in Nodes
      /\ h[w] = h[x] + 1 /\ h[x] \in Nat /\ h[x] > 0 /\ h[p] = h[w] + One(IsBlack(t, p))
  BY <1>1, Sibling
<1>3. /\ x \in L \cup {Nil} /\ p \in L /\ t.kid[p][s] = x /\ t.parent[x] = p
      /\ IsBlack(t, x) /\ IsBlack(t, Nil) /\ IsBlack(t, t.root)
      /\ NoReds(t, L) /\ Heights(t, L, h, p, s)
  BY <1>1 DEF Lacking
<1> DEFINE g == [h EXCEPT ![p] = h[p] - 1, ![w] = h[w] - 1]
<1>4. t \in Trees /\ t.root \in Nodes /\ Nil \in Nodes /\ Nil \notin L /\ NULL \notin L
  BY <1>1, Facts
<1>5. r \in Trees
  BY <1>2, <1>4, SetColorType
<1>6. /\ r.root = t.root /\ r.kid = t.kid /\ r.parent = t.parent
      /\ \A m \in Nodes : r.color[m] = IF m = w THEN "red" ELSE t.color[m]
  BY <1>2, <1>4, SetColorIs
<1>7. Search(rk, r, L, u)
  BY <1>1, <1>5, <1>6, SearchColor
<1>8. IsRed(r, w) /\ \A m \in Nodes : m # w => (IsRed(r, m) <=> IsRed(t, m))
  BY <1>2, <1>6 DEF IsRed
<1>9. h \in [Nodes -> Nat \ {0}] /\ h[Nil] = 1 /\ \A n \in L : HeightAt(t, h, p, s, n)
  BY <1>3 DEF Heights
<1>10. /\ g \in [Nodes -> Nat \ {0}] /\ g[p] = h[p] - 1 /\ g[w] = h[w] - 1 /\ g[Nil] = 1
       /\ \A n \in Nodes : n # p /\ n # w => g[n] = h[n]
  <2>1. h[p] - 1 \in Nat \ {0} /\ h[w] - 1 \in Nat \ {0}
    BY <1>2 DEF One
  <2> QED BY <1>2, <1>3, <1>4, <1>9, <2>1
<1> HIDE DEF g
<1>11. /\ p = t.root => q = Nil
       /\ p # t.root => q \in L /\ e \in Sides /\ t.kid[q][e] = p /\ q # p /\ q # w
  <2>1. p = t.root => q = Nil
    BY <1>1, <1>3, NodeFacts
  <2>2. ASSUME p # t.root PROVE q \in L /\ e \in Sides /\ t.kid[q][e] = p /\ q # p /\ q # w
    <3>1. q \in L /\ e \in Sides /\ t.kid[q][e] = p
      BY <1>1, <1>3, <2>2, Above
    <3>2. q # p
      BY <1>1, <3>1, KidFacts
    <3>3. q # w
      <4>1. p \notin u[w]
        BY <1>1, <1>2, <1>3, KidFacts
      <4>2. u[p] \subseteq u[q]
        BY <1>1, <3>1, KidFacts
      <4>3. p \in u[p]
        BY <1>1, <1>3, NodeFacts
      <4> QED BY <4>1, <4>2, <4>3
    <3> QED BY <3>1, <3>2, <3>3
  <2> QED BY <2>1, <2>2
<1>12. \A n \in L, d \in Sides : t.kid[n][d] = p => p # t.root /\ n = q /\ d = e
  <2>1. p # Nil
    BY <1>3, <1>4
  <2> QED BY <1>1, <1>3, <2>1, KidFacts, Above
<1>13. \A n \in L, d \in Sides : t.kid[n][d] = w => n = p
  BY <1>1, <1>2, KidFacts
<1>14. ASSUME NEW n \in L PROVE HeightAt(r, g, q, e, n)
  <2> SUFFICES ASSUME NEW d \in Sides
               PROVE  g[n] = g[r.kid[n][d]] + One(n = q /\ d = e) + One(IsBlack(r, n))
    BY DEF HeightAt
  <2>1. h[n] = h[t.kid[n][d]] + One(n = p /\ d = s) + One(IsBlack(t, n))
    BY <1>9 DEF HeightAt
  <2>2. n \in Nodes /\ t.kid[n][d] \in Nodes /\ h[t.kid[n][d]] \in Nat /\ t.kid[n][d] # n
        /\ One(IsBlack(t, n)) \in Nat /\ r.kid[n][d] = t.kid[n][d] /\ h[n] \in Nat
    BY <1>1, <1>6, <1>9, KidFacts, Facts DEF One
  <2>3. CASE n = p
    <3>1. One(n = q /\ d = e) = 0 /\ One(IsBlack(r, n)) = One(IsBlack(t, n))
      BY <1>2, <1>3, <1>4, <1>8, <1>11, <2>3 DEF One, IsBlack
    <3>2. CASE d = s
      <4>1. g[r.kid[n][d]] = h[x] /\ h[x] = h[t.kid[n][d]] /\ One(n = p /\ d = s) = 1
        BY <1>2, <1>3, <1>10, <2>2, <2>3, <3>2 DEF One
      <4> QED BY <1>2, <1>10, <2>1, <2>2, <2>3, <3>1, <4>1
    <3>3. CASE d = o
      <4>1. g[r.kid[n][d]] = h[w] - 1 /\ h[w] = h[t.kid[n][d]] /\ One(n = p /\ d = s) = 0
        BY <1>2, <1>10, <2>2, <2>3, <3>3 DEF One
      <4> QED BY <1>2, <1>10, <2>1, <2>2, <2>3, <3>1, <4>1
    <3> QED BY <1>2, <3>2, <3>3, SidesAre
  <2>4. CASE n = w
    <3>1. One(n = q /\ d = e) = 0 /\ One(IsBlack(r, n)) = 0 /\ One(IsBlack(t, n)) = 1
          /\ One(n = p /\ d = s) = 0
      BY <1>2, <1>4, <1>8, <1>11, <2>4 DEF One, IsBlack
    <3>2. g[r.kid[n][d]] = h[t.kid[n][d]]
      <4>1. t.kid[n][d] # p
        BY <1>11, <1>12, <2>4
      <4> QED BY <1>10, <2>2, <2>4, <4>1
    <3>3. h[n] = h[t.kid[n][d]] + 1
      BY <2>1, <2>2, <3>1
    <3>4. g[n] = h[n] - 1
      BY <1>10, <2>4
    <3>5. g[r.kid[n][d]] + One(n = q /\ d = e) + One(IsBlack(r, n)) = g[r.kid[n][d]]
      <4>1. g[r.kid[n][d]] \in Int
        BY <2>2, <3>2
      <4> QED BY <3>1, <4>1
    <3>6. g[n] = g[r.kid[n][d]]
      BY <2>2, <3>2, <3>3, <3>4
    <3> QED BY <3>5, <3>6
  <2>5. CASE n # p /\ n # w
    <3>1. One(IsBlack(r, n)) = One(IsBlack(t, n)) /\ One(n = p /\ d = s) = 0 /\ g[n] = h[n]
      BY <1>8, <1>10, <2>2, <2>5 DEF One, IsBlack
    <3>2. t.kid[n][d] # w
      BY <1>13, <2>5
    <3>3. CASE t.kid[n][d] = p
      <4>1. One(n = q /\ d = e) = 1
        BY <1>12, <3>3 DEF One
      <4> QED BY <1>10, <2>1, <2>2, <3>1, <3>3, <4>1
    <3>4. CASE t.kid[n][d] # p
      <4>1. One(n = q /\ d = e) = 0
        BY <1>4, <1>11, <3>4 DEF One
      <4>2. g[r.kid[n][d]] = h[t.kid[n][d]]
        BY <1>10, <2>2, <3>2, <3>4
      <4> QED BY <2>1, <2>2, <3>1, <4>1, <4>2
    <3> QED BY <3>3, <3>4
  <2> QED BY <2>3, <2>4, <2>5
<1>15. Heights(r, L, g, q, e)
  BY <1>10, <1>14 DEF Heights
\* the colors
<1>16. ASSUME NEW n \in L, NEW d \in Sides, IsRed(r, n), IsRed(r, r.kid[n][d])
       PROVE  n = p /\ IsRed(t, p)
  <2>1. n \in Nodes /\ t.kid[n][d] \in Nodes /\ t.kid[n][d] # n /\ r.kid[n][d] = t.kid[n][d]
    BY <1>1, <1>6, KidFacts, Facts
  <2>2. n # w
    BY <1>8, <1>16, <2>1 DEF IsBlack
  <2>3. IsRed(t, n)
    BY <1>8, <1>16, <2>1, <2>2
  <2>4. t.kid[n][d] = w
    BY <1>3, <1>8, <1>16, <2>1, <2>3 DEF NoReds
  <2> QED BY <1>13, <2>3, <2>4
<1>17. IsBlack(r, Nil) /\ IsBlack(r, r.root) /\ r.parent[p] = q
  BY <1>2, <1>3, <1>4, <1>6, <1>8 DEF IsBlack
<1>18. SideOf(r, p) = e
  BY <1>6 DEF SideOf
<1>19. root \in L /\ (root = t.root \/ (root = p /\ IsRed(t, p)))
  BY DEF Reaches
<1>20. CASE IsRed(t, p)
  <2>1. IsRed(r, p) /\ p \in L
    BY <1>2, <1>3, <1>8, <1>20
  <2>2. Paintable(r, L, g, p)
    BY <1>15, <1>16, <1>17, <1>18, <2>1 DEF Paintable, IsBlack
  <2> QED BY <1>7, <2>2 DEF DeleteTree, Deleting
<1>21. CASE ~IsRed(t, p)
  <2>1. NoReds(r, L) /\ root = t.root /\ IsBlack(r, p)
    BY <1>2, <1>8, <1>16, <1>19, <1>21 DEF NoReds, IsBlack
  <2>2. CASE p = t.root
    <3>1. Heights(r, L, g, NULL, "left")
      BY <1>4, <1>11, <1>15, <2>2, NoExtra
    <3>2. Balance(r, L, g)
      BY <1>17, <2>1, <3>1 DEF Balance, NoReds
    <3> QED BY <1>3, <1>7, <2>1, <2>2, <3>2 DEF DeleteTree, Deleting
  <2>3. CASE p # t.root
    <3>1. Lacking(r, L, g, p, r.parent[p], e)
      BY <1>3, <1>6, <1>11, <1>15, <1>17, <2>1, <2>3 DEF Lacking
    <3> QED BY <1>6, <1>7, <1>19, <2>1, <2>3, <3>1 DEF DeleteTree, Deleting
  <2> QED BY <2>2, <2>3
<1> QED BY <1>20, <1>21

\* the colors that case 4 gives, before the rotation
Closing(t, p, w, far) == SetColor(SetColor(SetColor(t, w, t.color[p]), p, "black"), far, "black")

\* the tree with the colors of case 4
LEMMA ClosingColors ==
  ASSUME NEW rk \in Rankings, NEW t, NEW L, NEW u, Search(rk, t, L, u), NEW p \in L, NEW w \in L,
         NEW far \in L,
         w # p, w # far, p # far, NEW q, q = Closing(t, p, w, far)
  PROVE  /\ Search(rk, q, L, u) /\ q.root = t.root /\ q.kid = t.kid /\ q.parent = t.parent
         /\ \A m \in Nodes : q.color[m] = IF m = w THEN t.color[p]
                                          ELSE IF m = p \/ m = far THEN "black" ELSE t.color[m]
<1> DEFINE c  == t.color[p]
           q1 == SetColor(t, w, c)
           q2 == SetColor(q1, p, "black")
<1>e. q1 = SetColor(t, w, c)
  OBVIOUS
<1>f. q2 = SetColor(q1, p, "black") /\ q = SetColor(q2, far, "black")
  BY DEF Closing
<1>0. t \in Trees /\ p \in Nodes /\ w \in Nodes /\ far \in Nodes
  BY Facts
<1>c. c \in {"red", "black"}
  BY <1>0 DEF Trees
<1>d. c = t.color[p]
  OBVIOUS
<1> HIDE DEF q1, q2, c
<1>1. q1 \in Trees
  BY <1>0, <1>c, <1>e, SetColorType
<1>2. /\ q1.root = t.root /\ q1.kid = t.kid /\ q1.parent = t.parent
      /\ \A m \in Nodes : q1.color[m] = IF m = w THEN c ELSE t.color[m]
  BY <1>0, <1>c, <1>e, SetColorIs
<1>3. q2 \in Trees
  BY <1>0, <1>1, <1>f, SetColorType
<1>4. /\ q2.root = q1.root /\ q2.kid = q1.kid /\ q2.parent = q1.parent
      /\ \A m \in Nodes : q2.color[m] = IF m = p THEN "black" ELSE q1.color[m]
  BY <1>0, <1>1, <1>f, SetColorIs
<1>5. q \in Trees
  BY <1>0, <1>3, <1>f, SetColorType
<1>6. /\ q.root = q2.root /\ q.kid = q2.kid /\ q.parent = q2.parent
      /\ \A m \in Nodes : q.color[m] = IF m = far THEN "black" ELSE q2.color[m]
  BY <1>0, <1>3, <1>f, SetColorIs
<1>7. Search(rk, q, L, u)
  BY <1>2, <1>4, <1>5, <1>6, SearchColor
<1>8. \A m \in Nodes : q.color[m] = IF m = w THEN t.color[p]
                                    ELSE IF m = p \/ m = far THEN "black" ELSE t.color[m]
  BY <1>d, <1>2, <1>4, <1>6
<1> QED BY <1>2, <1>4, <1>6, <1>7, <1>8

\* The colors do not matter for how the nodes move.
LEMMA MovedSame ==
  ASSUME NEW t, NEW q, q.root = t.root, q.kid = t.kid, q.parent = t.parent,
         NEW L, NEW s, NEW x, NEW y, NEW r, Moved(q, L, s, x, y, r)
  PROVE  Moved(t, L, s, x, y, r)
<1>1. \A a, k, R : /\ t.root = a /\ q.root = a /\ t.kid = k /\ q.kid = k
                  /\ t.parent = R /\ q.parent = R /\ Moved(q, L, s, x, y, r)
                  => Moved(t, L, s, x, y, r)
  BY DEF Moved
<1> QED BY <1>1

\* case 4 of the loop: w is the sibling of the short child, its far child is
\* red, and r is the tree after the colors are set and the parent is rotated.
FarIsRed(t, p, s, w, far, r) ==
  /\ w = t.kid[p][Other(s)] /\ IsBlack(t, w)
  /\ far = t.kid[w][Other(s)] /\ IsRed(t, far)
  /\ r = Rotate(Closing(t, p, w, far), s, p)

\* the sibling takes the place and the color of the parent, and the loop ends
LEMMA CloseUp ==
  ASSUME NEW rk \in Rankings, NEW t, NEW L, NEW x, NEW p, NEW s, LackingTree(rk, t, L, x, p, s),
         NEW w, NEW far, NEW r, FarIsRed(t, p, s, w, far, r),
         NEW root, Reaches(t, L, p, root)
  PROVE  DeleteTree(rk, r, L, root, root)
<1> DEFINE o == Other(s)
           near == t.kid[w][s]
           q == Closing(t, p, w, far)
<1>q. q = Closing(t, p, w, far) /\ r = Rotate(q, s, p)
  BY DEF FarIsRed
<1>n. near = t.kid[w][s]
  OBVIOUS
<1>w. far = t.kid[w][o] /\ w = t.kid[p][o]
  BY DEF FarIsRed
<1>o. o = Other(s)
  OBVIOUS
<1>c. IsBlack(t, w) /\ IsRed(t, far)
  BY DEF FarIsRed
<1> HIDE DEF q, near, o
<1>1. PICK u, h : Search(rk, t, L, u) /\ Lacking(t, L, h, x, p, s)
  BY DEF LackingTree
<1>2. /\ s \in Sides /\ o \in Sides /\ o # s /\ Other(o) = s
      /\ w \in L /\ w # x /\ w # p /\ x # p /\ w # Nil /\ w # t.root /\ t.parent[w] = p
      /\ x \in Nodes /\ p \in Nodes /\ w \in Nodes
      /\ h[w] = h[x] + 1 /\ h[x] \in Nat /\ h[x] > 0 /\ h[p] = h[w] + One(IsBlack(t, p))
  <2>1. w = t.kid[p][Other(s)]
    BY <1>o, <1>w
  <2>2. /\ s \in Sides /\ Other(s) \in Sides /\ Other(s) # s /\ Other(Other(s)) = s
        /\ w \in L /\ w # x /\ w # p /\ x # p /\ w # Nil /\ w # t.root /\ t.parent[w] = p
        /\ x \in Nodes /\ p \in Nodes /\ w \in Nodes
        /\ h[w] = h[x] + 1 /\ h[x] \in Nat /\ h[x] > 0 /\ h[p] = h[w] + One(IsBlack(t, p))
    BY <1>1, <2>1, Sibling
  <2> QED BY <1>o, <2>2
<1>3. /\ x \in L \cup {Nil} /\ p \in L /\ t.kid[p][s] = x /\ t.parent[x] = p
      /\ IsBlack(t, x) /\ IsBlack(t, Nil) /\ IsBlack(t, t.root)
      /\ NoReds(t, L) /\ Heights(t, L, h, p, s)
  BY <1>1 DEF Lacking
<1>4. t \in Trees /\ t.root \in Nodes /\ Nil \in Nodes /\ Nil \notin L /\ NULL \notin L
  BY <1>1, Facts
<1>k. \A c \in Sides : t.kid[w][c] \in Nodes /\ t.kid[w][c] # w /\ t.kid[w][c] \in L \cup {Nil}
                       /\ (t.kid[w][c] # Nil => t.parent[t.kid[w][c]] = w /\ t.kid[w][c] # t.root)
  <2> TAKE c \in Sides
  <2>1. w \in L /\ Search(rk, t, L, u)
    BY <1>1, <1>2
  <2> QED BY <2>1, KidFacts
<1>5. far \in L /\ far # w /\ far # p /\ far # Nil /\ far \in Nodes /\ far # t.root /\ t.parent[far] = w
  <2>1. far # Nil
    BY <1>3, <1>c DEF IsBlack
  <2>2. far \in Nodes /\ far # w /\ far \in L /\ t.parent[far] = w /\ far # t.root
    BY Zenon, <1>2, <1>k, <1>w, <2>1
  <2>3. far # p
    <3>1. p \notin u[w]
      BY <1>1, <1>2, <1>3, <1>w, KidFacts
    <3>2. far \in u[far]
      BY <1>1, <2>2, NodeFacts
    <3>3. u[far] \subseteq u[w]
      <4>1. w \in L /\ o \in Sides /\ far = t.kid[w][o]
        BY <1>2, <1>w
      <4> QED BY <1>1, <4>1, KidFacts
    <3> QED BY <3>1, <3>2, <3>3
  <2> QED BY <2>1, <2>2, <2>3
<1>j. \A c \in Sides : /\ u[t.kid[w][c]] \subseteq u[w]
                       /\ t.kid[w][c] # Nil => t.kid[w][Other(c)] # t.kid[w][c]
  <2> TAKE c \in Sides
  <2>1. w \in L /\ Search(rk, t, L, u)
    BY <1>1, <1>2
  <2>2. u[t.kid[w][c]] \subseteq u[w]
    BY <2>1, KidFacts
  <2>3. t.kid[w][c] # Nil => t.kid[w][Other(c)] # t.kid[w][c]
    BY <2>1, KidFacts
  <2> QED BY <2>2, <2>3
<1>i. u[far] \subseteq u[w] /\ u[near] \subseteq u[w] /\ (far # Nil => near # far)
  <2>0. o \in Sides
    BY <1>2
  <2>1. u[t.kid[w][o]] \subseteq u[w] /\ (t.kid[w][o] # Nil => t.kid[w][Other(o)] # t.kid[w][o])
    BY <2>0, <1>j
  <2>2. u[t.kid[w][s]] \subseteq u[w]
    BY <1>2, <1>j
  <2>3. Other(o) = s
    BY <1>2
  <2>4. t.kid[w][o] # Nil => t.kid[w][s] # t.kid[w][o]
    BY <2>1, <2>3
  <2> QED BY <1>n, <1>w, <2>1, <2>2, <2>4
<1>6. near \in Nodes /\ near # w /\ near # far /\ near # p
  <2>1. near \in Nodes /\ near # w
    BY <1>2, <1>k, <1>n
  <2>2. near # far
    BY <1>5, <1>i
  <2>3. near # p
    <3>1. p \notin u[w]
      BY <1>1, <1>2, <1>3, <1>w, KidFacts
    <3>2. p \in u[p]
      BY <1>1, <1>3, NodeFacts
    <3>3. u[near] \subseteq u[w]
      BY <1>i
    <3> QED BY <3>1, <3>2, <3>3
  <2> QED BY <2>1, <2>2, <2>3
<1>7. /\ Search(rk, q, L, u) /\ q.root = t.root /\ q.kid = t.kid /\ q.parent = t.parent
      /\ \A m \in Nodes : q.color[m] = IF m = w THEN t.color[p]
                                       ELSE IF m = p \/ m = far THEN "black" ELSE t.color[m]
  <2>1. w # p /\ w # far /\ p # far /\ w \in L /\ p \in L /\ far \in L
    BY <1>2, <1>3, <1>5
  <2>2. q = Closing(t, p, w, far) /\ Search(rk, t, L, u)
    BY <1>1, <1>q
  <2>3. /\ Search(rk, q, L, u) /\ q.root = t.root /\ q.kid = t.kid /\ q.parent = t.parent
        /\ \A m \in Nodes : q.color[m] = IF m = w THEN t.color[p]
                                         ELSE IF m = p \/ m = far THEN "black" ELSE t.color[m]
    BY ONLY <2>1, <2>2, ClosingColors
  <2> QED BY <2>3
<1>8. q.kid[p][Other(s)] # Nil
  BY <1>2, <1>7, <1>w, <1>o
<1>9. Search(rk, r, L, Turned(q, u, s, p))
  BY <1>2, <1>3, <1>7, <1>8, <1>q, RotateSearch
<1>10. PICK y, b : Rotated(q, L, u, s, p, y, b, r, Turned(q, u, s, p))
  <2>1. Search(rk, q, L, u) /\ s \in Sides /\ p \in L
    BY <1>2, <1>3, <1>7
  <2>2. \E y, b : Rotated(q, L, u, s, p, y, b, Rotate(q, s, p), Turned(q, u, s, p))
    BY <1>8, <2>1, RotateKids
  <2> QED BY <1>q, <2>2
<1>11. y = w /\ r.color = q.color
  BY Zenon, <1>7, <1>10, <1>w, <1>o DEF Rotated
<1>12. Moved(q, L, s, p, w, r)
  BY <1>2, <1>3, <1>10, <1>11, RotatedMoves
<1>13. /\ r.root = (IF p = t.root THEN w ELSE t.root)
       /\ r.kid[p][s] = x /\ r.kid[p][o] = near /\ r.kid[w][s] = p /\ r.kid[w][o] = far
       /\ \A n \in L, d \in Sides : n # p /\ n # w =>
            \/ t.kid[n][d] = p /\ r.kid[n][d] = w
            \/ r.kid[n][d] = t.kid[n][d] /\ t.kid[n][d] # p /\ t.kid[n][d] # w
  <2>2. Moved(t, L, s, p, w, r)
    BY <1>7, <1>12, MovedSame
  <2>3. /\ r.root = (IF p = t.root THEN w ELSE t.root)
        /\ r.kid[p][s] = t.kid[p][s] /\ r.kid[p][o] = t.kid[w][s]
        /\ r.kid[w][s] = p /\ r.kid[w][o] = t.kid[w][o]
        /\ \A n \in L, d \in Sides : n # p /\ n # w =>
             \/ t.kid[n][d] = p /\ r.kid[n][d] = w
             \/ r.kid[n][d] = t.kid[n][d] /\ t.kid[n][d] # p /\ t.kid[n][d] # w
    BY <1>o, <2>2 DEF Moved
  <2> QED BY <1>3, <1>n, <1>w, <2>3
<1>14. /\ IsBlack(r, p) /\ IsBlack(r, far) /\ (IsRed(r, w) <=> IsRed(t, p))
       /\ \A m \in Nodes : m \notin {p, w, far} => (IsRed(r, m) <=> IsRed(t, m))
  BY <1>2, <1>5, <1>7, <1>11 DEF IsRed, IsBlack
\* the heights
<1> DEFINE g == [h EXCEPT ![p] = h[w], ![w] = h[p], ![far] = h[w]]
<1>15. h \in [Nodes -> Nat \ {0}] /\ h[Nil] = 1 /\ \A n \in L : HeightAt(t, h, p, s, n)
  BY <1>3 DEF Heights
<1>16. /\ g \in [Nodes -> Nat \ {0}] /\ g[p] = h[w] /\ g[w] = h[p] /\ g[far] = h[w] /\ g[Nil] = 1
       /\ \A n \in Nodes : n \notin {p, w, far} => g[n] = h[n]
  BY <1>2, <1>3, <1>4, <1>5, <1>15
<1> HIDE DEF g
<1>17. /\ h[near] = h[x] /\ h[far] = h[x] /\ h[near] \in Nat /\ h[far] \in Nat
  <2>4. h[near] \in Nat /\ h[far] \in Nat
    BY <1>5, <1>6, <1>15
  <2>5. h[w] = h[near] + 1
    BY <1>1, <1>2, <1>3, <1>n, <1>c, HeightFacts
  <2>6. h[w] = h[far] + 1
    BY <1>1, <1>2, <1>3, <1>w, <1>c, HeightFacts
  <2>7. h[w] = h[x] + 1 /\ h[x] \in Nat
    BY <1>2
  <2>8. h[near] = h[x]
    BY <2>4, <2>5, <2>7
  <2>9. h[far] = h[x]
    BY <2>4, <2>6, <2>7
  <2> QED BY <2>4, <2>8, <2>9
<1>18. ASSUME NEW n \in L, NEW d \in Sides, t.kid[n][d] = far PROVE n = w
  <2>1. t.parent[t.kid[n][d]] = n
    <3>1. t.kid[n][d] # Nil
      BY <1>5, <1>18
    <3> QED BY <1>1, <3>1, KidFacts
  <2> QED BY <1>5, <1>18, <2>1
<1>19. ASSUME NEW n \in L PROVE HeightAt(r, g, NULL, "left", n)
  <2> SUFFICES ASSUME NEW d \in Sides
               PROVE  g[n] = g[r.kid[n][d]] + One(n = NULL /\ d = "left") + One(IsBlack(r, n))
    BY DEF HeightAt
  <2>1. h[n] = h[t.kid[n][d]] + One(n = p /\ d = s) + One(IsBlack(t, n))
    BY <1>15 DEF HeightAt
  <2>2. n \in Nodes /\ t.kid[n][d] \in Nodes /\ t.kid[n][d] # n /\ h[t.kid[n][d]] \in Nat /\ h[n] \in Nat
    BY <1>1, <1>15, KidFacts, Facts
  <2>3. One(n = NULL /\ d = "left") = 0
    BY <1>4 DEF One
  <2>4. d = s \/ d = o
    BY <1>2, <1>o, SidesAre
  <2>5. CASE n = p
    <3>1. g[r.kid[n][d]] = h[x]
      <4>1. x \notin {p, w, far}
        BY <1>2, <1>3, <1>5 DEF IsBlack
      <4>2. g[x] = h[x] /\ g[near] = h[x]
        BY <1>2, <1>6, <1>16, <1>17, <4>1
      <4> QED BY <1>13, <2>4, <2>5, <4>2
    <3>2. One(IsBlack(r, n)) = 1
      BY <1>14, <2>5 DEF One
    <3>3. g[n] = h[x] + 1
      BY <1>2, <1>16, <2>5
    <3>4. h[x] + 1 = h[x] + 0 + 1
      BY <1>2
    <3> QED BY <2>3, <3>1, <3>2, <3>3, <3>4
  <2>6. CASE n = w
    <3>1. g[r.kid[n][d]] = h[w]
      <4>1. r.kid[n][d] = p \/ r.kid[n][d] = far
        BY <1>13, <2>4, <2>6
      <4> QED BY <1>16, <4>1
    <3>2. One(IsBlack(r, n)) = One(IsBlack(t, p)) /\ One(IsBlack(t, p)) \in {0, 1}
      BY <1>14, <2>6 DEF One, IsBlack
    <3>3. g[n] = h[w] + One(IsBlack(t, p))
      BY <1>2, <1>16, <2>6
    <3>4. h[w] + One(IsBlack(t, p)) = h[w] + 0 + One(IsBlack(t, p))
      BY <1>2, <3>2
    <3> QED BY <2>3, <3>1, <3>2, <3>3, <3>4
  <2>7. CASE n = far
    <3>1. r.kid[n][d] = t.kid[n][d] /\ t.kid[n][d] \notin {p, w, far}
      <4>1. t.kid[n][d] # p
        <5>1. p \notin u[w]
          BY <1>1, <1>2, <1>3, <1>w, KidFacts
        <5>2. u[far] \subseteq u[w]
          BY <1>i
        <5>3. u[t.kid[n][d]] \subseteq u[n]
          BY <1>1, KidFacts
        <5>4. p \in u[p]
          BY <1>1, <1>3, NodeFacts
        <5> QED BY <2>7, <5>1, <5>2, <5>3, <5>4
      <4> QED BY <1>5, <1>13, <2>2, <2>7, <4>1
    <3>2. g[r.kid[n][d]] = h[t.kid[n][d]]
      BY <1>16, <2>2, <3>1
    <3>3. One(IsBlack(r, n)) = 1 /\ One(n = p /\ d = s) = 0 /\ One(IsBlack(t, n)) = 0
      BY <1>5, <1>14, <1>c, <2>7 DEF One, IsBlack
    <3>4. h[n] = h[t.kid[n][d]]
      BY <2>1, <2>2, <3>3
    <3>5. g[n] = h[n] + 1
      BY <1>2, <1>16, <1>17, <2>7
    <3>6. h[n] + 1 = h[t.kid[n][d]] + 0 + 1
      BY <2>2, <3>4
    <3> QED BY <2>3, <3>2, <3>3, <3>5, <3>6
  <2>8. CASE n \notin {p, w, far}
    <3>1. One(IsBlack(r, n)) = One(IsBlack(t, n)) /\ One(n = p /\ d = s) = 0 /\ g[n] = h[n]
      BY <1>14, <1>16, <2>2, <2>8 DEF One, IsBlack
    <3>2. t.kid[n][d] # far
      BY <1>18, <2>8
    <3>3. g[r.kid[n][d]] = h[t.kid[n][d]]
      <4>1. CASE t.kid[n][d] = p /\ r.kid[n][d] = w
        BY <1>16, <4>1
      <4>2. CASE r.kid[n][d] = t.kid[n][d] /\ t.kid[n][d] # p /\ t.kid[n][d] # w
        BY <1>16, <2>2, <3>2, <4>2
      <4> QED BY <1>13, <2>8, <4>1, <4>2
    <3> QED BY <2>1, <2>2, <2>3, <3>1, <3>3
  <2> QED BY <2>5, <2>6, <2>7, <2>8
<1>20. Heights(r, L, g, NULL, "left")
  BY <1>16, <1>19 DEF Heights
\* the colors
<1>22. ASSUME NEW n \in L, NEW d \in Sides, IsRed(r, n), IsRed(r, r.kid[n][d]) PROVE FALSE
  <2>1. n \in Nodes /\ t.kid[n][d] \in Nodes /\ t.kid[n][d] # n
    BY <1>1, KidFacts, Facts
  <2>2. n # p /\ n # far
    BY <1>14, <1>22 DEF IsBlack
  <2>3. d = s \/ d = o
    BY <1>2, <1>o, SidesAre
  <2>4. n # w
    BY <1>13, <1>14, <1>22, <2>3 DEF IsBlack
  <2>5. CASE t.kid[n][d] = p /\ r.kid[n][d] = w
    BY <1>3, <1>14, <1>22, <2>1, <2>2, <2>4, <2>5 DEF NoReds
  <2>6. CASE r.kid[n][d] = t.kid[n][d] /\ t.kid[n][d] # p /\ t.kid[n][d] # w
    <3>1. t.kid[n][d] # far
      BY <1>18, <2>4
    <3> QED BY <1>3, <1>14, <1>22, <2>1, <2>2, <2>4, <2>6, <3>1 DEF NoReds
  <2> QED BY <1>13, <2>2, <2>4, <2>5, <2>6
<1>23. IsBlack(r, Nil)
  BY <1>2, <1>3, <1>4, <1>5, <1>14 DEF IsBlack
<1>24. IsBlack(r, r.root)
  BY <1>2, <1>3, <1>4, <1>5, <1>13, <1>14 DEF IsBlack
<1>25. IsBlack(r, root) /\ root \in L
  <2>1. root \in L /\ (root = t.root \/ (root = p /\ IsRed(t, p)))
    BY DEF Reaches
  <2>2. CASE root = p
    BY <1>14, <2>1, <2>2
  <2>3. CASE root # p
    BY <1>2, <1>3, <1>4, <1>5, <1>14, <2>1, <2>3 DEF IsBlack
  <2> QED BY <2>1, <2>2, <2>3
<1>26. Balance(r, L, g)
  BY <1>20, <1>22, <1>23, <1>24 DEF Balance
<1> QED BY <1>9, <1>25, <1>26 DEF DeleteTree, Deleting

\* cases 2 to 4 of an iteration of rbtree_delete_fixup, in which the sibling w
\* is black
Closed(t, p, s, root) ==
  LET w == t.kid[p][Other(s)]
  IN [tree |-> Rotate(Closing(t, p, w, t.kid[w][Other(s)]), s, p), at |-> root]
Settled(t, p, s, root) ==
  LET w == t.kid[p][Other(s)]
  IN IF IsBlack(t, t.kid[w][s]) /\ IsBlack(t, t.kid[w][Other(s)])
     THEN [tree |-> SetColor(t, w, "red"), at |-> p]
     ELSE Closed(IF IsBlack(t, t.kid[w][Other(s)]) THEN Lift(t, Other(s), w) ELSE t, p, s, root)

\* an iteration of rbtree_delete_fixup by its cases
LEMMA FixIsSettled ==
  ASSUME NEW t, NEW x, NEW s \in Sides, NEW root
  PROVE  DeleteFixOn(t, x, s, root) =
           Settled(IF IsRed(t, t.kid[t.parent[x]][Other(s)]) THEN Lift(t, s, t.parent[x]) ELSE t,
                   t.parent[x], s, root)
<1>1. Other(Other(s)) = s
  BY SidesAre
<1>2. \A q, w : Lift(q, Other(s), w)
                = Rotate(SetColor(SetColor(q, q.kid[w][s], "black"), w, "red"), Other(s), w)
  BY <1>1 DEF Lift
<1> DEFINE p == t.parent[x]
           w0 == t.kid[p][Other(s)]
           t1 == IF IsRed(t, w0) THEN Rotate(SetColor(SetColor(t, w0, "black"), p, "red"), s, p)
                                 ELSE t
           w1 == t1.kid[p][Other(s)]
           far == t1.kid[w1][Other(s)]
           near == t1.kid[w1][s]
           t2 == IF IsBlack(t1, far)
                 THEN Rotate(SetColor(SetColor(t1, near, "black"), w1, "red"), Other(s), w1) ELSE t1
<1>3. DeleteFixOn(t, x, s, root)
        = IF IsBlack(t1, near) /\ IsBlack(t1, far)
          THEN [tree |-> SetColor(t1, w1, "red"), at |-> p]
          ELSE Closed(t2, p, s, root)
  BY ZenonT(40) DEF DeleteFixOn, Closed, Closing
<1>4. t2 = IF IsBlack(t1, far) THEN Lift(t1, Other(s), w1) ELSE t1
  BY ZenonT(40), <1>2
<1> HIDE DEF t2
<1>5. DeleteFixOn(t, x, s, root) = Settled(t1, p, s, root)
  BY Zenon, <1>3, <1>4 DEF Settled
<1>6. t1 = IF IsRed(t, w0) THEN Lift(t, s, p) ELSE t
  BY DEF Lift
<1> QED BY <1>5, <1>6

\* case 4 ends the loop with a red-black tree.
LEMMA ClosedKeeps ==
  ASSUME NEW rk \in Rankings, NEW t, NEW L, NEW x, NEW p, NEW s, LackingTree(rk, t, L, x, p, s),
         IsBlack(t, t.kid[p][Other(s)]), IsRed(t, t.kid[t.kid[p][Other(s)]][Other(s)]),
         NEW root, Reaches(t, L, p, root), NEW f, f = Closed(t, p, s, root)
  PROVE  DeleteTree(rk, f.tree, L, f.at, root)
<1> DEFINE w == t.kid[p][Other(s)]
           far == t.kid[w][Other(s)]
           r == Rotate(Closing(t, p, w, far), s, p)
<1>1. w = t.kid[p][Other(s)] /\ far = t.kid[w][Other(s)] /\ r = Rotate(Closing(t, p, w, far), s, p)
  OBVIOUS
<1>2. f.tree = r /\ f.at = root
  BY DEF Closed
<1>3. IsBlack(t, w) /\ IsRed(t, far)
  OBVIOUS
<1> HIDE DEF w, far, r
<1>4. FarIsRed(t, p, s, w, far, r)
  BY ONLY <1>1, <1>3 DEF FarIsRed
<1>5. DeleteTree(rk, r, L, root, root)
  BY <1>4, CloseUp
<1> QED BY <1>2, <1>5

\* Cases 2 to 4 keep the invariant of the loop.
LEMMA SettledKeeps ==
  ASSUME NEW rk \in Rankings, NEW t, NEW L, NEW x, NEW p, NEW s, LackingTree(rk, t, L, x, p, s),
         IsBlack(t, t.kid[p][Other(s)]),
         NEW root, Reaches(t, L, p, root), NEW f, f = Settled(t, p, s, root)
  PROVE  /\ DeleteTree(rk, f.tree, L, f.at, root)
         /\ f.at = root \/ (f.at = p /\ f.tree = SetColor(t, t.kid[p][Other(s)], "red"))
<1> DEFINE o == Other(s)
           w == t.kid[p][o]
<1>1. PICK u, h : Search(rk, t, L, u) /\ Lacking(t, L, h, x, p, s)
  BY DEF LackingTree
<1>2. s \in Sides /\ o \in Sides /\ Other(o) = s /\ \A d \in Sides : d = s \/ d = o
  BY <1>1, SidesAre DEF Lacking
<1>3. CASE IsBlack(t, t.kid[w][s]) /\ IsBlack(t, t.kid[w][o])
  <2> DEFINE r == SetColor(t, w, "red")
  <2>1. f.tree = r /\ f.at = p
    BY <1>3 DEF Settled
  <2>2. r = SetColor(t, w, "red") /\ w = t.kid[p][Other(s)] /\ IsBlack(t, w)
    OBVIOUS
  <2>3. \A d \in Sides : IsBlack(t, t.kid[w][d])
    BY <1>2, <1>3
  <2> HIDE DEF r, w
  <2>4. DeleteTree(rk, r, L, p, root)
    BY <2>2, <2>3, LendSibling
  <2> QED BY <2>1, <2>2, <2>4
<1>4. CASE ~IsBlack(t, t.kid[w][o])
  <2>1. f = Closed(t, p, s, root)
    BY <1>4 DEF Settled
  <2>2. IsRed(t, t.kid[t.kid[p][Other(s)]][Other(s)])
    BY <1>4 DEF IsBlack
  <2>3. f.at = root
    BY <2>1 DEF Closed
  <2> QED BY <2>1, <2>2, <2>3, ClosedKeeps
<1>5. CASE ~IsBlack(t, t.kid[w][s]) /\ IsBlack(t, t.kid[w][o])
  <2> DEFINE r == Lift(t, o, w)
  <2>1. f = Closed(r, p, s, root)
    BY <1>5 DEF Settled
  <2>2. r = Lift(t, Other(s), w) /\ w = t.kid[p][Other(s)] /\ IsBlack(t, w)
        /\ IsRed(t, t.kid[w][s]) /\ IsBlack(t, t.kid[w][Other(s)])
    BY <1>5 DEF IsBlack
  <2> HIDE DEF r, w
  <2>a. Bent(rk, t, L, x, p, s, w)
    BY <2>2 DEF Bent
  <2>b. Straight(rk, r, L, x, p, s) /\ r.root = t.root /\ (IsRed(r, p) <=> IsRed(t, p))
    BY <2>a, <2>2, LiftNephew
  <2>3. /\ LackingTree(rk, r, L, x, p, s) /\ IsBlack(r, r.kid[p][Other(s)])
        /\ IsRed(r, r.kid[r.kid[p][Other(s)]][Other(s)])
        /\ r.root = t.root /\ (IsRed(r, p) <=> IsRed(t, p))
    BY <2>b DEF Straight
  <2>4. Reaches(r, L, p, root)
    BY <2>3 DEF Reaches
  <2>5. f.at = root
    BY <2>1 DEF Closed
  <2> QED BY <2>1, <2>3, <2>4, <2>5, ClosedKeeps
<1> QED BY <1>3, <1>4, <1>5

\* An iteration of rbtree_delete_fixup keeps its loop invariant, and if it is
\* not the last one, it climbs.
THEOREM DeleteFixKeeps ==
  ASSUME NEW rk \in Rankings, NEW t, NEW L, NEW x, NEW root, DeleteTree(rk, t, L, x, root),
         DeleteFixGoesOn(t, x, root)
  PROVE  LET f == DeleteFix(t, x, root)
         IN /\ DeleteTree(rk, f.tree, L, f.at, root)
            /\ DeleteFixGoesOn(f.tree, f.at, root) =>
                 \E u : Search(rk, t, L, u) /\ GoesAbove(t, L, u, x, f.tree, f.at)
<1>1. PICK u, h, s : /\ Search(rk, t, L, u) /\ Lacking(t, L, h, x, t.parent[x], s)
                     /\ root = t.root /\ root \in L /\ x # root
  BY DEF DeleteTree, Deleting, DeleteFixGoesOn, Paintable, IsBlack
<1> DEFINE p == t.parent[x]
           w == t.kid[p][Other(s)]
           f == DeleteFix(t, x, root)
<1>2. s \in Sides /\ SideOf(t, x) = s
  BY <1>1, Sibling
<1>3. LackingTree(rk, t, L, x, p, s)
  BY <1>1 DEF LackingTree
<1>4. f = Settled(IF IsRed(t, w) THEN Lift(t, s, p) ELSE t, p, s, root)
  BY <1>2, FixIsSettled DEF DeleteFix
<1>5. w = t.kid[p][Other(s)]
  OBVIOUS
<1> HIDE DEF p, w, f
<1>6. CASE IsRed(t, w)
  <2> DEFINE r == Lift(t, s, p)
  <2>1. r = Lift(t, s, p) /\ f = Settled(r, p, s, root)
    BY <1>4, <1>6
  <2> HIDE DEF r
  <2>2. /\ LackingTree(rk, r, L, x, p, s) /\ IsBlack(r, r.kid[p][Other(s)])
        /\ IsRed(r, p) /\ r.root = (IF p = t.root THEN w ELSE t.root)
    BY <1>3, <1>5, <1>6, <2>1, LiftSibling
  <2>3. Reaches(r, L, p, root)
    BY <1>1, <2>2 DEF Reaches
  <2>4. /\ DeleteTree(rk, f.tree, L, f.at, root)
        /\ f.at = root \/ (f.at = p /\ f.tree = SetColor(r, r.kid[p][Other(s)], "red"))
    BY <2>1, <2>2, <2>3, SettledKeeps
  <2>5. ~DeleteFixGoesOn(f.tree, f.at, root)
    <3>1. CASE f.at = root
      BY <3>1 DEF DeleteFixGoesOn
    <3>2. CASE f.at = p /\ f.tree = SetColor(r, r.kid[p][Other(s)], "red")
      <4>1. r \in Trees /\ p \in L /\ p \in Nodes /\ r.kid[p][Other(s)] \in Nodes
        <5>1. PICK v, k : Search(rk, r, L, v) /\ Lacking(r, L, k, x, p, s)
          BY <2>2 DEF LackingTree
        <5>2. p \in L /\ Other(s) \in Sides
          BY <1>2, <5>1, SidesAre DEF Lacking
        <5> QED BY <5>1, <5>2, Facts, KidFacts
      <4>2. IsRed(f.tree, p)
        BY <2>2, <3>2, <4>1, SetColorIs DEF IsRed
      <4> QED BY <3>2, <4>2 DEF DeleteFixGoesOn, IsBlack
    <3> QED BY <2>4, <3>1, <3>2
  <2> QED BY <2>4, <2>5 DEF f
<1>7. CASE ~IsRed(t, w)
  <2>1. f = Settled(t, p, s, root) /\ IsBlack(t, t.kid[p][Other(s)])
    BY <1>4, <1>5, <1>7 DEF IsBlack
  <2>2. Reaches(t, L, p, root)
    BY <1>1 DEF Reaches
  <2>3. /\ DeleteTree(rk, f.tree, L, f.at, root)
        /\ f.at = root \/ (f.at = p /\ f.tree = SetColor(t, w, "red"))
    BY <1>3, <1>5, <2>1, <2>2, SettledKeeps
  <2>4. ASSUME DeleteFixGoesOn(f.tree, f.at, root)
        PROVE  GoesAbove(t, L, u, x, f.tree, f.at)
    <3>1. f.at = p /\ f.tree = SetColor(t, w, "red")
      BY <2>3, <2>4 DEF DeleteFixGoesOn
    <3>2. p \in L /\ x \in L \cup {Nil} /\ t.kid[p][s] = x /\ Other(s) \in Sides
      BY <1>1, <1>2, SidesAre DEF Lacking, p
    <3>3. t \in Trees /\ w \in Nodes
      BY <1>1, <1>5, <3>2, Facts, KidFacts
    <3>4. f.tree.root = t.root /\ f.tree.kid = t.kid /\ f.tree.parent = t.parent
      BY <3>1, <3>3, SetColorIs
    <3>5. u[x] \subseteq u[p] /\ p \notin u[x]
      BY <1>1, <1>2, <3>2, KidFacts
    <3> QED BY <3>1, <3>2, <3>4, <3>5 DEF GoesAbove
  <2> QED BY <1>1, <2>3, <2>4 DEF f
<1> QED BY <1>6, <1>7

\* Painting a red node black adds one black node below each of its ancestors,
\* which is what the pointer to it lacked.
LEMMA Paint ==
  ASSUME NEW rk \in Rankings, NEW t, NEW L, NEW u, Search(rk, t, L, u), NEW h, NEW x,
         Paintable(t, L, h, x), x # t.root,
         NEW r, r = SetColor(t, x, "black")
  PROVE  SortedTree(rk, r, L)
<1> DEFINE p == t.parent[x]
           e == SideOf(t, x)
<1>1. /\ x \in L /\ IsRed(t, x) /\ IsBlack(t, Nil) /\ IsBlack(t, t.root)
      /\ \A n \in L, d \in Sides : IsRed(t, n) /\ IsRed(t, t.kid[n][d]) => x \in {n, t.kid[n][d]}
      /\ Heights(t, L, h, p, e)
  BY DEF Paintable, IsBlack
<1>2. t \in Trees /\ x \in Nodes /\ t.root \in Nodes /\ Nil \in Nodes /\ Nil \notin L /\ NULL \notin L
  BY <1>1, Facts
<1>3. /\ p \in L /\ e \in Sides /\ t.kid[p][e] = x /\ p # x
      /\ \A n \in L, d \in Sides : t.kid[n][d] = x => n = p /\ d = e
  <2>1. /\ p \in L /\ e \in Sides /\ t.kid[p][e] = x
        /\ \A n \in L, d \in Sides : t.kid[n][d] = x => n = p /\ d = e
    BY <1>1, Above
  <2>2. p # x
    BY <2>1, KidFacts
  <2> QED BY <2>1, <2>2
<1> HIDE DEF p, e
<1>4. r \in Trees
  BY <1>2, SetColorType
<1>5. /\ r.root = t.root /\ r.kid = t.kid /\ r.parent = t.parent
      /\ \A m \in Nodes : r.color[m] = IF m = x THEN "black" ELSE t.color[m]
  BY <1>2, SetColorIs
<1>6. Search(rk, r, L, u)
  BY <1>4, <1>5, SearchColor
<1>7. IsBlack(r, x) /\ \A m \in Nodes : m # x => (IsRed(r, m) <=> IsRed(t, m))
  BY <1>2, <1>5 DEF IsRed, IsBlack
<1> DEFINE g == [h EXCEPT ![x] = h[x] + 1]
<1>8. h \in [Nodes -> Nat \ {0}] /\ h[Nil] = 1 /\ \A n \in L : HeightAt(t, h, p, e, n)
  BY <1>1 DEF Heights
<1>9. /\ g \in [Nodes -> Nat \ {0}] /\ g[x] = h[x] + 1 /\ g[Nil] = 1 /\ h[x] \in Nat
      /\ \A n \in Nodes : n # x => g[n] = h[n]
  <2>1. h[x] + 1 \in Nat \ {0} /\ h[x] \in Nat
    BY <1>2, <1>8
  <2> QED BY <1>1, <1>2, <1>8, <2>1
<1> HIDE DEF g
<1>10. ASSUME NEW n \in L PROVE HeightAt(r, g, NULL, "left", n)
  <2> SUFFICES ASSUME NEW d \in Sides
               PROVE  g[n] = g[r.kid[n][d]] + One(n = NULL /\ d = "left") + One(IsBlack(r, n))
    BY DEF HeightAt
  <2>1. h[n] = h[t.kid[n][d]] + One(n = p /\ d = e) + One(IsBlack(t, n))
    BY <1>8 DEF HeightAt
  <2>2. n \in Nodes /\ t.kid[n][d] \in Nodes /\ t.kid[n][d] # n /\ h[t.kid[n][d]] \in Nat
        /\ h[n] \in Nat /\ One(IsBlack(t, n)) \in Nat
    BY <1>8, KidFacts, Facts DEF One
  <2>3. One(n = NULL /\ d = "left") = 0
    BY <1>2 DEF One
  <2>4. CASE n = x
    <3>1. One(n = p /\ d = e) = 0 /\ One(IsBlack(t, n)) = 0 /\ One(IsBlack(r, n)) = 1
      BY <1>1, <1>3, <1>7, <2>4 DEF One, IsBlack
    <3>2. g[r.kid[n][d]] = h[t.kid[n][d]] /\ g[n] = h[n] + 1
      BY <1>5, <1>9, <2>2, <2>4
    <3>3. h[n] + 1 = h[t.kid[n][d]] + 0 + 1
      BY <2>1, <2>2, <3>1
    <3> QED BY <2>3, <3>1, <3>2, <3>3
  <2>5. CASE n # x
    <3>1. g[n] = h[n] /\ One(IsBlack(r, n)) = One(IsBlack(t, n))
      BY <1>7, <1>9, <2>2, <2>5 DEF One, IsBlack
    <3>2. CASE t.kid[n][d] = x
      <4>1. One(n = p /\ d = e) = 1
        BY <1>3, <3>2 DEF One
      <4>2. g[r.kid[n][d]] = h[t.kid[n][d]] + 1
        BY <1>5, <1>9, <3>2
      <4>3. h[n] = (h[t.kid[n][d]] + 1) + 0 + One(IsBlack(t, n))
        BY <2>1, <2>2, <4>1
      <4> QED BY <2>3, <3>1, <4>2, <4>3
    <3>3. CASE t.kid[n][d] # x
      <4>1. One(n = p /\ d = e) = 0
        BY <1>3, <3>3 DEF One
      <4>2. g[r.kid[n][d]] = h[t.kid[n][d]]
        BY <1>5, <1>9, <2>2, <3>3
      <4> QED BY <2>1, <2>3, <3>1, <4>1, <4>2
    <3> QED BY <3>2, <3>3
  <2> QED BY <2>4, <2>5
<1>11. Heights(r, L, g, NULL, "left")
  BY <1>9, <1>10 DEF Heights
<1>12. ASSUME NEW n \in L, NEW d \in Sides, IsRed(r, n), IsRed(r, r.kid[n][d]) PROVE FALSE
  <2>1. n \in Nodes /\ t.kid[n][d] \in Nodes
    BY KidFacts, Facts
  <2>2. n # x /\ t.kid[n][d] # x
    BY <1>5, <1>7, <1>12 DEF IsBlack
  <2> QED BY <1>1, <1>5, <1>7, <1>12, <2>1, <2>2
<1>13. IsBlack(r, Nil) /\ IsBlack(r, r.root)
  BY <1>1, <1>2, <1>5, <1>7 DEF IsBlack
<1>14. Balance(r, L, g)
  BY <1>11, <1>12, <1>13 DEF Balance
<1> QED BY <1>6, <1>14 DEF SortedTree

\* The loop of rbtree_delete_fixup ends with a tree that needs x to be black
\* and no more.
THEOREM DeleteFixEnds ==
  ASSUME NEW rk \in Rankings, NEW t, NEW L, NEW x, NEW root, DeleteTree(rk, t, L, x, root),
         ~DeleteFixGoesOn(t, x, root)
  PROVE  SortedTree(rk, SetColor(t, x, "black"), L)
<1>1. PICK u, h : Search(rk, t, L, u) /\ Deleting(t, L, h, x, root)
  BY DEF DeleteTree
<1> DEFINE r == SetColor(t, x, "black")
<1>r. r = SetColor(t, x, "black")
  OBVIOUS
<1> HIDE DEF r
<1>2. CASE x = root /\ x \in L \cup {Nil} /\ IsBlack(t, x) /\ Balance(t, L, h)
  <2>1. t \in Trees /\ x \in Nodes
    BY <1>1, <1>2, Facts
  <2>2. t.color[x] = "black"
    BY <1>2, <2>1 DEF Trees, IsBlack, IsRed
  <2>3. [t.color EXCEPT ![x] = "black"] = t.color
    BY <2>1, <2>2 DEF Trees
  <2>4. r = t
    BY <1>r, <2>1, <2>3 DEF SetColor, Trees
  <2> QED BY <1>1, <1>2, <1>r, <2>4 DEF SortedTree
<1>3. CASE Paintable(t, L, h, x)
  <2>1. CASE x = t.root
    <3>1. t.parent[x] = Nil /\ Nil \notin L /\ NULL \notin L
      BY <1>1, <1>3, <2>1, NodeFacts, Facts DEF Paintable
    <3>2. Heights(t, L, h, NULL, "left")
      BY <1>3, <3>1, NoExtra DEF Paintable
    <3>3. Rootless(t, L, h)
      <4>1. ASSUME NEW n \in L, NEW d \in Sides, IsRed(t, n), IsRed(t, t.kid[n][d]) PROVE n = t.root
        <5>1. x \in {n, t.kid[n][d]}
          BY <1>3, <4>1 DEF Paintable
        <5>2. t.kid[n][d] # Nil
          BY <1>3, <4>1 DEF Paintable, IsBlack
        <5>3. t.kid[n][d] # t.root
          BY <1>1, <5>2, KidFacts
        <5> QED BY <2>1, <5>1, <5>3
      <4> QED BY <1>3, <3>2, <4>1 DEF Rootless, Paintable
    <3>4. SortedTree(rk, r, L)
      BY <1>1, <1>r, <2>1, <3>3, RootHeight
    <3> QED BY <1>r, <3>4
  <2>2. CASE x # t.root
    <3>1. SortedTree(rk, r, L)
      BY <1>1, <1>3, <1>r, <2>2, Paint
    <3> QED BY <1>r, <3>1
  <2> QED BY <2>1, <2>2
<1>4. CASE \E e : Lacking(t, L, h, x, t.parent[x], e) /\ root = t.root /\ root \in L /\ x # root
  BY <1>4 DEF DeleteFixGoesOn, Lacking
<1> QED BY <1>1, <1>2, <1>3, <1>4 DEF Deleting
=============================================================================
