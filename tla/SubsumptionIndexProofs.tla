------------------------ MODULE SubsumptionIndexProofs ------------------------
(***************************************************************************)
(* Theorems about SubsumptionIndex, for every set of propositions and      *)
(* every set of clauses: the trie keeps its shape, no walk steps onto      *)
(* deleted memory, and the walks find what a set with the two subsumption  *)
(* tests would find.                                                       *)
(***************************************************************************)
EXTENDS SubsumptionIndex, OrderLemmas

(***************************************************************************)
(* The order of the keys.                                                  *)
(***************************************************************************)
\* The index keys are strictly and totally ordered.
LEMMA BeforeOrder ==
  ASSUME NEW i \in AllKeys, NEW j \in AllKeys, NEW k \in AllKeys
  PROVE  /\ ~ before(i, i)
         /\ before(i, j) /\ before(j, k) => before(i, k)
         /\ i = j \/ before(i, j) \/ before(j, i)
         /\ before(i, j) => ~ before(j, i)
<1>0. \A x \in AllKeys : x = <<x[1], x[2]>> /\ x[1] \in Prop /\ x[2] \in BOOLEAN
    BY DEF AllKeys
<1>1. \A x \in AllKeys : x = <<x[1], x[2]>> /\ x[1] \in Nat /\ x[2] \in BOOLEAN
    BY <1>0, PropAssumption
<1>2. \A x, y \in AllKeys : before(x, y) <=> (x[1] < y[1] \/ (x[1] = y[1] /\ x[2] = FALSE /\ y[2] = TRUE))
    BY <1>1 DEF before, KeyLess
<1>3. /\ ~ before(i, i)
      /\ before(i, j) /\ before(j, k) => before(i, k)
      /\ before(i, j) => ~ before(j, i)
    BY <1>1, <1>2
<1>4. i = j \/ before(i, j) \/ before(j, i)
    BY <1>1, <1>2
<1> QED BY <1>3, <1>4

\* A finite set of keys has a greatest one: the key with the fewest above it.
LEMMA GreatestOf ==
  ASSUME NEW K \in SUBSET AllKeys, IsFiniteSet(K), K # {}
  PROVE  greatest(K) \in K /\ \A j \in K \ {greatest(K)} : before(j, greatest(K))
<1> DEFINE above(k) == {j \in K : before(k, j)}
<1> DEFINE T == {Cardinality(above(k)) : k \in K}
<1>1. \A k \in K : IsFiniteSet(above(k)) /\ Cardinality(above(k)) \in Nat
    BY FS_Subset, FS_CardinalityType
<1>2. T \in SUBSET Nat /\ T # {}
    BY <1>1
<1>3. PICK n \in T : \A m \in T : n <= m
    BY <1>2, NatMinimum
<1>4. PICK k \in K : n = Cardinality(above(k))
    BY DEF T
<1>5. ASSUME NEW j \in K, before(k, j)
      PROVE  FALSE
    <2>1. above(j) \subseteq above(k) /\ j \in above(k) /\ j \notin above(j)
        BY <1>5, BeforeOrder
    <2>2. Cardinality(above(j)) <= Cardinality(above(k)) /\ Cardinality(above(j)) # Cardinality(above(k))
        BY <1>1, <2>1, FS_Subset
    <2>3. Cardinality(above(k)) <= Cardinality(above(j))
        BY <1>3, <1>4 DEF T
    <2> HIDE DEF above
    <2> QED BY <1>1, <2>2, <2>3
<1>6. \A j \in K \ {k} : before(j, k)
    BY <1>5, BeforeOrder
<1>7. \E i \in K : \A j \in K \ {i} : before(j, i)
    BY <1>6
<1> QED BY <1>7 DEF greatest

\* ... and a least one.
LEMMA LeastOf ==
  ASSUME NEW K \in SUBSET AllKeys, IsFiniteSet(K), K # {}
  PROVE  least(K) \in K /\ \A j \in K \ {least(K)} : before(least(K), j)
<1> DEFINE below(k) == {j \in K : before(j, k)}
<1> DEFINE T == {Cardinality(below(k)) : k \in K}
<1>1. \A k \in K : IsFiniteSet(below(k)) /\ Cardinality(below(k)) \in Nat
    BY FS_Subset, FS_CardinalityType
<1>2. T \in SUBSET Nat /\ T # {}
    BY <1>1
<1>3. PICK n \in T : \A m \in T : n <= m
    BY <1>2, NatMinimum
<1>4. PICK k \in K : n = Cardinality(below(k))
    BY DEF T
<1>5. ASSUME NEW j \in K, before(j, k)
      PROVE  FALSE
    <2>1. below(j) \subseteq below(k) /\ j \in below(k) /\ j \notin below(j)
        BY <1>5, BeforeOrder
    <2>2. Cardinality(below(j)) <= Cardinality(below(k)) /\ Cardinality(below(j)) # Cardinality(below(k))
        BY <1>1, <2>1, FS_Subset
    <2>3. Cardinality(below(k)) <= Cardinality(below(j))
        BY <1>3, <1>4 DEF T
    <2> HIDE DEF below
    <2> QED BY <1>1, <2>2, <2>3
<1>6. \A j \in K \ {k} : before(k, j)
    BY <1>5, BeforeOrder
<1>7. \E i \in K : \A j \in K \ {i} : before(i, j)
    BY <1>6
<1> QED BY <1>7 DEF least

(***************************************************************************)
(* Nodes as sets of keys.  kids(N, x) is next(x) in a trie with nodes N.   *)
(***************************************************************************)
kids(N, x) == {k \in AllKeys : k \notin x /\ Under(x, x \cup {k}) /\ x \cup {k} \in N}
Closed(N)  == \A z \in N : \A y \in SUBSET z : Under(y, z) => y \in N
grown(N, y) == N \cup {y}
cut(N, y)   == {z \in N : ~ Under(y, z)}
FiniteNodes(N) == \A z \in N : z \in SUBSET AllKeys /\ IsFiniteSet(z)

\* A node has one parent and is reached by one key.
LEMMA OneParent ==
  ASSUME NEW x \in SUBSET AllKeys, NEW z \in SUBSET AllKeys,
         NEW k \in AllKeys, NEW j \in AllKeys,
         k \notin x, j \notin z, Under(x, x \cup {k}), Under(z, z \cup {j}),
         x \cup {k} = z \cup {j}
  PROVE  x = z /\ k = j
<1>1. \A i \in x : before(k, i)
    BY DEF Under
<1>2. \A i \in z : before(j, i)
    BY DEF Under
<1>3. ASSUME k # j PROVE FALSE
    <2>1. k \in z /\ j \in x
        BY <1>3
    <2>2. before(j, k) /\ before(k, j)
        BY <2>1, <1>1, <1>2
    <2> QED BY <2>2, BeforeOrder
<1> QED BY <1>3

\* From x down to a node z under it the first key is the greatest of z \ x.
LEMMA FirstKey ==
  ASSUME NEW x \in SUBSET AllKeys, NEW z \in SUBSET AllKeys, IsFiniteSet(z),
         Under(x, z), x # z
  PROVE  LET k == greatest(z \ x)
         IN  /\ k \in z \ x
             /\ \A j \in z \ x : j = k \/ before(j, k)
             /\ Under(x, x \cup {k})
             /\ Under(x \cup {k}, z)
             /\ z \ (x \cup {k}) = {j \in z \ x : before(j, k)}
<1> DEFINE k == greatest(z \ x)
<1>1. x \subseteq z /\ \A i \in z \ x, j \in x : before(i, j)
    BY DEF Under
<1>2. IsFiniteSet(z \ x) /\ z \ x # {} /\ z \ x \in SUBSET AllKeys
    BY <1>1, FS_Subset
<1>3. k \in z \ x /\ \A j \in (z \ x) \ {k} : before(j, k)
    BY <1>2, GreatestOf
<1>4. Under(x, x \cup {k})
    BY <1>1, <1>3 DEF Under
<1>5. Under(x \cup {k}, z)
    BY <1>1, <1>3 DEF Under
<1>6. ASSUME NEW j \in z \ x, before(j, k) PROVE j # k
    BY <1>6, <1>2, <1>3, BeforeOrder
<1> HIDE DEF k
<1>7. z \ (x \cup {k}) = {j \in z \ x : before(j, k)}
    BY <1>3, <1>6
<1> QED BY <1>3, <1>4, <1>5, <1>7 DEF k

\* A finite trie has finitely many links at each node.
LEMMA KidsFinite ==
  ASSUME NEW N, IsFiniteSet(N), NEW x
  PROVE  IsFiniteSet(kids(N, x)) /\ Cardinality(kids(N, x)) \in Nat
<1> DEFINE f == [k \in kids(N, x) |-> x \cup {k}]
<1>1. f \in Injection(kids(N, x), N)
    <2>1. f \in [kids(N, x) -> N]
        BY DEF kids
    <2>2. ASSUME NEW a \in kids(N, x), NEW b \in kids(N, x), f[a] = f[b]
          PROVE  a = b
        <3>1. a \notin x /\ b \notin x /\ x \cup {a} = x \cup {b}
            BY <2>2 DEF kids
        <3> QED BY <3>1
    <2> HIDE DEF f
    <2> QED BY <2>1, <2>2 DEF Injection, IsInjective
<1> HIDE DEF f
<1> QED BY <1>1, FS_Injection, FS_CardinalityType

\* A new node, put under an old one, is a leaf and changes no other node's
\* links.
LEMMA KidsAdd ==
  ASSUME NEW N, Closed(N), FiniteNodes(N),
         NEW x \in N, NEW k \in AllKeys, k \notin x, Under(x, x \cup {k}),
         x \cup {k} \notin N
  PROVE  /\ Closed(grown(N, x \cup {k})) /\ FiniteNodes(grown(N, x \cup {k}))
         /\ k \notin kids(N, x) /\ kids(grown(N, x \cup {k}), x) = kids(N, x) \cup {k}
         /\ kids(grown(N, x \cup {k}), x \cup {k}) = {}
         /\ \A z \in N \ {x} : kids(grown(N, x \cup {k}), z) = kids(N, z)
<1> DEFINE M == N \cup {x \cup {k}}
<1>0. x \in SUBSET AllKeys /\ IsFiniteSet(x) /\ \A z \in N : z \in SUBSET AllKeys
    BY DEF FiniteNodes
<1>1. FiniteNodes(M)
    <2>1. IsFiniteSet(x \cup {k})
        BY <1>0, FS_AddElement
    <2> QED BY <1>0, <2>1 DEF FiniteNodes
<1>2. Closed(M)
    <2> SUFFICES ASSUME NEW y \in SUBSET (x \cup {k}), Under(y, x \cup {k}), y # x \cup {k}
                 PROVE  y \in N
        BY DEF Closed
    <2>1. \A i \in x : before(k, i)
        BY DEF Under
    <2>2. k \notin y
        <3> SUFFICES ASSUME k \in y PROVE FALSE
            OBVIOUS
        <3>1. PICK i \in x : i \notin y
            OBVIOUS
        <3>2. before(i, k) /\ before(k, i)
            BY <3>1, <2>1 DEF Under
        <3> QED BY <3>2, <1>0, BeforeOrder
    <2>3. y \in SUBSET x /\ Under(y, x)
        BY <2>2 DEF Under
    <2> QED BY <2>3 DEF Closed
<1>3. k \notin kids(N, x) /\ kids(M, x) = kids(N, x) \cup {k}
    <2>1. ASSUME NEW j \in kids(M, x), j # k PROVE j \in kids(N, x)
        <3>1. x \cup {j} # x \cup {k}
            BY <2>1 DEF kids
        <3> QED BY <3>1 DEF kids
    <2>2. kids(N, x) \subseteq kids(M, x) /\ k \in kids(M, x) /\ k \notin kids(N, x)
        BY DEF kids
    <2> QED BY <2>1, <2>2
<1>4. kids(M, x \cup {k}) = {}
    <2> SUFFICES ASSUME NEW j \in kids(M, x \cup {k}) PROVE FALSE
        OBVIOUS
    <2> DEFINE z == (x \cup {k}) \cup {j}
    <2>1. j \notin x \cup {k} /\ z \in M /\ Under(x \cup {k}, z)
        BY DEF kids
    <2>2. z \in N
        BY <2>1
    <2>3. x \cup {k} \in SUBSET z
        OBVIOUS
    <2> HIDE DEF z
    <2> QED BY <2>1, <2>2, <2>3 DEF Closed
<1>5. ASSUME NEW z \in N \ {x} PROVE kids(M, z) = kids(N, z)
    <2>1. ASSUME NEW j \in kids(M, z), z \cup {j} = x \cup {k} PROVE FALSE
        <3>1. j \in AllKeys /\ j \notin z /\ Under(z, z \cup {j})
            BY DEF kids
        <3> QED BY <3>1, <1>0, <2>1, OneParent
    <2>2. kids(N, z) \subseteq kids(M, z)
        BY DEF kids
    <2>3. kids(M, z) \subseteq kids(N, z)
        BY <2>1 DEF kids
    <2> QED BY <2>2, <2>3
<1>6. M = grown(N, x \cup {k})
    BY DEF grown
<1> HIDE DEF M
<1> QED BY <1>1, <1>2, <1>3, <1>4, <1>5, <1>6

\* A node without links has nothing under it, so deleting it with all that
\* lies under it deletes it alone, and changes no node's links but its
\* parent's.
LEMMA KidsDelete ==
  ASSUME NEW N, Closed(N), FiniteNodes(N),
         NEW x \in N, NEW k \in kids(N, x), kids(N, x \cup {k}) = {}
  PROVE  /\ cut(N, x \cup {k}) = N \ {x \cup {k}}
         /\ Closed(cut(N, x \cup {k})) /\ FiniteNodes(cut(N, x \cup {k}))
         /\ kids(cut(N, x \cup {k}), x) = kids(N, x) \ {k}
         /\ \A z \in cut(N, x \cup {k}) \ {x} : kids(cut(N, x \cup {k}), z) = kids(N, z)
<1> DEFINE M == {z \in N : ~ Under(x \cup {k}, z)}
<1> DEFINE y == x \cup {k}
<1>0. /\ x \in SUBSET AllKeys /\ k \in AllKeys /\ k \notin x /\ y \in N /\ Under(x, y)
      /\ \A z \in N : z \in SUBSET AllKeys /\ IsFiniteSet(z)
    BY DEF FiniteNodes, kids
<1>1. ASSUME NEW z \in N, Under(y, z), z # y PROVE FALSE
    <2> DEFINE j == greatest(z \ y)
    <2>1. j \in z \ y /\ Under(y, y \cup {j}) /\ Under(y \cup {j}, z)
        BY <1>0, <1>1, FirstKey, Zenon
    <2> HIDE DEF j
    <2>2. y \cup {j} \in SUBSET z
        BY <2>1 DEF Under
    <2>3. y \cup {j} \in N
        BY <2>1, <2>2 DEF Closed
    <2>4. j \in kids(N, y)
        BY <1>0, <2>1, <2>3 DEF kids
    <2> QED BY <2>4
<1>2. Under(y, y)
    BY DEF Under
<1>3. M = N \ {y}
    BY <1>1, <1>2
<1>4. FiniteNodes(M)
    BY <1>3 DEF FiniteNodes
<1>5. Closed(M)
    <2> SUFFICES ASSUME NEW z \in M, NEW w \in SUBSET z, Under(w, z)
                 PROVE  w \in M
        BY DEF Closed
    <2>1. w \in N
        BY <1>3 DEF Closed
    <2>2. w # y
        BY <1>1, <1>3
    <2> QED BY <1>3, <2>1, <2>2
<1>6. kids(M, x) = kids(N, x) \ {k}
    <2>1. ASSUME NEW j \in kids(N, x), j # k PROVE j \in kids(M, x)
        <3>1. x \cup {j} # y
            BY <2>1 DEF kids
        <3> QED BY <3>1, <1>3 DEF kids
    <2>2. kids(M, x) \subseteq kids(N, x) /\ k \notin kids(M, x)
        BY <1>3 DEF kids
    <2> QED BY <2>1, <2>2
<1>7. ASSUME NEW z \in M \ {x} PROVE kids(M, z) = kids(N, z)
    <2>1. ASSUME NEW j \in kids(N, z), z \cup {j} = y PROVE FALSE
        <3>1. j \in AllKeys /\ j \notin z /\ Under(z, z \cup {j}) /\ z \in SUBSET AllKeys
            BY <1>0, <1>3 DEF kids
        <3> QED BY <3>1, <1>0, <2>1, OneParent
    <2>2. kids(M, z) \subseteq kids(N, z)
        BY <1>3 DEF kids
    <2>3. kids(N, z) \subseteq kids(M, z)
        BY <1>3, <2>1 DEF kids
    <2> QED BY <2>2, <2>3
<1>8. M = cut(N, y)
    BY DEF cut
<1> HIDE DEF M
<1> QED BY <1>3, <1>4, <1>5, <1>6, <1>7, <1>8

(***************************************************************************)
(* The invariant: the trie, ...                                            *)
(***************************************************************************)
Shape(t) ==
  /\ IsFiniteSet(DOMAIN t) /\ FiniteNodes(DOMAIN t) /\ Closed(DOMAIN t)
  /\ \A x \in DOMAIN t :
       /\ t[x] \in [data : SUBSET Items, branches : Nat]
       /\ t[x].branches = Cardinality(kids(DOMAIN t, x))
       /\ \A c \in t[x].data : x = Keys(Path(c.lits))

(***************************************************************************)
(* ... the recursion: its frames stand at nodes of the trie, one under the *)
(* other, each called through the link its caller stands at, ...           *)
(***************************************************************************)
FrameOK(N, f) ==
  /\ f \in [node : SUBSET AllKeys, rest : SUBSET AllKeys,
            at : AllKeys \cup {End}, entered : BOOLEAN]
  /\ f.node \in N
  /\ IsFiniteSet(f.rest)
  /\ \A k \in f.rest, j \in f.node : before(k, j)
  /\ f.at \in kids(N, f.node) \cup {End}
  /\ ~ f.entered => f.at = End

StackOK(N, s) ==
  /\ s \in Seq([node : SUBSET AllKeys, rest : SUBSET AllKeys,
               at : AllKeys \cup {End}, entered : BOOLEAN])
  /\ \A i \in 1 .. Len(s) : FrameOK(N, s[i])
  /\ \A i, j \in 1 .. Len(s) :
       i < j => /\ s[i].entered /\ s[i].at \in kids(N, s[i].node)
                /\ s[i].node \cup {s[i].at} \subseteq s[j].node
  /\ \A i \in 1 .. Len(s) - 1 : s[i + 1].node = s[i].node \cup {s[i].at}

\* The end of a map is no key.
LEMMA EndIsNoKey == End \notin AllKeys
<1>1. \A x \in AllKeys : x = <<x[1], x[2]>>
    BY DEF AllKeys
<1> QED BY <1>1 DEF End

\* link keeps the trie in shape.
LEMMA LinkShape ==
  ASSUME Shape(trie), NEW x \in Nodes, NEW k \in AllKeys, k \notin x,
         Under(x, x \cup {k})
  PROVE  /\ Shape(link(x, k))
         /\ DOMAIN link(x, k) = Nodes \cup {x \cup {k}}
         /\ \A z \in Nodes : link(x, k)[z].data = trie[z].data
         /\ \A z \in Nodes : z # x => link(x, k)[z] = trie[z]
         /\ x \cup {k} \notin Nodes => link(x, k)[x \cup {k}] = Node
         /\ link(x, k)[x].branches # 0
<1> DEFINE y == x \cup {k}
<1> DEFINE t == link(x, k)
<1>0. /\ Closed(Nodes) /\ FiniteNodes(Nodes) /\ IsFiniteSet(Nodes)
      /\ \A z \in Nodes : /\ trie[z] \in [data : SUBSET Items, branches : Nat]
                          /\ trie[z].branches = Cardinality(kids(Nodes, z))
                          /\ \A c \in trie[z].data : z = Keys(Path(c.lits))
    BY DEF Shape, Nodes
<1>1. CASE y \in Nodes
    <2>1. t = trie
        BY <1>1 DEF link
    <2>2. k \in kids(Nodes, x)
        BY <1>1 DEF kids
    <2>3. IsFiniteSet(kids(Nodes, x))
        BY <1>0, KidsFinite
    <2>4. Cardinality(kids(Nodes, x)) # 0
        BY <2>2, <2>3, FS_EmptySet
    <2> HIDE DEF t, y
    <2> QED BY <1>0, <1>1, <2>1, <2>4 DEF Nodes, t, y
<1>2. CASE y \notin Nodes
    <2> DEFINE M == grown(Nodes, y)
    <2>1. /\ Closed(M) /\ FiniteNodes(M)
          /\ k \notin kids(Nodes, x) /\ kids(M, x) = kids(Nodes, x) \cup {k}
          /\ kids(M, y) = {}
          /\ \A z \in Nodes \ {x} : kids(M, z) = kids(Nodes, z)
        <3>1. Closed(Nodes) /\ FiniteNodes(Nodes) /\ x \cup {k} \notin Nodes
            BY <1>0, <1>2
        <3> QED BY <3>1, KidsAdd
    <2>2. IsFiniteSet(M)
        BY <1>0, FS_AddElement DEF grown
    <2>3. x # y
        OBVIOUS
    <2> HIDE DEF y
    <2>4. /\ DOMAIN t = M
          /\ t[y] = Node
          /\ t[x] = [trie[x] EXCEPT !.branches = @ + 1]
          /\ \A z \in Nodes : z # x => t[z] = trie[z]
        BY <1>2, <2>3 DEF link, grown, y
    <2> HIDE DEF M, t
    <2>5. Node = [data |-> {}, branches |-> 0]
        BY DEF Node
    <2>6. IsFiniteSet(kids(Nodes, x)) /\ Cardinality(kids(Nodes, x)) \in Nat
        BY <1>0, KidsFinite
    <2>7. Cardinality(kids(M, x)) = Cardinality(kids(Nodes, x)) + 1
        BY <2>1, <2>6, FS_AddElement
    <2>8. Cardinality(kids(M, y)) = 0
        BY <2>1, FS_EmptySet
    <2>9. /\ t[x] \in [data : SUBSET Items, branches : Nat]
          /\ t[x].branches = trie[x].branches + 1 /\ t[x].data = trie[x].data
        BY <1>0, <2>4
    <2>10. ASSUME NEW z \in M
           PROVE  /\ t[z] \in [data : SUBSET Items, branches : Nat]
                  /\ t[z].branches = Cardinality(kids(M, z))
                  /\ \A c \in t[z].data : z = Keys(Path(c.lits))
        <3>1. CASE z = x
            BY <3>1, <1>0, <2>7, <2>9
        <3>2. CASE z = y
            BY <3>2, <2>4, <2>5, <2>8
        <3>3. CASE z # x /\ z # y
            BY <3>3, <1>0, <2>1, <2>4 DEF M, grown
        <3> QED BY <3>1, <3>2, <3>3
    <2>11. Shape(t)
        BY <2>1, <2>2, <2>4, <2>10 DEF Shape
    <2>12. \A z \in Nodes : t[z].data = trie[z].data
        BY <2>4, <2>9
    <2>13. t[x].branches # 0
        BY <1>0, <2>9
    <2> QED BY <2>4, <2>11, <2>12, <2>13 DEF M, grown, t, y
<1> QED BY <1>1, <1>2

\* prune keeps the trie in shape; it deletes the node it was called for and
\* no other.
LEMMA PruneShape ==
  ASSUME Shape(trie), NEW x \in Nodes, NEW k \in kids(Nodes, x), dead(x \cup {k})
  PROVE  LET t == prune(x, x \cup {k})
         IN  /\ Shape(t)
             /\ DOMAIN t = Nodes \ {x \cup {k}}
             /\ kids(DOMAIN t, x) = kids(Nodes, x) \ {k}
             /\ \A z \in DOMAIN t \ {x} : kids(DOMAIN t, z) = kids(Nodes, z)
             /\ \A z \in DOMAIN t : t[z].data = trie[z].data
             /\ \A z \in DOMAIN t \ {x} : t[z] = trie[z]
<1> DEFINE y == x \cup {k}
<1> DEFINE t == prune(x, y)
<1> DEFINE M == cut(Nodes, y)
<1>0. /\ Closed(Nodes) /\ FiniteNodes(Nodes) /\ IsFiniteSet(Nodes)
      /\ \A z \in Nodes : /\ trie[z] \in [data : SUBSET Items, branches : Nat]
                          /\ trie[z].branches = Cardinality(kids(Nodes, z))
                          /\ \A c \in trie[z].data : z = Keys(Path(c.lits))
    BY DEF Shape, Nodes
<1>1. y \in Nodes /\ k \notin x
    BY DEF kids
<1>2. kids(Nodes, y) = {}
    <2>1. IsFiniteSet(kids(Nodes, y))
        BY <1>0, KidsFinite
    <2>2. Cardinality(kids(Nodes, y)) = 0
        BY <1>0, <1>1 DEF dead
    <2> QED BY <2>1, <2>2, FS_EmptySet
<1>3. /\ M = Nodes \ {y}
      /\ Closed(M) /\ FiniteNodes(M)
      /\ kids(M, x) = kids(Nodes, x) \ {k}
      /\ \A z \in M \ {x} : kids(M, z) = kids(Nodes, z)
    <2>1. Closed(Nodes) /\ FiniteNodes(Nodes) /\ kids(Nodes, x \cup {k}) = {}
        BY <1>0, <1>2
    <2>2. M = Nodes \ {y}
        BY <2>1, KidsDelete
    <2>3. Closed(M) /\ FiniteNodes(M)
        BY <2>1, KidsDelete
    <2>4. kids(M, x) = kids(Nodes, x) \ {k}
        BY <2>1, KidsDelete
    <2>5. \A z \in M \ {x} : kids(M, z) = kids(Nodes, z)
        BY <2>1, KidsDelete
    <2> QED BY <2>2, <2>3, <2>4, <2>5
<1>4. IsFiniteSet(M)
    <2>1. IsFiniteSet(Nodes \ {y})
        BY <1>0, FS_RemoveElement
    <2> QED BY <1>3, <2>1
<1>5. x # y
    BY <1>1
<1>6. dead(y)
    OBVIOUS
<1> HIDE DEF y
<1>7. /\ DOMAIN t = M
      /\ t[x] = [trie[x] EXCEPT !.branches = @ - 1]
      /\ \A z \in M : z # x => t[z] = trie[z]
    BY <1>3, <1>5, <1>6 DEF prune, cut
<1> HIDE DEF M, t
<1>8. IsFiniteSet(kids(Nodes, x)) /\ Cardinality(kids(Nodes, x)) \in Nat
    BY <1>0, KidsFinite
<1>9. Cardinality(kids(M, x)) = Cardinality(kids(Nodes, x)) - 1 /\ Cardinality(kids(M, x)) \in Nat
    BY <1>3, <1>8, <1>4, FS_RemoveElement, KidsFinite
<1>10. /\ t[x] \in [data : SUBSET Items, branches : Nat]
       /\ t[x].branches = trie[x].branches - 1 /\ t[x].data = trie[x].data
    BY <1>0, <1>7, <1>9
<1>11. ASSUME NEW z \in M
       PROVE  /\ t[z] \in [data : SUBSET Items, branches : Nat]
              /\ t[z].branches = Cardinality(kids(M, z))
              /\ \A c \in t[z].data : z = Keys(Path(c.lits))
              /\ t[z].data = trie[z].data
    <2>1. CASE z = x
        BY <2>1, <1>0, <1>9, <1>10
    <2>2. CASE z # x
        BY <2>2, <1>0, <1>3, <1>7
    <2> QED BY <2>1, <2>2
<1>12. Shape(t)
    BY <1>3, <1>4, <1>7, <1>11 DEF Shape
<1> QED BY <1>3, <1>7, <1>11, <1>12 DEF y, t

AFrame == [node : SUBSET AllKeys, rest : SUBSET AllKeys,
           at : AllKeys \cup {End}, entered : BOOLEAN]

\* A function from an initial part of the naturals is a sequence.
LEMMA SeqFromFunction ==
  ASSUME NEW S, NEW n \in Nat, NEW f \in [1 .. n -> S]
  PROVE  f \in Seq(S) /\ Len(f) = n /\ (n # 0 => f # <<>>)
<1>1. f \in Seq(S) /\ Len(f) = n
    OBVIOUS
<1>2. f = <<>> => Len(f) = 0
    OBVIOUS
<1> QED BY <1>1, <1>2

\* The top frame moves on in its loop.
LEMMA ReplaceTop ==
  ASSUME NEW N, NEW s, StackOK(N, s), s # <<>>,
         NEW g, FrameOK(N, g), g.node = s[Len(s)].node,
         NEW n \in Nat, n = Len(s),
         NEW u, u = [i \in 1 .. n |-> IF i = n THEN g ELSE s[i]]
  PROVE  /\ StackOK(N, u) /\ u # <<>> /\ Len(u) = Len(s) /\ u[Len(u)] = g
         /\ \A i \in 1 .. Len(s) - 1 : u[i] = s[i]
         /\ \A i \in 1 .. Len(s) : u[i].node = s[i].node
<1>0. s \in Seq(AFrame) /\ g \in AFrame
    BY DEF StackOK, FrameOK, AFrame
<1>1. Len(s) \in Nat /\ Len(s) >= 1 /\ n \in 1 .. n /\ \A i \in 1 .. n : s[i] \in AFrame
    BY <1>0
<1>11. u \in [1 .. n -> AFrame] /\ \A i \in 1 .. n : u[i] = IF i = n THEN g ELSE s[i]
    BY <1>0, <1>1
<1>2. u \in Seq(AFrame) /\ Len(u) = Len(s) /\ u # <<>>
    <2>1. u \in Seq(AFrame) /\ Len(u) = n
        BY <1>11, <1>1, SeqFromFunction
    <2> QED BY <2>1, <1>1
<1>3. u[Len(u)] = g /\ \A i \in 1 .. Len(s) - 1 : u[i] = s[i]
    <2>1. \A i \in 1 .. n - 1 : i \in 1 .. n /\ i # n
        BY <1>1
    <2>2. \A i \in 1 .. n - 1 : u[i] = s[i]
        BY <2>1, <1>11
    <2>3. u[n] = g
        BY <1>1, <1>11
    <2> QED BY <2>2, <2>3, <1>1, <1>2
<1>4. \A i \in 1 .. Len(s) : u[i].node = s[i].node
    BY <1>1, <1>11
<1>5. \A i \in 1 .. Len(u) : FrameOK(N, u[i])
    <2>1. \A i \in 1 .. Len(s) : FrameOK(N, s[i])
        BY DEF StackOK
    <2> QED BY <2>1, <1>1, <1>2, <1>11
<1>6. ASSUME NEW i \in 1 .. Len(u), NEW j \in 1 .. Len(u), i < j
      PROVE  /\ u[i].entered /\ u[i].at \in kids(N, u[i].node)
             /\ u[i].node \cup {u[i].at} \subseteq u[j].node
    <2>1. i \in 1 .. Len(s) - 1 /\ j \in 1 .. Len(s)
        BY <1>1, <1>2, <1>6
    <2>2. u[i] = s[i] /\ u[j].node = s[j].node
        BY <2>1, <1>3, <1>4
    <2>3. s[i].entered /\ s[i].at \in kids(N, s[i].node) /\ s[i].node \cup {s[i].at} \subseteq s[j].node
        BY <2>1, <1>2, <1>6 DEF StackOK
    <2> QED BY <2>2, <2>3
<1>7. ASSUME NEW i \in 1 .. Len(u) - 1
      PROVE  u[i + 1].node = u[i].node \cup {u[i].at}
    <2>1. i \in 1 .. Len(s) - 1 /\ i + 1 \in 1 .. Len(s)
        BY <1>1, <1>2
    <2> QED BY <2>1, <1>3, <1>4 DEF StackOK
<1> QED BY <1>1, <1>2, <1>3, <1>4, <1>5, <1>6, <1>7 DEF StackOK, AFrame

\* A call is made through the link the top frame stands at.
LEMMA PushFrame ==
  ASSUME NEW N, NEW s, StackOK(N, s), s # <<>>, s[Len(s)].entered, s[Len(s)].at # End,
         NEW g, FrameOK(N, g), g.node = s[Len(s)].node \cup {s[Len(s)].at}
  PROVE  /\ StackOK(N, Append(s, g)) /\ Append(s, g) # <<>>
         /\ Len(Append(s, g)) = Len(s) + 1
         /\ \A i \in 1 .. Len(s) : Append(s, g)[i] = s[i]
<1> DEFINE u == Append(s, g)
<1>0. s \in Seq(AFrame) /\ g \in AFrame
    BY DEF StackOK, FrameOK, AFrame
<1>1. Len(s) \in Nat /\ Len(s) >= 1 /\ Len(u) = Len(s) + 1 /\ u \in Seq(AFrame) /\ u # <<>>
    BY <1>0
<1>2. u[Len(u)] = g /\ \A i \in 1 .. Len(s) : u[i] = s[i]
    BY <1>0, <1>1
<1> HIDE DEF u
<1>3. \A i \in 1 .. Len(u) : FrameOK(N, u[i])
    BY <1>1, <1>2 DEF StackOK
<1>4. s[Len(s)].at \in kids(N, s[Len(s)].node)
    BY <1>1 DEF StackOK, FrameOK
<1>5. ASSUME NEW i \in 1 .. Len(u), NEW j \in 1 .. Len(u), i < j
      PROVE  /\ u[i].entered /\ u[i].at \in kids(N, u[i].node)
             /\ u[i].node \cup {u[i].at} \subseteq u[j].node
    <2>1. CASE j \in 1 .. Len(s)
        <3>1. i \in 1 .. Len(s) /\ u[i] = s[i] /\ u[j] = s[j]
            BY <1>1, <1>2, <1>5, <2>1
        <3> QED BY <3>1, <2>1, <1>5 DEF StackOK
    <2>2. CASE j = Len(u) /\ i = Len(s)
        <3>1. u[i] = s[Len(s)] /\ u[j] = g
            BY <1>1, <1>2, <2>2
        <3> QED BY <3>1, <1>4
    <2>3. CASE j = Len(u) /\ i \in 1 .. Len(s) - 1
        <3>1. u[i] = s[i] /\ u[j] = g /\ i \in 1 .. Len(s) /\ i < Len(s) /\ Len(s) \in 1 .. Len(s)
            BY <1>1, <1>2, <2>3
        <3>2. s[i].entered /\ s[i].at \in kids(N, s[i].node) /\ s[i].node \cup {s[i].at} \subseteq s[Len(s)].node
            BY <3>1 DEF StackOK
        <3> QED BY <3>1, <3>2
    <2> QED BY <1>1, <1>5, <2>1, <2>2, <2>3
<1>6. ASSUME NEW i \in 1 .. Len(u) - 1
      PROVE  u[i + 1].node = u[i].node \cup {u[i].at}
    <2>1. CASE i = Len(s)
        BY <2>1, <1>1, <1>2
    <2>2. CASE i \in 1 .. Len(s) - 1
        <3>1. i + 1 \in 1 .. Len(s) /\ i \in 1 .. Len(s)
            BY <1>1, <2>2
        <3> QED BY <3>1, <2>2, <1>2 DEF StackOK
    <2> QED BY <1>1, <2>1, <2>2
<1>7. StackOK(N, u)
    BY <1>1, <1>3, <1>5, <1>6 DEF StackOK, AFrame
<1> QED BY <1>1, <1>2, <1>7 DEF u

\* The stack of n frames that is left when those above have returned into g.
backAt(s, n, g) == [i \in 1 .. n |-> IF i = n THEN g ELSE s[i]]

\* It is a stack.
LEMMA BackLength ==
  ASSUME NEW s, NEW n \in Nat, n # 0, NEW g \in AFrame,
         \A i \in 1 .. n : s[i] \in AFrame
  PROVE  /\ backAt(s, n, g) \in Seq(AFrame) /\ Len(backAt(s, n, g)) = n
         /\ backAt(s, n, g) # <<>>
<1> DEFINE u == backAt(s, n, g)
<1>1. u \in [1 .. n -> AFrame]
    BY DEF backAt
<1> HIDE DEF u
<1>2. u \in Seq(AFrame) /\ Len(u) = n /\ u # <<>>
    BY <1>1, SeqFromFunction
<1> QED BY <1>2 DEF u

\* A call returns, and its node may be gone: the frames below stand where
\* they stood.
LEMMA PopFrame ==
  ASSUME NEW N, NEW s, StackOK(N, s), Len(s) > 1,
         NEW n, n = Len(s) - 1,
         NEW M, NEW g, FrameOK(M, g), g.node = s[n].node,
         M = N \/ M = N \ {s[Len(s)].node},
         \A z \in M \ {s[n].node} : kids(M, z) = kids(N, z)
  PROVE  /\ StackOK(M, backAt(s, n, g))
         /\ \A i \in 1 .. n : /\ backAt(s, n, g)[i].node = s[i].node
                              /\ s[i].node # s[Len(s)].node
<1> DEFINE u == backAt(s, n, g)
<1>0. s \in Seq(AFrame) /\ g \in AFrame
    BY DEF StackOK, FrameOK, AFrame
<1>1. Len(s) \in Nat /\ n \in Nat /\ n >= 1 /\ n < Len(s)
    BY <1>0
<1>2. /\ \A i \in 1 .. n : u[i] \in AFrame
      /\ u[n] = g /\ \A i \in 1 .. n - 1 : u[i] = s[i]
    <2>1. \A i \in 1 .. n : s[i] \in AFrame
        BY <1>0, <1>1
    <2>2. n \in 1 .. n /\ \A i \in 1 .. n - 1 : i \in 1 .. n /\ i # n
        BY <1>1
    <2>3. \A i \in 1 .. n : u[i] = IF i = n THEN g ELSE s[i]
        BY DEF backAt
    <2>4. \A i \in 1 .. n : u[i] \in AFrame
        BY <1>0, <2>1, <2>3
    <2>5. u[n] = g
        BY <2>2, <2>3
    <2>6. \A i \in 1 .. n - 1 : u[i] = s[i]
        BY <2>2, <2>3
    <2> QED BY <2>4, <2>5, <2>6
<1>3. u \in Seq(AFrame) /\ Len(u) = n
    <2>1. \A i \in 1 .. n : s[i] \in AFrame
        BY <1>0, <1>1
    <2> HIDE DEF u
    <2> QED BY <1>0, <1>1, <2>1, BackLength DEF u
<1> HIDE DEF u
<1>4. \A i \in 1 .. n : u[i].node = s[i].node
    BY <1>1, <1>2
<1>5. ASSUME NEW i \in 1 .. n, NEW j \in 1 .. Len(s), i < j
      PROVE  /\ s[i].entered /\ s[i].at \in kids(N, s[i].node)
             /\ s[i].at \notin s[i].node
             /\ s[i].node \cup {s[i].at} \subseteq s[j].node
             /\ s[i].node # s[j].node
    <2>1. i \in 1 .. Len(s)
        BY <1>1
    <2>2. /\ s[i].entered /\ s[i].at \in kids(N, s[i].node)
          /\ s[i].node \cup {s[i].at} \subseteq s[j].node
        BY <2>1, <1>5 DEF StackOK
    <2>3. s[i].at \notin s[i].node
        BY <2>2 DEF kids
    <2> QED BY <2>2, <2>3
<1>6. ASSUME NEW i \in 1 .. n - 1
      PROVE  /\ FrameOK(M, s[i]) /\ s[i].at \in kids(M, s[i].node)
    <2>1. i \in 1 .. n /\ i \in 1 .. Len(s) /\ n \in 1 .. Len(s) /\ Len(s) \in 1 .. Len(s) /\ i < n /\ i < Len(s)
        BY <1>1
    <2>2. FrameOK(N, s[i])
        BY <2>1 DEF StackOK
    <2>3. s[i].at \in kids(N, s[i].node) /\ s[i].node # s[n].node /\ s[i].node # s[Len(s)].node
        BY <2>1, <1>5
    <2>4. s[i].node \in M /\ kids(M, s[i].node) = kids(N, s[i].node)
        BY <2>2, <2>3 DEF FrameOK
    <2> QED BY <2>2, <2>3, <2>4 DEF FrameOK
<1>7. \A i \in 1 .. n : FrameOK(M, u[i])
    BY <1>1, <1>2, <1>6
<1>8. ASSUME NEW i \in 1 .. n, NEW j \in 1 .. n, i < j
      PROVE  /\ u[i].entered /\ u[i].at \in kids(M, u[i].node)
             /\ u[i].node \cup {u[i].at} \subseteq u[j].node
    <2>1. i \in 1 .. n - 1 /\ j \in 1 .. Len(s)
        BY <1>1, <1>8
    <2>2. u[i] = s[i] /\ u[j].node = s[j].node
        BY <2>1, <1>2, <1>4
    <2> QED BY <2>1, <2>2, <1>5, <1>6, <1>8
<1>9. ASSUME NEW i \in 1 .. n - 1
      PROVE  u[i + 1].node = u[i].node \cup {u[i].at}
    <2>1. i \in 1 .. Len(s) - 1 /\ i + 1 \in 1 .. n
        BY <1>1
    <2>2. u[i] = s[i] /\ u[i + 1].node = s[i + 1].node
        BY <2>1, <1>2, <1>4
    <2> QED BY <2>1, <2>2 DEF StackOK
<1>10. \A i \in 1 .. n : s[i].node # s[Len(s)].node
    BY <1>1, <1>5
<1>11. StackOK(M, u)
    <2>1. \A i \in 1 .. Len(u) : FrameOK(M, u[i])
        BY <1>3, <1>7
    <2>2. \A i, j \in 1 .. Len(u) :
            i < j => /\ u[i].entered /\ u[i].at \in kids(M, u[i].node)
                     /\ u[i].node \cup {u[i].at} \subseteq u[j].node
        BY <1>3, <1>8
    <2>3. \A i \in 1 .. Len(u) - 1 : u[i + 1].node = u[i].node \cup {u[i].at}
        BY <1>3, <1>9
    <2> QED BY <1>3, <2>1, <2>2, <2>3 DEF StackOK, AFrame
<1> QED BY <1>3, <1>4, <1>10, <1>11 DEF u

(***************************************************************************)
(* Where the map iterators point.                                          *)
(***************************************************************************)
LEMMA LeastPosition ==
  ASSUME NEW K \in SUBSET AllKeys, IsFiniteSet(K)
  PROVE  /\ least(K) \in K \cup {End}
         /\ \A j \in K : least(K) \in K /\ (j = least(K) \/ before(least(K), j))
<1>1. CASE K = {}
    BY <1>1 DEF least
<1>2. CASE K # {}
    BY <1>2, LeastOf
<1> QED BY <1>1, <1>2

\* The greatest key of a finite set, or End.
LEMMA GreatestPosition ==
  ASSUME NEW K \in SUBSET AllKeys, IsFiniteSet(K)
  PROVE  /\ greatest(K) \in K \cup {End}
         /\ \A j \in K : greatest(K) \in K /\ (j = greatest(K) \/ before(j, greatest(K)))
<1>1. CASE K = {}
    BY <1>1 DEF greatest
<1>2. CASE K # {}
    BY <1>2, GreatestOf
<1> QED BY <1>1, <1>2

\* The links of a node: the map of the code.
LEMMA NextIsKids ==
  ASSUME Shape(trie), NEW x \in Nodes
  PROVE  /\ next(x) = kids(Nodes, x)
         /\ next(x) \in SUBSET AllKeys /\ IsFiniteSet(next(x))
         /\ \A k \in next(x) : k \in AllKeys /\ k \notin x /\ Under(x, x \cup {k}) /\ x \cup {k} \in Nodes
<1>1. next(x) = kids(Nodes, x)
    BY DEF next, kids
<1>2. IsFiniteSet(Nodes)
    BY DEF Shape, Nodes
<1> QED BY <1>1, <1>2, KidsFinite DEF kids

\* ++i stops at the next link, if there is one.
LEMMA AfterPosition ==
  ASSUME Shape(trie), NEW x \in Nodes, NEW k \in AllKeys
  PROVE  /\ after(x, k) \in next(x) \cup {End}
         /\ after(x, k) # End => before(k, after(x, k))
         /\ \A j \in next(x) : before(k, j) =>
              after(x, k) # End /\ (j = after(x, k) \/ before(after(x, k), j))
<1> DEFINE K == {j \in next(x) : before(k, j)}
<1>1. K \in SUBSET AllKeys /\ IsFiniteSet(K)
    BY NextIsKids, FS_Subset
<1>2. after(x, k) = least(K)
    BY DEF after
<1>3. /\ least(K) \in K \cup {End}
      /\ \A j \in K : least(K) \in K /\ (j = least(K) \/ before(least(K), j))
    BY <1>1, LeastPosition
<1>4. End \notin K
    BY <1>1, EndIsNoKey
<1> QED BY <1>2, <1>3, <1>4

\* --i stops at the link before, if there is one.
LEMMA BackPosition ==
  ASSUME Shape(trie), NEW x \in Nodes, NEW k \in AllKeys
  PROVE  /\ backFrom(x, k) \in next(x) \cup {End}
         /\ backFrom(x, k) # End => before(backFrom(x, k), k)
         /\ \A j \in next(x) : before(j, k) =>
              backFrom(x, k) # End /\ (j = backFrom(x, k) \/ before(j, backFrom(x, k)))
<1> DEFINE K == {j \in next(x) : before(j, k)}
<1>1. K \in SUBSET AllKeys /\ IsFiniteSet(K)
    BY NextIsKids, FS_Subset
<1>2. backFrom(x, k) = greatest(K)
    BY DEF backFrom
<1>3. /\ greatest(K) \in K \cup {End}
      /\ \A j \in K : greatest(K) \in K /\ (j = greatest(K) \/ before(j, greatest(K)))
    BY <1>1, GreatestPosition
<1>4. End \notin K
    BY <1>1, EndIsNoKey
<1> QED BY <1>2, <1>3, <1>4

\* The loop of forwardSubsumes starts at the greatest link the query may
\* follow.
LEMMA ForwardPosition ==
  ASSUME Shape(trie), NEW x \in Nodes, NEW R \in SUBSET AllKeys, IsFiniteSet(R)
  PROVE  /\ firstForward(x, R) \in next(x) \cup {End}
         /\ \A j \in next(x) \cap R :
              /\ firstForward(x, R) # End
              /\ j = firstForward(x, R) \/ before(j, firstForward(x, R))
<1>1. CASE R = {}
    BY <1>1 DEF firstForward
<1>2. CASE R # {}
    <2> DEFINE K == {j \in next(x) : ~ before(greatest(R), j)}
    <2>1. K \in SUBSET AllKeys /\ IsFiniteSet(K)
        BY NextIsKids, FS_Subset
    <2>2. firstForward(x, R) = greatest(K)
        BY <1>2 DEF firstForward
    <2>3. /\ greatest(K) \in K \cup {End}
          /\ \A j \in K : greatest(K) \in K /\ (j = greatest(K) \/ before(j, greatest(K)))
        BY <2>1, GreatestPosition
    <2>4. End \notin K
        BY <2>1, EndIsNoKey
    <2>5. greatest(R) \in R /\ \A j \in R : j = greatest(R) \/ before(j, greatest(R))
        BY <1>2, GreatestOf
    <2>6. ASSUME NEW j \in next(x) \cap R PROVE j \in K
        BY <2>5, BeforeOrder
    <2> HIDE DEF K
    <2>7. K \subseteq next(x)
        BY DEF K
    <2> QED BY <2>2, <2>3, <2>4, <2>6, <2>7
<1> QED BY <1>1, <1>2

\* The loop of backwardSubsumes starts at the least link that a clause with
\* the rest of the query on its path can go through: the complement it skips
\* is not one of them.
LEMMA BackwardPosition ==
  ASSUME Shape(trie), NEW x \in Nodes, NEW R \in SUBSET AllKeys, IsFiniteSet(R)
  PROVE  /\ firstBackward(x, R) \in next(x) \cup {End}
         /\ \A j \in next(x) :
              (R # {} => ~ before(j, greatest(R)) /\ (j = greatest(R) \/ j[1] # greatest(R)[1])) =>
                /\ firstBackward(x, R) # End
                /\ j = firstBackward(x, R) \/ before(firstBackward(x, R), j)
<1>0. End \notin next(x)
    BY NextIsKids, EndIsNoKey
<1>1. CASE R = {}
    <2>1. firstBackward(x, R) = least(next(x))
        BY <1>1 DEF firstBackward
    <2>2. /\ least(next(x)) \in next(x) \cup {End}
          /\ \A j \in next(x) : least(next(x)) \in next(x) /\ (j = least(next(x)) \/ before(least(next(x)), j))
        BY NextIsKids, LeastPosition
    <2> QED BY <1>0, <1>1, <2>1, <2>2
<1>2. CASE R # {}
    <2> DEFINE g == greatest(R)
    <2> DEFINE K == {j \in next(x) : ~ before(j, g)}
    <2> DEFINE low == least(K)
    <2>1. K \in SUBSET AllKeys /\ IsFiniteSet(K) /\ K \subseteq next(x)
        BY NextIsKids, FS_Subset
    <2>2. /\ low \in K \cup {End}
          /\ \A j \in K : low \in K /\ (j = low \/ before(low, j))
        BY <2>1, LeastPosition
    <2>3. firstBackward(x, R) = IF low # End /\ low # g /\ low[1] = g[1] THEN after(x, low) ELSE low
        BY <1>2 DEF firstBackward
    <2>4. \A j \in next(x) : ~ before(j, g) => j \in K
        OBVIOUS
    <2> HIDE DEF K, low
    <2>5. CASE low # End /\ low # g /\ low[1] = g[1]
        <3>1. low \in AllKeys
            BY <2>1, <2>2, <2>5
        <3>2. /\ after(x, low) \in next(x) \cup {End}
              /\ \A j \in next(x) : before(low, j) =>
                   after(x, low) # End /\ (j = after(x, low) \/ before(after(x, low), j))
            BY <3>1, AfterPosition
        <3>3. ASSUME NEW j \in next(x), ~ before(j, g), j = g \/ j[1] # g[1]
              PROVE  before(low, j)
            <4>1. j \in K /\ j # low
                BY <3>3, <2>4, <2>5
            <4> QED BY <4>1, <2>2
        <3> HIDE DEF g
        <3> QED BY <1>2, <2>3, <2>5, <3>2, <3>3 DEF g
    <2>6. CASE ~ (low # End /\ low # g /\ low[1] = g[1])
        <3>1. firstBackward(x, R) = low
            BY <2>3, <2>6
        <3> HIDE DEF g
        <3> QED BY <1>0, <1>2, <2>1, <2>2, <2>4, <3>1 DEF g
    <2> QED BY <2>5, <2>6
<1> QED BY <1>1, <1>2

(***************************************************************************)
(* The sets of keys of a clause, a changed list, a changed top frame.      *)
(***************************************************************************)
LEMMA KeysOfItem ==
  ASSUME NEW c \in Items, NEW s \in SUBSET c.lits
  PROVE  Keys(s) \in SUBSET AllKeys /\ IsFiniteSet(Keys(s))
<1>1. c.lits \in SUBSET Literals /\ IsFiniteSet(c.lits)
    BY ItemsAssumption DEF Clauses
<1>2. IsFiniteSet(s)
    BY <1>1, FS_Subset
<1>3. \A l \in s : Key(l) \in AllKeys
    BY <1>1 DEF Literals, Key, AllKeys
<1> DEFINE f == [l \in s |-> Key(l)]
<1>4. f \in Surjection(s, Keys(s))
    <2>1. f \in [s -> Keys(s)]
        BY DEF Keys
    <2>2. \A k \in Keys(s) : \E l \in s : f[l] = k
        BY DEF Keys
    <2> HIDE DEF f
    <2> QED BY <2>1, <2>2 DEF Surjection
<1> HIDE DEF f
<1>5. IsFiniteSet(Keys(s))
    BY <1>2, <1>4, FS_Surjection
<1> QED BY <1>3, <1>5 DEF Keys

\* Whatever an operation walks is a sequence of finite sets of keys.
LEMMA WalksFinite ==
  ASSUME NEW c \in Items, NEW o
  PROVE  /\ Walks(o, c.lits) \in Seq(SUBSET AllKeys)
         /\ \A i \in 1 .. Len(Walks(o, c.lits)) : IsFiniteSet(Walks(o, c.lits)[i])
         /\ o # "forward" => Walks(o, c.lits) = <<Keys(Path(c.lits))>>
<1>1. NextPart(c.lits) \in SUBSET c.lits /\ NowPart(c.lits) \in SUBSET c.lits
      /\ Path(c.lits) \in SUBSET c.lits
    BY DEF NextPart, NowPart, Path
<1>2. /\ Keys(NextPart(c.lits)) \in SUBSET AllKeys /\ IsFiniteSet(Keys(NextPart(c.lits)))
      /\ Keys(NowPart(c.lits)) \in SUBSET AllKeys /\ IsFiniteSet(Keys(NowPart(c.lits)))
      /\ Keys(Path(c.lits)) \in SUBSET AllKeys /\ IsFiniteSet(Keys(Path(c.lits)))
    BY <1>1, KeysOfItem
<1> DEFINE n == Keys(NextPart(c.lits))
<1> DEFINE w == Keys(NowPart(c.lits))
<1> DEFINE p == Keys(Path(c.lits))
<1>3. Walks(o, c.lits) = <<n, w>> \/ Walks(o, c.lits) = <<p>>
    BY DEF Walks
<1>4. o # "forward" => Walks(o, c.lits) = <<p>>
    BY DEF Walks
<1> HIDE DEF n, w, p
<1>5. n \in SUBSET AllKeys /\ w \in SUBSET AllKeys /\ p \in SUBSET AllKeys
    BY <1>2 DEF n, w, p
<1>6. IsFiniteSet(n) /\ IsFiniteSet(w) /\ IsFiniteSet(p)
    BY <1>2 DEF n, w, p
<1>7. CASE Walks(o, c.lits) = <<n, w>>
    <2>1. <<n, w>> \in Seq(SUBSET AllKeys) /\ Len(<<n, w>>) = 2 /\ <<n, w>>[1] = n /\ <<n, w>>[2] = w
        BY <1>5
    <2>2. \A i \in 1 .. Len(<<n, w>>) : i = 1 \/ i = 2
        BY <2>1
    <2> QED BY <1>4, <1>6, <1>7, <2>1, <2>2 DEF p
<1>8. CASE Walks(o, c.lits) = <<p>>
    <2>1. <<p>> \in Seq(SUBSET AllKeys) /\ Len(<<p>>) = 1 /\ <<p>>[1] = p
        BY <1>5
    <2>2. \A i \in 1 .. Len(<<p>>) : i = 1
        BY <2>1
    <2> QED BY <1>6, <1>8, <2>1, <2>2 DEF p
<1> QED BY <1>3, <1>7, <1>8

listed(x, D) == [trie EXCEPT ![x].data = D]

\* A list changes, the nodes and their counts do not.
LEMMA DataShape ==
  ASSUME Shape(trie), NEW x \in Nodes, NEW D \in SUBSET Items,
         \A c \in D : x = Keys(Path(c.lits))
  PROVE  /\ Shape(listed(x, D)) /\ DOMAIN listed(x, D) = Nodes
         /\ listed(x, D)[x].data = D
         /\ \A z \in Nodes : z # x => listed(x, D)[z] = trie[z]
<1> DEFINE t == listed(x, D)
<1>0. /\ Closed(Nodes) /\ FiniteNodes(Nodes) /\ IsFiniteSet(Nodes)
      /\ \A z \in Nodes : /\ trie[z] \in [data : SUBSET Items, branches : Nat]
                          /\ trie[z].branches = Cardinality(kids(Nodes, z))
                          /\ \A c \in trie[z].data : z = Keys(Path(c.lits))
    BY DEF Shape, Nodes
<1>1. DOMAIN t = Nodes /\ \A z \in Nodes : z # x => t[z] = trie[z]
    BY DEF listed, Nodes
<1>2. t[x] = [trie[x] EXCEPT !.data = D]
    BY DEF listed, Nodes
<1> HIDE DEF t
<1>3. t[x] \in [data : SUBSET Items, branches : Nat] /\ t[x].data = D /\ t[x].branches = trie[x].branches
    BY <1>0, <1>2
<1>4. ASSUME NEW z \in Nodes
      PROVE  /\ t[z] \in [data : SUBSET Items, branches : Nat]
             /\ t[z].branches = Cardinality(kids(Nodes, z))
             /\ \A c \in t[z].data : z = Keys(Path(c.lits))
    <2>1. CASE z = x
        BY <2>1, <1>0, <1>3
    <2>2. CASE z # x
        BY <2>2, <1>0, <1>1
    <2> QED BY <2>1, <2>2
<1>5. Shape(t)
    BY <1>0, <1>1, <1>4 DEF Shape
<1> QED BY <1>1, <1>3, <1>5 DEF t

\* The loop of the top call starts, or goes on, at a link or the end.
LEMMA MovedStack ==
  ASSUME Shape(trie), StackOK(Nodes, stack), stack # <<>>,
         NEW k, k \in next(top.node) \cup {End}
  PROVE  /\ StackOK(Nodes, moved(k)) /\ moved(k) # <<>> /\ Len(moved(k)) = Len(stack)
         /\ \A i \in 1 .. Len(stack) : moved(k)[i].node = stack[i].node
         /\ \A i \in 1 .. Len(stack) - 1 : moved(k)[i] = stack[i]
         /\ moved(k)[Len(stack)].rest = top.rest
         /\ moved(k)[Len(stack)].at = k /\ moved(k)[Len(stack)].entered
<1> DEFINE g == [top EXCEPT !.at = k, !.entered = TRUE]
<1> DEFINE n == Len(stack)
<1>1. stack \in Seq(AFrame) /\ n \in Nat /\ n >= 1 /\ n \in 1 .. n /\ FrameOK(Nodes, top)
    BY DEF StackOK, AFrame, top
<1>2. FrameOK(Nodes, g) /\ g.node = top.node
    <2>1. top.node \in Nodes /\ next(top.node) = kids(Nodes, top.node) /\ next(top.node) \in SUBSET AllKeys
        BY <1>1, NextIsKids DEF FrameOK
    <2>2. g.node = top.node /\ g.rest = top.rest /\ g.at = k /\ g.entered = TRUE
        BY <1>1 DEF FrameOK
    <2>3. g \in AFrame
        BY <1>1, <2>1 DEF FrameOK, AFrame
    <2> HIDE DEF g
    <2> QED BY <1>1, <2>1, <2>2, <2>3 DEF FrameOK, AFrame
<1>3. moved(k) = [i \in 1 .. n |-> IF i = n THEN g ELSE stack[i]]
    BY <1>1 DEF moved, top
<1>5. g.rest = top.rest /\ g.at = k /\ g.entered
    BY <1>1 DEF FrameOK
<1> HIDE DEF g
<1>4. top = stack[Len(stack)]
    BY DEF top
<1>6. /\ StackOK(Nodes, moved(k)) /\ moved(k) # <<>> /\ Len(moved(k)) = Len(stack)
      /\ moved(k)[Len(stack)] = g
      /\ \A i \in 1 .. Len(stack) - 1 : moved(k)[i] = stack[i]
      /\ \A i \in 1 .. Len(stack) : moved(k)[i].node = stack[i].node
    BY <1>1, <1>2, <1>3, <1>4, ReplaceTop
<1> QED BY <1>5, <1>6

\* A new call stands before its loop.
LEMMA NewFrame ==
  ASSUME NEW N, NEW x \in SUBSET AllKeys, x \in N,
         NEW K \in SUBSET AllKeys, IsFiniteSet(K), \A k \in K, j \in x : before(k, j)
  PROVE  /\ FrameOK(N, frame(x, K))
         /\ frame(x, K).node = x /\ frame(x, K).rest = K
         /\ frame(x, K).at = End /\ frame(x, K).entered = FALSE
<1> DEFINE g == frame(x, K)
<1>1. g.node = x /\ g.rest = K /\ g.at = End /\ g.entered = FALSE
    BY DEF frame
<1>2. g \in AFrame
    BY DEF frame, AFrame
<1> HIDE DEF g
<1>3. FrameOK(N, g)
    BY <1>1, <1>2 DEF FrameOK, AFrame
<1> QED BY <1>1, <1>3 DEF g

\* A recursion starts with one call.
LEMMA SingleFrame ==
  ASSUME NEW N, NEW g, FrameOK(N, g)
  PROVE  StackOK(N, <<g>>) /\ <<g>> # <<>> /\ Len(<<g>>) = 1 /\ <<g>>[1] = g
<1>1. <<g>> \in Seq(AFrame) /\ Len(<<g>>) = 1 /\ <<g>>[1] = g
    BY DEF FrameOK, AFrame
<1>2. \A i \in 1 .. Len(<<g>>) : i = 1
    BY <1>1
<1>3. \A i \in 1 .. Len(<<g>>) - 1 : FALSE
    BY <1>1
<1> QED BY <1>1, <1>2, <1>3 DEF StackOK, AFrame

\* The empty stack is one.
LEMMA NoFrame ==
  ASSUME NEW N
  PROVE  StackOK(N, <<>>)
<1>1. <<>> \in Seq(AFrame) /\ Len(<<>>) = 0
    OBVIOUS
<1>2. \A i \in 1 .. Len(<<>>) : FALSE
    BY <1>1
<1>3. \A i \in 1 .. Len(<<>>) - 1 : FALSE
    BY <1>1
<1> QED BY <1>1, <1>2, <1>3 DEF StackOK, AFrame

(***************************************************************************)
(* ... and where the call under way is: what is left to walk, the path     *)
(* insert is on, and the calls that will delete a dead node.               *)
(***************************************************************************)
ControlOK ==
  /\ mode \in Modes
  /\ op \in Operations \cup {"idle"}
  /\ query \in SUBSET Items
  /\ op # "idle" => \E c \in Items : query = {c}
  /\ collected \in SUBSET Items /\ answer \in SUBSET Items
  /\ op = "idle" => stack = <<>> /\ walks = <<>>

WalksOK ==
  /\ walks \in Seq(SUBSET AllKeys)
  /\ \A i \in 1 .. Len(walks) : IsFiniteSet(walks[i])

InsertOK ==
  op = "insert" => \A c \in query :
    \/ stack = <<>> /\ walks = <<Keys(Path(c.lits))>>
    \/ /\ stack # <<>> /\ Len(stack) = 1 /\ walks = <<>>
       /\ ~ stack[1].entered
       /\ stack[1].node \cup stack[1].rest = Keys(Path(c.lits))

RootOK == op # "insert" /\ stack # <<>> => stack[1].node = {}

DeadOK ==
  \A z \in Nodes \ {{}} : dead(z) =>
    op # "forward" /\ \E i \in 1 .. Len(stack) : stack[i].node = z

IInv ==
  /\ Shape(trie)
  /\ StackOK(Nodes, stack)
  /\ ControlOK
  /\ WalksOK
  /\ InsertOK
  /\ RootOK
  /\ DeadOK

\* It holds at the start.
LEMMA InitIInv == Init => IInv
<1> SUFFICES ASSUME Init PROVE IInv
    OBVIOUS
<1>1. DOMAIN trie = {} /\ stack = <<>> /\ walks = <<>>
    BY DEF Init
<1>2. Shape(trie)
    BY <1>1, FS_EmptySet DEF Shape, FiniteNodes, Closed
<1>3. StackOK(Nodes, stack)
    BY <1>1, NoFrame
<1>4. ControlOK
    BY DEF Init, ControlOK
<1>5. WalksOK
    <2>1. <<>> \in Seq(SUBSET AllKeys) /\ Len(<<>>) = 0
        OBVIOUS
    <2>2. \A i \in 1 .. Len(<<>>) : FALSE
        BY <2>1
    <2> QED BY <1>1, <2>1, <2>2 DEF WalksOK
<1>6. InsertOK /\ RootOK
    BY <1>1 DEF Init, InsertOK, RootOK
<1>7. DeadOK
    BY <1>1 DEF DeadOK, Nodes
<1> QED BY <1>2, <1>3, <1>4, <1>5, <1>6, <1>7 DEF IInv

\* It gives the properties.
LEMMA IInvType == IInv => IndexTypeOK
<1> SUFFICES ASSUME IInv PROVE IndexTypeOK
    OBVIOUS
<1>1. Nodes \subseteq SUBSET AllKeys /\ \A x \in Nodes : trie[x] \in [data : SUBSET Items, branches : Nat]
    BY DEF IInv, Shape, FiniteNodes, Nodes
<1>2. stack \in Seq([node : SUBSET AllKeys, rest : SUBSET AllKeys,
                     at : AllKeys \cup {End}, entered : BOOLEAN])
    BY DEF IInv, StackOK
<1>3. walks \in Seq(SUBSET AllKeys)
    BY DEF IInv, WalksOK
<1> QED BY <1>1, <1>2, <1>3 DEF IInv, ControlOK, IndexTypeOK

\* The shape of the trie is part of it.
LEMMA IInvShape == IInv => TrieShape
<1> SUFFICES ASSUME IInv, NEW x \in Nodes
             PROVE  /\ \A y \in SUBSET x : Under(y, x) => y \in Nodes
                    /\ trie[x].branches = Cardinality(next(x))
                    /\ \A c \in trie[x].data : x = Keys(Path(c.lits))
    BY DEF TrieShape
<1>1. next(x) = kids(Nodes, x)
    BY NextIsKids DEF IInv
<1> QED BY <1>1 DEF IInv, Shape, Closed, Nodes

\* So is where the frames stand.
LEMMA IInvFrames == IInv => FramesLive
<1> SUFFICES ASSUME IInv, NEW i \in 1 .. Len(stack)
             PROVE  stack[i].node \in Nodes /\ stack[i].at \in next(stack[i].node) \cup {End}
    BY DEF FramesLive, Frames
<1>1. FrameOK(Nodes, stack[i])
    BY DEF IInv, StackOK
<1>2. next(stack[i].node) = kids(Nodes, stack[i].node)
    BY <1>1, NextIsKids DEF IInv, FrameOK
<1> QED BY <1>1, <1>2 DEF FrameOK

\* With no call under way nobody is left to delete a dead node.
LEMMA IInvDead == IInv => NoDeadNode
<1> SUFFICES ASSUME IInv, op = "idle", NEW z \in Nodes \ {{}}, dead(z) PROVE FALSE
    BY DEF NoDeadNode
<1>1. stack = <<>>
    BY DEF IInv, ControlOK
<1>2. \A i \in 1 .. Len(<<>>) : FALSE
    OBVIOUS
<1> QED BY <1>1, <1>2 DEF IInv, DeadOK

(***************************************************************************)
(* One lemma per action.                                                   *)
(***************************************************************************)
\* The empty stack stands nowhere.
LEMMA EmptyStack == \A i \in 1 .. Len(<<>>) : FALSE
  OBVIOUS

\* A call of an operation.
LEMMA CallStep ==
  ASSUME IInv, NEW o \in Operations, NEW c \in Items, Call(o, c)
  PROVE  IInv'
<1>0. /\ op = "idle" /\ op' = o /\ query' = {c} /\ walks' = Walks(o, c.lits) /\ answer' = {}
      /\ mode' = mode /\ trie' = trie /\ stack' = stack /\ collected' = collected
    BY DEF Call
<1>1. stack = <<>> /\ stack' = <<>>
    BY <1>0 DEF IInv, ControlOK
<1>2. Shape(trie)' /\ StackOK(Nodes, stack)'
    BY <1>0 DEF IInv, Nodes
<1>3. ControlOK'
    BY <1>0, <1>1 DEF IInv, ControlOK, Operations
<1>4. WalksOK' /\ InsertOK'
    BY <1>0, <1>1, WalksFinite DEF WalksOK, InsertOK
<1>5. RootOK'
    BY <1>1 DEF RootOK
<1>6. DeadOK'
    <2>1. \A z \in Nodes \ {{}} : ~ dead(z)
        BY <1>1, EmptyStack DEF IInv, DeadOK
    <2> QED BY <1>0, <2>1 DEF DeadOK, dead, Nodes
<1> QED BY <1>2, <1>3, <1>4, <1>5, <1>6 DEF IInv

\* The first call of a walk.
LEMMA BeginStep ==
  ASSUME IInv, Begin
  PROVE  IInv'
<1>0. /\ stack = <<>> /\ walks # <<>> /\ walks' = Tail(walks)
      /\ mode' = mode /\ op' = op /\ query' = query /\ collected' = collected /\ answer' = answer
    BY DEF Begin
<1>1. /\ walks \in Seq(SUBSET AllKeys) /\ \A i \in 1 .. Len(walks) : IsFiniteSet(walks[i])
      /\ Shape(trie)
    BY DEF IInv, WalksOK
<1> DEFINE h == Head(walks)
<1>2. h \in SUBSET AllKeys /\ IsFiniteSet(h) /\ h = walks[1]
    BY <1>0, <1>1
<1>3. op # "idle"
    BY <1>0 DEF IInv, ControlOK
<1>4. \A z \in Nodes \ {{}} : ~ dead(z)
    BY <1>0, EmptyStack DEF IInv, DeadOK
<1>5. WalksOK'
    <2>1. /\ Tail(walks) \in Seq(SUBSET AllKeys) /\ Len(Tail(walks)) = Len(walks) - 1
          /\ \A i \in 1 .. Len(Tail(walks)) : Tail(walks)[i] = walks[i + 1] /\ i + 1 \in 1 .. Len(walks)
        BY <1>0, <1>1
    <2> QED BY <1>0, <1>1, <2>1 DEF WalksOK
<1>6. ControlOK'
    BY <1>0, <1>3 DEF IInv, ControlOK
<1>7. ASSUME NEW c \in query, op = "insert"
      PROVE  walks = <<h>> /\ h = Keys(Path(c.lits)) /\ walks' = <<>>
    <2>1. walks = <<Keys(Path(c.lits))>>
        BY <1>0, <1>7 DEF IInv, InsertOK
    <2> QED BY <1>0, <2>1
<1> HIDE DEF h
<1> DEFINE g == frame({}, h)
<1>9. ASSUME NEW N, {} \in N
      PROVE  FrameOK(N, g) /\ g.node = {} /\ g.rest = h /\ g.entered = FALSE
    <2> DEFINE r == {}
    <2>1. /\ r \in SUBSET AllKeys /\ r \in N /\ h \in SUBSET AllKeys /\ IsFiniteSet(h)
          /\ \A i \in h, j \in r : before(i, j)
        BY <1>2, <1>9
    <2> HIDE DEF r
    <2>2. /\ FrameOK(N, frame(r, h)) /\ frame(r, h).node = r
          /\ frame(r, h).rest = h /\ frame(r, h).entered = FALSE
        BY <2>1, NewFrame
    <2> QED BY <2>2 DEF r
<1>10. g.node = {} /\ g.rest = h /\ g.entered = FALSE
    BY <1>9
<1> HIDE DEF g
<1>11. CASE op = "insert" \/ {} \in Nodes
    <2>1. stack' = <<g>>
        BY <1>11 DEF Begin, g, h
    <2>2. /\ Shape(trie)' /\ {} \in Nodes'
          /\ \A z \in Nodes' \ {{}} : z \in Nodes /\ ~ dead(z)'
        <3>1. CASE op = "insert" /\ {} \notin Nodes
            <4>1. trie' = [x \in {{}} |-> Node]
                BY <3>1 DEF Begin
            <4>2. DOMAIN trie' = {{}} /\ trie'[{}] = [data |-> {}, branches |-> 0]
                BY <4>1 DEF Node
            <4>3. Closed({{}}) /\ FiniteNodes({{}}) /\ IsFiniteSet({{}})
                BY FS_Singleton, FS_EmptySet DEF Closed, FiniteNodes
            <4>4. kids({{}}, {}) = {}
                BY DEF kids
            <4>5. Cardinality(kids({{}}, {})) = 0
                BY <4>4, FS_EmptySet
            <4> QED BY <4>2, <4>3, <4>5 DEF Shape, Nodes
        <3>2. CASE ~ (op = "insert" /\ {} \notin Nodes)
            <4>1. trie' = trie /\ {} \in Nodes
                BY <1>11, <3>2 DEF Begin
            <4> QED BY <4>1, <1>1, <1>4 DEF Nodes, dead
        <3> QED BY <3>1, <3>2
    <2>3. /\ StackOK(Nodes', <<g>>) /\ <<g>> # <<>> /\ Len(<<g>>) = 1 /\ <<g>>[1] = g
        BY <2>2, <1>9, SingleFrame
    <2>4. StackOK(Nodes, stack)'
        BY <2>1, <2>3
    <2>5. InsertOK'
        BY <1>0, <1>7, <1>10, <2>1, <2>3 DEF InsertOK
    <2>6. RootOK'
        BY <1>10, <2>1, <2>3 DEF RootOK
    <2>7. DeadOK'
        BY <2>2 DEF DeadOK
    <2> QED BY <1>5, <1>6, <2>2, <2>4, <2>5, <2>6, <2>7 DEF IInv
<1>12. CASE ~ (op = "insert" \/ {} \in Nodes)
    <2>1. stack' = <<>> /\ trie' = trie
        BY <1>0, <1>12 DEF Begin
    <2>2. Shape(trie)' /\ StackOK(Nodes, stack)'
        BY <1>1, <2>1, NoFrame
    <2>3. InsertOK' /\ RootOK'
        BY <1>0, <1>12, <2>1 DEF InsertOK, RootOK
    <2>4. DeadOK'
        BY <1>4, <2>1 DEF DeadOK, dead, Nodes
    <2> QED BY <1>5, <1>6, <2>2, <2>3, <2>4 DEF IInv
<1> QED BY <1>11, <1>12

\* insert makes a link and goes down it.
LEMMA InsertLinkStep ==
  ASSUME IInv, InsertLink
  PROVE  IInv'
<1> DEFINE x == stack[1].node
<1> DEFINE R == stack[1].rest
<1> DEFINE k == greatest(R)
<1>0. /\ op = "insert" /\ stack # <<>> /\ top.rest # {}
      /\ trie' = link(top.node, greatest(top.rest))
      /\ stack' = <<frame(top.node \cup {greatest(top.rest)}, top.rest \ {greatest(top.rest)})>>
      /\ mode' = mode /\ op' = op /\ query' = query /\ walks' = walks
      /\ collected' = collected /\ answer' = answer
    BY DEF InsertLink
<1>1. /\ \E c \in Items : query = {c}
      /\ Shape(trie) /\ StackOK(Nodes, stack)
    BY <1>0 DEF IInv, ControlOK
<1>2. /\ Len(stack) = 1 /\ walks = <<>> /\ ~ stack[1].entered
      /\ \A c \in query : x \cup R = Keys(Path(c.lits))
    BY <1>0, <1>1 DEF IInv, InsertOK
<1>3. top = stack[1] /\ \A i \in 1 .. Len(stack) : stack[i].node = x
    BY <1>2 DEF top
<1>4. FrameOK(Nodes, stack[1])
    BY <1>1, <1>2 DEF StackOK
<1>5. /\ x \in Nodes /\ x \in SUBSET AllKeys /\ R \in SUBSET AllKeys /\ IsFiniteSet(R) /\ R # {}
      /\ \A i \in R, j \in x : before(i, j)
    BY <1>0, <1>3, <1>4 DEF FrameOK
<1>6. k \in R /\ \A j \in R \ {k} : before(j, k)
    BY <1>5, GreatestOf
<1>8. trie' = link(x, k) /\ stack' = <<frame(x \cup {k}, R \ {k})>>
    BY <1>0, <1>3
<1> HIDE DEF k, x, R
<1>7. k \in AllKeys /\ k \notin x /\ Under(x, x \cup {k})
    BY <1>5, <1>6, BeforeOrder DEF Under
<1>9. /\ Shape(trie') /\ Nodes' = Nodes \cup {x \cup {k}}
      /\ \A z \in Nodes : z # x => trie'[z] = trie[z]
      /\ trie'[x].branches # 0
    <2> DEFINE t == link(x, k)
    <2>1. Shape(t) /\ DOMAIN t = Nodes \cup {x \cup {k}}
        BY <1>1, <1>5, <1>7, LinkShape
    <2>2. (\A z \in Nodes : z # x => t[z] = trie[z]) /\ t[x].branches # 0
        BY <1>1, <1>5, <1>7, LinkShape
    <2>3. trie' = t
        BY <1>8
    <2> HIDE DEF t
    <2> QED BY <2>1, <2>2, <2>3 DEF Nodes
<1> DEFINE g == frame(x \cup {k}, R \ {k})
<1>10. /\ x \cup {k} \in SUBSET AllKeys /\ x \cup {k} \in Nodes' /\ R \ {k} \in SUBSET AllKeys
       /\ \A i \in R \ {k}, j \in x \cup {k} : before(i, j)
    BY <1>5, <1>6, <1>7, <1>9
<1>11. IsFiniteSet(R \ {k})
    BY <1>5, FS_RemoveElement
<1>12. FrameOK(Nodes', g) /\ g.node = x \cup {k} /\ g.rest = R \ {k} /\ g.entered = FALSE
    <2> DEFINE y == x \cup {k}
    <2> DEFINE K == R \ {k}
    <2>1. /\ y \in SUBSET AllKeys /\ y \in Nodes' /\ K \in SUBSET AllKeys /\ IsFiniteSet(K)
          /\ \A i \in K, j \in y : before(i, j)
        BY <1>10, <1>11
    <2> HIDE DEF y, K
    <2>2. /\ FrameOK(Nodes', frame(y, K)) /\ frame(y, K).node = y
          /\ frame(y, K).rest = K /\ frame(y, K).entered = FALSE
        BY <2>1, NewFrame
    <2> QED BY <2>2 DEF y, K
<1>14. stack' = <<g>>
    BY <1>8
<1> HIDE DEF g
<1>15. StackOK(Nodes', stack') /\ stack' # <<>> /\ Len(stack') = 1 /\ stack'[1] = g
    BY <1>12, <1>14, SingleFrame
<1>16. InsertOK'
    <2> SUFFICES ASSUME NEW c \in query
                 PROVE  (x \cup {k}) \cup (R \ {k}) = Keys(Path(c.lits))
        BY <1>0, <1>2, <1>12, <1>15 DEF InsertOK
    <2>1. (x \cup {k}) \cup (R \ {k}) = x \cup R
        BY <1>6
    <2> QED BY <1>2, <2>1
<1>17. DeadOK'
    <2>1. 1 \in 1 .. Len(stack') /\ stack'[1].node = x \cup {k}
        BY <1>12, <1>15
    <2>2. ASSUME NEW z \in Nodes' \ {{}}, dead(z)', z # x \cup {k}
          PROVE  FALSE
        <3>1. z \in Nodes /\ z # x
            BY <1>9, <2>2 DEF dead
        <3>2. dead(z)
            BY <1>9, <2>2, <3>1 DEF dead
        <3>3. PICK i \in 1 .. Len(stack) : stack[i].node = z
            BY <2>2, <3>1, <3>2 DEF IInv, DeadOK
        <3> QED BY <1>3, <3>1, <3>3
    <2>3. op' # "forward"
        BY <1>0
    <2> QED BY <2>1, <2>2, <2>3 DEF DeadOK
<1>18. ControlOK' /\ WalksOK' /\ RootOK'
    BY <1>0, <1>15 DEF IInv, ControlOK, WalksOK, RootOK
<1> QED BY <1>9, <1>15, <1>16, <1>17, <1>18 DEF IInv

\* insert puts the clause in the list.
LEMMA InsertDataStep ==
  ASSUME IInv, NEW c \in query, InsertData(c)
  PROVE  IInv'
<1> DEFINE x == stack[1].node
<1>0. /\ op = "insert" /\ stack # <<>> /\ top.rest = {} /\ query = {c}
      /\ trie' = [trie EXCEPT ![top.node].data = @ \cup {c}]
      /\ stack' = <<>> /\ op' = "idle"
      /\ mode' = mode /\ query' = query /\ walks' = walks
      /\ collected' = collected /\ answer' = answer
    BY DEF InsertData
<1>1. c \in Items /\ Shape(trie) /\ StackOK(Nodes, stack)
    BY <1>0 DEF IInv, ControlOK
<1>2. /\ Len(stack) = 1 /\ walks = <<>> /\ x \cup stack[1].rest = Keys(Path(c.lits))
    BY <1>0 DEF IInv, InsertOK
<1>3. top = stack[1] /\ FrameOK(Nodes, stack[1])
    BY <1>1, <1>2 DEF top, StackOK
<1>4. x \in Nodes /\ x = Keys(Path(c.lits))
    BY <1>0, <1>2, <1>3 DEF FrameOK
<1> DEFINE D == trie[x].data \cup {c}
<1>5. D \in SUBSET Items /\ \A d \in D : x = Keys(Path(d.lits))
    BY <1>1, <1>4 DEF Shape, Nodes
<1>6. trie' = listed(x, D)
    BY <1>0, <1>3 DEF listed
<1> HIDE DEF D, x
<1>7. /\ Shape(trie') /\ DOMAIN trie' = Nodes /\ trie'[x].data = D
      /\ \A z \in Nodes : z # x => trie'[z] = trie[z]
    BY <1>1, <1>4, <1>5, <1>6, DataShape
<1>8. DeadOK'
    <2> SUFFICES ASSUME NEW z \in Nodes' \ {{}}, dead(z)' PROVE FALSE
        BY DEF DeadOK
    <2>1. z \in Nodes /\ z # x
        BY <1>7 DEF Nodes, dead, D
    <2>2. dead(z)
        BY <1>7, <2>1 DEF dead
    <2>3. PICK i \in 1 .. Len(stack) : stack[i].node = z
        BY <2>1, <2>2 DEF IInv, DeadOK
    <2> QED BY <1>2, <2>1, <2>3 DEF x
<1>9. StackOK(Nodes, stack)'
    BY <1>0, NoFrame
<1>10. ControlOK' /\ WalksOK' /\ InsertOK' /\ RootOK'
    BY <1>0, <1>2 DEF IInv, ControlOK, WalksOK, InsertOK, RootOK
<1> QED BY <1>7, <1>8, <1>9, <1>10 DEF IInv

\* What the recursions keep of the rest of the invariant: the call under way
\* is not an insertion and still has its stack.
LEMMA WalkKeeps ==
  ASSUME IInv, op # "insert", stack # <<>>,
         mode' = mode, op' = op, query' = query, walks' = walks, answer' = answer,
         collected' \in SUBSET Items
  PROVE  ControlOK' /\ WalksOK' /\ InsertOK'
<1>1. op # "idle"
    BY DEF IInv, ControlOK
<1>2. ControlOK'
    BY <1>1 DEF IInv, ControlOK
<1>3. WalksOK' /\ InsertOK'
    BY DEF IInv, WalksOK, InsertOK
<1> QED BY <1>2, <1>3

\* The top frame starts its loop and a list may lose clauses.
LEMMA EnterStep ==
  ASSUME IInv, op # "insert", stack # <<>>,
         mode' = mode, op' = op, query' = query, walks' = walks, answer' = answer,
         collected' \in SUBSET Items,
         NEW k, k \in next(top.node) \cup {End}, stack' = moved(k),
         NEW D, D \in SUBSET trie[top.node].data,
         trie' = trie \/ (op # "forward" /\ trie' = listed(top.node, D))
  PROVE  IInv'
<1> DEFINE x == top.node
<1>1. Shape(trie) /\ StackOK(Nodes, stack)
    BY DEF IInv
<1>2. /\ Len(stack) \in Nat /\ Len(stack) \in 1 .. Len(stack) /\ 1 \in 1 .. Len(stack)
      /\ FrameOK(Nodes, top) /\ top = stack[Len(stack)]
    BY <1>1 DEF StackOK, top
<1>3. x \in Nodes
    BY <1>2 DEF FrameOK
<1>4. /\ StackOK(Nodes, stack') /\ stack' # <<>> /\ Len(stack') = Len(stack)
      /\ \A i \in 1 .. Len(stack) : stack'[i].node = stack[i].node
    BY <1>1, MovedStack
<1>5. x = stack[Len(stack)].node
    BY <1>2
<1> HIDE DEF x
<1>6. /\ Shape(trie') /\ Nodes' = Nodes
      /\ \A z \in Nodes : z # x => trie'[z] = trie[z]
    <2>1. CASE trie' = trie
        BY <1>1, <2>1 DEF Nodes
    <2>2. CASE trie' = listed(x, D)
        <3>1. D \in SUBSET Items /\ \A c \in D : x = Keys(Path(c.lits))
            BY <1>1, <1>3 DEF Shape, Nodes, x
        <3>2. /\ Shape(listed(x, D)) /\ DOMAIN listed(x, D) = Nodes
              /\ \A z \in Nodes : z # x => listed(x, D)[z] = trie[z]
            BY <1>1, <1>3, <3>1, DataShape
        <3> QED BY <2>2, <3>2 DEF Nodes
    <2> QED BY <2>1, <2>2 DEF x
<1>7. StackOK(Nodes, stack)'
    BY <1>4, <1>6
<1>8. RootOK'
    BY <1>2, <1>4 DEF IInv, RootOK
<1>9. DeadOK'
    <2> SUFFICES ASSUME NEW z \in Nodes' \ {{}}, dead(z)'
                 PROVE  op' # "forward" /\ \E i \in 1 .. Len(stack') : stack'[i].node = z
        BY DEF DeadOK
    <2>1. CASE z # x \/ trie' = trie
        <3>1. z \in Nodes \ {{}} /\ dead(z)
            BY <1>6, <2>1 DEF dead
        <3>2. op # "forward" /\ \E i \in 1 .. Len(stack) : stack[i].node = z
            BY <3>1 DEF IInv, DeadOK
        <3> QED BY <1>4, <3>2
    <2>2. CASE z = x /\ trie' # trie
        <3>1. op # "forward" /\ stack'[Len(stack)].node = z
            BY <1>2, <1>4, <1>5, <2>2
        <3> QED BY <1>2, <1>4, <3>1
    <2> QED BY <2>1, <2>2
<1>10. ControlOK' /\ WalksOK' /\ InsertOK'
    BY WalkKeeps
<1> QED BY <1>6, <1>7, <1>8, <1>9, <1>10 DEF IInv

\* The node of the top call, and what is left of its query.
LEMMA TopOK ==
  ASSUME IInv, stack # <<>>
  PROVE  /\ top.node \in Nodes /\ top.node \in SUBSET AllKeys
         /\ top.rest \in SUBSET AllKeys /\ IsFiniteSet(top.rest)
         /\ \A k \in top.rest, j \in top.node : before(k, j)
         /\ trie[top.node].data \in SUBSET Items
         /\ next(top.node) = kids(Nodes, top.node)
         /\ top.at \in next(top.node) \cup {End}
<1>1. Shape(trie) /\ StackOK(Nodes, stack)
    BY DEF IInv
<1>2. Len(stack) \in 1 .. Len(stack)
    BY <1>1 DEF StackOK
<1>3. FrameOK(Nodes, top)
    BY <1>1, <1>2 DEF StackOK, top
<1>4. top.node \in Nodes
    BY <1>3 DEF FrameOK
<1>5. next(top.node) = kids(Nodes, top.node)
    BY <1>1, <1>4, NextIsKids
<1>6. trie[top.node].data \in SUBSET Items
    BY <1>1, <1>4 DEF Shape, Nodes
<1> QED BY <1>3, <1>4, <1>5, <1>6 DEF FrameOK

\* remove enters a node.
LEMMA EnterRemoveStep ==
  ASSUME IInv, NEW c \in query, EnterRemove(c)
  PROVE  IInv'
<1> DEFINE k == IF greatest(top.rest) \in next(top.node) THEN greatest(top.rest) ELSE End
<1> DEFINE found == IF top.rest = {} THEN trie[top.node].data \cap {c} ELSE {}
<1> DEFINE D == trie[top.node].data \ found
<1>0. /\ op = "remove" /\ stack # <<>>
      /\ mode' = mode /\ op' = op /\ query' = query /\ walks' = walks /\ answer' = answer
      /\ stack' = moved(k)
    BY DEF EnterRemove
<1>1. k \in next(top.node) \cup {End}
    OBVIOUS
<1>2. found \in SUBSET Items
    BY <1>0, TopOK
<1>3. collected' \in SUBSET Items /\ (trie' = trie \/ trie' = listed(top.node, D))
    <2>1. CASE top.rest = {}
        <3>1. take(found)
            BY <2>1 DEF EnterRemove
        <3>2. collected' = collected \cup found /\ trie' = listed(top.node, D)
            BY <3>1 DEF take, listed
        <3> QED BY <1>2, <3>2 DEF IInv, ControlOK
    <2>2. CASE top.rest # {}
        BY <2>2 DEF EnterRemove, IInv, ControlOK
    <2> QED BY <2>1, <2>2
<1>4. D \in SUBSET trie[top.node].data
    OBVIOUS
<1> HIDE DEF k, D
<1> QED BY <1>0, <1>1, <1>3, <1>4, EnterStep

\* backwardSubsumes enters a node.
LEMMA EnterBackwardStep ==
  ASSUME IInv, NEW c \in query, EnterBackward(c)
  PROVE  IInv'
<1> DEFINE k == firstBackward(top.node, top.rest)
<1> DEFINE found == IF top.rest = {}
                    THEN {d \in trie[top.node].data : backwardTestData(mode, c.lits, d.lits)}
                    ELSE {}
<1> DEFINE D == trie[top.node].data \ found
<1>0. /\ op = "backward" /\ stack # <<>>
      /\ mode' = mode /\ op' = op /\ query' = query /\ walks' = walks /\ answer' = answer
      /\ stack' = moved(k)
    BY DEF EnterBackward
<1>1. k \in next(top.node) \cup {End}
    BY <1>0, TopOK, BackwardPosition DEF IInv
<1>2. found \in SUBSET Items
    BY <1>0, TopOK
<1>3. collected' \in SUBSET Items /\ (trie' = trie \/ trie' = listed(top.node, D))
    <2>1. CASE top.rest = {}
        <3>1. take(found)
            BY <2>1 DEF EnterBackward
        <3>2. collected' = collected \cup found /\ trie' = listed(top.node, D)
            BY <3>1 DEF take, listed
        <3> QED BY <1>2, <3>2 DEF IInv, ControlOK
    <2>2. CASE top.rest # {}
        BY <2>2 DEF EnterBackward, IInv, ControlOK
    <2> QED BY <2>1, <2>2
<1>4. D \in SUBSET trie[top.node].data
    OBVIOUS
<1> HIDE DEF k, D
<1> QED BY <1>0, <1>1, <1>3, <1>4, EnterStep

\* forwardSubsumes enters a node and finds nothing in its list.
LEMMA EnterForwardStep ==
  ASSUME IInv, NEW c \in query, EnterForward(c)
  PROVE  IInv'
<1> DEFINE k == firstForward(top.node, top.rest)
<1>0. /\ op = "forward" /\ stack # <<>> /\ trie' = trie
      /\ mode' = mode /\ op' = op /\ query' = query /\ walks' = walks /\ answer' = answer
      /\ collected' = collected /\ stack' = moved(k)
    BY DEF EnterForward
<1>1. k \in next(top.node) \cup {End}
    BY <1>0, TopOK, ForwardPosition DEF IInv
<1>2. collected' \in SUBSET Items
    BY <1>0 DEF IInv, ControlOK
<1>3. {} \in SUBSET trie[top.node].data
    OBVIOUS
<1> HIDE DEF k
<1> QED BY <1>0, <1>1, <1>2, <1>3, EnterStep

\* A link that is not followed.
LEMMA PassOverStep ==
  ASSUME IInv, PassOver
  PROVE  IInv'
<1> DEFINE k == IF \A j \in top.rest : before(top.at, j) THEN End ELSE backFrom(top.node, top.at)
<1>0. /\ op = "forward" /\ stack # <<>> /\ trie' = trie /\ top.at # End
      /\ mode' = mode /\ op' = op /\ query' = query /\ walks' = walks /\ answer' = answer
      /\ collected' = collected /\ stack' = moved(k)
    BY DEF PassOver
<1>1. k \in next(top.node) \cup {End}
    <2>1. top.at \in AllKeys
        BY <1>0, TopOK DEF kids
    <2>2. backFrom(top.node, top.at) \in next(top.node) \cup {End}
        BY <1>0, <2>1, TopOK, BackPosition DEF IInv
    <2> QED BY <2>2
<1>2. collected' \in SUBSET Items
    BY <1>0 DEF IInv, ControlOK
<1>3. {} \in SUBSET trie[top.node].data
    OBVIOUS
<1> HIDE DEF k
<1> QED BY <1>0, <1>1, <1>2, <1>3, EnterStep

\* A hit ends all calls; no forward search leaves a dead node behind.
LEMMA HitStep ==
  ASSUME IInv, NEW c \in query, Hit(c)
  PROVE  IInv'
<1>0. /\ op = "forward" /\ stack # <<>> /\ trie' = trie
      /\ mode' = mode /\ op' = op /\ query' = query /\ answer' = answer
      /\ \E d \in hits(c) : collected' = {d}
      /\ stack' = <<>> /\ walks' = <<>>
    BY DEF Hit
<1>1. collected' \in SUBSET Items
    BY <1>0, TopOK DEF hits
<1>2. ControlOK'
    BY <1>0, <1>1 DEF IInv, ControlOK
<1>3. <<>> \in Seq(SUBSET AllKeys)
    OBVIOUS
<1>4. WalksOK' /\ InsertOK' /\ RootOK'
    BY <1>0, <1>3, EmptyStack DEF WalksOK, InsertOK, RootOK
<1>5. \A z \in Nodes \ {{}} : ~ dead(z)
    BY <1>0 DEF IInv, DeadOK
<1>6. DeadOK'
    BY <1>0, <1>5 DEF DeadOK, Nodes, dead
<1>7. Shape(trie)' /\ StackOK(Nodes, stack)'
    BY <1>0, NoFrame DEF IInv
<1> QED BY <1>2, <1>4, <1>6, <1>7 DEF IInv

\* A call down a link.
LEMMA DescendStep ==
  ASSUME IInv, Descend
  PROVE  IInv'
<1> DEFINE x == top.node
<1> DEFINE k == top.at
<1> DEFINE K == {j \in top.rest : before(j, k)}
<1>0. /\ stack # <<>> /\ top.entered /\ k # End /\ trie' = trie
      /\ mode' = mode /\ op' = op /\ query' = query /\ walks' = walks /\ answer' = answer
      /\ collected' = collected /\ stack' = Append(stack, frame(x \cup {k}, K))
    BY DEF Descend
<1>1. Shape(trie) /\ StackOK(Nodes, stack)
    BY DEF IInv
<1>2. /\ Len(stack) \in 1 .. Len(stack) /\ Len(stack) \in Nat /\ 1 \in 1 .. Len(stack)
      /\ top = stack[Len(stack)]
    BY <1>0, <1>1 DEF StackOK, top
<1>3. op # "insert"
    <2> SUFFICES ASSUME op = "insert" PROVE FALSE
        OBVIOUS
    <2>1. PICK c \in query : TRUE
        BY DEF IInv, ControlOK
    <2>2. Len(stack) = 1 /\ ~ stack[1].entered
        BY <1>0, <2>1 DEF IInv, InsertOK
    <2> QED BY <1>0, <1>2, <2>2
<1>4. /\ x \in SUBSET AllKeys /\ k \in AllKeys /\ x \cup {k} \in Nodes
      /\ Under(x, x \cup {k})
      /\ top.rest \in SUBSET AllKeys /\ IsFiniteSet(top.rest)
      /\ \A i \in top.rest, j \in x : before(i, j)
    BY <1>0, TopOK DEF kids
<1>5. K \in SUBSET AllKeys /\ IsFiniteSet(K) /\ \A i \in K, j \in x \cup {k} : before(i, j)
    BY <1>4, FS_Subset
<1>6. x = stack[Len(stack)].node /\ k = stack[Len(stack)].at /\ stack[Len(stack)].entered
    BY <1>0, <1>2
<1> DEFINE g == frame(x \cup {k}, K)
<1>7. FrameOK(Nodes, g) /\ g.node = x \cup {k}
    <2> DEFINE y == x \cup {k}
    <2>1. /\ y \in SUBSET AllKeys /\ y \in Nodes /\ K \in SUBSET AllKeys /\ IsFiniteSet(K)
          /\ \A i \in K, j \in y : before(i, j)
        BY <1>4, <1>5
    <2> HIDE DEF y, K
    <2>2. FrameOK(Nodes, frame(y, K)) /\ frame(y, K).node = y
        BY <2>1, NewFrame
    <2> QED BY <2>2 DEF y
<1>8. stack' = Append(stack, g)
    BY <1>0
<1> HIDE DEF g, k, x, K
<1>9. /\ StackOK(Nodes, stack') /\ stack' # <<>> /\ Len(stack') = Len(stack) + 1
      /\ \A i \in 1 .. Len(stack) : stack'[i] = stack[i]
    <2> DEFINE u == Append(stack, g)
    <2>1. /\ g.node = stack[Len(stack)].node \cup {stack[Len(stack)].at}
          /\ stack[Len(stack)].entered /\ stack[Len(stack)].at # End
        BY <1>0, <1>6, <1>7
    <2>2. /\ StackOK(Nodes, u) /\ u # <<>> /\ Len(u) = Len(stack) + 1
          /\ \A i \in 1 .. Len(stack) : u[i] = stack[i]
        BY <1>0, <1>1, <1>7, <2>1, PushFrame
    <2> QED BY <1>8, <2>2
<1>10. ControlOK' /\ WalksOK' /\ InsertOK'
    <2>1. collected' \in SUBSET Items
        BY <1>0 DEF IInv, ControlOK
    <2> QED BY <1>0, <1>3, <2>1, WalkKeeps
<1>11. RootOK'
    BY <1>0, <1>2, <1>9 DEF IInv, RootOK
<1>12. DeadOK'
    <2> SUFFICES ASSUME NEW z \in Nodes \ {{}}, dead(z)
                 PROVE  op # "forward" /\ \E i \in 1 .. Len(stack') : stack'[i].node = z
        BY <1>0 DEF DeadOK, Nodes, dead
    <2>1. op # "forward" /\ \E i \in 1 .. Len(stack) : stack[i].node = z
        BY DEF IInv, DeadOK
    <2>2. \A i \in 1 .. Len(stack) : i \in 1 .. Len(stack')
        BY <1>2, <1>9
    <2> QED BY <1>9, <2>1, <2>2
<1>13. Shape(trie)' /\ StackOK(Nodes, stack)'
    BY <1>0, <1>1, <1>9 DEF Nodes
<1> QED BY <1>10, <1>11, <1>12, <1>13 DEF IInv

\* Where the caller goes on: in the map without the link of the call, if
\* that link was erased.
LEMMA ContinuedOK ==
  ASSUME Shape(trie), NEW f, FrameOK(Nodes, f), f.entered, f.at \in kids(Nodes, f.node),
         op \in {"remove", "backward", "forward"}
  PROVE  /\ continued(f).node = f.node
         /\ FrameOK(Nodes, continued(f))
         /\ continued(f).at \in (kids(Nodes, f.node) \ {f.at}) \cup {End}
         /\ continued(f) \in AFrame /\ continued(f).rest = f.rest /\ continued(f).entered
<1> DEFINE a == CASE op = "remove"   -> End
                  [] op = "backward" -> after(f.node, f.at)
                  [] op = "forward"  -> backFrom(f.node, f.at)
<1>1. /\ f \in AFrame /\ f.node \in Nodes /\ f.at \in AllKeys
      /\ next(f.node) = kids(Nodes, f.node) /\ next(f.node) \in SUBSET AllKeys
    BY NextIsKids DEF FrameOK, AFrame, kids
<1>2. a \in (kids(Nodes, f.node) \ {f.at}) \cup {End}
    <2>1. CASE op = "remove"
        BY <2>1
    <2>2. CASE op = "backward"
        <3>1. a = after(f.node, f.at)
            BY <2>2
        <3>2. a \in next(f.node) \cup {End} /\ (a # End => before(f.at, a))
            BY <1>1, <3>1, AfterPosition
        <3> HIDE DEF a
        <3> QED BY <1>1, <3>2, BeforeOrder
    <2>3. CASE op = "forward"
        <3>1. a = backFrom(f.node, f.at)
            BY <2>3
        <3>2. a \in next(f.node) \cup {End} /\ (a # End => before(a, f.at))
            BY <1>1, <3>1, BackPosition
        <3> HIDE DEF a
        <3> QED BY <1>1, <3>2, BeforeOrder
    <2> QED BY <2>1, <2>2, <2>3
<1>3. a \in AllKeys \cup {End}
    BY <1>1, <1>2
<1> DEFINE g == [f EXCEPT !.at = a]
<1>4. continued(f) = g
    BY DEF continued
<1> HIDE DEF a
<1>5. /\ g \in AFrame /\ g.node = f.node /\ g.rest = f.rest /\ g.entered = f.entered /\ g.at = a
    BY <1>1, <1>3 DEF AFrame
<1> HIDE DEF g
<1>6. FrameOK(Nodes, g)
    BY <1>2, <1>5 DEF FrameOK, AFrame
<1> QED BY <1>2, <1>4, <1>5, <1>6

\* The return into the loop of the caller, or out of the recursion.
LEMMA ReturnStep ==
  ASSUME IInv, Return
  PROVE  IInv'
<1> DEFINE n == Len(stack) - 1
<1>0. /\ stack # <<>> /\ top.entered /\ top.at = End
      /\ mode' = mode /\ op' = op /\ query' = query /\ walks' = walks /\ answer' = answer
      /\ collected' = collected
    BY DEF Return
<1>1. Shape(trie) /\ StackOK(Nodes, stack)
    BY DEF IInv
<1>2. /\ Len(stack) \in 1 .. Len(stack) /\ Len(stack) \in Nat /\ n \in Nat /\ 1 \in 1 .. Len(stack)
      /\ top = stack[Len(stack)]
    BY <1>0, <1>1 DEF StackOK, top
<1>3. op \in {"remove", "backward", "forward"}
    <2>1. op # "insert"
        <3> SUFFICES ASSUME op = "insert" PROVE FALSE
            OBVIOUS
        <3>1. PICK c \in query : TRUE
            BY DEF IInv, ControlOK
        <3>2. Len(stack) = 1 /\ ~ stack[1].entered
            BY <1>0, <3>1 DEF IInv, InsertOK
        <3> QED BY <1>0, <1>2, <3>2
    <2> QED BY <1>0, <2>1 DEF IInv, ControlOK, Operations
<1>4. collected' \in SUBSET Items
    BY <1>0 DEF IInv, ControlOK
<1>5. ControlOK' /\ WalksOK' /\ InsertOK'
    BY <1>0, <1>3, <1>4, WalkKeeps
<1>6. CASE n = 0
    <2>1. stack' = <<>> /\ trie' = trie
        BY <1>6 DEF Return
    <2>2. \A z \in Nodes \ {{}} : ~ dead(z)
        <3>1. Len(stack) = 1 /\ stack[1].node = {}
            BY <1>0, <1>2, <1>3, <1>6 DEF IInv, RootOK
        <3> QED BY <3>1 DEF IInv, DeadOK
    <2>3. DeadOK' /\ RootOK'
        BY <2>1, <2>2 DEF DeadOK, RootOK, Nodes, dead
    <2>4. Shape(trie)' /\ StackOK(Nodes, stack)'
        BY <1>1, <2>1, NoFrame
    <2> QED BY <1>5, <2>3, <2>4 DEF IInv
<1>7. CASE n # 0
    <2>0. n \in 1 .. Len(stack) /\ n < Len(stack) /\ Len(stack) > 1 /\ n \in 1 .. Len(stack) - 1
          /\ n + 1 = Len(stack)
        <3>1. \A L \in Nat : L - 1 \in Nat /\ L - 1 # 0 =>
                /\ L - 1 \in 1 .. L /\ L - 1 < L /\ L > 1 /\ L - 1 \in 1 .. L - 1
                /\ (L - 1) + 1 = L
            OBVIOUS
        <3> QED BY <1>2, <1>7, <3>1
    <2> DEFINE f == stack[n]
    <2> DEFINE g == continued(f)
    <2> DEFINE y == top.node
    <2> DEFINE x == f.node
    <2> DEFINE M == IF op # "forward" /\ dead(y) THEN Nodes \ {y} ELSE Nodes
    <2>1. stack' = [i \in 1 .. n |-> IF i = n THEN g ELSE stack[i]]
          /\ trie' = IF op = "forward" THEN trie ELSE prune(x, y)
        BY <1>7 DEF Return
    <2>2. /\ FrameOK(Nodes, f) /\ f.entered /\ f.at \in kids(Nodes, x)
          /\ y = x \cup {f.at}
        <3>1. stack[n + 1].node = stack[n].node \cup {stack[n].at}
            BY <1>1, <2>0 DEF StackOK
        <3> QED BY <1>1, <1>2, <2>0, <3>1 DEF StackOK
    <2>3. /\ g.node = x /\ FrameOK(Nodes, g)
          /\ g.at \in (kids(Nodes, x) \ {f.at}) \cup {End}
          /\ g \in AFrame /\ g.rest = f.rest /\ g.entered
        BY <1>1, <1>3, <2>2, ContinuedOK
    <2>4. x \in Nodes /\ y = stack[Len(stack)].node /\ x # y /\ f.at \notin x
        BY <1>2, <2>2 DEF FrameOK, kids
    <2> HIDE DEF g
    <2>5. /\ Shape(trie') /\ Nodes' = M /\ FrameOK(M, g)
          /\ \A z \in M \ {x} : kids(M, z) = kids(Nodes, z) /\ trie'[z] = trie[z]
        <3> HIDE DEF f, x, y
        <3>1. CASE op # "forward" /\ dead(y)
            <4> DEFINE t == prune(x, x \cup {f.at})
            <4>1. dead(x \cup {f.at})
                BY <2>2, <3>1
            <4>2. /\ Shape(t) /\ DOMAIN t = Nodes \ {x \cup {f.at}}
                  /\ kids(DOMAIN t, x) = kids(Nodes, x) \ {f.at}
                BY <1>1, <2>2, <2>4, <4>1, PruneShape
            <4>3. \A z \in DOMAIN t \ {x} : kids(DOMAIN t, z) = kids(Nodes, z) /\ t[z] = trie[z]
                <5>1. \A z \in DOMAIN t \ {x} : kids(DOMAIN t, z) = kids(Nodes, z)
                    BY <1>1, <2>2, <2>4, <4>1, PruneShape
                <5>2. \A z \in DOMAIN t \ {x} : t[z] = trie[z]
                    BY <1>1, <2>2, <2>4, <4>1, PruneShape
                <5> QED BY <5>1, <5>2
            <4>4. trie' = t
                BY <2>1, <2>2, <3>1
            <4> HIDE DEF t
            <4>5. M = Nodes \ {y} /\ DOMAIN trie' = M
                BY <2>2, <3>1, <4>2, <4>4
            <4> HIDE DEF M
            <4>6. kids(M, x) = kids(Nodes, x) \ {f.at}
                BY <4>2, <4>4, <4>5
            <4>7. FrameOK(M, g)
                BY <2>3, <2>4, <4>5, <4>6 DEF FrameOK
            <4> QED BY <4>2, <4>3, <4>4, <4>5, <4>7 DEF Nodes
        <3>2. CASE ~ (op # "forward" /\ dead(y))
            <4>1. trie' = trie
                BY <2>1, <3>2 DEF prune
            <4> QED BY <1>1, <2>3, <3>2, <4>1 DEF Nodes
        <3> QED BY <3>1, <3>2
    <2>6. M = Nodes \/ M = Nodes \ {stack[Len(stack)].node}
        BY <2>4
    <2> HIDE DEF M
    <2>7. /\ StackOK(M, stack') /\ stack' # <<>> /\ Len(stack') = n
          /\ \A i \in 1 .. n : stack'[i].node = stack[i].node /\ stack[i].node # stack[Len(stack)].node
        <3>1. stack' = backAt(stack, n, g)
            BY <2>1 DEF backAt
        <3>2. /\ FrameOK(M, g) /\ g.node = stack[n].node
              /\ \A z \in M \ {stack[n].node} : kids(M, z) = kids(Nodes, z)
            BY <2>3, <2>5
        <3>3. n = Len(stack) - 1
            OBVIOUS
        <3> HIDE DEF n, f, x, y
        <3>4. StackOK(M, backAt(stack, n, g))
            BY <1>1, <2>0, <2>6, <3>2, <3>3, PopFrame
        <3>5. backAt(stack, n, g) # <<>> /\ Len(backAt(stack, n, g)) = n
            <4>1. g \in AFrame /\ n \in Nat /\ n # 0
                BY <1>2, <1>7, <2>3
            <4>2. stack \in Seq(AFrame)
                BY <1>1 DEF StackOK, AFrame
            <4>3. \A i \in 1 .. n : i \in 1 .. Len(stack)
                BY <1>2, <2>0, <4>1
            <4>4. \A i \in 1 .. n : stack[i] \in AFrame
                BY <4>2, <4>3
            <4> QED BY <4>1, <4>4, BackLength
        <3>6. \A i \in 1 .. n : /\ backAt(stack, n, g)[i].node = stack[i].node
                                /\ stack[i].node # stack[Len(stack)].node
            BY <1>1, <2>0, <2>6, <3>2, <3>3, PopFrame
        <3> QED BY <3>1, <3>4, <3>5, <3>6
    <2>8. StackOK(Nodes, stack)'
        BY <2>5, <2>7
    <2>9. RootOK'
        <3>1. 1 \in 1 .. n /\ stack'[1].node = stack[1].node
            BY <1>2, <1>7, <2>7
        <3>2. stack[1].node = {}
            BY <1>0, <1>3 DEF IInv, RootOK
        <3> QED BY <3>1, <3>2 DEF RootOK
    <2>10. DeadOK'
        <3> SUFFICES ASSUME NEW z \in M \ {{}}, dead(z)'
                     PROVE  op # "forward" /\ \E i \in 1 .. n : stack'[i].node = z
            BY <1>0, <2>5, <2>7 DEF DeadOK
        <3>1. CASE z = x /\ op # "forward"
            BY <2>0, <2>7, <3>1
        <3>2. CASE op = "forward"
            <4>1. trie' = trie
                BY <2>1, <3>2
            <4>2. z \in Nodes \ {{}} /\ dead(z)
                BY <2>5, <4>1 DEF dead, Nodes
            <4> QED BY <3>2, <4>2 DEF IInv, DeadOK
        <3>3. CASE z # x /\ op # "forward"
            <4>1. trie'[z] = trie[z] /\ z \in Nodes
                BY <2>5, <2>6, <3>3
            <4>2. dead(z)
                BY <4>1 DEF dead
            <4>3. PICK i \in 1 .. Len(stack) : stack[i].node = z
                BY <4>1, <4>2 DEF IInv, DeadOK
            <4>4. z # y
                BY <4>2, <3>3 DEF M
            <4>5. i \in 1 .. n
                BY <1>2, <2>4, <4>3, <4>4
            <4> QED BY <2>7, <3>3, <4>3, <4>5
        <3> QED BY <3>1, <3>2, <3>3
    <2> QED BY <1>5, <2>5, <2>8, <2>9, <2>10 DEF IInv
<1> QED BY <1>6, <1>7

\* The return to the user.
LEMMA FinishStep ==
  ASSUME IInv, Finish
  PROVE  IInv'
<1>0. /\ stack = <<>> /\ walks = <<>> /\ op' = "idle" /\ collected' = {}
      /\ answer' \in {{}, collected}
      /\ mode' = mode /\ trie' = trie /\ query' = query /\ walks' = walks /\ stack' = stack
    BY DEF Finish
<1>1. \A z \in Nodes \ {{}} : ~ dead(z)
    BY <1>0, EmptyStack DEF IInv, DeadOK
<1>2. DeadOK'
    BY <1>0, <1>1 DEF DeadOK, Nodes, dead
<1>3. ControlOK' /\ WalksOK' /\ InsertOK' /\ RootOK'
    BY <1>0 DEF IInv, ControlOK, WalksOK, InsertOK, RootOK
<1>4. Shape(trie)' /\ StackOK(Nodes, stack)'
    BY <1>0 DEF IInv, Nodes
<1> QED BY <1>2, <1>3, <1>4 DEF IInv

\* The index is emptied.
LEMMA ClearStep ==
  ASSUME IInv, Clear
  PROVE  IInv'
<1>0. /\ op = "idle" /\ trie' = [x \in {} |-> Node] /\ query' = {} /\ answer' = {}
      /\ mode' = mode /\ op' = op /\ walks' = walks /\ stack' = stack /\ collected' = collected
    BY DEF Clear
<1>1. stack = <<>>
    BY <1>0 DEF IInv, ControlOK
<1>2. DOMAIN trie' = {}
    BY <1>0
<1>3. Shape(trie)'
    BY <1>2, FS_EmptySet DEF Shape, FiniteNodes, Closed
<1>4. StackOK(Nodes, stack)'
    BY <1>0, <1>1, NoFrame
<1>5. DeadOK'
    BY <1>2 DEF DeadOK, Nodes
<1>6. ControlOK' /\ WalksOK' /\ InsertOK' /\ RootOK'
    BY <1>0 DEF IInv, ControlOK, WalksOK, InsertOK, RootOK
<1> QED BY <1>3, <1>4, <1>5, <1>6 DEF IInv

(***************************************************************************)
(* The theorems.                                                           *)
(***************************************************************************)
\* The invariant holds in every state of an index in use.
LEMMA Inductive == Spec => []IInv
<1>1. Init => IInv
    BY InitIInv
<1>2. IInv /\ [Next]_vars => IInv'
    <2> SUFFICES ASSUME IInv, [Next]_vars PROVE IInv'
        OBVIOUS
    <2>1. CASE Begin
        BY <2>1, BeginStep
    <2>2. CASE InsertLink
        BY <2>2, InsertLinkStep
    <2>3. ASSUME NEW c \in query, InsertData(c) PROVE IInv'
        BY <2>3, InsertDataStep
    <2>4. ASSUME NEW c \in query, EnterRemove(c) PROVE IInv'
        BY <2>4, EnterRemoveStep
    <2>5. ASSUME NEW c \in query, EnterBackward(c) PROVE IInv'
        BY <2>5, EnterBackwardStep
    <2>6. ASSUME NEW c \in query, EnterForward(c) PROVE IInv'
        BY <2>6, EnterForwardStep
    <2>7. ASSUME NEW c \in query, Hit(c) PROVE IInv'
        BY <2>7, HitStep
    <2>8. CASE PassOver
        BY <2>8, PassOverStep
    <2>9. CASE Descend
        BY <2>9, DescendStep
    <2>10. CASE Return
        BY <2>10, ReturnStep
    <2>11. CASE Finish
        BY <2>11, FinishStep
    <2>12. ASSUME NEW o \in Operations, NEW c \in Items, Call(o, c) PROVE IInv'
        BY <2>12, CallStep
    <2>13. CASE Clear
        BY <2>13, ClearStep
    <2>14. CASE UNCHANGED vars
        BY <2>14 DEF vars, IInv, Nodes, ControlOK, WalksOK, InsertOK, RootOK, DeadOK, dead
    <2> QED BY <2>1, <2>2, <2>3, <2>4, <2>5, <2>6, <2>7, <2>8, <2>9, <2>10, <2>11,
               <2>12, <2>13, <2>14 DEF Next, Step
<1> QED BY <1>1, <1>2, PTL DEF Spec

\* The variables have their types, for every set of clauses in use.
THEOREM IndexTypeCorrect == Spec => []IndexTypeOK
  BY Inductive, IInvType, PTL

\* In every state, in the middle of a deletion too, the nodes hang together,
\* the counter that decides over deletion is the number of links, and every
\* clause is at the end of its own path.
THEOREM IndexKeepsShape == Spec => []TrieShape
  BY Inductive, IInvShape, PTL

\* No call of the recursion stands at a deleted node and no iterator at an
\* erased link: the walks never touch memory they have freed.
THEOREM IndexFramesLive == Spec => []FramesLive
  BY Inductive, IInvFrames, PTL

\* Between two calls no node but the root is empty and without branches.
THEOREM IndexNoDeadNode == Spec => []NoDeadNode
  BY Inductive, IInvDead, PTL

-----------------------------------------------------------------------------
(***************************************************************************)
(* SubsumptionIndex implements ClauseIndex: the walks over the trie find   *)
(* all that a set with the two subsumption tests would find, and nothing   *)
(* else.                                                                   *)
(***************************************************************************)
(***************************************************************************)
(* The tests of the abstract index are those of the trie.                  *)
(***************************************************************************)
LEMMA SameParts ==
  ASSUME NEW m, NEW s, NEW a, NEW b
  PROVE  /\ Contract!areEqual(m, a, b) <=> areEqual(m, a, b)
         /\ Contract!NowPart(s) = NowPart(s) /\ Contract!NextPart(s) = NextPart(s)
         /\ Contract!leadingAttribute(s) = leadingAttribute(s)
         /\ Contract!Keys(s) = Keys(s)
<1>1. Contract!areEqual(m, a, b) <=> areEqual(m, a, b)
    BY DEF Contract!areEqual, areEqual
<1>2. Contract!NowPart(s) = NowPart(s) /\ Contract!NextPart(s) = NextPart(s)
    BY DEF Contract!NowPart, NowPart, Contract!NextPart, NextPart
<1>3. Contract!leadingAttribute(s) = leadingAttribute(s)
    BY DEF Contract!leadingAttribute, leadingAttribute, Contract!NextPart, NextPart
<1>4. Contract!Keys(s) = Keys(s)
    BY DEF Contract!Keys, Keys, Contract!Key, Key
<1> QED BY <1>1, <1>2, <1>3, <1>4

\* Their paths and stretches are the same,
LEMMA SamePaths ==
  ASSUME NEW c, NEW d, NEW m
  PROVE  /\ Contract!Path(c) = Path(c)
         /\ Contract!Stretches(c) = Stretches(c)
         /\ Contract!SubsumesHelper(m, c, d) <=> SubsumesHelper(m, c, d)
<1>1. Contract!Path(c) = Path(c)
    BY SameParts DEF Contract!Path, Path
<1>2. Contract!Stretches(c) = Stretches(c)
    BY SameParts DEF Contract!Stretches, Stretches
<1>3. \A l : Contract!Key(l) = Key(l)
    BY DEF Contract!Key, Key
<1>4. Contract!SubsumesHelper(m, c, d) <=> SubsumesHelper(m, c, d)
    BY <1>3, SameParts DEF Contract!SubsumesHelper, SubsumesHelper
<1> QED BY <1>1, <1>2, <1>4

\* and so are their tests.
LEMMA SameTests ==
  ASSUME NEW m, NEW c, NEW d
  PROVE  /\ Contract!indexForward(m, c, d) <=> indexForward(m, c, d)
         /\ Contract!indexBackward(m, c, d) <=> indexBackward(m, c, d)
<1>1. Contract!forwardTestData(m, c, d) <=> forwardTestData(m, c, d)
    BY DEF Contract!forwardTestData, forwardTestData, Contract!leadingAttribute, leadingAttribute,
           Contract!areEqual, areEqual, Contract!NextPart, NextPart,
           Contract!SubsumesHelper, SubsumesHelper, Contract!Key, Key
<1>2. Contract!backwardTestData(m, c, d) <=> backwardTestData(m, c, d)
    BY DEF Contract!backwardTestData, backwardTestData, Contract!leadingAttribute, leadingAttribute,
           Contract!areEqual, areEqual, Contract!NextPart, NextPart,
           Contract!SubsumesHelper, SubsumesHelper, Contract!Key, Key
<1>3. Contract!indexForward(m, c, d) <=> indexForward(m, c, d)
    BY <1>1, SameParts, SamePaths DEF Contract!indexForward, indexForward
<1>4. Contract!indexBackward(m, c, d) <=> indexBackward(m, c, d)
    BY <1>2, SameParts, SamePaths DEF Contract!indexBackward, indexBackward
<1> QED BY <1>3, <1>4

(***************************************************************************)
(* What a call still has to find.                                          *)
(***************************************************************************)
home(d) == Keys(Path(d.lits))

\* The clauses that the call under way, with query c, asks for.
Sought(o, m, c, d) ==
  \/ o = "remove"   /\ d = c
  \/ o = "forward"  /\ indexForward(m, d.lits, c.lits)
  \/ o = "backward" /\ indexBackward(m, c.lits, d.lits)

\* Does a walk with the keys w lead to the node z?
Matches(o, w, z) ==
  \/ o = "remove"   /\ z = w
  \/ o = "forward"  /\ z \subseteq w
  \/ o = "backward" /\ w \subseteq z

\* The link from x on the way to z, and the links a loop has still to come to.
way(x, z) == greatest(z \ x)
Ahead(o, at, k) ==
  \/ o = "forward"  /\ before(k, at)
  \/ o = "backward" /\ before(at, k)

\* The frame f will come to z, directly or, on top of the stack, through the
\* link it stands at.
Finds(o, f, isTop, z) ==
  /\ Under(f.node, z) /\ Matches(o, f.node \cup f.rest, z)
  /\ \/ ~ f.entered
     \/ /\ z # f.node /\ f.at # End
        /\ Ahead(o, f.at, way(f.node, z)) \/ (isTop /\ f.at = way(f.node, z))

Pending(z) ==
  \/ \E i \in 1 .. Len(walks) : Matches(op, walks[i], z)
  \/ \E i \in 1 .. Len(stack) : Finds(op, stack[i], i = Len(stack), z)

\* What is walked belongs to the query.
OnQuery(o, c, w) ==
  /\ o = "backward" => home(c) \subseteq w
  /\ o = "forward" => \E s \in Stretches(c.lits) : w \subseteq Keys(s)

\* The loop of backwardSubsumes is never below the key it looks for.
NotBelow(o, f) ==
  o = "backward" /\ f.entered /\ f.at # End /\ f.rest # {} => ~ before(f.at, greatest(f.rest))

CallOK(c) ==
  /\ \A d \in collected : Sought(op, mode, c, d)
  /\ op = "forward" => collected = {} \/ \E d \in Contents : collected = {d}
  /\ \A i \in 1 .. Len(walks) : OnQuery(op, c, walks[i])
  /\ \A i \in 1 .. Len(stack) :
       OnQuery(op, c, stack[i].node \cup stack[i].rest) /\ NotBelow(op, stack[i])
  /\ (op = "forward" => collected = {}) =>
       \A d \in Contents : Sought(op, mode, c, d) => Pending(home(d))

RInv ==
  /\ op # "idle" => answer = {}
  /\ op \in {"idle", "insert"} => collected = {}
  /\ op \notin {"idle", "insert"} => \A c \in query : CallOK(c)

(***************************************************************************)
(* Paths, nodes and the way from one to the other.                         *)
(***************************************************************************)
\* No path holds a key and its complement.
LEMMA PathCorrect ==
  ASSUME NEW d \in Items, NEW j \in home(d), NEW k \in home(d), j[1] = k[1]
  PROVE  j = k
<1>1. /\ d.lits \in SUBSET Literals /\ OneKind(d.lits) /\ d.lits # {}
      /\ isCorrect("normal", d.lits)
    BY ItemsAssumption DEF Clauses, Modes
<1>2. PICK a \in Path(d.lits) : j = Key(a)
    BY DEF home, Keys
<1>3. PICK b \in Path(d.lits) : k = Key(b)
    BY DEF home, Keys
<1>4. a \in d.lits /\ b \in d.lits /\ a \in Literals /\ b \in Literals
    BY <1>1, <1>2, <1>3 DEF Path, NowPart
<1>5. a.prop = b.prop /\ j = <<a.prop, a.neg>> /\ k = <<b.prop, b.neg>>
      /\ a.neg \in BOOLEAN /\ b.neg \in BOOLEAN
    BY <1>2, <1>3, <1>4 DEF Key, Literals
<1>6. a.attr = b.attr
    <2>1. a.attr \in AttributesOf(d.lits) /\ b.attr \in AttributesOf(d.lits)
        BY <1>4 DEF AttributesOf
    <2>2. CASE AttributesOf(d.lits) \subseteq {"initial"} \/ AttributesOf(d.lits) \subseteq {"universal"}
        BY <2>1, <2>2
    <2>3. CASE AttributesOf(d.lits) \subseteq {"step_now", "step_next"}
        <3>1. CASE NextPart(d.lits) = {}
            BY <2>1, <2>3, <3>1, <1>4 DEF NextPart
        <3>2. CASE NextPart(d.lits) # {} /\ NowPart(d.lits) # {}
            BY <1>2, <1>3, <3>2 DEF Path, leadingAttribute, NowPart
        <3>3. CASE NowPart(d.lits) = {}
            BY <2>1, <2>3, <3>3, <1>4 DEF NowPart
        <3> QED BY <3>1, <3>2, <3>3
    <2> QED BY <1>1, <2>2, <2>3 DEF OneKind
<1>7. a.neg = b.neg
    BY <1>1, <1>4, <1>5, <1>6 DEF isCorrect, areEqual
<1> QED BY <1>5, <1>7

\* A clause held is in the list of its own node.
LEMMA DataHome ==
  ASSUME Shape(trie), NEW d \in Contents
  PROVE  /\ d \in Items /\ home(d) \in Nodes /\ d \in trie[home(d)].data
         /\ home(d) \in SUBSET AllKeys /\ IsFiniteSet(home(d))
         /\ \A j, k \in home(d) : j[1] = k[1] => j = k
<1>1. PICK x \in Nodes : d \in trie[x].data
    BY DEF Contents
<1>2. d \in Items /\ x = home(d)
    BY <1>1 DEF Shape, Nodes, home
<1>3. x \in SUBSET AllKeys /\ IsFiniteSet(x)
    BY DEF Shape, Nodes, FiniteNodes
<1>4. \A j, k \in home(d) : j[1] = k[1] => j = k
    BY <1>2, PathCorrect
<1> QED BY <1>1, <1>2, <1>3, <1>4

\* The way from a node to one below it starts with a link.
LEMMA WayIsLink ==
  ASSUME Shape(trie), NEW x \in Nodes, NEW z \in Nodes, Under(x, z), x # z
  PROVE  /\ way(x, z) \in next(x) /\ way(x, z) \in AllKeys /\ way(x, z) # End
         /\ way(x, z) \in z \ x
         /\ \A j \in z \ x : j = way(x, z) \/ before(j, way(x, z))
         /\ Under(x \cup {way(x, z)}, z)
         /\ z \ (x \cup {way(x, z)}) = {j \in z \ x : before(j, way(x, z))}
<1> DEFINE k == way(x, z)
<1>1. /\ x \in SUBSET AllKeys /\ z \in SUBSET AllKeys /\ IsFiniteSet(z)
      /\ \A y \in SUBSET z : Under(y, z) => y \in Nodes
    BY DEF Shape, Nodes, FiniteNodes, Closed
<1>2. /\ k \in z \ x
      /\ \A j \in z \ x : j = k \/ before(j, k)
      /\ Under(x, x \cup {k})
      /\ Under(x \cup {k}, z)
      /\ z \ (x \cup {k}) = {j \in z \ x : before(j, k)}
    BY <1>1, FirstKey DEF way
<1> HIDE DEF k
<1>3. x \cup {k} \in Nodes
    <2>1. x \cup {k} \in SUBSET z
        BY <1>2 DEF Under
    <2> QED BY <1>1, <1>2, <2>1
<1>4. k \in AllKeys /\ k # End
    BY <1>1, <1>2, EndIsNoKey
<1>5. k \in next(x)
    BY <1>2, <1>3, <1>4 DEF next
<1> QED BY <1>2, <1>4, <1>5 DEF k

\* Every node lies under the root.
LEMMA UnderRoot ==
  ASSUME Shape(trie), NEW z \in Nodes
  PROVE  {} \in Nodes /\ Under({}, z)
<1>1. Under({}, z)
    BY DEF Under
<1> QED BY <1>1 DEF Shape, Nodes, Closed

(***************************************************************************)
(* Steps the abstract index does not see.                                  *)
(***************************************************************************)
Unseen == UNCHANGED Contract!indexVars

\* Moving a clause from a list to what is collected is not seen.
LEMMA StutterStep ==
  ASSUME mode' = mode, op' = op, query' = query, answer' = answer,
         Contents' \cup collected' = Contents \cup collected
  PROVE  Unseen
BY DEF Unseen, Contract!indexVars

\* A trie that stays holds what it held.
LEMMA SameContents ==
  ASSUME trie' = trie
  PROVE  Contents' = Contents
BY DEF Contents, Nodes

\* A list loses clauses.
LEMMA TakenContents ==
  ASSUME Shape(trie), NEW x \in Nodes, NEW D \in SUBSET trie[x].data,
         trie' = listed(x, D)
  PROVE  /\ Contents' \cup (trie[x].data \ D) = Contents
         /\ \A d \in Contents' : d \in Contents /\ d \notin trie[x].data \ D
<1>1. D \in SUBSET Items /\ \A d \in D : x = home(d)
    BY DEF Shape, Nodes, home
<1>2. /\ Shape(trie') /\ DOMAIN trie' = Nodes /\ trie'[x].data = D
      /\ \A z \in Nodes : z # x => trie'[z] = trie[z]
    BY <1>1, DataShape DEF home
<1>3. \A d : d \in Contents <=> \E z \in Nodes : d \in trie[z].data
    BY DEF Contents
<1>4. \A d : d \in Contents' <=> \E z \in Nodes : d \in trie'[z].data
    BY <1>2 DEF Contents, Nodes
<1>5. \A d \in Contents' : d \in Contents
    BY <1>2, <1>3, <1>4
<1>6. \A d \in trie[x].data \ D : d \in Contents
    BY <1>3
<1>7. \A d \in Contents : d \in Contents' \/ d \in trie[x].data \ D
    BY <1>2, <1>3, <1>4
<1>8. ASSUME NEW d \in Contents', d \in trie[x].data \ D PROVE FALSE
    <2>1. PICK z \in Nodes : d \in trie'[z].data
        BY <1>4
    <2>2. z = home(d) /\ x = home(d)
        BY <1>2, <1>8, <2>1 DEF Shape, Nodes, home
    <2> QED BY <1>2, <1>8, <2>1, <2>2
<1> QED BY <1>5, <1>6, <1>7, <1>8

(***************************************************************************)
(* The call, and the first frame of a walk.                                *)
(***************************************************************************)
LEMMA WalksQuery ==
  ASSUME NEW c \in Items, NEW o \in Operations \ {"insert"}
  PROVE  /\ \A i \in 1 .. Len(Walks(o, c.lits)) : OnQuery(o, c, Walks(o, c.lits)[i])
         /\ \A m, d : Sought(o, m, c, d) =>
              \E i \in 1 .. Len(Walks(o, c.lits)) : Matches(o, Walks(o, c.lits)[i], home(d))
<1> DEFINE N == Keys(NextPart(c.lits))
<1> DEFINE W == Keys(NowPart(c.lits))
<1> DEFINE P == Keys(Path(c.lits))
<1>1. CASE o = "forward" /\ leadingAttribute(c.lits) = "step_next"
    <2>1. Walks(o, c.lits) = <<N, W>>
        BY <1>1 DEF Walks
    <2>2. \A s : s \in Stretches(c.lits) <=> s = NextPart(c.lits) \/ s = NowPart(c.lits)
        BY <1>1 DEF Stretches
    <2>3. \A m, d : Sought(o, m, c, d) => home(d) \subseteq N \/ home(d) \subseteq W
        BY <1>1, <2>2 DEF Sought, indexForward, home
    <2>4. OnQuery(o, c, N) /\ OnQuery(o, c, W)
        BY <1>1, <2>2 DEF OnQuery
    <2>5. \A z : (z \subseteq N => Matches(o, N, z)) /\ (z \subseteq W => Matches(o, W, z))
        BY <1>1 DEF Matches
    <2> HIDE DEF N, W
    <2>6. /\ Len(<<N, W>>) = 2 /\ <<N, W>>[1] = N /\ <<N, W>>[2] = W
          /\ 1 \in 1 .. 2 /\ 2 \in 1 .. 2 /\ \A i \in 1 .. 2 : i = 1 \/ i = 2
        OBVIOUS
    <2> QED BY <2>1, <2>3, <2>4, <2>5, <2>6
<1>2. CASE ~ (o = "forward" /\ leadingAttribute(c.lits) = "step_next")
    <2>1. Walks(o, c.lits) = <<P>>
        BY <1>2 DEF Walks
    <2>2. o = "forward" => Stretches(c.lits) = {c.lits} /\ Path(c.lits) = c.lits
        BY <1>2 DEF Stretches, Path
    <2>3. OnQuery(o, c, P)
        BY <2>2 DEF OnQuery, home
    <2>4. \A m, d : Sought(o, m, c, d) => Matches(o, P, home(d))
        BY <2>2 DEF Sought, Matches, indexForward, indexBackward, home
    <2> HIDE DEF P
    <2>5. Len(<<P>>) = 1 /\ <<P>>[1] = P /\ 1 \in 1 .. 1 /\ \A i \in 1 .. 1 : i = 1
        OBVIOUS
    <2> QED BY <2>1, <2>3, <2>4, <2>5
<1> QED BY <1>1, <1>2

\* A call is made: everything sought is pending on one of its walks.
LEMMA CallR ==
  ASSUME IInv, RInv, NEW o \in Operations, NEW c \in Items, Call(o, c)
  PROVE  RInv' /\ Contract!IndexNext
<1>0. /\ op = "idle" /\ (o = "insert" => c \notin Contents)
      /\ op' = o /\ query' = {c} /\ walks' = Walks(o, c.lits) /\ answer' = {}
      /\ mode' = mode /\ trie' = trie /\ stack' = stack /\ collected' = collected
    BY DEF Call
<1>1. stack' = <<>> /\ collected = {} /\ collected' = {}
    BY <1>0 DEF IInv, ControlOK, RInv
<1>2. Contents' = Contents
    BY <1>0, SameContents
<1>3. Contract!Ask(o, c)
    BY <1>0, <1>1, <1>2 DEF Contract!Ask
<1>4. Contract!IndexNext
    BY <1>3 DEF Contract!IndexNext, Operations, Contract!Operations
<1>5. CASE o = "insert"
    BY <1>0, <1>1, <1>4, <1>5 DEF RInv
<1>6. CASE o # "insert"
    <2>1. /\ \A i \in 1 .. Len(walks') : OnQuery(op', c, walks'[i])
          /\ \A d \in Contents' : Sought(op', mode', c, d) => Pending(home(d))'
        BY <1>0, <1>6, WalksQuery DEF Pending
    <2>2. CallOK(c)'
        BY <1>1, <2>1, EmptyStack DEF CallOK
    <2> QED BY <1>0, <1>1, <1>4, <2>2 DEF RInv
<1> QED BY <1>5, <1>6

\* The first frame of a walk takes over from the walk.
LEMMA BeginR ==
  ASSUME IInv, RInv, Begin
  PROVE  RInv' /\ Unseen
<1>0. /\ stack = <<>> /\ walks # <<>> /\ walks' = Tail(walks)
      /\ mode' = mode /\ op' = op /\ query' = query /\ collected' = collected /\ answer' = answer
    BY DEF Begin
<1>1. Shape(trie) /\ walks \in Seq(SUBSET AllKeys)
    BY DEF IInv, WalksOK
<1>2. {} \notin Nodes => Contents = {}
    BY <1>1, DataHome, UnderRoot
<1>3. Contents' = Contents
    <2>1. CASE op = "insert" /\ {} \notin Nodes
        <3>1. trie' = [x \in {{}} |-> Node]
            BY <2>1 DEF Begin
        <3>2. Nodes' = {{}} /\ trie'[{}].data = {}
            BY <3>1 DEF Nodes, Node
        <3>3. Contents' = {}
            BY <3>2 DEF Contents
        <3> QED BY <1>2, <2>1, <3>3
    <2>2. CASE ~ (op = "insert" /\ {} \notin Nodes)
        BY <2>2, SameContents DEF Begin
    <2> QED BY <2>1, <2>2
<1>4. Unseen
    BY <1>0, <1>3, StutterStep
<1>5. CASE op \in {"idle", "insert"}
    BY <1>0, <1>4, <1>5 DEF RInv
<1>6. CASE op \notin {"idle", "insert"}
    <2> SUFFICES ASSUME NEW c \in query PROVE CallOK(c)'
        BY <1>0, <1>4, <1>6 DEF RInv
    <2> DEFINE h == Head(walks)
    <2>1. CallOK(c)
        BY <1>6 DEF RInv
    <2>2. /\ 1 \in 1 .. Len(walks) /\ h = walks[1]
          /\ \A i \in 1 .. Len(walks') : walks'[i] = walks[i + 1] /\ i + 1 \in 1 .. Len(walks)
          /\ \A i \in 1 .. Len(walks) : i = 1 \/ (i - 1 \in 1 .. Len(walks') /\ walks'[i - 1] = walks[i])
        BY <1>0, <1>1
    <2>3. OnQuery(op, c, h) /\ \A i \in 1 .. Len(walks') : OnQuery(op, c, walks'[i])
        BY <2>1, <2>2 DEF CallOK
    <2> HIDE DEF h
    <2>4. CASE {} \in Nodes
        <3> DEFINE r == {}
        <3> DEFINE g == frame(r, h)
        <3>1. stack' = <<g>>
            BY <2>4 DEF Begin, h
        <3>2. g.node = {} /\ g.rest = h /\ g.at = End /\ g.entered = FALSE
            BY DEF frame
        <3> HIDE DEF g
        <3>3. Len(<<g>>) = 1 /\ <<g>>[1] = g /\ 1 \in 1 .. 1 /\ \A i \in 1 .. 1 : i = 1
            OBVIOUS
        <3>4. {} \cup h = h
            OBVIOUS
        <3>5. \A i \in 1 .. Len(stack') :
                OnQuery(op, c, stack'[i].node \cup stack'[i].rest) /\ NotBelow(op, stack'[i])
            BY <2>3, <3>1, <3>2, <3>3, <3>4 DEF NotBelow
        <3>6. ASSUME NEW d \in Contents, Pending(home(d))
              PROVE  Pending(home(d))'
            <4>1. PICK i \in 1 .. Len(walks) : Matches(op, walks[i], home(d))
                BY <1>0, <3>6, EmptyStack DEF Pending
            <4>2. CASE i = 1
                <5>1. Under({}, home(d))
                    BY DEF Under
                <5>2. Finds(op, g, TRUE, home(d))
                    BY <2>2, <3>2, <3>4, <4>1, <4>2, <5>1 DEF Finds
                <5> QED BY <1>0, <3>1, <3>3, <5>2 DEF Pending
            <4>3. CASE i # 1
                BY <1>0, <2>2, <4>1, <4>3 DEF Pending
            <4> QED BY <4>2, <4>3
        <3> QED BY <1>0, <1>3, <2>1, <2>3, <3>5, <3>6 DEF CallOK
    <2>5. CASE {} \notin Nodes
        <3>1. stack' = <<>>
            BY <1>0, <1>6, <2>5 DEF Begin
        <3> QED BY <1>0, <1>2, <1>3, <2>1, <2>3, <2>5, <3>1, EmptyStack DEF CallOK
    <2> QED BY <2>4, <2>5
<1> QED BY <1>5, <1>6

(***************************************************************************)
(* insert, clear and the return from a call.                               *)
(***************************************************************************)
LEMMA InsertLinkR ==
  ASSUME IInv, RInv, InsertLink
  PROVE  RInv' /\ Unseen
<1> DEFINE x == top.node
<1> DEFINE k == greatest(top.rest)
<1>0. /\ op = "insert" /\ stack # <<>> /\ top.rest # {} /\ trie' = link(x, k)
      /\ mode' = mode /\ op' = op /\ query' = query /\ walks' = walks
      /\ collected' = collected /\ answer' = answer
    BY DEF InsertLink
<1>1. RInv'
    BY <1>0 DEF RInv
<1>2. x \in Nodes /\ Shape(trie)
    BY <1>0, TopOK DEF IInv
<1>3. Contents' = Contents
    <2>1. CASE x \cup {k} \in Nodes
        BY <1>0, <2>1, SameContents DEF link
    <2>2. CASE x \cup {k} \notin Nodes
        <3>1. k \in top.rest /\ top.rest \in SUBSET AllKeys
            BY <1>0, TopOK, GreatestOf
        <3> HIDE DEF k, x
        <3>2. k \in AllKeys /\ k \notin x /\ Under(x, x \cup {k})
            <4>1. /\ \A i \in top.rest, j \in x : before(i, j)
                  /\ x \in SUBSET AllKeys
                BY <1>0, TopOK DEF x
            <4> QED BY <3>1, <4>1, BeforeOrder DEF Under
        <3> DEFINE t == link(x, k)
        <3>3. DOMAIN t = Nodes \cup {x \cup {k}} /\ t[x \cup {k}] = Node
            BY <1>2, <2>2, <3>2, LinkShape
        <3>4. \A z \in Nodes : t[z].data = trie[z].data
            BY <1>2, <3>2, LinkShape
        <3>5. trie' = t
            BY <1>0
        <3>6. Node.data = {}
            BY DEF Node
        <3> HIDE DEF t
        <3>7. \A d : d \in Contents <=> \E z \in Nodes : d \in trie[z].data
            BY DEF Contents
        <3>8. \A d : d \in Contents' <=> \E z \in Nodes \cup {x \cup {k}} : d \in trie'[z].data
            BY <3>3, <3>5 DEF Contents, Nodes
        <3>9. trie'[x \cup {k}].data = {} /\ \A z \in Nodes : trie'[z].data = trie[z].data
            BY <3>3, <3>4, <3>5, <3>6
        <3>10. \A d : d \in Contents' <=> d \in Contents
            BY <3>7, <3>8, <3>9
        <3> QED BY <3>10
    <2> QED BY <2>1, <2>2
<1> QED BY <1>0, <1>1, <1>3, StutterStep

\* The clause inserted is held.
LEMMA InsertDataR ==
  ASSUME IInv, RInv, NEW c \in query, InsertData(c)
  PROVE  RInv' /\ Contract!IndexNext
<1> DEFINE x == top.node
<1> DEFINE D == trie[x].data \cup {c}
<1>0. /\ op = "insert" /\ stack # <<>> /\ top.rest = {} /\ query = {c} /\ op' = "idle"
      /\ mode' = mode /\ query' = query /\ collected' = collected /\ answer' = answer
    BY DEF InsertData
<1>1. c \in Items /\ collected = {}
    BY <1>0 DEF IInv, ControlOK, RInv
<1>2. RInv'
    BY <1>0, <1>1 DEF RInv
<1>3. x \in Nodes
    BY <1>0, TopOK
<1>4. trie' = listed(x, D)
    BY DEF InsertData, listed
<1> HIDE DEF D, x
<1>5. Nodes' = Nodes /\ trie'[x].data = D /\ \A z \in Nodes : z # x => trie'[z] = trie[z]
    BY <1>3, <1>4 DEF listed, Nodes, IInv, Shape
<1>6. \A d : d \in Contents <=> \E z \in Nodes : d \in trie[z].data
    BY DEF Contents
<1>7. \A d : d \in Contents' <=> \E z \in Nodes : d \in trie'[z].data
    BY <1>5 DEF Contents
<1>8. Contents' = Contents \cup {c}
    <2>1. \A d : d \in trie'[x].data <=> d \in trie[x].data \/ d = c
        BY <1>5 DEF D
    <2>2. \A d : d \in Contents' <=> d \in Contents \/ d = c
        BY <1>3, <1>5, <1>6, <1>7, <2>1
    <2> QED BY <2>2
<1>9. answer = {}
    BY <1>0 DEF RInv
<1>10. Contract!Reply(c)
    BY <1>0, <1>1, <1>8, <1>9 DEF Contract!Reply
<1> QED BY <1>1, <1>2, <1>10 DEF Contract!IndexNext

\* Nothing is held.
LEMMA ClearR ==
  ASSUME IInv, RInv, Clear
  PROVE  RInv' /\ Contract!IndexNext
<1>0. /\ op = "idle" /\ trie' = [x \in {} |-> Node] /\ query' = {} /\ answer' = {}
      /\ mode' = mode /\ op' = op /\ collected' = collected
    BY DEF Clear
<1>1. collected = {}
    BY <1>0 DEF RInv
<1>2. Contents' = {}
    <2>1. Nodes' = {}
        BY <1>0 DEF Nodes
    <2> QED BY <2>1 DEF Contents
<1>3. Contract!Clear
    BY <1>0, <1>1, <1>2 DEF Contract!Clear
<1>4. RInv'
    BY <1>0, <1>1 DEF RInv
<1> QED BY <1>3, <1>4 DEF Contract!IndexNext

\* With nothing left to walk and no frame left nothing is pending.
LEMMA NothingPending ==
  ASSUME stack = <<>>, walks = <<>>, NEW z
  PROVE  ~ Pending(z)
BY EmptyStack DEF Pending

\* Nothing is pending: what is left in the trie is not sought, what was
\* collected is.
LEMMA FinishR ==
  ASSUME IInv, RInv, Finish
  PROVE  RInv' /\ Contract!IndexNext
<1>0. /\ op # "idle" /\ stack = <<>> /\ walks = <<>> /\ op' = "idle" /\ collected' = {}
      /\ answer' = (IF op = "remove" THEN {} ELSE collected)
      /\ mode' = mode /\ trie' = trie /\ query' = query
    BY DEF Finish
<1>1. RInv'
    BY <1>0 DEF RInv
<1>2. PICK c \in Items : query = {c}
    BY <1>0 DEF IInv, ControlOK
<1>3. op \in {"remove", "forward", "backward"}
    <2>1. op # "insert"
        BY <1>0, <1>2 DEF IInv, InsertOK
    <2> QED BY <1>0, <2>1 DEF IInv, ControlOK, Operations
<1>4. CallOK(c)
    BY <1>2, <1>3 DEF RInv
<1>5. Contents' = Contents
    BY <1>0, SameContents
<1>6. \A d \in collected : Sought(op, mode, c, d)
    BY <1>4 DEF CallOK
<1>7. (op = "forward" => collected = {}) => \A d \in Contents : ~ Sought(op, mode, c, d)
    BY <1>0, <1>4, NothingPending DEF CallOK
<1> DEFINE held == Contents \cup collected
<1>8. held' = Contents
    BY <1>0, <1>5
<1>9. CASE op = "remove"
    <2>1. \A d \in collected : d = c
        BY <1>6, <1>9 DEF Sought
    <2>2. c \notin Contents
        BY <1>7, <1>9 DEF Sought
    <2>3. held' = held \ {c} /\ answer' = {}
        BY <1>0, <1>8, <1>9, <2>1, <2>2
    <2>4. Contract!Reply(c)
        BY <1>0, <1>2, <1>9, <2>3 DEF Contract!Reply
    <2> QED BY <1>1, <2>4 DEF Contract!IndexNext
<1>10. CASE op = "forward"
    <2>1. Contract!subsuming(c) = {d \in held : indexForward(mode, d.lits, c.lits)}
        BY SameTests DEF Contract!subsuming
    <2>2. collected \subseteq Contents
        BY <1>4, <1>10 DEF CallOK
    <2>3. held' = held /\ answer' = collected
        BY <1>0, <1>8, <1>10, <2>2
    <2>4. CASE collected = {}
        <3>1. Contract!subsuming(c) = {}
            BY <1>7, <1>10, <2>1, <2>4 DEF Sought
        <3>2. Contract!Reply(c)
            BY <1>0, <1>2, <1>10, <2>3, <2>4, <3>1 DEF Contract!Reply
        <3> QED BY <1>1, <3>2 DEF Contract!IndexNext
    <2>5. CASE collected # {}
        <3>1. PICK d \in Contents : collected = {d}
            BY <1>4, <1>10, <2>5 DEF CallOK
        <3>2. d \in Contract!subsuming(c)
            BY <1>6, <1>10, <2>1, <3>1 DEF Sought
        <3>3. Contract!Reply(c)
            BY <1>0, <1>2, <1>10, <2>3, <3>1, <3>2 DEF Contract!Reply
        <3> QED BY <1>1, <3>3 DEF Contract!IndexNext
    <2> QED BY <2>4, <2>5
<1>11. CASE op = "backward"
    <2>1. Contract!subsumedItems(c) = {d \in held : indexBackward(mode, c.lits, d.lits)}
        BY SameTests DEF Contract!subsumedItems
    <2>2. \A d \in held : d \in collected <=> indexBackward(mode, c.lits, d.lits)
        BY <1>6, <1>7, <1>11 DEF Sought
    <2>3. \A d \in Contents : d \notin collected
        BY <1>6, <1>7, <1>11
    <2>4. Contract!subsumedItems(c) = collected
        BY <2>1, <2>2
    <2>5. held' = held \ Contract!subsumedItems(c) /\ answer' = Contract!subsumedItems(c)
        BY <1>0, <1>8, <1>11, <2>3, <2>4
    <2>6. Contract!Reply(c)
        BY <1>0, <1>2, <1>11, <2>5 DEF Contract!Reply
    <2> QED BY <1>1, <2>6 DEF Contract!IndexNext
<1> QED BY <1>3, <1>9, <1>10, <1>11

(***************************************************************************)
(* The walks.                                                              *)
(***************************************************************************)
Walking == op \in {"remove", "forward", "backward"}

\* A way to z that the top frame, its loop now at k, is still on.
OnWay(k, z) == k # End /\ (k = way(top.node, z) \/ Ahead(op, k, way(top.node, z)))

\* The loop of the top call goes to the link k; what was pending on the top
\* frame is taken, or still ahead.
LEMMA LoopR ==
  ASSUME IInv, RInv, Walking, stack # <<>>,
         mode' = mode, op' = op, query' = query, walks' = walks, answer' = answer,
         NEW k, k \in next(top.node) \cup {End}, stack' = moved(k),
         Contents' \subseteq Contents,
         Contents' \cup collected' = Contents \cup collected,
         op = "forward" => collected' = collected /\ Contents' = Contents,
         \A c \in query, d \in collected' \ collected : Sought(op, mode, c, d),
         op = "backward" /\ k # End /\ top.rest # {} => ~ before(k, greatest(top.rest)),
         \A c \in query, d \in Contents' :
           /\ Sought(op, mode, c, d)
           /\ op = "forward" => collected = {}
           /\ Finds(op, top, TRUE, home(d))
           => home(d) # top.node /\ OnWay(k, home(d))
  PROVE  RInv' /\ Unseen
<1>1. Unseen
    BY StutterStep
<1>2. op \notin {"idle", "insert"}
    BY DEF Walking
<1> SUFFICES ASSUME NEW c \in query PROVE CallOK(c)'
    BY <1>1, <1>2 DEF RInv
<1>3. CallOK(c)
    BY <1>2 DEF RInv
<1> DEFINE n == Len(stack)
<1>4. /\ n \in 1 .. n /\ \A i \in 1 .. n : i = n \/ (i \in 1 .. n - 1 /\ i # n)
      /\ top = stack[n]
    <2>1. Len(stack) \in Nat /\ Len(stack) # 0
        BY DEF IInv, StackOK
    <2> QED BY <2>1 DEF top
<1>5. /\ Len(stack') = n
      /\ \A i \in 1 .. n - 1 : stack'[i] = stack[i]
      /\ stack'[n].node = top.node
      /\ stack'[n].rest = top.rest
      /\ stack'[n].at = k /\ stack'[n].entered
    BY <1>4, MovedStack DEF IInv
<1> HIDE DEF n
<1>6. \A d \in collected' : Sought(op, mode, c, d)
    BY <1>3 DEF CallOK
<1>7. op = "forward" => collected' = {} \/ \E d \in Contents' : collected' = {d}
    BY <1>3 DEF CallOK
<1>8. \A i \in 1 .. Len(stack') :
        OnQuery(op, c, stack'[i].node \cup stack'[i].rest) /\ NotBelow(op, stack'[i])
    <2> SUFFICES ASSUME NEW i \in 1 .. n
                 PROVE  OnQuery(op, c, stack'[i].node \cup stack'[i].rest) /\ NotBelow(op, stack'[i])
        BY <1>5
    <2>1. OnQuery(op, c, stack[i].node \cup stack[i].rest) /\ NotBelow(op, stack[i])
        BY <1>3 DEF CallOK, n
    <2>2. CASE i = n
        <3>1. OnQuery(op, c, stack'[n].node \cup stack'[n].rest)
            BY <1>4, <1>5, <2>1, <2>2
        <3>2. NotBelow(op, stack'[n])
            BY <1>5 DEF NotBelow
        <3> QED BY <2>2, <3>1, <3>2
    <2>3. CASE i \in 1 .. n - 1
        BY <1>5, <2>1, <2>3
    <2> QED BY <1>4, <2>2, <2>3
<1>9. ASSUME op = "forward" => collected' = {},
             NEW d \in Contents', Sought(op, mode, c, d)
      PROVE  Pending(home(d))'
    <2>1. d \in Contents /\ Pending(home(d))
        BY <1>3, <1>9 DEF CallOK
    <2>2. CASE \E i \in 1 .. Len(walks) : Matches(op, walks[i], home(d))
        BY <2>2 DEF Pending
    <2>3. ASSUME NEW i \in 1 .. n, Finds(op, stack[i], i = n, home(d))
          PROVE  Pending(home(d))'
        <3>1. CASE i = n
            <4>1. Finds(op, top, TRUE, home(d))
                BY <1>4, <2>3, <3>1
            <4>2. home(d) # top.node /\ OnWay(k, home(d))
                BY <1>9, <4>1
            <4>3. Under(top.node, home(d)) /\ Matches(op, top.node \cup top.rest, home(d))
                BY <4>1 DEF Finds
            <4>4. Finds(op, stack'[n], TRUE, home(d))
                BY <1>5, <4>2, <4>3 DEF Finds, OnWay
            <4> QED BY <1>4, <1>5, <4>4 DEF Pending
        <3>2. CASE i \in 1 .. n - 1 /\ i # n
            <4>1. Finds(op, stack'[i], FALSE, home(d))
                BY <1>5, <2>3, <3>2
            <4>2. i \in 1 .. Len(stack') /\ (i = Len(stack') <=> FALSE)
                BY <1>5, <2>3, <3>2
            <4>3. Finds(op, stack'[i], i = Len(stack'), home(d))
                BY <4>1, <4>2
            <4> QED BY <4>2, <4>3 DEF Pending
        <3> QED BY <1>4, <2>3, <3>1, <3>2
    <2> QED BY <2>1, <2>2, <2>3 DEF Pending, n
<1>10. \A i \in 1 .. Len(walks') : OnQuery(op, c, walks'[i])
    BY <1>3 DEF CallOK
<1> QED BY <1>6, <1>7, <1>8, <1>9, <1>10 DEF CallOK

\* What there is to say about a node to come to and the top frame.
LEMMA TopWay ==
  ASSUME IInv, stack # <<>>, NEW d \in Contents,
         Under(top.node, home(d)), home(d) # top.node
  PROVE  /\ way(top.node, home(d)) \in next(top.node)
         /\ way(top.node, home(d)) \in home(d) \ top.node
         /\ way(top.node, home(d)) \in AllKeys
         /\ \A j \in home(d) \ top.node :
              j = way(top.node, home(d)) \/ before(j, way(top.node, home(d)))
<1>1. Shape(trie) /\ top.node \in Nodes
    BY TopOK DEF IInv
<1>2. home(d) \in Nodes
    BY <1>1, DataHome
<1> HIDE DEF home
<1> QED BY <1>1, <1>2, WayIsLink

\* What is left of the query is below the node.
LEMMA RestBelow ==
  ASSUME IInv, stack # <<>>
  PROVE  \A j \in top.rest : j \in AllKeys /\ j \notin top.node
<1>1. /\ top.node \in SUBSET AllKeys /\ top.rest \in SUBSET AllKeys
      /\ \A k \in top.rest, j \in top.node : before(k, j)
    BY TopOK
<1> QED BY <1>1, BeforeOrder

\* remove takes the clause, or goes on to the next key of its path.
LEMMA EnterRemoveR ==
  ASSUME IInv, RInv, NEW c \in query, EnterRemove(c)
  PROVE  RInv' /\ Unseen
<1> DEFINE x == top.node
<1> DEFINE g == greatest(top.rest)
<1> DEFINE k == IF g \in next(x) THEN g ELSE End
<1> DEFINE found == IF top.rest = {} THEN trie[x].data \cap {c} ELSE {}
<1> DEFINE D == trie[x].data \ found
<1>0. /\ op = "remove" /\ stack # <<>> /\ query = {c}
      /\ mode' = mode /\ op' = op /\ query' = query /\ walks' = walks /\ answer' = answer
      /\ stack' = moved(k)
    BY DEF EnterRemove
<1>1. x \in Nodes /\ Shape(trie) /\ k \in next(x) \cup {End}
    BY <1>0, TopOK DEF IInv
<1>2. /\ Contents' \cup found = Contents /\ collected' = collected \cup found
      /\ \A d \in Contents' : d \in Contents /\ d \notin found
    <2>1. CASE top.rest = {}
        <3>1. take(found)
            BY <2>1 DEF EnterRemove
        <3>2. collected' = collected \cup found /\ trie' = listed(x, D)
            BY <3>1 DEF take, listed
        <3>3. D \in SUBSET trie[x].data /\ found = trie[x].data \ D
            OBVIOUS
        <3> HIDE DEF D, found
        <3> QED BY <1>1, <3>2, <3>3, TakenContents
    <2>2. CASE top.rest # {}
        BY <2>2, SameContents DEF EnterRemove
    <2> QED BY <2>1, <2>2
<1>3. \A d \in collected' \ collected : Sought(op, mode, c, d)
    BY <1>0, <1>2 DEF Sought
<1>4. ASSUME NEW d \in Contents', Sought(op, mode, c, d), Finds(op, top, TRUE, home(d))
      PROVE  home(d) # x /\ OnWay(k, home(d))
    <2>1. d = c /\ d \in Contents /\ d \notin found
        BY <1>0, <1>2, <1>4 DEF Sought
    <2>2. Under(x, home(d)) /\ home(d) = x \cup top.rest
        BY <1>0, <1>4 DEF Finds, Matches
    <2>3. \A j \in top.rest : j \in AllKeys /\ j \notin x
        BY <1>0, RestBelow
    <2>4. home(d) # x
        <3> SUFFICES ASSUME home(d) = x PROVE FALSE
            OBVIOUS
        <3>1. top.rest = {}
            BY <2>2, <2>3
        <3>2. d \in trie[x].data
            BY <1>1, <2>1, DataHome
        <3> QED BY <2>1, <3>1, <3>2
    <2>5. home(d) \ x = top.rest
        BY <2>2, <2>3
    <2>6. way(x, home(d)) = g
        BY <2>5 DEF way
    <2>7. g \in next(x) /\ g \in AllKeys
        BY <1>0, <2>1, <2>2, <2>4, <2>6, TopWay
    <2>8. k = way(x, home(d)) /\ k # End
        BY <2>6, <2>7, EndIsNoKey
    <2> QED BY <2>4, <2>8 DEF OnWay
<1>5. Walking
    BY <1>0 DEF Walking
<1>6. Contents' \subseteq Contents /\ Contents' \cup collected' = Contents \cup collected
    BY <1>2
<1> HIDE DEF k, found
<1> QED BY <1>0, <1>1, <1>3, <1>4, <1>5, <1>6, LoopR

\* The loop of backwardSubsumes never starts below the key it looks for.
LEMMA FirstNotBelow ==
  ASSUME Shape(trie), NEW x \in Nodes, NEW R \in SUBSET AllKeys, IsFiniteSet(R), R # {},
         firstBackward(x, R) # End
  PROVE  ~ before(firstBackward(x, R), greatest(R))
<1> DEFINE g == greatest(R)
<1> DEFINE K == {j \in next(x) : ~ before(j, g)}
<1> DEFINE low == least(K)
<1>1. K \in SUBSET AllKeys /\ IsFiniteSet(K) /\ K \subseteq next(x)
    BY NextIsKids, FS_Subset
<1>2. low \in K \cup {End} /\ g \in AllKeys
    BY <1>1, LeastPosition, GreatestOf
<1>3. firstBackward(x, R) = IF low # End /\ low # g /\ low[1] = g[1] THEN after(x, low) ELSE low
    BY DEF firstBackward
<1>4. CASE low # End /\ low # g /\ low[1] = g[1]
    <2>1. low \in K /\ low \in AllKeys /\ ~ before(low, g)
        BY <1>1, <1>2, <1>4
    <2>2. firstBackward(x, R) = after(x, low)
        BY <1>3, <1>4
    <2> HIDE DEF low, g, K
    <2>3. before(low, after(x, low)) /\ after(x, low) \in AllKeys
        <3>1. after(x, low) # End
            BY <2>2
        <3> QED BY <2>1, <3>1, AfterPosition, NextIsKids
    <2>4. ~ before(after(x, low), g)
        BY <1>2, <2>1, <2>3, BeforeOrder
    <2> QED BY <2>2, <2>4 DEF g
<1>5. CASE ~ (low # End /\ low # g /\ low[1] = g[1])
    <2>1. low \in K
        BY <1>2, <1>3, <1>5
    <2> QED BY <1>3, <1>5, <2>1
<1> QED BY <1>4, <1>5

\* backwardSubsumes takes what the query subsumes, and the complement it
\* skips leads to nothing.
LEMMA EnterBackwardR ==
  ASSUME IInv, RInv, NEW c \in query, EnterBackward(c)
  PROVE  RInv' /\ Unseen
<1> DEFINE x == top.node
<1> DEFINE k == firstBackward(x, top.rest)
<1> DEFINE found == IF top.rest = {}
                    THEN {d \in trie[x].data : backwardTestData(mode, c.lits, d.lits)}
                    ELSE {}
<1> DEFINE D == trie[x].data \ found
<1>0. /\ op = "backward" /\ stack # <<>> /\ query = {c}
      /\ mode' = mode /\ op' = op /\ query' = query /\ walks' = walks /\ answer' = answer
      /\ stack' = moved(k)
    BY DEF EnterBackward
<1>1. x \in Nodes /\ Shape(trie) /\ top.rest \in SUBSET AllKeys /\ IsFiniteSet(top.rest)
    BY <1>0, TopOK DEF IInv
<1>11. /\ k \in next(x) \cup {End}
       /\ \A j \in next(x) :
            (top.rest # {} => /\ ~ before(j, greatest(top.rest))
                              /\ j = greatest(top.rest) \/ j[1] # greatest(top.rest)[1]) =>
              k # End /\ (j = k \/ before(k, j))
    BY <1>1, BackwardPosition
<1>12. k # End /\ top.rest # {} => ~ before(k, greatest(top.rest))
    BY <1>1, FirstNotBelow
<1>2. /\ Contents' \cup found = Contents /\ collected' = collected \cup found
      /\ \A d \in Contents' : d \in Contents /\ d \notin found
    <2>1. CASE top.rest = {}
        <3>1. take(found)
            BY <2>1 DEF EnterBackward
        <3>2. collected' = collected \cup found /\ trie' = listed(x, D)
            BY <3>1 DEF take, listed
        <3>3. D \in SUBSET trie[x].data /\ found = trie[x].data \ D
            OBVIOUS
        <3> HIDE DEF D, found
        <3> QED BY <1>1, <3>2, <3>3, TakenContents
    <2>2. CASE top.rest # {}
        BY <2>2, SameContents DEF EnterBackward
    <2> QED BY <2>1, <2>2
<1>3. \A d \in collected' \ collected : Sought(op, mode, c, d)
    <2> SUFFICES ASSUME NEW d \in found PROVE indexBackward(mode, c.lits, d.lits)
        BY <1>0, <1>2 DEF Sought
    <2>1. top.rest = {} /\ d \in trie[x].data /\ backwardTestData(mode, c.lits, d.lits)
        OBVIOUS
    <2>2. home(d) = x
        BY <1>1, <2>1 DEF Shape, Nodes, home
    <2>3. CallOK(c) /\ Len(stack) \in 1 .. Len(stack)
        BY <1>0 DEF RInv, IInv, StackOK
    <2>4. OnQuery(op, c, x \cup top.rest)
        BY <2>3 DEF CallOK, top
    <2>5. home(c) \subseteq x
        BY <1>0, <2>1, <2>4 DEF OnQuery
    <2> QED BY <2>1, <2>2, <2>5 DEF indexBackward, home
<1>4. ASSUME NEW d \in Contents', Sought(op, mode, c, d), Finds(op, top, TRUE, home(d))
      PROVE  home(d) # x /\ OnWay(k, home(d))
    <2>1. d \in Contents /\ d \notin found /\ indexBackward(mode, c.lits, d.lits)
        BY <1>0, <1>2, <1>4 DEF Sought
    <2>2. Under(x, home(d)) /\ x \cup top.rest \subseteq home(d)
        BY <1>0, <1>4 DEF Finds, Matches
    <2>3. \A j \in top.rest : j \in AllKeys /\ j \notin x
        BY <1>0, RestBelow
    <2>4. home(d) # x
        <3> SUFFICES ASSUME home(d) = x PROVE FALSE
            OBVIOUS
        <3>1. top.rest = {}
            BY <2>2, <2>3
        <3>2. d \in trie[x].data
            BY <1>1, <2>1, DataHome
        <3> QED BY <2>1, <3>1, <3>2 DEF indexBackward
    <2> DEFINE w == way(x, home(d))
    <2>5. /\ w \in next(x) /\ w \in home(d) \ x /\ w \in AllKeys
          /\ \A j \in home(d) \ x : j = w \/ before(j, w)
        BY <1>0, <2>1, <2>2, <2>4, TopWay
    <2>6. ASSUME top.rest # {}
          PROVE  /\ ~ before(w, greatest(top.rest))
                 /\ w = greatest(top.rest) \/ w[1] # greatest(top.rest)[1]
        <3> DEFINE g == greatest(top.rest)
        <3>1. g \in top.rest
            BY <1>1, <2>6, GreatestOf
        <3>2. g \in home(d) \ x /\ g \in AllKeys
            BY <2>2, <2>3, <3>1
        <3>3. w = g \/ before(g, w)
            BY <2>5, <3>2
        <3>4. w = g \/ w[1] # g[1]
            <4>1. \A i, j \in home(d) : i[1] = j[1] => i = j
                BY <1>1, <2>1, DataHome
            <4> QED BY <2>5, <3>2, <4>1
        <3> HIDE DEF g, w
        <3>5. ~ before(w, g)
            BY <2>5, <3>2, <3>3, BeforeOrder
        <3> QED BY <3>4, <3>5 DEF g, w
    <2>7. k # End /\ (w = k \/ before(k, w))
        BY <1>11, <2>5, <2>6
    <2> QED BY <1>0, <2>4, <2>7 DEF OnWay, Ahead
<1>5. Walking
    BY <1>0 DEF Walking
<1>6. Contents' \subseteq Contents /\ Contents' \cup collected' = Contents \cup collected
    BY <1>2
<1> HIDE DEF k, found
<1> QED BY <1>0, <1>11, <1>12, <1>3, <1>4, <1>5, <1>6, LoopR

\* forwardSubsumes starts at the greatest link the query has.
LEMMA EnterForwardR ==
  ASSUME IInv, RInv, NEW c \in query, EnterForward(c)
  PROVE  RInv' /\ Unseen
<1> DEFINE x == top.node
<1> DEFINE k == firstForward(x, top.rest)
<1>0. /\ op = "forward" /\ stack # <<>> /\ trie' = trie /\ query = {c} /\ hits(c) = {}
      /\ mode' = mode /\ op' = op /\ query' = query /\ walks' = walks /\ answer' = answer
      /\ collected' = collected /\ stack' = moved(k)
    BY DEF EnterForward
<1>1. x \in Nodes /\ Shape(trie) /\ top.rest \in SUBSET AllKeys /\ IsFiniteSet(top.rest)
    BY <1>0, TopOK DEF IInv
<1>2. /\ k \in next(x) \cup {End}
      /\ \A j \in next(x) \cap top.rest : k # End /\ (j = k \/ before(j, k))
    BY <1>1, ForwardPosition
<1>3. Contents' = Contents
    BY <1>0, SameContents
<1>4. ASSUME NEW d \in Contents', Sought(op, mode, c, d), Finds(op, top, TRUE, home(d))
      PROVE  home(d) # x /\ OnWay(k, home(d))
    <2>1. d \in Contents /\ indexForward(mode, d.lits, c.lits)
        BY <1>0, <1>3, <1>4 DEF Sought
    <2>2. Under(x, home(d)) /\ home(d) \subseteq x \cup top.rest
        BY <1>0, <1>4 DEF Finds, Matches
    <2>3. home(d) # x
        <3> SUFFICES ASSUME home(d) = x PROVE FALSE
            OBVIOUS
        <3>1. d \in trie[x].data
            BY <1>1, <2>1, DataHome
        <3> QED BY <1>0, <2>1, <3>1 DEF indexForward, hits
    <2> DEFINE w == way(x, home(d))
    <2>4. w \in next(x) /\ w \in home(d) \ x
        BY <1>0, <2>1, <2>2, <2>3, TopWay
    <2>5. w \in next(x) \cap top.rest
        BY <2>2, <2>4
    <2>6. k # End /\ (w = k \/ before(w, k))
        BY <1>2, <2>5
    <2> QED BY <1>0, <2>3, <2>6 DEF OnWay, Ahead
<1>5. Walking
    BY <1>0 DEF Walking
<1> HIDE DEF k
<1> QED BY <1>0, <1>2, <1>3, <1>4, <1>5, LoopR

\* What is found lies on a part of the query and passes the test.
LEMMA HitR ==
  ASSUME IInv, RInv, NEW c \in query, Hit(c)
  PROVE  RInv' /\ Unseen
<1> DEFINE x == top.node
<1>0. /\ op = "forward" /\ stack # <<>> /\ trie' = trie /\ query = {c}
      /\ mode' = mode /\ op' = op /\ query' = query /\ answer' = answer
      /\ stack' = <<>> /\ walks' = <<>>
    BY DEF Hit
<1>1. PICK d \in hits(c) : collected' = {d}
    BY DEF Hit
<1>2. x \in Nodes /\ Shape(trie)
    BY <1>0, TopOK DEF IInv
<1>3. d \in trie[x].data /\ forwardTestData(mode, d.lits, c.lits) /\ d \in Contents
    BY <1>2 DEF hits, Contents
<1>4. home(d) = x
    BY <1>2, <1>3 DEF Shape, Nodes, home
<1>5. CallOK(c) /\ Len(stack) \in 1 .. Len(stack)
    BY <1>0 DEF RInv, IInv, StackOK
<1>6. OnQuery(op, c, x \cup top.rest)
    BY <1>5 DEF CallOK, top
<1>7. Sought(op, mode, c, d)
    <2>1. PICK s \in Stretches(c.lits) : x \cup top.rest \subseteq Keys(s)
        BY <1>0, <1>6 DEF OnQuery
    <2>2. home(d) \subseteq Keys(s)
        BY <1>4, <2>1
    <2> QED BY <1>0, <1>3, <2>1, <2>2 DEF Sought, indexForward, home
<1>8. Contents' = Contents
    BY <1>0, SameContents
<1>9. collected \subseteq Contents
    BY <1>0, <1>5 DEF CallOK
<1>10. Unseen
    <2>1. Contents' \cup collected' = Contents \cup collected
        BY <1>1, <1>3, <1>8, <1>9
    <2> QED BY <1>0, <2>1, StutterStep
<1>11. CallOK(c)'
    <2>1. collected' # {}
        BY <1>1
    <2> QED BY <1>0, <1>1, <1>3, <1>7, <1>8, <2>1, EmptyStack DEF CallOK
<1> QED BY <1>0, <1>10, <1>11 DEF RInv

\* The link passed over is not on the way to anything sought.
LEMMA PassOverR ==
  ASSUME IInv, RInv, PassOver
  PROVE  RInv' /\ Unseen
<1> DEFINE x == top.node
<1> DEFINE b == backFrom(x, top.at)
<1> DEFINE k == IF \A j \in top.rest : before(top.at, j) THEN End ELSE b
<1>0. /\ op = "forward" /\ stack # <<>> /\ trie' = trie
      /\ top.entered /\ top.at # End /\ top.at \notin top.rest
      /\ mode' = mode /\ op' = op /\ query' = query /\ walks' = walks /\ answer' = answer
      /\ collected' = collected /\ stack' = moved(k)
    BY DEF PassOver
<1>1. x \in Nodes /\ Shape(trie) /\ top.at \in AllKeys /\ top.rest \in SUBSET AllKeys
    BY <1>0, TopOK DEF IInv, kids
<1>2. /\ b \in next(x) \cup {End}
      /\ \A j \in next(x) : before(j, top.at) => b # End /\ (j = b \/ before(j, b))
    BY <1>1, BackPosition
<1>3. Contents' = Contents
    BY <1>0, SameContents
<1> HIDE DEF b
<1>4. ASSUME NEW c \in query, NEW d \in Contents', Sought(op, mode, c, d),
             Finds(op, top, TRUE, home(d))
      PROVE  home(d) # x /\ OnWay(k, home(d))
    <2> DEFINE w == way(x, home(d))
    <2>1. /\ Under(x, home(d)) /\ home(d) \subseteq x \cup top.rest
          /\ home(d) # x /\ (before(w, top.at) \/ top.at = w)
        BY <1>0, <1>4 DEF Finds, Matches, Ahead
    <2>2. w \in next(x) /\ w \in home(d) \ x /\ w \in AllKeys
        BY <1>0, <1>3, <2>1, TopWay
    <2> HIDE DEF w
    <2>3. w \in top.rest /\ before(w, top.at)
        BY <1>0, <2>1, <2>2
    <2>4. ~ \A j \in top.rest : before(top.at, j)
        BY <1>1, <2>2, <2>3, BeforeOrder
    <2>5. k # End /\ (w = k \/ before(w, k))
        BY <1>2, <2>2, <2>3, <2>4
    <2> QED BY <1>0, <2>1, <2>5 DEF OnWay, Ahead, w
<1>5. Walking
    BY <1>0 DEF Walking
<1>6. k \in next(x) \cup {End}
    BY <1>2
<1> HIDE DEF k
<1> QED BY <1>0, <1>3, <1>4, <1>5, <1>6, LoopR

\* The call down the link takes over what is pending behind it.
LEMMA DescendR ==
  ASSUME IInv, RInv, Descend
  PROVE  RInv' /\ Unseen
<1> DEFINE x == top.node
<1> DEFINE k == top.at
<1> DEFINE y == x \cup {k}
<1> DEFINE K == {j \in top.rest : before(j, k)}
<1> DEFINE g == frame(y, K)
<1> DEFINE n == Len(stack)
<1>0. /\ stack # <<>> /\ top.entered /\ k # End /\ trie' = trie
      /\ (op = "forward" => k \in top.rest)
      /\ mode' = mode /\ op' = op /\ query' = query /\ walks' = walks /\ answer' = answer
      /\ collected' = collected /\ stack' = Append(stack, g)
    BY DEF Descend
<1>1. Contents' = Contents
    BY <1>0, SameContents
<1>2. Unseen
    BY <1>0, <1>1, StutterStep
<1>3. CASE op \in {"idle", "insert"}
    BY <1>0, <1>2, <1>3 DEF RInv
<1>4. CASE op \notin {"idle", "insert"}
    <2> SUFFICES ASSUME NEW c \in query PROVE CallOK(c)'
        BY <1>0, <1>2, <1>4 DEF RInv
    <2>1. CallOK(c)
        BY <1>4 DEF RInv
    <2>2. op \in {"remove", "forward", "backward"}
        BY <1>4 DEF IInv, ControlOK, Operations
    <2>3. /\ n \in 1 .. n /\ n \in Nat /\ \A i \in 1 .. n : i = n \/ (i \in 1 .. n - 1 /\ i # n)
          /\ \A i \in 1 .. n : i \in 1 .. n + 1 /\ i # n + 1
          /\ n + 1 \in 1 .. n + 1 /\ \A i \in 1 .. n + 1 : i \in 1 .. n \/ i = n + 1
        <3>1. n \in Nat /\ n # 0
            BY <1>0 DEF IInv, StackOK
        <3> HIDE DEF n
        <3> QED BY <3>1
    <2>4. top = stack[n]
        BY DEF top
    <2>5. /\ Len(stack') = n + 1 /\ stack'[n + 1] = g
          /\ \A i \in 1 .. n : stack'[i] = stack[i]
        <3>1. stack \in Seq(AFrame)
            BY DEF IInv, StackOK, AFrame
        <3> HIDE DEF g
        <3> QED BY <1>0, <2>3, <3>1
    <2>6. g.node = y /\ g.rest = K /\ g.at = End /\ g.entered = FALSE
        BY DEF frame
    <2>7. /\ x \in Nodes /\ Shape(trie) /\ k \in AllKeys
          /\ top.rest \in SUBSET AllKeys /\ IsFiniteSet(top.rest)
          /\ \A j \in top.rest : j \in AllKeys /\ j \notin x
        BY <1>0, TopOK, RestBelow DEF IInv, kids
    <2>8. OnQuery(op, c, x \cup top.rest) /\ NotBelow(op, top)
        BY <2>1, <2>3, <2>4 DEF CallOK
    <2>9. OnQuery(op, c, y \cup K)
        <3>1. CASE op = "backward"
            <4>1. home(c) \subseteq x \cup top.rest
                BY <2>8, <3>1 DEF OnQuery
            <4>2. \A j \in top.rest : j = k \/ before(j, k)
                <5> SUFFICES ASSUME NEW j \in top.rest PROVE j = k \/ before(j, k)
                    OBVIOUS
                <5> DEFINE h == greatest(top.rest)
                <5>1. h \in top.rest /\ h \in AllKeys /\ j \in AllKeys /\ (j = h \/ before(j, h))
                    BY <2>7, GreatestOf
                <5>2. ~ before(k, h)
                    BY <1>0, <2>8, <3>1 DEF NotBelow
                <5> HIDE DEF h, k
                <5> QED BY <2>7, <5>1, <5>2, BeforeOrder
            <4>3. x \cup top.rest \subseteq y \cup K
                BY <4>2
            <4> HIDE DEF y, K
            <4> QED BY <3>1, <4>1, <4>3 DEF OnQuery
        <3>2. CASE op = "forward"
            <4>1. y \cup K \subseteq x \cup top.rest
                BY <1>0, <3>2
            <4> HIDE DEF y, K
            <4> QED BY <2>8, <3>2, <4>1 DEF OnQuery
        <3>3. CASE op = "remove"
            BY <3>3 DEF OnQuery
        <3> QED BY <2>2, <3>1, <3>2, <3>3
    <2>10. ASSUME NEW d \in Contents, Finds(op, top, TRUE, home(d))
           PROVE  Finds(op, top, FALSE, home(d)) \/ Finds(op, g, TRUE, home(d))
        <3> DEFINE z == home(d)
        <3>1. /\ Under(x, z) /\ Matches(op, x \cup top.rest, z) /\ z # x
              /\ Ahead(op, k, way(x, z)) \/ k = way(x, z)
            BY <1>0, <2>10 DEF Finds
        <3>2. CASE Ahead(op, k, way(x, z))
            BY <1>0, <3>1, <3>2 DEF Finds
        <3>3. CASE k = way(x, z)
            <4>1. z \in Nodes
                BY <2>7, DataHome
            <4> HIDE DEF z
            <4>2. /\ Under(x \cup {k}, z) /\ k \in z \ x
                  /\ z \ (x \cup {k}) = {j \in z \ x : before(j, k)}
                BY <2>7, <3>1, <3>3, <4>1, WayIsLink
            <4>3. /\ Under(y, z) /\ x \subseteq z /\ y \subseteq z
                  /\ \A j \in z : j \in y \/ (j \notin x /\ before(j, k))
                  /\ \A j \in z \ x : before(j, k) => j \notin y
                BY <4>2 DEF Under
            <4>4. Matches(op, y \cup K, z)
                <5>1. CASE op = "remove"
                    <6>1. z = x \cup top.rest
                        BY <3>1, <5>1 DEF Matches
                    <6>2. z = y \cup K
                        BY <4>3, <6>1
                    <6> HIDE DEF y, K
                    <6> QED BY <5>1, <6>2 DEF Matches
                <5>2. CASE op = "forward"
                    <6>1. z \subseteq x \cup top.rest
                        BY <3>1, <5>2 DEF Matches
                    <6>2. z \subseteq y \cup K
                        BY <4>3, <6>1
                    <6> HIDE DEF y, K
                    <6> QED BY <5>2, <6>2 DEF Matches
                <5>3. CASE op = "backward"
                    <6>1. x \cup top.rest \subseteq z
                        BY <3>1, <5>3 DEF Matches
                    <6>2. y \cup K \subseteq z
                        BY <4>3, <6>1
                    <6> HIDE DEF y, K
                    <6> QED BY <5>3, <6>2 DEF Matches
                <5> QED BY <2>2, <5>1, <5>2, <5>3
            <4> HIDE DEF g, y, K
            <4> QED BY <2>6, <4>3, <4>4 DEF Finds, z
        <3> QED BY <3>1, <3>2, <3>3
    <2> HIDE DEF g, y, K, n, x, k
    <2>11. \A i \in 1 .. Len(stack') :
             OnQuery(op, c, stack'[i].node \cup stack'[i].rest) /\ NotBelow(op, stack'[i])
        <3>1. \A i \in 1 .. n :
                OnQuery(op, c, stack[i].node \cup stack[i].rest) /\ NotBelow(op, stack[i])
            BY <2>1 DEF CallOK, n
        <3>2. OnQuery(op, c, g.node \cup g.rest) /\ NotBelow(op, g)
            BY <2>6, <2>9 DEF NotBelow
        <3> QED BY <2>3, <2>5, <3>1, <3>2
    <2>12. ASSUME NEW d \in Contents, Pending(home(d))
           PROVE  Pending(home(d))'
        <3>1. CASE \E i \in 1 .. Len(walks) : Matches(op, walks[i], home(d))
            BY <1>0, <3>1 DEF Pending
        <3>2. ASSUME NEW i \in 1 .. n, Finds(op, stack[i], i = n, home(d))
              PROVE  Pending(home(d))'
            <4>1. CASE i = n
                <5>1. Finds(op, top, TRUE, home(d))
                    BY <2>4, <3>2, <4>1
                <5>2. CASE Finds(op, top, FALSE, home(d))
                    <6>1. n \in 1 .. Len(stack') /\ stack'[n] = top /\ (n = Len(stack') <=> FALSE)
                        BY <2>3, <2>4, <2>5
                    <6>2. Finds(op, stack'[n], n = Len(stack'), home(d))
                        BY <5>2, <6>1
                    <6> QED BY <1>0, <6>1, <6>2 DEF Pending
                <5>3. CASE Finds(op, g, TRUE, home(d))
                    <6>1. n + 1 \in 1 .. Len(stack') /\ stack'[n + 1] = g /\ (n + 1 = Len(stack') <=> TRUE)
                        BY <2>3, <2>5
                    <6>2. Finds(op, stack'[n + 1], n + 1 = Len(stack'), home(d))
                        BY <5>3, <6>1
                    <6> QED BY <1>0, <6>1, <6>2 DEF Pending
                <5> QED BY <2>10, <5>1, <5>2, <5>3
            <4>2. CASE i # n
                <5>1. Finds(op, stack[i], FALSE, home(d))
                    BY <3>2, <4>2
                <5>2. i \in 1 .. Len(stack') /\ stack'[i] = stack[i] /\ (i = Len(stack') <=> FALSE)
                    BY <2>3, <2>5, <3>2
                <5>3. Finds(op, stack'[i], i = Len(stack'), home(d))
                    BY <5>1, <5>2
                <5> QED BY <1>0, <5>2, <5>3 DEF Pending
            <4> QED BY <4>1, <4>2
        <3> QED BY <2>12, <3>1, <3>2 DEF Pending, n
    <2> QED BY <1>0, <1>1, <2>1, <2>11, <2>12 DEF CallOK
<1> QED BY <1>3, <1>4

\* Where the loop of the caller goes on.
LEMMA ContinuedAt ==
  ASSUME NEW f \in AFrame, Walking
  PROVE  /\ op = "backward" => continued(f).at = after(f.node, f.at)
         /\ op = "forward" => continued(f).at = backFrom(f.node, f.at)
         /\ op = "remove" => continued(f).at = End
BY DEF continued, AFrame, Walking

\* What is deleted on the way back is empty.
LEMMA PruneContents ==
  ASSUME Shape(trie), NEW x \in Nodes, NEW k \in kids(Nodes, x), trie' = prune(x, x \cup {k})
  PROVE  Contents' = Contents
<1> DEFINE y == x \cup {k}
<1> DEFINE t == prune(x, y)
<1>1. CASE ~ dead(y)
    <2>1. trie' = trie
        BY <1>1 DEF prune
    <2> QED BY <2>1, SameContents
<1>2. CASE dead(y)
    <2>1. DOMAIN t = Nodes \ {y} /\ \A z \in DOMAIN t : t[z].data = trie[z].data
        BY <1>2, PruneShape
    <2>2. trie[y].data = {} /\ trie' = t
        BY <1>2 DEF dead
    <2> HIDE DEF t, y
    <2>3. \A d : d \in Contents <=> \E z \in Nodes : d \in trie[z].data
        BY DEF Contents
    <2>4. \A d : d \in Contents' <=> \E z \in Nodes \ {y} : d \in trie[z].data
        BY <2>1, <2>2 DEF Contents, Nodes
    <2>5. \A d : d \in Contents' <=> d \in Contents
        BY <2>2, <2>3, <2>4
    <2> QED BY <2>5
<1> QED BY <1>1, <1>2

\* The call returned had nothing left to find; its caller goes on to the
\* links that were ahead.
LEMMA ReturnR ==
  ASSUME IInv, RInv, Return
  PROVE  RInv' /\ Unseen
<1> DEFINE n == Len(stack) - 1
<1> DEFINE f == stack[n]
<1> DEFINE g == continued(f)
<1> DEFINE x == f.node
<1>0. /\ stack # <<>> /\ top.entered /\ top.at = End
      /\ mode' = mode /\ op' = op /\ query' = query /\ walks' = walks /\ answer' = answer
      /\ collected' = collected
    BY DEF Return
<1>1. Shape(trie) /\ StackOK(Nodes, stack) /\ stack \in Seq(AFrame)
    BY DEF IInv, StackOK, AFrame
<1>2. /\ Len(stack) \in Nat /\ Len(stack) # 0 /\ top = stack[Len(stack)]
      /\ n \in Nat /\ n + 1 = Len(stack)
      /\ \A i \in 1 .. Len(stack) : i = Len(stack) \/ (i \in 1 .. n /\ i # Len(stack))
      /\ \A i \in 1 .. n : i \in 1 .. Len(stack)
    BY <1>0, <1>1 DEF StackOK, top
<1>3. n # 0 => /\ n \in 1 .. n /\ n \in 1 .. Len(stack) - 1 /\ n \in 1 .. Len(stack)
               /\ n < Len(stack) /\ Len(stack) \in 1 .. Len(stack)
    <2>1. \A L \in Nat : L - 1 # 0 /\ L # 0 =>
            /\ L - 1 \in 1 .. L - 1 /\ L - 1 \in 1 .. L /\ L - 1 < L /\ L \in 1 .. L
        OBVIOUS
    <2> QED BY <1>2, <2>1
<1>4. CASE n = 0
    <2>1. stack' = <<>> /\ trie' = trie
        BY <1>4 DEF Return
    <2>2. Contents' = Contents
        BY <2>1, SameContents
    <2>3. Unseen
        BY <1>0, <2>2, StutterStep
    <2>4. CASE op \in {"idle", "insert"}
        BY <1>0, <2>3, <2>4 DEF RInv
    <2>5. CASE op \notin {"idle", "insert"}
        <3> SUFFICES ASSUME NEW c \in query PROVE CallOK(c)'
            BY <1>0, <2>3, <2>5 DEF RInv
        <3>1. CallOK(c)
            BY <2>5 DEF RInv
        <3>2. ASSUME NEW d \in Contents, Pending(home(d))
              PROVE  \E i \in 1 .. Len(walks) : Matches(op, walks[i], home(d))
            <4> SUFFICES ASSUME NEW i \in 1 .. Len(stack),
                                Finds(op, stack[i], i = Len(stack), home(d))
                         PROVE  FALSE
                BY <3>2 DEF Pending
            <4>1. stack[i] = top
                <5>1. Len(stack) = 1 /\ i = 1
                    <6>1. \A L \in Nat : L - 1 = 0 => L = 1 /\ \A j \in 1 .. L : j = 1
                        OBVIOUS
                    <6> QED BY <1>2, <1>4, <6>1
                <5> QED BY <1>2, <5>1
            <4> QED BY <1>0, <4>1 DEF Finds
        <3>3. \A d \in Contents : Pending(home(d)) => Pending(home(d))'
            BY <1>0, <3>2 DEF Pending
        <3> QED BY <1>0, <2>1, <2>2, <3>1, <3>3, EmptyStack DEF CallOK
    <2> QED BY <2>4, <2>5
<1>5. CASE n # 0
    <2>1. stack' = backAt(stack, n, g) /\ trie' = IF op = "forward" THEN trie ELSE prune(x, top.node)
        BY <1>5 DEF Return, backAt
    <2>2. /\ f \in AFrame /\ x \in Nodes /\ f.entered /\ f.at \in kids(Nodes, x)
          /\ top.node = x \cup {f.at}
        <3>1. stack[n + 1].node = stack[n].node \cup {stack[n].at}
            BY <1>1, <1>3, <1>5 DEF StackOK
        <3>2. FrameOK(Nodes, f) /\ f.entered /\ f.at \in kids(Nodes, x)
            BY <1>1, <1>3, <1>5 DEF StackOK
        <3> QED BY <1>2, <3>1, <3>2 DEF FrameOK, AFrame
    <2>3. f.at \in AllKeys /\ f.at # End
        BY <2>2, EndIsNoKey DEF kids
    <2>4. Contents' = Contents
        <3>1. CASE op = "forward"
            BY <2>1, <3>1, SameContents
        <3>2. CASE op # "forward"
            <4>1. trie' = prune(x, x \cup {f.at})
                BY <2>1, <2>2, <3>2
            <4> HIDE DEF x, f
            <4> QED BY <1>1, <2>2, <4>1, PruneContents
        <3> QED BY <3>1, <3>2
    <2>5. Unseen
        BY <1>0, <2>4, StutterStep
    <2>6. CASE op \in {"idle", "insert"}
        BY <1>0, <2>5, <2>6 DEF RInv
    <2>7. CASE op \notin {"idle", "insert"}
        <3> SUFFICES ASSUME NEW c \in query PROVE CallOK(c)'
            BY <1>0, <2>5, <2>7 DEF RInv
        <3>1. CallOK(c)
            BY <2>7 DEF RInv
        <3>2. Walking
            BY <2>7 DEF IInv, ControlOK, Operations, Walking
        <3>3. g.node = x /\ g.rest = f.rest /\ g.entered /\ g \in AFrame
            <4>1. FrameOK(Nodes, f)
                BY <1>1, <1>3, <1>5 DEF StackOK
            <4> QED BY <1>1, <2>2, <3>2, <4>1, ContinuedOK DEF Walking
        <3>4. /\ op = "backward" => g.at = after(x, f.at)
              /\ op = "forward" => g.at = backFrom(x, f.at)
              /\ op = "remove" => g.at = End
            BY <2>2, <3>2, ContinuedAt
        <3> HIDE DEF g
        <3>5. /\ Len(stack') = n /\ stack'[n] = g
              /\ \A i \in 1 .. n : i # n => stack'[i] = stack[i]
            <4> HIDE DEF n
            <4>1. \A i \in 1 .. n : stack[i] \in AFrame
                <5>1. \A i \in 1 .. Len(stack) : stack[i] \in AFrame
                    BY <1>1
                <5> QED BY <1>2, <5>1
            <4>2. Len(backAt(stack, n, g)) = n
                BY <1>2, <1>5, <3>3, <4>1, BackLength
            <4>3. \A i \in 1 .. n : backAt(stack, n, g)[i] = IF i = n THEN g ELSE stack[i]
                BY DEF backAt
            <4> QED BY <1>3, <1>5, <2>1, <4>2, <4>3
        <3>6. OnQuery(op, c, x \cup f.rest) /\ NotBelow(op, f)
            BY <1>3, <1>5, <3>1 DEF CallOK
        <3>7. NotBelow(op, g)
            <4> SUFFICES ASSUME op = "backward", g.at # End, f.rest # {},
                                before(g.at, greatest(f.rest))
                         PROVE  FALSE
                BY <3>3 DEF NotBelow
            <4>1. ~ before(f.at, greatest(f.rest))
                BY <2>2, <2>3, <3>6 DEF NotBelow
            <4>2. before(f.at, g.at)
                BY <1>1, <2>2, <2>3, <3>4, AfterPosition
            <4>3. g.at \in AllKeys
                BY <3>3 DEF AFrame
            <4>4. greatest(f.rest) \in AllKeys
                <5>1. FrameOK(Nodes, f)
                    BY <1>1, <1>3, <1>5 DEF StackOK
                <5>2. f.rest \in SUBSET AllKeys /\ IsFiniteSet(f.rest)
                    BY <5>1 DEF FrameOK, AFrame
                <5> QED BY <5>2, GreatestOf
            <4> HIDE DEF f
            <4> QED BY <2>3, <4>1, <4>2, <4>3, <4>4, BeforeOrder
        <3>8. \A i \in 1 .. Len(stack') :
                OnQuery(op, c, stack'[i].node \cup stack'[i].rest) /\ NotBelow(op, stack'[i])
            <4>1. \A i \in 1 .. n :
                    OnQuery(op, c, stack[i].node \cup stack[i].rest) /\ NotBelow(op, stack[i])
                BY <1>2, <3>1 DEF CallOK
            <4>2. OnQuery(op, c, g.node \cup g.rest) /\ NotBelow(op, g)
                BY <3>3, <3>6, <3>7
            <4> HIDE DEF n
            <4> QED BY <3>5, <4>1, <4>2
        <3>9. ASSUME NEW d \in Contents, Finds(op, f, FALSE, home(d))
              PROVE  Finds(op, g, TRUE, home(d))
            <4> DEFINE z == home(d)
            <4> DEFINE w == way(x, z)
            <4>1. /\ Under(x, z) /\ Matches(op, x \cup f.rest, z) /\ z # x /\ Ahead(op, f.at, w)
                BY <2>2, <3>9 DEF Finds
            <4>2. z \in Nodes
                BY <1>1, DataHome
            <4> HIDE DEF z
            <4>3. w \in next(x)
                BY <1>1, <2>2, <4>1, <4>2, WayIsLink
            <4> HIDE DEF w, f, x
            <4>4. g.at # End /\ (w = g.at \/ Ahead(op, g.at, w))
                <5>1. CASE op = "backward"
                    <6>1. before(f.at, w)
                        BY <4>1, <5>1 DEF Ahead
                    <6>2. g.at # End /\ (w = g.at \/ before(g.at, w))
                        BY <1>1, <2>2, <2>3, <3>4, <4>3, <5>1, <6>1, AfterPosition
                    <6> QED BY <5>1, <6>2 DEF Ahead
                <5>2. CASE op = "forward"
                    <6>1. before(w, f.at)
                        BY <4>1, <5>2 DEF Ahead
                    <6>2. g.at # End /\ (w = g.at \/ before(w, g.at))
                        BY <1>1, <2>2, <2>3, <3>4, <4>3, <5>2, <6>1, BackPosition
                    <6> QED BY <5>2, <6>2 DEF Ahead
                <5> QED BY <4>1, <5>1, <5>2 DEF Ahead
            <4> QED BY <3>3, <4>1, <4>4 DEF Finds, w, z
        <3>10. ASSUME NEW d \in Contents, Pending(home(d))
               PROVE  Pending(home(d))'
            <4>1. CASE \E i \in 1 .. Len(walks) : Matches(op, walks[i], home(d))
                BY <1>0, <4>1 DEF Pending
            <4>2. ASSUME NEW i \in 1 .. Len(stack), Finds(op, stack[i], i = Len(stack), home(d))
                  PROVE  Pending(home(d))'
                <5>1. CASE i = Len(stack)
                    BY <1>0, <1>2, <4>2, <5>1 DEF Finds
                <5>2. CASE i \in 1 .. n /\ i # Len(stack) /\ i = n
                    <6>1. Finds(op, f, FALSE, home(d))
                        BY <4>2, <5>2
                    <6>2. Finds(op, g, TRUE, home(d))
                        BY <3>9, <6>1
                    <6> HIDE DEF n, f
                    <6>3. n \in 1 .. Len(stack') /\ stack'[n] = g /\ (n = Len(stack') <=> TRUE)
                        BY <1>3, <1>5, <3>5
                    <6>4. Finds(op, stack'[n], n = Len(stack'), home(d))
                        BY <6>2, <6>3
                    <6> QED BY <1>0, <6>3, <6>4 DEF Pending
                <5>3. CASE i \in 1 .. n /\ i # Len(stack) /\ i # n
                    <6>1. Finds(op, stack[i], FALSE, home(d))
                        BY <4>2, <5>3
                    <6> HIDE DEF n
                    <6>2. i \in 1 .. Len(stack') /\ stack'[i] = stack[i] /\ (i = Len(stack') <=> FALSE)
                        BY <3>5, <5>3
                    <6>3. Finds(op, stack'[i], i = Len(stack'), home(d))
                        BY <6>1, <6>2
                    <6> QED BY <1>0, <6>2, <6>3 DEF Pending
                <5> QED BY <1>2, <5>1, <5>2, <5>3
            <4> QED BY <3>10, <4>1, <4>2 DEF Pending
        <3> QED BY <1>0, <2>4, <3>1, <3>8, <3>10 DEF CallOK
    <2> QED BY <2>6, <2>7
<1> QED BY <1>4, <1>5

(***************************************************************************)
(* The theorem.                                                            *)
(***************************************************************************)
\* At the start nothing is held.
LEMMA InitR == Init => RInv /\ Contract!IndexInit
<1> SUFFICES ASSUME Init PROVE RInv /\ Contract!IndexInit
    OBVIOUS
<1>1. Contents = {} /\ collected = {}
    BY DEF Init, Contents, Nodes
<1> QED BY <1>1 DEF Init, RInv, Contract!IndexInit, Contract!Modes, Modes

\* Every step of the trie is a step of the abstract index, or one it does not
\* see.
LEMMA StepR ==
  ASSUME IInv, RInv, [Next]_vars
  PROVE  RInv' /\ [Contract!IndexNext]_(Contract!indexVars)
<1>1. CASE Begin
    BY <1>1, BeginR DEF Unseen
<1>2. CASE InsertLink
    BY <1>2, InsertLinkR DEF Unseen
<1>3. ASSUME NEW c \in query, InsertData(c)
      PROVE  RInv' /\ [Contract!IndexNext]_(Contract!indexVars)
    BY <1>3, InsertDataR
<1>4. ASSUME NEW c \in query, EnterRemove(c)
      PROVE  RInv' /\ [Contract!IndexNext]_(Contract!indexVars)
    BY <1>4, EnterRemoveR DEF Unseen
<1>5. ASSUME NEW c \in query, EnterBackward(c)
      PROVE  RInv' /\ [Contract!IndexNext]_(Contract!indexVars)
    BY <1>5, EnterBackwardR DEF Unseen
<1>6. ASSUME NEW c \in query, EnterForward(c)
      PROVE  RInv' /\ [Contract!IndexNext]_(Contract!indexVars)
    BY <1>6, EnterForwardR DEF Unseen
<1>7. ASSUME NEW c \in query, Hit(c)
      PROVE  RInv' /\ [Contract!IndexNext]_(Contract!indexVars)
    BY <1>7, HitR DEF Unseen
<1>8. CASE PassOver
    BY <1>8, PassOverR DEF Unseen
<1>9. CASE Descend
    BY <1>9, DescendR DEF Unseen
<1>10. CASE Return
    BY <1>10, ReturnR DEF Unseen
<1>11. CASE Finish
    BY <1>11, FinishR
<1>12. ASSUME NEW o \in Operations, NEW c \in Items, Call(o, c)
       PROVE  RInv' /\ [Contract!IndexNext]_(Contract!indexVars)
    BY <1>12, CallR
<1>13. CASE Clear
    BY <1>13, ClearR
<1>14. CASE UNCHANGED vars
    <2>1. /\ mode' = mode /\ trie' = trie /\ op' = op /\ query' = query /\ walks' = walks
          /\ stack' = stack /\ collected' = collected /\ answer' = answer
        BY <1>14 DEF vars
    <2>2. Contents' = Contents
        BY <2>1, SameContents
    <2>3. Unseen
        BY <2>1, <2>2, StutterStep
    <2>4. RInv'
        BY <2>1, <2>2 DEF RInv, CallOK, Pending
    <2> QED BY <2>3, <2>4 DEF Unseen
<1> QED BY <1>1, <1>2, <1>3, <1>4, <1>5, <1>6, <1>7, <1>8, <1>9, <1>10, <1>11, <1>12,
           <1>13, <1>14 DEF Next, Step

\* The trie and its walks implement the set of clauses with its two tests:
\* what a call returns, and what it leaves in the index, is what the set
\* would return and hold.  A clause another one subsumes is never missed.
THEOREM IndexImplements == Spec => ImplementsClauseIndex
<1>1. Init => RInv /\ Contract!IndexInit
    BY InitR
<1>2. IInv /\ RInv /\ [Next]_vars => RInv' /\ [Contract!IndexNext]_(Contract!indexVars)
    BY StepR
<1>3. Spec => []IInv
    BY Inductive
<1> QED BY <1>1, <1>2, <1>3, PTL DEF Spec, ImplementsClauseIndex, Contract!IndexSpec
=============================================================================
