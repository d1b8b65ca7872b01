--------------------------- MODULE TlCacheProofs ----------------------------
(***************************************************************************)
(* Theorems about TlCache, for every number of address bits, nodes and     *)
(* code blocks: the tree is a tree, and the cache implements the map       *)
(* setup_tu() takes it for.  Walk is a recursive function; facts about it  *)
(* are proved by the least depth at which they could fail.                 *)
(***************************************************************************)
EXTENDS TlCache, WellFoundedInduction, TLAPS

-----------------------------------------------------------------------------
(* The least-number principle                                              *)

NatLess == {ss \in Nat \X Nat : ss[1] < ss[2]}

\* The library states it for an operator turned into a relation.
LEMMA NatWF == IsWellFoundedOn(NatLess, Nat)
<1>1. IsWellFoundedOn(OpToRel(<, Nat), Nat)
  BY NatLessThanWellFounded, Zenon
<1>2. QED BY <1>1, Zenon DEF OpToRel, NatLess

\* A nonempty set of naturals has a least element.
LEMMA LeastNat ==
    ASSUME NEW T \in SUBSET Nat, T # {}
    PROVE  \E x \in T : \A y \in T : x <= y
<1>1. PICK x \in T : \A y \in T : ~ (<<y, x>> \in NatLess)
  BY WFMin, NatWF
<1>2. ASSUME NEW y \in T PROVE x <= y
  <2>1. x \in Nat /\ y \in Nat
    OBVIOUS
  <2>2. <<y, x>> \notin NatLess
    BY <1>1
  <2>3. ASSUME y < x PROVE <<y, x>> \in NatLess
    BY <2>1, <2>3 DEF NatLess
  <2> QED BY <2>1, <2>2, <2>3
<1> QED BY <1>2

-----------------------------------------------------------------------------
(* Addresses and slots                                                     *)

\* Functions with the same values are the same.
IsFunction(f, S, R)  == f \in [S -> R]
AgreeOn(f, g, S) == \A x \in S : f[x] = g[x]
LEMMA SameFunction ==
    ASSUME NEW S, NEW R, NEW f, NEW g, IsFunction(f, S, R), IsFunction(g, S, R),
           AgreeOn(f, g, S)
    PROVE  f = g
BY DEF IsFunction, AgreeOn

\* Addresses with the same bits are the same.
LEMMA SameAddress ==
    ASSUME NEW a \in SrcAddr, NEW b \in SrcAddr, \A i \in 1 .. Bits : a[i] = b[i]
    PROVE  a = b
<1>1. IsFunction(a, 1 .. Bits, BOOLEAN) /\ IsFunction(b, 1 .. Bits, BOOLEAN)
  BY Zenon DEF SrcAddr, IsFunction
<1>2. AgreeOn(a, b, 1 .. Bits)
  BY Zenon DEF AgreeOn
<1> QED BY <1>1, <1>2, SameFunction, Zenon

Tree == [Node -> [BOOLEAN -> Slot]]

\* A pointer to a node tells which, and differs from every other slot value.
LEMMA Pointers ==
    /\ \A n \in Node : ToNode(n) \in ToNodes /\ ToNode(n) \in Slot
                       /\ ToNode(n).node = n /\ ToNode(n) # Null /\ ToNode(n) # Garbage
    /\ \A b \in Block : ToBlock(b) \in ToBlocks /\ ToBlock(b) \in Slot
                        /\ ToBlock(b).block = b /\ ToBlock(b) # Null
    /\ \A s \in ToNodes : s.node \in Node /\ s = ToNode(s.node)
    /\ Null \notin ToNodes /\ Null \notin ToBlocks
    /\ Garbage \notin ToNodes /\ Garbage \notin ToBlocks
    /\ Null \in Slot /\ Garbage \in Slot
    /\ Root \in Node
<1>1. /\ \A n \in Node : ToNode(n) \in ToNodes /\ ToNode(n).node = n
      /\ \A b \in Block : ToBlock(b) \in ToBlocks /\ ToBlock(b).block = b
  BY DEF ToNodes, ToBlocks, ToNode, ToBlock
<1>2. \A s \in ToNodes : s.node \in Node /\ s = ToNode(s.node)
  BY DEF ToNodes, ToNode
<1>3. /\ Null \notin ToNodes /\ Null \notin ToBlocks
      /\ Garbage \notin ToNodes /\ Garbage \notin ToBlocks
  BY NullAssumption
<1>4. Root \in Node
  BY TlCacheAssumption DEF Root, Node
<1> QED BY <1>1, <1>2, <1>3, <1>4, Zenon DEF Slot

\* No node looks like a block: the records have different fields.
LEMMA NodesNoBlocks == ToNodes \cap ToBlocks = {}
<1>1. ASSUME NEW n \in Node, NEW b \in Block, ToNode(n) = ToBlock(b) PROVE FALSE
  <2>1. DOMAIN ToNode(n) = {"node"} /\ DOMAIN ToBlock(b) = {"block"}
    BY DEF ToNode, ToBlock
  <2> QED BY <2>1, <1>1
<1> QED BY <1>1, Zenon DEF ToNodes, ToBlocks

LEMMA FollowType ==
    ASSUME NEW c \in Tree, NEW s, NEW b \in BOOLEAN
    PROVE  Follow(c, s, b) \in Slot
BY Pointers DEF Follow, Tree

-----------------------------------------------------------------------------
(* Walks                                                                   *)

\* f holds what the walk comes to after each of the first k bits.
IsWalk(f, k, c, a) ==
    /\ f \in [0 .. k -> Slot]
    /\ f[0] = ToNode(Root)
    /\ \A d \in 1 .. k : f[d] = Follow(c, f[d - 1], a[d])

LEMMA WalkBits ==
    ASSUME NEW c \in Tree, NEW a \in SrcAddr
    PROVE  \E f : IsWalk(f, Bits, c, a)
<1> DEFINE T == {k \in 0 .. Bits : ~ \E f : IsWalk(f, k, c, a)}
<1>0. Bits \in Nat
  BY TlCacheAssumption
<1>1. SUFFICES ASSUME T # {} PROVE FALSE
  BY <1>0
<1>2. PICK k \in T : \A j \in T : k <= j
  <2>1. T \in SUBSET Nat
    BY <1>0
  <2> HIDE DEF T
  <2> QED BY <2>1, <1>1, LeastNat
<1>3. CASE k = 0
  <2>1. IsWalk([d \in 0 .. 0 |-> ToNode(Root)], 0, c, a)
    BY Pointers DEF IsWalk
  <2> QED BY <1>3, <2>1
<1>4. CASE k # 0
  <2>1. k - 1 \in 0 .. Bits /\ ~ (k <= k - 1) /\ k \in 1 .. Bits
    BY <1>0, <1>4
  <2>2. PICK f : IsWalk(f, k - 1, c, a)
    BY <1>2, <2>1
  <2> DEFINE v == Follow(c, f[k - 1], a[k])
             g == [d \in 0 .. k |-> IF d = k THEN v ELSE f[d]]
  <2>3. a[k] \in BOOLEAN
    BY <2>1 DEF SrcAddr
  <2>4. v \in Slot
    BY <2>3, FollowType
  <2> HIDE DEF v
  <2>5. g \in [0 .. k -> Slot]
    BY <2>1, <2>2, <2>4 DEF IsWalk
  <2>6. \A d \in 0 .. k - 1 : g[d] = f[d]
    BY <2>1
  <2>7. g[k] = v
    BY <2>1
  <2>8. g[0] = ToNode(Root)
    BY <2>1, <2>2, <2>6 DEF IsWalk
  <2>9. ASSUME NEW d \in 1 .. k PROVE g[d] = Follow(c, g[d - 1], a[d])
    <3>1. CASE d = k
      BY <2>1, <2>6, <2>7, <3>1 DEF v
    <3>2. CASE d # k
      <4>1. d \in 1 .. k - 1 /\ d \in 0 .. k - 1 /\ d - 1 \in 0 .. k - 1
        BY <2>1, <3>2
      <4> QED BY <2>2, <2>6, <4>1 DEF IsWalk
    <3> QED BY <3>1, <3>2
  <2>10. IsWalk(g, k, c, a)
    BY <2>5, <2>8, <2>9 DEF IsWalk
  <2> QED BY <2>10
<1> QED BY <1>3, <1>4

\* Walk is the function its recursive definition describes.
LEMMA WalkIsWalk ==
    ASSUME NEW c \in Tree, NEW a \in SrcAddr
    PROVE  IsWalk(Walk(c, a), Bits, c, a)
<1> DEFINE E(f) == [d \in 0 .. Bits |->
                       IF d = 0 THEN ToNode(Root) ELSE Follow(c, f[d - 1], a[d])]
<1>0. Bits \in Nat
  BY TlCacheAssumption
<1>1. PICK g : IsWalk(g, Bits, c, a)
  BY WalkBits
<1>2. ASSUME NEW d \in 0 .. Bits PROVE g[d] = E(g)[d]
  BY <1>0, <1>1 DEF IsWalk
<1>3. g = E(g)
  BY <1>1, <1>2 DEF IsWalk
<1>4. Walk(c, a) = CHOOSE f : f = E(f)
  BY Zenon DEF Walk
<1>5. Walk(c, a) = E(Walk(c, a))
  <2> DEFINE P(f) == f = E(f)
  <2>1. \E f : P(f)
    BY <1>3
  <2>2. Walk(c, a) = CHOOSE f : P(f)
    BY <1>4
  <2> HIDE DEF P
  <2>3. P(CHOOSE f : P(f))
    BY <2>1, Zenon
  <2>4. P(Walk(c, a))
    BY <2>2, <2>3
  <2> QED BY <2>4 DEF P
<1> DEFINE w == Walk(c, a)
<1> HIDE DEF w
<1>6. w = E(w)
  BY <1>5 DEF w
<1>7. w[0] = ToNode(Root)
  BY <1>0, <1>6
<1>8. ASSUME NEW d \in 1 .. Bits PROVE w[d] = Follow(c, w[d - 1], a[d])
  BY <1>0, <1>6
<1>9. ASSUME NEW d \in 0 .. Bits PROVE w[d] \in Slot
  <2>1. CASE d = 0
    BY <2>1, <1>7, Pointers
  <2>2. CASE d # 0
    <3>1. d \in 1 .. Bits
      BY <1>0, <2>2
    <3>2. a[d] \in BOOLEAN
      BY <3>1 DEF SrcAddr
    <3>3. Follow(c, w[d - 1], a[d]) \in Slot
      BY <3>2, FollowType
    <3> QED BY <1>8, <3>1, <3>3
  <2> QED BY <2>1, <2>2
<1>10. w \in [0 .. Bits -> Slot]
  BY <1>6, <1>9
<1> QED BY <1>7, <1>8, <1>10 DEF IsWalk, w
-----------------------------------------------------------------------------
(* What a tree's shape says of the walks down it                           *)

\* What the lemmas below need of Walk.
LEMMA WalkStep ==
    ASSUME NEW c \in Tree, NEW a \in SrcAddr
    PROVE  /\ Walk(c, a)[0] = ToNode(Root)
           /\ \A d \in 0 .. Bits : Walk(c, a)[d] \in Slot
           /\ \A d \in 1 .. Bits, n \in Node :
                 Walk(c, a)[d - 1] = ToNode(n) => Walk(c, a)[d] = c[n][a[d]]
           /\ \A d \in 1 .. Bits :
                 Walk(c, a)[d - 1] \notin ToNodes => Walk(c, a)[d] = Null
<1>1. IsWalk(Walk(c, a), Bits, c, a)
  BY WalkIsWalk
<1>2. Bits \in Nat
  BY TlCacheAssumption
<1>3. Walk(c, a)[0] = ToNode(Root) /\ \A d \in 0 .. Bits : Walk(c, a)[d] \in Slot
  BY <1>1, <1>2 DEF IsWalk
<1>4. \A d \in 1 .. Bits : Walk(c, a)[d] = Follow(c, Walk(c, a)[d - 1], a[d])
  BY <1>1 DEF IsWalk
<1>5. ASSUME NEW d \in 1 .. Bits, NEW n \in Node, Walk(c, a)[d - 1] = ToNode(n)
      PROVE  Walk(c, a)[d] = c[n][a[d]]
  BY <1>4, <1>5, Pointers DEF Follow
<1>6. ASSUME NEW d \in 1 .. Bits, Walk(c, a)[d - 1] \notin ToNodes
      PROVE  Walk(c, a)[d] = Null
  BY <1>4, <1>6 DEF Follow
<1> QED BY <1>3, <1>5, <1>6

\* A walk that came to a slot without a node stays at Null.
LEMMA WalkStuck ==
    ASSUME NEW c \in Tree, NEW a \in SrcAddr, NEW d \in 0 .. Bits,
           Walk(c, a)[d] \notin ToNodes
    PROVE  \A e \in d + 1 .. Bits : Walk(c, a)[e] = Null
<1> DEFINE T == {e \in d + 1 .. Bits : Walk(c, a)[e] # Null}
<1>0. Bits \in Nat /\ d \in Nat
  BY TlCacheAssumption
<1>1. SUFFICES ASSUME T # {} PROVE FALSE
  OBVIOUS
<1>2. PICK e \in T : \A j \in T : e <= j
  <2>1. T \in SUBSET Nat
    BY <1>0
  <2> HIDE DEF T
  <2> QED BY <2>1, <1>1, LeastNat
<1>3. e \in 1 .. Bits /\ e - 1 \in d .. Bits /\ ~ (e <= e - 1)
  BY <1>0
<1>4. Walk(c, a)[e - 1] \notin ToNodes
  <2>1. CASE e - 1 = d
    BY <2>1
  <2>2. CASE e - 1 # d
    <3>1. e - 1 \in d + 1 .. Bits /\ e - 1 \notin T
      BY <1>0, <1>2, <1>3, <2>2
    <3> QED BY <3>1, Pointers
  <2> QED BY <2>1, <2>2
<1>5. Walk(c, a)[e] = Null
  BY <1>3, <1>4, WalkStep
<1> QED BY <1>5

\* The root is no child, and no node is the child of two slots.
RootNoChild(c) == \A m \in Node, b \in BOOLEAN : c[m][b] # ToNode(Root)
OneParent(c) ==
    \A n \in Node, m1, m2 \in Node, b1, b2 \in BOOLEAN :
       c[m1][b1] = ToNode(n) /\ c[m2][b2] = ToNode(n) => m1 = m2 /\ b1 = b2

\* How a walk got to a node.
LEMMA WalkBack ==
    ASSUME NEW c \in Tree, NEW a \in SrcAddr, NEW d \in 1 .. Bits, NEW n \in Node,
           Walk(c, a)[d] = ToNode(n)
    PROVE  \E m \in Node : Walk(c, a)[d - 1] = ToNode(m) /\ c[m][a[d]] = ToNode(n)
<1>1. Walk(c, a)[d - 1] \in ToNodes
  BY WalkStep, Pointers
<1>2. PICK m \in Node : Walk(c, a)[d - 1] = ToNode(m)
  BY <1>1, Zenon DEF ToNodes
<1> QED BY <1>2, WalkStep

\* Only one path leads to a node: walks that meet have taken the same bits.
LEMMA WalkUnique ==
    ASSUME NEW c \in Tree, RootNoChild(c), OneParent(c),
           NEW a \in SrcAddr, NEW b \in SrcAddr
    PROVE  \A d, e \in 0 .. Bits, n \in Node :
              Walk(c, a)[d] = ToNode(n) /\ Walk(c, b)[e] = ToNode(n)
                 => d = e /\ \A i \in 1 .. d : a[i] = b[i]
<1> DEFINE Good(d) ==
             \A e \in 0 .. Bits, n \in Node :
                Walk(c, a)[d] = ToNode(n) /\ Walk(c, b)[e] = ToNode(n)
                   => d = e /\ \A i \in 1 .. d : a[i] = b[i]
           T == {d \in 0 .. Bits : ~ Good(d)}
<1>0. Bits \in Nat
  BY TlCacheAssumption
<1>a. \A i \in 1 .. Bits : a[i] \in BOOLEAN /\ b[i] \in BOOLEAN
  BY DEF SrcAddr
<1>1. SUFFICES ASSUME T # {} PROVE FALSE
  OBVIOUS
<1>2. PICK d \in T : \A j \in T : d <= j
  <2>1. T \in SUBSET Nat
    BY <1>0
  <2> HIDE DEF T
  <2> QED BY <2>1, <1>1, LeastNat
<1>3. PICK e \in 0 .. Bits, n \in Node :
         /\ Walk(c, a)[d] = ToNode(n) /\ Walk(c, b)[e] = ToNode(n)
         /\ ~ (d = e /\ \A i \in 1 .. d : a[i] = b[i])
  BY <1>2
<1>4. CASE d = 0
  <2>1. n = Root
    BY <1>3, <1>4, WalkStep, Pointers
  <2>2. e = 0
    <3>1. SUFFICES ASSUME e # 0 PROVE FALSE
      OBVIOUS
    <3>2. e \in 1 .. Bits
      BY <1>0, <3>1
    <3>3. PICK m \in Node : c[m][b[e]] = ToNode(n)
      BY <1>3, <3>2, WalkBack
    <3> QED BY <1>a, <2>1, <3>2, <3>3 DEF RootNoChild
  <2> QED BY <1>3, <1>4, <2>2
<1>5. CASE d # 0
  <2>1. d \in 1 .. Bits /\ d - 1 \in 0 .. Bits /\ ~ (d <= d - 1)
    BY <1>0, <1>5
  <2>2. PICK m1 \in Node : Walk(c, a)[d - 1] = ToNode(m1) /\ c[m1][a[d]] = ToNode(n)
    BY <1>3, <2>1, WalkBack
  <2>3. e # 0
    <3>1. SUFFICES ASSUME e = 0 PROVE FALSE
      OBVIOUS
    <3>2. n = Root
      BY <1>3, <3>1, WalkStep, Pointers
    <3> QED BY <1>a, <2>1, <2>2, <3>2 DEF RootNoChild
  <2>4. e \in 1 .. Bits /\ e - 1 \in 0 .. Bits
    BY <1>0, <2>3
  <2>5. PICK m2 \in Node : Walk(c, b)[e - 1] = ToNode(m2) /\ c[m2][b[e]] = ToNode(n)
    BY <1>3, <2>4, WalkBack
  <2>6. m1 = m2 /\ a[d] = b[e]
    BY <1>a, <2>1, <2>2, <2>4, <2>5 DEF OneParent
  <2>7. Good(d - 1)
    BY <1>2, <2>1
  <2>8. d - 1 = e - 1 /\ \A i \in 1 .. d - 1 : a[i] = b[i]
    BY <2>2, <2>4, <2>5, <2>6, <2>7
  <2>9. d = e
    BY <2>1, <2>4, <2>8
  <2>10. ASSUME NEW i \in 1 .. d PROVE a[i] = b[i]
    <3>1. CASE i = d
      BY <2>6, <2>9, <3>1
    <3>2. CASE i # d
      <4>1. i \in 1 .. d - 1
        BY <2>1, <3>2
      <4> QED BY <2>8, <4>1
    <3> QED BY <3>1, <3>2
  <2> QED BY <1>3, <2>9, <2>10
<1> QED BY <1>4, <1>5
-----------------------------------------------------------------------------
(* What the two changes of the tree do to every walk                       *)

\* c2 is c with the cleared node k hung into slot x of node n.
Grown(c, c2, n, x, k) ==
    /\ c2[n][x] = ToNode(k)
    /\ \A b \in BOOLEAN : c2[k][b] = Null
    /\ \A m \in Node, b \in BOOLEAN :
          m # k /\ ~ (m = n /\ b = x) => c2[m][b] = c[m][b]

\* c2 is c with s in slot x of node n.
Stored(c, c2, n, x, s) ==
    /\ c2[n][x] = s
    /\ \A m \in Node, b \in BOOLEAN : ~ (m = n /\ b = x) => c2[m][b] = c[m][b]

\* A walk for a0 has reached node n and looks at its bit e.
At(c, a0, n, e) == Walk(c, a0)[e - 1] = ToNode(n)

\* Only the walks that found nothing in the slot get anything new, the node
\* itself at the depth the put has reached.
LEMMA GrowWalk ==
    ASSUME NEW c \in Tree, NEW c2 \in Tree, RootNoChild(c), OneParent(c),
           NEW n \in Node, NEW k \in Node, k # n, k # Root,
           \A m \in Node, b \in BOOLEAN : c[m][b] # ToNode(k),
           NEW a0 \in SrcAddr, NEW e \in 1 .. Bits, At(c, a0, n, e),
           c[n][a0[e]] = Null, Grown(c, c2, n, a0[e], k),
           NEW a \in SrcAddr
    PROVE  \A d \in 0 .. Bits :
              \/ Walk(c2, a)[d] = Walk(c, a)[d]
              \/ d = e /\ Walk(c, a)[d] = Null /\ Walk(c2, a)[d] = ToNode(k)
<1> DEFINE Good(d) ==
              \/ Walk(c2, a)[d] = Walk(c, a)[d]
              \/ d = e /\ Walk(c, a)[d] = Null /\ Walk(c2, a)[d] = ToNode(k)
           T == {d \in 0 .. Bits : ~ Good(d)}
<1>0. Bits \in Nat
  BY TlCacheAssumption
<1>1. SUFFICES ASSUME T # {} PROVE FALSE
  OBVIOUS
<1>2. PICK d \in T : \A j \in T : d <= j
  <2>1. T \in SUBSET Nat
    BY <1>0
  <2> HIDE DEF T
  <2> QED BY <2>1, <1>1, LeastNat
<1>3. d \in 0 .. Bits /\ ~ Good(d)
  OBVIOUS
<1>4. d # 0
  BY <1>3, WalkStep
<1>5. d \in 1 .. Bits /\ d - 1 \in 0 .. Bits /\ ~ (d <= d - 1)
  BY <1>0, <1>3, <1>4
<1>6. Good(d - 1)
  BY <1>2, <1>5
<1>7. a[d] \in BOOLEAN /\ a0[e] \in BOOLEAN
  BY <1>5 DEF SrcAddr
<1>8. CASE Walk(c2, a)[d - 1] = Walk(c, a)[d - 1]
  <2>1. Walk(c, a)[d - 1] \in ToNodes
    <3>1. SUFFICES ASSUME Walk(c, a)[d - 1] \notin ToNodes PROVE FALSE
      OBVIOUS
    <3>2. Walk(c, a)[d] = Null
      BY <1>5, <3>1, WalkStep
    <3>3. Walk(c2, a)[d] = Null
      BY <1>5, <1>8, <3>1, WalkStep
    <3> QED BY <1>3, <3>2, <3>3
  <2>2. PICK m \in Node : Walk(c, a)[d - 1] = ToNode(m)
    BY <2>1, Zenon DEF ToNodes
  <2>3. Walk(c, a)[d] = c[m][a[d]]
    BY <1>5, <2>2, WalkStep
  <2>4. Walk(c2, a)[d] = c2[m][a[d]]
    BY <1>5, <1>8, <2>2, WalkStep
  <2>5. m # k
    <3>1. SUFFICES ASSUME m = k PROVE FALSE
      OBVIOUS
    <3>2. CASE d - 1 = 0
      BY <2>2, <3>1, <3>2, WalkStep, Pointers
    <3>3. CASE d - 1 # 0
      <4>1. d - 1 \in 1 .. Bits
        BY <1>0, <1>5, <3>3
      <4>2. PICK p \in Node : c[p][a[d - 1]] = ToNode(k)
        BY <2>2, <3>1, <4>1, WalkBack
      <4>3. a[d - 1] \in BOOLEAN
        BY <4>1 DEF SrcAddr
      <4> QED BY <4>2, <4>3
    <3> QED BY <3>2, <3>3
  <2>6. m = n /\ a[d] = a0[e]
    BY <1>3, <1>7, <2>3, <2>4, <2>5 DEF Grown
  <2>7. e - 1 \in 0 .. Bits
    BY <1>0
  <2>8. d - 1 = e - 1
    BY <1>5, <2>2, <2>6, <2>7, WalkUnique DEF At
  <2>9. d = e
    BY <1>0, <1>5, <2>8
  <2>10. Walk(c, a)[d] = Null /\ Walk(c2, a)[d] = ToNode(k)
    BY <2>3, <2>4, <2>6 DEF Grown
  <2> QED BY <1>3, <2>9, <2>10
<1>9. CASE /\ d - 1 = e /\ Walk(c, a)[d - 1] = Null
           /\ Walk(c2, a)[d - 1] = ToNode(k)
  <2>1. Walk(c, a)[d] = Null
    BY <1>5, <1>9, WalkStep, Pointers
  <2>2. Walk(c2, a)[d] = c2[k][a[d]]
    BY <1>5, <1>9, WalkStep
  <2>3. Walk(c2, a)[d] = Null
    BY <1>7, <2>2 DEF Grown
  <2> QED BY <1>3, <2>1, <2>3
<1> QED BY <1>6, <1>8, <1>9

\* Storing in the slot of the last bit changes the end of one walk.
LEMMA StoreWalk ==
    ASSUME NEW c \in Tree, NEW c2 \in Tree, RootNoChild(c), OneParent(c),
           NEW n \in Node, NEW a0 \in SrcAddr, At(c, a0, n, Bits),
           NEW s, Stored(c, c2, n, a0[Bits], s),
           NEW a \in SrcAddr
    PROVE  \A d \in 0 .. Bits :
              Walk(c2, a)[d] = IF d = Bits /\ a = a0 THEN s ELSE Walk(c, a)[d]
<1> DEFINE Good(d) ==
              Walk(c2, a)[d] = IF d = Bits /\ a = a0 THEN s ELSE Walk(c, a)[d]
           T == {d \in 0 .. Bits : ~ Good(d)}
<1>0. Bits \in Nat /\ Bits >= 2
  BY TlCacheAssumption
<1>1. SUFFICES ASSUME T # {} PROVE FALSE
  OBVIOUS
<1>2. PICK d \in T : \A j \in T : d <= j
  <2>1. T \in SUBSET Nat
    BY <1>0
  <2> HIDE DEF T
  <2> QED BY <2>1, <1>1, LeastNat
<1>3. d \in 0 .. Bits /\ ~ Good(d)
  OBVIOUS
<1>4. d # 0
  BY <1>0, <1>3, WalkStep
<1>5. d \in 1 .. Bits /\ d - 1 \in 0 .. Bits /\ ~ (d <= d - 1) /\ d - 1 # Bits
  BY <1>0, <1>3, <1>4
<1>6. Walk(c2, a)[d - 1] = Walk(c, a)[d - 1]
  BY <1>2, <1>5
<1>7. a[d] \in BOOLEAN /\ a0[Bits] \in BOOLEAN
  BY <1>0, <1>5 DEF SrcAddr
<1>8. CASE Walk(c, a)[d - 1] = ToNode(n) /\ a[d] = a0[Bits]
  <2>1. Bits - 1 \in 0 .. Bits
    BY <1>0
  <2>2. d - 1 = Bits - 1 /\ \A i \in 1 .. d - 1 : a[i] = a0[i]
    BY <1>5, <1>8, <2>1, WalkUnique DEF At
  <2>3. d = Bits
    BY <1>0, <1>5, <2>2
  <2>4. ASSUME NEW i \in 1 .. Bits PROVE a[i] = a0[i]
    <3>1. CASE i = Bits
      BY <1>8, <2>3, <3>1
    <3>2. CASE i # Bits
      <4>1. i \in 1 .. d - 1
        BY <1>0, <2>3, <3>2
      <4> QED BY <2>2, <4>1
    <3> QED BY <3>1, <3>2
  <2>5. a = a0
    BY <2>4, SameAddress
  <2>6. Walk(c2, a)[d] = c2[n][a[d]]
    BY <1>5, <1>6, <1>8, WalkStep
  <2>7. Walk(c2, a)[d] = s
    BY <1>8, <2>6 DEF Stored
  <2> QED BY <1>3, <2>3, <2>5, <2>7
<1>9. CASE ~ (Walk(c, a)[d - 1] = ToNode(n) /\ a[d] = a0[Bits])
  <2>1. ~ (d = Bits /\ a = a0)
    BY <1>9 DEF At
  <2>2. Walk(c2, a)[d] = Walk(c, a)[d]
    <3>1. CASE Walk(c, a)[d - 1] \notin ToNodes
      <4>1. Walk(c, a)[d] = Null
        BY <1>5, <3>1, WalkStep
      <4>2. Walk(c2, a)[d] = Null
        BY <1>5, <1>6, <3>1, WalkStep
      <4> QED BY <4>1, <4>2
    <3>2. CASE Walk(c, a)[d - 1] \in ToNodes
      <4>1. PICK m \in Node : Walk(c, a)[d - 1] = ToNode(m)
        BY <3>2, Zenon DEF ToNodes
      <4>2. Walk(c, a)[d] = c[m][a[d]]
        BY <1>5, <4>1, WalkStep
      <4>3. Walk(c2, a)[d] = c2[m][a[d]]
        BY <1>5, <1>6, <4>1, WalkStep
      <4>4. ~ (m = n /\ a[d] = a0[Bits])
        BY <1>9, <4>1
      <4> QED BY <1>7, <4>2, <4>3, <4>4 DEF Stored
    <3> QED BY <3>1, <3>2
  <2> QED BY <1>3, <2>1, <2>2
<1> QED BY <1>8, <1>9
-----------------------------------------------------------------------------
(* The inductive invariant                                                 *)

\* Behind the last bit there are code blocks, never nodes: what lets a put
\* overwrite the slot without cutting off part of the tree.
LevelInv == \A a \in SrcAddr : Walk(child, a)[Bits] \notin ToNodes

\* A call stands where the walk for its address leads in the tree as it is.
CallInv == op \in {"get", "put"} => At(child, addr, node, depth)

\* The block put is one that was handed out.
BlockInv ==
    /\ done.op = "block" /\ done.r # Null => done.r \in 0 .. nextBlock - 1
    /\ op = "put" => dst \in 0 .. nextBlock - 1

Inv ==
    /\ TypeOK
    /\ TreeShape
    /\ RootNoChild(child)
    /\ LevelInv
    /\ CallInv
    /\ BlockInv

\* What the shape says of any slot.
LEMMA Shape ==
    ASSUME TypeOK, TreeShape, RootNoChild(child)
    PROVE  /\ \A m \in Node, b \in BOOLEAN, n \in Node :
                 child[m][b] = ToNode(n) => n \in 2 .. nodes
           /\ OneParent(child)
<1>0. nodes \in Node /\ nodes \in Nat /\ MaxNodes \in Nat
  BY TlCacheAssumption DEF TypeOK, Node
<1>1. ASSUME NEW m \in Node, NEW b \in BOOLEAN, NEW n \in Node,
             child[m][b] = ToNode(n)
      PROVE  n \in 2 .. nodes
  <2>1. n \notin nodes + 1 .. MaxNodes
    BY <1>1 DEF TreeShape
  <2>2. n # Root
    BY <1>1 DEF RootNoChild
  <2> QED BY <1>0, <2>1, <2>2 DEF Node, Root
<1>2. OneParent(child)
  <2>1. SUFFICES ASSUME NEW n \in Node, NEW m1 \in Node, NEW m2 \in Node,
                        NEW b1 \in BOOLEAN, NEW b2 \in BOOLEAN,
                        child[m1][b1] = ToNode(n), child[m2][b2] = ToNode(n)
                 PROVE  m1 = m2 /\ b1 = b2
    BY Zenon DEF OneParent
  <2>2. n \in 2 .. nodes
    BY <1>1, <2>1
  <2>3. PICK m \in 1 .. n - 1, b \in BOOLEAN :
           /\ child[m][b] = ToNode(n)
           /\ \A m3 \in Node, b3 \in BOOLEAN :
                 child[m3][b3] = ToNode(n) => m3 = m /\ b3 = b
    BY <2>2, Zenon DEF TreeShape
  <2>4. m1 = m /\ b1 = b
    BY <2>1, <2>3, Zenon
  <2>5. m2 = m /\ b2 = b
    BY <2>1, <2>3, Zenon
  <2> QED BY <2>4, <2>5, Zenon
<1> QED BY <1>1, <1>2

LEMMA BitsFacts ==
    /\ Bits \in Nat /\ Bits >= 2
    /\ NoCall[1] \in SrcAddr /\ NoCall[2] = Null /\ NoCall[3] = Root /\ NoCall[4] = 1
<1>1. NoCall[1] = [d \in 1 .. Bits |-> FALSE]
  BY DEF NoCall
<1>2. [d \in 1 .. Bits |-> FALSE] \in SrcAddr
  BY Zenon DEF SrcAddr
<1> QED BY <1>1, <1>2, TlCacheAssumption DEF NoCall

\* A node allocated is hung into the empty slot and cleared.
LEMMA NewNodeGrows ==
    ASSUME TypeOK, PutNewNode
    PROVE  /\ child' \in Tree
           /\ nodes + 1 \in Node /\ nodes + 1 # node /\ nodes + 1 # Root
           /\ Grown(child, child', node, addr[depth], nodes + 1)
<1>0. /\ nodes \in Nat /\ node \in Nat /\ node >= 1 /\ node <= nodes /\ nodes >= 1
      /\ nodes < MaxNodes /\ MaxNodes \in Nat
  BY TlCacheAssumption DEF TypeOK, Node, PutNewNode
<1>1. nodes + 1 \in Node /\ nodes + 1 # node /\ nodes + 1 # Root /\ node \in Node
  BY <1>0 DEF Node, Root
<1>2. addr[depth] \in BOOLEAN
  BY DEF TypeOK, SrcAddr
<1>3. child \in [Node -> [BOOLEAN -> Slot]]
  BY DEF TypeOK
<1> DEFINE cleared == [b \in BOOLEAN |-> Null]
           hung    == [child[node] EXCEPT ![addr[depth]] = ToNode(nodes + 1)]
<1>4. child' = [child EXCEPT ![node] = hung, ![nodes + 1] = cleared]
  BY DEF PutNewNode, Bit
<1>5. cleared \in [BOOLEAN -> Slot] /\ \A b \in BOOLEAN : cleared[b] = Null
  BY Pointers
<1>6. hung \in [BOOLEAN -> Slot]
  <2>1. ToNode(nodes + 1) \in Slot
    BY <1>1, Pointers
  <2>2. child[node] \in [BOOLEAN -> Slot]
    BY <1>1, <1>3
  <2> QED BY <1>2, <2>1, <2>2, Zenon
<1>7. /\ hung[addr[depth]] = ToNode(nodes + 1)
      /\ \A b \in BOOLEAN : b # addr[depth] => hung[b] = child[node][b]
  <2>1. child[node] \in [BOOLEAN -> Slot]
    BY <1>1, <1>3
  <2> QED BY <1>2, <2>1, Zenon
<1> HIDE DEF cleared, hung
<1>8. child' \in [Node -> [BOOLEAN -> Slot]]
  BY <1>1, <1>3, <1>4, <1>5, <1>6
<1>9. /\ child'[node] = hung /\ child'[nodes + 1] = cleared
      /\ \A m \in Node : m # node /\ m # nodes + 1 => child'[m] = child[m]
  BY <1>1, <1>3, <1>4
<1>10. Grown(child, child', node, addr[depth], nodes + 1)
  <2>1. child'[node][addr[depth]] = ToNode(nodes + 1)
    BY <1>7, <1>9
  <2>2. \A b \in BOOLEAN : child'[nodes + 1][b] = Null
    BY <1>5, <1>9
  <2>3. ASSUME NEW m \in Node, NEW b \in BOOLEAN, m # nodes + 1,
               ~ (m = node /\ b = addr[depth])
        PROVE  child'[m][b] = child[m][b]
    <3>1. CASE m = node
      BY <1>7, <1>9, <2>3, <3>1, Zenon
    <3>2. CASE m # node
      BY <1>9, <2>3, <3>2, Zenon
    <3> QED BY <3>1, <3>2
  <2> QED BY <2>1, <2>2, <2>3, Zenon DEF Grown
<1> QED BY <1>1, <1>8, <1>10 DEF Tree

\* A put stores the block in the slot it has come to.
LEMMA StoreStores ==
    ASSUME TypeOK, BlockInv, PutStore
    PROVE  /\ child' \in Tree
           /\ dst \in Block
           /\ Stored(child, child', node, addr[Bits], ToBlock(dst))
<1>0. node \in Node
  BY TlCacheAssumption DEF TypeOK, Node
<1>1. dst \in Block
  BY TlCacheAssumption DEF TypeOK, BlockInv, PutStore, Block
<1>2. addr[Bits] \in BOOLEAN
  BY TlCacheAssumption DEF TypeOK, SrcAddr
<1>3. child \in [Node -> [BOOLEAN -> Slot]]
  BY DEF TypeOK
<1> DEFINE filled == [child[node] EXCEPT ![addr[Bits]] = ToBlock(dst)]
<1>4. child' = [child EXCEPT ![node] = filled]
  BY DEF PutStore, Bit
<1>5. child[node] \in [BOOLEAN -> Slot]
  BY <1>0, <1>3
<1>6. filled \in [BOOLEAN -> Slot]
  <2>1. ToBlock(dst) \in Slot
    BY <1>1, Pointers
  <2> QED BY <1>2, <1>5, <2>1, Zenon
<1>7. /\ filled[addr[Bits]] = ToBlock(dst)
      /\ \A b \in BOOLEAN : b # addr[Bits] => filled[b] = child[node][b]
  BY <1>2, <1>5, Zenon
<1> HIDE DEF filled
<1>8. child' \in [Node -> [BOOLEAN -> Slot]]
  BY <1>0, <1>3, <1>4, <1>6
<1>9. child'[node] = filled /\ \A m \in Node : m # node => child'[m] = child[m]
  BY <1>0, <1>3, <1>4
<1>10. ASSUME NEW m \in Node, NEW b \in BOOLEAN, ~ (m = node /\ b = addr[Bits])
       PROVE  child'[m][b] = child[m][b]
  <2>1. CASE m = node
    BY <1>7, <1>9, <1>10, <2>1, Zenon
  <2>2. CASE m # node
    BY <1>9, <2>2, Zenon
  <2> QED BY <2>1, <2>2
<1>11. Stored(child, child', node, addr[Bits], ToBlock(dst))
  BY <1>7, <1>9, <1>10, Zenon DEF Stored
<1> QED BY <1>1, <1>8, <1>11 DEF Tree
-----------------------------------------------------------------------------
(* Every step preserves it                                                 *)

\* The tree changes in two steps only.
LEMMA TreeKept ==
    ASSUME [Next]_vars
    PROVE  PutNewNode \/ PutStore \/ (child' = child /\ nodes' = nodes)
<1>1. CASE Calls
  BY <1>1 DEF Calls, TcGetCodeBlock, StartGet, StartPut, Start
<1>2. CASE Steps
  BY <1>2 DEF Steps, Descend, Crash, GetMiss, GetHit, PutMallocFails, Finish
<1>3. CASE UNCHANGED vars
  BY <1>3 DEF vars
<1> QED BY <1>1, <1>2, <1>3 DEF Next, Ended

LEMMA TypeStep ==
    ASSUME Inv, [Next]_vars
    PROVE  TypeOK'
<1>0. TypeOK /\ BlockInv
  BY DEF Inv
<1>a. /\ nodes \in Nat /\ nodes >= 1 /\ nodes <= MaxNodes /\ MaxNodes \in Nat
      /\ NBlocks \in Nat /\ nextBlock \in Nat /\ nextBlock <= NBlocks
      /\ Root \in 1 .. nodes /\ 1 \in 1 .. Bits
  BY <1>0, TlCacheAssumption DEF TypeOK, Node, Root
<1>1. CASE TcGetCodeBlock
  <2>1. nextBlock' \in 0 .. NBlocks
    BY <1>1, <1>a DEF TcGetCodeBlock, BlockLeft
  <2>2. UNCHANGED <<child, nodes, op, addr, dst, node, depth>>
    BY <1>1 DEF TcGetCodeBlock, call
  <2> QED BY <1>0, <2>1, <2>2 DEF TypeOK
<1>2. CASE StartGet
  <2>1. PICK a \in SrcAddr : Start("get", a, Null)
    BY <1>2 DEF StartGet
  <2>2. /\ op' = "get" /\ addr' = a /\ dst' = Null /\ node' = Root /\ depth' = 1
        /\ UNCHANGED <<child, nodes, nextBlock>>
    BY <2>1 DEF Start
  <2> QED BY <1>0, <1>a, <2>2 DEF TypeOK
<1>3. CASE StartPut
  <2>1. PICK a \in SrcAddr : Start("put", a, done.r)
    BY <1>3 DEF StartPut
  <2>2. /\ op' = "put" /\ addr' = a /\ dst' = done.r /\ node' = Root /\ depth' = 1
        /\ UNCHANGED <<child, nodes, nextBlock>>
    BY <2>1 DEF Start
  <2>3. done.r \in Block
    BY <1>0, <1>3, <1>a DEF StartPut, BlockInv, Block
  <2> QED BY <1>0, <1>a, <2>2, <2>3 DEF TypeOK
<1>4. CASE Descend
  <2>1. PICK n \in Node : Here = ToNode(n) /\ node' = n
    BY <1>4 DEF Descend
  <2>2. n \in 2 .. nodes
    <3>1. addr[depth] \in BOOLEAN /\ node \in Node
      BY <1>0, <1>a DEF TypeOK, SrcAddr, Node
    <3> QED BY <2>1, <3>1, Shape DEF Inv, Here, Bit
  <2>3. node' \in 1 .. nodes /\ depth' \in 1 .. Bits
    BY <1>0, <1>4, <1>a, <2>1, <2>2, BitsFacts DEF Descend, TypeOK
  <2>4. UNCHANGED <<child, nodes, nextBlock, op, addr, dst>>
    BY <1>4 DEF Descend
  <2> QED BY <1>0, <2>3, <2>4 DEF TypeOK
<1>5. CASE Crash
  <2>1. op' = "crashed" /\ UNCHANGED <<child, nodes, nextBlock, addr, dst, node, depth>>
    BY <1>5 DEF Crash, call
  <2> QED BY <1>0, <2>1 DEF TypeOK
<1>6. ASSUME NEW r, Finish(r), child' \in [Node -> [BOOLEAN -> Slot]] PROVE TypeOK'
  <2>1. /\ op' = "idle" /\ addr' = NoCall[1] /\ dst' = Null /\ node' = Root /\ depth' = 1
        /\ UNCHANGED <<nodes, nextBlock>>
    BY <1>6, BitsFacts DEF Finish
  <2> QED BY <1>0, <1>6, <1>a, <2>1, BitsFacts DEF TypeOK
<1>7. CASE GetMiss \/ GetHit \/ PutMallocFails
  <2>1. /\ \E r : Finish(r)
        /\ child' = child
    BY <1>7 DEF GetMiss, GetHit, PutMallocFails
  <2>2. child' \in [Node -> [BOOLEAN -> Slot]]
    BY <1>0, <2>1 DEF TypeOK
  <2> QED BY <1>6, <2>1, <2>2
<1>8. CASE PutStore
  <2>1. child' \in [Node -> [BOOLEAN -> Slot]]
    BY <1>0, <1>8, StoreStores DEF Tree
  <2> QED BY <1>6, <1>8, <2>1 DEF PutStore
<1>9. CASE PutNewNode
  <2>1. child' \in [Node -> [BOOLEAN -> Slot]] /\ nodes + 1 \in Node
    BY <1>0, <1>9, NewNodeGrows DEF Tree
  <2>2. /\ nodes' = nodes + 1 /\ node' = nodes + 1 /\ depth' = depth + 1
        /\ depth < Bits /\ UNCHANGED <<nextBlock, op, addr, dst>>
    BY <1>9 DEF PutNewNode
  <2>3. node' \in 1 .. nodes' /\ depth' \in 1 .. Bits
    BY <1>0, <1>a, <2>2, BitsFacts DEF TypeOK
  <2> QED BY <1>0, <2>1, <2>2, <2>3 DEF TypeOK
<1>10. CASE UNCHANGED vars
  <2>1. UNCHANGED <<child, nodes, nextBlock, op, addr, dst, node, depth>>
    BY <1>10 DEF vars, call
  <2> QED BY <1>0, <2>1 DEF TypeOK
<1> QED BY <1>1, <1>2, <1>3, <1>4, <1>5, <1>7, <1>8, <1>9, <1>10
        DEF Next, Calls, Steps, Ended

\* The root stays the root, whatever is stored.
LEMMA RootStep ==
    ASSUME Inv, [Next]_vars
    PROVE  RootNoChild(child)'
<1>0. TypeOK /\ BlockInv /\ RootNoChild(child)
  BY DEF Inv
<1>1. SUFFICES ASSUME NEW m \in Node, NEW b \in BOOLEAN
               PROVE  child'[m][b] # ToNode(Root)
  BY Zenon DEF RootNoChild
<1>2. child[m][b] # ToNode(Root)
  BY <1>0 DEF RootNoChild
<1>3. CASE PutNewNode
  <2>1. nodes + 1 \in Node /\ nodes + 1 # Root
    BY <1>0, <1>3, NewNodeGrows
  <2>2. ToNode(nodes + 1) # ToNode(Root) /\ Null # ToNode(Root)
    BY <2>1, Pointers
  <2>3. \/ child'[m][b] = ToNode(nodes + 1) \/ child'[m][b] = Null
        \/ child'[m][b] = child[m][b]
    BY <1>0, <1>3, NewNodeGrows, Zenon DEF Grown
  <2> QED BY <1>2, <2>2, <2>3
<1>4. CASE PutStore
  <2>1. ToBlock(dst) # ToNode(Root)
    BY <1>0, <1>4, StoreStores, Pointers, NodesNoBlocks
  <2>2. child'[m][b] = ToBlock(dst) \/ child'[m][b] = child[m][b]
    BY <1>0, <1>4, StoreStores, Zenon DEF Stored
  <2> QED BY <1>2, <2>1, <2>2
<1> QED BY <1>2, <1>3, <1>4, TreeKept

\* What node n hangs in, in the tree c.
Parent(c, n, m, b) ==
    /\ c[m][b] = ToNode(n)
    /\ \A m2 \in Node, b2 \in BOOLEAN : c[m2][b2] = ToNode(n) => m2 = m /\ b2 = b

\* TreeShape of a tree with k nodes.
ShapeOf(c, k) ==
    /\ \A n \in 2 .. k : \E m \in 1 .. n - 1, b \in BOOLEAN : Parent(c, n, m, b)
    /\ \A m \in Node, b \in BOOLEAN, n \in k + 1 .. MaxNodes : c[m][b] # ToNode(n)

LEMMA ShapeIs == (TreeShape <=> ShapeOf(child, nodes))
                 /\ (TreeShape' <=> ShapeOf(child', nodes'))
BY Zenon DEF TreeShape, ShapeOf, Parent

LEMMA GrownShape ==
    ASSUME NEW c \in Tree, NEW c2 \in Tree, NEW k \in Nat, k >= 1, k + 1 <= MaxNodes,
           ShapeOf(c, k), NEW n \in 1 .. k, NEW x \in BOOLEAN, c[n][x] = Null,
           Grown(c, c2, n, x, k + 1)
    PROVE  ShapeOf(c2, k + 1)
<1>0. MaxNodes \in Nat /\ k + 1 \in Node /\ n \in Node /\ n # k + 1
  BY TlCacheAssumption DEF Node
<1>1. ASSUME NEW m \in Node, NEW b \in BOOLEAN
      PROVE  \/ c2[m][b] = ToNode(k + 1) /\ m = n /\ b = x
             \/ c2[m][b] = Null
             \/ c2[m][b] = c[m][b] /\ ~ (m = n /\ b = x)
  BY Zenon DEF Grown
<1>2. \A m \in Node, b \in BOOLEAN : c[m][b] # ToNode(k + 1)
  <2>1. k + 1 \in k + 1 .. MaxNodes
    BY <1>0
  <2> QED BY <2>1 DEF ShapeOf
<1>3. ASSUME NEW j \in 2 .. k + 1
      PROVE  \E m \in 1 .. j - 1, b \in BOOLEAN : Parent(c2, j, m, b)
  <2>1. CASE j = k + 1
    <3>1. c2[n][x] = ToNode(j)
      BY <2>1 DEF Grown
    <3>2. ASSUME NEW m2 \in Node, NEW b2 \in BOOLEAN, c2[m2][b2] = ToNode(j)
          PROVE  m2 = n /\ b2 = x
      <4>1. ToNode(j) # Null
        BY <1>0, <2>1, Pointers
      <4>2. c[m2][b2] # ToNode(j)
        BY <1>2, <2>1
      <4> QED BY <1>1, <3>2, <4>1, <4>2
    <3>3. n \in 1 .. j - 1
      BY <2>1
    <3>4. Parent(c2, j, n, x)
      BY <3>1, <3>2 DEF Parent
    <3> QED BY <3>3, <3>4
  <2>2. CASE j # k + 1
    <3>1. j \in 2 .. k /\ j \in Node
      BY <1>0, <2>2 DEF Node
    <3>2. PICK m \in 1 .. j - 1, b \in BOOLEAN : Parent(c, j, m, b)
      BY <3>1 DEF ShapeOf
    <3>3. m \in Node /\ m # k + 1
      BY <1>0, <3>1 DEF Node
    <3>4. ToNode(j) # Null /\ ToNode(j) # ToNode(k + 1)
      BY <1>0, <2>2, <3>1, Pointers
    <3>5. c2[m][b] = ToNode(j)
      <4>1. c[m][b] = ToNode(j)
        BY <3>2 DEF Parent
      <4>2. ~ (m = n /\ b = x)
        BY <3>4, <4>1
      <4> QED BY <3>3, <4>1, <4>2 DEF Grown
    <3>6. ASSUME NEW m2 \in Node, NEW b2 \in BOOLEAN, c2[m2][b2] = ToNode(j)
          PROVE  m2 = m /\ b2 = b
      <4>1. c[m2][b2] = ToNode(j)
        BY <1>1, <3>4, <3>6
      <4> QED BY <3>2, <4>1 DEF Parent
    <3>7. Parent(c2, j, m, b)
      BY <3>5, <3>6 DEF Parent
    <3> QED BY <3>7
  <2> QED BY <2>1, <2>2
<1>4. ASSUME NEW m \in Node, NEW b \in BOOLEAN, NEW j \in k + 1 + 1 .. MaxNodes
      PROVE  c2[m][b] # ToNode(j)
  <2>1. j \in k + 1 .. MaxNodes /\ j \in Node /\ j # k + 1
    BY <1>0 DEF Node
  <2>2. c[m][b] # ToNode(j)
    BY <2>1 DEF ShapeOf
  <2>3. ToNode(j) # Null /\ ToNode(j) # ToNode(k + 1)
    BY <1>0, <2>1, Pointers
  <2> QED BY <1>1, <2>2, <2>3
<1> QED BY <1>3, <1>4 DEF ShapeOf

LEMMA StoredShape ==
    ASSUME NEW c \in Tree, NEW c2 \in Tree, NEW k \in Nat, k <= MaxNodes,
           ShapeOf(c, k), NEW n \in Node, NEW x \in BOOLEAN, c[n][x] \notin ToNodes,
           NEW s, s \notin ToNodes, Stored(c, c2, n, x, s)
    PROVE  ShapeOf(c2, k)
<1>0. MaxNodes \in Nat
  BY TlCacheAssumption
<1>1. ASSUME NEW j \in Node, NEW m \in Node, NEW b \in BOOLEAN
      PROVE  c2[m][b] = ToNode(j) <=> c[m][b] = ToNode(j)
  <2>1. ToNode(j) \in ToNodes
    BY Pointers
  <2>2. CASE m = n /\ b = x
    BY <2>1, <2>2 DEF Stored
  <2>3. CASE ~ (m = n /\ b = x)
    BY <2>3 DEF Stored
  <2> QED BY <2>2, <2>3
<1>2. ASSUME NEW j \in 2 .. k
      PROVE  \E m \in 1 .. j - 1, b \in BOOLEAN : Parent(c2, j, m, b)
  <2>1. PICK m \in 1 .. j - 1, b \in BOOLEAN : Parent(c, j, m, b)
    BY DEF ShapeOf
  <2>2. j \in Node /\ m \in Node
    BY <1>0 DEF Node
  <2>3. Parent(c2, j, m, b)
    BY <1>1, <2>1, <2>2 DEF Parent
  <2> QED BY <2>3
<1>3. ASSUME NEW m \in Node, NEW b \in BOOLEAN, NEW j \in k + 1 .. MaxNodes
      PROVE  c2[m][b] # ToNode(j)
  <2>1. j \in Node
    BY <1>0 DEF Node
  <2> QED BY <1>1, <2>1 DEF ShapeOf
<1> QED BY <1>2, <1>3 DEF ShapeOf

\* The slot behind the last bit holds no node.
LEMMA LastSlot ==
    ASSUME Inv, op \in {"get", "put"}, depth = Bits
    PROVE  /\ At(child, addr, node, Bits)
           /\ Here = Walk(child, addr)[Bits]
           /\ Here \notin ToNodes
<1>1. /\ child \in Tree /\ addr \in SrcAddr /\ node \in Node
      /\ Bits \in Nat /\ Bits \in 1 .. Bits
  BY TlCacheAssumption DEF Inv, TypeOK, Tree, Node
<1>2. At(child, addr, node, Bits)
  BY DEF Inv, CallInv
<1>3. Walk(child, addr)[Bits] = child[node][addr[Bits]]
  BY <1>1, <1>2, WalkStep DEF At
<1>4. Walk(child, addr)[Bits] \notin ToNodes
  BY <1>1 DEF Inv, LevelInv
<1> QED BY <1>2, <1>3, <1>4 DEF Here, Bit

LEMMA ShapeStep ==
    ASSUME Inv, [Next]_vars
    PROVE  TreeShape'
<1>0. TypeOK /\ BlockInv /\ ShapeOf(child, nodes)
  BY ShapeIs DEF Inv
<1>1. /\ child \in Tree /\ nodes \in Nat /\ nodes >= 1 /\ nodes <= MaxNodes
      /\ node \in 1 .. nodes /\ node \in Node /\ addr[depth] \in BOOLEAN
      /\ depth \in 1 .. Bits /\ MaxNodes \in Nat
  BY <1>0, TlCacheAssumption DEF TypeOK, Tree, Node, SrcAddr
<1>2. CASE PutNewNode
  <2>1. /\ child' \in Tree /\ Grown(child, child', node, addr[depth], nodes + 1)
    BY <1>0, <1>2, NewNodeGrows
  <2>2. /\ nodes' = nodes + 1 /\ nodes + 1 <= MaxNodes
        /\ child[node][addr[depth]] = Null
    BY <1>1, <1>2 DEF PutNewNode, Here, Bit
  <2>3. ShapeOf(child', nodes + 1)
    BY <1>0, <1>1, <2>1, <2>2, GrownShape
  <2> QED BY <2>2, <2>3, ShapeIs
<1>3. CASE PutStore
  <2>1. /\ child' \in Tree
        /\ Stored(child, child', node, addr[Bits], ToBlock(dst))
        /\ ToBlock(dst) \notin ToNodes
    BY <1>0, <1>3, StoreStores, Pointers, NodesNoBlocks
  <2>2. nodes' = nodes /\ depth = Bits /\ op = "put"
    BY <1>3 DEF PutStore, Finish
  <2>3. child[node][addr[Bits]] \notin ToNodes
    BY <2>2, LastSlot DEF Here, Bit
  <2>4. ShapeOf(child', nodes)
    BY <1>0, <1>1, <2>1, <2>2, <2>3, StoredShape
  <2> QED BY <2>2, <2>4, ShapeIs
<1>4. CASE child' = child /\ nodes' = nodes
  BY <1>0, <1>4, ShapeIs
<1> QED BY <1>2, <1>3, <1>4, TreeKept

\* What a put that makes a node does to the walks.
LEMMA PutGrows ==
    ASSUME Inv, PutNewNode, NEW a \in SrcAddr
    PROVE  \A d \in 0 .. Bits :
              \/ Walk(child', a)[d] = Walk(child, a)[d]
              \/ /\ d = depth /\ Walk(child, a)[d] = Null
                 /\ Walk(child', a)[d] = ToNode(nodes + 1)
<1>0. TypeOK /\ TreeShape /\ RootNoChild(child) /\ BlockInv
  BY DEF Inv
<1>1. /\ child \in Tree /\ node \in Node /\ addr \in SrcAddr /\ depth \in 1 .. Bits
      /\ nodes \in Nat /\ MaxNodes \in Nat
  BY <1>0, TlCacheAssumption DEF TypeOK, Tree, Node
<1>2. /\ child' \in Tree /\ nodes + 1 \in Node /\ nodes + 1 # node /\ nodes + 1 # Root
      /\ Grown(child, child', node, addr[depth], nodes + 1)
  BY <1>0, NewNodeGrows
<1>3. At(child, addr, node, depth) /\ child[node][addr[depth]] = Null
  BY DEF Inv, CallInv, PutNewNode, Here, Bit
<1>4. \A m \in Node, b \in BOOLEAN : child[m][b] # ToNode(nodes + 1)
  <2>1. nodes + 1 \in nodes + 1 .. MaxNodes
    BY <1>1, <1>2 DEF Node
  <2> QED BY <1>0, <2>1 DEF TreeShape
<1>5. OneParent(child)
  BY <1>0, Shape
<1> QED BY <1>0, <1>1, <1>2, <1>3, <1>4, <1>5, GrowWalk

\* What a put that stores a block does to them.
LEMMA PutStores ==
    ASSUME Inv, PutStore, NEW a \in SrcAddr
    PROVE  \A d \in 0 .. Bits :
              Walk(child', a)[d] = IF d = Bits /\ a = addr THEN ToBlock(dst)
                                                           ELSE Walk(child, a)[d]
<1>0. TypeOK /\ TreeShape /\ RootNoChild(child) /\ BlockInv
  BY DEF Inv
<1>1. child \in Tree /\ node \in Node /\ addr \in SrcAddr
  BY <1>0, TlCacheAssumption DEF TypeOK, Tree, Node
<1>2. /\ child' \in Tree
      /\ Stored(child, child', node, addr[Bits], ToBlock(dst))
  BY <1>0, StoreStores
<1>3. At(child, addr, node, Bits)
  BY LastSlot DEF PutStore
<1>4. OneParent(child)
  BY <1>0, Shape
<1> QED BY <1>0, <1>1, <1>2, <1>3, <1>4, StoreWalk

LEMMA LevelStep ==
    ASSUME Inv, [Next]_vars
    PROVE  LevelInv'
<1>1. SUFFICES ASSUME NEW a \in SrcAddr
               PROVE  Walk(child', a)[Bits] \notin ToNodes
  BY DEF LevelInv
<1>2. Walk(child, a)[Bits] \notin ToNodes /\ Bits \in 0 .. Bits
  BY BitsFacts DEF Inv, LevelInv
<1>3. CASE PutNewNode
  <2>1. Bits # depth
    BY <1>3, BitsFacts DEF PutNewNode, Inv, TypeOK
  <2> QED BY <1>2, <1>3, <2>1, PutGrows
<1>4. CASE PutStore
  <2>1. ToBlock(dst) \notin ToNodes
    BY <1>4, StoreStores, Pointers, NodesNoBlocks DEF Inv
  <2> QED BY <1>2, <1>4, <2>1, PutStores
<1> QED BY <1>2, <1>3, <1>4, TreeKept

LEMMA CallStep ==
    ASSUME Inv, [Next]_vars
    PROVE  CallInv'
<1>0. /\ TypeOK /\ child \in Tree /\ addr \in SrcAddr /\ node \in Node
      /\ depth \in 1 .. Bits /\ Bits \in Nat
  BY TlCacheAssumption DEF Inv, TypeOK, Tree, Node
<1>1. CASE TcGetCodeBlock
  <2>1. UNCHANGED <<child, op, addr, node, depth>>
    BY <1>1 DEF TcGetCodeBlock, call
  <2> QED BY <2>1 DEF Inv, CallInv, At
<1>2. ASSUME NEW name, NEW a \in SrcAddr, NEW b, Start(name, a, b) PROVE CallInv'
  <2>1. addr' = a /\ node' = Root /\ depth' = 1 /\ child' = child
    BY <1>2 DEF Start
  <2>2. Walk(child, a)[0] = ToNode(Root)
    BY <1>0, WalkStep
  <2>3. At(child', addr', node', depth')
    BY <2>1, <2>2 DEF At
  <2> QED BY <2>3 DEF CallInv
<1>3. CASE StartGet \/ StartPut
  BY <1>2, <1>3 DEF StartGet, StartPut
<1>4. CASE Descend
  <2>1. PICK n \in Node : Here = ToNode(n) /\ node' = n
    BY <1>4 DEF Descend
  <2>2. At(child, addr, node, depth)
    BY <1>4 DEF Inv, CallInv, Descend
  <2>3. Walk(child, addr)[depth] = ToNode(n)
    BY <1>0, <2>1, <2>2, WalkStep DEF At, Here, Bit
  <2>4. child' = child /\ addr' = addr /\ depth' = depth + 1
    BY <1>4 DEF Descend
  <2>5. depth' - 1 = depth
    BY <1>0, <2>4
  <2>6. At(child', addr', node', depth')
    BY <2>1, <2>3, <2>4, <2>5 DEF At
  <2> QED BY <2>6 DEF CallInv
<1>5. CASE Crash \/ GetMiss \/ GetHit \/ PutMallocFails \/ PutStore
  <2>1. op' \notin {"get", "put"}
    BY <1>5 DEF Crash, GetMiss, GetHit, PutMallocFails, PutStore, Finish
  <2> QED BY <2>1 DEF CallInv
<1>6. CASE PutNewNode
  <2>1. At(child, addr, node, depth) /\ child[node][addr[depth]] = Null
    BY <1>6 DEF Inv, CallInv, PutNewNode, Here, Bit
  <2>2. /\ child' \in Tree /\ child'[node][addr[depth]] = ToNode(nodes + 1)
    BY <1>0, <1>6, NewNodeGrows DEF Grown
  <2>3. depth - 1 \in 0 .. Bits /\ depth - 1 # depth
    BY <1>0
  <2>4. Walk(child', addr)[depth - 1] = ToNode(node)
    BY <1>0, <1>6, <2>1, <2>3, PutGrows DEF At
  <2>5. Walk(child', addr)[depth] = ToNode(nodes + 1)
    BY <1>0, <2>2, <2>4, WalkStep
  <2>6. /\ addr' = addr /\ node' = nodes + 1 /\ depth' = depth + 1
    BY <1>6 DEF PutNewNode
  <2>7. depth' - 1 = depth
    BY <1>0, <2>6
  <2>8. At(child', addr', node', depth')
    BY <2>5, <2>6, <2>7 DEF At
  <2> QED BY <2>8 DEF CallInv
<1>7. CASE UNCHANGED vars
  <2>1. UNCHANGED <<child, op, addr, node, depth>>
    BY <1>7 DEF vars, call
  <2> QED BY <2>1 DEF Inv, CallInv, At
<1> QED BY <1>1, <1>3, <1>4, <1>5, <1>6, <1>7 DEF Next, Calls, Steps, Ended

LEMMA BlockStep ==
    ASSUME Inv, [Next]_vars
    PROVE  BlockInv'
<1>0. /\ BlockInv /\ nextBlock \in Nat
  BY TlCacheAssumption DEF Inv, TypeOK
<1>1. CASE TcGetCodeBlock
  <2>1. op' = "idle"
    BY <1>1 DEF TcGetCodeBlock
  <2>2. done'.r # Null => done'.r \in 0 .. nextBlock' - 1
    BY <1>0, <1>1 DEF TcGetCodeBlock
  <2> QED BY <2>1, <2>2 DEF BlockInv
<1>2. CASE StartGet
  <2>1. PICK a \in SrcAddr : Start("get", a, Null)
    BY <1>2 DEF StartGet
  <2>2. op' = "get" /\ UNCHANGED <<nextBlock, done>>
    BY <2>1 DEF Start
  <2> QED BY <1>0, <2>2 DEF BlockInv
<1>3. CASE StartPut
  <2>1. PICK a \in SrcAddr : Start("put", a, done.r)
    BY <1>3 DEF StartPut
  <2>2. dst' = done.r /\ UNCHANGED <<nextBlock, done>>
    BY <2>1 DEF Start
  <2> QED BY <1>0, <1>3, <2>2 DEF BlockInv, StartPut
<1>4. CASE Descend \/ PutNewNode \/ Crash
  <2>1. UNCHANGED <<nextBlock, done, dst>> /\ (op' = op \/ op' = "crashed")
    BY <1>4 DEF Descend, PutNewNode, Crash, call
  <2> QED BY <1>0, <2>1 DEF BlockInv
<1>5. CASE GetMiss \/ GetHit \/ PutMallocFails \/ PutStore
  <2>1. PICK r : Finish(r)
    BY <1>5 DEF GetMiss, GetHit, PutMallocFails, PutStore
  <2>2. op' = "idle" /\ done'.op = op
    BY <2>1 DEF Finish
  <2>3. op \in {"get", "put"}
    BY <1>5 DEF GetMiss, GetHit, PutMallocFails, PutStore
  <2> QED BY <2>2, <2>3 DEF BlockInv
<1>6. CASE UNCHANGED vars
  <2>1. UNCHANGED <<nextBlock, done, dst, op>>
    BY <1>6 DEF vars, call
  <2> QED BY <1>0, <2>1 DEF BlockInv
<1> QED BY <1>1, <1>2, <1>3, <1>4, <1>5, <1>6 DEF Next, Calls, Steps, Ended

LEMMA InvInit ==
    ASSUME Init
    PROVE  Inv
<1>0. Bits \in Nat /\ Bits >= 2 /\ MaxNodes \in Nat /\ MaxNodes >= 1 /\ NBlocks \in Nat
  BY TlCacheAssumption
<1>1. PICK l \in RootSlots, r \in RootSlots :
         child = [n \in Node |-> [b \in BOOLEAN |->
                    IF n # Root THEN Garbage ELSE IF b THEN l ELSE r]]
  BY DEF Init
<1>2. l \in {Null, Garbage} /\ r \in {Null, Garbage}
  BY TlCacheAssumption
<1>3. ASSUME NEW n \in Node
      PROVE  /\ child[n] \in [BOOLEAN -> Slot]
             /\ \A b \in BOOLEAN : child[n][b] \in {Null, Garbage}
  <2>1. child[n] = [b \in BOOLEAN |->
                       IF n # Root THEN Garbage ELSE IF b THEN l ELSE r]
    BY <1>1
  <2>2. \A b \in BOOLEAN : child[n][b] \in {Null, Garbage}
    BY <1>2, <2>1, Zenon
  <2>3. {Null, Garbage} \subseteq Slot
    BY DEF Slot
  <2> QED BY <2>1, <2>2, <2>3, Zenon
<1>4. child \in [Node -> [BOOLEAN -> Slot]]
  BY <1>1, <1>3
<1>5. \A n \in Node, b \in BOOLEAN : child[n][b] \notin ToNodes
  BY <1>3, Pointers
<1>6. TypeOK
  <2>1. /\ nodes = 1 /\ nextBlock = 0 /\ op = "idle" /\ addr \in SrcAddr
        /\ dst = Null /\ node = 1 /\ depth = 1
    BY BitsFacts DEF Init, Root
  <2> QED BY <1>0, <1>4, <2>1 DEF TypeOK, Node
<1>7. TreeShape
  <2>1. ASSUME NEW m \in Node, NEW b \in BOOLEAN, NEW n \in nodes + 1 .. MaxNodes
        PROVE  child[m][b] # ToNode(n)
    <3>1. n \in Node
      BY <1>0 DEF Init, Node
    <3> QED BY <1>5, <3>1, Pointers
  <2>2. 2 .. nodes = {}
    BY DEF Init
  <2> QED BY <2>1, <2>2 DEF TreeShape
<1>8. RootNoChild(child)
  BY <1>5, Pointers DEF RootNoChild
<1>9. LevelInv
  <2>1. SUFFICES ASSUME NEW a \in SrcAddr PROVE Walk(child, a)[Bits] \notin ToNodes
    BY DEF LevelInv
  <2>2. child \in Tree /\ 1 \in 1 .. Bits /\ 1 \in 0 .. Bits /\ 1 - 1 = 0
        /\ Bits \in 1 + 1 .. Bits /\ a[1] \in BOOLEAN
    BY <1>0, <1>4 DEF Tree, SrcAddr
  <2>3. Walk(child, a)[1] = child[Root][a[1]]
    BY <2>2, WalkStep, Pointers
  <2>4. Walk(child, a)[1] \notin ToNodes
    BY <1>5, <2>2, <2>3, Pointers
  <2> QED BY <2>2, <2>4, WalkStuck, Pointers
<1>10. CallInv /\ BlockInv
  BY DEF Init, CallInv, BlockInv
<1> QED BY <1>6, <1>7, <1>8, <1>9, <1>10 DEF Inv

LEMMA InvStep ==
    ASSUME Inv, [Next]_vars
    PROVE  Inv'
BY TypeStep, ShapeStep, RootStep, LevelStep, CallStep, BlockStep DEF Inv

LEMMA InvAlways == Spec => []Inv
<1>1. Init => Inv
  BY InvInit
<1>2. Inv /\ [Next]_vars => Inv'
  BY InvStep
<1> QED BY <1>1, <1>2, PTL DEF Spec

-----------------------------------------------------------------------------
(* Theorems                                                                *)

\* The type invariant holds: in particular no slot, and no local pointer of a
\* call in progress, comes to hold anything but a pointer or what malloc() left.
THEOREM TypeCorrect == Spec => []TypeOK
<1>1. Inv => TypeOK
  BY DEF Inv
<1> QED BY <1>1, InvAlways, PTL

\* The nodes form a tree wherever malloc() fails in calls of tc_put_addr(): every
\* one but the root hangs in exactly one slot, that of an older node, and no slot
\* points to a node that has not been allocated.
THEOREM TreeShapeCorrect == Spec => []TreeShape
<1>1. Inv => TreeShape
  BY DEF Inv
<1> QED BY <1>1, InvAlways, PTL

-----------------------------------------------------------------------------
(* The cache implements the map                                            *)

\* The map as the tree spells it.
MapOf(c) == [a \in SrcAddr |-> LookupIn(c, a)]

\* The end of the walk decides.
LEMMA SameEnd ==
    ASSUME NEW c, NEW c2, NEW a, Walk(c2, a)[Bits] = Walk(c, a)[Bits]
    PROVE  LookupIn(c2, a) = LookupIn(c, a)
BY DEF LookupIn

LEMMA EmptyMap ==
    ASSUME Init
    PROVE  MapOf(child) = [a \in SrcAddr |-> Null]
<1>1. SUFFICES ASSUME NEW a \in SrcAddr PROVE LookupIn(child, a) = Null
  BY DEF MapOf
<1>2. child \in Tree /\ RootSlots \subseteq {Null, Garbage}
  BY InvInit, TlCacheAssumption DEF Inv, TypeOK, Tree
<1>3. PICK l \in RootSlots, r \in RootSlots :
         child = [n \in Node |-> [b \in BOOLEAN |->
                    IF n # Root THEN Garbage ELSE IF b THEN l ELSE r]]
  BY DEF Init
<1>4. child[Root][TRUE] = l /\ child[Root][FALSE] = r
  <2>1. child[Root] = [b \in BOOLEAN |-> IF Root # Root THEN Garbage ELSE IF b THEN l ELSE r]
    BY <1>3, Pointers
  <2> QED BY <2>1
<1>5. child[Root][a[1]] \in {Null, Garbage}
  <2>1. a[1] \in BOOLEAN
    BY BitsFacts DEF SrcAddr
  <2>2. a[1] = TRUE \/ a[1] = FALSE
    BY <2>1, Zenon
  <2> QED BY <1>2, <1>4, <2>2
<1>6. 1 \in 1 .. Bits /\ 1 \in 0 .. Bits /\ 1 - 1 = 0 /\ Bits \in 1 + 1 .. Bits
  BY BitsFacts
<1>7. Walk(child, a)[1] \notin ToNodes
  BY <1>2, <1>5, <1>6, WalkStep, Pointers
<1>8. Walk(child, a)[Bits] = Null
  BY <1>2, <1>6, <1>7, WalkStuck
<1> QED BY <1>8, Pointers DEF LookupIn

\* A get that found NULL on its way, at whatever depth: no block is mapped.
LEMMA MissIsNull ==
    ASSUME Inv, GetMiss
    PROVE  LookupIn(child, addr) = Null
<1>1. /\ child \in Tree /\ addr \in SrcAddr /\ node \in Node /\ depth \in 1 .. Bits
      /\ Bits \in Nat
  BY TlCacheAssumption DEF Inv, TypeOK, Tree, Node
<1>2. At(child, addr, node, depth) /\ child[node][addr[depth]] = Null
  BY DEF Inv, CallInv, GetMiss, Here, Bit
<1>3. Walk(child, addr)[depth] = Null
  BY <1>1, <1>2, WalkStep DEF At
<1>4. Walk(child, addr)[Bits] = Null
  <2>1. CASE depth = Bits
    BY <1>3, <2>1
  <2>2. CASE depth # Bits
    <3>1. depth \in 0 .. Bits /\ Bits \in depth + 1 .. Bits
      BY <1>1, <2>2
    <3> QED BY <1>1, <1>3, <3>1, WalkStuck, Pointers
  <2> QED BY <2>1, <2>2
<1> QED BY <1>4, Pointers DEF LookupIn

LEMMA HitIsBlock ==
    ASSUME Inv, GetHit, NEW b \in Block, Here = ToBlock(b)
    PROVE  LookupIn(child, addr) = b
<1>1. Walk(child, addr)[Bits] = ToBlock(b)
  BY LastSlot DEF GetHit
<1> QED BY <1>1, Pointers DEF LookupIn

\* Growing the tree changes no mapping.
LEMMA GrowKeepsMap ==
    ASSUME Inv, PutNewNode
    PROVE  MapOf(child') = MapOf(child)
<1>1. ASSUME NEW a \in SrcAddr PROVE LookupIn(child', a) = LookupIn(child, a)
  <2>1. Bits # depth /\ Bits \in 0 .. Bits
    BY BitsFacts DEF PutNewNode, Inv, TypeOK
  <2>2. Walk(child', a)[Bits] = Walk(child, a)[Bits]
    BY <2>1, PutGrows
  <2> QED BY <2>2, SameEnd
<1> QED BY <1>1 DEF MapOf

\* Storing changes the mapping of the put's address.
LEMMA StoreChangesMap ==
    ASSUME Inv, PutStore
    PROVE  MapOf(child') = [MapOf(child) EXCEPT ![addr] = dst]
<1>1. dst \in Block /\ Bits \in 0 .. Bits /\ addr \in SrcAddr
  BY StoreStores, BitsFacts DEF Inv, TypeOK
<1>2. LookupIn(child', addr) = dst
  <2>1. Walk(child', addr)[Bits] = ToBlock(dst)
    BY <1>1, PutStores
  <2> QED BY <1>1, <2>1, Pointers DEF LookupIn
<1>3. ASSUME NEW a \in SrcAddr, a # addr PROVE LookupIn(child', a) = LookupIn(child, a)
  <2>1. Walk(child', a)[Bits] = Walk(child, a)[Bits]
    BY <1>1, <1>3, PutStores
  <2> QED BY <2>1, SameEnd
<1> QED BY <1>1, <1>2, <1>3 DEF MapOf

LEMMA MapInit ==
    ASSUME Init
    PROVE  CacheMap!Init
<1>1. [a \in SrcAddr |-> Lookup(a)] = MapOf(child)
  BY DEF Lookup, MapOf
<1> QED BY <1>1, EmptyMap DEF CacheMap!Init, Init

LEMMA MapStep ==
    ASSUME Inv, [Next]_vars
    PROVE  [CacheMap!Next]_CacheMap!vars
<1>0. /\ addr \in SrcAddr /\ nextBlock \in 0 .. NBlocks
      /\ NBlocks \in Nat
  BY TlCacheAssumption DEF Inv, TypeOK
<1> DEFINE M == [a \in SrcAddr |-> Lookup(a)]
<1>a. M = MapOf(child)
  BY DEF Lookup, MapOf
<1>b. M' = MapOf(child')
  BY DEF Lookup, MapOf
<1>c. M[addr] = LookupIn(child, addr)
  BY <1>0 DEF Lookup
<1>d. ASSUME UNCHANGED <<child, nextBlock, done>> PROVE UNCHANGED CacheMap!vars
  BY <1>a, <1>b, <1>d DEF CacheMap!vars
<1>1. CASE TcGetCodeBlock
  <2>1. M' = M
    BY <1>1, <1>a, <1>b DEF TcGetCodeBlock
  <2>2. CacheMap!GetCodeBlock
    BY <1>0, <1>1, <2>1 DEF TcGetCodeBlock, BlockLeft, CacheMap!GetCodeBlock
  <2> QED BY <2>2 DEF CacheMap!Next
<1>2. CASE StartGet \/ StartPut \/ Descend \/ Crash \/ UNCHANGED vars
  <2>1. UNCHANGED <<child, nextBlock, done>>
    BY <1>2 DEF StartGet, StartPut, Start, Descend, Crash, vars
  <2> QED BY <1>d, <2>1
<1>3. CASE GetMiss
  <2>1. child' = child /\ nextBlock' = nextBlock
        /\ done' = [op |-> "get", a |-> addr, r |-> Null]
    BY <1>3 DEF GetMiss, Finish
  <2>2. M[addr] = Null
    BY <1>3, <1>c, MissIsNull
  <2>3. CacheMap!Get(addr)
    BY <1>a, <1>b, <2>1, <2>2 DEF CacheMap!Get
  <2> QED BY <1>0, <2>3 DEF CacheMap!Next
<1>4. CASE GetHit
  <2>1. PICK b \in Block : Here = ToBlock(b) /\ Finish(b)
    BY <1>4 DEF GetHit
  <2>2. child' = child /\ nextBlock' = nextBlock
        /\ done' = [op |-> "get", a |-> addr, r |-> b]
    BY <1>4, <2>1 DEF GetHit, Finish
  <2>3. M[addr] = b
    BY <1>4, <1>c, <2>1, HitIsBlock
  <2>4. CacheMap!Get(addr)
    BY <1>a, <1>b, <2>2, <2>3 DEF CacheMap!Get
  <2> QED BY <1>0, <2>4 DEF CacheMap!Next
<1>5. CASE PutNewNode
  <2>1. UNCHANGED <<nextBlock, done>>
    BY <1>5 DEF PutNewNode
  <2>2. M' = M
    BY <1>5, <1>a, <1>b, GrowKeepsMap
  <2> QED BY <2>1, <2>2 DEF CacheMap!vars
<1>6. CASE PutMallocFails
  <2>1. child' = child /\ nextBlock' = nextBlock
        /\ done' = [op |-> "put", a |-> addr, r |-> FALSE]
    BY <1>6 DEF PutMallocFails, Finish
  <2>2. CacheMap!PutFails(addr)
    BY <1>a, <1>b, <2>1 DEF CacheMap!PutFails
  <2> QED BY <1>0, <2>2 DEF CacheMap!Next
<1>7. CASE PutStore
  <2>1. nextBlock' = nextBlock /\ done' = [op |-> "put", a |-> addr, r |-> TRUE]
    BY <1>7 DEF PutStore, Finish
  <2>2. M' = [M EXCEPT ![addr] = dst]
    BY <1>7, <1>a, <1>b, StoreChangesMap
  <2>3. CacheMap!Put(addr, dst)
    BY <2>1, <2>2 DEF CacheMap!Put
  <2>4. dst \in CacheMap!Handed
    BY <1>7 DEF Inv, BlockInv, PutStore, CacheMap!Handed
  <2> QED BY <1>0, <2>3, <2>4 DEF CacheMap!Next
<1> QED BY <1>1, <1>2, <1>3, <1>4, <1>5, <1>6, <1>7 DEF Next, Calls, Steps, Ended

\* tlcache.c's tree behaves as the map setup_tu() and translate_tu() take it
\* for: every step of a put or a get is a step of the map or none.
THEOREM CacheImplementsMap == Spec => ImplementsMap
<1>1. Init => CacheMap!Init
  BY MapInit
<1>2. Inv /\ [Next]_vars => [CacheMap!Next]_CacheMap!vars
  BY MapStep
<1> QED BY <1>1, <1>2, InvAlways, PTL DEF Spec, ImplementsMap, CacheMap!Spec
=============================================================================
