---------------------------- MODULE BlocksProofs ----------------------------
(***************************************************************************)
(* Induction along the block tree: functions defined by recursion over     *)
(* Parent obey their equations, and what follows about the chain a block   *)
(* ends.                                                                   *)
(***************************************************************************)
EXTENDS Blocks, FiniteSetsExt, TLAPS

(* A tree: nodes with a root, from which following up leads to the root.   *)
IsTree(t) ==
  /\ t.root \in t.nodes
  /\ t.up \in [t.nodes \ {t.root} -> t.nodes]
  /\ \A S \in SUBSET (t.nodes \ {t.root}) : S # {} => \E b \in S : t.up[b] \notin S

(* What holds of the root, and of a node whenever it holds of the one above*)
(* it, holds of every node.                                                *)
LEMMA Induct ==
  ASSUME NEW t, IsTree(t), NEW S, t.root \in S,
         \A b \in t.nodes \ {t.root} : t.up[b] \in S => b \in S
  PROVE  t.nodes \subseteq S
  <1> DEFINE T == t.nodes \ S
  <1> SUFFICES ASSUME T # {} PROVE FALSE
    OBVIOUS
  <1>1. T \in SUBSET (t.nodes \ {t.root})
    OBVIOUS
  <1>2. PICK b \in T : t.up[b] \notin T
    BY Zenon, <1>1 DEF IsTree
  <1>3. t.up[b] \in t.nodes
    BY <1>1, <1>2 DEF IsTree
  <1> QED BY <1>1, <1>2, <1>3

(* f is defined on a part of the tree that is closed under up, has the     *)
(* value v at the root and follows the recursion g elsewhere.              *)
Follows(t, f, v, g) ==
  /\ f = [b \in DOMAIN f |-> f[b]]
  /\ t.root \in DOMAIN f /\ DOMAIN f \subseteq t.nodes
  /\ f[t.root] = v
  /\ \A b \in DOMAIN f \ {t.root} : t.up[b] \in DOMAIN f /\ f[b] = g[<<f[t.up[b]], b>>]

(* Two such functions agree where both are defined.                        *)
LEMMA FollowsUnique ==
  ASSUME NEW t, IsTree(t), NEW v, NEW g, NEW f, NEW h, Follows(t, f, v, g), Follows(t, h, v, g)
  PROVE  \A b \in DOMAIN f \cap DOMAIN h : f[b] = h[b]
  <1> DEFINE S == {b \in t.nodes : b \in DOMAIN f \cap DOMAIN h => f[b] = h[b]}
  <1>1. t.root \in S
    BY DEF Follows, IsTree
  <1>2. ASSUME NEW b \in t.nodes \ {t.root}, t.up[b] \in S PROVE b \in S
    <2> SUFFICES ASSUME b \in DOMAIN f, b \in DOMAIN h PROVE f[b] = h[b]
      OBVIOUS
    <2>1. t.up[b] \in DOMAIN f /\ f[b] = g[<<f[t.up[b]], b>>]
      BY DEF Follows
    <2>2. t.up[b] \in DOMAIN h /\ h[b] = g[<<h[t.up[b]], b>>]
      BY DEF Follows
    <2> QED BY <1>2, <2>1, <2>2
  <1>3. t.nodes \subseteq S
    BY Zenon, <1>1, <1>2, Induct
  <1> QED BY <1>3 DEF Follows

(* Every node is in the domain of one of them.                             *)
LEMMA FollowsExists ==
  ASSUME NEW t, IsTree(t), NEW v, NEW g
  PROVE  \A b \in t.nodes : \E f : Follows(t, f, v, g) /\ b \in DOMAIN f
  <1> DEFINE S == {b \in t.nodes : \E f : Follows(t, f, v, g) /\ b \in DOMAIN f}
  <1>1. t.root \in S
    <2> DEFINE f == [b \in {t.root} |-> v]
    <2>1. Follows(t, f, v, g) /\ t.root \in DOMAIN f
      BY DEF Follows, IsTree
    <2> QED BY <2>1 DEF IsTree
  <1>2. ASSUME NEW b \in t.nodes \ {t.root}, t.up[b] \in S PROVE b \in S
    <2>1. PICK f : Follows(t, f, v, g) /\ t.up[b] \in DOMAIN f
      BY <1>2
    <2>2. CASE b \in DOMAIN f
      BY <2>1, <2>2
    <2>3. CASE b \notin DOMAIN f
      <3> DEFINE h == [x \in DOMAIN f \cup {b} |-> IF x = b THEN g[<<f[t.up[b]], b>>] ELSE f[x]]
      <3>1. /\ DOMAIN h = DOMAIN f \cup {b} /\ h[b] = g[<<f[t.up[b]], b>>]
            /\ \A x \in DOMAIN f : h[x] = f[x]
            /\ h = [x \in DOMAIN h |-> h[x]]
        BY <2>3
      <3> HIDE DEF h
      <3>2. t.up[b] # b
        BY <2>1, <2>3
      <3>3. ASSUME NEW x \in DOMAIN h \ {t.root}
            PROVE  t.up[x] \in DOMAIN h /\ h[x] = g[<<h[t.up[x]], x>>]
        <4>1. CASE x = b
          BY <2>1, <3>1, <4>1
        <4>2. CASE x # b
          <5>1. x \in DOMAIN f \ {t.root}
            BY <3>1, <4>2
          <5>2. t.up[x] \in DOMAIN f /\ f[x] = g[<<f[t.up[x]], x>>]
            BY <2>1, <5>1 DEF Follows
          <5> QED BY <3>1, <5>1, <5>2
        <4> QED BY <4>1, <4>2
      <3>4. t.root \in DOMAIN h /\ h[t.root] = v /\ DOMAIN h \subseteq t.nodes
        BY <2>1, <3>1 DEF Follows
      <3>5. Follows(t, h, v, g)
        BY <3>1, <3>3, <3>4 DEF Follows
      <3> QED BY <3>1, <3>5
    <2> QED BY <2>2, <2>3
  <1>3. t.nodes \subseteq S
    BY Zenon, <1>1, <1>2, Induct
  <1> QED BY <1>3

(* The function on all nodes that follows the recursion.                   *)
RecOn(t, v, g) == [b \in t.nodes |-> (CHOOSE f : Follows(t, f, v, g) /\ b \in DOMAIN f)[b]]

(* It exists: recursion along the tree defines a function.                 *)
LEMMA Recursion ==
  ASSUME NEW t, IsTree(t), NEW v, NEW g
  PROVE  /\ RecOn(t, v, g) = [b \in t.nodes |-> RecOn(t, v, g)[b]]
         /\ RecOn(t, v, g)[t.root] = v
         /\ \A b \in t.nodes \ {t.root} : RecOn(t, v, g)[b] = g[<<RecOn(t, v, g)[t.up[b]], b>>]
  <1> DEFINE pick(b) == CHOOSE f : Follows(t, f, v, g) /\ b \in DOMAIN f
             f == [b \in t.nodes |-> pick(b)[b]]
  <1>1. ASSUME NEW b \in t.nodes PROVE Follows(t, pick(b), v, g) /\ b \in DOMAIN pick(b)
    BY FollowsExists
  <1>2. f[t.root] = v
    BY Zenon, <1>1 DEF Follows, IsTree
  <1>3. ASSUME NEW b \in t.nodes \ {t.root} PROVE f[b] = g[<<f[t.up[b]], b>>]
    <2>1. t.up[b] \in t.nodes /\ b \in t.nodes
      BY DEF IsTree
    <2> HIDE DEF pick
    <2>2. f[b] = pick(b)[b] /\ f[t.up[b]] = pick(t.up[b])[t.up[b]]
      BY <2>1
    <2>3. Follows(t, pick(b), v, g) /\ b \in DOMAIN pick(b) /\ Follows(t, pick(t.up[b]), v, g)
          /\ t.up[b] \in DOMAIN pick(t.up[b])
      BY <1>1, <2>1
    <2>4. t.up[b] \in DOMAIN pick(b) /\ pick(b)[b] = g[<<pick(b)[t.up[b]], b>>]
      BY <2>3 DEF Follows
    <2>5. pick(b)[t.up[b]] = pick(t.up[b])[t.up[b]]
      BY <2>3, <2>4, FollowsUnique
    <2> QED BY <2>2, <2>4, <2>5
  <1>4. f = [b \in t.nodes |-> f[b]]
    OBVIOUS
  <1>5. RecOn(t, v, g) = f
    BY DEF RecOn
  <1> HIDE DEF f
  <1> QED BY <1>2, <1>3, <1>4, <1>5

(* The blocks are such a tree.                                             *)
BlockTree == [nodes |-> Block, root |-> Genesis, up |-> Parent]

Rec(v, g) == RecOn(BlockTree, v, g)

LEMMA BlocksAreTree ==
  IsTree(BlockTree) /\ BlockTree.nodes = Block /\ BlockTree.root = Genesis /\ BlockTree.up = Parent
  BY TreeAssumption DEF BlockTree, IsTree

(* Induction and recursion along the block tree.                           *)
LEMMA TreeInduction ==
  ASSUME NEW S, Genesis \in S, \A b \in Block \ {Genesis} : Parent[b] \in S => b \in S
  PROVE  Block \subseteq S
  <1> DEFINE t == BlockTree
  <1>1. IsTree(t) /\ t.nodes = Block /\ t.root = Genesis /\ t.up = Parent
    BY BlocksAreTree
  <1> HIDE DEF t
  <1>2. t.root \in S /\ \A b \in t.nodes \ {t.root} : t.up[b] \in S => b \in S
    BY <1>1
  <1>3. t.nodes \subseteq S
    BY <1>1, <1>2, Induct
  <1> QED BY <1>1, <1>3

LEMMA TreeRecursion ==
  ASSUME NEW v, NEW g
  PROVE  /\ Rec(v, g) = [b \in Block |-> Rec(v, g)[b]]
         /\ Rec(v, g)[Genesis] = v
         /\ \A b \in Block \ {Genesis} : Rec(v, g)[b] = g[<<Rec(v, g)[Parent[b]], b>>]
  <1> DEFINE t == BlockTree
  <1>1. IsTree(t) /\ t.nodes = Block /\ t.root = Genesis /\ t.up = Parent
    BY BlocksAreTree
  <1>2. Rec(v, g) = RecOn(t, v, g)
    BY DEF Rec
  <1> HIDE DEF t
  <1>3. /\ RecOn(t, v, g) = [b \in t.nodes |-> RecOn(t, v, g)[b]]
        /\ RecOn(t, v, g)[t.root] = v
        /\ \A b \in t.nodes \ {t.root} : RecOn(t, v, g)[b] = g[<<RecOn(t, v, g)[t.up[b]], b>>]
    BY <1>1, Recursion
  <1> QED BY <1>1, <1>2, <1>3

(* Values stay in V if the recursion keeps them there.                     *)
LEMMA TreeRecursionTyped ==
  ASSUME NEW V, NEW v \in V, NEW g \in [V \X Block -> V]
  PROVE  Rec(v, g) \in [Block -> V]
  <1> DEFINE f == Rec(v, g)
             S == {b \in Block : f[b] \in V}
  <1>1. /\ f = [b \in Block |-> f[b]]
        /\ f[Genesis] = v
        /\ \A b \in Block \ {Genesis} : f[b] = g[<<f[Parent[b]], b>>]
    BY TreeRecursion
  <1> HIDE DEF f
  <1>2. Genesis \in S
    BY <1>1, TreeAssumption
  <1>3. ASSUME NEW b \in Block \ {Genesis}, Parent[b] \in S PROVE b \in S
    BY Zenon, <1>1, <1>3
  <1>4. Block \subseteq S
    BY Zenon, <1>2, <1>3, TreeInduction
  <1>5. \A b \in Block : f[b] \in V
    BY <1>4
  <1>6. f \in [Block -> V]
    BY <1>1, <1>5
  <1> QED BY <1>6 DEF f

-----------------------------------------------------------------------------
(* The chain of a block is its parent's with the block appended.           *)
LEMMA PathRec ==
  /\ Path \in [Block -> Seq(Block)]
  /\ Path[Genesis] = <<Genesis>>
  /\ \A b \in Block \ {Genesis} : Path[b] = Append(Path[Parent[b]], b)
  <1> DEFINE g == [x \in Seq(Block) \X Block |-> Append(x[1], x[2])]
             v == <<Genesis>>
             f == Rec(v, g)
             Eq(p) == p = [b \in Block |-> IF b = Genesis THEN <<b>> ELSE Append(p[Parent[b]], b)]
  <1>1. v \in Seq(Block)
    BY TreeAssumption
  <1>2. g \in [Seq(Block) \X Block -> Seq(Block)]
    OBVIOUS
  <1>3. \A s \in Seq(Block), b \in Block : g[<<s, b>>] = Append(s, b)
    OBVIOUS
  <1> HIDE DEF g
  <1>4. /\ f = [b \in Block |-> f[b]]
        /\ f[Genesis] = v
        /\ \A b \in Block \ {Genesis} : f[b] = g[<<f[Parent[b]], b>>]
    BY TreeRecursion
  <1>5. f \in [Block -> Seq(Block)]
    BY Zenon, <1>1, <1>2, TreeRecursionTyped
  <1> HIDE DEF f
  <1>6. ASSUME NEW b \in Block \ {Genesis} PROVE f[b] = Append(f[Parent[b]], b)
    <2>1. f[Parent[b]] \in Seq(Block)
      BY <1>5, TreeAssumption
    <2> QED BY Zenon, <1>3, <1>4, <2>1
  <1>7. Eq(f)
    BY Zenon, <1>4, <1>6
  <1>8. Path = CHOOSE p : Eq(p)
    BY DEF Path
  <1> HIDE DEF Eq
  <1>9. Eq(Path)
    BY <1>7, <1>8
  <1>10. Path = [b \in Block |-> IF b = Genesis THEN <<b>> ELSE Append(Path[Parent[b]], b)]
    BY Zenon, <1>9 DEF Eq
  <1> HIDE DEF Path
  <1>11. /\ Path[Genesis] = <<Genesis>>
         /\ \A b \in Block \ {Genesis} : Path[b] = Append(Path[Parent[b]], b)
    BY Zenon, <1>10, TreeAssumption
  <1> DEFINE P == {b \in Block : Path[b] \in Seq(Block)}
  <1>12. Block \subseteq P
    <2>1. Genesis \in P
      BY Zenon, <1>1, <1>11, TreeAssumption
    <2>2. ASSUME NEW b \in Block \ {Genesis}, Parent[b] \in P PROVE b \in P
      <3>1. Path[b] = Append(Path[Parent[b]], b) /\ Path[Parent[b]] \in Seq(Block)
        BY <1>11, <2>2
      <3>2. Path[b] \in Seq(Block)
        BY <3>1
      <3> QED BY <3>2
    <2> QED BY Zenon, <2>1, <2>2, TreeInduction
  <1>13. Path = [b \in Block |-> Path[b]]
    BY <1>10
  <1> QED BY Zenon, <1>11, <1>12, <1>13

(* The work of a block's chain is its parent's plus its own.               *)
LEMMA WorkRec ==
  /\ TotalWork \in [Block -> Nat]
  /\ TotalWork[Genesis] = Body[Genesis].work
  /\ \A b \in Block \ {Genesis} : TotalWork[b] = TotalWork[Parent[b]] + Body[b].work
  <1> DEFINE g == [x \in Nat \X Block |-> x[1] + Body[x[2]].work]
             v == Body[Genesis].work
             f == Rec(v, g)
             Eq(p) == p = [b \in Block |-> IF b = Genesis THEN Body[b].work ELSE p[Parent[b]] + Body[b].work]
  <1>1. v \in Nat
    BY TreeAssumption, WorkAssumption
  <1>2. g \in [Nat \X Block -> Nat]
    BY WorkAssumption
  <1>3. \A n \in Nat, b \in Block : g[<<n, b>>] = n + Body[b].work
    OBVIOUS
  <1> HIDE DEF g
  <1>4. /\ f = [b \in Block |-> f[b]]
        /\ f[Genesis] = v
        /\ \A b \in Block \ {Genesis} : f[b] = g[<<f[Parent[b]], b>>]
    BY TreeRecursion
  <1>5. f \in [Block -> Nat]
    BY Zenon, <1>1, <1>2, TreeRecursionTyped
  <1> HIDE DEF f
  <1>6. ASSUME NEW b \in Block \ {Genesis} PROVE f[b] = f[Parent[b]] + Body[b].work
    <2>1. f[Parent[b]] \in Nat
      BY <1>5, TreeAssumption
    <2> QED BY Zenon, <1>3, <1>4, <2>1
  <1>7. Eq(f)
    BY <1>4, <1>6
  <1>8. TotalWork = CHOOSE p : Eq(p)
    BY DEF TotalWork
  <1> HIDE DEF Eq
  <1>9. Eq(TotalWork)
    BY <1>7, <1>8
  <1>10. TotalWork = [b \in Block |-> IF b = Genesis THEN Body[b].work ELSE TotalWork[Parent[b]] + Body[b].work]
    BY <1>9 DEF Eq
  <1> HIDE DEF TotalWork
  <1>11. /\ TotalWork[Genesis] = Body[Genesis].work
         /\ \A b \in Block \ {Genesis} : TotalWork[b] = TotalWork[Parent[b]] + Body[b].work
    BY <1>10, TreeAssumption
  <1> DEFINE P == {b \in Block : TotalWork[b] \in Nat}
  <1>12. Block \subseteq P
    <2>1. Genesis \in P
      BY <1>1, <1>11, TreeAssumption
    <2>2. ASSUME NEW b \in Block \ {Genesis}, Parent[b] \in P PROVE b \in P
      BY <1>11, <2>2, WorkAssumption
    <2> QED BY Zenon, <2>1, <2>2, TreeInduction
  <1>13. TotalWork = [b \in Block |-> TotalWork[b]]
    BY <1>10
  <1> QED BY <1>11, <1>12, <1>13

-----------------------------------------------------------------------------
(* A sequence of blocks that starts at genesis and follows Parent.         *)
Linked(c) ==
  /\ c \in Seq(Block) /\ Len(c) \in Nat \ {0} /\ c[1] = Genesis
  /\ \A i \in 2..Len(c) : c[i] # Genesis /\ Parent[c[i]] = c[i - 1]

(* Of places on such a sequence one is the first.                          *)
LEMMA FirstPlace ==
  ASSUME NEW c, Linked(c), NEW T \in SUBSET (1..Len(c)), T # {}
  PROVE  \E x \in T : \A y \in T : x <= y
  <1> DEFINE n == Len(c)
             U == {x \in Block \ {Genesis} : \E k \in 1..n : x = c[k] /\ \E t \in T : t <= k}
  <1>1. n \in Nat /\ c[1] = Genesis /\ \A i \in 1..n : c[i] \in Block
    BY DEF Linked
  <1>2. \A i \in 2..n : c[i] # Genesis /\ Parent[c[i]] = c[i - 1]
    BY DEF Linked
  <1>3. T \subseteq 1..n /\ \A t \in T : t \in Nat /\ 1 <= t /\ t <= n
    BY <1>1
  <1> HIDE DEF n
  <1>4. CASE 1 \in T
    BY <1>3, <1>4
  <1>5. CASE 1 \notin T
    <2>1. ASSUME NEW k \in 1..n, NEW t \in T, t <= k PROVE k \in 2..n /\ c[k] \in U
      <3>1. t # 1
        BY <1>5
      <3>2. k \in 2..n
        BY <1>1, <1>3, <2>1, <3>1
      <3>3. c[k] \in Block \ {Genesis}
        BY <1>1, <1>2, <3>2
      <3> QED BY <2>1, <3>2, <3>3
    <2>2. PICK t \in T : TRUE
      BY Zenon
    <2>3. t \in 1..n /\ t <= t
      BY <1>3
    <2>4. U # {} /\ U \in SUBSET (Block \ {Genesis})
      BY <2>1, <2>3
    <2>5. PICK x \in U : Parent[x] \notin U
      <3> HIDE DEF U
      <3> QED BY <2>4, TreeAssumption
    <2>6. PICK k \in 1..n : x = c[k] /\ \E y \in T : y <= k
      BY <2>5
    <2> HIDE DEF U
    <2>7. k \in 2..n /\ k - 1 \in 1..n /\ Parent[x] = c[k - 1]
      <3>1. k \in 2..n
        BY <2>1, <2>6
      <3> QED BY <1>1, <1>2, <2>6, <3>1
    <2>8. ASSUME NEW y \in T PROVE k <= y
      <3>1. ~(y <= k - 1)
        BY <2>1, <2>5, <2>7
      <3> QED BY <1>1, <1>3, <2>7, <3>1
    <2>9. k \in T
      <3>1. PICK y \in T : y <= k
        BY <2>6
      <3>2. y = k
        BY <1>3, <2>7, <2>8, <3>1
      <3> QED BY <3>1, <3>2
    <2> QED BY <2>8, <2>9
  <1> QED BY <1>4, <1>5

(* Induction over its places.                                              *)
LEMMA PlaceInduction ==
  ASSUME NEW c, Linked(c), NEW S, 1 \in S, \A n \in 1..(Len(c) - 1) : n \in S => n + 1 \in S
  PROVE  1..Len(c) \subseteq S
  <1> DEFINE T == (1..Len(c)) \ S
  <1> SUFFICES ASSUME T # {} PROVE FALSE
    OBVIOUS
  <1>1. Len(c) \in Nat
    BY DEF Linked
  <1>2. PICK x \in T : \A y \in T : x <= y
    BY Zenon, FirstPlace
  <1>3. x \in 1..Len(c) /\ x # 1 /\ x \notin S
    BY <1>2
  <1>4. x - 1 \in 1..(Len(c) - 1) /\ x - 1 \in 1..Len(c) /\ ~(x <= x - 1) /\ (x - 1) + 1 = x
    BY <1>1, <1>3
  <1>5. x - 1 \in S
    BY <1>2, <1>4
  <1> QED BY <1>3, <1>4, <1>5

(* A prefix is the one before it with an element appended.                 *)
LEMMA PrefixStep ==
  ASSUME NEW T, NEW c \in Seq(T), NEW m \in 1..Len(c)
  PROVE  /\ SubSeq(c, 1, m) = Append(SubSeq(c, 1, m - 1), c[m])
         /\ SubSeq(c, 1, 1) = <<c[1]>>
  <1> DEFINE p == SubSeq(c, 1, m - 1)
  <1>1. Len(c) \in Nat /\ m \in Nat /\ 1 \in 1..Len(c) /\ m \in 1..Len(c) /\ \A i \in 1..(m - 1) : c[i] \in T
    OBVIOUS
  <1>2. c[m] \in T /\ c[1] \in T
    BY <1>1
  <1>3. p \in Seq(T)
    BY <1>1
  <1>4. SubSeq(c, 1, m) = p \o <<c[m]>>
    BY <1>1
  <1> HIDE DEF p
  <1>5. SubSeq(c, 1, m) = Append(p, c[m])
    BY <1>2, <1>3, <1>4
  <1>6. SubSeq(c, 1, 1) = <<c[1]>>
    <2> DEFINE q == SubSeq(c, 1, 1)
               u == <<c[1]>>
    <2>1. q \in Seq(T) /\ Len(q) = 1 /\ q[1] = c[1]
      BY <1>1
    <2>2. u \in Seq(T) /\ Len(u) = 1 /\ u[1] = c[1]
      BY <1>2
    <2> HIDE DEF q, u
    <2>3. \A i \in 1..Len(q) : q[i] = u[i]
      BY <2>1, <2>2
    <2>4. q = u
      BY <2>1, <2>2, <2>3
    <2> QED BY <2>4 DEF q, u
  <1> QED BY <1>5, <1>6 DEF p

(* Its prefixes are the chains of their last blocks.                       *)
LEMMA LinkedPrefixes ==
  ASSUME NEW c, Linked(c)
  PROVE  \A i \in 1..Len(c) : Path[c[i]] = SubSeq(c, 1, i)
  <1> USE DEF Linked
  <1> DEFINE S == {n \in 1..Len(c) : Path[c[n]] = SubSeq(c, 1, n)}
  <1>1. 1 \in S
    <2>1. 1 \in 1..Len(c) /\ SubSeq(c, 1, 1) = <<c[1]>>
      BY PrefixStep
    <2> QED BY <2>1, PathRec
  <1>2. ASSUME NEW n \in 1..(Len(c) - 1), n \in S PROVE n + 1 \in S
    <2> DEFINE m == n + 1
    <2>1. m \in 2..Len(c) /\ m \in 1..Len(c) /\ m - 1 = n /\ m \in Nat
      OBVIOUS
    <2>2. c[m] \in Block \ {Genesis} /\ Parent[c[m]] = c[m - 1]
      BY <2>1
    <2>3. Path[c[m - 1]] = SubSeq(c, 1, m - 1)
      BY <1>2, <2>1
    <2>4. Path[c[m]] = Append(SubSeq(c, 1, m - 1), c[m])
      BY Zenon, <2>2, <2>3, PathRec
    <2>5. SubSeq(c, 1, m) = Append(SubSeq(c, 1, m - 1), c[m])
      BY Zenon, <2>1, PrefixStep
    <2> QED BY Zenon, <2>1, <2>4, <2>5
  <1> HIDE DEF S
  <1>3. 1..Len(c) \subseteq S
    BY Zenon, <1>1, <1>2, PlaceInduction
  <1> QED BY <1>3 DEF S

(* It is the chain of its last block.                                      *)
LEMMA LinkedIsPath ==
  ASSUME NEW c, Linked(c)
  PROVE  Path[c[Len(c)]] = c
  <1>1. c \in Seq(Block) /\ Len(c) \in 1..Len(c)
    BY DEF Linked
  <1>2. Path[c[Len(c)]] = SubSeq(c, 1, Len(c))
    BY <1>1, LinkedPrefixes
  <1> QED BY <1>1, <1>2

(* The chain of a block is such a sequence and ends in the block.          *)
LEMMA PathLinked ==
  ASSUME NEW b \in Block
  PROVE  Linked(Path[b]) /\ Path[b][Len(Path[b])] = b
  <1> DEFINE Ends(x) == Linked(Path[x]) /\ Path[x][Len(Path[x])] = x
             S == {x \in Block : Ends(x)}
  <1>1. Genesis \in S
    <2>1. Genesis \in Block /\ Path[Genesis] = <<Genesis>>
      BY PathRec, TreeAssumption
    <2> DEFINE c == <<Genesis>>
    <2>2. c \in Seq(Block) /\ Len(c) = 1 /\ c[1] = Genesis
      BY <2>1
    <2> HIDE DEF c
    <2>3. Linked(c) /\ c[Len(c)] = Genesis
      BY <2>2 DEF Linked
    <2>4. Path[Genesis] = c
      BY <2>1 DEF c
    <2> QED BY <2>1, <2>3, <2>4
  <1>2. ASSUME NEW x \in Block \ {Genesis}, Parent[x] \in S PROVE x \in S
    <2> DEFINE p == Path[Parent[x]]
               c == Path[x]
               n == Len(p)
    <2>1. Linked(p) /\ p[n] = Parent[x]
      BY <1>2
    <2>2. c = Append(p, x)
      BY PathRec
    <2>3. p \in Seq(Block) /\ n \in Nat \ {0} /\ p[1] = Genesis
      BY <2>1 DEF Linked
    <2> HIDE DEF p
    <2>4. /\ c \in Seq(Block) /\ Len(c) = n + 1 /\ c[n + 1] = x
          /\ \A i \in 1..n : c[i] = p[i]
      BY <2>2, <2>3
    <2> HIDE DEF c
    <2>5. ASSUME NEW i \in 2..Len(c) PROVE c[i] # Genesis /\ Parent[c[i]] = c[i - 1]
      <3>1. CASE i = n + 1
        <4>1. n \in 1..n /\ i - 1 = n
          BY <2>3, <3>1
        <4> QED BY <2>1, <2>4, <3>1, <4>1
      <3>2. CASE i # n + 1
        <4>1. i \in 2..n /\ i \in 1..n /\ i - 1 \in 1..n
          BY <2>3, <2>4, <3>2
        <4> QED BY <2>1, <2>4, <4>1 DEF Linked
      <3> QED BY <3>1, <3>2
    <2>6. 1 \in 1..n /\ Len(c) \in Nat \ {0}
      BY <2>3, <2>4
    <2>7. Linked(c) /\ c[Len(c)] = x
      BY <2>3, <2>4, <2>5, <2>6 DEF Linked
    <2> QED BY <2>7 DEF c
  <1> HIDE DEF Ends
  <1>3. Block \subseteq S
    BY Zenon, <1>1, <1>2, TreeInduction
  <1>4. Ends(b)
    BY <1>3
  <1> QED BY <1>4 DEF Ends

(* A block's height is one more than its parent's.                         *)
LEMMA HeightRec ==
  ASSUME NEW b \in Block
  PROVE  /\ Height(b) \in Nat
         /\ b # Genesis => Height(b) = Height(Parent[b]) + 1
         /\ b = Genesis => Height(b) = 0
  <1>1. Len(Path[b]) \in Nat \ {0}
    BY PathLinked DEF Linked
  <1>2. ASSUME b # Genesis PROVE Height(b) = Height(Parent[b]) + 1
    <2>1. Parent[b] \in Block /\ Path[b] = Append(Path[Parent[b]], b)
      BY <1>2, PathRec, TreeAssumption
    <2>2. Path[Parent[b]] \in Seq(Block)
      BY <2>1, PathRec
    <2>3. Len(Path[b]) = Len(Path[Parent[b]]) + 1 /\ Len(Path[Parent[b]]) \in Nat
      BY <2>1, <2>2
    <2> QED BY <2>3 DEF Height
  <1>3. ASSUME b = Genesis PROVE Height(b) = 0
    <2>1. Len(<<Genesis>>) = 1
      OBVIOUS
    <2> QED BY <1>3, <2>1, PathRec DEF Height
  <1> QED BY <1>1, <1>2, <1>3 DEF Height

(* The chain of a block, by height.                                        *)
LEMMA AtProps ==
  ASSUME NEW b \in Block, NEW h \in 0..Height(b)
  PROVE  /\ At(b, h) \in Block /\ Height(At(b, h)) = h
         /\ At(b, Height(b)) = b
         /\ \A k \in 0..h : At(At(b, h), k) = At(b, k)
         /\ h = 0 <=> At(b, h) = Genesis
         /\ h # 0 => Parent[At(b, h)] = At(b, h - 1)
  <1> DEFINE c == Path[b]
  <1>1. Linked(c) /\ c[Len(c)] = b
    BY PathLinked
  <1>2. /\ c \in Seq(Block) /\ Len(c) \in Nat \ {0} /\ c[1] = Genesis
        /\ \A i \in 2..Len(c) : c[i] # Genesis /\ Parent[c[i]] = c[i - 1]
    BY <1>1 DEF Linked
  <1>3. Len(c) = Height(b) + 1
    BY <1>2 DEF Height
  <1>4. \A i \in 1..Len(c) : Path[c[i]] = SubSeq(c, 1, i)
    BY <1>1, LinkedPrefixes
  <1>5. \A k \in 0..Height(b) : At(b, k) = c[k + 1]
    BY DEF At
  <1> HIDE DEF c
  <1>6. h \in Nat /\ h + 1 \in 1..Len(c)
    <2>1. Height(b) \in Nat
      BY HeightRec
    <2> QED BY <1>3, <2>1
  <1>7. c[h + 1] \in Block
    BY <1>2, <1>6
  <1>8. Path[c[h + 1]] = SubSeq(c, 1, h + 1)
    BY <1>4, <1>6
  <1>9. /\ Len(SubSeq(c, 1, h + 1)) = h + 1
        /\ \A i \in 1..(h + 1) : SubSeq(c, 1, h + 1)[i] = c[i]
    BY <1>2, <1>6
  <1>10. At(b, h) \in Block /\ Height(At(b, h)) = h
    BY <1>5, <1>6, <1>7, <1>8, <1>9 DEF Height
  <1>11. At(b, Height(b)) = b
    <2>1. Height(b) \in 0..Height(b)
      BY HeightRec
    <2> QED BY <1>1, <1>3, <1>5, <2>1
  <1>12. ASSUME NEW k \in 0..h PROVE At(At(b, h), k) = At(b, k)
    <2>1. k + 1 \in 1..(h + 1) /\ k \in 0..Height(b)
      <3>1. Height(b) \in Nat
        BY HeightRec
      <3> QED BY <1>6, <3>1
    <2>2. At(At(b, h), k) = Path[c[h + 1]][k + 1]
      BY <1>5 DEF At
    <2> QED BY <1>5, <1>8, <1>9, <2>1, <2>2
  <1>13. h = 0 <=> At(b, h) = Genesis
    <2>1. CASE h = 0
      BY <1>2, <1>5, <2>1
    <2>2. CASE h # 0
      <3>1. h + 1 \in 2..Len(c)
        BY <1>2, <1>6, <2>2
      <3> QED BY <1>2, <1>5, <2>2, <3>1
    <2> QED BY <2>1, <2>2
  <1>14. h # 0 => Parent[At(b, h)] = At(b, h - 1)
    <2> SUFFICES ASSUME h # 0 PROVE Parent[At(b, h)] = At(b, h - 1)
      OBVIOUS
    <2>1. h + 1 \in 2..Len(c) /\ h - 1 \in 0..Height(b) /\ (h - 1) + 1 = h /\ (h + 1) - 1 = h
      <3>1. Height(b) \in Nat
        BY HeightRec
      <3> QED BY <1>3, <1>6, <3>1
    <2>2. At(b, h - 1) = c[h]
      BY <1>5, <2>1
    <2>3. Parent[c[h + 1]] = c[h]
      BY <1>2, <2>1
    <2> QED BY <1>5, <2>2, <2>3
  <1> QED BY <1>10, <1>11, <1>12, <1>13, <1>14

(* Of heights on a chain one is the least and one is the greatest.         *)
LEMMA LeastHeight ==
  ASSUME NEW b \in Block, NEW S \in SUBSET (0..Height(b)), S # {}
  PROVE  Min(S) \in S /\ \A x \in S : Min(S) <= x
  <1> DEFINE c == Path[b]
             T == {h + 1 : h \in S}
  <1>1. Linked(c) /\ Len(c) = Height(b) + 1 /\ Height(b) \in Nat
    BY PathLinked, HeightRec DEF Height, Linked
  <1>2. T \in SUBSET (1..Len(c)) /\ T # {}
    <2>1. \A h \in S : h + 1 \in 1..Len(c)
      BY <1>1
    <2> QED BY Zenon, <2>1
  <1> HIDE DEF c
  <1>3. PICK t \in T : \A y \in T : t <= y
    <2> HIDE DEF T
    <2> QED BY <1>1, <1>2, FirstPlace
  <1>4. PICK h \in S : t = h + 1
    BY <1>3
  <1>5. ASSUME NEW y \in S PROVE h <= y
    <2>1. h + 1 <= y + 1
      BY <1>3, <1>4
    <2> QED BY <1>1, <2>1
  <1>6. \E x \in S : \A y \in S : x <= y
    BY <1>5
  <1> QED BY Zenon, <1>6 DEF Min

LEMMA GreatestHeight ==
  ASSUME NEW b \in Block, NEW S \in SUBSET (0..Height(b)), S # {}
  PROVE  Max(S) \in S /\ \A x \in S : x <= Max(S)
  <1> DEFINE n == Height(b)
             T == {n - h : h \in S}
  <1>1. n \in Nat /\ S \subseteq 0..n
    BY HeightRec
  <1> HIDE DEF n
  <1>2. T \in SUBSET (0..n) /\ T # {}
    <2>1. \A h \in S : n - h \in 0..n
      BY <1>1
    <2> QED BY Zenon, <2>1
  <1> HIDE DEF T
  <1>3. Min(T) \in T /\ \A y \in T : Min(T) <= y
    BY <1>2, LeastHeight DEF n
  <1>4. PICK k \in S : Min(T) = n - k
    BY <1>3 DEF T
  <1>5. ASSUME NEW x \in S PROVE k >= x
    <2>1. n - x \in T
      BY DEF T
    <2>2. n - k <= n - x
      BY <1>3, <1>4, <2>1
    <2> QED BY <1>1, <2>2
  <1>6. \E m \in S : \A x \in S : m >= x
    BY <1>5
  <1>7. Max(S) \in S /\ \A x \in S : Max(S) >= x
    BY Zenon, <1>6 DEF Max
  <1>8. \A x \in S : x \in Nat
    BY <1>1
  <1> QED BY <1>7, <1>8

(* The greater of two heights.                                             *)
LEMMA MaxOfTwo ==
  ASSUME NEW a \in Int, NEW b \in Int
  PROVE  Max({a, b}) = IF a <= b THEN b ELSE a
  <1>1. \E m \in {a, b} : \A y \in {a, b} : m >= y
    OBVIOUS
  <1>2. Max({a, b}) \in {a, b} /\ \A y \in {a, b} : Max({a, b}) >= y
    BY <1>1 DEF Max
  <1> QED BY <1>2

(* Moving the last element of a chain to the front of what follows it.     *)
LEMMA AppendShift ==
  ASSUME NEW p \in Seq(Block), NEW e \in Block, NEW t \in Seq(Block)
  PROVE  Append(p, e) \o t = p \o (<<e>> \o t)
  OBVIOUS

(* The elements of a branch put on the first f blocks of a chain, and of   *)
(* the part of the chain it replaces.                                      *)
LEMMA BranchElements ==
  ASSUME NEW c \in Seq(Block), NEW branch \in Seq(Block), NEW f \in 1..(Len(c) - 1)
  PROVE  LET p == SubSeq(c, 1, f) \o branch
             current == SubSeq(c, f + 1, Len(c))
         IN  /\ p \in Seq(Block) /\ Len(p) = f + Len(branch) /\ Len(current) = Len(c) - f
             /\ \A i \in 1..f : p[i] = c[i]
             /\ \A k \in 1..Len(branch) : p[f + k] = branch[k]
             /\ \A k \in 1..(Len(c) - f) : c[f + k] = current[k]
  <1> DEFINE n == Len(branch)
             m == Len(c)
             q == SubSeq(c, 1, f)
             p == q \o branch
             current == SubSeq(c, f + 1, m)
  <1>1. n \in Nat /\ m \in Nat /\ f \in Nat /\ 1 <= f /\ f < m /\ \A i \in 1..m : c[i] \in Block
    OBVIOUS
  <1> HIDE DEF m
  <1>2. /\ q \in Seq(Block)
        /\ Len(q) = IF 1 <= f THEN f - 1 + 1 ELSE 0
        /\ \A i \in 1..(f - 1 + 1) : q[i] = c[1 + i - 1]
    <2>1. \A i \in 1..f : c[i] \in Block
      BY <1>1
    <2> QED BY <1>1, <2>1
  <1>3. /\ Len(current) = IF f + 1 <= m THEN m - (f + 1) + 1 ELSE 0
        /\ \A k \in 1..(m - (f + 1) + 1) : current[k] = c[(f + 1) + k - 1]
    <2>1. \A i \in (f + 1)..m : c[i] \in Block
      BY <1>1
    <2> QED BY <1>1, <2>1
  <1> HIDE DEF current, q
  <1>4. q \in Seq(Block) /\ Len(q) = f /\ \A i \in 1..f : q[i] = c[i]
    BY <1>1, <1>2
  <1>5. /\ p \in Seq(Block) /\ Len(p) = Len(q) + Len(branch)
        /\ \A i \in 1..(Len(q) + Len(branch)) : p[i] = IF i <= Len(q) THEN q[i] ELSE branch[i - Len(q)]
    BY <1>4
  <1> HIDE DEF p, n
  <1>6. p \in Seq(Block) /\ Len(p) = f + n /\ \A i \in 1..(f + n) : p[i] = IF i <= f THEN q[i] ELSE branch[i - f]
    BY <1>4, <1>5 DEF n
  <1>7. (\A i \in 1..f : p[i] = c[i]) /\ (\A k \in 1..n : p[f + k] = branch[k])
    BY <1>1, <1>4, <1>6
  <1>8. Len(current) = m - f /\ \A k \in 1..(m - f) : c[f + k] = current[k]
    BY <1>1, <1>3
  <1> QED BY <1>6, <1>7, <1>8 DEF p, q, n, m, current

(* The positions where the ranks of two sequences of blocks differ, and    *)
(* that the first sequence has the lower one at the first of them.         *)
Differ(s, t) == {i \in DOMAIN s \cap DOMAIN t : Body[s[i]].rank # Body[t[i]].rank}

LowerFirst(s, t) ==
  \E i \in Differ(s, t) : (\A j \in Differ(s, t) : i <= j) /\ Body[s[i]].rank < Body[t[i]].rank

(* Comparing a branch with the part of the chain it replaces is comparing  *)
(* the two whole chains.                                                   *)
LEMMA BranchCompared ==
  ASSUME NEW c \in Seq(Block), NEW branch \in Seq(Block), NEW f \in 1..(Len(c) - 1)
  PROVE  LET p == SubSeq(c, 1, f) \o branch
             current == SubSeq(c, f + 1, Len(c))
         IN  /\ Differ(branch, current) = {} <=> Differ(p, c) = {}
             /\ LowerFirst(branch, current) <=> LowerFirst(p, c)
             /\ Len(branch) > Len(current) <=> Len(p) > Len(c)
             /\ DOMAIN current = 1..Len(current)
  <1> DEFINE p == SubSeq(c, 1, f) \o branch
             current == SubSeq(c, f + 1, Len(c))
             n == Len(branch)
             m == Len(c)
             here == Differ(branch, current)
             there == Differ(p, c)
  <1>1. /\ p \in Seq(Block) /\ Len(p) = f + n /\ Len(current) = m - f
        /\ \A i \in 1..f : p[i] = c[i]
        /\ \A k \in 1..n : p[f + k] = branch[k]
        /\ \A k \in 1..(m - f) : c[f + k] = current[k]
    BY BranchElements
  <1>2. DOMAIN current = 1..Len(current)
    <2>1. f + 1 \in 1..m /\ \A i \in (f + 1)..m : c[i] \in Block
      OBVIOUS
    <2>2. current \in Seq(Block)
      BY <2>1
    <2> HIDE DEF current
    <2> QED BY <2>2
  <1>3. n \in Nat /\ m \in Nat /\ f \in Nat /\ f < m /\ DOMAIN branch = 1..n /\ DOMAIN c = 1..m
    OBVIOUS
  <1> HIDE DEF p, current, n, m
  <1>4. DOMAIN p = 1..(f + n) /\ DOMAIN current = 1..(m - f)
    BY <1>1, <1>2
  <1>5. \A k : k \in here <=> k \in 1..n /\ k \in 1..(m - f) /\ Body[branch[k]].rank # Body[current[k]].rank
    BY <1>3, <1>4 DEF Differ
  <1>6. \A i : i \in there <=> i \in 1..(f + n) /\ i \in 1..m /\ Body[p[i]].rank # Body[c[i]].rank
    BY <1>3, <1>4 DEF Differ
  <1>7. \A k \in here : k \in Nat /\ f + k \in there /\ p[f + k] = branch[k] /\ c[f + k] = current[k]
    <2> SUFFICES ASSUME NEW k \in here
                 PROVE  k \in Nat /\ f + k \in there /\ p[f + k] = branch[k] /\ c[f + k] = current[k]
      OBVIOUS
    <2>1. k \in 1..n /\ k \in 1..(m - f) /\ k \in Nat /\ Body[branch[k]].rank # Body[current[k]].rank
      BY <1>3, <1>5
    <2>2. p[f + k] = branch[k] /\ c[f + k] = current[k]
      BY <1>1, <2>1
    <2>3. f + k \in 1..(f + n) /\ f + k \in 1..m
      BY <1>3, <2>1
    <2> QED BY <1>6, <2>1, <2>2, <2>3
  <1>8. \A i \in there : \E k \in here : i = f + k
    <2> SUFFICES ASSUME NEW i \in there PROVE \E k \in here : i = f + k
      OBVIOUS
    <2>1. i \in 1..(f + n) /\ i \in 1..m /\ i \notin 1..f /\ Body[p[i]].rank # Body[c[i]].rank
      BY <1>1, <1>6
    <2>2. i - f \in 1..n /\ i - f \in 1..(m - f) /\ f + (i - f) = i
      BY <1>3, <2>1
    <2>3. p[i] = branch[i - f] /\ c[i] = current[i - f]
      BY <1>1, <2>2
    <2>4. i - f \in here
      BY <1>5, <2>1, <2>2, <2>3
    <2> QED BY <2>2, <2>4
  <1> HIDE DEF here, there
  <1>9. ASSUME NEW i \in here, \A j \in here : i <= j, Body[branch[i]].rank < Body[current[i]].rank
        PROVE  \E x \in there : (\A y \in there : x <= y) /\ Body[p[x]].rank < Body[c[x]].rank
    <2>1. ASSUME NEW y \in there PROVE f + i <= y
      <3>1. PICK k \in here : y = f + k
        BY <1>8
      <3>2. k \in Nat /\ i \in Nat /\ i <= k
        BY <1>7, <1>9
      <3> QED BY <1>3, <3>1, <3>2
    <2>2. f + i \in there /\ Body[p[f + i]].rank < Body[c[f + i]].rank
      BY <1>7, <1>9
    <2> QED BY <2>1, <2>2
  <1>10. ASSUME NEW x \in there, \A y \in there : x <= y, Body[p[x]].rank < Body[c[x]].rank
        PROVE  \E i \in here : (\A j \in here : i <= j) /\ Body[branch[i]].rank < Body[current[i]].rank
    <2>1. PICK i \in here : x = f + i
      BY <1>8
    <2>2. ASSUME NEW j \in here PROVE i <= j
      <3>1. f + i <= f + j /\ i \in Nat /\ j \in Nat
        BY <1>7, <1>10, <2>1
      <3> QED BY <1>3, <3>1
    <2>3. Body[branch[i]].rank < Body[current[i]].rank
      BY <1>7, <1>10, <2>1
    <2> QED BY <2>2, <2>3
  <1>11. here = {} <=> there = {}
    BY <1>7, <1>8
  <1>12. LowerFirst(branch, current) <=> LowerFirst(p, c)
    <2>1. LowerFirst(branch, current) => LowerFirst(p, c)
      BY <1>9 DEF LowerFirst, here, there
    <2>2. LowerFirst(p, c) => LowerFirst(branch, current)
      BY <1>10 DEF LowerFirst, here, there
    <2> QED BY <2>1, <2>2
  <1>13. n > Len(current) <=> Len(p) > m
    BY <1>1, <1>3
  <1> QED BY <1>2, <1>11, <1>12, <1>13 DEF p, current, n, m, here, there

=============================================================================
