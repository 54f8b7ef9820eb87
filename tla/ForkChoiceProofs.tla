-------------------------- MODULE ForkChoiceProofs --------------------------
(***************************************************************************)
(* The fork choice by proposer rank is a total order where siblings differ *)
(* in rank, so that nodes which know the same blocks follow the same tip,  *)
(* and the tip is the best block known.  Under proof of work the tip is at *)
(* least never beaten by a block already known.                            *)
(***************************************************************************)
EXTENDS Dominance, BlocksProofs

(* The VRF fork choice decides about every block, without the tie-break of *)
(* hardening, and no two children of a block have the same rank.           *)
Ranked ==
  /\ \A b \in Block \ {Genesis} : ActiveAt(VrfHeight, Height(b))
  /\ \A b \in Block : ~ActiveAt(HardeningHeight, Height(b)) /\ Body[b].rank \in Int
  /\ \A b, c \in Block \ {Genesis} : b # c /\ Parent[b] = Parent[c] => Body[b].rank # Body[c].rank

(* The chain p is ahead of q at place i: up to there the ranks agree, and  *)
(* there p has the lower one or q has ended.                               *)
Ahead(p, q, i) ==
  /\ i \in DOMAIN p
  /\ \A j \in 1..(i - 1) : j \in DOMAIN q /\ Body[p[j]].rank = Body[q[j]].rank
  /\ i \in DOMAIN q => Body[p[i]].rank < Body[q[i]].rank

Beats(b, t) == \E i \in Nat : Ahead(Path[b], Path[t], i)

LEMMA PathSeq ==
  ASSUME NEW b \in Block
  PROVE  /\ DOMAIN Path[b] = 1..Len(Path[b]) /\ Len(Path[b]) \in Nat \ {0}
         /\ Path[b][1] = Genesis
         /\ \A i \in 1..Len(Path[b]) : Path[b][i] \in Block
  <1>1. Path[b] \in Seq(Block) /\ Len(Path[b]) \in Nat \ {0} /\ Path[b][1] = Genesis
    BY PathLinked DEF Linked
  <1> QED BY <1>1

(* The chain of a block, as a sequence of blocks with integer ranks.       *)
LEMMA PathTyped ==
  ASSUME Ranked, NEW b \in Block
  PROVE  /\ Path[b] \in Seq(Block) /\ DOMAIN Path[b] = 1..Len(Path[b]) /\ Len(Path[b]) \in Nat \ {0}
         /\ Path[b][1] = Genesis
         /\ \A i \in DOMAIN Path[b] : Path[b][i] \in Block /\ Body[Path[b][i]].rank \in Int
  <1>1. Path[b] \in Seq(Block) /\ Len(Path[b]) \in Nat \ {0} /\ Path[b][1] = Genesis
    BY PathLinked DEF Linked
  <1>2. DOMAIN Path[b] = 1..Len(Path[b]) /\ \A i \in DOMAIN Path[b] : Path[b][i] \in Block
    BY <1>1
  <1> QED BY <1>1, <1>2 DEF Ranked

(* Being ahead is transitive.                                              *)
LEMMA BeatsTransitive ==
  ASSUME Ranked, NEW b \in Block, NEW c \in Block, NEW d \in Block, Beats(b, c), Beats(c, d)
  PROVE  Beats(b, d)
  <1> DEFINE p == Path[b]
             q == Path[c]
             r == Path[d]
             rank(s, i) == Body[s[i]].rank
  <1>1. /\ DOMAIN p = 1..Len(p) /\ Len(p) \in Nat /\ \A i \in DOMAIN p : rank(p, i) \in Int
        /\ DOMAIN q = 1..Len(q) /\ Len(q) \in Nat /\ \A i \in DOMAIN q : rank(q, i) \in Int
        /\ DOMAIN r = 1..Len(r) /\ Len(r) \in Nat /\ \A i \in DOMAIN r : rank(r, i) \in Int
    BY PathTyped
  <1>2. PICK i \in Nat : Ahead(p, q, i)
    BY DEF Beats
  <1>3. PICK k \in Nat : Ahead(q, r, k)
    BY DEF Beats
  <1>4. /\ i \in DOMAIN p /\ (i \in DOMAIN q => rank(p, i) < rank(q, i))
        /\ \A j \in 1..(i - 1) : j \in DOMAIN q /\ rank(p, j) = rank(q, j)
        /\ k \in DOMAIN q /\ (k \in DOMAIN r => rank(q, k) < rank(r, k))
        /\ \A j \in 1..(k - 1) : j \in DOMAIN r /\ rank(q, j) = rank(r, j)
    BY <1>2, <1>3 DEF Ahead
  <1> HIDE DEF p, q, r, rank
  <1>5. CASE i <= k
    <2>1. \A j \in 1..(i - 1) : j \in 1..(k - 1)
      BY <1>5
    <2>2. \A j \in 1..(i - 1) : j \in DOMAIN r /\ rank(p, j) = rank(r, j)
      BY <1>4, <2>1
    <2>3. ASSUME i \in DOMAIN r PROVE rank(p, i) < rank(r, i)
      <3>1. CASE i = k
        BY <1>1, <1>4, <2>3, <3>1
      <3>2. CASE i < k
        <4>1. i \in 1..(k - 1) /\ i \in DOMAIN q
          BY <1>1, <1>4, <3>2
        <4> QED BY <1>1, <1>4, <2>3, <4>1
      <3> QED BY <1>5, <3>1, <3>2
    <2>4. Ahead(p, r, i)
      BY <1>4, <2>2, <2>3 DEF Ahead, rank
    <2> QED BY <2>4 DEF Beats, p, r
  <1>6. CASE k < i
    <2>1. k \in 1..(i - 1) /\ k \in DOMAIN p /\ \A j \in 1..(k - 1) : j \in 1..(i - 1)
      BY <1>1, <1>4, <1>6
    <2>2. \A j \in 1..(k - 1) : j \in DOMAIN r /\ rank(p, j) = rank(r, j)
      BY <1>4, <2>1
    <2>3. k \in DOMAIN r => rank(p, k) < rank(r, k)
      BY <1>1, <1>4, <2>1
    <2>4. Ahead(p, r, k)
      BY <2>1, <2>2, <2>3 DEF Ahead, rank
    <2> QED BY <2>4 DEF Beats, p, r
  <1> QED BY <1>5, <1>6

(* No block is ahead of itself.                                            *)
LEMMA BeatsIrreflexive ==
  ASSUME Ranked, NEW b \in Block
  PROVE  ~Beats(b, b)
  BY PathTyped DEF Beats, Ahead

(* A block is ahead of its parent.                                         *)
LEMMA ChildBeats ==
  ASSUME Ranked, NEW b \in Block \ {Genesis}
  PROVE  Beats(b, Parent[b])
  <1> DEFINE p == Path[b]
             q == Path[Parent[b]]
  <1>1. Parent[b] \in Block /\ p = Append(q, b)
    BY PathRec, TreeAssumption
  <1>2. q \in Seq(Block) /\ DOMAIN q = 1..Len(q) /\ Len(q) \in Nat
    BY <1>1, PathTyped
  <1> HIDE DEF p, q
  <1>3. DOMAIN p = 1..(Len(q) + 1) /\ \A j \in 1..Len(q) : p[j] = q[j]
    BY <1>1, <1>2
  <1>4. (Len(q) + 1) - 1 = Len(q) /\ Len(q) + 1 \notin DOMAIN q /\ Len(q) + 1 \in DOMAIN p
    BY <1>2, <1>3
  <1>5. Ahead(p, q, Len(q) + 1)
    BY <1>2, <1>3, <1>4 DEF Ahead
  <1> QED BY <1>2, <1>5 DEF Beats, p, q

(* Chains with the same ranks up to a height are the same up to it.        *)
LEMMA SameRanks ==
  ASSUME Ranked, NEW b \in Block, NEW c \in Block, NEW n \in Nat,
         \A j \in 1..n : /\ j \in DOMAIN Path[b] \cap DOMAIN Path[c]
                         /\ Body[Path[b][j]].rank = Body[Path[c][j]].rank
  PROVE  \A j \in 1..n : Path[b][j] = Path[c][j]
  <1> DEFINE p == Path[b]
             q == Path[c]
             S == {m \in Nat : m <= n => p[m] = q[m]}
  <1>1. /\ p[1] = Genesis /\ q[1] = Genesis /\ DOMAIN p = 1..Len(p) /\ DOMAIN q = 1..Len(q)
        /\ Len(p) \in Nat /\ Len(q) \in Nat
        /\ \A i \in DOMAIN p : p[i] \in Block
        /\ \A i \in DOMAIN q : q[i] \in Block
    BY PathTyped
  <1>2. /\ \A i \in 2..Len(p) : p[i] # Genesis /\ Parent[p[i]] = p[i - 1]
        /\ \A i \in 2..Len(q) : q[i] # Genesis /\ Parent[q[i]] = q[i - 1]
    BY PathLinked DEF Linked
  <1>3. \A j \in 1..n : j \in DOMAIN p /\ j \in DOMAIN q /\ Body[p[j]].rank = Body[q[j]].rank
    OBVIOUS
  <1> HIDE DEF p, q
  <1>4. 1 \in S
    BY <1>1
  <1>5. ASSUME NEW m \in 1..(Len(p) - 1), m \in S PROVE m + 1 \in S
    <2> SUFFICES ASSUME m + 1 <= n PROVE p[m + 1] = q[m + 1]
      OBVIOUS
    <2>1. m + 1 \in 1..n /\ p[m] = q[m]
      BY <1>5
    <2>2. /\ m + 1 \in DOMAIN p /\ m + 1 \in DOMAIN q
          /\ Body[p[m + 1]].rank = Body[q[m + 1]].rank
      BY <1>3, <2>1
    <2>3. m + 1 \in 2..Len(p) /\ m + 1 \in 2..Len(q) /\ (m + 1) - 1 = m
      BY <1>1, <2>2
    <2>4. /\ Parent[p[m + 1]] = p[m] /\ Parent[q[m + 1]] = q[m]
          /\ p[m + 1] # Genesis /\ q[m + 1] # Genesis
      BY <1>2, <2>3
    <2>5. p[m + 1] \in Block /\ q[m + 1] \in Block
      BY <1>1, <2>2
    <2> QED BY <2>1, <2>2, <2>4, <2>5 DEF Ranked
  <1> HIDE DEF S
  <1>6. Linked(p)
    BY PathLinked DEF p
  <1>7. 1..Len(p) \subseteq S
    BY <1>4, <1>5, <1>6, PlaceInduction
  <1>8. \A j \in 1..n : p[j] = q[j]
    BY <1>1, <1>3, <1>7 DEF S
  <1> QED BY <1>8 DEF p, q

(* Of two different blocks one is ahead.                                   *)
LEMMA BeatsTotal ==
  ASSUME Ranked, NEW b \in Block, NEW c \in Block, b # c
  PROVE  Beats(b, c) \/ Beats(c, b)
  <1> DEFINE p == Path[b]
             q == Path[c]
             rank(s, i) == Body[s[i]].rank
             agree(i) == i \in DOMAIN p /\ i \in DOMAIN q /\ rank(p, i) = rank(q, i)
             T == {i \in 1..Len(p) : ~agree(i)}
  <1>1. /\ DOMAIN p = 1..Len(p) /\ Len(p) \in Nat /\ \A i \in DOMAIN p : rank(p, i) \in Int
        /\ DOMAIN q = 1..Len(q) /\ Len(q) \in Nat /\ \A i \in DOMAIN q : rank(q, i) \in Int
    BY PathTyped
  <1>2. PICK i \in Nat \ {0} : ~agree(i) /\ \A j \in 1..(i - 1) : agree(j)
    <2>1. CASE T = {}
      <3>1. Len(p) + 1 \in Nat \ {0} /\ Len(p) + 1 \notin DOMAIN p /\ (Len(p) + 1) - 1 = Len(p)
        BY <1>1
      <3>2. \A j \in 1..Len(p) : agree(j)
        BY <2>1
      <3> HIDE DEF T, p, q, rank
      <3> QED BY <3>1, <3>2
    <2>2. CASE T # {}
      <3>1. Linked(p)
        BY PathLinked
      <3>2. T \in SUBSET (1..Len(p))
        OBVIOUS
      <3>3. PICK i \in T : \A j \in T : i <= j
        <4> HIDE DEF T, p
        <4> QED BY <2>2, <3>1, <3>2, FirstPlace
      <3>4. i \in 1..Len(p) /\ ~agree(i)
        BY <3>3
      <3>5. ASSUME NEW j \in 1..(i - 1) PROVE agree(j)
        <4>1. j \in 1..Len(p) /\ ~(i <= j)
          BY <1>1, <3>4
        <4> HIDE DEF agree
        <4> QED BY <3>3, <4>1
      <3> HIDE DEF agree
      <3>6. i \in Nat \ {0}
        BY <1>1, <3>4
      <3> QED BY <3>4, <3>5, <3>6
    <2> QED BY <2>1, <2>2
  <1>4. i \in Nat \ {0} /\ ~(i \in DOMAIN p /\ i \in DOMAIN q /\ rank(p, i) = rank(q, i))
    BY <1>2
  <1>5. \A j \in 1..(i - 1) : j \in DOMAIN p /\ j \in DOMAIN q /\ rank(p, j) = rank(q, j)
    BY <1>2
  <1>6. i \in DOMAIN p \/ i \in DOMAIN q
    <2> SUFFICES ASSUME i \notin DOMAIN p, i \notin DOMAIN q PROVE FALSE
      OBVIOUS
    <2> HIDE DEF T
    <2>1. Len(p) = i - 1 /\ Len(q) = i - 1
      <3> HIDE DEF p, q, rank
      <3>1. i > Len(p) /\ i > Len(q)
        BY <1>1, <1>4
      <3>2. i - 1 <= Len(p) /\ i - 1 <= Len(q)
        <4>1. CASE i = 1
          BY <1>1, <4>1
        <4>2. CASE i # 1
          <5>1. i - 1 \in 1..(i - 1)
            BY <1>4, <4>2
          <5>2. i - 1 \in DOMAIN p /\ i - 1 \in DOMAIN q
            BY <1>5, <5>1
          <5> QED BY <1>1, <5>2
        <4> QED BY <4>1, <4>2
      <3> QED BY <1>1, <1>4, <3>1, <3>2
    <2>2. i - 1 \in Nat
      BY <1>4
    <2>3. \A j \in 1..(i - 1) : p[j] = q[j]
      BY <1>5, <2>2, SameRanks
    <2>4. p[Len(p)] = b /\ q[Len(q)] = c /\ Len(p) \in Nat \ {0}
      BY PathLinked DEF Linked
    <2> HIDE DEF p, q
    <2>5. i - 1 \in 1..(i - 1)
      BY <1>4, <2>1, <2>4
    <2> QED BY <2>1, <2>3, <2>4, <2>5
  <1>7. (i \in DOMAIN p /\ (i \in DOMAIN q => rank(p, i) < rank(q, i)))
        \/ (i \in DOMAIN q /\ (i \in DOMAIN p => rank(q, i) < rank(p, i)))
    <2> HIDE DEF p, q, rank
    <2> QED BY <1>1, <1>4, <1>6
  <1>8. Ahead(p, q, i) \/ Ahead(q, p, i)
    BY <1>5, <1>7 DEF Ahead
  <1> QED BY <1>4, <1>8 DEF Beats

-----------------------------------------------------------------------------
(* The comparison of the code is this order.                               *)
LEMMA BetterIsBeats ==
  ASSUME Ranked, NEW b \in Block \ {Genesis}, NEW t \in Block
  PROVE  Better(b, t) <=> Beats(b, t)
  <1> DEFINE p == Path[b]
             q == Path[t]
             rank(s, i) == Body[s[i]].rank
             differ == {i \in DOMAIN p \cap DOMAIN q : rank(p, i) # rank(q, i)}
             first(i) == (\A j \in differ : i <= j) /\ rank(p, i) < rank(q, i)
  <1>1. /\ DOMAIN p = 1..Len(p) /\ Len(p) \in Nat /\ \A i \in DOMAIN p : rank(p, i) \in Int
        /\ DOMAIN q = 1..Len(q) /\ Len(q) \in Nat /\ \A i \in DOMAIN q : rank(q, i) \in Int
    BY PathTyped
  <1>2. Better(b, t) <=> IF differ # {} THEN \E i \in differ : first(i) ELSE Len(p) > Len(q)
    <2>1. ActiveAt(VrfHeight, Height(b)) /\ ~ActiveAt(HardeningHeight, Height(t))
      BY DEF Ranked
    <2> QED BY <2>1 DEF Better, RankBetter
  <1>3. ASSUME NEW i \in differ, first(i) PROVE Ahead(p, q, i) /\ i \in Nat
    <2> HIDE DEF p, q, rank
    <2>1. i \in DOMAIN p /\ i \in DOMAIN q /\ rank(p, i) < rank(q, i) /\ i \in Nat
      BY <1>1, <1>3
    <2>2. \A j \in 1..(i - 1) : j \in DOMAIN p /\ j \in DOMAIN q /\ ~(i <= j)
      BY <1>1, <2>1
    <2>3. \A j \in 1..(i - 1) : j \in DOMAIN q /\ rank(p, j) = rank(q, j)
      BY <1>3, <2>2
    <2> QED BY <2>1, <2>3 DEF Ahead, rank
  <1>4. ASSUME differ = {}, Len(p) > Len(q) PROVE Ahead(p, q, Len(q) + 1) /\ Len(q) + 1 \in Nat
    <2> HIDE DEF p, q, rank
    <2>1. Len(q) + 1 \in DOMAIN p /\ Len(q) + 1 \notin DOMAIN q /\ (Len(q) + 1) - 1 = Len(q)
      BY <1>1, <1>4
    <2>2. \A j \in 1..Len(q) : j \in DOMAIN p /\ j \in DOMAIN q
      BY <1>1, <1>4
    <2>3. \A j \in 1..Len(q) : rank(p, j) = rank(q, j)
      BY <1>4, <2>2
    <2> QED BY <1>1, <2>1, <2>2, <2>3 DEF Ahead, rank
  <1>5. ASSUME NEW i \in Nat, Ahead(p, q, i), i \in DOMAIN q PROVE i \in differ /\ first(i)
    <2>1. /\ i \in DOMAIN p /\ rank(p, i) < rank(q, i)
          /\ \A j \in 1..(i - 1) : rank(p, j) = rank(q, j)
      BY <1>5 DEF Ahead
    <2> HIDE DEF p, q, rank
    <2>2. i \in differ
      BY <1>1, <1>5, <2>1
    <2>3. ASSUME NEW j \in differ PROVE i <= j
      <3>1. j \in Nat /\ j >= 1 /\ j \notin 1..(i - 1)
        BY <1>1, <2>1
      <3> QED BY <3>1
    <2> QED BY <2>1, <2>2, <2>3
  <1>6. ASSUME NEW i \in Nat, Ahead(p, q, i), i \notin DOMAIN q PROVE differ = {} /\ Len(p) > Len(q)
    <2>1. /\ i \in DOMAIN p
          /\ \A j \in 1..(i - 1) : rank(p, j) = rank(q, j)
      BY <1>6 DEF Ahead
    <2> HIDE DEF p, q, rank
    <2>2. i > Len(q) /\ i <= Len(p)
      BY <1>1, <1>6, <2>1
    <2>3. ASSUME NEW j \in differ PROVE FALSE
      <3>1. j \in 1..(i - 1)
        BY <1>1, <2>2
      <3> QED BY <2>1, <3>1
    <2> QED BY <1>1, <2>2, <2>3
  <1> HIDE DEF p, q, differ, first, rank
  <1>7. (\E i \in Nat : Ahead(p, q, i)) <=> IF differ # {} THEN \E i \in differ : first(i) ELSE Len(p) > Len(q)
    BY <1>3, <1>4, <1>5, <1>6
  <1> QED BY <1>2, <1>7 DEF Beats, p, q

(* Work only grows along a chain.                                          *)
LEMMA GenesisLightest ==
  \A b \in Block : TotalWork[Genesis] <= TotalWork[b]
  <1> DEFINE S == {b \in Block : TotalWork[Genesis] <= TotalWork[b]}
  <1>1. TotalWork \in [Block -> Nat] /\ Genesis \in Block
    BY WorkRec, TreeAssumption
  <1>2. Genesis \in S
    BY <1>1
  <1>3. ASSUME NEW b \in Block \ {Genesis}, Parent[b] \in S PROVE b \in S
    <2>1. TotalWork[b] = TotalWork[Parent[b]] + Body[b].work /\ Body[b].work \in Nat /\ Parent[b] \in Block
      BY WorkRec, WorkAssumption, TreeAssumption
    <2> QED BY <1>1, <1>3, <2>1
  <1>4. Block \subseteq S
    BY Zenon, <1>2, <1>3, TreeInduction
  <1> QED BY <1>4

(* The genesis block never wins.                                           *)
LEMMA GenesisLoses ==
  ASSUME Ranked, NEW t \in Block
  PROVE  ~Better(Genesis, t)
  <1>1. CASE ActiveAt(VrfHeight, Height(Genesis))
    <2> DEFINE p == Path[Genesis]
               q == Path[t]
    <2>1. Genesis \in Block /\ p = <<Genesis>>
      BY PathRec, TreeAssumption
    <2>2. DOMAIN p = {1} /\ p[1] = Genesis /\ Len(p) = 1
      BY <2>1
    <2>3. q[1] = Genesis /\ Len(q) \in Nat \ {0}
      BY PathTyped
    <2> HIDE DEF p, q
    <2>4. {i \in DOMAIN p \cap DOMAIN q : Body[p[i]].rank # Body[q[i]].rank} = {} /\ ~(Len(p) > Len(q))
      BY <2>2, <2>3
    <2>5. ~ActiveAt(HardeningHeight, Height(t))
      BY DEF Ranked
    <2> QED BY <1>1, <2>4, <2>5 DEF Better, RankBetter, p, q
  <1>2. CASE ~ActiveAt(VrfHeight, Height(Genesis))
    <2>1. TotalWork[Genesis] <= TotalWork[t] /\ TotalWork[t] \in Nat /\ TotalWork[Genesis] \in Nat
      BY GenesisLightest, WorkRec, TreeAssumption
    <2> QED BY <1>2, <2>1 DEF Better
  <1> QED BY <1>1, <1>2

-----------------------------------------------------------------------------
TipKnown ==
  /\ known \in [Node -> SUBSET Block]
  /\ tip \in [Node -> Block]
  /\ \A n \in Node : tip[n] \in known[n]

(* The tip is ahead of every other block the node knows.                   *)
TipBest == \A n \in Node : \A b \in known[n] : b = tip[n] \/ Beats(tip[n], b)

(* One node learns one block.                                              *)
LEMMA LearnEffect ==
  ASSUME TipKnown, NEW n \in Node, NEW b \in Block \ {Genesis}, Learn(n, b)
  PROVE  /\ TipKnown'
         /\ b \notin known[n] /\ Parent[b] \in known[n]
         /\ known'[n] = known[n] \cup {b}
         /\ tip'[n] = IF Parent[b] = tip[n] \/ Better(b, tip[n]) THEN b ELSE tip[n]
         /\ \A m \in Node \ {n} : known'[m] = known[m] /\ tip'[m] = tip[m]
  <1> DEFINE t == IF Parent[b] = tip[n] \/ Better(b, tip[n]) THEN b ELSE tip[n]
  <1>1. /\ known' = [known EXCEPT ![n] = known[n] \cup {b}]
        /\ tip' = [tip EXCEPT ![n] = t]
        /\ b \notin known[n] /\ Parent[b] \in known[n]
    BY DEF Learn
  <1>2. t \in known[n] \cup {b}
    BY DEF TipKnown
  <1> HIDE DEF t
  <1>3. known[n] \cup {b} \in SUBSET Block
    BY DEF TipKnown
  <1>4. t \in Block
    BY <1>2, <1>3
  <1>5. known' \in [Node -> SUBSET Block] /\ tip' \in [Node -> Block]
    BY <1>1, <1>3, <1>4 DEF TipKnown
  <1>6. known'[n] = known[n] \cup {b} /\ tip'[n] = t /\ \A m \in Node \ {n} : known'[m] = known[m] /\ tip'[m] = tip[m]
    BY <1>1 DEF TipKnown
  <1>7. \A m \in Node : tip'[m] \in known'[m]
    BY <1>2, <1>6 DEF TipKnown
  <1> QED BY <1>1, <1>5, <1>6, <1>7 DEF TipKnown, t

LEMMA LearnKeepsBest ==
  ASSUME Ranked, TipKnown, TipBest, NEW n \in Node, NEW b \in Block \ {Genesis}, Learn(n, b)
  PROVE  TipBest'
  <1>1. /\ b \notin known[n] /\ Parent[b] \in known[n] /\ known'[n] = known[n] \cup {b}
        /\ tip'[n] = IF Parent[b] = tip[n] \/ Better(b, tip[n]) THEN b ELSE tip[n]
        /\ \A m \in Node \ {n} : known'[m] = known[m] /\ tip'[m] = tip[m]
    BY LearnEffect
  <1>2. tip[n] \in Block /\ tip[n] \in known[n] /\ known[n] \subseteq Block
    BY DEF TipKnown
  <1>3. Better(b, tip[n]) <=> Beats(b, tip[n])
    BY <1>2, BetterIsBeats
  <1>4. Parent[b] = tip[n] => Beats(b, tip[n])
    BY ChildBeats
  <1>5. ASSUME NEW c \in known'[n] PROVE c = tip'[n] \/ Beats(tip'[n], c)
    <2>1. CASE Beats(b, tip[n])
      <3>1. tip'[n] = b
        BY <1>1, <1>3, <2>1
      <3>2. CASE c \in known[n] /\ c # tip[n]
        <4>1. Beats(tip[n], c) /\ c \in Block
          BY <1>2, <3>2 DEF TipBest
        <4>2. Beats(b, c)
          BY <1>2, <2>1, <4>1, BeatsTransitive
        <4> QED BY <3>1, <4>2
      <3> QED BY <1>1, <1>5, <2>1, <3>1, <3>2
    <2>2. CASE ~Beats(b, tip[n])
      <3>1. tip'[n] = tip[n]
        BY <1>1, <1>3, <1>4, <2>2
      <3>2. Beats(tip[n], b)
        BY <1>1, <1>2, <2>2, BeatsTotal
      <3> QED BY <1>1, <1>5, <3>1, <3>2 DEF TipBest
    <2> QED BY <2>1, <2>2
  <1>6. ASSUME NEW m \in Node \ {n}, NEW c \in known'[m] PROVE c = tip'[m] \/ Beats(tip'[m], c)
    BY <1>1, <1>6 DEF TipBest
  <1> QED BY <1>5, <1>6 DEF TipBest

(* A tip that is ahead of all other known blocks is settled, and the same  *)
(* for all nodes that know the same blocks.                                *)
LEMMA BestIsSettled ==
  ASSUME Ranked, TipKnown, TipBest
  PROVE  Settled /\ Convergence
  <1>1. ASSUME NEW n \in Node, NEW b \in known[n] PROVE ~Better(b, tip[n])
    <2>1. tip[n] \in Block /\ b \in Block
      BY DEF TipKnown
    <2>2. CASE b = Genesis
      BY <2>1, <2>2, GenesisLoses
    <2>3. CASE b # Genesis
      <3>1. b = tip[n] \/ Beats(tip[n], b)
        BY DEF TipBest
      <3>2. ~Beats(b, tip[n])
        BY <2>1, <3>1, BeatsTransitive, BeatsIrreflexive
      <3> QED BY <2>1, <2>3, <3>2, BetterIsBeats
    <2> QED BY <2>2, <2>3
  <1>2. ASSUME NEW n \in Node, NEW m \in Node, known[n] = known[m] PROVE tip[n] = tip[m]
    <2>1. tip[n] \in Block /\ tip[m] \in Block /\ tip[n] \in known[m] /\ tip[m] \in known[n]
      BY <1>2 DEF TipKnown
    <2>2. (tip[n] = tip[m] \/ Beats(tip[m], tip[n])) /\ (tip[m] = tip[n] \/ Beats(tip[n], tip[m]))
      BY <2>1 DEF TipBest
    <2> QED BY <2>1, <2>2, BeatsTransitive, BeatsIrreflexive
  <1> QED BY <1>1, <1>2 DEF Settled, Convergence

(* The nodes start in agreement.                                           *)
LEMMA InitBest == Init => TipKnown /\ TipBest
  BY TreeAssumption DEF Init, TipKnown, TipBest

LEMMA NextBest ==
  ASSUME Ranked, TipKnown, TipBest, [Next]_vars
  PROVE  TipKnown' /\ TipBest'
  <1>1. CASE UNCHANGED vars
    BY <1>1 DEF vars, TipKnown, TipBest
  <1>2. CASE Next
    BY <1>2, LearnEffect, LearnKeepsBest DEF Next
  <1> QED BY <1>1, <1>2

(* Where siblings differ in rank, nodes that accepted the same blocks      *)
(* follow the same tip whatever the order of arrival (fork choice of       *)
(* process_block), for every block tree and any number of nodes.           *)
THEOREM RankedConvergence ==
  ASSUME Ranked
  PROVE  Spec => []Convergence
  <1>1. Init => TipKnown /\ TipBest
    BY InitBest
  <1>2. TipKnown /\ TipBest /\ [Next]_vars => TipKnown' /\ TipBest'
    BY NextBest
  <1>3. TipKnown /\ TipBest => Convergence
    BY BestIsSettled
  <1> QED BY <1>1, <1>2, <1>3, PTL DEF Spec

(* There, no block a node knows would win against its tip if it came again:*)
(* comparing each block only with the tip of the moment loses nothing.     *)
THEOREM RankedSettled ==
  ASSUME Ranked
  PROVE  Spec => []Settled
  <1>1. Init => TipKnown /\ TipBest
    BY InitBest
  <1>2. TipKnown /\ TipBest /\ [Next]_vars => TipKnown' /\ TipBest'
    BY NextBest
  <1>3. TipKnown /\ TipBest => Settled
    BY BestIsSettled
  <1> QED BY <1>1, <1>2, <1>3, PTL DEF Spec

-----------------------------------------------------------------------------
(* No known block has more work than the tip.                              *)
TipHeaviest == \A n \in Node : \A b \in known[n] : TotalWork[b] <= TotalWork[tip[n]]

(* Under proof of work no known block would win against the tip, although  *)
(* nodes may sit on different tips of equal work.                          *)
THEOREM WorkSettles ==
  ASSUME \A b \in Block : ~ActiveAt(VrfHeight, Height(b))
  PROVE  Spec => []Settled
  <1>1. \A b, t \in Block : Better(b, t) <=> TotalWork[b] > TotalWork[t]
    BY DEF Better
  <1>2. TotalWork \in [Block -> Nat]
    BY WorkRec
  <1>3. Init => TipKnown /\ TipHeaviest
    <2> SUFFICES ASSUME Init PROVE TipKnown /\ TipHeaviest
      OBVIOUS
    <2>1. \A n \in Node : known[n] = {Genesis} /\ tip[n] = Genesis
      BY DEF Init
    <2>2. TotalWork[Genesis] <= TotalWork[Genesis]
      BY <1>2, TreeAssumption
    <2> QED BY <2>1, <2>2, InitBest DEF TipHeaviest
  <1>4. TipKnown /\ TipHeaviest /\ [Next]_vars => TipKnown' /\ TipHeaviest'
    <2> SUFFICES ASSUME TipKnown, TipHeaviest, [Next]_vars PROVE TipKnown' /\ TipHeaviest'
      OBVIOUS
    <2>1. CASE UNCHANGED vars
      BY <2>1 DEF vars, TipKnown, TipHeaviest
    <2>2. ASSUME NEW n \in Node, NEW b \in Block \ {Genesis}, Learn(n, b) PROVE TipKnown' /\ TipHeaviest'
      <3>1. /\ TipKnown' /\ Parent[b] \in known[n] /\ known'[n] = known[n] \cup {b}
            /\ tip'[n] = IF Parent[b] = tip[n] \/ Better(b, tip[n]) THEN b ELSE tip[n]
            /\ \A m \in Node \ {n} : known'[m] = known[m] /\ tip'[m] = tip[m]
        BY <2>2, LearnEffect
      <3>2. tip[n] \in Block /\ known[n] \subseteq Block /\ tip[n] \in known[n]
        BY DEF TipKnown
      <3>3. Parent[b] = tip[n] => TotalWork[tip[n]] <= TotalWork[b]
        <4>1. TotalWork[b] = TotalWork[Parent[b]] + Body[b].work /\ Body[b].work \in Nat
          BY WorkRec, WorkAssumption
        <4> QED BY <1>2, <3>2, <4>1
      <3>4. TotalWork[tip[n]] <= TotalWork[tip'[n]] /\ TotalWork[b] <= TotalWork[tip'[n]] /\ tip'[n] \in Block
        <4>1. CASE Parent[b] = tip[n] \/ TotalWork[b] > TotalWork[tip[n]]
          <5>1. tip'[n] = b
            BY <1>1, <3>1, <3>2, <4>1
          <5> QED BY <1>2, <3>2, <3>3, <4>1, <5>1
        <4>2. CASE Parent[b] # tip[n] /\ ~(TotalWork[b] > TotalWork[tip[n]])
          <5>1. tip'[n] = tip[n]
            BY <1>1, <3>1, <3>2, <4>2
          <5> QED BY <1>2, <3>2, <4>2, <5>1
        <4> QED BY <4>1, <4>2
      <3>5. \A c \in known[n] : TotalWork[c] <= TotalWork[tip'[n]]
        <4>1. \A c \in known[n] : TotalWork[c] <= TotalWork[tip[n]]
          BY DEF TipHeaviest
        <4> QED BY <1>2, <3>2, <3>4, <4>1
      <3>6. \A m \in Node \ {n} : \A c \in known'[m] : TotalWork[c] <= TotalWork[tip'[m]]
        BY <3>1 DEF TipHeaviest
      <3> QED BY <3>1, <3>4, <3>5, <3>6 DEF TipHeaviest
    <2> QED BY <2>1, <2>2 DEF Next
  <1>5. TipKnown /\ TipHeaviest => Settled
    <2> SUFFICES ASSUME TipKnown, TipHeaviest, NEW n \in Node, NEW b \in known[n] PROVE ~Better(b, tip[n])
      BY DEF Settled
    <2>1. b \in Block /\ tip[n] \in Block /\ TotalWork[b] <= TotalWork[tip[n]]
      BY DEF TipKnown, TipHeaviest
    <2>2. TotalWork[b] \in Nat /\ TotalWork[tip[n]] \in Nat
      BY <1>2, <2>1
    <2> QED BY <1>1, <2>1, <2>2
  <1> QED BY <1>3, <1>4, <1>5, PTL DEF Spec

-----------------------------------------------------------------------------
(***************************************************************************)
(* The same with reorganisations that fail and restarts that forget side   *)
(* blocks, and the reward windows.                                         *)
(***************************************************************************)
(* A block is ahead of its other ancestors.                                *)
LEMMA AncestorsBeaten ==
  ASSUME Ranked, NEW t \in Block, NEW b \in Range(Path[t])
  PROVE  b \in Block /\ (b = t \/ Beats(t, b))
  <1> DEFINE p == Path[t]
             q == Path[b]
  <1>1. /\ p \in Seq(Block) /\ DOMAIN p = 1..Len(p) /\ Len(p) \in Nat \ {0}
        /\ Linked(p) /\ p[Len(p)] = t
    BY PathTyped, PathLinked
  <1>2. PICK i \in 1..Len(p) : p[i] = b
    BY <1>1 DEF Range
  <1>3. b \in Block
    BY <1>1, <1>2
  <1>4. CASE i = Len(p)
    BY <1>1, <1>2, <1>3, <1>4
  <1>5. CASE i # Len(p)
    <2>1. q = SubSeq(p, 1, i)
      BY <1>1, <1>2, LinkedPrefixes
    <2>2. Len(q) = i /\ \A j \in 1..i : q[j] = p[j]
      BY <1>1, <2>1
    <2>3. DOMAIN q = 1..Len(q)
      BY <1>3, PathTyped
    <2> HIDE DEF p, q
    <2>4. i + 1 \in DOMAIN p /\ i + 1 \notin DOMAIN q /\ (i + 1) - 1 = i /\ i + 1 \in Nat
      <3>1. DOMAIN p = 1..Len(p) /\ Len(p) \in Nat /\ i \in 1..Len(p) /\ DOMAIN q = 1..i
        BY <1>1, <2>2, <2>3
      <3>2. i # Len(p)
        BY <1>5
      <3>3. ASSUME NEW l \in Nat, i \in 1..l, i # l
            PROVE  i + 1 \in 1..l /\ ~(i + 1 \in 1..i) /\ (i + 1) - 1 = i /\ i + 1 \in Nat
        BY <3>3
      <3>4. i + 1 \in 1..Len(p) /\ ~(i + 1 \in 1..i) /\ (i + 1) - 1 = i /\ i + 1 \in Nat
        BY Zenon, <3>1, <3>2, <3>3
      <3> QED BY <3>1, <3>4
    <2>5. Ahead(p, q, i + 1)
      BY <2>2, <2>3, <2>4 DEF Ahead
    <2>6. Beats(t, b)
      BY <2>4, <2>5 DEF Beats, p, q
    <2> QED BY <1>3, <2>6
  <1> QED BY <1>4, <1>5

LEMMA RestartKnown ==
  ASSUME TipKnown, NEW n \in Node, Restart(n)
  PROVE  TipKnown'
  <1>1. known' = [known EXCEPT ![n] = Range(Path[tip[n]])] /\ tip' = tip
    BY DEF Restart
  <1>2. tip[n] \in Block
    BY DEF TipKnown
  <1>3. DOMAIN Path[tip[n]] = 1..Len(Path[tip[n]]) /\ Len(Path[tip[n]]) \in Nat \ {0}
    BY <1>2, PathSeq
  <1>4. tip[n] \in Range(Path[tip[n]])
    <2>1. Path[tip[n]][Len(Path[tip[n]])] = tip[n]
      BY <1>2, PathLinked
    <2>2. Len(Path[tip[n]]) \in DOMAIN Path[tip[n]]
      BY <1>3
    <2> QED BY <2>1, <2>2 DEF Range
  <1>5. \A i \in 1..Len(Path[tip[n]]) : Path[tip[n]][i] \in Block
    BY <1>2, PathSeq
  <1>6. Range(Path[tip[n]]) \in SUBSET Block
    BY <1>3, <1>5 DEF Range
  <1> QED BY <1>1, <1>4, <1>6 DEF TipKnown

LEMMA RestartBest ==
  ASSUME Ranked, TipKnown, TipBest, NEW n \in Node, Restart(n)
  PROVE  TipKnown' /\ TipBest'
  <1>1. known' = [known EXCEPT ![n] = Range(Path[tip[n]])] /\ tip' = tip
    BY DEF Restart
  <1>2. tip[n] \in Block
    BY DEF TipKnown
  <1>3. \A b \in Range(Path[tip[n]]) : b \in Block /\ (b = tip[n] \/ Beats(tip[n], b))
    BY <1>2, AncestorsBeaten
  <1> DEFINE R == Range(Path[tip[n]])
  <1> HIDE DEF R
  <1>4. \A b \in R : b = tip[n] \/ Beats(tip[n], b)
    BY <1>3 DEF R
  <1>5. known'[n] = R /\ \A m \in Node \ {n} : known'[m] = known[m]
    BY <1>1 DEF TipKnown, R
  <1>6. TipBest'
    BY <1>1, <1>4, <1>5 DEF TipBest
  <1> QED BY <1>6, RestartKnown

LEMMA DominanceNextBest ==
  ASSUME Ranked, TipKnown, TipBest, [DominanceNext]_dvars
  PROVE  TipKnown' /\ TipBest'
  <1>1. CASE UNCHANGED <<known, tip>>
    BY <1>1 DEF TipKnown, TipBest
  <1>2. ASSUME NEW n \in Node, NEW b \in Block \ {Genesis}, Accept(n, b) PROVE TipKnown' /\ TipBest'
    BY <1>2, LearnEffect, LearnKeepsBest DEF Accept
  <1>3. ASSUME NEW n \in Node, Restart(n) PROVE TipKnown' /\ TipBest'
    BY <1>3, RestartBest
  <1>4. CASE UNCHANGED dvars
    BY <1>1, <1>4 DEF dvars
  <1>5. ASSUME NEW n \in Node,
               TurnBack(n) \/ disconnect_tip_block(n)
                 \/ \E b \in Block \ {Genesis} : StartFailing(n, b) \/ connect_block(n, b)
        PROVE  UNCHANGED <<known, tip>>
    BY <1>5 DEF TurnBack, disconnect_tip_block, StartFailing, connect_block
  <1> QED BY <1>1, <1>2, <1>3, <1>4, <1>5 DEF DominanceNext

(* Nodes that fail reorganisations, restart from their main chain and      *)
(* forget side blocks still agree when they know the same blocks, and sit  *)
(* on the best block they know.                                            *)
THEOREM RestartsConverge ==
  ASSUME Ranked
  PROVE  DominanceSpec => [](Convergence /\ Settled)
  <1>1. DominanceInit => TipKnown /\ TipBest
    BY InitBest DEF DominanceInit
  <1>2. TipKnown /\ TipBest /\ [DominanceNext]_dvars => TipKnown' /\ TipBest'
    BY DominanceNextBest
  <1>3. TipKnown /\ TipBest => Convergence /\ Settled
    BY BestIsSettled
  <1> QED BY <1>1, <1>2, <1>3, PTL DEF DominanceSpec

-----------------------------------------------------------------------------
(* A greater height is in the same or a later window.                      *)
LEMMA WindowOrder ==
  ASSUME NEW g \in Nat, NEW h \in Nat, g <= h
  PROVE  window_id(g) \in Nat /\ window_id(g) <= window_id(h)
  <1> DEFINE p == g \div WindowLen
             q == h \div WindowLen
  <1>1. WindowLen \in Nat /\ WindowLen >= 1
    BY WindowAssumption
  <1>2. /\ p \in Int /\ WindowLen * p <= g /\ g < WindowLen * (p + 1)
        /\ q \in Int /\ WindowLen * q <= h /\ h < WindowLen * (q + 1)
    BY <1>1
  <1> HIDE DEF p, q
  <1>3. p >= 0
    <2> SUFFICES ASSUME p + 1 <= 0 PROVE FALSE
      BY <1>2
    <2>1. WindowLen * (p + 1) <= 0
      BY <1>1, <1>2
    <2> QED BY <1>1, <1>2, <2>1
  <1>4. ASSUME q + 1 <= p PROVE FALSE
    <2>1. WindowLen * (q + 1) <= WindowLen * p
      BY <1>1, <1>2, <1>4
    <2> QED BY <1>1, <1>2, <2>1
  <1>5. p \in Nat /\ p <= q
    BY <1>2, <1>3, <1>4
  <1> QED BY <1>5 DEF p, q, window_id

Keys == Miner \X Windows

Buckets == [Keys -> Nat]

(* What a block adds to a bucket.                                          *)
Gain(b, k) == IF Credits(b) THEN Credit(b, k) ELSE 0

(* All that the chain of a block has credited, nothing forgotten.          *)
Adds == [x \in Buckets \X Block |-> [k \in Keys |-> x[1][k] + Gain(x[2], k)]]

Earned == Rec(NoBuckets, Adds)

LEMMA GainNat ==
  ASSUME NEW b \in Block, NEW k \in Keys
  PROVE  Gain(b, k) \in Nat
  BY RewardAssumption DEF Gain, Credit, Keys

LEMMA EarnedRec ==
  /\ Earned \in [Block -> Buckets]
  /\ Earned[Genesis] = NoBuckets
  /\ \A b \in Block \ {Genesis} : \A k \in Keys : Earned[b][k] = Earned[Parent[b]][k] + Gain(b, k)
  <1>1. NoBuckets \in Buckets
    BY DEF NoBuckets, Buckets, Keys
  <1>2. ASSUME NEW d \in Buckets, NEW b \in Block
        PROVE  [k \in Keys |-> d[k] + Gain(b, k)] \in Buckets
    BY GainNat DEF Buckets
  <1>3. \A d \in Buckets, b \in Block : Adds[<<d, b>>] = [k \in Keys |-> d[k] + Gain(b, k)]
    BY DEF Adds
  <1>4. Adds \in [Buckets \X Block -> Buckets]
    BY <1>2 DEF Adds
  <1>5. Rec(NoBuckets, Adds) \in [Block -> Buckets]
    BY <1>1, <1>4, TreeRecursionTyped
  <1>6. /\ Rec(NoBuckets, Adds)[Genesis] = NoBuckets
        /\ \A b \in Block \ {Genesis} : Rec(NoBuckets, Adds)[b] = Adds[<<Rec(NoBuckets, Adds)[Parent[b]], b>>]
    BY TreeRecursion
  <1>7. Earned \in [Block -> Buckets] /\ Earned[Genesis] = NoBuckets
        /\ \A b \in Block \ {Genesis} : Earned[b] = Adds[<<Earned[Parent[b]], b>>]
    BY <1>5, <1>6 DEF Earned
  <1> HIDE DEF Earned
  <1>8. ASSUME NEW b \in Block \ {Genesis}, NEW k \in Keys PROVE Earned[b][k] = Earned[Parent[b]][k] + Gain(b, k)
    <2>1. Earned[Parent[b]] \in Buckets
      BY <1>7, TreeAssumption
    <2>2. Earned[b] = [x \in Keys |-> Earned[Parent[b]][x] + Gain(b, x)]
      BY Zenon, <1>3, <1>7, <2>1
    <2> QED BY <2>2
  <1> QED BY <1>7, <1>8

(* The oldest window a node keeps that has credited a block at height h.   *)
Floor(h) == SaturatingSub(window_id(h), Lookback - 1 + PruneMargin)

LEMMA FloorOrder ==
  ASSUME NEW g \in Nat, NEW h \in Nat, g <= h
  PROVE  Floor(g) \in Nat /\ Floor(g) <= Floor(h)
  <1>1. window_id(g) \in Nat /\ window_id(g) <= window_id(h) /\ window_id(h) \in Nat
    BY WindowOrder
  <1>2. Lookback - 1 + PruneMargin \in Nat
    BY WindowAssumption
  <1> QED BY <1>1, <1>2 DEF Floor, SaturatingSub

(* The buckets d of a node on block t that credited heights up to p: from  *)
(* the floor on they hold all that t's chain has credited.                 *)
Exact(d, t, p) == d \in Buckets /\ \A k \in Keys : k[2] >= Floor(p) => d[k] = Earned[t][k]

(* Connecting a block to t keeps the buckets exact.                        *)
LEMMA ApplyExact ==
  ASSUME NEW d, NEW b \in Block \ {Genesis}, NEW p \in Nat, NEW q \in Nat,
         Exact(d, Parent[b], p), p <= q, Height(b) <= q
  PROVE  Exact(apply_block_dominance(d, b), b, q)
  <1>1. d \in Buckets /\ \A k \in Keys : d[k] \in Nat
    BY DEF Exact, Buckets
  <1>2. DOMAIN d = Keys
    BY <1>1 DEF Buckets
  <1>3. Height(b) \in Nat
    BY HeightRec
  <1>4. Floor(p) <= Floor(q) /\ Floor(Height(b)) <= Floor(q) /\ Floor(p) \in Nat /\ Floor(q) \in Nat
        /\ Floor(Height(b)) \in Nat
    BY <1>3, FloorOrder
  <1>5. \A k \in Keys : k[2] \in Nat
    <2>1. \A x \in Block : window_id(Height(x)) \in Nat
      BY HeightRec, WindowOrder
    <2> QED BY <2>1 DEF Keys, Windows
  <1>6. \A k \in Keys : k[2] >= Floor(q) => d[k] = Earned[Parent[b]][k]
    BY <1>4, <1>5 DEF Exact
  <1>7. \A k \in Keys : Earned[b][k] = Earned[Parent[b]][k] + Gain(b, k)
    BY EarnedRec
  <1>8. CASE Credits(b)
    <2> DEFINE e == [k \in Keys |-> IF k[2] < Floor(Height(b)) THEN 0 ELSE d[k] + Gain(b, k)]
    <2>1. apply_block_dominance(d, b) = e
      BY <1>2, <1>8 DEF apply_block_dominance, prune, Floor, Gain
    <2>2. \A k \in Keys : Gain(b, k) \in Nat
      BY GainNat
    <2>3. e \in Buckets
      BY <1>1, <2>2 DEF Buckets
    <2>4. ASSUME NEW k \in Keys, k[2] >= Floor(q) PROVE e[k] = Earned[b][k]
      <3>1. ~(k[2] < Floor(Height(b)))
        BY <1>4, <1>5, <2>4
      <3>2. e[k] = d[k] + Gain(b, k)
        BY <3>1
      <3> QED BY <1>6, <1>7, <2>4, <3>2
    <2> HIDE DEF e
    <2> QED BY <2>1, <2>3, <2>4 DEF Exact
  <1>9. CASE ~Credits(b)
    <2>1. apply_block_dominance(d, b) = d
      BY <1>9 DEF apply_block_dominance
    <2>2. \A k \in Keys : Gain(b, k) = 0
      BY <1>9 DEF Gain
    <2>3. Earned[Parent[b]] \in Buckets
      BY EarnedRec, TreeAssumption
    <2>4. \A k \in Keys : Earned[b][k] = Earned[Parent[b]][k]
      BY <1>7, <2>2, <2>3 DEF Buckets
    <2> QED BY <1>1, <1>6, <2>1, <2>4 DEF Exact
  <1> QED BY <1>8, <1>9

(* Disconnecting it takes back what it credited.                           *)
LEMMA RevertExact ==
  ASSUME NEW d, NEW b \in Block \ {Genesis}, NEW p \in Nat, Exact(d, b, p)
  PROVE  Exact(revert_block_dominance(d, b), Parent[b], p)
  <1>1. d \in Buckets /\ DOMAIN d = Keys /\ \A k \in Keys : d[k] \in Nat
    BY DEF Exact, Buckets
  <1>2. \A k \in Keys : Gain(b, k) \in Nat /\ Earned[b][k] = Earned[Parent[b]][k] + Gain(b, k)
    BY EarnedRec, GainNat
  <1>3. \A k \in Keys : Earned[Parent[b]][k] \in Nat
    <2>1. Earned[Parent[b]] \in Buckets
      BY EarnedRec, TreeAssumption
    <2> QED BY <2>1 DEF Buckets
  <1>4. \A k \in Keys : k[2] >= Floor(p) => d[k] = Earned[b][k]
    BY DEF Exact
  <1> DEFINE e == [k \in Keys |-> SaturatingSub(d[k], Gain(b, k))]
  <1>5. e \in Buckets
    <2>1. \A k \in Keys : SaturatingSub(d[k], Gain(b, k)) \in Nat
      BY <1>1, <1>2 DEF SaturatingSub
    <2> QED BY <2>1 DEF Buckets
  <1>6. \A k \in Keys : k[2] >= Floor(p) => e[k] = Earned[Parent[b]][k]
    BY <1>2, <1>3, <1>4 DEF SaturatingSub
  <1>7. revert_block_dominance(d, b) = e
    <2>1. CASE Credits(b)
      BY <1>1, <2>1 DEF revert_block_dominance, Gain
    <2>2. CASE ~Credits(b)
      <3>1. \A k \in Keys : SaturatingSub(d[k], Gain(b, k)) = d[k]
        BY <1>1, <2>2 DEF Gain, SaturatingSub
      <3>2. e = [k \in Keys |-> d[k]]
        BY <3>1
      <3>3. d = [k \in Keys |-> d[k]]
        BY <1>1 DEF Buckets
      <3> QED BY <2>2, <3>2, <3>3 DEF revert_block_dominance
    <2> QED BY <2>1, <2>2
  <1> HIDE DEF e
  <1> QED BY <1>5, <1>6, <1>7 DEF Exact

LEMMA ReplayedRec ==
  /\ Replayed[Genesis] = NoBuckets
  /\ \A b \in Block \ {Genesis} : Replayed[b] = apply_block_dominance(Replayed[Parent[b]], b)
  <1> DEFINE g == [x \in Buckets \X Block |-> apply_block_dominance(x[1], x[2])]
             f == Rec(NoBuckets, g)
             Eq(p) == p = [b \in Block |-> IF b = Genesis THEN NoBuckets
                                           ELSE apply_block_dominance(p[Parent[b]], b)]
  <1>1. NoBuckets \in Buckets
    BY DEF NoBuckets, Buckets, Keys
  <1>2. ASSUME NEW d \in Buckets, NEW b \in Block PROVE apply_block_dominance(d, b) \in Buckets
    <2>1. DOMAIN d = Keys /\ \A k \in Keys : d[k] \in Nat
      BY DEF Buckets
    <2>2. CASE Credits(b)
      <3>1. apply_block_dominance(d, b)
              = [k \in Keys |-> IF k[2] < Floor(Height(b)) THEN 0 ELSE d[k] + Gain(b, k)]
        BY <2>1, <2>2 DEF apply_block_dominance, prune, Floor, Gain
      <3>2. \A k \in Keys : Gain(b, k) \in Nat
        BY GainNat
      <3> QED BY <2>1, <3>1, <3>2 DEF Buckets
    <2>3. CASE ~Credits(b)
      BY <2>3 DEF apply_block_dominance
    <2> QED BY <2>2, <2>3
  <1>3. g \in [Buckets \X Block -> Buckets]
    BY <1>2
  <1>4. \A d \in Buckets, b \in Block : g[<<d, b>>] = apply_block_dominance(d, b)
    OBVIOUS
  <1> HIDE DEF g
  <1>5. /\ f = [b \in Block |-> f[b]]
        /\ f[Genesis] = NoBuckets
        /\ \A b \in Block \ {Genesis} : f[b] = g[<<f[Parent[b]], b>>]
    BY TreeRecursion
  <1>6. f \in [Block -> Buckets]
    BY <1>1, <1>3, TreeRecursionTyped
  <1> HIDE DEF f
  <1>7. ASSUME NEW b \in Block \ {Genesis} PROVE f[b] = apply_block_dominance(f[Parent[b]], b)
    <2>1. f[Parent[b]] \in Buckets
      BY <1>6, TreeAssumption
    <2> QED BY Zenon, <1>4, <1>5, <2>1
  <1>8. Eq(f)
    BY <1>5, <1>7
  <1>9. Replayed = CHOOSE p : Eq(p)
    BY DEF Replayed
  <1> HIDE DEF Eq
  <1>10. Eq(Replayed)
    BY <1>8, <1>9
  <1>11. Replayed = [b \in Block |-> IF b = Genesis THEN NoBuckets
                                     ELSE apply_block_dominance(Replayed[Parent[b]], b)]
    BY <1>10 DEF Eq
  <1> HIDE DEF Replayed
  <1> QED BY <1>11, TreeAssumption

LEMMA EmptyExact ==
  ASSUME NEW p \in Nat
  PROVE  Exact(NoBuckets, Genesis, p)
  <1>1. NoBuckets \in Buckets
    BY DEF NoBuckets, Buckets, Keys
  <1> QED BY <1>1, EarnedRec DEF Exact

(* A replay of the chain of t is exact.                                    *)
LEMMA ReplayExact ==
  ASSUME NEW t \in Block
  PROVE  Exact(Replayed[t], t, Height(t))
  <1> DEFINE S == {b \in Block : Exact(Replayed[b], b, Height(b))}
  <1>1. Genesis \in S
    BY EmptyExact, ReplayedRec, HeightRec, TreeAssumption
  <1>2. ASSUME NEW b \in Block \ {Genesis}, Parent[b] \in S PROVE b \in S
    <2>1. Parent[b] \in Block /\ Exact(Replayed[Parent[b]], Parent[b], Height(Parent[b]))
      BY <1>2
    <2>2. Height(b) \in Nat /\ Height(Parent[b]) \in Nat /\ Height(b) = Height(Parent[b]) + 1
      BY <2>1, HeightRec
    <2>3. Height(Parent[b]) <= Height(b) /\ Height(b) <= Height(b)
      BY <2>2
    <2>4. Exact(apply_block_dominance(Replayed[Parent[b]], b), b, Height(b))
      BY <2>1, <2>2, <2>3, ApplyExact
    <2> QED BY <2>4, ReplayedRec
  <1>3. Block \subseteq S
    BY Zenon, <1>1, <1>2, TreeInduction
  <1> QED BY <1>3

(* The inductive invariant: every node's buckets are exact for the block   *)
(* its chain ends with and the greatest height it has credited.            *)
BucketsExact ==
  /\ at \in [Node -> Block] /\ goal \in [Node -> Block] /\ peak \in [Node -> Nat]
  /\ DOMAIN buckets = Node
  /\ \A n \in Node : Exact(buckets[n], at[n], peak[n])

LEMMA GenesisOnPath ==
  ASSUME NEW t \in Block
  PROVE  OnPath(Genesis, t)
  <1>1. DOMAIN Path[t] = 1..Len(Path[t]) /\ Len(Path[t]) \in Nat \ {0}
    BY PathSeq
  <1>2. Path[t][1] = Genesis
    BY PathLinked DEF Linked
  <1>3. 1 \in DOMAIN Path[t]
    BY <1>1
  <1> QED BY <1>2, <1>3 DEF OnPath, Range

LEMMA DisconnectExact ==
  ASSUME BucketsExact, NEW n \in Node, disconnect_tip_block(n)
  PROVE  BucketsExact'
  <1>1. /\ at' = [at EXCEPT ![n] = Parent[at[n]]]
        /\ buckets' = [buckets EXCEPT ![n] = revert_block_dominance(buckets[n], at[n])]
        /\ goal' = goal /\ peak' = peak
    BY DEF disconnect_tip_block
  <1>2. at[n] \in Block /\ goal[n] \in Block /\ peak[n] \in Nat /\ Exact(buckets[n], at[n], peak[n])
    BY DEF BucketsExact
  <1>3. at[n] # Genesis
    BY <1>2, GenesisOnPath DEF disconnect_tip_block
  <1>4. Parent[at[n]] \in Block
    BY <1>2, <1>3, TreeAssumption
  <1>5. Exact(revert_block_dominance(buckets[n], at[n]), Parent[at[n]], peak[n])
    BY <1>2, <1>3, RevertExact
  <1>6. at' \in [Node -> Block] /\ goal' \in [Node -> Block] /\ peak' \in [Node -> Nat] /\ DOMAIN buckets' = Node
    BY <1>1, <1>4 DEF BucketsExact
  <1>7. ASSUME NEW m \in Node PROVE Exact(buckets'[m], at'[m], peak'[m])
    <2>1. CASE m = n
      BY <1>1, <1>5, <2>1 DEF BucketsExact
    <2>2. CASE m # n
      BY <1>1, <2>2 DEF BucketsExact
    <2> QED BY <2>1, <2>2
  <1>8. \A m \in Node : Exact(buckets[m], at[m], peak[m])'
    BY <1>7 DEF Exact
  <1> QED BY <1>6, <1>8 DEF BucketsExact

LEMMA ConnectExact ==
  ASSUME BucketsExact, NEW n \in Node, NEW b \in Block \ {Genesis}, connect_block(n, b)
  PROVE  BucketsExact'
  <1> DEFINE q == IF peak[n] < Height(b) THEN Height(b) ELSE peak[n]
  <1>1. /\ at' = [at EXCEPT ![n] = b] /\ Parent[b] = at[n]
        /\ buckets' = [buckets EXCEPT ![n] = apply_block_dominance(buckets[n], b)]
        /\ goal' = goal /\ peak' = [peak EXCEPT ![n] = q]
    BY DEF connect_block
  <1>2. peak[n] \in Nat /\ Exact(buckets[n], Parent[b], peak[n])
    BY <1>1 DEF BucketsExact
  <1>3. Height(b) \in Nat
    BY HeightRec
  <1>4. q \in Nat /\ peak[n] <= q /\ Height(b) <= q
    BY <1>2, <1>3
  <1> HIDE DEF q
  <1>5. Exact(apply_block_dominance(buckets[n], b), b, q)
    BY <1>2, <1>4, ApplyExact
  <1>6. at' \in [Node -> Block] /\ goal' \in [Node -> Block] /\ peak' \in [Node -> Nat] /\ DOMAIN buckets' = Node
    BY <1>1, <1>4 DEF BucketsExact
  <1>7. ASSUME NEW m \in Node PROVE Exact(buckets'[m], at'[m], peak'[m])
    <2>1. CASE m = n
      BY <1>1, <1>5, <2>1 DEF BucketsExact
    <2>2. CASE m # n
      BY <1>1, <2>2 DEF BucketsExact
    <2> QED BY <2>1, <2>2
  <1>8. \A m \in Node : Exact(buckets[m], at[m], peak[m])'
    BY <1>7 DEF Exact
  <1> QED BY <1>6, <1>8 DEF BucketsExact

LEMMA RestartExact ==
  ASSUME BucketsExact, NEW n \in Node, Restart(n)
  PROVE  BucketsExact'
  <1>1. /\ at' = at /\ goal' = goal /\ at[n] = tip[n]
        /\ buckets' = [buckets EXCEPT ![n] = Replayed[at[n]]]
        /\ peak' = [peak EXCEPT ![n] = Height(at[n])]
    BY DEF Restart, Idle
  <1>2. at[n] \in Block
    BY DEF BucketsExact
  <1>3. Height(at[n]) \in Nat /\ Exact(Replayed[at[n]], at[n], Height(at[n]))
    BY <1>2, HeightRec, ReplayExact
  <1>6. at' \in [Node -> Block] /\ goal' \in [Node -> Block] /\ peak' \in [Node -> Nat] /\ DOMAIN buckets' = Node
    BY <1>1, <1>3 DEF BucketsExact
  <1>7. ASSUME NEW m \in Node PROVE Exact(buckets'[m], at'[m], peak'[m])
    <2>1. CASE m = n
      BY <1>1, <1>3, <2>1 DEF BucketsExact
    <2>2. CASE m # n
      BY <1>1, <2>2 DEF BucketsExact
    <2> QED BY <2>1, <2>2
  <1>8. \A m \in Node : Exact(buckets[m], at[m], peak[m])'
    BY <1>7 DEF Exact
  <1> QED BY <1>6, <1>8 DEF BucketsExact

LEMMA NextExact ==
  ASSUME TipKnown, BucketsExact, [DominanceNext]_dvars
  PROVE  BucketsExact'
  <1>1. ASSUME UNCHANGED <<at, buckets, peak>>, goal' \in [Node -> Block] PROVE BucketsExact'
    <2>1. \A m \in Node : Exact(buckets[m], at[m], peak[m])'
      BY <1>1 DEF BucketsExact, Exact
    <2> QED BY <1>1, <2>1 DEF BucketsExact
  <1>2. CASE UNCHANGED dvars
    BY <1>1, <1>2 DEF dvars, BucketsExact
  <1>3. ASSUME NEW n \in Node, NEW b \in Block \ {Genesis}, Accept(n, b) PROVE BucketsExact'
    <2>1. TipKnown'
      BY <1>3, LearnEffect DEF Accept
    <2>2. tip'[n] \in Block
      BY <2>1 DEF TipKnown
    <2> QED BY <1>1, <1>3, <2>2 DEF Accept, BucketsExact
  <1>4. ASSUME NEW n \in Node, NEW b \in Block \ {Genesis}, StartFailing(n, b) PROVE BucketsExact'
    <2>1. PICK x \in Invalid : goal' = [goal EXCEPT ![n] = Parent[x]]
      BY Zenon, <1>4 DEF StartFailing
    <2>2. Parent[x] \in Block
      BY TreeAssumption, InvalidAssumption
    <2> QED BY <1>1, <1>4, <2>1, <2>2 DEF StartFailing, BucketsExact
  <1>5. ASSUME NEW n \in Node, TurnBack(n) PROVE BucketsExact'
    BY <1>1, <1>5 DEF TurnBack, BucketsExact, TipKnown
  <1> QED BY <1>2, <1>3, <1>4, <1>5, DisconnectExact, ConnectExact, RestartExact DEF DominanceNext

LEMMA NextTipKnown ==
  ASSUME TipKnown, [DominanceNext]_dvars
  PROVE  TipKnown'
  <1>1. CASE UNCHANGED <<known, tip>>
    BY <1>1 DEF TipKnown
  <1>2. ASSUME NEW n \in Node, NEW b \in Block \ {Genesis}, Accept(n, b) PROVE TipKnown'
    BY <1>2, LearnEffect DEF Accept
  <1>3. ASSUME NEW n \in Node, Restart(n) PROVE TipKnown'
    BY <1>3, RestartKnown
  <1>4. CASE UNCHANGED dvars
    BY <1>1, <1>4 DEF dvars
  <1>5. ASSUME NEW n \in Node,
               TurnBack(n) \/ disconnect_tip_block(n)
                 \/ \E b \in Block \ {Genesis} : StartFailing(n, b) \/ connect_block(n, b)
        PROVE  UNCHANGED <<known, tip>>
    BY <1>5 DEF TurnBack, disconnect_tip_block, StartFailing, connect_block
  <1> QED BY <1>1, <1>2, <1>3, <1>4, <1>5 DEF DominanceNext

LEMMA ExactWeights ==
  ASSUME BucketsExact
  PROVE  WeightsAreReplay
  <1> SUFFICES ASSUME NEW n \in Node, NEW m \in Miner,
                      window_id(peak[n]) - window_id(Height(at[n]) + 1) <= PruneMargin
               PROVE  recent_total(buckets[n], m, Height(at[n]) + 1)
                        = recent_total(Replayed[at[n]], m, Height(at[n]) + 1)
    BY DEF WeightsAreReplay
  <1> DEFINE t == at[n]
             h == Height(t) + 1
             R == recent_range(h) \cap Windows
  <1>1. t \in Block /\ peak[n] \in Nat /\ Exact(buckets[n], t, peak[n])
    BY DEF BucketsExact
  <1>2. Height(t) \in Nat /\ h \in Nat /\ Height(t) <= h
    BY <1>1, HeightRec
  <1>3. Exact(Replayed[t], t, Height(t))
    BY <1>1, ReplayExact
  <1>4. window_id(h) \in Nat /\ window_id(Height(t)) \in Nat /\ window_id(peak[n]) \in Nat
        /\ window_id(Height(t)) <= window_id(h)
    BY <1>1, <1>2, WindowOrder
  <1>5. window_id(peak[n]) - window_id(h) <= PruneMargin
    OBVIOUS
  <1> HIDE DEF t, h
  <1>6. ASSUME NEW w \in R PROVE w \in Windows /\ w \in Nat /\ w >= Floor(peak[n]) /\ w >= Floor(Height(t))
    <2>1. w \in Windows /\ w \in SaturatingSub(window_id(h), Lookback - 1)..window_id(h)
      BY DEF recent_range
    <2>2. SaturatingSub(window_id(h), Lookback - 1) \in Nat
      BY <1>4, WindowAssumption DEF SaturatingSub
    <2>3. w \in Nat /\ w >= SaturatingSub(window_id(h), Lookback - 1)
      BY <1>4, <2>1, <2>2
    <2>4. Floor(peak[n]) <= SaturatingSub(window_id(h), Lookback - 1) /\ Floor(peak[n]) \in Nat
      BY <1>4, <1>5, WindowAssumption DEF SaturatingSub, Floor
    <2>5. Floor(Height(t)) <= SaturatingSub(window_id(h), Lookback - 1) /\ Floor(Height(t)) \in Nat
      BY <1>4, WindowAssumption DEF SaturatingSub, Floor
    <2> QED BY <2>1, <2>2, <2>3, <2>4, <2>5
  <1>7. ASSUME NEW w \in R PROVE buckets[n][<<m, w>>] = Replayed[t][<<m, w>>]
    <2>1. <<m, w>> \in Keys /\ <<m, w>>[2] = w
      BY <1>6 DEF Keys
    <2>2. buckets[n][<<m, w>>] = Earned[t][<<m, w>>]
      BY <1>1, <1>6, <2>1 DEF Exact
    <2>3. Replayed[t][<<m, w>>] = Earned[t][<<m, w>>]
      BY <1>3, <1>6, <2>1 DEF Exact
    <2> QED BY <2>2, <2>3
  <1>8. [w \in R |-> buckets[n][<<m, w>>]] = [w \in R |-> Replayed[t][<<m, w>>]]
    BY <1>7
  <1>9. recent_total(buckets[n], m, h) = recent_total(Replayed[t], m, h)
    BY Zenon, <1>8 DEF recent_total
  <1> QED BY <1>9 DEF t, h

(* A node's recent reward totals for the next block are those of a replay  *)
(* of its chain (apply_block_dominance, revert_block_dominance and the     *)
(* margin kept by prune), inside and after every reorganisation and for    *)
(* every tree, window length, lookback and margin.                         *)
THEOREM WeightsAgree == DominanceSpec => []WeightsAreReplay
  <1>1. DominanceInit => TipKnown /\ BucketsExact
    <2> SUFFICES ASSUME DominanceInit PROVE TipKnown /\ BucketsExact
      OBVIOUS
    <2>1. Genesis \in Block
      BY TreeAssumption
    <2>2. TipKnown
      BY <2>1 DEF DominanceInit, Init, TipKnown
    <2>3. 0 \in Nat /\ Exact(NoBuckets, Genesis, 0)
      BY EmptyExact
    <2>4. BucketsExact
      BY <2>1, <2>3 DEF DominanceInit, BucketsExact
    <2> QED BY <2>2, <2>4
  <1>2. TipKnown /\ BucketsExact /\ [DominanceNext]_dvars => TipKnown' /\ BucketsExact'
    BY NextTipKnown, NextExact
  <1>3. BucketsExact => WeightsAreReplay
    BY ExactWeights
  <1> QED BY <1>1, <1>2, <1>3, PTL DEF DominanceSpec
=============================================================================
