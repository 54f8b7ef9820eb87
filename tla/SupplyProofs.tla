---------------------------- MODULE SupplyProofs ----------------------------
(***************************************************************************)
(* No coins from nowhere: what the UTXO set holds never exceeds what the   *)
(* node counts as issued, and that never exceeds MAX_MONEY.  Sums over     *)
(* finite sets come first, then what one block does to the amounts, then   *)
(* the induction along the main chain.                                     *)
(***************************************************************************)
EXTENDS ChainStateProofs, BlocksProofs, FiniteSetTheorems, Functions

(***************************************************************************)
(* Sums over finite sets.                                                  *)
(***************************************************************************)
(* A set of subsets of a finite set that contains a subset whenever it     *)
(* contains the subset without any one of its elements contains them all.  *)
LEMMA FiniteInduct ==
  ASSUME NEW S, IsFiniteSet(S), NEW Q,
         \A T \in SUBSET S : (\A x \in T : T \ {x} \in Q) => T \in Q
  PROVE  SUBSET S \subseteq Q
  <1> DEFINE R == StrictSubsetOrdering(S)
             W == (SUBSET S) \ Q
  <1> SUFFICES ASSUME W # {} PROVE FALSE
    OBVIOUS
  <1>1. IsWellFoundedOn(R, FiniteSubsetsOf(S))
    BY FS_StrictSubsetOrderingWellFounded
  <1>2. FiniteSubsetsOf(S) = SUBSET S
    BY FS_FiniteSubsetsOfFinite
  <1>3. IsWellFoundedOn(R, SUBSET S)
    BY <1>1, <1>2
  <1>4. W \subseteq SUBSET S
    OBVIOUS
  <1>5. \A T, U \in SUBSET S : U \subseteq T /\ U # T => <<U, T>> \in R
    BY DEF StrictSubsetOrdering
  <1> HIDE DEF R
  <1>6. PICK T \in W : \A U \in W : ~(<<U, T>> \in R)
    BY Zenon, <1>3, <1>4, WFMin
  <1>7. ASSUME NEW x \in T PROVE T \ {x} \in Q
    <2>1. T \ {x} \in SUBSET S /\ T \ {x} \subseteq T /\ T \ {x} # T
      BY <1>6
    <2>2. <<T \ {x}, T>> \in R
      BY <1>5, <1>6, <2>1
    <2> QED BY Zenon, <1>6, <2>1, <2>2
  <1> QED BY <1>6, <1>7

Pick(s) == CHOOSE x \in s : TRUE

(* The recursion that defines the sum of f over the subsets of S.          *)
SumEq(p, f, S) == p = [s \in SUBSET S |-> IF s = {} THEN 0 ELSE f[Pick(s)] + p[s \ {Pick(s)}]]

Sums(f, S) == CHOOSE p : SumEq(p, f, S)

(* The library's sum is the solution the recursion chooses.                *)
LEMMA SumChoice ==
  ASSUME NEW f, NEW S
  PROVE  SumFunctionOnSet(f, S) = Sums(f, S)[S]
  BY DEF SumFunctionOnSet, FoldFunctionOnSet, MapThenFoldSet, SumEq, Pick, Sums

NatOn(f, S) == \A x \in S : f[x] \in Nat

(* It has a solution.                                                      *)
LEMMA SumsRec ==
  ASSUME NEW S, IsFiniteSet(S), NEW f, NatOn(f, S)
  PROVE  /\ Sums(f, S)[{}] = 0
         /\ \A s \in SUBSET S : s # {} => Sums(f, S)[s] = f[Pick(s)] + Sums(f, S)[s \ {Pick(s)}]
  <1> DEFINE up == [s \in (SUBSET S) \ {{}} |-> s \ {Pick(s)}]
             t == [nodes |-> SUBSET S, root |-> {}, up |-> up]
             g == [x \in Nat \X SUBSET S |-> f[Pick(x[2])] + x[1]]
             r == RecOn(t, 0, g)
  <1>1. \A s \in SUBSET S : s # {} => Pick(s) \in s /\ s \ {Pick(s)} \in SUBSET S
    BY DEF Pick
  <1>2. t.nodes = SUBSET S /\ t.root = {} /\ t.up = up
    OBVIOUS
  <1>3. up \in [(SUBSET S) \ {{}} -> SUBSET S] /\ \A s \in (SUBSET S) \ {{}} : up[s] = s \ {Pick(s)}
    BY <1>1
  <1> HIDE DEF t, up
  <1>4. ASSUME NEW W \in SUBSET ((SUBSET S) \ {{}}), W # {} PROVE \E s \in W : up[s] \notin W
    <2> SUFFICES ASSUME \A s \in W : up[s] \in W PROVE FALSE
      OBVIOUS
    <2> DEFINE Q == (SUBSET S) \ W
    <2>1. ASSUME NEW T \in SUBSET S, \A x \in T : T \ {x} \in Q PROVE T \in Q
      <3> SUFFICES ASSUME T \in W PROVE FALSE
        OBVIOUS
      <3>1. T # {} /\ up[T] = T \ {Pick(T)} /\ up[T] \in W
        BY <1>3
      <3>2. Pick(T) \in T
        BY <1>1, <3>1
      <3>3. T \ {Pick(T)} \in Q
        BY <2>1, <3>2
      <3> QED BY <3>1, <3>3
    <2>2. \A T \in SUBSET S : (\A x \in T : T \ {x} \in Q) => T \in Q
      BY <2>1
    <2> HIDE DEF Q
    <2>3. SUBSET S \subseteq Q
      BY Zenon, <2>2, FiniteInduct
    <2> QED BY <1>4, <2>3 DEF Q
  <1>5. IsTree(t)
    BY Zenon, <1>2, <1>3, <1>4 DEF IsTree
  <1>6. ASSUME NEW n \in Nat, NEW s \in SUBSET S, s # {} PROVE g[<<n, s>>] = f[Pick(s)] + n /\ f[Pick(s)] + n \in Nat
    <2>1. g[<<n, s>>] = f[Pick(s)] + n
      OBVIOUS
    <2>2. f[Pick(s)] \in Nat
      BY <1>1, <1>6 DEF NatOn
    <2> QED BY <2>1, <2>2
  <1> HIDE DEF g
  <1>7. /\ r = [b \in t.nodes |-> r[b]]
        /\ r[t.root] = 0
        /\ \A b \in t.nodes \ {t.root} : r[b] = g[<<r[t.up[b]], b>>]
    BY <1>5, Recursion
  <1> HIDE DEF r
  <1> DEFINE V == {s \in SUBSET S : r[s] \in Nat}
  <1>8. t.nodes \subseteq V
    <2>1. t.root \in V
      BY <1>2, <1>7
    <2>2. ASSUME NEW b \in t.nodes \ {t.root}, t.up[b] \in V PROVE b \in V
      <3>1. r[t.up[b]] \in Nat /\ b \in SUBSET S /\ b # {}
        BY <1>2, <2>2
      <3>2. r[b] = g[<<r[t.up[b]], b>>]
        BY <1>7
      <3> QED BY <1>6, <3>1, <3>2
    <2> QED BY Zenon, <1>5, <2>1, <2>2, Induct
  <1>9. ASSUME NEW s \in SUBSET S, s # {} PROVE r[s] = f[Pick(s)] + r[s \ {Pick(s)}]
    <2>1. r[s] = g[<<r[up[s]], s>>]
      BY Zenon, <1>2, <1>7, <1>9
    <2>2. up[s] = s \ {Pick(s)} /\ up[s] \in SUBSET S
      BY <1>3, <1>9
    <2>3. r[up[s]] \in Nat
      BY <1>2, <1>8, <2>2
    <2> QED BY <1>6, <1>9, <2>1, <2>2, <2>3
  <1>10. r[{}] = 0 /\ r = [s \in SUBSET S |-> r[s]]
    BY <1>2, <1>7
  <1>11. SumEq(r, f, S)
    BY Zenon, <1>9, <1>10 DEF SumEq
  <1>12. SumEq(Sums(f, S), f, S)
    BY <1>11 DEF Sums
  <1> DEFINE p == Sums(f, S)
  <1>13. p = [s \in SUBSET S |-> IF s = {} THEN 0 ELSE f[Pick(s)] + p[s \ {Pick(s)}]]
    BY Zenon, <1>12 DEF SumEq
  <1> HIDE DEF p
  <1>14. p[{}] = 0 /\ \A s \in SUBSET S : s # {} => p[s] = f[Pick(s)] + p[s \ {Pick(s)}]
    BY Zenon, <1>13
  <1> QED BY <1>14 DEF p

(* The sum over a subset does not depend on the set it is a subset of.     *)
LEMMA SumsAgree ==
  ASSUME NEW S, IsFiniteSet(S), NEW f, NatOn(f, S), NEW T \in SUBSET S
  PROVE  Sums(f, S)[T] = SumFunctionOnSet(f, T)
  <1> DEFINE p == Sums(f, S)
             q == Sums(f, T)
             Q == {U \in SUBSET T : p[U] = q[U]}
  <1>1. IsFiniteSet(T) /\ NatOn(f, T)
    BY FS_Subset DEF NatOn
  <1>2. p[{}] = 0 /\ \A s \in SUBSET S : s # {} => p[s] = f[Pick(s)] + p[s \ {Pick(s)}]
    BY Zenon, SumsRec
  <1>3. q[{}] = 0 /\ \A s \in SUBSET T : s # {} => q[s] = f[Pick(s)] + q[s \ {Pick(s)}]
    BY <1>1, SumsRec
  <1>4. SumFunctionOnSet(f, T) = q[T]
    BY SumChoice
  <1> HIDE DEF p, q
  <1>5. ASSUME NEW U \in SUBSET T, \A x \in U : U \ {x} \in Q PROVE U \in Q
    <2>1. CASE U = {}
      BY <1>2, <1>3, <2>1
    <2>2. CASE U # {}
      <3>1. Pick(U) \in U
        BY <2>2 DEF Pick
      <3>2. p[U \ {Pick(U)}] = q[U \ {Pick(U)}]
        BY <1>5, <3>1
      <3>3. U \in SUBSET S
        OBVIOUS
      <3>4. p[U] = f[Pick(U)] + p[U \ {Pick(U)}]
        BY Zenon, <1>2, <2>2, <3>3
      <3>5. q[U] = f[Pick(U)] + q[U \ {Pick(U)}]
        BY Zenon, <1>3, <2>2
      <3> QED BY <3>2, <3>4, <3>5
    <2> QED BY <2>1, <2>2
  <1>6. \A U \in SUBSET T : (\A x \in U : U \ {x} \in Q) => U \in Q
    BY <1>5
  <1> HIDE DEF Q
  <1>7. SUBSET T \subseteq Q
    BY Zenon, <1>1, <1>6, FiniteInduct
  <1>8. p[T] = q[T]
    BY <1>7 DEF Q
  <1> QED BY <1>4, <1>8 DEF p

(* Nothing adds up to zero.                                                *)
LEMMA SumEmpty ==
  ASSUME NEW f
  PROVE  SumFunctionOnSet(f, {}) = 0
  <1>1. IsFiniteSet({}) /\ NatOn(f, {})
    BY FS_EmptySet DEF NatOn
  <1>2. Sums(f, {})[{}] = 0
    BY <1>1, SumsRec
  <1> QED BY <1>2, SumChoice

(* The recursion takes out the element that Pick chooses.                  *)
LEMMA SumPick ==
  ASSUME NEW S, IsFiniteSet(S), S # {}, NEW f, NatOn(f, S)
  PROVE  /\ Pick(S) \in S
         /\ SumFunctionOnSet(f, S) = f[Pick(S)] + SumFunctionOnSet(f, S \ {Pick(S)})
  <1>1. Pick(S) \in S
    BY DEF Pick
  <1>2. S \in SUBSET S /\ S \ {Pick(S)} \in SUBSET S
    OBVIOUS
  <1>3. Sums(f, S)[S] = f[Pick(S)] + Sums(f, S)[S \ {Pick(S)}]
    BY <1>2, SumsRec
  <1>4. Sums(f, S)[S \ {Pick(S)}] = SumFunctionOnSet(f, S \ {Pick(S)})
    BY <1>2, SumsAgree
  <1> QED BY <1>1, <1>3, <1>4, SumChoice

(* Naturals add up to a natural.                                           *)
LEMMA SumNat ==
  ASSUME NEW S, IsFiniteSet(S), NEW f, NatOn(f, S)
  PROVE  SumFunctionOnSet(f, S) \in Nat
  <1> DEFINE Q == {T \in SUBSET S : SumFunctionOnSet(f, T) \in Nat}
  <1>1. ASSUME NEW T \in SUBSET S, \A x \in T : T \ {x} \in Q PROVE T \in Q
    <2>1. IsFiniteSet(T) /\ NatOn(f, T)
      BY FS_Subset DEF NatOn
    <2>2. CASE T = {}
      BY <2>2, SumEmpty
    <2>3. CASE T # {}
      <3>1. Pick(T) \in T /\ SumFunctionOnSet(f, T) = f[Pick(T)] + SumFunctionOnSet(f, T \ {Pick(T)})
        BY <2>1, <2>3, SumPick
      <3>2. SumFunctionOnSet(f, T \ {Pick(T)}) \in Nat
        BY <1>1, <3>1
      <3>3. f[Pick(T)] \in Nat
        BY <2>1, <3>1 DEF NatOn
      <3> QED BY <3>1, <3>2, <3>3
    <2> QED BY <2>2, <2>3
  <1>2. \A T \in SUBSET S : (\A x \in T : T \ {x} \in Q) => T \in Q
    BY <1>1
  <1> HIDE DEF Q
  <1>3. SUBSET S \subseteq Q
    BY Zenon, <1>2, FiniteInduct
  <1> QED BY <1>3 DEF Q

(* Any element may be taken out of a sum.                                  *)
LEMMA SumRemove ==
  ASSUME NEW S, IsFiniteSet(S), NEW f, NatOn(f, S), NEW x \in S
  PROVE  SumFunctionOnSet(f, S) = f[x] + SumFunctionOnSet(f, S \ {x})
  <1> DEFINE sum(T) == SumFunctionOnSet(f, T)
             Q == {T \in SUBSET S : \A y \in T : sum(T) = f[y] + sum(T \ {y})}
  <1>1. ASSUME NEW T \in SUBSET S, \A y \in T : T \ {y} \in Q PROVE T \in Q
    <2> SUFFICES ASSUME NEW y \in T PROVE sum(T) = f[y] + sum(T \ {y})
      OBVIOUS
    <2> DEFINE c == Pick(T)
    <2>1. \A U \in SUBSET S : IsFiniteSet(U) /\ NatOn(f, U)
      BY FS_Subset DEF NatOn
    <2>2. c \in T /\ sum(T) = f[c] + sum(T \ {c})
      BY <2>1, SumPick
    <2> HIDE DEF c
    <2>3. CASE y = c
      BY <2>2, <2>3
    <2>4. CASE y # c
      <3>1. T \ {c} \in Q /\ T \ {y} \in Q
        BY <1>1, <2>2
      <3>2. y \in T \ {c} /\ c \in T \ {y}
        BY <2>2, <2>4
      <3>3. (T \ {c}) \ {y} = (T \ {y}) \ {c}
        OBVIOUS
      <3>4. sum((T \ {y}) \ {c}) \in Nat
        BY <2>1, SumNat
      <3> DEFINE s == sum((T \ {y}) \ {c})
      <3>5. sum(T \ {c}) = f[y] + s
        BY <3>1, <3>2, <3>3
      <3>6. sum(T \ {y}) = f[c] + s
        BY <3>1, <3>2
      <3>7. f[y] \in Nat /\ f[c] \in Nat /\ s \in Nat
        BY <2>2, <3>4 DEF NatOn
      <3> HIDE DEF s, sum
      <3> QED BY <2>2, <3>5, <3>6, <3>7
    <2> QED BY <2>3, <2>4
  <1>2. \A T \in SUBSET S : (\A y \in T : T \ {y} \in Q) => T \in Q
    BY <1>1
  <1> HIDE DEF Q
  <1>3. SUBSET S \subseteq Q
    BY Zenon, <1>2, FiniteInduct
  <1> QED BY <1>3 DEF Q

(* A sum is at most another one into whose elements its own are mapped one *)
(* to one without getting smaller.                                         *)
LEMMA SumInject ==
  ASSUME NEW S, IsFiniteSet(S), NEW g, NatOn(g, S), NEW T, IsFiniteSet(T), NEW f, NatOn(f, T), NEW h,
         \A x \in S : h[x] \in T /\ g[x] <= f[h[x]],
         \A x, y \in S : h[x] = h[y] => x = y
  PROVE  SumFunctionOnSet(g, S) <= SumFunctionOnSet(f, T)
  <1> DEFINE a(U) == SumFunctionOnSet(g, U)
             z(V) == SumFunctionOnSet(f, V)
             Q == {U \in SUBSET S : \A V \in SUBSET T : (\A x \in U : h[x] \in V) => a(U) <= z(V)}
  <1>1. ASSUME NEW U \in SUBSET S, NEW x \in U PROVE a(U) = g[x] + a(U \ {x}) /\ a(U \ {x}) \in Nat /\ g[x] \in Nat
    <2>1. \A W \in SUBSET S : IsFiniteSet(W) /\ NatOn(g, W)
      BY FS_Subset DEF NatOn
    <2>2. a(U) = g[x] + a(U \ {x})
      BY Zenon, <2>1, SumRemove
    <2>3. a(U \ {x}) \in Nat
      BY <2>1, SumNat
    <2> QED BY <2>2, <2>3 DEF NatOn
  <1>2. ASSUME NEW V \in SUBSET T PROVE z(V) \in Nat
    BY FS_Subset, SumNat DEF NatOn
  <1>3. ASSUME NEW V \in SUBSET T, NEW x \in V PROVE z(V) = f[x] + z(V \ {x}) /\ f[x] \in Nat
    BY FS_Subset, SumRemove DEF NatOn
  <1>4. a({}) = 0
    BY SumEmpty
  <1> HIDE DEF a, z
  <1>5. ASSUME NEW U \in SUBSET S, \A x \in U : U \ {x} \in Q PROVE U \in Q
    <2> SUFFICES ASSUME NEW V \in SUBSET T, \A x \in U : h[x] \in V PROVE a(U) <= z(V)
      OBVIOUS
    <2>1. CASE U = {}
      BY <1>2, <1>4, <2>1
    <2>2. CASE U # {}
      <3>1. PICK x \in U : TRUE
        BY <2>2
      <3>2. V \ {h[x]} \in SUBSET T /\ \A y \in U \ {x} : h[y] \in V \ {h[x]}
        OBVIOUS
      <3>3. a(U \ {x}) <= z(V \ {h[x]})
        BY <1>5, <3>1, <3>2
      <3>4. a(U) = g[x] + a(U \ {x}) /\ a(U \ {x}) \in Nat /\ g[x] \in Nat
        BY Zenon, <1>1
      <3>5. z(V) = f[h[x]] + z(V \ {h[x]}) /\ f[h[x]] \in Nat
        BY Zenon, <1>3
      <3>6. z(V \ {h[x]}) \in Nat
        BY <1>2
      <3>7. g[x] <= f[h[x]]
        OBVIOUS
      <3> QED BY <3>3, <3>4, <3>5, <3>6, <3>7
    <2> QED BY <2>1, <2>2
  <1>6. \A U \in SUBSET S : (\A x \in U : U \ {x} \in Q) => U \in Q
    BY <1>5
  <1> HIDE DEF Q
  <1>7. SUBSET S \subseteq Q
    BY Zenon, <1>6, FiniteInduct
  <1>8. a(S) <= z(T)
    BY <1>7 DEF Q
  <1> QED BY <1>8 DEF a, z

(* Equal terms have equal sums.                                            *)
LEMMA SumEqual ==
  ASSUME NEW S, IsFiniteSet(S), NEW f, NEW g, NatOn(f, S), \A x \in S : f[x] = g[x]
  PROVE  SumFunctionOnSet(f, S) = SumFunctionOnSet(g, S)
  <1> DEFINE id == [x \in S |-> x]
  <1>1. NatOn(g, S)
    BY DEF NatOn
  <1>2. \A x, y \in S : id[x] = id[y] => x = y
    OBVIOUS
  <1>3. \A x \in S : id[x] \in S /\ f[x] <= g[id[x]] /\ g[x] <= f[id[x]]
    BY <1>1 DEF NatOn
  <1> HIDE DEF id
  <1>4. SumFunctionOnSet(f, S) <= SumFunctionOnSet(g, S)
    BY <1>1, <1>2, <1>3, SumInject
  <1>5. SumFunctionOnSet(g, S) <= SumFunctionOnSet(f, S)
    BY <1>1, <1>2, <1>3, SumInject
  <1>6. SumFunctionOnSet(f, S) \in Nat /\ SumFunctionOnSet(g, S) \in Nat
    BY <1>1, SumNat
  <1> QED BY <1>4, <1>5, <1>6

(* The sum over two disjoint sets.                                         *)
LEMMA SumUnion ==
  ASSUME NEW A, NEW B, IsFiniteSet(A \cup B), A \cap B = {}, NEW f, NatOn(f, A \cup B)
  PROVE  SumFunctionOnSet(f, A \cup B) = SumFunctionOnSet(f, A) + SumFunctionOnSet(f, B)
  <1> DEFINE z(V) == SumFunctionOnSet(f, V)
             Q == {U \in SUBSET A : z(U \cup B) = z(U) + z(B)}
  <1>1. ASSUME NEW V \in SUBSET (A \cup B) PROVE IsFiniteSet(V) /\ NatOn(f, V) /\ z(V) \in Nat
    BY FS_Subset, SumNat DEF NatOn
  <1>2. ASSUME NEW V \in SUBSET (A \cup B), NEW x \in V PROVE z(V) = f[x] + z(V \ {x}) /\ f[x] \in Nat
    BY <1>1, SumRemove DEF NatOn
  <1>3. z({}) = 0
    BY SumEmpty
  <1> HIDE DEF z
  <1>4. ASSUME NEW U \in SUBSET A, \A x \in U : U \ {x} \in Q PROVE U \in Q
    <2>1. CASE U = {}
      <3>1. z(B) \in Nat
        BY <1>1
      <3>2. U \cup B = B
        BY <2>1
      <3> QED BY <1>3, <2>1, <3>1, <3>2
    <2>2. CASE U # {}
      <3>1. PICK x \in U : TRUE
        BY <2>2
      <3>2. (U \cup B) \ {x} = (U \ {x}) \cup B
        OBVIOUS
      <3>3. z((U \ {x}) \cup B) = z(U \ {x}) + z(B)
        BY <1>4, <3>1
      <3>4. z(U \cup B) = f[x] + z((U \ {x}) \cup B) /\ f[x] \in Nat
        BY Zenon, <1>2, <3>2
      <3>5. z(U) = f[x] + z(U \ {x})
        BY <1>2
      <3>6. z(U \ {x}) \in Nat /\ z(B) \in Nat
        BY <1>1
      <3>7. z(U \cup B) = z(U) + z(B)
        BY <3>3, <3>4, <3>5, <3>6
      <3> QED BY <3>7
    <2> QED BY <2>1, <2>2
  <1>5. \A U \in SUBSET A : (\A x \in U : U \ {x} \in Q) => U \in Q
    BY <1>4
  <1> HIDE DEF Q
  <1>6. IsFiniteSet(A)
    BY FS_Subset
  <1>7. SUBSET A \subseteq Q
    BY Zenon, <1>5, <1>6, FiniteInduct
  <1>8. z(A \cup B) = z(A) + z(B)
    BY <1>7 DEF Q
  <1> QED BY <1>8 DEF z

(* The sum of sums of terms.                                               *)
LEMMA SumAdd ==
  ASSUME NEW S, IsFiniteSet(S), NEW f, NatOn(f, S), NEW g, NatOn(g, S), NEW h,
         \A x \in S : h[x] = f[x] + g[x]
  PROVE  SumFunctionOnSet(h, S) = SumFunctionOnSet(f, S) + SumFunctionOnSet(g, S)
  <1> DEFINE a(T) == SumFunctionOnSet(f, T)
             b(T) == SumFunctionOnSet(g, T)
             c(T) == SumFunctionOnSet(h, T)
             Q == {U \in SUBSET S : c(U) = a(U) + b(U)}
  <1>1. ASSUME NEW T \in SUBSET S PROVE IsFiniteSet(T) /\ NatOn(f, T) /\ NatOn(g, T) /\ NatOn(h, T)
    <2>1. IsFiniteSet(T)
      BY FS_Subset
    <2>2. \A x \in T : f[x] \in Nat /\ g[x] \in Nat /\ h[x] \in Nat
      BY DEF NatOn
    <2> QED BY <2>1, <2>2 DEF NatOn
  <1>2. ASSUME NEW T \in SUBSET S, NEW x \in T
        PROVE  a(T) = f[x] + a(T \ {x}) /\ b(T) = g[x] + b(T \ {x}) /\ c(T) = h[x] + c(T \ {x})
    BY <1>1, SumRemove
  <1>3. ASSUME NEW T \in SUBSET S PROVE a(T) \in Nat /\ b(T) \in Nat
    BY <1>1, SumNat
  <1>4. a({}) = 0 /\ b({}) = 0 /\ c({}) = 0
    BY SumEmpty
  <1> HIDE DEF a, b, c
  <1>5. ASSUME NEW U \in SUBSET S, \A x \in U : U \ {x} \in Q PROVE U \in Q
    <2>1. CASE U = {}
      BY <1>4, <2>1
    <2>2. CASE U # {}
      <3>1. PICK x \in U : TRUE
        BY <2>2
      <3>2. c(U \ {x}) = a(U \ {x}) + b(U \ {x}) /\ a(U \ {x}) \in Nat /\ b(U \ {x}) \in Nat
        BY <1>3, <1>5, <3>1
      <3>3. h[x] = f[x] + g[x] /\ f[x] \in Nat /\ g[x] \in Nat
        BY DEF NatOn
      <3>4. c(U) = a(U) + b(U)
        BY <1>2, <3>2, <3>3
      <3> QED BY <3>4
    <2> QED BY <2>1, <2>2
  <1>6. \A U \in SUBSET S : (\A x \in U : U \ {x} \in Q) => U \in Q
    BY <1>5
  <1> HIDE DEF Q
  <1>7. SUBSET S \subseteq Q
    BY Zenon, <1>6, FiniteInduct
  <1>8. c(S) = a(S) + b(S)
    BY <1>7 DEF Q
  <1> QED BY <1>8 DEF a, b, c

(* The pairs an array of arrays F is summed over.                          *)
Pairs(F, I) == UNION {{i} \X DOMAIN F[i] : i \in I}

(* A sum of sums is a sum over pairs.                                      *)
LEMMA SumNested ==
  ASSUME NEW I, IsFiniteSet(I), NEW F, \A i \in I : IsFiniteSet(DOMAIN F[i]) /\ NatOn(F[i], DOMAIN F[i]),
         NEW g, \A i \in I : g[i] = SumFunctionOnSet(F[i], DOMAIN F[i]),
         NEW h, \A i \in I : \A k \in DOMAIN F[i] : h[<<i, k>>] = F[i][k]
  PROVE  /\ IsFiniteSet(Pairs(F, I))
         /\ NatOn(h, Pairs(F, I))
         /\ SumFunctionOnSet(g, I) = SumFunctionOnSet(h, Pairs(F, I))
  <1> DEFINE z(V) == SumFunctionOnSet(h, V)
             y(V) == SumFunctionOnSet(g, V)
             Q == {J \in SUBSET I : /\ IsFiniteSet(Pairs(F, J)) /\ NatOn(h, Pairs(F, J))
                                    /\ y(J) = z(Pairs(F, J))}
  <1>1. ASSUME NEW i \in I
        PROVE  /\ IsFiniteSet({i} \X DOMAIN F[i]) /\ NatOn(h, {i} \X DOMAIN F[i])
               /\ z({i} \X DOMAIN F[i]) = g[i] /\ g[i] \in Nat
    <2> DEFINE K == DOMAIN F[i]
               P == {i} \X K
               into == [k \in K |-> <<i, k>>]
               from == [p \in P |-> p[2]]
    <2>1. IsFiniteSet(K) /\ NatOn(F[i], K)
      OBVIOUS
    <2>2. NatOn(h, P)
      <3>1. \A p \in P : p[2] \in K /\ p = <<i, p[2]>>
        OBVIOUS
      <3>2. \A p \in P : h[p] = F[i][p[2]]
        BY <3>1
      <3> QED BY <2>1, <3>1, <3>2 DEF NatOn
    <2>3. IsFiniteSet(P)
      <3>1. IsFiniteSet({i})
        BY Zenon, FS_Singleton
      <3> QED BY <2>1, <3>1, FS_Product
    <2>4. \A k \in K : into[k] \in P /\ F[i][k] <= h[into[k]]
      BY <2>1 DEF NatOn
    <2>5. \A k, l \in K : into[k] = into[l] => k = l
      OBVIOUS
    <2>6. \A p \in P : from[p] \in K /\ p = <<i, from[p]>> /\ h[p] = F[i][from[p]]
      OBVIOUS
    <2>7. \A p \in P : from[p] \in K /\ h[p] <= F[i][from[p]]
      BY <2>1, <2>6 DEF NatOn
    <2>8. \A p, q \in P : from[p] = from[q] => p = q
      BY <2>6
    <2> HIDE DEF P, K, into, from
    <2>9. SumFunctionOnSet(F[i], K) <= z(P)
      BY <2>1, <2>2, <2>3, <2>4, <2>5, SumInject
    <2>10. z(P) <= SumFunctionOnSet(F[i], K)
      BY <2>1, <2>2, <2>3, <2>7, <2>8, SumInject
    <2>11. z(P) \in Nat /\ SumFunctionOnSet(F[i], K) \in Nat
      BY <2>1, <2>2, <2>3, SumNat
    <2>12. g[i] = SumFunctionOnSet(F[i], K)
      BY DEF K
    <2>13. z(P) = g[i] /\ g[i] \in Nat
      BY <2>9, <2>10, <2>11, <2>12
    <2> QED BY <2>2, <2>3, <2>13 DEF P, K
  <1>2. ASSUME NEW J \in SUBSET I, NEW i \in J PROVE y(J) = g[i] + y(J \ {i})
    <2>1. IsFiniteSet(J) /\ NatOn(g, J)
      BY Zenon, <1>1, FS_Subset DEF NatOn
    <2> QED BY <2>1, SumRemove
  <1>3. y({}) = 0 /\ z({}) = 0 /\ IsFiniteSet({}) /\ NatOn(h, {})
    BY SumEmpty, FS_EmptySet DEF NatOn
  <1>4. ASSUME NEW J \in SUBSET I, \A i \in J : J \ {i} \in Q PROVE J \in Q
    <2>1. CASE J = {}
      <3>1. Pairs(F, J) = {}
        BY <2>1 DEF Pairs
      <3> QED BY <1>3, <2>1, <3>1
    <2>2. CASE J # {}
      <3>1. PICK i \in J : TRUE
        BY <2>2
      <3> DEFINE A == {i} \X DOMAIN F[i]
                 B == Pairs(F, J \ {i})
      <3>2. Pairs(F, J) = A \cup B /\ A \cap B = {}
        BY <3>1 DEF Pairs
      <3>3. IsFiniteSet(A) /\ NatOn(h, A) /\ z(A) = g[i]
        BY <1>1
      <3>4. IsFiniteSet(B) /\ NatOn(h, B) /\ y(J \ {i}) = z(B)
        BY <1>4, <3>1
      <3> HIDE DEF A, B
      <3>5. IsFiniteSet(A \cup B) /\ NatOn(h, A \cup B)
        BY Zenon, <3>3, <3>4, FS_Union DEF NatOn
      <3>6. z(A \cup B) = z(A) + z(B)
        BY <3>2, <3>5, SumUnion
      <3>7. y(J) = z(Pairs(F, J))
        BY <1>2, <3>2, <3>3, <3>4, <3>6
      <3> QED BY Zenon, <3>2, <3>5, <3>7
    <2> QED BY <2>1, <2>2
  <1>5. \A J \in SUBSET I : (\A i \in J : J \ {i} \in Q) => J \in Q
    BY <1>4
  <1> HIDE DEF Q
  <1>6. SUBSET I \subseteq Q
    BY Zenon, <1>5, FiniteInduct
  <1> QED BY <1>6 DEF Q
-----------------------------------------------------------------------------
(***************************************************************************)
(* What a block does to the amounts.                                       *)
(***************************************************************************)
(* A sequence has finitely many elements.                                  *)
LEMMA SeqDomainFinite ==
  ASSUME NEW S, NEW s \in Seq(S)
  PROVE  IsFiniteSet(DOMAIN s) /\ DOMAIN s \subseteq Nat \ {0} /\ \A i \in DOMAIN s : s[i] \in S
  <1>1. DOMAIN s = 1..Len(s) /\ Len(s) \in Nat
    OBVIOUS
  <1>2. IsFiniteSet(1..Len(s))
    BY <1>1, FS_Interval
  <1> QED BY <1>1, <1>2

(* A transaction's outputs add up to a natural.                            *)
LEMMA OutputTotalNat ==
  ASSUME NEW outputs \in Seq(TxOutput)
  PROVE  /\ IsFiniteSet(DOMAIN outputs)
         /\ NatOn([i \in DOMAIN outputs |-> outputs[i].value], DOMAIN outputs)
         /\ OutputTotal(outputs) \in Nat
  <1> DEFINE f == [i \in DOMAIN outputs |-> outputs[i].value]
  <1>1. IsFiniteSet(DOMAIN outputs) /\ \A i \in DOMAIN outputs : outputs[i] \in TxOutput
    BY SeqDomainFinite
  <1>2. NatOn(f, DOMAIN outputs)
    BY <1>1 DEF NatOn, TxOutput
  <1>3. DOMAIN f = DOMAIN outputs
    OBVIOUS
  <1> HIDE DEF f
  <1>4. SumFunctionOnSet(f, DOMAIN f) \in Nat
    BY <1>1, <1>2, <1>3, SumNat
  <1> QED BY <1>1, <1>2, <1>4 DEF f, OutputTotal, SumFunction

(* The parts of a block's body that hold amounts.                          *)
LEMMA BodyTyped ==
  ASSUME NEW b \in Block
  PROVE  /\ Body[b].coinbase \in Seq(TxOutput)
         /\ IsFiniteSet(DOMAIN Body[b].txs) /\ DOMAIN Body[b].txs \subseteq Nat \ {0}
         /\ \A i \in DOMAIN Body[b].txs : /\ Body[b].txs[i] \in Txs(b)
                                         /\ Body[b].txs[i].inputs \in Seq(OutPoint)
                                         /\ Body[b].txs[i].outputs \in Seq(TxOutput)
  <1>1. Body[b].txs \in Seq(Transaction) /\ Body[b].coinbase \in Seq(TxOutput)
    BY BodyAssumption
  <1>2. IsFiniteSet(DOMAIN Body[b].txs) /\ DOMAIN Body[b].txs \subseteq Nat \ {0}
        /\ \A i \in DOMAIN Body[b].txs : Body[b].txs[i] \in Transaction
    BY <1>1, SeqDomainFinite
  <1>3. \A i \in DOMAIN Body[b].txs : Body[b].txs[i] \in Txs(b)
    BY DEF Txs, Range
  <1> QED BY <1>1, <1>2, <1>3 DEF Transaction

(* Every input is unspent: the block takes at least what its transactions  *)
(* are worth out of the UTXO set.                                          *)
LEMMA SpentCovers ==
  ASSUME NEW b \in Block, NEW L, IsLedger(L), IsFiniteSet(DOMAIN L.utxos), InputsSpendable(L, b)
  PROVE  LET txs == Body[b].txs
             ins == [i \in DOMAIN txs |-> InputTotal(L.utxos, txs[i].inputs)]
             val == [o \in DOMAIN L.utxos |-> L.utxos[o].value]
         IN  /\ NatOn(ins, DOMAIN txs)
             /\ SpentBy(b) \subseteq DOMAIN L.utxos
             /\ NatOn(val, DOMAIN L.utxos)
             /\ SumFunctionOnSet(ins, DOMAIN txs) <= SumFunctionOnSet(val, SpentBy(b))
  <1> DEFINE txs == Body[b].txs
             I == DOMAIN txs
             ins == [i \in I |-> InputTotal(L.utxos, txs[i].inputs)]
             val == [o \in DOMAIN L.utxos |-> L.utxos[o].value]
             F == [i \in I |-> [k \in DOMAIN txs[i].inputs |-> L.utxos[txs[i].inputs[k]].value]]
             h == [p \in Pairs(F, I) |-> F[p[1]][p[2]]]
             at == [p \in Pairs(F, I) |-> txs[p[1]].inputs[p[2]]]
  <1>1. IsFiniteSet(I) /\ \A i \in I : txs[i] \in Txs(b) /\ txs[i].inputs \in Seq(OutPoint)
    BY BodyTyped
  <1>2. \A i \in I : IsFiniteSet(DOMAIN txs[i].inputs)
    BY <1>1, SeqDomainFinite
  <1>3. \A i \in I : \A k \in DOMAIN txs[i].inputs : txs[i].inputs[k] \in SpentBy(b)
    BY <1>1 DEF SpentBy, Range
  <1>4. SpentBy(b) \subseteq DOMAIN L.utxos
    BY DEF InputsSpendable
  <1>5. NatOn(val, DOMAIN L.utxos) /\ \A o \in DOMAIN L.utxos : L.utxos[o].value \in Nat
    BY DEF IsLedger, Entry, NatOn
  <1>6. \A i \in I, j \in I : \A k \in DOMAIN txs[i].inputs, l \in DOMAIN txs[j].inputs :
          txs[i].inputs[k] = txs[j].inputs[l] => i = j /\ k = l
    BY DEF InputsSpendable, NoDoubleSpend
  <1> HIDE DEF txs
  <1>7. \A i \in I : DOMAIN F[i] = DOMAIN txs[i].inputs
                     /\ \A k \in DOMAIN F[i] : F[i][k] = L.utxos[txs[i].inputs[k]].value
    OBVIOUS
  <1>8. \A i \in I : ins[i] = SumFunctionOnSet(F[i], DOMAIN F[i])
    BY DEF InputTotal, SumFunction
  <1> HIDE DEF F, ins, val
  <1>9. \A i \in I : IsFiniteSet(DOMAIN F[i]) /\ NatOn(F[i], DOMAIN F[i])
    BY <1>2, <1>3, <1>4, <1>5, <1>7 DEF NatOn
  <1>10. \A p \in Pairs(F, I) : p[1] \in I /\ p[2] \in DOMAIN F[p[1]] /\ p = <<p[1], p[2]>>
    BY DEF Pairs
  <1>11. \A i \in I : \A k \in DOMAIN F[i] : <<i, k>> \in Pairs(F, I) /\ h[<<i, k>>] = F[i][k]
    BY DEF Pairs
  <1>12. \A p \in Pairs(F, I) : h[p] = F[p[1]][p[2]] /\ at[p] = txs[p[1]].inputs[p[2]]
    OBVIOUS
  <1> HIDE DEF h, at, I
  <1>13. /\ IsFiniteSet(Pairs(F, I)) /\ NatOn(h, Pairs(F, I))
         /\ SumFunctionOnSet(ins, I) = SumFunctionOnSet(h, Pairs(F, I))
    BY <1>1, <1>8, <1>9, <1>11, SumNested
  <1>14. \A p \in Pairs(F, I) : at[p] \in SpentBy(b) /\ h[p] = L.utxos[at[p]].value
    BY <1>3, <1>7, <1>10, <1>12
  <1>15. \A p \in Pairs(F, I) : at[p] \in SpentBy(b) /\ h[p] <= val[at[p]]
    BY <1>4, <1>5, <1>14 DEF val
  <1>16. \A p, q \in Pairs(F, I) : at[p] = at[q] => p = q
    <2> SUFFICES ASSUME NEW p \in Pairs(F, I), NEW q \in Pairs(F, I), at[p] = at[q] PROVE p = q
      OBVIOUS
    <2>1. p[1] = q[1] /\ p[2] = q[2]
      BY <1>6, <1>7, <1>10, <1>12
    <2> QED BY <1>10, <2>1
  <1>17. IsFiniteSet(SpentBy(b)) /\ NatOn(val, SpentBy(b))
    BY <1>4, <1>5, FS_Subset DEF NatOn
  <1>18. SumFunctionOnSet(h, Pairs(F, I)) <= SumFunctionOnSet(val, SpentBy(b))
    BY <1>13, <1>15, <1>16, <1>17, SumInject
  <1>19. NatOn(ins, I)
    <2>1. \A i \in I : SumFunctionOnSet(F[i], DOMAIN F[i]) \in Nat
      BY <1>9, SumNat
    <2> QED BY <1>8, <2>1 DEF NatOn
  <1>20. SumFunctionOnSet(ins, I) <= SumFunctionOnSet(val, SpentBy(b))
    BY <1>13, <1>18
  <1> QED BY <1>4, <1>5, <1>19, <1>20 DEF ins, val, I, txs

(* What a block creates is at most what its outputs add up to.             *)
LEMMA CreatedCovered ==
  ASSUME NEW b \in Block
  PROVE  LET txs == Body[b].txs
             outs == [i \in DOMAIN txs |-> OutputTotal(txs[i].outputs)]
             val == [o \in CreatedBy(b) |-> OutputValue(b, o)]
         IN  /\ IsFiniteSet(CreatedBy(b)) /\ CreatedBy(b) \subseteq OutPoint
             /\ NatOn(outs, DOMAIN txs) /\ NatOn(val, CreatedBy(b))
             /\ CoinbaseTotal(b) \in Nat
             /\ SumFunctionOnSet(val, CreatedBy(b))
                  <= CoinbaseTotal(b) + SumFunctionOnSet(outs, DOMAIN txs)
  <1> DEFINE txs == Body[b].txs
             D == DOMAIN txs
             I == D \cup {0}
             Outs(i) == IF i = 0 THEN Body[b].coinbase ELSE txs[i].outputs
             outs == [i \in D |-> OutputTotal(txs[i].outputs)]
             val == [o \in CreatedBy(b) |-> OutputValue(b, o)]
             F == [i \in I |-> [k \in DOMAIN Outs(i) |-> Outs(i)[k].value]]
             g == [i \in I |-> OutputTotal(Outs(i))]
             P == Pairs(F, I)
             h == [p \in P |-> F[p[1]][p[2]]]
             All == Range(Body[b].coinbase) \cup UNION {Range(t.outputs) : t \in Txs(b)}
  <1>1. IsFiniteSet(D) /\ 0 \notin D /\ \A i \in D : txs[i] \in Txs(b) /\ txs[i].outputs \in Seq(TxOutput)
    BY BodyTyped
  <1>2. \A i \in I : Outs(i) \in Seq(TxOutput)
    BY <1>1, BodyTyped
  <1>3. IsFiniteSet(I)
    BY <1>1, FS_AddElement
  <1>4. All = UNION {Range(Outs(i)) : i \in I}
    <2>1. {Range(t.outputs) : t \in Txs(b)} = {Range(txs[i].outputs) : i \in D}
      BY DEF Txs, Range
    <2>2. \A i \in D : Outs(i) = txs[i].outputs
      BY <1>1
    <2>3. {Range(Outs(i)) : i \in I} = {Range(Body[b].coinbase)} \cup {Range(txs[i].outputs) : i \in D}
      BY <2>2
    <2> QED BY Zenon, <2>1, <2>3
  <1>5. CreatedBy(b) = {o.op : o \in All} /\ \A o \in CreatedBy(b) : OutputValue(b, o) = (CHOOSE x \in All : x.op = o).value
    BY DEF CreatedBy, CoinbaseOps, OutputValue
  <1> HIDE DEF All
  <1>6. ASSUME NEW o \in CreatedBy(b)
        PROVE  \E i \in I : \E k \in DOMAIN Outs(i) : Outs(i)[k].op = o /\ Outs(i)[k].value = OutputValue(b, o)
    <2> DEFINE x == CHOOSE y \in All : y.op = o
    <2>1. x \in All /\ x.op = o /\ OutputValue(b, o) = x.value
      BY <1>5
    <2> HIDE DEF x
    <2>2. PICK i \in I : x \in Range(Outs(i))
      BY <1>4, <2>1
    <2>3. PICK k \in DOMAIN Outs(i) : Outs(i)[k] = x
      BY <2>2 DEF Range
    <2> QED BY <2>1, <2>3
  <1> HIDE DEF Outs
  <1>7. \A i \in I : DOMAIN F[i] = DOMAIN Outs(i) /\ \A k \in DOMAIN F[i] : F[i][k] = Outs(i)[k].value
    OBVIOUS
  <1>8. \A i \in I : /\ IsFiniteSet(DOMAIN F[i]) /\ NatOn(F[i], DOMAIN F[i])
                     /\ g[i] = SumFunctionOnSet(F[i], DOMAIN F[i]) /\ g[i] \in Nat
    <2> SUFFICES ASSUME NEW i \in I
                 PROVE  /\ IsFiniteSet(DOMAIN F[i]) /\ NatOn(F[i], DOMAIN F[i])
                        /\ g[i] = SumFunctionOnSet(F[i], DOMAIN F[i]) /\ g[i] \in Nat
      BY Zenon
    <2>1. F[i] = [k \in DOMAIN Outs(i) |-> Outs(i)[k].value] /\ DOMAIN F[i] = DOMAIN Outs(i)
      OBVIOUS
    <2>2. IsFiniteSet(DOMAIN F[i]) /\ NatOn(F[i], DOMAIN F[i]) /\ OutputTotal(Outs(i)) \in Nat
      BY Zenon, <1>2, <2>1, OutputTotalNat
    <2>3. g[i] = OutputTotal(Outs(i))
      OBVIOUS
    <2>4. OutputTotal(Outs(i)) = SumFunctionOnSet(F[i], DOMAIN F[i])
      BY <2>1 DEF OutputTotal, SumFunction
    <2> QED BY Zenon, <2>2, <2>3, <2>4
  <1>9. g[0] = CoinbaseTotal(b) /\ \A i \in D : g[i] = outs[i]
    BY <1>1 DEF Outs, CoinbaseTotal
  <1> HIDE DEF F, g
  <1>10. \A p \in P : p[1] \in I /\ p[2] \in DOMAIN F[p[1]] /\ p = <<p[1], p[2]>>
    BY DEF Pairs
  <1>11. \A i \in I : \A k \in DOMAIN F[i] : <<i, k>> \in P /\ h[<<i, k>>] = F[i][k]
    BY DEF Pairs
  <1> HIDE DEF h
  <1>12. IsFiniteSet(P) /\ NatOn(h, P) /\ SumFunctionOnSet(g, I) = SumFunctionOnSet(h, P)
    BY <1>3, <1>8, <1>11, SumNested
  <1> DEFINE Is(o, p) == Outs(p[1])[p[2]].op = o /\ h[p] = OutputValue(b, o)
             at == [o \in CreatedBy(b) |-> CHOOSE p \in P : Is(o, p)]
  <1>13. ASSUME NEW o \in CreatedBy(b) PROVE \E p \in P : Is(o, p)
    <2>1. PICK i \in I : \E k \in DOMAIN Outs(i) : Outs(i)[k].op = o /\ Outs(i)[k].value = OutputValue(b, o)
      BY <1>6
    <2>2. PICK k \in DOMAIN Outs(i) : Outs(i)[k].op = o /\ Outs(i)[k].value = OutputValue(b, o)
      BY <2>1
    <2>3. <<i, k>> \in P /\ h[<<i, k>>] = Outs(i)[k].value
      BY Zenon, <1>7, <1>11
    <2>4. Is(o, <<i, k>>)
      BY <2>2, <2>3
    <2> QED BY <2>3, <2>4
  <1>14. ASSUME NEW o \in CreatedBy(b) PROVE at[o] \in P /\ Is(o, at[o])
    BY Zenon, <1>13
  <1>15. \A o \in CreatedBy(b) : at[o] \in P /\ val[o] = h[at[o]] /\ Outs(at[o][1])[at[o][2]].op = o
    BY Zenon, <1>14
  <1> HIDE DEF at, At, val, P
  <1>16. NatOn(val, CreatedBy(b)) /\ \A o \in CreatedBy(b) : val[o] <= h[at[o]]
    BY <1>12, <1>15 DEF NatOn
  <1>17. \A o, x \in CreatedBy(b) : at[o] = at[x] => o = x
    BY <1>15
  <1>18. CreatedBy(b) \subseteq OutPoint
    <2>1. \A i \in I : \A k \in DOMAIN Outs(i) : Outs(i)[k].op \in OutPoint
      <3>1. \A i \in I : \A k \in DOMAIN Outs(i) : Outs(i)[k] \in TxOutput
        BY <1>2, SeqDomainFinite
      <3> QED BY <3>1 DEF TxOutput
    <2> QED BY <1>6, <2>1
  <1>19. IsFiniteSet(CreatedBy(b))
    <2>1. at \in [CreatedBy(b) -> P]
      BY Zenon, <1>14 DEF at
    <2>2. at \in Injection(CreatedBy(b), P)
      BY <1>17, <2>1 DEF Injection, IsInjective
    <2> QED BY <1>12, <2>2, FS_Injection
  <1>20. SumFunctionOnSet(val, CreatedBy(b)) <= SumFunctionOnSet(h, P)
    BY <1>12, <1>15, <1>16, <1>17, <1>19, SumInject
  <1>21. NatOn(outs, D) /\ NatOn(g, I)
    BY Zenon, <1>8, <1>9 DEF NatOn
  <1>22. SumFunctionOnSet(g, I) = g[0] + SumFunctionOnSet(g, I \ {0})
    BY <1>3, <1>21, SumRemove
  <1>23. I \ {0} = D /\ SumFunctionOnSet(g, D) = SumFunctionOnSet(outs, D)
    <2>1. I \ {0} = D
      BY <1>1
    <2>2. \A i \in D : outs[i] = g[i]
      BY <1>9
    <2> HIDE DEF outs
    <2> QED BY Zenon, <1>1, <1>21, <2>1, <2>2, SumEqual
  <1>24. CoinbaseTotal(b) \in Nat
    BY <1>8, <1>9
  <1>25. SumFunctionOnSet(val, CreatedBy(b)) <= CoinbaseTotal(b) + SumFunctionOnSet(outs, D)
    BY Zenon, <1>9, <1>12, <1>20, <1>22, <1>23
  <1> QED BY <1>16, <1>18, <1>19, <1>21, <1>24, <1>25 DEF val

(* The fees are what the inputs exceed the outputs by.                     *)
LEMMA FeesBalance ==
  ASSUME NEW b \in Block, NEW L, IsLedger(L), IsFiniteSet(DOMAIN L.utxos), InputsSpendable(L, b)
  PROVE  LET txs == Body[b].txs
             ins == [i \in DOMAIN txs |-> InputTotal(L.utxos, txs[i].inputs)]
             outs == [i \in DOMAIN txs |-> OutputTotal(txs[i].outputs)]
         IN  /\ Fees(L, b) \in Nat
             /\ SumFunctionOnSet(ins, DOMAIN txs) = Fees(L, b) + SumFunctionOnSet(outs, DOMAIN txs)
  <1> DEFINE txs == Body[b].txs
             I == DOMAIN txs
             ins == [i \in I |-> InputTotal(L.utxos, txs[i].inputs)]
             outs == [i \in I |-> OutputTotal(txs[i].outputs)]
             fees == [i \in I |-> InputTotal(L.utxos, txs[i].inputs) - OutputTotal(txs[i].outputs)]
  <1>1. IsFiniteSet(I) /\ \A i \in I : txs[i] \in Txs(b)
    BY BodyTyped
  <1>2. NatOn(ins, I)
    BY Zenon, SpentCovers
  <1>3. NatOn(outs, I)
    BY Zenon, CreatedCovered
  <1>4. \A i \in I : InputTotal(L.utxos, txs[i].inputs) >= OutputTotal(txs[i].outputs)
    BY <1>1 DEF InputsSpendable
  <1> HIDE DEF txs
  <1>5. \A i \in I : ins[i] \in Nat /\ outs[i] \in Nat /\ ins[i] >= outs[i] /\ fees[i] = ins[i] - outs[i]
    BY <1>2, <1>3, <1>4 DEF NatOn
  <1>6. Fees(L, b) = SumFunctionOnSet(fees, I)
    BY DEF Fees, SumFunction, txs
  <1> HIDE DEF ins, outs, fees, I
  <1>7. NatOn(fees, I) /\ \A i \in I : ins[i] = fees[i] + outs[i]
    BY <1>5 DEF NatOn
  <1>8. SumFunctionOnSet(ins, I) = SumFunctionOnSet(fees, I) + SumFunctionOnSet(outs, I)
    BY <1>1, <1>3, <1>7, SumAdd
  <1>9. SumFunctionOnSet(fees, I) \in Nat
    BY <1>1, <1>7, SumNat
  <1>10. Fees(L, b) \in Nat /\ SumFunctionOnSet(ins, I) = Fees(L, b) + SumFunctionOnSet(outs, I)
    BY <1>6, <1>8, <1>9
  <1> QED BY <1>10 DEF ins, outs, I, txs

(* The coinbase pays out no more than what is counted as issued and the    *)
(* fees.                                                                   *)
LEMMA SubsidyCovers ==
  ASSUME NEW L, NEW b, Fees(L, b) \in Nat, CoinbaseTotal(b) \in Nat, block_reward(L.height + 1) \in Nat,
         CoinbaseTotal(b) <= block_reward(L.height + 1) + Fees(L, b)
  PROVE  Subsidy(L, b) \in Nat /\ CoinbaseTotal(b) <= Subsidy(L, b) + Fees(L, b)
  <1> DEFINE f == Fees(L, b)
             c == CoinbaseTotal(b)
             r == block_reward(L.height + 1)
             a == IF f < c THEN f ELSE c
             m == IF c >= a THEN c - a ELSE 0
             s == IF m < r THEN m ELSE r
  <1>1. f \in Nat /\ c \in Nat /\ r \in Nat /\ c <= r + f
    OBVIOUS
  <1>2. Subsidy(L, b) = s
    BY DEF Subsidy
  <1> HIDE DEF f, c, r
  <1>3. s \in Nat /\ c <= s + f
    BY <1>1
  <1> HIDE DEF s
  <1> QED BY <1>2, <1>3 DEF f, c

(* What is kept and made is covered by what was there and the subsidy.     *)
LEMMA TotalsAdd ==
  ASSUME NEW k \in Nat, NEW r \in Nat, NEW q \in Nat, NEW m \in Nat, NEW s \in Nat, k <= r, m <= q + s
  PROVE  r + q \in Nat /\ k + m \in Nat /\ k + m <= (r + q) + s
  OBVIOUS

(* No coins from nowhere: a block adds at most its subsidy to the UTXO set.*)
LEMMA Conservation ==
  ASSUME NEW b \in Block, NEW L, IsLedger(L), IsFiniteSet(DOMAIN L.utxos), TransactionsValid(L, b),
         block_reward(L.height + 1) \in Nat
  PROVE  /\ Subsidy(L, b) \in Nat
         /\ IsFiniteSet(DOMAIN ApplyUtxos(L, b))
         /\ UtxoTotal(L.utxos) \in Nat
         /\ UtxoTotal(ApplyUtxos(L, b)) \in Nat
         /\ UtxoTotal(ApplyUtxos(L, b)) <= UtxoTotal(L.utxos) + Subsidy(L, b)
  <1> DEFINE txs == Body[b].txs
             ins == [i \in DOMAIN txs |-> InputTotal(L.utxos, txs[i].inputs)]
             outs == [i \in DOMAIN txs |-> OutputTotal(txs[i].outputs)]
             old == [o \in DOMAIN L.utxos |-> L.utxos[o].value]
             made == [o \in CreatedBy(b) |-> OutputValue(b, o)]
             A == ApplyUtxos(L, b)
             new == [o \in DOMAIN A |-> A[o].value]
             C == CreatedBy(b)
             S == SpentBy(b)
             K == (DOMAIN L.utxos \ S) \ C
             sIns == SumFunctionOnSet(ins, DOMAIN txs)
             sOuts == SumFunctionOnSet(outs, DOMAIN txs)
  <1>1. InputsSpendable(L, b) /\ CoinbaseTotal(b) <= block_reward(L.height + 1) + Fees(L, b)
    BY DEF TransactionsValid
  <1>2. /\ S \subseteq DOMAIN L.utxos /\ NatOn(old, DOMAIN L.utxos)
        /\ sIns <= SumFunctionOnSet(old, S)
    BY Zenon, <1>1, SpentCovers
  <1>3. /\ IsFiniteSet(C) /\ NatOn(outs, DOMAIN txs) /\ NatOn(made, C) /\ CoinbaseTotal(b) \in Nat
        /\ SumFunctionOnSet(made, C) <= CoinbaseTotal(b) + sOuts
    BY Zenon, CreatedCovered
  <1>4. Fees(L, b) \in Nat /\ sIns = Fees(L, b) + sOuts
    BY <1>1, FeesBalance
  <1>5. Subsidy(L, b) \in Nat /\ CoinbaseTotal(b) <= Subsidy(L, b) + Fees(L, b)
    BY Zenon, <1>1, <1>3, <1>4, SubsidyCovers
  <1>6. IsFiniteSet(DOMAIN txs)
    BY BodyTyped
  <1>7. sOuts \in Nat
    BY <1>3, <1>6, SumNat
  <1>8. DOMAIN A = K \cup C /\ \A o \in K : A[o] = L.utxos[o]
    BY DEF ApplyUtxos
  <1>9. \A o \in C : A[o].value = OutputValue(b, o)
    BY DEF ApplyUtxos
  <1> HIDE DEF A, ins, outs, txs, C, S
  <1>10. IsFiniteSet(DOMAIN L.utxos \ S) /\ IsFiniteSet(K) /\ IsFiniteSet(S)
    BY <1>2, FS_Subset
  <1>11. IsFiniteSet(K \cup C)
    BY Zenon, <1>3, <1>10, FS_Union
  <1>12. (\A o \in K : new[o] = old[o]) /\ (\A o \in C : new[o] = made[o])
    BY <1>8, <1>9 DEF C
  <1> HIDE DEF new, old, made, sIns, sOuts
  <1>13. NatOn(old, K) /\ NatOn(old, S) /\ NatOn(old, DOMAIN L.utxos \ S)
    BY <1>2 DEF NatOn
  <1>14. NatOn(new, K) /\ NatOn(new, C) /\ NatOn(new, K \cup C)
    BY <1>3, <1>12, <1>13 DEF NatOn
  <1>15. SumFunctionOnSet(new, K \cup C) = SumFunctionOnSet(new, K) + SumFunctionOnSet(new, C)
    BY <1>11, <1>14, SumUnion
  <1>16. SumFunctionOnSet(new, K) = SumFunctionOnSet(old, K)
    BY Zenon, <1>10, <1>12, <1>14, SumEqual
  <1>17. SumFunctionOnSet(new, C) = SumFunctionOnSet(made, C)
    BY Zenon, <1>3, <1>12, <1>14, SumEqual
  <1>18. SumFunctionOnSet(old, K) <= SumFunctionOnSet(old, DOMAIN L.utxos \ S)
    <2> DEFINE id == [x \in K |-> x]
    <2>1. \A x \in K : id[x] \in DOMAIN L.utxos \ S /\ old[x] <= old[id[x]]
      BY <1>13 DEF NatOn
    <2>2. \A x, y \in K : id[x] = id[y] => x = y
      OBVIOUS
    <2> HIDE DEF id, K
    <2> QED BY <1>10, <1>13, <2>1, <2>2, SumInject
  <1>19. SumFunctionOnSet(old, DOMAIN L.utxos)
           = SumFunctionOnSet(old, DOMAIN L.utxos \ S) + SumFunctionOnSet(old, S)
    <2>1. DOMAIN L.utxos = (DOMAIN L.utxos \ S) \cup S /\ (DOMAIN L.utxos \ S) \cap S = {}
      BY <1>2
    <2> DEFINE R == DOMAIN L.utxos \ S
    <2>2. IsFiniteSet(R \cup S) /\ NatOn(old, R \cup S) /\ R \cap S = {}
      BY <1>2, <2>1
    <2> HIDE DEF R
    <2>3. SumFunctionOnSet(old, R \cup S) = SumFunctionOnSet(old, R) + SumFunctionOnSet(old, S)
      BY <2>2, SumUnion
    <2> QED BY Zenon, <2>1, <2>3 DEF R
  <1>20. /\ SumFunctionOnSet(old, K) \in Nat /\ SumFunctionOnSet(old, S) \in Nat
         /\ SumFunctionOnSet(old, DOMAIN L.utxos \ S) \in Nat /\ SumFunctionOnSet(made, C) \in Nat
    BY Zenon, <1>3, <1>10, <1>13, SumNat
  <1>21. UtxoTotal(L.utxos) = SumFunctionOnSet(old, DOMAIN L.utxos)
    BY DEF UtxoTotal, SumFunction, old
  <1>22. UtxoTotal(A) = SumFunctionOnSet(new, K \cup C)
    <2>1. UtxoTotal(A) = SumFunctionOnSet(new, DOMAIN A)
      BY DEF UtxoTotal, SumFunction, new
    <2> QED BY <1>8, <2>1
  <1> DEFINE k == SumFunctionOnSet(old, K)
             r == SumFunctionOnSet(old, DOMAIN L.utxos \ S)
             q == SumFunctionOnSet(old, S)
             m == SumFunctionOnSet(made, C)
  <1>23. UtxoTotal(L.utxos) = r + q /\ UtxoTotal(A) = k + m /\ k <= r /\ m <= CoinbaseTotal(b) + sOuts
         /\ sIns <= q
    BY Zenon, <1>2, <1>3, <1>15, <1>16, <1>17, <1>18, <1>19, <1>21, <1>22
  <1>24. k \in Nat /\ r \in Nat /\ q \in Nat /\ m \in Nat
    BY <1>20
  <1> HIDE DEF k, r, q, m
  <1>25. m <= q + Subsidy(L, b)
    BY <1>3, <1>4, <1>5, <1>7, <1>23, <1>24
  <1>26. UtxoTotal(L.utxos) \in Nat /\ UtxoTotal(A) \in Nat /\ UtxoTotal(A) <= UtxoTotal(L.utxos) + Subsidy(L, b)
    <2>1. Subsidy(L, b) \in Nat /\ k <= r /\ UtxoTotal(L.utxos) = r + q /\ UtxoTotal(A) = k + m
      BY Zenon, <1>5, <1>23
    <2>2. r + q \in Nat /\ k + m \in Nat /\ k + m <= (r + q) + Subsidy(L, b)
      BY Zenon, <1>24, <1>25, <2>1, TotalsAdd
    <2> QED BY Zenon, <2>1, <2>2
  <1>27. IsFiniteSet(DOMAIN A)
    BY <1>8, <1>11
  <1> QED BY <1>5, <1>26, <1>27 DEF A

(* The whole UTXO set is at most what was issued, and that within the cap. *)
Sound(L) ==
  /\ IsFiniteSet(DOMAIN L.utxos)
  /\ UtxoTotal(L.utxos) <= L.issued
  /\ L.issued <= MaxMoney

(* connect_genesis issues what the genesis coinbase pays.                  *)
LEMMA GenesisSound == Sound(GenesisLedger)
  <1> DEFINE U == [o \in CoinbaseOps(Genesis) |->
                     [value |-> OutputValue(Genesis, o), height |-> 0, coinbase |-> TRUE]]
             val == [o \in CreatedBy(Genesis) |-> OutputValue(Genesis, o)]
             none == [i \in DOMAIN Body[Genesis].txs |-> OutputTotal(Body[Genesis].txs[i].outputs)]
  <1>1. GenesisLedger.utxos = U /\ GenesisLedger.issued = CoinbaseTotal(Genesis)
    BY DEF GenesisLedger
  <1>2. /\ IsFiniteSet(CreatedBy(Genesis)) /\ CoinbaseTotal(Genesis) \in Nat /\ NatOn(val, CreatedBy(Genesis))
        /\ SumFunctionOnSet(val, CreatedBy(Genesis))
             <= CoinbaseTotal(Genesis) + SumFunctionOnSet(none, DOMAIN Body[Genesis].txs)
    BY Zenon, CreatedCovered, TreeAssumption
  <1>3. DOMAIN Body[Genesis].txs = {} /\ CoinbaseTotal(Genesis) <= MaxMoney
    <2>1. MaxMoney \in Nat /\ CoinbaseTotal(Genesis) \in 0..MaxMoney /\ Body[Genesis].txs = <<>>
      BY Zenon, BodyAssumption
    <2>2. DOMAIN Body[Genesis].txs = {}
      BY <2>1
    <2>3. CoinbaseTotal(Genesis) <= MaxMoney
      BY <2>1
    <2> QED BY <2>2, <2>3
  <1>4. CreatedBy(Genesis) = CoinbaseOps(Genesis)
    BY <1>3 DEF CreatedBy, Txs, Range
  <1> HIDE DEF none
  <1>5. SumFunctionOnSet(none, DOMAIN Body[Genesis].txs) = 0
    BY <1>3, SumEmpty
  <1>6. DOMAIN U = CoinbaseOps(Genesis) /\ [o \in DOMAIN U |-> U[o].value] = val
    BY <1>4
  <1> HIDE DEF U
  <1>7. UtxoTotal(U) = SumFunctionOnSet(val, CreatedBy(Genesis))
    BY <1>4, <1>6 DEF UtxoTotal, SumFunction
  <1> HIDE DEF val
  <1>8. UtxoTotal(U) <= CoinbaseTotal(Genesis)
    BY <1>2, <1>5, <1>7
  <1> QED BY <1>1, <1>2, <1>3, <1>4, <1>6, <1>8 DEF Sound

(* What is issued stays within the cap and covers what is held.            *)
LEMMA CapKept ==
  ASSUME NEW issued \in Nat, NEW held \in Nat, NEW now \in Nat, NEW s \in Nat, NEW max \in Nat,
         held <= issued, now <= held + s, s <= max - issued
  PROVE  issued + s <= max /\ now <= issued + s
  OBVIOUS

(* Connecting a valid block keeps a sound ledger sound.                    *)
LEMMA ApplySound ==
  ASSUME NEW b \in Block \ {Genesis}, IsLedger(LedgerAt[Parent[b]]), Sound(LedgerAt[Parent[b]]),
         ValidBlock(LedgerAt[Parent[b]], b)
  PROVE  Sound(LedgerAt[b])
  <1> DEFINE L == LedgerAt[Parent[b]]
  <1>1. LedgerAt[b] = ApplyBlock(L, b)
    BY ReplayAssumption
  <1>2. TransactionsValid(L, b) /\ block_reward(L.height + 1) \in Nat /\ MaxMoney \in Nat
    BY BodyAssumption DEF ValidBlock
  <1>3. IsLedger(L) /\ L.issued \in Nat /\ IsFiniteSet(DOMAIN L.utxos) /\ UtxoTotal(L.utxos) <= L.issued
    BY Zenon DEF IsLedger, Sound
  <1> HIDE DEF L
  <1>4. /\ Subsidy(L, b) \in Nat
        /\ IsFiniteSet(DOMAIN ApplyUtxos(L, b))
        /\ UtxoTotal(L.utxos) \in Nat
        /\ UtxoTotal(ApplyUtxos(L, b)) \in Nat
        /\ UtxoTotal(ApplyUtxos(L, b)) <= UtxoTotal(L.utxos) + Subsidy(L, b)
    BY Zenon, <1>2, <1>3, Conservation
  <1>5. Subsidy(L, b) <= MaxMoney - L.issued
    BY Zenon, <1>2 DEF TransactionsValid
  <1>6. /\ L.issued + Subsidy(L, b) <= MaxMoney
        /\ UtxoTotal(ApplyUtxos(L, b)) <= L.issued + Subsidy(L, b)
    BY Zenon, <1>2, <1>3, <1>4, <1>5, CapKept
  <1>7. /\ ApplyBlock(L, b).utxos = ApplyUtxos(L, b)
        /\ ApplyBlock(L, b).issued = L.issued + Subsidy(L, b)
    BY Zenon DEF ApplyBlock
  <1> QED BY Zenon, <1>1, <1>4, <1>6, <1>7 DEF Sound

(* Every ledger along a chain the node may hold is sound.                  *)
LEMMA ChainSound ==
  ASSUME NEW c, GoodChain(c)
  PROVE  \A i \in 1..Len(c) : Sound(LedgerAt[c[i]])
  <1> DEFINE S == {n \in Nat : n \in 1..Len(c) => Sound(LedgerAt[c[n]])}
  <1>1. /\ c \in Seq(Block) /\ Len(c) \in Nat /\ c[1] = Genesis
        /\ \A i \in 2..Len(c) : /\ c[i] # Genesis
                               /\ Parent[c[i]] = c[i - 1]
                               /\ ValidBlock(LedgerAt[c[i - 1]], c[i])
        /\ \A i \in 1..Len(c) : IsLedger(LedgerAt[c[i]]) /\ c[i] \in Block
    <2>1. /\ c \in Seq(Block) /\ c[1] = Genesis
          /\ \A i \in 2..Len(c) : /\ c[i] # Genesis
                                 /\ Parent[c[i]] = c[i - 1]
                                 /\ ValidBlock(LedgerAt[c[i - 1]], c[i])
      BY DEF GoodChain
    <2>2. \A i \in 1..Len(c) : IsLedger(LedgerAt[c[i]])
      BY DEF GoodChain, GoodLedger
    <2>3. Len(c) \in Nat /\ \A i \in 1..Len(c) : c[i] \in Block
      BY <2>1
    <2> QED BY <2>1, <2>2, <2>3
  <1>2. 1 \in S
    <2>1. LedgerAt[Genesis] = GenesisLedger
      BY ReplayAssumption
    <2> QED BY <1>1, <2>1, GenesisSound
  <1>3. ASSUME NEW n \in 1..(Len(c) - 1), n \in S PROVE n + 1 \in S
    <2>1. n \in Nat /\ n \in 1..Len(c) /\ n + 1 \in 2..Len(c) /\ (n + 1) - 1 = n
      BY <1>1
    <2>2. Sound(LedgerAt[c[n]])
      BY <1>3, <2>1
    <2> DEFINE b == c[n + 1]
    <2>3. b \in Block \ {Genesis} /\ Parent[b] = c[n] /\ ValidBlock(LedgerAt[Parent[b]], b)
      BY <1>1, <2>1
    <2>4. IsLedger(LedgerAt[Parent[b]]) /\ Sound(LedgerAt[Parent[b]])
      BY <1>1, <2>1, <2>2, <2>3
    <2> HIDE DEF b
    <2>5. Sound(LedgerAt[b])
      BY <2>3, <2>4, ApplySound
    <2> QED BY <2>1, <2>5 DEF b
  <1> HIDE DEF S
  <1>4. Linked(c)
    BY DEF GoodChain, Linked
  <1>5. 1..Len(c) \subseteq S
    BY <1>2, <1>3, <1>4, PlaceInduction
  <1> QED BY <1>5 DEF S

(* At every step of every call, connecting, failing or rolled back, the    *)
(* UTXO set holds no more than ChainState's issued counter says and the    *)
(* counter stays within MAX_MONEY (the checks of connect_block).           *)
THEOREM SupplyCorrect == Spec => []SupplyBounded
  <1>1. IInv => SupplyBounded
    <2> SUFFICES ASSUME IInv PROVE SupplyBounded
      OBVIOUS
    <2>1. GoodChain(chain) /\ ledger = LedgerAt[Tip]
      BY DEF IInv, CoreInv
    <2>2. Tip = chain[Len(chain)] /\ Len(chain) \in 1..Len(chain)
      BY <2>1 DEF Tip, GoodChain
    <2>3. Sound(ledger)
      BY <2>1, <2>2, ChainSound
    <2> QED BY <2>3 DEF Sound, SupplyBounded
  <1> QED BY <1>1, Invariance, PTL
=============================================================================
