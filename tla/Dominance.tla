----------------------------- MODULE Dominance -----------------------------
(***************************************************************************)
(* Anti-domination weights.  Every node credits the rewards of its main    *)
(* chain's blocks to their miners, by windows of heights (the state        *)
(* PersistentDominance of src/poawx_dominance.rs), takes them back when a  *)
(* block is disconnected, and forgets old windows.  A block must carry the *)
(* weights that follow from the recent windows, so nodes on the same block *)
(* must agree on these, whatever they reorganised, failed to reorganise or *)
(* replayed at a restart before.  A node in the middle of a reorganisation *)
(* has the weights it checks the next block of the new branch against.     *)
(***************************************************************************)
EXTENDS ForkChoice, Functions

CONSTANTS
  Invalid,           \* blocks that fail to connect
  Miner,
  Reward,            \* Reward[b][m]: what the receipts of b credit m with
  DominanceHeight,   \* activation height
  WindowLen, Lookback,
  PruneMargin        \* PRUNE_MARGIN_WINDOWS

VARIABLES
  at,        \* at[n]: the block n's main chain ends with, inside a reorganisation too
  goal,      \* goal[n]: where the running reorganisation connects or restores to
  buckets,   \* buckets[n]: reward by miner and window; an absent bucket is 0
  peak       \* history: the greatest height n credited since it started

dvars == <<known, tip, at, goal, buckets, peak>>

ASSUME WindowAssumption == WindowLen \in Nat \ {0} /\ Lookback \in Nat \ {0} /\ PruneMargin \in Nat

(* Amounts are u64; with the money supply bounded their sums do not        *)
(* saturate.                                                               *)
ASSUME RewardAssumption == \A b \in Block : \A m \in DOMAIN Reward[b] : Reward[b][m] \in Nat

ASSUME InvalidAssumption == Invalid \subseteq Block \ {Genesis}

SaturatingSub(a, b) == IF a > b THEN a - b ELSE 0

window_id(h) == h \div WindowLen

(* The windows in which a block can be credited.                           *)
Windows == {window_id(Height(b)) : b \in Block}

NoBuckets == [k \in Miner \X Windows |-> 0]

(* The windows counted as recent for a block at height h.                  *)
recent_range(h) == SaturatingSub(window_id(h), Lookback - 1)..window_id(h)

recent_total(d, m, h) ==
  FoldFunction(+, 0, [w \in recent_range(h) \cap Windows |-> d[<<m, w>>]])

(* Faulty variant: only the recent windows are kept.                       *)
PruneAll(d, h) ==
  [k \in DOMAIN d |-> IF k[2] < SaturatingSub(window_id(h), Lookback - 1) THEN 0 ELSE d[k]]

prune(d, h) ==
  LET keep_floor == SaturatingSub(window_id(h), Lookback - 1 + PruneMargin)
  IN  [k \in DOMAIN d |-> IF k[2] < keep_floor THEN 0 ELSE d[k]]

(* What b credits to the bucket k.                                         *)
Credit(b, k) ==
  IF k[2] = window_id(Height(b)) /\ k[1] \in DOMAIN Reward[b] THEN Reward[b][k[1]] ELSE 0

Credits(b) == ActiveAt(DominanceHeight, Height(b)) /\ DOMAIN Reward[b] # {}

apply_block_dominance(d, b) ==
  IF Credits(b) THEN prune([k \in DOMAIN d |-> d[k] + Credit(b, k)], Height(b)) ELSE d

revert_block_dominance(d, b) ==
  IF Credits(b) THEN [k \in DOMAIN d |-> SaturatingSub(d[k], Credit(b, k))] ELSE d

(* What start-up computes when it replays the chain of t.                  *)
Replayed[t \in Block] ==
  IF t = Genesis THEN NoBuckets ELSE apply_block_dominance(Replayed[Parent[t]], t)

DominanceInit ==
  /\ Init
  /\ at = [n \in Node |-> Genesis]
  /\ goal = [n \in Node |-> Genesis]
  /\ buckets = [n \in Node |-> NoBuckets]
  /\ peak = [n \in Node |-> 0]

Idle(n) == at[n] = tip[n] /\ goal[n] = tip[n]

OnPath(b, t) == b \in Range(Path[t])

(* process_block accepts b: it is stored beside the main chain, or it is   *)
(* better and its branch will connect.                                     *)
Accept(n, b) ==
  /\ Idle(n)
  /\ Learn(n, b)
  /\ tip'[n] = b => \A x \in Invalid : ~OnPath(x, b)
  /\ goal' = [goal EXCEPT ![n] = tip'[n]]
  /\ UNCHANGED <<at, buckets, peak>>

(* The branch of b is better and a block x of it fails to connect: the     *)
(* branch is connected up to x.                                            *)
StartFailing(n, b) ==
  /\ Idle(n)
  /\ b \notin known[n] /\ Parent[b] \in known[n] /\ Parent[b] # tip[n]
  /\ Better(b, tip[n])
  /\ \E x \in Invalid :
       /\ OnPath(x, b) /\ \A y \in Invalid \ {x} : OnPath(y, b) => Height(x) < Height(y)
       /\ goal' = [goal EXCEPT ![n] = Parent[x]]
  /\ UNCHANGED <<known, tip, at, buckets, peak>>

(* ... and the old branch is restored.                                     *)
TurnBack(n) ==
  /\ at[n] = goal[n] /\ goal[n] # tip[n]
  /\ goal' = [goal EXCEPT ![n] = tip[n]]
  /\ UNCHANGED <<known, tip, at, buckets, peak>>

disconnect_tip_block(n) ==
  /\ ~OnPath(at[n], goal[n])
  /\ at' = [at EXCEPT ![n] = Parent[@]]
  /\ buckets' = [buckets EXCEPT ![n] = revert_block_dominance(@, at[n])]
  /\ UNCHANGED <<known, tip, goal, peak>>

connect_block(n, b) ==
  /\ OnPath(b, goal[n]) /\ Parent[b] = at[n]
  /\ at' = [at EXCEPT ![n] = b]
  /\ buckets' = [buckets EXCEPT ![n] = apply_block_dominance(@, b)]
  /\ peak' = [peak EXCEPT ![n] = IF @ < Height(b) THEN Height(b) ELSE @]
  /\ UNCHANGED <<known, tip, goal>>

(* Start-up replays the main chain; side blocks are not on disk.           *)
Restart(n) ==
  /\ Idle(n)
  /\ known' = [known EXCEPT ![n] = Range(Path[tip[n]])]
  /\ buckets' = [buckets EXCEPT ![n] = Replayed[tip[n]]]
  /\ peak' = [peak EXCEPT ![n] = Height(tip[n])]
  /\ UNCHANGED <<tip, at, goal>>

DominanceNext ==
  \E n \in Node :
    \/ \E b \in Block \ {Genesis} : Accept(n, b) \/ StartFailing(n, b) \/ connect_block(n, b)
    \/ TurnBack(n)
    \/ disconnect_tip_block(n)
    \/ Restart(n)

DominanceSpec == DominanceInit /\ [][DominanceNext]_dvars

-----------------------------------------------------------------------------
(* The next block's weights: as long as the end of a node's chain is not   *)
(* more than the margin of prune below the greatest height it has credited,*)
(* its recent totals are those of a replay of that chain.  So any two such *)
(* nodes on one block accept the same weights for the next one             *)
(* (validate_block_dominance_weights): one that has just restarted, one    *)
(* that came back from a reorganisation and one that is inside one.        *)
WeightsAreReplay ==
  \A n \in Node :
    LET h == Height(at[n]) + 1
    IN  window_id(peak[n]) - window_id(h) <= PruneMargin =>
          \A m \in Miner : recent_total(buckets[n], m, h) = recent_total(Replayed[at[n]], m, h)
=============================================================================
