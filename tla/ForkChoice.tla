----------------------------- MODULE ForkChoice -----------------------------
(***************************************************************************)
(* What the chain engine promises about the tip it follows, without stores,*)
(* orphans, ledgers or rollbacks: a node learns blocks parent first, and   *)
(* its tip moves to a new block exactly when that block extends the tip or *)
(* its branch is the better one.  Blocks a node refuses are never learned. *)
(* Several nodes may learn the same blocks in different orders.            *)
(***************************************************************************)
EXTENDS Blocks

CONSTANTS Node, VrfHeight, HardeningHeight

VARIABLES
  known,   \* known[n]: the blocks node n has accepted
  tip      \* tip[n]: the block its main chain ends with

vars == <<known, tip>>

(* Faulty variant: the longer chain wins.                                  *)
Longer(b, t) == Len(Path[b]) > Len(Path[t])

(* The branch of b against that of t, compared at the first height where   *)
(* the proposer ranks differ (up to the common ancestor the blocks are the *)
(* same); on a tie the lower tip hash wins under hardening and the longer  *)
(* branch otherwise.                                                       *)
RankBetter(b, t) ==
  LET rank(x, i) == Body[Path[x][i]].rank
      differ == {i \in DOMAIN Path[b] \cap DOMAIN Path[t] : rank(b, i) # rank(t, i)}
  IN  IF differ # {} THEN \E i \in differ : /\ \A j \in differ : i <= j
                                          /\ rank(b, i) < rank(t, i)
      ELSE IF ActiveAt(HardeningHeight, Height(t)) THEN Body[b].hash < Body[t].hash
      ELSE Len(Path[b]) > Len(Path[t])

Better(b, t) ==
  IF ActiveAt(VrfHeight, Height(b)) THEN RankBetter(b, t) ELSE TotalWork[b] > TotalWork[t]

Init ==
  /\ known = [n \in Node |-> {Genesis}]
  /\ tip = [n \in Node |-> Genesis]

(* Faulty variant: the tip is only ever extended.                          *)
LearnExtending(n, b) ==
  /\ b \notin known[n]
  /\ Parent[b] \in known[n]
  /\ known' = [known EXCEPT ![n] = @ \cup {b}]
  /\ tip' = [tip EXCEPT ![n] = IF Parent[b] = @ THEN b ELSE @]

Learn(n, b) ==
  /\ b \notin known[n]
  /\ Parent[b] \in known[n]
  /\ known' = [known EXCEPT ![n] = @ \cup {b}]
  /\ tip' = [tip EXCEPT ![n] = IF Parent[b] = @ \/ Better(b, @) THEN b ELSE @]

Next == \E n \in Node, b \in Block \ {Genesis} : Learn(n, b)

Spec == Init /\ [][Next]_vars

-----------------------------------------------------------------------------
(* Two nodes that accepted the same blocks follow the same tip, whatever   *)
(* the order in which the blocks reached them.                             *)
Convergence == \A n, m \in Node : known[n] = known[m] => tip[n] = tip[m]

(* No block a node knows would win against its tip if it arrived again.    *)
Settled == \A n \in Node : \A b \in known[n] : ~Better(b, tip[n])
=============================================================================
