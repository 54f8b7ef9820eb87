------------------------------- MODULE Blocks -------------------------------
(***************************************************************************)
(* The blocks the node may ever meet: a finite tree rooted at the genesis  *)
(* block.  Parent[b] is the block b's header names as prev_hash and Body[b]*)
(* what the block's bytes say.  Hashes, signatures, VRF proofs and         *)
(* proof-of-work arithmetic do not appear; Body records their verdicts:    *)
(*   pow      the header meets the target it states (or its AuxPoW does)   *)
(*   anchored the block agrees with the signed anchor file                 *)
(*   context  the verdict of the connect_block checks that depend only on  *)
(*            the block and its ancestors and are not modelled one by one  *)
(*   work, hash, rank   block work, order of its hash, proposer rank       *)
(***************************************************************************)
EXTENDS Integers, Sequences, FiniteSets

CONSTANTS Block, Genesis, Parent, Body

(* A gate is on from its activation height.  Mainnet's hard-off is a height*)
(* no chain reaches.                                                       *)
ActiveAt(gate, h) == h >= gate

(* A map as the code's HashMaps: insert, and remove.                       *)
Insert(f, k, v) == [x \in DOMAIN f \cup {k} |-> IF x = k THEN v ELSE f[x]]

Delete(f, k) == [x \in DOMAIN f \ {k} |-> f[x]]

(* A header names one parent, and hashes make following parents end in     *)
(* genesis: no set of other blocks contains the parents of all its members.*)
ASSUME TreeAssumption ==
  /\ Genesis \in Block
  /\ Parent \in [Block \ {Genesis} -> Block]
  /\ \A S \in SUBSET (Block \ {Genesis}) : S # {} => \E b \in S : Parent[b] \notin S

(* Work is a natural number (BigUint).                                     *)
ASSUME WorkAssumption == \A b \in Block : Body[b].work \in Nat

(* The chain from genesis to b, and the work on it.                        *)
Path[b \in Block] == IF b = Genesis THEN <<b>> ELSE Append(Path[Parent[b]], b)

TotalWork[b \in Block] ==
  IF b = Genesis THEN Body[b].work ELSE TotalWork[Parent[b]] + Body[b].work

Height(b) == Len(Path[b]) - 1

(* The block of the chain ending in t at height h.                         *)
At(t, h) == Path[t][h + 1]
=============================================================================
