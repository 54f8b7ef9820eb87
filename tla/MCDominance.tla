---------------------------- MODULE MCDominance ----------------------------
(***************************************************************************)
(* Two nodes on the tree G-R1-{A2-A3-A4-A5, B2-{B3-B4, C3, X3}} in which   *)
(* siblings differ in rank, as blocks of different proposers do.  B2       *)
(* outranks A2 and so displaces up to four blocks, one more than the kept  *)
(* windows allow for; C3 displaces two; X3 outranks both and is invalid.   *)
(***************************************************************************)
EXTENDS Dominance, TLC

CONSTANTS n1, n2

MCNode == {n1, n2}

NodeSymmetry == Permutations(MCNode)

MCBlock == {"G", "R1", "A2", "A3", "A4", "A5", "B2", "B3", "B4", "C3", "X3"}

MCParent ==
  [b \in MCBlock \ {"G"} |->
     CASE b = "R1" -> "G"
       [] b \in {"A2", "B2"} -> "R1"
       [] b = "A3" -> "A2"
       [] b = "A4" -> "A3"
       [] b = "A5" -> "A4"
       [] b \in {"B3", "C3", "X3"} -> "B2"
       [] b = "B4" -> "B3"]

RankOf == [G |-> 0, R1 |-> 1, A2 |-> 2, A3 |-> 1, A4 |-> 1, A5 |-> 1,
           B2 |-> 1, B3 |-> 3, B4 |-> 1, C3 |-> 2, X3 |-> 1]

RankedBody == [b \in MCBlock |-> [work |-> 1, hash |-> 0, rank |-> RankOf[b]]]

(* B3 has no receipts.                                                     *)
MCReward ==
  [b \in MCBlock |->
     CASE b \in {"R1", "B2"} -> [m \in {"m1"} |-> 2]
       [] b \in {"A2", "A4", "C3"} -> [m \in {"m1", "m2"} |-> IF m = "m1" THEN 1 ELSE 3]
       [] b \in {"A3", "A5", "B4", "X3"} -> [m \in {"m2"} |-> 1]
       [] OTHER -> [m \in {} |-> 0]]

MCMiner == {"m1", "m2"}

Never == 100
=============================================================================
