---------------------------- MODULE MCForkChoice ----------------------------
(***************************************************************************)
(* Two nodes and the block tree G-{A1-A2-A3, B1-{B2-B3, C2}}, in which all *)
(* ranks are equal, as the two blocks one proposer signs for a slot, or    *)
(* blocks without an assignment, are.                                      *)
(***************************************************************************)
EXTENDS ForkChoice, TLC

CONSTANTS n1, n2

MCNode == {n1, n2}

NodeSymmetry == Permutations(MCNode)

MCBlock == {"G", "A1", "A2", "A3", "B1", "B2", "B3", "C2"}

MCParent ==
  [b \in MCBlock \ {"G"} |->
     CASE b \in {"A1", "B1"} -> "G"
       [] b = "A2" -> "A1"
       [] b = "A3" -> "A2"
       [] b \in {"B2", "C2"} -> "B1"
       [] b = "B3" -> "B2"]

HashOf == [G |-> 0, A1 |-> 2, A2 |-> 6, A3 |-> 1, B1 |-> 4, B2 |-> 3, B3 |-> 7, C2 |-> 5]

TiedBody == [b \in MCBlock |-> [work |-> 1, hash |-> HashOf[b], rank |-> 0]]

Never == 100
=============================================================================
