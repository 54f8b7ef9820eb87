----------------------------- MODULE MCChainPow -----------------------------
(***************************************************************************)
(* A proof-of-work fork.  A1-A2 and B1-B2-B3 are valid branches from       *)
(* genesis; both spend the genesis output, on different sides.  X2 (on B1) *)
(* spends an output that does not exist, so the heavier B1-X2-X3 fails     *)
(* after B1 has connected and must be rolled back.  B4 would issue more    *)
(* than MaxMoney, N1 has no proof of work and U2 contradicts an anchor.    *)
(***************************************************************************)
EXTENDS MCBlocks

MCBlock == {"G", "A1", "A2", "B1", "B2", "B3", "B4", "X2", "X3", "N1", "U2"}

MCParent ==
  [b \in MCBlock \ {"G"} |->
     CASE b \in {"A1", "B1"} -> "G"
       [] b \in {"A2", "N1", "U2"} -> "A1"
       [] b \in {"B2", "X2"} -> "B1"
       [] b = "B3" -> "B2"
       [] b = "B4" -> "B3"
       [] b = "X3" -> "X2"]

MCBody ==
  [b \in MCBlock |->
     CASE b = "G"  -> B(1, <<>>, <<Out("g", 4)>>)
       [] b = "A1" -> B(1, <<Tx(<<"g">>, <<Out("a", 3)>>)>>, <<Out("cA1", 5)>>)
       [] b = "A2" -> B(1, <<Tx(<<"a", "cA1">>, <<Out("a2", 8)>>)>>, <<Out("cA2", 4)>>)
       [] b = "B1" -> B(1, <<Tx(<<"g">>, <<Out("a", 3)>>)>>, <<Out("cB1", 4)>>)
       [] b = "B2" -> B(1, <<Tx(<<"a">>, <<Out("b2", 2), Out("b2x", 1)>>)>>, <<Out("cB2", 4)>>)
       [] b = "B3" -> B(1, <<Tx(<<"cB1">>, <<Out("b3", 4)>>)>>, <<Out("cB3", 2)>>)
       [] b = "B4" -> B(1, <<>>, <<Out("cB4", 2)>>)
       [] b = "X2" -> B(1, <<Tx(<<"a2">>, <<Out("x", 1)>>)>>, <<Out("cX2", 4)>>)
       [] b = "X3" -> B(1, <<>>, <<Out("cX3", 2)>>)
       [] b = "N1" -> [B(1, <<>>, <<Out("cN1", 4)>>) EXCEPT !.pow = FALSE]
       [] b = "U2" -> [B(1, <<>>, <<Out("cU2", 4)>>) EXCEPT !.anchored = FALSE]]

MCOutPoint ==
  {"g", "a", "a2", "b2", "b2x", "b3", "x", "cA1", "cA2", "cB1", "cB2", "cB3", "cB4", "cX2", "cX3", "cN1", "cU2"}

=============================================================================
