--------------------------- MODULE MCChainHardened --------------------------
(***************************************************************************)
(* Hardened fork choice.  A1 registers k1 and k2; A3 carries commit votes  *)
(* of both and so finalizes A2.  B3 outranks A3 without a genuine quorum,  *)
(* and C2 outranks A2.                                                     *)
(***************************************************************************)
EXTENDS MCBlocks

H(rank, hash, voters, cb) ==
  [B(1, <<>>, <<Out(cb, 1)>>) EXCEPT
     !.rank = rank, !.hash = hash, !.proposers = {"k1"}, !.roles = {"k2"}, !.voters = voters]

MCBlock == {"G", "A1", "A2", "A3", "A4", "B3", "C2"}

MCParent ==
  [b \in MCBlock \ {"G"} |->
     CASE b = "A1" -> "G"
       [] b \in {"A2", "C2"} -> "A1"
       [] b \in {"A3", "B3"} -> "A2"
       [] b = "A4" -> "A3"]

MCBody ==
  [b \in MCBlock |->
     CASE b = "G"  -> B(1, <<>>, <<Out("g", 4)>>)
       [] b = "A1" -> H(1, 1, {}, "cA1")
       [] b = "A2" -> H(2, 2, {"k1"}, "cA2")
       [] b = "A3" -> H(2, 3, {"k1", "k2"}, "cA3")
       [] b = "A4" -> H(1, 4, {"k1"}, "cA4")
       [] b = "B3" -> H(1, 5, {"k1"}, "cB3")
       [] b = "C2" -> H(1, 6, {"k1"}, "cC2")]

MCOutPoint == {"g", "cA1", "cA2", "cA3", "cA4", "cB3", "cC2"}

MCKey == {"k1", "k2"}
=============================================================================
