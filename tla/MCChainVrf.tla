----------------------------- MODULE MCChainVrf -----------------------------
(***************************************************************************)
(* A fork decided by proposer rank (lower is better), with registrations,  *)
(* fraud proofs and the finality watermark.  B1 outranks A1, so one block  *)
(* displaces A1-A2.  On B1, C2 outranks B2.  C2 activates the key B1       *)
(* announced; D2 outranks C2 but skips the forced drain, so D2 and its     *)
(* child D3 are invalid.  C3 slashes the offence that A2 slashed on its    *)
(* branch.  E3 is C3's sibling of better rank.  F2 outranks C2 and comes   *)
(* too late once a child of C2 has finalized it.                           *)
(***************************************************************************)
EXTENDS MCBlocks

V(rank, hash, proposer, acts, anns, offs, voters, cb) ==
  [B(1, <<>>, <<Out(cb, 1)>>) EXCEPT
     !.rank = rank, !.hash = hash, !.proposers = {proposer}, !.activations = acts,
     !.announces = anns, !.offences = offs, !.voters = voters, !.receipts = TRUE]

MCBlock == {"G", "A1", "A2", "B1", "B2", "C2", "D2", "D3", "C3", "E3", "F2"}

MCParent ==
  [b \in MCBlock \ {"G"} |->
     CASE b \in {"A1", "B1"} -> "G"
       [] b = "A2" -> "A1"
       [] b \in {"B2", "C2", "D2", "F2"} -> "B1"
       [] b = "D3" -> "D2"
       [] b \in {"C3", "E3"} -> "C2"]

MCBody ==
  [b \in MCBlock |->
     CASE b = "G"  -> B(1, <<>>, <<Out("g", 4)>>)
       [] b = "A1" -> V(3, 1, "k1", <<>>, <<"k2">>, <<>>, {}, "cA1")
       [] b = "A2" -> V(1, 2, "k1", <<"k2">>, <<>>, <<"o">>, {"k1", "k2"}, "cA2")
       [] b = "B1" -> V(2, 3, "k2", <<>>, <<"k1">>, <<>>, {}, "cB1")
       [] b = "B2" -> V(3, 4, "k2", <<"k1">>, <<>>, <<>>, {"k1", "k2"}, "cB2")
       [] b = "C2" -> V(2, 5, "k2", <<"k1">>, <<"k3">>, <<>>, {"k2"}, "cC2")
       [] b = "D2" -> V(1, 6, "k2", <<>>, <<>>, <<>>, {"k2"}, "cD2")
       [] b = "D3" -> V(1, 7, "k2", <<"k1">>, <<>>, <<>>, {"k2"}, "cD3")
       [] b = "C3" -> V(2, 8, "k1", <<"k3">>, <<>>, <<"o">>, {"k1", "k2"}, "cC3")
       [] b = "E3" -> V(1, 9, "k2", <<"k3">>, <<"k1">>, <<>>, {"k2"}, "cE3")
       [] b = "F2" -> V(1, 10, "k2", <<"k1">>, <<>>, <<>>, {"k2"}, "cF2")]

MCOutPoint == {"g", "cA1", "cA2", "cB1", "cB2", "cC2", "cD2", "cD3", "cC3", "cE3", "cF2"}

MCKey == {"k1", "k2", "k3"}

MCOffence == {"o"}
=============================================================================
