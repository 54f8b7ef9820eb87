------------------------------ MODULE MCMempool ------------------------------
(***************************************************************************)
(* A pool of two.  pay and rival spend the same coin, claim spends an      *)
(* output of pay without a fee, and batch carries the BTC header after the *)
(* relay's tip, without a fee as well.                                     *)
(***************************************************************************)
EXTENDS Mempool

MCTx == {"pay", "rival", "claim", "batch"}
MCInput ==
  [t \in MCTx |-> CASE t \in {"pay", "rival"} -> {"c1"} [] t = "claim" -> {"o1"} [] OTHER -> {"c2"}]
MCOutput == [t \in MCTx |-> IF t = "pay" THEN {"o1"} ELSE {}]
MCFee == [t \in MCTx |-> CASE t = "pay" -> 6 [] t = "rival" -> 4 [] OTHER -> 0]
MCSize == [t \in MCTx |-> IF t = "pay" THEN 2 ELSE 1]
MCClass == [t \in MCTx |-> IF MCFee[t] = 0 THEN "ZeroFeeAllowed" ELSE "Standard"]
MCBatch == [t \in MCTx |-> IF t = "batch" THEN {[ext |-> "btc", prev |-> 1, last |-> 2]} ELSE {}]
MCBaseTip == [e \in {"btc"} |-> 1]
=============================================================================
