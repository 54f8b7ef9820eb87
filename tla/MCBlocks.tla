------------------------------ MODULE MCBlocks ------------------------------
(***************************************************************************)
(* What the block trees of the MC modules are built from.                  *)
(***************************************************************************)
EXTENDS ChainRefinement

B(w, txs, cb) ==
  [work |-> w, hash |-> 0, rank |-> 0, pow |-> TRUE, anchored |-> TRUE, context |-> TRUE,
   receipts |-> FALSE, txs |-> txs, coinbase |-> cb, proposers |-> {}, roles |-> {},
   activations |-> <<>>, announces |-> <<>>, offences |-> <<>>, voters |-> {}]

Tx(ins, outs) == [inputs |-> ins, outputs |-> outs, signed |-> TRUE]

Out(o, v) == [op |-> o, value |-> v]

MCLedgerAt[b \in Block] ==
  IF b = Genesis THEN GenesisLedger
  ELSE LET L == MCLedgerAt[Parent[b]]
       IN  IF ValidBlock(L, b) THEN ApplyBlock(L, b) ELSE L

MCNone == {}

Never == 100
=============================================================================
