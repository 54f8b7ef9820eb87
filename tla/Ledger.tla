------------------------------- MODULE Ledger -------------------------------
(***************************************************************************)
(* What connecting and disconnecting one block does to the state that      *)
(* ChainState (src/chain.rs) derives from the main chain: the UTXO set,    *)
(* and the issued supply.  Pure operators on a ledger record L; the state  *)
(* machine that applies them is module ChainState.  Whether a transaction's*)
(* scripts and signatures verify is its field signed.  Blocks that carry a *)
(* BTC/LTC header batch or a swap claim are outside this module.           *)
(***************************************************************************)
EXTENDS Blocks, FiniteSetsExt

CONSTANTS
  OutPoint,                 \* transaction outputs
  MaxMoney, CoinbaseMaturity,
  MaxI64,                   \* i64::MAX
  InitialSubsidy, HalvingV1, HalvingV2,
  BlockTimeV2Height         \* fork height of the second halving schedule

(***************************************************************************)
(* Emission (src/constants.rs).                                            *)
(***************************************************************************)
halving_count(h) ==
  IF h > BlockTimeV2Height
    THEN (IF BlockTimeV2Height = 0 THEN 0 ELSE (BlockTimeV2Height - 1) \div HalvingV1)
           + (h - BlockTimeV2Height - 1) \div HalvingV2
    ELSE (h - 1) \div HalvingV1

block_reward(h) ==
  IF h = 0 \/ halving_count(h) >= 64 THEN 0 ELSE InitialSubsidy \div 2^halving_count(h)

(***************************************************************************)
(* Transactions.  Txs(b) are the transactions after the coinbase, each a   *)
(* record [inputs, outputs, signed] where inputs is a sequence of outpoints*)
(* and outputs a sequence of [op, value]; the coinbase has outputs only.   *)
(***************************************************************************)
Entry == [value : Nat, height : Nat, coinbase : BOOLEAN]

TxOutput == [op : OutPoint, value : Nat]

Transaction == [inputs : Seq(OutPoint), outputs : Seq(TxOutput), signed : BOOLEAN]

Txs(b) == Range(Body[b].txs)

OutputTotal(outputs) == SumFunction([i \in DOMAIN outputs |-> outputs[i].value])

InputTotal(utxos, inputs) == SumFunction([i \in DOMAIN inputs |-> utxos[inputs[i]].value])

(* All that a UTXO set holds.                                              *)
UtxoTotal(utxos) == SumFunction([o \in DOMAIN utxos |-> utxos[o].value])

SpentBy(b) == UNION {Range(t.inputs) : t \in Txs(b)}

CoinbaseOps(b) == {o.op : o \in Range(Body[b].coinbase)}

CreatedBy(b) == CoinbaseOps(b) \cup {o.op : o \in UNION {Range(t.outputs) : t \in Txs(b)}}

(* The value an output of b carries; every output of a block has its own   *)
(* outpoint.                                                               *)
OutputValue(b, op) ==
  (CHOOSE o \in Range(Body[b].coinbase) \cup UNION {Range(t.outputs) : t \in Txs(b)} :
     o.op = op).value

Fees(L, b) ==
  LET txs == Body[b].txs
  IN  SumFunction([i \in DOMAIN txs |->
                     InputTotal(L.utxos, txs[i].inputs) - OutputTotal(txs[i].outputs)])

CoinbaseTotal(b) == OutputTotal(Body[b].coinbase)

(* The code adds up a transaction's outputs in an i64, unchecked; the model*)
(* adds in Nat, and speaks of blocks whose sums fit.                       *)
ASSUME WidthAssumption ==
  \A b \in Block : \A t \in Txs(b) : OutputTotal(t.outputs) <= MaxI64

(* No outpoint is spent twice within the block.                            *)
NoDoubleSpend(b) ==
  LET txs == Body[b].txs
  IN  \A i, j \in DOMAIN txs : \A k \in DOMAIN txs[i].inputs, l \in DOMAIN txs[j].inputs :
        txs[i].inputs[k] = txs[j].inputs[l] => i = j /\ k = l

(* validate_transaction_internal over the whole block: inputs are looked   *)
(* up in the UTXO set as it was before the block, so a transaction cannot  *)
(* spend an output of the same block.                                      *)
InputsSpendable(L, b) ==
  /\ NoDoubleSpend(b)
  /\ \A op \in SpentBy(b) :
       /\ op \in DOMAIN L.utxos
       /\ L.utxos[op].coinbase => L.height + 1 - L.utxos[op].height >= CoinbaseMaturity
  /\ \A t \in Txs(b) : t.signed /\ InputTotal(L.utxos, t.inputs) >= OutputTotal(t.outputs)

(* The part of the coinbase not paid for by fees, capped at the reward.    *)
Subsidy(L, b) ==
  LET total     == CoinbaseTotal(b)
      available == IF Fees(L, b) < total THEN Fees(L, b) ELSE total
      minted    == IF total >= available THEN total - available ELSE 0
      reward    == block_reward(L.height + 1)
  IN  IF minted < reward THEN minted ELSE reward

(* Faulty variant: the supply cap is not enforced.                         *)
TransactionsValidUncapped(L, b) ==
  /\ Body[b].coinbase # <<>>
  /\ InputsSpendable(L, b)
  /\ Fees(L, b) <= MaxMoney
  /\ CoinbaseTotal(b) <= MaxMoney
  /\ CoinbaseTotal(b) <= block_reward(L.height + 1) + Fees(L, b)

TransactionsValid(L, b) ==
  /\ Body[b].coinbase # <<>>
  /\ InputsSpendable(L, b)
  /\ Fees(L, b) <= MaxMoney
  /\ CoinbaseTotal(b) <= MaxMoney
  /\ CoinbaseTotal(b) <= block_reward(L.height + 1) + Fees(L, b)
  /\ Subsidy(L, b) <= MaxMoney - L.issued

(* The UTXO set after the block: inputs removed, then outputs inserted,    *)
(* an insertion replacing an entry already under the same outpoint.        *)
ApplyUtxos(L, b) ==
  [op \in (DOMAIN L.utxos \ SpentBy(b)) \cup CreatedBy(b) |->
     IF op \in CreatedBy(b)
       THEN [value |-> OutputValue(b, op), height |-> L.height + 1,
             coinbase |-> op \in CoinbaseOps(b)]
       ELSE L.utxos[op]]

(* BlockUndo: what disconnecting b later needs.                            *)
BlockUndo(L, b) ==
  [spent   |-> [op \in SpentBy(b) \cap DOMAIN L.utxos |-> L.utxos[op]],
   created |-> CreatedBy(b),
   subsidy_created |-> Subsidy(L, b)]

(* Faulty variant: the consumed outputs are not put back.                  *)
RevertUtxosLosing(utxos, undo) == [op \in DOMAIN utxos \ undo.created |-> utxos[op]]

(* disconnect_tip_block's loops: created outpoints removed, spent ones     *)
(* re-inserted.                                                            *)
RevertUtxos(utxos, undo) ==
  [op \in (DOMAIN utxos \ undo.created) \cup DOMAIN undo.spent |->
     IF op \in DOMAIN undo.spent THEN undo.spent[op] ELSE utxos[op]]

(* Faulty variant: subtraction below zero.                                 *)
PlainSub(x, y) == x - y

SaturatingSub(x, y) == IF x >= y THEN x - y ELSE 0
=============================================================================
