------------------------------- MODULE Replay -------------------------------
(***************************************************************************)
(* One block connected to or disconnected from the ledger as a whole       *)
(* (connect_block and disconnect_tip_block of src/chain.rs without the     *)
(* chain, store and watermark), and the replay of a chain from genesis that*)
(* the live ledger is compared with.                                       *)
(***************************************************************************)
EXTENDS Ledger, Poawx

CONSTANT LedgerAt           \* LedgerAt[b]: replay of b's ancestry, b included

GenesisLedger ==
  [height |-> 0, issued |-> CoinbaseTotal(Genesis), work |-> Body[Genesis].work,
   utxos |-> [o \in CoinbaseOps(Genesis) |->
                [value |-> OutputValue(Genesis, o), height |-> 0, coinbase |-> TRUE]],
   registry |-> {}, queue |-> <<>>, offences |-> {}]

(* The checks of connect_block on a block whose parent is the tip of L.    *)
ValidBlock(L, b) ==
  /\ Body[b].pow
  /\ Body[b].context
  /\ PoawxValid(L, b)
  /\ TransactionsValid(L, b)

ApplyBlock(L, b) ==
  [height |-> L.height + 1, issued |-> L.issued + Subsidy(L, b), work |-> L.work + Body[b].work,
   utxos |-> ApplyUtxos(L, b), registry |-> ApplyRegistry(L, b), queue |-> ApplyQueue(L, b),
   offences |-> ApplyOffences(L, b)]

RevertBlock(L, b, u) ==
  [height |-> L.height - 1, issued |-> SaturatingSub(L.issued, u.subsidy_created),
   work |-> SaturatingSub(L.work, Body[b].work), utxos |-> RevertUtxos(L.utxos, u),
   registry |-> RevertRegistry(L.registry, b, L.height), queue |-> RevertQueue(L.queue, b, L.height),
   offences |-> RevertOffences(L.offences, b, L.height)]

(* LedgerAt is what a node that starts from genesis computes for b's       *)
(* ancestry: the reference the live ledger is compared with.               *)
ASSUME ReplayAssumption ==
  /\ LedgerAt[Genesis] = GenesisLedger
  /\ \A b \in Block \ {Genesis} :
       LET L == LedgerAt[Parent[b]]
       IN  ValidBlock(L, b) => LedgerAt[b] = ApplyBlock(L, b)

(* No block creates an outpoint that is unspent in its parent's state.     *)
(* Transaction ids are hashes of contents that name unique inputs, and the *)
(* miner puts the height into the coinbase; the code itself does not check.*)
ASSUME FreshAssumption ==
  \A b \in Block \ {Genesis} :
    LET L == LedgerAt[Parent[b]]
    IN  ValidBlock(L, b) => CreatedBy(b) \cap DOMAIN L.utxos = {}

(* Amounts are u64 and what a block's body names exists.  connect_genesis  *)
(* checks the cap, and finds nothing a second transaction could spend.     *)
ASSUME BodyAssumption ==
  /\ MaxMoney \in Nat /\ CoinbaseTotal(Genesis) \in 0..MaxMoney /\ Body[Genesis].txs = <<>>
  /\ \A b \in Block :
       /\ Body[b].work \in Nat
       /\ Body[b].proposers \subseteq Key /\ Body[b].roles \subseteq Key
       /\ Body[b].activations \in Seq(Key) /\ Body[b].announces \in Seq(Key)
       /\ Body[b].offences \in Seq(Offence)
       /\ Body[b].txs \in Seq(Transaction) /\ Body[b].coinbase \in Seq(TxOutput)
  /\ \A b \in Block \ {Genesis} :
       LET L == LedgerAt[Parent[b]]
       IN  ValidBlock(L, b) => block_reward(L.height + 1) \in Nat /\ Subsidy(L, b) \in Nat

(* The shape of a ledger.                                                  *)
IsLedger(L) ==
  /\ L \in [height : Nat, issued : Nat, work : Nat, utxos : {L.utxos},
            registry : SUBSET (Key \X Nat), queue : Seq(Key), offences : SUBSET Offence]
  /\ DOMAIN L.utxos \subseteq OutPoint
  /\ L.utxos \in [DOMAIN L.utxos -> Entry]
=============================================================================
