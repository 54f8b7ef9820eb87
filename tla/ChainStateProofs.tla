-------------------------- MODULE ChainStateProofs --------------------------
(***************************************************************************)
(* The chain engine keeps its ledger equal to a replay of the main chain,  *)
(* cannot stop inside a reorganisation, and rolls a failed one back, for   *)
(* every block tree, every activation height and every arrival order.      *)
(*                                                                         *)
(* First, one block connected to or disconnected from the tip:             *)
(* disconnecting a block with its undo data gives back the ledger from     *)
(* before the block, field by field; then the inductive invariant of the   *)
(* engine, that connect_block and disconnect_tip_block keep their part of  *)
(* it and that the entry of process_block keeps all of it; then the steps  *)
(* of a reorganisation.                                                    *)
(***************************************************************************)
EXTENDS ChainState, TLAPS

(* Sequences are equal if their elements are.                              *)
LEMMA SameSequence ==
  ASSUME NEW S, NEW p \in Seq(S), NEW q \in Seq(S),
         Len(p) = Len(q), \A i \in 1..Len(p) : p[i] = q[i]
  PROVE  p = q
  OBVIOUS

(* Adjacent parts of a sequence join.                                      *)
LEMMA SubSeqsJoin ==
  ASSUME NEW S, NEW q \in Seq(S), NEW m \in 1..(Len(q) + 1),
         NEW k \in (m - 1)..Len(q), NEW n \in k..Len(q)
  PROVE  SubSeq(q, m, k) \o SubSeq(q, k + 1, n) = SubSeq(q, m, n)
  OBVIOUS

(* What a block may assume of the ledger it is applied to.                 *)
GoodLedger(L, h) ==
  /\ IsLedger(L)
  /\ L.height = h
  /\ \A r \in L.registry : r[2] <= h

(* Disconnecting a block removes the outputs it created and restores the   *)
(* ones it spent: the UTXO set is the one from before the block.           *)
LEMMA UtxosInverse ==
  ASSUME NEW L, IsLedger(L), NEW b, CreatedBy(b) \cap DOMAIN L.utxos = {}
  PROVE  RevertUtxos(ApplyUtxos(L, b), BlockUndo(L, b)) = L.utxos
  <1> DEFINE A == ApplyUtxos(L, b)
             R == RevertUtxos(A, BlockUndo(L, b))
  <1>1. DOMAIN A = (DOMAIN L.utxos \ SpentBy(b)) \cup CreatedBy(b)
    BY DEF ApplyUtxos
  <1>2. /\ DOMAIN BlockUndo(L, b).spent = SpentBy(b) \cap DOMAIN L.utxos
        /\ \A o \in SpentBy(b) \cap DOMAIN L.utxos : BlockUndo(L, b).spent[o] = L.utxos[o]
        /\ BlockUndo(L, b).created = CreatedBy(b)
    BY DEF BlockUndo
  <1>3. \A o \in DOMAIN L.utxos \ SpentBy(b) : A[o] = L.utxos[o]
    BY DEF ApplyUtxos
  <1>4. DOMAIN R = DOMAIN L.utxos
    BY <1>1, <1>2 DEF RevertUtxos
  <1>5. \A o \in DOMAIN L.utxos : R[o] = L.utxos[o]
    BY <1>1, <1>2, <1>3 DEF RevertUtxos
  <1>6. L.utxos = [o \in DOMAIN L.utxos |-> L.utxos[o]]
    BY DEF IsLedger
  <1>7. R = [o \in DOMAIN R |-> R[o]]
    BY DEF RevertUtxos
  <1> QED BY <1>4, <1>5, <1>6, <1>7

(* Taking a prefix off a sequence, appending to it and undoing both gives  *)
(* the sequence back.                                                      *)
LEMMA DropAppendUndo ==
  ASSUME NEW S, NEW q \in Seq(S), NEW front \in Seq(S), NEW extra \in Seq(S),
         Len(front) <= Len(q), \A i \in 1..Len(front) : front[i] = q[i]
  PROVE  LET grown == SubSeq(q, Len(front) + 1, Len(q)) \o extra
         IN  front \o SubSeq(grown, 1, Len(grown) - Len(extra)) = q
  <1> DEFINE n == Len(front)
             rest == SubSeq(q, n + 1, Len(q))
             grown == rest \o extra
             back == SubSeq(grown, 1, Len(grown) - Len(extra))
  <1>1. n \in Nat /\ Len(q) \in Nat /\ Len(extra) \in Nat /\ DOMAIN q = 1..Len(q)
    OBVIOUS
  <1>2. \A i \in (n + 1)..Len(q) : q[i] \in S
    BY <1>1
  <1>3. rest \in Seq(S) /\ Len(rest) \in Nat
    BY <1>1, <1>2
  <1>4. /\ grown \in Seq(S)
        /\ Len(grown) = Len(rest) + Len(extra)
        /\ \A i \in 1..Len(rest) : grown[i] = rest[i]
    <2> HIDE DEF rest
    <2> QED BY <1>1, <1>3
  <1>5. Len(grown) - Len(extra) = Len(rest)
    BY <1>1, <1>3, <1>4
  <1>6. back \in Seq(S) /\ Len(back) = Len(rest) /\ \A i \in 1..Len(rest) : back[i] = rest[i]
    <2> HIDE DEF rest, grown
    <2>1. \A i \in 1..Len(rest) : grown[i] \in S
      BY <1>3, <1>4
    <2>2. back = SubSeq(grown, 1, Len(rest))
      BY <1>5
    <2>3. /\ back \in Seq(S)
          /\ Len(back) = IF 1 <= Len(rest) THEN Len(rest) - 1 + 1 ELSE 0
          /\ \A i \in 1..(Len(rest) - 1 + 1) : back[i] = grown[1 + i - 1]
      <3> HIDE DEF back
      <3> QED BY <2>1, <2>2, <1>3
    <2> HIDE DEF back
    <2> QED BY <2>3, <1>3, <1>4
  <1>7. back = rest
    <2> HIDE DEF back, rest
    <2> QED BY <1>3, <1>6, SameSequence
  <1>8. front = SubSeq(q, 1, n)
    <2> DEFINE p == SubSeq(q, 1, n)
    <2>1. \A i \in 1..n : q[i] \in S
      BY <1>1
    <2>2. p \in Seq(S) /\ Len(p) = n /\ \A i \in 1..n : p[i] = q[i]
      BY <1>1, <2>1
    <2> HIDE DEF p
    <2>3. p = front
      BY <2>2
    <2> QED BY <2>3 DEF p
  <1>9. SubSeq(q, 1, n) \o rest = SubSeq(q, 1, Len(q))
    <2>1. /\ 1 \in 1..(Len(q) + 1)
          /\ n \in (1 - 1)..Len(q)
          /\ Len(q) \in n..Len(q)
      BY <1>1
    <2> QED BY Zenon, <2>1, SubSeqsJoin
  <1>10. SubSeq(q, 1, Len(q)) = q
    OBVIOUS
  <1> HIDE DEF rest, back
  <1>11. front \o back = q
    BY Zenon, <1>7, <1>8, <1>9, <1>10
  <1> QED BY Zenon, <1>11 DEF back, rest

(* The reverted registration queue has the activated entries back at its   *)
(* front, in order, and none of the announced ones.                        *)
LEMMA QueueInverse ==
  ASSUME NEW L, IsLedger(L), NEW b \in Block, NEW h,
         RegistrationActive(h) => RegistrationsValid(L, b), L.height + 1 = h
  PROVE  RevertQueue(ApplyQueue(L, b), b, h) = L.queue
  <1>1. CASE ~RegistrationActive(h)
    BY <1>1 DEF ApplyQueue, RevertQueue
  <1>2. CASE RegistrationActive(h)
    <2> DEFINE q == L.queue
               acts == Body[b].activations
               anns == Body[b].announces
    <2>1. q \in Seq(Key) /\ acts \in Seq(Key) /\ anns \in Seq(Key)
      BY BodyAssumption DEF IsLedger
    <2>2. Len(acts) <= Len(q) /\ \A i \in 1..Len(acts) : acts[i] = q[i]
      <3>1. /\ Len(acts) = (IF RegCap < Len(q) THEN RegCap ELSE Len(q))
            /\ \A i \in 1..(IF RegCap < Len(q) THEN RegCap ELSE Len(q)) : acts[i] = q[i]
        BY <1>2 DEF RegistrationsValid
      <3> QED BY <3>1, <2>1
    <2>3. RevertQueue(ApplyQueue(L, b), b, h)
            = LET grown == SubSeq(q, Len(acts) + 1, Len(q)) \o anns
              IN  acts \o SubSeq(grown, 1, Len(grown) - Len(anns))
      BY Zenon, <1>2 DEF ApplyQueue, RevertQueue
    <2> HIDE DEF q, acts, anns
    <2>4. RevertQueue(ApplyQueue(L, b), b, h) = q
      BY Zenon, <2>1, <2>2, <2>3, DropAppendUndo
    <2> QED BY <2>4 DEF q
  <1> QED BY <1>1, <1>2

(* What a block registers are keys.                                        *)
LEMMA NewRegistrationsAreKeys ==
  ASSUME NEW b \in Block, NEW h
  PROVE  NewRegistrations(b, h) \subseteq Key
  <1>1. Range(Body[b].activations) \subseteq Key
    <2>1. Body[b].activations \in Seq(Key)
      BY BodyAssumption
    <2> QED BY <2>1 DEF Range
  <1>2. Body[b].proposers \subseteq Key /\ Body[b].roles \subseteq Key
    BY BodyAssumption
  <1> QED BY <1>1, <1>2 DEF NewRegistrations, proposer_keys_from_block

(* Unregistering at the block's height removes exactly what the block      *)
(* registered, because no registration of a good ledger is at that height  *)
(* yet.                                                                    *)
LEMMA RegistryInverse ==
  ASSUME NEW L, NEW h, NEW b \in Block, GoodLedger(L, h)
  PROVE  RevertRegistry(ApplyRegistry(L, b), b, h + 1) = L.registry
  <1>1. h \in Nat /\ L.height = h /\ L.registry \subseteq Key \X Nat
    BY DEF GoodLedger, IsLedger
  <1>2. \A r \in L.registry : r[2] <= h
    BY DEF GoodLedger
  <1>3. \A k \in NewRegistrations(b, h + 1) : <<k, h + 1>> \notin L.registry
    BY <1>1, <1>2
  <1> QED BY <1>1, <1>3 DEF ApplyRegistry, RevertRegistry

(* The offences a valid block slashes were not recorded before, so taking  *)
(* them out restores the set.                                              *)
LEMMA OffencesInverse ==
  ASSUME NEW L, NEW b, PoawxValid(L, b)
  PROVE  RevertOffences(ApplyOffences(L, b), b, L.height + 1) = L.offences
  <1>1. ActiveAt(FraudHeight, L.height + 1) => Range(Body[b].offences) \cap L.offences = {}
    BY DEF PoawxValid, FraudProofsValid, Range
  <1> QED BY <1>1 DEF ApplyOffences, RevertOffences

(* Disconnecting the block just connected gives the ledger back.           *)
LEMMA RevertInverse ==
  ASSUME NEW b \in Block \ {Genesis}, NEW h, GoodLedger(LedgerAt[Parent[b]], h),
         ValidBlock(LedgerAt[Parent[b]], b)
  PROVE  LET L == LedgerAt[Parent[b]]
         IN  RevertBlock(ApplyBlock(L, b), b, BlockUndo(L, b)) = L
  <1> DEFINE L == LedgerAt[Parent[b]]
             A == ApplyBlock(L, b)
             R == RevertBlock(A, b, BlockUndo(L, b))
  <1>1. /\ IsLedger(L) /\ L.height = h /\ h \in Nat /\ L.issued \in Nat /\ L.work \in Nat
        /\ L \in [height : Nat, issued : Nat, work : Nat, utxos : {L.utxos},
                   registry : SUBSET (Key \X Nat), queue : Seq(Key), offences : SUBSET Offence]
    BY DEF GoodLedger, IsLedger
  <1>2. Subsidy(L, b) \in Nat /\ Body[b].work \in Nat /\ BlockUndo(L, b).subsidy_created = Subsidy(L, b)
    BY BodyAssumption DEF BlockUndo
  <1>3. PoawxValid(L, b)
    BY DEF ValidBlock
  <1>4. RevertUtxos(ApplyUtxos(L, b), BlockUndo(L, b)) = L.utxos
    <2>1. CreatedBy(b) \cap DOMAIN L.utxos = {}
      BY FreshAssumption
    <2> HIDE DEF L
    <2> QED BY <1>1, <2>1, UtxosInverse
  <1>5. RevertQueue(ApplyQueue(L, b), b, h + 1) = L.queue
    <2>1. RegistrationActive(h + 1) => RegistrationsValid(L, b)
      BY <1>1, <1>3 DEF PoawxValid
    <2> HIDE DEF L
    <2> QED BY <1>1, <2>1, QueueInverse
  <1>6. RevertRegistry(ApplyRegistry(L, b), b, h + 1) = L.registry
    BY RegistryInverse
  <1>7. RevertOffences(ApplyOffences(L, b), b, h + 1) = L.offences
    <2> HIDE DEF L
    <2> QED BY <1>1, <1>3, OffencesInverse
  <1> HIDE DEF L
  <1>8. /\ A.height = h + 1 /\ A.issued = L.issued + Subsidy(L, b) /\ A.work = L.work + Body[b].work
        /\ A.utxos = ApplyUtxos(L, b) /\ A.registry = ApplyRegistry(L, b)
        /\ A.queue = ApplyQueue(L, b) /\ A.offences = ApplyOffences(L, b)
    BY <1>1 DEF ApplyBlock
  <1> HIDE DEF A
  <1>9. SaturatingSub(A.issued, Subsidy(L, b)) = L.issued
    BY <1>1, <1>2, <1>8 DEF SaturatingSub
  <1>10. SaturatingSub(A.work, Body[b].work) = L.work
    BY <1>1, <1>2, <1>8 DEF SaturatingSub
  <1>11. A.height - 1 = L.height
    BY <1>1, <1>8
  <1>12. R = [height |-> L.height, issued |-> L.issued, work |-> L.work, utxos |-> L.utxos,
              registry |-> L.registry, queue |-> L.queue, offences |-> L.offences]
    BY <1>2, <1>4, <1>5, <1>6, <1>7, <1>8, <1>9, <1>10, <1>11 DEF RevertBlock
  <1>13. R = L
    <2> HIDE DEF R
    <2> QED BY <1>1, <1>12
  <1> QED BY <1>13 DEF A, L, R

(* A block's outputs are outpoints with an amount.                         *)
LEMMA OutputsTyped ==
  ASSUME NEW b \in Block
  PROVE  CreatedBy(b) \subseteq OutPoint /\ \A o \in CreatedBy(b) : OutputValue(b, o) \in Nat
  <1> DEFINE All == Range(Body[b].coinbase) \cup UNION {Range(t.outputs) : t \in Txs(b)}
  <1>1. Body[b].txs \in Seq(Transaction) /\ Body[b].coinbase \in Seq(TxOutput)
    BY BodyAssumption
  <1>2. ASSUME NEW S, NEW s \in Seq(S) PROVE Range(s) \subseteq S
    BY DEF Range
  <1>3. Txs(b) \subseteq Transaction /\ Range(Body[b].coinbase) \subseteq TxOutput
    BY <1>1, <1>2 DEF Txs
  <1>4. ASSUME NEW t \in Txs(b) PROVE Range(t.outputs) \subseteq TxOutput
    <2>1. t.outputs \in Seq(TxOutput)
      BY <1>3 DEF Transaction
    <2> QED BY <1>2, <2>1
  <1>5. All \subseteq TxOutput
    BY <1>3, <1>4
  <1>6. CreatedBy(b) = {o.op : o \in All} /\ \A o \in CreatedBy(b) : OutputValue(b, o) = (CHOOSE x \in All : x.op = o).value
    BY DEF CreatedBy, CoinbaseOps, OutputValue
  <1> HIDE DEF All
  <1>7. ASSUME NEW o \in CreatedBy(b) PROVE o \in OutPoint /\ OutputValue(b, o) \in Nat
    <2> DEFINE x == CHOOSE y \in All : y.op = o
    <2>1. x \in All /\ x.op = o /\ OutputValue(b, o) = x.value
      BY <1>6
    <2> HIDE DEF x
    <2> QED BY <1>5, <2>1 DEF TxOutput
  <1> QED BY <1>7

(* The UTXO set after a valid block is a map from outpoints to entries.    *)
LEMMA UtxosTyped ==
  ASSUME NEW L, IsLedger(L), NEW b \in Block
  PROVE  /\ DOMAIN ApplyUtxos(L, b) \subseteq OutPoint
         /\ ApplyUtxos(L, b) \in [DOMAIN ApplyUtxos(L, b) -> Entry]
  <1> DEFINE A == ApplyUtxos(L, b)
  <1>1. /\ L.height \in Nat /\ DOMAIN L.utxos \subseteq OutPoint
        /\ \A o \in DOMAIN L.utxos : L.utxos[o] \in Entry
    BY DEF IsLedger
  <1>2. CreatedBy(b) \subseteq OutPoint /\ \A o \in CreatedBy(b) : OutputValue(b, o) \in Nat
    BY OutputsTyped
  <1>3. DOMAIN A = (DOMAIN L.utxos \ SpentBy(b)) \cup CreatedBy(b)
    BY DEF ApplyUtxos
  <1>4. ASSUME NEW o \in DOMAIN A PROVE A[o] \in Entry
    <2>1. CASE o \in CreatedBy(b)
      <3>1. A[o] = [value |-> OutputValue(b, o), height |-> L.height + 1,
                    coinbase |-> o \in CoinbaseOps(b)]
        BY <2>1 DEF ApplyUtxos
      <3>2. OutputValue(b, o) \in Nat /\ L.height + 1 \in Nat /\ (o \in CoinbaseOps(b)) \in BOOLEAN
        BY <1>1, <1>2, <2>1
      <3> QED BY <3>1, <3>2 DEF Entry
    <2>2. CASE o \notin CreatedBy(b)
      BY <1>1, <1>3, <2>2 DEF ApplyUtxos
    <2> QED BY <2>1, <2>2
  <1>5. A = [o \in DOMAIN A |-> A[o]]
    BY DEF ApplyUtxos
  <1> HIDE DEF A
  <1>6. A \in [DOMAIN A -> Entry]
    BY <1>4, <1>5
  <1> QED BY <1>1, <1>2, <1>3, <1>6 DEF A

(* The queue after a valid block is a sequence of keys.                    *)
LEMMA QueueTyped ==
  ASSUME NEW L, IsLedger(L), NEW b \in Block
  PROVE  ApplyQueue(L, b) \in Seq(Key)
  <1> DEFINE q == L.queue
             n == Len(Body[b].activations)
  <1>1. /\ q \in Seq(Key) /\ Len(q) \in Nat /\ n \in Nat
        /\ Body[b].activations \in Seq(Key) /\ Body[b].announces \in Seq(Key)
    BY BodyAssumption DEF IsLedger
  <1>2. \A i \in (n + 1)..Len(q) : q[i] \in Key
    BY <1>1
  <1> HIDE DEF q, n
  <1>3. SubSeq(q, n + 1, Len(q)) \in Seq(Key)
    BY <1>1, <1>2
  <1>4. SubSeq(q, n + 1, Len(q)) \o Body[b].announces \in Seq(Key)
    BY <1>1, <1>3
  <1> QED BY <1>1, <1>4 DEF ApplyQueue, q, n

(* A valid block leaves a good ledger, one block higher.                   *)
LEMMA GoodApply ==
  ASSUME NEW b \in Block \ {Genesis}, NEW h, GoodLedger(LedgerAt[Parent[b]], h),
         ValidBlock(LedgerAt[Parent[b]], b)
  PROVE  GoodLedger(ApplyBlock(LedgerAt[Parent[b]], b), h + 1)
  <1> DEFINE L == LedgerAt[Parent[b]]
             A == ApplyBlock(L, b)
  <1>1. /\ IsLedger(L) /\ L.height = h /\ h \in Nat /\ L.issued \in Nat /\ L.work \in Nat
        /\ L.registry \subseteq Key \X Nat /\ L.offences \subseteq Offence
        /\ \A r \in L.registry : r[2] <= h
    BY DEF GoodLedger, IsLedger
  <1>2. Subsidy(L, b) \in Nat /\ Body[b].work \in Nat /\ Body[b].offences \in Seq(Offence)
    BY BodyAssumption
  <1> HIDE DEF L
  <1>3. ApplyRegistry(L, b) \subseteq Key \X Nat /\ \A r \in ApplyRegistry(L, b) : r[2] <= h + 1
    <2>1. NewRegistrations(b, h + 1) \subseteq Key
      BY NewRegistrationsAreKeys
    <2>2. ASSUME NEW r \in ApplyRegistry(L, b) PROVE r \in Key \X Nat /\ r[2] <= h + 1
      <3>1. CASE r \in L.registry
        <4>1. r[2] \in Nat /\ r[2] <= h
          BY <1>1, <3>1
        <4> QED BY <1>1, <3>1, <4>1
      <3>2. CASE r \notin L.registry
        <4>1. PICK k \in NewRegistrations(b, h + 1) : r = <<k, h + 1>>
          BY <1>1, <3>2 DEF ApplyRegistry
        <4> QED BY <1>1, <2>1, <4>1
      <3> QED BY <3>1, <3>2
    <2> QED BY <2>2
  <1>4. ApplyOffences(L, b) \subseteq Offence
    BY <1>1, <1>2 DEF ApplyOffences, Range
  <1>5. ApplyQueue(L, b) \in Seq(Key)
    BY <1>1, QueueTyped
  <1>6. /\ DOMAIN ApplyUtxos(L, b) \subseteq OutPoint
        /\ ApplyUtxos(L, b) \in [DOMAIN ApplyUtxos(L, b) -> Entry]
    BY <1>1, UtxosTyped
  <1>7. A = [height |-> h + 1, issued |-> L.issued + Subsidy(L, b), work |-> L.work + Body[b].work,
             utxos |-> ApplyUtxos(L, b), registry |-> ApplyRegistry(L, b),
             queue |-> ApplyQueue(L, b), offences |-> ApplyOffences(L, b)]
    BY <1>1 DEF ApplyBlock
  <1> HIDE DEF A
  <1>8. IsLedger(A)
    <2>1. h + 1 \in Nat /\ L.issued + Subsidy(L, b) \in Nat /\ L.work + Body[b].work \in Nat
      BY <1>1, <1>2
    <2> QED BY <1>3, <1>4, <1>5, <1>6, <1>7, <2>1 DEF IsLedger
  <1>9. GoodLedger(A, h + 1)
    BY <1>3, <1>7, <1>8 DEF GoodLedger
  <1> QED BY <1>9 DEF A, L

(* The genesis ledger is good.                                             *)
LEMMA GoodGenesis == GoodLedger(GenesisLedger, 0)
  <1> DEFINE U == [o \in CoinbaseOps(Genesis) |->
                     [value |-> OutputValue(Genesis, o), height |-> 0, coinbase |-> TRUE]]
  <1>1. /\ CoinbaseOps(Genesis) \subseteq OutPoint
        /\ \A o \in CoinbaseOps(Genesis) : OutputValue(Genesis, o) \in Nat
        /\ CoinbaseTotal(Genesis) \in Nat /\ Body[Genesis].work \in Nat
    <2>1. CreatedBy(Genesis) \subseteq OutPoint /\ \A o \in CreatedBy(Genesis) : OutputValue(Genesis, o) \in Nat
      BY OutputsTyped, TreeAssumption
    <2>2. CoinbaseTotal(Genesis) \in Nat /\ Body[Genesis].work \in Nat
      BY BodyAssumption, TreeAssumption
    <2> QED BY <2>1, <2>2 DEF CreatedBy
  <1>2. U \in [CoinbaseOps(Genesis) -> Entry]
    BY <1>1 DEF Entry
  <1>3. DOMAIN U = CoinbaseOps(Genesis)
    OBVIOUS
  <1>4. GenesisLedger = [height |-> 0, issued |-> CoinbaseTotal(Genesis), work |-> Body[Genesis].work,
                         utxos |-> U, registry |-> {}, queue |-> <<>>, offences |-> {}]
    BY DEF GenesisLedger
  <1> HIDE DEF U
  <1>5. <<>> \in Seq(Key)
    OBVIOUS
  <1>6. IsLedger(GenesisLedger)
    BY <1>1, <1>2, <1>3, <1>4, <1>5 DEF IsLedger
  <1> QED BY <1>4, <1>6 DEF GoodLedger

-----------------------------------------------------------------------------
(***************************************************************************)
(* The inductive invariant, and the part of it that connect_block and      *)
(* disconnect_tip_block are responsible for.                               *)
(***************************************************************************)
(* A chain a node may hold: linked from genesis, every block valid on the  *)
(* replay of its parent, every replay well formed.                         *)
GoodChain(c) ==
  /\ c \in Seq(Block) /\ Len(c) >= 1 /\ c[1] = Genesis
  /\ \A i \in 2..Len(c) : /\ c[i] # Genesis
                         /\ Parent[c[i]] = c[i - 1]
                         /\ ValidBlock(LedgerAt[c[i - 1]], c[i])
  /\ \A i \in 1..Len(c) : GoodLedger(LedgerAt[c[i]], i - 1)

(* The part of the state connect_block and disconnect_tip_block maintain.  *)
CoreInv ==
  /\ GoodChain(chain)
  /\ ledger = LedgerAt[Tip]
  /\ DOMAIN undo \subseteq Block
  /\ \A i \in 2..Len(chain) : /\ chain[i] \in DOMAIN undo
                             /\ undo[chain[i]] = BlockUndo(LedgerAt[chain[i - 1]], chain[i])
  /\ DOMAIN store \subseteq Block
  /\ store \in [DOMAIN store -> [height : Nat, work : Nat]]
  /\ StoreConsistent
  /\ finalized \in 0..(Len(chain) - 1)
  /\ sealed \subseteq Block

(* No stored block names b as its parent.                                  *)
Leaf(b) == \A x \in DOMAIN store \ {Genesis} : Parent[x] # b

(* A block on top of the tip is connected or dropped, never kept aside.    *)
LeafInv ==
  IF Deciding THEN Leaf(op.blk) /\ Leaf(op.before[Len(op.before)]) ELSE Leaf(Tip)

(* chain and op.before agree up to length n, and op.old holds the rest of  *)
(* op.before, tip first.                                                   *)
Peeled(n) ==
  /\ n <= Len(chain) /\ n <= Len(op.before)
  /\ \A i \in 1..n : chain[i] = op.before[i]
  /\ Len(op.old) = Len(op.before) - n
  /\ \A k \in 1..Len(op.old) : op.old[k] = op.before[Len(op.before) + 1 - k]

(* The branch runs from above the fork to the block in process.            *)
BranchInv ==
  /\ \A i \in 1..Len(op.branch) : op.branch[i] \in DOMAIN store \ {Genesis}
  /\ op.branch # <<>> => op.branch[Len(op.branch)] = op.blk

ForkInv ==
  /\ op.branch # <<>>
  /\ op.fork + 1 < Len(op.before)

PhaseInv ==
  /\ Deciding => /\ op.blk \in DOMAIN store \ {Genesis}
                 /\ GoodChain(op.before)
                 /\ \A i \in 1..Len(op.before) : op.before[i] # op.blk /\ op.before[i] \in DOMAIN store
                 /\ BranchInv
  /\ op.pc \in {"walk", "decide"} => chain = op.before /\ op.old = <<>> /\ op.made = 0
  /\ Deciding /\ op.pc # "walk" => ForkInv
  /\ op.pc = "disconnect" => Peeled(Len(chain)) /\ op.fork + 1 < Len(chain) /\ op.made = 0
  /\ op.pc \in {"connect", "unwind"} => /\ Peeled(op.fork + 1)
                                        /\ Len(chain) = op.fork + 1 + op.made
                                        /\ op.made < Len(op.branch)
  /\ op.pc = "unwind" => op.made >= 1
  /\ op.pc = "restore" => Peeled(Len(chain))

(* The types of the rest of the state; the drain loop has a frame.         *)
RestInv ==
  /\ orphans \in [Block -> Seq(Block \ {Genesis})]
  /\ displaced \subseteq Block
  /\ op \in OpType
  /\ stack \in Seq(FrameType)
  /\ op.pc = "drain" => stack # <<>>

IInv == CoreInv /\ LeafInv /\ PhaseInv /\ RestInv

-----------------------------------------------------------------------------
(* A block's height tells its place on a chain, so no block occurs twice.  *)
LEMMA ChainDistinct ==
  ASSUME NEW c, GoodChain(c), NEW i \in 1..Len(c), NEW j \in 1..Len(c), c[i] = c[j]
  PROVE  i = j
  <1>1. LedgerAt[c[i]].height = i - 1 /\ LedgerAt[c[j]].height = j - 1
    BY DEF GoodChain, GoodLedger
  <1>2. Len(c) \in Nat
    BY DEF GoodChain
  <1> QED BY <1>1, <1>2

(* A good chain is a nonempty sequence of blocks.                          *)
LEMMA ChainTyped ==
  ASSUME NEW c, GoodChain(c)
  PROVE  /\ Len(c) \in Nat \ {0} /\ DOMAIN c = 1..Len(c) /\ c # <<>> /\ c[Len(c)] \in Block
         /\ GoodLedger(LedgerAt[c[Len(c)]], Len(c) - 1)
         /\ \A i \in 1..Len(c) : c[i] \in Block
  <1>1. c \in Seq(Block) /\ Len(c) >= 1
    BY DEF GoodChain
  <1>2. Len(c) \in Nat \ {0} /\ DOMAIN c = 1..Len(c) /\ c # <<>> /\ \A i \in 1..Len(c) : c[i] \in Block
    BY <1>1
  <1>3. Len(c) \in 1..Len(c)
    BY <1>2
  <1>4. GoodLedger(LedgerAt[c[Len(c)]], Len(c) - 1)
    BY <1>3 DEF GoodChain
  <1> QED BY <1>2, <1>3, <1>4

(* A valid block extends a chain, and its replay is the parent's replay    *)
(* with the block applied.                                                 *)
LEMMA ChainAppend ==
  ASSUME NEW c, GoodChain(c), NEW b \in Block \ {Genesis}, Parent[b] = c[Len(c)],
         ValidBlock(LedgerAt[c[Len(c)]], b)
  PROVE  /\ GoodChain(Append(c, b))
         /\ LedgerAt[b] = ApplyBlock(LedgerAt[c[Len(c)]], b)
         /\ GoodLedger(LedgerAt[b], Len(c))
         /\ \A i \in 1..Len(c) : c[i] # b
  <1> DEFINE d == Append(c, b)
             n == Len(c)
  <1>1. c \in Seq(Block) /\ n \in Nat \ {0}
    BY ChainTyped DEF GoodChain
  <1>2. /\ d \in Seq(Block) /\ Len(d) = n + 1
        /\ \A i \in 1..n : d[i] = c[i]
        /\ d[n + 1] = b
    BY <1>1
  <1>3. LedgerAt[b] = ApplyBlock(LedgerAt[Parent[b]], b)
    BY ReplayAssumption
  <1>4. GoodLedger(LedgerAt[Parent[b]], n - 1)
    BY ChainTyped
  <1>5. GoodLedger(LedgerAt[b], (n - 1) + 1)
    BY <1>3, <1>4, GoodApply
  <1>6. GoodLedger(LedgerAt[b], n)
    <2>1. (n - 1) + 1 = n
      BY <1>1
    <2> QED BY <1>5, <2>1
  <1> HIDE DEF d
  <1>7. ASSUME NEW i \in 2..Len(d)
        PROVE  d[i] # Genesis /\ Parent[d[i]] = d[i - 1] /\ ValidBlock(LedgerAt[d[i - 1]], d[i])
    <2>1. CASE i = n + 1
      <3>1. d[i] = b /\ i - 1 = n /\ n \in 1..n /\ d[i - 1] = c[n]
        BY <1>1, <1>2, <2>1
      <3> QED BY <3>1
    <2>2. CASE i # n + 1
      <3>1. i \in 2..n /\ i \in 1..n /\ i - 1 \in 1..n
        BY <1>1, <1>2, <2>2
      <3>2. d[i] = c[i] /\ d[i - 1] = c[i - 1]
        BY <1>2, <3>1
      <3> QED BY <3>1, <3>2 DEF GoodChain
    <2> QED BY <2>1, <2>2
  <1>8. ASSUME NEW i \in 1..Len(d) PROVE GoodLedger(LedgerAt[d[i]], i - 1)
    <2>1. CASE i = n + 1
      <3>1. d[i] = b /\ i - 1 = n
        BY <1>1, <1>2, <2>1
      <3> QED BY <1>6, <3>1
    <2>2. CASE i # n + 1
      <3>1. i \in 1..n
        BY <1>1, <1>2, <2>2
      <3> QED BY <1>2, <3>1 DEF GoodChain
    <2> QED BY <2>1, <2>2
  <1>9. Len(d) >= 1 /\ d[1] = Genesis
    <2>1. 1 \in 1..n /\ c[1] = Genesis
      BY <1>1 DEF GoodChain
    <2> QED BY <1>1, <1>2, <2>1
  <1>10. GoodChain(d)
    BY <1>2, <1>7, <1>8, <1>9 DEF GoodChain
  <1>11. \A i \in 1..n : c[i] # b
    <2> SUFFICES ASSUME NEW i \in 1..n, c[i] = b PROVE FALSE
      OBVIOUS
    <2>1. LedgerAt[b].height = i - 1
      BY DEF GoodChain, GoodLedger
    <2>2. LedgerAt[b].height = n
      BY <1>6 DEF GoodLedger
    <2> QED BY <1>1, <2>1, <2>2
  <1> QED BY <1>3, <1>6, <1>10, <1>11 DEF d

(* A nonempty prefix of a good chain is a good chain.                      *)
LEMMA ChainPrefix ==
  ASSUME NEW c, GoodChain(c), NEW n \in 1..Len(c)
  PROVE  /\ GoodChain(SubSeq(c, 1, n)) /\ Len(SubSeq(c, 1, n)) = n
         /\ \A i \in 1..n : SubSeq(c, 1, n)[i] = c[i]
  <1> DEFINE d == SubSeq(c, 1, n)
  <1>1. c \in Seq(Block) /\ Len(c) \in Nat /\ n \in Nat /\ 1 <= n /\ n <= Len(c)
    BY ChainTyped DEF GoodChain
  <1>2. \A i \in 1..n : c[i] \in Block
    BY <1>1
  <1>3. /\ d \in Seq(Block)
        /\ Len(d) = IF 1 <= n THEN n - 1 + 1 ELSE 0
        /\ \A i \in 1..(n - 1 + 1) : d[i] = c[1 + i - 1]
    BY <1>1, <1>2
  <1> HIDE DEF d
  <1>4. Len(d) = n /\ \A i \in 1..n : d[i] = c[i]
    BY <1>1, <1>3
  <1>5. ASSUME NEW i \in 2..n
        PROVE  d[i] # Genesis /\ Parent[d[i]] = d[i - 1] /\ ValidBlock(LedgerAt[d[i - 1]], d[i])
    <2>1. i \in 2..Len(c) /\ i \in 1..n /\ i - 1 \in 1..n
      BY <1>1
    <2> QED BY <1>4, <2>1 DEF GoodChain
  <1>6. ASSUME NEW i \in 1..n PROVE GoodLedger(LedgerAt[d[i]], i - 1)
    <2>1. i \in 1..Len(c)
      BY <1>1
    <2> QED BY <1>4, <2>1 DEF GoodChain
  <1>7. d[1] = Genesis
    <2>1. 1 \in 1..n /\ c[1] = Genesis
      BY <1>1 DEF GoodChain
    <2> QED BY <1>4, <2>1
  <1>8. GoodChain(d)
    BY <1>1, <1>3, <1>4, <1>5, <1>6, <1>7 DEF GoodChain
  <1> QED BY <1>4, <1>8 DEF d

-----------------------------------------------------------------------------
(* The core invariant gives the types of chain, ledger, store and undo     *)
(* data.                                                                   *)
LEMMA CoreTyped ==
  ASSUME CoreInv
  PROVE  /\ chain \in Seq(Block) /\ Len(chain) \in Nat \ {0} /\ DOMAIN chain = 1..Len(chain)
         /\ Tip \in Block /\ chain # <<>> /\ GoodLedger(ledger, Len(chain) - 1)
         /\ \A i \in 1..Len(chain) : chain[i] \in Block /\ chain[i] \in DOMAIN store
         /\ chain[1] = Genesis
  <1>1. GoodChain(chain) /\ ledger = LedgerAt[Tip] /\ StoreConsistent
    BY DEF CoreInv
  <1>2. /\ Len(chain) \in Nat \ {0} /\ DOMAIN chain = 1..Len(chain) /\ chain # <<>> /\ Tip \in Block
        /\ GoodLedger(LedgerAt[Tip], Len(chain) - 1)
        /\ \A i \in 1..Len(chain) : chain[i] \in Block
    BY <1>1, ChainTyped DEF Tip
  <1>3. chain \in Seq(Block) /\ chain[1] = Genesis
    BY <1>1 DEF GoodChain
  <1>4. \A i \in 1..Len(chain) : chain[i] \in DOMAIN store
    BY Zenon, <1>1, <1>2 DEF StoreConsistent
  <1> QED BY <1>1, <1>2, <1>3, <1>4

(* What connect_block does to the chain and the store.                     *)
LEMMA ConnectEffect ==
  ASSUME CoreInv, NEW b \in Block \ {Genesis}, Connectable(b), connect_block(b)
  PROVE  /\ chain' \in Seq(Block) /\ Len(chain') = Len(chain) + 1 /\ chain'[Len(chain) + 1] = b
         /\ \A i \in 1..Len(chain) : chain'[i] = chain[i] /\ chain[i] # b
         /\ GoodChain(chain') /\ Tip' = b
         /\ DOMAIN store' = DOMAIN store \cup {b}
         /\ \A x \in DOMAIN store \ {b} : store'[x] = store[x]
         /\ store'[b] = [height |-> Len(chain), work |-> LedgerAt[b].work]
         /\ ledger' = LedgerAt[b] /\ GoodLedger(ledger', Len(chain))
  <1>1. chain \in Seq(Block) /\ Len(chain) \in Nat \ {0} /\ GoodChain(chain) /\ ledger = LedgerAt[Tip]
    BY CoreTyped DEF CoreInv
  <1>2. Parent[b] = chain[Len(chain)] /\ ValidBlock(LedgerAt[chain[Len(chain)]], b)
    BY <1>1 DEF Connectable, Tip
  <1>3. chain' = Append(chain, b)
    BY DEF connect_block
  <1>4. /\ chain' \in Seq(Block) /\ Len(chain') = Len(chain) + 1 /\ chain'[Len(chain) + 1] = b
        /\ \A i \in 1..Len(chain) : chain'[i] = chain[i]
    BY <1>1, <1>3
  <1>5. /\ GoodChain(Append(chain, b)) /\ LedgerAt[b] = ApplyBlock(LedgerAt[chain[Len(chain)]], b)
        /\ GoodLedger(LedgerAt[b], Len(chain)) /\ \A i \in 1..Len(chain) : chain[i] # b
    BY <1>1, <1>2, ChainAppend
  <1>6. ledger' = LedgerAt[b]
    BY <1>1, <1>5 DEF connect_block, Tip
  <1>7. ledger'.height = Len(chain)
    BY <1>5, <1>6 DEF GoodLedger
  <1>8. /\ DOMAIN store' = DOMAIN store \cup {b}
        /\ \A x \in DOMAIN store \ {b} : store'[x] = store[x]
        /\ store'[b] = [height |-> Len(chain), work |-> LedgerAt[b].work]
    <2>1. store' = Insert(store, b, [height |-> Len(chain), work |-> LedgerAt[b].work])
      BY <1>6, <1>7 DEF connect_block
    <2> QED BY <2>1 DEF Insert
  <1>9. Tip' = b
    BY <1>4 DEF Tip
  <1>10. GoodChain(chain')
    BY <1>3, <1>5
  <1> QED BY <1>4, <1>5, <1>6, <1>8, <1>9, <1>10

(* What the history records are blocks.                                    *)
LEMMA SealedBlocks ==
  ASSUME sealed \subseteq Block, GoodChain(chain'), (sealed' = sealed \/ Sealing)
  PROVE  sealed' \subseteq Block
  <1>1. \A i \in DOMAIN chain' : chain'[i] \in Block
    BY ChainTyped
  <1> QED BY <1>1 DEF Sealing

(* connect_block keeps the core invariant.                                 *)
LEMMA ConnectKeepsCore ==
  ASSUME CoreInv, NEW b \in Block \ {Genesis}, Connectable(b), connect_block(b), (sealed' = sealed \/ Sealing)
  PROVE  CoreInv'
  <1> DEFINE n == Len(chain)
  <1>1. /\ chain' \in Seq(Block) /\ Len(chain') = n + 1 /\ chain'[n + 1] = b
        /\ \A i \in 1..n : chain'[i] = chain[i] /\ chain[i] # b
        /\ GoodChain(chain') /\ Tip' = b
        /\ DOMAIN store' = DOMAIN store \cup {b}
        /\ \A x \in DOMAIN store \ {b} : store'[x] = store[x]
        /\ store'[b] = [height |-> n, work |-> LedgerAt[b].work]
        /\ ledger' = LedgerAt[b] /\ GoodLedger(ledger', n)
    BY Zenon, ConnectEffect
  <1>2. /\ n \in Nat \ {0} /\ DOMAIN chain = 1..n /\ ledger = LedgerAt[Tip] /\ Tip = chain[n]
        /\ \A i \in 1..n : chain[i] \in Block /\ chain[i] \in DOMAIN store
    BY CoreTyped DEF CoreInv, Tip
  <1>3. DOMAIN chain' = 1..(n + 1)
    BY <1>1
  <1>4. ledger' = LedgerAt[Tip']
    BY <1>1
  <1>5. /\ DOMAIN undo' \subseteq Block
        /\ \A i \in 2..Len(chain') : /\ chain'[i] \in DOMAIN undo'
                                    /\ undo'[chain'[i]] = BlockUndo(LedgerAt[chain'[i - 1]], chain'[i])
    <2>1. DOMAIN undo' = DOMAIN undo \cup {b} /\ undo'[b] = BlockUndo(ledger, b)
          /\ \A x \in DOMAIN undo \ {b} : undo'[x] = undo[x]
      BY DEF connect_block, Insert
    <2>2. ASSUME NEW i \in 2..Len(chain')
          PROVE  chain'[i] \in DOMAIN undo' /\ undo'[chain'[i]] = BlockUndo(LedgerAt[chain'[i - 1]], chain'[i])
      <3>1. CASE i = n + 1
        <4>1. chain'[i] = b /\ i - 1 = n /\ n \in 1..n /\ chain'[i - 1] = chain[n]
          BY <1>1, <1>2, <3>1
        <4> QED BY <1>2, <2>1, <4>1
      <3>2. CASE i # n + 1
        <4>1. i \in 2..n /\ i \in 1..n /\ i - 1 \in 1..n
          BY <1>1, <1>2, <3>2
        <4>2. chain'[i] = chain[i] /\ chain'[i - 1] = chain[i - 1] /\ chain[i] # b
          BY <1>1, <4>1
        <4>3. chain[i] \in DOMAIN undo /\ undo[chain[i]] = BlockUndo(LedgerAt[chain[i - 1]], chain[i])
          BY <4>1 DEF CoreInv
        <4> QED BY <2>1, <4>2, <4>3
      <3> QED BY <3>1, <3>2
    <2> QED BY <2>1, <2>2 DEF CoreInv
  <1>6. DOMAIN store' \subseteq Block /\ store' \in [DOMAIN store' -> [height : Nat, work : Nat]]
    <2>1. LedgerAt[b].work \in Nat
      BY <1>1 DEF GoodLedger, IsLedger
    <2>2. \A x \in DOMAIN store' : store'[x] \in [height : Nat, work : Nat]
      BY <1>1, <1>2, <2>1 DEF CoreInv
    <2>3. store' = [x \in DOMAIN store' |-> store'[x]]
      BY DEF connect_block, Insert
    <2> QED BY <1>1, <2>2, <2>3 DEF CoreInv
  <1>7. StoreConsistent'
    <2>1. ASSUME NEW i \in DOMAIN chain'
          PROVE  /\ chain'[i] \in DOMAIN store'
                 /\ store'[chain'[i]] = [height |-> i - 1, work |-> LedgerAt[chain'[i]].work]
      <3>1. CASE i = n + 1
        <4>1. i - 1 = n /\ chain'[i] = b
          BY <1>1, <1>2, <3>1
        <4> QED BY <1>1, <4>1
      <3>2. CASE i # n + 1
        <4>1. i \in 1..n
          BY <1>2, <1>3, <3>2
        <4>2. chain'[i] = chain[i] /\ chain[i] # b
          BY <1>1, <4>1
        <4>3. chain[i] \in DOMAIN store /\ store[chain[i]] = [height |-> i - 1, work |-> LedgerAt[chain[i]].work]
          BY <1>2, <4>1 DEF CoreInv, StoreConsistent
        <4> QED BY <1>1, <4>2, <4>3
      <3> QED BY <3>1, <3>2
    <2>2. ASSUME NEW x \in DOMAIN store' \ {Genesis} PROVE Parent[x] \in DOMAIN store'
      <3>1. CASE x = b
        <4>1. Parent[b] = chain[n] /\ n \in 1..n
          BY <1>2 DEF Connectable, Tip
        <4> QED BY <1>1, <1>2, <3>1, <4>1
      <3>2. CASE x # b
        BY <1>1, <3>2 DEF CoreInv, StoreConsistent
      <3> QED BY <3>1, <3>2
    <2> QED BY <2>1, <2>2 DEF StoreConsistent
  <1>8. finalized' \in 0..(Len(chain') - 1)
    <2>1. finalized' = Watermark(ledger', b, finalized) /\ ledger'.height = n
      BY Zenon, <1>1 DEF connect_block, GoodLedger
    <2>2. finalized \in 0..(n - 1)
      BY DEF CoreInv
    <2>3. finalized' = finalized \/ finalized' = n - 1
      BY <2>1 DEF Watermark
    <2> QED BY <1>1, <1>2, <2>2, <2>3
  <1>9. sealed' \subseteq Block
    BY <1>1, SealedBlocks DEF CoreInv
  <1> QED BY <1>1, <1>4, <1>5, <1>6, <1>7, <1>8, <1>9 DEF CoreInv

(* disconnect_tip_block is the inverse of connect_block: it leaves the     *)
(* chain, and the ledger of the chain, that were there before the tip.     *)
LEMMA DisconnectKeepsCore ==
  ASSUME CoreInv, Len(chain) >= 2, disconnect_tip_block
  PROVE  /\ CoreInv'
         /\ chain' \in Seq(Block) /\ Len(chain') = Len(chain) - 1
         /\ \A i \in 1..(Len(chain) - 1) : chain'[i] = chain[i]
  <1> DEFINE n == Len(chain)
             m == n - 1
             b == chain[n]
             L == LedgerAt[chain[m]]
  <1>1. /\ n \in Nat \ {0} /\ DOMAIN chain = 1..n /\ ledger = LedgerAt[b] /\ Tip = b
        /\ \A i \in 1..n : chain[i] \in Block /\ chain[i] \in DOMAIN store
        /\ GoodChain(chain)
    BY CoreTyped DEF CoreInv, Tip
  <1>2. m \in 1..n /\ m \in Nat /\ n \in 2..n /\ m = n - 1 /\ n \in 1..n
    BY <1>1
  <1>3. chain' = SubSeq(chain, 1, m)
    BY DEF disconnect_tip_block
  <1>4. GoodChain(chain') /\ Len(chain') = m /\ \A i \in 1..m : chain'[i] = chain[i]
    BY <1>1, <1>2, <1>3, ChainPrefix
  <1>5. b \in Block \ {Genesis} /\ Parent[b] = chain[m] /\ ValidBlock(L, b)
    BY <1>1, <1>2 DEF GoodChain
  <1>6. undo[b] = BlockUndo(L, b)
    BY <1>2 DEF CoreInv
  <1>7. GoodLedger(L, m - 1)
    BY <1>1, <1>2 DEF GoodChain
  <1>8. ledger = ApplyBlock(L, b)
    BY <1>1, <1>5, ReplayAssumption
  <1>9. ledger' = L
    <2>1. RevertBlock(ApplyBlock(L, b), b, BlockUndo(L, b)) = L
      BY <1>5, <1>7, RevertInverse
    <2>2. ledger' = RevertBlock(ledger, b, undo[b])
      BY <1>1 DEF disconnect_tip_block
    <2> QED BY <1>6, <1>8, <2>1, <2>2
  <1>10. ledger' = LedgerAt[Tip']
    <2>1. Tip' = chain[m]
      <3>1. m \in 1..m
        BY <1>2
      <3> QED BY <1>4, <3>1 DEF Tip
    <2> QED BY <1>9, <2>1
  <1>11. /\ DOMAIN undo' \subseteq Block
         /\ \A i \in 2..Len(chain') : /\ chain'[i] \in DOMAIN undo'
                                     /\ undo'[chain'[i]] = BlockUndo(LedgerAt[chain'[i - 1]], chain'[i])
    <2>1. DOMAIN undo' = DOMAIN undo \ {b} /\ \A x \in DOMAIN undo \ {b} : undo'[x] = undo[x]
      BY <1>1 DEF disconnect_tip_block, Delete
    <2> HIDE DEF m
    <2>2. ASSUME NEW i \in 2..m
          PROVE  chain'[i] \in DOMAIN undo' /\ undo'[chain'[i]] = BlockUndo(LedgerAt[chain'[i - 1]], chain'[i])
      <3>1. i \in 2..n /\ i \in 1..m /\ i - 1 \in 1..m /\ i \in 1..n /\ i # n
        BY <1>2
      <3>2. chain[i] # b
        BY <1>1, <1>2, <3>1, ChainDistinct
      <3>3. chain[i] \in DOMAIN undo /\ undo[chain[i]] = BlockUndo(LedgerAt[chain[i - 1]], chain[i])
        BY <3>1 DEF CoreInv
      <3> QED BY <1>4, <2>1, <3>1, <3>2, <3>3
    <2> QED BY <1>4, <2>1, <2>2 DEF CoreInv
  <1>12. /\ DOMAIN store' \subseteq Block /\ store' \in [DOMAIN store' -> [height : Nat, work : Nat]]
         /\ sealed' \subseteq Block /\ store' = store
    BY DEF CoreInv, disconnect_tip_block
  <1>13. StoreConsistent'
    <2>1. DOMAIN chain' = 1..m
      BY <1>4, ChainTyped
    <2>2. \A i \in 1..m : i \in DOMAIN chain
      BY <1>1, <1>2
    <2> QED BY <1>4, <1>12, <2>1, <2>2 DEF CoreInv, StoreConsistent
  <1>14. finalized' \in 0..(Len(chain') - 1)
    <2> DEFINE cap == SaturatingSub(TipHeight, 2)
    <2>1. finalized' = (IF finalized < cap THEN finalized ELSE cap)
      BY DEF disconnect_tip_block
    <2>2. cap \in Nat /\ cap <= m - 1
      BY <1>1, <1>2 DEF SaturatingSub, TipHeight
    <2>3. finalized \in Nat
      BY <1>1 DEF CoreInv
    <2> HIDE DEF cap
    <2>4. finalized' \in Nat /\ finalized' <= cap
      BY <2>1, <2>2, <2>3
    <2> QED BY <1>2, <1>4, <2>2, <2>4
  <1>15. CoreInv'
    BY <1>4, <1>10, <1>11, <1>12, <1>13, <1>14 DEF CoreInv
  <1> QED BY <1>4, <1>15 DEF GoodChain

-----------------------------------------------------------------------------
(***************************************************************************)
(* The initial state satisfies the inductive invariant, and the entry of   *)
(* process_block keeps it: an orphan is parked, a block refused, the tip   *)
(* extended, or a side block stored.                                       *)
(***************************************************************************)
(* The initial state satisfies the inductive invariant.                    *)
LEMMA InitInv == Init => IInv
  <1> SUFFICES ASSUME Init PROVE IInv
    OBVIOUS
  <1>1. chain = <<Genesis>> /\ Len(chain) = 1 /\ chain[1] = Genesis /\ chain \in Seq(Block) /\ DOMAIN chain = 1..1
    BY TreeAssumption DEF Init
  <1>2. LedgerAt[Genesis] = GenesisLedger /\ GoodLedger(LedgerAt[Genesis], 0)
    BY ReplayAssumption, GoodGenesis
  <1>3. \A i \in 1..1 : i = 1 /\ i - 1 = 0
    OBVIOUS
  <1>4. GoodChain(chain)
    <2>1. 2..Len(chain) = {}
      BY <1>1
    <2>2. \A i \in 1..Len(chain) : GoodLedger(LedgerAt[chain[i]], i - 1)
      BY <1>1, <1>2, <1>3
    <2>3. chain \in Seq(Block) /\ Len(chain) >= 1 /\ chain[1] = Genesis
      BY <1>1
    <2> QED BY <2>1, <2>2, <2>3 DEF GoodChain
  <1>5. Tip = Genesis /\ ledger = LedgerAt[Tip]
    BY <1>1, <1>2 DEF Init, Tip
  <1>6. DOMAIN store = {Genesis} /\ store[Genesis] = [height |-> 0, work |-> Body[Genesis].work]
    BY DEF Init
  <1>7. Body[Genesis].work \in Nat /\ LedgerAt[Genesis].work = Body[Genesis].work
    <2>1. Body[Genesis].work \in Nat
      BY BodyAssumption, TreeAssumption
    <2>2. GenesisLedger.work = Body[Genesis].work
      BY DEF GenesisLedger
    <2> QED BY <1>2, <2>1, <2>2
  <1>8. StoreConsistent
    BY <1>1, <1>3, <1>6, <1>7 DEF StoreConsistent
  <1>9. CoreInv
    <2>1. DOMAIN undo \subseteq Block /\ sealed \subseteq Block /\ DOMAIN store \subseteq Block
      BY <1>6, TreeAssumption DEF Init
    <2>2. store \in [DOMAIN store -> [height : Nat, work : Nat]]
      BY <1>6, <1>7 DEF Init
    <2>3. 2..Len(chain) = {} /\ finalized \in 0..(Len(chain) - 1)
      BY <1>1 DEF Init
    <2> QED BY <1>4, <1>5, <1>8, <2>1, <2>2, <2>3 DEF CoreInv
  <1>10. op = Idle /\ op.pc = "idle" /\ op \in OpType
    BY TreeAssumption DEF Init, Idle, OpType
  <1>11. LeafInv
    BY <1>6, <1>10 DEF LeafInv, Leaf, Deciding
  <1>12. PhaseInv
    BY <1>10 DEF PhaseInv, Deciding
  <1>13. RestInv
    <2>1. orphans \in [Block -> Seq(Block \ {Genesis})] /\ displaced \subseteq Block /\ stack \in Seq(FrameType)
      BY DEF Init
    <2> QED BY <1>10, <2>1 DEF RestInv
  <1> QED BY <1>9, <1>11, <1>12, <1>13 DEF IInv

-----------------------------------------------------------------------------
(* A step that leaves chain, ledger and store alone keeps the core         *)
(* invariant.                                                              *)
LEMMA CoreSame ==
  ASSUME CoreInv, UNCHANGED <<core, store>>
  PROVE  CoreInv' /\ Tip' = Tip /\ chain' = chain /\ store' = store
  BY DEF CoreInv, StoreConsistent, Tip, core

(* Storing a side block whose parent is stored keeps the core invariant.   *)
LEMMA CoreInsert ==
  ASSUME CoreInv, NEW b \in Block \ {Genesis}, b \notin DOMAIN store, Parent[b] \in DOMAIN store,
         store' = Insert(store, b, [height |-> store[Parent[b]].height + 1,
                                    work |-> store[Parent[b]].work + Body[b].work]),
         UNCHANGED core
  PROVE  CoreInv' /\ chain' = chain /\ DOMAIN store' = DOMAIN store \cup {b}
  <1> DEFINE new == [height |-> store[Parent[b]].height + 1, work |-> store[Parent[b]].work + Body[b].work]
  <1>1. /\ DOMAIN store' = DOMAIN store \cup {b} /\ store'[b] = new
        /\ \A x \in DOMAIN store : store'[x] = store[x]
        /\ store' = [x \in DOMAIN store' |-> store'[x]]
    BY DEF Insert
  <1>2. /\ chain' = chain /\ ledger' = ledger /\ undo' = undo /\ finalized' = finalized /\ sealed' = sealed
    BY DEF core
  <1>3. new \in [height : Nat, work : Nat]
    <2>1. store[Parent[b]] \in [height : Nat, work : Nat]
      BY DEF CoreInv
    <2>2. Body[b].work \in Nat
      BY BodyAssumption
    <2> QED BY <2>1, <2>2
  <1> HIDE DEF new
  <1>4. DOMAIN store' \subseteq Block /\ store' \in [DOMAIN store' -> [height : Nat, work : Nat]]
    BY <1>1, <1>3 DEF CoreInv
  <1>5. StoreConsistent'
    BY <1>1, <1>2 DEF CoreInv, StoreConsistent
  <1> QED BY <1>1, <1>2, <1>4, <1>5 DEF CoreInv, Tip

(* Removing a side block that no stored block builds on keeps the core     *)
(* invariant.                                                              *)
LEMMA CoreDelete ==
  ASSUME CoreInv, NEW b, Leaf(b), \A i \in 1..Len(chain) : chain[i] # b,
         store' = Delete(store, b), UNCHANGED <<chain, ledger, undo, finalized>>, (sealed' = sealed \/ Sealing)
  PROVE  CoreInv' /\ chain' = chain /\ Tip' = Tip /\ DOMAIN store' = DOMAIN store \ {b}
  <1>1. /\ DOMAIN store' = DOMAIN store \ {b} /\ \A x \in DOMAIN store \ {b} : store'[x] = store[x]
        /\ store' = [x \in DOMAIN store' |-> store'[x]]
    BY Zenon DEF Delete
  <1>2. /\ chain' = chain /\ ledger' = ledger /\ undo' = undo /\ finalized' = finalized
        /\ sealed' \subseteq Block
    BY SealedBlocks DEF CoreInv
  <1>3. DOMAIN store' \subseteq Block /\ store' \in [DOMAIN store' -> [height : Nat, work : Nat]]
    BY <1>1 DEF CoreInv
  <1>4. StoreConsistent'
    <2>1. DOMAIN chain = 1..Len(chain)
      BY CoreTyped
    <2> QED BY <1>1, <1>2, <2>1 DEF CoreInv, StoreConsistent, Leaf
  <1> QED BY <1>1, <1>2, <1>3, <1>4 DEF CoreInv, Tip

-----------------------------------------------------------------------------
(* The two values op has when no side block is being decided on are typed. *)
LEMMA RestingOps ==
  /\ Idle \in OpType /\ Idle.pc = "idle"
  /\ Draining \in OpType /\ Draining.pc = "drain"
  <1>1. Genesis \in Block /\ <<>> \in Seq(Block) /\ 0 \in Nat
    BY TreeAssumption
  <1>2. Idle.pc = "idle" /\ Draining.pc = "drain"
    BY Zenon DEF Idle, Draining
  <1>3. Idle \in OpType
    BY Zenon, <1>1 DEF Idle, OpType
  <1>4. Draining = [pc |-> "drain", blk |-> Genesis, branch |-> <<>>, fork |-> 0, old |-> <<>>,
                    made |-> 0, before |-> <<>>]
    BY DEF Idle, Draining
  <1>5. Draining \in OpType
    BY Zenon, <1>1, <1>4 DEF OpType
  <1> QED BY Zenon, <1>2, <1>3, <1>5

(* After an error return the call is idle or in a drain loop.              *)
LEMMA ErrReturned ==
  ASSUME NEW frames \in Seq(FrameType), ReturnErr(frames)
  PROVE  /\ stack' \in Seq(FrameType) /\ op' \in OpType /\ op'.pc \in {"idle", "drain"}
         /\ op'.pc = "drain" => stack' # <<>>
  <1>1. CASE frames = <<>>
    BY <1>1, RestingOps DEF ReturnErr
  <1>2. CASE frames # <<>>
    BY <1>2, RestingOps DEF ReturnErr
  <1> QED BY <1>1, <1>2

(* Starting a drain pushes a frame of the right type.                      *)
LEMMA DrainStarted ==
  ASSUME NEW frames \in Seq(FrameType), NEW b \in Block, NEW adv \in BOOLEAN, Tip' \in Block,
         StartDrain(b, adv, frames)
  PROVE  /\ stack' \in Seq(FrameType) /\ op' \in OpType /\ op'.pc \in {"idle", "drain"}
         /\ op'.pc = "drain" => stack' # <<>>
  <1> DEFINE f == [blk |-> b, kids |-> <<>>, tip |-> chain'[Len(chain')], advanced |-> adv]
  <1>1. chain'[Len(chain')] \in Block
    BY DEF Tip
  <1>2. f \in FrameType
    <2>1. <<>> \in Seq(Block \ {Genesis})
      OBVIOUS
    <2> QED BY <1>1, <2>1 DEF FrameType
  <1>3. stack' = Append(frames, f) /\ op' = Draining
    BY DEF StartDrain
  <1> HIDE DEF f
  <1>4. stack' \in Seq(FrameType) /\ stack' # <<>>
    BY <1>2, <1>3
  <1> QED BY <1>3, <1>4, RestingOps

(* Outside a decision about a side block the invariant asks for the core,  *)
(* the types, and that no stored block builds on the tip.                  *)
LEMMA RestingStep ==
  ASSUME CoreInv', orphans' \in [Block -> Seq(Block \ {Genesis})], displaced' \subseteq Block,
         stack' \in Seq(FrameType), op' \in OpType, op'.pc \in {"idle", "drain"},
         op'.pc = "drain" => stack' # <<>>,
         \A x \in DOMAIN store' \ {Genesis} : Parent[x] # Tip'
  PROVE  IInv'
  <1>1. ~Deciding'
    BY DEF Deciding
  <1>2. LeafInv'
    BY <1>1 DEF LeafInv, Leaf
  <1>3. PhaseInv'
    BY Zenon, <1>1 DEF PhaseInv, Deciding
  <1>4. RestInv'
    BY DEF RestInv
  <1> QED BY <1>2, <1>3, <1>4 DEF IInv

(* After connect_block of a block without stored children no stored block  *)
(* builds on the new tip.                                                  *)
LEMMA ExtensionLeaf ==
  ASSUME CoreInv, NEW b \in Block \ {Genesis}, Connectable(b), connect_block(b),
         Leaf(b)
  PROVE  /\ \A x \in DOMAIN store' \ {Genesis} : Parent[x] # Tip'
         /\ Tip' \in Block
  <1>1. Tip' = b /\ DOMAIN store' = DOMAIN store \cup {b}
    BY Zenon, ConnectEffect
  <1>2. Parent[b] # b
    <2>1. Parent[b] = Tip /\ Tip = chain[Len(chain)] /\ Len(chain) \in 1..Len(chain)
      BY CoreTyped DEF Connectable, Tip
    <2>2. \A i \in 1..Len(chain) : chain[i] # b
      BY Zenon, ConnectEffect
    <2> QED BY <2>1, <2>2
  <1> QED BY <1>1, <1>2 DEF Leaf

(* A block that is not stored has no stored children.                      *)
LEMMA UnstoredLeaf ==
  ASSUME CoreInv, NEW b, b \notin DOMAIN store
  PROVE  Leaf(b)
  BY DEF CoreInv, StoreConsistent, Leaf

(* A pruned orphan pool is an orphan pool.                                 *)
LEMMA PoolPruned ==
  ASSUME NEW pool \in [Block -> Seq(Block \ {Genesis})], NEW p \in prune_orphan_pool(pool)
  PROVE  p \in [Block -> Seq(Block \ {Genesis})]
  <1>1. p = pool \/ \E q \in Block : p = [pool EXCEPT ![q] = <<>>]
    BY DEF prune_orphan_pool
  <1>2. <<>> \in Seq(Block \ {Genesis})
    OBVIOUS
  <1> QED BY Zenon, <1>1, <1>2

(* The entry of process_block, up to its first loop, keeps the invariant,  *)
(* whether a handler or the orphan drain calls it.                         *)
LEMMA ProcessBlock ==
  ASSUME IInv, ~Deciding, NEW b \in Block \ {Genesis}, NEW frames \in Seq(FrameType),
         process_block(b, frames)
  PROVE  IInv'
  <1>1. CoreInv /\ orphans \in [Block -> Seq(Block \ {Genesis})] /\ displaced \subseteq Block
    BY DEF IInv, RestInv
  <1>2. Leaf(Tip)
    BY DEF IInv, LeafInv
  <1>3. Tip \in Block /\ Parent[b] \in Block
    BY <1>1, CoreTyped, TreeAssumption
  <1>4. CASE ParkOrphan(b, frames)
    <2>1. CoreInv' /\ Tip' = Tip /\ store' = store
      BY <1>1, <1>4, CoreSame DEF ParkOrphan
    <2>2. orphans' \in [Block -> Seq(Block \ {Genesis})]
      <3> DEFINE pool == [orphans EXCEPT ![Parent[b]] = Append(@, b)]
      <3>1. Append(orphans[Parent[b]], b) \in Seq(Block \ {Genesis})
        BY <1>1, <1>3
      <3>2. pool \in [Block -> Seq(Block \ {Genesis})]
        BY <1>1, <1>3, <3>1
      <3>3. orphans' \in prune_orphan_pool(pool)
        BY <1>4 DEF ParkOrphan
      <3> HIDE DEF pool
      <3> QED BY Zenon, <3>2, <3>3, PoolPruned
    <2>3. ReturnErr(frames) /\ displaced' = displaced
      BY <1>4 DEF ParkOrphan
    <2>4. \A x \in DOMAIN store' \ {Genesis} : Parent[x] # Tip'
      BY <1>2, <2>1 DEF Leaf
    <2> QED BY <1>1, <2>1, <2>2, <2>3, <2>4, ErrReturned, RestingStep
  <1>5. CASE RejectEarly(b, frames) \/ RejectExtension(b, frames)
    <2>1. ReturnErr(frames) /\ UNCHANGED <<core, store, orphans, displaced>>
      BY <1>5 DEF RejectEarly, RejectExtension
    <2>2. CoreInv' /\ Tip' = Tip /\ store' = store
      BY <1>1, <2>1, CoreSame
    <2>3. \A x \in DOMAIN store' \ {Genesis} : Parent[x] # Tip'
      BY <1>2, <2>2 DEF Leaf
    <2> QED BY <1>1, <2>1, <2>2, <2>3, ErrReturned, RestingStep
  <1>6. CASE ExtendTip(b, frames)
    <2>1. Connectable(b) /\ connect_block(b) /\ Sealing /\ b \notin DOMAIN store /\ StartDrain(b, TRUE, frames)
          /\ UNCHANGED <<orphans, displaced>>
      BY Zenon, <1>6 DEF ExtendTip, Admissible
    <2>2. CoreInv'
      BY <1>1, <2>1, ConnectKeepsCore
    <2>3. Tip' \in Block /\ \A x \in DOMAIN store' \ {Genesis} : Parent[x] # Tip'
      BY <1>1, <2>1, UnstoredLeaf, ExtensionLeaf
    <2>4. /\ stack' \in Seq(FrameType) /\ op' \in OpType /\ op'.pc \in {"idle", "drain"}
          /\ op'.pc = "drain" => stack' # <<>>
      BY Zenon, <2>1, <2>3, DrainStarted
    <2> QED BY <1>1, <2>1, <2>2, <2>3, <2>4, RestingStep
  <1>7. CASE StoreSideBlock(b, frames)
    <2>1. /\ b \notin DOMAIN store /\ Parent[b] \in DOMAIN store /\ Parent[b] # Tip
          /\ store' = Insert(store, b, [height |-> store[Parent[b]].height + 1,
                                        work |-> store[Parent[b]].work + Body[b].work])
          /\ op' = [Idle EXCEPT !.pc = "walk", !.blk = b, !.before = chain]
          /\ stack' = frames /\ UNCHANGED core /\ UNCHANGED <<orphans, displaced>>
      BY <1>7 DEF StoreSideBlock, Admissible
    <2>2. CoreInv' /\ chain' = chain /\ DOMAIN store' = DOMAIN store \cup {b}
      BY Zenon, <1>1, <2>1, CoreInsert
    <2>3. /\ op'.pc = "walk" /\ op'.blk = b /\ op'.branch = <<>> /\ op'.fork = 0 /\ op'.old = <<>>
          /\ op'.made = 0 /\ op'.before = chain
      BY <2>1 DEF Idle
    <2>4. op' \in OpType
      <3>1. chain \in Seq(Block)
        BY <1>1, CoreTyped
      <3>2. op' = [pc |-> "walk", blk |-> b, branch |-> <<>>, fork |-> 0, old |-> <<>>,
                   made |-> 0, before |-> chain]
        BY Zenon, <2>1 DEF Idle
      <3>3. <<>> \in Seq(Block)
        OBVIOUS
      <3> QED BY <3>1, <3>2, <3>3 DEF OpType
    <2>5. Leaf(b) /\ Parent[b] # b
      BY <1>1, <2>1, UnstoredLeaf
    <2>6. Deciding'
      BY <2>3 DEF Deciding
    <2>7. LeafInv'
      <3>1. Leaf(op.blk)'
        BY <2>2, <2>3, <2>5 DEF Leaf
      <3>2. Leaf(op.before[Len(op.before)])'
        BY <1>2, <2>1, <2>2, <2>3 DEF Leaf, Tip
      <3> QED BY <2>6, <3>1, <3>2 DEF LeafInv
    <2>8. PhaseInv'
      <3>1. GoodChain(chain) /\ \A i \in 1..Len(chain) : chain[i] # b /\ chain[i] \in DOMAIN store
        BY Zenon, <1>1, <2>1, CoreTyped DEF CoreInv
      <3>2. BranchInv'
        BY <2>3 DEF BranchInv
      <3> QED BY <2>2, <2>3, <2>6, <3>1, <3>2 DEF PhaseInv, Deciding
    <2>9. RestInv'
      BY <1>1, <2>1, <2>3, <2>4 DEF RestInv
    <2> QED BY <2>2, <2>7, <2>8, <2>9 DEF IInv
  <1> QED BY <1>4, <1>5, <1>6, <1>7 DEF process_block

-----------------------------------------------------------------------------
(***************************************************************************)
(* find_reorg_path, the decision about the tip and the disconnect loop of  *)
(* reorg_to_tip.                                                           *)
(***************************************************************************)
(* What the invariant says while a side block is being decided on.         *)
LEMMA DecidingFacts ==
  ASSUME IInv, Deciding
  PROVE  /\ CoreInv /\ RestInv /\ op \in OpType
         /\ op.blk \in DOMAIN store \ {Genesis} /\ op.blk \in Block
         /\ GoodChain(op.before) /\ op.before \in Seq(Block) /\ Len(op.before) \in Nat \ {0}
         /\ \A i \in 1..Len(op.before) : op.before[i] # op.blk /\ op.before[i] \in DOMAIN store
         /\ op.branch \in Seq(Block) /\ op.old \in Seq(Block)
         /\ Len(op.branch) \in Nat /\ Len(op.old) \in Nat
         /\ op.fork \in Nat /\ op.made \in Nat
         /\ BranchInv /\ Leaf(op.blk) /\ Leaf(op.before[Len(op.before)])
         /\ Len(chain) \in Nat \ {0} /\ chain \in Seq(Block)
  <1>1. CoreInv /\ RestInv /\ op \in OpType /\ PhaseInv /\ LeafInv
    BY DEF IInv, RestInv
  <1>2. op.blk \in DOMAIN store \ {Genesis} /\ GoodChain(op.before) /\ BranchInv
        /\ \A i \in 1..Len(op.before) : op.before[i] # op.blk /\ op.before[i] \in DOMAIN store
    BY <1>1 DEF PhaseInv
  <1>3. Leaf(op.blk) /\ Leaf(op.before[Len(op.before)])
    BY <1>1 DEF LeafInv
  <1>4. /\ op.branch \in Seq(Block) /\ op.old \in Seq(Block) /\ op.fork \in Nat /\ op.made \in Nat
        /\ op.before \in Seq(Block) /\ op.blk \in Block
    BY <1>1 DEF OpType
  <1>5. Len(op.before) \in Nat \ {0}
    BY <1>2, ChainTyped
  <1>6. Len(chain) \in Nat \ {0} /\ chain \in Seq(Block)
    BY <1>1, CoreTyped
  <1>7. Len(op.branch) \in Nat /\ Len(op.old) \in Nat
    BY <1>4
  <1> QED BY <1>1, <1>2, <1>3, <1>4, <1>5, <1>6, <1>7

(* A step that stays within the decision about the same block keeps the    *)
(* parts of the invariant that do not depend on the phase.                 *)
LEMMA StillDeciding ==
  ASSUME IInv, Deciding, Deciding', CoreInv', op' \in OpType, op'.blk = op.blk,
         op'.before = op.before, DOMAIN store' = DOMAIN store, UNCHANGED <<orphans, displaced, stack>>
  PROVE  LeafInv' /\ RestInv' /\ op'.blk \in DOMAIN store' \ {Genesis} /\ GoodChain(op'.before)
         /\ \A i \in 1..Len(op'.before) : op'.before[i] # op'.blk /\ op'.before[i] \in DOMAIN store'
  <1>1. /\ op.blk \in DOMAIN store \ {Genesis} /\ GoodChain(op.before) /\ RestInv
        /\ \A i \in 1..Len(op.before) : op.before[i] # op.blk /\ op.before[i] \in DOMAIN store
        /\ Leaf(op.blk) /\ Leaf(op.before[Len(op.before)])
    BY DecidingFacts
  <1>2. LeafInv'
    BY <1>1 DEF LeafInv, Leaf
  <1>3. RestInv'
    BY Zenon, <1>1 DEF RestInv, Deciding
  <1> QED BY <1>1, <1>2, <1>3

(* A step of find_reorg_path up the branch.                                *)
LEMMA WalkBackInv ==
  ASSUME IInv, WalkBack
  PROVE  IInv'
  <1>1. op.pc = "walk" /\ Deciding
    BY DEF WalkBack, Deciding
  <1>2. /\ CoreInv /\ op \in OpType /\ op.blk \in DOMAIN store \ {Genesis} /\ op.branch \in Seq(Block)
        /\ BranchInv /\ Len(op.branch) \in Nat /\ DOMAIN store \subseteq Block
    BY <1>1, DecidingFacts DEF CoreInv
  <1>3. chain = op.before /\ op.old = <<>> /\ op.made = 0
    BY <1>1 DEF IInv, PhaseInv
  <1>4. Cursor \in DOMAIN store \ {Genesis}
    <2>1. Cursor # Genesis
      <3>1. 1 \in DOMAIN chain /\ chain[1] = Genesis
        BY <1>2, CoreTyped
      <3> QED BY <3>1 DEF WalkBack, OnMainChain
    <2>2. CASE op.branch = <<>>
      BY <1>2, <2>1, <2>2 DEF Cursor
    <2>3. CASE op.branch # <<>>
      <3>1. 1 \in 1..Len(op.branch) /\ Head(op.branch) = op.branch[1]
        BY <1>2, <2>3
      <3>2. op.branch[1] \in DOMAIN store \ {Genesis}
        BY <1>2, <3>1 DEF BranchInv
      <3>3. Parent[op.branch[1]] \in DOMAIN store
        BY <1>2, <3>2 DEF CoreInv, StoreConsistent
      <3> QED BY <2>1, <2>3, <3>1, <3>3 DEF Cursor
    <2> QED BY <2>2, <2>3
  <1>5. CoreInv' /\ chain' = chain /\ store' = store
    BY <1>2, CoreSame DEF WalkBack
  <1> DEFINE br == <<Cursor>> \o op.branch
  <1>6. /\ br \in Seq(Block) /\ Len(br) = Len(op.branch) + 1
        /\ \A i \in 1..Len(br) : br[i] = IF i = 1 THEN Cursor ELSE op.branch[i - 1]
    <2>1. Cursor \in Block /\ <<Cursor>> \in Seq(Block) /\ Len(<<Cursor>>) = 1 /\ <<Cursor>>[1] = Cursor
      BY <1>2, <1>4
    <2>2. /\ br \in Seq(Block) /\ Len(br) = Len(<<Cursor>>) + Len(op.branch)
          /\ \A i \in 1..(Len(<<Cursor>>) + Len(op.branch)) :
               br[i] = IF i <= Len(<<Cursor>>) THEN <<Cursor>>[i] ELSE op.branch[i - Len(<<Cursor>>)]
      BY <1>2, <2>1
    <2> HIDE DEF br
    <2> QED BY <1>2, <2>1, <2>2
  <1> HIDE DEF br
  <1>7. op' = [op EXCEPT !.branch = br]
    BY DEF WalkBack, br
  <1>8. /\ op'.pc = "walk" /\ op'.blk = op.blk /\ op'.before = op.before /\ op'.branch = br
        /\ op'.old = <<>> /\ op'.made = 0 /\ op' \in OpType
    BY Zenon, <1>1, <1>2, <1>3, <1>6, <1>7 DEF OpType
  <1>9. Deciding'
    BY <1>8 DEF Deciding
  <1>10. LeafInv' /\ RestInv' /\ op'.blk \in DOMAIN store' \ {Genesis} /\ GoodChain(op'.before)
         /\ \A i \in 1..Len(op'.before) : op'.before[i] # op'.blk /\ op'.before[i] \in DOMAIN store'
    BY <1>1, <1>5, <1>8, <1>9, StillDeciding DEF WalkBack
  <1>11. BranchInv'
    <2>1. \A i \in 1..Len(br) : br[i] \in DOMAIN store \ {Genesis}
      <3> SUFFICES ASSUME NEW i \in 1..Len(br) PROVE br[i] \in DOMAIN store \ {Genesis}
        OBVIOUS
      <3>1. CASE i = 1
        BY <1>4, <1>6, <3>1
      <3>2. CASE i # 1
        <4>1. i - 1 \in 1..Len(op.branch)
          BY <1>2, <1>6, <3>2
        <4> QED BY <1>2, <1>6, <3>2, <4>1 DEF BranchInv
      <3> QED BY <3>1, <3>2
    <2>2. br[Len(br)] = op.blk
      <3>1. CASE op.branch = <<>>
        <4>1. Len(br) = 1 /\ 1 \in 1..Len(br)
          BY <1>6, <3>1
        <4> QED BY <1>6, <3>1, <4>1 DEF Cursor
      <3>2. CASE op.branch # <<>>
        <4>1. Len(br) \in 1..Len(br) /\ Len(br) # 1 /\ Len(br) - 1 = Len(op.branch)
          BY <1>2, <1>6, <3>2
        <4> QED BY <1>2, <1>6, <3>2, <4>1 DEF BranchInv
      <3> QED BY <3>1, <3>2
    <2> QED BY <1>5, <1>8, <2>1, <2>2 DEF BranchInv
  <1>12. PhaseInv'
    BY <1>3, <1>5, <1>8, <1>10, <1>11 DEF PhaseInv, Deciding
  <1> QED BY <1>5, <1>10, <1>12 DEF IInv

(* find_reorg_path reaches the main chain.                                 *)
LEMMA WalkDoneInv ==
  ASSUME IInv, WalkDone
  PROVE  IInv'
  <1>1. op.pc = "walk" /\ Deciding
    BY DEF WalkDone, Deciding
  <1>2. /\ CoreInv /\ op \in OpType /\ op.branch \in Seq(Block) /\ BranchInv /\ Len(op.branch) \in Nat
        /\ Leaf(op.before[Len(op.before)]) /\ Len(chain) \in Nat \ {0}
        /\ \A i \in 1..Len(op.before) : op.before[i] # op.blk
    BY <1>1, DecidingFacts
  <1>3. chain = op.before /\ op.old = <<>> /\ op.made = 0
    BY <1>1 DEF IInv, PhaseInv
  <1>4. CoreInv' /\ chain' = chain /\ store' = store
    BY <1>2, CoreSame DEF WalkDone
  <1>5. PICK j \in 1..Len(chain) : chain[j] = Cursor
    BY <1>2, CoreTyped DEF WalkDone, OnMainChain
  <1>6. store[Cursor].height = j - 1
    <2>1. j \in DOMAIN chain
      BY <1>2, <1>5, CoreTyped
    <2>2. store[chain[j]] = [height |-> j - 1, work |-> LedgerAt[chain[j]].work]
      BY <1>2, <2>1 DEF CoreInv, StoreConsistent
    <2> QED BY <1>5, <2>2
  <1>7. op.branch # <<>>
    BY <1>2, <1>3, <1>5 DEF Cursor
  <1>8. j # Len(chain)
    <2>1. 1 \in 1..Len(op.branch) /\ Head(op.branch) = op.branch[1]
      BY <1>2, <1>7
    <2>2. op.branch[1] \in DOMAIN store \ {Genesis}
      BY <1>2, <2>1 DEF BranchInv
    <2>3. Parent[op.branch[1]] # chain[Len(chain)]
      BY <1>2, <1>3, <2>2 DEF Leaf
    <2> QED BY <1>5, <1>7, <2>1, <2>3 DEF Cursor
  <1>9. op' = [op EXCEPT !.pc = "decide", !.fork = j - 1] /\ j - 1 \in Nat
    <2>1. j - 1 \in Nat
      BY <1>2, <1>5
    <2> QED BY <1>6, <2>1 DEF WalkDone
  <1>10. /\ op'.pc = "decide" /\ op'.blk = op.blk /\ op'.before = op.before /\ op'.branch = op.branch
         /\ op'.old = <<>> /\ op'.made = 0 /\ op'.fork = j - 1 /\ op' \in OpType
    BY Zenon, <1>2, <1>3, <1>9 DEF OpType
  <1>11. Deciding'
    BY <1>10 DEF Deciding
  <1>12. LeafInv' /\ RestInv' /\ op'.blk \in DOMAIN store' \ {Genesis} /\ GoodChain(op'.before)
         /\ \A i \in 1..Len(op'.before) : op'.before[i] # op'.blk /\ op'.before[i] \in DOMAIN store'
    BY <1>1, <1>4, <1>10, <1>11, StillDeciding DEF WalkDone
  <1>13. BranchInv'
    BY <1>2, <1>4, <1>10 DEF BranchInv
  <1>14. ForkInv'
    <2>1. op'.fork + 1 = j /\ j < Len(op'.before)
      BY <1>2, <1>3, <1>5, <1>8, <1>10
    <2> QED BY <1>7, <1>10, <2>1 DEF ForkInv
  <1>15. PhaseInv'
    BY <1>3, <1>4, <1>10, <1>12, <1>13, <1>14 DEF PhaseInv, Deciding
  <1> QED BY <1>4, <1>12, <1>15 DEF IInv

(* What is known when fork choice decides.                                 *)
LEMMA DecideFacts ==
  ASSUME IInv, op.pc = "decide"
  PROVE  /\ Deciding /\ chain = op.before /\ op.old = <<>> /\ op.made = 0 /\ ForkInv
         /\ Tip = op.before[Len(op.before)] /\ Leaf(Tip) /\ Tip \in Block
  <1>1. Deciding
    BY DEF Deciding
  <1>2. chain = op.before /\ op.old = <<>> /\ op.made = 0 /\ ForkInv
    BY Zenon, <1>1 DEF IInv, PhaseInv
  <1>3. Leaf(op.before[Len(op.before)]) /\ CoreInv
    BY <1>1, DecidingFacts
  <1> QED BY <1>1, <1>2, <1>3, CoreTyped DEF Tip

(* The tip is kept and the block stays on its side chain.                  *)
LEMMA KeepTipInv ==
  ASSUME IInv, KeepTip
  PROVE  IInv'
  <1>1. op.pc = "decide" /\ UNCHANGED <<core, store, orphans, displaced>> /\ StartDrain(op.blk, FALSE, stack)
    BY Zenon DEF KeepTip
  <1>2. Deciding /\ Leaf(Tip) /\ Tip \in Block
    BY <1>1, DecideFacts
  <1>3. CoreInv /\ RestInv /\ op.blk \in Block
    BY <1>2, DecidingFacts
  <1>4. CoreInv' /\ Tip' = Tip /\ store' = store
    BY <1>1, <1>3, CoreSame
  <1>5. /\ stack \in Seq(FrameType) /\ orphans \in [Block -> Seq(Block \ {Genesis})] /\ displaced \subseteq Block
    BY <1>3 DEF RestInv
  <1>6. /\ stack' \in Seq(FrameType) /\ op' \in OpType /\ op'.pc \in {"idle", "drain"}
        /\ op'.pc = "drain" => stack' # <<>>
    BY Zenon, <1>1, <1>2, <1>3, <1>4, <1>5, DrainStarted
  <1>7. \A x \in DOMAIN store' \ {Genesis} : Parent[x] # Tip'
    BY <1>2, <1>4 DEF Leaf
  <1> QED BY Zenon, <1>1, <1>4, <1>5, <1>6, <1>7, RestingStep

(* The candidate block is dropped from the store and the call fails.       *)
LEMMA DropCandidate ==
  ASSUME IInv, Deciding, chain = op.before, store' = Delete(store, op.blk), ReturnErr(stack),
         UNCHANGED <<chain, ledger, undo, finalized, orphans, displaced>>, (sealed' = sealed \/ Sealing)
  PROVE  IInv'
  <1>1. /\ CoreInv /\ RestInv /\ Leaf(op.blk) /\ Leaf(Tip)
        /\ \A i \in 1..Len(chain) : chain[i] # op.blk
    BY DecidingFacts DEF Tip
  <1>2. CoreInv' /\ Tip' = Tip /\ DOMAIN store' = DOMAIN store \ {op.blk}
    BY <1>1, CoreDelete
  <1>3. stack \in Seq(FrameType) /\ orphans \in [Block -> Seq(Block \ {Genesis})] /\ displaced \subseteq Block
    BY <1>1 DEF RestInv
  <1>4. \A x \in DOMAIN store' \ {Genesis} : Parent[x] # Tip'
    BY <1>1, <1>2 DEF Leaf
  <1> QED BY <1>2, <1>3, <1>4, ErrReturned, RestingStep

(* The reorganisation is refused and the block removed.                    *)
LEMMA RefuseReorgInv ==
  ASSUME IInv, RefuseReorg
  PROVE  IInv'
  <1>1. op.pc = "decide" /\ store' = Delete(store, op.blk) /\ ReturnErr(stack)
        /\ UNCHANGED <<chain, ledger, undo, finalized, orphans, displaced, sealed>>
    BY DEF RefuseReorg, core
  <1>2. Deciding /\ chain = op.before
    BY <1>1, DecideFacts
  <1> QED BY <1>1, <1>2, DropCandidate

(* The reorganisation starts with the whole old chain in place.            *)
LEMMA StartReorgInv ==
  ASSUME IInv, StartReorg
  PROVE  IInv'
  <1>1. op.pc = "decide" /\ op' = [op EXCEPT !.pc = "disconnect"]
        /\ UNCHANGED <<core, store, orphans, displaced, stack>>
    BY DEF StartReorg
  <1>2. Deciding /\ chain = op.before /\ op.old = <<>> /\ op.made = 0 /\ ForkInv
    BY <1>1, DecideFacts
  <1>3. CoreInv /\ op \in OpType /\ BranchInv /\ Len(op.before) \in Nat
    BY <1>2, DecidingFacts
  <1>4. CoreInv' /\ chain' = chain /\ store' = store
    BY <1>1, <1>3, CoreSame
  <1>5. /\ op'.pc = "disconnect" /\ op'.blk = op.blk /\ op'.before = op.before /\ op'.branch = op.branch
        /\ op'.old = <<>> /\ op'.made = 0 /\ op'.fork = op.fork /\ op' \in OpType
    BY <1>1, <1>2, <1>3 DEF OpType
  <1>6. Deciding'
    BY <1>5 DEF Deciding
  <1>7. LeafInv' /\ RestInv' /\ op'.blk \in DOMAIN store' \ {Genesis} /\ GoodChain(op'.before)
        /\ \A i \in 1..Len(op'.before) : op'.before[i] # op'.blk /\ op'.before[i] \in DOMAIN store'
    BY <1>1, <1>2, <1>4, <1>5, <1>6, StillDeciding
  <1>8. BranchInv' /\ ForkInv'
    BY <1>2, <1>3, <1>4, <1>5 DEF BranchInv, ForkInv
  <1>9. Peeled(Len(chain))' /\ op'.fork + 1 < Len(chain')
    <2>1. Len(op'.old) = 0 /\ 1..0 = {}
      BY <1>5
    <2> QED BY <1>2, <1>3, <1>4, <1>5, <2>1 DEF Peeled, ForkInv
  <1>10. PhaseInv'
    BY <1>5, <1>7, <1>8, <1>9 DEF PhaseInv, Deciding
  <1> QED BY <1>4, <1>7, <1>10 DEF IInv

(* One block of the old branch is disconnected.                            *)
LEMMA DisconnectOldInv ==
  ASSUME IInv, DisconnectOld
  PROVE  IInv'
  <1> DEFINE n == Len(chain)
             m == Len(op.before)
             next == IF TipHeight - 1 > op.fork THEN "disconnect" ELSE "connect"
  <1>1. op.pc = "disconnect" /\ disconnect_tip_block /\ UNCHANGED <<orphans, displaced, stack>>
        /\ op' = [op EXCEPT !.old = Append(@, Tip), !.pc = next]
    BY DEF DisconnectOld
  <1>2. Deciding
    BY <1>1 DEF Deciding
  <1>3. /\ CoreInv /\ op \in OpType /\ BranchInv /\ m \in Nat /\ n \in Nat \ {0} /\ op.fork \in Nat
        /\ op.old \in Seq(Block) /\ Len(op.old) \in Nat /\ Len(op.branch) \in Nat
        /\ op.branch \in Seq(Block)
    BY Zenon, <1>2, DecidingFacts
  <1>4. Peeled(n) /\ op.fork + 1 < n /\ op.made = 0 /\ ForkInv
    BY <1>1, <1>2 DEF IInv, PhaseInv
  <1>5. n >= 2
    BY <1>3, <1>4
  <1>6. CoreInv' /\ Len(chain') = n - 1 /\ \A i \in 1..(n - 1) : chain'[i] = chain[i]
    BY <1>1, <1>3, <1>5, DisconnectKeepsCore
  <1>7. store' = store
    BY <1>1 DEF disconnect_tip_block
  <1>8. Tip \in Block /\ Tip = op.before[n]
    <2>1. n \in 1..n
      BY <1>3
    <2> QED BY <1>3, <1>4, <2>1, CoreTyped DEF Peeled, Tip
  <1>9. /\ Append(op.old, Tip) \in Seq(Block) /\ Len(Append(op.old, Tip)) = Len(op.old) + 1
        /\ \A i \in 1..Len(op.old) : Append(op.old, Tip)[i] = op.old[i]
        /\ Append(op.old, Tip)[Len(op.old) + 1] = Tip
    BY <1>3, <1>8
  <1>10. /\ op'.pc = next /\ op'.blk = op.blk /\ op'.before = op.before /\ op'.branch = op.branch
         /\ op'.old = Append(op.old, Tip) /\ op'.made = 0 /\ op'.fork = op.fork /\ op' \in OpType
    <2>1. next \in {"disconnect", "connect"}
      OBVIOUS
    <2> HIDE DEF next
    <2> QED BY Zenon, <1>1, <1>3, <1>4, <1>9, <2>1 DEF OpType
  <1>11. Deciding'
    BY <1>10 DEF Deciding
  <1>12. LeafInv' /\ RestInv' /\ op'.blk \in DOMAIN store' \ {Genesis} /\ GoodChain(op'.before)
         /\ \A i \in 1..Len(op'.before) : op'.before[i] # op'.blk /\ op'.before[i] \in DOMAIN store'
    BY <1>1, <1>2, <1>6, <1>7, <1>10, <1>11, StillDeciding
  <1>13. BranchInv' /\ ForkInv'
    BY <1>3, <1>4, <1>7, <1>10 DEF BranchInv, ForkInv
  <1>14. Peeled(Len(chain))'
    <2>1. Len(op.old) = m - n /\ n <= m
      BY <1>4 DEF Peeled
    <2>2. Len(op'.old) = m - Len(chain') /\ Len(chain') <= m
      BY <1>3, <1>6, <1>9, <1>10, <2>1
    <2>3. \A i \in 1..Len(chain') : chain'[i] = op'.before[i]
      <3>1. \A i \in 1..(n - 1) : i \in 1..n
        BY <1>3
      <3> QED BY <1>4, <1>6, <1>10, <3>1 DEF Peeled
    <2>4. ASSUME NEW k \in 1..Len(op'.old) PROVE op'.old[k] = op'.before[Len(op'.before) + 1 - k]
      <3>1. CASE k \in 1..Len(op.old)
        BY <1>4, <1>9, <1>10, <3>1 DEF Peeled
      <3>2. CASE k \notin 1..Len(op.old)
        <4>1. k = Len(op.old) + 1
          BY <1>3, <1>9, <1>10, <3>2
        <4>2. m + 1 - k = n
          BY <1>3, <2>1, <4>1
        <4> QED BY Zenon, <1>8, <1>9, <1>10, <4>1, <4>2
      <3> QED BY <3>1, <3>2
    <2>5. Len(chain') <= Len(chain')
      BY <1>3, <1>6
    <2> QED BY <1>10, <2>2, <2>3, <2>4, <2>5 DEF Peeled
  <1>15. CASE op'.pc = "disconnect"
    <2>1. op'.fork + 1 < Len(chain')
      <3>1. n - 1 - 1 > op.fork
        BY <1>10, <1>15 DEF TipHeight
      <3> QED BY <1>3, <1>6, <1>10, <3>1
    <2>2. PhaseInv'
      BY <1>10, <1>12, <1>13, <1>14, <1>15, <2>1 DEF PhaseInv, Deciding
    <2> QED BY <1>6, <1>12, <2>2 DEF IInv
  <1>16. CASE op'.pc = "connect"
    <2>1. ~(n - 1 - 1 > op.fork)
      BY <1>10, <1>16 DEF TipHeight
    <2>2. Len(chain') = op'.fork + 1 /\ Len(chain') = op'.fork + 1 + op'.made
      BY <1>3, <1>4, <1>6, <1>10, <2>1
    <2>3. op'.made < Len(op'.branch)
      BY <1>3, <1>4, <1>10 DEF ForkInv
    <2>4. Peeled(op.fork + 1)'
      BY <1>14, <2>2 DEF Peeled
    <2>5. PhaseInv'
      BY <1>10, <1>12, <1>13, <1>16, <2>2, <2>3, <2>4 DEF PhaseInv, Deciding
    <2> QED BY <1>6, <1>12, <2>5 DEF IInv
  <1> QED BY <1>10, <1>15, <1>16

-----------------------------------------------------------------------------
(***************************************************************************)
(* The connect loop of reorg_to_tip and its rollback.                      *)
(***************************************************************************)
(* What the connect and unwind loops may rely on.                          *)
LEMMA ConnectFacts ==
  ASSUME IInv, op.pc \in {"connect", "unwind"}
  PROVE  /\ Deciding /\ ForkInv /\ Peeled(op.fork + 1) /\ Len(chain) = op.fork + 1 + op.made
         /\ op.made < Len(op.branch)
         /\ op.branch[op.made + 1] \in Block \ {Genesis} /\ op.branch[op.made + 1] \in DOMAIN store
  <1>1. Deciding
    BY DEF Deciding
  <1>2. ForkInv /\ Peeled(op.fork + 1) /\ Len(chain) = op.fork + 1 + op.made /\ op.made < Len(op.branch)
    BY <1>1 DEF IInv, PhaseInv
  <1>3. BranchInv /\ op.made \in Nat /\ Len(op.branch) \in Nat /\ CoreInv
    BY <1>1, DecidingFacts
  <1>4. op.made + 1 \in 1..Len(op.branch)
    BY <1>2, <1>3
  <1>5. op.branch[op.made + 1] \in DOMAIN store \ {Genesis} /\ DOMAIN store \subseteq Block
    BY <1>3, <1>4 DEF BranchInv, CoreInv
  <1> QED BY <1>1, <1>2, <1>5

(* One block of the new branch is connected, not the last.                 *)
LEMMA ConnectNewInv ==
  ASSUME IInv, ConnectNew
  PROVE  IInv'
  <1> DEFINE b == op.branch[op.made + 1]
  <1>1. op.pc = "connect" /\ Connectable(b) /\ connect_block(b) /\ UNCHANGED <<orphans, displaced, stack, sealed>>
        /\ op' = [op EXCEPT !.made = @ + 1] /\ op.made + 1 < Len(op.branch)
    BY DEF ConnectNew
  <1>2. Deciding /\ ForkInv /\ Peeled(op.fork + 1) /\ Len(chain) = op.fork + 1 + op.made
        /\ b \in Block \ {Genesis} /\ b \in DOMAIN store
    BY <1>1, ConnectFacts
  <1>3. /\ CoreInv /\ op \in OpType /\ BranchInv /\ Len(chain) \in Nat \ {0} /\ op.fork \in Nat
        /\ op.made \in Nat
    BY <1>2, DecidingFacts
  <1> HIDE DEF b
  <1>4. CoreInv'
    BY <1>1, <1>2, <1>3, ConnectKeepsCore
  <1>5. Len(chain') = Len(chain) + 1 /\ DOMAIN store' = DOMAIN store
        /\ \A i \in 1..Len(chain) : chain'[i] = chain[i]
    <2>1. Len(chain') = Len(chain) + 1 /\ DOMAIN store' = DOMAIN store \cup {b}
          /\ \A i \in 1..Len(chain) : chain'[i] = chain[i] /\ chain[i] # b
      BY Zenon, <1>1, <1>2, <1>3, ConnectEffect
    <2> QED BY Zenon, <1>2, <2>1
  <1>6. /\ op'.pc = "connect" /\ op'.blk = op.blk /\ op'.before = op.before /\ op'.branch = op.branch
        /\ op'.old = op.old /\ op'.made = op.made + 1 /\ op'.fork = op.fork /\ op' \in OpType
    <2>1. op.made + 1 \in Nat
      BY <1>3
    <2>2. op' = [op EXCEPT !.made = op.made + 1]
      BY <1>1
    <2> QED BY Zenon, <1>1, <1>3, <2>1, <2>2 DEF OpType
  <1>7. Deciding'
    BY <1>6 DEF Deciding
  <1>8. LeafInv' /\ RestInv' /\ op'.blk \in DOMAIN store' \ {Genesis} /\ GoodChain(op'.before)
        /\ \A i \in 1..Len(op'.before) : op'.before[i] # op'.blk /\ op'.before[i] \in DOMAIN store'
    BY <1>1, <1>2, <1>4, <1>5, <1>6, <1>7, StillDeciding
  <1>9. BranchInv' /\ ForkInv'
    BY <1>2, <1>3, <1>5, <1>6 DEF BranchInv, ForkInv
  <1>10. Peeled(op.fork + 1)'
    <2>1. op.fork + 1 <= Len(chain') /\ \A i \in 1..(op.fork + 1) : i \in 1..Len(chain)
      BY <1>2, <1>3, <1>5
    <2> QED BY <1>2, <1>5, <1>6, <2>1 DEF Peeled
  <1>11. Len(chain') = op'.fork + 1 + op'.made
    BY <1>2, <1>3, <1>5, <1>6
  <1>12. PhaseInv'
    BY <1>1, <1>6, <1>8, <1>9, <1>10, <1>11 DEF PhaseInv, Deciding
  <1> QED BY <1>4, <1>8, <1>12 DEF IInv

(* The last block of the new branch is connected.                          *)
LEMMA FinishReorgInv ==
  ASSUME IInv, FinishReorg
  PROVE  IInv'
  <1>1. op.pc = "connect" /\ Connectable(op.blk) /\ connect_block(op.blk) /\ Sealing /\ orphans' = orphans
        /\ displaced' = displaced \cup {b \in Range(op.old) : Body[b].receipts}
        /\ StartDrain(op.blk, TRUE, stack)
    BY Zenon DEF FinishReorg
  <1>2. Deciding
    BY <1>1 DEF Deciding
  <1>3. CoreInv /\ RestInv /\ op.blk \in Block \ {Genesis} /\ Leaf(op.blk) /\ op.old \in Seq(Block)
    BY <1>2, DecidingFacts
  <1>4. stack \in Seq(FrameType) /\ orphans \in [Block -> Seq(Block \ {Genesis})] /\ displaced \subseteq Block
    BY <1>3 DEF RestInv
  <1>5. CoreInv'
    BY <1>1, <1>3, ConnectKeepsCore
  <1>6. Tip' \in Block /\ \A x \in DOMAIN store' \ {Genesis} : Parent[x] # Tip'
    BY <1>1, <1>3, ExtensionLeaf
  <1>7. displaced' \subseteq Block
    <2>1. Range(op.old) \subseteq Block
      BY <1>3 DEF Range
    <2> QED BY <1>1, <1>4, <2>1
  <1>8. /\ stack' \in Seq(FrameType) /\ op' \in OpType /\ op'.pc \in {"idle", "drain"}
        /\ op'.pc = "drain" => stack' # <<>>
    BY Zenon, <1>1, <1>3, <1>4, <1>6, DrainStarted
  <1> QED BY Zenon, <1>1, <1>4, <1>5, <1>6, <1>7, <1>8, RestingStep

(* A block of the new branch fails to connect.                             *)
LEMMA ConnectFailsInv ==
  ASSUME IInv, ConnectFails
  PROVE  IInv'
  <1> DEFINE next == IF op.made > 0 THEN "unwind" ELSE "restore"
  <1>1. op.pc = "connect" /\ op' = [op EXCEPT !.pc = next]
        /\ UNCHANGED <<core, store, orphans, displaced, stack>>
    BY DEF ConnectFails
  <1>2. Deciding /\ ForkInv /\ Peeled(op.fork + 1) /\ Len(chain) = op.fork + 1 + op.made
        /\ op.made < Len(op.branch)
    BY <1>1, ConnectFacts
  <1>3. CoreInv /\ op \in OpType /\ BranchInv /\ op.fork \in Nat /\ op.made \in Nat
    BY <1>2, DecidingFacts
  <1>4. CoreInv' /\ chain' = chain /\ store' = store
    BY <1>1, <1>3, CoreSame
  <1>5. /\ op'.pc = next /\ op'.blk = op.blk /\ op'.before = op.before /\ op'.branch = op.branch
        /\ op'.old = op.old /\ op'.made = op.made /\ op'.fork = op.fork /\ op' \in OpType
    <2>1. next \in {"unwind", "restore"}
      OBVIOUS
    <2> HIDE DEF next
    <2> QED BY Zenon, <1>1, <1>3, <2>1 DEF OpType
  <1>6. Deciding'
    BY <1>5 DEF Deciding
  <1>7. LeafInv' /\ RestInv' /\ op'.blk \in DOMAIN store' \ {Genesis} /\ GoodChain(op'.before)
        /\ \A i \in 1..Len(op'.before) : op'.before[i] # op'.blk /\ op'.before[i] \in DOMAIN store'
    BY <1>1, <1>2, <1>4, <1>5, <1>6, StillDeciding
  <1>8. BranchInv' /\ ForkInv'
    BY <1>2, <1>3, <1>4, <1>5 DEF BranchInv, ForkInv
  <1>9. Peeled(op.fork + 1)'
    BY <1>2, <1>4, <1>5 DEF Peeled
  <1>10. CASE op.made > 0
    <2>1. op'.pc = "unwind" /\ op'.made >= 1
      BY <1>3, <1>5, <1>10
    <2>2. PhaseInv'
      BY <1>2, <1>4, <1>5, <1>7, <1>8, <1>9, <2>1 DEF PhaseInv, Deciding
    <2> QED BY <1>4, <1>7, <2>2 DEF IInv
  <1>11. CASE ~(op.made > 0)
    <2>1. op'.pc = "restore"
      BY <1>5, <1>11
    <2>2. Len(chain') = op'.fork + 1
      BY <1>2, <1>3, <1>4, <1>5, <1>11
    <2>3. Peeled(Len(chain))'
      BY Zenon, <1>9, <2>2 DEF Peeled
    <2>4. PhaseInv'
      BY Zenon, <1>7, <1>8, <2>1, <2>3 DEF PhaseInv, Deciding
    <2> QED BY <1>4, <1>7, <2>4 DEF IInv
  <1> QED BY <1>10, <1>11

(* One new block is disconnected in the rollback.                          *)
LEMMA UnwindNewInv ==
  ASSUME IInv, UnwindNew
  PROVE  IInv'
  <1> DEFINE next == IF op.made > 1 THEN "unwind" ELSE "restore"
             n == Len(chain)
  <1>1. op.pc = "unwind" /\ disconnect_tip_block /\ UNCHANGED <<orphans, displaced, stack>>
        /\ op' = [op EXCEPT !.made = @ - 1, !.pc = next]
    BY DEF UnwindNew
  <1>2. Deciding /\ ForkInv /\ Peeled(op.fork + 1) /\ n = op.fork + 1 + op.made
        /\ op.made < Len(op.branch)
    BY <1>1, ConnectFacts
  <1>3. CoreInv /\ op \in OpType /\ BranchInv /\ op.fork \in Nat /\ op.made \in Nat /\ Len(op.branch) \in Nat
    BY <1>2, DecidingFacts
  <1>4. op.made >= 1
    BY <1>1 DEF IInv, PhaseInv
  <1>5. n >= 2 /\ op.made - 1 \in Nat
    BY <1>2, <1>3, <1>4
  <1>6. CoreInv' /\ Len(chain') = n - 1 /\ \A i \in 1..(n - 1) : chain'[i] = chain[i]
    BY <1>1, <1>3, <1>5, DisconnectKeepsCore
  <1>7. store' = store
    BY <1>1 DEF disconnect_tip_block
  <1>8. /\ op'.pc = next /\ op'.blk = op.blk /\ op'.before = op.before /\ op'.branch = op.branch
        /\ op'.old = op.old /\ op'.made = op.made - 1 /\ op'.fork = op.fork /\ op' \in OpType
    <2>1. next \in {"unwind", "restore"}
      OBVIOUS
    <2>2. op' = [op EXCEPT !.made = op.made - 1, !.pc = next]
      BY <1>1
    <2> HIDE DEF next
    <2> QED BY Zenon, <1>3, <1>5, <2>1, <2>2 DEF OpType
  <1>9. Deciding'
    BY <1>8 DEF Deciding
  <1>10. LeafInv' /\ RestInv' /\ op'.blk \in DOMAIN store' \ {Genesis} /\ GoodChain(op'.before)
         /\ \A i \in 1..Len(op'.before) : op'.before[i] # op'.blk /\ op'.before[i] \in DOMAIN store'
    BY <1>1, <1>2, <1>6, <1>7, <1>8, <1>9, StillDeciding
  <1>11. BranchInv' /\ ForkInv'
    BY <1>2, <1>3, <1>7, <1>8 DEF BranchInv, ForkInv
  <1>12. Peeled(op.fork + 1)'
    <2>1. op.fork + 1 <= n - 1 /\ \A i \in 1..(op.fork + 1) : i \in 1..(n - 1)
      BY <1>2, <1>3, <1>4
    <2> QED BY <1>2, <1>6, <1>8, <2>1 DEF Peeled
  <1>13. Len(chain') = op'.fork + 1 + op'.made /\ op'.made < Len(op'.branch)
    BY <1>2, <1>3, <1>6, <1>8
  <1>14. CASE op.made > 1
    <2>1. op'.pc = "unwind" /\ op'.made >= 1
      BY <1>3, <1>8, <1>14
    <2>2. PhaseInv'
      BY <1>10, <1>11, <1>12, <1>13, <2>1 DEF PhaseInv, Deciding
    <2> QED BY <1>6, <1>10, <2>2 DEF IInv
  <1>15. CASE ~(op.made > 1)
    <2>1. op'.pc = "restore"
      BY <1>8, <1>15
    <2>2. Len(chain') = op'.fork + 1
      BY <1>3, <1>4, <1>8, <1>13, <1>15
    <2>3. Peeled(Len(chain))'
      BY Zenon, <1>12, <2>2 DEF Peeled
    <2>4. PhaseInv'
      BY <1>10, <1>11, <2>1, <2>3 DEF PhaseInv, Deciding
    <2> QED BY <1>6, <1>10, <2>4 DEF IInv
  <1> QED BY <1>14, <1>15

(* During the rollback the next old block fits the tip, so that the error  *)
(* reorg_to_tip ignores does not occur.                                    *)
LEMMA RestoreConnects ==
  ASSUME IInv, op.pc = "restore", op.old # <<>>
  PROVE  /\ Connectable(Last(op.old)) /\ Last(op.old) = op.before[Len(chain) + 1]
         /\ Last(op.old) \in Block \ {Genesis} /\ Last(op.old) \in DOMAIN store
         /\ Len(chain) + 1 <= Len(op.before)
  <1> DEFINE n == Len(chain)
             m == Len(op.before)
             k == Len(op.old)
  <1>1. Deciding
    BY DEF Deciding
  <1>2. /\ CoreInv /\ GoodChain(op.before) /\ op.before \in Seq(Block) /\ m \in Nat /\ n \in Nat \ {0}
        /\ op.old \in Seq(Block) /\ k \in Nat
        /\ \A i \in 1..m : op.before[i] \in DOMAIN store
    BY Zenon, <1>1, DecidingFacts
  <1>3. Peeled(n)
    BY Zenon DEF IInv, PhaseInv
  <1>4. k >= 1 /\ k = m - n /\ k \in 1..k
    <2>1. k # 0
      BY <1>2
    <2>2. k = m - n
      BY <1>3 DEF Peeled
    <2> QED BY <1>2, <2>1, <2>2
  <1>5. m + 1 - k = n + 1 /\ n + 1 \in 2..m /\ n + 1 \in 1..m /\ n \in 1..n /\ (n + 1) - 1 = n
    BY <1>2, <1>4
  <1>6. Last(op.old) = op.before[n + 1]
    <2>1. op.old[k] = op.before[m + 1 - k]
      BY Zenon, <1>3, <1>4 DEF Peeled
    <2> QED BY Zenon, <1>5, <2>1 DEF Last
  <1>7. /\ op.before[n + 1] # Genesis /\ Parent[op.before[n + 1]] = op.before[n]
        /\ ValidBlock(LedgerAt[op.before[n]], op.before[n + 1])
    BY <1>2, <1>5 DEF GoodChain
  <1>8. op.before[n] = Tip
    BY <1>3, <1>5 DEF Peeled, Tip
  <1>9. ledger = LedgerAt[Tip]
    BY <1>2 DEF CoreInv
  <1>10. op.before[n + 1] \in Block
    BY <1>2, <1>5
  <1> QED BY <1>2, <1>5, <1>6, <1>7, <1>8, <1>9, <1>10 DEF Connectable

(* One old block is reconnected in the rollback.                           *)
LEMMA RestoreOldInv ==
  ASSUME IInv, RestoreOld
  PROVE  IInv'
  <1> DEFINE n == Len(chain)
             b == Last(op.old)
             rest == SubSeq(op.old, 1, Len(op.old) - 1)
  <1>1. op.pc = "restore" /\ op.old # <<>> /\ UNCHANGED <<orphans, displaced, stack>>
    BY DEF RestoreOld
  <1>2. /\ Connectable(b) /\ b = op.before[n + 1] /\ b \in Block \ {Genesis} /\ b \in DOMAIN store
        /\ n + 1 <= Len(op.before)
    BY <1>1, RestoreConnects
  <1>3. connect_block(b) /\ sealed' = sealed /\ op' = [op EXCEPT !.old = rest]
    BY <1>2 DEF RestoreOld, Front
  <1>4. Deciding
    BY <1>1 DEF Deciding
  <1>5. /\ CoreInv /\ op \in OpType /\ BranchInv /\ n \in Nat \ {0} /\ Len(op.before) \in Nat
        /\ op.old \in Seq(Block) /\ Len(op.old) \in Nat
    BY <1>4, DecidingFacts
  <1>6. Peeled(n) /\ ForkInv
    BY <1>1, <1>4 DEF IInv, PhaseInv
  <1> HIDE DEF b
  <1>7. CoreInv'
    BY <1>2, <1>3, <1>5, ConnectKeepsCore
  <1>8. Len(chain') = n + 1 /\ DOMAIN store' = DOMAIN store /\ chain'[n + 1] = b
        /\ \A i \in 1..n : chain'[i] = chain[i]
    <2>1. Len(chain') = n + 1 /\ DOMAIN store' = DOMAIN store \cup {b} /\ chain'[n + 1] = b
          /\ \A i \in 1..n : chain'[i] = chain[i] /\ chain[i] # b
      BY Zenon, <1>2, <1>3, <1>5, ConnectEffect
    <2> QED BY Zenon, <1>2, <2>1
  <1>9. /\ rest \in Seq(Block) /\ Len(rest) = Len(op.old) - 1
        /\ \A i \in 1..(Len(op.old) - 1) : rest[i] = op.old[i]
    <2> DEFINE q == Len(op.old) - 1
    <2>1. q \in Nat
      BY <1>1, <1>5
    <2>2. \A i \in 1..q : op.old[i] \in Block
      BY <1>5
    <2>3. /\ rest \in Seq(Block) /\ Len(rest) = IF 1 <= q THEN q - 1 + 1 ELSE 0
          /\ \A i \in 1..(q - 1 + 1) : rest[i] = op.old[1 + i - 1]
      BY <2>1, <2>2
    <2> HIDE DEF q, rest
    <2>4. rest \in Seq(Block) /\ Len(rest) = q /\ \A i \in 1..q : rest[i] = op.old[i]
      BY <2>1, <2>3
    <2> QED BY <2>4 DEF q
  <1> HIDE DEF rest
  <1>10. /\ op'.pc = "restore" /\ op'.blk = op.blk /\ op'.before = op.before /\ op'.branch = op.branch
         /\ op'.old = rest /\ op'.made = op.made /\ op'.fork = op.fork /\ op' \in OpType
    BY Zenon, <1>1, <1>3, <1>5, <1>9 DEF OpType
  <1>11. Deciding'
    BY <1>10 DEF Deciding
  <1>12. LeafInv' /\ RestInv' /\ op'.blk \in DOMAIN store' \ {Genesis} /\ GoodChain(op'.before)
         /\ \A i \in 1..Len(op'.before) : op'.before[i] # op'.blk /\ op'.before[i] \in DOMAIN store'
    BY <1>1, <1>4, <1>7, <1>8, <1>10, <1>11, StillDeciding
  <1>13. BranchInv' /\ ForkInv'
    BY <1>5, <1>6, <1>8, <1>10 DEF BranchInv, ForkInv
  <1>14. Peeled(Len(chain))'
    <2>1. Len(op.old) = Len(op.before) - n /\ \A i \in 1..n : chain[i] = op.before[i]
      BY <1>6 DEF Peeled
    <2>2. Len(op'.old) = Len(op'.before) - Len(chain') /\ Len(chain') <= Len(op'.before)
          /\ Len(chain') <= Len(chain')
      BY <1>2, <1>5, <1>8, <1>9, <1>10, <2>1
    <2>3. ASSUME NEW i \in 1..(n + 1) PROVE chain'[i] = op.before[i]
      <3>1. CASE i = n + 1
        BY <1>2, <1>8, <3>1
      <3>2. CASE i # n + 1
        <4>1. i \in 1..n
          BY <1>5, <3>2
        <4> QED BY <1>8, <2>1, <4>1
      <3> QED BY <3>1, <3>2
    <2>4. ASSUME NEW k \in 1..Len(rest) PROVE rest[k] = op.before[Len(op.before) + 1 - k]
      <3>1. k \in 1..(Len(op.old) - 1) /\ k \in 1..Len(op.old)
        BY <1>5, <1>9
      <3>2. rest[k] = op.old[k]
        BY <1>9, <3>1
      <3>3. \A j \in 1..Len(op.old) : op.old[j] = op.before[Len(op.before) + 1 - j]
        BY <1>6 DEF Peeled
      <3> QED BY <3>1, <3>2, <3>3
    <2> QED BY <1>8, <1>10, <2>2, <2>3, <2>4 DEF Peeled
  <1>15. PhaseInv'
    BY <1>10, <1>12, <1>13, <1>14 DEF PhaseInv, Deciding
  <1> QED BY <1>7, <1>12, <1>15 DEF IInv

(* With nothing left to restore the chain is the old one.                  *)
LEMMA RestoredChain ==
  ASSUME IInv, op.pc = "restore", op.old = <<>>
  PROVE  Deciding /\ chain = op.before
  <1>1. Deciding
    BY DEF Deciding
  <1>2. chain \in Seq(Block) /\ op.before \in Seq(Block) /\ Len(chain) \in Nat /\ Len(op.before) \in Nat
    BY <1>1, DecidingFacts
  <1>3. Peeled(Len(chain))
    BY DEF IInv, PhaseInv
  <1>4. Len(op.old) = 0 /\ Len(op.old) = Len(op.before) - Len(chain)
        /\ \A i \in 1..Len(chain) : chain[i] = op.before[i]
    BY <1>3 DEF Peeled
  <1>5. Len(chain) = Len(op.before)
    BY <1>2, <1>4
  <1>6. chain = op.before
    BY <1>2, <1>4, <1>5
  <1> QED BY <1>1, <1>6

(* The failed block is removed after the rollback.                         *)
LEMMA AbandonReorgInv ==
  ASSUME IInv, AbandonReorg
  PROVE  IInv'
  <1>1. op.pc = "restore" /\ op.old = <<>> /\ store' = Delete(store, op.blk) /\ ReturnErr(stack)
        /\ UNCHANGED <<chain, ledger, undo, finalized, orphans, displaced>> /\ Sealing
    BY DEF AbandonReorg
  <1>2. Deciding /\ chain = op.before
    BY <1>1, RestoredChain
  <1> QED BY <1>1, <1>2, DropCandidate

-----------------------------------------------------------------------------
(***************************************************************************)
(* The orphan drain, the calls of other threads, and the theorems.         *)
(***************************************************************************)
(* What the invariant says inside the orphan drain.                        *)
LEMMA FrameFacts ==
  ASSUME IInv, op.pc = "drain"
  PROVE  /\ ~Deciding /\ CoreInv /\ RestInv /\ Leaf(Tip) /\ Tip \in Block
         /\ Frame \in FrameType /\ Below \in Seq(FrameType)
         /\ op \in OpType /\ stack \in Seq(FrameType)
         /\ orphans \in [Block -> Seq(Block \ {Genesis})] /\ displaced \subseteq Block
  <1>1. ~Deciding
    BY DEF Deciding
  <1>2. CoreInv /\ RestInv /\ Leaf(Tip)
    BY <1>1 DEF IInv, LeafInv
  <1>3. /\ stack \in Seq(FrameType) /\ stack # <<>> /\ op \in OpType
        /\ orphans \in [Block -> Seq(Block \ {Genesis})] /\ displaced \subseteq Block
    BY <1>2 DEF RestInv
  <1>4. Frame \in FrameType
    BY <1>3 DEF Frame
  <1>5. Below \in Seq(FrameType)
    <2>1. Len(stack) - 1 \in Int /\ \A i \in 1..(Len(stack) - 1) : stack[i] \in FrameType
      BY <1>3
    <2> QED BY <2>1 DEF Below
  <1> QED BY <1>1, <1>2, <1>3, <1>4, <1>5, CoreTyped

(* A step of the drain that leaves chain and store alone.                  *)
LEMMA DrainStep ==
  ASSUME IInv, op.pc = "drain", UNCHANGED <<core, store, displaced>>,
         orphans' \in [Block -> Seq(Block \ {Genesis})], stack' \in Seq(FrameType),
         op' \in OpType, op'.pc \in {"idle", "drain"}, op'.pc = "drain" => stack' # <<>>
  PROVE  IInv'
  <1>1. CoreInv /\ Leaf(Tip) /\ displaced \subseteq Block
    BY FrameFacts
  <1>2. CoreInv' /\ Tip' = Tip /\ store' = store
    BY <1>1, CoreSame
  <1>3. \A x \in DOMAIN store' \ {Genesis} : Parent[x] # Tip'
    BY <1>1, <1>2 DEF Leaf
  <1> QED BY <1>1, <1>2, <1>3, RestingStep

(* The drain takes the tip's orphans out of the pool.                      *)
LEMMA DrainFetchInv ==
  ASSUME IInv, DrainFetch
  PROVE  IInv'
  <1> DEFINE f == [Frame EXCEPT !.kids = orphans[Frame.tip]]
  <1>1. /\ op.pc = "drain" /\ stack' = Append(Below, f) /\ orphans' = [orphans EXCEPT ![Frame.tip] = <<>>]
        /\ UNCHANGED <<core, store, displaced, op>>
    BY DEF DrainFetch
  <1>2. /\ Frame \in FrameType /\ Below \in Seq(FrameType) /\ op \in OpType
        /\ orphans \in [Block -> Seq(Block \ {Genesis})]
    BY <1>1, FrameFacts
  <1>3. Frame.tip \in Block /\ orphans[Frame.tip] \in Seq(Block \ {Genesis})
    BY <1>2 DEF FrameType
  <1>4. f \in FrameType
    BY Zenon, <1>2, <1>3 DEF FrameType
  <1> HIDE DEF f
  <1>5. stack' \in Seq(FrameType) /\ stack' # <<>>
    BY <1>1, <1>2, <1>4
  <1>6. orphans' \in [Block -> Seq(Block \ {Genesis})]
    <2>1. <<>> \in Seq(Block \ {Genesis})
      OBVIOUS
    <2> QED BY <1>1, <1>2, <1>3, <2>1
  <1> QED BY <1>1, <1>2, <1>5, <1>6, DrainStep

(* The drain calls process_block on an orphan.                             *)
LEMMA DrainChildInv ==
  ASSUME IInv, DrainChild
  PROVE  IInv'
  <1> DEFINE f == [Frame EXCEPT !.kids = Tail(@)]
             b == Head(Frame.kids)
  <1>1. op.pc = "drain" /\ Frame.kids # <<>> /\ process_block(b, Append(Below, f))
    BY DEF DrainChild
  <1>2. ~Deciding /\ Frame \in FrameType /\ Below \in Seq(FrameType)
    BY <1>1, FrameFacts
  <1>3. Frame.kids \in Seq(Block \ {Genesis})
    BY <1>2 DEF FrameType
  <1>4. b \in Block \ {Genesis} /\ Tail(Frame.kids) \in Seq(Block \ {Genesis})
    BY <1>1, <1>3
  <1>5. f \in FrameType
    <2>1. f = [Frame EXCEPT !.kids = Tail(Frame.kids)]
      OBVIOUS
    <2> QED BY <1>2, <1>4, <2>1 DEF FrameType
  <1> HIDE DEF f, b
  <1>6. Append(Below, f) \in Seq(FrameType)
    BY <1>2, <1>5
  <1> QED BY Zenon, <1>1, <1>2, <1>4, <1>6, ProcessBlock

(* A drain loop ends and its frame returns.                                *)
LEMMA DrainReturnInv ==
  ASSUME IInv, DrainReturn
  PROVE  IInv'
  <1> DEFINE n == Len(Below)
             moved == [Below EXCEPT ![n].tip = Tip]
  <1>1. /\ op.pc = "drain" /\ UNCHANGED <<core, store, orphans, displaced>>
        /\ op' = IF Below = <<>> THEN Idle ELSE Draining
    BY DEF DrainReturn
  <1>2. stack' = Below \/ (n > 0 /\ stack' = moved)
    BY DEF DrainReturn
  <1>3. Below \in Seq(FrameType) /\ Tip \in Block /\ orphans \in [Block -> Seq(Block \ {Genesis})]
    BY <1>1, FrameFacts
  <1>4. stack' \in Seq(FrameType) /\ (Below # <<>> => stack' # <<>>)
    <2>1. CASE stack' = Below
      BY <1>3, <2>1
    <2>2. CASE n > 0 /\ stack' = moved
      <3>1. n \in 1..n /\ Below[n] \in FrameType
        BY <1>3, <2>2
      <3>2. [Below[n] EXCEPT !.tip = Tip] \in FrameType
        BY Zenon, <1>3, <3>1 DEF FrameType
      <3>3. moved = [Below EXCEPT ![n] = [Below[n] EXCEPT !.tip = Tip]]
        OBVIOUS
      <3>4. moved \in Seq(FrameType) /\ Len(moved) = n
        BY <1>3, <3>1, <3>2, <3>3
      <3> QED BY <2>2, <3>4
    <2> QED BY <1>2, <2>1, <2>2
  <1>5. op' \in OpType /\ op'.pc \in {"idle", "drain"} /\ (op'.pc = "drain" => stack' # <<>>)
    <2>1. CASE Below = <<>>
      BY <1>1, <2>1, RestingOps
    <2>2. CASE Below # <<>>
      BY <1>1, <1>4, <2>2, RestingOps
    <2> QED BY <2>1, <2>2
  <1> QED BY <1>1, <1>3, <1>4, <1>5, DrainStep

-----------------------------------------------------------------------------
(* submit_block and submit_block_extended keep the invariant: the block    *)
(* they connect has no stored children.                                    *)
LEMMA OutsideCalls ==
  ASSUME IInv, NEW b \in Block \ {Genesis}, SubmitBlock(b)
  PROVE  IInv'
  <1>1. op.pc = "idle" /\ Connectable(b) /\ connect_block(b) /\ Sealing /\ UNCHANGED <<orphans, displaced, op, stack>>
    BY DEF SubmitBlock
  <1>2. ~Deciding
    BY <1>1 DEF Deciding
  <1>3. CoreInv /\ RestInv /\ Leaf(Tip)
    BY <1>2 DEF IInv, LeafInv
  <1>4. b \notin DOMAIN store
    BY Zenon, <1>1, <1>3 DEF Leaf, Connectable
  <1>5. CoreInv'
    BY <1>1, <1>3, ConnectKeepsCore
  <1>6. \A x \in DOMAIN store' \ {Genesis} : Parent[x] # Tip'
    BY Zenon, <1>1, <1>3, <1>4, UnstoredLeaf, ExtensionLeaf
  <1>7. op'.pc = "idle"
    BY <1>1
  <1> QED BY Zenon, <1>1, <1>3, <1>5, <1>6, <1>7, RestingStep DEF RestInv

(* The displaced blocks are taken or the orphan pool is cleared.           *)
LEMMA PoolCalls ==
  ASSUME IInv, TakeDisplaced \/ clear_orphan_pool
  PROVE  IInv'
  <1>1. op.pc = "idle" /\ UNCHANGED <<core, store, op, stack>>
    BY DEF TakeDisplaced, clear_orphan_pool
  <1>2. ~Deciding
    BY <1>1 DEF Deciding
  <1>3. CoreInv /\ RestInv /\ Leaf(Tip)
    BY <1>2 DEF IInv, LeafInv
  <1>4. CoreInv' /\ Tip' = Tip /\ store' = store
    BY <1>1, <1>3, CoreSame
  <1>5. orphans' \in [Block -> Seq(Block \ {Genesis})] /\ displaced' \subseteq Block
    <2>1. <<>> \in Seq(Block \ {Genesis})
      OBVIOUS
    <2> QED BY Zenon, <1>3, <2>1 DEF TakeDisplaced, clear_orphan_pool, RestInv
  <1>6. \A x \in DOMAIN store' \ {Genesis} : Parent[x] # Tip'
    BY <1>3, <1>4 DEF Leaf
  <1>7. stack' \in Seq(FrameType) /\ op' \in OpType /\ op'.pc = "idle"
    BY <1>1, <1>3 DEF RestInv
  <1> QED BY Zenon, <1>4, <1>5, <1>6, <1>7, RestingStep

(* Every step keeps the inductive invariant.                               *)
LEMMA NextInv ==
  ASSUME IInv, [Next]_vars
  PROVE  IInv'
  <1>1. CASE UNCHANGED vars
    BY Zenon, <1>1 DEF vars, IInv, CoreInv, StoreConsistent, Tip, LeafInv, Leaf, Deciding, PhaseInv, BranchInv,
                ForkInv, Peeled, RestInv
  <1>2. CASE \E b \in Block \ {Genesis} : ReceiveBlock(b) \/ SubmitBlock(b)
    <2>1. PICK b \in Block \ {Genesis} : ReceiveBlock(b) \/ SubmitBlock(b)
      BY <1>2
    <2>2. CASE ReceiveBlock(b)
      <3>1. ~Deciding /\ process_block(b, <<>>)
        BY <2>2 DEF ReceiveBlock, Deciding
      <3>2. <<>> \in Seq(FrameType)
        OBVIOUS
      <3> QED BY Zenon, <3>1, <3>2, ProcessBlock
    <2>3. CASE SubmitBlock(b)
      BY <2>3, OutsideCalls
    <2> QED BY <2>1, <2>2, <2>3
  <1>3. CASE TakeDisplaced \/ clear_orphan_pool
    BY <1>3, PoolCalls
  <1>4. CASE Step
    BY <1>4, WalkBackInv, WalkDoneInv, KeepTipInv, RefuseReorgInv, StartReorgInv, DisconnectOldInv,
       ConnectNewInv, FinishReorgInv, ConnectFailsInv, UnwindNewInv, RestoreOldInv, AbandonReorgInv,
       DrainFetchInv, DrainChildInv, DrainReturnInv DEF Step
  <1> QED BY <1>1, <1>2, <1>3, <1>4 DEF Next

(* IInv is an invariant of the engine.                                     *)
THEOREM Invariance == Spec => []IInv
  <1>1. Init => IInv
    BY InitInv
  <1>2. IInv /\ [Next]_vars => IInv'
    BY NextInv
  <1> QED BY <1>1, <1>2, PTL DEF Spec

-----------------------------------------------------------------------------
(* Every variable of ChainState keeps its type (TypeOK), for every block   *)
(* tree and every order in which blocks arrive.                            *)
THEOREM TypeCorrect == Spec => []TypeOK
  <1>1. IInv => TypeOK
    <2> SUFFICES ASSUME IInv PROVE TypeOK
      OBVIOUS
    <2>1. CoreInv /\ RestInv
      BY DEF IInv
    <2>2. chain \in Seq(Block) /\ chain # <<>> /\ IsLedger(ledger)
      BY <2>1, CoreTyped DEF GoodLedger
    <2>3. finalized \in Nat
      BY <2>1, CoreTyped DEF CoreInv
    <2> QED BY <2>1, <2>2, <2>3 DEF TypeOK, CoreInv, RestInv
  <1> QED BY <1>1, Invariance, PTL

(* The ledger is the replay of the main chain in every reachable state, in *)
(* the middle of a reorganisation and of its rollback as well: undoing a   *)
(* block (disconnect_tip_block) exactly reverses connect_block.            *)
THEOREM LedgerCorrect == Spec => []LedgerIsReplay
  <1>1. IInv => LedgerIsReplay
    BY DEF IInv, CoreInv, LedgerIsReplay
  <1> QED BY <1>1, Invariance, PTL

(* reorg_to_tip never takes the error exit of disconnect_tip_block and is  *)
(* never called for an ancestor that is the tip.                           *)
THEOREM ReorgCompletes == Spec => []ReorgCannotAbort
  <1>1. IInv => ReorgCannotAbort
    <2> SUFFICES ASSUME IInv PROVE ReorgCannotAbort
      OBVIOUS
    <2>1. ASSUME op.pc \in {"disconnect", "unwind"} PROVE Tip # Genesis /\ Tip \in DOMAIN undo
      <3>1. Deciding
        BY <2>1 DEF Deciding
      <3>2. CoreInv /\ Len(chain) \in Nat /\ op.fork \in Nat /\ op.made \in Nat
        BY <3>1, DecidingFacts
      <3>3. Len(chain) > op.fork + 1
        <4>1. CASE op.pc = "disconnect"
          BY <3>2, <4>1 DEF IInv, PhaseInv
        <4>2. CASE op.pc = "unwind"
          <5>1. Len(chain) = op.fork + 1 + op.made /\ op.made >= 1
            BY Zenon, <4>2 DEF IInv, PhaseInv
          <5> QED BY <3>2, <5>1
        <4> QED BY <2>1, <4>1, <4>2
      <3>4. Len(chain) \in 2..Len(chain)
        BY <3>2, <3>3
      <3>5. Tip # Genesis
        BY Zenon, <3>2, <3>4 DEF CoreInv, GoodChain, Tip
      <3>6. Tip \in DOMAIN undo
        BY <3>2, <3>4 DEF CoreInv, Tip
      <3> QED BY <3>5, <3>6
    <2>2. ASSUME op.pc = "decide" PROVE op.fork < TipHeight
      <3>1. Deciding /\ chain = op.before /\ ForkInv
        BY <2>2, DecideFacts
      <3>2. Len(chain) \in Nat /\ op.fork \in Nat
        BY <3>1, DecidingFacts
      <3>3. op.fork + 1 < Len(chain)
        BY <3>1 DEF ForkInv
      <3> QED BY <3>2, <3>3 DEF TipHeight
    <2>3. ASSUME op.pc = "disconnect" PROVE op.fork < TipHeight
      <3>1. Deciding
        BY <2>3 DEF Deciding
      <3>2. Len(chain) \in Nat /\ op.fork \in Nat
        BY Zenon, <3>1, DecidingFacts
      <3>3. op.fork + 1 < Len(chain)
        BY <2>3 DEF IInv, PhaseInv
      <3> QED BY <3>2, <3>3 DEF TipHeight
    <2> QED BY <2>1, <2>2, <2>3 DEF ReorgCannotAbort
  <1> QED BY <1>1, Invariance, PTL

(* A reorganisation that fails half way is rolled back completely: every   *)
(* reconnection whose error reorg_to_tip ignores succeeds, and the chain   *)
(* at the end is the one from before.                                      *)
THEOREM RollbackCorrect == Spec => []RollbackRestores
  <1>1. IInv => RollbackRestores
    BY RestoreConnects, RestoredChain DEF RollbackRestores
  <1> QED BY <1>1, Invariance, PTL

(* block_store, heights and cumulative_work agree with the main chain and  *)
(* are closed under parents in every reachable state.                      *)
THEOREM StoreCorrect == Spec => []StoreConsistent
  <1>1. IInv => StoreConsistent
    BY DEF IInv, CoreInv
  <1> QED BY <1>1, Invariance, PTL

-----------------------------------------------------------------------------
(***************************************************************************)
(* The orphan drain.                                                       *)
(***************************************************************************)
(* The innermost drain loop waits on t, or nothing does.  A loop whose     *)
(* child went to a side chain keeps its old tip although the child's own   *)
(* drain may have moved the chain's; the child then left no orphan there.  *)
WaitsOn(t) == stack # <<>> => Frame.tip = t \/ orphans[t] = <<>>

DrainInv ==
  /\ op.pc = "drain" => WaitsOn(Tip)
  /\ Deciding => WaitsOn(op.before[Len(op.before)])

(* A fresh drain loop waits on the tip.                                    *)
LEMMA DrainWaits ==
  ASSUME NEW b, NEW adv, NEW frames \in Seq(FrameType), StartDrain(b, adv, frames)
  PROVE  DrainInv' /\ op'.pc = "drain"
  <1> DEFINE f == [blk |-> b, kids |-> <<>>, tip |-> chain'[Len(chain')], advanced |-> adv]
  <1>1. stack' = Append(frames, f) /\ op' = Draining
    BY DEF StartDrain
  <1>2. f.tip = Tip'
    BY DEF Tip
  <1> HIDE DEF f
  <1>3. Append(frames, f)[Len(Append(frames, f))] = f
    <2>1. Len(Append(frames, f)) = Len(frames) + 1 /\ Append(frames, f)[Len(frames) + 1] = f
      OBVIOUS
    <2> QED BY <2>1
  <1>4. Frame'.tip = Tip'
    BY <1>1, <1>2, <1>3 DEF Frame
  <1>5. op'.pc = "drain" /\ ~Deciding'
    BY <1>1, RestingOps DEF Deciding
  <1> QED BY <1>4, <1>5 DEF DrainInv, WaitsOn

(* An error returns to a drain loop that waits on the tip.                 *)
LEMMA ErrWaits ==
  ASSUME NEW frames, ReturnErr(frames), chain' = chain, orphans'[Tip] \in {orphans[Tip], <<>>},
         frames # <<>> => frames[Len(frames)].tip = Tip \/ orphans[Tip] = <<>>
  PROVE  DrainInv' /\ (frames # <<>> => op'.pc = "drain")
  <1>1. stack' = frames /\ op'.pc \in {"idle", "drain"} /\ (frames # <<>> => op'.pc = "drain")
    BY RestingOps DEF ReturnErr
  <1>2. ~Deciding' /\ Tip' = Tip
    BY <1>1 DEF Deciding, Tip
  <1> QED BY <1>1, <1>2 DEF DrainInv, WaitsOn, Frame

(* A block that is processed leaves the loop that asked for it waiting on  *)
(* the tip: a block is parked under a parent that is not stored, so never  *)
(* under the tip.                                                          *)
LEMMA ProcessWaits ==
  ASSUME IInv, NEW b \in Block \ {Genesis}, NEW frames \in Seq(FrameType), process_block(b, frames),
         frames # <<>> => frames[Len(frames)].tip = Tip \/ orphans[Tip] = <<>>
  PROVE  DrainInv' /\ (frames # <<>> => op'.pc # "idle")
  <1>1. CoreInv /\ Tip \in Block /\ Tip \in DOMAIN store /\ orphans \in [Block -> Seq(Block \ {Genesis})]
    <2>1. CoreInv /\ RestInv
      BY Zenon DEF IInv
    <2>2. Len(chain) \in 1..Len(chain) /\ \A i \in 1..Len(chain) : chain[i] \in Block /\ chain[i] \in DOMAIN store
      BY <2>1, CoreTyped
    <2> QED BY Zenon, <2>1, <2>2 DEF Tip, RestInv
  <1>2. CASE ParkOrphan(b, frames)
    <2> DEFINE pool == [orphans EXCEPT ![Parent[b]] = Append(@, b)]
    <2>1. Parent[b] # Tip /\ ReturnErr(frames) /\ chain' = chain /\ orphans' \in prune_orphan_pool(pool)
      BY Zenon, <1>1, <1>2 DEF ParkOrphan, core
    <2>2. pool[Tip] = orphans[Tip] /\ pool \in [Block -> Seq(Block \ {Genesis})]
      <3>1. Append(orphans[Parent[b]], b) \in Seq(Block \ {Genesis})
        BY <1>1, TreeAssumption
      <3> QED BY Zenon, <1>1, <2>1, <3>1
    <2> HIDE DEF pool
    <2>3. orphans'[Tip] \in {orphans[Tip], <<>>}
      <3>1. orphans' = pool \/ \E q \in Block : orphans' = [pool EXCEPT ![q] = <<>>]
        BY <2>1 DEF prune_orphan_pool
      <3> QED BY <1>1, <2>2, <3>1
    <2>4. DrainInv' /\ (frames # <<>> => op'.pc = "drain")
      BY <2>1, <2>3, ErrWaits
    <2> QED BY <2>4
  <1>3. CASE RejectEarly(b, frames) \/ RejectExtension(b, frames)
    <2>1. ReturnErr(frames) /\ chain' = chain /\ orphans'[Tip] \in {orphans[Tip], <<>>}
      BY Zenon, <1>3 DEF RejectEarly, RejectExtension, core
    <2>2. DrainInv' /\ (frames # <<>> => op'.pc = "drain")
      BY Zenon, <2>1, ErrWaits
    <2> QED BY <2>2
  <1>4. CASE ExtendTip(b, frames)
    <2>1. StartDrain(b, TRUE, frames)
      BY Zenon, <1>4 DEF ExtendTip
    <2>2. DrainInv' /\ op'.pc = "drain"
      BY Zenon, <2>1, DrainWaits
    <2> QED BY Zenon, <2>2
  <1>5. CASE StoreSideBlock(b, frames)
    <2>1. /\ op' = [Idle EXCEPT !.pc = "walk", !.blk = b, !.before = chain]
          /\ stack' = frames /\ orphans' = orphans
      BY <1>5 DEF StoreSideBlock
    <2>2. op'.pc = "walk" /\ op'.before = chain
      BY <2>1 DEF Idle
    <2> QED BY <2>1, <2>2 DEF DrainInv, WaitsOn, Frame, Tip
  <1> QED BY Zenon, <1>2, <1>3, <1>4, <1>5 DEF process_block

(* While a side block is decided on, pool and loops are left alone.        *)
LEMMA DecidingWaits ==
  ASSUME DrainInv, Deciding, op'.pc \in {"walk", "decide", "disconnect", "connect", "unwind", "restore"},
         op'.before = op.before, UNCHANGED <<orphans, stack>>
  PROVE  DrainInv'
  BY DEF DrainInv, WaitsOn, Frame, Deciding

(* Every step of the running call keeps DrainInv, and a call that returns  *)
(* to its caller from the drain leaves no orphan waiting on the tip.       *)
LEMMA StepWaits ==
  ASSUME IInv, DrainInv, Step
  PROVE  DrainInv' /\ (op.pc = "drain" /\ op'.pc = "idle" => orphans'[Tip'] = <<>>)
  <1>1. CASE WalkBack \/ WalkDone \/ StartReorg \/ ConnectNew \/ ConnectFails
    <2>1. op.pc \in {"walk", "decide", "connect"} /\ op \in OpType
      BY <1>1 DEF WalkBack, WalkDone, StartReorg, ConnectNew, ConnectFails, IInv, RestInv
    <2>2. UNCHANGED <<orphans, stack>>
      BY <1>1 DEF WalkBack, WalkDone, StartReorg, ConnectNew, ConnectFails
    <2>3. op'.pc \in {"walk", "decide", "disconnect", "connect", "unwind", "restore"} /\ op'.before = op.before
      BY Zenon, <1>1, <2>1 DEF WalkBack, WalkDone, StartReorg, ConnectNew, ConnectFails, OpType
    <2>4. Deciding
      BY <2>1 DEF Deciding
    <2> QED BY <2>1, <2>2, <2>3, <2>4, DecidingWaits
  <1>2. CASE DisconnectOld \/ UnwindNew \/ RestoreOld
    <2>1. op.pc \in {"disconnect", "unwind", "restore"} /\ op \in OpType
      BY <1>2 DEF DisconnectOld, UnwindNew, RestoreOld, IInv, RestInv
    <2>2. UNCHANGED <<orphans, stack>>
      BY <1>2 DEF DisconnectOld, UnwindNew, RestoreOld
    <2>3. op'.pc \in {"walk", "decide", "disconnect", "connect", "unwind", "restore"} /\ op'.before = op.before
      BY Zenon, <1>2, <2>1 DEF DisconnectOld, UnwindNew, RestoreOld, OpType
    <2>4. Deciding
      BY <2>1 DEF Deciding
    <2> QED BY <2>1, <2>2, <2>3, <2>4, DecidingWaits
  <1>3. CASE KeepTip \/ FinishReorg
    <2>1. op.pc \in {"decide", "connect"} /\ stack \in Seq(FrameType)
      BY Zenon, <1>3 DEF KeepTip, FinishReorg, IInv, RestInv
    <2>2. \E adv \in BOOLEAN : StartDrain(op.blk, adv, stack)
      BY Zenon, <1>3 DEF KeepTip, FinishReorg
    <2> QED BY <2>1, <2>2, DrainWaits
  <1>4. CASE RefuseReorg \/ AbandonReorg
    <2>1. Deciding /\ chain = op.before
      BY Zenon, <1>4, DecideFacts, RestoredChain DEF RefuseReorg, AbandonReorg
    <2>2. ReturnErr(stack) /\ chain' = chain /\ orphans'[Tip] \in {orphans[Tip], <<>>} /\ op.pc # "drain"
      BY Zenon, <1>4 DEF RefuseReorg, AbandonReorg, core
    <2>3. stack # <<>> => stack[Len(stack)].tip = Tip \/ orphans[Tip] = <<>>
      BY <2>1 DEF DrainInv, WaitsOn, Frame, Tip
    <2> QED BY Zenon, <2>2, <2>3, ErrWaits
  <1>5. CASE DrainFetch \/ DrainChild \/ DrainReturn
    <2>1. /\ op.pc = "drain" /\ stack \in Seq(FrameType) /\ stack # <<>>
          /\ CoreInv /\ orphans \in [Block -> Seq(Block \ {Genesis})]
          /\ Frame.tip = Tip \/ orphans[Tip] = <<>>
      BY <1>5 DEF DrainFetch, DrainChild, DrainReturn, IInv, RestInv, DrainInv, WaitsOn
    <2>2. Frame \in FrameType /\ Below \in Seq(FrameType)
      BY <2>1, FrameFacts
    <2>3. CASE DrainFetch
      <3> DEFINE f == [Frame EXCEPT !.kids = orphans[Frame.tip]]
      <3>1. /\ stack' = Append(Below, f) /\ orphans' = [orphans EXCEPT ![Frame.tip] = <<>>]
            /\ op' = op /\ chain' = chain
        BY <2>3 DEF DrainFetch, core
      <3>2. f.tip = Frame.tip
        BY <2>2 DEF FrameType
      <3> HIDE DEF f
      <3>3. Frame' = f
        BY <2>2, <3>1 DEF Frame
      <3>4. Tip' = Tip /\ Tip \in Block /\ (orphans'[Tip] = orphans[Tip] \/ orphans'[Tip] = <<>>)
        BY <2>1, <3>1, CoreTyped DEF Tip
      <3>5. ~Deciding' /\ op'.pc = "drain"
        BY <2>1, <3>1 DEF Deciding
      <3> QED BY <2>1, <3>2, <3>3, <3>4, <3>5 DEF DrainInv, WaitsOn
    <2>4. CASE DrainChild
      <3> DEFINE f == [Frame EXCEPT !.kids = Tail(@)]
                 frames == Append(Below, f)
      <3>1. Frame.kids # <<>> /\ process_block(Head(Frame.kids), frames)
        BY <2>4 DEF DrainChild
      <3>2. Head(Frame.kids) \in Block \ {Genesis} /\ f \in FrameType /\ f.tip = Frame.tip
        <4>1. Frame.kids \in Seq(Block \ {Genesis})
          BY <2>2 DEF FrameType
        <4>2. Head(Frame.kids) \in Block \ {Genesis} /\ Tail(Frame.kids) \in Seq(Block \ {Genesis})
          BY <3>1, <4>1
        <4> QED BY <2>2, <4>2 DEF FrameType
      <3> HIDE DEF f
      <3>3. frames \in Seq(FrameType) /\ frames # <<>> /\ frames[Len(frames)] = f
        BY <2>2, <3>2
      <3> HIDE DEF frames
      <3>4. DrainInv' /\ (frames # <<>> => op'.pc # "idle")
        BY <2>1, <3>1, <3>2, <3>3, ProcessWaits
      <3> QED BY <3>3, <3>4
    <2>5. CASE DrainReturn
      <3>1. orphans[Frame.tip] = <<>> /\ orphans' = orphans /\ chain' = chain
        BY <2>5 DEF DrainReturn, core
      <3>2. orphans'[Tip'] = <<>>
        BY <2>1, <3>1 DEF Tip
      <3>3. ~Deciding'
        BY <2>5, RestingOps DEF DrainReturn, Deciding
      <3> QED BY <3>2, <3>3 DEF DrainInv, WaitsOn
    <2> QED BY <1>5, <2>3, <2>4, <2>5
  <1> QED BY <1>1, <1>2, <1>3, <1>4, <1>5 DEF Step

(* A call of process_block that drains returns with no orphan waiting on   *)
(* the tip, however deep the calls of the drain nest and whichever of them *)
(* moved the tip, went to a side chain or failed.                          *)
THEOREM DrainCorrect == Spec => DrainComplete
  <1> DEFINE Emptied == op.pc = "drain" /\ op'.pc = "idle" => orphans'[Tip'] = <<>>
  <1>1. Init => DrainInv
    BY DEF Init, Idle, DrainInv, Deciding
  <1>2. ASSUME IInv, DrainInv, [Next]_vars PROVE DrainInv' /\ Emptied
    <2>1. CASE Step
      BY <1>2, <2>1, StepWaits
    <2>2. CASE UNCHANGED vars
      BY Zenon, <1>2, <2>2 DEF vars, DrainInv, WaitsOn, Frame, Deciding, Tip
    <2>3. CASE \E b \in Block \ {Genesis} : ReceiveBlock(b)
      <3>1. PICK b \in Block \ {Genesis} : op.pc = "idle" /\ process_block(b, <<>>)
        BY <2>3 DEF ReceiveBlock
      <3>2. <<>> \in Seq(FrameType)
        OBVIOUS
      <3>3. DrainInv'
        BY Zenon, <1>2, <3>1, <3>2, ProcessWaits
      <3> QED BY <3>1, <3>3
    <2>4. CASE (\E b \in Block \ {Genesis} : SubmitBlock(b)) \/ TakeDisplaced \/ clear_orphan_pool
      <3>1. op.pc = "idle" /\ op' = op
        BY <2>4 DEF SubmitBlock, TakeDisplaced, clear_orphan_pool
      <3> QED BY <3>1 DEF DrainInv, Deciding
    <2> QED BY Zenon, <1>2, <2>1, <2>2, <2>3, <2>4 DEF Next
  <1>3. Spec => []DrainInv
    BY <1>1, <1>2, Invariance, PTL DEF Spec
  <1>4. IInv /\ DrainInv /\ [Next]_vars => [Emptied]_vars
    BY <1>2
  <1> HIDE DEF Emptied
  <1>5. Spec => [][Emptied]_vars
    BY <1>3, <1>4, Invariance, PTL DEF Spec
  <1> QED BY <1>5 DEF Emptied, DrainComplete

=============================================================================
