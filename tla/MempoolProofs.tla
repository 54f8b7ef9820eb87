---------------------------- MODULE MempoolProofs ----------------------------
(***************************************************************************)
(* The pool is validated or known not to be, pending.json is the pool      *)
(* unless a write failed, a paying entry gives way only to a better one,   *)
(* the pool keeps within its capacity and the template is a block that     *)
(* connects: for any transactions, number of handlers and bounds.          *)
(***************************************************************************)
EXTENDS Mempool, TLAPS, FiniteSetTheorems, SequenceTheorems

Classes == {"ZeroFeeAllowed", "Standard"}

Submission == [tx : Tx, class : Classes, sole : BOOLEAN, moved : BOOLEAN]

Classed(p) == \A t \in DOMAIN p : t \in Tx /\ p[t] \in Classes

(* What a handler carries is a submission, still valid unless the chain    *)
(* has moved.                                                              *)
Sound(s, c) == s # Idle => s \in Submission /\ (s.moved \/ Valid(c, s.tx))

HandlersSound ==
  /\ handler \in [Handler -> Submission \cup {Idle}]
  /\ \A h \in Handler : Sound(handler[h], chain)

PoolsClassed == Classed(pool) /\ (disk # Torn => Classed(disk))

(* The inductive invariant.                                                *)
IInv ==
  /\ HandlersSound
  /\ PoolsClassed
  /\ PoolValid
  /\ DiskFollows
  /\ upsets \in Nat

(* An empty pool and an empty file at the start.                           *)
LEMMA InitIInv == Init => IInv
  BY DEF Init, IInv, HandlersSound, Sound, PoolsClassed, Classed, PoolValid, DiskFollows

(* A step that leaves chain, pool and file alone.                          *)
LEMMA SameIInv ==
  ASSUME IInv, HandlersSound', UNCHANGED <<chain, pool, disk, unscanned, dirty, upsets>>
  PROVE  IInv'
  BY DEF IInv, PoolsClassed, Classed, PoolValid, DiskFollows, Valid, Utxos, Mined

(* The handler half of a submission: the class is one of the two, and the  *)
(* transaction has just been validated.                                    *)
LEMMA CheckIInv ==
  ASSUME IInv, NEW h \in Handler, NEW t \in Tx, NEW class \in Classes,
         NEW sole \in BOOLEAN, Check(h, t, class, sole)
  PROVE  IInv'
  <1> DEFINE s == [tx |-> t, class |-> class, sole |-> sole, moved |-> FALSE]
  <1>1. s \in Submission /\ s.moved = FALSE /\ s.tx = t
    BY DEF Submission
  <1>2. /\ Valid(chain, t)
        /\ handler' = [handler EXCEPT ![h] = s]
        /\ UNCHANGED <<chain, pool, disk, unscanned, dirty, upsets>>
    BY DEF Check
  <1> HIDE DEF s
  <1>3. handler' \in [Handler -> Submission \cup {Idle}]
    BY <1>1, <1>2 DEF IInv, HandlersSound
  <1>4. Sound(s, chain)
    BY <1>1, <1>2 DEF Sound
  <1>5. \A g \in Handler : Sound(handler'[g], chain)
    BY <1>2, <1>4 DEF IInv, HandlersSound
  <1>6. HandlersSound'
    BY <1>2, <1>3, <1>5 DEF HandlersSound
  <1> QED BY <1>2, <1>6, SameIInv

(* A handler that is done leaves the others' checks as they were.          *)
LEMMA DoneSound ==
  ASSUME HandlersSound, NEW h \in Handler, Done(h)
  PROVE  HandlersSound'
  <1>1. handler' \in [Handler -> Submission \cup {Idle}] /\ chain' = chain
    BY DEF HandlersSound, Done
  <1>2. \A g \in Handler : Sound(handler'[g], chain)
    BY DEF HandlersSound, Done, Sound
  <1> QED BY <1>1, <1>2 DEF HandlersSound

(* An insertion adds the transaction under its class and may drop others.  *)
LEMMA InsertedPool ==
  ASSUME NEW t \in Tx, NEW class \in Classes, Classed(pool), NEW p \in Inserted(t, class)
  PROVE  /\ DOMAIN p \subseteq DOMAIN pool \cup {t} /\ t \in DOMAIN p /\ p[t] = class
         /\ \A u \in DOMAIN p \ {t} : p[u] = pool[u]
         /\ Classed(p)
  <1>1. CASE Full
    <2>1. PICK v \in pick_eviction_target(t, class) :
            p = Put(Keep(pool, DOMAIN pool \ {v}), t, class)
      BY <1>1 DEF Inserted
    <2> QED BY <2>1 DEF Put, Keep, Classed
  <1>2. CASE ~Full
    <2>1. p = Put(pool, t, class)
      BY <1>2 DEF Inserted
    <2> QED BY <2>1 DEF Put, Classed
  <1> QED BY <1>1, <1>2

(* What a write leaves: the pool, or a mark that it failed.                *)
LEMMA PersistFollows ==
  ASSUME NEW ok \in BOOLEAN, NEW p, Persist(ok, p), pool' = p, Classed(p),
         disk # Torn => Classed(disk)
  PROVE  PoolsClassed' /\ DiskFollows'
  <1>1. CASE ok
    BY <1>1 DEF Persist, PoolsClassed, DiskFollows, Classed
  <1>2. CASE ~ok
    <2>1. disk' \in {disk, Torn, p} /\ dirty'
      BY Zenon, <1>2 DEF Persist
    <2> QED BY <2>1 DEF PoolsClassed, DiskFollows, Classed
  <1> QED BY <1>1, <1>2

(* An insertion after the check: the entry is valid now, or marked stale   *)
(* because the chain has moved in between.                                 *)
LEMMA AddIInv ==
  ASSUME IInv, NEW h \in Handler, Add(h)
  PROVE  IInv'
  <1> DEFINE s == handler[h]
  <1>1. s \in Submission /\ (s.moved \/ Valid(chain, s.tx))
    BY DEF Add, IInv, HandlersSound, Sound
  <1>2. s.tx \in Tx /\ s.class \in Classes /\ s.moved \in BOOLEAN
    BY <1>1 DEF Submission
  <1>3. /\ pool' \in Inserted(s.tx, s.class)
        /\ unscanned' = (unscanned \cap DOMAIN pool') \cup (IF s.moved THEN {s.tx} ELSE {})
        /\ chain' = chain /\ upsets' = upsets
    BY DEF Add, Done
  <1> HIDE DEF s
  <1>4. /\ DOMAIN pool' \subseteq DOMAIN pool \cup {s.tx}
        /\ Classed(pool')
    BY <1>2, <1>3, InsertedPool DEF IInv, PoolsClassed
  <1>5. PoolValid'
    <2> SUFFICES ASSUME NEW t \in DOMAIN pool' \ unscanned' PROVE Valid(chain, t)
      BY <1>3 DEF PoolValid, Valid, Utxos, Mined
    <2>1. CASE t = s.tx
      BY <1>1, <1>3, <2>1
    <2>2. CASE t # s.tx
      BY <1>3, <1>4, <2>2 DEF IInv, PoolValid
    <2> QED BY <2>1, <2>2
  <1>6. PoolsClassed' /\ DiskFollows'
    <2>1. PICK ok \in BOOLEAN : Persist(ok, pool')
      BY DEF Add
    <2> QED BY <1>4, <2>1, PersistFollows DEF IInv, PoolsClassed
  <1>7. HandlersSound'
    BY DoneSound DEF Add, IInv
  <1> QED BY <1>3, <1>5, <1>6, <1>7 DEF IInv

(* A refused transaction changes neither pool nor file.                    *)
LEMMA RefuseIInv ==
  ASSUME IInv, NEW h \in Handler, Refuse(h)
  PROVE  IInv'
  <1>1. HandlersSound'
    BY DoneSound DEF Refuse, IInv
  <1> QED BY <1>1, SameIInv DEF Refuse, LeaveDisk, Done

(* Noting a relaying peer writes the file and keeps the entries.           *)
LEMMA RelayIInv ==
  ASSUME IInv, record_relay
  PROVE  IInv'
  <1>1. UNCHANGED <<chain, pool, handler, unscanned, upsets>>
    BY DEF record_relay
  <1>2. PICK ok \in BOOLEAN : Persist(ok, pool)
    BY DEF record_relay
  <1>3. PoolsClassed' /\ DiskFollows'
    BY <1>1, <1>2, PersistFollows DEF IInv, PoolsClassed
  <1>4. HandlersSound' /\ PoolValid'
    BY <1>1 DEF IInv, HandlersSound, PoolValid, Valid, Utxos, Mined, Sound
  <1> QED BY <1>1, <1>3, <1>4 DEF IInv

(* When the chain moves, every handler's check is marked stale.            *)
LEMMA MovesSound ==
  ASSUME HandlersSound, NEW c, ChainMoves(c)
  PROVE  HandlersSound' /\ chain' = c
  <1>1. \A h \in Handler : handler[h] \in Submission =>
          LET s == [handler[h] EXCEPT !.moved = TRUE] IN s \in Submission /\ s.moved
    BY Zenon DEF Submission
  <1>2. /\ handler' = [h \in Handler |-> IF handler[h] = Idle THEN Idle
                         ELSE [handler[h] EXCEPT !.moved = TRUE]]
        /\ chain' = c
    BY DEF ChainMoves
  <1>3. \A h \in Handler : handler[h] # Idle => handler[h] \in Submission
    BY DEF HandlersSound, Sound
  <1>4. handler' \in [Handler -> Submission \cup {Idle}]
    BY <1>1, <1>2, <1>3
  <1>5. \A h \in Handler : Sound(handler'[h], c)
    BY <1>1, <1>2, <1>3 DEF Sound
  <1> QED BY <1>2, <1>4, <1>5 DEF HandlersSound

(* A block that connects leaves entries that validate against its chain.   *)
LEMMA ConnectedIInv ==
  ASSUME IInv, NEW c, NEW B, Connected(c, B), upsets' \in Nat
  PROVE  IInv'
  <1>1. HandlersSound' /\ chain' = c
    BY MovesSound DEF Connected, IInv
  <1>2. pool' = Keep(pool, Survivors(c, B)) /\ unscanned' = {}
    BY DEF Connected, Clean
  <1>3. \A S : Classed(Keep(pool, S))
    BY DEF IInv, PoolsClassed, Classed, Keep
  <1>4. PoolValid'
    <2>1. \A t \in DOMAIN pool' : Valid(c, t)
      BY <1>2 DEF Keep, Survivors
    <2> QED BY <1>1, <2>1 DEF PoolValid, Valid, Utxos, Mined
  <1>5. PoolsClassed' /\ DiskFollows'
    <2>1. CASE pool' = pool
      <3>1. UNCHANGED <<disk, dirty>>
        BY <2>1 DEF Connected, Clean, LeaveDisk
      <3> QED BY <2>1, <3>1 DEF IInv, PoolsClassed, Classed, DiskFollows
    <2>2. CASE pool' # pool /\ Persist(TRUE, pool')
      <3>1. Classed(pool')
        BY <1>2, <1>3
      <3> QED BY Zenon, <2>2, <3>1, PersistFollows DEF IInv, PoolsClassed
    <2>3. CASE pool' # pool /\ ~Persist(TRUE, pool')
      <3>1. /\ dirty' = TRUE
            /\ disk' \in {disk, Torn} \cup
                 {Keep(pool, Survivors(c, B) \cup S) : S \in SUBSET DOMAIN pool}
        BY Zenon, <2>3 DEF Connected, Clean
      <3>2. disk' # Torn => Classed(disk')
        BY Zenon, <1>3, <3>1 DEF IInv, PoolsClassed
      <3>3. Classed(pool')
        BY <1>2, <1>3
      <3> QED BY <3>1, <3>2, <3>3 DEF PoolsClassed, DiskFollows, Classed
    <2> QED BY Zenon, <2>1, <2>2, <2>3
  <1> QED BY <1>1, <1>4, <1>5 DEF IInv

(* Every block the handlers connect, own or received, goes through that.   *)
LEMMA BlockIInv ==
  ASSUME IInv, PeerBlock \/ PeerReorg \/ SubmitBlock
  PROVE  IInv'
  <1>1. CASE PeerBlock
    <2>1. PICK B \in Foreign(chain) : Connected(AppendBlock(chain, B), B)
      BY <1>1 DEF PeerBlock
    <2>2. upsets' \in Nat
      BY <1>1 DEF PeerBlock, IInv
    <2> QED BY <2>1, <2>2, ConnectedIInv
  <1>2. CASE PeerReorg
    <2>1. PICK c, B : Connected(c, B)
      BY <1>2 DEF PeerReorg
    <2>2. upsets' \in Nat
      BY <1>2 DEF PeerReorg, IInv
    <2> QED BY <2>1, <2>2, ConnectedIInv
  <1>3. CASE SubmitBlock
    <2>1. upsets' \in Nat /\ upsets' = upsets
      BY <1>3 DEF SubmitBlock, IInv
    <2>2. CASE Connected(AppendBlock(chain, Range(tmpl.txs)), Range(tmpl.txs))
      BY <2>1, <2>2, ConnectedIInv
    <2>3. CASE ~Connected(AppendBlock(chain, Range(tmpl.txs)), Range(tmpl.txs))
      <3>1. UNCHANGED <<chain, pool, disk, handler, unscanned, dirty>>
        BY <1>3, <2>3 DEF SubmitBlock
      <3>2. HandlersSound'
        BY <3>1 DEF IInv, HandlersSound, Sound, Valid, Utxos, Mined
      <3> QED BY <2>1, <3>1, <3>2, SameIInv
    <2> QED BY <2>2, <2>3
  <1> QED BY <1>1, <1>2, <1>3

(* A tip moved behind a side block leaves the whole pool to be validated.  *)
LEMMA SideIInv ==
  ASSUME IInv, PeerSideBlock
  PROVE  IInv'
  <1>1. PICK B \in Foreign(chain) : ChainMoves(AppendBlock(chain, B))
    BY DEF PeerSideBlock
  <1>2. HandlersSound'
    BY <1>1, MovesSound DEF IInv
  <1>3. unscanned' = DOMAIN pool /\ UNCHANGED <<pool, disk, dirty, upsets>>
    BY DEF PeerSideBlock
  <1> QED BY <1>2, <1>3 DEF IInv, PoolsClassed, Classed, PoolValid, DiskFollows

(* So does a restart, whose pool is the file if that is not torn.          *)
LEMMA RestartIInv ==
  ASSUME IInv, Restart
  PROVE  IInv'
  <1>1. /\ disk' \in {disk, Torn} /\ dirty' = (dirty \/ disk' = Torn)
        /\ pool' = IF disk' = Torn THEN <<>> ELSE disk'
        /\ unscanned' = DOMAIN pool'
        /\ handler' = [h \in Handler |-> Idle]
        /\ upsets' = upsets + 1
    BY DEF Restart
  <1>2. HandlersSound'
    BY <1>1 DEF HandlersSound, Sound
  <1>3. PoolsClassed'
    BY <1>1 DEF IInv, PoolsClassed, Classed
  <1>4. PoolValid'
    BY <1>1 DEF PoolValid
  <1>5. DiskFollows'
    BY Zenon, <1>1 DEF DiskFollows
  <1>6. upsets' \in Nat
    BY <1>1 DEF IInv
  <1> QED BY <1>2, <1>3, <1>4, <1>5, <1>6 DEF IInv

(* Every step keeps the invariant.                                         *)
LEMMA NextIInv == ASSUME TxAssumption, IInv, [Next]_vars PROVE IInv'
  <1> DEFINE Quiet == UNCHANGED <<chain, pool, disk, handler, unscanned, dirty, upsets>>
  <1>1. ASSUME Quiet PROVE IInv'
    <2>1. HandlersSound'
      BY <1>1 DEF IInv, HandlersSound, Sound, Valid, Utxos, Mined
    <2> QED BY <1>1, <2>1, SameIInv
  <1>2. CASE \E h \in Handler, t \in Tx :
               SubmitTxCheck(h, t) \/ BuiltTxCheck(h, t) \/ P2pTxCheck(h, t)
    <2>1. PICK h \in Handler, t \in Tx :
            SubmitTxCheck(h, t) \/ BuiltTxCheck(h, t) \/ P2pTxCheck(h, t)
      BY <1>2
    <2>2. Class[t] \in Classes /\ "Standard" \in Classes
      BY DEF TxAssumption, Classes
    <2>3. PICK class \in Classes, sole \in BOOLEAN : Check(h, t, class, sole)
      BY Zenon, <2>1, <2>2 DEF SubmitTxCheck, BuiltTxCheck, P2pTxCheck
    <2> QED BY <2>3, CheckIInv
  <1>3. CASE \E h \in Handler : Add(h) \/ Refuse(h)
    BY <1>3, AddIInv, RefuseIInv
  <1>4. CASE record_relay
    BY <1>4, RelayIInv
  <1>5. CASE PeerBlock \/ PeerReorg \/ SubmitBlock
    BY <1>5, BlockIInv
  <1>6. CASE PeerSideBlock
    BY <1>6, SideIInv
  <1>7. CASE TemplateHeader \/ TemplateEntries \/ TemplateCarriers
    <2>1. Quiet
      BY Zenon, <1>7 DEF TemplateHeader, TemplateEntries, TemplateCarriers
    <2> QED BY <1>1, <2>1
  <1>8. CASE Restart
    BY <1>8, RestartIInv
  <1>9. CASE UNCHANGED vars
    <2>1. Quiet
      BY <1>9 DEF vars
    <2> QED BY <1>1, <2>1
  <1> QED BY <1>2, <1>3, <1>4, <1>5, <1>6, <1>7, <1>8, <1>9 DEF Next, Template

(* The invariant holds in every reachable state.                           *)
LEMMA Inductive == Spec => []IInv
  <1>1. IInv /\ [Next]_vars => IInv'
    BY NextIInv, TxAssumption
  <1> QED BY InitIInv, <1>1, PTL DEF Spec

(* Every entry of the pool that evict_invalid_mempool_entries has seen     *)
(* since the chain last moved validates against the chain, however many    *)
(* handlers insert what they checked before.                               *)
THEOREM PoolStaysValid == Spec => []PoolValid
  BY Inductive, PTL DEF IInv

(* pending.json is the pool unless its last write failed: every handler    *)
(* that changes the pool writes it under the same lock.                    *)
THEOREM DiskFollowsPool == Spec => []DiskFollows
  BY Inductive, PTL DEF IInv

(* A paying entry that still validates leaves the pool, without a block or *)
(* a restart, only for a paying one with a higher fee per byte.            *)
LEMMA EvictedForBetter ==
  ASSUME IInv, NEW h \in Handler, Add(h), NEW t \in DOMAIN pool \ DOMAIN pool',
         pool[t] = "Standard"
  PROVE  \E u \in DOMAIN pool' \ DOMAIN pool : pool'[u] = "Standard" /\ Cheaper(t, u)
  <1> DEFINE s == handler[h]
  <1>1. s \in Submission
    BY DEF Add, IInv, HandlersSound, Sound
  <1>2. s.tx \in Tx /\ s.class \in Classes
    BY <1>1 DEF Submission
  <1>3. pool' \in Inserted(s.tx, s.class) /\ s.tx \notin DOMAIN pool
    BY DEF Add, Admits, Admissible
  <1> HIDE DEF s
  <1>4. s.tx \in DOMAIN pool' /\ pool'[s.tx] = s.class
    BY <1>2, <1>3, InsertedPool DEF IInv, PoolsClassed
  <1>5. Full
    BY <1>3 DEF Inserted, Put
  <1>6. PICK v \in pick_eviction_target(s.tx, s.class) :
          pool' = Put(Keep(pool, DOMAIN pool \ {v}), s.tx, s.class)
    BY <1>3, <1>5 DEF Inserted
  <1>7. t = v
    BY <1>6 DEF Put, Keep
  <1>8. MayReplace(s.tx, s.class, t)
    BY <1>6, <1>7 DEF pick_eviction_target
  <1>9. s.class = "Standard" /\ Cheaper(t, s.tx)
    BY <1>2, <1>8 DEF MayReplace, rank, Classes
  <1> QED BY <1>3, <1>4, <1>9

(* A mined transaction's inputs are spent.                                 *)
LEMMA MinedNotValid ==
  ASSUME TxAssumption, NEW c, NEW t \in Tx, t \in Mined(c)
  PROVE  ~Valid(c, t)
  <1>1. PICK o : o \in Input[t]
    BY DEF TxAssumption
  <1>2. o \notin Utxos(c)
    BY <1>1 DEF Utxos
  <1> QED BY <1>1, <1>2 DEF Valid

(* A block takes no entry out that validates before it, unless the chain   *)
(* has changed: it removes its own transactions, which are then mined.     *)
LEMMA BlockKeeps ==
  ASSUME TxAssumption, IInv, NEW B, Connected(AppendBlock(chain, B), B),
         chain' = chain, NEW t \in DOMAIN pool \ DOMAIN pool', Valid(chain, t)
  PROVE  FALSE
  <1>1. chain = AppendBlock(chain, B)
    BY DEF Connected, ChainMoves
  <1>2. t \notin Survivors(chain, B)
    BY <1>1 DEF Connected, Clean, Keep
  <1>3. t \in B
    BY <1>2 DEF Survivors
  <1>4. t \in Mined(chain)
    BY <1>1, <1>3 DEF AppendBlock, Mined
  <1>5. t \in Tx
    BY DEF IInv, PoolsClassed, Classed
  <1> QED BY <1>4, <1>5, MinedNotValid

(* The comment on MempoolPriority, for any pool and any submissions: a     *)
(* paying transaction is displaced only by a better paying one.            *)
THEOREM PayingEntriesStay == Spec => PayingStays
  <1> DEFINE Given(t) ==
               pool[t] = "Standard" /\ Valid(chain, t) /\ chain' = chain /\ upsets' = upsets
             Better(t) ==
               \E u \in DOMAIN pool' \ DOMAIN pool : pool'[u] = "Standard" /\ Cheaper(t, u)
             Stays == \A t \in DOMAIN pool \ DOMAIN pool' : Given(t) => Better(t)
  <1>1. ASSUME IInv, [Next]_vars PROVE Stays
    <2> SUFFICES ASSUME NEW t \in DOMAIN pool \ DOMAIN pool', Given(t) PROVE Better(t)
      OBVIOUS
    <2>1. CASE \E h \in Handler : Add(h)
      BY <1>1, <2>1, EvictedForBetter
    <2>2. CASE PeerBlock
      <3>1. PICK B \in Foreign(chain) : Connected(AppendBlock(chain, B), B)
        BY <2>2 DEF PeerBlock
      <3> QED BY <1>1, <3>1, BlockKeeps, TxAssumption
    <2>3. CASE PeerReorg \/ Restart
      BY <1>1, <2>3 DEF PeerReorg, Restart, IInv
    <2>4. CASE SubmitBlock
      <3>1. \/ pool' = pool
            \/ Connected(AppendBlock(chain, Range(tmpl.txs)), Range(tmpl.txs))
        BY <2>4 DEF SubmitBlock
      <3> QED BY <1>1, <3>1, BlockKeeps, TxAssumption
    <2>5. CASE pool' = pool
      BY <2>5
    <2> QED BY Zenon, <1>1, <2>1, <2>2, <2>3, <2>4, <2>5
          DEF Next, vars, Check, SubmitTxCheck, BuiltTxCheck, P2pTxCheck, Refuse, record_relay,
              PeerSideBlock, Template, TemplateHeader, TemplateEntries, TemplateCarriers
  <1>2. IInv /\ [Next]_vars => [Stays]_vars
    BY <1>1
  <1> HIDE DEF Stays
  <1>3. Spec => [][Stays]_vars
    BY Inductive, <1>2, PTL DEF Spec
  <1> QED BY <1>3 DEF Stays, PayingStays

-----------------------------------------------------------------------------
(* A property of kept that every step of the loop keeps holds at its end.  *)
LEMMA LoopInduction ==
  ASSUME NEW n \in Nat, NEW g, NEW K, g[0] \in K,
         \A i \in 1..n : g[i - 1] \in K => g[i] \in K
  PROVE  g[n] \in K
  <1> DEFINE S == {i \in Nat : i <= n => g[i] \in K}
             R == OpToRel(<, Nat)
             T == Nat \ S
  <1>1. SUFFICES T = {}
    OBVIOUS
  <1>2. SUFFICES ASSUME T # {} PROVE FALSE
    OBVIOUS
  <1>3. IsWellFoundedOn(R, Nat)
    BY Zenon, NatLessThanWellFounded
  <1>4. \A x, y \in Nat : <<x, y>> \in R <=> x < y
    BY DEF OpToRel
  <1> HIDE DEF R
  <1>5. PICK x \in T : \A y \in T : ~(<<y, x>> \in R)
    BY Zenon, <1>2, <1>3, WFMin
  <1>6. x \in Nat /\ x # 0 /\ x <= n
    BY <1>5
  <1>7. x - 1 \in Nat /\ x - 1 < x
    BY <1>6
  <1>8. x - 1 \in S
    BY Zenon, <1>4, <1>5, <1>6, <1>7
  <1> QED BY <1>5, <1>6, <1>8

(* What one more kept transaction adds.                                    *)
LEMMA RangeAppend ==
  ASSUME NEW k \in Seq(Tx), NEW t \in Tx
  PROVE  Append(k, t) \in Seq(Tx) /\ Range(Append(k, t)) = Range(k) \cup {t}
  <1>1. Append(k, t) \in Seq(Tx) /\ Len(Append(k, t)) = Len(k) + 1 /\ Len(k) \in Nat
    BY AppendProperties, LenProperties
  <1>2. /\ \A i \in 1..Len(k) : Append(k, t)[i] = k[i]
        /\ Append(k, t)[Len(k) + 1] = t
    BY AppendProperties
  <1>3. DOMAIN Append(k, t) = 1..(Len(k) + 1) /\ DOMAIN k = 1..Len(k)
    BY <1>1, LenProperties
  <1> QED BY <1>1, <1>2, <1>3 DEF Range

(* g[i] is what a loop that drops D has kept of the first i elements of s. *)
LoopOf(g, s, D) ==
  /\ g \in [0..Len(s) -> Seq(Tx)]
  /\ g[0] = <<>>
  /\ \A i \in 1..Len(s) : g[i] = IF <<g[i - 1], s[i]>> \in D THEN g[i - 1]
                                 ELSE Append(g[i - 1], s[i])

(* A loop over s that drops or keeps each element is a function: there is  *)
(* one that satisfies its equation.  D holds what is dropped: the kept     *)
(* transactions with the one that comes next.                              *)
LEMMA LoopExists ==
  ASSUME NEW s \in Seq(Tx), NEW D
  PROVE  \E g : LoopOf(g, s, D)
  <1> DEFINE Part(g, n) ==
               /\ g \in [0..n -> Seq(Tx)]
               /\ g[0] = <<>>
               /\ \A i \in 1..n : g[i] = IF <<g[i - 1], s[i]>> \in D THEN g[i - 1]
                                         ELSE Append(g[i - 1], s[i])
             has == [n \in Nat |-> \E g : Part(g, n)]
  <1>1. Len(s) \in Nat /\ \A i \in 1..Len(s) : s[i] \in Tx
    BY LenProperties, ElementOfSeq
  <1>2. has[0]
    <2> DEFINE g == [i \in 0..0 |-> <<>>]
    <2>1. <<>> \in Seq(Tx)
      OBVIOUS
    <2>2. Part(g, 0)
      BY <2>1
    <2> HIDE DEF g, Part
    <2> QED BY <2>2
  <1>3. ASSUME NEW n \in 1..Len(s), has[n - 1] PROVE has[n]
    <2>1. n \in Nat /\ n - 1 \in Nat /\ s[n] \in Tx
      BY <1>1
    <2>2. \E g : Part(g, n - 1)
      BY <1>3, <2>1
    <2>3. PICK g : Part(g, n - 1)
      BY Zenon, <2>2
    <2> DEFINE last == IF <<g[n - 1], s[n]>> \in D THEN g[n - 1] ELSE Append(g[n - 1], s[n])
               h == [i \in 0..n |-> IF i = n THEN last ELSE g[i]]
    <2>4. g[n - 1] \in Seq(Tx)
      BY <2>1, <2>3
    <2>5. last \in Seq(Tx)
      BY <2>1, <2>4, RangeAppend
    <2>6. h \in [0..n -> Seq(Tx)]
      <3> HIDE DEF last
      <3> QED BY <2>1, <2>3, <2>5
    <2>7. h[0] = <<>> /\ h[n] = last /\ \A i \in 0..(n - 1) : h[i] = g[i]
      <3> HIDE DEF last
      <3> QED BY <2>1, <2>3
    <2> HIDE DEF h
    <2>8. ASSUME NEW i \in 1..n
          PROVE  h[i] = IF <<h[i - 1], s[i]>> \in D THEN h[i - 1] ELSE Append(h[i - 1], s[i])
      <3>1. CASE i = n
        <4>1. h[i - 1] = g[n - 1] /\ h[i] = last
          BY <2>1, <2>7, <3>1
        <4> QED BY <3>1, <4>1
      <3>2. CASE i # n
        <4>1. i \in 1..(n - 1) /\ i \in 0..(n - 1) /\ i - 1 \in 0..(n - 1)
          BY <2>1, <3>2
        <4>2. h[i] = g[i] /\ h[i - 1] = g[i - 1]
          BY <2>7, <4>1
        <4> QED BY Zenon, <2>3, <4>1, <4>2
      <3> QED BY <3>1, <3>2
    <2>9. Part(h, n)
      BY <2>6, <2>7, <2>8
    <2> HIDE DEF Part
    <2> QED BY <2>1, <2>9
  <1> HIDE DEF has
  <1>4. has[Len(s)] \in {TRUE}
    <2>1. has[0] \in {TRUE}
      BY <1>2 DEF has
    <2>2. \A i \in 1..Len(s) : has[i - 1] \in {TRUE} => has[i] \in {TRUE}
      BY Zenon, <1>1, <1>3 DEF has
    <2> QED BY Zenon, <1>1, <2>1, <2>2, LoopInduction
  <1>5. \E g : Part(g, Len(s))
    BY <1>1, <1>4 DEF has
  <1> QED BY <1>5 DEF LoopOf

Compatible(B) == \A t, u \in B : t # u => Input[t] \cap Input[u] = {}

(* The template's first loop keeps a part of the entries in which no two   *)
(* spend the same coin.                                                    *)
LEMMA ConflictsDropped ==
  ASSUME NEW s \in Seq(Tx)
  PROVE  /\ DropConflicts(s) \in Seq(Tx)
         /\ Range(DropConflicts(s)) \subseteq Range(s)
         /\ Compatible(Range(DropConflicts(s)))
  <1> DEFINE Clash(k, t) == \E u \in Range(k) : Input[t] \cap Input[u] # {}
             Loop(f) == f = [i \in 0..Len(s) |->
                               IF i = 0 THEN <<>>
                               ELSE IF Clash(f[i - 1], s[i]) THEN f[i - 1]
                               ELSE Append(f[i - 1], s[i])]
             kept == CHOOSE f : Loop(f)
             D == {x \in Seq(Tx) \X Tx : Clash(x[1], x[2])}
             K == {k \in Seq(Tx) : Range(k) \subseteq Range(s) /\ Compatible(Range(k))}
  <1>1. Len(s) \in Nat /\ \A i \in 1..Len(s) : s[i] \in Tx /\ s[i] \in Range(s)
    BY LenProperties, ElementOfSeq DEF Range
  <1>2. DropConflicts(s) = kept[Len(s)]
    BY DEF DropConflicts
  <1>3. \A k \in Seq(Tx), t \in Tx : <<k, t>> \in D <=> Clash(k, t)
    OBVIOUS
  <1> HIDE DEF Clash
  <1>4. \E f : Loop(f)
    <2> HIDE DEF D
    <2>1. PICK g : LoopOf(g, s, D)
      BY LoopExists
    <2>2. \A i \in 1..Len(s) : g[i - 1] \in Seq(Tx)
      BY <1>1, <2>1 DEF LoopOf
    <2>3. ASSUME NEW i \in 0..Len(s)
          PROVE  g[i] = IF i = 0 THEN <<>>
                        ELSE IF Clash(g[i - 1], s[i]) THEN g[i - 1]
                        ELSE Append(g[i - 1], s[i])
      <3>1. CASE i = 0
        BY <2>1, <3>1 DEF LoopOf
      <3>2. CASE i # 0
        <4>1. i \in 1..Len(s)
          BY <1>1, <3>2
        <4>2. <<g[i - 1], s[i]>> \in D <=> Clash(g[i - 1], s[i])
          BY <1>1, <1>3, <2>2, <4>1
        <4> QED BY Zenon, <2>1, <3>2, <4>1, <4>2 DEF LoopOf
      <3> QED BY <3>1, <3>2
    <2>4. Loop(g)
      BY <2>1, <2>3 DEF LoopOf
    <2> HIDE DEF Loop
    <2> QED BY <2>4
  <1>5. Loop(kept)
    <2> HIDE DEF Loop
    <2> QED BY <1>4
  <1> HIDE DEF kept
  <1>6. /\ kept[0] = <<>>
        /\ \A i \in 1..Len(s) : kept[i] = IF Clash(kept[i - 1], s[i]) THEN kept[i - 1]
                                          ELSE Append(kept[i - 1], s[i])
    <2>1. 0 \in 0..Len(s) /\ \A i \in 1..Len(s) : i \in 0..Len(s) /\ i # 0
      BY <1>1
    <2> QED BY Zenon, <1>5, <2>1
  <1> HIDE DEF Loop
  <1>7. kept[0] \in K
    BY <1>6 DEF Range, Compatible
  <1>8. ASSUME NEW i \in 1..Len(s), kept[i - 1] \in K PROVE kept[i] \in K
    <2> DEFINE k == kept[i - 1]
    <2>1. CASE Clash(k, s[i])
      BY <1>6, <1>8, <2>1
    <2>2. CASE ~Clash(k, s[i])
      <3>1. kept[i] = Append(k, s[i])
        BY Zenon, <1>6, <2>2
      <3>2. k \in Seq(Tx) /\ Range(k) \subseteq Range(s) /\ Compatible(Range(k))
        BY <1>8
      <3>3. s[i] \in Tx /\ s[i] \in Range(s)
        BY <1>1
      <3> HIDE DEF k
      <3>4. kept[i] \in Seq(Tx) /\ Range(kept[i]) = Range(k) \cup {s[i]}
        BY <3>1, <3>2, <3>3, RangeAppend
      <3>5. \A u \in Range(k) : Input[s[i]] \cap Input[u] = {}
        BY <2>2 DEF Clash
      <3>6. Compatible(Range(kept[i]))
        BY <3>2, <3>4, <3>5 DEF Compatible
      <3> QED BY Zenon, <3>2, <3>3, <3>4, <3>6
    <2> QED BY <2>1, <2>2
  <1> HIDE DEF K
  <1>9. kept[Len(s)] \in K
    BY <1>1, <1>7, <1>8, LoopInduction
  <1> QED BY <1>2, <1>9 DEF K

(* Carriers that connect, and one for each external chain.                 *)
Carriers(c, B) ==
  \A t \in B, e \in Ext :
    Carries(t, e) => Connects(c, t, e) /\ \A u \in B : Carries(u, e) => u = t

(* The second loop leaves at most one carrier for each relay, and one that *)
(* connects to its tip.                                                    *)
LEMMA CarriersDropped ==
  ASSUME NEW c, NEW s \in Seq(Tx)
  PROVE  /\ DropCarriers(c, s) \in Seq(Tx)
         /\ Range(DropCarriers(c, s)) \subseteq Range(s)
         /\ Carriers(c, Range(DropCarriers(c, s)))
  <1> DEFINE Refused(k, t) ==
               \E e \in Ext : /\ Carries(t, e)
                              /\ ~Connects(c, t, e) \/ \E u \in Range(k) : Connects(c, u, e)
             Loop(f) == f = [i \in 0..Len(s) |->
                               IF i = 0 THEN <<>>
                               ELSE IF Refused(f[i - 1], s[i]) THEN f[i - 1]
                               ELSE Append(f[i - 1], s[i])]
             kept == CHOOSE f : Loop(f)
             D == {x \in Seq(Tx) \X Tx : Refused(x[1], x[2])}
             K == {k \in Seq(Tx) : Range(k) \subseteq Range(s) /\ Carriers(c, Range(k))}
  <1>1. Len(s) \in Nat /\ \A i \in 1..Len(s) : s[i] \in Tx /\ s[i] \in Range(s)
    BY LenProperties, ElementOfSeq DEF Range
  <1>2. DropCarriers(c, s) = kept[Len(s)]
    BY DEF DropCarriers
  <1>3. \A k \in Seq(Tx), t \in Tx : <<k, t>> \in D <=> Refused(k, t)
    OBVIOUS
  <1> HIDE DEF Refused
  <1>4. \E f : Loop(f)
    <2> HIDE DEF D
    <2>1. PICK g : LoopOf(g, s, D)
      BY LoopExists
    <2>2. \A i \in 1..Len(s) : g[i - 1] \in Seq(Tx)
      BY <1>1, <2>1 DEF LoopOf
    <2>3. ASSUME NEW i \in 0..Len(s)
          PROVE  g[i] = IF i = 0 THEN <<>>
                        ELSE IF Refused(g[i - 1], s[i]) THEN g[i - 1]
                        ELSE Append(g[i - 1], s[i])
      <3>1. CASE i = 0
        BY <2>1, <3>1 DEF LoopOf
      <3>2. CASE i # 0
        <4>1. i \in 1..Len(s)
          BY <1>1, <3>2
        <4>2. <<g[i - 1], s[i]>> \in D <=> Refused(g[i - 1], s[i])
          BY <1>1, <1>3, <2>2, <4>1
        <4> QED BY Zenon, <2>1, <3>2, <4>1, <4>2 DEF LoopOf
      <3> QED BY <3>1, <3>2
    <2>4. Loop(g)
      BY <2>1, <2>3 DEF LoopOf
    <2> HIDE DEF Loop
    <2> QED BY <2>4
  <1>5. Loop(kept)
    <2> HIDE DEF Loop
    <2> QED BY <1>4
  <1> HIDE DEF kept
  <1>6. /\ kept[0] = <<>>
        /\ \A i \in 1..Len(s) : kept[i] = IF Refused(kept[i - 1], s[i]) THEN kept[i - 1]
                                          ELSE Append(kept[i - 1], s[i])
    <2>1. 0 \in 0..Len(s) /\ \A i \in 1..Len(s) : i \in 0..Len(s) /\ i # 0
      BY <1>1
    <2> QED BY Zenon, <1>5, <2>1
  <1> HIDE DEF Loop
  <1>7. kept[0] \in K
    BY <1>6 DEF Range, Carriers
  <1>8. ASSUME NEW i \in 1..Len(s), kept[i - 1] \in K PROVE kept[i] \in K
    <2> DEFINE k == kept[i - 1]
    <2>1. CASE Refused(k, s[i])
      BY <1>6, <1>8, <2>1
    <2>2. CASE ~Refused(k, s[i])
      <3>1. kept[i] = Append(k, s[i])
        BY Zenon, <1>6, <2>2
      <3>2. k \in Seq(Tx) /\ Range(k) \subseteq Range(s) /\ Carriers(c, Range(k))
        BY <1>8
      <3>3. s[i] \in Tx /\ s[i] \in Range(s)
        BY <1>1
      <3> HIDE DEF k
      <3>4. kept[i] \in Seq(Tx) /\ Range(kept[i]) = Range(k) \cup {s[i]}
        BY <3>1, <3>2, <3>3, RangeAppend
      <3>5. \A e \in Ext : Carries(s[i], e) =>
              Connects(c, s[i], e) /\ \A u \in Range(k) : ~Connects(c, u, e)
        BY <2>2 DEF Refused
      <3>6. \A e \in Ext : Carries(s[i], e) => \A u \in Range(k) : ~Carries(u, e)
        BY <3>2, <3>5 DEF Carriers
      <3>7. Carriers(c, Range(kept[i]))
        BY <3>2, <3>4, <3>5, <3>6 DEF Carriers
      <3> QED BY Zenon, <3>2, <3>3, <3>4, <3>7
    <2> QED BY <2>1, <2>2
  <1> HIDE DEF K
  <1>9. kept[Len(s)] \in K
    BY <1>1, <1>7, <1>8, LoopInduction
  <1> QED BY <1>2, <1>9 DEF K

-----------------------------------------------------------------------------
Bounded(p) == IsPool(p) /\ IsFiniteSet(DOMAIN p)

PoolsBounded ==
  /\ Bounded(pool)
  /\ disk # Torn => Bounded(disk)
  /\ unscanned \subseteq DOMAIN pool

CountersTyped ==
  /\ undrained \in BOOLEAN /\ dirty \in BOOLEAN
  /\ faults \in 0..MaxUpsets /\ upsets \in 0..MaxUpsets

IsChain(c) == c \in [below : SUBSET Tx, last : SUBSET Tx]

Templates ==
  [phase : {"none", "header", "entries", "job"}, scanned : BOOLEAN, txs : Seq(Tx)]

(* What the looks at pool and chain so far have made sure of.              *)
TemplateSound(j, c) ==
  /\ j \in Templates
  /\ j.phase \in {"entries", "job"} =>
       /\ Compatible(Range(j.txs))
       /\ j.scanned => \A t \in Range(j.txs) : Valid(c, t)
  /\ j.phase = "job" => Carriers(c, Range(j.txs))

(* The invariant the capacity and the templates need besides IInv.         *)
TInv == PoolsBounded /\ CountersTyped /\ IsChain(chain) /\ TemplateSound(tmpl, chain)

(* Taking entries out keeps a pool within its capacity.                    *)
LEMMA KeepBounded ==
  ASSUME NEW p, Bounded(p), NEW S
  PROVE  Bounded(Keep(p, S)) /\ DOMAIN Keep(p, S) \subseteq DOMAIN p
  <1>1. DOMAIN Keep(p, S) = DOMAIN p \cap S
    BY DEF Keep
  <1>2. IsFiniteSet(DOMAIN p) /\ DOMAIN p \subseteq Tx /\ Cardinality(DOMAIN p) <= MaxEntries
    BY DEF Bounded, IsPool
  <1>3. DOMAIN p \cap S \in SUBSET (DOMAIN p)
    OBVIOUS
  <1>4. /\ IsFiniteSet(DOMAIN p \cap S)
        /\ Cardinality(DOMAIN p \cap S) <= Cardinality(DOMAIN p)
    BY <1>2, <1>3, FS_Subset
  <1>5. /\ Cardinality(DOMAIN p) \in Nat
        /\ Cardinality(DOMAIN p \cap S) \in Nat
        /\ MaxEntries \in Nat
    BY <1>2, <1>4, FS_CardinalityType, BoundAssumption
  <1>6. Cardinality(DOMAIN Keep(p, S)) <= MaxEntries
    BY <1>1, <1>2, <1>4, <1>5
  <1>7. \A t \in DOMAIN Keep(p, S) : Keep(p, S)[t] \in {"ZeroFeeAllowed", "Standard"}
    BY DEF Keep, Bounded, IsPool
  <1> QED BY <1>1, <1>2, <1>4, <1>6, <1>7 DEF Bounded, IsPool

(* An empty pool is within any capacity.                                   *)
LEMMA EmptyBounded == Bounded(<<>>)
  <1>1. DOMAIN <<>> = {}
    OBVIOUS
  <1>2. IsFiniteSet({}) /\ Cardinality({}) = 0
    BY FS_EmptySet
  <1> QED BY <1>1, <1>2, BoundAssumption DEF Bounded, IsPool

(* An insertion makes room first where the pool is full.                   *)
LEMMA InsertBounded ==
  ASSUME Bounded(pool), NEW t \in Tx, NEW class \in Classes, t \notin DOMAIN pool,
         NEW p \in Inserted(t, class)
  PROVE  Bounded(p) /\ t \in DOMAIN p
  <1>1. IsFiniteSet(DOMAIN pool) /\ DOMAIN pool \subseteq Tx
    BY DEF Bounded, IsPool
  <1>2. Cardinality(DOMAIN pool) \in Nat /\ MaxEntries \in Nat \ {0}
    BY <1>1, FS_CardinalityType, BoundAssumption
  <1>3. Cardinality(DOMAIN pool) <= MaxEntries
    BY DEF Bounded, IsPool
  <1>4. Classed(pool)
    BY DEF Bounded, IsPool, Classed, Classes
  <1>5. Classed(p) /\ t \in DOMAIN p
    BY <1>4, InsertedPool
  <1>6. IsFiniteSet(DOMAIN p) /\ Cardinality(DOMAIN p) <= MaxEntries
    <2>1. CASE Full
      <3>1. PICK v \in pick_eviction_target(t, class) :
              p = Put(Keep(pool, DOMAIN pool \ {v}), t, class)
        BY <2>1 DEF Inserted
      <3> DEFINE R == DOMAIN pool \ {v}
      <3>2. v \in DOMAIN pool
        BY DEF pick_eviction_target, Lowest
      <3>3. DOMAIN p = R \cup {t}
        BY <3>1 DEF Put, Keep
      <3>4. t \notin R
        OBVIOUS
      <3>5. IsFiniteSet(R) /\ Cardinality(R) = Cardinality(DOMAIN pool) - 1
        BY <1>1, <3>2, FS_RemoveElement
      <3> HIDE DEF R
      <3>6. IsFiniteSet(R \cup {t}) /\ Cardinality(R \cup {t}) = Cardinality(R) + 1
        BY <3>4, <3>5, FS_AddElement
      <3> QED BY <1>2, <1>3, <3>3, <3>5, <3>6
    <2>2. CASE ~Full
      <3>1. DOMAIN p = DOMAIN pool \cup {t}
        BY <2>2 DEF Inserted, Put
      <3>2. /\ IsFiniteSet(DOMAIN pool \cup {t})
            /\ Cardinality(DOMAIN pool \cup {t}) = Cardinality(DOMAIN pool) + 1
        BY <1>1, FS_AddElement
      <3>3. Cardinality(DOMAIN pool) < MaxEntries
        BY <1>2, <2>2 DEF Full
      <3> QED BY <1>2, <3>1, <3>2, <3>3
    <2> QED BY <2>1, <2>2
  <1> QED BY <1>5, <1>6 DEF Bounded, IsPool, Classed, Classes

(* A write, failed or not, leaves a file within the capacity.              *)
LEMMA PersistBounded ==
  ASSUME NEW ok \in BOOLEAN, NEW p, Persist(ok, p), Bounded(p),
         disk # Torn => Bounded(disk), CountersTyped
  PROVE  /\ disk' # Torn => Bounded(disk')
         /\ dirty' \in BOOLEAN /\ faults' \in 0..MaxUpsets
  <1>1. disk' \in {disk, Torn, p} /\ dirty' = ~ok
    BY DEF Persist
  <1>2. ok \/ Calm
    BY DEF Persist
  <1>3. faults' = IF ok THEN faults ELSE faults + 1
    BY DEF Persist
  <1>4. faults' \in 0..MaxUpsets
    BY <1>2, <1>3, BoundAssumption DEF Calm, CountersTyped
  <1> QED BY <1>1, <1>4

(* The start.                                                              *)
LEMMA InitTInv == Init => TInv
  <1> SUFFICES ASSUME Init PROVE TInv
    OBVIOUS
  <1>1. PoolsBounded
    BY EmptyBounded DEF Init, PoolsBounded
  <1>2. CountersTyped
    <2>1. 0 \in 0..MaxUpsets
      BY BoundAssumption
    <2> QED BY Zenon, <2>1 DEF Init, CountersTyped
  <1>3. IsChain(chain)
    BY DEF Init, IsChain
  <1>4. TemplateSound(tmpl, chain)
    BY DEF Init, NoTemplate, TemplateSound, Templates
  <1> QED BY <1>1, <1>2, <1>3, <1>4 DEF TInv

(* A step that touches neither pool, file, chain nor template.             *)
LEMMA QuietTInv ==
  ASSUME TInv,
         UNCHANGED <<chain, undrained, pool, disk, tmpl, unscanned, dirty, faults, upsets>>
  PROVE  TInv'
  <1>1. PoolsBounded'
    BY DEF TInv, PoolsBounded, Bounded, IsPool
  <1>2. CountersTyped'
    BY DEF TInv, CountersTyped
  <1>3. IsChain(chain)' /\ TemplateSound(tmpl, chain)'
    BY DEF TInv
  <1> QED BY <1>1, <1>2, <1>3 DEF TInv

(* An insertion.                                                           *)
LEMMA AddTInv ==
  ASSUME IInv, TInv, NEW h \in Handler, Add(h)
  PROVE  TInv'
  <1> DEFINE s == handler[h]
  <1>1. s.tx \in Tx /\ s.class \in Classes
    <2>1. s \in Submission
      BY DEF Add, IInv, HandlersSound, Sound
    <2> QED BY <2>1 DEF Submission
  <1>2. /\ s.tx \notin DOMAIN pool
        /\ pool' \in Inserted(s.tx, s.class)
        /\ unscanned' = (unscanned \cap DOMAIN pool') \cup (IF s.moved THEN {s.tx} ELSE {})
    BY DEF Add, Admits, Admissible
  <1>3. UNCHANGED <<chain, undrained, tmpl, upsets>>
    BY DEF Add, Done
  <1>4. PICK ok \in BOOLEAN : Persist(ok, pool')
    BY DEF Add
  <1> HIDE DEF s
  <1>5. Bounded(pool') /\ s.tx \in DOMAIN pool'
    BY <1>1, <1>2, InsertBounded DEF TInv, PoolsBounded
  <1>6. /\ disk' # Torn => Bounded(disk')
        /\ dirty' \in BOOLEAN /\ faults' \in 0..MaxUpsets
    BY <1>4, <1>5, PersistBounded DEF TInv, PoolsBounded
  <1>7. PoolsBounded'
    BY <1>2, <1>5, <1>6 DEF PoolsBounded, Bounded, IsPool
  <1>8. CountersTyped'
    BY <1>3, <1>6 DEF TInv, CountersTyped
  <1>9. IsChain(chain)' /\ TemplateSound(tmpl, chain)'
    BY <1>3 DEF TInv
  <1> QED BY <1>7, <1>8, <1>9 DEF TInv

(* Noting a relaying peer.                                                 *)
LEMMA RelayTInv ==
  ASSUME TInv, record_relay
  PROVE  TInv'
  <1>1. UNCHANGED <<chain, undrained, pool, tmpl, unscanned, upsets>>
    BY DEF record_relay
  <1>2. PICK ok \in BOOLEAN : Persist(ok, pool)
    BY DEF record_relay
  <1>3. /\ disk' # Torn => Bounded(disk')
        /\ dirty' \in BOOLEAN /\ faults' \in 0..MaxUpsets
    BY <1>2, PersistBounded DEF TInv, PoolsBounded
  <1>4. PoolsBounded'
    BY <1>1, <1>3 DEF TInv, PoolsBounded, Bounded, IsPool
  <1>5. CountersTyped'
    BY <1>1, <1>3 DEF TInv, CountersTyped
  <1>6. IsChain(chain)' /\ TemplateSound(tmpl, chain)'
    BY <1>1 DEF TInv
  <1> QED BY <1>4, <1>5, <1>6 DEF TInv

(* The blocks that appear on a chain are sets of transactions.             *)
LEMMA ChainGrows ==
  ASSUME NEW c, IsChain(c)
  PROVE  /\ IsChain(Parent(c))
         /\ \A B \in SUBSET Tx : IsChain(AppendBlock(c, B))
         /\ Foreign(c) \subseteq SUBSET Tx
  BY DEF IsChain, Parent, AppendBlock, Mined, Foreign

(* Whatever moves the chain takes the template back.                       *)
LEMMA MovesTemplate ==
  ASSUME NEW c, ChainMoves(c), IsChain(c)
  PROVE  IsChain(chain)' /\ TemplateSound(tmpl, chain)'
  <1>1. chain' = c /\ tmpl' = NoTemplate
    BY DEF ChainMoves
  <1>2. TemplateSound(NoTemplate, c)
    BY DEF NoTemplate, TemplateSound, Templates
  <1> QED BY <1>1, <1>2

(* A block that connects.                                                  *)
LEMMA ConnectedTInv ==
  ASSUME TInv, NEW c, IsChain(c), NEW B, Connected(c, B),
         undrained' \in BOOLEAN, upsets' \in 0..MaxUpsets
  PROVE  TInv'
  <1>1. IsChain(chain)' /\ TemplateSound(tmpl, chain)'
    BY MovesTemplate DEF Connected
  <1>2. pool' = Keep(pool, Survivors(c, B)) /\ unscanned' = {}
    BY DEF Connected, Clean
  <1>3. \A S : Bounded(Keep(pool, S))
    BY KeepBounded DEF TInv, PoolsBounded
  <1>4. Bounded(pool')
    BY <1>2, <1>3
  <1>5. /\ disk' # Torn => Bounded(disk')
        /\ dirty' \in BOOLEAN /\ faults' \in 0..MaxUpsets
    <2>1. CASE pool' = pool
      <3>1. UNCHANGED <<disk, dirty, faults>>
        BY <2>1 DEF Connected, Clean, LeaveDisk
      <3> QED BY <3>1 DEF TInv, PoolsBounded, CountersTyped
    <2>2. CASE pool' # pool /\ Persist(TRUE, pool')
      BY Zenon, <1>4, <2>2, PersistBounded DEF TInv, PoolsBounded
    <2>3. CASE pool' # pool /\ ~Persist(TRUE, pool')
      <3>1. /\ Calm
            /\ faults' = faults + 1
            /\ dirty' = TRUE
            /\ disk' \in {disk, Torn} \cup
                 {Keep(pool, Survivors(c, B) \cup S) : S \in SUBSET DOMAIN pool}
        BY Zenon, <2>3 DEF Connected, Clean
      <3>2. disk' # Torn => Bounded(disk')
        BY Zenon, <1>3, <3>1 DEF TInv, PoolsBounded
      <3>3. faults' \in 0..MaxUpsets
        BY <3>1, BoundAssumption DEF Calm, TInv, CountersTyped
      <3> QED BY <3>1, <3>2, <3>3
    <2> QED BY Zenon, <2>1, <2>2, <2>3
  <1>6. PoolsBounded'
    BY <1>2, <1>4, <1>5 DEF PoolsBounded, Bounded, IsPool
  <1>7. CountersTyped'
    BY <1>5 DEF CountersTyped
  <1> QED BY <1>1, <1>6, <1>7 DEF TInv

(* Blocks of peers, and the one made from the template.                    *)
LEMMA BlockTInv ==
  ASSUME TInv, PeerBlock \/ PeerReorg \/ SubmitBlock
  PROVE  TInv'
  <1>1. IsChain(chain) /\ undrained \in BOOLEAN /\ upsets \in 0..MaxUpsets
    BY DEF TInv, CountersTyped
  <1>2. CASE PeerBlock
    <2>1. PICK B \in Foreign(chain) : Connected(AppendBlock(chain, B), B)
      BY <1>2 DEF PeerBlock
    <2>2. IsChain(AppendBlock(chain, B))
      BY <1>1, ChainGrows
    <2>3. undrained' \in BOOLEAN /\ upsets' \in 0..MaxUpsets
      BY Zenon, <1>1, <1>2 DEF PeerBlock
    <2> QED BY <2>1, <2>2, <2>3, ConnectedTInv
  <1>3. CASE PeerReorg
    <2>1. PICK A \in Foreign(Parent(chain)) :
            LET c == AppendBlock(Parent(chain), A) IN
              \E B \in Foreign(c) : Connected(AppendBlock(c, B), B)
      BY <1>3 DEF PeerReorg
    <2> DEFINE c == AppendBlock(Parent(chain), A)
    <2>2. PICK B \in Foreign(c) : Connected(AppendBlock(c, B), B)
      BY <2>1
    <2>3. IsChain(c)
      BY <1>1, ChainGrows
    <2> HIDE DEF c
    <2>4. IsChain(AppendBlock(c, B))
      BY <2>3, ChainGrows
    <2>5. undrained' = FALSE /\ Calm /\ upsets' = upsets + 1
      BY <1>3 DEF PeerReorg
    <2>6. upsets' \in 0..MaxUpsets
      BY <1>1, <2>5, BoundAssumption DEF Calm, TInv, CountersTyped
    <2> QED BY Zenon, <2>2, <2>4, <2>5, <2>6, ConnectedTInv
  <1>4. CASE SubmitBlock
    <2> DEFINE B == Range(tmpl.txs)
    <2>1. B \in SUBSET Tx
      <3>1. tmpl.txs \in Seq(Tx)
        BY DEF TInv, TemplateSound, Templates
      <3> QED BY <3>1, RangeOfSeq DEF Range
    <2>2. IsChain(AppendBlock(chain, B))
      BY <1>1, <2>1, ChainGrows
    <2>3. upsets' = upsets
      BY <1>4 DEF SubmitBlock
    <2>4. \/ Connected(AppendBlock(chain, B), B) /\ undrained' = TRUE
          \/ /\ tmpl' = NoTemplate
             /\ UNCHANGED <<chain, undrained, pool, disk, handler, unscanned, dirty, faults>>
      BY <1>4 DEF SubmitBlock
    <2> HIDE DEF B
    <2>5. CASE Connected(AppendBlock(chain, B), B) /\ undrained' = TRUE
      BY <1>1, <2>2, <2>3, <2>5, ConnectedTInv
    <2>6. CASE /\ tmpl' = NoTemplate
               /\ UNCHANGED <<chain, undrained, pool, disk, handler, unscanned, dirty, faults>>
      <3>1. PoolsBounded'
        BY Zenon, <2>6 DEF TInv, PoolsBounded, Bounded, IsPool
      <3>2. CountersTyped'
        BY <2>3, <2>6 DEF TInv, CountersTyped
      <3>3. TemplateSound(NoTemplate, chain)
        BY DEF NoTemplate, TemplateSound, Templates
      <3>4. IsChain(chain)' /\ TemplateSound(tmpl, chain)'
        BY <1>1, <2>6, <3>3
      <3> QED BY <3>1, <3>2, <3>4 DEF TInv
    <2> QED BY Zenon, <2>4, <2>5, <2>6
  <1> QED BY <1>2, <1>3, <1>4

(* An orphan drained behind a side-branch block.                           *)
LEMMA SideTInv ==
  ASSUME TInv, PeerSideBlock
  PROVE  TInv'
  <1>1. PICK B \in Foreign(chain) : ChainMoves(AppendBlock(chain, B))
    BY DEF PeerSideBlock
  <1>2. IsChain(AppendBlock(chain, B))
    BY ChainGrows DEF TInv
  <1>3. IsChain(chain)' /\ TemplateSound(tmpl, chain)'
    BY <1>1, <1>2, MovesTemplate
  <1>4. /\ unscanned' = DOMAIN pool /\ undrained' = FALSE
        /\ UNCHANGED <<pool, disk, dirty, faults, upsets>>
    BY DEF PeerSideBlock
  <1>5. PoolsBounded'
    BY <1>4 DEF TInv, PoolsBounded, Bounded, IsPool
  <1>6. CountersTyped'
    BY Zenon, <1>4 DEF TInv, CountersTyped
  <1> QED BY <1>3, <1>5, <1>6 DEF TInv

(* A restart loads the file, which never held more than the pool may.      *)
LEMMA RestartTInv ==
  ASSUME TInv, Restart
  PROVE  TInv'
  <1>1. /\ Calm /\ upsets' = upsets + 1
        /\ chain' \in {chain, Parent(chain)}
        /\ disk' \in {disk, Torn} /\ dirty' = (dirty \/ disk' = Torn)
        /\ pool' = IF disk' = Torn THEN <<>> ELSE disk'
        /\ unscanned' = DOMAIN pool'
        /\ undrained' = FALSE /\ tmpl' = NoTemplate /\ faults' = faults
    BY DEF Restart
  <1>2. disk' # Torn => Bounded(disk')
    BY <1>1 DEF TInv, PoolsBounded
  <1>3. Bounded(pool')
    BY <1>1, <1>2, EmptyBounded
  <1>4. PoolsBounded'
    BY <1>1, <1>2, <1>3 DEF PoolsBounded, Bounded, IsPool
  <1>5. upsets' \in 0..MaxUpsets
    BY <1>1, BoundAssumption DEF Calm, TInv, CountersTyped
  <1>6. CountersTyped'
    BY Zenon, <1>1, <1>5 DEF TInv, CountersTyped
  <1>7. IsChain(chain')
    BY <1>1, ChainGrows DEF TInv
  <1>8. TemplateSound(NoTemplate, chain')
    BY DEF NoTemplate, TemplateSound, Templates
  <1> QED BY <1>1, <1>4, <1>6, <1>7, <1>8 DEF TInv

(* A template's entries are an order of the pool's, cut somewhere.         *)
LEMMA EntriesTyped ==
  ASSUME Bounded(pool), NEW s \in Ordered(DOMAIN pool), NEW n \in Limits
  PROVE  LET r == SubSeq(s, 1, IF n < Len(s) THEN n ELSE Len(s)) IN
           r \in Seq(Tx) /\ Range(r) \subseteq DOMAIN pool
  <1> DEFINE m == IF n < Len(s) THEN n ELSE Len(s)
             r == SubSeq(s, 1, m)
  <1>1. IsFiniteSet(DOMAIN pool) /\ DOMAIN pool \subseteq Tx
    BY DEF Bounded, IsPool
  <1>2. Cardinality(DOMAIN pool) \in Nat
    BY <1>1, FS_CardinalityType
  <1>3. s \in [1..Cardinality(DOMAIN pool) -> DOMAIN pool]
    BY DEF Ordered
  <1>4. s \in Seq(DOMAIN pool) /\ Len(s) \in Nat
    BY <1>2, <1>3, SeqDef, LenProperties
  <1>5. m \in 0..Len(s)
    BY <1>4, BoundAssumption
  <1>6. r \in Seq(DOMAIN pool)
    <2>1. 1 \in 1..Len(s) + 1 /\ m \in 0..Len(s)
      BY <1>4, <1>5
    <2> HIDE DEF m
    <2> QED BY <1>4, <2>1, SubSeqProperties
  <1> HIDE DEF r
  <1>7. Range(r) \subseteq DOMAIN pool
    BY <1>6, RangeOfSeq DEF Range
  <1>8. r \in Seq(Tx)
    BY <1>1, <1>6, SeqDef
  <1> QED BY <1>7, <1>8 DEF r

(* The three looks.  The second finds entries that validate unless some    *)
(* are unscanned, the third the relay's tips.                              *)
LEMMA TemplateTInv ==
  ASSUME IInv, TInv, TemplateHeader \/ TemplateEntries \/ TemplateCarriers
  PROVE  TInv'
  <1>1. UNCHANGED <<chain, undrained, pool, disk, unscanned, dirty, faults, upsets>>
    BY Zenon DEF TemplateHeader, TemplateEntries, TemplateCarriers
  <1>2. PoolsBounded' /\ CountersTyped' /\ IsChain(chain)'
    BY <1>1 DEF TInv, PoolsBounded, Bounded, IsPool, CountersTyped, IsChain
  <1>3. TemplateSound(tmpl, chain)
    BY DEF TInv
  <1>4. TemplateSound(tmpl', chain)
    <2>1. CASE TemplateHeader
      <3>1. tmpl' = [phase |-> "header", scanned |-> FALSE, txs |-> <<>>]
        BY Zenon, <2>1 DEF TemplateHeader, NoTemplate
      <3>2. <<>> \in Seq(Tx)
        OBVIOUS
      <3>3. tmpl' \in Templates /\ tmpl'.phase = "header"
        BY <3>1, <3>2 DEF Templates
      <3> QED BY Zenon, <3>3 DEF TemplateSound
    <2>2. CASE TemplateEntries
      <3>1. PICK s \in Ordered(DOMAIN pool), n \in Limits :
              tmpl' = [tmpl EXCEPT !.phase = "entries",
                         !.scanned = unscanned = {},
                         !.txs = DropConflicts(SubSeq(s, 1, IF n < Len(s) THEN n ELSE Len(s)))]
        BY Zenon, <2>2 DEF TemplateEntries
      <3> DEFINE r == SubSeq(s, 1, IF n < Len(s) THEN n ELSE Len(s))
                 k == DropConflicts(r)
      <3>2. r \in Seq(Tx) /\ Range(r) \subseteq DOMAIN pool
        BY EntriesTyped DEF TInv, PoolsBounded
      <3> HIDE DEF r
      <3>3. k \in Seq(Tx) /\ Range(k) \subseteq Range(r) /\ Compatible(Range(k))
        BY <3>2, ConflictsDropped
      <3>4. tmpl' = [tmpl EXCEPT !.phase = "entries", !.scanned = unscanned = {}, !.txs = k]
        BY <3>1 DEF r
      <3> HIDE DEF k
      <3>5. tmpl' \in Templates
        BY Zenon, <1>3, <3>3, <3>4 DEF TemplateSound, Templates
      <3>6. tmpl'.phase = "entries" /\ tmpl'.txs = k /\ tmpl'.scanned = (unscanned = {})
        BY <1>3, <3>4 DEF TemplateSound, Templates
      <3>7. ASSUME tmpl'.scanned, NEW t \in Range(k) PROVE Valid(chain, t)
        <4>1. unscanned = {}
          BY Zenon, <3>6, <3>7
        <4>2. t \in DOMAIN pool \ unscanned
          BY <3>2, <3>3, <4>1
        <4> QED BY <4>2 DEF IInv, PoolValid
      <3> QED BY <3>3, <3>5, <3>6, <3>7 DEF TemplateSound
    <2>3. CASE TemplateCarriers
      <3> DEFINE k == DropCarriers(chain, tmpl.txs)
      <3>1. tmpl.phase = "entries" /\ tmpl' = [tmpl EXCEPT !.phase = "job", !.txs = k]
        BY <2>3 DEF TemplateCarriers
      <3>2. tmpl.txs \in Seq(Tx)
        BY <1>3 DEF TemplateSound, Templates
      <3>3. /\ k \in Seq(Tx) /\ Range(k) \subseteq Range(tmpl.txs)
            /\ Carriers(chain, Range(k))
        BY <3>2, CarriersDropped
      <3> HIDE DEF k
      <3>4. /\ tmpl' \in Templates
            /\ tmpl'.phase = "job" /\ tmpl'.txs = k /\ tmpl'.scanned = tmpl.scanned
        BY Zenon, <1>3, <3>1, <3>3 DEF TemplateSound, Templates
      <3>5. /\ Compatible(Range(tmpl.txs))
            /\ tmpl.scanned => \A t \in Range(tmpl.txs) : Valid(chain, t)
        BY <1>3, <3>1 DEF TemplateSound
      <3>6. Compatible(Range(k))
        BY <3>3, <3>5 DEF Compatible
      <3> QED BY <3>3, <3>4, <3>5, <3>6 DEF TemplateSound
    <2> QED BY <2>1, <2>2, <2>3
  <1>5. TemplateSound(tmpl, chain)'
    BY <1>1, <1>4
  <1> QED BY <1>2, <1>5 DEF TInv

(* Every step keeps it.                                                    *)
LEMMA NextTInv == ASSUME IInv, TInv, [Next]_vars PROVE TInv'
  <1> DEFINE Quiet ==
        UNCHANGED <<chain, undrained, pool, disk, tmpl, unscanned, dirty, faults, upsets>>
  <1>1. CASE \E h \in Handler, t \in Tx :
               SubmitTxCheck(h, t) \/ BuiltTxCheck(h, t) \/ P2pTxCheck(h, t)
    <2>1. Quiet
      BY <1>1 DEF SubmitTxCheck, BuiltTxCheck, P2pTxCheck, Check
    <2> QED BY <2>1, QuietTInv
  <1>2. CASE \E h \in Handler : Add(h)
    BY <1>2, AddTInv
  <1>3. CASE \E h \in Handler : Refuse(h)
    <2>1. Quiet
      BY <1>3 DEF Refuse, LeaveDisk, Done
    <2> QED BY <2>1, QuietTInv
  <1>4. CASE record_relay
    BY <1>4, RelayTInv
  <1>5. CASE PeerBlock \/ PeerReorg \/ SubmitBlock
    BY <1>5, BlockTInv
  <1>6. CASE PeerSideBlock
    BY <1>6, SideTInv
  <1>7. CASE TemplateHeader \/ TemplateEntries \/ TemplateCarriers
    BY <1>7, TemplateTInv
  <1>8. CASE Restart
    BY <1>8, RestartTInv
  <1>9. CASE UNCHANGED vars
    <2>1. Quiet
      BY <1>9 DEF vars
    <2> QED BY <2>1, QuietTInv
  <1> QED BY <1>1, <1>2, <1>3, <1>4, <1>5, <1>6, <1>7, <1>8, <1>9 DEF Next, Template

(* Both invariants hold in every reachable state.                          *)
LEMMA InductiveT == Spec => [](IInv /\ TInv)
  <1>1. IInv /\ TInv /\ [Next]_vars => TInv'
    BY NextTInv
  <1> QED BY Inductive, InitTInv, <1>1, PTL DEF Spec

(* The state keeps its types; above all no handler, loaded file or refused *)
(* eviction takes the pool or pending.json beyond max_entries.             *)
THEOREM PoolWithinCapacity == Spec => []TypeOK
  <1>1. IInv /\ TInv => TypeOK
    <2> SUFFICES ASSUME IInv, TInv PROVE TypeOK
      OBVIOUS
    <2>1. \A h \in Handler : handler[h] # Idle => handler[h].tx \in Tx
      BY DEF IInv, HandlersSound, Sound, Submission
    <2>2. tmpl.phase \in {"none", "header", "entries", "job"} /\ tmpl.txs \in Seq(Tx)
      BY DEF TInv, TemplateSound, Templates
    <2>3. Range(tmpl.txs) \subseteq Tx
      BY <2>2, RangeOfSeq DEF Range
    <2> QED BY <2>1, <2>2, <2>3
          DEF TInv, TypeOK, PoolsBounded, Bounded, CountersTyped, IsChain
  <1> QED BY InductiveT, <1>1, PTL

(* A template that is not stale is a block connect_block accepts, for any  *)
(* pool, any order of equal fees and any limit: the two loops of           *)
(* get_block_template leave no conflict and one carrier for each relay,    *)
(* although the pool was looked at between two looks at the chain.         *)
THEOREM TemplatesMineable == Spec => []TemplateMineable
  <1>1. TInv => TemplateMineable
    <2> SUFFICES ASSUME TInv, tmpl.phase = "job", tmpl.scanned
                 PROVE  BlockValid(chain, Range(tmpl.txs))
      BY DEF TemplateMineable
    <2> DEFINE B == Range(tmpl.txs)
    <2>1. tmpl.txs \in Seq(Tx)
      BY DEF TInv, TemplateSound, Templates
    <2>2. B \subseteq Tx
      BY <2>1, RangeOfSeq DEF Range
    <2>3. Compatible(B) /\ Carriers(chain, B) /\ \A t \in B : Valid(chain, t)
      BY DEF TInv, TemplateSound
    <2> HIDE DEF B
    <2>4. \A t \in B : \A b \in Batch[t] : b.ext \in Ext /\ b.prev \in Nat /\ Carries(t, b.ext)
      BY <2>2, BatchAssumption DEF Carries
    <2>5. ASSUME NEW t \in B, NEW u \in B, NEW b \in Batch[t], NEW d \in Batch[u], b.ext = d.ext
          PROVE  t = u /\ b = d
      <3>1. Carries(t, b.ext) /\ Carries(u, b.ext) /\ b.ext \in Ext
        BY <2>4, <2>5
      <3>2. t = u
        BY <2>3, <3>1 DEF Carriers
      <3> QED BY <2>2, <2>5, <3>2, BatchAssumption
    <2>6. ASSUME NEW t \in B, NEW b \in Batch[t] PROVE b.prev <= RelayTip(chain, b.ext)
      <3>1. Connects(chain, t, b.ext)
        BY <2>3, <2>4 DEF Carriers
      <3>2. PICK d \in Batch[t] : d.ext = b.ext /\ d.prev = RelayTip(chain, b.ext)
        BY <3>1 DEF Connects
      <3>3. b = d
        BY <2>5, <3>2
      <3> QED BY <2>4, <3>2, <3>3
    <2>7. BlockValid(chain, B)
      BY <2>3, <2>5, <2>6 DEF BlockValid, Compatible
    <2> QED BY <2>7 DEF B
  <1> QED BY InductiveT, <1>1, PTL
=============================================================================
