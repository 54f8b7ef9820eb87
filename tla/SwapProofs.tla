----------------------------- MODULE SwapProofs -----------------------------
(***************************************************************************)
(* A chain of swaps under reorganisation, for any deals, payments, headers *)
(* and blocks: disconnecting a block takes back exactly what connecting it *)
(* did, so the node's state is that of its chain, a rollback restores the  *)
(* chain it left, and no external payment settles two deals.               *)
(***************************************************************************)
EXTENDS SwapChain, TLAPS, WellFoundedInduction

(* Every nonempty set of naturals has a least element.                     *)
LEMMA LeastNat ==
  ASSUME NEW T \in SUBSET Nat, T # {}
  PROVE  \E x \in T : \A y \in T : x <= y
  <1> DEFINE R == OpToRel(<, Nat)
  <1>1. IsWellFoundedOn(R, Nat)
    BY Zenon, NatLessThanWellFounded
  <1>2. \A x, y \in Nat : <<x, y>> \in R <=> x < y
    BY DEF OpToRel
  <1> HIDE DEF R
  <1>3. PICK x \in T : \A y \in T : ~(<<y, x>> \in R)
    BY Zenon, <1>1, WFMin
  <1>4. \A y \in T : ~(y < x)
    BY Zenon, <1>2, <1>3
  <1>5. \A y \in T : x <= y
    BY <1>4
  <1> QED BY <1>5

(* A set that contains 0 and with every number its successor contains all. *)
LEMMA NatSetInduction ==
  ASSUME NEW S, 0 \in S, \A n \in Nat : n \in S => n + 1 \in S
  PROVE  Nat \subseteq S
  <1> DEFINE T == Nat \ S
  <1> SUFFICES ASSUME T # {} PROVE FALSE
    OBVIOUS
  <1>1. PICK x \in T : \A y \in T : x <= y
    BY Zenon, LeastNat
  <1>2. x \in Nat /\ x # 0
    BY <1>1
  <1>3. x - 1 \in Nat /\ x - 1 \notin T
    BY <1>1, <1>2
  <1>4. x - 1 \in S
    BY <1>3
  <1>5. (x - 1) + 1 \in S
    BY <1>3, <1>4
  <1> QED BY <1>1, <1>2, <1>5

-----------------------------------------------------------------------------
(* Sequences                                                               *)

(* A nonempty sequence without its last element.                           *)
LEMMA FrontLast ==
  ASSUME NEW S, NEW c \in Seq(S), c # <<>>
  PROVE  /\ Len(c) \in Nat \ {0} /\ Last(c) \in S
         /\ Front(c) \in Seq(S) /\ Len(Front(c)) = Len(c) - 1
         /\ \A i \in 1..(Len(c) - 1) : Front(c)[i] = c[i]
  <1>1. Len(c) \in Nat \ {0} /\ c[Len(c)] \in S
    OBVIOUS
  <1>2. Front(c) \in Seq(S) /\ Len(Front(c)) = Len(c) - 1
    <2>1. \A i \in 0..Len(c) : SubSeq(c, 1, i) \in Seq(S) /\ Len(SubSeq(c, 1, i)) = i
      OBVIOUS
    <2>2. Len(c) - 1 \in 0..Len(c)
      BY <1>1
    <2> QED BY Zenon, <2>1, <2>2 DEF Front
  <1>3. \A i \in 1..(Len(c) - 1) : Front(c)[i] = c[i]
    BY <1>1 DEF Front
  <1> QED BY <1>1, <1>2, <1>3 DEF Last

(* One element more.                                                       *)
LEMMA AppendLast ==
  ASSUME NEW S, NEW c \in Seq(S), NEW e \in S
  PROVE  /\ Append(c, e) \in Seq(S) /\ Append(c, e) # <<>>
         /\ Len(Append(c, e)) = Len(c) + 1
         /\ Front(Append(c, e)) = c /\ Last(Append(c, e)) = e
         /\ \A i \in 1..Len(c) : Append(c, e)[i] = c[i]
  <1>1. /\ Append(c, e) \in Seq(S) /\ Append(c, e) # <<>>
        /\ Len(Append(c, e)) = Len(c) + 1 /\ Last(Append(c, e)) = e
        /\ \A i \in 1..Len(c) : Append(c, e)[i] = c[i]
    BY DEF Last
  <1>2. Front(Append(c, e)) = c
    BY DEF Front
  <1> QED BY <1>1, <1>2

(* Prefixes of a longer and of a shorter chain.                            *)
LEMMA Prefixes ==
  ASSUME NEW S, NEW c \in Seq(S)
  PROVE  /\ SubSeq(c, 1, 0) = <<>> /\ SubSeq(c, 1, Len(c)) = c
         /\ \A i \in 0..Len(c) : SubSeq(c, 1, i) \in Seq(S) /\ Len(SubSeq(c, 1, i)) = i
         /\ \A e \in S : \A i \in 0..Len(c) : SubSeq(Append(c, e), 1, i) = SubSeq(c, 1, i)
         /\ c # <<>> => \A i \in 0..(Len(c) - 1) : SubSeq(Front(c), 1, i) = SubSeq(c, 1, i)
         /\ \A i \in 0..(Len(c) - 1) : SubSeq(c, 1, i + 1) = Append(SubSeq(c, 1, i), c[i + 1])
  <1>1. SubSeq(c, 1, 0) = <<>> /\ SubSeq(c, 1, Len(c)) = c
    OBVIOUS
  <1>2. \A i \in 0..Len(c) : SubSeq(c, 1, i) \in Seq(S) /\ Len(SubSeq(c, 1, i)) = i
    OBVIOUS
  <1>3. \A e \in S : \A i \in 0..Len(c) : SubSeq(Append(c, e), 1, i) = SubSeq(c, 1, i)
    OBVIOUS
  <1>4. c # <<>> => \A i \in 0..(Len(c) - 1) : SubSeq(Front(c), 1, i) = SubSeq(c, 1, i)
    BY DEF Front
  <1>5. \A i \in 0..(Len(c) - 1) : SubSeq(c, 1, i + 1) = Append(SubSeq(c, 1, i), c[i + 1])
    OBVIOUS
  <1> QED BY <1>1, <1>2, <1>3, <1>4, <1>5

-----------------------------------------------------------------------------
(* The replay of a chain                                                   *)

Upto(k) == {c \in Seq(Block) : Len(c) <= k}

(* f replays the chains of at most k blocks.                               *)
Replays(f, k) ==
  f = [c \in Upto(k) |-> IF c = <<>> THEN Genesis ELSE connect_block(f[Front(c)], Last(c))]

(* Chains of any bounded length can be replayed.                           *)
LEMMA ReplaysExists == \A k \in Nat : \E f : Replays(f, k)
  <1> DEFINE S == {k \in Nat : \E f : Replays(f, k)}
  <1>1. 0 \in S
    <2> DEFINE g == [c \in Upto(0) |-> Genesis]
    <2>1. \A c \in Upto(0) : c = <<>>
      BY DEF Upto
    <2>2. Replays(g, 0)
      BY <2>1 DEF Replays
    <2> QED BY <2>2
  <1>2. ASSUME NEW k \in Nat, k \in S PROVE k + 1 \in S
    <2>1. PICK f : Replays(f, k)
      BY <1>2
    <2> DEFINE step(h, c) == IF c = <<>> THEN Genesis ELSE connect_block(h[Front(c)], Last(c))
               g == [c \in Upto(k + 1) |-> step(f, c)]
    <2>2. \A c \in Upto(k) : f[c] = step(f, c)
      BY <2>1 DEF Replays
    <2>3. Upto(k) \subseteq Upto(k + 1)
      BY DEF Upto
    <2>4. ASSUME NEW c \in Upto(k + 1), c # <<>> PROVE Front(c) \in Upto(k)
      BY <2>4, FrontLast DEF Upto
    <2>5. \A c \in Upto(k) : g[c] = f[c]
      <3> HIDE DEF step
      <3> QED BY <2>2, <2>3
    <2> HIDE DEF g
    <2>6. \A c \in Upto(k + 1) : step(f, c) = step(g, c)
      BY <2>4, <2>5
    <2>7. Replays(g, k + 1)
      <3>1. g = [c \in Upto(k + 1) |-> step(g, c)]
        <4> HIDE DEF step
        <4> QED BY <2>6 DEF g
      <3> QED BY <3>1 DEF Replays
    <2> QED BY <2>7
  <1> HIDE DEF S
  <1>3. Nat \subseteq S
    BY <1>1, <1>2, NatSetInduction
  <1> QED BY <1>3 DEF S

(* And in one way.                                                         *)
LEMMA ReplaysUnique ==
  ASSUME NEW k \in Nat, NEW l \in Nat, k <= l, NEW f, NEW g, Replays(f, k), Replays(g, l)
  PROVE  \A c \in Upto(k) : f[c] = g[c]
  <1> DEFINE S == {j \in Nat : \A c \in Upto(k) : Len(c) = j => f[c] = g[c]}
             step(h, c) == IF c = <<>> THEN Genesis ELSE connect_block(h[Front(c)], Last(c))
  <1>1. \A c \in Upto(k) : f[c] = step(f, c) /\ g[c] = step(g, c)
    <2>1. \A c \in Upto(k) : c \in Upto(l)
      BY DEF Upto
    <2> QED BY Zenon, <2>1 DEF Replays
  <1>2. 0 \in S
    <2>1. \A c \in Upto(k) : Len(c) = 0 => c = <<>>
      BY DEF Upto
    <2> QED BY <1>1, <2>1
  <1>3. ASSUME NEW j \in Nat, j \in S PROVE j + 1 \in S
    <2> SUFFICES ASSUME NEW c \in Upto(k), Len(c) = j + 1 PROVE f[c] = g[c]
      OBVIOUS
    <2>1. c \in Seq(Block) /\ c # <<>>
      BY DEF Upto
    <2>2. Front(c) \in Upto(k) /\ Len(Front(c)) = j
      BY <2>1, FrontLast DEF Upto
    <2>3. f[Front(c)] = g[Front(c)]
      BY <1>3, <2>2
    <2> QED BY <1>1, <2>1, <2>3
  <1> HIDE DEF S
  <1>4. Nat \subseteq S
    BY <1>2, <1>3, NatSetInduction
  <1>5. \A c \in Upto(k) : Len(c) \in Nat
    BY DEF Upto
  <1> QED BY <1>4, <1>5 DEF S

(* Replay obeys its equation.                                              *)
LEMMA ReplayRec ==
  \A c \in Seq(Block) :
    Replay[c] = IF c = <<>> THEN Genesis ELSE connect_block(Replay[Front(c)], Last(c))
  <1> DEFINE H(k) == CHOOSE f : Replays(f, k)
             G == [c \in Seq(Block) |-> H(Len(c))[c]]
             step(h, c) == IF c = <<>> THEN Genesis ELSE connect_block(h[Front(c)], Last(c))
  <1>1. \A k \in Nat : Replays(H(k), k)
    BY ReplaysExists
  <1> HIDE DEF H
  <1>2. ASSUME NEW c \in Seq(Block) PROVE G[c] = step(G, c)
    <2>1. Len(c) \in Nat /\ c \in Upto(Len(c))
      BY DEF Upto
    <2>2. H(Len(c))[c] = step(H(Len(c)), c)
      BY <1>1, <2>1 DEF Replays
    <2>3. CASE c = <<>>
      BY <2>2, <2>3
    <2>4. CASE c # <<>>
      <3>1. Front(c) \in Seq(Block) /\ Len(Front(c)) = Len(c) - 1 /\ Len(c) # 0
        BY <2>4, FrontLast
      <3>2. Front(c) \in Upto(Len(Front(c))) /\ Len(Front(c)) \in Nat /\ Len(Front(c)) <= Len(c)
        BY <2>1, <3>1 DEF Upto
      <3>3. H(Len(Front(c)))[Front(c)] = H(Len(c))[Front(c)]
        BY <1>1, <2>1, <3>2, ReplaysUnique
      <3>4. G[Front(c)] = H(Len(c))[Front(c)]
        BY <3>1, <3>3
      <3> QED BY <2>2, <2>4, <3>4
    <2> QED BY <2>3, <2>4
  <1> HIDE DEF G
  <1>3. G = [c \in Seq(Block) |-> step(G, c)]
    <2> HIDE DEF step
    <2>1. G = [c \in Seq(Block) |-> G[c]]
      BY DEF G
    <2> QED BY <1>2, <2>1
  <1>4. Replay = [c \in Seq(Block) |-> step(Replay, c)]
    BY Zenon, <1>3 DEF Replay
  <1> QED BY Zenon, <1>4

-----------------------------------------------------------------------------
(* The relay                                                               *)

Tips == Header \cup {Anchor}
Relays == [known : SUBSET Header, tip : Tips, tip_height : Nat]
Updates == [any : BOOLEAN, added : SUBSET Header, tip : Tips, tip_height : Nat]

(* A batch leaves a relay, and its undo record, of the right type.         *)
LEMMA ApplyTyped ==
  ASSUME NEW r \in Relays, NEW hs \in Seq(Header)
  PROVE  /\ Added(r, hs) \subseteq Header
         /\ apply_header_batch(r, hs) \in Relays
         /\ Update(r, hs) \in Updates
  <1>1. Fresh(r, hs) \subseteq 1..Len(hs)
    BY DEF Fresh
  <1>2. Added(r, hs) \subseteq Header
    BY <1>1 DEF Added
  <1>3. Added(r, hs) # {} => hs[Len(hs)] \in Header
    BY <1>1 DEF Added
  <1>4. \A h \in Header : HeightOf[h] \in Nat
    BY Zenon, HeaderAssumption
  <1>5. apply_header_batch(r, hs) \in Relays
    BY <1>2, <1>3, <1>4 DEF apply_header_batch, Relays, Tips
  <1>6. Update(r, hs) \in Updates
    BY <1>2 DEF Update, Updates, Relays
  <1> QED BY <1>2, <1>5, <1>6

(* So are the empty relay and the record of no batch.                      *)
LEMMA NoRelayTyped == NoRelay \in Relays /\ NoUpdate \in Updates
  BY DEF NoRelay, NoUpdate, Relays, Updates, Tips

(* Taking a batch back leaves a relay.                                     *)
LEMMA UndoTyped ==
  ASSUME NEW r \in Relays, NEW u \in Updates
  PROVE  undo_relay_update(r, u) \in Relays
  BY DEF undo_relay_update, Relays, Updates

(* A batch that is accepted adds headers the relay did not have.           *)
LEMMA AddedNew ==
  ASSUME NEW r, NEW hs, Verdict(r, hs) = "ok"
  PROVE  Added(r, hs) \cap r.known = {}
  <1>1. Fresh(r, hs) = {} \/ \A i \in Fresh(r, hs) : Fault(r, hs, i) = "ok"
    BY DEF Verdict
  <1>2. \A i : Fault(r, hs, i) = "ok" => hs[i] \notin r.known
    BY DEF Fault
  <1> QED BY <1>1, <1>2 DEF Added

(* Taking back a batch that was accepted gives the relay before it.        *)
LEMMA RelayUndone ==
  ASSUME NEW r \in Relays, NEW hs \in Seq(Header), Verdict(r, hs) = "ok"
  PROVE  undo_relay_update(apply_header_batch(r, hs), Update(r, hs)) = r
  <1> DEFINE a == apply_header_batch(r, hs)
             u == Update(r, hs)
             x == undo_relay_update(a, u)
  <1>1. a.known = r.known \cup Added(r, hs)
    BY DEF apply_header_batch, Relays
  <1>2. u.any = TRUE /\ u.added = Added(r, hs) /\ u.tip = r.tip /\ u.tip_height = r.tip_height
    BY DEF Update
  <1> HIDE DEF a, u
  <1>3. x = [known |-> a.known \ u.added, tip |-> u.tip, tip_height |-> u.tip_height]
    BY <1>2 DEF undo_relay_update
  <1>4. a.known \ u.added = r.known
    BY <1>1, <1>2, AddedNew
  <1>5. r = [known |-> r.known, tip |-> r.tip, tip_height |-> r.tip_height]
    BY DEF Relays
  <1>6. x = r
    BY <1>2, <1>3, <1>4, <1>5
  <1> QED BY <1>6 DEF a, u

-----------------------------------------------------------------------------
(* A block on a state                                                      *)

Outputs == Deal \X Stage
Undos ==
  [spent : SUBSET Outputs, created : SUBSET Outputs, update : Updates, claimed : SUBSET Payment]
Nodes ==
  [chain : Seq(Block), undo : Seq(Undos), utxo : SUBSET Outputs,
   claimed : SUBSET Payment, relay : Relays]

(* A deal has at most one output.                                          *)
OneStage(U) == \A d, s, u : <<d, s>> \in U /\ <<d, u>> \in U => s = u

(* Every operation moves a deal from one stage to another.                 *)
LEMMA StagesTyped ==
  \A op \in DOMAIN Stages :
    Stages[op][1] \in Stage /\ Stages[op][2] \in Stage /\ Stages[op][1] # Stages[op][2]
  BY DEF Stages, Stage

(* A transaction carries headers, or spends and makes an output of its     *)
(* deal.                                                                   *)
LEMMA TxTyped ==
  ASSUME NEW b \in Block, NEW i \in DOMAIN b.txs
  PROVE  LET t == b.txs[i] IN
         /\ t.op = "batch" => t.headers \in Seq(Header)
         /\ t.op = "claim" => t.op # "batch" /\ t.pay \in Payment
         /\ t.op # "batch" =>
              /\ Spent(t) \in Outputs /\ Made(t) \in Outputs
              /\ \E s, u \in Stage : Spent(t) = <<t.deal, s>> /\ Made(t) = <<t.deal, u>> /\ s # u
  <1> DEFINE t == b.txs[i]
  <1>1. IsTx(t)
    BY BlockAssumption
  <1> HIDE DEF t
  <1>2. "batch" \notin DOMAIN Stages
    BY DEF Stages
  <1>3. t.op = "batch" => t.headers \in Seq(Header)
    BY <1>1, <1>2 DEF IsTx
  <1>4. t.op = "claim" => t.pay \in Payment
    BY <1>1 DEF IsTx
  <1>5. ASSUME t.op # "batch"
        PROVE  /\ Spent(t) \in Outputs /\ Made(t) \in Outputs
               /\ \E s, u \in Stage : Spent(t) = <<t.deal, s>> /\ Made(t) = <<t.deal, u>> /\ s # u
    <2>1. t.op \in DOMAIN Stages /\ t.deal \in Deal
      BY <1>1, <1>5 DEF IsTx
    <2>2. Stages[t.op][1] \in Stage /\ Stages[t.op][2] \in Stage /\ Stages[t.op][1] # Stages[t.op][2]
      BY <2>1, StagesTyped
    <2> QED BY <2>1, <2>2 DEF Spent, Made, Outputs
  <1>6. t.op = "claim" => t.op # "batch"
    OBVIOUS
  <1> QED BY <1>3, <1>4, <1>5, <1>6 DEF t

(* What an accepted transaction has passed.                                *)
LEMMA ReachedAccepted ==
  ASSUME NEW n, NEW b \in Block, NEW i \in Reached(n, b)
  PROVE  /\ i \in DOMAIN b.txs /\ i \in Nat /\ i >= 1
         /\ \A j \in 1..i : j \in Reached(n, b)
         /\ b.txs[i].op = "batch" => Verdict(n.relay, b.txs[i].headers) = "ok"
         /\ b.txs[i].op # "batch" => Spent(b.txs[i]) \in n.utxo \ SpentBy(b, 1..(i - 1))
         /\ b.txs[i].op = "claim" => b.txs[i].pay \notin n.claimed \cup PaidBy(b, 1..(i - 1))
  <1>1. i \in DOMAIN b.txs /\ \A j \in 1..i : Accepts(n, b, j)
    BY DEF Reached
  <1>2. DOMAIN b.txs = 1..Len(b.txs) /\ Len(b.txs) \in Nat
    BY BlockAssumption
  <1>3. i \in Nat /\ i >= 1 /\ i \in 1..i
    BY <1>1, <1>2
  <1>4. \A j \in 1..i : j \in Reached(n, b)
    <2> SUFFICES ASSUME NEW j \in 1..i PROVE j \in DOMAIN b.txs /\ \A k \in 1..j : Accepts(n, b, k)
      BY DEF Reached
    <2>1. j \in DOMAIN b.txs
      BY <1>1, <1>2
    <2>2. \A k \in 1..j : k \in 1..i
      BY <1>3
    <2> QED BY <1>1, <2>1, <2>2
  <1>5. Accepts(n, b, i)
    BY <1>1, <1>3
  <1>6. b.txs[i].op = "batch" => Verdict(n.relay, b.txs[i].headers) = "ok"
    BY <1>5 DEF Accepts
  <1>7. b.txs[i].op # "batch" => validate_transaction(n, b, i)
    BY <1>5 DEF Accepts
  <1>8. b.txs[i].op # "batch" => Spent(b.txs[i]) \in n.utxo \ SpentBy(b, 1..(i - 1))
    BY <1>7 DEF validate_transaction
  <1>9. b.txs[i].op = "claim" => b.txs[i].pay \notin n.claimed \cup PaidBy(b, 1..(i - 1))
    <2>1. b.txs[i].op = "claim" =>
            Proves(RelayAfter(n, b, 1..(i - 1)), n.claimed, PaidBy(b, 1..(i - 1)), b.txs[i].deal, b.txs[i].pay)
      BY <1>7 DEF validate_transaction
    <2> QED BY <2>1 DEF Proves
  <1> QED BY <1>1, <1>3, <1>4, <1>6, <1>8, <1>9

(* The batch of a carrier that was reached has been accepted.              *)
LEMMA CarriedAccepted ==
  ASSUME NEW n, NEW b \in Block, Carriers(b, Reached(n, b)) # {}
  PROVE  /\ Carried(b, Reached(n, b)) \in Seq(Header)
         /\ Verdict(n.relay, Carried(b, Reached(n, b))) = "ok"
  <1> DEFINE i == CHOOSE j \in Carriers(b, Reached(n, b)) : TRUE
  <1>1. i \in Carriers(b, Reached(n, b))
    OBVIOUS
  <1>2. Carried(b, Reached(n, b)) = b.txs[i].headers
    BY DEF Carried
  <1> HIDE DEF i
  <1>3. i \in Reached(n, b) /\ b.txs[i].op = "batch"
    BY <1>1 DEF Carriers
  <1>4. i \in DOMAIN b.txs /\ Verdict(n.relay, b.txs[i].headers) = "ok"
    BY <1>3, ReachedAccepted
  <1>5. b.txs[i].headers \in Seq(Header)
    BY <1>3, <1>4, TxTyped
  <1> QED BY <1>2, <1>4, <1>5

(* The working state of a block has its types.                             *)
LEMMA WorkTyped ==
  ASSUME NEW n \in Nodes, NEW b \in Block
  PROVE  /\ Work(n, b).ok \in BOOLEAN
         /\ Work(n, b).relay \in Relays /\ Work(n, b).update \in Updates
         /\ Work(n, b).seen \subseteq Outputs /\ Work(n, b).made \subseteq Outputs
         /\ Work(n, b).consumed \subseteq Payment
  <1> DEFINE done == Reached(n, b)
             hs == IF Carriers(b, done) # {} THEN Carried(b, done) ELSE b.coinbase
  <1>1. n.relay \in Relays
    BY DEF Nodes
  <1>2. hs \in Seq(Header)
    BY CarriedAccepted, BlockAssumption
  <1>3. \A i \in done : i \in DOMAIN b.txs
    BY ReachedAccepted
  <1>4. SpentBy(b, done) \subseteq Outputs /\ MadeBy(b, done) \subseteq Outputs
    <2>1. \A i \in done \ Carriers(b, done) : i \in DOMAIN b.txs /\ b.txs[i].op # "batch"
      BY <1>3 DEF Carriers
    <2>2. \A i \in done \ Carriers(b, done) : Spent(b.txs[i]) \in Outputs /\ Made(b.txs[i]) \in Outputs
      BY <2>1, TxTyped
    <2> QED BY <2>2 DEF SpentBy, MadeBy
  <1>5. PaidBy(b, done) \subseteq Payment
    <2>1. \A i \in done : b.txs[i].op = "claim" => b.txs[i].pay \in Payment
      BY <1>3, TxTyped
    <2> QED BY <2>1 DEF PaidBy
  <1>6. apply_header_batch(n.relay, hs) \in Relays /\ Update(n.relay, hs) \in Updates
    BY <1>1, <1>2, ApplyTyped
  <1>7. Work(n, b).relay \in {n.relay, apply_header_batch(n.relay, hs)}
    BY DEF Work
  <1>8. Work(n, b).update \in {NoUpdate, Update(n.relay, hs)}
    BY DEF Work
  <1>9. /\ Work(n, b).seen = SpentBy(b, done) /\ Work(n, b).made = MadeBy(b, done)
        /\ Work(n, b).consumed = PaidBy(b, done)
    BY DEF Work
  <1>10. Work(n, b).ok \in BOOLEAN
    BY Zenon, BlockAssumption DEF Work
  <1> HIDE DEF done, hs
  <1> QED BY <1>1, <1>4, <1>5, <1>6, <1>7, <1>8, <1>9, <1>10, NoRelayTyped

(* What a block that connects does.                                        *)
LEMMA WorkOk ==
  ASSUME NEW n, NEW b \in Block, Work(n, b).ok
  PROVE  /\ Reached(n, b) = DOMAIN b.txs
         /\ Work(n, b).seen = SpentBy(b, DOMAIN b.txs)
         /\ Work(n, b).made = MadeBy(b, DOMAIN b.txs)
         /\ Work(n, b).consumed = PaidBy(b, DOMAIN b.txs)
         /\ \/ Work(n, b).relay = n.relay /\ Work(n, b).update = NoUpdate
            \/ \E hs \in Seq(Header) :
                 /\ Verdict(n.relay, hs) = "ok"
                 /\ Work(n, b).relay = apply_header_batch(n.relay, hs)
                 /\ Work(n, b).update = Update(n.relay, hs)
  <1>1. Reached(n, b) = DOMAIN b.txs
    BY DEF Work
  <1>2. /\ Work(n, b).seen = SpentBy(b, DOMAIN b.txs)
        /\ Work(n, b).made = MadeBy(b, DOMAIN b.txs)
        /\ Work(n, b).consumed = PaidBy(b, DOMAIN b.txs)
    BY Zenon, <1>1 DEF Work
  <1>3. CASE Carriers(b, Reached(n, b)) # {}
    <2> DEFINE hs == Carried(b, Reached(n, b))
    <2>1. hs \in Seq(Header) /\ Verdict(n.relay, hs) = "ok"
      BY <1>3, CarriedAccepted
    <2>2. Work(n, b).relay = apply_header_batch(n.relay, hs) /\ Work(n, b).update = Update(n.relay, hs)
      BY Zenon, <1>3 DEF Work
    <2> HIDE DEF hs
    <2> QED BY <1>1, <1>2, <2>1, <2>2
  <1>4. CASE Carriers(b, Reached(n, b)) = {}
    <2> DEFINE mined == b.coinbase # <<>> /\ Verdict(n.relay, b.coinbase) = "ok"
    <2>1. mined => /\ Work(n, b).relay = apply_header_batch(n.relay, b.coinbase)
                   /\ Work(n, b).update = Update(n.relay, b.coinbase)
      BY Zenon, <1>1, <1>4 DEF Work
    <2>2. ~mined => Work(n, b).relay = n.relay /\ Work(n, b).update = NoUpdate
      BY Zenon, <1>1, <1>4 DEF Work
    <2>3. b.coinbase \in Seq(Header)
      BY BlockAssumption
    <2> QED BY <1>1, <1>2, <2>1, <2>2, <2>3
  <1> QED BY <1>3, <1>4

(* Two operations of a block that are reached concern two deals.           *)
LEMMA OneOperation ==
  ASSUME NEW n, NEW b \in Block, OneStage(n.utxo),
         NEW i \in Reached(n, b), NEW j \in Reached(n, b),
         b.txs[i].op # "batch", b.txs[j].op # "batch", b.txs[i].deal = b.txs[j].deal
  PROVE  i = j
  <1>1. ASSUME NEW k \in Reached(n, b), NEW l \in Reached(n, b), k < l,
               b.txs[k].op # "batch", b.txs[l].op # "batch", b.txs[k].deal = b.txs[l].deal
        PROVE  FALSE
    <2>1. k \in DOMAIN b.txs /\ k \in Nat /\ k >= 1 /\ l \in DOMAIN b.txs /\ l \in Nat
      BY ReachedAccepted
    <2>2. Spent(b.txs[k]) \in n.utxo /\ Spent(b.txs[l]) \in n.utxo \ SpentBy(b, 1..(l - 1))
      BY <1>1, ReachedAccepted
    <2>3. PICK s, u : Spent(b.txs[k]) = <<b.txs[k].deal, s>> /\ Spent(b.txs[l]) = <<b.txs[l].deal, u>>
      BY <1>1, <2>1, TxTyped
    <2>4. s = u
      BY <1>1, <2>2, <2>3 DEF OneStage
    <2>5. k \in (1..(l - 1)) \ Carriers(b, 1..(l - 1))
      BY <1>1, <2>1 DEF Carriers
    <2>6. Spent(b.txs[k]) \in SpentBy(b, 1..(l - 1))
      BY <2>5 DEF SpentBy
    <2> QED BY <1>1, <2>2, <2>3, <2>4, <2>6
  <1>2. i \in Nat /\ j \in Nat
    BY ReachedAccepted
  <1>3. ~(i < j) /\ ~(j < i)
    BY <1>1
  <1> QED BY <1>2, <1>3

(* A block that connects spends what is there, creates what is not, and    *)
(* leaves each deal one output at most.                                    *)
LEMMA OutputsMove ==
  ASSUME NEW n \in Nodes, NEW b \in Block, OneStage(n.utxo), Work(n, b).ok
  PROVE  LET w == Work(n, b) IN
         /\ w.seen \subseteq n.utxo /\ w.made \cap n.utxo = {}
         /\ OneStage((n.utxo \ w.seen) \cup w.made)
  <1> DEFINE D == DOMAIN b.txs
             ops == D \ Carriers(b, D)
             seen == SpentBy(b, D)
             made == MadeBy(b, D)
  <1>1. Reached(n, b) = D /\ Work(n, b).seen = seen /\ Work(n, b).made = made
    BY WorkOk
  <1>2. \A i \in ops : i \in Reached(n, b) /\ i \in D /\ b.txs[i].op # "batch"
    BY <1>1 DEF Carriers
  <1>3. seen = {Spent(b.txs[i]) : i \in ops} /\ made = {Made(b.txs[i]) : i \in ops}
    BY DEF SpentBy, MadeBy
  <1> HIDE DEF ops, seen, made, D
  <1>4. \A i \in ops : Spent(b.txs[i]) \in n.utxo
    BY <1>2, ReachedAccepted
  <1>5. \A i \in ops : \E s, u \in Stage :
          Spent(b.txs[i]) = <<b.txs[i].deal, s>> /\ Made(b.txs[i]) = <<b.txs[i].deal, u>> /\ s # u
    <2> SUFFICES ASSUME NEW i \in ops
                 PROVE  \E s, u \in Stage :
                          Spent(b.txs[i]) = <<b.txs[i].deal, s>> /\ Made(b.txs[i]) = <<b.txs[i].deal, u>> /\ s # u
      OBVIOUS
    <2>1. i \in DOMAIN b.txs /\ b.txs[i].op # "batch"
      BY <1>2 DEF D
    <2> QED BY <2>1, TxTyped
  <1>6. seen \subseteq n.utxo
    BY <1>3, <1>4
  <1>7. ASSUME NEW i \in ops PROVE Made(b.txs[i]) \notin n.utxo
    <2>1. PICK s, u : Spent(b.txs[i]) = <<b.txs[i].deal, s>> /\ Made(b.txs[i]) = <<b.txs[i].deal, u>> /\ s # u
      BY <1>5
    <2> QED BY <1>4, <2>1 DEF OneStage
  <1>8. made \cap n.utxo = {}
    BY <1>3, <1>7
  <1>9. ASSUME NEW d, NEW s, NEW u, <<d, s>> \in (n.utxo \ seen) \cup made, <<d, u>> \in (n.utxo \ seen) \cup made
        PROVE  s = u
    <2>1. ASSUME NEW v, NEW w, <<d, v>> \in n.utxo \ seen, <<d, w>> \in made PROVE FALSE
      <3>1. PICK i \in ops : <<d, w>> = Made(b.txs[i])
        BY <1>3, <2>1
      <3>2. PICK x, y : Spent(b.txs[i]) = <<b.txs[i].deal, x>> /\ Made(b.txs[i]) = <<b.txs[i].deal, y>>
        BY <1>5
      <3>3. b.txs[i].deal = d
        BY <3>1, <3>2
      <3>4. v = x
        BY <1>4, <2>1, <3>2, <3>3 DEF OneStage
      <3>5. <<d, v>> \in seen
        BY <1>3, <3>2, <3>3, <3>4
      <3> QED BY <2>1, <3>5
    <2>2. ASSUME <<d, s>> \in made, <<d, u>> \in made PROVE s = u
      <3>1. PICK i \in ops, j \in ops : <<d, s>> = Made(b.txs[i]) /\ <<d, u>> = Made(b.txs[j])
        BY <1>3, <2>2
      <3>2. PICK y : Made(b.txs[i]) = <<b.txs[i].deal, y>>
        BY <1>5
      <3>3. PICK z : Made(b.txs[j]) = <<b.txs[j].deal, z>>
        BY <1>5
      <3>4. b.txs[i].deal = d /\ b.txs[j].deal = d /\ y = s /\ z = u
        BY <3>1, <3>2, <3>3
      <3>5. i = j
        BY <1>2, <3>4, OneOperation
      <3> QED BY <3>2, <3>3, <3>4, <3>5
    <2>3. CASE <<d, s>> \in n.utxo /\ <<d, u>> \in n.utxo
      BY <2>3 DEF OneStage
    <2> QED BY <1>9, <2>1, <2>2, <2>3
  <1>10. OneStage((n.utxo \ seen) \cup made)
    BY <1>9 DEF OneStage
  <1> QED BY <1>1, <1>6, <1>8, <1>10

(* A claim uses a payment that no block before it and no earlier claim of  *)
(* its own block has used.                                                 *)
DistinctPays(b) ==
  \A i, j \in DOMAIN b.txs :
    b.txs[i].op = "claim" /\ b.txs[j].op = "claim" /\ b.txs[i].pay = b.txs[j].pay => i = j

(* The payments an accepted block claims are claimed nowhere on the chain, *)
(* and by one transaction of the block each.                               *)
LEMMA ClaimsNew ==
  ASSUME NEW n, NEW b \in Block, Work(n, b).ok
  PROVE  Work(n, b).consumed \cap n.claimed = {} /\ DistinctPays(b)
  <1>1. /\ Reached(n, b) = DOMAIN b.txs
        /\ Work(n, b).consumed = PaidBy(b, DOMAIN b.txs)
    BY WorkOk
  <1>2. \A i \in DOMAIN b.txs :
          /\ i \in Nat /\ i >= 1
          /\ b.txs[i].op = "claim" => b.txs[i].pay \notin n.claimed \cup PaidBy(b, 1..(i - 1))
    BY <1>1, ReachedAccepted
  <1>3. PaidBy(b, DOMAIN b.txs) \cap n.claimed = {}
    BY <1>2 DEF PaidBy
  <1>4. ASSUME NEW i \in DOMAIN b.txs, NEW j \in DOMAIN b.txs, i < j,
               b.txs[i].op = "claim", b.txs[j].op = "claim"
        PROVE  b.txs[i].pay # b.txs[j].pay
    <2>1. i \in 1..(j - 1)
      BY <1>2, <1>4
    <2>2. b.txs[i].pay \in PaidBy(b, 1..(j - 1))
      BY <1>4, <2>1 DEF PaidBy
    <2> QED BY <1>2, <1>4, <2>2
  <1>5. ASSUME NEW i \in DOMAIN b.txs, NEW j \in DOMAIN b.txs,
               b.txs[i].op = "claim", b.txs[j].op = "claim", b.txs[i].pay = b.txs[j].pay
        PROVE  i = j
    <2>1. i \in Nat /\ j \in Nat /\ ~(i < j) /\ ~(j < i)
      BY <1>2, <1>4, <1>5
    <2> QED BY <2>1
  <1> QED BY <1>1, <1>3, <1>5 DEF DistinctPays

-----------------------------------------------------------------------------
(* Connecting and disconnecting                                            *)

(* connect_block keeps the types, on success and on failure.               *)
LEMMA ConnectEffect ==
  ASSUME NEW n \in Nodes, NEW b \in Block
  PROVE  /\ connect_block(n, b) \in Nodes
         /\ Work(n, b).ok => connect_block(n, b) = Connected(n, b, Work(n, b))
         /\ ~Work(n, b).ok => connect_block(n, b) = Leaked(n, Work(n, b))
  <1> DEFINE w == Work(n, b)
  <1>1. /\ w.relay \in Relays /\ w.update \in Updates /\ w.consumed \subseteq Payment
        /\ w.seen \subseteq Outputs /\ w.made \subseteq Outputs
    BY WorkTyped
  <1>2. connect_block(n, b) = IF w.ok THEN Connected(n, b, w) ELSE Leaked(n, w)
    BY DEF connect_block
  <1> HIDE DEF w
  <1>3. UndoOf(w) \in Undos
    BY <1>1 DEF UndoOf, Undos
  <1>4. Append(n.chain, b) \in Seq(Block) /\ Append(n.undo, UndoOf(w)) \in Seq(Undos)
    BY <1>3, AppendLast DEF Nodes
  <1>5. Connected(n, b, w) \in Nodes
    <2>1. (n.utxo \ w.seen) \cup w.made \subseteq Outputs /\ n.claimed \cup w.consumed \subseteq Payment
      BY <1>1 DEF Nodes
    <2> QED BY <1>1, <1>4, <2>1 DEF Connected, Nodes
  <1>6. Leaked(n, w) \in Nodes
    BY <1>1 DEF Leaked, Nodes
  <1> QED BY <1>2, <1>5, <1>6 DEF w

(* disconnect_tip_block keeps the types.                                   *)
LEMMA DisconnectTyped ==
  ASSUME NEW n \in Nodes, n.chain # <<>>, Len(n.undo) = Len(n.chain)
  PROVE  /\ disconnect_tip_block(n) \in Nodes
         /\ Last(n.undo) \in Undos
  <1>1. n.undo \in Seq(Undos) /\ n.chain \in Seq(Block) /\ n.undo # <<>>
    BY DEF Nodes
  <1>2. /\ Last(n.undo) \in Undos /\ Front(n.undo) \in Seq(Undos)
        /\ Front(n.chain) \in Seq(Block)
    BY <1>1, FrontLast
  <1> DEFINE u == Last(n.undo)
  <1>3. disconnect_tip_block(n) =
          [chain |-> Front(n.chain), undo |-> Front(n.undo),
           utxo |-> (n.utxo \ u.created) \cup u.spent,
           claimed |-> n.claimed \ u.claimed,
           relay |-> undo_relay_update(n.relay, u.update)]
    BY DEF disconnect_tip_block
  <1>4. u \in Undos
    BY <1>2
  <1> HIDE DEF u
  <1>5. undo_relay_update(n.relay, u.update) \in Relays
    BY <1>4, UndoTyped DEF Undos, Nodes
  <1>6. (n.utxo \ u.created) \cup u.spent \subseteq Outputs /\ n.claimed \ u.claimed \subseteq Payment
    BY <1>4 DEF Undos, Nodes
  <1> QED BY <1>2, <1>3, <1>5, <1>6 DEF Nodes

(* Disconnecting a block right after it connected gives back the state     *)
(* before it: outputs, undo records, claimed payments and the relay.       *)
THEOREM UndoExact ==
  ASSUME NEW n \in Nodes, NEW b \in Block, OneStage(n.utxo), Work(n, b).ok
  PROVE  disconnect_tip_block(connect_block(n, b)) = n
  <1> DEFINE w == Work(n, b)
             m == connect_block(n, b)
             u == UndoOf(w)
  <1>1. m = [chain |-> Append(n.chain, b), undo |-> Append(n.undo, u),
             utxo |-> (n.utxo \ w.seen) \cup w.made,
             claimed |-> n.claimed \cup w.consumed, relay |-> w.relay]
    BY ConnectEffect DEF Connected
  <1>2. /\ w.relay \in Relays /\ w.update \in Updates /\ w.consumed \subseteq Payment
        /\ w.seen \subseteq Outputs /\ w.made \subseteq Outputs
    BY WorkTyped
  <1>3. w.seen \subseteq n.utxo /\ w.made \cap n.utxo = {}
    BY Zenon, OutputsMove
  <1>4. w.consumed \cap n.claimed = {}
    BY ClaimsNew
  <1>5. undo_relay_update(w.relay, w.update) = n.relay
    <2>1. n.relay \in Relays
      BY DEF Nodes
    <2>2. \/ w.relay = n.relay /\ w.update = NoUpdate
          \/ \E hs \in Seq(Header) :
               /\ Verdict(n.relay, hs) = "ok"
               /\ w.relay = apply_header_batch(n.relay, hs)
               /\ w.update = Update(n.relay, hs)
      BY WorkOk
    <2> HIDE DEF w
    <2>3. CASE w.relay = n.relay /\ w.update = NoUpdate
      BY <2>3 DEF undo_relay_update, NoUpdate
    <2> QED BY <2>1, <2>2, <2>3, RelayUndone
  <1>6. /\ u.spent = w.seen /\ u.created = w.made
        /\ u.update = w.update /\ u.claimed = w.consumed /\ u \in Undos
    <2> HIDE DEF w
    <2> QED BY <1>2 DEF UndoOf, Undos
  <1> HIDE DEF m, u, w
  <1>7. /\ Front(m.chain) = n.chain /\ Front(m.undo) = n.undo /\ Last(m.undo) = u
    BY <1>1, <1>6, AppendLast DEF Nodes
  <1>8. disconnect_tip_block(m) =
          [chain |-> n.chain, undo |-> n.undo,
           utxo |-> (m.utxo \ w.made) \cup w.seen, claimed |-> m.claimed \ w.consumed,
           relay |-> n.relay]
    BY Zenon, <1>1, <1>5, <1>6, <1>7 DEF disconnect_tip_block
  <1>9. (m.utxo \ w.made) \cup w.seen = n.utxo
    BY <1>1, <1>3
  <1>10. m.claimed \ w.consumed = n.claimed
    BY <1>1, <1>4
  <1>11. n = [chain |-> n.chain, undo |-> n.undo, utxo |-> n.utxo,
              claimed |-> n.claimed, relay |-> n.relay]
    BY DEF Nodes
  <1>12. disconnect_tip_block(m) = n
    BY <1>8, <1>9, <1>10, <1>11
  <1> QED BY <1>12 DEF m

-----------------------------------------------------------------------------
(* Chains whose blocks connect one after the other from genesis            *)

Solid(n, c) == n \in Nodes /\ n.chain = c /\ OneStage(n.utxo)

Fits(c) ==
  /\ c \in Seq(Block)
  /\ \A i \in 0..Len(c) : Solid(Replay[SubSeq(c, 1, i)], SubSeq(c, 1, i))
  /\ \A i \in 0..(Len(c) - 1) : Work(Replay[SubSeq(c, 1, i)], c[i + 1]).ok

(* The empty chain fits, and its replay is the genesis state.              *)
LEMMA FitsEmpty == Fits(<<>>) /\ Replay[<<>>] = Genesis
  <1>1. <<>> \in Seq(Block) /\ Len(<<>>) = 0 /\ SubSeq(<<>>, 1, 0) = <<>>
    OBVIOUS
  <1>2. Replay[<<>>] = Genesis
    BY Zenon, <1>1, ReplayRec
  <1>3. Deal \X {"fund"} \subseteq Outputs /\ OneStage(Deal \X {"fund"})
    BY DEF Outputs, Stage, OneStage
  <1>4. <<>> \in Seq(Undos)
    OBVIOUS
  <1>5. Solid(Genesis, <<>>)
    BY <1>1, <1>3, <1>4, NoRelayTyped DEF Solid, Genesis, Nodes
  <1>6. \A i \in 0..0 : i = 0
    OBVIOUS
  <1>7. \A i \in 0..(0 - 1) : FALSE
    OBVIOUS
  <1> QED BY Zenon, <1>1, <1>2, <1>5, <1>6, <1>7 DEF Fits

(* One block more.                                                         *)
LEMMA FitsConnect ==
  ASSUME NEW c, Fits(c), NEW b \in Block, Work(Replay[c], b).ok
  PROVE  /\ Fits(Append(c, b))
         /\ Replay[Append(c, b)] = connect_block(Replay[c], b)
  <1> DEFINE e == Append(c, b)
             n == Replay[c]
  <1>1. c \in Seq(Block) /\ Len(c) \in Nat
    BY DEF Fits
  <1>2. /\ e \in Seq(Block) /\ e # <<>> /\ Len(e) = Len(c) + 1 /\ Front(e) = c /\ Last(e) = b
        /\ \A i \in 1..Len(c) : e[i] = c[i]
    BY <1>1, AppendLast
  <1>3. /\ SubSeq(c, 1, Len(c)) = c /\ SubSeq(e, 1, Len(e)) = e
        /\ \A i \in 0..Len(c) : SubSeq(e, 1, i) = SubSeq(c, 1, i)
    BY <1>1, <1>2, Prefixes
  <1> HIDE DEF e
  <1>4. Replay[e] = connect_block(n, b)
    BY <1>2, ReplayRec
  <1>5. Solid(n, c)
    <2>1. Len(c) \in 0..Len(c)
      BY <1>1
    <2> QED BY Zenon, <1>3, <2>1 DEF Fits
  <1>6. Solid(connect_block(n, b), e)
    <2>1. n \in Nodes /\ n.chain = c /\ OneStage(n.utxo) /\ Work(n, b).ok
      BY <1>5 DEF Solid
    <2> HIDE DEF n
    <2>2. connect_block(n, b) \in Nodes /\ connect_block(n, b) = Connected(n, b, Work(n, b))
      BY <2>1, ConnectEffect
    <2>3. OneStage((n.utxo \ Work(n, b).seen) \cup Work(n, b).made)
      BY <2>1, OutputsMove
    <2>4. /\ Connected(n, b, Work(n, b)).chain = Append(n.chain, b)
          /\ Connected(n, b, Work(n, b)).utxo = (n.utxo \ Work(n, b).seen) \cup Work(n, b).made
      BY DEF Connected
    <2> QED BY <2>1, <2>2, <2>3, <2>4 DEF Solid, e
  <1>7. ASSUME NEW i \in 0..Len(e) PROVE Solid(Replay[SubSeq(e, 1, i)], SubSeq(e, 1, i))
    <2>1. CASE i = Len(e)
      BY Zenon, <1>3, <1>4, <1>6, <2>1
    <2>2. CASE i # Len(e)
      <3>1. i \in 0..Len(c)
        BY <1>1, <1>2, <2>2
      <3> QED BY Zenon, <1>3, <3>1 DEF Fits
    <2> QED BY <2>1, <2>2
  <1>8. ASSUME NEW i \in 0..(Len(e) - 1) PROVE Work(Replay[SubSeq(e, 1, i)], e[i + 1]).ok
    <2>1. i \in 0..Len(c)
      BY <1>1, <1>2
    <2>2. CASE i = Len(c)
      <3>1. e[i + 1] = b
        BY <1>2, <2>2 DEF Last
      <3> QED BY Zenon, <1>3, <2>1, <2>2, <3>1
    <2>3. CASE i # Len(c)
      <3>1. i \in 0..(Len(c) - 1) /\ i + 1 \in 1..Len(c)
        BY <1>1, <2>1, <2>3
      <3> QED BY Zenon, <1>2, <1>3, <2>1, <3>1 DEF Fits
    <2> QED BY <2>2, <2>3
  <1>9. Fits(e)
    BY <1>2, <1>7, <1>8 DEF Fits
  <1> QED BY <1>4, <1>9 DEF e

(* One block less.                                                         *)
LEMMA FitsDisconnect ==
  ASSUME NEW c, Fits(c), c # <<>>
  PROVE  Fits(Front(c)) /\ Replay[Front(c)] = disconnect_tip_block(Replay[c])
  <1> DEFINE f == Front(c)
             n == Replay[f]
  <1>1. c \in Seq(Block) /\ Len(c) \in Nat \ {0}
    BY FrontLast DEF Fits
  <1>2. /\ f \in Seq(Block) /\ Len(f) = Len(c) - 1 /\ Last(c) \in Block
        /\ \A i \in 1..(Len(c) - 1) : f[i] = c[i]
    BY <1>1, FrontLast
  <1>3. \A i \in 0..(Len(c) - 1) : SubSeq(f, 1, i) = SubSeq(c, 1, i)
    BY <1>1, Prefixes
  <1>4. SubSeq(c, 1, Len(c) - 1) = f
    BY DEF Front
  <1> HIDE DEF f
  <1>5. Fits(f)
    <2>1. \A i \in 0..Len(f) : i \in 0..(Len(c) - 1) /\ i \in 0..Len(c)
      BY <1>1, <1>2
    <2>2. \A i \in 0..Len(f) : Solid(Replay[SubSeq(f, 1, i)], SubSeq(f, 1, i))
      BY Zenon, <1>3, <2>1 DEF Fits
    <2>3. \A i \in 0..(Len(f) - 1) : i \in 0..(Len(c) - 1) /\ i + 1 \in 1..(Len(c) - 1)
      BY <1>1, <1>2
    <2>4. \A i \in 0..(Len(f) - 1) : Work(Replay[SubSeq(f, 1, i)], f[i + 1]).ok
      BY Zenon, <1>2, <1>3, <2>3 DEF Fits
    <2> QED BY <1>2, <2>2, <2>4 DEF Fits
  <1>6. Len(c) - 1 \in 0..(Len(c) - 1) /\ Len(c) - 1 \in 0..Len(c) /\ (Len(c) - 1) + 1 = Len(c)
    BY <1>1
  <1>7. Work(n, Last(c)).ok
    BY Zenon, <1>4, <1>6 DEF Fits, Last
  <1>8. Solid(n, f)
    BY Zenon, <1>4, <1>6 DEF Fits
  <1>9. Replay[c] = connect_block(n, Last(c))
    BY <1>1, ReplayRec DEF f
  <1> HIDE DEF n
  <1>10. disconnect_tip_block(Replay[c]) = n
    BY <1>2, <1>7, <1>8, <1>9, UndoExact DEF Solid
  <1> QED BY <1>5, <1>10 DEF f, n

-----------------------------------------------------------------------------
(* Claims                                                                  *)

(* Each undo record lists the payments of its block's claims; the lists    *)
(* are disjoint, and claimed_btc_outpoints is all of them.                 *)
ClaimsOK(n) ==
  /\ Len(n.undo) = Len(n.chain)
  /\ \A i \in 1..Len(n.chain) :
       /\ n.undo[i].claimed = PaidBy(n.chain[i], DOMAIN n.chain[i].txs)
       /\ DistinctPays(n.chain[i])
  /\ \A i, j \in 1..Len(n.chain) : i # j => n.undo[i].claimed \cap n.undo[j].claimed = {}
  /\ n.claimed = UNION {n.undo[i].claimed : i \in 1..Len(n.chain)}

(* connect_block keeps claims and undo records in step.                    *)
LEMMA ClaimsConnect ==
  ASSUME NEW n \in Nodes, NEW b \in Block, ClaimsOK(n)
  PROVE  ClaimsOK(connect_block(n, b))
  <1> DEFINE w == Work(n, b)
             m == connect_block(n, b)
             u == UndoOf(w)
             L == Len(n.chain)
  <1>1. CASE ~w.ok
    <2>1. m = Leaked(n, w)
      BY <1>1, ConnectEffect
    <2>2. m.chain = n.chain /\ m.undo = n.undo /\ m.claimed = n.claimed
      BY <2>1 DEF Leaked, Nodes
    <2> HIDE DEF m
    <2>3. ClaimsOK(m)
      BY <2>2 DEF ClaimsOK
    <2> QED BY <2>3 DEF m
  <1>2. CASE w.ok
    <2>1. /\ m.chain = Append(n.chain, b) /\ m.undo = Append(n.undo, u)
          /\ m.claimed = n.claimed \cup w.consumed
      BY <1>2, ConnectEffect DEF Connected
    <2>2. w.consumed = PaidBy(b, DOMAIN b.txs) /\ w.consumed \cap n.claimed = {} /\ DistinctPays(b)
      BY <1>2, WorkOk, ClaimsNew
    <2>3. u.claimed = w.consumed
      BY DEF UndoOf
    <2>4. u \in Undos
      BY WorkTyped DEF UndoOf, Undos
    <2>5. n.chain \in Seq(Block) /\ n.undo \in Seq(Undos) /\ Len(n.undo) = L /\ L \in Nat
      BY DEF Nodes, ClaimsOK
    <2>6. n.claimed = UNION {n.undo[i].claimed : i \in 1..L}
      BY DEF ClaimsOK
    <2>7. \A i \in 1..L : n.undo[i].claimed \subseteq n.claimed
      BY <2>6
    <2> HIDE DEF m, u, w
    <2>8. /\ Len(m.chain) = L + 1 /\ Len(m.undo) = L + 1
          /\ m.chain[L + 1] = b /\ m.undo[L + 1] = u
          /\ \A i \in 1..L : m.chain[i] = n.chain[i] /\ m.undo[i] = n.undo[i]
      BY <2>1, <2>4, <2>5
    <2>9. ASSUME NEW i \in 1..(L + 1)
          PROVE  /\ m.undo[i].claimed = PaidBy(m.chain[i], DOMAIN m.chain[i].txs)
                 /\ DistinctPays(m.chain[i])
      <3>1. CASE i = L + 1
        BY <2>2, <2>3, <2>8, <3>1
      <3>2. CASE i # L + 1
        <4>1. i \in 1..L
          BY <2>5, <3>2
        <4> QED BY Zenon, <2>8, <4>1 DEF ClaimsOK
      <3> QED BY <3>1, <3>2
    <2>10. ASSUME NEW i \in 1..(L + 1), NEW j \in 1..(L + 1), i # j
           PROVE  m.undo[i].claimed \cap m.undo[j].claimed = {}
      <3>1. CASE i \in 1..L /\ j \in 1..L
        BY Zenon, <2>8, <2>10, <3>1 DEF ClaimsOK
      <3>2. \A k \in 1..L : m.undo[k].claimed \cap m.undo[L + 1].claimed = {}
        BY Zenon, <2>2, <2>3, <2>7, <2>8
      <3>3. \A k \in 1..(L + 1) : k \in 1..L \/ k = L + 1
        BY <2>5
      <3> QED BY <2>10, <3>1, <3>2, <3>3
    <2>11. m.claimed = UNION {m.undo[i].claimed : i \in 1..(L + 1)}
      <3>1. \A k \in 1..(L + 1) : k \in 1..L \/ k = L + 1
        BY <2>5
      <3>2. \A k \in 1..L : k \in 1..(L + 1)
        BY <2>5
      <3>3. L + 1 \in 1..(L + 1)
        BY <2>5
      <3>4. \A x : x \in m.claimed => x \in UNION {m.undo[i].claimed : i \in 1..(L + 1)}
        BY <2>1, <2>3, <2>6, <2>8, <3>2, <3>3
      <3>5. \A x : x \in UNION {m.undo[i].claimed : i \in 1..(L + 1)} => x \in m.claimed
        BY <2>1, <2>3, <2>6, <2>8, <3>1
      <3> QED BY <3>4, <3>5
    <2>12. ClaimsOK(m)
      BY <2>8, <2>9, <2>10, <2>11 DEF ClaimsOK
    <2> QED BY <2>12 DEF m
  <1> QED BY <1>1, <1>2

(* disconnect_tip_block keeps claims and undo records in step.             *)
LEMMA ClaimsDisconnect ==
  ASSUME NEW n \in Nodes, ClaimsOK(n), n.chain # <<>>
  PROVE  ClaimsOK(disconnect_tip_block(n))
  <1> DEFINE m == disconnect_tip_block(n)
             L == Len(n.chain)
  <1>1. n.chain \in Seq(Block) /\ n.undo \in Seq(Undos) /\ Len(n.undo) = L
    BY DEF Nodes, ClaimsOK
  <1>2. L \in Nat \ {0} /\ n.undo # <<>>
    BY <1>1
  <1>3. /\ m.chain = Front(n.chain) /\ m.undo = Front(n.undo)
        /\ m.claimed = n.claimed \ n.undo[L].claimed
    BY <1>1 DEF disconnect_tip_block, Last
  <1> HIDE DEF m
  <1>4. /\ Len(m.chain) = L - 1 /\ Len(m.undo) = L - 1
        /\ \A i \in 1..(L - 1) : m.chain[i] = n.chain[i] /\ m.undo[i] = n.undo[i]
    <2>1. Len(Front(n.chain)) = L - 1 /\ \A i \in 1..(L - 1) : Front(n.chain)[i] = n.chain[i]
      BY Zenon, <1>1, FrontLast
    <2>2. Len(Front(n.undo)) = L - 1 /\ \A i \in 1..(L - 1) : Front(n.undo)[i] = n.undo[i]
      BY Zenon, <1>1, <1>2, FrontLast
    <2> QED BY <1>3, <2>1, <2>2
  <1>5. \A i \in 1..(L - 1) : i \in 1..L /\ i # L
    BY <1>2
  <1>6. n.claimed = UNION {n.undo[i].claimed : i \in 1..L}
    BY DEF ClaimsOK
  <1>7. \A i, j \in 1..L : i # j => n.undo[i].claimed \cap n.undo[j].claimed = {}
    BY DEF ClaimsOK
  <1>8. L \in 1..L
    BY <1>2
  <1>9. m.claimed = UNION {m.undo[i].claimed : i \in 1..(L - 1)}
    <2>1. \A k \in 1..L : k \in 1..(L - 1) \/ k = L
      BY <1>2
    <2>2. \A x : x \in m.claimed => x \in UNION {m.undo[i].claimed : i \in 1..(L - 1)}
      BY <1>3, <1>4, <1>6, <2>1
    <2>3. ASSUME NEW i \in 1..(L - 1), NEW x \in m.undo[i].claimed PROVE x \in m.claimed
      <3>1. x \in n.undo[i].claimed /\ i \in 1..L /\ i # L
        BY Zenon, <1>4, <1>5
      <3>2. x \in n.claimed
        BY <1>6, <3>1
      <3>3. x \notin n.undo[L].claimed
        BY <1>7, <1>8, <3>1
      <3> QED BY <1>3, <3>2, <3>3
    <2> QED BY <2>2, <2>3
  <1>10. \A i \in 1..(L - 1) :
           m.undo[i].claimed = PaidBy(m.chain[i], DOMAIN m.chain[i].txs) /\ DistinctPays(m.chain[i])
    BY Zenon, <1>4, <1>5 DEF ClaimsOK
  <1>11. \A i, j \in 1..(L - 1) : i # j => m.undo[i].claimed \cap m.undo[j].claimed = {}
    BY Zenon, <1>4, <1>5, <1>7
  <1>12. ClaimsOK(m)
    BY <1>4, <1>9, <1>10, <1>11 DEF ClaimsOK
  <1> QED BY <1>12 DEF m

-----------------------------------------------------------------------------
(* The branch a reorganisation has taken off                               *)

(* c is the chain at present: what is left of the chain before, and the    *)
(* new blocks; old is the rest of the chain before, newest first.          *)
Peeled(c, old, new, before) ==
  /\ old # <<>> /\ new <= Len(c)
  /\ Len(before) = (Len(c) - new) + Len(old) /\ Len(before) <= MaxHeight
  /\ \A i \in 1..(Len(c) - new) : c[i] = before[i]
  /\ \A i \in 1..Len(old) : old[i] = before[Len(before) + 1 - i]

(* The first disconnected block starts a reorganisation,                   *)
LEMMA PeelStart ==
  ASSUME NEW c \in Seq(Block), c # <<>>, Len(c) <= MaxHeight
  PROVE  Peeled(Front(c), Append(<<>>, Last(c)), 0, c)
  <1>1. /\ Len(c) \in Nat \ {0} /\ Len(Front(c)) = Len(c) - 1
        /\ \A i \in 1..(Len(c) - 1) : Front(c)[i] = c[i]
    BY FrontLast
  <1>2. /\ Append(<<>>, Last(c)) # <<>> /\ Len(Append(<<>>, Last(c))) = 1
        /\ Append(<<>>, Last(c))[1] = c[Len(c)]
    BY DEF Last
  <1>3. \A i \in 1..1 : i = 1
    OBVIOUS
  <1> QED BY <1>1, <1>2, <1>3 DEF Peeled

(* and each further one takes the tip of what is left.                     *)
LEMMA PeelMore ==
  ASSUME NEW c \in Seq(Block), c # <<>>, NEW old \in Seq(Block), NEW before \in Seq(Block),
         Peeled(c, old, 0, before)
  PROVE  Peeled(Front(c), Append(old, Last(c)), 0, before)
  <1> DEFINE f == Front(c)
             o == Append(old, Last(c))
  <1>1. /\ Len(c) \in Nat \ {0} /\ Len(f) = Len(c) - 1 /\ Last(c) \in Block
        /\ \A i \in 1..(Len(c) - 1) : f[i] = c[i]
    BY FrontLast
  <1>2. /\ o # <<>> /\ Len(o) = Len(old) + 1 /\ o[Len(old) + 1] = c[Len(c)]
        /\ \A i \in 1..Len(old) : o[i] = old[i]
    <2>1. /\ o # <<>> /\ Len(o) = Len(old) + 1 /\ Last(o) = Last(c)
          /\ \A i \in 1..Len(old) : o[i] = old[i]
      BY <1>1, AppendLast
    <2> HIDE DEF o
    <2> QED BY <2>1 DEF Last
  <1> HIDE DEF f, o
  <1>3. /\ Len(old) \in Nat /\ Len(before) = Len(c) + Len(old) /\ Len(before) <= MaxHeight
        /\ \A i \in 1..Len(c) : c[i] = before[i]
        /\ \A i \in 1..Len(old) : old[i] = before[Len(before) + 1 - i]
    BY <1>1 DEF Peeled
  <1>4. \A i \in 1..Len(f) : i \in 1..Len(c) /\ i \in 1..(Len(c) - 1)
    BY <1>1
  <1>5. \A i \in 1..Len(f) : f[i] = before[i]
    BY Zenon, <1>1, <1>3, <1>4
  <1>6. c[Len(c)] = before[Len(c)]
    BY <1>1, <1>3
  <1>7. ASSUME NEW i \in 1..Len(o) PROVE o[i] = before[Len(before) + 1 - i]
    <2>1. CASE i = Len(old) + 1
      <3>1. Len(before) + 1 - i = Len(c)
        BY <1>1, <1>3, <2>1
      <3> QED BY <1>2, <1>6, <2>1, <3>1
    <2>2. CASE i # Len(old) + 1
      <3>1. i \in 1..Len(old)
        BY <1>2, <1>3, <2>2
      <3> QED BY <1>2, <1>3, <3>1
    <2> QED BY <2>1, <2>2
  <1>8. 0 <= Len(f) /\ Len(before) = (Len(f) - 0) + Len(o) /\ Len(f) - 0 = Len(f)
    BY <1>1, <1>2, <1>3
  <1>9. Peeled(f, o, 0, before)
    BY Zenon, <1>2, <1>3, <1>5, <1>7, <1>8 DEF Peeled
  <1> QED BY <1>9 DEF f, o

(* A block of the new branch leaves the old blocks as they are,            *)
LEMMA PeelConnect ==
  ASSUME NEW c \in Seq(Block), NEW b \in Block, NEW old, NEW new \in Nat, NEW before,
         Peeled(c, old, new, before)
  PROVE  Peeled(Append(c, b), old, new + 1, before)
  <1>1. Len(Append(c, b)) = Len(c) + 1 /\ \A i \in 1..Len(c) : Append(c, b)[i] = c[i]
    BY AppendLast
  <1>2. Len(c) \in Nat /\ (Len(c) + 1) - (new + 1) = Len(c) - new /\ (new <= Len(c) => new + 1 <= Len(c) + 1)
    OBVIOUS
  <1>3. \A i \in 1..(Len(c) - new) : i \in 1..Len(c)
    BY <1>2
  <1> QED BY <1>1, <1>2, <1>3 DEF Peeled

(* and so does taking it back.                                             *)
LEMMA PeelUnwind ==
  ASSUME NEW c \in Seq(Block), NEW old, NEW new \in Nat, new > 0, NEW before,
         Peeled(c, old, new, before)
  PROVE  c # <<>> /\ Peeled(Front(c), old, new - 1, before)
  <1>1. Len(c) \in Nat /\ new <= Len(c)
    BY DEF Peeled
  <1>2. c # <<>>
    BY <1>1
  <1>3. Len(Front(c)) = Len(c) - 1 /\ \A i \in 1..(Len(c) - 1) : Front(c)[i] = c[i]
    BY <1>2, FrontLast
  <1>4. (Len(c) - 1) - (new - 1) = Len(c) - new /\ new - 1 <= Len(c) - 1
    BY <1>1
  <1>5. \A i \in 1..(Len(c) - new) : i \in 1..(Len(c) - 1)
    BY <1>1
  <1> QED BY <1>2, <1>3, <1>4, <1>5 DEF Peeled

(* The block to restore next is the one that was there.                    *)
LEMMA PeelRestore ==
  ASSUME NEW c \in Seq(Block), NEW old \in Seq(Block), NEW before \in Seq(Block),
         Peeled(c, old, 0, before)
  PROVE  /\ Len(c) < Len(before) /\ c = SubSeq(before, 1, Len(c))
         /\ Last(old) \in Block /\ Last(old) = before[Len(c) + 1]
         /\ Front(old) # <<>> => Peeled(Append(c, Last(old)), Front(old), 0, before)
         /\ Front(old) = <<>> => Append(c, Last(old)) = before
  <1> DEFINE e == Append(c, Last(old))
             f == Front(old)
  <1>1. /\ old # <<>> /\ Len(before) = Len(c) + Len(old) /\ Len(before) <= MaxHeight
        /\ Len(c) \in Nat /\ Len(before) \in Nat
        /\ \A i \in 1..Len(c) : c[i] = before[i]
        /\ \A i \in 1..Len(old) : old[i] = before[Len(before) + 1 - i]
    BY DEF Peeled
  <1>2. /\ Len(old) \in Nat \ {0} /\ Last(old) \in Block /\ f \in Seq(Block) /\ Len(f) = Len(old) - 1
        /\ \A i \in 1..(Len(old) - 1) : f[i] = old[i]
    BY Zenon, <1>1, FrontLast
  <1>3. Len(c) < Len(before) /\ c = SubSeq(before, 1, Len(c))
    BY <1>1, <1>2
  <1>4. Last(old) = before[Len(c) + 1]
    <2>1. Len(before) + 1 - Len(old) = Len(c) + 1 /\ Len(old) \in 1..Len(old)
      BY <1>1, <1>2
    <2> QED BY <1>1, <2>1 DEF Last
  <1>5. e \in Seq(Block) /\ Len(e) = Len(c) + 1 /\ e[Len(c) + 1] = before[Len(c) + 1]
        /\ \A i \in 1..Len(c) : e[i] = c[i]
    BY <1>2, <1>4
  <1> HIDE DEF e, f
  <1>6. \A i \in 1..Len(e) : e[i] = before[i]
    <2>1. \A i \in 1..(Len(c) + 1) : i \in 1..Len(c) \/ i = Len(c) + 1
      BY <1>1
    <2> QED BY <1>1, <1>5, <2>1
  <1>7. f # <<>> => Peeled(e, f, 0, before)
    <2>1. \A i \in 1..Len(f) : i \in 1..(Len(old) - 1) /\ i \in 1..Len(old)
      BY <1>2
    <2>2. \A i \in 1..Len(f) : f[i] = before[Len(before) + 1 - i]
      BY <1>1, <1>2, <2>1
    <2>3. 0 <= Len(e) /\ Len(e) - 0 = Len(e) /\ Len(before) = (Len(e) - 0) + Len(f)
      BY <1>1, <1>2, <1>5
    <2> QED BY Zenon, <1>1, <1>6, <2>2, <2>3 DEF Peeled
  <1>8. f = <<>> => e = before
    <2> SUFFICES ASSUME f = <<>> PROVE e = before
      OBVIOUS
    <2>1. Len(f) = 0
      OBVIOUS
    <2>2. Len(old) = 1
      BY <1>2, <2>1
    <2>3. Len(e) = Len(before)
      BY <1>1, <1>5, <2>2
    <2> QED BY <1>5, <1>6, <2>3
  <1> QED BY <1>2, <1>3, <1>4, <1>7, <1>8 DEF e, f

-----------------------------------------------------------------------------
(* The inductive invariant                                                 *)

Reorgs == [old : Seq(Block), new : Nat, failed : BOOLEAN, before : Seq(Block)]

(* The state of a chain whose blocks connect from genesis.                 *)
Exact(n) == n = Replay[n.chain] /\ Fits(n.chain)

IInv ==
  /\ node \in Nodes /\ ClaimsOK(node) /\ Len(node.chain) <= MaxHeight
  /\ reorg \in Reorgs
  /\ reorg = NoReorg \/ Peeled(node.chain, reorg.old, reorg.new, reorg.before)
  /\ failures \in 0..MaxFailures /\ drift \in BOOLEAN
  /\ ~drift => Exact(node) /\ Fits(reorg.before)

(* The value of reorg when none runs has its type.                         *)
LEMMA NoReorgTyped ==
  /\ NoReorg \in Reorgs /\ NoReorg.old = <<>> /\ NoReorg.new = 0
  /\ NoReorg.failed = FALSE /\ NoReorg.before = <<>>
  BY DEF NoReorg, Reorgs

(* A block connects, or is refused.                                        *)
LEMMA ConnectKeeps ==
  ASSUME NEW n \in Nodes, ClaimsOK(n), NEW b \in Block, NEW m, m = connect_block(n, b)
  PROVE  /\ m \in Nodes /\ ClaimsOK(m)
         /\ Work(n, b).ok => m.chain = Append(n.chain, b) /\ (Exact(n) => Exact(m))
         /\ ~Work(n, b).ok => m.chain = n.chain /\ (m.relay = n.relay => m = n)
  <1>1. m \in Nodes /\ ClaimsOK(m)
    BY ConnectEffect, ClaimsConnect
  <1>2. ASSUME Work(n, b).ok PROVE m.chain = Append(n.chain, b)
    BY <1>2, ConnectEffect DEF Connected
  <1>3. ASSUME Work(n, b).ok, Exact(n) PROVE Exact(m)
    <2>1. n = Replay[n.chain] /\ Fits(n.chain)
      BY <1>3 DEF Exact
    <2>2. Fits(Append(n.chain, b)) /\ Replay[Append(n.chain, b)] = m
      BY <1>3, <2>1, FitsConnect
    <2> QED BY Zenon, <1>2, <1>3, <2>2 DEF Exact
  <1>4. ASSUME ~Work(n, b).ok PROVE m.chain = n.chain /\ (m.relay = n.relay => m = n)
    <2>1. m = Leaked(n, Work(n, b))
      BY <1>4, ConnectEffect
    <2> QED BY <2>1 DEF Leaked, Nodes
  <1> QED BY <1>1, <1>2, <1>3, <1>4

(* The tip is disconnected.                                                *)
LEMMA DisconnectKeeps ==
  ASSUME NEW n \in Nodes, ClaimsOK(n), n.chain # <<>>, NEW m, m = disconnect_tip_block(n)
  PROVE  m \in Nodes /\ ClaimsOK(m) /\ m.chain = Front(n.chain) /\ (Exact(n) => Exact(m))
  <1>1. m \in Nodes
    BY DisconnectTyped DEF ClaimsOK
  <1>2. ClaimsOK(m)
    BY ClaimsDisconnect
  <1>3. m.chain = Front(n.chain)
    BY DEF disconnect_tip_block
  <1>4. ASSUME Exact(n) PROVE Exact(m)
    <2>1. n = Replay[n.chain] /\ Fits(n.chain)
      BY <1>4 DEF Exact
    <2>2. Fits(Front(n.chain)) /\ Replay[Front(n.chain)] = m
      BY <2>1, FitsDisconnect
    <2> QED BY <1>3, <2>2 DEF Exact
  <1> QED BY <1>1, <1>2, <1>3, <1>4

(* The initial state satisfies the inductive invariant.                    *)
LEMMA InitIInv == Init => IInv
  <1> SUFFICES ASSUME Init PROVE IInv
    OBVIOUS
  <1>1. node = Genesis /\ reorg = NoReorg /\ failures = 0 /\ drift = FALSE
    BY DEF Init
  <1>2. Fits(<<>>) /\ Replay[<<>>] = Genesis
    BY FitsEmpty
  <1>3. Genesis.chain = <<>> /\ Genesis.undo = <<>> /\ Genesis.claimed = {}
    BY DEF Genesis
  <1>4. Genesis \in Nodes
    <2>1. 0 \in 0..Len(<<>>) /\ SubSeq(<<>>, 1, 0) = <<>>
      OBVIOUS
    <2>2. Solid(Replay[SubSeq(<<>>, 1, 0)], SubSeq(<<>>, 1, 0))
      BY <1>2, <2>1 DEF Fits
    <2> QED BY Zenon, <1>2, <2>1, <2>2 DEF Solid
  <1>5. ClaimsOK(Genesis)
    <2>1. \A i \in 1..Len(<<>>) : FALSE
      OBVIOUS
    <2> QED BY <1>3, <2>1 DEF ClaimsOK
  <1>6. Len(Genesis.chain) <= MaxHeight /\ 0 \in 0..MaxFailures
    BY <1>3, BoundAssumption
  <1>7. Exact(Genesis)
    BY <1>2, <1>3 DEF Exact
  <1> QED BY Zenon, <1>1, <1>2, <1>4, <1>5, <1>6, <1>7, NoReorgTyped DEF IInv

(* A block on the tip keeps it.                                            *)
LEMMA ExtendIInv ==
  ASSUME IInv, NEW b \in Block, Extend(b)
  PROVE  IInv'
  <1>1. /\ reorg = NoReorg /\ Len(node.chain) < MaxHeight /\ Work(node, b).ok
        /\ node' = connect_block(node, b) /\ reorg' = reorg /\ failures' = failures /\ drift' = drift
    BY DEF Extend
  <1>2. node \in Nodes /\ ClaimsOK(node) /\ node.chain \in Seq(Block)
    BY DEF IInv, Nodes
  <1>3. /\ node' \in Nodes /\ ClaimsOK(node') /\ node'.chain = Append(node.chain, b)
        /\ Exact(node) => Exact(node')
    BY <1>1, <1>2, ConnectKeeps
  <1>4. Len(node'.chain) <= MaxHeight
    BY <1>1, <1>2, <1>3, BoundAssumption
  <1> QED BY Zenon, <1>1, <1>3, <1>4 DEF IInv, Exact, ClaimsOK

(* Refusing a block leaves the chain; an unchanged relay means that the    *)
(* whole state is unchanged.                                               *)
LEMMA RefuseKeeps ==
  ASSUME IInv, NEW b \in Block, ~Work(node, b).ok, node' = connect_block(node, b),
         failures < MaxFailures, failures' = failures + 1,
         drift' = (drift \/ node'.relay # node.relay)
  PROVE  /\ node' \in Nodes /\ ClaimsOK(node') /\ node'.chain = node.chain
         /\ failures' \in 0..MaxFailures /\ drift' \in BOOLEAN
         /\ ~drift' => ~drift /\ Exact(node')
  <1>1. node \in Nodes /\ ClaimsOK(node)
    BY DEF IInv
  <1>2. /\ node' \in Nodes /\ ClaimsOK(node') /\ node'.chain = node.chain
        /\ node'.relay = node.relay => node' = node
    BY <1>1, ConnectKeeps
  <1>3. failures' \in 0..MaxFailures
    BY BoundAssumption DEF IInv
  <1>4. drift' \in BOOLEAN
    BY DEF IInv
  <1>5. ASSUME ~drift' PROVE ~drift /\ Exact(node')
    <2>1. ~drift /\ node'.relay = node.relay
      BY Zenon, <1>5
    <2> QED BY <1>2, <2>1 DEF IInv
  <1> QED BY <1>2, <1>3, <1>4, <1>5

(* A refused block keeps it: if the relay changes, drift is set.           *)
LEMMA RejectIInv ==
  ASSUME IInv, NEW b \in Block, Reject(b)
  PROVE  IInv'
  <1>1. /\ ~Work(node, b).ok /\ node' = connect_block(node, b)
        /\ failures < MaxFailures /\ failures' = failures + 1
        /\ drift' = (drift \/ node'.relay # node.relay) /\ reorg' = reorg
    BY DEF Reject
  <1>2. /\ node' \in Nodes /\ ClaimsOK(node') /\ node'.chain = node.chain
        /\ failures' \in 0..MaxFailures /\ drift' \in BOOLEAN
        /\ ~drift' => ~drift /\ Exact(node')
    BY <1>1, RefuseKeeps
  <1> QED BY Zenon, <1>1, <1>2 DEF IInv, Exact, ClaimsOK

(* Disconnecting an old block keeps it.                                    *)
LEMMA DisconnectIInv ==
  ASSUME IInv, Disconnect
  PROVE  IInv'
  <1> DEFINE c == node.chain
             old == Append(reorg.old, Last(c))
             before == IF reorg = NoReorg THEN c ELSE reorg.before
  <1>1. /\ reorg.new = 0 /\ ~reorg.failed /\ Len(c) > 0
        /\ node' = disconnect_tip_block(node) /\ failures' = failures /\ drift' = drift
        /\ reorg' = [reorg EXCEPT !.old = old, !.before = before]
    BY DEF Disconnect
  <1>2. node \in Nodes /\ ClaimsOK(node) /\ c \in Seq(Block) /\ reorg \in Reorgs /\ Len(c) <= MaxHeight
    BY DEF IInv, Nodes
  <1>3. c # <<>>
    BY <1>1
  <1>4. /\ node' \in Nodes /\ ClaimsOK(node') /\ node'.chain = Front(c)
        /\ Exact(node) => Exact(node')
    BY <1>1, <1>2, <1>3, DisconnectKeeps
  <1>5. Last(c) \in Block /\ Len(Front(c)) = Len(c) - 1 /\ Len(c) \in Nat
    BY <1>2, <1>3, FrontLast
  <1>6. Peeled(Front(c), old, 0, before)
    <2>1. CASE reorg = NoReorg
      BY <1>2, <1>3, <2>1, NoReorgTyped, PeelStart
    <2>2. CASE reorg # NoReorg
      <3>1. Peeled(c, reorg.old, 0, reorg.before)
        BY <1>1, <2>2 DEF IInv
      <3>2. reorg.old \in Seq(Block) /\ reorg.before \in Seq(Block)
        BY <1>2 DEF Reorgs
      <3> QED BY <1>2, <1>3, <2>2, <3>1, <3>2, PeelMore
    <2> QED BY <2>1, <2>2
  <1>7. old \in Seq(Block) /\ before \in Seq(Block)
    BY <1>2, <1>5 DEF Reorgs
  <1>8. Exact(node) /\ Fits(reorg.before) => Fits(before)
    BY DEF Exact
  <1> HIDE DEF old, before
  <1>9. /\ reorg' \in Reorgs /\ reorg'.old = old /\ reorg'.new = 0 /\ reorg'.before = before
    BY Zenon, <1>1, <1>2, <1>7 DEF Reorgs
  <1>10. Len(node'.chain) <= MaxHeight
    BY <1>2, <1>4, <1>5, BoundAssumption
  <1>11. Peeled(node'.chain, reorg'.old, reorg'.new, reorg'.before)
    BY <1>4, <1>6, <1>9
  <1>12. failures' \in 0..MaxFailures /\ drift' \in BOOLEAN
    BY <1>1 DEF IInv
  <1>13. ~drift' => Exact(node') /\ Fits(reorg'.before)
    BY <1>1, <1>4, <1>8, <1>9 DEF IInv
  <1> QED BY <1>4, <1>9, <1>10, <1>11, <1>12, <1>13 DEF IInv, Exact, ClaimsOK, Peeled

(* Connecting a block of the new branch keeps it.                          *)
LEMMA ConnectNewIInv ==
  ASSUME IInv, NEW b \in Block, ConnectNew(b)
  PROVE  IInv'
  <1> DEFINE r == [reorg EXCEPT !.new = @ + 1]
  <1>1. /\ reorg.old # <<>> /\ Len(node.chain) < MaxHeight /\ Work(node, b).ok
        /\ node' = connect_block(node, b) /\ failures' = failures /\ drift' = drift
        /\ reorg' = NoReorg \/ reorg' = r
    BY DEF ConnectNew
  <1>2. node \in Nodes /\ ClaimsOK(node) /\ node.chain \in Seq(Block) /\ reorg \in Reorgs
    BY Zenon DEF IInv, Nodes
  <1>3. /\ node' \in Nodes /\ ClaimsOK(node') /\ node'.chain = Append(node.chain, b)
        /\ Exact(node) => Exact(node')
    BY <1>1, <1>2, ConnectKeeps
  <1>4. Len(node'.chain) <= MaxHeight
    BY <1>1, <1>2, <1>3, BoundAssumption
  <1>5. /\ r \in Reorgs /\ r.old = reorg.old /\ r.new = reorg.new + 1 /\ r.before = reorg.before
    BY <1>2 DEF Reorgs
  <1> HIDE DEF r
  <1>6. Peeled(node'.chain, r.old, r.new, r.before)
    <2>1. reorg.new \in Nat /\ Peeled(node.chain, reorg.old, reorg.new, reorg.before)
      BY <1>1, <1>2, NoReorgTyped DEF IInv, Reorgs
    <2>2. Peeled(Append(node.chain, b), reorg.old, reorg.new + 1, reorg.before)
      BY <1>2, <2>1, PeelConnect
    <2> QED BY <1>3, <1>5, <2>2
  <1>7. failures' \in 0..MaxFailures /\ drift' \in BOOLEAN
    BY <1>1 DEF IInv
  <1>8. ~drift' => Exact(node') /\ Fits(reorg'.before)
    BY Zenon, <1>1, <1>3, <1>5, NoReorgTyped, FitsEmpty DEF IInv
  <1>9. /\ reorg' \in Reorgs
        /\ reorg' = NoReorg \/ Peeled(node'.chain, reorg'.old, reorg'.new, reorg'.before)
    BY <1>1, <1>5, <1>6, NoReorgTyped
  <1> QED BY Zenon, <1>3, <1>4, <1>7, <1>8, <1>9 DEF IInv, Exact, ClaimsOK, Peeled, NoReorg

(* A refused block of the new branch keeps it.                             *)
LEMMA ReorgFailsIInv ==
  ASSUME IInv, NEW b \in Block, ReorgFails(b)
  PROVE  IInv'
  <1>1. /\ reorg.old # <<>> /\ ~Work(node, b).ok /\ node' = connect_block(node, b)
        /\ failures < MaxFailures /\ failures' = failures + 1
        /\ drift' = (drift \/ node'.relay # node.relay)
        /\ reorg' = [reorg EXCEPT !.failed = TRUE]
    BY DEF ReorgFails
  <1>2. /\ node' \in Nodes /\ ClaimsOK(node') /\ node'.chain = node.chain
        /\ failures' \in 0..MaxFailures /\ drift' \in BOOLEAN
        /\ ~drift' => ~drift /\ Exact(node')
    BY <1>1, RefuseKeeps
  <1>3. /\ reorg' \in Reorgs /\ reorg'.old = reorg.old /\ reorg'.new = reorg.new
        /\ reorg'.before = reorg.before
    BY Zenon, <1>1 DEF IInv, Reorgs
  <1>4. Peeled(node'.chain, reorg'.old, reorg'.new, reorg'.before)
    BY <1>1, <1>2, <1>3, NoReorgTyped DEF IInv
  <1>5. Len(node'.chain) <= MaxHeight /\ (~drift' => Fits(reorg'.before))
    BY <1>2, <1>3 DEF IInv
  <1> QED BY Zenon, <1>2, <1>3, <1>4, <1>5 DEF IInv, Exact, ClaimsOK, Peeled

(* Taking back a block of the new branch keeps it.                         *)
LEMMA UnwindIInv ==
  ASSUME IInv, Unwind
  PROVE  IInv'
  <1>1. /\ reorg.new > 0 /\ node' = disconnect_tip_block(node)
        /\ failures' = failures /\ drift' = drift
        /\ reorg' = [reorg EXCEPT !.new = @ - 1]
    BY DEF Unwind
  <1>2. node \in Nodes /\ ClaimsOK(node) /\ node.chain \in Seq(Block) /\ reorg \in Reorgs
    BY Zenon DEF IInv, Nodes
  <1>3. reorg.new \in Nat /\ Peeled(node.chain, reorg.old, reorg.new, reorg.before)
    BY <1>1, <1>2, NoReorgTyped DEF IInv, Reorgs
  <1>4. node.chain # <<>> /\ Peeled(Front(node.chain), reorg.old, reorg.new - 1, reorg.before)
    BY <1>1, <1>2, <1>3, PeelUnwind
  <1>5. /\ node' \in Nodes /\ ClaimsOK(node') /\ node'.chain = Front(node.chain)
        /\ Exact(node) => Exact(node')
    BY <1>1, <1>2, <1>4, DisconnectKeeps
  <1>6. Len(Front(node.chain)) = Len(node.chain) - 1 /\ Len(node.chain) \in Nat
    BY <1>2, <1>4, FrontLast
  <1>7. /\ reorg' \in Reorgs /\ reorg'.old = reorg.old /\ reorg'.new = reorg.new - 1
        /\ reorg'.before = reorg.before
    BY <1>1, <1>2, <1>3 DEF Reorgs
  <1>8. Len(node'.chain) <= MaxHeight
    BY <1>5, <1>6, BoundAssumption DEF IInv
  <1>9. Peeled(node'.chain, reorg'.old, reorg'.new, reorg'.before)
    BY <1>4, <1>5, <1>7
  <1>10. /\ failures' \in 0..MaxFailures /\ drift' \in BOOLEAN
         /\ ~drift' => Exact(node') /\ Fits(reorg'.before)
    BY <1>1, <1>5, <1>7 DEF IInv
  <1> QED BY Zenon, <1>5, <1>7, <1>8, <1>9, <1>10 DEF IInv, Exact, ClaimsOK, Peeled

(* The rollback puts the next old block back.  On the state of its chain   *)
(* it connects, since it did before; the last one completes the chain.     *)
LEMMA RestoreOldIInv ==
  ASSUME IInv, RestoreOld
  PROVE  /\ IInv'
         /\ reorg' = NoReorg /\ ~drift => node'.chain = reorg.before
  <1> DEFINE c == node.chain
             b == Last(reorg.old)
             left == Front(reorg.old)
  <1>1. /\ reorg.failed /\ reorg.new = 0 /\ node' = connect_block(node, b)
        /\ failures' = failures /\ drift' = drift
        /\ reorg' = IF Work(node, b).ok /\ left # <<>> THEN [reorg EXCEPT !.old = left] ELSE NoReorg
    BY DEF RestoreOld
  <1>2. /\ node \in Nodes /\ ClaimsOK(node) /\ c \in Seq(Block) /\ reorg \in Reorgs
        /\ reorg.old \in Seq(Block) /\ reorg.before \in Seq(Block)
    BY DEF IInv, Nodes, Reorgs
  <1>3. Peeled(c, reorg.old, 0, reorg.before)
    BY <1>1, NoReorgTyped DEF IInv
  <1>4. /\ Len(c) < Len(reorg.before) /\ c = SubSeq(reorg.before, 1, Len(c))
        /\ b \in Block /\ b = reorg.before[Len(c) + 1]
        /\ left # <<>> => Peeled(Append(c, b), left, 0, reorg.before)
        /\ left = <<>> => Append(c, b) = reorg.before
    BY <1>2, <1>3, PeelRestore
  <1>5. Len(reorg.before) <= MaxHeight /\ reorg.old # <<>>
    BY Zenon, <1>3 DEF Peeled
  <1>6. left \in Seq(Block)
    BY <1>2, <1>5, FrontLast
  <1> HIDE DEF b, left
  <1>7. /\ node' \in Nodes /\ ClaimsOK(node')
        /\ Work(node, b).ok => node'.chain = Append(c, b) /\ (Exact(node) => Exact(node'))
        /\ ~Work(node, b).ok => node'.chain = c
    <2>1. node' = connect_block(node, b) /\ b \in Block
      BY <1>1, <1>4
    <2>2. /\ node' \in Nodes /\ ClaimsOK(node')
          /\ Work(node, b).ok => node'.chain = Append(node.chain, b) /\ (Exact(node) => Exact(node'))
          /\ ~Work(node, b).ok => node'.chain = node.chain /\ (node'.relay = node.relay => node' = node)
      BY <1>2, <2>1, ConnectKeeps
    <2> QED BY <2>2
  <1>8. ASSUME ~drift PROVE Work(node, b).ok
    <2>1. Exact(node) /\ Fits(reorg.before)
      BY <1>8 DEF IInv
    <2>2. node = Replay[SubSeq(reorg.before, 1, Len(c))]
      BY Zenon, <1>4, <2>1 DEF Exact
    <2>3. Len(c) \in 0..(Len(reorg.before) - 1)
      BY <1>2, <1>4
    <2> HIDE DEF c
    <2>4. Work(Replay[SubSeq(reorg.before, 1, Len(c))], reorg.before[Len(c) + 1]).ok
      BY <2>1, <2>3 DEF Fits
    <2> QED BY <1>4, <2>2, <2>4
  <1>9. Len(Append(c, b)) = Len(c) + 1 /\ Len(c) \in Nat /\ Len(reorg.before) \in Nat
    BY <1>2, <1>4
  <1>10. Len(node'.chain) <= MaxHeight
    BY <1>4, <1>5, <1>7, <1>9, BoundAssumption DEF IInv
  <1>11. CASE Work(node, b).ok /\ left # <<>>
    <2>1. /\ reorg' \in Reorgs /\ reorg'.old = left /\ reorg'.new = 0
          /\ reorg'.before = reorg.before /\ reorg'.failed
      BY <1>1, <1>2, <1>6, <1>11 DEF Reorgs
    <2>2. Peeled(node'.chain, reorg'.old, reorg'.new, reorg'.before)
      BY Zenon, <1>4, <1>7, <1>11, <2>1
    <2>3. /\ failures' \in 0..MaxFailures /\ drift' \in BOOLEAN
          /\ ~drift' => Exact(node') /\ Fits(reorg'.before)
      BY <1>1, <1>7, <1>11, <2>1 DEF IInv
    <2>4. reorg' # NoReorg
      BY <2>1, NoReorgTyped
    <2> QED BY Zenon, <1>7, <1>10, <2>1, <2>2, <2>3, <2>4 DEF IInv, Exact, ClaimsOK, Peeled
  <1>12. CASE ~(Work(node, b).ok /\ left # <<>>)
    <2>1. reorg' = NoReorg /\ reorg' \in Reorgs /\ Fits(reorg'.before)
      BY <1>1, <1>12, NoReorgTyped, FitsEmpty
    <2>2. /\ failures' \in 0..MaxFailures /\ drift' \in BOOLEAN
          /\ ~drift' => Exact(node')
      BY <1>1, <1>7, <1>8 DEF IInv
    <2>3. ~drift => node'.chain = reorg.before
      BY <1>4, <1>7, <1>8, <1>12
    <2>4. IInv'
      BY Zenon, <1>7, <1>10, <2>1, <2>2 DEF IInv, Exact, ClaimsOK, NoReorg
    <2> QED BY <2>3, <2>4
  <1> QED BY <1>11, <1>12

(* A chunk of headers fetched in the background keeps it.                  *)
LEMMA BootstrapIInv ==
  ASSUME IInv, NEW hs \in Chunks, Bootstrap(hs)
  PROVE  IInv'
  <1> DEFINE relay == apply_header_batch(node.relay, hs)
  <1>1. /\ failures < MaxFailures /\ node' = [node EXCEPT !.relay = relay]
        /\ failures' = failures + 1 /\ reorg' = reorg
        /\ drift' = (drift \/ node'.relay # node.relay)
    BY DEF Bootstrap
  <1>2. node \in Nodes /\ ClaimsOK(node) /\ node.relay \in Relays
    BY DEF IInv, Nodes
  <1>3. hs \in Seq(Header)
    BY ChunksAssumption
  <1>4. relay \in Relays
    BY <1>2, <1>3, ApplyTyped
  <1> HIDE DEF relay
  <1>5. /\ node' \in Nodes /\ node'.chain = node.chain /\ node'.undo = node.undo
        /\ node'.claimed = node.claimed
        /\ node'.relay = node.relay => node' = node
    BY Zenon, <1>1, <1>2, <1>4 DEF Nodes
  <1>6. ClaimsOK(node')
    BY Zenon, <1>2, <1>5 DEF ClaimsOK
  <1>7. failures' \in 0..MaxFailures
    BY <1>1, BoundAssumption DEF IInv
  <1>8. drift' \in BOOLEAN
    BY <1>1 DEF IInv
  <1>9. ASSUME ~drift' PROVE Exact(node') /\ Fits(reorg.before)
    <2>1. ~drift /\ node' = node
      BY Zenon, <1>1, <1>5, <1>9
    <2> QED BY <2>1 DEF IInv
  <1>10. /\ Len(node'.chain) <= MaxHeight /\ reorg \in Reorgs
         /\ reorg = NoReorg \/ Peeled(node'.chain, reorg.old, reorg.new, reorg.before)
    BY <1>5 DEF IInv
  <1> QED BY <1>1, <1>5, <1>6, <1>7, <1>8, <1>9, <1>10 DEF IInv, Exact, ClaimsOK, Peeled

(* Every step keeps the inductive invariant.                               *)
LEMMA NextIInv == IInv /\ [Next]_vars => IInv'
  <1> SUFFICES ASSUME IInv, [Next]_vars PROVE IInv'
    OBVIOUS
  <1>1. ASSUME NEW b \in Block, Extend(b) \/ Reject(b) \/ ConnectNew(b) \/ ReorgFails(b) PROVE IInv'
    BY <1>1, ExtendIInv, RejectIInv, ConnectNewIInv, ReorgFailsIInv
  <1>2. CASE Disconnect \/ Unwind \/ RestoreOld
    BY <1>2, DisconnectIInv, UnwindIInv, RestoreOldIInv
  <1>3. ASSUME NEW hs \in Chunks, Bootstrap(hs) PROVE IInv'
    BY <1>3, BootstrapIInv
  <1>4. CASE UNCHANGED vars
    <2>1. node' = node /\ reorg' = reorg /\ failures' = failures /\ drift' = drift
      BY <1>4 DEF vars
    <2>2. /\ ClaimsOK(node') /\ (Exact(node) => Exact(node'))
          /\ reorg = NoReorg \/ Peeled(node'.chain, reorg'.old, reorg'.new, reorg'.before)
      BY <2>1 DEF IInv
    <2> QED BY Zenon, <2>1, <2>2 DEF IInv, Exact, ClaimsOK, Peeled
  <1> QED BY <1>1, <1>2, <1>3, <1>4 DEF Next

(* The inductive invariant holds in every state.                           *)
LEMMA Invariant == Spec => []IInv
  BY InitIInv, NextIInv, PTL DEF Spec

(* Types hold and every connected block has an undo record.                *)
THEOREM SwapTyped == Spec => []TypeOK
  <1>1. IInv => TypeOK
    <2> SUFFICES ASSUME IInv PROVE TypeOK
      OBVIOUS
    <2>1. node \in Nodes /\ node.relay \in Relays /\ Len(node.undo) = Len(node.chain)
      BY DEF IInv, ClaimsOK, Nodes
    <2>2. reorg.old \in Seq(Block) /\ reorg.new \in Nat
      BY DEF IInv, Reorgs
    <2>3. reorg.new <= MaxHeight
      <3>1. CASE reorg = NoReorg
        BY <3>1, NoReorgTyped, BoundAssumption
      <3>2. CASE reorg # NoReorg
        <4>1. reorg.new <= Len(node.chain) /\ Len(node.chain) <= MaxHeight
          BY <3>2 DEF IInv, Peeled
        <4>2. Len(node.chain) \in Nat
          BY <2>1 DEF Nodes
        <4> QED BY <2>2, <4>1, <4>2, BoundAssumption
      <3> QED BY <3>1, <3>2
    <2>4. reorg.new \in 0..MaxHeight
      BY <2>2, <2>3, BoundAssumption
    <2>5. failures \in 0..MaxFailures /\ drift \in BOOLEAN
      BY DEF IInv
    <2> QED BY <2>1, <2>2, <2>4, <2>5 DEF TypeOK, Nodes, Relays, Outputs, Tips
  <1> QED BY <1>1, Invariant, PTL

(* No external payment settles two deals on the main chain, and            *)
(* claimed_btc_outpoints holds exactly the payments its claims use, across *)
(* reorganisations, rollbacks and refused blocks.                          *)
THEOREM PaymentsSettleOnce == Spec => []OneSettlement
  <1>1. IInv => OneSettlement
    <2> SUFFICES ASSUME IInv PROVE OneSettlement
      OBVIOUS
    <2> DEFINE L == Len(node.chain)
    <2>1. ClaimsOK(node) /\ DOMAIN node.chain = 1..L
      BY DEF IInv, Nodes
    <2>2. \A i \in 1..L : node.undo[i].claimed = PaidBy(node.chain[i], DOMAIN node.chain[i].txs)
      BY <2>1 DEF ClaimsOK
    <2>3. \A i \in 1..L : DistinctPays(node.chain[i])
      BY <2>1 DEF ClaimsOK
    <2>4. \A i, j \in 1..L : i # j => node.undo[i].claimed \cap node.undo[j].claimed = {}
      BY <2>1 DEF ClaimsOK
    <2>5. node.claimed = UNION {node.undo[i].claimed : i \in 1..L}
      BY <2>1 DEF ClaimsOK
    <2>6. ASSUME NEW c \in Claims
          PROVE  /\ c[1] \in 1..L /\ c[2] \in DOMAIN node.chain[c[1]].txs /\ c = <<c[1], c[2]>>
                 /\ node.chain[c[1]].txs[c[2]].op = "claim"
      BY <2>1 DEF Claims
    <2>7. \A i \in 1..L : \A p \in DOMAIN node.chain[i].txs :
            node.chain[i].txs[p].op = "claim" => <<i, p>> \in Claims
      BY <2>1 DEF Claims
    <2> HIDE DEF L
    <2>8. ASSUME NEW c \in Claims PROVE PayOf(c) \in node.undo[c[1]].claimed
      BY <2>2, <2>6 DEF PayOf, PaidBy
    <2>9. ASSUME NEW c \in Claims, NEW d \in Claims, PayOf(c) = PayOf(d) PROVE c = d
      <3>1. c[1] = d[1]
        BY <2>4, <2>6, <2>8, <2>9
      <3>2. c[2] = d[2]
        <4>1. DistinctPays(node.chain[c[1]])
          BY <2>3, <2>6
        <4> QED BY Zenon, <2>6, <2>9, <3>1, <4>1 DEF DistinctPays, PayOf
      <3>3. c = <<c[1], c[2]>> /\ d = <<d[1], d[2]>>
        BY <2>6
      <3> QED BY <3>1, <3>2, <3>3
    <2>10. ASSUME NEW x \in node.claimed PROVE \E c \in Claims : x = PayOf(c)
      <3>1. PICK i \in 1..L : x \in PaidBy(node.chain[i], DOMAIN node.chain[i].txs)
        BY <2>2, <2>5
      <3>2. PICK p \in DOMAIN node.chain[i].txs :
              node.chain[i].txs[p].op = "claim" /\ x = node.chain[i].txs[p].pay
        BY <3>1 DEF PaidBy
      <3>3. <<i, p>> \in Claims /\ PayOf(<<i, p>>) = x
        BY <2>7, <3>2 DEF PayOf
      <3> QED BY <3>3
    <2>11. ASSUME NEW c \in Claims PROVE PayOf(c) \in node.claimed
      BY <2>5, <2>6, <2>8
    <2>12. node.claimed = {PayOf(c) : c \in Claims}
      BY <2>10, <2>11
    <2> QED BY <2>9, <2>12 DEF OneSettlement
  <1> QED BY <1>1, Invariant, PTL

(* As long as only connected blocks fed the relay, the node's state is the *)
(* one that connecting its chain from genesis gives.                       *)
THEOREM NodeIsReplay == Spec => []StateIsReplay
  <1>1. IInv => StateIsReplay
    BY DEF IInv, Exact, StateIsReplay
  <1> QED BY <1>1, Invariant, PTL

(* A rollback ends with the chain the reorganisation started from.         *)
THEOREM RollbackExact == Spec => RollbackRestores
  <1> DEFINE Restored == reorg.failed /\ reorg' = NoReorg /\ ~drift => node'.chain = reorg.before
  <1>1. IInv /\ [Next]_vars => [Restored]_vars
    <2> SUFFICES ASSUME IInv, Next, reorg.failed, reorg' = NoReorg, ~drift
                 PROVE  node'.chain = reorg.before
      OBVIOUS
    <2>1. NoReorg.failed = FALSE /\ reorg \in Reorgs
      BY NoReorgTyped DEF IInv
    <2>2. ASSUME NEW b \in Block, Extend(b) \/ Reject(b) \/ ConnectNew(b) \/ ReorgFails(b) PROVE FALSE
      BY <2>1, <2>2 DEF Extend, Reject, ConnectNew, ReorgFails
    <2>3. CASE Disconnect
      BY <2>3 DEF Disconnect
    <2>4. CASE Unwind
      <3>1. reorg' = [reorg EXCEPT !.new = @ - 1]
        BY <2>4 DEF Unwind
      <3>2. reorg'.failed = reorg.failed
        BY <2>1, <3>1 DEF Reorgs
      <3> QED BY <2>1, <3>2
    <2>5. CASE RestoreOld
      BY <2>5, RestoreOldIInv
    <2>6. ASSUME NEW hs \in Chunks, Bootstrap(hs) PROVE FALSE
      BY <2>1, <2>6 DEF Bootstrap
    <2> QED BY <2>2, <2>3, <2>4, <2>5, <2>6 DEF Next
  <1> QED BY <1>1, Invariant, PTL DEF Spec, RollbackRestores
=============================================================================
