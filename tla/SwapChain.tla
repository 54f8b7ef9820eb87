------------------------------- MODULE SwapChain -------------------------------
(***************************************************************************)
(* Swaps of IRM against an external coin on a chain that reorganises       *)
(* (src/chain.rs).  An order is posted, filled into a swap output that the *)
(* taker claims with proof of an external payment, or into a plain hash    *)
(* time lock; orders are cancelled or swept, locks refunded.  Claims read  *)
(* the header relay of SpvRelay, which blocks of the same chain feed, and  *)
(* claimed_btc_outpoints, which they extend.  Disconnecting a block takes  *)
(* all of it back from the block's undo record.                            *)
(*                                                                         *)
(* A deal is one agreement; it has at most one output per chain and stage. *)
(* Signatures, preimages and scripts are as the builders of iriumd make    *)
(* them; a transaction spends one output of one deal.  Blocks come from a  *)
(* given set; everything else about a block is its flag `sound`.           *)
(***************************************************************************)
EXTENDS SpvRelay

CONSTANTS
  Deal,
  Kind,          \* "sell" and "buy" orders, or a "direct" swap
  Expiry,        \* expiry_height of the deal's order
  Timeout,       \* timeout_height of its swap or lock
  Required,      \* confirmations_required
  Payment,       \* external transactions with one binding output
  Settles,       \* the deals whose recipient, amount and binding it matches
  MinedIn,       \* the external header it is mined in
  Block,         \* [txs, coinbase, sound]: transactions, coinbase batch, the rest
  Chunks,        \* batches the bootstrap fetches
  MaxHeight, MaxDepth, MaxFailures

VARIABLES
  node,          \* chain, undo, utxo, claimed, relay
  reorg,         \* what reorg_to_tip has disconnected and connected so far
  failures,      \* blocks that failed to connect
  drift          \* history: the relay changed other than through the chain

vars == <<node, reorg, failures, drift>>

-----------------------------------------------------------------------------
(* Transactions                                                            *)

(* Each operation spends the deal's output of one stage and creates that   *)
(* of the next; "done" is an ordinary output.                              *)
Stages ==
  [post |-> <<"fund", "order">>, create |-> <<"fund", "swap">>,
   fill_sell |-> <<"order", "swap">>, fill_buy |-> <<"order", "htlc">>,
   cancel |-> <<"order", "done">>, sweep |-> <<"order", "done">>,
   claim |-> <<"swap", "done">>, refund |-> <<"swap", "done">>,
   claim_htlc |-> <<"htlc", "done">>, refund_htlc |-> <<"htlc", "done">>]

(* A transaction is a batch carrier or an operation on a deal.             *)
Batch(hs) == [op |-> "batch", deal |-> 0, pay |-> 0, headers |-> hs]
Operation(op, d) == [op |-> op, deal |-> d, pay |-> 0, headers |-> <<>>]
Claim(d, p) == [op |-> "claim", deal |-> d, pay |-> p, headers |-> <<>>]

Stage == {"fund", "order", "swap", "htlc", "done"}

(* What parsing leaves: a batch carries at least one header.               *)
IsTx(t) ==
  \/ t.op = "batch" /\ t.headers \in Seq(Header) \ {<<>>}
  \/ t.op \in DOMAIN Stages /\ t.deal \in Deal /\ (t.op = "claim" => t.pay \in Payment)

ASSUME BlockAssumption ==
  \A b \in Block :
    /\ Len(b.txs) \in Nat /\ DOMAIN b.txs = 1..Len(b.txs)
    /\ \A i \in DOMAIN b.txs : IsTx(b.txs[i])
    /\ b.coinbase \in Seq(Header) /\ b.sound \in BOOLEAN

ASSUME ChunksAssumption == Chunks \subseteq Seq(Header) \ {<<>>}

ASSUME BoundAssumption == MaxHeight \in Nat /\ MaxDepth \in Nat /\ MaxFailures \in Nat

Spent(t) == <<t.deal, Stages[t.op][1]>>
Made(t) == <<t.deal, Stages[t.op][2]>>

(* validate_output: an order or a swap must not expire as it is made.      *)
OutputLives(t, h) ==
  /\ Made(t)[2] = "order" => h < Expiry[t.deal]
  /\ Made(t)[2] = "swap" => h < Timeout[t.deal]

(* What an order allows: fills up to its expiry, cancels before it, sweeps *)
(* from it on.                                                             *)
OrderWindow(t, h) ==
  CASE t.op = "fill_sell" ->
         Kind[t.deal] = "sell" /\ h <= Expiry[t.deal] /\ h < Timeout[t.deal]
    [] t.op = "fill_buy" ->
         Kind[t.deal] = "buy" /\ h <= Expiry[t.deal] /\ h < Timeout[t.deal]
    [] t.op = "cancel" -> h < Expiry[t.deal]
    [] t.op = "sweep" -> h >= Expiry[t.deal]
    [] OTHER -> TRUE

RefundDue(t, h) == t.op \in {"refund", "refund_htlc"} => h >= Timeout[t.deal]

(* The payment is buried deep enough under the relay's tip.  Its header    *)
(* need not be an ancestor of that tip.                                    *)
Buried(r, d, p) ==
  /\ MinedIn[p] \in r.known
  /\ r.tip_height + 1 - HeightOf[MinedIn[p]] >= Required[d]

(* Faulty variant: only earlier blocks' claims count.                      *)
ProvesIgnoringBlock(r, claimed, consumed, d, p) ==
  Buried(r, d, p) /\ d \in Settles[p] /\ p \notin claimed

Proves(r, claimed, consumed, d, p) ==
  Buried(r, d, p) /\ d \in Settles[p] /\ p \notin claimed \cup consumed

(* What the transactions at positions S of a block carry, spend, create    *)
(* and use.                                                                *)
Carriers(b, S) == {i \in S : b.txs[i].op = "batch"}
Carried(b, S) == b.txs[CHOOSE i \in Carriers(b, S) : TRUE].headers
SpentBy(b, S) == {Spent(b.txs[i]) : i \in S \ Carriers(b, S)}
MadeBy(b, S) == {Made(b.txs[i]) : i \in S \ Carriers(b, S)}
PaidBy(b, S) == {b.txs[i].pay : i \in {j \in S : b.txs[j].op = "claim"}}

RelayAfter(n, b, S) ==
  IF Carriers(b, S) = {} THEN n.relay ELSE apply_header_batch(n.relay, Carried(b, S))

(* validate_transaction_internal for the i-th: against the outputs before  *)
(* the block and the relay as the block's earlier transactions left it.    *)
validate_transaction(n, b, i) ==
  LET t == b.txs[i]
      h == Len(n.chain) + 1
      earlier == 1..(i - 1)
  IN  /\ Spent(t) \in n.utxo \ SpentBy(b, earlier)
      /\ OutputLives(t, h) /\ OrderWindow(t, h) /\ RefundDue(t, h)
      /\ t.op = "claim" =>
           Proves(RelayAfter(n, b, earlier), n.claimed, PaidBy(b, earlier), t.deal, t.pay)

-----------------------------------------------------------------------------
(* Blocks                                                                  *)

(* One turn of the loop over the transactions: a block carries one batch.  *)
Accepts(n, b, i) ==
  IF b.txs[i].op = "batch"
    THEN Carriers(b, 1..(i - 1)) = {} /\ Verdict(n.relay, b.txs[i].headers) = "ok"
    ELSE validate_transaction(n, b, i)

(* The turns taken: the loop returns at the first that fails.              *)
Reached(n, b) == {i \in DOMAIN b.txs : \A j \in 1..i : Accepts(n, b, j)}

(* validate_and_apply_transactions up to the point where outputs and       *)
(* claims are written: the working state, ok or not.  The coinbase's batch *)
(* comes after the transactions and its soft failure is ignored; sound     *)
(* stands for the coinbase checks that follow.                             *)
Work(n, b) ==
  LET done == Reached(n, b)
      carried == Carriers(b, done) # {}
      due == done = DOMAIN b.txs /\ b.coinbase # <<>>
      mined == due /\ ~carried /\ Verdict(n.relay, b.coinbase) = "ok"
      hs == IF carried THEN Carried(b, done) ELSE b.coinbase
  IN  [ok |-> /\ done = DOMAIN b.txs /\ b.sound
              /\ due => ~carried /\ Verdict(n.relay, b.coinbase) # "hard",
       relay |-> IF carried \/ mined THEN apply_header_batch(n.relay, hs) ELSE n.relay,
       update |-> IF carried \/ mined THEN Update(n.relay, hs) ELSE NoUpdate,
       seen |-> SpentBy(b, done), made |-> MadeBy(b, done), consumed |-> PaidBy(b, done)]

(* BlockUndo.                                                              *)
UndoOf(w) ==
  [spent |-> w.seen, created |-> w.made, update |-> w.update, claimed |-> w.consumed]

Last(s) == s[Len(s)]
Front(s) == SubSeq(s, 1, Len(s) - 1)

(* connect_block when Work succeeded.                                      *)
Connected(n, b, w) ==
  [chain |-> Append(n.chain, b), undo |-> Append(n.undo, UndoOf(w)),
   utxo |-> (n.utxo \ w.seen) \cup w.made,
   claimed |-> n.claimed \cup w.consumed, relay |-> w.relay]

(* connect_block when it failed: the relay stays as the batches left it.   *)
Leaked(n, w) == [n EXCEPT !.relay = w.relay]

connect_block(n, b) ==
  LET w == Work(n, b) IN IF w.ok THEN Connected(n, b, w) ELSE Leaked(n, w)

(* Faulty variant: the undo record stays behind.                           *)
disconnect_keeping_record(n) ==
  LET u == Last(n.undo) IN
    [chain |-> Front(n.chain), undo |-> n.undo,
     utxo |-> (n.utxo \ u.created) \cup u.spent,
     claimed |-> n.claimed \ u.claimed,
     relay |-> undo_relay_update(n.relay, u.update)]

disconnect_tip_block(n) ==
  LET u == Last(n.undo) IN
    [chain |-> Front(n.chain), undo |-> Front(n.undo),
     utxo |-> (n.utxo \ u.created) \cup u.spent,
     claimed |-> n.claimed \ u.claimed,
     relay |-> undo_relay_update(n.relay, u.update)]

-----------------------------------------------------------------------------
(* The node                                                                *)

Genesis ==
  [chain |-> <<>>, undo |-> <<>>, utxo |-> Deal \X {"fund"}, claimed |-> {}, relay |-> NoRelay]

(* before is history: the chain the reorganisation started from.           *)
NoReorg == [old |-> <<>>, new |-> 0, failed |-> FALSE, before |-> <<>>]

Init ==
  /\ node = Genesis
  /\ reorg = NoReorg
  /\ failures = 0
  /\ drift = FALSE

(* process_block with a block on the tip.                                  *)
Extend(b) ==
  /\ reorg = NoReorg
  /\ Len(node.chain) < MaxHeight
  /\ Work(node, b).ok
  /\ node' = connect_block(node, b)
  /\ UNCHANGED <<reorg, failures, drift>>

(* The same, with a block that is refused.                                 *)
Reject(b) ==
  /\ reorg = NoReorg
  /\ Len(node.chain) < MaxHeight
  /\ failures < MaxFailures
  /\ ~Work(node, b).ok
  /\ node' = connect_block(node, b)
  /\ failures' = failures + 1
  /\ drift' = (drift \/ node'.relay # node.relay)
  /\ UNCHANGED reorg

(* reorg_to_tip, one block at a time; the chain stays locked, so nothing   *)
(* else happens in between.  First the old branch is disconnected.         *)
Disconnect ==
  /\ reorg.new = 0 /\ ~reorg.failed
  /\ Len(reorg.old) < MaxDepth
  /\ Len(node.chain) > 0
  /\ node' = disconnect_tip_block(node)
  /\ reorg' = [reorg EXCEPT !.old = Append(@, Last(node.chain)),
                            !.before = IF reorg = NoReorg THEN node.chain ELSE @]
  /\ UNCHANGED <<failures, drift>>

(* Then the new branch is connected.  Work decides between branches, so    *)
(* its last block may come at any length.                                  *)
ConnectNew(b) ==
  /\ reorg.old # <<>> /\ ~reorg.failed
  /\ Len(node.chain) < MaxHeight
  /\ Work(node, b).ok
  /\ node' = connect_block(node, b)
  /\ reorg' \in {NoReorg} \cup
        {r \in {[reorg EXCEPT !.new = @ + 1]} : Len(node'.chain) < MaxHeight}
  /\ UNCHANGED <<failures, drift>>

(* A block of the new branch is refused: the rollback begins.              *)
ReorgFails(b) ==
  /\ reorg.old # <<>> /\ ~reorg.failed
  /\ failures < MaxFailures
  /\ ~Work(node, b).ok
  /\ node' = connect_block(node, b)
  /\ reorg' = [reorg EXCEPT !.failed = TRUE]
  /\ failures' = failures + 1
  /\ drift' = (drift \/ node'.relay # node.relay)

(* It disconnects the blocks connected so far,                             *)
Unwind ==
  /\ reorg.failed /\ reorg.new > 0
  /\ node' = disconnect_tip_block(node)
  /\ reorg' = [reorg EXCEPT !.new = @ - 1]
  /\ UNCHANGED <<failures, drift>>

(* Faulty variant: the old blocks are put back newest first.               *)
RestoreNewest ==
  LET b == reorg.old[1]
      left == Tail(reorg.old)
  IN  /\ reorg.failed /\ reorg.new = 0
      /\ node' = connect_block(node, b)
      /\ reorg' = IF Work(node, b).ok /\ left # <<>> THEN [reorg EXCEPT !.old = left] ELSE NoReorg
      /\ UNCHANGED <<failures, drift>>

(* and connects the old ones again, errors ignored: the blocks above one   *)
(* that fails no longer fit the tip.                                       *)
RestoreOld ==
  LET b == Last(reorg.old)
      left == Front(reorg.old)
  IN  /\ reorg.failed /\ reorg.new = 0
      /\ node' = connect_block(node, b)
      /\ reorg' = IF Work(node, b).ok /\ left # <<>> THEN [reorg EXCEPT !.old = left] ELSE NoReorg
      /\ UNCHANGED <<failures, drift>>

(* maybe_bootstrap_btc_headers, a background task: one chunk from just     *)
(* above the relay's tip.                                                  *)
Bootstrap(hs) ==
  /\ reorg = NoReorg
  /\ failures < MaxFailures
  /\ HeightOf[hs[1]] = (IF node.relay.tip_height = 0 THEN HeightOf[Anchor]
                                                     ELSE node.relay.tip_height) + 1
  /\ Verdict(node.relay, hs) = "ok"
  /\ node' = [node EXCEPT !.relay = apply_header_batch(@, hs)]
  /\ failures' = failures + 1
  /\ drift' = (drift \/ node'.relay # node.relay)
  /\ UNCHANGED reorg

Next ==
  \/ \E b \in Block : Extend(b) \/ Reject(b) \/ ConnectNew(b) \/ ReorgFails(b)
  \/ Disconnect \/ Unwind \/ RestoreOld
  \/ \E hs \in Chunks : Bootstrap(hs)

Spec == Init /\ [][Next]_vars

-----------------------------------------------------------------------------
(* Types; every connected block has an undo record, which                  *)
(* disconnect_tip_block needs.                                             *)
TypeOK ==
  /\ node.chain \in Seq(Block) /\ Len(node.undo) = Len(node.chain)
  /\ node.utxo \subseteq Deal \X Stage
  /\ node.claimed \subseteq Payment
  /\ node.relay.known \subseteq Header
  /\ node.relay.tip \in Header \cup {Anchor}
  /\ node.relay.tip_height \in Nat
  /\ reorg.old \in Seq(Block) /\ reorg.new \in 0..MaxHeight
  /\ failures \in 0..MaxFailures /\ drift \in BOOLEAN

(* The claims of the main chain, as <<height, position>>.                  *)
Claims ==
  {c \in UNION {{i} \X DOMAIN node.chain[i].txs : i \in DOMAIN node.chain} :
     node.chain[c[1]].txs[c[2]].op = "claim"}

PayOf(c) == node.chain[c[1]].txs[c[2]].pay

(* An external payment settles one deal: however deals share a binding,    *)
(* whatever was reorganised, relayed out of turn or left behind by refused *)
(* blocks, no two claims of the main chain use one payment, and            *)
(* claimed_btc_outpoints lists exactly the payments they use.              *)
OneSettlement ==
  /\ \A c, d \in Claims : PayOf(c) = PayOf(d) => c = d
  /\ node.claimed = {PayOf(c) : c \in Claims}

(* The state that connecting a chain from genesis gives.                   *)
Replay[c \in Seq(Block)] ==
  IF c = <<>> THEN Genesis ELSE connect_block(Replay[Front(c)], Last(c))

(* What the node knows is what connecting its chain from genesis gives:    *)
(* undo records of blocks connected and disconnected in any order lose     *)
(* nothing and leave nothing, as long as the relay has been fed by         *)
(* connected blocks alone.                                                 *)
StateIsReplay == ~drift => node = Replay[node.chain]

(* A reorganisation that fails gives back the chain it started from, with  *)
(* every old block connected again, as long as refused blocks left nothing *)
(* in the relay.                                                           *)
RollbackRestores ==
  [][reorg.failed /\ reorg' = NoReorg /\ ~drift => node'.chain = reorg.before]_vars
=============================================================================
