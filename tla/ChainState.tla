----------------------------- MODULE ChainState -----------------------------
(***************************************************************************)
(* The node's chain engine (ChainState in src/chain.rs): block store,      *)
(* orphan pool, main chain and the ledger derived from it, fork choice and *)
(* reorganisation with rollback, and the finality watermark.               *)
(*                                                                         *)
(* process_block runs under the chain mutex, so no other call interleaves  *)
(* with it; its loops (the walk to the common ancestor, disconnecting,     *)
(* connecting, rolling back, and the recursive orphan drain) are one step  *)
(* per iteration, so that every intermediate chain is a state of the model.*)
(* Between calls any block may arrive: in any order, again, or invalid.    *)
(***************************************************************************)
EXTENDS Replay

CONSTANTS
  FinalityHeight, HardeningHeight,   \* activation heights
  MaxReorgDepth,                     \* max_reorg_depth()
  MaxOrphanBlocks                    \* MAX_ORPHAN_BLOCKS

ASSUME GateAssumption == FinalityHeight \in Nat

VARIABLES
  chain,      \* chain: the main chain, genesis first
  ledger,     \* utxos, issued, total_work, height and PoAW-X state
  undo,       \* undo_logs
  store,      \* block_store with heights and cumulative_work
  orphans,    \* orphan_pool: parent hash -> waiting blocks
  finalized,  \* finalized_height
  displaced,  \* reorg_orphaned_blocks
  op,         \* where the running process_block call stands
  stack,      \* frames of its recursion in the orphan drain
  sealed      \* history: every block at or below finalized_height while no reorganisation ran

vars == <<chain, ledger, undo, store, orphans, finalized, displaced, op, stack, sealed>>

core == <<chain, ledger, undo, finalized, sealed>>

Last(s) == s[Len(s)]

Front(s) == SubSeq(s, 1, Len(s) - 1)

Tip == chain[Len(chain)]

TipHeight == Len(chain) - 1

OnMainChain(b) == \E i \in DOMAIN chain : chain[i] = b

(***************************************************************************)
(* One block, connected to or disconnected from the tip.                   *)
(***************************************************************************)
(* A block's proof finalizes its parent; under hardening only a genuine    *)
(* quorum does.                                                            *)
Watermark(L, b, mark) ==
  LET h == L.height
  IN  IF /\ ActiveAt(FinalityHeight, h)
         /\ ActiveAt(HardeningHeight, h) => GenuineQuorum(L.registry, b, h)
         /\ mark < h - 1
        THEN h - 1 ELSE mark

Connectable(b) == Parent[b] = Tip /\ ValidBlock(ledger, b)

(* What a step that leaves the call at rest adds to the history.           *)
Sealing == sealed' = sealed \cup {chain'[i] : i \in {j \in DOMAIN chain' : j - 1 <= finalized'}}

(* Faulty variant: the watermark is taken from the height before the block.*)
ConnectStaleMark(b) ==
  /\ chain' = Append(chain, b)
  /\ ledger' = ApplyBlock(ledger, b)
  /\ undo' = Insert(undo, b, BlockUndo(ledger, b))
  /\ store' = Insert(store, b, [height |-> ledger'.height, work |-> ledger'.work])
  /\ finalized' = Watermark(ledger, b, finalized)

connect_block(b) ==
  /\ chain' = Append(chain, b)
  /\ ledger' = ApplyBlock(ledger, b)
  /\ undo' = Insert(undo, b, BlockUndo(ledger, b))
  /\ store' = Insert(store, b, [height |-> ledger'.height, work |-> ledger'.work])
  /\ finalized' = Watermark(ledger', b, finalized)

disconnect_tip_block ==
  /\ chain' = SubSeq(chain, 1, Len(chain) - 1)
  /\ ledger' = RevertBlock(ledger, Tip, undo[Tip])
  /\ undo' = Delete(undo, Tip)
  /\ finalized' = LET cap == SaturatingSub(TipHeight, 2)
                  IN  IF finalized < cap THEN finalized ELSE cap
  /\ UNCHANGED <<store, sealed>>

(***************************************************************************)
(* Fork choice.  branch is the candidate's blocks above the common         *)
(* ancestor at height fork, lowest first.                                  *)
(***************************************************************************)
(* Faulty variant: the longer branch wins before ranks are looked at.      *)
LongerBranch(branch, fork) == Len(branch) > Len(chain) - (fork + 1)

RankBetter(branch, fork) ==
  LET current == SubSeq(chain, fork + 2, Len(chain))
      shared  == IF Len(branch) < Len(current) THEN Len(branch) ELSE Len(current)
      differ  == {i \in 1..shared : Body[branch[i]].rank # Body[current[i]].rank}
  IN  IF differ # {}
        THEN \E i \in differ : /\ \A j \in differ : i <= j
                              /\ Body[branch[i]].rank < Body[current[i]].rank
      ELSE IF ActiveAt(HardeningHeight, TipHeight)
        THEN Body[branch[Len(branch)]].hash < Body[Tip].hash
      ELSE Len(branch) > Len(current)

(* Faulty variants: a branch of equal work displaces the tip, or a heavier *)
(* one needs a margin.                                                     *)
ReorgOnTie(b, branch, fork) ==
  IF ActiveAt(VrfHeight, store[b].height)
    THEN RankBetter(branch, fork)
    ELSE store[b].work >= ledger.work

ReorgWithMargin(b, branch, fork) ==
  IF ActiveAt(VrfHeight, store[b].height)
    THEN RankBetter(branch, fork)
    ELSE store[b].work > ledger.work + 1

do_reorg(b, branch, fork) ==
  IF ActiveAt(VrfHeight, store[b].height)
    THEN RankBetter(branch, fork)
    ELSE store[b].work > ledger.work

(* Faulty variant: no finality checkpoint.                                 *)
ReorgUnguarded(fork) ==
  ActiveAt(HardeningHeight, TipHeight) => TipHeight - fork <= MaxReorgDepth

(* The guards of reorg_to_tip: the depth cap and the finality checkpoint.  *)
ReorgAllowed(fork) ==
  /\ ActiveAt(HardeningHeight, TipHeight) => TipHeight - fork <= MaxReorgDepth
  /\ finalized <= fork

(***************************************************************************)
(* The running call.  blk is the block in process, branch and fork the     *)
(* path find_reorg_path has built so far, old the blocks disconnected      *)
(* (tip first), made how many blocks of branch are connected, and before   *)
(* the main chain when the block was stored.                               *)
(***************************************************************************)
Idle == [pc |-> "idle", blk |-> Genesis, branch |-> <<>>, fork |-> 0, old |-> <<>>,
         made |-> 0, before |-> <<>>]

(* The call has stored a side block and not yet decided its outcome.       *)
Deciding == op.pc \in {"walk", "decide", "disconnect", "connect", "unwind", "restore"}

Draining == [Idle EXCEPT !.pc = "drain"]

(* process_block returns an error: to the drain loop of the frame below,   *)
(* or to the caller.                                                       *)
ReturnErr(frames) ==
  /\ stack' = frames
  /\ op' = IF frames = <<>> THEN Idle ELSE Draining

(* Faulty variant: drain the orphans of the block instead of the tip's.    *)
DrainOfBlock(b, advanced, frames) ==
  /\ stack' = Append(frames, [blk |-> b, kids |-> <<>>, tip |-> b, advanced |-> advanced])
  /\ op' = Draining

(* The block is stored and its outcome known: drain the orphans waiting on *)
(* the tip.                                                                *)
StartDrain(b, advanced, frames) ==
  /\ stack' = Append(frames, [blk |-> b, kids |-> <<>>, tip |-> chain'[Len(chain')],
                              advanced |-> advanced])
  /\ op' = Draining

(* prune_orphan_pool drops whole entries, in the hash map's own order,     *)
(* while more than MAX_ORPHAN_BLOCKS blocks wait.                          *)
orphan_pool_size(pool) == MapThenSumSet(LAMBDA p : Len(pool[p]), Block)

prune_orphan_pool(pool) ==
  IF orphan_pool_size(pool) <= MaxOrphanBlocks THEN {pool}
  ELSE {[pool EXCEPT ![p] = <<>>] : p \in {q \in Block : pool[q] # <<>>}}

ParkOrphan(b, frames) ==
  /\ Parent[b] \notin DOMAIN store
  /\ orphans' \in prune_orphan_pool([orphans EXCEPT ![Parent[b]] = Append(@, b)])
  /\ ReturnErr(frames)
  /\ UNCHANGED <<core, store, displaced>>

RejectEarly(b, frames) ==
  /\ Parent[b] \in DOMAIN store
  /\ b \in DOMAIN store \/ ~Body[b].pow \/ ~Body[b].anchored
  /\ ReturnErr(frames)
  /\ UNCHANGED <<core, store, orphans, displaced>>

Admissible(b) ==
  Parent[b] \in DOMAIN store /\ b \notin DOMAIN store /\ Body[b].pow /\ Body[b].anchored

ExtendTip(b, frames) ==
  /\ Admissible(b)
  /\ Connectable(b)
  /\ connect_block(b)
  /\ Sealing
  /\ StartDrain(b, TRUE, frames)
  /\ UNCHANGED <<orphans, displaced>>

(* Faulty variant: the block that failed to connect stays in the store.    *)
RejectExtensionStored(b, frames) ==
  /\ Admissible(b)
  /\ Parent[b] = Tip
  /\ ~ValidBlock(ledger, b)
  /\ store' = Insert(store, b, [height |-> store[Parent[b]].height + 1,
                                work |-> store[Parent[b]].work + Body[b].work])
  /\ ReturnErr(frames)
  /\ UNCHANGED <<core, orphans, displaced>>

(* The block is stored, fails to connect and is removed again.             *)
RejectExtension(b, frames) ==
  /\ Admissible(b)
  /\ Parent[b] = Tip
  /\ ~ValidBlock(ledger, b)
  /\ ReturnErr(frames)
  /\ UNCHANGED <<core, store, orphans, displaced>>

StoreSideBlock(b, frames) ==
  /\ Admissible(b)
  /\ Parent[b] # Tip
  /\ store' = Insert(store, b, [height |-> store[Parent[b]].height + 1,
                                work |-> store[Parent[b]].work + Body[b].work])
  /\ op' = [Idle EXCEPT !.pc = "walk", !.blk = b, !.before = chain]
  /\ stack' = frames
  /\ UNCHANGED <<core, orphans, displaced>>

(* The entry of process_block, called by a handler or by the drain loop.   *)
process_block(b, frames) ==
  \/ ParkOrphan(b, frames)
  \/ RejectEarly(b, frames)
  \/ ExtendTip(b, frames)
  \/ RejectExtension(b, frames)
  \/ StoreSideBlock(b, frames)

(***************************************************************************)
(* find_reorg_path, one parent link per step.                              *)
(***************************************************************************)
Cursor == IF op.branch = <<>> THEN op.blk ELSE Parent[Head(op.branch)]

WalkBack ==
  /\ op.pc = "walk"
  /\ ~OnMainChain(Cursor)
  /\ op' = [op EXCEPT !.branch = <<Cursor>> \o @]
  /\ UNCHANGED <<core, store, orphans, displaced, stack>>

WalkDone ==
  /\ op.pc = "walk"
  /\ OnMainChain(Cursor)
  /\ op' = [op EXCEPT !.pc = "decide", !.fork = store[Cursor].height]
  /\ UNCHANGED <<core, store, orphans, displaced, stack>>

(***************************************************************************)
(* The fork-choice decision, and reorg_to_tip.  Its early return for an    *)
(* ancestor that is the tip is never taken (invariant ReorgCannotAbort).   *)
(***************************************************************************)
KeepTip ==
  /\ op.pc = "decide"
  /\ ~do_reorg(op.blk, op.branch, op.fork)
  /\ UNCHANGED <<core, store, orphans, displaced>>
  /\ StartDrain(op.blk, FALSE, stack)

RefuseReorg ==
  /\ op.pc = "decide"
  /\ do_reorg(op.blk, op.branch, op.fork)
  /\ ~ReorgAllowed(op.fork)
  /\ store' = Delete(store, op.blk)
  /\ ReturnErr(stack)
  /\ UNCHANGED <<core, orphans, displaced>>

StartReorg ==
  /\ op.pc = "decide"
  /\ do_reorg(op.blk, op.branch, op.fork)
  /\ ReorgAllowed(op.fork)
  /\ op' = [op EXCEPT !.pc = "disconnect"]
  /\ UNCHANGED <<core, store, orphans, displaced, stack>>

DisconnectOld ==
  /\ op.pc = "disconnect"
  /\ disconnect_tip_block
  /\ op' = [op EXCEPT !.old = Append(@, Tip),
                     !.pc = IF TipHeight - 1 > op.fork THEN "disconnect" ELSE "connect"]
  /\ UNCHANGED <<orphans, displaced, stack>>

ConnectNew ==
  /\ op.pc = "connect"
  /\ op.made + 1 < Len(op.branch)
  /\ Connectable(op.branch[op.made + 1])
  /\ connect_block(op.branch[op.made + 1])
  /\ op' = [op EXCEPT !.made = @ + 1]
  /\ UNCHANGED <<orphans, displaced, stack, sealed>>

(* The last block of the branch connects: the reorganisation succeeds and  *)
(* the disconnected blocks that carry receipts are stashed.                *)
FinishReorg ==
  /\ op.pc = "connect"
  /\ op.made + 1 = Len(op.branch)
  /\ Connectable(op.blk)
  /\ connect_block(op.blk)
  /\ Sealing
  /\ displaced' = displaced \cup {b \in Range(op.old) : Body[b].receipts}
  /\ StartDrain(op.blk, TRUE, stack)
  /\ UNCHANGED orphans

ConnectFails ==
  /\ op.pc = "connect"
  /\ ~Connectable(op.branch[op.made + 1])
  /\ op' = [op EXCEPT !.pc = IF op.made > 0 THEN "unwind" ELSE "restore"]
  /\ UNCHANGED <<core, store, orphans, displaced, stack>>

UnwindNew ==
  /\ op.pc = "unwind"
  /\ disconnect_tip_block
  /\ op' = [op EXCEPT !.made = @ - 1, !.pc = IF op.made > 1 THEN "unwind" ELSE "restore"]
  /\ UNCHANGED <<orphans, displaced, stack>>

(* Faulty variant: the old blocks are reconnected tip first.               *)
RestoreTipFirst ==
  /\ op.pc = "restore"
  /\ op.old # <<>>
  /\ IF Connectable(Head(op.old))
       THEN connect_block(Head(op.old)) /\ UNCHANGED sealed
       ELSE UNCHANGED <<core, store>>
  /\ op' = [op EXCEPT !.old = Tail(@)]
  /\ UNCHANGED <<orphans, displaced, stack>>

(* The old blocks are connected again.  The code ignores a failure here:   *)
(* the block would be lost from the main chain.                            *)
RestoreOld ==
  /\ op.pc = "restore"
  /\ op.old # <<>>
  /\ IF Connectable(Last(op.old))
       THEN connect_block(Last(op.old)) /\ UNCHANGED sealed
       ELSE UNCHANGED <<core, store>>
  /\ op' = [op EXCEPT !.old = Front(@)]
  /\ UNCHANGED <<orphans, displaced, stack>>

(* Faulty variant: the whole branch is dropped with its last block.        *)
AbandonBranch ==
  /\ op.pc = "restore"
  /\ op.old = <<>>
  /\ store' = [x \in DOMAIN store \ Range(op.branch) |-> store[x]]
  /\ ReturnErr(stack)
  /\ UNCHANGED <<chain, ledger, undo, finalized, orphans, displaced>>
  /\ Sealing

AbandonReorg ==
  /\ op.pc = "restore"
  /\ op.old = <<>>
  /\ store' = Delete(store, op.blk)
  /\ ReturnErr(stack)
  /\ UNCHANGED <<chain, ledger, undo, finalized, orphans, displaced>>
  /\ Sealing

(***************************************************************************)
(* The orphan drain: while blocks wait on frame.tip, take them out of the  *)
(* pool and process each; a child that returns Ok moves frame.tip on.      *)
(***************************************************************************)
Frame == stack[Len(stack)]

Below == SubSeq(stack, 1, Len(stack) - 1)

(* Faulty variant: the children stay in the pool.                          *)
DrainPeek ==
  /\ op.pc = "drain"
  /\ Frame.kids = <<>>
  /\ orphans[Frame.tip] # <<>>
  /\ stack' = Append(Below, [Frame EXCEPT !.kids = orphans[Frame.tip]])
  /\ UNCHANGED <<core, store, orphans, displaced, op>>

DrainFetch ==
  /\ op.pc = "drain"
  /\ Frame.kids = <<>>
  /\ orphans[Frame.tip] # <<>>
  /\ stack' = Append(Below, [Frame EXCEPT !.kids = orphans[Frame.tip]])
  /\ orphans' = [orphans EXCEPT ![Frame.tip] = <<>>]
  /\ UNCHANGED <<core, store, displaced, op>>

DrainChild ==
  /\ op.pc = "drain"
  /\ Frame.kids # <<>>
  /\ process_block(Head(Frame.kids), Append(Below, [Frame EXCEPT !.kids = Tail(@)]))

(* The call returns Ok unless the block went to a side chain.              *)
DrainReturn ==
  /\ op.pc = "drain"
  /\ Frame.kids = <<>>
  /\ orphans[Frame.tip] = <<>>
  /\ LET ok == Frame.advanced \/ Tip = Frame.blk
         n  == Len(Below)
     IN  stack' = IF ok /\ n > 0 THEN [Below EXCEPT ![n].tip = Tip] ELSE Below
  /\ op' = IF Below = <<>> THEN Idle ELSE Draining
  /\ UNCHANGED <<core, store, orphans, displaced>>

(***************************************************************************)
(* The calls other threads make, each while holding the chain mutex.       *)
(***************************************************************************)
(* A block from a peer (p2p.rs) or from the sync loop.                     *)
ReceiveBlock(b) ==
  /\ op.pc = "idle"
  /\ process_block(b, <<>>)

(* submit_block and submit_block_extended (bin/iriumd.rs) connect a mined  *)
(* block to the tip directly: no duplicate check, no anchor check before   *)
(* the state changes and no orphan drain.                                  *)
SubmitBlock(b) ==
  /\ op.pc = "idle"
  /\ Connectable(b)
  /\ connect_block(b)
  /\ Sealing
  /\ UNCHANGED <<orphans, displaced, op, stack>>

(* submit_block_extended first takes the stashed blocks, under a lock of   *)
(* its own, to put their receipts back among the pending ones.             *)
TakeDisplaced ==
  /\ op.pc = "idle"
  /\ displaced # {}
  /\ displaced' = {}
  /\ UNCHANGED <<core, store, orphans, op, stack>>

clear_orphan_pool ==
  /\ op.pc = "idle"
  /\ orphans # [p \in Block |-> <<>>]
  /\ orphans' = [p \in Block |-> <<>>]
  /\ UNCHANGED <<core, store, displaced, op, stack>>

Init ==
  /\ chain = <<Genesis>>
  /\ ledger = GenesisLedger
  /\ undo = [b \in {} |-> 0]
  /\ store = [b \in {Genesis} |-> [height |-> 0, work |-> Body[Genesis].work]]
  /\ orphans = [p \in Block |-> <<>>]
  /\ finalized = 0
  /\ displaced = {}
  /\ op = Idle
  /\ stack = <<>>
  /\ sealed = {Genesis}

(* A step of the running call.                                             *)
Step ==
  \/ WalkBack \/ WalkDone \/ KeepTip \/ RefuseReorg \/ StartReorg
  \/ DisconnectOld \/ ConnectNew \/ FinishReorg \/ ConnectFails
  \/ UnwindNew \/ RestoreOld \/ AbandonReorg
  \/ DrainFetch \/ DrainChild \/ DrainReturn

Next ==
  \/ \E b \in Block \ {Genesis} : ReceiveBlock(b) \/ SubmitBlock(b)
  \/ TakeDisplaced
  \/ clear_orphan_pool
  \/ Step

Spec == Init /\ [][Next]_vars

(* The thread that holds the chain mutex keeps running.                    *)
FairSpec == Spec /\ WF_vars(Step)

-----------------------------------------------------------------------------
OpType ==
  [pc : {"idle", "walk", "decide", "disconnect", "connect", "unwind", "restore", "drain"},
   blk : Block, branch : Seq(Block), fork : Nat, old : Seq(Block), made : Nat, before : Seq(Block)]

FrameType == [blk : Block, kids : Seq(Block \ {Genesis}), tip : Block, advanced : BOOLEAN]

(* Every variable has its type: chain, pool and frames hold blocks of the  *)
(* tree, undo data and index entries exist for known blocks only.          *)
TypeOK ==
  /\ chain \in Seq(Block) /\ chain # <<>>
  /\ IsLedger(ledger)
  /\ DOMAIN undo \subseteq Block
  /\ DOMAIN store \subseteq Block
  /\ store \in [DOMAIN store -> [height : Nat, work : Nat]]
  /\ orphans \in [Block -> Seq(Block \ {Genesis})]
  /\ finalized \in Nat
  /\ displaced \subseteq Block
  /\ sealed \subseteq Block
  /\ op \in OpType
  /\ stack \in Seq(FrameType)

(* However the main chain came about (extensions, reorganisations, failed  *)
(* reorganisations rolled back half way), UTXO set, supply, work, registry,*)
(* queue and offences are those of a replay of that chain from genesis:    *)
(* disconnect_tip_block is the exact inverse of connect_block.             *)
LedgerIsReplay == ledger = LedgerAt[Tip]

(* reorg_to_tip cannot stop half way: inside it the tip is never genesis   *)
(* and always has its undo log (the ? on disconnect_tip_block would leave  *)
(* the chain cut off below the fork), and the fork is strictly below the   *)
(* tip (the early return would report success without any change).         *)
ReorgCannotAbort ==
  /\ op.pc \in {"disconnect", "unwind"} => Tip # Genesis /\ Tip \in DOMAIN undo
  /\ op.pc \in {"decide", "disconnect"} => op.fork < TipHeight

(* reorg_to_tip ignores errors while it reconnects the old branch; there   *)
(* are none, and when the rollback is over the main chain is the one from  *)
(* before the reorganisation.                                              *)
RollbackRestores ==
  /\ op.pc = "restore" /\ op.old # <<>> => Connectable(Last(op.old))
  /\ op.pc = "restore" /\ op.old = <<>> => chain = op.before

(* The indexes of process_block agree with the chain: a main-chain block is*)
(* stored under its height and with the chain's work up to it, and every   *)
(* stored block's parent is stored.                                        *)
StoreConsistent ==
  /\ \A i \in DOMAIN chain :
       chain[i] \in DOMAIN store
         /\ store[chain[i]] = [height |-> i - 1, work |-> LedgerAt[chain[i]].work]
  /\ \A b \in DOMAIN store \ {Genesis} : Parent[b] \in DOMAIN store

(* No coins from nowhere: what the UTXO set holds never exceeds what was   *)
(* issued, and that never exceeds MAX_MONEY.                               *)
SupplyBounded ==
  /\ UtxoTotal(ledger.utxos) <= ledger.issued
  /\ ledger.issued <= MaxMoney

(* Under proof of work, between calls no stored block has more work behind *)
(* it than the tip, whatever failed, was refused or was drained meanwhile. *)
HeaviestStored ==
  op.pc = "idle" =>
    \A b \in DOMAIN store : ~ActiveAt(VrfHeight, store[b].height) => store[b].work <= ledger.work

(* When a process_block call that stored its block returns, no orphan waits*)
(* on the tip, even if the children it drained moved the tip again.        *)
DrainComplete ==
  [][op.pc = "drain" /\ op'.pc = "idle" => orphans'[Tip'] = <<>>]_vars

(* A block that was finalized is on the main chain whenever no call runs.  *)
FinalizedStays == op.pc = "idle" => \A b \in sealed : OnMainChain(b)

(* Between calls the watermark is the one a replay of the main chain would *)
(* compute, so a restarted node protects the same blocks.                  *)
WatermarkIsReplay ==
  op.pc = "idle" =>
    finalized = Max({0} \cup {i - 2 : i \in {j \in 2..Len(chain) :
                      Watermark(LedgerAt[chain[j]], chain[j], 0) = j - 2}})

(* No block that contradicts the anchor file is on the main chain.         *)
AnchorsHold == \A i \in DOMAIN chain : Body[chain[i]].anchored

(* Every process_block call returns: the recursion through the orphan pool *)
(* and the loops of a reorganisation terminate.                            *)
CallReturns == op.pc # "idle" ~> op.pc = "idle"

=============================================================================
