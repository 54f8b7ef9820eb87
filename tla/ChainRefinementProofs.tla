----------------------- MODULE ChainRefinementProofs ------------------------
(***************************************************************************)
(* The chain engine implements the one-step fork choice: the mapping of    *)
(* ChainRefinement takes every step of the engine to one accepted block or *)
(* to no step at all.  Last, what a reorganisation may undo: below the     *)
(* hardening height the tip alone, so that the watermark is the one of a   *)
(* replay and finalized blocks stay.                                       *)
(***************************************************************************)
EXTENDS ChainRefinement, BlocksProofs, ChainStateProofs

-----------------------------------------------------------------------------
(* The comparison of the abstract specification, in the engine's own terms.*)
LEMMA ChoiceOperators ==
  /\ Choice!Path = Path /\ Choice!TotalWork = TotalWork
  /\ \A b \in Block : Choice!Height(b) = Height(b)
  /\ \A b, t \in Block :
       Choice!Better(b, t) <=> IF ActiveAt(VrfHeight, Height(b))
                                 THEN Choice!RankBetter(b, t) ELSE TotalWork[b] > TotalWork[t]
  <1>1. Choice!Path = Path
    BY DEF Choice!Path, Path
  <1>2. Choice!TotalWork = TotalWork
    BY DEF Choice!TotalWork, TotalWork
  <1>3. \A b \in Block : Choice!Height(b) = Height(b)
    BY <1>1 DEF Choice!Height, Height
  <1>4. \A b, t \in Block :
          Choice!Better(b, t) <=> IF ActiveAt(VrfHeight, Height(b))
                                    THEN Choice!RankBetter(b, t) ELSE TotalWork[b] > TotalWork[t]
    BY <1>2, <1>3 DEF Choice!Better, Choice!ActiveAt, ActiveAt
  <1> QED BY <1>1, <1>2, <1>3, <1>4

(* A chain a node may hold is the chain of each of its blocks.             *)
LEMMA ChainIsPath ==
  ASSUME NEW c, GoodChain(c)
  PROVE  /\ \A i \in 1..Len(c) : Path[c[i]] = SubSeq(c, 1, i) /\ Height(c[i]) = i - 1
         /\ Path[c[Len(c)]] = c
  <1>1. Linked(c)
    BY ChainTyped DEF GoodChain, Linked
  <1>2. \A i \in 1..Len(c) : Path[c[i]] = SubSeq(c, 1, i)
    BY <1>1, LinkedPrefixes
  <1>3. \A i \in 1..Len(c) : Len(SubSeq(c, 1, i)) = i
    BY ChainPrefix
  <1>4. \A i \in 1..Len(c) : Height(c[i]) = i - 1
    BY <1>2, <1>3 DEF Height
  <1> QED BY <1>1, <1>2, <1>4, LinkedIsPath

-----------------------------------------------------------------------------
(* Every stored block is indexed under the height and the work of its own  *)
(* chain, whether the chain is the main one or not.                        *)
IndexExact ==
  \A b \in DOMAIN store : store[b] = [height |-> Height(b), work |-> TotalWork[b]]

(* What find_reorg_path has built is the end of the candidate's chain.     *)
PathInv ==
  /\ op.pc = "walk" => Path[op.blk] = Path[Cursor] \o op.branch
  /\ op.pc = "decide" => Path[op.blk] = SubSeq(op.before, 1, op.fork + 1) \o op.branch

(* A reorganisation runs only for a better branch.                         *)
BetterInv ==
  op.pc \in {"disconnect", "connect", "unwind", "restore"} => Choice!Better(op.blk, Last(op.before))

RInv == IndexExact /\ PathInv /\ BetterInv

-----------------------------------------------------------------------------
(* The engine's comparison of a branch with the part of the main chain it  *)
(* would replace is the abstract comparison of the two tips.               *)
LEMMA RankAgrees ==
  ASSUME NEW b \in Block, NEW branch \in Seq(Block), NEW fork \in Nat,
         CoreInv, fork + 1 < Len(chain), b = branch[Len(branch)],
         Path[b] = SubSeq(chain, 1, fork + 1) \o branch
  PROVE  RankBetter(branch, fork) <=> Choice!RankBetter(b, Tip)
  <1> DEFINE f == fork + 1
             p == Path[b]
             current == SubSeq(chain, f + 1, Len(chain))
             shared == IF Len(branch) < Len(current) THEN Len(branch) ELSE Len(current)
             here == {i \in 1..shared : Body[branch[i]].rank # Body[current[i]].rank}
  <1>1. /\ chain \in Seq(Block) /\ Len(chain) \in Nat \ {0}
        /\ Path[Tip] = chain /\ Height(Tip) = TipHeight /\ Tip \in Block
    <2>1. GoodChain(chain) /\ chain \in Seq(Block) /\ Len(chain) \in Nat \ {0} /\ Tip \in Block
      BY CoreTyped DEF CoreInv
    <2>2. Len(chain) \in 1..Len(chain)
      BY <2>1
    <2> QED BY <2>1, <2>2, ChainIsPath DEF Tip, TipHeight
  <1>2. f \in 1..(Len(chain) - 1) /\ fork + 2 = f + 1
    BY <1>1
  <1>3. /\ Differ(branch, current) = {} <=> Differ(p, chain) = {}
        /\ LowerFirst(branch, current) <=> LowerFirst(p, chain)
        /\ Len(branch) > Len(current) <=> Len(p) > Len(chain)
        /\ DOMAIN current = 1..Len(current) /\ Len(current) = Len(chain) - f
    <2> DEFINE q == SubSeq(chain, 1, f) \o branch
    <2>1. /\ Differ(branch, current) = {} <=> Differ(q, chain) = {}
          /\ LowerFirst(branch, current) <=> LowerFirst(q, chain)
          /\ Len(branch) > Len(current) <=> Len(q) > Len(chain)
          /\ DOMAIN current = 1..Len(current)
      BY Zenon, <1>1, <1>2, BranchCompared
    <2>2. Len(current) = Len(chain) - f
      BY <1>1, <1>2, BranchElements
    <2>3. p = q
      OBVIOUS
    <2> QED BY Zenon, <2>1, <2>2, <2>3
  <1>4. RankBetter(branch, fork) <=>
          IF here # {} THEN \E i \in here : /\ \A j \in here : i <= j
                                           /\ Body[branch[i]].rank < Body[current[i]].rank
          ELSE IF ActiveAt(HardeningHeight, TipHeight) THEN Body[b].hash < Body[Tip].hash
          ELSE Len(branch) > Len(current)
    BY Zenon, <1>2 DEF RankBetter
  <1>5. Choice!RankBetter(b, Tip) <=>
          IF Differ(p, chain) # {} THEN LowerFirst(p, chain)
          ELSE IF ActiveAt(HardeningHeight, TipHeight) THEN Body[b].hash < Body[Tip].hash
          ELSE Len(p) > Len(chain)
    <2>1. Choice!Path[b] = p /\ Choice!Path[Tip] = chain /\ Choice!Height(Tip) = TipHeight
      BY <1>1, ChoiceOperators
    <2> HIDE DEF p
    <2> QED BY <2>1 DEF Choice!RankBetter, Choice!ActiveAt, ActiveAt, Differ, LowerFirst
  <1>6. here = Differ(branch, current)
    <2>1. DOMAIN branch = 1..Len(branch) /\ Len(branch) \in Nat /\ Len(current) \in Nat
      BY <1>1, <1>2, <1>3
    <2> HIDE DEF current
    <2> QED BY <1>3, <2>1 DEF Differ
  <1> HIDE DEF p, current, here
  <1> QED BY <1>3, <1>4, <1>5, <1>6 DEF LowerFirst

(* The main chain's tip is indexed exactly.                                *)
LEMMA TipIndexed ==
  ASSUME CoreInv, IndexExact
  PROVE  /\ Tip \in Block /\ Path[Tip] = chain /\ Height(Tip) = Len(chain) - 1
         /\ ledger.work = TotalWork[Tip] /\ Len(chain) \in Nat \ {0}
  <1>1. GoodChain(chain) /\ Len(chain) \in Nat \ {0} /\ DOMAIN chain = 1..Len(chain) /\ Tip \in Block
    BY CoreTyped DEF CoreInv
  <1>2. Len(chain) \in 1..Len(chain)
    BY <1>1
  <1>3. Path[Tip] = chain /\ Height(Tip) = Len(chain) - 1
    BY <1>1, <1>2, ChainIsPath DEF Tip
  <1>4. Tip \in DOMAIN store /\ store[Tip] = [height |-> Len(chain) - 1, work |-> LedgerAt[Tip].work]
    BY <1>1, <1>2 DEF CoreInv, StoreConsistent, Tip
  <1>5. store[Tip].work = TotalWork[Tip] /\ store[Tip].work = LedgerAt[Tip].work
    BY <1>4 DEF IndexExact
  <1>6. ledger.work = TotalWork[Tip]
    BY <1>5 DEF CoreInv
  <1> QED BY <1>1, <1>3, <1>6

(* When the engine decides, its decision is the abstract one.              *)
LEMMA DecisionAgrees ==
  ASSUME IInv, RInv, op.pc = "decide"
  PROVE  /\ do_reorg(op.blk, op.branch, op.fork) <=> Choice!Better(op.blk, Tip)
         /\ Tip = Last(op.before)
  <1>1. /\ Deciding /\ chain = op.before /\ ForkInv /\ Tip = op.before[Len(op.before)] /\ Tip \in Block
    BY DecideFacts
  <1>2. /\ CoreInv /\ op.blk \in DOMAIN store /\ op.blk \in Block /\ op.branch \in Seq(Block) /\ op.fork \in Nat
        /\ BranchInv
    BY <1>1, DecidingFacts
  <1>3. op.branch # <<>> /\ op.fork + 1 < Len(chain) /\ op.blk = op.branch[Len(op.branch)]
    BY <1>1, <1>2 DEF ForkInv, BranchInv
  <1>4. Path[op.blk] = SubSeq(chain, 1, op.fork + 1) \o op.branch
    BY Zenon, <1>1 DEF RInv, PathInv
  <1>5. RankBetter(op.branch, op.fork) <=> Choice!RankBetter(op.blk, Tip)
    BY Zenon, <1>2, <1>3, <1>4, RankAgrees
  <1>6. store[op.blk] = [height |-> Height(op.blk), work |-> TotalWork[op.blk]]
    BY <1>2 DEF RInv, IndexExact
  <1>7. store[op.blk].height = Height(op.blk) /\ store[op.blk].work = TotalWork[op.blk]
    BY <1>6
  <1>8. ledger.work = TotalWork[Tip]
    BY <1>2, TipIndexed DEF RInv
  <1>9. Choice!Better(op.blk, Tip) <=> IF ActiveAt(VrfHeight, Height(op.blk))
                                         THEN Choice!RankBetter(op.blk, Tip)
                                         ELSE TotalWork[op.blk] > TotalWork[Tip]
    BY <1>1, <1>2, ChoiceOperators
  <1>10. do_reorg(op.blk, op.branch, op.fork) <=> IF ActiveAt(VrfHeight, Height(op.blk))
                                                    THEN RankBetter(op.branch, op.fork)
                                                    ELSE TotalWork[op.blk] > TotalWork[Tip]
    BY <1>7, <1>8 DEF do_reorg
  <1> QED BY <1>1, <1>5, <1>9, <1>10 DEF Last

-----------------------------------------------------------------------------
(* The abstract state a node is in, and an abstract step between two.      *)
Known == IF Deciding THEN DOMAIN store \ {op.blk} ELSE DOMAIN store

Main == IF Deciding THEN Last(op.before) ELSE Tip

Stutter == Known' = Known /\ Main' = Main

Learns(b) ==
  /\ b \notin Known
  /\ Parent[b] \in Known
  /\ Known' = Known \cup {b}
  /\ Main' = IF Parent[b] = Main \/ Choice!Better(b, Main) THEN b ELSE Main

Simulated == Stutter \/ \E b \in Block \ {Genesis} : Learns(b)

Reorganising == op.pc \in {"disconnect", "connect", "unwind", "restore"}

(* Connecting a block indexes it exactly.                                  *)
LEMMA ConnectIndexed ==
  ASSUME CoreInv, IndexExact, NEW b \in Block \ {Genesis}, Connectable(b), connect_block(b)
  PROVE  IndexExact'
  <1>1. /\ DOMAIN store' = DOMAIN store \cup {b}
        /\ \A x \in DOMAIN store \ {b} : store'[x] = store[x]
        /\ store'[b] = [height |-> Len(chain), work |-> LedgerAt[b].work]
        /\ ledger' = LedgerAt[b]
    BY Zenon, ConnectEffect
  <1>2. ledger'.work = ledger.work + Body[b].work
    BY DEF connect_block, ApplyBlock
  <1>3. /\ Tip \in Block /\ Height(Tip) = Len(chain) - 1 /\ ledger.work = TotalWork[Tip]
        /\ Len(chain) \in Nat \ {0}
    BY TipIndexed
  <1>4. Parent[b] = Tip
    BY DEF Connectable
  <1>5. Height(b) = Len(chain)
    BY <1>3, <1>4, HeightRec
  <1>6. TotalWork[b] = LedgerAt[b].work
    BY <1>1, <1>2, <1>3, <1>4, WorkRec
  <1> QED BY <1>1, <1>5, <1>6 DEF IndexExact

(* Between calls and in the drain loop nothing is being decided.           *)
LEMMA AtRest ==
  ASSUME op'.pc \in {"idle", "drain"}, IndexExact'
  PROVE  RInv' /\ Known' = DOMAIN store' /\ Main' = Tip'
  BY Zenon DEF RInv, PathInv, BetterInv, Deciding, Known, Main

(* A step of a reorganisation that leaves the stored blocks as they are.   *)
LEMMA StillReorganising ==
  ASSUME RInv, Reorganising, Reorganising', op'.blk = op.blk, op'.before = op.before,
         DOMAIN store' = DOMAIN store, IndexExact'
  PROVE  RInv' /\ Simulated
  <1>1. Deciding /\ Deciding'
    BY DEF Deciding, Reorganising
  <1>2. Choice!Better(op.blk, Last(op.before))
    BY DEF RInv, BetterInv, Reorganising
  <1>3. BetterInv'
    BY <1>2 DEF BetterInv
  <1>4. PathInv'
    BY Zenon DEF PathInv, Reorganising
  <1>5. Stutter
    BY <1>1 DEF Stutter, Known, Main
  <1> QED BY <1>3, <1>4, <1>5 DEF RInv, Simulated

-----------------------------------------------------------------------------
(* The initial state maps to the abstract initial state.                   *)
LEMMA InitRefines == Init => RInv /\ Known = {Genesis} /\ Main = Genesis
  <1> SUFFICES ASSUME Init PROVE RInv /\ Known = {Genesis} /\ Main = Genesis
    OBVIOUS
  <1>1. op.pc = "idle" /\ ~Deciding
    BY DEF Init, Idle, Deciding
  <1>2. DOMAIN store = {Genesis} /\ store[Genesis] = [height |-> 0, work |-> Body[Genesis].work]
    BY DEF Init
  <1>3. Height(Genesis) = 0 /\ TotalWork[Genesis] = Body[Genesis].work
    BY HeightRec, WorkRec, TreeAssumption
  <1>4. IndexExact
    BY <1>2, <1>3 DEF IndexExact
  <1>5. Tip = Genesis
    BY DEF Init, Tip
  <1> QED BY <1>1, <1>2, <1>4, <1>5 DEF RInv, PathInv, BetterInv, Known, Main

(* A block connected to the tip outside a reorganisation is learned.       *)
LEMMA ExtensionLearned ==
  ASSUME CoreInv, IndexExact, ~Deciding, NEW b \in Block \ {Genesis}, b \notin DOMAIN store,
         Connectable(b), connect_block(b), op'.pc \in {"idle", "drain"}
  PROVE  RInv' /\ Simulated
  <1>1. IndexExact'
    BY ConnectIndexed
  <1>2. RInv' /\ Known' = DOMAIN store' /\ Main' = Tip'
    BY <1>1, AtRest
  <1>3. DOMAIN store' = DOMAIN store \cup {b} /\ Tip' = b
    BY Zenon, ConnectEffect
  <1>4. Parent[b] = Tip /\ Tip \in DOMAIN store
    <2>1. Len(chain) \in 1..Len(chain) /\ \A i \in 1..Len(chain) : chain[i] \in DOMAIN store
      BY CoreTyped
    <2> QED BY <2>1 DEF Connectable, Tip
  <1>5. Known = DOMAIN store /\ Main = Tip
    BY DEF Known, Main
  <1>6. Learns(b)
    BY <1>2, <1>3, <1>4, <1>5 DEF Learns
  <1> QED BY <1>2, <1>6 DEF Simulated

(* A step that leaves chain and store alone while nothing is decided.      *)
LEMMA NothingLearned ==
  ASSUME IndexExact, ~Deciding, UNCHANGED <<core, store>>, op'.pc \in {"idle", "drain"}
  PROVE  RInv' /\ Simulated
  <1>1. IndexExact' /\ Tip' = Tip /\ store' = store
    BY DEF IndexExact, Tip, core
  <1>2. RInv' /\ Known' = DOMAIN store' /\ Main' = Tip'
    BY <1>1, AtRest
  <1>3. Known = DOMAIN store /\ Main = Tip
    BY DEF Known, Main
  <1> QED BY <1>1, <1>2, <1>3 DEF Simulated, Stutter

(* The entry of process_block.                                             *)
LEMMA ProcessBlockRefines ==
  ASSUME IInv, RInv, ~Deciding, NEW b \in Block \ {Genesis}, NEW frames \in Seq(FrameType),
         process_block(b, frames)
  PROVE  RInv' /\ Simulated
  <1>1. CoreInv /\ IndexExact
    BY DEF IInv, RInv
  <1>2. CASE ParkOrphan(b, frames) \/ RejectEarly(b, frames) \/ RejectExtension(b, frames)
    <2>1. UNCHANGED <<core, store>> /\ ReturnErr(frames)
      BY <1>2 DEF ParkOrphan, RejectEarly, RejectExtension
    <2>2. op'.pc \in {"idle", "drain"}
      BY <2>1, ErrReturned
    <2> QED BY <1>1, <2>1, <2>2, NothingLearned
  <1>3. CASE ExtendTip(b, frames)
    <2>1. b \notin DOMAIN store /\ Connectable(b) /\ connect_block(b)
      BY <1>3 DEF ExtendTip, Admissible
    <2>2. op'.pc \in {"idle", "drain"}
      BY <1>3, RestingOps DEF ExtendTip, StartDrain
    <2> QED BY <1>1, <2>1, <2>2, ExtensionLearned
  <1>4. CASE StoreSideBlock(b, frames)
    <2> DEFINE new == [height |-> store[Parent[b]].height + 1, work |-> store[Parent[b]].work + Body[b].work]
    <2>1. /\ Parent[b] \in DOMAIN store /\ b \notin DOMAIN store /\ store' = Insert(store, b, new)
          /\ op' = [Idle EXCEPT !.pc = "walk", !.blk = b, !.before = chain] /\ UNCHANGED core
      BY <1>4 DEF StoreSideBlock, Admissible
    <2>2. op'.pc = "walk" /\ op'.blk = b /\ op'.before = chain /\ op'.branch = <<>>
      BY <2>1 DEF Idle
    <2>3. /\ DOMAIN store' = DOMAIN store \cup {b} /\ store'[b] = new
          /\ \A x \in DOMAIN store : store'[x] = store[x]
      BY <2>1 DEF Insert
    <2>4. new = [height |-> Height(b), work |-> TotalWork[b]]
      <3>1. store[Parent[b]] = [height |-> Height(Parent[b]), work |-> TotalWork[Parent[b]]]
        BY <1>1, <2>1 DEF IndexExact
      <3>2. Height(b) = Height(Parent[b]) + 1 /\ TotalWork[b] = TotalWork[Parent[b]] + Body[b].work
        BY HeightRec, WorkRec
      <3> QED BY <3>1, <3>2
    <2> HIDE DEF new
    <2>5. IndexExact'
      BY <1>1, <2>3, <2>4 DEF IndexExact
    <2>6. PathInv' /\ BetterInv'
      <3>1. Cursor' = b
        BY <2>2 DEF Cursor
      <3>2. Path[b] \o <<>> = Path[b]
        BY PathRec
      <3> QED BY <2>2, <3>1, <3>2 DEF PathInv, BetterInv
    <2>7. Deciding'
      BY <2>2 DEF Deciding
    <2>8. Stutter
      <3>1. Known' = DOMAIN store' \ {b} /\ Main' = Last(chain)
        BY <2>2, <2>7 DEF Known, Main
      <3>2. Known = DOMAIN store /\ Main = Last(chain)
        BY DEF Known, Main, Last, Tip
      <3> QED BY Zenon, <2>1, <2>3, <3>1, <3>2 DEF Stutter
    <2> QED BY <2>5, <2>6, <2>8 DEF RInv, Simulated
  <1> QED BY <1>2, <1>3, <1>4 DEF process_block

-----------------------------------------------------------------------------
(* While a decision is open the abstract node knows all but the candidate. *)
LEMMA WhileDeciding ==
  ASSUME IInv, Deciding
  PROVE  /\ Known = DOMAIN store \ {op.blk} /\ Main = Last(op.before)
         /\ op.blk \notin Known /\ Parent[op.blk] \in Known /\ op.blk \in Block \ {Genesis}
         /\ Parent[op.blk] # Main /\ CoreInv /\ op \in OpType
  <1>1. /\ CoreInv /\ op \in OpType /\ op.blk \in DOMAIN store \ {Genesis} /\ op.blk \in Block
        /\ Leaf(op.blk) /\ Leaf(op.before[Len(op.before)])
    BY DecidingFacts
  <1>2. Known = DOMAIN store \ {op.blk} /\ Main = Last(op.before)
    BY DEF Known, Main
  <1>3. Parent[op.blk] # op.blk /\ Parent[op.blk] # Last(op.before)
    BY <1>1 DEF Leaf, Last
  <1>4. Parent[op.blk] \in DOMAIN store
    BY <1>1 DEF CoreInv, StoreConsistent
  <1> QED BY <1>1, <1>2, <1>3, <1>4

(* The walk to the common ancestor takes one block into the branch.        *)
LEMMA WalkBackRefines ==
  ASSUME IInv, RInv, WalkBack
  PROVE  RInv' /\ Simulated
  <1> DEFINE c == Cursor
  <1>1. /\ op.pc = "walk" /\ ~OnMainChain(c) /\ UNCHANGED <<core, store, orphans, displaced, stack>>
        /\ op' = [op EXCEPT !.branch = <<c>> \o op.branch]
    BY DEF WalkBack
  <1>2. Deciding
    BY <1>1 DEF Deciding
  <1>3. /\ CoreInv /\ op \in OpType /\ op.branch \in Seq(Block) /\ op.blk \in Block /\ BranchInv
    BY <1>2, DecidingFacts
  <1>4. op'.branch = <<c>> \o op.branch /\ op'.pc = "walk" /\ op'.blk = op.blk /\ op'.before = op.before
    BY <1>1, <1>3 DEF OpType
  <1>5. c \in Block \ {Genesis}
    <2>1. c \in Block
      <3>1. CASE op.branch = <<>>
        BY <1>3, <3>1 DEF Cursor
      <3>2. CASE op.branch # <<>>
        <4>1. 1 \in 1..Len(op.branch) /\ Head(op.branch) = op.branch[1]
          BY <1>3, <3>2
        <4>2. Head(op.branch) \in Block \ {Genesis}
          BY <1>3, <4>1 DEF BranchInv, CoreInv
        <4> QED BY <3>2, <4>2, TreeAssumption DEF Cursor
      <3> QED BY <3>1, <3>2
    <2>2. c # Genesis
      <3>1. 1 \in DOMAIN chain /\ chain[1] = Genesis
        BY <1>3, CoreTyped
      <3> QED BY <1>1, <3>1 DEF OnMainChain
    <2> QED BY <2>1, <2>2
  <1>6. Path[op.blk] = Path[c] \o op.branch
    BY Zenon, <1>1 DEF RInv, PathInv
  <1> HIDE DEF c
  <1>7. Path[c] = Append(Path[Parent[c]], c) /\ Path[Parent[c]] \in Seq(Block) /\ <<c>> \in Seq(Block)
    <2>1. Parent[c] \in Block
      BY <1>5, TreeAssumption
    <2>2. Path[c] = Append(Path[Parent[c]], c) /\ Path[Parent[c]] \in Seq(Block)
      BY <1>5, <2>1, PathRec
    <2> QED BY <1>5, <2>2
  <1>8. Path[op.blk] = Path[Parent[c]] \o (<<c>> \o op.branch)
    <2>1. Append(Path[Parent[c]], c) \o op.branch = Path[Parent[c]] \o (<<c>> \o op.branch)
      BY Zenon, <1>3, <1>5, <1>7, AppendShift
    <2> QED BY <1>6, <1>7, <2>1
  <1>9. Cursor' = Parent[c]
    <2> DEFINE s == <<c>> \o op.branch
    <2>1. s \in Seq(Block) /\ Len(s) = Len(<<c>>) + Len(op.branch)
          /\ \A i \in 1..(Len(<<c>>) + Len(op.branch)) : s[i] = IF i <= Len(<<c>>) THEN <<c>>[i] ELSE op.branch[i - Len(<<c>>)]
      BY <1>3, <1>7
    <2>2. Len(<<c>>) = 1 /\ <<c>>[1] = c /\ Len(op.branch) \in Nat
      BY <1>3
    <2> HIDE DEF s
    <2>3. Len(s) >= 1 /\ s[1] = c
      BY <2>1, <2>2
    <2>4. s # <<>> /\ Head(s) = c
      BY <2>1, <2>3
    <2>5. op'.branch = s
      BY <1>4 DEF s
    <2> QED BY <2>4, <2>5 DEF Cursor
  <1>10. PathInv' /\ BetterInv'
    BY <1>4, <1>8, <1>9 DEF PathInv, BetterInv
  <1>11. IndexExact'
    BY <1>1 DEF RInv, IndexExact
  <1>12. Deciding'
    BY <1>4 DEF Deciding
  <1>13. Stutter
    BY <1>1, <1>2, <1>4, <1>12 DEF Stutter, Known, Main
  <1> QED BY <1>10, <1>11, <1>13 DEF RInv, Simulated

(* The walk meets the main chain at the fork.                              *)
LEMMA WalkDoneRefines ==
  ASSUME IInv, RInv, WalkDone
  PROVE  RInv' /\ Simulated
  <1>1. /\ op.pc = "walk" /\ OnMainChain(Cursor) /\ UNCHANGED <<core, store, orphans, displaced, stack>>
        /\ op' = [op EXCEPT !.pc = "decide", !.fork = store[Cursor].height]
    BY DEF WalkDone
  <1>2. Deciding
    BY <1>1 DEF Deciding
  <1>3. CoreInv /\ op \in OpType /\ chain = op.before
    BY <1>1, <1>2, DecidingFacts DEF IInv, PhaseInv
  <1>4. /\ op'.pc = "decide" /\ op'.blk = op.blk /\ op'.before = op.before /\ op'.branch = op.branch
        /\ op'.fork = store[Cursor].height
    BY <1>1, <1>3 DEF OpType
  <1>5. PICK i \in 1..Len(chain) : chain[i] = Cursor
    BY <1>1, <1>3, CoreTyped DEF OnMainChain
  <1>6. store[Cursor].height = i - 1
    <2>1. store[chain[i]] = [height |-> i - 1, work |-> LedgerAt[chain[i]].work]
      BY <1>3, CoreTyped DEF CoreInv, StoreConsistent
    <2> QED BY <1>5, <2>1
  <1>7. Path[Cursor] = SubSeq(chain, 1, i)
    BY <1>3, <1>5, ChainIsPath DEF CoreInv
  <1>8. op'.fork + 1 = i
    BY <1>3, <1>4, <1>5, <1>6, CoreTyped
  <1>9. Path[op.blk] = Path[Cursor] \o op.branch
    BY Zenon, <1>1 DEF RInv, PathInv
  <1>10. PathInv' /\ BetterInv'
    BY Zenon, <1>3, <1>4, <1>7, <1>8, <1>9 DEF PathInv, BetterInv
  <1>11. IndexExact'
    BY <1>1 DEF RInv, IndexExact
  <1>12. Deciding'
    BY <1>4 DEF Deciding
  <1>13. Stutter
    BY <1>1, <1>2, <1>4, <1>12 DEF Stutter, Known, Main
  <1> QED BY <1>10, <1>11, <1>13 DEF RInv, Simulated

(* The tip is kept: the candidate is learned and does not win.             *)
LEMMA KeepTipRefines ==
  ASSUME IInv, RInv, KeepTip
  PROVE  RInv' /\ Simulated
  <1>1. /\ op.pc = "decide" /\ ~do_reorg(op.blk, op.branch, op.fork) /\ UNCHANGED <<core, store>>
        /\ StartDrain(op.blk, FALSE, stack)
    BY Zenon DEF KeepTip
  <1>2. Deciding
    BY <1>1 DEF Deciding
  <1>3. ~Choice!Better(op.blk, Tip) /\ Tip = Last(op.before)
    BY <1>1, DecisionAgrees
  <1>4. op'.pc \in {"idle", "drain"} /\ IndexExact' /\ Tip' = Tip /\ store' = store
    BY <1>1, RestingOps DEF StartDrain, RInv, IndexExact, Tip, core
  <1>5. RInv' /\ Known' = DOMAIN store' /\ Main' = Tip'
    BY <1>4, AtRest
  <1>6. /\ Known = DOMAIN store \ {op.blk} /\ Main = Last(op.before)
        /\ op.blk \notin Known /\ Parent[op.blk] \in Known /\ op.blk \in Block \ {Genesis}
        /\ Parent[op.blk] # Main
    BY <1>2, WhileDeciding
  <1>7. op.blk \in DOMAIN store
    BY <1>2, DecidingFacts
  <1>8. Learns(op.blk)
    BY <1>3, <1>4, <1>5, <1>6, <1>7 DEF Learns
  <1> QED BY <1>5, <1>6, <1>8 DEF Simulated

(* The candidate is dropped with the main chain as it was.                 *)
LEMMA DropRefines ==
  ASSUME IInv, RInv, Deciding, chain = op.before, store' = Delete(store, op.blk),
         ReturnErr(stack), UNCHANGED <<chain, ledger>>
  PROVE  RInv' /\ Simulated
  <1>1. stack \in Seq(FrameType)
    BY DEF IInv, RestInv
  <1>2. op'.pc \in {"idle", "drain"}
    BY <1>1, ErrReturned
  <1>3. DOMAIN store' = DOMAIN store \ {op.blk} /\ \A x \in DOMAIN store' : store'[x] = store[x]
    BY DEF Delete
  <1>4. IndexExact'
    BY <1>3 DEF RInv, IndexExact
  <1>5. RInv' /\ Known' = DOMAIN store' /\ Main' = Tip'
    BY <1>2, <1>4, AtRest
  <1>6. Known = DOMAIN store \ {op.blk} /\ Main = Last(op.before)
    BY WhileDeciding
  <1>7. Tip' = Last(op.before)
    BY DEF Tip, Last
  <1> QED BY <1>3, <1>5, <1>6, <1>7 DEF Simulated, Stutter

LEMMA DropCalls ==
  ASSUME IInv, RInv, RefuseReorg \/ AbandonReorg
  PROVE  RInv' /\ Simulated
  <1>1. store' = Delete(store, op.blk) /\ ReturnErr(stack) /\ UNCHANGED <<chain, ledger>>
    BY DEF RefuseReorg, AbandonReorg, core
  <1>2. Deciding /\ chain = op.before
    <2>1. CASE RefuseReorg
      BY <2>1, DecideFacts DEF RefuseReorg
    <2>2. CASE AbandonReorg
      BY <2>2, RestoredChain DEF AbandonReorg
    <2> QED BY <2>1, <2>2
  <1> QED BY <1>1, <1>2, DropRefines

(* A reorganisation starts, for the better branch.                         *)
LEMMA StartReorgRefines ==
  ASSUME IInv, RInv, StartReorg
  PROVE  RInv' /\ Simulated
  <1>1. /\ op.pc = "decide" /\ do_reorg(op.blk, op.branch, op.fork)
        /\ op' = [op EXCEPT !.pc = "disconnect"] /\ UNCHANGED <<core, store>>
    BY DEF StartReorg
  <1>2. Deciding
    BY <1>1 DEF Deciding
  <1>3. op \in OpType
    BY <1>2, DecidingFacts
  <1>4. op'.pc = "disconnect" /\ op'.blk = op.blk /\ op'.before = op.before
    BY <1>1, <1>3 DEF OpType
  <1>5. Choice!Better(op.blk, Last(op.before))
    BY <1>1, DecisionAgrees
  <1>6. BetterInv' /\ PathInv'
    BY <1>4, <1>5 DEF BetterInv, PathInv
  <1>7. IndexExact'
    BY <1>1 DEF RInv, IndexExact
  <1>8. Deciding'
    BY <1>4 DEF Deciding
  <1>9. Stutter
    BY <1>1, <1>2, <1>4, <1>8 DEF Stutter, Known, Main
  <1> QED BY <1>6, <1>7, <1>9 DEF RInv, Simulated

(* The inner steps of a reorganisation are invisible.                      *)
LEMMA ReorgStepsRefine ==
  ASSUME IInv, RInv, DisconnectOld \/ ConnectNew \/ ConnectFails \/ UnwindNew \/ RestoreOld
  PROVE  RInv' /\ Simulated
  <1>1. Reorganising
    BY DEF DisconnectOld, ConnectNew, ConnectFails, UnwindNew, RestoreOld, Reorganising
  <1>2. Deciding
    BY <1>1 DEF Deciding, Reorganising
  <1>3. op \in OpType /\ CoreInv
    BY <1>2, DecidingFacts
  <1>4. Reorganising' /\ op'.blk = op.blk /\ op'.before = op.before
    <2>1. CASE DisconnectOld
      BY <1>3, <2>1 DEF DisconnectOld, Reorganising, OpType
    <2>2. CASE ConnectNew
      BY <1>3, <2>2 DEF ConnectNew, Reorganising, OpType
    <2>3. CASE ConnectFails
      BY <1>3, <2>3 DEF ConnectFails, Reorganising, OpType
    <2>4. CASE UnwindNew
      BY <1>3, <2>4 DEF UnwindNew, Reorganising, OpType
    <2>5. CASE RestoreOld
      BY <1>3, <2>5 DEF RestoreOld, Reorganising, OpType
    <2> QED BY <2>1, <2>2, <2>3, <2>4, <2>5
  <1>5. DOMAIN store' = DOMAIN store /\ IndexExact'
    <2>1. CASE DisconnectOld \/ ConnectFails \/ UnwindNew
      <3>1. store' = store
        BY <2>1 DEF DisconnectOld, ConnectFails, UnwindNew, disconnect_tip_block
      <3> QED BY <3>1 DEF RInv, IndexExact
    <2>2. ASSUME NEW b \in Block \ {Genesis}, b \in DOMAIN store, Connectable(b), connect_block(b)
          PROVE  DOMAIN store' = DOMAIN store /\ IndexExact'
      <3>1. DOMAIN store' = DOMAIN store \cup {b}
        BY Zenon, <1>3, <2>2, ConnectEffect
      <3>2. IndexExact'
        BY <1>3, <2>2, ConnectIndexed DEF RInv
      <3> QED BY <2>2, <3>1, <3>2
    <2>3. CASE ConnectNew
      <3> DEFINE b == op.branch[op.made + 1]
      <3>1. b \in Block \ {Genesis} /\ b \in DOMAIN store
        BY <2>3, ConnectFacts DEF ConnectNew
      <3>2. Connectable(b) /\ connect_block(b)
        BY <2>3 DEF ConnectNew
      <3> HIDE DEF b
      <3> QED BY <2>2, <3>1, <3>2
    <2>4. CASE RestoreOld
      <3> DEFINE b == Last(op.old)
      <3>1. Connectable(b) /\ b \in Block \ {Genesis} /\ b \in DOMAIN store
        BY <2>4, RestoreConnects DEF RestoreOld
      <3>2. connect_block(b)
        BY <2>4, <3>1 DEF RestoreOld
      <3> HIDE DEF b
      <3> QED BY <2>2, <3>1, <3>2
    <2> QED BY <2>1, <2>3, <2>4
  <1> QED BY <1>1, <1>4, <1>5, StillReorganising

(* The reorganisation succeeds: the better block becomes the tip.          *)
LEMMA FinishReorgRefines ==
  ASSUME IInv, RInv, FinishReorg
  PROVE  RInv' /\ Simulated
  <1>1. op.pc = "connect" /\ Connectable(op.blk) /\ connect_block(op.blk) /\ StartDrain(op.blk, TRUE, stack)
    BY Zenon DEF FinishReorg
  <1>2. Deciding /\ op'.pc = "drain"
    BY <1>1, RestingOps DEF Deciding, StartDrain
  <1>3. /\ Known = DOMAIN store \ {op.blk} /\ Main = Last(op.before)
        /\ op.blk \notin Known /\ Parent[op.blk] \in Known /\ op.blk \in Block \ {Genesis} /\ CoreInv
    BY <1>2, WhileDeciding
  <1>4. IndexExact'
    BY <1>1, <1>3, ConnectIndexed DEF RInv
  <1>5. RInv' /\ Known' = DOMAIN store' /\ Main' = Tip'
    BY <1>2, <1>4, AtRest
  <1>6. DOMAIN store' = DOMAIN store \cup {op.blk} /\ Tip' = op.blk
    BY Zenon, <1>1, <1>3, ConnectEffect
  <1>7. Choice!Better(op.blk, Main)
    BY <1>1, <1>3 DEF RInv, BetterInv
  <1>8. Learns(op.blk)
    BY <1>3, <1>5, <1>6, <1>7 DEF Learns
  <1> QED BY <1>3, <1>5, <1>8 DEF Simulated

(* The orphan drain: only the calls of process_block in it can teach.      *)
LEMMA DrainRefines ==
  ASSUME IInv, RInv, DrainFetch \/ DrainChild \/ DrainReturn
  PROVE  RInv' /\ Simulated
  <1>1. op.pc = "drain" /\ ~Deciding /\ IndexExact
    BY DEF DrainFetch, DrainChild, DrainReturn, Deciding, RInv
  <1>2. CASE DrainFetch
    BY <1>1, <1>2, NothingLearned DEF DrainFetch
  <1>3. CASE DrainReturn
    <2>1. op'.pc \in {"idle", "drain"} /\ UNCHANGED <<core, store>>
      BY <1>3, RestingOps DEF DrainReturn
    <2> QED BY <1>1, <2>1, NothingLearned
  <1>4. CASE DrainChild
    <2> DEFINE f == [Frame EXCEPT !.kids = Tail(@)]
               b == Head(Frame.kids)
    <2>1. Frame.kids # <<>> /\ process_block(b, Append(Below, f))
      BY <1>4 DEF DrainChild
    <2>2. Frame \in FrameType /\ Below \in Seq(FrameType)
      BY <1>1, FrameFacts
    <2>3. Frame.kids \in Seq(Block \ {Genesis})
      BY <2>2 DEF FrameType
    <2>4. b \in Block \ {Genesis} /\ Tail(Frame.kids) \in Seq(Block \ {Genesis})
      BY <2>1, <2>3
    <2>5. f \in FrameType
      <3>1. f = [Frame EXCEPT !.kids = Tail(Frame.kids)]
        OBVIOUS
      <3> QED BY Zenon, <2>2, <2>4, <3>1 DEF FrameType
    <2> HIDE DEF f, b
    <2>6. Append(Below, f) \in Seq(FrameType)
      BY <2>2, <2>5
    <2> QED BY Zenon, <1>1, <2>1, <2>4, <2>6, ProcessBlockRefines
  <1> QED BY <1>2, <1>3, <1>4

(* The calls of the other threads.                                         *)
LEMMA CallsRefine ==
  ASSUME IInv, RInv,
         (\E b \in Block \ {Genesis} : ReceiveBlock(b) \/ SubmitBlock(b)) \/ TakeDisplaced \/ clear_orphan_pool
  PROVE  RInv' /\ Simulated
  <1>1. op.pc = "idle" /\ ~Deciding /\ IndexExact
    BY DEF ReceiveBlock, SubmitBlock, TakeDisplaced, clear_orphan_pool, Deciding, RInv
  <1>2. CoreInv /\ Leaf(Tip)
    BY <1>1 DEF IInv, LeafInv
  <1>3. ASSUME NEW b \in Block \ {Genesis}, ReceiveBlock(b) PROVE RInv' /\ Simulated
    <2>1. process_block(b, <<>>) /\ <<>> \in Seq(FrameType)
      BY <1>3 DEF ReceiveBlock
    <2> QED BY Zenon, <1>1, <2>1, ProcessBlockRefines
  <1>4. ASSUME NEW b \in Block \ {Genesis}, SubmitBlock(b) PROVE RInv' /\ Simulated
    <2>1. Connectable(b) /\ connect_block(b) /\ op' = op
      BY <1>4 DEF SubmitBlock
    <2>2. b \notin DOMAIN store
      BY <1>2, <2>1 DEF Leaf, Connectable
    <2> QED BY <1>1, <1>2, <2>1, <2>2, ExtensionLearned
  <1>5. CASE TakeDisplaced \/ clear_orphan_pool
    <2>1. op' = op /\ UNCHANGED <<core, store>>
      BY <1>5 DEF TakeDisplaced, clear_orphan_pool
    <2> QED BY <1>1, <2>1, NothingLearned
  <1> QED BY <1>3, <1>4, <1>5

(* Every step of the engine maps to one accepted block or to nothing.      *)
LEMMA NextRefines ==
  ASSUME IInv, RInv, [Next]_vars
  PROVE  RInv' /\ Simulated
  <1>1. CASE UNCHANGED vars
    <2>1. RInv'
      BY Zenon, <1>1 DEF vars, RInv, IndexExact, PathInv, BetterInv, Cursor
    <2>2. Stutter
      BY <1>1 DEF vars, Stutter, Known, Main, Deciding, Tip
    <2> QED BY <2>1, <2>2 DEF Simulated
  <1>2. CASE Next
    <2>1. CASE Step
      BY <2>1, WalkBackRefines, WalkDoneRefines, KeepTipRefines, DropCalls, StartReorgRefines,
         ReorgStepsRefine, FinishReorgRefines, DrainRefines DEF Step
    <2> QED BY <1>2, <2>1, CallsRefine DEF Next
  <1> QED BY <1>1, <1>2

(* The abstract step of the mapped variables.                              *)
LEMMA AbstractStep ==
  ASSUME Simulated
  PROVE  [Choice!Next]_(Choice!vars)
  <1> DEFINE k == [n \in {Self} |-> Known]
             t == [n \in {Self} |-> Main]
  <1>1. CASE Stutter
    BY <1>1 DEF Stutter, Known, Main, Choice!vars
  <1>2. CASE \E b \in Block \ {Genesis} : Learns(b)
    <2>1. PICK b \in Block \ {Genesis} : Learns(b)
      BY <1>2
    <2>2. k[Self] = Known /\ t[Self] = Main
      OBVIOUS
    <2>3. k' = [k EXCEPT ![Self] = @ \cup {b}]
      BY <2>1 DEF Learns
    <2>4. t' = [t EXCEPT ![Self] = IF Parent[b] = @ \/ Choice!Better(b, @) THEN b ELSE @]
      BY <2>1 DEF Learns
    <2>5. Choice!Learn(Self, b)
      BY Zenon, <2>1, <2>2, <2>3, <2>4 DEF Learns, Choice!Learn, Known, Main
    <2> QED BY <2>5 DEF Choice!Next
  <1> QED BY <1>1, <1>2 DEF Simulated

-----------------------------------------------------------------------------
(* The engine implements the fork-choice specification, for every block    *)
(* tree, every activation height and every order of arrival: the walk, the *)
(* block-by-block reorganisation, its rollback, the refused and the failed *)
(* candidates and the orphan drain of process_block add up to "learn one   *)
(* block; move to it if it extends the tip or its branch is better".       *)
THEOREM Refinement == Spec => FollowsForkChoice
  <1>1. Init => Choice!Init
    BY InitRefines DEF Choice!Init, Known, Main
  <1>2. Init => RInv
    BY InitRefines
  <1>3. IInv /\ RInv /\ [Next]_vars => RInv' /\ [Choice!Next]_(Choice!vars)
    BY NextRefines, AbstractStep
  <1> QED BY <1>1, <1>2, <1>3, Invariance, PTL DEF Spec, FollowsForkChoice, Choice!Spec

(* Under proof of work (no block high enough for the VRF fork choice), no  *)
(* stored block has more work than the tip of a node at rest.              *)
Heaviest == \A b \in Known : TotalWork[b] <= TotalWork[Main]

LEMMA HeaviestStep ==
  ASSUME IInv, RInv, Simulated, Heaviest, \A b \in Block : ~ActiveAt(VrfHeight, Height(b))
  PROVE  Heaviest'
  <1>1. Known \subseteq Block /\ Main \in Block
    <2>1. CoreInv /\ DOMAIN store \subseteq Block /\ Tip \in Block
      BY CoreTyped DEF IInv, CoreInv
    <2>2. Deciding => Last(op.before) \in Block
      <3> SUFFICES ASSUME Deciding PROVE Last(op.before) \in Block
        OBVIOUS
      <3>1. GoodChain(op.before)
        BY DecidingFacts
      <3>2. op.before \in Seq(Block) /\ Len(op.before) \in Nat \ {0}
        BY <3>1, ChainTyped DEF GoodChain
      <3>3. Len(op.before) \in 1..Len(op.before)
        BY <3>2
      <3> QED BY <3>2, <3>3 DEF Last
    <2> QED BY <2>1, <2>2 DEF Known, Main
  <1>2. CASE Stutter
    BY <1>2 DEF Stutter, Heaviest
  <1>3. ASSUME NEW b \in Block \ {Genesis}, Learns(b) PROVE Heaviest'
    <2>1. /\ Known' = Known \cup {b} /\ Parent[b] \in Known
          /\ Main' = IF Parent[b] = Main \/ Choice!Better(b, Main) THEN b ELSE Main
      BY <1>3 DEF Learns
    <2>2. Choice!Better(b, Main) <=> TotalWork[b] > TotalWork[Main]
      BY <1>1, ChoiceOperators
    <2>3. \A x \in Block : TotalWork[x] \in Nat
      BY WorkRec
    <2>4. TotalWork[b] = TotalWork[Parent[b]] + Body[b].work /\ Body[b].work \in Nat
      BY WorkRec, WorkAssumption
    <2>5. \A x \in Known : TotalWork[x] <= TotalWork[Main]
      BY DEF Heaviest
    <2>6. TotalWork[Main] <= TotalWork[Main'] /\ TotalWork[b] <= TotalWork[Main'] /\ Main' \in Block
      <3>1. CASE Parent[b] = Main
        BY <1>1, <2>1, <2>3, <2>4, <3>1
      <3>2. CASE Parent[b] # Main /\ TotalWork[b] > TotalWork[Main]
        BY <1>1, <2>1, <2>2, <2>3, <3>2
      <3>3. CASE Parent[b] # Main /\ ~(TotalWork[b] > TotalWork[Main])
        BY <1>1, <2>1, <2>2, <2>3, <3>3
      <3> QED BY <3>1, <3>2, <3>3
    <2>7. \A x \in Known : TotalWork[x] <= TotalWork[Main']
      BY <1>1, <2>3, <2>5, <2>6
    <2> QED BY <2>1, <2>6, <2>7 DEF Heaviest
  <1> QED BY <1>2, <1>3 DEF Simulated

(* The tip of a node at rest is the heaviest block it stores, when no block*)
(* of the tree is high enough for the VRF fork choice.                     *)
THEOREM HeaviestTip ==
  ASSUME \A b \in Block : ~ActiveAt(VrfHeight, Height(b))
  PROVE  Spec => []HeaviestStored
  <1>1. Init => RInv /\ Heaviest
    <2> SUFFICES ASSUME Init PROVE RInv /\ Heaviest
      OBVIOUS
    <2>1. RInv /\ Known = {Genesis} /\ Main = Genesis
      BY InitRefines
    <2>2. TotalWork[Genesis] \in Nat
      BY WorkRec, TreeAssumption
    <2> QED BY <2>1, <2>2 DEF Heaviest
  <1>2. IInv /\ RInv /\ Heaviest /\ [Next]_vars => RInv' /\ Heaviest'
    BY NextRefines, HeaviestStep
  <1>3. IInv /\ RInv /\ Heaviest => HeaviestStored
    <2> SUFFICES ASSUME IInv, RInv, Heaviest, op.pc = "idle", NEW b \in DOMAIN store
                 PROVE  store[b].work <= ledger.work
      BY DEF HeaviestStored
    <2>1. ~Deciding
      BY DEF Deciding
    <2>2. TotalWork[b] <= TotalWork[Tip]
      BY <2>1 DEF Heaviest, Known, Main
    <2>3. store[b] = [height |-> Height(b), work |-> TotalWork[b]]
      BY DEF RInv, IndexExact
    <2>4. store[b].work = TotalWork[b]
      BY <2>3
    <2>5. ledger.work = TotalWork[Tip]
      BY TipIndexed DEF IInv, RInv
    <2> QED BY <2>2, <2>4, <2>5
  <1> QED BY <1>1, <1>2, <1>3, Invariance, PTL DEF Spec

-----------------------------------------------------------------------------
(***************************************************************************)
(* Finality.  Below the hardening height a connected block finalizes its   *)
(* parent, so the watermark trails the tip by one and a reorganisation     *)
(* replaces the tip alone.  What a step does to chain, watermark and       *)
(* history is one of five things.                                          *)
(***************************************************************************)
(* The main chain of the last moment at which no reorganisation ran.       *)
Resting == IF Deciding THEN op.before ELSE chain

SameReorg == Reorganising /\ op'.before = op.before /\ op'.fork = op.fork

Connects == \E b \in Block \ {Genesis} : Connectable(b) /\ connect_block(b)

Quiet ==
  /\ UNCHANGED <<chain, finalized, sealed>>
  /\ Resting' = Resting
  /\ Reorganising' => StartReorg \/ SameReorg

Extends == ~Deciding /\ ~Deciding' /\ Connects /\ Sealing

MovesInReorg ==
  /\ sealed' = sealed /\ Reorganising' /\ SameReorg
  /\ Connects \/ (Len(chain) >= 2 /\ disconnect_tip_block)

(* The entry of process_block leaves the chain alone or extends it.        *)
LEMMA ProcessMoves ==
  ASSUME ~Deciding, NEW b \in Block \ {Genesis}, NEW frames, process_block(b, frames)
  PROVE  Quiet \/ Extends
  <1>1. ASSUME UNCHANGED core, ReturnErr(frames) PROVE Quiet
    <2>1. op'.pc \in {"idle", "drain"}
      BY <1>1, RestingOps DEF ReturnErr
    <2>2. ~Deciding' /\ ~Reorganising'
      BY <2>1 DEF Deciding, Reorganising
    <2> QED BY Zenon, <1>1, <2>2 DEF Quiet, Resting, core
  <1>2. CASE ParkOrphan(b, frames)
    BY Zenon, <1>1, <1>2 DEF ParkOrphan
  <1>3. CASE RejectEarly(b, frames)
    BY <1>1, <1>3 DEF RejectEarly
  <1>4. CASE RejectExtension(b, frames)
    BY <1>1, <1>4 DEF RejectExtension
  <1>5. CASE ExtendTip(b, frames)
    <2>1. Connectable(b) /\ connect_block(b) /\ Sealing /\ op' = Draining
      BY <1>5 DEF ExtendTip, StartDrain
    <2>2. ~Deciding'
      BY <2>1, RestingOps DEF Deciding
    <2> QED BY <2>1, <2>2 DEF Extends, Connects
  <1>6. CASE StoreSideBlock(b, frames)
    <2>1. UNCHANGED core /\ op' = [Idle EXCEPT !.pc = "walk", !.blk = b, !.before = chain]
      BY <1>6 DEF StoreSideBlock
    <2>2. op'.pc = "walk" /\ op'.before = chain
      BY <2>1 DEF Idle
    <2>3. Deciding' /\ ~Reorganising' /\ Resting' = chain /\ Resting = chain
      BY Zenon, <2>2 DEF Deciding, Reorganising, Resting
    <2> QED BY <2>1, <2>3 DEF Quiet, core
  <1> QED BY <1>2, <1>3, <1>4, <1>5, <1>6 DEF process_block

(* Before a reorganisation starts the old chain is in place.               *)
LEMMA UndecidedMoves ==
  ASSUME IInv, WalkBack \/ WalkDone \/ KeepTip \/ RefuseReorg \/ StartReorg
  PROVE  Quiet
  <1>1. op.pc \in {"walk", "decide"} /\ UNCHANGED <<chain, finalized, sealed>>
    BY Zenon DEF WalkBack, WalkDone, KeepTip, RefuseReorg, StartReorg, core
  <1>2. Deciding /\ chain = op.before /\ op \in OpType
    BY <1>1 DEF IInv, PhaseInv, RestInv, Deciding
  <1>3. CASE KeepTip \/ RefuseReorg
    <2>1. op'.pc \in {"idle", "drain"}
      BY <1>3, RestingOps DEF KeepTip, RefuseReorg, StartDrain, ReturnErr
    <2>2. ~Deciding' /\ ~Reorganising'
      BY <2>1 DEF Deciding, Reorganising
    <2> QED BY <1>1, <1>2, <2>2 DEF Quiet, Resting
  <1>4. CASE WalkBack \/ WalkDone
    <2>1. op'.pc \in {"walk", "decide"} /\ op'.before = op.before
      BY Zenon, <1>2, <1>4 DEF WalkBack, WalkDone, OpType
    <2>2. Deciding' /\ ~Reorganising'
      BY <2>1 DEF Deciding, Reorganising
    <2> QED BY Zenon, <1>1, <1>2, <2>1, <2>2 DEF Quiet, Resting
  <1>5. CASE StartReorg
    <2>1. op'.pc = "disconnect" /\ op'.before = op.before
      BY <1>2, <1>5 DEF StartReorg, OpType
    <2>2. Deciding'
      BY <2>1 DEF Deciding
    <2> QED BY <1>1, <1>2, <1>5, <2>1, <2>2 DEF Quiet, Resting
  <1> QED BY <1>3, <1>4, <1>5

(* Inside a reorganisation blocks are disconnected and connected.          *)
LEMMA ReorgMoves ==
  ASSUME IInv, DisconnectOld \/ ConnectNew \/ ConnectFails \/ UnwindNew \/ RestoreOld
  PROVE  Quiet \/ MovesInReorg
  <1>1. Reorganising /\ op \in OpType
    BY DEF DisconnectOld, ConnectNew, ConnectFails, UnwindNew, RestoreOld, Reorganising, IInv, RestInv
  <1>2. Reorganising' /\ op'.before = op.before /\ op'.fork = op.fork
    BY Zenon, <1>1 DEF DisconnectOld, ConnectNew, ConnectFails, UnwindNew, RestoreOld, Reorganising, OpType
  <1>3. SameReorg /\ Deciding /\ Deciding'
    BY <1>1, <1>2 DEF SameReorg, Reorganising, Deciding
  <1>4. CASE ConnectFails
    BY <1>2, <1>3, <1>4 DEF ConnectFails, Quiet, Resting, core
  <1>5. CASE DisconnectOld
    <2>1. Len(chain) \in Nat /\ op.fork \in Nat /\ op.fork + 1 < Len(chain)
      BY <1>3, <1>5, DecidingFacts DEF DisconnectOld, IInv, PhaseInv
    <2> QED BY <1>2, <1>3, <1>5, <2>1 DEF DisconnectOld, disconnect_tip_block, MovesInReorg
  <1>6. CASE UnwindNew
    <2>1. Len(chain) = op.fork + 1 + op.made /\ op.made >= 1
      BY <1>6, ConnectFacts DEF UnwindNew, IInv, PhaseInv
    <2>2. op.fork \in Nat /\ op.made \in Nat
      BY <1>1 DEF OpType
    <2> QED BY <1>2, <1>3, <1>6, <2>1, <2>2 DEF UnwindNew, disconnect_tip_block, MovesInReorg
  <1>7. CASE ConnectNew
    <2>1. op.branch[op.made + 1] \in Block \ {Genesis}
      BY <1>7, ConnectFacts DEF ConnectNew
    <2> QED BY <1>2, <1>3, <1>7, <2>1 DEF ConnectNew, MovesInReorg, Connects
  <1>8. CASE RestoreOld
    <2>1. Connectable(Last(op.old)) /\ Last(op.old) \in Block \ {Genesis}
      BY <1>8, RestoreConnects DEF RestoreOld
    <2>2. connect_block(Last(op.old)) /\ sealed' = sealed
      BY <1>8, <2>1 DEF RestoreOld
    <2> QED BY <1>2, <1>3, <2>1, <2>2 DEF MovesInReorg, Connects
  <1> QED BY <1>4, <1>5, <1>6, <1>7, <1>8

(* The five things a step may do.                                          *)
LEMMA NextMoves ==
  ASSUME IInv, [Next]_vars
  PROVE  Quiet \/ Extends \/ MovesInReorg \/ FinishReorg \/ AbandonReorg
  <1>1. CASE UNCHANGED vars
    BY <1>1 DEF vars, Quiet, Resting, Deciding, SameReorg, Reorganising
  <1>2. CASE \E b \in Block \ {Genesis} : ReceiveBlock(b) \/ SubmitBlock(b)
    <2>1. PICK b \in Block \ {Genesis} : ReceiveBlock(b) \/ SubmitBlock(b)
      BY <1>2
    <2>2. ~Deciding
      BY <2>1 DEF ReceiveBlock, SubmitBlock, Deciding
    <2>3. CASE ReceiveBlock(b)
      BY <2>2, <2>3, ProcessMoves DEF ReceiveBlock
    <2>4. CASE SubmitBlock(b)
      <3>1. Connectable(b) /\ connect_block(b) /\ Sealing /\ op' = op
        BY <2>4 DEF SubmitBlock
      <3> QED BY <2>2, <3>1 DEF Extends, Connects, Deciding
    <2> QED BY <2>1, <2>3, <2>4
  <1>3. CASE TakeDisplaced \/ clear_orphan_pool
    <2>1. op.pc = "idle" /\ UNCHANGED <<core, op>>
      BY <1>3 DEF TakeDisplaced, clear_orphan_pool
    <2> QED BY <2>1 DEF Quiet, Resting, Deciding, Reorganising, core
  <1>4. CASE DrainFetch \/ DrainReturn
    <2>1. op.pc = "drain" /\ UNCHANGED core
      BY <1>4 DEF DrainFetch, DrainReturn
    <2>2. op'.pc \in {"idle", "drain"}
      BY <1>4, <2>1, RestingOps DEF DrainFetch, DrainReturn
    <2> QED BY <2>1, <2>2 DEF Quiet, Resting, Deciding, Reorganising, core
  <1>5. CASE DrainChild
    <2>1. op.pc = "drain" /\ Frame.kids # <<>>
          /\ process_block(Head(Frame.kids), Append(Below, [Frame EXCEPT !.kids = Tail(@)]))
      BY <1>5 DEF DrainChild
    <2>2. ~Deciding /\ Frame \in FrameType
      BY <2>1, FrameFacts
    <2>3. Frame.kids \in Seq(Block \ {Genesis})
      BY <2>2 DEF FrameType
    <2>4. Head(Frame.kids) \in Block \ {Genesis}
      BY <2>1, <2>3
    <2> QED BY Zenon, <2>1, <2>2, <2>4, ProcessMoves
  <1> QED BY <1>1, <1>2, <1>3, <1>4, <1>5, UndecidedMoves, ReorgMoves DEF Next, Step

-----------------------------------------------------------------------------
(* No block of the tree is as high as the hardening height.                *)
BeforeHardening == \A b \in Block : ~ActiveAt(HardeningHeight, LedgerAt[b].height)

(* Where the rule is active the watermark trails the tip by one block.     *)
MarkTrails == ActiveAt(FinalityHeight, TipHeight) => finalized = SaturatingSub(TipHeight, 1)

(* Where the rule is active a reorganisation replaces the tip alone: the   *)
(* common ancestor is the tip's parent.                                    *)
TipOnlyReorgs ==
  Reorganising /\ ActiveAt(FinalityHeight, Len(op.before) - 1) => op.fork = Len(op.before) - 2

(* A connected block moves the watermark to its parent.                    *)
LEMMA ConnectMark ==
  ASSUME CoreInv, BeforeHardening, Connects
  PROVE  MarkTrails'
  <1>1. PICK b \in Block \ {Genesis} : Connectable(b) /\ connect_block(b)
    BY DEF Connects
  <1> DEFINE n == Len(chain)
  <1>2. n \in Nat \ {0} /\ finalized \in 0..(n - 1)
    BY CoreTyped DEF CoreInv
  <1>3. Len(chain') = n + 1 /\ ledger' = LedgerAt[b] /\ GoodLedger(ledger', n)
    BY Zenon, <1>1, ConnectEffect
  <1>4. ledger'.height = n /\ ~ActiveAt(HardeningHeight, ledger'.height)
    BY <1>3 DEF GoodLedger, BeforeHardening
  <1>5. finalized' = IF ActiveAt(FinalityHeight, n) /\ finalized < n - 1 THEN n - 1 ELSE finalized
    <2>1. finalized' = Watermark(ledger', b, finalized)
      BY Zenon, <1>1 DEF connect_block
    <2> QED BY <1>4, <2>1 DEF Watermark
  <1>6. TipHeight' = n
    BY <1>2, <1>3 DEF TipHeight
  <1>7. ActiveAt(FinalityHeight, n) => finalized' = n - 1
    BY <1>2, <1>5
  <1>8. SaturatingSub(n, 1) = n - 1
    BY <1>2 DEF SaturatingSub
  <1>9. (ActiveAt(FinalityHeight, TipHeight))' => ActiveAt(FinalityHeight, n)
    BY <1>6 DEF ActiveAt
  <1>10. (SaturatingSub(TipHeight, 1))' = SaturatingSub(n, 1)
    BY <1>6 DEF SaturatingSub
  <1> QED BY <1>7, <1>8, <1>9, <1>10 DEF MarkTrails

(* disconnect_tip_block moves the watermark back with the tip.             *)
LEMMA DisconnectMark ==
  ASSUME CoreInv, MarkTrails, Len(chain) >= 2, disconnect_tip_block
  PROVE  MarkTrails'
  <1> DEFINE n == Len(chain)
             cap == SaturatingSub(n - 1, 2)
  <1>1. n \in Nat /\ n >= 2 /\ FinalityHeight \in Nat
    BY CoreTyped, GateAssumption
  <1>2. Len(chain') = n - 1
    BY DisconnectKeepsCore
  <1>3. finalized' = IF finalized < cap THEN finalized ELSE cap
    BY DEF disconnect_tip_block, TipHeight
  <1>4. TipHeight = n - 1 /\ TipHeight' = n - 2
    BY <1>1, <1>2 DEF TipHeight
  <1>5. ActiveAt(FinalityHeight, n - 2) => ActiveAt(FinalityHeight, n - 1)
    BY <1>1 DEF ActiveAt
  <1>6. ActiveAt(FinalityHeight, n - 1) => finalized = n - 2
    BY <1>1, <1>4 DEF MarkTrails, SaturatingSub
  <1>7. cap <= n - 2 /\ cap \in Nat /\ cap = SaturatingSub(n - 2, 1)
    BY <1>1 DEF SaturatingSub
  <1> HIDE DEF cap
  <1>8. ActiveAt(FinalityHeight, n - 2) => finalized' = cap
    BY <1>1, <1>3, <1>5, <1>6, <1>7
  <1>9. (ActiveAt(FinalityHeight, TipHeight))' => ActiveAt(FinalityHeight, n - 2)
    BY <1>4 DEF ActiveAt
  <1>10. (SaturatingSub(TipHeight, 1))' = SaturatingSub(n - 2, 1)
    BY <1>4 DEF SaturatingSub
  <1> QED BY <1>7, <1>8, <1>9, <1>10 DEF MarkTrails

(* A step keeps both.                                                      *)
LEMMA FinalityStep ==
  ASSUME IInv, BeforeHardening, MarkTrails, TipOnlyReorgs, [Next]_vars
  PROVE  MarkTrails' /\ TipOnlyReorgs'
  <1>1. CoreInv /\ Len(chain) \in Nat \ {0} /\ op \in OpType
    BY CoreTyped DEF IInv, RestInv
  <1>2. CASE Quiet
    <2>1. MarkTrails'
      BY <1>2 DEF Quiet, MarkTrails, TipHeight
    <2>2. CASE StartReorg
      <3>1. op.pc = "decide" /\ finalized <= op.fork /\ op'.before = op.before /\ op'.fork = op.fork
        BY <1>1, <2>2 DEF StartReorg, ReorgAllowed, OpType
      <3>2. chain = op.before /\ op.fork + 1 < Len(op.before) /\ op.fork \in Nat
        BY <1>1, <3>1, DecideFacts DEF ForkInv, OpType
      <3>3. ActiveAt(FinalityHeight, Len(op.before) - 1) => finalized = Len(op.before) - 2
        BY <1>1, <3>2 DEF MarkTrails, TipHeight, SaturatingSub
      <3>4. ActiveAt(FinalityHeight, Len(op.before) - 1) => op.fork = Len(op.before) - 2
        BY <1>1, <3>1, <3>2, <3>3
      <3> QED BY <2>1, <3>1, <3>4 DEF TipOnlyReorgs
    <2>3. CASE ~StartReorg
      BY <1>2, <2>1, <2>3 DEF Quiet, TipOnlyReorgs, SameReorg
    <2> QED BY <2>2, <2>3
  <1>3. CASE Extends
    BY <1>1, <1>3, ConnectMark DEF Extends, TipOnlyReorgs, Reorganising, Deciding
  <1>4. CASE MovesInReorg
    <2>1. TipOnlyReorgs'
      BY <1>4 DEF MovesInReorg, SameReorg, TipOnlyReorgs
    <2> QED BY <1>1, <1>4, <2>1, ConnectMark, DisconnectMark DEF MovesInReorg
  <1>5. CASE FinishReorg
    <2>1. Connectable(op.blk) /\ connect_block(op.blk) /\ op' = Draining /\ Deciding
      BY <1>5 DEF FinishReorg, StartDrain, Deciding
    <2>2. op.blk \in Block \ {Genesis}
      BY Zenon, <2>1, DecidingFacts
    <2>3. ~Reorganising'
      BY <2>1, RestingOps DEF Reorganising
    <2> QED BY <1>1, <2>1, <2>2, <2>3, ConnectMark DEF Connects, TipOnlyReorgs
  <1>6. CASE AbandonReorg
    <2>1. UNCHANGED <<chain, finalized>> /\ op'.pc \in {"idle", "drain"}
      BY <1>6, RestingOps DEF AbandonReorg, ReturnErr
    <2>2. ~Reorganising'
      BY <2>1 DEF Reorganising
    <2> QED BY <2>1, <2>2 DEF MarkTrails, TipHeight, TipOnlyReorgs
  <1> QED BY <1>2, <1>3, <1>4, <1>5, <1>6, NextMoves

(* The watermark and the depth of reorganisations, in every state.         *)
LEMMA FinalityInvariant ==
  ASSUME BeforeHardening
  PROVE  Spec => [](IInv /\ MarkTrails /\ TipOnlyReorgs)
  <1>1. Init => MarkTrails /\ TipOnlyReorgs
    <2> SUFFICES ASSUME Init PROVE MarkTrails /\ TipOnlyReorgs
      OBVIOUS
    <2>1. Len(chain) = 1 /\ finalized = 0 /\ op.pc = "idle"
      BY DEF Init, Idle
    <2>2. TipHeight = 0
      BY <2>1 DEF TipHeight
    <2> QED BY <2>1, <2>2 DEF MarkTrails, TipOnlyReorgs, Reorganising, SaturatingSub
  <1>2. IInv /\ MarkTrails /\ TipOnlyReorgs /\ [Next]_vars => MarkTrails' /\ TipOnlyReorgs'
    BY FinalityStep
  <1> QED BY <1>1, <1>2, InitInv, NextInv, PTL DEF Spec

(* Below the hardening height, once the finality rule is active,           *)
(* reorg_to_tip never replaces more than the tip, whatever blocks arrive   *)
(* and fail.                                                               *)
THEOREM ReorgsReplaceTip ==
  ASSUME BeforeHardening
  PROVE  Spec => []TipOnlyReorgs
  BY FinalityInvariant, PTL

(* The watermark a replay computes for a chain on which the rule is active.*)
LEMMA ReplayMark ==
  ASSUME CoreInv, BeforeHardening, ActiveAt(FinalityHeight, TipHeight)
  PROVE  Max({0} \cup {i - 2 : i \in {j \in 2..Len(chain) :
              Watermark(LedgerAt[chain[j]], chain[j], 0) = j - 2}}) = SaturatingSub(TipHeight, 1)
  <1> DEFINE n == Len(chain)
             J == {j \in 2..n : Watermark(LedgerAt[chain[j]], chain[j], 0) = j - 2}
             S == {0} \cup {i - 2 : i \in J}
             m == SaturatingSub(n - 1, 1)
  <1>1. n \in Nat \ {0} /\ GoodChain(chain) /\ TipHeight = n - 1
    BY CoreTyped DEF CoreInv, TipHeight
  <1>2. m = (IF n >= 2 THEN n - 2 ELSE 0) /\ m \in Nat
    BY <1>1 DEF SaturatingSub
  <1>3. ASSUME n >= 2 PROVE n - 2 \in S
    <2>1. n \in 2..n /\ n \in 1..n
      BY <1>1, <1>3
    <2>2. chain[n] \in Block /\ LedgerAt[chain[n]].height = n - 1
      BY Zenon, <1>1, <2>1, ChainTyped DEF GoodChain, GoodLedger
    <2>3. ~ActiveAt(HardeningHeight, n - 1) /\ ActiveAt(FinalityHeight, n - 1)
      BY <1>1, <2>2 DEF BeforeHardening
    <2>4. Watermark(LedgerAt[chain[n]], chain[n], 0) = IF 0 < (n - 1) - 1 THEN (n - 1) - 1 ELSE 0
      BY Zenon, <2>2, <2>3 DEF Watermark
    <2>5. Watermark(LedgerAt[chain[n]], chain[n], 0) = n - 2
      BY <1>1, <1>3, <2>4
    <2>6. n \in J
      BY <2>1, <2>5
    <2> HIDE DEF J, m
    <2> QED BY <2>6
  <1>4. m \in S
    <2>1. CASE n < 2
      BY <1>1, <1>2, <2>1
    <2> HIDE DEF S, m
    <2>2. (m = n - 2 /\ n - 2 \in S) \/ n < 2
      <3>1. CASE n >= 2
        BY <1>2, <1>3, <3>1
      <3> QED BY <1>1, <3>1
    <2> QED BY <2>1, <2>2
  <1>5. \A x \in S : x \in Int /\ x <= m
    <2>1. \A j \in J : j \in Nat /\ 2 <= j /\ j <= n
      BY <1>1
    <2> HIDE DEF J, m
    <2>2. \A j \in J : j - 2 \in Int /\ j - 2 <= m
      BY <1>1, <1>2, <2>1
    <2> QED BY <1>2, <2>2
  <1> HIDE DEF S, m
  <1>6. Max(S) = m
    <2>1. Max(S) = CHOOSE x \in S : \A y \in S : x >= y
      BY DEF Max
    <2>2. \A y \in S : m >= y
      BY <1>2, <1>5
    <2>3. Max(S) \in S /\ \A y \in S : Max(S) >= y
      BY <1>4, <2>1, <2>2
    <2>4. Max(S) >= m
      BY <1>4, <2>3
    <2>5. Max(S) \in Int /\ Max(S) <= m
      BY <1>5, <2>3
    <2> QED BY <1>2, <2>4, <2>5
  <1>7. SaturatingSub(TipHeight, 1) = m
    BY <1>1 DEF m
  <1> QED BY <1>6, <1>7 DEF S

(* Once the rule is active the watermark is the one a replay of the main   *)
(* chain computes, whatever was disconnected, connected or rolled back on  *)
(* the way: a restart protects the same blocks.                            *)
THEOREM WatermarkExact ==
  ASSUME BeforeHardening
  PROVE  Spec => [](ActiveAt(FinalityHeight, TipHeight) => WatermarkIsReplay)
  <1>1. IInv /\ MarkTrails => (ActiveAt(FinalityHeight, TipHeight) => WatermarkIsReplay)
    BY ReplayMark DEF IInv, MarkTrails, WatermarkIsReplay
  <1> QED BY <1>1, FinalityInvariant, PTL

-----------------------------------------------------------------------------
(* The finality rule holds from the first block on.                        *)
FinalityFromStart == ActiveAt(FinalityHeight, 1)

(* What was ever finalized is below the tip of the resting chain.          *)
SealedBelowTip ==
  \A b \in sealed : \E i \in 1..Len(Resting) : Resting[i] = b /\ i - 1 <= SaturatingSub(Len(Resting) - 1, 1)

(* A step after which no reorganisation runs keeps what was finalized when *)
(* the new chain agrees with the old one below its tip.                    *)
LEMMA SealStep ==
  ASSUME SealedBelowTip, CoreInv', MarkTrails', FinalityFromStart, ~Deciding', Sealing,
         Len(Resting) \in Nat \ {0}, Len(chain') >= Len(Resting),
         \A i \in 1..Len(Resting) : i - 1 <= SaturatingSub(Len(Resting) - 1, 1) => chain'[i] = Resting[i]
  PROVE  SealedBelowTip'
  <1> DEFINE n == Len(chain')
             m == Len(Resting)
  <1>1. n \in Nat \ {0} /\ DOMAIN chain' = 1..n
    BY ChainTyped DEF CoreInv
  <1>2. Resting' = chain'
    BY DEF Resting
  <1>3. finalized' <= SaturatingSub(n - 1, 1) /\ finalized' \in Int
    <2>1. finalized' \in 0..(n - 1)
      BY DEF CoreInv
    <2>2. CASE n = 1
      BY <2>1, <2>2 DEF SaturatingSub
    <2>3. CASE n >= 2
      <3>1. (ActiveAt(FinalityHeight, TipHeight))'
        BY <1>1, <2>3, GateAssumption DEF ActiveAt, FinalityFromStart, TipHeight
      <3>2. finalized' = (SaturatingSub(TipHeight, 1))'
        BY <3>1 DEF MarkTrails
      <3> QED BY <1>1, <2>1, <3>2 DEF TipHeight, SaturatingSub
    <2> QED BY <1>1, <2>2, <2>3
  <1>4. SaturatingSub(m - 1, 1) <= SaturatingSub(n - 1, 1) /\ SaturatingSub(m - 1, 1) \in Nat
        /\ SaturatingSub(n - 1, 1) \in Nat
    BY <1>1 DEF SaturatingSub
  <1>5. ASSUME NEW b \in sealed'
        PROVE  \E i \in 1..n : chain'[i] = b /\ i - 1 <= SaturatingSub(n - 1, 1)
    <2>1. CASE b \in sealed
      <3>1. PICK i \in 1..m : Resting[i] = b /\ i - 1 <= SaturatingSub(m - 1, 1)
        BY <2>1 DEF SealedBelowTip
      <3>2. i \in 1..n /\ chain'[i] = b
        BY <1>1, <3>1
      <3> QED BY <1>4, <3>1, <3>2
    <2>2. CASE b \notin sealed
      <3>1. PICK i \in DOMAIN chain' : b = chain'[i] /\ i - 1 <= finalized'
        BY <2>2 DEF Sealing
      <3> QED BY <1>1, <1>3, <1>4, <3>1
    <2> QED BY <2>1, <2>2
  <1> QED BY <1>2, <1>5 DEF SealedBelowTip

(* ExtendTip and SubmitBlock keep it: the chain only grows.                *)
LEMMA ExtendSeals ==
  ASSUME IInv, IInv', MarkTrails', FinalityFromStart, SealedBelowTip, Extends
  PROVE  SealedBelowTip'
  <1>1. PICK b \in Block \ {Genesis} : Connectable(b) /\ connect_block(b)
    BY DEF Extends, Connects
  <1>2. CoreInv /\ CoreInv' /\ Len(chain) \in Nat \ {0}
    BY CoreTyped DEF IInv
  <1>3. Len(chain') = Len(chain) + 1 /\ \A i \in 1..Len(chain) : chain'[i] = chain[i]
    BY Zenon, <1>1, <1>2, ConnectEffect
  <1>4. Resting = chain /\ ~Deciding' /\ Sealing
    BY DEF Resting, Extends
  <1>5. Len(chain') >= Len(chain)
    BY <1>2, <1>3
  <1> QED BY <1>2, <1>3, <1>4, <1>5, SealStep

(* A reorganisation that succeeds keeps it: the new chain agrees with the  *)
(* old one up to the tip's parent, and is no shorter.                      *)
LEMMA FinishSeals ==
  ASSUME IInv, IInv', MarkTrails', TipOnlyReorgs, FinalityFromStart, SealedBelowTip, FinishReorg
  PROVE  SealedBelowTip'
  <1> DEFINE m == Len(op.before)
  <1>1. op.pc = "connect" /\ Connectable(op.blk) /\ connect_block(op.blk) /\ Sealing /\ op' = Draining
    BY DEF FinishReorg, StartDrain
  <1>2. /\ Deciding /\ ForkInv /\ Peeled(op.fork + 1) /\ Len(chain) = op.fork + 1 + op.made
    BY Zenon, <1>1, ConnectFacts
  <1>3. /\ CoreInv /\ CoreInv' /\ m \in Nat \ {0} /\ op.fork \in Nat /\ op.made \in Nat
        /\ op.blk \in Block \ {Genesis} /\ Len(chain) \in Nat
    BY Zenon, <1>2, DecidingFacts DEF IInv
  <1>4. Len(chain') = Len(chain) + 1 /\ \A i \in 1..Len(chain) : chain'[i] = chain[i]
    BY Zenon, <1>1, <1>3, ConnectEffect
  <1>5. op.fork + 1 < m
    BY <1>2 DEF ForkInv
  <1>6. op.fork = m - 2
    <2>1. ActiveAt(FinalityHeight, m - 1)
      BY <1>3, <1>5, GateAssumption DEF ActiveAt, FinalityFromStart
    <2>2. Reorganising
      BY <1>1 DEF Reorganising
    <2> QED BY <2>1, <2>2 DEF TipOnlyReorgs
  <1>7. \A i \in 1..(op.fork + 1) : chain[i] = op.before[i]
    BY <1>2 DEF Peeled
  <1>8. Resting = op.before /\ ~Deciding'
    BY <1>1, <1>2, RestingOps DEF Resting, Deciding
  <1>9. Len(chain') >= m
    BY <1>2, <1>3, <1>4, <1>6
  <1>10. ASSUME NEW i \in 1..m, i - 1 <= SaturatingSub(m - 1, 1)
         PROVE  chain'[i] = op.before[i]
    <2>1. i \in 1..(op.fork + 1) /\ i \in 1..Len(chain)
      BY <1>2, <1>3, <1>5, <1>6, <1>10 DEF SaturatingSub
    <2> QED BY <1>4, <1>7, <2>1
  <1> QED BY <1>1, <1>3, <1>8, <1>9, <1>10, SealStep

(* A reorganisation that fails keeps it: the old chain is back.            *)
LEMMA AbandonSeals ==
  ASSUME IInv, IInv', MarkTrails', FinalityFromStart, SealedBelowTip, AbandonReorg
  PROVE  SealedBelowTip'
  <1>1. op.pc = "restore" /\ op.old = <<>> /\ Sealing /\ chain' = chain /\ ReturnErr(stack)
    BY DEF AbandonReorg
  <1>2. Deciding /\ chain = op.before
    BY <1>1, RestoredChain
  <1>3. CoreInv' /\ Len(chain) \in Nat \ {0}
    BY CoreTyped DEF IInv
  <1>4. op'.pc \in {"idle", "drain"}
    BY <1>1, RestingOps DEF ReturnErr
  <1>5. Resting = chain /\ ~Deciding'
    BY <1>2, <1>4 DEF Resting, Deciding
  <1> QED BY <1>1, <1>3, <1>5, SealStep

(* A finalized block stays on the main chain (FinalizedStays) where the    *)
(* finality rule holds from the first block on and the hardening height is *)
(* not reached: reorg_to_tip's checkpoint protects it although             *)
(* disconnect_tip_block lowers the watermark.                              *)
THEOREM FinalizedBlocksStay ==
  ASSUME BeforeHardening, FinalityFromStart
  PROVE  Spec => []FinalizedStays
  <1>1. Init => SealedBelowTip
    <2> SUFFICES ASSUME Init PROVE SealedBelowTip
      OBVIOUS
    <2>1. chain = <<Genesis>> /\ sealed = {Genesis} /\ op.pc = "idle"
      BY DEF Init, Idle
    <2>2. Resting = chain /\ Len(chain) = 1 /\ chain[1] = Genesis
      BY <2>1 DEF Resting, Deciding
    <2>3. 1 \in 1..1 /\ 1 - 1 <= SaturatingSub(1 - 1, 1)
      BY DEF SaturatingSub
    <2> QED BY <2>1, <2>2, <2>3 DEF SealedBelowTip
  <1>2. IInv /\ TipOnlyReorgs /\ SealedBelowTip /\ [Next]_vars /\ IInv' /\ MarkTrails' => SealedBelowTip'
    <2> SUFFICES ASSUME IInv, TipOnlyReorgs, SealedBelowTip, [Next]_vars, IInv', MarkTrails'
                 PROVE  SealedBelowTip'
      OBVIOUS
    <2>1. ASSUME sealed' = sealed, Resting' = Resting PROVE SealedBelowTip'
      BY <2>1 DEF SealedBelowTip
    <2>2. CASE Quiet
      BY <2>1, <2>2 DEF Quiet
    <2>3. CASE MovesInReorg
      <3>1. Deciding /\ Deciding' /\ op'.before = op.before /\ sealed' = sealed
        BY <2>3 DEF MovesInReorg, SameReorg, Reorganising, Deciding
      <3> QED BY <2>1, <3>1 DEF Resting
    <2> QED BY <2>2, <2>3, NextMoves, ExtendSeals, FinishSeals, AbandonSeals
  <1>3. SealedBelowTip /\ IInv => FinalizedStays
    <2> SUFFICES ASSUME SealedBelowTip, IInv, op.pc = "idle", NEW b \in sealed PROVE OnMainChain(b)
      BY DEF FinalizedStays
    <2>1. Resting = chain
      BY DEF Resting, Deciding
    <2>2. PICK i \in 1..Len(chain) : chain[i] = b
      BY <2>1 DEF SealedBelowTip
    <2>3. DOMAIN chain = 1..Len(chain)
      BY CoreTyped DEF IInv
    <2> QED BY <2>2, <2>3 DEF OnMainChain
  <1> QED BY <1>1, <1>2, <1>3, FinalityInvariant, PTL DEF Spec
=============================================================================
