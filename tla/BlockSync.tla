----------------------------- MODULE BlockSync -----------------------------
(* Header-first block synchronisation of one node with one peer: the header *)
(* tree and the block store of ChainState (chain.rs), and the handlers,     *)
(* ticks and heartbeats of p2p.rs and iriumd.rs that decide what to ask for.*)
(*                                                                          *)
(* A request has no effect on the peer, so it is answered where it is sent: *)
(* `net` holds the answers on their way back, and a lost connection loses   *)
(* them.  Cooldowns, recent-request caches and rate limits appear as        *)
(* requests that may or may not go out; the fairness of Spec says that none *)
(* of them refuses for ever.  One answer of each kind is in flight at a     *)
(* time, as the cooldowns make it.  Every block carries the same work, so   *)
(* the heaviest chain is the longest one.                                   *)
EXTENDS Integers, FiniteSets, Sequences

CONSTANTS
    Block,        \* the blocks of the tree
    Genesis,      \* its root
    Prev,         \* parent of every block but the root
    Zero,         \* the all-zero hash
    Starts,       \* the node at the start: tip, side blocks, gate, faults to come
    PeerStarts,   \* the peer's tip at the start
    MaxHeaders,   \* MAX_HEADERS_PER_REQUEST
    MaxBlocks,    \* MAX_BLOCKS_PER_REQUEST
    StoreWindow,  \* block_store_window()
    HeaderWindow, \* header_cache_window()
    MaxOrphans,   \* MAX_ORPHAN_BLOCKS
    MaxReorg,     \* max_reorg_depth()
    MaxRewind,    \* cap of headers_recovery_exp
    StallDelta    \* sync_stall_ahead_delta()

VARIABLES
    node,         \* ChainState: tip, block_store, heights, headers, orphan_pool
    peer,         \* what the node remembers of the session (PeerSyncState)
    net,          \* in flight: a batch of headers, a run of blocks
    peerTip,      \* the peer's best block
    hard,         \* fork_choice_hardening_active
    faults        \* bound: late answers and lost connections to come

vars == <<node, peer, net, peerTip, hard, faults>>

ASSUME BoundsAssumption ==
    /\ MaxBlocks \in Nat \ {0}
    /\ MaxHeaders \in Nat \ {0}
    /\ StoreWindow > 0 /\ HeaderWindow > 0 /\ MaxReorg > 0
    /\ MaxRewind > 0 /\ 2^MaxRewind < MaxHeaders

----------------------------------------------------------------------------
(* The tree, and a node's view of it                                        *)

\* The chain that ends in a block, genesis first.
ChainTo[b \in Block] == IF b = Genesis THEN <<b>> ELSE Append(ChainTo[Prev[b]], b)
Chain == [b \in Block |-> ChainTo[b]]

\* The block's height, which is also its cumulative work.
Depth == [b \in Block |-> Len(Chain[b]) - 1]
Anc == [b \in Block |-> {Chain[b][i] : i \in 1..Len(Chain[b])}]

TipHeight(n) == Depth[n.tip]
Known(n) == DOMAIN n.heights \cup DOMAIN n.headers
HeightOf(n, b) == IF b \in DOMAIN n.heights THEN n.heights[b] ELSE n.headers[b]
With(f, b, h) == [x \in DOMAIN f \cup {b} |-> IF x = b THEN h ELSE f[x]]
Only(f, S) == [x \in DOMAIN f \cap S |-> f[x]]

\* The height index leads to the block on the active chain.
is_connected_chain_hash(n, b) ==
    /\ b \in DOMAIN n.heights
    /\ n.heights[b] <= TipHeight(n)
    /\ Chain[n.tip][n.heights[b] + 1] = b

\* The ancestors of b above j: the part a walk from b down to j visits.
Above(b, j) == {x \in Anc[b] : Depth[x] > Depth[j]}

\* Where the header path of b leaves the active chain; empty when a link is
\* not in the header tree.
header_path_to_known(n, b) ==
    {j \in Anc[b] : /\ is_connected_chain_hash(n, j)
                    /\ \A x \in Above(b, j) : /\ ~is_connected_chain_hash(n, x)
                                              /\ x \in DOMAIN n.headers}

\* No reorganisation may fork below this height.
Floor(n) == IF TipHeight(n) > MaxReorg THEN TipHeight(n) - MaxReorg ELSE 0

\* The active block at which b's branch rejoins, when it does so at or above
\* the floor.
header_fork_ancestor(n, b) ==
    {j \in Anc[b] : /\ is_connected_chain_hash(n, j)
                    /\ n.heights[j] >= Floor(n)
                    /\ \A x \in Above(b, j) : /\ ~is_connected_chain_hash(n, x)
                                              /\ x \in DOMAIN n.headers \cup n.store
                                              /\ HeightOf(n, x) > Floor(n)}

\* The heaviest headers that beat the tip (hash-map order picks among equals),
\* under hardening only those the node could still adopt.
best_header_if_better(n) ==
    LET better == {b \in DOMAIN n.headers :
                     /\ Depth[b] > TipHeight(n)
                     /\ hard => header_fork_ancestor(n, b) # {}}
    IN  {b \in better : \A c \in better : Depth[c] <= Depth[b]}

best_header_height(n) ==
    LET best == best_header_if_better(n)
    IN  IF best = {} THEN TipHeight(n) ELSE n.headers[CHOOSE b \in best : TRUE]

----------------------------------------------------------------------------
(* ChainState: headers, blocks, orphans, pruning                            *)

add_header(n, b) ==
    IF Prev[b] \notin Known(n) \/ b \in Known(n) THEN n
    ELSE [n EXCEPT !.headers = With(@, b, HeightOf(n, Prev[b]) + 1)]

RECURSIVE AddHeaders(_, _)
AddHeaders(n, hs) ==
    IF hs = <<>> THEN n ELSE AddHeaders(add_header(n, Head(hs)), Tail(hs))

\* Old headers go.
prune_headers(n) ==
    LET h == TipHeight(n)
        young == {b \in DOMAIN n.headers : n.headers[b] >= h - HeaderWindow}
    IN  [n EXCEPT !.headers = IF h <= HeaderWindow THEN @ ELSE Only(@, young)]

\* Active blocks at or below the height.
Buried(n, h) == {b \in n.store : n.heights[b] <= h /\ is_connected_chain_hash(n, b)}

\* Faulty variant: the window is one block short.
prune_one_more(n) ==
    LET h == TipHeight(n)
    IN  [prune_headers(n) EXCEPT
          !.store = IF h <= StoreWindow THEN @ ELSE @ \ Buried(n, h - StoreWindow + 1)]

\* Active blocks that fell out of the window leave the store; side blocks stay.
prune_caches(n) ==
    LET h == TipHeight(n)
    IN  [prune_headers(n) EXCEPT
          !.store = IF h <= StoreWindow THEN @ ELSE @ \ Buried(n, h - StoreWindow)]

\* The height under which a block is stored: one above its parent's entry, and
\* one for genesis, which has no parent to look up.
StoredHeight(n, b) == IF b = Genesis THEN 1 ELSE n.heights[Prev[b]] + 1

\* Depth of the reorganisation that would make b the tip.
ReorgDepth(n, b) == Cardinality(Anc[n.tip] \ Anc[b])

Filed(n, b) ==
    [n EXCEPT !.store = @ \cup {b}, !.heights = With(@, b, StoredHeight(n, b))]

\* Faulty variant: a duplicate is filed again.
PlaceAgain(n, b) ==
    IF Depth[b] <= TipHeight(n) THEN Filed(n, b) ELSE [Filed(n, b) EXCEPT !.tip = b]

\* process_block for a block whose parent is stored, up to the orphans: a
\* duplicate, a child of the tip, a side block, a refused and a made
\* reorganisation.
Place(n, b) ==
    IF b \in n.store THEN n
    ELSE IF Prev[b] = n.tip THEN [Filed(n, b) EXCEPT !.tip = b]
    ELSE IF Depth[b] <= TipHeight(n) THEN Filed(n, b)
    ELSE IF hard /\ ReorgDepth(n, b) > MaxReorg
         THEN [n EXCEPT !.heights = Only(@, Block \ {b})]
    ELSE [Filed(n, b) EXCEPT !.tip = b]

\* Only orphans of the new tip are taken up.
RECURSIVE DrainOrphans(_)
DrainOrphans(n) ==
    LET kids == {o \in n.orphans : Prev[o] = n.tip}
    IN  IF kids = {} THEN prune_caches(n)
        ELSE LET o == CHOOSE o \in kids : TRUE
             IN  DrainOrphans(Place([n EXCEPT !.orphans = @ \ {o}], o))

IsOrphan(n, b) == b # Genesis /\ Prev[b] \notin n.store

\* Faulty variant: the pool is not cut back.
PoolUnbounded(n, b) == {n.orphans \cup {b}}

\* The pool drops whole families, in hash-map order, until it fits.
PoolWith(n, b) ==
    LET pool == n.orphans \cup {b}
        keep(F) == {o \in pool : Prev[o] \notin F}
        families == {Prev[o] : o \in pool}
    IN  IF Cardinality(pool) <= MaxOrphans THEN {pool}
        ELSE {keep(F) : F \in {{f} : f \in families}}

\* An orphan, a duplicate and a refusal return before the orphans are looked at.
process_block(n, b) ==
    IF IsOrphan(n, b) THEN {[n EXCEPT !.orphans = p] : p \in PoolWith(n, b)}
    ELSE LET p == Place(n, b)
         IN  {IF b \in p.store \ n.store THEN DrainOrphans(p) ELSE p}

----------------------------------------------------------------------------
(* The peer's side: what it answers from its active chain                   *)

Min(a, b) == IF a < b THEN a ELSE b
Max(a, b) == IF a > b THEN a ELSE b
Slice(from, count) ==
    SubSeq(Chain[peerTip], from, Min(from + count - 1, Len(Chain[peerTip])))
PosInPeer(start) == Depth[start] + 1

\* GetHeaders: after the start, after genesis for the zero hash, and nothing
\* when the start is not on the peer's chain.
ServeHeaders(start) ==
    IF start = Zero THEN Slice(2, MaxHeaders)
    ELSE IF start \in Anc[peerTip] THEN Slice(PosInPeer(start) + 1, MaxHeaders)
    ELSE <<>>

\* GetBlocks: the same, but genesis itself for the zero hash and the child of
\* genesis for a start that is not on the peer's chain.
ServeBlocks(start, count) ==
    LET from == IF start = Zero THEN 1
                ELSE IF start \in Anc[peerTip] THEN PosInPeer(start) + 1
                ELSE 2
    IN  Slice(from, Min(count, MaxBlocks))

----------------------------------------------------------------------------
(* The node's requests.  An outcome is the session state a handler leaves   *)
(* and the answers its requests will get.                                   *)

NoSession == [height |-> -1, tip |-> Zero, shaken |-> -1, open |-> FALSE,
              waiting |-> FALSE]

Quiet(p) == [peer |-> p, headers |-> {}, run |-> <<>>]

\* A GetHeaders opens the response window; one from a hash may be repeated by
\* the fallback until it is answered.
AskHeaders(o, start) ==
    [o EXCEPT !.peer.open = TRUE, !.peer.waiting = (start # Zero),
              !.headers = @ \cup {ServeHeaders(start)}]
AskBlocks(o, start, count) == [o EXCEPT !.run = ServeBlocks(start, count)]

\* Faulty variant: never trusted above the headers checked.
trusted_always_capped(h, best, local) == Min(Max(h, local), Max(best, local))

\* A peer's height is trusted up to the headers the node has checked, and in
\* full when it has none above its tip.
trusted_remote_height(h, best, local) ==
    IF best > local THEN Min(Max(h, local), best) ELSE Max(h, local)

maybe_request_sync(n, o) ==
    LET p == o.peer
        local == TipHeight(n)
        best == best_header_height(n)
        mismatch == p.height = local /\ p.tip \notin {Zero, n.tip}
        start == IF local = 0 \/ mismatch THEN Zero ELSE n.tip
        asked == {o, AskHeaders(o, start)}
    IN  IF \/ p.height = -1
           \/ p.height < local
           \/ ~mismatch /\ (p.height = local \/ best <= local)
        THEN {o}
        ELSE asked \cup {AskBlocks(a, start, MaxBlocks) : a \in asked}

\* From a block some way below the tip, so that the range reaches over a fork.
rewinded_getblocks_request(n, h) ==
    LET local == TipHeight(n)
        ahead == h - local
        rewind == Min(IF ahead < MaxBlocks THEN MaxBlocks - ahead
                      ELSE MaxBlocks \div 2, local)
    IN  IF h <= local THEN {}
        ELSE {<<Chain[n.tip][local - rewind + 1], Min(ahead + rewind, MaxBlocks)>>}

\* The blocks asked for after a batch of headers: along the best header's path
\* when it reaches the active chain, from a rewound tip otherwise.
BlockRequests(n, h) ==
    LET best == best_header_if_better(n)
        along(b) == {<<j, Min(Depth[b] - Depth[j], MaxBlocks)>> :
                       j \in header_path_to_known(n, b)}
        rewound == rewinded_getblocks_request(n, h)
        fromTip(b) == {<<n.tip, Min(n.headers[b] - TipHeight(n), MaxBlocks)>>}
    IN  IF best = {} THEN rewound
        ELSE UNION {IF along(b) # {} THEN along(b)
                    ELSE IF rewound # {} THEN rewound
                    ELSE fromTip(b) : b \in best}

\* What follows an orphan: the node and the outcome.
request_orphan_headers(n, o, parent) ==
    LET ancestor == header_fork_ancestor(n, parent)
        zero == AskHeaders(o, Zero)
        kept == {x \in n.orphans : header_fork_ancestor(n, Prev[x]) # {}}
        bodies == {AskBlocks([o EXCEPT !.peer.open = TRUE], j,
                             Max(1, HeightOf(n, parent) - n.heights[j])) : j \in ancestor}
        class == IF parent \notin Known(n) THEN {zero} ELSE bodies
        start == IF parent \in DOMAIN n.heights THEN parent ELSE Zero
    IN  IF hard
        THEN {n, [n EXCEPT !.orphans = kept]} \X ({o} \cup class)
        ELSE {<<n, o>>, <<n, AskHeaders(o, start)>>}
             \cup IF start = Zero THEN {<<[n EXCEPT !.orphans = {}], zero>>} ELSE {}

----------------------------------------------------------------------------
(* Actions                                                                  *)

Nothing == [headers |-> {}, run |-> <<>>]

Init ==
    /\ \E s \in Starts :
         LET held == Anc[s.tip] \cup s.side
         IN  /\ node = prune_caches([tip |-> s.tip, store |-> held,
                                  heights |-> [b \in held |-> Depth[b]],
                                  headers |-> [b \in {} |-> 0], orphans |-> {}])
             /\ hard = s.hard
             /\ faults = s.faults
    /\ peer = NoSession
    /\ net = Nothing
    /\ peerTip \in PeerStarts

\* Leave `rest` in flight and send what the outcome asks for.
Send(o, rest) ==
    /\ rest = Nothing \/ (o.headers = {} /\ o.run = <<>>)
    /\ Cardinality(o.headers) <= 1
    /\ peer' = o.peer
    /\ net' = [rest EXCEPT !.headers = @ \cup o.headers, !.run = @ \o o.run]

\* A late answer or a broken connection counts against the bound.
Lose(counts) ==
    /\ counts => faults > 0
    /\ faults' = IF counts THEN faults - 1 ELSE faults

Same == UNCHANGED <<peerTip, hard, faults>>

\* The peer's periodic handshake; `ask` when the cooldown lets the request out.
Handshake(ask) ==
    LET local == TipHeight(node)
        h == Depth[peerTip]
        differs == h = local /\ peerTip # node.tip
        start == IF local = 0 \/ differs THEN Zero ELSE node.tip
        heard == Quiet([peer EXCEPT !.tip = peerTip, !.shaken = h])
    IN  /\ Same /\ UNCHANGED node
        /\ \E o \in maybe_request_sync(node, heard) :
             Send(IF ask /\ (h > local \/ differs) THEN AskHeaders(o, start) ELSE o,
                  net)

\* The height the node credits the peer with after a batch of headers.
CreditedHeight(n) ==
    LET shaken == IF peer.shaken = -1 THEN TipHeight(n) ELSE peer.shaken
    IN  trusted_remote_height(Max(peer.height, shaken), best_header_height(n), TipHeight(n))

\* What the headers handler asks for next, h being the peer's height: the rest
\* of the headers, or all of them after an empty answer, and blocks.
AfterHeaders(n, hs, h, again, bodies) ==
    LET behind == h > TipHeight(n)
        last == hs[Len(hs)]
        seen == Quiet([peer EXCEPT !.height = h,
                         !.tip = IF hard /\ hs # <<>> THEN last ELSE @])
        added == \E i \in 1..Len(hs) : hs[i] \notin DOMAIN node.headers \cup node.store
        more == IF added /\ behind THEN AskHeaders(seen, last) ELSE seen
        requests == IF bodies THEN BlockRequests(n, h) ELSE {}
        asked == IF requests = {} THEN {more}
                 ELSE {AskBlocks(more, r[1], r[2]) : r \in requests}
    IN  IF hs = <<>> /\ behind THEN {IF again THEN AskHeaders(seen, Zero) ELSE seen}
        ELSE {[o EXCEPT !.peer.waiting = FALSE] : o \in asked}

\* A batch of headers inside the response window.
AcceptHeaders(hs, again, bodies) ==
    /\ hs \in net.headers
    /\ peer.open
    /\ Same
    /\ \E n \in {AddHeaders(node, hs)} : \E h \in {CreditedHeight(n)} :
       \E o \in AfterHeaders(n, hs, h, again, bodies) :
         /\ node' = n
         /\ Send(o, [net EXCEPT !.headers = @ \ {hs}])

\* A batch outside the window is unsolicited and dropped; a late one finds the
\* window closed.
IgnoreHeaders(hs) ==
    /\ hs \in net.headers
    /\ Lose(peer.open)
    /\ Send(Quiet([peer EXCEPT !.open = FALSE]), [net EXCEPT !.headers = @ \ {hs}])
    /\ UNCHANGED <<node, peerTip, hard>>

HandleBlock(b) ==
    LET placed == b = Genesis \/ Prev[b] \in Known(node)
        height == IF b # Genesis /\ placed THEN HeightOf(node, Prev[b]) + 1 ELSE 0
        tipSeen(n, o) == IF hard /\ height >= TipHeight(n)
                         THEN [o EXCEPT !.peer.tip = b] ELSE o
    IN  /\ net.run # <<>> /\ b = Head(net.run)
        /\ Same
        /\ \E n \in process_block(node, b) :
           \E r \in IF IsOrphan(node, b) THEN request_orphan_headers(n, Quiet(peer), Prev[b])
                    ELSE {<<n, Quiet(peer)>>} :
           \E o \in maybe_request_sync(r[1], tipSeen(r[1], r[2])) :
             /\ node' = r[1]
             /\ Send(o, [net EXCEPT !.run = Tail(@)])

\* Without its parent a block's height is unknown, and past the change of byte
\* order its hash is computed wrongly and fails the precheck.
DiscardBlock(b) ==
    /\ net.run # <<>> /\ b = Head(net.run)
    /\ b # Genesis /\ Prev[b] \notin Known(node)
    /\ Send(Quiet(peer), [net EXCEPT !.run = Tail(@)])
    /\ Same /\ UNCHANGED node

Tick ==
    /\ \E o \in maybe_request_sync(node, Quiet(peer)) : Send(o, net)
    /\ Same /\ UNCHANGED node

\* The last request from a hash got no usable answer: go 2^exp blocks back, a
\* distance that grows with every attempt and starts again when the tip moves.
Fallback(exp) ==
    LET start == Chain[node.tip][Max(TipHeight(node) - 2^exp, 0) + 1]
    IN  /\ peer.height > TipHeight(node)
        /\ peer.waiting
        /\ Send(AskHeaders(Quiet(peer), start), net)
        /\ Same /\ UNCHANGED node

\* Headers well above a tip that does not move: fetch them again from genesis.
StallRecovery ==
    LET local == TipHeight(node)
        best == best_header_height(node)
    IN  /\ peer.height # -1
        /\ best >= local + StallDelta
        /\ trusted_remote_height(peer.height, best, local) >= local + StallDelta
        /\ Send(AskHeaders(Quiet(peer), Zero), net)
        /\ Same /\ UNCHANGED node

\* The heartbeat's burst asks for both, without opening the response window.
SyncBurst ==
    /\ Send([peer |-> peer, headers |-> {ServeHeaders(node.tip)},
             run |-> ServeBlocks(node.tip, MaxBlocks)], net)
    /\ Same /\ UNCHANGED node

\* The peer's chain grows, and it sends the block around.
PeerExtends(b) ==
    /\ Prev[b] = peerTip
    /\ peerTip' = b
    /\ net' = [net EXCEPT !.run = Append(@, b)]
    /\ UNCHANGED <<node, peer, hard, faults>>

Reconnect ==
    /\ Lose(TRUE)
    /\ peer' = NoSession
    /\ net' = Nothing
    /\ UNCHANGED <<node, peerTip, hard>>

Next ==
    \/ \E ask \in BOOLEAN : Handshake(ask)
    \/ \E hs \in net.headers, again, bodies \in BOOLEAN : AcceptHeaders(hs, again, bodies)
    \/ \E hs \in net.headers : IgnoreHeaders(hs)
    \/ \E b \in Block : HandleBlock(b) \/ DiscardBlock(b)
    \/ Tick
    \/ \E exp \in 1..MaxRewind : Fallback(exp)
    \/ StallRecovery
    \/ SyncBurst
    \/ \E b \in Block : PeerExtends(b)
    \/ Reconnect

\* Answers on a live connection are taken in.  Handshakes, ticks and heartbeats
\* recur and the cooldowns and caches that refuse a request expire, so each
\* request that keeps being due goes out in the end.  The request that repeats an
\* empty answer from genesis falls, sooner or later, within the cooldown of the
\* one it repeats.  The rewinds of the fallback are those that MaxHeaders spans.
Fairness ==
    /\ WF_vars(\E hs \in net.headers : \/ \E again, bodies \in BOOLEAN :
                                            AcceptHeaders(hs, again, bodies)
                                      \/ IgnoreHeaders(hs))
    /\ SF_vars(\E hs \in net.headers \ {<<>>} : AcceptHeaders(hs, FALSE, TRUE))
    /\ SF_vars(peer.waiting /\ AcceptHeaders(<<>>, FALSE, TRUE))
    /\ WF_vars(\E b \in Block : HandleBlock(b))
    /\ SF_vars(\E b \in Block : net' = Nothing /\ HandleBlock(b))
    /\ SF_vars(Handshake(TRUE))
    /\ SF_vars(Fallback(MaxRewind))
    /\ SF_vars(SyncBurst)

Spec == Init /\ [][Next]_vars /\ Fairness

----------------------------------------------------------------------------
(* Properties                                                               *)

\* The node's maps stay consistent: what is stored has a height, the active tip
\* is stored however the store is pruned, and the orphan pool keeps to its bound
\* (prune_block_store, prune_orphan_pool).
TypeOK ==
    /\ node.tip \in node.store
    /\ node.store \subseteq DOMAIN node.heights
    /\ DOMAIN node.heights \cup DOMAIN node.headers \subseteq Block
    /\ Cardinality(node.orphans) <= MaxOrphans
    /\ peer.height \in -1..Cardinality(Block)
    /\ peer.tip \in Block \cup {Zero}
    /\ Cardinality(net.headers) <= 1

\* Blocks of the node's chain that are not on the chain of b.
OwnBranch(b) == Cardinality(Anc[node.tip] \ Anc[b])

\* Inside the store's window the height index is right: process_block never
\* files a block it keeps for a reorganisation under a wrong height, even when
\* the peer sends blocks from genesis that the node has pruned (the zero-hash
\* GetBlocks) and process_block stores them anew, genesis under height 1.
HeightIndex ==
    \A b \in node.store :
        Depth[b] > TipHeight(node) - StoreWindow => node.heights[b] = Depth[b]

\* The GetBlocks that follows the best header's path is never in vain: if the
\* node's own branch is shorter than a request and than the store's window,
\* the range holds a block the node lacks, and the first of them has a stored
\* parent, so it extends a branch and does not end among the orphans.
RequestMakesProgress ==
    \A b \in best_header_if_better(node) : \A j \in header_path_to_known(node, b) :
        TipHeight(node) - Depth[j] < Min(MaxBlocks, StoreWindow) =>
            LET asked == {x \in Above(b, j) : Depth[x] - Depth[j] <= MaxBlocks}
                lacks == asked \ node.store
            IN  \E x \in lacks : /\ Prev[x] \in node.store
                                 /\ \A y \in lacks : Depth[x] <= Depth[y]

\* A fork the node can get over: its own branch is shorter than a request,
\* inside the store's window and, under hardening, within the reorganisation
\* cap; and blocks of the other branch that it holds without their headers,
\* which cut the header path, are within reach of the rewound request.
Recoverable ==
    LET own == OwnBranch(peerTip)
        headerless == (Anc[peerTip] \ Anc[node.tip]) \cap (DOMAIN node.heights \ DOMAIN node.headers)
        reach == \A r \in rewinded_getblocks_request(node, Depth[peerTip]) : r[1] \in Anc[peerTip]
    IN  /\ own < Min(MaxBlocks, StoreWindow)
        /\ hard => own <= MaxReorg
        /\ headerless # {} => reach

\* A node that can get over its fork does not stay behind: whatever answers
\* come late or get lost, and however its requests are refused for a while,
\* header-first sync brings it to the peer's height.
Syncs == []<>(Recoverable => TipHeight(node) >= Depth[peerTip])
============================================================================
