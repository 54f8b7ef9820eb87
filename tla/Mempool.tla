------------------------------- MODULE Mempool -------------------------------
(***************************************************************************)
(* The pool of unconfirmed transactions (src/mempool.rs) between the       *)
(* handlers that fill it (src/bin/iriumd.rs, src/p2p.rs), the template a   *)
(* miner works on, and the chain.  Chain and pool have a mutex each.  A    *)
(* handler validates a transaction under the chain's, releases it, and     *)
(* inserts under the pool's; a template is put together from three         *)
(* separate looks at chain, pool and chain; only the handlers of a block   *)
(* hold both.  Here every stretch under one lock is one step.              *)
(*                                                                         *)
(* The chain is the transactions of its last block and of those below it:  *)
(* a reorganisation or a crash takes back one block here.  Whether scripts *)
(* verify is not modelled: a transaction is valid when its inputs exist.   *)
(***************************************************************************)
EXTENDS Integers, Sequences, FiniteSets, Functions

CONSTANTS
  Coin, BaseCoins,     \* transaction outputs, those unspent at the base
  Tx,                  \* transactions (ids)
  Input, Output,       \* the coins a transaction spends and creates
  Fee, Size,           \* its fee and serialized size
  Class,               \* the class classify_tx_priority gives it
  Batch,               \* header batches it carries: [ext, prev, last]
  Ext,                 \* the external chains (btc, ltc)
  BaseTip,             \* their relays' tips at the base, 0 being the anchor
  Handler,             \* concurrently running submissions
  MaxEntries, MinRate, MinFee,
  Limits,              \* values of max_txs a template is asked for
  MaxForeign,          \* bound: transactions in a block mined elsewhere
  MaxUpsets            \* bound: failed writes, restarts and reorganisations

VARIABLES
  chain,      \* transactions of the main chain's blocks: [below, last]
  undrained,  \* the orphans waiting for the tip have not been looked at
  pool,       \* MempoolManager.entries: transaction -> class
  disk,       \* pending.json, or Torn
  handler,    \* what each submission carries from check to insertion
  tmpl,       \* the block template, from first look to submission
  unscanned,  \* history: entries not validated against the current chain
  dirty,      \* history: the last write of pending.json failed
  faults,     \* failed writes so far
  upsets      \* restarts and reorganisations so far

vars == <<chain, undrained, pool, disk, handler, tmpl, unscanned, dirty,
          faults, upsets>>

ASSUME TxAssumption ==
  /\ BaseCoins \subseteq Coin
  /\ Input \in [Tx -> (SUBSET Coin) \ {{}}]
  /\ Output \in [Tx -> SUBSET (Coin \ BaseCoins)]
  /\ \A t, u \in Tx : t # u => Output[t] \cap Output[u] = {}
  /\ Fee \in [Tx -> Nat] /\ Size \in [Tx -> Nat \ {0}]
  /\ Class \in [Tx -> {"ZeroFeeAllowed", "Standard"}]

(* Header numbers start at the anchor.  A carrier is a transaction with    *)
(* one batch for a relay, as the submit handlers build it; a second one    *)
(* would make any block with it invalid.                                   *)
ASSUME BatchAssumption ==
  /\ Batch \in [Tx -> SUBSET [ext : Ext, prev : Nat, last : Nat]]
  /\ \A t \in Tx : \A b, d \in Batch[t] : b.ext = d.ext => b = d

ASSUME BoundAssumption ==
  /\ MaxEntries \in Nat \ {0}
  /\ MinRate \in Nat /\ MinFee \in Nat
  /\ Limits \subseteq Nat
  /\ BaseTip \in [Ext -> Nat]
  /\ MaxForeign \in Nat /\ MaxUpsets \in Nat

Torn == [x \in {"torn"} |-> "torn"]
Idle == [tx |-> "none"]
Calm == faults + upsets < MaxUpsets

NoTemplate == [phase |-> "none", scanned |-> FALSE, txs |-> <<>>]

(***************************************************************************)
(* The chain, as far as the pool asks about it.                            *)
(***************************************************************************)
Mined(c) == c.below \cup c.last

AppendBlock(c, B) == [below |-> Mined(c), last |-> B]

Parent(c) == [below |-> c.below, last |-> {}]

Utxos(c) ==
  (BaseCoins \cup UNION {Output[t] : t \in Mined(c)}) \ UNION {Input[t] : t \in Mined(c)}

(* validate_transaction and calculate_fees: inputs are looked up in the    *)
(* UTXO set, never in the pool.                                            *)
Valid(c, t) == Input[t] \subseteq Utxos(c)

Carries(t, e) == \E b \in Batch[t] : b.ext = e

(* The external headers are numbered along one chain; batches that connect *)
(* leave every header up to the highest known.                             *)
RelayTip(c, e) ==
  LET known == {BaseTip[e]} \cup {b.last : b \in {x \in UNION {Batch[t] : t \in Mined(c)} : x.ext = e}}
  IN  CHOOSE n \in known : \A m \in known : m <= n

(* What connect_block asks of a block's transactions, in any order.        *)
BlockValid(c, B) ==
  /\ \A t \in B : Valid(c, t)
  /\ \A t, u \in B : t # u => Input[t] \cap Input[u] = {}
  /\ \A t, u \in B : \A b \in Batch[t], d \in Batch[u] : b.ext = d.ext => t = u /\ b = d
  /\ \A t \in B : \A b \in Batch[t] : b.prev <= RelayTip(c, b.ext)

(* The blocks others can have mined on c.                                  *)
Foreign(c) ==
  {B \in SUBSET {t \in Tx : Valid(c, t)} : Cardinality(B) <= MaxForeign /\ BlockValid(c, B)}

(***************************************************************************)
(* MempoolManager.                                                         *)
(***************************************************************************)
rank(class) == IF class = "ZeroFeeAllowed" THEN 0 ELSE 1

(* fee_per_byte of t is below that of u.                                   *)
Cheaper(t, u) == Fee[t] * Size[u] < Fee[u] * Size[t]

Keep(p, S) == [t \in DOMAIN p \cap S |-> p[t]]

Put(p, t, class) == [u \in DOMAIN p \cup {t} |-> IF u = t THEN class ELSE p[u]]

(* min_by over a HashMap: any of the entries no other one is below.        *)
Lowest(p) ==
  {t \in DOMAIN p : \A u \in DOMAIN p :
     \/ rank(p[t]) < rank(p[u])
     \/ rank(p[t]) = rank(p[u]) /\ ~Cheaper(u, t)}

MayReplace(t, class, victim) ==
  \/ rank(class) > rank(pool[victim])
  \/ rank(class) = rank(pool[victim]) /\ Cheaper(victim, t)

(* Faulty variant: a full pool gives up any of its lowest entries.         *)
pick_any_target(t, class) == Lowest(pool)

pick_eviction_target(t, class) == {v \in Lowest(pool) : MayReplace(t, class, v)}

(* Faulty variant: full is noticed one entry late.                         *)
FullLate == Cardinality(DOMAIN pool) > MaxEntries

Full == Cardinality(DOMAIN pool) >= MaxEntries

(* The admission tests of add_transaction_with_priority, but for the one   *)
(* on the clock.                                                           *)
Admissible(t, class) ==
  /\ t \notin DOMAIN pool
  /\ \A e \in Ext : Carries(t, e) => \A u \in DOMAIN pool : ~Carries(u, e)
  /\ class = "Standard" => Fee[t] >= MinRate * Size[t] /\ Fee[t] >= MinFee
  /\ Full => pick_eviction_target(t, class) # {}

(* The pools the insertion may leave.                                      *)
Inserted(t, class) ==
  IF Full
    THEN {Put(Keep(pool, DOMAIN pool \ {v}), t, class) : v \in pick_eviction_target(t, class)}
    ELSE {Put(pool, t, class)}

(* persist rewrites the whole file in place: a write that fails leaves the *)
(* old file, half of one, or all of it where an earlier of two writes (an  *)
(* insertion and its record_relay) succeeded.                              *)
Persist(ok, p) ==
  /\ ok \/ Calm
  /\ faults' = IF ok THEN faults ELSE faults + 1
  /\ disk' \in IF ok THEN {p} ELSE {disk, Torn, p}
  /\ dirty' = ~ok

LeaveDisk == UNCHANGED <<disk, dirty, faults>>

(***************************************************************************)
(* Submissions.  A handler holds [tx, class, sole, moved] between its two  *)
(* locks: sole if it refuses conflicts, and moved records that the chain   *)
(* changed in between.                                                     *)
(***************************************************************************)
Check(h, t, class, sole) ==
  /\ handler[h] = Idle
  /\ Valid(chain, t)
  /\ handler' = [handler EXCEPT ![h] =
       [tx |-> t, class |-> class, sole |-> sole, moved |-> FALSE]]
  /\ UNCHANGED <<chain, undrained, pool, disk, tmpl, unscanned, dirty, faults, upsets>>

(* submit_tx; whatever it is, its class is Standard.                       *)
SubmitTxCheck(h, t) == Check(h, t, "Standard", TRUE)

(* A transaction the node builds itself (wallet_send, header carriers,     *)
(* swaps, orders, HTLCs): Standard, or zero-fee where the handler says so. *)
BuiltTxCheck(h, t) == \E class \in {"Standard", Class[t]} : Check(h, t, class, FALSE)

(* The Tx message of a peer, on either side of the connection.             *)
P2pTxCheck(h, t) == Check(h, t, Class[t], FALSE)

(* find_conflicting, which only submit_tx calls.                           *)
Conflicting(t) == \E u \in DOMAIN pool : Input[t] \cap Input[u] # {}

(* Whether the handler gets as far as the insertion.                       *)
Admits(s) ==
  /\ Admissible(s.tx, s.class)
  /\ s.sole => ~Conflicting(s.tx)

Done(h) ==
  /\ handler' = [handler EXCEPT ![h] = Idle]
  /\ UNCHANGED <<chain, undrained, tmpl, upsets>>

Add(h) ==
  /\ handler[h] # Idle
  /\ LET s == handler[h] IN
       /\ Admits(s)
       /\ pool' \in Inserted(s.tx, s.class)
       /\ unscanned' = (unscanned \cap DOMAIN pool') \cup (IF s.moved THEN {s.tx} ELSE {})
       /\ \E ok \in BOOLEAN : Persist(ok, pool')
  /\ Done(h)

(* A refused transaction.  The address of one without a fee may have had   *)
(* another accepted in the last 600 seconds (header_relay_last_seen).      *)
Refuse(h) ==
  /\ handler[h] # Idle
  /\ ~Admits(handler[h]) \/ handler[h].class = "ZeroFeeAllowed"
  /\ LeaveDisk
  /\ Done(h)
  /\ UNCHANGED <<pool, unscanned>>

(* A peer sends a transaction that is already in the pool: it is added to  *)
(* the entry's relays, which rewrites the file.                            *)
record_relay ==
  /\ \E t \in DOMAIN pool : Valid(chain, t)
  /\ \E ok \in BOOLEAN : Persist(ok, pool)
  /\ UNCHANGED <<chain, undrained, pool, handler, tmpl, unscanned, upsets>>

(***************************************************************************)
(* Blocks.  A block that connects is followed, under both locks, by the    *)
(* removal of its transactions and of entries that no longer validate.     *)
(***************************************************************************)
(* Faulty variant: the block's own transactions are removed and nothing    *)
(* is re-validated.                                                        *)
RemoveMined(c, B) == DOMAIN pool \ B

Survivors(c, B) == {t \in DOMAIN pool \ B : Valid(c, t)}

(* Faulty variant: the removals are not written.                           *)
CleanUnwritten(c, B) ==
  /\ pool' = Keep(pool, Survivors(c, B))
  /\ unscanned' = {}
  /\ LeaveDisk

(* evict_invalid_mempool_entries after the removals: each removal rewrites *)
(* the file and ignores a failure, so one that fails may leave any of the  *)
(* pools in between.                                                       *)
Clean(c, B) ==
  /\ pool' = Keep(pool, Survivors(c, B))
  /\ unscanned' = {}
  /\ IF pool' = pool
       THEN LeaveDisk
       ELSE \/ Persist(TRUE, pool')
            \/ /\ Calm
               /\ faults' = faults + 1
               /\ dirty' = TRUE
               /\ disk' \in {disk, Torn} \cup
                    {Keep(pool, Survivors(c, B) \cup S) : S \in SUBSET DOMAIN pool}

(* Everything read before the chain changed is stale afterwards; a block   *)
(* made from a stale template is refused for its height or parent, so that *)
(* the template is as good as gone.                                        *)
ChainMoves(c) ==
  /\ chain' = c
  /\ handler' = [h \in Handler |->
       IF handler[h] = Idle THEN Idle ELSE [handler[h] EXCEPT !.moved = TRUE]]
  /\ tmpl' = NoTemplate

Connected(c, B) ==
  /\ ChainMoves(c)
  /\ Clean(c, B)

(* A block of a peer that extends the tip.  process_block drains the       *)
(* orphans of the tip it leaves before the pool is cleaned; one that       *)
(* connects is a step of its own here.                                     *)
PeerBlock ==
  /\ \E B \in Foreign(chain) : Connected(AppendBlock(chain, B), B)
  /\ undrained' = FALSE
  /\ UNCHANGED upsets

(* A reorganisation: the last block is replaced by two of a heavier branch.*)
(* Only the transactions of the block that arrived are removed by id, and  *)
(* none of the displaced block comes back.                                 *)
PeerReorg ==
  /\ Calm /\ upsets' = upsets + 1
  /\ \E A \in Foreign(Parent(chain)) :
       LET c == AppendBlock(Parent(chain), A) IN
         \E B \in Foreign(c) : Connected(AppendBlock(c, B), B)
  /\ undrained' = FALSE

(* A block stored on a side branch.  process_block drains the orphans of   *)
(* the tip, which may move it, and still returns an error, so the handler  *)
(* does not clean the pool.                                                *)
PeerSideBlock ==
  /\ undrained
  /\ \E B \in Foreign(chain) : ChainMoves(AppendBlock(chain, B))
  /\ unscanned' = DOMAIN pool
  /\ undrained' = FALSE
  /\ UNCHANGED <<pool, disk, dirty, faults, upsets>>

(***************************************************************************)
(* get_block_template and submit_block.  scanned is history: every entry   *)
(* of the pool had been validated against the chain at the second look.    *)
(***************************************************************************)
TemplateHeader ==
  /\ tmpl.phase = "none"
  /\ tmpl' = [NoTemplate EXCEPT !.phase = "header"]
  /\ UNCHANGED <<chain, undrained, pool, disk, handler, unscanned, dirty, faults, upsets>>

(* ordered_entries: by fee per byte, equal ones in any order.  A template  *)
(* is asked for with a lowest fee or a number of transactions; both leave  *)
(* a prefix.                                                               *)
Ordered(D) ==
  {s \in [1..Cardinality(D) -> D] :
     /\ Range(s) = D
     /\ \A i, j \in DOMAIN s : i < j => ~Cheaper(s[i], s[j])}

(* Faulty variant: conflicting entries are left in.                        *)
WithConflicts(s) == s

(* Faulty variant: every entry with a rival is dropped.                    *)
DropRivals(s) ==
  SelectSeq(s, LAMBDA t : \A u \in Range(s) : u # t => Input[t] \cap Input[u] = {})

(* The first claimer of a coin wins.                                       *)
DropConflicts(s) ==
  LET kept[i \in 0..Len(s)] ==
        IF i = 0 THEN <<>>
        ELSE IF \E u \in Range(kept[i - 1]) : Input[s[i]] \cap Input[u] # {} THEN kept[i - 1]
        ELSE Append(kept[i - 1], s[i])
  IN  kept[Len(s)]

TemplateEntries ==
  /\ tmpl.phase = "header"
  /\ \E s \in Ordered(DOMAIN pool), n \in Limits :
       tmpl' = [tmpl EXCEPT !.phase = "entries",
                            !.scanned = unscanned = {},
                            !.txs = DropConflicts(SubSeq(s, 1, IF n < Len(s) THEN n ELSE Len(s)))]
  /\ UNCHANGED <<chain, undrained, pool, disk, handler, unscanned, dirty, faults, upsets>>

(* A batch connects when its first header follows the relay's tip; without *)
(* a tip (only the anchor) none does.                                      *)
Connects(c, t, e) ==
  \E b \in Batch[t] : b.ext = e /\ RelayTip(c, e) # 0 /\ b.prev = RelayTip(c, e)

DropCarriers(c, s) ==
  LET kept[i \in 0..Len(s)] ==
        IF i = 0 THEN <<>>
        ELSE IF \E e \in Ext : /\ Carries(s[i], e)
                               /\ ~Connects(c, s[i], e) \/ \E u \in Range(kept[i - 1]) : Connects(c, u, e)
          THEN kept[i - 1]
        ELSE Append(kept[i - 1], s[i])
  IN  kept[Len(s)]

TemplateCarriers ==
  /\ tmpl.phase = "entries"
  /\ tmpl' = [tmpl EXCEPT !.phase = "job", !.txs = DropCarriers(chain, tmpl.txs)]
  /\ UNCHANGED <<chain, undrained, pool, disk, handler, unscanned, dirty, faults, upsets>>

(* submit_block.  connect_block does not drain the orphans: a child of the *)
(* new block that came first is left there.  A block that does not connect *)
(* changes nothing.                                                        *)
SubmitBlock ==
  /\ tmpl.phase = "job"
  /\ LET B == Range(tmpl.txs) IN
       \/ /\ BlockValid(chain, B)
          /\ Connected(AppendBlock(chain, B), B)
          /\ undrained' = TRUE
       \/ /\ ~BlockValid(chain, B)
          /\ tmpl' = NoTemplate
          /\ UNCHANGED <<chain, undrained, pool, disk, handler, unscanned, dirty, faults>>
  /\ UNCHANGED upsets

(***************************************************************************)
(* The process ends and starts again.  The last block may not have reached *)
(* the disk, and the end may have come inside a rewrite of pending.json.   *)
(* The file is loaded as it is, without a look at the chain.               *)
(***************************************************************************)
Restart ==
  /\ Calm /\ upsets' = upsets + 1
  /\ chain' \in {chain, Parent(chain)}
  /\ disk' \in {disk, Torn} /\ dirty' = (dirty \/ disk' = Torn)
  /\ pool' = IF disk' = Torn THEN <<>> ELSE disk'
  /\ unscanned' = DOMAIN pool'
  /\ undrained' = FALSE
  /\ handler' = [h \in Handler |-> Idle]
  /\ tmpl' = NoTemplate
  /\ UNCHANGED faults

Init ==
  /\ chain = [below |-> {}, last |-> {}] /\ undrained = FALSE
  /\ pool = <<>> /\ disk = <<>>
  /\ handler = [h \in Handler |-> Idle]
  /\ tmpl = NoTemplate
  /\ unscanned = {} /\ dirty = FALSE
  /\ faults = 0 /\ upsets = 0

Template == TemplateHeader \/ TemplateEntries \/ TemplateCarriers \/ SubmitBlock

Next ==
  \/ \E h \in Handler :
       \/ \E t \in Tx : SubmitTxCheck(h, t) \/ BuiltTxCheck(h, t) \/ P2pTxCheck(h, t)
       \/ Add(h) \/ Refuse(h)
  \/ record_relay
  \/ PeerBlock \/ PeerReorg \/ PeerSideBlock
  \/ Template
  \/ Restart

Spec == Init /\ [][Next]_vars

(* A miner keeps asking for templates and submitting blocks.               *)
Fairness == WF_vars(Template)

FairSpec == Spec /\ Fairness

(***************************************************************************)
(* Properties.                                                             *)
(***************************************************************************)
IsPool(p) ==
  /\ DOMAIN p \subseteq Tx /\ Cardinality(DOMAIN p) <= MaxEntries
  /\ \A t \in DOMAIN p : p[t] \in {"ZeroFeeAllowed", "Standard"}

(* Types; the pool never exceeds its capacity, in memory or in the file.   *)
TypeOK ==
  /\ chain \in [below : SUBSET Tx, last : SUBSET Tx]
  /\ undrained \in BOOLEAN /\ dirty \in BOOLEAN
  /\ IsPool(pool) /\ (disk # Torn => IsPool(disk))
  /\ \A h \in Handler : handler[h] # Idle => handler[h].tx \in Tx
  /\ tmpl.phase \in {"none", "header", "entries", "job"} /\ Range(tmpl.txs) \subseteq Tx
  /\ unscanned \subseteq DOMAIN pool
  /\ faults \in 0..MaxUpsets /\ upsets \in 0..MaxUpsets

(* An entry that does not validate against the main chain got in after the *)
(* chain had moved since its check, or has not been re-validated since the *)
(* chain moved without evict_invalid_mempool_entries (a restart, or an     *)
(* orphan drained behind a side-branch block).                             *)
PoolValid == \A t \in DOMAIN pool \ unscanned : Valid(chain, t)

(* The comment on MempoolPriority: a paying transaction is displaced from  *)
(* a full pool only by a paying one with a higher fee per byte.  Whatever  *)
(* else takes a Standard entry out had a block or a restart behind it.     *)
PayingStays ==
  [][\A t \in DOMAIN pool \ DOMAIN pool' :
       pool[t] = "Standard" /\ Valid(chain, t) /\ chain' = chain /\ upsets' = upsets
         => \E u \in DOMAIN pool' \ DOMAIN pool : pool'[u] = "Standard" /\ Cheaper(t, u)]_vars

(* pending.json is what a restart would need, whenever the last attempt to *)
(* write it succeeded: no handler changes the pool without writing it.     *)
DiskFollows == ~dirty => disk = pool

(* A template that is not stale is a block submit_block connects, although  *)
(* P2P submissions put conflicting transactions into the pool, unless the  *)
(* pool held an entry not re-validated.                                    *)
TemplateMineable ==
  tmpl.phase = "job" /\ tmpl.scanned => BlockValid(chain, Range(tmpl.txs))

(* A pooled transaction that carries no header batch does not stay for     *)
(* ever if the tip is again and again a block of the node's own miner with *)
(* no unvalidated entry left: it is mined, or something it conflicts with. *)
(* An entry that got in after its input was spent is put into every        *)
(* template and keeps the miner's blocks invalid until a peer's block has  *)
(* the pool re-validated.                                                  *)
Confirms ==
  []<>(undrained /\ unscanned = {}) =>
    \A t \in Tx : Batch[t] = {} => (t \in DOMAIN pool ~> t \notin DOMAIN pool)
=============================================================================
