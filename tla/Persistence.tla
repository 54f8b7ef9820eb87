---------------------------- MODULE Persistence ----------------------------
(***************************************************************************)
(* Blocks on disk.  A node adopts blocks in memory (the fork choice of     *)
(* module ForkChoice) and hands some of them to storage.rs.  Four threads  *)
(* call write_block_json or are its background writer:                     *)
(*   writer  drains the bounded queue of write jobs                        *)
(*   p2p     takes the blocks the message handlers hand over               *)
(*   rpc     runs submit_block and submit_block_extended                   *)
(*   healer  rewrites heights whose file is missing or of another block    *)
(* A write is several steps (move a file of another block aside, replace   *)
(* the file, advance the counters), so writes of one height interleave.    *)
(* The process may be killed between any two steps, or stopped after       *)
(* waiting for the queue counter; it starts again from the files alone.    *)
(***************************************************************************)
EXTENDS Blocks, FiniteSetsExt

CONSTANTS
  VrfHeight, HardeningHeight,
  Mined,        \* the blocks miners submit
  Inbound,      \* the blocks that arrive on inbound connections
  Outbound,     \* and on outbound ones
  QueueCap,     \* capacity of the writer's channel
  Window,       \* persist_window_size
  BatchSize,    \* heights the healer takes per round
  MaxUpsets     \* disk errors and process ends in a behaviour

FC == INSTANCE ForkChoice WITH Node <- {}, known <- <<>>, tip <- <<>>

MaxHeight == Max({Height(b) : b \in Block})

Heights == 1..MaxHeight

(* What block_<h>.json may hold instead of a block: nothing, or the JSON   *)
(* object without a header write_block_json_with_source falls back to.     *)
NoFile == "nofile"

Headerless == "headerless"

Thread == {"writer", "p2p", "rpc", "healer"}

(* Chains are bounded in height, no block is the lack of one, and channel  *)
(* and batches hold at least a job.                                        *)
ASSUME DiskAssumption ==
  /\ \E top \in Block : \A b \in Block : Height(b) <= Height(top)
  /\ NoFile \notin Block /\ Headerless \notin Block
  /\ Mined \cup Inbound \cup Outbound \subseteq Block
  /\ QueueCap \in Nat \ {0} /\ BatchSize \in Nat \ {0} /\ Window \in Nat \ {0}

Job == [height : Heights, block : Block \ {Genesis}]

JobOf(b) == [height |-> Height(b), block |-> b]

Idle == [pc |-> "idle"]

HealerIdle == [batch |-> {}, top |-> 0]

VARIABLES
  known, tip,     \* the chain state in memory: accepted blocks, main chain
  handed,         \* per message handler: the jobs it still has to hand over
  queue,          \* the writer's channel
  queueLen,       \* PERSIST_QUEUE_LEN
  thread,         \* what each thread is doing
  healer,         \* the gap healer's round
  targets,        \* GAP_HEALER_PENDING
  contiguous,     \* PERSISTED_CONTIGUOUS_HEIGHT
  highest,        \* PERSISTED_HEIGHT
  files,          \* files[h]: the block in block_<h>.json
  running,        \* the process is up
  seen,           \* history: the blocks ever adopted as a tip
  failed,         \* history: heights whose write failed since the start
  raced,          \* history: heights two threads were writing at once
  upsets          \* history: disk errors and process ends so far

memory == <<known, tip, handed>>

channel == <<queue, queueLen>>

counters == <<contiguous, highest>>

history == <<seen, failed, raced, upsets>>

vars == <<memory, channel, thread, healer, targets, counters, files, running, history>>

Init ==
  /\ known = {Genesis} /\ tip = Genesis
  /\ handed = {}
  /\ queue = <<>> /\ queueLen = 0
  /\ thread = [t \in Thread |-> Idle]
  /\ healer = HealerIdle
  /\ targets = {}
  /\ contiguous = 0 /\ highest = 0
  /\ files = [h \in Heights |-> NoFile]
  /\ running = TRUE
  /\ seen = {} /\ failed = {} /\ raced = {} /\ upsets = 0

-----------------------------------------------------------------------------
(* Adopting blocks.                                                        *)

(* process_block on a block whose parent is known, in the terms of the     *)
(* fork choice the engine refines.                                         *)
Process(b) ==
  /\ b \notin known /\ Parent[b] \in known
  /\ known' = known \cup {b}
  /\ tip' = IF Parent[b] = tip \/ FC!Better(b, tip) THEN b ELSE tip
  /\ seen' = seen \cup {tip'}

(* The handler of a Block message on an inbound connection hands over the  *)
(* received block if it became the tip.  Blocks a reorganisation connects  *)
(* under it are in memory only.                                            *)
ReceiveInbound(b) ==
  /\ running
  /\ Process(b)
  /\ handed' = IF tip' = b THEN handed \cup {<<JobOf(b)>>} ELSE handed
  /\ UNCHANGED <<channel, thread, healer, targets, counters, files, running, failed, raced, upsets>>

(* On an outbound connection the block below it is handed over as well.    *)
ReceiveOutbound(b) ==
  /\ running
  /\ Process(b)
  /\ handed' = IF tip' # b THEN handed
               ELSE IF Height(b) = 1 THEN handed \cup {<<JobOf(b)>>}
               ELSE handed \cup {<<JobOf(b), JobOf(Parent[b])>>}
  /\ UNCHANGED <<channel, thread, healer, targets, counters, files, running, failed, raced, upsets>>

-----------------------------------------------------------------------------
(* write_block_json and the steps of write_block_json_sync.  ret is what   *)
(* the thread does once the call has returned.                             *)

(* Faulty variant: the channel has no bound.                               *)
SendAlways(t, j, ret) ==
  /\ queue' = Append(queue, j)
  /\ thread' = [thread EXCEPT ![t] = [pc |-> "sent", job |-> j, ret |-> ret]]

WriteBlockJson(t, j, ret) ==
  IF Len(queue) < QueueCap
  THEN /\ queue' = Append(queue, j)
       /\ thread' = [thread EXCEPT ![t] = [pc |-> "sent", job |-> j, ret |-> ret]]
  ELSE /\ thread' = [thread EXCEPT ![t] = [pc |-> "quarantine", job |-> j, ret |-> ret]]
       /\ UNCHANGED queue

(* What a thread does after the call.  The writer counts the job off even  *)
(* if it failed; the healer takes a height off its targets if it did not.  *)
Returned(t) ==
  IF t = "rpc" /\ thread[t].ret # "done" THEN [thread[t] EXCEPT !.pc = "returned"] ELSE Idle

MarkFilled(t) == targets' = IF t = "healer" THEN targets \ {thread[t].job.height} ELSE targets

(* Faulty variant: a job is counted off only if it was written.            *)
CountOffWritten(t, ok) == queueLen' = IF t = "writer" /\ ok THEN queueLen - 1 ELSE queueLen

CountOff(t, ok) == queueLen' = IF t = "writer" THEN queueLen - 1 ELSE queueLen

(* The counter goes up only after the job is in the channel: the writer    *)
(* may have taken it, or even finished it, by then.                        *)
CountSent(t) ==
  /\ thread[t].pc = "sent"
  /\ queueLen' = queueLen + 1
  /\ thread' = [thread EXCEPT ![t] = Returned(t)]
  /\ MarkFilled(t)
  /\ UNCHANGED <<memory, queue, healer, counters, files, running, history>>

WriterTakes ==
  /\ thread["writer"].pc = "idle" /\ queue # <<>>
  /\ thread' = [thread EXCEPT !["writer"] =
                  [pc |-> "quarantine", job |-> Head(queue), ret |-> "done"]]
  /\ queue' = Tail(queue)
  /\ UNCHANGED <<memory, queueLen, healer, targets, counters, files, running, history>>

(* Thread t has looked at the file and is about to replace it.             *)
Overlapping(t) ==
  LET h == thread[t].job.height
  IN  IF \E u \in Thread \ {t} : thread[u].pc \in {"write", "rewrite"} /\ thread[u].job.height = h
      THEN raced \cup {h} ELSE raced

(* Faulty variant: the existing file is not moved aside.                   *)
SkipQuarantine(t) ==
  /\ thread[t].pc = "quarantine"
  /\ thread' = [thread EXCEPT ![t].pc = "write"]
  /\ raced' = Overlapping(t)
  /\ UNCHANGED <<memory, channel, healer, targets, counters, files, running, seen, failed, upsets>>

(* maybe_quarantine_existing_block: the file of another block is renamed.  *)
(* The rename may fail, and the failure is ignored.                        *)
Quarantine(t) ==
  /\ thread[t].pc = "quarantine"
  /\ thread' = [thread EXCEPT ![t].pc = "write"]
  /\ LET h == thread[t].job.height
     IN  \/ /\ files[h] \in {NoFile, thread[t].job.block}
            /\ UNCHANGED <<files, failed, upsets>>
         \/ /\ files[h] \notin {NoFile, thread[t].job.block}
            /\ files' = [files EXCEPT ![h] = NoFile]
            /\ UNCHANGED <<failed, upsets>>
         \/ /\ files[h] \notin {NoFile, thread[t].job.block}
            /\ upsets < MaxUpsets /\ upsets' = upsets + 1
            /\ failed' = failed \cup {h}
            /\ UNCHANGED files
  /\ raced' = Overlapping(t)
  /\ UNCHANGED <<memory, channel, healer, targets, counters, running, seen>>

(* A disk error: the writer drops the job, submit_block answers with an    *)
(* error, the healer leaves the height among its targets.                  *)
WriteFails(t) ==
  /\ thread[t].pc \in {"write", "rewrite"}
  /\ upsets < MaxUpsets /\ upsets' = upsets + 1
  /\ failed' = failed \cup {thread[t].job.height}
  /\ thread' = [thread EXCEPT ![t] = Idle]
  /\ CountOff(t, FALSE)
  /\ UNCHANGED <<memory, queue, healer, targets, counters, files, running, seen, raced>>

(* Faulty variant: the contiguous height follows the written height.       *)
AdvanceToWritten(c, top, fs) == IF top > c THEN top ELSE c

(* maybe_advance_contiguous: on while the next height has a file, up to    *)
(* the highest height written.  Only the file's existence counts.          *)
AdvanceContiguous(c, top, fs) ==
  Max({c} \cup {n \in Heights : n <= top /\ \A h \in (c + 1)..n : fs[h] # NoFile})

(* write_block_json_string replaces the file by a synced temporary one;    *)
(* then the counters follow.                                               *)
Write(t) ==
  /\ thread[t].pc = "write"
  /\ LET h == thread[t].job.height
     IN  /\ files' = [files EXCEPT ![h] = thread[t].job.block]
         /\ highest' = Max({highest, h})
         /\ contiguous' = IF h <= contiguous THEN contiguous
                          ELSE AdvanceContiguous(contiguous, highest', files')
  /\ thread' = [thread EXCEPT ![t] = Returned(t)]
  /\ MarkFilled(t)
  /\ CountOff(t, TRUE)
  /\ UNCHANGED <<memory, queue, healer, running, history>>

-----------------------------------------------------------------------------
(* The P2P persist task: one job at a time, in an order the handlers'      *)
(* sends decide.  Within a handler the received block comes first.         *)

P2pTakes ==
  /\ running /\ thread["p2p"].pc = "idle"
  /\ \E list \in handed :
       /\ WriteBlockJson("p2p", Head(list), "done")
       /\ handed' = (handed \ {list}) \cup (IF Len(list) > 1 THEN {Tail(list)} ELSE {})
  /\ UNCHANGED <<known, tip, queueLen, healer, targets, counters, files, running, history>>

-----------------------------------------------------------------------------
(* A miner's block extends the tip.  It is in memory before the anchors    *)
(* are asked, and is not written if they refuse it.                        *)
Submit(b, ret) ==
  /\ running /\ thread["rpc"].pc = "idle"
  /\ Parent[b] = tip
  /\ Process(b)
  /\ IF Body[b].anchored
     THEN WriteBlockJson("rpc", JobOf(b), ret)
     ELSE UNCHANGED <<queue, thread>>
  /\ UNCHANGED <<handed, queueLen, healer, targets, counters, files, running, failed, raced, upsets>>

SubmitBlock(b) == Submit(b, "source")

(* The extended call does not annotate the file.                           *)
SubmitBlockExtended(b) == Submit(b, "done")

(* write_block_json_with_source: writes the block unless the file has it,  *)
(* reads the file back (a second write if it is gone), and replaces the    *)
(* file by what was read, with the source added.                           *)
RpcAnnotates ==
  /\ thread["rpc"].pc = "returned"
  /\ LET r == thread["rpc"]
         content == files[r.job.height]
         write(ret) == [r EXCEPT !.pc = "quarantine", !.ret = ret]
         rewrite == [pc |-> "rewrite", job |-> r.job,
                     value |-> IF content = NoFile THEN Headerless ELSE content]
     IN  thread' = [thread EXCEPT !["rpc"] =
           CASE r.ret = "source" /\ content # r.job.block -> write("readback")
             [] r.ret = "readback" /\ content = NoFile -> write("again")
             [] OTHER -> rewrite]
  /\ raced' = Overlapping("rpc")
  /\ UNCHANGED <<memory, channel, healer, targets, counters, files, running, seen, failed, upsets>>

RpcRewrites ==
  /\ thread["rpc"].pc = "rewrite"
  /\ files' = [files EXCEPT ![thread["rpc"].job.height] = thread["rpc"].value]
  /\ thread' = [thread EXCEPT !["rpc"] = Idle]
  /\ UNCHANGED <<memory, channel, healer, targets, counters, running, history>>

-----------------------------------------------------------------------------
(* The gap healer.  With no targets it compares the files above the        *)
(* contiguous height with the chain it saw under the lock.                 *)

(* discover_persist_mismatch_heights.                                      *)
Mismatched(segment) == {h \in segment : files[h] # At(tip, h)}

(* The mismatched heights become the targets; the contiguous height moves  *)
(* to where the files match the chain.                                     *)
HealerScans ==
  /\ running /\ healer = HealerIdle /\ thread["healer"] = Idle /\ targets = {}
  /\ contiguous < Height(tip)
  /\ LET segment == (contiguous + 1)..Height(tip)
         bad == Mismatched(segment)
         good == {n \in segment : (contiguous + 1)..n \cap bad = {}}
     IN  /\ contiguous' = Max({contiguous} \cup good)
         /\ targets' = bad
  /\ UNCHANGED <<memory, channel, thread, healer, highest, files, running, history>>

(* The smallest n members of a set of heights.                             *)
Lowest(S, n) == {h \in S : Cardinality({x \in S : x < h}) < n}

HealerResumes ==
  /\ running /\ healer = HealerIdle /\ thread["healer"] = Idle /\ targets # {}
  /\ healer' = [batch |-> Lowest(targets, BatchSize), top |-> Height(tip)]
  /\ UNCHANGED <<memory, channel, thread, targets, counters, files, running, history>>

(* Faulty variant: the tip itself is passed over.                          *)
BelowTip(h) == h < Min({healer.top, Height(tip)})

(* Heights above the tip, then or now, are passed over.                    *)
OnChain(h) == h <= Min({healer.top, Height(tip)})

(* One height of the batch.                                                *)
HealerFills ==
  /\ healer # HealerIdle /\ thread["healer"].pc = "idle"
  /\ LET h == Min(healer.batch)
         rest == healer.batch \ {h}
     IN  /\ healer' = IF rest = {} THEN HealerIdle ELSE [healer EXCEPT !.batch = rest]
         /\ IF OnChain(h)
            THEN WriteBlockJson("healer", JobOf(At(tip, h)), "done")
            ELSE UNCHANGED <<queue, thread>>
  /\ UNCHANGED <<memory, queueLen, targets, counters, files, running, history>>

-----------------------------------------------------------------------------
(* Stopping and starting.                                                  *)

(* The process ends, between any two steps, and takes its memory with it.  *)
(* The contiguous height is kept until the restart, to compare with it.    *)
Exit ==
  /\ running /\ running' = FALSE
  /\ upsets < MaxUpsets /\ upsets' = upsets + 1
  /\ known' = {Genesis} /\ tip' = Genesis
  /\ handed' = {} /\ queue' = <<>> /\ queueLen' = 0
  /\ thread' = [t \in Thread |-> Idle]
  /\ healer' = HealerIdle /\ targets' = {}
  /\ highest' = 0
  /\ failed' = {} /\ raced' = {}
  /\ UNCHANGED <<contiguous, files, seen>>

Crash == Exit

(* /rpc/stop and SIGTERM go on serving until drain_persist_queue sees the  *)
(* counter at zero; giving up after its timeout is the same as Crash.      *)
DrainPersistQueue == queueLen = 0

Drained == DrainPersistQueue /\ Exit

(* load_persisted_blocks.  Files that do not parse are moved out; replay   *)
(* connects the files in the order of their heights while they link.       *)
Readable(fs) == [h \in Heights |-> IF fs[h] = Headerless THEN NoFile ELSE fs[h]]

Connects(fs, h) == fs[h] # NoFile /\ Parent[fs[h]] = (IF h = 1 THEN Genesis ELSE fs[h - 1])

ReplayHeight(fs) == Max({0} \cup {n \in Heights : \A h \in 1..n : Connects(fs, h)})

(* The start-up header index: the replayable prefix and one run of linked  *)
(* files above it, whose first header is given a token work.  The height   *)
(* of the heavier of the two.                                              *)
IndexedHeight(fs) ==
  LET k == ReplayHeight(fs)
      root == Min({h \in Heights : h > k /\ fs[h] # NoFile})
      end == Max({n \in Heights : n >= root /\ \A h \in (root + 1)..n : Connects(fs, h)})
  IN  IF \A h \in Heights : h > k => fs[h] = NoFile THEN k
      ELSE IF end - root >= k THEN end ELSE k

(* The first targets: heights without a file below the window, and those   *)
(* inside it only if the header index does not reach the window.           *)
StartTargets(fs) ==
  LET present == {h \in Heights : fs[h] # NoFile}
      top == Max({0} \cup present)
      start == Max({0, top - (Window - 1)})
      lowest == Max({0} \cup {n \in Heights : 1..n \subseteq present})
  IN  ((lowest + 1)..(start - 1) \ present)
      \cup (IF IndexedHeight(fs) < start THEN (start..top) \ (present \cup {0}) ELSE {})

(* Faulty variant: the contiguous height is the highest file's.            *)
RestartAtHighestFile ==
  /\ ~running /\ running' = TRUE
  /\ files' = Readable(files)
  /\ tip' = IF ReplayHeight(files') = 0 THEN Genesis ELSE files'[ReplayHeight(files')]
  /\ known' = {Genesis} \cup {files'[h] : h \in 1..ReplayHeight(files')}
  /\ targets' = StartTargets(files')
  /\ highest' = Max({0} \cup {h \in Heights : files'[h] # NoFile})
  /\ contiguous' = highest'
  /\ UNCHANGED <<handed, channel, thread, healer, history>>

Restart ==
  /\ ~running /\ running' = TRUE
  /\ files' = Readable(files)
  /\ tip' = IF ReplayHeight(files') = 0 THEN Genesis ELSE files'[ReplayHeight(files')]
  /\ known' = {Genesis} \cup {files'[h] : h \in 1..ReplayHeight(files')}
  /\ targets' = StartTargets(files')
  /\ contiguous' = ReplayHeight(files') /\ highest' = ReplayHeight(files')
  /\ UNCHANGED <<handed, channel, thread, healer, history>>

-----------------------------------------------------------------------------
ThreadStep(t) ==
  \/ CountSent(t) \/ Quarantine(t) \/ Write(t)
  \/ t = "writer" /\ WriterTakes
  \/ t = "p2p" /\ P2pTakes
  \/ t = "rpc" /\ (RpcAnnotates \/ RpcRewrites)
  \/ t = "healer" /\ (HealerScans \/ HealerResumes \/ HealerFills)

Next ==
  \/ \E t \in Thread : ThreadStep(t)
  \/ \E b \in Inbound : ReceiveInbound(b)
  \/ \E b \in Outbound : ReceiveOutbound(b)
  \/ \E b \in Mined : SubmitBlock(b) \/ SubmitBlockExtended(b)
  \/ \E t \in Thread : WriteFails(t)
  \/ Crash \/ Drained \/ Restart

(* The threads run whenever they can.  Nothing obliges a block to arrive,  *)
(* a disk to fail or an operator to stop or start the node.                *)
Fairness == \A t \in Thread : WF_vars(ThreadStep(t))

Spec == Init /\ [][Next]_vars

FairSpec == Spec /\ Fairness

-----------------------------------------------------------------------------
(* Types; the queue keeps to its capacity and a file holds a block, the    *)
(* headerless fallback of write_block_json_with_source or nothing.         *)
TypeOK ==
  /\ known \subseteq Block /\ tip \in known
  /\ \A list \in handed : \A i \in DOMAIN list : list[i] \in Job
  /\ Len(queue) <= QueueCap /\ \A i \in DOMAIN queue : queue[i] \in Job
  /\ files \in [Heights -> Block \cup {NoFile, Headerless}]
  /\ targets \subseteq Heights
  /\ contiguous \in 0..MaxHeight /\ highest \in 0..MaxHeight

(* The queue counter a stop waits on is the number of jobs in the channel  *)
(* or with the writer, less the sends not counted yet: at zero, with no    *)
(* send in between, every accepted job has been carried out.               *)
QueueLenExact ==
  LET sent(t) == IF thread[t].pc = "sent" THEN 1 ELSE 0
      busy == IF thread["writer"].pc = "idle" THEN 0 ELSE 1
  IN  running => queueLen = Len(queue) + busy - (sent("p2p") + sent("rpc") + sent("healer"))

(* Every height up to the contiguous one has a file, except while a thread *)
(* is between moving the old file aside and writing the new one, and after *)
(* a disk error struck there.                                              *)
NoHoleBelowContiguous ==
  \A h \in 1..contiguous :
    files[h] = NoFile =>
      \/ h \in failed
      \/ \E t \in Thread : thread[t].pc = "write" /\ thread[t].job.height = h
      \/ ~running

OneBranch == \A x, y \in seen : Height(x) <= Height(y) => At(y, Height(x)) = x

(* A node that never changed branches restarts at the contiguous height or *)
(* above, whenever it is killed and whatever writes failed.                *)
ContiguousSurvivesCrash == OneBranch => ReplayHeight(Readable(files)) >= contiguous

(* A block file is replaced by that of another block only after the first  *)
(* was moved aside, unless two threads write that height at once or the    *)
(* disk failed.                                                            *)
NoSilentOverwrite ==
  [][\A h \in Heights :
       \/ files[h] \in {NoFile, Headerless, files'[h]} \/ files'[h] = NoFile
       \/ h \in failed \cup raced]_vars

(* As long as the node runs, the contiguous height catches up with the tip *)
(* again and again, through disk errors, crashes and reorganisations.      *)
CatchesUp == []<>(~running \/ contiguous >= Height(tip))

(* docs/API.md on persisted_contiguous_height: with no write under way,    *)
(* every block of the chain up to that height is on disk.                  *)
ContiguousOnDisk ==
  handed = {} /\ queue = <<>> /\ targets = {} /\ (\A t \in Thread : thread[t] = Idle) =>
    \A h \in 1..Min({contiguous, Height(tip)}) : files[h] = At(tip, h)
=============================================================================
