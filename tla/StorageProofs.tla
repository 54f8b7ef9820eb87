--------------------------- MODULE StorageProofs ---------------------------
(***************************************************************************)
(* The write queue and the block files, for any blocks, any queue capacity *)
(* and any number of disk errors, crashes and restarts.                    *)
(*                                                                         *)
(* First the queue: its counter is exact.  Then the files: none is         *)
(* overwritten silently.  Then what is in them: the contiguous height has  *)
(* no unexplained hole below it, and a node that never changed branches    *)
(* restarts at that height or above.                                       *)
(***************************************************************************)
EXTENDS Persistence, BlocksProofs

(* The threads between a send and its count.                               *)
Waits(t) == IF thread[t].pc = "sent" THEN 1 ELSE 0

Sends == Waits("p2p") + Waits("rpc") + Waits("healer")

Busy == IF thread["writer"].pc = "idle" THEN 0 ELSE 1

(* A thread's state is a record with a program counter.                    *)
IsState(r) == "pc" \in DOMAIN r /\ r = [f \in DOMAIN r |-> r[f]]

ThreadsOK ==
  /\ thread = [t \in Thread |-> thread[t]]
  /\ \A t \in Thread : IsState(thread[t])
  /\ thread["writer"].pc \in {"idle", "quarantine", "write"}

(* A stopped process has nothing in memory.                                *)
Stopped ==
  /\ queue = <<>> /\ queueLen = 0 /\ healer = HealerIdle
  /\ \A t \in Thread : thread[t] = Idle

QInv ==
  /\ ThreadsOK
  /\ \E S : queue \in Seq(S)
  /\ queueLen \in Int
  /\ ~running => Stopped
  /\ queueLen = Len(queue) + Busy - Sends

LEMMA SendsCount == Sends \in Nat
  BY DEF Sends, Waits

(* One thread moves: the counts of sent and of busy follow its counter.    *)
LEMMA ThreadMoves ==
  ASSUME ThreadsOK, NEW t \in Thread, NEW r, IsState(r),
         t = "writer" => r.pc \in {"idle", "quarantine", "write"},
         thread' = [thread EXCEPT ![t] = r]
  PROVE  /\ ThreadsOK'
         /\ Sends' = Sends
              - (IF thread[t].pc = "sent" THEN 1 ELSE 0) + (IF r.pc = "sent" THEN 1 ELSE 0)
         /\ Busy' = IF t # "writer" THEN Busy ELSE IF r.pc = "idle" THEN 0 ELSE 1
  <1>1. /\ thread' = [u \in Thread |-> IF u = t THEN r ELSE thread[u]]
        /\ "writer" \in Thread
    BY Zenon DEF ThreadsOK, Thread
  <1>2. ThreadsOK'
    BY <1>1 DEF ThreadsOK
  <1>3. Busy' = IF t # "writer" THEN Busy ELSE IF r.pc = "idle" THEN 0 ELSE 1
    BY <1>1 DEF Busy
  <1>4. /\ \A u \in Thread : Waits(u)' = IF u = t THEN IF r.pc = "sent" THEN 1 ELSE 0 ELSE Waits(u)
        /\ \A u \in Thread : Waits(u) \in {0, 1}
        /\ Waits(t) = IF thread[t].pc = "sent" THEN 1 ELSE 0
    BY <1>1 DEF Waits
  <1>5. t = "writer" => Waits(t) = 0 /\ r.pc # "sent"
    BY DEF ThreadsOK, Waits
  <1>6. /\ Sends = Waits("p2p") + Waits("rpc") + Waits("healer")
        /\ Sends' = Waits("p2p")' + Waits("rpc")' + Waits("healer")'
    BY DEF Sends
  <1> HIDE DEF Waits
  <1>7. Sends' = Sends - Waits(t) + (IF r.pc = "sent" THEN 1 ELSE 0)
    BY <1>4, <1>5, <1>6 DEF Thread
  <1> QED BY <1>2, <1>3, <1>4, <1>7

(* The states the steps put threads into.                                  *)
LEMMA StatesMade ==
  /\ IsState(Idle) /\ Idle.pc = "idle"
  /\ \A c, j, x : /\ IsState([pc |-> c, job |-> j, ret |-> x])
                  /\ [pc |-> c, job |-> j, ret |-> x].pc = c
  /\ \A c, j, x : /\ IsState([pc |-> c, job |-> j, value |-> x])
                  /\ [pc |-> c, job |-> j, value |-> x].pc = c
  /\ \A r, c : IsState(r) => LET n == [r EXCEPT !.pc = c] IN IsState(n) /\ n.pc = c
  <1>1. IsState(Idle) /\ Idle.pc = "idle"
    BY DEF IsState, Idle
  <1>2. ASSUME NEW c, NEW j, NEW x
        PROVE  /\ IsState([pc |-> c, job |-> j, ret |-> x])
               /\ IsState([pc |-> c, job |-> j, value |-> x])
    BY DEF IsState
  <1>3. ASSUME NEW r, NEW c, IsState(r)
        PROVE  LET n == [r EXCEPT !.pc = c] IN IsState(n) /\ n.pc = c
    BY <1>3 DEF IsState
  <1> QED BY Zenon, <1>1, <1>2, <1>3

(* A job joins the channel or leaves it.                                   *)
LEMMA QueueMoves ==
  ASSUME NEW S, NEW q \in Seq(S)
  PROVE  /\ Len(q) \in Nat
         /\ \A j : (\E T : Append(q, j) \in Seq(T)) /\ Len(Append(q, j)) = Len(q) + 1
         /\ q # <<>> => Tail(q) \in Seq(S) /\ Len(Tail(q)) = Len(q) - 1
  <1>1. Len(q) \in Nat
    OBVIOUS
  <1>2. ASSUME NEW j
        PROVE  Append(q, j) \in Seq(S \cup {j}) /\ Len(Append(q, j)) = Len(q) + 1
    <2>1. q \in Seq(S \cup {j})
      OBVIOUS
    <2> QED BY <2>1
  <1>3. q # <<>> => Tail(q) \in Seq(S) /\ Len(Tail(q)) = Len(q) - 1
    OBVIOUS
  <1> QED BY Zenon, <1>1, <1>2, <1>3

(* Nothing moves in a stopped process.                                     *)
LEMMA StoppedStill ==
  ASSUME QInv, NEW t \in Thread, thread[t].pc # "idle"
  PROVE  running
  BY StatesMade DEF QInv, Stopped

(* An idle thread calls write_block_json.                                  *)
LEMMA WriteBlockJsonQInv ==
  ASSUME QInv, running, NEW t \in Thread \ {"writer"}, thread[t].pc = "idle", NEW j, NEW ret,
         WriteBlockJson(t, j, ret), queueLen' = queueLen, running' = running
  PROVE  QInv'
  <1>1. PICK S : queue \in Seq(S)
    BY DEF QInv
  <1>2. CASE Len(queue) < QueueCap
    <2> DEFINE r == [pc |-> "sent", job |-> j, ret |-> ret]
    <2>1. queue' = Append(queue, j) /\ thread' = [thread EXCEPT ![t] = r]
      BY <1>2 DEF WriteBlockJson
    <2>2. IsState(r) /\ r.pc = "sent"
      BY StatesMade
    <2> HIDE DEF r
    <2>3. ThreadsOK' /\ Busy' = Busy /\ Sends' = Sends + 1
      <3>1. ThreadsOK /\ t \in Thread /\ t # "writer"
        BY DEF QInv
      <3>2. /\ ThreadsOK'
            /\ Sends' = Sends
                 - (IF thread[t].pc = "sent" THEN 1 ELSE 0) + (IF r.pc = "sent" THEN 1 ELSE 0)
            /\ Busy' = IF t # "writer" THEN Busy ELSE IF r.pc = "idle" THEN 0 ELSE 1
        BY Zenon, <2>1, <2>2, <3>1, ThreadMoves
      <3> QED BY <2>2, <3>1, <3>2, SendsCount
    <2>4. (\E T : queue' \in Seq(T)) /\ Len(queue') = Len(queue) + 1 /\ Len(queue) \in Nat
      BY Zenon, <1>1, <2>1, QueueMoves
    <2>5. queueLen' = Len(queue') + Busy' - Sends'
      <3>1. Busy \in Int /\ Sends \in Nat
        BY SendsCount DEF Busy
      <3>2. queueLen = Len(queue) + Busy - Sends
        BY DEF QInv
      <3> QED BY <2>3, <2>4, <3>1, <3>2
    <2> QED BY <2>3, <2>4, <2>5 DEF QInv
  <1>3. CASE ~(Len(queue) < QueueCap)
    <2> DEFINE r == [pc |-> "quarantine", job |-> j, ret |-> ret]
    <2>1. queue' = queue /\ thread' = [thread EXCEPT ![t] = r]
      BY <1>3 DEF WriteBlockJson
    <2>2. IsState(r) /\ r.pc = "quarantine"
      BY StatesMade
    <2> HIDE DEF r
    <2>3. ThreadsOK' /\ Busy' = Busy /\ Sends' = Sends
      <3>1. ThreadsOK /\ t \in Thread /\ t # "writer"
        BY DEF QInv
      <3>2. /\ ThreadsOK'
            /\ Sends' = Sends
                 - (IF thread[t].pc = "sent" THEN 1 ELSE 0) + (IF r.pc = "sent" THEN 1 ELSE 0)
            /\ Busy' = IF t # "writer" THEN Busy ELSE IF r.pc = "idle" THEN 0 ELSE 1
        BY Zenon, <2>1, <2>2, <3>1, ThreadMoves
      <3> QED BY <2>2, <3>1, <3>2, SendsCount
    <2> QED BY <2>1, <2>3 DEF QInv
  <1> QED BY <1>2, <1>3

(* A busy thread other than the writer goes on, not to or from a send.     *)
LEMMA ThreadGoesOn ==
  ASSUME QInv, NEW t \in Thread, thread[t].pc \notin {"idle", "sent"}, NEW r, IsState(r),
         r.pc # "sent", t = "writer" => r.pc \in {"idle", "quarantine", "write"},
         thread' = [thread EXCEPT ![t] = r], queue' = queue, running' = running,
         queueLen' = IF t = "writer" /\ r.pc = "idle" THEN queueLen - 1 ELSE queueLen
  PROVE  QInv'
  <1>1. running /\ running'
    BY StoppedStill
  <1>2. /\ ThreadsOK' /\ Sends' = Sends
        /\ Busy' = IF t # "writer" THEN Busy ELSE IF r.pc = "idle" THEN 0 ELSE 1
    <2>1. ThreadsOK
      BY DEF QInv
    <2>2. /\ ThreadsOK'
          /\ Sends' = Sends
                 - (IF thread[t].pc = "sent" THEN 1 ELSE 0) + (IF r.pc = "sent" THEN 1 ELSE 0)
          /\ Busy' = IF t # "writer" THEN Busy ELSE IF r.pc = "idle" THEN 0 ELSE 1
      BY Zenon, <2>1, ThreadMoves
    <2> QED BY <2>2, SendsCount
  <1>3. t = "writer" => Busy = 1
    BY DEF Busy
  <1>4. Len(queue) \in Nat
    BY QueueMoves DEF QInv
  <1>5. queueLen' = Len(queue') + Busy' - Sends' /\ queueLen' \in Int
    BY <1>2, <1>3, <1>4, SendsCount DEF QInv, Busy
  <1> QED BY <1>1, <1>2, <1>5 DEF QInv

(* A step that leaves the channel and the threads alone.                   *)
LEMMA StillQInv ==
  ASSUME QInv, UNCHANGED <<queue, queueLen, thread>>,
         running' \/ (running' = running /\ healer' = healer)
  PROVE  QInv'
  BY DEF QInv, ThreadsOK, Stopped, Busy, Sends, Waits

(* A send is counted.                                                      *)
LEMMA CountSentQInv ==
  ASSUME QInv, NEW t \in Thread, CountSent(t)
  PROVE  QInv'
  <1> DEFINE r == Returned(t)
  <1>1. /\ thread[t].pc = "sent" /\ queueLen' = queueLen + 1 /\ queue' = queue
        /\ thread' = [thread EXCEPT ![t] = r] /\ running' = running
    BY DEF CountSent
  <1>2. running /\ t # "writer" /\ ThreadsOK
    BY <1>1, StoppedStill DEF QInv, ThreadsOK
  <1>3. IsState(r) /\ r.pc \in {"idle", "returned"}
    <2>1. IsState(thread[t])
      BY <1>2 DEF ThreadsOK
    <2> QED BY <2>1, StatesMade DEF Returned
  <1> HIDE DEF r
  <1>4. /\ ThreadsOK'
        /\ Sends' = Sends
             - (IF thread[t].pc = "sent" THEN 1 ELSE 0) + (IF r.pc = "sent" THEN 1 ELSE 0)
        /\ Busy' = IF t # "writer" THEN Busy ELSE IF r.pc = "idle" THEN 0 ELSE 1
    BY Zenon, <1>1, <1>2, <1>3, ThreadMoves
  <1>5. PICK S : queue \in Seq(S)
    BY DEF QInv
  <1>6. Len(queue) \in Nat
    BY <1>5, QueueMoves
  <1>7. queueLen' = Len(queue') + Busy' - Sends' /\ queueLen' \in Int
    <2>1. Busy' = Busy /\ Busy \in {0, 1}
      BY <1>2, <1>4 DEF Busy
    <2>2. Sends' = Sends - 1
      BY <1>1, <1>3, <1>4, SendsCount
    <2> QED BY <1>1, <1>6, <2>1, <2>2, SendsCount DEF QInv
  <1> QED BY <1>1, <1>2, <1>4, <1>5, <1>7 DEF QInv

(* The writer takes a job: the channel is one shorter, the writer busy.    *)
LEMMA WriterTakesQInv ==
  ASSUME QInv, WriterTakes
  PROVE  QInv'
  <1> DEFINE r == [pc |-> "quarantine", job |-> Head(queue), ret |-> "done"]
  <1>1. /\ thread["writer"].pc = "idle" /\ queue # <<>> /\ queue' = Tail(queue)
        /\ thread' = [thread EXCEPT !["writer"] = r]
        /\ queueLen' = queueLen /\ running' = running
    BY DEF WriterTakes
  <1>2. running /\ ThreadsOK /\ "writer" \in Thread
    BY <1>1 DEF QInv, Stopped, Thread
  <1>3. IsState(r) /\ r.pc = "quarantine"
    BY StatesMade
  <1> HIDE DEF r
  <1>4. /\ ThreadsOK'
        /\ Sends' = Sends
             - (IF thread["writer"].pc = "sent" THEN 1 ELSE 0) + (IF r.pc = "sent" THEN 1 ELSE 0)
        /\ Busy' = IF "writer" # "writer" THEN Busy ELSE IF r.pc = "idle" THEN 0 ELSE 1
    BY Zenon, <1>1, <1>2, <1>3, ThreadMoves
  <1>5. PICK S : queue \in Seq(S)
    BY DEF QInv
  <1>6. Len(queue) \in Nat /\ queue' \in Seq(S) /\ Len(queue') = Len(queue) - 1
    BY <1>1, <1>5, QueueMoves
  <1>7. queueLen' = Len(queue') + Busy' - Sends' /\ queueLen' \in Int
    BY <1>1, <1>3, <1>4, <1>6, SendsCount DEF QInv, Busy
  <1> QED BY <1>1, <1>2, <1>4, <1>6, <1>7 DEF QInv

(* The steps of a write: the old file aside, the new one, or a disk error. *)
LEMMA WritingQInv ==
  ASSUME QInv, NEW t \in Thread, Quarantine(t) \/ Write(t) \/ WriteFails(t)
  PROVE  QInv'
  <1>1. IsState(thread[t]) /\ ThreadsOK /\ queueLen \in Int
    BY DEF QInv, ThreadsOK
  <1>2. CASE Quarantine(t)
    <2> DEFINE r == [thread[t] EXCEPT !.pc = "write"]
    <2>1. /\ thread[t].pc = "quarantine" /\ queue' = queue /\ queueLen' = queueLen
          /\ running' = running /\ thread' = [thread EXCEPT ![t] = r]
      BY <1>2 DEF Quarantine, channel
    <2>2. IsState(r) /\ r.pc = "write"
      BY <1>1, StatesMade
    <2> HIDE DEF r
    <2>3. queueLen' = IF t = "writer" /\ r.pc = "idle" THEN queueLen - 1 ELSE queueLen
      BY <2>1, <2>2
    <2> QED BY Zenon, <2>1, <2>2, <2>3, ThreadGoesOn
  <1>3. CASE Write(t)
    <2> DEFINE r == Returned(t)
    <2>1. /\ thread[t].pc = "write" /\ queue' = queue /\ running' = running
          /\ thread' = [thread EXCEPT ![t] = r]
          /\ queueLen' = IF t = "writer" THEN queueLen - 1 ELSE queueLen
      BY <1>3 DEF Write, CountOff
    <2>2. /\ IsState(r) /\ r.pc \in {"idle", "returned"}
          /\ t = "writer" => r.pc = "idle"
      BY <1>1, StatesMade DEF Returned
    <2> HIDE DEF r
    <2>3. queueLen' = IF t = "writer" /\ r.pc = "idle" THEN queueLen - 1 ELSE queueLen
      BY <2>1, <2>2
    <2> QED BY Zenon, <2>1, <2>2, <2>3, ThreadGoesOn
  <1>4. CASE WriteFails(t)
    <2>1. /\ thread[t].pc \in {"write", "rewrite"} /\ queue' = queue /\ running' = running
          /\ thread' = [thread EXCEPT ![t] = Idle]
          /\ queueLen' = IF t = "writer" THEN queueLen - 1 ELSE queueLen
      BY <1>4 DEF WriteFails, CountOff
    <2>2. IsState(Idle) /\ Idle.pc = "idle"
      BY StatesMade
    <2>3. queueLen' = IF t = "writer" /\ Idle.pc = "idle" THEN queueLen - 1 ELSE queueLen
      BY <2>1, <2>2
    <2> QED BY Zenon, <2>1, <2>2, <2>3, ThreadGoesOn
  <1> QED BY <1>2, <1>3, <1>4

(* A miner's call or the healer: a write_block_json, or nothing.           *)
LEMMA CallersQInv ==
  ASSUME QInv,
         P2pTakes \/ HealerFills \/ \E b \in Mined : SubmitBlock(b) \/ SubmitBlockExtended(b)
  PROVE  QInv'
  <1>1. {"p2p", "rpc", "healer"} \subseteq Thread \ {"writer"}
    BY DEF Thread
  <1>2. CASE P2pTakes
    <2>1. /\ running /\ thread["p2p"].pc = "idle" /\ queueLen' = queueLen /\ running' = running
          /\ \E list \in handed : WriteBlockJson("p2p", Head(list), "done")
      BY <1>2 DEF P2pTakes
    <2> QED BY <1>1, <2>1, WriteBlockJsonQInv
  <1>3. CASE HealerFills
    <2>1. /\ thread["healer"].pc = "idle" /\ queueLen' = queueLen /\ running' = running
          /\ \/ \E j : WriteBlockJson("healer", j, "done")
             \/ UNCHANGED <<queue, thread>>
      BY <1>3 DEF HealerFills
    <2>2. running
      BY <1>3 DEF HealerFills, QInv, Stopped
    <2>3. CASE \E j : WriteBlockJson("healer", j, "done")
      BY <1>1, <2>1, <2>2, <2>3, WriteBlockJsonQInv
    <2>4. CASE UNCHANGED <<queue, thread>>
      BY <2>1, <2>2, <2>4, StillQInv
    <2> QED BY <2>1, <2>3, <2>4
  <1>4. ASSUME NEW b \in Mined, SubmitBlock(b) \/ SubmitBlockExtended(b)
        PROVE  QInv'
    <2>1. /\ running /\ thread["rpc"].pc = "idle" /\ queueLen' = queueLen /\ running' = running
          /\ \/ \E j, ret : WriteBlockJson("rpc", j, ret)
             \/ UNCHANGED <<queue, thread>>
      BY <1>4 DEF SubmitBlock, SubmitBlockExtended, Submit
    <2>2. CASE \E j, ret : WriteBlockJson("rpc", j, ret)
      BY <1>1, <2>1, <2>2, WriteBlockJsonQInv
    <2>3. CASE UNCHANGED <<queue, thread>>
      BY <2>1, <2>3, StillQInv
    <2> QED BY <2>1, <2>2, <2>3
  <1> QED BY <1>2, <1>3, <1>4

(* The steps of write_block_json_with_source after its first write.        *)
LEMMA RpcQInv ==
  ASSUME QInv, RpcAnnotates \/ RpcRewrites
  PROVE  QInv'
  <1>1. "rpc" \in Thread /\ IsState(thread["rpc"]) /\ "rpc" # "writer"
    BY DEF QInv, ThreadsOK, Thread
  <1>2. \E r : /\ IsState(r) /\ r.pc # "sent" /\ thread' = [thread EXCEPT !["rpc"] = r]
    <2>1. CASE RpcAnnotates
      <3> DEFINE o == thread["rpc"]
                 write(ret) == [o EXCEPT !.pc = "quarantine", !.ret = ret]
                 rewrite(v) == [pc |-> "rewrite", job |-> o.job, value |-> v]
      <3>1. \/ \E ret : thread' = [thread EXCEPT !["rpc"] = write(ret)]
            \/ \E v : thread' = [thread EXCEPT !["rpc"] = rewrite(v)]
        <4> DEFINE content == files[o.job.height]
                   kept == IF content = NoFile THEN Headerless ELSE content
                   first == o.ret = "source" /\ content # o.job.block
                   second == o.ret = "readback" /\ content = NoFile
        <4>1. thread' = [thread EXCEPT !["rpc"] =
                CASE first -> write("readback") [] second -> write("again")
                  [] OTHER -> rewrite(kept)]
          BY <2>1 DEF RpcAnnotates
        <4>5. ~(first /\ second)
          OBVIOUS
        <4> HIDE DEF o, write, rewrite, content, kept, first, second
        <4>2. CASE first /\ ~second
          BY Zenon, <4>1, <4>2
        <4>3. CASE second /\ ~first
          BY Zenon, <4>1, <4>3
        <4>4. CASE ~first /\ ~second
          BY Zenon, <4>1, <4>4
        <4> QED BY <4>2, <4>3, <4>4, <4>5
      <3>2. \A ret : IsState(write(ret)) /\ write(ret).pc = "quarantine"
        BY Zenon, <1>1 DEF IsState
      <3>3. \A v : IsState(rewrite(v)) /\ rewrite(v).pc = "rewrite"
        BY StatesMade
      <3> QED BY Zenon, <3>1, <3>2, <3>3
    <2>2. CASE RpcRewrites
      BY Zenon, <2>2, StatesMade DEF RpcRewrites
    <2> QED BY <2>1, <2>2
  <1>3. /\ thread["rpc"].pc \in {"returned", "rewrite"}
        /\ queue' = queue /\ queueLen' = queueLen /\ running' = running
    BY DEF RpcAnnotates, RpcRewrites, channel
  <1> QED BY Zenon, <1>1, <1>2, <1>3, ThreadGoesOn

(* The process ends with nothing in memory, and starts again that way.     *)
LEMMA EndQInv ==
  ASSUME QInv, Exit \/ Restart
  PROVE  QInv'
  <1>1. CASE Exit
    <2>1. /\ thread' = [t \in Thread |-> Idle] /\ queue' = <<>> /\ queueLen' = 0
          /\ healer' = HealerIdle
      BY <1>1 DEF Exit
    <2>2. ThreadsOK' /\ Busy' = 0 /\ Sends' = 0 /\ Stopped'
      BY <2>1, StatesMade DEF ThreadsOK, Busy, Sends, Waits, Stopped, Thread
    <2>3. Len(<<>>) = 0 /\ <<>> \in Seq({})
      OBVIOUS
    <2> QED BY <2>1, <2>2, <2>3 DEF QInv
  <1>2. CASE Restart
    BY <1>2, StillQInv DEF Restart, channel
  <1> QED BY <1>1, <1>2

(* Every step keeps the counter.                                           *)
LEMMA NextQInv == QInv /\ [Next]_vars => QInv'
  <1> SUFFICES ASSUME QInv, [Next]_vars
               PROVE  QInv'
    OBVIOUS
  <1>1. ASSUME NEW t \in Thread, ThreadStep(t) \/ WriteFails(t)
        PROVE  QInv'
    <2>1. CASE CountSent(t)
      BY <2>1, CountSentQInv
    <2>2. CASE Quarantine(t) \/ Write(t) \/ WriteFails(t)
      BY <2>2, WritingQInv
    <2>3. CASE WriterTakes
      BY <2>3, WriterTakesQInv
    <2>4. CASE P2pTakes \/ HealerFills
      BY <2>4, CallersQInv
    <2>5. CASE RpcAnnotates \/ RpcRewrites
      BY <2>5, RpcQInv
    <2>6. CASE HealerScans \/ HealerResumes
      BY <2>6, StillQInv DEF HealerScans, HealerResumes, channel
    <2> QED BY <1>1, <2>1, <2>2, <2>3, <2>4, <2>5, <2>6 DEF ThreadStep
  <1>2. ASSUME NEW b, ReceiveInbound(b) \/ ReceiveOutbound(b)
        PROVE  QInv'
    BY <1>2, StillQInv DEF ReceiveInbound, ReceiveOutbound, channel
  <1>3. ASSUME NEW b \in Mined, SubmitBlock(b) \/ SubmitBlockExtended(b)
        PROVE  QInv'
    BY <1>3, CallersQInv
  <1>4. CASE Crash \/ Drained \/ Restart
    BY <1>4, EndQInv DEF Crash, Drained
  <1>5. CASE UNCHANGED vars
    BY <1>5, StillQInv DEF vars, channel
  <1> QED BY <1>1, <1>2, <1>3, <1>4, <1>5 DEF Next

(* Nothing is queued at the start.                                         *)
LEMMA InitQInv == Init => QInv
  <1> SUFFICES ASSUME Init
               PROVE  QInv
    OBVIOUS
  <1>1. ThreadsOK /\ Busy = 0 /\ Sends = 0 /\ running
    BY StatesMade DEF Init, ThreadsOK, Busy, Sends, Waits, Thread
  <1>2. Len(<<>>) = 0 /\ <<>> \in Seq({})
    OBVIOUS
  <1> QED BY <1>1, <1>2 DEF Init, QInv

(* PERSIST_QUEUE_LEN is the number of jobs in the channel or with the      *)
(* writer less the sends not counted yet, through full queues, disk        *)
(* errors, crashes and restarts: what drain_persist_queue waits for.       *)
THEOREM QueueCounterExact == Spec => []QueueLenExact
  <1>1. QInv => QueueLenExact
    BY DEF QInv, QueueLenExact, Busy, Sends, Waits
  <1> QED BY <1>1, InitQInv, NextQInv, PTL DEF Spec
-----------------------------------------------------------------------------
(* A thread that has looked at the file of its height and not yet replaced *)
(* it, and what it will put there.                                         *)
Replacing(r) == r.pc \in {"write", "rewrite"}

New(r) == IF r.pc = "write" THEN r.job.block ELSE r.value

OInv ==
  /\ files = [h \in Heights |-> files[h]]
  /\ \A t \in Thread : thread[t].pc # "idle" => "job" \in DOMAIN thread[t]
  /\ \A t \in Thread :
       /\ Replacing(thread[t])
       /\ thread[t].job.height \in Heights \ (failed \cup raced)
       => files[thread[t].job.height] \in {NoFile, Headerless, New(thread[t])}
  /\ \A t, u \in Thread :
       /\ t # u /\ Replacing(thread[t]) /\ Replacing(thread[u])
       /\ thread[t].job.height = thread[u].job.height
       => thread[t].job.height \in raced

(* One thread moves.  Only a thread about to replace a file changes it     *)
(* other than by moving it aside, and a thread that comes to replace a     *)
(* file has just seen what it holds.                                       *)
LEMMA MoveOInv ==
  ASSUME OInv, ThreadsOK, NEW t \in Thread, NEW r,
         thread' = [thread EXCEPT ![t] = r],
         raced \subseteq raced', failed \subseteq failed',
         files' = [h \in Heights |-> files'[h]],
         r.pc # "idle" => "job" \in DOMAIN r,
         \A h \in Heights :
           \/ files'[h] \in {files[h], NoFile}
           \/ Replacing(thread[t]) /\ h = thread[t].job.height,
         Replacing(r) =>
           /\ (\E u \in Thread \ {t} : /\ Replacing(thread[u])
                                       /\ thread[u].job.height = r.job.height)
                => r.job.height \in raced'
           /\ r.job.height \in Heights \ (failed' \cup raced')
                => files'[r.job.height] \in {NoFile, Headerless, New(r)}
  PROVE  OInv'
  <1>1. thread' = [u \in Thread |-> IF u = t THEN r ELSE thread[u]]
    BY DEF ThreadsOK
  <1>2. \A u \in Thread : thread'[u].pc # "idle" => "job" \in DOMAIN thread'[u]
    BY <1>1 DEF OInv
  <1>3. ASSUME NEW u \in Thread, Replacing(thread'[u]),
               thread'[u].job.height \in Heights \ (failed' \cup raced')
        PROVE  files'[thread'[u].job.height] \in {NoFile, Headerless, New(thread'[u])}
    <2>1. CASE u = t
      BY <1>1, <1>3, <2>1
    <2>2. CASE u # t
      <3> DEFINE h == thread[u].job.height
      <3>1. /\ thread'[u] = thread[u] /\ Replacing(thread[u])
            /\ h \in Heights \ (failed' \cup raced')
        BY <1>1, <1>3, <2>2
      <3>2. h \notin failed \cup raced
        BY <3>1
      <3>3. files[h] \in {NoFile, Headerless, New(thread[u])}
        BY <3>1, <3>2 DEF OInv
      <3>4. ~(Replacing(thread[t]) /\ h = thread[t].job.height)
        BY <2>2, <3>1, <3>2 DEF OInv
      <3>5. files'[h] \in {files[h], NoFile}
        BY <3>1, <3>4
      <3> QED BY <3>1, <3>3, <3>5
    <2> QED BY <2>1, <2>2
  <1>4. ASSUME NEW u \in Thread, NEW v \in Thread, u # v,
               Replacing(thread'[u]), Replacing(thread'[v]),
               thread'[u].job.height = thread'[v].job.height
        PROVE  thread'[u].job.height \in raced'
    <2>1. CASE u = t
      BY <1>1, <1>4, <2>1
    <2>2. CASE v = t
      BY <1>1, <1>4, <2>2
    <2>3. CASE u # t /\ v # t
      BY <1>1, <1>4, <2>3 DEF OInv
    <2> QED BY <2>1, <2>2, <2>3
  <1> QED BY <1>2, <1>3, <1>4 DEF OInv, Replacing, New

(* A thread moves on without a look at its file or a change to it.         *)
LEMMA ElsewhereOInv ==
  ASSUME OInv, ThreadsOK, NEW t \in Thread, NEW r,
         thread' = [thread EXCEPT ![t] = r], files' = files,
         raced \subseteq raced', failed \subseteq failed',
         r.pc # "idle" => "job" \in DOMAIN r, ~Replacing(r)
  PROVE  OInv'
  <1>1. files' = [h \in Heights |-> files'[h]]
    BY DEF OInv
  <1>2. \A h \in Heights : files'[h] \in {files[h], NoFile}
    OBVIOUS
  <1> QED BY Zenon, <1>1, <1>2, MoveOInv

(* A step that leaves the threads, the files and the marks alone.          *)
LEMMA StillOInv ==
  ASSUME OInv, UNCHANGED <<thread, files, failed, raced>>
  PROVE  OInv'
  BY DEF OInv, Replacing, New

(* The states that have a job.                                             *)
LEMMA JobsMade ==
  /\ Idle.pc = "idle"
  /\ \A c, j, x : LET r == [pc |-> c, job |-> j, ret |-> x]
                  IN  r.pc = c /\ "job" \in DOMAIN r /\ r.job = j
  /\ \A c, j, x : LET r == [pc |-> c, job |-> j, value |-> x]
                  IN  r.pc = c /\ "job" \in DOMAIN r /\ r.job = j /\ r.value = x
  /\ \A r, c : IsState(r) /\ "job" \in DOMAIN r =>
       LET n == [r EXCEPT !.pc = c] IN n.pc = c /\ "job" \in DOMAIN n /\ n.job = r.job
  <1>1. Idle.pc = "idle"
    BY DEF Idle
  <1>2. ASSUME NEW r, NEW c, IsState(r), "job" \in DOMAIN r
        PROVE  LET n == [r EXCEPT !.pc = c] IN n.pc = c /\ "job" \in DOMAIN n /\ n.job = r.job
    BY <1>2 DEF IsState
  <1> QED BY <1>1, <1>2

(* After a write or a count the thread is idle or still has its job.       *)
LEMMA ReturnedHasJob ==
  ASSUME OInv, ThreadsOK, NEW t \in Thread, thread[t].pc # "idle"
  PROVE  LET r == Returned(t) IN ~Replacing(r) /\ (r.pc # "idle" => "job" \in DOMAIN r)
  <1>1. IsState(thread[t]) /\ "job" \in DOMAIN thread[t]
    BY DEF OInv, ThreadsOK
  <1> QED BY <1>1, JobsMade DEF Returned, Replacing

(* A call of write_block_json leaves the files alone.                      *)
LEMMA WriteBlockJsonOInv ==
  ASSUME OInv, ThreadsOK, NEW t \in Thread, NEW j, NEW ret, WriteBlockJson(t, j, ret),
         UNCHANGED <<files, failed, raced>>
  PROVE  OInv'
  <1> DEFINE r(c) == [pc |-> c, job |-> j, ret |-> ret]
  <1>1. PICK c \in {"sent", "quarantine"} : thread' = [thread EXCEPT ![t] = r(c)]
    BY DEF WriteBlockJson
  <1>2. "job" \in DOMAIN r(c) /\ ~Replacing(r(c))
    BY JobsMade DEF Replacing
  <1> HIDE DEF r
  <1> QED BY Zenon, <1>1, <1>2, ElsewhereOInv

(* Overlapping marks the height when another thread is replacing its file. *)
LEMMA OverlapMarked ==
  ASSUME NEW t \in Thread, raced' = Overlapping(t)
  PROVE  /\ raced \subseteq raced'
         /\ (\E u \in Thread \ {t} : /\ Replacing(thread[u])
                                     /\ thread[u].job.height = thread[t].job.height)
              => thread[t].job.height \in raced'
  BY DEF Overlapping, Replacing

(* Moving the old file aside: the thread sees no file, its own block, or   *)
(* the rename failed.                                                      *)
LEMMA QuarantineOInv ==
  ASSUME OInv, ThreadsOK, NEW t \in Thread, Quarantine(t)
  PROVE  OInv'
  <1> DEFINE r == [thread[t] EXCEPT !.pc = "write"]
             h == thread[t].job.height
  <1>1. /\ thread[t].pc = "quarantine" /\ raced' = Overlapping(t)
        /\ thread' = [thread EXCEPT ![t] = r]
        /\ \/ files[h] \in {NoFile, thread[t].job.block} /\ files' = files /\ failed' = failed
           \/ files' = [files EXCEPT ![h] = NoFile] /\ failed' = failed
           \/ files' = files /\ failed' = failed \cup {h}
    BY DEF Quarantine
  <1>2. IsState(thread[t]) /\ "job" \in DOMAIN thread[t]
    BY <1>1 DEF OInv, ThreadsOK
  <1>3. r.pc = "write" /\ "job" \in DOMAIN r /\ r.job = thread[t].job
    BY <1>2, JobsMade
  <1> HIDE DEF r
  <1>4. New(r) = thread[t].job.block /\ Replacing(r)
    BY <1>3 DEF New, Replacing
  <1>5. /\ files' = [x \in Heights |-> files'[x]]
        /\ \A x \in Heights : files'[x] \in {files[x], NoFile}
        /\ h \in Heights \ failed' => files'[h] \in {NoFile, thread[t].job.block}
    BY <1>1 DEF OInv
  <1>6. failed \subseteq failed'
    BY <1>1
  <1> QED BY Zenon, <1>1, <1>3, <1>4, <1>5, <1>6, OverlapMarked, MoveOInv

(* The file is replaced, by write_block_json or by the annotation.         *)
LEMMA ReplaceOInv ==
  ASSUME OInv, ThreadsOK, NEW t \in Thread, Write(t) \/ (t = "rpc" /\ RpcRewrites)
  PROVE  OInv'
  <1> DEFINE h == thread[t].job.height
  <1>1. /\ Replacing(thread[t]) /\ failed' = failed /\ raced' = raced
        /\ files' = [files EXCEPT ![h] = New(thread[t])]
    BY Zenon DEF Write, RpcRewrites, history, Replacing, New
  <1>2. \E r : /\ thread' = [thread EXCEPT ![t] = r] /\ ~Replacing(r)
               /\ r.pc # "idle" => "job" \in DOMAIN r
    <2>1. CASE Write(t)
      BY Zenon, <2>1, ReturnedHasJob DEF Write
    <2>2. CASE t = "rpc" /\ RpcRewrites
      BY Zenon, <2>2, JobsMade DEF RpcRewrites, Replacing
    <2> QED BY <2>1, <2>2
  <1>3. /\ files' = [x \in Heights |-> files'[x]]
        /\ \A x \in Heights : files'[x] = files[x] \/ x = h
    BY <1>1 DEF OInv
  <1> QED BY Zenon, <1>1, <1>2, <1>3, MoveOInv

(* write_block_json_with_source reads the file before it replaces it.      *)
LEMMA AnnotateOInv ==
  ASSUME OInv, ThreadsOK, RpcAnnotates
  PROVE  OInv'
  <1> DEFINE o == thread["rpc"]
             content == files[o.job.height]
             kept == IF content = NoFile THEN Headerless ELSE content
             write(ret) == [o EXCEPT !.pc = "quarantine", !.ret = ret]
             rewrite == [pc |-> "rewrite", job |-> o.job, value |-> kept]
  <1>1. /\ o.pc = "returned" /\ raced' = Overlapping("rpc") /\ files' = files
        /\ failed' = failed /\ "rpc" \in Thread
    BY DEF RpcAnnotates, Thread
  <1>2. IsState(o) /\ "job" \in DOMAIN o
    BY <1>1 DEF OInv, ThreadsOK
  <1>3. \/ \E ret : thread' = [thread EXCEPT !["rpc"] = write(ret)]
        \/ thread' = [thread EXCEPT !["rpc"] = rewrite]
    <2> DEFINE first == o.ret = "source" /\ content # o.job.block
               second == o.ret = "readback" /\ content = NoFile
    <2>1. thread' = [thread EXCEPT !["rpc"] =
            CASE first -> write("readback") [] second -> write("again")
              [] OTHER -> rewrite]
      BY DEF RpcAnnotates
    <2>2. ~(first /\ second)
      OBVIOUS
    <2> HIDE DEF o, write, rewrite, content, kept, first, second
    <2>3. CASE first /\ ~second
      BY Zenon, <2>1, <2>3
    <2>4. CASE second /\ ~first
      BY Zenon, <2>1, <2>4
    <2>5. CASE ~first /\ ~second
      BY <2>1, <2>5
    <2> QED BY <2>2, <2>3, <2>4, <2>5
  <1>4. raced \subseteq raced' /\ failed \subseteq failed'
    BY <1>1, OverlapMarked
  <1>5. ASSUME NEW ret, thread' = [thread EXCEPT !["rpc"] = write(ret)]
        PROVE  OInv'
    <2>1. "job" \in DOMAIN write(ret) /\ ~Replacing(write(ret))
      BY <1>2 DEF IsState, Replacing
    <2> HIDE DEF write
    <2> QED BY Zenon, <1>1, <1>4, <1>5, <2>1, ElsewhereOInv
  <1>6. CASE thread' = [thread EXCEPT !["rpc"] = rewrite]
    <2>1. rewrite.job = o.job /\ "job" \in DOMAIN rewrite /\ New(rewrite) = kept
      BY JobsMade DEF New
    <2>2. files' = [x \in Heights |-> files'[x]] /\ \A x \in Heights : files'[x] = files[x]
      BY <1>1 DEF OInv
    <2>3. files'[o.job.height] \in {NoFile, Headerless, kept}
      BY <1>1
    <2> HIDE DEF rewrite, kept
    <2> QED BY Zenon, <1>1, <1>4, <1>6, <2>1, <2>2, <2>3, OverlapMarked, MoveOInv
  <1> QED BY Zenon, <1>3, <1>5, <1>6

(* Every step keeps the overwriting invariant.                             *)
LEMMA NextOInv == QInv /\ OInv /\ [Next]_vars => OInv'
  <1> SUFFICES ASSUME QInv, OInv, [Next]_vars
               PROVE  OInv'
    OBVIOUS
  <1>1. ThreadsOK /\ {"writer", "p2p", "rpc", "healer"} \subseteq Thread
    BY DEF QInv, Thread
  <1>2. ASSUME NEW t \in Thread, ThreadStep(t) \/ WriteFails(t)
        PROVE  OInv'
    <2>1. CASE CountSent(t)
      <3> DEFINE r == Returned(t)
      <3>1. /\ thread[t].pc = "sent" /\ thread' = [thread EXCEPT ![t] = r]
            /\ files' = files /\ raced' = raced /\ failed' = failed
        BY <2>1 DEF CountSent, history
      <3>2. ~Replacing(r) /\ (r.pc # "idle" => "job" \in DOMAIN r)
        BY <1>1, <3>1, ReturnedHasJob
      <3> HIDE DEF r
      <3> QED BY Zenon, <1>1, <3>1, <3>2, ElsewhereOInv
    <2>2. CASE Quarantine(t)
      BY <1>1, <2>2, QuarantineOInv
    <2>3. CASE Write(t) \/ (t = "rpc" /\ RpcRewrites)
      BY <1>1, <2>3, ReplaceOInv
    <2>4. CASE WriteFails(t)
      <3>1. /\ thread' = [thread EXCEPT ![t] = Idle] /\ files' = files
            /\ raced' = raced /\ failed \subseteq failed'
        BY <2>4 DEF WriteFails
      <3>2. Idle.pc = "idle" /\ ~Replacing(Idle)
        BY JobsMade DEF Replacing
      <3> QED BY Zenon, <1>1, <3>1, <3>2, ElsewhereOInv
    <2>5. CASE WriterTakes
      <3> DEFINE r == [pc |-> "quarantine", job |-> Head(queue), ret |-> "done"]
      <3>1. /\ thread' = [thread EXCEPT !["writer"] = r]
            /\ files' = files /\ raced' = raced /\ failed' = failed
        BY <2>5 DEF WriterTakes, history
      <3>2. "job" \in DOMAIN r /\ ~Replacing(r)
        BY JobsMade DEF Replacing
      <3> HIDE DEF r
      <3> QED BY Zenon, <1>1, <3>1, <3>2, ElsewhereOInv
    <2>6. CASE P2pTakes
      BY <1>1, <2>6, WriteBlockJsonOInv DEF P2pTakes, history
    <2>7. CASE t = "rpc" /\ RpcAnnotates
      BY <1>1, <2>7, AnnotateOInv
    <2>8. CASE HealerScans \/ HealerResumes
      BY <2>8, StillOInv DEF HealerScans, HealerResumes, history
    <2>9. CASE HealerFills
      <3>1. /\ (\E j : WriteBlockJson("healer", j, "done")) \/ thread' = thread
            /\ UNCHANGED <<files, failed, raced>>
        BY <2>9 DEF HealerFills, history
      <3>2. CASE \E j : WriteBlockJson("healer", j, "done")
        BY <1>1, <3>1, <3>2, WriteBlockJsonOInv
      <3>3. CASE thread' = thread
        BY <3>1, <3>3, StillOInv
      <3> QED BY <3>1, <3>2, <3>3
    <2> QED BY <1>2, <2>1, <2>2, <2>3, <2>4, <2>5, <2>6, <2>7, <2>8, <2>9 DEF ThreadStep
  <1>3. ASSUME NEW b, ReceiveInbound(b) \/ ReceiveOutbound(b)
        PROVE  OInv'
    BY <1>3, StillOInv DEF ReceiveInbound, ReceiveOutbound
  <1>4. ASSUME NEW b \in Mined, SubmitBlock(b) \/ SubmitBlockExtended(b)
        PROVE  OInv'
    <2>1. /\ (\E j, ret : WriteBlockJson("rpc", j, ret)) \/ thread' = thread
          /\ UNCHANGED <<files, failed, raced>>
      BY <1>4 DEF SubmitBlock, SubmitBlockExtended, Submit
    <2>2. CASE \E j, ret : WriteBlockJson("rpc", j, ret)
      BY <1>1, <2>1, <2>2, WriteBlockJsonOInv
    <2>3. CASE thread' = thread
      BY <2>1, <2>3, StillOInv
    <2> QED BY <2>1, <2>2, <2>3
  <1>5. CASE Exit
    <2>1. thread' = [t \in Thread |-> Idle] /\ files' = files
      BY <1>5 DEF Exit
    <2>2. \A t \in Thread : thread'[t].pc = "idle"
      BY <2>1, JobsMade
    <2> QED BY <2>1, <2>2 DEF OInv, Replacing
  <1>6. CASE Restart
    <2>1. /\ thread' = thread /\ \A t \in Thread : thread[t].pc = "idle"
          /\ files' = Readable(files)
      BY <1>6, JobsMade DEF Restart, QInv, Stopped
    <2> QED BY <2>1 DEF OInv, Replacing, Readable
  <1>7. CASE UNCHANGED vars
    BY <1>7, StillOInv DEF vars, history
  <1> QED BY <1>2, <1>3, <1>4, <1>5, <1>6, <1>7 DEF Next, Crash, Drained

(* A step that replaces a file replaces one its thread has looked at.      *)
LEMMA OverwriteSeen ==
  ASSUME QInv, OInv, Next, NEW h \in Heights
  PROVE  \/ files[h] \in {NoFile, Headerless, files'[h]} \/ files'[h] = NoFile
         \/ h \in failed \cup raced
  <1>1. ASSUME NEW t \in Thread, Write(t) \/ (t = "rpc" /\ RpcRewrites)
        PROVE  \/ files[h] \in {NoFile, Headerless, files'[h]} \/ h \in failed \cup raced
    <2>1. /\ Replacing(thread[t])
          /\ files' = [files EXCEPT ![thread[t].job.height] = New(thread[t])]
      BY Zenon, <1>1 DEF Write, RpcRewrites, Replacing, New
    <2>2. CASE h = thread[t].job.height
      <3>1. h \in failed \cup raced \/ files[h] \in {NoFile, Headerless, New(thread[t])}
        BY <2>1, <2>2 DEF OInv
      <3>2. files'[h] = New(thread[t])
        BY <2>1, <2>2 DEF OInv
      <3> QED BY <3>1, <3>2
    <2>3. CASE h # thread[t].job.height
      BY <2>1, <2>3
    <2> QED BY <2>2, <2>3
  <1>2. ASSUME NEW t \in Thread, Quarantine(t)
        PROVE  files'[h] \in {files[h], NoFile}
    BY Zenon, <1>2 DEF Quarantine, OInv
  <1>3. CASE Restart
    BY <1>3 DEF Restart, Readable
  <1>4. CASE files' = files
    BY <1>4
  <1>5. ASSUME NEW t \in Thread, ThreadStep(t) \/ WriteFails(t)
        PROVE  \/ Write(t) \/ (t = "rpc" /\ RpcRewrites) \/ Quarantine(t)
               \/ files' = files
    BY Zenon, <1>5 DEF ThreadStep, WriteFails, CountSent, WriterTakes, P2pTakes, RpcAnnotates,
       HealerScans, HealerResumes, HealerFills
  <1>6. ASSUME NEW b, ReceiveInbound(b) \/ ReceiveOutbound(b) \/ SubmitBlock(b)
               \/ SubmitBlockExtended(b) \/ Exit
        PROVE  files' = files
    BY <1>6 DEF ReceiveInbound, ReceiveOutbound, SubmitBlock, SubmitBlockExtended, Submit, Exit
  <1> QED BY <1>1, <1>2, <1>3, <1>4, <1>5, <1>6 DEF Next, Crash, Drained

(* Nobody is writing at the start.                                         *)
LEMMA InitOInv == Init => OInv
  BY JobsMade DEF Init, OInv, Replacing

(* maybe_quarantine_existing_block does its work: a file of one block is   *)
(* never replaced by that of another without having been moved aside,      *)
(* unless two threads write the height at once or a rename or write failed *)
(* there, for any blocks, queue capacity and order of the threads' steps.  *)
THEOREM FilesNotOverwritten == Spec => NoSilentOverwrite
  <1>1. ASSUME QInv, OInv, [Next]_vars
        PROVE  [\A h \in Heights :
                  \/ files[h] \in {NoFile, Headerless, files'[h]} \/ files'[h] = NoFile
                  \/ h \in failed \cup raced]_vars
    BY <1>1, OverwriteSeen
  <1> QED BY <1>1, InitQInv, InitOInv, NextQInv, NextOInv, PTL DEF Spec, NoSilentOverwrite

-----------------------------------------------------------------------------

(* The greatest height is one.                                             *)
LEMMA MaxHeightProps ==
  /\ MaxHeight \in Nat
  /\ \E b \in Block : Height(b) = MaxHeight
  /\ \A b \in Block : Height(b) \in 0..MaxHeight
  /\ \A b \in Block \ {Genesis} : JobOf(b) \in Job
  <1> DEFINE S == {Height(b) : b \in Block}
  <1>1. PICK top \in Block : \A b \in Block : Height(b) <= Height(top)
    BY DiskAssumption
  <1>2. \A b \in Block : Height(b) \in Nat
    BY HeightRec
  <1>3. S \in SUBSET (0..Height(top)) /\ S # {}
    BY <1>1, <1>2
  <1>4. MaxHeight = Max(S)
    BY DEF MaxHeight
  <1> HIDE DEF S
  <1>5. MaxHeight \in S /\ \A x \in S : x <= MaxHeight
    BY Zenon, <1>1, <1>3, <1>4, GreatestHeight
  <1>6. MaxHeight \in Nat /\ \A b \in Block : Height(b) <= MaxHeight
    BY <1>2, <1>5 DEF S
  <1>7. \A b \in Block : Height(b) \in 0..MaxHeight
    BY <1>2, <1>6
  <1>8. ASSUME NEW b \in Block \ {Genesis} PROVE JobOf(b) \in Job
    <2>1. Height(b) = Height(Parent[b]) + 1 /\ Parent[b] \in Block
      BY HeightRec, TreeAssumption
    <2>2. Height(b) \in Heights
      BY <1>2, <1>6, <1>7, <2>1 DEF Heights
    <2> QED BY <2>2 DEF JobOf, Job
  <1>9. \E b \in Block : Height(b) = MaxHeight
    BY <1>5 DEF S
  <1> QED BY <1>6, <1>7, <1>8, <1>9

(* So any of the heights have a least and a greatest among them.           *)
LEMMA HeightsBounded ==
  ASSUME NEW S \in SUBSET (0..MaxHeight), S # {}
  PROVE  /\ Min(S) \in S /\ \A x \in S : Min(S) <= x
         /\ Max(S) \in S /\ \A x \in S : x <= Max(S)
  <1>1. PICK b \in Block : Height(b) = MaxHeight
    BY MaxHeightProps
  <1> QED BY <1>1, LeastHeight, GreatestHeight

-----------------------------------------------------------------------------
(* Block x at height h is on the chain of a block once adopted as tip.     *)
Adopted(h, x) == \E y \in seen : Height(y) >= h /\ At(y, h) = x

(* The jobs a node may have: if it never changed branches, on that branch. *)
GoodJobs == {j \in Job : OneBranch => Adopted(j.height, j.block)}

GoodFile(h, x) ==
  /\ x \in (Block \ {Genesis}) \cup {NoFile, Headerless}
  /\ OneBranch /\ x # NoFile => Adopted(h, x)

ChainOK ==
  /\ seen \subseteq Block
  /\ known \subseteq Block /\ Genesis \in known /\ tip \in known
  /\ tip # Genesis => JobOf(tip) \in GoodJobs

JobsOK ==
  /\ handed \subseteq Seq(GoodJobs) \ {<<>>}
  /\ queue \in Seq(GoodJobs) /\ Len(queue) <= QueueCap

(* The annotation reads the file back after it has written it.             *)
GoodState(t, r) ==
  /\ IsState(r)
  /\ r.pc # "idle" => r.job \in GoodJobs
  /\ r.pc \notin {"idle", "rewrite"} => {"job", "ret"} \subseteq DOMAIN r
  /\ t # "rpc" => r.pc \notin {"returned", "rewrite"}
  /\ r.pc = "sent" => r.ret \in {"source", "done"}
  /\ r.pc \in {"quarantine", "write"} => r.ret \in {"source", "readback", "again", "done"}
  /\ r.pc = "returned" => r.ret \in {"source", "readback", "again"}
  /\ r.pc = "rewrite" => GoodFile(r.job.height, r.value) /\ r.value # NoFile

ThreadsGood ==
  /\ thread = [t \in Thread |-> thread[t]]
  /\ \A t \in Thread : GoodState(t, thread[t])

Annotating ==
  OneBranch /\ thread["rpc"].pc = "returned" /\ thread["rpc"].ret = "again"
    => files[thread["rpc"].job.height] # NoFile

HealerOK ==
  /\ targets \subseteq Heights
  /\ healer # HealerIdle => healer \in [batch : (SUBSET Heights) \ {{}}, top : Nat]

FilesOK ==
  /\ files = [h \in Heights |-> files[h]]
  /\ \A h \in Heights : GoodFile(h, files[h])
  /\ contiguous \in 0..MaxHeight /\ highest \in 0..MaxHeight
  /\ OneBranch => \A h \in 1..contiguous : files[h] # NoFile
  /\ NoHoleBelowContiguous

(* The inductive invariant of the contents.                                *)
CInv ==
  /\ ChainOK
  /\ JobsOK
  /\ ThreadsGood
  /\ Annotating
  /\ HealerOK
  /\ FilesOK

(* An idle thread is in a good state.                                      *)
LEMMA IdleGood == Idle.pc = "idle" /\ \A t : GoodState(t, Idle)
  <1>1. Idle.pc = "idle" /\ IsState(Idle)
    BY DEF Idle, IsState
  <1> QED BY <1>1 DEF GoodState

(* On one branch a height has one block.                                   *)
LEMMA AdoptedOnce ==
  ASSUME OneBranch, seen \subseteq Block, NEW h \in Nat, NEW x, NEW z,
         Adopted(h, x), Adopted(h, z)
  PROVE  x = z
  <1>1. ASSUME NEW y \in seen, NEW w \in seen, Height(y) <= Height(w), Height(y) >= h
        PROVE  At(y, h) = At(w, h)
    <2>1. y \in Block /\ w \in Block /\ Height(y) \in Nat /\ Height(w) \in Nat
      BY HeightRec
    <2>2. At(w, Height(y)) = y
      BY <1>1 DEF OneBranch
    <2>3. h \in 0..Height(y) /\ Height(y) \in 0..Height(w)
      BY <1>1, <2>1
    <2>4. \A k \in 0..Height(y) : At(At(w, Height(y)), k) = At(w, k)
      BY <2>1, <2>3, AtProps
    <2> QED BY <2>2, <2>3, <2>4
  <1>2. PICK y \in seen : Height(y) >= h /\ At(y, h) = x
    BY DEF Adopted
  <1>3. PICK w \in seen : Height(w) >= h /\ At(w, h) = z
    BY DEF Adopted
  <1>4. Height(y) \in Nat /\ Height(w) \in Nat
    BY HeightRec
  <1>5. Height(y) <= Height(w) \/ Height(w) <= Height(y)
    BY <1>4
  <1> QED BY <1>1, <1>2, <1>3, <1>5

(* Adopting more makes more jobs and files good, and none bad.             *)
LEMMA GoodGrows ==
  ASSUME seen \subseteq seen'
  PROVE  /\ OneBranch' => OneBranch
         /\ \A h, x : Adopted(h, x) => Adopted(h, x)'
         /\ GoodJobs \subseteq GoodJobs'
         /\ \A h, x : GoodFile(h, x) => GoodFile(h, x)'
         /\ \A t, r : GoodState(t, r) => GoodState(t, r)'
  <1>1. OneBranch' => OneBranch
    BY DEF OneBranch
  <1>2. \A h, x : Adopted(h, x) => Adopted(h, x)'
    BY DEF Adopted
  <1>3. GoodJobs \subseteq GoodJobs'
    BY <1>1, <1>2 DEF GoodJobs
  <1>4. \A h, x : GoodFile(h, x) => GoodFile(h, x)'
    BY <1>1, <1>2 DEF GoodFile
  <1>5. ASSUME NEW t, NEW r, GoodState(t, r) PROVE GoodState(t, r)'
    BY <1>3, <1>4, <1>5 DEF GoodState
  <1> QED BY <1>1, <1>2, <1>3, <1>4, <1>5

(* The blocks of the main chain make good jobs.                            *)
LEMMA ChainJobs ==
  ASSUME ChainOK, NEW h \in 1..Height(tip)
  PROVE  JobOf(At(tip, h)) \in GoodJobs /\ JobOf(At(tip, h)).height = h
         /\ At(tip, h) \in Block
  <1> DEFINE x == At(tip, h)
  <1>1. tip \in Block /\ Height(tip) \in Nat
    BY HeightRec DEF ChainOK
  <1>2. h \in 0..Height(tip) /\ h # 0 /\ h \in Nat
    BY <1>1
  <1>3. x \in Block /\ Height(x) = h /\ x # Genesis
    BY <1>1, <1>2, AtProps
  <1>4. tip # Genesis
    BY <1>1, <1>2, HeightRec
  <1>5. JobOf(x) \in Job
    BY <1>3, MaxHeightProps
  <1>6. JobOf(x).height = h /\ JobOf(x).block = x
    BY <1>3 DEF JobOf
  <1>7. ASSUME OneBranch PROVE Adopted(h, x)
    <2>1. Adopted(Height(tip), tip)
      BY <1>4, <1>7 DEF ChainOK, GoodJobs, JobOf
    <2>2. PICK y \in seen : Height(y) >= Height(tip) /\ At(y, Height(tip)) = tip
      BY <2>1 DEF Adopted
    <2>3. y \in Block /\ Height(y) \in Nat
      BY HeightRec DEF ChainOK
    <2>4. Height(tip) \in 0..Height(y) /\ h \in 0..Height(tip) /\ Height(y) >= h
      BY <1>1, <1>2, <2>2, <2>3
    <2>5. \A k \in 0..Height(tip) : At(At(y, Height(tip)), k) = At(y, k)
      BY <2>3, <2>4, AtProps
    <2>6. At(y, h) = x
      BY <2>2, <2>4, <2>5
    <2> QED BY <2>4, <2>6 DEF Adopted
  <1> HIDE DEF x
  <1>8. JobOf(x) \in GoodJobs
    BY <1>5, <1>6, <1>7 DEF GoodJobs
  <1> QED BY <1>3, <1>6, <1>8 DEF x

(* So do a block just adopted and its parent.                              *)
LEMMA AdoptedJobs ==
  ASSUME NEW b \in Block \ {Genesis}, b \in seen'
  PROVE  /\ JobOf(b) \in GoodJobs'
         /\ Height(b) # 1 => JobOf(Parent[b]) \in GoodJobs'
  <1>1. /\ Height(b) \in Nat /\ Parent[b] \in Block /\ Height(b) = Height(Parent[b]) + 1
        /\ Height(Parent[b]) \in Nat
    BY HeightRec, TreeAssumption
  <1>2. Height(b) \in 0..Height(b) /\ Height(b) # 0 /\ Height(b) - 1 = Height(Parent[b])
    BY <1>1
  <1>3. At(b, Height(b)) = b /\ Parent[b] = At(b, Height(b) - 1)
    BY <1>2, AtProps
  <1>4. Adopted(Height(b), b)'
    BY <1>1, <1>3 DEF Adopted
  <1>5. Adopted(Height(Parent[b]), Parent[b])'
    BY <1>1, <1>2, <1>3 DEF Adopted
  <1>6. JobOf(b) \in Job /\ JobOf(b).height = Height(b) /\ JobOf(b).block = b
    BY MaxHeightProps DEF JobOf
  <1>7. JobOf(b) \in GoodJobs'
    BY <1>4, <1>6 DEF GoodJobs
  <1>8. ASSUME Height(b) # 1 PROVE JobOf(Parent[b]) \in GoodJobs'
    <2>1. Parent[b] # Genesis
      BY <1>1, <1>8, HeightRec
    <2>2. /\ JobOf(Parent[b]) \in Job /\ JobOf(Parent[b]).height = Height(Parent[b])
          /\ JobOf(Parent[b]).block = Parent[b]
      BY <1>1, <2>1, MaxHeightProps DEF JobOf
    <2> QED BY <1>5, <2>2 DEF GoodJobs
  <1> QED BY <1>7, <1>8

(* How far maybe_advance_contiguous gets.                                  *)
LEMMA AdvanceProps ==
  ASSUME NEW c \in 0..MaxHeight, NEW top, NEW fs
  PROVE  LET a == AdvanceContiguous(c, top, fs) IN
           a \in c..MaxHeight /\ \A h \in (c + 1)..a : fs[h] # NoFile
  <1> DEFINE S == {c} \cup {n \in Heights : n <= top /\ \A h \in (c + 1)..n : fs[h] # NoFile}
             a == AdvanceContiguous(c, top, fs)
  <1>1. MaxHeight \in Nat
    BY MaxHeightProps
  <1>2. S \in SUBSET (0..MaxHeight) /\ S # {} /\ c \in S
    BY <1>1 DEF Heights
  <1>3. a = Max(S)
    BY DEF AdvanceContiguous
  <1>4. \A n \in S : \A h \in (c + 1)..n : fs[h] # NoFile
    <2>1. \A h \in (c + 1)..c : FALSE
      OBVIOUS
    <2> QED BY <2>1
  <1> HIDE DEF S, a
  <1>5. a \in S /\ c <= a
    BY <1>1, <1>2, <1>3, HeightsBounded
  <1>6. a \in 0..MaxHeight
    BY <1>2, <1>5
  <1>7. a \in c..MaxHeight
    BY <1>1, <1>5, <1>6
  <1> QED BY <1>4, <1>5, <1>7 DEF a

(* And how far a replay of the files does.                                 *)
LEMMA ReplayProps ==
  ASSUME NEW fs
  PROVE  /\ ReplayHeight(fs) \in 0..MaxHeight
         /\ \A h \in 1..ReplayHeight(fs) : Connects(fs, h)
         /\ \A n \in 0..MaxHeight : (\A h \in 1..n : Connects(fs, h)) => n <= ReplayHeight(fs)
  <1> DEFINE S == {0} \cup {n \in Heights : \A h \in 1..n : Connects(fs, h)}
             a == ReplayHeight(fs)
  <1>1. MaxHeight \in Nat
    BY MaxHeightProps
  <1>2. S \in SUBSET (0..MaxHeight) /\ S # {}
    BY <1>1 DEF Heights
  <1>3. a = Max(S)
    BY DEF ReplayHeight
  <1>4. \A n \in S : \A h \in 1..n : Connects(fs, h)
    OBVIOUS
  <1>5. \A n \in 0..MaxHeight : (\A h \in 1..n : Connects(fs, h)) => n \in S
    BY <1>1 DEF Heights
  <1> HIDE DEF S, a
  <1>6. a \in S /\ \A n \in S : n <= a
    BY Zenon, <1>2, <1>3, HeightsBounded
  <1>7. a \in 0..MaxHeight
    BY <1>2, <1>6
  <1> QED BY <1>4, <1>5, <1>6, <1>7 DEF a

(* Unless a block is adopted, good is the same after as before.            *)
LEMMA SameGood ==
  ASSUME seen' = seen
  PROVE  /\ OneBranch' = OneBranch /\ GoodJobs' = GoodJobs
         /\ \A h, x : GoodFile(h, x)' <=> GoodFile(h, x)
  <1>1. OneBranch' = OneBranch
    BY DEF OneBranch
  <1>2. \A h, x : Adopted(h, x)' <=> Adopted(h, x)
    BY DEF Adopted
  <1> QED BY <1>1, <1>2 DEF GoodJobs, GoodFile

(* One thread moves to a good state.                                       *)
LEMMA ThreadsStay ==
  ASSUME ThreadsGood, NEW t \in Thread, NEW r, GoodState(t, r)',
         thread' = [thread EXCEPT ![t] = r], seen \subseteq seen'
  PROVE  ThreadsGood'
  <1>1. thread' = [u \in Thread |-> IF u = t THEN r ELSE thread[u]]
    BY DEF ThreadsGood
  <1>2. ASSUME NEW u \in Thread, u # t PROVE GoodState(u, thread[u])'
    <2>1. thread'[u] = thread[u] /\ GoodState(u, thread[u])
      BY <1>1, <1>2 DEF ThreadsGood
    <2>2. GoodJobs \subseteq GoodJobs' /\ \A h, x : GoodFile(h, x) => GoodFile(h, x)'
      BY GoodGrows
    <2> QED BY <2>1, <2>2 DEF GoodState
  <1>3. GoodState(t, thread[t])'
    <2>1. thread'[t] = r
      BY <1>1
    <2> QED BY <2>1 DEF GoodState
  <1>4. (thread = [u \in Thread |-> thread[u]])'
    BY Zenon, <1>1
  <1> QED BY <1>2, <1>3, <1>4 DEF ThreadsGood

(* And no block is adopted.                                                *)
LEMMA ThreadsKeep ==
  ASSUME ThreadsGood, NEW t \in Thread, NEW r, GoodState(t, r),
         thread' = [thread EXCEPT ![t] = r], seen' = seen
  PROVE  ThreadsGood'
  <1>1. GoodState(t, r)' /\ seen \subseteq seen'
    BY GoodGrows
  <1> QED BY Zenon, <1>1, ThreadsStay

(* The files stay good, and the holes accounted for, when a thread moves   *)
(* other than from moving a file aside to idle.                            *)
LEMMA FilesStay ==
  ASSUME FilesOK, UNCHANGED <<files, contiguous, highest, running>>, seen \subseteq seen', ThreadsGood,
         NEW t \in Thread, NEW r, thread' = [thread EXCEPT ![t] = r], failed \subseteq failed',
         thread[t].pc = "write" => thread[t].job.height \in failed'
  PROVE  FilesOK'
  <1>1. thread' = [u \in Thread |-> IF u = t THEN r ELSE thread[u]]
    BY DEF ThreadsGood
  <1>2. NoHoleBelowContiguous'
    <2> SUFFICES ASSUME NEW h \in 1..contiguous', files'[h] = NoFile
                 PROVE  \/ h \in failed'
                        \/ \E u \in Thread : thread'[u].pc = "write" /\ thread'[u].job.height = h
                        \/ ~running'
      BY DEF NoHoleBelowContiguous
    <2>1. \/ h \in failed
          \/ \E u \in Thread : thread[u].pc = "write" /\ thread[u].job.height = h
          \/ ~running
      BY DEF FilesOK, NoHoleBelowContiguous
    <2>2. ASSUME NEW u \in Thread, thread[u].pc = "write", thread[u].job.height = h
          PROVE  h \in failed' \/ (thread'[u].pc = "write" /\ thread'[u].job.height = h)
      BY <1>1, <2>2
    <2> QED BY <2>1, <2>2
  <1>3. (OneBranch' => OneBranch) /\ \A h, x : GoodFile(h, x) => GoodFile(h, x)'
    BY GoodGrows
  <1> QED BY <1>2, <1>3 DEF FilesOK

(* They do when no thread moves.                                           *)
LEMMA FilesStill ==
  ASSUME FilesOK, UNCHANGED <<files, contiguous, highest, running, thread, failed>>,
         seen \subseteq seen'
  PROVE  FilesOK'
  <1>1. NoHoleBelowContiguous'
    BY DEF FilesOK, NoHoleBelowContiguous
  <1>2. (OneBranch' => OneBranch) /\ \A h, x : GoodFile(h, x) => GoodFile(h, x)'
    BY GoodGrows
  <1> QED BY <1>1, <1>2 DEF FilesOK

(* The annotation's file is not taken away on one branch.                  *)
LEMMA AnnotatingStays ==
  ASSUME ThreadsGood, Annotating, NEW t \in Thread, NEW r,
         thread' = [thread EXCEPT ![t] = r], seen \subseteq seen',
         t = "rpc" => ~(r.pc = "returned" /\ r.ret = "again"),
         OneBranch => \A h \in Heights : files[h] # NoFile => files'[h] # NoFile
  PROVE  Annotating'
  <1>1. thread' = [u \in Thread |-> IF u = t THEN r ELSE thread[u]] /\ "rpc" \in Thread
    BY Zenon DEF ThreadsGood, Thread
  <1>2. OneBranch' => OneBranch
    BY GoodGrows
  <1>3. CASE t = "rpc"
    BY <1>1, <1>3 DEF Annotating
  <1>4. CASE t # "rpc"
    <2>1. thread'["rpc"] = thread["rpc"]
      BY <1>1, <1>4
    <2>2. thread["rpc"].pc = "returned" => thread["rpc"].job.height \in Heights
      BY <1>1 DEF ThreadsGood, GoodState, GoodJobs, Job
    <2> QED BY <1>2, <2>1, <2>2 DEF Annotating
  <1> QED BY <1>3, <1>4

(* A call of write_block_json with a good job.                             *)
LEMMA CallCInv ==
  ASSUME CInv, NEW t \in Thread, thread[t].pc = "idle",
         NEW j, j \in GoodJobs', NEW ret \in {"source", "done"}, WriteBlockJson(t, j, ret),
         handed' \subseteq Seq(GoodJobs') \ {<<>>}, ChainOK', HealerOK', seen \subseteq seen',
         UNCHANGED <<files, contiguous, highest, running, failed>>
  PROVE  CInv'
  <1> DEFINE r(c) == [pc |-> c, job |-> j, ret |-> ret]
  <1>1. PICK c \in {"sent", "quarantine"} : thread' = [thread EXCEPT ![t] = r(c)]
    BY DEF WriteBlockJson
  <1>2. /\ r(c).pc = c /\ r(c).job = j /\ r(c).ret = ret /\ DOMAIN r(c) = {"pc", "job", "ret"}
        /\ IsState(r(c))
    BY DEF IsState
  <1> HIDE DEF r
  <1>3. GoodState(t, r(c))'
    BY <1>2 DEF GoodState
  <1>4. ThreadsGood'
    BY Zenon, <1>1, <1>3, ThreadsStay DEF CInv
  <1>5. Annotating'
    BY Zenon, <1>1, <1>2, AnnotatingStays DEF CInv
  <1>6. FilesOK'
    BY Zenon, <1>1, FilesStay DEF CInv
  <1>7. queue' \in Seq(GoodJobs') /\ Len(queue') <= QueueCap
    <2>1. queue \in Seq(GoodJobs) /\ Len(queue) <= QueueCap /\ GoodJobs \subseteq GoodJobs'
      BY Zenon, GoodGrows DEF CInv, JobsOK
    <2>2. queue \in Seq(GoodJobs') /\ Len(queue) \in Nat
      BY <2>1
    <2>3. Append(queue, j) \in Seq(GoodJobs') /\ Len(Append(queue, j)) = Len(queue) + 1
      BY <2>2
    <2>4. QueueCap \in Nat
      BY DiskAssumption
    <2>5. queue' = queue \/ (Len(queue) < QueueCap /\ queue' = Append(queue, j))
      BY DEF WriteBlockJson
    <2> QED BY <2>1, <2>2, <2>3, <2>4, <2>5
  <1>8. JobsOK'
    BY <1>7 DEF JobsOK
  <1> QED BY <1>4, <1>5, <1>6, <1>8 DEF CInv

(* The chain in memory stays good while it does not change.                *)
LEMMA ChainStays ==
  ASSUME ChainOK, UNCHANGED <<known, tip, seen>>
  PROVE  ChainOK' /\ GoodJobs' = GoodJobs
  BY SameGood DEF ChainOK

(* A thread that moves without changing file or chain.                     *)
LEMMA MovesCInv ==
  ASSUME CInv, NEW t \in Thread, NEW r, GoodState(t, r),
         thread' = [thread EXCEPT ![t] = r],
         t = "rpc" => ~(r.pc = "returned" /\ r.ret = "again"),
         thread[t].pc = "write" => thread[t].job.height \in failed',
         failed \subseteq failed', JobsOK', HealerOK',
         UNCHANGED <<known, tip, seen, files, contiguous, highest, running>>
  PROVE  CInv'
  <1>1. ThreadsGood' /\ Annotating' /\ FilesOK'
    BY Zenon, ThreadsKeep, AnnotatingStays, FilesStay DEF CInv
  <1>2. ChainOK'
    BY ChainStays DEF CInv
  <1> QED BY <1>1, <1>2 DEF CInv

(* One that does not touch the channel either.                             *)
LEMMA GoesOnCInv ==
  ASSUME CInv, NEW t \in Thread, NEW r, GoodState(t, r),
         thread' = [thread EXCEPT ![t] = r],
         t = "rpc" => ~(r.pc = "returned" /\ r.ret = "again"),
         thread[t].pc = "write" => thread[t].job.height \in failed',
         failed \subseteq failed', targets' \subseteq targets,
         UNCHANGED <<known, tip, handed, queue, healer, seen, files, contiguous, highest, running>>
  PROVE  CInv'
  <1>1. JobsOK'
    BY ChainStays DEF CInv, JobsOK
  <1>2. HealerOK'
    BY DEF CInv, HealerOK
  <1> QED BY Zenon, <1>1, <1>2, MovesCInv

(* Only the healer moves.                                                  *)
LEMMA StillCInv ==
  ASSUME CInv, HealerOK', failed' = failed,
         UNCHANGED <<known, tip, handed, queue, thread, seen, files, contiguous, highest, running>>
  PROVE  CInv'
  <1>1. OneBranch' = OneBranch /\ GoodJobs' = GoodJobs
        /\ \A h, x : GoodFile(h, x)' <=> GoodFile(h, x)
    BY SameGood
  <1>2. ThreadsGood' /\ Annotating'
    BY <1>1 DEF CInv, ThreadsGood, GoodState, Annotating
  <1>3. ChainOK' /\ JobsOK' /\ FilesOK'
    BY <1>1, ChainStays, FilesStill DEF CInv, JobsOK
  <1> QED BY <1>2, <1>3 DEF CInv

(* What a thread does after the call.                                      *)
LEMMA ReturnedGood ==
  ASSUME ThreadsGood, NEW t \in Thread, thread[t].pc \in {"sent", "write"}
  PROVE  LET r == Returned(t) IN
         /\ GoodState(t, r)
         /\ r.pc = "returned" => t = "rpc" /\ r.ret = thread[t].ret /\ r.job = thread[t].job
  <1> DEFINE o == thread[t]
             n == [o EXCEPT !.pc = "returned"]
  <1>1. IsState(o) /\ GoodState(t, o)
    BY DEF ThreadsGood, GoodState
  <1>2. /\ o.job \in GoodJobs /\ {"job", "ret"} \subseteq DOMAIN o
        /\ o.ret \in {"source", "readback", "again", "done"}
    BY <1>1 DEF GoodState
  <1>3. /\ n.pc = "returned" /\ n.job = o.job /\ n.ret = o.ret
        /\ {"job", "ret"} \subseteq DOMAIN n /\ IsState(n)
    BY <1>1, <1>2 DEF IsState
  <1>4. Returned(t) = IF t = "rpc" /\ o.ret # "done" THEN n ELSE Idle
    BY DEF Returned
  <1> HIDE DEF o, n
  <1>5. CASE t = "rpc" /\ o.ret # "done"
    <2>1. GoodState(t, n)
      BY <1>2, <1>3, <1>5 DEF GoodState
    <2> QED BY <1>3, <1>4, <1>5, <2>1 DEF o
  <1>6. CASE ~(t = "rpc" /\ o.ret # "done")
    <2>1. Idle.pc = "idle" /\ GoodState(t, Idle)
      BY IdleGood
    <2> QED BY <1>4, <1>6, <2>1
  <1> QED BY <1>5, <1>6

(* A send is counted.                                                      *)
LEMMA CountSentCInv ==
  ASSUME CInv, NEW t \in Thread, CountSent(t)
  PROVE  CInv'
  <1> DEFINE r == Returned(t)
  <1>1. /\ thread[t].pc = "sent" /\ thread' = [thread EXCEPT ![t] = r]
        /\ UNCHANGED <<known, tip, handed, queue, healer, seen, files, contiguous, highest, running>>
        /\ failed' = failed /\ targets' \subseteq targets
    BY DEF CountSent, MarkFilled, memory, counters, history
  <1>2. thread[t].ret # "again"
    BY <1>1 DEF CInv, ThreadsGood, GoodState
  <1>3. GoodState(t, r) /\ (r.pc = "returned" => r.ret = thread[t].ret)
    BY <1>1, ReturnedGood DEF CInv
  <1> HIDE DEF r
  <1> QED BY Zenon, <1>1, <1>2, <1>3, GoesOnCInv

(* A write fails.                                                          *)
LEMMA WriteFailsCInv ==
  ASSUME CInv, NEW t \in Thread, WriteFails(t)
  PROVE  CInv'
  <1>1. /\ thread' = [thread EXCEPT ![t] = Idle]
        /\ UNCHANGED <<known, tip, handed, queue, healer, seen, files, contiguous, highest, running>>
        /\ failed' = failed \cup {thread[t].job.height} /\ targets' = targets
    BY DEF WriteFails, memory, counters
  <1>2. Idle.pc = "idle" /\ GoodState(t, Idle)
    BY IdleGood
  <1> QED BY Zenon, <1>1, <1>2, GoesOnCInv

(* The writer takes a job off the channel.                                 *)
LEMMA WriterTakesCInv ==
  ASSUME CInv, WriterTakes
  PROVE  CInv'
  <1> DEFINE r == [pc |-> "quarantine", job |-> Head(queue), ret |-> "done"]
  <1>1. /\ thread["writer"].pc = "idle" /\ queue # <<>> /\ queue' = Tail(queue)
        /\ thread' = [thread EXCEPT !["writer"] = r]
        /\ UNCHANGED <<known, tip, handed, healer, seen, files, contiguous, highest, running>>
        /\ failed' = failed /\ targets' = targets /\ "writer" \in Thread
    BY DEF WriterTakes, memory, counters, history, Thread
  <1>2. /\ r.pc = "quarantine" /\ r.job = Head(queue) /\ r.ret = "done"
        /\ DOMAIN r = {"pc", "job", "ret"} /\ IsState(r)
    BY DEF IsState
  <1>3. queue \in Seq(GoodJobs) /\ Len(queue) <= QueueCap /\ QueueCap \in Nat
    BY DiskAssumption DEF CInv, JobsOK
  <1>4. Head(queue) \in GoodJobs /\ Tail(queue) \in Seq(GoodJobs)
        /\ Len(Tail(queue)) = Len(queue) - 1 /\ Len(queue) \in Nat
    BY <1>1, <1>3
  <1>5. GoodState("writer", r)
    BY <1>2, <1>4 DEF GoodState
  <1> HIDE DEF r
  <1>6. GoodJobs' = GoodJobs
    BY <1>1, ChainStays DEF CInv
  <1>7. Len(queue') <= QueueCap
    BY <1>1, <1>3, <1>4
  <1>8. JobsOK' /\ HealerOK'
    BY <1>1, <1>4, <1>6, <1>7 DEF CInv, JobsOK, HealerOK
  <1> QED BY Zenon, <1>1, <1>5, <1>8, MovesCInv

(* The persist task takes a job handed over.                               *)
LEMMA P2pTakesCInv ==
  ASSUME CInv, P2pTakes
  PROVE  CInv'
  <1>1. /\ thread["p2p"].pc = "idle" /\ "p2p" \in Thread
        /\ UNCHANGED <<known, tip, healer, targets, seen, files, contiguous, highest, running>>
        /\ failed' = failed
    BY DEF P2pTakes, counters, history, Thread
  <1>2. PICK list \in handed :
          /\ WriteBlockJson("p2p", Head(list), "done")
          /\ handed' = (handed \ {list}) \cup (IF Len(list) > 1 THEN {Tail(list)} ELSE {})
    BY DEF P2pTakes
  <1>3. handed \subseteq Seq(GoodJobs) \ {<<>>} /\ list \in Seq(GoodJobs) /\ list # <<>>
    BY <1>2 DEF CInv, JobsOK
  <1>4. /\ Head(list) \in GoodJobs /\ Tail(list) \in Seq(GoodJobs)
        /\ Len(Tail(list)) = Len(list) - 1 /\ Len(list) \in Nat
    BY <1>3
  <1>5. Len(list) > 1 => Tail(list) # <<>>
    <2> DEFINE q == Tail(list)
    <2>1. Len(list) > 1 => Len(q) # 0
      BY <1>4
    <2>2. Len(<<>>) = 0
      OBVIOUS
    <2> HIDE DEF q
    <2>3. Len(list) > 1 => q # <<>>
      BY <2>1, <2>2
    <2> QED BY <2>3 DEF q
  <1>6. handed' \subseteq Seq(GoodJobs) \ {<<>>}
    BY <1>2, <1>3, <1>4, <1>5
  <1>7. ChainOK' /\ GoodJobs' = GoodJobs /\ HealerOK'
    BY <1>1, ChainStays DEF CInv, HealerOK
  <1> QED BY <1>1, <1>2, <1>4, <1>6, <1>7, CallCInv

-----------------------------------------------------------------------------
(* A file is replaced by a good one, and the counters follow.              *)
LEMMA ReplaceFilesOK ==
  ASSUME FilesOK, ThreadsGood, NEW t \in Thread, NEW r, thread' = [thread EXCEPT ![t] = r],
         NEW h \in Heights, NEW x, GoodFile(h, x), x # NoFile,
         files' = [files EXCEPT ![h] = x],
         thread[t].pc = "write" => thread[t].job.height = h,
         contiguous' \in 0..MaxHeight, highest' \in 0..MaxHeight,
         \A k \in (contiguous + 1)..contiguous' : files'[k] # NoFile,
         UNCHANGED <<seen, running, failed>>
  PROVE  FilesOK'
  <1>1. thread' = [u \in Thread |-> IF u = t THEN r ELSE thread[u]]
    BY DEF ThreadsGood
  <1>2. files' = [k \in Heights |-> IF k = h THEN x ELSE files[k]]
    BY DEF FilesOK
  <1>3. files' = [k \in Heights |-> files'[k]]
    BY Zenon, <1>2
  <1>4. OneBranch' = OneBranch /\ \A k, y : GoodFile(k, y)' <=> GoodFile(k, y)
    BY Zenon, SameGood
  <1>5. (\A k \in Heights : GoodFile(k, files[k]))'
    BY <1>2, <1>4 DEF FilesOK, GoodFile
  <1>6. \A k \in 1..contiguous' : k \in 1..contiguous \/ files'[k] # NoFile
    BY DEF FilesOK
  <1>7. \A k \in 1..contiguous : k \in Heights
    BY MaxHeightProps DEF FilesOK, Heights
  <1>8. \A k \in 1..contiguous : files[k] # NoFile => files'[k] # NoFile
    BY <1>2, <1>7
  <1>9. OneBranch' => \A k \in 1..contiguous' : files'[k] # NoFile
    BY <1>4, <1>6, <1>8 DEF FilesOK
  <1>10. NoHoleBelowContiguous'
    <2> SUFFICES ASSUME NEW k \in 1..contiguous', files'[k] = NoFile
                 PROVE  \/ k \in failed'
                        \/ \E u \in Thread : thread'[u].pc = "write" /\ thread'[u].job.height = k
                        \/ ~running'
      BY DEF NoHoleBelowContiguous
    <2>1. k \in 1..contiguous /\ files[k] = NoFile /\ k # h
      BY <1>2, <1>6, <1>7, <1>8
    <2>2. \/ k \in failed
          \/ \E u \in Thread : thread[u].pc = "write" /\ thread[u].job.height = k
          \/ ~running
      BY <2>1 DEF FilesOK, NoHoleBelowContiguous
    <2>3. ASSUME NEW u \in Thread, thread[u].pc = "write", thread[u].job.height = k
          PROVE  thread'[u].pc = "write" /\ thread'[u].job.height = k
      BY <1>1, <2>1, <2>3
    <2> QED BY <2>2, <2>3
  <1> QED BY <1>3, <1>5, <1>9, <1>10 DEF FilesOK

(* The file of another block is moved aside: never, on one branch.         *)
LEMMA QuarantineCInv ==
  ASSUME CInv, NEW t \in Thread, Quarantine(t)
  PROVE  CInv'
  <1> DEFINE o == thread[t]
             h == o.job.height
             r == [o EXCEPT !.pc = "write"]
  <1>1. /\ o.pc = "quarantine" /\ thread' = [thread EXCEPT ![t] = r]
        /\ UNCHANGED <<known, tip, handed, queue, healer, seen, contiguous, highest, running>>
        /\ targets' = targets /\ failed \subseteq failed'
        /\ \/ files' = files
           \/ files[h] \notin {NoFile, o.job.block} /\ files' = [files EXCEPT ![h] = NoFile]
    BY DEF Quarantine, memory, channel, counters
  <1>2. IsState(o) /\ GoodState(t, o)
    BY DEF CInv, ThreadsGood, GoodState
  <1>3. /\ o.job \in GoodJobs /\ {"job", "ret"} \subseteq DOMAIN o
        /\ o.ret \in {"source", "readback", "again", "done"}
    BY <1>1, <1>2 DEF GoodState
  <1>4. /\ r.pc = "write" /\ r.job = o.job /\ r.ret = o.ret
        /\ {"job", "ret"} \subseteq DOMAIN r /\ IsState(r)
    BY <1>2, <1>3 DEF IsState
  <1>5. h \in Heights /\ o.job.block \in Block \ {Genesis}
        /\ (OneBranch => Adopted(h, o.job.block))
    BY <1>3 DEF GoodJobs, Job
  <1> HIDE DEF r
  <1>6. GoodState(t, r)
    BY <1>3, <1>4 DEF GoodState
  <1>7. CASE files' = files
    BY Zenon, <1>1, <1>4, <1>6, <1>7, GoesOnCInv
  <1>8. CASE files[h] \notin {NoFile, o.job.block} /\ files' = [files EXCEPT ![h] = NoFile]
    <2>1. ~OneBranch
      <3> SUFFICES ASSUME OneBranch PROVE FALSE
        OBVIOUS
      <3>1. Adopted(h, files[h])
        BY <1>5, <1>8 DEF CInv, FilesOK, GoodFile
      <3>2. seen \subseteq Block /\ h \in Nat
        BY <1>5 DEF CInv, ChainOK, Heights
      <3> HIDE DEF h
      <3> QED BY <1>5, <1>8, <3>1, <3>2, AdoptedOnce
    <2>2. ~OneBranch' /\ GoodJobs' = GoodJobs /\ \A k, y : GoodFile(k, y)' <=> GoodFile(k, y)
      <3>1. seen' = seen
        BY Zenon, <1>1
      <3> QED BY <2>1, <3>1, SameGood
    <2>3. ThreadsGood'
      BY Zenon, <1>1, <1>6, ThreadsKeep DEF CInv
    <2>4. thread' = [u \in Thread |-> IF u = t THEN r ELSE thread[u]]
      BY <1>1 DEF CInv, ThreadsGood
    <2>5. files' = [k \in Heights |-> IF k = h THEN NoFile ELSE files[k]]
      BY <1>8 DEF CInv, FilesOK
    <2>6. files' = [k \in Heights |-> files'[k]]
      BY <2>5
    <2>7. (\A k \in Heights : GoodFile(k, files[k]))'
      <3>1. \A k \in Heights : GoodFile(k, files'[k])
        BY <2>5 DEF CInv, FilesOK, GoodFile
      <3> QED BY <2>2, <3>1 DEF GoodFile
    <2>8. NoHoleBelowContiguous'
      <3> SUFFICES ASSUME NEW k \in 1..contiguous', files'[k] = NoFile
                   PROVE  \/ k \in failed'
                          \/ \E u \in Thread : thread'[u].pc = "write" /\ thread'[u].job.height = k
                          \/ ~running'
        BY DEF NoHoleBelowContiguous
      <3>1. CASE k = h
        BY Zenon, <1>4, <2>4, <3>1
      <3>2. CASE k # h
        <4>1. k \in Heights
          BY <1>1, MaxHeightProps DEF CInv, FilesOK, Heights
        <4>2. files[k] = NoFile
          BY <2>5, <3>2, <4>1
        <4>3. \/ k \in failed
              \/ \E u \in Thread : thread[u].pc = "write" /\ thread[u].job.height = k
              \/ ~running
          BY <1>1, <4>2 DEF CInv, FilesOK, NoHoleBelowContiguous
        <4>4. ASSUME NEW u \in Thread, thread[u].pc = "write", thread[u].job.height = k
              PROVE  thread'[u].pc = "write" /\ thread'[u].job.height = k
          BY Zenon, <1>1, <2>4, <4>4
        <4> QED BY Zenon, <1>1, <4>3, <4>4
      <3> QED BY <3>1, <3>2
    <2>9. FilesOK'
      BY <1>1, <2>2, <2>6, <2>7, <2>8 DEF CInv, FilesOK
    <2>10. ChainOK' /\ JobsOK' /\ HealerOK'
      BY <1>1, <2>2, ChainStays DEF CInv, JobsOK, HealerOK
    <2> QED BY <2>2, <2>3, <2>9, <2>10 DEF CInv, Annotating
  <1> QED BY Zenon, <1>1, <1>7, <1>8

(* A thread replaces the file, and the counters follow.                    *)
LEMMA WriteCInv ==
  ASSUME CInv, NEW t \in Thread, Write(t)
  PROVE  CInv'
  <1> DEFINE o == thread[t]
             h == o.job.height
             b == o.job.block
             r == Returned(t)
  <1>1. /\ o.pc = "write" /\ thread' = [thread EXCEPT ![t] = r]
        /\ files' = [files EXCEPT ![h] = b] /\ highest' = Max({highest, h})
        /\ contiguous' = IF h <= contiguous THEN contiguous
                         ELSE AdvanceContiguous(contiguous, highest', files')
        /\ UNCHANGED <<known, tip, handed, queue, healer, seen, running, failed>>
        /\ targets' \subseteq targets
    BY Zenon DEF Write, MarkFilled, memory, history
  <1>2. /\ h \in Heights /\ b \in Block \ {Genesis} /\ (OneBranch => Adopted(h, b))
    BY <1>1 DEF CInv, ThreadsGood, GoodState, GoodJobs, Job
  <1>3. GoodFile(h, b) /\ b # NoFile
    BY <1>2, DiskAssumption DEF GoodFile
  <1>4. /\ GoodState(t, r)
        /\ r.pc = "returned" => t = "rpc" /\ r.ret = o.ret /\ r.job = o.job
    BY Zenon, <1>1, ReturnedGood DEF CInv
  <1> HIDE DEF r, h, b
  <1>5. contiguous \in 0..MaxHeight /\ highest \in 0..MaxHeight /\ MaxHeight \in Nat
    BY MaxHeightProps DEF CInv, FilesOK
  <1>6. h \in 1..MaxHeight
    BY <1>2 DEF Heights
  <1>7. highest' \in 0..MaxHeight
    <2>1. Max({highest, h}) = IF highest <= h THEN h ELSE highest
      BY <1>5, <1>6, MaxOfTwo
    <2> QED BY <1>1, <1>5, <1>6, <2>1
  <1>8. /\ contiguous' \in 0..MaxHeight
        /\ \A k \in (contiguous + 1)..contiguous' : files'[k] # NoFile
    <2>1. CASE h <= contiguous
      BY <1>1, <1>5, <2>1
    <2>2. CASE ~(h <= contiguous)
      <3> DEFINE a == AdvanceContiguous(contiguous, highest', files')
      <3>1. a \in contiguous..MaxHeight /\ \A k \in (contiguous + 1)..a : files'[k] # NoFile
        BY <1>5, AdvanceProps
      <3>2. contiguous' = a
        BY <1>1, <2>2
      <3> HIDE DEF a
      <3> QED BY <1>5, <3>1, <3>2
    <2> QED BY <2>1, <2>2
  <1>9. FilesOK'
    BY Zenon, <1>1, <1>2, <1>3, <1>7, <1>8, ReplaceFilesOK DEF CInv, h
  <1>10. ThreadsGood'
    BY Zenon, <1>1, <1>4, ThreadsKeep DEF CInv
  <1>11. \A k \in Heights : files'[k] = IF k = h THEN b ELSE files[k]
    BY <1>1 DEF CInv, FilesOK
  <1>12. Annotating'
    <2>1. CASE r.pc = "returned"
      <3>1. thread'["rpc"] = r /\ r.job.height = h
        BY <1>1, <1>4, <2>1 DEF CInv, ThreadsGood, h
      <3> QED BY Zenon, <1>2, <1>3, <1>11, <3>1 DEF Annotating
    <2>2. CASE r.pc # "returned"
      <3>1. \A k \in Heights : files[k] # NoFile => files'[k] # NoFile
        BY <1>3, <1>11
      <3> QED BY Zenon, <1>1, <2>2, <3>1, AnnotatingStays DEF CInv
    <2> QED BY <2>1, <2>2
  <1>13. ChainOK' /\ JobsOK' /\ HealerOK'
    BY Zenon, <1>1, ChainStays DEF CInv, JobsOK, HealerOK
  <1> QED BY <1>9, <1>10, <1>12, <1>13 DEF CInv

(* submit_block annotates the file: on one branch it finds one.            *)
LEMMA AnnotateCInv ==
  ASSUME CInv, RpcAnnotates
  PROVE  CInv'
  <1> DEFINE o == thread["rpc"]
             h == o.job.height
             content == files[h]
             kept == IF content = NoFile THEN Headerless ELSE content
             write(ret) == [o EXCEPT !.pc = "quarantine", !.ret = ret]
             rewrite == [pc |-> "rewrite", job |-> o.job, value |-> kept]
             first == o.ret = "source" /\ content # o.job.block
             second == o.ret = "readback" /\ content = NoFile
  <1>1. /\ o.pc = "returned" /\ "rpc" \in Thread /\ failed' = failed /\ targets' = targets
        /\ UNCHANGED <<known, tip, handed, queue, healer, seen, files, contiguous, highest, running>>
    BY DEF RpcAnnotates, Thread, memory, channel, counters
  <1>2. IsState(o) /\ GoodState("rpc", o)
    BY <1>1 DEF CInv, ThreadsGood, GoodState
  <1>3. /\ o.job \in GoodJobs /\ {"job", "ret"} \subseteq DOMAIN o
        /\ o.ret \in {"source", "readback", "again"}
    BY Zenon, <1>1, <1>2 DEF GoodState
  <1>4. h \in Heights /\ o.job.block \in Block \ {Genesis}
    BY <1>3 DEF GoodJobs, Job
  <1>5. \/ \E ret \in {"readback", "again"} : thread' = [thread EXCEPT !["rpc"] = write(ret)]
        \/ ~first /\ ~second /\ thread' = [thread EXCEPT !["rpc"] = rewrite]
    <2>1. thread' = [thread EXCEPT !["rpc"] =
            CASE first -> write("readback") [] second -> write("again")
              [] OTHER -> rewrite]
      BY DEF RpcAnnotates
    <2>2. ~(first /\ second)
      BY Zenon
    <2> HIDE DEF o, write, rewrite, content, kept, first, second
    <2>3. CASE first /\ ~second
      BY <2>1, <2>3
    <2>4. CASE second /\ ~first
      BY <2>1, <2>4
    <2>5. CASE ~first /\ ~second
      BY <2>1, <2>5
    <2> QED BY <2>2, <2>3, <2>4, <2>5
  <1>6. ASSUME NEW ret \in {"readback", "again"}, thread' = [thread EXCEPT !["rpc"] = write(ret)]
        PROVE  CInv'
    <2>1. /\ write(ret).pc = "quarantine" /\ write(ret).job = o.job /\ write(ret).ret = ret
          /\ {"job", "ret"} \subseteq DOMAIN write(ret) /\ IsState(write(ret))
      BY Zenon, <1>2, <1>3 DEF IsState
    <2> HIDE DEF write
    <2>2. GoodState("rpc", write(ret))
      BY <1>3, <2>1 DEF GoodState
    <2> QED BY Zenon, <1>1, <1>6, <2>1, <2>2, GoesOnCInv
  <1>7. ASSUME ~first, ~second, thread' = [thread EXCEPT !["rpc"] = rewrite]
        PROVE  CInv'
    <2>1. rewrite.pc = "rewrite" /\ rewrite.job = o.job /\ rewrite.value = kept /\ IsState(rewrite)
      BY Zenon DEF IsState
    <2>2. OneBranch => content # NoFile
      <3>1. CASE o.ret = "source"
        BY <1>4, <1>7, <3>1, DiskAssumption
      <3>2. CASE o.ret = "readback"
        BY <1>7, <3>2
      <3>3. CASE o.ret = "again"
        BY <1>1, <3>3 DEF CInv, Annotating
      <3> QED BY <1>3, <3>1, <3>2, <3>3
    <2>3. GoodFile(h, content)
      BY <1>4 DEF CInv, FilesOK
    <2> HIDE DEF content
    <2>4. GoodFile(h, kept) /\ kept # NoFile
      BY <2>2, <2>3 DEF GoodFile, NoFile, Headerless
    <2> HIDE DEF rewrite, kept
    <2>5. GoodState("rpc", rewrite)
      BY <1>3, <2>1, <2>4 DEF GoodState
    <2> QED BY Zenon, <1>1, <1>7, <2>1, <2>5, GoesOnCInv
  <1> QED BY <1>5, <1>6, <1>7

(* And writes it again.                                                    *)
LEMMA RewriteCInv ==
  ASSUME CInv, RpcRewrites
  PROVE  CInv'
  <1> DEFINE o == thread["rpc"]
             h == o.job.height
  <1>1. /\ o.pc = "rewrite" /\ "rpc" \in Thread /\ failed' = failed /\ targets' = targets
        /\ files' = [files EXCEPT ![h] = o.value] /\ thread' = [thread EXCEPT !["rpc"] = Idle]
        /\ UNCHANGED <<known, tip, handed, queue, healer, seen, contiguous, highest, running>>
    BY DEF RpcRewrites, Thread, memory, channel, counters, history
  <1>2. h \in Heights /\ GoodFile(h, o.value) /\ o.value # NoFile
    BY <1>1 DEF CInv, ThreadsGood, GoodState, GoodJobs, Job
  <1>3. Idle.pc = "idle"
    BY IdleGood
  <1>4. GoodState("rpc", Idle)
    BY IdleGood
  <1>5. contiguous' \in 0..MaxHeight /\ highest' \in 0..MaxHeight
        /\ \A k \in (contiguous + 1)..contiguous' : files'[k] # NoFile
    BY <1>1, MaxHeightProps DEF CInv, FilesOK
  <1>6. FilesOK'
    BY Zenon, <1>1, <1>2, <1>5, ReplaceFilesOK DEF CInv
  <1>7. ThreadsGood'
    BY Zenon, <1>1, <1>4, ThreadsKeep DEF CInv
  <1>8. Annotating'
    BY <1>1, <1>3 DEF CInv, ThreadsGood, Annotating
  <1>9. ChainOK' /\ JobsOK' /\ HealerOK'
    BY <1>1, ChainStays DEF CInv, JobsOK, HealerOK
  <1> QED BY <1>6, <1>7, <1>8, <1>9 DEF CInv

(* The healer compares the files with the chain.                           *)
LEMMA ScanCInv ==
  ASSUME CInv, HealerScans
  PROVE  CInv'
  <1> DEFINE segment == (contiguous + 1)..Height(tip)
             bad == Mismatched(segment)
             good == {n \in segment : (contiguous + 1)..n \cap bad = {}}
             S == {contiguous} \cup good
  <1>1. /\ contiguous' = Max(S) /\ targets' = bad
        /\ UNCHANGED <<known, tip, handed, queue, thread, healer, highest, files, running, seen>>
        /\ failed' = failed
    BY DEF HealerScans, memory, channel, history
  <1>2. tip \in Block /\ contiguous \in 0..MaxHeight /\ MaxHeight \in Nat /\ Height(tip) \in 0..MaxHeight
    BY MaxHeightProps DEF CInv, ChainOK, FilesOK
  <1>3. segment \subseteq Heights /\ segment \subseteq 1..Height(tip) /\ segment \subseteq 0..MaxHeight
    BY <1>2 DEF Heights
  <1>4. bad \subseteq segment /\ \A k \in segment \ bad : files[k] = At(tip, k)
    BY DEF Mismatched
  <1>5. \A k \in segment \ bad : files[k] # NoFile
    <2>1. \A k \in segment : At(tip, k) \in Block
      BY <1>3, ChainJobs DEF CInv
    <2> QED BY <1>4, <2>1, DiskAssumption
  <1>6. S \in SUBSET (0..MaxHeight) /\ S # {}
    BY <1>2, <1>3
  <1> HIDE DEF bad
  <1>7. \A n \in S : \A k \in (contiguous + 1)..n : k \in segment \ bad
    BY <1>2
  <1> HIDE DEF S, good
  <1>8. contiguous' \in S
    BY Zenon, <1>1, <1>6, HeightsBounded
  <1>9. contiguous' \in 0..MaxHeight /\ \A k \in (contiguous + 1)..contiguous' : files[k] # NoFile
    BY <1>5, <1>6, <1>7, <1>8
  <1>10. \A k \in 1..contiguous' : k \in 1..contiguous \/ files[k] # NoFile
    BY <1>2, <1>9
  <1>11. OneBranch' = OneBranch /\ GoodJobs' = GoodJobs
         /\ \A k, x : GoodFile(k, x)' <=> GoodFile(k, x)
    BY <1>1, SameGood
  <1>12. FilesOK'
    <2>1. NoHoleBelowContiguous'
      BY <1>1, <1>10 DEF CInv, FilesOK, NoHoleBelowContiguous
    <2> QED BY <1>1, <1>9, <1>10, <1>11, <2>1 DEF CInv, FilesOK
  <1>13. HealerOK'
    BY <1>1, <1>3, <1>4 DEF CInv, HealerOK
  <1>14. ChainOK' /\ JobsOK' /\ ThreadsGood' /\ Annotating'
    BY Zenon, <1>1, <1>11, ChainStays DEF CInv, JobsOK, ThreadsGood, GoodState, Annotating
  <1> QED BY <1>12, <1>13, <1>14 DEF CInv

(* The empty set has no elements to count.                                 *)
LEMMA EmptyCount == Cardinality({}) = 0
  <1> DEFINE Eq(f) == f = [T \in SUBSET {} |-> IF T = {} THEN 0 ELSE 1 + f[T \ {CHOOSE x : x \in T}]]
             g == [T \in SUBSET {} |-> 0]
  <1>1. Eq(g)
    OBVIOUS
  <1>2. Cardinality({}) = (CHOOSE f : Eq(f))[{}]
    BY DEF Cardinality
  <1> HIDE DEF Eq
  <1>3. Eq(CHOOSE f : Eq(f))
    BY Zenon, <1>1
  <1> QED BY Zenon, <1>2, <1>3 DEF Eq

(* It takes the lowest targets.                                            *)
LEMMA ResumeCInv ==
  ASSUME CInv, HealerResumes
  PROVE  CInv'
  <1> DEFINE batch == Lowest(targets, BatchSize)
  <1>1. /\ targets # {} /\ healer' = [batch |-> batch, top |-> Height(tip)]
        /\ UNCHANGED <<known, tip, handed, queue, thread, seen, files, contiguous, highest, running>>
        /\ targets' = targets /\ failed' = failed
    BY DEF HealerResumes, memory, channel, counters, history
  <1>2. targets \subseteq Heights /\ targets \in SUBSET Nat
    BY DEF CInv, HealerOK, Heights
  <1>3. PICK m \in targets : \A x \in targets : m <= x
    <2>1. targets \in SUBSET (0..MaxHeight)
      BY <1>2 DEF Heights
    <2> QED BY Zenon, <1>1, <2>1, HeightsBounded
  <1>4. {x \in targets : x < m} = {}
    <2>1. \A x \in targets : ~(x < m)
      BY <1>2, <1>3
    <2> QED BY <2>1
  <1>5. Cardinality({}) = 0 /\ 0 < BatchSize
    BY EmptyCount, DiskAssumption
  <1>6. batch \subseteq Heights /\ batch # {}
    BY Zenon, <1>2, <1>4, <1>5 DEF Lowest
  <1>7. Height(tip) \in Nat
    BY HeightRec DEF CInv, ChainOK
  <1> HIDE DEF batch
  <1>8. HealerOK'
    BY Zenon, <1>1, <1>2, <1>6, <1>7 DEF HealerOK
  <1> QED BY <1>1, <1>8, StillCInv

(* It writes the block of the chain at the next height of the batch.       *)
LEMMA FillCInv ==
  ASSUME CInv, HealerFills
  PROVE  CInv'
  <1> DEFINE h == Min(healer.batch)
             rest == healer.batch \ {h}
  <1>1. /\ healer # HealerIdle /\ thread["healer"].pc = "idle" /\ "healer" \in Thread
        /\ healer' = IF rest = {} THEN HealerIdle ELSE [healer EXCEPT !.batch = rest]
        /\ IF OnChain(h) THEN WriteBlockJson("healer", JobOf(At(tip, h)), "done")
           ELSE UNCHANGED <<queue, thread>>
        /\ UNCHANGED <<known, tip, handed, targets, files, contiguous, highest, running, seen>>
        /\ failed' = failed
    BY DEF HealerFills, memory, counters, history, Thread
  <1>2. healer \in [batch : (SUBSET Heights) \ {{}}, top : Nat]
    BY <1>1 DEF CInv, HealerOK
  <1>3. healer.batch \in SUBSET (0..MaxHeight) /\ healer.batch # {} /\ healer.top \in Nat
    BY <1>2 DEF Heights
  <1>4. h \in healer.batch
    BY Zenon, <1>2, <1>3, HeightsBounded
  <1> HIDE DEF h
  <1>5. HealerOK'
    BY <1>1, <1>2 DEF CInv, HealerOK
  <1>6. CASE OnChain(h)
    <2>1. Height(tip) \in Nat
      BY HeightRec DEF CInv, ChainOK
    <2>2. Min({healer.top, Height(tip)}) <= Height(tip) /\ Min({healer.top, Height(tip)}) \in Nat
      <3> DEFINE S == {healer.top, Height(tip)}
      <3>1. S \in SUBSET Nat /\ S # {} /\ Height(tip) \in S
        BY <1>3, <2>1
      <3> HIDE DEF S
      <3>2. Min(S) \in Nat /\ Min(S) <= Height(tip)
        <4>1. \E x \in S : \A y \in S : x <= y
          BY <1>3, <2>1 DEF S
        <4>2. Min(S) \in S /\ \A y \in S : Min(S) <= y
          BY Zenon, <4>1 DEF Min
        <4> QED BY Zenon, <3>1, <4>2
      <3> QED BY <3>2 DEF S
    <2>3. h \in Nat /\ h # 0
      BY <1>2, <1>4 DEF Heights
    <2>4. h \in 1..Height(tip)
      BY <1>6, <2>1, <2>2, <2>3 DEF OnChain
    <2>5. JobOf(At(tip, h)) \in GoodJobs
      BY <2>4, ChainJobs DEF CInv
    <2>6. ChainOK' /\ GoodJobs' = GoodJobs
      BY <1>1, ChainStays DEF CInv
    <2>7. handed' \subseteq Seq(GoodJobs') \ {<<>>}
      BY <1>1, <2>6 DEF CInv, JobsOK
    <2>8. JobOf(At(tip, h)) \in GoodJobs' /\ seen \subseteq seen'
      BY <1>1, <2>5, <2>6
    <2>9. WriteBlockJson("healer", JobOf(At(tip, h)), "done")
      BY <1>1, <1>6
    <2> QED BY <1>1, <1>5, <2>6, <2>7, <2>8, <2>9, CallCInv
  <1>7. CASE ~OnChain(h)
    BY <1>1, <1>5, <1>7, StillCInv
  <1> QED BY <1>6, <1>7

-----------------------------------------------------------------------------
(* A block is processed.                                                   *)
LEMMA ProcessProps ==
  ASSUME ChainOK, NEW b \in Block, Process(b)
  PROVE  /\ ChainOK' /\ seen \subseteq seen'
         /\ tip' = b => /\ JobOf(b) \in GoodJobs'
                        /\ Height(b) # 1 => JobOf(Parent[b]) \in GoodJobs'
  <1>1. /\ b \notin known /\ known' = known \cup {b} /\ seen' = seen \cup {tip'}
        /\ tip' \in {b, tip}
    BY DEF Process
  <1>2. b # Genesis /\ seen \subseteq seen' /\ known' \subseteq Block /\ tip' \in known'
        /\ Genesis \in known' /\ seen' \subseteq Block
    BY <1>1 DEF ChainOK
  <1>3. tip' = b => JobOf(b) \in GoodJobs' /\ (Height(b) # 1 => JobOf(Parent[b]) \in GoodJobs')
    BY <1>1, <1>2, AdoptedJobs
  <1>4. ASSUME tip' # Genesis PROVE JobOf(tip') \in GoodJobs'
    <2>1. CASE tip' = b
      BY <1>3, <2>1
    <2>2. CASE tip' = tip
      BY <1>2, <1>4, <2>2, GoodGrows DEF ChainOK
    <2> QED BY <1>1, <2>1, <2>2
  <1> QED BY <1>2, <1>3, <1>4 DEF ChainOK, JobOf

(* A block arrives and is handed over, or not.                             *)
LEMMA ReceiveCInv ==
  ASSUME CInv, NEW b \in Block, ReceiveInbound(b) \/ ReceiveOutbound(b)
  PROVE  CInv'
  <1>1. /\ Process(b)
        /\ UNCHANGED <<queue, thread, healer, targets, files, contiguous, highest, running, failed>>
        /\ \/ handed' = handed
           \/ tip' = b /\ handed' = handed \cup {<<JobOf(b)>>}
           \/ tip' = b /\ Height(b) # 1 /\ handed' = handed \cup {<<JobOf(b), JobOf(Parent[b])>>}
    BY Zenon DEF ReceiveInbound, ReceiveOutbound, channel, counters
  <1>2. /\ ChainOK' /\ seen \subseteq seen'
        /\ tip' = b => JobOf(b) \in GoodJobs' /\ (Height(b) # 1 => JobOf(Parent[b]) \in GoodJobs')
    BY Zenon, <1>1, ProcessProps DEF CInv
  <1>3. /\ OneBranch' => OneBranch
        /\ GoodJobs \subseteq GoodJobs'
        /\ \A h, x : GoodFile(h, x) => GoodFile(h, x)'
    BY <1>2, GoodGrows
  <1>4. ThreadsGood' /\ Annotating'
    BY Zenon, <1>1, <1>3 DEF CInv, ThreadsGood, GoodState, Annotating
  <1>5. FilesOK' /\ HealerOK'
    BY Zenon, <1>1, <1>2, FilesStill DEF CInv, HealerOK
  <1>6. handed \subseteq Seq(GoodJobs') \ {<<>>} /\ queue \in Seq(GoodJobs')
    <2>1. handed \subseteq Seq(GoodJobs) \ {<<>>} /\ queue \in Seq(GoodJobs)
      BY DEF CInv, JobsOK
    <2> QED BY <1>3, <2>1
  <1>7. \A x \in GoodJobs', y \in GoodJobs' :
          /\ <<x>> \in Seq(GoodJobs') \ {<<>>}
          /\ <<x, y>> \in Seq(GoodJobs') \ {<<>>}
    OBVIOUS
  <1>8. handed' \subseteq Seq(GoodJobs') \ {<<>>}
    BY Zenon, <1>1, <1>2, <1>6, <1>7
  <1>9. JobsOK'
    BY <1>1, <1>6, <1>8 DEF CInv, JobsOK
  <1> QED BY <1>2, <1>4, <1>5, <1>9 DEF CInv

(* A miner's block extends the tip.                                        *)
LEMMA SubmitCInv ==
  ASSUME CInv, NEW b \in Block, NEW ret \in {"source", "done"}, Submit(b, ret)
  PROVE  CInv'
  <1>1. /\ thread["rpc"].pc = "idle" /\ "rpc" \in Thread /\ Parent[b] = tip /\ Process(b)
        /\ \/ WriteBlockJson("rpc", JobOf(b), ret)
           \/ UNCHANGED <<queue, thread>>
        /\ UNCHANGED <<handed, healer, targets, files, contiguous, highest, running, failed>>
    BY Zenon DEF Submit, counters, Thread
  <1>2. tip' = b
    BY Zenon, <1>1 DEF Process
  <1>3. ChainOK' /\ seen \subseteq seen' /\ JobOf(b) \in GoodJobs'
    BY Zenon, <1>1, <1>2, ProcessProps DEF CInv
  <1>4. /\ OneBranch' => OneBranch
        /\ GoodJobs \subseteq GoodJobs'
        /\ \A h, x : GoodFile(h, x) => GoodFile(h, x)'
    BY <1>3, GoodGrows
  <1>5. handed' \subseteq Seq(GoodJobs') \ {<<>>} /\ queue \in Seq(GoodJobs')
    <2>1. handed' = handed /\ handed \subseteq Seq(GoodJobs) \ {<<>>} /\ queue \in Seq(GoodJobs)
      BY Zenon, <1>1 DEF CInv, JobsOK
    <2> QED BY <1>4, <2>1
  <1>6. HealerOK'
    BY <1>1 DEF CInv, HealerOK
  <1>7. CASE WriteBlockJson("rpc", JobOf(b), ret)
    BY <1>1, <1>3, <1>5, <1>6, <1>7, CallCInv
  <1>8. CASE UNCHANGED <<queue, thread>>
    <2>1. ThreadsGood' /\ Annotating'
      BY <1>1, <1>4, <1>8 DEF CInv, ThreadsGood, GoodState, Annotating
    <2>2. FilesOK'
      BY Zenon, <1>1, <1>3, <1>8, FilesStill DEF CInv
    <2>3. JobsOK'
      BY <1>5, <1>8 DEF CInv, JobsOK
    <2> QED BY <1>3, <1>6, <2>1, <2>2, <2>3 DEF CInv
  <1> QED BY Zenon, <1>1, <1>7, <1>8

(* The process ends.                                                       *)
LEMMA ExitCInv ==
  ASSUME CInv, Exit
  PROVE  CInv'
  <1>1. /\ running' = FALSE /\ known' = {Genesis} /\ tip' = Genesis /\ handed' = {}
        /\ queue' = <<>> /\ thread' = [t \in Thread |-> Idle] /\ healer' = HealerIdle
        /\ targets' = {} /\ highest' = 0 /\ UNCHANGED <<contiguous, files, seen>>
    BY DEF Exit
  <1>2. OneBranch' = OneBranch /\ GoodJobs' = GoodJobs
        /\ \A h, x : GoodFile(h, x)' <=> GoodFile(h, x)
    BY <1>1, SameGood
  <1>3. ThreadsGood' /\ Annotating'
    <2>1. thread' = [t \in Thread |-> thread'[t]] /\ \A t \in Thread : thread'[t] = Idle
      BY <1>1
    <2>2. Idle.pc = "idle" /\ IsState(Idle) /\ "rpc" \in Thread
      BY IdleGood DEF GoodState, Thread
    <2> QED BY <2>1, <2>2 DEF ThreadsGood, GoodState, Annotating
  <1>4. ChainOK' /\ HealerOK'
    BY <1>1, TreeAssumption DEF CInv, ChainOK, HealerOK
  <1>5. JobsOK'
    <2>1. queue' \in Seq(GoodJobs') /\ Len(queue') = 0 /\ QueueCap \in Nat
      BY <1>1, DiskAssumption
    <2> QED BY <1>1, <2>1 DEF JobsOK
  <1>6. FilesOK'
    <2>1. NoHoleBelowContiguous'
      BY <1>1 DEF NoHoleBelowContiguous
    <2>2. highest' \in 0..MaxHeight
      BY <1>1, MaxHeightProps
    <2> QED BY <1>1, <1>2, <2>1, <2>2 DEF CInv, FilesOK
  <1> QED BY <1>3, <1>4, <1>5, <1>6 DEF CInv

(* The first targets are heights.                                          *)
LEMMA StartTargetsHeights ==
  ASSUME NEW fs
  PROVE  StartTargets(fs) \subseteq Heights
  <1> DEFINE present == {h \in Heights : fs[h] # NoFile}
             P == {0} \cup present
             top == Max(P)
             start == Max({0, top - (Window - 1)})
             L == {0} \cup {n \in Heights : 1..n \subseteq present}
             lowest == Max(L)
  <1>1. MaxHeight \in Nat /\ Window \in Nat \ {0}
    BY MaxHeightProps, DiskAssumption
  <1>2. P \in SUBSET (0..MaxHeight) /\ L \in SUBSET (0..MaxHeight) /\ P # {} /\ L # {}
    BY <1>1 DEF Heights
  <1>3. StartTargets(fs) \subseteq ((lowest + 1)..(start - 1)) \cup ((start..top) \ {0})
    BY DEF StartTargets
  <1> HIDE DEF P, L
  <1>4. top \in 0..MaxHeight /\ lowest \in 0..MaxHeight
    BY Zenon, <1>2, HeightsBounded
  <1> HIDE DEF top, lowest
  <1>5. start = IF 0 <= top - (Window - 1) THEN top - (Window - 1) ELSE 0
    BY <1>1, <1>4, MaxOfTwo
  <1> HIDE DEF start
  <1>6. start \in 0..MaxHeight
    BY <1>1, <1>4, <1>5
  <1>7. (lowest + 1)..(start - 1) \subseteq 1..MaxHeight /\ (start..top) \ {0} \subseteq 1..MaxHeight
    BY <1>1, <1>4, <1>6
  <1> QED BY <1>3, <1>7 DEF Heights

(* The node starts again from the files.                                   *)
LEMMA RestartCInv ==
  ASSUME CInv, Restart
  PROVE  CInv'
  <1> DEFINE k == ReplayHeight(files')
  <1>1. /\ files' = Readable(files) /\ running' = TRUE
        /\ tip' = IF k = 0 THEN Genesis ELSE files'[k]
        /\ known' = {Genesis} \cup {files'[h] : h \in 1..k}
        /\ targets' = StartTargets(files')
        /\ contiguous' = k /\ highest' = k
        /\ UNCHANGED <<handed, queue, thread, healer, seen>> /\ failed' = failed
    BY DEF Restart, channel, history
  <1>2. k \in 0..MaxHeight /\ \A h \in 1..k : Connects(files', h)
    BY ReplayProps
  <1> HIDE DEF k
  <1>3. OneBranch' = OneBranch /\ GoodJobs' = GoodJobs
        /\ \A h, x : GoodFile(h, x)' <=> GoodFile(h, x)
    BY <1>1, SameGood
  <1>4. files' = [h \in Heights |-> IF files[h] = Headerless THEN NoFile ELSE files[h]]
    BY <1>1 DEF Readable
  <1>5. files' = [h \in Heights |-> files'[h]]
    BY <1>4
  <1>6. \A h \in Heights : GoodFile(h, files'[h]) /\ files'[h] # Headerless
    BY <1>4 DEF CInv, FilesOK, GoodFile, NoFile, Headerless
  <1>7. \A h \in 1..k : h \in Heights /\ files'[h] # NoFile
    BY <1>2, MaxHeightProps DEF Heights, Connects
  <1>8. \A h \in 1..k : files'[h] \in Block \ {Genesis}
    BY <1>6, <1>7 DEF GoodFile
  <1>9. FilesOK'
    <2>1. NoHoleBelowContiguous'
      BY <1>1, <1>7 DEF NoHoleBelowContiguous
    <2>2. (\A h \in Heights : GoodFile(h, files[h]))'
      BY <1>3, <1>6 DEF GoodFile
    <2> QED BY <1>1, <1>2, <1>5, <1>7, <2>1, <2>2 DEF FilesOK
  <1>10. known' \subseteq Block /\ Genesis \in known' /\ tip' \in known'
    <2>1. k # 0 => k \in 1..k
      BY <1>2
    <2> QED BY <1>1, <1>8, <2>1, TreeAssumption
  <1>11. ASSUME tip' # Genesis PROVE JobOf(tip') \in GoodJobs
    <2>1. k # 0 /\ k \in 1..k /\ tip' = files'[k]
      BY <1>1, <1>2, <1>11
    <2>2. tip' \in Block \ {Genesis} /\ GoodFile(k, tip') /\ tip' # NoFile
      BY <1>6, <1>7, <1>8, <2>1
    <2>3. JobOf(tip') \in Job /\ JobOf(tip').height = Height(tip') /\ JobOf(tip').block = tip'
      BY <2>2, MaxHeightProps DEF JobOf
    <2>4. ASSUME OneBranch PROVE Adopted(Height(tip'), tip')
      <3>1. Adopted(k, tip')
        BY <2>2, <2>4 DEF GoodFile
      <3>2. PICK y \in seen : Height(y) >= k /\ At(y, k) = tip'
        BY <3>1 DEF Adopted
      <3>3. y \in Block /\ Height(y) \in Nat
        BY HeightRec DEF CInv, ChainOK
      <3>4. k \in 0..Height(y)
        BY <1>2, <3>2, <3>3
      <3>5. Height(At(y, k)) = k
        BY <3>3, <3>4, AtProps
      <3> QED BY <3>1, <3>2, <3>5
    <2> QED BY <2>3, <2>4 DEF GoodJobs
  <1>12. ChainOK'
    <2>1. JobOf(tip)' = JobOf(tip')
      BY DEF JobOf, Height
    <2> QED BY <1>1, <1>3, <1>10, <1>11, <2>1 DEF CInv, ChainOK
  <1>13. ThreadsGood' /\ Annotating'
    <2>1. OneBranch => \A h \in Heights : files[h] # Headerless
      <3> SUFFICES ASSUME OneBranch, NEW h \in Heights, files[h] = Headerless PROVE FALSE
        OBVIOUS
      <3>1. Adopted(h, Headerless)
        BY DEF CInv, FilesOK, GoodFile, NoFile, Headerless
      <3>2. PICK y \in seen : Height(y) >= h /\ At(y, h) = Headerless
        BY <3>1 DEF Adopted
      <3>3. y \in Block /\ Height(y) \in Nat /\ h \in Nat
        BY HeightRec DEF CInv, ChainOK, Heights
      <3>4. h \in 0..Height(y)
        BY <3>2, <3>3
      <3>5. Headerless \in Block
        BY <3>2, <3>3, <3>4, AtProps
      <3> QED BY <3>5, DiskAssumption
    <2>2. OneBranch => \A h \in Heights : files'[h] = files[h]
      BY <1>4, <2>1
    <2>3. thread["rpc"].pc = "returned" => thread["rpc"].job.height \in Heights
      BY DEF CInv, ThreadsGood, GoodState, GoodJobs, Job, Thread
    <2>4. Annotating'
      BY <1>1, <1>3, <2>2, <2>3 DEF CInv, Annotating
    <2>5. ThreadsGood'
      BY <1>1, <1>3 DEF CInv, ThreadsGood, GoodState
    <2> QED BY <2>4, <2>5
  <1>14. HealerOK'
    BY Zenon, <1>1, StartTargetsHeights DEF CInv, HealerOK
  <1>15. JobsOK'
    BY Zenon, <1>1, <1>3 DEF CInv, JobsOK
  <1> QED BY <1>9, <1>12, <1>13, <1>14, <1>15 DEF CInv

(* The contents start good.                                                *)
LEMMA InitCInv == Init => CInv
  <1> SUFFICES ASSUME Init
               PROVE  CInv
    OBVIOUS
  <1>1. ThreadsGood /\ Annotating
    <2>1. thread = [t \in Thread |-> Idle] /\ Idle.pc = "idle" /\ "rpc" \in Thread
      BY IdleGood DEF Init, Thread
    <2> QED BY <2>1, IdleGood DEF ThreadsGood, Annotating
  <1>2. ChainOK /\ HealerOK
    BY TreeAssumption DEF Init, ChainOK, HealerOK
  <1>3. JobsOK
    <2>1. queue \in Seq(GoodJobs) /\ Len(queue) = 0 /\ QueueCap \in Nat /\ handed = {}
      BY DiskAssumption DEF Init
    <2> QED BY <2>1 DEF JobsOK
  <1>4. FilesOK
    <2>1. files = [h \in Heights |-> NoFile] /\ contiguous = 0 /\ highest = 0
      BY DEF Init
    <2>2. \A h \in 1..contiguous : FALSE
      BY <2>1
    <2>3. contiguous \in 0..MaxHeight /\ highest \in 0..MaxHeight
      BY <2>1, MaxHeightProps
    <2> QED BY <2>1, <2>2, <2>3 DEF FilesOK, GoodFile, NoHoleBelowContiguous
  <1> QED BY <1>1, <1>2, <1>3, <1>4 DEF CInv

(* They stay good.                                                         *)
LEMMA NextCInv == CInv /\ [Next]_vars => CInv'
  <1> SUFFICES ASSUME CInv, [Next]_vars
               PROVE  CInv'
    OBVIOUS
  <1>1. ASSUME NEW t \in Thread, ThreadStep(t) \/ WriteFails(t)
        PROVE  CInv'
    <2>1. CASE CountSent(t)
      BY <2>1, CountSentCInv
    <2>2. CASE Quarantine(t)
      BY <2>2, QuarantineCInv
    <2>3. CASE Write(t)
      BY <2>3, WriteCInv
    <2>4. CASE WriterTakes
      BY <2>4, WriterTakesCInv
    <2>5. CASE P2pTakes
      BY <2>5, P2pTakesCInv
    <2>6. CASE RpcAnnotates
      BY <2>6, AnnotateCInv
    <2>7. CASE RpcRewrites
      BY <2>7, RewriteCInv
    <2>8. CASE HealerScans
      BY <2>8, ScanCInv
    <2>9. CASE HealerResumes
      BY <2>9, ResumeCInv
    <2>10. CASE HealerFills
      BY <2>10, FillCInv
    <2>11. CASE WriteFails(t)
      BY <2>11, WriteFailsCInv
    <2> QED BY <1>1, <2>1, <2>2, <2>3, <2>4, <2>5, <2>6, <2>7, <2>8, <2>9, <2>10, <2>11
            DEF ThreadStep
  <1>2. Mined \subseteq Block /\ Inbound \subseteq Block /\ Outbound \subseteq Block
    BY DiskAssumption
  <1>3. ASSUME NEW b \in Inbound, ReceiveInbound(b) PROVE CInv'
    BY <1>2, <1>3, ReceiveCInv
  <1>4. ASSUME NEW b \in Outbound, ReceiveOutbound(b) PROVE CInv'
    BY <1>2, <1>4, ReceiveCInv
  <1>5. ASSUME NEW b \in Mined, SubmitBlock(b) \/ SubmitBlockExtended(b) PROVE CInv'
    BY <1>2, <1>5, SubmitCInv DEF SubmitBlock, SubmitBlockExtended
  <1>6. CASE Crash \/ Drained
    BY <1>6, ExitCInv DEF Crash, Drained
  <1>7. CASE Restart
    BY <1>7, RestartCInv
  <1>8. CASE UNCHANGED vars
    <2>1. HealerOK' /\ failed' = failed
          /\ UNCHANGED <<known, tip, handed, queue, thread, seen, files, contiguous, highest, running>>
      BY <1>8 DEF vars, memory, channel, counters, history, CInv, HealerOK
    <2> QED BY <2>1, StillCInv
  <1> QED BY <1>1, <1>3, <1>4, <1>5, <1>6, <1>7, <1>8 DEF Next

(* Every reachable state has good contents.                                *)
LEMMA ContentsGood == Spec => []CInv
  BY InitCInv, NextCInv, PTL DEF Spec

(* The channel keeps to its capacity, the counters to the heights, and     *)
(* every file holds a block, the headerless fallback or nothing.           *)
THEOREM StorageTyped == Spec => []TypeOK
  <1>1. ASSUME CInv PROVE TypeOK
    <2>1. /\ known \subseteq Block /\ tip \in known /\ targets \subseteq Heights
          /\ contiguous \in 0..MaxHeight /\ highest \in 0..MaxHeight
      BY <1>1 DEF CInv, ChainOK, HealerOK, FilesOK
    <2>2. files \in [Heights -> Block \cup {NoFile, Headerless}]
      BY <1>1 DEF CInv, FilesOK, GoodFile
    <2>3. GoodJobs \subseteq Job
      BY DEF GoodJobs
    <2>4. /\ Len(queue) <= QueueCap /\ \A i \in DOMAIN queue : queue[i] \in Job
          /\ \A list \in handed : \A i \in DOMAIN list : list[i] \in Job
      BY <1>1, <2>3 DEF CInv, JobsOK
    <2> QED BY <2>1, <2>2, <2>4 DEF TypeOK
  <1> QED BY <1>1, ContentsGood, PTL

(* Up to the contiguous height every file is there, but for those being    *)
(* replaced and those whose replacement the disk refused.                  *)
THEOREM NoHoles == Spec => []NoHoleBelowContiguous
  <1>1. CInv => NoHoleBelowContiguous
    BY DEF CInv, FilesOK
  <1> QED BY <1>1, ContentsGood, PTL

(* A node that never changed branches replays its files at least up to the *)
(* contiguous height, at whatever step it is killed.                       *)
THEOREM RestartReachesContiguous == Spec => []ContiguousSurvivesCrash
  <1>1. ASSUME CInv PROVE ContiguousSurvivesCrash
    <2> SUFFICES ASSUME OneBranch
                 PROVE  ReplayHeight(Readable(files)) >= contiguous
      BY DEF ContiguousSurvivesCrash
    <2>1. contiguous \in 0..MaxHeight /\ MaxHeight \in Nat /\ seen \subseteq Block
      BY <1>1, MaxHeightProps DEF CInv, FilesOK, ChainOK
    <2>2. ASSUME NEW h \in 1..contiguous
          PROVE  h \in Heights /\ h \in Nat /\ files[h] # NoFile /\ Adopted(h, files[h])
      <3>1. h \in Heights /\ h \in Nat
        BY <2>1 DEF Heights
      <3>2. files[h] # NoFile /\ GoodFile(h, files[h])
        BY <1>1, <3>1 DEF CInv, FilesOK
      <3> QED BY <3>1, <3>2 DEF GoodFile
    <2>3. ASSUME NEW h \in 1..contiguous
          PROVE  files[h] \in Block /\ Readable(files)[h] = files[h]
      <3>1. PICK y \in seen : Height(y) >= h /\ At(y, h) = files[h]
        BY <2>2 DEF Adopted
      <3>2. y \in Block /\ Height(y) \in Nat /\ h \in Nat
        BY <2>1, <2>2, HeightRec
      <3>3. h \in 0..Height(y)
        BY <3>1, <3>2
      <3>4. files[h] \in Block
        BY <3>1, <3>2, <3>3, AtProps
      <3> QED BY <2>2, <3>4, DiskAssumption DEF Readable
    <2>4. ASSUME NEW h \in 1..contiguous PROVE Connects(Readable(files), h)
      <3>1. PICK y \in seen : Height(y) >= h /\ At(y, h) = files[h]
        BY <2>2 DEF Adopted
      <3>2. y \in Block /\ Height(y) \in Nat /\ h \in Nat /\ h # 0
        BY <2>1, <2>2, HeightRec
      <3>3. h \in 0..Height(y) /\ h - 1 \in 0..Height(y) /\ h - 1 \in Nat /\ Height(y) >= h - 1
        BY <3>1, <3>2
      <3>4. Parent[files[h]] = At(y, h - 1)
        BY <3>1, <3>2, <3>3, AtProps
      <3>5. CASE h = 1
        <4>1. At(y, 0) = Genesis
          BY <3>2, <3>3, <3>5, AtProps
        <4>2. h - 1 = 0
          BY <3>5
        <4>3. Readable(files)[h] = files[h] /\ files[h] # NoFile
          BY Zenon, <2>2, <2>3
        <4>4. Parent[files[h]] = Genesis
          BY Zenon, <3>4, <4>1, <4>2
        <4> QED BY Zenon, <3>5, <4>3, <4>4 DEF Connects
      <3>6. CASE h # 1
        <4>1. h - 1 \in 1..contiguous
          BY <2>1, <3>2, <3>6
        <4>2. Adopted(h - 1, files[h - 1])
          BY <2>2, <4>1
        <4>3. Adopted(h - 1, At(y, h - 1))
          BY <3>3 DEF Adopted
        <4>4. At(y, h - 1) = files[h - 1]
          BY <2>1, <3>3, <4>2, <4>3, AdoptedOnce
        <4>5. Readable(files)[h - 1] = files[h - 1]
          BY <2>3, <4>1
        <4>6. Readable(files)[h] = files[h] /\ files[h] # NoFile
          BY Zenon, <2>2, <2>3
        <4> QED BY Zenon, <3>4, <3>6, <4>4, <4>5, <4>6 DEF Connects
      <3> QED BY <3>5, <3>6
    <2>5. ReplayHeight(Readable(files)) \in 0..MaxHeight /\ contiguous <= ReplayHeight(Readable(files))
      BY <2>1, <2>4, ReplayProps
    <2> QED BY <2>1, <2>5
  <1> QED BY <1>1, ContentsGood, PTL
=============================================================================
