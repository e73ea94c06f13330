--------------------------- MODULE ArchiveBuffer ---------------------------
(***************************************************************************)
(* The detection archive's buffers and their flush.                        *)
(*                                                                         *)
(* A frame worker appends each frame to its node's buffer; a full batch,   *)
(* and every interval the archive task, takes a snapshot under the lock,   *)
(* writes it to disk without the lock, and takes the written prefix off    *)
(* the buffer under the lock again.  A node whose writes keep failing      *)
(* after it has departed has its buffer abandoned.                         *)
(*                                                                         *)
(* Frames of a node are numbered as they are appended.  Every operation on *)
(* a buffer appends at its end or takes from its front, so a buffer is the *)
(* numbers between head and tail.                                          *)
(***************************************************************************)
EXTENDS Integers

CONSTANTS Nodes,      \* node ids with frames to archive
          Workers,    \* frame worker threads
          WorkerOf,   \* the one worker that processes a node's frames
          Archiver,   \* the thread of the archive-flush task
          BatchMax,   \* ARCHIVE_BATCH_MAX
          MaxFrames   \* bound: frames appended per node

ASSUME ArchiveAssumption ==
  /\ WorkerOf \in [Nodes -> Workers]
  /\ Archiver \notin Workers
  /\ BatchMax \in Nat \ {0}
  /\ MaxFrames \in Nat

VARIABLES
  head, tail, \* node -> its buffer holds the frames head + 1 .. tail
  inflight,   \* _archive_inflight
  failing,    \* node -> _archive_fail_since: "no", "recent", or "expired" past the TTL
  connected,  \* state.connected_nodes
  pc,         \* thread -> where it stands
  job,        \* thread -> node and snapshot of its current flush
  todo,       \* the archiver's nodes still to flush in this sweep
  expired,    \* the archiver's expired ids
  live,       \* the archiver's copy of connected_nodes
  disk,       \* whether a write would succeed
  copies,     \* history: node -> frame -> how often it was written
  given       \* history: node -> frames dropped by the cap or abandoned

vars == <<head, tail, inflight, failing, connected, pc, job, todo, expired, live,
          disk, copies, given>>

bufferVars == <<head, tail, copies, given>>
sweepVars  == <<todo, expired, live>>

Threads == Workers \cup {Archiver}
Frames  == 1..MaxFrames
HardCap == 2 * BatchMax

Buffered(n) == (head[n] + 1)..tail[n]

Goto(t, l) == pc' = [pc EXCEPT ![t] = l]

\* Where a thread goes when _flush_archive_node returns.
Return(t) == Goto(t, IF t = Archiver THEN "sweep" ELSE "idle")

DropFirst(n, k) == (head[n] + 1)..(head[n] + k)

-----------------------------------------------------------------------------
(* A frame worker *)

(* The end of process_one_frame: append, and flush a full batch.            *)
AppendFrame(n) ==
  LET w == WorkerOf[n]
  IN  /\ pc[w] = "idle"
      /\ tail[n] < MaxFrames
      /\ tail' = [tail EXCEPT ![n] = @ + 1]
      /\ IF tail[n] + 1 - head[n] >= BatchMax
         THEN /\ Goto(w, "begin")
              /\ job' = [job EXCEPT ![w] = [node |-> n, from |-> 0, to |-> 0]]
         ELSE UNCHANGED <<pc, job>>
      /\ UNCHANGED <<head, inflight, failing, connected, sweepVars, disk, copies, given>>

-----------------------------------------------------------------------------
(* _flush_archive_node, by any thread *)

\* Mutation: no inflight check.
BeginAnyway(t) ==
  LET n == job[t].node
  IN  /\ pc[t] = "begin"
      /\ inflight' = inflight \cup {n}
      /\ job' = [job EXCEPT ![t] = [node |-> n, from |-> head[n], to |-> tail[n]]]
      /\ Goto(t, IF head[n] = tail[n] THEN "empty" ELSE "write")
      /\ UNCHANGED <<bufferVars, failing, connected, sweepVars, disk>>

(* Another thread mid-cycle: return.  Otherwise claim the node, snapshot.   *)
Begin(t) ==
  LET n == job[t].node
  IN  /\ pc[t] = "begin"
      /\ IF n \in inflight
         THEN Return(t) /\ UNCHANGED <<inflight, job>>
         ELSE /\ inflight' = inflight \cup {n}
              /\ job' = [job EXCEPT ![t] = [node |-> n, from |-> head[n], to |-> tail[n]]]
              /\ Goto(t, IF head[n] = tail[n] THEN "empty" ELSE "write")
      /\ UNCHANGED <<bufferVars, failing, connected, sweepVars, disk>>

\* Mutation: an empty snapshot returns without giving the node back.
NothingToWriteKeepsClaim(t) ==
  /\ pc[t] = "empty"
  /\ Return(t)
  /\ UNCHANGED <<bufferVars, inflight, failing, connected, job, sweepVars, disk>>

NothingToWrite(t) ==
  /\ pc[t] = "empty"
  /\ inflight' = inflight \ {job[t].node}
  /\ Return(t)
  /\ UNCHANGED <<bufferVars, failing, connected, job, sweepVars, disk>>

(* archive_detections: the batch appears whole under its own name, or not.  *)
Write(t) ==
  LET n == job[t].node
  IN  /\ pc[t] = "write"
      /\ IF disk
         THEN /\ copies' = [copies EXCEPT ![n] =
                   [k \in Frames |->
                      IF k \in (job[t].from + 1)..job[t].to THEN @[k] + 1 ELSE @[k]]]
              /\ Goto(t, "written")
         ELSE Goto(t, "failed") /\ UNCHANGED copies
      /\ UNCHANGED <<head, tail, given, inflight, failing, connected, job, sweepVars, disk>>

\* Mutation: a failed write truncates like a written one.
RetainNothing(t) ==
  LET n == job[t].node
  IN  /\ pc[t] = "failed"
      /\ inflight' = inflight \ {n}
      /\ failing' = [failing EXCEPT ![n] = IF @ = "no" THEN "recent" ELSE @]
      /\ head' = [head EXCEPT ![n] = job[t].to]
      /\ Return(t)
      /\ UNCHANGED <<tail, given, connected, job, sweepVars, disk, copies>>

\* Mutation: the cap is applied to the snapshot, not to the buffer as it is.
RetainCapsSnapshot(t) ==
  LET n      == job[t].node
      kept   == job[t].to - job[t].from
      excess == IF kept > HardCap THEN kept - HardCap ELSE 0
  IN  /\ pc[t] = "failed"
      /\ inflight' = inflight \ {n}
      /\ failing' = [failing EXCEPT ![n] = IF @ = "no" THEN "recent" ELSE @]
      /\ head' = [head EXCEPT ![n] = @ + excess]
      /\ given' = [given EXCEPT ![n] = @ \cup DropFirst(n, excess)]
      /\ Return(t)
      /\ UNCHANGED <<tail, connected, job, sweepVars, disk, copies>>

(* The write raised: the frames stay, but no more than the cap.             *)
Retain(t) ==
  LET n      == job[t].node
      excess == IF tail[n] - head[n] > HardCap THEN tail[n] - head[n] - HardCap ELSE 0
  IN  /\ pc[t] = "failed"
      /\ inflight' = inflight \ {n}
      /\ failing' = [failing EXCEPT ![n] = IF @ = "no" THEN "recent" ELSE @]
      /\ head' = [head EXCEPT ![n] = @ + excess]
      /\ given' = [given EXCEPT ![n] = @ \cup DropFirst(n, excess)]
      /\ Return(t)
      /\ UNCHANGED <<tail, connected, job, sweepVars, disk, copies>>

\* Mutation: the whole buffer is cleared after a write.
TruncateAll(t) ==
  LET n == job[t].node
  IN  /\ pc[t] = "written"
      /\ inflight' = inflight \ {n}
      /\ failing' = [failing EXCEPT ![n] = "no"]
      /\ head' = [head EXCEPT ![n] = tail[n]]
      /\ Return(t)
      /\ UNCHANGED <<tail, copies, given, connected, job, sweepVars, disk>>

(* The write succeeded: as many frames as were written leave the front.     *)
Truncate(t) ==
  LET n       == job[t].node
      written == job[t].to - job[t].from
  IN  /\ pc[t] = "written"
      /\ inflight' = inflight \ {n}
      /\ failing' = [failing EXCEPT ![n] = "no"]
      /\ head' = [head EXCEPT ![n] = IF @ + written <= tail[n] THEN @ + written ELSE tail[n]]
      /\ Return(t)
      /\ UNCHANGED <<tail, copies, given, connected, job, sweepVars, disk>>

Flush(t) == Begin(t) \/ NothingToWrite(t) \/ Write(t) \/ Retain(t) \/ Truncate(t)

-----------------------------------------------------------------------------
(* flush_all_archive_buffers, by the archive task *)

Sweep ==
  /\ pc[Archiver] = "idle"
  /\ todo' = {n \in Nodes : head[n] < tail[n]}
  /\ Goto(Archiver, "sweep")
  /\ UNCHANGED <<bufferVars, inflight, failing, connected, job, expired, live, disk>>

SweepNode(n) ==
  /\ pc[Archiver] = "sweep"
  /\ n \in todo
  /\ todo' = todo \ {n}
  /\ job' = [job EXCEPT ![Archiver] = [node |-> n, from |-> 0, to |-> 0]]
  /\ Goto(Archiver, "begin")
  /\ UNCHANGED <<bufferVars, inflight, failing, connected, expired, live, disk>>

(* _reclaim_dead_archive_buffers takes the two locks one after the other.   *)
FindExpired ==
  /\ pc[Archiver] = "sweep"
  /\ todo = {}
  /\ expired' = {n \in Nodes : failing[n] = "expired"}
  /\ Goto(Archiver, IF expired' = {} THEN "idle" ELSE "live")
  /\ UNCHANGED <<bufferVars, inflight, failing, connected, job, todo, live, disk>>

ReadLive ==
  /\ pc[Archiver] = "live"
  /\ live' = connected
  /\ Goto(Archiver, "abandon")
  /\ UNCHANGED <<bufferVars, inflight, failing, connected, job, todo, expired, disk>>

\* Mutation: buffers of nodes in a flush are abandoned too.
AbandonedInflight == expired \ live

Abandoned == expired \ (live \cup inflight)

Abandon ==
  /\ pc[Archiver] = "abandon"
  /\ head' = [n \in Nodes |-> IF n \in Abandoned THEN tail[n] ELSE head[n]]
  /\ given' = [n \in Nodes |-> IF n \in Abandoned THEN given[n] \cup Buffered(n) ELSE given[n]]
  /\ failing' = [n \in Nodes |-> IF n \in Abandoned THEN "no" ELSE failing[n]]
  /\ expired' = {} /\ live' = {}
  /\ Goto(Archiver, "idle")
  /\ UNCHANGED <<tail, copies, inflight, connected, job, todo, disk>>

ArchiverStep ==
  \/ Sweep
  \/ \E n \in Nodes : SweepNode(n)
  \/ FindExpired
  \/ ReadLive
  \/ Abandon

-----------------------------------------------------------------------------
(* The surroundings *)

(* A node's writes have now been failing for ARCHIVE_BUFFER_FAIL_TTL_S.      *)
Expire(n) ==
  /\ failing[n] = "recent"
  /\ failing' = [failing EXCEPT ![n] = "expired"]
  /\ UNCHANGED <<bufferVars, inflight, connected, pc, job, sweepVars, disk>>

(* Registration adds a node to connected_nodes; pruning, retirement and     *)
(* node resets take it out, with its frames perhaps still on the queue.     *)
ConnectOrDepart(n) ==
  /\ connected' = IF n \in connected THEN connected \ {n} ELSE connected \cup {n}
  /\ UNCHANGED <<bufferVars, inflight, failing, pc, job, sweepVars, disk>>

DiskChanges ==
  /\ disk' = ~disk
  /\ UNCHANGED <<bufferVars, inflight, failing, connected, pc, job, sweepVars>>

Init ==
  /\ head = [n \in Nodes |-> 0] /\ tail = [n \in Nodes |-> 0]
  /\ inflight = {}
  /\ failing = [n \in Nodes |-> "no"]
  /\ connected = {}
  /\ pc = [t \in Threads |-> "idle"]
  /\ job \in {[t \in Threads |-> [node |-> n, from |-> 0, to |-> 0]] : n \in Nodes}
  /\ todo = {} /\ expired = {} /\ live = {}
  /\ disk = TRUE
  /\ copies = [n \in Nodes |-> [k \in Frames |-> 0]]
  /\ given = [n \in Nodes |-> {}]

Next ==
  \/ \E n \in Nodes : AppendFrame(n) \/ Expire(n) \/ ConnectOrDepart(n)
  \/ \E t \in Threads : Flush(t)
  \/ ArchiverStep
  \/ DiskChanges

Spec == Init /\ [][Next]_vars

(* The executor thread runs and the interval timer fires; a write returns.  *)
FairSpec ==
  /\ Spec
  /\ WF_vars(ArchiverStep)
  /\ \A t \in Threads : WF_vars(Flush(t))

-----------------------------------------------------------------------------
Jobs == [node : Nodes, from : Nat, to : Nat]

Labels == {"idle", "begin", "empty", "write", "written", "failed",
           "sweep", "live", "abandon"}

TypeOK ==
  /\ head \in [Nodes -> Nat] /\ tail \in [Nodes -> 0..MaxFrames]
  /\ \A n \in Nodes : head[n] <= tail[n]
  /\ inflight \in SUBSET Nodes
  /\ failing \in [Nodes -> {"no", "recent", "expired"}]
  /\ connected \in SUBSET Nodes
  /\ pc \in [Threads -> Labels]
  /\ job \in [Threads -> Jobs]
  /\ \A t \in Threads : job[t].from <= job[t].to
  /\ todo \in SUBSET Nodes /\ expired \in SUBSET Nodes /\ live \in SUBSET Nodes
  /\ disk \in BOOLEAN
  /\ copies \in [Nodes -> [Frames -> Nat]]
  /\ given \in [Nodes -> SUBSET Frames]

(* No frame is written to the archive twice: the batch-max trigger and the  *)
(* archive task may want to flush one node at once (_archive_inflight).     *)
WrittenOnce == \A n \in Nodes : \A k \in Frames : copies[n][k] <= 1

(* A frame that left its buffer is in the archive, unless the cap or the    *)
(* reclaim of a dead buffer dropped it; and those two drop no frame that is *)
(* in the archive.                                                          *)
LeftMeansWritten ==
  \A n \in Nodes : \A k \in 1..head[n] : copies[n][k] = 1 <=> k \notin given[n]

Cycle == {"empty", "write", "written", "failed"}

(* A node is claimed exactly while one thread is in its cycle: no claim is  *)
(* left behind, which would end the node's archiving for ever.              *)
ClaimsAreHeld ==
  /\ \A n \in inflight : \E t \in Threads : pc[t] \in Cycle /\ job[t].node = n
  /\ \A t \in Threads : pc[t] \in Cycle => job[t].node \in inflight
  /\ \A t, u \in Threads :
       (pc[t] \in Cycle /\ pc[u] \in Cycle /\ job[t].node = job[u].node) => t = u

(* While a node's writes keep failing its buffer stays within the cap, plus *)
(* the frame its worker has just filed: what came in during a write, when   *)
(* the worker could not flush, is cut as the write fails.  A write under    *)
(* way is excepted: while it hangs, the buffer grows.                       *)
FailingBufferCapped ==
  \A n \in Nodes : failing[n] # "no" /\ n \notin inflight => tail[n] - head[n] <= HardCap + 1

(* Only a buffer of a node that has departed and whose writes have failed   *)
(* for the TTL is abandoned.                                                *)
OnlyDeadAbandoned ==
  [][pc[Archiver] = "abandon" =>
       \A n \in Nodes : given'[n] # given[n] => n \notin connected /\ failing[n] = "expired"]_vars

(* Once the disk stays healthy every buffered frame is written or, had its  *)
(* buffer to be cut, dropped.                                               *)
HealthyDiskEmpties ==
  <>[]disk => \A n \in Nodes : \A k \in Frames :
                (tail[n] >= k) ~> (copies[n][k] > 0 \/ k \in given[n])

-----------------------------------------------------------------------------
(* The archive contract: a frame on disk is stored although its thread has  *)
(* not yet taken it off the buffer.                                         *)
Status(n, k) ==
  IF copies[n][k] > 1 THEN "twice"
  ELSE IF copies[n][k] = 1 THEN "stored"
  ELSE IF k \in given[n] THEN "dropped"
  ELSE IF k > tail[n] THEN "none"
  ELSE IF k \in Buffered(n) THEN "held"
  ELSE "lost"

StatusBar == [n \in Nodes |-> [k \in Frames |-> Status(n, k)]]

Contract == INSTANCE ArchiveContract WITH status <- StatusBar

(* Every step of the buffer is a step of the contract or none.              *)
KeepsContract == Contract!Spec
=============================================================================
