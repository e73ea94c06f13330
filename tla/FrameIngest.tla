---------------------------- MODULE FrameIngest ----------------------------
(***************************************************************************)
(* Frames from the radar nodes to the frame workers.                       *)
(*                                                                         *)
(* Producers on the event loop put (node, frame) pairs on a queue that is  *)
(* sharded by node.  One worker task drains each shard: it hands a frame   *)
(* to a thread of its own executor and awaits the result before it takes   *)
(* the next.  Shutdown cancels the workers, waits a bounded time for the   *)
(* threads, and writes the final state only when no thread is left; a      *)
(* later lifespan of the same process starts only then.                    *)
(*                                                                         *)
(* A frame is its node and its place in the order in which that node's     *)
(* frames were queued: what a frame carries decides nothing here.          *)
(***************************************************************************)
EXTENDS Naturals, Sequences, FiniteSets

CONSTANTS Nodes,      \* the node ids that send frames
          Shards,     \* the shards of state.frame_queue, one frame worker each
          ShardOf,    \* crc32(node_id) % N, as a function of the node
          QueueMax,   \* FRAME_QUEUE_SIZE; 0 means unbounded
          Hung,       \* shards whose thread may never come back from a frame
          NoGen,      \* no executor generation is registered under the name
          MaxOffers,  \* bound: frames offered to the server
          MaxBoots    \* bound: lifespans of one process

ASSUME IngestAssumption ==
  /\ Nodes # {}
  /\ ShardOf \in [Nodes -> Shards]
  /\ QueueMax \in Nat
  /\ MaxOffers \in Nat
  /\ MaxBoots \in Nat
  /\ NoGen \notin [epoch : Nat, closing : BOOLEAN]
  /\ Hung \subseteq Shards

VARIABLES
  phase,      \* the lifespan: "down", "up", "stopping" or "writing"
  boots,      \* lifespans started so far
  queue,      \* shard -> the frames waiting in it
  limited,    \* node -> its last enqueue is under NODE_FRAME_MIN_INTERVAL_S old
  worker,     \* shard -> where its frame_processor_loop stands
  registry,   \* shard -> the _generations entry of "frame-shard-<s>"
  jobs,       \* the executor jobs whose _finished callback has not run
  dropped,    \* state.frames_dropped
  offered,    \* history: frames the producers were given
  refused,    \* history: frames a full queue turned away
  arrivals,   \* history: node -> frames of it accepted on the queue
  started,    \* history: node -> the last of its frames a thread began
  lost        \* history: frames whose job shutdown cancelled before it began

vars == <<phase, boots, queue, limited, worker, registry, jobs, dropped,
          offered, refused, arrivals, started, lost>>

lifeVars == <<phase, boots, worker, registry, jobs>>
histVars == <<started, lost>>

Frame == [node : Nodes, seq : Nat]
Job   == [shard : Shards, epoch : Nat, frame : Frame,
          phase : {"submitted", "running", "done"}]
Generation == [epoch : Nat, closing : BOOLEAN]

-----------------------------------------------------------------------------
(* The queue *)

Depth == Cardinality(UNION {{s} \X (1..Len(queue[s])) : s \in Shards})

Full == QueueMax > 0 /\ Depth >= QueueMax

\* Mutation: frames dealt to the shards in turn, whoever sent them.
ShardForAnyWorker(f) ==
  IF f.seq % 2 = 0 THEN ShardOf[f.node]
                   ELSE CHOOSE s \in Shards : s # ShardOf[f.node] \/ Shards = {s}

ShardFor(f) == ShardOf[f.node]

NextFrame(n) == [node |-> n, seq |-> arrivals[n] + 1]

\* Mutation: the newest frame goes to the head of its shard.
PutAtHead(n) ==
  /\ queue'    = [queue EXCEPT ![ShardFor(NextFrame(n))] = <<NextFrame(n)>> \o @]
  /\ arrivals' = [arrivals EXCEPT ![n] = @ + 1]

Put(n) ==
  /\ queue'    = [queue EXCEPT ![ShardFor(NextFrame(n))] = Append(@, NextFrame(n))]
  /\ arrivals' = [arrivals EXCEPT ![n] = @ + 1]

Offer(k) == phase = "up" /\ offered + k <= MaxOffers /\ offered' = offered + k

(* put_nowait on a full queue raises QueueFull; `counted` says whether the  *)
(* producer that catches it bumps state.frames_dropped.                     *)
Refuse(counted) ==
  /\ refused' = refused + 1
  /\ dropped' = dropped + (IF counted THEN 1 ELSE 0)
  /\ UNCHANGED <<queue, arrivals>>

\* Mutation: the capacity test is dropped from put_nowait.
PutAlways(n, counted) == Put(n) /\ UNCHANGED <<dropped, refused>>

PutNowait(n, counted) ==
  IF Full THEN Refuse(counted)
          ELSE Put(n) /\ UNCHANGED <<dropped, refused>>

-----------------------------------------------------------------------------
(* The producers.  Each runs on the event loop without awaiting, so it is   *)
(* one step.                                                                *)

(* A DETECTION message over TCP: at most one frame per node and interval    *)
(* goes on, and the interval starts at the attempt, before the queue is     *)
(* asked.                                                                   *)
TcpDetection(n) ==
  /\ Offer(1)
  /\ IF limited[n]
     THEN UNCHANGED <<queue, arrivals, dropped, refused, limited>>
     ELSE /\ limited' = [limited EXCEPT ![n] = TRUE]
          /\ PutNowait(n, TRUE)
  /\ UNCHANGED <<lifeVars, histVars>>

IntervalPasses(n) ==
  /\ limited[n]
  /\ limited' = [limited EXCEPT ![n] = FALSE]
  /\ UNCHANGED <<lifeVars, histVars, queue, arrivals, dropped, offered, refused>>

(* A bare frame over TCP, or a frame of POST /api/radar/detections: neither *)
(* limited nor counted when refused.                                        *)
TcpBareFrame(n) ==
  /\ Offer(1)
  /\ PutNowait(n, FALSE)
  /\ UNCHANGED <<lifeVars, histVars, limited>>

(* POST /v1/nodes/detection of an active node, and the blah2 poller's       *)
(* filing: a node the registry does not hold has its frame dropped, counted.*)
PostDetection(n, known) ==
  /\ Offer(1)
  /\ IF known
     THEN PutNowait(n, TRUE)
     ELSE dropped' = dropped + 1 /\ UNCHANGED <<queue, arrivals, refused>>
  /\ UNCHANGED <<lifeVars, histVars, limited>>

(* One node's frames in POST /api/radar/detections/bulk: the first refusal  *)
(* abandons the rest of the entry, and none of them is counted.  Two frames *)
(* are the smallest entry that can be cut short.                            *)
BulkEntry(n) ==
  /\ Offer(2)
  /\ \/ /\ Full
        /\ refused' = refused + 2
        /\ UNCHANGED <<queue, arrivals>>
     \/ /\ QueueMax > 0 /\ Depth + 1 = QueueMax
        /\ Put(n)
        /\ refused' = refused + 1
     \/ /\ QueueMax = 0 \/ Depth + 2 <= QueueMax
        /\ LET second == [node |-> n, seq |-> arrivals[n] + 2]
           IN  queue' = [queue EXCEPT ![ShardFor(NextFrame(n))] =
                            Append(Append(@, NextFrame(n)), second)]
        /\ arrivals' = [arrivals EXCEPT ![n] = @ + 2]
        /\ UNCHANGED refused
  /\ UNCHANGED <<lifeVars, histVars, limited, dropped>>

-----------------------------------------------------------------------------
(* The executors *)

JobsOf(s, e) == {j \in jobs : j.shard = s /\ j.epoch = e}
Live(J) == {j \in J : j.phase # "done"}

\* Mutation: a thread that outlived its shutdown deadline is forgotten.
UnfinishedForgotten == {}

(* unfinished_task_executors: the names whose generation holds a job that   *)
(* is not done.                                                             *)
Unfinished ==
  {s \in Shards : registry[s] # NoGen /\ Live(JobsOf(s, registry[s].epoch)) # {}}

SetPhase(j, p) == (jobs \ {j}) \cup {[j EXCEPT !.phase = p]}

(* The executor's one thread picks the job up: process_one_frame begins.    *)
Start(j) ==
  /\ j.phase = "submitted"
  /\ \A o \in JobsOf(j.shard, j.epoch) : o.phase # "running"
  /\ jobs' = SetPhase(j, "running")
  /\ started' = [started EXCEPT ![j.frame.node] = j.frame.seq]
  /\ UNCHANGED <<phase, boots, queue, limited, worker, registry, dropped,
                 offered, refused, arrivals, lost>>

(* process_one_frame returns or raises: the future is done.                 *)
Finish(j) ==
  /\ j.phase = "running"
  /\ jobs' = SetPhase(j, "done")
  /\ UNCHANGED <<phase, boots, queue, limited, worker, registry, dropped,
                 offered, refused, arrivals, histVars>>

\* Mutation: the last job of a closing generation leaves the name taken.
FinishedKeepsName(j) ==
  /\ j.phase = "done"
  /\ jobs' = jobs \ {j}
  /\ UNCHANGED <<phase, boots, queue, limited, worker, registry, dropped, offered,
                 refused, arrivals, histVars>>

(* The future's callbacks run on the same thread, after it became done.     *)
Finished(j) ==
  /\ j.phase = "done"
  /\ jobs' = jobs \ {j}
  /\ registry' =
       IF /\ registry[j.shard] = [epoch |-> j.epoch, closing |-> TRUE]
          /\ JobsOf(j.shard, j.epoch) = {j}
       THEN [registry EXCEPT ![j.shard] = NoGen]
       ELSE registry
  /\ UNCHANGED <<phase, boots, queue, limited, worker, dropped, offered,
                 refused, arrivals, histVars>>

-----------------------------------------------------------------------------
(* The workers *)

(* The task's first step enters task_executor.  A name still registered     *)
(* raises RuntimeError, which ends the task.                                *)
EnterExecutor(s) ==
  /\ phase = "up"
  /\ worker[s] = "start"
  /\ IF registry[s] = NoGen
     THEN /\ registry' = [registry EXCEPT ![s] = [epoch |-> boots, closing |-> FALSE]]
          /\ worker' = [worker EXCEPT ![s] = "get"]
     ELSE /\ worker' = [worker EXCEPT ![s] = "off"]
          /\ UNCHANGED registry
  /\ UNCHANGED <<phase, boots, queue, limited, jobs, dropped, offered, refused,
                 arrivals, histVars>>

\* Mutation: the frame is read but not taken off its shard.
TakeLeavesFrame(s) ==
  /\ phase = "up"
  /\ worker[s] = "get"
  /\ queue[s] # <<>>
  /\ jobs' = jobs \cup {[shard |-> s, epoch |-> boots, frame |-> Head(queue[s]),
                         phase |-> "submitted"]}
  /\ worker' = [worker EXCEPT ![s] = "await"]
  /\ UNCHANGED <<phase, boots, queue, limited, registry, dropped, offered, refused,
                 arrivals, histVars>>

Take(s) ==
  /\ phase = "up"
  /\ worker[s] = "get"
  /\ queue[s] # <<>>
  /\ queue' = [queue EXCEPT ![s] = Tail(@)]
  /\ jobs' = jobs \cup {[shard |-> s, epoch |-> boots, frame |-> Head(queue[s]),
                         phase |-> "submitted"]}
  /\ worker' = [worker EXCEPT ![s] = "await"]
  /\ UNCHANGED <<phase, boots, limited, registry, dropped, offered, refused,
                 arrivals, histVars>>

\* Mutation: the worker submits a frame and goes straight back for the next.
ResumeAtOnce(s) ==
  /\ phase = "up"
  /\ worker[s] = "await"
  /\ worker' = [worker EXCEPT ![s] = "off"]
  /\ UNCHANGED <<phase, boots, queue, limited, registry, jobs, dropped, offered,
                 refused, arrivals, histVars>>

(* The awaited job is done, well or not, and its callbacks have run.        *)
Resume(s) ==
  /\ phase = "up"
  /\ worker[s] = "await"
  /\ JobsOf(s, boots) = {}
  /\ worker' = [worker EXCEPT ![s] = "get"]
  /\ UNCHANGED <<phase, boots, queue, limited, registry, jobs, dropped, offered,
                 refused, arrivals, histVars>>

-----------------------------------------------------------------------------
(* The lifespan *)

\* Mutation: a lifespan begins with an empty queue.
BootWithNewQueue ==
  /\ phase = "down"
  /\ boots < MaxBoots
  /\ Unfinished = {}
  /\ phase' = "up"
  /\ boots' = boots + 1
  /\ worker' = [s \in Shards |-> "start"]
  /\ queue' = [s \in Shards |-> <<>>]
  /\ UNCHANGED <<limited, registry, jobs, dropped, offered, refused, arrivals,
                 histVars>>

(* Startup refuses (and changes nothing) while old work is running.         *)
Boot ==
  /\ phase = "down"
  /\ boots < MaxBoots
  /\ Unfinished = {}
  /\ phase' = "up"
  /\ boots' = boots + 1
  /\ worker' = [s \in Shards |-> "start"]
  /\ UNCHANGED <<queue, limited, registry, jobs, dropped, offered, refused,
                 arrivals, histVars>>

(* The lifespan cancels every task; each sees it at its next step.          *)
Stop ==
  /\ phase = "up"
  /\ phase' = "stopping"
  /\ UNCHANGED <<boots, queue, limited, worker, registry, jobs, dropped, offered,
                 refused, arrivals, histVars>>

(* CancelledError reaches a worker.  One that never began has nothing to    *)
(* close.  Otherwise the generation is marked closing; a job still waiting  *)
(* for the thread is cancelled with its executor, and the generation goes   *)
(* at once when that leaves it no job.                                      *)
CancelWorker(s) ==
  LET mine      == JobsOf(s, boots)
      cancelled == {j \in mine : j.phase = "submitted"}
      left      == mine \ cancelled
  IN  /\ phase = "stopping"
      /\ \/ /\ worker[s] = "start"
            /\ worker' = [worker EXCEPT ![s] = "off"]
            /\ UNCHANGED <<registry, jobs, lost>>
         \/ /\ worker[s] \in {"get", "await"}
            /\ worker' = [worker EXCEPT ![s] = IF mine = {} THEN "off" ELSE "exit"]
            /\ jobs' = jobs \ cancelled
            /\ lost' = lost \cup {j.frame : j \in cancelled}
            /\ registry' = [registry EXCEPT ![s] =
                              IF left = {} THEN NoGen
                                           ELSE [epoch |-> boots, closing |-> TRUE]]
      /\ UNCHANGED <<phase, boots, queue, limited, dropped, offered, refused,
                     arrivals, started>>

\* Mutation: the exit waits for its jobs without a deadline.
ExitWithoutDeadline(s) ==
  /\ worker[s] = "exit"
  /\ Live(JobsOf(s, boots)) = {}
  /\ worker' = [worker EXCEPT ![s] = "off"]
  /\ UNCHANGED <<phase, boots, queue, limited, registry, jobs, dropped, offered,
                 refused, arrivals, histVars>>

(* asyncio.wait on the pending jobs returns because all are done, or after  *)
(* shutdown_timeout with some still running.                                *)
ExitExecutor(s) ==
  /\ worker[s] = "exit"
  /\ worker' = [worker EXCEPT ![s] = "off"]
  /\ UNCHANGED <<phase, boots, queue, limited, registry, jobs, dropped, offered,
                 refused, arrivals, histVars>>

(* All tasks have ended: final writes, if the server is quiescent.          *)
Quiesce ==
  /\ phase = "stopping"
  /\ \A s \in Shards : worker[s] = "off"
  /\ phase' = IF Unfinished = {} THEN "writing" ELSE "down"
  /\ UNCHANGED <<boots, queue, limited, worker, registry, jobs, dropped, offered,
                 refused, arrivals, histVars>>

FinalWritesEnd ==
  /\ phase = "writing"
  /\ phase' = "down"
  /\ UNCHANGED <<boots, queue, limited, worker, registry, jobs, dropped, offered,
                 refused, arrivals, histVars>>

-----------------------------------------------------------------------------
Init ==
  /\ phase = "down" /\ boots = 0
  /\ queue = [s \in Shards |-> <<>>]
  /\ limited = [n \in Nodes |-> FALSE]
  /\ worker = [s \in Shards |-> "off"]
  /\ registry = [s \in Shards |-> NoGen]
  /\ jobs = {}
  /\ dropped = 0 /\ offered = 0 /\ refused = 0
  /\ arrivals = [n \in Nodes |-> 0]
  /\ started = [n \in Nodes |-> 0]
  /\ lost = {}

Producer(n) ==
  \/ TcpDetection(n)
  \/ TcpBareFrame(n)
  \/ \E known \in BOOLEAN : PostDetection(n, known)
  \/ BulkEntry(n)

Thread(s) == \E j \in jobs : j.shard = s /\ (Start(j) \/ Finish(j) \/ Finished(j))

Worker(s) == EnterExecutor(s) \/ Take(s) \/ Resume(s)

Lifespan ==
  \/ Boot
  \/ Stop
  \/ \E s \in Shards : CancelWorker(s) \/ ExitExecutor(s)
  \/ Quiesce
  \/ FinalWritesEnd

Next ==
  \/ \E n \in Nodes : Producer(n) \/ IntervalPasses(n)
  \/ \E s \in Shards : Thread(s) \/ Worker(s)
  \/ Lifespan

Spec == Init /\ [][Next]_vars

(* The event loop runs every ready task, the shutdown among them; a thread  *)
(* gets to run and returns, but one in a native call may hang for ever.     *)
Fairness ==
  /\ \A s \in Shards : WF_vars(Worker(s)) /\ WF_vars(CancelWorker(s)) /\ WF_vars(ExitExecutor(s))
  /\ \A s \in Shards \ Hung : WF_vars(Thread(s))
  /\ WF_vars(Quiesce) /\ WF_vars(FinalWritesEnd)

FairSpec == Spec /\ Fairness

-----------------------------------------------------------------------------
TypeOK ==
  /\ phase \in {"down", "up", "stopping", "writing"}
  /\ boots \in Nat
  /\ queue \in [Shards -> Seq(Frame)]
  /\ limited \in [Nodes -> BOOLEAN]
  /\ worker \in [Shards -> {"off", "start", "get", "await", "exit"}]
  /\ registry \in [Shards -> Generation \cup {NoGen}]
  /\ jobs \in SUBSET Job
  /\ dropped \in Nat /\ offered \in Nat /\ refused \in Nat
  /\ arrivals \in [Nodes -> Nat]
  /\ started \in [Nodes -> Nat]
  /\ lost \in SUBSET Frame

Running == {j \in jobs : j.phase = "running"}

(* Two frames of one node are never in process_one_frame at once: the       *)
(* node's tracker has no lock (core/frame_queue.py).                        *)
NodeSerial ==
  \A j, o \in Running : j.frame.node = o.frame.node => j = o

(* A node's frames are begun in the order in which they were queued, and    *)
(* none is skipped unless shutdown cancelled it.                            *)
ArrivalOrder ==
  [][\A n \in Nodes : started'[n] # started[n] =>
       /\ started'[n] > started[n]
       /\ \A k \in (started[n] + 1)..(started'[n] - 1) : [node |-> n, seq |-> k] \in lost]_vars

WaitsIn(q, f) == \E s \in Shards : \E i \in 1..Len(q[s]) : q[s][i] = f

KeptIn(q, arr) ==
  \A n \in Nodes : \A k \in (started[n] + 1)..arr[n] :
    LET f == [node |-> n, seq |-> k]
    IN  WaitsIn(q, f) \/ f \in lost \/ \E j \in jobs : j.frame = f

(* An accepted frame that no thread has begun is still on the queue, is a   *)
(* submitted job, or was cancelled by a shutdown: nothing else removes it.  *)
NoFrameVanishes == KeptIn(queue, arrivals)

(* FRAME_QUEUE_SIZE bounds the whole queue, not each shard.                 *)
WholeQueueBounded == QueueMax > 0 => Depth <= QueueMax

(* The shutdown writes (snapshot, archive flush) never run beside a frame.  *)
FinalWritesAlone == phase = "writing" => Live(jobs) = {}

Contract == INSTANCE FrameContract WITH
  accepted <- arrivals, begun <- started,
  busy <- {j.frame.node : j \in Running}, writing <- (phase = "writing")

(* The sharded queue, the workers, the executors and the lifespan together  *)
(* are one first-in-first-out server for every node, over any number of     *)
(* shutdowns and restarts (FrameContract).                                  *)
KeepsContract == Contract!Spec

(* While the server is up a shard loses its worker, and its nodes their     *)
(* processing, only when the worker began between the end of the previous   *)
(* lifespan's last job and that job's callback: task_executor raises        *)
(* "previous executor is still running" in no other case.                   *)
WorkersEndByRace ==
  [][\A s \in Shards :
       phase = "up" /\ worker[s] # "off" /\ worker'[s] = "off" =>
         \E j \in jobs : j.shard = s /\ j.epoch # boots /\ j.phase = "done"]_vars

(* A queued frame is begun unless the server is stopped, even while the     *)
(* thread of another shard hangs.  It is stated for the first lifespan, the *)
(* one a deployed process has.                                              *)
QueuedFrameBegins ==
  \A n \in {m \in Nodes : ShardOf[m] \notin Hung}, k \in 1..MaxOffers :
    (arrivals[n] >= k /\ [node |-> n, seq |-> k] \notin lost
      /\ phase = "up" /\ boots = 1)
      ~> (started[n] >= k \/ phase # "up")

(* Shutdown ends although a thread in a native call never returns           *)
(* (task_executor's deadline).                                              *)
ShutdownEnds == phase = "stopping" ~> phase = "down"
=============================================================================
