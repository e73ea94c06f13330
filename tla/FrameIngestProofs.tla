------------------------- MODULE FrameIngestProofs -------------------------
(***************************************************************************)
(* Proofs about FrameIngest for any nodes, shards, hash, capacity and      *)
(* bounds.                                                                 *)
(***************************************************************************)
EXTENDS FrameIngest, FiniteSetTheorems, TLAPS

-----------------------------------------------------------------------------
(* Types *)

LEMMA PutType ==
  ASSUME TypeOK, NEW n \in Nodes, Put(n)
  PROVE  queue' \in [Shards -> Seq(Frame)] /\ arrivals' \in [Nodes -> Nat]
<1>1. NextFrame(n) \in Frame
  BY DEF TypeOK, NextFrame, Frame
<1>2. ShardFor(NextFrame(n)) \in Shards
  BY IngestAssumption DEF ShardFor, NextFrame
<1>. QED
  BY <1>1, <1>2 DEF Put, TypeOK

(* So does put_nowait, full or not.                                        *)
LEMMA PutNowaitType ==
  ASSUME TypeOK, NEW n \in Nodes, PutNowait(n, TRUE) \/ PutNowait(n, FALSE)
  PROVE  /\ queue' \in [Shards -> Seq(Frame)] /\ arrivals' \in [Nodes -> Nat]
         /\ dropped' \in Nat /\ refused' \in Nat
<1>1. CASE Full
  BY <1>1 DEF PutNowait, Refuse, TypeOK
<1>2. CASE ~Full
  BY <1>2, PutType DEF PutNowait, TypeOK
<1>. QED
  BY <1>1, <1>2

(* Every producer keeps the types.                                         *)
LEMMA ProducerType ==
  ASSUME TypeOK, NEW n \in Nodes, Producer(n)
  PROVE  TypeOK'
<1>. USE DEF lifeVars, histVars
<1>1. CASE TcpDetection(n)
  <2>1. CASE limited[n]
    BY <1>1, <2>1 DEF TcpDetection, Offer, TypeOK
  <2>2. CASE ~limited[n]
    <3>1. PutNowait(n, TRUE)
      BY <1>1, <2>2 DEF TcpDetection
    <3>2. /\ queue' \in [Shards -> Seq(Frame)] /\ arrivals' \in [Nodes -> Nat]
          /\ dropped' \in Nat /\ refused' \in Nat
      BY <3>1, PutNowaitType
    <3>3. limited' \in [Nodes -> BOOLEAN]
      BY <1>1, <2>2 DEF TcpDetection, TypeOK
    <3>5. offered' \in Nat
      BY <1>1 DEF TcpDetection, Offer, TypeOK
    <3>4. UNCHANGED <<phase, boots, worker, registry, jobs, started, lost>>
      BY <1>1 DEF TcpDetection
    <3>. QED
      BY <3>2, <3>3, <3>4, <3>5 DEF TypeOK
  <2>. QED
    BY <2>1, <2>2
<1>2. CASE TcpBareFrame(n)
  <2>1. PutNowait(n, FALSE)
    BY <1>2 DEF TcpBareFrame
  <2>2. /\ queue' \in [Shards -> Seq(Frame)] /\ arrivals' \in [Nodes -> Nat]
        /\ dropped' \in Nat /\ refused' \in Nat
    BY <2>1, PutNowaitType
  <2>. QED
    BY <1>2, <2>2 DEF TcpBareFrame, Offer, TypeOK
<1>3. CASE \E known \in BOOLEAN : PostDetection(n, known)
  <2>. PICK known \in BOOLEAN : PostDetection(n, known)
    BY <1>3
  <2>1. CASE known
    <3>1. PutNowait(n, TRUE)
      BY <2>1 DEF PostDetection
    <3>2. /\ queue' \in [Shards -> Seq(Frame)] /\ arrivals' \in [Nodes -> Nat]
          /\ dropped' \in Nat /\ refused' \in Nat
      BY <3>1, PutNowaitType
    <3>. QED
      BY <2>1, <3>2 DEF PostDetection, Offer, TypeOK
  <2>2. CASE ~known
    BY <2>2 DEF PostDetection, Offer, TypeOK
  <2>. QED
    BY <2>1, <2>2
<1>4. CASE BulkEntry(n)
  <2>1. CASE Full /\ refused' = refused + 2 /\ UNCHANGED <<queue, arrivals>>
    BY <1>4, <2>1 DEF BulkEntry, Offer, TypeOK
  <2>2. CASE Put(n) /\ refused' = refused + 1
    BY <1>4, <2>2, PutType DEF BulkEntry, Offer, TypeOK
  <2>3. CASE /\ LET second == [node |-> n, seq |-> arrivals[n] + 2]
                IN  queue' = [queue EXCEPT ![ShardFor(NextFrame(n))] =
                                 Append(Append(@, NextFrame(n)), second)]
             /\ arrivals' = [arrivals EXCEPT ![n] = @ + 2]
             /\ UNCHANGED refused
    <3>1. NextFrame(n) \in Frame /\ [node |-> n, seq |-> arrivals[n] + 2] \in Frame
      BY DEF TypeOK, NextFrame, Frame
    <3>2. ShardFor(NextFrame(n)) \in Shards
      BY IngestAssumption DEF ShardFor, NextFrame
    <3>3. queue' \in [Shards -> Seq(Frame)]
      BY <2>3, <3>1, <3>2 DEF TypeOK
    <3>. QED
      BY <1>4, <2>3, <3>3 DEF BulkEntry, Offer, TypeOK
  <2>. QED
    BY <1>4, <2>1, <2>2, <2>3 DEF BulkEntry
<1>. QED
  BY <1>1, <1>2, <1>3, <1>4 DEF Producer

(* A thread's three steps keep the types.                                  *)
LEMMA ThreadType ==
  ASSUME TypeOK, NEW j \in jobs, Start(j) \/ Finish(j) \/ Finished(j)
  PROVE  TypeOK'
<1>. USE DEF histVars
<1>1. j \in Job
  BY DEF TypeOK
<1>2. CASE Start(j)
  <2>1. SetPhase(j, "running") \in SUBSET Job
    BY <1>1 DEF SetPhase, TypeOK, Job
  <2>2. j.frame.node \in Nodes /\ j.frame.seq \in Nat
    BY <1>1 DEF Job, Frame
  <2>. QED
    BY <1>2, <2>1, <2>2 DEF Start, TypeOK
<1>3. CASE Finish(j)
  <2>1. SetPhase(j, "done") \in SUBSET Job
    BY <1>1 DEF SetPhase, TypeOK, Job
  <2>. QED
    BY <1>3, <2>1 DEF Finish, TypeOK
<1>4. CASE Finished(j)
  <2>1. j.shard \in Shards
    BY <1>1 DEF Job
  <2>2. registry' \in [Shards -> Generation \cup {NoGen}]
    BY <1>4, <2>1 DEF Finished, TypeOK
  <2>3. jobs' \in SUBSET Job
    BY <1>4 DEF Finished, TypeOK
  <2>4. UNCHANGED <<phase, boots, queue, limited, worker, dropped, offered,
                    refused, arrivals, started, lost>>
    BY <1>4 DEF Finished
  <2>. QED
    BY <2>2, <2>3, <2>4 DEF TypeOK
<1>. QED
  BY <1>2, <1>3, <1>4

(* A worker's three steps keep the types.                                  *)
LEMMA WorkerType ==
  ASSUME TypeOK, NEW s \in Shards, Worker(s)
  PROVE  TypeOK'
<1>. USE DEF histVars
<1>1. CASE EnterExecutor(s)
  <2>1. [epoch |-> boots, closing |-> FALSE] \in Generation
    BY DEF TypeOK, Generation
  <2>2. registry' \in [Shards -> Generation \cup {NoGen}]
    BY <1>1, <2>1 DEF EnterExecutor, TypeOK
  <2>3. worker' \in [Shards -> {"off", "start", "get", "await", "exit"}]
    BY <1>1 DEF EnterExecutor, TypeOK
  <2>4. UNCHANGED <<phase, boots, queue, limited, jobs, dropped, offered, refused,
                    arrivals, started, lost>>
    BY <1>1 DEF EnterExecutor
  <2>. QED
    BY <2>2, <2>3, <2>4 DEF TypeOK
<1>2. CASE Take(s)
  <2>1. queue[s] \in Seq(Frame) /\ Head(queue[s]) \in Frame /\ Tail(queue[s]) \in Seq(Frame)
    BY <1>2 DEF Take, TypeOK
  <2>2. [shard |-> s, epoch |-> boots, frame |-> Head(queue[s]), phase |-> "submitted"] \in Job
    BY <2>1 DEF Job, TypeOK
  <2>. QED
    BY <1>2, <2>1, <2>2 DEF Take, TypeOK
<1>3. CASE Resume(s)
  BY <1>3 DEF Resume, TypeOK
<1>. QED
  BY <1>1, <1>2, <1>3 DEF Worker

(* Boot, stop, cancellation and the final writes keep the types.           *)
LEMMA LifespanType ==
  ASSUME TypeOK, Lifespan
  PROVE  TypeOK'
<1>. USE DEF histVars
<1>1. CASE Boot
  BY <1>1 DEF Boot, TypeOK
<1>2. CASE Stop
  BY <1>2 DEF Stop, TypeOK
<1>3. ASSUME NEW s \in Shards, CancelWorker(s)
      PROVE  TypeOK'
  <2>1. CASE worker[s] = "start"
    BY <1>3, <2>1 DEF CancelWorker, TypeOK
  <2>2. CASE worker[s] \in {"get", "await"}
    <3>. DEFINE cancelled == {j \in JobsOf(s, boots) : j.phase = "submitted"}
    <3>1. cancelled \in SUBSET Job
      BY DEF JobsOf, TypeOK
    <3>2. {j.frame : j \in cancelled} \in SUBSET Frame
      BY <3>1 DEF Job
    <3>3. jobs' \in SUBSET Job /\ lost' \in SUBSET Frame
      BY <1>3, <2>2, <3>2 DEF CancelWorker, TypeOK
    <3>6. [epoch |-> boots, closing |-> TRUE] \in Generation
      BY DEF TypeOK, Generation
    <3>4. /\ worker' \in [Shards -> {"off", "start", "get", "await", "exit"}]
          /\ registry' \in [Shards -> Generation \cup {NoGen}]
      BY <1>3, <2>2, <3>6 DEF CancelWorker, TypeOK
    <3>5. UNCHANGED <<phase, boots, queue, limited, dropped, offered, refused,
                      arrivals, started>>
      BY <1>3 DEF CancelWorker
    <3>. QED
      BY <3>3, <3>4, <3>5 DEF TypeOK
  <2>. QED
    BY <1>3, <2>1, <2>2 DEF CancelWorker
<1>4. ASSUME NEW s \in Shards, ExitExecutor(s)
      PROVE  TypeOK'
  BY <1>4 DEF ExitExecutor, TypeOK
<1>5. CASE Quiesce
  BY <1>5 DEF Quiesce, TypeOK
<1>6. CASE FinalWritesEnd
  BY <1>6 DEF FinalWritesEnd, TypeOK
<1>. QED
  BY <1>1, <1>2, <1>3, <1>4, <1>5, <1>6 DEF Lifespan

(* Every step keeps the types.                                             *)
LEMMA TypeStep ==
  ASSUME TypeOK, [Next]_vars
  PROVE  TypeOK'
<1>1. ASSUME NEW n \in Nodes, IntervalPasses(n)
      PROVE  TypeOK'
  BY <1>1 DEF IntervalPasses, TypeOK, lifeVars, histVars
<1>2. CASE UNCHANGED vars
  BY <1>2 DEF vars, TypeOK
<1>. QED
  BY <1>1, <1>2, ProducerType, ThreadType, WorkerType, LifespanType DEF Next, Thread

(* The initial state is typed.                                             *)
LEMMA TypeInit == Init => TypeOK
BY DEF Init, TypeOK

(* Every variable keeps its type, for any number of nodes and shards.      *)
THEOREM TypeCorrect == Spec => []TypeOK
<1>1. TypeOK /\ [Next]_vars => TypeOK'
  BY TypeStep
<1>. QED
  BY TypeInit, <1>1, PTL DEF Spec

-----------------------------------------------------------------------------
(* The inductive invariant.  Its parts follow a frame from the queue to the *)
(* thread; OrderedAfter is stated of any queue and arrival counts so that   *)
(* an entry of two frames can be taken one Put at a time.                   *)

(* A generation stays registered while it holds a job.                      *)
Registered ==
  \A j \in jobs : registry[j.shard] # NoGen /\ registry[j.shard].epoch = j.epoch

OneJobPerShard == \A j, o \in jobs : j.shard = o.shard => j = o

(* A worker inside task_executor has the registered generation, open; one   *)
(* about to take a frame has no job left.                                   *)
WorkerOwnsGeneration ==
  \A s \in Shards :
    /\ worker[s] \in {"get", "await"} =>
         registry[s] = [epoch |-> boots, closing |-> FALSE]
    /\ worker[s] = "get" => JobsOf(s, boots) = {}

JobOrder ==
  \A j \in jobs :
    /\ ShardOf[j.frame.node] = j.shard
    /\ j.frame.seq <= arrivals[j.frame.node]
    /\ IF j.phase = "submitted" THEN started[j.frame.node] < j.frame.seq
                                ELSE j.frame.seq <= started[j.frame.node]

(* Frames wait in their node's shard, in arrival order, behind what began.  *)
OrderedAfter(q, arr) ==
  \A s \in Shards : \A i \in 1..Len(q[s]) :
    /\ ShardOf[q[s][i].node] = s
    /\ started[q[s][i].node] < q[s][i].seq
    /\ q[s][i].seq <= arr[q[s][i].node]
    /\ \A k \in 1..(i - 1) : q[s][k].node = q[s][i].node => q[s][k].seq < q[s][i].seq
    /\ \A j \in jobs : j.frame.node = q[s][i].node => j.frame.seq < q[s][i].seq

StartedArrived == \A n \in Nodes : started[n] <= arrivals[n]

IInv ==
  /\ TypeOK
  /\ Registered
  /\ OneJobPerShard
  /\ WorkerOwnsGeneration
  /\ JobOrder
  /\ OrderedAfter(queue, arrivals)
  /\ StartedArrived
  /\ NoFrameVanishes
  /\ FinalWritesAlone

(* What the producers touch, as one Put sees it.                            *)
QueueInv(q, arr) ==
  /\ q \in [Shards -> Seq(Frame)]
  /\ arr \in [Nodes -> Nat]
  /\ OrderedAfter(q, arr)
  /\ KeptIn(q, arr)
  /\ \A n \in Nodes : started[n] <= arr[n]
  /\ \A j \in jobs : j.frame.seq <= arr[j.frame.node]

(* Appending a node's next frame to its shard keeps the queue ordered      *)
(* and loses nothing.                                                      *)
LEMMA AppendKeepsQueue ==
  ASSUME TypeOK, NEW q, NEW arr, QueueInv(q, arr), NEW n \in Nodes
  PROVE  QueueInv([q EXCEPT ![ShardOf[n]] = Append(@, [node |-> n, seq |-> arr[n] + 1])],
                  [arr EXCEPT ![n] = @ + 1])
<1>. DEFINE f    == [node |-> n, seq |-> arr[n] + 1]
            h    == ShardOf[n]
            q2   == [q EXCEPT ![h] = Append(@, f)]
            arr2 == [arr EXCEPT ![n] = @ + 1]
<1>1. f \in Frame /\ h \in Shards
  BY IngestAssumption DEF QueueInv, Frame
<1>2. /\ q2 \in [Shards -> Seq(Frame)]
      /\ q2[h] = Append(q[h], f)
      /\ \A s \in Shards : s # h => q2[s] = q[s]
  BY <1>1 DEF QueueInv
<1>3. /\ arr2 \in [Nodes -> Nat]
      /\ arr2[n] = arr[n] + 1
      /\ \A m \in Nodes : m # n => arr2[m] = arr[m]
  BY DEF QueueInv
<1>4. /\ Len(q[h]) \in Nat
      /\ Len(q2[h]) = Len(q[h]) + 1
      /\ q2[h][Len(q[h]) + 1] = f
      /\ \A i \in 1..Len(q[h]) : q2[h][i] = q[h][i]
  <2>. q[h] \in Seq(Frame)
    BY <1>1 DEF QueueInv
  <2>. HIDE DEF f, h, q2
  <2>. QED
    BY <1>1, <1>2
<1>5. \A s \in Shards : \A i \in 1..Len(q[s]) :
        q[s][i] \in Frame /\ q[s][i].node \in Nodes /\ q[s][i].seq \in Nat
  <2>. SUFFICES ASSUME NEW s \in Shards, NEW i \in 1..Len(q[s])
                PROVE  q[s][i] \in Frame
    BY DEF Frame
  <2>1. q[s] \in Seq(Frame)
    BY DEF QueueInv
  <2>. QED
    BY <2>1
<1>6. \A j \in jobs : j.frame.node \in Nodes /\ j.frame.seq \in Nat
  BY DEF TypeOK, Job, Frame
<1>7. \A m \in Nodes : started[m] \in Nat /\ started[m] <= arr2[m] /\ started[n] < arr2[n]
  BY <1>3 DEF TypeOK, QueueInv
<1>8. \A j \in jobs : j.frame.seq <= arr2[j.frame.node]
  BY <1>3, <1>6 DEF QueueInv
<1>9. OrderedAfter(q2, arr2)
  <2>. SUFFICES ASSUME NEW s \in Shards, NEW i \in 1..Len(q2[s])
                PROVE  /\ ShardOf[q2[s][i].node] = s
                       /\ started[q2[s][i].node] < q2[s][i].seq
                       /\ q2[s][i].seq <= arr2[q2[s][i].node]
                       /\ \A k \in 1..(i - 1) :
                            q2[s][k].node = q2[s][i].node => q2[s][k].seq < q2[s][i].seq
                       /\ \A j \in jobs :
                            j.frame.node = q2[s][i].node => j.frame.seq < q2[s][i].seq
    BY DEF OrderedAfter
  <2>1. CASE s # h \/ i <= Len(q[h])
    <3>1. i \in 1..Len(q[s]) /\ q2[s][i] = q[s][i]
      BY <1>2, <1>4, <2>1
    <3>2. \A k \in 1..(i - 1) : q2[s][k] = q[s][k]
      BY <1>2, <1>4, <2>1, <3>1
    <3>3. /\ ShardOf[q[s][i].node] = s
          /\ started[q[s][i].node] < q[s][i].seq
          /\ q[s][i].seq <= arr[q[s][i].node]
          /\ \A k \in 1..(i - 1) : q[s][k].node = q[s][i].node => q[s][k].seq < q[s][i].seq
          /\ \A j \in jobs : j.frame.node = q[s][i].node => j.frame.seq < q[s][i].seq
      BY <3>1 DEF QueueInv, OrderedAfter
    <3>4. q[s][i].seq <= arr2[q[s][i].node]
      BY <3>1, <3>3, <1>3, <1>5 DEF QueueInv
    <3>. QED
      BY <3>1, <3>2, <3>3, <3>4
  <2>2. CASE s = h /\ i = Len(q[h]) + 1
    <3>1. q2[s][i] = f
      BY <1>4, <2>2
    <3>2. \A k \in 1..(i - 1) : k \in 1..Len(q[h]) /\ q2[s][k] = q[h][k]
      BY <1>4, <2>2
    <3>3. ASSUME NEW k \in 1..(i - 1), q2[s][k].node = n
          PROVE  q2[s][k].seq < f.seq
      <4>1. k \in 1..Len(q[h]) /\ q[h][k].node = n /\ q2[s][k].seq = q[h][k].seq
        BY <3>2, <3>3
      <4>2. q[h][k].seq <= arr[n]
        BY <4>1, <1>1 DEF QueueInv, OrderedAfter
      <4>3. arr[n] \in Nat /\ q[h][k].seq \in Nat
        BY <4>1, <1>1, <1>5 DEF QueueInv
      <4>. QED
        BY <4>1, <4>2, <4>3
    <3>4. \A j \in jobs : j.frame.node = n => j.frame.seq < f.seq
      BY <1>6, <1>3 DEF QueueInv
    <3>. QED
      BY <2>2, <3>1, <3>3, <3>4, <1>3, <1>7
  <2>. QED
    BY <1>2, <1>4, <2>1, <2>2
<1>10. KeptIn(q2, arr2)
  <2>. SUFFICES ASSUME NEW m \in Nodes, NEW k \in (started[m] + 1)..arr2[m],
                       NEW g, g = [node |-> m, seq |-> k]
                PROVE  WaitsIn(q2, g) \/ g \in lost \/ \E j \in jobs : j.frame = g
    BY DEF KeptIn
  <2>1. CASE m = n /\ k = arr2[n]
    BY <2>1, <1>1, <1>3, <1>4 DEF WaitsIn
  <2>2. CASE k \in (started[m] + 1)..arr[m]
    <3>1. WaitsIn(q, g) => WaitsIn(q2, g)
      BY <1>2, <1>4 DEF WaitsIn
    <3>. QED
      BY <2>2, <3>1 DEF QueueInv, KeptIn
  <2>. QED
    BY <2>1, <2>2, <1>3, <1>7 DEF QueueInv
<1>. QED
  BY <1>2, <1>3, <1>7, <1>8, <1>9, <1>10 DEF QueueInv

(* The inductive invariant holds what QueueInv says of the queue.          *)
LEMMA QueueInvHolds == IInv => QueueInv(queue, arrivals)
BY DEF IInv, QueueInv, TypeOK, StartedArrived, JobOrder, NoFrameVanishes

(* Put is such an append.                                                  *)
LEMMA PutKeeps ==
  ASSUME IInv, NEW n \in Nodes, Put(n)
  PROVE  QueueInv(queue', arrivals')
<1>1. QueueInv(queue, arrivals) /\ TypeOK
  BY QueueInvHolds DEF IInv
<1>. QED
  BY <1>1, AppendKeepsQueue DEF Put, ShardFor, NextFrame

(* put_nowait appends or changes nothing.                                  *)
LEMMA PutNowaitKeeps ==
  ASSUME IInv, NEW n \in Nodes, PutNowait(n, TRUE) \/ PutNowait(n, FALSE)
  PROVE  QueueInv(queue', arrivals')
<1>1. Put(n) \/ UNCHANGED <<queue, arrivals>>
  BY DEF PutNowait, Refuse
<1>. QED
  BY <1>1, PutKeeps, QueueInvHolds

(* A bulk entry is at most two appends.                                    *)
LEMMA BulkKeeps ==
  ASSUME IInv, NEW n \in Nodes, BulkEntry(n)
  PROVE  QueueInv(queue', arrivals')
<1>1. CASE UNCHANGED <<queue, arrivals>>
  BY <1>1, QueueInvHolds
<1>2. CASE Put(n)
  BY <1>2, PutKeeps
<1>3. CASE /\ LET second == [node |-> n, seq |-> arrivals[n] + 2]
              IN  queue' = [queue EXCEPT ![ShardFor(NextFrame(n))] =
                               Append(Append(@, NextFrame(n)), second)]
           /\ arrivals' = [arrivals EXCEPT ![n] = @ + 2]
  <2>. DEFINE h  == ShardOf[n]
              q1 == [queue EXCEPT ![h] = Append(@, [node |-> n, seq |-> arrivals[n] + 1])]
              a1 == [arrivals EXCEPT ![n] = @ + 1]
              q2 == [q1 EXCEPT ![h] = Append(@, [node |-> n, seq |-> a1[n] + 1])]
              a2 == [a1 EXCEPT ![n] = @ + 1]
  <2>1. QueueInv(queue, arrivals) /\ TypeOK
    BY QueueInvHolds DEF IInv
  <2>2. QueueInv(q1, a1)
    BY <2>1, AppendKeepsQueue
  <2>3. QueueInv(q2, a2)
    <3>. HIDE DEF q1, a1
    <3>. QED
      BY <2>1, <2>2, AppendKeepsQueue
  <2>4. h \in Shards /\ queue \in [Shards -> Seq(Frame)] /\ arrivals \in [Nodes -> Nat]
    BY <2>1, IngestAssumption DEF TypeOK
  <2>5. a1[n] + 1 = arrivals[n] + 2 /\ arrivals' = a2
    BY <1>3, <2>4
  <2>6. queue' = q2
    BY <1>3, <2>4, <2>5 DEF ShardFor, NextFrame
  <2>. QED
    BY <2>3, <2>5, <2>6
<1>. QED
  BY <1>1, <1>2, <1>3 DEF BulkEntry

(* A step that moves only the queue keeps the invariant.                   *)
LEMMA QueueOnly ==
  ASSUME IInv, TypeOK', QueueInv(queue', arrivals'),
         UNCHANGED <<phase, boots, worker, registry, jobs, started, lost>>
  PROVE  IInv'
<1>1. Registered' /\ OneJobPerShard' /\ WorkerOwnsGeneration' /\ FinalWritesAlone'
  BY DEF IInv, Registered, OneJobPerShard, WorkerOwnsGeneration, FinalWritesAlone,
         JobsOf, Live
<1>2. JobOrder'
  BY DEF IInv, JobOrder, QueueInv
<1>3. OrderedAfter(queue, arrivals)' /\ StartedArrived'
  BY DEF QueueInv, OrderedAfter, StartedArrived
<1>4. NoFrameVanishes'
  BY DEF QueueInv, KeptIn, WaitsIn, NoFrameVanishes
<1>. QED
  BY <1>1, <1>2, <1>3, <1>4 DEF IInv

(* Every producer keeps the invariant.                                     *)
LEMMA ProducerKeeps ==
  ASSUME IInv, NEW n \in Nodes, Producer(n) \/ IntervalPasses(n), TypeOK'
  PROVE  IInv'
<1>1. UNCHANGED <<phase, boots, worker, registry, jobs, started, lost>>
  BY DEF Producer, TcpDetection, TcpBareFrame, PostDetection, BulkEntry,
         IntervalPasses, lifeVars, histVars
<1>2. \/ UNCHANGED <<queue, arrivals>>
      \/ PutNowait(n, TRUE) \/ PutNowait(n, FALSE)
      \/ BulkEntry(n)
  BY DEF Producer, TcpDetection, TcpBareFrame, PostDetection, IntervalPasses
<1>3. QueueInv(queue', arrivals')
  BY <1>2, QueueInvHolds, PutNowaitKeeps, BulkKeeps
<1>. QED
  BY <1>1, <1>3, QueueOnly

-----------------------------------------------------------------------------
(* The executor's thread *)

(* What a job becomes when only its phase moves on.                         *)
LEMMA RephasedJobs ==
  ASSUME TypeOK, OneJobPerShard, NEW j \in jobs, NEW p \in {"running", "done"},
         NEW J, J = SetPhase(j, p)
  PROVE  \E j2 \in J :
           /\ j2.shard = j.shard /\ j2.epoch = j.epoch /\ j2.frame = j.frame
           /\ j2.phase = p
           /\ \A o \in J : o = j2 \/ (o \in jobs /\ o.shard # j.shard)
           /\ \A o \in jobs : o = j \/ o \in J
<1>. DEFINE j2 == [j EXCEPT !.phase = p]
<1>1. j \in Job /\ j2 \in J
  BY DEF TypeOK, SetPhase
<1>2. j2.shard = j.shard /\ j2.epoch = j.epoch /\ j2.frame = j.frame /\ j2.phase = p
  BY <1>1 DEF Job
<1>3. \A o \in J : o = j2 \/ (o \in jobs /\ o # j)
  BY DEF SetPhase
<1>4. \A o \in jobs : o = j \/ o \in J
  BY DEF SetPhase
<1>5. \A o \in J : o = j2 \/ (o \in jobs /\ o.shard # j.shard)
  BY <1>3 DEF OneJobPerShard
<1>. HIDE DEF j2
<1>. QED
  BY <1>1, <1>2, <1>4, <1>5

(* The thread that begins a job keeps the invariant: the job's node has    *)
(* no other job, and its frames on the queue are later ones.               *)
LEMMA StartKeeps ==
  ASSUME IInv, NEW j \in jobs, Start(j), TypeOK'
  PROVE  IInv'
<1>1. PICK j2 \in jobs' :
           /\ j2.shard = j.shard /\ j2.epoch = j.epoch /\ j2.frame = j.frame
           /\ j2.phase = "running"
           /\ \A o \in jobs' : o = j2 \/ (o \in jobs /\ o.shard # j.shard)
           /\ \A o \in jobs : o = j \/ o \in jobs'
  BY RephasedJobs DEF Start, IInv
<1>2. /\ j.frame.node \in Nodes /\ j.frame.seq \in Nat
      /\ \A o \in jobs : o.frame.node \in Nodes /\ o.frame.seq \in Nat
  BY DEF IInv, TypeOK, Job, Frame
<1>3. /\ started'[j.frame.node] = j.frame.seq
      /\ \A m \in Nodes : m # j.frame.node => started'[m] = started[m]
      /\ started[j.frame.node] < j.frame.seq
  BY <1>2 DEF Start, IInv, TypeOK, JobOrder
<1>4. UNCHANGED <<phase, boots, queue, worker, registry, arrivals, lost>>
  BY DEF Start
<1>5. Registered' /\ OneJobPerShard'
  BY <1>1, <1>4 DEF IInv, Registered, OneJobPerShard
<1>6. WorkerOwnsGeneration'
  <2>1. \A s \in Shards : JobsOf(s, boots) = {} => JobsOf(s, boots)' = {}
    BY <1>1, <1>4 DEF JobsOf
  <2>. QED
    BY <2>1, <1>4 DEF IInv, WorkerOwnsGeneration
<1>7. JobOrder'
  <2>1. \A o \in jobs : o.shard # j.shard => o.frame.node # j.frame.node
    BY DEF IInv, JobOrder
  <2>. QED
    BY <1>1, <1>2, <1>3, <1>4, <2>1 DEF IInv, JobOrder
<1>8. OrderedAfter(queue, arrivals)'
  <2>. SUFFICES ASSUME NEW s \in Shards, NEW i \in 1..Len(queue[s])
                PROVE  /\ started'[queue[s][i].node] < queue[s][i].seq
                       /\ \A o \in jobs' :
                            o.frame.node = queue[s][i].node => o.frame.seq < queue[s][i].seq
    BY <1>4 DEF IInv, OrderedAfter
  <2>1. queue[s][i] \in Frame
    BY DEF IInv, TypeOK
  <2>2. /\ started[queue[s][i].node] < queue[s][i].seq
        /\ \A o \in jobs : o.frame.node = queue[s][i].node => o.frame.seq < queue[s][i].seq
    BY DEF IInv, OrderedAfter
  <2>. QED
    BY <1>1, <1>3, <2>1, <2>2 DEF Frame
<1>9. StartedArrived'
  BY <1>2, <1>3, <1>4 DEF IInv, StartedArrived, JobOrder
<1>10. NoFrameVanishes'
  <2>. SUFFICES ASSUME NEW n \in Nodes, NEW k \in (started'[n] + 1)..arrivals[n],
                       NEW f, f = [node |-> n, seq |-> k]
                PROVE  WaitsIn(queue, f) \/ f \in lost \/ \E o \in jobs' : o.frame = f
    BY <1>4 DEF NoFrameVanishes, KeptIn, WaitsIn
  <2>1. k \in (started[n] + 1)..arrivals[n]
    <3>1. started[n] \in Nat /\ started'[n] \in Nat /\ arrivals[n] \in Nat
      BY DEF IInv, TypeOK
    <3>2. started[n] <= started'[n]
      BY <1>2, <1>3, <3>1
    <3>. QED
      BY <3>1, <3>2
  <2>2. WaitsIn(queue, f) \/ f \in lost \/ \E o \in jobs : o.frame = f
    BY <2>1 DEF IInv, NoFrameVanishes, KeptIn
  <2>. QED
    BY <1>1, <2>2
<1>11. FinalWritesAlone'
  BY <1>4 DEF IInv, FinalWritesAlone, Live, Start
<1>. QED
  BY <1>5, <1>6, <1>7, <1>8, <1>9, <1>10, <1>11 DEF IInv

(* A job that ends keeps the invariant.                                    *)
LEMMA FinishKeeps ==
  ASSUME IInv, NEW j \in jobs, Finish(j), TypeOK'
  PROVE  IInv'
<1>1. PICK j2 \in jobs' :
           /\ j2.shard = j.shard /\ j2.epoch = j.epoch /\ j2.frame = j.frame
           /\ j2.phase = "done"
           /\ \A o \in jobs' : o = j2 \/ (o \in jobs /\ o.shard # j.shard)
           /\ \A o \in jobs : o = j \/ o \in jobs'
  BY RephasedJobs DEF Finish, IInv
<1>2. UNCHANGED <<phase, boots, queue, worker, registry, arrivals, started, lost>>
  BY DEF Finish, histVars
<1>3. Registered' /\ OneJobPerShard'
  BY <1>1, <1>2 DEF IInv, Registered, OneJobPerShard
<1>4. WorkerOwnsGeneration'
  <2>1. \A s \in Shards : JobsOf(s, boots) = {} => JobsOf(s, boots)' = {}
    BY <1>1, <1>2 DEF JobsOf
  <2>. QED
    BY <2>1, <1>2 DEF IInv, WorkerOwnsGeneration
<1>5. JobOrder'
  BY <1>1, <1>2 DEF IInv, JobOrder, Finish
<1>6. OrderedAfter(queue, arrivals)' /\ StartedArrived'
  BY <1>1, <1>2 DEF IInv, OrderedAfter, StartedArrived
<1>7. NoFrameVanishes'
  <2>1. \A o \in jobs : \E o2 \in jobs' : o2.frame = o.frame
    BY <1>1
  <2>. SUFFICES ASSUME NEW n \in Nodes, NEW k \in (started[n] + 1)..arrivals[n],
                       NEW f, f = [node |-> n, seq |-> k]
                PROVE  WaitsIn(queue, f) \/ f \in lost \/ \E o \in jobs' : o.frame = f
    BY <1>2 DEF NoFrameVanishes, KeptIn, WaitsIn
  <2>2. WaitsIn(queue, f) \/ f \in lost \/ \E o \in jobs : o.frame = f
    BY DEF IInv, NoFrameVanishes, KeptIn
  <2>. QED
    BY <2>1, <2>2
<1>8. FinalWritesAlone'
  BY <1>2 DEF IInv, FinalWritesAlone, Live, Finish
<1>. QED
  BY <1>3, <1>4, <1>5, <1>6, <1>7, <1>8 DEF IInv

(* A callback that drops a done job, and perhaps its generation, keeps it. *)
LEMMA FinishedKeeps ==
  ASSUME IInv, NEW j \in jobs, Finished(j), TypeOK'
  PROVE  IInv'
<1>1. UNCHANGED <<phase, boots, queue, worker, arrivals, started, lost>>
  BY DEF Finished, histVars
<1>2. jobs' = jobs \ {j} /\ j.phase = "done"
  BY DEF Finished
<1>3. \A s \in Shards : registry'[s] # registry[s] => s = j.shard /\ registry[s].closing
  BY DEF Finished, IInv, TypeOK
<1>4. Registered' /\ OneJobPerShard'
  <2>1. \A o \in jobs' : o \in jobs /\ o.shard \in Shards /\ o.shard # j.shard
    BY <1>2 DEF IInv, OneJobPerShard, TypeOK, Job
  <2>. QED
    BY <1>3, <2>1 DEF IInv, Registered, OneJobPerShard
<1>5. WorkerOwnsGeneration'
  <2>. SUFFICES ASSUME NEW s \in Shards
                PROVE  /\ worker[s] \in {"get", "await"} =>
                            registry'[s] = [epoch |-> boots, closing |-> FALSE]
                       /\ worker[s] = "get" => JobsOf(s, boots)' = {}
    BY <1>1 DEF WorkerOwnsGeneration
  <2>1. worker[s] \in {"get", "await"} => registry[s] = [epoch |-> boots, closing |-> FALSE]
    BY DEF IInv, WorkerOwnsGeneration
  <2>2. worker[s] \in {"get", "await"} => registry'[s] = registry[s]
    BY <2>1, <1>3
  <2>3. worker[s] = "get" => JobsOf(s, boots)' = {}
    BY <1>1, <1>2 DEF IInv, WorkerOwnsGeneration, JobsOf
  <2>. QED
    BY <2>1, <2>2, <2>3
<1>6. JobOrder' /\ OrderedAfter(queue, arrivals)' /\ StartedArrived'
  BY <1>1, <1>2 DEF IInv, JobOrder, OrderedAfter, StartedArrived
<1>7. NoFrameVanishes'
  <2>. SUFFICES ASSUME NEW n \in Nodes, NEW k \in (started[n] + 1)..arrivals[n],
                       NEW f, f = [node |-> n, seq |-> k]
                PROVE  WaitsIn(queue, f) \/ f \in lost \/ \E o \in jobs' : o.frame = f
    BY <1>1 DEF NoFrameVanishes, KeptIn, WaitsIn
  <2>1. j.frame.seq <= started[j.frame.node]
    BY <1>2 DEF IInv, JobOrder
  <2>2. j.frame # f
    BY <2>1 DEF IInv, TypeOK, Job, Frame
  <2>3. WaitsIn(queue, f) \/ f \in lost \/ \E o \in jobs : o.frame = f
    BY DEF IInv, NoFrameVanishes, KeptIn
  <2>. QED
    BY <1>2, <2>2, <2>3
<1>8. FinalWritesAlone'
  BY <1>1, <1>2 DEF IInv, FinalWritesAlone, Live
<1>. QED
  BY <1>4, <1>5, <1>6, <1>7, <1>8 DEF IInv

-----------------------------------------------------------------------------
(* The workers *)

LEMMA EnterKeeps ==
  ASSUME IInv, NEW s \in Shards, EnterExecutor(s), TypeOK'
  PROVE  IInv'
<1>1. UNCHANGED <<phase, boots, queue, jobs, arrivals, started, lost>>
  BY DEF EnterExecutor, histVars
<1>2. CASE registry[s] = NoGen
  <2>1. \A j \in jobs : j.shard # s
    BY <1>2 DEF IInv, Registered
  <2>2. /\ registry'[s] = [epoch |-> boots, closing |-> FALSE]
        /\ \A t \in Shards : t # s => registry'[t] = registry[t] /\ worker'[t] = worker[t]
    BY <1>2 DEF EnterExecutor, IInv, TypeOK
  <2>3. Registered'
    BY <1>1, <2>1, <2>2 DEF IInv, Registered, TypeOK, Job
  <2>4. WorkerOwnsGeneration'
    BY <1>1, <2>1, <2>2 DEF IInv, WorkerOwnsGeneration, JobsOf
  <2>. QED
    BY <2>3, <2>4, <1>1 DEF IInv, OneJobPerShard, JobOrder, OrderedAfter, StartedArrived,
       NoFrameVanishes, KeptIn, WaitsIn, FinalWritesAlone, Live
<1>3. CASE registry[s] # NoGen
  <2>1. /\ UNCHANGED registry
        /\ worker'[s] = "off"
        /\ \A t \in Shards : t # s => worker'[t] = worker[t]
    BY <1>3 DEF EnterExecutor, IInv, TypeOK
  <2>2. WorkerOwnsGeneration'
    BY <1>1, <2>1 DEF IInv, WorkerOwnsGeneration, JobsOf
  <2>. QED
    BY <2>1, <2>2, <1>1 DEF IInv, Registered, OneJobPerShard, JobOrder, OrderedAfter,
       StartedArrived, NoFrameVanishes, KeptIn, WaitsIn, FinalWritesAlone, Live
<1>. QED
  BY <1>2, <1>3

(* Taking the head of a shard keeps the invariant.                         *)
LEMMA TakeKeeps ==
  ASSUME IInv, NEW s \in Shards, Take(s), TypeOK'
  PROVE  IInv'
<1>. DEFINE head == Head(queue[s])
            new  == [shard |-> s, epoch |-> boots, frame |-> head, phase |-> "submitted"]
<1>1. UNCHANGED <<phase, boots, registry, arrivals, started, lost>> /\ phase = "up"
  BY DEF Take, histVars
<1>2. registry[s] = [epoch |-> boots, closing |-> FALSE] /\ \A j \in jobs : j.shard # s
  <2>1. worker[s] = "get"
    BY DEF Take
  <2>2. registry[s] = [epoch |-> boots, closing |-> FALSE] /\ JobsOf(s, boots) = {}
    BY <2>1 DEF IInv, WorkerOwnsGeneration
  <2>3. registry[s].epoch = boots
    BY <2>2
  <2>4. \A j \in jobs : j.shard = s => j.epoch = boots
    BY <2>3 DEF IInv, Registered
  <2>. QED
    BY <2>2, <2>4 DEF JobsOf
<1>3. jobs' = jobs \cup {new}
  BY DEF Take
<1>4. /\ queue[s] \in Seq(Frame) /\ Len(queue[s]) \in Nat /\ 1 \in 1..Len(queue[s])
      /\ head = queue[s][1] /\ head \in Frame
      /\ Len(queue'[s]) = Len(queue[s]) - 1
      /\ \A i \in 1..Len(queue'[s]) :
           i + 1 \in 1..Len(queue[s]) /\ queue'[s][i] = queue[s][i + 1]
      /\ \A t \in Shards : t # s => queue'[t] = queue[t]
  <2>1. /\ queue[s] \in Seq(Frame) /\ queue[s] # <<>>
        /\ queue'[s] = Tail(queue[s]) /\ \A t \in Shards : t # s => queue'[t] = queue[t]
    BY DEF Take, IInv, TypeOK
  <2>2. /\ Len(queue[s]) \in Nat /\ Len(queue[s]) > 0
    BY <2>1
  <2>. QED
    BY <2>1, <2>2
<1>5. /\ ShardOf[head.node] = s /\ started[head.node] < head.seq
      /\ head.seq <= arrivals[head.node]
  BY <1>4 DEF IInv, OrderedAfter
<1>6. Registered' /\ OneJobPerShard'
  <2>1. registry[s] # NoGen /\ registry[s].epoch = boots
    <3>1. registry[s] \in Generation
      BY <1>2 DEF IInv, TypeOK, Generation
    <3>2. registry[s] # NoGen
      BY <3>1, IngestAssumption DEF Generation
    <3>3. registry[s].epoch = boots
      BY <1>2
    <3>. QED
      BY <3>2, <3>3
  <2>2. Registered'
    BY <2>1, <1>1, <1>3 DEF IInv, Registered
  <2>3. OneJobPerShard'
    BY <1>2, <1>3 DEF IInv, OneJobPerShard
  <2>. QED
    BY <2>2, <2>3
<1>7. WorkerOwnsGeneration'
  <2>1. /\ worker'[s] = "await"
        /\ \A t \in Shards : t # s => worker'[t] = worker[t]
    BY DEF Take, IInv, TypeOK
  <2>2. new.shard = s
    OBVIOUS
  <2>3. \A t \in Shards : t # s => JobsOf(t, boots)' = JobsOf(t, boots)
    BY <1>1, <1>3, <2>2 DEF JobsOf
  <2>4. ASSUME NEW t \in Shards
        PROVE  /\ worker'[t] \in {"get", "await"} =>
                    registry'[t] = [epoch |-> boots', closing |-> FALSE]
               /\ worker'[t] = "get" => JobsOf(t, boots)' = {}
    <3>1. CASE t = s
      <4>1. registry'[s] = registry[s] /\ boots' = boots
        BY <1>1
      <4>2. registry'[s] = [epoch |-> boots', closing |-> FALSE]
        BY <4>1, <1>2
      <4>3. worker'[t] # "get"
        BY <2>1, <3>1
      <4>. QED
        BY <4>2, <4>3, <3>1
    <3>2. CASE t # s
      BY <2>1, <2>3, <1>1, <3>2 DEF IInv, WorkerOwnsGeneration
    <3>. QED
      BY <3>1, <3>2
  <2>. QED
    BY <2>4 DEF WorkerOwnsGeneration
<1>8. JobOrder'
  BY <1>1, <1>3, <1>5 DEF IInv, JobOrder
<1>9. OrderedAfter(queue, arrivals)'
  <2>. SUFFICES ASSUME NEW t \in Shards, NEW i \in 1..Len(queue'[t])
                PROVE  /\ ShardOf[queue'[t][i].node] = t
                       /\ started[queue'[t][i].node] < queue'[t][i].seq
                       /\ queue'[t][i].seq <= arrivals[queue'[t][i].node]
                       /\ \A k \in 1..(i - 1) : queue'[t][k].node = queue'[t][i].node
                                                => queue'[t][k].seq < queue'[t][i].seq
                       /\ \A j \in jobs' : j.frame.node = queue'[t][i].node
                                           => j.frame.seq < queue'[t][i].seq
    BY <1>1 DEF OrderedAfter
  <2>1. CASE t # s
    <3>1. queue'[t] = queue[t]
      BY <1>4, <2>1
    <3>2. /\ ShardOf[queue[t][i].node] = t
          /\ started[queue[t][i].node] < queue[t][i].seq
          /\ queue[t][i].seq <= arrivals[queue[t][i].node]
          /\ \A k \in 1..(i - 1) : queue[t][k].node = queue[t][i].node
                                   => queue[t][k].seq < queue[t][i].seq
          /\ \A j \in jobs : j.frame.node = queue[t][i].node
                              => j.frame.seq < queue[t][i].seq
      BY <3>1 DEF IInv, OrderedAfter
    <3>3. new.frame.node # queue[t][i].node
      BY <3>2, <1>5, <2>1
    <3>. QED
      BY <1>3, <3>1, <3>2, <3>3
  <2>2. CASE t = s
    <3>. DEFINE f == queue[s][i + 1]
    <3>1. i + 1 \in 1..Len(queue[s]) /\ queue'[t][i] = f
      BY <1>4, <2>2
    <3>2. /\ ShardOf[f.node] = s
          /\ started[f.node] < f.seq
          /\ f.seq <= arrivals[f.node]
          /\ \A k \in 1..i : queue[s][k].node = f.node => queue[s][k].seq < f.seq
          /\ \A j \in jobs : j.frame.node = f.node => j.frame.seq < f.seq
      <4>1. (i + 1) - 1 = i
        BY <3>1
      <4>. QED
        BY <3>1, <4>1 DEF IInv, OrderedAfter
    <3>3. \A k \in 1..(i - 1) : k + 1 \in 1..i /\ queue'[t][k] = queue[s][k + 1]
      BY <1>4, <2>2, <3>1
    <3>4. 1 \in 1..i
      BY <3>1
    <3>5. new.frame.node = f.node => new.frame.seq < f.seq
      BY <3>2, <3>4, <1>4
    <3>. HIDE DEF new, f
    <3>. QED
      BY <1>3, <2>2, <3>1, <3>2, <3>3, <3>5
  <2>. QED
    BY <2>1, <2>2
<1>10. StartedArrived'
  BY <1>1 DEF IInv, StartedArrived
<1>11. NoFrameVanishes'
  <2>. SUFFICES ASSUME NEW n \in Nodes, NEW k \in (started[n] + 1)..arrivals[n],
                       NEW f, f = [node |-> n, seq |-> k]
                PROVE  WaitsIn(queue', f) \/ f \in lost \/ \E j \in jobs' : j.frame = f
    BY <1>1 DEF NoFrameVanishes, KeptIn, WaitsIn
  <2>1. WaitsIn(queue, f) \/ f \in lost \/ \E j \in jobs : j.frame = f
    BY DEF IInv, NoFrameVanishes, KeptIn
  <2>2. ASSUME NEW t \in Shards, NEW i \in 1..Len(queue[t]), queue[t][i] = f
        PROVE  WaitsIn(queue', f) \/ f = head
    <3>1. CASE t # s
      BY <1>4, <2>2, <3>1 DEF WaitsIn
    <3>2. CASE t = s /\ i = 1
      BY <1>4, <2>2, <3>2
    <3>3. CASE t = s /\ i # 1
      <4>1. i - 1 \in 1..Len(queue'[s]) /\ (i - 1) + 1 = i
        BY <1>4, <3>3
      <4>2. queue'[s][i - 1] = queue[s][i]
        BY <1>4, <4>1
      <4>. QED
        BY <2>2, <3>3, <4>1, <4>2 DEF WaitsIn
    <3>. QED
      BY <3>1, <3>2, <3>3
  <2>3. new.frame = head /\ new \in jobs'
    BY <1>3
  <2>4. WaitsIn(queue, f) => WaitsIn(queue', f) \/ f = head
    BY <2>2 DEF WaitsIn
  <2>. HIDE DEF new, head
  <2>. QED
    BY <2>1, <2>3, <2>4, <1>3
<1>12. FinalWritesAlone'
  BY <1>1 DEF FinalWritesAlone
<1>. QED
  BY <1>6, <1>7, <1>8, <1>9, <1>10, <1>11, <1>12 DEF IInv

(* Going back for the next frame keeps the invariant.                      *)
LEMMA ResumeKeeps ==
  ASSUME IInv, NEW s \in Shards, Resume(s), TypeOK'
  PROVE  IInv'
<1>1. UNCHANGED <<phase, boots, queue, registry, jobs, arrivals, started, lost>>
  BY DEF Resume, histVars
<1>2. /\ worker[s] = "await" /\ worker'[s] = "get" /\ JobsOf(s, boots) = {}
      /\ \A t \in Shards : t # s => worker'[t] = worker[t]
  BY DEF Resume, IInv, TypeOK
<1>3. WorkerOwnsGeneration'
  BY <1>1, <1>2 DEF IInv, WorkerOwnsGeneration, JobsOf
<1>. QED
  BY <1>1, <1>3 DEF IInv, Registered, OneJobPerShard, JobOrder, OrderedAfter,
     StartedArrived, NoFrameVanishes, KeptIn, WaitsIn, FinalWritesAlone, Live

-----------------------------------------------------------------------------
(* The lifespan *)

LEMMA CancelKeeps ==
  ASSUME IInv, NEW s \in Shards, CancelWorker(s), TypeOK'
  PROVE  IInv'
<1>1. /\ UNCHANGED <<phase, boots, queue, arrivals, started>>
      /\ phase = "stopping"
      /\ \A t \in Shards : t # s => worker'[t] = worker[t] /\ registry'[t] = registry[t]
  BY DEF CancelWorker, IInv, TypeOK
<1>2. CASE worker[s] = "start"
  <2>1. UNCHANGED <<registry, jobs, lost>> /\ worker'[s] = "off"
    BY <1>2 DEF CancelWorker, IInv, TypeOK
  <2>2. WorkerOwnsGeneration'
    BY <1>1, <2>1 DEF IInv, WorkerOwnsGeneration, JobsOf
  <2>. QED
    BY <1>1, <2>1, <2>2 DEF IInv, Registered, OneJobPerShard, JobOrder, OrderedAfter,
       StartedArrived, NoFrameVanishes, KeptIn, WaitsIn, FinalWritesAlone, Live
<1>3. CASE worker[s] \in {"get", "await"}
  <2>. DEFINE cancelled == {j \in JobsOf(s, boots) : j.phase = "submitted"}
              left      == JobsOf(s, boots) \ cancelled
  <2>1. /\ worker'[s] \in {"off", "exit"}
        /\ jobs' = jobs \ cancelled
        /\ lost' = lost \cup {j.frame : j \in cancelled}
        /\ registry'[s] = IF left = {} THEN NoGen
                                      ELSE [epoch |-> boots, closing |-> TRUE]
    BY <1>3 DEF CancelWorker, IInv, TypeOK
  <2>2. registry[s].epoch = boots
    BY <1>3 DEF IInv, WorkerOwnsGeneration
  <2>3. ASSUME NEW j \in jobs'
        PROVE  j \in jobs /\ registry'[j.shard] # NoGen /\ registry'[j.shard].epoch = j.epoch
    <3>1. j \in jobs /\ j \notin cancelled
      BY <2>1
    <3>2. j.shard \in Shards /\ registry[j.shard] # NoGen /\ registry[j.shard].epoch = j.epoch
      BY <3>1 DEF IInv, TypeOK, Job, Registered
    <3>3. CASE j.shard # s
      BY <1>1, <3>1, <3>2, <3>3
    <3>4. CASE j.shard = s
      <4>1. j \in left /\ j.epoch = boots
        BY <2>2, <3>1, <3>2, <3>4 DEF JobsOf
      <4>2. registry'[s] = [epoch |-> boots, closing |-> TRUE]
        BY <2>1, <4>1
      <4>3. [epoch |-> boots, closing |-> TRUE] # NoGen
        <5>1. [epoch |-> boots, closing |-> TRUE] \in [epoch : Nat, closing : BOOLEAN]
          BY DEF IInv, TypeOK
        <5>. QED
          BY <5>1, IngestAssumption
      <4>4. registry'[s] # NoGen /\ registry'[s].epoch = boots
        BY <4>2, <4>3
      <4>. QED
        BY <3>1, <3>4, <4>1, <4>4
    <3>. QED
      BY <3>3, <3>4
  <2>4. Registered' /\ OneJobPerShard'
    BY <2>3 DEF IInv, Registered, OneJobPerShard
  <2>5. WorkerOwnsGeneration'
    BY <1>1, <2>1, <2>3 DEF IInv, WorkerOwnsGeneration, JobsOf
  <2>6. JobOrder' /\ OrderedAfter(queue, arrivals)' /\ StartedArrived'
    BY <1>1, <2>3 DEF IInv, JobOrder, OrderedAfter, StartedArrived
  <2>7. NoFrameVanishes'
    <3>. SUFFICES ASSUME NEW n \in Nodes, NEW k \in (started[n] + 1)..arrivals[n],
                         NEW f, f = [node |-> n, seq |-> k]
                  PROVE  WaitsIn(queue, f) \/ f \in lost' \/ \E j \in jobs' : j.frame = f
      BY <1>1 DEF NoFrameVanishes, KeptIn, WaitsIn
    <3>1. WaitsIn(queue, f) \/ f \in lost \/ \E j \in jobs : j.frame = f
      BY DEF IInv, NoFrameVanishes, KeptIn
    <3>. HIDE DEF cancelled
    <3>2. \A j \in jobs : j \in jobs' \/ j.frame \in lost'
      BY <2>1
    <3>. QED
      BY <2>1, <3>1, <3>2
  <2>8. FinalWritesAlone'
    BY <1>1 DEF FinalWritesAlone
  <2>. QED
    BY <2>4, <2>5, <2>6, <2>7, <2>8 DEF IInv
<1>. QED
  BY <1>2, <1>3 DEF CancelWorker

(* The final writes begin only when no generation holds a live job, and     *)
(* every job belongs to the registered generation of its shard.             *)
LEMMA QuiesceLeavesNoJob ==
  ASSUME IInv, Unfinished = {}
  PROVE  Live(jobs) = {}
<1>. SUFFICES ASSUME NEW j \in jobs, j.phase # "done"
              PROVE  FALSE
  BY DEF Live
<1>1. j.shard \in Shards /\ registry[j.shard] # NoGen /\ registry[j.shard].epoch = j.epoch
  BY DEF IInv, TypeOK, Job, Registered
<1>2. j \in Live(JobsOf(j.shard, registry[j.shard].epoch))
  BY <1>1 DEF Live, JobsOf
<1>. QED
  BY <1>1, <1>2 DEF Unfinished

(* A step that moves only the lifespan's phase keeps the invariant.        *)
LEMMA PhaseOnly ==
  ASSUME IInv, TypeOK',
         UNCHANGED <<boots, queue, worker, registry, jobs, arrivals, started, lost>>,
         phase' = "writing" => Live(jobs) = {}
  PROVE  IInv'
<1>1. Registered' /\ OneJobPerShard' /\ WorkerOwnsGeneration'
  BY DEF IInv, Registered, OneJobPerShard, WorkerOwnsGeneration, JobsOf
<1>2. JobOrder' /\ OrderedAfter(queue, arrivals)' /\ StartedArrived'
  BY DEF IInv, JobOrder, OrderedAfter, StartedArrived
<1>3. NoFrameVanishes' /\ FinalWritesAlone'
  BY DEF IInv, NoFrameVanishes, KeptIn, WaitsIn, FinalWritesAlone, Live
<1>. QED
  BY <1>1, <1>2, <1>3 DEF IInv

(* Every lifespan step keeps the invariant.                                *)
LEMMA LifespanKeeps ==
  ASSUME IInv, Lifespan, TypeOK'
  PROVE  IInv'
<1>. USE DEF histVars
<1>1. ASSUME NEW s \in Shards, CancelWorker(s)
      PROVE  IInv'
  BY <1>1, CancelKeeps
<1>2. CASE Boot
  <2>1. /\ UNCHANGED <<queue, registry, jobs, arrivals, started, lost>>
        /\ phase' = "up" /\ \A s \in Shards : worker'[s] = "start"
    BY <1>2 DEF Boot
  <2>. QED
    BY <2>1 DEF IInv, Registered, OneJobPerShard, WorkerOwnsGeneration, JobOrder,
       OrderedAfter, StartedArrived, NoFrameVanishes, KeptIn, WaitsIn, FinalWritesAlone
<1>3. ASSUME NEW s \in Shards, ExitExecutor(s)
      PROVE  IInv'
  <2>1. /\ UNCHANGED <<phase, boots, queue, registry, jobs, arrivals, started, lost>>
        /\ worker'[s] = "off"
        /\ \A t \in Shards : t # s => worker'[t] = worker[t]
    BY <1>3 DEF ExitExecutor, IInv, TypeOK
  <2>2. WorkerOwnsGeneration'
    BY <2>1 DEF IInv, WorkerOwnsGeneration, JobsOf
  <2>. QED
    BY <2>1, <2>2 DEF IInv, Registered, OneJobPerShard, JobOrder, OrderedAfter,
       StartedArrived, NoFrameVanishes, KeptIn, WaitsIn, FinalWritesAlone, Live
<1>4. CASE Stop \/ Quiesce \/ FinalWritesEnd
  <2>1. UNCHANGED <<boots, queue, worker, registry, jobs, arrivals, started, lost>>
    BY <1>4 DEF Stop, Quiesce, FinalWritesEnd
  <2>2. phase' = "writing" => Live(jobs) = {}
    BY <1>4, QuiesceLeavesNoJob DEF Stop, Quiesce, FinalWritesEnd
  <2>. QED
    BY <2>1, <2>2, PhaseOnly
<1>. QED
  BY <1>1, <1>2, <1>3, <1>4 DEF Lifespan

-----------------------------------------------------------------------------
(* The invariant holds initially.                                          *)
LEMMA InvInit == Init => IInv
<1>. SUFFICES ASSUME Init
              PROVE  IInv
  OBVIOUS
<1>1. TypeOK
  BY TypeInit
<1>2. Registered /\ OneJobPerShard /\ WorkerOwnsGeneration /\ JobOrder /\ FinalWritesAlone
  BY DEF Init, Registered, OneJobPerShard, WorkerOwnsGeneration, JobOrder, FinalWritesAlone
<1>3. \A s \in Shards : Len(queue[s]) = 0
  BY DEF Init
<1>4. OrderedAfter(queue, arrivals)
  BY <1>3 DEF OrderedAfter
<1>5. StartedArrived /\ NoFrameVanishes
  BY DEF Init, StartedArrived, NoFrameVanishes, KeptIn
<1>. QED
  BY <1>1, <1>2, <1>4, <1>5 DEF IInv

(* Every step keeps the invariant.                                         *)
LEMMA InvStep ==
  ASSUME IInv, [Next]_vars
  PROVE  IInv'
<1>1. TypeOK'
  BY TypeStep DEF IInv
<1>2. CASE UNCHANGED vars
  BY <1>2, <1>1, PhaseOnly DEF vars, IInv, FinalWritesAlone
<1>3. ASSUME NEW n \in Nodes, Producer(n) \/ IntervalPasses(n)
      PROVE  IInv'
  BY <1>1, <1>3, ProducerKeeps
<1>4. ASSUME NEW j \in jobs, Start(j) \/ Finish(j) \/ Finished(j)
      PROVE  IInv'
  BY <1>1, <1>4, StartKeeps, FinishKeeps, FinishedKeeps
<1>5. ASSUME NEW s \in Shards, Worker(s)
      PROVE  IInv'
  BY <1>1, <1>5, EnterKeeps, TakeKeeps, ResumeKeeps DEF Worker
<1>6. CASE Lifespan
  BY <1>1, <1>6, LifespanKeeps
<1>. QED
  BY <1>2, <1>3, <1>4, <1>5, <1>6 DEF Next, Thread

(* The invariant holds in every reachable state.                           *)
LEMMA Invariance == Spec => []IInv
<1>1. IInv /\ [Next]_vars => IInv'
  BY InvStep
<1>. QED
  BY InvInit, <1>1, PTL DEF Spec

(* No two frames of one node are ever in process_one_frame at once: a node  *)
(* has one shard and a shard has one job, across shutdowns and restarts.    *)
THEOREM NodesAreSerial == Spec => []NodeSerial
<1>1. IInv => NodeSerial
  BY DEF IInv, JobOrder, OneJobPerShard, NodeSerial, Running
<1>. QED
  BY Invariance, <1>1, PTL

(* Every accepted frame is begun, still waiting, or cancelled by shutdown.  *)
THEOREM FramesAreKept == Spec => []NoFrameVanishes
<1>1. IInv => NoFrameVanishes
  BY DEF IInv
<1>. QED
  BY Invariance, <1>1, PTL

(* The final snapshot and archive flush run with no frame in flight.        *)
THEOREM WritesAreAlone == Spec => []FinalWritesAlone
<1>1. IInv => FinalWritesAlone
  BY DEF IInv
<1>. QED
  BY Invariance, <1>1, PTL

(* A thread begins a node's frames in arrival order, skipping only those    *)
(* that shutdown cancelled.                                                 *)
LEMMA StartIsNext ==
  ASSUME IInv, [Next]_vars, NEW n \in Nodes, started'[n] # started[n]
  PROVE  /\ started'[n] > started[n]
         /\ \A k \in (started[n] + 1)..(started'[n] - 1) : [node |-> n, seq |-> k] \in lost
<1>1. PICK j \in jobs : Start(j)
  BY DEF Next, Producer, TcpDetection, TcpBareFrame, PostDetection, BulkEntry,
     IntervalPasses, Thread, Finish, Finished, Worker, EnterExecutor, Take, Resume,
     Lifespan, Boot, Stop, CancelWorker, ExitExecutor, Quiesce, FinalWritesEnd,
     histVars, vars
<1>2. j.frame.node = n /\ started'[n] = j.frame.seq
  BY <1>1 DEF Start, IInv, TypeOK, Job, Frame
<1>3. started[n] < j.frame.seq /\ j.frame.seq <= arrivals[n] /\ ShardOf[n] = j.shard
  BY <1>1, <1>2 DEF Start, IInv, JobOrder
<1>4. started[n] \in Nat /\ j.frame.seq \in Nat /\ arrivals[n] \in Nat
  BY DEF IInv, TypeOK, Job, Frame
<1>5. ASSUME NEW k \in (started[n] + 1)..(j.frame.seq - 1)
      PROVE  [node |-> n, seq |-> k] \in lost
  <2>. DEFINE f == [node |-> n, seq |-> k]
  <2>1. k \in (started[n] + 1)..arrivals[n] /\ k < j.frame.seq
    BY <1>3, <1>4
  <2>2. WaitsIn(queue, f) \/ f \in lost \/ \E o \in jobs : o.frame = f
    BY <2>1 DEF IInv, NoFrameVanishes, KeptIn
  <2>3. ~WaitsIn(queue, f)
    BY <1>2, <2>1, <1>4 DEF IInv, OrderedAfter, WaitsIn
  <2>4. ASSUME NEW o \in jobs, o.frame = f
        PROVE  FALSE
    <3>1. o.shard = j.shard
      BY <2>4, <1>3 DEF IInv, JobOrder
    <3>2. o = j
      BY <3>1 DEF IInv, OneJobPerShard
    <3>. QED
      BY <2>1, <2>4, <3>2, <1>4
  <2>. QED
    BY <2>2, <2>3, <2>4
<1>. QED
  BY <1>2, <1>3, <1>4, <1>5

(* A node's frames are begun in arrival order and none is skipped but by   *)
(* shutdown, in every behaviour.                                            *)
THEOREM StartsInOrder == Spec => ArrivalOrder
<1>. DEFINE A == \A n \in Nodes : started'[n] # started[n] =>
                   /\ started'[n] > started[n]
                   /\ \A k \in (started[n] + 1)..(started'[n] - 1) :
                        [node |-> n, seq |-> k] \in lost
<1>1. IInv /\ [Next]_vars => [A]_vars
  BY StartIsNext
<1>. QED
  BY Invariance, <1>1, PTL DEF Spec, ArrivalOrder

-----------------------------------------------------------------------------
(* A shard's worker *)

(* A worker stands somewhere only in a lifespan, and leaves only at its end. *)
InLifespan(s) ==
  /\ worker[s] # "off" => phase \in {"up", "stopping"}
  /\ worker[s] = "exit" => phase = "stopping"

(* A worker about to begin may find jobs of an earlier lifespan, all done.   *)
OldJobsEnded(s) ==
  worker[s] = "start" => \A j \in jobs : j.shard = s => j.phase = "done" /\ j.epoch # boots

(* A name is taken by the worker inside, or by a generation with a job left. *)
NameHeld(s) ==
  registry[s] # NoGen => IF registry[s].closing THEN \E j \in jobs : j.shard = s
                                                ELSE worker[s] \in {"get", "await"}

EndsInv ==
  /\ \A j \in jobs : j.epoch <= boots
  /\ \A s \in Shards : InLifespan(s) /\ OldJobsEnded(s) /\ NameHeld(s)

LEMMA EndsUnmoved ==
  ASSUME EndsInv, UNCHANGED <<phase, boots, worker, registry, jobs>>
  PROVE  EndsInv'
  BY DEF EndsInv, InLifespan, OldJobsEnded, NameHeld

(* A job that begins or ends stays its shard's, and was not a done one.      *)
LEMMA RephasedEnds ==
  ASSUME IInv, EndsInv, NEW j \in jobs, Start(j) \/ Finish(j)
  PROVE  EndsInv'
<1>1. PICK j2 \in jobs' :
           /\ j2.shard = j.shard /\ j2.epoch = j.epoch
           /\ \A o \in jobs' : o = j2 \/ (o \in jobs /\ o.shard # j.shard)
           /\ \A o \in jobs : o = j \/ o \in jobs'
  BY RephasedJobs DEF Start, Finish, IInv
<1>2. UNCHANGED <<phase, boots, worker, registry>> /\ j.phase # "done"
  BY DEF Start, Finish
<1>3. \A o \in jobs' : o.epoch <= boots'
  BY <1>1, <1>2 DEF EndsInv
<1>4. ASSUME NEW s \in Shards
      PROVE  InLifespan(s)' /\ OldJobsEnded(s)' /\ NameHeld(s)'
  <2>1. InLifespan(s)'
    BY <1>2 DEF EndsInv, InLifespan
  <2>2. OldJobsEnded(s)'
    BY <1>1, <1>2 DEF EndsInv, OldJobsEnded
  <2>3. NameHeld(s)'
    BY <1>1, <1>2 DEF EndsInv, NameHeld
  <2>. QED
    BY <2>1, <2>2, <2>3
<1>. QED
  BY <1>3, <1>4 DEF EndsInv

(* The callback of a closing generation's last job frees the name.           *)
LEMMA FinishedEnds ==
  ASSUME IInv, EndsInv, NEW j \in jobs, Finished(j)
  PROVE  EndsInv'
<1>1. /\ UNCHANGED <<phase, boots, worker>> /\ jobs' = jobs \ {j} /\ j.shard \in Shards
      /\ \A t \in Shards : t # j.shard => registry'[t] = registry[t]
  BY DEF Finished, IInv, TypeOK, Job
<1>2. ASSUME registry[j.shard].closing
      PROVE  registry'[j.shard] = NoGen
  <2>1. registry[j.shard] \in Generation /\ registry[j.shard].epoch = j.epoch
    BY <1>1 DEF IInv, TypeOK, Registered
  <2>2. registry[j.shard] = [epoch |-> j.epoch, closing |-> TRUE]
    BY <1>2, <2>1 DEF Generation
  <2>3. JobsOf(j.shard, j.epoch) = {j}
    BY DEF JobsOf, IInv, OneJobPerShard
  <2>. QED
    BY <1>1, <2>2, <2>3 DEF Finished, IInv, TypeOK
<1>3. registry'[j.shard] \in {registry[j.shard], NoGen}
  BY <1>1 DEF Finished, IInv, TypeOK
<1>4. ASSUME NEW s \in Shards
      PROVE  InLifespan(s)' /\ OldJobsEnded(s)' /\ NameHeld(s)'
  <2>1. InLifespan(s)' /\ OldJobsEnded(s)'
    BY <1>1 DEF EndsInv, InLifespan, OldJobsEnded
  <2>2. CASE s = j.shard
    BY <1>1, <1>2, <1>3, <2>1, <2>2 DEF EndsInv, NameHeld
  <2>3. CASE s # j.shard
    BY <1>1, <2>1, <2>3 DEF EndsInv, NameHeld
  <2>. QED
    BY <2>1, <2>2, <2>3
<1>. QED
  BY <1>1, <1>4 DEF EndsInv

LEMMA WorkerEnds ==
  ASSUME IInv, EndsInv, NEW s \in Shards, Worker(s)
  PROVE  EndsInv'
<1>1. /\ UNCHANGED <<phase, boots>> /\ phase = "up"
      /\ \A t \in Shards : t # s => worker'[t] = worker[t] /\ registry'[t] = registry[t]
      /\ \A j \in jobs' : j \in jobs \/ (j.shard = s /\ j.epoch = boots)
      /\ jobs \subseteq jobs'
      /\ worker'[s] \in {"get", "await", "off"}
  BY DEF Worker, EnterExecutor, Take, Resume, IInv, TypeOK
<1>2. boots \in Nat
  BY DEF IInv, TypeOK
<1>3. \A j \in jobs' : j.epoch <= boots'
  BY <1>1, <1>2 DEF EndsInv
<1>4. NameHeld(s)'
  <2>1. CASE EnterExecutor(s)
    <3>1. worker[s] = "start" /\ jobs' = jobs
      BY <2>1 DEF EnterExecutor
    <3>2. CASE registry[s] = NoGen
      <4>1. worker'[s] = "get" /\ registry'[s] = [epoch |-> boots, closing |-> FALSE]
        BY <2>1, <3>2 DEF EnterExecutor, IInv, TypeOK
      <4>2. ~registry'[s].closing
        BY <4>1
      <4>. QED
        BY <4>1, <4>2 DEF NameHeld
    <3>3. CASE registry[s] # NoGen
      <4>1. registry' = registry
        BY <2>1, <3>3 DEF EnterExecutor
      <4>2. registry[s].closing /\ \E j \in jobs : j.shard = s
        BY <3>1, <3>3 DEF EndsInv, NameHeld
      <4>. QED
        BY <3>1, <4>1, <4>2 DEF NameHeld
    <3>. QED
      BY <3>2, <3>3
  <2>2. CASE Take(s) \/ Resume(s)
    <3>1. worker'[s] \in {"get", "await"} /\ registry' = registry
      BY <2>2 DEF Take, Resume, IInv, TypeOK
    <3>. QED
      BY <1>1, <3>1 DEF NameHeld, EndsInv
  <2>. QED
    BY <2>1, <2>2 DEF Worker
<1>5. ASSUME NEW t \in Shards
      PROVE  InLifespan(t)' /\ OldJobsEnded(t)' /\ NameHeld(t)'
  <2>1. CASE t = s
    BY <1>1, <1>4, <2>1 DEF InLifespan, OldJobsEnded
  <2>2. CASE t # s
    BY <1>1, <2>2 DEF EndsInv, InLifespan, OldJobsEnded, NameHeld
  <2>. QED
    BY <2>1, <2>2
<1>. QED
  BY <1>3, <1>5 DEF EndsInv

LEMMA CancelEnds ==
  ASSUME IInv, EndsInv, NEW s \in Shards, CancelWorker(s)
  PROVE  EndsInv'
<1>. DEFINE left == JobsOf(s, boots) \ {j \in JobsOf(s, boots) : j.phase = "submitted"}
<1>1. /\ UNCHANGED <<phase, boots>> /\ phase = "stopping"
      /\ \A t \in Shards : t # s => worker'[t] = worker[t] /\ registry'[t] = registry[t]
      /\ jobs' \subseteq jobs /\ \A j \in jobs : j.shard # s => j \in jobs'
      /\ worker'[s] \in {"off", "exit"}
  BY DEF CancelWorker, JobsOf, IInv, TypeOK
<1>2. NameHeld(s)'
  <2>1. CASE worker[s] = "start"
    BY <2>1 DEF CancelWorker, EndsInv, NameHeld
  <2>2. CASE worker[s] \in {"get", "await"}
    <3>1. /\ registry'[s] = IF left = {} THEN NoGen ELSE [epoch |-> boots, closing |-> TRUE]
          /\ left \subseteq jobs'
      BY <2>2 DEF CancelWorker, JobsOf, IInv, TypeOK
    <3>2. \A j \in left : j.shard = s
      BY DEF JobsOf
    <3>. QED
      BY <3>1, <3>2 DEF NameHeld
  <2>. QED
    BY <2>1, <2>2 DEF CancelWorker
<1>3. ASSUME NEW t \in Shards
      PROVE  InLifespan(t)' /\ OldJobsEnded(t)' /\ NameHeld(t)'
  <2>1. CASE t = s
    BY <1>1, <1>2, <2>1 DEF InLifespan, OldJobsEnded
  <2>2. CASE t # s
    BY <1>1, <2>2 DEF EndsInv, InLifespan, OldJobsEnded, NameHeld
  <2>. QED
    BY <2>1, <2>2
<1>. QED
  BY <1>1, <1>3 DEF EndsInv

LEMMA LifespanEnds ==
  ASSUME IInv, EndsInv, Lifespan
  PROVE  EndsInv'
<1>1. CASE Boot
  <2>1. /\ UNCHANGED <<registry, jobs>> /\ phase = "down" /\ phase' = "up" /\ boots' = boots + 1
        /\ \A s \in Shards : worker'[s] = "start"
    BY <1>1 DEF Boot
  <2>2. \A j \in jobs : j.phase = "done"
    BY <1>1, QuiesceLeavesNoJob DEF Boot, Live
  <2>3. /\ boots \in Nat
        /\ \A j \in jobs : j.epoch \in Nat /\ j.epoch <= boots
    BY DEF IInv, TypeOK, Job, EndsInv
  <2>4. \A j \in jobs : j.epoch <= boots' /\ j.epoch # boots'
    BY <2>1, <2>3
  <2>5. ASSUME NEW s \in Shards
        PROVE  InLifespan(s)' /\ OldJobsEnded(s)' /\ NameHeld(s)'
    <3>1. worker[s] = "off"
      BY <2>1 DEF EndsInv, InLifespan
    <3>. QED
      BY <2>1, <2>2, <2>4, <3>1 DEF EndsInv, InLifespan, OldJobsEnded, NameHeld
  <2>. QED
    BY <2>1, <2>4, <2>5 DEF EndsInv
<1>2. ASSUME NEW s \in Shards, ExitExecutor(s)
      PROVE  EndsInv'
  <2>1. /\ UNCHANGED <<phase, boots, registry, jobs>> /\ worker[s] = "exit" /\ worker'[s] = "off"
        /\ \A t \in Shards : t # s => worker'[t] = worker[t]
    BY <1>2 DEF ExitExecutor, IInv, TypeOK
  <2>2. ASSUME NEW t \in Shards
        PROVE  InLifespan(t)' /\ OldJobsEnded(t)' /\ NameHeld(t)'
    <3>1. CASE t = s
      BY <2>1, <3>1 DEF EndsInv, InLifespan, OldJobsEnded, NameHeld
    <3>2. CASE t # s
      BY <2>1, <3>2 DEF EndsInv, InLifespan, OldJobsEnded, NameHeld
    <3>. QED
      BY <3>1, <3>2
  <2>. QED
    BY <2>1, <2>2 DEF EndsInv
<1>3. CASE Stop \/ Quiesce \/ FinalWritesEnd
  <2>1. /\ UNCHANGED <<boots, worker, registry, jobs>>
        /\ \A s \in Shards : worker[s] # "off" => phase' = "stopping"
    BY <1>3 DEF Stop, Quiesce, FinalWritesEnd, EndsInv, InLifespan
  <2>. QED
    BY <2>1 DEF EndsInv, InLifespan, OldJobsEnded, NameHeld
<1>. QED
  BY <1>1, <1>2, <1>3, CancelEnds DEF Lifespan

LEMMA EndsStep == ASSUME IInv, EndsInv, [Next]_vars PROVE EndsInv'
<1>1. CASE UNCHANGED vars
  BY <1>1, EndsUnmoved DEF vars
<1>2. ASSUME NEW n \in Nodes, Producer(n) \/ IntervalPasses(n)
      PROVE  EndsInv'
  BY <1>2, EndsUnmoved
  DEF Producer, TcpDetection, TcpBareFrame, PostDetection, BulkEntry, IntervalPasses, lifeVars
<1>. QED
  BY <1>1, <1>2, RephasedEnds, FinishedEnds, WorkerEnds, LifespanEnds DEF Next, Thread

(* While the server is up, a worker ends only by finding its name taken.     *)
LEMMA UpEndsAtEntry ==
  ASSUME IInv, EndsInv, [Next]_vars, NEW s \in Shards,
         phase = "up", worker[s] # "off", worker'[s] = "off"
  PROVE  worker[s] = "start" /\ registry[s] # NoGen
<1>1. \E t \in Shards : EnterExecutor(t)
  <2>1. worker[s] # "exit"
    BY DEF EndsInv, InLifespan
  <2>2. ASSUME NEW t \in Shards, Take(t) \/ Resume(t) \/ CancelWorker(t) \/ ExitExecutor(t)
        PROVE  FALSE
    BY <2>1, <2>2 DEF Take, Resume, CancelWorker, ExitExecutor, IInv, TypeOK
  <2>3. worker' # worker
    OBVIOUS
  <2>4. Next
    BY <2>3 DEF vars
  <2>5. \A n \in Nodes : ~Producer(n) /\ ~IntervalPasses(n)
    BY <2>3 DEF Producer, TcpDetection, TcpBareFrame, PostDetection, BulkEntry, IntervalPasses,
                lifeVars
  <2>6. \A t \in Shards : ~Thread(t)
    BY <2>3 DEF Thread, Start, Finish, Finished
  <2>7. ~Boot /\ ~Stop /\ ~Quiesce /\ ~FinalWritesEnd
    BY <2>3 DEF Boot, Stop, Quiesce, FinalWritesEnd
  <2>. QED
    BY <2>2, <2>4, <2>5, <2>6, <2>7 DEF Next, Worker, Lifespan
<1>2. PICK t \in Shards : EnterExecutor(t)
  BY <1>1
<1>3. t = s
  BY <1>2 DEF EnterExecutor, IInv, TypeOK
<1>. QED
  BY <1>2, <1>3 DEF EnterExecutor, IInv, TypeOK

(* For any shards, jobs that hang and lifespans: while the server is up, a   *)
(* shard's worker ends only if it began before the callback of the last job  *)
(* of an earlier lifespan; a process's first lifespan keeps every worker.    *)
THEOREM WorkersLast == Spec => WorkersEndByRace
<1>1. Init => EndsInv
  BY DEF Init, EndsInv, InLifespan, OldJobsEnded, NameHeld
<1>2. IInv /\ EndsInv /\ [Next]_vars => EndsInv'
  BY EndsStep
<1>. DEFINE A == \A s \in Shards :
                   phase = "up" /\ worker[s] # "off" /\ worker'[s] = "off" =>
                     \E j \in jobs : j.shard = s /\ j.epoch # boots /\ j.phase = "done"
<1>3. IInv /\ EndsInv /\ [Next]_vars => [A]_vars
  <2>. SUFFICES ASSUME IInv, EndsInv, [Next]_vars, NEW s \in Shards,
                       phase = "up", worker[s] # "off", worker'[s] = "off"
                PROVE  \E j \in jobs : j.shard = s /\ j.epoch # boots /\ j.phase = "done"
    OBVIOUS
  <2>1. worker[s] = "start" /\ registry[s] # NoGen
    BY UpEndsAtEntry
  <2>2. \E j \in jobs : j.shard = s
    BY <2>1 DEF EndsInv, NameHeld
  <2>. QED
    BY <2>1, <2>2 DEF EndsInv, OldJobsEnded
<1>4. WorkersEndByRace <=> [][A]_vars
  BY DEF WorkersEndByRace
<1>. QED
  BY <1>1, <1>2, <1>3, <1>4, Invariance, PTL DEF Spec

-----------------------------------------------------------------------------
(* The capacity of the whole queue.  qsize() counts the slots of all shards; *)
(* that there are finitely many follows from the queue having begun empty,   *)
(* so nothing is assumed of the set of shards.                               *)

Slots(q) == UNION {{s} \X (1..Len(q[s])) : s \in Shards}

SlotsBounded == IsFiniteSet(Slots(queue)) /\ WholeQueueBounded

(* A slot is a place in the queue of one shard.                            *)
LEMMA SlotIs ==
  ASSUME NEW q
  PROVE  \A x : x \in Slots(q) <=> \E s \in Shards : \E i \in 1..Len(q[s]) : x = <<s, i>>
BY DEF Slots

(* A shard one frame longer than before takes one more slot.               *)
LEMMA LongerByOne ==
  ASSUME NEW q \in [Shards -> Seq(Frame)], NEW q2 \in [Shards -> Seq(Frame)],
         IsFiniteSet(Slots(q)), NEW h \in Shards, Len(q2[h]) = Len(q[h]) + 1,
         \A s \in Shards : s # h => Len(q2[s]) = Len(q[s])
  PROVE  /\ IsFiniteSet(Slots(q2))
         /\ Cardinality(Slots(q2)) = Cardinality(Slots(q)) + 1
<1>. DEFINE new == <<h, Len(q[h]) + 1>>
<1>1. Len(q[h]) \in Nat /\ 1..Len(q2[h]) = (1..Len(q[h])) \cup {Len(q[h]) + 1}
  OBVIOUS
<1>2. ASSUME NEW x
      PROVE  x \in Slots(q2) <=> x \in Slots(q) \cup {new}
  <2>1. ASSUME NEW s \in Shards, NEW i \in 1..Len(q2[s])
        PROVE  i \in 1..Len(q[s]) \/ <<s, i>> = new
    BY <1>1
  <2>2. ASSUME NEW s \in Shards, NEW i \in 1..Len(q[s])
        PROVE  i \in 1..Len(q2[s])
    BY <1>1
  <2>3. new \in Slots(q2)
    BY <1>1, SlotIs
  <2>. HIDE DEF new
  <2>4. ASSUME x \in Slots(q2)
        PROVE  x \in Slots(q) \cup {new}
    <3>1. PICK s \in Shards : \E i \in 1..Len(q2[s]) : x = <<s, i>>
      BY <2>4, SlotIs
    <3>2. x = new \/ \E i \in 1..Len(q[s]) : x = <<s, i>>
      BY <3>1, <2>1
    <3>. QED
      BY <3>1, <3>2, SlotIs
  <2>5. ASSUME x \in Slots(q)
        PROVE  x \in Slots(q2)
    <3>1. PICK s \in Shards : \E i \in 1..Len(q[s]) : x = <<s, i>>
      BY <2>5, SlotIs
    <3>2. \E i \in 1..Len(q2[s]) : x = <<s, i>>
      BY <3>1, <2>2
    <3>. QED
      BY <3>1, <3>2, SlotIs
  <2>. QED
    BY <2>3, <2>4, <2>5
<1>3. Slots(q2) = Slots(q) \cup {new}
  BY <1>2
<1>4. new \notin Slots(q)
  <2>1. ASSUME NEW s \in Shards, NEW i \in 1..Len(q[s]), new = <<s, i>>
        PROVE  FALSE
    BY <2>1, <1>1
  <2>. QED
    BY <2>1, SlotIs
<1>. QED
  BY <1>3, <1>4, FS_AddElement

(* A shard one frame shorter gives a slot back.                            *)
LEMMA ShorterByOne ==
  ASSUME NEW q \in [Shards -> Seq(Frame)], NEW q2 \in [Shards -> Seq(Frame)],
         IsFiniteSet(Slots(q)), NEW h \in Shards, Len(q2[h]) = Len(q[h]) - 1,
         \A s \in Shards : s # h => Len(q2[s]) = Len(q[s])
  PROVE  /\ IsFiniteSet(Slots(q2))
         /\ Cardinality(Slots(q2)) = Cardinality(Slots(q)) - 1
<1>1. \A s \in Shards : Len(q2[s]) \in Nat /\ Len(q[s]) \in Nat
  OBVIOUS
<1>2. \A s \in Shards : \A i \in 1..Len(q2[s]) : i \in 1..Len(q[s])
  BY <1>1
<1>3. Slots(q2) \subseteq Slots(q)
  BY <1>2, SlotIs
<1>4. IsFiniteSet(Slots(q2))
  BY <1>3, FS_Subset
<1>5. Len(q[h]) = Len(q2[h]) + 1
  BY <1>1
<1>6. Cardinality(Slots(q)) = Cardinality(Slots(q2)) + 1
  BY <1>4, <1>5, LongerByOne
<1>7. Cardinality(Slots(q2)) \in Nat
  BY <1>4, FS_CardinalityType
<1>. QED
  BY <1>4, <1>6, <1>7

(* A shard two frames longer takes two.                                    *)
LEMMA LongerByTwo ==
  ASSUME NEW q \in [Shards -> Seq(Frame)], NEW q2 \in [Shards -> Seq(Frame)],
         IsFiniteSet(Slots(q)), NEW h \in Shards, Len(q2[h]) = Len(q[h]) + 2,
         \A s \in Shards : s # h => Len(q2[s]) = Len(q[s])
  PROVE  /\ IsFiniteSet(Slots(q2))
         /\ Cardinality(Slots(q2)) = Cardinality(Slots(q)) + 2
<1>. DEFINE q1 == [q2 EXCEPT ![h] = Tail(@)]
<1>1. \A s \in Shards : Len(q2[s]) \in Nat /\ Len(q[s]) \in Nat
  OBVIOUS
<1>2. /\ q1 \in [Shards -> Seq(Frame)]
      /\ Len(q1[h]) = Len(q2[h]) - 1
      /\ \A s \in Shards : s # h => q1[s] = q2[s]
  BY <1>1
<1>. HIDE DEF q1
<1>3. /\ Len(q1[h]) = Len(q[h]) + 1 /\ Len(q2[h]) = Len(q1[h]) + 1
      /\ \A s \in Shards : s # h => Len(q1[s]) = Len(q[s])
      /\ \A s \in Shards : s # h => Len(q2[s]) = Len(q1[s])
  BY <1>1, <1>2
<1>4. IsFiniteSet(Slots(q1)) /\ Cardinality(Slots(q1)) = Cardinality(Slots(q)) + 1
  BY <1>2, <1>3, LongerByOne
<1>5. IsFiniteSet(Slots(q2)) /\ Cardinality(Slots(q2)) = Cardinality(Slots(q1)) + 1
  BY <1>2, <1>3, <1>4, LongerByOne
<1>6. Cardinality(Slots(q)) \in Nat
  BY FS_CardinalityType
<1>. QED
  BY <1>4, <1>5, <1>6

(* Depth is the number of slots, a natural number once they are finite.    *)
LEMMA DepthIsSlots ==
  ASSUME IsFiniteSet(Slots(queue))
  PROVE  Depth = Cardinality(Slots(queue)) /\ Depth \in Nat
BY FS_CardinalityType DEF Depth, Slots

(* put_nowait below the capacity fills one slot.                           *)
LEMMA PutTakesOneSlot ==
  ASSUME TypeOK, IsFiniteSet(Slots(queue)), NEW n \in Nodes, Put(n)
  PROVE  IsFiniteSet(Slots(queue)') /\ Depth' = Depth + 1
<1>. DEFINE h == ShardFor(NextFrame(n))
<1>1. h \in Shards /\ NextFrame(n) \in Frame
  BY IngestAssumption DEF ShardFor, NextFrame, Frame, TypeOK
<1>2. /\ queue \in [Shards -> Seq(Frame)] /\ queue' \in [Shards -> Seq(Frame)]
      /\ queue'[h] = Append(queue[h], NextFrame(n))
      /\ \A s \in Shards : s # h => queue'[s] = queue[s]
  BY <1>1, PutType DEF Put, TypeOK
<1>3. queue[h] \in Seq(Frame) /\ Len(queue'[h]) = Len(queue[h]) + 1
  BY <1>1, <1>2
<1>. HIDE DEF h
<1>4. IsFiniteSet(Slots(queue')) /\ Cardinality(Slots(queue')) = Cardinality(Slots(queue)) + 1
  BY <1>1, <1>2, <1>3, LongerByOne
<1>5. Slots(queue)' = Slots(queue') /\ Depth' = Cardinality(Slots(queue'))
  BY DEF Slots, Depth
<1>. QED
  BY <1>4, <1>5, DepthIsSlots

(* A step that leaves the queue alone keeps its slots.                     *)
LEMMA SameSlots ==
  ASSUME SlotsBounded, UNCHANGED queue
  PROVE  SlotsBounded'
BY DEF SlotsBounded, WholeQueueBounded, Depth, Slots

(* put_nowait never exceeds the capacity.                                  *)
LEMMA PutNowaitBounded ==
  ASSUME TypeOK, SlotsBounded, NEW n \in Nodes, PutNowait(n, TRUE) \/ PutNowait(n, FALSE)
  PROVE  SlotsBounded'
<1>1. CASE Full
  BY <1>1, SameSlots DEF PutNowait, Refuse
<1>2. CASE ~Full
  <2>1. IsFiniteSet(Slots(queue)') /\ Depth' = Depth + 1
    BY <1>2, PutTakesOneSlot DEF PutNowait, SlotsBounded
  <2>2. Depth \in Nat /\ QueueMax \in Nat
    BY DepthIsSlots, IngestAssumption DEF SlotsBounded
  <2>3. WholeQueueBounded'
    BY <1>2, <2>1, <2>2 DEF Full, WholeQueueBounded
  <2>. QED
    BY <2>1, <2>3 DEF SlotsBounded
<1>. QED
  BY <1>1, <1>2

(* Neither does an entry of the bulk handler, of which the frames that     *)
(* still fit are put.                                                      *)
LEMMA BulkBounded ==
  ASSUME TypeOK, SlotsBounded, NEW n \in Nodes, BulkEntry(n)
  PROVE  SlotsBounded'
<1>1. Depth \in Nat /\ QueueMax \in Nat /\ IsFiniteSet(Slots(queue))
  BY DepthIsSlots, IngestAssumption DEF SlotsBounded
<1>2. CASE UNCHANGED queue
  BY <1>2, SameSlots
<1>3. CASE QueueMax > 0 /\ Depth + 1 = QueueMax /\ Put(n)
  BY <1>1, <1>3, PutTakesOneSlot DEF SlotsBounded, WholeQueueBounded
<1>4. CASE /\ QueueMax = 0 \/ Depth + 2 <= QueueMax
           /\ queue' = [queue EXCEPT ![ShardFor(NextFrame(n))] =
                           Append(Append(@, NextFrame(n)), [node |-> n, seq |-> arrivals[n] + 2])]
  <2>. DEFINE h  == ShardFor(NextFrame(n))
              f2 == [node |-> n, seq |-> arrivals[n] + 2]
  <2>1. NextFrame(n) \in Frame /\ f2 \in Frame
    BY DEF NextFrame, Frame, TypeOK
  <2>2. h \in Shards /\ queue \in [Shards -> Seq(Frame)] /\ queue[h] \in Seq(Frame)
    BY IngestAssumption DEF ShardFor, NextFrame, TypeOK
  <2>. HIDE DEF f2
  <2>3. /\ queue' \in [Shards -> Seq(Frame)]
        /\ Len(queue'[h]) = Len(queue[h]) + 2
        /\ \A s \in Shards : s # h => queue'[s] = queue[s]
    BY <1>4, <2>1, <2>2 DEF f2
  <2>. HIDE DEF h
  <2>4. IsFiniteSet(Slots(queue')) /\ Cardinality(Slots(queue')) = Cardinality(Slots(queue)) + 2
    BY <1>1, <2>2, <2>3, LongerByTwo
  <2>5. Slots(queue)' = Slots(queue') /\ Depth' = Cardinality(Slots(queue'))
    BY DEF Slots, Depth
  <2>. QED
    BY <1>1, <1>4, <2>4, <2>5, DepthIsSlots DEF SlotsBounded, WholeQueueBounded
<1>. QED
  BY <1>2, <1>3, <1>4 DEF BulkEntry

(* A worker that takes a frame makes room for one.                         *)
LEMMA TakeBounded ==
  ASSUME TypeOK, SlotsBounded, NEW s \in Shards, Take(s)
  PROVE  SlotsBounded'
<1>1. Depth \in Nat /\ QueueMax \in Nat /\ IsFiniteSet(Slots(queue))
  BY DepthIsSlots, IngestAssumption DEF SlotsBounded
<1>2. /\ queue \in [Shards -> Seq(Frame)] /\ queue' \in [Shards -> Seq(Frame)]
      /\ Len(queue'[s]) = Len(queue[s]) - 1
      /\ \A t \in Shards : t # s => queue'[t] = queue[t]
  BY DEF Take, TypeOK
<1>3. IsFiniteSet(Slots(queue')) /\ Cardinality(Slots(queue')) = Cardinality(Slots(queue)) - 1
  BY <1>1, <1>2, ShorterByOne
<1>4. Slots(queue)' = Slots(queue') /\ Depth' = Cardinality(Slots(queue'))
  BY DEF Slots, Depth
<1>. QED
  BY <1>1, <1>3, <1>4, DepthIsSlots DEF SlotsBounded, WholeQueueBounded

(* No step but the producers' and a worker's Take touches the queue.       *)
LEMMA BoundedStep ==
  ASSUME TypeOK, SlotsBounded, [Next]_vars
  PROVE  SlotsBounded'
<1>1. ASSUME NEW n \in Nodes, Producer(n) \/ IntervalPasses(n)
      PROVE  SlotsBounded'
  <2>1. CASE UNCHANGED queue
    BY <2>1, SameSlots
  <2>2. CASE PutNowait(n, TRUE) \/ PutNowait(n, FALSE)
    BY <2>2, PutNowaitBounded
  <2>3. CASE BulkEntry(n)
    BY <2>3, BulkBounded
  <2>. QED
    BY <1>1, <2>1, <2>2, <2>3
    DEF Producer, TcpDetection, TcpBareFrame, PostDetection, IntervalPasses
<1>2. ASSUME NEW s \in Shards, Take(s)
      PROVE  SlotsBounded'
  BY <1>2, TakeBounded
<1>3. CASE UNCHANGED queue
  BY <1>3, SameSlots
<1>. QED
  BY <1>1, <1>2, <1>3 DEF Next, Thread, Start, Finish, Finished, Worker, EnterExecutor,
     Resume, Lifespan, Boot, Stop, CancelWorker, ExitExecutor, Quiesce, FinalWritesEnd, vars

(* An empty queue has no slot.                                             *)
LEMMA BoundedInit == Init => SlotsBounded
<1>. SUFFICES ASSUME Init
              PROVE  SlotsBounded
  OBVIOUS
<1>1. Slots(queue) = {}
  BY SlotIs DEF Init
<1>2. IsFiniteSet(Slots(queue)) /\ Cardinality(Slots(queue)) = 0
  BY <1>1, FS_EmptySet
<1>3. Depth = 0
  BY <1>2, DepthIsSlots
<1>. QED
  BY <1>2, <1>3, IngestAssumption DEF SlotsBounded, WholeQueueBounded

(* FRAME_QUEUE_SIZE bounds the backlog of all shards together, whichever    *)
(* producer puts and however large its entry.                               *)
THEOREM QueueIsBounded == Spec => []WholeQueueBounded
<1>1. TypeOK /\ SlotsBounded /\ [Next]_vars => SlotsBounded'
  BY BoundedStep
<1>2. SlotsBounded => WholeQueueBounded
  BY DEF SlotsBounded
<1>. QED
  BY BoundedInit, <1>1, <1>2, TypeCorrect, PTL DEF Spec

-----------------------------------------------------------------------------
(* The refinement of FrameContract.  A frame is given up only when every    *)
(* frame of its node still to begin is a later one.                         *)

LostBefore ==
  \A f \in lost :
    /\ f.seq <= arrivals[f.node]
    /\ \A s \in Shards : \A i \in 1..Len(queue[s]) :
         queue[s][i].node = f.node => f.seq < queue[s][i].seq
    /\ \A j \in jobs : j.frame.node = f.node => f.seq < j.frame.seq

RInv == IInv /\ LostBefore

(* What a producer's step does to the queue: the places taken keep their    *)
(* frames, and a new place holds a frame its node had not sent before.      *)
QueueGrows ==
  /\ \A m \in Nodes : arrivals[m] <= arrivals'[m]
  /\ \A s \in Shards : \A i \in 1..Len(queue'[s]) :
       \/ i \in 1..Len(queue[s]) /\ queue'[s][i] = queue[s][i]
       \/ queue'[s][i].seq > arrivals[queue'[s][i].node]

LEMMA PutGrows ==
  ASSUME TypeOK, NEW n \in Nodes, Put(n)
  PROVE  QueueGrows /\ arrivals'[n] > arrivals[n]
<1>. DEFINE f == NextFrame(n)
            h == ShardFor(f)
<1>1. f \in Frame /\ f.node = n /\ f.seq = arrivals[n] + 1 /\ h \in Shards
  BY IngestAssumption DEF ShardFor, NextFrame, Frame, TypeOK
<1>2. /\ queue[h] \in Seq(Frame) /\ queue'[h] = Append(queue[h], f)
      /\ \A s \in Shards : s # h => queue'[s] = queue[s]
  BY <1>1 DEF Put, TypeOK
<1>3. /\ arrivals'[n] = arrivals[n] + 1 /\ arrivals[n] \in Nat
      /\ \A m \in Nodes : arrivals[m] <= arrivals'[m]
  BY DEF Put, TypeOK
<1>. HIDE DEF f, h
<1>4. ASSUME NEW i \in 1..Len(queue'[h])
      PROVE  \/ i \in 1..Len(queue[h]) /\ queue'[h][i] = queue[h][i]
             \/ queue'[h][i] = f
  BY <1>1, <1>2
<1>5. f.seq > arrivals[f.node]
  BY <1>1, <1>3
<1>. QED
  BY <1>2, <1>3, <1>4, <1>5 DEF QueueGrows

LEMMA PutTwoGrows ==
  ASSUME TypeOK, NEW n \in Nodes,
         queue' = [queue EXCEPT ![ShardFor(NextFrame(n))] =
                     Append(Append(@, NextFrame(n)), [node |-> n, seq |-> arrivals[n] + 2])],
         arrivals' = [arrivals EXCEPT ![n] = @ + 2]
  PROVE  QueueGrows /\ arrivals'[n] > arrivals[n]
<1>. DEFINE f == NextFrame(n)
            g == [node |-> n, seq |-> arrivals[n] + 2]
            h == ShardFor(f)
<1>1. /\ f \in Frame /\ f.node = n /\ f.seq = arrivals[n] + 1 /\ h \in Shards
      /\ g \in Frame /\ g.node = n /\ g.seq = arrivals[n] + 2
  <2>1. arrivals[n] \in Nat
    BY DEF TypeOK
  <2>2. f \in Frame /\ f.node = n /\ f.seq = arrivals[n] + 1 /\ h \in Shards
    BY <2>1, IngestAssumption DEF ShardFor, NextFrame, Frame
  <2>3. g \in Frame /\ g.node = n /\ g.seq = arrivals[n] + 2
    BY <2>1 DEF Frame
  <2>. QED
    BY <2>2, <2>3
<1>2. /\ queue[h] \in Seq(Frame) /\ queue'[h] = Append(Append(queue[h], f), g)
      /\ \A s \in Shards : s # h => queue'[s] = queue[s]
  BY <1>1 DEF TypeOK
<1>3. /\ arrivals'[n] = arrivals[n] + 2 /\ arrivals[n] \in Nat
      /\ \A m \in Nodes : arrivals[m] <= arrivals'[m]
  BY DEF TypeOK
<1>. HIDE DEF f, g, h
<1>4. ASSUME NEW i \in 1..Len(queue'[h])
      PROVE  \/ i \in 1..Len(queue[h]) /\ queue'[h][i] = queue[h][i]
             \/ queue'[h][i] = f \/ queue'[h][i] = g
  BY <1>1, <1>2
<1>5. f.seq > arrivals[f.node] /\ g.seq > arrivals[g.node]
  BY <1>1, <1>3
<1>. QED
  BY <1>2, <1>3, <1>4, <1>5 DEF QueueGrows

(* Whatever a producer does, the contract accepts frames of its node or     *)
(* nothing, and the queue only grows.                                       *)
LEMMA ProducerGrows ==
  ASSUME TypeOK, NEW n \in Nodes, Producer(n) \/ IntervalPasses(n)
  PROVE  /\ QueueGrows
         /\ arrivals' = arrivals \/ arrivals'[n] > arrivals[n]
         /\ \A m \in Nodes : m # n => arrivals'[m] = arrivals[m]
         /\ arrivals' \in [Nodes -> Nat]
<1>1. CASE UNCHANGED <<queue, arrivals>>
  BY <1>1 DEF QueueGrows, TypeOK
<1>2. CASE Put(n)
  <2>1. \A m \in Nodes : m # n => arrivals'[m] = arrivals[m]
    BY <1>2 DEF Put, TypeOK
  <2>. QED
    BY <1>2, <2>1, PutGrows, PutType
<1>3. CASE /\ queue' = [queue EXCEPT ![ShardFor(NextFrame(n))] =
                          Append(Append(@, NextFrame(n)), [node |-> n, seq |-> arrivals[n] + 2])]
           /\ arrivals' = [arrivals EXCEPT ![n] = @ + 2]
  <2>1. arrivals' \in [Nodes -> Nat] /\ \A m \in Nodes : m # n => arrivals'[m] = arrivals[m]
    BY <1>3 DEF TypeOK
  <2>2. QueueGrows /\ arrivals'[n] > arrivals[n]
    BY <1>3, PutTwoGrows
  <2>. QED
    BY <2>1, <2>2
<1>. QED
  BY <1>1, <1>2, <1>3 DEF Producer, TcpDetection, TcpBareFrame, PostDetection, BulkEntry,
     IntervalPasses, PutNowait, Refuse

LEMMA ProducerKeepsLost ==
  ASSUME RInv, NEW n \in Nodes, Producer(n) \/ IntervalPasses(n)
  PROVE  LostBefore'
<1>1. UNCHANGED <<jobs, lost>>
  BY DEF Producer, TcpDetection, TcpBareFrame, PostDetection, BulkEntry,
         IntervalPasses, lifeVars, histVars
<1>2. QueueGrows /\ arrivals' \in [Nodes -> Nat] /\ arrivals \in [Nodes -> Nat]
  BY ProducerGrows DEF RInv, IInv, TypeOK
<1>3. \A s \in Shards : queue'[s] \in Seq(Frame)
  BY TypeStep DEF RInv, IInv, TypeOK, Next
<1>. SUFFICES ASSUME NEW f \in lost
              PROVE  /\ f.seq <= arrivals'[f.node]
                     /\ \A s \in Shards : \A i \in 1..Len(queue'[s]) :
                          queue'[s][i].node = f.node => f.seq < queue'[s][i].seq
                     /\ \A j \in jobs : j.frame.node = f.node => f.seq < j.frame.seq
  BY <1>1 DEF LostBefore
<1>4. f.node \in Nodes /\ f.seq \in Nat
  BY DEF RInv, IInv, TypeOK, Frame
<1>5. /\ f.seq <= arrivals[f.node]
      /\ \A s \in Shards : \A i \in 1..Len(queue[s]) :
           queue[s][i].node = f.node => f.seq < queue[s][i].seq
      /\ \A j \in jobs : j.frame.node = f.node => f.seq < j.frame.seq
  BY DEF RInv, LostBefore
<1>6. f.seq <= arrivals'[f.node]
  BY <1>2, <1>4, <1>5 DEF QueueGrows
<1>7. ASSUME NEW s \in Shards, NEW i \in 1..Len(queue'[s]), queue'[s][i].node = f.node
      PROVE  f.seq < queue'[s][i].seq
  <2>1. CASE i \in 1..Len(queue[s]) /\ queue'[s][i] = queue[s][i]
    BY <1>5, <1>7, <2>1
  <2>2. CASE queue'[s][i].seq > arrivals[f.node]
    <3>1. queue'[s][i] \in Frame
      BY <1>3
    <3>. QED
      BY <1>2, <1>4, <1>5, <2>2, <3>1 DEF Frame
  <2>. QED
    BY <1>2, <1>7, <2>1, <2>2 DEF QueueGrows
<1>. QED
  BY <1>5, <1>6, <1>7

(* A job whose phase moves keeps its frame.                                 *)
LEMMA ThreadKeepsLost ==
  ASSUME RInv, NEW j \in jobs, Start(j) \/ Finish(j) \/ Finished(j)
  PROVE  LostBefore'
<1>1. UNCHANGED <<queue, arrivals, lost>>
  BY DEF Start, Finish, Finished, histVars
<1>2. ASSUME NEW o \in jobs'
      PROVE  \E p \in jobs : o.frame = p.frame
  <2>1. CASE Finished(j)
    BY <2>1 DEF Finished
  <2>2. CASE \E p \in {"running", "done"} : jobs' = SetPhase(j, p)
    <3>. PICK p \in {"running", "done"} : jobs' = SetPhase(j, p)
      BY <2>2
    <3>1. j \in Job
      BY DEF RInv, IInv, TypeOK
    <3>2. [j EXCEPT !.phase = p].frame = j.frame
      BY <3>1 DEF Job
    <3>. QED
      BY <3>2 DEF SetPhase
  <2>. QED
    BY <2>1, <2>2 DEF Start, Finish
<1>. QED
  BY <1>1, <1>2 DEF RInv, LostBefore

(* The frame a worker takes was the oldest of its shard.                    *)
LEMMA TakeKeepsLost ==
  ASSUME RInv, NEW s \in Shards, Take(s)
  PROVE  LostBefore'
<1>1. UNCHANGED <<arrivals, lost>>
  BY DEF Take, histVars
<1>2. /\ queue[s] \in Seq(Frame) /\ queue[s] # <<>> /\ queue'[s] = Tail(queue[s])
      /\ \A t \in Shards : t # s => queue'[t] = queue[t]
  BY DEF Take, RInv, IInv, TypeOK
<1>3. /\ 1 \in 1..Len(queue[s]) /\ Head(queue[s]) = queue[s][1]
      /\ \A i \in 1..Len(queue'[s]) :
           i + 1 \in 1..Len(queue[s]) /\ queue'[s][i] = queue[s][i + 1]
  BY <1>2
<1>4. \A j \in jobs' : j \in jobs \/ j.frame = queue[s][1]
  BY <1>3 DEF Take
<1>5. \A t \in Shards : \A i \in 1..Len(queue'[t]) :
        \E k \in 1..Len(queue[t]) : queue'[t][i] = queue[t][k]
  BY <1>2, <1>3
<1>. QED
  BY <1>1, <1>3, <1>4, <1>5 DEF RInv, LostBefore

(* A worker's cancellation gives up at most the one job of its shard.       *)
LEMMA CancelledJob ==
  ASSUME IInv, NEW s \in Shards, CancelWorker(s)
  PROVE  \/ UNCHANGED <<jobs, lost>>
         \/ \E j \in jobs : /\ j.shard = s /\ j.phase = "submitted"
                            /\ jobs' = jobs \ {j} /\ lost' = lost \cup {j.frame}
<1>. DEFINE cancelled == {j \in JobsOf(s, boots) : j.phase = "submitted"}
<1>1. \/ UNCHANGED <<jobs, lost>>
      \/ jobs' = jobs \ cancelled /\ lost' = lost \cup {j.frame : j \in cancelled}
  BY DEF CancelWorker
<1>2. CASE cancelled = {}
  BY <1>1, <1>2
<1>3. ASSUME NEW j \in cancelled
      PROVE  j \in jobs /\ j.shard = s /\ j.phase = "submitted" /\ cancelled = {j}
  BY DEF JobsOf, IInv, OneJobPerShard
<1>4. ASSUME NEW j \in cancelled, jobs' = jobs \ cancelled,
             lost' = lost \cup {i.frame : i \in cancelled}
      PROVE  /\ j \in jobs /\ j.shard = s /\ j.phase = "submitted"
             /\ jobs' = jobs \ {j} /\ lost' = lost \cup {j.frame}
  <2>1. j \in jobs /\ j.shard = s /\ j.phase = "submitted" /\ cancelled = {j}
    BY <1>3
  <2>. HIDE DEF cancelled
  <2>. QED
    BY <1>4, <2>1
<1>. HIDE DEF cancelled
<1>. QED
  BY <1>1, <1>2, <1>4

(* The frames of the cancelled job's node that are still queued are later.  *)
LEMMA CancelKeepsLost ==
  ASSUME RInv, NEW s \in Shards, CancelWorker(s)
  PROVE  LostBefore'
<1>1. UNCHANGED <<queue, arrivals>> /\ IInv
  BY DEF CancelWorker, RInv
<1>2. CASE UNCHANGED <<jobs, lost>>
  BY <1>1, <1>2 DEF RInv, LostBefore
<1>3. CASE \E j \in jobs : /\ j.shard = s /\ j.phase = "submitted"
                           /\ jobs' = jobs \ {j} /\ lost' = lost \cup {j.frame}
  <2>. PICK j \in jobs : jobs' = jobs \ {j} /\ lost' = lost \cup {j.frame}
    BY <1>3
  <2>1. /\ j.frame.seq <= arrivals[j.frame.node]
        /\ \A t \in Shards : \A i \in 1..Len(queue[t]) :
             queue[t][i].node = j.frame.node => j.frame.seq < queue[t][i].seq
    BY <1>1 DEF IInv, JobOrder, OrderedAfter
  <2>2. \A o \in jobs : o.frame.node = j.frame.node => o = j
    BY <1>1 DEF IInv, JobOrder, OneJobPerShard
  <2>. QED
    BY <1>1, <2>1, <2>2 DEF RInv, LostBefore
<1>. QED
  BY <1>1, <1>2, <1>3, CancelledJob

(* Every step keeps the given-up frames behind those to come.               *)
LEMMA LostStep ==
  ASSUME RInv, [Next]_vars
  PROVE  LostBefore'
<1>1. ASSUME UNCHANGED <<queue, arrivals, jobs, lost>>
      PROVE  LostBefore'
  BY <1>1 DEF RInv, LostBefore
<1>2. ASSUME NEW n \in Nodes, Producer(n) \/ IntervalPasses(n)
      PROVE  LostBefore'
  BY <1>2, ProducerKeepsLost
<1>3. ASSUME NEW j \in jobs, Start(j) \/ Finish(j) \/ Finished(j)
      PROVE  LostBefore'
  BY <1>3, ThreadKeepsLost
<1>4. ASSUME NEW s \in Shards, Worker(s)
      PROVE  LostBefore'
  BY <1>1, <1>4, TakeKeepsLost DEF Worker, EnterExecutor, Resume, histVars
<1>5. CASE Lifespan
  BY <1>1, <1>5, CancelKeepsLost
  DEF Lifespan, Boot, Stop, ExitExecutor, Quiesce, FinalWritesEnd, histVars
<1>6. CASE UNCHANGED vars
  BY <1>1, <1>6 DEF vars
<1>. QED
  BY <1>2, <1>3, <1>4, <1>5, <1>6 DEF Next, Thread

(* The strengthened invariant holds in every reachable state.               *)
LEMMA RInvariance == Spec => []RInv
<1>1. Init => RInv
  BY InvInit DEF RInv, Init, LostBefore
<1>2. RInv /\ [Next]_vars => RInv'
  BY LostStep, InvStep DEF RInv
<1>. QED
  BY <1>1, <1>2, PTL DEF Spec

(* The frame a job holds before it begins is the oldest of its node that    *)
(* was neither begun nor given up.                                          *)
LEMMA SubmittedIsNext ==
  ASSUME RInv, NEW j \in jobs, j.phase = "submitted"
  PROVE  /\ Contract!NextUp(j.frame.node, j.frame.seq)
         /\ j.frame = Contract!Frame(j.frame.node, j.frame.seq)
         /\ j.frame.node \in Nodes
<1>. DEFINE n == j.frame.node
            c == j.frame.seq
<1>1. n \in Nodes /\ c \in Nat /\ j.frame = [node |-> n, seq |-> c]
  BY DEF RInv, IInv, TypeOK, Job, Frame
<1>2. started[n] \in Nat /\ arrivals[n] \in Nat
  BY <1>1 DEF RInv, IInv, TypeOK
<1>3. started[n] < c /\ c <= arrivals[n] /\ ShardOf[n] = j.shard
  BY DEF RInv, IInv, JobOrder
<1>4. j.frame \notin lost
  BY <1>1 DEF RInv, LostBefore
<1>5. ASSUME NEW k \in (started[n] + 1)..(c - 1), NEW f, f = [node |-> n, seq |-> k]
      PROVE  f \in lost
  <2>1. k \in (started[n] + 1)..arrivals[n] /\ k < c /\ f.node = n /\ f.seq = k
    BY <1>1, <1>2, <1>3, <1>5
  <2>2. WaitsIn(queue, f) \/ f \in lost \/ \E o \in jobs : o.frame = f
    BY <1>1, <1>5, <2>1 DEF RInv, IInv, NoFrameVanishes, KeptIn
  <2>3. ~WaitsIn(queue, f)
    <3>1. ASSUME NEW s \in Shards, NEW i \in 1..Len(queue[s]), queue[s][i] = f
          PROVE  FALSE
      <4>1. c < queue[s][i].seq
        BY <2>1, <3>1 DEF RInv, IInv, OrderedAfter
      <4>. QED
        BY <1>1, <2>1, <3>1, <4>1
    <3>. QED
      BY <3>1 DEF WaitsIn
  <2>4. ASSUME NEW o \in jobs, o.frame = f
        PROVE  FALSE
    <3>1. o.shard = j.shard
      BY <1>3, <2>1, <2>4 DEF RInv, IInv, JobOrder
    <3>2. o = j
      BY <3>1 DEF RInv, IInv, OneJobPerShard
    <3>. QED
      BY <1>1, <2>1, <2>4, <3>2
  <2>. QED
    BY <2>2, <2>3, <2>4
<1>. HIDE DEF n, c
<1>6. c \in (started[n] + 1)..arrivals[n]
  BY <1>1, <1>2, <1>3
<1>7. Contract!NextUp(n, c)
  BY <1>1, <1>4, <1>5, <1>6 DEF Contract!NextUp, Contract!Frame
<1>. QED
  BY <1>1, <1>7 DEF Contract!Frame, n, c

BusyNodes == {j.frame.node : j \in Running}

(* The jobs of one node are one job, so a node is busy while its job runs.  *)
LEMMA BusyIs ==
  ASSUME IInv, NEW j \in jobs
  PROVE  j.frame.node \in BusyNodes <=> j.phase = "running"
BY DEF IInv, JobOrder, OneJobPerShard, BusyNodes, Running

(* A thread that begins a frame begins the next of its node.                *)
LEMMA StartBegins ==
  ASSUME RInv, NEW j \in jobs, Start(j)
  PROVE  Contract!Begin(j.frame.node) /\ j.frame.node \in Nodes
<1>. DEFINE n == j.frame.node
<1>1. /\ j.phase = "submitted" /\ UNCHANGED <<arrivals, lost, phase>>
      /\ started' = [started EXCEPT ![n] = j.frame.seq]
  BY DEF Start
<1>2. Contract!NextUp(n, j.frame.seq) /\ n \in Nodes
  BY <1>1, SubmittedIsNext
<1>3. started'[n] = j.frame.seq /\ started' = [started EXCEPT ![n] = started'[n]]
  BY <1>1, <1>2 DEF RInv, IInv, TypeOK
<1>4. n \notin BusyNodes
  BY <1>1, BusyIs DEF RInv
<1>5. phase # "writing"
  BY <1>1 DEF RInv, IInv, FinalWritesAlone, Live
<1>6. BusyNodes' = BusyNodes \cup {n}
  <2>1. PICK j2 \in jobs' :
           /\ j2.frame = j.frame /\ j2.phase = "running"
           /\ \A o \in jobs' : o = j2 \/ o \in jobs
           /\ \A o \in jobs : o = j \/ o \in jobs'
    BY RephasedJobs DEF Start, RInv, IInv
  <2>. QED
    BY <1>1, <2>1 DEF BusyNodes, Running
<1>. HIDE DEF n
<1>7. Contract!Begin(n)
  BY <1>1, <1>2, <1>3, <1>4, <1>5, <1>6 DEF Contract!Begin, BusyNodes
<1>. QED
  BY <1>2, <1>7 DEF n

(* A thread that ends a frame frees its node.                               *)
LEMMA FinishEnds ==
  ASSUME RInv, NEW j \in jobs, Finish(j)
  PROVE  Contract!End(j.frame.node) /\ j.frame.node \in Nodes
<1>. DEFINE n == j.frame.node
<1>1. j.phase = "running" /\ UNCHANGED <<arrivals, started, lost, phase>>
  BY DEF Finish, histVars
<1>2. n \in Nodes /\ n \in BusyNodes
  BY <1>1, BusyIs DEF RInv, IInv, TypeOK, Job, Frame
<1>3. BusyNodes' = BusyNodes \ {n}
  <2>1. PICK j2 \in jobs' :
           /\ j2.frame = j.frame /\ j2.phase = "done"
           /\ \A o \in jobs' : o = j2 \/ (o \in jobs /\ o.shard # j.shard)
           /\ \A o \in jobs : o = j \/ o \in jobs'
    BY RephasedJobs DEF Finish, RInv, IInv
  <2>2. \A o \in jobs : o.shard # j.shard => o.frame.node # n
    BY DEF RInv, IInv, JobOrder
  <2>. QED
    BY <2>1, <2>2 DEF BusyNodes, Running
<1>. HIDE DEF n
<1>4. Contract!End(n)
  BY <1>1, <1>2, <1>3 DEF Contract!End, BusyNodes
<1>. QED
  BY <1>2, <1>4 DEF n

(* A cancelled worker gives up the next frame of one node, or none.         *)
LEMMA CancelGivesUp ==
  ASSUME RInv, NEW s \in Shards, CancelWorker(s)
  PROVE  \/ UNCHANGED <<arrivals, started, jobs, lost, phase>>
         \/ \E n \in Nodes : Contract!GiveUp(n)
<1>1. UNCHANGED <<arrivals, started, phase>> /\ phase = "stopping"
  BY DEF CancelWorker
<1>2. ASSUME NEW j \in jobs, j.phase = "submitted",
             jobs' = jobs \ {j}, lost' = lost \cup {j.frame}
      PROVE  j.frame.node \in Nodes /\ Contract!GiveUp(j.frame.node)
  <2>. DEFINE n == j.frame.node
              k == j.frame.seq
  <2>1. Contract!NextUp(n, k) /\ j.frame = Contract!Frame(n, k) /\ n \in Nodes
    BY <1>2, SubmittedIsNext
  <2>2. n \notin BusyNodes
    BY <1>2, BusyIs DEF RInv
  <2>3. BusyNodes' = BusyNodes
    BY <1>2 DEF BusyNodes, Running
  <2>. HIDE DEF n, k
  <2>4. k \in (started[n] + 1)..arrivals[n]
    BY <2>1 DEF Contract!NextUp
  <2>5. Contract!GiveUp(n)
    BY <1>1, <1>2, <2>1, <2>2, <2>3, <2>4 DEF Contract!GiveUp, BusyNodes
  <2>. QED
    BY <2>1, <2>5 DEF n
<1>. QED
  BY <1>1, <1>2, CancelledJob DEF RInv

(* Every step of the ingest is a step of the contract or a stutter.         *)
LEMMA ContractStep ==
  ASSUME RInv, [Next]_vars
  PROVE  [Contract!Next]_<<arrivals, started, BusyNodes, lost, phase = "writing">>
<1>1. ASSUME UNCHANGED <<arrivals, started, jobs, lost, phase>>
      PROVE  UNCHANGED <<arrivals, started, BusyNodes, lost, phase = "writing">>
  BY <1>1 DEF BusyNodes, Running
<1>2. ASSUME NEW n \in Nodes, Producer(n) \/ IntervalPasses(n)
      PROVE  Contract!Next \/ UNCHANGED <<arrivals, started, jobs, lost, phase>>
  <2>1. UNCHANGED <<phase, jobs, started, lost>>
    BY <1>2 DEF Producer, TcpDetection, TcpBareFrame, PostDetection, BulkEntry,
           IntervalPasses, lifeVars, histVars
  <2>2. /\ arrivals' = arrivals \/ arrivals'[n] > arrivals[n]
        /\ \A m \in Nodes : m # n => arrivals'[m] = arrivals[m]
        /\ arrivals' \in [Nodes -> Nat] /\ arrivals \in [Nodes -> Nat]
    BY <1>2, ProducerGrows DEF RInv, IInv, TypeOK
  <2>3. BusyNodes' = BusyNodes
    BY <2>1 DEF BusyNodes, Running
  <2>4. arrivals' = [arrivals EXCEPT ![n] = arrivals'[n]]
    BY <2>2
  <2>. QED
    BY <2>1, <2>2, <2>3, <2>4 DEF Contract!Next, Contract!Accept, BusyNodes
<1>3. ASSUME NEW j \in jobs, Start(j) \/ Finish(j)
      PROVE  Contract!Next
  BY <1>3, StartBegins, FinishEnds DEF Contract!Next
<1>4. ASSUME NEW j \in jobs, Finished(j)
      PROVE  UNCHANGED <<arrivals, started, BusyNodes, lost, phase = "writing">>
  BY <1>4 DEF Finished, histVars, BusyNodes, Running
<1>5. ASSUME NEW s \in Shards, Worker(s)
      PROVE  UNCHANGED <<arrivals, started, BusyNodes, lost, phase = "writing">>
  <2>1. UNCHANGED <<arrivals, started, lost, phase>>
    BY <1>5 DEF Worker, EnterExecutor, Take, Resume, histVars
  <2>2. BusyNodes' = BusyNodes
    BY <1>5 DEF Worker, EnterExecutor, Take, Resume, BusyNodes, Running
  <2>. QED
    BY <2>1, <2>2
<1>6. ASSUME NEW s \in Shards, CancelWorker(s)
      PROVE  Contract!Next \/ UNCHANGED <<arrivals, started, jobs, lost, phase>>
  BY <1>6, CancelGivesUp DEF Contract!Next
<1>7. CASE Boot \/ Stop \/ \E s \in Shards : ExitExecutor(s)
  <2>1. UNCHANGED <<arrivals, started, jobs, lost>> /\ (phase = "writing" <=> phase' = "writing")
    BY <1>7 DEF Boot, Stop, ExitExecutor, histVars
  <2>. QED
    BY <2>1 DEF BusyNodes, Running
<1>8. CASE Quiesce \/ FinalWritesEnd
  <2>1. UNCHANGED <<arrivals, started, jobs, lost>>
    BY <1>8 DEF Quiesce, FinalWritesEnd, histVars
  <2>2. UNCHANGED BusyNodes
    BY <2>1 DEF BusyNodes, Running
  <2>3. \/ (phase = "writing")' = (phase = "writing")
        \/ BusyNodes = {} /\ (phase = "writing")' = ~(phase = "writing")
    <3>1. CASE Quiesce
      BY <3>1, QuiesceLeavesNoJob DEF Quiesce, RInv, BusyNodes, Running, Live
    <3>2. CASE FinalWritesEnd
      BY <3>2 DEF FinalWritesEnd, RInv, IInv, FinalWritesAlone, BusyNodes, Running, Live
    <3>. QED
      BY <1>8, <3>1, <3>2
  <2>. QED
    BY <2>1, <2>2, <2>3 DEF Contract!Next, Contract!Write, BusyNodes
<1>9. CASE UNCHANGED vars
  BY <1>1, <1>9 DEF vars
<1>. QED
  BY <1>1, <1>2, <1>3, <1>4, <1>5, <1>6, <1>7, <1>8, <1>9 DEF Next, Thread, Lifespan

(* The sharded queue and its workers serve each node as a first-in-first-   *)
(* out server would, over every shutdown and restart.                       *)
THEOREM IngestKeepsContract == Spec => KeepsContract
<1>1. Init => Contract!Init
  BY DEF Init, Contract!Init, Running
<1>2. RInv /\ [Next]_vars => [Contract!Next]_<<arrivals, started, BusyNodes, lost, phase = "writing">>
  BY ContractStep
<1>. QED
  BY <1>1, <1>2, RInvariance, PTL
  DEF Spec, KeepsContract, Contract!Spec, Contract!contractVars, BusyNodes

=============================================================================
