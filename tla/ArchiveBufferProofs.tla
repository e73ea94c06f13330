------------------------ MODULE ArchiveBufferProofs ------------------------
(***************************************************************************)
(* Proofs about ArchiveBuffer for any nodes, workers, batch size and bound *)
(* on frames: each frame is archived at most once, none leaves its buffer  *)
(* unaccounted for, and the whole implements ArchiveContract.              *)
(***************************************************************************)
EXTENDS ArchiveBuffer, TLAPS

(* The snapshot a thread writes is still the front of its node's buffer.    *)
SnapshotIsFront ==
  \A t \in Threads : pc[t] \in {"write", "written", "failed"} =>
    /\ job[t].from = head[job[t].node]
    /\ job[t].from < job[t].to
    /\ job[t].to <= tail[job[t].node]

(* On disk and not yet taken off the buffer.                                *)
Overlap(n, k) ==
  \E t \in Threads : pc[t] = "written" /\ job[t].node = n /\ k <= job[t].to

(* What has left the buffer was written or dropped; what is in it was       *)
(* written by the thread about to truncate, or not at all.                  *)
Accounted ==
  \A n \in Nodes : \A k \in Frames :
    /\ k <= head[n] => \/ copies[n][k] = 1 /\ k \notin given[n]
                       \/ copies[n][k] = 0 /\ k \in given[n]
    /\ k > head[n] => /\ k \notin given[n]
                      /\ Overlap(n, k) => copies[n][k] = 1
                      /\ ~Overlap(n, k) => copies[n][k] = 0

IInv == TypeOK /\ ClaimsAreHeld /\ SnapshotIsFront /\ Accounted

-----------------------------------------------------------------------------
(* Types *)

(* The buffers' bounds, as plain facts.                                     *)
LEMMA BufferBounds ==
  ASSUME TypeOK
  PROVE  \A n \in Nodes : /\ head[n] \in Nat /\ tail[n] \in Nat
                          /\ head[n] <= tail[n] /\ tail[n] <= MaxFrames
<1>. TAKE n \in Nodes
<1>1. tail[n] \in 0..MaxFrames /\ head[n] \in Nat /\ head[n] <= tail[n]
  BY DEF TypeOK
<1>2. MaxFrames \in Nat
  BY ArchiveAssumption
<1>. QED
  BY <1>1, <1>2

(* Giving one thread a new job keeps the jobs typed.                        *)
LEMMA JobUpdate ==
  ASSUME TypeOK, NEW t \in Threads, NEW n \in Nodes, NEW a \in Nat, NEW b \in Nat,
         a <= b, job' = [job EXCEPT ![t] = [node |-> n, from |-> a, to |-> b]]
  PROVE  job' \in [Threads -> Jobs] /\ \A u \in Threads : job'[u].from <= job'[u].to
<1>1. [node |-> n, from |-> a, to |-> b] \in Jobs
  BY DEF Jobs
<1>2. job \in [Threads -> Jobs] /\ \A u \in Threads : job[u].from <= job[u].to
  BY DEF TypeOK
<1>3. job'[t].from = a /\ job'[t].to = b
  BY <1>2
<1>. QED
  BY <1>1, <1>2, <1>3

(* The frame worker and the surroundings keep the types.                    *)
LEMMA OutsideType ==
  ASSUME TypeOK, NEW n \in Nodes, AppendFrame(n) \/ Expire(n) \/ ConnectOrDepart(n)
  PROVE  TypeOK'
<1>. USE DEF bufferVars, sweepVars
<1>1. CASE AppendFrame(n)
  <2>1. WorkerOf[n] \in Threads
    BY ArchiveAssumption DEF Threads
  <2>2. tail' \in [Nodes -> 0..MaxFrames] /\ \A m \in Nodes : head[m] <= tail'[m]
    <3>1. tail' = [tail EXCEPT ![n] = @ + 1] /\ tail[n] < MaxFrames
      BY <1>1 DEF AppendFrame
    <3>. QED
      BY <3>1, ArchiveAssumption DEF TypeOK
  <2>3. /\ pc' \in [Threads -> Labels]
        /\ job' \in [Threads -> Jobs]
        /\ \A t \in Threads : job'[t].from <= job'[t].to
    <3>1. pc' \in [Threads -> Labels]
      BY <1>1, <2>1 DEF AppendFrame, TypeOK, Goto, Labels
    <3>2. \/ UNCHANGED job
          \/ job' = [job EXCEPT ![WorkerOf[n]] = [node |-> n, from |-> 0, to |-> 0]]
      BY <1>1 DEF AppendFrame
    <3>. QED
      <4>1. CASE UNCHANGED job
        BY <3>1, <4>1 DEF TypeOK
      <4>2. CASE ~UNCHANGED job
        BY <2>1, <3>1, <3>2, <4>2, JobUpdate
      <4>. QED
        BY <4>1, <4>2
  <2>4. UNCHANGED <<head, inflight, failing, connected, todo, expired, live, disk, copies, given>>
    BY <1>1 DEF AppendFrame
  <2>. QED
    BY <2>2, <2>3, <2>4 DEF TypeOK
<1>2. CASE Expire(n)
  BY <1>2 DEF Expire, TypeOK
<1>3. CASE ConnectOrDepart(n)
  BY <1>3 DEF ConnectOrDepart, TypeOK
<1>. QED
  BY <1>1, <1>2, <1>3

(* Every step of a flush keeps the types.                                   *)
LEMMA FlushType ==
  ASSUME TypeOK, NEW t \in Threads, Flush(t)
  PROVE  TypeOK'
<1>. USE DEF bufferVars, sweepVars
<1>. DEFINE n == job[t].node
<1>1. n \in Nodes /\ job[t].from \in Nat /\ job[t].to \in Nat
  BY DEF TypeOK, Jobs
<1>2. head[n] \in Nat /\ tail[n] \in Nat /\ head[n] <= tail[n] /\ HardCap \in Nat
  BY <1>1, ArchiveAssumption DEF TypeOK, HardCap
<1>3. pc' \in [Threads -> Labels]
  BY DEF Flush, Begin, NothingToWrite, Write, Retain, Truncate, Return, Goto, TypeOK, Labels
<1>4. CASE Begin(t)
  <2>1. /\ inflight' \in SUBSET Nodes
        /\ \/ UNCHANGED job
           \/ job' = [job EXCEPT ![t] = [node |-> n, from |-> head[n], to |-> tail[n]]]
    BY <1>1, <1>4 DEF Begin, TypeOK
  <2>3. /\ job' \in [Threads -> Jobs]
        /\ \A u \in Threads : job'[u].from <= job'[u].to
    BY <1>1, <1>2, <2>1, JobUpdate DEF TypeOK, Jobs
  <2>2. UNCHANGED <<head, tail, copies, given, failing, connected, todo, expired, live, disk>>
    BY <1>4 DEF Begin
  <2>. QED
    BY <1>3, <2>1, <2>2, <2>3 DEF TypeOK
<1>5. CASE NothingToWrite(t)
  BY <1>3, <1>5 DEF NothingToWrite, TypeOK
<1>6. CASE Write(t)
  <2>1. copies' \in [Nodes -> [Frames -> Nat]]
    <3>. DEFINE upd(c) == [k \in Frames |-> IF k \in (job[t].from + 1)..job[t].to
                                           THEN c[k] + 1 ELSE c[k]]
    <3>1. copies \in [Nodes -> [Frames -> Nat]]
      BY DEF TypeOK
    <3>2. upd(copies[n]) \in [Frames -> Nat]
      BY <1>1, <3>1
    <3>3. copies' = [copies EXCEPT ![n] = upd(copies[n])] \/ UNCHANGED copies
      BY <1>1, <1>6, <3>1 DEF Write
    <3>. HIDE DEF upd
    <3>. QED
      BY <3>1, <3>2, <3>3
  <2>2. UNCHANGED <<head, tail, given, inflight, failing, connected, job, todo, expired, live, disk>>
    BY <1>6 DEF Write
  <2>. QED
    BY <1>3, <2>1, <2>2 DEF TypeOK
<1>7. CASE Retain(t)
  <2>. DEFINE excess == IF tail[n] - head[n] > HardCap THEN tail[n] - head[n] - HardCap ELSE 0
  <2>1. excess \in Nat /\ head[n] + excess <= tail[n]
    BY <1>2
  <2>2. head' = [head EXCEPT ![n] = @ + excess]
    BY <1>7 DEF Retain
  <2>3. given' = [given EXCEPT ![n] = @ \cup DropFirst(n, excess)]
    BY <1>7 DEF Retain
  <2>. HIDE DEF excess
  <2>4. head' \in [Nodes -> Nat] /\ \A m \in Nodes : head'[m] <= tail[m]
    BY <1>1, <1>2, <2>1, <2>2 DEF TypeOK
  <2>5. DropFirst(n, excess) \in SUBSET Frames
    <3>1. tail[n] <= MaxFrames
      BY <1>1, ArchiveAssumption DEF TypeOK
    <3>. QED
      BY <1>2, <2>1, <3>1, ArchiveAssumption DEF DropFirst, Frames
  <2>6. given' \in [Nodes -> SUBSET Frames]
    BY <2>3, <2>5 DEF TypeOK
  <2>7. UNCHANGED <<tail, connected, job, todo, expired, live, disk, copies>>
        /\ inflight' \in SUBSET Nodes /\ failing' \in [Nodes -> {"no", "recent", "expired"}]
    BY <1>7 DEF Retain, TypeOK
  <2>. QED
    BY <1>3, <2>4, <2>6, <2>7 DEF TypeOK
<1>8. CASE Truncate(t)
  <2>1. head' = [head EXCEPT ![n] = IF @ + (job[t].to - job[t].from) <= tail[n]
                                    THEN @ + (job[t].to - job[t].from) ELSE tail[n]]
    BY <1>8 DEF Truncate
  <2>2. job[t].to - job[t].from \in Nat
    BY <1>1 DEF TypeOK
  <2>3. head' \in [Nodes -> Nat] /\ \A m \in Nodes : head'[m] <= tail[m]
    BY <1>1, <1>2, <2>1, <2>2 DEF TypeOK
  <2>4. inflight' \in SUBSET Nodes /\ failing' \in [Nodes -> {"no", "recent", "expired"}]
        /\ UNCHANGED <<tail, copies, given, connected, job, todo, expired, live, disk>>
    BY <1>8 DEF Truncate, TypeOK
  <2>. QED
    BY <1>3, <2>3, <2>4 DEF TypeOK
<1>. QED
  BY <1>4, <1>5, <1>6, <1>7, <1>8 DEF Flush

(* Every step of the archive task's sweep keeps the types.                  *)
LEMMA ArchiverType ==
  ASSUME TypeOK, ArchiverStep
  PROVE  TypeOK'
<1>. USE DEF bufferVars, sweepVars
<1>1. pc' \in [Threads -> Labels]
  BY DEF ArchiverStep, Sweep, SweepNode, FindExpired, ReadLive, Abandon, Goto, TypeOK, Labels
<1>2. CASE Sweep
  BY <1>1, <1>2 DEF Sweep, TypeOK
<1>3. ASSUME NEW n \in Nodes, SweepNode(n)
      PROVE  TypeOK'
  <2>1. Archiver \in Threads
    BY DEF Threads
  <2>2. job' = [job EXCEPT ![Archiver] = [node |-> n, from |-> 0, to |-> 0]]
    BY <1>3 DEF SweepNode
  <2>3. /\ job' \in [Threads -> Jobs]
        /\ \A t \in Threads : job'[t].from <= job'[t].to
    <3>1. 0 \in Nat /\ 0 <= 0
      OBVIOUS
    <3>. QED
      BY <2>1, <2>2, <3>1, JobUpdate
  <2>4. UNCHANGED <<head, tail, copies, given, inflight, failing, connected, expired, live, disk>>
        /\ todo' \in SUBSET Nodes
    BY <1>3 DEF SweepNode, TypeOK
  <2>. QED
    BY <1>1, <2>3, <2>4 DEF TypeOK
<1>4. CASE FindExpired
  BY <1>1, <1>4 DEF FindExpired, TypeOK
<1>5. CASE ReadLive
  BY <1>1, <1>5 DEF ReadLive, TypeOK
<1>6. CASE Abandon
  <2>1. \A n \in Nodes : Buffered(n) \in SUBSET Frames
    <3>. SUFFICES ASSUME NEW n \in Nodes, NEW k \in (head[n] + 1)..tail[n]
                  PROVE  k \in 1..MaxFrames
      BY DEF Buffered, Frames
    <3>1. MaxFrames \in Nat
      BY ArchiveAssumption
    <3>. QED
      BY <3>1, BufferBounds
  <2>2. given' \in [Nodes -> SUBSET Frames]
    <3>1. given' = [n \in Nodes |-> IF n \in Abandoned THEN given[n] \cup Buffered(n)
                                                     ELSE given[n]]
      BY <1>6 DEF Abandon
    <3>. QED
      BY <2>1, <3>1 DEF TypeOK
  <2>3. head' \in [Nodes -> Nat] /\ \A n \in Nodes : head'[n] <= tail[n]
    <3>1. head' = [n \in Nodes |-> IF n \in Abandoned THEN tail[n] ELSE head[n]]
      BY <1>6 DEF Abandon
    <3>. QED
      BY <3>1, BufferBounds
  <2>4. failing' \in [Nodes -> {"no", "recent", "expired"}] /\ expired' = {} /\ live' = {}
        /\ UNCHANGED <<tail, copies, inflight, connected, job, todo, disk>>
    BY <1>6 DEF Abandon, TypeOK
  <2>. QED
    BY <1>1, <2>2, <2>3, <2>4 DEF TypeOK
<1>. QED
  BY <1>2, <1>3, <1>4, <1>5, <1>6 DEF ArchiverStep

(* Every step keeps the types.                                              *)
LEMMA TypeStep ==
  ASSUME TypeOK, [Next]_vars
  PROVE  TypeOK'
<1>1. CASE DiskChanges
  BY <1>1 DEF DiskChanges, TypeOK, bufferVars, sweepVars
<1>2. CASE UNCHANGED vars
  BY <1>2 DEF vars, TypeOK
<1>. QED
  BY <1>1, <1>2, OutsideType, FlushType, ArchiverType DEF Next

-----------------------------------------------------------------------------
(* The inductive step, one lemma per kind of action *)

(* A step of a thread that is outside the cycle before and after, and may   *)
(* only lengthen buffers, keeps the invariant.                              *)
LEMMA OutsideCycle ==
  ASSUME IInv, TypeOK', NEW t \in Threads, pc[t] \notin Cycle, pc'[t] \notin Cycle,
         \A u \in Threads : u # t => pc'[u] = pc[u] /\ job'[u] = job[u],
         UNCHANGED <<head, copies, given, inflight>>,
         \A n \in Nodes : tail'[n] >= tail[n]
  PROVE  IInv'
<1>1. \A u \in Threads : pc'[u] \in Cycle <=> (u # t /\ pc[u] \in Cycle)
  OBVIOUS
<1>2. ClaimsAreHeld'
  BY <1>1 DEF IInv, ClaimsAreHeld
<1>3. \A u \in Threads : pc'[u] \in {"write", "written", "failed"} => u # t
  BY DEF Cycle
<1>4. SnapshotIsFront'
  <2>. SUFFICES ASSUME NEW u \in Threads, pc'[u] \in {"write", "written", "failed"}
                PROVE  /\ job'[u].from = head'[job'[u].node]
                       /\ job'[u].from < job'[u].to
                       /\ job'[u].to <= tail'[job'[u].node]
    BY DEF SnapshotIsFront
  <2>1. pc[u] = pc'[u] /\ job'[u] = job[u]
    BY <1>3
  <2>2. /\ job[u].from = head[job[u].node] /\ job[u].from < job[u].to
        /\ job[u].to <= tail[job[u].node]
    BY <2>1 DEF IInv, SnapshotIsFront
  <2>3. job[u].node \in Nodes /\ job[u].to \in Nat
    BY DEF IInv, TypeOK, Jobs
  <2>4. tail[job[u].node] \in Nat /\ tail'[job[u].node] \in Nat
    BY <2>3, BufferBounds, ArchiveAssumption DEF IInv, TypeOK
  <2>. QED
    BY <2>1, <2>2, <2>3, <2>4
<1>5. \A n \in Nodes, k \in Frames : Overlap(n, k)' <=> Overlap(n, k)
  BY <1>3 DEF Overlap, Cycle
<1>6. Accounted'
  BY <1>5 DEF IInv, Accounted
<1>. QED
  BY <1>2, <1>4, <1>6 DEF IInv

(* Nothing in the buffers, the claims or the threads moves.                 *)
LEMMA Surroundings ==
  ASSUME IInv, TypeOK', UNCHANGED <<head, tail, copies, given, inflight, pc, job>>
  PROVE  IInv'
<1>1. ClaimsAreHeld' /\ SnapshotIsFront'
  BY DEF IInv, ClaimsAreHeld, SnapshotIsFront
<1>2. Accounted'
  BY DEF IInv, Accounted, Overlap
<1>. QED
  BY <1>1, <1>2 DEF IInv

(* Claiming a node with a snapshot of its buffer.                           *)
LEMMA BeginKeeps ==
  ASSUME IInv, TypeOK', NEW t \in Threads, Begin(t)
  PROVE  IInv'
<1>. DEFINE n == job[t].node
<1>1. pc[t] = "begin" /\ n \in Nodes /\ UNCHANGED <<head, tail, copies, given>>
  BY DEF Begin, bufferVars, IInv, TypeOK, Jobs
<1>2. CASE n \in inflight
  <2>1. UNCHANGED <<inflight, job>> /\ \A u \in Threads : u # t => pc'[u] = pc[u]
    BY <1>2 DEF Begin, Return, Goto, IInv, TypeOK
  <2>2. pc'[t] \in {"sweep", "idle"}
    BY <1>2 DEF Begin, Return, Goto, IInv, TypeOK
  <2>3. pc[t] \notin Cycle /\ pc'[t] \notin Cycle
    BY <1>1, <2>2 DEF Cycle
  <2>4. \A m \in Nodes : tail'[m] >= tail[m]
    BY <1>1, BufferBounds DEF IInv
  <2>. QED
    BY <1>1, <2>1, <2>3, <2>4, OutsideCycle
<1>3. CASE n \notin inflight
  <2>1. /\ inflight' = inflight \cup {n}
        /\ \A u \in Threads : u # t => pc'[u] = pc[u] /\ job'[u] = job[u]
        /\ job'[t] = [node |-> n, from |-> head[n], to |-> tail[n]]
        /\ pc'[t] = IF head[n] = tail[n] THEN "empty" ELSE "write"
    BY <1>3 DEF Begin, Goto, IInv, TypeOK
  <2>2. job'[t].node = n /\ job'[t].from = head[n] /\ job'[t].to = tail[n]
    BY <2>1
  <2>3. pc'[t] \in Cycle /\ \A u \in Threads : u # t => (pc'[u] \in Cycle <=> pc[u] \in Cycle)
    BY <2>1 DEF Cycle
  <2>4. \A u \in Threads : pc[u] \in Cycle => job[u].node # n
    BY <1>3 DEF IInv, ClaimsAreHeld
  <2>5. ClaimsAreHeld'
    <3>1. \A m \in inflight' : \E u \in Threads : pc'[u] \in Cycle /\ job'[u].node = m
      <4>. TAKE m \in inflight'
      <4>1. CASE m = n
        BY <4>1, <2>2, <2>3
      <4>2. CASE m # n
        <5>1. PICK u \in Threads : pc[u] \in Cycle /\ job[u].node = m
          BY <4>2, <2>1 DEF IInv, ClaimsAreHeld
        <5>2. u # t
          BY <5>1, <1>1 DEF Cycle
        <5>. QED
          BY <5>1, <5>2, <2>1, <2>3
      <4>. QED
        BY <4>1, <4>2
    <3>2. \A u \in Threads : pc'[u] \in Cycle => job'[u].node \in inflight'
      BY <2>1, <2>2, <2>3 DEF IInv, ClaimsAreHeld
    <3>3. \A u, v \in Threads :
            (pc'[u] \in Cycle /\ pc'[v] \in Cycle /\ job'[u].node = job'[v].node) => u = v
      BY <2>1, <2>2, <2>3, <2>4 DEF IInv, ClaimsAreHeld
    <3>. QED
      BY <3>1, <3>2, <3>3 DEF ClaimsAreHeld
  <2>6. SnapshotIsFront'
    <3>1. pc'[t] = "write" => head[n] < tail[n]
      BY <1>1, <2>1, BufferBounds DEF IInv
    <3>2. pc'[t] \in {"write", "empty"}
      BY <2>1
    <3>3. tail[n] <= tail[n]
      BY <1>1, BufferBounds DEF IInv
    <3>. QED
      BY <1>1, <2>1, <2>2, <3>1, <3>2, <3>3 DEF IInv, SnapshotIsFront
  <2>7. \A m \in Nodes, k \in Frames : Overlap(m, k)' <=> Overlap(m, k)
    BY <1>1, <2>1 DEF Overlap
  <2>8. Accounted'
    BY <1>1, <2>7 DEF IInv, Accounted
  <2>. QED
    BY <2>5, <2>6, <2>8 DEF IInv
<1>. QED
  BY <1>2, <1>3

(* Leaving the cycle gives the claim back, and only that claim.             *)
LEMMA ReleaseClaim ==
  ASSUME IInv, NEW t \in Threads, pc[t] \in Cycle,
         inflight' = inflight \ {job[t].node}, UNCHANGED job,
         Return(t)
  PROVE  /\ ClaimsAreHeld'
         /\ pc'[t] \notin Cycle /\ \A u \in Threads : u # t => pc'[u] = pc[u]
<1>1. pc'[t] \in {"sweep", "idle"} /\ \A u \in Threads : u # t => pc'[u] = pc[u]
  BY DEF Return, Goto, IInv, TypeOK
<1>2. pc'[t] \notin Cycle
  BY <1>1 DEF Cycle
<1>3. \A u \in Threads : pc'[u] \in Cycle <=> (u # t /\ pc[u] \in Cycle)
  BY <1>1, <1>2
<1>4. ClaimsAreHeld'
  BY <1>3 DEF IInv, ClaimsAreHeld
<1>. QED
  BY <1>1, <1>2, <1>4

(* Nothing to write: the claim goes back.                                   *)
LEMMA EmptyKeeps ==
  ASSUME IInv, TypeOK', NEW t \in Threads, NothingToWrite(t)
  PROVE  IInv'
<1>1. /\ pc[t] = "empty" /\ Return(t) /\ inflight' = inflight \ {job[t].node}
      /\ UNCHANGED <<head, tail, copies, given, job>>
  BY DEF NothingToWrite, bufferVars
<1>2. /\ ClaimsAreHeld' /\ pc'[t] \notin Cycle
      /\ \A u \in Threads : u # t => pc'[u] = pc[u]
  BY <1>1, ReleaseClaim DEF Cycle
<1>3. SnapshotIsFront'
  BY <1>1, <1>2 DEF IInv, SnapshotIsFront, Cycle
<1>4. \A m \in Nodes, k \in Frames : Overlap(m, k)' <=> Overlap(m, k)
  BY <1>1, <1>2 DEF Overlap, Cycle
<1>5. Accounted'
  BY <1>1, <1>4 DEF IInv, Accounted
<1>. QED
  BY <1>2, <1>3, <1>5 DEF IInv

(* The write: what it puts on disk was on disk before for no frame, and the *)
(* thread now overlaps exactly with what it wrote.                          *)
LEMMA WriteKeeps ==
  ASSUME IInv, TypeOK', NEW t \in Threads, Write(t)
  PROVE  IInv'
<1>. DEFINE n == job[t].node
<1>1. /\ pc[t] = "write" /\ pc'[t] \in {"written", "failed"}
      /\ \A u \in Threads : u # t => pc'[u] = pc[u]
      /\ UNCHANGED <<head, tail, given, inflight, job>>
      /\ n \in Nodes
  BY DEF Write, Goto, IInv, TypeOK, Jobs
<1>2. \A u \in Threads : pc'[u] \in Cycle <=> pc[u] \in Cycle
  BY <1>1 DEF Cycle
<1>3. ClaimsAreHeld'
  BY <1>1, <1>2 DEF IInv, ClaimsAreHeld
<1>4. SnapshotIsFront'
  BY <1>1 DEF IInv, SnapshotIsFront
<1>5. job[t].from = head[n] /\ job[t].to \in Nat /\ head[n] \in Nat
  BY <1>1 DEF IInv, SnapshotIsFront, TypeOK, Jobs
<1>6. \A u \in Threads : pc[u] \in Cycle /\ job[u].node = n => u = t
  BY <1>1 DEF IInv, ClaimsAreHeld, Cycle
<1>7. ASSUME NEW m \in Nodes, NEW k \in Frames
      PROVE  /\ k <= head'[m] => \/ copies'[m][k] = 1 /\ k \notin given'[m]
                                 \/ copies'[m][k] = 0 /\ k \in given'[m]
             /\ k > head'[m] => /\ k \notin given'[m]
                                /\ Overlap(m, k)' => copies'[m][k] = 1
                                /\ ~Overlap(m, k)' => copies'[m][k] = 0
  <2>1. /\ k <= head[m] => \/ copies[m][k] = 1 /\ k \notin given[m]
                           \/ copies[m][k] = 0 /\ k \in given[m]
        /\ k > head[m] => /\ k \notin given[m]
                          /\ Overlap(m, k) => copies[m][k] = 1
                          /\ ~Overlap(m, k) => copies[m][k] = 0
    BY DEF IInv, Accounted
  <2>2. CASE m # n
    <3>1. copies'[m] = copies[m]
      BY <2>2, <1>1 DEF Write, IInv, TypeOK
    <3>2. Overlap(m, k)' <=> Overlap(m, k)
      BY <2>2, <1>1 DEF Overlap
    <3>. QED
      BY <2>1, <3>1, <3>2, <1>1
  <2>3. CASE m = n /\ disk
    <3>1. copies'[n][k] = IF k \in (job[t].from + 1)..job[t].to THEN copies[n][k] + 1
                                                              ELSE copies[n][k]
      BY <2>3, <1>1 DEF Write, IInv, TypeOK
    <3>2. pc'[t] = "written"
      BY <2>3, <1>1 DEF Write, Goto, IInv, TypeOK
    <3>3. ~Overlap(n, k)
      BY <1>1, <1>6 DEF Overlap, Cycle
    <3>4. Overlap(n, k)' <=> k <= job[t].to
      BY <1>1, <1>2, <1>6, <3>2 DEF Overlap, Cycle
    <3>5. k \in Nat
      BY DEF Frames
    <3>. QED
      BY <2>1, <2>3, <3>1, <3>3, <3>4, <3>5, <1>1, <1>5
  <2>4. CASE m = n /\ ~disk
    <3>1. copies' = copies /\ pc'[t] = "failed"
      BY <2>4, <1>1 DEF Write, Goto, IInv, TypeOK
    <3>2. ~Overlap(n, k) /\ ~Overlap(n, k)'
      BY <1>1, <1>2, <1>6, <3>1 DEF Overlap, Cycle
    <3>. QED
      BY <2>1, <2>4, <3>1, <3>2, <1>1
  <2>. QED
    BY <2>2, <2>3, <2>4
<1>8. Accounted'
  BY <1>7 DEF Accounted
<1>. QED
  BY <1>3, <1>4, <1>8 DEF IInv

(* A failed write: only the cap moves the front, over frames not on disk.   *)
LEMMA RetainKeeps ==
  ASSUME IInv, TypeOK', NEW t \in Threads, Retain(t)
  PROVE  IInv'
<1>. DEFINE n      == job[t].node
            excess == IF tail[n] - head[n] > HardCap THEN tail[n] - head[n] - HardCap ELSE 0
<1>1. /\ pc[t] = "failed" /\ Return(t) /\ inflight' = inflight \ {n}
      /\ UNCHANGED <<tail, job, copies>> /\ n \in Nodes
  BY DEF Retain, IInv, TypeOK, Jobs
<1>2. /\ ClaimsAreHeld' /\ pc'[t] \notin Cycle
      /\ \A u \in Threads : u # t => pc'[u] = pc[u]
  BY <1>1, ReleaseClaim DEF Cycle
<1>3. \A u \in Threads : pc[u] \in Cycle /\ job[u].node = n => u = t
  BY <1>1 DEF IInv, ClaimsAreHeld, Cycle
<1>4. /\ head'[n] = head[n] + excess /\ given'[n] = given[n] \cup DropFirst(n, excess)
      /\ \A m \in Nodes : m # n => head'[m] = head[m] /\ given'[m] = given[m]
  BY <1>1 DEF Retain, IInv, TypeOK
<1>5. head[n] \in Nat /\ tail[n] \in Nat /\ HardCap \in Nat /\ excess \in Nat
  BY <1>1, BufferBounds, ArchiveAssumption DEF HardCap, IInv
<1>. HIDE DEF excess
<1>6. SnapshotIsFront'
  <2>. SUFFICES ASSUME NEW u \in Threads, pc'[u] \in {"write", "written", "failed"}
                PROVE  /\ job[u].from = head'[job[u].node] /\ job[u].from < job[u].to
                       /\ job[u].to <= tail[job[u].node]
    BY <1>1 DEF SnapshotIsFront
  <2>1. u # t /\ pc[u] = pc'[u]
    BY <1>2 DEF Cycle
  <2>2. job[u].node # n /\ job[u].node \in Nodes
    BY <2>1, <1>3 DEF Cycle, IInv, TypeOK, Jobs
  <2>. QED
    BY <2>1, <2>2, <1>4 DEF IInv, SnapshotIsFront
<1>7. \A m \in Nodes, k \in Frames : Overlap(m, k)' <=> Overlap(m, k)
  BY <1>1, <1>2 DEF Overlap, Cycle
<1>8. \A k \in Frames : ~Overlap(n, k)
  BY <1>1, <1>3 DEF Overlap, Cycle
<1>9. ASSUME NEW m \in Nodes, NEW k \in Frames
      PROVE  /\ k <= head'[m] => \/ copies[m][k] = 1 /\ k \notin given'[m]
                                 \/ copies[m][k] = 0 /\ k \in given'[m]
             /\ k > head'[m] => /\ k \notin given'[m]
                                /\ Overlap(m, k) => copies[m][k] = 1
                                /\ ~Overlap(m, k) => copies[m][k] = 0
  <2>1. /\ k <= head[m] => \/ copies[m][k] = 1 /\ k \notin given[m]
                           \/ copies[m][k] = 0 /\ k \in given[m]
        /\ k > head[m] => /\ k \notin given[m]
                          /\ Overlap(m, k) => copies[m][k] = 1
                          /\ ~Overlap(m, k) => copies[m][k] = 0
    BY DEF IInv, Accounted
  <2>2. CASE m # n
    BY <2>1, <2>2, <1>4
  <2>3. CASE m = n
    <3>1. k \in Nat
      BY DEF Frames
    <3>2. k \in DropFirst(n, excess) <=> (k > head[n] /\ k <= head[n] + excess)
      BY <3>1, <1>5 DEF DropFirst
    <3>. QED
      BY <2>1, <2>3, <3>1, <3>2, <1>4, <1>5, <1>8
  <2>. QED
    BY <2>2, <2>3
<1>10. Accounted'
  BY <1>1, <1>7, <1>9 DEF Accounted
<1>. QED
  BY <1>2, <1>6, <1>10 DEF IInv

(* Truncation: the front moves over exactly what was written.               *)
LEMMA TruncateKeeps ==
  ASSUME IInv, TypeOK', NEW t \in Threads, Truncate(t)
  PROVE  IInv' /\ head'[job[t].node] = job[t].to
<1>. DEFINE n == job[t].node
<1>1. /\ pc[t] = "written" /\ Return(t) /\ inflight' = inflight \ {n}
      /\ UNCHANGED <<tail, job, copies, given>> /\ n \in Nodes
  BY DEF Truncate, IInv, TypeOK, Jobs
<1>2. /\ ClaimsAreHeld' /\ pc'[t] \notin Cycle
      /\ \A u \in Threads : u # t => pc'[u] = pc[u]
  BY <1>1, ReleaseClaim DEF Cycle
<1>3. \A u \in Threads : pc[u] \in Cycle /\ job[u].node = n => u = t
  BY <1>1 DEF IInv, ClaimsAreHeld, Cycle
<1>4. /\ job[t].from = head[n] /\ job[t].from < job[t].to /\ job[t].to <= tail[n]
      /\ job[t].to \in Nat /\ head[n] \in Nat /\ tail[n] \in Nat
  BY <1>1, BufferBounds DEF IInv, SnapshotIsFront, TypeOK, Jobs
<1>5. /\ head'[n] = job[t].to
      /\ \A m \in Nodes : m # n => head'[m] = head[m]
  <2>1. head[n] + (job[t].to - job[t].from) = job[t].to
    BY <1>4
  <2>2. head' = [head EXCEPT ![n] = IF @ + (job[t].to - job[t].from) <= tail[n]
                                    THEN @ + (job[t].to - job[t].from) ELSE tail[n]]
    BY DEF Truncate
  <2>3. head \in [Nodes -> Nat]
    BY DEF IInv, TypeOK
  <2>. QED
    BY <2>1, <2>2, <2>3, <1>1, <1>4
<1>6. SnapshotIsFront'
  <2>. SUFFICES ASSUME NEW u \in Threads, pc'[u] \in {"write", "written", "failed"}
                PROVE  /\ job[u].from = head'[job[u].node] /\ job[u].from < job[u].to
                       /\ job[u].to <= tail[job[u].node]
    BY <1>1 DEF SnapshotIsFront
  <2>1. u # t /\ pc[u] = pc'[u]
    BY <1>2 DEF Cycle
  <2>2. job[u].node # n /\ job[u].node \in Nodes
    BY <2>1, <1>3 DEF Cycle, IInv, TypeOK, Jobs
  <2>. QED
    BY <2>1, <2>2, <1>5 DEF IInv, SnapshotIsFront
<1>7. ASSUME NEW m \in Nodes, NEW k \in Frames
      PROVE  /\ k <= head'[m] => \/ copies[m][k] = 1 /\ k \notin given[m]
                                 \/ copies[m][k] = 0 /\ k \in given[m]
             /\ k > head'[m] => /\ k \notin given[m]
                                /\ Overlap(m, k)' => copies[m][k] = 1
                                /\ ~Overlap(m, k)' => copies[m][k] = 0
  <2>1. /\ k <= head[m] => \/ copies[m][k] = 1 /\ k \notin given[m]
                           \/ copies[m][k] = 0 /\ k \in given[m]
        /\ k > head[m] => /\ k \notin given[m]
                          /\ Overlap(m, k) => copies[m][k] = 1
                          /\ ~Overlap(m, k) => copies[m][k] = 0
    BY DEF IInv, Accounted
  <2>2. CASE m # n
    <3>1. Overlap(m, k)' <=> Overlap(m, k)
      BY <2>2, <1>1, <1>2 DEF Overlap, Cycle
    <3>. QED
      BY <2>1, <2>2, <3>1, <1>5
  <2>3. CASE m = n
    <3>1. k \in Nat
      BY DEF Frames
    <3>2. Overlap(n, k) <=> k <= job[t].to
      BY <1>1, <1>3 DEF Overlap, Cycle
    <3>3. ~Overlap(m, k)'
      BY <2>3, <1>1, <1>2, <1>3 DEF Overlap, Cycle
    <3>4. CASE k <= head[n]
      <4>1. k <= head'[n]
        BY <3>1, <3>4, <1>4, <1>5
      <4>2. ~(k > head'[n])
        BY <3>1, <4>1, <1>4, <1>5
      <4>. QED
        BY <2>1, <2>3, <3>4, <4>1, <4>2
    <3>5. CASE k > head[n] /\ k <= job[t].to
      <4>1. k <= head'[n] /\ ~(k > head'[n])
        BY <3>1, <3>5, <1>4, <1>5
      <4>2. copies[n][k] = 1 /\ k \notin given[n]
        BY <2>1, <2>3, <3>2, <3>5
      <4>. QED
        BY <2>3, <4>1, <4>2
    <3>6. CASE k > job[t].to
      <4>1. k > head[n] /\ ~(k <= job[t].to)
        BY <3>1, <3>6, <1>4
      <4>2. ~(k <= head'[n])
        BY <3>1, <3>6, <1>4, <1>5
      <4>3. copies[n][k] = 0 /\ k \notin given[n]
        BY <2>1, <2>3, <3>2, <4>1
      <4>. QED
        BY <2>3, <3>3, <4>2, <4>3
    <3>7. k <= head[n] \/ (k > head[n] /\ k <= job[t].to) \/ k > job[t].to
      BY <3>1, <1>4
    <3>. QED
      BY <3>4, <3>5, <3>6, <3>7
  <2>. QED
    BY <2>2, <2>3
<1>8. Accounted'
  BY <1>1, <1>7 DEF Accounted
<1>. QED
  BY <1>2, <1>5, <1>6, <1>8 DEF IInv

(* Abandoning drops whole buffers no thread is writing.                     *)
LEMMA AbandonKeeps ==
  ASSUME IInv, TypeOK', Abandon
  PROVE  IInv'
<1>1. /\ pc[Archiver] = "abandon" /\ pc'[Archiver] = "idle"
      /\ \A u \in Threads : u # Archiver => pc'[u] = pc[u]
      /\ UNCHANGED <<tail, copies, inflight, job>>
  BY DEF Abandon, Goto, IInv, TypeOK, Threads
<1>2. \A u \in Threads : pc[u] \in Cycle => u # Archiver
  BY <1>1 DEF Cycle
<1>3. \A u \in Threads : pc'[u] \in Cycle <=> pc[u] \in Cycle
  BY <1>1, <1>2 DEF Cycle
<1>4. ClaimsAreHeld'
  BY <1>1, <1>3 DEF IInv, ClaimsAreHeld
<1>5. \A n \in Nodes : /\ head'[n] = IF n \in Abandoned THEN tail[n] ELSE head[n]
                       /\ given'[n] = IF n \in Abandoned THEN given[n] \cup Buffered(n)
                                                         ELSE given[n]
  BY DEF Abandon
<1>6. \A u \in Threads : pc[u] \in Cycle => job[u].node \notin Abandoned
  BY DEF IInv, ClaimsAreHeld, Abandoned
<1>7. SnapshotIsFront'
  <2>. SUFFICES ASSUME NEW u \in Threads, pc'[u] \in {"write", "written", "failed"}
                PROVE  /\ job[u].from = head'[job[u].node] /\ job[u].from < job[u].to
                       /\ job[u].to <= tail[job[u].node]
    BY <1>1 DEF SnapshotIsFront
  <2>1. pc[u] = pc'[u] /\ pc[u] \in Cycle
    BY <1>1, <1>3 DEF Cycle
  <2>2. job[u].node \in Nodes /\ job[u].node \notin Abandoned
    BY <2>1, <1>6 DEF IInv, TypeOK, Jobs
  <2>. QED
    BY <2>1, <2>2, <1>5 DEF IInv, SnapshotIsFront
<1>8. \A m \in Nodes, k \in Frames : Overlap(m, k)' <=> Overlap(m, k)
  BY <1>1, <1>2 DEF Overlap, Cycle
<1>9. \A m \in Abandoned, k \in Frames : ~Overlap(m, k)
  BY <1>6 DEF Overlap, Cycle
<1>10. ASSUME NEW m \in Nodes, NEW k \in Frames
       PROVE  /\ k <= head'[m] => \/ copies[m][k] = 1 /\ k \notin given'[m]
                                  \/ copies[m][k] = 0 /\ k \in given'[m]
              /\ k > head'[m] => /\ k \notin given'[m]
                                 /\ Overlap(m, k) => copies[m][k] = 1
                                 /\ ~Overlap(m, k) => copies[m][k] = 0
  <2>1. /\ k <= head[m] => \/ copies[m][k] = 1 /\ k \notin given[m]
                           \/ copies[m][k] = 0 /\ k \in given[m]
        /\ k > head[m] => /\ k \notin given[m]
                          /\ Overlap(m, k) => copies[m][k] = 1
                          /\ ~Overlap(m, k) => copies[m][k] = 0
    BY DEF IInv, Accounted
  <2>2. CASE m \notin Abandoned
    BY <2>1, <2>2, <1>5
  <2>3. CASE m \in Abandoned
    <3>1. k \in Nat /\ head[m] \in Nat /\ tail[m] \in Nat /\ head[m] <= tail[m]
      BY BufferBounds DEF Frames, IInv
    <3>2. k \in Buffered(m) <=> (k > head[m] /\ k <= tail[m])
      BY <3>1 DEF Buffered
    <3>3. head'[m] = tail[m] /\ given'[m] = given[m] \cup Buffered(m) /\ ~Overlap(m, k)
      BY <2>3, <1>5, <1>9
    <3>4. CASE k <= head[m]
      <4>1. k <= head'[m] /\ ~(k > head'[m]) /\ k \notin Buffered(m)
        BY <3>1, <3>2, <3>3, <3>4
      <4>. QED
        BY <2>1, <3>3, <3>4, <4>1
    <3>5. CASE k > head[m] /\ k <= tail[m]
      <4>1. k <= head'[m] /\ ~(k > head'[m]) /\ k \in Buffered(m)
        BY <3>1, <3>2, <3>3, <3>5
      <4>. QED
        BY <2>1, <3>3, <3>5, <4>1
    <3>6. CASE k > tail[m]
      <4>1. ~(k <= head'[m]) /\ k > head[m] /\ k \notin Buffered(m)
        BY <3>1, <3>2, <3>3, <3>6
      <4>. QED
        BY <2>1, <3>3, <4>1
    <3>. QED
      BY <3>1, <3>4, <3>5, <3>6
  <2>. QED
    BY <2>2, <2>3
<1>11. Accounted'
  BY <1>1, <1>8, <1>10 DEF Accounted
<1>. QED
  BY <1>4, <1>7, <1>11 DEF IInv

(* Appending lengthens one buffer; its worker is outside the cycle.         *)
LEMMA AppendKeeps ==
  ASSUME IInv, TypeOK', NEW n \in Nodes, AppendFrame(n)
  PROVE  IInv'
<1>1. WorkerOf[n] \in Threads
  BY ArchiveAssumption DEF Threads
<1>2. /\ pc[WorkerOf[n]] = "idle" /\ pc'[WorkerOf[n]] \in {"idle", "begin"}
      /\ \A u \in Threads : u # WorkerOf[n] => pc'[u] = pc[u] /\ job'[u] = job[u]
  BY <1>1 DEF AppendFrame, Goto, IInv, TypeOK
<1>3. UNCHANGED <<head, copies, given, inflight>>
  BY DEF AppendFrame
<1>4. tail' = [tail EXCEPT ![n] = @ + 1] /\ tail \in [Nodes -> 0..MaxFrames]
  BY DEF AppendFrame, IInv, TypeOK
<1>5. \A m \in Nodes : tail'[m] >= tail[m]
  <2>. TAKE m \in Nodes
  <2>1. tail[m] \in Nat
    BY BufferBounds DEF IInv
  <2>2. tail'[m] = IF m = n THEN tail[m] + 1 ELSE tail[m]
    BY <1>4
  <2>. QED
    BY <2>1, <2>2
<1>. QED
  BY <1>1, <1>2, <1>3, <1>5, OutsideCycle DEF Cycle

(* The archive task's own steps.                                            *)
LEMMA ArchiverKeeps ==
  ASSUME IInv, TypeOK', ArchiverStep
  PROVE  IInv'
<1>. USE DEF bufferVars
<1>1. Archiver \in Threads
  BY DEF Threads
<1>2. \A m \in Nodes : tail[m] >= tail[m]
  BY BufferBounds DEF IInv
<1>3. CASE Abandon
  BY <1>3, AbandonKeeps
<1>4. CASE ~Abandon
  <2>1. /\ UNCHANGED <<head, tail, copies, given, inflight>>
        /\ \A u \in Threads : u # Archiver => pc'[u] = pc[u] /\ job'[u] = job[u]
        /\ pc[Archiver] \in {"idle", "sweep", "live"}
        /\ pc'[Archiver] \in {"idle", "sweep", "begin", "live", "abandon"}
    BY <1>4, <1>1 DEF ArchiverStep, Sweep, SweepNode, FindExpired, ReadLive, Goto, IInv, TypeOK
  <2>. QED
    BY <1>1, <1>2, <2>1, OutsideCycle DEF Cycle
<1>. QED
  BY <1>3, <1>4

-----------------------------------------------------------------------------
(* The invariant of the specification *)

(* Nothing is appended, claimed or written at startup.                      *)
LEMMA InvInit == Init => IInv
<1>. SUFFICES ASSUME Init
              PROVE  IInv
  OBVIOUS
<1>1. /\ head = [n \in Nodes |-> 0] /\ tail = [n \in Nodes |-> 0] /\ inflight = {}
      /\ pc = [t \in Threads |-> "idle"]
      /\ copies = [n \in Nodes |-> [k \in Frames |-> 0]]
      /\ given = [n \in Nodes |-> {}]
  BY DEF Init
<1>2. PICK first \in Nodes : job = [t \in Threads |-> [node |-> first, from |-> 0, to |-> 0]]
  BY DEF Init
<1>3. \A t \in Threads : job[t] \in Jobs /\ job[t].from <= job[t].to
  BY <1>2 DEF Jobs
<1>4. job \in [Threads -> Jobs]
  BY <1>2 DEF Jobs
<1>5. MaxFrames \in Nat
  BY ArchiveAssumption
<1>6. TypeOK
  <2>1. /\ head \in [Nodes -> Nat] /\ tail \in [Nodes -> 0..MaxFrames]
        /\ \A m \in Nodes : head[m] <= tail[m]
    BY <1>1, <1>5
  <2>2. pc \in [Threads -> Labels] /\ copies \in [Nodes -> [Frames -> Nat]]
        /\ given \in [Nodes -> SUBSET Frames] /\ inflight \in SUBSET Nodes
    BY <1>1 DEF Labels
  <2>3. /\ failing \in [Nodes -> {"no", "recent", "expired"}] /\ connected \in SUBSET Nodes
        /\ todo \in SUBSET Nodes /\ expired \in SUBSET Nodes /\ live \in SUBSET Nodes
        /\ disk \in BOOLEAN
    BY DEF Init
  <2>. QED
    BY <1>3, <1>4, <2>1, <2>2, <2>3 DEF TypeOK
<1>7. ClaimsAreHeld /\ SnapshotIsFront
  BY <1>1 DEF ClaimsAreHeld, SnapshotIsFront, Cycle
<1>8. Accounted
  <2>1. \A n \in Nodes, k \in Frames : ~Overlap(n, k)
    BY <1>1 DEF Overlap
  <2>2. \A n \in Nodes, k \in Frames :
          copies[n][k] = 0 /\ k \notin given[n] /\ head[n] = 0 /\ ~(k <= 0)
    BY <1>1 DEF Frames
  <2>. QED
    BY <2>1, <2>2 DEF Accounted
<1>. QED
  BY <1>6, <1>7, <1>8 DEF IInv

(* Every step keeps the invariant.                                          *)
LEMMA InvStep ==
  ASSUME IInv, [Next]_vars
  PROVE  IInv'
<1>1. TypeOK'
  BY TypeStep DEF IInv
<1>2. ASSUME NEW n \in Nodes, Expire(n) \/ ConnectOrDepart(n)
      PROVE  IInv'
  BY <1>1, <1>2, Surroundings DEF Expire, ConnectOrDepart, bufferVars
<1>3. CASE DiskChanges
  BY <1>1, <1>3, Surroundings DEF DiskChanges, bufferVars
<1>4. CASE UNCHANGED vars
  BY <1>1, <1>4, Surroundings DEF vars
<1>5. ASSUME NEW t \in Threads, Flush(t)
      PROVE  IInv'
  BY <1>1, <1>5, BeginKeeps, EmptyKeeps, WriteKeeps, RetainKeeps, TruncateKeeps DEF Flush
<1>. QED
  BY <1>1, <1>2, <1>3, <1>4, <1>5, AppendKeeps, ArchiverKeeps DEF Next

(* The inductive invariant holds in every reachable state.                  *)
THEOREM InvHolds == Spec => []IInv
<1>1. Init => IInv
  BY InvInit
<1>2. IInv /\ [Next]_vars => IInv'
  BY InvStep
<1>. QED
  BY <1>1, <1>2, PTL DEF Spec

-----------------------------------------------------------------------------
(* The safety properties *)

(* What a frame's copies can be, by where it stands.                        *)
LEMMA CopiesBound ==
  ASSUME IInv, NEW n \in Nodes, NEW k \in Frames
  PROVE  /\ copies[n][k] \in {0, 1}
         /\ copies[n][k] = 1 => k \notin given[n]
         /\ k <= head[n] => (copies[n][k] = 1 <=> k \notin given[n])
         /\ k > tail[n] => copies[n][k] = 0 /\ k \notin given[n]
<1>1. k \in Nat /\ head[n] \in Nat /\ tail[n] \in Nat /\ head[n] <= tail[n]
  BY BufferBounds DEF IInv, Frames
<1>2. k <= head[n] \/ k > head[n]
  BY <1>1
<1>3. /\ k <= head[n] => \/ copies[n][k] = 1 /\ k \notin given[n]
                         \/ copies[n][k] = 0 /\ k \in given[n]
      /\ k > head[n] => /\ k \notin given[n]
                        /\ Overlap(n, k) => copies[n][k] = 1
                        /\ ~Overlap(n, k) => copies[n][k] = 0
  BY DEF IInv, Accounted
<1>4. ASSUME k > tail[n]
      PROVE  ~Overlap(n, k) /\ k > head[n]
  <2>1. \A t \in Threads : pc[t] = "written" /\ job[t].node = n =>
          job[t].to \in Nat /\ job[t].to <= tail[n]
    BY DEF IInv, SnapshotIsFront, TypeOK, Jobs
  <2>2. \A t \in Threads : pc[t] = "written" /\ job[t].node = n => ~(k <= job[t].to)
    BY <1>1, <1>4, <2>1
  <2>3. ~Overlap(n, k)
    BY <2>2 DEF Overlap
  <2>. QED
    BY <1>1, <1>4, <2>3
<1>5. copies[n][k] \in {0, 1} /\ (copies[n][k] = 1 => k \notin given[n])
  BY <1>2, <1>3
<1>6. k <= head[n] => (copies[n][k] = 1 <=> k \notin given[n])
  <2>1. 0 # 1
    OBVIOUS
  <2>. QED
    BY <1>3, <2>1
<1>7. k > tail[n] => copies[n][k] = 0 /\ k \notin given[n]
  BY <1>3, <1>4
<1>. QED
  BY <1>5, <1>6, <1>7

(* No frame is archived twice, however many threads want to flush its node. *)
THEOREM ArchivedOnce == Spec => []WrittenOnce
<1>1. IInv => WrittenOnce
  <2>. SUFFICES ASSUME IInv, NEW n \in Nodes, NEW k \in Frames
                PROVE  copies[n][k] <= 1
    BY DEF WrittenOnce
  <2>1. copies[n][k] \in {0, 1}
    BY CopiesBound
  <2>. QED
    BY <2>1
<1>. QED
  BY <1>1, InvHolds, PTL

(* A frame that left its buffer was archived or knowingly dropped.          *)
THEOREM NothingIsLost == Spec => []LeftMeansWritten
<1>1. IInv => LeftMeansWritten
  <2>. SUFFICES ASSUME IInv, NEW n \in Nodes, NEW k \in 1..head[n]
                PROVE  copies[n][k] = 1 <=> k \notin given[n]
    BY DEF LeftMeansWritten
  <2>1. head[n] \in Nat /\ tail[n] \in Nat /\ head[n] <= tail[n] /\ tail[n] <= MaxFrames
    BY BufferBounds DEF IInv
  <2>2. MaxFrames \in Nat
    BY ArchiveAssumption
  <2>3. k \in Frames /\ k <= head[n]
    BY <2>1, <2>2 DEF Frames
  <2>. QED
    BY <2>3, CopiesBound
<1>. QED
  BY <1>1, InvHolds, PTL

(* A claim in _archive_inflight always has exactly one thread behind it.    *)
THEOREM ClaimsHaveHolders == Spec => []ClaimsAreHeld
<1>1. IInv => ClaimsAreHeld
  BY DEF IInv
<1>. QED
  BY <1>1, InvHolds, PTL

(* The buffers keep their types.                                            *)
THEOREM BuffersTyped == Spec => []TypeOK
<1>1. IInv => TypeOK
  BY DEF IInv
<1>. QED
  BY <1>1, InvHolds, PTL

-----------------------------------------------------------------------------
(* The cap *)

(* The node's worker has filed a frame and is about to flush it.            *)
AtFlush(n) == pc[WorkerOf[n]] = "begin" /\ job[WorkerOf[n]].node = n

Room(n) == IF AtFlush(n) THEN HardCap + 1 ELSE HardCap

(* A buffer that cannot be written is never empty, and no longer than the   *)
(* cap unless a flush is under way.                                         *)
Fits(n) ==
  failing[n] # "no" => /\ head[n] < tail[n]
                       /\ n \notin inflight => tail[n] - head[n] <= Room(n)

(* A flush that found nothing is of a node whose last write succeeded.      *)
EmptyIsHealthy(t) == pc[t] = "empty" => failing[job[t].node] = "no"

CapInv == (\A n \in Nodes : Fits(n)) /\ (\A t \in Threads : EmptyIsHealthy(t))

LEMMA CapFacts == HardCap \in Nat /\ HardCap >= 2
BY SMT, ArchiveAssumption DEF HardCap, ArchiveAssumption

(* A node whose buffer stays as it is still fits.                           *)
LEMMA FitsStill ==
  ASSUME NEW n \in Nodes, Fits(n), TypeOK,
         head'[n] = head[n], tail'[n] = tail[n], failing'[n] # "no" => failing[n] # "no",
         n \in inflight => n \in inflight', AtFlush(n) => AtFlush(n)' \/ n \in inflight'
  PROVE  Fits(n)'
<1>1. head[n] \in Nat /\ tail[n] \in Nat
  BY BufferBounds
<1>2. CASE AtFlush(n) => AtFlush(n)'
  <2>1. Room(n) <= Room(n)'
    BY <1>2, CapFacts, SMT DEF Room
  <2>2. Room(n) \in Nat /\ Room(n)' \in Nat
    BY CapFacts, SMT DEF Room
  <2>. QED
    BY <1>1, <2>1, <2>2, SMT DEF Fits
<1>3. CASE n \in inflight'
  BY <1>3, SMT DEF Fits
<1>. QED
  BY <1>2, <1>3

(* The worker makes room for one more frame by going to flush.              *)
LEMMA AppendFits ==
  ASSUME IInv, CapInv, NEW n \in Nodes, AppendFrame(n)
  PROVE  CapInv'
<1>. DEFINE w == WorkerOf[n]
<1>1. w \in Threads /\ \A m \in Nodes : WorkerOf[m] \in Threads
  BY ArchiveAssumption DEF ArchiveAssumption, Threads
<1>2. /\ pc[w] = "idle" /\ UNCHANGED <<head, failing, inflight>>
      /\ tail' = [tail EXCEPT ![n] = @ + 1]
  BY DEF AppendFrame
<1>3. \/ UNCHANGED <<pc, job>> /\ ~(tail[n] + 1 - head[n] >= BatchMax)
      \/ /\ pc'[w] = "begin" /\ job'[w].node = n
         /\ \A u \in Threads : u # w => pc'[u] = pc[u] /\ job'[u] = job[u]
  BY <1>1 DEF AppendFrame, Goto, IInv, TypeOK
<1>4. \A u \in Threads : u # w => pc'[u] = pc[u] /\ job'[u] = job[u]
  BY <1>3
<1>5. tail'[n] = tail[n] + 1 /\ \A m \in Nodes : m # n => tail'[m] = tail[m]
  BY <1>2 DEF IInv, TypeOK
<1>6. ASSUME NEW m \in Nodes, m # n
      PROVE  Fits(m)'
  <2>1. AtFlush(m) => AtFlush(m)'
    <3>1. AtFlush(m) => WorkerOf[m] # w
      BY <1>2 DEF AtFlush
    <3>. QED
      BY <1>1, <1>4, <3>1 DEF AtFlush
  <2>. QED
    BY <1>2, <1>5, <1>6, <2>1, FitsStill, Zenon DEF CapInv, IInv
<1>7. Fits(n)'
  <2>1. head[n] \in Nat /\ tail[n] \in Nat /\ BatchMax \in Nat /\ BatchMax <= HardCap
    BY BufferBounds, ArchiveAssumption DEF IInv, HardCap, ArchiveAssumption
  <2>2. ~AtFlush(n)
    BY <1>2 DEF AtFlush
  <2>3. failing[n] # "no" => /\ head[n] < tail[n]
                             /\ n \notin inflight => tail[n] - head[n] <= HardCap
    BY <2>2, Zenon DEF CapInv, Fits, Room
  <2>4. AtFlush(n)' \/ tail[n] + 1 - head[n] <= HardCap
    <3>1. CASE UNCHANGED <<pc, job>>
      <4>1. ~(tail[n] + 1 - head[n] >= BatchMax)
        BY <1>2, <1>3, <3>1 
      <4>. QED
        BY <2>1, <4>1, CapFacts, SMT
    <3>2. CASE ~UNCHANGED <<pc, job>>
      BY <1>3, <3>2 DEF AtFlush
    <3>. QED
      BY <3>1, <3>2
  <2>5. Room(n)' = IF AtFlush(n)' THEN HardCap + 1 ELSE HardCap
    BY DEF Room
  <2>6. failing'[n] = failing[n] /\ head'[n] = head[n] /\ inflight' = inflight
    BY <1>2
  <2>7. ASSUME failing[n] # "no"
        PROVE  head[n] < tail'[n] /\ (n \notin inflight => tail'[n] - head[n] <= Room(n)')
    BY <1>5, <2>1, <2>3, <2>4, <2>5, <2>7, CapFacts, SMT
  <2>. QED
    BY <2>6, <2>7, Zenon DEF Fits
<1>8. ASSUME NEW t \in Threads
      PROVE  EmptyIsHealthy(t)'
  <2>1. CASE t # w
    BY <1>2, <1>4, <2>1 DEF EmptyIsHealthy, CapInv
  <2>2. CASE t = w
    BY <1>2, <1>3, <2>2, SMT DEF EmptyIsHealthy
  <2>. QED
    BY <2>1, <2>2
<1>. QED
  BY <1>6, <1>7, <1>8 DEF CapInv

(* A step of one thread that leaves every buffer and every failing mark.    *)
LEMMA QuietThread ==
  ASSUME IInv, CapInv, NEW t \in Threads, UNCHANGED <<head, tail, failing>>,
         inflight \subseteq inflight',
         \A u \in Threads : u # t => pc'[u] = pc[u] /\ job'[u] = job[u],
         \A m \in Nodes : t = WorkerOf[m] /\ AtFlush(m) => m \in inflight',
         EmptyIsHealthy(t)'
  PROVE  CapInv'
<1>1. \A m \in Nodes : WorkerOf[m] \in Threads
  BY ArchiveAssumption DEF ArchiveAssumption, Threads
<1>2. ASSUME NEW m \in Nodes
      PROVE  Fits(m)'
  <2>1. AtFlush(m) => AtFlush(m)' \/ m \in inflight'
    BY <1>1 DEF AtFlush
  <2>. QED
    BY <2>1, FitsStill, Zenon DEF CapInv, IInv
<1>3. ASSUME NEW u \in Threads
      PROVE  EmptyIsHealthy(u)'
  BY Zenon DEF EmptyIsHealthy, CapInv
<1>. QED
  BY <1>2, <1>3 DEF CapInv

LEMMA BeginFits ==
  ASSUME IInv, CapInv, NEW t \in Threads, Begin(t)
  PROVE  CapInv'
<1>. DEFINE n == job[t].node
<1>1. n \in Nodes /\ UNCHANGED <<head, tail, failing>>
  BY DEF Begin, bufferVars, IInv, TypeOK, Jobs
<1>2. /\ inflight \subseteq inflight' /\ n \in inflight'
      /\ \A u \in Threads : u # t => pc'[u] = pc[u] /\ job'[u] = job[u]
  BY DEF Begin, Return, Goto, IInv, TypeOK
<1>3. \A m \in Nodes : t = WorkerOf[m] /\ AtFlush(m) => m \in inflight'
  BY <1>2 DEF AtFlush
<1>4. EmptyIsHealthy(t)'
  <2>1. CASE n \in inflight
    <3>1. pc'[t] \in {"sweep", "idle"}
      BY <2>1 DEF Begin, Return, Goto, IInv, TypeOK
    <3>. QED
      BY <3>1 DEF EmptyIsHealthy
  <2>2. CASE n \notin inflight
    <3>1. /\ pc'[t] = IF head[n] = tail[n] THEN "empty" ELSE "write"
          /\ job'[t] = [node |-> n, from |-> head[n], to |-> tail[n]]
      BY <2>2 DEF Begin, Goto, IInv, TypeOK
    <3>2. job'[t].node = n
      BY <3>1
    <3>3. head[n] = tail[n] => failing[n] = "no"
      <4>1. head[n] \in Nat /\ tail[n] \in Nat /\ Fits(n)
        BY <1>1, BufferBounds DEF IInv, CapInv
      <4>. QED
        BY <4>1, SMT DEF Fits
    <3>. QED
      BY <1>1, <3>1, <3>2, <3>3 DEF EmptyIsHealthy
  <2>. QED
    BY <2>1, <2>2
<1>. QED
  BY <1>1, <1>2, <1>3, <1>4, QuietThread, Zenon

LEMMA WriteFits ==
  ASSUME IInv, CapInv, NEW t \in Threads, Write(t)
  PROVE  CapInv'
<1>1. /\ UNCHANGED <<head, tail, failing, inflight>>
      /\ \A u \in Threads : u # t => pc'[u] = pc[u] /\ job'[u] = job[u]
      /\ pc'[t] \in {"written", "failed"}
  BY DEF Write, Goto, IInv, TypeOK
<1>2. pc[t] = "write"
  BY DEF Write
<1>3. EmptyIsHealthy(t)' /\ \A m \in Nodes : ~(t = WorkerOf[m] /\ AtFlush(m))
  BY <1>1, <1>2 DEF EmptyIsHealthy, AtFlush
<1>. QED
  BY <1>1, <1>3, QuietThread, Zenon

(* A thread gives its node back; the others' nodes are not touched, and     *)
(* what it left of its own fits.                                            *)
LEMMA ReleaseFits ==
  ASSUME IInv, CapInv, NEW t \in Threads, pc[t] \in Cycle, Return(t), UNCHANGED <<tail, job>>,
         inflight' = inflight \ {job[t].node},
         \A m \in Nodes : m # job[t].node => head'[m] = head[m] /\ failing'[m] = failing[m],
         Fits(job[t].node)'
  PROVE  CapInv'
<1>. DEFINE n == job[t].node
<1>1. /\ pc'[t] \in {"idle", "sweep"}
      /\ \A u \in Threads : u # t => pc'[u] = pc[u]
  BY DEF Return, Goto, IInv, TypeOK
<1>2. ASSUME NEW m \in Nodes, m # n
      PROVE  Fits(m)'
  <2>1. WorkerOf[m] \in Threads
    BY ArchiveAssumption DEF ArchiveAssumption, Threads
  <2>2. AtFlush(m) => AtFlush(m)'
    <3>1. AtFlush(m) => WorkerOf[m] # t
      BY DEF AtFlush, Cycle
    <3>. QED
      BY <1>1, <2>1, <3>1 DEF AtFlush
  <2>3. m \in inflight => m \in inflight'
    BY <1>2
  <2>. QED
    BY <1>2, <2>2, <2>3, FitsStill, Zenon DEF CapInv, IInv
<1>3. ASSUME NEW u \in Threads
      PROVE  EmptyIsHealthy(u)'
  <2>1. CASE u = t
    BY <1>1, <2>1 DEF EmptyIsHealthy
  <2>2. CASE u # t /\ pc[u] = "empty"
    <3>1. job[u].node # n /\ job[u].node \in Nodes
      BY <2>2 DEF IInv, ClaimsAreHeld, Cycle, TypeOK, Jobs
    <3>2. failing[job[u].node] = "no"
      BY <2>2 DEF CapInv, EmptyIsHealthy
    <3>. QED
      BY <3>1, <3>2 DEF EmptyIsHealthy
  <2>3. CASE u # t /\ pc[u] # "empty"
    BY <1>1, <2>3 DEF EmptyIsHealthy
  <2>. QED
    BY <2>1, <2>2, <2>3
<1>. QED
  BY <1>2, <1>3, Zenon DEF CapInv

LEMMA EmptyFits ==
  ASSUME IInv, CapInv, NEW t \in Threads, NothingToWrite(t)
  PROVE  CapInv'
<1>. DEFINE n == job[t].node
<1>1. /\ pc[t] = "empty" /\ inflight' = inflight \ {n} /\ Return(t)
      /\ UNCHANGED <<head, tail, failing, job>>
  BY DEF NothingToWrite, bufferVars
<1>2. failing'[n] = "no"
  BY <1>1 DEF CapInv, EmptyIsHealthy
<1>3. Fits(n)'
  BY <1>1, <1>2 DEF Fits
<1>4. pc[t] \in Cycle
  BY <1>1 DEF Cycle
<1>. QED
  BY <1>1, <1>3, <1>4, ReleaseFits

(* A failed write leaves the cap at most, and the snapshot at least: what   *)
(* came in meanwhile counts.                                                *)
LEMMA RetainFits ==
  ASSUME IInv, CapInv, NEW t \in Threads, Retain(t)
  PROVE  CapInv'
<1>. DEFINE n      == job[t].node
            excess == IF tail[n] - head[n] > HardCap THEN tail[n] - head[n] - HardCap ELSE 0
<1>1. /\ pc[t] = "failed" /\ Return(t) /\ inflight' = inflight \ {n}
      /\ UNCHANGED <<tail, job>> /\ n \in Nodes
  BY DEF Retain, IInv, TypeOK, Jobs
<1>2. /\ head'[n] = head[n] + excess
      /\ \A m \in Nodes : m # n => head'[m] = head[m] /\ failing'[m] = failing[m]
  BY <1>1 DEF Retain, IInv, TypeOK
<1>3. head[n] < tail[n] /\ head[n] \in Nat /\ tail[n] \in Nat
  <2>1. head[n] \in Nat /\ tail[n] \in Nat /\ job[t].to \in Nat
    BY <1>1, BufferBounds DEF IInv, TypeOK, Jobs
  <2>2. head[n] < job[t].to /\ job[t].to <= tail[n]
    BY <1>1 DEF IInv, SnapshotIsFront
  <2>. QED
    BY <2>1, <2>2
<1>4. head'[n] < tail[n] /\ tail[n] - head'[n] <= HardCap
  BY <1>2, <1>3, CapFacts, SMT
<1>5. Room(n)' >= HardCap
  BY CapFacts, SMT DEF Room
<1>6. Fits(n)'
  <2>1. Room(n)' \in Nat /\ HardCap \in Nat /\ head'[n] \in Int
    BY <1>2, <1>3, CapFacts, SMT DEF Room
  <2>2. tail'[n] - head'[n] <= Room(n)' /\ head'[n] < tail'[n]
    BY <1>1, <1>3, <1>4, <1>5, <2>1, SMT
  <2>. QED
    BY <1>1, <2>2 DEF Fits
<1>7. pc[t] \in Cycle
  BY <1>1 DEF Cycle
<1>. HIDE DEF excess
<1>. QED
  BY <1>1, <1>2, <1>6, <1>7, ReleaseFits

LEMMA TruncateFits ==
  ASSUME IInv, CapInv, NEW t \in Threads, Truncate(t)
  PROVE  CapInv'
<1>. DEFINE n == job[t].node
<1>1. /\ pc[t] = "written" /\ Return(t) /\ inflight' = inflight \ {n}
      /\ UNCHANGED <<tail, job>> /\ n \in Nodes
  BY DEF Truncate, IInv, TypeOK, Jobs
<1>2. /\ failing'[n] = "no"
      /\ \A m \in Nodes : m # n => head'[m] = head[m] /\ failing'[m] = failing[m]
  BY <1>1 DEF Truncate, IInv, TypeOK
<1>3. Fits(n)' /\ pc[t] \in Cycle
  BY <1>1, <1>2 DEF Fits, Cycle
<1>. QED
  BY <1>1, <1>2, <1>3, ReleaseFits

(* The archive task's own steps: a buffer it abandons is no longer failing. *)
LEMMA ArchiverFits ==
  ASSUME IInv, CapInv, ArchiverStep
  PROVE  CapInv'
<1>1. Archiver \in Threads /\ \A m \in Nodes : WorkerOf[m] \in Threads /\ WorkerOf[m] # Archiver
  BY ArchiveAssumption DEF ArchiveAssumption, Threads
<1>2. /\ UNCHANGED <<tail, inflight>>
      /\ \A u \in Threads : u # Archiver => pc'[u] = pc[u] /\ job'[u] = job[u]
      /\ pc'[Archiver] # "empty"
  BY <1>1
  DEF ArchiverStep, Sweep, SweepNode, FindExpired, ReadLive, Abandon, Goto, bufferVars,
      IInv, TypeOK
<1>3. \A m \in Nodes : AtFlush(m) => AtFlush(m)'
  BY <1>1, <1>2 DEF AtFlush
<1>4. \A m \in Nodes : \/ failing'[m] = "no"
                       \/ failing'[m] = failing[m] /\ head'[m] = head[m]
  BY DEF ArchiverStep, Sweep, SweepNode, FindExpired, ReadLive, Abandon, bufferVars
<1>5. ASSUME NEW m \in Nodes
      PROVE  Fits(m)'
  <2>1. CASE failing'[m] = "no"
    BY <2>1 DEF Fits
  <2>2. CASE failing'[m] = failing[m] /\ head'[m] = head[m]
    BY <1>2, <1>3, <2>2, FitsStill, Zenon DEF CapInv, IInv
  <2>. QED
    BY <1>4, <2>1, <2>2
<1>6. ASSUME NEW u \in Threads
      PROVE  EmptyIsHealthy(u)'
  <2>1. CASE u = Archiver
    BY <1>2, <2>1 DEF EmptyIsHealthy
  <2>2. CASE u # Archiver
    <3>1. job[u].node \in Nodes
      BY DEF IInv, TypeOK, Jobs
    <3>. QED
      BY <1>2, <1>4, <2>2, <3>1 DEF EmptyIsHealthy, CapInv
  <2>. QED
    BY <2>1, <2>2
<1>. QED
  BY <1>5, <1>6 DEF CapInv

LEMMA SurroundingsFit ==
  ASSUME IInv, CapInv, UNCHANGED <<head, tail, inflight, pc, job>>,
         \A n \in Nodes : failing'[n] = "no" <=> failing[n] = "no"
  PROVE  CapInv'
<1>1. ASSUME NEW n \in Nodes
      PROVE  Fits(n)'
  BY FitsStill, Zenon DEF CapInv, IInv, AtFlush
<1>2. ASSUME NEW t \in Threads
      PROVE  EmptyIsHealthy(t)'
  <2>1. job[t].node \in Nodes
    BY DEF IInv, TypeOK, Jobs
  <2>. QED
    BY <2>1 DEF EmptyIsHealthy, CapInv
<1>. QED
  BY <1>1, <1>2 DEF CapInv

LEMMA CapStep == ASSUME IInv, CapInv, [Next]_vars PROVE CapInv'
<1>1. ASSUME NEW n \in Nodes, Expire(n)
      PROVE  CapInv'
  <2>1. \A m \in Nodes : failing'[m] = "no" <=> failing[m] = "no"
    BY <1>1 DEF Expire, IInv, TypeOK
  <2>. QED
    BY <1>1, <2>1, SurroundingsFit DEF Expire, bufferVars
<1>2. ASSUME NEW n \in Nodes, ConnectOrDepart(n)
      PROVE  CapInv'
  BY <1>2, SurroundingsFit DEF ConnectOrDepart, bufferVars
<1>3. CASE DiskChanges \/ UNCHANGED vars
  BY <1>3, SurroundingsFit DEF DiskChanges, bufferVars, vars
<1>4. ASSUME NEW t \in Threads, Flush(t)
      PROVE  CapInv'
  BY <1>4, BeginFits, EmptyFits, WriteFits, RetainFits, TruncateFits DEF Flush
<1>. QED
  BY <1>1, <1>2, <1>3, <1>4, AppendFits, ArchiverFits DEF Next

(* For any nodes, workers and batch size, the buffer of a node that cannot  *)
(* be written outgrows the cap by one frame at most, unless a write of it   *)
(* is under way.                                                            *)
THEOREM FailingBuffersStayCapped == Spec => []FailingBufferCapped
<1>1. Init => CapInv
  BY DEF Init, CapInv, Fits, EmptyIsHealthy
<1>2. IInv /\ CapInv /\ [Next]_vars => CapInv'
  BY CapStep
<1>3. IInv /\ CapInv => FailingBufferCapped
  <2>. SUFFICES ASSUME IInv, CapInv, NEW n \in Nodes, failing[n] # "no", n \notin inflight
                PROVE  tail[n] - head[n] <= HardCap + 1
    BY DEF FailingBufferCapped
  <2>1. tail[n] - head[n] <= Room(n)
    BY DEF CapInv, Fits
  <2>2. Room(n) <= HardCap + 1 /\ Room(n) \in Nat
    BY CapFacts, SMT DEF Room
  <2>3. head[n] \in Nat /\ tail[n] \in Nat
    BY BufferBounds DEF IInv
  <2>. QED
    BY <2>1, <2>2, <2>3, CapFacts, SMT
<1>. QED
  BY <1>1, <1>2, <1>3, InvHolds, PTL DEF Spec

-----------------------------------------------------------------------------
(* The buffers implement the archive contract *)

(* The status of a frame, with the impossible cases gone.                   *)
Standing(n, k) ==
  IF copies[n][k] = 1 THEN "stored"
  ELSE IF k \in given[n] THEN "dropped"
  ELSE IF k > tail[n] THEN "none" ELSE "held"

Simple == \A n \in Nodes, k \in Frames : StatusBar[n][k] = Standing(n, k)

(* No frame is ever lost or archived twice.                                 *)
LEMMA StatusIs == IInv => Simple
<1>. SUFFICES ASSUME IInv, NEW n \in Nodes, NEW k \in Frames
              PROVE  StatusBar[n][k] = Standing(n, k)
  BY DEF Simple
<1>1. k \in Nat /\ head[n] \in Nat /\ tail[n] \in Nat
  BY BufferBounds DEF IInv, Frames
<1>2. ~(copies[n][k] > 1)
  <2>1. copies[n][k] \in {0, 1}
    BY CopiesBound
  <2>. QED
    BY <2>1
<1>3. ASSUME copies[n][k] # 1, k \notin given[n], ~(k > tail[n])
      PROVE  k \in Buffered(n)
  <2>1. ~(k <= head[n])
    BY <1>3, CopiesBound
  <2>. QED
    BY <1>1, <1>3, <2>1 DEF Buffered
<1>4. StatusBar[n][k] = Status(n, k)
  BY DEF StatusBar
<1>. QED
  BY <1>2, <1>3, <1>4 DEF Status, Standing

(* Two statuses that agree frame by frame with a function are that function.*)
LEMMA NextStatus ==
  ASSUME IInv, IInv'
  PROVE  /\ \A n \in Nodes, k \in Frames : StatusBar[n][k] = Standing(n, k)
         /\ \A n \in Nodes, k \in Frames : StatusBar'[n][k] = Standing(n, k)'
         /\ StatusBar' = [n \in Nodes |-> [k \in Frames |-> StatusBar'[n][k]]]
         /\ StatusBar = [n \in Nodes |-> [k \in Frames |-> StatusBar[n][k]]]
<1>1. (IInv => Simple)'
  BY StatusIs, PTL
<1>2. Simple /\ Simple'
  BY <1>1, StatusIs
<1>. QED
  BY <1>2 DEF Simple, StatusBar

(* Where no frame's copies, drop or arrival changes, the status stands.     *)
LEMMA StatusStands ==
  ASSUME IInv, IInv', UNCHANGED <<copies, given, tail>>
  PROVE  UNCHANGED StatusBar
<1>1. \A n \in Nodes, k \in Frames : Standing(n, k)' = Standing(n, k)
  BY DEF Standing
<1>2. \A n \in Nodes, k \in Frames : StatusBar'[n][k] = StatusBar[n][k]
  BY <1>1, NextStatus
<1>. QED
  BY <1>2, NextStatus

(* Where a set of held frames is dropped and nothing else changes, the      *)
(* contract drops.                                                          *)
LEMMA DropStep ==
  ASSUME IInv, IInv', NEW upTo \in [Nodes -> 0..MaxFrames], UNCHANGED <<copies, tail>>,
         \A n \in Nodes, k \in Frames :
           k \in given'[n] <=> k \in given[n] \/ (StatusBar[n][k] = "held" /\ k <= upTo[n])
  PROVE  Contract!Drop(upTo)
<1>1. ASSUME NEW n \in Nodes, NEW k \in Frames
      PROVE  StatusBar'[n][k] = IF k \in Contract!Held(n) /\ k <= upTo[n] THEN "dropped"
                                ELSE StatusBar[n][k]
  <2>1. StatusBar[n][k] = Standing(n, k) /\ StatusBar'[n][k] = Standing(n, k)'
    BY NextStatus
  <2>2. k \in Contract!Held(n) <=> StatusBar[n][k] = "held"
    BY DEF Contract!Held, Contract!Frames, Frames
  <2>3. StatusBar[n][k] = "held" <=> copies[n][k] # 1 /\ k \notin given[n] /\ ~(k > tail[n])
    BY <2>1 DEF Standing
  <2>. QED
    BY <2>1, <2>2, <2>3 DEF Standing
<1>2. StatusBar' = [n \in Nodes |-> [k \in Frames |->
                      IF k \in Contract!Held(n) /\ k <= upTo[n] THEN "dropped"
                      ELSE StatusBar[n][k]]]
  BY <1>1, NextStatus
<1>. QED
  BY <1>2 DEF Contract!Drop, Contract!Frames, Frames

(* What the contract calls held is what is in the buffer and not on disk.   *)
LEMMA HeldIs ==
  ASSUME IInv, NEW n \in Nodes, NEW k \in Frames,
         \A t \in Threads : pc[t] = "written" => job[t].node # n
  PROVE  /\ StatusBar[n][k] = "held" <=> k > head[n] /\ k <= tail[n]
         /\ copies[n][k] = 0 \/ k <= head[n]
<1>1. k \in Nat /\ head[n] \in Nat /\ tail[n] \in Nat /\ head[n] <= tail[n]
  BY BufferBounds DEF IInv, Frames
<1>2. ~Overlap(n, k)
  BY DEF Overlap
<1>3. /\ k <= head[n] => copies[n][k] = 1 \/ k \in given[n]
      /\ k > head[n] => k \notin given[n] /\ copies[n][k] = 0
  BY <1>2 DEF IInv, Accounted
<1>4. StatusBar[n][k] = Standing(n, k)
  BY StatusIs DEF Simple
<1>5. k <= head[n] => StatusBar[n][k] # "held"
  BY <1>3, <1>4 DEF Standing
<1>6. k > head[n] => StatusBar[n][k] = IF k > tail[n] THEN "none" ELSE "held"
  BY <1>3, <1>4 DEF Standing
<1>7. (k <= head[n] <=> ~(k > head[n])) /\ (k <= tail[n] <=> ~(k > tail[n]))
  BY <1>1
<1>. QED
  BY <1>3, <1>5, <1>6, <1>7

(* An appended frame is accepted.                                           *)
LEMMA AppendAccepts ==
  ASSUME IInv, IInv', NEW n \in Nodes, AppendFrame(n)
  PROVE  Contract!Accept(n, tail[n] + 1) /\ tail[n] + 1 \in Frames
<1>1. /\ tail[n] \in Nat /\ tail[n] < MaxFrames /\ MaxFrames \in Nat
      /\ tail' = [tail EXCEPT ![n] = @ + 1] /\ UNCHANGED <<copies, given>>
  BY BufferBounds, ArchiveAssumption DEF AppendFrame, IInv
<1>2. tail[n] + 1 \in Frames
  BY <1>1 DEF Frames
<1>3. /\ \A m \in Nodes : tail[m] \in Nat
      /\ \A m \in Nodes : tail'[m] = IF m = n THEN tail[n] + 1 ELSE tail[m]
  BY <1>1, BufferBounds DEF IInv, TypeOK
<1>4. ASSUME NEW k \in Frames, k > tail[n]
      PROVE  copies[n][k] = 0 /\ k \notin given[n]
  BY <1>4, CopiesBound
<1>5. \A m \in Nodes, k \in Frames :
        StatusBar[m][k] = Standing(m, k) /\ StatusBar'[m][k] = Standing(m, k)'
  BY NextStatus
<1>6. StatusBar[n][tail[n] + 1] = "none" /\ StatusBar'[n][tail[n] + 1] = "held"
  <2>1. tail[n] + 1 > tail[n] /\ ~(tail[n] + 1 > tail'[n])
    BY <1>1, <1>3
  <2>2. copies[n][tail[n] + 1] = 0 /\ tail[n] + 1 \notin given[n]
    BY <1>2, <1>4, <2>1
  <2>3. copies'[n][tail[n] + 1] = 0 /\ tail[n] + 1 \notin given'[n]
    BY <1>1, <2>2
  <2>4. Standing(n, tail[n] + 1) = "none"
    BY <2>1, <2>2 DEF Standing
  <2>5. StatusBar'[n][tail[n] + 1] = "held"
    BY <1>2, <1>5, <2>1, <2>3 DEF Standing
  <2>. QED
    BY <1>2, <1>5, <2>4, <2>5
<1>7. \A m \in Nodes, k \in Frames :
        (m # n \/ k # tail[n] + 1) => StatusBar'[m][k] = StatusBar[m][k]
  <2>. TAKE m \in Nodes, k \in Frames
  <2>1. k \in Nat
    BY DEF Frames
  <2>2. (m # n \/ k # tail[n] + 1) => (k > tail'[m] <=> k > tail[m])
    BY <1>3, <2>1
  <2>. QED
    BY <1>1, <1>5, <2>2 DEF Standing
<1>8. \A i \in 1..tail[n] : StatusBar[n][i] # "none"
  <2>. TAKE i \in 1..tail[n]
  <2>1. i \in Frames /\ ~(i > tail[n])
    BY <1>1 DEF Frames
  <2>. QED
    BY <1>5, <2>1 DEF Standing
<1>9. StatusBar' = [StatusBar EXCEPT ![n][tail[n] + 1] = "held"]
  BY <1>2, <1>6, <1>7, NextStatus
<1>10. 1..((tail[n] + 1) - 1) = 1..tail[n]
  BY <1>1
<1>. QED
  BY <1>2, <1>6, <1>8, <1>9, <1>10 DEF Contract!Accept

(* A snapshot that reached the disk is stored.                              *)
LEMMA WriteStores ==
  ASSUME IInv, IInv', NEW t \in Threads, Write(t), disk
  PROVE  Contract!Store(job[t].node, job[t].to) /\ job[t].node \in Nodes /\ job[t].to \in Frames
<1>. DEFINE n == job[t].node
            to == job[t].to
<1>1. /\ pc[t] = "write" /\ n \in Nodes /\ UNCHANGED <<tail, given>>
      /\ copies' = [copies EXCEPT ![n] =
                      [k \in Frames |->
                         IF k \in (job[t].from + 1)..to THEN @[k] + 1 ELSE @[k]]]
  BY DEF Write, IInv, TypeOK, Jobs
<1>2. /\ job[t].from = head[n] /\ head[n] < to /\ to <= tail[n] /\ tail[n] <= MaxFrames
      /\ to \in Nat /\ head[n] \in Nat /\ tail[n] \in Nat /\ MaxFrames \in Nat
  BY <1>1, BufferBounds, ArchiveAssumption DEF IInv, SnapshotIsFront, TypeOK, Jobs
<1>3. to \in Frames
  BY <1>2 DEF Frames
<1>4. \A u \in Threads : pc[u] = "written" => job[u].node # n
  BY <1>1 DEF IInv, ClaimsAreHeld, Cycle
<1>5. /\ \A k \in Frames : StatusBar[n][k] = "held" <=> k > head[n] /\ k <= tail[n]
      /\ \A k \in Frames : copies[n][k] = 0 \/ k <= head[n]
  BY <1>1, <1>4, HeldIs
<1>6. \A m \in Nodes, k \in Frames :
        StatusBar[m][k] = Standing(m, k) /\ StatusBar'[m][k] = Standing(m, k)'
  BY NextStatus
<1>. HIDE DEF n, to
<1>7. copies \in [Nodes -> [Frames -> Nat]]
  BY DEF IInv, TypeOK
<1>8. \A m \in Nodes, k \in Frames : m # n => StatusBar'[m][k] = StatusBar[m][k]
  <2>1. \A m \in Nodes : m # n => copies'[m] = copies[m]
    BY <1>1, <1>7
  <2>. QED
    BY <1>1, <1>6, <2>1 DEF Standing
<1>9. \A k \in Frames : StatusBar'[n][k] = IF k \in Contract!Held(n) /\ k <= to THEN "stored"
                                           ELSE StatusBar[n][k]
  <2>. TAKE k \in Frames
  <2>1. copies'[n][k] = IF k \in (head[n] + 1)..to THEN copies[n][k] + 1 ELSE copies[n][k]
    BY <1>1, <1>2, <1>7
  <2>2. k \in Contract!Held(n) <=> k > head[n] /\ k <= tail[n]
    BY <1>5 DEF Contract!Held, Contract!Frames, Frames
  <2>3. k \in Nat
    BY DEF Frames
  <2>4. (k \in Contract!Held(n) /\ k <= to) <=> k \in (head[n] + 1)..to
    BY <1>2, <2>2, <2>3
  <2>5. CASE k \in (head[n] + 1)..to
    <3>1. copies[n][k] = 0
      BY <1>2, <1>5, <2>3, <2>5
    <3>2. copies'[n][k] = 1
      BY <2>1, <2>5, <3>1
    <3>3. StatusBar'[n][k] = "stored"
      BY <1>1, <1>6, <3>2 DEF Standing
    <3>. QED
      BY <2>4, <2>5, <3>3
  <2>6. CASE k \notin (head[n] + 1)..to
    <3>1. copies'[n][k] = copies[n][k]
      BY <2>1, <2>6
    <3>2. StatusBar'[n][k] = StatusBar[n][k]
      BY <1>1, <1>6, <3>1 DEF Standing
    <3>. QED
      BY <2>4, <2>6, <3>2
  <2>. QED
    BY <2>5, <2>6
<1>10. StatusBar' = [StatusBar EXCEPT ![n] =
                       [k \in Frames |-> IF k \in Contract!Held(n) /\ k <= to THEN "stored"
                                         ELSE @[k]]]
  BY <1>1, <1>8, <1>9, NextStatus
<1>11. to \in Contract!Held(n)
  <2>1. to > head[n] /\ to <= tail[n]
    BY <1>2
  <2>. QED
    BY <1>3, <1>5, <2>1 DEF Contract!Held, Contract!Frames, Frames
<1>12. Contract!Store(n, to)
  BY <1>10, <1>11 DEF Contract!Store, Contract!Oldest, Contract!Frames, Frames
<1>. QED
  BY <1>1, <1>3, <1>12 DEF n, to

(* A cut at the cap is a drop.                                              *)
LEMMA RetainDrops ==
  ASSUME IInv, IInv', NEW t \in Threads, Retain(t)
  PROVE  \E upTo \in [Nodes -> 0..MaxFrames] : Contract!Drop(upTo)
<1>. DEFINE n      == job[t].node
            excess == IF tail[n] - head[n] > HardCap THEN tail[n] - head[n] - HardCap ELSE 0
            upTo   == [m \in Nodes |-> IF m = n THEN head[n] + excess ELSE 0]
<1>1. pc[t] = "failed" /\ n \in Nodes /\ UNCHANGED <<tail, copies>>
  BY DEF Retain, IInv, TypeOK, Jobs
<1>2. /\ head[n] \in Nat /\ tail[n] \in Nat /\ HardCap \in Nat /\ excess \in Nat
      /\ head[n] <= tail[n] /\ head[n] + excess <= tail[n] /\ tail[n] <= MaxFrames
      /\ MaxFrames \in Nat
  BY <1>1, BufferBounds, ArchiveAssumption DEF HardCap, IInv
<1>3. /\ given'[n] = given[n] \cup DropFirst(n, excess)
      /\ \A m \in Nodes : m # n => given'[m] = given[m]
  BY <1>1 DEF Retain, IInv, TypeOK
<1>4. \A u \in Threads : pc[u] = "written" => job[u].node # n
  BY <1>1 DEF IInv, ClaimsAreHeld, Cycle
<1>5. \A k \in Frames : StatusBar[n][k] = "held" <=> k > head[n] /\ k <= tail[n]
  BY <1>1, <1>4, HeldIs
<1>. HIDE DEF excess
<1>6. upTo \in [Nodes -> 0..MaxFrames]
  BY <1>2
<1>7. \A m \in Nodes, k \in Frames :
        k \in given'[m] <=> k \in given[m] \/ (StatusBar[m][k] = "held" /\ k <= upTo[m])
  <2>. TAKE m \in Nodes, k \in Frames
  <2>1. k \in Nat /\ ~(k <= 0)
    BY DEF Frames
  <2>2. CASE m # n
    <3>1. upTo[m] = 0
      BY <2>2
    <3>. QED
      BY <1>3, <2>1, <2>2, <3>1
  <2>3. CASE m = n
    <3>1. upTo[m] = head[n] + excess
      BY <2>3
    <3>2. k \in DropFirst(n, excess) <=> (k > head[n] /\ k <= head[n] + excess)
      BY <1>2, <2>1 DEF DropFirst
    <3>3. k <= head[n] + excess => k <= tail[n]
      BY <1>2, <2>1
    <3>. QED
      BY <1>3, <1>5, <2>3, <3>1, <3>2, <3>3
  <2>. QED
    BY <2>2, <2>3
<1>. HIDE DEF upTo
<1>8. Contract!Drop(upTo)
  BY <1>1, <1>6, <1>7, DropStep
<1>. QED
  BY <1>6, <1>8

(* Abandoning buffers is a drop.                                            *)
LEMMA AbandonDrops ==
  ASSUME IInv, IInv', Abandon
  PROVE  \E upTo \in [Nodes -> 0..MaxFrames] : Contract!Drop(upTo)
<1>. DEFINE upTo == [m \in Nodes |-> IF m \in Abandoned THEN tail[m] ELSE 0]
<1>1. UNCHANGED <<tail, copies>>
  BY DEF Abandon
<1>2. upTo \in [Nodes -> 0..MaxFrames]
  BY ArchiveAssumption DEF IInv, TypeOK
<1>3. \A n \in Nodes : given'[n] = IF n \in Abandoned THEN given[n] \cup Buffered(n)
                                   ELSE given[n]
  BY DEF Abandon
<1>4. \A n \in Abandoned, u \in Threads : pc[u] = "written" => job[u].node # n
  BY DEF IInv, ClaimsAreHeld, Cycle, Abandoned
<1>5. \A m \in Nodes, k \in Frames :
        k \in given'[m] <=> k \in given[m] \/ (StatusBar[m][k] = "held" /\ k <= upTo[m])
  <2>. TAKE m \in Nodes, k \in Frames
  <2>1. k \in Nat /\ ~(k <= 0) /\ head[m] \in Nat /\ tail[m] \in Nat
    BY BufferBounds DEF IInv, Frames
  <2>2. CASE m \notin Abandoned
    <3>1. upTo[m] = 0
      BY <2>2
    <3>. QED
      BY <1>3, <2>1, <2>2, <3>1
  <2>3. CASE m \in Abandoned
    <3>1. upTo[m] = tail[m]
      BY <2>3
    <3>2. k \in Buffered(m) <=> (k > head[m] /\ k <= tail[m])
      BY <2>1 DEF Buffered
    <3>3. StatusBar[m][k] = "held" <=> k > head[m] /\ k <= tail[m]
      BY <1>4, <2>3, HeldIs
    <3>. QED
      BY <1>3, <2>3, <3>1, <3>2, <3>3
  <2>. QED
    BY <2>2, <2>3
<1>. HIDE DEF upTo
<1>6. Contract!Drop(upTo)
  BY <1>1, <1>2, <1>5, DropStep
<1>. QED
  BY <1>2, <1>6

(* Every step of the buffers is a step of the contract or a stutter.        *)
LEMMA ContractStep ==
  ASSUME IInv, IInv', [Next]_vars
  PROVE  [Contract!Next]_StatusBar
<1>. USE DEF bufferVars
<1>1. ASSUME UNCHANGED <<copies, given, tail>>
      PROVE  UNCHANGED StatusBar
  BY <1>1, StatusStands
<1>2. ASSUME NEW n \in Nodes, AppendFrame(n)
      PROVE  Contract!Next
  BY <1>2, AppendAccepts DEF Contract!Next, Contract!Frames, Frames
<1>3. ASSUME NEW t \in Threads, Write(t)
      PROVE  Contract!Next \/ UNCHANGED StatusBar
  <2>1. CASE disk
    BY <1>3, <2>1, WriteStores DEF Contract!Next, Contract!Frames, Frames
  <2>2. CASE ~disk
    BY <1>1, <1>3, <2>2 DEF Write
  <2>. QED
    BY <2>1, <2>2
<1>4. ASSUME NEW t \in Threads, Retain(t)
      PROVE  Contract!Next
  BY <1>4, RetainDrops DEF Contract!Next
<1>5. CASE Abandon
  BY <1>5, AbandonDrops DEF Contract!Next
<1>6. ASSUME NEW t \in Threads, Begin(t) \/ NothingToWrite(t) \/ Truncate(t)
      PROVE  UNCHANGED StatusBar
  BY <1>1, <1>6 DEF Begin, NothingToWrite, Truncate
<1>7. CASE ArchiverStep /\ ~Abandon
  BY <1>1, <1>7 DEF ArchiverStep, Sweep, SweepNode, FindExpired, ReadLive
<1>8. ASSUME NEW n \in Nodes, Expire(n) \/ ConnectOrDepart(n)
      PROVE  UNCHANGED StatusBar
  BY <1>1, <1>8 DEF Expire, ConnectOrDepart
<1>9. CASE DiskChanges \/ UNCHANGED vars
  BY <1>1, <1>9 DEF DiskChanges, vars
<1>. QED
  BY <1>2, <1>3, <1>4, <1>5, <1>6, <1>7, <1>8, <1>9 DEF Next, Flush

(* At startup no frame has been handed over.                                *)
LEMMA ContractInit == Init => Contract!Init
<1>. SUFFICES ASSUME Init
              PROVE  Contract!Init
  OBVIOUS
<1>1. IInv /\ (IInv => Simple)
  BY InvInit, StatusIs
<1>2. \A n \in Nodes, k \in Frames : StatusBar[n][k] = "none"
  <2>. TAKE n \in Nodes, k \in Frames
  <2>1. copies[n][k] = 0 /\ k \notin given[n] /\ k > tail[n]
    BY DEF Init, Frames
  <2>. QED
    BY <1>1, <2>1 DEF Simple, Standing
<1>3. StatusBar = [n \in Nodes |-> [k \in Frames |-> StatusBar[n][k]]]
  BY DEF StatusBar
<1>. QED
  BY <1>2, <1>3 DEF Contract!Init, Contract!Frames, Frames

(* The archive's buffers keep the archive's promise: each frame is held, and *)
(* then stored exactly once or dropped, oldest first.                       *)
THEOREM ArchiveKeepsContract == Spec => KeepsContract
<1>1. Init => Contract!Init
  BY ContractInit
<1>2. IInv /\ IInv' /\ [Next]_vars => [Contract!Next]_StatusBar
  BY ContractStep
<1>. QED
  BY <1>1, <1>2, InvHolds, PTL DEF Spec, KeepsContract, Contract!Spec
=============================================================================
