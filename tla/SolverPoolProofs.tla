-------------------------- MODULE SolverPoolProofs --------------------------
(***************************************************************************)
(* What holds of the solver's threads and pools for every number of        *)
(* workers, pools, calls and lifespans.                                    *)
(*                                                                         *)
(* Two inductive invariants carry the theorems.  PoolInv says who may      *)
(* change _solver_pool: only the holder of the lock, who holds it on the   *)
(* pool it has just shut down, and a shutdown, which leaves none.          *)
(* ThreadInv says that every living thread has a handle and is of the      *)
(* last generation, and that a future belongs to a waiting thread.         *)
(***************************************************************************)
EXTENDS SolverPool, TLAPS

LEMMA ThreadsAreNotNil == Nil \notin Threads
  BY PoolAssumption DEF Threads

LEMMA Bounds ==
  /\ QueueSize \in Nat \ {0} /\ MaxItems \in Nat /\ MaxCalls \in Nat
  /\ MaxPools \in Nat /\ MaxBoots \in Nat
  BY PoolAssumption

\* A thread with a call under way has a pool.
CallHasPool ==
  \A t \in Threads :
    pc[t] \in {"submitting", "waiting", "replacing", "recreating"} => mine[t] # Nil

Typed == TypeOK /\ CallHasPool

LEMMA TypeHolds == Spec => []Typed
<1>1. Init => Typed
  <2>. SUFFICES ASSUME Init
                PROVE  Typed
    OBVIOUS
  <2>1. CallHasPool
    BY DEF Init, CallHasPool
  <2>2. /\ pc \in [Threads -> {"off", "checking", "getting", "working", "submitting", "waiting",
                              "replacing", "recreating", "inline", "gone"}]
        /\ mine \in [Threads -> Pools \cup {Nil}]
        /\ fut \in [Threads -> {"none", "pending", "done", "broken", "cancelled"}]
    BY DEF Init
  <2>3. made \in 0..MaxPools /\ boots \in 0..MaxBoots /\ queued \in 0..QueueSize
    BY Bounds DEF Init
  <2>4. items \in 0..MaxItems /\ calls \in 0..MaxCalls
    BY Bounds DEF Init
  <2>. QED
    BY <2>1, <2>2, <2>3, <2>4 DEF Init, TypeOK, Typed
<1>2. Typed /\ [Next]_vars => Typed'
  <2>. SUFFICES ASSUME Typed, [Next]_vars
                PROVE  Typed'
    OBVIOUS
  <2>. USE Bounds DEF Typed, TypeOK, CallHasPool, Pools, poolVars, threadVars, lifeVars, queueVars, Goto
  <2>1. CASE Produce
    BY <2>1 DEF Produce, Offer
  <2>2. ASSUME NEW t \in Threads, CheckStop(t) \/ GetTimesOut(t) \/ ItemDone(t)
        PROVE  Typed'
    BY <2>2 DEF CheckStop, GetTimesOut, ItemDone
  <2>3. ASSUME NEW t \in Threads, Take(t) \/ ReadPool(t)
        PROVE  Typed'
    <3>1. CASE Take(t)
      BY <3>1 DEF Take
    <3>2. CASE ReadPool(t)
      BY <3>2 DEF ReadPool
    <3>. QED
      BY <2>3, <3>1, <3>2
  <2>4. ASSUME NEW t \in Threads, Submit(t)
        PROVE  Typed'
    BY <2>4 DEF Submit
  <2>5. ASSUME NEW t \in Threads, Resolved(t) \/ CallTimesOut(t) \/ LeaveAlone(t) \/ InlineEnds(t)
        PROVE  Typed'
    BY <2>5 DEF Resolved, CallTimesOut, LeaveAlone, InlineEnds
  <2>6. ASSUME NEW t \in Threads, TearDown(t)
        PROVE  Typed'
    BY <2>6 DEF TearDown
  <2>7. ASSUME NEW t \in Threads, Recreate(t)
        PROVE  Typed'
    BY <2>7 DEF Recreate, Make
  <2>8. ASSUME NEW t \in Threads, CallReturns(t)
        PROVE  Typed'
    BY <2>8 DEF CallReturns
  <2>9. ASSUME NEW p \in Pools, Break(p)
        PROVE  Typed'
    BY <2>9 DEF Break
  <2>10. CASE Start
    <3>1. handles' \subseteq Threads /\ boots' \in 0..MaxBoots
      BY <2>10 DEF Start, Threads
    <3>2. /\ pc' \in [Threads -> {"off", "checking", "getting", "working", "submitting", "waiting",
                                 "replacing", "recreating", "inline", "gone"}]
          /\ \A t \in Threads : pc'[t] \in {pc[t], "checking"}
      BY <2>10 DEF Start
    <3>3. /\ made' \in 0..MaxPools /\ current' \in 1..made' \cup {Nil}
          /\ made' \in {made, made + 1}
      BY <2>10 DEF Start, Make
    <3>4. CallHasPool'
      BY <2>10, <3>2 DEF Start
    <3>5. UNCHANGED <<lock, detached, shut, broken, mine, fut, queued, items, calls>>
      BY <2>10 DEF Start
    <3>6. stop' \in BOOLEAN /\ phase' = "up"
      BY <2>10 DEF Start
    <3>. HIDE DEF CallHasPool
    <3>7. /\ detached' \in 1..made' \cup {Nil} /\ shut' \subseteq 1..made' /\ broken' \subseteq 1..made'
          /\ mine' \in [Threads -> 1..made' \cup {Nil}]
      BY <3>3, <3>5
    <3>. QED
      BY <3>1, <3>2, <3>3, <3>4, <3>5, <3>6, <3>7
  <2>11. CASE StartFails
    BY <2>11 DEF StartFails
  <2>12. CASE Stop \/ Life
    BY <2>12 DEF Stop, Life, Join, JoinEnds, KeepHandles, Detach, DetachLocked, ShutDown
  <2>13. CASE UNCHANGED vars
    BY <2>13 DEF vars
  <2>. QED
    BY <2>1, <2>2, <2>3, <2>4, <2>5, <2>6, <2>7, <2>8, <2>9, <2>10, <2>11, <2>12, <2>13
       DEF Next, Run
<1>. QED
  BY <1>1, <1>2, PTL DEF Spec

(* The pools, the threads, their futures and the lifespan keep their types. *)
THEOREM PoolTyped == Spec => []TypeOK
  BY TypeHolds, PTL DEF Typed

-----------------------------------------------------------------------------
\* The lock is held across steps only by a thread that recreates the pool it
\* has shut down, which is still the current one.
LockHeld ==
  /\ \A t \in Threads : pc[t] = "recreating" <=> lock = t
  /\ \A t \in Threads : pc[t] = "recreating" => current = mine[t] /\ current \in shut

\* A shutdown that is past its swap leaves no pool.
Swapped ==
  /\ detached # Nil => phase = "shutting"
  /\ phase \in {"shutting", "down"} => current = Nil

PoolInv == LockHeld /\ Swapped /\ OnePoolUp /\ CurrentPoolOpen

LEMMA PoolInvHolds == Spec => []PoolInv
<1>1. Init => PoolInv
  BY ThreadsAreNotNil DEF Init, PoolInv, LockHeld, Swapped, OnePoolUp, CurrentPoolOpen, Pools
<1>2. Typed /\ PoolInv /\ [Next]_vars => PoolInv'
  <2>. SUFFICES ASSUME Typed, PoolInv, [Next]_vars
                PROVE  PoolInv'
    OBVIOUS
  <2>. USE PoolAssumption, ThreadsAreNotNil
       DEF Typed, TypeOK, PoolInv, LockHeld, CallHasPool, Swapped, OnePoolUp, CurrentPoolOpen, Pools,
           poolVars, threadVars, lifeVars, queueVars, Goto
  <2>1. CASE Produce
    BY <2>1 DEF Produce
  <2>2. ASSUME NEW t \in Threads, CheckStop(t) \/ Take(t) \/ GetTimesOut(t) \/ ItemDone(t)
        PROVE  PoolInv'
    BY <2>2 DEF CheckStop, Take, GetTimesOut, ItemDone
  <2>3. ASSUME NEW t \in Threads, ReadPool(t)
        PROVE  PoolInv'
    BY <2>3 DEF ReadPool
  <2>4. ASSUME NEW t \in Threads, Submit(t)
        PROVE  PoolInv'
    BY <2>4 DEF Submit
  <2>5. ASSUME NEW t \in Threads, Resolved(t) \/ CallTimesOut(t) \/ LeaveAlone(t) \/ InlineEnds(t)
        PROVE  PoolInv'
    BY <2>5 DEF Resolved, CallTimesOut, LeaveAlone, InlineEnds
  <2>6. ASSUME NEW t \in Threads, TearDown(t)
        PROVE  PoolInv'
    BY <2>6 DEF TearDown, MovedOn
  <2>7. ASSUME NEW t \in Threads, Recreate(t)
        PROVE  PoolInv'
    BY <2>7 DEF Recreate, Make
  <2>8. CASE (\E t \in Threads : CallReturns(t)) \/ (\E p \in Pools : Break(p))
    BY <2>8 DEF CallReturns, Break
  <2>9. CASE Start
    <3>1. lock = Nil
      BY <2>9 DEF Start
    <3>. QED
      BY <2>9, <3>1 DEF Start, Make
  <2>10. CASE StartFails
    BY <2>10 DEF StartFails
  <2>11. CASE Stop \/ Join
    BY <2>11 DEF Stop, Join, JoinEnds
  <2>12. CASE Detach
    BY <2>12 DEF Detach, DetachLocked
  <2>13. CASE ShutDown
    BY <2>13 DEF ShutDown
  <2>14. CASE UNCHANGED vars
    BY <2>14 DEF vars
  <2>. QED
    BY <2>1, <2>2, <2>3, <2>4, <2>5, <2>6, <2>7, <2>8, <2>9, <2>10, <2>11, <2>12, <2>13, <2>14
       DEF Next, Run, Life
<1>. QED
  BY <1>1, <1>2, TypeHolds, PTL DEF Spec

(* Each pool that replaces another is the only one left open.               *)
THEOREM PoolsDoNotLeak == Spec => []OnePoolUp
  BY PoolInvHolds, PTL DEF PoolInv

(* Outside a replacement the current pool takes calls.                      *)
THEOREM CurrentIsOpen == Spec => []CurrentPoolOpen
  BY PoolInvHolds, PTL DEF PoolInv

(* Between lifespans there is no pool, and every pool was shut down.        *)
THEOREM NothingIsLeft == Spec => []NothingAfterStop
<1>1. PoolInv => NothingAfterStop
  BY PoolAssumption DEF PoolInv, Swapped, OnePoolUp, NothingAfterStop, Pools
<1>. QED
  BY <1>1, PoolInvHolds, PTL

-----------------------------------------------------------------------------
\* Every living thread has a handle, and is of the last generation.
HandlesKept == \A t \in Alive : t \in handles /\ t[1] = boots

FuturesWaitedFor == \A t \in Threads : fut[t] # "none" => pc[t] = "waiting"

StopSet == phase \in {"joining", "detaching", "shutting"} => stop

ThreadInv == HandlesKept /\ FuturesWaitedFor /\ StopSet /\ CancelledByStop

LEMMA ThreadInvHolds == Spec => []ThreadInv
<1>1. Init => ThreadInv
  BY DEF Init, ThreadInv, HandlesKept, FuturesWaitedFor, StopSet, CancelledByStop, Alive
<1>2. Typed /\ ThreadInv /\ [Next]_vars => ThreadInv'
  <2>. SUFFICES ASSUME Typed, ThreadInv, [Next]_vars
                PROVE  ThreadInv'
    OBVIOUS
  <2>. USE DEF Typed, TypeOK, ThreadInv, HandlesKept, FuturesWaitedFor, StopSet, CancelledByStop, Alive,
               poolVars, threadVars, lifeVars, queueVars, Goto
  <2>1. CASE Produce
    BY <2>1 DEF Produce
  <2>2. ASSUME NEW t \in Threads, CheckStop(t) \/ Take(t) \/ GetTimesOut(t) \/ ItemDone(t)
        PROVE  ThreadInv'
    BY <2>2 DEF CheckStop, Take, GetTimesOut, ItemDone
  <2>3. ASSUME NEW t \in Threads, ReadPool(t) \/ Submit(t) \/ Resolved(t) \/ CallTimesOut(t)
        PROVE  ThreadInv'
    BY <2>3 DEF ReadPool, Submit, Resolved, CallTimesOut
  <2>4. ASSUME NEW t \in Threads, LeaveAlone(t) \/ TearDown(t) \/ Recreate(t) \/ InlineEnds(t)
        PROVE  ThreadInv'
    BY <2>4 DEF LeaveAlone, TearDown, Recreate, InlineEnds
  <2>5. CASE (\E t \in Threads : CallReturns(t)) \/ (\E p \in Pools : Break(p))
    BY <2>5 DEF CallReturns, Break
  <2>6. CASE Start
    <3>1. Alive = {}
      BY <2>6 DEF Start
    <3>2. \A t \in Threads : fut'[t] = "none"
      BY <2>6, <3>1 DEF Start
    <3>3. HandlesKept'
      BY <2>6, <3>1 DEF Start, Threads
    <3>. QED
      BY <2>6, <3>2, <3>3 DEF Start
  <2>7. CASE StartFails
    BY <2>7 DEF StartFails
  <2>8. CASE Stop \/ Join \/ Detach
    BY <2>8 DEF Stop, Join, JoinEnds, KeepHandles, Detach, DetachLocked
  <2>9. CASE ShutDown
    BY <2>9 DEF ShutDown
  <2>10. CASE UNCHANGED vars
    BY <2>10 DEF vars
  <2>. QED
    BY <2>1, <2>2, <2>3, <2>4, <2>5, <2>6, <2>7, <2>8, <2>9, <2>10 DEF Next, Run, Life
<1>. QED
  BY <1>1, <1>2, TypeHolds, PTL DEF Spec

(* Two generations of workers never live together.                          *)
THEOREM GenerationsDoNotOverlap == Spec => []OneGeneration
<1>1. ThreadInv => OneGeneration
  BY DEF ThreadInv, HandlesKept, OneGeneration
<1>. QED
  BY <1>1, ThreadInvHolds, PTL

(* A call is cancelled under a thread only by the end of the lifespan.      *)
THEOREM OnlyStopCancels == Spec => []CancelledByStop
  BY ThreadInvHolds, PTL DEF ThreadInv

-----------------------------------------------------------------------------
(* The refinement of PoolContract.  A pool is open only as the current one, *)
(* or in the hands of the shutdown that detached it.                        *)

OpenPools == Pools \ shut

(* A thread that holds the lock over a replacement has closed the only pool *)
(* there was; a shutdown that detached one left none to replace.            *)
LEMMA OpenIs ==
  ASSUME Typed, PoolInv
  PROVE  /\ lock # Nil => OpenPools = {} /\ phase \notin {"down", "shutting"}
         /\ current # Nil => detached = Nil /\ OpenPools \subseteq {current}
         /\ current = Nil => OpenPools \subseteq {detached}
         /\ phase = "down" => OpenPools = {} /\ current = Nil
<1>. USE PoolAssumption DEF Typed, TypeOK, PoolInv, OpenPools, Pools
<1>1. current # Nil => detached = Nil /\ OpenPools \subseteq {current}
  BY DEF Swapped, OnePoolUp
<1>2. current = Nil => OpenPools \subseteq {detached}
  BY DEF OnePoolUp
<1>3. phase = "down" => OpenPools = {} /\ current = Nil
  BY DEF Swapped, OnePoolUp
<1>4. ASSUME lock # Nil
      PROVE  OpenPools = {} /\ phase \notin {"down", "shutting"}
  <2>1. lock \in Threads /\ pc[lock] = "recreating"
    BY <1>4 DEF LockHeld
  <2>2. current = mine[lock] /\ current \in shut /\ current # Nil
    BY <2>1 DEF LockHeld, CallHasPool
  <2>. QED
    BY <1>1, <2>2 DEF Swapped
<1>. QED
  BY <1>1, <1>2, <1>3, <1>4

(* Recovery closes the pool it found ...                                    *)
LEMMA TearDownCloses ==
  ASSUME Typed, PoolInv, NEW t \in Threads, TearDown(t)
  PROVE  Contract!Close
<1>1. /\ lock = Nil /\ current = mine[t] /\ mine[t] # Nil
      /\ shut' = shut \cup {current} /\ UNCHANGED <<made, phase>>
  BY DEF TearDown, MovedOn, Typed, CallHasPool, lifeVars
<1>2. OpenPools = {current} /\ phase # "down"
  BY <1>1, OpenIs DEF PoolInv, CurrentPoolOpen, OpenPools, Pools, Typed, TypeOK
<1>3. OpenPools' = {}
  BY <1>1, <1>2 DEF OpenPools, Pools
<1>. QED
  BY <1>1, <1>2, <1>3 DEF Contract!Close, OpenPools

(* ... and then makes another, if it can.                                   *)
LEMMA MakeOpens ==
  ASSUME Typed, OpenPools = {}, Make, UNCHANGED shut
  PROVE  Contract!Open \/ UNCHANGED <<OpenPools, made>>
<1>1. CASE made' = made + 1
  <2>1. made \in Nat
    BY Bounds DEF Typed, TypeOK
  <2>2. Pools' = Pools \cup {made + 1} /\ made + 1 \notin Pools
    BY <1>1, <2>1 DEF Pools
  <2>3. OpenPools' = {made + 1}
    BY <2>2 DEF OpenPools, Typed, TypeOK
  <2>. QED
    BY <1>1, <2>3 DEF Contract!Open, OpenPools
<1>2. CASE UNCHANGED made
  BY <1>2 DEF OpenPools, Pools
<1>. QED
  BY <1>1, <1>2 DEF Make

LEMMA RecreateRenews ==
  ASSUME Typed, PoolInv, NEW t \in Threads, Recreate(t)
  PROVE  Contract!Renew \/ UNCHANGED <<OpenPools, made, phase>>
<1>1. lock = t /\ UNCHANGED <<shut, phase>> /\ Make
  BY DEF Recreate, PoolInv, LockHeld, lifeVars
<1>2. OpenPools = {} /\ phase # "down"
  BY <1>1, OpenIs, ThreadsAreNotNil
<1>3. Contract!Open \/ UNCHANGED <<OpenPools, made>>
  BY <1>1, <1>2, MakeOpens
<1>. QED
  BY <1>1, <1>2, <1>3 DEF Contract!Renew

(* A lifespan begins with no pool left of the one before.                   *)
LEMMA StartBoots ==
  ASSUME Typed, PoolInv, Start \/ StartFails
  PROVE  Contract!Boot
<1>1. phase = "down" /\ phase' # "down" /\ OpenPools = {} /\ current = Nil
  BY OpenIs DEF Start, StartFails
<1>2. Make /\ UNCHANGED shut
  BY DEF Start, StartFails, Make
<1>3. Contract!Open \/ UNCHANGED <<OpenPools, made>>
  BY <1>1, <1>2, MakeOpens
<1>. QED
  BY <1>1, <1>3 DEF Contract!Boot, OpenPools

(* A shutdown closes the pool it detached, the only one there was.          *)
LEMMA ShutDownEnds ==
  ASSUME Typed, PoolInv, ShutDown
  PROVE  Contract!End
<1>1. /\ phase = "shutting" /\ phase' = "down" /\ UNCHANGED made
      /\ shut' = shut \cup ({detached} \ {Nil})
  BY DEF ShutDown
<1>2. OpenPools \subseteq {detached}
  BY <1>1, OpenIs DEF PoolInv, Swapped
<1>3. OpenPools' = {}
  BY <1>1, <1>2, PoolAssumption DEF OpenPools, Pools, Typed, TypeOK
<1>. QED
  BY <1>1, <1>3 DEF Contract!End, OpenPools

(* Every step of the threads, the pools and the lifespan is a step of the   *)
(* contract or a stutter.                                                   *)
LEMMA ContractStep ==
  ASSUME Typed, PoolInv, [Next]_vars
  PROVE  [Contract!Next]_<<OpenPools, made, phase # "down">>
<1>. USE DEF poolVars, threadVars, lifeVars, queueVars, OpenPools, Pools
<1>1. ASSUME NEW t \in Threads, Run(t) \/ InlineEnds(t) \/ CallReturns(t)
      PROVE  Contract!Next \/ UNCHANGED <<OpenPools, made, phase>>
  BY <1>1, TearDownCloses, RecreateRenews
  DEF Contract!Next, Run, CheckStop, Take, GetTimesOut, ItemDone, ReadPool, Submit, Resolved,
      CallTimesOut, LeaveAlone, InlineEnds, CallReturns
<1>2. CASE Produce \/ (\E p \in Pools : Break(p)) \/ UNCHANGED vars
  BY <1>2 DEF Produce, Break, vars
<1>3. CASE Start \/ StartFails
  BY <1>3, StartBoots DEF Contract!Next
<1>4. CASE ShutDown
  BY <1>4, ShutDownEnds DEF Contract!Next
<1>5. CASE Stop \/ Join \/ Detach
  BY <1>5 DEF Stop, Join, JoinEnds, Detach, DetachLocked
<1>. QED
  BY <1>1, <1>2, <1>3, <1>4, <1>5 DEF Next, Life

(* For any number of threads and lifespans, the pools fill one slot: each   *)
(* is made after the last was closed, and a server that is down has none.   *)
THEOREM PoolsKeepContract == Spec => KeepsContract
<1>1. Init => Contract!Init
  BY DEF Init, Contract!Init, Pools
<1>2. Typed /\ PoolInv /\ [Next]_vars => [Contract!Next]_<<OpenPools, made, phase # "down">>
  BY ContractStep
<1>. QED
  BY <1>1, <1>2, TypeHolds, PoolInvHolds, PTL
  DEF Spec, KeepsContract, Contract!Spec, Contract!contractVars, OpenPools

-----------------------------------------------------------------------------
(* How an item is dropped *)

\* Only a closed pool sends a thread from its call back to the loop.
LEMMA SubmitDrops ==
  ASSUME Typed, ThreadInv, [Next]_vars, NEW t \in Threads,
         pc[t] = "submitting", pc'[t] = "checking"
  PROVE  mine[t] \in shut
<1>. USE DEF Goto, Typed, TypeOK, poolVars, threadVars, lifeVars, queueVars
<1>1. Submit(t)
  <2>1. ASSUME NEW u \in Threads, Run(u) \/ InlineEnds(u) \/ CallReturns(u)
        PROVE  Submit(t)
    BY <2>1 DEF Run, CheckStop, Take, GetTimesOut, ItemDone, ReadPool, Submit, Resolved,
       CallTimesOut, LeaveAlone, TearDown, Recreate, InlineEnds, CallReturns
  <2>2. ~(Produce \/ (\E p \in Pools : Break(p)) \/ StartFails \/ Stop \/ Life \/ UNCHANGED vars)
    BY DEF Produce, Break, StartFails, Stop, Life, Join, Detach, ShutDown, vars
  <2>3. ~Start
    <3>1. t \in Alive /\ t \in handles
      BY DEF Alive, ThreadInv, HandlesKept
    <3>. QED
      BY <3>1 DEF Start
  <2>. QED
    BY <2>1, <2>2, <2>3 DEF Next
<1>. QED
  BY <1>1 DEF Submit

(* For any threads, pools and lifespans, an item dropped by a closed        *)
(* executor is dropped in another thread's recovery of that very pool, or   *)
(* after its pool was replaced or detached (_pool_call).                    *)
THEOREM DropsComeFromRecovery == Spec => DropIsAnothersRecovery
<1>. DEFINE A == \A t \in Threads : (pc[t] = "submitting" /\ pc'[t] = "checking") =>
                    \/ mine[t] # current
                    \/ \E u \in Threads : u # t /\ lock = u /\ pc[u] = "recreating"
<1>1. Typed /\ PoolInv /\ ThreadInv /\ [Next]_vars => [A]_vars
  <2>. SUFFICES ASSUME Typed, PoolInv, ThreadInv, [Next]_vars, NEW t \in Threads,
                       pc[t] = "submitting", pc'[t] = "checking", mine[t] = current
                PROVE  \E u \in Threads : u # t /\ lock = u /\ pc[u] = "recreating"
    OBVIOUS
  <2>1. current \in shut /\ current # Nil
    BY SubmitDrops DEF Typed, CallHasPool
  <2>2. lock \in Threads /\ pc[lock] = "recreating"
    BY <2>1 DEF PoolInv, CurrentPoolOpen, LockHeld, Typed, TypeOK
  <2>. QED
    BY <2>2
<1>. QED
  BY <1>1, TypeHolds, PoolInvHolds, ThreadInvHolds, PTL DEF Spec, DropIsAnothersRecovery

=============================================================================
