----------------------------- MODULE SolverPool -----------------------------
(***************************************************************************)
(* The multinode solver's worker threads and the process pool they call.   *)
(*                                                                         *)
(* A generation of threads drains state.solver_queue.  Each solve is a     *)
(* call on a process pool, with a timeout; a thread that sees its call     *)
(* time out, or the pool broken, shuts the pool down, makes another under  *)
(* _solver_pool_lock and computes inline.  A shutdown joins the threads to *)
(* a deadline and detaches the pool; a later lifespan starts a new         *)
(* generation only when no thread of the old one is left.                  *)
(*                                                                         *)
(* Pools are numbered in the order they are made.  What a solve computes,  *)
(* how many calls one item takes and the known-lane pass, which calls the  *)
(* pool in the same way between items, are one thing here: a thread at     *)
(* work makes calls until it is done.                                      *)
(***************************************************************************)
EXTENDS Integers, FiniteSets

CONSTANTS
  Workers,    \* the threads of one generation
  Stuck,      \* those whose inline solve may never return
  QueueSize,  \* capacity of state.solver_queue
  Nil,        \* no pool, no thread
  MaxItems,   \* bound: items offered to the queue
  MaxCalls,   \* bound: pool calls
  MaxPools,   \* bound: pools made
  MaxBoots    \* bound: lifespans of the process

ASSUME PoolAssumption ==
  /\ Stuck \subseteq Workers
  /\ QueueSize \in Nat \ {0} /\ MaxItems \in Nat /\ MaxCalls \in Nat
  /\ MaxPools \in Nat /\ MaxBoots \in Nat
  /\ Nil \notin Nat /\ Nil \notin (1..MaxBoots) \X Workers

VARIABLES
  current,   \* _solver_pool
  lock,      \* who holds _solver_pool_lock across steps
  detached,  \* the pool stop_pool took and has not shut down yet
  made,      \* number of pools made
  shut,      \* pools on which shutdown was called
  broken,    \* pools that lost a child
  pc,        \* where each thread stands
  mine,      \* the pool a thread read for its call
  fut,       \* the future of its call
  stop,      \* _solver_stop
  handles,   \* _solver_workers
  phase,     \* the lifespan: "down", "up", "joining", "detaching", "shutting"
  boots, queued, items, calls

poolVars   == <<current, lock, detached, made, shut, broken>>
threadVars == <<pc, mine, fut>>
lifeVars   == <<stop, handles, phase, boots>>
queueVars  == <<queued, items, calls>>
vars == <<poolVars, threadVars, lifeVars, queueVars>>

Threads == (1..MaxBoots) \X Workers

Pools == 1..made

Goto(t, l) == pc' = [pc EXCEPT ![t] = l]

Alive == {t \in Threads : pc[t] \notin {"off", "gone"}}

-----------------------------------------------------------------------------
(* The queue *)

(* A producer's put_nowait; a full queue drops the item.                    *)
Offer ==
  /\ items < MaxItems /\ items' = items + 1
  /\ queued' = IF queued < QueueSize THEN queued + 1 ELSE queued

Produce == Offer /\ UNCHANGED <<poolVars, threadVars, lifeVars, calls>>

-----------------------------------------------------------------------------
(* A worker: _run_solver_worker *)

CheckStop(t) ==
  /\ pc[t] = "checking"
  /\ Goto(t, IF stop THEN "gone" ELSE "getting")
  /\ UNCHANGED <<poolVars, mine, fut, lifeVars, queueVars>>

(* q.get, which a stop does not interrupt.                                  *)
Take(t) ==
  /\ pc[t] = "getting" /\ queued > 0
  /\ queued' = queued - 1
  /\ Goto(t, "working")
  /\ UNCHANGED <<poolVars, mine, fut, lifeVars, items, calls>>

GetTimesOut(t) ==
  /\ pc[t] = "getting" /\ queued = 0
  /\ Goto(t, "checking")
  /\ UNCHANGED <<poolVars, mine, fut, lifeVars, queueVars>>

(* The item is solved, rejected, stale, or an exception ended it.           *)
ItemDone(t) ==
  /\ pc[t] = "working"
  /\ Goto(t, "checking")
  /\ UNCHANGED <<poolVars, mine, fut, lifeVars, queueVars>>

-----------------------------------------------------------------------------
(* A call: _pool_call *)

(* The pool is read without the lock.                                       *)
ReadPool(t) ==
  /\ pc[t] = "working" /\ calls < MaxCalls
  /\ calls' = calls + 1
  /\ mine' = [mine EXCEPT ![t] = current]
  /\ Goto(t, IF current = Nil THEN "inline" ELSE "submitting")
  /\ UNCHANGED <<poolVars, fut, lifeVars, queued, items>>

(* An executor that broke says so; one that was shut down raises            *)
(* RuntimeError, which nothing in the call handles: the item is lost.       *)
Submit(t) ==
  /\ pc[t] = "submitting"
  /\ \/ mine[t] \in broken /\ Goto(t, "replacing") /\ UNCHANGED fut
     \/ mine[t] \in shut \ broken /\ Goto(t, "checking") /\ UNCHANGED fut
     \/ /\ mine[t] \notin shut \cup broken
        /\ Goto(t, "waiting")
        /\ fut' = [fut EXCEPT ![t] = "pending"]
  /\ UNCHANGED <<poolVars, mine, lifeVars, queueVars>>

(* The future is resolved: a value or the callee's exception, the pool      *)
(* broken, or CancelledError, which ends the item.                          *)
Resolved(t) ==
  /\ pc[t] = "waiting"
  /\ \/ fut[t] = "done"      /\ Goto(t, "working")
     \/ fut[t] = "broken"    /\ Goto(t, "replacing")
     \/ fut[t] = "cancelled" /\ Goto(t, "checking")
  /\ fut' = [fut EXCEPT ![t] = "none"]
  /\ UNCHANGED <<poolVars, mine, lifeVars, queueVars>>

\* Mutation: future.result without a timeout.
WaitForever(t) == FALSE /\ UNCHANGED vars

CallTimesOut(t) ==
  /\ pc[t] = "waiting" /\ fut[t] = "pending"
  /\ fut' = [fut EXCEPT ![t] = "none"]
  /\ Goto(t, "replacing")
  /\ UNCHANGED <<poolVars, mine, lifeVars, queueVars>>

(* The direct call: its result, or its exception, goes back to the item.    *)
InlineEnds(t) ==
  /\ pc[t] = "inline"
  /\ Goto(t, "working")
  /\ UNCHANGED <<poolVars, mine, fut, lifeVars, queueVars>>

-----------------------------------------------------------------------------
(* Recovery: _replace_solver_pool *)

\* Mutation: the pool is replaced whoever replaced it before.
MovedNever(t) == FALSE

MovedOn(t) == current # mine[t]

LeaveAlone(t) ==
  /\ pc[t] = "replacing" /\ lock = Nil
  /\ MovedOn(t)
  /\ Goto(t, "inline")
  /\ UNCHANGED <<poolVars, mine, fut, lifeVars, queueVars>>

\* Mutation: queued calls of the other threads are cancelled with the pool.
TearDownCancels(t) ==
  /\ pc[t] = "replacing" /\ lock = Nil
  /\ ~MovedOn(t)
  /\ lock' = t
  /\ shut' = shut \cup {mine[t]}
  /\ Goto(t, "recreating")
  /\ fut' = [u \in Threads |-> IF fut[u] = "pending" THEN "cancelled" ELSE fut[u]]
  /\ UNCHANGED <<current, detached, made, broken, mine, lifeVars, queueVars>>

\* Mutation: the failed pool is let go without a shutdown.
TearDownForgets(t) ==
  /\ pc[t] = "replacing" /\ lock = Nil
  /\ ~MovedOn(t)
  /\ lock' = t
  /\ Goto(t, "recreating")
  /\ UNCHANGED <<current, detached, made, shut, broken, mine, fut, lifeVars, queueVars>>

\* Mutation: the failed pool is shut down before the lock is taken.
TearDownFirst(t) ==
  /\ pc[t] = "replacing" /\ lock = Nil
  /\ ~MovedOn(t)
  /\ shut' = shut \cup {mine[t]}
  /\ Goto(t, "recreating")
  /\ UNCHANGED <<current, lock, detached, made, broken, mine, fut, lifeVars, queueVars>>

(* pool.shutdown(wait=False): the pool takes no more calls and those it has *)
(* go on.  The lock is held until the new pool is there.                    *)
TearDown(t) ==
  /\ pc[t] = "replacing" /\ lock = Nil
  /\ ~MovedOn(t)
  /\ lock' = t
  /\ shut' = shut \cup {mine[t]}
  /\ Goto(t, "recreating")
  /\ UNCHANGED <<current, detached, made, broken, mine, fut, lifeVars, queueVars>>

\* Mutation: a pool that cannot be made leaves the old one in place.
MakeOrKeep ==
  \/ made < MaxPools /\ made' = made + 1 /\ current' = made + 1
  \/ UNCHANGED <<made, current>>

(* _make_solver_pool may fail, and then there is none.                      *)
Make ==
  \/ made < MaxPools /\ made' = made + 1 /\ current' = made + 1
  \/ current' = Nil /\ UNCHANGED made

Recreate(t) ==
  /\ pc[t] = "recreating"
  /\ Make
  /\ lock' = Nil
  /\ Goto(t, "inline")
  /\ UNCHANGED <<detached, shut, broken, mine, fut, lifeVars, queueVars>>

-----------------------------------------------------------------------------
(* The children of a pool *)

CallReturns(t) ==
  /\ pc[t] = "waiting" /\ fut[t] = "pending"
  /\ fut' = [fut EXCEPT ![t] = "done"]
  /\ UNCHANGED <<poolVars, pc, mine, lifeVars, queueVars>>

(* A child dies: every call of its pool that is not resolved sees it.  A    *)
(* pool that was shut down still has its children while one hangs.          *)
Break(p) ==
  /\ p \in Pools \ broken
  /\ broken' = broken \cup {p}
  /\ fut' = [t \in Threads |-> IF mine[t] = p /\ fut[t] = "pending" THEN "broken" ELSE fut[t]]
  /\ UNCHANGED <<current, lock, detached, made, shut, pc, mine, lifeVars, queueVars>>

-----------------------------------------------------------------------------
(* The lifespan: start_solver_workers and stop_solver_workers *)

(* lifespan's check, start_solver_workers' own, start_pool, the threads.    *)
Start ==
  /\ phase = "down" /\ boots < MaxBoots
  /\ handles \cap Alive = {}
  /\ boots' = boots + 1 /\ phase' = "up" /\ stop' = FALSE
  /\ Make
  /\ handles' = {boots + 1} \X Workers
  /\ pc' = [t \in Threads |-> IF t[1] = boots + 1 THEN "checking" ELSE pc[t]]
  /\ UNCHANGED <<lock, detached, shut, broken, mine, fut, queueVars>>

(* A child dies in the prewarm: its submit raises, no thread is started,    *)
(* and the lifespan goes to its finally.                                    *)
StartFails ==
  /\ phase = "down" /\ boots < MaxBoots
  /\ handles \cap Alive = {}
  /\ made < MaxPools
  /\ boots' = boots + 1 /\ phase' = "joining" /\ stop' = TRUE
  /\ made' = made + 1 /\ current' = made + 1 /\ broken' = broken \cup {made + 1}
  /\ handles' = {}
  /\ UNCHANGED <<lock, detached, shut, threadVars, queueVars>>

Stop ==
  /\ phase = "up"
  /\ phase' = "joining" /\ stop' = TRUE
  /\ UNCHANGED <<poolVars, threadVars, handles, boots, queueVars>>

\* Mutation: the handles of threads still running are dropped.
ForgetHandles == {}

KeepHandles == handles \cap Alive

\* Mutation: the threads are joined without a deadline.
JoinAll == phase = "joining" /\ handles \cap Alive = {}

(* Every thread joined, or the shared deadline passed.                      *)
JoinEnds == phase = "joining"

Join ==
  /\ JoinEnds
  /\ handles' = KeepHandles
  /\ phase' = "detaching"
  /\ UNCHANGED <<poolVars, threadVars, stop, boots, queueVars>>

\* Mutation: the pool is detached without the lock.
DetachReady == phase = "detaching"

DetachLocked == phase = "detaching" /\ lock = Nil

(* stop_pool: the swap under the lock, then the shutdown of what it took.   *)
Detach ==
  /\ DetachLocked
  /\ detached' = current /\ current' = Nil
  /\ phase' = "shutting"
  /\ UNCHANGED <<lock, made, shut, broken, threadVars, stop, handles, boots, queueVars>>

(* Calls that no child has taken yet are cancelled.                         *)
ShutDown ==
  /\ phase = "shutting"
  /\ shut' = shut \cup ({detached} \ {Nil})
  /\ \E C \in SUBSET {t \in Threads : fut[t] = "pending" /\ mine[t] = detached} :
       fut' = [t \in Threads |-> IF t \in C THEN "cancelled" ELSE fut[t]]
  /\ detached' = Nil
  /\ phase' = "down"
  /\ UNCHANGED <<current, lock, made, broken, pc, mine, stop, handles, boots, queueVars>>

-----------------------------------------------------------------------------
Init ==
  /\ current = Nil /\ lock = Nil /\ detached = Nil
  /\ made = 0 /\ shut = {} /\ broken = {}
  /\ pc = [t \in Threads |-> "off"] /\ mine = [t \in Threads |-> Nil]
  /\ fut = [t \in Threads |-> "none"]
  /\ stop = FALSE /\ handles = {} /\ phase = "down"
  /\ boots = 0 /\ queued = 0 /\ items = 0 /\ calls = 0

Run(t) ==
  \/ CheckStop(t) \/ Take(t) \/ GetTimesOut(t) \/ ItemDone(t)
  \/ ReadPool(t) \/ Submit(t) \/ Resolved(t) \/ CallTimesOut(t)
  \/ LeaveAlone(t) \/ TearDown(t) \/ Recreate(t)

Life == Join \/ Detach \/ ShutDown

Next ==
  \/ Produce
  \/ \E t \in Threads : Run(t) \/ InlineEnds(t) \/ CallReturns(t)
  \/ \E p \in Pools : Break(p)
  \/ Start \/ StartFails \/ Stop \/ Life

Spec == Init /\ [][Next]_vars

(* Threads are scheduled, a timed wait ends, an inline solve ends except in *)
(* the stuck threads, and the event loop runs the rest of a shutdown.  A    *)
(* child owes no answer, and nobody has to stop or to start the server.     *)
Fairness ==
  /\ \A t \in Threads : WF_vars(Run(t)) /\ (t[2] \notin Stuck => WF_vars(InlineEnds(t)))
  /\ WF_vars(Life)

FairSpec == Spec /\ Fairness

-----------------------------------------------------------------------------
TypeOK ==
  /\ made \in 0..MaxPools
  /\ current \in Pools \cup {Nil} /\ detached \in Pools \cup {Nil}
  /\ lock \in Threads \cup {Nil}
  /\ shut \subseteq Pools /\ broken \subseteq Pools
  /\ pc \in [Threads -> {"off", "checking", "getting", "working", "submitting", "waiting",
                         "replacing", "recreating", "inline", "gone"}]
  /\ mine \in [Threads -> Pools \cup {Nil}]
  /\ fut \in [Threads -> {"none", "pending", "done", "broken", "cancelled"}]
  /\ stop \in BOOLEAN /\ handles \subseteq Threads
  /\ phase \in {"down", "up", "joining", "detaching", "shutting"}
  /\ boots \in 0..MaxBoots /\ queued \in 0..QueueSize
  /\ items \in 0..MaxItems /\ calls \in 0..MaxCalls

(* However many threads see the same failure, each executor that replaces   *)
(* another is the only one still taking calls: none is left behind open,    *)
(* with nobody to shut it down.                                             *)
OnePoolUp == Pools \ shut \subseteq {current, detached}

(* Outside a replacement the pool that threads are given still takes calls: *)
(* a pool that could not be recreated leaves none, and never a closed one.  *)
CurrentPoolOpen == (lock = Nil /\ current # Nil) => current \notin shut

(* A late failure of a pool cannot replace it after the shutdown: between   *)
(* lifespans there is no pool, and every pool ever made was shut down.      *)
NothingAfterStop == phase = "down" => current = Nil /\ Pools \subseteq shut

(* Two generations of workers never drain the queue together, although an   *)
(* inline solve can outlive its lifespan.                                   *)
OneGeneration == \A t, u \in Alive : t[1] = u[1]

(* A call is cancelled under a thread only when the lifespan is over:       *)
(* replacing a pool leaves the calls of the other threads alone.            *)
CancelledByStop == \A t \in Threads : fut[t] = "cancelled" => stop

Contract == INSTANCE PoolContract WITH open <- Pools \ shut, serving <- phase # "down"

(* Recovery by any number of threads, the shutdown and the restarts, taken  *)
(* together, keep one slot for an executor (PoolContract).                  *)
KeepsContract == Contract!Spec

(* _pool_call means to "retry inline rather than dropping the item"         *)
(* (solver_pool.py:127-128), yet a submit to a closed executor raises what  *)
(* nothing catches.  What holds: an item is lost that way only in the       *)
(* middle of another thread's recovery of the pool it read, or after that   *)
(* pool was replaced or detached; never because the pool in service, whoever *)
(* made it or failed to, has been left closed.                              *)
DropIsAnothersRecovery ==
  [][\A t \in Threads : (pc[t] = "submitting" /\ pc'[t] = "checking") =>
       \/ mine[t] # current
       \/ \E u \in Threads : u # t /\ lock = u /\ pc[u] = "recreating"]_vars

(* Children that never answer cannot stop the lane: a thread at work comes  *)
(* back for its next item, or ends, whatever its pool and the lock do.      *)
WorkEnds ==
  \A t \in Threads : t[2] \notin Stuck => (pc[t] = "working" ~> pc[t] \in {"getting", "gone"})

(* A thread that never returns cannot stop the shutdown.                    *)
StopEnds == phase = "joining" ~> phase = "down"
=============================================================================
