---------------------------- MODULE NodeGeometry ----------------------------
(***************************************************************************)
(* Where one node's configuration lives, and how a change reaches it all.  *)
(*                                                                         *)
(* The fleet registry (connected_nodes) holds the configuration.  The      *)
(* analytics library, the associator and the node's cached pipeline each   *)
(* hold a copy: the libraries are told by jobs on one registration thread, *)
(* the pipeline is dropped and rebuilt by the node's next frame.  TCP      *)
(* connections, v1 requests and plain HTTP posts all write the registry    *)
(* from the event loop, a frame worker builds pipelines on a thread of its *)
(* own, and removals come from the loop and from a sweep thread.           *)
(***************************************************************************)
EXTENDS Integers, Sequences

CONSTANTS
  Conns,      \* TCP connections that introduce themselves as this node
  Requests,   \* v1 requests and poller steps in flight for this node
  Posts,      \* /api/radar/detections and /bulk posts in flight for this node
  Declared,   \* configurations as a node sends them
  Canon,      \* declared -> canonical_config of it
  Placed,     \* the canonical configurations with both ends placed
  Legacy,     \* the declared configuration of a plain post: no position
  Removals,   \* what may remove the node: "retire", "forget", "prune", "stale"
  Nil,        \* no value
  MaxChanges  \* bound: messages that carry a configuration

Configs == {Canon[d] : d \in Declared}

ASSUME GeometryAssumption ==
  /\ Conns \cap Requests = {} /\ Conns \cap Posts = {} /\ Requests \cap Posts = {}
  /\ DOMAIN Canon = Declared
  /\ Placed \subseteq Configs
  /\ Legacy \in Declared /\ Canon[Legacy] \notin Placed
  /\ Removals \subseteq {"retire", "forget", "prune", "stale"}
  /\ Nil \notin Configs /\ Nil \notin Declared
  /\ MaxChanges \in Nat

VARIABLES
  db,         \* the active row of node_configs, as declared
  status,     \* Node.status: "active" or "retired"; "forgetting" in let_go, "let_go" after
  entry,      \* config in connected_nodes, Nil when the node is not in it
  hash,       \* config_hash in connected_nodes, the declared configuration
  peer,       \* peer in connected_nodes
  pipeline,   \* state.node_pipelines: the configuration it was built from
  analytics,  \* the configuration node_analytics holds
  geometry,   \* the configuration node_associator holds
  jobs,       \* _registration_executor's queue: configuration and submitter
  step,       \* where the registration thread is in its first job
  pc, held,   \* handler -> where it stands, and the configuration it carries
  worker,     \* the configuration the worker is building from, or Nil
  retiring,   \* where the retirement in progress stands
  raced,      \* history: the registry changed during the build of the pipeline
  astray,     \* history: nothing told the libraries of the entry as it stands
  changes     \* configurations sent so far

vars == <<db, status, entry, hash, peer, pipeline, analytics, geometry, jobs, step,
          pc, held, worker, retiring, raced, astray, changes>>

registryVars == <<entry, hash, peer>>
libraryVars  == <<analytics, geometry, step>>
handlerVars  == <<pc, held>>

Handlers == Conns \cup Requests \cup Posts

Sends == changes < MaxChanges /\ changes' = changes + 1

\* let_go runs on the event loop with no await, so no handler runs inside it.
LoopFree == status # "forgetting"

Goto(h, l) == pc' = [pc EXCEPT ![h] = l]

-----------------------------------------------------------------------------
(* What every registration does *)

Enter(d, who) == entry' = Canon[d] /\ hash' = d /\ peer' = who

Evict == pipeline' = Nil /\ raced' = (worker # Nil)

(* The await of register_node: the caller sleeps until its job is done.     *)
(* The youngest job may carry another configuration than the entry by now.  *)
Submit(h, c) ==
  /\ jobs' = Append(jobs, [config |-> c, by |-> h])
  /\ Goto(h, "registering")
  /\ astray' = (c # entry')

-----------------------------------------------------------------------------
(* TCP: handle_tcp_client *)

ConfigChanged(d) == entry # Canon[d]

(* CONFIG up to the await of the CONFIG_ACK: the entry is in the registry,  *)
(* and no job is queued for it yet.                                         *)
TcpConfig(c, d) ==
  /\ pc[c] = "idle" /\ Sends /\ LoopFree
  /\ Enter(d, "tcp")
  /\ IF ConfigChanged(d) THEN Evict ELSE UNCHANGED <<pipeline, raced>>
  /\ held' = [held EXCEPT ![c] = Canon[d]]
  /\ Goto(c, "acking")
  /\ astray' = (astray \/ ConfigChanged(d))
  /\ UNCHANGED <<db, status, libraryVars, jobs, worker, retiring>>

TcpAcked(c) ==
  /\ pc[c] = "acking" /\ LoopFree
  /\ UNCHANGED registryVars
  /\ Submit(c, held[c])
  /\ UNCHANGED <<db, status, pipeline, libraryVars, held, worker, retiring,
                 raced, changes>>

(* The send of the CONFIG_ACK raises, or is cancelled: the connection ends  *)
(* and register_node is not reached, whatever became of the entry.          *)
TcpAckFails(c) ==
  /\ pc[c] = "acking" /\ LoopFree
  /\ Goto(c, "idle")
  /\ UNCHANGED <<db, status, registryVars, pipeline, libraryVars, jobs, held, worker, retiring,
                 raced, astray, changes>>

-----------------------------------------------------------------------------
(* v1: PUT /config, the poller's rejoin, heartbeat recovery, priming *)

(* put_config up to its commit; an unchanged configuration goes no further. *)
PutConfig(r, d) ==
  /\ pc[r] = "idle" /\ Sends /\ LoopFree
  /\ db' = d
  /\ IF d # db THEN Goto(r, "reading") ELSE UNCHANGED pc
  /\ UNCHANGED <<status, registryVars, pipeline, libraryVars, jobs, held, worker, retiring, raced, astray>>

(* A node the registry has lost is put back: post_heartbeat, _in_pipeline   *)
(* and prime_pipeline.  The node's row is read before the configuration.    *)
Recover(r) ==
  /\ pc[r] = "idle" /\ LoopFree
  /\ entry = Nil /\ status = "active"
  /\ Goto(r, "reading")
  /\ UNCHANGED <<db, status, registryVars, pipeline, libraryVars, jobs, held, worker, retiring,
                 raced, astray, changes>>

(* _pipeline_config: the await of the active row.                           *)
ReadConfig(r) ==
  /\ pc[r] = "reading" /\ LoopFree
  /\ held' = [held EXCEPT ![r] = db]
  /\ Goto(r, "read")
  /\ UNCHANGED <<db, status, registryVars, pipeline, libraryVars, jobs, worker, retiring,
                 raced, astray, changes>>

\* Mutation: the cached pipeline is left in place.
RegisterKeepsPipeline(r) ==
  /\ pc[r] = "read" /\ LoopFree
  /\ Enter(held[r], "v1")
  /\ Submit(r, Canon[held[r]])
  /\ UNCHANGED <<pipeline, raced, db, status, libraryVars, held, worker, retiring, changes>>

(* The rest of register_with_pipeline.                                      *)
RegisterWithPipeline(r) ==
  /\ pc[r] = "read" /\ LoopFree
  /\ Enter(held[r], "v1")
  /\ Evict
  /\ Submit(r, Canon[held[r]])
  /\ UNCHANGED <<db, status, libraryVars, held, worker, retiring, changes>>

-----------------------------------------------------------------------------
(* Plain HTTP posts *)

(* ingest_detections: an unknown node enters without a position, and with   *)
(* no eviction.                                                             *)
PostDetections(p) ==
  /\ pc[p] = "idle" /\ LoopFree
  /\ entry = Nil
  /\ Enter(Legacy, "http")
  /\ raced' = (raced \/ worker # Nil)
  /\ Submit(p, Canon[Legacy])
  /\ UNCHANGED <<db, status, pipeline, libraryVars, held, worker, retiring, changes>>

(* Only an entry this endpoint made is replaced.                            *)
BulkReplaces(d) == entry = Nil \/ (peer = "http-bulk" /\ hash # d)

BulkEntry(p, d) ==
  /\ pc[p] = "idle" /\ Sends /\ LoopFree
  /\ IF BulkReplaces(d)
     THEN Enter(d, "http-bulk") /\ Evict /\ Submit(p, Canon[d])
     ELSE UNCHANGED <<registryVars, pipeline, raced, astray, jobs, pc>>
  /\ UNCHANGED <<db, status, libraryVars, held, worker, retiring>>

-----------------------------------------------------------------------------
(* The registration thread: register_node_blocking *)

\* Mutation: a pool of many threads.
TakenByAny(j) == j \in 1..Len(jobs)

\* The job the one thread of the pool works on: the oldest.
Taken(j) == j = 1

Dequeue(j) ==
  /\ jobs' = [i \in 1..(Len(jobs) - 1) |-> IF i < j THEN jobs[i] ELSE jobs[i + 1]]
  /\ Goto(jobs[j].by, "idle")

RegisterAnalytics ==
  /\ step = "start" /\ jobs # <<>>
  /\ analytics' = Head(jobs).config
  /\ step' = "associator"
  /\ UNCHANGED <<db, status, registryVars, pipeline, geometry, jobs, handlerVars, worker,
                 retiring, raced, astray, changes>>

RegisterAssociator(j) ==
  /\ step = "associator" /\ Taken(j)
  /\ geometry' = jobs[j].config
  /\ step' = "start"
  /\ Dequeue(j)
  /\ UNCHANGED <<db, status, registryVars, pipeline, analytics, held, worker, retiring, raced,
                 changes, astray>>

(* Either library may raise; the caller gets the exception.                 *)
RegistrationFails ==
  /\ jobs # <<>>
  /\ step' = "start"
  /\ Dequeue(1)
  /\ astray' = (astray \/ Len(jobs) = 1)
  /\ UNCHANGED <<db, status, registryVars, pipeline, analytics, geometry, held, worker, retiring,
                 raced, changes>>

-----------------------------------------------------------------------------
(* The frame worker: get_or_create_node_pipeline *)

(* With a pipeline cached the frame uses it and nothing changes.            *)
Lookup ==
  /\ worker = Nil /\ pipeline = Nil
  /\ entry \in Placed
  /\ worker' = entry
  /\ UNCHANGED <<db, status, registryVars, pipeline, libraryVars, jobs, handlerVars, retiring,
                 raced, astray, changes>>

Store ==
  /\ worker # Nil
  /\ pipeline' = worker /\ worker' = Nil
  /\ UNCHANGED <<db, status, registryVars, libraryVars, jobs, handlerVars, retiring, raced, astray, changes>>

-----------------------------------------------------------------------------
(* Removals *)

Leave == entry' = Nil /\ hash' = Nil /\ peer' = Nil

\* A job queued before the node left files it all the same.
LeaveAhead == Leave /\ astray' = (jobs # <<>>)

\* The youngest job has been to the analytics library, or there is none.
Told == jobs = <<>> \/ (step = "associator" /\ Len(jobs) = 1)

(* retire_node: the registry first, then one store after the other.         *)
Retire ==
  /\ "retire" \in Removals
  /\ retiring = "no"
  /\ LeaveAhead
  /\ retiring' = "pipeline"
  /\ UNCHANGED <<db, status, pipeline, libraryVars, jobs, handlerVars, worker, raced, changes>>

RetirePipeline ==
  /\ retiring = "pipeline"
  /\ Evict
  /\ retiring' = "analytics"
  /\ UNCHANGED <<db, status, registryVars, libraryVars, jobs, handlerVars, worker, changes, astray>>

RetireAnalytics ==
  /\ retiring = "analytics"
  /\ analytics' = Nil
  /\ retiring' = "associator"
  /\ astray' = (astray \/ (entry # Nil /\ Told))
  /\ UNCHANGED <<db, status, registryVars, pipeline, geometry, step, jobs, handlerVars, worker,
                 raced, changes>>

RetireAssociator ==
  /\ retiring = "associator"
  /\ geometry' = Nil
  /\ retiring' = "no"
  /\ status' = IF LoopFree THEN status ELSE "let_go"
  /\ astray' = (astray \/ (entry # Nil /\ jobs = <<>>))
  /\ UNCHANGED <<db, registryVars, pipeline, analytics, step, jobs, handlerVars, worker, raced,
                 changes>>

(* _clear raises: the node is half retired.                                 *)
RetireFails ==
  /\ retiring \in {"analytics", "associator"}
  /\ retiring' = "no"
  /\ status' = IF LoopFree THEN status ELSE "let_go"
  /\ astray' = (astray \/ entry = Nil)
  /\ UNCHANGED <<db, registryVars, pipeline, libraryVars, jobs, handlerVars, worker, raced, changes>>

(* The commit of a polled radar's removal.                                  *)
RetireRadar ==
  /\ "forget" \in Removals
  /\ status = "active"
  /\ status' = "retired"
  /\ UNCHANGED <<db, registryVars, pipeline, libraryVars, jobs, handlerVars, worker, retiring,
                 raced, astray, changes>>

(* let_go: forget_node clears the stores in retire_node's order, on the      *)
(* event loop, with the frame worker and the registration thread running.   *)
LetGo ==
  /\ status = "retired" /\ retiring = "no"
  /\ status' = "forgetting"
  /\ LeaveAhead
  /\ retiring' = "pipeline"
  /\ UNCHANGED <<db, pipeline, libraryVars, jobs, handlerVars, worker, raced, changes>>

(* prune_synthetic_nodes: the registry and nothing else.                    *)
Prune ==
  /\ "prune" \in Removals /\ LoopFree
  /\ entry # Nil
  /\ Leave /\ astray' = TRUE
  /\ UNCHANGED <<db, status, pipeline, libraryVars, jobs, handlerVars, worker, retiring, raced,
                 changes>>

(* _evict_stale_pipelines, on a worker thread and on a snapshot: the node   *)
(* was disconnected for two hours and may be back by now.                   *)
EvictStale ==
  /\ "stale" \in Removals
  /\ pipeline # Nil
  /\ pipeline' = Nil
  /\ UNCHANGED <<db, status, registryVars, libraryVars, jobs, handlerVars, worker, retiring, raced,
                 changes, astray>>

-----------------------------------------------------------------------------
Init ==
  /\ db \in Declared /\ status = "active"
  /\ entry = Nil /\ hash = Nil /\ peer = Nil
  /\ pipeline = Nil /\ analytics = Nil /\ geometry = Nil
  /\ jobs = <<>> /\ step = "start"
  /\ pc = [h \in Handlers |-> "idle"] /\ held = [h \in Handlers |-> Nil]
  /\ worker = Nil /\ retiring = "no" /\ raced = FALSE /\ astray = FALSE /\ changes = 0

Next ==
  \/ \E c \in Conns : TcpAcked(c) \/ TcpAckFails(c) \/ \E d \in Declared : TcpConfig(c, d)
  \/ \E r \in Requests :
       \/ \E d \in Declared : PutConfig(r, d)
       \/ Recover(r) \/ ReadConfig(r) \/ RegisterWithPipeline(r)
  \/ \E p \in Posts : PostDetections(p) \/ \E d \in Declared : BulkEntry(p, d)
  \/ RegisterAnalytics \/ RegistrationFails
  \/ \E j \in 1..Len(jobs) : RegisterAssociator(j)
  \/ Lookup \/ Store
  \/ Retire \/ RetirePipeline \/ RetireAnalytics \/ RetireAssociator \/ RetireFails
  \/ RetireRadar \/ LetGo \/ Prune \/ EvictStale

Spec == Init /\ [][Next]_vars

-----------------------------------------------------------------------------
Known == Configs \cup {Nil}

TypeOK ==
  /\ db \in Declared /\ status \in {"active", "retired", "forgetting", "let_go"}
  /\ entry \in Known /\ hash \in Declared \cup {Nil}
  /\ peer \in {"tcp", "v1", "http", "http-bulk", Nil}
  /\ pipeline \in Placed \cup {Nil} /\ worker \in Placed \cup {Nil}
  /\ analytics \in Known /\ geometry \in Known
  /\ jobs \in Seq([config : Configs, by : Handlers])
  /\ step \in {"start", "associator"}
  /\ pc \in [Handlers -> {"idle", "acking", "reading", "read", "registering"}]
  /\ held \in [Handlers -> Declared \cup Known]
  /\ retiring \in {"no", "pipeline", "analytics", "associator"}
  /\ raced \in BOOLEAN /\ astray \in BOOLEAN /\ changes \in 0..MaxChanges
  /\ (entry = Nil) = (hash = Nil)
  /\ entry # Nil => entry = Canon[hash]

(* A placed node's cached pipeline was built from the configuration in the  *)
(* registry, unless the registry changed while a worker was building it:    *)
(* every way in evicts, and there is no other way to a stale pipeline.      *)
StaleOnlyByRace ==
  (entry \in Placed /\ pipeline # Nil) => (pipeline = entry \/ raced)

(* Once no job and no removal is under way, both libraries hold what the    *)
(* registry holds: its configuration, or nothing for a node that is out of  *)
(* it.  So it is however handlers, registrations and removals interleaved,  *)
(* unless                                                                   *)
(*   - a handshake changed the entry and its job is not queued, for good    *)
(*     when its CONFIG_ACK failed, or was queued after that of another;     *)
(*   - the youngest job raised;                                             *)
(*   - a removal met a job: it was queued when the node left, or had told a *)
(*     library of the node's return when the removal cleared it;            *)
(*   - the removal clears the registry alone, or raised half way.           *)
Settled == jobs = <<>> /\ retiring = "no"

SettledAgrees == Settled /\ ~astray => geometry = entry /\ analytics = entry

(* As forget_node has it: nothing can register a forgotten node again.      *)
ForgottenStaysForgotten == status = "let_go" => entry = Nil
=============================================================================
