------------------------- MODULE NodeGeometryProofs -------------------------
(***************************************************************************)
(* Proofs about NodeGeometry for any connections, requests, posts and      *)
(* configurations.                                                         *)
(***************************************************************************)
EXTENDS NodeGeometry, TLAPS, SequenceTheorems

-----------------------------------------------------------------------------
(* The inductive invariants *)

\* A request between its read and its registration carries a declared
\* configuration, a connection between its entry and its job a canonical one.
HeldTyped ==
  \A h \in Handlers :
    /\ pc[h] = "read" => h \in Requests /\ held[h] \in Declared
    /\ pc[h] = "reading" => h \in Requests
    /\ pc[h] = "acking" => h \in Conns /\ held[h] \in Configs

Typed == TypeOK /\ HeldTyped

\* What the worker builds is what the registry has, or it is known to race.
BuildIsCurrent == (worker # Nil /\ entry \in Placed) => (worker = entry \/ raced)

\* The youngest job carries the registry's configuration.
YoungestIsCurrent == (jobs # <<>> /\ ~astray) => jobs[Len(jobs)].config = entry

\* A job between its two calls is the youngest only with the first one done.
HalfRegistered ==
  step = "associator" =>
    jobs # <<>> /\ (Len(jobs) = 1 /\ ~astray => analytics = entry)

\* With no job left the libraries hold what the registry holds, as far as a
\* removal under way has come.
LibrariesAgree ==
  (jobs = <<>> /\ ~astray) =>
    IF entry # Nil THEN geometry = entry /\ analytics = entry
    ELSE /\ retiring \in {"associator", "no"} => analytics = Nil
         /\ retiring = "no" => geometry = Nil

\* A node that is out has no job left.
OutIsDrained == (entry = Nil /\ ~astray) => jobs = <<>>

Ordered == YoungestIsCurrent /\ HalfRegistered /\ LibrariesAgree /\ OutIsDrained

-----------------------------------------------------------------------------
(* Types *)

RegistryTyped ==
  /\ entry \in Known /\ hash \in Declared \cup {Nil}
  /\ peer \in {"tcp", "v1", "http", "http-bulk", Nil}
  /\ (entry = Nil) = (hash = Nil)
  /\ entry # Nil => entry = Canon[hash]

LEMMA CanonTyped == \A d \in Declared : Canon[d] \in Configs /\ Canon[d] # Nil /\ d # Nil
  BY GeometryAssumption DEF Configs

LEMMA EnterTyped ==
  ASSUME NEW d \in Declared, NEW who \in {"tcp", "v1", "http", "http-bulk"}, Enter(d, who)
  PROVE  RegistryTyped'
<1>1. entry' = Canon[d] /\ hash' = d /\ peer' = who
  BY DEF Enter
<1>2. entry' # Nil /\ hash' # Nil /\ entry' \in Known
  BY <1>1, CanonTyped DEF Known
<1>3. (entry' = Nil) = (hash' = Nil)
  BY <1>2
<1>. QED
  BY <1>1, <1>2, <1>3 DEF RegistryTyped, Known

LEMMA LeaveTyped == Leave => RegistryTyped'
<1>. SUFFICES ASSUME Leave PROVE RegistryTyped'
  OBVIOUS
<1>1. entry' = Nil /\ hash' = Nil /\ peer' = Nil
  BY DEF Leave
<1>2. (entry' = Nil) = (hash' = Nil)
  BY <1>1
<1>. QED
  BY <1>1, <1>2 DEF RegistryTyped, Known

LEMMA SubmitTyped ==
  ASSUME Typed, NEW h \in Handlers, NEW c \in Configs, Submit(h, c)
  PROVE  /\ jobs' \in Seq([config : Configs, by : Handlers])
         /\ pc' = [pc EXCEPT ![h] = "registering"] /\ astray' \in BOOLEAN
  BY DEF Typed, TypeOK, Submit, Goto

LEMMA EvictTyped == Evict => pipeline' = Nil /\ raced' \in BOOLEAN
  BY DEF Evict

LEMMA SendsTyped == TypeOK /\ Sends => changes' \in 0..MaxChanges
  BY GeometryAssumption DEF TypeOK, Sends

LEMMA DequeueTyped ==
  ASSUME Typed, jobs # <<>>, NEW j \in 1..Len(jobs), Dequeue(j)
  PROVE  /\ jobs' \in Seq([config : Configs, by : Handlers])
         /\ pc' = [pc EXCEPT ![jobs[j].by] = "idle"] /\ jobs[j].by \in Handlers
         /\ Len(jobs') = Len(jobs) - 1
         /\ \A i \in 1..Len(jobs') : jobs'[i] = IF i < j THEN jobs[i] ELSE jobs[i + 1]
<1>1. jobs \in Seq([config : Configs, by : Handlers]) /\ Len(jobs) \in Nat \ {0}
  BY DEF Typed, TypeOK
<1>2. jobs' = [i \in 1..(Len(jobs) - 1) |-> IF i < j THEN jobs[i] ELSE jobs[i + 1]]
  BY DEF Dequeue
<1>3. \A i \in 1..Len(jobs) : jobs[i] \in [config : Configs, by : Handlers]
  <2>. DEFINE T == [config : Configs, by : Handlers]
  <2>1. jobs \in Seq(T)
    BY <1>1
  <2>. HIDE DEF T
  <2>2. \A i \in 1..Len(jobs) : jobs[i] \in T
    BY <2>1
  <2>. QED
    BY <2>2 DEF T
<1>4. \A i \in 1..(Len(jobs) - 1) :
         (IF i < j THEN jobs[i] ELSE jobs[i + 1]) \in [config : Configs, by : Handlers]
  <2>. TAKE i \in 1..(Len(jobs) - 1)
  <2>1. i \in 1..Len(jobs) /\ i + 1 \in 1..Len(jobs)
    BY <1>1
  <2>. QED
    BY <1>3, <2>1
<1>5. Len(jobs) - 1 \in Nat
  BY <1>1
<1>6. jobs' \in Seq([config : Configs, by : Handlers]) /\ Len(jobs') = Len(jobs) - 1
  <2>. DEFINE T == [config : Configs, by : Handlers]
              n == Len(jobs) - 1
  <2>1. jobs' \in [1..n -> T]
    BY <1>2, <1>4
  <2>. HIDE DEF T
  <2>2. jobs' \in Seq(T)
    BY <2>1, <1>5, SeqDef
  <2>3. DOMAIN jobs' = 1..n /\ DOMAIN jobs' = 1..Len(jobs')
    BY <2>1, <2>2, LenProperties
  <2>4. Len(jobs') \in Nat
    BY <2>2, LenProperties
  <2>5. Len(jobs') = n
    BY <2>3, <2>4, <1>5
  <2>. QED
    BY <2>2, <2>5 DEF T
<1>7. jobs[j].by \in Handlers
  BY <1>3
<1>. QED
  BY <1>2, <1>6, <1>7 DEF Dequeue, Goto

\* The sets of handlers do not meet, and no label is another.
LEMMA GotoHeld ==
  ASSUME Typed, NEW h \in Handlers, NEW l \in {"idle", "registering"},
         pc' = [pc EXCEPT ![h] = l], held' = held
  PROVE  /\ pc' \in [Handlers -> {"idle", "acking", "reading", "read", "registering"}]
         /\ held' \in [Handlers -> Declared \cup Known]
         /\ HeldTyped'
  BY DEF Typed, TypeOK, HeldTyped

\* A step that moves one handler keeps the types of the rest by these parts.
LEMMA PartsTyped ==
  ASSUME RegistryTyped', HeldTyped',
         db' \in Declared, status' \in {"active", "retired", "forgetting", "let_go"},
         pipeline' \in Placed \cup {Nil}, worker' \in Placed \cup {Nil},
         analytics' \in Known, geometry' \in Known,
         jobs' \in Seq([config : Configs, by : Handlers]),
         step' \in {"start", "associator"},
         pc' \in [Handlers -> {"idle", "acking", "reading", "read", "registering"}],
         held' \in [Handlers -> Declared \cup Known],
         retiring' \in {"no", "pipeline", "analytics", "associator"},
         raced' \in BOOLEAN, astray' \in BOOLEAN, changes' \in 0..MaxChanges
  PROVE  Typed'
  BY DEF Typed, TypeOK, RegistryTyped

LEMMA RegistryKept == TypeOK /\ UNCHANGED registryVars => RegistryTyped'
<1>. SUFFICES ASSUME TypeOK, UNCHANGED registryVars PROVE RegistryTyped'
  OBVIOUS
<1>1. entry' = entry /\ hash' = hash /\ peer' = peer
  BY DEF registryVars
<1>2. (entry = Nil) = (hash = Nil)
  BY DEF TypeOK
<1>3. (entry' = Nil) = (hash' = Nil)
  BY <1>1, <1>2
<1>. QED
  BY <1>1, <1>3 DEF TypeOK, RegistryTyped

LEMMA TcpTyped ==
  ASSUME Typed, NEW c \in Conns,
         TcpAcked(c) \/ TcpAckFails(c) \/ \E d \in Declared : TcpConfig(c, d)
  PROVE  Typed'
<1>0. c \in Handlers
  BY DEF Handlers
<1>1. CASE TcpAcked(c)
  <2>1. held[c] \in Configs
    BY <1>0, <1>1 DEF TcpAcked, Typed, HeldTyped
  <2>2. Submit(c, held[c]) /\ held' = held
    BY <1>1 DEF TcpAcked
  <2>3. /\ jobs' \in Seq([config : Configs, by : Handlers])
        /\ pc' = [pc EXCEPT ![c] = "registering"] /\ astray' \in BOOLEAN
    BY <1>0, <2>1, <2>2, SubmitTyped
  <2>4. /\ pc' \in [Handlers -> {"idle", "acking", "reading", "read", "registering"}]
        /\ held' \in [Handlers -> Declared \cup Known] /\ HeldTyped'
    BY <1>0, <2>2, <2>3, GotoHeld
  <2>5. UNCHANGED <<db, status, registryVars, pipeline, libraryVars, worker, retiring, raced,
                    changes>>
    BY <1>1 DEF TcpAcked
  <2>6. RegistryTyped'
    BY <2>5, RegistryKept DEF Typed
  <2>. QED
    BY <2>3, <2>4, <2>5, <2>6, PartsTyped DEF Typed, TypeOK, libraryVars
<1>2. CASE \E d \in Declared : TcpConfig(c, d)
  <2>. PICK d \in Declared : TcpConfig(c, d)
    BY <1>2
  <2>1. RegistryTyped'
    BY EnterTyped DEF TcpConfig
  <2>2. changes' \in 0..MaxChanges
    BY SendsTyped DEF TcpConfig, Typed
  <2>3. pipeline' \in Placed \cup {Nil} /\ raced' \in BOOLEAN
    BY EvictTyped DEF TcpConfig, Typed, TypeOK
  <2>4. /\ pc' = [pc EXCEPT ![c] = "acking"] /\ held' = [held EXCEPT ![c] = Canon[d]]
        /\ Canon[d] \in Configs
    BY CanonTyped DEF TcpConfig, Goto
  <2>5. /\ pc' \in [Handlers -> {"idle", "acking", "reading", "read", "registering"}]
        /\ held' \in [Handlers -> Declared \cup Known] /\ HeldTyped'
    BY <1>0, <2>4 DEF Typed, TypeOK, HeldTyped, Known
  <2>6. UNCHANGED <<db, status, libraryVars, jobs, worker, retiring>> /\ astray' \in BOOLEAN
    BY DEF TcpConfig, ConfigChanged, Typed, TypeOK
  <2>. QED
    BY <2>1, <2>2, <2>3, <2>5, <2>6, PartsTyped DEF Typed, TypeOK, libraryVars
<1>3. CASE TcpAckFails(c)
  <2>1. RegistryTyped'
    BY <1>3, RegistryKept DEF TcpAckFails, Typed
  <2>2. held' = held /\ pc' = [pc EXCEPT ![c] = "idle"]
    BY <1>3 DEF TcpAckFails, Goto
  <2>3. /\ pc' \in [Handlers -> {"idle", "acking", "reading", "read", "registering"}]
        /\ held' \in [Handlers -> Declared \cup Known] /\ HeldTyped'
    BY <1>0, <2>2, GotoHeld
  <2>4. UNCHANGED <<db, status, pipeline, libraryVars, jobs, worker, retiring, raced, astray,
                    changes>>
    BY <1>3 DEF TcpAckFails
  <2>. QED
    BY <2>1, <2>3, <2>4, PartsTyped DEF Typed, TypeOK, libraryVars
<1>. QED
  BY <1>1, <1>2, <1>3

LEMMA RequestTyped ==
  ASSUME Typed, NEW r \in Requests,
         \/ \E d \in Declared : PutConfig(r, d)
         \/ Recover(r) \/ ReadConfig(r) \/ RegisterWithPipeline(r)
  PROVE  Typed'
<1>0. r \in Handlers
  BY DEF Handlers
<1>1. CASE \E d \in Declared : PutConfig(r, d)
  <2>. PICK d \in Declared : PutConfig(r, d)
    BY <1>1
  <2>1. RegistryTyped'
    BY RegistryKept DEF PutConfig, Typed
  <2>2. changes' \in 0..MaxChanges
    BY SendsTyped DEF PutConfig, Typed
  <2>3. held' = held /\ (pc' = pc \/ pc' = [pc EXCEPT ![r] = "reading"])
    BY DEF PutConfig, Goto
  <2>4. /\ pc' \in [Handlers -> {"idle", "acking", "reading", "read", "registering"}]
        /\ held' \in [Handlers -> Declared \cup Known] /\ HeldTyped'
    BY <1>0, <2>3 DEF Typed, TypeOK, HeldTyped
  <2>5. UNCHANGED <<status, pipeline, libraryVars, jobs, worker, retiring, raced, astray>>
        /\ db' = d
    BY DEF PutConfig
  <2>. QED
    BY <2>1, <2>2, <2>4, <2>5, PartsTyped DEF Typed, TypeOK, libraryVars
<1>2. CASE Recover(r)
  <2>1. RegistryTyped'
    BY <1>2, RegistryKept DEF Recover, Typed
  <2>2. held' = held /\ pc' = [pc EXCEPT ![r] = "reading"]
    BY <1>2 DEF Recover, Goto
  <2>3. /\ pc' \in [Handlers -> {"idle", "acking", "reading", "read", "registering"}]
        /\ held' \in [Handlers -> Declared \cup Known] /\ HeldTyped'
    BY <1>0, <2>2 DEF Typed, TypeOK, HeldTyped
  <2>4. UNCHANGED <<db, status, pipeline, libraryVars, jobs, worker, retiring, raced, astray,
                    changes>>
    BY <1>2 DEF Recover
  <2>. QED
    BY <2>1, <2>3, <2>4, PartsTyped DEF Typed, TypeOK, libraryVars
<1>3. CASE ReadConfig(r)
  <2>1. RegistryTyped'
    BY <1>3, RegistryKept DEF ReadConfig, Typed
  <2>2. held' = [held EXCEPT ![r] = db] /\ pc' = [pc EXCEPT ![r] = "read"]
    BY <1>3 DEF ReadConfig, Goto
  <2>3. /\ pc' \in [Handlers -> {"idle", "acking", "reading", "read", "registering"}]
        /\ held' \in [Handlers -> Declared \cup Known] /\ HeldTyped'
    BY <1>0, <2>2 DEF Typed, TypeOK, HeldTyped
  <2>4. UNCHANGED <<db, status, pipeline, libraryVars, jobs, worker, retiring, raced, astray,
                    changes>>
    BY <1>3 DEF ReadConfig
  <2>. QED
    BY <2>1, <2>3, <2>4, PartsTyped DEF Typed, TypeOK, libraryVars
<1>4. CASE RegisterWithPipeline(r)
  <2>1. held[r] \in Declared
    BY <1>0, <1>4 DEF RegisterWithPipeline, Typed, HeldTyped
  <2>2. RegistryTyped'
    BY <1>4, <2>1, EnterTyped DEF RegisterWithPipeline
  <2>3. Submit(r, Canon[held[r]]) /\ held' = held
    BY <1>4 DEF RegisterWithPipeline
  <2>4. /\ jobs' \in Seq([config : Configs, by : Handlers])
        /\ pc' = [pc EXCEPT ![r] = "registering"] /\ astray' \in BOOLEAN
    BY <1>0, <2>1, <2>3, SubmitTyped, CanonTyped
  <2>5. /\ pc' \in [Handlers -> {"idle", "acking", "reading", "read", "registering"}]
        /\ held' \in [Handlers -> Declared \cup Known] /\ HeldTyped'
    BY <1>0, <2>3, <2>4, GotoHeld
  <2>6. pipeline' = Nil /\ raced' \in BOOLEAN
    BY <1>4, EvictTyped DEF RegisterWithPipeline
  <2>7. UNCHANGED <<db, status, libraryVars, worker, retiring, changes>>
    BY <1>4 DEF RegisterWithPipeline
  <2>. QED
    BY <2>2, <2>4, <2>5, <2>6, <2>7, PartsTyped DEF Typed, TypeOK, libraryVars
<1>. QED
  BY <1>1, <1>2, <1>3, <1>4

LEMMA PostTyped ==
  ASSUME Typed, NEW p \in Posts, PostDetections(p) \/ \E d \in Declared : BulkEntry(p, d)
  PROVE  Typed'
<1>0. p \in Handlers
  BY DEF Handlers
<1>1. ASSUME NEW d \in Declared, Submit(p, Canon[d]), held' = held
      PROVE  /\ jobs' \in Seq([config : Configs, by : Handlers])
             /\ pc' \in [Handlers -> {"idle", "acking", "reading", "read", "registering"}]
             /\ held' \in [Handlers -> Declared \cup Known] /\ HeldTyped'
             /\ astray' \in BOOLEAN
  <2>1. /\ jobs' \in Seq([config : Configs, by : Handlers])
        /\ pc' = [pc EXCEPT ![p] = "registering"] /\ astray' \in BOOLEAN
    BY <1>0, <1>1, SubmitTyped, CanonTyped
  <2>. QED
    BY <1>0, <1>1, <2>1, GotoHeld
<1>2. CASE PostDetections(p)
  <2>1. Legacy \in Declared
    BY GeometryAssumption
  <2>2. RegistryTyped'
    BY <1>2, <2>1, EnterTyped DEF PostDetections
  <2>3. raced' \in BOOLEAN
    BY <1>2 DEF PostDetections, Typed, TypeOK
  <2>4. Submit(p, Canon[Legacy]) /\ held' = held
    BY <1>2 DEF PostDetections
  <2>5. UNCHANGED <<db, status, pipeline, libraryVars, worker, retiring, changes>>
    BY <1>2 DEF PostDetections
  <2>. QED
    BY <1>1, <2>1, <2>2, <2>3, <2>4, <2>5, PartsTyped DEF Typed, TypeOK, libraryVars
<1>3. CASE \E d \in Declared : BulkEntry(p, d)
  <2>. PICK d \in Declared : BulkEntry(p, d)
    BY <1>3
  <2>1. changes' \in 0..MaxChanges
    BY SendsTyped DEF BulkEntry, Typed
  <2>2. UNCHANGED <<db, status, libraryVars, held, worker, retiring>>
    BY DEF BulkEntry
  <2>3. CASE BulkReplaces(d)
    <3>1. RegistryTyped'
      BY <2>3, EnterTyped DEF BulkEntry
    <3>2. pipeline' = Nil /\ raced' \in BOOLEAN /\ Submit(p, Canon[d])
      BY <2>3, EvictTyped DEF BulkEntry
    <3>. QED
      BY <1>1, <2>1, <2>2, <3>1, <3>2, PartsTyped DEF Typed, TypeOK, libraryVars
  <2>4. CASE ~BulkReplaces(d)
    <3>1. UNCHANGED <<registryVars, pipeline, raced, astray, jobs, pc>>
      BY <2>4 DEF BulkEntry
    <3>2. RegistryTyped'
      BY <3>1, RegistryKept DEF Typed
    <3>3. HeldTyped'
      BY <2>2, <3>1 DEF Typed, HeldTyped
    <3>. QED
      BY <2>1, <2>2, <3>1, <3>2, <3>3, PartsTyped DEF Typed, TypeOK, libraryVars
  <2>. QED
    BY <2>3, <2>4
<1>. QED
  BY <1>2, <1>3

LEMMA JobTyped ==
  ASSUME Typed,
         \/ RegisterAnalytics \/ RegistrationFails
         \/ \E j \in 1..Len(jobs) : RegisterAssociator(j)
  PROVE  Typed'
<1>1. CASE RegisterAnalytics
  <2>1. RegistryTyped'
    BY <1>1, RegistryKept DEF RegisterAnalytics, Typed
  <2>2. jobs \in Seq([config : Configs, by : Handlers]) /\ jobs # <<>>
    BY <1>1 DEF RegisterAnalytics, Typed, TypeOK
  <2>3. Head(jobs) \in [config : Configs, by : Handlers]
    <3>. DEFINE T == [config : Configs, by : Handlers]
    <3>1. jobs \in Seq(T) /\ jobs # <<>>
      BY <2>2
    <3>. HIDE DEF T
    <3>2. Head(jobs) \in T
      BY <3>1
    <3>. QED
      BY <3>2 DEF T
  <2>4. analytics' \in Known
    BY <1>1, <2>3 DEF RegisterAnalytics, Known
  <2>5. HeldTyped'
    BY <1>1 DEF RegisterAnalytics, handlerVars, Typed, HeldTyped
  <2>. QED
    BY <1>1, <2>1, <2>4, <2>5, PartsTyped DEF RegisterAnalytics, handlerVars, Typed, TypeOK
<1>2. CASE RegistrationFails
  <2>1. RegistryTyped'
    BY <1>2, RegistryKept DEF RegistrationFails, Typed
  <2>2. jobs # <<>> /\ Dequeue(1) /\ 1 \in 1..Len(jobs)
    BY <1>2 DEF RegistrationFails, Typed, TypeOK
  <2>3. /\ jobs' \in Seq([config : Configs, by : Handlers])
        /\ pc' = [pc EXCEPT ![jobs[1].by] = "idle"] /\ jobs[1].by \in Handlers
    BY <2>2, DequeueTyped
  <2>4. held' = held
    BY <1>2 DEF RegistrationFails
  <2>5. /\ pc' \in [Handlers -> {"idle", "acking", "reading", "read", "registering"}]
        /\ held' \in [Handlers -> Declared \cup Known] /\ HeldTyped'
    BY <2>3, <2>4, GotoHeld
  <2>6. /\ UNCHANGED <<db, status, pipeline, analytics, geometry, worker, retiring, raced, changes>>
        /\ step' = "start" /\ astray' \in BOOLEAN
    BY <1>2 DEF RegistrationFails, Typed, TypeOK
  <2>. QED
    BY <2>1, <2>3, <2>5, <2>6, PartsTyped DEF Typed, TypeOK
<1>3. CASE \E j \in 1..Len(jobs) : RegisterAssociator(j)
  <2>. PICK j \in 1..Len(jobs) : RegisterAssociator(j)
    BY <1>3
  <2>1. RegistryTyped'
    BY RegistryKept DEF RegisterAssociator, Typed
  <2>2. jobs # <<>> /\ Dequeue(j)
    BY DEF RegisterAssociator, Typed, TypeOK
  <2>3. /\ jobs' \in Seq([config : Configs, by : Handlers])
        /\ pc' = [pc EXCEPT ![jobs[j].by] = "idle"] /\ jobs[j].by \in Handlers
    BY <2>2, DequeueTyped
  <2>4. held' = held
    BY DEF RegisterAssociator
  <2>5. /\ pc' \in [Handlers -> {"idle", "acking", "reading", "read", "registering"}]
        /\ held' \in [Handlers -> Declared \cup Known] /\ HeldTyped'
    BY <2>3, <2>4, GotoHeld
  <2>6. jobs[j] \in [config : Configs, by : Handlers]
    <3>. DEFINE T == [config : Configs, by : Handlers]
    <3>1. jobs \in Seq(T)
      BY DEF Typed, TypeOK
    <3>. HIDE DEF T
    <3>2. jobs[j] \in T
      BY <3>1
    <3>. QED
      BY <3>2 DEF T
  <2>7. /\ UNCHANGED <<db, status, pipeline, analytics, worker, retiring, raced, astray,
                       changes>>
        /\ step' = "start" /\ geometry' = jobs[j].config
    BY DEF RegisterAssociator
  <2>. QED
    BY <2>1, <2>3, <2>5, <2>6, <2>7, PartsTyped DEF Typed, TypeOK, Known
<1>. QED
  BY <1>1, <1>2, <1>3

LEMMA WorkerTyped ==
  ASSUME Typed, Lookup \/ Store
  PROVE  Typed'
<1>1. UNCHANGED <<db, status, registryVars, libraryVars, jobs, handlerVars, retiring, raced,
                astray, changes>>
  BY DEF Lookup, Store
<1>2. RegistryTyped'
  BY <1>1, RegistryKept DEF Typed
<1>3. HeldTyped'
  BY <1>1 DEF handlerVars, Typed, HeldTyped
<1>4. pipeline' \in Placed \cup {Nil} /\ worker' \in Placed \cup {Nil}
  BY DEF Lookup, Store, Typed, TypeOK
<1>. QED
  BY <1>1, <1>2, <1>3, <1>4, PartsTyped DEF Typed, TypeOK, libraryVars, handlerVars

Removal ==
  \/ Retire \/ RetirePipeline \/ RetireAnalytics \/ RetireAssociator \/ RetireFails
  \/ RetireRadar \/ LetGo \/ Prune \/ EvictStale

\* A removal clears: what a store holds after it, it held before.
LEMMA RemovalClears ==
  ASSUME Typed, Removal
  PROVE  /\ UNCHANGED <<db, step, jobs, handlerVars, worker, changes>> /\ astray' \in BOOLEAN
         /\ RegistryTyped' /\ entry' \in {entry, Nil}
         /\ pipeline' \in {pipeline, Nil}
         /\ analytics' \in {analytics, Nil} /\ geometry' \in {geometry, Nil}
         /\ status' \in {"active", "retired", "forgetting", "let_go"}
         /\ retiring' \in {"no", "pipeline", "analytics", "associator"}
         /\ raced' = raced \/ pipeline' = Nil
         /\ raced' \in BOOLEAN
<1>. USE DEF libraryVars
<1>1. CASE Retire
  <2>1. RegistryTyped' /\ entry' = Nil
    BY <1>1, LeaveTyped DEF Retire, LeaveAhead, Leave
  <2>. QED
    BY <1>1, <2>1 DEF Retire, LeaveAhead, Typed, TypeOK
<1>2. CASE LetGo
  <2>1. RegistryTyped' /\ entry' = Nil
    BY <1>2, LeaveTyped DEF LetGo, LeaveAhead, Leave
  <2>. QED
    BY <1>2, <2>1 DEF LetGo, LeaveAhead, Typed, TypeOK
<1>3. CASE Prune
  <2>1. RegistryTyped' /\ entry' = Nil
    BY <1>3, LeaveTyped DEF Prune, Leave
  <2>. QED
    BY <1>3, <2>1 DEF Prune, Typed, TypeOK
<1>4. CASE RetirePipeline
  <2>1. RegistryTyped' /\ entry' = entry
    BY <1>4, RegistryKept DEF RetirePipeline, registryVars, Typed
  <2>2. pipeline' = Nil /\ raced' \in BOOLEAN
    BY <1>4, EvictTyped DEF RetirePipeline
  <2>. QED
    BY <1>4, <2>1, <2>2 DEF RetirePipeline, Typed, TypeOK
<1>5. CASE RetireAnalytics \/ RetireAssociator \/ RetireFails \/ RetireRadar \/ EvictStale
  <2>1. RegistryTyped' /\ entry' = entry
    BY <1>5, RegistryKept
       DEF RetireAnalytics, RetireAssociator, RetireFails, RetireRadar, EvictStale,
           registryVars, Typed
  <2>2. CASE RetireAnalytics
    BY <2>1, <2>2 DEF RetireAnalytics, Typed, TypeOK
  <2>3. CASE RetireAssociator
    BY <2>1, <2>3 DEF RetireAssociator, Typed, TypeOK
  <2>4. CASE RetireRadar
    BY <2>1, <2>4 DEF RetireRadar, Typed, TypeOK
  <2>5. CASE EvictStale
    BY <2>1, <2>5 DEF EvictStale, Typed, TypeOK
  <2>6. CASE RetireFails
    BY <2>1, <2>6 DEF RetireFails, Typed, TypeOK
  <2>. QED
    BY <1>5, <2>2, <2>3, <2>4, <2>5, <2>6
<1>. QED
  BY <1>1, <1>2, <1>3, <1>4, <1>5 DEF Removal

LEMMA RemovalTyped ==
  ASSUME Typed, Removal
  PROVE  Typed'
<1>1. HeldTyped'
  BY RemovalClears DEF handlerVars, Typed, HeldTyped
<1>2. /\ pc' = pc /\ held' = held
  BY RemovalClears DEF handlerVars
<1>. QED
  BY <1>1, <1>2, RemovalClears, PartsTyped DEF Typed, TypeOK, Known

LEMMA InitTyped == Init => Typed
<1>. SUFFICES ASSUME Init PROVE Typed
  OBVIOUS
<1>1. (entry = Nil) = (hash = Nil)
  BY DEF Init
<1>2. jobs \in Seq([config : Configs, by : Handlers])
  BY DEF Init
<1>3. HeldTyped
  BY DEF Init, HeldTyped
<1>4. pc \in [Handlers -> {"idle", "acking", "reading", "read", "registering"}]
  BY DEF Init
<1>5. held \in [Handlers -> Declared \cup Known]
  BY DEF Init, Known
<1>6. changes \in 0..MaxChanges
  BY GeometryAssumption DEF Init
<1>7. /\ db \in Declared /\ status = "active" /\ entry = Nil /\ hash = Nil /\ peer = Nil
      /\ pipeline = Nil /\ analytics = Nil /\ geometry = Nil /\ step = "start"
      /\ worker = Nil /\ retiring = "no" /\ raced = FALSE /\ astray = FALSE
  BY DEF Init
<1>. QED
  BY <1>1, <1>2, <1>3, <1>4, <1>5, <1>6, <1>7 DEF Typed, TypeOK, Known

LEMMA NextTyped == Typed /\ [Next]_vars => Typed'
<1>. SUFFICES ASSUME Typed, [Next]_vars PROVE Typed'
  OBVIOUS
<1>1. CASE UNCHANGED vars
  <2>1. RegistryTyped'
    BY <1>1, RegistryKept DEF vars, registryVars, Typed
  <2>2. HeldTyped'
    BY <1>1 DEF vars, Typed, HeldTyped
  <2>. QED
    BY <1>1, <2>1, <2>2, PartsTyped DEF vars, Typed, TypeOK
<1>2. CASE Next
  BY <1>2, TcpTyped, RequestTyped, PostTyped, JobTyped, WorkerTyped, RemovalTyped DEF Next, Removal
<1>. QED
  BY <1>1, <1>2

(* The stores, the handlers and the jobs keep their types, and an entry of  *)
(* connected_nodes always is the canonical form of what its hash was taken  *)
(* over.                                                                    *)
THEOREM GeometryTyped == Spec => []TypeOK
<1>1. Typed => TypeOK
  BY DEF Typed
<1>. QED
  BY InitTyped, NextTyped, <1>1, PTL DEF Spec

-----------------------------------------------------------------------------
(* The pipeline cache *)

\* What a cached pipeline and a build in progress must satisfy, together.
CacheCurrent == BuildIsCurrent /\ StaleOnlyByRace

\* An entry made with an eviction leaves nothing cached, and a build in
\* progress marked.
LEMMA EvictCurrent ==
  ASSUME Evict, worker' = worker
  PROVE  CacheCurrent'
<1>1. pipeline' = Nil /\ (worker' # Nil => raced')
  BY DEF Evict
<1>. QED
  BY <1>1 DEF CacheCurrent, BuildIsCurrent, StaleOnlyByRace

\* A step that touches none of the four leaves them as they were.
LEMMA SameCurrent ==
  ASSUME CacheCurrent, UNCHANGED <<entry, pipeline, worker, raced>>
  PROVE  CacheCurrent'
  BY DEF CacheCurrent, BuildIsCurrent, StaleOnlyByRace

LEMMA RemovalCurrent ==
  ASSUME Typed, CacheCurrent, Removal
  PROVE  CacheCurrent'
<1>. USE DEF libraryVars
<1>1. CASE RetirePipeline
  BY <1>1, EvictCurrent DEF RetirePipeline
<1>2. CASE RetireAnalytics \/ RetireAssociator \/ RetireFails \/ RetireRadar
  <2>1. UNCHANGED <<entry, pipeline, worker, raced>>
    BY <1>2 DEF RetireAnalytics, RetireAssociator, RetireFails, RetireRadar, registryVars, libraryVars
  <2>. QED
    BY <2>1, SameCurrent
<1>3. CASE Retire \/ LetGo \/ Prune
  <2>1. entry' = Nil
    BY <1>3 DEF Retire, LetGo, Prune, LeaveAhead, Leave
  <2>2. Nil \notin Placed
    BY GeometryAssumption
  <2>. QED
    BY <2>1, <2>2 DEF CacheCurrent, BuildIsCurrent, StaleOnlyByRace
<1>4. CASE EvictStale
  <2>1. pipeline' = Nil /\ UNCHANGED <<entry, worker, raced>>
    BY <1>4 DEF EvictStale, registryVars
  <2>. QED
    BY <2>1 DEF CacheCurrent, BuildIsCurrent, StaleOnlyByRace
<1>. QED
  BY <1>1, <1>2, <1>3, <1>4 DEF Removal

LEMMA NextCurrent ==
  ASSUME Typed, CacheCurrent, [Next]_vars
  PROVE  CacheCurrent'
<1>1. ASSUME NEW c \in Conns, NEW d \in Declared, TcpConfig(c, d)
      PROVE  CacheCurrent'
  <2>1. worker' = worker /\ entry' = Canon[d]
    BY <1>1 DEF TcpConfig, Enter
  <2>2. CASE ConfigChanged(d)
    BY <1>1, <2>1, <2>2, EvictCurrent DEF TcpConfig
  <2>3. CASE ~ConfigChanged(d)
    <3>1. UNCHANGED <<entry, pipeline, worker, raced>>
      BY <1>1, <2>1, <2>3 DEF TcpConfig, ConfigChanged
    <3>. QED
      BY <3>1, SameCurrent
  <2>. QED
    BY <2>2, <2>3
<1>2. ASSUME NEW r \in Requests, RegisterWithPipeline(r)
      PROVE  CacheCurrent'
  BY <1>2, EvictCurrent DEF RegisterWithPipeline
<1>3. ASSUME NEW p \in Posts, PostDetections(p)
      PROVE  CacheCurrent'
  <2>1. entry' \notin Placed
    BY <1>3, GeometryAssumption DEF PostDetections, Enter
  <2>. QED
    BY <2>1 DEF CacheCurrent, BuildIsCurrent, StaleOnlyByRace
<1>4. ASSUME NEW p \in Posts, NEW d \in Declared, BulkEntry(p, d)
      PROVE  CacheCurrent'
  <2>1. CASE BulkReplaces(d)
    BY <1>4, <2>1, EvictCurrent DEF BulkEntry
  <2>2. CASE ~BulkReplaces(d)
    <3>1. UNCHANGED <<entry, pipeline, worker, raced>>
      BY <1>4, <2>2 DEF BulkEntry, registryVars
    <3>. QED
      BY <3>1, SameCurrent
  <2>. QED
    BY <2>1, <2>2
<1>5. CASE Lookup
  <2>1. worker' = entry' /\ pipeline' = Nil
    BY <1>5 DEF Lookup, registryVars
  <2>. QED
    BY <2>1 DEF CacheCurrent, BuildIsCurrent, StaleOnlyByRace
<1>6. CASE Store
  <2>1. worker # Nil /\ pipeline' = worker /\ worker' = Nil /\ entry' = entry /\ raced' = raced
    BY <1>6 DEF Store, registryVars
  <2>. QED
    BY <2>1 DEF CacheCurrent, BuildIsCurrent, StaleOnlyByRace
<1>7. CASE Removal
  BY <1>7, RemovalCurrent
<1>8. CASE \/ \E c \in Conns : TcpAcked(c) \/ TcpAckFails(c)
           \/ \E r \in Requests :
                \/ \E d \in Declared : PutConfig(r, d)
                \/ Recover(r) \/ ReadConfig(r)
           \/ RegisterAnalytics \/ RegistrationFails
           \/ \E j \in 1..Len(jobs) : RegisterAssociator(j)
           \/ UNCHANGED vars
  <2>1. UNCHANGED <<entry, pipeline, worker, raced>>
    BY <1>8 DEF TcpAcked, TcpAckFails, PutConfig, Recover, ReadConfig, RegisterAnalytics, RegistrationFails,
                RegisterAssociator, registryVars, vars
  <2>. QED
    BY <2>1, SameCurrent
<1>. QED
  BY <1>1, <1>2, <1>3, <1>4, <1>5, <1>6, <1>7, <1>8 DEF Next, Removal

(* However registrations, builds and removals interleave, the pipeline of a *)
(* placed node is stale only when its registry entry changed in the middle  *)
(* of its build.                                                            *)
THEOREM StaleMeansRaced == Spec => []StaleOnlyByRace
<1>1. Init => Typed /\ CacheCurrent
  <2>1. Init => CacheCurrent
    BY DEF Init, CacheCurrent, BuildIsCurrent, StaleOnlyByRace
  <2>. QED
    BY <2>1, InitTyped
<1>2. Typed /\ CacheCurrent /\ [Next]_vars => Typed' /\ CacheCurrent'
  BY NextTyped, NextCurrent
<1>3. CacheCurrent => StaleOnlyByRace
  BY DEF CacheCurrent
<1>. QED
  BY <1>1, <1>2, <1>3, PTL DEF Spec

-----------------------------------------------------------------------------
(* The registration queue *)

LEMMA JobTyping == Typed => /\ jobs \in Seq([config : Configs, by : Handlers]) /\ Len(jobs) \in Nat
                            /\ \A i \in 1..Len(jobs) : jobs[i].config \in Configs /\ jobs[i].by \in Handlers
<1>. SUFFICES ASSUME Typed
              PROVE  /\ jobs \in Seq([config : Configs, by : Handlers]) /\ Len(jobs) \in Nat
                     /\ \A i \in 1..Len(jobs) : jobs[i].config \in Configs /\ jobs[i].by \in Handlers
  OBVIOUS
<1>. DEFINE T == [config : Configs, by : Handlers]
<1>1. jobs \in Seq(T)
  BY DEF Typed, TypeOK
<1>2. \A e \in T : e.config \in Configs /\ e.by \in Handlers
  OBVIOUS
<1>. HIDE DEF T
<1>3. \A i \in 1..Len(jobs) : jobs[i] \in T
  BY <1>1
<1>4. Len(jobs) \in Nat
  BY <1>1
<1>. QED
  BY <1>1, <1>2, <1>3, <1>4 DEF T

\* The job that is queued: where it is, and what stays where it was.
LEMMA SubmitAppends ==
  ASSUME Typed, NEW h \in Handlers, NEW c \in Configs, Submit(h, c)
  PROVE  /\ Len(jobs') = Len(jobs) + 1 /\ jobs' # <<>>
         /\ jobs'[Len(jobs')].config = c /\ jobs'[Len(jobs')].by = h
         /\ \A i \in 1..Len(jobs) : jobs'[i] = jobs[i]
<1>1. jobs' = Append(jobs, [config |-> c, by |-> h])
  BY DEF Submit
<1>. QED
  BY <1>1, JobTyping

LEMMA SubmitOrdered ==
  ASSUME Typed, Ordered, NEW h \in Handlers, NEW c \in Configs,
         Submit(h, c), UNCHANGED libraryVars
  PROVE  Ordered'
<1>1. ~astray' => c = entry'
  BY DEF Submit
<1>2. YoungestIsCurrent'
  BY <1>1, SubmitAppends DEF YoungestIsCurrent
<1>3. HalfRegistered'
  <2>1. jobs # <<>> => Len(jobs') # 1
    BY SubmitAppends, JobTyping
  <2>. QED
    BY <2>1, SubmitAppends DEF Ordered, HalfRegistered, libraryVars
<1>4. LibrariesAgree'
  BY SubmitAppends DEF LibrariesAgree
<1>5. OutIsDrained'
  BY <1>1, GeometryAssumption DEF OutIsDrained
<1>. QED
  BY <1>2, <1>3, <1>4, <1>5 DEF Ordered

\* A step of a handler with no job.
LEMMA SameOrdered ==
  ASSUME Ordered, UNCHANGED <<entry, jobs, libraryVars, retiring, astray>>
  PROVE  Ordered'
  BY DEF Ordered, YoungestIsCurrent, HalfRegistered, LibrariesAgree, OutIsDrained, libraryVars

\* A node that leaves with no job queued; the libraries come next.
LEMMA LeaveOrdered ==
  ASSUME Ordered, LeaveAhead, retiring' = "pipeline", UNCHANGED <<jobs, libraryVars>>
  PROVE  Ordered'
<1>1. entry' = Nil /\ (~astray' => jobs' = <<>>)
  BY DEF LeaveAhead, Leave
<1>. QED
  BY <1>1 DEF Ordered, YoungestIsCurrent, HalfRegistered, LibrariesAgree, OutIsDrained, libraryVars

LEMMA RemovalOrdered ==
  ASSUME Typed, Ordered, Removal
  PROVE  Ordered'
<1>. USE DEF Ordered, YoungestIsCurrent, HalfRegistered, LibrariesAgree, OutIsDrained
<1>1. CASE Retire \/ LetGo
  BY <1>1, LeaveOrdered DEF Retire, LetGo
<1>2. CASE RetirePipeline
  BY <1>2 DEF RetirePipeline, registryVars, libraryVars
<1>3. CASE RetireAnalytics
  BY <1>3 DEF RetireAnalytics, registryVars, Told
<1>4. CASE RetireAssociator
  BY <1>4 DEF RetireAssociator, registryVars
<1>5. CASE RetireFails
  BY <1>5 DEF RetireFails, registryVars, libraryVars
<1>6. CASE RetireRadar \/ EvictStale
  BY <1>6 DEF RetireRadar, EvictStale, registryVars, libraryVars
<1>7. CASE Prune
  BY <1>7 DEF Prune, libraryVars
<1>. QED
  BY <1>1, <1>2, <1>3, <1>4, <1>5, <1>6, <1>7 DEF Removal

\* The oldest job is done: the rest keep their order, and the youngest is
\* the same or was the one done.
LEMMA DequeueShifts ==
  ASSUME Typed, jobs # <<>>, Dequeue(1)
  PROVE  /\ Len(jobs') = Len(jobs) - 1 /\ Len(jobs') \in Nat
         /\ \A i \in 1..Len(jobs') : jobs'[i] = jobs[i + 1] /\ i + 1 \in 1..Len(jobs)
         /\ jobs' # <<>> => jobs'[Len(jobs')] = jobs[Len(jobs)]
         /\ jobs' = <<>> => Len(jobs) = 1
<1>1. Len(jobs) \in Nat \ {0}
  BY JobTyping
<1>2. /\ Len(jobs') = Len(jobs) - 1 /\ jobs' \in Seq([config : Configs, by : Handlers])
      /\ \A i \in 1..Len(jobs') : jobs'[i] = IF i < 1 THEN jobs[i] ELSE jobs[i + 1]
  <2>1. 1 \in 1..Len(jobs)
    BY <1>1
  <2>. QED
    BY <2>1, DequeueTyped, Zenon
<1>3. Len(jobs') \in Nat
  BY <1>1, <1>2
<1>4. ASSUME NEW i \in 1..Len(jobs')
      PROVE  jobs'[i] = jobs[i + 1] /\ i + 1 \in 1..Len(jobs)
  BY <1>1, <1>2, <1>3
<1>5. ASSUME jobs' # <<>>
      PROVE  jobs'[Len(jobs')] = jobs[Len(jobs)]
  <2>1. Len(jobs') \in 1..Len(jobs') /\ Len(jobs') + 1 = Len(jobs)
    BY <1>1, <1>2, <1>3, <1>5
  <2>. QED
    BY <1>4, <2>1
<1>6. ASSUME jobs' = <<>>
      PROVE  Len(jobs) = 1
  BY <1>1, <1>2, <1>6
<1>. QED
  BY <1>2, <1>3, <1>4, <1>5, <1>6

LEMMA JobOrdered ==
  ASSUME Typed, Ordered,
         \/ RegisterAnalytics \/ RegistrationFails
         \/ \E j \in 1..Len(jobs) : RegisterAssociator(j)
  PROVE  Ordered'
<1>. USE DEF Ordered, YoungestIsCurrent, HalfRegistered, LibrariesAgree, OutIsDrained
<1>1. CASE RegisterAnalytics
  <2>1. jobs # <<>> /\ UNCHANGED <<jobs, entry, astray>>
    BY <1>1 DEF RegisterAnalytics, registryVars
  <2>2. analytics' = jobs[1].config
    BY <1>1, JobTyping DEF RegisterAnalytics
  <2>. QED
    BY <2>1, <2>2
<1>2. CASE RegistrationFails
  <2>1. /\ jobs # <<>> /\ Dequeue(1) /\ entry' = entry /\ step' = "start"
        /\ astray' = (astray \/ Len(jobs) = 1)
    BY <1>2 DEF RegistrationFails, registryVars
  <2>. QED
    BY <2>1, DequeueShifts
<1>3. CASE \E j \in 1..Len(jobs) : RegisterAssociator(j)
  <2>1. jobs # <<>> /\ Dequeue(1) /\ UNCHANGED <<entry, astray, analytics>>
    BY <1>3, JobTyping DEF RegisterAssociator, Taken, registryVars
  <2>2. step = "associator" /\ step' = "start" /\ geometry' = jobs[1].config
    BY <1>3 DEF RegisterAssociator, Taken
  <2>. QED
    BY <2>1, <2>2, DequeueShifts
<1>. QED
  BY <1>1, <1>2, <1>3

LEMMA TcpOrdered ==
  ASSUME Typed, Ordered, NEW c \in Conns,
         TcpAcked(c) \/ TcpAckFails(c) \/ \E d \in Declared : TcpConfig(c, d)
  PROVE  Ordered'
<1>0. c \in Handlers
  BY DEF Handlers
<1>1. CASE TcpAcked(c)
  <2>1. held[c] \in Configs /\ Submit(c, held[c]) /\ UNCHANGED libraryVars
    BY <1>0, <1>1 DEF TcpAcked, Typed, HeldTyped
  <2>. QED
    BY <1>0, <2>1, SubmitOrdered
<1>2. CASE \E d \in Declared : TcpConfig(c, d)
  <2>. PICK d \in Declared : TcpConfig(c, d)
    BY <1>2
  <2>1. /\ UNCHANGED <<jobs, libraryVars, retiring>> /\ entry' = Canon[d]
        /\ astray' = (astray \/ entry # Canon[d])
    BY DEF TcpConfig, Enter, ConfigChanged
  <2>. QED
    BY <2>1 DEF Ordered, YoungestIsCurrent, HalfRegistered, LibrariesAgree, OutIsDrained, libraryVars
<1>3. CASE TcpAckFails(c)
  BY <1>3, SameOrdered DEF TcpAckFails, registryVars
<1>. QED
  BY <1>1, <1>2, <1>3

LEMMA RequestOrdered ==
  ASSUME Typed, Ordered, NEW r \in Requests,
         \/ \E d \in Declared : PutConfig(r, d)
         \/ Recover(r) \/ ReadConfig(r) \/ RegisterWithPipeline(r)
  PROVE  Ordered'
<1>0. r \in Handlers
  BY DEF Handlers
<1>1. CASE RegisterWithPipeline(r)
  <2>1. held[r] \in Declared
    BY <1>0, <1>1 DEF RegisterWithPipeline, Typed, HeldTyped
  <2>2. Canon[held[r]] \in Configs /\ Submit(r, Canon[held[r]]) /\ UNCHANGED libraryVars
    BY <1>1, <2>1, CanonTyped DEF RegisterWithPipeline
  <2>. QED
    BY <1>0, <2>2, SubmitOrdered
<1>2. CASE \/ \E d \in Declared : PutConfig(r, d)
           \/ Recover(r) \/ ReadConfig(r)
  BY <1>2, SameOrdered DEF PutConfig, Recover, ReadConfig, registryVars
<1>. QED
  BY <1>1, <1>2

LEMMA PostOrdered ==
  ASSUME Typed, Ordered, NEW p \in Posts,
         PostDetections(p) \/ \E d \in Declared : BulkEntry(p, d)
  PROVE  Ordered'
<1>0. p \in Handlers
  BY DEF Handlers
<1>1. CASE PostDetections(p)
  <2>1. Canon[Legacy] \in Configs
    BY GeometryAssumption, CanonTyped
  <2>2. Submit(p, Canon[Legacy]) /\ UNCHANGED libraryVars
    BY <1>1 DEF PostDetections
  <2>. QED
    BY <1>0, <2>1, <2>2, SubmitOrdered
<1>2. CASE \E d \in Declared : BulkEntry(p, d)
  <2>. PICK d \in Declared : BulkEntry(p, d)
    BY <1>2
  <2>1. UNCHANGED <<libraryVars, retiring>> /\ Canon[d] \in Configs
    BY CanonTyped DEF BulkEntry
  <2>2. CASE BulkReplaces(d)
    <3>1. Submit(p, Canon[d])
      BY <2>2 DEF BulkEntry
    <3>. QED
      BY <1>0, <2>1, <3>1, SubmitOrdered
  <2>3. CASE ~BulkReplaces(d)
    BY <2>1, <2>3, SameOrdered DEF BulkEntry, registryVars
  <2>. QED
    BY <2>2, <2>3
<1>. QED
  BY <1>1, <1>2

LEMMA NextOrdered ==
  ASSUME Typed, Ordered, [Next]_vars
  PROVE  Ordered'
<1>1. CASE Removal
  BY <1>1, RemovalOrdered
<1>2. CASE Lookup \/ Store \/ UNCHANGED vars
  BY <1>2, SameOrdered DEF Lookup, Store, registryVars, libraryVars, vars
<1>. QED
  BY <1>1, <1>2, TcpOrdered, RequestOrdered, PostOrdered, JobOrdered DEF Next, Removal

(* Whenever no job and no removal is under way, both libraries hold what    *)
(* the registry holds, the configuration or nothing, unless a handshake, a  *)
(* failed job or a removal left them apart as SettledAgrees lists.          *)
THEOREM SettledMeansAgreed == Spec => []SettledAgrees
<1>1. Init => Typed /\ Ordered
  <2>1. Init => Ordered
    BY DEF Init, Ordered, YoungestIsCurrent, HalfRegistered, LibrariesAgree, OutIsDrained
  <2>. QED
    BY <2>1, InitTyped
<1>2. Typed /\ Ordered /\ [Next]_vars => Typed' /\ Ordered'
  BY NextTyped, NextOrdered
<1>3. Ordered => SettledAgrees
  BY DEF Ordered, LibrariesAgree, SettledAgrees, Settled
<1>. QED
  BY <1>1, <1>2, <1>3, PTL DEF Spec
=============================================================================
