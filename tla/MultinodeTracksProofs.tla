----------------------- MODULE MultinodeTracksProofs -----------------------
(***************************************************************************)
(* Proofs about MultinodeTracks for every number of threads, tracks,       *)
(* places, passes and solves, and every value of the ages and intervals.   *)
(***************************************************************************)
EXTENDS MultinodeTracks, TLAPS

-----------------------------------------------------------------------------
(* Types *)

(* The bounds and the ages are natural numbers.                            *)
LEMMA Bounds ==
  /\ MaxTime \in Nat /\ MaxSolves \in Nat /\ MaxPasses \in Nat
  /\ Interval \in Nat /\ ClaimTTL \in Nat /\ Scores \subseteq Nat
  /\ \A i \in Items : /\ i.lane \in {"dark", "adsb", "follow"} /\ i.ids \subseteq Tids
                      /\ i.n \in Nat /\ i.pool \in Nat /\ i.more \subseteq Tids
BY SMT, TracksAssumption DEF TracksAssumption

LEMMA KeyFacts == Adsb \in Keys /\ Dark \subseteq Keys /\ Keys = {Adsb} \cup Dark
BY Zenon DEF Keys

LEMMA NoJobTyped == NoJob \in Job
<1>1. Adsb \in Keys /\ 0 \in Times
  BY SMT, Bounds, KeyFacts DEF Times
<1> QED  BY <1>1, SMT DEF NoJob, Job

LEMMA NoMemoryTyped == NoMemory \in [Tids -> Times \cup {Never}]
BY Zenon DEF NoMemory

(* An entry held is not the mark of an absent one.                         *)
LEMMA HeldIsNotGone == ASSUME NEW e \in Entry PROVE e # Gone
<1>1. e.state = "held" /\ Gone.state = "gone"
  BY SMT DEF Entry, Gone
<1> QED  BY <1>1, SMT

LEMMA InitTyped == ASSUME Init PROVE TypeOK
<1>1. StoreTyped
  BY SMT, Bounds, KeyFacts DEF Init, StoreTyped, Times, Live
<1>2. MemoTyped
  BY SMT, Bounds DEF Init, MemoTyped, Times
<1>3. ThreadsTyped
  BY SMT, Bounds, NoJobTyped DEF Init, ThreadsTyped
<1>4. AgentsTyped
  BY SMT, Bounds DEF Init, AgentsTyped
<1> QED  BY <1>1, <1>2, <1>3, <1>4 DEF TypeOK

LEMMA TickTyped == ASSUME TypeOK, Tick PROVE TypeOK'
<1>1. now \in Nat /\ now' = now + 1 /\ now' \in Times
  BY SMT, Bounds DEF Tick, TypeOK, StoreTyped, Times
<1>2. StoreTyped'
  BY <1>1, Zenon DEF Tick, TypeOK, StoreTyped, Live, storeVars
<1>3. MemoTyped'
  BY <1>1, SMT DEF Tick, TypeOK, MemoTyped, memoVars
<1>4. ThreadsTyped' /\ AgentsTyped'
  BY Zenon DEF Tick, TypeOK, ThreadsTyped, AgentsTyped, threadVars, agentVars
<1> QED  BY <1>2, <1>3, <1>4 DEF TypeOK

LEMMA TakeTyped == ASSUME TypeOK, NEW t \in Threads, Take(t) PROVE TypeOK'
<1>1. StoreTyped' /\ AgentsTyped'
  BY Zenon DEF Take, TypeOK, StoreTyped, AgentsTyped, Live, storeVars, agentVars
<1>2. MemoTyped'
  BY Zenon DEF Take, TypeOK, MemoTyped, memoVars
<1>3. PICK i \in Items, ts \in 0..now, k \in Keys :
        job' = [job EXCEPT ![t] =
          [lane |-> i.lane, ids |-> i.ids, n |-> i.n, pool |-> i.pool, more |-> i.more,
           ts |-> ts, key |-> k, chi2 |-> Never, at |-> Never]]
  BY Zenon DEF Take
<1>4. ts \in Times
  BY <1>3, SMT, Bounds DEF TypeOK, StoreTyped, Times
<1>5. [lane |-> i.lane, ids |-> i.ids, n |-> i.n, pool |-> i.pool, more |-> i.more,
       ts |-> ts, key |-> k, chi2 |-> Never, at |-> Never] \in Job
  BY <1>4, SMT, Bounds DEF Job
<1>6. job' \in [Threads -> Job]
  BY <1>3, <1>5, Zenon DEF TypeOK, ThreadsTyped
<1>7. ThreadsTyped'
  BY <1>6, SMT, Bounds DEF Take, TypeOK, ThreadsTyped
<1> QED  BY <1>1, <1>2, <1>7 DEF TypeOK

(* A thread let go of its item.                                            *)
LEMMA IdleTyped ==
  ASSUME ThreadsTyped, NEW t \in Threads, Idle(t), UNCHANGED solves PROVE ThreadsTyped'
BY NoJobTyped, SMT DEF ThreadsTyped, Idle

LEMMA RejectTyped == ASSUME TypeOK, NEW t \in Threads, Reject(t) PROVE TypeOK'
<1>1. StoreTyped' /\ AgentsTyped' /\ MemoTyped'
  BY Zenon
  DEF Reject, TypeOK, StoreTyped, AgentsTyped, MemoTyped, Live, storeVars, memoVars,
      agentVars
<1>2. ThreadsTyped'
  BY IdleTyped, Zenon DEF Reject, TypeOK
<1> QED  BY <1>1, <1>2 DEF TypeOK

(* However a solve is narrowed and widened, it is of a number of nodes and  *)
(* of tracks there are.                                                    *)
LEMMA SolvedTyped ==
  ASSUME NEW j \in Job, NEW s \in Solved(j) PROVE s.n \in Nat /\ s.ids \subseteq Tids
<1> DEFINE Sizes == [n : Nat, ids : SUBSET Tids]
<1>1. ASSUME NEW r \in Sizes PROVE Trimmed(r) \subseteq Sizes
  BY <1>1, SMT DEF Trimmed
<1>2. ASSUME NEW r \in Sizes PROVE Adopted(r, j) \subseteq Sizes
  <2>1. j.more \subseteq Tids /\ j.pool \in Nat
    BY SMT DEF Job
  <2> QED  BY <1>2, <2>1, SMT DEF Adopted
<1>3. [n |-> j.n, ids |-> j.ids] \in Sizes
  BY SMT DEF Job
<1> HIDE DEF Sizes
<1>4. PICK c, a : /\ c \in Trimmed([n |-> j.n, ids |-> j.ids])
                  /\ a \in Adopted(c, j) /\ s \in Trimmed(a)
  BY Zenon DEF Solved
<1>5. s \in Sizes
  <2>1. c \in Sizes  BY <1>1, <1>3, <1>4, Zenon
  <2>2. a \in Sizes  BY <1>2, <1>4, <2>1, Zenon
  <2> QED  BY <1>1, <1>4, <2>2, Zenon
<1> QED  BY <1>5, SMT DEF Sizes

LEMMA AcceptTyped == ASSUME TypeOK, NEW t \in Threads, Accept(t) PROVE TypeOK'
<1>1. StoreTyped' /\ AgentsTyped' /\ MemoTyped'
  BY Zenon
  DEF Accept, TypeOK, StoreTyped, AgentsTyped, MemoTyped, Live, storeVars, memoVars,
      agentVars
<1>2. PICK s \in Solved(job[t]) : job' = [job EXCEPT ![t] = Result(@, s)]
  BY Zenon DEF Accept
<1>3. job[t] \in Job /\ job \in [Threads -> Job]
  BY Zenon DEF TypeOK, ThreadsTyped
<1>4. Result(job[t], s) \in Job
  <2> DEFINE j == job[t]
             q == [j EXCEPT !.n = s.n]
  <2>1. s.n \in Nat /\ s.ids \in SUBSET Tids  BY <1>3, SolvedTyped, Zenon
  <2>2. j \in Job  BY <1>3
  <2> HIDE DEF j
  <2>3. q \in Job  BY <2>1, <2>2, SMT DEF Job
  <2> HIDE DEF q
  <2>4. [q EXCEPT !.ids = s.ids] \in Job  BY <2>1, <2>3, SMT DEF Job
  <2> QED  BY <2>4, Zenon DEF Result, q, j
<1>5. job' \in [Threads -> Job]
  BY <1>2, <1>3, <1>4, SMT
<1>6. ThreadsTyped'
  BY <1>5, SMT DEF Accept, TypeOK, ThreadsTyped
<1> QED  BY <1>1, <1>6 DEF TypeOK

LEMMA ClaimTyped == ASSUME TypeOK, NEW t \in Threads, Claim(t) PROVE TypeOK'
<1>1. StoreTyped' /\ AgentsTyped'
  BY Zenon DEF Claim, TypeOK, StoreTyped, AgentsTyped, Live, storeVars, agentVars
<1>2. CASE Idle(t) /\ UNCHANGED claims
  <2>1. ThreadsTyped'
    BY <1>2, IdleTyped, Zenon DEF Claim, TypeOK
  <2>2. MemoTyped'
    BY <1>2, Zenon DEF Claim, TypeOK, MemoTyped
  <2> QED  BY <1>1, <2>1, <2>2 DEF TypeOK
<1>3. CASE ~(Idle(t) /\ UNCHANGED claims)
  <2>1. PICK c \in Scores :
          /\ pc' = [pc EXCEPT ![t] = "publishing"]
          /\ job' = [job EXCEPT ![t] = Bid(job[t], c)]
          /\ claims' = [tid \in Tids |-> IF tid \in job[t].ids
                                         THEN [at |-> now, chi2 |-> c] ELSE claims[tid]]
    BY <1>3, Zenon DEF Claim, TypeOK, ThreadsTyped
  <2>2. job[t] \in Job /\ now \in Times /\ now \in Int /\ c \in Nat
    BY SMT, Bounds DEF TypeOK, ThreadsTyped, StoreTyped, Times
  <2>3. Bid(job[t], c) \in Job
    <3> DEFINE r == [job[t] EXCEPT !.chi2 = c]
    <3>1. r \in Job
      BY <2>2, SMT DEF Job
    <3>2. Bid(job[t], c) = [r EXCEPT !.at = now]
      BY DEF Bid
    <3> HIDE DEF r
    <3>3. [r EXCEPT !.at = now] \in Job
      BY <2>2, <3>1, SMT DEF Job
    <3> QED  BY <3>2, <3>3
  <2>4. job' \in [Threads -> Job]
    BY <2>1, <2>3, Zenon DEF TypeOK, ThreadsTyped
  <2>5. ThreadsTyped'
    BY <2>1, <2>4, SMT DEF Claim, TypeOK, ThreadsTyped
  <2>6. MemoTyped'
    BY <2>1, <2>2, SMT DEF Claim, TypeOK, MemoTyped
  <2> QED  BY <1>1, <2>5, <2>6 DEF TypeOK
<1> QED  BY <1>2, <1>3

-----------------------------------------------------------------------------
(* What a publication stores *)

LEMMA LiveEntry ==
  ASSUME StoreTyped, NEW k \in Live
  PROVE  k \in Keys /\ tracks[k] \in Entry
BY Zenon DEF StoreTyped, Live

LEMMA CountTyped == ASSUME StoreTyped, NEW k \in Keys PROVE Count(k) \in Nat
<1>1. CASE tracks[k] = Gone
  BY <1>1, SMT DEF Count
<1>2. CASE tracks[k] # Gone
  BY <1>2, SMT DEF StoreTyped, Entry, Count
<1> QED  BY <1>1, <1>2

LEMMA FlagTyped == \A k : Flag(k) \in BOOLEAN
BY Zenon DEF Flag

LEMMA MemoryTyped ==
  ASSUME StoreTyped, NEW k \in Keys, NEW coast \in SUBSET Live
  PROVE  Memory(k, coast) \in [Tids -> Times \cup {Never}]
<1>1. \A o \in Live : tracks[o].recent \in [Tids -> Times \cup {Never}]
  BY LiveEntry, SMT DEF Entry
<1>2. \A o \in coast : tracks[o].recent \in [Tids -> Times \cup {Never}]
  BY <1>1, Zenon
<1>3. CASE coast # {}
  <2>1. (CHOOSE o \in coast : TRUE) \in coast
    BY <1>3, Zenon
  <2> QED  BY <1>1, <1>2, <2>1, NoMemoryTyped, Zenon DEF Memory, Live
<1>4. CASE coast = {}
  BY <1>1, <1>4, NoMemoryTyped, Zenon DEF Memory, Live
<1> QED  BY <1>3, <1>4

LEMMA MergedTyped ==
  ASSUME NEW j \in Job, NEW memory \in [Tids -> Times \cup {Never}]
  PROVE  Merged(j, memory) \in [Tids -> Times \cup {Never}]
<1>1. j.ts \in Times
  BY SMT DEF Job
<1> QED  BY <1>1, Zenon DEF Merged

(* The most solves among entries is one of their counts.                   *)
LEMMA MostTyped ==
  ASSUME StoreTyped, NEW K \in SUBSET Keys, NEW most \in Most(K) PROVE most \in Nat
BY CountTyped, Zenon DEF Most

(* The store keeps its type and holds the key it was given, less the       *)
(* entries retired by it.                                                  *)
LEMMA StoreKeeps ==
  ASSUME StoreTyped, NEW j \in Job, NEW k \in Keys, NEW retired, NEW coast,
         NEW most \in Nat, coast \subseteq Live
  PROVE  /\ Stored(j, k, retired, coast, most) \in [Keys -> Entry \cup {Gone}]
         /\ \A o \in Keys : Stored(j, k, retired, coast, most)[o] # Gone
                            <=> o = k \/ (o \in Live \ (retired \cup coast))
<1> DEFINE seen == Merged(j, Memory(k, coast))
           odd  == j.ids \cap Odd # {} \/ (\E p \in coast \cup {k} : Flag(p))
           e    == [state |-> "held", ts |-> j.ts, n |-> j.n, src |-> j.ids,
                    count |-> 1 + most, anom |-> odd, recent |-> seen]
           f    == Stored(j, k, retired, coast, most)
<1>1. j.ts \in Times /\ j.n \in Nat /\ j.ids \in SUBSET Tids
  BY SMT DEF Job
<1>2. seen \in [Tids -> Times \cup {Never}]
  BY MemoryTyped, MergedTyped, Zenon
<1>3. odd \in BOOLEAN
  BY Zenon
<1>4. 1 + most \in Nat
  BY SMT
<1>5. f = [o \in Keys |-> IF o = k THEN e
                          ELSE IF o \in retired \cup coast THEN Gone ELSE tracks[o]]
  BY DEF Stored
<1> HIDE DEF seen, odd
<1>6. e \in Entry
  BY <1>1, <1>2, <1>3, <1>4, Zenon DEF Entry
<1>7. e # Gone
  BY <1>6, HeldIsNotGone
<1> HIDE DEF e, f
<1>8. f \in [Keys -> Entry \cup {Gone}]
  BY <1>5, <1>6, Zenon DEF StoreTyped
<1>9. \A o \in Keys : f[o] # Gone <=> o = k \/ (o \in Live \ (retired \cup coast))
  BY <1>5, <1>7, Zenon DEF Live
<1> QED  BY <1>8, <1>9 DEF f

(* A key decided on is in the store, the transponder's, or named after the *)
(* solve.                                                                  *)
LEMMA DecisionFrom ==
  ASSUME StoreTyped, NEW j \in Job, NEW near \in SUBSET (Live \cap Dark),
         NEW d \in Decision(j, near), d[2] # "shadowed"
  PROVE  d[1] \in Keys
<1> DEFINE followed == Followed(j)
           links == {k \in followed \cap near : Shared(j, k) >= MinJoin}
           weak  == {k \in followed \cap near : Shared(j, k) >= 1}
           best  == (InScan(j) \ followed) \cap near
           fresh == {j.ts} \X Spots
<1>1. links \subseteq Keys /\ best \subseteq Keys /\ Live \subseteq Keys
  BY Zenon DEF Live
<1>2. fresh \subseteq Keys
  <2>1. j.ts \in Times
    BY SMT DEF Job
  <2>2. {j.ts} \X Spots \subseteq Times \X Spots
    BY <2>1, SMT
  <2> QED  BY <2>2, KeyFacts, Zenon DEF Dark
<1>3. \/ d = <<Adsb, "adsb">>
      \/ d = <<j.key, "anchor">> /\ j.key \in Live
      \/ d \in links \X {"tracks"} \/ d \in weak \X {"shadowed"}
      \/ d \in followed \X {"shadowed"} \/ d \in best \X {"near"}
      \/ d \in fresh \X {"minted"}
  BY SMT DEF Decision, Anchored
<1> HIDE DEF followed, links, weak, best, fresh
<1>4. ~ (d \in weak \X {"shadowed"} \/ d \in followed \X {"shadowed"})
  BY SMT
<1>5. CASE d = <<Adsb, "adsb">>
  BY <1>5, KeyFacts, SMT
<1>6. CASE d = <<j.key, "anchor">> /\ j.key \in Live
  BY <1>1, <1>6, SMT
<1>7. CASE d \in links \X {"tracks"} \/ d \in best \X {"near"}
  BY <1>1, <1>7, SMT
<1>8. CASE d \in fresh \X {"minted"}
  BY <1>2, <1>8, SMT
<1> QED  BY <1>3, <1>4, <1>5, <1>6, <1>7, <1>8

-----------------------------------------------------------------------------
(* The remaining steps keep the types *)

(* What the publication of a key does, in terms its callers need.          *)
PublishesAt(t, k, K) ==
  /\ k \in Keys /\ K \subseteq Live \ {k}
  /\ tracks' \in [Keys -> Entry \cup {Gone}]
  /\ Live' = (Live \ K) \cup {k}
  /\ hexes' = hexes \ K /\ crossed' = crossed \cup (K \cap Unshown)
  /\ minted' = minted \cup ({k} \ {Adsb})
  /\ job' = [job EXCEPT ![t].key = k]
  /\ pc' = [pc EXCEPT ![t] = "recording"]

LEMMA PublishSteps ==
  ASSUME TypeOK, NEW t \in Threads, Publish(t)
  PROVE  \/ Idle(t) /\ UNCHANGED storeVars
         \/ \E k \in Keys, K \in SUBSET Keys : PublishesAt(t, k, K)
<1> DEFINE Publication(d, retired, coast, most) ==
             /\ tracks' = Stored(job[t], d[1], retired, coast, most)
             /\ Forget(retired \cup coast)
             /\ minted' = minted \cup ({d[1]} \ {Adsb})
             /\ job' = [job EXCEPT ![t].key = d[1]]
             /\ pc' = [pc EXCEPT ![t] = "recording"]
           Outcome(d) ==
             IF d[2] = "shadowed"
             THEN Idle(t) /\ UNCHANGED storeVars
             ELSE \E retired \in SUBSET SharesTracks(job[t], d[1]) :
                  \E coast \in {{}} \cup {{o} : o \in Coasting(job[t], d[1], d[2]) \ retired} :
                  \E most \in Most(retired \cup coast \cup {d[1]}) :
                    Publication(d, retired, coast, most)
<1>0. PICK near : near \in SUBSET (Live \cap Dark)
                  /\ \E d \in Decision(job[t], near) : Outcome(d)
  BY Zenon DEF Publish
<1>1. PICK d : d \in Decision(job[t], near) /\ Outcome(d)
  BY <1>0, Zenon
<1>2. CASE d[2] = "shadowed"
  BY <1>1, <1>2, Zenon
<1>3. CASE d[2] # "shadowed"
  <2>a. PICK retired :
          /\ retired \in SUBSET SharesTracks(job[t], d[1])
          /\ \E coast \in {{}} \cup {{o} : o \in Coasting(job[t], d[1], d[2]) \ retired} :
             \E most \in Most(retired \cup coast \cup {d[1]}) :
               Publication(d, retired, coast, most)
    BY <1>1, <1>3, Zenon
  <2>b. PICK coast :
          /\ coast \in {{}} \cup {{o} : o \in Coasting(job[t], d[1], d[2]) \ retired}
          /\ \E most \in Most(retired \cup coast \cup {d[1]}) :
               Publication(d, retired, coast, most)
    BY <2>a, Zenon
  <2>1. PICK most : most \in Most(retired \cup coast \cup {d[1]})
                    /\ Publication(d, retired, coast, most)
    BY <2>b, Zenon
  <2>2. job[t] \in Job /\ StoreTyped
    BY Zenon DEF TypeOK, ThreadsTyped
  <2>3. d[1] \in Keys
    BY <1>0, <1>1, <1>3, <2>2, DecisionFrom, Zenon
  <2>4. retired \subseteq Live \ {d[1]} /\ Live \subseteq Keys
    BY <2>a, Zenon DEF SharesTracks, Live
  <2>5. coast \subseteq Live \ {d[1]}
    BY <2>b, SMT DEF Coasting
  <2>6. most \in Nat
    BY <2>1, <2>2, <2>3, <2>4, <2>5, MostTyped, Zenon
  <2>7. /\ tracks' \in [Keys -> Entry \cup {Gone}]
        /\ Live' = (Live \ (retired \cup coast)) \cup {d[1]}
    <3>1. coast \subseteq Live
      BY <2>5, Zenon
    <3>2. tracks' = Stored(job[t], d[1], retired, coast, most)
      BY <2>1, Zenon
    <3>3. /\ tracks' \in [Keys -> Entry \cup {Gone}]
          /\ \A o \in Keys : tracks'[o] # Gone
                             <=> o = d[1] \/ (o \in Live \ (retired \cup coast))
      BY <2>2, <2>3, <2>6, <3>1, <3>2, StoreKeeps, SMT
    <3>4. Live' = {o \in Keys : tracks'[o] # Gone} /\ Live \subseteq Keys
      BY DEF Live
    <3> QED  BY <2>3, <3>3, <3>4, Zenon
  <2>8. minted' = minted \cup ({d[1]} \ {Adsb})
    BY <2>1, Zenon
  <2>9. PublishesAt(t, d[1], retired \cup coast)
    BY <2>1, <2>3, <2>4, <2>5, <2>7, <2>8, Zenon DEF PublishesAt, Forget
  <2> QED  BY <2>3, <2>4, <2>5, <2>9, Zenon
<1> QED  BY <1>2, <1>3

LEMMA PublishTyped == ASSUME TypeOK, NEW t \in Threads, Publish(t) PROVE TypeOK'
<1>1. MemoTyped' /\ AgentsTyped'
  BY Zenon DEF Publish, TypeOK, MemoTyped, AgentsTyped, memoVars, agentVars
<1>2. CASE Idle(t) /\ UNCHANGED storeVars
  <2>1. ThreadsTyped'
    BY <1>2, IdleTyped, Zenon DEF Publish, TypeOK
  <2>2. StoreTyped'
    BY <1>2, Zenon DEF Publish, TypeOK, StoreTyped, Live, storeVars
  <2> QED  BY <1>1, <2>1, <2>2 DEF TypeOK
<1>3. ASSUME NEW k \in Keys, NEW K \in SUBSET Keys, PublishesAt(t, k, K) PROVE TypeOK'
  <2>1. Live' \subseteq {Adsb} \cup minted' /\ minted' \subseteq Dark
    BY <1>3, KeyFacts, Zenon DEF PublishesAt, TypeOK, StoreTyped
  <2>2. crossed' \subseteq Keys /\ hexes' \subseteq Keys
    BY <1>3, Zenon DEF PublishesAt, TypeOK, StoreTyped
  <2>3. StoreTyped'
    BY <1>3, <2>1, <2>2, Zenon DEF Publish, PublishesAt, TypeOK, StoreTyped
  <2>4. [job[t] EXCEPT !.key = k] \in Job
    BY SMT DEF TypeOK, ThreadsTyped, Job
  <2>5. job' \in [Threads -> Job]
    BY <1>3, <2>4, SMT DEF PublishesAt, TypeOK, ThreadsTyped
  <2>6. ThreadsTyped'
    BY <1>3, <2>5, SMT DEF Publish, PublishesAt, TypeOK, ThreadsTyped
  <2> QED  BY <1>1, <2>3, <2>6 DEF TypeOK
<1> QED  BY <1>2, <1>3, PublishSteps, Zenon

LEMMA RecordTyped == ASSUME TypeOK, NEW t \in Threads, Record(t) PROVE TypeOK'
<1>1. StoreTyped' /\ AgentsTyped'
  BY Zenon DEF Record, TypeOK, StoreTyped, AgentsTyped, Live, storeVars, agentVars
<1>2. ThreadsTyped'
  BY IdleTyped, Zenon DEF Record, TypeOK
<1>3. job[t] \in Job /\ now \in Int
  BY SMT, Bounds DEF TypeOK, ThreadsTyped, StoreTyped, Times
<1>4. slots' \in [Tids -> [at : Int, n : Nat]] /\ \A tid \in Tids : slots'[tid].at <= now'
  BY <1>3, SMT DEF Record, TypeOK, MemoTyped, Job
<1>5. owned' \in [Dark -> Times \cup {Never}]
  BY <1>3, SMT DEF Record, TypeOK, MemoTyped, Job
<1>6. MemoTyped'
  BY <1>4, <1>5, Zenon DEF Record, TypeOK, MemoTyped
<1> QED  BY <1>1, <1>2, <1>6 DEF TypeOK

(* The known lane's entry is there after its publication.                  *)
LEMMA KnownSteps ==
  ASSUME TypeOK, NEW t \in Threads, KnownPublish(t)
  PROVE  /\ tracks' \in [Keys -> Entry \cup {Gone}]
         /\ Live' = Live \cup {Adsb}
<1>1. PICK ts \in 0..now :
        tracks' = [tracks EXCEPT ![Adsb] =
          [state |-> "held", ts |-> ts, n |-> 2, src |-> {}, count |-> 1 + Count(Adsb),
           anom |-> Flag(Adsb), recent |-> NoMemory]]
  BY Zenon DEF KnownPublish
<1> DEFINE e == [state |-> "held", ts |-> ts, n |-> 2, src |-> {}, count |-> 1 + Count(Adsb),
                 anom |-> Flag(Adsb), recent |-> NoMemory]
<1>2. ts \in Times
  BY <1>1, SMT, Bounds DEF TypeOK, StoreTyped, Times
<1>3. 1 + Count(Adsb) \in Nat /\ 2 \in Nat
  BY CountTyped, KeyFacts, SMT DEF TypeOK
<1>4. Flag(Adsb) \in BOOLEAN /\ NoMemory \in [Tids -> Times \cup {Never}]
  BY FlagTyped, NoMemoryTyped, Zenon
<1>5. e \in Entry
  BY <1>2, <1>3, <1>4, Zenon DEF Entry
<1>6. e # Gone
  BY <1>5, HeldIsNotGone
<1>7. tracks' = [tracks EXCEPT ![Adsb] = e]
  BY <1>1
<1> HIDE DEF e
<1>8. tracks' \in [Keys -> Entry \cup {Gone}]
  BY <1>5, <1>7, Zenon DEF TypeOK, StoreTyped
<1>9. \A o \in Keys : tracks'[o] # Gone <=> o = Adsb \/ tracks[o] # Gone
  BY <1>6, <1>7, Zenon DEF TypeOK, StoreTyped
<1>10. Live' = {o \in Keys : tracks'[o] # Gone} /\ Live = {o \in Keys : tracks[o] # Gone}
  BY DEF Live
<1> QED  BY <1>8, <1>9, <1>10, KeyFacts, Zenon

LEMMA KnownPublishTyped ==
  ASSUME TypeOK, NEW t \in Threads, KnownPublish(t) PROVE TypeOK'
<1>1. Live' \subseteq {Adsb} \cup minted'
  <2>1. Live' = Live \cup {Adsb} /\ minted' = minted
    BY KnownSteps, Zenon DEF KnownPublish
  <2> QED  BY <2>1, Zenon DEF TypeOK, StoreTyped
<1>2. StoreTyped'
  BY <1>1, KnownSteps, Zenon DEF KnownPublish, TypeOK, StoreTyped
<1>3. MemoTyped' /\ AgentsTyped'
  BY Zenon DEF KnownPublish, TypeOK, MemoTyped, AgentsTyped, memoVars, agentVars
<1>4. ThreadsTyped'
  BY SMT, Bounds DEF KnownPublish, TypeOK, ThreadsTyped
<1> QED  BY <1>2, <1>3, <1>4 DEF TypeOK

(* Entries popped: nothing is held that was not.                           *)
LEMMA PopSteps ==
  ASSUME TypeOK, NEW a \in Agents, Pop(a)
  PROVE  tracks' \in [Keys -> Entry \cup {Gone}] /\ Live' = Live \ todo[a]
<1>1. tracks' = [k \in Keys |-> IF k \in todo[a] THEN Gone ELSE tracks[k]]
  BY DEF Pop
<1>2. tracks' \in [Keys -> Entry \cup {Gone}]
  BY <1>1, Zenon DEF TypeOK, StoreTyped
<1>3. \A k \in Keys : tracks'[k] # Gone <=> tracks[k] # Gone /\ k \notin todo[a]
  BY <1>1, Zenon
<1>4. Live' = {k \in Keys : tracks'[k] # Gone} /\ Live = {k \in Keys : tracks[k] # Gone}
  BY DEF Live
<1> QED  BY <1>2, <1>3, <1>4, Zenon

LEMMA SnapshotTyped == ASSUME TypeOK, NEW a \in Agents, Snapshot(a) PROVE TypeOK'
<1>1. StoreTyped' /\ MemoTyped' /\ ThreadsTyped'
  BY Zenon
  DEF Snapshot, TypeOK, StoreTyped, MemoTyped, ThreadsTyped, Live, storeVars, memoVars,
      threadVars
<1>2. {k \in Live : Expired(k, now)} \subseteq Keys
  BY DEF Live
<1>3. stage' \in [Agents -> {"idle", "judged", "discarded", "swept", "building"}]
      /\ todo' \in [Agents -> SUBSET Keys]
  BY <1>2, SMT DEF Snapshot, TypeOK, AgentsTyped
<1>4. passes' \in [Agents -> 0..MaxPasses]
  BY SMT, Bounds DEF Snapshot, TypeOK, AgentsTyped
<1>5. flagged' \subseteq Keys
  BY Zenon DEF Snapshot, TypeOK, AgentsTyped
<1> QED  BY <1>1, <1>3, <1>4, <1>5 DEF TypeOK, AgentsTyped

LEMMA DiscardTyped == ASSUME TypeOK, NEW a \in Agents, Discard(a) PROVE TypeOK'
<1>1. StoreTyped' /\ MemoTyped' /\ ThreadsTyped'
  BY Zenon
  DEF Discard, DiscardHexes, TypeOK, StoreTyped, MemoTyped, ThreadsTyped, Live, memoVars,
      threadVars
<1>2. AgentsTyped'
  BY SMT DEF Discard, TypeOK, AgentsTyped
<1> QED  BY <1>1, <1>2 DEF TypeOK

LEMMA PopTyped == ASSUME TypeOK, NEW a \in Agents, Pop(a) PROVE TypeOK'
<1>1. Live' \subseteq {Adsb} \cup minted' /\ crossed' \subseteq Keys
  <2>1. Live' \subseteq Live /\ minted' = minted /\ Live \subseteq {Adsb} \cup minted
    BY PopSteps, Zenon DEF Pop, TypeOK, StoreTyped
  <2>2. todo[a] \subseteq Keys /\ crossed' = crossed \cup (todo[a] \cap Unshown)
    BY Zenon DEF Pop, TypeOK, AgentsTyped
  <2> QED  BY <2>1, <2>2, Zenon DEF TypeOK, StoreTyped
<1>2. StoreTyped'
  BY <1>1, PopSteps, Zenon DEF Pop, TypeOK, StoreTyped
<1>3. MemoTyped' /\ ThreadsTyped'
  BY Zenon DEF Pop, TypeOK, MemoTyped, ThreadsTyped, memoVars, threadVars
<1>4. AgentsTyped'
  BY SMT DEF Pop, TypeOK, AgentsTyped
<1> QED  BY <1>2, <1>3, <1>4 DEF TypeOK

LEMMA BuildFeedTyped == ASSUME TypeOK, BuildFeed PROVE TypeOK'
<1>1. StoreTyped' /\ MemoTyped' /\ ThreadsTyped'
  BY Zenon
  DEF BuildFeed, TypeOK, StoreTyped, MemoTyped, ThreadsTyped, Live, storeVars, memoVars,
      threadVars
<1>2. {k \in Live : Shown(k)} \subseteq Keys /\ flagged' \subseteq Keys
  BY Zenon DEF BuildFeed, Live
<1>3. AgentsTyped'
  BY <1>2, SMT DEF BuildFeed, TypeOK, AgentsTyped, Agents
<1> QED  BY <1>1, <1>3 DEF TypeOK

LEMMA ShowFeedTyped == ASSUME TypeOK, ShowFeed PROVE TypeOK'
<1>1. hexes' \subseteq Keys /\ crossed' \subseteq Keys
  <2>1. todo["feed"] \subseteq Keys
    BY Zenon DEF TypeOK, AgentsTyped, Agents
  <2>2. crossed' \subseteq crossed \cup todo["feed"]
    BY Zenon DEF ShowFeed
  <2>3. hexes' \subseteq hexes \cup flagged
    BY Zenon DEF ShowFeed
  <2> QED  BY <2>1, <2>2, <2>3, Zenon DEF TypeOK, StoreTyped, AgentsTyped
<1>2. StoreTyped' /\ MemoTyped' /\ ThreadsTyped'
  BY <1>1, Zenon
  DEF ShowFeed, TypeOK, StoreTyped, MemoTyped, ThreadsTyped, Live, memoVars, threadVars
<1>3. AgentsTyped'
  BY SMT DEF ShowFeed, TypeOK, AgentsTyped, Agents
<1> QED  BY <1>2, <1>3 DEF TypeOK

LEMMA StutterTyped == ASSUME TypeOK, UNCHANGED vars PROVE TypeOK'
BY Zenon
DEF TypeOK, StoreTyped, MemoTyped, ThreadsTyped, AgentsTyped, Live, vars, storeVars,
    memoVars, threadVars, agentVars

(* Every step keeps the types.                                             *)
LEMMA NextTyped == ASSUME TypeOK, [Next]_vars PROVE TypeOK'
BY TickTyped, BuildFeedTyped, ShowFeedTyped, TakeTyped, RejectTyped, AcceptTyped,
   ClaimTyped, PublishTyped, RecordTyped, KnownPublishTyped, SnapshotTyped, DiscardTyped,
   PopTyped, StutterTyped, Zenon
DEF Next, Solve, Collect

(* The types hold, whatever the sets and the bounds are.                   *)
THEOREM TypesHold == Spec => []TypeOK
BY InitTyped, NextTyped, PTL DEF Spec

-----------------------------------------------------------------------------
(* Anomaly hexes whose entry has gone *)

(* What a collector is about to pop has no hex left, or a feed build put    *)
(* it back.                                                                 *)
PopsAreClear ==
  \A a \in Agents : stage[a] = "discarded" => todo[a] \cap hexes \subseteq crossed

(* What a feed build is about to flag is still stored, or was removed while *)
(* the build was under way.                                                 *)
FlagsAreStored ==
  stage["feed"] = "building" => flagged \subseteq todo["feed"] /\ flagged \ Live \subseteq crossed

HexInv == OrphansByRace /\ PopsAreClear /\ FlagsAreStored

LEMMA InitHexes == ASSUME Init PROVE HexInv
<1>1. stage["feed"] = "idle"
  BY Zenon DEF Init, Agents
<1> QED  BY <1>1, SMT DEF Init, HexInv, OrphansByRace, PopsAreClear, FlagsAreStored

(* A step that leaves the hexes, the agents and the store alone, or only    *)
(* adds to the store, keeps it.                                             *)
LEMMA QuietHexes ==
  ASSUME HexInv, Live \subseteq Live', UNCHANGED <<hexes, crossed, stage, todo, flagged>>
  PROVE  HexInv'
BY Zenon DEF HexInv, OrphansByRace, PopsAreClear, FlagsAreStored

LEMMA PublishHexes ==
  ASSUME TypeOK, HexInv, NEW t \in Threads, Publish(t) PROVE HexInv'
<1>1. UNCHANGED <<stage, todo, flagged>>
  BY Zenon DEF Publish, agentVars
<1>2. CASE UNCHANGED storeVars
  BY <1>1, <1>2, QuietHexes, Zenon DEF storeVars, Live
<1>3. ASSUME NEW k \in Keys, NEW K \in SUBSET Keys, PublishesAt(t, k, K) PROVE HexInv'
  <2>1. Live' = (Live \ K) \cup {k} /\ hexes' = hexes \ K
        /\ crossed' = crossed \cup (K \cap Unshown)
    BY <1>3, Zenon DEF PublishesAt
  <2>2. OrphansByRace'
    BY <2>1, Zenon DEF HexInv, OrphansByRace
  <2>3. PopsAreClear'
    BY <1>1, <2>1, Zenon DEF HexInv, PopsAreClear
  <2>4. FlagsAreStored'
    BY <1>1, <2>1, Zenon DEF HexInv, FlagsAreStored, Unshown
  <2> QED  BY <2>2, <2>3, <2>4 DEF HexInv
<1> QED  BY <1>2, <1>3, PublishSteps, Zenon

LEMMA SnapshotHexes ==
  ASSUME TypeOK, HexInv, NEW a \in Agents, Snapshot(a) PROVE HexInv'
<1>1. UNCHANGED <<hexes, crossed, tracks, flagged>>
  BY Zenon DEF Snapshot, storeVars
<1>2. \A b \in Agents : /\ stage'[b] = stage[b] /\ todo'[b] = todo[b]
                        \/ stage'[b] \in {"judged", "swept"}
  BY SMT DEF Snapshot, TypeOK, AgentsTyped
<1>3. "feed" \in Agents
  BY DEF Agents
<1> QED
  BY <1>1, <1>2, <1>3, SMT
  DEF HexInv, OrphansByRace, PopsAreClear, FlagsAreStored, Live

LEMMA DiscardHexesKept ==
  ASSUME TypeOK, HexInv, NEW a \in Agents, Discard(a) PROVE HexInv'
<1>1. hexes' = hexes \ todo[a] /\ UNCHANGED <<crossed, tracks, flagged, todo>>
  BY Zenon DEF Discard, DiscardHexes
<1>2. \A b \in Agents : b # a => stage'[b] = stage[b]
  BY Zenon DEF Discard, TypeOK, AgentsTyped
<1>3. stage'[a] = "discarded" /\ "feed" \in Agents
  BY Zenon DEF Discard, TypeOK, AgentsTyped, Agents
<1>4. OrphansByRace'
  BY <1>1, Zenon DEF HexInv, OrphansByRace, Live
<1>5. PopsAreClear'
  BY <1>1, <1>2, Zenon DEF HexInv, PopsAreClear
<1>6. FlagsAreStored'
  BY <1>1, <1>2, <1>3, SMT DEF HexInv, FlagsAreStored, Live
<1> QED  BY <1>4, <1>5, <1>6 DEF HexInv

LEMMA PopHexes == ASSUME TypeOK, HexInv, NEW a \in Agents, Pop(a) PROVE HexInv'
<1>1. Live' = Live \ todo[a] /\ UNCHANGED <<hexes, flagged>>
  BY PopSteps, Zenon DEF Pop
<1>2. crossed' = crossed \cup (todo[a] \cap Unshown) /\ stage[a] = "discarded"
  BY Zenon DEF Pop
<1>3. \A b \in Agents : b # a => stage'[b] = stage[b] /\ todo'[b] = todo[b]
  BY Zenon DEF Pop, TypeOK, AgentsTyped
<1>4. stage'[a] \in {"swept", "idle"} /\ "feed" \in Agents
  BY SMT DEF Pop, TypeOK, AgentsTyped, Agents
<1>5. OrphansByRace'
  BY <1>1, <1>2, Zenon DEF HexInv, OrphansByRace, PopsAreClear
<1>6. PopsAreClear'
  BY <1>1, <1>2, <1>3, <1>4, SMT DEF HexInv, PopsAreClear
<1>7. FlagsAreStored'
  BY <1>1, <1>2, <1>3, <1>4, SMT DEF HexInv, FlagsAreStored, Unshown
<1> QED  BY <1>5, <1>6, <1>7 DEF HexInv

LEMMA BuildFeedHexes == ASSUME TypeOK, HexInv, BuildFeed PROVE HexInv'
<1>1. UNCHANGED <<hexes, crossed, tracks>>
  BY Zenon DEF BuildFeed, storeVars
<1>2. /\ stage'["feed"] = "building" /\ stage'["gc"] = stage["gc"] /\ todo'["gc"] = todo["gc"]
      /\ todo'["feed"] = {k \in Live : Shown(k)}
      /\ flagged' = {k \in Live : Shown(k) /\ Flag(k)}
  BY SMT DEF BuildFeed, TypeOK, AgentsTyped, Agents
<1>3. OrphansByRace' /\ FlagsAreStored'
  BY <1>1, <1>2, Zenon DEF HexInv, OrphansByRace, FlagsAreStored, Live
<1>4. PopsAreClear'
  BY <1>1, <1>2, SMT DEF HexInv, PopsAreClear, Agents
<1> QED  BY <1>3, <1>4 DEF HexInv

LEMMA ShowFeedHexes == ASSUME TypeOK, HexInv, ShowFeed PROVE HexInv'
<1>1. UNCHANGED tracks /\ stage["feed"] = "building"
  BY Zenon DEF ShowFeed
<1>2. hexes' = (hexes \ todo["feed"]) \cup flagged /\ crossed \subseteq crossed'
  BY Zenon DEF ShowFeed
<1>3. /\ stage'["feed"] = "idle" /\ stage'["gc"] = stage["gc"] /\ todo'["gc"] = todo["gc"]
  BY SMT DEF ShowFeed, TypeOK, AgentsTyped, Agents
<1>4. flagged \subseteq todo["feed"] /\ flagged \ Live \subseteq crossed
  BY <1>1, Zenon DEF HexInv, FlagsAreStored
<1>5. stage["gc"] = "discarded" => todo["feed"] \cap todo["gc"] \subseteq crossed'
  BY Zenon DEF ShowFeed
<1>6. OrphansByRace'
  BY <1>1, <1>2, <1>4, Zenon DEF HexInv, OrphansByRace, Live
<1>7. PopsAreClear'
  BY <1>2, <1>3, <1>4, <1>5, SMT DEF HexInv, PopsAreClear, Agents
<1>8. FlagsAreStored'
  BY <1>3, SMT DEF FlagsAreStored
<1> QED  BY <1>6, <1>7, <1>8 DEF HexInv

LEMMA NextHexes == ASSUME TypeOK, HexInv, [Next]_vars PROVE HexInv'
<1>1. ASSUME NEW t \in Threads, Take(t) \/ Reject(t) \/ Accept(t) \/ Claim(t) \/ Record(t)
      PROVE  HexInv'
  BY <1>1, QuietHexes, Zenon
  DEF Take, Reject, Accept, Claim, Record, storeVars, agentVars, Live
<1>2. ASSUME NEW t \in Threads, KnownPublish(t) PROVE HexInv'
  <2>1. Live \subseteq Live'
    BY <1>2, KnownSteps, Zenon
  <2> QED  BY <1>2, <2>1, QuietHexes, Zenon DEF KnownPublish, agentVars
<1>3. CASE Tick \/ UNCHANGED vars
  BY <1>3, QuietHexes, Zenon DEF Tick, vars, storeVars, agentVars, Live
<1> QED
  BY <1>1, <1>2, <1>3, PublishHexes, SnapshotHexes, DiscardHexesKept, PopHexes,
     BuildFeedHexes, ShowFeedHexes, Zenon
  DEF Next, Solve, Collect

(* No removal of its own leaves an anomaly hex without an entry.           *)
THEOREM OrphansOnlyByRace == Spec => []OrphansByRace
<1>1. HexInv => OrphansByRace
  BY DEF HexInv
<1> QED  BY <1>1, InitHexes, NextHexes, TypesHold, PTL DEF Spec

-----------------------------------------------------------------------------
(* The claim of an n=2 pairing *)

(* A thread with a claim: its tracks were claimed no earlier, and as long   *)
(* as the claim lives by nothing that fits worse.                           *)
Keeps(t) ==
  /\ job[t].at \in Int
  /\ \A tid \in job[t].ids :
       /\ tid \in Tids /\ job[t].at <= claims[tid].at
       /\ now - job[t].at <= ClaimTTL => claims[tid].chi2 <= job[t].chi2

ClaimInv ==
  \A t \in Threads :
    /\ pc[t] = "solving" => job[t].chi2 = Never
    /\ pc[t] = "publishing" /\ job[t].chi2 # Never => Keeps(t)

LEMMA InitClaims == ASSUME Init PROVE ClaimInv
BY Zenon DEF Init, ClaimInv

(* A thread whose item and claims stay as they are keeps them as the clock  *)
(* goes on.                                                                 *)
LEMMA KeepsOn ==
  ASSUME TypeOK, TypeOK', NEW t \in Threads, Keeps(t), job'[t] = job[t],
         UNCHANGED claims, now <= now'
  PROVE  Keeps(t)'
<1>1. now \in Int /\ now' \in Int
  BY SMT, Bounds DEF TypeOK, StoreTyped, Times
<1>2. job[t].at \in Int
  BY Zenon DEF Keeps
<1> QED  BY <1>1, <1>2, SMT, Bounds DEF Keeps

(* A step that claims nothing, ends or leaves what each thread is at.       *)
LEMMA QuietClaims ==
  ASSUME TypeOK, TypeOK', ClaimInv, UNCHANGED claims, now <= now',
         \A t \in Threads : \/ pc'[t] \in {"idle", "recording"}
                            \/ pc'[t] = pc[t] /\ job'[t] = job[t]
                            \/ pc'[t] = "publishing" /\ job'[t].chi2 = Never
                            \/ pc'[t] = "solving" /\ job'[t].chi2 = Never
  PROVE  ClaimInv'
<1> SUFFICES ASSUME NEW t \in Threads
             PROVE  /\ pc'[t] = "solving" => job'[t].chi2 = Never
                    /\ pc'[t] = "publishing" /\ job'[t].chi2 # Never => Keeps(t)'
  BY Zenon DEF ClaimInv
<1>1. CASE pc'[t] = pc[t] /\ job'[t] = job[t]
  BY <1>1, KeepsOn, Zenon DEF ClaimInv
<1>2. CASE ~ (pc'[t] = pc[t] /\ job'[t] = job[t])
  BY <1>2, SMT
<1> QED  BY <1>1, <1>2

LEMMA TimeGoes == ASSUME TypeOK, [Next]_vars PROVE now <= now' /\ now \in Int
<1>1. now \in Int
  BY SMT, Bounds DEF TypeOK, StoreTyped, Times
<1>2. now' = now \/ now' = now + 1
  BY Zenon
  DEF Next, Tick, BuildFeed, ShowFeed, Solve, Take, Reject, Accept, Claim, Publish, Record,
      KnownPublish, Collect, Snapshot, Discard, Pop, vars
<1> QED  BY <1>1, <1>2, SMT

LEMMA ClaimClaims ==
  ASSUME TypeOK, TypeOK', ClaimInv, NEW t \in Threads, Claim(t) PROVE ClaimInv'
<1>0. now' = now /\ now \in Int
  BY SMT, Bounds DEF Claim, TypeOK, StoreTyped, Times
<1>1. CASE Idle(t) /\ UNCHANGED claims
  <2>1. \A s \in Threads : pc'[s] = "idle" \/ (pc'[s] = pc[s] /\ job'[s] = job[s])
    BY <1>1, SMT DEF Idle, TypeOK, ThreadsTyped
  <2> QED  BY <1>0, <1>1, <2>1, QuietClaims, SMT
<1>2. CASE ~ (Idle(t) /\ UNCHANGED claims)
  <2>1. PICK c \in Scores :
          /\ ~Outbid(job[t].ids, c)
          /\ pc' = [pc EXCEPT ![t] = "publishing"]
          /\ job' = [job EXCEPT ![t] = Bid(job[t], c)]
          /\ claims' = [tid \in Tids |-> IF tid \in job[t].ids
                                         THEN [at |-> now, chi2 |-> c] ELSE claims[tid]]
    BY <1>2, Zenon DEF Claim, TypeOK, ThreadsTyped
  <2>2. \A s \in Threads : s # t => pc'[s] = pc[s] /\ job'[s] = job[s]
    BY <2>1, Zenon DEF TypeOK, ThreadsTyped
  <2>3. pc'[t] = "publishing" /\ job'[t] = Bid(job[t], c) /\ job[t] \in Job
    BY <2>1, Zenon DEF TypeOK, ThreadsTyped
  <2>4. job'[t].at = now /\ job'[t].chi2 = c /\ job'[t].ids = job[t].ids
    BY <2>3, SMT DEF Bid, Job
  <2>5. \A tid \in job[t].ids : tid \in Tids
    BY <2>3, SMT DEF Job
  <2>6. \A tid \in Tids :
          /\ tid \in job[t].ids => claims'[tid].at = now /\ claims'[tid].chi2 = c
          /\ tid \notin job[t].ids => claims'[tid] = claims[tid]
    BY <2>1, SMT
  <2>7. c \in Int /\ ClaimTTL \in Nat
    BY SMT, Bounds
  <2>8. Keeps(t)'
    BY <1>0, <2>4, <2>5, <2>6, <2>7, SMT DEF Keeps
  <2>9. ASSUME NEW s \in Threads, s # t, Keeps(s) PROVE Keeps(s)'
    <3>1. job'[s] = job[s] /\ job[s].at \in Int
      BY <2>2, <2>9, Zenon DEF Keeps
    <3>2. \A tid \in Tids : claims[tid].at \in Int /\ claims[tid].chi2 \in Int
                           /\ claims[tid].at <= now
      BY SMT DEF TypeOK, MemoTyped
    <3>3. job[s].chi2 \in Int
      <4>1. job[s].chi2 \in Scores \cup {Never}
        BY SMT DEF TypeOK, ThreadsTyped, Job
      <4>2. Scores \subseteq Int /\ Never \in Int
        <5>1. Never \in Int
          BY SMT DEF Never
        <5>2. Scores \subseteq Nat
          BY Bounds, Zenon
        <5> QED  BY <5>1, <5>2, SMT
      <4> QED  BY <4>1, <4>2, Zenon
    <3> SUFFICES ASSUME NEW tid \in job[s].ids
                 PROVE  /\ tid \in Tids /\ job[s].at <= claims'[tid].at
                        /\ now' - job[s].at <= ClaimTTL => claims'[tid].chi2 <= job[s].chi2
      BY <3>1, Zenon DEF Keeps
    <3>4. /\ tid \in Tids /\ job[s].at <= claims[tid].at
          /\ now - job[s].at <= ClaimTTL => claims[tid].chi2 <= job[s].chi2
      BY <2>9, Zenon DEF Keeps
    <3>5. CASE tid \notin job[t].ids
      BY <1>0, <2>6, <3>4, <3>5, SMT
    <3>6. CASE tid \in job[t].ids
      <4>1. claims'[tid].at = now /\ claims'[tid].chi2 = c
        BY <2>6, <3>4, <3>6, Zenon
      <4>2. now - claims[tid].at <= ClaimTTL => ~(claims[tid].chi2 < c)
        BY <2>1, <3>6, Zenon DEF Outbid, Holds
      <4> QED  BY <1>0, <2>7, <3>1, <3>2, <3>3, <3>4, <4>1, <4>2, SMT
    <3> QED  BY <3>5, <3>6
  <2> QED  BY <2>2, <2>3, <2>8, <2>9, SMT DEF ClaimInv
<1> QED  BY <1>1, <1>2

LEMMA NextClaims ==
  ASSUME TypeOK, TypeOK', ClaimInv, [Next]_vars PROVE ClaimInv'
<1>0. now <= now'
  BY TimeGoes
<1>1. ASSUME NEW t \in Threads, Take(t) PROVE ClaimInv'
  <2>1. UNCHANGED claims
    BY <1>1, Zenon DEF Take, memoVars
  <2>2. pc'[t] = "solving" /\ job'[t].chi2 = Never
    BY <1>1, SMT DEF Take, TypeOK, ThreadsTyped
  <2>3. \A s \in Threads : s # t => pc'[s] = pc[s] /\ job'[s] = job[s]
    BY <1>1, SMT DEF Take, TypeOK, ThreadsTyped
  <2> QED  BY <1>0, <2>1, <2>2, <2>3, QuietClaims, Zenon
<1>2. ASSUME NEW t \in Threads, Accept(t) PROVE ClaimInv'
  <2>1. UNCHANGED claims
    BY <1>2, Zenon DEF Accept, memoVars
  <2>2. job[t].chi2 = Never
    BY <1>2, Zenon DEF Accept, ClaimInv
  <2>3. pc'[t] = "publishing" /\ job'[t].chi2 = job[t].chi2
    <3>1. PICK s \in Solved(job[t]) : job' = [job EXCEPT ![t] = Result(@, s)]
      BY <1>2, Zenon DEF Accept
    <3>2. job[t] \in Job /\ job'[t] = Result(job[t], s)
      BY <3>1, SMT DEF TypeOK, ThreadsTyped
    <3>3. Result(job[t], s).chi2 = job[t].chi2
      BY <3>2, SMT DEF Job, Result
    <3> QED  BY <1>2, <3>2, <3>3, SMT DEF Accept, TypeOK, ThreadsTyped
  <2>4. \A s \in Threads : s # t => pc'[s] = pc[s] /\ job'[s] = job[s]
    BY <1>2, SMT DEF Accept, TypeOK, ThreadsTyped
  <2> QED  BY <1>0, <2>1, <2>2, <2>3, <2>4, QuietClaims, Zenon
<1>3. ASSUME NEW t \in Threads, Reject(t) \/ Record(t) PROVE ClaimInv'
  <2>1. UNCHANGED claims /\ Idle(t)
    BY <1>3, Zenon DEF Reject, Record, memoVars
  <2>2. \A s \in Threads : pc'[s] = "idle" \/ (pc'[s] = pc[s] /\ job'[s] = job[s])
    BY <2>1, SMT DEF Idle, TypeOK, ThreadsTyped
  <2> QED  BY <1>0, <2>1, <2>2, QuietClaims, SMT
<1>4. ASSUME NEW t \in Threads, Publish(t) PROVE ClaimInv'
  <2> DEFINE Let(s) == pc'[s] \in {"idle", "recording"} \/ (pc'[s] = pc[s] /\ job'[s] = job[s])
  <2>1. UNCHANGED claims
    BY <1>4, Zenon DEF Publish, memoVars
  <2>2. \A s \in Threads : Let(s)
    <3>1. CASE Idle(t)
      <4>1. pc'[t] = "idle"
        BY <3>1, SMT DEF Idle, TypeOK, ThreadsTyped
      <4>2. \A s \in Threads : s # t => pc'[s] = pc[s] /\ job'[s] = job[s]
        BY <3>1, SMT DEF Idle, TypeOK, ThreadsTyped
      <4> QED  BY <4>1, <4>2, Zenon
    <3>2. ASSUME NEW k \in Keys, NEW K \in SUBSET Keys, PublishesAt(t, k, K)
          PROVE  \A s \in Threads : Let(s)
      <4>1. pc'[t] = "recording"
        BY <3>2, SMT DEF PublishesAt, TypeOK, ThreadsTyped
      <4>2. \A s \in Threads : s # t => pc'[s] = pc[s] /\ job'[s] = job[s]
        BY <3>2, SMT DEF PublishesAt, TypeOK, ThreadsTyped
      <4> QED  BY <4>1, <4>2, Zenon
    <3> QED  BY <1>4, <3>1, <3>2, PublishSteps, Zenon
  <2> QED  BY <1>0, <2>1, <2>2, QuietClaims, Zenon
<1>5. ASSUME UNCHANGED <<claims, pc, job>> PROVE ClaimInv'
  BY <1>0, <1>5, QuietClaims, Zenon
<1>6. CASE Tick \/ BuildFeed \/ ShowFeed \/ UNCHANGED vars
  BY <1>5, <1>6, Zenon DEF Tick, BuildFeed, ShowFeed, vars, memoVars, threadVars
<1>7. ASSUME NEW a \in Agents, Collect(a) PROVE ClaimInv'
  BY <1>5, <1>7, Zenon DEF Collect, Snapshot, Discard, Pop, memoVars, threadVars
<1>8. ASSUME NEW t \in Threads, KnownPublish(t) PROVE ClaimInv'
  BY <1>5, <1>8, Zenon DEF KnownPublish, memoVars
<1>9. ASSUME NEW t \in Threads, Claim(t) PROVE ClaimInv'
  BY <1>9, ClaimClaims
<1> QED
  BY <1>1, <1>2, <1>3, <1>4, <1>6, <1>7, <1>8, <1>9, Zenon DEF Next, Solve

(* A claim is not taken over by a pairing that fits worse.                 *)
THEOREM ClaimsHeldByBest == Spec => []ClaimHeldByBest
<1>1. ClaimInv => ClaimHeldByBest
  BY Zenon DEF ClaimInv, Keeps, ClaimHeldByBest
<1> QED  BY <1>1, InitClaims, NextClaims, TypesHold, PTL DEF Spec
=============================================================================
