-------------------------- MODULE MultinodeTracks --------------------------
(***************************************************************************)
(* The store of multinode tracks: solver threads publish into it, the      *)
(* known lane overwrites it, two collectors expire it and the feed build   *)
(* reads it.                                                               *)
(*                                                                         *)
(* An item off the solver queue is tested against the resolve slots,       *)
(* solved, passed through the gates (an n=2 pairing must win the claim of  *)
(* its node tracks), given a key and stored under multinode_tracks_lock,   *)
(* and only then recorded in the slots.  The collector and the feed build  *)
(* each judge a snapshot of the store and evict after releasing the lock.  *)
(*                                                                         *)
(* Positions, fits and the filter are left out: which entries a solve is   *)
(* near enough to join, shadow, supersede or retire is chosen freely among *)
(* those the other guards leave.  A dark key is, as in the code, the time  *)
(* of the measurement and the rounded place of the solve that mints it, so *)
(* that copies of a candidate may mint one twice; one more key stands for  *)
(* a transponder's.  Time is counted in ticks.                             *)
(***************************************************************************)
EXTENDS Integers, FiniteSets

CONSTANTS
  Threads,     \* solver threads
  Tids,        \* tracks of the single-node trackers
  Odd,         \* those of them flagged anomalous
  Items,       \* candidates: [lane, ids, n, pool, more], pool the widest it
               \* may grow and more the tracks of the nodes it may adopt
  Spots,       \* places to three decimals, as keys have them
  Scores,      \* chi2 values of an n=2 fit that pass the confirmation limit
  Interval,    \* _SOLVER_RESOLVE_INTERVAL_S
  Refresh,     \* _SOLVER_RESOLVE_REFRESH_S
  ClaimTTL,    \* _TRACK_CLAIM_TTL_S
  DarkExpiry,  \* MN_DARK_EXPIRY_S
  AssistedExpiry, \* MN_ASSISTED_EXPIRY_S
  AssocAge,    \* _MN_ASSOC_MAX_AGE_S
  AssocBack,   \* _MN_ASSOC_MAX_NEG_DT_S
  Owned,       \* DARK_FOLLOW_OWN_S
  LinkAge,     \* TRACK_LINK_AGE_S
  OneShot,     \* MN_ONESHOT_TTL_S
  CoastMin,    \* MN_STALE_COAST_MIN_S
  MinJoin,     \* TRACK_LINK_MIN_SHARED_JOIN
  MinSolves,   \* MN_N2_MIN_SOLVES
  Lag,         \* bound: age of a measurement when its item is taken
  MaxTime, MaxSolves, MaxPasses \* bounds: ticks, items, passes

Never == -1
Times == 0..MaxTime
Dark  == Times \X Spots
Adsb  == <<Never, "adsb">>
Keys  == {Adsb} \cup Dark
Gone  == [state |-> "gone"]
NoJob == [lane |-> "dark", ids |-> {}, n |-> 0, pool |-> 0, more |-> {},
          ts |-> 0, key |-> Adsb, chi2 |-> Never, at |-> Never]
Agents == {"gc", "feed"}

ASSUME TracksAssumption ==
  /\ \A c \in {Interval, Refresh, ClaimTTL, DarkExpiry, AssistedExpiry, AssocAge,
               AssocBack, Owned, LinkAge, OneShot, CoastMin, MinJoin, MinSolves, Lag,
               MaxTime, MaxSolves, MaxPasses} : c \in Nat
  /\ Scores \subseteq Nat /\ Odd \subseteq Tids
  /\ \A i \in Items : /\ i.lane \in {"dark", "adsb", "follow"}
                      /\ i.ids \subseteq Tids /\ i.more \subseteq Tids
                      /\ i.n \in Nat /\ i.pool \in Nat /\ i.n <= i.pool

VARIABLES
  now,       \* the clock
  tracks,    \* multinode_tracks
  minted,    \* dark keys minted at some time
  hexes,     \* anomaly_hexes, by key
  slots,     \* _RECENT_SOLVES: [at, n] by track
  claims,    \* _TRACK_CLAIMS: [at, chi2] by track
  owned,     \* _last_follow_publish, by dark key
  pc, job,   \* where each thread stands, and its item
  stage, todo, \* where each agent stands, and the keys it works on
  flagged,   \* the anomalous entries of the build's snapshot
  crossed,   \* history: keys removed while a build could still show them
  solves, passes

storeVars  == <<tracks, minted, hexes, crossed>>
memoVars   == <<slots, claims, owned>>
threadVars == <<pc, job, solves>>
agentVars  == <<stage, todo, flagged, passes>>
vars == <<now, storeVars, memoVars, threadVars, agentVars>>

Live == {k \in Keys : tracks[k] # Gone}

Expired(k, at) == at - tracks[k].ts > (IF k = Adsb THEN AssistedExpiry ELSE DarkExpiry)

Idle(t) == pc' = [pc EXCEPT ![t] = "idle"] /\ job' = [job EXCEPT ![t] = NoJob]

\* The keys a feed build under way has still to show.
Unshown == IF stage["feed"] = "building" THEN todo["feed"] ELSE {}

-----------------------------------------------------------------------------
(* An item is taken *)

(* Each track was solved within the window, at no fewer nodes, and the     *)
(* candidate is not one of 3 or more nodes whose slots have all aged.      *)
Covered(i) ==
  /\ i.ids # {}
  /\ \A tid \in i.ids : slots[tid].at > now - Interval /\ slots[tid].n >= i.n
  /\ ~ (Refresh > 0 /\ i.n >= 3 /\ \A tid \in i.ids : slots[tid].at <= now - Refresh)

(* A stale item, or one the slots cover, ends here; a follow input names   *)
(* the key it was predicted from, which may have left the store.           *)
Take(t) ==
  /\ pc[t] = "idle" /\ solves < MaxSolves
  /\ solves' = solves + 1
  /\ \E i \in Items, ts \in 0..now, k \in Keys :
       /\ now - ts <= Lag /\ ~Covered(i)
       /\ IF i.lane = "follow" THEN k \in minted ELSE k = Adsb
       /\ job' = [job EXCEPT ![t] =
            [lane |-> i.lane, ids |-> i.ids, n |-> i.n, pool |-> i.pool, more |-> i.more,
             ts |-> ts, key |-> k, chi2 |-> Never, at |-> Never]]
  /\ pc' = [pc EXCEPT ![t] = "solving"]
  /\ UNCHANGED <<now, storeVars, memoVars, agentVars>>

-----------------------------------------------------------------------------
(* The gates *)

(* No solve, or one of the gates refuses it.                               *)
Reject(t) ==
  /\ pc[t] = "solving"
  /\ Idle(t)
  /\ UNCHANGED <<now, storeVars, memoVars, solves, agentVars>>

(* Consensus and trimming leave three nodes or more of four or more, and   *)
(* the tracks of those.                                                    *)
Trimmed(s) ==
  {s} \cup (IF s.n >= 4 THEN [n : 3..(s.n - 1), ids : SUBSET s.ids] ELSE {})

(* Nodes of the pool the solve vouches for join it with their tracks.      *)
Adopted(s, j) ==
  {s} \cup [n : (s.n + 1)..j.pool, ids : {s.ids \cup m : m \in SUBSET j.more}]

Solved(j) ==
  UNION {Trimmed(a) : a \in UNION {Adopted(c, j) : c \in Trimmed([n |-> j.n, ids |-> j.ids])}}

Result(j, s) == [[j EXCEPT !.n = s.n] EXCEPT !.ids = s.ids]

(* Solved and past the gates; an n=2 solve has one of its own.             *)
Accept(t) ==
  /\ pc[t] = "solving"
  /\ \E s \in Solved(job[t]) :
       /\ ~ (s.n = 2 /\ job[t].lane # "follow")
       /\ job' = [job EXCEPT ![t] = Result(@, s)]
  /\ pc' = [pc EXCEPT ![t] = "publishing"]
  /\ UNCHANGED <<now, storeVars, memoVars, solves, agentVars>>

Holds(tid) == now - claims[tid].at <= ClaimTTL

\* Mutation: one track won is enough.
OutbidOnAll(ids, c) == \A tid \in ids : Holds(tid) /\ claims[tid].chi2 < c

Outbid(ids, c) == \E tid \in ids : Holds(tid) /\ claims[tid].chi2 < c

Bid(j, c) == [[j EXCEPT !.chi2 = c] EXCEPT !.at = now]

(* The pairing takes both its tracks, or is refused and takes neither.     *)
Claim(t) ==
  /\ pc[t] = "solving" /\ job[t].n = 2 /\ job[t].lane # "follow"
  /\ \E c \in Scores :
       IF Outbid(job[t].ids, c)
       THEN Idle(t) /\ UNCHANGED claims
       ELSE /\ pc' = [pc EXCEPT ![t] = "publishing"]
            /\ job' = [job EXCEPT ![t] = Bid(@, c)]
            /\ claims' = [tid \in Tids |-> IF tid \in job[t].ids
                                           THEN [at |-> now, chi2 |-> c] ELSE claims[tid]]
  /\ UNCHANGED <<now, storeVars, slots, owned, solves, agentVars>>

-----------------------------------------------------------------------------
(* The key: multinode_key_decision *)

InScan(j) == {k \in Live \cap Dark : /\ j.ts - tracks[k].ts <= AssocAge
                                     /\ tracks[k].ts - j.ts <= AssocBack}

Linked(j, seen) == seen # Never /\ j.ts - seen <= LinkAge /\ seen - j.ts <= LinkAge

Shared(j, k) == Cardinality({tid \in j.ids : Linked(j, tracks[k].recent[tid])})

(* Keys the follow lane published on lately; an anchored solve sees none.  *)
Followed(j) ==
  IF j.lane = "follow" THEN {}
  ELSE {k \in InScan(j) : /\ owned[k] # Never
                          /\ j.ts - owned[k] <= Owned /\ owned[k] - j.ts <= Owned}

Anchored(j, near) == j.lane = "follow" /\ j.key \in Live \cap near

(* The key and how it was found, given the keys the solve landed near.  A   *)
(* new one is named after the time and the place: an entry that went, or    *)
(* one in the store that has moved on, may have had the name before.        *)
Decision(j, near) ==
  LET followed == Followed(j)
      links == {k \in followed \cap near : Shared(j, k) >= MinJoin}
      weak  == {k \in followed \cap near : Shared(j, k) >= 1}
      best  == (InScan(j) \ followed) \cap near
  IN CASE j.lane = "adsb" -> {<<Adsb, "adsb">>}
       [] Anchored(j, near) -> {<<j.key, "anchor">>}
       [] OTHER ->
            IF links # {} THEN links \X {"tracks"}
            ELSE IF weak # {} THEN weak \X {"shadowed"}
            ELSE (followed \X {"shadowed"}) \cup
                 (IF best # {} THEN best \X {"near"}
                  ELSE ({j.ts} \X Spots) \X {"minted"})

-----------------------------------------------------------------------------
(* Publication, under multinode_tracks_lock *)

SharesTracks(j, k) ==
  {o \in Live \ {k} : tracks[o].src \cap j.ids # {}}

(* Dark entries a freshly minted key may be the reappearance of.           *)
Coasting(j, k, how) ==
  IF how = "minted"
  THEN {o \in (Live \cap Dark) \ {k} : j.ts - tracks[o].ts >= CoastMin}
  ELSE {}

Flag(k) == tracks[k] # Gone /\ tracks[k].anom

Count(k) == IF tracks[k] = Gone THEN 0 ELSE tracks[k].count

(* _forget_mn_key for each retired entry.                                  *)
Forget(K) ==
  /\ hexes' = hexes \ K
  /\ crossed' = crossed \cup (K \cap Unshown)

NoMemory == [tid \in Tids |-> Never]

(* The tracks lately seen under the key, or else the entry it succeeds.     *)
Memory(k, coast) ==
  LET own == IF tracks[k] = Gone THEN NoMemory ELSE tracks[k].recent
  IN IF own = NoMemory /\ coast # {} THEN tracks[CHOOSE o \in coast : TRUE].recent
     ELSE own

(* With the solve's own, less those no longer recent.                       *)
Merged(j, memory) ==
  [tid \in Tids |-> IF tid \in j.ids THEN j.ts
                    ELSE IF Linked(j, memory[tid]) THEN memory[tid] ELSE Never]

\* The most solves of any entry the new one continues.
Most(K) == {c \in {Count(p) : p \in K} : \A p \in K : Count(p) <= c}

(* The store with the solve under its key, less the entries it retires.     *)
Stored(j, k, retired, coast, most) ==
  [o \in Keys |->
    IF o = k THEN
      [state |-> "held", ts |-> j.ts, n |-> j.n, src |-> j.ids,
       count  |-> 1 + most,
       anom   |-> j.ids \cap Odd # {} \/ \E p \in coast \cup {k} : Flag(p),
       recent |-> Merged(j, Memory(k, coast))]
    ELSE IF o \in retired \cup coast THEN Gone ELSE tracks[o]]

Publish(t) ==
  /\ pc[t] = "publishing"
  /\ \E near \in SUBSET (Live \cap Dark) :
     \E d \in Decision(job[t], near) :
       IF d[2] = "shadowed"
       THEN Idle(t) /\ UNCHANGED storeVars
       ELSE \E retired \in SUBSET SharesTracks(job[t], d[1]) :
            \E coast \in {{}} \cup {{o} : o \in Coasting(job[t], d[1], d[2]) \ retired} :
            \E most \in Most(retired \cup coast \cup {d[1]}) :
              /\ tracks' = Stored(job[t], d[1], retired, coast, most)
              /\ Forget(retired \cup coast)
              /\ minted' = minted \cup ({d[1]} \ {Adsb})
              /\ job' = [job EXCEPT ![t].key = d[1]]
              /\ pc' = [pc EXCEPT ![t] = "recording"]
  /\ UNCHANGED <<now, memoVars, solves, agentVars>>

(* After the lock: the slots, and the follow lane's ownership of the key.  *)
Record(t) ==
  /\ pc[t] = "recording"
  /\ LET j == job[t] IN
       /\ slots' = [tid \in Tids |->
            IF tid \notin j.ids \/ Interval = 0 THEN slots[tid]
            ELSE [at |-> now,
                  n  |-> IF slots[tid].at > now - Interval /\ slots[tid].n > j.n
                           THEN slots[tid].n ELSE j.n]]
       /\ owned' = IF j.lane = "follow" /\ j.key \in Dark
                   THEN [owned EXCEPT ![j.key] = j.ts] ELSE owned
  /\ Idle(t)
  /\ UNCHANGED <<now, storeVars, claims, solves, agentVars>>

(* known_lane._publish, by a solver thread between two items: the entry it *)
(* stores names no tracks and supersedes nothing.                          *)
KnownPublish(t) ==
  /\ pc[t] = "idle" /\ solves < MaxSolves
  /\ solves' = solves + 1
  /\ \E ts \in 0..now :
       /\ now - ts <= Lag
       /\ tracks' = [tracks EXCEPT ![Adsb] =
            [state |-> "held", ts |-> ts, n |-> 2, src |-> {}, count |-> 1 + Count(Adsb),
             anom |-> Flag(Adsb), recent |-> NoMemory]]
  /\ UNCHANGED <<now, minted, hexes, crossed, memoVars, pc, job, agentVars>>

-----------------------------------------------------------------------------
(* prune_multinode_tracks, on the collector's timer and in the feed build  *)

(* The snapshot, judged after the lock was released.  Keys do not depend on *)
(* one another here, so the loops over them are one step for each part.     *)
Snapshot(a) ==
  /\ stage[a] = "idle" /\ passes[a] < MaxPasses
  /\ passes' = [passes EXCEPT ![a] = @ + 1]
  /\ LET stale == {k \in Live : Expired(k, now)} IN
       /\ a = "gc" => stale # {}
       /\ todo' = [todo EXCEPT ![a] = stale]
       /\ stage' = [stage EXCEPT ![a] = IF stale = {} THEN "swept" ELSE "judged"]
  /\ UNCHANGED <<now, storeVars, memoVars, threadVars, flagged>>

\* Mutation: the hexes are left in anomaly_hexes.
KeepHexes(K) == hexes' = hexes

DiscardHexes(K) == hexes' = hexes \ K

(* The hex goes first, under anomaly_lock alone ...                        *)
Discard(a) ==
  /\ stage[a] = "judged"
  /\ DiscardHexes(todo[a])
  /\ stage' = [stage EXCEPT ![a] = "discarded"]
  /\ UNCHANGED <<now, tracks, minted, crossed, memoVars, threadVars, todo, flagged, passes>>

(* ... and the entry after it, under the track lock, whatever it is now.    *)
Pop(a) ==
  /\ stage[a] = "discarded"
  /\ tracks' = [k \in Keys |-> IF k \in todo[a] THEN Gone ELSE tracks[k]]
  /\ crossed' = crossed \cup (todo[a] \cap Unshown)
  /\ todo' = [todo EXCEPT ![a] = {}]
  /\ stage' = [stage EXCEPT ![a] = IF a = "feed" THEN "swept" ELSE "idle"]
  /\ UNCHANGED <<now, minted, hexes, memoVars, threadVars, flagged, passes>>

-----------------------------------------------------------------------------
(* The feed build, after its own prune *)

(* The display gates: one n=2 solve shows nothing, a wider one briefly.     *)
Shown(k) ==
  LET r == tracks[k]
  IN /\ ~ (r.n = 2 /\ r.count < MinSolves)
     /\ ~ (r.n >= 3 /\ r.count = 1 /\ now - r.ts > OneShot)

BuildFeed ==
  /\ stage["feed"] = "swept"
  /\ todo' = [todo EXCEPT !["feed"] = {k \in Live : Shown(k)}]
  /\ flagged' = {k \in Live : Shown(k) /\ Flag(k)}
  /\ stage' = [stage EXCEPT !["feed"] = "building"]
  /\ UNCHANGED <<now, storeVars, memoVars, threadVars, passes>>

(* multinode_to_aircraft: the hexes follow the entries of the snapshot.     *)
ShowFeed ==
  /\ stage["feed"] = "building"
  /\ hexes' = (hexes \ todo["feed"]) \cup flagged
  /\ crossed' = crossed \cup (IF stage["gc"] = "discarded" THEN todo["feed"] \cap todo["gc"] ELSE {})
  /\ todo' = [todo EXCEPT !["feed"] = {}] /\ flagged' = {}
  /\ stage' = [stage EXCEPT !["feed"] = "idle"]
  /\ UNCHANGED <<now, tracks, minted, memoVars, threadVars, passes>>

-----------------------------------------------------------------------------
Tick ==
  /\ now < MaxTime /\ now' = now + 1
  /\ UNCHANGED <<storeVars, memoVars, threadVars, agentVars>>

Init ==
  /\ now = 0
  /\ tracks = [k \in Keys |-> Gone] /\ minted = {} /\ hexes = {} /\ crossed = {}
  /\ slots = [tid \in Tids |-> [at |-> 0 - Interval, n |-> 0]]
  /\ claims = [tid \in Tids |-> [at |-> -1 - ClaimTTL, chi2 |-> 0]]
  /\ owned = [k \in Dark |-> Never]
  /\ pc = [t \in Threads |-> "idle"]
  /\ job = [t \in Threads |-> NoJob]
  /\ solves = 0
  /\ stage = [a \in Agents |-> "idle"] /\ todo = [a \in Agents |-> {}]
  /\ flagged = {}
  /\ passes = [a \in Agents |-> 0]

Solve(t) ==
  \/ Take(t) \/ Reject(t) \/ Accept(t) \/ Claim(t)
  \/ Publish(t) \/ Record(t) \/ KnownPublish(t)

Collect(a) == Snapshot(a) \/ Discard(a) \/ Pop(a)

Next ==
  \/ Tick \/ BuildFeed \/ ShowFeed
  \/ \E t \in Threads : Solve(t)
  \/ \E a \in Agents : Collect(a)

Spec == Init /\ [][Next]_vars

-----------------------------------------------------------------------------
Entry == [state : {"held"}, ts : Times, n : Nat, src : SUBSET Tids, count : Nat,
          anom : BOOLEAN, recent : [Tids -> Times \cup {Never}]]

Job == [lane : {"dark", "adsb", "follow"}, ids : SUBSET Tids, n : Nat, pool : Nat,
        more : SUBSET Tids, ts : Times, key : Keys, chi2 : Scores \cup {Never}, at : Times \cup {Never}]

StoreTyped ==
  /\ now \in Times /\ minted \subseteq Dark
  /\ tracks \in [Keys -> Entry \cup {Gone}] /\ Live \subseteq {Adsb} \cup minted
  /\ hexes \subseteq Keys /\ crossed \subseteq Keys

MemoTyped ==
  /\ slots \in [Tids -> [at : Int, n : Nat]] /\ \A tid \in Tids : slots[tid].at <= now
  /\ claims \in [Tids -> [at : Int, chi2 : Nat]] /\ \A tid \in Tids : claims[tid].at <= now
  /\ owned \in [Dark -> Times \cup {Never}]

ThreadsTyped ==
  /\ pc \in [Threads -> {"idle", "solving", "publishing", "recording"}]
  /\ job \in [Threads -> Job] /\ solves \in 0..MaxSolves

AgentsTyped ==
  /\ stage \in [Agents -> {"idle", "judged", "discarded", "swept", "building"}]
  /\ todo \in [Agents -> SUBSET Keys] /\ flagged \subseteq Keys
  /\ passes \in [Agents -> 0..MaxPasses]

(* Every variable keeps its type; only minted keys are in the store.       *)
TypeOK == StoreTyped /\ MemoTyped /\ ThreadsTyped /\ AgentsTyped

(* An anomaly hex whose entry has left the store was put back by a feed    *)
(* build that overlapped the removal: no path of its own (expiry, a        *)
(* supersession, a retired coast) leaves the hex behind.                   *)
OrphansByRace == hexes \ Live \subseteq crossed

(* Between the claim and the publication of an n=2 pairing, no pairing     *)
(* that fits worse takes either of its tracks, as long as the claim is     *)
(* not outlived.                                                           *)
ClaimHeldByBest ==
  \A t \in Threads :
    pc[t] = "publishing" /\ job[t].chi2 # Never /\ now - job[t].at <= ClaimTTL =>
      \A tid \in job[t].ids : claims[tid].chi2 <= job[t].chi2
=============================================================================
