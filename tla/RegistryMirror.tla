--------------------------- MODULE RegistryMirror ---------------------------
(***************************************************************************)
(* The node registry of production and its copy in one receiving           *)
(* environment: the minutely push, full or of what changed, the chunks it  *)
(* is cut into, and the receiver that writes each chunk in a transaction   *)
(* and keeps the list of keys a full push may remove.                      *)
(*                                                                         *)
(* A row is the pair of a table and a node; "node_configs" stands for the  *)
(* three listed tables that refer to a node.  A row's value is a small     *)
(* number, 0 when there is no row.  Owners' accounts, columns and statistics *)
(* are left out.                                                           *)
(***************************************************************************)
EXTENDS Integers, FiniteSets

CONSTANTS Nodes,
          MaxVal,    \* bound: values a row takes on production
          MaxWrites, \* bound: writes on production
          MaxFaults, \* bound: answers lost, locks not had, deaths, sender restarts
          MaxEdits   \* bound: edits on the receiver

ASSUME MirrorAssumption ==
  /\ IsFiniteSet(Nodes) /\ Nodes # {}
  /\ MaxVal \in Nat \ {0}
  /\ MaxWrites \in Nat /\ MaxFaults \in Nat /\ MaxEdits \in Nat

TABLES == {"nodes", "node_configs", "node_events"}
Rows == TABLES \X Nodes
Node(n) == <<"nodes", n>>
Parent(r) == Node(r[2])

(* The tables of a full push's key list.                                   *)
Listed == {r \in Rows : r[1] # "node_events"}

\* Mutation: the tables are walked by name.
RankByName(r) == CASE r[1] = "node_configs" -> 1
                   [] r[1] = "node_events" -> 2
                   [] OTHER -> 3

(* Upserts run down the tables in this order.                              *)
Rank(r) == CASE r[1] = "nodes" -> 1
             [] r[1] = "node_configs" -> 2
             [] OTHER -> 3

Edited == MaxVal + 1   \* a value only the receiver wrote
Nothing == [r \in Rows |-> 0]
Present(reg) == {r \in Rows : reg[r] # 0}

VARIABLES
  src,      \* production's registry
  accepted, \* what the target last accepted
  due,      \* no full push has landed in the last interval
  push,     \* the push under way
  calls,    \* the chunks posted and not yet answered or dead
  here,     \* the receiver's registry
  held,     \* registry_mirror.json: the keys production last listed
  taken,    \* nodes whose ref another node of the receiver holds
  own,      \* nodes with rows here that are not mirrored: tokens, contacts, ...
  touched,  \* history: rows the receiver has otherwise than from the last push
  unlisted, \* history: rows that came in since a list named them
  writes, faults, edits

senderVars   == <<accepted, due>>
receiverVars == <<here, held, taken, own>>
historyVars  == <<touched, unlisted>>
boundVars    == <<writes, faults, edits>>
vars == <<src, senderVars, push, calls, receiverVars, historyVars, boundVars>>

(* step: "idle", "reading", "ready" between two chunks, "waiting" on one.  *)
(* want: the registry read; rest: rows to upsert; gone: keys to delete;    *)
(* landed: rows its chunks wrote.                                          *)
NoPush == [step |-> "idle", full |-> FALSE, want |-> Nothing, rest |-> {},
           gone |-> {}, landed |-> {}]

-----------------------------------------------------------------------------
(* Production *)

(* A row is written or removed; a row refers to its node, and a node that  *)
(* goes takes its rows with it.                                            *)
Write(r, v) ==
  /\ writes < MaxWrites
  /\ src[r] # v
  /\ v # 0 => r = Parent(r) \/ src[Parent(r)] # 0
  /\ src' = [q \in Rows |-> IF q = r \/ (v = 0 /\ Parent(q) = r) THEN v ELSE src[q]]
  /\ writes' = writes + 1
  /\ UNCHANGED <<senderVars, push, calls, receiverVars, historyVars, faults, edits>>

-----------------------------------------------------------------------------
(* The sender *)

(* The full interval has passed since a full push landed.                  *)
Due ==
  /\ ~due /\ due' = TRUE
  /\ UNCHANGED <<src, accepted, push, calls, receiverVars, historyVars, boundVars>>

(* The nodes are read, and an await later the tables that refer to them.   *)
ReadNodes ==
  /\ push.step = "idle"
  /\ push' = [NoPush EXCEPT !.step = "reading",
                 !.want = [r \in Rows |-> IF r[1] = "nodes" THEN src[r] ELSE 0]]
  /\ UNCHANGED <<src, senderVars, calls, receiverVars, historyVars, boundVars>>

\* Mutation: a full push leaves out what the target is thought to hold.
HeldAlways(full) == accepted

Held(full) == IF full THEN Nothing ELSE accepted

(* The push is planned; with nothing to say there is none this minute.     *)
PlanPush ==
  /\ push.step = "reading"
  /\ LET want == [r \in Rows |-> IF r[1] = "nodes" THEN push.want[r] ELSE src[r]]
         changed == {r \in Present(want) : Held(due)[r] # want[r]}
         gone == IF due THEN {} ELSE Present(accepted) \ Present(want)
     IN  push' = IF ~due /\ changed = {} /\ gone = {} THEN NoPush
                 ELSE [push EXCEPT !.step = "ready", !.full = due, !.want = want,
                                   !.rest = changed, !.gone = gone]
  /\ UNCHANGED <<src, senderVars, calls, receiverVars, historyVars, boundVars>>

(* The next chunk is posted: rows in table order, as many as fit; the last *)
(* one carries the deletes and the full key list.                          *)
Post ==
  /\ push.step = "ready"
  /\ \E up \in SUBSET push.rest :
       LET last == up = push.rest
       IN  /\ up = {} => push.rest = {}
           /\ \A r \in up, q \in push.rest \ up : Rank(r) <= Rank(q)
           /\ calls' = calls \cup
                {[up |-> [r \in up |-> push.want[r]],
                  gone |-> IF last THEN push.gone ELSE {},
                  full |-> last /\ push.full,
                  keys |-> IF last /\ push.full THEN Present(push.want) \cap Listed ELSE {},
                  last |-> last, live |-> TRUE, crossed |-> FALSE, step |-> "sent"]}
           /\ push' = [push EXCEPT !.step = "waiting", !.rest = @ \ up]
  /\ UNCHANGED <<src, senderVars, receiverVars, historyVars, boundVars>>

(* A push that fails leaves the target's state where it was.               *)
Fail ==
  /\ push' = NoPush
  /\ touched' = touched \cup push.landed
  /\ UNCHANGED senderVars

\* Mutation: the target is taken to hold the registry as it is by now.
AcceptCurrent(reg) == src

AcceptRead(reg) == reg

(* Rows whose node the same reading missed: they went, or came, between    *)
(* the two reads, and the node's absence takes them along.                 *)
Torn(reg) == {r \in Present(reg) : reg[Parent(r)] = 0}

(* The answer to the chunk in flight: the next one, the end, or a failure. *)
Answer(c) ==
  /\ c.live /\ c.step \in {"done", "refused"}
  /\ calls' = calls \ {c}
  /\ \/ c.step = "refused" /\ Fail
     \/ /\ c.step = "done" /\ ~c.last
        /\ push' = [push EXCEPT !.step = "ready"]
        /\ UNCHANGED <<senderVars, touched>>
     \/ /\ c.step = "done" /\ c.last
        /\ accepted' = AcceptRead(push.want)
        /\ due' = (due /\ ~push.full)
        /\ push' = NoPush
        /\ touched' = touched \cup Torn(push.want)
  /\ UNCHANGED <<src, receiverVars, unlisted, boundVars>>

GivenUp(c) == [c EXCEPT !.live = FALSE]

(* No answer in time.  The push has failed; the chunk may still land.      *)
TimeOut(c) ==
  /\ faults < MaxFaults
  /\ c.live
  /\ calls' = (calls \ {c}) \cup {GivenUp(c)}
  /\ Fail
  /\ faults' = faults + 1
  /\ UNCHANGED <<src, receiverVars, unlisted, writes, edits>>

(* The sender's process restarts and remembers nothing.                    *)
Restart ==
  /\ faults < MaxFaults
  /\ push' = NoPush
  /\ accepted' = Nothing /\ due' = TRUE
  /\ calls' = {GivenUp(c) : c \in calls}
  /\ touched' = touched \cup push.landed
  /\ faults' = faults + 1
  /\ UNCHANGED <<src, receiverVars, unlisted, writes, edits>>

-----------------------------------------------------------------------------
(* The receiver *)

(* Nodes of the chunk whose ref a different node here holds.               *)
WithoutTakenRefs(rows) == rows \ {Node(n) : n \in taken}

\* Mutation: the key list is read and nothing is removed for it.
KeepsUnlisted(c) == c.gone

ToDelete(c) == c.gone \cup (IF c.full THEN held \ c.keys ELSE {})

(* The receiver's rows once the chunk is written: a node goes with the     *)
(* rows that refer to it.                                                  *)
After(c) ==
  [r \in Rows |-> IF r \in ToDelete(c) \/ Parent(r) \in ToDelete(c) THEN 0
                  ELSE IF r \in WithoutTakenRefs(DOMAIN c.up) THEN c.up[r]
                  ELSE here[r]]

(* Every row inserted or kept up refers to a node that is there.           *)
Referred(rows) == \A r \in rows : Parent(r) \in rows \/ here[Parent(r)] # 0

(* No node goes that a row of the receiver's own refers to.                 *)
Released(c) == \A n \in own : Node(n) \notin ToDelete(c)

(* The foreign keys hold.                                                   *)
Lands(c) == Referred(WithoutTakenRefs(DOMAIN c.up)) /\ Released(c)

(* The calls once a full chunk is committed, its list not yet written; two *)
(* of them cross.                                                          *)
Commit(c) ==
  LET open == {d \in calls : d.step = "committed"}
  IN  (calls \ ({c} \cup open))
        \cup {[d EXCEPT !.crossed = TRUE] : d \in open}
        \cup {[c EXCEPT !.step = "committed", !.crossed = open # {}]}

(* One transaction under the write lock.  A refused one rolls back.        *)
Apply(c) ==
  /\ c.step = "sent"
  /\ IF Lands(c)
     THEN /\ here' = After(c)
          /\ LET wrote == {r \in Rows : r \in WithoutTakenRefs(DOMAIN c.up) \/ here'[r] # here[r]}
                 skips == DOMAIN c.up \ WithoutTakenRefs(DOMAIN c.up)
             IN  /\ touched' = IF c.live THEN (touched \ wrote) \cup skips ELSE touched \cup wrote
                 /\ push' = IF c.live THEN [push EXCEPT !.landed = @ \cup wrote] ELSE push
                 /\ unlisted' = {r \in Listed : here'[r] # 0 /\ (r \in unlisted \/ here[r] = 0)}
          /\ calls' = IF c.full THEN Commit(c) ELSE (calls \ {c}) \cup {[c EXCEPT !.step = "done"]}
     ELSE /\ calls' = (calls \ {c}) \cup {[c EXCEPT !.step = "refused"]}
          /\ UNCHANGED <<here, touched, push, unlisted>>
  /\ UNCHANGED <<src, senderVars, held, taken, own, boundVars>>

(* The write lock is not had in time.                                       *)
Busy(c) ==
  /\ faults < MaxFaults
  /\ c.step = "sent"
  /\ calls' = (calls \ {c}) \cup {[c EXCEPT !.step = "refused"]}
  /\ faults' = faults + 1
  /\ UNCHANGED <<src, senderVars, push, receiverVars, historyVars, writes, edits>>

(* The list is replaced after the commit, outside the lock: two full pushes *)
(* may leave the older list.                                               *)
WriteHeld(c) ==
  /\ c.step = "committed"
  /\ held' = c.keys
  /\ unlisted' = (IF c.crossed THEN Present(here) \cap Listed ELSE unlisted) \ c.keys
  /\ calls' = (calls \ {c}) \cup {[c EXCEPT !.step = "done", !.crossed = FALSE]}
  /\ UNCHANGED <<src, senderVars, push, here, taken, own, touched, boundVars>>

(* A call nobody waits for ends.                                           *)
Unheard(c) ==
  /\ ~c.live /\ c.step \in {"done", "refused"}
  /\ calls' = calls \ {c}
  /\ UNCHANGED <<src, senderVars, push, receiverVars, historyVars, boundVars>>

(* The receiver dies with every call it was serving.                       *)
Die ==
  /\ faults < MaxFaults
  /\ calls # {}
  /\ calls' = {}
  /\ IF push.step = "waiting" THEN Fail ELSE UNCHANGED <<push, touched, senderVars>>
  /\ faults' = faults + 1
  /\ UNCHANGED <<src, receiverVars, unlisted, writes, edits>>

(* An edit made on the receiver to a mirrored row.                         *)
Edit(r) ==
  /\ edits < MaxEdits
  /\ here[r] # 0
  /\ \E v \in IF r[1] = "nodes" /\ r[2] \in own THEN {Edited} ELSE {0, Edited} :
       here' = [q \in Rows |-> IF q = r \/ (v = 0 /\ Parent(q) = r) THEN v ELSE here[q]]
  /\ touched' = touched \cup {q \in Rows : here'[q] # here[q]}
  /\ unlisted' = {q \in unlisted : here'[q] # 0}
  /\ edits' = edits + 1
  /\ UNCHANGED <<src, senderVars, push, calls, held, taken, own, writes, faults>>

(* A node of the receiver's own comes to hold a node's ref, or goes.       *)
TakeRef(n) ==
  /\ edits < MaxEdits
  /\ here[Node(n)] = 0
  /\ taken' = taken \cup {n}
  /\ edits' = edits + 1
  /\ UNCHANGED <<src, senderVars, push, calls, here, held, own, historyVars, writes, faults>>

FreeRef(n) ==
  /\ n \in taken
  /\ taken' = taken \ {n}
  /\ UNCHANGED <<src, senderVars, push, calls, here, held, own, historyVars, boundVars>>

(* A mirrored node is given a token, a contact, a claim challenge or a poll *)
(* of the receiver's own, or has none left.                                 *)
GiveOwn(n) ==
  /\ edits < MaxEdits
  /\ here[Node(n)] # 0
  /\ own' = own \cup {n}
  /\ edits' = edits + 1
  /\ UNCHANGED <<src, senderVars, push, calls, here, held, taken, historyVars, writes, faults>>

DropOwn(n) ==
  /\ n \in own
  /\ own' = own \ {n}
  /\ UNCHANGED <<src, senderVars, push, calls, here, held, taken, historyVars, boundVars>>

-----------------------------------------------------------------------------
Init ==
  /\ src = Nothing /\ accepted = Nothing /\ due = TRUE
  /\ push = NoPush /\ calls = {}
  /\ here = Nothing /\ held = {} /\ taken = {} /\ own = {}
  /\ touched = {} /\ unlisted = {}
  /\ writes = 0 /\ faults = 0 /\ edits = 0

Sender == ReadNodes \/ PlanPush \/ Post \/ \E c \in calls : Answer(c)
Receiver == \E c \in calls : Apply(c) \/ WriteHeld(c) \/ Unheard(c)

Next ==
  \/ \E r \in Rows, v \in 0..MaxVal : Write(r, v)
  \/ Due \/ Sender \/ Receiver
  \/ Restart \/ Die
  \/ \E c \in calls : TimeOut(c) \/ Busy(c)
  \/ \E r \in Rows : Edit(r)
  \/ \E n \in Nodes : TakeRef(n) \/ FreeRef(n) \/ GiveOwn(n) \/ DropOwn(n)

Spec == Init /\ [][Next]_vars

(* The mirror task and the receiver keep running, and time passes.         *)
FairSpec == Spec /\ WF_vars(Due) /\ WF_vars(Sender) /\ WF_vars(Receiver)

-----------------------------------------------------------------------------
(* Properties *)

Registries(values) == [Rows -> values]

Calls == UNION {[up : [up -> 1..MaxVal], gone : SUBSET Rows, full : BOOLEAN,
                 keys : SUBSET Listed, last : BOOLEAN, live : BOOLEAN,
                 crossed : BOOLEAN, step : {"sent", "committed", "done", "refused"}] : up \in SUBSET Rows}

(* Type correctness; a chunk is live exactly while the push waits on it,   *)
(* and only it; deletes and the key list travel on the last one.           *)
TypeOK ==
  /\ src \in Registries(0..MaxVal) /\ accepted \in Registries(0..MaxVal)
  /\ here \in Registries(0..Edited)
  /\ due \in BOOLEAN /\ held \subseteq Listed /\ taken \subseteq Nodes
  /\ own \subseteq {n \in Nodes : here[Node(n)] # 0}
  /\ touched \subseteq Rows /\ unlisted \subseteq Listed
  /\ push \in [step : {"idle", "reading", "ready", "waiting"}, full : BOOLEAN,
               want : Registries(0..MaxVal), rest : SUBSET Rows,
               gone : SUBSET Rows, landed : SUBSET Rows]
  /\ calls \subseteq Calls
  /\ writes \in 0..MaxWrites /\ faults \in 0..MaxFaults /\ edits \in 0..MaxEdits
  /\ \A c, d \in calls : c.live /\ d.live => c = d
  /\ (push.step = "waiting") = (\E c \in calls : c.live)

(* services/registry_mirror.py:12-13: the diff is against what the target  *)
(* last accepted, so a row it is thought to hold is held, with that value, *)
(* unless an edit on the receiver, a taken ref, a push that never finished *)
(* or a reading torn by a change of production came between.               *)
AcceptedLanded ==
  \A r \in Present(accepted) : here[r] = accepted[r] \/ r \in touched \cup push.landed

(* A row a full push listed can still be removed by the next one: it does  *)
(* not drop out of the list the receiver keeps while it is in the table,   *)
(* whatever dies between the commit and the list's replacement, unless two *)
(* full pushes crossed there.                                              *)
HeldCovers == \A r \in Listed : here[r] # 0 => r \in held \cup unlisted

(* What refuses a chunk that is waited for: a lock not had, a node to go    *)
(* that the receiver's own rows refer to, or a row whose node has its ref   *)
(* taken, is not as the last push left it here, or was missed by the        *)
(* reading.  The order of a push's rows and chunks never costs it a foreign *)
(* key.                                                                     *)
RefusedForReason ==
  [][\A c \in calls :
       c.live /\ c.step = "sent" /\ [c EXCEPT !.step = "refused"] \in calls' =>
         \/ faults' # faults
         \/ ~Released(c)
         \/ \E r \in DOMAIN c.up : \/ r[2] \in taken
                                   \/ Parent(r) \in touched
                                   \/ push.want[Parent(r)] = 0]_vars

(* Once production is quiet, faults and edits are over, no ref is taken and *)
(* no row of the receiver's own holds on to a node that left production,    *)
(* every row production has arrives and stays as production has it.         *)
RowsArrive ==
  <>[](taken = {} /\ \A n \in own : src[Node(n)] # 0)
    => <>[](\A r \in Present(src) : here[r] = src[r])

(* services/registry_mirror.py:510-511: "skipping it keeps the rest of the  *)
(* chunk from failing with it".  A chunk whose rows of other nodes all have *)
(* their node is not refused over a node whose ref is taken.                *)
SkippingSparesRest ==
  [][\A c \in calls :
       LET rest == {r \in DOMAIN c.up : r[2] \notin taken}
       IN  c.step = "sent" /\ rest # {} /\ Referred(rest) /\ Released(c) /\ faults' = faults
             => [c EXCEPT !.step = "refused"] \notin calls']_vars

(* services/registry_mirror.py:14-17 says a full push carries "the         *)
(* complete key list [...] so the receiver can drop rows production no     *)
(* longer has": when one lands, no listed row is left that it did not name. *)
GoneRowsDropped ==
  [][due /\ ~due' => \A r \in Listed : here[r] # 0 => push.want[r] # 0]_vars
=============================================================================
