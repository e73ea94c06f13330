------------------------ MODULE RegistryMirrorProofs ------------------------
(***************************************************************************)
(* What holds of the registry mirror for every set of nodes and every      *)
(* number of values, writes, faults and edits.                             *)
(*                                                                         *)
(* Four inductive invariants.  Flow ties the chunk in flight to the push   *)
(* it was cut from.  Covered says where every row of a push under way is:  *)
(* still to post, in the chunk in flight, in place, or excused.  Ordered   *)
(* says that no row goes out before one its table's order puts first.      *)
(* Lists says that a list about to be written names what its transaction   *)
(* left.                                                                   *)
(***************************************************************************)
EXTENDS RegistryMirror, TLAPS

LEMMA Bounds ==
  /\ MaxVal \in Nat \ {0} /\ MaxWrites \in Nat /\ MaxFaults \in Nat /\ MaxEdits \in Nat
  BY MirrorAssumption

LEMMA RowFacts ==
  /\ \A r \in Rows : Parent(r) \in Rows
  /\ \A n \in Nodes : Node(n) \in Rows
  /\ Listed \subseteq Rows
  BY DEF Rows, Parent, Node, TABLES, Listed

LEMMA NothingTyped == Nothing \in Registries(0..MaxVal)
  BY Bounds DEF Nothing, Registries

CallRecord(up) ==
  [up : [up -> 1..MaxVal], gone : SUBSET Rows, full : BOOLEAN,
   keys : SUBSET Listed, last : BOOLEAN, live : BOOLEAN,
   crossed : BOOLEAN, step : {"sent", "committed", "done", "refused"}]

LEMMA CallFields ==
  ASSUME NEW c \in Calls
  PROVE  /\ DOMAIN c.up \in SUBSET Rows /\ c.up \in [DOMAIN c.up -> 1..MaxVal]
         /\ c.gone \in SUBSET Rows /\ c.keys \in SUBSET Listed
         /\ c.full \in BOOLEAN /\ c.last \in BOOLEAN /\ c.live \in BOOLEAN
         /\ c.crossed \in BOOLEAN
         /\ c.step \in {"sent", "committed", "done", "refused"}
         /\ c \in CallRecord(DOMAIN c.up)
<1>1. PICK up \in SUBSET Rows : c \in CallRecord(up)
  BY DEF Calls, CallRecord
<1>2. DOMAIN c.up = up
  BY <1>1 DEF CallRecord
<1>. QED
  BY <1>1, <1>2 DEF CallRecord

Steps == {"sent", "committed", "done", "refused"}

\* A call moved on by the receiver is the same chunk.
Same(d, e) ==
  /\ e.up = d.up /\ e.gone = d.gone /\ e.full = d.full
  /\ e.keys = d.keys /\ e.last = d.last /\ e.live = d.live

LEMMA GivenUpUpdate ==
  ASSUME NEW c \in Calls
  PROVE  GivenUp(c) \in Calls /\ ~GivenUp(c).live
<1>1. c \in CallRecord(DOMAIN c.up) /\ DOMAIN c.up \in SUBSET Rows
  BY CallFields
<1>2. GivenUp(c) \in CallRecord(DOMAIN c.up) /\ ~GivenUp(c).live
  BY <1>1 DEF CallRecord, GivenUp
<1>. QED
  BY <1>1, <1>2 DEF Calls, CallRecord

Stepped(c, s) == [c EXCEPT !.step = s]
Marked(c, s, b) == [c EXCEPT !.step = s, !.crossed = b]

LEMMA StepUpdate ==
  ASSUME NEW c \in Calls, NEW s \in Steps
  PROVE  Stepped(c, s) \in Calls /\ Same(c, Stepped(c, s)) /\ Stepped(c, s).step = s
<1>. DEFINE e == Stepped(c, s)
<1>1. c \in CallRecord(DOMAIN c.up) /\ DOMAIN c.up \in SUBSET Rows
  BY CallFields
<1>2. e \in CallRecord(DOMAIN c.up) /\ Same(c, e) /\ e.step = s
  BY <1>1 DEF CallRecord, Steps, Same, Stepped, Marked
<1>3. e \in Calls
  BY <1>1, <1>2 DEF Calls, CallRecord
<1>. QED
  BY <1>2, <1>3

LEMMA MarkUpdate ==
  ASSUME NEW c \in Calls, NEW s \in Steps, NEW b \in BOOLEAN
  PROVE  /\ Marked(c, s, b) \in Calls /\ Same(c, Marked(c, s, b))
         /\ Marked(c, s, b).step = s /\ Marked(c, s, b).crossed = b
<1>. DEFINE e == Marked(c, s, b)
<1>1. c \in CallRecord(DOMAIN c.up) /\ DOMAIN c.up \in SUBSET Rows
  BY CallFields
<1>2. e \in CallRecord(DOMAIN c.up) /\ Same(c, e) /\ e.step = s /\ e.crossed = b
  BY <1>1 DEF CallRecord, Steps, Same, Stepped, Marked
<1>3. e \in Calls
  BY <1>1, <1>2 DEF Calls, CallRecord
<1>. QED
  BY <1>2, <1>3

LEMMA CrossUpdate ==
  ASSUME NEW c \in Calls
  PROVE  /\ [c EXCEPT !.crossed = TRUE] \in Calls /\ Same(c, [c EXCEPT !.crossed = TRUE])
         /\ [c EXCEPT !.crossed = TRUE].step = c.step /\ [c EXCEPT !.crossed = TRUE].crossed
<1>1. c \in CallRecord(DOMAIN c.up) /\ DOMAIN c.up \in SUBSET Rows
  BY CallFields
<1>. DEFINE e == [c EXCEPT !.crossed = TRUE]
<1>2. e \in CallRecord(DOMAIN c.up) /\ Same(c, e) /\ e.step = c.step /\ e.crossed
  BY <1>1 DEF CallRecord, Same
<1>3. e \in Calls
  BY <1>1, <1>2 DEF Calls, CallRecord
<1>. QED
  BY <1>2, <1>3

-----------------------------------------------------------------------------
(* Types *)

PushType ==
  [step : {"idle", "reading", "ready", "waiting"}, full : BOOLEAN,
   want : Registries(0..MaxVal), rest : SUBSET Rows,
   gone : SUBSET Rows, landed : SUBSET Rows]

\* The waiting push and its chunk.
OneLive ==
  /\ \A c, d \in calls : c.live /\ d.live => c = d
  /\ (push.step = "waiting") = (\E c \in calls : c.live)

Data ==
  /\ src \in Registries(0..MaxVal) /\ accepted \in Registries(0..MaxVal)
  /\ here \in Registries(0..Edited)
  /\ due \in BOOLEAN /\ held \subseteq Listed /\ taken \subseteq Nodes
  /\ own \subseteq {n \in Nodes : here[Node(n)] # 0}
  /\ touched \subseteq Rows /\ unlisted \subseteq Listed
  /\ push \in PushType
  /\ writes \in 0..MaxWrites /\ faults \in 0..MaxFaults /\ edits \in 0..MaxEdits

\* Rows still to post are rows of the registry read.
RestWanted == push.rest \subseteq Present(push.want)

LEMMA TypeParts == TypeOK <=> Data /\ calls \subseteq Calls /\ OneLive
  BY DEF TypeOK, Data, OneLive, PushType

Typed == Data /\ calls \subseteq Calls /\ OneLive /\ RestWanted

LEMMA NoPushTyped ==
  /\ NoPush \in PushType
  /\ NoPush.step = "idle" /\ NoPush.rest = {} /\ NoPush.landed = {} /\ NoPush.gone = {}
  BY NothingTyped DEF NoPush, PushType

LEMMA InitTyped == Init => Typed
<1>. SUFFICES ASSUME Init
              PROVE  Typed
  OBVIOUS
<1>1. Nothing \in Registries(0..Edited)
  BY Bounds DEF Nothing, Registries, Edited
<1>2. Data
  BY <1>1, NothingTyped, NoPushTyped, Bounds DEF Init, Data
<1>. QED
  BY <1>2, NoPushTyped DEF Init, Typed, OneLive, RestWanted

\* A push that is over leaves nothing waiting.
LEMMA NoPushEnds ==
  ASSUME push' = NoPush, calls' \subseteq Calls, \A c \in calls' : ~c.live
  PROVE  OneLive' /\ RestWanted' /\ push' \in PushType
  BY NoPushTyped DEF OneLive, RestWanted

LEMMA ProductionTyped ==
  ASSUME Typed, NEW r \in Rows, NEW v \in 0..MaxVal, Write(r, v)
  PROVE  Typed'
<1>. USE DEF Typed, Write
<1>1. src' \in Registries(0..MaxVal)
  BY DEF Data, Registries
<1>2. writes' \in 0..MaxWrites
  BY Bounds DEF Data
<1>3. Data'
  BY <1>1, <1>2 DEF Data, senderVars, receiverVars, historyVars, boundVars
<1>. QED
  BY <1>3 DEF OneLive, RestWanted

LEMMA DueTyped == ASSUME Typed, Due PROVE Typed'
  BY DEF Typed, Due, Data, OneLive, RestWanted, receiverVars, historyVars, boundVars

LEMMA ReadTyped ==
  ASSUME Typed, ReadNodes
  PROVE  Typed' /\ push'.step = "reading" /\ push'.rest = {} /\ push'.landed = {}
<1>. USE DEF Typed, ReadNodes
<1>. DEFINE w == [r \in Rows |-> IF r[1] = "nodes" THEN src[r] ELSE 0]
<1>1. w \in Registries(0..MaxVal)
  BY Bounds DEF Data, Registries
<1>. HIDE DEF w
<1>2. push' = [NoPush EXCEPT !.step = "reading", !.want = w]
  BY DEF w
<1>3. push' \in PushType /\ push'.step = "reading" /\ push'.rest = {} /\ push'.landed = {}
  BY <1>1, <1>2, NoPushTyped DEF PushType
<1>4. Data'
  BY <1>3 DEF Data, senderVars, receiverVars, historyVars, boundVars
<1>. QED
  BY <1>3, <1>4 DEF OneLive, RestWanted

\* What the planned push carries.
LEMMA PlanFacts ==
  ASSUME Typed, PlanPush
  PROVE  \/ push' = NoPush
         \/ /\ push'.step = "ready" /\ push' \in PushType
            /\ push'.landed = push.landed
            /\ push'.rest \subseteq Present(push'.want)
            /\ push'.gone \cap Present(push'.want) = {}
            /\ \A r \in Present(push'.want) : r \in push'.rest \/ accepted[r] = push'.want[r]
<1>. USE DEF Typed, PlanPush
<1>. DEFINE w == [r \in Rows |-> IF r[1] = "nodes" THEN push.want[r] ELSE src[r]]
            ch == {r \in Present(w) : Held(due)[r] # w[r]}
            gn == IF due THEN {} ELSE Present(accepted) \ Present(w)
<1>1. w \in Registries(0..MaxVal)
  BY Bounds DEF Data, Registries, PushType
<1>2. ch \subseteq Present(w) /\ ch \in SUBSET Rows /\ gn \in SUBSET Rows /\ gn \cap Present(w) = {}
  BY DEF Present
<1>3. \A r \in Present(w) : r \in ch \/ accepted[r] = w[r]
  BY DEF Held, Present, Nothing
<1>4. \/ push' = NoPush
      \/ push' = [push EXCEPT !.step = "ready", !.full = due, !.want = w,
                              !.rest = ch, !.gone = gn]
  OBVIOUS
<1>. HIDE DEF w, ch, gn
<1>5. ASSUME push' = [push EXCEPT !.step = "ready", !.full = due, !.want = w,
                                  !.rest = ch, !.gone = gn]
      PROVE  /\ push'.step = "ready" /\ push'.want = w /\ push'.rest = ch /\ push'.gone = gn
             /\ push'.landed = push.landed /\ push' \in PushType
  BY <1>1, <1>2, <1>5 DEF Data, PushType
<1>. QED
  BY <1>2, <1>3, <1>4, <1>5

LEMMA PlanTyped == ASSUME Typed, PlanPush PROVE Typed'
<1>1. push' \in PushType /\ push'.step # "waiting" /\ RestWanted'
  BY PlanFacts, NoPushTyped DEF RestWanted, Present
<1>2. Data'
  BY <1>1 DEF Typed, PlanPush, Data, senderVars, receiverVars, historyVars, boundVars
<1>. QED
  BY <1>1, <1>2 DEF Typed, PlanPush, OneLive

\* The chunk posted is a call, and says what the push says.
LEMMA PostFacts ==
  ASSUME Typed, Post
  PROVE  \E c \in Calls, up \in SUBSET push.rest :
           /\ calls' = calls \cup {c}
           /\ push' = [push EXCEPT !.step = "waiting", !.rest = @ \ up]
           /\ DOMAIN c.up = up /\ \A r \in up : c.up[r] = push.want[r]
           /\ c.last = (up = push.rest) /\ c.live /\ c.step = "sent"
           /\ c.gone \subseteq push.gone
           /\ c.full => c.last /\ c.keys = Present(push.want) \cap Listed
           /\ \A r \in up, q \in push.rest \ up : Rank(r) <= Rank(q)
<1>. USE DEF Typed, Post
<1>1. PICK up \in SUBSET push.rest :
        LET last == up = push.rest
        IN  /\ \A r \in up, q \in push.rest \ up : Rank(r) <= Rank(q)
            /\ calls' = calls \cup
                 {[up |-> [r \in up |-> push.want[r]],
                   gone |-> IF last THEN push.gone ELSE {},
                   full |-> last /\ push.full,
                   keys |-> IF last /\ push.full THEN Present(push.want) \cap Listed ELSE {},
                   last |-> last, live |-> TRUE, crossed |-> FALSE, step |-> "sent"]}
            /\ push' = [push EXCEPT !.step = "waiting", !.rest = @ \ up]
  OBVIOUS
<1>. DEFINE last == up = push.rest
            f == [r \in up |-> push.want[r]]
            g == IF last THEN push.gone ELSE {}
            full == last /\ push.full
            k == IF last /\ push.full THEN Present(push.want) \cap Listed ELSE {}
            c == [up |-> f, gone |-> g, full |-> full, keys |-> k,
                  last |-> last, live |-> TRUE, crossed |-> FALSE, step |-> "sent"]
<1>2. up \in SUBSET Rows /\ \A r \in up : push.want[r] \in 1..MaxVal
  BY Bounds DEF RestWanted, Data, PushType, Registries, Present
<1>3. f \in [up -> 1..MaxVal] /\ DOMAIN f = up /\ \A r \in up : f[r] = push.want[r]
  BY <1>2
<1>4. g \in SUBSET Rows /\ g \subseteq push.gone /\ k \in SUBSET Listed
  BY DEF Data, PushType
<1>5. full \in BOOLEAN /\ last \in BOOLEAN
  BY DEF Data, PushType
<1>6. full => last /\ k = Present(push.want) \cap Listed
  OBVIOUS
<1>7. calls' = calls \cup {c} /\ push' = [push EXCEPT !.step = "waiting", !.rest = @ \ up]
  BY <1>1
<1>8. last = (up = push.rest)
  OBVIOUS
<1>. HIDE DEF f, g, k, full, last
<1>9. c \in CallRecord(up)
  BY <1>3, <1>4, <1>5 DEF CallRecord
<1>10. c \in Calls
  BY <1>2, <1>9 DEF Calls, CallRecord
<1>11. /\ c.up = f /\ c.gone = g /\ c.full = full /\ c.keys = k /\ c.last = last
       /\ c.live = TRUE /\ c.step = "sent"
  OBVIOUS
<1>. HIDE DEF c
<1>12. /\ DOMAIN c.up = up /\ \A r \in up : c.up[r] = push.want[r]
       /\ c.last = (up = push.rest) /\ c.live /\ c.step = "sent"
       /\ c.gone \subseteq push.gone
       /\ c.full => c.last /\ c.keys = Present(push.want) \cap Listed
  BY <1>3, <1>4, <1>6, <1>8, <1>11
<1>13. \A r \in up, q \in push.rest \ up : Rank(r) <= Rank(q)
  BY <1>1
<1>14. /\ calls' = calls \cup {c}
       /\ push' = [push EXCEPT !.step = "waiting", !.rest = @ \ up]
       /\ DOMAIN c.up = up /\ \A r \in up : c.up[r] = push.want[r]
       /\ c.last = (up = push.rest) /\ c.live /\ c.step = "sent"
       /\ c.gone \subseteq push.gone
       /\ c.full => c.last /\ c.keys = Present(push.want) \cap Listed
       /\ \A r \in up, q \in push.rest \ up : Rank(r) <= Rank(q)
  BY <1>7, <1>12, <1>13, Zenon
<1>. WITNESS c \in Calls, up \in SUBSET push.rest
<1>. QED
  BY <1>14

LEMMA PostTyped == ASSUME Typed, Post PROVE Typed'
<1>. USE DEF Typed
<1>1. PICK c \in Calls, up \in SUBSET push.rest :
        /\ calls' = calls \cup {c} /\ c.live
        /\ push' = [push EXCEPT !.step = "waiting", !.rest = @ \ up]
  BY PostFacts
<1>2. \A d \in calls : ~d.live
  BY DEF Post, OneLive
<1>3. /\ push' \in PushType /\ push'.step = "waiting"
      /\ push'.rest \subseteq push.rest /\ push'.want = push.want
  BY <1>1 DEF Data, PushType
<1>4. Data'
  BY <1>3 DEF Data, Post, senderVars, receiverVars, historyVars, boundVars
<1>. QED
  BY <1>1, <1>2, <1>3, <1>4 DEF OneLive, RestWanted

LEMMA AnswerTyped ==
  ASSUME Typed, NEW c \in calls, Answer(c)
  PROVE  Typed'
<1>. USE DEF Typed, Answer
<1>1. calls' \subseteq Calls /\ \A d \in calls' : ~d.live
  BY DEF OneLive
<1>2. ASSUME push' = NoPush, accepted' \in Registries(0..MaxVal), due' \in BOOLEAN, touched' \subseteq Rows
      PROVE  Typed'
  <2>1. OneLive' /\ RestWanted' /\ push' \in PushType
    BY <1>1, <1>2, NoPushEnds
  <2>2. Data'
    BY <1>2, <2>1 DEF Data, receiverVars, boundVars
  <2>. QED
    BY <1>1, <2>1, <2>2
<1>3. CASE c.step = "refused" /\ Fail
  BY <1>2, <1>3 DEF Fail, Data, PushType, senderVars
<1>4. CASE c.step = "done" /\ ~c.last
  <2>1. push' \in PushType /\ push'.step = "ready" /\ RestWanted'
    BY <1>4 DEF Data, PushType, RestWanted, Present
  <2>2. Data'
    BY <1>4, <2>1 DEF Data, senderVars, receiverVars, boundVars
  <2>. QED
    BY <1>1, <2>1, <2>2 DEF OneLive
<1>5. CASE c.step = "done" /\ c.last
  <2>1. push' = NoPush /\ touched' \subseteq Rows
    BY <1>5 DEF Data, Torn, Present
  <2>2. accepted' \in Registries(0..MaxVal) /\ due' \in BOOLEAN
    BY <1>5 DEF Data, PushType, AcceptRead
  <2>. QED
    BY <1>2, <2>1, <2>2
<1>. QED
  BY <1>3, <1>4, <1>5

\* How the calls move when the receiver works on one.
MovedBy(f, c) ==
  /\ f \in [calls -> Calls]
  /\ calls' = {f[d] : d \in calls}
  /\ \A d \in calls : Same(d, f[d]) /\ (d # c => f[d].step = d.step)

LEMMA ReplaceMoves ==
  ASSUME Typed, NEW c \in calls, NEW e \in Calls, Same(c, e), calls' = (calls \ {c}) \cup {e}
  PROVE  \E f : MovedBy(f, c) /\ f[c] = e /\ \A d \in calls : d # c => f[d] = d
<1>. DEFINE f == [d \in calls |-> IF d = c THEN e ELSE d]
<1>1. f \in [calls -> Calls] /\ f[c] = e /\ \A d \in calls : d # c => f[d] = d
  BY DEF Typed
<1>2. calls' = {f[d] : d \in calls}
  BY <1>1
<1>3. \A d \in calls : Same(d, f[d]) /\ (d # c => f[d].step = d.step)
  BY DEF Typed, Same
<1>. HIDE DEF f
<1>. QED
  BY <1>1, <1>2, <1>3 DEF MovedBy

\* A committed full chunk, and those it crosses.
LEMMA CommitMoves ==
  ASSUME Typed, NEW c \in calls, c.step = "sent", calls' = Commit(c)
  PROVE  \E f : /\ MovedBy(f, c) /\ f[c].step = "committed"
                /\ \A d \in calls : d.step = "committed" => f[d].crossed /\ f[c].crossed
                /\ \A d \in calls : d # c /\ d.step # "committed" => f[d] = d
<1>. DEFINE open == {d \in calls : d.step = "committed"}
            b == open # {}
            e == [c EXCEPT !.step = "committed", !.crossed = b]
            x(d) == [d EXCEPT !.crossed = TRUE]
            f == [d \in calls |-> IF d = c THEN e ELSE IF d \in open THEN x(d) ELSE d]
<1>0. c \in Calls /\ calls \subseteq Calls /\ c \notin open
  BY DEF Typed
<1>1. e \in Calls /\ Same(c, e) /\ e.step = "committed" /\ e.crossed = b
  <2>1. b \in BOOLEAN /\ "committed" \in Steps
    BY DEF Steps
  <2>. HIDE DEF b
  <2>2. e = Marked(c, "committed", b)
    BY DEF Marked
  <2>. QED
    BY <1>0, <2>1, <2>2, MarkUpdate
<1>2. \A d \in open : x(d) \in Calls /\ Same(d, x(d)) /\ x(d).step = d.step /\ x(d).crossed
  BY <1>0, CrossUpdate
<1>3. calls' = (calls \ ({c} \cup open)) \cup {x(d) : d \in open} \cup {e}
  BY DEF Commit
<1>. HIDE DEF e, x
<1>4. f \in [calls -> Calls] /\ f[c] = e
  BY <1>0, <1>1, <1>2
<1>5. /\ \A d \in open : f[d] = x(d)
      /\ \A d \in calls : d # c /\ d \notin open => f[d] = d
  BY <1>0
<1>. HIDE DEF f
<1>6. calls' = {f[d] : d \in calls}
  <2>1. ASSUME NEW y \in calls' PROVE \E d \in calls : y = f[d]
    BY <1>0, <1>3, <1>4, <1>5
  <2>2. ASSUME NEW d \in calls PROVE f[d] \in calls'
    BY <1>0, <1>3, <1>4, <1>5
  <2>. QED
    BY <2>1, <2>2
<1>7. ASSUME NEW d \in calls PROVE Same(d, f[d]) /\ (d # c => f[d].step = d.step)
  <2>1. CASE d = c
    BY <1>1, <1>4, <2>1
  <2>2. CASE d \in open
    BY <1>0, <1>2, <1>5, <2>2
  <2>3. CASE d # c /\ d \notin open
    BY <1>5, <2>3 DEF Same
  <2>. QED
    BY <2>1, <2>2, <2>3
<1>8. \A d \in calls : d.step = "committed" => f[d].crossed /\ f[c].crossed
  BY <1>1, <1>2, <1>4, <1>5
<1>9. \A d \in calls : d # c /\ d.step # "committed" => f[d] = d
  BY <1>5
<1>10. MovedBy(f, c)
  BY <1>4, <1>6, <1>7 DEF MovedBy
<1>. QED
  BY <1>1, <1>4, <1>8, <1>9, <1>10

LEMMA MovesKeepLive ==
  ASSUME Typed, NEW c \in calls, NEW f, MovedBy(f, c), push'.step = push.step
  PROVE  calls' \subseteq Calls /\ OneLive'
<1>1. /\ \A d \in calls : f[d] \in Calls /\ f[d] \in calls' /\ f[d].live = d.live
      /\ \A e \in calls' : \E d \in calls : e = f[d]
  BY DEF MovedBy, Same
<1>2. ASSUME NEW a \in calls', NEW b \in calls', a.live, b.live
      PROVE  a = b
  <2>1. PICK x \in calls : a = f[x]
    BY <1>1
  <2>2. PICK y \in calls : b = f[y]
    BY <1>1
  <2>3. x = y
    BY <1>1, <1>2, <2>1, <2>2 DEF Typed, OneLive
  <2>. QED
    BY <2>1, <2>2, <2>3
<1>3. (\E e \in calls' : e.live) = (\E d \in calls : d.live)
  BY <1>1
<1>4. (push'.step = "waiting") = (\E e \in calls' : e.live)
  BY <1>3 DEF Typed, OneLive
<1>5. \A a, b \in calls' : a.live /\ b.live => a = b
  BY <1>2
<1>6. OneLive'
  BY <1>4, <1>5 DEF OneLive
<1>. QED
  BY <1>1, <1>6

LEMMA ApplyMoves ==
  ASSUME Typed, NEW c \in calls, Apply(c)
  PROVE  \E f : /\ MovedBy(f, c)
                /\ Lands(c) => f[c].step = IF c.full THEN "committed" ELSE "done"
                /\ ~Lands(c) => f[c].step = "refused"
                /\ \A d \in calls : d # c /\ d.step # "committed" => f[d] = d
                /\ Lands(c) /\ c.full =>
                     \A d \in calls : d.step = "committed" => f[d].crossed /\ f[c].crossed
                /\ ~(Lands(c) /\ c.full) => \A d \in calls : d # c => f[d] = d
<1>0. c \in Calls /\ c.step = "sent"
  BY DEF Typed, Apply
<1>1. CASE Lands(c) /\ c.full
  <2>1. calls' = Commit(c)
    BY <1>1 DEF Apply
  <2>. QED
    BY <1>0, <1>1, <2>1, CommitMoves, Zenon
<1>2. CASE Lands(c) /\ ~c.full
  <2>1. calls' = (calls \ {c}) \cup {Stepped(c, "done")}
    BY <1>2 DEF Apply, Stepped
  <2>2. /\ Stepped(c, "done") \in Calls /\ Same(c, Stepped(c, "done"))
        /\ Stepped(c, "done").step = "done"
    BY <1>0, StepUpdate DEF Steps
  <2>3. PICK f : MovedBy(f, c) /\ f[c] = Stepped(c, "done") /\ \A d \in calls : d # c => f[d] = d
    BY <2>1, <2>2, ReplaceMoves
  <2>. QED
    BY <1>2, <2>2, <2>3
<1>3. CASE ~Lands(c)
  <2>1. calls' = (calls \ {c}) \cup {Stepped(c, "refused")}
    BY <1>3 DEF Apply, Stepped
  <2>2. /\ Stepped(c, "refused") \in Calls /\ Same(c, Stepped(c, "refused"))
        /\ Stepped(c, "refused").step = "refused"
    BY <1>0, StepUpdate DEF Steps
  <2>3. PICK f : MovedBy(f, c) /\ f[c] = Stepped(c, "refused") /\ \A d \in calls : d # c => f[d] = d
    BY <2>1, <2>2, ReplaceMoves
  <2>. QED
    BY <1>3, <2>2, <2>3
<1>4. c.full \in BOOLEAN
  BY <1>0, CallFields
<1>. QED
  BY <1>1, <1>2, <1>3, <1>4

LEMMA BusyMoves ==
  ASSUME Typed, NEW c \in calls, Busy(c)
  PROVE  \E f : /\ MovedBy(f, c) /\ f[c].step = "refused"
                /\ \A d \in calls : d # c => f[d] = d
<1>0. c \in Calls
  BY DEF Typed
<1>1. calls' = (calls \ {c}) \cup {Stepped(c, "refused")}
  BY DEF Busy, Stepped
<1>2. /\ Stepped(c, "refused") \in Calls /\ Same(c, Stepped(c, "refused"))
      /\ Stepped(c, "refused").step = "refused"
  BY <1>0, StepUpdate DEF Steps
<1>3. PICK f : MovedBy(f, c) /\ f[c] = Stepped(c, "refused") /\ \A d \in calls : d # c => f[d] = d
  BY <1>1, <1>2, ReplaceMoves
<1>. QED
  BY <1>2, <1>3

LEMMA WriteMoves ==
  ASSUME Typed, NEW c \in calls, WriteHeld(c)
  PROVE  \E f : /\ MovedBy(f, c) /\ f[c].step = "done"
                /\ \A d \in calls : d # c => f[d] = d
<1>0. c \in Calls
  BY DEF Typed
<1>1. calls' = (calls \ {c}) \cup {Marked(c, "done", FALSE)}
  BY DEF WriteHeld, Marked
<1>2. /\ Marked(c, "done", FALSE) \in Calls /\ Same(c, Marked(c, "done", FALSE))
      /\ Marked(c, "done", FALSE).step = "done"
  BY <1>0, MarkUpdate DEF Steps
<1>3. PICK f : MovedBy(f, c) /\ f[c] = Marked(c, "done", FALSE) /\ \A d \in calls : d # c => f[d] = d
  BY <1>1, <1>2, ReplaceMoves
<1>. QED
  BY <1>2, <1>3

\* What a chunk's transaction does to the receiver's rows.
LEMMA AfterTyped ==
  ASSUME Typed, NEW c \in calls
  PROVE  After(c) \in Registries(0..Edited)
<1>1. c \in Calls
  BY DEF Typed
<1>2. c.up \in [DOMAIN c.up -> 1..MaxVal]
  BY <1>1, CallFields
<1>3. \A r \in WithoutTakenRefs(DOMAIN c.up) : c.up[r] \in 0..Edited
  BY <1>2, Bounds DEF WithoutTakenRefs, Edited
<1>4. \A r \in Rows : here[r] \in 0..Edited
  BY DEF Typed, Data, Registries
<1>5. 0 \in 0..Edited
  BY Bounds DEF Edited
<1>. QED
  BY <1>3, <1>4, <1>5 DEF After, Registries

\* A chunk that lands leaves the nodes the receiver's own rows refer to.
LEMMA OwnStays ==
  ASSUME Typed, NEW c \in calls, Lands(c), NEW n \in own
  PROVE  After(c)[Node(n)] # 0
<1>1. c \in Calls
  BY DEF Typed
<1>2. c.up \in [DOMAIN c.up -> 1..MaxVal]
  BY <1>1, CallFields
<1>3. n \in Nodes /\ here[Node(n)] # 0 /\ Node(n) \in Rows
  BY RowFacts DEF Typed, Data
<1>4. Node(n) \notin ToDelete(c) /\ Parent(Node(n)) = Node(n)
  BY DEF Lands, Released, Parent, Node
<1>5. Node(n) \in WithoutTakenRefs(DOMAIN c.up) => c.up[Node(n)] # 0
  BY <1>2, Bounds DEF WithoutTakenRefs
<1>. QED
  BY <1>3, <1>4, <1>5 DEF After

LEMMA ApplyTyped ==
  ASSUME Typed, NEW c \in calls, Apply(c)
  PROVE  Typed'
<1>. USE DEF Typed
<1>1. /\ push'.step = push.step /\ push'.rest = push.rest /\ push'.want = push.want
      /\ push' \in PushType
  <2>1. CASE push' = push
    BY <2>1 DEF Data
  <2>2. CASE push' # push
    <3>1. push' = [push EXCEPT !.landed = @ \cup
             {r \in Rows : r \in WithoutTakenRefs(DOMAIN c.up) \/ here'[r] # here[r]}]
      BY <2>2 DEF Apply
    <3>. QED
      BY <3>1 DEF Data, PushType
  <2>. QED
    BY <2>1, <2>2
<1>2. calls' \subseteq Calls /\ OneLive'
  BY <1>1, ApplyMoves, MovesKeepLive
<1>3. here' \in Registries(0..Edited)
  BY AfterTyped DEF Apply, Data
<1>4. touched' \subseteq Rows
  <2>1. DOMAIN c.up \subseteq Rows
    BY CallFields
  <2>. QED
    BY <2>1 DEF Apply, Data, WithoutTakenRefs
<1>5. unlisted' \subseteq Listed
  BY DEF Apply, Data
<1>6. own' = own /\ own \subseteq {n \in Nodes : here'[Node(n)] # 0}
  BY OwnStays DEF Apply, Data
<1>7. Data'
  BY <1>1, <1>3, <1>4, <1>5, <1>6 DEF Data, Apply, senderVars, boundVars
<1>. QED
  BY <1>1, <1>2, <1>7 DEF RestWanted

LEMMA WriteTyped ==
  ASSUME Typed, NEW c \in calls, WriteHeld(c)
  PROVE  Typed'
<1>. USE DEF Typed
<1>1. calls' \subseteq Calls /\ OneLive'
  BY WriteMoves, MovesKeepLive DEF WriteHeld
<1>2. held' \subseteq Listed /\ unlisted' \subseteq Listed
  BY CallFields DEF WriteHeld, Data
<1>3. Data'
  BY <1>2 DEF Data, WriteHeld, senderVars, boundVars
<1>. QED
  BY <1>1, <1>3 DEF RestWanted, WriteHeld

LEMMA EndsTyped ==
  ASSUME Typed, \/ \E c \in calls : Unheard(c) \/ TimeOut(c) \/ Busy(c)
                \/ Restart \/ Die
  PROVE  Typed'
<1>. USE DEF Typed
<1>1. ASSUME NEW c \in calls, Unheard(c)
      PROVE  Typed'
  <2>1. Data'
    BY <1>1 DEF Unheard, Data, senderVars, receiverVars, historyVars, boundVars
  <2>2. OneLive'
    BY <1>1 DEF Unheard, OneLive
  <2>. QED
    BY <1>1, <2>1, <2>2 DEF Unheard, RestWanted
<1>2. faults < MaxFaults => faults + 1 \in 0..MaxFaults
  BY Bounds DEF Data
<1>3. touched \cup push.landed \subseteq Rows
  BY DEF Data, PushType
<1>4. ASSUME NEW c \in calls, TimeOut(c)
      PROVE  Typed'
  <2>1. calls' \subseteq Calls /\ \A d \in calls' : ~d.live
    BY <1>4, GivenUpUpdate DEF TimeOut, OneLive
  <2>2. OneLive' /\ RestWanted' /\ push' \in PushType
    BY <1>4, <2>1, NoPushEnds DEF TimeOut, Fail
  <2>3. Data'
    BY <1>2, <1>3, <1>4, <2>2 DEF TimeOut, Fail, Data, senderVars, receiverVars
  <2>. QED
    BY <2>1, <2>2, <2>3
<1>7. ASSUME NEW c \in calls, Busy(c)
      PROVE  Typed'
  <2>1. calls' \subseteq Calls /\ OneLive'
    BY <1>7, BusyMoves, MovesKeepLive DEF Busy
  <2>2. Data'
    BY <1>2, <1>7 DEF Busy, Data, senderVars, receiverVars, historyVars
  <2>. QED
    BY <1>7, <2>1, <2>2 DEF Busy, RestWanted
<1>5. CASE Restart
  <2>1. calls' \subseteq Calls /\ \A d \in calls' : ~d.live
    BY <1>5, GivenUpUpdate DEF Restart
  <2>2. OneLive' /\ RestWanted' /\ push' \in PushType
    BY <1>5, <2>1, NoPushEnds DEF Restart
  <2>3. Data'
    BY <1>2, <1>3, <1>5, <2>2, NothingTyped DEF Restart, Data, receiverVars
  <2>. QED
    BY <2>1, <2>2, <2>3
<1>6. CASE Die
  <2>1. calls' \subseteq Calls /\ \A d \in calls' : ~d.live
    BY <1>6 DEF Die
  <2>2. CASE push.step = "waiting"
    <3>1. OneLive' /\ RestWanted' /\ push' \in PushType
      BY <1>6, <2>1, <2>2, NoPushEnds DEF Die, Fail
    <3>2. Data'
      BY <1>2, <1>3, <1>6, <2>2, <3>1 DEF Die, Fail, Data, senderVars, receiverVars
    <3>. QED
      BY <2>1, <3>1, <3>2
  <2>3. CASE push.step # "waiting"
    <3>1. Data'
      BY <1>2, <1>6, <2>3 DEF Die, Data, senderVars, receiverVars
    <3>2. OneLive' /\ RestWanted'
      BY <1>6, <2>1, <2>3 DEF Die, OneLive, RestWanted
    <3>. QED
      BY <2>1, <3>1, <3>2
  <2>. QED
    BY <2>2, <2>3
<1>. QED
  BY <1>1, <1>4, <1>5, <1>6, <1>7

LEMMA EditTyped ==
  ASSUME Typed, \/ \E r \in Rows : Edit(r)
                \/ \E n \in Nodes : TakeRef(n) \/ FreeRef(n) \/ GiveOwn(n) \/ DropOwn(n)
  PROVE  Typed'
<1>. USE DEF Typed
<1>1. edits < MaxEdits => edits + 1 \in 0..MaxEdits
  BY Bounds DEF Data
<1>2. ASSUME NEW r \in Rows, Edit(r)
      PROVE  Typed'
  <2>0. PICK v \in {0, Edited} :
          /\ here' = [q \in Rows |-> IF q = r \/ (v = 0 /\ Parent(q) = r) THEN v ELSE here[q]]
          /\ r[1] = "nodes" /\ r[2] \in own => v = Edited
    BY <1>2 DEF Edit
  <2>1. here' \in Registries(0..Edited)
    <3>1. v \in 0..Edited /\ \A q \in Rows : here[q] \in 0..Edited
      BY Bounds DEF Edited, Data, Registries
    <3>. QED
      BY <2>0, <3>1 DEF Registries
  <2>2. touched' \subseteq Rows /\ unlisted' \subseteq Listed
    BY <1>2 DEF Edit, Data
  <2>3. ASSUME NEW n \in own
        PROVE  here'[Node(n)] # 0
    <3>1. n \in Nodes /\ here[Node(n)] # 0 /\ Node(n) \in Rows /\ Edited # 0
      BY Bounds, RowFacts DEF Data, Edited
    <3>2. Parent(Node(n)) = Node(n) /\ Node(n)[1] = "nodes" /\ Node(n)[2] = n
      BY DEF Parent, Node
    <3>3. r = Node(n) => v = Edited
      BY <2>0, <3>2
    <3>. QED
      BY <2>0, <3>1, <3>2, <3>3
  <2>4. own' \subseteq {n \in Nodes : here'[Node(n)] # 0}
    BY <1>2, <2>3 DEF Edit, Data
  <2>5. Data'
    BY <1>1, <1>2, <2>1, <2>2, <2>4 DEF Edit, Data, senderVars
  <2>. QED
    BY <1>2, <2>5 DEF Edit, OneLive, RestWanted
<1>3. ASSUME NEW n \in Nodes, TakeRef(n) \/ FreeRef(n) \/ GiveOwn(n) \/ DropOwn(n)
      PROVE  Typed'
  <2>1. Data'
    BY <1>1, <1>3 DEF TakeRef, FreeRef, GiveOwn, DropOwn, Data, senderVars, historyVars, boundVars
  <2>. QED
    BY <1>3, <2>1 DEF TakeRef, FreeRef, GiveOwn, DropOwn, OneLive, RestWanted
<1>. QED
  BY <1>2, <1>3

(* TypeOK: every row and chunk keeps its shape, and the sender waits on    *)
(* one chunk at most, the one that is live.                                *)
LEMMA NextTyped == ASSUME Typed, [Next]_vars PROVE Typed'
<1>1. ASSUME UNCHANGED vars
      PROVE  Typed'
  BY <1>1 DEF vars, senderVars, receiverVars, historyVars, boundVars, Typed, Data, OneLive, RestWanted
<1>2. ASSUME Next
      PROVE  Typed'
  BY <1>2, ProductionTyped, DueTyped, ReadTyped, PlanTyped, PostTyped, AnswerTyped,
     ApplyTyped, WriteTyped, EndsTyped, EditTyped, Zenon DEF Next, Sender, Receiver
<1>. QED
  BY <1>1, <1>2

LEMMA TypedHolds == Spec => []Typed
<1>1. Typed /\ [Next]_vars => Typed'
  BY NextTyped
<1>. QED
  BY <1>1, InitTyped, PTL DEF Spec

THEOREM TypesHold == Spec => []TypeOK
<1>1. Typed => TypeOK
  BY TypeParts DEF Typed
<1>. QED
  BY <1>1, TypedHolds, PTL

-----------------------------------------------------------------------------
(* What the target is thought to hold is there *)

\* A live chunk was cut from the push that waits on it.
Cut(c) ==
  /\ c.gone \cap Present(push.want) = {}
  /\ c.full => c.keys = Present(push.want) \cap Listed
  /\ \A r \in DOMAIN c.up : c.up[r] = push.want[r]
  /\ c.last => push.rest = {}

Flow ==
  /\ push.gone \cap Present(push.want) = {}
  /\ push.step \in {"idle", "reading"} => push.landed = {}
  /\ \A c \in calls : c.live => Cut(c)

\* Where a row of the push is.
InPlace(r) == here[r] = push.want[r] \/ r \in touched \cup Torn(push.want)
OnTheWay(r) ==
  \/ r \in push.rest
  \/ \E c \in calls : c.live /\ c.step \in {"sent", "refused"} /\ r \in DOMAIN c.up

Covered ==
  push.step \in {"ready", "waiting"} =>
    \A r \in Present(push.want) : InPlace(r) \/ OnTheWay(r)

Landing == Typed /\ Flow /\ Covered /\ AcceptedLanded

LEMMA OverFlow ==
  ASSUME push' = NoPush, \A c \in calls' : ~c.live
  PROVE  Flow' /\ Covered'
  BY NoPushTyped DEF Flow, Covered

\* A row written by nobody's push but changed is excused.
LEMMA Excused ==
  ASSUME Landing, push'.landed = push.landed, touched \subseteq touched', UNCHANGED accepted,
         \A r \in Rows : here'[r] = here[r] \/ r \in touched'
  PROVE  AcceptedLanded'
<1>1. \A r \in Present(accepted) : here[r] = accepted[r] \/ r \in touched \cup push.landed
  BY DEF Landing, AcceptedLanded
<1>. QED
  BY <1>1 DEF AcceptedLanded, Present

\* The push and its live chunk stand; other rows may change and be excused.
LEMMA Bystander ==
  ASSUME Landing, UNCHANGED <<push, accepted>>, touched \subseteq touched',
         \A r \in Rows : here'[r] = here[r] \/ r \in touched',
         \A c \in calls : c.live => c \in calls',
         \A c \in calls' : c.live => c \in calls
  PROVE  Flow' /\ Covered' /\ AcceptedLanded'
<1>1. Flow'
  BY DEF Landing, Flow, Cut
<1>2. Covered'
  <2>. SUFFICES ASSUME push.step \in {"ready", "waiting"}, NEW r \in Present(push.want)
                PROVE  InPlace(r)' \/ OnTheWay(r)'
    BY DEF Covered
  <2>1. InPlace(r) \/ OnTheWay(r)
    BY DEF Landing, Covered
  <2>2. r \in Rows
    BY DEF Present
  <2>3. InPlace(r) => InPlace(r)'
    BY <2>2 DEF InPlace
  <2>4. OnTheWay(r) => OnTheWay(r)'
    BY DEF OnTheWay
  <2>. QED
    BY <2>1, <2>3, <2>4
<1>3. AcceptedLanded'
  BY Excused
<1>. QED
  BY <1>1, <1>2, <1>3

LEMMA QuietLanding ==
  ASSUME Landing, \/ \E r \in Rows, v \in 0..MaxVal : Write(r, v)
                  \/ Due
                  \/ \E r \in Rows : Edit(r)
                  \/ \E n \in Nodes : TakeRef(n) \/ FreeRef(n) \/ GiveOwn(n) \/ DropOwn(n)
                  \/ UNCHANGED vars
  PROVE  Flow' /\ Covered' /\ AcceptedLanded'
<1>1. UNCHANGED <<push, accepted, calls>> /\ touched \subseteq touched'
  BY DEF Write, Due, Edit, TakeRef, FreeRef, GiveOwn, DropOwn, vars, senderVars, receiverVars,
         historyVars, boundVars
<1>2. \A r \in Rows : here'[r] = here[r] \/ r \in touched'
  BY DEF Write, Due, Edit, TakeRef, FreeRef, GiveOwn, DropOwn, vars, receiverVars, historyVars
<1>. QED
  BY <1>1, <1>2, Bystander

LEMMA ReadLanding ==
  ASSUME Landing, ReadNodes
  PROVE  Flow' /\ Covered' /\ AcceptedLanded'
<1>1. push'.step = "reading" /\ push'.landed = {} /\ push'.gone = {} /\ Typed'
  BY ReadTyped, NoPushTyped DEF Landing, ReadNodes, NoPush
<1>2. \A c \in calls' : ~c.live
  BY <1>1 DEF Typed, OneLive
<1>3. push.landed = {}
  BY DEF ReadNodes, Landing, Flow
<1>4. AcceptedLanded'
  BY <1>1, <1>3, Excused DEF ReadNodes, senderVars, receiverVars, historyVars
<1>. QED
  BY <1>1, <1>2, <1>4 DEF Flow, Covered

LEMMA PlanLanding ==
  ASSUME Landing, PlanPush
  PROVE  Flow' /\ Covered' /\ AcceptedLanded'
<1>0. UNCHANGED <<accepted, calls, here, touched>> /\ push.landed = {}
  BY DEF PlanPush, senderVars, receiverVars, historyVars, Landing, Flow
<1>1. \A c \in calls' : ~c.live
  BY <1>0 DEF PlanPush, Landing, Typed, OneLive
<1>2. push'.landed = {} /\ AcceptedLanded'
  <2>1. push'.landed = {}
    BY <1>0, PlanFacts, NoPushTyped DEF Landing
  <2>. QED
    BY <1>0, <2>1, Excused
<1>3. CASE push' = NoPush
  BY <1>1, <1>2, <1>3, OverFlow
<1>4. CASE push' # NoPush
  <2>1. /\ push'.step = "ready" /\ push'.gone \cap Present(push'.want) = {}
        /\ \A r \in Present(push'.want) : r \in push'.rest \/ accepted[r] = push'.want[r]
    BY <1>4, PlanFacts DEF Landing
  <2>2. Flow'
    BY <1>1, <2>1 DEF Flow
  <2>3. ASSUME NEW r \in Present(push'.want)
        PROVE  InPlace(r)' \/ OnTheWay(r)'
    <3>1. CASE r \in push'.rest
      BY <3>1 DEF OnTheWay
    <3>2. CASE accepted[r] = push'.want[r]
      <4>1. r \in Present(accepted)
        BY <3>2 DEF Present
      <4>2. here[r] = accepted[r] \/ r \in touched
        BY <1>0, <4>1 DEF Landing, AcceptedLanded
      <4>. QED
        BY <1>0, <3>2, <4>2 DEF InPlace
    <3>. QED
      BY <2>1, <3>1, <3>2
  <2>. QED
    BY <1>2, <2>2, <2>3 DEF Covered
<1>. QED
  BY <1>3, <1>4

LEMMA PostLanding ==
  ASSUME Landing, Post
  PROVE  Flow' /\ Covered' /\ AcceptedLanded'
<1>. PICK c \in Calls, up \in SUBSET push.rest :
           /\ calls' = calls \cup {c}
           /\ push' = [push EXCEPT !.step = "waiting", !.rest = @ \ up]
           /\ DOMAIN c.up = up /\ \A r \in up : c.up[r] = push.want[r]
           /\ c.last = (up = push.rest) /\ c.live /\ c.step = "sent"
           /\ c.gone \subseteq push.gone
           /\ c.full => c.last /\ c.keys = Present(push.want) \cap Listed
  BY PostFacts DEF Landing
<1>0. UNCHANGED <<accepted, here, touched>>
  BY DEF Post, senderVars, receiverVars, historyVars
<1>1. /\ push'.step = "waiting" /\ push'.want = push.want /\ push'.gone = push.gone
      /\ push'.rest = push.rest \ up /\ push'.landed = push.landed
  BY DEF Landing, Typed, Data, PushType
<1>2. \A d \in calls : ~d.live
  BY DEF Post, Landing, Typed, OneLive
<1>3. Cut(c)'
  <2>1. push.gone \cap Present(push.want) = {} /\ up \subseteq push.rest
    BY DEF Landing, Flow
  <2>2. c.last => push'.rest = {}
    BY <1>1, <2>1
  <2>3. c.gone \cap Present(push'.want) = {}
    BY <1>1, <2>1
  <2>. QED
    BY <1>1, <2>2, <2>3 DEF Cut
<1>4. Flow'
  BY <1>1, <1>2, <1>3 DEF Flow, Landing
<1>5. ASSUME NEW r \in Present(push.want)
      PROVE  InPlace(r)' \/ OnTheWay(r)'
  <2>1. InPlace(r) \/ OnTheWay(r)
    BY DEF Landing, Covered, Post
  <2>2. CASE InPlace(r)
    BY <1>0, <1>1, <2>2 DEF InPlace
  <2>3. CASE r \in push.rest /\ r \notin up
    BY <1>1, <2>3 DEF OnTheWay
  <2>4. CASE r \in up
    BY <2>4 DEF OnTheWay
  <2>. QED
    BY <1>2, <2>1, <2>2, <2>3, <2>4 DEF OnTheWay
<1>6. AcceptedLanded'
  BY <1>0, <1>1, Excused
<1>. QED
  BY <1>1, <1>4, <1>5, <1>6 DEF Covered

LEMMA FailLanding ==
  ASSUME Landing, Fail, UNCHANGED here, \A c \in calls' : ~c.live
  PROVE  Flow' /\ Covered' /\ AcceptedLanded'
<1>1. Flow' /\ Covered'
  BY OverFlow DEF Fail
<1>2. \A r \in Present(accepted) : here[r] = accepted[r] \/ r \in touched \cup push.landed
  BY DEF Landing, AcceptedLanded
<1>. QED
  BY <1>1, <1>2 DEF AcceptedLanded, Fail, senderVars, Present

LEMMA AnswerLanding ==
  ASSUME Landing, NEW c \in calls, Answer(c)
  PROVE  Flow' /\ Covered' /\ AcceptedLanded'
<1>0. /\ \A d \in calls' : ~d.live
      /\ c.live /\ push.step = "waiting"
      /\ \A d \in calls : d.live => d = c
      /\ UNCHANGED here
  BY DEF Answer, Landing, Typed, OneLive, receiverVars
<1>1. CASE c.step = "refused" /\ Fail
  BY <1>0, <1>1, FailLanding
<1>2. CASE c.step = "done" /\ ~c.last
  <2>1. push' = [push EXCEPT !.step = "ready"] /\ UNCHANGED <<accepted, touched>>
    BY <1>2 DEF Answer, senderVars
  <2>2. /\ push'.step = "ready" /\ push'.want = push.want /\ push'.gone = push.gone
        /\ push'.rest = push.rest /\ push'.landed = push.landed
    BY <2>1 DEF Landing, Typed, Data, PushType
  <2>3. ASSUME NEW r \in Present(push.want)
        PROVE  InPlace(r)' \/ OnTheWay(r)'
    <3>1. InPlace(r) \/ r \in push.rest
      BY <1>0, <1>2 DEF Landing, Covered, OnTheWay
    <3>. QED
      BY <1>0, <2>1, <2>2, <3>1 DEF InPlace, OnTheWay
  <2>4. AcceptedLanded'
    BY <1>0, <2>1, <2>2, Excused
  <2>. QED
    BY <1>0, <2>2, <2>3, <2>4 DEF Flow, Covered, Landing
<1>3. CASE c.step = "done" /\ c.last
  <2>1. push' = NoPush /\ accepted' = push.want /\ touched' = touched \cup Torn(push.want)
    BY <1>3 DEF Answer, AcceptRead
  <2>2. push.rest = {}
    BY <1>0, <1>3 DEF Landing, Flow, Cut
  <2>3. \A r \in Present(push.want) : InPlace(r)
    BY <1>0, <1>3, <2>2 DEF Landing, Covered, OnTheWay
  <2>4. AcceptedLanded'
    BY <1>0, <2>1, <2>3 DEF AcceptedLanded, InPlace, Present
  <2>. QED
    BY <1>0, <2>1, <2>4, OverFlow
<1>. QED
  BY <1>1, <1>2, <1>3 DEF Answer

Wrote(c) == {r \in Rows : r \in WithoutTakenRefs(DOMAIN c.up) \/ here'[r] # here[r]}

\* The transaction of a live chunk puts its rows in place.
LEMMA LiveApplyLands ==
  ASSUME Landing, NEW c \in calls, Apply(c), Lands(c), c.live
  PROVE  Flow' /\ Covered' /\ AcceptedLanded'
<1>0. /\ c \in Calls /\ DOMAIN c.up \subseteq Rows
      /\ push.step = "waiting" /\ UNCHANGED accepted
      /\ \A d \in calls : d.live => d = c
      /\ c.full \in BOOLEAN
  BY CallFields DEF Landing, Typed, OneLive, Apply, senderVars
<1>1. /\ here' = After(c)
      /\ touched' = (touched \ Wrote(c)) \cup (DOMAIN c.up \ WithoutTakenRefs(DOMAIN c.up))
      /\ push' = [push EXCEPT !.landed = @ \cup Wrote(c)]
  BY DEF Apply, Wrote
<1>2. /\ push'.step = push.step /\ push'.want = push.want /\ push'.gone = push.gone
      /\ push'.rest = push.rest /\ push'.landed = push.landed \cup Wrote(c)
  BY <1>1 DEF Landing, Typed, Data, PushType
<1>3. Cut(c)
  BY DEF Landing, Flow
<1>4. PICK f : MovedBy(f, c) /\ f[c].step = IF c.full THEN "committed" ELSE "done"
  BY ApplyMoves DEF Landing
<1>5. \A e \in calls' : e.live => e = f[c] /\ Same(c, e)
  BY <1>0, <1>4 DEF MovedBy, Same
<1>6. Flow'
  <2>1. \A e \in calls' : e.live => Cut(e)'
    BY <1>2, <1>3, <1>5 DEF Cut, Same
  <2>. QED
    BY <1>0, <1>2, <2>1 DEF Flow, Landing
<1>7. \A r \in Present(push.want) \ Torn(push.want) :
        r \notin ToDelete(c) /\ Parent(r) \notin ToDelete(c)
  <2>1. \A q \in ToDelete(c) : q \notin Present(push.want)
    BY <1>3 DEF ToDelete, Cut, Landing, Typed, Data
  <2>2. \A r \in Present(push.want) \ Torn(push.want) : Parent(r) \in Present(push.want)
    BY RowFacts DEF Present, Torn
  <2>. QED
    BY <2>1, <2>2
<1>8. ASSUME NEW r \in Present(push.want)
      PROVE  InPlace(r)' \/ OnTheWay(r)'
  <2>1. InPlace(r) \/ r \in push.rest \/ r \in DOMAIN c.up
    BY <1>0 DEF Landing, Covered, OnTheWay
  <2>2. CASE r \in Torn(push.want)
    BY <1>2, <2>2 DEF InPlace
  <2>3. CASE r \in push.rest
    BY <1>2, <2>3 DEF OnTheWay
  <2>4. CASE r \in DOMAIN c.up /\ r \notin Torn(push.want)
    <3>1. CASE r \in WithoutTakenRefs(DOMAIN c.up)
      BY <1>1, <1>2, <1>3, <1>7, <2>4, <3>1 DEF After, InPlace, Cut, Present
    <3>2. CASE r \notin WithoutTakenRefs(DOMAIN c.up)
      BY <1>1, <2>4, <3>2 DEF InPlace
    <3>. QED
      BY <3>1, <3>2
  <2>5. CASE InPlace(r) /\ r \notin Torn(push.want) /\ r \notin DOMAIN c.up
    <3>1. here'[r] = here[r] /\ r \notin Wrote(c)
      BY <1>1, <1>7, <2>5 DEF After, Wrote, WithoutTakenRefs, Present
    <3>. QED
      BY <1>1, <1>2, <2>5, <3>1 DEF InPlace
  <2>. QED
    BY <2>1, <2>2, <2>3, <2>4, <2>5
<1>9. AcceptedLanded'
  <2>1. ASSUME NEW r \in Present(accepted)
        PROVE  here'[r] = accepted[r] \/ r \in touched' \cup push'.landed
    <3>1. r \in Rows /\ (here[r] = accepted[r] \/ r \in touched \cup push.landed)
      BY DEF Landing, AcceptedLanded, Present
    <3>. QED
      BY <1>1, <1>2, <3>1 DEF Wrote
  <2>. QED
    BY <1>0, <2>1 DEF AcceptedLanded
<1>. QED
  BY <1>2, <1>6, <1>8, <1>9 DEF Covered

LEMMA ApplyLanding ==
  ASSUME Landing, NEW c \in calls, Apply(c)
  PROVE  Flow' /\ Covered' /\ AcceptedLanded'
<1>1. CASE Lands(c) /\ c.live
  BY <1>1, LiveApplyLands
<1>2. CASE ~c.live \/ ~Lands(c)
  <2>0. UNCHANGED <<push, accepted>>
    BY <1>2 DEF Apply, senderVars
  <2>1. touched \subseteq touched' /\ \A r \in Rows : here'[r] = here[r] \/ r \in touched'
    BY <1>2 DEF Apply
  <2>2. PICK f : /\ MovedBy(f, c) /\ (~Lands(c) => f[c].step = "refused")
    BY ApplyMoves DEF Landing
  <2>3. \A d \in calls : f[d] \in calls' /\ Same(d, f[d]) /\ (d # c => f[d].step = d.step)
    BY <2>2 DEF MovedBy
  <2>4. c.live => c.step = "sent" /\ f[c].step = "refused"
    BY <1>2, <2>2 DEF Apply
  <2>5. Flow'
    BY <2>0, <2>2, <2>3 DEF MovedBy, Same, Cut, Flow, Landing
  <2>6. \A r : InPlace(r) /\ r \in Rows => InPlace(r)'
    BY <2>0, <2>1 DEF InPlace
  <2>7. \A r : OnTheWay(r) => OnTheWay(r)'
    <3>1. ASSUME NEW r, NEW d \in calls, d.live, d.step \in {"sent", "refused"}, r \in DOMAIN d.up
          PROVE  OnTheWay(r)'
      BY <2>3, <2>4, <3>1 DEF OnTheWay, Same
    <3>. QED
      BY <2>0, <3>1 DEF OnTheWay
  <2>8. Covered'
    BY <2>0, <2>6, <2>7 DEF Covered, Landing, Present
  <2>9. AcceptedLanded'
    BY <2>0, <2>1, Excused
  <2>. QED
    BY <2>5, <2>8, <2>9
<1>3. c.live \in BOOLEAN
  BY CallFields DEF Landing, Typed
<1>. QED
  BY <1>1, <1>2, <1>3

LEMMA WriteLanding ==
  ASSUME Landing, NEW c \in calls, WriteHeld(c)
  PROVE  Flow' /\ Covered' /\ AcceptedLanded'
<1>0. UNCHANGED <<push, accepted, here, touched>> /\ c.step = "committed"
  BY DEF WriteHeld, senderVars
<1>1. PICK f : MovedBy(f, c) /\ \A d \in calls : d # c => f[d] = d
  BY WriteMoves DEF Landing
<1>2. Flow'
  BY <1>0, <1>1 DEF MovedBy, Same, Cut, Flow, Landing
<1>3. \A r : OnTheWay(r) => OnTheWay(r)'
  BY <1>0, <1>1 DEF OnTheWay, MovedBy
<1>4. Covered'
  BY <1>0, <1>3 DEF Covered, Landing, InPlace
<1>5. AcceptedLanded'
  BY <1>0, Excused
<1>. QED
  BY <1>2, <1>4, <1>5

LEMMA BusyLanding ==
  ASSUME Landing, NEW c \in calls, Busy(c)
  PROVE  Flow' /\ Covered' /\ AcceptedLanded'
<1>0. UNCHANGED <<push, accepted, here, touched>> /\ c.step = "sent"
  BY DEF Busy, senderVars, receiverVars, historyVars
<1>1. PICK f : MovedBy(f, c) /\ f[c].step = "refused" /\ \A d \in calls : d # c => f[d] = d
  BY BusyMoves DEF Landing
<1>2. Flow'
  BY <1>0, <1>1 DEF MovedBy, Same, Cut, Flow, Landing
<1>3. \A d \in calls : f[d] \in calls' /\ Same(d, f[d]) /\ (d # c => f[d].step = d.step)
  BY <1>1 DEF MovedBy
<1>4. \A r : OnTheWay(r) => OnTheWay(r)'
  <2>1. ASSUME NEW r, NEW d \in calls, d.live, d.step \in {"sent", "refused"}, r \in DOMAIN d.up
        PROVE  OnTheWay(r)'
    BY <1>1, <1>3, <2>1 DEF OnTheWay, Same
  <2>. QED
    BY <1>0, <2>1 DEF OnTheWay
<1>5. Covered'
  BY <1>0, <1>4 DEF Covered, Landing, InPlace
<1>6. AcceptedLanded'
  BY <1>0, Excused
<1>. QED
  BY <1>2, <1>5, <1>6

LEMMA EndsLanding ==
  ASSUME Landing, \/ \E c \in calls : Unheard(c) \/ TimeOut(c)
                  \/ Restart \/ Die
  PROVE  Flow' /\ Covered' /\ AcceptedLanded'
<1>1. ASSUME NEW c \in calls, Unheard(c)
      PROVE  Flow' /\ Covered' /\ AcceptedLanded'
  <2>1. /\ UNCHANGED <<push, accepted, here, touched>>
        /\ \A d \in calls : d.live => d \in calls'
        /\ \A d \in calls' : d.live => d \in calls
    BY <1>1 DEF Unheard, senderVars, receiverVars, historyVars
  <2>. QED
    BY <2>1, Bystander
<1>2. ASSUME NEW c \in calls, TimeOut(c)
      PROVE  Flow' /\ Covered' /\ AcceptedLanded'
  <2>1. \A d \in calls' : ~d.live
    BY <1>2, GivenUpUpdate DEF TimeOut, Landing, Typed, OneLive
  <2>. QED
    BY <1>2, <2>1, FailLanding DEF TimeOut, receiverVars
<1>3. CASE Restart
  <2>1. \A d \in calls' : ~d.live
    BY <1>3, GivenUpUpdate DEF Restart, Landing, Typed
  <2>2. AcceptedLanded'
    BY <1>3 DEF Restart, AcceptedLanded, Present, Nothing
  <2>. QED
    BY <1>3, <2>1, <2>2, OverFlow DEF Restart
<1>4. CASE Die /\ push.step = "waiting"
  BY <1>4, FailLanding DEF Die, receiverVars
<1>5. CASE Die /\ push.step # "waiting"
  <2>1. \A d \in calls : ~d.live
    BY <1>5 DEF Landing, Typed, OneLive
  <2>2. UNCHANGED <<push, accepted, here, touched>> /\ calls' = {}
    BY <1>5 DEF Die, senderVars, receiverVars
  <2>. QED
    BY <2>1, <2>2, Bystander
<1>. QED
  BY <1>1, <1>2, <1>3, <1>4, <1>5

LEMMA NextLanding == ASSUME Landing, [Next]_vars PROVE Landing'
<1>1. Typed'
  BY NextTyped DEF Landing
<1>2. ASSUME Next
      PROVE  Flow' /\ Covered' /\ AcceptedLanded'
  BY <1>2, QuietLanding, ReadLanding, PlanLanding, PostLanding, AnswerLanding,
     ApplyLanding, WriteLanding, BusyLanding, EndsLanding, Zenon DEF Next, Sender, Receiver
<1>3. ASSUME UNCHANGED vars
      PROVE  Flow' /\ Covered' /\ AcceptedLanded'
  BY <1>3, QuietLanding
<1>. QED
  BY <1>1, <1>2, <1>3 DEF Landing

LEMMA LandingHolds == Spec => []Landing
<1>1. Init => Landing
  BY InitTyped, NoPushTyped DEF Init, Landing, Flow, Covered, AcceptedLanded, Present, Nothing
<1>2. Landing /\ [Next]_vars => Landing'
  BY NextLanding
<1>. QED
  BY <1>1, <1>2, PTL DEF Spec

(* AcceptedLanded: what the sender compares with is what the receiver has, *)
(* but for the four excuses the property names.                            *)
THEOREM AcceptedHasLanded == Spec => []AcceptedLanded
<1>1. Landing => AcceptedLanded
  BY DEF Landing
<1>. QED
  BY <1>1, LandingHolds, PTL

-----------------------------------------------------------------------------
(* What a refusal is about *)

\* No row goes out before one that an earlier table still has to post.
Ordered ==
  \A c \in calls : c.live =>
    \A r \in DOMAIN c.up, q \in push.rest : Rank(r) <= Rank(q)

LEMMA RankFacts ==
  ASSUME NEW r \in Rows
  PROVE  /\ r[2] \in Nodes /\ Parent(r)[2] = r[2] /\ Parent(Parent(r)) = Parent(r)
         /\ r # Parent(r) => ~(Rank(r) <= Rank(Parent(r)))
<1>1. PICK t \in TABLES, n \in Nodes : r = <<t, n>>
  BY DEF Rows
<1>2. Parent(r) = <<"nodes", n>>
  BY <1>1 DEF Parent, Node
<1>3. Rank(Parent(r)) = 1
  BY <1>2 DEF Rank
<1>4. r # Parent(r) => Rank(r) \in {2, 3}
  BY <1>1, <1>2 DEF Rank, TABLES
<1>. QED
  BY <1>1, <1>2, <1>3, <1>4 DEF Parent, Node

LEMMA PostOrdered ==
  ASSUME Typed, Post
  PROVE  Ordered'
<1>1. PICK c \in Calls, up \in SUBSET push.rest :
        /\ calls' = calls \cup {c} /\ DOMAIN c.up = up
        /\ push' = [push EXCEPT !.step = "waiting", !.rest = @ \ up]
        /\ \A r \in up, q \in push.rest \ up : Rank(r) <= Rank(q)
  BY PostFacts
<1>2. push'.rest = push.rest \ up
  BY <1>1 DEF Typed, Data, PushType
<1>3. \A d \in calls : ~d.live
  BY DEF Post, Typed, OneLive
<1>. QED
  BY <1>1, <1>2, <1>3 DEF Ordered

LEMMA StillOrdered ==
  ASSUME Ordered, push'.rest = push.rest,
         \A e \in calls' : e.live => \E d \in calls : d.live /\ DOMAIN e.up = DOMAIN d.up
  PROVE  Ordered'
  BY DEF Ordered

\* A push that waits for nothing has no chunk out.
LEMMA NoneOrdered ==
  ASSUME Typed', push'.step # "waiting"
  PROVE  Ordered'
  BY DEF Typed, OneLive, Ordered

LEMMA MovedOrdered ==
  ASSUME Typed, Ordered, NEW c \in calls, Apply(c) \/ WriteHeld(c) \/ Busy(c)
  PROVE  Ordered'
<1>1. PICK f : MovedBy(f, c)
  BY ApplyMoves, WriteMoves, BusyMoves
<1>2. push'.rest = push.rest
  BY DEF Apply, WriteHeld, Busy, Typed, Data, PushType
<1>3. \A e \in calls' : e.live => \E d \in calls : d.live /\ DOMAIN e.up = DOMAIN d.up
  BY <1>1 DEF MovedBy, Same
<1>. QED
  BY <1>2, <1>3, StillOrdered

LEMMA NextOrdered == ASSUME Typed, Ordered, [Next]_vars PROVE Ordered'
<1>0. Typed'
  BY NextTyped
<1>1. CASE \/ \E r \in Rows, v \in 0..MaxVal : Write(r, v)
           \/ Due
           \/ \E r \in Rows : Edit(r)
           \/ \E n \in Nodes : TakeRef(n) \/ FreeRef(n) \/ GiveOwn(n) \/ DropOwn(n)
           \/ UNCHANGED vars
  <2>1. UNCHANGED <<push, calls>>
    BY <1>1 DEF Write, Due, Edit, TakeRef, FreeRef, GiveOwn, DropOwn, vars
  <2>. QED
    BY <2>1 DEF Ordered
<1>2. CASE ReadNodes \/ PlanPush
  <2>1. push'.step # "waiting"
    BY <1>2, ReadTyped, PlanFacts, NoPushTyped
  <2>. QED
    BY <1>0, <2>1, NoneOrdered
<1>3. ASSUME NEW c \in calls, Answer(c)
      PROVE  Ordered'
  <2>1. push'.step # "waiting"
    BY <1>3, NoPushTyped DEF Answer, Fail, Typed, Data, PushType
  <2>. QED
    BY <1>0, <2>1, NoneOrdered
<1>4. ASSUME NEW c \in calls, Apply(c) \/ WriteHeld(c) \/ Busy(c)
      PROVE  Ordered'
  BY <1>4, MovedOrdered
<1>5. CASE Restart \/ \E c \in calls : TimeOut(c)
  <2>1. push'.step # "waiting"
    BY <1>5, NoPushTyped DEF Restart, TimeOut, Fail
  <2>. QED
    BY <1>0, <2>1, NoneOrdered
<1>6. CASE Die
  BY <1>6 DEF Die, Ordered
<1>7. ASSUME NEW c \in calls, Unheard(c)
      PROVE  Ordered'
  BY <1>7 DEF Unheard, Ordered
<1>. QED
  BY <1>1, <1>2, <1>3, <1>4, <1>5, <1>6, <1>7, PostOrdered, Zenon DEF Next, Sender, Receiver

\* With nothing to hold its deletes back, a refused row's node is neither in
\* the chunk nor here: it was skipped, not read, or in place and then lost.
LEMMA RefusalReason ==
  ASSUME Landing, Ordered, NEW c \in calls, c.live, c.step = "sent", ~Lands(c), Released(c)
  PROVE  \E r \in DOMAIN c.up : \/ r[2] \in taken
                                \/ Parent(r) \in touched
                                \/ push.want[Parent(r)] = 0
<1>1. PICK r \in WithoutTakenRefs(DOMAIN c.up) :
        Parent(r) \notin WithoutTakenRefs(DOMAIN c.up) /\ here[Parent(r)] = 0
  BY DEF Lands, Referred
<1>2. /\ r \in DOMAIN c.up /\ r \in Rows /\ Parent(r) \in Rows
      /\ push.step = "waiting" /\ \A d \in calls : d.live => d = c
  BY <1>1, CallFields, RowFacts DEF WithoutTakenRefs, Landing, Typed, OneLive
<1>3. CASE Parent(r) \in DOMAIN c.up
  <2>1. PICK n \in taken : Parent(r) = Node(n)
    BY <1>1, <1>3 DEF WithoutTakenRefs
  <2>2. r[2] = n
    BY <2>1 DEF Parent, Node
  <2>. QED
    BY <1>2, <2>1, <2>2
<1>4. CASE Parent(r) \notin DOMAIN c.up /\ push.want[Parent(r)] # 0
  <2>1. InPlace(Parent(r)) \/ OnTheWay(Parent(r))
    BY <1>2, <1>4 DEF Landing, Covered, Present
  <2>2. ~OnTheWay(Parent(r))
    <3>1. Parent(r) \notin push.rest
      BY <1>2, <1>4, RankFacts DEF Ordered
    <3>. QED
      BY <1>2, <1>4, <3>1 DEF OnTheWay
  <2>3. Parent(r) \notin Torn(push.want)
    BY <1>2, <1>4, RankFacts DEF Torn
  <2>. QED
    BY <1>1, <1>2, <1>4, <2>1, <2>2, <2>3 DEF InPlace
<1>. QED
  BY <1>2, <1>3, <1>4

\* A chunk that is waited for and gets the lock turns refused only as it is
\* applied.
LEMMA RefusedByApply ==
  ASSUME Typed, [Next]_vars, NEW e \in calls', e.live, e.step = "refused", e \notin calls,
         faults' = faults
  PROVE  \E c \in calls : Apply(c) /\ ~Lands(c) /\ c.live
<1>1. ASSUME NEW c \in calls, Apply(c)
      PROVE  ~Lands(c) /\ c.live
  <2>1. PICK f : /\ MovedBy(f, c)
                 /\ Lands(c) => f[c].step = IF c.full THEN "committed" ELSE "done"
                 /\ \A d \in calls : d # c /\ d.step # "committed" => f[d] = d
    BY <1>1, ApplyMoves
  <2>2. PICK d \in calls : e = f[d]
    BY <2>1 DEF MovedBy
  <2>3. d = c
    BY <2>1, <2>2 DEF MovedBy
  <2>. QED
    BY <2>1, <2>2, <2>3 DEF MovedBy, Same
<1>2. ASSUME NEW c \in calls, WriteHeld(c)
      PROVE  FALSE
  <2>1. calls' = (calls \ {c}) \cup {Marked(c, "done", FALSE)}
    BY <1>2 DEF WriteHeld, Marked
  <2>2. Marked(c, "done", FALSE).step = "done"
    BY MarkUpdate DEF Steps, Typed
  <2>. QED
    BY <2>1, <2>2
<1>3. ~Post
  <2>. SUFFICES ASSUME Post
                PROVE  FALSE
    OBVIOUS
  <2>1. PICK c \in Calls : calls' = calls \cup {c} /\ c.step = "sent"
    BY PostFacts
  <2>. QED
    BY <2>1
<1>4. ~Restart /\ \A c \in calls : ~TimeOut(c)
  BY GivenUpUpdate DEF Restart, TimeOut, Typed
<1>5. CASE UNCHANGED calls \/ calls' \subseteq calls
  BY <1>5
<1>7. \A c \in calls : ~Busy(c)
  BY DEF Busy, Typed, Data
<1>6. ASSUME Next
      PROVE  (\E c \in calls : Apply(c)) \/ calls' \subseteq calls
  BY <1>2, <1>3, <1>4, <1>6, <1>7
  DEF Next, Sender, Receiver, Write, Due, ReadNodes, PlanPush, Answer, Unheard, Die, Edit,
      TakeRef, FreeRef, GiveOwn, DropOwn
<1>. QED
  BY <1>1, <1>5, <1>6 DEF vars

(* For any nodes, values and faults, a chunk of the push under way that    *)
(* gets the write lock is refused only over a node to go that the          *)
(* receiver's own rows refer to, or over a row whose node has its ref      *)
(* taken, was changed here, or was missed by the reading: never for the    *)
(* order its rows were sent in.                                            *)
THEOREM RefusalsHaveReasons == Spec => RefusedForReason
<1>1. Init => Landing /\ Ordered
  BY InitTyped, NoPushTyped
  DEF Init, Landing, Flow, Covered, AcceptedLanded, Present, Nothing, Ordered
<1>2. Landing /\ Ordered /\ [Next]_vars => Landing' /\ Ordered'
  BY NextLanding, NextOrdered DEF Landing
<1>. DEFINE Reason(c) == \E r \in DOMAIN c.up : \/ r[2] \in taken
                                                \/ Parent(r) \in touched
                                                \/ push.want[Parent(r)] = 0
            A == \A c \in calls :
                   c.live /\ c.step = "sent" /\ [c EXCEPT !.step = "refused"] \in calls' =>
                     \/ faults' # faults
                     \/ ~Released(c)
                     \/ \E r \in DOMAIN c.up : \/ r[2] \in taken
                                               \/ Parent(r) \in touched
                                               \/ push.want[Parent(r)] = 0
<1>3. Landing /\ Ordered /\ [Next]_vars => [A]_vars
  <2>. SUFFICES ASSUME Landing, Ordered, [Next]_vars, NEW c \in calls, c.live, c.step = "sent",
                       [c EXCEPT !.step = "refused"] \in calls',
                       faults' = faults, Released(c)
                PROVE  Reason(c)
    BY Zenon
  <2>. DEFINE e == [c EXCEPT !.step = "refused"]
  <2>1. e.live /\ e.step = "refused"
    <3>1. c \in Calls
      BY DEF Landing, Typed
    <3>2. Same(c, Stepped(c, "refused")) /\ Stepped(c, "refused").step = "refused"
      BY <3>1, StepUpdate DEF Steps
    <3>. QED
      BY <3>2 DEF Same, Stepped
  <2>2. e \notin calls
    BY <2>1 DEF Landing, Typed, OneLive
  <2>. HIDE DEF e
  <2>3. PICK d \in calls : Apply(d) /\ ~Lands(d) /\ d.live
    <3>1. e \in calls'
      BY DEF e
    <3>. QED
      BY <2>1, <2>2, <3>1, RefusedByApply DEF Landing
  <2>4. d = c
    BY <2>3 DEF Landing, Typed, OneLive
  <2>. QED
    BY <2>3, <2>4, RefusalReason
<1>4. RefusedForReason <=> [][A]_vars
  BY DEF RefusedForReason
<1>. QED
  BY <1>1, <1>2, <1>3, <1>4, PTL DEF Spec

-----------------------------------------------------------------------------
(* What was listed can be dropped *)

Committed == {c \in calls : c.step = "committed"}

\* A list about to be written, and crossed by no other, names what is there.
Lists ==
  /\ \A c, d \in Committed : c # d => c.crossed
  /\ \A c \in Committed : ~c.crossed =>
       \A r \in Listed : here[r] # 0 => r \in c.keys \cup unlisted

Listing == Typed /\ Lists /\ HeldCovers

LEMMA ApplyLists ==
  ASSUME Listing, NEW c \in calls, Apply(c), Lands(c)
  PROVE  Lists' /\ HeldCovers'
<1>0. /\ c \in Calls /\ c.full \in BOOLEAN /\ c.keys \subseteq Listed
      /\ here' = After(c) /\ UNCHANGED held
      /\ unlisted' = {r \in Listed : here'[r] # 0 /\ (r \in unlisted \/ here[r] = 0)}
      /\ c.step = "sent"
  BY CallFields DEF Apply, Listing, Typed
<1>1. HeldCovers'
  BY <1>0 DEF HeldCovers, Listing
<1>2. PICK f : /\ MovedBy(f, c)
               /\ f[c].step = IF c.full THEN "committed" ELSE "done"
               /\ \A d \in calls : d # c /\ d.step # "committed" => f[d] = d
               /\ c.full => \A d \in calls : d.step = "committed" => f[d].crossed /\ f[c].crossed
               /\ ~c.full => \A d \in calls : d # c => f[d] = d
  BY ApplyMoves DEF Listing
<1>3. \A e \in calls' : \E d \in calls : e = f[d] /\ Same(d, e) /\ (d # c => e.step = d.step)
  BY <1>2 DEF MovedBy
<1>4. CASE c.full
  <2>1. \A e \in Committed' : e = f[c] \/ (e.crossed /\ f[c].crossed)
    BY <1>2, <1>3, <1>4 DEF Committed
  <2>2. \A r \in Listed : here'[r] # 0 => r \in c.keys \cup unlisted'
    <3>1. ASSUME NEW r \in Listed, here'[r] # 0, r \notin c.keys
          PROVE  r \in unlisted'
      <4>1. r \notin held
        BY <1>0, <1>4, <3>1, RowFacts DEF After, ToDelete
      <4>2. here[r] = 0 \/ r \in unlisted
        BY <4>1 DEF Listing, HeldCovers
      <4>. QED
        BY <1>0, <3>1, <4>2
    <3>. QED
      BY <3>1
  <2>3. f[c].keys = c.keys
    BY <1>2 DEF MovedBy, Same
  <2>4. \A e, d \in Committed' : e # d => e.crossed
    BY <2>1
  <2>5. \A e \in Committed' : ~e.crossed => \A r \in Listed : here'[r] # 0 => r \in e.keys \cup unlisted'
    BY <2>1, <2>2, <2>3
  <2>. QED
    BY <1>1, <2>4, <2>5 DEF Lists
<1>5. CASE ~c.full
  <2>1. Committed' \subseteq Committed
    BY <1>2, <1>3, <1>5 DEF Committed
  <2>2. ASSUME NEW e \in Committed, ~e.crossed, NEW r \in Listed, here'[r] # 0
        PROVE  r \in e.keys \cup unlisted'
    <3>1. here[r] # 0 => r \in e.keys \cup unlisted
      BY <2>2 DEF Listing, Lists
    <3>. QED
      BY <1>0, <2>2, <3>1
  <2>. QED
    BY <1>1, <2>1, <2>2 DEF Lists, Listing
<1>. QED
  BY <1>0, <1>4, <1>5

LEMMA WriteLists ==
  ASSUME Listing, NEW c \in calls, WriteHeld(c)
  PROVE  Lists' /\ HeldCovers'
<1>0. /\ c \in Committed /\ c.crossed \in BOOLEAN /\ UNCHANGED here /\ held' = c.keys
      /\ unlisted' = (IF c.crossed THEN Present(here) \cap Listed ELSE unlisted) \ c.keys
  BY CallFields DEF WriteHeld, Committed, Listing, Typed
<1>1. HeldCovers'
  BY <1>0, RowFacts DEF HeldCovers, Listing, Lists, Present
<1>2. PICK f : MovedBy(f, c) /\ f[c].step = "done" /\ \A d \in calls : d # c => f[d] = d
  BY WriteMoves DEF Listing
<1>3. Committed' \subseteq Committed \ {c}
  BY <1>2 DEF Committed, MovedBy
<1>4. \A d \in Committed' : d.crossed
  BY <1>0, <1>3 DEF Listing, Lists
<1>. QED
  BY <1>1, <1>4 DEF Lists

\* Steps that leave the rows and the lists, whatever becomes of a live mark.
LEMMA StillLists ==
  ASSUME Listing, UNCHANGED <<here, held, unlisted>>,
         \A e \in calls' : \E d \in calls :
            e.step = d.step /\ e.crossed = d.crossed /\ e.keys = d.keys,
         \A e, d \in Committed' : e # d => e.crossed
  PROVE  Lists' /\ HeldCovers'
<1>1. HeldCovers'
  BY DEF Listing, HeldCovers
<1>2. ASSUME NEW e \in Committed', ~e.crossed, NEW r \in Listed, here[r] # 0
      PROVE  r \in e.keys \cup unlisted
  <2>1. PICK d \in calls : e.step = d.step /\ e.crossed = d.crossed /\ e.keys = d.keys
    BY DEF Committed
  <2>. QED
    BY <1>2, <2>1 DEF Listing, Lists, Committed
<1>. QED
  BY <1>1, <1>2 DEF Lists

LEMMA QuietLists ==
  ASSUME Listing, \/ \E r \in Rows, v \in 0..MaxVal : Write(r, v)
                  \/ Due \/ ReadNodes \/ PlanPush
                  \/ \E n \in Nodes : TakeRef(n) \/ FreeRef(n) \/ GiveOwn(n) \/ DropOwn(n)
                  \/ UNCHANGED vars
                  \/ \E c \in calls : Answer(c) \/ Unheard(c)
                  \/ Die
  PROVE  Lists' /\ HeldCovers'
<1>1. UNCHANGED <<here, held, unlisted>> /\ calls' \subseteq calls
  BY DEF Write, Due, ReadNodes, PlanPush, TakeRef, FreeRef, GiveOwn, DropOwn, Answer, Unheard,
         Die, vars, receiverVars, historyVars
<1>2. \A e, d \in Committed' : e # d => e.crossed
  BY <1>1 DEF Committed, Listing, Lists
<1>. QED
  BY <1>1, <1>2, StillLists

LEMMA GiveUpLists ==
  ASSUME Listing, Restart \/ (\E c \in calls : TimeOut(c))
  PROVE  Lists' /\ HeldCovers'
<1>1. UNCHANGED <<here, held, unlisted>>
  BY DEF Restart, TimeOut, receiverVars
<1>2. \A e \in calls' : \E d \in calls : e = d \/ e = GivenUp(d)
  BY DEF Restart, TimeOut
<1>3. ASSUME NEW d \in calls
      PROVE  /\ GivenUp(d).step = d.step /\ GivenUp(d).crossed = d.crossed
             /\ GivenUp(d).keys = d.keys
  <2>1. d \in CallRecord(DOMAIN d.up)
    BY CallFields DEF Listing, Typed
  <2>. QED
    BY <2>1 DEF CallRecord, GivenUp
<1>4. ASSUME NEW e \in Committed', NEW d \in Committed', e # d
      PROVE  e.crossed
  <2>1. PICK x \in calls : e = x \/ e = GivenUp(x)
    BY <1>2 DEF Committed
  <2>2. PICK y \in calls : d = y \/ d = GivenUp(y)
    BY <1>2 DEF Committed
  <2>3. x.step = "committed" /\ y.step = "committed" /\ e.crossed = x.crossed
    BY <1>3, <2>1, <2>2 DEF Committed
  <2>4. CASE x # y
    BY <2>3, <2>4 DEF Listing, Lists, Committed
  <2>5. CASE x = y
    <3>1. calls' = {GivenUp(c) : c \in calls} \/ \E c \in calls : calls' = (calls \ {c}) \cup {GivenUp(c)}
      BY DEF Restart, TimeOut
    <3>2. CASE calls' = {GivenUp(c) : c \in calls}
      <4>1. \A z \in calls' : ~z.live
        BY <3>2, GivenUpUpdate DEF Listing, Typed
      <4>2. ~x.live => GivenUp(x) = x
        <5>1. x \in CallRecord(DOMAIN x.up)
          BY CallFields DEF Listing, Typed
        <5>. QED
          BY <5>1 DEF CallRecord, GivenUp
      <4>. QED
        BY <1>4, <2>1, <2>2, <2>5, <4>1, <4>2 DEF Committed
    <3>3. ASSUME NEW c \in calls, calls' = (calls \ {c}) \cup {GivenUp(c)}
          PROVE  e.crossed
      <4>1. PICK x1 \in calls : (e = x1 /\ x1 # c) \/ (e = GivenUp(x1) /\ x1 = c)
        BY <3>3 DEF Committed
      <4>2. PICK y1 \in calls : (d = y1 /\ y1 # c) \/ (d = GivenUp(y1) /\ y1 = c)
        BY <3>3 DEF Committed
      <4>3. x1 # y1
        BY <1>4, <4>1, <4>2
      <4>4. x1.step = "committed" /\ y1.step = "committed" /\ e.crossed = x1.crossed
        BY <1>3, <4>1, <4>2 DEF Committed
      <4>. QED
        BY <4>3, <4>4 DEF Listing, Lists, Committed
    <3>. QED
      BY <3>1, <3>2, <3>3
  <2>. QED
    BY <2>4, <2>5
<1>5. \A e \in calls' : \E d \in calls :
        e.step = d.step /\ e.crossed = d.crossed /\ e.keys = d.keys
  BY <1>2, <1>3
<1>. QED
  BY <1>1, <1>4, <1>5, StillLists

LEMMA PostLists ==
  ASSUME Listing, Post
  PROVE  Lists' /\ HeldCovers'
<1>1. PICK c \in Calls : calls' = calls \cup {c} /\ c.step = "sent"
  BY PostFacts DEF Listing
<1>2. Committed' = Committed /\ UNCHANGED <<here, held, unlisted>>
  BY <1>1 DEF Committed, Post, receiverVars, historyVars
<1>. QED
  BY <1>2 DEF Lists, HeldCovers, Listing

LEMMA RefusedLists ==
  ASSUME Listing, NEW c \in calls, (Apply(c) /\ ~Lands(c)) \/ Busy(c)
  PROVE  Lists' /\ HeldCovers'
<1>1. PICK f : MovedBy(f, c) /\ f[c].step = "refused" /\ \A d \in calls : d # c => f[d] = d
  BY ApplyMoves, BusyMoves DEF Listing
<1>2. Committed' \subseteq Committed /\ UNCHANGED <<here, held, unlisted>>
  BY <1>1 DEF Committed, MovedBy, Apply, Busy, receiverVars, historyVars
<1>. QED
  BY <1>2 DEF Lists, HeldCovers, Listing

LEMMA EditLists ==
  ASSUME Listing, NEW r \in Rows, Edit(r)
  PROVE  Lists' /\ HeldCovers'
<1>1. /\ UNCHANGED <<calls, held>> /\ unlisted' = {q \in unlisted : here'[q] # 0}
      /\ \A q \in Rows : here'[q] # 0 => here[q] # 0
  BY DEF Edit
<1>2. \A q \in Listed : here'[q] # 0 /\ q \in unlisted => q \in unlisted'
  BY <1>1
<1>. QED
  BY <1>1, <1>2, RowFacts DEF Lists, HeldCovers, Listing, Committed

LEMMA ListingHolds == Spec => []Listing
<1>1. Init => Listing
  BY InitTyped, RowFacts DEF Init, Listing, Lists, HeldCovers, Committed, Nothing
<1>2. ASSUME Listing, [Next]_vars
      PROVE  Listing'
  <2>1. Typed'
    BY <1>2, NextTyped DEF Listing
  <2>2. ASSUME Next
        PROVE  Lists' /\ HeldCovers'
    BY <1>2, <2>2, QuietLists, GiveUpLists, PostLists, ApplyLists, RefusedLists, WriteLists,
       EditLists, Zenon DEF Next, Sender, Receiver
  <2>3. ASSUME UNCHANGED vars
        PROVE  Lists' /\ HeldCovers'
    BY <1>2, <2>3, QuietLists
  <2>. QED
    BY <1>2, <2>1, <2>2, <2>3 DEF Listing
<1>. QED
  BY <1>1, <1>2, PTL DEF Spec

(* HeldCovers: a listed row the receiver has is on its list or came in     *)
(* since, so the next full push can drop it.                               *)
THEOREM ListCoversRows == Spec => []HeldCovers
<1>1. Listing => HeldCovers
  BY DEF Listing
<1>. QED
  BY <1>1, ListingHolds, PTL
=============================================================================
