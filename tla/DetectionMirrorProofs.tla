----------------------- MODULE DetectionMirrorProofs -----------------------
(***************************************************************************)
(* Proofs about DetectionMirror for every set of nodes and targets and     *)
(* every queue.  The books balance because a frame is in exactly one of    *)
(* the queue, the batch of a post still out, and the accounts; the set     *)
(* lemmas below say what an offer and a drain do to the counts.            *)
(***************************************************************************)
EXTENDS DetectionMirror, FiniteSetTheorems, TLAPS

-----------------------------------------------------------------------------
(* What the operations do to the counts *)

\* An offered frame has a number of its own.
NumbersFresh == \A f \in queue : f.nr <= accepted

\* A receiver queues no more of a batch than it was posted.
ArrivedOfBatch == \A t \in waiting \cap received : arrived[t] <= Cardinality(batch)

\* The frames still to come of posts given up on are among the failed.
LateAmongFailed ==
  \A t \in Targets : landed[t] + late[t] <= sent[t] + failed[t] + Unread(t)

MirrorInv == NumbersFresh /\ ArrivedOfBatch /\ LateAmongFailed /\ BooksBalance

(* The counts are numbers.                                                 *)
LEMMA Counts ==
  ASSUME TypeOK PROVE Cardinality(queue) \in Nat /\ Cardinality(batch) \in Nat
BY FS_CardinalityType DEF TypeOK, QueueTyped, PostsTyped

(* A frame offered to the queue is one more frame.                         *)
LEMMA OfferedCounts ==
  ASSUME TypeOK, NumbersFresh, NEW n \in Nodes, accepted < MaxAccepted
  PROVE  LET f == [node |-> n, nr |-> accepted + 1]
         IN  /\ f \in Frames /\ f \notin queue
             /\ IsFiniteSet(queue \cup {f})
             /\ Cardinality(queue \cup {f}) = Cardinality(queue) + 1
<1> DEFINE f == [node |-> n, nr |-> accepted + 1]
<1>1. f \in Frames /\ f \notin queue
  BY SMT, MirrorAssumption
  DEF TypeOK, QueueTyped, NumbersFresh, Frames, MirrorAssumption
<1>2. IsFiniteSet(queue)  BY DEF TypeOK, QueueTyped
<1> HIDE DEF f
<1>3. /\ IsFiniteSet(queue \cup {f})
      /\ Cardinality(queue \cup {f}) = Cardinality(queue) + 1
  BY <1>1, <1>2, FS_AddElement
<1> QED  BY <1>1, <1>3 DEF f

(* A drain splits the queue into what is carried and what is not.          *)
LEMMA DrainedCounts ==
  ASSUME TypeOK
  PROVE  LET built == Carried(queue)
         IN  /\ built \in SUBSET Frames /\ IsFiniteSet(built)
             /\ Cardinality(built) \in Nat /\ Cardinality(Uncarried(queue, built)) \in Nat
             /\ Cardinality(queue) = Cardinality(built) + Cardinality(Uncarried(queue, built))
<1> DEFINE built == Carried(queue)
<1>1. built \subseteq queue /\ queue \in SUBSET Frames /\ IsFiniteSet(queue)
  BY DEF TypeOK, QueueTyped, Carried
<1> HIDE DEF built
<1>2. IsFiniteSet(built)  BY <1>1, FS_Subset
<1>3. /\ IsFiniteSet(queue \ built)
      /\ Cardinality(queue \ built) = Cardinality(queue) - Cardinality(queue \cap built)
  BY <1>1, FS_Difference
<1>4. queue \cap built = built  BY <1>1
<1>5. Cardinality(built) \in Nat /\ Cardinality(queue) \in Nat /\ Cardinality(queue \ built) \in Nat
  BY <1>1, <1>2, <1>3, FS_CardinalityType
<1>6. Cardinality(queue) = Cardinality(built) + Cardinality(queue \ built)
  <2>1. Cardinality(queue \ built) = Cardinality(queue) - Cardinality(built)
    BY <1>3, <1>4
  <2> HIDE DEF TypeOK
  <2> QED  BY <2>1, <1>5, SMT
<1> QED  BY <1>1, <1>2, <1>5, <1>6 DEF built, Uncarried

-----------------------------------------------------------------------------
(* Types *)

LEMMA InitTyped == ASSUME Init PROVE TypeOK
BY FS_EmptySet, MirrorAssumption
DEF Init, TypeOK, QueueTyped, PostsTyped, AccountsTyped, MirrorAssumption

LEMMA MembershipTyped == ASSUME TypeOK, NEW n \in Nodes, Membership(n) PROVE TypeOK'
BY Zenon DEF TypeOK, QueueTyped, PostsTyped, AccountsTyped, Membership, queueVars, targetVars

LEMMA ReceiveTyped == ASSUME TypeOK, NEW t \in Targets, Receive(t) PROVE TypeOK'
<1>1. PICK k : /\ k \in 0..Cardinality(batch)
               /\ arrived' = [arrived EXCEPT ![t] = k]
               /\ landed' = [landed EXCEPT ![t] = @ + k]
  BY DEF Receive
<1>2. k \in Nat  BY <1>1, Counts
<1>3. PostsTyped'
  BY <1>1, <1>2 DEF TypeOK, PostsTyped, Receive
<1>4. QueueTyped' /\ AccountsTyped'
  BY Zenon DEF TypeOK, QueueTyped, AccountsTyped, Receive, queueVars
<1> QED  BY <1>3, <1>4 DEF TypeOK

LEMMA ReceiveLateTyped == ASSUME TypeOK, NEW t \in Targets, ReceiveLate(t) PROVE TypeOK'
<1>1. PICK b, k : /\ b \in 1..late[t] /\ k \in 0..b
                  /\ late' = [late EXCEPT ![t] = @ - b]
                  /\ landed' = [landed EXCEPT ![t] = @ + k]
  BY DEF ReceiveLate
<1>2. late[t] \in Nat /\ k \in Nat /\ late[t] - b \in Nat
  BY <1>1 DEF TypeOK, PostsTyped
<1>3. PostsTyped'
  BY <1>1, <1>2 DEF TypeOK, PostsTyped, ReceiveLate
<1>4. QueueTyped' /\ AccountsTyped'
  BY Zenon DEF TypeOK, QueueTyped, AccountsTyped, ReceiveLate, queueVars
<1> QED  BY <1>3, <1>4 DEF TypeOK

LEMMA OfferTyped == ASSUME TypeOK, NumbersFresh, NEW n \in Nodes, Offer(n) PROVE TypeOK'
<1>1. PostsTyped' /\ AccountsTyped'
  BY Zenon DEF TypeOK, PostsTyped, AccountsTyped, Offer, targetVars
<1>2. CASE Cardinality(queue) < QueueMax
  <2> DEFINE f == [node |-> n, nr |-> accepted + 1]
  <2>1. accepted < MaxAccepted /\ accepted' = accepted + 1
    BY <1>2 DEF Offer
  <2>2. f \in Frames /\ IsFiniteSet(queue \cup {f})
    BY <2>1, OfferedCounts
  <2>3. accepted' \in 0..MaxAccepted
    BY <2>1, MirrorAssumption DEF TypeOK, QueueTyped, MirrorAssumption
  <2> HIDE DEF f
  <2>4. queue' = queue \cup {f} /\ UNCHANGED <<registered, dropped, unregistered>>
    BY <1>2, Zenon DEF Offer, f
  <2> QED  BY <1>1, <2>2, <2>3, <2>4 DEF TypeOK, QueueTyped
<1>3. CASE ~(Cardinality(queue) < QueueMax)
  BY <1>1, <1>3 DEF TypeOK, QueueTyped, Offer
<1> QED  BY <1>2, <1>3

LEMMA DrainTyped == ASSUME TypeOK, Drain PROVE TypeOK'
<1>1. QueueTyped'
  BY DrainedCounts, FS_EmptySet DEF TypeOK, QueueTyped, Drain
<1>2. PostsTyped'
  BY DrainedCounts DEF TypeOK, PostsTyped, Drain
<1>3. AccountsTyped'
  BY Zenon DEF TypeOK, AccountsTyped, Drain
<1> QED  BY <1>1, <1>2, <1>3 DEF TypeOK

LEMMA DrainFailsTyped == ASSUME TypeOK, DrainFails PROVE TypeOK'
<1>1. QueueTyped'
  BY FS_EmptySet DEF TypeOK, QueueTyped, DrainFails
<1>2. PostsTyped'
  BY Zenon DEF TypeOK, PostsTyped, DrainFails
<1>3. AccountsTyped'
  BY Counts DEF TypeOK, AccountsTyped, DrainFails
<1> QED  BY <1>1, <1>2, <1>3 DEF TypeOK

LEMMA AnswerTyped ==
  ASSUME TypeOK, ArrivedOfBatch, NEW t \in Targets, Answer(t) PROVE TypeOK'
<1>1. QueueTyped' /\ PostsTyped'
  BY Zenon DEF TypeOK, QueueTyped, PostsTyped, Answer, queueVars
<1>2. /\ arrived[t] \in Nat /\ Cardinality(batch) - arrived[t] \in Nat
      /\ sent[t] + arrived[t] \in Nat
      /\ rejected[t] + (Cardinality(batch) - arrived[t]) \in Nat
  BY Counts DEF TypeOK, PostsTyped, AccountsTyped, ArrivedOfBatch, Answer
<1>3. /\ sent' \in [Targets -> Nat] /\ rejected' \in [Targets -> Nat]
      /\ failed' \in [Targets -> Nat]
  BY <1>2 DEF TypeOK, AccountsTyped, Answer
<1>4. healthy' \in [Targets -> BOOLEAN]
  BY Zenon DEF TypeOK, AccountsTyped, Answer
<1> QED  BY <1>1, <1>3, <1>4 DEF TypeOK, AccountsTyped

LEMMA PostFailsTyped == ASSUME TypeOK, NEW t \in Targets, PostFails(t) PROVE TypeOK'
<1>1. QueueTyped'
  BY Zenon DEF TypeOK, QueueTyped, PostFails, queueVars
<1>2. PostsTyped'
  BY Counts DEF TypeOK, PostsTyped, PostFails
<1>3. sent' \in [Targets -> Nat] /\ rejected' \in [Targets -> Nat] /\ failed' \in [Targets -> Nat]
  BY Counts DEF TypeOK, AccountsTyped, PostFails
<1>4. healthy' \in [Targets -> BOOLEAN]
  BY Zenon DEF TypeOK, AccountsTyped, PostFails
<1> QED  BY <1>1, <1>2, <1>3, <1>4 DEF TypeOK, AccountsTyped

-----------------------------------------------------------------------------
(* The books *)

LEMMA InitBooks == ASSUME Init PROVE MirrorInv
BY FS_EmptySet
DEF Init, MirrorInv, NumbersFresh, ArrivedOfBatch, BooksBalance, Reconciled, Truthful,
    LateAmongFailed, Outstanding, Unread

LEMMA MembershipBooks == ASSUME MirrorInv, NEW n \in Nodes, Membership(n) PROVE MirrorInv'
BY Zenon
DEF MirrorInv, NumbersFresh, ArrivedOfBatch, BooksBalance, Reconciled, Truthful,
    LateAmongFailed, Outstanding, Unread, Membership, queueVars, targetVars

LEMMA ReceiveBooks ==
  ASSUME TypeOK, MirrorInv, NEW t \in Targets, Receive(t) PROVE MirrorInv'
<1>1. PICK k : /\ k \in 0..Cardinality(batch)
               /\ arrived' = [arrived EXCEPT ![t] = k]
               /\ landed' = [landed EXCEPT ![t] = @ + k]
  BY DEF Receive
<1>2. k \in Nat /\ k <= Cardinality(batch)  BY <1>1, Counts
<1>3. NumbersFresh'
  BY Zenon DEF MirrorInv, NumbersFresh, Receive, queueVars
<1>4. ArrivedOfBatch'
  BY <1>1, <1>2 DEF TypeOK, PostsTyped, MirrorInv, ArrivedOfBatch, Receive
<1>5. ASSUME NEW u \in Targets PROVE Reconciled(u)' /\ Truthful(u)'
  <2>1. Reconciled(u)'
    BY Zenon DEF MirrorInv, BooksBalance, Reconciled, Outstanding, Receive, queueVars
  <2>2. Truthful(u)'
    BY <1>1, <1>2
    DEF TypeOK, PostsTyped, AccountsTyped, MirrorInv, BooksBalance, Truthful, Unread, Receive
  <2> QED  BY <2>1, <2>2
<1>6. LateAmongFailed'
  BY <1>1, <1>2
  DEF TypeOK, PostsTyped, AccountsTyped, MirrorInv, LateAmongFailed, Unread, Receive
<1> QED  BY <1>3, <1>4, <1>5, <1>6 DEF MirrorInv, BooksBalance

LEMMA ReceiveLateBooks ==
  ASSUME TypeOK, MirrorInv, NEW t \in Targets, ReceiveLate(t) PROVE MirrorInv'
<1>1. PICK b, k : /\ b \in 1..late[t] /\ k \in 0..b
                  /\ late' = [late EXCEPT ![t] = @ - b]
                  /\ landed' = [landed EXCEPT ![t] = @ + k]
  BY DEF ReceiveLate
<1>2. k \in Nat /\ b \in Nat /\ k <= b /\ b <= late[t]
  BY <1>1 DEF TypeOK, PostsTyped
<1>3. NumbersFresh' /\ ArrivedOfBatch'
  BY Zenon DEF MirrorInv, NumbersFresh, ArrivedOfBatch, ReceiveLate, queueVars
<1>4. LateAmongFailed'
  BY <1>1, <1>2
  DEF TypeOK, PostsTyped, AccountsTyped, MirrorInv, LateAmongFailed, Unread, ReceiveLate
<1>5. ASSUME NEW u \in Targets PROVE Reconciled(u)' /\ Truthful(u)'
  <2>1. Reconciled(u)'
    BY Zenon DEF MirrorInv, BooksBalance, Reconciled, Outstanding, ReceiveLate, queueVars
  <2>2. Truthful(u)'
    BY <1>1, <1>2
    DEF TypeOK, PostsTyped, AccountsTyped, MirrorInv, BooksBalance, LateAmongFailed, Truthful,
        Unread, ReceiveLate
  <2> QED  BY <2>1, <2>2
<1> QED  BY <1>3, <1>4, <1>5 DEF MirrorInv, BooksBalance

LEMMA OfferBooks ==
  ASSUME TypeOK, MirrorInv, NEW n \in Nodes, Offer(n) PROVE MirrorInv'
<1>1. ArrivedOfBatch' /\ LateAmongFailed' /\ \A u \in Targets : Truthful(u)'
  BY Zenon
  DEF MirrorInv, BooksBalance, ArrivedOfBatch, LateAmongFailed, Truthful, Unread, Offer,
      targetVars
<1>2. \/ UNCHANGED <<queue, accepted>>
      \/ /\ accepted < MaxAccepted /\ accepted' = accepted + 1
         /\ queue' = queue \cup {[node |-> n, nr |-> accepted + 1]}
  BY DEF Offer
<1>3. UNCHANGED <<batch, waiting, sent, rejected, failed, unregistered>>
  BY Zenon DEF Offer, targetVars
<1>4. CASE UNCHANGED <<queue, accepted>>
  BY <1>1, <1>3, <1>4, Zenon
  DEF MirrorInv, NumbersFresh, BooksBalance, Reconciled, Outstanding
<1>5. CASE /\ accepted < MaxAccepted /\ accepted' = accepted + 1
           /\ queue' = queue \cup {[node |-> n, nr |-> accepted + 1]}
  <2>1. NumbersFresh'
    BY <1>5, MirrorAssumption
    DEF TypeOK, QueueTyped, Frames, MirrorInv, NumbersFresh, MirrorAssumption
  <2>2. Cardinality(queue') = Cardinality(queue) + 1
    BY <1>5, OfferedCounts DEF MirrorInv
  <2>3. ASSUME NEW u \in Targets PROVE Reconciled(u)'
    <3>1. Outstanding(u)' = Outstanding(u)  BY <1>3, Zenon DEF Outstanding
    <3>2. Outstanding(u) \in Nat  BY Counts DEF Outstanding
    <3>3. /\ sent[u] \in Nat /\ rejected[u] \in Nat /\ failed[u] \in Nat
          /\ unregistered \in Nat /\ accepted \in Nat /\ Cardinality(queue) \in Nat
      BY Counts, MirrorAssumption
      DEF TypeOK, QueueTyped, AccountsTyped, MirrorAssumption
    <3>4. Reconciled(u)  BY DEF MirrorInv, BooksBalance
    <3> QED  BY <1>3, <1>5, <2>2, <3>1, <3>2, <3>3, <3>4 DEF Reconciled
  <2> QED  BY <1>1, <2>1, <2>3 DEF MirrorInv, BooksBalance
<1> QED  BY <1>2, <1>4, <1>5

LEMMA DrainBooks == ASSUME TypeOK, MirrorInv, Drain PROVE MirrorInv'
<1>1. NumbersFresh' /\ ArrivedOfBatch'
  BY Zenon DEF Drain, NumbersFresh, ArrivedOfBatch
<1>2. \A u \in Targets : Unread(u) = 0 /\ Unread(u)' = 0 /\ Outstanding(u) = 0
  BY Zenon DEF Drain, Unread, Outstanding
<1>3. UNCHANGED <<accepted, sent, rejected, failed, landed, late>>
  BY Zenon DEF Drain
<1>4. LateAmongFailed' /\ \A u \in Targets : Truthful(u)'
  BY <1>2, <1>3, Zenon DEF MirrorInv, BooksBalance, LateAmongFailed, Truthful
<1>5. ASSUME NEW u \in Targets PROVE Reconciled(u)'
  <2>1. /\ Cardinality(batch') \in Nat /\ Cardinality(Uncarried(queue, batch')) \in Nat
        /\ Cardinality(queue) = Cardinality(batch') + Cardinality(Uncarried(queue, batch'))
    BY DrainedCounts DEF Drain
  <2>2. Outstanding(u)' = Cardinality(batch')
    BY FS_EmptySet DEF Drain, Outstanding
  <2>3. Cardinality(queue') = 0  BY FS_EmptySet DEF Drain
  <2>4. unregistered' = unregistered + Cardinality(Uncarried(queue, batch'))
    BY DEF Drain
  <2>5. /\ sent[u] \in Nat /\ rejected[u] \in Nat /\ failed[u] \in Nat
        /\ unregistered \in Nat
    BY DEF TypeOK, QueueTyped, AccountsTyped
  <2>6. Reconciled(u)  BY DEF MirrorInv, BooksBalance
  <2> QED  BY <1>2, <1>3, <2>1, <2>2, <2>3, <2>4, <2>5, <2>6 DEF Reconciled
<1> QED  BY <1>1, <1>4, <1>5 DEF MirrorInv, BooksBalance

LEMMA DrainFailsBooks == ASSUME TypeOK, MirrorInv, DrainFails PROVE MirrorInv'
<1>1. NumbersFresh' /\ ArrivedOfBatch'
  BY Zenon DEF DrainFails, NumbersFresh, ArrivedOfBatch
<1>2. \A u \in Targets : /\ Unread(u) = 0 /\ Unread(u)' = 0
                         /\ Outstanding(u) = 0 /\ Outstanding(u)' = 0
  BY Zenon DEF DrainFails, Unread, Outstanding
<1>3. UNCHANGED <<accepted, sent, rejected, unregistered, landed, late>>
  BY Zenon DEF DrainFails
<1>4. Cardinality(queue) \in Nat /\ Cardinality(queue') = 0
  BY Counts, FS_EmptySet DEF DrainFails
<1>5. ASSUME NEW u \in Targets
      PROVE  /\ landed[u]' + late[u]' <= sent[u]' + failed[u]' + Unread(u)'
             /\ Reconciled(u)' /\ Truthful(u)'
  <2>1. failed'[u] = failed[u] + Cardinality(queue)  BY DEF DrainFails
  <2>2. /\ sent[u] \in Nat /\ rejected[u] \in Nat /\ failed[u] \in Nat
        /\ landed[u] \in Nat /\ late[u] \in Nat /\ unregistered \in Nat
    BY DEF TypeOK, QueueTyped, PostsTyped, AccountsTyped
  <2>3. /\ landed[u] + late[u] <= sent[u] + failed[u] + Unread(u)
        /\ Reconciled(u) /\ Truthful(u)
    BY DEF MirrorInv, LateAmongFailed, BooksBalance
  <2> QED  BY <1>2, <1>3, <1>4, <2>1, <2>2, <2>3 DEF Reconciled, Truthful
<1> QED  BY <1>1, <1>5 DEF MirrorInv, LateAmongFailed, BooksBalance

LEMMA AnswerBooks ==
  ASSUME TypeOK, MirrorInv, NEW t \in Targets, Answer(t) PROVE MirrorInv'
<1>1. NumbersFresh' /\ ArrivedOfBatch'
  BY Zenon DEF MirrorInv, NumbersFresh, ArrivedOfBatch, Answer, queueVars
<1>2. ASSUME NEW u \in Targets
      PROVE  /\ landed[u]' + late[u]' <= sent[u]' + failed[u]' + Unread(u)'
             /\ Reconciled(u)' /\ Truthful(u)'
  <2>1. /\ landed[u] + late[u] <= sent[u] + failed[u] + Unread(u)
        /\ Reconciled(u) /\ Truthful(u)
    BY DEF MirrorInv, LateAmongFailed, BooksBalance
  <2>2. UNCHANGED <<accepted, queue, batch, unregistered, failed, received, arrived, landed, late>>
    BY Zenon DEF Answer, queueVars
  <2>3. /\ sent[u] \in Nat /\ rejected[u] \in Nat /\ failed[u] \in Nat
        /\ landed[u] \in Nat /\ late[u] \in Nat /\ arrived[u] \in Nat
        /\ unregistered \in Nat /\ Cardinality(queue) \in Nat /\ Cardinality(batch) \in Nat
    BY Counts DEF TypeOK, QueueTyped, PostsTyped, AccountsTyped
  <2>4. CASE u = t
    <3>1. /\ sent'[u] = sent[u] + arrived[u]
          /\ rejected'[u] = rejected[u] + (Cardinality(batch) - arrived[u])
      BY <2>4 DEF TypeOK, AccountsTyped, Answer
    <3>2. arrived[u] <= Cardinality(batch)
      BY <2>4 DEF MirrorInv, ArrivedOfBatch, Answer
    <3>3. Unread(u) = arrived[u] /\ Outstanding(u) = Cardinality(batch)
      BY <2>4 DEF Unread, Outstanding, Answer
    <3>4. Unread(u)' = 0 /\ Outstanding(u)' = 0
      BY <2>4, Zenon DEF Unread, Outstanding, Answer
    <3> QED  BY <2>1, <2>2, <2>3, <3>1, <3>2, <3>3, <3>4 DEF Reconciled, Truthful
  <2>5. CASE u # t
    <3>1. sent'[u] = sent[u] /\ rejected'[u] = rejected[u]
      BY <2>5 DEF TypeOK, AccountsTyped, Answer
    <3>2. Unread(u)' = Unread(u) /\ Outstanding(u)' = Outstanding(u)
      BY <2>2, <2>5 DEF Unread, Outstanding, Answer
    <3> QED  BY <2>1, <2>2, <3>1, <3>2 DEF Reconciled, Truthful
  <2> QED  BY <2>4, <2>5
<1> QED  BY <1>1, <1>2 DEF MirrorInv, LateAmongFailed, BooksBalance

LEMMA PostFailsBooks ==
  ASSUME TypeOK, MirrorInv, NEW t \in Targets, PostFails(t) PROVE MirrorInv'
<1>1. NumbersFresh' /\ ArrivedOfBatch'
  BY Zenon DEF MirrorInv, NumbersFresh, ArrivedOfBatch, PostFails, queueVars
<1>2. ASSUME NEW u \in Targets
      PROVE  /\ landed[u]' + late[u]' <= sent[u]' + failed[u]' + Unread(u)'
             /\ Reconciled(u)' /\ Truthful(u)'
  <2>1. /\ landed[u] + late[u] <= sent[u] + failed[u] + Unread(u)
        /\ Reconciled(u) /\ Truthful(u)
    BY DEF MirrorInv, LateAmongFailed, BooksBalance
  <2>2. UNCHANGED <<accepted, queue, batch, unregistered, sent, rejected, received, arrived, landed>>
    BY Zenon DEF PostFails, queueVars
  <2>3. /\ sent[u] \in Nat /\ rejected[u] \in Nat /\ failed[u] \in Nat
        /\ landed[u] \in Nat /\ late[u] \in Nat /\ arrived[u] \in Nat
        /\ unregistered \in Nat /\ Cardinality(queue) \in Nat /\ Cardinality(batch) \in Nat
    BY Counts DEF TypeOK, QueueTyped, PostsTyped, AccountsTyped
  <2>4. CASE u = t
    <3>1. /\ failed'[u] = failed[u] + Cardinality(batch)
          /\ late'[u] = IF u \in received THEN late[u] ELSE late[u] + Cardinality(batch)
      BY <2>4 DEF TypeOK, PostsTyped, AccountsTyped, PostFails
    <3>2. /\ Unread(u) = IF u \in received THEN arrived[u] ELSE 0
          /\ Outstanding(u) = Cardinality(batch)
      BY <2>4 DEF Unread, Outstanding, PostFails
    <3>3. Unread(u) <= Cardinality(batch)
      BY <2>3, <2>4, <3>2 DEF MirrorInv, ArrivedOfBatch, PostFails
    <3>4. Unread(u)' = 0 /\ Outstanding(u)' = 0
      BY <2>4, Zenon DEF Unread, Outstanding, PostFails
    <3> QED  BY <2>1, <2>2, <2>3, <3>1, <3>2, <3>3, <3>4 DEF Reconciled, Truthful
  <2>5. CASE u # t
    <3>1. failed'[u] = failed[u] /\ late'[u] = late[u]
      BY <2>5 DEF TypeOK, PostsTyped, AccountsTyped, PostFails
    <3>2. Unread(u)' = Unread(u) /\ Outstanding(u)' = Outstanding(u)
      BY <2>2, <2>5 DEF Unread, Outstanding, PostFails
    <3> QED  BY <2>1, <2>2, <3>1, <3>2 DEF Reconciled, Truthful
  <2> QED  BY <2>4, <2>5
<1> QED  BY <1>1, <1>2 DEF MirrorInv, LateAmongFailed, BooksBalance

-----------------------------------------------------------------------------
(* The theorems *)

LEMMA StutterKeeps == ASSUME TypeOK, MirrorInv, UNCHANGED vars PROVE TypeOK' /\ MirrorInv'
<1>1. TypeOK'
  BY Zenon DEF TypeOK, QueueTyped, PostsTyped, AccountsTyped, vars, queueVars, targetVars
<1>2. MirrorInv'
  BY Zenon
  DEF MirrorInv, NumbersFresh, ArrivedOfBatch, LateAmongFailed, BooksBalance, Reconciled,
      Truthful, Outstanding, Unread, vars, queueVars, targetVars
<1> QED  BY <1>1, <1>2

LEMMA NextKeeps == ASSUME TypeOK, MirrorInv, Next PROVE TypeOK' /\ MirrorInv'
<1>1. ASSUME NEW n \in Nodes, Membership(n) PROVE TypeOK' /\ MirrorInv'
  BY <1>1, MembershipTyped, MembershipBooks
<1>2. ASSUME NEW n \in Nodes, Offer(n) PROVE TypeOK' /\ MirrorInv'
  BY <1>2, OfferTyped, OfferBooks DEF MirrorInv
<1>3. CASE Drain  BY <1>3, DrainTyped, DrainBooks
<1>4. CASE DrainFails  BY <1>4, DrainFailsTyped, DrainFailsBooks
<1>5. ASSUME NEW t \in Targets, Receive(t) PROVE TypeOK' /\ MirrorInv'
  BY <1>5, ReceiveTyped, ReceiveBooks
<1>6. ASSUME NEW t \in Targets, ReceiveLate(t) PROVE TypeOK' /\ MirrorInv'
  BY <1>6, ReceiveLateTyped, ReceiveLateBooks
<1>7. ASSUME NEW t \in Targets, Answer(t) PROVE TypeOK' /\ MirrorInv'
  BY <1>7, AnswerTyped, AnswerBooks DEF MirrorInv
<1>8. ASSUME NEW t \in Targets, PostFails(t) PROVE TypeOK' /\ MirrorInv'
  BY <1>8, PostFailsTyped, PostFailsBooks
<1> QED  BY <1>1, <1>2, <1>3, <1>4, <1>5, <1>6, <1>7, <1>8 DEF Next

LEMMA MirrorInvariant == Spec => [](TypeOK /\ MirrorInv)
<1>1. Init => TypeOK /\ MirrorInv  BY InitTyped, InitBooks
<1>2. TypeOK /\ MirrorInv /\ [Next]_vars => TypeOK' /\ MirrorInv'
  BY NextKeeps, StutterKeeps
<1> QED  BY <1>1, <1>2, PTL DEF Spec

(* The queue, its counters and every target's account keep their types,    *)
(* whatever the receivers do.                                              *)
THEOREM TypesHold == Spec => []TypeOK
BY MirrorInvariant, PTL

(* For any number of nodes, targets and frames, the account of every       *)
(* target reconciles against accepted at every moment, and tells no less   *)
(* and no more than its receiver did.                                      *)
THEOREM BooksAlwaysBalance == Spec => []BooksBalance
<1>1. MirrorInv => BooksBalance  BY DEF MirrorInv
<1> QED  BY <1>1, MirrorInvariant, PTL

=============================================================================
