--------------------------- MODULE DetectionMirror ---------------------------
(***************************************************************************)
(* services/detection_mirror.py: frames this server accepted are offered   *)
(* to one bounded queue, drained once a second into one batch, and the     *)
(* batch is posted to every target at once.  Each target keeps its own     *)
(* account of what it was sent.                                            *)
(*                                                                         *)
(* A drain builds its batch without awaiting, so it is one step; offers    *)
(* and departures happen while the posts are out.  A receiver that was     *)
(* given up on may still take the frames later.                            *)
(***************************************************************************)
EXTENDS Naturals, FiniteSets

CONSTANTS Nodes, Targets, QueueMax,
          MaxAccepted               \* bound: frames accepted

ASSUME MirrorAssumption == QueueMax \in Nat \ {0} /\ MaxAccepted \in Nat

\* A frame: its node, and its place among the accepted.
Frames == [node : Nodes, nr : 1..MaxAccepted]

VARIABLES
  registered,   \* the nodes connected_nodes has with a configuration
  queue,        \* the frames offered and not yet drained
  accepted, dropped, unregistered, \* _counters
  batch,        \* the frames of the entries being posted
  waiting,      \* the targets whose post has not returned
  sent, rejected, failed, healthy, \* each target's account
  received, arrived, \* the receivers that have the batch, and what they queued
  landed, late  \* history: frames a receiver queued; frames given up on that
                \* it may still be working on

queueVars  == <<queue, accepted, dropped>>
targetVars == <<sent, rejected, failed, healthy, received, arrived, landed, late>>
vars == <<registered, queueVars, unregistered, batch, waiting, targetVars>>

-----------------------------------------------------------------------------
(* The environment *)

(* A node registers, or leaves connected_nodes.                            *)
Membership(n) ==
  /\ registered' \in {registered \cup {n}, registered \ {n}}
  /\ UNCHANGED <<queueVars, unregistered, batch, waiting, targetVars>>

(* The receiver queues some of the batch it was posted.                    *)
Receive(t) ==
  /\ t \in waiting \ received
  /\ \E k \in 0..Cardinality(batch) :
       /\ arrived' = [arrived EXCEPT ![t] = k]
       /\ landed' = [landed EXCEPT ![t] = @ + k]
  /\ received' = received \cup {t}
  /\ UNCHANGED <<registered, queueVars, unregistered, batch, waiting,
                 sent, rejected, failed, healthy, late>>

(* It gets to a post that was given up on.                                 *)
ReceiveLate(t) ==
  /\ \E b \in 1..late[t] : \E k \in 0..b :
       /\ late' = [late EXCEPT ![t] = @ - b]
       /\ landed' = [landed EXCEPT ![t] = @ + k]
  /\ UNCHANGED <<registered, queueVars, unregistered, batch, waiting,
                 sent, rejected, failed, healthy, received, arrived>>

-----------------------------------------------------------------------------
(* The mirror *)

(* offer, by the ingest of an accepted frame; a full queue drops it.  A    *)
(* node on probation is passed over and changes nothing.                   *)
Offer(n) ==
  /\ IF Cardinality(queue) < QueueMax
     THEN /\ accepted < MaxAccepted
          /\ queue' = queue \cup {[node |-> n, nr |-> accepted + 1]}
          /\ accepted' = accepted + 1 /\ UNCHANGED dropped
     ELSE /\ dropped < MaxAccepted /\ dropped' = dropped + 1
          /\ UNCHANGED <<queue, accepted>>
  /\ UNCHANGED <<registered, unregistered, batch, waiting, targetVars>>

\* Mutation: credited only when the drain has nothing left to send.
UncarriedWhenEmpty(items, built) == IF built = {} THEN items ELSE {}

(* The frames build_batch had nothing to carry in.                         *)
Uncarried(items, built) == items \ built

Carried(items) == {f \in items : f.node \in registered}

(* The drain takes everything queued; what its nodes' entries carry goes   *)
(* to every target.                                                        *)
Drain ==
  /\ waiting = {} /\ queue # {}
  /\ queue' = {} /\ batch' = Carried(queue)
  /\ waiting' = IF batch' = {} THEN {} ELSE Targets
  /\ unregistered' = unregistered + Cardinality(Uncarried(queue, batch'))
  /\ received' = {}
  /\ UNCHANGED <<registered, accepted, dropped, sent, rejected, failed, healthy,
                 arrived, landed, late>>

(* The batch could not be built: every target is charged for the drain.    *)
DrainFails ==
  /\ waiting = {} /\ queue # {}
  /\ queue' = {}
  /\ failed' = [t \in Targets |-> failed[t] + Cardinality(queue)]
  /\ healthy' = [t \in Targets |-> FALSE]
  /\ UNCHANGED <<registered, accepted, dropped, unregistered, batch, waiting,
                 sent, rejected, received, arrived, landed, late>>

(* A usable answer: the receiver's own count, and the shortfall.           *)
Answer(t) ==
  /\ t \in waiting \cap received
  /\ sent' = [sent EXCEPT ![t] = @ + arrived[t]]
  /\ rejected' = [rejected EXCEPT ![t] = @ + (Cardinality(batch) - arrived[t])]
  /\ healthy' = [healthy EXCEPT ![t] = arrived[t] = Cardinality(batch)]
  /\ waiting' = waiting \ {t}
  /\ UNCHANGED <<registered, queueVars, unregistered, batch, failed, received, arrived, landed, late>>

\* Mutation: the client has no timeout.
AnsweredBadly(t) == t \in received

(* A post ends without a usable answer whether or not it was received.     *)
GivenUp(t) == TRUE

(* A network error, a timeout, an error status or an unreadable body.      *)
PostFails(t) ==
  /\ t \in waiting /\ GivenUp(t)
  /\ failed' = [failed EXCEPT ![t] = @ + Cardinality(batch)]
  /\ late' = [late EXCEPT ![t] = IF t \in received THEN @
                                 ELSE @ + Cardinality(batch)]
  /\ healthy' = [healthy EXCEPT ![t] = FALSE]
  /\ waiting' = waiting \ {t}
  /\ UNCHANGED <<registered, queueVars, unregistered, batch, sent, rejected, received, arrived, landed>>

-----------------------------------------------------------------------------
Init ==
  /\ registered \in SUBSET Nodes
  /\ queue = {} /\ batch = {} /\ waiting = {}
  /\ accepted = 0 /\ dropped = 0 /\ unregistered = 0
  /\ sent = [t \in Targets |-> 0] /\ rejected = [t \in Targets |-> 0]
  /\ failed = [t \in Targets |-> 0] /\ healthy = [t \in Targets |-> TRUE]
  /\ received = {} /\ arrived = [t \in Targets |-> 0]
  /\ landed = [t \in Targets |-> 0] /\ late = [t \in Targets |-> 0]

Next ==
  \/ \E n \in Nodes : Membership(n) \/ Offer(n)
  \/ Drain \/ DrainFails
  \/ \E t \in Targets : Receive(t) \/ ReceiveLate(t) \/ Answer(t) \/ PostFails(t)

Spec == Init /\ [][Next]_vars

(* mirror_task's loop goes on, and every post ends.  The client's timeout   *)
(* bounds each read and not the whole post, so this assumes that no         *)
(* receiver keeps a post open for ever by answering a byte at a time; one   *)
(* that is silent, refuses or never answers is covered.                     *)
Fairness ==
  /\ WF_vars(Drain \/ DrainFails)
  /\ \A t \in Targets : WF_vars(PostFails(t))

FairSpec == Spec /\ Fairness

-----------------------------------------------------------------------------
QueueTyped ==
  /\ registered \in SUBSET Nodes
  /\ queue \in SUBSET Frames /\ IsFiniteSet(queue)
  /\ accepted \in 0..MaxAccepted /\ dropped \in Nat /\ unregistered \in Nat

PostsTyped ==
  /\ batch \in SUBSET Frames /\ IsFiniteSet(batch)
  /\ waiting \in SUBSET Targets /\ received \in SUBSET Targets
  /\ arrived \in [Targets -> Nat] /\ landed \in [Targets -> Nat] /\ late \in [Targets -> Nat]

AccountsTyped ==
  /\ sent \in [Targets -> Nat] /\ rejected \in [Targets -> Nat] /\ failed \in [Targets -> Nat]
  /\ healthy \in [Targets -> BOOLEAN]

(* The queue and its counters, the posts and the accounts keep their       *)
(* types: services/detection_mirror.py, Target and _counters.              *)
TypeOK == QueueTyped /\ PostsTyped /\ AccountsTyped

\* What the batch has not yet been charged to t.
Outstanding(t) == IF t \in waiting THEN Cardinality(batch) ELSE 0

(* "for each target, sent + rejected + failed + the global unregistered    *)
(* reconciles against the global accepted": detection_mirror.py:54-57.     *)
Reconciled(t) ==
  accepted = Cardinality(queue) + Outstanding(t) + sent[t] + rejected[t] + failed[t] + unregistered

\* Queued by the receiver, with the answer still to be read.
Unread(t) == IF t \in waiting \cap received THEN arrived[t] ELSE 0

(* What a target is said to have been sent its receiver did queue, and     *)
(* what the receiver queued beyond that is in what was given up on.        *)
Truthful(t) ==
  /\ sent[t] + Unread(t) <= landed[t]
  /\ landed[t] <= sent[t] + failed[t] + Unread(t)

(* The books of every target balance, whatever mixture of departures,      *)
(* refusals, failures and hung receivers there was, and agree with what    *)
(* the receiver did.                                                       *)
BooksBalance == \A t \in Targets : Reconciled(t) /\ Truthful(t)

(* mirror_task: the queue is emptied again and again, though a receiver    *)
(* hangs, refuses or answers nonsense, and though a batch may not build.   *)
QueueIsDrained == queue # {} ~> queue = {}

=============================================================================
