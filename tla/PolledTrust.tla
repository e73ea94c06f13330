---------------------------- MODULE PolledTrust ----------------------------
(***************************************************************************)
(* Whether what one polled radar sends may be used: its row with an epoch  *)
(* and a trust, the task that polls it under the target it was started     *)
(* with, the poller that restarts that task, the administrator and the     *)
(* owner who write the row, and the fence: a cached answer the frame       *)
(* workers and the feeds ask.                                              *)
(*                                                                         *)
(* A commit and the invalidation that follows it are two steps: the        *)
(* coroutine resumes some time after the row has changed.  What the radar  *)
(* declares is left out; whether it changed, and which version of the      *)
(* configuration it leads to, is chosen freely.                            *)
(***************************************************************************)
EXTENDS Integers, Sequences, FiniteSets

CONSTANTS MaxEpoch, MaxVersion,   \* bounds: epochs and configuration versions
          MaxQueue, MaxDecisions  \* bounds: frames waiting, decisions taken

ASSUME TrustAssumption ==
  /\ MaxEpoch \in Nat \ {0} /\ MaxVersion \in Nat \ {0}
  /\ MaxQueue \in Nat /\ MaxDecisions \in Nat

Epochs == 1..MaxEpoch
Trusts == {"probation", "graduated"}
Targets == [epoch : Epochs, version : 1..MaxVersion]
Nil == [epoch |-> 0, version |-> 0]
Writers == {"task", "admin", "owner"}

VARIABLES
  row,      \* the polled_radars row and its node's active version; epoch 0: retired
  owed,     \* writers whose commit is in the row and who have not resumed
  cache,    \* _graduated and _expires_at: [valid, graduated] for this radar
  reading,  \* the answer of the refresh that holds probation's lock, or "none"
  task, state, \* the target of the radar's task, and where it stands
  stage, want, \* the poller: its step, and the target it read
  queue,    \* epochs of the frames in the frame queue
  frame,    \* the frame being processed: [epoch, free]
  tracker,  \* epochs whose frames the node's tracker holds
  released, \* epochs whose frames or tracks went past the fence
  admin, owner, \* the epoch each was shown, 0 for none
  decisions, approved, \* history: decisions taken, epochs approved as shown
  early,    \* history: a frame was let past on an answer the row no longer gave
  cut       \* history: a task was cancelled between its commit and the invalidation

rowVars    == <<row, owed, cut>>
fenceVars  == <<cache, reading>>
taskVars   == <<task, state>>
syncVars   == <<stage, want>>
frameVars  == <<queue, frame, tracker, released, early>>
peopleVars == <<admin, owner, decisions, approved>>
vars == <<rowVars, fenceVars, taskVars, syncVars, frameVars, peopleVars>>

Graduated == row.epoch # 0 /\ row.trust = "graduated"

(* What load_targets reads.                                                *)
Target == [epoch |-> row.epoch, version |-> row.version]

NoFrame == [epoch |-> 0, free |-> FALSE]

-----------------------------------------------------------------------------
(* The radar's task *)

Running == task # Nil

\* Mutation: the writes carry no condition.
Unguarded == TRUE

Unmoved == row.epoch = task.epoch

(* The configuration is fetched and the row read.  Declared as before, the *)
(* session polls on, or a new version for the same epoch ends the task; an *)
(* answer nothing may be filed under leaves the session holding.           *)
CheckConfig ==
  /\ state = "session"
  /\ IF ~Unmoved THEN state' = "done" /\ UNCHANGED row
     ELSE \/ state' \in {"filing", "probing"} /\ UNCHANGED row
          \/ /\ row.version < MaxVersion
             /\ row' = [row EXCEPT !.version = @ + 1]
             /\ state' = "done"
  /\ UNCHANGED <<owed, cut, fenceVars, task, syncVars, frameVars, peopleVars>>

\* Mutation: an epoch keeps the trust of the one before.
BeginTrusted(e, v) == [row EXCEPT !.epoch = e, !.version = v]

Begin(e, v) == [epoch |-> e, trust |-> "probation", version |-> v]

(* Declared anew: the re-probe is refused, or the next epoch begins, on    *)
(* probation, if the row is still at the task's.                           *)
NextEpoch ==
  /\ state = "probing"
  /\ \/ state' = "session" /\ UNCHANGED <<row, owed>>
     \/ /\ Unmoved /\ task.epoch < MaxEpoch
        /\ \E v \in {row.version, row.version + 1} :
             /\ v <= MaxVersion
             /\ row' = Begin(task.epoch + 1, v)
        /\ owed' = owed \cup {"task"} /\ state' = "committed"
     \/ ~Unmoved /\ state' = "done" /\ UNCHANGED <<row, owed>>
  /\ UNCHANGED <<cut, fenceVars, task, syncVars, frameVars, peopleVars>>

\* Mutation: does not wait for a refresh under way.
AnyTime == TRUE

LockFree == reading = "none"

(* probation.invalidate, and the writer goes on.                           *)
Invalidate(w) ==
  /\ w \in owed /\ LockFree
  /\ cache' = [cache EXCEPT !.valid = FALSE]
  /\ owed' = owed \ {w}
  /\ state' = IF w = "task" THEN "done" ELSE state
  /\ UNCHANGED <<row, cut, reading, task, syncVars, frameVars, peopleVars>>

(* A frame is filed under the task's own epoch.                            *)
File ==
  /\ state = "filing" /\ Len(queue) < MaxQueue
  /\ queue' = Append(queue, task.epoch)
  /\ UNCHANGED <<rowVars, fenceVars, taskVars, syncVars, frame, tracker, released, early, peopleVars>>

(* The session is over, or a poll failed and the task starts another.      *)
NewSession ==
  /\ state = "filing" /\ state' = "session"
  /\ UNCHANGED <<rowVars, fenceVars, task, syncVars, frameVars, peopleVars>>

-----------------------------------------------------------------------------
(* The poller: one sync after another, woken or on its timer *)

Load ==
  /\ stage = "waiting"
  /\ want' = Target /\ stage' = "loaded"
  /\ UNCHANGED <<rowVars, fenceVars, taskVars, frameVars, peopleVars>>

\* Mutation: a task is outdated by its epoch alone.
OldEpoch == task.epoch # want.epoch

Outdated == task # want \/ state = "done"

(* The task is cancelled wherever it waits, its own commit included.       *)
StopTask ==
  /\ stage = "loaded"
  /\ IF Running /\ Outdated
     THEN /\ task' = Nil /\ state' = "none"
          /\ stage' = IF want \in {Nil, task} THEN "stopped" ELSE "rejoining"
          /\ owed' = owed \ {"task"}
          /\ cut' = (cut \/ "task" \in owed)
     ELSE stage' = "stopped" /\ UNCHANGED <<taskVars, owed, cut>>
  /\ UNCHANGED <<row, fenceVars, want, frameVars, peopleVars>>

(* register_with_pipeline evicts the node's tracker, unless it fails.      *)
Rejoin ==
  /\ stage = "rejoining"
  /\ stage' = "stopped"
  /\ tracker' \in {{}, tracker}
  /\ UNCHANGED <<rowVars, fenceVars, taskVars, want, queue, frame, released, early, peopleVars>>

StartTask ==
  /\ stage = "stopped"
  /\ IF ~Running /\ want # Nil THEN task' = want /\ state' = "session" ELSE UNCHANGED taskVars
  /\ stage' = "waiting" /\ want' = Nil
  /\ UNCHANGED <<rowVars, fenceVars, frameVars, peopleVars>>

-----------------------------------------------------------------------------
(* The fence: probation._graduated_ids *)

(* Whoever asks an expired cache reads the rows, holding the lock ...      *)
Read ==
  /\ ~cache.valid /\ LockFree
  /\ reading' \in {IF Graduated THEN "graduated" ELSE "probation", "failed"}
  /\ UNCHANGED <<rowVars, cache, taskVars, syncVars, frameVars, peopleVars>>

OnFailure == FALSE

(* ... and files the answer; a failed read gates every radar.              *)
Fill ==
  /\ reading # "none"
  /\ cache' = [valid |-> TRUE,
               graduated |-> IF reading = "failed" THEN OnFailure ELSE reading = "graduated"]
  /\ reading' = "none"
  /\ UNCHANGED <<rowVars, taskVars, syncVars, frameVars, peopleVars>>

Expire ==
  /\ cache.valid /\ cache' = [cache EXCEPT !.valid = FALSE]
  /\ UNCHANGED <<rowVars, reading, taskVars, syncVars, frameVars, peopleVars>>

(* process_one_frame asks once, by the radar's id ...                      *)
Judge ==
  /\ frame = NoFrame /\ queue # <<>> /\ cache.valid
  /\ frame' = [epoch |-> Head(queue), free |-> cache.graduated]
  /\ queue' = Tail(queue)
  /\ early' = (early \/ (cache.graduated /\ ~Graduated))
  /\ UNCHANGED <<rowVars, fenceVars, taskVars, syncVars, tracker, released, peopleVars>>

(* ... and hands on what the tracker holds once the frame is in it.        *)
Process ==
  /\ frame # NoFrame
  /\ tracker' = tracker \cup {frame.epoch}
  /\ released' = IF frame.free THEN released \cup tracker' ELSE released
  /\ frame' = NoFrame
  /\ UNCHANGED <<rowVars, fenceVars, taskVars, syncVars, queue, early, peopleVars>>

-----------------------------------------------------------------------------
(* The administrator and the owner *)

Look ==
  /\ row.epoch # 0 /\ decisions < MaxDecisions
  /\ decisions' = decisions + 1
  /\ \/ "admin" \notin owed /\ admin' = row.epoch /\ UNCHANGED owner
     \/ "owner" \notin owed /\ owner' = row.epoch /\ UNCHANGED admin
  /\ UNCHANGED <<rowVars, fenceVars, taskVars, syncVars, frameVars, approved>>

\* Mutation: set_trust writes whatever epoch the radar is at.
AnyEpoch == row.epoch # 0

AsShown == row.epoch = admin

(* set_trust, then the route's commit; another epoch is refused.           *)
Decide ==
  /\ admin # 0
  /\ IF AsShown
     THEN \E trust \in Trusts :
            /\ row' = [row EXCEPT !.trust = trust]
            /\ approved' = IF trust = "graduated" THEN approved \cup {admin} ELSE approved
            /\ owed' = owed \cup {"admin"}
     ELSE UNCHANGED <<row, approved, owed>>
  /\ admin' = 0
  /\ UNCHANGED <<cut, fenceVars, taskVars, syncVars, frameVars, owner, decisions>>

(* change_address: another host begins an epoch, if the row is at the one  *)
(* the probe was made for; the same host only stores a credential.         *)
Move ==
  /\ owner # 0
  /\ \/ /\ row.epoch = owner /\ owner < MaxEpoch
        /\ \E v \in {row.version, row.version + 1} :
             /\ v <= MaxVersion
             /\ row' = Begin(owner + 1, v)
        /\ owed' = owed \cup {"owner"}
     \/ row.epoch = owner /\ owed' = owed \cup {"owner"} /\ UNCHANGED row
     \/ row.epoch # owner /\ UNCHANGED <<row, owed>>
  /\ owner' = 0
  /\ UNCHANGED <<cut, fenceVars, taskVars, syncVars, frameVars, admin, decisions, approved>>

(* The radar is removed, and let_go forgets the node and its tracker.       *)
Retire ==
  /\ row.epoch # 0 /\ decisions < MaxDecisions
  /\ decisions' = decisions + 1
  /\ row' = [epoch |-> 0, trust |-> "probation", version |-> 0]
  /\ tracker' = {}
  /\ UNCHANGED <<owed, cut, fenceVars, taskVars, syncVars, queue, frame, released, early,
                 admin, owner, approved>>

-----------------------------------------------------------------------------
Init ==
  /\ row = [epoch |-> 1, trust |-> "probation", version |-> 1]
  /\ owed = {} /\ cut = FALSE
  /\ cache = [valid |-> FALSE, graduated |-> FALSE] /\ reading = "none"
  /\ task = Nil /\ state = "none"
  /\ stage = "waiting" /\ want = Nil
  /\ queue = <<>> /\ frame = NoFrame /\ tracker = {} /\ released = {}
  /\ early = FALSE
  /\ admin = 0 /\ owner = 0 /\ decisions = 0 /\ approved = {}

Poll  == CheckConfig \/ NextEpoch \/ File \/ NewSession
Sync  == Load \/ StopTask \/ Rejoin \/ StartTask
Fence == Read \/ Fill \/ Expire \/ Judge \/ Process
People == Look \/ Decide \/ Move \/ Retire

Next == Poll \/ Sync \/ Fence \/ People \/ \E w \in Writers : Invalidate(w)

Spec == Init /\ [][Next]_vars

(* The poller's loop goes on, and its reads of the registry succeed in the *)
(* end.                                                                    *)
FairSpec == Spec /\ WF_vars(Sync)

-----------------------------------------------------------------------------
RowTyped ==
  /\ row \in [epoch : 0..MaxEpoch, trust : Trusts, version : 0..MaxVersion]
  /\ (row.epoch = 0 <=> row.version = 0)

OwedTyped == owed \subseteq Writers /\ cut \in BOOLEAN

CacheTyped ==
  /\ cache \in [valid : BOOLEAN, graduated : BOOLEAN]
  /\ reading \in {"none", "failed"} \cup Trusts

TasksTyped ==
  /\ task \in Targets \cup {Nil} /\ want \in Targets \cup {Nil}
  /\ state \in {"none", "session", "probing", "committed", "filing", "done"}
  /\ (state = "none" <=> task = Nil) /\ ("task" \in owed <=> state = "committed")
  /\ stage \in {"waiting", "loaded", "rejoining", "stopped"}

FramesTyped ==
  /\ queue \in Seq(Epochs) /\ Len(queue) <= MaxQueue
  /\ frame \in [epoch : Epochs, free : BOOLEAN] \cup {NoFrame}
  /\ tracker \subseteq Epochs /\ released \subseteq Epochs /\ early \in BOOLEAN

PeopleTyped ==
  /\ admin \in 0..MaxEpoch /\ owner \in 0..MaxEpoch
  /\ decisions \in 0..MaxDecisions /\ approved \subseteq Epochs

(* Every variable keeps its type; a radar polled has a version, and a task *)
(* owes the fence its invalidation exactly when it has committed an epoch.  *)
TypeOK ==
  /\ RowTyped /\ OwedTyped /\ CacheTyped
  /\ TasksTyped /\ FramesTyped /\ PeopleTyped

(* The fence is open only on a radar that is graduated, from the moment    *)
(* the writer that put it back on probation goes on after its commit: no   *)
(* refresh under way then files an older answer, and no failed read keeps  *)
(* one.  Two exceptions: a removed radar, whose answer runs out by itself, *)
(* and a task cancelled before it could go on.                             *)
FenceFresh ==
  cache.valid /\ cache.graduated /\ row.epoch # 0 => Graduated \/ owed # {} \/ cut

(* A radar is graduated only at an epoch an administrator was shown and    *)
(* approved, whatever the poller and the owner started in between.         *)
GraduatedWasShown == Graduated => row.epoch \in approved

(* What goes past the fence is of an epoch somebody approved, or of an     *)
(* earlier one still in the queue or the tracker when the later epoch was: *)
(* an epoch nobody has decided on is never ahead of the decisions, unless  *)
(* an answer was used in the moment FenceFresh leaves it.                  *)
ReleasedBehindTrust ==
  early \/ \A e \in released : \E a \in approved : e <= a

(* However the task, the owner and the administrator interleave, the row   *)
(* goes through its epochs one by one, each from probation, is decided on  *)
(* only at the epoch it is at, and stays removed once it is (TrustContract). *)
Contract == INSTANCE TrustContract WITH epoch <- row.epoch, trust <- row.trust
KeepsContract == Contract!Spec

(* Once the row rests (here: the bounds are reached) the radar's task runs *)
(* under what it says, or there is none when it was removed: no superseded *)
(* task is left behind and no new version passed over.  There is no wake   *)
(* here; the timer of Poller.run alone brings it about, as when every wake *)
(* is lost.                                                                *)
PollerCatchesUp == []<>(task = Target /\ state # "done")
=============================================================================
