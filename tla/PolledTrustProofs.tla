------------------------- MODULE PolledTrustProofs -------------------------
(***************************************************************************)
(* Proofs about PolledTrust for every number of epochs, versions, frames   *)
(* and decisions.  Types come first; the fence and the approvals are then  *)
(* inductive with little more; what is released needs that nothing in the  *)
(* pipeline is of an epoch later than the row's, and that a frame let past *)
(* the fence keeps an approved epoch at or above it and the tracker.       *)
(***************************************************************************)
EXTENDS PolledTrust, TLAPS

-----------------------------------------------------------------------------
(* Types *)

(* The bounds are positive numbers.                                        *)
LEMMA Bounds == MaxEpoch \in Nat /\ MaxVersion \in Nat /\ MaxEpoch >= 1 /\ MaxVersion >= 1
                /\ MaxQueue \in Nat /\ MaxDecisions \in Nat
BY SMT, TrustAssumption DEF TrustAssumption

LEMMA InitTyped == ASSUME Init PROVE TypeOK
<1>1. OwedTyped
  BY Zenon DEF OwedTyped, Init, Trusts, Targets, Epochs, Nil, NoFrame, Writers
<1>2. FramesTyped
  <2>1. queue \in Seq(Epochs) /\ Len(queue) <= MaxQueue
    BY SMT, Bounds DEF Init
  <2> QED  BY <2>1, Zenon DEF FramesTyped, Init
<1>3. RowTyped /\ CacheTyped /\ TasksTyped /\ PeopleTyped
  BY SMT, Bounds DEF RowTyped, OwedTyped, CacheTyped, TasksTyped, FramesTyped, PeopleTyped,
  Init, Trusts, Targets, Epochs, Nil, NoFrame, Writers
<1> QED  BY <1>1, <1>2, <1>3 DEF TypeOK

LEMMA CheckConfigTyped == ASSUME TypeOK, CheckConfig PROVE TypeOK'
BY SMT, Bounds
DEF TypeOK, RowTyped, OwedTyped, CacheTyped, TasksTyped, FramesTyped,
    PeopleTyped, CheckConfig, Unmoved, Trusts, Targets, Epochs, Nil, Writers,
    fenceVars, syncVars, frameVars, peopleVars

LEMMA NextEpochTyped == ASSUME TypeOK, NextEpoch PROVE TypeOK'
<1>1. OwedTyped'
  BY Zenon DEF TypeOK, OwedTyped, NextEpoch, Begin, Unmoved, Trusts, Targets, Epochs,
  Nil, Writers, fenceVars, syncVars, frameVars, peopleVars
<1>2. (RowTyped /\ CacheTyped /\ TasksTyped /\ FramesTyped /\ PeopleTyped)'
  BY SMT, Bounds DEF TypeOK, RowTyped, OwedTyped, CacheTyped, TasksTyped, FramesTyped,
  PeopleTyped, NextEpoch, Begin, Unmoved, Trusts, Targets, Epochs, Nil,
  Writers, fenceVars, syncVars, frameVars, peopleVars
<1> QED  BY <1>1, <1>2 DEF TypeOK

LEMMA InvalidateTyped ==
  ASSUME TypeOK, NEW w \in Writers, Invalidate(w) PROVE TypeOK'
<1>1. CacheTyped'
  BY Zenon DEF TypeOK, CacheTyped, Invalidate, LockFree, Trusts, Targets, Epochs, Nil,
  Writers, syncVars, frameVars, peopleVars
<1>2. (RowTyped /\ OwedTyped /\ TasksTyped /\ FramesTyped /\ PeopleTyped)'
  BY SMT, Bounds DEF TypeOK, RowTyped, OwedTyped, CacheTyped, TasksTyped, FramesTyped,
  PeopleTyped, Invalidate, LockFree, Trusts, Targets, Epochs, Nil, Writers,
  syncVars, frameVars, peopleVars
<1> QED  BY <1>1, <1>2 DEF TypeOK

LEMMA FileTyped == ASSUME TypeOK, File PROVE TypeOK'
BY SMT, Bounds
DEF TypeOK, RowTyped, OwedTyped, CacheTyped, TasksTyped, FramesTyped,
    PeopleTyped, File, Trusts, Targets, Epochs, Nil, Writers, rowVars, fenceVars,
    taskVars, syncVars, peopleVars

LEMMA NewSessionTyped == ASSUME TypeOK, NewSession PROVE TypeOK'
BY SMT, Bounds
DEF TypeOK, RowTyped, OwedTyped, CacheTyped, TasksTyped, FramesTyped,
    PeopleTyped, NewSession, Trusts, Targets, Epochs, Nil, Writers, rowVars,
    fenceVars, syncVars, frameVars, peopleVars

LEMMA LoadTyped == ASSUME TypeOK, Load PROVE TypeOK'
BY SMT, Bounds
DEF TypeOK, RowTyped, OwedTyped, CacheTyped, TasksTyped, FramesTyped,
    PeopleTyped, Load, Target, Trusts, Targets, Epochs, Nil, Writers, rowVars,
    fenceVars, taskVars, frameVars, peopleVars

LEMMA StopTaskTyped == ASSUME TypeOK, StopTask PROVE TypeOK'
<1>1. OwedTyped'
  BY Zenon DEF TypeOK, OwedTyped, StopTask, Running, Outdated, Trusts, Targets, Epochs,
  Nil, Writers, fenceVars, taskVars, frameVars, peopleVars
<1>2. (RowTyped /\ CacheTyped /\ TasksTyped /\ FramesTyped /\ PeopleTyped)'
  BY SMT, Bounds DEF TypeOK, RowTyped, OwedTyped, CacheTyped, TasksTyped, FramesTyped,
  PeopleTyped, StopTask, Running, Outdated, Trusts, Targets, Epochs, Nil,
  Writers, fenceVars, taskVars, frameVars, peopleVars
<1> QED  BY <1>1, <1>2 DEF TypeOK

LEMMA RejoinTyped == ASSUME TypeOK, Rejoin PROVE TypeOK'
<1>1. FramesTyped'
  BY Zenon DEF TypeOK, FramesTyped, Rejoin, Trusts, Targets, Epochs, Nil, Writers,
  rowVars, fenceVars, taskVars, peopleVars
<1>2. (RowTyped /\ OwedTyped /\ CacheTyped /\ TasksTyped /\ PeopleTyped)'
  BY SMT, Bounds DEF TypeOK, RowTyped, OwedTyped, CacheTyped, TasksTyped, FramesTyped,
  PeopleTyped, Rejoin, Trusts, Targets, Epochs, Nil, Writers, rowVars,
  fenceVars, taskVars, peopleVars
<1> QED  BY <1>1, <1>2 DEF TypeOK

LEMMA StartTaskTyped == ASSUME TypeOK, StartTask PROVE TypeOK'
BY SMT, Bounds
DEF TypeOK, RowTyped, OwedTyped, CacheTyped, TasksTyped, FramesTyped,
    PeopleTyped, StartTask, Running, Trusts, Targets, Epochs, Nil, Writers,
    rowVars, fenceVars, taskVars, frameVars, peopleVars

LEMMA ReadTyped == ASSUME TypeOK, Read PROVE TypeOK'
BY SMT, Bounds
DEF TypeOK, RowTyped, OwedTyped, CacheTyped, TasksTyped, FramesTyped,
    PeopleTyped, Read, LockFree, Graduated, Trusts, Targets, Epochs, Nil, Writers,
    rowVars, taskVars, syncVars, frameVars, peopleVars

LEMMA FillTyped == ASSUME TypeOK, Fill PROVE TypeOK'
<1>1. CacheTyped'
  BY Zenon DEF TypeOK, CacheTyped, Fill, OnFailure, Trusts, Targets, Epochs, Nil,
  Writers, rowVars, taskVars, syncVars, frameVars, peopleVars
<1>2. (RowTyped /\ OwedTyped /\ TasksTyped /\ FramesTyped /\ PeopleTyped)'
  BY SMT, Bounds DEF TypeOK, RowTyped, OwedTyped, CacheTyped, TasksTyped, FramesTyped,
  PeopleTyped, Fill, OnFailure, Trusts, Targets, Epochs, Nil, Writers,
  rowVars, taskVars, syncVars, frameVars, peopleVars
<1> QED  BY <1>1, <1>2 DEF TypeOK

LEMMA ExpireTyped == ASSUME TypeOK, Expire PROVE TypeOK'
<1>1. CacheTyped'
  BY Zenon DEF TypeOK, CacheTyped, Expire, Trusts, Targets, Epochs, Nil, Writers,
  rowVars, taskVars, syncVars, frameVars, peopleVars
<1>2. (RowTyped /\ OwedTyped /\ TasksTyped /\ FramesTyped /\ PeopleTyped)'
  BY SMT, Bounds DEF TypeOK, RowTyped, OwedTyped, CacheTyped, TasksTyped, FramesTyped,
  PeopleTyped, Expire, Trusts, Targets, Epochs, Nil, Writers, rowVars,
  taskVars, syncVars, frameVars, peopleVars
<1> QED  BY <1>1, <1>2 DEF TypeOK

LEMMA JudgeTyped == ASSUME TypeOK, Judge PROVE TypeOK'
BY SMT, Bounds
DEF TypeOK, RowTyped, OwedTyped, CacheTyped, TasksTyped, FramesTyped,
    PeopleTyped, Judge, NoFrame, Graduated, Trusts, Targets, Epochs, Nil, Writers,
    rowVars, fenceVars, taskVars, syncVars, peopleVars

LEMMA ProcessTyped == ASSUME TypeOK, Process PROVE TypeOK'
<1>1. frame \in [epoch : Epochs, free : BOOLEAN]
  BY Zenon DEF TypeOK, FramesTyped, Process
<1>2. tracker' \subseteq Epochs /\ released' \subseteq Epochs
  BY <1>1, SMT DEF TypeOK, FramesTyped, Process
<1>3. FramesTyped'
  BY <1>2, Zenon DEF TypeOK, FramesTyped, Process, NoFrame, rowVars
<1>4. (RowTyped /\ OwedTyped /\ CacheTyped /\ TasksTyped /\ PeopleTyped)'
  BY SMT, Bounds
  DEF TypeOK, RowTyped, OwedTyped, CacheTyped, TasksTyped, FramesTyped, PeopleTyped,
      Process, Trusts, Targets, Epochs, Nil, Writers, rowVars, fenceVars, taskVars,
      syncVars, peopleVars
<1> QED  BY <1>3, <1>4 DEF TypeOK

LEMMA LookTyped == ASSUME TypeOK, Look PROVE TypeOK'
BY SMT, Bounds
DEF TypeOK, RowTyped, OwedTyped, CacheTyped, TasksTyped, FramesTyped,
    PeopleTyped, Look, Trusts, Targets, Epochs, Nil, Writers, rowVars, fenceVars,
    taskVars, syncVars, frameVars

LEMMA DecideTyped == ASSUME TypeOK, Decide PROVE TypeOK'
BY SMT, Bounds
DEF TypeOK, RowTyped, OwedTyped, CacheTyped, TasksTyped, FramesTyped,
    PeopleTyped, Decide, AsShown, Trusts, Targets, Epochs, Nil, Writers,
    fenceVars, taskVars, syncVars, frameVars

LEMMA MoveTyped == ASSUME TypeOK, Move PROVE TypeOK'
<1>1. OwedTyped'
  BY Zenon DEF TypeOK, OwedTyped, Move, Begin, Trusts, Targets, Epochs, Nil, Writers,
  fenceVars, taskVars, syncVars, frameVars
<1>2. (RowTyped /\ CacheTyped /\ TasksTyped /\ FramesTyped /\ PeopleTyped)'
  BY SMT, Bounds DEF TypeOK, RowTyped, OwedTyped, CacheTyped, TasksTyped, FramesTyped,
  PeopleTyped, Move, Begin, Trusts, Targets, Epochs, Nil, Writers, fenceVars,
  taskVars, syncVars, frameVars
<1> QED  BY <1>1, <1>2 DEF TypeOK

LEMMA RetireTyped == ASSUME TypeOK, Retire PROVE TypeOK'
BY SMT, Bounds
DEF TypeOK, RowTyped, OwedTyped, CacheTyped, TasksTyped, FramesTyped,
    PeopleTyped, Retire, Trusts, Targets, Epochs, Nil, Writers, fenceVars,
    taskVars, syncVars

LEMMA StutterTyped == ASSUME TypeOK, UNCHANGED vars PROVE TypeOK'
BY SMT
DEF TypeOK, RowTyped, OwedTyped, CacheTyped, TasksTyped, FramesTyped, PeopleTyped,
    vars, rowVars, fenceVars, taskVars, syncVars, frameVars, peopleVars

(* Every step keeps the types.                                             *)
LEMMA NextTyped == ASSUME TypeOK, [Next]_vars PROVE TypeOK'
BY CheckConfigTyped, NextEpochTyped, FileTyped, NewSessionTyped, LoadTyped,
   StopTaskTyped, RejoinTyped, StartTaskTyped, ReadTyped, FillTyped, ExpireTyped,
   JudgeTyped, ProcessTyped, LookTyped, DecideTyped, MoveTyped, RetireTyped,
   InvalidateTyped, StutterTyped, Zenon
DEF Next, Poll, Sync, Fence, People

(* The types hold, whatever the bounds are.                                *)
THEOREM TypesHold == Spec => []TypeOK
BY InitTyped, NextTyped, PTL DEF Spec

-----------------------------------------------------------------------------
(* The fence *)

(* An answer being read is as fresh as one already cached.                 *)
ReadFresh ==
  reading = "graduated" /\ row.epoch # 0 => Graduated \/ owed # {} \/ cut

FenceInv == FenceFresh /\ ReadFresh

LEMMA InitFresh == ASSUME Init PROVE FenceInv
BY Zenon DEF Init, FenceInv, FenceFresh, ReadFresh

LEMMA PollFresh == ASSUME TypeOK, FenceInv, Poll PROVE FenceInv'
<1>1. CASE CheckConfig
  BY <1>1, SMT
  DEF TypeOK, RowTyped, FenceInv, FenceFresh, ReadFresh, CheckConfig, Graduated,
      fenceVars
<1>2. CASE NextEpoch
  BY <1>2, SMT DEF FenceInv, FenceFresh, ReadFresh, NextEpoch, Graduated, fenceVars
<1>3. CASE File \/ NewSession
  BY <1>3, Zenon
  DEF FenceInv, FenceFresh, ReadFresh, File, NewSession, Graduated, rowVars, fenceVars
<1> QED  BY <1>1, <1>2, <1>3 DEF Poll

LEMMA SyncFresh == ASSUME TypeOK, FenceInv, Sync PROVE FenceInv'
<1>1. CASE StopTask
  <2>1. owed' # {} \/ cut' \/ owed = {}
    <3>1. owed' \in {owed, owed \ {"task"}}
      BY <1>1, Zenon DEF StopTask
    <3>2. owed' = owed \/ ("task" \in owed => cut')
      BY <1>1, Zenon DEF StopTask
    <3> QED  BY <3>1, <3>2, Zenon
  <2>2. cut => cut'
    BY <1>1, Zenon DEF StopTask
  <2>3. UNCHANGED <<row, cache, reading>>
    BY <1>1, Zenon DEF StopTask, fenceVars
  <2> QED  BY <2>1, <2>2, <2>3, Zenon DEF FenceInv, FenceFresh, ReadFresh, Graduated
<1>2. CASE Load \/ Rejoin \/ StartTask
  BY <1>2, Zenon
  DEF FenceInv, FenceFresh, ReadFresh, Load, Rejoin, StartTask, Graduated, rowVars,
      fenceVars
<1> QED  BY <1>1, <1>2 DEF Sync

LEMMA AskFresh == ASSUME TypeOK, FenceInv, Fence PROVE FenceInv'
<1>1. CASE Read
  BY <1>1, SMT DEF FenceInv, FenceFresh, ReadFresh, Read, Graduated, rowVars
<1>2. CASE Fill
  <2>1. cache'.graduated => reading = "graduated"
    BY <1>2, Zenon DEF Fill, OnFailure
  <2>2. reading' = "none" /\ UNCHANGED rowVars
    BY <1>2, Zenon DEF Fill
  <2> QED
    BY <2>1, <2>2, SMT DEF FenceInv, FenceFresh, ReadFresh, Graduated, rowVars
<1>3. CASE Expire
  <2>1. ~cache'.valid /\ UNCHANGED <<rowVars, reading>>
    BY <1>3, Zenon DEF Expire, TypeOK, CacheTyped
  <2> QED  BY <2>1, Zenon DEF FenceInv, FenceFresh, ReadFresh, Graduated, rowVars
<1>4. CASE Judge \/ Process
  BY <1>4, Zenon
  DEF FenceInv, FenceFresh, ReadFresh, Judge, Process, Graduated, rowVars, fenceVars
<1> QED  BY <1>1, <1>2, <1>3, <1>4 DEF Fence

LEMMA PeopleFresh == ASSUME TypeOK, FenceInv, People PROVE FenceInv'
<1>1. CASE Look
  BY <1>1, Zenon DEF FenceInv, FenceFresh, ReadFresh, Look, Graduated, rowVars, fenceVars
<1>2. CASE Decide
  BY <1>2, SMT DEF FenceInv, FenceFresh, ReadFresh, Decide, Graduated, fenceVars
<1>3. CASE Move
  BY <1>3, SMT DEF FenceInv, FenceFresh, ReadFresh, Move, Graduated, fenceVars
<1>4. CASE Retire
  BY <1>4, SMT DEF FenceInv, FenceFresh, ReadFresh, Retire
<1> QED  BY <1>1, <1>2, <1>3, <1>4 DEF People

LEMMA InvalidateFresh ==
  ASSUME TypeOK, FenceInv, NEW w \in Writers, Invalidate(w) PROVE FenceInv'
<1>1. ~cache'.valid
  BY Zenon DEF Invalidate, TypeOK, CacheTyped
<1>2. reading' # "graduated"
  BY Zenon DEF Invalidate, LockFree
<1> QED  BY <1>1, <1>2, Zenon DEF FenceInv, FenceFresh, ReadFresh

LEMMA NextFresh == ASSUME TypeOK, FenceInv, [Next]_vars PROVE FenceInv'
<1>1. CASE UNCHANGED vars
  BY <1>1, Zenon
  DEF FenceInv, FenceFresh, ReadFresh, Graduated, vars, rowVars, fenceVars
<1> QED
  BY <1>1, PollFresh, SyncFresh, AskFresh, PeopleFresh, InvalidateFresh, Zenon DEF Next

(* The fence never answers "graduated" for a radar back on probation once  *)
(* the writer that put it there has gone on.                               *)
THEOREM FenceIsFresh == Spec => []FenceFresh
<1>1. FenceInv => FenceFresh
  BY DEF FenceInv
<1> QED  BY <1>1, InitTyped, NextTyped, InitFresh, NextFresh, PTL DEF Spec

-----------------------------------------------------------------------------
(* The approvals *)

LEMMA NextWasShown ==
  ASSUME TypeOK, GraduatedWasShown, [Next]_vars PROVE GraduatedWasShown'
<1>1. CASE CheckConfig
  BY <1>1, SMT
  DEF TypeOK, RowTyped, GraduatedWasShown, Graduated, CheckConfig, peopleVars
<1>2. CASE NextEpoch
  BY <1>2, SMT DEF GraduatedWasShown, Graduated, NextEpoch, Begin, peopleVars
<1>3. CASE Decide
  BY <1>3, SMT
  DEF TypeOK, RowTyped, GraduatedWasShown, Graduated, Decide, AsShown
<1>4. CASE Move
  BY <1>4, SMT DEF GraduatedWasShown, Graduated, Move, Begin
<1>5. CASE Retire
  BY <1>5, SMT DEF GraduatedWasShown, Graduated, Retire
<1>6. CASE File \/ NewSession \/ Sync \/ Fence \/ Look \/ UNCHANGED vars
  <2>1. UNCHANGED <<row, approved>>
    BY <1>6, Zenon
    DEF File, NewSession, Sync, Load, StopTask, Rejoin, StartTask, Fence, Read, Fill,
        Expire, Judge, Process, Look, vars, rowVars, peopleVars
  <2> QED  BY <2>1, Zenon DEF GraduatedWasShown, Graduated
<1>7. ASSUME NEW w \in Writers, Invalidate(w) PROVE GraduatedWasShown'
  BY <1>7, Zenon DEF Invalidate, GraduatedWasShown, Graduated, peopleVars
<1> QED
  BY <1>1, <1>2, <1>3, <1>4, <1>5, <1>6, <1>7, Zenon DEF Next, Poll, People

(* A radar is graduated only at an epoch an administrator was shown.       *)
THEOREM GraduationsWereShown == Spec => []GraduatedWasShown
<1>1. Init => GraduatedWasShown
  BY SMT DEF Init, GraduatedWasShown, Graduated
<1> QED  BY <1>1, InitTyped, NextTyped, NextWasShown, PTL DEF Spec

-----------------------------------------------------------------------------
(* What is released *)

(* Nothing polled, waiting or tracked is of a later epoch than the row's.  *)
TasksBehind == task.epoch <= row.epoch /\ want.epoch <= row.epoch

FramesBehind ==
  /\ \A i \in 1..Len(queue) : queue[i] <= row.epoch
  /\ frame.epoch <= row.epoch
  /\ \A e \in tracker : e <= row.epoch

Behind == row.epoch # 0 => TasksBehind /\ FramesBehind

(* A frame let past is covered, with the tracker, by an approved epoch.    *)
Covering(a) == frame.epoch <= a /\ \A e \in tracker : e <= a

FreeCovered == frame.free /\ ~early => \E a \in approved : Covering(a)

ReleaseInv == Behind /\ FreeCovered /\ ReleasedBehindTrust

LEMMA InitReleased == ASSUME Init PROVE ReleaseInv
<1>1. Behind
  BY SMT DEF Init, Behind, TasksBehind, FramesBehind, Nil, NoFrame
<1>2. FreeCovered /\ ReleasedBehindTrust
  BY Zenon DEF Init, NoFrame, FreeCovered, ReleasedBehindTrust
<1> QED  BY <1>1, <1>2 DEF ReleaseInv

(* The row's epoch only grows, or the radar is removed for good.           *)
LEMMA RowGrows ==
  ASSUME TypeOK, [Next]_vars, row'.epoch # 0
  PROVE  row.epoch # 0 /\ row.epoch <= row'.epoch
<1>1. CASE CheckConfig
  BY <1>1, SMT DEF TypeOK, RowTyped, CheckConfig
<1>2. CASE NextEpoch
  <2>1. state = "probing" /\ task \in Targets
    BY <1>2, SMT DEF NextEpoch, TypeOK, TasksTyped
  <2> QED
    BY <1>2, <2>1, SMT, Bounds
    DEF TypeOK, RowTyped, NextEpoch, Begin, Unmoved, Targets, Epochs
<1>3. CASE Decide
  BY <1>3, SMT DEF TypeOK, RowTyped, Decide, AsShown
<1>4. CASE Move
  BY <1>4, SMT DEF TypeOK, RowTyped, PeopleTyped, Move, Begin
<1>5. CASE Retire
  BY <1>5, SMT DEF Retire
<1>6. CASE File \/ NewSession \/ Sync \/ Fence \/ Look \/ UNCHANGED vars
  <2>1. UNCHANGED row
    BY <1>6, Zenon
    DEF File, NewSession, Sync, Load, StopTask, Rejoin, StartTask, Fence, Read, Fill,
        Expire, Judge, Process, Look, vars, rowVars
  <2> QED  BY <2>1, SMT DEF TypeOK, RowTyped
<1>7. ASSUME NEW w \in Writers, Invalidate(w)
      PROVE  row.epoch # 0 /\ row.epoch <= row'.epoch
  BY <1>7, SMT DEF Invalidate, TypeOK, RowTyped
<1> QED
  BY <1>1, <1>2, <1>3, <1>4, <1>5, <1>6, <1>7, Zenon DEF Next, Poll, People

(* No step raises the task or the poller's target past the row.            *)
LEMMA TasksStayBehind ==
  ASSUME TypeOK, TypeOK', [Next]_vars, row'.epoch # 0, TasksBehind PROVE TasksBehind'
<1>1. task' = task \/ task' = Nil \/ task' = want
  BY Zenon
  DEF Next, Poll, CheckConfig, NextEpoch, File, NewSession, Sync, Load, StopTask, Rejoin,
      StartTask, Fence, Read, Fill, Expire, Judge, Process, People, Look, Decide, Move,
      Retire, Invalidate, vars, taskVars
<1>2. want' = want \/ want' = Nil \/ (want' = Target /\ UNCHANGED rowVars)
  BY Zenon
  DEF Next, Poll, CheckConfig, NextEpoch, File, NewSession, Sync, Load, StopTask, Rejoin,
      StartTask, Fence, Read, Fill, Expire, Judge, Process, People, Look, Decide, Move,
      Retire, Invalidate, vars, syncVars
<1>3. row.epoch <= row'.epoch
  BY RowGrows, Zenon
<1> QED
  BY <1>1, <1>2, <1>3, SMT, Bounds
  DEF TypeOK, RowTyped, TasksTyped, TasksBehind, Target, Nil, Targets, Epochs, rowVars

(* Which steps touch the frames, and that approvals are never taken back.  *)
LEMMA FrameSteps ==
  ASSUME [Next]_vars
  PROVE  /\ File \/ Judge \/ Process \/ Rejoin \/ Retire \/ UNCHANGED frameVars
         /\ approved \subseteq approved'
<1>1. File \/ Judge \/ Process \/ Rejoin \/ Retire \/ UNCHANGED frameVars
  BY Zenon
  DEF Next, Poll, CheckConfig, NextEpoch, NewSession, Sync, Load, StopTask, StartTask,
      Fence, Read, Fill, Expire, People, Look, Decide, Move, Invalidate, vars
<1>2. UNCHANGED approved \/ Decide
  BY Zenon
  DEF Next, Poll, CheckConfig, NextEpoch, File, NewSession, Sync, Load, StopTask, Rejoin,
      StartTask, Fence, Read, Fill, Expire, Judge, Process, People, Look, Move, Retire,
      Invalidate, vars, peopleVars
<1>3. CASE Decide
  BY <1>3, SMT DEF Decide
<1> QED  BY <1>1, <1>2, <1>3, Zenon

LEMMA FramesStayBehind ==
  ASSUME TypeOK, TypeOK', [Next]_vars, row'.epoch # 0, TasksBehind, FramesBehind
  PROVE  FramesBehind'
<1>0. row.epoch <= row'.epoch /\ row.epoch \in Nat /\ row'.epoch \in Nat
  BY RowGrows, SMT, Bounds DEF TypeOK, RowTyped
<1>1. CASE UNCHANGED frameVars
  <2>1. \A i \in 1..Len(queue) : queue[i] \in Nat
    <3>1. \A i \in 1..Len(queue) : queue[i] \in Epochs
      BY SMT DEF TypeOK, FramesTyped
    <3> QED  BY <3>1, SMT, Bounds DEF Epochs
  <2>2. frame.epoch \in Nat
    BY SMT DEF TypeOK, FramesTyped, Epochs, NoFrame
  <2>3. \A e \in tracker : e \in Nat
    BY SMT DEF TypeOK, FramesTyped, Epochs
  <2>4. UNCHANGED <<queue, frame, tracker>>
    BY <1>1, Zenon DEF frameVars
  <2> QED  BY <1>0, <2>1, <2>2, <2>3, <2>4, SMT DEF FramesBehind
<1>2. CASE File
  <2>1. task.epoch <= row.epoch /\ task \in Targets
    BY <1>2, SMT DEF File, TypeOK, TasksTyped, TasksBehind
  <2>2. \A i \in 1..Len(queue') :
          \/ queue'[i] = queue[i] /\ i \in 1..Len(queue)
          \/ queue'[i] = task.epoch
    BY <1>2, <2>1, SMT DEF File, TypeOK, FramesTyped, Targets, Epochs
  <2>3. UNCHANGED <<row, frame, tracker>>
    BY <1>2, Zenon DEF File, rowVars
  <2> QED  BY <2>1, <2>2, <2>3, SMT DEF FramesBehind
<1>3. CASE Judge
  <2>1. Head(queue) = queue[1] /\ 1 \in 1..Len(queue)
    BY <1>3, SMT DEF Judge, TypeOK, FramesTyped
  <2>2. \A i \in 1..Len(queue') : queue'[i] = queue[i + 1] /\ i + 1 \in 1..Len(queue)
    BY <1>3, SMT DEF Judge, TypeOK, FramesTyped
  <2>3. frame'.epoch = queue[1] /\ UNCHANGED <<row, tracker>>
    BY <1>3, <2>1, SMT DEF Judge, rowVars
  <2> QED  BY <2>1, <2>2, <2>3, SMT DEF FramesBehind
<1>4. CASE Process
  BY <1>0, <1>4, SMT DEF Process, FramesBehind, NoFrame, rowVars
<1>5. CASE Rejoin
  BY <1>5, SMT DEF Rejoin, FramesBehind, rowVars
<1>6. CASE Retire
  BY <1>6, SMT DEF Retire
<1> QED  BY <1>1, <1>2, <1>3, <1>4, <1>5, <1>6, FrameSteps, Zenon

LEMMA NextBehind == ASSUME TypeOK, TypeOK', Behind, [Next]_vars PROVE Behind'
BY RowGrows, TasksStayBehind, FramesStayBehind, Zenon DEF Behind

(* A frame is let past under an approved epoch, and it stays covered.      *)
LEMMA NextCovered ==
  ASSUME TypeOK, GraduatedWasShown, Behind, FreeCovered, [Next]_vars
  PROVE  FreeCovered'
<1>0. approved \subseteq approved'
  BY FrameSteps, Zenon
<1>1. CASE UNCHANGED frameVars
  BY <1>0, <1>1, Zenon DEF FreeCovered, Covering, frameVars
<1>2. CASE File
  BY <1>0, <1>2, Zenon DEF FreeCovered, Covering, File
<1>3. CASE Judge
  <2> SUFFICES ASSUME frame'.free, ~early' PROVE \E a \in approved' : Covering(a)'
    BY Zenon DEF FreeCovered
  <2>1. cache.graduated
    BY <1>3, Zenon DEF Judge
  <2>2. Graduated
    BY <1>3, <2>1, Zenon DEF Judge
  <2>3. row.epoch # 0 /\ row.epoch \in approved
    BY <2>2, Zenon DEF Graduated, GraduatedWasShown
  <2>4. frame'.epoch <= row.epoch /\ tracker' = tracker /\ \A e \in tracker : e <= row.epoch
    <3>1. Head(queue) = queue[1] /\ 1 \in 1..Len(queue)
      BY <1>3, SMT DEF Judge, TypeOK, FramesTyped
    <3>2. FramesBehind
      BY <2>3, Zenon DEF Behind
    <3>3. frame'.epoch = Head(queue) /\ tracker' = tracker
      BY <1>3, SMT DEF Judge
    <3> QED  BY <3>1, <3>2, <3>3, SMT DEF FramesBehind
  <2> QED  BY <1>0, <2>3, <2>4, Zenon DEF Covering
<1>4. CASE Process
  <2>1. ~frame'.free
    BY <1>4, Zenon DEF Process, NoFrame
  <2> QED  BY <2>1, Zenon DEF FreeCovered
<1>5. CASE Rejoin
  <2>1. tracker' \subseteq tracker /\ UNCHANGED <<frame, early>>
    BY <1>5, Zenon DEF Rejoin
  <2> QED  BY <1>0, <2>1, Zenon DEF FreeCovered, Covering
<1>6. CASE Retire
  <2>1. tracker' \subseteq tracker /\ UNCHANGED <<frame, early>>
    BY <1>6, Zenon DEF Retire
  <2> QED  BY <1>0, <2>1, Zenon DEF FreeCovered, Covering
<1> QED  BY <1>1, <1>2, <1>3, <1>4, <1>5, <1>6, FrameSteps, Zenon

LEMMA NextReleased ==
  ASSUME TypeOK, FreeCovered, ReleasedBehindTrust, [Next]_vars
  PROVE  ReleasedBehindTrust'
<1>0. approved \subseteq approved'
  BY FrameSteps, Zenon
<1>1. CASE Process
  <2> SUFFICES ASSUME ~early', NEW e \in released' PROVE \E a \in approved' : e <= a
    BY Zenon DEF ReleasedBehindTrust
  <2>1. ~early
    BY <1>1, Zenon DEF Process
  <2>2. CASE e \in released
    BY <1>0, <2>1, <2>2, Zenon DEF ReleasedBehindTrust
  <2>3. CASE e \notin released
    <3>1. frame.free /\ (e = frame.epoch \/ e \in tracker)
      BY <1>1, <2>3, Zenon DEF Process
    <3>2. PICK a \in approved : Covering(a)
      BY <2>1, <3>1, Zenon DEF FreeCovered
    <3>3. e <= a
      BY <3>1, <3>2, Zenon DEF Covering
    <3> QED  BY <1>0, <3>3, Zenon
  <2> QED  BY <2>2, <2>3
<1>2. CASE Judge
  <2>1. released' = released /\ (early => early')
    BY <1>2, Zenon DEF Judge
  <2> QED  BY <1>0, <2>1, Zenon DEF ReleasedBehindTrust
<1>3. CASE File \/ Rejoin \/ Retire \/ UNCHANGED frameVars
  <2>1. UNCHANGED <<released, early>>
    BY <1>3, Zenon DEF File, Rejoin, Retire, frameVars
  <2> QED  BY <1>0, <2>1, Zenon DEF ReleasedBehindTrust
<1> QED  BY <1>1, <1>2, <1>3, FrameSteps, Zenon

(* No epoch ahead of every decision has its data released.                 *)
THEOREM ReleasesBehindDecisions == Spec => []ReleasedBehindTrust
<1>1. TypeOK /\ TypeOK' /\ GraduatedWasShown /\ ReleaseInv /\ [Next]_vars => ReleaseInv'
  BY NextBehind, NextCovered, NextReleased, Zenon DEF ReleaseInv
<1>2. ReleaseInv => ReleasedBehindTrust
  BY DEF ReleaseInv
<1> QED
  BY <1>1, <1>2, InitReleased, TypesHold, GraduationsWereShown, PTL DEF Spec
-----------------------------------------------------------------------------
(* The contract *)

(* A row that only gets another version is the same to the contract.       *)
LEMMA ConfigKeepsBook ==
  ASSUME TypeOK, CheckConfig
  PROVE  UNCHANGED <<row.epoch, row.trust, approved>>
BY SMT DEF TypeOK, RowTyped, CheckConfig, peopleVars

(* The task's write finds the row at the task's own epoch, so it begins    *)
(* the next one; a refusal and a row that has moved write nothing.         *)
LEMMA EpochIsNext ==
  ASSUME TypeOK, NextEpoch
  PROVE  Contract!Begin \/ UNCHANGED <<row, approved>>
<1>1. CASE UNCHANGED row
  BY <1>1, Zenon DEF NextEpoch, peopleVars
<1>2. CASE row' # row
  <2>1. PICK v \in {row.version, row.version + 1} : row' = Begin(task.epoch + 1, v)
    BY <1>2, Zenon DEF NextEpoch
  <2>2. state = "probing" /\ Unmoved /\ UNCHANGED approved
    BY <1>2, Zenon DEF NextEpoch, peopleVars
  <2>3. task \in Targets
    BY <2>2, Zenon DEF TypeOK, TasksTyped
  <2>4. row.epoch # 0
    BY <2>2, <2>3, SMT DEF Unmoved, Targets, Epochs
  <2>5. row'.epoch = row.epoch + 1 /\ row'.trust = "probation"
    BY <2>1, <2>2, SMT DEF Begin, Unmoved
  <2> QED  BY <2>2, <2>4, <2>5, Zenon DEF Contract!Begin, Contract!Polled
<1> QED  BY <1>1, <1>2, Zenon

(* set_trust writes the epoch the administrator was shown, which is the    *)
(* row's, or nothing.                                                      *)
LEMMA DecisionIsOnThePresent ==
  ASSUME TypeOK, Decide
  PROVE  Contract!Graduate \/ Contract!Demote \/ UNCHANGED <<row, approved>>
<1>1. CASE AsShown
  <2>1. PICK t \in Trusts :
          /\ row' = [row EXCEPT !.trust = t]
          /\ approved' = IF t = "graduated" THEN approved \cup {admin} ELSE approved
    BY <1>1, Zenon DEF Decide
  <2>2. row.epoch # 0 /\ admin = row.epoch
    BY <1>1, Zenon DEF Decide, AsShown
  <2>3. row'.epoch = row.epoch /\ row'.trust = t
    BY <2>1, SMT DEF TypeOK, RowTyped
  <2>4. CASE t = "graduated"
    BY <2>1, <2>2, <2>3, <2>4, Zenon DEF Contract!Graduate, Contract!Polled
  <2>5. CASE t = "probation"
    <3>1. approved' = approved
      BY <2>1, <2>5, SMT
    <3> QED  BY <2>2, <2>3, <2>5, <3>1, Zenon DEF Contract!Demote, Contract!Polled
  <2> QED  BY <2>4, <2>5, Zenon DEF Trusts
<1>2. CASE ~AsShown
  BY <1>2, Zenon DEF Decide
<1> QED  BY <1>1, <1>2

(* A move writes the epoch after the one the owner's probe was made for,   *)
(* which is still the row's.                                               *)
LEMMA MoveIsNext ==
  ASSUME TypeOK, Move
  PROVE  Contract!Begin \/ UNCHANGED <<row, approved>>
<1>1. CASE UNCHANGED row
  BY <1>1, Zenon DEF Move
<1>2. CASE row' # row
  <2>1. PICK v \in {row.version, row.version + 1} : row' = Begin(owner + 1, v)
    BY <1>2, Zenon DEF Move
  <2>2. row.epoch = owner /\ owner # 0 /\ UNCHANGED approved
    BY <1>2, Zenon DEF Move
  <2>3. row'.epoch = row.epoch + 1 /\ row'.trust = "probation"
    BY <2>1, <2>2, SMT DEF Begin
  <2> QED  BY <2>2, <2>3, Zenon DEF Contract!Begin, Contract!Polled
<1> QED  BY <1>1, <1>2, Zenon

LEMMA RetireRemoves == ASSUME Retire PROVE Contract!Remove
BY SMT DEF Retire, Contract!Remove, Contract!Polled

(* Every step of the book's writers is a step of the contract, and nothing *)
(* else the task, the fence or the frames do shows in it.                  *)
LEMMA ContractStep ==
  ASSUME TypeOK, [Next]_vars PROVE [Contract!Next]_(Contract!contractVars)
<1>1. CASE CheckConfig
  BY <1>1, ConfigKeepsBook, Zenon DEF Contract!contractVars
<1>2. CASE NextEpoch
  BY <1>2, EpochIsNext, Zenon DEF Contract!contractVars, Contract!Next
<1>3. CASE Decide
  BY <1>3, DecisionIsOnThePresent, Zenon DEF Contract!contractVars, Contract!Next
<1>4. CASE Move
  BY <1>4, MoveIsNext, Zenon DEF Contract!contractVars, Contract!Next
<1>5. CASE Retire
  BY <1>5, RetireRemoves, Zenon DEF Contract!Next
<1>6. CASE File \/ NewSession \/ Sync \/ Fence \/ Look \/ UNCHANGED vars
  <2>1. UNCHANGED <<row, approved>>
    BY <1>6, Zenon
    DEF File, NewSession, Sync, Load, StopTask, Rejoin, StartTask, Fence, Read, Fill,
        Expire, Judge, Process, Look, vars, rowVars, peopleVars
  <2> QED  BY <2>1, Zenon DEF Contract!contractVars
<1>7. CASE \E w \in Writers : Invalidate(w)
  <2>1. UNCHANGED <<row, approved>>
    BY <1>7, Zenon DEF Invalidate, peopleVars
  <2> QED  BY <2>1, Zenon DEF Contract!contractVars
<1> QED
  BY <1>1, <1>2, <1>3, <1>4, <1>5, <1>6, <1>7, Zenon DEF Next, Poll, People

(* The row's epochs and trust keep the contract, for any number of epochs, *)
(* versions, frames and decisions.                                         *)
THEOREM BookKeepsContract == Spec => KeepsContract
<1>1. Init => Contract!Init
  BY SMT DEF Init, Contract!Init
<1>2. TypeOK /\ [Next]_vars => [Contract!Next]_(Contract!contractVars)
  BY ContractStep
<1> QED
  BY <1>1, <1>2, TypesHold, PTL DEF Spec, KeepsContract, Contract!Spec
=============================================================================
