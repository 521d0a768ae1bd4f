---------------------- MODULE SwitchTransactionProofs ----------------------
(***************************************************************************)
(* Proofs about SwitchTransaction, for every set of accounts and requests, *)
(* every kind of outside event and every bound.                            *)
(*                                                                         *)
(* First the types, one typing lemma per action, and that no effect of a   *)
(* switch precedes its journal (WriteAhead).  Then what a switch leaves    *)
(* behind: RecordInv relates each call of Execute and rollback to the      *)
(* journal on disk and to what was done and proven; it needs no            *)
(* hypothesis.  The invariants on the selected login, the daemon and the   *)
(* newest credentials each name the outside events they exclude (NoLogin,  *)
(* NoStart, NoDeath, NoStandalone), as the runs do.  From them follow the  *)
(* safety properties of the runs and the refinement of SwitchPromise.      *)
(***************************************************************************)
EXTENDS SwitchRefinement, TLAPS

-----------------------------------------------------------------------------
(* Types, and the journal before every effect *)

\* The constant records used as initial and empty values have their types.
LEMMA Values ==
  /\ NoResult \in Results
  /\ \A id \in Identities : Known(id) \in Results
  /\ NoPlan \in Inspections
  /\ LoggedOut \in Document
  /\ NewBackend \in Backends
  /\ NoJournal \in Checkpoints
<1>1. NoResult \in Results /\ \A id \in Identities : Known(id) \in Results
  BY DEF NoResult, Known, Results, Identities
<1>2. NoPlan \in Inspections
  BY DEF NoPlan, Inspections, Identities, DaemonStates, QuotaStates
<1>3. LoggedOut \in Document
  BY DEF LoggedOut, Document, Identities
<1>4. NewBackend \in Backends
  BY <1>3 DEF NewBackend, Backends, Identities
<1>5. NoJournal \in Checkpoints
  BY DEF NoJournal, Checkpoints, Identities
<1> QED BY <1>1, <1>2, <1>3, <1>4, <1>5

\* The initial state has the types.
LEMMA InitTypes == Init => TypeOK
<1> SUFFICES ASSUME Init PROVE TypeOK
  OBVIOUS
<1>1. RunOK
  <2>1. req \in Request
    <3>1. (CHOOSE r \in Requests : TRUE) \in Requests
      BY SomeRequest
    <3> QED BY <3>1, RequestsAssumption DEF Init, Request
  <2> QED BY <2>1, Values DEF Init, RunOK, Rest, Phases
<1>2. BackendOK
  BY Values DEF Init, BackendOK
<1>a. native \in Document
  BY Values DEF Init, Document, Identities
<1>3. DiskOK
  BY <1>a, Values DEF Init, DiskOK
<1>4. WorldOK
  <2>1. latest \in [Accounts -> Nat]
     BY <1>3 DEF Init, DiskOK
  <2>2. loaded \in Document /\ births \in Nat /\ busy \in BOOLEAN
     BY <1>a, Values DEF Init
  <2> QED BY <2>1, <2>2, BoundsAssumption DEF Init, WorldOK, DaemonStates,
     QuotaStates
<1>5. HistoryOK
  BY DEF Init, HistoryOK, Rest
<1> QED BY <1>1, <1>2, <1>3, <1>4, <1>5 DEF TypeOK

\* Ending a run keeps the types of the run.
LEMMA FinishTypes ==
  ASSUME RunOK, NEW result \in Results,
         NEW reason \in {"none", "unfinished", "refused", "failed", "recovery"},
         Finish(result, reason)
  PROVE  RunOK'
BY DEF RunOK, Finish, Rest

\* Going to the next call keeps the types of the run.
LEMMA GotoTypes ==
  ASSUME RunOK, NEW step \in Steps, Goto(step)
  PROVE  RunOK'
BY DEF RunOK, Goto

\* Going to a write of the journal keeps the types of the run.
LEMMA GotoWriteTypes ==
  ASSUME RunOK, NEW ph \in Phases, NEW result \in Results,
         GotoWrite(ph, result)
  PROVE  RunOK'
BY DEF RunOK, GotoWrite, Steps

\* RefuseUnfinished keeps the types.
LEMMA RefuseUnfinishedTypes == TypeOK /\ RefuseUnfinished => TypeOK'
<1> SUFFICES ASSUME TypeOK, RefuseUnfinished PROVE TypeOK'
  OBVIOUS
<1>1. RunOK'
  BY FinishTypes, Values DEF TypeOK, RunOK, RefuseUnfinished, Inspections
<1>2. BackendOK'
  BY DEF TypeOK, BackendOK, RefuseUnfinished, volatile
<1>3. DiskOK'
  BY DEF TypeOK, DiskOK, RefuseUnfinished, disk
<1>4. WorldOK'
  BY DEF TypeOK, WorldOK, RefuseUnfinished, world
<1>5. HistoryOK'
  BY DEF TypeOK, HistoryOK, RefuseUnfinished, history, trail
<1> QED BY <1>1, <1>2, <1>3, <1>4, <1>5 DEF TypeOK

\* RefusePreview keeps the types.
LEMMA RefusePreviewTypes == TypeOK /\ RefusePreview => TypeOK'
<1> SUFFICES ASSUME TypeOK, RefusePreview PROVE TypeOK'
  OBVIOUS
<1>1. RunOK'
  BY FinishTypes, Values DEF TypeOK, RunOK, RefusePreview, Inspections
<1>2. BackendOK'
  BY DEF TypeOK, BackendOK, RefusePreview, volatile
<1>3. DiskOK'
  BY DEF TypeOK, DiskOK, RefusePreview, disk
<1>4. WorldOK'
  BY DEF TypeOK, WorldOK, RefusePreview, world
<1>5. HistoryOK'
  BY DEF TypeOK, HistoryOK, RefusePreview, history, trail
<1> QED BY <1>1, <1>2, <1>3, <1>4, <1>5 DEF TypeOK

\* FirstPreview keeps the types.
LEMMA FirstPreviewTypes == TypeOK /\ FirstPreview => TypeOK'
<1> SUFFICES ASSUME TypeOK, FirstPreview PROVE TypeOK'
  OBVIOUS
<1>1. RunOK'
  BY FinishTypes, GotoTypes, Values DEF TypeOK, DiskOK, Document, FirstPreview,
     Steps
<1>2. BackendOK'
  BY DEF TypeOK, BackendOK, WorldOK, DiskOK, FirstPreview, Observe, Process,
     Backends, Document
<1>3. DiskOK'
  BY DEF TypeOK, DiskOK, FirstPreview, disk
<1>4. WorldOK'
  BY DEF TypeOK, WorldOK, FirstPreview, world
<1>5. HistoryOK'
  BY DEF TypeOK, HistoryOK, FirstPreview, history, trail
<1> QED BY <1>1, <1>2, <1>3, <1>4, <1>5 DEF TypeOK

\* PrepareTarget keeps the types.
LEMMA PrepareTargetTypes == TypeOK /\ PrepareTarget => TypeOK'
<1> SUFFICES ASSUME TypeOK, PrepareTarget PROVE TypeOK'
  OBVIOUS
<1>1. RunOK'
  BY GotoTypes DEF TypeOK, PrepareTarget, Steps
<1>2. BackendOK'
  BY DEF TypeOK, BackendOK, PrepareTarget, PrepareKeeps, volatile
<1>3. DiskOK'
  BY DEF TypeOK, DiskOK, WorldOK, RunOK, Request, PrepareTarget, PrepareKeeps,
         TargetRenewed
<1>4. WorldOK'
  BY DEF TypeOK, WorldOK, RunOK, Request, PrepareTarget, PrepareKeeps, QuotaStates,
         TargetRenewed
<1>5. HistoryOK'
  BY DEF TypeOK, HistoryOK, RunOK, Request, PrepareTarget, PrepareKeeps,
         TargetRenewed
<1> QED BY <1>1, <1>2, <1>3, <1>4, <1>5 DEF TypeOK

\* Reauthenticate keeps the types.
LEMMA ReauthenticateTypes == TypeOK /\ Reauthenticate => TypeOK'
<1> SUFFICES ASSUME TypeOK, Reauthenticate PROVE TypeOK'
  OBVIOUS
<1>1. RunOK'
  BY GotoTypes DEF TypeOK, Reauthenticate, Steps
<1>2. BackendOK'
  BY DEF TypeOK, BackendOK, Reauthenticate, volatile
<1>3. DiskOK'
  BY DEF TypeOK, DiskOK, Reauthenticate, disk
<1>4. WorldOK'
  BY DEF TypeOK, WorldOK, Reauthenticate, world
<1>5. HistoryOK'
  BY DEF TypeOK, HistoryOK, Reauthenticate, history, trail
<1> QED BY <1>1, <1>2, <1>3, <1>4, <1>5 DEF TypeOK

\* SignIn keeps the types.
LEMMA SignInTypes == TypeOK /\ SignIn => TypeOK'
<1> SUFFICES ASSUME TypeOK, SignIn PROVE TypeOK'
  OBVIOUS
<1>1. RunOK'
  BY GotoTypes DEF TypeOK, SignIn, Steps
<1>2. BackendOK'
  BY DEF TypeOK, BackendOK, SignIn, PrepareKeeps, volatile
<1>3. DiskOK'
  BY DEF TypeOK, DiskOK, WorldOK, RunOK, Request, SignIn, PrepareKeeps,
         TargetRenewed
<1>4. WorldOK'
  BY DEF TypeOK, WorldOK, RunOK, Request, SignIn, PrepareKeeps, QuotaStates,
         TargetRenewed
<1>5. HistoryOK'
  BY DEF TypeOK, HistoryOK, RunOK, Request, SignIn, PrepareKeeps,
         TargetRenewed
<1> QED BY <1>1, <1>2, <1>3, <1>4, <1>5 DEF TypeOK

\* PrepareTargetFails keeps the types.
LEMMA PrepareTargetFailsTypes == TypeOK /\ PrepareTargetFails => TypeOK'
<1> SUFFICES ASSUME TypeOK, PrepareTargetFails PROVE TypeOK'
  OBVIOUS
<1>1. RunOK'
  BY FinishTypes, Values DEF TypeOK, BackendOK, Backends, PrepareTargetFails
<1>2. BackendOK'
  BY DEF TypeOK, BackendOK, PrepareTargetFails, PrepareKeeps, volatile
<1>3. DiskOK'
  BY DEF TypeOK, DiskOK, WorldOK, RunOK, Request, PrepareTargetFails, PrepareKeeps,
         TargetRenewed, TargetLost
<1>4. WorldOK'
  BY DEF TypeOK, WorldOK, RunOK, Request, PrepareTargetFails, PrepareKeeps, QuotaStates,
         TargetRenewed, TargetLost
<1>5. HistoryOK'
  BY DEF TypeOK, HistoryOK, RunOK, Request, PrepareTargetFails, PrepareKeeps,
         TargetRenewed, TargetLost
<1> QED BY <1>1, <1>2, <1>3, <1>4, <1>5 DEF TypeOK

\* SecondPreview keeps the types.
LEMMA SecondPreviewTypes == TypeOK /\ SecondPreview => TypeOK'
<1> SUFFICES ASSUME TypeOK, SecondPreview PROVE TypeOK'
  OBVIOUS
<1>1. RunOK'
  BY Values DEF TypeOK, RunOK, DiskOK, WorldOK, SecondPreview, View, Document,
     Inspections, Steps, Rest
<1>2. BackendOK'
  BY DEF TypeOK, BackendOK, WorldOK, DiskOK, SecondPreview, Observe, Process,
     Backends, Document
<1>3. DiskOK'
  BY DEF TypeOK, DiskOK, SecondPreview, disk
<1>4. WorldOK'
  BY DEF TypeOK, WorldOK, SecondPreview, world
<1>5. HistoryOK'
  BY DEF TypeOK, HistoryOK, WorldOK, SecondPreview, Process
<1> QED BY <1>1, <1>2, <1>3, <1>4, <1>5 DEF TypeOK

\* Approve keeps the types.
LEMMA ApproveTypes == TypeOK /\ Approve => TypeOK'
<1> SUFFICES ASSUME TypeOK, Approve PROVE TypeOK'
  OBVIOUS
<1>1. RunOK'
  BY GotoTypes DEF TypeOK, Approve, Steps
<1>2. BackendOK'
  BY DEF TypeOK, BackendOK, Approve, volatile
<1>3. DiskOK'
  BY DEF TypeOK, DiskOK, Approve, disk
<1>4. WorldOK'
  BY DEF TypeOK, WorldOK, Approve, world
<1>5. HistoryOK'
  BY DEF TypeOK, HistoryOK, Approve
<1> QED BY <1>1, <1>2, <1>3, <1>4, <1>5 DEF TypeOK

\* Decline keeps the types.
LEMMA DeclineTypes == TypeOK /\ Decline => TypeOK'
<1> SUFFICES ASSUME TypeOK, Decline PROVE TypeOK'
  OBVIOUS
<1>1. RunOK'
  <2>1. plan.active \in Identities /\ backend.selected \in Identities
    BY DEF TypeOK, RunOK, BackendOK, Backends, Inspections
  <2> QED BY <2>1, FinishTypes, Values DEF TypeOK, Decline
<1>2. BackendOK'
  BY DEF TypeOK, BackendOK, Decline, volatile
<1>3. DiskOK'
  BY DEF TypeOK, DiskOK, Decline, disk
<1>4. WorldOK'
  BY DEF TypeOK, WorldOK, Decline, world
<1>5. HistoryOK'
  BY DEF TypeOK, HistoryOK, Decline, history, trail
<1> QED BY <1>1, <1>2, <1>3, <1>4, <1>5 DEF TypeOK

\* FreshPreview keeps the types.
LEMMA FreshPreviewTypes == TypeOK /\ FreshPreview => TypeOK'
<1> SUFFICES ASSUME TypeOK, FreshPreview PROVE TypeOK'
  OBVIOUS
<1>1. RunOK'
  BY FinishTypes, GotoWriteTypes, Values DEF TypeOK, RunOK, DiskOK,
     FreshPreview, Document, Inspections, Steps, Phases
<1>2. BackendOK'
  BY DEF TypeOK, BackendOK, WorldOK, DiskOK, FreshPreview, Observe, Process,
     Backends, Document
<1>3. DiskOK'
  BY DEF TypeOK, DiskOK, FreshPreview, disk
<1>4. WorldOK'
  BY DEF TypeOK, WorldOK, FreshPreview, world
<1>5. HistoryOK'
  BY DEF TypeOK, HistoryOK, FreshPreview, history, trail
<1> QED BY <1>1, <1>2, <1>3, <1>4, <1>5 DEF TypeOK

\* Snapshot keeps the types.
LEMMA SnapshotTypes == TypeOK /\ Snapshot => TypeOK'
<1> SUFFICES ASSUME TypeOK, Snapshot PROVE TypeOK'
  OBVIOUS
<1>1. RunOK'
  BY GotoWriteTypes DEF TypeOK, RunOK, Snapshot, Phases
<1>2. BackendOK'
  BY DEF TypeOK, BackendOK, Snapshot, volatile
<1>3. DiskOK'
  BY DEF TypeOK, DiskOK, Snapshot, disk
<1>4. WorldOK'
  BY DEF TypeOK, WorldOK, Snapshot, world
<1>5. HistoryOK'
  BY DEF TypeOK, HistoryOK, Snapshot
<1> QED BY <1>1, <1>2, <1>3, <1>4, <1>5 DEF TypeOK

\* SnapshotFails keeps the types.
LEMMA SnapshotFailsTypes == TypeOK /\ SnapshotFails => TypeOK'
<1> SUFFICES ASSUME TypeOK, SnapshotFails PROVE TypeOK'
  OBVIOUS
<1>1. RunOK'
  BY GotoWriteTypes, FinishTypes DEF TypeOK, RunOK, SnapshotFails, Phases
<1>2. BackendOK'
  BY DEF TypeOK, BackendOK, SnapshotFails, volatile
<1>3. DiskOK'
  BY DEF TypeOK, DiskOK, SnapshotFails, disk
<1>4. WorldOK'
  BY DEF TypeOK, WorldOK, SnapshotFails, world
<1>5. HistoryOK'
  BY DEF TypeOK, HistoryOK, SnapshotFails, history, trail
<1> QED BY <1>1, <1>2, <1>3, <1>4, <1>5 DEF TypeOK

\* What a run writes to the journal is a checkpoint.
LEMMA CheckpointTypes ==
  ASSUME RunOK PROVE Checkpoint(phase) \in Checkpoints
BY DEF RunOK, Checkpoint, Checkpoints, Inspections, Request, Identities,
       HadDaemon

\* What follows a write of the journal keeps the types of the run.
LEMMA AfterWriteTypes == RunOK /\ AfterWrite => RunOK'
<1> SUFFICES ASSUME RunOK, AfterWrite PROVE RunOK'
  OBVIOUS
<1>a. "stopping" \in Phases /\ out \in Results /\ phase \in Phases
  BY DEF Phases, RunOK
<1>1. CASE phase = "prepared" /\ HadDaemon
  BY <1>1, <1>a, GotoWriteTypes DEF AfterWrite
<1>2. CASE phase = "prepared" /\ ~HadDaemon
  BY <1>2, GotoTypes DEF AfterWrite, Steps
<1>3. CASE phase = "activating"
  BY <1>3, Values DEF AfterWrite, RunOK, Steps
<1>4. CASE phase = "rolling_back"
  BY <1>4, GotoTypes DEF AfterWrite, Steps
<1>5. CASE phase \in {"stopping", "starting", "committed", "rolled_back"}
  BY <1>5, GotoTypes DEF AfterWrite, Steps
<1> QED BY <1>1, <1>2, <1>3, <1>4, <1>5, <1>a DEF Phases

\* WriteCheckpoint keeps the types.
LEMMA WriteCheckpointTypes == TypeOK /\ WriteCheckpoint => TypeOK'
<1> SUFFICES ASSUME TypeOK, WriteCheckpoint PROVE TypeOK'
  OBVIOUS
<1>1. RunOK'
  BY AfterWriteTypes DEF TypeOK, WriteCheckpoint
<1>2. BackendOK'
  BY DEF TypeOK, BackendOK, WriteCheckpoint, volatile
<1>3. DiskOK'
  BY CheckpointTypes DEF TypeOK, DiskOK, WriteCheckpoint
<1>4. WorldOK'
  BY DEF TypeOK, WorldOK, WriteCheckpoint, world
<1>5. HistoryOK'
  BY DEF TypeOK, HistoryOK, WriteCheckpoint, history, trail
<1> QED BY <1>1, <1>2, <1>3, <1>4, <1>5 DEF TypeOK

\* WriteCheckpointFails keeps the types.
LEMMA WriteCheckpointFailsTypes == TypeOK /\ WriteCheckpointFails => TypeOK'
<1> SUFFICES ASSUME TypeOK, WriteCheckpointFails PROVE TypeOK'
  OBVIOUS
<1>1. RunOK'
  BY FinishTypes DEF TypeOK, RunOK, WriteCheckpointFails
<1>2. BackendOK'
  BY DEF TypeOK, BackendOK, WriteCheckpointFails, volatile
<1>3. DiskOK'
  BY CheckpointTypes DEF TypeOK, DiskOK, WriteCheckpointFails
<1>4. WorldOK'
  BY DEF TypeOK, WorldOK, WriteCheckpointFails, world
<1>5. HistoryOK'
  BY DEF TypeOK, HistoryOK, WriteCheckpointFails, history, trail
<1> QED BY <1>1, <1>2, <1>3, <1>4, <1>5 DEF TypeOK

\* StopInspect keeps the types.
LEMMA StopInspectTypes == TypeOK /\ StopInspect => TypeOK'
<1> SUFFICES ASSUME TypeOK, StopInspect PROVE TypeOK'
  OBVIOUS
<1>1. RunOK'
  BY GotoTypes DEF TypeOK, StopInspect, AfterStop, Steps
<1>2. BackendOK'
  BY DEF TypeOK, BackendOK, WorldOK, StopInspect, Backends
<1>3. DiskOK'
  BY DEF TypeOK, DiskOK, StopInspect, disk
<1>4. WorldOK'
  BY DEF TypeOK, WorldOK, StopInspect, world
<1>5. HistoryOK'
  BY DEF TypeOK, HistoryOK, StopInspect, history, trail
<1> QED BY <1>1, <1>2, <1>3, <1>4, <1>5 DEF TypeOK

\* StopCommand keeps the types.
LEMMA StopCommandTypes == TypeOK /\ StopCommand => TypeOK'
<1> SUFFICES ASSUME TypeOK, StopCommand PROVE TypeOK'
  OBVIOUS
<1>1. RunOK'
  BY GotoTypes DEF TypeOK, StopCommand, Steps
<1>2. BackendOK'
  BY DEF TypeOK, BackendOK, StopCommand, volatile
<1>3. DiskOK'
  BY DEF TypeOK, DiskOK, StopCommand, disk
<1>4. WorldOK'
  BY Values DEF TypeOK, WorldOK, StopCommand, DaemonBecomes, DaemonStates
<1>5. HistoryOK'
  BY DEF TypeOK, HistoryOK, StopCommand, trail
<1> QED BY <1>1, <1>2, <1>3, <1>4, <1>5 DEF TypeOK

\* StopConfirm keeps the types.
LEMMA StopConfirmTypes == TypeOK /\ StopConfirm => TypeOK'
<1> SUFFICES ASSUME TypeOK, StopConfirm PROVE TypeOK'
  OBVIOUS
<1>1. RunOK'
  BY GotoTypes DEF TypeOK, StopConfirm, AfterStop, Steps
<1>2. BackendOK'
  BY DEF TypeOK, BackendOK, StopConfirm, volatile
<1>3. DiskOK'
  BY DEF TypeOK, DiskOK, StopConfirm, disk
<1>4. WorldOK'
  BY DEF TypeOK, WorldOK, StopConfirm, world
<1>5. HistoryOK'
  BY DEF TypeOK, HistoryOK, StopConfirm, history, trail
<1> QED BY <1>1, <1>2, <1>3, <1>4, <1>5 DEF TypeOK

\* StopFails keeps the types.
LEMMA StopFailsTypes == TypeOK /\ StopFails => TypeOK'
<1> SUFFICES ASSUME TypeOK, StopFails PROVE TypeOK'
  OBVIOUS
<1>1. RunOK'
  BY FinishTypes DEF TypeOK, RunOK, StopFails
<1>2. BackendOK'
  BY DEF TypeOK, BackendOK, StopFails, volatile
<1>3. DiskOK'
  BY DEF TypeOK, DiskOK, StopFails, disk
<1>4. WorldOK'
  BY Values DEF TypeOK, WorldOK, StopFails, DaemonBecomes, DaemonStates
<1>5. HistoryOK'
  BY DEF TypeOK, HistoryOK, StopFails, trail
<1> QED BY <1>1, <1>2, <1>3, <1>4, <1>5 DEF TypeOK

\* SaveActive keeps the types.
LEMMA SaveActiveTypes == TypeOK /\ SaveActive => TypeOK'
<1> SUFFICES ASSUME TypeOK, SaveActive PROVE TypeOK'
  OBVIOUS
<1>1. RunOK'
  BY GotoWriteTypes DEF TypeOK, RunOK, SaveActive, Phases
<1>2. BackendOK'
  BY DEF TypeOK, BackendOK, DiskOK, SaveActive, Backends, Document
<1>3. DiskOK'
  BY DEF TypeOK, DiskOK, SaveActive, Enrolled, Document, Identities
<1>4. WorldOK'
  BY DEF TypeOK, WorldOK, SaveActive, world
<1>5. HistoryOK'
  BY DEF TypeOK, HistoryOK, SaveActive, history, trail
<1> QED BY <1>1, <1>2, <1>3, <1>4, <1>5 DEF TypeOK

\* SaveActiveFails keeps the types.
LEMMA SaveActiveFailsTypes == TypeOK /\ SaveActiveFails => TypeOK'
<1> SUFFICES ASSUME TypeOK, SaveActiveFails PROVE TypeOK'
  OBVIOUS
<1>1. RunOK'
  BY FinishTypes DEF TypeOK, RunOK, SaveActiveFails
<1>2. BackendOK'
  BY DEF TypeOK, BackendOK, SaveActiveFails, volatile
<1>3. DiskOK'
  BY DEF TypeOK, DiskOK, SaveActiveFails, Enrolled, Document, Identities
<1>4. WorldOK'
  BY DEF TypeOK, WorldOK, SaveActiveFails, world
<1>5. HistoryOK'
  BY DEF TypeOK, HistoryOK, SaveActiveFails, history, trail
<1> QED BY <1>1, <1>2, <1>3, <1>4, <1>5 DEF TypeOK

\* What follows a failed call, a rollback or the end, keeps the types.
LEMMA FailOverTypes == RunOK /\ FailOver => RunOK'
<1> SUFFICES ASSUME RunOK, FailOver PROVE RunOK'
  OBVIOUS
<1>1. CASE RollingBack
  BY <1>1, FinishTypes DEF FailOver, RunOK
<1>2. CASE ~RollingBack
  <2>1. [out EXCEPT !.rollbackAttempted = TRUE] \in Results
    BY DEF RunOK, Results
  <2> QED BY <1>2, <2>1, GotoWriteTypes DEF FailOver, RollBack, Phases
<1> QED BY <1>1, <1>2

\* The login Activate installs is an identity.
LEMMA HandleTypes == RunOK => Handle \in Identities
BY DEF RunOK, Handle, Inspections, Request, Identities

\* Activate keeps the types.
LEMMA ActivateTypes == TypeOK /\ Activate => TypeOK'
<1> SUFFICES ASSUME TypeOK, Activate PROVE TypeOK'
  OBVIOUS
<1>1. RunOK'
  BY GotoTypes DEF TypeOK, Activate, Steps
<1>2. BackendOK'
  BY HandleTypes, Values DEF TypeOK, BackendOK, DiskOK, Activate, Backends,
     Document, Identities
<1>3. DiskOK'
  BY DEF TypeOK, DiskOK, Activate, disk
<1>4. WorldOK'
  BY DEF TypeOK, WorldOK, Activate, world
<1>5. HistoryOK'
  BY DEF TypeOK, HistoryOK, Activate, history, trail
<1> QED BY <1>1, <1>2, <1>3, <1>4, <1>5 DEF TypeOK

\* ActivateFails keeps the types.
LEMMA ActivateFailsTypes == TypeOK /\ ActivateFails => TypeOK'
<1> SUFFICES ASSUME TypeOK, ActivateFails PROVE TypeOK'
  OBVIOUS
<1>1. RunOK'
  BY FailOverTypes DEF TypeOK, ActivateFails
<1>2. BackendOK'
  BY HandleTypes DEF TypeOK, BackendOK, ActivateFails, Backends
<1>3. DiskOK'
  BY DEF TypeOK, DiskOK, ActivateFails, disk
<1>4. WorldOK'
  BY DEF TypeOK, WorldOK, ActivateFails, world
<1>5. HistoryOK'
  BY DEF TypeOK, HistoryOK, ActivateFails, history, trail
<1> QED BY <1>1, <1>2, <1>3, <1>4, <1>5 DEF TypeOK

\* Install keeps the types.
LEMMA InstallTypes == TypeOK /\ Install => TypeOK'
<1> SUFFICES ASSUME TypeOK, Install PROVE TypeOK'
  OBVIOUS
<1>1. RunOK'
  BY GotoTypes DEF TypeOK, Install, Steps
<1>2. BackendOK'
  BY DEF TypeOK, BackendOK, Install, volatile
<1>3. DiskOK'
  BY DEF TypeOK, DiskOK, BackendOK, Install, Replace
<1>4. WorldOK'
  BY DEF TypeOK, WorldOK, Install, world
<1>5. HistoryOK'
  BY DEF TypeOK, HistoryOK, Install, Replace
<1> QED BY <1>1, <1>2, <1>3, <1>4, <1>5 DEF TypeOK

\* InstallFails keeps the types.
LEMMA InstallFailsTypes == TypeOK /\ InstallFails => TypeOK'
<1> SUFFICES ASSUME TypeOK, InstallFails PROVE TypeOK'
  OBVIOUS
<1>1. RunOK'
  BY FailOverTypes DEF TypeOK, InstallFails
<1>2. BackendOK'
  BY DEF TypeOK, BackendOK, InstallFails, volatile
<1>3. DiskOK'
  BY DEF TypeOK, DiskOK, BackendOK, InstallFails, Replace
<1>4. WorldOK'
  BY DEF TypeOK, WorldOK, InstallFails, world
<1>5. HistoryOK'
  BY DEF TypeOK, HistoryOK, InstallFails, Replace
<1> QED BY <1>1, <1>2, <1>3, <1>4, <1>5 DEF TypeOK

\* Reread keeps the types.
LEMMA RereadTypes == TypeOK /\ Reread => TypeOK'
<1> SUFFICES ASSUME TypeOK, Reread PROVE TypeOK'
  OBVIOUS
<1>1. RunOK'
  BY GotoTypes, GotoWriteTypes DEF TypeOK, RunOK, Reread, Steps, Phases
<1>2. BackendOK'
  BY DEF TypeOK, BackendOK, DiskOK, Reread, Backends
<1>3. DiskOK'
  BY DEF TypeOK, DiskOK, Reread, disk
<1>4. WorldOK'
  BY DEF TypeOK, WorldOK, Reread, world
<1>5. HistoryOK'
  BY DEF TypeOK, HistoryOK, Reread, history, trail
<1> QED BY <1>1, <1>2, <1>3, <1>4, <1>5 DEF TypeOK

\* RereadFails keeps the types.
LEMMA RereadFailsTypes == TypeOK /\ RereadFails => TypeOK'
<1> SUFFICES ASSUME TypeOK, RereadFails PROVE TypeOK'
  OBVIOUS
<1>1. RunOK'
  BY FailOverTypes DEF TypeOK, RereadFails
<1>2. BackendOK'
  BY DEF TypeOK, BackendOK, RereadFails, volatile
<1>3. DiskOK'
  BY DEF TypeOK, DiskOK, RereadFails, disk
<1>4. WorldOK'
  BY DEF TypeOK, WorldOK, RereadFails, world
<1>5. HistoryOK'
  BY DEF TypeOK, HistoryOK, RereadFails, history, trail
<1> QED BY <1>1, <1>2, <1>3, <1>4, <1>5 DEF TypeOK

\* A daemon that starts reads the login on disk.
LEMMA SpawnTypes ==
  ASSUME DiskOK, WorldOK, NEW state \in DaemonStates, Spawn(state)
  PROVE  /\ daemon' \in DaemonStates /\ births' \in Nat
         /\ loaded' \in Document /\ busy' \in BOOLEAN
<1>1. daemon' \in DaemonStates /\ loaded' \in Document /\ busy' \in BOOLEAN
  BY DEF DiskOK, Spawn
<1>2. births' \in Nat
  BY DEF WorldOK, Spawn
<1> QED BY <1>1, <1>2

\* Start keeps the types.
LEMMA StartTypes == TypeOK /\ Start => TypeOK'
<1> SUFFICES ASSUME TypeOK, Start PROVE TypeOK'
  OBVIOUS
<1>1. RunOK'
  BY GotoTypes DEF TypeOK, Start, Steps
<1>2. BackendOK'
  BY DEF TypeOK, BackendOK, Start, volatile
<1>3. DiskOK'
  BY DEF TypeOK, DiskOK, Start, disk
<1>4. WorldOK'
  BY SpawnTypes DEF TypeOK, WorldOK, Start, DaemonStates
<1>5. HistoryOK'
  BY DEF TypeOK, HistoryOK, Start, trail
<1> QED BY <1>1, <1>2, <1>3, <1>4, <1>5 DEF TypeOK

\* StartFails keeps the types.
LEMMA StartFailsTypes == TypeOK /\ StartFails => TypeOK'
<1> SUFFICES ASSUME TypeOK, StartFails PROVE TypeOK'
  OBVIOUS
<1>1. RunOK'
  BY FailOverTypes DEF TypeOK, StartFails
<1>2. BackendOK'
  BY DEF TypeOK, BackendOK, StartFails, volatile
<1>3. DiskOK'
  BY DEF TypeOK, DiskOK, StartFails, disk
<1>4. WorldOK'
  BY SpawnTypes DEF TypeOK, WorldOK, StartFails, DaemonStates
<1>5. HistoryOK'
  BY DEF TypeOK, HistoryOK, StartFails, trail
<1> QED BY <1>1, <1>2, <1>3, <1>4, <1>5 DEF TypeOK

\* Verify keeps the types.
LEMMA VerifyTypes == TypeOK /\ Verify => TypeOK'
<1> SUFFICES ASSUME TypeOK, Verify PROVE TypeOK'
  OBVIOUS
<1>1. RunOK'
  BY DEF TypeOK, RunOK, Verify, GotoWrite, Results, Inspections, Request,
         Identities, Phases, Steps
<1>2. BackendOK'
  BY DEF TypeOK, BackendOK, Verify, volatile
<1>3. DiskOK'
  BY DEF TypeOK, DiskOK, Verify, disk
<1>4. WorldOK'
  BY DEF TypeOK, WorldOK, Verify, world
<1>5. HistoryOK'
  BY DEF TypeOK, HistoryOK, Verify, trail
<1> QED BY <1>1, <1>2, <1>3, <1>4, <1>5 DEF TypeOK

\* VerifyFails keeps the types.
LEMMA VerifyFailsTypes == TypeOK /\ VerifyFails => TypeOK'
<1> SUFFICES ASSUME TypeOK, VerifyFails PROVE TypeOK'
  OBVIOUS
<1>1. RunOK'
  BY FailOverTypes DEF TypeOK, VerifyFails
<1>2. BackendOK'
  BY DEF TypeOK, BackendOK, VerifyFails, volatile
<1>3. DiskOK'
  BY DEF TypeOK, DiskOK, VerifyFails, disk
<1>4. WorldOK'
  BY DEF TypeOK, WorldOK, VerifyFails, world
<1>5. HistoryOK'
  BY DEF TypeOK, HistoryOK, VerifyFails, history, trail
<1> QED BY <1>1, <1>2, <1>3, <1>4, <1>5 DEF TypeOK

\* ClearCheckpoint keeps the types.
LEMMA ClearCheckpointTypes == TypeOK /\ ClearCheckpoint => TypeOK'
<1> SUFFICES ASSUME TypeOK, ClearCheckpoint PROVE TypeOK'
  OBVIOUS
<1>1. RunOK'
  BY FinishTypes DEF TypeOK, RunOK, ClearCheckpoint
<1>2. BackendOK'
  BY DEF TypeOK, BackendOK, ClearCheckpoint, volatile
<1>3. DiskOK'
  BY Values DEF TypeOK, DiskOK, ClearCheckpoint
<1>4. WorldOK'
  BY DEF TypeOK, WorldOK, ClearCheckpoint, world
<1>5. HistoryOK'
  BY DEF TypeOK, HistoryOK, ClearCheckpoint, history, trail
<1> QED BY <1>1, <1>2, <1>3, <1>4, <1>5 DEF TypeOK

\* ClearCheckpointFails keeps the types.
LEMMA ClearCheckpointFailsTypes == TypeOK /\ ClearCheckpointFails => TypeOK'
<1> SUFFICES ASSUME TypeOK, ClearCheckpointFails PROVE TypeOK'
  OBVIOUS
<1>1. RunOK'
  BY FinishTypes DEF TypeOK, RunOK, ClearCheckpointFails
<1>2. BackendOK'
  BY DEF TypeOK, BackendOK, ClearCheckpointFails, volatile
<1>3. DiskOK'
  BY Values DEF TypeOK, DiskOK, ClearCheckpointFails
<1>4. WorldOK'
  BY DEF TypeOK, WorldOK, ClearCheckpointFails, world
<1>5. HistoryOK'
  BY DEF TypeOK, HistoryOK, ClearCheckpointFails, history, trail
<1> QED BY <1>1, <1>2, <1>3, <1>4, <1>5 DEF TypeOK

\* A run that begins keeps the types.
LEMMA BeginTypes == TypeOK /\ (\E r \in Requests : Begin(r)) => TypeOK'
<1> SUFFICES ASSUME TypeOK, NEW r \in Requests, Begin(r) PROVE TypeOK'
  OBVIOUS
<1>1. RunOK'
  <2>1. r \in Request
    BY RequestsAssumption DEF Request
  <2>2. "preview1" \in Steps /\ "prepared" \in Phases
    BY DEF Steps, Phases
  <2>3. runs' \in Nat
    BY DEF TypeOK, RunOK, Begin
  <2>4. pc' \in Steps /\ phase' \in Phases /\ req' \in Request
    BY <2>1, <2>2 DEF Begin
  <2>5. plan' \in Inspections /\ out' \in Results /\ cancelled' \in BOOLEAN
    BY Values DEF Begin
  <2>6. err' = "none"
    BY DEF Begin
  <2> QED BY <2>3, <2>4, <2>5, <2>6 DEF RunOK
<1>2. BackendOK'
  BY Values DEF TypeOK, BackendOK, Begin
<1>3. DiskOK'
  BY DEF TypeOK, DiskOK, Begin, disk
<1>4. WorldOK'
  BY DEF TypeOK, WorldOK, Begin, world
<1>5. HistoryOK'
  <2>1. inherited' \in BOOLEAN /\ consent' \in BOOLEAN /\ snapped' \in BOOLEAN
    BY DEF Begin, Journaled
  <2>2. effects' \in SUBSET {"stopped", "installed", "started"}
        /\ settled' \in {"nothing", "target", "from"}
    BY DEF TypeOK, HistoryOK, Begin
  <2> QED BY <2>1, <2>2 DEF TypeOK, HistoryOK, Begin, Rest
<1> QED BY <1>1, <1>2, <1>3, <1>4, <1>5 DEF TypeOK

\* Interrupt keeps the types.
LEMMA InterruptTypes == TypeOK /\ Interrupt => TypeOK'
<1> SUFFICES ASSUME TypeOK, Interrupt PROVE TypeOK'
  OBVIOUS
<1>1. RunOK'
  BY DEF TypeOK, RunOK, Interrupt
<1>2. BackendOK'
  BY DEF TypeOK, BackendOK, Interrupt, volatile
<1>3. DiskOK'
  BY DEF TypeOK, DiskOK, Interrupt, disk
<1>4. WorldOK'
  BY DEF TypeOK, WorldOK, Interrupt, Spend
<1>5. HistoryOK'
  BY DEF TypeOK, HistoryOK, Interrupt, history, trail
<1> QED BY <1>1, <1>2, <1>3, <1>4, <1>5 DEF TypeOK

\* Crash keeps the types.
LEMMA CrashTypes == TypeOK /\ Crash => TypeOK'
<1> SUFFICES ASSUME TypeOK, Crash PROVE TypeOK'
  OBVIOUS
<1>1. RunOK'
  BY Values DEF TypeOK, RunOK, Crash, Rest, Phases
<1>2. BackendOK'
  BY Values DEF TypeOK, BackendOK, Crash
<1>3. DiskOK'
  BY DEF TypeOK, DiskOK, Crash, disk
<1>4. WorldOK'
  BY DEF TypeOK, WorldOK, Crash, Spend
<1>5. HistoryOK'
  BY DEF TypeOK, HistoryOK, Crash, history, trail
<1> QED BY <1>1, <1>2, <1>3, <1>4, <1>5 DEF TypeOK

\* OutsideLogin keeps the types.
LEMMA OutsideLoginTypes ==
  TypeOK /\ (\E id \in Identities : OutsideLogin(id)) => TypeOK'
<1> SUFFICES ASSUME TypeOK, NEW id \in Identities, OutsideLogin(id)
             PROVE  TypeOK'
  OBVIOUS
<1>1. RunOK'
  BY DEF TypeOK, RunOK, OutsideLogin, run
<1>2. BackendOK'
  BY DEF TypeOK, BackendOK, OutsideLogin, volatile
<1>3. DiskOK'
  BY Values DEF TypeOK, DiskOK, WorldOK, OutsideLogin, Issue, Document,
     Identities
<1>4. WorldOK'
  BY DEF TypeOK, WorldOK, OutsideLogin, Issue, Spend, Identities
<1>5. HistoryOK'
  BY DEF TypeOK, HistoryOK, RunOK, OutsideLogin, Issue
<1> QED BY <1>1, <1>2, <1>3, <1>4, <1>5 DEF TypeOK

\* DaemonRotates keeps the types.
LEMMA DaemonRotatesTypes == TypeOK /\ DaemonRotates => TypeOK'
<1> SUFFICES ASSUME TypeOK, DaemonRotates PROVE TypeOK'
  OBVIOUS
<1>1. RunOK'
  BY DEF TypeOK, RunOK, DaemonRotates, RotateNative, run
<1>2. BackendOK'
  BY DEF TypeOK, BackendOK, DaemonRotates, RotateNative, volatile
<1>3. DiskOK'
  BY DEF TypeOK, DiskOK, DaemonRotates, RotateNative, Document
<1>4. WorldOK'
  BY DEF TypeOK, DiskOK, WorldOK, DaemonRotates, RotateNative, Issue, Document
<1>5. HistoryOK'
  BY DEF TypeOK, HistoryOK, DaemonRotates, RotateNative, Issue
<1> QED BY <1>1, <1>2, <1>3, <1>4, <1>5 DEF TypeOK

\* StandaloneRotates keeps the types.
LEMMA StandaloneRotatesTypes == TypeOK /\ StandaloneRotates => TypeOK'
<1> SUFFICES ASSUME TypeOK, StandaloneRotates PROVE TypeOK'
  OBVIOUS
<1>1. RunOK'
  BY DEF TypeOK, RunOK, StandaloneRotates, RotateNative, run
<1>2. BackendOK'
  BY DEF TypeOK, BackendOK, StandaloneRotates, RotateNative, volatile
<1>3. DiskOK'
  BY DEF TypeOK, DiskOK, StandaloneRotates, RotateNative, Document
<1>4. WorldOK'
  BY DEF TypeOK, DiskOK, WorldOK, StandaloneRotates, RotateNative, Issue,
     Document
<1>5. HistoryOK'
  BY DEF TypeOK, HistoryOK, StandaloneRotates, RotateNative, Issue
<1> QED BY <1>1, <1>2, <1>3, <1>4, <1>5 DEF TypeOK

\* UserStartsDaemon keeps the types.
LEMMA UserStartsDaemonTypes == TypeOK /\ UserStartsDaemon => TypeOK'
<1> SUFFICES ASSUME TypeOK, UserStartsDaemon PROVE TypeOK'
  OBVIOUS
<1>1. RunOK'
  BY DEF TypeOK, RunOK, UserStartsDaemon, run
<1>2. BackendOK'
  BY DEF TypeOK, BackendOK, UserStartsDaemon, volatile
<1>3. DiskOK'
  BY DEF TypeOK, DiskOK, UserStartsDaemon, disk
<1>4. WorldOK'
  BY SpawnTypes DEF TypeOK, WorldOK, UserStartsDaemon, Spend, DaemonStates
<1>5. HistoryOK'
  BY DEF TypeOK, HistoryOK, UserStartsDaemon, history, trail
<1> QED BY <1>1, <1>2, <1>3, <1>4, <1>5 DEF TypeOK

\* DaemonDies keeps the types.
LEMMA DaemonDiesTypes == TypeOK /\ DaemonDies => TypeOK'
<1> SUFFICES ASSUME TypeOK, DaemonDies PROVE TypeOK'
  OBVIOUS
<1>1. RunOK'
  BY DEF TypeOK, RunOK, DaemonDies, run
<1>2. BackendOK'
  BY DEF TypeOK, BackendOK, DaemonDies, volatile
<1>3. DiskOK'
  BY DEF TypeOK, DiskOK, DaemonDies, disk
<1>4. WorldOK'
  BY Values DEF TypeOK, WorldOK, DaemonDies, DaemonBecomes, Spend,
         DaemonStates
<1>5. HistoryOK'
  BY DEF TypeOK, HistoryOK, DaemonDies, history, trail
<1> QED BY <1>1, <1>2, <1>3, <1>4, <1>5 DEF TypeOK

\* DaemonSettles keeps the types.
LEMMA DaemonSettlesTypes == TypeOK /\ DaemonSettles => TypeOK'
<1> SUFFICES ASSUME TypeOK, DaemonSettles PROVE TypeOK'
  OBVIOUS
<1>1. RunOK'
  BY DEF TypeOK, RunOK, DaemonSettles, run
<1>2. BackendOK'
  BY DEF TypeOK, BackendOK, DaemonSettles, volatile
<1>3. DiskOK'
  BY DEF TypeOK, DiskOK, DaemonSettles, disk
<1>4. WorldOK'
  BY Values DEF TypeOK, WorldOK, DaemonSettles, DaemonBecomes, DaemonStates
<1>5. HistoryOK'
  BY DEF TypeOK, HistoryOK, DaemonSettles, history, trail
<1> QED BY <1>1, <1>2, <1>3, <1>4, <1>5 DEF TypeOK

\* TurnChanges keeps the types.
LEMMA TurnChangesTypes == TypeOK /\ TurnChanges => TypeOK'
<1> SUFFICES ASSUME TypeOK, TurnChanges PROVE TypeOK'
  OBVIOUS
<1>1. RunOK'
  BY DEF TypeOK, RunOK, TurnChanges, run
<1>2. BackendOK'
  BY DEF TypeOK, BackendOK, TurnChanges, volatile
<1>3. DiskOK'
  BY DEF TypeOK, DiskOK, TurnChanges, disk
<1>4. WorldOK'
  BY DEF TypeOK, WorldOK, TurnChanges, Spend
<1>5. HistoryOK'
  BY DEF TypeOK, HistoryOK, TurnChanges, history, trail
<1> QED BY <1>1, <1>2, <1>3, <1>4, <1>5 DEF TypeOK

\* QuotaAges keeps the types.
LEMMA QuotaAgesTypes == TypeOK /\ QuotaAges => TypeOK'
<1> SUFFICES ASSUME TypeOK, QuotaAges PROVE TypeOK'
  OBVIOUS
<1>1. RunOK'
  BY DEF TypeOK, RunOK, QuotaAges, run
<1>2. BackendOK'
  BY DEF TypeOK, BackendOK, QuotaAges, volatile
<1>3. DiskOK'
  BY DEF TypeOK, DiskOK, QuotaAges, disk
<1>4. WorldOK'
  BY DEF TypeOK, WorldOK, QuotaAges, Spend, QuotaStates
<1>5. HistoryOK'
  BY DEF TypeOK, HistoryOK, QuotaAges, history, trail
<1> QED BY <1>1, <1>2, <1>3, <1>4, <1>5 DEF TypeOK

\* Every step keeps the types.
LEMMA NextTypes == TypeOK /\ [Next]_vars => TypeOK'
<1> SUFFICES ASSUME TypeOK, [Next]_vars PROVE TypeOK'
  OBVIOUS
<1>1. CASE \E r \in Requests : Begin(r)
  BY <1>1, BeginTypes
<1>2. CASE Answer
  BY <1>2, ReauthenticateTypes, ApproveTypes, DeclineTypes DEF Answer
<1>3. CASE Call
  BY <1>3, RefuseUnfinishedTypes, RefusePreviewTypes, FirstPreviewTypes,
     PrepareTargetTypes, SignInTypes, PrepareTargetFailsTypes,
     SecondPreviewTypes, FreshPreviewTypes, SnapshotTypes, SnapshotFailsTypes,
     WriteCheckpointTypes, WriteCheckpointFailsTypes, StopInspectTypes,
     StopCommandTypes, StopConfirmTypes, StopFailsTypes, SaveActiveTypes,
     SaveActiveFailsTypes, ActivateTypes, ActivateFailsTypes, InstallTypes,
     InstallFailsTypes, RereadTypes, RereadFailsTypes, StartTypes,
     StartFailsTypes, VerifyTypes, VerifyFailsTypes, ClearCheckpointTypes,
     ClearCheckpointFailsTypes
     DEF Call
<1>4. CASE Outside
  BY <1>4, InterruptTypes, CrashTypes, OutsideLoginTypes, DaemonRotatesTypes,
     StandaloneRotatesTypes, UserStartsDaemonTypes, DaemonDiesTypes,
     DaemonSettlesTypes, TurnChangesTypes, QuotaAgesTypes
     DEF Outside
<1>5. CASE UNCHANGED vars
  BY <1>5 DEF vars, run, volatile, disk, world, history, trail, TypeOK, RunOK,
              BackendOK, DiskOK, WorldOK, HistoryOK
<1> QED BY <1>1, <1>2, <1>3, <1>4, <1>5 DEF Next

\* The state of a switch keeps its types, for any accounts, requests, events
\* and bounds (the structs of switcher.go and backend.go).
THEOREM TypeCorrect == Spec => []TypeOK
<1>1. Init => TypeOK
  BY InitTypes
<1>2. TypeOK /\ [Next]_vars => TypeOK'
  BY NextTypes
<1> QED BY <1>1, <1>2, PTL DEF Spec

-----------------------------------------------------------------------------
(* Write-ahead *)

\* Nothing was done when the first run begins.
LEMMA InitWriteAhead == Init => WriteAhead
BY DEF Init, WriteAhead

\* A failed call ends the run, or goes on with the rollback.
LEMMA FailOverStep ==
  FailOver => \/ pc' = "done"
              \/ pc' = "write" /\ phase' = "rolling_back"
BY DEF FailOver, Finish, RollBack, GotoWrite

\* What Call leaves of the journal after each of its steps.
LEMMA CallWriteAhead == TypeOK /\ WriteAhead /\ Call => WriteAhead'
<1> SUFFICES ASSUME TypeOK, WriteAhead, Call PROVE WriteAhead'
  OBVIOUS
<1> USE DEF WriteAhead, Journaled
<1>1. CASE RefuseUnfinished
  BY <1>1 DEF RefuseUnfinished, Finish, disk, history
<1>2. CASE RefusePreview
  BY <1>2 DEF RefusePreview, Finish, history
<1>3. CASE FirstPreview
  BY <1>3 DEF FirstPreview, Finish, Goto, history
<1>4. CASE PrepareTarget
  BY <1>4 DEF PrepareTarget, PrepareKeeps, Goto
<1>5. CASE PrepareTargetFails
  BY <1>5 DEF PrepareTargetFails, PrepareKeeps, Finish, disk
<1>6. CASE SecondPreview
  BY <1>6 DEF SecondPreview, disk
<1>7. CASE FreshPreview
  BY <1>7 DEF FreshPreview, Finish, GotoWrite, history
<1>8. CASE Snapshot
  BY <1>8 DEF Snapshot, GotoWrite, disk
<1>9. CASE SnapshotFails
  BY <1>9 DEF SnapshotFails, Finish, GotoWrite, disk, history
<1>10. CASE WriteCheckpoint
  <2>1. journal'.phase # "none" /\ UNCHANGED <<effects, settled>>
    BY <1>10 DEF TypeOK, RunOK, WriteCheckpoint, Checkpoint, Phases, history
  <2>2. pc' = "clear" => settled # "nothing"
    BY <1>10 DEF TypeOK, RunOK, WriteCheckpoint, AfterWrite, Goto, GotoWrite,
       Phases
  <2>3. pc' = "write" => phase' = "stopping"
    BY <1>10 DEF TypeOK, RunOK, WriteCheckpoint, AfterWrite, Goto, GotoWrite,
       Phases
  <2> QED BY <2>1, <2>2, <2>3
<1>11. CASE WriteCheckpointFails
  BY <1>11 DEF WriteCheckpointFails, Finish, Checkpoint, Phases, history, RunOK,
     TypeOK
<1>12. CASE StopInspect
  BY <1>12 DEF StopInspect, Goto, AfterStop, disk, history
<1>13. CASE StopCommand
  BY <1>13 DEF StopCommand, Goto, disk
<1>14. CASE StopConfirm
  BY <1>14 DEF StopConfirm, Goto, AfterStop, disk, history
<1>15. CASE StopFails
  BY <1>15 DEF StopFails, Finish, disk
<1>16. CASE SaveActive
  BY <1>16 DEF SaveActive, GotoWrite, history
<1>17. CASE SaveActiveFails
  BY <1>17 DEF SaveActiveFails, Finish, history
<1>18. CASE Activate
  BY <1>18 DEF Activate, Goto, disk, history
<1>19. CASE ActivateFails
  BY <1>19, FailOverStep DEF ActivateFails, disk, history, Replace
<1>20. CASE Install
  BY <1>20 DEF Install, Goto
<1>21. CASE InstallFails
  BY <1>21, FailOverStep DEF InstallFails, disk, history, Replace
<1>22. CASE Reread
  BY <1>22 DEF Reread, Goto, GotoWrite, disk, history
<1>23. CASE RereadFails
  BY <1>23, FailOverStep DEF RereadFails, disk, history, Replace
<1>24. CASE Start
  BY <1>24 DEF Start, Goto, disk
<1>25. CASE StartFails
  BY <1>25, FailOverStep DEF StartFails, disk, history, Replace
<1>26. CASE Verify
  BY <1>26 DEF Verify, GotoWrite, disk
<1>27. CASE VerifyFails
  BY <1>27, FailOverStep DEF VerifyFails, disk, history, Replace
<1>28. CASE ClearCheckpoint
  BY <1>28 DEF ClearCheckpoint, Finish, history
<1>29. CASE ClearCheckpointFails
  BY <1>29 DEF ClearCheckpointFails, Finish, history
<1>30. CASE SignIn
  BY <1>30 DEF SignIn, PrepareKeeps, Goto
<1> QED BY <1>1, <1>2, <1>3, <1>4, <1>5, <1>6, <1>7, <1>8, <1>9, <1>10, <1>11,
       <1>12, <1>13, <1>14, <1>15, <1>16, <1>17, <1>18, <1>19, <1>20,
       <1>21, <1>22, <1>23, <1>24, <1>25, <1>26, <1>27, <1>28, <1>29, <1>30
       DEF Call

\* Nothing outside Verso removes the journal.
LEMMA OutsideWriteAhead == WriteAhead /\ Outside => WriteAhead'
<1> SUFFICES ASSUME WriteAhead, Outside PROVE WriteAhead'
  OBVIOUS
<1>1. UNCHANGED <<journal, effects, settled>>
  BY DEF Outside, Interrupt, Crash, OutsideLogin, DaemonRotates,
     StandaloneRotates, RotateNative, UserStartsDaemon, DaemonDies,
     DaemonSettles, TurnChanges, QuotaAges, disk, history
<1>2. UNCHANGED <<pc, phase>> \/ pc' = "crashed"
  BY DEF Outside, Interrupt, Crash, OutsideLogin, DaemonRotates,
     StandaloneRotates, RotateNative, UserStartsDaemon, DaemonDies,
     DaemonSettles, TurnChanges, QuotaAges, run
<1> QED BY <1>1, <1>2 DEF WriteAhead, Journaled

\* No step breaks the invariant of the journal.
LEMMA NextWriteAhead == TypeOK /\ WriteAhead /\ [Next]_vars => WriteAhead'
<1> SUFFICES ASSUME TypeOK, WriteAhead, [Next]_vars PROVE WriteAhead'
  OBVIOUS
<1>1. CASE \E r \in Requests : Begin(r)
  BY <1>1 DEF Begin, WriteAhead, Journaled, disk
<1>2. CASE Answer
  BY <1>2 DEF Answer, Reauthenticate, Approve, Decline, Prompts, Goto, Finish,
              WriteAhead, Journaled, disk, history
<1>3. CASE Call
  BY <1>3, CallWriteAhead
<1>4. CASE Outside
  BY <1>4, OutsideWriteAhead
<1>5. CASE UNCHANGED vars
  BY <1>5 DEF vars, run, disk, history, WriteAhead, Journaled
<1> QED BY <1>1, <1>2, <1>3, <1>4, <1>5 DEF Next

\* Wherever Execute or rollback can act on the daemon or on auth.json, a
\* journal was written before and is still there.
THEOREM WriteAheadHolds == Spec => []WriteAhead
<1>1. Init => WriteAhead
  BY InitWriteAhead
<1>2. TypeOK /\ WriteAhead /\ [Next]_vars => WriteAhead'
  BY NextWriteAhead
<1> QED BY <1>1, <1>2, TypeCorrect, PTL DEF Spec

\* No crash, failed write, outside event or rerun leaves a half-done switch
\* without its journal.
THEOREM EffectsAreJournaled == Spec => []JournalCoversEffects
<1>1. WriteAhead => JournalCoversEffects
  BY DEF WriteAhead, JournalCoversEffects
<1> QED BY <1>1, WriteAheadHolds, PTL

-----------------------------------------------------------------------------
(* What the run, its journal and its history say of each other *)

Opening    == {"preview1", "prepare", "reauthenticate", "sign_in",
               "preview2", "approve", "preview3", "snapshot"}
Planned    == {"approve", "preview3", "snapshot"}
Stopping   == {"stop", "stop_command", "stop_confirm"}
Installing == {"activate", "install", "reread", "start", "verify"}
Journaling == Stopping \cup {"write", "save", "clear"} \cup Installing

Writing(phases) == pc = "write" /\ phase \in phases

\* Before the first checkpoint nothing happened, unless an earlier run left
\* its journal: then this run only refuses.
OpeningInv ==
  /\ ~Journaled => journal = NoJournal
  /\ inherited => Journaled /\ pc \in {"preview1", "done", "crashed"}
  /\ inherited /\ pc = "done" => err = "unfinished"
  /\ pc \in Opening => ~RollingBack
  /\ (pc \in Opening /\ ~inherited) \/ Writing({"prepared"}) =>
       ~Journaled /\ effects = {} /\ settled = "nothing"
  /\ pc \in Planned \cup Journaling => plan.active # req.target

\* The checkpoint on disk is the one of this run, and its phase is the one
\* before the call that comes next.
CheckpointInv ==
  /\ pc \in Journaling /\ ~Writing({"prepared"}) =>
       /\ Journaled
       /\ journal.from = plan.active /\ journal.target = req.target
       /\ journal.hadDaemon = HadDaemon
  /\ pc \in Stopping \cup {"start"} \/ Writing({"stopping", "starting"}) =>
       HadDaemon
  /\ Writing({"prepared", "stopping", "activating", "starting", "committed"})
       \/ pc = "save" => ~RollingBack
  /\ Writing({"rolling_back", "rolled_back"}) => RollingBack
  /\ Writing({"stopping"}) => journal.phase = "prepared"
  /\ pc = "save" \/ Writing({"activating"}) =>
       journal.phase \in {"prepared", "stopping"}
  /\ Writing({"starting"}) => journal.phase = "activating"
  /\ Writing({"rolling_back", "committed"}) =>
       journal.phase \in {"activating", "starting"}
  /\ Writing({"rolled_back"}) => journal.phase = "rolling_back"
  /\ pc \in Stopping \cup Installing /\ RollingBack =>
       journal.phase = "rolling_back"
  /\ pc \in Stopping /\ ~RollingBack => journal.phase = "stopping"
  /\ pc \in {"activate", "install", "reread"} /\ ~RollingBack =>
       journal.phase = "activating"
  /\ pc = "start" /\ ~RollingBack => journal.phase = "starting"
  /\ pc = "verify" /\ ~RollingBack =>
       journal.phase \in {"activating", "starting"}
  /\ pc = "clear" =>
       journal.phase = IF RollingBack THEN "rolled_back" ELSE "committed"

\* What was done and proven when a call is made.
EffectsInv ==
  /\ (pc = "reread" /\ ~RollingBack) \/ Writing({"starting"}) =>
       "installed" \in effects
  /\ pc \in Stopping \cup Installing \cup {"save"}
       \/ Writing({"stopping", "activating", "starting", "rolling_back"}) =>
       settled = "nothing"
  /\ Writing({"committed"}) => settled = "target"
  /\ Writing({"rolled_back"}) => settled = "from"
  /\ pc = "clear" => settled = IF RollingBack THEN "from" ELSE "target"

ConsentInv ==
  /\ pc \in Planned \cup Journaling =>
       (plan.quota = "exhausted" => req.allowExhausted)
  /\ pc \in {"preview3", "snapshot"} \cup Journaling => consent
  /\ pc \in Journaling => (req.herdr => snapped \/ req.allowNoSnapshot)

\* Only the two accounts of the plan are ever recognised or put in place.
AllowedInv ==
  /\ backend.allowed \subseteq {plan.active, req.target}
  /\ pc \in Opening => backend.allowed = {}
  /\ pc = "install" =>
       /\ payload.id = Handle
       /\ \/ native.id \in {plan.active, req.target}
          \/ loginAt = "install"

RecordInv == /\ OpeningInv /\ CheckpointInv /\ EffectsInv
             /\ JournalPhaseHonest /\ QuietErrorsAreClean

-----------------------------------------------------------------------------
(* The selected login, as long as nobody else logs in *)

NoLogin == "login" \notin Events

LoginInv ==
  /\ pc \in {"prepare", "reauthenticate", "sign_in"} =>
       native.id = backend.selected /\ native.id # req.target
  /\ pc \in Planned
       \/ (pc \in Stopping \cup {"save", "activate", "install"} /\ ~RollingBack)
       \/ Writing({"prepared", "stopping", "activating"}) =>
       native.id = plan.active
  /\ pc \in {"reread", "start", "verify", "clear"} => native.id = Handle
  /\ Writing({"starting", "committed"}) => native.id = req.target
  /\ Writing({"rolled_back"}) => native.id = plan.active
  /\ pc \in Journaling => native.id \in {plan.active, req.target}

AnswerInv ==
  /\ out.activeKnown => native.id = out.active
  /\ out.changed => out.activeKnown /\ out.active = req.target
  /\ pc \in Installing \/ Writing({"starting", "rolling_back"})
       \/ (pc \in Stopping /\ RollingBack) => ~out.activeKnown
  /\ out.changed \/ out.rollbackSucceeded =>
       pc \in {"clear", "done"} \/ Writing({"committed", "rolled_back"})

-----------------------------------------------------------------------------
(* The managed daemon, as long as nobody else starts one *)

NoStart == "start" \notin Events

DaemonInv ==
  /\ pc \in Journaling /\ ~HadDaemon => daemon = "stopped"
  /\ pc \in {"save", "activate", "install", "reread", "start"}
       \/ Writing({"activating", "starting"}) => daemon = "stopped"
  /\ pc = "snapshot" => (HadDaemon \/ daemon = "stopped")

NoDeath == "death" \notin Events

\* The daemon a proven switch or rollback leaves behind.
Served == /\ daemon = "running"
          /\ loaded.id = native.id
          /\ births > approved

ServedInv ==
  /\ approved <= births
  /\ HadDaemon /\ (pc \in {"verify"} \/ out.changed \/ out.rollbackSucceeded)
       => Served

-----------------------------------------------------------------------------
(* The newest credentials, while only the managed daemon rotates tokens *)

NoStandalone == "standalone" \notin Events

\* An account that was not given up is selected in its newest generation.
NativeIsNewest ==
  native.id \in Accounts =>
    native.id \in lost \/ native.gen = latest[native.id]

\* The document that is about to be installed is the one in the store.
PayloadInv ==
  pc = "install" =>
    payload = IF Handle = Nobody THEN LoggedOut
              ELSE [id |-> Handle, gen |-> saved[Handle]]

\* Until the rollback starts a daemon again, the outgoing document is in the
\* store as it is in the Codex home.
SparedInv ==
  /\ native.id = plan.active /\ plan.active \in Accounts
  /\ \/ pc \in {"activate", "install", "reread", "start"}
     \/ Writing({"activating", "starting", "rolling_back"})
     \/ (pc \in Stopping /\ RollingBack)
  => saved[plan.active] = native.gen /\ daemon = "stopped"

KeptInv == NewestKept /\ NativeIsNewest /\ PayloadInv /\ SparedInv

-----------------------------------------------------------------------------
(* The record of the run *)

\* Before the journal: kept by each call of Execute and rollback.
LEMMA CallOpeningInv ==
  ASSUME TypeOK, RecordInv, Call
  PROVE  OpeningInv'
<1> USE DEF RecordInv, OpeningInv, CheckpointInv, EffectsInv,
            JournalPhaseHonest, QuietErrorsAreClean, Opening, Planned,
            Stopping, Installing, Journaling, Writing, run, volatile, disk,
            world, history, trail, Goto, GotoWrite, Finish, RollingBack,
            HadDaemon, Journaled, Known, NoResult
<1>1. CASE RefuseUnfinished
  BY <1>1 DEF RefuseUnfinished
<1>2. CASE RefusePreview
  BY <1>2 DEF RefusePreview
<1>3. CASE FirstPreview
  BY <1>3 DEF FirstPreview, Observe, CanInspect, Blocked
<1>4. CASE PrepareTarget
  BY <1>4 DEF PrepareTarget, PrepareKeeps
<1>5. CASE PrepareTargetFails
  BY <1>5 DEF PrepareTargetFails, PrepareKeeps
<1>6. CASE SecondPreview
  BY <1>6 DEF SecondPreview, Observe, CanInspect, Blocked, Exhausted, View,
         Process
<1>7. CASE FreshPreview
  BY <1>7 DEF FreshPreview, Observe, CanInspect, Blocked, Exhausted, View,
         SameConditions
<1>8. CASE Snapshot
  BY <1>8 DEF Snapshot
<1>9. CASE SnapshotFails
  BY <1>9 DEF SnapshotFails
<1>10. CASE WriteCheckpoint
  BY <1>10 DEF WriteCheckpoint, AfterWrite, Checkpoint, Phases, TypeOK, RunOK
<1>11. CASE WriteCheckpointFails
  BY <1>11 DEF WriteCheckpointFails, Checkpoint, TypeOK, RunOK, Phases
<1>12. CASE StopInspect
  BY <1>12 DEF StopInspect, AfterStop, CanInspect
<1>13. CASE StopCommand
  BY <1>13 DEF StopCommand, DaemonBecomes
<1>14. CASE StopConfirm
  BY <1>14 DEF StopConfirm, AfterStop, CanInspect
<1>15. CASE StopFails
  BY <1>15 DEF StopFails, DaemonBecomes
<1>16. CASE SaveActive
  BY <1>16 DEF SaveActive, Enrolled
<1>17. CASE SaveActiveFails
  BY <1>17 DEF SaveActiveFails, Enrolled
<1>18. CASE Activate
  BY <1>18 DEF Activate, Recognised
<1>19. CASE ActivateFails
  BY <1>19 DEF ActivateFails, Recognised, FailOver, RollBack, TypeOK, RunOK,
         Results
<1>20. CASE Install
  BY <1>20 DEF Install, Replace
<1>21. CASE InstallFails
  BY <1>21 DEF InstallFails, Replace, FailOver, RollBack, TypeOK, RunOK,
         Results
<1>22. CASE Reread
  BY <1>22 DEF Reread
<1>23. CASE RereadFails
  BY <1>23 DEF RereadFails, FailOver, RollBack, TypeOK, RunOK, Results
<1>24. CASE Start
  BY <1>24 DEF Start, Spawn, CanStart
<1>25. CASE StartFails
  BY <1>25 DEF StartFails, Spawn, CanStart, FailOver, RollBack, TypeOK, RunOK,
         Results
<1>26. CASE Verify
  BY <1>26 DEF Verify, Proven, CanInspect, TypeOK, RunOK, Results
<1>27. CASE VerifyFails
  BY <1>27 DEF VerifyFails, FailOver, RollBack, TypeOK, RunOK, Results
<1>28. CASE ClearCheckpoint
  BY <1>28 DEF ClearCheckpoint, NoJournal
<1>29. CASE ClearCheckpointFails
  BY <1>29 DEF ClearCheckpointFails, NoJournal
<1>30. CASE SignIn
  BY <1>30 DEF SignIn, PrepareKeeps
<1> QED BY <1>1, <1>2, <1>3, <1>4, <1>5, <1>6, <1>7, <1>8, <1>9, <1>10, <1>11,
       <1>12, <1>13, <1>14, <1>15, <1>16, <1>17, <1>18, <1>19, <1>20, <1>21,
       <1>22, <1>23, <1>24, <1>25, <1>26, <1>27, <1>28, <1>29, <1>30
       DEF Call

\* Before the journal: kept whatever happens outside.
LEMMA OutsideOpeningInv ==
  ASSUME TypeOK, RecordInv, Outside
  PROVE  OpeningInv'
<1> USE DEF RecordInv, OpeningInv, CheckpointInv, EffectsInv,
            JournalPhaseHonest, QuietErrorsAreClean, Opening, Planned,
            Stopping, Installing, Journaling, Writing, run, volatile, disk,
            world, history, trail, Goto, GotoWrite, Finish, RollingBack,
            HadDaemon, Journaled, Known, NoResult
<1>1. CASE Interrupt
  BY <1>1 DEF Interrupt
<1>2. CASE Crash
  BY <1>2 DEF Crash
<1>3. CASE \E id \in Identities : OutsideLogin(id)
  BY <1>3 DEF OutsideLogin, Issue
<1>4. CASE DaemonRotates
  BY <1>4 DEF DaemonRotates, RotateNative, Issue
<1>5. CASE StandaloneRotates
  BY <1>5 DEF StandaloneRotates, RotateNative, Issue
<1>6. CASE UserStartsDaemon
  BY <1>6 DEF UserStartsDaemon, Spawn
<1>7. CASE DaemonDies
  BY <1>7 DEF DaemonDies, DaemonBecomes
<1>8. CASE DaemonSettles
  BY <1>8 DEF DaemonSettles, DaemonBecomes
<1>9. CASE TurnChanges
  BY <1>9 DEF TurnChanges
<1>10. CASE QuotaAges
  BY <1>10 DEF QuotaAges
<1> QED BY <1>1, <1>2, <1>3, <1>4, <1>5, <1>6, <1>7, <1>8, <1>9, <1>10 DEF
       Outside

\* Before the journal: kept by every step.
LEMMA NextOpeningInv ==
  ASSUME TypeOK, RecordInv, [Next]_vars
  PROVE  OpeningInv'
<1> USE DEF RecordInv, OpeningInv, CheckpointInv, EffectsInv,
            JournalPhaseHonest, QuietErrorsAreClean, Opening, Planned,
            Stopping, Installing, Journaling, Writing, run, volatile, disk,
            world, history, trail, Goto, GotoWrite, Finish, RollingBack,
            HadDaemon, Journaled, Known, NoResult
<1>1. CASE \E r \in Requests : Begin(r)
  <2>1. inherited' <=> Journaled
    BY <1>1, Zenon DEF Begin
  <2> QED BY <1>1, <2>1 DEF Begin
<1>2. CASE Approve
  BY <1>2 DEF Approve
<1>3. CASE Decline
  BY <1>3 DEF Decline, Prompts
<1>7. CASE Reauthenticate
  BY <1>7 DEF Reauthenticate
<1>4. CASE Call
  BY <1>4, CallOpeningInv
<1>5. CASE Outside
  BY <1>5, OutsideOpeningInv
<1>6. CASE UNCHANGED vars
  BY <1>6 DEF vars
<1> QED BY <1>1, <1>2, <1>3, <1>4, <1>5, <1>6, <1>7 DEF Next, Answer

\* The checkpoint on disk: kept by each call of Execute and rollback.
LEMMA CallCheckpointInv ==
  ASSUME TypeOK, RecordInv, Call
  PROVE  CheckpointInv'
<1> USE DEF RecordInv, OpeningInv, CheckpointInv, EffectsInv,
            JournalPhaseHonest, QuietErrorsAreClean, Opening, Planned,
            Stopping, Installing, Journaling, Writing, run, volatile, disk,
            world, history, trail, Goto, GotoWrite, Finish, RollingBack,
            HadDaemon, Journaled, Known, NoResult
<1>1. CASE RefuseUnfinished
  BY <1>1 DEF RefuseUnfinished
<1>2. CASE RefusePreview
  BY <1>2 DEF RefusePreview
<1>3. CASE FirstPreview
  BY <1>3 DEF FirstPreview, Observe, CanInspect, Blocked
<1>4. CASE PrepareTarget
  BY <1>4 DEF PrepareTarget, PrepareKeeps
<1>5. CASE PrepareTargetFails
  BY <1>5 DEF PrepareTargetFails, PrepareKeeps
<1>6. CASE SecondPreview
  BY <1>6 DEF SecondPreview, Observe, CanInspect, Blocked, Exhausted, View,
         Process
<1>7. CASE FreshPreview
  BY <1>7 DEF FreshPreview, Observe, CanInspect, Blocked, Exhausted, View,
         SameConditions
<1>8. CASE Snapshot
  BY <1>8 DEF Snapshot
<1>9. CASE SnapshotFails
  BY <1>9 DEF SnapshotFails
<1>10. CASE WriteCheckpoint
  <2>1. CASE phase = "prepared"
    BY <1>10, <2>1 DEF WriteCheckpoint, AfterWrite, Checkpoint, TypeOK, RunOK
  <2>2. CASE phase \in {"stopping", "starting"}
    BY <1>10, <2>2 DEF WriteCheckpoint, AfterWrite, Checkpoint
  <2>5. CASE phase = "activating"
    <3>1. pc' = "activate" /\ ~out'.rollbackAttempted
      BY <1>10, <2>5 DEF WriteCheckpoint, AfterWrite
    <3>2. journal' = Checkpoint(phase) /\ UNCHANGED <<plan, req>>
      BY <1>10, <2>5 DEF WriteCheckpoint, AfterWrite
    <3> QED BY <2>5, <3>1, <3>2 DEF Checkpoint
  <2>3. CASE phase = "rolling_back"
    BY <1>10, <2>3 DEF WriteCheckpoint, AfterWrite, Checkpoint, TypeOK, RunOK
  <2>4. CASE phase \in {"committed", "rolled_back"}
    BY <1>10, <2>4 DEF WriteCheckpoint, AfterWrite, Checkpoint, TypeOK, RunOK
  <2> QED BY <2>1, <2>2, <2>3, <2>4, <2>5 DEF TypeOK, RunOK, Phases
<1>11. CASE WriteCheckpointFails
  BY <1>11 DEF WriteCheckpointFails, Checkpoint, TypeOK, RunOK, Phases
<1>12. CASE StopInspect
  BY <1>12 DEF StopInspect, AfterStop, CanInspect
<1>13. CASE StopCommand
  BY <1>13 DEF StopCommand, DaemonBecomes
<1>14. CASE StopConfirm
  BY <1>14 DEF StopConfirm, AfterStop, CanInspect
<1>15. CASE StopFails
  BY <1>15 DEF StopFails, DaemonBecomes
<1>16. CASE SaveActive
  BY <1>16 DEF SaveActive, Enrolled
<1>17. CASE SaveActiveFails
  BY <1>17 DEF SaveActiveFails, Enrolled
<1>18. CASE Activate
  BY <1>18 DEF Activate, Recognised
<1>19. CASE ActivateFails
  BY <1>19 DEF ActivateFails, Recognised, FailOver, RollBack, TypeOK, RunOK,
         Results
<1>20. CASE Install
  BY <1>20 DEF Install, Replace
<1>21. CASE InstallFails
  BY <1>21 DEF InstallFails, Replace, FailOver, RollBack, TypeOK, RunOK,
         Results
<1>22. CASE Reread
  BY <1>22 DEF Reread
<1>23. CASE RereadFails
  BY <1>23 DEF RereadFails, FailOver, RollBack, TypeOK, RunOK, Results
<1>24. CASE Start
  BY <1>24 DEF Start, Spawn, CanStart
<1>25. CASE StartFails
  BY <1>25 DEF StartFails, Spawn, CanStart, FailOver, RollBack, TypeOK, RunOK,
         Results
<1>26. CASE Verify
  <2>1. CASE RollingBack
    <3>1. out'.rollbackAttempted /\ phase' = "rolled_back" /\ settled' = "from"
      BY <1>26, <2>1 DEF Verify, TypeOK, RunOK, Results
    <3> QED BY <1>26, <2>1, <3>1 DEF Verify
  <2>2. CASE ~RollingBack
    <3>1. ~out'.rollbackAttempted /\ phase' = "committed" /\ settled' = "target"
      BY <1>26, <2>2 DEF Verify, TypeOK, RunOK, Results
    <3> QED BY <1>26, <2>2, <3>1 DEF Verify
  <2> QED BY <2>1, <2>2
<1>27. CASE VerifyFails
  BY <1>27 DEF VerifyFails, FailOver, RollBack, TypeOK, RunOK, Results
<1>28. CASE ClearCheckpoint
  BY <1>28 DEF ClearCheckpoint, NoJournal
<1>29. CASE ClearCheckpointFails
  BY <1>29 DEF ClearCheckpointFails, NoJournal
<1>30. CASE SignIn
  BY <1>30 DEF SignIn, PrepareKeeps
<1> QED BY <1>1, <1>2, <1>3, <1>4, <1>5, <1>6, <1>7, <1>8, <1>9, <1>10, <1>11,
       <1>12, <1>13, <1>14, <1>15, <1>16, <1>17, <1>18, <1>19, <1>20, <1>21,
       <1>22, <1>23, <1>24, <1>25, <1>26, <1>27, <1>28, <1>29, <1>30
       DEF Call

\* The checkpoint on disk: kept whatever happens outside.
LEMMA OutsideCheckpointInv ==
  ASSUME TypeOK, RecordInv, Outside
  PROVE  CheckpointInv'
<1> USE DEF RecordInv, OpeningInv, CheckpointInv, EffectsInv,
            JournalPhaseHonest, QuietErrorsAreClean, Opening, Planned,
            Stopping, Installing, Journaling, Writing, run, volatile, disk,
            world, history, trail, Goto, GotoWrite, Finish, RollingBack,
            HadDaemon, Journaled, Known, NoResult
<1>1. CASE Interrupt
  BY <1>1 DEF Interrupt
<1>2. CASE Crash
  BY <1>2 DEF Crash
<1>3. CASE \E id \in Identities : OutsideLogin(id)
  BY <1>3 DEF OutsideLogin, Issue
<1>4. CASE DaemonRotates
  BY <1>4 DEF DaemonRotates, RotateNative, Issue
<1>5. CASE StandaloneRotates
  BY <1>5 DEF StandaloneRotates, RotateNative, Issue
<1>6. CASE UserStartsDaemon
  BY <1>6 DEF UserStartsDaemon, Spawn
<1>7. CASE DaemonDies
  BY <1>7 DEF DaemonDies, DaemonBecomes
<1>8. CASE DaemonSettles
  BY <1>8 DEF DaemonSettles, DaemonBecomes
<1>9. CASE TurnChanges
  BY <1>9 DEF TurnChanges
<1>10. CASE QuotaAges
  BY <1>10 DEF QuotaAges
<1> QED BY <1>1, <1>2, <1>3, <1>4, <1>5, <1>6, <1>7, <1>8, <1>9, <1>10 DEF
       Outside

\* The checkpoint on disk: kept by every step.
LEMMA NextCheckpointInv ==
  ASSUME TypeOK, RecordInv, [Next]_vars
  PROVE  CheckpointInv'
<1> USE DEF RecordInv, OpeningInv, CheckpointInv, EffectsInv,
            JournalPhaseHonest, QuietErrorsAreClean, Opening, Planned,
            Stopping, Installing, Journaling, Writing, run, volatile, disk,
            world, history, trail, Goto, GotoWrite, Finish, RollingBack,
            HadDaemon, Journaled, Known, NoResult
<1>1. CASE \E r \in Requests : Begin(r)
  BY <1>1 DEF Begin
<1>2. CASE Approve
  BY <1>2 DEF Approve
<1>3. CASE Decline
  BY <1>3 DEF Decline, Prompts
<1>7. CASE Reauthenticate
  BY <1>7 DEF Reauthenticate
<1>4. CASE Call
  BY <1>4, CallCheckpointInv
<1>5. CASE Outside
  BY <1>5, OutsideCheckpointInv
<1>6. CASE UNCHANGED vars
  BY <1>6 DEF vars
<1> QED BY <1>1, <1>2, <1>3, <1>4, <1>5, <1>6, <1>7 DEF Next, Answer

\* Effects and proofs: kept by each call of Execute and rollback.
LEMMA CallEffectsInv ==
  ASSUME TypeOK, RecordInv, Call
  PROVE  EffectsInv'
<1> USE DEF RecordInv, OpeningInv, CheckpointInv, EffectsInv,
            JournalPhaseHonest, QuietErrorsAreClean, Opening, Planned,
            Stopping, Installing, Journaling, Writing, run, volatile, disk,
            world, history, trail, Goto, GotoWrite, Finish, RollingBack,
            HadDaemon, Journaled, Known, NoResult
<1>1. CASE RefuseUnfinished
  BY <1>1 DEF RefuseUnfinished
<1>2. CASE RefusePreview
  BY <1>2 DEF RefusePreview
<1>3. CASE FirstPreview
  BY <1>3 DEF FirstPreview, Observe, CanInspect, Blocked
<1>4. CASE PrepareTarget
  BY <1>4 DEF PrepareTarget, PrepareKeeps
<1>5. CASE PrepareTargetFails
  BY <1>5 DEF PrepareTargetFails, PrepareKeeps
<1>6. CASE SecondPreview
  BY <1>6 DEF SecondPreview, Observe, CanInspect, Blocked, Exhausted, View,
         Process
<1>7. CASE FreshPreview
  BY <1>7 DEF FreshPreview, Observe, CanInspect, Blocked, Exhausted, View,
         SameConditions
<1>8. CASE Snapshot
  BY <1>8 DEF Snapshot
<1>9. CASE SnapshotFails
  BY <1>9 DEF SnapshotFails
<1>10. CASE WriteCheckpoint
  BY <1>10 DEF WriteCheckpoint, AfterWrite, Checkpoint, Phases, TypeOK, RunOK
<1>11. CASE WriteCheckpointFails
  BY <1>11 DEF WriteCheckpointFails, Checkpoint, TypeOK, RunOK, Phases
<1>12. CASE StopInspect
  BY <1>12 DEF StopInspect, AfterStop, CanInspect
<1>13. CASE StopCommand
  BY <1>13 DEF StopCommand, DaemonBecomes
<1>14. CASE StopConfirm
  BY <1>14 DEF StopConfirm, AfterStop, CanInspect
<1>15. CASE StopFails
  BY <1>15 DEF StopFails, DaemonBecomes
<1>16. CASE SaveActive
  BY <1>16 DEF SaveActive, Enrolled
<1>17. CASE SaveActiveFails
  BY <1>17 DEF SaveActiveFails, Enrolled
<1>18. CASE Activate
  <2>1. RollingBack \/ Handle # Nobody
    BY NobodyAssumption DEF TypeOK, RunOK, Request, Handle
  <2> QED BY <1>18, <2>1 DEF Activate
<1>19. CASE ActivateFails
  BY <1>19 DEF ActivateFails, Recognised, FailOver, RollBack, TypeOK, RunOK,
         Results
<1>20. CASE Install
  BY <1>20 DEF Install, Replace
<1>21. CASE InstallFails
  BY <1>21 DEF InstallFails, Replace, FailOver, RollBack, TypeOK, RunOK,
         Results
<1>22. CASE Reread
  BY <1>22 DEF Reread
<1>23. CASE RereadFails
  BY <1>23 DEF RereadFails, FailOver, RollBack, TypeOK, RunOK, Results
<1>24. CASE Start
  BY <1>24 DEF Start, Spawn, CanStart
<1>25. CASE StartFails
  BY <1>25 DEF StartFails, Spawn, CanStart, FailOver, RollBack, TypeOK, RunOK,
         Results
<1>26. CASE Verify
  BY <1>26 DEF Verify, Proven, CanInspect, TypeOK, RunOK, Results
<1>27. CASE VerifyFails
  BY <1>27 DEF VerifyFails, FailOver, RollBack, TypeOK, RunOK, Results
<1>28. CASE ClearCheckpoint
  BY <1>28 DEF ClearCheckpoint, NoJournal
<1>29. CASE ClearCheckpointFails
  BY <1>29 DEF ClearCheckpointFails, NoJournal
<1>30. CASE SignIn
  BY <1>30 DEF SignIn, PrepareKeeps
<1> QED BY <1>1, <1>2, <1>3, <1>4, <1>5, <1>6, <1>7, <1>8, <1>9, <1>10, <1>11,
       <1>12, <1>13, <1>14, <1>15, <1>16, <1>17, <1>18, <1>19, <1>20, <1>21,
       <1>22, <1>23, <1>24, <1>25, <1>26, <1>27, <1>28, <1>29, <1>30
       DEF Call

\* Effects and proofs: kept whatever happens outside.
LEMMA OutsideEffectsInv ==
  ASSUME TypeOK, RecordInv, Outside
  PROVE  EffectsInv'
<1> USE DEF RecordInv, OpeningInv, CheckpointInv, EffectsInv,
            JournalPhaseHonest, QuietErrorsAreClean, Opening, Planned,
            Stopping, Installing, Journaling, Writing, run, volatile, disk,
            world, history, trail, Goto, GotoWrite, Finish, RollingBack,
            HadDaemon, Journaled, Known, NoResult
<1>1. CASE Interrupt
  BY <1>1 DEF Interrupt
<1>2. CASE Crash
  BY <1>2 DEF Crash
<1>3. CASE \E id \in Identities : OutsideLogin(id)
  BY <1>3 DEF OutsideLogin, Issue
<1>4. CASE DaemonRotates
  BY <1>4 DEF DaemonRotates, RotateNative, Issue
<1>5. CASE StandaloneRotates
  BY <1>5 DEF StandaloneRotates, RotateNative, Issue
<1>6. CASE UserStartsDaemon
  BY <1>6 DEF UserStartsDaemon, Spawn
<1>7. CASE DaemonDies
  BY <1>7 DEF DaemonDies, DaemonBecomes
<1>8. CASE DaemonSettles
  BY <1>8 DEF DaemonSettles, DaemonBecomes
<1>9. CASE TurnChanges
  BY <1>9 DEF TurnChanges
<1>10. CASE QuotaAges
  BY <1>10 DEF QuotaAges
<1> QED BY <1>1, <1>2, <1>3, <1>4, <1>5, <1>6, <1>7, <1>8, <1>9, <1>10 DEF
       Outside

\* Effects and proofs: kept by every step.
LEMMA NextEffectsInv ==
  ASSUME TypeOK, RecordInv, [Next]_vars
  PROVE  EffectsInv'
<1> USE DEF RecordInv, OpeningInv, CheckpointInv, EffectsInv,
            JournalPhaseHonest, QuietErrorsAreClean, Opening, Planned,
            Stopping, Installing, Journaling, Writing, run, volatile, disk,
            world, history, trail, Goto, GotoWrite, Finish, RollingBack,
            HadDaemon, Journaled, Known, NoResult
<1>1. CASE \E r \in Requests : Begin(r)
  BY <1>1 DEF Begin
<1>2. CASE Approve
  BY <1>2 DEF Approve
<1>3. CASE Decline
  BY <1>3 DEF Decline, Prompts
<1>7. CASE Reauthenticate
  BY <1>7 DEF Reauthenticate
<1>4. CASE Call
  BY <1>4, CallEffectsInv
<1>5. CASE Outside
  BY <1>5, OutsideEffectsInv
<1>6. CASE UNCHANGED vars
  BY <1>6 DEF vars
<1> QED BY <1>1, <1>2, <1>3, <1>4, <1>5, <1>6, <1>7 DEF Next, Answer

\* What the journal tells: kept by each call of Execute and rollback.
LEMMA CallJournalPhaseHonest ==
  ASSUME TypeOK, RecordInv, Call
  PROVE  JournalPhaseHonest'
<1> USE DEF RecordInv, OpeningInv, CheckpointInv, EffectsInv,
            JournalPhaseHonest, QuietErrorsAreClean, Opening, Planned,
            Stopping, Installing, Journaling, Writing, run, volatile, disk,
            world, history, trail, Goto, GotoWrite, Finish, RollingBack,
            HadDaemon, Journaled, Known, NoResult
<1>1. CASE RefuseUnfinished
  BY <1>1 DEF RefuseUnfinished
<1>2. CASE RefusePreview
  BY <1>2 DEF RefusePreview
<1>3. CASE FirstPreview
  BY <1>3 DEF FirstPreview, Observe, CanInspect, Blocked
<1>4. CASE PrepareTarget
  BY <1>4 DEF PrepareTarget, PrepareKeeps
<1>5. CASE PrepareTargetFails
  BY <1>5 DEF PrepareTargetFails, PrepareKeeps
<1>6. CASE SecondPreview
  BY <1>6 DEF SecondPreview, Observe, CanInspect, Blocked, Exhausted, View,
         Process
<1>7. CASE FreshPreview
  BY <1>7 DEF FreshPreview, Observe, CanInspect, Blocked, Exhausted, View,
         SameConditions
<1>8. CASE Snapshot
  BY <1>8 DEF Snapshot
<1>9. CASE SnapshotFails
  BY <1>9 DEF SnapshotFails
<1>10. CASE WriteCheckpoint
  BY <1>10 DEF WriteCheckpoint, AfterWrite, Checkpoint, Phases, TypeOK, RunOK
<1>11. CASE WriteCheckpointFails
  BY <1>11 DEF WriteCheckpointFails, Checkpoint, TypeOK, RunOK, Phases
<1>12. CASE StopInspect
  BY <1>12 DEF StopInspect, AfterStop, CanInspect
<1>13. CASE StopCommand
  BY <1>13 DEF StopCommand, DaemonBecomes
<1>14. CASE StopConfirm
  BY <1>14 DEF StopConfirm, AfterStop, CanInspect
<1>15. CASE StopFails
  BY <1>15 DEF StopFails, DaemonBecomes
<1>16. CASE SaveActive
  BY <1>16 DEF SaveActive, Enrolled
<1>17. CASE SaveActiveFails
  BY <1>17 DEF SaveActiveFails, Enrolled
<1>18. CASE Activate
  BY <1>18 DEF Activate, Recognised
<1>19. CASE ActivateFails
  BY <1>19 DEF ActivateFails, Recognised, FailOver, RollBack, TypeOK, RunOK,
         Results
<1>20. CASE Install
  BY <1>20 DEF Install, Replace
<1>21. CASE InstallFails
  BY <1>21 DEF InstallFails, Replace, FailOver, RollBack, TypeOK, RunOK,
         Results
<1>22. CASE Reread
  BY <1>22 DEF Reread
<1>23. CASE RereadFails
  BY <1>23 DEF RereadFails, FailOver, RollBack, TypeOK, RunOK, Results
<1>24. CASE Start
  BY <1>24 DEF Start, Spawn, CanStart
<1>25. CASE StartFails
  BY <1>25 DEF StartFails, Spawn, CanStart, FailOver, RollBack, TypeOK, RunOK,
         Results
<1>26. CASE Verify
  BY <1>26 DEF Verify, Proven, CanInspect, TypeOK, RunOK, Results
<1>27. CASE VerifyFails
  BY <1>27 DEF VerifyFails, FailOver, RollBack, TypeOK, RunOK, Results
<1>28. CASE ClearCheckpoint
  BY <1>28 DEF ClearCheckpoint, NoJournal
<1>29. CASE ClearCheckpointFails
  BY <1>29 DEF ClearCheckpointFails, NoJournal
<1>30. CASE SignIn
  BY <1>30 DEF SignIn, PrepareKeeps
<1> QED BY <1>1, <1>2, <1>3, <1>4, <1>5, <1>6, <1>7, <1>8, <1>9, <1>10, <1>11,
       <1>12, <1>13, <1>14, <1>15, <1>16, <1>17, <1>18, <1>19, <1>20, <1>21,
       <1>22, <1>23, <1>24, <1>25, <1>26, <1>27, <1>28, <1>29, <1>30
       DEF Call

\* What the journal tells: kept whatever happens outside.
LEMMA OutsideJournalPhaseHonest ==
  ASSUME TypeOK, RecordInv, Outside
  PROVE  JournalPhaseHonest'
<1> USE DEF RecordInv, OpeningInv, CheckpointInv, EffectsInv,
            JournalPhaseHonest, QuietErrorsAreClean, Opening, Planned,
            Stopping, Installing, Journaling, Writing, run, volatile, disk,
            world, history, trail, Goto, GotoWrite, Finish, RollingBack,
            HadDaemon, Journaled, Known, NoResult
<1>1. CASE Interrupt
  BY <1>1 DEF Interrupt
<1>2. CASE Crash
  BY <1>2 DEF Crash
<1>3. CASE \E id \in Identities : OutsideLogin(id)
  BY <1>3 DEF OutsideLogin, Issue
<1>4. CASE DaemonRotates
  BY <1>4 DEF DaemonRotates, RotateNative, Issue
<1>5. CASE StandaloneRotates
  BY <1>5 DEF StandaloneRotates, RotateNative, Issue
<1>6. CASE UserStartsDaemon
  BY <1>6 DEF UserStartsDaemon, Spawn
<1>7. CASE DaemonDies
  BY <1>7 DEF DaemonDies, DaemonBecomes
<1>8. CASE DaemonSettles
  BY <1>8 DEF DaemonSettles, DaemonBecomes
<1>9. CASE TurnChanges
  BY <1>9 DEF TurnChanges
<1>10. CASE QuotaAges
  BY <1>10 DEF QuotaAges
<1> QED BY <1>1, <1>2, <1>3, <1>4, <1>5, <1>6, <1>7, <1>8, <1>9, <1>10 DEF
       Outside

\* What the journal tells: kept by every step.
LEMMA NextJournalPhaseHonest ==
  ASSUME TypeOK, RecordInv, [Next]_vars
  PROVE  JournalPhaseHonest'
<1> USE DEF RecordInv, OpeningInv, CheckpointInv, EffectsInv,
            JournalPhaseHonest, QuietErrorsAreClean, Opening, Planned,
            Stopping, Installing, Journaling, Writing, run, volatile, disk,
            world, history, trail, Goto, GotoWrite, Finish, RollingBack,
            HadDaemon, Journaled, Known, NoResult
<1>1. CASE \E r \in Requests : Begin(r)
  BY <1>1 DEF Begin
<1>2. CASE Approve
  BY <1>2 DEF Approve
<1>3. CASE Decline
  BY <1>3 DEF Decline, Prompts
<1>7. CASE Reauthenticate
  BY <1>7 DEF Reauthenticate
<1>4. CASE Call
  BY <1>4, CallJournalPhaseHonest
<1>5. CASE Outside
  BY <1>5, OutsideJournalPhaseHonest
<1>6. CASE UNCHANGED vars
  BY <1>6 DEF vars
<1> QED BY <1>1, <1>2, <1>3, <1>4, <1>5, <1>6, <1>7 DEF Next, Answer

\* Quiet errors: kept by each call of Execute and rollback.
LEMMA CallQuietErrorsAreClean ==
  ASSUME TypeOK, RecordInv, Call
  PROVE  QuietErrorsAreClean'
<1> USE DEF RecordInv, OpeningInv, CheckpointInv, EffectsInv,
            JournalPhaseHonest, QuietErrorsAreClean, Opening, Planned,
            Stopping, Installing, Journaling, Writing, run, volatile, disk,
            world, history, trail, Goto, GotoWrite, Finish, RollingBack,
            HadDaemon, Journaled, Known, NoResult
<1>1. CASE RefuseUnfinished
  BY <1>1 DEF RefuseUnfinished
<1>2. CASE RefusePreview
  BY <1>2 DEF RefusePreview
<1>3. CASE FirstPreview
  BY <1>3 DEF FirstPreview, Observe, CanInspect, Blocked
<1>4. CASE PrepareTarget
  BY <1>4 DEF PrepareTarget, PrepareKeeps
<1>5. CASE PrepareTargetFails
  BY <1>5 DEF PrepareTargetFails, PrepareKeeps
<1>6. CASE SecondPreview
  BY <1>6 DEF SecondPreview, Observe, CanInspect, Blocked, Exhausted, View,
         Process
<1>7. CASE FreshPreview
  BY <1>7 DEF FreshPreview, Observe, CanInspect, Blocked, Exhausted, View,
         SameConditions
<1>8. CASE Snapshot
  BY <1>8 DEF Snapshot
<1>9. CASE SnapshotFails
  BY <1>9 DEF SnapshotFails
<1>10. CASE WriteCheckpoint
  BY <1>10 DEF WriteCheckpoint, AfterWrite, Checkpoint, Phases, TypeOK, RunOK
<1>11. CASE WriteCheckpointFails
  BY <1>11 DEF WriteCheckpointFails, Checkpoint, TypeOK, RunOK, Phases
<1>12. CASE StopInspect
  BY <1>12 DEF StopInspect, AfterStop, CanInspect
<1>13. CASE StopCommand
  BY <1>13 DEF StopCommand, DaemonBecomes
<1>14. CASE StopConfirm
  BY <1>14 DEF StopConfirm, AfterStop, CanInspect
<1>15. CASE StopFails
  BY <1>15 DEF StopFails, DaemonBecomes
<1>16. CASE SaveActive
  BY <1>16 DEF SaveActive, Enrolled
<1>17. CASE SaveActiveFails
  BY <1>17 DEF SaveActiveFails, Enrolled
<1>18. CASE Activate
  BY <1>18 DEF Activate, Recognised
<1>19. CASE ActivateFails
  BY <1>19 DEF ActivateFails, Recognised, FailOver, RollBack, TypeOK, RunOK,
         Results
<1>20. CASE Install
  BY <1>20 DEF Install, Replace
<1>21. CASE InstallFails
  BY <1>21 DEF InstallFails, Replace, FailOver, RollBack, TypeOK, RunOK,
         Results
<1>22. CASE Reread
  BY <1>22 DEF Reread
<1>23. CASE RereadFails
  BY <1>23 DEF RereadFails, FailOver, RollBack, TypeOK, RunOK, Results
<1>24. CASE Start
  BY <1>24 DEF Start, Spawn, CanStart
<1>25. CASE StartFails
  BY <1>25 DEF StartFails, Spawn, CanStart, FailOver, RollBack, TypeOK, RunOK,
         Results
<1>26. CASE Verify
  BY <1>26 DEF Verify, Proven, CanInspect, TypeOK, RunOK, Results
<1>27. CASE VerifyFails
  BY <1>27 DEF VerifyFails, FailOver, RollBack, TypeOK, RunOK, Results
<1>28. CASE ClearCheckpoint
  BY <1>28 DEF ClearCheckpoint, NoJournal
<1>29. CASE ClearCheckpointFails
  BY <1>29 DEF ClearCheckpointFails, NoJournal
<1>30. CASE SignIn
  BY <1>30 DEF SignIn, PrepareKeeps
<1> QED BY <1>1, <1>2, <1>3, <1>4, <1>5, <1>6, <1>7, <1>8, <1>9, <1>10, <1>11,
       <1>12, <1>13, <1>14, <1>15, <1>16, <1>17, <1>18, <1>19, <1>20, <1>21,
       <1>22, <1>23, <1>24, <1>25, <1>26, <1>27, <1>28, <1>29, <1>30
       DEF Call

\* Quiet errors: kept whatever happens outside.
LEMMA OutsideQuietErrorsAreClean ==
  ASSUME TypeOK, RecordInv, Outside
  PROVE  QuietErrorsAreClean'
<1> USE DEF RecordInv, OpeningInv, CheckpointInv, EffectsInv,
            JournalPhaseHonest, QuietErrorsAreClean, Opening, Planned,
            Stopping, Installing, Journaling, Writing, run, volatile, disk,
            world, history, trail, Goto, GotoWrite, Finish, RollingBack,
            HadDaemon, Journaled, Known, NoResult
<1>1. CASE Interrupt
  BY <1>1 DEF Interrupt
<1>2. CASE Crash
  BY <1>2 DEF Crash
<1>3. CASE \E id \in Identities : OutsideLogin(id)
  BY <1>3 DEF OutsideLogin, Issue
<1>4. CASE DaemonRotates
  BY <1>4 DEF DaemonRotates, RotateNative, Issue
<1>5. CASE StandaloneRotates
  BY <1>5 DEF StandaloneRotates, RotateNative, Issue
<1>6. CASE UserStartsDaemon
  BY <1>6 DEF UserStartsDaemon, Spawn
<1>7. CASE DaemonDies
  BY <1>7 DEF DaemonDies, DaemonBecomes
<1>8. CASE DaemonSettles
  BY <1>8 DEF DaemonSettles, DaemonBecomes
<1>9. CASE TurnChanges
  BY <1>9 DEF TurnChanges
<1>10. CASE QuotaAges
  BY <1>10 DEF QuotaAges
<1> QED BY <1>1, <1>2, <1>3, <1>4, <1>5, <1>6, <1>7, <1>8, <1>9, <1>10 DEF
       Outside

\* Quiet errors: kept by every step.
LEMMA NextQuietErrorsAreClean ==
  ASSUME TypeOK, RecordInv, [Next]_vars
  PROVE  QuietErrorsAreClean'
<1> USE DEF RecordInv, OpeningInv, CheckpointInv, EffectsInv,
            JournalPhaseHonest, QuietErrorsAreClean, Opening, Planned,
            Stopping, Installing, Journaling, Writing, run, volatile, disk,
            world, history, trail, Goto, GotoWrite, Finish, RollingBack,
            HadDaemon, Journaled, Known, NoResult
<1>1. CASE \E r \in Requests : Begin(r)
  BY <1>1 DEF Begin
<1>2. CASE Approve
  BY <1>2 DEF Approve
<1>3. CASE Decline
  BY <1>3 DEF Decline, Prompts
<1>7. CASE Reauthenticate
  BY <1>7 DEF Reauthenticate
<1>4. CASE Call
  BY <1>4, CallQuietErrorsAreClean
<1>5. CASE Outside
  BY <1>5, OutsideQuietErrorsAreClean
<1>6. CASE UNCHANGED vars
  BY <1>6 DEF vars
<1> QED BY <1>1, <1>2, <1>3, <1>4, <1>5, <1>6, <1>7 DEF Next, Answer

\* The record invariant is kept by every step.
LEMMA NextRecordInv ==
  ASSUME TypeOK, RecordInv, [Next]_vars
  PROVE  RecordInv'
BY NextOpeningInv, NextCheckpointInv, NextEffectsInv, NextJournalPhaseHonest,
   NextQuietErrorsAreClean DEF RecordInv

\* Consent: kept by each call of Execute and rollback.
LEMMA CallConsentInv ==
  ASSUME TypeOK, RecordInv, ConsentInv, Call
  PROVE  ConsentInv'
<1> USE DEF RecordInv, OpeningInv, ConsentInv, Opening, Planned,
            Stopping, Installing, Journaling, Writing, run, volatile, disk,
            world, history, trail, Goto, GotoWrite, Finish, RollingBack,
            HadDaemon, Journaled, Known, NoResult
<1>1. CASE RefuseUnfinished
  BY <1>1 DEF RefuseUnfinished
<1>2. CASE RefusePreview
  BY <1>2 DEF RefusePreview
<1>3. CASE FirstPreview
  BY <1>3 DEF FirstPreview, Observe, CanInspect, Blocked
<1>4. CASE PrepareTarget
  BY <1>4 DEF PrepareTarget, PrepareKeeps
<1>5. CASE PrepareTargetFails
  BY <1>5 DEF PrepareTargetFails, PrepareKeeps
<1>6. CASE SecondPreview
  BY <1>6 DEF SecondPreview, Observe, CanInspect, Blocked, Exhausted, View,
         Process
<1>7. CASE FreshPreview
  BY <1>7 DEF FreshPreview, Observe, CanInspect, Blocked, Exhausted, View,
         SameConditions
<1>8. CASE Snapshot
  BY <1>8 DEF Snapshot
<1>9. CASE SnapshotFails
  BY <1>9 DEF SnapshotFails
<1>10. CASE WriteCheckpoint
  BY <1>10 DEF WriteCheckpoint, AfterWrite, Checkpoint, Phases, TypeOK, RunOK
<1>11. CASE WriteCheckpointFails
  BY <1>11 DEF WriteCheckpointFails, Checkpoint, TypeOK, RunOK, Phases
<1>12. CASE StopInspect
  BY <1>12 DEF StopInspect, AfterStop, CanInspect
<1>13. CASE StopCommand
  BY <1>13 DEF StopCommand, DaemonBecomes
<1>14. CASE StopConfirm
  BY <1>14 DEF StopConfirm, AfterStop, CanInspect
<1>15. CASE StopFails
  BY <1>15 DEF StopFails, DaemonBecomes
<1>16. CASE SaveActive
  BY <1>16 DEF SaveActive, Enrolled
<1>17. CASE SaveActiveFails
  BY <1>17 DEF SaveActiveFails, Enrolled
<1>18. CASE Activate
  BY <1>18 DEF Activate, Recognised
<1>19. CASE ActivateFails
  BY <1>19 DEF ActivateFails, Recognised, FailOver, RollBack, TypeOK, RunOK,
         Results
<1>20. CASE Install
  BY <1>20 DEF Install, Replace
<1>21. CASE InstallFails
  BY <1>21 DEF InstallFails, Replace, FailOver, RollBack, TypeOK, RunOK,
         Results
<1>22. CASE Reread
  BY <1>22 DEF Reread
<1>23. CASE RereadFails
  BY <1>23 DEF RereadFails, FailOver, RollBack, TypeOK, RunOK, Results
<1>24. CASE Start
  BY <1>24 DEF Start, Spawn, CanStart
<1>25. CASE StartFails
  BY <1>25 DEF StartFails, Spawn, CanStart, FailOver, RollBack, TypeOK, RunOK,
         Results
<1>26. CASE Verify
  BY <1>26 DEF Verify, Proven, CanInspect, TypeOK, RunOK, Results
<1>27. CASE VerifyFails
  BY <1>27 DEF VerifyFails, FailOver, RollBack, TypeOK, RunOK, Results
<1>28. CASE ClearCheckpoint
  BY <1>28 DEF ClearCheckpoint, NoJournal
<1>29. CASE ClearCheckpointFails
  BY <1>29 DEF ClearCheckpointFails, NoJournal
<1>30. CASE SignIn
  BY <1>30 DEF SignIn, PrepareKeeps
<1> QED BY <1>1, <1>2, <1>3, <1>4, <1>5, <1>6, <1>7, <1>8, <1>9, <1>10, <1>11,
       <1>12, <1>13, <1>14, <1>15, <1>16, <1>17, <1>18, <1>19, <1>20, <1>21,
       <1>22, <1>23, <1>24, <1>25, <1>26, <1>27, <1>28, <1>29, <1>30
       DEF Call

\* Consent: kept whatever happens outside.
LEMMA OutsideConsentInv ==
  ASSUME TypeOK, RecordInv, ConsentInv, Outside
  PROVE  ConsentInv'
<1> USE DEF RecordInv, OpeningInv, ConsentInv, Opening, Planned,
            Stopping, Installing, Journaling, Writing, run, volatile, disk,
            world, history, trail, Goto, GotoWrite, Finish, RollingBack,
            HadDaemon, Journaled, Known, NoResult
<1>1. CASE Interrupt
  BY <1>1 DEF Interrupt
<1>2. CASE Crash
  BY <1>2 DEF Crash
<1>3. CASE \E id \in Identities : OutsideLogin(id)
  BY <1>3 DEF OutsideLogin, Issue
<1>4. CASE DaemonRotates
  BY <1>4 DEF DaemonRotates, RotateNative, Issue
<1>5. CASE StandaloneRotates
  BY <1>5 DEF StandaloneRotates, RotateNative, Issue
<1>6. CASE UserStartsDaemon
  BY <1>6 DEF UserStartsDaemon, Spawn
<1>7. CASE DaemonDies
  BY <1>7 DEF DaemonDies, DaemonBecomes
<1>8. CASE DaemonSettles
  BY <1>8 DEF DaemonSettles, DaemonBecomes
<1>9. CASE TurnChanges
  BY <1>9 DEF TurnChanges
<1>10. CASE QuotaAges
  BY <1>10 DEF QuotaAges
<1> QED BY <1>1, <1>2, <1>3, <1>4, <1>5, <1>6, <1>7, <1>8, <1>9, <1>10 DEF
       Outside

\* Consent: kept by every step.
LEMMA NextConsentInv ==
  ASSUME TypeOK, RecordInv, ConsentInv, [Next]_vars
  PROVE  ConsentInv'
<1> USE DEF RecordInv, OpeningInv, ConsentInv, Opening, Planned,
            Stopping, Installing, Journaling, Writing, run, volatile, disk,
            world, history, trail, Goto, GotoWrite, Finish, RollingBack,
            HadDaemon, Journaled, Known, NoResult
<1>1. CASE \E r \in Requests : Begin(r)
  BY <1>1 DEF Begin
<1>2. CASE Approve
  BY <1>2 DEF Approve
<1>3. CASE Decline
  BY <1>3 DEF Decline, Prompts
<1>7. CASE Reauthenticate
  BY <1>7 DEF Reauthenticate
<1>4. CASE Call
  BY <1>4, CallConsentInv
<1>5. CASE Outside
  BY <1>5, OutsideConsentInv
<1>6. CASE UNCHANGED vars
  BY <1>6 DEF vars
<1> QED BY <1>1, <1>2, <1>3, <1>4, <1>5, <1>6, <1>7 DEF Next, Answer

\* The recognised accounts: kept by each call of Execute and rollback.
LEMMA CallAllowedInv ==
  ASSUME TypeOK, RecordInv, AllowedInv, Call
  PROVE  AllowedInv'
<1> USE DEF RecordInv, OpeningInv, CheckpointInv, AllowedInv, Opening,
            Planned, Stopping, Installing, Journaling, Writing, run,
            volatile, disk, world, history, trail, Goto, GotoWrite, Finish,
            RollingBack, HadDaemon, Journaled, Known, NoResult, NewBackend,
            Handle
<1>1. CASE RefuseUnfinished
  BY <1>1 DEF RefuseUnfinished
<1>2. CASE RefusePreview
  BY <1>2 DEF RefusePreview
<1>3. CASE FirstPreview
  BY <1>3 DEF FirstPreview, Observe, CanInspect, Blocked
<1>4. CASE PrepareTarget
  BY <1>4 DEF PrepareTarget, PrepareKeeps
<1>5. CASE PrepareTargetFails
  BY <1>5 DEF PrepareTargetFails, PrepareKeeps
<1>6. CASE SecondPreview
  BY <1>6 DEF SecondPreview, Observe, CanInspect, Blocked, Exhausted, View,
         Process
<1>7. CASE FreshPreview
  BY <1>7 DEF FreshPreview, Observe, CanInspect, Blocked, Exhausted, View,
         SameConditions
<1>8. CASE Snapshot
  BY <1>8 DEF Snapshot
<1>9. CASE SnapshotFails
  BY <1>9 DEF SnapshotFails
<1>10. CASE WriteCheckpoint
  BY <1>10 DEF WriteCheckpoint, AfterWrite, Checkpoint, Phases, TypeOK, RunOK
<1>11. CASE WriteCheckpointFails
  BY <1>11 DEF WriteCheckpointFails, Checkpoint, TypeOK, RunOK, Phases
<1>12. CASE StopInspect
  BY <1>12 DEF StopInspect, AfterStop, CanInspect, TypeOK, BackendOK, Backends
<1>13. CASE StopCommand
  BY <1>13 DEF StopCommand, DaemonBecomes
<1>14. CASE StopConfirm
  BY <1>14 DEF StopConfirm, AfterStop, CanInspect
<1>15. CASE StopFails
  BY <1>15 DEF StopFails, DaemonBecomes
<1>16. CASE SaveActive
  BY <1>16 DEF SaveActive, Enrolled
<1>17. CASE SaveActiveFails
  BY <1>17 DEF SaveActiveFails, Enrolled
<1>18. CASE Activate
  <2>1. backend'.allowed \subseteq backend.allowed \cup {Handle}
    BY <1>18 DEF Activate, TypeOK, BackendOK, Backends
  <2>2. Handle \in {plan.active, req.target} /\ UNCHANGED <<plan, req>>
    BY <1>18 DEF Activate
  <2>3. pc' = "install" =>
          payload'.id = Handle' /\ native.id \in backend.allowed
          /\ UNCHANGED native
    BY <1>18 DEF Activate, Recognised, LoggedOut
  <2>4. pc' \in {"install", "reread"}
    BY <1>18 DEF Activate
  <2> QED BY <1>18, <2>1, <2>2, <2>3, <2>4
<1>19. CASE ActivateFails
  <2>1. backend'.allowed \subseteq backend.allowed \cup {Handle}
    BY <1>19 DEF ActivateFails, TypeOK, BackendOK, Backends
  <2>2. Handle \in {plan.active, req.target} /\ UNCHANGED <<plan, req>>
    BY <1>19 DEF ActivateFails, FailOver, RollBack
  <2>3. pc' \in {"done", "write"}
    BY <1>19 DEF ActivateFails, FailOver, RollBack
  <2> QED BY <1>19, <2>1, <2>2, <2>3
<1>20. CASE Install
  BY <1>20 DEF Install, Replace
<1>21. CASE InstallFails
  BY <1>21 DEF InstallFails, Replace, FailOver, RollBack, TypeOK, RunOK,
         Results
<1>22. CASE Reread
  BY <1>22 DEF Reread
<1>23. CASE RereadFails
  BY <1>23 DEF RereadFails, FailOver, RollBack, TypeOK, RunOK, Results
<1>24. CASE Start
  BY <1>24 DEF Start, Spawn, CanStart
<1>25. CASE StartFails
  BY <1>25 DEF StartFails, Spawn, CanStart, FailOver, RollBack, TypeOK, RunOK,
         Results
<1>26. CASE Verify
  BY <1>26 DEF Verify, Proven, CanInspect, TypeOK, RunOK, Results
<1>27. CASE VerifyFails
  BY <1>27 DEF VerifyFails, FailOver, RollBack, TypeOK, RunOK, Results
<1>28. CASE ClearCheckpoint
  BY <1>28 DEF ClearCheckpoint, NoJournal
<1>29. CASE ClearCheckpointFails
  BY <1>29 DEF ClearCheckpointFails, NoJournal
<1>30. CASE SignIn
  BY <1>30 DEF SignIn, PrepareKeeps
<1> QED BY <1>1, <1>2, <1>3, <1>4, <1>5, <1>6, <1>7, <1>8, <1>9, <1>10, <1>11,
       <1>12, <1>13, <1>14, <1>15, <1>16, <1>17, <1>18, <1>19, <1>20, <1>21,
       <1>22, <1>23, <1>24, <1>25, <1>26, <1>27, <1>28, <1>29, <1>30
       DEF Call

\* The recognised accounts: kept whatever happens outside.
LEMMA OutsideAllowedInv ==
  ASSUME TypeOK, RecordInv, AllowedInv, Outside
  PROVE  AllowedInv'
<1> USE DEF RecordInv, OpeningInv, CheckpointInv, AllowedInv, Opening,
            Planned, Stopping, Installing, Journaling, Writing, run,
            volatile, disk, world, history, trail, Goto, GotoWrite, Finish,
            RollingBack, HadDaemon, Journaled, Known, NoResult, NewBackend,
            Handle
<1>1. CASE Interrupt
  BY <1>1 DEF Interrupt
<1>2. CASE Crash
  BY <1>2 DEF Crash
<1>3. CASE \E id \in Identities : OutsideLogin(id)
  BY <1>3 DEF OutsideLogin, Issue
<1>4. CASE DaemonRotates
  BY <1>4 DEF DaemonRotates, RotateNative, Issue
<1>5. CASE StandaloneRotates
  BY <1>5 DEF StandaloneRotates, RotateNative, Issue
<1>6. CASE UserStartsDaemon
  BY <1>6 DEF UserStartsDaemon, Spawn
<1>7. CASE DaemonDies
  BY <1>7 DEF DaemonDies, DaemonBecomes
<1>8. CASE DaemonSettles
  BY <1>8 DEF DaemonSettles, DaemonBecomes
<1>9. CASE TurnChanges
  BY <1>9 DEF TurnChanges
<1>10. CASE QuotaAges
  BY <1>10 DEF QuotaAges
<1> QED BY <1>1, <1>2, <1>3, <1>4, <1>5, <1>6, <1>7, <1>8, <1>9, <1>10 DEF
       Outside

\* The recognised accounts: kept by every step.
LEMMA NextAllowedInv ==
  ASSUME TypeOK, RecordInv, AllowedInv, [Next]_vars
  PROVE  AllowedInv'
<1> USE DEF RecordInv, OpeningInv, CheckpointInv, AllowedInv, Opening,
            Planned, Stopping, Installing, Journaling, Writing, run,
            volatile, disk, world, history, trail, Goto, GotoWrite, Finish,
            RollingBack, HadDaemon, Journaled, Known, NoResult, NewBackend,
            Handle
<1>1. CASE \E r \in Requests : Begin(r)
  BY <1>1 DEF Begin
<1>2. CASE Approve
  BY <1>2 DEF Approve
<1>3. CASE Decline
  BY <1>3 DEF Decline, Prompts
<1>7. CASE Reauthenticate
  BY <1>7 DEF Reauthenticate
<1>4. CASE Call
  BY <1>4, CallAllowedInv
<1>5. CASE Outside
  BY <1>5, OutsideAllowedInv
<1>6. CASE UNCHANGED vars
  BY <1>6 DEF vars
<1> QED BY <1>1, <1>2, <1>3, <1>4, <1>5, <1>6, <1>7 DEF Next, Answer

\* The first state has no journal, no effect and no consent.
LEMMA InitRecord ==
  ASSUME Init
  PROVE  RecordInv /\ ConsentInv /\ AllowedInv
<1> USE DEF Init, NoResult, NoPlan, NewBackend, Opening, Planned, Stopping,
            Installing, Journaling, Writing, Journaled, NoJournal
<1>1. OpeningInv
  BY DEF OpeningInv
<1>2. CheckpointInv
  BY DEF CheckpointInv
<1>3. EffectsInv
  BY DEF EffectsInv
<1>4. JournalPhaseHonest /\ QuietErrorsAreClean
  BY DEF JournalPhaseHonest, QuietErrorsAreClean
<1>5. ConsentInv
  BY DEF ConsentInv
<1>6. AllowedInv
  BY DEF AllowedInv
<1> QED BY <1>1, <1>2, <1>3, <1>4, <1>5, <1>6 DEF RecordInv

\* The first state makes no call and gives no answer.
LEMMA InitLogin ==
  ASSUME Init
  PROVE  LoginInv /\ AnswerInv /\ DaemonInv /\ ServedInv
<1> USE DEF Init, NoResult, NoPlan, Opening, Planned, Stopping, Installing,
            Journaling, Writing
<1>1. LoginInv
  BY DEF LoginInv
<1>2. AnswerInv
  BY DEF AnswerInv
<1>3. DaemonInv
  BY DEF DaemonInv
<1>4. ServedInv
  BY DEF ServedInv
<1> QED BY <1>1, <1>2, <1>3, <1>4

\* The first generation is the newest.
LEMMA InitKept ==
  ASSUME Init
  PROVE  KeptInv
<1>1. ASSUME NEW a \in Accounts
      PROVE  latest[a] = IF native.id = a THEN 1 ELSE saved[a]
  BY DEF Init
<1>2. native.id \in Accounts => native.gen = 1
  BY NobodyAssumption DEF Init, LoggedOut
<1>3. NewestKept
  BY <1>1, <1>2 DEF NewestKept
<1>4. NativeIsNewest
  BY <1>1, <1>2 DEF NativeIsNewest
<1>5. PayloadInv /\ SparedInv
  BY DEF Init, PayloadInv, SparedInv, Writing, Stopping
<1> QED BY <1>3, <1>4, <1>5 DEF KeptInv

-----------------------------------------------------------------------------
(* Theorems about every run *)

\* Each call finds the journal and the history as it left them; the shape of a
\* transaction that the theorems below rest on.
THEOREM RecordKept == Spec => [](RecordInv /\ ConsentInv /\ AllowedInv)
<1>1. Init => RecordInv /\ ConsentInv /\ AllowedInv
  BY InitRecord
<1>2. TypeOK /\ RecordInv /\ ConsentInv /\ AllowedInv /\ [Next]_vars
      => (RecordInv /\ ConsentInv /\ AllowedInv)'
  BY NextRecordInv, NextConsentInv, NextAllowedInv
<1> QED BY <1>1, <1>2, TypeCorrect, PTL DEF Spec

\* What recovery tells the operator about an unfinished switch is true, after
\* any crash, failed write or outside event (recoveryPhase, cli.go).
THEOREM JournalIsHonest == Spec => []JournalPhaseHonest
<1>1. RecordInv => JournalPhaseHonest
  BY DEF RecordInv
<1> QED BY <1>1, RecordKept, PTL

\* An error of Execute that does not ask for recovery leaves no journal and no
\* unproven effect behind.
THEOREM QuietErrorsLeaveNothing == Spec => []QuietErrorsAreClean
<1>1. RecordInv => QuietErrorsAreClean
  BY DEF RecordInv
<1> QED BY <1>1, RecordKept, PTL

\* No run touches the daemon or the login without the approval, the quota and
\* the snapshot the operator was asked for, or their overrides.
THEOREM EffectsAreApproved == Spec => []EffectsHaveConsent
<1>1. RecordInv /\ ConsentInv => EffectsHaveConsent
  BY DEF RecordInv, OpeningInv, ConsentInv, EffectsHaveConsent, Running, Steps,
     Opening, Journaling, Stopping, Installing
<1> QED BY <1>1, RecordKept, PTL

\* Only Install replaces auth.json while the run moves on.
LEMMA NativeMoves ==
  ASSUME Next, native' # native
  PROVE  (pc = "install" /\ Replace) \/ pc' = pc
<1> USE DEF run, volatile, disk, world, history, trail, Goto
<1>1. CASE \E r \in Requests : Begin(r)
  BY <1>1 DEF Begin
<1>2. CASE Answer
  BY <1>2 DEF Answer, Reauthenticate, Approve, Decline
<1>3. CASE Call
  BY <1>3 DEF Call, RefuseUnfinished, RefusePreview, FirstPreview,
         PrepareTarget, SignIn, PrepareTargetFails, PrepareKeeps,
         TargetRenewed, TargetLost, SecondPreview, FreshPreview, Snapshot,
         SnapshotFails, WriteCheckpoint, WriteCheckpointFails,
         StopInspect, StopCommand, StopConfirm, StopFails, SaveActive,
         SaveActiveFails, Activate, ActivateFails, Install, InstallFails,
         Reread, RereadFails, Start, StartFails, Verify, VerifyFails,
         ClearCheckpoint, ClearCheckpointFails
<1>4. CASE Outside
  BY <1>4 DEF Outside, Interrupt, Crash, OutsideLogin, DaemonRotates,
     StandaloneRotates, RotateNative, UserStartsDaemon, DaemonDies,
     DaemonSettles, TurnChanges, QuotaAges
<1> QED BY <1>1, <1>2, <1>3, <1>4 DEF Next

\* Nothing but a failed refresh of the target and Install gives an account up.
LEMMA LostMoves ==
  ASSUME Next
  PROVE  \/ lost' \subseteq lost \cup {req.target}
         \/ pc = "install" /\ Replace /\ UNCHANGED <<saved, latest, plan>>
<1> USE DEF run, volatile, disk, world, history, trail, Goto
<1>1. CASE \E r \in Requests : Begin(r)
  BY <1>1 DEF Begin
<1>2. CASE Answer
  BY <1>2 DEF Answer, Reauthenticate, Approve, Decline
<1>3. CASE Call
  BY <1>3 DEF Call, RefuseUnfinished, RefusePreview, FirstPreview,
         PrepareTarget, SignIn, PrepareTargetFails, PrepareKeeps,
         TargetRenewed, TargetLost, SecondPreview, FreshPreview, Snapshot,
         SnapshotFails, WriteCheckpoint, WriteCheckpointFails,
         StopInspect, StopCommand, StopConfirm, StopFails, SaveActive,
         SaveActiveFails, Activate, ActivateFails, Install, InstallFails,
         Reread, RereadFails, Start, StartFails, Verify, VerifyFails,
         ClearCheckpoint, ClearCheckpointFails, FailOver, RollBack, Finish,
         GotoWrite
<1>4. CASE Outside
  BY <1>4 DEF Outside, Interrupt, Crash, OutsideLogin, DaemonRotates, Issue,
     StandaloneRotates, RotateNative, UserStartsDaemon, DaemonDies,
     DaemonSettles, TurnChanges, QuotaAges
<1> QED BY <1>1, <1>2, <1>3, <1>4 DEF Next

\* A login by another program survives the transaction, unless it comes between
\* the last identity check and the rename (Backend.Activate), whoever else
\* meddles with the daemon, the tokens or the process.
THEOREM OutsiderIsSpared == Spec => OutsiderSurvives
<1>1. ASSUME RecordInv, AllowedInv, [Next]_vars
      PROVE  [VersoSteps /\ native' # native
                /\ native.id \notin {plan.active, req.target}
              => loginAt = "install"]_vars
  BY <1>1, NativeMoves DEF AllowedInv, VersoSteps, vars, disk
<1> QED BY <1>1, RecordKept, PTL DEF Spec, OutsiderSurvives

-----------------------------------------------------------------------------
(* Steps of the selected login, the answer and the daemon *)

\* The selected login: kept by each call of Execute and rollback.
LEMMA CallLoginInv ==
  ASSUME NoLogin, TypeOK, RecordInv, AllowedInv, LoginInv, Call
  PROVE  LoginInv'
<1> USE DEF RecordInv, OpeningInv, CheckpointInv, AllowedInv, LoginInv,
            Opening, Planned, Stopping, Installing, Journaling, Writing, run,
            volatile, disk, world, history, trail, Goto, GotoWrite, Finish,
            RollingBack, HadDaemon, Journaled, Known, NoResult, Handle
<1>1. CASE RefuseUnfinished
  BY <1>1 DEF RefuseUnfinished
<1>2. CASE RefusePreview
  BY <1>2 DEF RefusePreview
<1>3. CASE FirstPreview
  BY <1>3 DEF FirstPreview, Observe, CanInspect, Blocked
<1>4. CASE PrepareTarget
  BY <1>4 DEF PrepareTarget, PrepareKeeps
<1>5. CASE PrepareTargetFails
  BY <1>5 DEF PrepareTargetFails, PrepareKeeps
<1>6. CASE SecondPreview
  BY <1>6 DEF SecondPreview, Observe, CanInspect, Blocked, Exhausted, View,
         Process
<1>7. CASE FreshPreview
  BY <1>7 DEF FreshPreview, Observe, CanInspect, Blocked, Exhausted, View,
         SameConditions
<1>8. CASE Snapshot
  BY <1>8 DEF Snapshot
<1>9. CASE SnapshotFails
  BY <1>9 DEF SnapshotFails
<1>10. CASE WriteCheckpoint
  BY <1>10 DEF WriteCheckpoint, AfterWrite, Checkpoint, Phases, TypeOK, RunOK
<1>11. CASE WriteCheckpointFails
  BY <1>11 DEF WriteCheckpointFails, Checkpoint, TypeOK, RunOK, Phases
<1>12. CASE StopInspect
  BY <1>12 DEF StopInspect, AfterStop, CanInspect, TypeOK, BackendOK, Backends
<1>13. CASE StopCommand
  BY <1>13 DEF StopCommand, DaemonBecomes
<1>14. CASE StopConfirm
  BY <1>14 DEF StopConfirm, AfterStop, CanInspect
<1>15. CASE StopFails
  BY <1>15 DEF StopFails, DaemonBecomes
<1>16. CASE SaveActive
  BY <1>16 DEF SaveActive, Enrolled
<1>17. CASE SaveActiveFails
  BY <1>17 DEF SaveActiveFails, Enrolled
<1>18. CASE Activate
  BY <1>18 DEF Activate, Recognised
<1>19. CASE ActivateFails
  BY <1>19 DEF ActivateFails, Recognised, FailOver, RollBack, TypeOK, RunOK,
         Results
<1>20. CASE Install
  BY <1>20 DEF Install, Replace
<1>21. CASE InstallFails
  BY <1>21 DEF InstallFails, Replace, FailOver, RollBack, TypeOK, RunOK,
         Results
<1>22. CASE Reread
  BY <1>22 DEF Reread
<1>23. CASE RereadFails
  BY <1>23 DEF RereadFails, FailOver, RollBack, TypeOK, RunOK, Results
<1>24. CASE Start
  BY <1>24 DEF Start, Spawn, CanStart
<1>25. CASE StartFails
  BY <1>25 DEF StartFails, Spawn, CanStart, FailOver, RollBack, TypeOK, RunOK,
         Results
<1>26. CASE Verify
  BY <1>26 DEF Verify, Proven, CanInspect, TypeOK, RunOK, Results
<1>27. CASE VerifyFails
  BY <1>27 DEF VerifyFails, FailOver, RollBack, TypeOK, RunOK, Results
<1>28. CASE ClearCheckpoint
  BY <1>28 DEF ClearCheckpoint, NoJournal
<1>29. CASE ClearCheckpointFails
  BY <1>29 DEF ClearCheckpointFails, NoJournal
<1>30. CASE SignIn
  BY <1>30 DEF SignIn, PrepareKeeps
<1> QED BY <1>1, <1>2, <1>3, <1>4, <1>5, <1>6, <1>7, <1>8, <1>9, <1>10, <1>11,
       <1>12, <1>13, <1>14, <1>15, <1>16, <1>17, <1>18, <1>19, <1>20, <1>21,
       <1>22, <1>23, <1>24, <1>25, <1>26, <1>27, <1>28, <1>29, <1>30
       DEF Call

\* The selected login: kept whatever happens outside.
LEMMA OutsideLoginInv ==
  ASSUME NoLogin, TypeOK, RecordInv, AllowedInv, LoginInv, Outside
  PROVE  LoginInv'
<1> USE DEF RecordInv, OpeningInv, CheckpointInv, AllowedInv, LoginInv,
            Opening, Planned, Stopping, Installing, Journaling, Writing, run,
            volatile, disk, world, history, trail, Goto, GotoWrite, Finish,
            RollingBack, HadDaemon, Journaled, Known, NoResult, Handle
<1>1. CASE Interrupt
  BY <1>1 DEF Interrupt
<1>2. CASE Crash
  BY <1>2 DEF Crash
<1>3. CASE \E id \in Identities : OutsideLogin(id)
  BY <1>3 DEF OutsideLogin, Issue, NoLogin, Acting
<1>4. CASE DaemonRotates
  BY <1>4 DEF DaemonRotates, RotateNative, Issue, TypeOK, DiskOK, Document
<1>5. CASE StandaloneRotates
  BY <1>5 DEF StandaloneRotates, RotateNative, Issue, TypeOK, DiskOK, Document
<1>6. CASE UserStartsDaemon
  BY <1>6 DEF UserStartsDaemon, Spawn
<1>7. CASE DaemonDies
  BY <1>7 DEF DaemonDies, DaemonBecomes
<1>8. CASE DaemonSettles
  BY <1>8 DEF DaemonSettles, DaemonBecomes
<1>9. CASE TurnChanges
  BY <1>9 DEF TurnChanges
<1>10. CASE QuotaAges
  BY <1>10 DEF QuotaAges
<1> QED BY <1>1, <1>2, <1>3, <1>4, <1>5, <1>6, <1>7, <1>8, <1>9, <1>10 DEF
       Outside

\* The selected login: kept by every step.
LEMMA NextLoginInv ==
  ASSUME NoLogin, TypeOK, RecordInv, AllowedInv, LoginInv, [Next]_vars
  PROVE  LoginInv'
<1> USE DEF RecordInv, OpeningInv, CheckpointInv, AllowedInv, LoginInv,
            Opening, Planned, Stopping, Installing, Journaling, Writing, run,
            volatile, disk, world, history, trail, Goto, GotoWrite, Finish,
            RollingBack, HadDaemon, Journaled, Known, NoResult, Handle
<1>1. CASE \E r \in Requests : Begin(r)
  BY <1>1 DEF Begin
<1>2. CASE Approve
  BY <1>2 DEF Approve
<1>3. CASE Decline
  BY <1>3 DEF Decline, Prompts
<1>7. CASE Reauthenticate
  BY <1>7 DEF Reauthenticate
<1>4. CASE Call
  BY <1>4, CallLoginInv
<1>5. CASE Outside
  BY <1>5, OutsideLoginInv
<1>6. CASE UNCHANGED vars
  BY <1>6 DEF vars
<1> QED BY <1>1, <1>2, <1>3, <1>4, <1>5, <1>6, <1>7 DEF Next, Answer

\* The result: kept by each call of Execute and rollback.
LEMMA CallAnswerInv ==
  ASSUME NoLogin, TypeOK, RecordInv, AllowedInv, LoginInv, AnswerInv, Call
  PROVE  AnswerInv'
<1> USE DEF RecordInv, OpeningInv, CheckpointInv, AllowedInv, LoginInv,
            AnswerInv, Opening, Planned, Stopping, Installing, Journaling,
            Writing, run, volatile, disk, world, history, trail, Goto,
            GotoWrite, Finish, RollingBack, HadDaemon, Journaled, Known,
            NoResult, Handle
<1>1. CASE RefuseUnfinished
  BY <1>1 DEF RefuseUnfinished
<1>2. CASE RefusePreview
  BY <1>2 DEF RefusePreview
<1>3. CASE FirstPreview
  BY <1>3 DEF FirstPreview, Observe, CanInspect, Blocked
<1>4. CASE PrepareTarget
  BY <1>4 DEF PrepareTarget, PrepareKeeps
<1>5. CASE PrepareTargetFails
  BY <1>5 DEF PrepareTargetFails, PrepareKeeps
<1>6. CASE SecondPreview
  BY <1>6 DEF SecondPreview, Observe, CanInspect, Blocked, Exhausted, View,
         Process
<1>7. CASE FreshPreview
  BY <1>7 DEF FreshPreview, Observe, CanInspect, Blocked, Exhausted, View,
         SameConditions
<1>8. CASE Snapshot
  BY <1>8 DEF Snapshot
<1>9. CASE SnapshotFails
  BY <1>9 DEF SnapshotFails
<1>10. CASE WriteCheckpoint
  <2>1. CASE phase = "prepared"
    BY <1>10, <2>1 DEF WriteCheckpoint, AfterWrite, Checkpoint, TypeOK, RunOK
  <2>2. CASE phase \in {"stopping", "starting"}
    BY <1>10, <2>2 DEF WriteCheckpoint, AfterWrite, Checkpoint
  <2>5. CASE phase = "activating"
    <3>1. /\ pc' = "activate" /\ out' = NoResult
          /\ UNCHANGED <<plan, req, native>>
      BY <1>10, <2>5 DEF WriteCheckpoint, AfterWrite
    <3> QED BY <2>5, <3>1
  <2>3. CASE phase = "rolling_back"
    BY <1>10, <2>3 DEF WriteCheckpoint, AfterWrite, Checkpoint, TypeOK, RunOK
  <2>4. CASE phase \in {"committed", "rolled_back"}
    BY <1>10, <2>4 DEF WriteCheckpoint, AfterWrite, Checkpoint, TypeOK, RunOK
  <2> QED BY <2>1, <2>2, <2>3, <2>4, <2>5 DEF TypeOK, RunOK, Phases
<1>11. CASE WriteCheckpointFails
  BY <1>11 DEF WriteCheckpointFails, Checkpoint, TypeOK, RunOK, Phases
<1>12. CASE StopInspect
  BY <1>12 DEF StopInspect, AfterStop, CanInspect, TypeOK, BackendOK, Backends
<1>13. CASE StopCommand
  BY <1>13 DEF StopCommand, DaemonBecomes
<1>14. CASE StopConfirm
  BY <1>14 DEF StopConfirm, AfterStop, CanInspect
<1>15. CASE StopFails
  BY <1>15 DEF StopFails, DaemonBecomes
<1>16. CASE SaveActive
  BY <1>16 DEF SaveActive, Enrolled
<1>17. CASE SaveActiveFails
  BY <1>17 DEF SaveActiveFails, Enrolled
<1>18. CASE Activate
  BY <1>18 DEF Activate, Recognised
<1>19. CASE ActivateFails
  BY <1>19 DEF ActivateFails, Recognised, FailOver, RollBack, TypeOK, RunOK,
         Results
<1>20. CASE Install
  BY <1>20 DEF Install, Replace
<1>21. CASE InstallFails
  BY <1>21 DEF InstallFails, Replace, FailOver, RollBack, TypeOK, RunOK,
         Results
<1>22. CASE Reread
  BY <1>22 DEF Reread
<1>23. CASE RereadFails
  BY <1>23 DEF RereadFails, FailOver, RollBack, TypeOK, RunOK, Results
<1>24. CASE Start
  BY <1>24 DEF Start, Spawn, CanStart
<1>25. CASE StartFails
  BY <1>25 DEF StartFails, Spawn, CanStart, FailOver, RollBack, TypeOK, RunOK,
         Results
<1>26. CASE Verify
  <2>1. CASE RollingBack
    <3>1. /\ pc' = "write" /\ phase' = "rolled_back"
          /\ UNCHANGED <<plan, req, native>>
      BY <1>26, <2>1 DEF Verify
    <3>2. /\ out'.activeKnown /\ out'.active = plan.active
          /\ out'.changed = out.changed
          /\ out'.rollbackAttempted = out.rollbackAttempted
      BY <1>26, <2>1 DEF Verify, TypeOK, RunOK, Results
    <3>3. native.id = plan.active /\ ~out.changed
      BY <1>26, <2>1 DEF Verify
    <3> QED BY <2>1, <3>1, <3>2, <3>3
  <2>2. CASE ~RollingBack
    <3>1. /\ pc' = "write" /\ phase' = "committed"
          /\ UNCHANGED <<plan, req, native>>
      BY <1>26, <2>2 DEF Verify
    <3>2. /\ out'.activeKnown /\ out'.active = req.target
          /\ out'.changed = TRUE
          /\ out'.rollbackAttempted = out.rollbackAttempted
      BY <1>26, <2>2 DEF Verify, TypeOK, RunOK, Results
    <3>3. native.id = req.target /\ ~out.changed
      BY <1>26, <2>2 DEF Verify
    <3> QED BY <2>2, <3>1, <3>2, <3>3
  <2> QED BY <2>1, <2>2
<1>27. CASE VerifyFails
  BY <1>27 DEF VerifyFails, FailOver, RollBack, TypeOK, RunOK, Results
<1>28. CASE ClearCheckpoint
  BY <1>28 DEF ClearCheckpoint, NoJournal
<1>29. CASE ClearCheckpointFails
  BY <1>29 DEF ClearCheckpointFails, NoJournal
<1>30. CASE SignIn
  BY <1>30 DEF SignIn, PrepareKeeps
<1> QED BY <1>1, <1>2, <1>3, <1>4, <1>5, <1>6, <1>7, <1>8, <1>9, <1>10, <1>11,
       <1>12, <1>13, <1>14, <1>15, <1>16, <1>17, <1>18, <1>19, <1>20, <1>21,
       <1>22, <1>23, <1>24, <1>25, <1>26, <1>27, <1>28, <1>29, <1>30
       DEF Call

\* The result: kept whatever happens outside.
LEMMA OutsideAnswerInv ==
  ASSUME NoLogin, TypeOK, RecordInv, AllowedInv, LoginInv, AnswerInv, Outside
  PROVE  AnswerInv'
<1> USE DEF RecordInv, OpeningInv, CheckpointInv, AllowedInv, LoginInv,
            AnswerInv, Opening, Planned, Stopping, Installing, Journaling,
            Writing, run, volatile, disk, world, history, trail, Goto,
            GotoWrite, Finish, RollingBack, HadDaemon, Journaled, Known,
            NoResult, Handle
<1>1. CASE Interrupt
  BY <1>1 DEF Interrupt
<1>2. CASE Crash
  BY <1>2 DEF Crash
<1>3. CASE \E id \in Identities : OutsideLogin(id)
  BY <1>3 DEF OutsideLogin, Issue, NoLogin, Acting
<1>4. CASE DaemonRotates
  BY <1>4 DEF DaemonRotates, RotateNative, Issue, TypeOK, DiskOK, Document
<1>5. CASE StandaloneRotates
  BY <1>5 DEF StandaloneRotates, RotateNative, Issue, TypeOK, DiskOK, Document
<1>6. CASE UserStartsDaemon
  BY <1>6 DEF UserStartsDaemon, Spawn
<1>7. CASE DaemonDies
  BY <1>7 DEF DaemonDies, DaemonBecomes
<1>8. CASE DaemonSettles
  BY <1>8 DEF DaemonSettles, DaemonBecomes
<1>9. CASE TurnChanges
  BY <1>9 DEF TurnChanges
<1>10. CASE QuotaAges
  BY <1>10 DEF QuotaAges
<1> QED BY <1>1, <1>2, <1>3, <1>4, <1>5, <1>6, <1>7, <1>8, <1>9, <1>10 DEF
       Outside

\* The result: kept by every step.
LEMMA NextAnswerInv ==
  ASSUME NoLogin, TypeOK, RecordInv, AllowedInv, LoginInv, AnswerInv, [Next]_vars
  PROVE  AnswerInv'
<1> USE DEF RecordInv, OpeningInv, CheckpointInv, AllowedInv, LoginInv,
            AnswerInv, Opening, Planned, Stopping, Installing, Journaling,
            Writing, run, volatile, disk, world, history, trail, Goto,
            GotoWrite, Finish, RollingBack, HadDaemon, Journaled, Known,
            NoResult, Handle
<1>1. CASE \E r \in Requests : Begin(r)
  BY <1>1 DEF Begin
<1>2. CASE Approve
  BY <1>2 DEF Approve
<1>3. CASE Decline
  BY <1>3 DEF Decline, Prompts
<1>7. CASE Reauthenticate
  BY <1>7 DEF Reauthenticate
<1>4. CASE Call
  BY <1>4, CallAnswerInv
<1>5. CASE Outside
  BY <1>5, OutsideAnswerInv
<1>6. CASE UNCHANGED vars
  BY <1>6 DEF vars
<1> QED BY <1>1, <1>2, <1>3, <1>4, <1>5, <1>6, <1>7 DEF Next, Answer

\* The stopped daemon: kept by each call of Execute and rollback.
LEMMA CallDaemonInv ==
  ASSUME NoStart, TypeOK, RecordInv, DaemonInv, Call
  PROVE  DaemonInv'
<1> USE DEF RecordInv, OpeningInv, CheckpointInv, DaemonInv, Opening,
            Planned, Stopping, Installing, Journaling, Writing, run,
            volatile, disk, world, history, trail, Goto, GotoWrite, Finish,
            RollingBack, HadDaemon, Journaled, Known, NoResult
<1>1. CASE RefuseUnfinished
  BY <1>1 DEF RefuseUnfinished
<1>2. CASE RefusePreview
  BY <1>2 DEF RefusePreview
<1>3. CASE FirstPreview
  BY <1>3 DEF FirstPreview, Observe, CanInspect, Blocked
<1>4. CASE PrepareTarget
  BY <1>4 DEF PrepareTarget, PrepareKeeps
<1>5. CASE PrepareTargetFails
  BY <1>5 DEF PrepareTargetFails, PrepareKeeps
<1>6. CASE SecondPreview
  BY <1>6 DEF SecondPreview, Observe, CanInspect, Blocked, Exhausted, View,
         Process
<1>7. CASE FreshPreview
  BY <1>7 DEF FreshPreview, Observe, CanInspect, Blocked, Exhausted, View,
         SameConditions, TypeOK, WorldOK, DaemonStates
<1>8. CASE Snapshot
  BY <1>8 DEF Snapshot
<1>9. CASE SnapshotFails
  BY <1>9 DEF SnapshotFails
<1>10. CASE WriteCheckpoint
  BY <1>10 DEF WriteCheckpoint, AfterWrite, Checkpoint, Phases, TypeOK, RunOK
<1>11. CASE WriteCheckpointFails
  BY <1>11 DEF WriteCheckpointFails, Checkpoint, TypeOK, RunOK, Phases
<1>12. CASE StopInspect
  BY <1>12 DEF StopInspect, AfterStop, CanInspect
<1>13. CASE StopCommand
  BY <1>13 DEF StopCommand, DaemonBecomes
<1>14. CASE StopConfirm
  BY <1>14 DEF StopConfirm, AfterStop, CanInspect
<1>15. CASE StopFails
  BY <1>15 DEF StopFails, DaemonBecomes
<1>16. CASE SaveActive
  BY <1>16 DEF SaveActive, Enrolled
<1>17. CASE SaveActiveFails
  BY <1>17 DEF SaveActiveFails, Enrolled
<1>18. CASE Activate
  BY <1>18 DEF Activate, Recognised
<1>19. CASE ActivateFails
  BY <1>19 DEF ActivateFails, Recognised, FailOver, RollBack, TypeOK, RunOK,
         Results
<1>20. CASE Install
  BY <1>20 DEF Install, Replace
<1>21. CASE InstallFails
  BY <1>21 DEF InstallFails, Replace, FailOver, RollBack, TypeOK, RunOK,
         Results
<1>22. CASE Reread
  BY <1>22 DEF Reread
<1>23. CASE RereadFails
  BY <1>23 DEF RereadFails, FailOver, RollBack, TypeOK, RunOK, Results
<1>24. CASE Start
  BY <1>24 DEF Start, Spawn, CanStart
<1>25. CASE StartFails
  BY <1>25 DEF StartFails, Spawn, CanStart, FailOver, RollBack, TypeOK, RunOK,
         Results
<1>26. CASE Verify
  BY <1>26 DEF Verify, Proven, CanInspect, TypeOK, RunOK, Results
<1>27. CASE VerifyFails
  BY <1>27 DEF VerifyFails, FailOver, RollBack, TypeOK, RunOK, Results
<1>28. CASE ClearCheckpoint
  BY <1>28 DEF ClearCheckpoint, NoJournal
<1>29. CASE ClearCheckpointFails
  BY <1>29 DEF ClearCheckpointFails, NoJournal
<1>30. CASE SignIn
  BY <1>30 DEF SignIn, PrepareKeeps
<1> QED BY <1>1, <1>2, <1>3, <1>4, <1>5, <1>6, <1>7, <1>8, <1>9, <1>10, <1>11,
       <1>12, <1>13, <1>14, <1>15, <1>16, <1>17, <1>18, <1>19, <1>20, <1>21,
       <1>22, <1>23, <1>24, <1>25, <1>26, <1>27, <1>28, <1>29, <1>30
       DEF Call

\* The stopped daemon: kept whatever happens outside.
LEMMA OutsideDaemonInv ==
  ASSUME NoStart, TypeOK, RecordInv, DaemonInv, Outside
  PROVE  DaemonInv'
<1> USE DEF RecordInv, OpeningInv, CheckpointInv, DaemonInv, Opening,
            Planned, Stopping, Installing, Journaling, Writing, run,
            volatile, disk, world, history, trail, Goto, GotoWrite, Finish,
            RollingBack, HadDaemon, Journaled, Known, NoResult
<1>1. CASE Interrupt
  BY <1>1 DEF Interrupt
<1>2. CASE Crash
  BY <1>2 DEF Crash
<1>3. CASE \E id \in Identities : OutsideLogin(id)
  BY <1>3 DEF OutsideLogin, Issue
<1>4. CASE DaemonRotates
  BY <1>4 DEF DaemonRotates, RotateNative, Issue
<1>5. CASE StandaloneRotates
  BY <1>5 DEF StandaloneRotates, RotateNative, Issue
<1>6. CASE UserStartsDaemon
  BY <1>6 DEF UserStartsDaemon, Spawn, NoStart, Acting
<1>7. CASE DaemonDies
  BY <1>7 DEF DaemonDies, DaemonBecomes
<1>8. CASE DaemonSettles
  BY <1>8 DEF DaemonSettles, DaemonBecomes
<1>9. CASE TurnChanges
  BY <1>9 DEF TurnChanges
<1>10. CASE QuotaAges
  BY <1>10 DEF QuotaAges
<1> QED BY <1>1, <1>2, <1>3, <1>4, <1>5, <1>6, <1>7, <1>8, <1>9, <1>10 DEF
       Outside

\* The stopped daemon: kept by every step.
LEMMA NextDaemonInv ==
  ASSUME NoStart, TypeOK, RecordInv, DaemonInv, [Next]_vars
  PROVE  DaemonInv'
<1> USE DEF RecordInv, OpeningInv, CheckpointInv, DaemonInv, Opening,
            Planned, Stopping, Installing, Journaling, Writing, run,
            volatile, disk, world, history, trail, Goto, GotoWrite, Finish,
            RollingBack, HadDaemon, Journaled, Known, NoResult
<1>1. CASE \E r \in Requests : Begin(r)
  BY <1>1 DEF Begin
<1>2. CASE Approve
  BY <1>2 DEF Approve
<1>3. CASE Decline
  BY <1>3 DEF Decline, Prompts
<1>7. CASE Reauthenticate
  BY <1>7 DEF Reauthenticate
<1>4. CASE Call
  BY <1>4, CallDaemonInv
<1>5. CASE Outside
  BY <1>5, OutsideDaemonInv
<1>6. CASE UNCHANGED vars
  BY <1>6 DEF vars
<1> QED BY <1>1, <1>2, <1>3, <1>4, <1>5, <1>6, <1>7 DEF Next, Answer

\* The daemon that serves the result: kept by each call of Execute and rollback.
LEMMA CallServedInv ==
  ASSUME NoLogin, NoStart, NoDeath, TypeOK, RecordInv, LoginInv, AnswerInv,
         DaemonInv, ServedInv, Call
  PROVE  ServedInv'
<1> USE DEF RecordInv, OpeningInv, CheckpointInv, LoginInv, AnswerInv,
            DaemonInv, ServedInv, Served, Opening, Planned, Stopping,
            Installing, Journaling, Writing, run, volatile, disk, world,
            history, trail, Goto, GotoWrite, Finish, RollingBack, HadDaemon,
            Journaled, Known, NoResult, Handle
<1>1. CASE RefuseUnfinished
  BY <1>1 DEF RefuseUnfinished
<1>2. CASE RefusePreview
  BY <1>2 DEF RefusePreview
<1>3. CASE FirstPreview
  BY <1>3 DEF FirstPreview, Observe, CanInspect, Blocked
<1>4. CASE PrepareTarget
  BY <1>4 DEF PrepareTarget, PrepareKeeps
<1>5. CASE PrepareTargetFails
  BY <1>5 DEF PrepareTargetFails, PrepareKeeps
<1>6. CASE SecondPreview
  <2>1. approved' <= births'
    BY <1>6 DEF SecondPreview, Process, TypeOK, WorldOK
  <2>2. ~out.changed /\ ~out.rollbackSucceeded
    BY <1>6 DEF SecondPreview
  <2>3. out' \in {out, Known(native.id)} /\ pc' \in {"approve", "done"}
    BY <1>6 DEF SecondPreview
  <2>4. ~out'.changed /\ ~out'.rollbackSucceeded
    BY <2>2, <2>3
  <2> QED BY <2>1, <2>3, <2>4
<1>7. CASE FreshPreview
  BY <1>7 DEF FreshPreview, Observe, CanInspect, Blocked, Exhausted, View,
         SameConditions
<1>8. CASE Snapshot
  BY <1>8 DEF Snapshot
<1>9. CASE SnapshotFails
  BY <1>9 DEF SnapshotFails
<1>10. CASE WriteCheckpoint
  <2>1. UNCHANGED <<plan, native, daemon, loaded, births, approved>>
    BY <1>10 DEF WriteCheckpoint, AfterWrite, TypeOK, RunOK, Phases
  <2>2. out' = out \/ out' = NoResult
    BY <1>10 DEF WriteCheckpoint, AfterWrite, TypeOK, RunOK, Phases
  <2>3. pc' # "verify"
    BY <1>10 DEF WriteCheckpoint, AfterWrite, TypeOK, RunOK, Phases
  <2> QED BY <2>1, <2>2, <2>3
<1>11. CASE WriteCheckpointFails
  BY <1>11 DEF WriteCheckpointFails, Checkpoint, TypeOK, RunOK, Phases
<1>12. CASE StopInspect
  BY <1>12 DEF StopInspect, AfterStop, CanInspect, TypeOK, BackendOK, Backends
<1>13. CASE StopCommand
  BY <1>13 DEF StopCommand, DaemonBecomes
<1>14. CASE StopConfirm
  BY <1>14 DEF StopConfirm, AfterStop, CanInspect
<1>15. CASE StopFails
  BY <1>15 DEF StopFails, DaemonBecomes
<1>16. CASE SaveActive
  BY <1>16 DEF SaveActive, Enrolled
<1>17. CASE SaveActiveFails
  BY <1>17 DEF SaveActiveFails, Enrolled
<1>18. CASE Activate
  BY <1>18 DEF Activate, Recognised
<1>19. CASE ActivateFails
  BY <1>19 DEF ActivateFails, Recognised, FailOver, RollBack, TypeOK, RunOK,
         Results
<1>20. CASE Install
  BY <1>20 DEF Install, Replace
<1>21. CASE InstallFails
  BY <1>21 DEF InstallFails, Replace, FailOver, RollBack, TypeOK, RunOK,
         Results
<1>22. CASE Reread
  BY <1>22 DEF Reread
<1>23. CASE RereadFails
  BY <1>23 DEF RereadFails, FailOver, RollBack, TypeOK, RunOK, Results
<1>24. CASE Start
  BY <1>24 DEF Start, Spawn, CanStart, TypeOK, WorldOK, HistoryOK
<1>25. CASE StartFails
  BY <1>25 DEF StartFails, Spawn, CanStart, FailOver, RollBack, TypeOK, RunOK,
         Results, WorldOK, HistoryOK
<1>26. CASE Verify
  BY <1>26 DEF Verify, Proven, CanInspect, TypeOK, RunOK, Results
<1>27. CASE VerifyFails
  BY <1>27 DEF VerifyFails, FailOver, RollBack, TypeOK, RunOK, Results
<1>28. CASE ClearCheckpoint
  BY <1>28 DEF ClearCheckpoint, NoJournal
<1>29. CASE ClearCheckpointFails
  BY <1>29 DEF ClearCheckpointFails, NoJournal
<1>30. CASE SignIn
  BY <1>30 DEF SignIn, PrepareKeeps
<1> QED BY <1>1, <1>2, <1>3, <1>4, <1>5, <1>6, <1>7, <1>8, <1>9, <1>10, <1>11,
       <1>12, <1>13, <1>14, <1>15, <1>16, <1>17, <1>18, <1>19, <1>20, <1>21,
       <1>22, <1>23, <1>24, <1>25, <1>26, <1>27, <1>28, <1>29, <1>30
       DEF Call

\* The daemon that serves the result: kept whatever happens outside.
LEMMA OutsideServedInv ==
  ASSUME NoLogin, NoStart, NoDeath, TypeOK, RecordInv, LoginInv, AnswerInv,
         DaemonInv, ServedInv, Outside
  PROVE  ServedInv'
<1> USE DEF RecordInv, OpeningInv, CheckpointInv, LoginInv, AnswerInv,
            DaemonInv, ServedInv, Served, Opening, Planned, Stopping,
            Installing, Journaling, Writing, run, volatile, disk, world,
            history, trail, Goto, GotoWrite, Finish, RollingBack, HadDaemon,
            Journaled, Known, NoResult, Handle
<1>1. CASE Interrupt
  BY <1>1 DEF Interrupt
<1>2. CASE Crash
  BY <1>2 DEF Crash
<1>3. CASE \E id \in Identities : OutsideLogin(id)
  BY <1>3 DEF OutsideLogin, Issue, NoLogin, Acting
<1>4. CASE DaemonRotates
  BY <1>4 DEF DaemonRotates, RotateNative, Issue, TypeOK, DiskOK, Document
<1>5. CASE StandaloneRotates
  BY <1>5 DEF StandaloneRotates, RotateNative, Issue, TypeOK, DiskOK, Document
<1>6. CASE UserStartsDaemon
  BY <1>6 DEF UserStartsDaemon, Spawn, NoStart, Acting
<1>7. CASE DaemonDies
  BY <1>7 DEF DaemonDies, DaemonBecomes, NoDeath, Acting
<1>8. CASE DaemonSettles
  BY <1>8 DEF DaemonSettles, DaemonBecomes
<1>9. CASE TurnChanges
  BY <1>9 DEF TurnChanges
<1>10. CASE QuotaAges
  BY <1>10 DEF QuotaAges
<1> QED BY <1>1, <1>2, <1>3, <1>4, <1>5, <1>6, <1>7, <1>8, <1>9, <1>10 DEF
       Outside

\* The daemon that serves the result: kept by every step.
LEMMA NextServedInv ==
  ASSUME NoLogin, NoStart, NoDeath, TypeOK, RecordInv, LoginInv, AnswerInv,
         DaemonInv, ServedInv, [Next]_vars
  PROVE  ServedInv'
<1> USE DEF RecordInv, OpeningInv, CheckpointInv, LoginInv, AnswerInv,
            DaemonInv, ServedInv, Served, Opening, Planned, Stopping,
            Installing, Journaling, Writing, run, volatile, disk, world,
            history, trail, Goto, GotoWrite, Finish, RollingBack, HadDaemon,
            Journaled, Known, NoResult, Handle
<1>1. CASE \E r \in Requests : Begin(r)
  <2>1. births' \in Nat /\ approved' = 0 /\ pc' = "preview1"
        /\ ~out'.changed /\ ~out'.rollbackSucceeded
    BY <1>1 DEF Begin, TypeOK, WorldOK
  <2> QED BY <2>1
<1>2. CASE Approve
  BY <1>2 DEF Approve
<1>3. CASE Decline
  BY <1>3 DEF Decline, Prompts
<1>7. CASE Reauthenticate
  BY <1>7 DEF Reauthenticate
<1>4. CASE Call
  BY <1>4, CallServedInv
<1>5. CASE Outside
  BY <1>5, OutsideServedInv
<1>6. CASE UNCHANGED vars
  BY <1>6 DEF vars
<1> QED BY <1>1, <1>2, <1>3, <1>4, <1>5, <1>6, <1>7 DEF Next, Answer

-----------------------------------------------------------------------------
(* Steps of the newest credentials *)

\* The rename gives up nothing but, in a rollback, the target's newest document.
LEMMA ReplaceKeeps ==
  ASSUME TypeOK, RecordInv, LoginInv, DaemonInv, KeptInv,
         pc = "install", Replace, UNCHANGED <<saved, latest, plan>>
  PROVE  /\ NewestKept' /\ NativeIsNewest'
         /\ lost \subseteq lost' /\ lost' \subseteq lost \cup {req.target}
         /\ native'.id = plan.active /\ plan.active \in Accounts =>
              saved[plan.active] = native'.gen
<1> USE DEF RecordInv, OpeningInv, CheckpointInv, LoginInv, KeptInv, Journaling,
            Installing
<1>1. /\ native.id \in {plan.active, req.target}
      /\ plan.active # req.target
  OBVIOUS
<1>2. native.id = plan.active /\ plan.active \in Accounts =>
        saved[plan.active] = native.gen
  BY DEF SparedInv
<1>3. Handle \in {plan.active, req.target} /\ ~RollingBack => Handle = req.target
  BY DEF Handle
<1>4. native' = IF Handle = Nobody THEN LoggedOut
                ELSE [id |-> Handle, gen |-> saved[Handle]]
  BY DEF Replace, PayloadInv
<1>5. native.id = plan.active \/ RollingBack
  OBVIOUS
<1>6. native'.id = Handle /\ (Handle # Nobody => native'.gen = saved[Handle])
  BY <1>4 DEF LoggedOut
<1>7. Handle = native.id /\ Handle \in Accounts => native' = native
  <2>1. native = [id |-> native.id, gen |-> native.gen]
    BY DEF TypeOK, DiskOK, Document
  <2>2. Handle = native.id => Handle = plan.active
    BY <1>1, <1>5 DEF Handle
  <2> QED BY <1>2, <1>4, <2>1, <2>2, NobodyAssumption
<1>8. \A a \in Accounts : a \in lost' <=>
        \/ a \in lost
        \/ /\ native.id = a /\ native.gen = latest[a]
           /\ saved[a] # native.gen /\ native' # native
  BY DEF Replace
<1>9. lost \subseteq lost' /\ lost' \subseteq Accounts
  BY DEF Replace, TypeOK, HistoryOK
<1>10. lost' \subseteq lost \cup {req.target}
  BY <1>1, <1>2, <1>8, <1>9
<1>11. ASSUME NEW a \in Accounts, a \notin lost'
       PROVE  saved[a] = latest[a]
  <2>1. saved[a] = latest[a] \/ (native.id = a /\ native.gen = latest[a])
    BY <1>9, <1>11 DEF NewestKept
  <2>2. native.id = a /\ native.gen = latest[a] /\ native' = native
        => saved[a] = latest[a]
    BY <1>6, NobodyAssumption
  <2> QED BY <1>8, <1>11, <2>1, <2>2
<1>12. NewestKept'
  BY <1>11 DEF NewestKept
<1>13. NativeIsNewest'
  BY <1>6, <1>11, NobodyAssumption DEF NativeIsNewest
<1> QED BY <1>6, <1>9, <1>10, <1>12, <1>13, NobodyAssumption

\* A rotation by the managed daemon: it renews the newest generation where it
\* is selected, and happens at no step that relies on the daemon being stopped.
LEMMA RotationKeeps ==
  ASSUME TypeOK, DaemonInv, KeptInv, DaemonRotates
  PROVE  KeptInv'
<1>1. daemon = "running" /\ UNCHANGED <<pc, phase, plan, out, saved>>
  BY DEF DaemonRotates, RotateNative, run
<1>2. /\ native.id \in Accounts /\ native'.id = native.id
      /\ native'.gen = latest'[native.id]
  BY DEF DaemonRotates, RotateNative, Issue, TypeOK, DiskOK, WorldOK, Document
<1>3. \A a \in Accounts \ {native.id} :
        latest'[a] = latest[a] /\ (a \in lost' <=> a \in lost)
  BY DEF DaemonRotates, RotateNative, Issue, TypeOK, WorldOK
<1>4. NewestKept'
  <2>1. SUFFICES ASSUME NEW a \in Accounts, a \notin lost', a # native.id
                 PROVE  saved'[a] = latest'[a]
    BY <1>2 DEF NewestKept
  <2>2. a \notin lost /\ latest'[a] = latest[a]
    BY <1>3, <2>1
  <2> QED BY <1>1, <2>1, <2>2 DEF KeptInv, NewestKept
<1>5. NativeIsNewest'
  BY <1>2 DEF NativeIsNewest
<1>6. pc # "install" /\ PayloadInv'
  BY <1>1 DEF DaemonInv, PayloadInv
<1>7. SparedInv'
  BY <1>1, <1>2 DEF KeptInv, SparedInv, Writing, RollingBack
<1> QED BY <1>4, <1>5, <1>6, <1>7 DEF KeptInv

\* Preparing the target touches no other account's newest credentials, and the
\* target's are stored or on the list of lost ones.
LEMMA PreparingKeeps ==
  ASSUME TypeOK, LoginInv, KeptInv,
         PrepareTarget \/ SignIn \/ PrepareTargetFails
  PROVE  KeptInv'
<1> USE DEF PrepareTarget, SignIn, PrepareTargetFails, PrepareKeeps,
            TargetRenewed, TargetLost, Goto, Finish
<1>1. req.target \in Accounts
  BY DEF TypeOK, RunOK, Request
<1>2. /\ pc' \in {"preview2", "reauthenticate", "done"}
      /\ UNCHANGED <<native, plan, req>>
  OBVIOUS
<1>3. \A a \in Accounts \ {req.target} :
        /\ latest'[a] = latest[a] /\ saved'[a] = saved[a]
        /\ a \in lost' <=> a \in lost
  BY <1>1 DEF TypeOK, WorldOK, DiskOK
<1>4. native.id # req.target \/ UNCHANGED <<latest, saved, lost>>
  BY DEF LoginInv
<1>5. req.target \notin lost' =>
        \/ saved'[req.target] = latest'[req.target]
        \/ UNCHANGED <<latest, saved, lost>>
  BY <1>1 DEF TypeOK, WorldOK, DiskOK
<1>6. NewestKept'
  BY <1>1, <1>2, <1>3, <1>5 DEF KeptInv, NewestKept
<1>7. NativeIsNewest'
  BY <1>1, <1>2, <1>3, <1>4 DEF KeptInv, NativeIsNewest
<1>8. PayloadInv' /\ SparedInv'
  BY <1>2 DEF PayloadInv, SparedInv, Writing, Stopping
<1> QED BY <1>6, <1>7, <1>8 DEF KeptInv

\* The newest credentials: kept by each call of Execute and rollback.
LEMMA CallKeptInv ==
  ASSUME NoLogin, NoStart, NoStandalone, TypeOK, RecordInv, LoginInv,
         DaemonInv, KeptInv, Call
  PROVE  KeptInv'
<1> USE DEF RecordInv, OpeningInv, CheckpointInv, LoginInv, DaemonInv,
            KeptInv, NewestKept, NativeIsNewest, PayloadInv, SparedInv,
            Opening, Planned, Stopping, Installing, Journaling, Writing, run,
            volatile, disk, world, history, trail, Goto, GotoWrite, Finish,
            RollingBack, HadDaemon, Journaled, Known, NoResult, Handle
<1>1. CASE RefuseUnfinished
  BY <1>1 DEF RefuseUnfinished
<1>2. CASE RefusePreview
  BY <1>2 DEF RefusePreview
<1>3. CASE FirstPreview
  BY <1>3 DEF FirstPreview, Observe, CanInspect, Blocked
<1>4. CASE PrepareTarget
  BY <1>4, PreparingKeeps
<1>5. CASE PrepareTargetFails
  BY <1>5, PreparingKeeps
<1>6. CASE SecondPreview
  BY <1>6 DEF SecondPreview, Observe, CanInspect, Blocked, Exhausted, View,
         Process
<1>7. CASE FreshPreview
  BY <1>7 DEF FreshPreview, Observe, CanInspect, Blocked, Exhausted, View,
         SameConditions
<1>8. CASE Snapshot
  BY <1>8 DEF Snapshot
<1>9. CASE SnapshotFails
  BY <1>9 DEF SnapshotFails
<1>10. CASE WriteCheckpoint
  BY <1>10 DEF WriteCheckpoint, AfterWrite, Checkpoint, Phases, TypeOK, RunOK
<1>11. CASE WriteCheckpointFails
  BY <1>11 DEF WriteCheckpointFails, Checkpoint, TypeOK, RunOK, Phases
<1>12. CASE StopInspect
  BY <1>12 DEF StopInspect, AfterStop, CanInspect, TypeOK, BackendOK, Backends
<1>13. CASE StopCommand
  BY <1>13 DEF StopCommand, DaemonBecomes
<1>14. CASE StopConfirm
  BY <1>14 DEF StopConfirm, AfterStop, CanInspect
<1>15. CASE StopFails
  BY <1>15 DEF StopFails, DaemonBecomes
<1>16. CASE SaveActive
  <2>1. UNCHANGED <<native, latest, lost, plan, daemon>>
    BY <1>16 DEF SaveActive
  <2>2. \A a \in Accounts :
          saved'[a] = IF a = native.id THEN native.gen ELSE saved[a]
    BY <1>16, NobodyAssumption DEF SaveActive, TypeOK, DiskOK, Enrolled,
       Document, Identities
  <2>3. daemon = "stopped" /\ pc' = "write"
    BY <1>16 DEF SaveActive
  <2> QED BY <2>1, <2>2, <2>3
<1>17. CASE SaveActiveFails
  <2>1. UNCHANGED <<native, latest, lost, plan>> /\ pc' = "done"
    BY <1>17 DEF SaveActiveFails
  <2>2. \A a \in Accounts :
          saved'[a] = saved[a] \/ (a = native.id /\ saved'[a] = native.gen)
    BY <1>17, NobodyAssumption
       DEF SaveActiveFails, TypeOK, DiskOK, Enrolled, Document, Identities
  <2> QED BY <2>1, <2>2
<1>18. CASE Activate
  <2>1. UNCHANGED <<native, latest, lost, plan, daemon, saved, req, out>>
    BY <1>18 DEF Activate
  <2>2. pc' = "install" =>
          payload' = IF Handle = Nobody THEN LoggedOut
                     ELSE [id |-> Handle, gen |-> saved[Handle]]
    BY <1>18 DEF Activate
  <2>3. pc' \in {"install", "reread"}
    BY <1>18 DEF Activate
  <2> QED BY <1>18, <2>1, <2>2, <2>3 DEF Activate
<1>19. CASE ActivateFails
  BY <1>19 DEF ActivateFails, Recognised, FailOver, RollBack, TypeOK, RunOK,
         Results
<1>20. CASE Install
  <2>1. /\ pc = "install" /\ pc' = "reread" /\ Replace
        /\ UNCHANGED <<saved, latest, plan, daemon>>
    BY <1>20 DEF Install
  <2> QED BY <2>1, ReplaceKeeps
<1>21. CASE InstallFails
  <2>1. /\ pc = "install" /\ pc' \in {"write", "done"}
        /\ UNCHANGED <<saved, latest, plan, daemon>>
    BY <1>21 DEF InstallFails, FailOver, RollBack
  <2>2. CASE Replace
    BY <2>1, <2>2, ReplaceKeeps
  <2>3. CASE UNCHANGED <<native, effects, lost>>
    BY <2>1, <2>3
  <2> QED BY <1>21, <2>2, <2>3 DEF InstallFails
<1>22. CASE Reread
  BY <1>22 DEF Reread
<1>23. CASE RereadFails
  BY <1>23 DEF RereadFails, FailOver, RollBack, TypeOK, RunOK, Results
<1>24. CASE Start
  BY <1>24 DEF Start, Spawn, CanStart
<1>25. CASE StartFails
  BY <1>25 DEF StartFails, Spawn, CanStart, FailOver, RollBack, TypeOK, RunOK,
         Results
<1>26. CASE Verify
  BY <1>26 DEF Verify, Proven, CanInspect, TypeOK, RunOK, Results
<1>27. CASE VerifyFails
  BY <1>27 DEF VerifyFails, FailOver, RollBack, TypeOK, RunOK, Results
<1>28. CASE ClearCheckpoint
  BY <1>28 DEF ClearCheckpoint, NoJournal
<1>29. CASE ClearCheckpointFails
  BY <1>29 DEF ClearCheckpointFails, NoJournal
<1>30. CASE SignIn
  BY <1>30, PreparingKeeps
<1> QED BY <1>1, <1>2, <1>3, <1>4, <1>5, <1>6, <1>7, <1>8, <1>9, <1>10, <1>11,
       <1>12, <1>13, <1>14, <1>15, <1>16, <1>17, <1>18, <1>19, <1>20, <1>21,
       <1>22, <1>23, <1>24, <1>25, <1>26, <1>27, <1>28, <1>29, <1>30
       DEF Call

\* The newest credentials: kept whatever happens outside.
LEMMA OutsideKeptInv ==
  ASSUME NoLogin, NoStart, NoStandalone, TypeOK, RecordInv, LoginInv,
         DaemonInv, KeptInv, Outside
  PROVE  KeptInv'
<1> USE DEF RecordInv, OpeningInv, CheckpointInv, LoginInv, DaemonInv,
            KeptInv, NewestKept, NativeIsNewest, PayloadInv, SparedInv,
            Opening, Planned, Stopping, Installing, Journaling, Writing, run,
            volatile, disk, world, history, trail, Goto, GotoWrite, Finish,
            RollingBack, HadDaemon, Journaled, Known, NoResult, Handle
<1>1. CASE Interrupt
  BY <1>1 DEF Interrupt
<1>2. CASE Crash
  BY <1>2 DEF Crash
<1>3. CASE \E id \in Identities : OutsideLogin(id)
  BY <1>3 DEF OutsideLogin, Issue, NoLogin, Acting
<1>4. CASE DaemonRotates
  BY <1>4, RotationKeeps
<1>5. CASE StandaloneRotates
  BY <1>5 DEF StandaloneRotates, RotateNative, Issue, NoStandalone, Acting
<1>6. CASE UserStartsDaemon
  BY <1>6 DEF UserStartsDaemon, Spawn, NoStart, Acting
<1>7. CASE DaemonDies
  BY <1>7 DEF DaemonDies, DaemonBecomes
<1>8. CASE DaemonSettles
  BY <1>8 DEF DaemonSettles, DaemonBecomes
<1>9. CASE TurnChanges
  BY <1>9 DEF TurnChanges
<1>10. CASE QuotaAges
  BY <1>10 DEF QuotaAges
<1> QED BY <1>1, <1>2, <1>3, <1>4, <1>5, <1>6, <1>7, <1>8, <1>9, <1>10 DEF
       Outside

\* The newest credentials: kept by every step.
LEMMA NextKeptInv ==
  ASSUME NoLogin, NoStart, NoStandalone, TypeOK, RecordInv, LoginInv,
         DaemonInv, KeptInv, [Next]_vars
  PROVE  KeptInv'
<1> USE DEF RecordInv, OpeningInv, CheckpointInv, LoginInv, DaemonInv,
            KeptInv, NewestKept, NativeIsNewest, PayloadInv, SparedInv,
            Opening, Planned, Stopping, Installing, Journaling, Writing, run,
            volatile, disk, world, history, trail, Goto, GotoWrite, Finish,
            RollingBack, HadDaemon, Journaled, Known, NoResult, Handle
<1>1. CASE \E r \in Requests : Begin(r)
  BY <1>1 DEF Begin
<1>2. CASE Approve
  BY <1>2 DEF Approve
<1>3. CASE Decline
  BY <1>3 DEF Decline, Prompts
<1>7. CASE Reauthenticate
  BY <1>7 DEF Reauthenticate
<1>4. CASE Call
  BY <1>4, CallKeptInv
<1>5. CASE Outside
  BY <1>5, OutsideKeptInv
<1>6. CASE UNCHANGED vars
  BY <1>6 DEF vars
<1> QED BY <1>1, <1>2, <1>3, <1>4, <1>5, <1>6, <1>7 DEF Next, Answer

-----------------------------------------------------------------------------
(* Theorems about runs that others leave alone *)

\* As long as nobody else logs in, the selected login is where the plan, the
\* calls made and the result of the run say it is.
THEOREM LoginFollowsPlan ==
  ASSUME NoLogin
  PROVE  Spec => [](LoginInv /\ AnswerInv)
<1>1. Init => LoginInv /\ AnswerInv
  BY InitLogin
<1>2. TypeOK /\ RecordInv /\ AllowedInv /\ LoginInv /\ AnswerInv /\ [Next]_vars
      => (LoginInv /\ AnswerInv)'
  BY NextLoginInv, NextAnswerInv
<1> QED BY <1>1, <1>2, TypeCorrect, RecordKept, PTL DEF Spec

\* As long as nobody else starts a daemon, there is none where the code says so.
LEMMA DaemonFollowsPlan ==
  ASSUME NoStart
  PROVE  Spec => []DaemonInv
<1>1. Init => DaemonInv
  BY InitLogin
<1>2. TypeOK /\ RecordInv /\ DaemonInv /\ [Next]_vars => DaemonInv'
  BY NextDaemonInv
<1> QED BY <1>1, <1>2, TypeCorrect, RecordKept, PTL DEF Spec

\* Verso replaces auth.json only while no managed daemon runs, in the switch
\* and in the rollback, as long as nobody else starts one.
THEOREM InstallsWithoutDaemon ==
  ASSUME NoStart
  PROVE  Spec => NoInstallBeneathDaemon
<1>1. DaemonInv => [pc = "install" /\ native' # native => daemon = "stopped"]_vars
  BY DEF DaemonInv
<1> QED BY <1>1, DaemonFollowsPlan, PTL DEF NoInstallBeneathDaemon

\* As long as nobody else logs in, starts the daemon or kills it, the account a
\* result names is the selected one on every path out of Execute, and after a
\* proven switch or rollback a daemon younger than the approved one serves it.
THEOREM ResultsAreTrue ==
  ASSUME NoLogin, NoStart, NoDeath
  PROVE  Spec => []ResultIsTrue
<1>1. Init => ServedInv
  BY InitLogin
<1>2. TypeOK /\ RecordInv /\ LoginInv /\ AnswerInv /\ DaemonInv /\ ServedInv
        /\ [Next]_vars => ServedInv'
  BY NextServedInv
<1>3. TypeOK /\ AnswerInv /\ ServedInv => ResultIsTrue
  BY DEF AnswerInv, ServedInv, Served, ResultIsTrue, TypeOK, WorldOK, HistoryOK
<1> QED BY <1>1, <1>2, <1>3, TypeCorrect, RecordKept, LoginFollowsPlan,
           DaemonFollowsPlan, PTL DEF Spec

\* While only the managed daemon rotates tokens, no account's newest
\* credentials are lost but those of the target of the switch, and those of
\* every other account are in the store or in the Codex home at every moment.
THEOREM OutgoingIsKept ==
  ASSUME NoLogin, NoStart, NoStandalone
  PROVE  Spec => OnlyTargetIsLost
<1>1. Init => KeptInv
  BY InitKept
<1>2. TypeOK /\ RecordInv /\ LoginInv /\ DaemonInv /\ KeptInv /\ [Next]_vars
      => KeptInv'
  BY NextKeptInv
<1>3. ASSUME TypeOK, RecordInv, LoginInv, DaemonInv, KeptInv, KeptInv',
             [Next]_vars
      PROVE  [/\ NewestKept'
              /\ VersoSteps => lost' \ lost \subseteq {req.target}]_vars
  <2>1. NewestKept'
    BY <1>3 DEF KeptInv
  <2>2. CASE Next
    BY <1>3, <2>1, <2>2, LostMoves, ReplaceKeeps
  <2> QED BY <1>3, <2>2
<1> QED BY <1>1, <1>2, <1>3, TypeCorrect, RecordKept, LoginFollowsPlan,
           DaemonFollowsPlan, PTL DEF Spec, OnlyTargetIsLost

-----------------------------------------------------------------------------
(* The promise *)

\* The journal as the promise sees it.
Intent == [stage |-> Stage, from |-> journal.from, target |-> journal.target]

\* Only the writes and the removal of the journal and the installation of the
\* document are steps of the promise.
LEMMA PromiseMoves ==
  ASSUME NoLogin, TypeOK, Next
  PROVE  \/ UNCHANGED <<native.id, journal>>
         \/ WriteCheckpoint \/ WriteCheckpointFails
         \/ Install \/ InstallFails
         \/ ClearCheckpoint \/ ClearCheckpointFails
<1> USE DEF run, volatile, disk, world, history, trail
<1>1. CASE \E r \in Requests : Begin(r)
  BY <1>1 DEF Begin
<1>2. CASE Answer
  BY <1>2 DEF Answer, Reauthenticate, Approve, Decline
<1>3. CASE Call
  BY <1>3 DEF Call, RefuseUnfinished, RefusePreview, FirstPreview,
         PrepareTarget, SignIn, PrepareTargetFails, PrepareKeeps,
         TargetRenewed, TargetLost, SecondPreview, FreshPreview, Snapshot,
         SnapshotFails, StopInspect, StopCommand, StopConfirm,
         StopFails, SaveActive, SaveActiveFails, Activate, ActivateFails,
         Reread, RereadFails, Start, StartFails, Verify, VerifyFails
<1>4. CASE Outside
  <2>1. UNCHANGED journal
    BY <1>4 DEF Outside, Interrupt, Crash, OutsideLogin, DaemonRotates,
       StandaloneRotates, RotateNative, UserStartsDaemon, DaemonDies,
       DaemonSettles, TurnChanges, QuotaAges
  <2>2. native'.id = native.id
    BY <1>4 DEF Outside, Interrupt, Crash, OutsideLogin, DaemonRotates,
       StandaloneRotates, RotateNative, UserStartsDaemon, DaemonDies,
       DaemonSettles, TurnChanges, QuotaAges, NoLogin, Acting, TypeOK, DiskOK,
       Document
  <2> QED BY <2>1, <2>2
<1> QED BY <1>1, <1>2, <1>3, <1>4 DEF Next

\* A checkpoint announces the switch, concludes it, or says nothing new.
LEMMA WriteKeepsPromise ==
  ASSUME RecordInv, LoginInv, TypeOK, pc = "write",
         journal' = Checkpoint(phase), UNCHANGED native
  PROVE  P!Next \/ UNCHANGED <<native.id, Intent>>
<1>1. /\ journal'.phase = phase /\ journal'.from = plan.active
      /\ journal'.target = req.target
  BY DEF Checkpoint
<1>2. phase \in Phases /\ req.target \in Accounts /\ plan.active # req.target
  BY DEF TypeOK, RunOK, Request, RecordInv, OpeningInv, Journaling
<1>3. CASE phase = "prepared"
  <2>1. journal = NoJournal /\ native.id = plan.active
    BY <1>3 DEF RecordInv, OpeningInv, LoginInv, Writing
  <2>2. Intent = P!NoIntent
    BY <2>1 DEF Intent, Stage, NoJournal, P!NoIntent
  <2>3. Intent' = P!Open(native.id, req.target)
    BY <1>1, <1>3, <2>1 DEF Intent, Stage, P!Open
  <2>4. P!Announce(req.target)
    BY <1>2, <2>1, <2>2, <2>3 DEF P!Announce, Intent
  <2> QED BY <1>2, <2>4 DEF P!Next
<1>4. CASE phase # "prepared"
  <2>1. /\ journal.from = plan.active /\ journal.target = req.target
        /\ journal.phase \in {"prepared", "stopping", "activating", "starting",
                              "rolling_back"}
    BY <1>2, <1>4 DEF RecordInv, CheckpointInv, Writing, Journaling, Phases
  <2>2. Stage = "open"
    BY <2>1 DEF Stage
  <2>3. CASE phase \in {"committed", "rolled_back"}
    <3>1. PICK stage \in {"switched", "restored"} :
            stage = IF phase = "committed" THEN "switched" ELSE "restored"
      OBVIOUS
    <3>2. Stage' = stage
      BY <1>1, <2>3, <3>1 DEF Stage
    <3>3. Intent' = [Intent EXCEPT !.stage = stage]
      BY <1>1, <2>1, <3>2 DEF Intent
    <3>4. native.id = IF stage = "switched" THEN journal.target ELSE journal.from
      BY <2>1, <2>3, <3>1 DEF LoginInv, Writing
    <3>5. P!Conclude(stage)
      BY <2>2, <3>3, <3>4 DEF P!Conclude, Intent
    <3> QED BY <3>5 DEF P!Next
  <2>4. CASE phase \notin {"committed", "rolled_back"}
    <3>1. Stage' = "open"
      BY <1>1, <1>2, <2>4 DEF Stage, Phases
    <3> QED BY <1>1, <2>1, <2>2, <3>1 DEF Intent
  <2> QED BY <2>3, <2>4
<1> QED BY <1>3, <1>4

\* The installation selects one of the two accounts of the open intent.
LEMMA InstallKeepsPromise ==
  ASSUME RecordInv, AllowedInv, TypeOK, pc = "install", Replace,
         UNCHANGED journal
  PROVE  P!Next
<1>1. /\ journal.from = plan.active /\ journal.target = req.target
      /\ journal.phase \in {"activating", "rolling_back"}
  BY DEF RecordInv, CheckpointInv, Writing, Journaling, Installing
<1>2. native'.id = Handle /\ Handle \in {plan.active, req.target}
  BY DEF Replace, AllowedInv, Handle
<1>3. Handle \in P!Identities
  BY <1>2 DEF TypeOK, RunOK, Inspections, Request, Identities, P!Identities
<1>4. Stage = "open" /\ UNCHANGED Intent
  BY <1>1 DEF Stage, Intent
<1>5. P!Select(Handle)
  BY <1>1, <1>2, <1>4 DEF P!Select, Intent
<1> QED BY <1>3, <1>5 DEF P!Next

\* The journal goes only after its last phase said how the switch ended.
LEMMA ClearKeepsPromise ==
  ASSUME RecordInv, TypeOK, pc = "clear", journal' = NoJournal, UNCHANGED native
  PROVE  P!Next
<1>1. journal.phase \in {"rolled_back", "committed"}
  BY DEF RecordInv, CheckpointInv
<1>2. Stage \in {"switched", "restored"}
  BY <1>1 DEF Stage
<1>3. Intent' = P!NoIntent
  BY DEF Intent, Stage, NoJournal, P!NoIntent
<1>4. P!Forget
  BY <1>2, <1>3 DEF P!Forget, Intent
<1> QED BY <1>4 DEF P!Next

\* Execute and rollback, with their failures, crashes and reruns, implement the
\* promise of a switch as long as no other program logs in: the login moves only
\* under an intent on record and only between its two accounts, and the intent
\* goes only after it was concluded with the login where it says.
THEOREM SwitchIsKept ==
  ASSUME NoLogin
  PROVE  Spec => KeepsPromise
<1>1. ASSUME Init PROVE P!Init
  <2>1. native.id \in P!Identities
    BY <1>1, InitTypes DEF TypeOK, DiskOK, Document, Identities, P!Identities
  <2>2. Intent = P!NoIntent
    BY <1>1 DEF Init, Intent, Stage, NoJournal, P!NoIntent
  <2> QED BY <2>1, <2>2 DEF P!Init, Intent
<1>2. ASSUME TypeOK, RecordInv, AllowedInv, LoginInv, [Next]_vars
      PROVE  [P!Next]_<<native.id, Intent>>
  <2>1. CASE UNCHANGED vars
    BY <2>1 DEF vars, disk, Intent, Stage
  <2>2. CASE UNCHANGED <<native.id, journal>>
    BY <2>2 DEF Intent, Stage
  <2>3. CASE WriteCheckpoint \/ WriteCheckpointFails
    <3>1. pc = "write" /\ UNCHANGED native /\ journal' \in {journal, Checkpoint(phase)}
      BY <2>3 DEF WriteCheckpoint, WriteCheckpointFails
    <3> QED BY <1>2, <2>2, <3>1, WriteKeepsPromise
  <2>4. CASE Install \/ InstallFails
    <3>1. /\ pc = "install" /\ UNCHANGED journal
          /\ Replace \/ UNCHANGED native
      BY <2>4 DEF Install, InstallFails
    <3> QED BY <1>2, <2>2, <3>1, InstallKeepsPromise
  <2>5. CASE ClearCheckpoint \/ ClearCheckpointFails
    <3>1. pc = "clear" /\ UNCHANGED native /\ journal' \in {journal, NoJournal}
      BY <2>5 DEF ClearCheckpoint, ClearCheckpointFails
    <3> QED BY <1>2, <2>2, <3>1, ClearKeepsPromise
  <2> QED BY <1>2, <2>1, <2>2, <2>3, <2>4, <2>5, PromiseMoves
<1>3. P!Spec <=> P!Init /\ [][P!Next]_<<native.id, Intent>>
  BY DEF P!Spec, Intent
<1> QED BY <1>1, <1>2, <1>3, TypeCorrect, RecordKept, LoginFollowsPlan, PTL
        DEF Spec, KeepsPromise
=============================================================================
