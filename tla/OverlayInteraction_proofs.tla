----------------------- MODULE OverlayInteraction_proofs -----------------------
(***************************************************************************)
(* Proofs about OverlayInteraction, for any number of windows, queue       *)
(* capacities, bounds and settings.  The first part establishes IInv, the  *)
(* types and the exclusion of interactions.  The second is about what the  *)
(* threads do with the windows: the queues stay short, an interaction that *)
(* finishes is served, a window stands at a preview position only for an   *)
(* active interaction, and the threads implement WindowGrab.               *)
(***************************************************************************)
EXTENDS OverlayInteraction, TLAPS

-------------------------------------------------------------------------------
\* The data exchanged between the threads has its type.

LEMMA RectTypes ==
  /\ StartRect \in Rect
  /\ \A id \in InteractionId : AnchoredRect(id) \in Rect /\ LiveRect(id) \in Rect /\ ParkedRect(id) \in Rect
  /\ \A s \in Session, kind \in RectKind : ComputedRect(s, kind) \in Rect
BY MaxInteractionsAssumption
   DEF StartRect, AnchoredRect, LiveRect, ParkedRect, ComputedRect, OffScreen, Rect, RectKind,
       InteractionId, Session

LEMMA RequestType ==
  ASSUME NEW s \in Session, NEW kind \in PlacementKind, NEW r \in Rect
  PROVE  Request(s, kind, r) \in PlacementRequest
BY DEF Request, PlacementRequest, Session

LEMMA CommandTypes ==
  /\ \A s \in Session : BeginCmd(s) \in Command
  /\ \A id \in InteractionId : CommitCmd(id) \in Command /\ CancelCmd(id) \in Command
BY DEF BeginCmd, CommitCmd, CancelCmd, Command

LEMMA NullsDiffer ==
  /\ NoSession \notin Session
  /\ NoRequest \notin PlacementRequest
  /\ NoWindow \notin Windows
BY NullAssumption

LEMMA InitTypeOK == Init => TypeOK
<1> SUFFICES ASSUME Init PROVE TypeOK
  OBVIOUS
<1>1. WorkerTypeOK
  <2>1. StartRect \in Rect
    BY RectTypes
  <2>2. place \in [Windows -> Rect]
    BY <2>1 DEF Init, WorkerInit
  <2>3. results \in Seq(PlacementResult)
    BY DEF Init, WorkerInit
  <2> QED
    BY <2>2, <2>3 DEF Init, WorkerInit, WorkerTypeOK
<1>2. MouseTypeOK
  <2>1. op \in Operation
    BY RectTypes, MaxInteractionsAssumption
       DEF Init, MouseInit, NoOp, Operation, OpStep, SessionType, MaxInteractionsAssumption
  <2>2. nextId \in 1..(MaxInteractions + 1)
    BY MaxInteractionsAssumption DEF Init, MouseInit, MaxInteractionsAssumption
  <2>3. commands \in Seq(Command)
    BY DEF Init, MouseInit
  <2>4. op.step = "none"
    BY DEF Init, MouseInit, NoOp
  <2> QED
    BY <2>1, <2>2, <2>3, <2>4 DEF Init, MouseInit, MouseTypeOK, WaitState
<1>3. preview \in PreviewState
  BY DEF Init, NoPreview, PreviewState, OverlayPreview, CaptureStage
<1>4. posted \in [Windows -> Seq(Rect)]
  BY DEF Init
<1>5. failures \in 0..MaxFailures
  BY OverlayAssumption DEF Init, OverlayAssumption
<1> QED
  BY <1>1, <1>2, <1>3, <1>4, <1>5 DEF Init, TypeOK

-------------------------------------------------------------------------------
\* The worker.

LEMMA EnsureAndSubmitTypeOK ==
  ASSUME WorkerTypeOK, NEW r \in PlacementRequest, EnsureAndSubmit(r)
  PROVE  WorkerTypeOK'
BY DEF WorkerTypeOK, EnsureAndSubmit

LEMMA WorkerNextTypeOK ==
  ASSUME WorkerTypeOK, WorkerNext
  PROVE  WorkerTypeOK'
<1>1. CASE TakeRequest
  BY <1>1 DEF TakeRequest, WorkerTypeOK
<1>2. CASE PlaceWindow
  <2>1. current.rect \in Rect
    BY <1>2 DEF PlaceWindow, WorkerTypeOK, PlacementRequest
  <2>2. place' \in [Windows -> Rect]
    BY <1>2, <2>1 DEF PlaceWindow, WorkerTypeOK
  <2> QED
    BY <1>2, <2>2 DEF PlaceWindow, WorkerTypeOK
<1>3. CASE PublishResult
  <2>1. [id |-> current.id, kind |-> current.kind] \in PlacementResult
    BY <1>3 DEF PublishResult, WorkerTypeOK, PlacementRequest, PlacementResult
  <2>2. results' \in Seq(PlacementResult)
    BY <1>3, <2>1 DEF PublishResult, WorkerTypeOK
  <2> QED
    BY <1>3, <2>2 DEF PublishResult, WorkerTypeOK
<1> QED
  BY <1>1, <1>2, <1>3 DEF WorkerNext

-------------------------------------------------------------------------------
\* The mouse dispatch thread.

LEMMA SendTypeOK ==
  ASSUME MouseTypeOK, NEW cmd \in Command, Send(cmd)
  PROVE  commands' \in Seq(Command) /\ wait' \in WaitState /\ reserved' \in BOOLEAN
BY DEF MouseTypeOK, Send, NotifyOverlay, WaitState

LEMMA OpSessionType ==
  ASSUME MouseTypeOK, op.step \in {"reserved", "running"}
  PROVE  OpSession \in Session
BY DEF MouseTypeOK, OpSession, Session, Operation

LEMMA NoOpType ==
  NoOp \in [step : {"none"}, target : {NoWindow}, type : SessionType, id : {0}, rect : Rect]
BY RectTypes DEF NoOp, SessionType

LEMMA MouseNextTypeOK ==
  ASSUME WorkerTypeOK, MouseTypeOK, MouseNext
  PROVE  WorkerTypeOK' /\ MouseTypeOK'
<1> USE MaxInteractionsAssumption, NoOpType
<1> USE DEF MaxInteractionsAssumption, Operation, OpStep, channelVars, workerVars
<1>1. ASSUME NEW w \in Windows, NEW type \in SessionType, SelectTarget(w, type)
      PROVE  WorkerTypeOK' /\ MouseTypeOK'
  <2>1. op' \in Operation
    <3>1. op' = [step |-> "selected", target |-> w, type |-> type, id |-> 0, rect |-> StartRect]
      BY <1>1 DEF SelectTarget, NoOp
    <3> QED
      BY <3>1, RectTypes
  <2>2. op'.step = "selected" /\ op'.target = w
    BY <1>1 DEF SelectTarget
  <2> QED
    BY <1>1, <2>1, <2>2 DEF SelectTarget, MouseTypeOK, WorkerTypeOK
<1>2. CASE RejectTarget
  BY <1>2 DEF RejectTarget, MouseTypeOK, WorkerTypeOK
<1>3. CASE MeasureTarget
  <2>1. nextId \in InteractionId /\ place[op.target] \in Rect
    BY <1>3 DEF MeasureTarget, MouseTypeOK, WorkerTypeOK, InteractionId
  <2>2. op' \in Operation
    <3>1. op' = [step |-> "measured", target |-> op.target, type |-> op.type, id |-> nextId,
                 rect |-> place[op.target]]
      BY <1>3 DEF MeasureTarget, MouseTypeOK
    <3> QED
      BY <3>1, <2>1, <1>3 DEF MouseTypeOK, InteractionId
  <2>3. op'.step = "measured" /\ op'.target = op.target /\ op'.id = nextId
    BY <1>3 DEF MeasureTarget, MouseTypeOK
  <2>4. nextId' \in 1..(MaxInteractions + 1)
    BY <1>3, <2>1 DEF MeasureTarget, InteractionId
  <2> QED
    BY <1>3, <2>1, <2>2, <2>3, <2>4 DEF MeasureTarget, MouseTypeOK, WorkerTypeOK
<1>4. CASE RestoreMaximized
  <2>1. AnchoredRect(op.id) \in Rect
    BY <1>4, RectTypes DEF RestoreMaximized, MouseTypeOK
  <2> QED
    BY <1>4, <2>1 DEF RestoreMaximized, MouseTypeOK, WorkerTypeOK
<1>5. CASE RestoreMaximizedFails
  BY <1>5 DEF RestoreMaximizedFails, MouseTypeOK, WorkerTypeOK
<1>6. CASE ReserveInteraction
  BY <1>6 DEF ReserveInteraction, MouseTypeOK, WorkerTypeOK
<1>7. CASE PushBegin
  <2>1. BeginCmd(OpSession) \in Command
    BY <1>7, OpSessionType, CommandTypes DEF PushBegin
  <2>2. commands' \in Seq(Command)
    <3>1. commands' = Append(commands, BeginCmd(OpSession)) \/ commands' = commands
      BY <1>7 DEF PushBegin
    <3> QED
      BY <3>1, <2>1 DEF MouseTypeOK
  <2>3. wait' \in WaitState /\ reserved' \in BOOLEAN /\ previewGrab' \in BOOLEAN
    BY <1>7 DEF PushBegin, NotifyOverlay, MouseTypeOK, WaitState
  <2>4. /\ op' \in Operation
        /\ op'.step # "none" => op'.target \in Windows
        /\ op'.step \in {"measured", "reserved", "running"} => op'.id \in InteractionId
        /\ op'.step # "selected"
    <3>1. op' = [op EXCEPT !.step = "running"] \/ op' = NoOp
      BY <1>7 DEF PushBegin
    <3>2. op \in Operation /\ op.target \in Windows /\ op.id \in InteractionId
      BY <1>7 DEF PushBegin, MouseTypeOK
    <3>3. NoOp \in Operation /\ NoOp.step = "none"
      OBVIOUS
    <3> QED
      BY <3>1, <3>2, <3>3 DEF Operation, OpStep
  <2> QED
    BY <1>7, <2>2, <2>3, <2>4 DEF PushBegin, MouseTypeOK, WorkerTypeOK
<1>8. CASE FinishOperation
  <2>1. CommitCmd(op.id) \in Command
    BY <1>8, CommandTypes DEF FinishOperation, MouseTypeOK
  <2> QED
    BY <1>8, <2>1, SendTypeOK DEF FinishOperation, MouseTypeOK, WorkerTypeOK
<1>9. CASE CancelOperation
  <2>1. CancelCmd(op.id) \in Command
    BY <1>9, CommandTypes DEF CancelOperation, MouseTypeOK
  <2> QED
    BY <1>9, <2>1, SendTypeOK DEF CancelOperation, MouseTypeOK, WorkerTypeOK
<1> QED
  BY <1>1, <1>2, <1>3, <1>4, <1>5, <1>6, <1>7, <1>8, <1>9 DEF MouseNext

-------------------------------------------------------------------------------
\* The overlay thread.

\* What the loop may do to the mouse's variables.
LEMMA MouseFrame ==
  ASSUME MouseTypeOK, UNCHANGED <<mouseVars, stop>>,
         commands' \in Seq(Command), reserved' \in BOOLEAN, wait' \in WaitState
  PROVE  MouseTypeOK'
BY DEF MouseTypeOK, mouseVars

LEMMA NoPreviewType == NoPreview \in PreviewState
BY DEF NoPreview, PreviewState, OverlayPreview, CaptureStage

LEMMA CompleteTypeOK ==
  ASSUME Complete
  PROVE  active' \in Session \cup {NoSession} /\ preview' \in PreviewState /\ reserved' \in BOOLEAN
BY NoPreviewType DEF Complete

\* A command or a result that is not ignored belongs to the active session.
LEMMA ActiveIdIsSession ==
  ASSUME TypeOK, NEW id \in InteractionId, id = ActiveId
  PROVE  IsActive /\ active \in Session
BY NullsDiffer, MaxInteractionsAssumption DEF ActiveId, IsActive, TypeOK, InteractionId, MaxInteractionsAssumption

LEMMA HeadType ==
  /\ MouseTypeOK /\ commands # <<>> =>
       /\ Head(commands) \in Command
       /\ Tail(commands) \in Seq(Command)
       /\ Head(commands).op = "begin" => Head(commands).session \in Session
       /\ Head(commands).op # "begin" => Head(commands).id \in InteractionId
  /\ WorkerTypeOK /\ results # <<>> =>
       Tail(results) \in Seq(PlacementResult) /\ Head(results).id \in InteractionId
<1>1. ASSUME MouseTypeOK, commands # <<>>
      PROVE  Head(commands) \in Command /\ Tail(commands) \in Seq(Command)
  BY <1>1 DEF MouseTypeOK
<1>2. ASSUME WorkerTypeOK, results # <<>>
      PROVE  Head(results) \in PlacementResult /\ Tail(results) \in Seq(PlacementResult)
  BY <1>2 DEF WorkerTypeOK
<1> QED
  BY <1>1, <1>2 DEF Command, PlacementResult

\* Steps of the loop that only move it, or that flip its flags.
LEMMA LoopMovesTypeOK ==
  ASSUME TypeOK,
         StartLoop \/ WaitForWork \/ FallAsleep \/ NextFrame \/ LeaveLoop \/ RefreshSettings \/ RenderFails
  PROVE  TypeOK'
<1> USE DEF TypeOK, channelVars, workerVars, settingsVars, overlayVars
<1>1. CASE StartLoop
  <2>1. MouseTypeOK'
    BY <1>1, MouseFrame DEF StartLoop, MouseTypeOK
  <2> QED
    BY <1>1, <2>1 DEF StartLoop, WorkerTypeOK
<1>2. CASE WaitForWork
  <2>1. wait' \in WaitState
    BY <1>2 DEF WaitForWork, MouseTypeOK, WaitState
  <2>2. MouseTypeOK'
    BY <1>2, <2>1, MouseFrame DEF WaitForWork, MouseTypeOK
  <2> QED
    BY <1>2, <2>2 DEF WaitForWork, WorkerTypeOK
<1>3. CASE FallAsleep
  BY <1>3, MouseFrame DEF FallAsleep, MouseTypeOK, WorkerTypeOK, WaitState
<1>4. CASE NextFrame
  BY <1>4, MouseFrame DEF NextFrame, MouseTypeOK, WorkerTypeOK
<1>5. CASE LeaveLoop
  BY <1>5, MouseFrame DEF LeaveLoop, MouseTypeOK, WorkerTypeOK
<1>6. CASE RefreshSettings
  <2>1. pc' = "commands" /\ settingsDirty' = FALSE /\ (snapshot' = settings \/ snapshot' = snapshot)
    BY <1>6 DEF RefreshSettings
  <2>2. UNCHANGED <<mouseVars, channelVars, workerVars, stop, pass, active, preview, visible,
                    failures, settings, posted>>
    BY <1>6 DEF RefreshSettings
  <2>3. MouseTypeOK'
    BY <2>2, MouseFrame DEF MouseTypeOK
  <2>4. WorkerTypeOK'
    BY <2>2 DEF WorkerTypeOK
  <2> QED
    BY <2>1, <2>2, <2>3, <2>4
<1>7. CASE RenderFails
  BY <1>7, MouseFrame, OverlayAssumption DEF RenderFails, MouseTypeOK, WorkerTypeOK, OverlayAssumption
<1> QED
  BY <1>1, <1>2, <1>3, <1>4, <1>5, <1>6, <1>7

LEMMA DrainResultTypeOK == TypeOK /\ DrainResult => TypeOK'
<1> SUFFICES ASSUME TypeOK, DrainResult PROVE TypeOK'
  OBVIOUS
<1>1. results' \in Seq(PlacementResult)
  BY HeadType DEF DrainResult, TypeOK
<1>2. active' \in Session \cup {NoSession} /\ preview' \in PreviewState /\ reserved' \in BOOLEAN
  BY CompleteTypeOK DEF DrainResult, TypeOK, MouseTypeOK
<1>3. WorkerTypeOK'
  BY <1>1 DEF DrainResult, TypeOK, WorkerTypeOK
<1>4. MouseTypeOK'
  BY <1>2, MouseFrame DEF DrainResult, TypeOK, MouseTypeOK
<1> QED
  BY <1>2, <1>3, <1>4 DEF DrainResult, TypeOK, settingsVars

\* Steps that apply a command.
LEMMA ApplyTypeOK ==
  ASSUME TypeOK,
         ApplyBegin \/ ApplyStale \/ ApplyCommitByPost \/ ApplyCommitByWorker \/ ApplyCancel
  PROVE  TypeOK'
<1> USE DEF channelVars, settingsVars
<1>0. commands # <<>> /\ commands' \in Seq(Command)
  BY HeadType DEF PopCommand, ApplyBegin, ApplyStale, ApplyCommitByPost, ApplyCommitByWorker,
                  ApplyCancel, TypeOK
<1>1. CASE ApplyBegin
  <2>1. Head(commands).session \in Session
    BY <1>0, <1>1, HeadType DEF ApplyBegin, TypeOK
  <2>2. ASSUME ~IsActive
        PROVE  preview' \in PreviewState
    <3>1. ModeOf(settings, Head(commands).session.type) \in OverlayPreview
      BY OverlayAssumption DEF ModeOf, OverlayAssumption, TypeOK
    <3> QED
      BY <1>1, <2>2, <3>1, NoPreviewType DEF ApplyBegin, PreviewState, CaptureStage, NoPreview
  <2>3. active' \in Session \cup {NoSession} /\ preview' \in PreviewState /\ snapshot' \in SettingsValues
    BY <1>1, <2>1, <2>2 DEF ApplyBegin, TypeOK
  <2>4. worker' \in BOOLEAN
    BY <1>1 DEF ApplyBegin, TypeOK, WorkerTypeOK
  <2>5. WorkerTypeOK'
    BY <1>1, <2>4 DEF ApplyBegin, TypeOK, WorkerTypeOK
  <2>6. MouseTypeOK'
    BY <1>0, <1>1, MouseFrame DEF ApplyBegin, TypeOK, MouseTypeOK
  <2> QED
    BY <1>1, <2>3, <2>5, <2>6 DEF ApplyBegin, TypeOK
<1>2. CASE ApplyStale
  <2>1. MouseTypeOK'
    BY <1>0, <1>2, MouseFrame DEF ApplyStale, TypeOK, MouseTypeOK
  <2> QED
    BY <1>2, <2>1 DEF ApplyStale, TypeOK, WorkerTypeOK, workerVars, overlayVars
<1>3. CASE ApplyCommitByPost
  <2>1. active \in Session
    BY <1>0, <1>3, HeadType, ActiveIdIsSession DEF ApplyCommitByPost, TypeOK
  <2>2. ComputedRect(active, "final") \in Rect
    BY <2>1, RectTypes DEF RectKind
  <2>3. posted' \in [Windows -> Seq(Rect)]
    <3>1. active.target \in Windows
      BY <2>1 DEF Session
    <3>2. posted' = [posted EXCEPT ![active.target] =
                       IF active.target \in Immovable
                       THEN posted[active.target]
                       ELSE Append(posted[active.target], ComputedRect(active, "final"))]
      BY <1>3 DEF ApplyCommitByPost
    <3>3. Append(posted[active.target], ComputedRect(active, "final")) \in Seq(Rect)
      BY <2>2, <3>1 DEF TypeOK
    <3> QED
      BY <3>1, <3>2, <3>3 DEF TypeOK
  <2>4. active' \in Session \cup {NoSession} /\ preview' \in PreviewState /\ reserved' \in BOOLEAN
    BY <1>3, CompleteTypeOK DEF ApplyCommitByPost
  <2>5. MouseTypeOK'
    BY <1>0, <1>3, <2>4, MouseFrame DEF ApplyCommitByPost, TypeOK, MouseTypeOK
  <2> QED
    BY <1>3, <2>3, <2>4, <2>5 DEF ApplyCommitByPost, TypeOK, WorkerTypeOK, workerVars
<1>4. CASE ApplyCommitByWorker
  <2>1. active \in Session
    BY <1>0, <1>4, HeadType, ActiveIdIsSession DEF ApplyCommitByWorker, TypeOK
  <2>2. ComputedRect(active, "final") \in Rect
    BY <2>1, RectTypes DEF RectKind
  <2>3. Request(active, "Commit", ComputedRect(active, "final")) \in PlacementRequest
    BY <2>1, <2>2, RequestType DEF PlacementKind
  <2>4. WorkerTypeOK'
    BY <1>4, <2>3, EnsureAndSubmitTypeOK DEF ApplyCommitByWorker, TypeOK
  <2>5. preview' \in PreviewState
    BY <1>4 DEF ApplyCommitByWorker, TypeOK, PreviewState, CaptureStage
  <2>6. MouseTypeOK'
    BY <1>0, <1>4, MouseFrame DEF ApplyCommitByWorker, TypeOK, MouseTypeOK
  <2> QED
    BY <1>4, <2>4, <2>5, <2>6 DEF ApplyCommitByWorker, TypeOK
<1>5. CASE ApplyCancel
  <2>1. active \in Session
    BY <1>0, <1>5, HeadType, ActiveIdIsSession DEF ApplyCancel, TypeOK
  <2>2. Request(active, "Restore", active.originalRawRect) \in PlacementRequest
    BY <2>1, RequestType DEF PlacementKind, Session
  <2>3. WorkerTypeOK'
    BY <1>5, <2>2, EnsureAndSubmitTypeOK DEF ApplyCancel, TypeOK, WorkerTypeOK, workerVars
  <2>4. /\ active' \in Session \cup {NoSession}
        /\ preview' \in PreviewState
        /\ reserved' \in BOOLEAN
    <3>1. CASE PlacementChanged /\ worker
      BY <1>5, <3>1 DEF ApplyCancel, TypeOK, MouseTypeOK, PreviewState, CaptureStage
    <3>2. CASE ~(PlacementChanged /\ worker)
      BY <1>5, <3>2, CompleteTypeOK DEF ApplyCancel
    <3> QED
      BY <3>1, <3>2
  <2>5. MouseTypeOK'
    BY <1>0, <1>5, <2>4, MouseFrame DEF ApplyCancel, TypeOK, MouseTypeOK
  <2> QED
    BY <1>5, <2>3, <2>4, <2>5 DEF ApplyCancel, TypeOK
<1> QED
  BY <1>1, <1>2, <1>3, <1>4, <1>5

LEMMA SettleTypeOK ==
  ASSUME TypeOK,
         SettleIdle \/ ShowOverlay \/ ShowFails \/ HideOverlay \/ BreakLoop \/ BeginFrame
  PROVE  TypeOK'
<1>1. PICK next \in {"top", "results", "fail", "exit", "draw"} : Settle(next)
  BY DEF SettleIdle, ShowOverlay, ShowFails, HideOverlay, BreakLoop, BeginFrame
<1>2. WorkerTypeOK'
  BY <1>1 DEF Settle, TypeOK, WorkerTypeOK
<1>3. MouseTypeOK'
  BY <1>1, MouseFrame DEF Settle, TypeOK, MouseTypeOK, channelVars
<1>4. pass' \in {"idle", "active"} /\ visible' \in BOOLEAN
  BY DEF SettleIdle, ShowOverlay, ShowFails, HideOverlay, BreakLoop, BeginFrame, TypeOK
<1>5. failures' \in 0..MaxFailures
  BY OverlayAssumption DEF SettleIdle, ShowOverlay, ShowFails, HideOverlay, BreakLoop, BeginFrame,
                           TypeOK, OverlayAssumption
<1> QED
  BY <1>1, <1>2, <1>3, <1>4, <1>5 DEF Settle, TypeOK, settingsVars

LEMMA FrameTypeOK ==
  ASSUME TypeOK, ActiveWhileDrawing, CaptureFrame \/ ParkFrame \/ LiveFrame \/ PlainFrame
  PROVE  TypeOK'
<1> USE DEF channelVars, settingsVars
<1>1. ASSUME NEW p \in PreviewState, Frame(p), WorkerTypeOK'
      PROVE  TypeOK'
  <2>1. MouseTypeOK'
    BY <1>1, MouseFrame DEF Frame, TypeOK, MouseTypeOK
  <2> QED
    BY <1>1, <2>1 DEF Frame, TypeOK
<1>2. active \in Session
  BY DEF CaptureFrame, ParkFrame, LiveFrame, PlainFrame, Frame, ActiveWhileDrawing, IsActive, TypeOK
<1>3. CASE CaptureFrame
  <2>1. PICK next \in {"captureInProgress", "parkPending", "none"} :
          Frame([preview EXCEPT !.stage = next])
    BY <1>3 DEF CaptureFrame
  <2>2. [preview EXCEPT !.stage = next] \in PreviewState
    BY DEF TypeOK, PreviewState, CaptureStage
  <2>3. WorkerTypeOK'
    BY <1>3 DEF CaptureFrame, TypeOK, WorkerTypeOK, workerVars
  <2> QED
    BY <1>1, <2>1, <2>2, <2>3
<1>4. CASE ParkFrame
  <2>1. ParkedRect(active.id) \in Rect
    BY <1>2, RectTypes DEF Session
  <2>2. Request(active, "Park", ParkedRect(active.id)) \in PlacementRequest
    BY <1>2, <2>1, RequestType DEF PlacementKind
  <2>3. WorkerTypeOK'
    BY <1>4, <2>2, EnsureAndSubmitTypeOK DEF ParkFrame, TypeOK
  <2>4. [preview EXCEPT !.stage = "none", !.parkSubmitted = TRUE] \in PreviewState
    BY DEF TypeOK, PreviewState, CaptureStage
  <2> QED
    BY <1>1, <1>4, <2>3, <2>4 DEF ParkFrame
<1>5. CASE LiveFrame
  <2>1. ComputedRect(active, "live") \in Rect
    BY <1>2, RectTypes DEF RectKind
  <2>2. Request(active, "Live", ComputedRect(active, "live")) \in PlacementRequest
    BY <1>2, <2>1, RequestType DEF PlacementKind
  <2>3. WorkerTypeOK'
    BY <1>5, <2>2, EnsureAndSubmitTypeOK DEF LiveFrame, TypeOK
  <2>4. [preview EXCEPT !.liveSubmitted = TRUE] \in PreviewState
    BY DEF TypeOK, PreviewState
  <2> QED
    BY <1>1, <1>5, <2>3, <2>4 DEF LiveFrame
<1>6. CASE PlainFrame
  <2>1. WorkerTypeOK'
    BY <1>6 DEF PlainFrame, TypeOK, WorkerTypeOK, workerVars
  <2> QED
    BY <1>1, <1>6, <2>1 DEF PlainFrame, TypeOK
<1> QED
  BY <1>3, <1>4, <1>5, <1>6

LEMMA TeardownTypeOK ==
  ASSUME TypeOK, RestoreBeforeTeardown \/ FinishTeardown
  PROVE  TypeOK'
<1>1. CASE RestoreBeforeTeardown
  <2>1. CASE IsActive /\ PlacementChanged /\ worker
    <3>1. Request(active, "Restore", active.originalRawRect) \in PlacementRequest
      BY <2>1, RequestType DEF TypeOK, IsActive, PlacementKind, Session
    <3>2. WorkerTypeOK'
      BY <1>1, <2>1, <3>1, EnsureAndSubmitTypeOK DEF RestoreBeforeTeardown, TypeOK
    <3>3. MouseTypeOK'
      BY <1>1, <2>1, MouseFrame DEF RestoreBeforeTeardown, TypeOK, MouseTypeOK
    <3> QED
      BY <1>1, <2>1, <3>2, <3>3 DEF RestoreBeforeTeardown, TypeOK, settingsVars
  <2>2. CASE ~(IsActive /\ PlacementChanged /\ worker)
    <3>1. Complete
      BY <1>1, <2>2 DEF RestoreBeforeTeardown
    <3>2. WorkerTypeOK'
      <4>1. results' = <<>> /\ UNCHANGED <<worker, pending, current, placed, place>>
        BY <1>1, <2>2 DEF RestoreBeforeTeardown
      <4> QED
        BY <4>1 DEF TypeOK, WorkerTypeOK
    <3>3. MouseTypeOK'
      BY <1>1, <3>1, CompleteTypeOK, MouseFrame DEF RestoreBeforeTeardown, TypeOK, MouseTypeOK
    <3> QED
      BY <1>1, <2>2, <3>1, <3>2, <3>3, CompleteTypeOK DEF RestoreBeforeTeardown, TypeOK, settingsVars
  <2> QED
    BY <2>1, <2>2
<1>2. CASE FinishTeardown
  <2>1. WorkerTypeOK'
    BY <1>2 DEF FinishTeardown, TypeOK, WorkerTypeOK
  <2>2. MouseTypeOK'
    BY <1>2, CompleteTypeOK, MouseFrame DEF FinishTeardown, TypeOK, MouseTypeOK
  <2> QED
    BY <1>2, <2>1, <2>2, CompleteTypeOK DEF FinishTeardown, TypeOK, settingsVars
<1> QED
  BY <1>1, <1>2

\* The other threads, seen from the loop.
LEMMA EnvironmentTypeOK ==
  ASSUME TypeOK,
         \/ MouseNext /\ UNCHANGED <<overlayVars, settingsVars, posted>>
         \/ WorkerStep
         \/ DestroyWorker
         \/ \E s \in SettingsValues : PublishSettings(s)
         \/ \E w \in Windows : WindowMoves(w)
         \/ Shutdown
  PROVE  TypeOK'
<1> USE DEF overlayVars, settingsVars
<1>1. CASE MouseNext /\ UNCHANGED <<overlayVars, settingsVars, posted>>
  BY <1>1, MouseNextTypeOK DEF TypeOK
<1>2. CASE WorkerStep
  <2>1. WorkerTypeOK'
    BY <1>2, WorkerNextTypeOK DEF WorkerStep, TypeOK
  <2>2. MouseTypeOK'
    BY <1>2, MouseFrame DEF WorkerStep, NotifyOverlay, TypeOK, MouseTypeOK, WaitState
  <2> QED
    BY <1>2, <2>1, <2>2 DEF WorkerStep, TypeOK
<1>3. CASE DestroyWorker
  BY <1>3, MouseFrame DEF DestroyWorker, TypeOK, MouseTypeOK, WorkerTypeOK, channelVars
<1>4. ASSUME NEW s \in SettingsValues, PublishSettings(s)
      PROVE  TypeOK'
  <2>1. MouseTypeOK'
    BY <1>4, MouseFrame DEF PublishSettings, NotifyOverlay, TypeOK, MouseTypeOK, WaitState
  <2> QED
    BY <1>4, <2>1 DEF PublishSettings, TypeOK, WorkerTypeOK, workerVars
<1>5. ASSUME NEW w \in Windows, WindowMoves(w)
      PROVE  TypeOK'
  <2>1. Head(posted[w]) \in Rect /\ Tail(posted[w]) \in Seq(Rect)
    BY <1>5 DEF WindowMoves, TypeOK
  <2>2. place' \in [Windows -> Rect] /\ posted' \in [Windows -> Seq(Rect)]
    BY <1>5, <2>1 DEF WindowMoves, TypeOK, WorkerTypeOK
  <2>3. WorkerTypeOK'
    BY <1>5, <2>2 DEF WindowMoves, TypeOK, WorkerTypeOK
  <2>4. MouseTypeOK'
    BY <1>5, MouseFrame DEF WindowMoves, TypeOK, MouseTypeOK, channelVars
  <2> QED
    BY <1>5, <2>2, <2>3, <2>4 DEF WindowMoves, TypeOK
<1>6. CASE Shutdown
  <2>1. MouseTypeOK'
    BY <1>6 DEF Shutdown, NotifyOverlay, TypeOK, MouseTypeOK, mouseVars, WaitState
  <2> QED
    BY <1>6, <2>1 DEF Shutdown, TypeOK, WorkerTypeOK, workerVars
<1> QED
  BY <1>1, <1>2, <1>3, <1>4, <1>5, <1>6

\* Every step keeps the types.
LEMMA NextTypeOK ==
  ASSUME TypeOK, ActiveWhileDrawing, [Next]_vars
  PROVE  TypeOK'
<1>1. CASE UNCHANGED vars
  BY <1>1 DEF TypeOK, WorkerTypeOK, MouseTypeOK, vars, mouseVars, channelVars, workerVars,
              overlayVars, settingsVars
<1>2. CASE OverlayNext
  BY <1>2, LoopMovesTypeOK, DrainResultTypeOK, ApplyTypeOK, SettleTypeOK, FrameTypeOK, TeardownTypeOK
     DEF OverlayNext
<1> QED
  BY <1>1, <1>2, EnvironmentTypeOK DEF Next

-------------------------------------------------------------------------------
\* The reservation.

LEMMA ActiveWhileDrawingStep ==
  ASSUME ActiveWhileDrawing, [Next]_vars
  PROVE  ActiveWhileDrawing'
<1> USE DEF ActiveWhileDrawing, IsActive
<1>1. CASE OverlayNext
  BY <1>1 DEF OverlayNext, StartLoop, WaitForWork, FallAsleep, NextFrame, LeaveLoop, DrainResult,
              RefreshSettings, ApplyBegin, ApplyStale, ApplyCommitByPost, ApplyCommitByWorker,
              ApplyCancel, PopCommand, SettleIdle, ShowOverlay, ShowFails, HideOverlay, BreakLoop, BeginFrame,
              Settle, CaptureFrame, ParkFrame, LiveFrame, PlainFrame, Frame, RenderFails,
              RestoreBeforeTeardown, FinishTeardown, overlayVars
<1>2. CASE ~OverlayNext
  <2>1. UNCHANGED <<pc, active>>
    BY <1>2 DEF Next, vars, overlayVars, WorkerStep, DestroyWorker, PublishSettings, WindowMoves, Shutdown
  <2> QED
    BY <2>1
<1> QED
  BY <1>1, <1>2

\* A command that begins nothing changes no queued Begin.
LEMMA AppendOther ==
  ASSUME MouseTypeOK, NEW cmd \in Command, cmd.op # "begin",
         commands' = Append(commands, cmd) \/ commands' = commands
  PROVE  QueuedBegins' = QueuedBegins
BY DEF QueuedBegins, MouseTypeOK

LEMMA AppendBegin ==
  ASSUME MouseTypeOK, NEW s \in Session, commands' = Append(commands, BeginCmd(s)), QueuedBegins = {}
  PROVE  QueuedBegins' = {Len(commands) + 1}
<1>1. BeginCmd(s) \in Command /\ BeginCmd(s).op = "begin"
  BY CommandTypes DEF BeginCmd
<1>2. /\ DOMAIN commands' = 1..(Len(commands) + 1)
      /\ commands'[Len(commands) + 1] = BeginCmd(s)
      /\ \A i \in DOMAIN commands : commands'[i] = commands[i]
      /\ DOMAIN commands = 1..Len(commands)
      /\ Len(commands) \in Nat
  BY <1>1 DEF MouseTypeOK
<1> QED
  BY <1>1, <1>2 DEF QueuedBegins

\* Popping shifts the queue by one.
LEMMA PopShifts ==
  ASSUME MouseTypeOK, commands # <<>>, commands' = Tail(commands)
  PROVE  /\ \A i \in QueuedBegins' : i + 1 \in QueuedBegins
         /\ \A i \in QueuedBegins : i # 1 => i - 1 \in QueuedBegins'
         /\ 1 \in QueuedBegins <=> Head(commands).op = "begin"
         /\ QueuedBegins \subseteq Nat
<1>1. /\ DOMAIN commands = 1..Len(commands)
      /\ Len(commands) \in Nat
      /\ Len(commands) # 0
      /\ DOMAIN commands' = 1..(Len(commands) - 1)
      /\ \A i \in DOMAIN commands' : commands'[i] = commands[i + 1]
      /\ Head(commands) = commands[1]
  BY DEF MouseTypeOK
<1> QED
  BY <1>1 DEF QueuedBegins

\* A step that leaves the owner and the flag alone.
LEMMA ReservationFrame ==
  ASSUME ReservationOwned, pc # "done", reserved' = reserved, QueuedBegins' = QueuedBegins,
         IsActive' <=> IsActive, op'.step = "reserved" <=> op.step = "reserved"
  PROVE  ReservationOwned'
BY DEF ReservationOwned

\* The interaction completes: the flag was its own.
LEMMA ReservationReleased ==
  ASSUME ReservationOwned, pc # "done", IsActive, Complete, QueuedBegins' = QueuedBegins, op' = op
  PROVE  ReservationOwned'
BY DEF ReservationOwned, Complete, IsActive

LEMMA DoneStays ==
  ASSUME pc = "done", [Next]_vars
  PROVE  pc' = "done"
<1>1. CASE OverlayNext
  BY <1>1 DEF OverlayNext, StartLoop, WaitForWork, FallAsleep, NextFrame, LeaveLoop, DrainResult,
              RefreshSettings, ApplyBegin, ApplyStale, ApplyCommitByPost, ApplyCommitByWorker,
              ApplyCancel, PopCommand, SettleIdle, ShowOverlay, ShowFails, HideOverlay, BreakLoop,
              BeginFrame, Settle, CaptureFrame, ParkFrame, LiveFrame, PlainFrame, Frame, RenderFails,
              RestoreBeforeTeardown, FinishTeardown, overlayVars
<1>2. CASE ~OverlayNext
  BY <1>2 DEF Next, vars, overlayVars, WorkerStep, DestroyWorker, PublishSettings, WindowMoves, Shutdown
<1> QED
  BY <1>1, <1>2

LEMMA QueueFrame ==
  ASSUME commands' = commands
  PROVE  QueuedBegins' = QueuedBegins
BY DEF QueuedBegins

LEMMA MouseReservation ==
  ASSUME IInv, pc # "done", MouseNext, UNCHANGED <<pc, active>>
  PROVE  ReservationOwned'
<1> USE DEF channelVars, IInv
<1>0. IsActive' <=> IsActive
  BY DEF IsActive
<1>1. CASE \/ \E w \in Windows, type \in SessionType : SelectTarget(w, type)
           \/ RejectTarget \/ MeasureTarget \/ RestoreMaximized \/ RestoreMaximizedFails
  <2>1. UNCHANGED <<commands, reserved>>
    BY <1>1 DEF SelectTarget, RejectTarget, MeasureTarget, RestoreMaximized, RestoreMaximizedFails
  <2>2. op.step # "reserved" /\ op'.step # "reserved"
    <3>1. CASE \E w \in Windows, type \in SessionType : SelectTarget(w, type)
      BY <3>1 DEF SelectTarget, NoOp
    <3>2. CASE RejectTarget \/ RestoreMaximizedFails
      BY <3>2 DEF RejectTarget, RestoreMaximizedFails, NoOp
    <3>3. CASE MeasureTarget \/ RestoreMaximized
      BY <3>3 DEF MeasureTarget, RestoreMaximized, TypeOK, MouseTypeOK, Operation
    <3> QED
      BY <1>1, <3>1, <3>2, <3>3
  <2> QED
    BY <1>0, <2>1, <2>2, QueueFrame, ReservationFrame
<1>2. CASE ReserveInteraction
  <2>1. QueuedBegins' = QueuedBegins
    BY <1>2, QueueFrame DEF ReserveInteraction
  <2>2. op.step = "measured" /\ reserved'
    BY <1>2 DEF ReserveInteraction
  <2>3. CASE reserved
    <3>1. op'.step # "reserved"
      BY <1>2, <2>3 DEF ReserveInteraction, NoOp
    <3> QED
      BY <1>0, <2>1, <2>2, <2>3, <3>1, ReservationFrame
  <2>4. CASE ~reserved
    <3>1. op'.step = "reserved"
      BY <1>2, <2>4 DEF ReserveInteraction, TypeOK, MouseTypeOK, Operation
    <3>2. ~IsActive /\ QueuedBegins = {}
      BY <2>4 DEF ReservationOwned
    <3> QED
      BY <1>0, <2>1, <2>2, <3>1, <3>2 DEF ReservationOwned
  <2> QED
    BY <2>3, <2>4 DEF TypeOK, MouseTypeOK
<1>3. CASE PushBegin
  <2>1. op.step = "reserved" /\ ~IsActive /\ QueuedBegins = {} /\ reserved
    BY <1>3 DEF PushBegin, ReservationOwned
  <2>2. op'.step # "reserved"
    BY <1>3 DEF PushBegin, NoOp, TypeOK, MouseTypeOK, Operation
  <2>3. CASE Len(commands) < CommandCapacity
    <3>1. commands' = Append(commands, BeginCmd(OpSession)) /\ reserved' = reserved
      BY <1>3, <2>3 DEF PushBegin
    <3>2. QueuedBegins' = {Len(commands) + 1}
      BY <2>1, <3>1, OpSessionType, AppendBegin DEF TypeOK
    <3> QED
      BY <1>0, <2>1, <2>2, <3>1, <3>2 DEF ReservationOwned
  <2>4. CASE ~(Len(commands) < CommandCapacity)
    <3>1. commands' = commands /\ ~reserved'
      BY <1>3, <2>4 DEF PushBegin
    <3> QED
      BY <1>0, <2>1, <2>2, <3>1, QueueFrame DEF ReservationOwned
  <2> QED
    BY <2>3, <2>4
<1>4. CASE FinishOperation \/ CancelOperation
  <2>1. PICK cmd \in Command : cmd.op # "begin" /\ Send(cmd)
    <3>1. op.id \in InteractionId
      BY <1>4 DEF FinishOperation, CancelOperation, TypeOK, MouseTypeOK
    <3>2. /\ CommitCmd(op.id) \in Command /\ CommitCmd(op.id).op # "begin"
          /\ CancelCmd(op.id) \in Command /\ CancelCmd(op.id).op # "begin"
      BY <3>1, CommandTypes DEF CommitCmd, CancelCmd
    <3> QED
      BY <1>4, <3>2 DEF FinishOperation, CancelOperation
  <2>2. QueuedBegins' = QueuedBegins /\ reserved' = reserved
    BY <2>1, AppendOther DEF Send, TypeOK
  <2>3. op.step # "reserved" /\ op'.step # "reserved"
    BY <1>4 DEF FinishOperation, CancelOperation, NoOp
  <2> QED
    BY <1>0, <2>2, <2>3, ReservationFrame
<1> QED
  BY <1>1, <1>2, <1>3, <1>4 DEF MouseNext

\* Popping a command that begins nothing leaves a Begin queued, or none.
LEMMA PopOther ==
  ASSUME ReservationOwned, MouseTypeOK, pc # "done", commands # <<>>, commands' = Tail(commands),
         Head(commands).op # "begin", reserved' = reserved, op' = op, IsActive' <=> IsActive
  PROVE  ReservationOwned'
<1>1. QueuedBegins' = {} <=> QueuedBegins = {}
  BY PopShifts
<1>2. \A i, j \in QueuedBegins' : i = j
  <2>1. \A i \in QueuedBegins' : i \in Nat
    BY DEF QueuedBegins, MouseTypeOK
  <2>2. SUFFICES ASSUME NEW i \in QueuedBegins', NEW j \in QueuedBegins' PROVE i = j
    OBVIOUS
  <2>3. i + 1 = j + 1
    BY PopShifts DEF ReservationOwned
  <2> QED
    BY <2>1, <2>3
<1> QED
  BY <1>1, <1>2 DEF ReservationOwned

LEMMA LoopReservation ==
  ASSUME IInv, pc # "done", OverlayNext
  PROVE  ReservationOwned'
<1> USE DEF channelVars, mouseVars, IInv
<1>1. CASE \/ StartLoop \/ WaitForWork \/ FallAsleep \/ NextFrame \/ LeaveLoop \/ RefreshSettings
           \/ SettleIdle \/ ShowOverlay \/ ShowFails \/ HideOverlay \/ BreakLoop \/ BeginFrame
           \/ CaptureFrame \/ ParkFrame \/ LiveFrame \/ PlainFrame \/ RenderFails
  <2>1. UNCHANGED <<commands, reserved, op, active>>
    BY <1>1 DEF StartLoop, WaitForWork, FallAsleep, NextFrame, LeaveLoop, RefreshSettings, SettleIdle,
                ShowOverlay, ShowFails, HideOverlay, BreakLoop, BeginFrame, Settle, CaptureFrame,
                ParkFrame, LiveFrame, PlainFrame, Frame, RenderFails, overlayVars
  <2> QED
    BY <2>1, QueueFrame, ReservationFrame DEF IsActive
<1>2. CASE DrainResult
  <2>1. UNCHANGED <<commands, op>>
    BY <1>2 DEF DrainResult
  <2>2. CASE Complete /\ Head(results).id = ActiveId
    <3>1. IsActive
      BY <1>2, <2>2, HeadType, ActiveIdIsSession DEF DrainResult, TypeOK
    <3> QED
      BY <2>1, <2>2, <3>1, QueueFrame, ReservationReleased
  <2>3. CASE UNCHANGED <<active, reserved>>
    BY <2>1, <2>3, QueueFrame, ReservationFrame DEF IsActive
  <2> QED
    BY <1>2, <2>2, <2>3 DEF DrainResult
<1>3. CASE ApplyBegin
  <2>1. /\ Head(commands).session \in Session
        /\ Head(commands).op = "begin"
        /\ commands # <<>> /\ commands' = Tail(commands)
        /\ UNCHANGED <<reserved, op>>
    BY <1>3, HeadType DEF ApplyBegin, PopCommand, TypeOK
  <2>2. 1 \in QueuedBegins
    BY <2>1, PopShifts DEF TypeOK
  <2>3. ~IsActive /\ op.step # "reserved" /\ reserved
    BY <2>2 DEF ReservationOwned
  <2>4. QueuedBegins' = {}
    <3>1. SUFFICES ASSUME NEW i \in QueuedBegins' PROVE FALSE
      OBVIOUS
    <3>2. i + 1 = 1
      BY <2>1, <2>2, PopShifts DEF ReservationOwned, TypeOK
    <3>3. i \in Nat /\ i # 0
      BY <2>1, HeadType DEF QueuedBegins, TypeOK
    <3> QED
      BY <3>2, <3>3
  <2>5. IsActive'
    BY <1>3, <2>1, <2>3, NullsDiffer DEF ApplyBegin, IsActive
  <2> QED
    BY <2>1, <2>3, <2>4, <2>5 DEF ReservationOwned
<1>4. CASE ApplyStale \/ ApplyCommitByWorker
  <2>1. /\ commands # <<>> /\ commands' = Tail(commands)
        /\ Head(commands).op # "begin"
        /\ UNCHANGED <<reserved, op, active>>
    BY <1>4 DEF ApplyStale, ApplyCommitByWorker, PopCommand, overlayVars
  <2> QED
    BY <2>1, PopOther DEF IsActive, TypeOK
<1>5. CASE ApplyCommitByPost \/ ApplyCancel
  <2>1. /\ commands # <<>> /\ commands' = Tail(commands)
        /\ Head(commands).op # "begin"
        /\ Head(commands).id = ActiveId
        /\ op' = op
        /\ Complete \/ UNCHANGED <<active, reserved>>
    BY <1>5 DEF ApplyCommitByPost, ApplyCancel, PopCommand
  <2>2. CASE Complete
    <3>1. IsActive
      BY <2>1, HeadType, ActiveIdIsSession DEF TypeOK
    <3>2. QueuedBegins' = {}
      BY <2>1, <3>1, PopShifts DEF ReservationOwned, TypeOK
    <3> QED
      BY <2>1, <2>2, <3>1, <3>2 DEF ReservationOwned, Complete, IsActive
  <2>3. CASE UNCHANGED <<active, reserved>>
    BY <2>1, <2>3, PopOther DEF IsActive, TypeOK
  <2> QED
    BY <2>1, <2>2, <2>3
<1>6. CASE RestoreBeforeTeardown
  <2>1. UNCHANGED <<commands, op>>
    BY <1>6 DEF RestoreBeforeTeardown
  <2>2. CASE UNCHANGED <<active, reserved>>
    BY <2>1, <2>2, QueueFrame, ReservationFrame DEF IsActive
  <2>3. CASE pc = "fail" /\ Complete
    BY <2>1, <2>3, QueueFrame, ReservationReleased DEF ActiveWhileDrawing
  <2>4. CASE pc' = "done"
    BY <2>4 DEF ReservationOwned
  <2> QED
    BY <1>6, <2>2, <2>3, <2>4 DEF RestoreBeforeTeardown
<1>7. CASE FinishTeardown
  <2>1. UNCHANGED <<commands, op>> /\ IsActive /\ Complete
    BY <1>7 DEF FinishTeardown, ActiveWhileDrawing
  <2> QED
    BY <2>1, QueueFrame, ReservationReleased
<1> QED
  BY <1>1, <1>2, <1>3, <1>4, <1>5, <1>6, <1>7 DEF OverlayNext

LEMMA ReservationOwnedStep ==
  ASSUME IInv, [Next]_vars
  PROVE  ReservationOwned'
<1>1. CASE pc = "done"
  BY <1>1, DoneStays DEF ReservationOwned
<1>2. CASE pc # "done" /\ OverlayNext
  BY <1>2, LoopReservation
<1>3. CASE pc # "done" /\ MouseNext /\ UNCHANGED <<overlayVars, settingsVars, posted>>
  BY <1>3, MouseReservation DEF overlayVars
<1>4. CASE /\ pc # "done"
           /\ \/ WorkerStep
              \/ DestroyWorker
              \/ \E s \in SettingsValues : PublishSettings(s)
              \/ \E w \in Windows : WindowMoves(w)
              \/ Shutdown
              \/ UNCHANGED vars
  <2>1. UNCHANGED <<commands, reserved, op, active>>
    BY <1>4 DEF WorkerStep, DestroyWorker, PublishSettings, WindowMoves, Shutdown, vars, mouseVars,
                channelVars, overlayVars
  <2> QED
    BY <1>4, <2>1, QueueFrame, ReservationFrame DEF IsActive, IInv
<1> QED
  BY <1>1, <1>2, <1>3, <1>4 DEF Next

-------------------------------------------------------------------------------
\* The inductive invariant holds in every reachable state.
THEOREM Inductive == Spec => []IInv
<1>1. Init => IInv
  <2>1. Init => ActiveWhileDrawing
    BY DEF Init, ActiveWhileDrawing
  <2>2. Init => ReservationOwned
    BY DEF Init, MouseInit, NoOp, ReservationOwned, IsActive, QueuedBegins
  <2> QED
    BY <2>1, <2>2, InitTypeOK DEF IInv
<1>2. IInv /\ [Next]_vars => IInv'
  BY NextTypeOK, ActiveWhileDrawingStep, ReservationOwnedStep DEF IInv
<1> QED
  BY <1>1, <1>2, PTL DEF Spec

(***************************************************************************)
(* Every variable of the mouse dispatch thread, the overlay thread and the *)
(* placement worker keeps its type, whatever the windows, the capacities   *)
(* of the queues and the settings.                                         *)
(***************************************************************************)
THEOREM TypeCorrect == Spec => []TypeOK
<1>1. IInv => TypeOK
  BY DEF IInv
<1> QED
  BY <1>1, Inductive, PTL

(***************************************************************************)
(* m_interactionReserved is set exactly while one party owns it: the mouse *)
(* between its compare-exchange and its push, one Begin in the queue, or   *)
(* the active session of the loop.  It is neither lost nor shared.         *)
(***************************************************************************)
THEOREM ReservationSafe == Spec => []ReservationOwned
<1>1. IInv => ReservationOwned
  BY DEF IInv
<1> QED
  BY <1>1, Inductive, PTL

-------------------------------------------------------------------------------
(***************************************************************************)
(* The loop's own flags.                                                   *)
(***************************************************************************)
Restored == {"failRestored", "exitRestored"}

LoopInv ==
  /\ ~IsActive => preview = NoPreview
  /\ pc \in {"start", "dead", "done"} => ~IsActive
  /\ PlacementChanged => worker
  /\ preview.mode = "overlay" => preview.stage = "none" /\ ~PlacementChanged /\ ~preview.finishing
  /\ preview.finishing => preview.stage = "none"
  /\ pc \in {"exit", "exitRestored", "done"} => stop
  /\ stop => op.step \in {"none", "running"}

(***************************************************************************)
(* The command queue holds at most one command of an interaction that the  *)
(* loop has begun, then at most one Begin with the command that ends it.   *)
(***************************************************************************)
Running == IF op.step = "running" THEN 1 ELSE 0

QueueInv ==
  /\ QueuedBegins = {} => Len(commands) + Running <= 1
  /\ \A b \in QueuedBegins : b <= 2 /\ Len(commands) + Running <= b + 1
  /\ preview.finishing => commands = <<>> /\ op.step # "running"

(***************************************************************************)
(* The results in the queue and those still to come from the worker.  The  *)
(* loop submits one request in a pass, and the results are drained first.  *)
(***************************************************************************)
Held(r) == IF r = NoRequest THEN 0 ELSE 1
Load == Len(results) + Held(current) + Held(pending)

LoadInv ==
  /\ Load <= 4
  /\ pc \notin Restored => Load <= 3
  /\ pc \in {"commands", "draw"} /\ ~preview.finishing => Load <= 2

(***************************************************************************)
(* An interaction's number is new: until its Begin is applied no request   *)
(* and no result carries it.                                               *)
(***************************************************************************)
UsedIds ==
  {id \in InteractionId :
     \/ IsActive /\ active.id = id
     \/ pending # NoRequest /\ pending.id = id
     \/ current # NoRequest /\ current.id = id
     \/ \E i \in DOMAIN results : results[i].id = id}

BeginIds == {commands[b].session.id : b \in QueuedBegins}

IdInv ==
  /\ \A id \in UsedIds : id < nextId
  /\ \A id \in BeginIds : id < nextId /\ id \notin UsedIds
  /\ op.step \in {"measured", "reserved"} => op.id < nextId /\ op.id \notin UsedIds /\ op.id \notin BeginIds

(***************************************************************************)
(* Where the windows are, as long as no grab measured a window at a        *)
(* preview position.  A request that moves one there belongs to the active *)
(* interaction; once that interaction is ending, the request that puts the *)
(* window back is under way behind it, and when its result is reported the *)
(* window is back.                                                         *)
(***************************************************************************)
IsPreview(r) == r.kind \in {"live", "parked"}
Moving(r) == r # NoRequest /\ IsPreview(r.rect)
PutsBack(r) == r # NoRequest /\ r.target = active.target /\ ~IsPreview(r.rect)
Ending == preview.finishing \/ pc \in Restored

IsOutcome(r) == r # NoRequest /\ Outcome(r)
ResultReported == \E i \in DOMAIN results : Outcome(results[i])

BeginsInPlace == \A b \in QueuedBegins : ~IsPreview(commands[b].session.originalRawRect)

RectsInv ==
  /\ IsActive => ~IsPreview(active.originalRawRect)
  /\ BeginsInPlace
  /\ \A w \in Windows : \A i \in DOMAIN posted[w] : ~IsPreview(posted[w][i])
  /\ \A w \in Windows : AtPreview(w) => IsActive /\ active.target = w /\ PlacementChanged /\ w \notin Immovable

RequestsInv ==
  /\ Moving(pending) => IsActive /\ pending.target = active.target /\ PlacementChanged /\ ~Ending
  /\ Moving(current) => IsActive /\ current.target = active.target /\ PlacementChanged
  /\ \A r \in {pending, current} :
        r # NoRequest => /\ r.kind \in {"Commit", "Restore"} => ~IsPreview(r.rect)
                         /\ IsActive /\ r.id = active.id => r.target = active.target

EndingInv ==
  IsActive =>
    /\ IsOutcome(pending) \/ IsOutcome(current) \/ ResultReported => Ending
    /\ Ending /\ (Moving(current) \/ AtPreview(active.target)) =>
         PutsBack(pending) \/ (PutsBack(current) /\ ~placed)
    /\ (IsOutcome(current) /\ placed) \/ ResultReported =>
         ~AtPreview(active.target) /\ ~Moving(current)

PlaceInv == ~previewGrab => RectsInv /\ RequestsInv /\ EndingInv

PInv == LoopInv /\ QueueInv /\ LoadInv /\ IdInv /\ PlaceInv

-------------------------------------------------------------------------------
\* Which step can change what.

LEMMA OutsideLoop ==
  ASSUME [Next]_vars, ~OverlayNext
  PROVE  UNCHANGED <<pc, pass, active, preview, snapshot, visible, failures>>
BY DEF Next, vars, overlayVars, WorkerStep, DestroyWorker, PublishSettings, WindowMoves, Shutdown

LEMMA OutsideMouse ==
  ASSUME [Next]_vars, ~MouseNext
  PROVE  UNCHANGED mouseVars
<1>1. CASE OverlayNext
  BY <1>1 DEF OverlayNext, StartLoop, WaitForWork, FallAsleep, NextFrame, LeaveLoop, DrainResult,
              RefreshSettings, ApplyBegin, ApplyStale, ApplyCommitByPost, ApplyCommitByWorker,
              ApplyCancel, SettleIdle, ShowOverlay, ShowFails, HideOverlay, BreakLoop, BeginFrame,
              Settle, CaptureFrame, ParkFrame, LiveFrame, PlainFrame, Frame, RenderFails,
              RestoreBeforeTeardown, FinishTeardown
<1>2. CASE ~OverlayNext
  BY <1>2 DEF Next, vars, WorkerStep, DestroyWorker, PublishSettings, WindowMoves, Shutdown
<1> QED
  BY <1>1, <1>2

\* The mouse dispatch thread is joined before the loop is asked to stop.
LEMMA MouseBeforeStop ==
  ASSUME LoopInv, MouseNext
  PROVE  ~stop /\ ~stop' /\ UNCHANGED worker /\ pc \notin {"exit", "exitRestored", "done"}
<1>1. ~stop
  BY DEF LoopInv, MouseNext, SelectTarget, RejectTarget, MeasureTarget, RestoreMaximized, RestoreMaximizedFails,
         ReserveInteraction, PushBegin, FinishOperation, CancelOperation
<1>2. UNCHANGED <<stop, worker>>
  BY DEF MouseNext, SelectTarget, RejectTarget, MeasureTarget, RestoreMaximized, RestoreMaximizedFails,
         ReserveInteraction, PushBegin, FinishOperation, CancelOperation, workerVars
<1> QED
  BY <1>1, <1>2 DEF LoopInv

-------------------------------------------------------------------------------
\* The loop's flags.

LEMMA NoPreviewFields ==
  /\ NoPreview.mode = "overlay" /\ NoPreview.stage = "none"
  /\ ~NoPreview.parkSubmitted /\ ~NoPreview.liveSubmitted /\ ~NoPreview.finishing
BY DEF NoPreview

LEMMA CompleteLoopInv ==
  ASSUME LoopInv, Complete, UNCHANGED <<op, stop>>, pc' \in {"exit", "exitRestored", "done"} => stop
  PROVE  LoopInv'
<1>1. ~IsActive' /\ preview' = NoPreview
  BY DEF Complete, IsActive
<1>2. ~PlacementChanged'
  BY <1>1, NoPreviewFields DEF PlacementChanged
<1> QED
  BY <1>1, <1>2, NoPreviewFields DEF LoopInv

\* A step that leaves the session and its preview alone.
LEMMA SameLoopInv ==
  ASSUME LoopInv, UNCHANGED <<active, preview, stop>>,
         worker' = worker \/ worker' \/ ~IsActive,
         pc' \in {"exit", "exitRestored", "done"} => stop,
         pc' \in {"start", "dead", "done"} => ~IsActive,
         stop => op'.step \in {"none", "running"}
  PROVE  LoopInv'
<1>1. ~IsActive => ~PlacementChanged
  BY NoPreviewFields DEF LoopInv, PlacementChanged
<1>2. PlacementChanged' => PlacementChanged
  BY DEF PlacementChanged
<1>3. PlacementChanged => PlacementChanged'
  BY DEF PlacementChanged
<1>4. IsActive' <=> IsActive
  BY DEF IsActive
<1> QED
  BY <1>1, <1>2, <1>3, <1>4 DEF LoopInv

LEMMA OutsideLoopInv ==
  ASSUME LoopInv, [Next]_vars, ~OverlayNext
  PROVE  LoopInv'
<1>1. UNCHANGED <<pc, active, preview>>
  BY OutsideLoop
<1>2. CASE MouseNext
  BY <1>1, <1>2, MouseBeforeStop DEF LoopInv, PlacementChanged, IsActive
<1>3. CASE Shutdown
  BY <1>1, <1>3 DEF Shutdown, LoopInv, PlacementChanged, IsActive, mouseVars, workerVars
<1>4. CASE DestroyWorker
  <2>1. UNCHANGED <<stop, op>> /\ ~IsActive
    BY <1>4 DEF DestroyWorker, mouseVars, LoopInv
  <2> QED
    BY <1>1, <2>1, SameLoopInv DEF LoopInv
<1>5. CASE \/ WorkerStep
           \/ \E s \in SettingsValues : PublishSettings(s)
           \/ \E w \in Windows : WindowMoves(w)
           \/ UNCHANGED vars
  <2>1. UNCHANGED <<stop, op, worker>>
    BY <1>5 DEF WorkerStep, WorkerNext, TakeRequest, PlaceWindow, PublishResult, PublishSettings, WindowMoves,
                vars, mouseVars, workerVars
  <2> QED
    BY <1>1, <2>1, SameLoopInv DEF LoopInv
<1> QED
  BY <1>2, <1>3, <1>4, <1>5 DEF Next

LEMMA InsideLoopInv ==
  ASSUME IInv, LoopInv, OverlayNext
  PROVE  LoopInv'
<1>0. op' = op /\ stop' = stop
  BY DEF OverlayNext, StartLoop, WaitForWork, FallAsleep, NextFrame, LeaveLoop, DrainResult,
         RefreshSettings, ApplyBegin, ApplyStale, ApplyCommitByPost, ApplyCommitByWorker,
         ApplyCancel, SettleIdle, ShowOverlay, ShowFails, HideOverlay, BreakLoop, BeginFrame,
         Settle, CaptureFrame, ParkFrame, LiveFrame, PlainFrame, Frame, RenderFails,
         RestoreBeforeTeardown, FinishTeardown, mouseVars
<1>1. CASE StartLoop \/ WaitForWork \/ FallAsleep \/ NextFrame \/ LeaveLoop \/ RefreshSettings \/ ApplyStale
           \/ RenderFails
  <2>1. UNCHANGED <<active, preview, worker>>
    BY <1>1 DEF StartLoop, WaitForWork, FallAsleep, NextFrame, LeaveLoop, RefreshSettings, ApplyStale,
                RenderFails, overlayVars, workerVars
  <2>2. /\ pc' \in {"exit", "exitRestored", "done"} => stop
        /\ pc' \in {"start", "dead", "done"} => ~IsActive
    BY <1>1 DEF StartLoop, WaitForWork, FallAsleep, NextFrame, LeaveLoop, RefreshSettings, ApplyStale,
                RenderFails, PopCommand, overlayVars, LoopInv
  <2> QED
    BY <1>0, <2>1, <2>2, SameLoopInv DEF LoopInv
<1>2. CASE SettleIdle \/ ShowOverlay \/ ShowFails \/ HideOverlay \/ BreakLoop \/ BeginFrame
  <2>1. UNCHANGED <<active, preview>> /\ (worker' = worker \/ ~IsActive)
    BY <1>2 DEF SettleIdle, ShowOverlay, ShowFails, HideOverlay, BreakLoop, BeginFrame, Settle, WorkerUnused,
                IInv, TypeOK, WorkerTypeOK
  <2>2. /\ pc' \in {"exit", "exitRestored", "done"} => stop
        /\ pc' \notin {"start", "dead", "done"}
    BY <1>2 DEF SettleIdle, ShowOverlay, ShowFails, HideOverlay, BreakLoop, BeginFrame, Settle
  <2> QED
    BY <1>0, <2>1, <2>2, SameLoopInv DEF LoopInv
<1>3. CASE DrainResult
  <2>1. UNCHANGED <<pc, worker>>
    BY <1>3 DEF DrainResult
  <2>2. Complete \/ UNCHANGED <<active, preview>>
    BY <1>3 DEF DrainResult
  <2> QED
    BY <1>0, <2>1, <2>2, CompleteLoopInv, SameLoopInv DEF LoopInv
<1>4. CASE ApplyBegin
  <2>1. pc = "commands" /\ pc' = "commands"
    BY <1>4 DEF ApplyBegin, PopCommand
  <2>2. CASE IsActive
    <3>1. UNCHANGED <<active, preview, worker>>
      BY <1>4, <2>2 DEF ApplyBegin
    <3> QED
      BY <1>0, <2>1, <3>1, SameLoopInv DEF LoopInv
  <2>3. CASE ~IsActive
    <3>1. IsActive'
      BY <1>4, <2>3, HeadType, NullsDiffer DEF ApplyBegin, PopCommand, IsActive, IInv, TypeOK
    <3>2. PICK mode : preview' = [NoPreview EXCEPT !.mode = mode,
                                  !.stage = IF mode = "thumbnail" THEN "capturePending" ELSE "none"]
      BY <1>4, <2>3 DEF ApplyBegin
    <3>3. /\ preview'.mode = mode
          /\ preview'.stage = IF mode = "thumbnail" THEN "capturePending" ELSE "none"
          /\ ~preview'.parkSubmitted /\ ~preview'.liveSubmitted /\ ~preview'.finishing
      BY <3>2 DEF NoPreview
    <3> QED
      BY <1>0, <2>1, <3>1, <3>3 DEF LoopInv, PlacementChanged
  <2> QED
    BY <2>2, <2>3
<1>5. CASE ApplyCommitByPost
  BY <1>0, <1>5, CompleteLoopInv DEF ApplyCommitByPost, PopCommand
<1>6. CASE ApplyCommitByWorker
  <2>1. /\ preview'.stage = "none" /\ preview'.mode = preview.mode /\ preview.mode # "overlay"
        /\ active' = active /\ pc' = pc /\ pc = "commands" /\ worker'
    BY <1>6 DEF ApplyCommitByWorker, PopCommand, EnsureAndSubmit, IInv, TypeOK, PreviewState
  <2>2. IsActive
    BY <1>6, HeadType, ActiveIdIsSession DEF ApplyCommitByWorker, PopCommand, IInv, TypeOK
  <2> QED
    BY <1>0, <2>1, <2>2 DEF LoopInv, IsActive
<1>7. CASE ApplyCancel
  <2>1. pc' = pc /\ pc = "commands"
    BY <1>7 DEF ApplyCancel, PopCommand
  <2>2. CASE PlacementChanged /\ worker
    <3>1. /\ preview'.stage = "none" /\ preview'.mode = preview.mode
          /\ active' = active /\ worker'
      BY <1>7, <2>2 DEF ApplyCancel, EnsureAndSubmit, IInv, TypeOK, PreviewState
    <3>2. IsActive
      BY <2>2, NoPreviewFields DEF LoopInv, PlacementChanged
    <3>3. preview.mode # "overlay"
      BY <2>2 DEF LoopInv
    <3> QED
      BY <1>0, <2>1, <3>1, <3>2, <3>3 DEF LoopInv, IsActive
  <2>3. CASE ~(PlacementChanged /\ worker)
    BY <1>0, <1>7, <2>1, <2>3, CompleteLoopInv DEF ApplyCancel
  <2> QED
    BY <2>2, <2>3
<1>8. CASE CaptureFrame \/ ParkFrame \/ LiveFrame \/ PlainFrame
  <2>1. pc = "draw" /\ pc' = "top" /\ active' = active /\ IsActive
    BY <1>8 DEF CaptureFrame, ParkFrame, LiveFrame, PlainFrame, Frame, IInv, ActiveWhileDrawing
  <2>2. CASE CaptureFrame
    <3>1. /\ preview.mode # "overlay" /\ ~preview.finishing
          /\ worker' = worker
      BY <2>2 DEF CaptureFrame, LoopInv, workerVars
    <3>2. /\ preview'.mode = preview.mode /\ preview'.finishing = preview.finishing
          /\ preview'.parkSubmitted = preview.parkSubmitted /\ preview'.liveSubmitted = preview.liveSubmitted
      BY <2>2 DEF CaptureFrame, Frame, IInv, TypeOK, PreviewState
    <3> QED
      BY <1>0, <2>1, <3>1, <3>2 DEF LoopInv, IsActive, PlacementChanged
  <2>3. CASE ParkFrame
    <3>1. preview.mode # "overlay" /\ ~preview.finishing /\ worker'
      BY <2>3 DEF ParkFrame, EnsureAndSubmit, LoopInv
    <3>2. preview'.mode = preview.mode /\ preview'.finishing = preview.finishing
      BY <2>3 DEF ParkFrame, Frame, IInv, TypeOK, PreviewState
    <3> QED
      BY <1>0, <2>1, <3>1, <3>2 DEF LoopInv, IsActive
  <2>4. CASE LiveFrame
    <3>1. preview.mode # "overlay" /\ ~preview.finishing /\ worker'
      BY <2>4 DEF LiveFrame, EnsureAndSubmit, LoopInv
    <3>2. preview'.mode = preview.mode /\ preview'.finishing = preview.finishing
      BY <2>4 DEF LiveFrame, Frame, IInv, TypeOK, PreviewState
    <3> QED
      BY <1>0, <2>1, <3>1, <3>2 DEF LoopInv, IsActive
  <2>5. CASE PlainFrame
    <3>1. preview' = preview /\ worker' = worker
      BY <2>5 DEF PlainFrame, Frame, workerVars
    <3> QED
      BY <1>0, <2>1, <3>1, SameLoopInv DEF LoopInv
  <2> QED
    BY <1>8, <2>2, <2>3, <2>4, <2>5
<1>9. CASE RestoreBeforeTeardown
  <2>1. pc \in {"fail", "exit"}
    BY <1>9 DEF RestoreBeforeTeardown
  <2>2. CASE IsActive /\ PlacementChanged /\ worker
    <3>1. /\ UNCHANGED <<active, preview>> /\ worker'
          /\ pc' = IF pc = "fail" THEN "failRestored" ELSE "exitRestored"
      BY <1>9, <2>2 DEF RestoreBeforeTeardown, EnsureAndSubmit
    <3> QED
      BY <1>0, <2>1, <3>1, SameLoopInv DEF LoopInv
  <2>3. CASE ~(IsActive /\ PlacementChanged /\ worker)
    <3>1. Complete /\ pc' = IF pc = "fail" THEN "top" ELSE "done"
      BY <1>9, <2>3 DEF RestoreBeforeTeardown
    <3> QED
      BY <1>0, <2>1, <3>1, CompleteLoopInv DEF LoopInv
  <2> QED
    BY <2>2, <2>3
<1>10. CASE FinishTeardown
  <2>1. /\ Complete /\ pc \in {"failRestored", "exitRestored"}
        /\ pc' = IF pc = "failRestored" THEN "top" ELSE "done"
    BY <1>10 DEF FinishTeardown
  <2> QED
    BY <1>0, <2>1, CompleteLoopInv DEF LoopInv
<1> QED
  BY <1>1, <1>2, <1>3, <1>4, <1>5, <1>6, <1>7, <1>8, <1>9, <1>10 DEF OverlayNext

-------------------------------------------------------------------------------
\* The command queue.

LEMMA QueueNumbers ==
  ASSUME IInv
  PROVE  /\ commands \in Seq(Command) /\ Len(commands) \in Nat
         /\ Running \in {0, 1} /\ QueuedBegins \subseteq Nat \ {0}
         /\ commands = <<>> <=> Len(commands) = 0
BY DEF IInv, TypeOK, MouseTypeOK, Running, QueuedBegins

\* While a session is active there is no Begin, and at most one command or a button still held.
LEMMA ActiveQueue ==
  ASSUME IInv, LoopInv, QueueInv, IsActive
  PROVE  QueuedBegins = {} /\ op.step # "reserved" /\ Len(commands) + Running <= 1
<1>1. pc # "done"
  BY DEF LoopInv
<1>2. QueuedBegins = {} /\ op.step # "reserved"
  BY <1>1 DEF IInv, ReservationOwned
<1> QED
  BY <1>2 DEF QueueInv

LEMMA SameQueueInv ==
  ASSUME QueueInv, commands' = commands, op'.step = "running" <=> op.step = "running",
         preview'.finishing => preview.finishing
  PROVE  QueueInv'
<1>1. QueuedBegins' = QueuedBegins /\ Running' = Running
  BY QueueFrame DEF Running
<1> QED
  BY <1>1 DEF QueueInv

\* Popping a command that begins nothing.
LEMMA PopQueueInv ==
  ASSUME IInv, LoopInv, QueueInv, commands # <<>>, commands' = Tail(commands), op' = op,
         Head(commands).op # "begin", preview'.finishing => IsActive
  PROVE  QueueInv'
<1>1. Len(commands) \in Nat \ {0} /\ Len(commands') = Len(commands) - 1 /\ Running \in {0, 1}
  BY QueueNumbers
<1>2. Running' = Running
  BY DEF Running
<1>3. /\ \A i \in QueuedBegins' : i + 1 \in QueuedBegins
      /\ \A i \in QueuedBegins : i # 1 => i - 1 \in QueuedBegins'
      /\ 1 \notin QueuedBegins
  BY PopShifts DEF IInv, TypeOK
<1>4. \A i \in QueuedBegins' : i \in Nat
  BY <1>1 DEF QueuedBegins, IInv, TypeOK, MouseTypeOK
<1>5. ASSUME QueuedBegins' = {} PROVE Len(commands') + Running' <= 1
  <2>1. QueuedBegins = {}
    BY <1>3, <1>5
  <2> QED
    BY <1>1, <1>2, <2>1 DEF QueueInv
<1>6. ASSUME NEW b \in QueuedBegins' PROVE b <= 2 /\ Len(commands') + Running' <= b + 1
  <2>1. b \in Nat /\ b + 1 <= 2 /\ Len(commands) + Running <= (b + 1) + 1
    BY <1>3, <1>4, <1>6 DEF QueueInv
  <2> QED
    BY <1>1, <1>2, <2>1
<1>7. ASSUME preview'.finishing PROVE commands' = <<>> /\ op'.step # "running"
  <2>1. Len(commands) + Running <= 1
    BY <1>7, ActiveQueue
  <2>2. Len(commands') = 0 /\ Running = 0
    BY <1>1, <2>1
  <2>3. commands' \in Seq(Command)
    BY HeadType DEF IInv, TypeOK
  <2> QED
    BY <2>2, <2>3 DEF Running
<1> QED
  BY <1>5, <1>6, <1>7 DEF QueueInv

LEMMA MouseQueueInv ==
  ASSUME IInv, LoopInv, QueueInv, MouseNext, preview' = preview, active' = active
  PROVE  QueueInv'
<1>0. pc # "done" /\ Len(commands) \in Nat
  BY MouseBeforeStop, QueueNumbers
<1>1. CASE \/ \E w \in Windows, type \in SessionType : SelectTarget(w, type)
           \/ RejectTarget \/ MeasureTarget \/ RestoreMaximized \/ RestoreMaximizedFails \/ ReserveInteraction
  <2>1. commands' = commands
    BY <1>1 DEF SelectTarget, RejectTarget, MeasureTarget, RestoreMaximized, RestoreMaximizedFails,
                ReserveInteraction, channelVars
  <2>2. op.step # "running"
    BY <1>1 DEF SelectTarget, RejectTarget, MeasureTarget, RestoreMaximized, RestoreMaximizedFails,
                ReserveInteraction
  <2>3. op'.step # "running"
    <3>1. CASE \E w \in Windows, type \in SessionType : SelectTarget(w, type)
      BY <3>1 DEF SelectTarget, NoOp
    <3>2. CASE RejectTarget \/ RestoreMaximizedFails
      BY <3>2 DEF RejectTarget, RestoreMaximizedFails, NoOp
    <3>3. CASE MeasureTarget \/ RestoreMaximized
      BY <3>3 DEF MeasureTarget, RestoreMaximized, IInv, TypeOK, MouseTypeOK, Operation
    <3>4. CASE ReserveInteraction
      BY <3>4 DEF ReserveInteraction, NoOp, IInv, TypeOK, MouseTypeOK, Operation
    <3> QED
      BY <1>1, <3>1, <3>2, <3>3, <3>4
  <2> QED
    BY <2>1, <2>2, <2>3, SameQueueInv
<1>2. CASE PushBegin
  <2>1. op.step = "reserved" /\ ~IsActive /\ QueuedBegins = {} /\ ~preview.finishing
    BY <1>0, <1>2, NoPreviewFields DEF PushBegin, IInv, ReservationOwned, LoopInv
  <2>2. Len(commands) <= 1
    BY <1>0, <2>1 DEF QueueInv, Running
  <2>3. CASE Len(commands) < CommandCapacity
    <3>1. commands' = Append(commands, BeginCmd(OpSession)) /\ OpSession \in Session
      BY <1>2, <2>1, <2>3, OpSessionType DEF PushBegin, IInv, TypeOK
    <3>2. QueuedBegins' = {Len(commands) + 1}
      BY <2>1, <3>1, AppendBegin DEF IInv, TypeOK
    <3>3. Len(commands') = Len(commands) + 1
      BY <3>1, CommandTypes DEF IInv, TypeOK, MouseTypeOK
    <3>4. Running' \in {0, 1}
      BY DEF Running
    <3> QED
      BY <1>0, <2>1, <2>2, <3>2, <3>3, <3>4 DEF QueueInv
  <2>4. CASE ~(Len(commands) < CommandCapacity)
    <3>1. commands' = commands /\ op'.step # "running"
      BY <1>2, <2>4 DEF PushBegin, NoOp
    <3> QED
      BY <2>1, <3>1, SameQueueInv
  <2> QED
    BY <2>3, <2>4
<1>3. CASE FinishOperation \/ CancelOperation
  <2>1. PICK cmd \in Command : cmd.op # "begin" /\ Send(cmd)
    <3>1. op.id \in InteractionId
      BY <1>3 DEF FinishOperation, CancelOperation, IInv, TypeOK, MouseTypeOK
    <3>2. /\ CommitCmd(op.id) \in Command /\ CommitCmd(op.id).op # "begin"
          /\ CancelCmd(op.id) \in Command /\ CancelCmd(op.id).op # "begin"
      BY <3>1, CommandTypes DEF CommitCmd, CancelCmd
    <3> QED
      BY <1>3, <3>2 DEF FinishOperation, CancelOperation
  <2>2. QueuedBegins' = QueuedBegins
    BY <2>1, AppendOther DEF Send, IInv, TypeOK
  <2>3. op.step = "running" /\ op'.step = "none"
    BY <1>3 DEF FinishOperation, CancelOperation, NoOp
  <2>4. Running = 1 /\ Running' = 0
    BY <2>3 DEF Running
  <2>5. Len(commands') \in {Len(commands), Len(commands) + 1}
    BY <2>1 DEF Send, IInv, TypeOK, MouseTypeOK
  <2>6. Len(commands') + Running' <= Len(commands) + Running
    BY <1>0, <2>4, <2>5
  <2>7. ~preview.finishing
    BY <2>3 DEF QueueInv
  <2>8. QueuedBegins = {} => Len(commands') + Running' <= 1
    BY <1>0, <2>4, <2>5, <2>6 DEF QueueInv
  <2>9. ASSUME NEW b \in QueuedBegins PROVE b <= 2 /\ Len(commands') + Running' <= b + 1
    <3>1. b \in Nat /\ b <= 2 /\ Len(commands) + Running <= b + 1
      BY QueueNumbers DEF QueueInv
    <3> QED
      BY <1>0, <2>4, <2>5, <3>1
  <2> QED
    BY <2>2, <2>7, <2>8, <2>9 DEF QueueInv
<1> QED
  BY <1>1, <1>2, <1>3 DEF MouseNext

LEMMA LoopQueueInv ==
  ASSUME IInv, LoopInv, QueueInv, OverlayNext
  PROVE  QueueInv'
<1>0. op' = op
  BY DEF OverlayNext, StartLoop, WaitForWork, FallAsleep, NextFrame, LeaveLoop, DrainResult,
         RefreshSettings, ApplyBegin, ApplyStale, ApplyCommitByPost, ApplyCommitByWorker,
         ApplyCancel, SettleIdle, ShowOverlay, ShowFails, HideOverlay, BreakLoop, BeginFrame,
         Settle, CaptureFrame, ParkFrame, LiveFrame, PlainFrame, Frame, RenderFails,
         RestoreBeforeTeardown, FinishTeardown, mouseVars
<1>1. CASE \/ StartLoop \/ WaitForWork \/ FallAsleep \/ NextFrame \/ LeaveLoop \/ RefreshSettings
           \/ SettleIdle \/ ShowOverlay \/ ShowFails \/ HideOverlay \/ BreakLoop \/ BeginFrame
           \/ PlainFrame \/ RenderFails \/ DrainResult \/ RestoreBeforeTeardown \/ FinishTeardown
  <2>1. commands' = commands /\ (preview' = preview \/ preview' = NoPreview)
    BY <1>1 DEF StartLoop, WaitForWork, FallAsleep, NextFrame, LeaveLoop, RefreshSettings, SettleIdle,
                ShowOverlay, ShowFails, HideOverlay, BreakLoop, BeginFrame, Settle, PlainFrame, Frame, RenderFails,
                DrainResult, RestoreBeforeTeardown, FinishTeardown, Complete, overlayVars, channelVars
  <2> QED
    BY <1>0, <2>1, NoPreviewFields, SameQueueInv
<1>2. CASE CaptureFrame \/ ParkFrame \/ LiveFrame
  <2>1. commands' = commands /\ preview'.finishing = preview.finishing
    BY <1>2 DEF CaptureFrame, ParkFrame, LiveFrame, Frame, channelVars, IInv, TypeOK, PreviewState
  <2> QED
    BY <1>0, <2>1, SameQueueInv
<1>3. CASE ApplyBegin
  <2>1. pc # "done" /\ commands # <<>> /\ commands' = Tail(commands) /\ Head(commands).op = "begin"
    BY <1>3 DEF ApplyBegin, PopCommand
  <2>2. 1 \in QueuedBegins
    BY <2>1, PopShifts DEF IInv, TypeOK
  <2>3. ~IsActive /\ \A i \in QueuedBegins : i = 1
    BY <2>1, <2>2 DEF IInv, ReservationOwned
  <2>4. QueuedBegins' = {}
    <3>1. SUFFICES ASSUME NEW i \in QueuedBegins' PROVE FALSE
      OBVIOUS
    <3>2. i + 1 = 1
      BY <2>1, <2>3, PopShifts DEF IInv, TypeOK
    <3>3. i \in Nat /\ i # 0
      BY <2>1, HeadType DEF QueuedBegins, IInv, TypeOK
    <3> QED
      BY <3>2, <3>3
  <2>5. ~preview'.finishing
    BY <1>3, <2>3 DEF ApplyBegin, NoPreview
  <2>6. Len(commands) + Running <= 2
    BY <2>2 DEF QueueInv
  <2>7. Len(commands) \in Nat /\ Len(commands') = Len(commands) - 1 /\ Running \in {0, 1} /\ Running' = Running
    BY <1>0, <2>1, QueueNumbers DEF Running
  <2> QED
    BY <2>4, <2>5, <2>6, <2>7 DEF QueueInv
<1>4. CASE ApplyStale \/ ApplyCommitByPost \/ ApplyCommitByWorker \/ ApplyCancel
  <2>1. commands # <<>> /\ commands' = Tail(commands) /\ Head(commands).op # "begin"
    BY <1>4 DEF ApplyStale, ApplyCommitByPost, ApplyCommitByWorker, ApplyCancel, PopCommand
  <2>2. CASE ApplyStale
    <3>1. preview' = preview /\ ~preview.finishing
      BY <2>1, <2>2 DEF ApplyStale, overlayVars, QueueInv
    <3> QED
      BY <1>0, <2>1, <3>1, PopQueueInv
  <2>3. CASE ApplyCommitByPost \/ ApplyCommitByWorker \/ ApplyCancel
    <3>1. IsActive
      BY <2>3, HeadType, ActiveIdIsSession
         DEF ApplyCommitByPost, ApplyCommitByWorker, ApplyCancel, PopCommand, IInv, TypeOK
    <3> QED
      BY <1>0, <2>1, <3>1, PopQueueInv
  <2> QED
    BY <1>4, <2>2, <2>3
<1> QED
  BY <1>1, <1>2, <1>3, <1>4 DEF OverlayNext

LEMMA NextQueueInv ==
  ASSUME IInv, LoopInv, QueueInv, [Next]_vars
  PROVE  QueueInv'
<1>1. CASE OverlayNext
  BY <1>1, LoopQueueInv
<1>2. CASE MouseNext /\ ~OverlayNext
  BY <1>2, MouseQueueInv, OutsideLoop
<1>3. CASE ~OverlayNext /\ ~MouseNext
  <2>1. UNCHANGED <<commands, op, preview>>
    BY <1>3, OutsideLoop, OutsideMouse
       DEF Next, WorkerStep, DestroyWorker, PublishSettings, WindowMoves, Shutdown, vars, channelVars, mouseVars
  <2> QED
    BY <2>1, SameQueueInv
<1> QED
  BY <1>1, <1>2, <1>3

-------------------------------------------------------------------------------
\* The results and the requests under way.

LEMMA LoadNumbers ==
  ASSUME IInv
  PROVE  /\ results \in Seq(PlacementResult) /\ Len(results) \in Nat
         /\ Held(current) \in {0, 1} /\ Held(pending) \in {0, 1}
         /\ Load \in Nat
<1>1. results \in Seq(PlacementResult) /\ Len(results) \in Nat
  BY DEF IInv, TypeOK, WorkerTypeOK
<1>2. Held(current) \in {0, 1} /\ Held(pending) \in {0, 1}
  BY DEF Held
<1> QED
  BY <1>1, <1>2 DEF Load

LEMMA SameLoad ==
  ASSUME UNCHANGED <<results, current, pending>>
  PROVE  Load' = Load
BY DEF Load, Held

\* A request submitted, or the results dropped.
LEMMA SubmittedLoad ==
  ASSUME IInv, NEW r, EnsureAndSubmit(r)
  PROVE  Load' \in Nat /\ Load' <= Load + 1
<1>1. UNCHANGED <<results, current>>
  BY DEF EnsureAndSubmit
<1>2. Held(pending') \in {0, 1} /\ Held(current') = Held(current)
  BY <1>1 DEF Held
<1>3. Load' = Len(results) + Held(current) + Held(pending')
  BY <1>1, <1>2 DEF Load, Held
<1> QED
  BY <1>2, <1>3, LoadNumbers DEF Load

LEMMA DroppedLoad ==
  ASSUME IInv, results' = <<>>, UNCHANGED <<current, pending>>
  PROVE  Load' \in Nat /\ Load' <= 2
<1>1. Len(results') = 0 /\ Held(current') = Held(current) /\ Held(pending') = Held(pending)
  BY DEF Held
<1>2. Load' = Len(results') + Held(current') + Held(pending')
  BY DEF Load, Held
<1> QED
  BY <1>1, <1>2, LoadNumbers

\* A step of the worker, or its end, adds nothing.
LEMMA WorkerLoad ==
  ASSUME IInv, WorkerNext \/ (pending' = NoRequest /\ UNCHANGED <<current, results>>)
  PROVE  Load' \in Nat /\ Load' <= Load
<1>0. Load' = Len(results') + Held(current') + Held(pending')
  BY DEF Load, Held
<1>1. CASE TakeRequest
  <2>1. UNCHANGED results /\ Held(current') = Held(pending) /\ Held(pending') = 0 /\ Held(current) = 0
    BY <1>1 DEF TakeRequest, Held
  <2> QED
    BY <1>0, <2>1, LoadNumbers DEF Load
<1>2. CASE PlaceWindow
  BY <1>2, SameLoad, LoadNumbers DEF PlaceWindow
<1>3. CASE PublishResult
  <2>1. Held(current) = 1 /\ Held(current') = 0 /\ Held(pending') = Held(pending)
    BY <1>3 DEF PublishResult, Held
  <2>2. Len(results') \in {Len(results), Len(results) + 1}
    <3>1. [id |-> current.id, kind |-> current.kind] \in PlacementResult
      BY <1>3 DEF PublishResult, IInv, TypeOK, WorkerTypeOK, PlacementRequest, PlacementResult
    <3> QED
      BY <1>3, <3>1, LoadNumbers DEF PublishResult
  <2> QED
    BY <1>0, <2>1, <2>2, LoadNumbers DEF Load
<1>4. CASE pending' = NoRequest /\ UNCHANGED <<current, results>>
  <2>1. Held(pending') = 0 /\ Held(current') = Held(current)
    BY <1>4 DEF Held
  <2> QED
    BY <1>0, <1>4, <2>1, LoadNumbers DEF Load
<1> QED
  BY <1>1, <1>2, <1>3, <1>4 DEF WorkerNext

LEMMA OutsideLoadInv ==
  ASSUME IInv, LoadInv, [Next]_vars, ~OverlayNext
  PROVE  LoadInv'
<1>0. UNCHANGED <<pc, preview>>
  BY OutsideLoop
<1>1. Load' \in Nat /\ Load' <= Load
  <2>1. CASE WorkerStep \/ DestroyWorker
    BY <2>1, WorkerLoad DEF WorkerStep, DestroyWorker
  <2>2. CASE ~(WorkerStep \/ DestroyWorker)
    <3>1. CASE MouseNext
      <4>1. UNCHANGED <<results, current, pending>>
        BY <3>1 DEF MouseNext, SelectTarget, RejectTarget, MeasureTarget, RestoreMaximized, RestoreMaximizedFails,
                    ReserveInteraction, PushBegin, FinishOperation, CancelOperation, workerVars
      <4> QED
        BY <4>1, SameLoad, LoadNumbers
    <3>2. CASE ~MouseNext
      BY <2>2, <3>2, SameLoad, LoadNumbers DEF Next, PublishSettings, WindowMoves, Shutdown, vars, workerVars
    <3> QED
      BY <3>1, <3>2
  <2> QED
    BY <2>1, <2>2
<1> QED
  BY <1>0, <1>1, LoadNumbers DEF LoadInv

LEMMA LoopLoadInv ==
  ASSUME IInv, LoopInv, QueueInv, LoadInv, OverlayNext
  PROVE  LoadInv'
<1> USE LoadNumbers
<1>1. CASE \/ StartLoop \/ WaitForWork \/ FallAsleep \/ NextFrame \/ LeaveLoop \/ ApplyStale \/ ApplyBegin
           \/ ApplyCommitByPost \/ SettleIdle \/ ShowOverlay \/ ShowFails \/ HideOverlay \/ BreakLoop
           \/ BeginFrame \/ CaptureFrame \/ PlainFrame \/ RenderFails
  <2>1. UNCHANGED <<results, current, pending>>
    BY <1>1 DEF StartLoop, WaitForWork, FallAsleep, NextFrame, LeaveLoop, ApplyStale, ApplyBegin,
                ApplyCommitByPost, SettleIdle, ShowOverlay, ShowFails, HideOverlay, BreakLoop, BeginFrame,
                Settle, CaptureFrame, PlainFrame, Frame, RenderFails, overlayVars, workerVars
  <2>2. pc \notin Restored \/ pc' = pc
    BY <1>1 DEF StartLoop, WaitForWork, FallAsleep, NextFrame, LeaveLoop, ApplyStale, ApplyBegin,
                ApplyCommitByPost, SettleIdle, ShowOverlay, ShowFails, HideOverlay, BreakLoop, BeginFrame,
                Settle, CaptureFrame, PlainFrame, Frame, RenderFails, PopCommand, overlayVars, Restored
  <2>3. pc' \in {"commands", "draw"} => pc \in {"commands", "draw"}
    BY <1>1 DEF StartLoop, WaitForWork, FallAsleep, NextFrame, LeaveLoop, ApplyStale, ApplyBegin,
                ApplyCommitByPost, SettleIdle, ShowOverlay, ShowFails, HideOverlay, BreakLoop, BeginFrame,
                Settle, CaptureFrame, PlainFrame, Frame, RenderFails, PopCommand, overlayVars
  <2>4. pc' \in {"commands", "draw"} /\ preview.finishing => preview'.finishing
    <3>1. CASE ApplyBegin \/ ApplyCommitByPost
      <4>1. commands # <<>>
        BY <3>1 DEF ApplyBegin, ApplyCommitByPost, PopCommand
      <4> QED
        BY <4>1 DEF QueueInv
    <3>2. CASE CaptureFrame
      BY <3>2 DEF CaptureFrame, Frame
    <3>3. CASE ~(ApplyBegin \/ ApplyCommitByPost \/ CaptureFrame)
      BY <1>1, <3>3
         DEF StartLoop, WaitForWork, FallAsleep, NextFrame, LeaveLoop, ApplyStale, SettleIdle, ShowOverlay,
             ShowFails, HideOverlay, BreakLoop, BeginFrame, Settle, PlainFrame, Frame, RenderFails, overlayVars
    <3> QED
      BY <3>1, <3>2, <3>3
  <2> QED
    BY <2>1, <2>2, <2>3, <2>4, SameLoad DEF LoadInv
<1>2. CASE DrainResult
  <2>1. Len(results') = Len(results) - 1 /\ UNCHANGED <<current, pending, pc>> /\ pc = "results" /\ results # <<>>
    BY <1>2 DEF DrainResult
  <2>2. Load' = Load - 1 /\ Load' \in Nat
    <3>1. Held(current') = Held(current) /\ Held(pending') = Held(pending)
      BY <2>1 DEF Held
    <3>2. Load' = Len(results') + Held(current') + Held(pending')
      BY DEF Load, Held
    <3>3. Len(results) # 0
      BY <2>1
    <3> QED
      BY <2>1, <3>1, <3>2, <3>3 DEF Load
  <2>3. Load <= 3
    BY <2>1 DEF LoadInv, Restored
  <2> QED
    BY <2>1, <2>2, <2>3 DEF LoadInv
<1>3. CASE RefreshSettings
  <2>1. results' = <<>> /\ UNCHANGED <<current, pending>> /\ pc' = "commands"
    BY <1>3 DEF RefreshSettings, workerVars
  <2>2. Load' \in Nat /\ Load' <= 2
    BY <2>1, DroppedLoad
  <2> QED
    BY <2>2 DEF LoadInv
<1>4. CASE ApplyCommitByWorker \/ ApplyCancel
  <2>1. pc = "commands" /\ pc' = pc /\ commands # <<>>
    BY <1>4 DEF ApplyCommitByWorker, ApplyCancel, PopCommand
  <2>2. Load <= 2
    BY <2>1 DEF LoadInv, QueueInv
  <2>3. CASE ApplyCommitByWorker \/ (PlacementChanged /\ worker)
    <3>1. preview' = [preview EXCEPT !.stage = "none", !.finishing = TRUE] /\ \E r : EnsureAndSubmit(r)
      BY <1>4, <2>3 DEF ApplyCommitByWorker, ApplyCancel
    <3>2. preview'.finishing
      BY <3>1 DEF IInv, TypeOK, PreviewState
    <3>3. Load' \in Nat /\ Load' <= 3
      BY <2>2, <3>1, SubmittedLoad
    <3> QED
      BY <2>1, <3>2, <3>3 DEF LoadInv, Restored
  <2>4. CASE ApplyCancel /\ ~(PlacementChanged /\ worker)
    <3>1. Load' = Load
      BY <2>4, SameLoad DEF ApplyCancel, workerVars
    <3> QED
      BY <2>1, <2>2, <3>1 DEF LoadInv, Restored
  <2> QED
    BY <1>4, <2>3, <2>4
<1>5. CASE ParkFrame \/ LiveFrame
  <2>1. pc = "draw" /\ pc' = "top" /\ ~preview.finishing
    BY <1>5 DEF ParkFrame, LiveFrame, Frame, LoopInv
  <2>2. Load <= 2
    BY <2>1 DEF LoadInv
  <2>3. Load' \in Nat /\ Load' <= 3
    BY <1>5, <2>2, SubmittedLoad DEF ParkFrame, LiveFrame
  <2> QED
    BY <2>1, <2>3 DEF LoadInv
<1>6. CASE RestoreBeforeTeardown
  <2>1. CASE IsActive /\ PlacementChanged /\ worker
    <3>1. pc \notin Restored /\ pc' \in Restored
      BY <1>6, <2>1 DEF RestoreBeforeTeardown, Restored
    <3>2. Load <= 3
      BY <3>1 DEF LoadInv
    <3>3. Load' \in Nat /\ Load' <= 4
      BY <1>6, <2>1, <3>2, SubmittedLoad DEF RestoreBeforeTeardown
    <3> QED
      BY <3>1, <3>3 DEF LoadInv, Restored
  <2>2. CASE ~(IsActive /\ PlacementChanged /\ worker)
    <3>1. Load' \in Nat /\ Load' <= 2
      BY <1>6, <2>2, DroppedLoad DEF RestoreBeforeTeardown
    <3> QED
      BY <3>1 DEF LoadInv
  <2> QED
    BY <2>1, <2>2
<1>7. CASE FinishTeardown
  <2>1. Load' \in Nat /\ Load' <= 2
    BY <1>7, DroppedLoad DEF FinishTeardown
  <2> QED
    BY <2>1 DEF LoadInv
<1> QED
  BY <1>1, <1>2, <1>3, <1>4, <1>5, <1>6, <1>7 DEF OverlayNext

-------------------------------------------------------------------------------
\* The numbers of the interactions.

\* A Begin that is queued keeps its session when the head of the queue is popped.
LEMMA PopSessions ==
  ASSUME MouseTypeOK, commands # <<>>, commands' = Tail(commands)
  PROVE  \A b \in QueuedBegins' : b + 1 \in QueuedBegins /\ commands'[b] = commands[b + 1]
<1>1. /\ Len(commands) \in Nat
      /\ DOMAIN commands' = 1..(Len(commands) - 1)
      /\ \A i \in DOMAIN commands' : commands'[i] = commands[i + 1]
  BY DEF MouseTypeOK
<1>2. \A b \in QueuedBegins' : b \in DOMAIN commands' /\ b + 1 \in QueuedBegins
  BY PopShifts DEF QueuedBegins
<1> QED
  BY <1>1, <1>2

LEMMA PopBeginIds ==
  ASSUME MouseTypeOK, commands # <<>>, commands' = Tail(commands)
  PROVE  BeginIds' \subseteq BeginIds
BY PopSessions DEF BeginIds

LEMMA SameBeginIds ==
  ASSUME commands' = commands
  PROVE  BeginIds' = BeginIds
BY DEF BeginIds, QueuedBegins

LEMMA AppendOtherIds ==
  ASSUME MouseTypeOK, NEW cmd \in Command, cmd.op # "begin",
         commands' = Append(commands, cmd) \/ commands' = commands
  PROVE  BeginIds' = BeginIds
<1>1. QueuedBegins' = QueuedBegins
  BY AppendOther
<1>2. \A b \in QueuedBegins : commands'[b] = commands[b]
  BY DEF QueuedBegins, MouseTypeOK
<1> QED
  BY <1>1, <1>2 DEF BeginIds

\* Nothing new is used, and nothing begins.
LEMMA SameIdInv ==
  ASSUME IInv, IdInv,
         UsedIds' \subseteq UsedIds,
         BeginIds' \subseteq BeginIds, nextId' = nextId,
         op'.step \in {"measured", "reserved"} =>
            op.step \in {"measured", "reserved"} /\ op'.id = op.id
  PROVE  IdInv'
<1>1. BeginIds \subseteq InteractionId
  <2>1. \A b \in QueuedBegins : commands[b] \in Command /\ commands[b].op = "begin"
    BY DEF QueuedBegins, IInv, TypeOK, MouseTypeOK
  <2> QED
    BY <2>1 DEF BeginIds, Command, Session
<1>2. op.step \in {"measured", "reserved"} => op.id \in InteractionId
  BY DEF IInv, TypeOK, MouseTypeOK
<1>3. \A id \in UsedIds' : id < nextId'
  BY DEF IdInv
<1>4. \A id \in BeginIds' : id < nextId' /\ id \notin UsedIds'
  BY <1>1 DEF IdInv
<1>5. op'.step \in {"measured", "reserved"} => op'.id < nextId' /\ op'.id \notin UsedIds' /\ op'.id \notin BeginIds'
  BY <1>2 DEF IdInv
<1> QED
  BY <1>3, <1>4, <1>5 DEF IdInv

LEMMA MouseUsedIds ==
  ASSUME MouseNext, active' = active
  PROVE  UsedIds' = UsedIds
<1>1. UNCHANGED <<results, current, pending>>
  BY DEF MouseNext, SelectTarget, RejectTarget, MeasureTarget, RestoreMaximized, RestoreMaximizedFails,
         ReserveInteraction, PushBegin, FinishOperation, CancelOperation, workerVars
<1> QED
  BY <1>1 DEF UsedIds, IsActive

LEMMA MouseIdInv ==
  ASSUME IInv, LoopInv, IdInv, MouseNext, active' = active
  PROVE  IdInv'
<1>0. UsedIds' = UsedIds
  BY MouseUsedIds
<1>1. CASE MeasureTarget
  <2>1. nextId \in InteractionId /\ nextId' = nextId + 1
    BY <1>1 DEF MeasureTarget, IInv, TypeOK, MouseTypeOK, InteractionId
  <2>2. op' = [op EXCEPT !.step = "measured", !.id = nextId, !.rect = place[op.target]]
    BY <1>1 DEF MeasureTarget
  <2>3. op'.id = nextId
    BY <2>2 DEF IInv, TypeOK, MouseTypeOK, Operation
  <2>4. BeginIds' = BeginIds
    BY <1>1, SameBeginIds DEF MeasureTarget, channelVars
  <2>5. BeginIds \subseteq InteractionId
    <3>1. \A b \in QueuedBegins : commands[b] \in Command /\ commands[b].op = "begin"
      BY DEF QueuedBegins, IInv, TypeOK, MouseTypeOK
    <3> QED
      BY <3>1 DEF BeginIds, Command, Session
  <2>6. \A id \in InteractionId : id < nextId => id < nextId'
    BY <2>1 DEF InteractionId
  <2>7. ~(nextId < nextId) /\ nextId < nextId'
    BY <2>1 DEF InteractionId
  <2>8. nextId \notin UsedIds /\ nextId \notin BeginIds
    BY <2>1, <2>7 DEF IdInv
  <2>9. \A id \in UsedIds' : id < nextId'
    <3>1. UsedIds \subseteq InteractionId
      BY DEF UsedIds
    <3> QED
      BY <1>0, <2>6, <3>1 DEF IdInv
  <2>10. \A id \in BeginIds' : id < nextId' /\ id \notin UsedIds'
    BY <1>0, <2>4, <2>5, <2>6 DEF IdInv
  <2>11. op'.id < nextId' /\ op'.id \notin UsedIds' /\ op'.id \notin BeginIds'
    BY <1>0, <2>3, <2>4, <2>7, <2>8
  <2> QED
    BY <2>9, <2>10, <2>11 DEF IdInv
<1>2. CASE PushBegin
  <2>1. op.step = "reserved" /\ QueuedBegins = {} /\ nextId' = nextId
    BY <1>2, MouseBeforeStop DEF PushBegin, IInv, ReservationOwned
  <2>2. op'.step \in {"running", "none"}
    BY <1>2 DEF PushBegin, NoOp, IInv, TypeOK, MouseTypeOK, Operation
  <2>3. CASE Len(commands) < CommandCapacity
    <3>1. commands' = Append(commands, BeginCmd(OpSession)) /\ OpSession \in Session
      BY <1>2, <2>1, <2>3, OpSessionType DEF PushBegin, IInv, TypeOK
    <3>2. QueuedBegins' = {Len(commands) + 1}
      BY <2>1, <3>1, AppendBegin DEF IInv, TypeOK
    <3>3. commands'[Len(commands) + 1] = BeginCmd(OpSession)
      BY <3>1, CommandTypes DEF IInv, TypeOK, MouseTypeOK
    <3>4. BeginIds' = {op.id}
      BY <3>2, <3>3 DEF BeginIds, BeginCmd, OpSession
    <3>5. op.id < nextId' /\ op.id \notin UsedIds
      BY <2>1 DEF IdInv
    <3> QED
      BY <1>0, <2>1, <2>2, <3>4, <3>5 DEF IdInv
  <2>4. CASE ~(Len(commands) < CommandCapacity)
    <3>1. commands' = commands
      BY <1>2, <2>4 DEF PushBegin
    <3> QED
      BY <1>0, <2>1, <2>2, <3>1, SameBeginIds, SameIdInv
  <2> QED
    BY <2>3, <2>4
<1>3. CASE FinishOperation \/ CancelOperation
  <2>1. PICK cmd \in Command : cmd.op # "begin" /\ Send(cmd)
    <3>1. op.id \in InteractionId
      BY <1>3 DEF FinishOperation, CancelOperation, IInv, TypeOK, MouseTypeOK
    <3>2. /\ CommitCmd(op.id) \in Command /\ CommitCmd(op.id).op # "begin"
          /\ CancelCmd(op.id) \in Command /\ CancelCmd(op.id).op # "begin"
      BY <3>1, CommandTypes DEF CommitCmd, CancelCmd
    <3> QED
      BY <1>3, <3>2 DEF FinishOperation, CancelOperation
  <2>2. BeginIds' = BeginIds
    BY <2>1, AppendOtherIds DEF Send, IInv, TypeOK
  <2>3. op'.step = "none" /\ nextId' = nextId
    BY <1>3 DEF FinishOperation, CancelOperation, NoOp
  <2> QED
    BY <1>0, <2>2, <2>3, SameIdInv
<1>4. CASE \/ \E w \in Windows, type \in SessionType : SelectTarget(w, type)
           \/ RejectTarget \/ RestoreMaximized \/ RestoreMaximizedFails \/ ReserveInteraction
  <2>1. UNCHANGED <<commands, nextId>>
    BY <1>4 DEF SelectTarget, RejectTarget, RestoreMaximized, RestoreMaximizedFails, ReserveInteraction, channelVars
  <2>2. op'.step \in {"measured", "reserved"} => op.step = "measured" /\ op'.id = op.id
    <3>1. CASE \E w \in Windows, type \in SessionType : SelectTarget(w, type)
      BY <3>1 DEF SelectTarget, NoOp
    <3>2. CASE RejectTarget \/ RestoreMaximizedFails
      BY <3>2 DEF RejectTarget, RestoreMaximizedFails, NoOp
    <3>3. CASE RestoreMaximized
      BY <3>3 DEF RestoreMaximized, IInv, TypeOK, MouseTypeOK, Operation
    <3>4. CASE ReserveInteraction
      BY <3>4 DEF ReserveInteraction, NoOp, IInv, TypeOK, MouseTypeOK, Operation
    <3> QED
      BY <1>4, <3>1, <3>2, <3>3, <3>4
  <2> QED
    BY <1>0, <2>1, <2>2, SameBeginIds, SameIdInv
<1> QED
  BY <1>1, <1>2, <1>3, <1>4 DEF MouseNext

\* A request of the active session carries its number.
LEMMA SubmittedIds ==
  ASSUME IsActive, NEW kind, NEW rect, EnsureAndSubmit(Request(active, kind, rect)), active' = active
  PROVE  UsedIds' \subseteq UsedIds
BY DEF EnsureAndSubmit, Request, UsedIds, IsActive

\* The queue of results empties, or the session completes.
LEMMA FewerIds ==
  ASSUME IInv, UNCHANGED <<current, pending>>,
         results' = results \/ results' = <<>> \/ (results # <<>> /\ results' = Tail(results)),
         active' = active \/ active' = NoSession
  PROVE  UsedIds' \subseteq UsedIds
<1>1. \A i \in DOMAIN results' : \E j \in DOMAIN results : results'[i] = results[j]
  <2>1. CASE results' = <<>>
    BY <2>1
  <2>2. CASE results # <<>> /\ results' = Tail(results)
    <3>1. \A i \in DOMAIN results' : i + 1 \in DOMAIN results /\ results'[i] = results[i + 1]
      BY <2>2, LoadNumbers
    <3> QED
      BY <3>1
  <2> QED
    BY <2>1, <2>2
<1> QED
  BY <1>1 DEF UsedIds, IsActive

LEMMA WorkerIds ==
  ASSUME IInv, active' = active, WorkerNext \/ (pending' = NoRequest /\ UNCHANGED <<current, results>>)
  PROVE  UsedIds' \subseteq UsedIds
<1>1. CASE TakeRequest
  BY <1>1 DEF TakeRequest, UsedIds, IsActive
<1>2. CASE PlaceWindow
  BY <1>2 DEF PlaceWindow, UsedIds, IsActive
<1>3. CASE PublishResult
  <2> DEFINE res == [id |-> current.id, kind |-> current.kind]
  <2>1. res \in PlacementResult /\ res.id = current.id
    BY <1>3 DEF PublishResult, IInv, TypeOK, WorkerTypeOK, PlacementRequest, PlacementResult
  <2>2. results' = results \/ results' = Append(results, res)
    BY <1>3 DEF PublishResult
  <2>3. current # NoRequest /\ current' = NoRequest /\ pending' = pending
    BY <1>3 DEF PublishResult
  <2> HIDE DEF res
  <2>4. \A i \in DOMAIN results' : results'[i] = res \/ (i \in DOMAIN results /\ results'[i] = results[i])
    BY <2>1, <2>2, LoadNumbers
  <2> QED
    BY <2>1, <2>3, <2>4 DEF UsedIds, IsActive
<1>4. CASE pending' = NoRequest /\ UNCHANGED <<current, results>>
  BY <1>4 DEF UsedIds, IsActive
<1> QED
  BY <1>1, <1>2, <1>3, <1>4 DEF WorkerNext

LEMMA LoopUsedIds ==
  ASSUME IInv, LoopInv, OverlayNext, ~ApplyBegin
  PROVE  UsedIds' \subseteq UsedIds
<1>1. CASE \/ StartLoop \/ WaitForWork \/ FallAsleep \/ NextFrame \/ LeaveLoop \/ RefreshSettings \/ ApplyStale
           \/ ApplyCommitByPost \/ SettleIdle \/ ShowOverlay \/ ShowFails \/ HideOverlay \/ BreakLoop
           \/ BeginFrame \/ CaptureFrame \/ PlainFrame \/ RenderFails \/ DrainResult \/ FinishTeardown
           \/ (ApplyCancel /\ ~(PlacementChanged /\ worker))
           \/ (RestoreBeforeTeardown /\ ~(IsActive /\ PlacementChanged /\ worker))
  <2>1. UNCHANGED <<current, pending>>
    BY <1>1 DEF StartLoop, WaitForWork, FallAsleep, NextFrame, LeaveLoop, RefreshSettings, ApplyStale,
                ApplyCommitByPost, SettleIdle, ShowOverlay, ShowFails, HideOverlay, BreakLoop, BeginFrame,
                Settle, CaptureFrame, PlainFrame, Frame, RenderFails, DrainResult, FinishTeardown, ApplyCancel,
                RestoreBeforeTeardown, overlayVars, workerVars
  <2>2. results' = results \/ results' = <<>> \/ (results # <<>> /\ results' = Tail(results))
    BY <1>1 DEF StartLoop, WaitForWork, FallAsleep, NextFrame, LeaveLoop, RefreshSettings, ApplyStale,
                ApplyCommitByPost, SettleIdle, ShowOverlay, ShowFails, HideOverlay, BreakLoop, BeginFrame,
                Settle, CaptureFrame, PlainFrame, Frame, RenderFails, DrainResult, FinishTeardown, ApplyCancel,
                RestoreBeforeTeardown, overlayVars, workerVars
  <2>3. active' = active \/ active' = NoSession
    BY <1>1 DEF StartLoop, WaitForWork, FallAsleep, NextFrame, LeaveLoop, RefreshSettings, ApplyStale,
                ApplyCommitByPost, SettleIdle, ShowOverlay, ShowFails, HideOverlay, BreakLoop, BeginFrame,
                Settle, CaptureFrame, PlainFrame, Frame, RenderFails, DrainResult, FinishTeardown, ApplyCancel,
                RestoreBeforeTeardown, Complete, overlayVars
  <2> QED
    BY <2>1, <2>2, <2>3, FewerIds
<1>2. CASE \/ ApplyCommitByWorker \/ (ApplyCancel /\ PlacementChanged /\ worker) \/ ParkFrame \/ LiveFrame
           \/ (RestoreBeforeTeardown /\ IsActive /\ PlacementChanged /\ worker)
  <2>1. PICK kind, rect : EnsureAndSubmit(Request(active, kind, rect))
    BY <1>2 DEF ApplyCommitByWorker, ApplyCancel, ParkFrame, LiveFrame, RestoreBeforeTeardown
  <2>2. active' = active
    BY <1>2 DEF ApplyCommitByWorker, ApplyCancel, ParkFrame, LiveFrame, Frame, RestoreBeforeTeardown
  <2>3. IsActive
    BY <1>2, HeadType, ActiveIdIsSession
       DEF ApplyCommitByWorker, ApplyCancel, PopCommand, ParkFrame, LiveFrame, Frame, IInv, TypeOK,
           ActiveWhileDrawing
  <2> QED
    BY <2>1, <2>2, <2>3, SubmittedIds
<1> QED
  BY <1>1, <1>2 DEF OverlayNext

\* The Begin at the head of the queue is the only one, and it becomes the active session.
LEMMA BeginApplied ==
  ASSUME IInv, ApplyBegin
  PROVE  /\ ~IsActive /\ IsActive' /\ QueuedBegins = {1} /\ QueuedBegins' = {}
         /\ active' = commands[1].session /\ active' \in Session
         /\ UNCHANGED <<pc, op, nextId, previewGrab, current, pending, placed, results, place, posted, maximized>>
<1>1. /\ pc # "done" /\ commands # <<>> /\ commands' = Tail(commands) /\ Head(commands).op = "begin"
      /\ UNCHANGED <<pc, op, nextId, previewGrab, current, pending, placed, results, place, posted, maximized>>
  BY DEF ApplyBegin, PopCommand, mouseVars
<1>2. 1 \in QueuedBegins
  BY <1>1, PopShifts DEF IInv, TypeOK
<1>3. ~IsActive /\ \A i \in QueuedBegins : i = 1
  BY <1>1, <1>2 DEF IInv, ReservationOwned
<1>4. QueuedBegins = {1}
  BY <1>2, <1>3
<1>5. QueuedBegins' = {}
  <2>1. SUFFICES ASSUME NEW i \in QueuedBegins' PROVE FALSE
    OBVIOUS
  <2>2. i + 1 = 1
    BY <1>1, <1>3, PopShifts DEF IInv, TypeOK
  <2>3. i \in Nat /\ i # 0
    BY <1>1, HeadType DEF QueuedBegins, IInv, TypeOK
  <2> QED
    BY <2>2, <2>3
<1>6. active' = Head(commands).session /\ Head(commands) = commands[1]
  BY <1>1, <1>3 DEF ApplyBegin, IInv, TypeOK, MouseTypeOK
<1>7. active' \in Session
  BY <1>1, <1>6, HeadType DEF IInv, TypeOK
<1>8. IsActive'
  BY <1>7, NullsDiffer DEF IsActive
<1> QED
  BY <1>1, <1>3, <1>4, <1>5, <1>6, <1>7, <1>8

LEMMA NextIdInv ==
  ASSUME IInv, LoopInv, IdInv, [Next]_vars
  PROVE  IdInv'
<1>1. CASE ApplyBegin
  <2>1. UsedIds' \subseteq UsedIds \cup {active'.id}
    BY <1>1, BeginApplied DEF UsedIds, IsActive
  <2>2. active'.id \in BeginIds /\ BeginIds' = {}
    BY <1>1, BeginApplied DEF BeginIds
  <2>3. UNCHANGED <<op, nextId>>
    BY <1>1, BeginApplied
  <2> QED
    BY <2>1, <2>2, <2>3 DEF IdInv
<1>2. CASE OverlayNext /\ ~ApplyBegin
  <2>1. UsedIds' \subseteq UsedIds
    BY <1>2, LoopUsedIds
  <2>2. BeginIds' \subseteq BeginIds
    <3>1. commands' = commands \/ (commands # <<>> /\ commands' = Tail(commands))
      BY <1>2 DEF OverlayNext, StartLoop, WaitForWork, FallAsleep, NextFrame, LeaveLoop, DrainResult,
         RefreshSettings, ApplyStale, ApplyCommitByPost, ApplyCommitByWorker, PopCommand,
         ApplyCancel, SettleIdle, ShowOverlay, ShowFails, HideOverlay, BreakLoop, BeginFrame,
         Settle, CaptureFrame, ParkFrame, LiveFrame, PlainFrame, Frame, RenderFails,
         RestoreBeforeTeardown, FinishTeardown, channelVars
    <3> QED
      BY <3>1, PopBeginIds, SameBeginIds DEF IInv, TypeOK
  <2>3. UNCHANGED <<op, nextId>>
    BY <1>2 DEF OverlayNext, StartLoop, WaitForWork, FallAsleep, NextFrame, LeaveLoop, DrainResult,
         RefreshSettings, ApplyStale, ApplyCommitByPost, ApplyCommitByWorker,
         ApplyCancel, SettleIdle, ShowOverlay, ShowFails, HideOverlay, BreakLoop, BeginFrame,
         Settle, CaptureFrame, ParkFrame, LiveFrame, PlainFrame, Frame, RenderFails,
         RestoreBeforeTeardown, FinishTeardown, mouseVars
  <2> QED
    BY <2>1, <2>2, <2>3, SameIdInv
<1>3. CASE ~OverlayNext /\ MouseNext
  BY <1>3, MouseIdInv, OutsideLoop
<1>4. CASE ~OverlayNext /\ ~MouseNext
  <2>1. active' = active /\ UNCHANGED <<op, nextId>>
    BY <1>4, OutsideLoop, OutsideMouse DEF mouseVars
  <2>2. commands' = commands
    BY <1>4 DEF Next, WorkerStep, DestroyWorker, PublishSettings, WindowMoves, Shutdown, vars, channelVars
  <2>3. UsedIds' \subseteq UsedIds
    <3>1. CASE WorkerStep \/ DestroyWorker
      BY <2>1, <3>1, WorkerIds DEF WorkerStep, DestroyWorker
    <3>2. CASE ~(WorkerStep \/ DestroyWorker)
      <4>1. UNCHANGED <<current, pending, results>>
        BY <1>4, <3>2 DEF Next, PublishSettings, WindowMoves, Shutdown, vars, workerVars
      <4> QED
        BY <2>1, <4>1 DEF UsedIds, IsActive
    <3> QED
      BY <3>1, <3>2
  <2> QED
    BY <2>1, <2>2, <2>3, SameBeginIds, SameIdInv
<1> QED
  BY <1>1, <1>2, <1>3, <1>4

-------------------------------------------------------------------------------
(***************************************************************************)
(* The windows.  Desk is PlaceInv while no grab measured a window at a     *)
(* preview position; one lemma for each kind of step.                      *)
(***************************************************************************)
Desk == RectsInv /\ RequestsInv /\ EndingInv

LEMMA GrabStays ==
  ASSUME [Next]_vars, ~previewGrab'
  PROVE  ~previewGrab
<1>1. CASE MouseNext
  BY <1>1 DEF MouseNext, SelectTarget, RejectTarget, MeasureTarget, RestoreMaximized, RestoreMaximizedFails,
         ReserveInteraction, PushBegin, FinishOperation, CancelOperation
<1>2. CASE ~MouseNext
  BY <1>2, OutsideMouse DEF mouseVars
<1> QED
  BY <1>1, <1>2

\* What leaves the interaction and its requests alone.
LEMMA SameDesk ==
  ASSUME Desk, UNCHANGED <<active, pending, current, placed>>,
         \A w \in Windows : AtPreview(w)' => AtPreview(w),
         \A w \in Windows : \A i \in DOMAIN posted'[w] : ~IsPreview(posted'[w][i]),
         BeginsInPlace', PlacementChanged => PlacementChanged',
         Ending' <=> Ending, ResultReported' => ResultReported, IsActive => active.target \in Windows
  PROVE  Desk'
<1>1. RectsInv'
  BY DEF Desk, RectsInv, IsActive
<1>2. RequestsInv'
  BY DEF Desk, RequestsInv, IsActive, Moving
<1>3. EndingInv'
  BY DEF Desk, EndingInv, IsActive, Moving, PutsBack, IsOutcome, Outcome
<1> QED
  BY <1>1, <1>2, <1>3 DEF Desk

\* The interaction completes with every window in its place.
LEMMA CompleteDesk ==
  ASSUME Desk, Complete, UNCHANGED <<pending, current, place>>,
         \A w \in Windows : \A i \in DOMAIN posted'[w] : ~IsPreview(posted'[w][i]),
         BeginsInPlace', ~Moving(pending), ~Moving(current), \A w \in Windows : ~AtPreview(w)
  PROVE  Desk'
<1>1. ~IsActive'
  BY DEF Complete, IsActive
<1>2. RectsInv'
  BY <1>1 DEF RectsInv, AtPreview
<1>3. RequestsInv'
  BY <1>1 DEF Desk, RequestsInv, Moving
<1>4. EndingInv'
  BY <1>1 DEF EndingInv
<1> QED
  BY <1>2, <1>3, <1>4 DEF Desk

\* Nothing was moved: the interaction may complete at once.
LEMMA NothingMoved ==
  ASSUME Desk, ~PlacementChanged
  PROVE  ~Moving(pending) /\ ~Moving(current) /\ \A w \in Windows : ~AtPreview(w)
BY DEF Desk, RectsInv, RequestsInv

\* The request that puts the window back is submitted.
LEMMA PutBackDesk ==
  ASSUME Desk, IsActive, active \in Session, NEW kind \in {"Commit", "Restore"}, NEW rect, ~IsPreview(rect),
         Request(active, kind, rect) # NoRequest,
         EnsureAndSubmit(Request(active, kind, rect)), UNCHANGED <<active, posted>>,
         BeginsInPlace', PlacementChanged => PlacementChanged', Ending'
  PROVE  Desk'
<1> DEFINE r == Request(active, kind, rect)
<1>1. r.kind = kind /\ r.rect = rect /\ r.id = active.id /\ r.target = active.target /\ r # NoRequest
  BY DEF Request
<1>2. pending' = r /\ UNCHANGED <<current, placed, results, place>>
  BY DEF EnsureAndSubmit
<1> HIDE DEF r
<1>3. RectsInv'
  BY <1>2 DEF Desk, RectsInv, IsActive, AtPreview
<1>4. RequestsInv'
  <2>1. ~Moving(pending)'
    BY <1>1, <1>2 DEF Moving
  <2>2. Moving(current)' => Moving(current)
    BY <1>2 DEF Moving
  <2> QED
    BY <1>1, <1>2, <2>1, <2>2 DEF Desk, RequestsInv, IsActive
<1>5. EndingInv'
  <2>1. PutsBack(pending)'
    BY <1>1, <1>2 DEF PutsBack
  <2>2. /\ (IsOutcome(current) /\ placed)' => IsOutcome(current) /\ placed
        /\ ResultReported' => ResultReported
        /\ AtPreview(active.target)' => AtPreview(active.target)
        /\ Moving(current)' => Moving(current)
    BY <1>2 DEF IsOutcome, Outcome, ResultReported, AtPreview, Moving
  <2> QED
    BY <2>1, <2>2 DEF Desk, EndingInv, IsActive
<1> QED
  BY <1>3, <1>4, <1>5 DEF Desk

\* A preview moves the window of an interaction that is not ending.
LEMMA PreviewDesk ==
  ASSUME Desk, IsActive, NEW kind \in {"Park", "Live"}, NEW rect,
         EnsureAndSubmit(Request(active, kind, rect)), UNCHANGED <<active, posted>>,
         BeginsInPlace', PlacementChanged', ~Ending, ~Ending'
  PROVE  Desk'
<1> DEFINE r == Request(active, kind, rect)
<1>1. r.kind = kind /\ r.id = active.id /\ r.target = active.target
  BY DEF Request
<1>2. pending' = r /\ UNCHANGED <<current, placed, results, place>>
  BY DEF EnsureAndSubmit
<1> HIDE DEF r
<1>3. RectsInv'
  BY <1>2 DEF Desk, RectsInv, IsActive, AtPreview
<1>4. RequestsInv'
  <2>1. Moving(current)' => Moving(current)
    BY <1>2 DEF Moving
  <2> QED
    BY <1>1, <1>2, <2>1 DEF Desk, RequestsInv, IsActive
<1>5. EndingInv'
  <2>1. ~IsOutcome(current) /\ ~ResultReported
    BY DEF Desk, EndingInv
  <2>2. ~IsOutcome(pending)' /\ ~IsOutcome(current)' /\ ~ResultReported'
    BY <1>1, <1>2, <2>1 DEF IsOutcome, Outcome, ResultReported
  <2> QED
    BY <2>2 DEF EndingInv
<1> QED
  BY <1>3, <1>4, <1>5 DEF Desk

\* A Begin becomes the active session: nothing in the worker carries its number.
LEMMA BeginDesk ==
  ASSUME IInv, LoopInv, IdInv, Desk, ApplyBegin
  PROVE  Desk'
<1>1. /\ ~IsActive /\ IsActive' /\ QueuedBegins = {1} /\ QueuedBegins' = {}
      /\ active' = commands[1].session /\ active' \in Session
      /\ UNCHANGED <<pc, current, pending, placed, results, place, posted>>
  BY BeginApplied
<1>2. ~Moving(pending) /\ ~Moving(current) /\ \A w \in Windows : ~AtPreview(w)
  BY <1>1 DEF Desk, RectsInv, RequestsInv
<1>3. active'.id \notin UsedIds /\ active'.id \in InteractionId
  BY <1>1 DEF BeginIds, IdInv, Session
<1>4. /\ pending # NoRequest => pending.id # active'.id
      /\ current # NoRequest => current.id # active'.id
      /\ \A i \in DOMAIN results : results[i].id # active'.id
  BY <1>3 DEF UsedIds
<1>5. RectsInv'
  <2>1. ~IsPreview(active'.originalRawRect)
    BY <1>1 DEF Desk, RectsInv, BeginsInPlace
  <2> QED
    BY <1>1, <1>2, <2>1 DEF Desk, RectsInv, BeginsInPlace, AtPreview
<1>6. RequestsInv'
  BY <1>1, <1>2, <1>4 DEF Desk, RequestsInv, Moving
<1>7. ~Ending'
  <2>1. pc = "commands" /\ pc' = "commands"
    BY <1>1 DEF ApplyBegin, PopCommand
  <2>2. ~preview'.finishing
    BY <1>1 DEF ApplyBegin, NoPreview
  <2> QED
    BY <2>1, <2>2 DEF Ending, Restored
<1>8. ~IsOutcome(pending)' /\ ~IsOutcome(current)' /\ ~ResultReported'
  BY <1>1, <1>4 DEF IsOutcome, Outcome, ResultReported
<1>9. EndingInv'
  BY <1>7, <1>8 DEF EndingInv
<1> QED
  BY <1>5, <1>6, <1>9 DEF Desk

LEMMA WorkerDesk ==
  ASSUME IInv, Desk, WorkerNext, UNCHANGED <<active, preview, posted, commands, pc>>
  PROVE  Desk'
<1>0. /\ IsActive' <=> IsActive
      /\ BeginsInPlace'
      /\ \A w \in Windows : \A i \in DOMAIN posted'[w] : ~IsPreview(posted'[w][i])
      /\ PlacementChanged' <=> PlacementChanged
      /\ Ending' <=> Ending
      /\ IsActive => active \in Session /\ active.target \in Windows
  BY DEF Desk, RectsInv, BeginsInPlace, QueuedBegins, IsActive, PlacementChanged, Ending, IInv, TypeOK, Session
<1>1. CASE TakeRequest
  <2>1. /\ current = NoRequest /\ current' = pending /\ pending' = NoRequest /\ placed' = FALSE
        /\ UNCHANGED <<results, place>>
    BY <1>1 DEF TakeRequest
  <2>2. RectsInv'
    BY <1>0, <2>1 DEF Desk, RectsInv, AtPreview
  <2>3. RequestsInv'
    <3>1. ~Moving(pending)' /\ (Moving(current)' <=> Moving(pending))
      BY <2>1 DEF Moving
    <3> QED
      BY <1>0, <2>1, <3>1 DEF Desk, RequestsInv
  <2>4. EndingInv'
    <3>1. /\ Moving(current)' <=> Moving(pending)
          /\ PutsBack(pending) => PutsBack(current)'
          /\ ~PutsBack(current)
          /\ IsOutcome(current)' <=> IsOutcome(pending)
          /\ ~IsOutcome(pending)'
          /\ ResultReported' <=> ResultReported
          /\ AtPreview(active.target)' <=> AtPreview(active.target)
      BY <2>1 DEF Moving, PutsBack, IsOutcome, Outcome, ResultReported, AtPreview
    <3>2. Moving(pending) => ~Ending
      BY DEF Desk, RequestsInv
    <3> QED
      BY <1>0, <2>1, <3>1, <3>2 DEF Desk, EndingInv
  <2> QED
    BY <2>2, <2>3, <2>4 DEF Desk
<1>2. CASE PlaceWindow
  <2>1. /\ current # NoRequest /\ current \in PlacementRequest /\ current.target \in Windows
        /\ ~placed /\ placed' /\ UNCHANGED <<current, pending, results>>
    BY <1>2 DEF PlaceWindow, IInv, TypeOK, WorkerTypeOK, PlacementRequest
  <2>2. \A w \in Windows : place'[w] = IF w = current.target /\ w \notin Immovable THEN current.rect ELSE place[w]
    BY <1>2 DEF PlaceWindow, IInv, TypeOK, WorkerTypeOK
  <2>3. \A w \in Windows : AtPreview(w)' =>
           \/ w = current.target /\ w \notin Immovable /\ Moving(current)
           \/ AtPreview(w) /\ ~(w = current.target /\ w \notin Immovable)
    BY <2>1, <2>2 DEF AtPreview, Moving, IsPreview
  <2>4. \A w \in Windows : AtPreview(w) => w \notin Immovable
    BY DEF Desk, RectsInv
  <2>5. RectsInv'
    <3>1. Moving(current) => IsActive /\ current.target = active.target /\ PlacementChanged
      BY DEF Desk, RequestsInv
    <3>2. ASSUME NEW w \in Windows, AtPreview(w)'
          PROVE  IsActive /\ active.target = w /\ PlacementChanged /\ w \notin Immovable
      BY <2>3, <3>1, <3>2 DEF Desk, RectsInv
    <3> QED
      BY <1>0, <3>2 DEF Desk, RectsInv
  <2>6. RequestsInv'
    <3>1. (Moving(pending)' <=> Moving(pending)) /\ (Moving(current)' <=> Moving(current))
      BY <2>1 DEF Moving
    <3> QED
      BY <1>0, <2>1, <3>1 DEF Desk, RequestsInv
  <2>7. EndingInv'
    <3> SUFFICES ASSUME IsActive PROVE EndingInv'
      BY <1>0 DEF EndingInv
    <3>1. /\ Moving(current)' <=> Moving(current)
          /\ PutsBack(pending) <=> PutsBack(pending)'
          /\ IsOutcome(current)' <=> IsOutcome(current)
          /\ IsOutcome(pending)' <=> IsOutcome(pending)
          /\ ResultReported' <=> ResultReported
      BY <2>1 DEF Moving, PutsBack, IsOutcome, Outcome, ResultReported
    <3>2. PutsBack(current) => ~Moving(current) /\ ~AtPreview(active.target)'
      BY <1>0, <2>3, <2>4 DEF PutsBack, Moving
    <3>3. IsOutcome(current) => PutsBack(current)
      BY <2>1 DEF IsOutcome, Outcome, PutsBack, Desk, RequestsInv
    <3>4. ~Moving(current) /\ ~AtPreview(active.target) => ~AtPreview(active.target)'
      BY <1>0, <2>3
    <3>5. IsOutcome(pending)' \/ IsOutcome(current)' \/ ResultReported' => Ending'
      BY <1>0, <3>1 DEF Desk, EndingInv
    <3>6. Ending /\ (Moving(current) \/ AtPreview(active.target)') => PutsBack(pending)
      BY <3>2, <3>4 DEF Desk, EndingInv
    <3>7. IsOutcome(current) \/ ResultReported => ~AtPreview(active.target)' /\ ~Moving(current)
      BY <3>2, <3>3, <3>4 DEF Desk, EndingInv
    <3> QED
      BY <1>0, <2>1, <3>1, <3>5, <3>6, <3>7 DEF EndingInv
  <2> QED
    BY <2>5, <2>6, <2>7 DEF Desk
<1>3. CASE PublishResult
  <2> DEFINE res == [id |-> current.id, kind |-> current.kind]
  <2>1. /\ current # NoRequest /\ current' = NoRequest /\ placed /\ placed' = FALSE
        /\ UNCHANGED <<pending, place>>
        /\ results' = results \/ results' = Append(results, res)
    BY <1>3 DEF PublishResult
  <2>2. res \in PlacementResult /\ res.id = current.id /\ res.kind = current.kind
    BY <2>1 DEF IInv, TypeOK, WorkerTypeOK, PlacementRequest, PlacementResult
  <2> HIDE DEF res
  <2>3. RectsInv'
    BY <1>0, <2>1 DEF Desk, RectsInv, AtPreview
  <2>4. RequestsInv'
    <3>1. ~Moving(current)' /\ (Moving(pending)' <=> Moving(pending))
      BY <2>1 DEF Moving
    <3> QED
      BY <1>0, <2>1, <3>1 DEF Desk, RequestsInv
  <2>5. EndingInv'
    <3>1. \A i \in DOMAIN results' : results'[i] = res \/ (i \in DOMAIN results /\ results'[i] = results[i])
      BY <2>1, <2>2, LoadNumbers
    <3>2. ResultReported' => ResultReported \/ IsOutcome(current)
      BY <2>1, <2>2, <3>1 DEF ResultReported, IsOutcome, Outcome
    <3>3. /\ ~Moving(current)'
          /\ PutsBack(pending) <=> PutsBack(pending)'
          /\ ~IsOutcome(current)'
          /\ IsOutcome(pending)' <=> IsOutcome(pending)
          /\ AtPreview(active.target)' <=> AtPreview(active.target)
      BY <2>1 DEF Moving, PutsBack, IsOutcome, Outcome, AtPreview
    <3> QED
      BY <1>0, <2>1, <3>2, <3>3 DEF Desk, EndingInv
  <2> QED
    BY <2>3, <2>4, <2>5 DEF Desk
<1> QED
  BY <1>1, <1>2, <1>3 DEF WorkerNext

\* The other threads: the mouse, the windows, the configuration, the destructors.
LEMMA SameBegins ==
  ASSUME commands' = commands, BeginsInPlace
  PROVE  BeginsInPlace'
BY DEF BeginsInPlace, QueuedBegins

LEMMA MouseDesk ==
  ASSUME IInv, LoopInv, Desk, MouseNext, UNCHANGED <<active, preview, posted, pc>>, ~previewGrab'
  PROVE  Desk'
<1>1. /\ UNCHANGED <<pending, current, placed, results>>
      /\ PlacementChanged' <=> PlacementChanged
      /\ Ending' <=> Ending
      /\ ResultReported' <=> ResultReported
  <2>1. UNCHANGED <<pending, current, placed, results>>
    BY DEF MouseNext, SelectTarget, RejectTarget, MeasureTarget, RestoreMaximized, RestoreMaximizedFails,
         ReserveInteraction, PushBegin, FinishOperation, CancelOperation, workerVars
  <2> QED
    BY <2>1 DEF PlacementChanged, Ending, ResultReported, Outcome
<1>2. \A w \in Windows : AtPreview(w)' => AtPreview(w)
  <2>1. CASE RestoreMaximized
    BY <2>1 DEF RestoreMaximized, AtPreview, AnchoredRect, IInv, TypeOK, WorkerTypeOK
  <2>2. CASE ~RestoreMaximized
    <3>1. place' = place
      BY <2>2 DEF MouseNext, SelectTarget, RejectTarget, MeasureTarget, RestoreMaximizedFails,
            ReserveInteraction, PushBegin, FinishOperation, CancelOperation, workerVars
    <3> QED
      BY <3>1 DEF AtPreview
  <2> QED
    BY <2>1, <2>2
<1>3. BeginsInPlace'
  <2>0. BeginsInPlace
    BY DEF Desk, RectsInv
  <2>1. CASE PushBegin
    <3>1. op.step = "reserved" /\ QueuedBegins = {}
      BY <2>1, MouseBeforeStop DEF PushBegin, IInv, ReservationOwned
    <3>2. CASE Len(commands) < CommandCapacity
      <4>1. commands' = Append(commands, BeginCmd(OpSession)) /\ OpSession \in Session
        BY <2>1, <3>1, <3>2, OpSessionType DEF PushBegin, IInv, TypeOK
      <4>2. QueuedBegins' = {Len(commands) + 1}
        BY <3>1, <4>1, AppendBegin DEF IInv, TypeOK
      <4>3. commands'[Len(commands) + 1] = BeginCmd(OpSession)
        BY <4>1, CommandTypes DEF IInv, TypeOK, MouseTypeOK
      <4>4. ~IsPreview(op.rect)
        BY <2>1, <3>2 DEF PushBegin, IsPreview
      <4> QED
        BY <4>2, <4>3, <4>4 DEF BeginsInPlace, BeginCmd, OpSession
    <3>3. CASE ~(Len(commands) < CommandCapacity)
      BY <2>0, <2>1, <3>3, SameBegins DEF PushBegin
    <3> QED
      BY <3>2, <3>3
  <2>2. CASE FinishOperation \/ CancelOperation
    <3>1. PICK cmd \in Command : cmd.op # "begin" /\ Send(cmd)
      <4>1. op.id \in InteractionId
        BY <2>2 DEF FinishOperation, CancelOperation, IInv, TypeOK, MouseTypeOK
      <4>2. /\ CommitCmd(op.id) \in Command /\ CommitCmd(op.id).op # "begin"
            /\ CancelCmd(op.id) \in Command /\ CancelCmd(op.id).op # "begin"
        BY <4>1, CommandTypes DEF CommitCmd, CancelCmd
      <4> QED
        BY <2>2, <4>2 DEF FinishOperation, CancelOperation
    <3>2. QueuedBegins' = QueuedBegins
      BY <3>1, AppendOther DEF Send, IInv, TypeOK
    <3>3. \A b \in QueuedBegins : commands'[b] = commands[b]
      <4>1. commands \in Seq(Command) /\ (commands' = commands \/ commands' = Append(commands, cmd))
        BY <3>1 DEF Send, IInv, TypeOK, MouseTypeOK
      <4> QED
        BY <4>1 DEF QueuedBegins
    <3> QED
      BY <2>0, <3>2, <3>3 DEF BeginsInPlace
  <2>3. CASE ~PushBegin /\ ~FinishOperation /\ ~CancelOperation
    BY <2>0, <2>3, SameBegins
       DEF MouseNext, SelectTarget, RejectTarget, MeasureTarget, RestoreMaximized, RestoreMaximizedFails,
           ReserveInteraction, channelVars
  <2> QED
    BY <2>1, <2>2, <2>3
<1>4. IsActive => active.target \in Windows
  BY DEF IInv, TypeOK, Session, IsActive
<1> QED
  BY <1>1, <1>2, <1>3, <1>4, SameDesk DEF Desk, RectsInv

LEMMA OutsideDesk ==
  ASSUME IInv, LoopInv, Desk, [Next]_vars, ~OverlayNext, ~previewGrab'
  PROVE  Desk'
<1>0. /\ UNCHANGED <<pc, active, preview>>
      /\ PlacementChanged' <=> PlacementChanged
      /\ Ending' <=> Ending
      /\ IsActive => active.target \in Windows
  <2>1. UNCHANGED <<pc, active, preview>>
    BY OutsideLoop
  <2> QED
    BY <2>1 DEF PlacementChanged, Ending, IInv, TypeOK, Session, IsActive
<1>a. BeginsInPlace /\ \A w \in Windows : \A i \in DOMAIN posted[w] : ~IsPreview(posted[w][i])
  BY DEF Desk, RectsInv
<1>1. CASE MouseNext /\ UNCHANGED <<overlayVars, settingsVars, posted>>
  BY <1>0, <1>1, MouseDesk
<1>2. CASE WorkerStep
  BY <1>0, <1>2, WorkerDesk DEF WorkerStep
<1>3. CASE DestroyWorker
  <2>1. /\ pending' = NoRequest /\ current = NoRequest /\ UNCHANGED <<current, placed, results, place, posted, commands>>
        /\ ~IsActive
    BY <1>3 DEF DestroyWorker, channelVars, LoopInv
  <2>2. ~IsActive' /\ BeginsInPlace'
    BY <1>0, <1>a, <2>1, SameBegins DEF IsActive
  <2>3. RectsInv'
    BY <1>0, <2>1, <2>2 DEF Desk, RectsInv, AtPreview
  <2>4. RequestsInv'
    BY <2>1 DEF RequestsInv, Moving
  <2>5. EndingInv'
    BY <2>2 DEF EndingInv
  <2> QED
    BY <2>3, <2>4, <2>5 DEF Desk
<1>4. ASSUME NEW w \in Windows, WindowMoves(w) PROVE Desk'
  <2>1. /\ posted[w] # <<>> /\ posted[w] \in Seq(Rect)
        /\ place' = [place EXCEPT ![w] = Head(posted[w])]
        /\ posted' = [posted EXCEPT ![w] = Tail(@)]
        /\ UNCHANGED <<pending, current, placed, results, commands>>
    BY <1>4 DEF WindowMoves, IInv, TypeOK, channelVars
  <2>2. ~IsPreview(Head(posted[w]))
    BY <1>a, <2>1
  <2>3. \A x \in Windows : AtPreview(x)' => AtPreview(x)
    BY <2>1, <2>2 DEF AtPreview, IsPreview, IInv, TypeOK, WorkerTypeOK
  <2>4. ASSUME NEW x \in Windows, NEW i \in DOMAIN posted'[x] PROVE ~IsPreview(posted'[x][i])
    <3>1. CASE x = w
      <4>1. posted'[w] = Tail(posted[w])
        BY <2>1 DEF IInv, TypeOK
      <4>2. PICK q : q = posted[w] /\ q \in Seq(Rect) /\ q # <<>>
        BY <2>1
      <4>3. i \in DOMAIN Tail(q) /\ posted'[x][i] = Tail(q)[i]
        BY <2>4, <3>1, <4>1, <4>2
      <4>4. i + 1 \in DOMAIN q /\ Tail(q)[i] = q[i + 1]
        BY <4>2, <4>3
      <4> QED
        BY <1>a, <4>2, <4>3, <4>4
    <3>2. CASE x # w
      <4>1. posted'[x] = posted[x]
        BY <2>1, <3>2 DEF IInv, TypeOK
      <4> QED
        BY <1>a, <2>4, <4>1
    <3> QED
      BY <3>1, <3>2
  <2>5. ResultReported' <=> ResultReported
    BY <1>0, <2>1 DEF ResultReported, Outcome
  <2>6. BeginsInPlace'
    BY <1>a, <2>1, SameBegins
  <2> QED
    BY <1>0, <2>1, <2>3, <2>4, <2>5, <2>6, SameDesk
<1>5. CASE Shutdown \/ UNCHANGED vars \/ \E s \in SettingsValues : PublishSettings(s)
  <2>1. UNCHANGED <<pending, current, placed, results, place, posted, commands>>
    BY <1>5 DEF Shutdown, PublishSettings, vars, workerVars, channelVars
  <2>2. BeginsInPlace' /\ (ResultReported' <=> ResultReported) /\ \A w \in Windows : AtPreview(w)' => AtPreview(w)
    BY <1>0, <1>a, <2>1, SameBegins DEF ResultReported, Outcome, AtPreview
  <2> QED
    BY <1>0, <1>a, <2>1, <2>2, SameDesk
<1> QED
  BY <1>1, <1>2, <1>3, <1>4, <1>5 DEF Next

\* A Begin that stays in the queue keeps its session.
LEMMA PopBegins ==
  ASSUME IInv, BeginsInPlace, commands' = commands \/ (commands # <<>> /\ commands' = Tail(commands))
  PROVE  BeginsInPlace'
<1>1. CASE commands' = commands
  BY <1>1, SameBegins
<1>2. CASE commands # <<>> /\ commands' = Tail(commands)
  BY <1>2, PopSessions DEF BeginsInPlace, IInv, TypeOK
<1> QED
  BY <1>1, <1>2

LEMMA RequestOfSession ==
  ASSUME IInv, active \in Session, NEW kind \in PlacementKind, NEW rect \in Rect
  PROVE  Request(active, kind, rect) # NoRequest
BY RequestType, NullsDiffer

\* The rectangle of a commit is not a preview position unless the grab had measured one.
LEMMA CommitRect ==
  ASSUME Desk, IsActive
  PROVE  ~IsPreview(ComputedRect(active, "final")) /\ ~IsPreview(active.originalRawRect)
BY DEF Desk, RectsInv, ComputedRect, OffScreen, IsPreview

LEMMA LoopDesk ==
  ASSUME IInv, LoopInv, IdInv, Desk, OverlayNext, ~ApplyBegin
  PROVE  Desk'
<1>0. BeginsInPlace'
  <2>1. commands' = commands \/ (commands # <<>> /\ commands' = Tail(commands))
    BY DEF OverlayNext, StartLoop, WaitForWork, FallAsleep, NextFrame, LeaveLoop, DrainResult,
         RefreshSettings, ApplyStale, ApplyCommitByPost, ApplyCommitByWorker, PopCommand,
         ApplyCancel, SettleIdle, ShowOverlay, ShowFails, HideOverlay, BreakLoop, BeginFrame,
         Settle, CaptureFrame, ParkFrame, LiveFrame, PlainFrame, Frame, RenderFails,
         RestoreBeforeTeardown, FinishTeardown, channelVars
  <2> QED
    BY <2>1, PopBegins DEF Desk, RectsInv
<1>a. \A w \in Windows : \A i \in DOMAIN posted[w] : ~IsPreview(posted[w][i])
  BY DEF Desk, RectsInv
<1>b. IsActive => active \in Session /\ active.target \in Windows /\ active.originalRawRect \in Rect
  BY DEF IInv, TypeOK, Session, IsActive
<1>1. CASE \/ StartLoop \/ WaitForWork \/ FallAsleep \/ NextFrame \/ LeaveLoop \/ RefreshSettings \/ ApplyStale
           \/ SettleIdle \/ ShowOverlay \/ ShowFails \/ HideOverlay \/ BreakLoop
           \/ BeginFrame \/ CaptureFrame \/ PlainFrame \/ RenderFails
  <2>1. UNCHANGED <<active, pending, current, placed, results, place, posted>>
    BY <1>1 DEF StartLoop, WaitForWork, FallAsleep, NextFrame, LeaveLoop, RefreshSettings, ApplyStale,
                SettleIdle, ShowOverlay, ShowFails, HideOverlay, BreakLoop, BeginFrame,
                Settle, CaptureFrame, PlainFrame, Frame, RenderFails, overlayVars, workerVars
  <2>2. (PlacementChanged' <=> PlacementChanged) /\ (preview'.finishing <=> preview.finishing)
    <3>1. CASE CaptureFrame
      BY <3>1 DEF CaptureFrame, Frame, PlacementChanged, IInv, TypeOK, PreviewState
    <3>2. CASE ~CaptureFrame
      <4>1. preview' = preview
        BY <1>1, <3>2
           DEF StartLoop, WaitForWork, FallAsleep, NextFrame, LeaveLoop, RefreshSettings, ApplyStale,
                SettleIdle, ShowOverlay, ShowFails, HideOverlay, BreakLoop, BeginFrame,
                Settle, PlainFrame, Frame, RenderFails, overlayVars
      <4> QED
        BY <4>1 DEF PlacementChanged
    <3> QED
      BY <3>1, <3>2
  <2>3. pc' \in Restored <=> pc \in Restored
    BY <1>1 DEF StartLoop, WaitForWork, FallAsleep, NextFrame, LeaveLoop, RefreshSettings, ApplyStale, PopCommand,
                SettleIdle, ShowOverlay, ShowFails, HideOverlay, BreakLoop, BeginFrame,
                Settle, CaptureFrame, PlainFrame, Frame, RenderFails, overlayVars, Restored
  <2>4. ResultReported' <=> ResultReported
    BY <2>1 DEF ResultReported, Outcome
  <2>5. \A w \in Windows : AtPreview(w)' => AtPreview(w)
    BY <2>1 DEF AtPreview
  <2> QED
    BY <1>0, <1>a, <1>b, <2>1, <2>2, <2>3, <2>4, <2>5, SameDesk DEF Ending
<1>2. CASE DrainResult
  <2>1. /\ results # <<>> /\ results' = Tail(results) /\ pc' = pc /\ pc = "results"
        /\ UNCHANGED <<pending, current, placed, place, posted>>
    BY <1>2 DEF DrainResult
  <2>2. \A i \in DOMAIN results' : i + 1 \in DOMAIN results /\ results'[i] = results[i + 1]
    BY <2>1, LoadNumbers
  <2>3. Head(results) = results[1] /\ 1 \in DOMAIN results
    BY <2>1, LoadNumbers
  <2>4. CASE Complete /\ Head(results).id = ActiveId /\ Head(results).kind \in {"Commit", "Restore"}
    <3>1. IsActive
      BY <2>1, <2>4, HeadType, ActiveIdIsSession DEF IInv, TypeOK
    <3>2. ResultReported
      BY <2>3, <2>4, <3>1 DEF ResultReported, Outcome, ActiveId
    <3>3. Ending /\ ~AtPreview(active.target) /\ ~Moving(current)
      BY <3>1, <3>2 DEF Desk, EndingInv
    <3>4. ~Moving(pending) /\ \A w \in Windows : ~AtPreview(w)
      BY <3>3 DEF Desk, RequestsInv, RectsInv
    <3> QED
      BY <1>0, <1>a, <2>1, <2>4, <3>3, <3>4, CompleteDesk
  <2>5. CASE UNCHANGED <<active, preview>>
    <3>1. ResultReported' => ResultReported
      BY <2>2, <2>5 DEF ResultReported, Outcome
    <3>2. (PlacementChanged' <=> PlacementChanged) /\ (Ending' <=> Ending)
      BY <2>1, <2>5 DEF PlacementChanged, Ending
    <3>3. \A w \in Windows : AtPreview(w)' => AtPreview(w)
      BY <2>1 DEF AtPreview
    <3> QED
      BY <1>0, <1>a, <1>b, <2>1, <2>5, <3>1, <3>2, <3>3, SameDesk
  <2> QED
    BY <1>2, <2>4, <2>5 DEF DrainResult
<1>3. CASE ApplyCommitByPost
  <2>1. /\ UNCHANGED <<pending, current, place>> /\ Complete
        /\ posted' = [posted EXCEPT ![active.target] =
                        IF active.target \in Immovable THEN @ ELSE Append(@, ComputedRect(active, "final"))]
    BY <1>3 DEF ApplyCommitByPost, workerVars
  <2>2. IsActive
    BY <1>3, HeadType, ActiveIdIsSession DEF ApplyCommitByPost, PopCommand, IInv, TypeOK
  <2>3. ~PlacementChanged
    BY <1>3 DEF ApplyCommitByPost, LoopInv
  <2>4. ASSUME NEW w \in Windows, NEW i \in DOMAIN posted'[w] PROVE ~IsPreview(posted'[w][i])
    <3>1. posted'[w] = posted[w] \/ posted'[w] = Append(posted[w], ComputedRect(active, "final"))
      BY <2>1 DEF IInv, TypeOK
    <3>2. ComputedRect(active, "final") \in Rect
      BY <1>b, <2>2, RectTypes DEF RectKind
    <3>3. posted[w] \in Seq(Rect)
      BY DEF IInv, TypeOK
    <3>4. posted'[w][i] = ComputedRect(active, "final") \/ (i \in DOMAIN posted[w] /\ posted'[w][i] = posted[w][i])
      BY <2>4, <3>1, <3>2, <3>3
    <3> QED
      BY <1>a, <2>2, <3>4, CommitRect
  <2> QED
    BY <1>0, <2>1, <2>3, <2>4, NothingMoved, CompleteDesk
<1>4. CASE ApplyCommitByWorker
  <2>1. IsActive
    BY <1>4, HeadType, ActiveIdIsSession DEF ApplyCommitByWorker, PopCommand, IInv, TypeOK
  <2>2. /\ EnsureAndSubmit(Request(active, "Commit", ComputedRect(active, "final")))
        /\ UNCHANGED <<active, posted>>
        /\ preview' = [preview EXCEPT !.stage = "none", !.finishing = TRUE]
    BY <1>4 DEF ApplyCommitByWorker
  <2>3. (PlacementChanged' <=> PlacementChanged) /\ Ending'
    BY <2>2 DEF PlacementChanged, Ending, IInv, TypeOK, PreviewState
  <2>4. Request(active, "Commit", ComputedRect(active, "final")) # NoRequest
    BY <1>b, <2>1, RectTypes, RequestOfSession DEF RectKind, PlacementKind
  <2> QED
    BY <1>0, <1>b, <2>1, <2>2, <2>3, <2>4, CommitRect, PutBackDesk
<1>5. CASE ApplyCancel
  <2>1. IsActive
    BY <1>5, HeadType, ActiveIdIsSession DEF ApplyCancel, PopCommand, IInv, TypeOK
  <2>2. posted' = posted
    BY <1>5 DEF ApplyCancel
  <2>3. CASE PlacementChanged /\ worker
    <3>1. /\ EnsureAndSubmit(Request(active, "Restore", active.originalRawRect)) /\ active' = active
          /\ preview' = [preview EXCEPT !.stage = "none", !.finishing = TRUE]
      BY <1>5, <2>3 DEF ApplyCancel
    <3>2. (PlacementChanged' <=> PlacementChanged) /\ Ending'
      BY <3>1 DEF PlacementChanged, Ending, IInv, TypeOK, PreviewState
    <3>3. Request(active, "Restore", active.originalRawRect) # NoRequest
      BY <1>b, <2>1, RequestOfSession DEF PlacementKind
    <3> QED
      BY <1>0, <1>b, <2>1, <2>2, <3>1, <3>2, <3>3, CommitRect, PutBackDesk
  <2>4. CASE ~(PlacementChanged /\ worker)
    <3>1. Complete /\ UNCHANGED <<pending, current, place>>
      BY <1>5, <2>4 DEF ApplyCancel, workerVars
    <3>2. ~PlacementChanged
      BY <2>4 DEF LoopInv
    <3> QED
      BY <1>0, <1>a, <2>2, <3>1, <3>2, NothingMoved, CompleteDesk
  <2> QED
    BY <2>3, <2>4
<1>6. CASE ParkFrame \/ LiveFrame
  <2>1. /\ pc = "draw" /\ pc' = "top" /\ UNCHANGED <<active, posted>> /\ IsActive /\ ~preview.finishing
    BY <1>6 DEF ParkFrame, LiveFrame, Frame, IInv, ActiveWhileDrawing, LoopInv
  <2>2. PICK kind \in {"Park", "Live"} : \E rect : EnsureAndSubmit(Request(active, kind, rect))
    BY <1>6 DEF ParkFrame, LiveFrame
  <2>5. PICK rect : EnsureAndSubmit(Request(active, kind, rect))
    BY <2>2
  <2>3. PlacementChanged' /\ ~preview'.finishing
    <3>1. CASE ParkFrame
      BY <2>1, <3>1 DEF ParkFrame, Frame, PlacementChanged, IInv, TypeOK, PreviewState
    <3>2. CASE LiveFrame
      BY <2>1, <3>2 DEF LiveFrame, Frame, PlacementChanged, IInv, TypeOK, PreviewState
    <3> QED
      BY <1>6, <3>1, <3>2
  <2>4. ~Ending /\ ~Ending'
    BY <2>1, <2>3 DEF Ending, Restored
  <2> QED
    BY <1>0, <2>1, <2>5, <2>3, <2>4, PreviewDesk
<1>7. CASE RestoreBeforeTeardown
  <2>1. posted' = posted /\ pc \in {"fail", "exit"}
    BY <1>7 DEF RestoreBeforeTeardown
  <2>2. CASE IsActive /\ PlacementChanged /\ worker
    <3>1. /\ EnsureAndSubmit(Request(active, "Restore", active.originalRawRect)) /\ UNCHANGED <<active, preview>>
          /\ pc' = IF pc = "fail" THEN "failRestored" ELSE "exitRestored"
      BY <1>7, <2>2 DEF RestoreBeforeTeardown
    <3>2. (PlacementChanged' <=> PlacementChanged) /\ Ending'
      BY <3>1 DEF PlacementChanged, Ending, Restored
    <3>3. Request(active, "Restore", active.originalRawRect) # NoRequest
      BY <1>b, <2>2, RequestOfSession DEF PlacementKind
    <3> QED
      BY <1>0, <1>b, <2>1, <2>2, <3>1, <3>2, <3>3, CommitRect, PutBackDesk
  <2>3. CASE ~(IsActive /\ PlacementChanged /\ worker)
    <3>1. Complete /\ UNCHANGED <<pending, current, place>>
      BY <1>7, <2>3 DEF RestoreBeforeTeardown
    <3>2. ~PlacementChanged
      BY <2>3, NoPreviewFields DEF LoopInv, PlacementChanged
    <3> QED
      BY <1>0, <1>a, <2>1, <3>1, <3>2, NothingMoved, CompleteDesk
  <2> QED
    BY <2>2, <2>3
<1>8. CASE FinishTeardown
  <2>1. /\ Complete /\ UNCHANGED <<pending, current, place, posted>>
        /\ pending = NoRequest /\ current = NoRequest
    BY <1>8 DEF FinishTeardown, WorkerIdle
  <2>2. Ending /\ IsActive
    BY <1>8 DEF FinishTeardown, Ending, Restored, IInv, ActiveWhileDrawing
  <2>3. ~AtPreview(active.target)
    BY <2>1, <2>2 DEF Desk, EndingInv, PutsBack
  <2>4. ~Moving(pending) /\ ~Moving(current) /\ \A w \in Windows : ~AtPreview(w)
    BY <2>1, <2>3 DEF Moving, Desk, RectsInv
  <2> QED
    BY <1>0, <1>a, <2>1, <2>4, CompleteDesk
<1> QED
  BY <1>1, <1>2, <1>3, <1>4, <1>5, <1>6, <1>7, <1>8 DEF OverlayNext

LEMMA NextPlaceInv ==
  ASSUME IInv, LoopInv, IdInv, PlaceInv, [Next]_vars
  PROVE  PlaceInv'
<1> SUFFICES ASSUME ~previewGrab' PROVE Desk'
  BY DEF PlaceInv, Desk
<1>1. Desk
  BY GrabStays DEF PlaceInv, Desk
<1> QED
  BY <1>1, BeginDesk, LoopDesk, OutsideDesk

-------------------------------------------------------------------------------
LEMMA InitPInv == Init => PInv
<1> SUFFICES ASSUME Init PROVE PInv
  OBVIOUS
<1>1. /\ pc = "start" /\ active = NoSession /\ preview = NoPreview /\ stop = FALSE
      /\ op.step = "none" /\ commands = <<>> /\ Len(commands) = 0 /\ nextId = 1
      /\ pending = NoRequest /\ current = NoRequest /\ results = <<>> /\ Len(results) = 0
      /\ \A w \in Windows : place[w].kind = "start"
      /\ \A w \in Windows : posted[w] = <<>>
  BY DEF Init, MouseInit, WorkerInit, NoOp, StartRect
<1>2. ~IsActive /\ QueuedBegins = {} /\ Running = 0 /\ Held(NoRequest) = 0
  BY <1>1 DEF IsActive, QueuedBegins, Running, Held
<1>3. LoopInv
  BY <1>1, <1>2, NoPreviewFields DEF LoopInv, PlacementChanged
<1>4. QueueInv
  BY <1>1, <1>2, NoPreviewFields DEF QueueInv
<1>5. LoadInv
  <2>1. Load = 0
    BY <1>1, <1>2 DEF Load
  <2> QED
    BY <2>1 DEF LoadInv
<1>6. IdInv
  <2>1. UsedIds = {} /\ BeginIds = {}
    BY <1>1, <1>2 DEF UsedIds, BeginIds
  <2> QED
    BY <1>1, <2>1 DEF IdInv
<1>7. PlaceInv
  <2>1. RectsInv
    BY <1>1, <1>2 DEF RectsInv, BeginsInPlace, AtPreview
  <2> QED
    BY <1>1, <1>2, <2>1 DEF PlaceInv, RequestsInv, EndingInv, Moving
<1> QED
  BY <1>3, <1>4, <1>5, <1>6, <1>7 DEF PInv

\* PInv holds in every reachable state: with IInv it is inductive.
THEOREM PlacementInductive == Spec => []PInv
<1>1. IInv /\ PInv /\ [Next]_vars => PInv'
  <2> SUFFICES ASSUME IInv, PInv, [Next]_vars PROVE PInv'
    OBVIOUS
  <2>0. LoopInv /\ QueueInv /\ LoadInv /\ IdInv /\ PlaceInv
    BY DEF PInv
  <2>1. LoopInv'
    BY <2>0, OutsideLoopInv, InsideLoopInv
  <2>2. QueueInv'
    BY <2>0, NextQueueInv
  <2>3. LoadInv'
    BY <2>0, OutsideLoadInv, LoopLoadInv
  <2>4. IdInv'
    BY <2>0, NextIdInv
  <2>5. PlaceInv'
    BY <2>0, NextPlaceInv
  <2> QED
    BY <2>1, <2>2, <2>3, <2>4, <2>5 DEF PInv
<1> QED
  BY <1>1, InitPInv, Inductive, PTL DEF Spec

(***************************************************************************)
(* Whatever their capacity, no queue ever holds more than three commands   *)
(* or four results: with the 15 places the code gives them, Send never     *)
(* drops the command that ends an interaction and PublishPlacementResult   *)
(* never drops the result it waits for.                                    *)
(***************************************************************************)
THEOREM QueuesSafe == Spec => []QueuesStayShort
<1>1. IInv /\ PInv => QueuesStayShort
  <2> SUFFICES ASSUME IInv, PInv PROVE QueuesStayShort
    OBVIOUS
  <2>1. Len(commands) <= 3
    <3>1. CASE QueuedBegins = {}
      BY <3>1, QueueNumbers DEF PInv, QueueInv
    <3>2. CASE QueuedBegins # {}
      <4>1. PICK b \in QueuedBegins : b <= 2 /\ Len(commands) + Running <= b + 1
        BY <3>2 DEF PInv, QueueInv
      <4>2. b \in Nat
        BY QueueNumbers
      <4> QED
        BY <4>1, <4>2, QueueNumbers
    <3> QED
      BY <3>1, <3>2
  <2>2. Len(results) <= 4
    BY LoadNumbers DEF PInv, LoadInv, Load
  <2> QED
    BY <2>1, <2>2 DEF QueuesStayShort
<1> QED
  BY <1>1, Inductive, PlacementInductive, PTL

(***************************************************************************)
(* A window stands at a live or off-screen position only while an          *)
(* interaction that moves it is active: a commit, a cancel, a failed       *)
(* present or the end of the loop all put it back first.                   *)
(***************************************************************************)
THEOREM PreviewSafe == Spec => []PreviewIsTemporary
<1>1. PInv => PreviewIsTemporary
  BY DEF PInv, PlaceInv, RectsInv, PreviewIsTemporary
<1> QED
  BY <1>1, PlacementInductive, PTL

-------------------------------------------------------------------------------
\* An interaction that finishes is served.

Served == IsOutcome(pending) \/ IsOutcome(current) \/ ResultReported

LEMMA ServedIs ==
  FinishingIsServed <=> (IsActive /\ preview.finishing /\ pc \notin Restored => Served)
BY DEF FinishingIsServed, Served, IsOutcome, ResultReported, Restored

\* A step that moves neither the outcome nor the loop out of a teardown.
LEMMA SameServed ==
  ASSUME FinishingIsServed, UNCHANGED <<active, pending, current, results>>,
         preview'.finishing => preview.finishing, pc \in Restored => pc' \in Restored
  PROVE  FinishingIsServed'
<1>1. (IsActive' <=> IsActive) /\ (Served' <=> Served)
  BY DEF IsActive, Served, IsOutcome, Outcome, ResultReported
<1>2. FinishingIsServed' <=> (IsActive' /\ preview'.finishing /\ pc' \notin Restored => Served')
  BY DEF FinishingIsServed, Served, IsOutcome, ResultReported, Restored
<1> QED
  BY <1>1, <1>2, ServedIs

LEMMA WorkerServed ==
  ASSUME ResultCapacity >= 3, IInv, PInv, FinishingIsServed, WorkerNext, UNCHANGED <<pc, active, preview>>
  PROVE  FinishingIsServed'
<1> SUFFICES ASSUME IsActive, preview.finishing, pc \notin Restored PROVE Served'
  BY DEF FinishingIsServed, Served, IsOutcome, ResultReported, Restored, IsActive
<1>0. Served
  BY ServedIs
<1>1. CASE TakeRequest
  <2>1. current = NoRequest /\ current' = pending /\ results' = results
    BY <1>1 DEF TakeRequest
  <2> QED
    BY <1>0, <2>1 DEF Served, IsOutcome, Outcome, ResultReported
<1>2. CASE PlaceWindow
  BY <1>0, <1>2 DEF PlaceWindow, Served, IsOutcome, Outcome, ResultReported
<1>3. CASE PublishResult
  <2> DEFINE res == [id |-> current.id, kind |-> current.kind]
  <2>1. current # NoRequest /\ pending' = pending
    BY <1>3 DEF PublishResult
  <2>2. res \in PlacementResult /\ res.id = current.id /\ res.kind = current.kind
    BY <2>1 DEF IInv, TypeOK, WorkerTypeOK, PlacementRequest, PlacementResult
  <2>3. Len(results) < ResultCapacity
    <3>1. Load <= 3 /\ Held(current) = 1
      BY <2>1 DEF PInv, LoadInv, Held
    <3> QED
      BY <3>1, LoadNumbers, WorkerAssumption DEF Load, WorkerAssumption
  <2>4. results' = Append(results, res)
    BY <1>3, <2>3 DEF PublishResult
  <2> HIDE DEF res
  <2>5. /\ \A i \in DOMAIN results : i \in DOMAIN results' /\ results'[i] = results[i]
        /\ Len(results) + 1 \in DOMAIN results' /\ results'[Len(results) + 1] = res
    BY <2>2, <2>4, LoadNumbers
  <2>6. IsOutcome(current) \/ ResultReported => ResultReported'
    BY <2>2, <2>5 DEF IsOutcome, Outcome, ResultReported
  <2> QED
    BY <1>0, <2>1, <2>6 DEF Served, IsOutcome, Outcome
<1> QED
  BY <1>1, <1>2, <1>3 DEF WorkerNext

LEMMA LoopServed ==
  ASSUME IInv, PInv, FinishingIsServed, OverlayNext
  PROVE  FinishingIsServed'
<1>0. LoopInv /\ QueueInv
  BY DEF PInv
<1>1. CASE \/ StartLoop \/ WaitForWork \/ FallAsleep \/ NextFrame \/ LeaveLoop \/ ApplyStale \/ RefreshSettings
           \/ SettleIdle \/ ShowOverlay \/ ShowFails \/ HideOverlay \/ BreakLoop \/ BeginFrame
           \/ PlainFrame \/ RenderFails
  <2>1. UNCHANGED <<active, pending, current, results, preview>>
    BY <1>1 DEF StartLoop, WaitForWork, FallAsleep, NextFrame, LeaveLoop, ApplyStale, RefreshSettings,
                SettleIdle, ShowOverlay, ShowFails, HideOverlay, BreakLoop, BeginFrame, Settle,
                PlainFrame, Frame, RenderFails, overlayVars, workerVars
  <2>2. pc \notin Restored \/ pc' = pc
    BY <1>1 DEF StartLoop, WaitForWork, FallAsleep, NextFrame, LeaveLoop, ApplyStale, RefreshSettings,
                SettleIdle, ShowOverlay, ShowFails, HideOverlay, BreakLoop, BeginFrame, Settle,
                PlainFrame, Frame, RenderFails, PopCommand, overlayVars, Restored
  <2> QED
    BY <2>1, <2>2, SameServed
<1>2. CASE CaptureFrame \/ ParkFrame \/ LiveFrame
  <2>1. ~preview.finishing
    BY <1>0, <1>2 DEF CaptureFrame, ParkFrame, LiveFrame, LoopInv
  <2>2. preview'.finishing = preview.finishing
    BY <1>2 DEF CaptureFrame, ParkFrame, LiveFrame, Frame, IInv, TypeOK, PreviewState
  <2> QED
    BY <2>1, <2>2 DEF FinishingIsServed
<1>3. CASE DrainResult
  <2>1. CASE IsActive /\ Outcome(Head(results))
    BY <1>3, <2>1 DEF DrainResult, Outcome, ActiveId, Complete, IsActive, FinishingIsServed
  <2>2. CASE IsActive /\ ~Outcome(Head(results))
    <3>1. /\ UNCHANGED <<active, preview, pc, pending, current>>
          /\ results # <<>> /\ results' = Tail(results) /\ pc = "results"
      BY <1>3, <2>2 DEF DrainResult, Outcome, ActiveId
    <3>2. ResultReported => ResultReported'
      <4> SUFFICES ASSUME ResultReported PROVE ResultReported'
        OBVIOUS
      <4>1. PICK i \in DOMAIN results : Outcome(results[i])
        BY DEF ResultReported
      <4>2. i # 1
        BY <2>2, <3>1, <4>1, LoadNumbers
      <4>3. i - 1 \in DOMAIN results' /\ results'[i - 1] = results[i]
        BY <3>1, <4>1, <4>2, LoadNumbers
      <4> QED
        BY <3>1, <4>1, <4>3 DEF ResultReported, Outcome
    <3>3. Served => Served'
      BY <3>1, <3>2 DEF Served, IsOutcome, Outcome
    <3> QED
      BY <3>1, <3>3 DEF FinishingIsServed, Served, IsOutcome, ResultReported, Restored, IsActive
  <2>3. CASE ~IsActive
    BY <1>3, <2>3 DEF DrainResult, Complete, IsActive, FinishingIsServed
  <2> QED
    BY <2>1, <2>2, <2>3
<1>4. CASE ApplyBegin
  <2>1. ~preview.finishing
    BY <1>0, <1>4 DEF ApplyBegin, PopCommand, QueueInv
  <2>2. ~preview'.finishing
    BY <1>4, <2>1 DEF ApplyBegin, NoPreview
  <2> QED
    BY <2>2 DEF FinishingIsServed
<1>5. CASE ApplyCommitByWorker \/ (ApplyCancel /\ PlacementChanged /\ worker)
  <2>1. IsActive /\ active \in Session
    BY <1>5, HeadType, ActiveIdIsSession DEF ApplyCommitByWorker, ApplyCancel, PopCommand, IInv, TypeOK, IsActive
  <2>2. PICK kind \in {"Commit", "Restore"}, rect \in Rect : pending' = Request(active, kind, rect)
    <3>1. ComputedRect(active, "final") \in Rect /\ active.originalRawRect \in Rect
      BY <2>1, RectTypes DEF RectKind, Session
    <3>2. \/ pending' = Request(active, "Commit", ComputedRect(active, "final"))
          \/ pending' = Request(active, "Restore", active.originalRawRect)
      BY <1>5 DEF ApplyCommitByWorker, ApplyCancel, EnsureAndSubmit
    <3> QED
      BY <3>1, <3>2
  <2>3. pending' # NoRequest /\ pending'.id = active.id /\ pending'.kind = kind
    <3>1. Request(active, kind, rect) # NoRequest
      BY <2>1, RequestOfSession DEF PlacementKind
    <3> QED
      BY <2>2, <3>1 DEF Request
  <2>4. active' = active
    BY <1>5 DEF ApplyCommitByWorker, ApplyCancel
  <2> QED
    BY <2>3, <2>4 DEF FinishingIsServed, Outcome
<1>6. CASE ApplyCommitByPost \/ (ApplyCancel /\ ~(PlacementChanged /\ worker)) \/ FinishTeardown
  BY <1>6 DEF ApplyCommitByPost, ApplyCancel, FinishTeardown, Complete, FinishingIsServed, IsActive
<1>7. CASE RestoreBeforeTeardown
  BY <1>7 DEF RestoreBeforeTeardown, Complete, FinishingIsServed, IsActive
<1> QED
  BY <1>1, <1>2, <1>3, <1>4, <1>5, <1>6, <1>7 DEF OverlayNext

LEMMA NextServed ==
  ASSUME ResultCapacity >= 3, IInv, PInv, FinishingIsServed, [Next]_vars
  PROVE  FinishingIsServed'
<1>1. CASE OverlayNext
  BY <1>1, LoopServed
<1>2. CASE WorkerStep
  BY <1>2, WorkerServed DEF WorkerStep, overlayVars
<1>3. CASE DestroyWorker
  <2>1. ~IsActive'
    BY <1>3 DEF DestroyWorker, PInv, LoopInv, overlayVars, IsActive
  <2> QED
    BY <2>1 DEF FinishingIsServed
<1>4. CASE ~OverlayNext /\ ~WorkerStep /\ ~DestroyWorker
  <2>1. UNCHANGED <<pc, active, preview>>
    BY <1>4, OutsideLoop
  <2>2. UNCHANGED <<pending, current, results>>
    <3>1. CASE MouseNext
      BY <3>1 DEF MouseNext, SelectTarget, RejectTarget, MeasureTarget, RestoreMaximized, RestoreMaximizedFails,
                  ReserveInteraction, PushBegin, FinishOperation, CancelOperation, workerVars
    <3>2. CASE ~MouseNext
      BY <1>4, <3>2 DEF Next, PublishSettings, WindowMoves, Shutdown, vars, workerVars
    <3> QED
      BY <3>1, <3>2
  <2> QED
    BY <2>1, <2>2, SameServed
<1> QED
  BY <1>1, <1>2, <1>3, <1>4

(***************************************************************************)
(* An interaction that waits for its last placement has it requested,      *)
(* being carried out or reported.  Three places in m_placementResults are  *)
(* enough, the code has 15.                                                *)
(***************************************************************************)
THEOREM FinishingSafe ==
  ASSUME ResultCapacity >= 3
  PROVE  Spec => []FinishingIsServed
<1>1. Init => FinishingIsServed
  BY DEF Init, IsActive, FinishingIsServed
<1>2. IInv /\ PInv /\ FinishingIsServed /\ [Next]_vars => FinishingIsServed'
  BY NextServed
<1> QED
  BY <1>1, <1>2, Inductive, PlacementInductive, PTL DEF Spec

-------------------------------------------------------------------------------
(***************************************************************************)
(* The refinement of WindowGrab: who owns the reservation, the windows     *)
(* that are displaced, and the step of WindowGrab each step maps to.       *)
(***************************************************************************)
Displaced == IF previewGrab THEN {} ELSE {w \in Windows : AtPreview(w)}

GrabStep == [Grab!Next]_<<Owner, Displaced>>

LEMMA Chosen == \A S : S # {} => (CHOOSE i \in S : TRUE) \in S
OBVIOUS

LEMMA OwnerIs ==
  /\ pc = "done" => Owner = NoSession
  /\ pc # "done" /\ op.step = "reserved" => Owner = OpSession
  /\ pc # "done" /\ op.step # "reserved" /\ IsActive => Owner = active
  /\ pc # "done" /\ op.step # "reserved" /\ ~IsActive /\ QueuedBegins = {} => Owner = NoSession
  /\ \A b : pc # "done" /\ op.step # "reserved" /\ ~IsActive /\ QueuedBegins = {b} => Owner = commands[b].session
BY Chosen DEF Owner

LEMMA NextOwnerIs ==
  /\ pc' = "done" => Owner' = NoSession
  /\ pc' # "done" /\ op'.step = "reserved" => Owner' = OpSession'
  /\ pc' # "done" /\ op'.step # "reserved" /\ IsActive' => Owner' = active'
  /\ pc' # "done" /\ op'.step # "reserved" /\ ~IsActive' /\ QueuedBegins' = {} => Owner' = NoSession
  /\ \A b : pc' # "done" /\ op'.step # "reserved" /\ ~IsActive' /\ QueuedBegins' = {b} => Owner' = commands'[b].session
BY Chosen DEF Owner

LEMMA Stutters ==
  ASSUME Owner' = Owner, Displaced' = Displaced
  PROVE  GrabStep
BY DEF GrabStep

LEMMA Acquires ==
  ASSUME NEW s \in Session, Owner = NoSession, Owner' = s, Displaced' = Displaced
  PROVE  GrabStep
BY DEF GrabStep, Grab!Next, Grab!Acquire, Displaced

LEMMA Displaces ==
  ASSUME Owner # NoSession, Owner' = Owner, Displaced' = Displaced \cup {Owner.target}
  PROVE  GrabStep
BY DEF GrabStep, Grab!Next, Grab!Displace, Displaced

LEMMA PutsWindowsBack ==
  ASSUME NEW W \in SUBSET Windows, Owner' = Owner, Displaced' = Displaced \ W
  PROVE  GrabStep
<1>1. Grab!PutBack(W)
  BY DEF Grab!PutBack, Displaced
<1> QED
  BY <1>1 DEF GrabStep, Grab!Next

LEMMA Releases ==
  ASSUME Owner # NoSession, Owner.target \notin Displaced, Owner' = NoSession, Displaced' = Displaced
  PROVE  GrabStep
BY DEF GrabStep, Grab!Next, Grab!Release, Displaced

LEMMA SameOwner ==
  ASSUME active' = active, pc' = "done" <=> pc = "done",
         op'.step = "reserved" <=> op.step = "reserved", op.step = "reserved" => op' = op,
         QueuedBegins' = QueuedBegins, \A b \in QueuedBegins : commands'[b] = commands[b]
  PROVE  Owner' = Owner
<1>1. op.step = "reserved" => OpSession' = OpSession
  BY DEF OpSession
<1>2. QueuedBegins # {} => (CHOOSE i \in QueuedBegins : TRUE) \in QueuedBegins
  BY Chosen
<1> QED
  BY <1>1, <1>2 DEF Owner, IsActive

LEMMA SameDisplaced ==
  ASSUME UNCHANGED <<place, previewGrab>>
  PROVE  Displaced' = Displaced
BY DEF Displaced, AtPreview

LEMMA SameQueuedBegins ==
  ASSUME commands' = commands
  PROVE  QueuedBegins' = QueuedBegins /\ \A b \in QueuedBegins : commands'[b] = commands[b]
BY DEF QueuedBegins

\* The loop owns the reservation while it has a session.
LEMMA ActiveOwner ==
  ASSUME IInv, PInv, IsActive
  PROVE  pc # "done" /\ op.step # "reserved" /\ QueuedBegins = {} /\ Owner = active /\ Owner # NoSession
<1>1. pc # "done"
  BY DEF PInv, LoopInv
<1>2. op.step # "reserved" /\ QueuedBegins = {}
  BY <1>1 DEF IInv, ReservationOwned
<1> QED
  BY <1>1, <1>2, OwnerIs DEF IsActive

\* A window is displaced only by the active interaction.
LEMMA DisplacedByActive ==
  ASSUME PInv
  PROVE  \A w \in Displaced : IsActive /\ active.target = w /\ PlacementChanged
BY DEF PInv, PlaceInv, RectsInv, Displaced

\* The interaction completes, and its window is in its place.
LEMMA CompleteReleases ==
  ASSUME IInv, PInv, IsActive, Complete, active.target \notin Displaced, UNCHANGED <<op, commands, place, previewGrab>>
  PROVE  GrabStep
<1>1. ~IsActive' /\ op'.step # "reserved" /\ QueuedBegins' = {}
  BY ActiveOwner, SameQueuedBegins DEF Complete, IsActive
<1>2. Owner' = NoSession
  BY <1>1, NextOwnerIs
<1> QED
  BY <1>2, ActiveOwner, SameDisplaced, Releases

\* The same when the command that ends it is popped.
LEMMA CommandReleases ==
  ASSUME IInv, PInv, IsActive, PopCommand, Complete, active.target \notin Displaced, UNCHANGED <<op, place, previewGrab>>
  PROVE  GrabStep
<1>1. QueuedBegins' = {}
  BY ActiveOwner, PopShifts DEF PopCommand, IInv, TypeOK
<1>2. ~IsActive' /\ op'.step # "reserved"
  BY ActiveOwner DEF Complete, IsActive
<1>3. Owner' = NoSession
  BY <1>1, <1>2, NextOwnerIs
<1> QED
  BY <1>3, ActiveOwner, SameDisplaced, Releases

-------------------------------------------------------------------------------
LEMMA MouseRefines ==
  ASSUME IInv, PInv, MouseNext, UNCHANGED <<overlayVars, posted>>
  PROVE  GrabStep
<1>0. /\ UNCHANGED <<pc, active>> /\ pc # "done" /\ (IsActive' <=> IsActive)
      /\ MouseTypeOK /\ op \in Operation /\ place \in [Windows -> Rect]
  BY MouseBeforeStop DEF overlayVars, PInv, IsActive, IInv, TypeOK, WorkerTypeOK, MouseTypeOK
<1>1. CASE \/ \E w \in Windows, type \in SessionType : SelectTarget(w, type)
           \/ RejectTarget \/ MeasureTarget \/ RestoreMaximizedFails
  <2>1. op.step # "reserved" /\ op'.step # "reserved"
    <3>1. CASE \E w \in Windows, type \in SessionType : SelectTarget(w, type)
      <4>1. PICK w \in Windows, type \in SessionType : op' = [NoOp EXCEPT !.step = "selected", !.target = w, !.type = type]
        BY <3>1 DEF SelectTarget
      <4>2. op'.step = "selected"
        BY <4>1 DEF NoOp
      <4> QED
        BY <3>1, <4>2 DEF SelectTarget
    <3>2. CASE RejectTarget \/ RestoreMaximizedFails
      BY <3>2 DEF RejectTarget, RestoreMaximizedFails, NoOp
    <3>3. CASE MeasureTarget
      BY <1>0, <3>3 DEF MeasureTarget, Operation
    <3> QED
      BY <1>1, <3>1, <3>2, <3>3
  <2>2. UNCHANGED <<commands, place, previewGrab>>
    BY <1>1 DEF SelectTarget, RejectTarget, MeasureTarget, RestoreMaximizedFails, channelVars, workerVars
  <2> QED
    BY <1>0, <2>1, <2>2, SameQueuedBegins, SameOwner, SameDisplaced, Stutters
<1>2. CASE RestoreMaximized
  <2>1. /\ op.step = "measured" /\ op'.step = "measured" /\ op.target \in Windows /\ op.target \notin Immovable
        /\ place' = [place EXCEPT ![op.target] = AnchoredRect(op.id)]
        /\ UNCHANGED <<commands, previewGrab>>
    BY <1>0, <1>2 DEF RestoreMaximized, Operation, MouseTypeOK, channelVars
  <2>2. Owner' = Owner
    BY <1>0, <2>1, SameQueuedBegins, SameOwner
  <2>3. Displaced' = Displaced \ {op.target}
    <3>1. \A w \in Windows : place'[w] = IF w = op.target THEN AnchoredRect(op.id) ELSE place[w]
      BY <1>0, <2>1
    <3>2. \A w \in Windows : AtPreview(w)' <=> AtPreview(w) /\ w # op.target
      BY <3>1 DEF AtPreview, AnchoredRect
    <3> QED
      BY <2>1, <3>2 DEF Displaced
  <2> QED
    BY <2>1, <2>2, <2>3, PutsWindowsBack
<1>3. CASE ReserveInteraction
  <2>1. op.step = "measured" /\ UNCHANGED <<commands, place, previewGrab>>
    BY <1>3 DEF ReserveInteraction, workerVars
  <2>2. CASE reserved
    <3>1. op'.step # "reserved"
      BY <1>3, <2>2 DEF ReserveInteraction, NoOp
    <3> QED
      BY <1>0, <2>1, <3>1, SameQueuedBegins, SameOwner, SameDisplaced, Stutters
  <2>3. CASE ~reserved
    <3>1. op' = [op EXCEPT !.step = "reserved"]
      BY <1>3, <2>3 DEF ReserveInteraction
    <3>2. op'.step = "reserved" /\ OpSession' = OpSession
      BY <1>0, <3>1 DEF OpSession, Operation
    <3>3. ~IsActive /\ QueuedBegins = {}
      BY <1>0, <2>3 DEF IInv, ReservationOwned
    <3>4. Owner = NoSession /\ Owner' = OpSession
      BY <1>0, <2>1, <3>2, <3>3, OwnerIs, NextOwnerIs
    <3>5. OpSession \in Session
      BY <1>0, <2>1 DEF MouseTypeOK, OpSession, Session, Operation
    <3> QED
      BY <2>1, <3>4, <3>5, SameDisplaced, Acquires
  <2> QED
    BY <2>2, <2>3
<1>4. CASE PushBegin
  <2>1. op.step = "reserved" /\ UNCHANGED place
    BY <1>4 DEF PushBegin, workerVars
  <2>2. OpSession \in Session
    BY <1>0, <2>1, OpSessionType
  <2>3. ~IsActive /\ QueuedBegins = {}
    BY <1>0, <2>1 DEF IInv, ReservationOwned
  <2>4. Owner = OpSession /\ Owner # NoSession
    BY <1>0, <2>1, <2>2, OwnerIs, NullsDiffer
  <2>5. CASE Len(commands) < CommandCapacity
    <3>1. /\ commands' = Append(commands, BeginCmd(OpSession))
          /\ op' = [op EXCEPT !.step = "running"]
          /\ previewGrab => previewGrab'
      BY <1>4, <2>5 DEF PushBegin
    <3>2. op'.step = "running"
      BY <1>0, <3>1 DEF Operation
    <3>3. QueuedBegins' = {Len(commands) + 1}
      BY <1>0, <2>2, <2>3, <3>1, AppendBegin
    <3>4. commands'[Len(commands) + 1].session = OpSession
      <4>1. BeginCmd(OpSession) \in Command /\ BeginCmd(OpSession).session = OpSession
        BY <2>2, CommandTypes DEF BeginCmd
      <4> HIDE DEF BeginCmd
      <4> QED
        BY <1>0, <3>1, <4>1 DEF MouseTypeOK
    <3>5. Owner' = OpSession
      BY <1>0, <2>3, <3>2, <3>3, <3>4, NextOwnerIs
    <3>6. Displaced' = Displaced \/ Displaced' = Displaced \ Windows
      BY <2>1, <3>1 DEF Displaced, AtPreview
    <3>7. Owner' = Owner
      BY <2>4, <3>5
    <3>8. Windows \in SUBSET Windows
      OBVIOUS
    <3> QED
      BY <3>6, <3>7, <3>8, Stutters, PutsWindowsBack
  <2>6. CASE ~(Len(commands) < CommandCapacity)
    <3>1. op' = NoOp /\ UNCHANGED <<commands, previewGrab>>
      BY <1>4, <2>6 DEF PushBegin
    <3>2. Owner' = NoSession
      BY <1>0, <2>3, <3>1, SameQueuedBegins, NextOwnerIs DEF NoOp
    <3>3. Owner.target \notin Displaced
      BY <2>3, DisplacedByActive
    <3> QED
      BY <2>1, <2>4, <3>1, <3>2, <3>3, SameDisplaced, Releases
  <2> QED
    BY <2>5, <2>6
<1>5. CASE FinishOperation \/ CancelOperation
  <2>1. op.step = "running" /\ op' = NoOp /\ UNCHANGED <<place, previewGrab>>
    BY <1>5 DEF FinishOperation, CancelOperation, workerVars
  <2>2. PICK cmd \in {CommitCmd(op.id), CancelCmd(op.id)} : commands' = Append(commands, cmd) \/ commands' = commands
    BY <1>5 DEF FinishOperation, CancelOperation, Send
  <2>3. cmd \in Command /\ cmd.op # "begin"
    <3>1. op.id \in InteractionId
      BY <1>0, <2>1 DEF MouseTypeOK
    <3>2. CommitCmd(op.id) \in Command /\ CancelCmd(op.id) \in Command
      BY <3>1, CommandTypes
    <3>3. CommitCmd(op.id).op = "commit" /\ CancelCmd(op.id).op = "cancel"
      BY DEF CommitCmd, CancelCmd
    <3> QED
      BY <2>2, <3>2, <3>3
  <2>4. QueuedBegins' = QueuedBegins
    BY <1>0, <2>2, <2>3, AppendOther
  <2>5. \A b \in QueuedBegins : commands'[b] = commands[b]
    BY <1>0, <2>2, <2>3 DEF QueuedBegins, MouseTypeOK
  <2>6. op'.step # "reserved"
    BY <2>1 DEF NoOp
  <2> QED
    BY <1>0, <2>1, <2>4, <2>5, <2>6, SameOwner, SameDisplaced, Stutters
<1> QED
  BY <1>1, <1>2, <1>3, <1>4, <1>5 DEF MouseNext

LEMMA LoopRefines ==
  ASSUME IInv, PInv, OverlayNext
  PROVE  GrabStep
<1>0. UNCHANGED <<op, nextId, maximized, previewGrab, stop>>
  BY DEF OverlayNext, StartLoop, WaitForWork, FallAsleep, NextFrame, LeaveLoop, DrainResult,
         RefreshSettings, ApplyBegin, ApplyStale, ApplyCommitByPost, ApplyCommitByWorker,
         ApplyCancel, SettleIdle, ShowOverlay, ShowFails, HideOverlay, BreakLoop, BeginFrame,
         Settle, CaptureFrame, ParkFrame, LiveFrame, PlainFrame, Frame, RenderFails,
         RestoreBeforeTeardown, FinishTeardown, mouseVars
<1>1. LoopInv /\ \A r : EnsureAndSubmit(r) => place' = place
  <2>1. \A r : EnsureAndSubmit(r) => place' = place
    BY DEF EnsureAndSubmit
  <2> QED
    BY <2>1 DEF PInv
<1>2. CASE \/ StartLoop \/ WaitForWork \/ FallAsleep \/ NextFrame \/ LeaveLoop \/ RefreshSettings
           \/ SettleIdle \/ ShowOverlay \/ ShowFails \/ HideOverlay \/ BreakLoop \/ BeginFrame
           \/ CaptureFrame \/ ParkFrame \/ LiveFrame \/ PlainFrame \/ RenderFails
  <2>1. UNCHANGED <<active, commands, place>>
    BY <1>1, <1>2 DEF StartLoop, WaitForWork, FallAsleep, NextFrame, LeaveLoop, RefreshSettings,
                SettleIdle, ShowOverlay, ShowFails, HideOverlay, BreakLoop, BeginFrame, Settle,
                CaptureFrame, ParkFrame, LiveFrame, PlainFrame, Frame, RenderFails,
                overlayVars, workerVars, channelVars
  <2>2. pc' = "done" <=> pc = "done"
    BY <1>2 DEF StartLoop, WaitForWork, FallAsleep, NextFrame, LeaveLoop, RefreshSettings,
                SettleIdle, ShowOverlay, ShowFails, HideOverlay, BreakLoop, BeginFrame, Settle,
                CaptureFrame, ParkFrame, LiveFrame, PlainFrame, Frame, RenderFails, overlayVars
  <2> QED
    BY <1>0, <2>1, <2>2, SameQueuedBegins, SameOwner, SameDisplaced, Stutters
<1>3. CASE DrainResult
  <2>1. UNCHANGED <<commands, place, pc>> /\ pc = "results" /\ results # <<>>
    BY <1>3 DEF DrainResult
  <2>2. CASE IsActive /\ Outcome(Head(results))
    <3>1. Complete
      BY <1>3, <2>2 DEF DrainResult, Outcome, ActiveId
    <3>2. ResultReported
      <4>1. 1 \in DOMAIN results /\ Head(results) = results[1]
        BY <2>1, LoadNumbers
      <4> QED
        BY <2>2, <4>1 DEF ResultReported
    <3>3. active.target \notin Displaced
      BY <2>2, <3>2 DEF PInv, PlaceInv, EndingInv, Displaced
    <3> QED
      BY <1>0, <2>1, <2>2, <3>1, <3>3, CompleteReleases
  <2>3. CASE IsActive /\ ~Outcome(Head(results))
    <3>1. active' = active
      BY <1>3, <2>3 DEF DrainResult, Outcome, ActiveId
    <3> QED
      BY <1>0, <2>1, <3>1, SameQueuedBegins, SameOwner, SameDisplaced, Stutters
  <2>4. CASE ~IsActive
    <3>1. active' = active
      BY <1>3, <2>4 DEF DrainResult, Complete, IsActive
    <3> QED
      BY <1>0, <2>1, <3>1, SameQueuedBegins, SameOwner, SameDisplaced, Stutters
  <2> QED
    BY <2>2, <2>3, <2>4
<1>4. CASE ApplyBegin
  <2>1. /\ ~IsActive /\ IsActive' /\ QueuedBegins = {1}
        /\ active' = commands[1].session
        /\ UNCHANGED <<pc, place>>
    BY <1>4, BeginApplied
  <2>2. pc # "done"
    BY <1>4 DEF ApplyBegin, PopCommand
  <2>3. op.step # "reserved"
    BY <2>1, <2>2 DEF IInv, ReservationOwned
  <2>4. Owner = commands[1].session /\ Owner' = active'
    BY <1>0, <2>1, <2>2, <2>3, OwnerIs, NextOwnerIs
  <2> QED
    BY <1>0, <2>1, <2>4, SameDisplaced, Stutters
<1>5. CASE ApplyStale
  <2>1. /\ pc # "done" /\ commands # <<>> /\ commands' = Tail(commands) /\ Head(commands).op # "begin"
        /\ UNCHANGED <<active, pc, place>>
    BY <1>5 DEF ApplyStale, PopCommand, overlayVars, workerVars
  <2>2. Owner' = Owner
    <3>1. CASE op.step = "reserved" \/ IsActive
      BY <1>0, <2>1, <3>1, OwnerIs, NextOwnerIs DEF IsActive, OpSession
    <3>2. CASE op.step # "reserved" /\ ~IsActive /\ QueuedBegins = {}
      <4>1. QueuedBegins' = {}
        BY <2>1, <3>2, PopShifts DEF IInv, TypeOK
      <4> QED
        BY <1>0, <2>1, <3>2, <4>1, OwnerIs, NextOwnerIs DEF IsActive
    <3>3. CASE op.step # "reserved" /\ ~IsActive /\ QueuedBegins # {}
      <4>1. PICK b \in QueuedBegins : QueuedBegins = {b}
        BY <2>1, <3>3 DEF IInv, ReservationOwned
      <4>2. b # 1 /\ b \in Nat
        BY <2>1, PopShifts DEF IInv, TypeOK
      <4>3. b - 1 \in QueuedBegins'
        BY <2>1, <4>2, PopShifts DEF IInv, TypeOK
      <4>4. \A c \in QueuedBegins' : c = b - 1
        <5>1. SUFFICES ASSUME NEW c \in QueuedBegins' PROVE c = b - 1
          OBVIOUS
        <5>2. c + 1 = b
          BY <2>1, <4>1, PopShifts DEF IInv, TypeOK
        <5>3. c \in Nat
          BY <2>1 DEF QueuedBegins, IInv, TypeOK, MouseTypeOK
        <5> QED
          BY <4>2, <5>2, <5>3
      <4>5. commands'[b - 1] = commands[b]
        <5>1. commands'[b - 1] = commands[(b - 1) + 1]
          BY <2>1, <4>3, PopSessions DEF IInv, TypeOK
        <5> QED
          BY <4>2, <5>1
      <4>6. QueuedBegins' = {b - 1}
        BY <4>3, <4>4
      <4> QED
        BY <1>0, <2>1, <3>3, <4>1, <4>5, <4>6, OwnerIs, NextOwnerIs DEF IsActive
    <3> QED
      BY <3>1, <3>2, <3>3
  <2> QED
    BY <1>0, <2>1, <2>2, SameDisplaced, Stutters
<1>6. CASE ApplyCommitByPost \/ ApplyCommitByWorker \/ ApplyCancel
  <2>1. PopCommand /\ IsActive /\ pc' = pc
    BY <1>6, HeadType, ActiveIdIsSession
       DEF ApplyCommitByPost, ApplyCommitByWorker, ApplyCancel, PopCommand, IInv, TypeOK
  <2>2. CASE ApplyCommitByWorker \/ (ApplyCancel /\ PlacementChanged /\ worker)
    <3>1. UNCHANGED <<active, place>>
      BY <1>1, <2>2 DEF ApplyCommitByWorker, ApplyCancel
    <3>2. Owner' = Owner
      BY <1>0, <2>1, <3>1, ActiveOwner, NextOwnerIs DEF IsActive
    <3> QED
      BY <1>0, <3>1, <3>2, SameDisplaced, Stutters
  <2>3. CASE ApplyCommitByPost \/ (ApplyCancel /\ ~(PlacementChanged /\ worker))
    <3>1. Complete /\ UNCHANGED place
      BY <2>3 DEF ApplyCommitByPost, ApplyCancel, workerVars
    <3>2. ~PlacementChanged
      BY <1>1, <2>3 DEF ApplyCommitByPost, LoopInv
    <3> QED
      BY <1>0, <2>1, <3>1, <3>2, DisplacedByActive, CommandReleases
  <2> QED
    BY <1>6, <2>2, <2>3
<1>7. CASE RestoreBeforeTeardown
  <2>1. commands' = commands /\ place' = place /\ pc \in {"fail", "exit"}
    BY <1>1, <1>7 DEF RestoreBeforeTeardown
  <2>2. CASE IsActive /\ PlacementChanged /\ worker
    <3>1. active' = active /\ pc' # "done"
      BY <1>7, <2>2 DEF RestoreBeforeTeardown
    <3> QED
      BY <1>0, <2>1, <3>1, SameQueuedBegins, SameOwner, SameDisplaced, Stutters
  <2>3. CASE IsActive /\ ~(PlacementChanged /\ worker)
    <3>1. Complete
      BY <1>7, <2>3 DEF RestoreBeforeTeardown
    <3>2. ~PlacementChanged
      BY <1>1, <2>3 DEF LoopInv
    <3> QED
      BY <1>0, <2>1, <2>3, <3>1, <3>2, DisplacedByActive, CompleteReleases
  <2>4. CASE ~IsActive
    <3>1. pc = "exit" /\ pc' = "done"
      BY <1>7, <2>1, <2>4 DEF RestoreBeforeTeardown, IInv, ActiveWhileDrawing
    <3>2. Owner' = NoSession
      BY <3>1, NextOwnerIs
    <3>3. \A w : w \notin Displaced
      BY <2>4, DisplacedByActive
    <3> QED
      BY <1>0, <2>1, <3>2, <3>3, SameDisplaced, Stutters, Releases
  <2> QED
    BY <2>2, <2>3, <2>4
<1>8. CASE FinishTeardown
  <2>1. IsActive /\ Ending /\ pending = NoRequest /\ current = NoRequest
    BY <1>8 DEF FinishTeardown, WorkerIdle, Ending, Restored, IInv, ActiveWhileDrawing
  <2>2. active.target \notin Displaced
    BY <2>1 DEF PInv, PlaceInv, EndingInv, Displaced, PutsBack
  <2>3. Complete /\ UNCHANGED <<commands, place>>
    BY <1>8 DEF FinishTeardown
  <2> QED
    BY <1>0, <2>1, <2>2, <2>3, CompleteReleases
<1> QED
  BY <1>2, <1>3, <1>4, <1>5, <1>6, <1>7, <1>8 DEF OverlayNext

LEMMA WorkerRefines ==
  ASSUME IInv, PInv, WorkerNext, UNCHANGED <<mouseVars, commands, pc, active>>
  PROVE  GrabStep
<1>1. UNCHANGED <<op, previewGrab>> /\ Owner' = Owner
  BY SameQueuedBegins, SameOwner DEF mouseVars
<1>2. CASE TakeRequest \/ PublishResult
  BY <1>1, <1>2, SameDisplaced, Stutters DEF TakeRequest, PublishResult
<1>3. CASE PlaceWindow
  <2>1. current # NoRequest /\ current \in PlacementRequest /\ current.target \in Windows
    BY <1>3 DEF PlaceWindow, IInv, TypeOK, WorkerTypeOK, PlacementRequest
  <2>2. \A w \in Windows : place'[w] = IF w = current.target /\ w \notin Immovable THEN current.rect ELSE place[w]
    BY <1>3 DEF PlaceWindow, IInv, TypeOK, WorkerTypeOK
  <2>3. CASE previewGrab \/ current.target \in Immovable
    <3>1. Displaced' = Displaced
      BY <1>1, <2>2, <2>3 DEF Displaced, AtPreview
    <3> QED
      BY <1>1, <3>1, Stutters
  <2>4. CASE ~previewGrab /\ current.target \notin Immovable /\ ~Moving(current)
    <3>1. Displaced' = Displaced \ {current.target}
      <4>1. \A w \in Windows : AtPreview(w)' <=> AtPreview(w) /\ w # current.target
        BY <2>1, <2>2, <2>4 DEF AtPreview, Moving, IsPreview
      <4> QED
        BY <1>1, <2>4, <4>1 DEF Displaced
    <3> QED
      BY <1>1, <2>1, <3>1, PutsWindowsBack
  <2>5. CASE ~previewGrab /\ current.target \notin Immovable /\ Moving(current)
    <3>1. IsActive /\ current.target = active.target
      BY <2>5 DEF PInv, PlaceInv, RequestsInv
    <3>2. Owner = active /\ Owner # NoSession
      BY <3>1, ActiveOwner
    <3>3. Displaced' = Displaced \cup {current.target}
      <4>1. \A w \in Windows : AtPreview(w)' <=> AtPreview(w) \/ w = current.target
        BY <2>1, <2>2, <2>5 DEF AtPreview, Moving, IsPreview
      <4> QED
        BY <1>1, <2>1, <2>5, <4>1 DEF Displaced
    <3> QED
      BY <1>1, <3>1, <3>2, <3>3, Displaces
  <2> QED
    BY <2>3, <2>4, <2>5
<1> QED
  BY <1>2, <1>3 DEF WorkerNext

\* A move posted by a commit puts its window back, or a move that was itself measured there.
LEMMA PostedRefines ==
  ASSUME IInv, PInv, NEW w \in Windows, WindowMoves(w)
  PROVE  GrabStep
<1>1. UNCHANGED <<op, previewGrab>> /\ Owner' = Owner
  BY SameQueuedBegins, SameOwner DEF WindowMoves, mouseVars, channelVars, overlayVars
<1>2. \A x \in Windows : place'[x] = IF x = w THEN Head(posted[w]) ELSE place[x]
  BY DEF WindowMoves, IInv, TypeOK, WorkerTypeOK
<1>3. CASE previewGrab
  <2>1. Displaced' = Displaced
    BY <1>1, <1>3 DEF Displaced
  <2> QED
    BY <1>1, <2>1, Stutters
<1>4. CASE ~previewGrab
  <2>1. ~IsPreview(Head(posted[w]))
    <3>1. posted[w] # <<>> /\ posted[w] \in Seq(Rect)
      BY DEF WindowMoves, IInv, TypeOK
    <3>2. 1 \in DOMAIN posted[w] /\ Head(posted[w]) = posted[w][1]
      BY <3>1
    <3> QED
      BY <1>4, <3>2 DEF PInv, PlaceInv, RectsInv
  <2>2. \A x \in Windows : AtPreview(x)' <=> AtPreview(x) /\ x # w
    BY <1>2, <2>1 DEF AtPreview, IsPreview
  <2>3. Displaced' = Displaced \ {w}
    BY <1>1, <1>4, <2>2 DEF Displaced
  <2> QED
    BY <1>1, <2>3, PutsWindowsBack
<1> QED
  BY <1>3, <1>4

LEMMA NextRefines ==
  ASSUME IInv, PInv, [Next]_vars
  PROVE  GrabStep
<1>1. CASE MouseNext /\ UNCHANGED <<overlayVars, settingsVars, posted>>
  BY <1>1, MouseRefines
<1>2. CASE WorkerStep
  BY <1>2, WorkerRefines DEF WorkerStep, overlayVars
<1>3. CASE OverlayNext
  BY <1>3, LoopRefines
<1>4. CASE \E w \in Windows : WindowMoves(w)
  BY <1>4, PostedRefines
<1>5. CASE DestroyWorker \/ Shutdown \/ UNCHANGED vars \/ \E s \in SettingsValues : PublishSettings(s)
  <2>1. UNCHANGED <<op, previewGrab, commands, pc, active, place>>
    BY <1>5 DEF DestroyWorker, Shutdown, PublishSettings, vars, mouseVars, channelVars, workerVars, overlayVars
  <2> QED
    BY <2>1, SameQueuedBegins, SameOwner, SameDisplaced, Stutters
<1> QED
  BY <1>1, <1>2, <1>3, <1>4, <1>5 DEF Next

(***************************************************************************)
(* The mouse dispatch thread, the overlay thread and the placement worker  *)
(* implement WindowGrab: one interaction at a time holds the reservation,  *)
(* is handed from thread to thread without a gap, moves its own window     *)
(* only, and lets go of it when the window is no longer displaced.         *)
(***************************************************************************)
THEOREM Refines == Spec => ImplementsWindowGrab
<1>1. Init => Owner = NoSession /\ Displaced = {}
  <2> SUFFICES ASSUME Init PROVE Owner = NoSession /\ Displaced = {}
    OBVIOUS
  <2>1. /\ pc = "start" /\ op.step = "none" /\ active = NoSession /\ commands = <<>>
        /\ \A w \in Windows : place[w].kind = "start"
    BY DEF Init, MouseInit, WorkerInit, NoOp, StartRect
  <2>2. ~IsActive /\ QueuedBegins = {}
    BY <2>1 DEF IsActive, QueuedBegins
  <2>3. Owner = NoSession
    BY <2>1, <2>2, OwnerIs
  <2> QED
    BY <2>1, <2>3 DEF Displaced, AtPreview
<1>2. Init => Grab!Init
  BY <1>1 DEF Grab!Init, Displaced
<1>3. IInv /\ PInv /\ [Next]_vars => GrabStep
  BY NextRefines
<1> QED
  BY <1>2, <1>3, Inductive, PlacementInductive, PTL DEF Spec, ImplementsWindowGrab, Grab!Spec, GrabStep, Displaced
===============================================================================
