-------------------------- MODULE OverlayInteraction --------------------------
(***************************************************************************)
(* The overlay thread ("OVR", OverlayService::OverlayLoop) with the mouse  *)
(* dispatch thread that commands it and the placement worker it commands.  *)
(* One action is one step of the loop; queues are popped one item at a     *)
(* time because the other threads run in between.                          *)
(***************************************************************************)
EXTENDS MouseOperation

CONSTANTS
  SettingsValues,   \* the settings a configuration may publish
  MaxFailures       \* bound: failed presents in one behaviour

OverlayPreview == {"overlay", "live", "thumbnail"}

ASSUME OverlayAssumption ==
  /\ SettingsValues \subseteq [move_preview : OverlayPreview, resize_preview : OverlayPreview]
  /\ SettingsValues # {}
  /\ MaxFailures \in Nat

VARIABLES
  pc,            \* where OverlayLoop stands
  pass,          \* "idle": the pass that follows the wait; "active": the frame loop
  active,        \* the OverlayActiveSession
  preview,       \* the PreviewState
  settings,      \* the published settings
  settingsDirty, \* m_settingsDirty
  snapshot,      \* settingsSnapshot
  visible,       \* the overlay window is shown
  posted,        \* asynchronous moves posted to each window, oldest first
  failures       \* failed presents so far

overlayVars == <<pc, pass, active, preview, snapshot, visible, failures>>
settingsVars == <<settings, settingsDirty>>
vars == <<mouseVars, channelVars, workerVars, stop, overlayVars, settingsVars, posted>>

\* The capturePending, captureInProgress and parkPending flags exclude each other.
CaptureStage == {"none", "capturePending", "captureInProgress", "parkPending"}
PreviewState == [mode : OverlayPreview, stage : CaptureStage, parkSubmitted : BOOLEAN,
                 liveSubmitted : BOOLEAN, finishing : BOOLEAN]
NoPreview == [mode |-> "overlay", stage |-> "none", parkSubmitted |-> FALSE,
              liveSubmitted |-> FALSE, finishing |-> FALSE]

IsActive == active # NoSession
ActiveId == IF IsActive THEN active.id ELSE 0

ModeOf(s, type) == IF type = "Drag" THEN s.move_preview ELSE s.resize_preview

Init ==
  /\ MouseInit
  /\ WorkerInit
  /\ pc = "start"
  /\ pass = "idle"
  /\ active = NoSession
  /\ preview = NoPreview
  /\ settings \in SettingsValues
  /\ settingsDirty = FALSE
  /\ snapshot = settings
  /\ visible = FALSE
  /\ posted = [w \in Windows |-> <<>>]
  /\ failures = 0

\* Mutant: the reservation is not given back.
CompleteKeepsReservation ==
  /\ active' = NoSession
  /\ preview' = NoPreview
  /\ UNCHANGED reserved

\* CompleteInteraction
Complete ==
  /\ active' = NoSession
  /\ preview' = NoPreview
  /\ reserved' = FALSE

-------------------------------------------------------------------------------
\* The window and the renderer initialize, or the thread returns for good.
StartLoop ==
  /\ pc = "start"
  /\ pc' \in {"top", "dead"}
  /\ snapshot' = settings
  /\ UNCHANGED <<mouseVars, channelVars, workerVars, stop, pass, active, preview, visible,
                 failures, settingsVars, posted>>

WakePredicate == stop \/ commands # <<>> \/ results # <<>> \/ settingsDirty

\* m_cv.wait: the predicate holds, or the thread goes to sleep, a step of its own.
WaitForWork ==
  /\ pc = "top"
  /\ ~stop
  /\ ~IsActive
  /\ wait = "awake"
  /\ IF WakePredicate
     THEN pc' = "results" /\ pass' = "idle" /\ UNCHANGED wait
     ELSE wait' = "checked" /\ UNCHANGED <<pc, pass>>
  /\ UNCHANGED <<mouseVars, commands, reserved, workerVars, stop, active, preview, snapshot,
                 visible, failures, settingsVars, posted>>

FallAsleep ==
  /\ wait \in {"checked", "missed"}
  /\ wait' = IF wait = "checked" THEN "asleep" ELSE "overslept"
  /\ UNCHANGED <<mouseVars, commands, reserved, workerVars, stop, overlayVars, settingsVars, posted>>

NextFrame ==
  /\ pc = "top"
  /\ ~stop
  /\ IsActive
  /\ pc' = "results"
  /\ pass' = "active"
  /\ UNCHANGED <<mouseVars, channelVars, workerVars, stop, active, preview, snapshot, visible,
                 failures, settingsVars, posted>>

LeaveLoop ==
  /\ pc = "top"
  /\ wait = "awake"
  /\ stop
  /\ pc' = "exit"
  /\ UNCHANGED <<mouseVars, channelVars, workerVars, stop, pass, active, preview, snapshot,
                 visible, failures, settingsVars, posted>>

-------------------------------------------------------------------------------
\* Mutant: only a committed placement ends the interaction.
DrainResultOfCommit ==
  /\ pc = "results"
  /\ results # <<>>
  /\ results' = Tail(results)
  /\ IF Head(results).id = ActiveId /\ Head(results).kind = "Commit"
     THEN Complete
     ELSE UNCHANGED <<active, preview, reserved>>
  /\ UNCHANGED <<mouseVars, commands, wait, worker, pending, current, placed, place, stop,
                 pc, pass, snapshot, visible, failures, settingsVars, posted>>

\* DrainPlacementResults: a result of another interaction is ignored.
DrainResult ==
  /\ pc = "results"
  /\ results # <<>>
  /\ results' = Tail(results)
  /\ IF Head(results).id = ActiveId /\ Head(results).kind \in {"Commit", "Restore"}
     THEN Complete
     ELSE UNCHANGED <<active, preview, reserved>>
  /\ UNCHANGED <<mouseVars, commands, wait, worker, pending, current, placed, place, stop,
                 pc, pass, snapshot, visible, failures, settingsVars, posted>>

\* The results are drained; DrainCommands starts with the settings.
RefreshSettings ==
  /\ pc = "results"
  /\ results = <<>>
  /\ pc' = "commands"
  /\ snapshot' = IF settingsDirty THEN settings ELSE snapshot
  /\ settingsDirty' = FALSE
  /\ UNCHANGED <<mouseVars, channelVars, workerVars, stop, pass, active, preview, visible,
                 failures, settings, posted>>

PopCommand ==
  /\ pc = "commands"
  /\ commands # <<>>
  /\ commands' = Tail(commands)

\* BeginDrag and BeginResize; ignored while an interaction is active.
ApplyBegin ==
  /\ PopCommand
  /\ Head(commands).op = "begin"
  /\ IF IsActive
     THEN UNCHANGED <<active, preview, snapshot, worker>>
     ELSE LET s == Head(commands).session
              mode == ModeOf(settings, s.type)
          IN /\ snapshot' = settings
             /\ active' = s
             /\ preview' = [NoPreview EXCEPT
                  !.mode = mode,
                  !.stage = IF mode = "thumbnail" THEN "capturePending" ELSE "none"]
             /\ worker' = (worker \/ mode # "overlay")
  /\ UNCHANGED <<mouseVars, reserved, wait, pending, current, placed, results, place, stop,
                 pc, pass, visible, failures, settingsVars, posted>>

ApplyStale ==
  /\ PopCommand
  /\ Head(commands).op # "begin"
  /\ Head(commands).id # ActiveId
  /\ UNCHANGED <<mouseVars, reserved, wait, workerVars, stop, overlayVars, settingsVars, posted>>

\* CommitInteraction in overlay mode: an asynchronous move, and the interaction is over.
ApplyCommitByPost ==
  /\ PopCommand
  /\ Head(commands).op = "commit"
  /\ Head(commands).id = ActiveId
  /\ preview.mode = "overlay"
  /\ posted' = [posted EXCEPT ![active.target] =
                  IF active.target \in Immovable
                  THEN @ ELSE Append(@, ComputedRect(active, "final"))]
  /\ Complete
  /\ UNCHANGED <<mouseVars, wait, workerVars, stop, pc, pass, snapshot, visible, failures, settingsVars>>

\* CommitInteraction in the other modes: the worker moves the window and reports.
ApplyCommitByWorker ==
  /\ PopCommand
  /\ Head(commands).op = "commit"
  /\ Head(commands).id = ActiveId
  /\ preview.mode # "overlay"
  /\ EnsureAndSubmit(Request(active, "Commit", ComputedRect(active, "final")))
  /\ preview' = [preview EXCEPT !.stage = "none", !.finishing = TRUE]
  /\ UNCHANGED <<mouseVars, reserved, wait, stop, pc, pass, active, snapshot, visible, failures,
                 settingsVars, posted>>

PlacementChanged == preview.parkSubmitted \/ preview.liveSubmitted

\* CancelInteraction: put the window back if it was moved.
ApplyCancel ==
  /\ PopCommand
  /\ Head(commands).op = "cancel"
  /\ Head(commands).id = ActiveId
  /\ IF PlacementChanged /\ worker
     THEN /\ EnsureAndSubmit(Request(active, "Restore", active.originalRawRect))
          /\ preview' = [preview EXCEPT !.stage = "none", !.finishing = TRUE]
          /\ UNCHANGED <<active, reserved>>
     ELSE Complete /\ UNCHANGED workerVars
  /\ UNCHANGED <<mouseVars, wait, stop, pc, pass, snapshot, visible, failures, settingsVars, posted>>

WorkerUnused ==
  worker /\ ~IsActive /\ snapshot.move_preview = "overlay" /\ snapshot.resize_preview = "overlay"

(***************************************************************************)
(* The commands are drained: RetirePlacementWorkerIfUnused (which waits    *)
(* for the worker to be idle and joins it), then the branches that follow. *)
(***************************************************************************)
Settle(nextPc) ==
  /\ pc = "commands"
  /\ commands = <<>>
  /\ WorkerUnused => WorkerIdle
  /\ worker' = (worker /\ ~WorkerUnused)
  /\ pc' = nextPc
  /\ UNCHANGED <<mouseVars, channelVars, pending, current, placed, results, place, stop, active,
                 preview, snapshot, settingsVars, posted>>

SettleIdle ==
  /\ pass = "idle"
  /\ ~IsActive
  /\ Settle("top")
  /\ UNCHANGED <<pass, visible, failures>>

\* ClearForShow succeeded: show the window and go on to the frame.
ShowOverlay ==
  /\ pass = "idle"
  /\ IsActive
  /\ Settle("results")
  /\ pass' = "active"
  /\ visible' = TRUE
  /\ UNCHANGED failures

ShowFails ==
  /\ pass = "idle"
  /\ IsActive
  /\ failures < MaxFailures
  /\ Settle("fail")
  /\ failures' = failures + 1
  /\ UNCHANGED <<pass, visible>>

HideOverlay ==
  /\ pass = "active"
  /\ ~stop
  /\ ~IsActive
  /\ Settle("top")
  /\ visible' = FALSE
  /\ UNCHANGED <<pass, failures>>

BreakLoop ==
  /\ pass = "active"
  /\ stop
  /\ Settle("exit")
  /\ UNCHANGED <<pass, visible, failures>>

BeginFrame ==
  /\ pass = "active"
  /\ ~stop
  /\ IsActive
  /\ Settle("draw")
  /\ UNCHANGED <<pass, visible, failures>>

-------------------------------------------------------------------------------
\* A frame was presented; what the preview does next.
Frame(p) ==
  /\ pc = "draw"
  /\ pc' = "top"
  /\ preview' = p
  /\ UNCHANGED <<mouseVars, channelVars, stop, pass, active, snapshot, visible, failures,
                 settingsVars, posted>>

\* BeginSnapshotCapture and UpdateSnapshotCapture: Pending, Ready or Failed.
CaptureFrame ==
  /\ preview.stage \in {"capturePending", "captureInProgress"}
  /\ \E next \in {"captureInProgress", "parkPending", "none"} :
        Frame([preview EXCEPT !.stage = next])
  /\ UNCHANGED workerVars

ParkFrame ==
  /\ preview.stage = "parkPending"
  /\ Frame([preview EXCEPT !.stage = "none", !.parkSubmitted = TRUE])
  /\ EnsureAndSubmit(Request(active, "Park", ParkedRect(active.id)))

\* Mutant: the preview goes on while the interaction is finishing.
LiveFrameWhileFinishing ==
  /\ preview.stage = "none"
  /\ preview.mode = "live"
  /\ Frame([preview EXCEPT !.liveSubmitted = TRUE])
  /\ EnsureAndSubmit(Request(active, "Live", ComputedRect(active, "live")))

\* The rate limit allows it and the cursor has moved since the last placement.
LiveFrame ==
  /\ preview.stage = "none"
  /\ preview.mode = "live"
  /\ ~preview.finishing
  /\ Frame([preview EXCEPT !.liveSubmitted = TRUE])
  /\ EnsureAndSubmit(Request(active, "Live", ComputedRect(active, "live")))

PlainFrame ==
  /\ preview.stage = "none"
  /\ Frame(preview)
  /\ UNCHANGED workerVars

RenderFails ==
  /\ pc = "draw"
  /\ failures < MaxFailures
  /\ failures' = failures + 1
  /\ pc' = "fail"
  /\ UNCHANGED <<mouseVars, channelVars, workerVars, stop, pass, active, preview, snapshot,
                 visible, settingsVars, posted>>

-------------------------------------------------------------------------------
\* Mutant: the window is left where the preview put it.
TeardownWithoutRestore ==
  /\ pc \in {"fail", "exit"}
  /\ results' = <<>>
  /\ Complete
  /\ pc' = IF pc = "fail" THEN "top" ELSE "done"
  /\ visible' = (visible /\ pc = "fail")
  /\ UNCHANGED <<mouseVars, commands, wait, worker, pending, current, placed, place, stop, pass,
                 snapshot, failures, settingsVars, posted>>

(***************************************************************************)
(* RestoreBeforeTeardown and CompleteInteraction, after a failed present   *)
(* ("fail") and after the loop ("exit").  The first half submits a Restore *)
(* if the window was moved; the second waits for it, drops the results and *)
(* completes.                                                              *)
(***************************************************************************)
RestoreBeforeTeardown ==
  /\ pc \in {"fail", "exit"}
  /\ IF IsActive /\ PlacementChanged /\ worker
     THEN /\ EnsureAndSubmit(Request(active, "Restore", active.originalRawRect))
          /\ pc' = IF pc = "fail" THEN "failRestored" ELSE "exitRestored"
          /\ UNCHANGED <<active, preview, reserved, visible>>
     ELSE /\ results' = <<>>
          /\ Complete
          /\ pc' = IF pc = "fail" THEN "top" ELSE "done"
          /\ visible' = (visible /\ pc = "fail")
          /\ UNCHANGED <<worker, pending, current, placed, place>>
  /\ UNCHANGED <<mouseVars, commands, wait, stop, pass, snapshot, failures, settingsVars, posted>>

\* Mutant: WaitIdle is not called.
FinishTeardownWithoutWait ==
  /\ pc \in {"failRestored", "exitRestored"}
  /\ results' = <<>>
  /\ Complete
  /\ pc' = IF pc = "failRestored" THEN "top" ELSE "done"
  /\ visible' = (visible /\ pc = "failRestored")
  /\ UNCHANGED <<mouseVars, commands, wait, worker, pending, current, placed, place, stop, pass,
                 snapshot, failures, settingsVars, posted>>

FinishTeardown ==
  /\ pc \in {"failRestored", "exitRestored"}
  /\ WorkerIdle
  /\ results' = <<>>
  /\ Complete
  /\ pc' = IF pc = "failRestored" THEN "top" ELSE "done"
  /\ visible' = (visible /\ pc = "failRestored")
  /\ UNCHANGED <<mouseVars, commands, wait, worker, pending, current, placed, place, stop, pass,
                 snapshot, failures, settingsVars, posted>>

\* The service's members are destroyed: the worker ends, a request not taken is lost.
DestroyWorker ==
  /\ pc \in {"done", "dead"}
  /\ stop
  /\ worker
  /\ current = NoRequest
  /\ worker' = FALSE
  /\ pending' = NoRequest
  /\ UNCHANGED <<mouseVars, channelVars, current, placed, results, place, stop, overlayVars,
                 settingsVars, posted>>

-------------------------------------------------------------------------------
\* lua::Runtime::PublishSettings and NotifySettingsChanged.
PublishSettings(s) ==
  /\ ~stop
  /\ s # settings
  /\ settings' = s
  /\ settingsDirty' = TRUE
  /\ NotifyOverlay
  /\ UNCHANGED <<mouseVars, commands, reserved, workerVars, stop, overlayVars, posted>>

\* The window's own thread carries out the oldest move posted to it.
WindowMoves(w) ==
  /\ posted[w] # <<>>
  /\ place' = [place EXCEPT ![w] = Head(posted[w])]
  /\ posted' = [posted EXCEPT ![w] = Tail(@)]
  /\ UNCHANGED <<mouseVars, channelVars, worker, pending, current, placed, results, stop,
                 overlayVars, settingsVars>>

\* Mutant: the loop is not notified.
ShutdownInSilence ==
  /\ ~stop
  /\ op.step \in {"none", "running"}
  /\ stop' = TRUE
  /\ UNCHANGED <<mouseVars, channelVars, workerVars, overlayVars, settingsVars, posted>>

\* ~Mouse has joined its threads; ~OverlayService asks the loop to stop.
Shutdown ==
  /\ ~stop
  /\ op.step \in {"none", "running"}
  /\ stop' = TRUE
  /\ NotifyOverlay
  /\ UNCHANGED <<mouseVars, commands, reserved, workerVars, overlayVars, settingsVars, posted>>

OverlayNext ==
  \/ StartLoop \/ WaitForWork \/ FallAsleep \/ NextFrame \/ LeaveLoop
  \/ DrainResult \/ RefreshSettings
  \/ ApplyBegin \/ ApplyStale \/ ApplyCommitByPost \/ ApplyCommitByWorker \/ ApplyCancel
  \/ SettleIdle \/ ShowOverlay \/ ShowFails \/ HideOverlay \/ BreakLoop \/ BeginFrame
  \/ CaptureFrame \/ ParkFrame \/ LiveFrame \/ PlainFrame \/ RenderFails
  \/ RestoreBeforeTeardown \/ FinishTeardown

\* PublishPlacementResult wakes the loop once the result is queued.
WorkerStep ==
  /\ WorkerNext
  /\ IF results' # results THEN NotifyOverlay ELSE UNCHANGED wait
  /\ UNCHANGED <<mouseVars, commands, reserved, stop, overlayVars, settingsVars, posted>>

Next ==
  \/ MouseNext /\ UNCHANGED <<overlayVars, settingsVars, posted>>
  \/ WorkerStep
  \/ OverlayNext
  \/ DestroyWorker
  \/ \E s \in SettingsValues : PublishSettings(s)
  \/ \E w \in Windows : WindowMoves(w)
  \/ Shutdown

Spec == Init /\ [][Next]_vars

(***************************************************************************)
(* The loop, the worker and the mouse dispatch thread are scheduled, the   *)
(* target window answers, and the user eventually lets the button go.      *)
(***************************************************************************)
MouseProgress ==
  /\ RejectTarget \/ MeasureTarget \/ RestoreMaximized \/ RestoreMaximizedFails
     \/ ReserveInteraction \/ PushBegin \/ FinishOperation
  /\ UNCHANGED <<overlayVars, settingsVars, posted>>

Fairness == WF_vars(OverlayNext) /\ WF_vars(WorkerStep) /\ WF_vars(MouseProgress)

FairSpec == Spec /\ Fairness

-------------------------------------------------------------------------------
TypeOK ==
  /\ WorkerTypeOK
  /\ MouseTypeOK
  /\ pc \in {"start", "dead", "top", "results", "commands", "draw", "fail", "failRestored",
             "exit", "exitRestored", "done"}
  /\ pass \in {"idle", "active"}
  /\ active \in Session \cup {NoSession}
  /\ preview \in PreviewState
  /\ settings \in SettingsValues
  /\ settingsDirty \in BOOLEAN
  /\ snapshot \in SettingsValues
  /\ visible \in BOOLEAN
  /\ posted \in [Windows -> Seq(Rect)]
  /\ failures \in 0..MaxFailures

(***************************************************************************)
(* Exactly one party owns the reservation while it is taken: the mouse     *)
(* between compare-exchange and push, a Begin in the queue, or the active  *)
(* session.  So the loop never meets a Begin while it is active            *)
(* ("begin ignored"), and the reservation is never lost or freed early.    *)
(***************************************************************************)
QueuedBegins == {i \in DOMAIN commands : commands[i].op = "begin"}

ReservationOwned ==
  pc # "done" =>
    /\ reserved <=> (op.step = "reserved" \/ IsActive \/ QueuedBegins # {})
    /\ ~(op.step = "reserved" /\ IsActive)
    /\ QueuedBegins # {} => ~IsActive /\ op.step # "reserved"
    /\ \A i, j \in QueuedBegins : i = j

\* A frame is drawn, or given up, for an active session only: with TypeOK it makes
\* ReservationOwned inductive.
ActiveWhileDrawing == pc \in {"draw", "fail", "failRestored", "exitRestored"} => IsActive

IInv == TypeOK /\ ActiveWhileDrawing /\ ReservationOwned

(***************************************************************************)
(* The queues of 16 slots never fill: a commit is never dropped ("commit   *)
(* queue failed") and neither is the result an interaction waits for.      *)
(***************************************************************************)
QueuesStayShort == Len(commands) <= 3 /\ Len(results) <= 4

(***************************************************************************)
(* An interaction that waits for its last placement always has it under    *)
(* way: requested, being carried out, or reported.  Live and Park never    *)
(* overwrite it in the worker's single slot.                               *)
(***************************************************************************)
Outcome(r) == r.id = active.id /\ r.kind \in {"Commit", "Restore"}

FinishingIsServed ==
  (IsActive /\ preview.finishing /\ pc \notin {"exitRestored", "failRestored"}) =>
    \/ pending # NoRequest /\ Outcome(pending)
    \/ current # NoRequest /\ Outcome(current)
    \/ \E i \in DOMAIN results : Outcome(results[i])

(***************************************************************************)
(* A window stands at a preview position (live or off-screen) only while   *)
(* an interaction that moves it is active, unless a grab was accepted that *)
(* had measured its window at such a position.                             *)
(***************************************************************************)
AtPreview(w) == place[w].kind \in {"live", "parked"}

PreviewIsTemporary ==
  \A w \in Windows : AtPreview(w) /\ ~previewGrab => IsActive /\ active.target = w /\ PlacementChanged

\* The abstract holder: whoever owns the reservation.
Owner ==
  IF pc = "done" THEN NoSession
  ELSE IF op.step = "reserved" THEN OpSession
  ELSE IF IsActive THEN active
  ELSE IF QueuedBegins # {} THEN commands[CHOOSE i \in QueuedBegins : TRUE].session
  ELSE NoSession

(***************************************************************************)
(* The threads implement WindowGrab: an interaction passes from the mouse  *)
(* through the queue to the loop without a moment in which nobody or two   *)
(* hold it, and ends only with its window put back or committed.           *)
(***************************************************************************)
Grab == INSTANCE WindowGrab WITH
  Holders <- Session, NoHolder <- NoSession, TargetOf <- LAMBDA s : s.target,
  holder <- Owner,
  displaced <- IF previewGrab THEN {} ELSE {w \in Windows : AtPreview(w)}

ImplementsWindowGrab == Grab!Spec

(***************************************************************************)
(* Every interaction that was accepted ends, whatever is presented in      *)
(* vain, refused by its window or answered late on the way, and the        *)
(* overlay can then be reserved again.  The one exception is in the code:  *)
(* the loop sleeps for good because a notification came between its        *)
(* predicate and its sleep, and nothing notifies it again.                 *)
(***************************************************************************)
InteractionEnds ==
  (reserved /\ pc \notin {"start", "dead"}) ~> (~reserved \/ [](wait = "overslept"))

\* ~OverlayService returns: the thread it joins leaves its loop, unless the same
\* happens to it.
ShutdownCompletes == stop ~> (pc \in {"done", "dead"} \/ [](wait = "overslept"))
===============================================================================
