---------------------------- MODULE MouseOperation ----------------------------
(***************************************************************************)
(* The mouse dispatch thread ("M-D") as the overlay sees it: it measures a *)
(* window, reserves the overlay and sends the commands of one interaction  *)
(* at a time (Mouse::BeginOperation, FinishOperation, CancelOperation and  *)
(* OverlayService::Send).  What makes it call them is module MouseHook.    *)
(***************************************************************************)
EXTENDS PlacementWorker

CONSTANTS
  CommandCapacity   \* capacity of m_commands: 15 (SpscQueue of size 16)

ASSUME CommandAssumption == CommandCapacity \in Nat \ {0}

VARIABLES
  op,         \* the operation in progress: m_target, m_sessionType, m_interactionId and locals
  nextId,     \* m_nextInteractionId
  maximized,  \* windows that are maximized
  commands,   \* m_commands
  reserved,   \* m_interactionReserved
  wait,       \* the overlay thread's side of m_cv; "missed" and "overslept": a notification is lost on it
  previewGrab, \* history: an accepted grab had measured its window at a preview position
  stop        \* the destructors have asked the threads to stop

mouseVars == <<op, nextId, maximized, previewGrab>>
channelVars == <<commands, reserved, wait>>

WaitState == {"awake", "checked", "missed", "asleep", "overslept"}

OpStep == {"none", "selected", "measured", "reserved", "running"}
Operation == [step : OpStep, target : Windows \cup {NoWindow}, type : SessionType,
              id : 0..MaxInteractions, rect : Rect]
NoOp == [step |-> "none", target |-> NoWindow, type |-> "Drag", id |-> 0, rect |-> StartRect]

OpSession == [id |-> op.id, type |-> op.type, target |-> op.target, originalRawRect |-> op.rect]

MouseInit ==
  /\ op = NoOp
  /\ nextId = 1
  /\ maximized \in SUBSET Windows
  /\ commands = <<>>
  /\ reserved = FALSE
  /\ wait = "awake"
  /\ previewGrab = FALSE
  /\ stop = FALSE

(***************************************************************************)
(* notify_one without the mutex: it wakes a thread that sleeps, and is     *)
(* lost on one that has evaluated its predicate and is about to sleep.     *)
(***************************************************************************)
NotifyOverlay == wait' = CASE wait \in {"asleep", "overslept"} -> "awake"
                            [] wait = "checked" -> "missed"
                            [] OTHER -> wait

\* OverlayService::Send of a command that begins no interaction.
Send(cmd) ==
  /\ IF Len(commands) < CommandCapacity
     THEN commands' = Append(commands, cmd) /\ NotifyOverlay
     ELSE UNCHANGED <<commands, wait>>
  /\ UNCHANGED reserved

-------------------------------------------------------------------------------
(***************************************************************************)
(* BeginOperation reads the desktop twice: SelectTarget asks which window  *)
(* is under the cursor, which lies on a visible one, and GetRawWindowRect  *)
(* measures it after IsWindowResponsive has waited for the window.         *)
(***************************************************************************)
SelectTarget(w, type) ==
  /\ ~stop
  /\ op.step = "none"
  /\ nextId <= MaxInteractions
  /\ ~OffScreen(place[w])
  /\ op' = [NoOp EXCEPT !.step = "selected", !.target = w, !.type = type]
  /\ UNCHANGED <<nextId, maximized, previewGrab, channelVars, workerVars, stop>>

\* Not responding, no rectangle, borderless fullscreen or not resizable.
RejectTarget ==
  /\ op.step = "selected"
  /\ op' = NoOp
  /\ UNCHANGED <<nextId, maximized, previewGrab, channelVars, workerVars, stop>>

MeasureTarget ==
  /\ op.step = "selected"
  /\ op' = [op EXCEPT !.step = "measured", !.id = nextId, !.rect = place[op.target]]
  /\ nextId' = nextId + 1
  /\ UNCHANGED <<maximized, previewGrab, channelVars, workerVars, stop>>

\* RestoreMaximizedForOperation: SW_RESTORE, re-anchor under the cursor, measure again.
RestoreMaximized ==
  /\ op.step = "measured"
  /\ op.target \in maximized \ Immovable
  /\ maximized' = maximized \ {op.target}
  /\ place' = [place EXCEPT ![op.target] = AnchoredRect(op.id)]
  /\ op' = [op EXCEPT !.rect = AnchoredRect(op.id)]
  /\ UNCHANGED <<nextId, previewGrab, channelVars, worker, pending, current, placed, results, stop>>

\* The window stopped responding, or was restored but could not be moved.
RestoreMaximizedFails ==
  /\ op.step = "measured"
  /\ op.target \in maximized
  /\ \E restored \in BOOLEAN : maximized' = maximized \ (IF restored THEN {op.target} ELSE {})
  /\ op' = NoOp
  /\ UNCHANGED <<nextId, previewGrab, channelVars, workerVars, stop>>

\* Mutant: a store instead of the compare-exchange.
ReserveWithoutCompare ==
  /\ op.step = "measured"
  /\ op.target \notin maximized
  /\ reserved' = TRUE
  /\ op' = [op EXCEPT !.step = "reserved"]
  /\ UNCHANGED <<nextId, maximized, previewGrab, commands, wait, workerVars, stop>>

\* Send of a Begin, first half: the compare-exchange on m_interactionReserved.
ReserveInteraction ==
  /\ op.step = "measured"
  /\ op.target \notin maximized
  /\ reserved' = TRUE
  /\ op' = IF reserved THEN NoOp ELSE [op EXCEPT !.step = "reserved"]
  /\ UNCHANGED <<nextId, maximized, previewGrab, commands, wait, workerVars, stop>>

\* Send of a Begin, second half: the push, undone if the queue is full.
PushBegin ==
  /\ op.step = "reserved"
  /\ IF Len(commands) < CommandCapacity
     THEN /\ commands' = Append(commands, BeginCmd(OpSession))
          /\ NotifyOverlay
          /\ op' = [op EXCEPT !.step = "running"]
          /\ previewGrab' = (previewGrab \/ op.rect.kind \in {"live", "parked"})
          /\ UNCHANGED reserved
     ELSE /\ reserved' = FALSE
          /\ op' = NoOp
          /\ UNCHANGED <<commands, wait, previewGrab>>
  /\ UNCHANGED <<nextId, maximized, workerVars, stop>>

\* Button up, or super released.
FinishOperation ==
  /\ op.step = "running"
  /\ ~stop
  /\ Send(CommitCmd(op.id))
  /\ op' = NoOp
  /\ UNCHANGED <<nextId, maximized, previewGrab, workerVars, stop>>

\* The button queue overflowed.
CancelOperation ==
  /\ op.step = "running"
  /\ ~stop
  /\ Send(CancelCmd(op.id))
  /\ op' = NoOp
  /\ UNCHANGED <<nextId, maximized, previewGrab, workerVars, stop>>

MouseNext ==
  \/ \E w \in Windows, type \in SessionType : SelectTarget(w, type)
  \/ RejectTarget
  \/ MeasureTarget
  \/ RestoreMaximized
  \/ RestoreMaximizedFails
  \/ ReserveInteraction
  \/ PushBegin
  \/ FinishOperation
  \/ CancelOperation

MouseTypeOK ==
  /\ op \in Operation
  /\ op.step # "none" => op.target \in Windows
  /\ op.step \in {"measured", "reserved", "running"} => op.id \in InteractionId
  /\ nextId \in 1..(MaxInteractions + 1)
  /\ op.step = "selected" => nextId <= MaxInteractions
  /\ maximized \in SUBSET Windows
  /\ commands \in Seq(Command)
  /\ reserved \in BOOLEAN
  /\ wait \in WaitState
  /\ previewGrab \in BOOLEAN
  /\ stop \in BOOLEAN
===============================================================================
