------------------------------ MODULE OverlayCmd ------------------------------
(***************************************************************************)
(* The data the mouse, the overlay service and the placement worker        *)
(* exchange (overlay/cmd.hpp, overlay/placement/worker.hpp).               *)
(*                                                                         *)
(* A raw rectangle is abstracted to where it puts the window and to the    *)
(* interaction that computed it; no property depends on pixel coordinates  *)
(* here (module WindowGeometry computes them).                             *)
(***************************************************************************)
EXTENDS Integers, Sequences

CONSTANTS
  Windows,          \* top-level windows the user can grab (HWND)
  NoWindow,         \* the null HWND
  NoSession,        \* std::monostate of OverlayActiveSession
  NoRequest,        \* an empty std::optional<PlacementRequest>
  MaxInteractions   \* bound: interactions started in one behaviour

ASSUME MaxInteractionsAssumption == MaxInteractions \in Nat \ {0}

InteractionId == 1..MaxInteractions

(***************************************************************************)
(* Where a window stands.  "start": where it was before any interaction;   *)
(* "anchored": restored from maximized under the cursor; "live": moved by  *)
(* a live preview; "parked": beyond the right edge of the virtual screen;  *)
(* "final": the rectangle of a commit.  `by` is the interaction that put   *)
(* it there, 0 for none.                                                   *)
(***************************************************************************)
RectKind == {"start", "anchored", "live", "parked", "final"}
Rect     == [kind : RectKind, by : 0..MaxInteractions]

StartRect    == [kind |-> "start", by |-> 0]
AnchoredRect(id) == [kind |-> "anchored", by |-> id]
LiveRect(id) == [kind |-> "live", by |-> id]
ParkedRect(id) == [kind |-> "parked", by |-> id]

OffScreen(r) == r.kind = "parked"

SessionType == {"Drag", "Resize"}
Session == [id : InteractionId, type : SessionType, target : Windows, originalRawRect : Rect]

(***************************************************************************)
(* ComputeDragBounds and ComputeResizeBounds displace the original         *)
(* rectangle by the cursor's movement: one that was measured off-screen    *)
(* stays off-screen.                                                       *)
(***************************************************************************)
ComputedRect(s, kind) ==
  IF OffScreen(s.originalRawRect) THEN s.originalRawRect ELSE [kind |-> kind, by |-> s.id]

\* OverlayCmd without the two shader commands, which OutlinePipeline models.
BeginCmd(s)   == [op |-> "begin", session |-> s]
CommitCmd(id) == [op |-> "commit", id |-> id]
CancelCmd(id) == [op |-> "cancel", id |-> id]

Command == [op : {"begin"}, session : Session] \cup [op : {"commit", "cancel"}, id : InteractionId]

PlacementKind    == {"Park", "Live", "Commit", "Restore"}
PlacementRequest == [id : InteractionId, kind : PlacementKind, target : Windows, rect : Rect]
PlacementResult  == [id : InteractionId, kind : PlacementKind]

Request(s, kind, rect) == [id |-> s.id, kind |-> kind, target |-> s.target, rect |-> rect]

ASSUME NullAssumption ==
  /\ NoWindow \notin Windows
  /\ NoSession \notin Session
  /\ NoRequest \notin PlacementRequest
===============================================================================
