----------------------------- MODULE WindowGeometry -----------------------------
(***************************************************************************)
(* Where a window goes: the rectangles of a drag or a resize, from the     *)
(* measurement of the window when it is grabbed, over the positions of the *)
(* cursor, to its last placement; and the moves that a configuration asks  *)
(* for.  A window has two rectangles: the raw one that Windows works with, *)
(* and the visual one, without the invisible borders, that the user sees.  *)
(***************************************************************************)
EXTENDS Integers

CONSTANTS
  Screen,     \* coordinates of the cursor, on either axis
  Places,     \* raw rectangles of the window before it is maximized
  Corners,    \* values of the setting resize_corner
  MinSizes,   \* sizes a window may report in WM_GETMINMAXINFO, 0 for none
  MaxSizes,
  DefaultMin  \* the minimum if it reports none: 100 by 38 pixels in the code

Axis  == {"x", "y"}
Point == [Axis -> Screen]
Span  == [lo : Int, hi : Int]

\* A place has an area: a window that the user sees and can maximize does.
ASSUME GeometryAssumption ==
  /\ Screen \subseteq Int
  /\ Places # {}
  /\ \A place \in Places : place = [a \in Axis |-> place[a]]
                             /\ \A a \in Axis : place[a] \in Span /\ place[a].lo < place[a].hi
  /\ Corners \subseteq {"Closest", "TopLeft", "TopRight", "BottomLeft", "BottomRight"}
  /\ MinSizes \cup MaxSizes \subseteq Nat
  /\ DefaultMin \in Nat \ {0}

VARIABLES
  raw,        \* the raw rectangle of the window
  maximized,  \* IsZoomed
  normal,     \* the rectangle that SW_RESTORE gives it
  cursor,
  session     \* the DragSession or ResizeSession, or NoSession

geometryVars == <<raw, maximized, normal, cursor, session>>

NoSession == [type |-> "none"]
Size(span) == span.hi - span.lo
Shift(span, d) == [lo |-> span.lo + d, hi |-> span.hi + d]
In(c, span) == span.lo <= c /\ c < span.hi
Inside(point, rect) == \A a \in Axis : In(point[a], rect[a])

\* A maximized window fills the screen; only a window that is not has borders.
Maximized == [a \in Axis |-> [lo |-> 0, hi |-> 8]]
Frame(isMaximized) == IF isMaximized THEN [lo |-> 0, hi |-> 0] ELSE [lo |-> 1, hi |-> -1]

ApplyVisualOffset(rect, offset) ==
  [a \in Axis |-> [lo |-> rect[a].lo + offset[a].lo, hi |-> rect[a].hi + offset[a].hi]]

GetVisualWindowRect == ApplyVisualOffset(raw, [a \in Axis |-> Frame(maximized)])

\* GetDwmVisualOffsets of a window at the rectangle r
GetDwmVisualOffsets(isMaximized, r) ==
  LET visual == ApplyVisualOffset(r, [a \in Axis |-> Frame(isMaximized)])
  IN  [a \in Axis |-> [lo |-> visual[a].lo - r[a].lo, hi |-> visual[a].hi - r[a].hi]]

-------------------------------------------------------------------------------
\* Mouse::BeginOperation.

\* Mutant: the anchor is not scaled to the restored size.
AnchorUnscaled(c, restored) ==
  [a \in Axis |-> Shift(restored[a], c[a] - (c[a] - raw[a].lo) - restored[a].lo)]

\* RestoreMaximizedForOperation: the cursor keeps its place in proportion
Anchor(c, restored) ==
  [a \in Axis |->
     LET inWindow == c[a] - raw[a].lo
         anchor == (inWindow * Size(restored[a])) \div Size(raw[a])
     IN  Shift(restored[a], c[a] - anchor - restored[a].lo)]

RestoredRect(c) == IF maximized THEN Anchor(c, normal) ELSE raw

\* GetMinMaxInfo; a window that does not answer has the default and no maximum.
MinMaxInfo == [min : {IF n > 0 THEN n ELSE DefaultMin : n \in MinSizes}, max : MaxSizes]
                \cup {[min |-> DefaultMin, max |-> 0]}

\* ResolveResizeCorner: the edge that moves on each axis
ResolveResizeCorner(corner, point, rect) ==
  LET near(a) == IF point[a] - rect[a].lo < Size(rect[a]) \div 2 THEN "lo" ELSE "hi"
      empty == \E a \in Axis : Size(rect[a]) <= 0
  IN  CASE corner = "TopLeft"     -> [x |-> "lo", y |-> "lo"]
        [] corner = "TopRight"    -> [x |-> "hi", y |-> "lo"]
        [] corner = "BottomLeft"  -> [x |-> "lo", y |-> "hi"]
        [] corner = "BottomRight" \/ (corner = "Closest" /\ empty) -> [x |-> "hi", y |-> "hi"]
        [] OTHER -> [x |-> near("x"), y |-> near("y")]

\* Mutant: the borders are measured before the window is restored.
MeasuredEarly(rect) == GetDwmVisualOffsets(maximized, rect)

\* The borders are measured where the window stands after it was restored.
MeasuredOffset(rect) == GetDwmVisualOffsets(FALSE, rect)

\* A window under the cursor is grabbed.  It takes the place it is given.
Grab(s) ==
  /\ session = NoSession
  /\ maximized \/ raw \in Places           \* bound
  /\ Inside(cursor, GetVisualWindowRect)
  /\ raw' = RestoredRect(cursor)
  /\ maximized' = FALSE
  /\ session' = s
  /\ UNCHANGED <<normal, cursor>>

BeginDrag ==
  LET rect == RestoredRect(cursor)
  IN  Grab([type |-> "Drag", anchor |-> [a \in Axis |-> cursor[a] - rect[a].lo],
            windowSize |-> [a \in Axis |-> Size(rect[a])],
            startCursor |-> cursor, startRect |-> rect,
            visualOffset |-> MeasuredOffset(rect)])

BeginResize(corner, limits) ==
  LET rect == RestoredRect(cursor)
  IN  Grab([type |-> "Resize", corner |-> ResolveResizeCorner(corner, cursor, rect),
            setting |-> corner, limits |-> limits, startCursor |-> cursor, startRect |-> rect,
            visualOffset |-> MeasuredOffset(rect)])

-------------------------------------------------------------------------------
\* The bounds that belong to a position of the cursor.

ComputeDragBounds(c, s) ==
  [a \in Axis |-> LET lo == c[a] - s.anchor[a] IN [lo |-> lo, hi |-> lo + s.windowSize[a]]]

\* Mutant: the right or the lower edge gives way whichever edge is dragged.
FitHigh(span, edge, size) == [span EXCEPT !.hi = span.lo + size]

\* The edge that is dragged gives way.
Fit(span, edge, size) ==
  IF edge = "lo" THEN [span EXCEPT !.lo = span.hi - size] ELSE [span EXCEPT !.hi = span.lo + size]

\* ApplyResizeConstraints on one axis: the minimum, then the maximum
ApplyResizeConstraints(span, edge, limits) ==
  LET atLeast == IF limits.min > 0 /\ Size(span) < limits.min
                 THEN Fit(span, edge, limits.min) ELSE span
  IN  IF limits.max > 0 /\ Size(atLeast) > limits.max
      THEN Fit(atLeast, edge, limits.max) ELSE atLeast

ComputeResizeBounds(c, s) ==
  [a \in Axis |->
     LET d == c[a] - s.startCursor[a]
         moved == IF s.corner[a] = "lo" THEN [s.startRect[a] EXCEPT !.lo = @ + d]
                                        ELSE [s.startRect[a] EXCEPT !.hi = @ + d]
     IN  ApplyResizeConstraints(moved, s.corner[a], s.limits)]

ComputeBounds(s, c) == IF s.type = "Drag" THEN ComputeDragBounds(c, s) ELSE ComputeResizeBounds(c, s)

Preview == ApplyVisualOffset(ComputeBounds(session, cursor), session.visualOffset)

-------------------------------------------------------------------------------

MoveCursor(point) ==
  /\ cursor' = point
  /\ UNCHANGED <<raw, maximized, normal, session>>

MoveWindowToRawRect(rect) == raw' = rect

\* The last placement of an interaction
Commit ==
  /\ session # NoSession
  /\ MoveWindowToRawRect(ComputeBounds(session, cursor))
  /\ session' = NoSession
  /\ UNCHANGED <<maximized, normal, cursor>>

\* Escape, or a placement that fails
Cancel ==
  /\ session # NoSession
  /\ MoveWindowToRawRect(session.startRect)
  /\ session' = NoSession
  /\ UNCHANGED <<maximized, normal, cursor>>

WithoutBorders(rect, offsets) ==
  [a \in Axis |-> [lo |-> rect[a].lo - offsets[a].lo, hi |-> rect[a].hi - offsets[a].hi]]

\* hw.window's move: MoveWindowToVisualRect
MoveWindowToVisualRect(rect) ==
  /\ session = NoSession
  /\ MoveWindowToRawRect(WithoutBorders(rect, GetDwmVisualOffsets(maximized, raw)))
  /\ UNCHANGED <<maximized, normal, cursor, session>>

Maximize ==
  /\ session = NoSession /\ ~maximized
  /\ raw \in Places                        \* bound
  /\ normal' = raw /\ maximized' = TRUE
  /\ raw' = Maximized
  /\ UNCHANGED <<cursor, session>>

GeometryInit ==
  /\ raw = CHOOSE place \in Places : TRUE
  /\ normal = raw /\ maximized = FALSE /\ session = NoSession
  /\ cursor = [a \in Axis |-> 0]

GeometryNext ==
  \/ BeginDrag
  \/ \E corner \in Corners, limits \in MinMaxInfo : BeginResize(corner, limits)
  \/ \E point \in Point : MoveCursor(point)
  \/ Commit \/ Cancel \/ Maximize
  \/ \E rect \in Places : MoveWindowToVisualRect(rect)

-------------------------------------------------------------------------------
\* What the user was shown, or what the configuration asked for, is where the window
\* is then seen: also when it was maximized when it was grabbed, and so had other
\* borders.
LandsAsShown ==
  [][/\ Commit => GetVisualWindowRect' = Preview
     /\ \A rect \in Places : MoveWindowToVisualRect(rect) => GetVisualWindowRect' = rect]_geometryVars

\* A window that is dragged stays under the cursor, at the point that was
\* grabbed; a maximized one does not slip away when it becomes smaller.
HeldPointStays ==
  session.type = "Drag" =>
    LET bounds == ComputeBounds(session, cursor)
    IN  /\ Inside(cursor, bounds)
        /\ \A a \in Axis : cursor[a] - bounds[a].lo
                             = session.startCursor[a] - session.startRect[a].lo

\* A resize keeps the corner opposite to the one that is dragged, keeps within the limits of
\* the window, and drags the corner that is nearest if the setting says so.
ResizeKeepsCorner ==
  session.type = "Resize" =>
    LET bounds == ComputeBounds(session, cursor)
        start == session.startRect
        limits == session.limits
        grabbed == session.startCursor
    IN  \A a \in Axis :
          /\ IF session.corner[a] = "lo" THEN bounds[a].hi = start[a].hi
                                         ELSE bounds[a].lo = start[a].lo
          /\ limits.max = 0 \/ Size(bounds[a]) <= limits.max
          /\ (limits.max # 0 /\ limits.max < limits.min) \/ Size(bounds[a]) >= limits.min
          /\ session.setting = "Closest" =>
               IF session.corner[a] = "lo" THEN grabbed[a] - start[a].lo <= start[a].hi - grabbed[a]
                                           ELSE start[a].hi - grabbed[a] <= grabbed[a] - start[a].lo + 1
===============================================================================
