--------------------------- MODULE Algorithms_proofs ---------------------------
(***************************************************************************)
(* Proofs about the parts that Algorithms models, for inputs of any size:  *)
(* the bounds of a drag or of a resize follow the cursor and a window      *)
(* lands where it was shown; the last rule that matches decides whether a  *)
(* window is managed, and the two routines that choose a window agree;     *)
(* lists of settings are read whole or not at all; a key press runs the    *)
(* latest bind that stands for it, and a chord that is sent releases what  *)
(* it presses; binds and lists can be given back as they were told; the    *)
(* ring between two threads is a queue.                                    *)
(***************************************************************************)
EXTENDS Algorithms, SequenceTheorems, FiniteSetTheorems, WellFoundedInduction, TLAPS

vars == <<subject, chordsVars, tablesVars, selectionVars, geometryVars, ringVars>>

Rects == [Axis -> Span]

\* What the borders of a window add to its raw rectangle when it is not maximized
InvisibleBorders == [a \in Axis |-> [lo |-> 1, hi |-> -1]]

Drags ==
  [type : {"Drag"}, anchor : [Axis -> Int], windowSize : [Axis -> Int],
   startCursor : [Axis -> Int], startRect : Rects, visualOffset : {InvisibleBorders}]

Resizes ==
  [type : {"Resize"}, corner : [Axis -> {"lo", "hi"}], setting : Corners, limits : MinMaxInfo,
   startCursor : [Axis -> Int], startRect : Rects, visualOffset : {InvisibleBorders}]

(***************************************************************************)
(* A drag remembers a point inside the window: where the cursor was from   *)
(* the corner of the window.  A resize remembers the corner that belongs   *)
(* to the point.  In both the window was not empty, or the point would not *)
(* have been in it.                                                        *)
(***************************************************************************)
DragInv ==
  session.type = "Drag" =>
    /\ session \in Drags
    /\ Inside(session.startCursor, session.startRect)
    /\ \A a \in Axis : /\ session.windowSize[a] = Size(session.startRect[a])
                       /\ session.anchor[a] = session.startCursor[a] - session.startRect[a].lo

ResizeInv ==
  session.type = "Resize" =>
    /\ session \in Resizes
    /\ Inside(session.startCursor, session.startRect)
    /\ session.corner = ResolveResizeCorner(session.setting, session.startCursor, session.startRect)

\* A session works on a window that is not maximized, and a maximized window has an
\* area that the cursor's place in it can be a proportion of.
WindowInv ==
  /\ raw \in Rects
  /\ maximized \in BOOLEAN
  /\ normal \in Places
  /\ cursor \in [Axis -> Int]
  /\ session.type \in {"none", "Drag", "Resize"}
  /\ session.type = "none" => session = NoSession
  /\ session # NoSession => ~maximized

GeometryInv == WindowInv /\ DragInv /\ ResizeInv

-------------------------------------------------------------------------------

(***************************************************************************)
(* The arithmetic of one axis.                                             *)
(***************************************************************************)

\* A place within n units is, in proportion, within s units.
LEMMA Proportion ==
  ASSUME NEW i \in Nat, NEW n \in Nat \ {0}, NEW s \in Nat \ {0}, i < n
  PROVE  /\ (i * s) \div n \in Int
         /\ 0 <= (i * s) \div n
         /\ (i * s) \div n < s
<1> DEFINE q == (i * s) \div n
<1>1. i * s \in Nat /\ i * s < n * s
  BY Z3
<1>2. q \in Int /\ n * q <= i * s /\ 0 <= q
  BY <1>1, Z3
<1>3. n * q < n * s
  BY <1>1, <1>2, Z3
<1>4. q < s
  BY <1>2, <1>3, Z3
<1> QED
  BY <1>2, <1>4

LEMMA PlaceTypes ==
  ASSUME NEW place \in Places
  PROVE  /\ place \in Rects
         /\ \A a \in Axis : place[a] \in Span /\ place[a].lo < place[a].hi
BY GeometryAssumption DEF Rects

LEMMA LimitTypes ==
  ASSUME NEW limits \in MinMaxInfo
  PROVE  limits \in [min : Nat \ {0}, max : Nat]
<1>1. DefaultMin \in Nat \ {0} /\ MinSizes \subseteq Nat /\ MaxSizes \subseteq Nat
  BY GeometryAssumption
<1>2. CASE limits = [min |-> DefaultMin, max |-> 0]
  BY <1>1, <1>2
<1>3. CASE limits \in [min : {IF n > 0 THEN n ELSE DefaultMin : n \in MinSizes}, max : MaxSizes]
  <2>1. limits = [min |-> limits.min, max |-> limits.max] /\ limits.max \in MaxSizes
    BY <1>3
  <2>2. PICK n \in MinSizes : limits.min = IF n > 0 THEN n ELSE DefaultMin
    BY <1>3
  <2>3. limits.min \in Nat \ {0}
    BY <1>1, <2>2
  <2> QED
    BY <1>1, <2>1, <2>3
<1> QED
  BY <1>2, <1>3 DEF MinMaxInfo

\* The edge that is dragged gives way, and the other one stays.
LEMMA FitKeeps ==
  ASSUME NEW span \in Span, NEW edge \in {"lo", "hi"}, NEW size \in Nat
  PROVE  /\ Fit(span, edge, size) \in Span
         /\ Size(Fit(span, edge, size)) = size
         /\ edge = "lo" => Fit(span, edge, size).hi = span.hi
         /\ edge = "hi" => Fit(span, edge, size).lo = span.lo
BY DEF Fit, Size, Span

\* A span that is put within limits is within them, where they do not exclude each
\* other, and its edge that is not dragged stays.
LEMMA ConstraintsHold ==
  ASSUME NEW span \in Span, NEW edge \in {"lo", "hi"}, NEW limits \in MinMaxInfo
  PROVE  LET fitted == ApplyResizeConstraints(span, edge, limits)
         IN  /\ fitted \in Span
             /\ edge = "lo" => fitted.hi = span.hi
             /\ edge = "hi" => fitted.lo = span.lo
             /\ limits.max = 0 \/ Size(fitted) <= limits.max
             /\ (limits.max # 0 /\ limits.max < limits.min) \/ Size(fitted) >= limits.min
<1> DEFINE atLeast == IF limits.min > 0 /\ Size(span) < limits.min
                      THEN Fit(span, edge, limits.min) ELSE span
           fitted == ApplyResizeConstraints(span, edge, limits)
<1>1. limits.min \in Nat \ {0} /\ limits.max \in Nat
  BY LimitTypes
<1>2. Size(span) \in Int
  BY DEF Size, Span
<1> HIDE DEF atLeast, fitted
<1>3. /\ atLeast \in Span
      /\ Size(atLeast) \in Int /\ Size(atLeast) >= limits.min
      /\ edge = "lo" => atLeast.hi = span.hi
      /\ edge = "hi" => atLeast.lo = span.lo
  <2>1. CASE Size(span) < limits.min
    <3>1. atLeast = Fit(span, edge, limits.min)
      BY <1>1, <1>2, <2>1 DEF atLeast
    <3>2. /\ atLeast \in Span /\ Size(atLeast) = limits.min
          /\ edge = "lo" => atLeast.hi = span.hi
          /\ edge = "hi" => atLeast.lo = span.lo
      BY <1>1, <3>1, FitKeeps
    <3> QED
      BY <1>1, <3>2
  <2>2. CASE ~(Size(span) < limits.min)
    <3>1. atLeast = span
      BY <2>2 DEF atLeast
    <3> QED
      BY <1>1, <1>2, <2>2, <3>1
  <2> QED
    BY <2>1, <2>2
<1>4. fitted = IF limits.max > 0 /\ Size(atLeast) > limits.max
               THEN Fit(atLeast, edge, limits.max) ELSE atLeast
  BY DEF fitted, atLeast, ApplyResizeConstraints
<1>5. CASE limits.max > 0 /\ Size(atLeast) > limits.max
  <2>1. fitted = Fit(atLeast, edge, limits.max)
    BY <1>4, <1>5
  <2>2. /\ fitted \in Span /\ Size(fitted) = limits.max
        /\ edge = "lo" => fitted.hi = atLeast.hi
        /\ edge = "hi" => fitted.lo = atLeast.lo
    BY <1>1, <1>3, <2>1, FitKeeps
  <2> QED
    BY <1>1, <1>3, <1>5, <2>2 DEF fitted
<1>6. CASE ~(limits.max > 0 /\ Size(atLeast) > limits.max)
  <2>1. fitted = atLeast
    BY <1>4, <1>6
  <2> QED
    BY <1>1, <1>3, <1>6, <2>1 DEF fitted
<1> QED
  BY <1>5, <1>6

-------------------------------------------------------------------------------
(***************************************************************************)
(* Grabbing a window.                                                      *)
(***************************************************************************)

LEMMA OffsetSides ==
  ASSUME NEW rect, NEW offset, NEW a \in Axis
  PROVE  LET moved == ApplyVisualOffset(rect, offset)[a]
         IN  moved.lo = rect[a].lo + offset[a].lo /\ moved.hi = rect[a].hi + offset[a].hi
BY DEF ApplyVisualOffset

\* The borders that are measured do not depend on where the window is.
LEMMA OffsetsMeasured ==
  ASSUME NEW rect \in Rects, NEW isMaximized \in BOOLEAN
  PROVE  GetDwmVisualOffsets(isMaximized, rect) = [a \in Axis |-> Frame(isMaximized)]
<1> DEFINE frame == Frame(isMaximized)
           visual == ApplyVisualOffset(rect, [a \in Axis |-> frame])
<1>1. \A a \in Axis : rect[a].lo \in Int /\ rect[a].hi \in Int
  BY DEF Rects, Span
<1>2. frame.lo \in Int /\ frame.hi \in Int /\ frame = [lo |-> frame.lo, hi |-> frame.hi]
  BY DEF Frame
<1>3. GetDwmVisualOffsets(isMaximized, rect) =
        [a \in Axis |-> [lo |-> visual[a].lo - rect[a].lo, hi |-> visual[a].hi - rect[a].hi]]
  BY DEF GetDwmVisualOffsets
<1> HIDE DEF frame
<1>4. \A a \in Axis : visual[a].lo = rect[a].lo + frame.lo /\ visual[a].hi = rect[a].hi + frame.hi
  BY OffsetSides
<1> HIDE DEF visual
<1>5. \A a \in Axis : visual[a].lo - rect[a].lo = frame.lo /\ visual[a].hi - rect[a].hi = frame.hi
  BY <1>1, <1>2, <1>4
<1>6. GetDwmVisualOffsets(isMaximized, rect) = [a \in Axis |-> frame]
  BY <1>2, <1>3, <1>5
<1> QED
  BY <1>6 DEF frame

LEMMA MeasuredBorders ==
  ASSUME NEW rect \in Rects
  PROVE  MeasuredOffset(rect) = InvisibleBorders
BY OffsetsMeasured DEF MeasuredOffset, InvisibleBorders, Frame

\* The cursor is in the window before and after a maximized window is restored.
LEMMA CursorStaysInside ==
  ASSUME WindowInv, Inside(cursor, GetVisualWindowRect)
  PROVE  RestoredRect(cursor) \in Rects /\ Inside(cursor, RestoredRect(cursor))
<1>1. \A a \in Axis : cursor[a] \in Int /\ raw[a].lo \in Int /\ raw[a].hi \in Int
  BY DEF WindowInv, Rects, Span
<1>2. CASE maximized
  <2>1. ASSUME NEW a \in Axis
        PROVE  raw[a].lo <= cursor[a] /\ cursor[a] < raw[a].hi
    <3>1. GetVisualWindowRect[a] = [lo |-> raw[a].lo + 0, hi |-> raw[a].hi + 0]
      BY <1>2 DEF GetVisualWindowRect, ApplyVisualOffset, Frame
    <3>2. In(cursor[a], GetVisualWindowRect[a])
      BY DEF Inside
    <3> QED
      BY <1>1, <3>1, <3>2 DEF In
  <2>2. RestoredRect(cursor) = Anchor(cursor, normal)
    BY <1>2 DEF RestoredRect
  <2>3. ASSUME NEW a \in Axis
        PROVE  /\ Anchor(cursor, normal)[a] \in Span
               /\ In(cursor[a], Anchor(cursor, normal)[a])
    <3> DEFINE anchor == ((cursor[a] - raw[a].lo) * Size(normal[a])) \div Size(raw[a])
    <3>1. normal[a].lo \in Int /\ normal[a].hi \in Int /\ normal[a].lo < normal[a].hi
      BY PlaceTypes DEF WindowInv, Span
    <3>2. /\ cursor[a] - raw[a].lo \in Nat /\ Size(raw[a]) \in Nat \ {0}
          /\ Size(normal[a]) \in Nat \ {0} /\ cursor[a] - raw[a].lo < Size(raw[a])
      BY <1>1, <2>1, <3>1 DEF Size
    <3>3. anchor \in Int /\ 0 <= anchor /\ anchor < Size(normal[a])
      BY <3>2, Proportion
    <3>4. Anchor(cursor, normal)[a] = Shift(normal[a], cursor[a] - anchor - normal[a].lo)
      BY DEF Anchor
    <3> HIDE DEF anchor
    <3>5. Anchor(cursor, normal)[a] =
            [lo |-> normal[a].lo + (cursor[a] - anchor - normal[a].lo),
             hi |-> normal[a].hi + (cursor[a] - anchor - normal[a].lo)]
      BY <3>4 DEF Shift
    <3> QED
      BY <1>1, <3>1, <3>3, <3>5 DEF In, Span, Size
  <2>4. Anchor(cursor, normal) = [a \in Axis |-> Anchor(cursor, normal)[a]]
    BY DEF Anchor
  <2>5. Anchor(cursor, normal) \in Rects
    BY <2>3, <2>4 DEF Rects
  <2> QED
    BY <2>2, <2>3, <2>5 DEF Inside
<1>3. CASE ~maximized
  <2>1. RestoredRect(cursor) = raw
    BY <1>3 DEF RestoredRect
  <2>2. ASSUME NEW a \in Axis
        PROVE  In(cursor[a], raw[a])
    <3>1. GetVisualWindowRect[a] = [lo |-> raw[a].lo + 1, hi |-> raw[a].hi + (-1)]
      BY <1>3 DEF GetVisualWindowRect, ApplyVisualOffset, Frame
    <3>2. In(cursor[a], GetVisualWindowRect[a])
      BY DEF Inside
    <3> QED
      BY <1>1, <3>1, <3>2 DEF In
  <2> QED
    BY <2>1, <2>2 DEF Inside, WindowInv
<1> QED
  BY <1>2, <1>3

LEMMA GrabKeepsWindow ==
  ASSUME WindowInv, NEW s, s.type \in {"Drag", "Resize"}, Grab(s)
  PROVE  WindowInv'
<1>1. RestoredRect(cursor) \in Rects
  BY CursorStaysInside DEF Grab
<1> QED
  BY <1>1 DEF Grab, WindowInv

LEMMA DragBegins ==
  ASSUME GeometryInv, BeginDrag
  PROVE  GeometryInv'
<1> DEFINE rect == RestoredRect(cursor)
           s == [type |-> "Drag", anchor |-> [a \in Axis |-> cursor[a] - rect[a].lo],
                 windowSize |-> [a \in Axis |-> Size(rect[a])],
                 startCursor |-> cursor, startRect |-> rect,
                 visualOffset |-> MeasuredOffset(rect)]
<1>1. Grab(s)
  BY DEF BeginDrag
<1>2. session' = s /\ s.type = "Drag"
  BY <1>1 DEF Grab
<1>3. rect \in Rects /\ Inside(cursor, rect)
  BY <1>1, CursorStaysInside DEF Grab, GeometryInv
<1>4. MeasuredOffset(rect) = InvisibleBorders
  BY <1>3, MeasuredBorders
<1>5. WindowInv'
  BY <1>1, <1>2, GrabKeepsWindow DEF GeometryInv
<1>6. \A a \in Axis : cursor[a] \in Int /\ rect[a].lo \in Int /\ rect[a].hi \in Int
  BY <1>3 DEF GeometryInv, WindowInv, Rects, Span
<1>7. DragInv'
  <2> HIDE DEF rect
  <2>1. [a \in Axis |-> cursor[a] - rect[a].lo] \in [Axis -> Int]
    BY <1>6
  <2>2. [a \in Axis |-> Size(rect[a])] \in [Axis -> Int]
    BY <1>6 DEF Size
  <2>3. cursor \in [Axis -> Int]
    BY DEF GeometryInv, WindowInv
  <2>4. s \in Drags
    BY <1>3, <1>4, <2>1, <2>2, <2>3 DEF Drags
  <2>5. /\ s.startCursor = cursor /\ s.startRect = rect
        /\ \A a \in Axis : /\ s.windowSize[a] = Size(rect[a])
                           /\ s.anchor[a] = cursor[a] - rect[a].lo
    OBVIOUS
  <2> QED
    BY <1>2, <1>3, <2>4, <2>5 DEF DragInv
<1>8. ResizeInv'
  BY <1>2 DEF ResizeInv
<1> QED
  BY <1>5, <1>7, <1>8 DEF GeometryInv

LEMMA CornerType ==
  ASSUME NEW corner \in Corners, NEW point, NEW rect
  PROVE  ResolveResizeCorner(corner, point, rect) \in [Axis -> {"lo", "hi"}]
<1>1. corner \in {"Closest", "TopLeft", "TopRight", "BottomLeft", "BottomRight"}
  BY GeometryAssumption
<1> QED
  BY <1>1 DEF ResolveResizeCorner, Axis

LEMMA ResizeBegins ==
  ASSUME GeometryInv, NEW corner \in Corners, NEW limits \in MinMaxInfo, BeginResize(corner, limits)
  PROVE  GeometryInv'
<1> DEFINE rect == RestoredRect(cursor)
           s == [type |-> "Resize", corner |-> ResolveResizeCorner(corner, cursor, rect),
                 setting |-> corner, limits |-> limits, startCursor |-> cursor, startRect |-> rect,
                 visualOffset |-> MeasuredOffset(rect)]
<1>1. Grab(s)
  BY DEF BeginResize
<1>2. session' = s /\ s.type = "Resize"
  BY <1>1 DEF Grab
<1>3. rect \in Rects /\ Inside(cursor, rect)
  BY <1>1, CursorStaysInside DEF Grab, GeometryInv
<1>4. MeasuredOffset(rect) = InvisibleBorders
  BY <1>3, MeasuredBorders
<1>5. WindowInv'
  BY <1>1, <1>2, GrabKeepsWindow DEF GeometryInv
<1>6. ResizeInv'
  <2> HIDE DEF rect
  <2>1. cursor \in [Axis -> Int]
    BY DEF GeometryInv, WindowInv
  <2>2. ResolveResizeCorner(corner, cursor, rect) \in [Axis -> {"lo", "hi"}]
    BY CornerType
  <2>3. s \in Resizes
    BY <1>3, <1>4, <2>1, <2>2 DEF Resizes
  <2>4. /\ s.startCursor = cursor /\ s.startRect = rect /\ s.setting = corner
        /\ s.corner = ResolveResizeCorner(corner, cursor, rect)
    OBVIOUS
  <2> QED
    BY <1>2, <1>3, <2>3, <2>4 DEF ResizeInv
<1>7. DragInv'
  BY <1>2 DEF DragInv
<1> QED
  BY <1>5, <1>6, <1>7 DEF GeometryInv

-------------------------------------------------------------------------------
(***************************************************************************)
(* What the other steps do with the window and the session.                *)
(***************************************************************************)

\* The bounds of a session have the type of a rectangle wherever the cursor is.
LEMMA BoundsType ==
  ASSUME GeometryInv, session # NoSession
  PROVE  ComputeBounds(session, cursor) \in Rects
<1>1. \A a \in Axis : cursor[a] \in Int
  BY DEF GeometryInv, WindowInv
<1>2. CASE session.type = "Drag"
  <2>1. session \in Drags
    BY <1>2 DEF GeometryInv, DragInv
  <2>2. \A a \in Axis : session.anchor[a] \in Int /\ session.windowSize[a] \in Int
    BY <2>1 DEF Drags
  <2>3. ComputeBounds(session, cursor) =
          [a \in Axis |-> [lo |-> cursor[a] - session.anchor[a],
                           hi |-> (cursor[a] - session.anchor[a]) + session.windowSize[a]]]
    BY <1>2 DEF ComputeBounds, ComputeDragBounds
  <2> QED
    BY <1>1, <2>2, <2>3 DEF Rects, Span
<1>3. CASE session.type = "Resize"
  <2>1. session \in Resizes
    BY <1>3 DEF GeometryInv, ResizeInv
  <2> DEFINE moved(a) ==
        LET d == cursor[a] - session.startCursor[a]
        IN  IF session.corner[a] = "lo" THEN [session.startRect[a] EXCEPT !.lo = @ + d]
                                        ELSE [session.startRect[a] EXCEPT !.hi = @ + d]
  <2>2. ComputeBounds(session, cursor) =
          [a \in Axis |-> ApplyResizeConstraints(moved(a), session.corner[a], session.limits)]
    BY <1>3 DEF ComputeBounds, ComputeResizeBounds
  <2>3. ASSUME NEW a \in Axis
        PROVE  ApplyResizeConstraints(moved(a), session.corner[a], session.limits) \in Span
    <3>1. /\ session.corner[a] \in {"lo", "hi"} /\ session.limits \in MinMaxInfo
          /\ session.startRect[a] \in Span /\ session.startCursor[a] \in Int
      BY <2>1 DEF Resizes, Rects
    <3>2. moved(a) \in Span
      BY <1>1, <3>1 DEF Span
    <3> HIDE DEF moved
    <3> QED
      BY <3>1, <3>2, ConstraintsHold
  <2> QED
    BY <2>2, <2>3 DEF Rects
<1> QED
  BY <1>2, <1>3 DEF GeometryInv, WindowInv

LEMMA StartType ==
  ASSUME GeometryInv, session # NoSession
  PROVE  session.startRect \in Rects /\ session.visualOffset = InvisibleBorders
<1>1. CASE session.type = "Drag"
  BY <1>1 DEF GeometryInv, DragInv, Drags
<1>2. CASE session.type = "Resize"
  BY <1>2 DEF GeometryInv, ResizeInv, Resizes
<1> QED
  BY <1>1, <1>2 DEF GeometryInv, WindowInv

\* Without its borders a rectangle has the type of a rectangle.
LEMMA MoveType ==
  ASSUME WindowInv, NEW rect \in Places
  PROVE  WithoutBorders(rect, GetDwmVisualOffsets(maximized, raw)) \in Rects
<1>1. \A a \in Axis : rect[a].lo \in Int /\ rect[a].hi \in Int
  BY PlaceTypes DEF Rects, Span
<1>2. GetDwmVisualOffsets(maximized, raw) = [a \in Axis |-> Frame(maximized)]
  BY OffsetsMeasured DEF WindowInv
<1>3. Frame(maximized).lo \in Int /\ Frame(maximized).hi \in Int
  BY DEF Frame
<1>4. WithoutBorders(rect, GetDwmVisualOffsets(maximized, raw)) =
        [a \in Axis |-> [lo |-> rect[a].lo - Frame(maximized).lo,
                         hi |-> rect[a].hi - Frame(maximized).hi]]
  BY <1>2 DEF WithoutBorders
<1> QED
  BY <1>1, <1>3, <1>4 DEF Rects, Span

LEMMA SessionEnds ==
  ASSUME WindowInv, session' = NoSession, raw' \in Rects, UNCHANGED <<maximized, normal, cursor>>
  PROVE  GeometryInv'
BY DEF GeometryInv, WindowInv, DragInv, ResizeInv, NoSession

\* Steps between sessions
LEMMA SessionStaysAway ==
  ASSUME WindowInv, session = NoSession, session' = session,
         raw' \in Rects, maximized' \in BOOLEAN, normal' \in Places, cursor' = cursor
  PROVE  GeometryInv'
BY DEF GeometryInv, WindowInv, DragInv, ResizeInv, NoSession

LEMMA MaximizedType == Maximized \in Rects
BY DEF Maximized, Rects, Span

LEMMA GeometryStep ==
  ASSUME GeometryInv, GeometryNext
  PROVE  GeometryInv'
<1>1. CASE BeginDrag
  BY <1>1, DragBegins
<1>2. ASSUME NEW corner \in Corners, NEW limits \in MinMaxInfo, BeginResize(corner, limits)
      PROVE  GeometryInv'
  BY <1>2, ResizeBegins
<1>3. ASSUME NEW point \in Point, MoveCursor(point)
      PROVE  GeometryInv'
  <2>1. point \in [Axis -> Int]
    BY GeometryAssumption DEF Point
  <2>2. WindowInv'
    BY <1>3, <2>1 DEF MoveCursor, GeometryInv, WindowInv
  <2>3. DragInv' /\ ResizeInv'
    BY <1>3 DEF MoveCursor, GeometryInv, DragInv, ResizeInv
  <2> QED
    BY <2>2, <2>3 DEF GeometryInv
<1>4. CASE Commit
  BY <1>4, BoundsType, SessionEnds DEF Commit, MoveWindowToRawRect, GeometryInv
<1>5. CASE Cancel
  BY <1>5, StartType, SessionEnds DEF Cancel, MoveWindowToRawRect, GeometryInv
<1>6. CASE Maximize
  BY <1>6, MaximizedType, SessionStaysAway DEF Maximize, GeometryInv
<1>7. ASSUME NEW rect \in Places, MoveWindowToVisualRect(rect)
      PROVE  GeometryInv'
  <2>1. WithoutBorders(rect, GetDwmVisualOffsets(maximized, raw)) \in Rects
    BY MoveType DEF GeometryInv
  <2> QED
    BY <1>7, <2>1, SessionStaysAway DEF MoveWindowToVisualRect, MoveWindowToRawRect, GeometryInv, WindowInv
<1> QED
  BY <1>1, <1>2, <1>3, <1>4, <1>5, <1>6, <1>7 DEF GeometryNext

(***************************************************************************)
(* The other calculations leave the window alone.                          *)
(***************************************************************************)
LEMMA GeometryInductive == Spec => []GeometryInv
<1>1. Init => GeometryInv
  <2> SUFFICES ASSUME GeometryInit PROVE GeometryInv
    BY DEF Init
  <2>1. raw \in Places
    BY GeometryAssumption DEF GeometryInit
  <2>2. raw \in Rects
    BY <2>1, PlaceTypes
  <2>3. cursor \in [Axis -> Int]
    BY DEF GeometryInit
  <2> QED
    BY <2>1, <2>2, <2>3 DEF GeometryInit, GeometryInv, WindowInv, DragInv, ResizeInv, NoSession
<1>2. GeometryInv /\ [Next]_vars => GeometryInv'
  <2> SUFFICES ASSUME GeometryInv, [Next]_vars PROVE GeometryInv'
    OBVIOUS
  <2>1. CASE Geometry
    BY <2>1, GeometryStep DEF Geometry
  <2>2. CASE UNCHANGED geometryVars
    BY <2>2 DEF geometryVars, GeometryInv, WindowInv, DragInv, ResizeInv
  <2> QED
    BY <2>1, <2>2 DEF Next, Chords, Lists, Selection, Ring, vars
<1> QED
  BY <1>1, <1>2, PTL DEF Spec, vars

-------------------------------------------------------------------------------
(***************************************************************************)
(* The bounds follow the cursor.                                           *)
(***************************************************************************)

LEMMA HeldPointSafe ==
  ASSUME GeometryInv
  PROVE  HeldPointStays
<1> SUFFICES ASSUME session.type = "Drag"
             PROVE  LET bounds == ComputeBounds(session, cursor)
                    IN  /\ Inside(cursor, bounds)
                        /\ \A a \in Axis : cursor[a] - bounds[a].lo
                                             = session.startCursor[a] - session.startRect[a].lo
  BY DEF HeldPointStays
<1> DEFINE bounds == ComputeBounds(session, cursor)
<1>1. session \in Drags /\ Inside(session.startCursor, session.startRect)
  BY DEF GeometryInv, DragInv
<1>2. ASSUME NEW a \in Axis
      PROVE  /\ In(cursor[a], bounds[a])
             /\ cursor[a] - bounds[a].lo = session.startCursor[a] - session.startRect[a].lo
  <2>1. /\ cursor[a] \in Int /\ session.startCursor[a] \in Int
        /\ session.startRect[a].lo \in Int /\ session.startRect[a].hi \in Int
    BY <1>1 DEF GeometryInv, WindowInv, Drags, Rects, Span
  <2>2. /\ session.anchor[a] = session.startCursor[a] - session.startRect[a].lo
        /\ session.windowSize[a] = session.startRect[a].hi - session.startRect[a].lo
    BY DEF GeometryInv, DragInv, Size
  <2>3. session.startRect[a].lo <= session.startCursor[a] /\ session.startCursor[a] < session.startRect[a].hi
    BY <1>1 DEF Inside, In
  <2>4. /\ bounds[a].lo = cursor[a] - session.anchor[a]
        /\ bounds[a].hi = (cursor[a] - session.anchor[a]) + session.windowSize[a]
    BY DEF ComputeBounds, ComputeDragBounds
  <2> HIDE DEF bounds
  <2> QED
    BY <2>1, <2>2, <2>3, <2>4 DEF In
<1> QED
  BY <1>2 DEF Inside

\* The nearest corner is on either axis the edge that is nearer.
LEMMA NearestEdge ==
  ASSUME NEW point \in [Axis -> Int], NEW rect \in Rects, Inside(point, rect), NEW a \in Axis
  PROVE  IF ResolveResizeCorner("Closest", point, rect)[a] = "lo"
         THEN point[a] - rect[a].lo <= rect[a].hi - point[a]
         ELSE rect[a].hi - point[a] <= point[a] - rect[a].lo + 1
<1> DEFINE near(b) == IF point[b] - rect[b].lo < Size(rect[b]) \div 2 THEN "lo" ELSE "hi"
<1>1. \A b \in Axis : /\ rect[b].lo \in Int /\ rect[b].hi \in Int /\ point[b] \in Int
                      /\ rect[b].lo <= point[b] /\ point[b] < rect[b].hi
  BY DEF Rects, Span, Inside, In
<1>2. ~\E b \in Axis : Size(rect[b]) <= 0
  BY <1>1 DEF Size
<1>3. ResolveResizeCorner("Closest", point, rect) = [x |-> near("x"), y |-> near("y")]
  BY <1>2 DEF ResolveResizeCorner
<1>4. ResolveResizeCorner("Closest", point, rect)[a] = near(a)
  BY <1>3 DEF Axis
<1>5. /\ point[a] \in Int /\ rect[a].lo \in Int /\ rect[a].hi \in Int
      /\ Size(rect[a]) = rect[a].hi - rect[a].lo
  BY <1>1 DEF Size
<1> QED
  BY <1>4, <1>5

LEMMA ResizeSafe ==
  ASSUME GeometryInv
  PROVE  ResizeKeepsCorner
<1> SUFFICES ASSUME session.type = "Resize", NEW a \in Axis
             PROVE
    LET bounds == ComputeBounds(session, cursor)
        start == session.startRect
        limits == session.limits
        held == session.startCursor
    IN  /\ IF session.corner[a] = "lo" THEN bounds[a].hi = start[a].hi
                                       ELSE bounds[a].lo = start[a].lo
        /\ limits.max = 0 \/ Size(bounds[a]) <= limits.max
        /\ (limits.max # 0 /\ limits.max < limits.min) \/ Size(bounds[a]) >= limits.min
        /\ session.setting = "Closest" =>
             IF session.corner[a] = "lo" THEN held[a] - start[a].lo <= start[a].hi - held[a]
                                         ELSE start[a].hi - held[a] <= held[a] - start[a].lo + 1
  BY DEF ResizeKeepsCorner
<1> DEFINE bounds == ComputeBounds(session, cursor)
           edge == session.corner[a]
           d == cursor[a] - session.startCursor[a]
           moved == IF edge = "lo" THEN [session.startRect[a] EXCEPT !.lo = @ + d]
                                   ELSE [session.startRect[a] EXCEPT !.hi = @ + d]
<1>1. /\ session \in Resizes /\ Inside(session.startCursor, session.startRect)
      /\ session.corner = ResolveResizeCorner(session.setting, session.startCursor, session.startRect)
  BY DEF GeometryInv, ResizeInv
<1>2. /\ edge \in {"lo", "hi"} /\ session.limits \in MinMaxInfo
      /\ session.startRect \in Rects /\ session.startCursor \in [Axis -> Int]
  BY <1>1 DEF Resizes
<1>3. d \in Int /\ session.startRect[a] \in Span
  BY <1>2 DEF GeometryInv, WindowInv, Rects
<1>4. bounds[a] = ApplyResizeConstraints(moved, edge, session.limits)
  BY DEF ComputeBounds, ComputeResizeBounds
<1>5. /\ moved \in Span
      /\ edge = "lo" => moved.hi = session.startRect[a].hi
      /\ edge = "hi" => moved.lo = session.startRect[a].lo
  <2> HIDE DEF d, edge
  <2> QED
    BY <1>2, <1>3 DEF Span
<1>6. session.setting = "Closest" =>
        IF edge = "lo" THEN session.startCursor[a] - session.startRect[a].lo
                              <= session.startRect[a].hi - session.startCursor[a]
                       ELSE session.startRect[a].hi - session.startCursor[a]
                              <= session.startCursor[a] - session.startRect[a].lo + 1
  BY <1>1, <1>2, NearestEdge
<1> HIDE DEF moved, bounds
<1>7. /\ edge = "lo" => bounds[a].hi = moved.hi
      /\ edge = "hi" => bounds[a].lo = moved.lo
      /\ session.limits.max = 0 \/ Size(bounds[a]) <= session.limits.max
      /\ \/ session.limits.max # 0 /\ session.limits.max < session.limits.min
         \/ Size(bounds[a]) >= session.limits.min
  BY <1>2, <1>4, <1>5, ConstraintsHold
<1> QED
  BY <1>2, <1>5, <1>6, <1>7 DEF bounds

(***************************************************************************)
(* A window that is dragged stays under the cursor at the point that was   *)
(* grabbed, a window that is resized keeps the corner opposite to the one  *)
(* that is dragged and its limits: ComputeBounds, with the anchor and the  *)
(* corner that BeginOperation chose, for every window, cursor and limit.   *)
(***************************************************************************)
THEOREM BoundsSafe == Spec => []BoundsFollowCursor
<1>1. GeometryInv => BoundsFollowCursor
  BY HeldPointSafe, ResizeSafe DEF BoundsFollowCursor
<1> QED
  BY <1>1, GeometryInductive, PTL

-------------------------------------------------------------------------------
(***************************************************************************)
(* A window lands where it was shown.                                      *)
(***************************************************************************)

LEMMA CommitLands ==
  ASSUME GeometryInv, Commit
  PROVE  GetVisualWindowRect' = Preview
<1>1. /\ raw' = ComputeBounds(session, cursor) /\ maximized' = FALSE
      /\ session.visualOffset = InvisibleBorders
  BY StartType DEF Commit, MoveWindowToRawRect, GeometryInv, WindowInv
<1>2. InvisibleBorders = [a \in Axis |-> Frame(FALSE)]
  BY DEF InvisibleBorders, Frame
<1>3. GetVisualWindowRect' = ApplyVisualOffset(raw', [a \in Axis |-> Frame(FALSE)])
  BY <1>1 DEF GetVisualWindowRect, ApplyVisualOffset, Frame
<1> QED
  BY <1>1, <1>2, <1>3 DEF Preview

LEMMA MoveLands ==
  ASSUME GeometryInv, NEW rect \in Places, MoveWindowToVisualRect(rect)
  PROVE  GetVisualWindowRect' = rect
<1> DEFINE frame == Frame(maximized)
<1>1. GetDwmVisualOffsets(maximized, raw) = [a \in Axis |-> frame]
  BY OffsetsMeasured DEF GeometryInv, WindowInv
<1>2. /\ raw' = [a \in Axis |-> [lo |-> rect[a].lo - frame.lo, hi |-> rect[a].hi - frame.hi]]
      /\ maximized' = maximized
  BY <1>1 DEF MoveWindowToVisualRect, MoveWindowToRawRect, WithoutBorders
<1>3. GetVisualWindowRect' =
        [a \in Axis |-> [lo |-> raw'[a].lo + frame.lo, hi |-> raw'[a].hi + frame.hi]]
  BY <1>2 DEF GetVisualWindowRect, ApplyVisualOffset, Frame
<1>4. frame.lo \in Int /\ frame.hi \in Int
  BY DEF Frame
<1> HIDE DEF frame
<1>5. \A a \in Axis : /\ rect[a].lo \in Int /\ rect[a].hi \in Int
                      /\ rect[a] = [lo |-> rect[a].lo, hi |-> rect[a].hi]
  BY PlaceTypes DEF Span
<1>6. ASSUME NEW a \in Axis
      PROVE  raw'[a].lo + frame.lo = rect[a].lo /\ raw'[a].hi + frame.hi = rect[a].hi
  <2>1. raw'[a].lo = rect[a].lo - frame.lo /\ raw'[a].hi = rect[a].hi - frame.hi
    BY <1>2
  <2>2. rect[a].lo \in Int /\ rect[a].hi \in Int
    BY <1>5
  <2> QED
    BY <1>4, <2>1, <2>2
<1>7. GetVisualWindowRect' = [a \in Axis |-> rect[a]]
  BY <1>3, <1>5, <1>6
<1> QED
  BY <1>7, PlaceTypes DEF Rects

(***************************************************************************)
(* Committing an interaction puts the window where the preview showed it,  *)
(* and a move that a configuration asks for puts it there: the offsets are *)
(* measured in the state in which the window is moved, with the borders it *)
(* has then.                                                               *)
(***************************************************************************)
THEOREM LandsSafe == Spec => LandsAsShown
<1>1. GeometryInv /\ [Next]_vars =>
        [/\ Commit => GetVisualWindowRect' = Preview
         /\ \A rect \in Places : MoveWindowToVisualRect(rect) => GetVisualWindowRect' = rect]_geometryVars
  BY CommitLands, MoveLands
<1> QED
  BY <1>1, GeometryInductive, PTL DEF Spec, LandsAsShown, vars

-------------------------------------------------------------------------------
(***************************************************************************)
(* Folds over sequences.  FoldLeft goes over the sets of indices and takes *)
(* the largest away, so that a description of what it returns is right if  *)
(* it takes the step of the fold for every set of indices.                 *)
(***************************************************************************)

LEMMA SmallestOf ==
  ASSUME NEW T \in SUBSET Nat, T # {}
  PROVE  Min(T) \in T /\ \A g \in T : Min(T) <= g
<1> DEFINE R == {p \in Nat \X Nat : p[1] < p[2]}
<1>1. IsWellFoundedOn(R, Nat)
  BY NatLessThanWellFounded DEF OpToRel
<1>2. \A x, y \in Nat : y < x => <<y, x>> \in R
  OBVIOUS
<1> HIDE DEF R
<1>3. PICK m \in T : \A g \in T : ~(<<g, m>> \in R)
  BY <1>1, WFMin
<1>4. \A g \in T : ~(g < m)
  BY <1>2, <1>3
<1>5. \A g \in T : m <= g
  BY <1>4
<1> QED
  BY <1>5 DEF Min

LEMMA LargestOf ==
  ASSUME NEW n \in Nat, NEW s \in SUBSET (1..n), s # {}
  PROVE  Max(s) \in s /\ \A i \in s : i <= Max(s)
<1> DEFINE bounds == {u \in Nat : \A i \in s : i <= u}
           u == Min(bounds)
<1>1. u \in bounds /\ \A v \in bounds : u <= v
  <2>1. n \in bounds
    OBVIOUS
  <2> QED
    BY <2>1, SmallestOf
<1> HIDE DEF u
<1>2. u \in s
  <2> SUFFICES ASSUME u \notin s PROVE FALSE
    OBVIOUS
  <2>1. \A i \in s : i <= u - 1
    BY <1>1
  <2>2. PICK i \in s : TRUE
    OBVIOUS
  <2>3. u - 1 \in Nat
    <3>1. i \in Nat /\ 1 <= i
      OBVIOUS
    <3> QED
      BY <1>1, <2>1, <3>1
  <2> QED
    BY <1>1, <2>1, <2>3
<1>3. \E m \in s : \A i \in s : m >= i
  BY <1>1, <1>2
<1> QED
  BY <1>3 DEF Max

LEMMA LargestIs ==
  ASSUME NEW n \in Nat, NEW s \in SUBSET (1..n), NEW m \in s, \A i \in s : i <= m
  PROVE  Max(s) = m
<1>1. Max(s) \in s /\ \A i \in s : i <= Max(s)
  BY LargestOf
<1>2. Max(s) \in 1..n /\ m \in 1..n
  BY <1>1
<1>3. Max(s) <= m /\ m <= Max(s)
  BY <1>1
<1> QED
  BY <1>2, <1>3

\* Two functions that start alike and take the same steps return the same.
LEMMA SameSteps ==
  ASSUME NEW n \in Nat, NEW f, NEW g, f[{}] = g[{}],
         \A s \in SUBSET (1..n) : s # {} /\ f[s \ {Max(s)}] = g[s \ {Max(s)}] => f[s] = g[s]
  PROVE  f[1..n] = g[1..n]
<1> DEFINE differ == {k \in 0..n : f[1..k] # g[1..k]}
           k == Min(differ)
<1> SUFFICES ASSUME differ # {} PROVE FALSE
  BY n \in 0..n
<1>1. k \in differ /\ \A j \in differ : k <= j
  <2>1. differ \in SUBSET Nat
    OBVIOUS
  <2> QED
    BY <2>1, SmallestOf
<1> HIDE DEF k
<1>2. k # 0
  <2>1. 1..0 = {}
    OBVIOUS
  <2> QED
    BY <1>1, <2>1
<1>3. k \in 1..n /\ k - 1 \in 0..n /\ k - 1 \notin differ
  BY <1>1, <1>2
<1>4. f[1..(k - 1)] = g[1..(k - 1)]
  BY <1>3
<1>5. 1..k \in SUBSET (1..n) /\ 1..k # {} /\ Max(1..k) = k
  <2>1. 1..k \in SUBSET (1..n) /\ k \in 1..k /\ \A i \in 1..k : i <= k
    BY <1>3
  <2> QED
    BY <2>1, LargestIs
<1>6. (1..k) \ {k} = 1..(k - 1)
  BY <1>3
<1>7. f[1..k] = g[1..k]
  BY <1>4, <1>5, <1>6
<1> QED
  BY <1>1, <1>7

\* f folds step over the sets of indices from 1 to n.
Folds(f, n, X, base, step) ==
  /\ f \in [SUBSET (1..n) -> X]
  /\ f[{}] = base
  /\ \A s \in SUBSET (1..n) : s # {} => f[s] = step[<<f[s \ {Max(s)}], Max(s)>>]

\* There is such a function, whatever the step: so the CHOOSE in FoldLeft has one.
LEMMA FoldExists ==
  ASSUME NEW n \in Nat, NEW X, NEW base \in X, NEW step \in [X \X (1..n) -> X]
  PROVE  \E f : Folds(f, n, X, base, step)
<1> DEFINE lacking == {k \in 0..n : ~ \E f : Folds(f, k, X, base, step)}
           k == Min(lacking)
<1> SUFFICES ASSUME lacking # {} PROVE FALSE
  BY n \in 0..n
<1>1. k \in lacking /\ \A j \in lacking : k <= j
  <2>1. lacking \in SUBSET Nat
    OBVIOUS
  <2> QED
    BY <2>1, SmallestOf
<1> HIDE DEF k
<1>2. k # 0
  <2> SUFFICES ASSUME k = 0 PROVE \E f : Folds(f, k, X, base, step)
    BY <1>1
  <2> DEFINE f == [s \in SUBSET (1..0) |-> base]
  <2>1. 1..0 = {}
    OBVIOUS
  <2>2. Folds(f, 0, X, base, step)
    BY <2>1 DEF Folds
  <2> QED
    BY <2>2
<1>3. k \in 1..n /\ k - 1 \in 0..n /\ k - 1 \notin lacking
  <2>1. k \in 0..n
    BY <1>1
  <2>2. k \in 1..n /\ k - 1 \in 0..n /\ ~(k <= k - 1)
    BY <1>2, <2>1
  <2> HIDE DEF lacking
  <2> QED
    BY <1>1, <2>2
<1>4. PICK f : Folds(f, k - 1, X, base, step)
  BY <1>3
<1>4a. /\ f \in [SUBSET (1..(k - 1)) -> X]
       /\ f[{}] = base
       /\ \A s \in SUBSET (1..(k - 1)) : s # {} => f[s] = step[<<f[s \ {Max(s)}], Max(s)>>]
  BY <1>4 DEF Folds
<1> DEFINE g == [s \in SUBSET (1..k) |-> IF k \in s THEN step[<<f[s \ {k}], k>>] ELSE f[s]]
<1>5. \A s \in SUBSET (1..k) : s \ {k} \in SUBSET (1..(k - 1))
  BY <1>3
<1>6. g \in [SUBSET (1..k) -> X]
  <2> SUFFICES ASSUME NEW s \in SUBSET (1..k)
               PROVE  (IF k \in s THEN step[<<f[s \ {k}], k>>] ELSE f[s]) \in X
    OBVIOUS
  <2>1. CASE k \in s
    <3>1. f[s \ {k}] \in X
      BY <1>4a, <1>5
    <3>2. <<f[s \ {k}], k>> \in X \X (1..n)
      BY <1>3, <3>1
    <3> QED
      BY <2>1, <3>2
  <2>2. CASE k \notin s
    <3>1. s \in SUBSET (1..(k - 1))
      BY <1>5, <2>2
    <3> QED
      BY <1>4a, <2>2, <3>1
  <2> QED
    BY <2>1, <2>2
<1>7. g[{}] = base
  BY <1>4a
<1>8. ASSUME NEW s \in SUBSET (1..k), s # {}
      PROVE  g[s] = step[<<g[s \ {Max(s)}], Max(s)>>]
  <2>0. Max(s) \in s /\ \A i \in s : i <= Max(s)
    <3>1. k \in Nat
      BY <1>3
    <3> HIDE DEF g, lacking
    <3> QED
      BY <1>8, <3>1, LargestOf
  <2>1. CASE k \in s
    <3>1. Max(s) = k
      <4>1. Max(s) \in 1..k /\ k <= Max(s)
        BY <2>0, <2>1
      <4> QED
        BY <1>3, <4>1
    <3>2. g[s] = step[<<f[s \ {k}], k>>]
      BY <2>1
    <3>3. g[s \ {k}] = f[s \ {k}]
      BY <1>5
    <3> QED
      BY <3>1, <3>2, <3>3
  <2>2. CASE k \notin s
    <3>1. s \in SUBSET (1..(k - 1))
      BY <1>5, <2>2
    <3>2. f[s] = step[<<f[s \ {Max(s)}], Max(s)>>]
      BY <1>4a, <1>8, <3>1
    <3>3. s \ {Max(s)} \in SUBSET (1..k) /\ k \notin s \ {Max(s)}
      BY <2>2
    <3>4. g[s] = f[s] /\ g[s \ {Max(s)}] = f[s \ {Max(s)}]
      BY <2>2, <3>3
    <3> QED
      BY <3>2, <3>4
  <2> QED
    BY <2>1, <2>2
<1> HIDE DEF g
<1>9. Folds(g, k, X, base, step)
  BY <1>6, <1>7, <1>8 DEF Folds
<1> QED
  BY <1>1, <1>9

-------------------------------------------------------------------------------
(***************************************************************************)
(* The choice of a window.                                                 *)
(***************************************************************************)

LastOf(all, w, s) ==
  LET matching == {i \in s : Matches(all[i], w)}
  IN  IF matching = {} THEN "include" ELSE all[Max(matching)].action

\* The loop over the rules returns the action of the last one that matches.
LEMMA DecisionIsLast ==
  ASSUME NEW w, NEW userRules \in Seq(Rules)
  PROVE  LET all == BuiltIn \o userRules
         IN  Decision(userRules, w) = LastOf(all, w, DOMAIN all)
<1> DEFINE all == BuiltIn \o userRules
           n == Len(userRules) + 2
           Fold(it) == [s \in SUBSET DOMAIN all |->
                          IF s = {} THEN "include"
                          ELSE IF Matches(all[Max(s)], w) THEN all[Max(s)].action
                               ELSE it[s \ {Max(s)}]]
           it == CHOOSE f : f = Fold(f)
           last == [s \in SUBSET DOMAIN all |-> LastOf(all, w, s)]
<1>1. Decision(userRules, w) = it[DOMAIN all]
  BY DEF Decision, FoldLeft, MapThenFoldSet
<1>2. n \in Nat /\ DOMAIN all = 1..n
  BY DEF BuiltIn
<1> HIDE DEF all, n
<1>3. LastOf(all, w, {}) = "include"
  BY DEF LastOf
<1>4. ASSUME NEW s \in SUBSET (1..n), s # {}
      PROVE  /\ s \ {Max(s)} \in SUBSET (1..n)
             /\ LastOf(all, w, s) = IF Matches(all[Max(s)], w) THEN all[Max(s)].action
                                    ELSE LastOf(all, w, s \ {Max(s)})
  <2>1. Max(s) \in s /\ \A i \in s : i <= Max(s)
    BY <1>2, <1>4, LargestOf
  <2> DEFINE matching == {i \in s : Matches(all[i], w)}
  <2>2. CASE Matches(all[Max(s)], w)
    <3>1. matching \in SUBSET (1..n) /\ Max(s) \in matching /\ \A i \in matching : i <= Max(s)
      BY <2>1, <2>2
    <3>2. Max(matching) = Max(s)
      BY <1>2, <3>1, LargestIs
    <3> QED
      BY <2>2, <3>1, <3>2 DEF LastOf
  <2>3. CASE ~Matches(all[Max(s)], w)
    <3>1. matching = {i \in s \ {Max(s)} : Matches(all[i], w)}
      BY <2>3
    <3> QED
      BY <2>3, <3>1 DEF LastOf
  <2> QED
    BY <2>2, <2>3
<1>5. last = Fold(last)
  BY <1>2, <1>3, <1>4
<1>6. it = Fold(it)
  BY <1>5
<1> HIDE DEF it
<1>7. it[{}] = last[{}]
  <2>1. it[{}] = "include"
    BY <1>6
  <2> QED
    BY <2>1, <1>3
<1>8. ASSUME NEW s \in SUBSET (1..n), s # {}, it[s \ {Max(s)}] = last[s \ {Max(s)}]
      PROVE  it[s] = last[s]
  <2>1. it[s] = IF Matches(all[Max(s)], w) THEN all[Max(s)].action ELSE it[s \ {Max(s)}]
    BY <1>2, <1>6, <1>8
  <2> QED
    BY <1>2, <1>4, <1>8, <2>1
<1> HIDE DEF last
<1>9. it[1..n] = last[1..n]
  BY <1>2, <1>7, <1>8, SameSteps
<1> QED
  BY <1>1, <1>2, <1>9 DEF last, all

LEMMA RuleTypes ==
  ASSUME NEW rule \in Rules
  PROVE  rule.action \in {"include", "exclude"}
BY SelectionAssumption DEF Rule

UserAllows(userRules, w) ==
  LET matching == {i \in DOMAIN userRules : Matches(userRules[i], w)}
  IN  IF matching = {} THEN ~IsShellProtected(w) ELSE userRules[Max(matching)].action = "include"

\* The rules that are built in exclude the shell; the last rule of the user that
\* matches overrides them.
LEMMA DecisionOfUser ==
  ASSUME NEW w, NEW userRules \in Seq(Rules)
  PROVE  (Decision(userRules, w) # "exclude") <=> UserAllows(userRules, w)
<1> DEFINE all == BuiltIn \o userRules
           n == Len(userRules)
           matching == {i \in 1..n : Matches(userRules[i], w)}
           matched == {i \in 1..(n + 2) : Matches(all[i], w)}
<1>1. n \in Nat /\ DOMAIN userRules = 1..n /\ DOMAIN all = 1..(n + 2)
  BY DEF BuiltIn
<1>2. /\ all[1] = Excludes(Unset, "Tray") /\ all[2] = Excludes("Start.exe", "Core")
      /\ \A i \in 1..n : all[i + 2] = userRules[i]
  BY DEF BuiltIn
<1>3. Decision(userRules, w) = IF matched = {} THEN "include" ELSE all[Max(matched)].action
  BY <1>1, DecisionIsLast DEF LastOf
<1> HIDE DEF all, n
<1>4. CASE matching = {}
  <2>1. matched \in SUBSET (1..(n + 2)) /\ \A i \in matched : i \in {1, 2}
    <3>1. ASSUME NEW i \in matched, i \notin {1, 2}
          PROVE  FALSE
      <4>1. i - 2 \in 1..n /\ all[(i - 2) + 2] = userRules[i - 2] /\ (i - 2) + 2 = i
        BY <1>1, <1>2, <3>1
      <4> QED
        BY <1>4, <3>1, <4>1
    <3> QED
      BY <3>1
  <2>2. (Decision(userRules, w) # "exclude") <=> matched = {}
    <3> SUFFICES ASSUME matched # {} PROVE Decision(userRules, w) = "exclude"
      BY <1>3
    <3>1. Max(matched) \in {1, 2}
      <4>1. n + 2 \in Nat
        BY <1>1
      <4>2. Max(matched) \in matched
        BY <2>1, <4>1, LargestOf
      <4> QED
        BY <2>1, <4>2
    <3>2. all[Max(matched)].action = "exclude"
      BY <1>2, <3>1 DEF Excludes
    <3> QED
      BY <1>3, <3>2
  <2>3. matched = {} <=> ~Matches(all[1], w) /\ ~Matches(all[2], w)
    <3>1. 1 \in 1..(n + 2) /\ 2 \in 1..(n + 2)
      BY <1>1
    <3> QED
      BY <2>1, <3>1
  <2>4. (~Matches(all[1], w) /\ ~Matches(all[2], w)) <=> ~IsShellProtected(w)
    BY <1>2 DEF Matches, Excludes, IsShellProtected, Unset
  <2>5. UserAllows(userRules, w) <=> ~IsShellProtected(w)
    BY <1>1, <1>4 DEF UserAllows
  <2> QED
    BY <2>2, <2>3, <2>4, <2>5
<1>5. CASE matching # {}
  <2> DEFINE m == Max(matching)
  <2>1. m \in matching /\ \A i \in matching : i <= m
    <3>1. matching \in SUBSET (1..n)
      OBVIOUS
    <3> QED
      BY <1>1, <1>5, <3>1, LargestOf
  <2> HIDE DEF m
  <2>2. m + 2 \in matched
    BY <1>1, <1>2, <2>1
  <2>3. \A i \in matched : i <= m + 2
    <3>1. ASSUME NEW i \in matched, ~(i <= m + 2)
          PROVE  FALSE
      <4>1. i - 2 \in 1..n /\ all[(i - 2) + 2] = userRules[i - 2] /\ (i - 2) + 2 = i
        BY <1>1, <1>2, <2>1, <3>1
      <4>2. i - 2 \in matching
        BY <3>1, <4>1
      <4> QED
        BY <1>1, <2>1, <3>1, <4>2
    <3> QED
      BY <3>1
  <2>4. Max(matched) = m + 2
    <3>1. n + 2 \in Nat /\ matched \in SUBSET (1..(n + 2))
      BY <1>1
    <3> QED
      BY <2>2, <2>3, <3>1, LargestIs
  <2>5. Decision(userRules, w) = userRules[m].action
    BY <1>2, <1>3, <2>1, <2>2, <2>4
  <2>6. userRules[m].action \in {"include", "exclude"}
    BY <1>1, <2>1, RuleTypes
  <2>7. UserAllows(userRules, w) <=> userRules[m].action = "include"
    BY <1>1, <1>5 DEF UserAllows, m
  <2> QED
    BY <2>5, <2>6, <2>7
<1> QED
  BY <1>4, <1>5

LEMMA DecisionWithoutRules ==
  ASSUME NEW w, NEW userRules \in Seq(Rules), Len(userRules) = 0, Decision(userRules, w) # "exclude"
  PROVE  ~IsShellProtected(w)
<1> DEFINE matching == {i \in DOMAIN userRules : Matches(userRules[i], w)}
<1>1. DOMAIN userRules = 1..0
  OBVIOUS
<1>2. matching = {}
  BY <1>1
<1>3. UserAllows(userRules, w)
  BY DecisionOfUser
<1>4. IF matching = {} THEN ~IsShellProtected(w) ELSE userRules[Max(matching)].action = "include"
  BY <1>3 DEF UserAllows
<1> QED
  BY <1>2, <1>4

LEMMA FlawFound ==
  ASSUME NEW order, NEW n \in Nat, DOMAIN order = 1..n, NEW w,
         \A i \in 1..n : order[i] # "none"
  PROVE  (FirstFlaw(order, w) = "none") <=> (\A i \in 1..n : order[i] \notin w.flaws)
<1> DEFINE found == {i \in DOMAIN order : order[i] \in w.flaws}
<1>1. CASE found = {}
  BY <1>1 DEF FirstFlaw
<1>2. CASE found # {}
  <2>1. found \in SUBSET Nat
    OBVIOUS
  <2>2. Min(found) \in found
    BY <1>2, <2>1, SmallestOf
  <2>3. FirstFlaw(order, w) = order[Min(found)]
    BY <1>2 DEF FirstFlaw
  <2> HIDE DEF found
  <2>4. order[Min(found)] # "none"
    BY <2>2 DEF found
  <2> QED
    BY <2>2, <2>3, <2>4 DEF found
<1> QED
  BY <1>1, <1>2

LEMMA MouseFlaws ==
  ASSUME NEW w
  PROVE  (FirstFlaw(MouseOrder, w) = "none") <=> (w.flaws \cap Flaw = {})
<1>1. /\ DOMAIN MouseOrder = 1..7
      /\ \A i \in 1..7 : MouseOrder[i] # "none"
      /\ Flaw = {MouseOrder[1], MouseOrder[2], MouseOrder[3], MouseOrder[4],
                 MouseOrder[5], MouseOrder[6], MouseOrder[7]}
  BY DEF MouseOrder, Flaw
<1>2. Flaw = {MouseOrder[i] : i \in 1..7}
  BY <1>1
<1>3. (FirstFlaw(MouseOrder, w) = "none") <=> (\A i \in 1..7 : MouseOrder[i] \notin w.flaws)
  BY <1>1, FlawFound
<1> QED
  BY <1>2, <1>3

LEMMA RejectionReasons ==
  ASSUME NEW w
  PROVE  (Rejection(w) = "none")
           <=> /\ w.flaws \cap (Flaw \ {"minimized"}) = {}
               /\ ~IsShellProtected(w)
<1> DEFINE early == <<"invisible", "cloaked">>
           late == <<"child", "toolwindow", "noactivate", "noprocess">>
<1>1. /\ DOMAIN early = 1..2 /\ \A i \in 1..2 : early[i] # "none"
      /\ DOMAIN late = 1..4 /\ \A i \in 1..4 : late[i] # "none"
  OBVIOUS
<1>2. (FirstFlaw(early, w) = "none") <=> (\A i \in 1..2 : early[i] \notin w.flaws)
  BY <1>1, FlawFound
<1>3. (FirstFlaw(late, w) = "none") <=> (\A i \in 1..4 : late[i] \notin w.flaws)
  BY <1>1, FlawFound
<1>4. (FirstFlaw(early, w) = "none") <=> ("invisible" \notin w.flaws /\ "cloaked" \notin w.flaws)
  BY <1>2
<1>5. (FirstFlaw(late, w) = "none")
        <=> /\ "child" \notin w.flaws /\ "toolwindow" \notin w.flaws
            /\ "noactivate" \notin w.flaws /\ "noprocess" \notin w.flaws
  BY <1>3
<1>6. (Rejection(w) = "none")
        <=> FirstFlaw(early, w) = "none" /\ FirstFlaw(late, w) = "none" /\ ~IsShellProtected(w)
  BY DEF Rejection
<1> HIDE DEF early, late
<1> QED
  BY <1>4, <1>5, <1>6 DEF Flaw

\* What was asked was asked of the desktop and of the rules as they are now.
SelectionInv ==
  /\ desktop \in Desktops \cup {<<>>}
  /\ rules \in Seq(Rules)
  /\ grabbed \in {NotAsked, None("no root"), SelectTarget(rules)}
  /\ inspected \in {NotAsked, InspectWindowAtPoint,
                    [candidate |-> FindWindowAtPoint, rejection |-> "no root"]}

LEMMA SameDesktop ==
  ASSUME UNCHANGED <<desktop, rules>>
  PROVE  /\ SelectTarget(rules)' = SelectTarget(rules)
         /\ InspectWindowAtPoint' = InspectWindowAtPoint
         /\ FindWindowAtPoint' = FindWindowAtPoint
<1>1. WindowFromPoint' = WindowFromPoint
  BY DEF WindowFromPoint, Hit
<1>2. FindWindowAtPoint' = FindWindowAtPoint
  BY DEF FindWindowAtPoint
<1>3. SelectTarget(rules)' = SelectTarget(rules)
  BY <1>1 DEF SelectTarget
<1>4. InspectWindowAtPoint' = InspectWindowAtPoint
  BY <1>1, <1>2 DEF InspectWindowAtPoint
<1> QED
  BY <1>2, <1>3, <1>4

LEMMA SelectionStep ==
  ASSUME SelectionInv, SelectionNext
  PROVE  SelectionInv'
<1>1. ASSUME NEW d \in Desktops, NEW r \in BoundedSeq(Rules, MaxRules), Arrange(d, r),
             grabbed = NotAsked, inspected = NotAsked
      PROVE  SelectionInv'
  <2>1. r \in Seq(Rules)
    BY DEF BoundedSeq, SeqOf
  <2> QED
    BY <1>1, <2>1 DEF Arrange, SelectionInv
<1>2. CASE AskMouse
  BY <1>2, SameDesktop DEF AskMouse, SelectionInv
<1>3. CASE AskCursor
  BY <1>3, SameDesktop DEF AskCursor, SelectionInv
<1> QED
  BY <1>1, <1>2, <1>3 DEF SelectionNext

LEMMA SelectionInductive == Spec => []SelectionInv
<1>1. Init => SelectionInv
  BY DEF Init, SelectionInit, SelectionInv
<1>2. SelectionInv /\ [Next]_vars => SelectionInv'
  <2> SUFFICES ASSUME SelectionInv, [Next]_vars
               PROVE  SelectionInv'
    OBVIOUS
  <2>1. CASE Selection
    BY <2>1, SelectionStep DEF Selection
  <2>2. CASE UNCHANGED selectionVars
    BY <2>2, SameDesktop DEF selectionVars, SelectionInv
  <2> QED
    BY <2>1, <2>2 DEF Next, Chords, Lists, Geometry, Ring, vars
<1> QED
  BY <1>1, <1>2, PTL DEF Spec, vars

LEMMA DesktopType ==
  ASSUME SelectionInv
  PROVE  /\ desktop \in Seq(Window)
         /\ Len(desktop) \in Nat /\ DOMAIN desktop = 1..Len(desktop)
         /\ \A i \in DOMAIN desktop : desktop[i].visual => desktop[i].hit
<1>1. CASE desktop \in Desktops
  <2>1. desktop \in Seq(Window)
    BY <1>1, SelectionAssumption
  <2> QED
    BY <1>1, <2>1, SelectionAssumption
<1>2. CASE desktop = <<>>
  BY <1>2
<1> QED
  BY <1>1, <1>2 DEF SelectionInv

\* An answer that names a window was given for the desktop as it is.
LEMMA Answered ==
  ASSUME SelectionInv
  PROVE  /\ grabbed.candidate # NoWindow => grabbed = SelectTarget(rules)
         /\ inspected.candidate # NoWindow =>
              \/ inspected = InspectWindowAtPoint
              \/ inspected.candidate = FindWindowAtPoint
         /\ inspected.rejection \notin {"unasked", "no root"} => inspected = InspectWindowAtPoint
<1>1. NotAsked.candidate = NoWindow /\ NotAsked.rejection = "unasked" /\ None("no root").candidate = NoWindow
  BY DEF NotAsked, None
<1> DEFINE further == [candidate |-> FindWindowAtPoint, rejection |-> "no root"]
<1>2. further.candidate = FindWindowAtPoint /\ further.rejection = "no root"
  OBVIOUS
<1> HIDE DEF further
<1>3. /\ grabbed = NotAsked \/ grabbed = None("no root") \/ grabbed = SelectTarget(rules)
      /\ inspected = NotAsked \/ inspected = InspectWindowAtPoint \/ inspected = further
  BY DEF SelectionInv, further
<1>4. grabbed.candidate # NoWindow => grabbed = SelectTarget(rules)
  BY <1>1, <1>3
<1>5. inspected.candidate # NoWindow =>
        inspected = InspectWindowAtPoint \/ inspected.candidate = FindWindowAtPoint
  BY <1>1, <1>2, <1>3
<1>6. inspected.rejection \notin {"unasked", "no root"} => inspected = InspectWindowAtPoint
  BY <1>1, <1>2, <1>3
<1> QED
  BY <1>4, <1>5, <1>6

LEMMA FrontWindow ==
  ASSUME SelectionInv, WindowFromPoint # NoWindow
  PROVE  /\ WindowFromPoint \in DOMAIN desktop /\ desktop[WindowFromPoint].hit
         /\ \A i \in DOMAIN desktop : i < WindowFromPoint => ~desktop[i].hit
<1>1. DOMAIN desktop \subseteq Nat
  BY DesktopType
<1>2. Hit \in SUBSET Nat /\ Hit # {} /\ WindowFromPoint = Min(Hit)
  BY <1>1 DEF WindowFromPoint, Hit
<1>3. Min(Hit) \in Hit /\ \A i \in Hit : Min(Hit) <= i
  BY <1>2, SmallestOf
<1>4. ASSUME NEW i \in DOMAIN desktop, i < Min(Hit), i \in Hit
      PROVE  FALSE
  <2>1. i \in Nat /\ Min(Hit) \in Nat /\ Min(Hit) <= i
    BY <1>1, <1>2, <1>3, <1>4
  <2> QED
    BY <1>4, <2>1
<1> QED
  BY <1>2, <1>3, <1>4 DEF Hit

LEMMA FoundWindow ==
  ASSUME SelectionInv, FindWindowAtPoint # NoWindow
  PROVE  /\ FindWindowAtPoint \in DOMAIN desktop /\ Found(desktop[FindWindowAtPoint])
         /\ \A i \in DOMAIN desktop : i < FindWindowAtPoint => ~Found(desktop[i])
<1> DEFINE found == {i \in DOMAIN desktop : Found(desktop[i])}
<1>1. DOMAIN desktop \subseteq Nat
  BY DesktopType
<1>2. found \in SUBSET Nat /\ found # {} /\ FindWindowAtPoint = Min(found)
  BY <1>1 DEF FindWindowAtPoint
<1>3. Min(found) \in found /\ \A i \in found : Min(found) <= i
  BY <1>2, SmallestOf
<1>4. ASSUME NEW i \in DOMAIN desktop, i < Min(found), i \in found
      PROVE  FALSE
  <2>1. i \in Nat /\ Min(found) \in Nat /\ Min(found) <= i
    BY <1>1, <1>2, <1>3, <1>4
  <2> QED
    BY <1>4, <2>1
<1> QED
  BY <1>2, <1>3, <1>4

\* What the mouse grabs is the window under the point.
LEMMA Grabbed ==
  ASSUME SelectionInv, grabbed.candidate # NoWindow
  PROVE  LET w == desktop[WindowFromPoint]
         IN  /\ grabbed.candidate = WindowFromPoint /\ WindowFromPoint # NoWindow
             /\ w.flaws \cap Flaw = {} /\ w.visual
             /\ Decision(rules, w) # "exclude"
<1>1. grabbed = SelectTarget(rules)
  BY Answered
<1>2. FirstFlaw(MouseOrder, desktop[WindowFromPoint]) = "none"
  BY <1>1 DEF SelectTarget, None
<1>3. desktop[WindowFromPoint].flaws \cap Flaw = {}
  BY <1>2, MouseFlaws
<1> QED
  BY <1>1, <1>2, <1>3 DEF SelectTarget, None

LEMMA WindowIsThere ==
  ASSUME SelectionInv, NEW i \in DOMAIN desktop
  PROVE  i # NoWindow
BY DesktopType DEF NoWindow

\* Only a window that is grabbable is grabbed.
LEMMA GrabbedIsGrabbable ==
  ASSUME SelectionInv, grabbed.candidate # NoWindow
  PROVE  grabbed.candidate \in DOMAIN desktop /\ Grabbable(grabbed.candidate)
<1> DEFINE i == grabbed.candidate
<1>1. i = WindowFromPoint /\ i # NoWindow
      /\ desktop[i].flaws \cap Flaw = {} /\ desktop[i].visual /\ Decision(rules, desktop[i]) # "exclude"
  BY Grabbed
<1>2. i \in DOMAIN desktop /\ \A j \in DOMAIN desktop : j < i => ~desktop[j].hit
  BY <1>1, FrontWindow
<1>3. desktop[i].flaws = {}
  <2>1. desktop[i] \in Window
    BY <1>2, DesktopType
  <2> QED
    BY <1>1, <2>1 DEF Window
<1>4. \A j \in 1..(i - 1) : j \in DOMAIN desktop /\ j < i
  BY <1>2, DesktopType
<1>5. Allowed(desktop[i])
  <2>1. rules \in Seq(Rules)
    BY DEF SelectionInv
  <2>2. UserAllows(rules, desktop[i])
    BY <1>1, <2>1, DecisionOfUser
  <2> QED
    BY <2>2 DEF UserAllows, Allowed
<1> QED
  BY <1>1, <1>2, <1>3, <1>4, <1>5 DEF Grabbable

\* A window that is grabbable is grabbed when the mouse asks.
LEMMA GrabbableIsGrabbed ==
  ASSUME SelectionInv, NEW i \in DOMAIN desktop, Grabbable(i)
  PROVE  SelectTarget(rules).candidate = i
<1>1. /\ desktop[i].flaws = {} /\ desktop[i].visual /\ desktop[i].hit
      /\ \A j \in DOMAIN desktop : desktop[j].hit => ~(j < i)
  <2>1. \A j \in DOMAIN desktop : j < i => j \in 1..(i - 1)
    BY DesktopType
  <2> QED
    BY <2>1, DesktopType DEF Grabbable
<1>2. WindowFromPoint = i
  <2>1. i \in Hit /\ Hit \subseteq DOMAIN desktop /\ \A j \in Hit : i <= j
    BY <1>1, DesktopType DEF Hit
  <2>2. Hit \in SUBSET Nat /\ Hit # {}
    BY <2>1, DesktopType
  <2>3. Min(Hit) \in Hit /\ Min(Hit) <= i
    BY <2>1, <2>2, SmallestOf
  <2>4. i \in Nat /\ Min(Hit) \in Nat /\ i <= Min(Hit)
    BY <2>1, <2>2, <2>3
  <2>5. Min(Hit) = i
    BY <2>3, <2>4
  <2> QED
    BY <2>2, <2>5 DEF WindowFromPoint
<1>3. FirstFlaw(MouseOrder, desktop[i]) = "none"
  BY <1>1, MouseFlaws
<1>4. Decision(rules, desktop[i]) # "exclude"
  <2>1. rules \in Seq(Rules) /\ UserAllows(rules, desktop[i])
    BY DEF SelectionInv, Grabbable, Allowed, UserAllows
  <2> QED
    BY <2>1, DecisionOfUser
<1>5. i # NoWindow
  BY WindowIsThere
<1> QED
  BY <1>1, <1>2, <1>3, <1>4, <1>5 DEF SelectTarget

(***************************************************************************)
(* SelectTarget grabs a window exactly if it is the topmost one under the  *)
(* cursor, is shown there and the last rule that matches it lets it: a     *)
(* part of the shell only if that is an include of the user, any other     *)
(* window unless it is an exclude: for any desktop and any list of rules.  *)
(***************************************************************************)
THEOREM LastRuleSafe == Spec => []LastRuleDecides
<1>1. SelectionInv => LastRuleDecides
  <2> SUFFICES ASSUME SelectionInv, grabbed.rejection \notin {"unasked", "no root"}
               PROVE  LastRuleDecides
    BY DEF LastRuleDecides
  <2>1. grabbed = SelectTarget(rules)
    <3>1. NotAsked.rejection = "unasked" /\ None("no root").rejection = "no root"
      BY DEF NotAsked, None
    <3>2. grabbed = NotAsked \/ grabbed = None("no root") \/ grabbed = SelectTarget(rules)
      BY DEF SelectionInv
    <3> QED
      BY <3>1, <3>2
  <2>2. grabbed.candidate \in DOMAIN desktop \cup {NoWindow}
    BY GrabbedIsGrabbable
  <2>3. ASSUME NEW i \in DOMAIN desktop, grabbed.candidate = i
        PROVE  Grabbable(i)
    <3>1. i # NoWindow
      BY <2>3, WindowIsThere
    <3> QED
      BY <2>3, <3>1, GrabbedIsGrabbable
  <2>4. ASSUME NEW i \in DOMAIN desktop, Grabbable(i)
        PROVE  grabbed.candidate = i
    BY <2>1, <2>4, GrabbableIsGrabbed
  <2> QED
    BY <2>2, <2>3, <2>4 DEF LastRuleDecides
<1> QED
  BY <1>1, SelectionInductive, PTL

LEMMA SameWindow ==
  ASSUME SelectionInv, grabbed.candidate # NoWindow, rules = <<>>,
         inspected.rejection \notin {"unasked", "no root"}
  PROVE  inspected.candidate = grabbed.candidate
<1> DEFINE w == desktop[WindowFromPoint]
<1>1. inspected = InspectWindowAtPoint
  BY Answered
<1>2. /\ grabbed.candidate = WindowFromPoint /\ WindowFromPoint # NoWindow
      /\ w.flaws \cap Flaw = {} /\ w.visual /\ Decision(rules, w) # "exclude"
  BY Grabbed
<1>3. ~IsShellProtected(w)
  <2>1. rules \in Seq(Rules) /\ Len(rules) = 0
    BY EmptySeq DEF SelectionInv
  <2> QED
    BY <1>2, <2>1, DecisionWithoutRules
<1>4. Rejection(w) = "none" /\ "minimized" \notin w.flaws
  BY <1>2, <1>3, RejectionReasons DEF Flaw
<1>5. InspectWindowAtPoint = [candidate |-> WindowFromPoint, rejection |-> "none"]
  BY <1>2, <1>4 DEF InspectWindowAtPoint
<1> QED
  BY <1>1, <1>2, <1>5

LEMMA FitWindows ==
  ASSUME SelectionInv, NEW i \in DOMAIN desktop
  PROVE  /\ Found(desktop[i]) <=> /\ desktop[i].flaws = {} /\ desktop[i].visual
                                  /\ ~IsShellProtected(desktop[i])
         /\ desktop[i].visual => desktop[i].hit
<1>2. desktop[i] \in Window /\ (desktop[i].visual => desktop[i].hit)
  BY DesktopType
<1>3. desktop[i].flaws \subseteq Flaw
  BY <1>2 DEF Window
<1>4. (Rejection(desktop[i]) = "none")
        <=> desktop[i].flaws \cap (Flaw \ {"minimized"}) = {} /\ ~IsShellProtected(desktop[i])
  BY RejectionReasons
<1>5. (desktop[i].flaws = {})
        <=> "minimized" \notin desktop[i].flaws /\ desktop[i].flaws \cap (Flaw \ {"minimized"}) = {}
  BY <1>3
<1> QED
  BY <1>2, <1>4, <1>5 DEF Found

LEMMA InspectedFits ==
  ASSUME SelectionInv, inspected.candidate # NoWindow
  PROVE  LET fit(w) == w.flaws = {} /\ w.visual /\ ~IsShellProtected(w)
         IN  /\ fit(desktop[inspected.candidate])
             /\ \A i \in 1..(inspected.candidate - 1) : ~fit(desktop[i])
<1> DEFINE fit(w) == w.flaws = {} /\ w.visual /\ ~IsShellProtected(w)
           c == inspected.candidate
<1>1. c \in DOMAIN desktop /\ fit(desktop[c]) /\ \A i \in DOMAIN desktop : i < c => ~fit(desktop[i])
  <2>1. CASE c = FindWindowAtPoint
    <3>1. /\ c \in DOMAIN desktop /\ Found(desktop[c])
          /\ \A i \in DOMAIN desktop : i < c => ~Found(desktop[i])
      BY <2>1, FoundWindow
    <3> QED
      BY <3>1, FitWindows
  <2>2. CASE c # FindWindowAtPoint
    <3> DEFINE w == desktop[WindowFromPoint]
    <3>1. inspected = InspectWindowAtPoint
      BY <2>2, Answered
    <3>2. /\ c = WindowFromPoint /\ WindowFromPoint # NoWindow
          /\ "minimized" \notin w.flaws /\ Rejection(w) = "none" /\ w.visual
      BY <2>2, <3>1 DEF InspectWindowAtPoint, None
    <3>3. /\ c \in DOMAIN desktop /\ \A i \in DOMAIN desktop : i < c => ~desktop[i].hit
      BY <3>2, FrontWindow
    <3>4. Found(desktop[c])
      BY <3>2 DEF Found
    <3> QED
      BY <3>3, <3>4, FitWindows
  <2> QED
    BY <2>1, <2>2
<1>2. \A i \in 1..(c - 1) : i \in DOMAIN desktop /\ i < c
  <2>1. PICK n \in Nat : DOMAIN desktop = 1..n
    BY DesktopType
  <2>2. c \in 1..n
    BY <1>1, <2>1
  <2> QED
    BY <2>1, <2>2
<1> QED
  BY <1>1, <1>2

(***************************************************************************)
(* SelectTarget and InspectWindowAtPoint agree on the window under the     *)
(* cursor, and the second one skips only windows that will not do: for any *)
(* desktop.                                                                *)
(***************************************************************************)
THEOREM RoutinesSafe == Spec => []RoutinesAgree
<1>1. SelectionInv => RoutinesAgree
  BY SameWindow, InspectedFits DEF RoutinesAgree
<1> QED
  BY <1>1, SelectionInductive, PTL

-------------------------------------------------------------------------------
(***************************************************************************)
(* Lists of settings.                                                      *)
(***************************************************************************)

LEMMA ListedLength ==
  ASSUME NEW S, IsFiniteSet(S)
  PROVE  Len(SetToSeq(S)) = Cardinality(S)
<1>1. Cardinality(S) \in Nat /\ ExistsBijection(1..Cardinality(S), S)
  BY FS_CardinalityType
<1>2. PICK f : f \in Bijection(1..Cardinality(S), S)
  BY <1>1 DEF ExistsBijection
<1>3. f \in [1..Cardinality(S) -> S] /\ IsInjective(f)
  BY <1>2 DEF Bijection, Injection, IsInjective
<1>4. SetToSeq(S) \in [1..Cardinality(S) -> S]
  BY <1>3 DEF SetToSeq
<1> QED
  BY <1>1, <1>4

\* The keys of a table without holes are 1 to their number, and the only border of
\* the table is that number.
LEMMA WithoutHoles ==
  ASSUME NEW table, NEW m \in Nat, IntKeys(table) = 1..m
  PROVE  /\ Len(SetToSeq(IntKeys(table))) = m
         /\ \A border \in Borders(table) : border = m
<1>1. IsFiniteSet(1..m) /\ Cardinality(1..m) = m
  BY FS_Interval
<1>2. \A border \in Borders(table) : border = m
  BY DEF Borders
<1> QED
  BY <1>1, <1>2, ListedLength

LEMMA KeysCounted ==
  ASSUME NEW table
  PROVE  /\ IntKeys(table) \in SUBSET (1..MaxIndex)
         /\ Len(SetToSeq(IntKeys(table))) \in Nat
<1>1. IsFiniteSet(1..MaxIndex)
  BY TableAssumption, FS_Interval
<1>2. IntKeys(table) \in SUBSET (1..MaxIndex)
  BY DEF IntKeys, Index
<1>3. IsFiniteSet(IntKeys(table))
  BY <1>1, <1>2, FS_Subset
<1> QED
  BY <1>2, <1>3, ListedLength, FS_CardinalityType

\* What the three readers ask of a table, whichever border they are given
Proper(field, table) ==
  LET ints == IntKeys(table)
      n == Len(SetToSeq(ints))
      extra == IF field = "grab_filters" /\ 1 \in ints THEN {Quoted} ELSE {}
  IN  /\ ints = 1..n
      /\ OtherKeys(table) \subseteq extra
      /\ \A i \in ints : table[i] # Bad
      /\ field = "colors" => n \in 1..MaxColors

LEMMA AcceptedIsProper ==
  ASSUME NEW field \in Fields, NEW table, NEW border \in Borders(table), Accepts(field, table, border)
  PROVE  Proper(field, table)
<1> DEFINE ints == IntKeys(table)
<1>1. border \in Nat /\ ints \in SUBSET (1..MaxIndex)
  BY KeysCounted DEF Borders
<1>2. CASE field = "colors"
  <2>1. /\ OtherKeys(table) = {} /\ ints # {}
        /\ \A k \in ints : k <= MaxColors /\ table[k] # Bad
        /\ \A i \in 1..Max(ints) : i \in ints
    BY <1>2 DEF Accepts, PaletteAccepts
  <2>2. Max(ints) \in ints /\ \A i \in ints : i <= Max(ints)
    BY <1>1, <2>1, TableAssumption, LargestOf
  <2> DEFINE m == Max(ints)
  <2> HIDE DEF m
  <2>3. m \in Nat /\ m \in 1..MaxColors /\ ints = 1..m
    <3>1. m \in ints /\ (\A i \in ints : i <= m) /\ (\A i \in 1..m : i \in ints)
      BY <2>1, <2>2 DEF m
    <3>2. m \in Nat /\ 1 <= m /\ m <= MaxColors
      BY <1>1, <2>1, <3>1
    <3>3. \A i \in ints : i \in 1..m
      BY <1>1, <3>1, <3>2
    <3>4. ints = 1..m
      BY <3>1, <3>3
    <3>5. m \in 1..MaxColors
      BY <3>2, TableAssumption
    <3> QED
      BY <3>2, <3>4, <3>5
  <2>4. Len(SetToSeq(ints)) = m
    BY <2>3, WithoutHoles
  <2> QED
    BY <1>2, <2>1, <2>3, <2>4 DEF Proper
<1>3. CASE field \in {"grab_filters", "debug"}
  <2>1. /\ Listed(table, border) /\ ints \subseteq 1..border
        /\ OtherKeys(table) \subseteq IF field = "grab_filters" /\ border >= 1 THEN {Quoted} ELSE {}
    <3>1. CASE field = "grab_filters"
      BY <3>1 DEF Accepts, FiltersAccept
    <3>2. CASE field = "debug"
      BY <3>2 DEF Accepts, DebugAccepts
    <3> QED
      BY <1>3, <3>1, <3>2
  <2>2. ints = 1..border /\ \A i \in ints : table[i] # Bad
    BY <1>1, <2>1 DEF Listed
  <2>3. Len(SetToSeq(ints)) = border
    BY <1>1, <2>2, WithoutHoles
  <2>4. border >= 1 <=> 1 \in ints
    BY <1>1, <2>2
  <2> QED
    BY <1>3, <2>1, <2>2, <2>3, <2>4 DEF Proper
<1> QED
  BY <1>2, <1>3 DEF Fields

LEMMA ProperIsAccepted ==
  ASSUME NEW field \in Fields, NEW table, NEW border \in Borders(table), Proper(field, table)
  PROVE  /\ Accepts(field, table, border)
         /\ border = Len(SetToSeq(IntKeys(table)))
<1> DEFINE ints == IntKeys(table)
           n == Len(SetToSeq(ints))
<1>1. n \in Nat /\ ints \in SUBSET (1..MaxIndex)
  BY KeysCounted
<1>2. /\ ints = 1..n
      /\ OtherKeys(table) \subseteq IF field = "grab_filters" /\ 1 \in ints THEN {Quoted} ELSE {}
      /\ \A i \in ints : table[i] # Bad
      /\ field = "colors" => n \in 1..MaxColors
  BY DEF Proper
<1>3. border = n
  BY <1>1, <1>2, WithoutHoles
<1> HIDE DEF ints, n
<1>4. CASE field = "colors"
  <2>1. n \in ints /\ \A i \in ints : i <= n
    BY <1>1, <1>2, <1>4
  <2>2. Max(ints) = n
    BY <1>1, <2>1, TableAssumption, LargestIs
  <2>3. OtherKeys(table) = {}
    BY <1>2, <1>4
  <2>4. \A k \in ints : k <= MaxColors /\ table[k] # Bad
    BY <1>1, <1>2, <1>4, TableAssumption
  <2>5. ints # {} /\ \A i \in 1..Max(ints) : i \in ints
    BY <1>2, <2>1, <2>2
  <2>6. PaletteAccepts(table)
    BY <2>3, <2>4, <2>5 DEF PaletteAccepts, ints
  <2> QED
    BY <1>3, <1>4, <2>6 DEF Accepts, n, ints
<1>5. CASE field = "grab_filters"
  <2>1. Listed(table, border) /\ ints \subseteq 1..border
    BY <1>1, <1>2, <1>3 DEF Listed, ints
  <2>2. OtherKeys(table) \subseteq {Quoted} /\ (OtherKeys(table) # {} => border >= 1)
    BY <1>1, <1>2, <1>3, <1>5
  <2>3. FiltersAccept(table, border)
    BY <2>1, <2>2 DEF FiltersAccept, ints
  <2> QED
    BY <1>3, <1>5, <2>3 DEF Accepts, n, ints
<1>6. CASE field = "debug"
  <2>1. Listed(table, border) /\ ints \subseteq 1..border
    BY <1>1, <1>2, <1>3 DEF Listed, ints
  <2>2. OtherKeys(table) = {}
    BY <1>2, <1>6
  <2>3. DebugAccepts(table, border)
    BY <2>1, <2>2 DEF DebugAccepts, ints
  <2> QED
    BY <1>3, <1>6, <2>3 DEF Accepts, n, ints
<1> QED
  BY <1>4, <1>5, <1>6 DEF Fields

\* The last assignment was of some table, read up to some border of it.
Assigned(border) ==
  LET table == assigned.table
      field == assigned.field
  IN  /\ assigned.accepted \in BOOLEAN
      /\ assigned.accepted <=> Accepts(field, table, border)
      /\ assigned.accepted => lists[field] = ListOf(field, table, border)

TablesInv ==
  /\ DOMAIN lists = Fields
  /\ assigned.field # "none" =>
       /\ assigned.field \in Fields
       /\ \E border \in Borders(assigned.table) : Assigned(border)

LEMMA TablesStep ==
  ASSUME TablesInv, TablesNext
  PROVE  TablesInv'
<1>1. PICK field \in Fields, table \in Tables : Assign(field, table)
  BY DEF TablesNext
<1>2. PICK border \in Borders(table) :
        LET accepted == Accepts(field, table, border)
        IN  /\ lists' = IF accepted THEN [lists EXCEPT ![field] = ListOf(field, table, border)] ELSE lists
            /\ assigned' = [field |-> field, table |-> table, accepted |-> accepted]
  BY <1>1 DEF Assign
<1>3. assigned'.field = field /\ assigned'.table = table
  BY <1>2
<1>4. assigned'.accepted = Accepts(field, table, border)
  BY <1>2
<1>5. DOMAIN lists' = Fields
  BY <1>2 DEF TablesInv
<1>6. Accepts(field, table, border) => lists'[field] = ListOf(field, table, border)
  BY <1>2 DEF TablesInv
<1>7. Accepts(field, table, border) \in BOOLEAN
  BY DEF Accepts, Fields, PaletteAccepts, FiltersAccept, DebugAccepts
<1>8. Assigned(border)'
  BY <1>3, <1>4, <1>6, <1>7 DEF Assigned
<1> QED
  BY <1>3, <1>5, <1>8 DEF TablesInv

LEMMA TablesInductive == Spec => []TablesInv
<1>1. Init => TablesInv
  <2> SUFFICES ASSUME TablesInit PROVE TablesInv
    BY DEF Init
  <2>1. DOMAIN lists = Fields
    BY DEF TablesInit
  <2>2. assigned.field = "none"
    BY DEF TablesInit
  <2> QED
    BY <2>1, <2>2 DEF TablesInv
<1>2. TablesInv /\ [Next]_vars => TablesInv'
  <2> SUFFICES ASSUME TablesInv, [Next]_vars
               PROVE  TablesInv'
    OBVIOUS
  <2>1. CASE Lists
    BY <2>1, TablesStep DEF Lists
  <2>2. CASE UNCHANGED tablesVars
    BY <2>2 DEF tablesVars, TablesInv, Assigned
  <2> QED
    BY <2>1, <2>2 DEF Next, Chords, Selection, Geometry, Ring, vars
<1> QED
  BY <1>1, <1>2, PTL DEF Spec, vars

LEMMA ReadWhole ==
  ASSUME TablesInv
  PROVE  TablesReadWhole
<1> SUFFICES ASSUME assigned.field # "none" PROVE TablesReadWhole
  BY DEF TablesReadWhole
<1> DEFINE table == assigned.table
           field == assigned.field
           n == Len(SetToSeq(IntKeys(table)))
           list == [i \in 1..n |-> table[i]]
<1>1. field \in Fields /\ \E border \in Borders(table) : Assigned(border)
  BY DEF TablesInv
<1>2. PICK border \in Borders(table) : Assigned(border)
  BY <1>1
<1>3. assigned.accepted <=> Proper(field, table)
  BY <1>1, <1>2, AcceptedIsProper, ProperIsAccepted DEF Assigned
<1>4. ASSUME Proper(field, table)
      PROVE  Push(field, lists[field]) = IF field = "debug" THEN SetToSeq(ToSet(list)) ELSE list
  <2>1. Accepts(field, table, border) /\ border = n
    BY <1>1, <1>4, ProperIsAccepted
  <2>2. lists[field] = ListOf(field, table, n)
    BY <1>2, <2>1 DEF Assigned
  <2>3. CASE field = "debug"
    <3>1. ToSet(list) = {table[i] : i \in 1..n}
      BY DEF ToSet
    <3>2. lists[field] = {table[i] : i \in 1..n}
      BY <2>2, <2>3 DEF ListOf
    <3> QED
      BY <2>3, <3>1, <3>2 DEF Push
  <2>4. CASE field # "debug"
    BY <2>2, <2>4 DEF Push, ListOf
  <2> QED
    BY <2>3, <2>4
<1> QED
  BY <1>3, <1>4 DEF TablesReadWhole, Proper

(***************************************************************************)
(* The readers of colors, grab_filters and debug accept exactly the tables *)
(* that are lists of good values, and store all of what they accept: for   *)
(* any values, any number of keys and whichever border of a table with     *)
(* holes lua_objlen returns.                                               *)
(***************************************************************************)
THEOREM TablesSafe == Spec => []TablesReadWhole
<1>1. TablesInv => TablesReadWhole
  BY ReadWhole
<1> QED
  BY <1>1, TablesInductive, PTL

-------------------------------------------------------------------------------
(***************************************************************************)
(* Chords.                                                                 *)
(***************************************************************************)

\* The names of families, of modifiers and of keys differ; every modifier is of one family.
LEMMA NamesDiffer ==
  /\ DOMAIN Family = {"SHIFT", "CTRL", "ALT"} /\ DOMAIN NamedKey = {"A", "RETURN", "ENTER", "PAUSE"}
  /\ DOMAIN Family \cap Modifier = {}
  /\ DOMAIN Family \cap DOMAIN NamedKey = {}
  /\ Modifier \cap DOMAIN NamedKey = {}
BY DEF Modifier, Family, NamedKey

LEMMA FamiliesPart ==
  /\ \A f \in DOMAIN Family : Family[f] \subseteq Modifier
  /\ \A m \in Modifier : \E f \in DOMAIN Family : m \in Family[f]
  /\ \A f, g \in DOMAIN Family : Family[f] \cap Family[g] # {} => f = g
<1>1. /\ DOMAIN Family = {"SHIFT", "CTRL", "ALT"}
      /\ Family["SHIFT"] = {"LSHIFT", "RSHIFT"} /\ Family["CTRL"] = {"LCTRL", "RCTRL"}
      /\ Family["ALT"] = {"LALT", "RALT"}
  BY DEF Family
<1>2. \A f \in DOMAIN Family : Family[f] \subseteq Modifier
  BY <1>1 DEF Modifier
<1>3. \A m \in Modifier : \E f \in DOMAIN Family : m \in Family[f]
  BY <1>1 DEF Modifier
<1>4. \A f, g \in DOMAIN Family : Family[f] \cap Family[g] # {} => f = g
  BY <1>1
<1> QED
  BY <1>2, <1>3, <1>4

LEMMA KeyTypes ==
  /\ \A name \in DOMAIN NamedKey : NamedKey[name] \in Key
  /\ NoKey \notin Key /\ "error" \notin Key /\ NoKey # "error"
<1>1. \A name \in DOMAIN NamedKey : NamedKey[name] \in {"VK_A", "VK_RETURN", "VK_PAUSE"}
  BY DEF NamedKey
<1> QED
  BY <1>1 DEF Key, NoKey

\* The tokens of a text at the places s, and those of them that name a key
TokensAt(text, s) == {text[i] : i \in s}
KeysAt(text, s) == {i \in s : text[i] \in DOMAIN NamedKey}

WellFormed(text, s) ==
  /\ TokensAt(text, s) \subseteq DOMAIN Family \cup Modifier \cup DOMAIN NamedKey
  /\ \A i, j \in KeysAt(text, s) : i = j

ParsedAt(text, s) ==
  IF WellFormed(text, s)
  THEN [vk |-> IF KeysAt(text, s) = {} THEN NoKey ELSE NamedKey[text[Max(KeysAt(text, s))]],
        concrete |-> TokensAt(text, s) \cap Modifier,
        generic |-> TokensAt(text, s) \cap DOMAIN Family]
  ELSE Invalid

\* The loop over the tokens keeps the sets of modifiers and the only key.
LEMMA ParsedStep ==
  ASSUME NEW text, NEW n \in Nat, NEW s \in SUBSET (1..n), NEW x \in s
  PROVE  ParsedAt(text, s) = ApplyToken(ParsedAt(text, s \ {x}), text[x])
<1> DEFINE r == s \ {x}
           t == text[x]
           p == ParsedAt(text, r)
<1>1. TokensAt(text, s) = TokensAt(text, r) \cup {t}
  BY DEF TokensAt
<1>2. KeysAt(text, s) = IF t \in DOMAIN NamedKey THEN KeysAt(text, r) \cup {x} ELSE KeysAt(text, r)
  BY DEF KeysAt
<1>3. x \notin KeysAt(text, r) /\ KeysAt(text, r) \subseteq 1..n
  BY DEF KeysAt
<1> HIDE DEF r, t
<1>4. CASE ~WellFormed(text, r)
  <2>1. p = Invalid
    BY <1>4 DEF ParsedAt
  <2>2. ~WellFormed(text, s)
    BY <1>1, <1>2, <1>4 DEF WellFormed
  <2>3. ParsedAt(text, s) = Invalid
    BY <2>2 DEF ParsedAt
  <2> QED
    BY <2>1, <2>3 DEF ApplyToken, r, t
<1>5. CASE WellFormed(text, r)
  <2> DEFINE vk == IF KeysAt(text, r) = {} THEN NoKey ELSE NamedKey[text[Max(KeysAt(text, r))]]
  <2>1. p = [vk |-> vk, concrete |-> TokensAt(text, r) \cap Modifier,
             generic |-> TokensAt(text, r) \cap DOMAIN Family]
    BY <1>5 DEF ParsedAt
  <2>2. KeysAt(text, r) # {} => vk \in Key
    <3> SUFFICES ASSUME KeysAt(text, r) # {} PROVE vk \in Key
      OBVIOUS
    <3>1. Max(KeysAt(text, r)) \in KeysAt(text, r)
      BY <1>3, LargestOf
    <3>2. text[Max(KeysAt(text, r))] \in DOMAIN NamedKey
      BY <3>1 DEF KeysAt
    <3> QED
      BY <3>2, KeyTypes
  <2> HIDE DEF vk
  <2>3. vk = NoKey \/ vk \in Key
    BY <2>2 DEF vk
  <2>4. p # Invalid
    <3>1. p.vk = vk /\ Invalid.vk = "error"
      BY <2>1 DEF Invalid
    <3>2. vk # "error"
      BY <2>3, KeyTypes
    <3> QED
      BY <3>1, <3>2
  <2>5. p.vk = NoKey <=> KeysAt(text, r) = {}
    <3>1. p.vk = vk
      BY <2>1
    <3> QED
      BY <2>2, <3>1, KeyTypes DEF vk
  <2> HIDE DEF p
  <2>6. CASE t \in DOMAIN Family
    <3>1. WellFormed(text, s) /\ KeysAt(text, s) = KeysAt(text, r)
      BY <1>1, <1>2, <1>5, <2>6, NamesDiffer DEF WellFormed
    <3>2. /\ TokensAt(text, s) \cap Modifier = TokensAt(text, r) \cap Modifier
          /\ TokensAt(text, s) \cap DOMAIN Family = (TokensAt(text, r) \cap DOMAIN Family) \cup {t}
      BY <1>1, <2>6, NamesDiffer
    <3>3. ParsedAt(text, s) = [vk |-> vk, concrete |-> TokensAt(text, r) \cap Modifier,
                               generic |-> (TokensAt(text, r) \cap DOMAIN Family) \cup {t}]
      BY <3>1, <3>2 DEF ParsedAt, vk
    <3>4. ApplyToken(p, t) = [p EXCEPT !.generic = @ \cup {t}]
      BY <2>4, <2>6, NamesDiffer DEF ApplyToken
    <3>5. ApplyToken(p, t) = ParsedAt(text, s)
      BY <2>1, <3>3, <3>4
    <3> QED
      BY <3>5 DEF p, r, t
  <2>7. CASE t \in Modifier
    <3>1. WellFormed(text, s) /\ KeysAt(text, s) = KeysAt(text, r)
      BY <1>1, <1>2, <1>5, <2>7, NamesDiffer DEF WellFormed
    <3>2. /\ TokensAt(text, s) \cap Modifier = (TokensAt(text, r) \cap Modifier) \cup {t}
          /\ TokensAt(text, s) \cap DOMAIN Family = TokensAt(text, r) \cap DOMAIN Family
      BY <1>1, <2>7, NamesDiffer
    <3>3. ParsedAt(text, s) = [vk |-> vk, concrete |-> (TokensAt(text, r) \cap Modifier) \cup {t},
                               generic |-> TokensAt(text, r) \cap DOMAIN Family]
      BY <3>1, <3>2 DEF ParsedAt, vk
    <3>4. ApplyToken(p, t) = [p EXCEPT !.concrete = @ \cup {t}]
      BY <2>4, <2>7, NamesDiffer DEF ApplyToken
    <3>5. ApplyToken(p, t) = ParsedAt(text, s)
      BY <2>1, <3>3, <3>4
    <3> QED
      BY <3>5 DEF p, r, t
  <2>8. CASE t \in DOMAIN NamedKey /\ KeysAt(text, r) = {}
    <3>1. KeysAt(text, s) = {x} /\ WellFormed(text, s)
      BY <1>1, <1>2, <1>5, <2>8 DEF WellFormed
    <3>2. Max({x}) = x
      <4>1. {x} \in SUBSET (1..n) /\ \A i \in {x} : i <= x
        OBVIOUS
      <4> QED
        BY <4>1, LargestIs
    <3>3. /\ TokensAt(text, s) \cap Modifier = TokensAt(text, r) \cap Modifier
          /\ TokensAt(text, s) \cap DOMAIN Family = TokensAt(text, r) \cap DOMAIN Family
      BY <1>1, <2>8, NamesDiffer
    <3>4. ParsedAt(text, s) = [vk |-> NamedKey[t], concrete |-> TokensAt(text, r) \cap Modifier,
                               generic |-> TokensAt(text, r) \cap DOMAIN Family]
      BY <3>1, <3>2, <3>3 DEF ParsedAt, t
    <3>5. ApplyToken(p, t) = [p EXCEPT !.vk = NamedKey[t]]
      BY <2>4, <2>5, <2>8, NamesDiffer DEF ApplyToken
    <3>6. ApplyToken(p, t) = ParsedAt(text, s)
      BY <2>1, <3>4, <3>5
    <3> QED
      BY <3>6 DEF p, r, t
  <2>9. CASE t \in DOMAIN NamedKey /\ KeysAt(text, r) # {}
    <3>1. ~WellFormed(text, s)
      BY <1>2, <1>3, <2>9 DEF WellFormed
    <3>2. ApplyToken(p, t) = Invalid
      BY <2>4, <2>5, <2>9, NamesDiffer DEF ApplyToken
    <3> QED
      BY <3>1, <3>2 DEF ParsedAt, p, r, t
  <2>10. CASE t \notin DOMAIN Family \cup Modifier \cup DOMAIN NamedKey
    <3>1. ~WellFormed(text, s)
      BY <1>1, <2>10 DEF WellFormed
    <3>2. ApplyToken(p, t) = Invalid
      BY <2>4, <2>10 DEF ApplyToken
    <3> QED
      BY <3>1, <3>2 DEF ParsedAt, p, r, t
  <2> QED
    BY <2>6, <2>7, <2>8, <2>9, <2>10
<1> QED
  BY <1>4, <1>5

\* What the loop over all the tokens returns
LEMMA ParseIs ==
  ASSUME NEW n \in Nat, NEW text, DOMAIN text = 1..n
  PROVE  FoldLeft(ApplyToken, Empty, text) = ParsedAt(text, 1..n)
<1> DEFINE Fold(it) == [s \in SUBSET DOMAIN text |->
                          IF s = {} THEN Empty ELSE ApplyToken(it[s \ {Max(s)}], text[Max(s)])]
           it == CHOOSE f : f = Fold(f)
           parsed == [s \in SUBSET DOMAIN text |-> ParsedAt(text, s)]
<1>1. FoldLeft(ApplyToken, Empty, text) = it[DOMAIN text]
  BY DEF FoldLeft, MapThenFoldSet
<1>2. ParsedAt(text, {}) = Empty
  <2>1. TokensAt(text, {}) = {} /\ KeysAt(text, {}) = {}
    BY DEF TokensAt, KeysAt
  <2>2. WellFormed(text, {})
    BY <2>1 DEF WellFormed
  <2> QED
    BY <2>1, <2>2 DEF ParsedAt, Empty
<1>3. ASSUME NEW s \in SUBSET (1..n), s # {}
      PROVE  ParsedAt(text, s) = ApplyToken(ParsedAt(text, s \ {Max(s)}), text[Max(s)])
  <2>1. Max(s) \in s
    BY <1>3, LargestOf
  <2> QED
    BY <2>1, ParsedStep
<1>4. parsed = Fold(parsed)
  BY <1>2, <1>3
<1>5. it = Fold(it)
  BY <1>4
<1> HIDE DEF it
<1>6. it[{}] = parsed[{}]
  BY <1>2, <1>5
<1>7. ASSUME NEW s \in SUBSET (1..n), s # {}, it[s \ {Max(s)}] = parsed[s \ {Max(s)}]
      PROVE  it[s] = parsed[s]
  <2>1. it[s] = ApplyToken(it[s \ {Max(s)}], text[Max(s)])
    BY <1>5, <1>7
  <2>2. parsed[s] = ApplyToken(parsed[s \ {Max(s)}], text[Max(s)])
    BY <1>3, <1>7
  <2> QED
    BY <1>7, <2>1, <2>2
<1> HIDE DEF parsed
<1>8. it[1..n] = parsed[1..n]
  BY <1>6, <1>7, SameSteps
<1> QED
  BY <1>1, <1>8 DEF parsed

\* A text that is not refused names one key, and binds that key with every choice of a side.
LEMMA ParsedWhole ==
  ASSUME NEW n \in Nat, NEW text, DOMAIN text = 1..n, ParseKeyBinding(text) # {}
  PROVE  /\ \E name \in ToSet(text) \cap DOMAIN NamedKey :
              ParseKeyBinding(text) =
                ExpandGeneric([vk |-> NamedKey[name], concrete |-> ToSet(text) \cap Modifier,
                               generic |-> ToSet(text) \cap DOMAIN Family])
         /\ \A n1, n2 \in ToSet(text) \cap DOMAIN NamedKey : n1 = n2
<1> DEFINE all == 1..n
           parsed == ParsedAt(text, all)
           keys == KeysAt(text, all)
<1>1. ParseKeyBinding(text) = IF parsed.vk \in Key THEN ExpandGeneric(parsed) ELSE {}
  BY ParseIs DEF ParseKeyBinding
<1>2. parsed.vk \in Key /\ ParseKeyBinding(text) = ExpandGeneric(parsed)
  BY <1>1
<1>3. WellFormed(text, all)
  BY <1>2, KeyTypes DEF ParsedAt, Invalid
<1>4. parsed = [vk |-> IF keys = {} THEN NoKey ELSE NamedKey[text[Max(keys)]],
                concrete |-> TokensAt(text, all) \cap Modifier,
                generic |-> TokensAt(text, all) \cap DOMAIN Family]
  BY <1>3 DEF ParsedAt
<1>5. ToSet(text) = TokensAt(text, all)
  BY DEF ToSet, TokensAt
<1> HIDE DEF parsed
<1>6. keys # {}
  BY <1>2, <1>4, KeyTypes
<1>7. Max(keys) \in keys
  <2>1. keys \in SUBSET (1..n)
    BY DEF KeysAt
  <2> QED
    BY <1>6, <2>1, LargestOf
<1> DEFINE name == text[Max(keys)]
<1>8. name \in ToSet(text) \cap DOMAIN NamedKey
  BY <1>5, <1>7 DEF KeysAt, TokensAt
<1>9. parsed = [vk |-> NamedKey[name], concrete |-> ToSet(text) \cap Modifier,
                generic |-> ToSet(text) \cap DOMAIN Family]
  BY <1>4, <1>5, <1>6
<1>10. ASSUME NEW n1 \in ToSet(text) \cap DOMAIN NamedKey, NEW n2 \in ToSet(text) \cap DOMAIN NamedKey
       PROVE  n1 = n2
  <2>1. PICK i \in all, j \in all : n1 = text[i] /\ n2 = text[j]
    BY <1>5 DEF TokensAt
  <2>2. i \in KeysAt(text, all) /\ j \in KeysAt(text, all)
    BY <2>1 DEF KeysAt
  <2>3. i = j
    BY <1>3, <2>2 DEF WellFormed
  <2> QED
    BY <2>1, <2>3
<1> HIDE DEF name, keys, all
<1> QED
  BY <1>2, <1>8, <1>9, <1>10

\* The events that a text binds are those that it stands for.
LEMMA BindsMeaning ==
  ASSUME NEW n \in Nat, NEW text, DOMAIN text = 1..n, ParseKeyBinding(text) # {},
         NEW event \in Event
  PROVE  StandsFor(text, event) <=> event \in ParseKeyBinding(text)
<1> DEFINE named == ToSet(text)
           concrete == named \cap Modifier
           generic == named \cap DOMAIN Family
           held(f) == Family[f] \cap event.modifiers
           sided(f) == Family[f] \cap named
           Sides == {s \in [generic -> Modifier] : \A f \in generic : s[f] \in Family[f]}
           SidesFit == \A f \in DOMAIN Family :
             /\ sided(f) \subseteq held(f)
             /\ IF f \in named THEN held(f) # {} /\ \E m \in held(f) : held(f) \subseteq sided(f) \cup {m}
                ELSE held(f) = sided(f)
           Expanded == \E side \in Sides : event.modifiers = concrete \cup {side[f] : f \in generic}
<1>1. PICK name \in named \cap DOMAIN NamedKey :
        /\ ParseKeyBinding(text) =
             ExpandGeneric([vk |-> NamedKey[name], concrete |-> concrete, generic |-> generic])
        /\ \A other \in named \cap DOMAIN NamedKey : other = name
  BY ParsedWhole
<1>2. event = [vk |-> event.vk, modifiers |-> event.modifiers] /\ event.modifiers \subseteq Modifier
  BY DEF Event
<1>3. StandsFor(text, event) <=> NamedKey[name] = event.vk /\ SidesFit
  BY <1>1 DEF StandsFor
<1>4. event \in ParseKeyBinding(text) <=> NamedKey[name] = event.vk /\ Expanded
  <2>1. ParseKeyBinding(text) =
          {[vk |-> NamedKey[name], modifiers |-> concrete \cup {side[f] : f \in generic}] : side \in Sides}
    BY <1>1 DEF ExpandGeneric
  <2> HIDE DEF Sides, concrete, generic, named
  <2> QED
    BY <1>2, <2>1
<1>5. ASSUME Expanded PROVE SidesFit
  <2>1. PICK side \in Sides : event.modifiers = concrete \cup {side[f] : f \in generic}
    BY <1>5
  <2> TAKE f \in DOMAIN Family
  <2>2. Family[f] \subseteq Modifier /\ sided(f) = Family[f] \cap concrete
    BY FamiliesPart
  <2>3. sided(f) \subseteq held(f)
    BY <2>1, <2>2
  <2>4. \A x \in held(f) : x \in sided(f) \/ (f \in generic /\ x = side[f])
    <3> TAKE x \in held(f)
    <3>1. x \in concrete \/ \E g \in generic : x = side[g]
      BY <2>1
    <3>2. ASSUME NEW g \in generic, x = side[g] PROVE f = g
      BY <3>2, FamiliesPart
    <3> QED
      BY <2>2, <3>1, <3>2
  <2>5. CASE f \in named
    <3>1. side[f] \in held(f)
      BY <2>1, <2>5
    <3> QED
      BY <2>3, <2>4, <2>5, <3>1
  <2>6. CASE f \notin named
    BY <2>3, <2>4, <2>6
  <2> QED
    BY <2>5, <2>6
<1>6. ASSUME SidesFit PROVE Expanded
  <2> DEFINE fits(f, m) == held(f) \subseteq sided(f) \cup {m}
             side == [f \in generic |-> CHOOSE m \in held(f) : fits(f, m)]
  <2>1. \A f \in generic : \E m \in held(f) : fits(f, m)
    BY <1>6
  <2>2. \A f \in generic : side[f] \in held(f) /\ fits(f, side[f])
    BY <2>1
  <2> HIDE DEF side
  <2>3. \A f \in generic : side[f] \in Family[f] /\ side[f] \in event.modifiers /\ side[f] \in Modifier
    BY <1>2, <2>2
  <2>4. side \in Sides
    BY <2>3 DEF side
  <2>5. ASSUME NEW x \in event.modifiers PROVE x \in concrete \cup {side[f] : f \in generic}
    <3>1. x \in Modifier
      BY <1>2
    <3>2. PICK f \in DOMAIN Family : x \in Family[f]
      BY <3>1, FamiliesPart
    <3>3. x \in held(f)
      BY <3>2
    <3>4. CASE f \in named
      BY <2>2, <3>1, <3>3, <3>4
    <3>5. CASE f \notin named
      BY <1>6, <3>1, <3>3, <3>5
    <3> QED
      BY <3>4, <3>5
  <2>6. concrete \subseteq event.modifiers
    <3> SUFFICES ASSUME NEW x \in concrete PROVE x \in event.modifiers
      OBVIOUS
    <3>1. PICK f \in DOMAIN Family : x \in Family[f]
      BY FamiliesPart
    <3> QED
      BY <1>6, <3>1
  <2>7. event.modifiers = concrete \cup {side[f] : f \in generic}
    BY <2>3, <2>5, <2>6
  <2> QED
    BY <2>4, <2>7
<1> HIDE DEF SidesFit, Expanded
<1> QED
  BY <1>3, <1>4, <1>5, <1>6

LEMMA TextLength ==
  ASSUME NEW text \in Text
  PROVE  \E n \in Nat : DOMAIN text = 1..n
<1>1. CASE text \in BoundedSeq(Token, MaxTokens)
  <2>1. PICK n \in 0..MaxTokens : text \in [1..n -> Token]
    BY <1>1 DEF BoundedSeq, SeqOf
  <2>2. n \in Nat
    BY <2>1, ChordAssumption
  <2> QED
    BY <2>1, <2>2
<1>2. CASE text \in LongText
  <2>0. PICK n \in 7..9, m \in Generics, name \in Names : text = Repeated(m, n, name)
    BY <1>2 DEF LongText
  <2>1. text = [i \in 1..n |-> m] \o <<name>>
    BY <2>0 DEF Repeated
  <2>2. [i \in 1..n |-> m] \in Seq(Generics) /\ <<name>> \in Seq(Names) /\ Len([i \in 1..n |-> m]) = n
    BY <2>1
  <2>3. DOMAIN text = 1..(n + 1)
    BY <2>1, <2>2
  <2> QED
    BY <2>1, <2>3
<1> QED
  BY <1>1, <1>2 DEF Text

\* The texts bound that bind an event, and what the registry holds for it
Binding(event) == {i \in DOMAIN texts : event \in ParseKeyBinding(texts[i])}
Latest(event) ==
  IF Binding(event) = {} THEN event \notin DOMAIN binds
  ELSE event \in DOMAIN binds /\ binds[event] \in Binding(event)
         /\ \A i \in Binding(event) : i <= binds[event]

ChordsInv ==
  /\ texts \in Seq(Bindable)
  /\ \A event \in Event : Latest(event)

LEMMA BindKeepsLatest ==
  ASSUME ChordsInv, NEW text \in Bindable, Bind(text)
  PROVE  ChordsInv'
<1> DEFINE events == ParseKeyBinding(text)
           n == Len(texts) + 1
<1>1. /\ binds' = [e \in DOMAIN binds \cup events |-> IF e \in events THEN n ELSE binds[e]]
      /\ texts' = Append(texts, text)
  BY DEF Bind
<1>2. texts \in Seq(Bindable) /\ texts' \in Seq(Bindable)
  BY <1>1 DEF ChordsInv
<1>3. /\ DOMAIN texts = 1..(n - 1) /\ DOMAIN texts' = 1..n /\ n \in Nat
      /\ texts'[n] = text /\ \A i \in 1..(n - 1) : texts'[i] = texts[i]
  BY <1>1, <1>2
<1> HIDE DEF events, n
<1>4. ASSUME NEW event \in Event PROVE Latest(event)'
  <2>1. Latest(event)
    BY DEF ChordsInv
  <2>2. Binding(event)' = {i \in 1..n : event \in ParseKeyBinding(texts'[i])}
    BY <1>3 DEF Binding
  <2>3. CASE event \in events
    <3>1. n \in Binding(event)' /\ \A i \in Binding(event)' : i <= n
      <4>1. event \in ParseKeyBinding(texts'[n])
        BY <1>3, <2>3 DEF events
      <4>2. n \in 1..n
        BY <1>3 DEF n
      <4> QED
        BY <1>3, <2>2, <4>1, <4>2
    <3>2. event \in DOMAIN binds' /\ binds'[event] = n
      BY <1>1, <2>3
    <3> QED
      BY <3>1, <3>2 DEF Latest
  <2>4. CASE event \notin events
    <3>1. Binding(event)' = Binding(event)
      BY <1>3, <2>2, <2>4 DEF Binding, events
    <3>2. (event \in DOMAIN binds' <=> event \in DOMAIN binds) /\
          (event \in DOMAIN binds => binds'[event] = binds[event])
      BY <1>1, <2>4
    <3> QED
      BY <2>1, <3>1, <3>2 DEF Latest
  <2> QED
    BY <2>3, <2>4
<1> QED
  BY <1>2, <1>4 DEF ChordsInv

LEMMA ChordsInductive == Spec => []ChordsInv
<1>1. Init => ChordsInv
  <2> SUFFICES ASSUME Init PROVE ChordsInv
    OBVIOUS
  <2>1. binds = <<>> /\ texts = <<>>
    BY DEF Init, ChordsInit
  <2>2. texts \in Seq(Bindable) /\ DOMAIN texts = {} /\ DOMAIN binds = {}
    BY <2>1
  <2> QED
    BY <2>2 DEF ChordsInv, Latest, Binding
<1>2. ChordsInv /\ [Next]_vars => ChordsInv'
  <2> SUFFICES ASSUME ChordsInv, [Next]_vars
               PROVE  ChordsInv'
    OBVIOUS
  <2>1. CASE \E text \in Bindable : Bind(text)
    BY <2>1, BindKeepsLatest
  <2>2. CASE UNCHANGED <<binds, texts>>
    BY <2>2 DEF ChordsInv, Latest, Binding
  <2>3. ChordsNext => (\E text \in Bindable : Bind(text)) \/ UNCHANGED <<binds, texts>>
    BY DEF ChordsNext, Send
  <2>4. UNCHANGED chordsVars => UNCHANGED <<binds, texts>>
    BY DEF chordsVars
  <2> QED
    BY <2>1, <2>2, <2>3, <2>4 DEF Next, Chords, Lists, Selection, Geometry, Ring, vars
<1> QED
  BY <1>1, <1>2, PTL DEF Spec, vars

\* A key press runs the callback of the latest bind whose text stands for it, and none
\* if there is no such bind: the registry replaces event by event (bind_registry.hpp),
\* and the events it is given are those that the text means (key_parse.cpp).
THEOREM LatestSafe == Spec => []LatestBindRuns
<1>1. ChordsInv => LatestBindRuns
  <2> SUFFICES ASSUME ChordsInv, NEW event \in Event
               PROVE  LET matching == {i \in DOMAIN texts : StandsFor(texts[i], event)} IN
                        IF matching = {} THEN event \notin DOMAIN binds
                        ELSE event \in DOMAIN binds /\ binds[event] \in matching
                               /\ \A i \in matching : i <= binds[event]
    BY DEF LatestBindRuns
  <2>1. ASSUME NEW i \in DOMAIN texts
        PROVE  StandsFor(texts[i], event) <=> event \in ParseKeyBinding(texts[i])
    <3>1. texts[i] \in Text /\ ParseKeyBinding(texts[i]) # {}
      <4>1. texts[i] \in Bindable
        BY DEF ChordsInv
      <4> QED
        BY <4>1 DEF Bindable
    <3> QED
      BY <3>1, TextLength, BindsMeaning
  <2>2. Binding(event) = {i \in DOMAIN texts : StandsFor(texts[i], event)}
    BY <2>1 DEF Binding
  <2>3. Latest(event)
    BY DEF ChordsInv
  <2> QED
    BY <2>2, <2>3 DEF Latest
<1> QED
  BY <1>1, ChordsInductive, PTL

-------------------------------------------------------------------------------
(***************************************************************************)
(* Sending a chord.                                                        *)
(***************************************************************************)

\* What the loop of InputSend keeps
SendVk == {"LWIN"} \cup Modifier
Reads == [modifiers : Seq(SendVk), key : Key \cup {NoKey, "error"}]

LEMMA SendNames ==
  /\ DOMAIN SendModifier = {"SUPER"} \cup DOMAIN Family
  /\ \A f \in DOMAIN Family : SendModifier[f] \in Family[f] \cap SendVk
  /\ \A token : IsSendModifier(token) => ModifierVk(token) \in SendVk /\ token \notin DOMAIN NamedKey
  /\ \A token \in Modifier : ModifierVk(token) = token
  /\ \A token \in DOMAIN Family : ModifierVk(token) = SendModifier[token]
  /\ SendVk \cap Key = {}
<1>1. /\ DOMAIN SendModifier = {"SUPER", "SHIFT", "CTRL", "ALT"}
      /\ SendModifier["SUPER"] = "LWIN" /\ SendModifier["SHIFT"] = "LSHIFT"
      /\ SendModifier["CTRL"] = "LCTRL" /\ SendModifier["ALT"] = "LALT"
  BY DEF SendModifier
<1>2. /\ DOMAIN Family = {"SHIFT", "CTRL", "ALT"}
      /\ "LSHIFT" \in Family["SHIFT"] /\ "LCTRL" \in Family["CTRL"] /\ "LALT" \in Family["ALT"]
  BY DEF Family
<1>3. \A f \in DOMAIN Family : SendModifier[f] \in Family[f] \cap SendVk
  BY <1>1, <1>2 DEF SendVk, Modifier
<1>4. \A token \in Modifier : token \notin DOMAIN SendModifier /\ ModifierVk(token) = token
  BY <1>1 DEF Modifier, ModifierVk
<1>5. \A token \in DOMAIN SendModifier : ModifierVk(token) = SendModifier[token]
                                         /\ ModifierVk(token) \in SendVk
  BY <1>1 DEF ModifierVk, SendVk, Modifier
<1>6. \A token : IsSendModifier(token) => token \in DOMAIN SendModifier \/ token \in Modifier
  BY DEF IsSendModifier
<1>7. \A token : IsSendModifier(token) => ModifierVk(token) \in SendVk
  BY <1>4, <1>5, <1>6 DEF SendVk
<1>8. \A token : IsSendModifier(token) => token \notin DOMAIN NamedKey
  BY <1>1, <1>6, NamesDiffer
<1>9. SendVk \cap Key = {}
  <2>1. Key \subseteq {"VK_A", "VK_RETURN", "VK_PAUSE"}
    BY DEF Key, NamedKey
  <2> QED
    BY <2>1 DEF SendVk, Modifier
<1> QED
  BY <1>1, <1>2, <1>3, <1>4, <1>5, <1>7, <1>8, <1>9

LEMMA ReadTypes ==
  ASSUME NEW read \in Reads, NEW token
  PROVE  ReadToken(read, token) \in Reads
<1>1. Refused \in Reads
  BY DEF Refused, Reads
<1>2. ASSUME IsSendModifier(token)
      PROVE  [read EXCEPT !.modifiers = Append(@, ModifierVk(token))] \in Reads
  <2>1. ModifierVk(token) \in SendVk
    BY <1>2, SendNames
  <2> QED
    BY <2>1 DEF Reads
<1>3. ASSUME token \in DOMAIN NamedKey PROVE [read EXCEPT !.key = NamedKey[token]] \in Reads
  BY <1>3, KeyTypes DEF Reads
<1>4. ~IsSendModifier(token) \/ token \notin DOMAIN NamedKey
  BY SendNames
<1> QED
  BY <1>1, <1>2, <1>3, <1>4 DEF ReadToken

\* The loop, as what it has read after each token
LEMMA ReadSteps ==
  ASSUME NEW n \in Nat, NEW text, DOMAIN text = 1..n
  PROVE  \E r \in [0..n -> Reads] :
           /\ r[0] = Unread
           /\ \A k \in 1..n : r[k] = ReadToken(r[k - 1], text[k])
           /\ FoldLeft(ReadToken, Unread, text) = r[n]
<1> DEFINE Fold(it) == [s \in SUBSET DOMAIN text |->
                          IF s = {} THEN Unread ELSE ReadToken(it[s \ {Max(s)}], text[Max(s)])]
           it == CHOOSE f : f = Fold(f)
           step == [p \in Reads \X (1..n) |-> ReadToken(p[1], text[p[2]])]
<1>1. FoldLeft(ReadToken, Unread, text) = it[DOMAIN text]
  BY DEF FoldLeft, MapThenFoldSet
<1>2. Unread \in Reads
  BY DEF Unread, Reads
<1>3. step \in [Reads \X (1..n) -> Reads]
  BY ReadTypes
<1>4. \A read \in Reads, k \in 1..n : step[<<read, k>>] = ReadToken(read, text[k])
  OBVIOUS
<1> HIDE DEF step
<1>5. PICK f : Folds(f, n, Reads, Unread, step)
  BY <1>2, <1>3, FoldExists
<1>5a. /\ f \in [SUBSET (1..n) -> Reads] /\ f[{}] = Unread
       /\ \A s \in SUBSET (1..n) : s # {} => f[s] = step[<<f[s \ {Max(s)}], Max(s)>>]
  BY <1>5 DEF Folds
<1>6. ASSUME NEW s \in SUBSET (1..n), s # {}
      PROVE  f[s] = ReadToken(f[s \ {Max(s)}], text[Max(s)])
  <2>1. Max(s) \in 1..n
    BY <1>6, LargestOf
  <2>2. f[s \ {Max(s)}] \in Reads
    BY <1>5a
  <2> QED
    BY <1>4, <1>5a, <1>6, <2>1, <2>2
<1>7. f = Fold(f)
  BY <1>5a, <1>6
<1>8. it = Fold(it)
  BY <1>7
<1> HIDE DEF it
<1>9. it[{}] = f[{}]
  BY <1>5a, <1>8
<1>10. ASSUME NEW s \in SUBSET (1..n), s # {}, it[s \ {Max(s)}] = f[s \ {Max(s)}]
       PROVE  it[s] = f[s]
  BY <1>6, <1>8, <1>10
<1>11. it[1..n] = f[1..n]
  BY <1>9, <1>10, SameSteps
<1> DEFINE r == [k \in 0..n |-> f[1..k]]
<1>12. r \in [0..n -> Reads]
  <2>1. \A k \in 0..n : 1..k \in SUBSET (1..n)
    OBVIOUS
  <2> QED
    BY <1>5a, <2>1
<1>13. r[0] = Unread
  <2>1. 1..0 = {}
    OBVIOUS
  <2> QED
    BY <1>5a, <2>1
<1>14. ASSUME NEW k \in 1..n PROVE r[k] = ReadToken(r[k - 1], text[k])
  <2>1. 1..k \in SUBSET (1..n) /\ k \in 1..k /\ \A i \in 1..k : i <= k
    OBVIOUS
  <2>2. Max(1..k) = k
    BY <2>1, LargestIs
  <2>3. (1..k) \ {k} = 1..(k - 1) /\ 1..k # {} /\ k - 1 \in 0..n
    OBVIOUS
  <2> QED
    <3>1. f[1..k] = ReadToken(f[(1..k) \ {k}], text[k])
      BY <1>6, <2>1, <2>2, <2>3
    <3>2. k \in 0..n /\ r[k] = f[1..k] /\ r[k - 1] = f[1..(k - 1)]
      BY <2>3
    <3> QED
      BY <2>3, <3>1, <3>2
<1>15. r[n] = FoldLeft(ReadToken, Unread, text)
  BY <1>1, <1>11
<1> HIDE DEF r
<1> QED
  BY <1>12, <1>13, <1>14, <1>15

\* What has been read after the first k tokens: the modifiers among them, and the only key
ModifiersUpTo(text, k) == {ModifierVk(text[i]) : i \in {j \in 1..k : IsSendModifier(text[j])}}
KeyPlaces(text, k) == {i \in 1..k : text[i] \in DOMAIN NamedKey}

ReadSoFar(text, k, read) ==
  read # Refused =>
    /\ Len(read.modifiers) <= ModifierLimit
    /\ ToSet(read.modifiers) = ModifiersUpTo(text, k)
    /\ \A i \in 1..k : IsSendModifier(text[i]) \/ text[i] \in DOMAIN NamedKey
    /\ \A i \in KeyPlaces(text, k) : read.key = NamedKey[text[i]]
    /\ \A i, j \in KeyPlaces(text, k) : i = j
    /\ read.key # NoKey => KeyPlaces(text, k) # {}

LEMMA ReadOne ==
  ASSUME NEW text, NEW k \in Nat, k # 0, NEW read \in Reads, ReadSoFar(text, k - 1, read)
  PROVE  ReadSoFar(text, k, ReadToken(read, text[k]))
<1> DEFINE token == text[k]
           next == ReadToken(read, token)
<1>1. 1..k = (1..(k - 1)) \cup {k} /\ k \notin 1..(k - 1)
  OBVIOUS
<1> SUFFICES ASSUME next # Refused PROVE ReadSoFar(text, k, next)
  BY DEF ReadSoFar
<1>2. read # Refused
  BY DEF ReadToken
<1>3. /\ Len(read.modifiers) <= ModifierLimit
      /\ ToSet(read.modifiers) = ModifiersUpTo(text, k - 1)
      /\ \A i \in 1..(k - 1) : IsSendModifier(text[i]) \/ text[i] \in DOMAIN NamedKey
      /\ \A i \in KeyPlaces(text, k - 1) : read.key = NamedKey[text[i]]
      /\ \A i, j \in KeyPlaces(text, k - 1) : i = j
      /\ read.key # NoKey => KeyPlaces(text, k - 1) # {}
  BY <1>2 DEF ReadSoFar
<1>4. read.modifiers \in Seq(SendVk)
  BY DEF Reads
<1>5. \/ IsSendModifier(token) /\ Len(read.modifiers) < ModifierLimit
         /\ next = [read EXCEPT !.modifiers = Append(@, ModifierVk(token))]
      \/ token \in DOMAIN NamedKey /\ read.key = NoKey
         /\ next = [read EXCEPT !.key = NamedKey[token]]
  <2>1. ~IsSendModifier(token) \/ token \notin DOMAIN NamedKey
    BY SendNames
  <2> QED
    BY <1>2, <2>1 DEF ReadToken
<1>6. CASE IsSendModifier(token) /\ Len(read.modifiers) < ModifierLimit
           /\ next = [read EXCEPT !.modifiers = Append(@, ModifierVk(token))]
  <2>1. next.modifiers = Append(read.modifiers, ModifierVk(token)) /\ next.key = read.key
    BY <1>6 DEF Reads
  <2>2. KeyPlaces(text, k) = KeyPlaces(text, k - 1)
    BY <1>1, <1>6, SendNames DEF KeyPlaces
  <2>3. ModifiersUpTo(text, k) = ModifiersUpTo(text, k - 1) \cup {ModifierVk(token)}
    BY <1>1, <1>6 DEF ModifiersUpTo
  <2>4. ToSet(next.modifiers) = ToSet(read.modifiers) \cup {ModifierVk(token)}
    <3> DEFINE old == read.modifiers
               m == Len(old)
    <3>1. m \in Nat /\ DOMAIN old = 1..m
      BY <1>4
    <3>2. DOMAIN next.modifiers = 1..(m + 1) /\ 1..(m + 1) = (1..m) \cup {m + 1}
      BY <1>4, <2>1, <3>1
    <3>3. next.modifiers[m + 1] = ModifierVk(token) /\ \A i \in 1..m : next.modifiers[i] = old[i]
      BY <1>4, <2>1, <3>1
    <3> HIDE DEF m, next
    <3> QED
      BY <3>1, <3>2, <3>3 DEF ToSet
  <2>5. Len(next.modifiers) <= ModifierLimit
    BY <1>4, <1>6, <2>1 DEF ModifierLimit
  <2>6. \A i \in 1..k : IsSendModifier(text[i]) \/ text[i] \in DOMAIN NamedKey
    BY <1>1, <1>3, <1>6
  <2> HIDE DEF next
  <2> QED
    BY <1>3, <2>1, <2>2, <2>3, <2>4, <2>5, <2>6 DEF ReadSoFar
<1>7. CASE token \in DOMAIN NamedKey /\ read.key = NoKey
           /\ next = [read EXCEPT !.key = NamedKey[token]]
  <2>1. next.modifiers = read.modifiers /\ next.key = NamedKey[token]
    BY <1>7 DEF Reads
  <2>2. KeyPlaces(text, k - 1) = {}
    <3> SUFFICES ASSUME NEW i \in KeyPlaces(text, k - 1) PROVE FALSE
      OBVIOUS
    <3>1. read.key = NamedKey[text[i]] /\ text[i] \in DOMAIN NamedKey
      BY <1>3 DEF KeyPlaces
    <3> QED
      BY <1>7, <3>1, KeyTypes
  <2>3. KeyPlaces(text, k) = {k}
    BY <1>1, <1>7, <2>2 DEF KeyPlaces
  <2>4. ModifiersUpTo(text, k) = ModifiersUpTo(text, k - 1)
    BY <1>1, <1>7, SendNames DEF ModifiersUpTo
  <2>6. \A i \in 1..k : IsSendModifier(text[i]) \/ text[i] \in DOMAIN NamedKey
    BY <1>1, <1>3, <1>7
  <2> HIDE DEF next
  <2> QED
    BY <1>3, <2>1, <2>3, <2>4, <2>6 DEF ReadSoFar
<1> QED
  BY <1>5, <1>6, <1>7

LEMMA ReadAll ==
  ASSUME NEW n \in Nat, NEW text, DOMAIN text = 1..n
  PROVE  LET read == FoldLeft(ReadToken, Unread, text)
         IN  read \in Reads /\ ReadSoFar(text, n, read)
<1>1. PICK r \in [0..n -> Reads] :
        /\ r[0] = Unread
        /\ \A k \in 1..n : r[k] = ReadToken(r[k - 1], text[k])
        /\ FoldLeft(ReadToken, Unread, text) = r[n]
  BY ReadSteps
<1> DEFINE wrong == {k \in 0..n : ~ReadSoFar(text, k, r[k])}
           k == Min(wrong)
<1>2. ASSUME wrong # {} PROVE FALSE
  <2>1. k \in wrong /\ \A j \in wrong : k <= j
    <3>1. wrong \in SUBSET Nat
      OBVIOUS
    <3> QED
      BY <1>2, <3>1, SmallestOf
  <2> HIDE DEF k
  <2>2. k \in 0..n /\ ~ReadSoFar(text, k, r[k])
    BY <2>1
  <2>3. k # 0
    <3>1. ReadSoFar(text, 0, Unread)
      <4>1. 1..0 = {} /\ Unread.modifiers = <<>> /\ Unread.key = NoKey
        BY DEF Unread
      <4>2. ModifiersUpTo(text, 0) = {} /\ KeyPlaces(text, 0) = {} /\ ToSet(<<>>) = {} /\ Len(<<>>) = 0
        BY <4>1 DEF ModifiersUpTo, KeyPlaces, ToSet
      <4> QED
        BY <4>1, <4>2 DEF ReadSoFar, ModifierLimit
    <3> QED
      BY <1>1, <2>2, <3>1
  <2>4. k \in 1..n /\ k - 1 \in 0..n /\ ~(k <= k - 1)
    BY <2>2, <2>3
  <2>5. ReadSoFar(text, k - 1, r[k - 1])
    BY <2>1, <2>4
  <2>6. r[k] = ReadToken(r[k - 1], text[k]) /\ r[k - 1] \in Reads /\ k \in Nat
    BY <1>1, <2>4
  <2>7. ReadSoFar(text, k, r[k])
    BY <2>3, <2>5, <2>6, ReadOne
  <2> QED
    BY <2>2, <2>7
<1>3. n \in 0..n
  OBVIOUS
<1> QED
  BY <1>1, <1>2, <1>3

\* The inputs are a palindrome: down in the order of the text, the key last, then
\* up in the reverse order.
Pressed(modifiers, key, i) == IF i <= Len(modifiers) THEN modifiers[i] ELSE key

Joins(r, s, t) ==
  /\ Len(r) = Len(s) + Len(t)
  /\ \A i \in 1..Len(s) : r[i] = s[i]
  /\ \A i \in 1..Len(t) : r[Len(s) + i] = t[i]

LEMMA Joined ==
  ASSUME NEW S, NEW s \in Seq(S), NEW t \in Seq(S)
  PROVE  s \o t \in Seq(S) /\ Joins(s \o t, s, t)
<1>1. s \o t \in Seq(S) /\ Len(s \o t) = Len(s) + Len(t)
  OBVIOUS
<1>2. \A i \in 1..Len(s) : (s \o t)[i] = s[i]
  OBVIOUS
<1>3. \A i \in 1..Len(t) : (s \o t)[Len(s) + i] = t[i]
  OBVIOUS
<1> QED
  BY <1>1, <1>2, <1>3 DEF Joins

LEMMA InputsShape ==
  ASSUME NEW modifiers \in Seq(SendVk), NEW key
  PROVE  LET inputs == Inputs(modifiers, key)
             half == Len(modifiers) + 1
         IN  /\ Len(inputs) = 2 * half /\ DOMAIN inputs = 1..(2 * half) /\ inputs # <<>>
             /\ \A i \in 1..half : /\ inputs[i] = Down(Pressed(modifiers, key, i))
                                   /\ inputs[2 * half + 1 - i] = Up(Pressed(modifiers, key, i))
<1> DEFINE m == Len(modifiers)
           half == m + 1
           Sent == [vk : SendVk \cup {key}, up : BOOLEAN]
           downs == [i \in 1..m |-> Down(modifiers[i])]
           middle == <<Down(key), Up(key)>>
           ups == [i \in 1..m |-> Up(modifiers[m - i + 1])]
           inputs == (downs \o middle) \o ups
<1>1. m \in Nat /\ DOMAIN modifiers = 1..m
  OBVIOUS
<1>2. Inputs(modifiers, key) = inputs
  <2>1. Reverse(modifiers) = [i \in 1..m |-> modifiers[m - i + 1]]
    BY DEF Reverse
  <2>2. Each(Up, Reverse(modifiers)) = ups
    BY <2>1 DEF Each
  <2>3. Each(Down, modifiers) = downs
    BY <1>1 DEF Each
  <2> QED
    BY <2>2, <2>3 DEF Inputs
<1>3. downs \in Seq(Sent) /\ Len(downs) = m /\ \A i \in 1..m : downs[i] = Down(modifiers[i])
  BY <1>1 DEF Down
<1>4. ups \in Seq(Sent) /\ Len(ups) = m /\ \A i \in 1..m : ups[i] = Up(modifiers[m - i + 1])
  BY <1>1 DEF Up
<1>5. middle \in Seq(Sent) /\ Len(middle) = 2 /\ middle[1] = Down(key) /\ middle[2] = Up(key)
  BY DEF Down, Up
<1> HIDE DEF downs, ups, middle, Sent, m
<1> DEFINE first == downs \o middle
<1>6a. /\ first \in Seq(Sent) /\ Len(first) = m + 2
       /\ \A i \in 1..m : first[i] = downs[i]
       /\ first[m + 1] = middle[1] /\ first[m + 2] = middle[2]
  <2>1. first \in Seq(Sent) /\ Joins(first, downs, middle)
    BY <1>3, <1>5, Joined
  <2> HIDE DEF first
  <2> QED
    BY <1>1, <1>3, <1>5, <2>1 DEF Joins
<1> HIDE DEF first
<1>6b. inputs = first \o ups
  BY DEF first
<1>6. /\ Len(inputs) = 2 * half /\ DOMAIN inputs = 1..(2 * half)
      /\ \A i \in 1..m : inputs[i] = downs[i]
      /\ inputs[m + 1] = middle[1] /\ inputs[m + 2] = middle[2]
      /\ \A i \in 1..m : inputs[m + 2 + i] = ups[i]
  <2> HIDE DEF inputs
  <2>1. /\ inputs \in Seq(Sent) /\ Len(inputs) = m + 2 + m
        /\ \A i \in 1..(m + 2) : inputs[i] = first[i]
        /\ \A i \in 1..m : inputs[m + 2 + i] = ups[i]
    <3>1. inputs \in Seq(Sent) /\ Joins(inputs, first, ups)
      BY <1>4, <1>6a, <1>6b, Joined
    <3> QED
      BY <1>4, <1>6a, <3>1 DEF Joins
  <2>2. m + 2 + m = 2 * half
    BY <1>1
  <2>3. DOMAIN inputs = 1..(2 * half)
    BY <2>1, <2>2
  <2>5. \A i \in 1..m : inputs[i] = downs[i]
    BY <1>1, <1>6a, <2>1
  <2>6. inputs[m + 1] = middle[1] /\ inputs[m + 2] = middle[2]
    BY <1>1, <1>6a, <2>1
  <2> QED
    BY <2>1, <2>2, <2>3, <2>5, <2>6
<1> HIDE DEF inputs
<1>7. ASSUME NEW i \in 1..half
      PROVE  /\ inputs[i] = Down(Pressed(modifiers, key, i))
             /\ inputs[2 * half + 1 - i] = Up(Pressed(modifiers, key, i))
  <2>1. CASE i <= m
    <3>1. i \in 1..m /\ m - i + 1 \in 1..m /\ 2 * half + 1 - i = m + 2 + (m - i + 1)
          /\ m - (m - i + 1) + 1 = i
      BY <1>1, <2>1
    <3>2. Pressed(modifiers, key, i) = modifiers[i]
      BY <2>1 DEF Pressed, m
    <3>3. inputs[i] = Down(modifiers[i])
      BY <1>3, <1>6, <3>1
    <3>4. inputs[m + 2 + (m - i + 1)] = Up(modifiers[m - (m - i + 1) + 1])
      BY <1>4, <1>6, <3>1
    <3> QED
      BY <3>1, <3>2, <3>3, <3>4
  <2>2. CASE ~(i <= m)
    <3>1. i = m + 1 /\ 2 * half + 1 - i = m + 2
      BY <1>1, <2>2
    <3>2. Pressed(modifiers, key, i) = key
      BY <2>2 DEF Pressed, m
    <3> QED
      BY <1>5, <1>6, <3>1, <3>2
  <2> QED
    BY <2>1, <2>2
<1>8. inputs # <<>>
  <2>1. 1 \in DOMAIN inputs
    BY <1>1, <1>6
  <2> QED
    BY <2>1
<1> QED
  BY <1>2, <1>6, <1>7, <1>8 DEF m

\* Each key is released as often as it is pressed, never more often than it has been
\* pressed, and all of them are down when the key is.
LEMMA HeldInOrder ==
  ASSUME NEW modifiers \in Seq(SendVk), NEW key, NEW vk
  PROVE  LET inputs == Inputs(modifiers, key)
             half == Len(modifiers) + 1
         IN  /\ HeldAfter(vk, inputs, 2 * half) = 0
             /\ \A n \in 1..(2 * half) : HeldAfter(vk, inputs, n) >= 0
             /\ HeldAfter(vk, inputs, half) > 0 <=> \E i \in 1..half : Pressed(modifiers, key, i) = vk
<1> DEFINE inputs == Inputs(modifiers, key)
           half == Len(modifiers) + 1
           downs(n) == {i \in 1..n : inputs[i] = Down(vk)}
           ups(n) == {i \in 1..n : inputs[i] = Up(vk)}
           pressed(i) == Pressed(modifiers, key, i)
<1>1. half \in Nat /\ half >= 1
  OBVIOUS
<1>2. \A i \in 1..half : /\ inputs[i] = Down(pressed(i))
                         /\ inputs[2 * half + 1 - i] = Up(pressed(i))
  BY InputsShape
<1>3. \A n \in Nat : HeldAfter(vk, inputs, n) = Cardinality(downs(n)) - Cardinality(ups(n))
  BY DEF HeldAfter
<1>4. \A k1, k2 : Down(k1) # Up(k2) /\ (Down(k1) = Down(k2) => k1 = k2) /\ (Up(k1) = Up(k2) => k1 = k2)
  BY DEF Down, Up
<1> HIDE DEF half, inputs, pressed
<1>5. \A i \in 1..half : inputs[i] = Down(vk) <=> pressed(i) = vk
  BY <1>2, <1>4
<1>6. \A i \in 1..half : inputs[i] # Up(vk)
  BY <1>2, <1>4
<1>7. ASSUME NEW i \in 1..(2 * half), ~(i <= half)
      PROVE  /\ 2 * half + 1 - i \in 1..half /\ 2 * half + 1 - i <= i
             /\ inputs[i] = Up(vk) <=> pressed(2 * half + 1 - i) = vk
             /\ inputs[i] # Down(vk)
  <2>1. 2 * half + 1 - i \in 1..half /\ 2 * half + 1 - i <= i
        /\ 2 * half + 1 - (2 * half + 1 - i) = i
    BY <1>1, <1>7
  <2>2. inputs[i] = Up(pressed(2 * half + 1 - i))
    BY <1>2, <2>1
  <2> QED
    BY <1>4, <2>1, <2>2
<1>8. ASSUME NEW n \in 1..(2 * half)
      PROVE  /\ IsFiniteSet(downs(n)) /\ IsFiniteSet(ups(n))
             /\ Cardinality(downs(n)) \in Nat /\ Cardinality(ups(n)) \in Nat
             /\ Cardinality(ups(n)) <= Cardinality(downs(n))
             /\ n = 2 * half => Cardinality(ups(n)) = Cardinality(downs(n))
  <2> DEFINE f == [i \in ups(n) |-> 2 * half + 1 - i]
  <2>1. IsFiniteSet(1..n)
    BY FS_Interval
  <2>2. IsFiniteSet(downs(n)) /\ IsFiniteSet(ups(n))
    BY <2>1, FS_Subset
  <2>3. \A i \in ups(n) : 2 * half + 1 - i \in downs(n)
    <3> SUFFICES ASSUME NEW i \in ups(n) PROVE 2 * half + 1 - i \in downs(n)
      OBVIOUS
    <3>1. i \in 1..(2 * half) /\ inputs[i] = Up(vk) /\ i <= n
      BY <1>1
    <3>2. ~(i <= half)
      BY <1>6, <3>1
    <3>3. 2 * half + 1 - i \in 1..half /\ 2 * half + 1 - i <= i /\ pressed(2 * half + 1 - i) = vk
      BY <1>7, <3>1, <3>2
    <3>4. 2 * half + 1 - i \in 1..n
      BY <1>1, <3>1, <3>3
    <3> QED
      BY <1>5, <3>3, <3>4
  <2>4. f \in [ups(n) -> downs(n)]
    BY <2>3
  <2>5. \A i, j \in ups(n) : f[i] = f[j] => i = j
    <3> SUFFICES ASSUME NEW i \in ups(n), NEW j \in ups(n), f[i] = f[j] PROVE i = j
      OBVIOUS
    <3>1. i \in Int /\ j \in Int /\ 2 * half + 1 - i = 2 * half + 1 - j
      OBVIOUS
    <3> QED
      BY <1>1, <3>1
  <2>6. f \in Injection(ups(n), downs(n))
    BY <2>4, <2>5 DEF Injection, IsInjective
  <2>7. /\ Cardinality(ups(n)) <= Cardinality(downs(n))
        /\ Cardinality(ups(n)) = Cardinality(downs(n)) <=> f \in Surjection(ups(n), downs(n))
    BY <2>2, <2>6, FS_Injection
  <2>8. ASSUME n = 2 * half PROVE f \in Surjection(ups(n), downs(n))
    <3>1. ASSUME NEW j \in downs(n) PROVE \E i \in ups(n) : f[i] = j
      <4>1. j \in 1..(2 * half) /\ inputs[j] = Down(vk)
        BY <2>8
      <4>2. j \in 1..half
        BY <1>1, <1>7, <4>1
      <4>3. 2 * half + 1 - j \in 1..n /\ 2 * half + 1 - (2 * half + 1 - j) = j
        BY <1>1, <2>8, <4>2
      <4>4. inputs[2 * half + 1 - j] = Up(vk)
        BY <1>2, <1>5, <4>1, <4>2
      <4>5. 2 * half + 1 - j \in ups(n)
        BY <4>3, <4>4
      <4> QED
        BY <4>3, <4>5
    <3> QED
      BY <2>4, <3>1 DEF Surjection
  <2> QED
    BY <2>2, <2>7, <2>8, FS_CardinalityType
<1>9. HeldAfter(vk, inputs, half) > 0 <=> \E i \in 1..half : pressed(i) = vk
  <2>1. half \in 1..(2 * half)
    BY <1>1
  <2>2. ups(half) = {}
    BY <1>6
  <2>3. HeldAfter(vk, inputs, half) = Cardinality(downs(half)) - 0
    BY <1>1, <1>3, <2>2, FS_EmptySet
  <2>4. Cardinality(downs(half)) = 0 <=> downs(half) = {}
    BY <1>8, <2>1, FS_EmptySet
  <2>5. Cardinality(downs(half)) \in Nat
    BY <1>8, <2>1
  <2>6. downs(half) = {} <=> ~ \E i \in 1..half : pressed(i) = vk
    BY <1>5
  <2> HIDE DEF downs
  <2> QED
    BY <2>3, <2>4, <2>5, <2>6
<1>10. ASSUME NEW n \in 1..(2 * half)
       PROVE  HeldAfter(vk, inputs, n) >= 0 /\ (n = 2 * half => HeldAfter(vk, inputs, n) = 0)
  <2>1. HeldAfter(vk, inputs, n) = Cardinality(downs(n)) - Cardinality(ups(n))
    BY <1>1, <1>3
  <2> HIDE DEF downs, ups
  <2> QED
    BY <1>8, <2>1
<1>11. 2 * half \in 1..(2 * half)
  BY <1>1
<1> QED
  BY <1>9, <1>10, <1>11 DEF half, inputs, pressed

\* The tokens of a text that hw.input.send takes and that names no Windows key are those
\* of a chord, and its modifiers are held by one of the events that hw.bind binds.
LEMMA ReadIsBound ==
  ASSUME NEW n \in Nat, NEW text, DOMAIN text = 1..n, NEW read \in Reads,
         ReadSoFar(text, n, read), read # Refused, read.key \in Key,
         ToSet(text) \cap WinTokens = {}
  PROVE  [vk |-> read.key, modifiers |-> ToSet(read.modifiers)] \in ParseKeyBinding(text)
<1> DEFINE all == 1..n
           keys == KeysAt(text, all)
           parsed == ParsedAt(text, all)
           concrete == TokensAt(text, all) \cap Modifier
           generic == TokensAt(text, all) \cap DOMAIN Family
           side == [f \in generic |-> SendModifier[f]]
<1>1. /\ ToSet(read.modifiers) = ModifiersUpTo(text, n)
      /\ \A i \in all : IsSendModifier(text[i]) \/ text[i] \in DOMAIN NamedKey
      /\ \A i \in keys : read.key = NamedKey[text[i]]
      /\ \A i, j \in keys : i = j
      /\ keys # {}
  BY KeyTypes DEF ReadSoFar, KeyPlaces, KeysAt
<1>2. ToSet(text) = TokensAt(text, all)
  BY DEF ToSet, TokensAt
<1>3. \A i \in all : text[i] \in DOMAIN Family \cup Modifier \cup DOMAIN NamedKey
  <2> TAKE i \in all
  <2>1. text[i] # "SUPER"
    BY <1>2 DEF WinTokens, TokensAt
  <2> QED
    BY <1>1, <2>1, SendNames DEF IsSendModifier
<1>4. WellFormed(text, all)
  BY <1>1, <1>3 DEF WellFormed, TokensAt
<1>5. Max(keys) \in keys
  <2>1. keys \in SUBSET (1..n)
    BY DEF KeysAt
  <2> QED
    BY <1>1, <2>1, LargestOf
<1>6. parsed = [vk |-> read.key, concrete |-> concrete, generic |-> generic]
  BY <1>1, <1>4, <1>5 DEF ParsedAt
<1>7. ParseKeyBinding(text) = ExpandGeneric(parsed)
  <2>1. FoldLeft(ApplyToken, Empty, text) = parsed
    BY ParseIs
  <2>2. parsed.vk = read.key
    BY <1>6
  <2> HIDE DEF parsed
  <2> QED
    BY <2>1, <2>2 DEF ParseKeyBinding
<1>8. side \in [generic -> Modifier] /\ \A f \in generic : side[f] \in Family[f]
  BY SendNames, FamiliesPart
<1>9. ModifiersUpTo(text, n) = concrete \cup {side[f] : f \in generic}
  <2>1. ASSUME NEW x \in ModifiersUpTo(text, n) PROVE x \in concrete \cup {side[f] : f \in generic}
    <3>1. PICK i \in all : IsSendModifier(text[i]) /\ x = ModifierVk(text[i])
      BY <2>1 DEF ModifiersUpTo
    <3>2. text[i] \in TokensAt(text, all)
      BY DEF TokensAt
    <3>3. text[i] \in Modifier \/ text[i] \in DOMAIN Family
      BY <1>3, <3>1, SendNames
    <3>4. CASE text[i] \in Modifier
      BY <3>1, <3>2, <3>4, SendNames
    <3>5. CASE text[i] \in DOMAIN Family
      <4>1. text[i] \in generic /\ x = side[text[i]]
        BY <3>1, <3>2, <3>5, SendNames
      <4> QED
        BY <4>1
    <3> QED
      BY <3>3, <3>4, <3>5
  <2>2. ASSUME NEW x \in concrete PROVE x \in ModifiersUpTo(text, n)
    <3>1. PICK i \in all : x = text[i]
      BY DEF TokensAt
    <3>2. IsSendModifier(text[i]) /\ ModifierVk(text[i]) = x
      BY <3>1, SendNames DEF IsSendModifier
    <3> QED
      BY <3>2 DEF ModifiersUpTo
  <2>3. ASSUME NEW f \in generic PROVE side[f] \in ModifiersUpTo(text, n)
    <3>1. PICK i \in all : f = text[i]
      BY DEF TokensAt
    <3>2. IsSendModifier(text[i]) /\ ModifierVk(text[i]) = side[f]
      BY <3>1, SendNames DEF IsSendModifier
    <3> QED
      BY <3>2 DEF ModifiersUpTo
  <2> QED
    BY <2>1, <2>2, <2>3
<1>10. [vk |-> parsed.vk, modifiers |-> parsed.concrete \cup {side[f] : f \in parsed.generic}]
         \in ExpandGeneric(parsed)
  <2>1. parsed.generic = generic
    BY <1>6
  <2> HIDE DEF parsed, side
  <2> QED
    BY <1>8, <2>1 DEF ExpandGeneric
<1>11. parsed.vk = read.key /\ parsed.concrete = concrete /\ parsed.generic = generic
  BY <1>6
<1> HIDE DEF parsed, side, concrete, generic
<1> QED
  BY <1>1, <1>7, <1>9, <1>10, <1>11

\* What SentIsBalanced says, of the inputs of any text
Balanced(text, inputs) ==
  LET vks == {inputs[i].vk : i \in DOMAIN inputs}
      held(n) == {vk \in vks : HeldAfter(vk, inputs, n) > 0}
  IN  inputs # <<>> =>
        /\ Len(inputs) <= InputLimit
        /\ \A vk \in vks : HeldAfter(vk, inputs, Len(inputs)) = 0
                           /\ \A n \in DOMAIN inputs : HeldAfter(vk, inputs, n) >= 0
        /\ \E n \in DOMAIN inputs :
             /\ inputs[n].vk \in Key /\ ~inputs[n].up
             /\ ToSet(text) \cap WinTokens = {} =>
                  [vk |-> inputs[n].vk, modifiers |-> held(n) \ Key] \in ParseKeyBinding(text)

LEMMA InputsBalanced ==
  ASSUME NEW n \in Nat, NEW text, DOMAIN text = 1..n
  PROVE  Balanced(text, InputSend(text))
<1> DEFINE read == FoldLeft(ReadToken, Unread, text)
           modifiers == read.modifiers
           key == read.key
           inputs == InputSend(text)
           half == Len(modifiers) + 1
           vks == {inputs[i].vk : i \in DOMAIN inputs}
           held == {vk \in vks : HeldAfter(vk, inputs, half) > 0}
<1> SUFFICES ASSUME inputs # <<>> PROVE Balanced(text, inputs)
  BY DEF Balanced
<1>1. read \in Reads /\ ReadSoFar(text, n, read)
  BY ReadAll
<1> HIDE DEF read
<1>2. key \in Key /\ inputs = Inputs(modifiers, key)
  BY DEF InputSend, read
<1>3. read # Refused
  BY <1>2, KeyTypes DEF Refused
<1>4. modifiers \in Seq(SendVk) /\ Len(modifiers) \in Nat /\ Len(modifiers) <= ModifierLimit
  BY <1>1, <1>3 DEF Reads, ReadSoFar
<1>5. /\ Len(inputs) = 2 * half /\ DOMAIN inputs = 1..(2 * half)
      /\ \A i \in 1..half : /\ inputs[i] = Down(Pressed(modifiers, key, i))
                            /\ inputs[2 * half + 1 - i] = Up(Pressed(modifiers, key, i))
  BY <1>2, <1>4, InputsShape
<1>6. \A vk : /\ HeldAfter(vk, inputs, 2 * half) = 0
              /\ \A i \in 1..(2 * half) : HeldAfter(vk, inputs, i) >= 0
              /\ HeldAfter(vk, inputs, half) > 0 <=> \E i \in 1..half : Pressed(modifiers, key, i) = vk
  <2> HIDE DEF inputs, modifiers, key
  <2> TAKE vk
  <2> QED
    BY <1>2, <1>4, HeldInOrder
<1> HIDE DEF inputs
<1>7. Len(inputs) <= InputLimit
  BY <1>4, <1>5 DEF ModifierLimit, InputLimit
<1>8. half \in DOMAIN inputs /\ inputs[half].vk = key /\ ~inputs[half].up
  <2>1. half \in 1..half /\ half \in 1..(2 * half) /\ ~(half <= Len(modifiers))
    BY <1>4
  <2>2. inputs[half] = Down(key)
    BY <1>5, <2>1 DEF Pressed
  <2> QED
    BY <1>5, <2>1, <2>2 DEF Down
<1>9. held \ Key = ToSet(modifiers)
  <2>1. ToSet(modifiers) \subseteq SendVk
    BY <1>4 DEF ToSet
  <2>2. DOMAIN modifiers = 1..Len(modifiers)
    BY <1>4
  <2>3. ASSUME NEW vk \in ToSet(modifiers) PROVE vk \in held /\ vk \notin Key
    <3>1. PICK i \in 1..Len(modifiers) : vk = modifiers[i]
      BY <2>2 DEF ToSet
    <3>2. i \in 1..half /\ i \in 1..(2 * half) /\ i <= Len(modifiers)
      BY <1>4
    <3>3. Pressed(modifiers, key, i) = vk
      BY <3>1, <3>2 DEF Pressed
    <3>4. inputs[i].vk = vk
      <4>1. inputs[i] = Down(vk)
        BY <1>5, <3>2, <3>3
      <4> QED
        BY <4>1 DEF Down
    <3>5. vk \in vks
      BY <1>5, <3>2, <3>4
    <3>6. HeldAfter(vk, inputs, half) > 0
      BY <1>6, <3>2, <3>3
    <3> HIDE DEF vks
    <3> QED
      BY <2>1, <3>5, <3>6, SendNames
  <2>4. ASSUME NEW vk \in held, vk \notin Key PROVE vk \in ToSet(modifiers)
    <3>1. HeldAfter(vk, inputs, half) > 0
      OBVIOUS
    <3>2. PICK i \in 1..half : Pressed(modifiers, key, i) = vk
      BY <1>6, <3>1
    <3>3. i <= Len(modifiers)
      BY <1>2, <2>4, <3>2 DEF Pressed
    <3>4. i \in 1..Len(modifiers)
      BY <1>4, <3>3
    <3> QED
      BY <2>2, <3>2, <3>3, <3>4 DEF Pressed, ToSet
  <2> HIDE DEF held
  <2> QED
    BY <2>3, <2>4
<1>10. ASSUME ToSet(text) \cap WinTokens = {}
       PROVE  [vk |-> inputs[half].vk, modifiers |-> held \ Key] \in ParseKeyBinding(text)
  BY <1>1, <1>2, <1>3, <1>8, <1>9, <1>10, ReadIsBound
<1>11. \A vk \in vks : HeldAfter(vk, inputs, Len(inputs)) = 0
                       /\ \A i \in DOMAIN inputs : HeldAfter(vk, inputs, i) >= 0
  BY <1>5, <1>6
<1> HIDE DEF half, modifiers, key
<1> QED
  BY <1>2, <1>7, <1>8, <1>10, <1>11 DEF Balanced

\* What was sent last, if anything was
SentInv == sent.inputs # <<>> => sent.text \in Text /\ sent.inputs = InputSend(sent.text)

LEMMA SentInductive == Spec => []SentInv
<1>1. Init => SentInv
  <2> SUFFICES ASSUME ChordsInit PROVE SentInv
    BY DEF Init
  <2>1. sent.inputs = <<>>
    BY DEF ChordsInit
  <2> QED
    BY <2>1 DEF SentInv
<1>2. SentInv /\ [Next]_vars => SentInv'
  <2> SUFFICES ASSUME SentInv, [Next]_vars
               PROVE  SentInv'
    OBVIOUS
  <2>1. CASE \E text \in Sendable : Send(text)
    <3>1. PICK text \in Sendable : Send(text)
      BY <2>1
    <3>2. sent'.text = text /\ sent'.inputs = InputSend(text) /\ text \in Text
      BY <3>1 DEF Send, Sendable
    <3> QED
      BY <3>2 DEF SentInv
  <2>2. CASE UNCHANGED sent
    BY <2>2 DEF SentInv
  <2>3. ChordsNext => (\E text \in Sendable : Send(text)) \/ UNCHANGED sent
    BY DEF ChordsNext, Bind
  <2>4. UNCHANGED chordsVars => UNCHANGED sent
    BY DEF chordsVars
  <2> QED
    BY <2>1, <2>2, <2>3, <2>4 DEF Next, Chords, Lists, Selection, Geometry, Ring, vars
<1> QED
  BY <1>1, <1>2, PTL DEF Spec, vars

(***************************************************************************)
(* hw.input.send leaves no key down and releases none that it did not      *)
(* press, writes within its array, and holds, while the key goes down,     *)
(* modifiers for which a bind of the same text would run (input.cpp,       *)
(* key_parse.cpp): for texts of any length, whatever tokens they repeat.   *)
(***************************************************************************)
THEOREM SentSafe == Spec => []SentIsBalanced
<1>1. SentInv => SentIsBalanced
  <2> SUFFICES ASSUME SentInv, sent.inputs # <<>> PROVE SentIsBalanced
    BY DEF SentIsBalanced
  <2>1. sent.text \in Text /\ sent.inputs = InputSend(sent.text)
    BY DEF SentInv
  <2>2. Balanced(sent.text, sent.inputs)
    BY <2>1, TextLength, InputsBalanced
  <2> QED
    BY <2>2 DEF Balanced, SentIsBalanced
<1> QED
  BY <1>1, SentInductive, PTL

-------------------------------------------------------------------------------
(***************************************************************************)
(* Names that can be given back.                                           *)
(***************************************************************************)

Events == [vk : Key, modifiers : SUBSET Modifier]

LEMMA NamedAdds ==
  ASSUME NEW s \in Seq(Modifier), NEW modifier \in Modifier, NEW event
  PROVE  /\ s \o Named(modifier, event) \in Seq(Modifier)
         /\ ToSet(s \o Named(modifier, event)) = ToSet(s) \cup ({modifier} \cap event.modifiers)
<1>1. CASE modifier \in event.modifiers
  <2> DEFINE r == s \o <<modifier>>
             n == Len(s)
  <2>1. Named(modifier, event) = <<modifier>>
    BY <1>1 DEF Named
  <2>2. <<modifier>> \in Seq(Modifier) /\ Len(<<modifier>>) = 1 /\ <<modifier>>[1] = modifier
    OBVIOUS
  <2>3. r \in Seq(Modifier) /\ Joins(r, s, <<modifier>>)
    BY <2>2, Joined
  <2>4. n \in Nat /\ DOMAIN s = 1..n
    OBVIOUS
  <2> HIDE DEF r, n
  <2>5. Len(r) = n + 1 /\ (\A i \in 1..n : r[i] = s[i]) /\ r[n + 1] = modifier
    BY <2>2, <2>3, <2>4 DEF Joins, n
  <2>6. DOMAIN r = (1..n) \cup {n + 1}
    BY <2>3, <2>4, <2>5
  <2>7. ToSet(r) = ToSet(s) \cup {modifier}
    BY <2>4, <2>5, <2>6 DEF ToSet
  <2> QED
    BY <1>1, <2>1, <2>3, <2>7 DEF r
<1>2. CASE modifier \notin event.modifiers
  <2>1. Named(modifier, event) = <<>>
    BY <1>2 DEF Named
  <2>2. s \o <<>> = s
    OBVIOUS
  <2> QED
    BY <1>2, <2>1, <2>2
<1> QED
  BY <1>1, <1>2

\* The text of an event is its modifiers, then one more token.
LEMMA FormatShape ==
  ASSUME NEW event \in Events
  PROVE  \E n \in Nat : LET text == FormatKeyEvent(event)
                        IN  /\ DOMAIN text = 1..(n + 1) /\ Last(text) = text[n + 1]
                            /\ TokensAt(text, 1..n) = event.modifiers
                            /\ text[n + 1] = CASE event.vk = "VK_A"      -> "A"
                                               [] event.vk = "VK_RETURN" -> "RETURN"
                                               [] OTHER                  -> "VK_13"
<1> DEFINE s1 == Named("LSHIFT", event)
           s2 == s1 \o Named("RSHIFT", event)
           s3 == s2 \o Named("LCTRL", event)
           s4 == s3 \o Named("RCTRL", event)
           s5 == s4 \o Named("LALT", event)
           s6 == s5 \o Named("RALT", event)
           name == CASE event.vk = "VK_A"      -> "A"
                     [] event.vk = "VK_RETURN" -> "RETURN"
                     [] OTHER                  -> "VK_13"
           text == s6 \o <<name>>
           n == Len(s6)
           Gathers(s, modifiers) ==
             s \in Seq(Modifier) /\ ToSet(s) = modifiers \cap event.modifiers
<1>0. FormatKeyEvent(event) = text
  BY DEF FormatKeyEvent
<1>1. Gathers(s1, {"LSHIFT"})
  <2>1. <<>> \in Seq(Modifier) /\ "LSHIFT" \in Modifier /\ ToSet(<<>>) = {}
    BY DEF Modifier, ToSet
  <2>2. <<>> \o Named("LSHIFT", event) = Named("LSHIFT", event)
    BY DEF Named
  <2>3. /\ <<>> \o Named("LSHIFT", event) \in Seq(Modifier)
        /\ ToSet(<<>> \o Named("LSHIFT", event)) = ToSet(<<>>) \cup ({"LSHIFT"} \cap event.modifiers)
    BY <2>1, NamedAdds
  <2> QED
    BY <2>1, <2>2, <2>3
<1> HIDE DEF s1
<1>2. Gathers(s2, {"LSHIFT", "RSHIFT"})
  <2>1. "RSHIFT" \in Modifier
    BY DEF Modifier
  <2> QED
    BY <1>1, <2>1, NamedAdds
<1> HIDE DEF s2
<1>3. Gathers(s3, {"LSHIFT", "RSHIFT", "LCTRL"})
  <2>1. "LCTRL" \in Modifier
    BY DEF Modifier
  <2> QED
    BY <1>2, <2>1, NamedAdds
<1> HIDE DEF s3
<1>4. Gathers(s4, {"LSHIFT", "RSHIFT", "LCTRL", "RCTRL"})
  <2>1. "RCTRL" \in Modifier
    BY DEF Modifier
  <2> QED
    BY <1>3, <2>1, NamedAdds
<1> HIDE DEF s4
<1>5. Gathers(s5, {"LSHIFT", "RSHIFT", "LCTRL", "RCTRL", "LALT"})
  <2>1. "LALT" \in Modifier
    BY DEF Modifier
  <2> QED
    BY <1>4, <2>1, NamedAdds
<1> HIDE DEF s5
<1>6. s6 \in Seq(Modifier) /\ ToSet(s6) = event.modifiers
  <2>1. "RALT" \in Modifier /\ Modifier \cap event.modifiers = event.modifiers
    BY DEF Modifier, Events
  <2>2. Gathers(s6, {"LSHIFT", "RSHIFT", "LCTRL", "RCTRL", "LALT", "RALT"})
    BY <1>5, <2>1, NamedAdds
  <2> HIDE DEF s6
  <2> QED
    BY <2>1, <2>2 DEF Modifier
<1> HIDE DEF s6, name
<1>7. n \in Nat /\ DOMAIN s6 = 1..n
  BY <1>6
<1>8. /\ DOMAIN text = 1..(n + 1) /\ Len(text) = n + 1
      /\ text[n + 1] = name /\ \A i \in 1..n : text[i] = s6[i]
  <2>1. s6 \in Seq(Modifier \cup {name}) /\ <<name>> \in Seq(Modifier \cup {name})
        /\ Len(<<name>>) = 1 /\ <<name>>[1] = name
    BY <1>6
  <2>2. text \in Seq(Modifier \cup {name}) /\ Joins(text, s6, <<name>>)
    BY <2>1, Joined
  <2> HIDE DEF text
  <2> QED
    BY <1>7, <2>1, <2>2 DEF Joins
<1> HIDE DEF text, n
<1>9. TokensAt(text, 1..n) = event.modifiers
  BY <1>6, <1>7, <1>8 DEF TokensAt, ToSet
<1>10. Last(text) = text[n + 1]
  BY <1>8 DEF Last
<1> QED
  BY <1>0, <1>7, <1>8, <1>9, <1>10 DEF name

LEMMA NamesReadBack ==
  ASSUME NEW event \in Events
  PROVE  ParseKeyBinding(FormatKeyEvent(event)) =
           IF Last(FormatKeyEvent(event)) \in DOMAIN NamedKey THEN {event} ELSE {}
<1> DEFINE text == FormatKeyEvent(event)
<1>1. PICK n \in Nat : /\ DOMAIN text = 1..(n + 1) /\ Last(text) = text[n + 1]
                       /\ TokensAt(text, 1..n) = event.modifiers
                       /\ text[n + 1] = CASE event.vk = "VK_A"      -> "A"
                                          [] event.vk = "VK_RETURN" -> "RETURN"
                                          [] OTHER                  -> "VK_13"
  BY FormatShape
<1> DEFINE name == text[n + 1]
           all == 1..(n + 1)
           parsed == ParsedAt(text, all)
<1>2. event.modifiers \subseteq Modifier /\ event = [vk |-> event.vk, modifiers |-> event.modifiers]
      /\ event.vk \in Key
  BY DEF Events
<1>3. name \in DOMAIN NamedKey => NamedKey[name] = event.vk
  <2>1. CASE event.vk = "VK_A"
    BY <1>1, <2>1 DEF NamedKey
  <2>2. CASE event.vk = "VK_RETURN"
    BY <1>1, <2>2 DEF NamedKey
  <2>3. CASE event.vk # "VK_A" /\ event.vk # "VK_RETURN"
    BY <1>1, <2>3 DEF NamedKey
  <2> QED
    BY <2>1, <2>2, <2>3
<1>4. name \notin DOMAIN Family \cup Modifier
  <2>1. name \in {"A", "RETURN", "VK_13"}
    BY <1>1
  <2> QED
    BY <2>1, NamesDiffer DEF Modifier
<1>5. ParseKeyBinding(text) = IF parsed.vk \in Key THEN ExpandGeneric(parsed) ELSE {}
  <2>1. n + 1 \in Nat
    OBVIOUS
  <2>2. FoldLeft(ApplyToken, Empty, text) = parsed
    BY <1>1, <2>1, ParseIs
  <2> QED
    BY <2>2 DEF ParseKeyBinding
<1> HIDE DEF text
<1>6. all = (1..n) \cup {n + 1}
  OBVIOUS
<1>7. TokensAt(text, all) = event.modifiers \cup {name}
  BY <1>1, <1>6 DEF TokensAt
<1>8. \A i \in 1..n : text[i] \in Modifier
  BY <1>1, <1>2 DEF TokensAt
<1>9. CASE name \in DOMAIN NamedKey
  <2>1. KeysAt(text, all) = {n + 1}
    BY <1>6, <1>8, <1>9, NamesDiffer DEF KeysAt
  <2>2. Max(KeysAt(text, all)) = n + 1
    <3>1. {n + 1} \in SUBSET (1..(n + 1)) /\ \A i \in {n + 1} : i <= n + 1
      OBVIOUS
    <3>2. n + 1 \in Nat
      OBVIOUS
    <3> QED
      BY <2>1, <3>1, <3>2, LargestIs
  <2>3. WellFormed(text, all)
    BY <1>2, <1>7, <1>9, <2>1 DEF WellFormed
  <2>4. TokensAt(text, all) \cap Modifier = event.modifiers /\ TokensAt(text, all) \cap DOMAIN Family = {}
    BY <1>2, <1>4, <1>7, NamesDiffer
  <2>5. parsed = [vk |-> event.vk, concrete |-> event.modifiers, generic |-> {}]
    BY <1>3, <1>9, <2>1, <2>2, <2>3, <2>4 DEF ParsedAt
  <2> HIDE DEF parsed, name
  <2>6. parsed.vk = event.vk /\ parsed.concrete = event.modifiers /\ parsed.generic = {}
    BY <2>5
  <2>7. ExpandGeneric(parsed) = {event}
    <3> DEFINE Sides == {s \in [parsed.generic -> Modifier] : \A f \in parsed.generic : s[f] \in Family[f]}
               bound(s) == [vk |-> parsed.vk, modifiers |-> parsed.concrete \cup {s[f] : f \in parsed.generic}]
    <3>1. \A s : bound(s) = event
      BY <1>2, <2>6
    <3>2. [f \in {} |-> {}] \in Sides
      BY <2>6
    <3>3. ExpandGeneric(parsed) = {bound(s) : s \in Sides}
      BY DEF ExpandGeneric
    <3> HIDE DEF Sides, bound
    <3> QED
      BY <3>1, <3>2, <3>3
  <2> QED
    BY <1>1, <1>2, <1>5, <1>9, <2>6, <2>7 DEF name, text
<1>10. CASE name \notin DOMAIN NamedKey
  <2>1. ~WellFormed(text, all)
    BY <1>4, <1>7, <1>10 DEF WellFormed
  <2>2. parsed.vk = "error"
    BY <2>1 DEF ParsedAt, Invalid
  <2> QED
    BY <1>1, <1>5, <1>10, <2>2, KeyTypes DEF text
<1> QED
  BY <1>9, <1>10

LEMMA EventTypes ==
  ASSUME NEW text \in Bindable
  PROVE  ParseKeyBinding(text) \subseteq Events
<1>1. PICK n \in Nat : DOMAIN text = 1..n
  BY TextLength DEF Bindable
<1>2. PICK name \in DOMAIN NamedKey :
        ParseKeyBinding(text) =
          ExpandGeneric([vk |-> NamedKey[name], concrete |-> ToSet(text) \cap Modifier,
                         generic |-> ToSet(text) \cap DOMAIN Family])
  BY <1>1, ParsedWhole DEF Bindable
<1> SUFFICES ASSUME NEW event \in ParseKeyBinding(text) PROVE event \in Events
  OBVIOUS
<1>3. PICK side \in [ToSet(text) \cap DOMAIN Family -> Modifier] :
        event = [vk |-> NamedKey[name],
                 modifiers |-> (ToSet(text) \cap Modifier) \cup {side[f] : f \in ToSet(text) \cap DOMAIN Family}]
  BY <1>2 DEF ExpandGeneric
<1> QED
  BY <1>3, KeyTypes DEF Events

(***************************************************************************)
(* Lists that can be given back.                                           *)
(***************************************************************************)

\* Good values without holes, as many as a table has places for
Readable(list, n) == n \in 0..MaxIndex /\ list \in [1..n -> Values]

\* The flags, as they are listed
LEMMA ListedFlags ==
  ASSUME NEW S, IsFiniteSet(S)
  PROVE  LET list == SetToSeq(S)
             n == Cardinality(S)
         IN  /\ n \in Nat
             /\ list \in [1..n -> S]
             /\ {list[i] : i \in 1..n} = S
<1> DEFINE list == SetToSeq(S)
           n == Cardinality(S)
<1>1. n \in Nat /\ ExistsBijection(1..n, S)
  BY FS_CardinalityType
<1>2. PICK f : f \in Bijection(1..n, S)
  BY <1>1 DEF ExistsBijection
<1>3. f \in [1..n -> S] /\ IsInjective(f)
  BY <1>2 DEF Bijection, Injection, IsInjective
<1>4. list \in [1..n -> S] /\ IsInjective(list)
  BY <1>3 DEF SetToSeq
<1> HIDE DEF list
<1>5. list \in Injection(1..n, S)
  BY <1>4 DEF Injection, IsInjective
<1>6. Cardinality(1..n) = n
  BY <1>1, FS_Interval
<1>7. list \in Surjection(1..n, S)
  BY <1>5, <1>6, FS_Injection
<1>8. {list[i] : i \in 1..n} = S
  BY <1>4, <1>7 DEF Surjection
<1> QED
  BY <1>1, <1>4, <1>8 DEF list

\* A list that is assigned to the field it was read from comes back as it was, whatever
\* border lua_objlen returns.
LEMMA ReadableIsAccepted ==
  ASSUME NEW field \in Fields, NEW n, NEW table, Readable(table, n),
         field = "colors" => n \in 1..MaxColors,
         NEW border \in Borders(table)
  PROVE  Accepts(field, table, border) /\ border = n
<1>1. n \in Nat /\ MaxIndex \in Nat /\ n <= MaxIndex /\ DOMAIN table = 1..n
  BY TableAssumption DEF Readable
<1>2. IntKeys(table) = 1..n
  BY <1>1 DEF IntKeys, Index
<1>3. OtherKeys(table) = {}
  BY <1>1 DEF OtherKeys, Index
<1>4. \A i \in 1..n : table[i] # Bad
  BY TableAssumption DEF Readable
<1>5. Len(SetToSeq(IntKeys(table))) = n
  BY <1>1, <1>2, WithoutHoles
<1>6. Proper(field, table)
  BY <1>2, <1>3, <1>4, <1>5 DEF Proper
<1> QED
  BY <1>5, <1>6, ProperIsAccepted

ReadableField(field) ==
  IF field = "debug"
  THEN lists["debug"] \subseteq Values /\ IsFiniteSet(lists["debug"]) /\ Cardinality(lists["debug"]) <= MaxIndex
  ELSE \E n : Readable(lists[field], n) /\ (field = "colors" => n \in 1..MaxColors)

ListsInv == DOMAIN lists = Fields /\ \A field \in Fields : ReadableField(field)

LEMMA AssignKeepsReadable ==
  ASSUME ListsInv, NEW field \in Fields, NEW table \in Tables, Assign(field, table)
  PROVE  ListsInv'
<1>1. PICK border \in Borders(table) :
        lists' = IF Accepts(field, table, border)
                 THEN [lists EXCEPT ![field] = ListOf(field, table, border)] ELSE lists
  BY DEF Assign
<1>2. CASE ~Accepts(field, table, border)
  <2>1. lists' = lists
    BY <1>1, <1>2
  <2> QED
    BY <2>1 DEF ListsInv, ReadableField
<1>3. CASE Accepts(field, table, border)
  <2> DEFINE ints == IntKeys(table)
  <2>1. Proper(field, table) /\ border = Len(SetToSeq(ints))
    BY <1>3, AcceptedIsProper, ProperIsAccepted
  <2>2. ints = 1..border /\ (\A i \in ints : table[i] # Bad) /\ (field = "colors" => border \in 1..MaxColors)
    BY <2>1 DEF Proper
  <2>3. border \in 0..MaxIndex
    BY DEF Borders
  <2>4. \A i \in 1..border : table[i] \in Values
    <3> TAKE i \in 1..border
    <3>1. i \in DOMAIN table
      BY <2>2 DEF IntKeys
    <3>2. table[i] \in Values \cup {Bad}
      BY <3>1 DEF Tables
    <3> QED
      BY <2>2, <3>2
  <2> DEFINE list == [i \in 1..border |-> table[i]]
  <2>5. Readable(list, border)
    BY <2>3, <2>4 DEF Readable
  <2> HIDE DEF ints
  <2>6. DOMAIN lists' = Fields /\ lists'[field] = ListOf(field, table, border)
        /\ \A other \in Fields \ {field} : lists'[other] = lists[other]
    BY <1>1, <1>3 DEF ListsInv
  <2>7. ReadableField(field)'
    <3>1. CASE field = "debug"
      <4> DEFINE flags == {table[i] : i \in 1..border}
      <4>1. lists'["debug"] = flags
        BY <2>6, <3>1 DEF ListOf
      <4>2. list \in Surjection(1..border, flags)
        BY DEF Surjection
      <4>3. IsFiniteSet(1..border) /\ Cardinality(1..border) = border
        BY <2>3, FS_Interval
      <4>4. IsFiniteSet(flags) /\ Cardinality(flags) <= border
        BY <4>2, <4>3, FS_Surjection
      <4>5. Cardinality(flags) \in Nat
        BY <4>4, FS_CardinalityType
      <4>6. flags \subseteq Values
        BY <2>4
      <4> HIDE DEF flags
      <4>7. Cardinality(flags) <= MaxIndex
        BY <2>3, <4>4, <4>5, TableAssumption
      <4> QED
        BY <3>1, <4>1, <4>4, <4>6, <4>7 DEF ReadableField
    <3>2. CASE field # "debug"
      <4>1. lists'[field] = list
        BY <2>6, <3>2 DEF ListOf
      <4> HIDE DEF list
      <4> QED
        BY <2>2, <2>5, <3>2, <4>1 DEF ReadableField
    <3> QED
      BY <3>1, <3>2
  <2>8. ASSUME NEW other \in Fields, other # field
        PROVE  ReadableField(other)'
    <3>1. lists'[other] = lists[other] /\ ReadableField(other)
      BY <2>6, <2>8 DEF ListsInv
    <3> QED
      BY <3>1 DEF ReadableField
  <2> QED
    BY <2>6, <2>7, <2>8 DEF ListsInv
<1> QED
  BY <1>2, <1>3

LEMMA ListsGiveBack ==
  ASSUME ListsInv
  PROVE  ListsReadBack
<1> SUFFICES ASSUME NEW field \in Fields, NEW border \in Borders(Push(field, lists[field]))
             PROVE  /\ Accepts(field, Push(field, lists[field]), border)
                    /\ ListOf(field, Push(field, lists[field]), border) = lists[field]
  BY DEF ListsReadBack
<1> DEFINE list == lists[field]
           table == Push(field, list)
<1>1. ReadableField(field)
  BY DEF ListsInv
<1>2. CASE field = "debug"
  <2>1. list \subseteq Values /\ IsFiniteSet(list) /\ Cardinality(list) <= MaxIndex
    BY <1>1, <1>2 DEF ReadableField
  <2> DEFINE n == Cardinality(list)
  <2>2. table = SetToSeq(list)
    BY <1>2 DEF Push
  <2>3. n \in Nat /\ table \in [1..n -> list] /\ {table[i] : i \in 1..n} = list
    BY <2>1, <2>2, ListedFlags
  <2> HIDE DEF table, list
  <2>4. table \in [1..n -> Values] /\ n \in 0..MaxIndex
    <3>1. table \in [1..n -> Values]
      BY <2>1, <2>3
    <3> HIDE DEF n
    <3>2. n <= MaxIndex
      BY <2>1 DEF n
    <3> QED
      BY <2>3, <3>1, <3>2, TableAssumption
  <2> HIDE DEF n
  <2>5. Readable(table, n)
    BY <2>4 DEF Readable
  <2>6. Accepts(field, table, border) /\ border = n
    <3>1. border \in Borders(table) /\ field # "colors"
      BY <1>2 DEF table, list
    <3> QED
      BY <2>5, <3>1, ReadableIsAccepted
  <2>7. ListOf(field, table, border) = list
    BY <1>2, <2>3, <2>6 DEF ListOf
  <2> QED
    BY <2>6, <2>7 DEF table, list
<1>3. CASE field # "debug"
  <2>1. PICK n : Readable(list, n) /\ (field = "colors" => n \in 1..MaxColors)
    BY <1>1, <1>3 DEF ReadableField
  <2>2. table = list
    BY <1>3 DEF Push
  <2> HIDE DEF table, list
  <2>3. Accepts(field, table, border) /\ border = n
    <3>1. border \in Borders(table)
      BY DEF table, list
    <3> QED
      BY <2>1, <2>2, <3>1, ReadableIsAccepted
  <2>4. ListOf(field, table, border) = list
    <3>1. list = [i \in 1..n |-> list[i]]
      BY <2>1 DEF Readable
    <3> QED
      BY <1>3, <2>2, <2>3, <3>1 DEF ListOf
  <2> QED
    BY <2>3, <2>4 DEF table, list
<1> QED
  BY <1>2, <1>3

ReadsBackInv == DOMAIN binds \subseteq Events /\ ListsInv

LEMMA ReadsBackInductive == Spec => []ReadsBackInv
<1>1. Init => ReadsBackInv
  <2> SUFFICES ASSUME ChordsInit, TablesInit PROVE ReadsBackInv
    BY DEF Init
  <2>1. DOMAIN binds \subseteq Events
    BY DEF ChordsInit
  <2> DEFINE v == CHOOSE x \in Values : TRUE
  <2>2. v \in Values
    BY TableAssumption
  <2> HIDE DEF v
  <2>3. /\ DOMAIN lists = Fields
        /\ lists["colors"] = <<v>> /\ lists["grab_filters"] = <<>> /\ lists["debug"] = {}
    BY DEF TablesInit, Fields, v
  <2>4. ReadableField("colors")
    <3>1. <<v>> \in [1..1 -> Values] /\ 1 \in 0..MaxIndex /\ 1 \in 1..MaxColors
      BY <2>2, TableAssumption
    <3>2. Readable(<<v>>, 1)
      BY <3>1 DEF Readable
    <3> QED
      BY <2>3, <3>1, <3>2 DEF ReadableField
  <2>5. ReadableField("grab_filters")
    <3>1. <<>> \in [1..0 -> Values] /\ 0 \in 0..MaxIndex
      BY TableAssumption
    <3>2. Readable(<<>>, 0)
      BY <3>1 DEF Readable
    <3> QED
      BY <2>3, <3>2 DEF ReadableField
  <2>6. ReadableField("debug")
    <3>1. IsFiniteSet({}) /\ Cardinality({}) = 0
      BY FS_EmptySet
    <3>2. 0 <= MaxIndex
      BY TableAssumption
    <3> QED
      BY <2>3, <3>1, <3>2 DEF ReadableField
  <2> QED
    BY <2>1, <2>3, <2>4, <2>5, <2>6 DEF ReadsBackInv, ListsInv, Fields
<1>2. ReadsBackInv /\ [Next]_vars => ReadsBackInv'
  <2> SUFFICES ASSUME ReadsBackInv, [Next]_vars
               PROVE  ReadsBackInv'
    OBVIOUS
  <2>1. ASSUME NEW text \in Bindable, Bind(text), UNCHANGED lists PROVE ReadsBackInv'
    <3>1. DOMAIN binds' = DOMAIN binds \cup ParseKeyBinding(text)
      BY <2>1 DEF Bind
    <3>2. ParseKeyBinding(text) \subseteq Events
      BY EventTypes
    <3> QED
      BY <2>1, <3>1, <3>2 DEF ReadsBackInv, ListsInv, ReadableField
  <2>2. ASSUME NEW field \in Fields, NEW table \in Tables, Assign(field, table), UNCHANGED binds
        PROVE  ReadsBackInv'
    <3>1. ListsInv'
      BY <2>2, AssignKeepsReadable DEF ReadsBackInv
    <3> QED
      BY <2>2, <3>1 DEF ReadsBackInv
  <2>3. CASE UNCHANGED <<binds, lists>>
    BY <2>3 DEF ReadsBackInv, ListsInv, ReadableField
  <2>4. CASE Chords
    <3>1. (\E text \in Bindable : Bind(text)) \/ UNCHANGED binds
      BY <2>4 DEF Chords, ChordsNext, Send
    <3> QED
      BY <2>1, <2>3, <2>4, <3>1 DEF Chords, tablesVars
  <2>5. CASE Lists
    BY <2>2, <2>5 DEF Lists, TablesNext, chordsVars
  <2> QED
    BY <2>3, <2>4, <2>5 DEF Next, Selection, Geometry, Ring, chordsVars, tablesVars, vars
<1> QED
  BY <1>1, <1>2, PTL DEF Spec, vars

(***************************************************************************)
(* What a configuration is told can be given back to it: the name of every *)
(* event that is bound binds that event and no other, but for keys that    *)
(* have no name (key_parse.cpp); and the lists of colors, filters and      *)
(* flags, however they were assigned, can be assigned again and mean the   *)
(* same (settings.cpp).                                                    *)
(***************************************************************************)
THEOREM ReadsBackSafe == Spec => []ReadsBack
<1>1. ReadsBackInv => ReadsBack
  <2> SUFFICES ASSUME ReadsBackInv PROVE ReadsBack
    OBVIOUS
  <2>1. NamesBind
    <3> SUFFICES ASSUME NEW event \in DOMAIN binds
                 PROVE  ParseKeyBinding(FormatKeyEvent(event)) =
                          IF Last(FormatKeyEvent(event)) \in DOMAIN NamedKey THEN {event} ELSE {}
      BY DEF NamesBind
    <3>1. event \in Events
      BY DEF ReadsBackInv
    <3> QED
      BY <3>1, NamesReadBack
  <2>2. ListsReadBack
    BY ListsGiveBack DEF ReadsBackInv
  <2> QED
    BY <2>1, <2>2 DEF ReadsBack
<1> QED
  BY <1>1, ReadsBackInductive, PTL

-------------------------------------------------------------------------------
(***************************************************************************)
(* The queue between two threads.                                          *)
(***************************************************************************)
LEMMA Around ==
  ASSUME NEW n \in Nat, n < 2 * RingSize
  PROVE  n % RingSize = IF n < RingSize THEN n ELSE n - RingSize
BY RingAssumption

LEMMA BehindWraps ==
  ASSUME NEW slot \in Slots
  PROVE  Behind(slot) \in Slots /\ Behind(slot) = IF slot + 1 = RingSize THEN 0 ELSE slot + 1
<1>1. slot + 1 \in Nat /\ slot + 1 < 2 * RingSize /\ slot < RingSize
  BY RingAssumption DEF Slots
<1> QED
  BY <1>1, Around, RingAssumption DEF Behind, Slots

(***************************************************************************)
(* A thread that is in push has found room, which the other thread can     *)
(* only make larger, and what it publishes is its item.  A thread that is  *)
(* in pop has found an item, and what it has copied is the oldest one: the *)
(* slot between the two indices is nobody's but the thread's that is about *)
(* to move its index past it.                                              *)
(***************************************************************************)
RingTypes ==
  /\ buffer \in [Slots -> Payloads \cup {Torn}]
  /\ head \in Slots /\ tail \in Slots
  /\ pusher \in [step : {"idle", "copy", "copying", "store"}, item : Payloads \cup {Torn}]
  /\ popper \in [step : {"idle", "copy", "store"}, item : Payloads \cup {Torn}]

PushInv ==
  /\ pusher.step # "idle" => ~Full /\ pusher.item \in Payloads
  /\ pusher.step = "store" => buffer[tail] = pusher.item

PopInv ==
  /\ popper.step # "idle" => head # tail
  /\ popper.step = "store" => popper.item = buffer[head]

RingInv == RingTypes /\ PushInv /\ PopInv

LEMMA RingStep == RingInv /\ RingNext => RingInv'
<1> SUFFICES ASSUME RingInv, RingNext PROVE RingInv'
  OBVIOUS
<1> USE DEF RingInv, RingTypes, PushInv, PopInv, Full
<1>0. Behind(head) \in Slots /\ Behind(tail) \in Slots
  BY BehindWraps
<1>1. CASE PushFull \/ PopEmpty \/ AskEmpty
  BY <1>1 DEF PushFull, PopEmpty, AskEmpty
<1>2. ASSUME NEW item \in Payloads, PushRoom(item) PROVE RingInv'
  BY <1>2 DEF PushRoom
<1>3. CASE PushCopy
  BY <1>3 DEF PushCopy
<1>4. CASE PushCopied
  BY <1>4 DEF PushCopied
<1>5. CASE StoreTail
  BY <1>0, <1>5 DEF StoreTail
<1>6. CASE PopFront
  BY <1>6 DEF PopFront
<1>7. CASE PopCopy
  BY <1>7 DEF PopCopy
<1>8. CASE StoreHead
  <2>1. Behind(tail) # Behind(head)
    BY <1>8, BehindWraps, RingAssumption DEF StoreHead, Slots
  <2> QED
    BY <1>0, <1>8, <2>1 DEF StoreHead
<1> QED
  BY <1>1, <1>2, <1>3, <1>4, <1>5, <1>6, <1>7, <1>8 DEF RingNext

(***************************************************************************)
(* What the ring holds is a sequence of at most RingSize - 1 items, full   *)
(* when push finds no room and empty when pop finds nothing.               *)
(***************************************************************************)
LEMMA SlotOf ==
  ASSUME RingTypes, NEW i \in 1..RingSize
  PROVE  /\ Slot(i) \in Slots
         /\ Slot(i) = IF head + i - 1 < RingSize THEN head + i - 1 ELSE head + i - 1 - RingSize
<1> DEFINE n == head + i - 1
<1>1. n \in Nat /\ n < 2 * RingSize
  BY RingAssumption DEF RingTypes, Slots
<1>2. Slot(i) = n % RingSize
  BY DEF Slot
<1> HIDE DEF n
<1>3. Slot(i) = IF n < RingSize THEN n ELSE n - RingSize
  BY <1>1, <1>2, Around
<1> QED
  BY <1>1, <1>3, RingAssumption DEF RingTypes, n, Slots

LEMMA CountRange ==
  ASSUME RingTypes
  PROVE  /\ Count \in 0..RingSize - 1
         /\ Count = 0 <=> head = tail
         /\ Full <=> Count = RingSize - 1
BY BehindWraps, RingAssumption DEF RingTypes, Slots, Count, Full

LEMMA ContentsLength ==
  ASSUME RingTypes
  PROVE  /\ Contents \in Seq(Payloads \cup {Torn})
         /\ Len(Contents) = Count
         /\ Contents = <<>> <=> head = tail
         /\ Len(Contents) = RingSize - 1 <=> Full
<1>1. Count \in Nat /\ \A i \in 1..Count : i \in 1..RingSize
  BY CountRange, RingAssumption
<1>2. \A i \in 1..Count : Slot(i) \in Slots
  BY <1>1, SlotOf
<1>3. Contents \in [1..Count -> Payloads \cup {Torn}]
  BY <1>2 DEF Contents, RingTypes
<1>4. Contents \in Seq(Payloads \cup {Torn}) /\ Len(Contents) = Count
  BY <1>1, <1>3
<1> QED
  BY <1>4, CountRange

\* A copy into the slot behind the last item touches none of them.
LEMMA SlotsOfContents ==
  ASSUME RingTypes, ~Full
  PROVE  /\ \A i \in 1..Count : Slot(i) # tail
         /\ Slot(Count + 1) = tail
<1>1. Count \in 0..RingSize - 2
  BY CountRange, RingAssumption
<1>2. \A i \in 1..Count + 1 : i \in 1..RingSize
  BY <1>1, RingAssumption
<1>3. ASSUME NEW i \in 1..Count PROVE Slot(i) # tail
  <2>1. Slot(i) = IF head + i - 1 < RingSize THEN head + i - 1 ELSE head + i - 1 - RingSize
    BY <1>1, <1>2, SlotOf
  <2> QED
    BY <2>1, <1>1, RingAssumption DEF RingTypes, Slots, Count
<1>4. Slot(Count + 1) = tail
  <2>1. LET i == Count + 1
        IN  Slot(i) = IF head + i - 1 < RingSize THEN head + i - 1 ELSE head + i - 1 - RingSize
    BY <1>1, <1>2, SlotOf
  <2> QED
    BY <2>1, <1>1, RingAssumption DEF RingTypes, Slots, Count
<1> QED
  BY <1>3, <1>4

LEMMA CopyIsUnseen ==
  ASSUME RingInv, PushCopy \/ PushCopied
  PROVE  UNCHANGED Contents
<1>1. ~Full /\ UNCHANGED <<head, tail>>
  BY DEF RingInv, PushInv, PushCopy, PushCopied
<1>2. \A slot \in Slots \ {tail} : buffer'[slot] = buffer[slot]
  BY DEF RingInv, RingTypes, PushCopy, PushCopied
<1>3. Count' = Count /\ \A i \in 1..Count : Slot(i)' = Slot(i)
  BY <1>1 DEF Count, Slot
<1>4. \A i \in 1..Count : Slot(i) \in Slots \ {tail}
  BY <1>1, SlotsOfContents, SlotOf, CountRange, RingAssumption DEF RingInv
<1>5. \A i \in 1..Count : buffer'[Slot(i)'] = buffer[Slot(i)]
  BY <1>2, <1>3, <1>4
<1> QED
  BY <1>3, <1>5 DEF Contents

LEMMA StoredTailPushes ==
  ASSUME RingInv, StoreTail
  PROVE  Fifo!Push(pusher.item)
<1>1. ~Full /\ buffer[tail] = pusher.item
  BY DEF RingInv, PushInv, StoreTail
<1>2. UNCHANGED <<buffer, head>> /\ tail' = Behind(tail) /\ RingTypes /\ RingTypes'
  BY RingStep DEF RingInv, StoreTail, RingNext
<1>3. Count' = Count + 1
  <2>1. /\ tail' = IF tail + 1 = RingSize THEN 0 ELSE tail + 1
        /\ head # tail'
    BY <1>1, <1>2, BehindWraps DEF RingTypes, Full
  <2> QED
    BY <1>2, <2>1, RingAssumption DEF RingTypes, Slots, Count
<1>4. /\ Contents \in Seq(Payloads \cup {Torn}) /\ Len(Contents) = Count
      /\ Count \in Nat /\ Len(Contents) < RingSize - 1
  BY <1>1, <1>2, ContentsLength, CountRange, RingAssumption
<1>5. Contents' = [i \in 1..Count + 1 |-> buffer[Slot(i)]]
  BY <1>2, <1>3 DEF Contents, Slot
<1>6. \A i \in 1..Count + 1 : buffer[Slot(i)] = IF i \in 1..Count THEN Contents[i] ELSE pusher.item
  <2>1. buffer[Slot(Count + 1)] = pusher.item
    BY <1>1, <1>2, SlotsOfContents
  <2>2. \A i \in 1..Count : buffer[Slot(i)] = Contents[i]
    BY DEF Contents
  <2>3. \A i \in 1..Count + 1 : i \notin 1..Count => i = Count + 1
    BY <1>4
  <2> QED
    BY <2>1, <2>2, <2>3
<1>7. Contents' = Append(Contents, pusher.item)
  <2> HIDE DEF Contents
  <2>1. Append(Contents, pusher.item)
          = [i \in 1..Count + 1 |-> IF i \in 1..Count THEN Contents[i] ELSE pusher.item]
    BY <1>4
  <2> QED
    BY <1>5, <1>6, <2>1
<1> QED
  BY <1>4, <1>7 DEF Fifo!Push, StoreTail

LEMMA StoredHeadPops ==
  ASSUME RingInv, StoreHead
  PROVE  Fifo!Pop
<1>1. head # tail /\ popper.item = buffer[head]
  BY DEF RingInv, PopInv, StoreHead
<1>2. UNCHANGED <<buffer, tail>> /\ head' = Behind(head) /\ RingTypes
  BY DEF RingInv, StoreHead
<1>3. Count \in 1..RingSize - 1 /\ Count' = Count - 1
  <2>1. head' = IF head + 1 = RingSize THEN 0 ELSE head + 1
    BY <1>2, BehindWraps DEF RingTypes
  <2> QED
    BY <1>1, <1>2, <2>1, RingAssumption DEF RingTypes, Slots, Count
<1>4. ASSUME NEW i \in 1..Count - 1 PROVE Slot(i)' = Slot(i + 1)
  <2> DEFINE n == head' + i - 1
  <2>1. Slot(i)' = n % RingSize
    BY DEF Slot
  <2>2. /\ head' \in Slots
        /\ head' = IF head + 1 = RingSize THEN 0 ELSE head + 1
    BY <1>2, BehindWraps DEF RingTypes
  <2>3. i + 1 \in 1..RingSize /\ head \in Nat /\ head < RingSize
    BY <1>2, <1>3, RingAssumption DEF RingTypes, Slots
  <2>4. n \in Nat /\ n < 2 * RingSize
    BY <2>2, <2>3, RingAssumption DEF Slots
  <2> HIDE DEF n
  <2>5. Slot(i)' = IF n < RingSize THEN n ELSE n - RingSize
    BY <2>1, <2>4, Around
  <2>6. Slot(i + 1) = IF head + i < RingSize THEN head + i ELSE head + i - RingSize
    BY <1>2, <2>3, SlotOf
  <2> QED
    BY <1>3, <2>2, <2>3, <2>5, <2>6, RingAssumption DEF n
<1>5. Slot(1) = head
  BY <1>2, SlotOf, RingAssumption DEF RingTypes, Slots
<1>6. Contents \in Seq(Payloads \cup {Torn}) /\ Len(Contents) = Count
  BY <1>2, ContentsLength
<1>7. Head(Contents) = buffer[head]
  BY <1>3, <1>5, <1>6 DEF Contents
<1>8. Contents' = Tail(Contents)
  <2> DEFINE rest == Tail(Contents)
  <2>1. /\ rest \in Seq(Payloads \cup {Torn}) /\ Len(rest) = Count - 1
        /\ \A i \in 1..Count - 1 : rest[i] = Contents[i + 1]
    BY <1>3, <1>6, HeadTailProperties
  <2> HIDE DEF rest
  <2>2. rest = [i \in 1..Count - 1 |-> rest[i]]
    BY <2>1
  <2>3. \A i \in 1..Count - 1 : Contents[i + 1] = buffer[Slot(i)']
    BY <1>3, <1>4 DEF Contents
  <2>4. Contents' = [i \in 1..Count - 1 |-> buffer[Slot(i)']]
    BY <1>2, <1>3 DEF Contents
  <2>5. rest = Contents'
    BY <2>1, <2>2, <2>3, <2>4
  <2> QED
    BY <2>5 DEF rest
<1> QED
  BY <1>1, <1>2, <1>3, <1>7, <1>8, ContentsLength DEF Fifo!Pop, StoreHead

LEMMA RingRefines == RingInv /\ RingNext => Fifo!Next \/ UNCHANGED <<Contents, pushed, popped, empty>>
<1> SUFFICES ASSUME RingInv, RingNext
             PROVE  Fifo!Next \/ UNCHANGED <<Contents, pushed, popped, empty>>
  OBVIOUS
<1>0. RingTypes
  BY DEF RingInv
<1>1. CASE PushFull
  <2>1. UNCHANGED Contents
    BY <1>1 DEF PushFull, Contents, Count, Slot
  <2> QED
    BY <1>0, <1>1, <2>1, ContentsLength DEF PushFull, Fifo!Next, Fifo!Refuse
<1>2. ASSUME NEW item \in Payloads, PushRoom(item) PROVE UNCHANGED <<Contents, pushed, popped, empty>>
  BY <1>2 DEF PushRoom, Contents, Count, Slot
<1>3. CASE PushCopy \/ PushCopied
  BY <1>3, CopyIsUnseen DEF PushCopy, PushCopied
<1>4. CASE StoreTail
  <2>1. pusher.item \in Payloads
    BY <1>4 DEF StoreTail, RingInv, PushInv
  <2> QED
    BY <1>4, <2>1, StoredTailPushes DEF Fifo!Next
<1>5. CASE PopEmpty
  <2>1. UNCHANGED Contents
    BY <1>5 DEF PopEmpty, Contents, Count, Slot
  <2> QED
    BY <1>0, <1>5, <2>1, ContentsLength DEF PopEmpty, Fifo!Next, Fifo!FindNothing
<1>6. CASE PopFront \/ PopCopy
  BY <1>6 DEF PopFront, PopCopy, Contents, Count, Slot
<1>7. CASE StoreHead
  BY <1>7, StoredHeadPops DEF Fifo!Next
<1>8. CASE AskEmpty
  <2>1. UNCHANGED Contents
    BY <1>8 DEF AskEmpty, Contents, Count, Slot
  <2> QED
    BY <1>0, <1>8, <2>1, ContentsLength DEF AskEmpty, Fifo!Next, Fifo!Look
<1> QED
  BY <1>1, <1>2, <1>3, <1>4, <1>5, <1>6, <1>7, <1>8 DEF RingNext

LEMMA RingStarts == RingInit => RingInv /\ Fifo!Init
<1> SUFFICES ASSUME RingInit PROVE RingInv /\ Fifo!Init
  OBVIOUS
<1>1. RingInv
  BY RingAssumption DEF RingInit, RingInv, RingTypes, PushInv, PopInv, Slots
<1>2. Contents = <<>>
  BY <1>1, ContentsLength DEF RingInit, RingInv
<1> QED
  BY <1>1, <1>2 DEF RingInit, Fifo!Init

LEMMA RingInductive == Spec => []RingInv
<1>1. Init => RingInv
  BY RingStarts DEF Init
<1>2. RingInv /\ [Next]_vars => RingInv'
  <2> SUFFICES ASSUME RingInv, [Next]_vars PROVE RingInv'
    OBVIOUS
  <2>1. CASE Ring
    BY <2>1, RingStep DEF Ring
  <2>2. CASE UNCHANGED ringVars
    BY <2>2 DEF ringVars, RingInv, RingTypes, PushInv, PopInv, Full, Behind
  <2> QED
    BY <2>1, <2>2 DEF Next, Chords, Lists, Selection, Geometry, vars
<1> QED
  BY <1>1, <1>2, PTL DEF Spec, vars

(***************************************************************************)
(* The ring with its two indices implements the bounded sequence that the  *)
(* models of the threads use: items come out whole, once and in order, and *)
(* push, pop and empty answer as a queue of RingSize - 1 places would.     *)
(***************************************************************************)
THEOREM RingImplements == Spec => ImplementsBoundedQueue
<1>1. Init => Fifo!Init
  BY RingStarts DEF Init
<1>2. RingInv /\ [Next]_vars => Fifo!Next \/ UNCHANGED <<Contents, pushed, popped, empty>>
  <2> SUFFICES ASSUME RingInv, [Next]_vars
               PROVE  Fifo!Next \/ UNCHANGED <<Contents, pushed, popped, empty>>
    OBVIOUS
  <2>1. CASE Ring
    BY <2>1, RingRefines DEF Ring
  <2>2. CASE UNCHANGED ringVars
    BY <2>2 DEF ringVars, Contents, Count, Slot
  <2> QED
    BY <2>1, <2>2 DEF Next, Chords, Lists, Selection, Geometry, vars
<1> QED
  BY <1>1, <1>2, RingInductive, PTL DEF Spec, vars, ImplementsBoundedQueue, Fifo!Spec
===============================================================================
