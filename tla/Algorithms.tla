------------------------------ MODULE Algorithms ------------------------------
(***************************************************************************)
(* What the rest of the program is built from: chords, lists of settings,  *)
(* the choice of a window and where it goes, and the queue between two     *)
(* threads.  They share no state; a behaviour is about one of them.        *)
(***************************************************************************)
EXTENDS KeyChords, SettingsTables, WindowSelection, WindowGeometry, SpscQueue

VARIABLE subject

Init ==
  /\ subject \in {"chords", "lists", "selection", "geometry", "ring"}
  /\ ChordsInit /\ TablesInit /\ SelectionInit /\ GeometryInit /\ RingInit

Chords ==
  /\ subject = "chords" /\ ChordsNext
  /\ UNCHANGED <<subject, tablesVars, selectionVars, geometryVars, ringVars>>

Lists ==
  /\ subject = "lists" /\ TablesNext
  /\ UNCHANGED <<subject, chordsVars, selectionVars, geometryVars, ringVars>>

Selection ==
  /\ subject = "selection" /\ SelectionNext
  /\ UNCHANGED <<subject, chordsVars, tablesVars, geometryVars, ringVars>>

Geometry ==
  /\ subject = "geometry" /\ GeometryNext
  /\ UNCHANGED <<subject, chordsVars, tablesVars, selectionVars, ringVars>>

Ring ==
  /\ subject = "ring" /\ RingNext
  /\ UNCHANGED <<subject, chordsVars, tablesVars, selectionVars, geometryVars>>

Next == Chords \/ Lists \/ Selection \/ Geometry \/ Ring

Spec ==
  Init /\ [][Next]_<<subject, chordsVars, tablesVars, selectionVars, geometryVars, ringVars>>

-------------------------------------------------------------------------------
\* What the program tells a configuration can be given back to it and means the
\* same: a name that hw.binds() lists binds exactly that event, but for keys that
\* FormatKeyEvent writes as a number, which hw.bind refuses; and a list of settings
\* can be assigned to itself.
ReadsBack == NamesBind /\ ListsReadBack

\* A drag keeps the window under the cursor at the point that was grabbed, a
\* resize keeps the corner opposite to the one that is dragged, which is the
\* nearest if the setting says so, and the limits of the window.
BoundsFollowCursor == HeldPointStays /\ ResizeKeepsCorner
===============================================================================
