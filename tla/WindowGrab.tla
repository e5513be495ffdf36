------------------------------- MODULE WindowGrab -------------------------------
(***************************************************************************)
(* What the overlay promises to the mouse, without threads or queues: one  *)
(* interaction at a time holds the desktop, a window leaves its place only *)
(* while an interaction holds it, and the interaction is released only     *)
(* when its window is no longer displaced.                                 *)
(***************************************************************************)
CONSTANTS Windows, Holders, NoHolder, TargetOf(_)

VARIABLES
  holder,    \* the interaction accepted, or NoHolder
  displaced  \* windows that stand at a preview position

Init == holder = NoHolder /\ displaced = {}

Acquire(s) == holder = NoHolder /\ holder' = s /\ UNCHANGED displaced

Displace ==
  /\ holder # NoHolder
  /\ displaced' = displaced \cup {TargetOf(holder)}
  /\ UNCHANGED holder

PutBack(w) == displaced' = displaced \ w /\ UNCHANGED holder

Release ==
  /\ holder # NoHolder
  /\ TargetOf(holder) \notin displaced
  /\ holder' = NoHolder
  /\ UNCHANGED displaced

Next ==
  \/ \E s \in Holders : Acquire(s)
  \/ Displace
  \/ \E w \in SUBSET Windows : PutBack(w)
  \/ Release

Spec == Init /\ [][Next]_<<holder, displaced>>
===============================================================================
