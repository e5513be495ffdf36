------------------------------- MODULE MCOverlay -------------------------------
EXTENDS OverlayInteraction, TLC

MCSettings ==
  {[move_preview |-> "overlay", resize_preview |-> "thumbnail"],
   [move_preview |-> "live", resize_preview |-> "overlay"]}

\* A window is restored before the overlay is reserved: the liveness run leaves it out.
NoneMaximized == maximized = {}
===============================================================================
