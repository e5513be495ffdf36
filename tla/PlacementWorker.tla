---------------------------- MODULE PlacementWorker ----------------------------
(***************************************************************************)
(* The thread that moves windows (overlay/placement/worker.cpp, "W-POS").  *)
(* It owns one pending slot: a Submit overwrites a request that was not    *)
(* taken yet.  A request taken runs to its end: SetWindowPos, then the     *)
(* result, then idle.                                                      *)
(***************************************************************************)
EXTENDS OverlayCmd

CONSTANTS
  Immovable,        \* windows on which SetWindowPos fails (access denied)
  ResultCapacity    \* capacity of m_placementResults: 15 (SpscQueue of size 16)

ASSUME WorkerAssumption ==
  /\ Immovable \subseteq Windows
  /\ ResultCapacity \in Nat \ {0}

VARIABLES
  worker,    \* m_placementWorker is not null
  pending,   \* m_pending
  current,   \* the request being carried out (m_busy), or NoRequest
  placed,    \* SetWindowPos of `current` has returned
  results,   \* m_placementResults
  place      \* where each window is on the desktop

workerVars == <<worker, pending, current, placed, results, place>>

WorkerInit ==
  /\ worker = FALSE
  /\ pending = NoRequest
  /\ current = NoRequest
  /\ placed = FALSE
  /\ results = <<>>
  /\ place = [w \in Windows |-> StartRect]

\* WaitIdle returns in these states.
WorkerIdle == pending = NoRequest /\ current = NoRequest

\* EnsurePlacementWorker followed by Submit: the slot is overwritten.
EnsureAndSubmit(r) ==
  /\ worker' = TRUE
  /\ pending' = r
  /\ UNCHANGED <<current, placed, results, place>>

-------------------------------------------------------------------------------
TakeRequest ==
  /\ worker
  /\ pending # NoRequest
  /\ current = NoRequest
  /\ current' = pending
  /\ pending' = NoRequest
  /\ placed' = FALSE
  /\ UNCHANGED <<worker, results, place>>

\* The result of SetWindowPos is discarded: a refused move still publishes.
PlaceWindow ==
  /\ current # NoRequest
  /\ ~placed
  /\ placed' = TRUE
  /\ place' = [place EXCEPT ![current.target] =
                 IF current.target \in Immovable THEN @ ELSE current.rect]
  /\ UNCHANGED <<worker, pending, current, results>>

\* PublishPlacementResult drops the result when the queue is full.
PublishResult ==
  /\ current # NoRequest
  /\ placed
  /\ results' = IF Len(results) < ResultCapacity
                THEN Append(results, [id |-> current.id, kind |-> current.kind])
                ELSE results
  /\ current' = NoRequest
  /\ placed' = FALSE
  /\ UNCHANGED <<worker, pending, place>>

WorkerNext == TakeRequest \/ PlaceWindow \/ PublishResult

WorkerTypeOK ==
  /\ worker \in BOOLEAN
  /\ pending \in PlacementRequest \cup {NoRequest}
  /\ current \in PlacementRequest \cup {NoRequest}
  /\ placed \in BOOLEAN
  /\ results \in Seq(PlacementResult)
  /\ place \in [Windows -> Rect]
===============================================================================
