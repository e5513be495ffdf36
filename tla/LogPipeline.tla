---------------------------- MODULE LogPipeline ----------------------------
(***************************************************************************)
(* The logger (log/log.cpp) and its viewer window (log/log_window.cpp).    *)
(* Any thread queues messages; one worker numbers them, keeps the newest   *)
(* in a ring, hands them to the viewer that is open and writes them to the *)
(* run's file.  The Lua thread opens and closes viewers; each is a thread  *)
(* with a window whose posted messages are its box.  main shuts it down.   *)
(***************************************************************************)
EXTENDS Integers, Sequences, FiniteSets, SequencesExt, FiniteSetsExt

CONSTANTS RingCapacity,  \* Options::ring_capacity
          KeepMessages,  \* kMaxMessages: the lines a viewer keeps
          TrimCount,     \* kTrimCount: the lines it drops at once
          FileOpens,     \* whether the run's log file can be opened
          KeepFiles,     \* keep_files of make_run_log_file_path
          OldLogs,       \* the write times of the log files of earlier runs
          LockedLogs,    \* those that fs::remove cannot remove
          Texts,         \* what is written, in turn, as [level, line]
          Printed,       \* what hw.print writes to the viewer, as [level, line]
          Searches,      \* what the user may type in the search field
          MaxViewers,    \* a bound of the model: how often a viewer is opened
          MaxUses        \* and on prints and clicks in viewers, together

Level == {"trace", "debug", "info", "warn", "error", "critical", "off"}
Text == [level : Level, line : Seq(STRING)]

ASSUME LogAssumption ==
    /\ RingCapacity \in Nat \ {0} /\ KeepFiles \in Nat \ {0}
    /\ TrimCount \in Nat \ {0} /\ KeepMessages \in Nat /\ KeepMessages > TrimCount
    /\ Texts \in Seq(Text) /\ Printed \subseteq Text
    /\ OldLogs \subseteq Nat /\ IsFiniteSet(OldLogs) /\ LockedLogs \subseteq OldLogs

VARIABLES log,      \* the Logger: queue, ring, file, flags
          worker,   \* its worker thread
          client,   \* the thread that opens, closes and prints, then shuts down
          impl,     \* m_impl: the viewer of LogViewer, 0 for none
          viewers,  \* every viewer created, the detached ones too
          logs,     \* the log files of earlier runs still on disk
          accepted, \* history: what write_text queued, in order
          owed,     \* history: how much of it when shutdown began
          uses      \* the prints and clicks so far

vars == <<log, worker, client, impl, viewers, logs, accepted, owed, uses>>

Viewers == 1..MaxViewers
Blank == " "

\* fuzzy_match_positions: the letters of the needle, blanks skipped, in order
\* in the line; a needle of blanks only finds nothing.
FuzzyMatches(line, needle) ==
    LET letters == SelectSeq(needle, LAMBDA c : c # Blank)
    IN letters # <<>> /\ \E at \in [1..Len(letters) -> 1..Len(line)] :
         /\ \A i \in 1..Len(letters) : line[at[i]] = letters[i]
         /\ \A i \in 1..Len(letters) - 1 : at[i] < at[i + 1]

SubstringMatches(line, needle) ==
    \E i \in 0..Len(line) - Len(needle) : SubSeq(line, i + 1, i + Len(needle)) = needle

Visible(view, message) ==
    /\ message.level # "off" => /\ message.sequence > view.cleared
                                /\ message.level \notin view.hidden
    /\ \/ view.search = <<>>
       \/ IF view.fuzzy THEN FuzzyMatches(message.line, view.search)
                        ELSE SubstringMatches(message.line, view.search)

Shown(view) ==
    FoldLeft(LAMBDA shown, m : IF Visible(view, m) THEN Append(shown, m) ELSE shown,
             <<>>, view.messages)

Rebuild(view) == [view EXCEPT !.shown = Shown(view), !.blank = FALSE]

AppendLive(view, message) ==
    LET got == [view EXCEPT !.messages = Append(@, message)]
    IN IF Len(got.messages) > KeepMessages
         THEN Rebuild([got EXCEPT !.messages = SubSeq(@, TrimCount + 1, Len(@))])
       ELSE IF ~got.paused /\ Visible(got, message)
         THEN [got EXCEPT !.shown = Append(@, message)]
         ELSE got

NoViewer == [phase |-> "none", active |-> FALSE, hwnd |-> FALSE, stop |-> FALSE,
             pending |-> <<>>, late |-> <<>>, box |-> <<>>, messages |-> <<>>,
             shown |-> <<>>, cleared |-> 0, hidden |-> {}, paused |-> FALSE,
             fuzzy |-> TRUE, search |-> <<>>, blank |-> FALSE, from |-> 0]

Gone == [NoViewer EXCEPT !.phase = "gone"]

CloseMessage == [sequence |-> 0, level |-> "close", line |-> <<>>]

\* make_run_log_file_path keeps the newest keep_files - 1 logs of earlier runs,
\* and those that it fails to remove.
KeptLogs(old) ==
    LockedLogs \cup {f \in old : Cardinality({g \in old : g > f}) < KeepFiles - 1}

Init ==
    /\ log = [running |-> TRUE, initialized |-> TRUE, queue |-> <<>>, ring |-> <<>>,
              sequence |-> 0, file |-> IF FileOpens THEN "open" ELSE "none",
              lines |-> <<>>]
    /\ worker = [pc |-> "wait", local |-> <<>>, rendered |-> CloseMessage, window |-> 0]
    /\ client = [pc |-> "idle", rendered |-> CloseMessage, window |-> 0, ring |-> <<>>]
    /\ impl = 0
    /\ viewers = [v \in Viewers |-> NoViewer]
    /\ logs = KeptLogs(OldLogs)
    /\ accepted = <<>> /\ owed = 0
    /\ uses = 0

IsOpen == impl # 0 /\ viewers[impl].active

----------------------------------------------------------------------------
(* Writers, the worker and the file.                                       *)

\* write_text, on any thread.
Write ==
    /\ log.initialized /\ Len(accepted) < Len(Texts)
    /\ LET text == Texts[Len(accepted) + 1]
       IN /\ log' = [log EXCEPT !.queue = Append(@, text)]
          /\ accepted' = Append(accepted, text)
    /\ UNCHANGED <<worker, client, impl, viewers, logs, owed, uses>>

\* Mutant: the worker leaves as soon as it is told to, whatever is queued.
LeaveAtOnce == ~log.running

MayLeave == ~log.running /\ log.queue = <<>>

\* run's wait and the swap of the queue.
WorkerWakes ==
    /\ worker.pc = "wait"
    /\ \/ /\ MayLeave
          /\ worker' = [worker EXCEPT !.pc = "done"]
          /\ UNCHANGED log
       \/ /\ ~MayLeave /\ log.queue # <<>>
          /\ worker' = [worker EXCEPT !.pc = "push", !.local = log.queue]
          /\ log' = [log EXCEPT !.queue = <<>>]
    /\ UNCHANGED <<client, impl, viewers, logs, accepted, owed, uses>>

\* Mutant: the ring drops its oldest line one message late.
PushRingLate(message) ==
    LET kept == IF Len(log.ring) > RingCapacity THEN Tail(log.ring) ELSE log.ring
    IN Append(kept, message)

\* push_ring
PushRing(message) ==
    LET kept == IF Len(log.ring) >= RingCapacity THEN Tail(log.ring) ELSE log.ring
    IN Append(kept, message)

WorkerRenders ==
    /\ worker.pc = "push"
    /\ LET text == Head(worker.local)
           rendered == [sequence |-> log.sequence + 1, level |-> text.level,
                        line |-> text.line]
       IN /\ log' = [log EXCEPT !.sequence = @ + 1, !.ring = PushRing(rendered)]
          /\ worker' = [worker EXCEPT !.pc = "look", !.rendered = rendered]
    /\ UNCHANGED <<client, impl, viewers, logs, accepted, owed, uses>>

WorkerWrites ==
    /\ worker.pc = "file"
    /\ log' = [log EXCEPT !.lines = IF log.file = "open" THEN Append(@, worker.rendered)
                                                         ELSE @]
    /\ worker' = [worker EXCEPT !.pc = IF Len(worker.local) > 1 THEN "push" ELSE "wait",
                                !.local = Tail(@), !.rendered = CloseMessage]
    /\ UNCHANGED <<client, impl, viewers, logs, accepted, owed, uses>>

----------------------------------------------------------------------------
(* LogViewer::append, by the worker (hand = worker) or hw.print (client).  *)
(* is_open, active and hwnd are read in one step: reading them one after   *)
(* the other ends in no other place.                                       *)

Look(hand, done) ==
    IF ~IsOpen THEN [hand EXCEPT !.pc = done]
    ELSE IF viewers[impl].hwnd THEN [hand EXCEPT !.pc = "post", !.window = impl]
    ELSE [hand EXCEPT !.pc = "pend"]

\* The second look, under the viewer's mutex: kept while there is no window.
Pend(message) ==
    IF IsOpen /\ ~viewers[impl].hwnd
      THEN [viewers EXCEPT ![impl].pending = Append(@, message)]
      ELSE viewers

HasWindow(v) == viewers[v].phase \in {"created", "late", "posting", "loop"}

\* PostMessageW to a window that is there succeeds: its message queue is never full.
Post(v, message) ==
    IF HasWindow(v) THEN [viewers EXCEPT ![v].box = Append(@, message)] ELSE viewers

WorkerAppends ==
    /\ \/ worker.pc = "look" /\ worker' = Look(worker, "file") /\ UNCHANGED viewers
       \/ /\ worker.pc = "pend" /\ viewers' = Pend(worker.rendered)
          /\ worker' = [worker EXCEPT !.pc = "file"]
       \/ /\ worker.pc = "post" /\ viewers' = Post(worker.window, worker.rendered)
          /\ worker' = [worker EXCEPT !.pc = "file", !.window = 0]
    /\ UNCHANGED <<log, client, impl, logs, accepted, owed, uses>>

\* viewer_print
ViewerPrint(text) ==
    /\ client.pc = "idle" /\ uses < MaxUses /\ IsOpen
    /\ client' = [client EXCEPT !.pc = "look", !.rendered =
                    [sequence |-> 0, level |-> text.level, line |-> text.line]]
    /\ uses' = uses + 1
    /\ UNCHANGED <<log, worker, impl, viewers, logs, accepted, owed>>

Idle == [client EXCEPT !.pc = "idle", !.rendered = CloseMessage, !.window = 0]

ClientAppends ==
    /\ \/ client.pc = "look" /\ client' = Look(client, "idle") /\ UNCHANGED viewers
       \/ client.pc = "pend" /\ viewers' = Pend(client.rendered) /\ client' = Idle
       \/ client.pc = "post" /\ viewers' = Post(client.window, client.rendered)
          /\ client' = Idle
    /\ UNCHANGED <<log, worker, impl, logs, accepted, owed, uses>>

----------------------------------------------------------------------------
(* Opening and closing.                                                    *)

\* open_viewer: the ring is copied under the lock ...
OpenViewer ==
    /\ client.pc = "idle" /\ impl < MaxViewers /\ ~IsOpen
    /\ client' = [client EXCEPT !.pc = "opening", !.ring = log.ring]
    /\ UNCHANGED <<log, worker, impl, viewers, logs, accepted, owed, uses>>

\* ... and LogViewer::open replaces m_impl and starts the thread after it.  The
\* thread before is detached: nothing reaches it any more, and the window it
\* may still have is not followed.
StartViewer ==
    /\ client.pc = "opening"
    /\ impl' = impl + 1
    /\ viewers' = [v \in Viewers |->
         CASE v = impl + 1 -> [NoViewer EXCEPT !.phase = "starting", !.active = TRUE,
                                               !.messages = client.ring]
           [] v = impl -> Gone
           [] OTHER -> viewers[v]]
    /\ client' = [client EXCEPT !.pc = "idle", !.ring = <<>>]
    /\ UNCHANGED <<log, worker, logs, accepted, owed, uses>>

\* close_async, and close's first half: no window yet, nothing is posted.
Closed(view) ==
    [view EXCEPT !.active = FALSE, !.hwnd = FALSE,
                 !.box = IF view.hwnd /\ view.phase \in {"late", "posting", "loop"}
                         THEN Append(@, CloseMessage) ELSE @]

CloseViewer ==
    /\ client.pc = "idle" /\ impl # 0
    /\ viewers' = [viewers EXCEPT ![impl] = Closed(@)]
    /\ UNCHANGED <<log, worker, client, impl, logs, accepted, owed, uses>>

\* shutdown: the worker is stopped and joined, the viewer closed and joined,
\* the file closed, and removed when nothing was written to it.
Shutdown ==
    /\ client.pc = "idle"
    /\ log' = [log EXCEPT !.running = FALSE]
    /\ client' = [client EXCEPT !.pc = "joinWorker"]
    /\ owed' = Len(accepted)
    /\ UNCHANGED <<worker, impl, viewers, logs, accepted, uses>>

\* request_stop runs the callback that posts the close when it is registered.
Stopped(view) ==
    [Closed(view) EXCEPT !.stop = TRUE,
                         !.box = IF view.phase = "loop" THEN Append(@, CloseMessage) ELSE @]

WorkerJoined ==
    /\ client.pc = "joinWorker" /\ worker.pc = "done"
    /\ viewers' = IF impl = 0 THEN viewers ELSE [viewers EXCEPT ![impl] = Stopped(@)]
    /\ client' = [client EXCEPT !.pc = "joinViewer"]
    /\ UNCHANGED <<log, worker, impl, logs, accepted, owed, uses>>

Cleanup ==
    /\ client.pc = "joinViewer" /\ (impl # 0 => viewers[impl].phase = "gone")
    /\ log' = [log EXCEPT !.initialized = FALSE, !.ring = <<>>,
                          !.file = IF @ = "none" THEN @
                                   ELSE IF log.lines = <<>> THEN "removed" ELSE "closed"]
    /\ client' = [client EXCEPT !.pc = "down"]
    /\ UNCHANGED <<worker, impl, viewers, logs, accepted, owed, uses>>

----------------------------------------------------------------------------
(* The viewer's thread.                                                    *)

SetViewer(v, view) ==
    /\ viewers' = [viewers EXCEPT ![v] = view]
    /\ UNCHANGED <<log, worker, client, impl, logs, accepted, owed, uses>>

\* register_class and CreateWindow can fail: the viewer is closed again.
ViewerFails(v) ==
    /\ viewers[v].phase \in {"starting", "creating"}
    /\ SetViewer(v, Gone)

TakePending(v) ==
    /\ viewers[v].phase = "starting"
    /\ SetViewer(v, [viewers[v] EXCEPT !.phase = "creating", !.pending = <<>>,
                                       !.messages = @ \o viewers[v].pending])

\* WM_CREATE builds the text; hwnd is not yet published.
CreateViewerWindow(v) ==
    /\ viewers[v].phase = "creating"
    /\ SetViewer(v, Rebuild([viewers[v] EXCEPT !.phase = "created"]))

PublishWindow(v) ==
    /\ viewers[v].phase = "created"
    /\ SetViewer(v, [viewers[v] EXCEPT !.phase = "late", !.hwnd = TRUE])

TakeLate(v) ==
    /\ viewers[v].phase = "late"
    /\ SetViewer(v, [viewers[v] EXCEPT !.phase = "posting", !.pending = <<>>,
                                       !.late = viewers[v].pending])

PostLate(v) ==
    /\ viewers[v].phase = "posting" /\ viewers[v].late # <<>>
    /\ SetViewer(v, [viewers[v] EXCEPT !.late = Tail(@),
                                       !.box = Append(@, Head(viewers[v].late))])

\* Mutant: the stop callback is registered and does not run for a stop
\* requested before.
EnterLoopUnaware(view) == [view EXCEPT !.phase = "loop", !.from = log.sequence]

\* The stop callback is registered: it runs at once after request_stop.
EnterLoop(view) ==
    [view EXCEPT !.phase = "loop", !.from = log.sequence,
                 !.box = IF view.stop THEN Append(@, CloseMessage) ELSE @]

StartLoop(v) ==
    /\ viewers[v].phase = "posting" /\ viewers[v].late = <<>>
    /\ SetViewer(v, EnterLoop(viewers[v]))

\* The message loop: kAppendMessage, or kCloseMessage, which destroys the
\* window; what the box still holds is dropped.  hwnd and active follow.
HandleMessage(v) ==
    /\ viewers[v].phase = "loop" /\ viewers[v].box # <<>>
    /\ LET view == [viewers[v] EXCEPT !.box = Tail(@)]
           message == Head(viewers[v].box)
       IN SetViewer(v, IF message.level = "close" THEN Gone ELSE AppendLive(view, message))

\* Mutant: resuming shows the lines to come only.
ResumeOnly(view) == [view EXCEPT !.paused = ~@]

PauseButton(view) ==
    LET set == [view EXCEPT !.paused = ~@] IN IF set.paused THEN set ELSE Rebuild(set)

\* WM_COMMAND: the buttons of the window and the search field.
ClearButton(view) ==
    [view EXCEPT !.cleared = IF view.messages = <<>> THEN @
                             ELSE Last(view.messages).sequence,
                 !.shown = <<>>, !.blank = TRUE]

LevelButton(view, level) ==
    Rebuild([view EXCEPT !.hidden = IF level \in @ THEN @ \ {level} ELSE @ \union {level}])

Command(v) ==
    /\ viewers[v].phase = "loop" /\ uses < MaxUses
    /\ \E view \in {ClearButton(viewers[v]), PauseButton(viewers[v]),
                    Rebuild([viewers[v] EXCEPT !.fuzzy = ~@])}
             \union {LevelButton(viewers[v], text.level) : text \in Range(Texts)}
             \union {Rebuild([viewers[v] EXCEPT !.search = s]) : s \in Searches} :
         viewers' = [viewers EXCEPT ![v] = view]
    /\ uses' = uses + 1
    /\ UNCHANGED <<log, worker, client, impl, logs, accepted, owed>>

\* WM_CLOSE from the user.
UserCloses(v) ==
    /\ viewers[v].phase = "loop" /\ uses < MaxUses
    /\ viewers' = [viewers EXCEPT ![v] = Gone]
    /\ uses' = uses + 1
    /\ UNCHANGED <<log, worker, client, impl, logs, accepted, owed>>

----------------------------------------------------------------------------

WorkerStep == WorkerWakes \/ WorkerRenders \/ WorkerAppends \/ WorkerWrites
ClientStep == ClientAppends \/ StartViewer \/ WorkerJoined \/ Cleanup
ViewerStep(v) == TakePending(v) \/ CreateViewerWindow(v) \/ PublishWindow(v)
                   \/ TakeLate(v) \/ PostLate(v) \/ StartLoop(v) \/ HandleMessage(v)

Next ==
    \/ Write \/ \E text \in Printed : ViewerPrint(text)
    \/ OpenViewer \/ CloseViewer \/ Shutdown
    \/ WorkerStep \/ ClientStep
    \/ \E v \in Viewers : ViewerStep(v) \/ ViewerFails(v) \/ Command(v) \/ UserCloses(v)

\* Threads that can take a step take one: the worker, the viewers' threads and
\* the client once it has begun an operation.  Nobody has to write or click.
Fairness ==
    /\ WF_vars(WorkerStep) /\ WF_vars(ClientStep)
    /\ \A v \in Viewers : WF_vars(ViewerStep(v))

Spec == Init /\ [][Next]_vars /\ Fairness

----------------------------------------------------------------------------

\* What is kept is the newest, and no more of it than the limit: the ring ends
\* with the last line numbered and has no gap, so that a viewer starts with
\* the newest lines; of the log files, with this run's and but for those that
\* cannot be removed, no more than the limit stay, and one is removed only if
\* so many newer ones stay (log.cpp:207, 324).
KeepsTheNewest ==
    /\ client.pc # "down" =>
         /\ Len(log.ring) = (IF log.sequence < RingCapacity THEN log.sequence ELSE RingCapacity)
         /\ \A i \in 1..Len(log.ring) :
              log.ring[i].sequence = log.sequence - Len(log.ring) + i
    /\ Cardinality(logs \ LockedLogs) + 1 <= KeepFiles
    /\ \A f \in OldLogs \ logs : Cardinality({g \in logs : g > f}) + 1 >= KeepFiles

\* What the worker still has to write, in order.
Unwritten ==
    (IF worker.pc \in {"push", "look", "pend", "post", "file"} THEN worker.local ELSE <<>>)
      \o log.queue

Content(message) == [level |-> message.level, line |-> message.line]

\* Nothing written is lost or reordered on its way to the file, across the
\* swap of the queue and the shutdown: the file and what is on its way are
\* what was accepted, and when the worker has left, the file has everything
\* accepted before the shutdown began (log.cpp:223, 103).
LogIsComplete ==
    log.file # "none" =>
      /\ [i \in 1..Len(log.lines) |-> Content(log.lines[i])] \o Unwritten = accepted
      /\ \A i \in 1..Len(log.lines) : log.lines[i].sequence = i
      /\ worker.pc = "done" => Len(log.lines) >= owed
      /\ log.file = "removed" => owed = 0

\* A viewer that is open and has reached its message loop receives every line
\* rendered since, once and in order, and drops the oldest only when it keeps
\* many; and unless it is paused or was cleared, it shows exactly the lines it
\* keeps that its filters let through (log_window.cpp:444, 728-775).
Received(v) == viewers[v].messages \o viewers[v].box

Delivered == IF worker.pc \in {"look", "pend", "post"} THEN log.sequence - 1
                                                       ELSE log.sequence

ViewerFollowsLog ==
    \A v \in Viewers :
      LET view == viewers[v]
          received == Received(v)
          new == {i \in DOMAIN received : received[i].sequence > view.from}
          Has(n) == \E i \in new : received[i].sequence = n
      IN /\ view.phase = "loop" /\ view.active =>
              /\ \A i, j \in new : i < j => received[i].sequence < received[j].sequence
              /\ \A i \in new : /\ received[i].sequence <= Delivered
                                /\ \A n \in received[i].sequence .. Delivered : Has(n)
              /\ Len(view.messages) < KeepMessages - TrimCount =>
                   \A n \in view.from + 1 .. Delivered : Has(n)
         /\ view.phase = "loop" /\ ~view.paused /\ ~view.blank => view.shown = Shown(view)

\* The shutdown ends, whatever the viewer is doing: starting, failing, being
\* closed at the same time (log.cpp:103, log_window.cpp:935).
ShutdownCompletes == client.pc = "joinWorker" ~> client.pc = "down"
=============================================================================
