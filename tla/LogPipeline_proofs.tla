-------------------------- MODULE LogPipeline_proofs --------------------------
(***************************************************************************)
(* Proofs about LogPipeline, for any capacities, files, texts and viewers: *)
(* what the ring and the directory keep, that the file is complete, and    *)
(* that a viewer follows the log.                                          *)
(***************************************************************************)
EXTENDS LogPipeline, SequenceTheorems, FiniteSetTheorems, WellFoundedInduction, TLAPS

Message == [sequence : Nat, level : Level \cup {"close"}, line : Seq(STRING)]

LogTypeOK ==
  /\ log \in [running : BOOLEAN, initialized : BOOLEAN, queue : Seq(Text), ring : Seq(Message),
              sequence : Nat, file : {"none", "open", "closed", "removed"}, lines : Seq(Message)]
  /\ accepted \in Seq(Text)
  /\ owed \in Nat

WorkerTypeOK ==
  worker \in [pc : {"wait", "push", "look", "pend", "post", "file", "done"},
              local : Seq(Text), rendered : Message, window : Nat]

ClientTypeOK ==
  /\ client \in [pc : {"idle", "look", "pend", "post", "opening", "joinWorker", "joinViewer", "down"},
                 rendered : Message, window : Nat, ring : Seq(Message)]
  /\ impl \in Nat

TypeOK == LogTypeOK /\ WorkerTypeOK /\ ClientTypeOK

(***************************************************************************)
(* The order of the shutdown: the flag, the end of the worker, the file.   *)
(***************************************************************************)
StopInv ==
  /\ log.running <=> client.pc \notin {"joinWorker", "joinViewer", "down"}
  /\ worker.pc = "done" => ~log.running
  /\ client.pc \in {"joinViewer", "down"} => worker.pc = "done"
  /\ log.file \in {"closed", "removed"} => client.pc = "down"
  /\ owed <= Len(accepted)

(***************************************************************************)
(* The line the worker has rendered is the next of those it has taken.     *)
(***************************************************************************)
Rendered == worker.pc \in {"look", "pend", "post", "file"}
Busy == worker.pc = "push" \/ Rendered

WorkInv ==
  /\ Busy => worker.local # <<>>
  /\ Rendered => /\ worker.rendered.sequence = log.sequence
                 /\ Content(worker.rendered) = Head(worker.local)

Written == [i \in 1..Len(log.lines) |-> Content(log.lines[i])]

FileInv ==
  log.file # "none" =>
    /\ Written \o Unwritten = accepted
    /\ \A i \in 1..Len(log.lines) : log.lines[i].sequence = i
    /\ Len(log.lines) = IF Rendered THEN log.sequence - 1 ELSE log.sequence
    /\ worker.pc = "done" => Len(log.lines) >= owed
    /\ log.file = "removed" => owed = 0

RingInv ==
  client.pc # "down" =>
    /\ Len(log.ring) = (IF log.sequence < RingCapacity THEN log.sequence ELSE RingCapacity)
    /\ \A i \in 1..Len(log.ring) : log.ring[i].sequence = log.sequence - Len(log.ring) + i

KeptInv == logs = KeptLogs(OldLogs)

IInv == TypeOK /\ StopInv /\ WorkInv /\ FileInv /\ RingInv /\ KeptInv

-------------------------------------------------------------------------------
\* The viewers' threads and their users change the viewers only.
core == <<log, worker, client, impl, accepted, owed>>

LEMMA ViewersAlone ==
  ASSUME \/ CloseViewer \/ UNCHANGED vars
         \/ \E v \in Viewers : ViewerStep(v) \/ ViewerFails(v) \/ Command(v) \/ UserCloses(v)
  PROVE  UNCHANGED core
<1>1. CASE CloseViewer \/ UNCHANGED vars
  BY <1>1 DEF CloseViewer, vars, core
<1>2. ASSUME NEW v \in Viewers, ViewerStep(v) \/ ViewerFails(v) \/ Command(v) \/ UserCloses(v)
      PROVE  UNCHANGED core
  BY <1>2 DEF ViewerStep, TakePending, CreateViewerWindow, PublishWindow, TakeLate, PostLate, StartLoop,
              HandleMessage, ViewerFails, SetViewer, Command, UserCloses, core
<1> QED
  BY <1>1, <1>2

LEMMA Steps ==
  ASSUME [Next]_vars
  PROVE  \/ UNCHANGED core
         \/ Write \/ \E text \in Printed : ViewerPrint(text)
         \/ OpenViewer \/ Shutdown
         \/ WorkerWakes \/ WorkerRenders \/ WorkerAppends \/ WorkerWrites
         \/ ClientAppends \/ StartViewer \/ WorkerJoined \/ Cleanup
BY ViewersAlone DEF Next, WorkerStep, ClientStep

-------------------------------------------------------------------------------
\* Types.

LEMMA CloseMessageType == CloseMessage \in Message
<1>1. <<>> \in Seq(STRING)
  OBVIOUS
<1> QED
  BY <1>1 DEF CloseMessage, Message

LEMMA NextTextType ==
  ASSUME LogTypeOK, Len(accepted) < Len(Texts)
  PROVE  Texts[Len(accepted) + 1] \in Text
BY LogAssumption DEF LogAssumption, LogTypeOK

LEMMA RenderedType ==
  ASSUME LogTypeOK, WorkerTypeOK, worker.local # <<>>
  PROVE  /\ Head(worker.local) \in Text
         /\ [sequence |-> log.sequence + 1, level |-> Head(worker.local).level,
             line |-> Head(worker.local).line] \in Message
<1>1. Head(worker.local) \in Text
  BY DEF WorkerTypeOK
<1> QED
  BY <1>1 DEF LogTypeOK, Message, Text

LEMMA PushRingType ==
  ASSUME LogTypeOK, NEW message \in Message
  PROVE  PushRing(message) \in Seq(Message)
<1>1. log.ring \in Seq(Message) /\ Len(log.ring) \in Nat
  BY DEF LogTypeOK
<1>2. Len(log.ring) >= RingCapacity => Tail(log.ring) \in Seq(Message)
  <2>1. RingCapacity \in Nat /\ RingCapacity > 0
    BY LogAssumption DEF LogAssumption
  <2> QED
    BY <1>1, <2>1, EmptySeq
<1>3. (IF Len(log.ring) >= RingCapacity THEN Tail(log.ring) ELSE log.ring) \in Seq(Message)
  BY <1>1, <1>2
<1> QED
  BY <1>3, AppendProperties DEF PushRing

LEMMA InitTypeOK == Init => TypeOK
<1> SUFFICES ASSUME Init PROVE TypeOK
  OBVIOUS
<1>1. <<>> \in Seq(Text) /\ <<>> \in Seq(Message)
  OBVIOUS
<1>2. LogTypeOK
  BY <1>1 DEF Init, LogTypeOK
<1>3. WorkerTypeOK
  BY <1>1, CloseMessageType DEF Init, WorkerTypeOK
<1>4. ClientTypeOK
  BY <1>1, CloseMessageType DEF Init, ClientTypeOK
<1> QED
  BY <1>2, <1>3, <1>4 DEF TypeOK

LEMMA NextLogTypeOK ==
  ASSUME TypeOK, WorkInv, [Next]_vars
  PROVE  LogTypeOK'
<1> USE DEF TypeOK
<1>1. CASE Write
  <2>1. PICK text \in Text : log' = [log EXCEPT !.queue = Append(@, text)] /\ accepted' = Append(accepted, text)
    BY <1>1, NextTextType DEF Write
  <2>2. Append(log.queue, text) \in Seq(Text) /\ Append(accepted, text) \in Seq(Text)
    BY DEF LogTypeOK
  <2> QED
    BY <1>1, <2>1, <2>2 DEF Write, LogTypeOK
<1>2. CASE WorkerWakes
  <2>1. <<>> \in Seq(Text)
    OBVIOUS
  <2> QED
    BY <1>2, <2>1 DEF WorkerWakes, LogTypeOK
<1>3. CASE WorkerRenders
  <2>1. worker.local # <<>>
    BY <1>3 DEF WorkerRenders, WorkInv, Busy
  <2>2. PICK rendered \in Message : log' = [log EXCEPT !.sequence = @ + 1, !.ring = PushRing(rendered)]
    BY <1>3, <2>1, RenderedType DEF WorkerRenders
  <2>3. PICK ring \in Seq(Message) : ring = PushRing(rendered)
    BY PushRingType
  <2>4. PICK n \in Nat : n = log.sequence + 1
    BY DEF LogTypeOK
  <2>5. log' = [log EXCEPT !.sequence = n, !.ring = ring]
    BY <2>2, <2>3, <2>4
  <2>6. accepted' = accepted /\ owed' = owed
    BY <1>3 DEF WorkerRenders
  <2> QED
    BY <2>5, <2>6 DEF LogTypeOK
<1>4. CASE WorkerWrites
  <2>1. log.lines \in Seq(Message) /\ worker.rendered \in Message
    BY DEF LogTypeOK, WorkerTypeOK
  <2>2. Append(log.lines, worker.rendered) \in Seq(Message)
    BY <2>1
  <2>3. \/ log' = log
        \/ log' = [log EXCEPT !.lines = Append(log.lines, worker.rendered)]
    <3>1. CASE log.file = "open"
      BY <1>4, <3>1 DEF WorkerWrites
    <3>2. CASE log.file # "open"
      BY <1>4, <3>2 DEF WorkerWrites, LogTypeOK
    <3> QED
      BY <3>1, <3>2
  <2>4. accepted' = accepted /\ owed' = owed
    BY <1>4 DEF WorkerWrites
  <2> QED
    BY <2>2, <2>3, <2>4 DEF LogTypeOK
<1>5. CASE Shutdown
  <2>1. Len(accepted) \in Nat
    BY DEF LogTypeOK
  <2> QED
    BY <1>5, <2>1 DEF Shutdown, LogTypeOK
<1>6. CASE Cleanup
  <2>1. <<>> \in Seq(Message)
    OBVIOUS
  <2> QED
    BY <1>6, <2>1 DEF Cleanup, LogTypeOK
<1>7. CASE \/ UNCHANGED core \/ \E text \in Printed : ViewerPrint(text)
           \/ OpenViewer \/ WorkerAppends \/ ClientAppends \/ StartViewer \/ WorkerJoined
  <2>1. UNCHANGED <<log, accepted, owed>>
    BY <1>7 DEF core, ViewerPrint, OpenViewer, WorkerAppends, ClientAppends, StartViewer, WorkerJoined
  <2> QED
    BY <2>1 DEF LogTypeOK
<1> QED
  BY <1>1, <1>2, <1>3, <1>4, <1>5, <1>6, <1>7, Steps

\* A hand that looks goes on to post, to keep or to what comes after.
LEMMA LookStep ==
  ASSUME NEW hand, NEW done
  PROVE  \/ Look(hand, done) = [hand EXCEPT !.pc = done]
         \/ Look(hand, done) = [hand EXCEPT !.pc = "post", !.window = impl]
         \/ Look(hand, done) = [hand EXCEPT !.pc = "pend"]
BY DEF Look

LEMMA WorkerLooks ==
  ASSUME WorkerTypeOK, worker' = Look(worker, "file")
  PROVE  /\ worker'.pc \in {"pend", "post", "file"}
         /\ worker'.local = worker.local /\ worker'.rendered = worker.rendered
<1>1. \/ worker' = [worker EXCEPT !.pc = "file"]
      \/ worker' = [worker EXCEPT !.pc = "post", !.window = impl]
      \/ worker' = [worker EXCEPT !.pc = "pend"]
  BY LookStep
<1>2. CASE worker' = [worker EXCEPT !.pc = "file"]
  BY <1>2 DEF WorkerTypeOK
<1>3. CASE worker' = [worker EXCEPT !.pc = "post", !.window = impl]
  BY <1>3 DEF WorkerTypeOK
<1>4. CASE worker' = [worker EXCEPT !.pc = "pend"]
  BY <1>4 DEF WorkerTypeOK
<1> QED
  BY <1>1, <1>2, <1>3, <1>4

LEMMA ClientLooks ==
  ASSUME ClientTypeOK, client' = Look(client, "idle")
  PROVE  client'.pc \in {"pend", "post", "idle"}
<1>1. \/ client' = [client EXCEPT !.pc = "idle"]
      \/ client' = [client EXCEPT !.pc = "post", !.window = impl]
      \/ client' = [client EXCEPT !.pc = "pend"]
  BY LookStep
<1>2. CASE client' = [client EXCEPT !.pc = "idle"]
  BY <1>2 DEF ClientTypeOK
<1>3. CASE client' = [client EXCEPT !.pc = "post", !.window = impl]
  BY <1>3 DEF ClientTypeOK
<1>4. CASE client' = [client EXCEPT !.pc = "pend"]
  BY <1>4 DEF ClientTypeOK
<1> QED
  BY <1>1, <1>2, <1>3, <1>4

LEMMA NextWorkerTypeOK ==
  ASSUME TypeOK, WorkInv, [Next]_vars
  PROVE  WorkerTypeOK'
<1> USE DEF TypeOK
<1>1. CASE WorkerWakes
  BY <1>1 DEF WorkerWakes, LogTypeOK, WorkerTypeOK
<1>2. CASE WorkerRenders
  <2>1. worker.local # <<>>
    BY <1>2 DEF WorkerRenders, WorkInv, Busy
  <2>2. PICK rendered \in Message : worker' = [worker EXCEPT !.pc = "look", !.rendered = rendered]
    BY <1>2, <2>1, RenderedType DEF WorkerRenders
  <2> QED
    BY <2>2 DEF WorkerTypeOK
<1>3. CASE WorkerAppends
  <2>1. CASE worker.pc = "look" /\ worker' = Look(worker, "file")
    <3>1. \/ worker' = [worker EXCEPT !.pc = "file"]
          \/ worker' = [worker EXCEPT !.pc = "post", !.window = impl]
          \/ worker' = [worker EXCEPT !.pc = "pend"]
      BY <2>1, LookStep
    <3>2. CASE worker' = [worker EXCEPT !.pc = "file"]
      BY <3>2 DEF WorkerTypeOK
    <3>3. CASE worker' = [worker EXCEPT !.pc = "post", !.window = impl]
      BY <3>3 DEF WorkerTypeOK, ClientTypeOK
    <3>4. CASE worker' = [worker EXCEPT !.pc = "pend"]
      BY <3>4 DEF WorkerTypeOK
    <3> QED
      BY <3>1, <3>2, <3>3, <3>4
  <2>2. CASE worker' = [worker EXCEPT !.pc = "file"]
    BY <2>2 DEF WorkerTypeOK
  <2>3. CASE worker' = [worker EXCEPT !.pc = "file", !.window = 0]
    BY <2>3 DEF WorkerTypeOK
  <2> QED
    BY <1>3, <2>1, <2>2, <2>3 DEF WorkerAppends
<1>4. CASE WorkerWrites
  <2>1. worker.local # <<>> /\ worker.local \in Seq(Text)
    BY <1>4 DEF WorkerWrites, WorkInv, Busy, Rendered, WorkerTypeOK
  <2>2. Tail(worker.local) \in Seq(Text)
    BY <2>1
  <2>3. \E pc \in {"push", "wait"} :
          worker' = [worker EXCEPT !.pc = pc, !.local = Tail(worker.local), !.rendered = CloseMessage]
    BY <1>4 DEF WorkerWrites, WorkerTypeOK
  <2> QED
    BY <2>2, <2>3, CloseMessageType DEF WorkerTypeOK
<1>5. CASE ~(WorkerWakes \/ WorkerRenders \/ WorkerAppends \/ WorkerWrites)
  <2>1. worker' = worker
    BY <1>5, Steps DEF core, Write, ViewerPrint, OpenViewer, Shutdown, ClientAppends, StartViewer, WorkerJoined, Cleanup
  <2> QED
    BY <2>1 DEF WorkerTypeOK
<1> QED
  BY <1>1, <1>2, <1>3, <1>4, <1>5

LEMMA NextClientTypeOK ==
  ASSUME TypeOK, [Next]_vars
  PROVE  ClientTypeOK'
<1> USE DEF TypeOK
<1>1. ASSUME NEW text \in Printed, ViewerPrint(text) PROVE ClientTypeOK'
  <2>1. [sequence |-> 0, level |-> text.level, line |-> text.line] \in Message
    BY LogAssumption DEF LogAssumption, Text, Message
  <2> QED
    BY <1>1, <2>1 DEF ViewerPrint, ClientTypeOK
<1>2. CASE OpenViewer
  BY <1>2 DEF OpenViewer, LogTypeOK, ClientTypeOK
<1>3. CASE Shutdown \/ WorkerJoined \/ Cleanup
  BY <1>3 DEF Shutdown, WorkerJoined, Cleanup, ClientTypeOK
<1>4. CASE ClientAppends
  <2>1. CASE client' = Look(client, "idle")
    <3>1. \/ client' = [client EXCEPT !.pc = "idle"]
          \/ client' = [client EXCEPT !.pc = "post", !.window = impl]
          \/ client' = [client EXCEPT !.pc = "pend"]
      BY <2>1, LookStep
    <3>2. impl' = impl /\ impl \in Nat
      BY <1>4 DEF ClientAppends, ClientTypeOK
    <3>3. CASE client' = [client EXCEPT !.pc = "idle"] \/ client' = [client EXCEPT !.pc = "pend"]
      BY <3>2, <3>3 DEF ClientTypeOK
    <3>4. CASE client' = [client EXCEPT !.pc = "post", !.window = impl]
      BY <3>2, <3>4 DEF ClientTypeOK
    <3> QED
      BY <3>1, <3>3, <3>4
  <2>2. CASE client' = Idle
    BY <1>4, <2>2, CloseMessageType DEF ClientAppends, Idle, ClientTypeOK
  <2> QED
    BY <1>4, <2>1, <2>2 DEF ClientAppends
<1>5. CASE StartViewer
  <2>1. <<>> \in Seq(Message)
    OBVIOUS
  <2>2. client' = [client EXCEPT !.pc = "idle", !.ring = <<>>] /\ impl' = impl + 1
    BY <1>5 DEF StartViewer
  <2>3. impl' \in Nat
    BY <2>2 DEF ClientTypeOK
  <2>4. client' \in [pc : {"idle"}, rendered : Message, window : Nat, ring : Seq(Message)]
    BY <2>1, <2>2 DEF ClientTypeOK
  <2> QED
    BY <2>3, <2>4 DEF ClientTypeOK
<1>6. CASE UNCHANGED core \/ Write \/ WorkerWakes \/ WorkerRenders \/ WorkerAppends \/ WorkerWrites
  <2>1. UNCHANGED <<client, impl>>
    BY <1>6 DEF core, Write, WorkerWakes, WorkerRenders, WorkerAppends, WorkerWrites
  <2> QED
    BY <2>1 DEF ClientTypeOK
<1> QED
  BY <1>1, <1>2, <1>3, <1>4, <1>5, <1>6, Steps

-------------------------------------------------------------------------------
\* The shutdown.

LEMMA NextStopInv ==
  ASSUME TypeOK, WorkInv, FileInv, StopInv, [Next]_vars
  PROVE  StopInv'
<1> USE DEF TypeOK
<1>0. Len(accepted) \in Nat /\ owed \in Nat
  BY DEF LogTypeOK
<1>1. CASE Write
  <2>1. log'.running = log.running /\ log'.file = log.file /\ UNCHANGED <<client, worker, owed>>
    BY <1>1 DEF Write, LogTypeOK
  <2>2. Len(accepted') = Len(accepted) + 1
    <3>1. PICK text \in Text : accepted' = Append(accepted, text)
      BY <1>1, NextTextType DEF Write
    <3> QED
      BY <3>1 DEF LogTypeOK
  <2> QED
    BY <1>0, <2>1, <2>2 DEF StopInv
<1>2. CASE WorkerWakes
  <2>1. log'.running = log.running /\ log'.file = log.file /\ UNCHANGED <<client, accepted, owed>>
    BY <1>2 DEF WorkerWakes, LogTypeOK
  <2>2. worker'.pc = "done" => ~log.running
    <3>1. CASE MayLeave
      BY <3>1 DEF MayLeave
    <3>2. CASE ~MayLeave
      <4>1. worker' = [worker EXCEPT !.pc = "push", !.local = log.queue]
        BY <1>2, <3>2 DEF WorkerWakes
      <4> QED
        BY <4>1 DEF WorkerTypeOK
    <3> QED
      BY <3>1, <3>2
  <2>3. worker.pc # "done"
    BY <1>2 DEF WorkerWakes
  <2> QED
    BY <2>1, <2>2, <2>3 DEF StopInv
<1>3. CASE WorkerRenders \/ WorkerAppends \/ WorkerWrites
  <2>1. log'.running = log.running /\ log'.file = log.file /\ UNCHANGED <<client, accepted, owed>>
    <3>1. CASE WorkerRenders
      BY <3>1 DEF WorkerRenders, LogTypeOK
    <3>2. CASE WorkerAppends
      BY <3>2 DEF WorkerAppends
    <3>3. CASE WorkerWrites
      BY <3>3 DEF WorkerWrites, LogTypeOK
    <3> QED
      BY <1>3, <3>1, <3>2, <3>3
  <2>2. worker.pc # "done" /\ worker'.pc # "done"
    <3>1. CASE WorkerRenders
      BY <3>1 DEF WorkerRenders, WorkerTypeOK
    <3>2. CASE WorkerAppends
      <4>1. worker.pc # "done"
        BY <3>2 DEF WorkerAppends
      <4>2. CASE worker' = Look(worker, "file")
        BY <4>1, <4>2, WorkerLooks
      <4>3. CASE worker' # Look(worker, "file")
        BY <3>2, <4>3 DEF WorkerAppends, WorkerTypeOK
      <4> QED
        BY <4>1, <4>2, <4>3
    <3>3. CASE WorkerWrites
      BY <3>3 DEF WorkerWrites, WorkerTypeOK
    <3> QED
      BY <1>3, <3>1, <3>2, <3>3
  <2> QED
    BY <2>1, <2>2 DEF StopInv
<1>4. CASE Shutdown
  <2>1. /\ log'.running = FALSE /\ log'.file = log.file /\ client.pc = "idle" /\ client'.pc = "joinWorker"
        /\ UNCHANGED <<worker, accepted>> /\ owed' = Len(accepted)
    BY <1>4 DEF Shutdown, LogTypeOK, ClientTypeOK
  <2> QED
    BY <1>0, <2>1 DEF StopInv
<1>5. CASE WorkerJoined
  <2>1. /\ log' = log /\ client.pc = "joinWorker" /\ client'.pc = "joinViewer" /\ worker.pc = "done"
        /\ UNCHANGED <<worker, accepted, owed>>
    BY <1>5 DEF WorkerJoined, ClientTypeOK
  <2> QED
    BY <2>1 DEF StopInv
<1>6. CASE Cleanup
  <2>1. /\ log'.running = log.running /\ client.pc = "joinViewer" /\ client'.pc = "down"
        /\ UNCHANGED <<worker, accepted, owed>>
    BY <1>6 DEF Cleanup, ClientTypeOK, LogTypeOK
  <2> QED
    BY <2>1 DEF StopInv
<1>7. CASE \/ UNCHANGED core \/ \E text \in Printed : ViewerPrint(text)
           \/ OpenViewer \/ ClientAppends \/ StartViewer
  <2>1. UNCHANGED <<log, worker, accepted, owed>>
    BY <1>7 DEF core, ViewerPrint, OpenViewer, ClientAppends, StartViewer
  <2>2. client'.pc = client.pc \/ {client.pc, client'.pc} \cap {"joinWorker", "joinViewer", "down"} = {}
    <3>1. CASE UNCHANGED core
      BY <3>1 DEF core
    <3>2. CASE (\E text \in Printed : ViewerPrint(text)) \/ OpenViewer \/ StartViewer
      BY <3>2 DEF ViewerPrint, OpenViewer, StartViewer, ClientTypeOK
    <3>3. CASE ClientAppends
      <4>1. client.pc \in {"look", "pend", "post"}
        BY <3>3 DEF ClientAppends
      <4>2. CASE client' = Look(client, "idle")
        BY <4>1, <4>2, ClientLooks
      <4>3. CASE client' = Idle
        BY <4>1, <4>3 DEF Idle, ClientTypeOK
      <4> QED
        BY <3>3, <4>2, <4>3 DEF ClientAppends
    <3> QED
      BY <1>7, <3>1, <3>2, <3>3
  <2> QED
    BY <2>1, <2>2 DEF StopInv
<1> QED
  BY <1>1, <1>2, <1>3, <1>4, <1>5, <1>6, <1>7, Steps

-------------------------------------------------------------------------------
\* What the worker has in hand.

\* The other threads take nothing from it.
LEMMA OthersAlone ==
  ASSUME TypeOK, [Next]_vars, ~(WorkerWakes \/ WorkerRenders \/ WorkerAppends \/ WorkerWrites)
  PROVE  worker' = worker /\ log'.sequence = log.sequence /\ log'.lines = log.lines
<1>1. CASE Write \/ Shutdown \/ Cleanup
  BY <1>1 DEF Write, Shutdown, Cleanup, TypeOK, LogTypeOK
<1>2. CASE ~(Write \/ Shutdown \/ Cleanup)
  BY <1>2, Steps DEF core, ViewerPrint, OpenViewer, ClientAppends, StartViewer, WorkerJoined
<1> QED
  BY <1>1, <1>2

LEMMA WorkerAppendsPc ==
  ASSUME TypeOK, WorkerAppends
  PROVE  /\ worker.pc \in {"look", "pend", "post"} /\ worker'.pc \in {"pend", "post", "file"}
         /\ worker'.local = worker.local /\ worker'.rendered = worker.rendered
         /\ UNCHANGED <<log, accepted, owed>>
<1>1. worker.pc \in {"look", "pend", "post"} /\ UNCHANGED <<log, accepted, owed>>
  BY DEF WorkerAppends
<1>2. CASE worker' = Look(worker, "file")
  BY <1>1, <1>2, WorkerLooks DEF TypeOK
<1>3. CASE worker' # Look(worker, "file")
  BY <1>1, <1>3 DEF WorkerAppends, TypeOK, WorkerTypeOK
<1> QED
  BY <1>1, <1>2, <1>3

LEMMA NextWorkInv ==
  ASSUME TypeOK, WorkInv, [Next]_vars
  PROVE  WorkInv'
<1>1. CASE WorkerWakes
  <2>1. worker'.pc \in {"done", "push"} /\ (worker'.pc = "push" => worker'.local # <<>>)
    BY <1>1 DEF WorkerWakes, TypeOK, WorkerTypeOK
  <2> QED
    BY <2>1 DEF WorkInv, Busy, Rendered
<1>2. CASE WorkerRenders
  <2>1. worker.local # <<>>
    BY <1>2 DEF WorkerRenders, WorkInv, Busy
  <2> DEFINE text == Head(worker.local)
             rendered == [sequence |-> log.sequence + 1, level |-> text.level, line |-> text.line]
  <2>2. text \in Text /\ rendered \in Message
    BY <2>1, RenderedType DEF TypeOK
  <2>3. rendered.sequence = log.sequence + 1 /\ Content(rendered) = text
    BY <2>2 DEF Content, Text
  <2>4. worker' = [worker EXCEPT !.pc = "look", !.rendered = rendered]
    BY <1>2 DEF WorkerRenders
  <2>5. log'.sequence = log.sequence + 1
    BY <1>2 DEF WorkerRenders, TypeOK, LogTypeOK
  <2>6. worker'.local = worker.local /\ worker'.rendered = rendered
    BY <2>4 DEF TypeOK, WorkerTypeOK
  <2> QED
    BY <2>1, <2>3, <2>5, <2>6 DEF WorkInv
<1>3. CASE WorkerAppends
  <2>1. /\ Rendered /\ worker'.local = worker.local /\ worker'.rendered = worker.rendered
        /\ log' = log
    BY <1>3, WorkerAppendsPc DEF Rendered
  <2> QED
    BY <2>1 DEF WorkInv, Busy
<1>4. CASE WorkerWrites
  <2>1. worker.local # <<>> /\ worker.local \in Seq(Text)
    BY <1>4 DEF WorkerWrites, WorkInv, Busy, Rendered, TypeOK, WorkerTypeOK
  <2>2. /\ worker'.pc = IF Len(worker.local) > 1 THEN "push" ELSE "wait"
        /\ worker'.local = Tail(worker.local)
    BY <1>4 DEF WorkerWrites, TypeOK, WorkerTypeOK
  <2>3. Len(worker.local) > 1 => Tail(worker.local) # <<>>
    <3>1. Len(Tail(worker.local)) = Len(worker.local) - 1 /\ Len(worker.local) \in Nat
      BY <2>1
    <3>2. PICK t \in Seq(Text) : t = Tail(worker.local)
      BY <2>1, HeadTailProperties
    <3>3. t # <<>> \/ Len(t) = 0
      BY <3>2
    <3> QED
      BY <3>1, <3>2, <3>3
  <2> QED
    BY <2>2, <2>3 DEF WorkInv, Busy, Rendered
<1>5. CASE ~(WorkerWakes \/ WorkerRenders \/ WorkerAppends \/ WorkerWrites)
  <2>1. worker' = worker /\ log'.sequence = log.sequence
    BY <1>5, OthersAlone
  <2> QED
    BY <2>1 DEF WorkInv, Busy, Rendered
<1> QED
  BY <1>1, <1>2, <1>3, <1>4, <1>5

-------------------------------------------------------------------------------
\* The ring.

LEMMA PushRingIs ==
  ASSUME LogTypeOK, NEW message \in Message
  PROVE  \/ /\ Len(log.ring) < RingCapacity
            /\ Len(PushRing(message)) = Len(log.ring) + 1
            /\ \A i \in 1..Len(log.ring) : PushRing(message)[i] = log.ring[i]
            /\ PushRing(message)[Len(log.ring) + 1] = message
         \/ /\ Len(log.ring) >= RingCapacity
            /\ Len(PushRing(message)) = Len(log.ring)
            /\ \A i \in 1..Len(log.ring) - 1 : PushRing(message)[i] = log.ring[i + 1]
            /\ PushRing(message)[Len(log.ring)] = message
<1>0. log.ring \in Seq(Message) /\ Len(log.ring) \in Nat /\ RingCapacity \in Nat /\ RingCapacity > 0
  BY LogAssumption DEF LogTypeOK, LogAssumption
<1>1. CASE Len(log.ring) < RingCapacity
  <2>1. PushRing(message) = Append(log.ring, message)
    BY <1>0, <1>1 DEF PushRing
  <2> QED
    BY <1>0, <1>1, <2>1
<1>2. CASE ~(Len(log.ring) < RingCapacity)
  <2>1. PushRing(message) = Append(Tail(log.ring), message)
    BY <1>0, <1>2 DEF PushRing
  <2>2. PICK r \in Seq(Message) : r = log.ring /\ r # <<>> /\ Len(r) > 0
    BY <1>0, <1>2
  <2>3. PICK t \in Seq(Message) : t = Tail(r) /\ Len(t) = Len(r) - 1 /\ \A i \in 1..Len(t) : t[i] = r[i + 1]
    <3>1. /\ Tail(r) \in Seq(Message) /\ Len(Tail(r)) = Len(r) - 1
          /\ \A i \in 1..Len(Tail(r)) : Tail(r)[i] = r[i + 1]
      BY <2>2, HeadTailProperties
    <3> QED
      BY <3>1
  <2>4. /\ Len(Append(t, message)) = Len(t) + 1
        /\ \A i \in 1..Len(t) : Append(t, message)[i] = t[i]
        /\ Append(t, message)[Len(t) + 1] = message
    BY <2>3, AppendProperties
  <2>5. Len(r) \in Nat /\ Len(t) \in Nat
    BY <2>2, <2>3
  <2> QED
    BY <1>0, <1>2, <2>1, <2>2, <2>3, <2>4, <2>5
<1> QED
  BY <1>1, <1>2

LEMMA SameRing ==
  ASSUME RingInv, log'.ring = log.ring, log'.sequence = log.sequence, client'.pc # "down" => client.pc # "down"
  PROVE  RingInv'
BY DEF RingInv

LEMMA NextRingInv ==
  ASSUME TypeOK, WorkInv, RingInv, [Next]_vars
  PROVE  RingInv'
<1>1. CASE WorkerRenders
  <2>1. worker.local # <<>>
    BY <1>1 DEF WorkerRenders, WorkInv, Busy
  <2> DEFINE text == Head(worker.local)
             rendered == [sequence |-> log.sequence + 1, level |-> text.level, line |-> text.line]
  <2>2. rendered \in Message /\ rendered.sequence = log.sequence + 1
    BY <2>1, RenderedType DEF TypeOK
  <2>3. log' = [log EXCEPT !.sequence = @ + 1, !.ring = PushRing(rendered)] /\ client' = client
    BY <1>1 DEF WorkerRenders
  <2> HIDE DEF rendered
  <2>4. log'.sequence = log.sequence + 1 /\ log'.ring = PushRing(rendered)
    BY <2>3 DEF TypeOK, LogTypeOK
  <2>5. /\ log.sequence \in Nat /\ Len(log.ring) \in Nat /\ RingCapacity \in Nat
    BY LogAssumption DEF TypeOK, LogTypeOK, LogAssumption
  <2>6. CASE client.pc = "down"
    BY <2>3, <2>6 DEF RingInv
  <2>7. CASE client.pc # "down" /\ Len(log.ring) < RingCapacity
    <3>1. Len(log.ring) = log.sequence
      BY <2>5, <2>7 DEF RingInv
    <3>2. /\ Len(log'.ring) = Len(log.ring) + 1
          /\ \A i \in 1..Len(log.ring) : log'.ring[i] = log.ring[i]
          /\ log'.ring[Len(log.ring) + 1] = rendered
      BY <2>2, <2>4, <2>5, <2>7, PushRingIs DEF TypeOK
    <3>3. \A i \in 1..Len(log'.ring) : log'.ring[i].sequence = log'.sequence - Len(log'.ring) + i
      <4>1. SUFFICES ASSUME NEW i \in 1..Len(log'.ring)
                     PROVE  log'.ring[i].sequence = log'.sequence - Len(log'.ring) + i
        OBVIOUS
      <4>2. CASE i \in 1..Len(log.ring)
        <5>1. log'.ring[i] = log.ring[i]
          BY <3>2, <4>2
        <5>2. log.ring[i].sequence = log.sequence - Len(log.ring) + i
          BY <2>7, <4>2 DEF RingInv
        <5>3. log'.sequence - Len(log'.ring) = log.sequence - Len(log.ring)
          BY <2>4, <2>5, <3>2
        <5> QED
          BY <5>1, <5>2, <5>3
      <4>3. CASE i = Len(log.ring) + 1
        <5>1. log'.ring[i].sequence = log.sequence + 1
          BY <2>2, <3>2, <4>3
        <5>2. log'.sequence - Len(log'.ring) = 0 /\ i = log.sequence + 1
          BY <2>4, <2>5, <3>1, <3>2, <4>3
        <5> QED
          BY <5>1, <5>2, <2>5
      <4> QED
        BY <2>5, <3>2, <4>2, <4>3
    <3>4. Len(log'.ring) = IF log'.sequence < RingCapacity THEN log'.sequence ELSE RingCapacity
      BY <2>4, <2>5, <2>7, <3>1, <3>2
    <3> QED
      BY <3>3, <3>4 DEF RingInv
  <2>8. CASE client.pc # "down" /\ ~(Len(log.ring) < RingCapacity)
    <3>1. Len(log.ring) = RingCapacity /\ log.sequence >= RingCapacity /\ RingCapacity > 0
      BY <2>5, <2>8, LogAssumption DEF RingInv, LogAssumption
    <3>2. /\ Len(log'.ring) = Len(log.ring)
          /\ \A i \in 1..Len(log.ring) - 1 : log'.ring[i] = log.ring[i + 1]
          /\ log'.ring[Len(log.ring)] = rendered
      <4>1. LogTypeOK /\ rendered \in Message /\ log'.ring = PushRing(rendered)
        BY <2>2, <2>4 DEF TypeOK
      <4>2. ~(Len(log.ring) < RingCapacity)
        BY <2>8
      <4> QED
        BY <4>1, <4>2, PushRingIs
    <3>3. \A i \in 1..Len(log'.ring) : log'.ring[i].sequence = log'.sequence - Len(log'.ring) + i
      <4>1. SUFFICES ASSUME NEW i \in 1..Len(log'.ring)
                     PROVE  log'.ring[i].sequence = log'.sequence - Len(log'.ring) + i
        OBVIOUS
      <4>2. CASE i \in 1..Len(log.ring) - 1
        <5>1. i + 1 \in 1..Len(log.ring)
          BY <2>5, <4>2
        <5>2. log.ring[i + 1].sequence = log.sequence - Len(log.ring) + (i + 1)
          BY <2>8, <5>1 DEF RingInv
        <5> QED
          <6>1. log'.ring[i] = log.ring[i + 1]
            BY <3>2, <4>2
          <6>2. log'.sequence - Len(log'.ring) + i = log.sequence - Len(log.ring) + (i + 1)
            <7>1. log'.sequence = log.sequence + 1 /\ Len(log'.ring) = Len(log.ring) /\ i \in Int
              BY <2>4, <3>2, <4>2
            <7>2. PICK d \in Int : d = log.sequence - Len(log.ring)
              BY <2>5
            <7>3. log'.sequence - Len(log'.ring) = d + 1
              BY <2>5, <7>1, <7>2
            <7> QED
              BY <7>1, <7>2, <7>3
          <6> QED
            BY <5>2, <6>1, <6>2
      <4>3. CASE i = Len(log.ring)
        BY <2>2, <2>4, <2>5, <3>2, <4>3
      <4> QED
        BY <2>5, <3>2, <4>2, <4>3
    <3> QED
      BY <2>4, <2>5, <2>8, <3>1, <3>2, <3>3 DEF RingInv
  <2> QED
    BY <2>6, <2>7, <2>8
<1>2. CASE Cleanup
  <2>1. client'.pc = "down"
    BY <1>2 DEF Cleanup, TypeOK, ClientTypeOK
  <2> QED
    BY <2>1 DEF RingInv
<1>3. CASE ~(WorkerRenders \/ Cleanup)
  <2>1. log'.ring = log.ring /\ log'.sequence = log.sequence
    <3>1. CASE Write \/ WorkerWakes \/ WorkerWrites \/ Shutdown
      BY <3>1 DEF Write, WorkerWakes, WorkerWrites, Shutdown, TypeOK, LogTypeOK
    <3>2. CASE ~(Write \/ WorkerWakes \/ WorkerWrites \/ Shutdown)
      <4>1. log' = log
        BY <1>3, <3>2, Steps DEF core, ViewerPrint, OpenViewer, ClientAppends, StartViewer, WorkerJoined, WorkerAppends
      <4> QED
        BY <4>1
    <3> QED
      BY <3>1, <3>2
  <2>2. client'.pc # "down" => client.pc # "down"
    BY <1>3, Steps DEF core, Write, ViewerPrint, OpenViewer, Shutdown, WorkerWakes, WorkerAppends, WorkerWrites,
                       ClientAppends, StartViewer, WorkerJoined
  <2> QED
    BY <2>1, <2>2, SameRing
<1> QED
  BY <1>1, <1>2, <1>3

-------------------------------------------------------------------------------
\* The file.

LEMMA WrittenType ==
  ASSUME TypeOK
  PROVE  /\ Written \in Seq(Text \cup [level : {"close"}, line : Seq(STRING)]) /\ Len(Written) = Len(log.lines)
         /\ Unwritten \in Seq(Text)
<1>1. log.lines \in Seq(Message) /\ Len(log.lines) \in Nat
  BY DEF TypeOK, LogTypeOK
<1>2. \A i \in 1..Len(log.lines) : Content(log.lines[i]) \in Text \cup [level : {"close"}, line : Seq(STRING)]
  <2>1. SUFFICES ASSUME NEW i \in 1..Len(log.lines)
                 PROVE  Content(log.lines[i]) \in Text \cup [level : {"close"}, line : Seq(STRING)]
    OBVIOUS
  <2>2. log.lines[i] \in Message
    BY <1>1
  <2>3. log.lines[i].level \in Level \cup {"close"} /\ log.lines[i].line \in Seq(STRING)
    BY <2>2 DEF Message
  <2>4. CASE log.lines[i].level \in Level
    BY <2>3, <2>4 DEF Content, Text
  <2>5. CASE log.lines[i].level = "close"
    BY <2>3, <2>5 DEF Content
  <2> QED
    BY <2>3, <2>4, <2>5
<1>3. Written \in Seq(Text \cup [level : {"close"}, line : Seq(STRING)]) /\ Len(Written) = Len(log.lines)
  BY <1>1, <1>2, IsASeq DEF Written
<1>4. Unwritten \in Seq(Text)
  <2>1. worker.local \in Seq(Text) /\ log.queue \in Seq(Text) /\ <<>> \in Seq(Text)
    BY DEF TypeOK, LogTypeOK, WorkerTypeOK
  <2> QED
    BY <2>1, ConcatProperties DEF Unwritten
<1> QED
  BY <1>3, <1>4


\* Steps that render, keep or post a line but do not move it.
LEMMA SameFile ==
  ASSUME TypeOK, FileInv, log'.lines = log.lines, log'.sequence = log.sequence, log'.file = log.file,
         Unwritten' = Unwritten, accepted' = accepted, owed' = owed, Rendered' <=> Rendered,
         worker'.pc = "done" => worker.pc = "done"
  PROVE  FileInv'
<1>1. Written' = Written
  BY DEF Written
<1> QED
  BY <1>1 DEF FileInv

LEMMA Regroup ==
  ASSUME NEW S, NEW w \in Seq(S), NEW e \in S, NEW t \in Seq(S), NEW q \in Seq(S)
  PROVE  Append(w, e) \o (t \o q) = w \o ((<<e>> \o t) \o q)
OBVIOUS

\* The line in hand goes from what is on its way to the file.
LEMMA Handed ==
  ASSUME NEW S, NEW T, T \subseteq S, NEW w \in Seq(S), NEW l \in Seq(T), l # <<>>, NEW q \in Seq(T)
  PROVE  Append(w, Head(l)) \o (Tail(l) \o q) = w \o (l \o q)
<1>1. l \in Seq(S) /\ q \in Seq(S)
  BY SeqMonotonic
<1>2. Head(l) \in S /\ Tail(l) \in Seq(S)
  BY <1>1, HeadTailProperties
<1>3. l = <<Head(l)>> \o Tail(l)
  OBVIOUS
<1>4. Append(w, Head(l)) \o (Tail(l) \o q) = w \o ((<<Head(l)>> \o Tail(l)) \o q)
  BY <1>1, <1>2, Regroup
<1> QED
  BY Zenon, <1>3, <1>4

LEMMA ConcatAppend ==
  ASSUME NEW S, NEW s \in Seq(S), NEW t \in Seq(S), NEW e \in S
  PROVE  s \o Append(t, e) = Append(s \o t, e)
OBVIOUS

LEMMA NextFileInv ==
  ASSUME TypeOK, WorkInv, StopInv, FileInv, [Next]_vars
  PROVE  FileInv'
<1>0. /\ log.queue \in Seq(Text) /\ worker.local \in Seq(Text) /\ log.lines \in Seq(Message)
      /\ Len(log.lines) \in Nat /\ log.sequence \in Nat /\ owed \in Nat /\ Len(accepted) \in Nat
  BY DEF TypeOK, LogTypeOK, WorkerTypeOK
<1>1. CASE Write
  <2>1. PICK text \in Text : log' = [log EXCEPT !.queue = Append(@, text)] /\ accepted' = Append(accepted, text)
    BY <1>1, NextTextType DEF Write, TypeOK
  <2>2. /\ log'.lines = log.lines /\ log'.sequence = log.sequence /\ log'.file = log.file
        /\ log'.queue = Append(log.queue, text)
        /\ worker' = worker /\ owed' = owed
    BY <1>1, <2>1 DEF Write, TypeOK, LogTypeOK
  <2>3. Unwritten' = Append(Unwritten, text)
    <3>1. PICK taken \in Seq(Text) : taken = IF Busy THEN worker.local ELSE <<>>
      BY <1>0, EmptySeq
    <3>2. taken \o Append(log.queue, text) = Append(taken \o log.queue, text)
      <4>1. PICK q \in Seq(Text) : q = log.queue
        BY <1>0
      <4>2. taken \o Append(q, text) = Append(taken \o q, text)
        BY ConcatAppend
      <4> QED
        BY <4>1, <4>2
    <3> QED
      BY <2>2, <3>1, <3>2 DEF Unwritten, Busy, Rendered
  <2>4. Written' = Written
    BY <2>2 DEF Written
  <2>5. Written \o Append(Unwritten, text) = Append(Written \o Unwritten, text)
    <3>1. PICK S : Written \in Seq(S) /\ Text \subseteq S
      BY WrittenType
    <3>2. Unwritten \in Seq(S) /\ text \in S
      BY <3>1, WrittenType, SeqMonotonic
    <3> QED
      BY <3>1, <3>2
  <2>6. Rendered' <=> Rendered
    BY <2>2 DEF Rendered
  <2> QED
    BY <2>1, <2>2, <2>3, <2>4, <2>5, <2>6 DEF FileInv
<1>2. CASE WorkerWakes
  <2>1. CASE MayLeave
    <3>1. worker' = [worker EXCEPT !.pc = "done"] /\ log' = log /\ UNCHANGED <<accepted, owed>> /\ worker.pc = "wait"
      BY <1>2, <2>1 DEF WorkerWakes
    <3>2. worker'.pc = "done"
      BY <3>1 DEF TypeOK, WorkerTypeOK
    <3>3. Unwritten' = Unwritten /\ (Rendered' <=> Rendered) /\ Written' = Written
      BY <3>1, <3>2 DEF Unwritten, Rendered, Written
    <3>4. Unwritten = <<>>
      BY <2>1, <3>1, EmptySeq, ConcatEmptySeq DEF MayLeave, Unwritten
    <3>5. log.file # "none" => Len(log.lines) = Len(accepted)
      BY <3>4, WrittenType, ConcatEmptySeq DEF FileInv
    <3> QED
      BY <1>0, <3>1, <3>2, <3>3, <3>5 DEF FileInv, StopInv
  <2>2. CASE ~MayLeave
    <3>1. /\ worker' = [worker EXCEPT !.pc = "push", !.local = log.queue]
          /\ log' = [log EXCEPT !.queue = <<>>] /\ worker.pc = "wait" /\ UNCHANGED <<accepted, owed>>
      BY <1>2, <2>2 DEF WorkerWakes
    <3>2. /\ worker'.pc = "push" /\ worker'.local = log.queue
          /\ log'.lines = log.lines /\ log'.sequence = log.sequence /\ log'.file = log.file
          /\ log'.queue = <<>>
      BY <3>1 DEF TypeOK, WorkerTypeOK, LogTypeOK
    <3>3. Unwritten' = log.queue \o <<>> /\ Unwritten = <<>> \o log.queue
      BY <3>1, <3>2 DEF Unwritten
    <3>4. Unwritten' = Unwritten
      BY <1>0, <3>3, ConcatEmptySeq
    <3>5. Rendered' <=> Rendered
      BY <3>1, <3>2 DEF Rendered
    <3> QED
      BY <3>1, <3>2, <3>4, <3>5, SameFile
  <2> QED
    BY <2>1, <2>2
<1>3. CASE WorkerRenders
  <2>1. /\ worker.pc = "push" /\ worker'.pc = "look" /\ worker'.local = worker.local
        /\ log'.lines = log.lines /\ log'.sequence = log.sequence + 1 /\ log'.file = log.file
        /\ log'.queue = log.queue /\ UNCHANGED <<accepted, owed>>
    BY <1>3 DEF WorkerRenders, TypeOK, WorkerTypeOK, LogTypeOK
  <2>2. Unwritten' = Unwritten /\ Written' = Written /\ Rendered' /\ ~Rendered
    BY <2>1 DEF Unwritten, Written, Rendered
  <2> QED
    BY <1>0, <2>1, <2>2 DEF FileInv
<1>4. CASE WorkerAppends
  <2>1. /\ worker.pc \in {"look", "pend", "post"} /\ worker'.pc \in {"pend", "post", "file"}
        /\ worker'.local = worker.local /\ UNCHANGED <<log, accepted, owed>>
    BY <1>4, WorkerAppendsPc
  <2>2. Unwritten' = Unwritten /\ Rendered' /\ Rendered
    BY <2>1 DEF Unwritten, Rendered
  <2> QED
    BY <2>1, <2>2, SameFile
<1>5. CASE WorkerWrites
  <2>1. /\ worker.pc = "file" /\ Rendered /\ worker.local # <<>>
        /\ worker.rendered.sequence = log.sequence /\ Content(worker.rendered) = Head(worker.local)
    BY <1>5 DEF WorkerWrites, WorkInv, Busy, Rendered
  <2>2. /\ worker'.pc = (IF Len(worker.local) > 1 THEN "push" ELSE "wait")
        /\ worker'.local = Tail(worker.local)
        /\ UNCHANGED <<accepted, owed>> /\ log'.sequence = log.sequence /\ log'.file = log.file
        /\ log'.queue = log.queue
        /\ log.file = "open" => log'.lines = Append(log.lines, worker.rendered)
    BY <1>5 DEF WorkerWrites, TypeOK, WorkerTypeOK, LogTypeOK
  <2>3. ~Rendered' /\ worker'.pc # "done"
    BY <2>2 DEF Rendered
  <2> SUFFICES ASSUME log.file # "none" PROVE FileInv'
    BY <2>2 DEF FileInv
  <2>4. log.file = "open"
    BY <2>1 DEF StopInv, TypeOK, LogTypeOK
  <2>5. /\ log'.lines = Append(log.lines, worker.rendered) /\ worker.rendered \in Message
    BY <2>2, <2>4 DEF TypeOK, WorkerTypeOK
  <2>6. /\ Len(log'.lines) = Len(log.lines) + 1
        /\ \A i \in 1..Len(log.lines) : log'.lines[i] = log.lines[i]
        /\ log'.lines[Len(log.lines) + 1] = worker.rendered
    BY <1>0, <2>5
  <2>7. Len(log.lines) = log.sequence - 1
    BY <2>1 DEF FileInv
  <2>8. \A i \in 1..Len(log'.lines) : log'.lines[i].sequence = i
    <3>1. SUFFICES ASSUME NEW i \in 1..Len(log'.lines) PROVE log'.lines[i].sequence = i
      OBVIOUS
    <3>2. CASE i \in 1..Len(log.lines)
      BY <2>6, <3>2 DEF FileInv
    <3>3. CASE i = Len(log.lines) + 1
      <4>1. i = log.sequence
        BY <1>0, <2>7, <3>3
      <4> QED
        BY <2>1, <2>6, <3>3, <4>1
    <3> QED
      BY <1>0, <2>6, <3>2, <3>3
  <2>9. Written' = Append(Written, Head(worker.local))
    <3>1. /\ Written \in Seq(Text \cup [level : {"close"}, line : Seq(STRING)]) /\ Len(Written) = Len(log.lines)
          /\ Head(worker.local) \in Text
      BY <1>0, <2>1, WrittenType
    <3>2. PICK S : Written \in Seq(S) /\ Head(worker.local) \in S
      BY <3>1
    <3>3. /\ Append(Written, Head(worker.local)) \in Seq(S)
          /\ Len(Append(Written, Head(worker.local))) = Len(log.lines) + 1
          /\ \A i \in 1..Len(log.lines) : Append(Written, Head(worker.local))[i] = Written[i]
          /\ Append(Written, Head(worker.local))[Len(log.lines) + 1] = Head(worker.local)
      BY <3>1, <3>2, AppendProperties
    <3>4. Append(Written, Head(worker.local)) =
             [i \in 1..(Len(log.lines) + 1) |-> Append(Written, Head(worker.local))[i]]
      BY <3>3, LenProperties
    <3>5. \A i \in 1..(Len(log.lines) + 1) : Content(log'.lines[i]) = Append(Written, Head(worker.local))[i]
      <4>1. SUFFICES ASSUME NEW i \in 1..(Len(log.lines) + 1)
                     PROVE  Content(log'.lines[i]) = Append(Written, Head(worker.local))[i]
        OBVIOUS
      <4>2. CASE i \in 1..Len(log.lines)
        BY <2>6, <3>3, <4>2 DEF Written
      <4>3. CASE i = Len(log.lines) + 1
        BY <2>1, <2>6, <3>3, <4>3
      <4>4. i \in 1..Len(log.lines) \/ i = Len(log.lines) + 1
        BY <1>0
      <4> QED
        BY <4>2, <4>3, <4>4
    <3>6. Written' = [i \in 1..(Len(log.lines) + 1) |-> Content(log'.lines[i])]
      BY <2>6 DEF Written
    <3> QED
      BY <3>4, <3>5, <3>6
  <2>10. Unwritten = worker.local \o log.queue
    BY <2>1 DEF Unwritten
  <2>11. Unwritten' = Tail(worker.local) \o log.queue
    <3>1. CASE Len(worker.local) > 1
      BY <2>2, <3>1 DEF Unwritten
    <3>2. CASE ~(Len(worker.local) > 1)
      <4>1. Tail(worker.local) = <<>>
        <5>1. /\ Tail(worker.local) \in Seq(Text) /\ Len(Tail(worker.local)) = Len(worker.local) - 1
          BY <1>0, <2>1, HeadTailProperties
        <5>2. Len(worker.local) \in Nat
          BY <1>0
        <5>3. Len(Tail(worker.local)) = 0
          <6>1. Len(Tail(worker.local)) \in Nat
            BY <5>1, LenProperties
          <6> QED
            <7>1. \A n \in Nat : ~(n > 1) /\ n - 1 \in Nat => n - 1 = 0
              OBVIOUS
            <7>2. Len(worker.local) - 1 \in Nat
              BY <5>1, <6>1
            <7> QED
              BY <3>2, <5>1, <5>2, <7>1, <7>2
        <5> QED
          BY <5>1, <5>3, EmptySeq
      <4> QED
        BY <2>2, <3>2, <4>1 DEF Unwritten
    <3> QED
      BY <3>1, <3>2
  <2>12. Written' \o Unwritten' = accepted'
    <3>1. PICK S : Written \in Seq(S) /\ Text \subseteq S
      BY WrittenType
    <3>2. Append(Written, Head(worker.local)) \o (Tail(worker.local) \o log.queue)
            = Written \o (worker.local \o log.queue)
      <4> DEFINE l == worker.local
                 q == log.queue
                 w == Written
      <4>1. l \in Seq(Text) /\ l # <<>> /\ q \in Seq(Text) /\ w \in Seq(S)
        BY <1>0, <2>1, <3>1
      <4> HIDE DEF l, q, w
      <4>2. Text \subseteq S
        BY <3>1
      <4>3. Append(w, Head(l)) \o (Tail(l) \o q) = w \o (l \o q)
        BY ONLY SMTT(20), <4>1, <4>2, Handed
      <4> QED
        BY <4>3 DEF l, q, w
    <3> QED
      BY <2>2, <2>9, <2>10, <2>11, <3>2 DEF FileInv
  <2>13. Len(log'.lines) = log'.sequence
    BY <1>0, <2>2, <2>6, <2>7
  <2> QED
    BY <2>2, <2>3, <2>4, <2>8, <2>12, <2>13 DEF FileInv
<1>6. CASE Shutdown
  <2>1. /\ log'.lines = log.lines /\ log'.sequence = log.sequence /\ log'.file = log.file
        /\ log'.queue = log.queue /\ worker' = worker /\ accepted' = accepted
        /\ client.pc = "idle"
    BY <1>6 DEF Shutdown, TypeOK, LogTypeOK
  <2>2. worker.pc # "done" /\ log.file # "removed"
    BY <2>1 DEF StopInv
  <2>3. Unwritten' = Unwritten /\ Written' = Written /\ (Rendered' <=> Rendered)
    BY <2>1 DEF Unwritten, Written, Rendered
  <2> QED
    BY <2>1, <2>2, <2>3 DEF FileInv
<1>7. CASE Cleanup
  <2>1. /\ log'.lines = log.lines /\ log'.sequence = log.sequence /\ log'.queue = log.queue
        /\ client.pc = "joinViewer" /\ UNCHANGED <<worker, accepted, owed>>
        /\ log'.file = IF log.file = "none" THEN "none" ELSE IF log.lines = <<>> THEN "removed" ELSE "closed"
    BY <1>7 DEF Cleanup, TypeOK, LogTypeOK
  <2>2. worker.pc = "done"
    BY <2>1 DEF StopInv
  <2>3. log.file # "none" => Len(log.lines) >= owed
    BY <2>2 DEF FileInv
  <2>4. log'.file = "removed" => log.file # "none" /\ Len(log.lines) = 0
    <3>1. log.lines = <<>> => Len(log.lines) = 0
      BY <1>0, EmptySeq
    <3> QED
      BY <2>1, <3>1
  <2>5. log'.file = "removed" => owed = 0
    BY <1>0, <2>3, <2>4
  <2>6. Unwritten' = Unwritten /\ Written' = Written /\ (Rendered' <=> Rendered)
    BY <2>1 DEF Unwritten, Written, Rendered
  <2> QED
    BY <2>1, <2>5, <2>6 DEF FileInv
<1>8. CASE \/ UNCHANGED core \/ \E text \in Printed : ViewerPrint(text)
           \/ OpenViewer \/ ClientAppends \/ StartViewer \/ WorkerJoined
  <2>1. UNCHANGED <<log, worker, accepted, owed>>
    BY <1>8 DEF core, ViewerPrint, OpenViewer, ClientAppends, StartViewer, WorkerJoined
  <2>2. Unwritten' = Unwritten /\ (Rendered' <=> Rendered)
    BY <2>1 DEF Unwritten, Rendered
  <2> QED
    BY <2>1, <2>2, SameFile
<1> QED
  BY <1>1, <1>2, <1>3, <1>4, <1>5, <1>6, <1>7, <1>8, Steps

-------------------------------------------------------------------------------
\* The log files of earlier runs.

LEMMA SmallestOf ==
  ASSUME NEW T \in SUBSET Nat, T # {}
  PROVE  Min(T) \in T /\ \A g \in T : Min(T) <= g
<1> DEFINE R == {p \in Nat \X Nat : p[1] < p[2]}
<1>1. IsWellFoundedOn(R, Nat)
  BY NatLessThanWellFounded DEF OpToRel
<1>2. \A x, y \in Nat : y < x => <<y, x>> \in R
  OBVIOUS
<1> HIDE DEF R
<1>3. PICK m \in T : \A g \in T : ~(<<g, m>> \in R)
  BY <1>1, WFMin
<1>4. \A g \in T : ~(g < m)
  BY <1>2, <1>3
<1>5. \A g \in T : m <= g
  BY <1>4
<1> QED
  BY <1>5 DEF Min

LEMMA OldestOf ==
  ASSUME NEW T \in SUBSET Nat, T # {}
  PROVE  \E m \in T : \A g \in T : g # m => g > m
<1>1. Min(T) \in T /\ \A g \in T : Min(T) <= g
  BY SmallestOf
<1>2. \A g \in T : g # Min(T) => g > Min(T)
  <2> SUFFICES ASSUME NEW g \in T, g # Min(T) PROVE g > Min(T)
    OBVIOUS
  <2>1. Min(T) <= g /\ Min(T) \in Nat /\ g \in Nat
    BY <1>1
  <2> QED
    BY <2>1
<1> QED
  BY <1>1, <1>2

\* Of the files kept that need not be, all but the oldest are newer than the
\* oldest, and fewer than KeepFiles - 1 files are: with this run's there are at
\* most KeepFiles.
LEMMA KeptAreFew ==
  Cardinality(KeptLogs(OldLogs) \ LockedLogs) + 1 <= KeepFiles
<1> DEFINE K == KeptLogs(OldLogs) \ LockedLogs
           Newer(f) == {g \in OldLogs : g > f}
<1>1. OldLogs \subseteq Nat /\ IsFiniteSet(OldLogs) /\ KeepFiles \in Nat /\ KeepFiles > 0
  BY LogAssumption DEF LogAssumption
<1>2. /\ K \subseteq OldLogs
      /\ \A f \in K : Cardinality(Newer(f)) < KeepFiles - 1
  BY DEF KeptLogs
<1> HIDE DEF K
<1>3. IsFiniteSet(K) /\ Cardinality(K) \in Nat
  BY <1>1, <1>2, FS_Subset, FS_CardinalityType
<1>4. CASE K = {}
  <2>1. Cardinality(K) = 0
    BY <1>4, FS_EmptySet
  <2> QED
    BY <1>1, <2>1 DEF K
<1>5. CASE K # {}
  <2>1. K \in SUBSET Nat
    BY <1>1, <1>2
  <2>2. PICK m \in K : \A g \in K : g # m => g > m
    BY <1>5, <2>1, OldestOf
  <2>3. IsFiniteSet(K \ {m}) /\ Cardinality(K \ {m}) = Cardinality(K) - 1
    BY <1>3, FS_RemoveElement
  <2>4. K \ {m} \in SUBSET Newer(m)
    BY <1>2, <2>2
  <2>5. IsFiniteSet(Newer(m)) /\ Cardinality(Newer(m)) \in Nat
    <3>1. Newer(m) \in SUBSET OldLogs
      OBVIOUS
    <3> HIDE DEF Newer
    <3> QED
      BY <1>1, <3>1, FS_Subset, FS_CardinalityType
  <2>6. Cardinality(Newer(m)) < KeepFiles - 1
    BY <1>2
  <2> HIDE DEF Newer
  <2>7. Cardinality(K \ {m}) <= Cardinality(Newer(m))
    BY <2>4, <2>5, FS_Subset
  <2>8. Cardinality(K) + 1 <= KeepFiles
    BY <1>1, <1>3, <2>3, <2>5, <2>6, <2>7
  <2> QED
    BY <2>8 DEF K
<1> QED
  BY <1>4, <1>5

LEMMA NewestOf ==
  ASSUME NEW T, IsFiniteSet(T), T \in SUBSET Nat, T # {}
  PROVE  \E m \in T : \A g \in T : ~(g > m)
<1> DEFINE Above(f) == {g \in T : g > f}
           Counts == {Cardinality(Above(f)) : f \in T}
<1>1. \A f \in T : IsFiniteSet(Above(f)) /\ Cardinality(Above(f)) \in Nat
  <2>1. \A f \in T : Above(f) \in SUBSET T
    OBVIOUS
  <2> HIDE DEF Above
  <2> QED
    BY <2>1, FS_Subset, FS_CardinalityType
<1>2. Counts \in SUBSET Nat /\ Counts # {}
  <2> HIDE DEF Above
  <2> QED
    BY <1>1
<1>3. PICK n \in Counts : \A k \in Counts : k # n => k > n
  <2> HIDE DEF Counts
  <2> QED
    BY <1>2, OldestOf
<1>4. PICK m \in T : n = Cardinality(Above(m))
  OBVIOUS
<1>5. SUFFICES ASSUME NEW g \in T, g > m
               PROVE  FALSE
  OBVIOUS
<1>6. Above(g) \in SUBSET Above(m) /\ g \in Above(m) /\ g \notin Above(g)
  <2>1. \A h \in T : h > g => h > m
    <3> SUFFICES ASSUME NEW h \in T, h > g PROVE h > m
      OBVIOUS
    <3>1. h \in Nat /\ g \in Nat /\ m \in Nat
      OBVIOUS
    <3> QED
      BY <1>5, <3>1
  <2>2. ~(g > g)
    <3>1. g \in Nat
      OBVIOUS
    <3> QED
      BY <3>1
  <2> QED
    BY <1>5, <2>1, <2>2
<1>7. Cardinality(Above(g)) \in Counts
  OBVIOUS
<1> HIDE DEF Above, Counts
<1>8. Cardinality(Above(g)) <= Cardinality(Above(m)) /\ Cardinality(Above(g)) # Cardinality(Above(m))
  BY <1>1, <1>6, FS_Subset
<1> QED
  BY <1>1, <1>3, <1>4, <1>7, <1>8

\* The newest file that was removed had KeepFiles - 1 newer ones, which all stay.
LEMMA NewerStay ==
  \A f \in OldLogs \ KeptLogs(OldLogs) :
    Cardinality({g \in KeptLogs(OldLogs) : g > f}) + 1 >= KeepFiles
<1> DEFINE Removed == OldLogs \ KeptLogs(OldLogs)
           Newer(f) == {g \in OldLogs : g > f}
           Staying(f) == {g \in KeptLogs(OldLogs) : g > f}
<1>1. /\ OldLogs \subseteq Nat /\ IsFiniteSet(OldLogs) /\ KeepFiles \in Nat
      /\ KeptLogs(OldLogs) \subseteq OldLogs
  BY LogAssumption DEF LogAssumption, KeptLogs
<1>2. SUFFICES ASSUME NEW f \in Removed
               PROVE  Cardinality(Staying(f)) + 1 >= KeepFiles
  OBVIOUS
<1>3. IsFiniteSet(Removed) /\ Removed \in SUBSET Nat /\ Removed # {}
  BY <1>1, FS_Subset
<1>4. PICK m \in Removed : \A g \in Removed : ~(g > m)
  <2> HIDE DEF Removed
  <2> QED
    BY <1>3, NewestOf
<1>5. ~(Cardinality(Newer(m)) < KeepFiles - 1)
  BY DEF KeptLogs
<1>6. Newer(m) \in SUBSET Staying(f)
  <2> SUFFICES ASSUME NEW g \in OldLogs, g > m
               PROVE  g \in KeptLogs(OldLogs) /\ g > f
    OBVIOUS
  <2>1. f \in Nat /\ g \in Nat /\ m \in Nat /\ ~(f > m)
    BY <1>1, <1>4
  <2> QED
    BY <1>4, <2>1
<1>7. Newer(m) \in SUBSET OldLogs /\ Staying(f) \in SUBSET OldLogs
  BY <1>1
<1> HIDE DEF Newer, Staying
<1>8. /\ IsFiniteSet(Staying(f)) /\ Cardinality(Staying(f)) \in Nat
      /\ Cardinality(Newer(m)) \in Nat
  BY <1>1, <1>7, FS_Subset, FS_CardinalityType
<1>9. Cardinality(Newer(m)) <= Cardinality(Staying(f))
  BY <1>6, <1>8, FS_Subset
<1> QED
  BY <1>1, <1>5, <1>8, <1>9

-------------------------------------------------------------------------------
\* The invariant.

LEMMA InitIInv == Init => IInv
<1> SUFFICES ASSUME Init PROVE IInv
  OBVIOUS
<1>1. TypeOK
  BY InitTypeOK
<1>2. /\ log.running = TRUE /\ log.queue = <<>> /\ log.ring = <<>> /\ log.sequence = 0
      /\ log.file \in {"open", "none"} /\ log.lines = <<>>
      /\ worker.pc = "wait" /\ worker.local = <<>> /\ client.pc = "idle"
      /\ accepted = <<>> /\ owed = 0
  BY DEF Init
<1>3. Len(<<>>) = 0
  OBVIOUS
<1>4. StopInv
  BY <1>2, <1>3 DEF StopInv
<1>5. WorkInv
  BY <1>2 DEF WorkInv, Busy, Rendered
<1>6. FileInv
  <2>1. Written = <<>>
    <3>1. Len(Written) = 0 /\ \E S : Written \in Seq(S)
      BY <1>1, <1>2, <1>3, WrittenType
    <3> QED
      BY <3>1, EmptySeq
  <2>2. Unwritten = <<>>
    <3>1. Unwritten = <<>> \o <<>>
      BY <1>2 DEF Unwritten
    <3> QED
      BY <3>1
  <2>3. Written \o Unwritten = accepted
    BY <1>2, <2>1, <2>2
  <2> QED
    BY <1>2, <1>3, <2>3 DEF FileInv, Rendered
<1>7. RingInv
  <2>1. RingCapacity \in Nat /\ RingCapacity > 0
    BY LogAssumption DEF LogAssumption
  <2> QED
    BY <1>2, <1>3, <2>1 DEF RingInv
<1>8. KeptInv
  BY DEF Init, KeptInv
<1> QED
  BY <1>1, <1>4, <1>5, <1>6, <1>7, <1>8 DEF IInv

LEMMA LogsAlone ==
  ASSUME [Next]_vars
  PROVE  logs' = logs
<1>1. CASE UNCHANGED vars
  BY <1>1 DEF vars
<1>2. CASE Write \/ OpenViewer \/ CloseViewer \/ Shutdown
  BY <1>2 DEF Write, OpenViewer, CloseViewer, Shutdown
<1>3. CASE WorkerStep \/ ClientStep \/ \E text \in Printed : ViewerPrint(text)
  BY <1>3 DEF WorkerStep, WorkerWakes, WorkerRenders, WorkerAppends, WorkerWrites,
              ClientStep, ClientAppends, StartViewer, WorkerJoined, Cleanup, ViewerPrint
<1>4. ASSUME NEW v \in Viewers, ViewerStep(v) \/ ViewerFails(v) \/ Command(v) \/ UserCloses(v)
      PROVE  logs' = logs
  BY <1>4 DEF ViewerStep, TakePending, CreateViewerWindow, PublishWindow, TakeLate, PostLate, StartLoop,
              HandleMessage, ViewerFails, SetViewer, Command, UserCloses
<1> QED
  BY <1>1, <1>2, <1>3, <1>4 DEF Next

LEMMA NextIInv == IInv /\ [Next]_vars => IInv'
<1> SUFFICES ASSUME IInv, [Next]_vars PROVE IInv'
  OBVIOUS
<1>1. TypeOK /\ StopInv /\ WorkInv /\ FileInv /\ RingInv /\ KeptInv
  BY DEF IInv
<1>2. LogTypeOK' /\ WorkerTypeOK' /\ ClientTypeOK'
  BY <1>1, NextLogTypeOK, NextWorkerTypeOK, NextClientTypeOK DEF TypeOK
<1>3. StopInv' /\ WorkInv' /\ FileInv' /\ RingInv'
  BY <1>1, NextStopInv, NextWorkInv, NextFileInv, NextRingInv
<1>4. KeptInv'
  BY <1>1, LogsAlone DEF KeptInv
<1> QED
  BY <1>2, <1>3, <1>4 DEF IInv, TypeOK

\* Everything below follows from it: it holds of any capacities, files, texts
\* and viewers, in every interleaving of writers, worker, viewers and shutdown.
THEOREM Inductive == Spec => []IInv
<1>1. Init => IInv
  BY InitIInv
<1>2. IInv /\ [Next]_vars => IInv'
  BY NextIInv
<1> QED
  BY <1>1, <1>2, PTL DEF Spec

\* The logger, its worker and the thread that opens viewers keep their types.
THEOREM TypeCorrect == Spec => []TypeOK
<1>1. IInv => TypeOK
  BY DEF IInv
<1> QED
  BY <1>1, Inductive, PTL

\* Nothing written is lost or reordered on its way to the file, across the swap
\* of the queue and the shutdown, and the file is removed only when nothing was
\* written before the shutdown (log.cpp:223, 103).
THEOREM FileSafe == Spec => []LogIsComplete
<1>1. IInv => LogIsComplete
  BY DEF IInv, FileInv, Written, LogIsComplete
<1> QED
  BY <1>1, Inductive, PTL

\* The ring holds the newest lines without a gap, whatever its capacity, and
\* the directory the newest log files, no more than keep_files with this run's
\* (log.cpp:207, 324).
THEOREM NewestSafe == Spec => []KeepsTheNewest
<1>1. IInv => KeepsTheNewest
  BY KeptAreFew, NewerStay DEF IInv, RingInv, KeptInv, KeepsTheNewest
<1> QED
  BY <1>1, Inductive, PTL

-------------------------------------------------------------------------------
(***************************************************************************)
(* A viewer's lines have been numbered; an open one is the one that is     *)
(* reached; and once it is in its loop, what it receives is complete, but  *)
(* for a line that the worker offered before.                              *)
(***************************************************************************)
View ==
  [phase : {"none", "starting", "creating", "created", "late", "posting", "loop", "gone"},
   active : BOOLEAN, hwnd : BOOLEAN, stop : BOOLEAN,
   pending : Seq(Message), late : Seq(Message), box : Seq(Message), messages : Seq(Message),
   shown : Seq(Message), cleared : Nat, hidden : SUBSET Level, paused : BOOLEAN,
   fuzzy : BOOLEAN, search : Searches \cup {<<>>}, blank : BOOLEAN, from : Nat]

Upto(n, messages) == \A i \in DOMAIN messages : messages[i].sequence <= n

Numbered(view, n) ==
  Upto(n, view.pending) /\ Upto(n, view.late) /\ Upto(n, view.box) /\ Upto(n, view.messages)

Current(view) ==
  view.phase \in {"created", "late", "posting", "loop"} /\ ~view.paused /\ ~view.blank =>
    view.shown = Shown(view)

Reached(view, v) ==
  view.active => v = impl /\ (view.phase \in {"late", "posting", "loop"} => view.hwnd)

Following(received, from, last, whole) ==
  LET new == {i \in DOMAIN received : received[i].sequence > from}
      Has(n) == \E i \in new : received[i].sequence = n
  IN  /\ \A i, j \in new : i < j => received[i].sequence < received[j].sequence
      /\ \A i \in new : /\ received[i].sequence <= last
                        /\ \A n \in received[i].sequence .. last : Has(n)
      /\ whole => \A n \in from + 1 .. last : Has(n)

Whole(view) == Len(view.messages) < KeepMessages - TrimCount

Missed(v) == worker.pc = "pend" \/ (worker.pc = "post" /\ worker.window # v)

Follows(v) ==
  LET view == viewers[v] IN
    view.phase = "loop" /\ view.active =>
      /\ view.from <= log.sequence
      /\ Missed(v) => view.from = log.sequence
      /\ Following(Received(v), view.from, Delivered, Whole(view))

ViewersInv ==
  /\ DOMAIN viewers = Viewers
  /\ \A v \in Viewers : /\ viewers[v] \in View
                        /\ Numbered(viewers[v], log.sequence)
                        /\ Current(viewers[v])
                        /\ Reached(viewers[v], v)
                        /\ Follows(v)
  /\ client.rendered.sequence = 0
  /\ Upto(log.sequence, client.ring)

-------------------------------------------------------------------------------
(***************************************************************************)
(* Folds over sequences.  FoldLeft goes over the sets of indices and takes *)
(* the largest away, so that a description of what it returns is right if  *)
(* it takes the step of the fold for every set of indices.                 *)
(***************************************************************************)

LEMMA LargestOf ==
  ASSUME NEW n \in Nat, NEW s \in SUBSET (1..n), s # {}
  PROVE  Max(s) \in s /\ \A i \in s : i <= Max(s)
<1> DEFINE bounds == {u \in Nat : \A i \in s : i <= u}
           u == Min(bounds)
<1>1. u \in bounds /\ \A v \in bounds : u <= v
  <2>1. n \in bounds
    OBVIOUS
  <2> QED
    BY <2>1, SmallestOf
<1> HIDE DEF u
<1>2. u \in s
  <2> SUFFICES ASSUME u \notin s PROVE FALSE
    OBVIOUS
  <2>1. \A i \in s : i <= u - 1
    BY <1>1
  <2>2. PICK i \in s : TRUE
    OBVIOUS
  <2>3. u - 1 \in Nat
    <3>1. i \in Nat /\ 1 <= i
      OBVIOUS
    <3> QED
      BY <1>1, <2>1, <3>1
  <2> QED
    BY <1>1, <2>1, <2>3
<1>3. \E m \in s : \A i \in s : m >= i
  BY <1>1, <1>2
<1> QED
  BY <1>3 DEF Max

LEMMA LargestIs ==
  ASSUME NEW n \in Nat, NEW s \in SUBSET (1..n), NEW m \in s, \A i \in s : i <= m
  PROVE  Max(s) = m
<1>1. Max(s) \in s /\ \A i \in s : i <= Max(s)
  BY LargestOf
<1>2. Max(s) \in 1..n /\ m \in 1..n
  BY <1>1
<1>3. Max(s) <= m /\ m <= Max(s)
  BY <1>1
<1> QED
  BY <1>2, <1>3

\* Two functions that start alike and take the same steps return the same.
LEMMA SameSteps ==
  ASSUME NEW n \in Nat, NEW f, NEW g, f[{}] = g[{}],
         \A s \in SUBSET (1..n) : s # {} /\ f[s \ {Max(s)}] = g[s \ {Max(s)}] => f[s] = g[s]
  PROVE  f[1..n] = g[1..n]
<1> DEFINE differ == {k \in 0..n : f[1..k] # g[1..k]}
           k == Min(differ)
<1> SUFFICES ASSUME differ # {} PROVE FALSE
  BY n \in 0..n
<1>1. k \in differ /\ \A j \in differ : k <= j
  <2>1. differ \in SUBSET Nat
    OBVIOUS
  <2> QED
    BY <2>1, SmallestOf
<1> HIDE DEF k
<1>2. k # 0
  <2>1. 1..0 = {}
    OBVIOUS
  <2> QED
    BY <1>1, <2>1
<1>3. k \in 1..n /\ k - 1 \in 0..n /\ k - 1 \notin differ
  BY <1>1, <1>2
<1>4. f[1..(k - 1)] = g[1..(k - 1)]
  BY <1>3
<1>5. 1..k \in SUBSET (1..n) /\ 1..k # {} /\ Max(1..k) = k
  <2>1. 1..k \in SUBSET (1..n) /\ k \in 1..k /\ \A i \in 1..k : i <= k
    BY <1>3
  <2> QED
    BY <2>1, LargestIs
<1>6. (1..k) \ {k} = 1..(k - 1)
  BY <1>3
<1>7. f[1..k] = g[1..k]
  BY <1>4, <1>5, <1>6
<1> QED
  BY <1>1, <1>7

\* f folds step over the sets of indices from 1 to n.
Folds(f, n, X, base, step) ==
  /\ f \in [SUBSET (1..n) -> X]
  /\ f[{}] = base
  /\ \A s \in SUBSET (1..n) : s # {} => f[s] = step[<<f[s \ {Max(s)}], Max(s)>>]

\* There is such a function, whatever the step: so the CHOOSE in FoldLeft has one.
LEMMA FoldExists ==
  ASSUME NEW n \in Nat, NEW X, NEW base \in X, NEW step \in [X \X (1..n) -> X]
  PROVE  \E f : Folds(f, n, X, base, step)
<1> DEFINE lacking == {k \in 0..n : ~ \E f : Folds(f, k, X, base, step)}
           k == Min(lacking)
<1> SUFFICES ASSUME lacking # {} PROVE FALSE
  BY n \in 0..n
<1>1. k \in lacking /\ \A j \in lacking : k <= j
  <2>1. lacking \in SUBSET Nat
    OBVIOUS
  <2> QED
    BY <2>1, SmallestOf
<1> HIDE DEF k
<1>2. k # 0
  <2> SUFFICES ASSUME k = 0 PROVE \E f : Folds(f, k, X, base, step)
    BY <1>1
  <2> DEFINE f == [s \in SUBSET (1..0) |-> base]
  <2>1. 1..0 = {}
    OBVIOUS
  <2>2. Folds(f, 0, X, base, step)
    BY <2>1 DEF Folds
  <2> QED
    BY <2>2
<1>3. k \in 1..n /\ k - 1 \in 0..n /\ k - 1 \notin lacking
  <2>1. k \in 0..n
    BY <1>1
  <2>2. k \in 1..n /\ k - 1 \in 0..n /\ ~(k <= k - 1)
    BY <1>2, <2>1
  <2> HIDE DEF lacking
  <2> QED
    BY <1>1, <2>2
<1>4. PICK f : Folds(f, k - 1, X, base, step)
  BY <1>3
<1>4a. /\ f \in [SUBSET (1..(k - 1)) -> X]
       /\ f[{}] = base
       /\ \A s \in SUBSET (1..(k - 1)) : s # {} => f[s] = step[<<f[s \ {Max(s)}], Max(s)>>]
  BY <1>4 DEF Folds
<1> DEFINE g == [s \in SUBSET (1..k) |-> IF k \in s THEN step[<<f[s \ {k}], k>>] ELSE f[s]]
<1>5. \A s \in SUBSET (1..k) : s \ {k} \in SUBSET (1..(k - 1))
  BY <1>3
<1>6. g \in [SUBSET (1..k) -> X]
  <2> SUFFICES ASSUME NEW s \in SUBSET (1..k)
               PROVE  (IF k \in s THEN step[<<f[s \ {k}], k>>] ELSE f[s]) \in X
    OBVIOUS
  <2>1. CASE k \in s
    <3>1. f[s \ {k}] \in X
      BY <1>4a, <1>5
    <3>2. <<f[s \ {k}], k>> \in X \X (1..n)
      BY <1>3, <3>1
    <3> QED
      BY <2>1, <3>2
  <2>2. CASE k \notin s
    <3>1. s \in SUBSET (1..(k - 1))
      BY <1>5, <2>2
    <3> QED
      BY <1>4a, <2>2, <3>1
  <2> QED
    BY <2>1, <2>2
<1>7. g[{}] = base
  BY <1>4a
<1>8. ASSUME NEW s \in SUBSET (1..k), s # {}
      PROVE  g[s] = step[<<g[s \ {Max(s)}], Max(s)>>]
  <2>0. Max(s) \in s /\ \A i \in s : i <= Max(s)
    <3>1. k \in Nat
      BY <1>3
    <3> HIDE DEF g, lacking
    <3> QED
      BY <1>8, <3>1, LargestOf
  <2>1. CASE k \in s
    <3>1. Max(s) = k
      <4>1. Max(s) \in 1..k /\ k <= Max(s)
        BY <2>0, <2>1
      <4> QED
        BY <1>3, <4>1
    <3>2. g[s] = step[<<f[s \ {k}], k>>]
      BY <2>1
    <3>3. g[s \ {k}] = f[s \ {k}]
      BY <1>5
    <3> QED
      BY <3>1, <3>2, <3>3
  <2>2. CASE k \notin s
    <3>1. s \in SUBSET (1..(k - 1))
      BY <1>5, <2>2
    <3>2. f[s] = step[<<f[s \ {Max(s)}], Max(s)>>]
      BY <1>4a, <1>8, <3>1
    <3>3. s \ {Max(s)} \in SUBSET (1..k) /\ k \notin s \ {Max(s)}
      BY <2>2
    <3>4. g[s] = f[s] /\ g[s \ {Max(s)}] = f[s \ {Max(s)}]
      BY <2>2, <3>3
    <3> QED
      BY <3>2, <3>4
  <2> QED
    BY <2>1, <2>2
<1> HIDE DEF g
<1>9. Folds(g, k, X, base, step)
  BY <1>6, <1>7, <1>8 DEF Folds
<1> QED
  BY <1>1, <1>9

-------------------------------------------------------------------------------
(***************************************************************************)
(* What a viewer shows.                                                    *)
(***************************************************************************)

ShowNext(view, shown, m) == IF Visible(view, m) THEN Append(shown, m) ELSE shown

\* r is what is shown of the first lines of a view, of each number of them up to n.
Shows(r, view, n) ==
  /\ r \in [0..n -> Seq(Message)]
  /\ r[0] = <<>>
  /\ \A k \in 1..n : r[k] = ShowNext(view, r[k - 1], view.messages[k])

LEMMA ShownSteps ==
  ASSUME NEW view, view.messages \in Seq(Message)
  PROVE  \E r : Shows(r, view, Len(view.messages)) /\ Shown(view) = r[Len(view.messages)]
<1> DEFINE lines == view.messages
           n == Len(lines)
           Fold(it) == [s \in SUBSET DOMAIN lines |->
                          IF s = {} THEN <<>> ELSE ShowNext(view, it[s \ {Max(s)}], lines[Max(s)])]
           it == CHOOSE f : f = Fold(f)
           step == [p \in Seq(Message) \X (1..n) |-> ShowNext(view, p[1], lines[p[2]])]
<1>0. n \in Nat /\ DOMAIN lines = 1..n /\ \A k \in 1..n : lines[k] \in Message
  OBVIOUS
<1>1. Shown(view) = it[DOMAIN lines]
  BY DEF Shown, FoldLeft, MapThenFoldSet, ShowNext
<1>2. <<>> \in Seq(Message)
  OBVIOUS
<1>3. step \in [Seq(Message) \X (1..n) -> Seq(Message)]
  BY <1>0 DEF ShowNext
<1>4. \A shown \in Seq(Message), k \in 1..n : step[<<shown, k>>] = ShowNext(view, shown, lines[k])
  OBVIOUS
<1> HIDE DEF step, n
<1>5. PICK f : Folds(f, n, Seq(Message), <<>>, step)
  BY <1>0, <1>2, <1>3, FoldExists
<1>5a. /\ f \in [SUBSET (1..n) -> Seq(Message)] /\ f[{}] = <<>>
       /\ \A s \in SUBSET (1..n) : s # {} => f[s] = step[<<f[s \ {Max(s)}], Max(s)>>]
  BY <1>5 DEF Folds
<1> HIDE DEF lines
<1>6. ASSUME NEW s \in SUBSET (1..n), s # {}
      PROVE  f[s] = ShowNext(view, f[s \ {Max(s)}], lines[Max(s)])
  <2>1. Max(s) \in 1..n
    BY <1>0, <1>6, LargestOf
  <2>2. f[s \ {Max(s)}] \in Seq(Message)
    BY <1>5a
  <2> QED
    BY <1>4, <1>5a, <1>6, <2>1, <2>2
<1>7. f = Fold(f)
  BY <1>0, <1>5a, <1>6
<1>8. it = Fold(it)
  BY <1>7
<1> HIDE DEF it
<1>9. it[{}] = f[{}]
  BY <1>0, <1>5a, <1>8
<1>10. ASSUME NEW s \in SUBSET (1..n), s # {}, it[s \ {Max(s)}] = f[s \ {Max(s)}]
       PROVE  it[s] = f[s]
  BY <1>0, <1>6, <1>8, <1>10
<1>11. it[1..n] = f[1..n]
  BY <1>0, <1>9, <1>10, SameSteps
<1> DEFINE r == [k \in 0..n |-> f[1..k]]
<1>12. r \in [0..n -> Seq(Message)]
  <2>1. \A k \in 0..n : 1..k \in SUBSET (1..n)
    BY <1>0
  <2> QED
    BY <1>5a, <2>1
<1>13. r[0] = <<>>
  <2>1. 1..0 = {}
    OBVIOUS
  <2> QED
    BY <1>0, <1>5a, <2>1
<1>14. ASSUME NEW k \in 1..n PROVE r[k] = ShowNext(view, r[k - 1], lines[k])
  <2>1. 1..k \in SUBSET (1..n) /\ k \in 1..k /\ \A i \in 1..k : i <= k
    BY <1>0
  <2>2. Max(1..k) = k
    BY <1>0, <2>1, LargestIs
  <2>3. (1..k) \ {k} = 1..(k - 1) /\ 1..k # {} /\ k - 1 \in 0..n
    <3>1. n \in Nat
      BY <1>0
    <3> QED
      BY <3>1
  <2>4. f[1..k] = ShowNext(view, f[(1..k) \ {k}], lines[k])
    BY <1>6, <2>1, <2>2, <2>3
  <2>5. k \in 0..n /\ r[k] = f[1..k] /\ r[k - 1] = f[1..(k - 1)]
    BY <1>0, <2>3
  <2> QED
    BY <2>3, <2>4, <2>5
<1>15. r[n] = Shown(view)
  BY <1>0, <1>1, <1>11
<1> HIDE DEF r
<1>16. Shows(r, view, n)
  BY <1>12, <1>13, <1>14 DEF Shows, lines
<1> QED
  BY <1>15, <1>16 DEF n, lines

\* Two views show the same of their first n lines.
Agree(view1, view2, n) ==
  /\ \A m : Visible(view1, m) <=> Visible(view2, m)
  /\ \A k \in 1..n : view1.messages[k] = view2.messages[k]

LEMMA SameShows ==
  ASSUME NEW n \in Nat, NEW n1 \in Nat, NEW n2 \in Nat, n <= n1, n <= n2,
         NEW view1, NEW view2, NEW r1, NEW r2, Shows(r1, view1, n1), Shows(r2, view2, n2),
         Agree(view1, view2, n)
  PROVE  r1[n] = r2[n]
<1> DEFINE differ == {k \in 0..n : r1[k] # r2[k]}
           k == Min(differ)
<1> SUFFICES ASSUME differ # {} PROVE FALSE
  BY n \in 0..n
<1>1. k \in differ /\ \A j \in differ : k <= j
  <2>1. differ \in SUBSET Nat
    OBVIOUS
  <2> QED
    BY <2>1, SmallestOf
<1> HIDE DEF k
<1>2. k # 0
  BY <1>1 DEF Shows
<1>3. k \in 1..n /\ k - 1 \in 0..n /\ k - 1 \notin differ
  BY <1>1, <1>2
<1>4. r1[k - 1] = r2[k - 1]
  BY <1>3
<1>5. k \in 1..n1 /\ k \in 1..n2
  BY <1>3
<1>6. r1[k] = ShowNext(view1, r1[k - 1], view1.messages[k])
      /\ r2[k] = ShowNext(view2, r2[k - 1], view2.messages[k])
  BY <1>5 DEF Shows
<1>7. r1[k] = r2[k]
  BY <1>3, <1>4, <1>6 DEF ShowNext, Agree
<1> QED
  BY <1>1, <1>7

\* What is visible depends on the buttons and the search only.
SameFilters(view1, view2) ==
  /\ view1.cleared = view2.cleared /\ view1.hidden = view2.hidden
  /\ view1.search = view2.search /\ view1.fuzzy = view2.fuzzy

LEMMA ShownSame ==
  ASSUME NEW view1, NEW view2, SameFilters(view1, view2),
         view1.messages \in Seq(Message), view2.messages = view1.messages
  PROVE  Shown(view1) = Shown(view2)
<1> DEFINE n == Len(view1.messages)
<1>1. n \in Nat /\ n <= n
  OBVIOUS
<1>2. PICK r1 : Shows(r1, view1, n) /\ Shown(view1) = r1[n]
  BY ShownSteps
<1>3. PICK r2 : Shows(r2, view2, n) /\ Shown(view2) = r2[n]
  BY ShownSteps
<1>4. Agree(view1, view2, n)
  BY DEF Agree, Visible, SameFilters
<1> HIDE DEF n
<1>5. r1[n] = r2[n]
  BY <1>1, <1>2, <1>3, <1>4, SameShows
<1> QED
  BY <1>2, <1>3, <1>5

\* One more line is shown below the others, if it is visible.
LEMMA ShownAppend ==
  ASSUME NEW view1, NEW view2, NEW m \in Message, SameFilters(view1, view2),
         view1.messages \in Seq(Message), view2.messages = Append(view1.messages, m)
  PROVE  Shown(view2) = IF Visible(view2, m) THEN Append(Shown(view1), m) ELSE Shown(view1)
<1> DEFINE n == Len(view1.messages)
<1>1. n \in Nat /\ n <= n /\ n <= n + 1
  OBVIOUS
<1>1a. /\ view2.messages \in Seq(Message) /\ Len(view2.messages) = n + 1
       /\ view2.messages[n + 1] = m
       /\ \A k \in 1..n : view1.messages[k] = view2.messages[k]
  OBVIOUS
<1>2. PICK r1 : Shows(r1, view1, n) /\ Shown(view1) = r1[n]
  BY ShownSteps
<1>3. PICK r2 : Shows(r2, view2, n + 1) /\ Shown(view2) = r2[n + 1]
  <2>1. view2.messages \in Seq(Message) /\ Len(view2.messages) = n + 1
    BY <1>1a
  <2> HIDE DEF n
  <2>2. \E r : Shows(r, view2, Len(view2.messages)) /\ Shown(view2) = r[Len(view2.messages)]
    BY <2>1, ShownSteps
  <2> QED
    BY <2>1, <2>2
<1>4. Agree(view1, view2, n)
  BY <1>1a DEF Agree, Visible, SameFilters
<1> HIDE DEF n
<1>5. r1[n] = r2[n]
  <2> DEFINE n2 == n + 1
  <2>1. n \in Nat /\ n2 \in Nat /\ n <= n /\ n <= n2
    BY <1>1
  <2>2. Shows(r1, view1, n) /\ Shows(r2, view2, n2)
    BY <1>2, <1>3
  <2> HIDE DEF n2
  <2> QED
    BY <1>4, <2>1, <2>2, SameShows
<1>6. r2[n + 1] = ShowNext(view2, r2[n], m)
  <2>1. n + 1 \in 1..(n + 1) /\ n + 1 - 1 = n
    BY <1>1
  <2>2. \A k \in 1..(n + 1) : r2[k] = ShowNext(view2, r2[k - 1], view2.messages[k])
    BY <1>3 DEF Shows
  <2>3. \E k \in 1..(n + 1) : k = n + 1 /\ k - 1 = n
    BY <1>1
  <2> QED
    BY <1>1a, <2>2, <2>3
<1> QED
  BY <1>2, <1>3, <1>5, <1>6 DEF ShowNext

-------------------------------------------------------------------------------
(***************************************************************************)
(* What a viewer receives.                                                 *)
(***************************************************************************)

New(received, from) == {i \in DOMAIN received : received[i].sequence > from}
Has(received, from, n) == \E i \in New(received, from) : received[i].sequence = n

LEMMA FollowingIs ==
  ASSUME NEW received, NEW from, NEW last, NEW whole
  PROVE  Following(received, from, last, whole) <=>
           /\ \A i, j \in New(received, from) : i < j => received[i].sequence < received[j].sequence
           /\ \A i \in New(received, from) :
                /\ received[i].sequence <= last
                /\ \A n \in received[i].sequence .. last : Has(received, from, n)
           /\ whole => \A n \in from + 1 .. last : Has(received, from, n)
BY DEF Following, New, Has

\* Nothing is new to a viewer that has just entered its loop.
LEMMA FollowingNone ==
  ASSUME NEW received \in Seq(Message), NEW from \in Nat, NEW last \in Int, NEW whole,
         Upto(from, received), last <= from
  PROVE  Following(received, from, last, whole)
<1>1. New(received, from) = {}
  <2> SUFFICES ASSUME NEW i \in DOMAIN received, received[i].sequence > from PROVE FALSE
    BY DEF New
  <2>1. received[i] \in Message
    OBVIOUS
  <2>2. received[i].sequence \in Nat
    BY <2>1 DEF Message
  <2> QED
    BY <2>2 DEF Upto
<1>2. \A n \in from + 1 .. last : FALSE
  OBVIOUS
<1> QED
  BY <1>1, <1>2, FollowingIs

LEMMA Longer ==
  ASSUME NEW received \in Seq(Message), NEW m \in Message
  PROVE  LET longer == Append(received, m)
             k == Len(received) + 1
         IN  /\ longer \in Seq(Message) /\ k \in Nat
             /\ DOMAIN longer = DOMAIN received \cup {k} /\ longer[k] = m
             /\ \A i \in DOMAIN received : longer[i] = received[i] /\ i < k /\ i \in Nat
                                           /\ received[i] \in Message /\ received[i].sequence \in Nat
<1>1. \A i \in DOMAIN received : received[i] \in Message
  OBVIOUS
<1>2. \A i \in DOMAIN received : received[i].sequence \in Nat
  BY <1>1 DEF Message
<1>3. Append(received, m) \in Seq(Message) /\ Len(Append(received, m)) = Len(received) + 1
  OBVIOUS
<1>4. DOMAIN Append(received, m) = DOMAIN received \cup {Len(received) + 1}
  BY <1>3
<1>5. Append(received, m)[Len(received) + 1] = m
  OBVIOUS
<1>6. \A i \in DOMAIN received : Append(received, m)[i] = received[i] /\ i < Len(received) + 1 /\ i \in Nat
  OBVIOUS
<1> QED
  BY <1>1, <1>2, <1>3, <1>4, <1>5, <1>6

\* What hw.print writes, and a line the viewer has had, is not new.
LEMMA FollowingOld ==
  ASSUME NEW received \in Seq(Message), NEW m \in Message, NEW from \in Nat, NEW last, NEW whole,
         m.sequence <= from, Following(received, from, last, whole)
  PROVE  Following(Append(received, m), from, last, whole)
<1> DEFINE longer == Append(received, m)
           k == Len(received) + 1
<1>1. /\ DOMAIN longer = DOMAIN received \cup {k} /\ longer[k] = m
      /\ \A i \in DOMAIN received : longer[i] = received[i]
  BY Longer
<1>2. ~(m.sequence > from)
  BY DEF Message
<1> HIDE DEF longer
<1>3. New(longer, from) = New(received, from)
  BY <1>1, <1>2 DEF New
<1>4. \A i \in New(received, from) : longer[i] = received[i]
  BY <1>1 DEF New
<1>5. \A n : Has(longer, from, n) <=> Has(received, from, n)
  BY <1>3, <1>4 DEF Has
<1>6. Following(longer, from, last, whole)
  BY <1>3, <1>4, <1>5, FollowingIs
<1> QED
  BY <1>6 DEF longer

\* The next line that is numbered continues what was received.
LEMMA FollowingNext ==
  ASSUME NEW received \in Seq(Message), NEW m \in Message, NEW from \in Nat, NEW last \in Int, NEW whole,
         m.sequence = last + 1, last >= from, Following(received, from, last, whole)
  PROVE  Following(Append(received, m), from, last + 1, whole)
<1> DEFINE longer == Append(received, m)
           k == Len(received) + 1
<1>1. /\ DOMAIN longer = DOMAIN received \cup {k} /\ longer[k] = m /\ k \in Nat
      /\ \A i \in DOMAIN received : longer[i] = received[i] /\ i < k /\ i \in Nat
                                    /\ received[i].sequence \in Nat
  BY Longer
<1>2. m.sequence > from
  OBVIOUS
<1> HIDE DEF longer, k
<1>3. New(longer, from) = New(received, from) \cup {k}
  BY <1>1, <1>2 DEF New
<1>4. \A i \in New(received, from) : longer[i] = received[i] /\ i < k /\ i \in Nat
                                     /\ received[i].sequence \in Nat
  BY <1>1 DEF New
<1>5. \A n : Has(received, from, n) => Has(longer, from, n)
  BY <1>3, <1>4 DEF Has
<1>6. Has(longer, from, last + 1)
  BY <1>1, <1>3 DEF Has
<1>7. /\ \A i, j \in New(received, from) : i < j => received[i].sequence < received[j].sequence
      /\ \A i \in New(received, from) :
           /\ received[i].sequence <= last
           /\ \A n \in received[i].sequence .. last : Has(received, from, n)
      /\ whole => \A n \in from + 1 .. last : Has(received, from, n)
  BY FollowingIs
<1>8. ASSUME NEW i \in New(longer, from), NEW j \in New(longer, from), i < j
      PROVE  longer[i].sequence < longer[j].sequence
  <2>1. i # k
    BY <1>1, <1>3, <1>4, <1>8
  <2>2. i \in New(received, from)
    BY <1>3, <2>1
  <2>3. CASE j = k
    <3>1. received[i].sequence <= last /\ received[i].sequence \in Nat
      BY <1>4, <1>7, <2>2
    <3>2. longer[i].sequence = received[i].sequence /\ longer[j].sequence = last + 1
      BY <1>1, <1>4, <2>2, <2>3
    <3> QED
      BY <3>1, <3>2
  <2>4. CASE j # k
    BY <1>3, <1>4, <1>7, <1>8, <2>2, <2>4
  <2> QED
    BY <2>3, <2>4
<1>9. ASSUME NEW i \in New(longer, from)
      PROVE  /\ longer[i].sequence <= last + 1
             /\ \A n \in longer[i].sequence .. last + 1 : Has(longer, from, n)
  <2>1. CASE i = k
    <3>1. longer[i].sequence = last + 1
      BY <1>1, <2>1
    <3>2. \A n \in last + 1 .. last + 1 : n = last + 1
      OBVIOUS
    <3> QED
      BY <1>6, <3>1, <3>2
  <2>2. CASE i # k
    <3>1. i \in New(received, from)
      BY <1>3, <2>2
    <3>2. longer[i].sequence = received[i].sequence /\ received[i].sequence \in Nat
          /\ received[i].sequence <= last
      BY <1>4, <1>7, <3>1
    <3>3. \A n \in received[i].sequence .. last + 1 : n \in received[i].sequence .. last \/ n = last + 1
      BY <3>2
    <3>4. \A n \in received[i].sequence .. last : Has(received, from, n)
      BY <1>7, <3>1
    <3> QED
      BY <1>5, <1>6, <3>2, <3>3, <3>4
  <2> QED
    BY <2>1, <2>2
<1>10. ASSUME whole PROVE \A n \in from + 1 .. last + 1 : Has(longer, from, n)
  <2>1. \A n \in from + 1 .. last + 1 : n \in from + 1 .. last \/ n = last + 1
    OBVIOUS
  <2> QED
    BY <1>5, <1>6, <1>7, <1>10, <2>1
<1>11. Following(longer, from, last + 1, whole)
  BY <1>8, <1>9, <1>10, FollowingIs
<1> QED
  BY <1>11 DEF longer

\* Dropping the oldest lines leaves a sequence that follows, no longer from the start.
LEMMA FollowingCut ==
  ASSUME NEW received \in Seq(Message), NEW rest \in Seq(Message), NEW d \in Nat,
         Len(received) = Len(rest) + d, \A i \in 1..Len(rest) : rest[i] = received[i + d],
         NEW from \in Nat, NEW last \in Int, NEW whole, Following(received, from, last, whole)
  PROVE  Following(rest, from, last, FALSE)
<1> DEFINE k == Len(rest)
<1>0. k \in Nat /\ DOMAIN rest = 1..k /\ DOMAIN received = 1..(k + d)
  OBVIOUS
<1>1. \A i \in DOMAIN received : received[i].sequence \in Nat
  <2>1. \A i \in DOMAIN received : received[i] \in Message
    OBVIOUS
  <2> QED
    BY <2>1 DEF Message
<1> HIDE DEF k
<1>2. \A i \in New(rest, from) : i + d \in New(received, from) /\ rest[i] = received[i + d] /\ i \in Nat
  <2> SUFFICES ASSUME NEW i \in New(rest, from)
               PROVE  i + d \in New(received, from) /\ rest[i] = received[i + d] /\ i \in Nat
    OBVIOUS
  <2>1. i \in 1..k /\ rest[i].sequence > from
    BY <1>0 DEF New
  <2>2. rest[i] = received[i + d]
    BY <2>1 DEF k
  <2>3. i + d \in 1..(k + d)
    BY <1>0, <2>1
  <2> QED
    BY <1>0, <2>1, <2>2, <2>3 DEF New
<1>3. /\ \A i, j \in New(received, from) : i < j => received[i].sequence < received[j].sequence
      /\ \A i \in New(received, from) :
           /\ received[i].sequence <= last
           /\ \A n \in received[i].sequence .. last : Has(received, from, n)
  BY FollowingIs
<1>4. \A i, j \in New(rest, from) : i < j => rest[i].sequence < rest[j].sequence
  <2> SUFFICES ASSUME NEW i \in New(rest, from), NEW j \in New(rest, from), i < j
               PROVE  rest[i].sequence < rest[j].sequence
    OBVIOUS
  <2>1. i \in Nat /\ j \in Nat /\ i + d < j + d
    BY <1>2
  <2> QED
    BY <1>2, <1>3, <2>1
<1>5. ASSUME NEW i \in New(rest, from)
      PROVE  /\ rest[i].sequence <= last
             /\ \A n \in rest[i].sequence .. last : Has(rest, from, n)
  <2>1. i + d \in New(received, from) /\ rest[i] = received[i + d] /\ i \in 1..k
    BY <1>0, <1>2 DEF New
  <2>2. rest[i].sequence <= last
    BY <1>3, <2>1
  <2>3. ASSUME NEW n \in rest[i].sequence .. last PROVE Has(rest, from, n)
    <3>1. Has(received, from, n)
      BY <1>3, <2>1
    <3>2. PICK j \in New(received, from) : received[j].sequence = n
      BY <3>1 DEF Has
    <3>3. i + d <= j
      <4> SUFFICES ASSUME ~(i + d <= j) PROVE FALSE
        OBVIOUS
      <4>0. j \in 1..(k + d) /\ i + d \in 1..(k + d)
        BY <1>0, <2>1 DEF New
      <4>1. j < i + d
        BY <4>0
      <4>2. received[j].sequence < received[i + d].sequence
        BY <1>3, <2>1, <4>1
      <4>3. received[i + d].sequence \in Nat
        BY <1>0, <1>1, <4>0
      <4>4. received[i + d].sequence <= n /\ n \in Int
        <5>1. rest[i].sequence = received[i + d].sequence
          BY <2>1
        <5> HIDE DEF k
        <5> QED
          BY <4>3, <5>1
      <4> QED
        BY <3>2, <4>2, <4>3, <4>4
    <3>4. j \in 1..(k + d) /\ received[j].sequence > from
      BY <1>0 DEF New
    <3>5. j - d \in 1..k /\ (j - d) + d = j
      BY <1>0, <2>1, <3>3, <3>4
    <3>6. rest[j - d] = received[j]
      BY <3>5 DEF k
    <3> QED
      BY <1>0, <3>2, <3>4, <3>5, <3>6 DEF Has, New
  <2> QED
    BY <2>2, <2>3
<1> QED
  BY <1>4, <1>5, FollowingIs

-------------------------------------------------------------------------------
(***************************************************************************)
(* What the operations do to one viewer.                                   *)
(***************************************************************************)

LEMMA ShownType ==
  ASSUME NEW view, view.messages \in Seq(Message)
  PROVE  Shown(view) \in Seq(Message)
<1>1. PICK r : Shows(r, view, Len(view.messages)) /\ Shown(view) = r[Len(view.messages)]
  BY ShownSteps
<1>2. Len(view.messages) \in 0..Len(view.messages)
  OBVIOUS
<1> QED
  BY <1>1, <1>2 DEF Shows

Showing == {"created", "late", "posting", "loop"}

\* Nothing has happened to what is shown, and what should be.
Untouched(x, y) ==
  /\ SameFilters(x, y) /\ y.messages = x.messages
  /\ y.shown = x.shown /\ y.paused = x.paused /\ y.blank = x.blank
  /\ y.phase \in Showing => x.phase \in Showing

LEMMA CurrentSame ==
  ASSUME NEW x, NEW y, x.messages \in Seq(Message), Untouched(x, y), Current(x)
  PROVE  Current(y)
<1>1. Shown(x) = Shown(y)
  BY ShownSame DEF Untouched
<1> QED
  BY <1>1 DEF Current, Untouched, Showing

LEMMA RebuildIs ==
  ASSUME NEW x \in View
  PROVE  LET y == Rebuild(x)
         IN  /\ y \in View /\ Current(y) /\ y.shown = Shown(x) /\ y.blank = FALSE
             /\ y.phase = x.phase /\ y.active = x.active /\ y.hwnd = x.hwnd /\ y.from = x.from
             /\ y.pending = x.pending /\ y.late = x.late /\ y.box = x.box /\ y.messages = x.messages
<1> DEFINE y == Rebuild(x)
<1>1. x.messages \in Seq(Message)
  BY DEF View
<1>2. Shown(x) \in Seq(Message)
  BY <1>1, ShownType
<1>3. y \in View /\ y.shown = Shown(x) /\ y.blank = FALSE
  BY <1>2 DEF Rebuild, View
<1>4. /\ y.phase = x.phase /\ y.active = x.active /\ y.hwnd = x.hwnd /\ y.from = x.from
      /\ y.pending = x.pending /\ y.late = x.late /\ y.box = x.box /\ y.messages = x.messages
  BY DEF Rebuild, View
<1>5. SameFilters(x, y)
  BY DEF Rebuild, View, SameFilters
<1> HIDE DEF y
<1>6. Shown(x) = Shown(y)
  BY <1>1, <1>4, <1>5, ShownSame
<1>7. Current(y)
  BY <1>3, <1>6 DEF Current
<1> QED
  BY <1>3, <1>4, <1>7 DEF y

LEMMA UptoAppend ==
  ASSUME NEW n \in Nat, NEW s \in Seq(Message), NEW m \in Message, Upto(n, s), m.sequence <= n
  PROVE  Append(s, m) \in Seq(Message) /\ Upto(n, Append(s, m))
<1>1. /\ Append(s, m) \in Seq(Message)
      /\ DOMAIN Append(s, m) = DOMAIN s \cup {Len(s) + 1} /\ Append(s, m)[Len(s) + 1] = m
      /\ \A i \in DOMAIN s : Append(s, m)[i] = s[i]
  BY Longer
<1> QED
  BY <1>1 DEF Upto

LEMMA UptoTail ==
  ASSUME NEW n \in Nat, NEW s \in Seq(Message), s # <<>>, Upto(n, s)
  PROVE  /\ Tail(s) \in Seq(Message) /\ Upto(n, Tail(s))
         /\ Head(s) \in Message /\ Head(s).sequence <= n
         /\ Len(s) = Len(Tail(s)) + 1 /\ Head(s) = s[1]
         /\ \A i \in 1..Len(Tail(s)) : Tail(s)[i] = s[i + 1]
<1>1. /\ Tail(s) \in Seq(Message) /\ Len(s) = Len(Tail(s)) + 1
      /\ Head(s) = s[1] /\ Head(s) \in Message /\ 1 \in DOMAIN s
  OBVIOUS
<1>2. \A i \in 1..Len(Tail(s)) : Tail(s)[i] = s[i + 1] /\ i + 1 \in DOMAIN s
  OBVIOUS
<1>3. Upto(n, Tail(s)) /\ Head(s).sequence <= n
  BY <1>1, <1>2 DEF Upto
<1> QED
  BY <1>1, <1>2, <1>3

LEMMA UptoConcat ==
  ASSUME NEW n \in Nat, NEW s \in Seq(Message), NEW t \in Seq(Message), Upto(n, s), Upto(n, t)
  PROVE  s \o t \in Seq(Message) /\ Upto(n, s \o t)
<1> DEFINE r == s \o t
<1>1. r \in Seq(Message) /\ Len(r) = Len(s) + Len(t)
  OBVIOUS
<1>2. \A i \in 1..Len(s) : r[i] = s[i]
  OBVIOUS
<1>3. \A i \in 1..Len(t) : r[Len(s) + i] = t[i]
  OBVIOUS
<1> HIDE DEF r
<1>4. ASSUME NEW i \in DOMAIN r PROVE r[i].sequence <= n
  <2>1. i \in 1..(Len(s) + Len(t)) /\ DOMAIN s = 1..Len(s) /\ DOMAIN t = 1..Len(t)
    BY <1>1
  <2>2. CASE i <= Len(s)
    BY <1>2, <2>1, <2>2 DEF Upto
  <2>3. CASE ~(i <= Len(s))
    <3>1. i - Len(s) \in 1..Len(t) /\ Len(s) + (i - Len(s)) = i
      BY <2>1, <2>3
    <3>2. r[i] = t[i - Len(s)]
      BY <1>3, <3>1
    <3> QED
      BY <2>1, <3>1, <3>2 DEF Upto
  <2> QED
    BY <2>2, <2>3
<1> QED
  BY <1>1, <1>4 DEF Upto, r

\* A line that arrives, with the oldest dropped if there are too many
LEMMA AppendLiveIs ==
  ASSUME NEW x \in View, NEW m \in Message, NEW n \in Nat, Numbered(x, n), m.sequence <= n, Current(x),
         x.phase \in Showing
  PROVE  LET y == AppendLive(x, m)
             got == Append(x.messages, m)
         IN  /\ y \in View /\ Numbered(y, n) /\ Current(y)
             /\ y.phase = x.phase /\ y.active = x.active /\ y.hwnd = x.hwnd /\ y.from = x.from
             /\ y.box = x.box
             /\ \/ y.messages = got
                \/ Len(got) > KeepMessages /\ y.messages = SubSeq(got, TrimCount + 1, Len(got))
<1> DEFINE got == Append(x.messages, m)
           g == [x EXCEPT !.messages = got]
           rest == SubSeq(got, TrimCount + 1, Len(got))
           y == AppendLive(x, m)
<1>1. x.messages \in Seq(Message) /\ x.shown \in Seq(Message)
  BY DEF View
<1>2. got \in Seq(Message) /\ Upto(n, got)
  BY <1>1, UptoAppend DEF Numbered
<1>3. TrimCount \in Nat
  BY LogAssumption DEF LogAssumption
<1> HIDE DEF got
<1>4. /\ g \in View /\ g.messages = got /\ g.shown = x.shown /\ g.paused = x.paused /\ g.blank = x.blank
      /\ g.phase = x.phase /\ g.active = x.active /\ g.hwnd = x.hwnd /\ g.from = x.from
      /\ g.box = x.box /\ g.pending = x.pending /\ g.late = x.late
  BY <1>2 DEF View
<1>5. SameFilters(x, g)
  BY DEF SameFilters, View
<1>6. CASE Len(got) > KeepMessages
  <2> DEFINE h == [g EXCEPT !.messages = rest]
  <2>1. y = Rebuild(h)
    BY <1>4, <1>6 DEF AppendLive, got
  <2>2. rest \in Seq(Message) /\ Upto(n, rest)
    <3>1. /\ rest \in Seq(Message)
          /\ \A i \in 1..Len(rest) : rest[i] = got[TrimCount + i] /\ TrimCount + i \in 1..Len(got)
      BY <1>2, <1>3
    <3> QED
      BY <1>2, <3>1 DEF Upto
  <2> HIDE DEF g, rest
  <2>3. h \in View /\ h.messages = rest /\ h.phase = g.phase /\ h.active = g.active
        /\ h.hwnd = g.hwnd /\ h.from = g.from /\ h.box = g.box /\ h.pending = g.pending /\ h.late = g.late
    BY <1>4, <2>2 DEF View
  <2> HIDE DEF h, y
  <2>4. /\ y \in View /\ Current(y)
        /\ y.phase = h.phase /\ y.active = h.active /\ y.hwnd = h.hwnd /\ y.from = h.from
        /\ y.pending = h.pending /\ y.late = h.late /\ y.box = h.box /\ y.messages = h.messages
    BY <2>1, <2>3, RebuildIs
  <2>5. Numbered(y, n)
    BY <1>4, <2>2, <2>3, <2>4 DEF Numbered
  <2> QED
    BY <1>4, <1>6, <2>3, <2>4, <2>5 DEF y, rest, got
<1>7. CASE ~(Len(got) > KeepMessages)
  <2>1. y = IF ~g.paused /\ Visible(g, m) THEN [g EXCEPT !.shown = Append(@, m)] ELSE g
    BY <1>4, <1>7 DEF AppendLive, got
  <2>2. Shown(g) = IF Visible(g, m) THEN Append(Shown(x), m) ELSE Shown(x)
    BY <1>1, <1>4, <1>5, ShownAppend DEF got
  <2>3. ~x.paused /\ ~x.blank => x.shown = Shown(x)
    BY DEF Current, Showing
  <2> HIDE DEF g
  <2>4. CASE ~g.paused /\ Visible(g, m)
    <3> DEFINE z == [g EXCEPT !.shown = Append(g.shown, m)]
    <3>1. y = z
      BY <2>1, <2>4
    <3>2. Append(g.shown, m) \in Seq(Message)
      BY <1>1, <1>4
    <3>3. /\ z \in View /\ z.shown = Append(g.shown, m) /\ z.messages = g.messages /\ z.paused = g.paused
          /\ z.blank = g.blank
          /\ z.phase = g.phase /\ z.active = g.active /\ z.hwnd = g.hwnd /\ z.from = g.from
          /\ z.box = g.box /\ z.pending = g.pending /\ z.late = g.late
      BY <1>4, <3>2 DEF View
    <3>4. SameFilters(g, z)
      BY <1>4 DEF SameFilters, View
    <3> HIDE DEF z
    <3>5. Shown(z) = Shown(g)
      BY <1>2, <1>4, <3>3, <3>4, ShownSame
    <3>6. Current(z)
      BY <1>4, <2>2, <2>3, <2>4, <3>3, <3>5 DEF Current
    <3>7. Numbered(z, n)
      BY <1>2, <1>4, <3>3 DEF Numbered
    <3> QED
      BY <1>4, <3>1, <3>3, <3>6, <3>7 DEF got
  <2>5. CASE ~(~g.paused /\ Visible(g, m))
    <3>1. y = g
      BY <2>1, <2>5
    <3>2. Current(g)
      BY <1>4, <2>2, <2>3, <2>5 DEF Current
    <3>3. Numbered(g, n)
      BY <1>2, <1>4 DEF Numbered
    <3> QED
      BY <1>4, <3>1, <3>2, <3>3 DEF got
  <2> QED
    BY <2>4, <2>5
<1> QED
  BY <1>6, <1>7

-------------------------------------------------------------------------------
(***************************************************************************)
(* The steps.                                                              *)
(***************************************************************************)

FollowsAs(y, v) ==
  /\ y.from <= log.sequence
  /\ Missed(v) => y.from = log.sequence
  /\ Following(y.messages \o y.box, y.from, Delivered, Whole(y))

ViewerOK(v) ==
  /\ viewers[v] \in View
  /\ Numbered(viewers[v], log.sequence)
  /\ Current(viewers[v])
  /\ Reached(viewers[v], v)
  /\ Follows(v)

\* What a viewer may become in one step of its own
Becomes(v, y) ==
  /\ y \in View /\ Numbered(y, log.sequence) /\ Current(y)
  /\ y.active => viewers[v].active
  /\ y.active /\ y.phase \in {"late", "posting", "loop"} => y.hwnd
  /\ y.active /\ y.phase = "loop" => FollowsAs(y, v)

\* The worker is no further, and the same viewer is reached.
Quiet ==
  /\ log'.sequence = log.sequence /\ impl' = impl
  /\ Delivered' = Delivered
  /\ (worker'.pc = "pend" <=> worker.pc = "pend")
  /\ (worker'.pc = "post" <=> worker.pc = "post")
  /\ worker.pc = "post" => worker'.window = worker.window

LEMMA QuietIf ==
  ASSUME log'.sequence = log.sequence, impl' = impl, worker' = worker
  PROVE  Quiet
BY DEF Quiet, Delivered

ClientOK == client.rendered.sequence = 0 /\ Upto(log.sequence, client.ring)

LEMMA ClientSame ==
  ASSUME ClientOK, UNCHANGED client, log'.sequence = log.sequence
  PROVE  ClientOK'
BY DEF ClientOK

LEMMA Viewed ==
  /\ ViewersInv <=> DOMAIN viewers = Viewers /\ (\A v \in Viewers : ViewerOK(v)) /\ ClientOK
  /\ ViewersInv' <=> DOMAIN viewers' = Viewers /\ (\A v \in Viewers : ViewerOK(v)') /\ ClientOK'
BY DEF ViewersInv, ViewerOK, ClientOK

LEMMA FollowsIs ==
  ASSUME NEW v
  PROVE  Follows(v) <=> (viewers[v].phase = "loop" /\ viewers[v].active => FollowsAs(viewers[v], v))
BY DEF Follows, FollowsAs, Received

LEMMA BecomesSame ==
  ASSUME NEW v, ViewerOK(v)
  PROVE  Becomes(v, viewers[v])
BY FollowsIs DEF ViewerOK, Becomes, Reached

LEMMA QuietViewer ==
  ASSUME Quiet, NEW v, ViewerOK(v), NEW y, viewers'[v] = y, Becomes(v, y)
  PROVE  ViewerOK(v)'
<1>1. viewers'[v] \in View /\ Numbered(viewers'[v], log'.sequence) /\ Current(viewers'[v])
  BY DEF Becomes, Quiet
<1>2. Reached(viewers[v], v)' /\ Reached(viewers[v], v)
  BY DEF Becomes, Quiet, Reached, ViewerOK
<1>3. ASSUME viewers'[v].phase = "loop" /\ viewers'[v].active
      PROVE  /\ viewers'[v].from <= log'.sequence
             /\ Missed(v)' => viewers'[v].from = log'.sequence
             /\ Following(Received(v)', viewers'[v].from, Delivered', Whole(viewers'[v]))
  <2>1. FollowsAs(y, v)
    BY <1>3 DEF Becomes
  <2>2. Missed(v)' <=> Missed(v)
    BY DEF Quiet, Missed
  <2>3. Received(v)' = y.messages \o y.box
    BY DEF Received
  <2> QED
    BY <2>1, <2>2, <2>3 DEF FollowsAs, Quiet
<1>4. Follows(v)'
  BY <1>3 DEF Follows
<1>5. Numbered(viewers[v], log.sequence)' /\ Current(viewers[v])'
  BY <1>1
<1> QED
  BY <1>1, <1>2, <1>4, <1>5 DEF ViewerOK

\* One viewer takes a step, and the rest of the program does not matter to the others.
LEMMA OneViewer ==
  ASSUME ViewersInv, Quiet, ClientOK', NEW v, NEW y, v \in Viewers => Becomes(v, y),
         viewers' = [viewers EXCEPT ![v] = y]
  PROVE  ViewersInv'
<1>1. DOMAIN viewers = Viewers /\ \A w \in Viewers : ViewerOK(w)
  BY Viewed
<1>2. DOMAIN viewers' = Viewers
  BY <1>1
<1>3. ASSUME NEW w \in Viewers PROVE ViewerOK(w)'
  <2>1. CASE w = v
    <3>1. viewers'[w] = y
      BY <1>1, <2>1
    <3> QED
      BY <1>1, <2>1, <3>1, QuietViewer
  <2>2. CASE w # v
    <3>1. viewers'[w] = viewers[w]
      BY <1>1, <2>2
    <3> QED
      BY <1>1, <3>1, QuietViewer, BecomesSame
  <2> QED
    BY <2>1, <2>2
<1> QED
  BY <1>2, <1>3, Viewed

LEMMA SameViewers ==
  ASSUME ViewersInv, Quiet, ClientOK', UNCHANGED viewers
  PROVE  ViewersInv'
<1>1. DOMAIN viewers = Viewers /\ \A w \in Viewers : ViewerOK(w)
  BY Viewed
<1>2. ASSUME NEW w \in Viewers PROVE ViewerOK(w)'
  BY <1>1, QuietViewer, BecomesSame
<1> QED
  BY <1>1, <1>2, Viewed

LEMMA GoneIs ==
  ASSUME NEW n \in Nat
  PROVE  Gone \in View /\ Numbered(Gone, n) /\ Current(Gone) /\ Gone.active = FALSE
<1>1. <<>> \in Seq(Message) /\ DOMAIN <<>> = {}
  OBVIOUS
<1>2. /\ Gone \in View /\ Gone.active = FALSE /\ Gone.phase = "gone"
      /\ Gone.pending = <<>> /\ Gone.late = <<>> /\ Gone.box = <<>> /\ Gone.messages = <<>>
  BY <1>1 DEF Gone, NoViewer, View
<1>3. Numbered(Gone, n)
  BY <1>1, <1>2 DEF Numbered, Upto
<1>4. Current(Gone)
  BY <1>2 DEF Current
<1> QED
  BY <1>2, <1>3, <1>4

LEMMA GoneBecomes ==
  ASSUME LogTypeOK, NEW v
  PROVE  Becomes(v, Gone)
<1>1. log.sequence \in Nat
  BY DEF LogTypeOK
<1> QED
  BY <1>1, GoneIs DEF Becomes

\* The view of a viewer that is closed, and one that is told to stop: not reached any more.
LEMMA ClosedIs ==
  ASSUME NEW x \in View, NEW n \in Nat, Numbered(x, n), Current(x)
  PROVE  /\ Closed(x) \in View /\ Numbered(Closed(x), n) /\ Current(Closed(x)) /\ Closed(x).active = FALSE
         /\ Stopped(x) \in View /\ Numbered(Stopped(x), n) /\ Current(Stopped(x)) /\ Stopped(x).active = FALSE
<1>1. x.box \in Seq(Message) /\ x.messages \in Seq(Message) /\ Upto(n, x.box)
  BY DEF View, Numbered
<1>2. CloseMessage \in Message /\ CloseMessage.sequence <= n
  BY CloseMessageType DEF CloseMessage
<1>3. Append(x.box, CloseMessage) \in Seq(Message) /\ Upto(n, Append(x.box, CloseMessage))
  BY <1>1, <1>2, UptoAppend
<1> DEFINE box == IF x.hwnd /\ x.phase \in {"late", "posting", "loop"} THEN Append(x.box, CloseMessage) ELSE x.box
           y == [x EXCEPT !.active = FALSE, !.hwnd = FALSE, !.box = box]
<1>4. box \in Seq(Message) /\ Upto(n, box)
  BY <1>1, <1>3
<1>5. Closed(x) = y
  BY DEF Closed, View
<1> HIDE DEF box
<1>6. y \in View /\ y.box = box /\ y.active = FALSE /\ y.phase = x.phase
      /\ y.pending = x.pending /\ y.late = x.late /\ y.messages = x.messages /\ Untouched(x, y)
  BY <1>4 DEF View, Untouched, SameFilters
<1> HIDE DEF y
<1>7. Numbered(y, n) /\ Current(y)
  BY <1>1, <1>4, <1>6, CurrentSame DEF Numbered
<1> DEFINE box2 == IF y.phase = "loop" THEN Append(box, CloseMessage) ELSE box
           z == [y EXCEPT !.stop = TRUE, !.box = box2]
<1>8. box2 \in Seq(Message) /\ Upto(n, box2)
  BY <1>2, <1>4, UptoAppend
<1>9. Stopped(x) = z
  BY <1>5, <1>6 DEF Stopped, View
<1> HIDE DEF box2
<1>10. z \in View /\ z.box = box2 /\ z.active = FALSE /\ z.phase = y.phase
       /\ z.pending = y.pending /\ z.late = y.late /\ z.messages = y.messages /\ Untouched(y, z)
  BY <1>6, <1>8 DEF View, Untouched, SameFilters
<1> HIDE DEF z
<1>11. y.messages \in Seq(Message)
  BY <1>1, <1>6
<1>12. Numbered(z, n) /\ Current(z)
  BY <1>7, <1>8, <1>10, <1>11, CurrentSame DEF Numbered
<1> QED
  BY <1>5, <1>6, <1>7, <1>9, <1>10, <1>12

LEMMA ClosedBecomes ==
  ASSUME LogTypeOK, NEW v, ViewerOK(v)
  PROVE  Becomes(v, Closed(viewers[v])) /\ Becomes(v, Stopped(viewers[v]))
<1>1. log.sequence \in Nat
  BY DEF LogTypeOK
<1> QED
  BY <1>1, ClosedIs DEF Becomes, ViewerOK

LEMMA OwnStep ==
  ASSUME ViewersInv, NEW v, NEW y, v \in Viewers => Becomes(v, y),
         viewers' = [viewers EXCEPT ![v] = y], UNCHANGED <<log, worker, client, impl>>
  PROVE  ViewersInv'
<1>1. Quiet
  BY QuietIf
<1>2. ClientOK'
  BY Viewed, ClientSame
<1> QED
  BY <1>1, <1>2, OneViewer

\* A step before the loop that neither opens the viewer nor takes its window away.
LEMMA BeforeLoop ==
  ASSUME NEW v, ViewerOK(v), NEW y \in View, Numbered(y, log.sequence), Current(y),
         y.active = viewers[v].active, y.hwnd = viewers[v].hwnd, y.phase # "loop",
         y.phase \in {"late", "posting"} => viewers[v].phase \in {"late", "posting"}
  PROVE  Becomes(v, y)
BY DEF Becomes, ViewerOK, Reached

LEMMA TakePendingOK ==
  ASSUME ViewersInv, TypeOK, NEW v \in Viewers, TakePending(v)
  PROVE  ViewersInv'
<1> DEFINE x == viewers[v]
           y == [x EXCEPT !.phase = "creating", !.pending = <<>>, !.messages = @ \o x.pending]
<1>1. ViewerOK(v) /\ x \in View /\ Numbered(x, log.sequence) /\ log.sequence \in Nat /\ x.phase = "starting"
  BY Viewed DEF ViewerOK, TakePending, TypeOK, LogTypeOK
<1>2. /\ viewers' = [viewers EXCEPT ![v] = y] /\ UNCHANGED <<log, worker, client, impl>>
  BY DEF TakePending, SetViewer
<1> HIDE DEF x
<1>3. x.messages \in Seq(Message) /\ x.pending \in Seq(Message)
  BY <1>1 DEF View
<1>4. x.messages \o x.pending \in Seq(Message) /\ Upto(log.sequence, x.messages \o x.pending)
  BY <1>1, <1>3, UptoConcat DEF Numbered
<1>5. <<>> \in Seq(Message) /\ Upto(log.sequence, <<>>)
  BY DEF Upto
<1>6. /\ y \in View /\ y.phase = "creating" /\ y.pending = <<>> /\ y.messages = x.messages \o x.pending
      /\ y.late = x.late /\ y.box = x.box /\ y.active = x.active /\ y.hwnd = x.hwnd
  BY <1>1, <1>4, <1>5 DEF View
<1> HIDE DEF y
<1>7. Numbered(y, log.sequence) /\ Current(y)
  BY <1>1, <1>4, <1>5, <1>6 DEF Numbered, Current
<1>8. Becomes(v, y)
  BY <1>1, <1>6, <1>7, BeforeLoop DEF x
<1> QED
  BY <1>2, <1>8, OwnStep

LEMMA CreateViewerWindowOK ==
  ASSUME ViewersInv, TypeOK, NEW v \in Viewers, CreateViewerWindow(v)
  PROVE  ViewersInv'
<1> DEFINE x == viewers[v]
           z == [x EXCEPT !.phase = "created"]
           y == Rebuild(z)
<1>1. ViewerOK(v) /\ x \in View /\ Numbered(x, log.sequence)
  BY Viewed DEF ViewerOK
<1>2. /\ viewers' = [viewers EXCEPT ![v] = y] /\ UNCHANGED <<log, worker, client, impl>>
  BY DEF CreateViewerWindow, SetViewer
<1> HIDE DEF x
<1>3. /\ z \in View /\ z.phase = "created" /\ z.active = x.active /\ z.hwnd = x.hwnd
      /\ z.pending = x.pending /\ z.late = x.late /\ z.box = x.box /\ z.messages = x.messages
  BY <1>1 DEF View
<1> HIDE DEF z
<1>4. /\ y \in View /\ Current(y) /\ y.phase = z.phase /\ y.active = z.active /\ y.hwnd = z.hwnd
      /\ y.pending = z.pending /\ y.late = z.late /\ y.box = z.box /\ y.messages = z.messages
  BY <1>3, RebuildIs
<1> HIDE DEF y
<1>5. Numbered(y, log.sequence)
  BY <1>1, <1>3, <1>4 DEF Numbered
<1>6. Becomes(v, y)
  BY <1>1, <1>3, <1>4, <1>5, BeforeLoop DEF x
<1> QED
  BY <1>2, <1>6, OwnStep

LEMMA PublishWindowOK ==
  ASSUME ViewersInv, TypeOK, NEW v \in Viewers, PublishWindow(v)
  PROVE  ViewersInv'
<1> DEFINE x == viewers[v]
           y == [x EXCEPT !.phase = "late", !.hwnd = TRUE]
<1>1. ViewerOK(v) /\ x \in View /\ Numbered(x, log.sequence) /\ Current(x) /\ x.phase = "created"
  BY Viewed DEF ViewerOK, PublishWindow
<1>2. /\ viewers' = [viewers EXCEPT ![v] = y] /\ UNCHANGED <<log, worker, client, impl>>
  BY DEF PublishWindow, SetViewer
<1> HIDE DEF x
<1>3. /\ y \in View /\ y.phase = "late" /\ y.active = x.active /\ y.hwnd = TRUE /\ x.messages \in Seq(Message)
      /\ y.pending = x.pending /\ y.late = x.late /\ y.box = x.box /\ y.messages = x.messages
  BY <1>1 DEF View
<1>4. Untouched(x, y)
  BY <1>1 DEF View, Untouched, SameFilters, Showing
<1> HIDE DEF y
<1>5. Numbered(y, log.sequence) /\ Current(y)
  BY <1>1, <1>3, <1>4, CurrentSame DEF Numbered
<1>6. Becomes(v, y)
  BY <1>3, <1>5 DEF x, Becomes
<1> QED
  BY <1>2, <1>6, OwnStep

LEMMA TakeLateOK ==
  ASSUME ViewersInv, TypeOK, NEW v \in Viewers, TakeLate(v)
  PROVE  ViewersInv'
<1> DEFINE x == viewers[v]
           y == [x EXCEPT !.phase = "posting", !.pending = <<>>, !.late = x.pending]
<1>1. ViewerOK(v) /\ x \in View /\ Numbered(x, log.sequence) /\ Current(x) /\ x.phase = "late"
  BY Viewed DEF ViewerOK, TakeLate
<1>2. /\ viewers' = [viewers EXCEPT ![v] = y] /\ UNCHANGED <<log, worker, client, impl>>
  BY DEF TakeLate, SetViewer
<1> HIDE DEF x
<1>3. <<>> \in Seq(Message) /\ Upto(log.sequence, <<>>)
  BY DEF Upto
<1>4. /\ y \in View /\ y.phase = "posting" /\ y.active = x.active /\ y.hwnd = x.hwnd /\ x.messages \in Seq(Message)
      /\ y.pending = <<>> /\ y.late = x.pending /\ y.box = x.box /\ y.messages = x.messages
  BY <1>1, <1>3 DEF View
<1>5. Untouched(x, y)
  BY <1>1 DEF View, Untouched, SameFilters, Showing
<1> HIDE DEF y
<1>6. Numbered(y, log.sequence) /\ Current(y)
  BY <1>1, <1>3, <1>4, <1>5, CurrentSame DEF Numbered
<1>7. Becomes(v, y)
  BY <1>1, <1>4, <1>6, BeforeLoop DEF x
<1> QED
  BY <1>2, <1>7, OwnStep

LEMMA PostLateOK ==
  ASSUME ViewersInv, TypeOK, NEW v \in Viewers, PostLate(v)
  PROVE  ViewersInv'
<1> DEFINE x == viewers[v]
           y == [x EXCEPT !.late = Tail(@), !.box = Append(@, Head(x.late))]
<1>1. /\ ViewerOK(v) /\ x \in View /\ Numbered(x, log.sequence) /\ Current(x)
      /\ x.phase = "posting" /\ x.late # <<>> /\ log.sequence \in Nat
  BY Viewed DEF ViewerOK, PostLate, TypeOK, LogTypeOK
<1>2. /\ viewers' = [viewers EXCEPT ![v] = y] /\ UNCHANGED <<log, worker, client, impl>>
  BY DEF PostLate, SetViewer
<1> HIDE DEF x
<1>3. x.late \in Seq(Message) /\ x.box \in Seq(Message) /\ x.messages \in Seq(Message)
  BY <1>1 DEF View
<1>4. /\ Tail(x.late) \in Seq(Message) /\ Upto(log.sequence, Tail(x.late))
      /\ Head(x.late) \in Message /\ Head(x.late).sequence <= log.sequence
  BY <1>1, <1>3, UptoTail DEF Numbered
<1>5. Append(x.box, Head(x.late)) \in Seq(Message) /\ Upto(log.sequence, Append(x.box, Head(x.late)))
  BY <1>1, <1>3, <1>4, UptoAppend DEF Numbered
<1>6. /\ y \in View /\ y.phase = "posting" /\ y.active = x.active /\ y.hwnd = x.hwnd
      /\ y.pending = x.pending /\ y.late = Tail(x.late) /\ y.box = Append(x.box, Head(x.late))
      /\ y.messages = x.messages
  BY <1>1, <1>4, <1>5 DEF View
<1>7. Untouched(x, y)
  BY <1>1 DEF View, Untouched, SameFilters, Showing
<1> HIDE DEF y
<1>8. Numbered(y, log.sequence) /\ Current(y)
  BY <1>1, <1>3, <1>4, <1>5, <1>6, <1>7, CurrentSame DEF Numbered
<1>9. Becomes(v, y)
  BY <1>1, <1>6, <1>8, BeforeLoop DEF x
<1> QED
  BY <1>2, <1>9, OwnStep

LEMMA GoneOK ==
  ASSUME ViewersInv, TypeOK, NEW v \in Viewers, ViewerFails(v) \/ UserCloses(v)
  PROVE  ViewersInv'
<1>1. viewers' = [viewers EXCEPT ![v] = Gone] /\ UNCHANGED <<log, worker, client, impl>>
  BY DEF ViewerFails, SetViewer, UserCloses
<1>2. Becomes(v, Gone)
  BY GoneBecomes DEF TypeOK
<1> QED
  BY <1>1, <1>2, OwnStep

LEMMA CloseViewerOK ==
  ASSUME ViewersInv, TypeOK, CloseViewer
  PROVE  ViewersInv'
<1>1. viewers' = [viewers EXCEPT ![impl] = Closed(viewers[impl])] /\ UNCHANGED <<log, worker, client, impl>>
  BY DEF CloseViewer
<1>2. impl \in Viewers => Becomes(impl, Closed(viewers[impl]))
  BY ClosedBecomes, Viewed DEF TypeOK
<1> QED
  BY <1>1, <1>2, OwnStep

LEMMA StartLoopOK ==
  ASSUME ViewersInv, TypeOK, NEW v \in Viewers, StartLoop(v)
  PROVE  ViewersInv'
<1> DEFINE x == viewers[v]
           box == IF x.stop THEN Append(x.box, CloseMessage) ELSE x.box
           y == [x EXCEPT !.phase = "loop", !.from = log.sequence, !.box = box]
<1>1. /\ ViewerOK(v) /\ x \in View /\ Numbered(x, log.sequence) /\ Current(x)
      /\ x.phase = "posting" /\ log.sequence \in Nat /\ (x.active => x.hwnd)
  BY Viewed DEF ViewerOK, StartLoop, TypeOK, LogTypeOK, Reached
<1>2. /\ viewers' = [viewers EXCEPT ![v] = EnterLoop(x)] /\ UNCHANGED <<log, worker, client, impl>>
  BY DEF StartLoop, SetViewer
<1> HIDE DEF x
<1>3. x.box \in Seq(Message) /\ x.messages \in Seq(Message)
  BY <1>1 DEF View
<1>4. CloseMessage \in Message /\ CloseMessage.sequence <= log.sequence
  BY <1>1, CloseMessageType DEF CloseMessage
<1>5. box \in Seq(Message) /\ Upto(log.sequence, box)
  BY <1>1, <1>3, <1>4, UptoAppend DEF Numbered
<1>6. EnterLoop(x) = y
  BY DEF EnterLoop
<1> HIDE DEF box
<1>7. /\ y \in View /\ y.phase = "loop" /\ y.active = x.active /\ y.hwnd = x.hwnd /\ y.from = log.sequence
      /\ y.pending = x.pending /\ y.late = x.late /\ y.box = box /\ y.messages = x.messages
  BY <1>1, <1>5 DEF View
<1>8. Untouched(x, y)
  BY <1>1 DEF View, Untouched, SameFilters, Showing
<1> HIDE DEF y
<1>9. Numbered(y, log.sequence) /\ Current(y)
  BY <1>1, <1>3, <1>5, <1>7, <1>8, CurrentSame DEF Numbered
<1>10. FollowsAs(y, v)
  <2>1. y.messages \o y.box \in Seq(Message) /\ Upto(log.sequence, y.messages \o y.box)
    BY <1>1, <1>3, <1>5, <1>7, UptoConcat DEF Numbered
  <2>2. Delivered \in Int /\ Delivered <= log.sequence
    BY <1>1 DEF Delivered
  <2>3. Following(y.messages \o y.box, y.from, Delivered, Whole(y))
    BY <1>1, <1>7, <2>1, <2>2, FollowingNone
  <2> QED
    BY <1>1, <1>7, <2>3 DEF FollowsAs
<1>11. Becomes(v, y)
  BY <1>1, <1>7, <1>9, <1>10 DEF x, Becomes
<1> QED
  BY <1>2, <1>6, <1>11, OwnStep

\* The first line of the box joins those the viewer keeps.
LEMMA Joined ==
  ASSUME NEW messages \in Seq(Message), NEW box \in Seq(Message), box # <<>>
  PROVE  Append(messages, Head(box)) \o Tail(box) = messages \o box
<1>1. Append(messages, Head(box)) \o (Tail(box) \o <<>>) = messages \o (box \o <<>>)
  BY Handed, <<>> \in Seq(Message)
<1>2. Tail(box) \o <<>> = Tail(box) /\ box \o <<>> = box
  BY ConcatEmptySeq, HeadTailProperties
<1> QED
  BY <1>1, <1>2

\* What follows still does if less is asked for.
LEMMA FollowingLess ==
  ASSUME NEW received, NEW from, NEW last, NEW whole, NEW less, less => whole,
         Following(received, from, last, whole)
  PROVE  Following(received, from, last, less)
BY FollowingIs

\* A line more than is kept: the oldest go, and many are left.
LEMMA CutAway ==
  ASSUME NEW got \in Seq(Message), NEW box \in Seq(Message), Len(got) > KeepMessages,
         NEW from \in Nat, NEW last \in Int, NEW whole, Following(got \o box, from, last, whole),
         NEW y, y.messages = SubSeq(got, TrimCount + 1, Len(got))
  PROVE  Following(y.messages \o box, from, last, Whole(y))
<1> DEFINE d == TrimCount
           rest == SubSeq(got, d + 1, Len(got))
           received == got \o box
           left == rest \o box
<1>1. d \in Nat /\ KeepMessages \in Int /\ KeepMessages > d
  BY LogAssumption DEF LogAssumption
<1>2. Len(got) \in Nat /\ Len(box) \in Nat /\ Len(got) >= d
  BY <1>1
<1>3. rest \in Seq(Message) /\ Len(rest) = Len(got) - d /\ \A i \in 1..Len(rest) : rest[i] = got[i + d]
  BY <1>1, <1>2
<1> HIDE DEF rest, d
<1>4. /\ received \in Seq(Message) /\ Len(received) = Len(got) + Len(box)
      /\ \A i \in 1..Len(got) : received[i] = got[i]
      /\ \A i \in 1..Len(box) : received[Len(got) + i] = box[i]
  OBVIOUS
<1>5. /\ left \in Seq(Message) /\ Len(left) = Len(rest) + Len(box)
      /\ \A i \in 1..Len(rest) : left[i] = rest[i]
      /\ \A i \in 1..Len(box) : left[Len(rest) + i] = box[i]
  <2>1. rest \in Seq(Message)
    BY <1>3
  <2> HIDE DEF received
  <2>2. left \in Seq(Message) /\ Len(left) = Len(rest) + Len(box)
    BY <2>1
  <2>3. \A i \in 1..Len(rest) : left[i] = rest[i]
    BY <2>1
  <2>4. \A i \in 1..Len(box) : left[Len(rest) + i] = box[i]
    BY <2>1
  <2> QED
    BY <2>2, <2>3, <2>4
<1>6. Following(received, from, last, whole)
  OBVIOUS
<1> HIDE DEF left, received
<1>7. Len(received) = Len(left) + d
  BY <1>1, <1>2, <1>3, <1>4, <1>5
<1>8. ASSUME NEW i \in 1..Len(left) PROVE left[i] = received[i + d]
  <2>0. i \in 1..(Len(rest) + Len(box)) /\ Len(rest) \in Nat
    BY <1>3, <1>5
  <2>1. CASE i <= Len(rest)
    <3>1. i \in 1..Len(rest) /\ i + d \in 1..Len(got)
      BY <1>1, <1>2, <1>3, <2>0, <2>1
    <3> QED
      BY <1>3, <1>4, <1>5, <3>1
  <2>2. CASE ~(i <= Len(rest))
    <3>1. PICK j \in 1..Len(box) : i = Len(rest) + j
      <4>1. i - Len(rest) \in 1..Len(box) /\ i = Len(rest) + (i - Len(rest))
        BY <1>2, <2>0, <2>2
      <4> QED
        BY <4>1
    <3>2. i + d = Len(got) + j
      BY <1>1, <1>2, <1>3, <3>1
    <3> QED
      BY <1>4, <1>5, <3>1, <3>2
  <2> QED
    BY <2>1, <2>2
<1>9. Following(left, from, last, FALSE)
  BY <1>1, <1>4, <1>5, <1>6, <1>7, <1>8, FollowingCut
<1>10. ~Whole(y)
  <2>1. Len(y.messages) = Len(got) - d
    BY <1>3 DEF rest, d
  <2> QED
    BY <1>1, <1>2, <2>1 DEF Whole, d
<1>11. Following(left, from, last, Whole(y))
  BY <1>9, <1>10, FollowingLess
<1> QED
  BY <1>11 DEF left, rest, d

LEMMA HandleMessageOK ==
  ASSUME ViewersInv, TypeOK, NEW v \in Viewers, HandleMessage(v)
  PROVE  ViewersInv'
<1> DEFINE x == viewers[v]
           m == Head(x.box)
           z == [x EXCEPT !.box = Tail(x.box)]
           got == Append(z.messages, m)
           y == AppendLive(z, m)
<1>1. /\ ViewerOK(v) /\ x \in View /\ Numbered(x, log.sequence) /\ Current(x)
      /\ x.phase = "loop" /\ x.box # <<>> /\ log.sequence \in Nat /\ (x.active => x.hwnd)
      /\ (x.active => FollowsAs(x, v))
  BY Viewed, FollowsIs DEF ViewerOK, HandleMessage, TypeOK, LogTypeOK, Reached
<1>2. /\ viewers' = [viewers EXCEPT ![v] = IF m.level = "close" THEN Gone ELSE y]
      /\ UNCHANGED <<log, worker, client, impl>>
  BY DEF HandleMessage, SetViewer
<1> HIDE DEF x, y
<1>3. x.box \in Seq(Message) /\ x.messages \in Seq(Message)
  BY <1>1 DEF View
<1>4. /\ Tail(x.box) \in Seq(Message) /\ Upto(log.sequence, Tail(x.box))
      /\ m \in Message /\ m.sequence <= log.sequence
  BY <1>1, <1>3, UptoTail DEF Numbered
<1>5. /\ z \in View /\ z.phase = x.phase /\ z.active = x.active /\ z.hwnd = x.hwnd /\ z.from = x.from
      /\ z.pending = x.pending /\ z.late = x.late /\ z.box = Tail(x.box) /\ z.messages = x.messages
  BY <1>1, <1>4 DEF View
<1>6. Untouched(x, z)
  BY <1>1 DEF View, Untouched, SameFilters, Showing
<1> HIDE DEF z, m
<1>7. Numbered(z, log.sequence) /\ Current(z)
  BY <1>1, <1>3, <1>4, <1>5, <1>6, CurrentSame DEF Numbered
<1>8. /\ y \in View /\ Numbered(y, log.sequence) /\ Current(y)
      /\ y.phase = z.phase /\ y.active = z.active /\ y.hwnd = z.hwnd /\ y.from = z.from
      /\ y.box = z.box
      /\ \/ y.messages = got
         \/ Len(got) > KeepMessages /\ y.messages = SubSeq(got, TrimCount + 1, Len(got))
  BY <1>1, <1>4, <1>5, <1>7, AppendLiveIs DEF y, Showing
<1>9. got \in Seq(Message) /\ got \o z.box = x.messages \o x.box
  <2>1. got = Append(x.messages, Head(x.box)) /\ z.box = Tail(x.box)
    BY <1>5 DEF m
  <2>2. Append(x.messages, Head(x.box)) \o Tail(x.box) = x.messages \o x.box
    BY <1>1, <1>3, Joined
  <2>3. Append(x.messages, m) \in Seq(Message)
    BY <1>3, <1>4
  <2> QED
    BY <2>1, <2>2, <2>3 DEF m
<1>10. ASSUME FollowsAs(x, v) PROVE FollowsAs(y, v)
  <2>1. /\ Following(got \o z.box, y.from, Delivered, Whole(x))
        /\ y.from <= log.sequence /\ (Missed(v) => y.from = log.sequence)
    BY <1>5, <1>8, <1>9, <1>10 DEF FollowsAs
  <2>2. y.from \in Nat /\ Delivered \in Int /\ y.box \in Seq(Message)
    <3>1. y.from \in Nat /\ y.box \in Seq(Message)
      BY <1>8 DEF View
    <3>2. Delivered \in Int
      BY <1>1 DEF Delivered
    <3> QED
      BY <3>1, <3>2
  <2>3. CASE y.messages = got
    <3>1. Whole(y) => Whole(x)
      <4>1. Len(got) = Len(x.messages) + 1 /\ Len(x.messages) \in Nat
        BY <1>3, <1>4, <1>5
      <4>2. KeepMessages \in Int /\ TrimCount \in Int
        BY LogAssumption DEF LogAssumption
      <4> QED
        BY <2>3, <4>1, <4>2 DEF Whole
    <3> QED
      BY <1>8, <2>1, <2>3, <3>1, FollowingLess DEF FollowsAs
  <2>4. CASE Len(got) > KeepMessages /\ y.messages = SubSeq(got, TrimCount + 1, Len(got))
    <3>1. Following(y.messages \o y.box, y.from, Delivered, Whole(y))
      BY <1>8, <1>9, <2>1, <2>2, <2>4, CutAway
    <3> QED
      BY <2>1, <3>1 DEF FollowsAs
  <2> QED
    BY <1>8, <2>3, <2>4
<1>11. Becomes(v, y)
  BY <1>1, <1>5, <1>8, <1>10 DEF x, Becomes
<1>12. Becomes(v, Gone)
  BY GoneBecomes DEF TypeOK
<1> QED
  BY <1>2, <1>11, <1>12, OwnStep

\* The buttons and the search change what is shown only.
LEMMA Filtered ==
  ASSUME NEW v, ViewerOK(v), NEW y \in View, Current(y),
         y.phase = viewers[v].phase, y.active = viewers[v].active, y.hwnd = viewers[v].hwnd,
         y.from = viewers[v].from, y.pending = viewers[v].pending, y.late = viewers[v].late,
         y.box = viewers[v].box, y.messages = viewers[v].messages
  PROVE  Becomes(v, y)
<1>1. Numbered(y, log.sequence)
  BY DEF Numbered, ViewerOK
<1>2. y.active /\ y.phase = "loop" => FollowsAs(viewers[v], v)
  BY FollowsIs DEF ViewerOK
<1>3. FollowsAs(viewers[v], v) => FollowsAs(y, v)
  BY DEF FollowsAs, Whole
<1> QED
  BY <1>1, <1>2, <1>3 DEF Becomes, ViewerOK, Reached

LEMMA RebuiltBecomes ==
  ASSUME NEW v, ViewerOK(v), NEW z \in View,
         z.phase = viewers[v].phase, z.active = viewers[v].active, z.hwnd = viewers[v].hwnd,
         z.from = viewers[v].from, z.pending = viewers[v].pending, z.late = viewers[v].late,
         z.box = viewers[v].box, z.messages = viewers[v].messages
  PROVE  Becomes(v, Rebuild(z))
<1> DEFINE y == Rebuild(z)
<1>1. /\ y \in View /\ Current(y)
      /\ y.phase = z.phase /\ y.active = z.active /\ y.hwnd = z.hwnd /\ y.from = z.from
      /\ y.pending = z.pending /\ y.late = z.late /\ y.box = z.box /\ y.messages = z.messages
  BY RebuildIs
<1> HIDE DEF y
<1>2. Becomes(v, y)
  BY <1>1, Filtered
<1> QED
  BY <1>2 DEF y

LEMMA CommandOK ==
  ASSUME ViewersInv, TypeOK, NEW v \in Viewers, Command(v)
  PROVE  ViewersInv'
<1> DEFINE x == viewers[v]
<1>1. ViewerOK(v) /\ x \in View /\ x.phase = "loop"
  BY Viewed DEF ViewerOK, Command
<1>2. PICK y \in {ClearButton(x), PauseButton(x), Rebuild([x EXCEPT !.fuzzy = ~@])}
                 \union {LevelButton(x, text.level) : text \in Range(Texts)}
                 \union {Rebuild([x EXCEPT !.search = s]) : s \in Searches} :
              viewers' = [viewers EXCEPT ![v] = y]
  BY DEF Command
<1>3. UNCHANGED <<log, worker, client, impl>>
  BY DEF Command
<1>4. /\ x.messages \in Seq(Message) /\ x.fuzzy \in BOOLEAN /\ x.paused \in BOOLEAN
      /\ x.hidden \in SUBSET Level /\ x.cleared \in Nat
  BY <1>1 DEF View
<1> HIDE DEF x
<1>5. CASE y = ClearButton(x)
  <2> DEFINE last == IF x.messages = <<>> THEN x.cleared ELSE Last(x.messages).sequence
             z == [x EXCEPT !.cleared = last, !.shown = <<>>, !.blank = TRUE]
  <2>1. last \in Nat
    <3>1. x.messages # <<>> => Last(x.messages) \in Message
      BY <1>4 DEF Last
    <3> QED
      BY <1>4, <3>1 DEF Message
  <2>2. <<>> \in Seq(Message)
    OBVIOUS
  <2>3. y = z
    BY <1>1, <1>5 DEF ClearButton, View
  <2> HIDE DEF last
  <2>4. /\ z \in View /\ z.blank = TRUE
        /\ z.phase = x.phase /\ z.active = x.active /\ z.hwnd = x.hwnd /\ z.from = x.from
        /\ z.pending = x.pending /\ z.late = x.late /\ z.box = x.box /\ z.messages = x.messages
    BY <1>1, <2>1, <2>2 DEF View
  <2> HIDE DEF z
  <2>5. Current(z)
    BY <2>4 DEF Current
  <2>6. Becomes(v, z)
    BY <1>1, <2>4, <2>5, Filtered DEF x
  <2> QED
    BY <1>2, <1>3, <2>3, <2>6, OwnStep
<1>6. CASE y = PauseButton(x)
  <2> DEFINE z == [x EXCEPT !.paused = ~x.paused]
  <2>1. /\ z \in View /\ z.paused = ~x.paused
        /\ z.phase = x.phase /\ z.active = x.active /\ z.hwnd = x.hwnd /\ z.from = x.from
        /\ z.pending = x.pending /\ z.late = x.late /\ z.box = x.box /\ z.messages = x.messages
    BY <1>1, <1>4 DEF View
  <2>2. y = IF z.paused THEN z ELSE Rebuild(z)
    BY <1>6 DEF PauseButton
  <2> HIDE DEF z
  <2>3. CASE z.paused
    <3>1. Current(z)
      BY <2>3 DEF Current
    <3>2. Becomes(v, z)
      BY <1>1, <2>1, <3>1, Filtered DEF x
    <3>3. y = z
      BY <2>2, <2>3
    <3> QED
      BY <1>2, <1>3, <3>2, <3>3, OwnStep
  <2>4. CASE ~z.paused
    <3>1. Becomes(v, Rebuild(z))
      BY <1>1, <2>1, RebuiltBecomes DEF x
    <3>2. y = Rebuild(z)
      BY <2>2, <2>4
    <3> QED
      BY <1>2, <1>3, <3>1, <3>2, OwnStep
  <2> QED
    BY <2>3, <2>4
<1>7. ASSUME NEW z \in View, y = Rebuild(z),
             z.phase = x.phase, z.active = x.active, z.hwnd = x.hwnd, z.from = x.from,
             z.pending = x.pending, z.late = x.late, z.box = x.box, z.messages = x.messages
      PROVE  ViewersInv'
  <2>1. Becomes(v, Rebuild(z))
    BY <1>1, <1>7, RebuiltBecomes DEF x
  <2> QED
    BY <1>2, <1>3, <1>7, <2>1, OwnStep
<1>8. CASE y = Rebuild([x EXCEPT !.fuzzy = ~@])
  <2> DEFINE z == [x EXCEPT !.fuzzy = ~x.fuzzy]
  <2>1. /\ z \in View
        /\ z.phase = x.phase /\ z.active = x.active /\ z.hwnd = x.hwnd /\ z.from = x.from
        /\ z.pending = x.pending /\ z.late = x.late /\ z.box = x.box /\ z.messages = x.messages
    BY <1>1, <1>4 DEF View
  <2>2. y = Rebuild(z)
    BY <1>8
  <2> HIDE DEF z
  <2> QED
    BY <1>7, <2>1, <2>2
<1>9. ASSUME NEW text \in Range(Texts), y = LevelButton(x, text.level) PROVE ViewersInv'
  <2> DEFINE hidden == IF text.level \in x.hidden THEN x.hidden \ {text.level}
                                                   ELSE x.hidden \cup {text.level}
             z == [x EXCEPT !.hidden = hidden]
  <2>1. text.level \in Level
    <3>1. text \in Text
      BY LogAssumption DEF LogAssumption, Range
    <3> QED
      BY <3>1 DEF Text
  <2>2. hidden \in SUBSET Level
    BY <1>4, <2>1
  <2>3. y = Rebuild(z)
    BY <1>9 DEF LevelButton
  <2> HIDE DEF hidden
  <2>4. /\ z \in View
        /\ z.phase = x.phase /\ z.active = x.active /\ z.hwnd = x.hwnd /\ z.from = x.from
        /\ z.pending = x.pending /\ z.late = x.late /\ z.box = x.box /\ z.messages = x.messages
    BY <1>1, <2>2 DEF View
  <2> HIDE DEF z
  <2> QED
    BY <1>7, <2>3, <2>4
<1>10. ASSUME NEW s \in Searches, y = Rebuild([x EXCEPT !.search = s]) PROVE ViewersInv'
  <2> DEFINE z == [x EXCEPT !.search = s]
  <2>1. /\ z \in View
        /\ z.phase = x.phase /\ z.active = x.active /\ z.hwnd = x.hwnd /\ z.from = x.from
        /\ z.pending = x.pending /\ z.late = x.late /\ z.box = x.box /\ z.messages = x.messages
    BY <1>1 DEF View
  <2>2. y = Rebuild(z)
    BY <1>10
  <2> HIDE DEF z
  <2> QED
    BY <1>7, <2>1, <2>2
<1> QED
  BY <1>2, <1>5, <1>6, <1>8, <1>9, <1>10

-------------------------------------------------------------------------------
\* The client's steps.

LEMMA WorkerJoinedOK ==
  ASSUME ViewersInv, TypeOK, WorkerJoined
  PROVE  ViewersInv'
<1>1. Quiet
  BY QuietIf DEF WorkerJoined
<1>2. client' = [client EXCEPT !.pc = "joinViewer"] /\ log' = log
  BY DEF WorkerJoined
<1>3. ClientOK'
  <2>1. client'.rendered = client.rendered /\ client'.ring = client.ring
    BY <1>2 DEF TypeOK, ClientTypeOK
  <2> QED
    BY <1>2, <2>1, Viewed DEF ClientOK
<1>4. CASE impl = 0
  BY <1>1, <1>3, <1>4, SameViewers DEF WorkerJoined
<1>5. CASE impl # 0
  <2>1. viewers' = [viewers EXCEPT ![impl] = Stopped(viewers[impl])]
    BY <1>5 DEF WorkerJoined
  <2>2. impl \in Viewers => Becomes(impl, Stopped(viewers[impl]))
    BY ClosedBecomes, Viewed DEF TypeOK
  <2> QED
    BY <1>1, <1>3, <2>1, <2>2, OneViewer
<1> QED
  BY <1>4, <1>5

\* Steps that no viewer sees
LEMMA UnseenOK ==
  ASSUME ViewersInv, TypeOK, RingInv,
         \/ Write \/ WorkerWakes \/ WorkerWrites \/ OpenViewer \/ Shutdown \/ Cleanup
         \/ \E text \in Printed : ViewerPrint(text)
  PROVE  ViewersInv'
<1>0. UNCHANGED <<viewers, impl>>
  BY DEF Write, WorkerWakes, WorkerWrites, OpenViewer, Shutdown, Cleanup, ViewerPrint
<1>1. log'.sequence = log.sequence
  BY DEF Write, WorkerWakes, WorkerWrites, OpenViewer, Shutdown, Cleanup, ViewerPrint, TypeOK, LogTypeOK
<1>2. Quiet
  <2>1. CASE WorkerWakes \/ WorkerWrites
    <3>1. worker.pc \in {"wait", "file"} /\ worker'.pc \in {"wait", "push", "done"}
      BY <2>1 DEF WorkerWakes, WorkerWrites, TypeOK, WorkerTypeOK
    <3> QED
      BY <1>0, <1>1, <3>1 DEF Quiet, Delivered
  <2>2. CASE ~(WorkerWakes \/ WorkerWrites)
    <3>1. worker' = worker
      BY <2>2 DEF Write, OpenViewer, Shutdown, Cleanup, ViewerPrint
    <3> QED
      BY <1>0, <1>1, <3>1, QuietIf
  <2> QED
    BY <2>1, <2>2
<1>3. ClientOK'
  <2>0. ClientOK
    BY Viewed
  <2>1. CASE Write \/ WorkerWakes \/ WorkerWrites
    <3>1. client' = client
      BY <2>1 DEF Write, WorkerWakes, WorkerWrites
    <3> QED
      BY <1>1, <2>0, <3>1, ClientSame
  <2>2. CASE Shutdown \/ Cleanup
    <3>1. client'.rendered = client.rendered /\ client'.ring = client.ring
      BY <2>2 DEF Shutdown, Cleanup, TypeOK, ClientTypeOK
    <3> QED
      BY <1>1, <2>0, <3>1 DEF ClientOK
  <2>3. CASE \E text \in Printed : ViewerPrint(text)
    <3>0. PICK text \in Printed : ViewerPrint(text)
      BY <2>3
    <3> DEFINE rendered == [sequence |-> 0, level |-> text.level, line |-> text.line]
    <3>a. client' = [client EXCEPT !.pc = "look", !.rendered = rendered] /\ rendered.sequence = 0
      BY <3>0 DEF ViewerPrint
    <3> HIDE DEF rendered
    <3>1. client'.rendered.sequence = 0 /\ client'.ring = client.ring
      BY <3>a DEF TypeOK, ClientTypeOK
    <3> QED
      BY <1>1, <2>0, <3>1 DEF ClientOK
  <2>4. CASE OpenViewer
    <3>1. client'.rendered = client.rendered /\ client'.ring = log.ring /\ client.pc = "idle"
      BY <2>4 DEF OpenViewer, TypeOK, ClientTypeOK
    <3>2. Upto(log.sequence, log.ring)
      <4>1. /\ \A i \in 1..Len(log.ring) : log.ring[i].sequence = log.sequence - Len(log.ring) + i
        BY <3>1 DEF RingInv
      <4>2. log.ring \in Seq(Message) /\ log.sequence \in Nat
        BY DEF TypeOK, LogTypeOK
      <4>3. Len(log.ring) \in Nat /\ DOMAIN log.ring = 1..Len(log.ring)
        BY <4>2
      <4>4. ASSUME NEW i \in DOMAIN log.ring PROVE log.ring[i].sequence <= log.sequence
        <5>1. i \in 1..Len(log.ring) /\ log.ring[i].sequence = log.sequence - Len(log.ring) + i
          BY <4>1, <4>3
        <5> QED
          BY <4>2, <4>3, <5>1
      <4> QED
        BY <4>4 DEF Upto
    <3> QED
      BY <1>1, <2>0, <3>1, <3>2 DEF ClientOK
  <2> QED
    BY <2>1, <2>2, <2>3, <2>4
<1> QED
  BY <1>0, <1>2, <1>3, SameViewers

\* A line is kept for the window to come, or posted to the window.
LEMMA KeptIs ==
  ASSUME NEW x \in View, NEW m \in Message, NEW n \in Nat, Numbered(x, n), m.sequence <= n, Current(x)
  PROVE  LET y == [x EXCEPT !.pending = Append(@, m)]
         IN  /\ y \in View /\ Numbered(y, n) /\ Current(y)
             /\ y.phase = x.phase /\ y.active = x.active /\ y.hwnd = x.hwnd /\ y.from = x.from
             /\ y.box = x.box /\ y.messages = x.messages
<1> DEFINE y == [x EXCEPT !.pending = Append(x.pending, m)]
<1>1. x.messages \in Seq(Message) /\ x.pending \in Seq(Message)
  BY DEF View
<1>2. Append(x.pending, m) \in Seq(Message) /\ Upto(n, Append(x.pending, m))
  BY <1>1, UptoAppend DEF Numbered
<1>3. /\ y \in View /\ y.pending = Append(x.pending, m) /\ y.late = x.late
      /\ y.phase = x.phase /\ y.active = x.active /\ y.hwnd = x.hwnd /\ y.from = x.from
      /\ y.box = x.box /\ y.messages = x.messages
  BY <1>2 DEF View
<1>4. Untouched(x, y)
  BY DEF View, Untouched, SameFilters, Showing
<1> HIDE DEF y
<1>5. Numbered(y, n) /\ Current(y)
  BY <1>1, <1>2, <1>3, <1>4, CurrentSame DEF Numbered
<1> QED
  BY <1>3, <1>5 DEF y

LEMMA PostedIs ==
  ASSUME NEW x \in View, NEW m \in Message, NEW n \in Nat, Numbered(x, n), m.sequence <= n, Current(x)
  PROVE  LET y == [x EXCEPT !.box = Append(@, m)]
         IN  /\ y \in View /\ Numbered(y, n) /\ Current(y)
             /\ y.phase = x.phase /\ y.active = x.active /\ y.hwnd = x.hwnd /\ y.from = x.from
             /\ y.box = Append(x.box, m) /\ y.messages = x.messages
             /\ y.messages \o y.box = Append(x.messages \o x.box, m)
<1> DEFINE y == [x EXCEPT !.box = Append(x.box, m)]
<1>1. x.messages \in Seq(Message) /\ x.box \in Seq(Message)
  BY DEF View
<1>2. Append(x.box, m) \in Seq(Message) /\ Upto(n, Append(x.box, m))
  BY <1>1, UptoAppend DEF Numbered
<1>3. /\ y \in View /\ y.pending = x.pending /\ y.late = x.late
      /\ y.phase = x.phase /\ y.active = x.active /\ y.hwnd = x.hwnd /\ y.from = x.from
      /\ y.box = Append(x.box, m) /\ y.messages = x.messages
  BY <1>2 DEF View
<1>4. Untouched(x, y)
  BY DEF View, Untouched, SameFilters, Showing
<1> HIDE DEF y
<1>5. Numbered(y, n) /\ Current(y)
  BY <1>1, <1>2, <1>3, <1>4, CurrentSame DEF Numbered
<1>6. y.messages \o y.box = Append(x.messages \o x.box, m)
  <2>1. \A s, t \in Seq(Message) : s \o Append(t, m) = Append(s \o t, m)
    BY ConcatAppend
  <2>2. x.messages \o Append(x.box, m) = Append(x.messages \o x.box, m)
    BY <1>1, <2>1
  <2> QED
    BY <1>3, <2>2
<1> QED
  BY <1>3, <1>5, <1>6 DEF y

\* hw.print's line is not numbered: it changes nothing of what follows.
LEMMA ClientAppendsOK ==
  ASSUME ViewersInv, TypeOK, ClientAppends
  PROVE  ViewersInv'
<1> DEFINE m == client.rendered
<1>1. Quiet /\ log' = log
  BY QuietIf DEF ClientAppends
<1>2. ClientOK /\ m \in Message /\ m.sequence = 0 /\ log.sequence \in Nat
  BY Viewed DEF ClientOK, TypeOK, ClientTypeOK, LogTypeOK
<1>3. CASE client.pc = "look" /\ client' = Look(client, "idle") /\ UNCHANGED viewers
  <2>1. \/ client' = [client EXCEPT !.pc = "idle"]
        \/ client' = [client EXCEPT !.pc = "post", !.window = impl]
        \/ client' = [client EXCEPT !.pc = "pend"]
    BY <1>3, LookStep
  <2>2. client'.rendered = client.rendered /\ client'.ring = client.ring
    BY <2>1 DEF TypeOK, ClientTypeOK
  <2>3. ClientOK'
    BY <1>1, <1>2, <2>2 DEF ClientOK
  <2> QED
    BY <1>1, <1>3, <2>3, SameViewers
<1>4. client' = Idle => ClientOK'
  <2> SUFFICES ASSUME client' = Idle PROVE ClientOK'
    OBVIOUS
  <2>1. CloseMessage.sequence = 0
    BY DEF CloseMessage
  <2>2. client'.rendered = CloseMessage /\ client'.ring = client.ring
    BY DEF Idle, TypeOK, ClientTypeOK
  <2> QED
    BY <1>1, <1>2, <2>1, <2>2 DEF ClientOK
<1>5. CASE client.pc = "pend" /\ viewers' = Pend(client.rendered) /\ client' = Idle
  <2> DEFINE y == [viewers[impl] EXCEPT !.pending = Append(@, m)]
  <2>1. CASE IsOpen /\ ~viewers[impl].hwnd
    <3>1. viewers' = [viewers EXCEPT ![impl] = y]
      BY <1>5, <2>1 DEF Pend
    <3>2. ASSUME impl \in Viewers PROVE Becomes(impl, y)
      <4> DEFINE x == viewers[impl]
      <4>1. ViewerOK(impl) /\ x \in View /\ Numbered(x, log.sequence) /\ Current(x)
        BY <3>2, Viewed DEF ViewerOK
      <4>a. m \in Message /\ m.sequence <= log.sequence /\ log.sequence \in Nat
        BY <1>2
      <4> HIDE DEF x, m
      <4>b. /\ y \in View /\ Numbered(y, log.sequence) /\ Current(y)
            /\ y.phase = x.phase /\ y.active = x.active /\ y.hwnd = x.hwnd
        BY <4>1, <4>a, KeptIs DEF x
      <4>2. /\ y \in View /\ Numbered(y, log.sequence) /\ Current(y)
            /\ y.phase = viewers[impl].phase /\ y.active = viewers[impl].active
            /\ y.hwnd = viewers[impl].hwnd
        BY <4>b DEF x
      <4>3. y.active => y.phase \notin {"late", "posting", "loop"}
        BY <2>1, <4>1, <4>2 DEF ViewerOK, Reached
      <4> HIDE DEF y
      <4> QED
        BY <4>2, <4>3 DEF Becomes
    <3> HIDE DEF y
    <3> QED
      BY <1>1, <1>4, <1>5, <3>1, <3>2, OneViewer
  <2>2. CASE ~(IsOpen /\ ~viewers[impl].hwnd)
    BY <1>1, <1>4, <1>5, <2>2, SameViewers DEF Pend
  <2> QED
    BY <2>1, <2>2
<1>6. CASE client.pc = "post" /\ viewers' = Post(client.window, client.rendered) /\ client' = Idle
  <2> DEFINE w == client.window
             x == viewers[w]
             y == [x EXCEPT !.box = Append(@, m)]
  <2>1. CASE HasWindow(w)
    <3>1. viewers' = [viewers EXCEPT ![w] = y]
      BY <1>6, <2>1 DEF Post
    <3>2. ASSUME w \in Viewers PROVE Becomes(w, y)
      <4>1. ViewerOK(w) /\ x \in View /\ Numbered(x, log.sequence) /\ Current(x)
        BY <3>2, Viewed DEF ViewerOK
      <4>a. m \in Message /\ m.sequence = 0 /\ m.sequence <= log.sequence /\ log.sequence \in Nat
        BY <1>2
      <4> HIDE DEF x, m
      <4>2. /\ y \in View /\ Numbered(y, log.sequence) /\ Current(y)
            /\ y.phase = x.phase /\ y.active = x.active /\ y.hwnd = x.hwnd /\ y.from = x.from
            /\ y.messages = x.messages /\ y.messages \o y.box = Append(x.messages \o x.box, m)
        BY <4>1, <4>a, PostedIs
      <4> HIDE DEF y
      <4>3. ASSUME FollowsAs(x, w) PROVE FollowsAs(y, w)
        <5>1. x.messages \in Seq(Message) /\ x.box \in Seq(Message) /\ x.from \in Nat
          BY <4>1 DEF View
        <5>2. x.messages \o x.box \in Seq(Message)
          BY <5>1
        <5>3. Following(x.messages \o x.box, x.from, Delivered, Whole(x))
          BY <4>3 DEF FollowsAs
        <5>4. Following(Append(x.messages \o x.box, m), x.from, Delivered, Whole(x))
          <6>1. m.sequence <= x.from
            BY <4>a, <5>1
          <6> QED
            BY <4>a, <5>1, <5>2, <5>3, <6>1, FollowingOld
        <5>5. Whole(y) <=> Whole(x)
          BY <4>2 DEF Whole
        <5> QED
          BY <4>2, <4>3, <5>4, <5>5, FollowingLess DEF FollowsAs
      <4>4. x.active /\ x.phase = "loop" => FollowsAs(x, w)
        BY <4>1, FollowsIs DEF ViewerOK, x
      <4> QED
        BY <4>1, <4>2, <4>3, <4>4 DEF Becomes, ViewerOK, Reached, x
    <3> HIDE DEF y, w
    <3> QED
      BY <1>1, <1>4, <1>6, <3>1, <3>2, OneViewer
  <2>2. CASE ~HasWindow(w)
    BY <1>1, <1>4, <1>6, <2>2, SameViewers DEF Post
  <2> QED
    BY <2>1, <2>2
<1> QED
  BY <1>3, <1>5, <1>6 DEF ClientAppends

-------------------------------------------------------------------------------
\* The worker's steps, and the viewer that is started.

LEMMA UptoMore ==
  ASSUME NEW a \in Nat, NEW b \in Nat, a <= b, NEW s \in Seq(Message), Upto(a, s)
  PROVE  Upto(b, s)
<1>1. \A i \in DOMAIN s : s[i] \in Message
  OBVIOUS
<1>2. \A i \in DOMAIN s : s[i].sequence \in Nat
  BY <1>1 DEF Message
<1> QED
  BY <1>2 DEF Upto

LEMMA OKIf ==
  ASSUME NEW v, NEW y \in View, viewers'[v] = y, Numbered(y, log'.sequence), Current(y),
         y.active => v = impl' /\ (y.phase \in {"late", "posting", "loop"} => y.hwnd),
         y.active /\ y.phase = "loop" =>
           /\ y.from <= log'.sequence
           /\ Missed(v)' => y.from = log'.sequence
           /\ Following(y.messages \o y.box, y.from, Delivered', Whole(y))
  PROVE  ViewerOK(v)'
<1>1. Numbered(viewers[v], log.sequence)' /\ Current(viewers[v])' /\ (viewers[v] \in View)'
  OBVIOUS
<1>2. Reached(viewers[v], v)'
  BY DEF Reached
<1>3. Received(v)' = y.messages \o y.box
  BY DEF Received
<1>4. Follows(v)'
  BY <1>3 DEF Follows
<1> QED
  BY <1>1, <1>2, <1>4 DEF ViewerOK

\* A viewer whose loop began with the last line numbered is owed nothing.
LEMMA SettledFollows ==
  ASSUME NEW y \in View, NEW n \in Nat, Numbered(y, n), y.from = n, NEW last \in Int, last <= n
  PROVE  Following(y.messages \o y.box, y.from, last, Whole(y))
<1>1. y.messages \in Seq(Message) /\ y.box \in Seq(Message)
  BY DEF View
<1>2. y.messages \o y.box \in Seq(Message) /\ Upto(n, y.messages \o y.box)
  BY <1>1, UptoConcat DEF Numbered
<1> QED
  BY <1>2, FollowingNone

LEMMA WorkerRendersOK ==
  ASSUME ViewersInv, TypeOK, WorkerRenders
  PROVE  ViewersInv'
<1>1. /\ log'.sequence = log.sequence + 1 /\ log.sequence \in Nat /\ worker.pc = "push"
      /\ worker'.pc = "look" /\ UNCHANGED <<client, impl, viewers>>
  BY DEF WorkerRenders, TypeOK, LogTypeOK, WorkerTypeOK
<1>2. Delivered = log.sequence /\ Delivered' = log.sequence
  BY <1>1 DEF Delivered
<1>3. ASSUME NEW v \in Viewers PROVE ViewerOK(v)'
  <2> DEFINE y == viewers[v]
  <2>1. ViewerOK(v) /\ y \in View /\ Numbered(y, log.sequence) /\ Current(y)
    BY Viewed DEF ViewerOK
  <2>2. /\ y.pending \in Seq(Message) /\ y.late \in Seq(Message) /\ y.box \in Seq(Message)
        /\ y.messages \in Seq(Message) /\ y.from \in Nat
    BY <2>1 DEF View
  <2>3. Numbered(y, log'.sequence)
    <3>1. log.sequence <= log'.sequence /\ log'.sequence \in Nat
      BY <1>1
    <3> QED
      BY <1>1, <2>1, <2>2, <3>1, UptoMore DEF Numbered
  <2>4. y.active => v = impl' /\ (y.phase \in {"late", "posting", "loop"} => y.hwnd)
    BY <1>1, <2>1 DEF ViewerOK, Reached
  <2>5. ~Missed(v)'
    BY <1>1 DEF Missed
  <2>6. ASSUME y.active /\ y.phase = "loop"
        PROVE  y.from <= log'.sequence /\ Following(y.messages \o y.box, y.from, Delivered', Whole(y))
    <3>1. FollowsAs(y, v)
      BY <2>1, <2>6, FollowsIs DEF ViewerOK
    <3> QED
      BY <1>1, <1>2, <2>2, <3>1 DEF FollowsAs
  <2>7. viewers'[v] = y
    BY <1>1
  <2> HIDE DEF y
  <2> QED
    BY <2>1, <2>3, <2>4, <2>5, <2>6, <2>7, OKIf
<1>4. ClientOK'
  <2>1. ClientOK /\ client.ring \in Seq(Message) /\ log.sequence <= log'.sequence /\ log'.sequence \in Nat
    BY <1>1, Viewed DEF TypeOK, ClientTypeOK
  <2>2. Upto(log'.sequence, client.ring)
    BY <1>1, <2>1, UptoMore DEF ClientOK
  <2> QED
    BY <1>1, <2>1, <2>2 DEF ClientOK
<1>5. DOMAIN viewers' = Viewers
  BY <1>1, Viewed
<1> QED
  BY <1>3, <1>4, <1>5, Viewed

\* An active viewer is the one that is open.
LEMMA ActiveIsOpen ==
  ASSUME NEW v \in Viewers, ViewerOK(v), viewers[v].active
  PROVE  v = impl /\ IsOpen /\ (viewers[v].phase = "loop" => viewers[impl].hwnd)
<1>1. v = impl /\ (viewers[v].phase = "loop" => viewers[v].hwnd)
  BY DEF ViewerOK, Reached
<1>2. v # 0
  BY DEF Viewers
<1> QED
  BY <1>1, <1>2 DEF IsOpen

LEMMA WorkerLooksOK ==
  ASSUME ViewersInv, TypeOK, WorkerAppends, worker.pc = "look"
  PROVE  ViewersInv'
<1>1. /\ worker' = Look(worker, "file") /\ UNCHANGED <<viewers, log, client, impl>>
  BY DEF WorkerAppends
<1>2. log.sequence \in Nat
  BY DEF TypeOK, LogTypeOK
<1>3. ASSUME NEW v \in Viewers PROVE ViewerOK(v)'
  <2> DEFINE y == viewers[v]
  <2>1. ViewerOK(v) /\ y \in View /\ Numbered(y, log.sequence) /\ Current(y)
    BY Viewed DEF ViewerOK
  <2>2. y.active => v = impl' /\ (y.phase \in {"late", "posting", "loop"} => y.hwnd)
    BY <1>1, <2>1 DEF ViewerOK, Reached
  <2>3. ASSUME y.active /\ y.phase = "loop"
        PROVE  /\ y.from <= log'.sequence
               /\ Missed(v)' => y.from = log'.sequence
               /\ Following(y.messages \o y.box, y.from, Delivered', Whole(y))
    <3>1. v = impl /\ IsOpen /\ viewers[impl].hwnd
      BY <2>1, <2>3, ActiveIsOpen
    <3>2. worker' = [worker EXCEPT !.pc = "post", !.window = impl]
      BY <1>1, <3>1 DEF Look
    <3>3. worker'.pc = "post" /\ worker'.window = v
      BY <3>1, <3>2 DEF TypeOK, WorkerTypeOK
    <3>4. Delivered' = Delivered /\ ~Missed(v)'
      BY <1>1, <3>3 DEF Delivered, Missed
    <3>5. FollowsAs(y, v)
      BY <2>1, <2>3, FollowsIs DEF ViewerOK
    <3> QED
      BY <1>1, <3>4, <3>5 DEF FollowsAs
  <2>4. viewers'[v] = y /\ Numbered(y, log'.sequence)
    BY <1>1, <2>1
  <2> HIDE DEF y
  <2> QED
    BY <2>1, <2>2, <2>3, <2>4, OKIf
<1>4. ClientOK'
  BY <1>1, Viewed, ClientSame
<1>5. DOMAIN viewers' = Viewers
  BY <1>1, Viewed
<1> QED
  BY <1>3, <1>4, <1>5, Viewed

\* What the worker keeps for a window that is not there yet is before the loop.
LEMMA WorkerKeepsOK ==
  ASSUME ViewersInv, TypeOK, WorkInv, WorkerAppends, worker.pc = "pend"
  PROVE  ViewersInv'
<1> DEFINE m == worker.rendered
<1>1. /\ viewers' = Pend(worker.rendered) /\ worker' = [worker EXCEPT !.pc = "file"]
      /\ UNCHANGED <<log, client, impl>>
  BY DEF WorkerAppends
<1>2. /\ log.sequence \in Nat /\ m \in Message /\ m.sequence = log.sequence /\ m.sequence <= log.sequence
      /\ worker'.pc = "file"
  BY <1>1 DEF TypeOK, LogTypeOK, WorkerTypeOK, WorkInv, Rendered
<1> HIDE DEF m
<1>3. Delivered' = log.sequence
  BY <1>1, <1>2 DEF Delivered
<1>4. ASSUME NEW v \in Viewers PROVE ViewerOK(v)'
  <2> DEFINE x == viewers[v]
             y == viewers'[v]
  <2>1. ViewerOK(v) /\ x \in View /\ Numbered(x, log.sequence) /\ Current(x)
    BY Viewed DEF ViewerOK
  <2>2. y = x \/ y = [x EXCEPT !.pending = Append(@, m)]
    BY <1>1, Viewed DEF Pend, m
  <2> HIDE DEF x, y
  <2>3. /\ y \in View /\ Numbered(y, log.sequence) /\ Current(y)
        /\ y.phase = x.phase /\ y.active = x.active /\ y.hwnd = x.hwnd /\ y.from = x.from
    <3>1. CASE y = x
      BY <2>1, <3>1
    <3>2. CASE y = [x EXCEPT !.pending = Append(@, m)]
      BY <1>2, <2>1, <3>2, KeptIs
    <3> QED
      BY <2>2, <3>1, <3>2
  <2>4. y.active => v = impl' /\ (y.phase \in {"late", "posting", "loop"} => y.hwnd)
    BY <1>1, <2>1, <2>3 DEF ViewerOK, Reached, x
  <2>5. ASSUME y.active /\ y.phase = "loop"
        PROVE  /\ y.from <= log'.sequence
               /\ Missed(v)' => y.from = log'.sequence
               /\ Following(y.messages \o y.box, y.from, Delivered', Whole(y))
    <3>1. FollowsAs(x, v) /\ Missed(v)
      BY <2>1, <2>3, <2>5, FollowsIs DEF ViewerOK, x, Missed
    <3>2. y.from = log.sequence
      BY <2>3, <3>1 DEF FollowsAs
    <3>3. Following(y.messages \o y.box, y.from, log.sequence, Whole(y))
      BY <1>2, <2>3, <3>2, SettledFollows
    <3> QED
      BY <1>1, <1>2, <1>3, <3>2, <3>3
  <2>6. viewers'[v] = y /\ Numbered(y, log'.sequence)
    BY <1>1, <2>3 DEF y
  <2> QED
    BY <2>3, <2>4, <2>5, <2>6, OKIf
<1>5. ClientOK'
  BY <1>1, Viewed, ClientSame
<1>6. DOMAIN viewers' = Viewers
  BY <1>1, Viewed DEF Pend
<1> QED
  BY <1>4, <1>5, <1>6, Viewed

\* The line goes to the window it was meant for, whoever is open by now.
LEMMA WorkerPostsOK ==
  ASSUME ViewersInv, TypeOK, WorkInv, WorkerAppends, worker.pc = "post"
  PROVE  ViewersInv'
<1> DEFINE m == worker.rendered
           w == worker.window
<1>1. /\ viewers' = Post(worker.window, worker.rendered)
      /\ worker' = [worker EXCEPT !.pc = "file", !.window = 0]
      /\ UNCHANGED <<log, client, impl>>
  BY DEF WorkerAppends
<1>2. /\ log.sequence \in Nat /\ m \in Message /\ m.sequence = log.sequence /\ m.sequence <= log.sequence
      /\ worker'.pc = "file"
  BY <1>1 DEF TypeOK, LogTypeOK, WorkerTypeOK, WorkInv, Rendered
<1> HIDE DEF m, w
<1>3. Delivered' = log.sequence /\ Delivered = log.sequence - 1
  BY <1>1, <1>2 DEF Delivered
<1>4. ASSUME NEW v \in Viewers PROVE ViewerOK(v)'
  <2> DEFINE x == viewers[v]
             y == viewers'[v]
             posted == [x EXCEPT !.box = Append(@, m)]
  <2>1. ViewerOK(v) /\ x \in View /\ Numbered(x, log.sequence) /\ Current(x)
    BY Viewed DEF ViewerOK
  <2>2. y = IF v = w /\ HasWindow(w) THEN posted ELSE x
    BY <1>1, Viewed DEF Post, m, w
  <2>3. x.phase = "loop" /\ v = w => HasWindow(w)
    BY DEF HasWindow
  <2> HIDE DEF x, y, posted
  <2>4. /\ posted \in View /\ Numbered(posted, log.sequence) /\ Current(posted)
        /\ posted.phase = x.phase /\ posted.active = x.active /\ posted.hwnd = x.hwnd /\ posted.from = x.from
        /\ posted.messages = x.messages /\ posted.messages \o posted.box = Append(x.messages \o x.box, m)
    BY <1>2, <2>1, PostedIs DEF posted
  <2>5. /\ y \in View /\ Numbered(y, log.sequence) /\ Current(y)
        /\ y.phase = x.phase /\ y.active = x.active /\ y.hwnd = x.hwnd /\ y.from = x.from
    BY <2>1, <2>2, <2>4
  <2>6. y.active => v = impl' /\ (y.phase \in {"late", "posting", "loop"} => y.hwnd)
    BY <1>1, <2>1, <2>5 DEF ViewerOK, Reached, x
  <2>7. ~Missed(v)'
    BY <1>2 DEF Missed
  <2>8. ASSUME y.active /\ y.phase = "loop"
        PROVE  /\ y.from <= log'.sequence
               /\ Following(y.messages \o y.box, y.from, Delivered', Whole(y))
    <3>1. FollowsAs(x, v)
      BY <2>1, <2>5, <2>8, FollowsIs DEF ViewerOK, x
    <3>2. x.from <= log.sequence /\ x.from \in Nat
      BY <2>1, <3>1 DEF FollowsAs, View
    <3>3. CASE x.from = log.sequence
      <4>1. Following(y.messages \o y.box, y.from, log.sequence, Whole(y))
        BY <1>2, <2>5, <3>3, SettledFollows
      <4> QED
        BY <1>1, <1>2, <1>3, <2>5, <3>3, <4>1
    <3>4. CASE x.from # log.sequence
      <4>1. v = w
        BY <3>1, <3>4 DEF FollowsAs, Missed, w
      <4>2. y = posted
        BY <2>2, <2>3, <2>5, <2>8, <4>1
      <4>3. x.messages \in Seq(Message) /\ x.box \in Seq(Message)
        BY <2>1 DEF View
      <4>4. x.messages \o x.box \in Seq(Message)
        BY <4>3
      <4>5. Following(x.messages \o x.box, x.from, log.sequence - 1, Whole(x))
        BY <1>3, <3>1 DEF FollowsAs
      <4>6. log.sequence - 1 >= x.from /\ log.sequence - 1 \in Int /\ m.sequence = (log.sequence - 1) + 1
            /\ log.sequence = (log.sequence - 1) + 1
        BY <1>2, <3>2, <3>4
      <4>7. Following(Append(x.messages \o x.box, m), x.from, (log.sequence - 1) + 1, Whole(x))
        BY <1>2, <3>2, <4>4, <4>5, <4>6, FollowingNext
      <4>8. Following(y.messages \o y.box, y.from, Delivered', Whole(x))
        BY <1>3, <2>4, <4>2, <4>6, <4>7
      <4>9. Whole(y) <=> Whole(x)
        BY <2>4, <4>2 DEF Whole
      <4> QED
        BY <1>1, <2>5, <3>2, <4>8, <4>9, FollowingLess
    <3> QED
      BY <3>3, <3>4
  <2>9. viewers'[v] = y /\ Numbered(y, log'.sequence)
    BY <1>1, <2>5 DEF y
  <2> QED
    BY <2>5, <2>6, <2>7, <2>8, <2>9, OKIf
<1>5. ClientOK'
  BY <1>1, Viewed, ClientSame
<1>6. DOMAIN viewers' = Viewers
  BY <1>1, Viewed DEF Post
<1> QED
  BY <1>4, <1>5, <1>6, Viewed

LEMMA StartViewerOK ==
  ASSUME ViewersInv, TypeOK, StartViewer
  PROVE  ViewersInv'
<1> DEFINE fresh == [NoViewer EXCEPT !.phase = "starting", !.active = TRUE, !.messages = client.ring]
<1>1. /\ impl' = impl + 1 /\ impl \in Nat /\ UNCHANGED <<log, worker>> /\ log.sequence \in Nat
      /\ client' = [client EXCEPT !.pc = "idle", !.ring = <<>>]
      /\ client.ring \in Seq(Message) /\ Upto(log.sequence, client.ring) /\ ClientOK
  BY Viewed DEF StartViewer, TypeOK, ClientTypeOK, LogTypeOK, ClientOK
<1>2. viewers' = [v \in Viewers |-> IF v = impl + 1 THEN fresh ELSE IF v = impl THEN Gone ELSE viewers[v]]
  BY <1>1 DEF StartViewer
<1>3. <<>> \in Seq(Message) /\ Upto(log.sequence, <<>>)
  BY DEF Upto
<1>4. /\ fresh \in View /\ fresh.phase = "starting" /\ fresh.messages = client.ring
      /\ fresh.pending = <<>> /\ fresh.late = <<>> /\ fresh.box = <<>>
  BY <1>1, <1>3 DEF NoViewer, View
<1> HIDE DEF fresh
<1>5. Numbered(fresh, log.sequence) /\ Current(fresh)
  BY <1>1, <1>3, <1>4 DEF Numbered, Current
<1>6. ASSUME NEW v \in Viewers PROVE ViewerOK(v)'
  <2>0. v \in Nat
    BY DEF Viewers
  <2>1. CASE v = impl + 1
    <3>1. viewers'[v] = fresh
      BY <1>2, <2>1
    <3>2. Numbered(fresh, log'.sequence) /\ fresh.phase \notin {"late", "posting", "loop"} /\ v = impl'
      BY <1>1, <1>4, <1>5, <2>1
    <3> QED
      BY <1>4, <1>5, <3>1, <3>2, OKIf
  <2>2. CASE v = impl
    <3>1. viewers'[v] = Gone
      BY <1>1, <1>2, <2>2
    <3>2. Gone \in View /\ Numbered(Gone, log'.sequence) /\ Current(Gone) /\ Gone.active = FALSE
      BY <1>1, GoneIs
    <3> QED
      BY <3>1, <3>2, OKIf
  <2>3. CASE v # impl /\ v # impl + 1
    <3> DEFINE y == viewers[v]
    <3>1. viewers'[v] = y
      BY <1>2, <2>3
    <3>2. y \in View /\ Numbered(y, log'.sequence) /\ Current(y) /\ ~y.active
      BY <1>1, <2>3, Viewed DEF ViewerOK, Reached
    <3> HIDE DEF y
    <3> QED
      BY <3>1, <3>2, OKIf
  <2> QED
    BY <2>1, <2>2, <2>3
<1>7. ClientOK'
  <2>1. client'.rendered = client.rendered /\ client'.ring = <<>>
    BY <1>1 DEF TypeOK, ClientTypeOK
  <2> QED
    BY <1>1, <1>3, <2>1 DEF ClientOK
<1>8. DOMAIN viewers' = Viewers
  BY <1>2
<1> QED
  BY <1>6, <1>7, <1>8, Viewed

LEMMA InitViewersInv ==
  ASSUME Init
  PROVE  ViewersInv
<1>1. /\ viewers = [v \in Viewers |-> NoViewer] /\ client.ring = <<>> /\ client.rendered.sequence = 0
      /\ log.sequence = 0
  BY DEF Init, CloseMessage
<1>2. <<>> \in Seq(Message) /\ Upto(0, <<>>)
  BY DEF Upto
<1>3. /\ NoViewer \in View /\ NoViewer.active = FALSE /\ NoViewer.phase = "none"
      /\ NoViewer.pending = <<>> /\ NoViewer.late = <<>> /\ NoViewer.box = <<>> /\ NoViewer.messages = <<>>
  BY <1>2 DEF NoViewer, View
<1>4. Numbered(NoViewer, 0) /\ Current(NoViewer)
  BY <1>2, <1>3 DEF Numbered, Current
<1>5. ASSUME NEW v \in Viewers PROVE ViewerOK(v)
  <2>1. viewers[v] = NoViewer
    BY <1>1
  <2> QED
    BY <1>1, <1>3, <1>4, <2>1 DEF ViewerOK, Reached, Follows
<1>6. ClientOK /\ DOMAIN viewers = Viewers
  BY <1>1, <1>2 DEF ClientOK
<1> QED
  BY <1>5, <1>6, Viewed

LEMMA NextViewersInv ==
  ASSUME TypeOK, WorkInv, RingInv, ViewersInv, [Next]_vars
  PROVE  ViewersInv'
<1>1. CASE \/ Write \/ WorkerWakes \/ WorkerWrites \/ OpenViewer \/ Shutdown \/ Cleanup
           \/ \E text \in Printed : ViewerPrint(text)
  BY <1>1, UnseenOK
<1>2. CASE CloseViewer \/ WorkerJoined \/ ClientAppends \/ StartViewer \/ WorkerRenders
  BY <1>2, CloseViewerOK, WorkerJoinedOK, ClientAppendsOK, StartViewerOK, WorkerRendersOK
<1>3. CASE WorkerAppends
  <2>1. worker.pc \in {"look", "pend", "post"}
    BY <1>3, WorkerAppendsPc
  <2> QED
    BY <1>3, <2>1, WorkerLooksOK, WorkerKeepsOK, WorkerPostsOK
<1>4. ASSUME NEW v \in Viewers, ViewerStep(v) \/ ViewerFails(v) \/ Command(v) \/ UserCloses(v)
      PROVE  ViewersInv'
  <2>1. CASE TakePending(v) \/ CreateViewerWindow(v) \/ PublishWindow(v) \/ TakeLate(v)
    BY <2>1, TakePendingOK, CreateViewerWindowOK, PublishWindowOK, TakeLateOK
  <2>2. CASE PostLate(v) \/ StartLoop(v) \/ HandleMessage(v)
    BY <2>2, PostLateOK, StartLoopOK, HandleMessageOK
  <2>3. CASE ViewerFails(v) \/ UserCloses(v) \/ Command(v)
    BY <2>3, GoneOK, CommandOK
  <2> QED
    BY <1>4, <2>1, <2>2, <2>3 DEF ViewerStep
<1>5. CASE UNCHANGED vars
  <2>1. UNCHANGED <<log, worker, client, impl, viewers>>
    BY <1>5 DEF vars
  <2>2. Quiet /\ ClientOK'
    BY <2>1, QuietIf, Viewed, ClientSame
  <2> QED
    BY <2>1, <2>2, SameViewers
<1> QED
  BY <1>1, <1>2, <1>3, <1>4, <1>5 DEF Next, WorkerStep, ClientStep

LEMMA ViewersFollow ==
  ASSUME ViewersInv
  PROVE  ViewerFollowsLog
<1>1. ASSUME NEW v \in Viewers PROVE Current(viewers[v]) /\ Follows(v)
  BY DEF ViewersInv
<1>2. \A v \in Viewers : viewers[v].phase = "loop" /\ ~viewers[v].paused /\ ~viewers[v].blank =>
                           viewers[v].shown = Shown(viewers[v])
  BY <1>1 DEF Current
<1>3. \A v \in Viewers : viewers[v].phase = "loop" /\ viewers[v].active =>
        Following(Received(v), viewers[v].from, Delivered, Whole(viewers[v]))
  BY <1>1 DEF Follows
<1> QED
  BY <1>2, <1>3 DEF ViewerFollowsLog, Following, Whole

\* A viewer that is open receives every line from its message loop on, once and in
\* order, whatever the threads that write, open and close do meanwhile; and it
\* shows what it keeps and lets through (log_window.cpp:444, 728-775).
THEOREM ViewerSafe == Spec => []ViewerFollowsLog
<1>1. Init => ViewersInv
  BY InitViewersInv
<1>2. IInv /\ ViewersInv /\ [Next]_vars => ViewersInv'
  BY NextViewersInv DEF IInv
<1>3. ViewersInv => ViewerFollowsLog
  BY ViewersFollow
<1> QED
  BY <1>1, <1>2, <1>3, Inductive, PTL DEF Spec
===============================================================================
