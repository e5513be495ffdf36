------------------------------ MODULE Display ------------------------------
(***************************************************************************)
(* What the overlay thread draws with: its window (overlay_window.cpp),    *)
(* the renderer and its DirectX device (overlay/render), the outline and   *)
(* thumbnail shaders and the capture of a window (overlay/thumbnail),      *)
(* driven by the loop of service.cpp.  The device may be removed, calls    *)
(* may fail, the desktop may change its size, the capture answers late.    *)
(***************************************************************************)
EXTENDS Integers

CONSTANTS Targets,      \* the windows a user may grab
          NoTarget,
          Sizes,        \* the sizes of the virtual desktop
          NoSize,
          Customs,      \* bytecode of compiled border shaders
          BuiltIn,      \* the shader compiled into the program
          NoShader,
          MaxFaults,    \* bound: failed calls and device removals
          MaxUpdates,   \* bound: generations of the border shader
          MaxChanges,   \* bound: changes of the display
          MaxBegins     \* bound: interactions

ASSUME DisplayAssumption ==
    /\ NoTarget \notin Targets /\ NoSize \notin Sizes
    /\ BuiltIn \notin Customs /\ NoShader \notin Customs \union {BuiltIn}
    /\ {MaxFaults, MaxUpdates, MaxChanges, MaxBegins} \subseteq Nat

VARIABLES
    pc,        \* where OverlayLoop stands
    desktop,   \* the virtual screen, and whether its message waits to be pumped
    window,    \* OverlayWindow: its bounds and whether it is shown
    renderer,  \* OverlayRenderer with its device, shaders, snapshot and last frame
    preview,   \* the interaction's target, capture flags and whether it is parked
    counts,    \* the counters of the bounds
    failed,    \* history: the last interaction ended with a failed frame
    atOnce     \* history: the capture's first frame came while it was started

vars == <<pc, desktop, window, renderer, preview, counts, failed, atOnce>>

NoCapture == [phase |-> "idle", target |-> NoTarget, ready |-> FALSE, expired |-> FALSE,
              requested |-> FALSE, granted |-> FALSE, operation |-> "none"]

\* What the last frame was drawn with.
NoFrame == [port |-> NoSize, swap |-> NoSize, canvas |-> NoSize,
            bound |-> NoShader, pixel |-> NoShader]

\* viewport is what SetViewport believes is set, port what the context has;
\* pixel is the outline's pixel shader, bound the one the context has.
NoRenderer == [device |-> "none", swap |-> NoSize, viewport |-> NoSize, port |-> NoSize,
               canvas |-> NoSize, pixel |-> NoShader, bound |-> NoShader,
               custom |-> NoShader, generation |-> 0, dirty |-> TRUE,
               texture |-> NoTarget, capture |-> NoCapture, frame |-> NoFrame]

NoPreview == [target |-> NoTarget, capturePending |-> FALSE, captureInProgress |-> FALSE,
              parkPending |-> FALSE, parked |-> FALSE]

----------------------------------------------------------------------------
(* Outcomes: a call that may fail gives the set of [to, status, cost] it   *)
(* can end in; the cost counts against the bound on faults.                *)

To(r, status)    == [to |-> r, status |-> status, cost |-> 0]
Fault(r, status) == [to |-> r, status |-> status, cost |-> 1]

\* One call after another, the second only when the first is "ok".
Then(first, Second(_)) ==
    UNION {IF a.status = "ok"
             THEN {[b EXCEPT !.cost = a.cost + @] : b \in Second(a.to)}
             ELSE {a} : a \in first}

\* Nothing releases a texture without cancelling the capture.
Cancelled(r) ==
    [r EXCEPT !.capture = [@ EXCEPT !.phase = "idle", !.target = NoTarget,
                                    !.ready = FALSE, !.expired = FALSE]]
ClearSnapshot(r) == [Cancelled(r) EXCEPT !.texture = NoTarget]

\* Mutant: the cached viewport outlives the context it was set in.
ReleaseButViewport(r) ==
    [r EXCEPT !.device = "none", !.swap = NoSize, !.port = NoSize, !.bound = NoShader]

\* ReleaseDeviceResources: the context goes, and with it what was bound.
ReleaseDevice(r) ==
    [r EXCEPT !.device = "none", !.swap = NoSize, !.viewport = NoSize,
              !.port = NoSize, !.bound = NoShader]

ReleaseAll(r) == [ReleaseDevice(ClearSnapshot(r)) EXCEPT !.pixel = NoShader]

Destroyed(r) == [ReleaseAll(r) EXCEPT !.custom = NoShader, !.dirty = TRUE]

\* DxContext::Create and the Create of both shaders; when one fails, the
\* caller destroys the renderer.
Create(r) ==
    {To([r EXCEPT !.device = "ok", !.pixel = BuiltIn], "ok"), Fault(Destroyed(r), "failed")}

\* EnsureSwapResources, for a device that is there.
EnsureSwap(r) ==
    IF r.swap # NoSize THEN {To(r, "ok")}
    ELSE {To([r EXCEPT !.swap = r.canvas], "ok"), Fault(r, "invalid"),
          Fault([r EXCEPT !.device = "removed"], "lost")}

EnsureReady(r) == IF r.device # "ok" THEN {To(r, "lost")} ELSE EnsureSwap(r)

PresentAndCommit(r) ==
    IF r.device = "removed" THEN {To(r, "lost")}
    ELSE {To(r, "ok"), Fault([r EXCEPT !.swap = NoSize], "again"),
          Fault([r EXCEPT !.device = "removed"], "lost")}

\* The two attempts of PresentClear and PresentDraw: a swap chain that cannot
\* be presented is released and made again once.
Attempts(r, Attempt(_)) ==
    UNION {IF a.status # "again" THEN {a}
           ELSE {[b EXCEPT !.cost = a.cost + @,
                           !.status = IF @ = "again" THEN "invalid" ELSE @] :
                   b \in Attempt(a.to)} : a \in Attempt(r)}

PresentClear(r) == Attempts(r, LAMBDA s : Then(EnsureReady(s), PresentAndCommit))

\* SetViewport and the draw calls.  The outline is bound when it is not: after
\* a thumbnail, and when the pipeline is dirty.
Drawn(r) ==
    LET sized == IF r.viewport = r.canvas THEN r
                 ELSE [r EXCEPT !.viewport = r.canvas, !.port = r.canvas]
        set == IF r.texture # NoTarget \/ r.dirty
                 THEN [sized EXCEPT !.bound = r.pixel, !.dirty = FALSE] ELSE sized
    IN [set EXCEPT !.frame = [port |-> set.port, swap |-> set.swap, canvas |-> set.canvas,
                              bound |-> set.bound, pixel |-> set.pixel]]

PresentDraw(r) ==
    Attempts(r, LAMBDA s : Then(EnsureReady(s), LAMBDA t : PresentAndCommit(Drawn(t))))

\* UpdateConstants maps a buffer, which can fail.
UpdateConstants(r) ==
    IF r.device = "removed" THEN {To(r, "lost")} ELSE {To(r, "ok"), Fault(r, "invalid")}

Render(r) == Then(Then(EnsureReady(r), UpdateConstants), PresentDraw)

\* ResetDevice: the custom shader is made again, or forgotten.
ResetDevice(r) ==
    LET Restore(s) ==
          IF s.custom = NoShader THEN {To([s EXCEPT !.dirty = TRUE], "ok")}
          ELSE {To([s EXCEPT !.dirty = TRUE, !.pixel = s.custom], "ok"),
                Fault([s EXCEPT !.dirty = TRUE, !.custom = NoShader], "ok")}
    IN Then(Then(Create(ReleaseAll(r)), Restore), EnsureSwap)

\* UseBuiltInShader and InstallPixelShader.
UpdateShader(r, shader, generation) ==
    IF generation < r.generation \/ r.device = "none" THEN {To(r, "ok")}
    ELSE {To([r EXCEPT !.pixel = shader, !.generation = generation, !.dirty = TRUE,
                       !.custom = IF shader = BuiltIn THEN NoShader ELSE shader], "ok"),
          Fault(r, "ok")}

UpdateCanvas(r, bounds) ==
    IF r.canvas = bounds THEN r ELSE [r EXCEPT !.canvas = bounds, !.swap = NoSize]

----------------------------------------------------------------------------
(* The capture of the target (window_snapshot.cpp).                        *)

Failed(r) == Fault(Cancelled(r), "failed")

\* From the permission to a running session, whose first frame may be there
\* before the thread looks for it.
StartSession(r) ==
    {To([r EXCEPT !.capture.phase = "frame"], "pending"), Failed(r),
     To([Cancelled(r) EXCEPT !.texture = r.capture.target], "ready")}

AskPermission(r) ==
    CASE r.capture.granted -> StartSession(r)
      [] ~r.capture.granted /\ r.capture.operation = "started" -> {To(r, "pending")}
      [] ~r.capture.granted /\ r.capture.operation = "allowed" ->
           StartSession([r EXCEPT !.capture.operation = "none", !.capture.granted = TRUE])
      [] ~r.capture.granted /\ r.capture.operation = "denied" ->
           {To([Cancelled(r) EXCEPT !.capture.operation = "none"], "failed")}
      [] OTHER -> {To(Cancelled(r), "failed")}

\* Mutant: the frame counts as taken whether or not it could be copied.
TakeFrameBlindly(r) ==
    IF r.capture.ready
      THEN {To([Cancelled(r) EXCEPT !.texture = r.capture.target], "ready"),
            Fault(Cancelled(r), "ready")}
    ELSE IF r.capture.expired THEN {To(Cancelled(r), "failed")}
    ELSE {To(r, "pending")}

\* The frame, once it has arrived; the session ends with it.
TakeFrame(r) ==
    IF r.capture.ready
      THEN {To([Cancelled(r) EXCEPT !.texture = r.capture.target], "ready"), Failed(r)}
    ELSE IF r.capture.expired THEN {To(Cancelled(r), "failed")}
    ELSE {To(r, "pending")}

UpdateCapture(r) ==
    CASE r.capture.phase = "permission" -> AskPermission(r)
      [] r.capture.phase = "frame" -> TakeFrame(r)
      [] OTHER -> {To(r, "failed")}

\* Begin, for a window that may be closed.  Permission is asked for once; once
\* granted the session is started at once, and of a frame that is there
\* already only the status is kept, not the texture.
BeginCapture(r, target) ==
    LET cleared == ClearSnapshot(r)
        c == cleared.capture
        aimed == [cleared EXCEPT !.capture.phase = "permission", !.capture.target = target]
    IN {Failed(cleared)} \union
       CASE r.device # "none" /\ c.granted ->
              {[o EXCEPT !.to.texture = NoTarget] : o \in StartSession(aimed)}
         [] r.device # "none" /\ ~c.requested ->
              {To([aimed EXCEPT !.capture.requested = TRUE,
                                !.capture.operation = "started"], "pending")}
         [] r.device # "none" /\ ~c.granted /\ c.requested /\ c.operation # "none" ->
              {To(aimed, "pending")}
         [] OTHER -> {To(cleared, "failed")}

----------------------------------------------------------------------------

Init ==
    /\ pc = "init"
    /\ desktop \in [size : Sizes, message : {FALSE}]
    /\ window = [bounds |-> desktop.size, visible |-> FALSE]
    /\ renderer = [NoRenderer EXCEPT !.canvas = desktop.size]
    /\ preview = NoPreview
    /\ counts = [faults |-> 0, changes |-> 0, begins |-> 0]
    /\ failed = FALSE /\ atOnce = FALSE

\* The outcome o of the calls a step makes, within the bound on faults.
Takes(o) ==
    /\ counts.faults + o.cost <= MaxFaults
    /\ renderer' = o.to
    /\ counts' = [counts EXCEPT !.faults = @ + o.cost]

\* RecoverRenderer, after a frame that ended in o.
Recovered(o) ==
    IF o.status = "ok" THEN {o}
    ELSE {[b EXCEPT !.cost = o.cost + @] : b \in ResetDevice(o.to)}

\* The window and the renderer are made (both Init), or OverlayLoop returns.
InitRenderer(r) ==
    {[o EXCEPT !.to = IF o.status = "ok" THEN @ ELSE Destroyed(@)] :
        o \in {Fault(r, "failed")} \union Then(Create(r), EnsureSwap)}

\* It returns as well when a first frame cannot be drawn, even after a reset.
Prime ==
    /\ pc = "init"
    /\ \E o \in Then(InitRenderer(renderer),
                      LAMBDA r : UNION {Recovered(f) : f \in Render(r)}) :
         /\ Takes([o EXCEPT !.to = IF o.status = "ok" THEN @ ELSE Destroyed(@)])
         /\ pc' = IF o.status = "ok" THEN "wait" ELSE "dead"
    /\ UNCHANGED <<desktop, window, preview, failed, atOnce>>

\* PumpMessages and HandleDisplayChange, first in every pass of the loop.
PumpedWindow == [window EXCEPT !.bounds = IF desktop.message THEN desktop.size ELSE @]

PumpedRenderer ==
    IF desktop.message THEN [UpdateCanvas(renderer, desktop.size) EXCEPT !.swap = NoSize]
                       ELSE renderer

Pumped == desktop' = [desktop EXCEPT !.message = FALSE]

\* A border shader wakes the loop, or is found by a pass of it.
ApplyOutline(shader, generation) ==
    /\ pc \in {"wait", "drain"} /\ Pumped /\ window' = PumpedWindow
    /\ \E o \in UpdateShader(PumpedRenderer, shader, generation) : Takes(o)
    /\ UNCHANGED <<pc, preview, failed, atOnce>>

\* CompleteInteraction
Complete(r) == ClearSnapshot(r)

\* An interaction begins: the window follows the desktop, is cleared and shown.
Begin(target, mode) ==
    /\ pc = "wait" /\ counts.begins < MaxBegins /\ Pumped
    /\ \E o \in PresentClear(UpdateCanvas(PumpedRenderer, desktop.size)) :
         IF o.status = "ok"
           THEN /\ counts.faults + o.cost <= MaxFaults
                /\ renderer' = o.to
                /\ window' = [bounds |-> desktop.size, visible |-> TRUE]
                /\ preview' = [NoPreview EXCEPT !.target = target,
                                                !.capturePending = (mode = "thumbnail")]
                /\ counts' = [counts EXCEPT !.faults = @ + o.cost, !.begins = @ + 1]
                /\ pc' = "drain"
           ELSE \E b \in ResetDevice(o.to) :
                /\ counts.faults + o.cost + b.cost <= MaxFaults
                /\ renderer' = Complete(b.to)
                /\ window' = [PumpedWindow EXCEPT !.bounds = desktop.size]
                /\ counts' = [counts EXCEPT !.faults = @ + o.cost + b.cost, !.begins = @ + 1]
                /\ UNCHANGED <<pc, preview>>
    /\ failed' = (failed /\ pc' = "wait") /\ atOnce' = FALSE

\* A pass that finds nothing, or the end of the interaction.
Drain ==
    /\ pc = "drain" /\ Pumped
    /\ window' = PumpedWindow /\ renderer' = PumpedRenderer
    /\ pc' = "render"
    /\ UNCHANGED <<preview, counts, failed, atOnce>>

\* Mutant: the loop goes back to sleep with the window on.
EndShown == PumpedWindow

EndHidden == [PumpedWindow EXCEPT !.visible = FALSE]

End ==
    /\ pc = "drain" /\ Pumped
    /\ window' = EndHidden /\ renderer' = Complete(PumpedRenderer)
    /\ preview' = NoPreview /\ pc' = "wait"
    /\ UNCHANGED <<counts, failed, atOnce>>

RenderFails ==
    /\ pc = "render"
    /\ \E o \in Render(renderer) : o.status # "ok"
         /\ \E b \in Recovered(o) : Takes([b EXCEPT !.to = Complete(@)])
    /\ preview' = NoPreview /\ pc' = "wait" /\ failed' = TRUE
    /\ UNCHANGED <<desktop, window, atOnce>>

\* After a frame: one step of the capture, or the parking of the window.
Follow(o, status, flags) ==
    /\ Takes(o)
    /\ preview' = [flags EXCEPT !.captureInProgress = (status = "pending"),
                                !.parkPending = (status = "ready")]

AfterFrame(frame) ==
    \/ /\ preview.capturePending
       /\ \E o \in BeginCapture(frame.to, preview.target) :
            /\ Follow([o EXCEPT !.cost = @ + frame.cost], o.status,
                      [preview EXCEPT !.capturePending = FALSE])
            /\ atOnce' = (o.status = "ready")
    \/ /\ ~preview.capturePending /\ preview.captureInProgress
       /\ \E o \in UpdateCapture(frame.to) :
            Follow([o EXCEPT !.cost = @ + frame.cost], o.status, preview)
       /\ UNCHANGED atOnce
    \/ /\ ~preview.capturePending /\ ~preview.captureInProgress
       /\ Takes(frame)
       /\ preview' = IF preview.parkPending
                       THEN [preview EXCEPT !.parkPending = FALSE, !.parked = TRUE]
                       ELSE preview
       /\ UNCHANGED atOnce

RenderFrame ==
    /\ pc = "render"
    /\ \E o \in Render(renderer) : o.status = "ok" /\ AfterFrame(o)
    /\ pc' = "drain"
    /\ UNCHANGED <<desktop, window, failed>>

----------------------------------------------------------------------------
(* The surroundings.                                                       *)

RemoveDevice ==
    /\ renderer.device = "ok" /\ counts.faults < MaxFaults
    /\ renderer' = [renderer EXCEPT !.device = "removed"]
    /\ counts' = [counts EXCEPT !.faults = @ + 1]
    /\ UNCHANGED <<pc, desktop, window, preview, failed, atOnce>>

\* WM_DISPLAYCHANGE, or WM_DWMCOMPOSITIONCHANGED with the same size.
ChangeDisplay(size) ==
    /\ counts.changes < MaxChanges
    /\ desktop' = [size |-> size, message |-> TRUE]
    /\ counts' = [counts EXCEPT !.changes = @ + 1]
    /\ UNCHANGED <<pc, window, renderer, preview, failed, atOnce>>

SetCapture(capture) ==
    /\ renderer' = [renderer EXCEPT !.capture = capture]
    /\ UNCHANGED <<pc, desktop, window, preview, counts, failed, atOnce>>

AnswerPermission(answer) ==
    /\ renderer.capture.operation = "started"
    /\ SetCapture([renderer.capture EXCEPT !.operation = answer])

FrameArrives ==
    /\ renderer.capture.phase = "frame" /\ ~renderer.capture.ready
    /\ SetCapture([renderer.capture EXCEPT !.ready = TRUE])

\* kCaptureTimeout passes.
Deadline ==
    /\ renderer.capture.phase = "frame" /\ ~renderer.capture.expired
    /\ SetCapture([renderer.capture EXCEPT !.expired = TRUE])

Next ==
    \/ Prime \/ Drain \/ End \/ RenderFails \/ RenderFrame
    \/ \E t \in Targets, mode \in {"overlay", "thumbnail"} : Begin(t, mode)
    \/ \E s \in Customs \union {BuiltIn}, g \in 1..MaxUpdates : ApplyOutline(s, g)
    \/ RemoveDevice \/ FrameArrives \/ Deadline
    \/ \E size \in Sizes : ChangeDisplay(size)
    \/ \E answer \in {"allowed", "denied", "error"} : AnswerPermission(answer)

Spec == Init /\ [][Next]_vars

----------------------------------------------------------------------------

\* Every frame is drawn whole and with the shader in use, whatever was reset,
\* resized or removed before: viewport, swap chain, canvas and window agree,
\* the pixel shader bound is the outline's, and that is the custom one while
\* its bytecode is kept (the caches of dx_context.cpp:156 and renderer.cpp:343).
FrameIsRight ==
    /\ renderer.frame # NoFrame =>
         /\ renderer.frame.port = renderer.frame.canvas
         /\ renderer.frame.swap = renderer.frame.canvas
         /\ renderer.frame.bound = renderer.frame.pixel
    /\ renderer.device # "none" =>
         renderer.pixel = (IF renderer.custom = NoShader THEN BuiltIn ELSE renderer.custom)
    /\ renderer.canvas = window.bounds
    /\ renderer.swap \in {NoSize, renderer.canvas}

\* The overlay is on screen only during an interaction, or after one that a
\* failed frame ended: nobody hides it then until the next one ends
\* (service.cpp:178, 190).
HiddenWhenIdle == pc \in {"wait", "dead"} /\ window.visible => failed

\* A window is moved off the screen only while the overlay has its picture to
\* draw; the exception is a first frame that arrives while the capture is
\* started: it counts as ready and its texture is dropped (service.cpp:219,
\* window_snapshot.cpp:171).
ParkHasThumbnail ==
    preview.parked => renderer.texture = preview.target \/ atOnce
=============================================================================
