---------------------------- MODULE Display_proofs ----------------------------
(***************************************************************************)
(* Proofs about Display, for any windows, sizes, shaders and numbers of    *)
(* faults: what a frame is drawn with, when the overlay is shown, and that *)
(* a window is parked only while its picture is there.                     *)
(***************************************************************************)
EXTENDS Display, TLAPS

Size   == Sizes \union {NoSize}
Shader == Customs \union {BuiltIn, NoShader}
Target == Targets \union {NoTarget}

Capture == [phase : {"idle", "permission", "frame"}, target : Target, ready : BOOLEAN,
            expired : BOOLEAN, requested : BOOLEAN, granted : BOOLEAN,
            operation : {"none", "started", "allowed", "denied", "error"}]

Frame == [port : Size, swap : Size, canvas : Size, bound : Shader, pixel : Shader]

Renderer == [device : {"none", "ok", "removed"}, swap : Size, viewport : Size, port : Size,
             canvas : Sizes, pixel : Shader, bound : Shader, custom : Customs \union {NoShader},
             generation : Nat, dirty : BOOLEAN, texture : Target, capture : Capture,
             frame : Frame]

Outcome == [to : Renderer, cost : Nat,
            status : {"ok", "lost", "invalid", "again", "failed", "pending", "ready"}]

(***************************************************************************)
(* What every step of the renderer keeps, also in the middle of a reset:   *)
(* the viewport it believes in is the context's, the swap chain has the    *)
(* size of the canvas, and the last frame was right.                       *)
(***************************************************************************)
Whole(f) ==
  f # NoFrame => f.port = f.canvas /\ f.swap = f.canvas /\ f.bound = f.pixel

Base(r) ==
  /\ r \in Renderer
  /\ r.viewport = r.port
  /\ r.swap \in {NoSize, r.canvas}
  /\ Whole(r.frame)

(***************************************************************************)
(* And after it: an outline that is not dirty is bound, and a device draws *)
(* with the custom shader if its bytecode is kept.                         *)
(***************************************************************************)
Sound(r) ==
  /\ Base(r)
  /\ ~r.dirty => r.bound = r.pixel
  /\ r.device # "none" => r.pixel = (IF r.custom = NoShader THEN BuiltIn ELSE r.custom)

RendererInv ==
  /\ Sound(renderer)
  /\ renderer.canvas = window.bounds
  /\ pc = "init" => renderer.device = "none" /\ renderer.custom = NoShader /\ renderer.dirty

SurroundingsOK ==
  /\ pc \in {"init", "wait", "drain", "render", "dead"}
  /\ desktop \in [size : Sizes, message : BOOLEAN]
  /\ window \in [bounds : Sizes, visible : BOOLEAN]
  /\ preview \in [target : Target, capturePending : BOOLEAN, captureInProgress : BOOLEAN,
                  parkPending : BOOLEAN, parked : BOOLEAN]
  /\ counts \in [faults : Nat, changes : Nat, begins : Nat]
  /\ failed \in BOOLEAN /\ atOnce \in BOOLEAN

HideInv ==
  /\ pc = "init" => ~window.visible
  /\ pc \in {"wait", "dead"} /\ window.visible => failed

(***************************************************************************)
(* The flags of the preview follow one another, and the capture under way  *)
(* is of the window that was grabbed.                                      *)
(***************************************************************************)
ParkInv ==
  /\ pc \in {"init", "wait", "dead"} => preview = NoPreview
  /\ preview.capturePending =>
       ~preview.captureInProgress /\ ~preview.parkPending /\ ~preview.parked
  /\ preview.captureInProgress =>
       ~preview.parkPending /\ ~preview.parked /\ renderer.capture.target = preview.target
  /\ preview.parkPending \/ preview.parked => renderer.texture = preview.target \/ atOnce

IInv == SurroundingsOK /\ RendererInv /\ HideInv /\ ParkInv


-------------------------------------------------------------------------------
\* The updates the calls are made of.

\* What only a change of the display, and what only the capture may change.
SameCanvas(s, r)  == s.canvas = r.canvas
SamePicture(s, r) == s.texture = r.texture /\ s.capture = r.capture

LEMMA Nones ==
  /\ NoSize \in Size /\ NoSize \notin Sizes /\ NoShader \in Shader /\ BuiltIn \in Shader
  /\ BuiltIn # NoShader /\ NoShader \notin Customs /\ Customs \subseteq Shader /\ BuiltIn \notin Customs
  /\ NoTarget \in Target /\ Targets \subseteq Target /\ Sizes \subseteq Size
BY DisplayAssumption DEF DisplayAssumption, Size, Shader, Target

LEMMA SetSwap ==
  ASSUME NEW r, Base(r), NEW x \in {NoSize, r.canvas}, NEW s, s = [r EXCEPT !.swap = x]
  PROVE  /\ Base(s) /\ (Sound(r) => Sound(s)) /\ SameCanvas(s, r) /\ SamePicture(s, r)
         /\ s.swap = x /\ s.device = r.device
<1>1. r \in Renderer /\ x \in Size
  BY Nones DEF Base, Renderer, Size
<1>2. /\ s \in Renderer /\ s.swap = x
      /\ s.canvas = r.canvas /\ s.texture = r.texture /\ s.capture = r.capture
      /\ s.viewport = r.viewport /\ s.port = r.port /\ s.frame = r.frame
      /\ s.dirty = r.dirty /\ s.bound = r.bound /\ s.pixel = r.pixel
      /\ s.device = r.device /\ s.custom = r.custom
  BY <1>1 DEF Renderer
<1> QED
  BY <1>2 DEF Base, Sound, SameCanvas, SamePicture

LEMMA LoseDevice ==
  ASSUME NEW r, Base(r), r.device # "none", NEW s, s = [r EXCEPT !.device = "removed"]
  PROVE  /\ Base(s) /\ (Sound(r) => Sound(s)) /\ SameCanvas(s, r) /\ SamePicture(s, r)
<1>1. r \in Renderer
  BY DEF Base
<1>2. /\ s \in Renderer /\ s.device # "none"
      /\ s.swap = r.swap /\ s.canvas = r.canvas /\ s.texture = r.texture /\ s.capture = r.capture
      /\ s.viewport = r.viewport /\ s.port = r.port /\ s.frame = r.frame
      /\ s.dirty = r.dirty /\ s.bound = r.bound /\ s.pixel = r.pixel /\ s.custom = r.custom
  BY <1>1 DEF Renderer
<1> QED
  BY <1>2 DEF Base, Sound, SameCanvas, SamePicture

LEMMA SetCaptureKeeps ==
  ASSUME NEW r, Sound(r), NEW c \in Capture, NEW s, s = [r EXCEPT !.capture = c]
  PROVE  /\ Sound(s) /\ SameCanvas(s, r) /\ s.texture = r.texture /\ s.capture = c
         /\ s.device = r.device /\ s.custom = r.custom /\ s.dirty = r.dirty
<1>1. r \in Renderer
  BY DEF Base, Sound
<1>2. /\ s \in Renderer /\ s.capture = c
      /\ s.swap = r.swap /\ s.canvas = r.canvas /\ s.texture = r.texture
      /\ s.viewport = r.viewport /\ s.port = r.port /\ s.frame = r.frame
      /\ s.dirty = r.dirty /\ s.bound = r.bound /\ s.pixel = r.pixel
      /\ s.device = r.device /\ s.custom = r.custom
  BY <1>1 DEF Renderer
<1> QED
  BY <1>2 DEF Base, Sound, SameCanvas

LEMMA SetTexture ==
  ASSUME NEW r, Sound(r), NEW t \in Target, NEW s, s = [r EXCEPT !.texture = t]
  PROVE  /\ Sound(s) /\ SameCanvas(s, r) /\ s.texture = t /\ s.capture = r.capture
         /\ s.device = r.device /\ s.custom = r.custom
<1>1. r \in Renderer
  BY DEF Base, Sound
<1>2. /\ s \in Renderer /\ s.texture = t
      /\ s.swap = r.swap /\ s.canvas = r.canvas /\ s.capture = r.capture
      /\ s.viewport = r.viewport /\ s.port = r.port /\ s.frame = r.frame
      /\ s.dirty = r.dirty /\ s.bound = r.bound /\ s.pixel = r.pixel
      /\ s.device = r.device /\ s.custom = r.custom
  BY <1>1 DEF Renderer
<1> QED
  BY <1>2 DEF Base, Sound, SameCanvas

LEMMA CancelledKeeps ==
  ASSUME NEW r, Sound(r)
  PROVE  /\ Sound(Cancelled(r)) /\ SameCanvas(Cancelled(r), r) /\ Cancelled(r).texture = r.texture
         /\ Cancelled(r).device = r.device /\ Cancelled(r).custom = r.custom
         /\ Cancelled(r).capture.phase = "idle"
<1>1. r.capture \in Capture
  BY DEF Base, Sound, Renderer
<1>2. PICK c : c = [r.capture EXCEPT !.phase = "idle", !.target = NoTarget,
                                     !.ready = FALSE, !.expired = FALSE]
  OBVIOUS
<1>3. c \in Capture /\ c.phase = "idle"
  BY <1>1, <1>2, Nones DEF Capture
<1>4. PICK s : s = [r EXCEPT !.capture = c]
  OBVIOUS
<1>5. Cancelled(r) = s
  BY <1>2, <1>4 DEF Cancelled
<1>6. /\ Sound(s) /\ SameCanvas(s, r) /\ s.texture = r.texture /\ s.capture = c
      /\ s.device = r.device /\ s.custom = r.custom /\ s.dirty = r.dirty
  BY <1>3, <1>4, SetCaptureKeeps
<1> QED
  BY <1>3, <1>5, <1>6

LEMMA ClearedKeeps ==
  ASSUME NEW r, Sound(r)
  PROVE  /\ Sound(ClearSnapshot(r)) /\ SameCanvas(ClearSnapshot(r), r)
         /\ ClearSnapshot(r).texture = NoTarget /\ ClearSnapshot(r).device = r.device
<1>1. /\ Sound(Cancelled(r)) /\ SameCanvas(Cancelled(r), r) /\ Cancelled(r).device = r.device
  BY CancelledKeeps
<1>2. ClearSnapshot(r) = [Cancelled(r) EXCEPT !.texture = NoTarget]
  BY DEF ClearSnapshot
<1> HIDE DEF Cancelled
<1>3. PICK c : c = Cancelled(r)
  OBVIOUS
<1>4. /\ Sound(ClearSnapshot(r)) /\ SameCanvas(ClearSnapshot(r), c)
      /\ ClearSnapshot(r).texture = NoTarget /\ ClearSnapshot(r).device = c.device
  BY <1>1, <1>2, <1>3, Nones, SetTexture
<1> QED
  BY <1>1, <1>3, <1>4 DEF SameCanvas

\* ReleaseAll leaves no device, no swap chain and nothing bound.
LEMMA ReleasedKeeps ==
  ASSUME NEW r, Sound(r)
  PROVE  /\ Sound(ReleaseAll(r)) /\ SameCanvas(ReleaseAll(r), r)
         /\ ReleaseAll(r).device = "none" /\ ReleaseAll(r).swap = NoSize
         /\ ReleaseAll(r).custom = r.custom
<1>1. PICK c : c = ClearSnapshot(r)
  OBVIOUS
<1>2. Sound(c) /\ SameCanvas(c, r) /\ c.custom = r.custom
  <2>1. Sound(c) /\ SameCanvas(c, r)
    BY <1>1, ClearedKeeps
  <2>2. Cancelled(r) \in Renderer /\ Cancelled(r).custom = r.custom
    BY CancelledKeeps DEF Sound, Base
  <2>3. c.custom = Cancelled(r).custom
    BY <1>1, <2>2 DEF ClearSnapshot, Renderer
  <2> QED
    BY <2>1, <2>2, <2>3
<1>3. PICK d : d = [c EXCEPT !.device = "none", !.swap = NoSize, !.viewport = NoSize,
                             !.port = NoSize, !.bound = NoShader]
  OBVIOUS
<1>4. PICK s : s = [d EXCEPT !.pixel = NoShader]
  OBVIOUS
<1>5. ReleaseAll(r) = s
  BY <1>1, <1>3, <1>4 DEF ReleaseAll, ReleaseDevice
<1>6. c \in Renderer /\ Whole(c.frame)
  BY <1>2 DEF Sound, Base
<1>7. /\ d \in Renderer /\ d.device = "none" /\ d.swap = NoSize /\ d.viewport = NoSize
      /\ d.port = NoSize /\ d.bound = NoShader /\ d.frame = c.frame /\ d.canvas = c.canvas /\ d.custom = c.custom
  BY <1>3, <1>6, Nones DEF Renderer
<1>8. /\ s \in Renderer /\ s.device = "none" /\ s.swap = NoSize /\ s.viewport = NoSize
      /\ s.port = NoSize /\ s.frame = c.frame /\ s.canvas = c.canvas /\ s.custom = c.custom
      /\ s.bound = NoShader /\ s.pixel = NoShader
  BY <1>4, <1>7, Nones DEF Renderer
<1> QED
  BY <1>2, <1>5, <1>6, <1>8 DEF Base, Sound, SameCanvas

LEMMA DestroyedKeeps ==
  ASSUME NEW r, Sound(r)
  PROVE  Sound(Destroyed(r)) /\ SameCanvas(Destroyed(r), r)
<1>1. PICK c : c = ReleaseAll(r)
  OBVIOUS
<1>2. Sound(c) /\ SameCanvas(c, r) /\ c.device = "none"
  BY <1>1, ReleasedKeeps
<1>3. PICK s : s = [c EXCEPT !.custom = NoShader, !.dirty = TRUE]
  OBVIOUS
<1>4. Destroyed(r) = s
  BY <1>1, <1>3 DEF Destroyed
<1>5. c \in Renderer
  BY <1>2 DEF Sound, Base
<1>6. /\ s \in Renderer /\ s.device = "none" /\ s.swap = c.swap /\ s.viewport = c.viewport
      /\ s.port = c.port /\ s.frame = c.frame /\ s.canvas = c.canvas /\ s.dirty = TRUE
  BY <1>2, <1>3, <1>5, Nones DEF Renderer
<1> QED
  BY <1>2, <1>4, <1>6 DEF Base, Sound, SameCanvas

-------------------------------------------------------------------------------
\* The calls.  Every outcome leaves a renderer that is Sound; one that is made
\* of them is taken apart by Chain, one call at a time.

Kept(o, r) == o \in Outcome /\ Sound(o.to) /\ SameCanvas(o.to, r)

LEMMA ToIs ==
  ASSUME NEW s \in Renderer, NEW k \in {"ok", "lost", "invalid", "again", "failed", "pending", "ready"}
  PROVE  /\ To(s, k) \in Outcome /\ To(s, k).to = s /\ To(s, k).status = k
         /\ Fault(s, k) \in Outcome /\ Fault(s, k).to = s /\ Fault(s, k).status = k
BY DEF To, Fault, Outcome

LEMMA Costs ==
  ASSUME NEW b \in Outcome, NEW n \in Nat, NEW o, o = [b EXCEPT !.cost = n + @]
  PROVE  o \in Outcome /\ o.to = b.to /\ o.status = b.status
BY DEF Outcome

LEMMA EnsureSwapKeeps ==
  ASSUME NEW r, Base(r), r.device # "none", NEW o \in EnsureSwap(r)
  PROVE  /\ o \in Outcome /\ Base(o.to) /\ (Sound(r) => Sound(o.to))
         /\ SameCanvas(o.to, r) /\ SamePicture(o.to, r)
         /\ o.status = "ok" => o.to.swap = r.canvas /\ o.to.device = r.device
<1>1. r \in Renderer /\ r.swap \in {NoSize, r.canvas}
  BY DEF Base
<1>2. CASE r.swap # NoSize
  <2>1. o = To(r, "ok")
    BY <1>2 DEF EnsureSwap
  <2> QED
    BY <1>1, <1>2, <2>1, ToIs DEF SameCanvas, SamePicture
<1>3. CASE r.swap = NoSize /\ o = To([r EXCEPT !.swap = r.canvas], "ok")
  <2>1. PICK s : s = [r EXCEPT !.swap = r.canvas]
    OBVIOUS
  <2>2. /\ Base(s) /\ (Sound(r) => Sound(s)) /\ SameCanvas(s, r) /\ SamePicture(s, r)
        /\ s.swap = r.canvas /\ s.device = r.device
    BY <2>1, SetSwap
  <2>3. s \in Renderer
    BY <2>2 DEF Base
  <2>4. o = To(s, "ok")
    BY <1>3, <2>1
  <2> QED
    BY <2>2, <2>3, <2>4, ToIs
<1>4. CASE r.swap = NoSize /\ o = Fault(r, "invalid")
  BY <1>1, <1>4, ToIs DEF SameCanvas, SamePicture
<1>5. CASE r.swap = NoSize /\ o = Fault([r EXCEPT !.device = "removed"], "lost")
  <2>1. PICK s : s = [r EXCEPT !.device = "removed"]
    OBVIOUS
  <2>2. Base(s) /\ (Sound(r) => Sound(s)) /\ SameCanvas(s, r) /\ SamePicture(s, r)
    BY <2>1, LoseDevice
  <2>3. s \in Renderer
    BY <2>2 DEF Base
  <2>4. o = Fault(s, "lost")
    BY <1>5, <2>1
  <2> QED
    BY <2>2, <2>3, <2>4, ToIs
<1> QED
  BY <1>2, <1>3, <1>4, <1>5 DEF EnsureSwap


LEMMA EnsureReadyKeeps ==
  ASSUME NEW r, Sound(r), NEW o \in EnsureReady(r)
  PROVE  /\ Kept(o, r) /\ SamePicture(o.to, r)
         /\ o.status = "ok" => o.to.swap = r.canvas /\ o.to.device = "ok"
<1>1. r \in Renderer /\ Base(r)
  BY DEF Sound, Base
<1>2. CASE r.device = "ok"
  <2>1. o \in EnsureSwap(r)
    BY <1>2 DEF EnsureReady
  <2>2. /\ o \in Outcome /\ Sound(o.to) /\ SameCanvas(o.to, r) /\ SamePicture(o.to, r)
        /\ o.status = "ok" => o.to.swap = r.canvas /\ o.to.device = "ok"
    BY <1>1, <1>2, <2>1, EnsureSwapKeeps
  <2> QED
    BY <2>2 DEF Kept
<1>3. CASE r.device # "ok"
  <2>1. o = To(r, "lost")
    BY <1>3 DEF EnsureReady
  <2> QED
    BY <1>1, <2>1, ToIs DEF Kept, SameCanvas, SamePicture
<1> QED
  BY <1>2, <1>3

LEMMA PresentKeeps ==
  ASSUME NEW r, Sound(r), r.device # "none", NEW o \in PresentAndCommit(r)
  PROVE  Kept(o, r) /\ SamePicture(o.to, r)
<1>1. r \in Renderer /\ Base(r)
  BY DEF Sound, Base
<1>2. CASE o \in {To(r, "lost"), To(r, "ok")}
  BY <1>1, <1>2, ToIs DEF Kept, SameCanvas, SamePicture
<1>3. CASE o = Fault([r EXCEPT !.swap = NoSize], "again")
  <2>1. PICK s : s = [r EXCEPT !.swap = NoSize]
    OBVIOUS
  <2>2. Sound(s) /\ SameCanvas(s, r) /\ SamePicture(s, r)
    BY <1>1, <2>1, SetSwap
  <2>3. s \in Renderer
    BY <2>2 DEF Sound, Base
  <2> QED
    BY <1>3, <2>1, <2>2, <2>3, ToIs DEF Kept
<1>4. CASE o = Fault([r EXCEPT !.device = "removed"], "lost")
  <2>1. PICK s : s = [r EXCEPT !.device = "removed"]
    OBVIOUS
  <2>2. Sound(s) /\ SameCanvas(s, r) /\ SamePicture(s, r)
    BY <1>1, <2>1, LoseDevice
  <2>3. s \in Renderer
    BY <2>2 DEF Sound, Base
  <2> QED
    BY <1>4, <2>1, <2>2, <2>3, ToIs DEF Kept
<1> QED
  BY <1>2, <1>3, <1>4 DEF PresentAndCommit

\* A frame is drawn once the swap chain is there: all of its sizes are the
\* canvas's, and what was bound before only stays when it is the outline's.
LEMMA DrawnKeeps ==
  ASSUME NEW r, Sound(r), r.swap = r.canvas
  PROVE  Sound(Drawn(r)) /\ SameCanvas(Drawn(r), r) /\ SamePicture(Drawn(r), r)
         /\ Drawn(r).device = r.device
<1>1. r \in Renderer /\ Base(r)
  BY DEF Sound, Base
<1>2. PICK z : z = IF r.viewport = r.canvas THEN r
                   ELSE [r EXCEPT !.viewport = r.canvas, !.port = r.canvas]
  OBVIOUS
<1>3. /\ z \in Renderer /\ z.viewport = r.canvas /\ z.port = r.canvas
      /\ z.swap = r.swap /\ z.canvas = r.canvas /\ z.texture = r.texture /\ z.capture = r.capture
      /\ z.dirty = r.dirty /\ z.bound = r.bound /\ z.pixel = r.pixel
      /\ z.device = r.device /\ z.custom = r.custom
  <2>1. CASE r.viewport = r.canvas
    BY <1>1, <1>2, <2>1 DEF Base
  <2>2. CASE r.viewport # r.canvas
    <3>1. z = [r EXCEPT !.viewport = r.canvas, !.port = r.canvas]
      BY <1>2, <2>2
    <3>2. r.canvas \in Size
      BY <1>1, Nones DEF Renderer
    <3> QED
      BY <1>1, <3>1, <3>2 DEF Renderer
  <2> QED
    BY <2>1, <2>2
<1>4. PICK y : y = IF r.texture # NoTarget \/ r.dirty
                     THEN [z EXCEPT !.bound = r.pixel, !.dirty = FALSE] ELSE z
  OBVIOUS
<1>5. /\ y \in Renderer /\ y.viewport = r.canvas /\ y.port = r.canvas
      /\ y.swap = r.canvas /\ y.canvas = r.canvas /\ y.texture = r.texture /\ y.capture = r.capture
      /\ y.bound = r.pixel /\ y.pixel = r.pixel
      /\ y.device = r.device /\ y.custom = r.custom
  <2>1. CASE r.texture # NoTarget \/ r.dirty
    <3>1. y = [z EXCEPT !.bound = r.pixel, !.dirty = FALSE]
      BY <1>4, <2>1
    <3>2. r.pixel \in Shader
      BY <1>1 DEF Renderer
    <3> QED
      BY <1>3, <3>1, <3>2 DEF Renderer
  <2>2. CASE ~(r.texture # NoTarget \/ r.dirty)
    <3>1. y = z
      BY <1>4, <2>2
    <3>2. ~r.dirty
      BY <2>2
    <3>3. r.bound = r.pixel
      BY <3>2 DEF Sound
    <3> QED
      BY <1>3, <3>1, <3>3
  <2> QED
    BY <2>1, <2>2
<1>6. PICK f : f = [port |-> y.port, swap |-> y.swap, canvas |-> y.canvas,
                    bound |-> y.bound, pixel |-> y.pixel]
  OBVIOUS
<1>7. f \in Frame /\ Whole(f)
  <2>1. y.port \in Size /\ y.swap \in Size /\ y.canvas \in Size /\ y.bound \in Shader /\ y.pixel \in Shader
    BY <1>5, Nones DEF Renderer
  <2>2. f \in Frame
    BY <1>6, <2>1 DEF Frame
  <2>3. Whole(f)
    BY <1>5, <1>6 DEF Whole
  <2> QED
    BY <2>2, <2>3
<1>8. PICK s : s = [y EXCEPT !.frame = f]
  OBVIOUS
<1>9. /\ s \in Renderer /\ s.frame = f
      /\ s.viewport = y.viewport /\ s.port = y.port /\ s.swap = y.swap /\ s.canvas = y.canvas
      /\ s.texture = y.texture /\ s.capture = y.capture /\ s.bound = y.bound /\ s.pixel = y.pixel
      /\ s.device = y.device /\ s.custom = y.custom
  BY <1>5, <1>7, <1>8 DEF Renderer
<1>10. Drawn(r) = s
  <2>1. r.pixel = z.pixel /\ r.texture = z.texture /\ r.dirty = z.dirty
    BY <1>3
  <2> QED
    BY <1>2, <1>4, <1>6, <1>8 DEF Drawn
<1>11. Sound(s)
  <2>1. Base(s)
    BY <1>1, <1>5, <1>7, <1>9 DEF Base
  <2>2. s.bound = s.pixel
    BY <1>5, <1>9
  <2>3. s.device # "none" => s.pixel = (IF s.custom = NoShader THEN BuiltIn ELSE s.custom)
    BY <1>5, <1>9 DEF Sound
  <2> QED
    BY <2>1, <2>2, <2>3 DEF Sound
<1> QED
  BY <1>5, <1>9, <1>10, <1>11 DEF SameCanvas, SamePicture

ClearOnce(r) == Then(EnsureReady(r), PresentAndCommit)
DrawOnce(r)  == Then(EnsureReady(r), LAMBDA t : PresentAndCommit(Drawn(t)))

LEMMA ClearOnceKeeps ==
  ASSUME NEW r, Sound(r), NEW o \in ClearOnce(r)
  PROVE  Kept(o, r) /\ SamePicture(o.to, r)
<1>1. PICK a \in EnsureReady(r) :
        o \in IF a.status = "ok" THEN {[b EXCEPT !.cost = a.cost + @] : b \in PresentAndCommit(a.to)} ELSE {a}
  BY DEF ClearOnce, Then
<1>2. Kept(a, r) /\ SamePicture(a.to, r)
  BY EnsureReadyKeeps
<1>3. CASE a.status # "ok"
  BY <1>1, <1>2, <1>3
<1>4. CASE a.status = "ok"
  <2>1. PICK b \in PresentAndCommit(a.to) : o = [b EXCEPT !.cost = a.cost + @]
    BY <1>1, <1>4
  <2>2. a.to.device # "none"
    BY <1>4, EnsureReadyKeeps
  <2>3. Kept(b, a.to) /\ SamePicture(b.to, a.to)
    BY <1>2, <2>2, PresentKeeps DEF Kept
  <2>4. o \in Outcome /\ o.to = b.to
    BY <1>2, <2>1, <2>3, Costs DEF Kept, Outcome
  <2> QED
    BY <1>2, <2>3, <2>4 DEF Kept, SameCanvas, SamePicture
<1> QED
  BY <1>3, <1>4


LEMMA DrawOnceKeeps ==
  ASSUME NEW r, Sound(r), NEW o \in DrawOnce(r)
  PROVE  Kept(o, r) /\ SamePicture(o.to, r)
<1>1. PICK a \in EnsureReady(r) :
        o \in IF a.status = "ok"
                THEN {[b EXCEPT !.cost = a.cost + @] : b \in PresentAndCommit(Drawn(a.to))} ELSE {a}
  BY DEF DrawOnce, Then
<1>2. Kept(a, r) /\ SamePicture(a.to, r)
  BY EnsureReadyKeeps
<1>3. CASE a.status # "ok"
  BY <1>1, <1>2, <1>3
<1>4. CASE a.status = "ok"
  <2>1. PICK b \in PresentAndCommit(Drawn(a.to)) : o = [b EXCEPT !.cost = a.cost + @]
    BY <1>1, <1>4
  <2>2. a.to.device = "ok" /\ a.to.swap = a.to.canvas /\ Sound(a.to)
    BY <1>2, <1>4, EnsureReadyKeeps DEF Kept, SameCanvas
  <2>3. PICK d : d = Drawn(a.to)
    OBVIOUS
  <2>4. Sound(d) /\ SameCanvas(d, a.to) /\ SamePicture(d, a.to) /\ d.device = "ok"
    BY <2>2, <2>3, DrawnKeeps
  <2>5. Kept(b, d) /\ SamePicture(b.to, d)
    BY <2>1, <2>3, <2>4, PresentKeeps
  <2>6. o \in Outcome /\ o.to = b.to
    BY <1>2, <2>1, <2>5, Costs DEF Kept, Outcome
  <2> QED
    BY <1>2, <2>4, <2>5, <2>6 DEF Kept, SameCanvas, SamePicture
<1> QED
  BY <1>3, <1>4

\* What the second attempt ends in is what the call ends in.
AfterSecond(a, b) ==
  [b EXCEPT !.cost = a.cost + @, !.status = IF @ = "again" THEN "invalid" ELSE @]

LEMMA SecondAttempt ==
  ASSUME NEW a \in Outcome, NEW b \in Outcome
  PROVE  AfterSecond(a, b) \in Outcome /\ AfterSecond(a, b).to = b.to
<1>1. PICK k : k = IF b.status = "again" THEN "invalid" ELSE b.status
  OBVIOUS
<1>2. PICK n : n = a.cost + b.cost
  OBVIOUS
<1>3. k \in {"ok", "lost", "invalid", "again", "failed", "pending", "ready"} /\ n \in Nat
  BY <1>1, <1>2 DEF Outcome
<1>4. AfterSecond(a, b) = [b EXCEPT !.cost = n, !.status = k]
  BY <1>1, <1>2 DEF AfterSecond, Outcome
<1>5. [b EXCEPT !.cost = n, !.status = k] \in Outcome /\ [b EXCEPT !.cost = n, !.status = k].to = b.to
  BY <1>3 DEF Outcome
<1> QED
  BY <1>4, <1>5

LEMMA PresentClearKeeps ==
  ASSUME NEW r, Sound(r), NEW o \in PresentClear(r)
  PROVE  Kept(o, r) /\ SamePicture(o.to, r)
<1>1. PICK a \in ClearOnce(r) :
        o \in IF a.status # "again" THEN {a}
              ELSE {AfterSecond(a, b) : b \in ClearOnce(a.to)}
  BY DEF PresentClear, Attempts, ClearOnce, AfterSecond
<1>2. Kept(a, r) /\ SamePicture(a.to, r)
  BY ClearOnceKeeps
<1>3. CASE o = a
  BY <1>2, <1>3
<1>4. CASE o # a
  <2>1. PICK b \in ClearOnce(a.to) : o = AfterSecond(a, b)
    BY <1>1, <1>4
  <2>2. Kept(b, a.to) /\ SamePicture(b.to, a.to)
    BY <1>2, ClearOnceKeeps DEF Kept
  <2>3. o \in Outcome /\ o.to = b.to
    BY <1>2, <2>1, <2>2, SecondAttempt DEF Kept
  <2> QED
    BY <1>2, <2>2, <2>3 DEF Kept, SameCanvas, SamePicture
<1> QED
  BY <1>3, <1>4

LEMMA PresentDrawKeeps ==
  ASSUME NEW r, Sound(r), NEW o \in PresentDraw(r)
  PROVE  Kept(o, r) /\ SamePicture(o.to, r)
<1>1. PICK a \in DrawOnce(r) :
        o \in IF a.status # "again" THEN {a}
              ELSE {AfterSecond(a, b) : b \in DrawOnce(a.to)}
  BY DEF PresentDraw, Attempts, DrawOnce, AfterSecond
<1>2. Kept(a, r) /\ SamePicture(a.to, r)
  BY DrawOnceKeeps
<1>3. CASE o = a
  BY <1>2, <1>3
<1>4. CASE o # a
  <2>1. PICK b \in DrawOnce(a.to) : o = AfterSecond(a, b)
    BY <1>1, <1>4
  <2>2. Kept(b, a.to) /\ SamePicture(b.to, a.to)
    BY <1>2, DrawOnceKeeps DEF Kept
  <2>3. o \in Outcome /\ o.to = b.to
    BY <1>2, <2>1, <2>2, SecondAttempt DEF Kept
  <2> QED
    BY <1>2, <2>2, <2>3 DEF Kept, SameCanvas, SamePicture
<1> QED
  BY <1>3, <1>4

LEMMA UpdateConstantsKeeps ==
  ASSUME NEW r, Sound(r), NEW o \in UpdateConstants(r)
  PROVE  Kept(o, r) /\ SamePicture(o.to, r)
<1>1. r \in Renderer
  BY DEF Sound, Base
<1>2. o \in {To(r, "lost"), To(r, "ok"), Fault(r, "invalid")}
  BY DEF UpdateConstants
<1> QED
  BY <1>1, <1>2, ToIs DEF Kept, SameCanvas, SamePicture

\* A frame, drawn or not, leaves the picture and the capture as they were.
LEMMA RenderKeeps ==
  ASSUME NEW r, Sound(r), NEW o \in Render(r)
  PROVE  Kept(o, r) /\ SamePicture(o.to, r)
<1> DEFINE F == Then(EnsureReady(r), UpdateConstants)
<1>1. \A a \in F : Kept(a, r) /\ SamePicture(a.to, r)
  <2>1. SUFFICES ASSUME NEW a \in F PROVE Kept(a, r) /\ SamePicture(a.to, r)
    OBVIOUS
  <2>2. PICK e \in EnsureReady(r) :
          a \in IF e.status = "ok" THEN {[b EXCEPT !.cost = e.cost + @] : b \in UpdateConstants(e.to)} ELSE {e}
    BY DEF Then
  <2>3. Kept(e, r) /\ SamePicture(e.to, r)
    BY EnsureReadyKeeps
  <2>4. CASE e.status # "ok"
    BY <2>2, <2>3, <2>4
  <2>5. CASE e.status = "ok"
    <3>1. PICK b \in UpdateConstants(e.to) : a = [b EXCEPT !.cost = e.cost + @]
      BY <2>2, <2>5
    <3>2. Kept(b, e.to) /\ SamePicture(b.to, e.to)
      BY <2>3, UpdateConstantsKeeps DEF Kept
    <3>3. a \in Outcome /\ a.to = b.to
      BY <2>3, <3>1, <3>2, Costs DEF Kept, Outcome
    <3> QED
      BY <2>3, <3>2, <3>3 DEF Kept, SameCanvas, SamePicture
  <2> QED
    BY <2>4, <2>5
<1>2. Render(r) = Then(F, PresentDraw)
  BY DEF Render
<1> HIDE DEF F
<1>3. PICK a \in F :
        o \in IF a.status = "ok" THEN {[b EXCEPT !.cost = a.cost + @] : b \in PresentDraw(a.to)} ELSE {a}
  BY <1>2 DEF Then
<1>4. Kept(a, r) /\ SamePicture(a.to, r)
  BY <1>1
<1>5. CASE a.status # "ok"
  BY <1>3, <1>4, <1>5
<1>6. CASE a.status = "ok"
  <2>1. PICK b \in PresentDraw(a.to) : o = [b EXCEPT !.cost = a.cost + @]
    BY <1>3, <1>6
  <2>2. Kept(b, a.to) /\ SamePicture(b.to, a.to)
    BY <1>4, PresentDrawKeeps DEF Kept
  <2>3. o \in Outcome /\ o.to = b.to
    BY <1>4, <2>1, <2>2, Costs DEF Kept, Outcome
  <2> QED
    BY <1>4, <2>2, <2>3 DEF Kept, SameCanvas, SamePicture
<1> QED
  BY <1>5, <1>6

\* The device and the outline are made: what was bound is not the outline yet.
LEMMA CreateKeeps ==
  ASSUME NEW r, Sound(r), NEW o \in Create(r)
  PROVE  /\ o \in Outcome /\ Base(o.to) /\ SameCanvas(o.to, r)
         /\ o.status # "ok" => Sound(o.to)
         /\ o.status = "ok" => /\ o.to.device = "ok" /\ o.to.pixel = BuiltIn
                               /\ o.to.custom = r.custom /\ o.to.dirty = r.dirty
<1>1. r \in Renderer
  BY DEF Sound, Base
<1>2. CASE o = To([r EXCEPT !.device = "ok", !.pixel = BuiltIn], "ok")
  <2>1. PICK s : s = [r EXCEPT !.device = "ok", !.pixel = BuiltIn]
    OBVIOUS
  <2>2. /\ s \in Renderer /\ s.device = "ok" /\ s.pixel = BuiltIn /\ s.custom = r.custom
        /\ s.viewport = r.viewport /\ s.port = r.port /\ s.swap = r.swap /\ s.canvas = r.canvas
        /\ s.frame = r.frame /\ s.dirty = r.dirty
    BY <1>1, <2>1, Nones DEF Renderer
  <2>3. Base(s)
    BY <2>2 DEF Sound, Base
  <2>4. o = To(s, "ok")
    BY <1>2, <2>1
  <2>5. o \in Outcome /\ o.to = s /\ o.status = "ok"
    BY <2>2, <2>4, ToIs
  <2> QED
    BY <2>2, <2>3, <2>5 DEF SameCanvas
<1>3. CASE o = Fault(Destroyed(r), "failed")
  <2>1. PICK s : s = Destroyed(r)
    OBVIOUS
  <2>2. Sound(s) /\ SameCanvas(s, r)
    BY <2>1, DestroyedKeeps
  <2>3. s \in Renderer /\ Base(s)
    BY <2>2 DEF Sound, Base
  <2>4. o = Fault(s, "failed")
    BY <1>3, <2>1
  <2>5. o \in Outcome /\ o.to = s /\ o.status = "failed"
    BY <2>3, <2>4, ToIs
  <2> QED
    BY <2>2, <2>3, <2>5
<1> QED
  BY <1>2, <1>3 DEF Create

\* The shader in use after the device was made: dirty, so it will be bound.
LEMMA Restored ==
  ASSUME NEW r, Base(r), r.pixel = BuiltIn, NEW s,
         \/ r.custom = NoShader /\ s = [r EXCEPT !.dirty = TRUE]
         \/ r.custom # NoShader /\ s = [r EXCEPT !.dirty = TRUE, !.pixel = r.custom]
         \/ s = [r EXCEPT !.dirty = TRUE, !.custom = NoShader]
  PROVE  Sound(s) /\ SameCanvas(s, r) /\ s.device = r.device
<1>1. r \in Renderer
  BY DEF Base
<1>2. /\ s \in Renderer /\ s.dirty = TRUE /\ s.device = r.device
      /\ s.viewport = r.viewport /\ s.port = r.port /\ s.swap = r.swap /\ s.canvas = r.canvas
      /\ s.frame = r.frame /\ s.pixel = (IF s.custom = NoShader THEN BuiltIn ELSE s.custom)
  <2>1. CASE r.custom = NoShader /\ s = [r EXCEPT !.dirty = TRUE]
    BY <1>1, <2>1 DEF Renderer
  <2>2. CASE r.custom # NoShader /\ s = [r EXCEPT !.dirty = TRUE, !.pixel = r.custom]
    <3>1. r.custom \in Shader
      BY <1>1, Nones DEF Renderer
    <3> QED
      BY <1>1, <2>2, <3>1 DEF Renderer
  <2>3. CASE s = [r EXCEPT !.dirty = TRUE, !.custom = NoShader]
    BY <1>1, <2>3 DEF Renderer
  <2> QED
    BY <2>1, <2>2, <2>3
<1> QED
  BY <1>2 DEF Base, Sound, SameCanvas

LEMMA ResetKeeps ==
  ASSUME NEW r, Sound(r), NEW o \in ResetDevice(r)
  PROVE  Kept(o, r)
<1> DEFINE Restore(s) ==
             IF s.custom = NoShader THEN {To([s EXCEPT !.dirty = TRUE], "ok")}
             ELSE {To([s EXCEPT !.dirty = TRUE, !.pixel = s.custom], "ok"),
                   Fault([s EXCEPT !.dirty = TRUE, !.custom = NoShader], "ok")}
           C == Create(ReleaseAll(r))
           F == Then(C, Restore)
<1>1. ResetDevice(r) = Then(F, EnsureSwap)
  BY DEF ResetDevice
<1>2. \A a \in C : /\ a \in Outcome /\ Base(a.to) /\ SameCanvas(a.to, r)
                   /\ a.status # "ok" => Sound(a.to)
                   /\ a.status = "ok" => a.to.device = "ok" /\ a.to.pixel = BuiltIn
  <2>1. PICK s : s = ReleaseAll(r)
    OBVIOUS
  <2>2. Sound(s) /\ SameCanvas(s, r)
    BY <2>1, ReleasedKeeps
  <2> QED
    BY <2>1, <2>2, CreateKeeps DEF SameCanvas
<1> HIDE DEF C
<1>3. \A a \in F : Kept(a, r) /\ (a.status = "ok" => a.to.device = "ok")
  <2>1. SUFFICES ASSUME NEW a \in F PROVE Kept(a, r) /\ (a.status = "ok" => a.to.device = "ok")
    OBVIOUS
  <2>2. PICK e \in C :
          a \in IF e.status = "ok" THEN {[b EXCEPT !.cost = e.cost + @] : b \in Restore(e.to)} ELSE {e}
    BY DEF Then
  <2>3. CASE e.status # "ok"
    BY <1>2, <2>2, <2>3 DEF Kept
  <2>4. CASE e.status = "ok"
    <3>1. PICK b \in Restore(e.to) : a = [b EXCEPT !.cost = e.cost + @]
      BY <2>2, <2>4
    <3>2. PICK s : /\ b = To(s, "ok") \/ b = Fault(s, "ok")
                   /\ \/ e.to.custom = NoShader /\ s = [e.to EXCEPT !.dirty = TRUE]
                      \/ e.to.custom # NoShader /\ s = [e.to EXCEPT !.dirty = TRUE, !.pixel = e.to.custom]
                      \/ s = [e.to EXCEPT !.dirty = TRUE, !.custom = NoShader]
      BY <3>1
    <3>3. Sound(s) /\ SameCanvas(s, e.to) /\ s.device = "ok"
      BY <1>2, <2>4, <3>2, Restored
    <3>4. b \in Outcome /\ b.to = s
      <4>1. s \in Renderer
        BY <3>3 DEF Sound, Base
      <4>2. To(s, "ok") \in Outcome /\ To(s, "ok").to = s /\ Fault(s, "ok") \in Outcome /\ Fault(s, "ok").to = s
        BY <4>1, ToIs
      <4>3. b = To(s, "ok") \/ b = Fault(s, "ok")
        BY <3>2
      <4> QED
        BY <4>2, <4>3
    <3>5. a \in Outcome /\ a.to = s
      BY <1>2, <3>1, <3>4, Costs DEF Outcome
    <3> QED
      BY <1>2, <3>3, <3>5 DEF Kept, SameCanvas
  <2> QED
    BY <2>3, <2>4
<1> HIDE DEF F
<1>4. PICK a \in F :
        o \in IF a.status = "ok" THEN {[b EXCEPT !.cost = a.cost + @] : b \in EnsureSwap(a.to)} ELSE {a}
  BY <1>1 DEF Then
<1>5. Kept(a, r) /\ (a.status = "ok" => a.to.device = "ok")
  BY <1>3
<1>6. CASE a.status # "ok"
  BY <1>4, <1>5, <1>6
<1>7. CASE a.status = "ok"
  <2>1. PICK b \in EnsureSwap(a.to) : o = [b EXCEPT !.cost = a.cost + @]
    BY <1>4, <1>7
  <2>2. b \in Outcome /\ Sound(b.to) /\ SameCanvas(b.to, a.to)
    BY <1>5, <1>7, EnsureSwapKeeps DEF Kept, Sound
  <2>3. o \in Outcome /\ o.to = b.to
    BY <1>5, <2>1, <2>2, Costs DEF Kept, Outcome
  <2> QED
    BY <1>5, <2>2, <2>3 DEF Kept, SameCanvas
<1> QED
  BY <1>6, <1>7


LEMMA Retarget ==
  ASSUME NEW o \in Outcome, NEW s \in Renderer, NEW p, p = [o EXCEPT !.to = s]
  PROVE  p \in Outcome /\ p.to = s /\ p.status = o.status /\ p.cost = o.cost
BY DEF Outcome

LEMMA RecoveredKeeps ==
  ASSUME NEW r, NEW o, Kept(o, r), NEW b \in Recovered(o)
  PROVE  Kept(b, r)
<1>1. CASE o.status = "ok"
  BY <1>1 DEF Recovered
<1>2. CASE o.status # "ok"
  <2>1. PICK c \in ResetDevice(o.to) : b = [c EXCEPT !.cost = o.cost + @]
    BY <1>2 DEF Recovered
  <2>2. Kept(c, o.to)
    BY <2>1, ResetKeeps DEF Kept
  <2>3. b \in Outcome /\ b.to = c.to
    BY <2>1, <2>2, Costs DEF Kept, Outcome
  <2> QED
    BY <2>2, <2>3 DEF Kept, SameCanvas
<1> QED
  BY <1>1, <1>2

\* Before the first device there is no custom shader, and nothing is bound.
LEMMA InitRendererKeeps ==
  ASSUME NEW r, Sound(r), r.custom = NoShader, r.dirty, NEW o \in InitRenderer(r)
  PROVE  Kept(o, r)
<1> DEFINE F == Then(Create(r), EnsureSwap)
<1>1. \A a \in F : Kept(a, r)
  <2>1. SUFFICES ASSUME NEW a \in F PROVE Kept(a, r)
    OBVIOUS
  <2>2. PICK e \in Create(r) :
          a \in IF e.status = "ok" THEN {[b EXCEPT !.cost = e.cost + @] : b \in EnsureSwap(e.to)} ELSE {e}
    BY DEF Then
  <2>3. /\ e \in Outcome /\ Base(e.to) /\ SameCanvas(e.to, r)
        /\ e.status # "ok" => Sound(e.to)
        /\ e.status = "ok" => /\ e.to.device = "ok" /\ e.to.pixel = BuiltIn
                              /\ e.to.custom = r.custom /\ e.to.dirty = r.dirty
    BY CreateKeeps
  <2>4. CASE e.status # "ok"
    BY <2>2, <2>3, <2>4 DEF Kept
  <2>5. CASE e.status = "ok"
    <3>1. PICK b \in EnsureSwap(e.to) : a = [b EXCEPT !.cost = e.cost + @]
      BY <2>2, <2>5
    <3>2. Sound(e.to) /\ e.to.device # "none"
      BY <2>3, <2>5 DEF Sound
    <3>3. b \in Outcome /\ Sound(b.to) /\ SameCanvas(b.to, e.to)
      BY <2>3, <3>2, EnsureSwapKeeps
    <3>4. a \in Outcome /\ a.to = b.to
      BY <2>3, <3>1, <3>3, Costs DEF Outcome
    <3> QED
      BY <2>3, <3>3, <3>4 DEF Kept, SameCanvas
  <2> QED
    BY <2>4, <2>5
<1>2. PICK a \in {Fault(r, "failed")} \union F :
        o = [a EXCEPT !.to = IF a.status = "ok" THEN @ ELSE Destroyed(@)]
  BY DEF InitRenderer
<1>3. Kept(a, r)
  <2>1. CASE a \in F
    BY <1>1, <2>1
  <2>2. CASE a = Fault(r, "failed")
    <3>1. r \in Renderer
      BY DEF Sound, Base
    <3> QED
      BY <2>2, <3>1, ToIs DEF Kept, SameCanvas
  <2> QED
    BY <1>2, <2>1, <2>2
<1> HIDE DEF F
<1>4. PICK s : s = IF a.status = "ok" THEN a.to ELSE Destroyed(a.to)
  OBVIOUS
<1>5. Sound(s) /\ SameCanvas(s, r)
  BY <1>3, <1>4, DestroyedKeeps DEF Kept, SameCanvas
<1>6. o = [a EXCEPT !.to = s]
  BY <1>2, <1>3, <1>4 DEF Kept, Outcome
<1>7. o \in Outcome /\ o.to = s
  BY <1>3, <1>5, <1>6, Retarget DEF Kept, Sound, Base
<1> QED
  BY <1>5, <1>7 DEF Kept

LEMMA UpdateShaderKeeps ==
  ASSUME NEW r, Sound(r), NEW shader \in Customs \union {BuiltIn}, NEW generation \in Nat,
         NEW o \in UpdateShader(r, shader, generation)
  PROVE  Kept(o, r) /\ SamePicture(o.to, r)
<1>1. r \in Renderer /\ Base(r)
  BY DEF Sound, Base
<1>2. PICK s : s = [r EXCEPT !.pixel = shader, !.generation = generation, !.dirty = TRUE,
                             !.custom = IF shader = BuiltIn THEN NoShader ELSE shader]
  OBVIOUS
<1>3. PICK k : k = IF shader = BuiltIn THEN NoShader ELSE shader
  OBVIOUS
<1>4. /\ k \in Customs \union {NoShader} /\ shader \in Shader
      /\ shader = IF k = NoShader THEN BuiltIn ELSE k
  BY <1>3, Nones DEF Shader
<1>5. s = [r EXCEPT !.pixel = shader, !.generation = generation, !.dirty = TRUE, !.custom = k]
  BY <1>2, <1>3
<1>6. /\ s \in Renderer /\ s.pixel = shader /\ s.custom = k /\ s.dirty = TRUE
      /\ s.viewport = r.viewport /\ s.port = r.port /\ s.swap = r.swap /\ s.canvas = r.canvas
      /\ s.frame = r.frame /\ s.texture = r.texture /\ s.capture = r.capture
  BY <1>1, <1>4, <1>5 DEF Renderer
<1>7. Sound(s) /\ SameCanvas(s, r) /\ SamePicture(s, r)
  BY <1>1, <1>4, <1>6 DEF Base, Sound, SameCanvas, SamePicture
<1>8. o \in {To(r, "ok"), Fault(r, "ok"), To(s, "ok")}
  BY <1>2 DEF UpdateShader
<1>9. CASE o \in {To(r, "ok"), Fault(r, "ok")}
  BY <1>1, <1>9, ToIs DEF Kept, SameCanvas, SamePicture
<1>10. CASE o = To(s, "ok")
  BY <1>6, <1>7, <1>10, ToIs DEF Kept
<1> QED
  BY <1>8, <1>9, <1>10

LEMMA UpdateCanvasKeeps ==
  ASSUME NEW r, Sound(r), NEW bounds \in Sizes
  PROVE  /\ Sound(UpdateCanvas(r, bounds)) /\ SamePicture(UpdateCanvas(r, bounds), r)
         /\ UpdateCanvas(r, bounds).canvas = bounds
<1>1. CASE r.canvas = bounds
  BY <1>1 DEF UpdateCanvas, SamePicture
<1>2. CASE r.canvas # bounds
  <2>1. PICK s : s = [r EXCEPT !.canvas = bounds, !.swap = NoSize]
    OBVIOUS
  <2>2. UpdateCanvas(r, bounds) = s
    BY <1>2, <2>1 DEF UpdateCanvas
  <2>3. r \in Renderer
    BY DEF Sound, Base
  <2>4. /\ s \in Renderer /\ s.canvas = bounds /\ s.swap = NoSize
        /\ s.texture = r.texture /\ s.capture = r.capture
        /\ s.viewport = r.viewport /\ s.port = r.port /\ s.frame = r.frame
        /\ s.dirty = r.dirty /\ s.bound = r.bound /\ s.pixel = r.pixel
        /\ s.device = r.device /\ s.custom = r.custom
    BY <2>1, <2>3, Nones DEF Renderer
  <2> QED
    BY <2>2, <2>4 DEF Base, Sound, SamePicture
<1> QED
  BY <1>1, <1>2

\* The display message reaches the window and the renderer in one pass.
LEMMA PumpedKeeps ==
  ASSUME SurroundingsOK, RendererInv
  PROVE  /\ Sound(PumpedRenderer) /\ SamePicture(PumpedRenderer, renderer)
         /\ PumpedRenderer.canvas = PumpedWindow.bounds
         /\ PumpedWindow \in [bounds : Sizes, visible : BOOLEAN]
         /\ PumpedWindow.visible = window.visible
<1>0. Sound(renderer) /\ renderer.canvas = window.bounds /\ desktop.size \in Sizes
  BY DEF RendererInv, SurroundingsOK
<1>1. CASE desktop.message
  <2>1. PICK u : u = UpdateCanvas(renderer, desktop.size)
    OBVIOUS
  <2>2. Sound(u) /\ SamePicture(u, renderer) /\ u.canvas = desktop.size
    BY <1>0, <2>1, UpdateCanvasKeeps
  <2>3. PICK s : s = [u EXCEPT !.swap = NoSize]
    OBVIOUS
  <2>4. Sound(s) /\ SamePicture(s, u) /\ s.canvas = u.canvas
    BY <2>2, <2>3, SetSwap DEF Sound, SameCanvas
  <2>5. PumpedRenderer = s
    BY <1>1, <2>1, <2>3 DEF PumpedRenderer
  <2>6. /\ PumpedWindow = [window EXCEPT !.bounds = desktop.size]
    BY <1>1 DEF PumpedWindow
  <2>7. /\ PumpedWindow \in [bounds : Sizes, visible : BOOLEAN]
        /\ PumpedWindow.bounds = desktop.size /\ PumpedWindow.visible = window.visible
    BY <1>0, <2>6 DEF SurroundingsOK
  <2> QED
    BY <2>2, <2>4, <2>5, <2>7 DEF SamePicture
<1>2. CASE ~desktop.message
  <2>1. PumpedRenderer = renderer
    BY <1>2 DEF PumpedRenderer
  <2>2. PumpedWindow = window
    BY <1>2 DEF PumpedWindow, SurroundingsOK
  <2> QED
    BY <1>0, <2>1, <2>2 DEF SamePicture, SurroundingsOK
<1> QED
  BY <1>1, <1>2


-------------------------------------------------------------------------------
\* The capture.  While it is pending it is of the window it was begun for, and
\* a frame taken from it is that window's.

Captures(o, r, t) ==
  /\ Kept(o, r)
  /\ o.status = "pending" => o.to.capture.target = t
  /\ o.status = "ready" => o.to.texture = t

LEMMA CaptureFails ==
  ASSUME NEW r, Sound(r), NEW t, NEW o \in {Failed(r), To(Cancelled(r), "failed")}
  PROVE  Captures(o, r, t)
<1>1. PICK s : s = Cancelled(r)
  OBVIOUS
<1>2. Sound(s) /\ SameCanvas(s, r)
  BY <1>1, CancelledKeeps
<1>3. s \in Renderer
  BY <1>2 DEF Sound, Base
<1>4. o \in {Fault(s, "failed"), To(s, "failed")}
  BY <1>1 DEF Failed
<1>5. o \in Outcome /\ o.to = s /\ o.status = "failed"
  BY <1>3, <1>4, ToIs
<1> QED
  BY <1>2, <1>5 DEF Captures, Kept

LEMMA CaptureReady ==
  ASSUME NEW r, Sound(r), NEW o, o = To([Cancelled(r) EXCEPT !.texture = r.capture.target], "ready")
  PROVE  Captures(o, r, r.capture.target)
<1>1. PICK c : c = Cancelled(r)
  OBVIOUS
<1>2. Sound(c) /\ SameCanvas(c, r)
  BY <1>1, CancelledKeeps
<1>3. r.capture.target \in Target
  BY DEF Sound, Base, Renderer, Capture
<1>4. PICK t \in Target : t = r.capture.target
  BY <1>3
<1>5. PICK s : s = [c EXCEPT !.texture = t]
  OBVIOUS
<1>6. Sound(s) /\ SameCanvas(s, c) /\ s.texture = t
  BY <1>2, <1>5, SetTexture
<1>7. s \in Renderer
  BY <1>6 DEF Sound, Base
<1>8. o = To(s, "ready")
  BY <1>1, <1>4, <1>5
<1>9. o \in Outcome /\ o.to = s /\ o.status = "ready"
  BY <1>7, <1>8, ToIs
<1> QED
  BY <1>2, <1>4, <1>6, <1>9 DEF Captures, Kept, SameCanvas

LEMMA CaptureWaits ==
  ASSUME NEW r, Sound(r), NEW o, o = To(r, "pending")
  PROVE  Captures(o, r, r.capture.target)
<1>1. r \in Renderer
  BY DEF Sound, Base
<1>2. o \in Outcome /\ o.to = r /\ o.status = "pending"
  BY <1>1, ToIs
<1> QED
  BY <1>2 DEF Captures, Kept, SameCanvas

LEMMA StartSessionKeeps ==
  ASSUME NEW r, Sound(r), NEW o \in StartSession(r)
  PROVE  Captures(o, r, r.capture.target)
<1>1. CASE o = To([r EXCEPT !.capture.phase = "frame"], "pending")
  <2>1. r.capture \in Capture
    BY DEF Sound, Base, Renderer
  <2>2. PICK c : c = [r.capture EXCEPT !.phase = "frame"]
    OBVIOUS
  <2>3. c \in Capture /\ c.target = r.capture.target
    BY <2>1, <2>2 DEF Capture
  <2>4. PICK s : s = [r EXCEPT !.capture = c]
    OBVIOUS
  <2>5. Sound(s) /\ SameCanvas(s, r) /\ s.capture = c
    BY <2>3, <2>4, SetCaptureKeeps
  <2>6. o = To(s, "pending")
    BY <1>1, <2>2, <2>4
  <2>7. Captures(o, s, s.capture.target)
    BY <2>5, <2>6, CaptureWaits
  <2> QED
    BY <2>3, <2>5, <2>7 DEF Captures, Kept, SameCanvas
<1>2. CASE o = Failed(r)
  BY <1>2, CaptureFails
<1>3. CASE o = To([Cancelled(r) EXCEPT !.texture = r.capture.target], "ready")
  BY <1>3, CaptureReady
<1> QED
  BY <1>1, <1>2, <1>3 DEF StartSession

LEMMA AskPermissionKeeps ==
  ASSUME NEW r, Sound(r), NEW o \in AskPermission(r)
  PROVE  Captures(o, r, r.capture.target)
<1>0. r.capture \in Capture
  BY DEF Sound, Base, Renderer
<1>1. CASE r.capture.granted
  BY <1>1, StartSessionKeeps DEF AskPermission
<1>2. CASE ~r.capture.granted /\ r.capture.operation = "started"
  <2>1. o = To(r, "pending")
    BY <1>2 DEF AskPermission
  <2> QED
    BY <2>1, CaptureWaits
<1>3. CASE ~r.capture.granted /\ r.capture.operation = "allowed"
  <2>1. o \in StartSession([r EXCEPT !.capture.operation = "none", !.capture.granted = TRUE])
    BY <1>3 DEF AskPermission
  <2>2. PICK c : c = [r.capture EXCEPT !.operation = "none", !.granted = TRUE]
    OBVIOUS
  <2>3. c \in Capture /\ c.target = r.capture.target
    BY <1>0, <2>2 DEF Capture
  <2>4. PICK s : s = [r EXCEPT !.capture = c]
    OBVIOUS
  <2>5. Sound(s) /\ SameCanvas(s, r) /\ s.capture = c
    BY <2>3, <2>4, SetCaptureKeeps
  <2>6. [r EXCEPT !.capture.operation = "none", !.capture.granted = TRUE] = s
    BY <2>2, <2>4 DEF Sound, Base, Renderer
  <2>7. Captures(o, s, s.capture.target)
    BY <2>1, <2>5, <2>6, StartSessionKeeps
  <2> QED
    BY <2>3, <2>5, <2>7 DEF Captures, Kept, SameCanvas
<1>4. CASE ~r.capture.granted /\ r.capture.operation = "denied"
  <2>1. o = To([Cancelled(r) EXCEPT !.capture.operation = "none"], "failed")
    BY <1>4 DEF AskPermission
  <2>2. PICK x : x = Cancelled(r)
    OBVIOUS
  <2>3. Sound(x) /\ SameCanvas(x, r)
    BY <2>2, CancelledKeeps
  <2>4. PICK c : c = [x.capture EXCEPT !.operation = "none"]
    OBVIOUS
  <2>5. c \in Capture
    BY <2>3, <2>4 DEF Sound, Base, Renderer, Capture
  <2>6. PICK s : s = [x EXCEPT !.capture = c]
    OBVIOUS
  <2>7. Sound(s) /\ SameCanvas(s, x)
    BY <2>3, <2>5, <2>6, SetCaptureKeeps
  <2>8. s \in Renderer
    BY <2>7 DEF Sound, Base
  <2>9. o = To(s, "failed")
    BY <2>1, <2>2, <2>4, <2>6
  <2>10. o \in Outcome /\ o.to = s /\ o.status = "failed"
    BY <2>8, <2>9, ToIs
  <2> QED
    BY <2>3, <2>7, <2>10 DEF Captures, Kept, SameCanvas
<1>5. CASE ~r.capture.granted /\ r.capture.operation \notin {"started", "allowed", "denied"}
  <2>1. o = To(Cancelled(r), "failed")
    BY <1>5 DEF AskPermission
  <2> QED
    BY <2>1, CaptureFails
<1> QED
  BY <1>1, <1>2, <1>3, <1>4, <1>5

LEMMA UpdateCaptureKeeps ==
  ASSUME NEW r, Sound(r), NEW o \in UpdateCapture(r)
  PROVE  Captures(o, r, r.capture.target)
<1>1. CASE r.capture.phase = "permission"
  BY <1>1, AskPermissionKeeps DEF UpdateCapture
<1>2. CASE r.capture.phase = "frame"
  <2>1. o \in TakeFrame(r)
    BY <1>2 DEF UpdateCapture
  <2>2. CASE o \in {Failed(r), To(Cancelled(r), "failed")}
    BY <2>2, CaptureFails
  <2>3. CASE o = To([Cancelled(r) EXCEPT !.texture = r.capture.target], "ready")
    BY <2>3, CaptureReady
  <2>4. CASE o = To(r, "pending")
    BY <2>4, CaptureWaits
  <2> QED
    BY <2>1, <2>2, <2>3, <2>4 DEF TakeFrame
<1>3. CASE r.capture.phase \notin {"permission", "frame"}
  <2>1. o = To(r, "failed")
    BY <1>3 DEF UpdateCapture
  <2>2. r \in Renderer
    BY DEF Sound, Base
  <2>3. o \in Outcome /\ o.to = r /\ o.status = "failed"
    BY <2>1, <2>2, ToIs
  <2> QED
    BY <2>3 DEF Captures, Kept, SameCanvas
<1> QED
  BY <1>1, <1>2, <1>3

\* Begin keeps only the status of a frame that is there at once.
LEMMA BeginCaptureKeeps ==
  ASSUME NEW r, Sound(r), NEW t \in Target, NEW o \in BeginCapture(r, t)
  PROVE  Kept(o, r) /\ (o.status = "pending" => o.to.capture.target = t)
<1>1. PICK x : x = ClearSnapshot(r)
  OBVIOUS
<1>2. Sound(x) /\ SameCanvas(x, r)
  BY <1>1, ClearedKeeps
<1>3. x \in Renderer /\ x.capture \in Capture
  BY <1>2 DEF Sound, Base, Renderer
<1>4. PICK c : c = [x.capture EXCEPT !.phase = "permission", !.target = t]
  OBVIOUS
<1>5. c \in Capture /\ c.target = t
  BY <1>3, <1>4 DEF Capture
<1>6. PICK a : a = [x EXCEPT !.capture = c]
  OBVIOUS
<1>7. Sound(a) /\ SameCanvas(a, r) /\ a.capture = c
  BY <1>2, <1>5, <1>6, SetCaptureKeeps DEF SameCanvas
<1>8. PICK d : d = [c EXCEPT !.requested = TRUE, !.operation = "started"]
  OBVIOUS
<1>9. d \in Capture /\ d.target = t
  BY <1>5, <1>8 DEF Capture
<1>10. PICK b : b = [a EXCEPT !.capture = d]
  OBVIOUS
<1>11. Sound(b) /\ SameCanvas(b, r) /\ b.capture = d
  BY <1>7, <1>9, <1>10, SetCaptureKeeps DEF SameCanvas
<1>12. [x EXCEPT !.capture.phase = "permission", !.capture.target = t] = a
  BY <1>3, <1>4, <1>6 DEF Renderer
<1>13. [a EXCEPT !.capture.requested = TRUE, !.capture.operation = "started"] = b
  BY <1>7, <1>8, <1>10 DEF Sound, Base, Renderer
<1>14. \/ o = Failed(x)
       \/ \E e \in StartSession(a) : o = [e EXCEPT !.to.texture = NoTarget]
       \/ o = To(b, "pending") \/ o = To(a, "pending") \/ o = To(x, "failed")
  BY <1>1, <1>12, <1>13 DEF BeginCapture
<1>15. CASE o = Failed(x)
  <2>1. Captures(o, x, t)
    BY <1>2, <1>15, CaptureFails
  <2> QED
    BY <1>2, <2>1 DEF Captures, Kept, SameCanvas
<1>16. CASE \E e \in StartSession(a) : o = [e EXCEPT !.to.texture = NoTarget]
  <2>1. PICK e \in StartSession(a) : o = [e EXCEPT !.to.texture = NoTarget]
    BY <1>16
  <2>2. Captures(e, a, t)
    BY <1>5, <1>7, <2>1, StartSessionKeeps
  <2>3. e \in Outcome /\ Sound(e.to) /\ e.to \in Renderer
    BY <2>2 DEF Captures, Kept, Sound, Base
  <2>4. PICK s : s = [e.to EXCEPT !.texture = NoTarget]
    OBVIOUS
  <2>5. Sound(s) /\ SameCanvas(s, e.to) /\ s.capture = e.to.capture
    BY <2>3, <2>4, Nones, SetTexture
  <2>6. o = [e EXCEPT !.to = s]
    BY <2>1, <2>3, <2>4 DEF Outcome
  <2>7. s \in Renderer
    BY <2>5 DEF Sound, Base
  <2>8. o \in Outcome /\ o.to = s /\ o.status = e.status
    BY <2>3, <2>6, <2>7, Retarget
  <2> QED
    BY <1>7, <2>2, <2>5, <2>8 DEF Captures, Kept, SameCanvas
<1>17. CASE o = To(b, "pending")
  <2>1. Captures(o, b, b.capture.target)
    BY <1>11, <1>17, CaptureWaits
  <2> QED
    BY <1>9, <1>11, <2>1 DEF Captures, Kept, SameCanvas
<1>18. CASE o = To(a, "pending")
  <2>1. Captures(o, a, a.capture.target)
    BY <1>7, <1>18, CaptureWaits
  <2> QED
    BY <1>5, <1>7, <2>1 DEF Captures, Kept, SameCanvas
<1>19. CASE o = To(x, "failed")
  <2>1. o \in Outcome /\ o.to = x /\ o.status = "failed"
    BY <1>3, <1>19, ToIs
  <2> QED
    BY <1>2, <2>1 DEF Kept
<1> QED
  BY <1>14, <1>15, <1>16, <1>17, <1>18, <1>19


-------------------------------------------------------------------------------
\* The steps.

LEMMA InitIInv == Init => IInv
<1> SUFFICES ASSUME Init PROVE IInv
  OBVIOUS
<1>1. desktop.size \in Sizes /\ desktop.message = FALSE
  BY DEF Init
<1>2. SurroundingsOK
  BY <1>1, Nones DEF Init, SurroundingsOK, NoPreview
<1>3. NoCapture \in Capture
  BY Nones DEF NoCapture, Capture
<1>4. NoFrame \in Frame
  BY Nones DEF NoFrame, Frame
<1>5. NoRenderer.frame = NoFrame
  BY DEF NoRenderer
<1>6. /\ renderer \in Renderer /\ renderer.canvas = desktop.size /\ renderer.frame = NoFrame
      /\ renderer.viewport = NoSize /\ renderer.port = NoSize /\ renderer.swap = NoSize
      /\ renderer.device = "none" /\ renderer.custom = NoShader /\ renderer.dirty = TRUE
  <2>1. renderer = [NoRenderer EXCEPT !.canvas = desktop.size]
    BY DEF Init
  <2>2. renderer = [device |-> "none", swap |-> NoSize, viewport |-> NoSize, port |-> NoSize,
                    canvas |-> desktop.size, pixel |-> NoShader, bound |-> NoShader,
                    custom |-> NoShader, generation |-> 0, dirty |-> TRUE,
                    texture |-> NoTarget, capture |-> NoCapture, frame |-> NoFrame]
    BY <2>1 DEF NoRenderer
  <2> QED
    BY <1>1, <1>3, <1>4, <2>2, Nones DEF Renderer
<1>7. RendererInv
  BY <1>6 DEF Init, RendererInv, Sound, Base, Whole
<1>8. HideInv
  BY DEF Init, HideInv
<1>9. ParkInv
  BY DEF Init, ParkInv, NoPreview
<1> QED
  BY <1>2, <1>7, <1>8, <1>9 DEF IInv

LEMMA TakesType ==
  ASSUME SurroundingsOK, NEW o \in Outcome, Takes(o)
  PROVE  renderer' = o.to /\ counts' \in [faults : Nat, changes : Nat, begins : Nat]
BY DEF Takes, SurroundingsOK, Outcome

LEMMA CountsType ==
  ASSUME counts \in [faults : Nat, changes : Nat, begins : Nat], NEW m \in Nat, NEW n \in Nat
  PROVE  [counts EXCEPT !.faults = @ + m + n, !.begins = @ + 1] \in [faults : Nat, changes : Nat, begins : Nat]
<1>1. PICK f \in Nat : f = counts.faults + m + n
  OBVIOUS
<1>2. PICK b \in Nat : b = counts.begins + 1
  OBVIOUS
<1>3. [counts EXCEPT !.faults = f, !.begins = b] \in [faults : Nat, changes : Nat, begins : Nat]
  OBVIOUS
<1> QED
  BY <1>1, <1>2, <1>3

LEMMA PrimeKeeps ==
  ASSUME IInv, Prime
  PROVE  IInv'
<1> USE DEF IInv
<1>1. PICK o \in Then(InitRenderer(renderer), LAMBDA r : UNION {Recovered(f) : f \in Render(r)}) :
        /\ Takes([o EXCEPT !.to = IF o.status = "ok" THEN @ ELSE Destroyed(@)])
        /\ pc' = IF o.status = "ok" THEN "wait" ELSE "dead"
  BY DEF Prime
<1>2. /\ pc = "init" /\ UNCHANGED <<desktop, window, preview, failed, atOnce>>
      /\ Sound(renderer) /\ renderer.custom = NoShader /\ renderer.dirty
  BY DEF Prime, RendererInv
<1>3. PICK e \in InitRenderer(renderer) :
        o \in IF e.status = "ok"
                THEN {[b EXCEPT !.cost = e.cost + @] : b \in UNION {Recovered(f) : f \in Render(e.to)}}
                ELSE {e}
  BY <1>1 DEF Then
<1>4. Kept(e, renderer)
  BY <1>2, InitRendererKeeps
<1>5. Kept(o, renderer)
  <2>1. CASE e.status # "ok"
    BY <1>3, <1>4, <2>1
  <2>2. CASE e.status = "ok"
    <3>1. PICK b \in UNION {Recovered(f) : f \in Render(e.to)} : o = [b EXCEPT !.cost = e.cost + @]
      BY <1>3, <2>2
    <3>2. PICK f \in Render(e.to) : b \in Recovered(f)
      OBVIOUS
    <3>3. Kept(f, e.to)
      BY <1>4, RenderKeeps DEF Kept
    <3>4. Kept(b, e.to)
      BY <3>2, <3>3, RecoveredKeeps
    <3>5. o \in Outcome /\ o.to = b.to
      BY <1>4, <3>1, <3>4, Costs DEF Kept, Outcome
    <3> QED
      BY <1>4, <3>4, <3>5 DEF Kept, SameCanvas
  <2> QED
    BY <2>1, <2>2
<1>6. PICK s : s = IF o.status = "ok" THEN o.to ELSE Destroyed(o.to)
  OBVIOUS
<1>7. Sound(s) /\ SameCanvas(s, renderer)
  BY <1>5, <1>6, DestroyedKeeps DEF Kept, SameCanvas
<1>8. PICK p : p = [o EXCEPT !.to = s]
  OBVIOUS
<1>9. Takes(p)
  BY <1>1, <1>5, <1>6, <1>8 DEF Kept, Outcome
<1>10. p \in Outcome /\ p.to = s
  BY <1>5, <1>7, <1>8, Retarget DEF Kept, Sound, Base
<1>11. renderer' = s /\ counts' \in [faults : Nat, changes : Nat, begins : Nat]
  BY <1>9, <1>10, TakesType
<1>12. pc' \in {"wait", "dead"}
  BY <1>1
<1>13. SurroundingsOK'
  BY <1>2, <1>11, <1>12 DEF SurroundingsOK
<1>14. RendererInv'
  BY <1>2, <1>7, <1>11, <1>12 DEF RendererInv, SameCanvas
<1>15. HideInv'
  BY <1>2, <1>12 DEF HideInv
<1>16. ParkInv'
  <2>1. preview' = NoPreview
    BY <1>2 DEF ParkInv
  <2> QED
    BY <2>1 DEF ParkInv, NoPreview
<1> QED
  BY <1>13, <1>14, <1>15, <1>16

LEMMA ApplyOutlineKeeps ==
  ASSUME IInv, NEW s \in Customs \union {BuiltIn}, NEW g \in 1..MaxUpdates, ApplyOutline(s, g)
  PROVE  IInv'
<1> USE DEF IInv
<1>1. PICK o \in UpdateShader(PumpedRenderer, s, g) : Takes(o)
  BY DEF ApplyOutline
<1>2. /\ pc \in {"wait", "drain"} /\ window' = PumpedWindow
      /\ desktop' = [desktop EXCEPT !.message = FALSE]
      /\ UNCHANGED <<pc, preview, failed, atOnce>>
  BY DEF ApplyOutline, Pumped
<1>3. PICK r : r = PumpedRenderer
  OBVIOUS
<1>4. /\ Sound(r) /\ SamePicture(r, renderer) /\ r.canvas = PumpedWindow.bounds
      /\ PumpedWindow \in [bounds : Sizes, visible : BOOLEAN]
      /\ PumpedWindow.visible = window.visible
  BY <1>3, PumpedKeeps
<1>5. MaxUpdates \in Nat
  BY DisplayAssumption DEF DisplayAssumption
<1>6. g \in Nat
  BY <1>5
<1>7. Kept(o, r) /\ SamePicture(o.to, r)
  BY <1>1, <1>3, <1>4, <1>6, UpdateShaderKeeps
<1>8. renderer' = o.to /\ counts' \in [faults : Nat, changes : Nat, begins : Nat]
  BY <1>1, <1>7, TakesType DEF Kept
<1>9. SurroundingsOK'
  BY <1>2, <1>4, <1>8 DEF SurroundingsOK
<1>10. RendererInv'
  BY <1>2, <1>4, <1>7, <1>8 DEF RendererInv, Kept, SameCanvas
<1>11. HideInv'
  BY <1>2, <1>4 DEF HideInv
<1>12. SamePicture(renderer', renderer)
  BY <1>4, <1>7, <1>8 DEF SamePicture
<1>13. ParkInv'
  BY <1>2, <1>12 DEF ParkInv, SamePicture
<1> QED
  BY <1>9, <1>10, <1>11, <1>13

LEMMA CompletedKeeps ==
  ASSUME NEW r, Sound(r)
  PROVE  Sound(Complete(r)) /\ SameCanvas(Complete(r), r)
BY ClearedKeeps DEF Complete

LEMMA BeginKeeps ==
  ASSUME IInv, NEW t \in Targets, NEW mode \in {"overlay", "thumbnail"}, Begin(t, mode)
  PROVE  IInv'
<1> USE DEF IInv
<1>1. PICK o \in PresentClear(UpdateCanvas(PumpedRenderer, desktop.size)) :
        \/ /\ o.status = "ok"
           /\ renderer' = o.to
           /\ window' = [bounds |-> desktop.size, visible |-> TRUE]
           /\ preview' = [NoPreview EXCEPT !.target = t, !.capturePending = (mode = "thumbnail")]
           /\ counts' = [counts EXCEPT !.faults = @ + o.cost, !.begins = @ + 1]
           /\ pc' = "drain"
        \/ \E b \in ResetDevice(o.to) :
             /\ renderer' = Complete(b.to)
             /\ window' = [PumpedWindow EXCEPT !.bounds = desktop.size]
             /\ counts' = [counts EXCEPT !.faults = @ + o.cost + b.cost, !.begins = @ + 1]
             /\ UNCHANGED <<pc, preview>>
  BY DEF Begin
<1>2. /\ pc = "wait" /\ desktop' = [desktop EXCEPT !.message = FALSE]
      /\ failed' = (failed /\ pc' = "wait") /\ atOnce' = FALSE
  BY DEF Begin, Pumped
<1>3. desktop.size \in Sizes /\ desktop' \in [size : Sizes, message : BOOLEAN]
  BY <1>2 DEF SurroundingsOK
<1>4. PICK u : u = UpdateCanvas(PumpedRenderer, desktop.size)
  OBVIOUS
<1>5. /\ Sound(u) /\ u.canvas = desktop.size
      /\ PumpedWindow \in [bounds : Sizes, visible : BOOLEAN]
      /\ PumpedWindow.visible = window.visible
  BY <1>3, <1>4, PumpedKeeps, UpdateCanvasKeeps
<1>6. Kept(o, u)
  BY <1>4, <1>5, PresentClearKeeps
<1>7. CASE /\ o.status = "ok"
           /\ renderer' = o.to
           /\ window' = [bounds |-> desktop.size, visible |-> TRUE]
           /\ preview' = [NoPreview EXCEPT !.target = t, !.capturePending = (mode = "thumbnail")]
           /\ counts' = [counts EXCEPT !.faults = @ + o.cost, !.begins = @ + 1]
           /\ pc' = "drain"
  <2>1. counts' \in [faults : Nat, changes : Nat, begins : Nat]
    <3>1. o.cost \in Nat /\ counts \in [faults : Nat, changes : Nat, begins : Nat]
      BY <1>6 DEF Kept, Outcome, SurroundingsOK
    <3>2. [counts EXCEPT !.faults = @ + o.cost + 0, !.begins = @ + 1]
            \in [faults : Nat, changes : Nat, begins : Nat]
      BY <3>1, CountsType
    <3>3. counts.faults + o.cost = counts.faults + o.cost + 0
      BY <3>1
    <3> QED
      BY <1>7, <3>2, <3>3
  <2>2. PICK m \in BOOLEAN : m = (mode = "thumbnail")
    OBVIOUS
  <2>3. preview' = [target |-> t, capturePending |-> m, captureInProgress |-> FALSE,
                    parkPending |-> FALSE, parked |-> FALSE]
    BY <1>7, <2>2 DEF NoPreview
  <2>4. window' \in [bounds : Sizes, visible : BOOLEAN] /\ window'.bounds = desktop.size
    BY <1>3, <1>7
  <2>5. failed' \in BOOLEAN
    BY <1>2
  <2>6. t \in Target
    BY Nones
  <2>7. preview' \in [target : Target, capturePending : BOOLEAN, captureInProgress : BOOLEAN,
                      parkPending : BOOLEAN, parked : BOOLEAN]
    BY <2>3, <2>6
  <2>8. SurroundingsOK'
    BY <1>2, <1>3, <1>7, <2>1, <2>4, <2>5, <2>7 DEF SurroundingsOK
  <2>9. RendererInv'
    BY <1>5, <1>6, <1>7, <2>4 DEF RendererInv, Kept, SameCanvas
  <2>10. HideInv'
    BY <1>7 DEF HideInv
  <2>11. ParkInv'
    <3>1. ~preview'.captureInProgress /\ ~preview'.parkPending /\ ~preview'.parked
      BY <2>3
    <3> QED
      BY <1>7, <3>1 DEF ParkInv
  <2> QED
    BY <2>8, <2>9, <2>10, <2>11
<1>8. CASE \E b \in ResetDevice(o.to) :
             /\ renderer' = Complete(b.to)
             /\ window' = [PumpedWindow EXCEPT !.bounds = desktop.size]
             /\ counts' = [counts EXCEPT !.faults = @ + o.cost + b.cost, !.begins = @ + 1]
             /\ UNCHANGED <<pc, preview>>
  <2>1. PICK b \in ResetDevice(o.to) :
             /\ renderer' = Complete(b.to)
             /\ window' = [PumpedWindow EXCEPT !.bounds = desktop.size]
             /\ counts' = [counts EXCEPT !.faults = @ + o.cost + b.cost, !.begins = @ + 1]
             /\ UNCHANGED <<pc, preview>>
    BY <1>8
  <2>2. Kept(b, o.to)
    BY <1>6, ResetKeeps DEF Kept
  <2>3. Sound(renderer') /\ renderer'.canvas = desktop.size
    <3>1. Sound(b.to) /\ b.to.canvas = desktop.size
      BY <1>5, <1>6, <2>2 DEF Kept, SameCanvas
    <3> QED
      BY <2>1, <3>1, CompletedKeeps DEF SameCanvas
  <2>4. counts' \in [faults : Nat, changes : Nat, begins : Nat]
    <3>1. o.cost \in Nat /\ b.cost \in Nat /\ counts \in [faults : Nat, changes : Nat, begins : Nat]
      BY <1>6, <2>2 DEF Kept, Outcome, SurroundingsOK
    <3> QED
      BY <2>1, <3>1, CountsType
  <2>5. /\ window' \in [bounds : Sizes, visible : BOOLEAN]
        /\ window'.bounds = desktop.size /\ window'.visible = window.visible
    BY <1>3, <1>5, <2>1
  <2>6. failed' = failed
    BY <1>2, <2>1 DEF SurroundingsOK
  <2>7. SurroundingsOK'
    BY <1>2, <1>3, <2>1, <2>4, <2>5, <2>6 DEF SurroundingsOK
  <2>8. RendererInv'
    BY <1>2, <2>1, <2>3, <2>5 DEF RendererInv
  <2>9. HideInv'
    BY <1>2, <2>1, <2>5, <2>6 DEF HideInv
  <2>10. ParkInv'
    <3>1. preview' = NoPreview
      BY <1>2, <2>1 DEF ParkInv
    <3> QED
      BY <3>1 DEF ParkInv, NoPreview
  <2> QED
    BY <2>7, <2>8, <2>9, <2>10
<1> QED
  BY <1>1, <1>7, <1>8


LEMMA DrainKeeps ==
  ASSUME IInv, Drain
  PROVE  IInv'
<1> USE DEF IInv
<1>1. /\ pc = "drain" /\ pc' = "render" /\ window' = PumpedWindow /\ renderer' = PumpedRenderer
      /\ desktop' = [desktop EXCEPT !.message = FALSE]
      /\ UNCHANGED <<preview, counts, failed, atOnce>>
  BY DEF Drain, Pumped
<1>2. /\ Sound(renderer') /\ SamePicture(renderer', renderer) /\ renderer'.canvas = window'.bounds
      /\ window' \in [bounds : Sizes, visible : BOOLEAN]
  BY <1>1, PumpedKeeps
<1>3. SurroundingsOK'
  BY <1>1, <1>2 DEF SurroundingsOK
<1>4. RendererInv'
  BY <1>1, <1>2 DEF RendererInv
<1>5. HideInv'
  BY <1>1 DEF HideInv
<1>6. ParkInv'
  BY <1>1, <1>2 DEF ParkInv, SamePicture
<1> QED
  BY <1>3, <1>4, <1>5, <1>6

\* The interaction ends with the window hidden and the preview forgotten.
LEMMA EndKeeps ==
  ASSUME IInv, End
  PROVE  IInv'
<1> USE DEF IInv
<1>1. /\ pc' = "wait" /\ preview' = NoPreview
      /\ window' = [PumpedWindow EXCEPT !.visible = FALSE]
      /\ renderer' = Complete(PumpedRenderer)
      /\ desktop' = [desktop EXCEPT !.message = FALSE]
      /\ UNCHANGED <<counts, failed, atOnce>>
  BY DEF End, EndHidden, Pumped
<1>2. PICK r : r = PumpedRenderer
  OBVIOUS
<1>3. /\ Sound(r) /\ r.canvas = PumpedWindow.bounds
      /\ PumpedWindow \in [bounds : Sizes, visible : BOOLEAN]
  BY <1>2, PumpedKeeps
<1>4. Sound(renderer') /\ renderer'.canvas = r.canvas
  BY <1>1, <1>2, <1>3, CompletedKeeps DEF SameCanvas
<1>5. /\ window' \in [bounds : Sizes, visible : BOOLEAN]
      /\ window'.bounds = PumpedWindow.bounds /\ window'.visible = FALSE
  BY <1>1, <1>3
<1>6. NoPreview \in [target : Target, capturePending : BOOLEAN, captureInProgress : BOOLEAN,
                     parkPending : BOOLEAN, parked : BOOLEAN]
  BY Nones DEF NoPreview
<1>7. SurroundingsOK'
  BY <1>1, <1>5, <1>6 DEF SurroundingsOK
<1>8. RendererInv'
  BY <1>1, <1>3, <1>4, <1>5 DEF RendererInv
<1>9. HideInv'
  BY <1>1, <1>5 DEF HideInv
<1>10. ParkInv'
  BY <1>1 DEF ParkInv, NoPreview
<1> QED
  BY <1>7, <1>8, <1>9, <1>10

LEMMA RenderFailsKeeps ==
  ASSUME IInv, RenderFails
  PROVE  IInv'
<1> USE DEF IInv
<1>1. PICK o \in Render(renderer) :
        \E b \in Recovered(o) : Takes([b EXCEPT !.to = Complete(@)])
  BY DEF RenderFails
<1>2. PICK b \in Recovered(o) : Takes([b EXCEPT !.to = Complete(@)])
  BY <1>1
<1>3. /\ pc' = "wait" /\ preview' = NoPreview /\ failed' = TRUE
      /\ UNCHANGED <<desktop, window, atOnce>>
  BY DEF RenderFails
<1>4. Sound(renderer) /\ renderer.canvas = window.bounds
  BY DEF RendererInv
<1>5. Kept(b, renderer)
  BY <1>4, RenderKeeps, RecoveredKeeps
<1>6. PICK s : s = Complete(b.to)
  OBVIOUS
<1>7. Sound(s) /\ s.canvas = renderer.canvas
  BY <1>5, <1>6, CompletedKeeps DEF Kept, SameCanvas
<1>8. PICK p : p = [b EXCEPT !.to = s]
  OBVIOUS
<1>9. Takes(p)
  BY <1>2, <1>5, <1>6, <1>8 DEF Kept, Outcome
<1>10. p \in Outcome /\ p.to = s
  BY <1>5, <1>7, <1>8, Retarget DEF Kept, Sound, Base
<1>11. renderer' = s /\ counts' \in [faults : Nat, changes : Nat, begins : Nat]
  BY <1>9, <1>10, TakesType
<1>12. NoPreview \in [target : Target, capturePending : BOOLEAN, captureInProgress : BOOLEAN,
                      parkPending : BOOLEAN, parked : BOOLEAN]
  BY Nones DEF NoPreview
<1>13. SurroundingsOK'
  BY <1>3, <1>11, <1>12 DEF SurroundingsOK
<1>14. RendererInv'
  BY <1>3, <1>4, <1>7, <1>11 DEF RendererInv
<1>15. HideInv'
  BY <1>3 DEF HideInv
<1>16. ParkInv'
  BY <1>3 DEF ParkInv, NoPreview
<1> QED
  BY <1>13, <1>14, <1>15, <1>16

\* What follows a frame: the capture begins, goes on, or the window is parked.
LEMMA FollowIs ==
  ASSUME SurroundingsOK, NEW f \in Outcome, NEW o \in Outcome, NEW k \in {o.status},
         NEW flags \in [target : Target, capturePending : BOOLEAN, captureInProgress : BOOLEAN,
                        parkPending : BOOLEAN, parked : BOOLEAN],
         Follow([o EXCEPT !.cost = @ + f.cost], k, flags)
  PROVE  /\ renderer' = o.to /\ counts' \in [faults : Nat, changes : Nat, begins : Nat]
         /\ preview' \in [target : Target, capturePending : BOOLEAN, captureInProgress : BOOLEAN,
                          parkPending : BOOLEAN, parked : BOOLEAN]
         /\ preview'.target = flags.target /\ preview'.capturePending = flags.capturePending
         /\ preview'.parked = flags.parked
         /\ preview'.captureInProgress => o.status = "pending"
         /\ preview'.parkPending => o.status = "ready"
         /\ ~(preview'.captureInProgress /\ preview'.parkPending)
<1>1. PICK p : p = [o EXCEPT !.cost = @ + f.cost]
  OBVIOUS
<1>2. p \in Outcome /\ p.to = o.to
  <2>1. PICK n \in Nat : n = o.cost + f.cost
    BY DEF Outcome
  <2>2. p = [o EXCEPT !.cost = n]
    BY <1>1, <2>1
  <2> QED
    BY <2>2 DEF Outcome
<1>3. Takes(p)
  BY <1>1 DEF Follow
<1>4. renderer' = o.to /\ counts' \in [faults : Nat, changes : Nat, begins : Nat]
  BY <1>2, <1>3, TakesType
<1>5. PICK x \in BOOLEAN : x = (o.status = "pending")
  OBVIOUS
<1>6. PICK y \in BOOLEAN : y = (o.status = "ready")
  OBVIOUS
<1>7. preview' = [flags EXCEPT !.captureInProgress = x, !.parkPending = y]
  BY <1>5, <1>6 DEF Follow
<1>8. /\ preview' \in [target : Target, capturePending : BOOLEAN, captureInProgress : BOOLEAN,
                       parkPending : BOOLEAN, parked : BOOLEAN]
      /\ preview'.target = flags.target /\ preview'.capturePending = flags.capturePending
      /\ preview'.parked = flags.parked
      /\ preview'.captureInProgress = x /\ preview'.parkPending = y
  BY <1>7
<1>9. ~(x /\ y)
  BY <1>5, <1>6
<1> QED
  BY <1>4, <1>5, <1>6, <1>8, <1>9

LEMMA RenderFrameKeeps ==
  ASSUME IInv, RenderFrame
  PROVE  IInv'
<1> USE DEF IInv
<1>1. PICK f \in Render(renderer) : AfterFrame(f)
  BY DEF RenderFrame
<1>2. pc = "render" /\ pc' = "drain" /\ UNCHANGED <<desktop, window, failed>>
  BY DEF RenderFrame
<1>3. /\ Sound(renderer) /\ renderer.canvas = window.bounds
      /\ preview \in [target : Target, capturePending : BOOLEAN, captureInProgress : BOOLEAN,
                      parkPending : BOOLEAN, parked : BOOLEAN]
      /\ preview.target \in Target
  BY DEF RendererInv, SurroundingsOK
<1>4. Kept(f, renderer) /\ SamePicture(f.to, renderer)
  BY <1>3, RenderKeeps
<1>5. Sound(f.to) /\ f \in Outcome /\ f.to.canvas = window.bounds
  BY <1>3, <1>4 DEF Kept, SameCanvas
<1>6. HideInv'
  BY <1>2 DEF HideInv
<1>7. ASSUME /\ Sound(renderer') /\ renderer'.canvas = window.bounds
             /\ counts' \in [faults : Nat, changes : Nat, begins : Nat] /\ atOnce' \in BOOLEAN
             /\ preview' \in [target : Target, capturePending : BOOLEAN, captureInProgress : BOOLEAN,
                              parkPending : BOOLEAN, parked : BOOLEAN]
      PROVE  SurroundingsOK' /\ RendererInv'
  <2>1. SurroundingsOK'
    BY <1>2, <1>7 DEF SurroundingsOK
  <2>2. RendererInv'
    BY <1>2, <1>7 DEF RendererInv
  <2> QED
    BY <2>1, <2>2
<1>8. CASE preview.capturePending
  <2>1. PICK o \in BeginCapture(f.to, preview.target) :
          /\ Follow([o EXCEPT !.cost = @ + f.cost], o.status, [preview EXCEPT !.capturePending = FALSE])
          /\ atOnce' = (o.status = "ready")
    BY <1>1, <1>8 DEF AfterFrame
  <2>2. Kept(o, f.to) /\ (o.status = "pending" => o.to.capture.target = preview.target)
    BY <1>3, <1>5, BeginCaptureKeeps
  <2>3. PICK flags : flags = [preview EXCEPT !.capturePending = FALSE]
    OBVIOUS
  <2>4. /\ flags \in [target : Target, capturePending : BOOLEAN, captureInProgress : BOOLEAN,
                      parkPending : BOOLEAN, parked : BOOLEAN]
        /\ flags.target = preview.target /\ flags.capturePending = FALSE
        /\ flags.parked = preview.parked
    BY <1>3, <2>3
  <2>5. o \in Outcome
    BY <2>2 DEF Kept
  <2>6. Follow([o EXCEPT !.cost = @ + f.cost], o.status, flags)
    BY <2>1, <2>3
  <2>7. /\ renderer' = o.to /\ counts' \in [faults : Nat, changes : Nat, begins : Nat]
        /\ preview' \in [target : Target, capturePending : BOOLEAN, captureInProgress : BOOLEAN,
                         parkPending : BOOLEAN, parked : BOOLEAN]
        /\ preview'.target = flags.target /\ preview'.capturePending = flags.capturePending
        /\ preview'.parked = flags.parked
        /\ preview'.captureInProgress => o.status = "pending"
        /\ preview'.parkPending => o.status = "ready"
        /\ ~(preview'.captureInProgress /\ preview'.parkPending)
    BY <1>5, <2>4, <2>5, <2>6, FollowIs
  <2>8. Sound(renderer') /\ renderer'.canvas = window.bounds
    BY <1>5, <2>2, <2>7 DEF Kept, SameCanvas
  <2>9. atOnce' \in BOOLEAN
    BY <2>1
  <2>10. ~preview.parked
    BY <1>8 DEF ParkInv
  <2>11. ParkInv'
    <3>1. ~preview'.parked /\ ~preview'.capturePending /\ preview'.target = preview.target
      BY <2>4, <2>7, <2>10
    <3>2. preview'.parkPending => atOnce'
      BY <2>1, <2>7
    <3>3. preview'.captureInProgress => renderer'.capture.target = preview'.target
      BY <2>2, <2>7, <3>1
    <3> QED
      BY <1>2, <2>7, <3>1, <3>2, <3>3 DEF ParkInv
  <2> QED
    BY <1>6, <1>7, <2>7, <2>8, <2>9, <2>11
<1>9. CASE ~preview.capturePending /\ preview.captureInProgress
  <2>1. PICK o \in UpdateCapture(f.to) : Follow([o EXCEPT !.cost = @ + f.cost], o.status, preview)
    BY <1>1, <1>9 DEF AfterFrame
  <2>2. atOnce' = atOnce
    BY <1>1, <1>9 DEF AfterFrame
  <2>3. f.to.capture.target = preview.target /\ ~preview.parked
    BY <1>4, <1>9 DEF ParkInv, SamePicture
  <2>4. Captures(o, f.to, preview.target)
    BY <1>5, <2>3, UpdateCaptureKeeps
  <2>5. o \in Outcome
    BY <2>4 DEF Captures, Kept
  <2>6. /\ renderer' = o.to /\ counts' \in [faults : Nat, changes : Nat, begins : Nat]
        /\ preview' \in [target : Target, capturePending : BOOLEAN, captureInProgress : BOOLEAN,
                         parkPending : BOOLEAN, parked : BOOLEAN]
        /\ preview'.target = preview.target /\ preview'.capturePending = preview.capturePending
        /\ preview'.parked = preview.parked
        /\ preview'.captureInProgress => o.status = "pending"
        /\ preview'.parkPending => o.status = "ready"
        /\ ~(preview'.captureInProgress /\ preview'.parkPending)
    BY <1>3, <1>5, <2>1, <2>5, FollowIs
  <2>7. Sound(renderer') /\ renderer'.canvas = window.bounds
    BY <1>5, <2>4, <2>6 DEF Captures, Kept, SameCanvas
  <2>8. ParkInv'
    <3>1. ~preview'.parked /\ ~preview'.capturePending
      BY <1>9, <2>3, <2>6
    <3>2. preview'.parkPending => renderer'.texture = preview'.target
      BY <2>4, <2>6 DEF Captures
    <3>3. preview'.captureInProgress => renderer'.capture.target = preview'.target
      BY <2>4, <2>6 DEF Captures
    <3> QED
      BY <1>2, <2>6, <3>1, <3>2, <3>3 DEF ParkInv
  <2>9. atOnce' \in BOOLEAN
    BY <2>2 DEF SurroundingsOK
  <2> QED
    BY <1>6, <1>7, <2>6, <2>7, <2>8, <2>9
<1>10. CASE ~preview.capturePending /\ ~preview.captureInProgress
  <2>1. /\ Takes(f) /\ atOnce' = atOnce
        /\ preview' = IF preview.parkPending
                        THEN [preview EXCEPT !.parkPending = FALSE, !.parked = TRUE]
                        ELSE preview
    BY <1>1, <1>10 DEF AfterFrame
  <2>2. renderer' = f.to /\ counts' \in [faults : Nat, changes : Nat, begins : Nat]
    BY <1>5, <2>1, TakesType
  <2>3. /\ preview' \in [target : Target, capturePending : BOOLEAN, captureInProgress : BOOLEAN,
                         parkPending : BOOLEAN, parked : BOOLEAN]
        /\ preview'.target = preview.target /\ ~preview'.capturePending /\ ~preview'.captureInProgress
        /\ preview'.parkPending \/ preview'.parked => preview.parkPending \/ preview.parked
    <3>1. CASE preview.parkPending
      <4>1. preview' = [preview EXCEPT !.parkPending = FALSE, !.parked = TRUE]
        BY <2>1, <3>1
      <4> QED
        BY <1>3, <1>10, <3>1, <4>1
    <3>2. CASE ~preview.parkPending
      BY <1>3, <1>10, <2>1, <3>2
    <3> QED
      BY <3>1, <3>2
  <2>4. renderer'.texture = renderer.texture
    BY <1>4, <2>2 DEF SamePicture
  <2>5. ParkInv'
    BY <1>2, <2>1, <2>3, <2>4 DEF ParkInv
  <2>6. atOnce' \in BOOLEAN
    BY <2>1 DEF SurroundingsOK
  <2> QED
    BY <1>5, <1>6, <1>7, <2>2, <2>3, <2>5, <2>6
<1> QED
  BY <1>8, <1>9, <1>10

\* The device, the desktop and the answers to the capture.
LEMMA RemoveDeviceKeeps ==
  ASSUME IInv, RemoveDevice
  PROVE  IInv'
<1> USE DEF IInv
<1>1. /\ renderer.device = "ok" /\ renderer' = [renderer EXCEPT !.device = "removed"]
      /\ counts' = [counts EXCEPT !.faults = @ + 1]
      /\ UNCHANGED <<pc, desktop, window, preview, failed, atOnce>>
  BY DEF RemoveDevice
<1>2. /\ Sound(renderer') /\ SameCanvas(renderer', renderer) /\ SamePicture(renderer', renderer)
  BY <1>1, LoseDevice DEF RendererInv, Sound
<1>3. SurroundingsOK'
  <2>1. counts' \in [faults : Nat, changes : Nat, begins : Nat]
    BY <1>1 DEF SurroundingsOK
  <2> QED
    BY <1>1, <2>1 DEF SurroundingsOK
<1>4. RendererInv'
  BY <1>1, <1>2 DEF RendererInv, SameCanvas
<1>5. HideInv'
  BY <1>1 DEF HideInv
<1>6. ParkInv'
  BY <1>1, <1>2 DEF ParkInv, SamePicture
<1> QED
  BY <1>3, <1>4, <1>5, <1>6

LEMMA ChangeDisplayKeeps ==
  ASSUME IInv, NEW size \in Sizes, ChangeDisplay(size)
  PROVE  IInv'
<1> USE DEF IInv
<1>1. /\ desktop' = [size |-> size, message |-> TRUE]
      /\ counts' = [counts EXCEPT !.changes = @ + 1]
      /\ UNCHANGED <<pc, window, renderer, preview, failed, atOnce>>
  BY DEF ChangeDisplay
<1>2. SurroundingsOK'
  <2>1. counts' \in [faults : Nat, changes : Nat, begins : Nat]
    BY <1>1 DEF SurroundingsOK
  <2> QED
    BY <1>1, <2>1 DEF SurroundingsOK
<1>3. RendererInv' /\ HideInv'
  BY <1>1 DEF RendererInv, HideInv
<1>4. ParkInv'
  BY <1>1 DEF ParkInv
<1> QED
  BY <1>2, <1>3, <1>4

LEMMA CaptureAnswers ==
  ASSUME IInv, \/ FrameArrives \/ Deadline
               \/ \E answer \in {"allowed", "denied", "error"} : AnswerPermission(answer)
  PROVE  IInv'
<1> USE DEF IInv
<1>1. renderer.capture \in Capture /\ Sound(renderer)
  BY DEF RendererInv, Sound, Base, Renderer
<1>2. PICK c : c.target = renderer.capture.target /\ c \in Capture /\ SetCapture(c)
  <2>1. CASE FrameArrives
    <3>1. PICK c : c = [renderer.capture EXCEPT !.ready = TRUE]
      OBVIOUS
    <3>2. c \in Capture /\ c.target = renderer.capture.target
      BY <1>1, <3>1 DEF Capture
    <3> QED
      BY <2>1, <3>1, <3>2 DEF FrameArrives
  <2>2. CASE Deadline
    <3>1. PICK c : c = [renderer.capture EXCEPT !.expired = TRUE]
      OBVIOUS
    <3>2. c \in Capture /\ c.target = renderer.capture.target
      BY <1>1, <3>1 DEF Capture
    <3> QED
      BY <2>2, <3>1, <3>2 DEF Deadline
  <2>3. ASSUME NEW answer \in {"allowed", "denied", "error"}, AnswerPermission(answer)
        PROVE  \E c : c.target = renderer.capture.target /\ c \in Capture /\ SetCapture(c)
    <3>1. PICK c : c = [renderer.capture EXCEPT !.operation = answer]
      OBVIOUS
    <3>2. c \in Capture /\ c.target = renderer.capture.target
      BY <1>1, <3>1 DEF Capture
    <3> QED
      BY <2>3, <3>1, <3>2 DEF AnswerPermission
  <2> QED
    BY <2>1, <2>2, <2>3
<1>3. /\ renderer' = [renderer EXCEPT !.capture = c]
      /\ UNCHANGED <<pc, desktop, window, preview, counts, failed, atOnce>>
  BY <1>2 DEF SetCapture
<1>4. /\ Sound(renderer') /\ SameCanvas(renderer', renderer) /\ renderer'.texture = renderer.texture
      /\ renderer'.capture = c /\ renderer'.device = renderer.device
      /\ renderer'.custom = renderer.custom /\ renderer'.dirty = renderer.dirty
  BY <1>1, <1>2, <1>3, SetCaptureKeeps
<1>5. SurroundingsOK'
  BY <1>3 DEF SurroundingsOK
<1>6. RendererInv'
  BY <1>3, <1>4 DEF RendererInv, SameCanvas
<1>7. HideInv'
  BY <1>3 DEF HideInv
<1>8. ParkInv'
  BY <1>2, <1>3, <1>4 DEF ParkInv
<1> QED
  BY <1>5, <1>6, <1>7, <1>8

LEMMA NextIInv == IInv /\ [Next]_vars => IInv'
<1> SUFFICES ASSUME IInv, [Next]_vars PROVE IInv'
  OBVIOUS
<1>1. CASE UNCHANGED vars
  BY <1>1 DEF IInv, SurroundingsOK, RendererInv, HideInv, ParkInv, vars
<1>2. CASE Prime \/ Drain \/ End \/ RenderFails \/ RenderFrame
  BY <1>2, PrimeKeeps, DrainKeeps, EndKeeps, RenderFailsKeeps, RenderFrameKeeps
<1>3. CASE \E t \in Targets, mode \in {"overlay", "thumbnail"} : Begin(t, mode)
  BY <1>3, BeginKeeps
<1>4. CASE \E s \in Customs \union {BuiltIn}, g \in 1..MaxUpdates : ApplyOutline(s, g)
  BY <1>4, ApplyOutlineKeeps
<1>5. CASE RemoveDevice \/ \E size \in Sizes : ChangeDisplay(size)
  BY <1>5, RemoveDeviceKeeps, ChangeDisplayKeeps
<1>6. CASE \/ FrameArrives \/ Deadline
           \/ \E answer \in {"allowed", "denied", "error"} : AnswerPermission(answer)
  BY <1>6, CaptureAnswers
<1> QED
  BY <1>1, <1>2, <1>3, <1>4, <1>5, <1>6 DEF Next

\* Everything below follows from it: it holds of any windows, sizes of the
\* desktop, shaders and numbers of failed calls, whenever the device is lost.
THEOREM Inductive == Spec => []IInv
<1>1. Init => IInv
  BY InitIInv
<1>2. IInv /\ [Next]_vars => IInv'
  BY NextIInv
<1> QED
  BY <1>1, <1>2, PTL DEF Spec

\* Every frame is drawn whole and with the shader in use, whatever was reset,
\* resized or removed before (dx_context.cpp:156, renderer.cpp:343).
THEOREM FrameSafe == Spec => []FrameIsRight
<1>1. IInv => FrameIsRight
  BY DEF IInv, RendererInv, Sound, Base, Whole, FrameIsRight
<1> QED
  BY <1>1, Inductive, PTL

\* The overlay is hidden between interactions, except after a failed frame
\* (service.cpp:178, 190).
THEOREM HiddenSafe == Spec => []HiddenWhenIdle
<1>1. IInv => HiddenWhenIdle
  BY DEF IInv, HideInv, HiddenWhenIdle
<1> QED
  BY <1>1, Inductive, PTL

\* A window is parked off the screen only while its picture is there to draw,
\* except when the first frame came at once (service.cpp:219).
THEOREM ParkSafe == Spec => []ParkHasThumbnail
<1>1. IInv => ParkHasThumbnail
  BY DEF IInv, ParkInv, ParkHasThumbnail
<1> QED
  BY <1>1, Inductive, PTL
===============================================================================
