# HyprWin in TLA+

HyprWin (`src/README.md`) is a Windows utility that drags and resizes windows
while a "super" key (a Win key) is held.  It is a dozen threads that talk
through atomics, single-producer queues and condition variables.  This directory
specifies that concurrency in TLA+, checks it with TLC and proves its safety
with TLAPS.  `PROJECT.json` lists the components, the runs, the source lines
each definition models, the hazards, the findings and the theorems.

    tlc -workers 2 -config overlay_safety.cfg MCOverlay.tla     # a run
    tlapm OverlayInteraction_proofs.tla                         # the proofs

## 1. The system

### Threads and what they share

    keyboard hook "KB-H" --m_keyQueue(63)--> keyboard dispatch "KB-D" --> Lua, timers, reload, exit
         |  NotifySuperPressed / Released                     ^ RequestReloadConfig, RequestExit
         v                                                    |
    mouse hook "M-H" --m_buttonQueue(15)--> mouse dispatch "M-D"      tray, log window
                                                |  Send: m_interactionReserved, m_commands(15)
                                                v
    shader compile "SHD" --mailbox(1)--> overlay "OVR" --Submit: one slot--> placement "W-POS"
                                                ^                                |
                                                +------ m_placementResults(15) --+

| Component (`src/src/...`) | State | Operations | What is hard |
|---|---|---|---|
| keyboard (`keyboard/`) | super_down, key set, event queue, overflow flag, reload/exit/deferred flags | hook procedure, dispatch loop, requests | four copies of "super is held" in four places; requests race with their handling; overflow recovery |
| mouse hook and dispatch (`mouse/mouse.cpp`) | install, uninstall, finish and overflow flags, passthrough flags, button queue, the operation | InstallHook, UninstallHook, hook thread, hook procedure, dispatch loop | requests overtake each other and queued events; buttons hidden from Windows |
| mouse operation (same file, `BeginOperation` on) | target, original rectangle, interaction id | select, measure, restore a maximized window, begin, commit, cancel | the desktop changes between the reads |
| overlay service (`overlay/service*.cpp`) | reservation, command and result queues, session, preview state, settings snapshot | `OverlayLoop` and everything it calls | one reservation with five releases; failed presents in the middle; shutdown |
| placement worker (`overlay/placement/`) | one pending slot, busy flag | Submit, WaitIdle, worker loop | a newer request overwrites an older one |
| outline shader pipeline (`overlay/outline/`) | generation, pending request, cache files, mailbox of one place | ApplySettings, compile, load and store the cache, publish, install | stale results, included files the cache does not know, kills between two renames, device loss |
| lua runtime (`lua/runtime.cpp`, `timeout.cpp`, part of `api/`) | Lua state, registry references, binds, callbacks, timers, pending and published settings, safe mode | load, reload, guarded callbacks with a time limit, timers, assignment of settings | re-entry (a callback cancels a timer of its own round, a load that fails half way), references with several owners |
| chords (`lua/binds/`, `util/key_parse.cpp`, `api/input.cpp`) | the binds | parse, expand, look up, format, send | generic and sided modifiers, what is listed must parse again |
| settings tables (`api/settings.cpp`) | the settings | read, validate, write back | Lua tables with holes and foreign keys |
| selection and filters (`mouse/selection.cpp`, `win/window.cpp`, `win/app.cpp`) | none | choose a window, inspect one | two routines that must agree; the last rule decides |
| geometry (`overlay/bounds.cpp`, `util/geometry.hpp`, `win/window.cpp`) | none | drag, resize, fit, park, move to a visual rectangle | boundaries; invisible borders that change |
| renderer, snapshot capture, overlay window (`overlay/render/`, `overlay/thumbnail/`, `overlay_window.cpp`) | device, swap chain, canvas, caches, shaders, capture session, visibility | draw, reset, resize, apply a shader, capture | device loss with caches on the CPU; a capture that is late, refused or lost |
| logger and log window (`log/`) | queue, ring, file, worker, viewer | write, render, append, open, close, filter, shut down | a viewer between creation and its message loop; shutdown at any point |
| tray, perf, other win helpers, rest of the API, main | little | I/O and wiring | destruction order |

What makes each correct, in the order in which it matters:

- *overlay and worker*: one interaction at a time; the one that is accepted
  ends; a window that a preview moved is put back or committed, whatever fails;
  the thread can be joined.
- *keyboard*: hook, mouse, key state and Lua agree about super; a reload is
  neither lost nor carried out at the wrong moment; no key sticks for Windows.
- *mouse hook*: the hook is there exactly while super is held; buttons hidden
  from Windows do not stick; an operation ends.
- *outline*: the border shows the shader of the newest configuration; a cache
  entry never claims bytecode it does not hold; what was asked for is noticed.
- *Lua*: each reference is owned once; other threads see the settings Lua reads
  back; timers fire when they should and no interpreted callback keeps the thread.
- *calculations*: what the user was shown, asked for or wrote is what happens.
- *display*: a frame is drawn whole, with the right shader, after any reset; no
  window is parked without its picture; nothing stays on screen.
- *log*: nothing accepted is lost or reordered; shutdown ends.

## 2. Modules

| Module | Models | Correspondence |
|---|---|---|
| `OverlayCmd` | `cmd.hpp`, types of `worker.hpp` | Sessions, commands, requests, results.  A rectangle is where it puts the window (`start`, `anchored`, `live`, `parked`, `final`) and which interaction computed it. `ComputedRect` keeps the one fact of the arithmetic the properties need: what is displaced from an off-screen rectangle stays off-screen. |
| `PlacementWorker` | `placement/worker.cpp` | `TakeRequest`, `PlaceWindow`, `PublishResult` are the three steps of the worker loop; `EnsureAndSubmit` is a call of the overlay thread. |
| `MouseOperation` | `mouse.cpp` from `BeginOperation`, `OverlayService::Send` | A step per read of the desktop and per shared write; the reservation and the push are two steps, as in `Send`. |
| `OverlayInteraction` | `service.cpp`, `service_commands.cpp`, `service_placement.cpp` | Composes the three above. `pc` and `pass` are the position in `OverlayLoop`; a queue is popped one item per step, since producers run in between. `wait` is where `m_cv.wait` stands: `missed` between predicate and sleep with a notification behind it, `overslept` asleep after that. |
| `WindowGrab` | nothing: the promise | One holder; a window is displaced only while held; the holder is released only when its window is not displaced. |
| `Keyboard` | `keyboard/keyboard.cpp` | `HookProc` is three steps (decide and exchange super_down, notify the mouse, push), `DispatchThreadMain` a step per flag it exchanges, `ProcessKey` one action per return.  A Lua callback is a choice: it may change the super key and call `hw.reload` or `hw.quit` (`CallLua`), which races with the tray's requests (`requester`). |
| `MouseHook` | `mouse.cpp` up to `BeginOperation` | One step per atomic store of `InstallHook` and `UninstallHook`, per step of both loops; buttons of the user; what Windows believes (`sysHeld`). |
| `OutlinePipeline` | `outline/manager.cpp`, `outline/cache.cpp`, the mailbox in `service.cpp`, installation in `renderer.cpp` | Overlay thread with the predicate and the sleep of its wait, compile thread, the user's edits, kills of the process. `outline/compiler.cpp` reads two files in two steps, the shader file and one file that all of them include; bytecode is the pair of versions read, while a meta file names that of the shader file only. |
| `LuaRuntime` | `lua/runtime.cpp`, `lua/timeout.cpp`, `bind_registry.cpp`, the stateful part of `api/core.cpp` and `api/settings.cpp` | `pc` is where the dispatch thread is: loading, in Lua code, between timers, idle. Lua code is a sequence of API calls, any of them, ended by a return, an error or the time limit, which does not run while `native` (a compiled trace, a C function). `registry` holds the references of `luaL_ref`; a reload drops the state and every reference with it. The heap of timers is a set with its minimal deadlines. |
| `KeyChords` | `util/key_parse.cpp`, `lua/binds/key_parse.cpp`, `key_event.hpp`, `hwBinds`, `api/input.cpp` | A chord is a sequence of tokens. Names of one key stand for the families that are parsed or formatted alike. |
| `SettingsTables` | list settings of `api/settings.cpp` | A Lua table is a partial function; `lua_objlen` is any border of it. |
| `WindowSelection` | `mouse/selection.cpp`, `win/window.cpp`, `GetProcessName`, shell and filter rules | A window is its set of flaws, process, class and whether the point is in its raw and in its visual rectangle. |
| `WindowGeometry` | `overlay/bounds.cpp`, `util/geometry.hpp`, corner of a resize, restore of a maximized window, `MoveWindowToVisualRect` | Rectangles axis by axis in small integers; the screen is a few coordinates. |
| `SpscQueue` | `util/spsc_queue.hpp` | Each load of the other thread's index and each store is a step, and the copy of an item into its slot is two. A load sees the last store. |
| `BoundedQueue` | nothing: the promise | A sequence that refuses an item when it is full: what `MouseOperation`, `PlacementWorker`, `OverlayInteraction`, `Keyboard` and `MouseHook` have for `m_commands`, `m_placementResults`, `m_keyQueue` and `m_buttonQueue`. |
| `Algorithms` | | `KeyChords` to `SpscQueue` side by side: a behaviour is about one of them. |
| `LogPipeline` | `log/log.cpp`, `log/log_window.cpp` | The worker's loop (swap, number and ring, viewer, file), the viewer's thread from `open` to its message loop, its box of posted messages, its filters, pause, clear and print, the caller that opens, closes and shuts down. |
| `Display` | `render/renderer.cpp`, `dx_context.cpp`, `outline_shader.cpp`, `thumbnail/`, `overlay_window.cpp`, the part of the loop that calls them | One frame of the loop is wait, prime, drain, render; every call that may fail does so at any time; a frame records with what it was drawn. |
| `..._proofs` | | The theorems of section 5, one module for each of `OverlayInteraction`, `Keyboard`, `MouseHook`, `OutlinePipeline`, `LuaRuntime`, `LogPipeline`, `Display` and `Algorithms`. |
| `MC...` | | Values for TLC. |

`MouseHook` abstracts an operation to the button that started it;
`MouseOperation` is what goes on inside one.  `Keyboard!mouseWanted` is the
last call made to `MouseHook!InstallHook` or `UninstallHook`.
`OverlayInteraction` assumes of the renderer and the capture only that they
answer in any way; `Display` says what is behind the answers, with the loop
reduced to its calls.  `Keyboard` calls Lua as one step that may change the super
key and request a reload or an exit; `LuaRuntime` is what goes on inside.
`OutlinePipeline` ends with the bytecode that `Display!ApplyOutline` installs.  The operators
marked "Mutant" are wrong variants of the definition after them; no
specification uses them.  They document a bug that each property would notice.

A spurious wakeup changes nothing: each loop evaluates its predicate again.
`notify_one` is called without the mutex everywhere in this code.  The wait is
therefore two steps, and a notification in between is lost.  The runs of
the overlay, the outline pipeline, the mouse and the keyboard include that loss,
all but `keyboard_winkey` (constant `PreemptibleWait`).  Where a
property can only hold without it, the property says so by an exception
(`InteractionEnds`, `ShutdownCompletes`, `ComesToRest`), an assumption
(`ReloadServedWhenWoken`) or a history variable (`HookFollowsSuper`).

History variables record an event that the code does not survive, and the
property that would fail then excludes it.  Each is a hazard in `PROJECT.json`,
which then names no property for what is excluded.

| Variable | What it records | What the code then does |
|---|---|---|
| `previewGrab` (MouseOperation) | a grab measured its window while the previous interaction still had it at a preview position | treats the preview position as the original one |
| `lost` (Keyboard) | a key event found the queue full | forgets the release that a deferred reload waits for |
| `raced` (MouseHook) | the hook thread ran between the two stores of one call | may keep the hook, or not set it |
| `missed` (MouseHook) | a notification was lost | sleeps until the next one |
| `gap` (MouseHook) | a button changed between `GetAsyncKeyState` and `SetWindowsHookExW` | may hide a release whose press passed |
| `failed` (MouseHook) | `SetWindowsHookExW` failed | does not try again |
| `lost` (OutlinePipeline) | the newest update was overwritten, refused or never made, or device loss dropped the shader | does not ask again |
| `caught` (LuaRuntime) | Lua code caught the error of the time limit | lets the callback run without limit |
| `fired` (LuaRuntime) | the one-shot timers that fired | nothing: it tells a second firing |
| `failed` (Display) | a frame failed since the overlay was shown | ends the interaction with the overlay still visible |
| `atOnce` (Display) | the first frame of a capture arrived in `Begin` | drops its texture and parks the window all the same |
| `accepted`, `owed` (LogPipeline) | what `write_text` queued, and how much of it before the shutdown | nothing: they are what the file must hold |
| `spoiled` (OutlinePipeline) | for each file: it was edited between compiling and storing, or its bytecode file could not be replaced | writes an entry whose bytecode is older than its meta file says |
| `savedWith`, `asked` (OutlinePipeline) | the included file as it was when a shader file was saved; both files when the configuration was applied | nothing: they are what the cache and the border must not be older than |

## 3. Runs

| Run | Asks | Result |
|---|---|---|
| `overlay_safety` | Two interactions on two windows, one immovable; failed presents, lost wakeups, changed settings, asynchronous moves, shutdown | holds: `ReservationOwned`, `QueuesStayShort`, `FinishingIsServed`, `PreviewIsTemporary`, implements `WindowGrab` |
| `overlay_liveness` | Does every accepted interaction end, and can the thread be joined, with an immovable window, a failed present and lost notifications? | holds, unless a lost notification leaves the loop asleep for good: `InteractionEnds`, `ShutdownCompletes` |
| `keyboard_modal` | Do the copies of "super is held" agree at rest; does a deferred reload keep its trigger; is nothing loaded after an exit; is a requested reload carried out if something wakes the thread now and then (`ReloadServedWhenWoken`)? | holds |
| `keyboard_lost_wakeup` | Is it carried out if nothing does? | violated |
| `keyboard_winkey` | Can Windows believe a Win key is held that is not? | violated |
| `mouse_hook` | Is the mouse hooked exactly while super is held; do buttons stick; do operations end, also when their button's queue overflows? | holds |
| `mouse_stuck` | Can an operation survive super and every button? | violated |
| `outline_pipeline` | Is the cache truthful, as far as it can be about includes; is the configured shader shown, the pipeline at rest in the end? | holds, unless a reload is published between predicate and sleep and nothing else wakes the loop |
| `lua_runtime` | Are references owned once, settings published as Lua reads them, safe mode clean; do timers fire rightly, callbacks return, rounds of timers end? | holds, unless native code or a caught error keeps the thread |
| `algorithms` | Does the latest bind of an event run, is what is sent balanced, what is listed readable, what is accepted stored whole; does the last rule decide and do both selections agree; do windows land where they were shown; is the ring between two threads a queue (`ImplementsBoundedQueue`)? | holds |
| `logging` | Does the ring keep the newest lines and the directory the newest files, is the file complete, does a viewer follow, does shutdown end? | holds |
| `display` | Is each frame right after any reset, the overlay hidden when idle, a parked window drawn? | holds |

`TypeOK` of `OverlayInteraction`, `MouseHook`, `OutlinePipeline`, `LuaRuntime` and
`LogPipeline` is proved and not run; `keyboard_modal` checks that of `Keyboard`,
which bounds the queue of keys.

Bounds, and why they are enough:

- *Overlay.* Two interactions: every property is about one interaction or
  about one and its successor (a result or a move of the first that arrives in
  the second; a grab while the first is put back).  Two windows tell "the
  target" from "another one", one refuses to move.  The two settings between
  them use the three preview modes, for drags and for resizes, and one change
  retires the worker.  One failed present: a second one meets the state the
  first one left, which is an initial one.  The liveness run has the same
  bounds, but no window is maximized (`CONSTRAINT NoneMaximized`): a maximized
  window is restored before the overlay is reserved, so that it only changes
  what the mouse thread does before an interaction is accepted, and the
  safety run includes it.  The queues keep their real capacity
  of 15, which `QueuesStayShort` shows is out of reach.
- *Keyboard.* Five events are the press, a repeat and the release of super with
  a key or a modifier in between.  Two requests are a reload and an exit, or two
  reloads.  The queue of three overflows within five events, so that
  `keyboard_modal` includes overflow recovery.  With the real 63 places the same
  happens when auto-repeat fills the queue while a load or a callback holds the
  thread.  `keyboard_lost_wakeup` needs four events.  `keyboard_winkey`
  has two Win keys, since the super key must change.
- *Mouse hook.* Two presses of super let the requests of one press overtake
  those of the other.  Four button events and a queue of one place overflow it
  while an operation is under way: the press that begins it is popped, one event
  is queued, and the next, which may be the release, is dropped.
  `mouse_stuck` needs a third press of super and has two places.
- *Outline.* The first configuration and a reload: a request, and a newer one that
  overtakes it at any point.  Two versions of a shader file and of the file it
  includes tell stale from fresh; one kill of the process at every point, so that
  the cache of one process is read by the next.  The theorems hold for any number
  of reloads.
- *Lua.* Two loads are a load and a reload, either of which may fail; five
  references are all that three API calls can own (a timer takes two, a bind one).
  Two timers are needed for one to cancel the other in its round.  Three API calls
  over a behaviour reach two timers and a cancel, or a bind, another and its
  call; two keys, changes of super or requests of the tray are handled.  Time runs from 0 to 1: a
  deadline is past or not.
- *Algorithms.* Chords of up to three tokens over two generic and two sided
  modifiers and two key names, two binds; tables with four indices; desktops of
  two windows, one over the other, with up to two rules; windows on a screen of
  five coordinates per axis with limits that do and do not bite; a ring of four
  slots, whose indices wrap, and two items to tell their order.
- *Log.* Two messages of different level, a ring of one (the second evicts the
  first), a viewer that keeps two lines and drops one at once (three lines reach
  the trim, one of them printed), two viewers (one is detached while the other
  starts), two clicks or prints, four old files with room for two, the oldest of
  which cannot be removed.
- *Display.* Two targets and two interactions, so that one meets what the other
  left; two sizes, one custom shader beside the built-in one, two failures, two
  updates and two display changes: the second failure may hit the recovery from
  the first.

The actions `WindowMoves`, `TimerExpires`, `EditShader`, `EditInclude`,
`PublishSettings`, `EnterNative`, `Crash` and the user's keys and buttons are the environment.  `CHECK_DEADLOCK` is
off: a system at rest after its last event, or after the last step a bound
allows, has no step to take.

### Fairness

Each thread is weakly fair as a whole, which is what the scheduler gives.  In
`overlay_liveness` the mouse thread is fair up to the commit: the user lets the
button go in the end, and a queue overflow need not happen.  The placement
worker is fair: the target window answers `SetWindowPos`.  A window that hangs
does block it, and the overlay thread with it in `WaitIdle`
(`service_placement.cpp:106`); the specification does not claim otherwise.
`ReloadServed` assumes that super is up again and again, since a reload is
deferred while it is down (`keyboard.cpp:305`).  A timer need never expire.
`LuaRuntime` lets the thread go on outside Lua.  Inside, the count hook runs in
interpreted code only: LuaJIT is built without hook checks in compiled traces
(`cmake/LuaJIT.cmake:27`), and a C function has none.  Code that is interpreted
again and again meets the hook (strong fairness of the time limit); that native code
ends, or that Lua code returns by itself, is not assumed, which is what
`CallbackReturns` and `TimersYield` are about: they except a callback that stays in
native code for ever.  In `OutlinePipeline` the two threads are weakly fair and
the compile thread gets `m_mutex` in the end, which the loop holds from the
predicate to the sleep only (strong fairness of `PublishInstall`); nothing
else need wake the loop.  In `LogPipeline` the worker, each
viewer's thread and a caller that has begun an operation are fair; nobody has to
write, click or close.
`InteractionEnds` leaves out a loop that never started (`service.cpp:107`):
`Send` goes on accepting then, and nothing takes the command.  It and
`ShutdownCompletes` except a loop that sleeps for good after a lost notification
(`wait` is `overslept` from then on): whatever fails otherwise, they hold.

## 4. Findings

1. `keyboard_winkey`.  A Win key is pressed while it is not the super key, and
   passes.  A load or a callback makes it the super key.  Its release finds
   `super_down` false and is swallowed (`keyboard.cpp:151-153`): Windows sees a
   held Win key, which the comment at 148 says must not happen.
2. `keyboard_lost_wakeup`.  `RequestReloadConfig` notifies without the mutex
   (`keyboard.cpp:79-80`).  A request between predicate and sleep is served at
   the next key or timer, or never.
3. `mouse_stuck`.  The finish request is served before button events queued
   earlier (`mouse.cpp:342-354`).  A press queued just before super is released
   begins an operation afterwards.  Its release is not hooked any more, and the
   window follows the cursor until the next press and release of super.

Behaviour that no text of the repository contradicts is listed as a hazard with a
note instead: among others, overflow recovery racing with the hook
(`keyboard.cpp:217`), a repeating timer with a delay of zero (`runtime.cpp:286`),
a time limit caught by `pcall` or never met by native code (`timeout.cpp:10`), a
shader served from the cache although a file it includes was edited
(`cache.cpp:103`) and the dropped first frame of a
capture (`window_snapshot.cpp:171`).

## 5. Proofs

Each theorem holds for every value of the constants that satisfies the named
assumptions of the modules: any number of windows, buttons, keys, files,
shaders, any capacity and any bound.  The assumptions say what the bounds are
(natural numbers, a first load), that the model's null values are no members
of the sets beside them, and what a desktop or a rectangle is: a window has an
area, and is hit where it is visible.  There are settings values and a wrong
value is none of them, a palette has at least one place, and a viewer keeps more
lines than it drops at once.

A safety property is proved through an inductive invariant, which says what the
property leaves unsaid about the states in between.  TLC agrees with these
invariants on the instances of section 3 (extend the MC module and the proof
module, and give `IInv` and its companions as invariants).

| Module | Properties proved | The invariant they need |
|---|---|---|
| `OverlayInteraction_proofs` | `TypeOK`, `ReservationOwned` | `ActiveWhileDrawing`: a frame is drawn or torn down for an active session only.  A teardown frees the reservation for whoever is active, and would free the mouse's or a queued one's if nobody were. |
| | `QueuesStayShort` | `QueueInv`: at most one command of an interaction that has begun, then a Begin with the command that ends it.  `LoadInv`: the results in the queue with those the worker still owes are at most four, three except while a restore is under way, two once a pass has drained them. |
| | `PreviewIsTemporary` | `PlaceInv`: a request that moves a window to a preview position belongs to the active interaction, and while that is ending the request that puts the window back is under way behind it.  `IdInv`: until a Begin is applied nothing carries its number, so that a late result is of an older one. |
| | `FinishingIsServed` | The same, for a result queue of three places or more, which `service.hpp` (15) has: with fewer the result that the ending interaction waits for could be refused. |
| | implements `WindowGrab` | The same; `Refines` maps the initial states and each step to a step of `WindowGrab` or a stutter. |
| `Keyboard_proofs` | `TypeOK`, `NoReloadAfterExit` | `LostInv`: recovery from an overflow runs only after an event was lost. |
| | `SuperViewsAgree`, `DeferredHasTrigger` | `ViewInv`: the hook's flag is the key's state; what the mouse was told and what the events in the queue will tell Lua lead to it.  Both assume `SuperKept`. |
| `MouseHook_proofs` | `TypeOK`, `HookFollowsSuper` | `RequestsPending`: wherever the hook thread stands, what it does next agrees with the last call or a request of that call is pending. |
| | `ButtonsNotStuck` | `ButtonInv`: from the seeding on, each button that Windows believes held may pass. |
| `OutlinePipeline_proofs` | `TypeOK`, `CacheTruthful` | `CacheInv`: a meta file is never of a version to come, and an entry about to be stored is no older than the one it replaces, so that neither rename alone makes an entry look current. The included file is covered up to the last save of the shader file; files in `spoiled` are excepted. |
| | `ShownIsConfigured` | `UpdateInv`: unless it was lost, the update of the last configuration is requested, in work, in the mailbox or shown, with bytecode no older than `asked`. |
| `LuaRuntime_proofs` | `TypeOK`, `RefsAccounted` | `RefInv`: owners hold different references, and together those of the registry.  The property counts; the invariant says the same with injections. |
| | `PublishedIsPending`, `SafeModeIsClean` | `ModeInv`: where the thread is decides whether there is a Lua state and what runs in it. |
| | `TimersFireRightly` | `TimerInv`: a timer is in the heap once, of the present state, and not among those that fired. |
| `LogPipeline_proofs` | `TypeOK`, `LogIsComplete` | `FileInv`: the lines written, then those the worker holds, then those in the queue are what was accepted.  `StopInv`: the flag, the end of the worker, the close of the file, in this order. |
| | `KeepsTheNewest` | `RingInv`: consecutive sequence numbers up to the last. `KeptInv`: which old files remain.  The newest file that is removed has enough newer ones, which all stay (`NewerStay`). |
| | `ViewerFollowsLog` | `ViewersInv`: only the viewer that `m_impl` points to is active, and it has a window from the moment it asks for one.  Lines carry numbers up to the last one.  A viewer that the worker passes by with lines in hand (`Missed`) began its loop with the last line, so that it misses none (`Follows`).  What it shows is what its filters leave of what it keeps (`Current`). |
| `Display_proofs` | `FrameIsRight` | `RendererInv`: after every step, those of a reset included, the viewport the renderer believes in is the context's and an outline that is not dirty is bound. |
| | `HiddenWhenIdle`, `ParkHasThumbnail` | `HideInv`, `ParkInv`: the flags of the preview follow one another, and the capture under way is of the window that was grabbed. |
| `Algorithms_proofs` | `BoundsFollowCursor`, `LandsAsShown` | `GeometryInv`: the session remembers a point inside the window it began with, and the corner that belongs to it. For all integers. |
| | `LastRuleDecides`, `RoutinesAgree` | `SelectionInv`: an answer is what the routine computes on this desktop. `LastRuleDecides` is an equivalence, shown in both directions: `GrabbedIsGrabbable`, `GrabbableIsGrabbed`. |
| | `TablesReadWhole` | `TablesInv`: what is stored is what the accepted table holds. |
| | `LatestBindRuns` | `ChordsInv`: the registry maps an event to the last of the texts that expand to it; `BindsMeaning` shows that they are the texts that stand for it. |
| | `SentIsBalanced` | `SentInv`: what was sent is the inputs of its text.  That these are balanced is shown from their closed form: the modifiers in order, the key, the modifiers in reverse. |
| | `ReadsBack` | `ReadsBackInv`: only events that a key press can be are bound, and a stored list is the list of a table that was accepted. |
| | implements `BoundedQueue` | `RingInv`: a thread inside `push` has found room that only grows and a thread inside `pop` an item that stays, so that the slot between the two is touched by one of them. For rings of any size. |

How they are laid out: a lemma per action, or per group of actions that change
the same variables, and under it a step per conjunct that the action can
disturb.  Lemmas named for a group (`ReservationFrame`, ...) say what the
steps that leave some variables alone preserve.

Two properties of the keyboard have a hypothesis: `SuperKept`, which is
`[][superVk' = superVk]_superVk`.  It is not vacuous: the super key is an
input of the behaviour that most configurations never touch, and
`keyboard_modal` checks the two properties on a set of super keys with one
element, where every behaviour satisfies it.  Without it they are false: after a
change the release of the former key is not recognised as the release of super,
which is the first finding.

What a loop over a sequence returns (`FoldLeft`) is proved without induction
over data: the fold's definition goes from a set of indices to the same set
without its largest, and `SameSteps` shows that a closed form that takes the
same steps is the same function, from a smallest counterexample (`WFMin` for
the order of the natural numbers).  `FoldExists` shows in the same way that a
function with these steps exists, which is what the definition chooses.  The two
lemmas are in `Algorithms_proofs` and in `LogPipeline_proofs`, which extend
models with different constants.

Every safety property that a passing run checks is proved.  Only model-checked is
liveness: `InteractionEnds`, `ShutdownCompletes` (overlay and log),
`ReloadServedWhenWoken`, `OperationEnds`, `ComesToRest`, `CallbackReturns`,
`TimersYield`, and the violated ones.  The prover does not reason about fairness.

## 6. What is not modelled

- The API modules `audio`, `fs`, `system`, `clipboard`, `monitor`, `mouse_api`,
  `color` and `vec`, `win/launch.cpp`, `win/monitor.cpp` and `win/ui.cpp`: each
  operation is one sequence of Win32 calls on the calling thread that keeps
  nothing.
- What a draw call paints, shader compilation, painting and text selection of the
  log window, the tray menu, performance counters: no protocol.  What others
  see of them (a present that fails, a compiler that fails) is a
  nondeterministic outcome.
- Destruction of the keyboard and of the mouse, whose members go in an order
  that deserves its own model (hazard at `keyboard.hpp:77`), and the sequential
  startup in `main.cpp`.
- Which modifiers `SeedModifierStates` finds (`keyboard.cpp:268`), and cursor
  positions in `MouseHook` (`mouse.cpp:253`).
- Edits of an included file after the last save of the shader file, as far as the
  properties go: the model has them, but the cache does not notice them, so that
  nothing is promised.  One included file stands for all; a shader file
  that no longer exists is a compilation that fails.
- When native code goes back to the interpreter, and what a blocking C function
  waits for.
- Errors other than a missing window of `PostMessageW` (a full message queue drops
  the line, `log_window.cpp:979`; `close` relies on its message): `Post` succeeds
  while there is a window.
- Pixels outside `WindowGeometry`, milliseconds, and the rate limit of live
  previews: any frame may or may not place the window.
- Win32, D3D11, WinRT and LuaJIT themselves: modelled from how the code uses them.

## 7. Plan

What is left, in order of importance:

1. Destruction of the keyboard and of the mouse; startup and shutdown of `main`
   with the tray.
2. What the C++ memory model allows beyond an interleaving: a load in
   `SpscQueue` that sees an index as it was a moment ago.
