------------------------------- MODULE Keyboard -------------------------------
(***************************************************************************)
(* keyboard/keyboard.cpp: the low-level keyboard hook ("KB-H"), which      *)
(* decides at once whether a key passes and queues it, and the dispatch    *)
(* thread ("KB-D"), which keeps the modal key state, calls Lua and serves  *)
(* the requests to reload and to exit.  The tray requests these from its   *)
(* own thread, Lua callbacks from the dispatch thread.                     *)
(***************************************************************************)
EXTENDS Integers, Sequences

CONSTANTS
  SuperKeys,      \* keys that may be the super key (VK_LWIN, VK_RWIN)
  InitialSuper,   \* the super key the process starts with
  Modifiers,      \* keys IsModifier accepts
  OrdinaryKeys,   \* every other key
  QueueCapacity,  \* capacity of m_keyQueue: 63 (SpscQueue of size 64)
  MaxEvents,      \* bound: key events in one behaviour
  MaxRequests,    \* bound: reload and exit requests in one behaviour
  PreemptibleWait \* TRUE: KB-D may be preempted between predicate and sleep

Keys == SuperKeys \cup Modifiers \cup OrdinaryKeys

ASSUME KeyboardAssumption ==
  /\ InitialSuper \in SuperKeys
  /\ SuperKeys \cap Modifiers = {}
  /\ OrdinaryKeys \cap (SuperKeys \cup Modifiers) = {}
  /\ QueueCapacity \in Nat \ {0}
  /\ MaxEvents \in Nat
  /\ MaxRequests \in Nat
  /\ PreemptibleWait \in BOOLEAN

VARIABLES
  superVk,     \* m_superVk
  superDown,   \* m_hook.super_down
  mouseWanted, \* the last call was pressed (InstallHook) rather than released (UninstallHook)
  queue,       \* m_keyQueue: the encoded key events
  overflowed,  \* m_queueOverflowed
  lost,        \* history: an event was dropped
  hook,        \* HookProc in progress: its event and what is left to do
  phys,        \* keys the user holds
  sysDown,     \* keys Windows and the other hooks believe are held
  events,      \* key events so far
  keys,        \* m_dispatch.keys
  pc,          \* where DispatchThreadMain stands; its last three values belong to m_dispatchCv
  reloadRequested, exitRequested, reloadDeferred, exitHandled,   \* of m_dispatch
  luaSuper,    \* the last argument of the Lua super callback
  requester,   \* the tray's thread: between its check and its exchange, or idle
  requests     \* requests so far

hookVars == <<superDown, queue, overflowed, lost, hook, phys, sysDown, events>>
dispatchVars == <<keys, luaSuper>>
requestVars == <<reloadRequested, exitRequested, reloadDeferred, exitHandled, requester, requests>>
vars == <<superVk, mouseWanted, pc, hookVars, dispatchVars, requestVars>>

KeyEvent == [vk : Keys, down : BOOLEAN]
NoHook == [step |-> "idle", vk |-> InitialSuper, down |-> FALSE, passes |-> TRUE]

Init ==
  /\ superVk = InitialSuper
  /\ superDown = FALSE
  /\ mouseWanted = FALSE
  /\ queue = <<>>
  /\ overflowed = FALSE
  /\ lost = FALSE
  /\ hook = NoHook
  /\ phys = {}
  /\ sysDown = {}
  /\ events = 0
  /\ keys = {}
  /\ pc = "load"
  /\ reloadRequested = FALSE
  /\ exitRequested = FALSE
  /\ reloadDeferred = FALSE
  /\ exitHandled = FALSE
  /\ luaSuper = FALSE
  /\ requester = "idle"
  /\ requests = 0

-------------------------------------------------------------------------------
(***************************************************************************)
(* m_dispatchCv.notify_one without the mutex: it wakes a thread that       *)
(* sleeps, and is lost on one that is about to.                            *)
(***************************************************************************)
NotifyDispatch == pc' = IF pc = "asleep" THEN "wait" ELSE pc

\* CallNextHookEx lets Windows see the event; returning 1 hides it.
Deliver(vk, down, passes) ==
  sysDown' = IF ~passes THEN sysDown ELSE IF down THEN sysDown \cup {vk} ELSE sysDown \ {vk}

(***************************************************************************)
(* HookProc.  The user presses a key, lets it auto-repeat, or releases it. *)
(***************************************************************************)
UserKey(vk, down) ==
  /\ hook.step = "idle"
  /\ events < MaxEvents
  /\ ~down => vk \in phys
  /\ events' = events + 1
  /\ phys' = IF down THEN phys \cup {vk} ELSE phys \ {vk}

\* Not the super key, and super is up: the key is not ours.
HookPassKey(vk, down) ==
  /\ UserKey(vk, down)
  /\ vk # superVk
  /\ ~superDown
  /\ Deliver(vk, down, TRUE)
  /\ UNCHANGED <<superVk, mouseWanted, pc, superDown, queue, overflowed, lost, hook, dispatchVars, requestVars>>

\* Not the super key, and super is down: queued, and hidden unless a modifier.
HookQueueKey(vk, down) ==
  /\ UserKey(vk, down)
  /\ vk # superVk
  /\ superDown
  /\ hook' = [step |-> "push", vk |-> vk, down |-> down, passes |-> vk \in Modifiers]
  /\ UNCHANGED <<superVk, mouseWanted, pc, superDown, queue, overflowed, lost, sysDown, dispatchVars, requestVars>>

\* The super key: super_down is exchanged first.
HookSuperKey(vk, down) ==
  /\ UserKey(vk, down)
  /\ vk = superVk
  /\ superDown' = down
  /\ hook' = [step |-> IF down # superDown THEN "notify" ELSE "push",
              vk |-> vk, down |-> down, passes |-> ~down /\ superDown]
  /\ UNCHANGED <<superVk, mouseWanted, pc, queue, overflowed, lost, sysDown, dispatchVars, requestVars>>

\* NotifySuperPressed or NotifySuperReleased
HookNotify ==
  /\ hook.step = "notify"
  /\ mouseWanted' = hook.down
  /\ hook' = [hook EXCEPT !.step = "push"]
  /\ UNCHANGED <<superVk, pc, superDown, queue, overflowed, lost, phys, sysDown, events, dispatchVars, requestVars>>

\* Mutant: the queue is taken to be one longer than it is.
HookPushPastEnd ==
  /\ hook.step = "push"
  /\ IF Len(queue) <= QueueCapacity
     THEN queue' = Append(queue, [vk |-> hook.vk, down |-> hook.down]) /\ UNCHANGED <<overflowed, lost>>
     ELSE overflowed' = TRUE /\ lost' = TRUE /\ UNCHANGED queue
  /\ Deliver(hook.vk, hook.down, hook.passes)
  /\ hook' = NoHook
  /\ NotifyDispatch
  /\ UNCHANGED <<superVk, mouseWanted, superDown, phys, events, dispatchVars, requestVars>>

\* PushKeyFromHook, and HookProc returns.
HookPush ==
  /\ hook.step = "push"
  /\ IF Len(queue) < QueueCapacity
     THEN queue' = Append(queue, [vk |-> hook.vk, down |-> hook.down]) /\ UNCHANGED <<overflowed, lost>>
     ELSE overflowed' = TRUE /\ lost' = TRUE /\ UNCHANGED queue
  /\ Deliver(hook.vk, hook.down, hook.passes)
  /\ hook' = NoHook
  /\ NotifyDispatch
  /\ UNCHANGED <<superVk, mouseWanted, superDown, phys, events, dispatchVars, requestVars>>

HookNext ==
  \/ \E vk \in Keys, down \in BOOLEAN :
        HookPassKey(vk, down) \/ HookQueueKey(vk, down) \/ HookSuperKey(vk, down)
  \/ HookNotify
  \/ HookPush

-------------------------------------------------------------------------------
(***************************************************************************)
(* RequestReloadConfig and RequestExit read the flags and set theirs       *)
(* afterwards; the dispatch thread may run in between.                     *)
(***************************************************************************)
RequestReloadConfig ==
  /\ requester = "idle"
  /\ requests < MaxRequests
  /\ requests' = requests + 1
  /\ requester' = IF exitRequested \/ exitHandled THEN "idle" ELSE "reload"
  /\ UNCHANGED <<superVk, mouseWanted, pc, hookVars, dispatchVars, reloadRequested, exitRequested,
                 reloadDeferred, exitHandled>>

RequestExit ==
  /\ requester = "idle"
  /\ requests < MaxRequests
  /\ requests' = requests + 1
  /\ requester' = IF exitHandled THEN "idle" ELSE "exit"
  /\ UNCHANGED <<superVk, mouseWanted, pc, hookVars, dispatchVars, reloadRequested, exitRequested,
                 reloadDeferred, exitHandled>>

SetRequest ==
  /\ requester # "idle"
  /\ requester' = "idle"
  /\ reloadRequested' = (reloadRequested \/ requester = "reload")
  /\ exitRequested' = (exitRequested \/ requester = "exit")
  /\ NotifyDispatch
  /\ UNCHANGED <<superVk, mouseWanted, hookVars, dispatchVars, reloadDeferred, exitHandled, requests>>

RequesterNext == RequestReloadConfig \/ RequestExit \/ SetRequest

-------------------------------------------------------------------------------
\* One step of DispatchThreadMain that leaves the hook and the requester alone.
Dispatch(from, to) ==
  /\ pc = from
  /\ pc' = to
  /\ UNCHANGED <<phys, sysDown, events, lost, hook, requester>>

WakePredicate == queue # <<>> \/ overflowed \/ reloadRequested \/ exitRequested

DispatchUnchanged ==
  UNCHANGED <<mouseWanted, superDown, queue, overflowed, dispatchVars, reloadDeferred, exitHandled>>

(***************************************************************************)
(* A Lua callback runs on this thread.  It may assign hw.settings.super,   *)
(* which calls SetSuperKey, and call hw.reload or hw.quit, which the       *)
(* keyboard refuses as it does the tray's requests.                        *)
(***************************************************************************)
CallLua ==
  /\ superVk' \in SuperKeys
  /\ \/ UNCHANGED <<reloadRequested, exitRequested, requests>>
     \/ /\ requests < MaxRequests
        /\ requests' = requests + 1
        /\ reloadRequested' = (reloadRequested \/ ~(exitRequested \/ exitHandled))
        /\ UNCHANGED exitRequested
     \/ /\ requests < MaxRequests
        /\ requests' = requests + 1
        /\ exitRequested' = (exitRequested \/ ~exitHandled)
        /\ UNCHANGED reloadRequested

NoLua == UNCHANGED <<superVk, reloadRequested, exitRequested, requests>>

\* m_dispatchCv.wait: the predicate holds and the expired Lua timers fire, or the thread
\* goes to sleep.
WaitForWork ==
  /\ \/ WakePredicate /\ Dispatch("wait", "exit") /\ CallLua
     \/ /\ ~WakePredicate
        /\ Dispatch("wait", IF PreemptibleWait THEN "checked" ELSE "asleep")
        /\ NoLua
  /\ DispatchUnchanged

FallAsleep == Dispatch("checked", "asleep") /\ DispatchUnchanged /\ NoLua

\* wait_until: the deadline of a Lua timer passed.
TimerExpires == Dispatch("asleep", "exit") /\ DispatchUnchanged /\ CallLua

\* exit_requested is exchanged; ProcessExitRequest returns if it was handled.
TakeExitRequest ==
  /\ Dispatch("exit", IF exitRequested /\ ~exitHandled THEN "exiting" ELSE "reload")
  /\ exitRequested' = FALSE
  /\ exitHandled' = (exitHandled \/ exitRequested)
  /\ UNCHANGED <<superVk, requests, mouseWanted, superDown, queue, overflowed, dispatchVars, reloadRequested,
                 reloadDeferred>>

\* ProcessExitRequest: no reload may follow; PrepareExit calls Lua, whose requests are
\* ignored then; the tray may refuse, and exit may be asked again.
ProcessExitRequest ==
  /\ Dispatch("exiting", "reload")
  /\ reloadRequested' = FALSE
  /\ reloadDeferred' = FALSE
  /\ exitHandled' \in BOOLEAN
  /\ superVk' \in SuperKeys
  /\ UNCHANGED <<requests, mouseWanted, superDown, queue, overflowed, dispatchVars, exitRequested>>

\* Mutants: exit_handled is not asked; a reload that cannot happen now is dropped.
ReloadAfterExit(requested, reload, done) ==
  /\ Dispatch(pc, IF requested /\ ~superDown THEN reload ELSE done)
  /\ reloadDeferred' = ((requested /\ superDown) \/ (reloadDeferred /\ pc = "reload"))

ReloadOrDrop(requested, reload, done) ==
  /\ Dispatch(pc, IF requested /\ ~exitHandled /\ ~superDown THEN reload ELSE done)
  /\ reloadDeferred' = (reloadDeferred /\ pc = "reload")

\* ProcessReloadRequest: refused after exit, deferred while super is down.
ReloadOrDefer(requested, reload, done) ==
  LET granted == requested /\ ~exitHandled
  IN /\ Dispatch(pc, IF granted /\ ~superDown THEN reload ELSE done)
     /\ reloadDeferred' = ((granted /\ superDown) \/ (reloadDeferred /\ pc = "reload"))

TakeReloadRequest ==
  /\ pc = "reload"
  /\ ReloadOrDefer(reloadRequested, "reloading", "overflow")
  /\ reloadRequested' = FALSE
  /\ UNCHANGED <<superVk, requests, mouseWanted, superDown, queue, overflowed, dispatchVars,
                 exitRequested, exitHandled>>

\* LoadConfig and ReloadConfig publish the settings, the super key among them.
LoadConfig ==
  /\ \/ Dispatch("load", "wait")
     \/ Dispatch("reloading", "overflow")
     \/ Dispatch("reloadingDeferred", "keys")
  /\ superVk' \in SuperKeys
  /\ UNCHANGED <<requests, mouseWanted, superDown, queue, overflowed, dispatchVars, reloadRequested,
                 exitRequested, reloadDeferred, exitHandled>>

(***************************************************************************)
(* Overflow recovery: the key state, super_down, the mouse and the queue   *)
(* are cleared one after the other while the hook goes on.                 *)
(***************************************************************************)
TakeOverflow ==
  /\ Dispatch("overflow", IF overflowed THEN "clearSuper" ELSE "keys")
  /\ overflowed' = FALSE
  /\ keys' = IF overflowed THEN {} ELSE keys
  /\ UNCHANGED <<superVk, requests, mouseWanted, superDown, queue, luaSuper, reloadRequested,
                 exitRequested, reloadDeferred, exitHandled>>

ClearSuperDown ==
  /\ Dispatch("clearSuper", "release")
  /\ superDown' = FALSE
  /\ UNCHANGED <<superVk, requests, mouseWanted, queue, overflowed, dispatchVars, reloadRequested,
                 exitRequested, reloadDeferred, exitHandled>>

ReleaseMouse ==
  /\ Dispatch("release", "discard")
  /\ mouseWanted' = FALSE
  /\ UNCHANGED <<superVk, requests, superDown, queue, overflowed, dispatchVars, reloadRequested, exitRequested,
                 reloadDeferred, exitHandled>>

DiscardKey ==
  /\ Dispatch("discard", IF queue = <<>> THEN "keys" ELSE "discard")
  /\ queue' = IF queue = <<>> THEN queue ELSE Tail(queue)
  /\ UNCHANGED <<superVk, requests, mouseWanted, superDown, overflowed, dispatchVars, reloadRequested,
                 exitRequested, reloadDeferred, exitHandled>>

-------------------------------------------------------------------------------
\* ProcessKey, one disjunct per return.
PopKey(e) ==
  /\ pc = "keys"
  /\ queue # <<>>
  /\ Head(queue) = e
  /\ queue' = Tail(queue)
  /\ UNCHANGED <<mouseWanted, superDown, overflowed, exitHandled>>

\* Auto-repeat: the key is set already.
RepeatedKey(e) ==
  /\ PopKey(e)
  /\ e.down
  /\ e.vk \in keys
  /\ Dispatch("keys", "keys")
  /\ NoLua
  /\ UNCHANGED <<dispatchVars, reloadDeferred>>

\* SeedModifierStates takes the modifiers the user holds by now.
SuperPressed(e) ==
  /\ PopKey(e)
  /\ e.down
  /\ e.vk \notin keys
  /\ e.vk = superVk
  /\ keys' = (keys \ Modifiers) \cup (phys \cap Modifiers) \cup {e.vk}
  /\ luaSuper' = TRUE
  /\ CallLua
  /\ Dispatch("keys", "keys")
  /\ UNCHANGED reloadDeferred

\* DispatchBind calls Lua when the super key is set.
KeyPressed(e) ==
  /\ PopKey(e)
  /\ e.down
  /\ e.vk \notin keys
  /\ e.vk # superVk
  /\ keys' = keys \cup {e.vk}
  /\ IF e.vk \notin Modifiers /\ superVk \in keys
     THEN CallLua
     ELSE NoLua
  /\ Dispatch("keys", "keys")
  /\ UNCHANGED <<luaSuper, reloadDeferred>>

KeyReleased(e) ==
  /\ PopKey(e)
  /\ ~e.down
  /\ e.vk # superVk
  /\ keys' = keys \ {e.vk}
  /\ Dispatch("keys", "keys")
  /\ NoLua
  /\ UNCHANGED <<luaSuper, reloadDeferred>>

\* Mutants: the keys are not cleared; the deferred reload is not looked at.
SuperReleasedKeepsKeys(e) ==
  /\ PopKey(e)
  /\ ~e.down
  /\ e.vk = superVk
  /\ luaSuper' = FALSE
  /\ ReloadOrDefer(reloadDeferred, "reloadingDeferred", "keys")
  /\ NoLua
  /\ UNCHANGED keys

SuperReleasedOnly(e) ==
  /\ PopKey(e)
  /\ ~e.down
  /\ e.vk = superVk
  /\ keys' = {}
  /\ luaSuper' = FALSE
  /\ Dispatch("keys", "keys")
  /\ NoLua
  /\ UNCHANGED reloadDeferred

\* Everything is cleared, and a deferred reload is looked at again.
SuperReleased(e) ==
  /\ PopKey(e)
  /\ ~e.down
  /\ e.vk = superVk
  /\ keys' = {}
  /\ luaSuper' = FALSE
  /\ CallLua
  /\ ReloadOrDefer(reloadDeferred, "reloadingDeferred", "keys")

KeysDone ==
  /\ queue = <<>>
  /\ Dispatch("keys", "wait")
  /\ DispatchUnchanged
  /\ NoLua

ProcessKey ==
  \E e \in KeyEvent :
    RepeatedKey(e) \/ SuperPressed(e) \/ KeyPressed(e) \/ KeyReleased(e) \/ SuperReleased(e)

DispatchNext ==
  \/ WaitForWork \/ FallAsleep \/ TakeExitRequest \/ ProcessExitRequest \/ TakeReloadRequest
  \/ LoadConfig \/ TakeOverflow \/ ClearSuperDown \/ ReleaseMouse \/ DiscardKey
  \/ ProcessKey \/ KeysDone

Next == HookNext \/ RequesterNext \/ DispatchNext \/ TimerExpires

Spec == Init /\ [][Next]_vars

(***************************************************************************)
(* Both threads are scheduled and a hook call runs to its end; the user    *)
(* need not press or release anything, and no timer need be set.           *)
(***************************************************************************)
Fairness ==
  /\ WF_vars(DispatchNext)
  /\ WF_vars(HookNotify \/ HookPush)
  /\ WF_vars(SetRequest)

FairSpec == Spec /\ Fairness

-------------------------------------------------------------------------------
Reloading == {"reloading", "reloadingDeferred"}
Waiting   == {"wait", "checked", "asleep"}

TypeOK ==
  /\ superVk \in SuperKeys
  /\ superDown \in BOOLEAN
  /\ mouseWanted \in BOOLEAN
  /\ queue \in Seq(KeyEvent)
  /\ Len(queue) <= QueueCapacity
  /\ overflowed \in BOOLEAN
  /\ lost \in BOOLEAN
  /\ hook \in [step : {"idle", "notify", "push"}, vk : Keys, down : BOOLEAN, passes : BOOLEAN]
  /\ phys \subseteq Keys
  /\ sysDown \subseteq Keys
  /\ events \in 0..MaxEvents
  /\ keys \subseteq Keys
  /\ pc \in {"load", "exit", "exiting", "reload", "overflow", "clearSuper", "release", "discard",
             "keys"} \cup Reloading \cup Waiting
  /\ reloadRequested \in BOOLEAN
  /\ exitRequested \in BOOLEAN
  /\ reloadDeferred \in BOOLEAN
  /\ exitHandled \in BOOLEAN
  /\ luaSuper \in BOOLEAN
  /\ requester \in {"idle", "reload", "exit"}
  /\ requests \in 0..MaxRequests

(***************************************************************************)
(* When everything is quiet the hook, the mouse, the modal key state and   *)
(* Lua agree whether super is held, and they agree with the user.  With    *)
(* one super key and no event dropped this survives every interleaving.    *)
(***************************************************************************)
Quiet == pc \in Waiting /\ queue = <<>> /\ hook.step = "idle"

SuperViewsAgree ==
  Quiet /\ ~lost =>
    /\ superDown = (superVk \in phys)
    /\ mouseWanted = superDown
    /\ luaSuper = superDown
    /\ (superVk \in keys) = superDown

(***************************************************************************)
(* A deferred reload is never forgotten unless an event was dropped: super *)
(* is still down, or the release that triggers it is on its way.           *)
(***************************************************************************)
DeferredHasTrigger ==
  reloadDeferred /\ ~lost =>
    \/ superDown
    \/ hook.step # "idle" /\ hook.vk = superVk /\ ~hook.down
    \/ \E i \in DOMAIN queue : queue[i].vk = superVk /\ ~queue[i].down

(***************************************************************************)
(* Once an exit request is being handled no configuration is loaded any    *)
(* more, whatever other threads requested in the meantime.                 *)
(***************************************************************************)
NoReloadAfterExit == pc \in Reloading => ~exitHandled

(***************************************************************************)
(* "Windows and other hooks dont see a permanently held Win key": a super  *)
(* key that Windows believes to be held is held by the user.               *)
(***************************************************************************)
WinKeyNotStuck == hook.step = "idle" => sysDown \cap SuperKeys \subseteq phys

(***************************************************************************)
(* A reload that was requested or deferred is carried out, or an exit      *)
(* supersedes it, as soon as the user lets go of super.                    *)
(***************************************************************************)
ReloadServed ==
  []<>(~superDown) /\ []~lost =>
    ((reloadRequested \/ reloadDeferred) ~> (pc \in Reloading \/ exitRequested \/ exitHandled))

(***************************************************************************)
(* The same while something wakes the dispatch thread now and then, a key  *)
(* or a timer: a wakeup may be lost (ReloadServed does not hold), but the  *)
(* request is not.                                                         *)
(***************************************************************************)
ReloadServedWhenWoken == []<>(pc # "asleep") => ReloadServed
===============================================================================
