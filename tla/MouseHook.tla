------------------------------- MODULE MouseHook -------------------------------
(***************************************************************************)
(* mouse/mouse.cpp: what starts and ends a window operation.  The keyboard *)
(* hook thread calls InstallHook and UninstallHook as super goes down and  *)
(* up; the mouse hook thread ("M-H") hooks and unhooks; the hook procedure *)
(* queues button events; the dispatch thread ("M-D") serves them.  What an *)
(* operation then does is module MouseOperation.                           *)
(***************************************************************************)
EXTENDS Integers, Sequences

CONSTANTS
  Buttons,        \* the left and the right button
  NoButton,       \* m_sessionType when no operation is in progress
  QueueCapacity,  \* capacity of m_buttonQueue: 15 (SpscQueue of size 16)
  MaxPresses,     \* bound: presses of super in one behaviour
  MaxEvents       \* bound: button events in one behaviour

ASSUME MouseHookAssumption ==
  /\ NoButton \notin Buttons
  /\ QueueCapacity \in Nat \ {0}
  /\ MaxPresses \in Nat
  /\ MaxEvents \in Nat

VARIABLES
  superHeld,   \* the last call was InstallHook
  caller,      \* next store of InstallHook or UninstallHook in progress
  presses,     \* presses of super so far
  installRequested, uninstallRequested, finishRequested, queueOverflowed,
  hookPc,      \* where HookThreadMain stands; "asleep": in m_hookCv.wait
  message,     \* the hook thread's message queue holds a WM_NULL
  hooked,      \* WH_MOUSE_LL is installed
  allowUp,     \* buttons whose m_allow...UpPassthrough is set
  raced,       \* history: M-H ran between the two stores of a call
  failed,      \* history: SetWindowsHookExW failed
  missed,      \* history: a notification met a thread about to sleep and was lost
  gap,         \* history: a button changed between the seeding of allowUp and the hook
  held,        \* buttons the user holds
  sysHeld,     \* buttons Windows believes are held
  events,      \* button events so far
  buttonQueue,
  dispatchPc,  \* where DispatchThreadMain stands
  op           \* the button whose operation is in progress, or NoButton

callVars == <<superHeld, caller, presses, installRequested, uninstallRequested, finishRequested, message>>
userVars == <<held, sysHeld, events, buttonQueue, queueOverflowed>>
hookVars == <<hookPc, hooked, allowUp, gap, raced, failed>>
dispatchVars == <<dispatchPc, op>>
vars == <<callVars, userVars, hookVars, dispatchVars, missed>>

ButtonEvent == [button : Buttons, down : BOOLEAN]

Init ==
  /\ superHeld = FALSE
  /\ caller = "idle"
  /\ presses = 0
  /\ installRequested = FALSE
  /\ uninstallRequested = FALSE
  /\ finishRequested = FALSE
  /\ queueOverflowed = FALSE
  /\ hookPc = "wait"
  /\ message = FALSE
  /\ hooked = FALSE
  /\ allowUp = {}
  /\ gap = FALSE
  /\ raced = FALSE
  /\ failed = FALSE
  /\ missed = FALSE
  /\ held = {}
  /\ sysHeld = {}
  /\ events = 0
  /\ buttonQueue = <<>>
  /\ dispatchPc = "wait"
  /\ op = NoButton

\* notify_one without the mutex: lost on a thread that has evaluated its predicate ("checked").
Woken(pc) == IF pc = "asleep" THEN "wait" ELSE pc
Notify(pc) == missed' = (missed \/ pc = "checked")

-------------------------------------------------------------------------------
\* InstallHook, store by store; the last one is followed by notify_one.
InstallHook ==
  /\ caller = "idle"
  /\ ~superHeld
  /\ presses < MaxPresses
  /\ superHeld' = TRUE
  /\ presses' = presses + 1
  /\ installRequested' = TRUE
  /\ caller' = "clearUninstall"
  /\ UNCHANGED <<uninstallRequested, finishRequested, message, userVars, hookVars, dispatchVars, missed>>

ClearUninstall ==
  /\ caller = "clearUninstall"
  /\ uninstallRequested' = FALSE
  /\ hookPc' = Woken(hookPc)
  /\ Notify(hookPc)
  /\ caller' = "idle"
  /\ UNCHANGED <<superHeld, presses, installRequested, finishRequested, message, userVars,
                 hooked, allowUp, gap, raced, failed, dispatchVars>>

\* UninstallHook, store by store.
UninstallHook ==
  /\ caller = "idle"
  /\ superHeld
  /\ superHeld' = FALSE
  /\ uninstallRequested' = TRUE
  /\ caller' = "clearInstall"
  /\ UNCHANGED <<presses, installRequested, finishRequested, message, userVars, hookVars, dispatchVars, missed>>

ClearInstall ==
  /\ caller = "clearInstall"
  /\ installRequested' = FALSE
  /\ caller' = "finish"
  /\ UNCHANGED <<superHeld, presses, uninstallRequested, finishRequested, message, userVars,
                 hookVars, dispatchVars, missed>>

RequestFinish ==
  /\ caller = "finish"
  /\ finishRequested' = TRUE
  /\ dispatchPc' = Woken(dispatchPc)
  /\ Notify(dispatchPc)
  /\ caller' = "post"
  /\ UNCHANGED <<superHeld, presses, installRequested, uninstallRequested, message, userVars,
                 hookVars, op>>

\* Mutant: the hook thread is not woken out of GetMessageW.
NoMessage ==
  /\ caller = "post"
  /\ hookPc' = Woken(hookPc)
  /\ Notify(hookPc)
  /\ caller' = "idle"
  /\ UNCHANGED <<superHeld, presses, installRequested, uninstallRequested, finishRequested, message,
                 userVars, hooked, allowUp, gap, raced, failed, dispatchVars>>

PostMessage ==
  /\ caller = "post"
  /\ message' = TRUE
  /\ hookPc' = Woken(hookPc)
  /\ Notify(hookPc)
  /\ caller' = "idle"
  /\ UNCHANGED <<superHeld, presses, installRequested, uninstallRequested, finishRequested, userVars,
                 hooked, allowUp, gap, raced, failed, dispatchVars>>

CallerNext == ClearUninstall \/ ClearInstall \/ RequestFinish \/ PostMessage

-------------------------------------------------------------------------------
\* One step of HookThreadMain that leaves the other threads alone.
HookStep(from, to) ==
  /\ hookPc = from
  /\ hookPc' = to
  /\ raced' = (raced \/ caller \in {"clearUninstall", "clearInstall"})
  /\ UNCHANGED <<superHeld, caller, presses, finishRequested, userVars, dispatchVars, missed>>

HookWait ==
  /\ HookStep("wait", IF installRequested THEN "take" ELSE "checked")
  /\ UNCHANGED <<installRequested, uninstallRequested, message, hooked, allowUp, gap, failed>>

HookSleeps ==
  /\ HookStep("checked", "asleep")
  /\ UNCHANGED <<installRequested, uninstallRequested, message, hooked, allowUp, gap, failed>>

TakeInstall ==
  /\ HookStep("take", "decide")
  /\ installRequested' = FALSE
  /\ UNCHANGED <<uninstallRequested, message, hooked, allowUp, gap, failed>>

\* An uninstall request cancels the installation.
Decide ==
  /\ HookStep("decide", IF uninstallRequested THEN "cancel" ELSE "seed")
  /\ UNCHANGED <<installRequested, uninstallRequested, message, hooked, allowUp, gap, failed>>

CancelInstall ==
  /\ HookStep("cancel", "wait")
  /\ uninstallRequested' = FALSE
  /\ UNCHANGED <<installRequested, message, hooked, allowUp, gap, failed>>

\* Mutant: the passthrough flags are not seeded.
NoPassthrough ==
  /\ HookStep("seed", "set")
  /\ UNCHANGED <<installRequested, uninstallRequested, message, hooked, allowUp, gap, failed>>

\* GetAsyncKeyState: the buttons held by now may pass their release once.
SeedPassthrough ==
  /\ HookStep("seed", "set")
  /\ allowUp' = held
  /\ UNCHANGED <<installRequested, uninstallRequested, message, hooked, gap, failed>>

SetHook ==
  /\ HookStep("set", "loop")
  /\ hooked' = TRUE
  /\ UNCHANGED <<installRequested, uninstallRequested, message, allowUp, gap, failed>>

SetHookFails ==
  /\ HookStep("set", "wait")
  /\ failed' = TRUE
  /\ UNCHANGED <<installRequested, uninstallRequested, message, hooked, allowUp, gap>>

CheckUninstall ==
  /\ HookStep("loop", IF uninstallRequested THEN "unhook" ELSE "getMessage")
  /\ UNCHANGED <<installRequested, uninstallRequested, message, hooked, allowUp, gap, failed>>

GetMessage ==
  /\ message
  /\ HookStep("getMessage", "loop")
  /\ message' = FALSE
  /\ UNCHANGED <<installRequested, uninstallRequested, hooked, allowUp, gap, failed>>

Unhook ==
  /\ HookStep("unhook", "unhooked")
  /\ hooked' = FALSE
  /\ UNCHANGED <<installRequested, uninstallRequested, message, allowUp, gap, failed>>

Unhooked ==
  /\ HookStep("unhooked", "wait")
  /\ uninstallRequested' = FALSE
  /\ allowUp' = {}
  /\ UNCHANGED <<installRequested, message, hooked, gap, failed>>

HookNext ==
  \/ HookWait \/ HookSleeps \/ TakeInstall \/ Decide \/ CancelInstall \/ SeedPassthrough
  \/ SetHook \/ CheckUninstall \/ GetMessage \/ Unhook \/ Unhooked

-------------------------------------------------------------------------------
\* The user presses or releases a button; m_latestMousePos is of no concern here.
UserButton(b, down) ==
  /\ events < MaxEvents
  /\ events' = events + 1
  /\ down <=> b \notin held
  /\ held' = IF down THEN held \cup {b} ELSE held \ {b}
  /\ gap' = (gap \/ hookPc = "set")

Deliver(b, down) == sysHeld' = IF down THEN sysHeld \cup {b} ELSE sysHeld \ {b}

ButtonUnhooked(b, down) ==
  /\ ~hooked
  /\ UserButton(b, down)
  /\ Deliver(b, down)
  /\ UNCHANGED <<buttonQueue, queueOverflowed, hookPc, hooked, allowUp, raced, failed, missed, callVars, dispatchVars>>

\* HookProc hides the event, except one release of a button held since before the hook.
ButtonHooked(b, down) ==
  /\ hooked
  /\ UserButton(b, down)
  /\ IF Len(buttonQueue) < QueueCapacity
     THEN /\ buttonQueue' = Append(buttonQueue, [button |-> b, down |-> down])
          /\ UNCHANGED queueOverflowed
     ELSE /\ queueOverflowed' = TRUE
          /\ UNCHANGED buttonQueue
  /\ IF ~down /\ b \in allowUp
     THEN Deliver(b, down) /\ allowUp' = allowUp \ {b}
     ELSE UNCHANGED <<sysHeld, allowUp>>
  /\ dispatchPc' = Woken(dispatchPc)
  /\ Notify(dispatchPc)
  /\ UNCHANGED <<hookPc, hooked, raced, failed, callVars, op>>

-------------------------------------------------------------------------------
DispatchStep(from, to) ==
  /\ dispatchPc = from
  /\ dispatchPc' = to
  /\ UNCHANGED <<superHeld, caller, presses, installRequested, uninstallRequested, message,
                 held, sysHeld, events, hookVars, missed>>

DispatchWait ==
  /\ DispatchStep("wait", IF buttonQueue # <<>> \/ queueOverflowed \/ finishRequested
                          THEN "finish" ELSE "checked")
  /\ UNCHANGED <<finishRequested, buttonQueue, queueOverflowed, op>>

DispatchSleeps ==
  /\ DispatchStep("checked", "asleep")
  /\ UNCHANGED <<finishRequested, buttonQueue, queueOverflowed, op>>

\* m_finishRequested is exchanged: FinishOperation.
ServeFinish ==
  /\ DispatchStep("finish", "overflow")
  /\ finishRequested' = FALSE
  /\ op' = IF finishRequested THEN NoButton ELSE op
  /\ UNCHANGED <<buttonQueue, queueOverflowed>>

\* Mutant: the overflow is only logged.
ServeOverflowOnly ==
  /\ DispatchStep("overflow", "events")
  /\ queueOverflowed' = FALSE
  /\ UNCHANGED <<finishRequested, buttonQueue, op>>

\* m_queueOverflowed is exchanged: CancelOperation.
ServeOverflow ==
  /\ DispatchStep("overflow", "events")
  /\ queueOverflowed' = FALSE
  /\ op' = IF queueOverflowed THEN NoButton ELSE op
  /\ UNCHANGED <<finishRequested, buttonQueue>>

\* ProcessButtonEvent: BeginOperation may find no window to grab.
ServeEvent ==
  /\ DispatchStep("events", "events")
  /\ buttonQueue # <<>>
  /\ buttonQueue' = Tail(buttonQueue)
  /\ LET e == Head(buttonQueue)
     IN IF e.down
        THEN op' \in IF op = NoButton THEN {NoButton, e.button} ELSE {op}
        ELSE op' = IF op = e.button THEN NoButton ELSE op
  /\ UNCHANGED <<finishRequested, queueOverflowed>>

EventsDone ==
  /\ buttonQueue = <<>>
  /\ DispatchStep("events", "wait")
  /\ UNCHANGED <<finishRequested, buttonQueue, queueOverflowed, op>>

DispatchNext ==
  DispatchWait \/ DispatchSleeps \/ ServeFinish \/ ServeOverflow \/ ServeEvent \/ EventsDone

Next ==
  \/ InstallHook \/ UninstallHook \/ CallerNext
  \/ HookNext \/ SetHookFails
  \/ \E b \in Buttons, down \in BOOLEAN : ButtonUnhooked(b, down) \/ ButtonHooked(b, down)
  \/ DispatchNext

Spec == Init /\ [][Next]_vars

\* The three threads are scheduled; neither the user nor a failing call is.
FairSpec == Spec /\ WF_vars(CallerNext) /\ WF_vars(HookNext) /\ WF_vars(DispatchNext)

-------------------------------------------------------------------------------
TypeOK ==
  /\ superHeld \in BOOLEAN
  /\ caller \in {"idle", "clearUninstall", "clearInstall", "finish", "post"}
  /\ presses \in 0..MaxPresses
  /\ \A flag \in {installRequested, uninstallRequested, finishRequested, queueOverflowed,
                  message, hooked, raced, failed, missed, gap} : flag \in BOOLEAN
  /\ hookPc \in {"wait", "checked", "asleep", "take", "decide", "cancel", "seed", "set", "loop",
                 "getMessage", "unhook", "unhooked"}
  /\ allowUp \subseteq Buttons
  /\ held \subseteq Buttons
  /\ sysHeld \subseteq Buttons
  /\ events \in 0..MaxEvents
  /\ buttonQueue \in Seq(ButtonEvent)
  /\ Len(buttonQueue) <= QueueCapacity
  /\ dispatchPc \in {"wait", "checked", "asleep", "finish", "overflow", "events"}
  /\ op \in Buttons \cup {NoButton}

(***************************************************************************)
(* Once M-H has come to rest the mouse is hooked exactly while super is    *)
(* held, whatever presses and releases overtook each other, provided no    *)
(* step of M-H fell between the two stores of one call, no notification    *)
(* was lost and the hook could be set.                                     *)
(***************************************************************************)
HookAtRest ==
  /\ caller = "idle"
  /\ hookPc = "asleep" \/ (hookPc = "getMessage" /\ ~message)

HookFollowsSuper ==
  HookAtRest /\ ~raced /\ ~missed =>
    /\ hooked => superHeld
    /\ superHeld /\ ~failed => hooked

(***************************************************************************)
(* A button that was pressed before the hook hid events does not stay      *)
(* pressed for Windows: its release passes, once.  Only a button that      *)
(* changes between GetAsyncKeyState and SetWindowsHookExW may stick.       *)
(***************************************************************************)
ButtonsNotStuck == ~gap => sysHeld \subseteq held

(***************************************************************************)
(* "SUPER + left mouse window dragging": with super and every button up    *)
(* and nothing left to process, no operation is in progress.               *)
(***************************************************************************)
DispatchAtRest ==
  /\ caller = "idle"
  /\ dispatchPc = "asleep"
  /\ buttonQueue = <<>> /\ ~finishRequested /\ ~queueOverflowed

OperationNeedsSuper == DispatchAtRest /\ ~superHeld /\ held = {} => op = NoButton

(***************************************************************************)
(* The operation in progress when super is released, or when a button      *)
(* event is dropped, is finished or cancelled, unless a notification is    *)
(* lost.                                                                   *)
(***************************************************************************)
OperationEnds ==
  []~missed => (((finishRequested \/ queueOverflowed) /\ op # NoButton) ~> op = NoButton)
===============================================================================
