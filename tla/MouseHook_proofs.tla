---------------------------- MODULE MouseHook_proofs ----------------------------
(***************************************************************************)
(* Proofs about MouseHook, for any set of buttons, queue capacity and      *)
(* bounds.                                                                 *)
(***************************************************************************)
EXTENDS MouseHook, TLAPS

-------------------------------------------------------------------------------
(***************************************************************************)
(* Why HookFollowsSuper holds.  The requests of the last call survive      *)
(* until M-H has acted on them: wherever M-H stands, either what it does   *)
(* next agrees with the last call or a request of that call is pending.    *)
(***************************************************************************)
Hooked == {"loop", "getMessage", "unhook"}
Idling == {"wait", "checked", "asleep", "cancel", "unhook", "unhooked"}
Hooking == {"take", "decide", "seed", "set", "loop", "getMessage"}

CallsAgree ==
  /\ hooked <=> hookPc \in Hooked
  /\ caller = "clearUninstall" => superHeld
  /\ caller \in {"clearInstall", "finish", "post"} => ~superHeld

RequestsPending ==
  /\ superHeld /\ caller # "clearUninstall" => ~uninstallRequested
  /\ ~superHeld /\ caller # "clearInstall" => ~installRequested
  /\ caller = "clearUninstall" => installRequested
  /\ caller = "clearInstall" => uninstallRequested
  /\ hookPc \in {"checked", "asleep"} /\ caller # "clearUninstall" => ~installRequested
  /\ hookPc \in Idling /\ superHeld => installRequested \/ failed
  /\ hookPc \in Hooking /\ ~superHeld => uninstallRequested
  /\ hookPc = "getMessage" /\ ~superHeld /\ caller = "idle" => message

HookInv == CallsAgree /\ (~raced /\ ~missed => RequestsPending)

\* While the hook is set, and from the seeding on, every button Windows believes held may pass.
ButtonInv ==
  ~gap => /\ sysHeld \subseteq held
          /\ hooked \/ hookPc = "set" => sysHeld \subseteq allowUp

IInv == TypeOK /\ HookInv /\ ButtonInv
-------------------------------------------------------------------------------
\* Types.

LEMMA InitTypeOK == Init => TypeOK
<1> SUFFICES ASSUME Init PROVE TypeOK
  OBVIOUS
<1>1. buttonQueue \in Seq(ButtonEvent) /\ Len(buttonQueue) <= QueueCapacity
  BY MouseHookAssumption DEF MouseHookAssumption, Init
<1>2. presses \in 0..MaxPresses /\ events \in 0..MaxEvents
  BY MouseHookAssumption DEF MouseHookAssumption, Init
<1> QED
  BY <1>1, <1>2 DEF Init, TypeOK

LEMMA CallerTypeOK ==
  ASSUME TypeOK, InstallHook \/ UninstallHook \/ CallerNext
  PROVE  TypeOK'
<1>1. CASE InstallHook
  BY <1>1, MouseHookAssumption DEF MouseHookAssumption, InstallHook, TypeOK, userVars, hookVars, dispatchVars
<1>2. CASE ClearUninstall
  BY <1>2 DEF ClearUninstall, Woken, Notify, TypeOK, userVars, dispatchVars
<1>3. CASE UninstallHook
  BY <1>3 DEF UninstallHook, TypeOK, userVars, hookVars, dispatchVars
<1>4. CASE ClearInstall
  BY <1>4 DEF ClearInstall, TypeOK, userVars, hookVars, dispatchVars
<1>5. CASE RequestFinish
  BY <1>5 DEF RequestFinish, Woken, Notify, TypeOK, userVars, hookVars
<1>6. CASE PostMessage
  BY <1>6 DEF PostMessage, Woken, Notify, TypeOK, userVars, dispatchVars
<1> QED
  BY <1>1, <1>2, <1>3, <1>4, <1>5, <1>6 DEF CallerNext

LEMMA HookTypeOK ==
  ASSUME TypeOK, HookNext \/ SetHookFails
  PROVE  TypeOK'
<1> USE DEF HookStep, TypeOK, userVars, dispatchVars
<1>1. CASE HookWait
  BY <1>1 DEF HookWait
<1>2. CASE HookSleeps
  BY <1>2 DEF HookSleeps
<1>3. CASE TakeInstall
  BY <1>3 DEF TakeInstall
<1>4. CASE Decide
  BY <1>4 DEF Decide
<1>5. CASE CancelInstall
  BY <1>5 DEF CancelInstall
<1>6. CASE SeedPassthrough
  BY <1>6 DEF SeedPassthrough
<1>7. CASE SetHook
  BY <1>7 DEF SetHook
<1>8. CASE SetHookFails
  BY <1>8 DEF SetHookFails
<1>9. CASE CheckUninstall
  BY <1>9 DEF CheckUninstall
<1>10. CASE GetMessage
  BY <1>10 DEF GetMessage
<1>11. CASE Unhook
  BY <1>11 DEF Unhook
<1>12. CASE Unhooked
  BY <1>12 DEF Unhooked
<1> QED
  BY <1>1, <1>2, <1>3, <1>4, <1>5, <1>6, <1>7, <1>8, <1>9, <1>10, <1>11, <1>12 DEF HookNext

LEMMA ButtonTypeOK ==
  ASSUME TypeOK, NEW b \in Buttons, NEW down \in BOOLEAN,
         ButtonUnhooked(b, down) \/ ButtonHooked(b, down)
  PROVE  TypeOK'
<1> USE MouseHookAssumption DEF MouseHookAssumption, UserButton, Deliver, TypeOK, callVars, dispatchVars
<1>1. CASE ButtonUnhooked(b, down)
  BY <1>1 DEF ButtonUnhooked
<1>2. CASE ButtonHooked(b, down)
  <2>1. [button |-> b, down |-> down] \in ButtonEvent
    BY DEF ButtonEvent
  <2>2. buttonQueue' \in Seq(ButtonEvent) /\ Len(buttonQueue') <= QueueCapacity
    <3>1. CASE Len(buttonQueue) < QueueCapacity
      BY SMTT(20), <1>2, <2>1, <3>1 DEF ButtonHooked
    <3>2. CASE ~(Len(buttonQueue) < QueueCapacity)
      BY <1>2, <3>2 DEF ButtonHooked
    <3> QED
      BY <3>1, <3>2
  <2>3. sysHeld' \subseteq Buttons /\ allowUp' \subseteq Buttons
    BY <1>2 DEF ButtonHooked
  <2>4. queueOverflowed' \in BOOLEAN /\ missed' \in BOOLEAN /\ gap' \in BOOLEAN
    BY <1>2 DEF ButtonHooked, Notify
  <2>5. held' \subseteq Buttons /\ events' \in 0..MaxEvents
    BY <1>2 DEF ButtonHooked
  <2>6. dispatchPc' \in {"wait", "checked", "asleep", "finish", "overflow", "events"}
    BY <1>2 DEF ButtonHooked, Woken
  <2> QED
    BY <1>2, <2>2, <2>3, <2>4, <2>5, <2>6 DEF ButtonHooked
<1> QED
  BY <1>1, <1>2

LEMMA DispatchTypeOK ==
  ASSUME TypeOK, DispatchNext
  PROVE  TypeOK'
<1> USE DEF DispatchStep, TypeOK, hookVars
<1>1. CASE DispatchWait
  BY <1>1 DEF DispatchWait
<1>2. CASE DispatchSleeps
  BY <1>2 DEF DispatchSleeps
<1>3. CASE ServeFinish
  BY <1>3 DEF ServeFinish
<1>4. CASE ServeOverflow
  BY <1>4 DEF ServeOverflow
<1>5. CASE ServeEvent
  <2>1. Head(buttonQueue) \in ButtonEvent
    BY <1>5 DEF ServeEvent
  <2>2. op' \in Buttons \cup {NoButton}
    <3>1. CASE Head(buttonQueue).down
      BY <1>5, <2>1, <3>1 DEF ServeEvent, ButtonEvent
    <3>2. CASE ~Head(buttonQueue).down
      BY <1>5, <2>1, <3>2 DEF ServeEvent, ButtonEvent
    <3> QED
      BY <3>1, <3>2
  <2>3. buttonQueue' \in Seq(ButtonEvent) /\ Len(buttonQueue') <= QueueCapacity
    BY <1>5, MouseHookAssumption DEF ServeEvent, MouseHookAssumption
  <2> QED
    BY <1>5, <2>2, <2>3 DEF ServeEvent
<1>6. CASE EventsDone
  BY <1>6 DEF EventsDone
<1> QED
  BY <1>1, <1>2, <1>3, <1>4, <1>5, <1>6 DEF DispatchNext

LEMMA NextTypeOK == TypeOK /\ [Next]_vars => TypeOK'
<1>1. ASSUME TypeOK, UNCHANGED vars
      PROVE  TypeOK'
  BY <1>1 DEF TypeOK, vars, callVars, userVars, hookVars, dispatchVars
<1> QED
  BY <1>1, CallerTypeOK, HookTypeOK, ButtonTypeOK, DispatchTypeOK DEF Next
-------------------------------------------------------------------------------
\* Why HookFollowsSuper is kept.

LEMMA InitHookInv == Init => HookInv
BY DEF Init, HookInv, CallsAgree, RequestsPending, Hooked, Idling, Hooking

LEMMA CallerHookInv ==
  ASSUME TypeOK, HookInv, InstallHook \/ UninstallHook \/ CallerNext
  PROVE  HookInv'
<1> USE DEF HookInv, CallsAgree, RequestsPending, Hooked, Idling, Hooking, TypeOK
<1>1. CASE InstallHook
  BY <1>1 DEF InstallHook, hookVars
<1>2. CASE ClearUninstall
  BY <1>2 DEF ClearUninstall, Woken, Notify
<1>3. CASE UninstallHook
  BY <1>3 DEF UninstallHook, hookVars
<1>4. CASE ClearInstall
  BY <1>4 DEF ClearInstall, hookVars
<1>5. CASE RequestFinish
  BY <1>5 DEF RequestFinish, Notify, hookVars
<1>6. CASE PostMessage
  BY <1>6 DEF PostMessage, Woken, Notify
<1> QED
  BY <1>1, <1>2, <1>3, <1>4, <1>5, <1>6 DEF CallerNext

LEMMA ThreadHookInv ==
  ASSUME TypeOK, HookInv, HookNext \/ SetHookFails
  PROVE  HookInv'
<1> USE DEF HookInv, CallsAgree, RequestsPending, Hooked, Idling, Hooking, TypeOK, HookStep
<1>1. CASE HookWait
  BY <1>1 DEF HookWait
<1>2. CASE HookSleeps
  BY <1>2 DEF HookSleeps
<1>3. CASE TakeInstall
  BY <1>3 DEF TakeInstall
<1>4. CASE Decide
  BY <1>4 DEF Decide
<1>5. CASE CancelInstall
  BY <1>5 DEF CancelInstall
<1>6. CASE SeedPassthrough
  BY <1>6 DEF SeedPassthrough
<1>7. CASE SetHook
  BY <1>7 DEF SetHook
<1>8. CASE SetHookFails
  BY <1>8 DEF SetHookFails
<1>9. CASE CheckUninstall
  BY <1>9 DEF CheckUninstall
<1>10. CASE GetMessage
  BY <1>10 DEF GetMessage
<1>11. CASE Unhook
  BY <1>11 DEF Unhook
<1>12. CASE Unhooked
  BY <1>12 DEF Unhooked
<1> QED
  BY <1>1, <1>2, <1>3, <1>4, <1>5, <1>6, <1>7, <1>8, <1>9, <1>10, <1>11, <1>12 DEF HookNext

\* The buttons and the dispatch thread only read hooked and notify.
LEMMA OtherHookInv ==
  ASSUME TypeOK, HookInv,
         \/ \E b \in Buttons, down \in BOOLEAN : ButtonUnhooked(b, down) \/ ButtonHooked(b, down)
         \/ DispatchNext
         \/ UNCHANGED vars
  PROVE  HookInv'
<1>1. /\ UNCHANGED <<superHeld, caller, installRequested, uninstallRequested, message,
                     hookPc, hooked, raced, failed>>
      /\ missed' = missed \/ missed' = (missed \/ dispatchPc = "checked")
  BY DEF ButtonUnhooked, ButtonHooked, UserButton, Notify, DispatchNext, DispatchStep, DispatchWait,
         DispatchSleeps, ServeFinish, ServeOverflow, ServeEvent, EventsDone, vars, callVars, hookVars
<1> QED
  BY <1>1 DEF HookInv, CallsAgree, RequestsPending, TypeOK, callVars

LEMMA HookInvConsequence == TypeOK /\ HookInv => HookFollowsSuper
BY DEF TypeOK, HookInv, CallsAgree, RequestsPending, Hooked, Idling, Hooking, HookFollowsSuper, HookAtRest

-------------------------------------------------------------------------------
\* Why ButtonsNotStuck is kept.

LEMMA InitButtonInv == Init => ButtonInv
BY DEF Init, ButtonInv

LEMMA CallerButtonInv ==
  ASSUME TypeOK, ButtonInv, InstallHook \/ UninstallHook \/ CallerNext
  PROVE  ButtonInv'
<1>1. /\ UNCHANGED <<held, sysHeld, gap, hooked, allowUp>>
      /\ hookPc' = "set" => hookPc = "set"
  BY DEF InstallHook, UninstallHook, CallerNext, ClearUninstall, ClearInstall, RequestFinish,
         PostMessage, Woken, userVars, hookVars
<1> QED
  BY <1>1 DEF ButtonInv

LEMMA ThreadButtonInv ==
  ASSUME TypeOK, HookInv, ButtonInv, HookNext \/ SetHookFails
  PROVE  ButtonInv'
<1> USE DEF ButtonInv, HookStep, userVars
<1>1. CASE SeedPassthrough
  BY <1>1 DEF SeedPassthrough
<1>2. CASE Unhooked
  BY <1>2 DEF Unhooked, HookInv, CallsAgree, Hooked
<1>3. CASE SetHook
  BY <1>3 DEF SetHook
<1>4. CASE Unhook
  BY <1>4 DEF Unhook
<1>5. ASSUME HookNext \/ SetHookFails, ~SeedPassthrough, ~Unhooked, ~SetHook, ~Unhook
      PROVE  UNCHANGED <<gap, hooked, allowUp, held, sysHeld>> /\ hookPc' # "set"
  BY <1>5 DEF HookNext, SetHookFails, HookWait, HookSleeps, TakeInstall, Decide, CancelInstall,
         CheckUninstall, GetMessage
<1> QED
  BY <1>1, <1>2, <1>3, <1>4, <1>5

LEMMA UserButtonInv ==
  ASSUME TypeOK, ButtonInv, NEW b \in Buttons, NEW down \in BOOLEAN,
         ButtonUnhooked(b, down) \/ ButtonHooked(b, down)
  PROVE  ButtonInv'
<1> USE DEF ButtonInv, UserButton, Deliver
<1>1. CASE ButtonUnhooked(b, down)
  BY <1>1 DEF ButtonUnhooked
<1>2. CASE ButtonHooked(b, down)
  BY <1>2 DEF ButtonHooked
<1> QED
  BY <1>1, <1>2

LEMMA DispatchButtonInv ==
  ASSUME ButtonInv, DispatchNext \/ UNCHANGED vars
  PROVE  ButtonInv'
<1>1. UNCHANGED <<held, sysHeld, gap, hooked, hookPc, allowUp>>
  BY DEF DispatchNext, DispatchStep, DispatchWait, DispatchSleeps, ServeFinish, ServeOverflow,
         ServeEvent, EventsDone, vars, hookVars, userVars
<1> QED
  BY <1>1 DEF ButtonInv

-------------------------------------------------------------------------------
(***************************************************************************)
(* The three parts together are kept by every step: of the keyboard hook   *)
(* thread that calls, of M-H, of the user and of M-D.                      *)
(***************************************************************************)
THEOREM Inductive == Spec => []IInv
<1>1. Init => IInv
  BY InitTypeOK, InitHookInv, InitButtonInv DEF IInv
<1>2. IInv /\ [Next]_vars => IInv'
  <2> SUFFICES ASSUME IInv, [Next]_vars PROVE IInv'
    OBVIOUS
  <2>1. TypeOK'
    BY NextTypeOK DEF IInv
  <2>2. HookInv'
    BY CallerHookInv, ThreadHookInv, OtherHookInv DEF IInv, Next
  <2>3. ButtonInv'
    BY CallerButtonInv, ThreadButtonInv, UserButtonInv, DispatchButtonInv DEF IInv, Next
  <2> QED
    BY <2>1, <2>2, <2>3 DEF IInv
<1> QED
  BY <1>1, <1>2, PTL DEF Spec

(***************************************************************************)
(* The variables of mouse.cpp keep their types; m_buttonQueue never holds  *)
(* more than its capacity.                                                 *)
(***************************************************************************)
THEOREM TypeCorrect == Spec => []TypeOK
<1>1. IInv => TypeOK
  BY DEF IInv
<1> QED
  BY <1>1, Inductive, PTL

(***************************************************************************)
(* M-H comes to rest with the mouse hooked exactly while super is held,    *)
(* unless it ran between the two stores of one call, a notification was    *)
(* lost or the hook could not be set.                                      *)
(***************************************************************************)
THEOREM HookSafe == Spec => []HookFollowsSuper
<1>1. IInv => HookFollowsSuper
  BY HookInvConsequence DEF IInv
<1> QED
  BY <1>1, Inductive, PTL

(***************************************************************************)
(* No button stays pressed for Windows after the user has released it,     *)
(* unless one changed between the seeding of the passthrough flags and the *)
(* setting of the hook.                                                    *)
(***************************************************************************)
THEOREM ButtonsSafe == Spec => []ButtonsNotStuck
<1>1. IInv => ButtonsNotStuck
  BY DEF IInv, ButtonInv, ButtonsNotStuck
<1> QED
  BY <1>1, Inductive, PTL
===============================================================================
