----------------------------- MODULE Keyboard_proofs -----------------------------
(***************************************************************************)
(* Proofs about Keyboard, for any keyboard, queue capacity and bounds.     *)
(***************************************************************************)
EXTENDS Keyboard, TLAPS

-------------------------------------------------------------------------------
(***************************************************************************)
(* The super key stays the one the process starts with: no configuration   *)
(* and no callback changes it.  After a change the views of super need not *)
(* agree, since the release of the former key is not recognised any more.  *)
(***************************************************************************)
SuperKept == [][superVk' = superVk]_superVk

\* The overflow recovery runs only when an event was dropped.
Recovery == {"clearSuper", "release", "discard"}

LostInv == overflowed \/ pc \in Recovery => lost

(***************************************************************************)
(* What the queue q still has to say about key k, to an observer who has   *)
(* seen "lua" so far: its last event of k says "down"; if it has none, the *)
(* observer knows.                                                         *)
(***************************************************************************)
TellsOf(q, k, down, lua) ==
  /\ \A i \in 1..Len(q) :
       q[i].vk = k /\ (\A j \in (i + 1)..Len(q) : q[j].vk # k) => q[i].down = down
  /\ (\A i \in 1..Len(q) : q[i].vk # k) => lua = down

\* HookProc is at an event of the super key.
HookAtSuper == hook.step # "idle" /\ hook.vk = superVk

ViewInv ==
  ~lost => /\ superDown = (superVk \in phys)
           /\ HookAtSuper => hook.down = superDown
           /\ IF hook.step = "notify" THEN HookAtSuper ELSE mouseWanted = superDown
           /\ luaSuper = (superVk \in keys)
           /\ ~HookAtSuper => TellsOf(queue, superVk, superDown, luaSuper)

\* What holds whatever the callbacks do, and what holds while the super key is kept.
IInv == TypeOK /\ LostInv /\ NoReloadAfterExit
KInv == ViewInv /\ DeferredHasTrigger
-------------------------------------------------------------------------------
\* Types.

PC == {"load", "exit", "exiting", "reload", "overflow", "clearSuper", "release", "discard", "keys",
       "reloading", "reloadingDeferred", "wait", "checked", "asleep"}

LEMMA SuperIsKey == SuperKeys \subseteq Keys
BY DEF Keys

LEMMA InitTypeOK == Init => TypeOK
<1> SUFFICES ASSUME Init PROVE TypeOK
  OBVIOUS
<1>1. queue \in Seq(KeyEvent) /\ Len(queue) <= QueueCapacity
  BY KeyboardAssumption DEF KeyboardAssumption, Init
<1>2. events \in 0..MaxEvents /\ requests \in 0..MaxRequests
  BY KeyboardAssumption DEF KeyboardAssumption, Init
<1>3. superVk \in SuperKeys /\ InitialSuper \in Keys
  BY KeyboardAssumption, SuperIsKey DEF KeyboardAssumption, Init
<1> QED
  BY <1>1, <1>2, <1>3 DEF Init, TypeOK, NoHook, Reloading, Waiting

LEMMA NotifyTypeOK ==
  ASSUME pc \in PC, NotifyDispatch
  PROVE  pc' \in PC /\ (pc' = pc \/ (pc = "asleep" /\ pc' = "wait"))
BY DEF NotifyDispatch, PC

LEMMA TypeOfPc == TypeOK => pc \in PC
BY DEF TypeOK, PC, Reloading, Waiting

LEMMA UserTypeOK ==
  ASSUME TypeOK, NEW vk \in Keys, NEW down \in BOOLEAN, UserKey(vk, down)
  PROVE  events' \in 0..MaxEvents /\ phys' \subseteq Keys
<1>1. events' \in 0..MaxEvents
  BY KeyboardAssumption DEF KeyboardAssumption, TypeOK, UserKey
<1>2. phys' \subseteq Keys
  BY DEF TypeOK, UserKey
<1> QED
  BY <1>1, <1>2

LEMMA DeliverTypeOK ==
  ASSUME NEW vk \in Keys, NEW down, NEW passes, sysDown \subseteq Keys, Deliver(vk, down, passes)
  PROVE  sysDown' \subseteq Keys
BY DEF Deliver

LEMMA HookTypeOK ==
  ASSUME TypeOK, HookNext
  PROVE  TypeOK'
<1>1. ASSUME NEW vk \in Keys, NEW down \in BOOLEAN, HookPassKey(vk, down)
      PROVE  TypeOK'
  <2>1. events' \in 0..MaxEvents /\ phys' \subseteq Keys
    BY <1>1, UserTypeOK DEF HookPassKey
  <2>2. sysDown' \subseteq Keys
    BY <1>1, DeliverTypeOK DEF HookPassKey, TypeOK
  <2> QED
    BY <1>1, <2>1, <2>2 DEF HookPassKey, TypeOK, dispatchVars, requestVars, Reloading, Waiting
<1>2. ASSUME NEW vk \in Keys, NEW down \in BOOLEAN, HookQueueKey(vk, down)
      PROVE  TypeOK'
  <2>1. events' \in 0..MaxEvents /\ phys' \subseteq Keys
    BY <1>2, UserTypeOK DEF HookQueueKey
  <2>2. hook' \in [step : {"idle", "notify", "push"}, vk : Keys, down : BOOLEAN, passes : BOOLEAN]
    BY <1>2 DEF HookQueueKey
  <2> QED
    BY <1>2, <2>1, <2>2 DEF HookQueueKey, TypeOK, dispatchVars, requestVars, Reloading, Waiting
<1>3. ASSUME NEW vk \in Keys, NEW down \in BOOLEAN, HookSuperKey(vk, down)
      PROVE  TypeOK'
  <2>1. events' \in 0..MaxEvents /\ phys' \subseteq Keys
    BY <1>3, UserTypeOK DEF HookSuperKey
  <2>2. hook' \in [step : {"idle", "notify", "push"}, vk : Keys, down : BOOLEAN, passes : BOOLEAN]
    BY <1>3 DEF HookSuperKey, TypeOK
  <2> QED
    BY <1>3, <2>1, <2>2 DEF HookSuperKey, TypeOK, dispatchVars, requestVars, Reloading, Waiting
<1>4. CASE HookNotify
  <2>1. hook' \in [step : {"idle", "notify", "push"}, vk : Keys, down : BOOLEAN, passes : BOOLEAN]
    BY <1>4 DEF HookNotify, TypeOK
  <2>2. mouseWanted' \in BOOLEAN
    BY <1>4 DEF HookNotify, TypeOK
  <2> QED
    BY <1>4, <2>1, <2>2 DEF HookNotify, TypeOK, dispatchVars, requestVars, Reloading, Waiting
<1>5. CASE HookPush
  <2>1. queue' \in Seq(KeyEvent) /\ Len(queue') <= QueueCapacity
    <3>1. [vk |-> hook.vk, down |-> hook.down] \in KeyEvent
      BY DEF TypeOK, KeyEvent
    <3> QED
      BY <1>5, <3>1, KeyboardAssumption DEF KeyboardAssumption, HookPush, TypeOK
  <2>2. sysDown' \subseteq Keys
    BY <1>5, DeliverTypeOK DEF HookPush, TypeOK
  <2>3. hook' \in [step : {"idle", "notify", "push"}, vk : Keys, down : BOOLEAN, passes : BOOLEAN]
    BY <1>5, KeyboardAssumption, SuperIsKey DEF KeyboardAssumption, HookPush, NoHook
  <2>4. pc' \in PC
    BY <1>5, TypeOfPc, NotifyTypeOK DEF HookPush
  <2>5. overflowed' \in BOOLEAN /\ lost' \in BOOLEAN
    BY <1>5 DEF HookPush, TypeOK
  <2> QED
    BY <1>5, <2>1, <2>2, <2>3, <2>4, <2>5
    DEF HookPush, TypeOK, dispatchVars, requestVars, Reloading, Waiting, PC
<1> QED
  BY <1>1, <1>2, <1>3, <1>4, <1>5 DEF HookNext

LEMMA RequesterTypeOK ==
  ASSUME TypeOK, RequesterNext
  PROVE  TypeOK'
<1>1. CASE RequestReloadConfig \/ RequestExit
  <2>1. requests' \in 0..MaxRequests
    BY <1>1, KeyboardAssumption DEF KeyboardAssumption, RequestReloadConfig, RequestExit, TypeOK
  <2>2. requester' \in {"idle", "reload", "exit"}
    BY <1>1 DEF RequestReloadConfig, RequestExit
  <2> QED
    BY <1>1, <2>1, <2>2
    DEF RequestReloadConfig, RequestExit, TypeOK, hookVars, dispatchVars, Reloading, Waiting
<1>2. CASE SetRequest
  <2>1. pc' \in PC
    BY <1>2, TypeOfPc, NotifyTypeOK DEF SetRequest
  <2>2. reloadRequested' \in BOOLEAN /\ exitRequested' \in BOOLEAN
    BY <1>2 DEF SetRequest
  <2> QED
    BY <1>2, <2>1, <2>2 DEF SetRequest, TypeOK, hookVars, dispatchVars, Reloading, Waiting, PC
<1> QED
  BY <1>1, <1>2 DEF RequesterNext

\* What a Lua callback may leave.
LEMMA CallLuaTypeOK ==
  ASSUME TypeOK, CallLua \/ NoLua
  PROVE  /\ superVk' \in SuperKeys
         /\ reloadRequested' \in BOOLEAN /\ exitRequested' \in BOOLEAN
         /\ requests' \in 0..MaxRequests
<1>1. superVk' \in SuperKeys
  BY DEF CallLua, NoLua, TypeOK
<1>2. reloadRequested' \in BOOLEAN /\ exitRequested' \in BOOLEAN
  BY DEF CallLua, NoLua, TypeOK
<1>3. requests' \in 0..MaxRequests
  BY KeyboardAssumption DEF KeyboardAssumption, CallLua, NoLua, TypeOK
<1> QED
  BY <1>1, <1>2, <1>3

\* Removing the head of the queue.
LEMMA TailTypeOK ==
  ASSUME TypeOK, queue # <<>>, queue' = Tail(queue)
  PROVE  queue' \in Seq(KeyEvent) /\ Len(queue') <= QueueCapacity
BY KeyboardAssumption DEF KeyboardAssumption, TypeOK

LEMMA ReloadOrDeferTypeOK ==
  ASSUME TypeOK, NEW requested \in BOOLEAN, NEW reload \in PC, NEW done \in PC,
         ReloadOrDefer(requested, reload, done)
  PROVE  /\ pc' \in {reload, done}
         /\ reload # done /\ pc' = reload => ~exitHandled
         /\ reloadDeferred' \in BOOLEAN
         /\ UNCHANGED <<phys, sysDown, events, lost, hook, requester>>
         /\ reloadDeferred' => superDown \/ (reloadDeferred /\ pc = "reload")
         /\ reload # done /\ pc' = reload => requested
<1>1. pc' \in {reload, done} /\ UNCHANGED <<phys, sysDown, events, lost, hook, requester>>
  BY DEF ReloadOrDefer, Dispatch
<1>2. reloadDeferred' \in BOOLEAN
  BY DEF ReloadOrDefer
<1>3. reloadDeferred' => superDown \/ (reloadDeferred /\ pc = "reload")
  BY DEF ReloadOrDefer
<1>4. reload # done /\ pc' = reload => requested /\ ~exitHandled
  BY DEF ReloadOrDefer, Dispatch
<1> QED
  BY <1>1, <1>2, <1>3, <1>4

LEMMA WaitingTypeOK ==
  ASSUME TypeOK, WaitForWork \/ FallAsleep \/ TimerExpires \/ KeysDone
  PROVE  TypeOK'
<1>1. CallLua \/ NoLua
  BY DEF WaitForWork, FallAsleep, TimerExpires, KeysDone
<1>2. pc' \in PC
  BY DEF WaitForWork, FallAsleep, TimerExpires, KeysDone, Dispatch, PC
<1>3. DispatchUnchanged /\ UNCHANGED <<phys, sysDown, events, lost, hook, requester>>
  BY DEF WaitForWork, FallAsleep, TimerExpires, KeysDone, Dispatch
<1> QED
  BY <1>1, <1>2, <1>3, CallLuaTypeOK DEF TypeOK, DispatchUnchanged, dispatchVars, Reloading, Waiting, PC

LEMMA RequestsServedTypeOK ==
  ASSUME TypeOK, TakeExitRequest \/ ProcessExitRequest \/ TakeReloadRequest \/ LoadConfig
  PROVE  TypeOK'
<1>1. CASE TakeExitRequest
  <2>1. exitRequested' \in BOOLEAN /\ exitHandled' \in BOOLEAN
    BY <1>1 DEF TakeExitRequest, TypeOK
  <2> QED
    BY <1>1, <2>1 DEF TakeExitRequest, Dispatch, TypeOK, dispatchVars, Reloading, Waiting
<1>2. CASE ProcessExitRequest
  <2>1. /\ pc' = "reload" /\ superVk' \in SuperKeys
        /\ reloadRequested' \in BOOLEAN /\ reloadDeferred' \in BOOLEAN /\ exitHandled' \in BOOLEAN
    BY <1>2 DEF ProcessExitRequest, Dispatch
  <2>2. /\ UNCHANGED <<requests, mouseWanted, superDown, queue, overflowed, exitRequested>>
        /\ UNCHANGED dispatchVars
        /\ UNCHANGED <<phys, sysDown, events, lost, hook, requester>>
    BY <1>2 DEF ProcessExitRequest, Dispatch
  <2> QED
    BY <2>1, <2>2 DEF TypeOK, dispatchVars
<1>3. CASE TakeReloadRequest
  <2>1. /\ pc' \in {"reloading", "overflow"}
        /\ reloadDeferred' \in BOOLEAN
        /\ UNCHANGED <<phys, sysDown, events, lost, hook, requester>>
    <3>1. reloadRequested \in BOOLEAN /\ "reloading" \in PC /\ "overflow" \in PC
      BY DEF TypeOK, PC
    <3> QED
      BY <1>3, <3>1, ReloadOrDeferTypeOK DEF TakeReloadRequest
  <2>2. reloadRequested' \in BOOLEAN
    BY <1>3 DEF TakeReloadRequest
  <2> QED
    BY <1>3, <2>1, <2>2 DEF TakeReloadRequest, TypeOK, dispatchVars, Reloading, Waiting
<1>4. CASE LoadConfig
  BY <1>4 DEF LoadConfig, Dispatch, TypeOK, dispatchVars, Reloading, Waiting
<1> QED
  BY <1>1, <1>2, <1>3, <1>4

LEMMA RecoveryTypeOK ==
  ASSUME TypeOK, TakeOverflow \/ ClearSuperDown \/ ReleaseMouse \/ DiscardKey
  PROVE  TypeOK'
<1>1. CASE TakeOverflow
  <2>1. keys' \subseteq Keys /\ pc' \in {"clearSuper", "keys"}
    BY <1>1 DEF TakeOverflow, Dispatch, TypeOK
  <2>2. overflowed' \in BOOLEAN
    BY <1>1 DEF TakeOverflow
  <2> QED
    BY <1>1, <2>1, <2>2 DEF TakeOverflow, Dispatch, TypeOK, Reloading, Waiting
<1>2. CASE ClearSuperDown
  <2>1. superDown' \in BOOLEAN
    BY <1>2 DEF ClearSuperDown
  <2> QED
    BY <1>2, <2>1 DEF ClearSuperDown, Dispatch, TypeOK, dispatchVars, Reloading, Waiting
<1>3. CASE ReleaseMouse
  <2>1. mouseWanted' \in BOOLEAN
    BY <1>3 DEF ReleaseMouse
  <2> QED
    BY <1>3, <2>1 DEF ReleaseMouse, Dispatch, TypeOK, dispatchVars, Reloading, Waiting
<1>4. CASE DiscardKey
  <2>1. queue' \in Seq(KeyEvent) /\ Len(queue') <= QueueCapacity
    <3>1. CASE queue = <<>>
      BY <1>4, <3>1 DEF DiscardKey, TypeOK
    <3>2. CASE queue # <<>>
      BY <1>4, <3>2, TailTypeOK DEF DiscardKey
    <3> QED
      BY <3>1, <3>2
  <2>2. pc' \in {"keys", "discard"}
    BY <1>4 DEF DiscardKey, Dispatch
  <2> QED
    BY <1>4, <2>1, <2>2 DEF DiscardKey, Dispatch, TypeOK, dispatchVars, Reloading, Waiting
<1> QED
  BY <1>1, <1>2, <1>3, <1>4

LEMMA ProcessKeyTypeOK ==
  ASSUME TypeOK, ProcessKey
  PROVE  TypeOK'
<1>1. PICK e \in KeyEvent :
        RepeatedKey(e) \/ SuperPressed(e) \/ KeyPressed(e) \/ KeyReleased(e) \/ SuperReleased(e)
  BY DEF ProcessKey
<1>2. PopKey(e) /\ (CallLua \/ NoLua)
  BY <1>1 DEF RepeatedKey, SuperPressed, KeyPressed, KeyReleased, SuperReleased
<1>3. queue' \in Seq(KeyEvent) /\ Len(queue') <= QueueCapacity
  BY <1>2, TailTypeOK DEF PopKey
<1>4. keys' \subseteq Keys
  BY <1>1 DEF RepeatedKey, SuperPressed, KeyPressed, KeyReleased, SuperReleased, TypeOK, KeyEvent, dispatchVars
<1>5. luaSuper' \in BOOLEAN
  BY <1>1 DEF RepeatedKey, SuperPressed, KeyPressed, KeyReleased, SuperReleased, TypeOK, dispatchVars
<1>6. /\ pc' \in {"keys", "reloadingDeferred"}
      /\ reloadDeferred' \in BOOLEAN
      /\ UNCHANGED <<phys, sysDown, events, lost, hook, requester>>
  <2>1. CASE SuperReleased(e)
    <3>1. reloadDeferred \in BOOLEAN /\ "reloadingDeferred" \in PC /\ "keys" \in PC
      BY DEF TypeOK, PC
    <3> QED
      BY <2>1, <3>1, ReloadOrDeferTypeOK DEF SuperReleased
  <2>2. CASE RepeatedKey(e) \/ SuperPressed(e) \/ KeyPressed(e) \/ KeyReleased(e)
    BY <2>2 DEF RepeatedKey, SuperPressed, KeyPressed, KeyReleased, Dispatch, TypeOK
  <2> QED
    BY <1>1, <2>1, <2>2
<1>7. /\ superVk' \in SuperKeys
      /\ reloadRequested' \in BOOLEAN /\ exitRequested' \in BOOLEAN
      /\ requests' \in 0..MaxRequests
  BY <1>2, CallLuaTypeOK
<1> QED
  BY <1>2, <1>3, <1>4, <1>5, <1>6, <1>7 DEF PopKey, TypeOK, Reloading, Waiting

LEMMA DispatchTypeOK ==
  ASSUME TypeOK, DispatchNext \/ TimerExpires
  PROVE  TypeOK'
BY WaitingTypeOK, RequestsServedTypeOK, RecoveryTypeOK, ProcessKeyTypeOK DEF DispatchNext

LEMMA NextTypeOK == TypeOK /\ [Next]_vars => TypeOK'
<1> SUFFICES ASSUME TypeOK, [Next]_vars PROVE TypeOK'
  OBVIOUS
<1>1. CASE UNCHANGED vars
  BY <1>1 DEF vars, hookVars, dispatchVars, requestVars, TypeOK, Reloading, Waiting
<1>2. CASE Next
  BY <1>2, HookTypeOK, RequesterTypeOK, DispatchTypeOK DEF Next
<1> QED
  BY <1>1, <1>2

-------------------------------------------------------------------------------
\* The overflow recovery, and no reload after exit.

LEMMA NextLostInv == TypeOK /\ LostInv /\ [Next]_vars => LostInv'
<1> SUFFICES ASSUME TypeOK, LostInv, [Next]_vars PROVE LostInv'
  OBVIOUS
<1>1. CASE UNCHANGED vars
  BY <1>1 DEF vars, hookVars, LostInv
<1>2. CASE HookNext
  <2>1. CASE HookPush
    BY <2>1 DEF HookPush, NotifyDispatch, LostInv, Recovery
  <2>2. CASE HookNotify
    BY <2>2 DEF HookNotify, LostInv
  <2>3. CASE \E vk \in Keys, down \in BOOLEAN :
               HookPassKey(vk, down) \/ HookQueueKey(vk, down) \/ HookSuperKey(vk, down)
    <3>1. UNCHANGED <<overflowed, lost, pc>>
      BY <2>3 DEF HookPassKey, HookQueueKey, HookSuperKey
    <3> QED
      BY <3>1 DEF LostInv
  <2> QED
    BY <1>2, <2>1, <2>2, <2>3 DEF HookNext
<1>3. CASE RequesterNext
  BY <1>3 DEF RequesterNext, RequestReloadConfig, RequestExit, SetRequest, NotifyDispatch, hookVars,
              LostInv, Recovery
<1>4. CASE WaitForWork \/ FallAsleep \/ TimerExpires \/ KeysDone
  BY <1>4 DEF WaitForWork, FallAsleep, TimerExpires, KeysDone, Dispatch, DispatchUnchanged, LostInv, Recovery
<1>5. CASE TakeExitRequest \/ ProcessExitRequest \/ TakeReloadRequest \/ LoadConfig
  BY <1>5 DEF TakeExitRequest, ProcessExitRequest, TakeReloadRequest, ReloadOrDefer, LoadConfig, Dispatch,
              LostInv, Recovery
<1>6. CASE TakeOverflow \/ ClearSuperDown \/ ReleaseMouse \/ DiscardKey
  BY <1>6 DEF TakeOverflow, ClearSuperDown, ReleaseMouse, DiscardKey, Dispatch, LostInv, Recovery
<1>7. CASE ProcessKey
  BY <1>7 DEF ProcessKey, PopKey, RepeatedKey, SuperPressed, KeyPressed, KeyReleased, SuperReleased,
              ReloadOrDefer, Dispatch, LostInv, Recovery
<1> QED
  BY <1>1, <1>2, <1>3, <1>4, <1>5, <1>6, <1>7 DEF Next, DispatchNext

LEMMA NextExitInv == TypeOK /\ NoReloadAfterExit /\ [Next]_vars => NoReloadAfterExit'
<1> SUFFICES ASSUME TypeOK, NoReloadAfterExit, [Next]_vars PROVE NoReloadAfterExit'
  OBVIOUS
<1>1. CASE UNCHANGED vars
  BY <1>1 DEF vars, requestVars, NoReloadAfterExit
<1>2. CASE HookNext \/ RequesterNext
  <2>1. exitHandled' = exitHandled
    BY <1>2 DEF HookNext, HookPassKey, HookQueueKey, HookSuperKey, HookNotify, HookPush, RequesterNext,
                RequestReloadConfig, RequestExit, SetRequest, requestVars
  <2>2. pc' = pc \/ pc' = "wait"
    BY <1>2 DEF HookNext, HookPassKey, HookQueueKey, HookSuperKey, HookNotify, HookPush, RequesterNext,
                RequestReloadConfig, RequestExit, SetRequest, NotifyDispatch
  <2> QED
    BY <2>1, <2>2 DEF NoReloadAfterExit, Reloading
<1>3. CASE WaitForWork \/ FallAsleep \/ TimerExpires \/ KeysDone
  BY <1>3 DEF WaitForWork, FallAsleep, TimerExpires, KeysDone, Dispatch, NoReloadAfterExit, Reloading
<1>4. CASE TakeExitRequest \/ ProcessExitRequest \/ TakeReloadRequest \/ LoadConfig
  <2>1. CASE TakeReloadRequest
    <3>1. pc' = "reloading" => ~exitHandled
      BY <2>1 DEF TakeReloadRequest, ReloadOrDefer, Dispatch
    <3>2. pc' # "reloadingDeferred" /\ exitHandled' = exitHandled
      BY <2>1 DEF TakeReloadRequest, ReloadOrDefer, Dispatch
    <3> QED
      BY <3>1, <3>2 DEF NoReloadAfterExit, Reloading
  <2>2. CASE TakeExitRequest \/ ProcessExitRequest \/ LoadConfig
    BY <2>2 DEF TakeExitRequest, ProcessExitRequest, LoadConfig, Dispatch, NoReloadAfterExit, Reloading
  <2> QED
    BY <1>4, <2>1, <2>2
<1>5. CASE TakeOverflow \/ ClearSuperDown \/ ReleaseMouse \/ DiscardKey
  BY <1>5 DEF TakeOverflow, ClearSuperDown, ReleaseMouse, DiscardKey, Dispatch, NoReloadAfterExit, Reloading
<1>6. CASE ProcessKey
  BY <1>6 DEF ProcessKey, PopKey, RepeatedKey, SuperPressed, KeyPressed, KeyReleased, SuperReleased,
              ReloadOrDefer, Dispatch, NoReloadAfterExit, Reloading
<1> QED
  BY <1>1, <1>2, <1>3, <1>4, <1>5, <1>6 DEF Next, DispatchNext

-------------------------------------------------------------------------------
\* What the queue tells, when an event enters it and when one leaves it.

LEMMA QueuePushed ==
  ASSUME NEW q \in Seq(KeyEvent), NEW e \in KeyEvent, NEW k, NEW down, NEW lua,
         IF e.vk = k THEN e.down = down ELSE TellsOf(q, k, down, lua)
  PROVE  TellsOf(Append(q, e), k, down, lua)
<1> DEFINE p == Append(q, e)
<1>1. /\ Len(p) = Len(q) + 1 /\ Len(q) \in Nat
      /\ p[Len(q) + 1] = e
      /\ \A i \in 1..Len(q) : p[i] = q[i]
  OBVIOUS
<1> HIDE DEF p
<1>2. ASSUME NEW i \in 1..Len(p), p[i].vk = k, \A j \in (i + 1)..Len(p) : p[j].vk # k
      PROVE  p[i].down = down
  <2>1. CASE i = Len(q) + 1
    BY <1>1, <1>2, <2>1
  <2>2. CASE i \in 1..Len(q)
    <3>1. e.vk # k
      BY <1>1, <1>2, <2>2
    <3>2. \A j \in (i + 1)..Len(q) : q[j].vk # k
      BY <1>1, <1>2, <2>2
    <3> QED
      BY <1>1, <1>2, <2>2, <3>1, <3>2 DEF TellsOf
  <2> QED
    BY <1>1, <2>1, <2>2
<1>3. ASSUME \A i \in 1..Len(p) : p[i].vk # k
      PROVE  lua = down
  <2>1. e.vk # k /\ \A i \in 1..Len(q) : q[i].vk # k
    BY <1>1, <1>3
  <2> QED
    BY <2>1 DEF TellsOf
<1>4. TellsOf(p, k, down, lua)
  BY <1>2, <1>3 DEF TellsOf
<1> QED
  BY <1>4 DEF p

LEMMA QueuePopped ==
  ASSUME NEW q \in Seq(KeyEvent), q # <<>>, NEW k, NEW down, NEW lua, NEW luaNext,
         TellsOf(q, k, down, lua),
         luaNext = IF Head(q).vk = k THEN Head(q).down ELSE lua
  PROVE  TellsOf(Tail(q), k, down, luaNext)
<1> DEFINE p == Tail(q)
<1>1. /\ Len(p) = Len(q) - 1 /\ Len(q) \in Nat \ {0}
      /\ Head(q) = q[1]
      /\ \A i \in 1..Len(p) : p[i] = q[i + 1]
  OBVIOUS
<1> HIDE DEF p
<1>2. ASSUME NEW i \in 1..Len(p), p[i].vk = k, \A j \in (i + 1)..Len(p) : p[j].vk # k
      PROVE  p[i].down = down
  <2>1. i + 1 \in 1..Len(q) /\ q[i + 1].vk = k
    BY <1>1, <1>2
  <2>2. ASSUME NEW j \in ((i + 1) + 1)..Len(q) PROVE q[j].vk # k
    <3>1. j - 1 \in (i + 1)..Len(p) /\ j - 1 \in 1..Len(p) /\ (j - 1) + 1 = j
      BY <1>1
    <3> QED
      BY <1>1, <1>2, <3>1
  <2>3. q[i + 1].down = down
    BY <2>1, <2>2 DEF TellsOf
  <2> QED
    BY <1>1, <2>3
<1>3. ASSUME \A i \in 1..Len(p) : p[i].vk # k
      PROVE  luaNext = down
  <2>1. ASSUME NEW j \in 2..Len(q) PROVE q[j].vk # k
    <3>1. j - 1 \in 1..Len(p) /\ (j - 1) + 1 = j
      BY <1>1
    <3> QED
      BY <1>1, <1>3, <3>1
  <2>2. CASE q[1].vk = k
    <3>1. q[1].down = down
      BY <1>1, <2>1, <2>2 DEF TellsOf
    <3> QED
      BY <1>1, <2>2, <3>1
  <2>3. CASE q[1].vk # k
    <3>1. \A i \in 1..Len(q) : q[i].vk # k
      BY <1>1, <2>1, <2>3
    <3> QED
      BY <1>1, <2>3, <3>1 DEF TellsOf
  <2> QED
    BY <2>2, <2>3
<1>4. TellsOf(p, k, down, luaNext)
  BY <1>2, <1>3 DEF TellsOf
<1> QED
  BY <1>4 DEF p

-------------------------------------------------------------------------------
(***************************************************************************)
(* The views of the super key, step by step, while the super key is kept   *)
(* and no event was dropped.  Nothing is assumed about lost before a step: *)
(* lost never becomes FALSE again.                                         *)
(***************************************************************************)
LEMMA LostStays ==
  ASSUME TypeOK, [Next]_vars, ~lost'
  PROVE  ~lost
<1>1. CASE HookPush
  BY <1>1 DEF HookPush
<1>2. CASE UNCHANGED vars
  BY <1>2 DEF vars, hookVars
<1>3. CASE RequesterNext
  BY <1>3 DEF RequesterNext, RequestReloadConfig, RequestExit, SetRequest, hookVars
<1>4. CASE HookNotify \/ \E vk \in Keys, down \in BOOLEAN :
             HookPassKey(vk, down) \/ HookQueueKey(vk, down) \/ HookSuperKey(vk, down)
  BY <1>4 DEF HookNotify, HookPassKey, HookQueueKey, HookSuperKey
<1>5. CASE DispatchNext \/ TimerExpires
  BY <1>5 DEF DispatchNext, TimerExpires, WaitForWork, FallAsleep, KeysDone, TakeExitRequest, ProcessExitRequest,
              TakeReloadRequest, ReloadOrDefer, LoadConfig, TakeOverflow, ClearSuperDown, ReleaseMouse, DiscardKey,
              ProcessKey, RepeatedKey, SuperPressed, KeyPressed, KeyReleased, SuperReleased, Dispatch
<1> QED
  BY <1>1, <1>2, <1>3, <1>4, <1>5 DEF Next, HookNext

LEMMA HookViewInv ==
  ASSUME TypeOK, ViewInv, ~lost, ~lost', superVk' = superVk, HookNext
  PROVE  ViewInv'
<1>1. ASSUME NEW vk \in Keys, NEW down \in BOOLEAN, HookPassKey(vk, down) \/ HookQueueKey(vk, down)
      PROVE  ViewInv'
  <2> UserKey(vk, down) /\ vk # superVk
    BY <1>1 DEF HookPassKey, HookQueueKey
  <2>1. ~HookAtSuper /\ ~HookAtSuper' /\ hook.step # "notify" /\ hook'.step # "notify"
    <3>1. hook.step = "idle"
      BY DEF UserKey
    <3>2. CASE HookPassKey(vk, down)
      BY <3>1, <3>2 DEF HookPassKey, HookAtSuper
    <3>3. CASE HookQueueKey(vk, down)
      <4>1. hook'.step = "push" /\ hook'.vk = vk
        BY <3>3 DEF HookQueueKey
      <4> QED
        BY <3>1, <4>1 DEF HookAtSuper
    <3> QED
      BY <1>1, <3>2, <3>3
  <2>2. superVk \in phys' <=> superVk \in phys
    BY DEF UserKey
  <2>3. UNCHANGED <<superDown, mouseWanted, queue, keys, luaSuper>>
    BY <1>1 DEF HookPassKey, HookQueueKey, dispatchVars
  <2> QED
    BY <2>1, <2>2, <2>3 DEF ViewInv
<1>2. ASSUME NEW vk \in Keys, NEW down \in BOOLEAN, HookSuperKey(vk, down)
      PROVE  ViewInv'
  <2>1. hook.step # "notify" /\ HookAtSuper' /\ hook'.down = superDown'
    BY <1>2 DEF HookSuperKey, UserKey, HookAtSuper
  <2>2. superDown' = (superVk \in phys')
    BY <1>2 DEF HookSuperKey, UserKey
  <2>3. UNCHANGED <<mouseWanted, keys, luaSuper>>
    BY <1>2 DEF HookSuperKey, dispatchVars
  <2>4. hook'.step # "notify" => superDown' = superDown
    BY <1>2 DEF HookSuperKey
  <2> QED
    BY <2>1, <2>2, <2>3, <2>4 DEF ViewInv
<1>3. CASE HookNotify
  <2>1. HookAtSuper /\ HookAtSuper' /\ hook'.down = hook.down /\ hook'.step # "notify"
    BY <1>3 DEF HookNotify, HookAtSuper, ViewInv, TypeOK
  <2>2. mouseWanted' = hook.down
    BY <1>3 DEF HookNotify
  <2>3. UNCHANGED <<superDown, phys, keys, luaSuper>>
    BY <1>3 DEF HookNotify, dispatchVars
  <2> QED
    BY <2>1, <2>2, <2>3 DEF ViewInv
<1>4. CASE HookPush
  <2> DEFINE e == [vk |-> hook.vk, down |-> hook.down]
  <2>1. ~HookAtSuper' /\ hook'.step # "notify" /\ hook.step = "push"
    BY <1>4 DEF HookPush, HookAtSuper, NoHook
  <2>2. queue' = Append(queue, e)
    BY <1>4 DEF HookPush
  <2>3. UNCHANGED <<superDown, mouseWanted, phys, keys, luaSuper>>
    BY <1>4 DEF HookPush, dispatchVars
  <2>4. e \in KeyEvent /\ queue \in Seq(KeyEvent)
    BY DEF TypeOK, KeyEvent
  <2>5. IF e.vk = superVk THEN e.down = superDown ELSE TellsOf(queue, superVk, superDown, luaSuper)
    BY <2>1 DEF ViewInv, HookAtSuper
  <2> HIDE DEF e
  <2>6. TellsOf(queue, superVk, superDown, luaSuper)'
    BY <2>2, <2>3, <2>4, <2>5, QueuePushed
  <2> QED
    BY <2>1, <2>3, <2>6 DEF ViewInv
<1> QED
  BY <1>1, <1>2, <1>3, <1>4 DEF HookNext

LEMMA KeyViewInv ==
  ASSUME TypeOK, ViewInv, ~lost, superVk' = superVk, ProcessKey
  PROVE  ViewInv'
<1>1. PICK e \in KeyEvent :
        RepeatedKey(e) \/ SuperPressed(e) \/ KeyPressed(e) \/ KeyReleased(e) \/ SuperReleased(e)
  BY DEF ProcessKey
<1>2. PopKey(e) /\ UNCHANGED <<phys, hook, lost>>
  BY <1>1 DEF RepeatedKey, SuperPressed, KeyPressed, KeyReleased, SuperReleased, ReloadOrDefer, Dispatch
<1>3. /\ queue # <<>> /\ Head(queue) = e /\ queue' = Tail(queue)
      /\ UNCHANGED <<superDown, mouseWanted>>
  BY <1>2 DEF PopKey
\* Lua and the key state follow the event when it is one of super, and stay otherwise.
<1>4. /\ luaSuper' = IF e.vk = superVk THEN e.down ELSE luaSuper
      /\ (superVk \in keys') = luaSuper'
  <2> USE DEF ViewInv
  <2>1. CASE RepeatedKey(e)
    BY <2>1 DEF RepeatedKey, dispatchVars, TypeOK, KeyEvent
  <2>2. CASE SuperPressed(e)
    BY <2>2 DEF SuperPressed, KeyEvent
  <2>3. CASE KeyPressed(e)
    BY <2>3 DEF KeyPressed
  <2>4. CASE KeyReleased(e)
    BY <2>4 DEF KeyReleased
  <2>5. CASE SuperReleased(e)
    <3>1. e.down = FALSE /\ e.vk = superVk
      BY <2>5 DEF SuperReleased, KeyEvent
    <3>2. luaSuper' = FALSE /\ (superVk \in keys') = FALSE
      BY <2>5 DEF SuperReleased
    <3> QED
      BY <3>1, <3>2
  <2> QED
    BY <1>1, <2>1, <2>2, <2>3, <2>4, <2>5
<1>5. ~HookAtSuper => TellsOf(queue', superVk, superDown, luaSuper')
  BY <1>3, <1>4, QueuePopped DEF ViewInv, TypeOK
<1> QED
  BY <1>2, <1>3, <1>4, <1>5 DEF ViewInv, HookAtSuper

LEMMA NextViewInv ==
  ASSUME TypeOK, LostInv, ViewInv, [Next]_vars, superVk' = superVk
  PROVE  ViewInv'
<1> SUFFICES ASSUME ~lost' PROVE ViewInv'
  BY DEF ViewInv
<1>0. ~lost /\ ~overflowed /\ pc \notin Recovery
  BY LostStays DEF LostInv
<1>1. CASE HookNext
  BY <1>0, <1>1, HookViewInv
<1>2. CASE ProcessKey
  BY <1>0, <1>2, KeyViewInv
<1>3. CASE UNCHANGED vars
  BY <1>3 DEF vars, hookVars, dispatchVars, ViewInv, HookAtSuper
<1>4. CASE RequesterNext
  <2>1. UNCHANGED <<superVk, mouseWanted, hookVars, dispatchVars>>
    BY <1>4 DEF RequesterNext, RequestReloadConfig, RequestExit, SetRequest
  <2> QED
    BY <2>1 DEF hookVars, dispatchVars, ViewInv, HookAtSuper
<1>5. CASE \/ WaitForWork \/ FallAsleep \/ TimerExpires \/ KeysDone
           \/ TakeExitRequest \/ ProcessExitRequest \/ TakeReloadRequest \/ LoadConfig
  <2>1. UNCHANGED <<mouseWanted, superDown, queue, dispatchVars, phys, hook, lost>>
    BY <1>5 DEF WaitForWork, FallAsleep, TimerExpires, KeysDone, DispatchUnchanged, TakeExitRequest,
                ProcessExitRequest, TakeReloadRequest, ReloadOrDefer, LoadConfig, Dispatch
  <2> QED
    BY <2>1 DEF dispatchVars, ViewInv, HookAtSuper
<1>6. CASE TakeOverflow
  <2>1. UNCHANGED <<mouseWanted, superDown, queue, keys, luaSuper, phys, hook, lost>>
    BY <1>0, <1>6 DEF TakeOverflow, Dispatch
  <2> QED
    BY <2>1 DEF ViewInv, HookAtSuper
<1>7. CASE ClearSuperDown \/ ReleaseMouse \/ DiscardKey
  BY <1>0, <1>7 DEF ClearSuperDown, ReleaseMouse, DiscardKey, Dispatch, Recovery
<1> QED
  BY <1>1, <1>2, <1>3, <1>4, <1>5, <1>6, <1>7 DEF Next, DispatchNext

-------------------------------------------------------------------------------
\* The trigger of a deferred reload.

HookReleases == hook.step # "idle" /\ hook.vk = superVk /\ ~hook.down
QueueReleases == \E i \in DOMAIN queue : queue[i].vk = superVk /\ ~queue[i].down

LEMMA NextDeferred ==
  ASSUME TypeOK, LostInv, DeferredHasTrigger, [Next]_vars, superVk' = superVk
  PROVE  DeferredHasTrigger'
<1> SUFFICES ASSUME reloadDeferred', ~lost' PROVE (superDown \/ HookReleases \/ QueueReleases)'
  BY DEF DeferredHasTrigger, HookReleases, QueueReleases
<1>0. ~lost /\ ~overflowed /\ pc \notin Recovery
  BY LostStays DEF LostInv
<1>a. reloadDeferred => superDown \/ HookReleases \/ QueueReleases
  BY <1>0 DEF DeferredHasTrigger, HookReleases, QueueReleases
<1>1. ASSUME NEW vk \in Keys, NEW down \in BOOLEAN, HookPassKey(vk, down) \/ HookQueueKey(vk, down)
      PROVE  (superDown \/ HookReleases \/ QueueReleases)'
  <2>1. UserKey(vk, down) /\ UNCHANGED <<superDown, queue, reloadDeferred>>
    BY <1>1 DEF HookPassKey, HookQueueKey, requestVars
  <2>2. ~HookReleases
    BY <2>1 DEF UserKey, HookReleases
  <2> QED
    BY <1>a, <2>1, <2>2 DEF QueueReleases
<1>2. ASSUME NEW vk \in Keys, NEW down \in BOOLEAN, HookSuperKey(vk, down)
      PROVE  (superDown \/ HookReleases \/ QueueReleases)'
  <2>1. superDown' = down
    BY <1>2 DEF HookSuperKey
  <2>2. CASE ~down
    BY <1>2, <2>2 DEF HookSuperKey, HookReleases
  <2> QED
    BY <2>1, <2>2
<1>3. CASE HookNotify
  <2>1. UNCHANGED <<superDown, queue, reloadDeferred>>
    BY <1>3 DEF HookNotify, requestVars
  <2>2. HookReleases => HookReleases'
    BY <1>3 DEF HookNotify, HookReleases, TypeOK
  <2> QED
    BY <1>a, <2>1, <2>2 DEF QueueReleases
<1>4. CASE HookPush
  <2> DEFINE e == [vk |-> hook.vk, down |-> hook.down]
  <2>1. UNCHANGED <<superDown, reloadDeferred>> /\ queue' = Append(queue, e)
    BY <1>4 DEF HookPush, requestVars
  <2>2. queue \in Seq(KeyEvent) /\ e \in KeyEvent
    BY DEF TypeOK, KeyEvent
  <2>3. HookReleases => e.vk = superVk /\ ~e.down
    BY DEF HookReleases
  <2> HIDE DEF e
  <2>4. /\ Len(queue) + 1 \in DOMAIN queue' /\ queue'[Len(queue) + 1] = e
        /\ \A i \in DOMAIN queue : i \in DOMAIN queue' /\ queue'[i] = queue[i]
    BY <2>1, <2>2
  <2>5. HookReleases => QueueReleases'
    BY <2>3, <2>4 DEF QueueReleases
  <2>6. QueueReleases => QueueReleases'
    BY <2>4 DEF QueueReleases
  <2> QED
    BY <1>a, <2>1, <2>5, <2>6
<1>5. CASE ProcessKey
  <2>1. PICK e \in KeyEvent :
          RepeatedKey(e) \/ SuperPressed(e) \/ KeyPressed(e) \/ KeyReleased(e) \/ SuperReleased(e)
    BY <1>5 DEF ProcessKey
  <2>2. PopKey(e) /\ hook' = hook
    BY <2>1 DEF RepeatedKey, SuperPressed, KeyPressed, KeyReleased, SuperReleased, ReloadOrDefer, Dispatch
  <2>3. queue # <<>> /\ Head(queue) = e /\ queue' = Tail(queue) /\ superDown' = superDown /\ pc = "keys"
    BY <2>2 DEF PopKey
  <2>4. CASE SuperReleased(e)
    \* The reload was looked at: it is deferred again only while super is down.
    BY <2>3, <2>4 DEF SuperReleased, ReloadOrDefer
  <2>5. CASE RepeatedKey(e) \/ SuperPressed(e) \/ KeyPressed(e) \/ KeyReleased(e)
    <3>1. reloadDeferred' = reloadDeferred
      BY <2>5 DEF RepeatedKey, SuperPressed, KeyPressed, KeyReleased
    <3>2. e.vk = superVk => e.down
      BY <2>5 DEF RepeatedKey, SuperPressed, KeyPressed, KeyReleased
    <3>3. ASSUME NEW i \in DOMAIN queue, queue[i].vk = superVk, ~queue[i].down
          PROVE  QueueReleases'
      <4>1. i \in 2..Len(queue)
        BY <2>3, <3>2, <3>3 DEF TypeOK
      <4>2. i - 1 \in DOMAIN queue' /\ queue'[i - 1] = queue[i]
        BY <2>3, <4>1 DEF TypeOK
      <4> QED
        BY <3>3, <4>2 DEF QueueReleases
    <3>4. QueueReleases => QueueReleases'
      BY <3>3 DEF QueueReleases
    <3> QED
      BY <1>a, <2>2, <2>3, <3>1, <3>4 DEF HookReleases
  <2> QED
    BY <2>1, <2>4, <2>5
<1>6. CASE TakeReloadRequest
  <2>1. UNCHANGED <<superDown, queue, hook>>
    BY <1>6 DEF TakeReloadRequest, ReloadOrDefer, Dispatch
  <2>2. superDown \/ reloadDeferred
    BY <1>6 DEF TakeReloadRequest, ReloadOrDefer
  <2> QED
    BY <1>a, <2>1, <2>2 DEF HookReleases, QueueReleases
<1>7. CASE ProcessExitRequest
  BY <1>7 DEF ProcessExitRequest
<1>8. CASE UNCHANGED vars \/ RequesterNext
  <2>1. UNCHANGED <<superDown, queue, hook, reloadDeferred>>
    BY <1>8 DEF vars, hookVars, requestVars, RequesterNext, RequestReloadConfig, RequestExit, SetRequest
  <2> QED
    BY <1>a, <2>1 DEF HookReleases, QueueReleases
<1>9. CASE WaitForWork \/ FallAsleep \/ TimerExpires \/ KeysDone \/ TakeExitRequest \/ LoadConfig \/ TakeOverflow
  <2>1. UNCHANGED <<superDown, queue, hook, reloadDeferred>>
    BY <1>9 DEF WaitForWork, FallAsleep, TimerExpires, KeysDone, DispatchUnchanged, TakeExitRequest, LoadConfig,
                TakeOverflow, Dispatch
  <2> QED
    BY <1>a, <2>1 DEF HookReleases, QueueReleases
<1>10. CASE ClearSuperDown \/ ReleaseMouse \/ DiscardKey
  BY <1>0, <1>10 DEF ClearSuperDown, ReleaseMouse, DiscardKey, Dispatch, Recovery
<1> QED
  BY <1>1, <1>2, <1>3, <1>4, <1>5, <1>6, <1>7, <1>8, <1>9, <1>10 DEF Next, HookNext, DispatchNext

-------------------------------------------------------------------------------
\* The invariants, and the theorems.

LEMMA InitIInv == Init => IInv /\ KInv
<1> SUFFICES ASSUME Init PROVE IInv /\ KInv
  OBVIOUS
<1>1. TypeOK
  BY InitTypeOK
<1>2. LostInv /\ NoReloadAfterExit
  BY DEF Init, LostInv, Recovery, NoReloadAfterExit, Reloading
<1>3. ViewInv
  <2>1. ~HookAtSuper /\ hook.step # "notify"
    BY DEF Init, HookAtSuper, NoHook
  <2>a. queue = <<>> /\ superDown = FALSE /\ luaSuper = FALSE /\ mouseWanted = FALSE
    BY DEF Init
  <2>b. (superVk \in phys) = FALSE /\ (superVk \in keys) = FALSE
    BY DEF Init
  <2>2. TellsOf(queue, superVk, superDown, luaSuper)
    <3>1. luaSuper = superDown
      BY <2>a
    <3>2. 1..Len(queue) = {}
      BY <2>a
    <3> QED
      BY <3>1, <3>2 DEF TellsOf
  <2>3. superDown = (superVk \in phys) /\ mouseWanted = superDown
    BY <2>a, <2>b
  <2>4. luaSuper = (superVk \in keys)
    BY <2>a, <2>b
  <2> QED
    BY <2>1, <2>2, <2>3, <2>4 DEF ViewInv
<1>4. DeferredHasTrigger
  BY DEF Init, DeferredHasTrigger
<1> QED
  BY <1>1, <1>2, <1>3, <1>4 DEF IInv, KInv

(***************************************************************************)
(* The inductive invariant of every behaviour: the types, that the         *)
(* recovery runs only after an overflow, and NoReloadAfterExit, which the  *)
(* checks of TakeReloadRequest and SuperReleased establish each on its own.*)
(***************************************************************************)
THEOREM Inductive == Spec => []IInv
<1>1. Init => IInv
  BY InitIInv
<1>2. IInv /\ [Next]_vars => IInv'
  BY NextTypeOK, NextLostInv, NextExitInv DEF IInv
<1> QED
  BY <1>1, <1>2, PTL DEF Spec

\* Every variable keeps its type, and m_keyQueue never exceeds its capacity.
THEOREM TypeCorrect == Spec => []TypeOK
<1>1. IInv => TypeOK
  BY DEF IInv
<1> QED
  BY <1>1, Inductive, PTL

(***************************************************************************)
(* No configuration is loaded once an exit request is being handled,       *)
(* however the tray, the callbacks and the keys interleave and whichever   *)
(* keys are super keys.                                                    *)
(***************************************************************************)
THEOREM ExitSafe == Spec => []NoReloadAfterExit
<1>1. IInv => NoReloadAfterExit
  BY DEF IInv
<1> QED
  BY <1>1, Inductive, PTL

(***************************************************************************)
(* While the super key is kept, what the queue has yet to say relates what *)
(* the hook knows of it to what Lua and the modal keys know.               *)
(***************************************************************************)
THEOREM KeptInductive == Spec /\ SuperKept => []KInv
<1>1. Init => KInv
  BY InitIInv
<1>2. IInv /\ KInv /\ [Next]_vars /\ [superVk' = superVk]_superVk => KInv'
  <2> SUFFICES ASSUME IInv, KInv, [Next]_vars, superVk' = superVk PROVE KInv'
    OBVIOUS
  <2> QED
    BY NextViewInv, NextDeferred DEF IInv, KInv
<1> QED
  BY <1>1, <1>2, Inductive, PTL DEF Spec, SuperKept

(***************************************************************************)
(* As long as the super key is not changed and no event is dropped, the    *)
(* hook, the mouse, Lua and the modal keys agree with the user whenever    *)
(* the dispatch thread waits and the queue is empty.                       *)
(***************************************************************************)
THEOREM ViewsSafe == Spec /\ SuperKept => []SuperViewsAgree
<1>1. KInv => SuperViewsAgree
  <2> SUFFICES ASSUME ViewInv, Quiet, ~lost
               PROVE  /\ superDown = (superVk \in phys)
                      /\ mouseWanted = superDown
                      /\ luaSuper = superDown
                      /\ (superVk \in keys) = superDown
    BY DEF KInv, SuperViewsAgree
  <2>1. ~HookAtSuper /\ hook.step # "notify"
    BY DEF Quiet, HookAtSuper
  <2>2. luaSuper = superDown
    BY <2>1 DEF ViewInv, TellsOf, Quiet
  <2> QED
    BY <2>1, <2>2 DEF ViewInv
<1> QED
  BY <1>1, KeptInductive, PTL

(***************************************************************************)
(* As long as the super key is not changed and no event is dropped, a      *)
(* deferred reload keeps the release of super that carries it out.         *)
(***************************************************************************)
THEOREM DeferredSafe == Spec /\ SuperKept => []DeferredHasTrigger
<1>1. KInv => DeferredHasTrigger
  BY DEF KInv
<1> QED
  BY <1>1, KeptInductive, PTL
==================================================================================
