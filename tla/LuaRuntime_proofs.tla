--------------------------- MODULE LuaRuntime_proofs ---------------------------
(***************************************************************************)
(* Proofs about LuaRuntime, for any keys, settings and delays and any      *)
(* bounds.                                                                 *)
(***************************************************************************)
EXTENDS LuaRuntime, FiniteSetTheorems, WellFoundedInduction, TLAPS

-------------------------------------------------------------------------------
\* Where the thread is decides whether there is a state, what runs in it and what the
\* rest of the program sees.
ModeInv ==
  /\ pc = "lua" => kind # "none" /\ live # 0
  /\ pc # "lua" => kind = "none"
  /\ loading <=> pc = "lua" /\ kind = "config"
  /\ pc = "lua" /\ kind # "config" => ~safe
  /\ pc = "load" \/ (pc = "lua" /\ kind = "reload") => loads < MaxLoads
  /\ PublishedIsPending
  /\ SafeModeIsClean

\* A timer is known by its number: it is in the heap once, of the state that made it.
TimerInv ==
  /\ \A t \in heap : t.state = live /\ t.id <= timers /\ t.id \notin fired
  /\ \A t, u \in heap : t.id = u.id => t = u
  /\ \A id \in fired : id <= timers
  /\ fireNow <= now

(***************************************************************************)
(* RefsAccounted without the counting: the owners hold different           *)
(* references, and together they hold those of the registry.               *)
(***************************************************************************)
Held(f) == {f[x] : x \in {y \in DOMAIN f : f[y] # NoRef}}
Injective(f) == \A x, y \in DOMAIN f : f[x] # NoRef /\ f[x] = f[y] => x = y
TimerRefs == {t.ref : t \in heap}

OwnersDiffer ==
  /\ Injective(binds) /\ Injective(callbacks) /\ Injective(handles)
  /\ \A t, u \in heap : t.ref = u.ref => t = u
  /\ Held(binds) \cap Held(callbacks) = {}
  /\ (Held(binds) \cup Held(callbacks)) \cap Held(handles) = {}
  /\ (Held(binds) \cup Held(callbacks) \cup Held(handles)) \cap TimerRefs = {}

RefInv ==
  /\ registry = Held(binds) \cup Held(callbacks) \cup Held(handles) \cup TimerRefs
  /\ OwnersDiffer
  /\ \A t \in TimerId : handles[t] # NoRef => t <= timers
  /\ live = 0 => registry = {}

IInv == TypeOK /\ ModeInv /\ TimerInv /\ RefInv

-------------------------------------------------------------------------------
\* The smallest free place of the registry exists whenever one is free.

LEMMA MinOfNats ==
  ASSUME NEW S \in SUBSET Nat, S # {}
  PROVE  Min(S) \in S
<1>1. PICK x \in S : \A y \in S : ~(<<y, x>> \in OpToRel(<, Nat))
  BY WFMin, NatLessThanWellFounded
<1>2. \A y \in S : ~(y < x)
  BY <1>1 DEF OpToRel
<1>3. \E m \in S : \A y \in S : m <= y
  BY <1>2
<1> QED
  BY <1>3 DEF Min

LEMMA Bounds ==
  /\ MaxRefs \in Nat /\ MaxTimers \in Nat /\ MaxLoads \in Nat \ {0} /\ MaxOps \in Nat
  /\ MaxCalls \in Nat /\ MaxTime \in Nat
  /\ Intervals \subseteq Nat /\ LWin \in SuperKeys /\ Plain \in Looks
  /\ NoRef \notin Ref
BY LuaAssumption DEF LuaAssumption, NoRef, Ref

LEMMA DefaultsAreSettings == Defaults \in Settings
BY Bounds DEF Defaults, Settings

LEMMA RefsFinite ==
  ASSUME NEW S \in SUBSET Ref
  PROVE  IsFiniteSet(S) /\ Cardinality(S) \in Nat
<1>1. IsFiniteSet(Ref)
  BY Bounds, FS_Interval DEF Ref
<1> QED
  BY <1>1, FS_Subset, FS_CardinalityType

LEMMA FreeRef ==
  ASSUME registry \subseteq Ref, NEW old, FreeRefs(1)
  PROVE  Min(Ref \ (registry \ {old})) \in Ref \ (registry \ {old})
<1>1. Ref \ registry # {}
  BY FS_EmptySet DEF FreeRefs
<1>2. Ref \ (registry \ {old}) # {}
  BY <1>1
<1> QED
  BY <1>2, MinOfNats, Bounds DEF Ref

LEMMA FreePair ==
  ASSUME registry \subseteq Ref, FreeRefs(2)
  PROVE  NewRef \in Ref \ registry /\ NewRef2 \in Ref \ registry /\ NewRef # NewRef2
<1> DEFINE free == Ref \ registry
<1>1. IsFiniteSet(free) /\ Cardinality(free) \in Nat /\ Cardinality(free) >= 2
  BY RefsFinite DEF FreeRefs
<1>2. free # {}
  BY <1>1, FS_EmptySet
<1>3. NewRef \in free
  BY <1>2, MinOfNats, Bounds DEF Ref, NewRef
<1>4. Ref \ (registry \cup {NewRef}) = free \ {NewRef}
  OBVIOUS
<1>5. Cardinality(free \ {NewRef}) = Cardinality(free) - 1 /\ IsFiniteSet(free \ {NewRef})
  BY <1>1, <1>3, FS_RemoveElement
<1>6. free \ {NewRef} # {}
  BY <1>1, <1>5, FS_EmptySet
<1>7. NewRef2 \in free \ {NewRef}
  BY <1>4, <1>6, MinOfNats, Bounds DEF Ref, NewRef2
<1> QED
  BY <1>3, <1>7

-------------------------------------------------------------------------------
\* Types.

LEMMA CounterTypes ==
  ASSUME TypeOK
  PROVE  /\ loads \in 0..MaxLoads /\ ops \in 0..MaxOps /\ calls \in 0..MaxCalls /\ timers \in 0..MaxTimers
         /\ now \in 0..MaxTime /\ fireNow \in 0..MaxTime /\ live \in 0..MaxLoads
BY DEF TypeOK

LEMMA EmptyTypes ==
  /\ NoBinds \in [Keys -> Ref \cup {NoRef}]
  /\ [c \in Callbacks |-> NoRef] \in [Callbacks -> Ref \cup {NoRef}]
  /\ NoHandles \in [TimerId -> Ref \cup {NoRef}]
BY DEF NoBinds, NoHandles

LEMMA InitTypeOK == Init => TypeOK
<1> SUFFICES ASSUME Init PROVE TypeOK
  OBVIOUS
<1>1. /\ live \in 0..MaxLoads /\ loads \in 0..MaxLoads /\ ops \in 0..MaxOps /\ calls \in 0..MaxCalls
      /\ timers \in 0..MaxTimers /\ now \in 0..MaxTime /\ fireNow \in 0..MaxTime
  BY Bounds DEF Init
<1>2. {pending, published} \subseteq Settings /\ superKey \in SuperKeys
  BY Bounds, DefaultsAreSettings DEF Init
<1>3. {safe, loading, lifecycle, limit, native, caught, exiting} \subseteq BOOLEAN
  BY DEF Init
<1>4. /\ registry \subseteq Ref /\ heap \subseteq TimerEntry /\ cancelled \subseteq TimerId /\ fired \subseteq TimerId
      /\ requested \subseteq {"reload", "exit"} /\ current \in TimerId \cup {0}
  BY DEF Init
<1> QED
  BY <1>1, <1>2, <1>3, <1>4, EmptyTypes DEF Init, TypeOK, Kinds, Callbacks

LEMMA CloseTypeOK ==
  ASSUME TypeOK, NEW state \in 0..MaxLoads, CloseState \/ CreateState(state)
  PROVE  /\ live' \in {0, state} /\ registry' \subseteq Ref
         /\ binds' \in [Keys -> Ref \cup {NoRef}]
         /\ callbacks' \in [Callbacks -> Ref \cup {NoRef}]
         /\ handles' \in [TimerId -> Ref \cup {NoRef}]
         /\ heap' \subseteq TimerEntry /\ cancelled' \subseteq TimerId
BY EmptyTypes DEF TypeOK, CloseState, CreateState

LEMMA CallTypeOK ==
  ASSUME TypeOK, NEW k \in Kinds, GuardedCall(k)
  PROVE  pc' = "lua" /\ kind' = k /\ {limit', native', caught'} \subseteq BOOLEAN
BY DEF GuardedCall, InstallTimeout, TypeOK
\* The frame of an action that leaves the configuration of the state alone.
Frame == <<live, refs, timing, config>>

LEMMA ThreadTypeOK ==
  ASSUME TypeOK, ModeInv,
         UNCHANGED Frame,
         pc' \in {"load", "lua", "idle", "fire", "gone"}, kind' \in Kinds,
         {safe', loading', lifecycle', limit', native', caught', exiting'} \subseteq BOOLEAN,
         current' \in TimerId \cup {0}, now' \in 0..MaxTime, fireNow' \in 0..MaxTime,
         requested' \subseteq {"reload", "exit"}, fired' \subseteq TimerId,
         loads' \in 0..MaxLoads, ops' \in 0..MaxOps, calls' \in 0..MaxCalls
  PROVE  TypeOK'
BY DEF TypeOK, Frame, refs, timing, config

LEMMA LoadTypeOK ==
  ASSUME TypeOK, ModeInv, BeginLoad \/ \E ok \in BOOLEAN : EndLoad(ok)
  PROVE  TypeOK'
<1> USE DEF TypeOK
<1>1. CASE BeginLoad
  <2>0. loads' = loads + 1 /\ loads < MaxLoads
    BY <1>1 DEF BeginLoad, ModeInv
  <2>1. loads' = loads + 1 /\ loads' \in 0..MaxLoads
    BY <2>0, Bounds
  <2>2. /\ UNCHANGED <<lifecycle, current, limit, native, caught, timers, now, fireNow, requested, exiting, ops, calls, fired>>
        /\ pc' \in {"lua", "idle"}
    BY <1>1 DEF BeginLoad
  <2>3. CASE CreateState(loads + 1) /\ pending' = Defaults /\ loading' = TRUE /\ kind' = "config"
             /\ UNCHANGED <<published, superKey, safe>>
    <3>1. live' \in 0..MaxLoads
      BY <2>1, <2>3 DEF CreateState
    <3>2. {pending', published'} \subseteq Settings /\ superKey' \in SuperKeys
      BY <2>3, DefaultsAreSettings
    <3>3. {safe', loading', lifecycle', limit', native', caught', exiting'} \subseteq BOOLEAN
      BY <2>2, <2>3
    <3> QED
      BY <2>1, <2>2, <2>3, <3>1, <3>2, <3>3, CloseTypeOK DEF Kinds
  <2>4. CASE EnterSafeMode /\ UNCHANGED <<kind, loading>>
    <3>1. {pending', published'} \subseteq Settings /\ superKey' \in SuperKeys
      BY <2>4, DefaultsAreSettings DEF EnterSafeMode, Publish, Settings
    <3>2. {safe', loading', lifecycle', limit', native', caught', exiting'} \subseteq BOOLEAN
      BY <2>2, <2>4 DEF EnterSafeMode
    <3>3. CloseState
      BY <2>4 DEF EnterSafeMode
    <3>4. live' \in 0..MaxLoads
      BY <3>3, Bounds DEF CloseState
    <3> QED
      BY <2>1, <2>2, <2>4, <3>1, <3>2, <3>3, <3>4, CloseTypeOK
  <2> QED
    BY <1>1, <2>3, <2>4 DEF BeginLoad
<1>2. ASSUME NEW ok \in BOOLEAN, EndLoad(ok)
      PROVE  TypeOK'
  <2>1. UNCHANGED <<lifecycle, current, limit, native, caught, timers, fireNow, now, requested, exiting, loads, ops, calls, fired>>
        /\ loading' = FALSE /\ pc' = "idle" /\ kind' = "none"
    BY <1>2 DEF EndLoad, world
  <2>2. CASE safe' = FALSE /\ Publish(pending) /\ UNCHANGED <<live, refs, heap, cancelled, pending>>
    <3>1. {pending', published'} \subseteq Settings /\ superKey' \in SuperKeys
      BY <2>2 DEF Publish, Settings
    <3>2. {safe', loading', lifecycle', limit', native', caught', exiting'} \subseteq BOOLEAN
      BY <2>1, <2>2
    <3> QED
      BY <2>1, <2>2, <3>1, <3>2 DEF Kinds, refs
  <2>3. CASE EnterSafeMode
    <3>1. {pending', published'} \subseteq Settings /\ superKey' \in SuperKeys
      BY <2>3, DefaultsAreSettings DEF EnterSafeMode, Publish, Settings
    <3>2. {safe', loading', lifecycle', limit', native', caught', exiting'} \subseteq BOOLEAN
      BY <2>1, <2>3 DEF EnterSafeMode
    <3>3. CloseState
      BY <2>3 DEF EnterSafeMode
    <3>4. live' \in 0..MaxLoads
      BY <3>3, Bounds DEF CloseState
    <3> QED
      BY <2>1, <3>1, <3>2, <3>3, <3>4, CloseTypeOK DEF Kinds
  <2> QED
    BY <1>2, <2>2, <2>3 DEF EndLoad
<1> QED
  BY <1>1, <1>2

LEMMA CallsTypeOK ==
  ASSUME TypeOK, ModeInv,
         \/ \E k \in Keys : DispatchBind(k)
         \/ DispatchSuper \/ ReloadConfig \/ PrepareExit
  PROVE  TypeOK'
<1>1. UNCHANGED Frame /\ UNCHANGED <<safe, loading, current, fireNow, now, loads, ops, fired>>
  BY DEF DispatchBind, DispatchSuper, ReloadConfig, PrepareExit, Frame, modes
<1>2. calls' \in 0..MaxCalls
  <2>1. calls' = calls \/ (calls < MaxCalls /\ calls' = calls + 1)
    BY DEF DispatchBind, DispatchSuper, ReloadConfig, PrepareExit
  <2> QED
    BY <2>1, CounterTypes, Bounds
<1>3. requested' \subseteq {"reload", "exit"} /\ exiting' \in BOOLEAN
  <2>1. requested' \subseteq requested
    BY DEF DispatchBind, DispatchSuper, ReloadConfig, PrepareExit
  <2>2. exiting' \in {exiting, TRUE}
    BY DEF DispatchBind, DispatchSuper, ReloadConfig, PrepareExit
  <2> QED
    BY <2>1, <2>2 DEF TypeOK
<1>4. pc' \in {"load", "lua", "idle", "fire", "gone"} /\ kind' \in Kinds
      /\ {lifecycle', limit', native', caught'} \subseteq BOOLEAN
  BY DEF DispatchBind, DispatchSuper, ReloadConfig, PrepareExit, RunLifecycleCallback, GuardedCall,
         InstallTimeout, modes, Kinds, Callbacks, TypeOK
<1>5. {safe', loading', lifecycle', limit', native', caught', exiting'} \subseteq BOOLEAN
  BY <1>1, <1>3, <1>4 DEF TypeOK
<1> QED
  BY <1>1, <1>2, <1>3, <1>4, <1>5, ThreadTypeOK DEF TypeOK

LEMMA ReturnTypeOK ==
  ASSUME TypeOK, ModeInv, ReturnFromCallback \/ TimeoutCaught
  PROVE  TypeOK'
<1>1. UNCHANGED Frame /\ UNCHANGED <<safe, loading, fireNow, world, fired>>
  BY DEF ReturnFromCallback, TimeoutCaught, Frame, modes
<1>2. current' \in TimerId \cup {0} /\ kind' \in Kinds /\ pc' \in {"load", "lua", "idle", "fire", "gone"}
  BY DEF ReturnFromCallback, TimeoutCaught, Kinds, TypeOK
<1>3. {lifecycle', limit', native', caught'} \subseteq BOOLEAN
  BY DEF ReturnFromCallback, TimeoutCaught, ClearTimeout, modes, TypeOK
<1> QED
  BY <1>1, <1>2, <1>3, ThreadTypeOK DEF TypeOK, world

LEMMA LuaCodeTypeOK ==
  ASSUME TypeOK, ModeInv, LuaCode
  PROVE  TypeOK'
<1>0. /\ UNCHANGED <<live, modes, pc, call, fireNow, now, exiting, loads, calls, fired>>
      /\ ops' \in 0..MaxOps
  <2>1. MakesCall /\ UNCHANGED <<live, modes>>
    BY DEF LuaCode, Bind, SetCallback, Timer, CancelTimer, CollectTimer, ApplySetting, Request
  <2>2. ops < MaxOps /\ ops' = ops + 1
    BY <2>1 DEF MakesCall
  <2> QED
    BY <2>1, <2>2, CounterTypes, Bounds DEF MakesCall
\* What is left to show for the API calls, each of which changes only some of it.
<1> DEFINE Typed ==
      /\ registry' \subseteq Ref
      /\ binds' \in [Keys -> Ref \cup {NoRef}]
      /\ callbacks' \in [Callbacks -> Ref \cup {NoRef}]
      /\ handles' \in [TimerId -> Ref \cup {NoRef}]
      /\ heap' \subseteq TimerEntry /\ cancelled' \subseteq TimerId
      /\ {pending', published'} \subseteq Settings /\ superKey' \in SuperKeys
      /\ requested' \subseteq {"reload", "exit"}
      /\ timers' \in 0..MaxTimers
<1>1. ASSUME NEW k \in Keys, Bind(k)
      PROVE  Typed
  <2>1. Min(Ref \ (registry \ {binds[k]})) \in Ref
    BY <1>1, FreeRef DEF Bind, TypeOK
  <2> QED
    BY <1>1, <2>1 DEF Bind, Add, TypeOK, timing, config
<1>2. ASSUME NEW c \in Callbacks, SetCallback(c)
      PROVE  Typed
  <2>1. Min(Ref \ (registry \ {callbacks[c]})) \in Ref
    BY <1>2, FreeRef DEF SetCallback, TypeOK
  <2> QED
    BY <1>2, <2>1 DEF SetCallback, TypeOK, timing, config
<1>3. ASSUME NEW ms \in Intervals, NEW repeat \in BOOLEAN, Timer(ms, repeat)
      PROVE  Typed
  <2>1. NewRef \in Ref /\ NewRef2 \in Ref
    BY <1>3, FreePair DEF Timer, TypeOK
  <2>2. timers + 1 \in TimerId /\ timers' = timers + 1
    BY <1>3, Bounds DEF Timer, TimerId, TypeOK
  <2>3. live \in 1..MaxLoads /\ now + ms \in Nat
    BY <1>3, Bounds DEF Timer, MakesCall, InLua, ModeInv, TypeOK
  <2>4. heap' \subseteq TimerEntry
    BY <1>3, <2>1, <2>2, <2>3 DEF Timer, ScheduleTimer, TimerEntry, TypeOK
  <2>5. handles' \in [TimerId -> Ref \cup {NoRef}] /\ registry' \subseteq Ref
    BY <1>3, <2>1, <2>2 DEF Timer, TypeOK
  <2>6. timers' \in 0..MaxTimers
    BY <2>2 DEF TimerId
  <2> QED
    BY <1>3, <2>4, <2>5, <2>6 DEF Timer, TypeOK, config
<1>4. ASSUME NEW t \in TimerId, CancelTimer(t) \/ CollectTimer(t)
      PROVE  Typed
  <2>1. CASE CancelTimer(t)
    BY <2>1 DEF CancelTimer, TypeOK, refs, config
  <2>2. CASE CollectTimer(t)
    <3>1. /\ registry' \subseteq Ref /\ handles' \in [TimerId -> Ref \cup {NoRef}]
          /\ cancelled' \subseteq TimerId
      BY <2>2 DEF CollectTimer, TimerGc, TypeOK
    <3>2. UNCHANGED <<live, binds, callbacks, heap, timers, config, requested>>
      BY <2>2 DEF CollectTimer
    <3> QED
      BY <3>1, <3>2 DEF TypeOK, config
  <2> QED
    BY <1>4, <2>1, <2>2
<1>5. ASSUME NEW s \in Settings, ApplySetting(s)
      PROVE  Typed
  <2>1. pending' = s /\ UNCHANGED <<refs, timing, requested>>
    BY <1>5 DEF ApplySetting
  <2>2. (published' = s /\ superKey' = s.super) \/ UNCHANGED <<published, superKey>>
    BY <1>5 DEF ApplySetting, MaybePublish, Publish
  <2>3. s.super \in SuperKeys
    BY DEF Settings
  <2> QED
    BY <2>1, <2>2, <2>3 DEF TypeOK, refs, timing
<1>6. ASSUME NEW r \in {"reload", "exit"}, Request(r)
      PROVE  Typed
  BY <1>6 DEF Request, TypeOK, refs, timing, config
<1>7. Typed
  BY <1>1, <1>2, <1>3, <1>4, <1>5, <1>6 DEF LuaCode
<1> HIDE DEF Typed
<1>8. Typed => TypeOK'
  BY <1>0 DEF Typed, TypeOK, modes, call
<1> QED
  BY <1>7, <1>8

LEMMA TimersTypeOK ==
  ASSUME TypeOK, ModeInv,
         \/ BeginFire \/ EndFire
         \/ \E t \in heap : DropCancelled(t) \/ FireTimer(t)
  PROVE  TypeOK'
<1>1. CASE BeginFire \/ EndFire
  <2>1. UNCHANGED Frame /\ UNCHANGED <<modes, call, world, fired>>
    BY <1>1 DEF BeginFire, EndFire, Frame
  <2>2. pc' \in {"fire", "idle"} /\ fireNow' \in 0..MaxTime
    BY <1>1, Bounds DEF BeginFire, EndFire, TypeOK
  <2> QED
    BY <2>1, <2>2, ThreadTypeOK DEF TypeOK, modes, call, world
<1>2. ASSUME NEW t \in heap, DropCancelled(t)
      PROVE  TypeOK'
  BY <1>2 DEF DropCancelled, PopTimer, TypeOK, config, modes, call, world
<1>3. ASSUME NEW t \in heap, FireTimer(t)
      PROVE  TypeOK'
  <2>1. t \in TimerEntry /\ t.id \in TimerId /\ t.interval \in Nat
    BY Bounds DEF TypeOK, TimerEntry
  <2>2. heap' \subseteq TimerEntry /\ registry' \subseteq Ref /\ fired' \subseteq TimerId
    <3>1. Rearm(t) \in TimerEntry
      BY <2>1, Bounds DEF Rearm, TimerEntry, TypeOK
    <3> QED
      BY <1>3, <2>1, <3>1 DEF FireTimer, PopTimer, TypeOK
  <2>3. pc' = "lua" /\ kind' \in Kinds /\ {limit', native', caught'} \subseteq BOOLEAN /\ current' = t.id
    BY <1>3, CallTypeOK DEF FireTimer, Kinds
  <2>4. UNCHANGED <<live, binds, callbacks, handles, cancelled, timers, config, modes, fireNow, world>>
    BY <1>3 DEF FireTimer
  <2> QED
    BY <2>1, <2>2, <2>3, <2>4 DEF TypeOK, config, modes, world
<1> QED
  BY <1>1, <1>2, <1>3

LEMMA OtherTypeOK ==
  ASSUME TypeOK, ModeInv,
         \/ Tick \/ Destroy \/ EnterNative \/ LeaveNative
         \/ \E r \in {"reload", "exit"} : TrayRequest(r)
         \/ UNCHANGED vars
  PROVE  TypeOK'
<1>1. CASE Tick
  <2>1. now' \in 0..MaxTime
    BY <1>1, CounterTypes, Bounds DEF Tick
  <2> QED
    BY <1>1, <2>1 DEF Tick, TypeOK, refs, timing, config, modes, call
<1>2. CASE Destroy
  <2>1. CloseState /\ UNCHANGED <<timers, config, modes, call, fireNow, world, fired>> /\ pc' = "gone"
    BY <1>2 DEF Destroy
  <2>2. live' \in 0..MaxLoads /\ 0 \in 0..MaxLoads
    BY <2>1, Bounds DEF CloseState
  <2> QED
    BY <2>1, <2>2, CloseTypeOK DEF TypeOK, config, modes, call, world
<1>3. ASSUME NEW r \in {"reload", "exit"}, TrayRequest(r)
      PROVE  TypeOK'
  <2>1. calls' \in 0..MaxCalls
    BY <1>3, CounterTypes, Bounds DEF TrayRequest
  <2>2. requested' \subseteq {"reload", "exit"}
    BY <1>3 DEF TrayRequest, TypeOK
  <2> QED
    BY <1>3, <2>1, <2>2 DEF TrayRequest, TypeOK, refs, timing, config, modes, call
<1>4. CASE UNCHANGED vars
  BY <1>4 DEF vars, TypeOK, refs, timing, config, modes, call, world
<1>5. CASE EnterNative \/ LeaveNative
  BY <1>5 DEF EnterNative, LeaveNative, TypeOK, refs, timing, config, modes, world
<1> QED
  BY <1>1, <1>2, <1>3, <1>4, <1>5

LEMMA NextTypeOK ==
  ASSUME TypeOK, ModeInv, [Next]_vars
  PROVE  TypeOK'
BY LoadTypeOK, CallsTypeOK, ReturnTypeOK, LuaCodeTypeOK, TimersTypeOK, OtherTypeOK
   DEF Next, RuntimeStep, Returns, TimeoutEndsCall
-------------------------------------------------------------------------------
\* Why SafeModeIsClean and PublishedIsPending are kept.

LEMMA InitModeInv == Init => ModeInv
<1> SUFFICES ASSUME Init PROVE ModeInv
  OBVIOUS
<1>1. loads < MaxLoads
  BY Bounds DEF Init
<1>2. published = pending /\ superKey = published.super
  BY DEF Init, Defaults
<1> QED
  BY <1>1, <1>2 DEF Init, ModeInv, PublishedIsPending, SafeModeIsClean

LEMMA SafeModeEntered ==
  ASSUME EnterSafeMode, ~loading'
  PROVE  PublishedIsPending' /\ SafeModeIsClean'
BY DEF EnterSafeMode, CloseState, Publish, PublishedIsPending, SafeModeIsClean

LEMMA LoadModeInv ==
  ASSUME TypeOK, ModeInv, BeginLoad \/ \E ok \in BOOLEAN : EndLoad(ok)
  PROVE  ModeInv'
<1>1. CASE BeginLoad
  <2>1. pc = "load" /\ ~loading /\ kind = "none"
    BY <1>1 DEF BeginLoad, ModeInv
  <2>2. CASE CreateState(loads + 1) /\ pending' = Defaults /\ loading' = TRUE /\ pc' = "lua" /\ kind' = "config"
    <3>1. live' # 0
      BY <2>2, CounterTypes DEF CreateState
    <3> QED
      BY <2>2, <3>1 DEF ModeInv, PublishedIsPending, SafeModeIsClean
  <2>3. CASE EnterSafeMode /\ pc' = "idle" /\ UNCHANGED <<kind, loading>>
    BY <2>1, <2>3, SafeModeEntered DEF ModeInv
  <2> QED
    BY <1>1, <2>2, <2>3 DEF BeginLoad
<1>2. ASSUME NEW ok \in BOOLEAN, EndLoad(ok)
      PROVE  ModeInv'
  <2>1. pc = "lua" /\ live # 0 /\ ~loading' /\ pc' = "idle" /\ kind' = "none"
    BY <1>2 DEF EndLoad, ModeInv
  <2>2. CASE safe' = FALSE /\ Publish(pending) /\ UNCHANGED <<live, refs, heap, cancelled, pending>>
    BY <2>1, <2>2 DEF ModeInv, Publish, PublishedIsPending, SafeModeIsClean
  <2>3. CASE EnterSafeMode
    BY <2>1, <2>3, SafeModeEntered DEF ModeInv
  <2> QED
    BY <1>2, <2>2, <2>3 DEF EndLoad
<1> QED
  BY <1>1, <1>2

LEMMA CallsModeInv ==
  ASSUME TypeOK, ModeInv,
         \/ \E k \in Keys : DispatchBind(k)
         \/ DispatchSuper \/ ReloadConfig \/ PrepareExit
  PROVE  ModeInv'
<1>1. UNCHANGED <<live, heap, binds, config, safe, loading, loads>> /\ pc = "idle"
  BY DEF DispatchBind, DispatchSuper, ReloadConfig, PrepareExit, refs, timing, modes
<1>2. ~loading /\ kind = "none"
  BY <1>1 DEF ModeInv
<1>3. CASE Callable /\ pc' = "lua" /\ kind' \in {"bind", "super"}
  BY <1>1, <1>2, <1>3 DEF ModeInv, Callable, PublishedIsPending, SafeModeIsClean, config
<1>4. CASE ReloadConfig
  <2>1. loads < MaxLoads
    BY <1>4 DEF ReloadConfig
  <2>2. (Callable /\ pc' = "lua" /\ kind' = "reload") \/ (pc' = "load" /\ kind' = kind)
    BY <1>4 DEF ReloadConfig, RunLifecycleCallback, GuardedCall
  <2> QED
    BY <1>1, <1>2, <2>1, <2>2 DEF ModeInv, Callable, PublishedIsPending, SafeModeIsClean, config
<1>5. CASE PrepareExit
  <2>1. (Callable /\ pc' = "lua" /\ kind' = "exit") \/ (pc' = "idle" /\ kind' = kind)
    BY <1>5 DEF PrepareExit, RunLifecycleCallback, GuardedCall
  <2> QED
    BY <1>1, <1>2, <2>1 DEF ModeInv, Callable, PublishedIsPending, SafeModeIsClean, config
<1> QED
  BY <1>3, <1>4, <1>5 DEF DispatchBind, DispatchSuper, GuardedCall

LEMMA ReturnModeInv ==
  ASSUME TypeOK, ModeInv, ReturnFromCallback \/ TimeoutCaught
  PROVE  ModeInv'
<1>1. UNCHANGED <<live, heap, binds, config, safe, loading, loads>>
  BY DEF ReturnFromCallback, TimeoutCaught, refs, timing, modes, world
<1>2. CASE ReturnFromCallback
  <2>1. /\ pc = "lua" /\ kind # "config" /\ kind' = "none" /\ pc' \in {"fire", "load", "idle"}
        /\ pc' = "load" => kind = "reload"
    BY <1>2 DEF ReturnFromCallback, InLua
  <2> QED
    BY <1>1, <2>1 DEF ModeInv, PublishedIsPending, SafeModeIsClean, config
<1>3. CASE TimeoutCaught
  BY <1>1, <1>3 DEF TimeoutCaught, ModeInv, PublishedIsPending, SafeModeIsClean, config
<1> QED
  BY <1>2, <1>3

LEMMA LuaCodeModeInv ==
  ASSUME TypeOK, ModeInv, LuaCode
  PROVE  ModeInv'
<1>1. pc = "lua" /\ UNCHANGED <<live, modes, pc, kind, loads>>
  BY DEF LuaCode, Bind, SetCallback, Timer, CancelTimer, CollectTimer, ApplySetting, Request, MakesCall,
         InLua, call
<1>2. ~loading => ~safe
  BY <1>1 DEF ModeInv
<1>3. \/ UNCHANGED config
      \/ \E s \in Settings : pending' = s /\ (loading \/ Publish(s))
  BY DEF LuaCode, Bind, SetCallback, Timer, CancelTimer, CollectTimer, ApplySetting, MaybePublish, Request
<1> QED
  BY <1>1, <1>2, <1>3 DEF ModeInv, PublishedIsPending, SafeModeIsClean, Publish, config, modes

LEMMA TimersModeInv ==
  ASSUME TypeOK, ModeInv,
         \/ BeginFire \/ EndFire
         \/ \E t \in heap : DropCancelled(t) \/ FireTimer(t)
  PROVE  ModeInv'
<1>1. CASE BeginFire \/ EndFire
  BY <1>1 DEF BeginFire, EndFire, refs, timing, config, modes, call, world, ModeInv, PublishedIsPending,
              SafeModeIsClean
<1>2. ASSUME NEW t \in heap, DropCancelled(t)
      PROVE  ModeInv'
  <2>1. UNCHANGED <<live, binds, config, modes, pc, kind, loads>> /\ (heap = {} => heap' = {})
    BY <1>2 DEF DropCancelled, PopTimer, call, world
  <2> QED
    BY <2>1 DEF config, modes, ModeInv, PublishedIsPending, SafeModeIsClean
<1>3. ASSUME NEW t \in heap, FireTimer(t)
      PROVE  ModeInv'
  <2>1. UNCHANGED <<live, binds, config, modes, loads>> /\ pc = "fire" /\ pc' = "lua" /\ kind' = "timer"
    BY <1>3 DEF FireTimer, GuardedCall, world
  <2>2. ~loading /\ ~safe /\ live # 0
    BY <2>1 DEF ModeInv, SafeModeIsClean
  <2> QED
    BY <2>1, <2>2 DEF config, modes, ModeInv, PublishedIsPending, SafeModeIsClean
<1> QED
  BY <1>1, <1>2, <1>3

LEMMA OtherModeInv ==
  ASSUME TypeOK, ModeInv,
         \/ Tick \/ Destroy \/ EnterNative \/ LeaveNative
         \/ \E r \in {"reload", "exit"} : TrayRequest(r)
         \/ UNCHANGED vars
  PROVE  ModeInv'
<1>1. CASE \/ Tick \/ EnterNative \/ LeaveNative \/ UNCHANGED vars
           \/ \E r \in {"reload", "exit"} : TrayRequest(r)
  <2>1. UNCHANGED <<live, heap, binds, config, modes, pc, kind, loads>>
    BY <1>1 DEF Tick, EnterNative, LeaveNative, TrayRequest, vars, refs, timing, call, world
  <2> QED
    BY <2>1 DEF config, modes, ModeInv, PublishedIsPending, SafeModeIsClean
<1>2. CASE Destroy
  BY <1>2 DEF Destroy, config, modes, call, ModeInv, PublishedIsPending, SafeModeIsClean
<1> QED
  BY <1>1, <1>2

LEMMA NextModeInv ==
  ASSUME TypeOK, ModeInv, [Next]_vars
  PROVE  ModeInv'
BY LoadModeInv, CallsModeInv, ReturnModeInv, LuaCodeModeInv, TimersModeInv, OtherModeInv
   DEF Next, RuntimeStep, Returns, TimeoutEndsCall
-------------------------------------------------------------------------------
\* Why TimersFireRightly holds.

LEMMA TimerTypes ==
  ASSUME TypeOK
  PROVE  /\ \A t \in heap : t \in TimerEntry /\ t.id \in TimerId /\ t.id \in Nat /\ t.deadline \in Nat
         /\ timers \in Nat /\ now \in Nat /\ fireNow \in Nat
         /\ \A id \in fired : id \in Nat
BY Bounds, CounterTypes DEF TypeOK, TimerEntry, TimerId

LEMMA InitTimerInv == Init => TimerInv
BY DEF Init, TimerInv

\* Most steps leave the heap and what it is compared with alone, or empty the heap.
LEMMA SameTimers ==
  ASSUME TypeOK, TimerInv,
         heap' = {} \/ (heap' = heap /\ live' = live),
         UNCHANGED <<timers, fired>>, fireNow' <= now'
  PROVE  TimerInv'
BY DEF TimerInv

LEMMA NextTimerInv ==
  ASSUME TypeOK, ModeInv, TimerInv, [Next]_vars
  PROVE  TimerInv'
<1>1. CASE \/ BeginLoad \/ ReloadConfig \/ PrepareExit \/ BeginFire \/ EndFire
           \/ Returns \/ TimeoutCaught \/ TimeoutEndsCall
           \/ \E k \in Keys : DispatchBind(k)
           \/ DispatchSuper \/ Tick \/ Destroy \/ EnterNative \/ LeaveNative
           \/ \E r \in {"reload", "exit"} : TrayRequest(r)
           \/ UNCHANGED vars
  <2>1. UNCHANGED <<timers, fired>>
    BY <1>1 DEF BeginLoad, ReloadConfig, PrepareExit, BeginFire, EndFire, Returns, TimeoutCaught,
                TimeoutEndsCall, ReturnFromCallback, EndLoad, DispatchBind, DispatchSuper, Tick, Destroy,
                EnterNative, LeaveNative, TrayRequest, vars, timing
  <2>2. heap' = {} \/ (heap' = heap /\ live' = live)
    BY <1>1 DEF BeginLoad, CreateState, EnterSafeMode, CloseState, ReloadConfig, PrepareExit, BeginFire,
                EndFire, Returns, TimeoutCaught, TimeoutEndsCall, ReturnFromCallback, EndLoad, DispatchBind,
                DispatchSuper, Tick, Destroy, EnterNative, LeaveNative, TrayRequest, vars, timing
  <2>3. \/ UNCHANGED <<now, fireNow>>
        \/ now' = now /\ fireNow' \in {now, 0}
        \/ now' = now + 1 /\ fireNow' = fireNow
    BY <1>1 DEF BeginLoad, ReloadConfig, PrepareExit, BeginFire, EndFire, Returns, TimeoutCaught,
                TimeoutEndsCall, ReturnFromCallback, EndLoad, DispatchBind, DispatchSuper, Tick, Destroy,
                EnterNative, LeaveNative, TrayRequest, vars, world
  <2>4. fireNow' <= now'
    BY <2>3, TimerTypes DEF TimerInv
  <2> QED
    BY <2>1, <2>2, <2>4, SameTimers
<1>2. CASE LuaCode
  <2>1. UNCHANGED <<live, now, fireNow, fired>>
    BY <1>2 DEF LuaCode, Bind, SetCallback, Timer, CancelTimer, CollectTimer, ApplySetting, Request, MakesCall
  <2>2. CASE UNCHANGED <<heap, timers>>
    BY <2>1, <2>2 DEF TimerInv
  <2>3. ASSUME NEW ms \in Intervals, NEW repeat \in BOOLEAN, Timer(ms, repeat)
        PROVE  TimerInv'
    <3> DEFINE t == [id |-> timers + 1, deadline |-> now + ms, interval |-> ms, ref |-> NewRef,
                     repeat |-> repeat, state |-> live]
    <3>1. heap' = heap \cup {t} /\ timers' = timers + 1
      BY <2>3 DEF Timer, ScheduleTimer
    <3>2. t.id = timers + 1 /\ t.state = live
      OBVIOUS
    <3> HIDE DEF t
    <3>3. \A u \in heap : u.id <= timers' /\ u.id # t.id
      BY <3>1, <3>2, TimerTypes DEF TimerInv
    <3>4. \A id \in fired : id <= timers' /\ id # t.id
      BY <3>1, <3>2, TimerTypes DEF TimerInv
    <3>5. t.id <= timers'
      BY <3>1, <3>2, TimerTypes
    <3> QED
      BY <2>1, <3>1, <3>2, <3>3, <3>4, <3>5 DEF TimerInv
  <2> QED
    BY <1>2, <2>2, <2>3 DEF LuaCode, Bind, SetCallback, CancelTimer, CollectTimer, ApplySetting, Request, timing
<1>3. ASSUME NEW t \in heap, DropCancelled(t)
      PROVE  TimerInv'
  BY <1>3 DEF DropCancelled, PopTimer, TimerInv, world
<1>4. ASSUME NEW t \in heap, FireTimer(t)
      PROVE  TimerInv'
  <2>1. UNCHANGED <<live, timers, now, fireNow>>
    BY <1>4 DEF FireTimer, world
  <2>2. Rearm(t).id = t.id /\ Rearm(t).state = t.state
    BY TimerTypes DEF Rearm, TimerEntry
  <2>3. CASE heap' = (heap \ {t}) \cup {Rearm(t)} /\ fired' = fired
    BY <2>1, <2>2, <2>3 DEF TimerInv
  <2>4. CASE heap' = heap \ {t} /\ fired' = fired \cup {t.id}
    BY <2>1, <2>4 DEF TimerInv
  <2> QED
    BY <1>4, <2>3, <2>4 DEF FireTimer, PopTimer
<1> QED
  BY <1>1, <1>2, <1>3, <1>4 DEF Next, RuntimeStep

\* The step that calls a timer.
LEMMA FireStep ==
  ASSUME TypeOK, ModeInv, TimerInv, [Next]_vars, pc = "fire", pc' = "lua"
  PROVE  \E t \in heap : /\ t.id = current'
                         /\ t.deadline <= now
                         /\ t.id \notin cancelled
                         /\ t.id \notin fired
                         /\ t.state = live
<1>1. PICK t \in heap : FireTimer(t)
  <2>1. ~LuaCode /\ ~Returns /\ ~TimeoutCaught /\ ~TimeoutEndsCall
    BY DEF LuaCode, Bind, SetCallback, Timer, CancelTimer, CollectTimer, ApplySetting, Request, MakesCall,
           InLua, Returns, ReturnFromCallback, EndLoad, TimeoutCaught, TimeoutEndsCall
  <2>2. \A t \in heap : ~DropCancelled(t)
    BY DEF DropCancelled
  <2> QED
    BY <2>1, <2>2 DEF Next, RuntimeStep, BeginLoad, ReloadConfig, PrepareExit, BeginFire, EndFire,
           DispatchBind, DispatchSuper, Tick, Destroy, EnterNative, LeaveNative, TrayRequest, vars
<1>2. current' = t.id /\ t.deadline <= fireNow /\ t.id \notin cancelled
  BY <1>1 DEF FireTimer, Fires, Due
<1>3. t.deadline <= now
  BY <1>2, TimerTypes DEF TimerInv
<1> QED
  BY <1>2, <1>3 DEF TimerInv
-------------------------------------------------------------------------------
\* References: one place is replaced, or freed, at a time.

LEMMA HeldReplaced ==
  ASSUME NEW D, NEW f \in [D -> Ref \cup {NoRef}], NEW x \in D, NEW r \in Ref,
         Injective(f), r \notin Held(f) \ {f[x]}
  PROVE  /\ Held([f EXCEPT ![x] = r]) = (Held(f) \ {f[x]}) \cup {r}
         /\ Injective([f EXCEPT ![x] = r])
<1> DEFINE g == [f EXCEPT ![x] = r]
<1>1. g \in [D -> Ref \cup {NoRef}] /\ g[x] = r /\ \A y \in D : y # x => g[y] = f[y]
  OBVIOUS
<1>2. r # NoRef
  BY Bounds
<1>3. \A y \in D : y # x /\ f[y] # NoRef => f[y] # f[x] /\ f[y] \in Held(f)
  BY DEF Injective, Held
<1> HIDE DEF g
<1>4. Injective(g)
  BY <1>1, <1>3 DEF Injective
<1>5. Held(g) = (Held(f) \ {f[x]}) \cup {r}
  BY <1>1, <1>2, <1>3 DEF Held
<1> QED
  BY <1>4, <1>5 DEF g

LEMMA HeldFreed ==
  ASSUME NEW D, NEW f \in [D -> Ref \cup {NoRef}], NEW x \in D, Injective(f)
  PROVE  /\ Held([f EXCEPT ![x] = NoRef]) = Held(f) \ {f[x]}
         /\ Injective([f EXCEPT ![x] = NoRef])
<1> DEFINE g == [f EXCEPT ![x] = NoRef]
<1>1. g \in [D -> Ref \cup {NoRef}] /\ g[x] = NoRef /\ \A y \in D : y # x => g[y] = f[y]
  OBVIOUS
<1>3. \A y \in D : y # x /\ f[y] # NoRef => f[y] # f[x] /\ f[y] \in Held(f)
  BY DEF Injective, Held
<1> HIDE DEF g
<1>4. Injective(g)
  BY <1>1, <1>3 DEF Injective
<1>5. Held(g) = Held(f) \ {f[x]}
  BY <1>1, <1>3 DEF Held
<1> QED
  BY <1>4, <1>5 DEF g

LEMMA HeldTypes ==
  ASSUME TypeOK
  PROVE  /\ Held(binds) \subseteq Ref /\ Held(callbacks) \subseteq Ref /\ Held(handles) \subseteq Ref
         /\ TimerRefs \subseteq Ref
         /\ \A k \in Keys : binds[k] # NoRef => binds[k] \in Held(binds)
         /\ \A c \in Callbacks : callbacks[c] # NoRef => callbacks[c] \in Held(callbacks)
         /\ \A t \in TimerId : handles[t] # NoRef => handles[t] \in Held(handles)
         /\ NoRef \notin registry
<1>1. \A t \in heap : t.ref \in Ref
  BY DEF TypeOK, TimerEntry
<1> QED
  BY <1>1, Bounds DEF TypeOK, Held, TimerRefs

LEMMA Nothing ==
  /\ Held(NoBinds) = {} /\ Injective(NoBinds)
  /\ Held([c \in Callbacks |-> NoRef]) = {} /\ Injective([c \in Callbacks |-> NoRef])
  /\ Held(NoHandles) = {} /\ Injective(NoHandles)
BY DEF Held, Injective, NoBinds, NoHandles

\* A state closed or created holds nothing.
LEMMA ClosedRefInv ==
  ASSUME binds' = NoBinds, callbacks' = [c \in Callbacks |-> NoRef], handles' = NoHandles, heap' = {},
         registry' = {}
  PROVE  RefInv'
BY Nothing DEF RefInv, OwnersDiffer, TimerRefs, NoHandles

LEMMA InitRefInv == Init => RefInv
BY Nothing DEF Init, RefInv, OwnersDiffer, TimerRefs, NoHandles

LEMMA SameRefInv ==
  ASSUME RefInv, UNCHANGED <<live, refs, heap, timers>>
  PROVE  RefInv'
BY DEF RefInv, OwnersDiffer, Held, Injective, TimerRefs, refs

LEMMA BindRefInv ==
  ASSUME TypeOK, ModeInv, RefInv, NEW k \in Keys, Bind(k)
  PROVE  RefInv'
<1> DEFINE ref == Min(Ref \ (registry \ {binds[k]}))
<1>1. ref \in Ref \ (registry \ {binds[k]})
  BY FreeRef DEF Bind, TypeOK
<1>2. /\ registry' = (registry \ {binds[k]}) \cup {ref} /\ binds' = [binds EXCEPT ![k] = ref]
      /\ UNCHANGED <<live, callbacks, handles, heap, timers>> /\ live # 0
  BY DEF Bind, Add, timing, MakesCall, InLua, ModeInv
<1> HIDE DEF ref
<1>3. ref \notin Held(binds) \ {binds[k]}
  BY <1>1 DEF RefInv
<1>4. Held(binds') = (Held(binds) \ {binds[k]}) \cup {ref} /\ Injective(binds')
  <2>1. binds \in [Keys -> Ref \cup {NoRef}] /\ Injective(binds)
    BY DEF TypeOK, RefInv, OwnersDiffer
  <2>2. Held([binds EXCEPT ![k] = ref]) = (Held(binds) \ {binds[k]}) \cup {ref} /\ Injective([binds EXCEPT ![k] = ref])
    BY <1>1, <1>3, <2>1, HeldReplaced
  <2> QED
    BY <1>2, <2>2
<1>5. binds[k] \notin Held(callbacks) \cup Held(handles) \cup TimerRefs
  BY HeldTypes, Bounds DEF RefInv, OwnersDiffer
<1>6. ref \notin Held(callbacks) \cup Held(handles) \cup TimerRefs
  BY <1>1, <1>5 DEF RefInv
<1>7. TimerRefs' = TimerRefs
  BY <1>2 DEF TimerRefs
<1>8. Held(callbacks') = Held(callbacks) /\ Held(handles') = Held(handles) /\ Injective(callbacks') /\ Injective(handles')
  BY <1>2 DEF RefInv, OwnersDiffer
<1>9. registry' = Held(binds') \cup Held(callbacks') \cup Held(handles') \cup TimerRefs'
  BY <1>2, <1>4, <1>5, <1>7, <1>8 DEF RefInv
<1>10. OwnersDiffer'
  <2>1. heap' = heap /\ Injective(binds') /\ Injective(callbacks') /\ Injective(handles')
    BY <1>2, <1>4, <1>8
  <2>2. \A t, u \in heap' : t.ref = u.ref => t = u
    BY <2>1 DEF RefInv, OwnersDiffer
  <2>3. /\ Held(binds') \cap Held(callbacks') = {}
        /\ (Held(binds') \cup Held(callbacks')) \cap Held(handles') = {}
    BY <1>4, <1>6, <1>8 DEF RefInv, OwnersDiffer
  <2>4. (Held(binds') \cup Held(callbacks') \cup Held(handles')) \cap TimerRefs' = {}
    BY <1>4, <1>6, <1>7, <1>8 DEF RefInv, OwnersDiffer
  <2> QED
    BY <2>1, <2>2, <2>3, <2>4 DEF OwnersDiffer
<1> QED
  BY <1>2, <1>9, <1>10 DEF RefInv

LEMMA CallbackRefInv ==
  ASSUME TypeOK, ModeInv, RefInv, NEW c \in Callbacks, SetCallback(c)
  PROVE  RefInv'
<1> DEFINE ref == Min(Ref \ (registry \ {callbacks[c]}))
<1>1. ref \in Ref \ (registry \ {callbacks[c]})
  BY FreeRef DEF SetCallback, TypeOK
<1>2. /\ registry' = (registry \ {callbacks[c]}) \cup {ref} /\ callbacks' = [callbacks EXCEPT ![c] = ref]
      /\ UNCHANGED <<live, binds, handles, heap, timers>> /\ live # 0
  BY DEF SetCallback, timing, MakesCall, InLua, ModeInv
<1> HIDE DEF ref
<1>3. ref \notin Held(callbacks) \ {callbacks[c]}
  BY <1>1 DEF RefInv
<1>4. Held(callbacks') = (Held(callbacks) \ {callbacks[c]}) \cup {ref} /\ Injective(callbacks')
  <2>1. callbacks \in [Callbacks -> Ref \cup {NoRef}] /\ Injective(callbacks)
    BY DEF TypeOK, RefInv, OwnersDiffer
  <2>2. Held([callbacks EXCEPT ![c] = ref]) = (Held(callbacks) \ {callbacks[c]}) \cup {ref} /\ Injective([callbacks EXCEPT ![c] = ref])
    BY <1>1, <1>3, <2>1, HeldReplaced
  <2> QED
    BY <1>2, <2>2
<1>5. callbacks[c] \notin Held(binds) \cup Held(handles) \cup TimerRefs
  BY HeldTypes, Bounds DEF RefInv, OwnersDiffer
<1>6. ref \notin Held(binds) \cup Held(handles) \cup TimerRefs
  BY <1>1, <1>5 DEF RefInv
<1>7. TimerRefs' = TimerRefs
  BY <1>2 DEF TimerRefs
<1>8. Held(binds') = Held(binds) /\ Held(handles') = Held(handles) /\ Injective(binds') /\ Injective(handles')
  BY <1>2 DEF RefInv, OwnersDiffer
<1>9. registry' = Held(binds') \cup Held(callbacks') \cup Held(handles') \cup TimerRefs'
  BY <1>2, <1>4, <1>5, <1>7, <1>8 DEF RefInv
<1>10. OwnersDiffer'
  <2>1. heap' = heap /\ Injective(binds') /\ Injective(callbacks') /\ Injective(handles')
    BY <1>2, <1>4, <1>8
  <2>2. \A t, u \in heap' : t.ref = u.ref => t = u
    BY <2>1 DEF RefInv, OwnersDiffer
  <2>3. /\ Held(binds') \cap Held(callbacks') = {}
        /\ (Held(binds') \cup Held(callbacks')) \cap Held(handles') = {}
    BY <1>4, <1>6, <1>8 DEF RefInv, OwnersDiffer
  <2>4. (Held(binds') \cup Held(callbacks') \cup Held(handles')) \cap TimerRefs' = {}
    BY <1>4, <1>6, <1>7, <1>8 DEF RefInv, OwnersDiffer
  <2> QED
    BY <2>1, <2>2, <2>3, <2>4 DEF OwnersDiffer
<1> QED
  BY <1>2, <1>9, <1>10 DEF RefInv

LEMMA TimerRefInv ==
  ASSUME TypeOK, ModeInv, RefInv, NEW ms \in Intervals, NEW repeat \in BOOLEAN, Timer(ms, repeat)
  PROVE  RefInv'
<1> DEFINE id == timers + 1
           entry == [id |-> id, deadline |-> now + ms, interval |-> ms, ref |-> NewRef,
                     repeat |-> repeat, state |-> live]
<1>1. NewRef \in Ref \ registry /\ NewRef2 \in Ref \ registry /\ NewRef # NewRef2
  BY FreePair DEF Timer, TypeOK
<1>2. /\ registry' = registry \cup {NewRef, NewRef2}
      /\ heap' = heap \cup {entry} /\ handles' = [handles EXCEPT ![id] = NewRef2] /\ timers' = id
      /\ UNCHANGED <<live, binds, callbacks>> /\ live # 0
  BY DEF Timer, ScheduleTimer, MakesCall, InLua, ModeInv
<1>3. id \in TimerId
  BY CounterTypes, Bounds DEF Timer, TimerId
<1>4. handles[id] = NoRef
  BY <1>3, CounterTypes, Bounds DEF RefInv, TimerId
<1>5. entry.ref = NewRef
  OBVIOUS
<1>6. \A t \in TimerId : handles'[t] # NoRef => t <= timers'
  <2> SUFFICES ASSUME NEW t \in TimerId, handles'[t] # NoRef PROVE t <= timers'
    OBVIOUS
  <2>1. CASE t = id
    BY <1>2, <2>1, CounterTypes, Bounds
  <2>2. CASE t # id
    <3>1. handles[t] # NoRef
      BY <1>2, <2>2 DEF TypeOK
    <3> QED
      BY <1>2, <3>1, CounterTypes, Bounds DEF RefInv, TimerId
  <2> QED
    BY <2>1, <2>2
<1> HIDE DEF id, entry
<1>7. Held(handles') = Held(handles) \cup {NewRef2} /\ Injective(handles')
  <2>1. NewRef2 \notin Held(handles) \ {handles[id]}
    BY <1>1 DEF RefInv
  <2>2. handles \in [TimerId -> Ref \cup {NoRef}] /\ Injective(handles)
    BY DEF TypeOK, RefInv, OwnersDiffer
  <2>3. Held(handles') = (Held(handles) \ {handles[id]}) \cup {NewRef2} /\ Injective(handles')
    <3>1. /\ Held([handles EXCEPT ![id] = NewRef2]) = (Held(handles) \ {handles[id]}) \cup {NewRef2}
          /\ Injective([handles EXCEPT ![id] = NewRef2])
      BY <1>1, <1>3, <2>1, <2>2, HeldReplaced
    <3> QED
      BY <1>2, <3>1
  <2> QED
    BY <1>4, <2>3, HeldTypes, Bounds
<1>8. TimerRefs' = TimerRefs \cup {NewRef} /\ \A t, u \in heap' : t.ref = u.ref => t = u
  <2>1. \A t \in heap : t.ref # NewRef
    BY <1>1 DEF RefInv, TimerRefs
  <2> QED
    BY <1>2, <1>5, <2>1 DEF RefInv, OwnersDiffer, TimerRefs
<1>9. \A r \in {NewRef, NewRef2} : r \notin Held(binds) \cup Held(callbacks) \cup Held(handles) \cup TimerRefs
  BY <1>1 DEF RefInv
<1>10. Held(binds') = Held(binds) /\ Held(callbacks') = Held(callbacks) /\ Injective(binds') /\ Injective(callbacks')
  BY <1>2 DEF RefInv, OwnersDiffer
<1>11. registry' = Held(binds') \cup Held(callbacks') \cup Held(handles') \cup TimerRefs'
  BY <1>2, <1>7, <1>8, <1>10 DEF RefInv
<1>12. OwnersDiffer'
  BY <1>1, <1>7, <1>8, <1>9, <1>10 DEF RefInv, OwnersDiffer
<1> QED
  BY <1>2, <1>6, <1>11, <1>12 DEF RefInv

LEMMA CollectRefInv ==
  ASSUME TypeOK, ModeInv, RefInv, NEW t \in TimerId, CollectTimer(t)
  PROVE  RefInv'
<1>1. /\ handles[t] # NoRef /\ registry' = registry \ {handles[t]}
      /\ handles' = [handles EXCEPT ![t] = NoRef]
      /\ UNCHANGED <<live, binds, callbacks, heap, timers>> /\ live # 0
  BY DEF CollectTimer, TimerGc, MakesCall, InLua, ModeInv
<1>2. Held(handles') = Held(handles) \ {handles[t]} /\ Injective(handles')
  BY <1>1, HeldFreed DEF TypeOK, RefInv, OwnersDiffer
<1>3. handles[t] \notin Held(binds) \cup Held(callbacks) \cup TimerRefs
  BY <1>1, HeldTypes DEF RefInv, OwnersDiffer
<1>4. \A u \in TimerId : handles'[u] # NoRef => u <= timers'
  BY <1>1 DEF RefInv, TypeOK
<1>5. TimerRefs' = TimerRefs
  BY <1>1 DEF TimerRefs
<1>6. OwnersDiffer'
  <2>1. /\ heap' = heap /\ Held(binds') = Held(binds) /\ Held(callbacks') = Held(callbacks)
        /\ binds' = binds /\ callbacks' = callbacks
    BY <1>1
  <2>2. \A x, y \in heap' : x.ref = y.ref => x = y
    BY <2>1 DEF RefInv, OwnersDiffer
  <2>3. /\ Held(binds') \cap Held(callbacks') = {}
        /\ (Held(binds') \cup Held(callbacks')) \cap Held(handles') = {}
        /\ (Held(binds') \cup Held(callbacks') \cup Held(handles')) \cap TimerRefs' = {}
    BY <1>2, <1>5, <2>1 DEF RefInv, OwnersDiffer
  <2> QED
    BY <1>2, <2>1, <2>2, <2>3 DEF RefInv, OwnersDiffer
<1>7. registry' = Held(binds') \cup Held(callbacks') \cup Held(handles') \cup TimerRefs'
  BY <1>1, <1>2, <1>3, <1>5 DEF RefInv
<1>8. live' # 0
  BY <1>1
<1> QED
  BY <1>4, <1>6, <1>7, <1>8 DEF RefInv

LEMMA PopRefInv ==
  ASSUME TypeOK, RefInv, NEW t \in heap, PopTimer(t),
         UNCHANGED <<live, binds, callbacks, handles, timers>>
  PROVE  RefInv'
<1>1. heap' = heap \ {t} /\ registry' = registry \ {t.ref}
  BY DEF PopTimer
<1>2. TimerRefs' = TimerRefs \ {t.ref} /\ t.ref \in TimerRefs
  BY <1>1 DEF TimerRefs, RefInv, OwnersDiffer
<1>3. t.ref \notin Held(binds) \cup Held(callbacks) \cup Held(handles)
  BY <1>2 DEF RefInv, OwnersDiffer
<1> QED
  BY <1>1, <1>2, <1>3 DEF RefInv, OwnersDiffer

LEMMA FireRefInv ==
  ASSUME TypeOK, ModeInv, RefInv, NEW t \in heap, FireTimer(t)
  PROVE  RefInv'
<1>1. UNCHANGED <<live, binds, callbacks, handles, timers>>
  BY DEF FireTimer
<1>2. CASE heap' = (heap \ {t}) \cup {Rearm(t)} /\ UNCHANGED registry
  <2>1. Rearm(t).ref = t.ref
    BY DEF Rearm, TypeOK, TimerEntry
  <2>2. TimerRefs' = TimerRefs /\ \A u, v \in heap' : u.ref = v.ref => u = v
    BY <1>2, <2>1 DEF TimerRefs, RefInv, OwnersDiffer
  <2> QED
    BY <1>1, <1>2, <2>2 DEF RefInv, OwnersDiffer
<1>3. CASE PopTimer(t)
  BY <1>1, <1>3, PopRefInv
<1> QED
  BY <1>2, <1>3 DEF FireTimer

LEMMA NextRefInv ==
  ASSUME TypeOK, ModeInv, RefInv, [Next]_vars
  PROVE  RefInv'
<1>1. CASE \/ ReloadConfig \/ PrepareExit \/ BeginFire \/ EndFire
           \/ ReturnFromCallback \/ TimeoutCaught \/ TimeoutEndsCall
           \/ \E k \in Keys : DispatchBind(k)
           \/ DispatchSuper \/ Tick \/ EnterNative \/ LeaveNative
           \/ \E r \in {"reload", "exit"} : TrayRequest(r)
           \/ UNCHANGED vars
  <2>1. UNCHANGED <<live, refs, heap, timers>>
    BY <1>1 DEF ReloadConfig, PrepareExit, BeginFire, EndFire, TimeoutCaught,
                TimeoutEndsCall, ReturnFromCallback, DispatchBind, DispatchSuper, Tick,
                EnterNative, LeaveNative, TrayRequest, vars, timing
  <2> QED
    BY <2>1, SameRefInv
<1>2. CASE BeginLoad \/ Destroy
  BY <1>2, ClosedRefInv DEF BeginLoad, Destroy, CreateState, EnterSafeMode, CloseState
<1>3. ASSUME NEW ok \in BOOLEAN, EndLoad(ok)
      PROVE  RefInv'
  <2>1. CASE EnterSafeMode
    BY <2>1, ClosedRefInv DEF EnterSafeMode, CloseState
  <2>2. CASE UNCHANGED <<live, refs, heap, cancelled, pending>>
    BY <1>3, <2>2, SameRefInv DEF EndLoad
  <2> QED
    BY <1>3, <2>1, <2>2 DEF EndLoad
<1>4. CASE LuaCode
  <2>1. ASSUME \/ \E t \in TimerId : CancelTimer(t)
               \/ \E s \in Settings : ApplySetting(s)
               \/ \E r \in {"reload", "exit"} : Request(r)
        PROVE  RefInv'
    <3>1. UNCHANGED <<live, refs, heap, timers>>
      BY <2>1 DEF CancelTimer, ApplySetting, Request, timing
    <3> QED
      BY <3>1, SameRefInv
  <2> QED
    BY <1>4, <2>1, BindRefInv, CallbackRefInv, TimerRefInv, CollectRefInv DEF LuaCode
<1>5. ASSUME NEW t \in heap, DropCancelled(t)
      PROVE  RefInv'
  BY <1>5, PopRefInv DEF DropCancelled
<1> QED
  BY <1>1, <1>2, <1>3, <1>4, <1>5, FireRefInv DEF Next, RuntimeStep, Returns
-------------------------------------------------------------------------------
\* Owners that differ are as many as the references they hold.

LEMMA SameCount ==
  ASSUME NEW S, NEW T, IsFiniteSet(T), NEW f \in [S -> T],
         \A x, y \in S : f[x] = f[y] => x = y,
         \A z \in T : \E x \in S : f[x] = z
  PROVE  IsFiniteSet(S) /\ Cardinality(S) = Cardinality(T)
<1>1. f \in Injection(S, T) /\ f \in Surjection(S, T)
  BY DEF Injection, Surjection, IsInjective
<1> QED
  BY <1>1, FS_Injection

LEMMA HeldCount ==
  ASSUME NEW D, NEW f \in [D -> Ref \cup {NoRef}], Injective(f)
  PROVE  /\ Held(f) \subseteq Ref
         /\ Cardinality({x \in DOMAIN f : f[x] # NoRef}) = Cardinality(Held(f))
<1> DEFINE S == {x \in DOMAIN f : f[x] # NoRef}
           g == [x \in S |-> f[x]]
<1>1. Held(f) \subseteq Ref
  BY DEF Held
<1>2. g \in [S -> Held(f)]
  BY DEF Held
<1>3. \A x, y \in S : g[x] = g[y] => x = y
  BY DEF Injective
<1>4. \A z \in Held(f) : \E x \in S : g[x] = z
  BY DEF Held
<1>5. IsFiniteSet(Held(f))
  BY <1>1, RefsFinite
<1> HIDE DEF S, g
<1>6. Cardinality(S) = Cardinality(Held(f))
  BY <1>2, <1>3, <1>4, <1>5, SameCount
<1> QED
  BY <1>1, <1>6 DEF S

LEMMA TimerCount ==
  ASSUME TypeOK, \A t, u \in heap : t.ref = u.ref => t = u
  PROVE  Cardinality(heap) = Cardinality(TimerRefs)
<1> DEFINE g == [t \in heap |-> t.ref]
<1>1. g \in [heap -> TimerRefs]
  BY DEF TimerRefs
<1>2. (\A x, y \in heap : g[x] = g[y] => x = y) /\ (\A z \in TimerRefs : \E x \in heap : g[x] = z)
  BY DEF TimerRefs
<1>3. IsFiniteSet(TimerRefs)
  BY HeldTypes, RefsFinite
<1> HIDE DEF g
<1> QED
  BY <1>1, <1>2, <1>3, SameCount

LEMMA DisjointCount ==
  ASSUME NEW S \in SUBSET Ref, NEW T \in SUBSET Ref, S \cap T = {}
  PROVE  Cardinality(S \cup T) = Cardinality(S) + Cardinality(T)
<1>1. IsFiniteSet(S) /\ IsFiniteSet(T) /\ Cardinality(S) \in Nat /\ Cardinality(T) \in Nat
  BY RefsFinite
<1>2. Cardinality(S \cup T) = Cardinality(S) + Cardinality(T) - Cardinality(S \cap T)
  BY <1>1, FS_Union
<1>3. Cardinality(S \cap T) = 0
  BY FS_EmptySet
<1> QED
  BY <1>1, <1>2, <1>3

LEMMA RefInvConsequence == TypeOK /\ RefInv => RefsAccounted
<1> SUFFICES ASSUME TypeOK, RefInv PROVE RefsAccounted
  OBVIOUS
<1> DEFINE B == Held(binds)  C == Held(callbacks)  H == Held(handles)
<1>1. B \in SUBSET Ref /\ C \in SUBSET Ref /\ H \in SUBSET Ref /\ TimerRefs \in SUBSET Ref
  BY HeldTypes
<1>2. registry = B \cup C \cup H \cup TimerRefs
  BY DEF RefInv
<1>3. Cardinality(registry) = Cardinality(B) + Cardinality(C) + Cardinality(H) + Cardinality(TimerRefs)
  <2>0. B \cap C = {} /\ (B \cup C) \cap H = {} /\ (B \cup C \cup H) \cap TimerRefs = {}
    BY DEF RefInv, OwnersDiffer
  <2> HIDE DEF B, C, H
  <2>1. Cardinality(B \cup C) = Cardinality(B) + Cardinality(C)
    BY <1>1, <2>0, DisjointCount
  <2>2. Cardinality((B \cup C) \cup H) = Cardinality(B \cup C) + Cardinality(H)
    BY <1>1, <2>0, DisjointCount
  <2>3. Cardinality((B \cup C \cup H) \cup TimerRefs) = Cardinality(B \cup C \cup H) + Cardinality(TimerRefs)
    BY <1>1, <2>0, DisjointCount
  <2> QED
    BY <1>2, <2>1, <2>2, <2>3
<1>4. /\ Cardinality({y \in DOMAIN binds : binds[y] # NoRef}) = Cardinality(B)
      /\ Cardinality({y \in DOMAIN callbacks : callbacks[y] # NoRef}) = Cardinality(C)
      /\ Cardinality({y \in DOMAIN handles : handles[y] # NoRef}) = Cardinality(H)
      /\ Cardinality(heap) = Cardinality(TimerRefs)
  <2>1. Injective(binds) /\ Injective(callbacks) /\ Injective(handles)
        /\ \A t, u \in heap : t.ref = u.ref => t = u
    BY DEF RefInv, OwnersDiffer
  <2>2. /\ binds \in [Keys -> Ref \cup {NoRef}] /\ callbacks \in [Callbacks -> Ref \cup {NoRef}]
        /\ handles \in [TimerId -> Ref \cup {NoRef}]
    BY DEF TypeOK
  <2> QED
    BY <2>1, <2>2, HeldCount, TimerCount
<1>5. Cardinality(registry)
        = Cardinality({y \in DOMAIN binds : binds[y] # NoRef})
          + Cardinality({y \in DOMAIN callbacks : callbacks[y] # NoRef})
          + Cardinality({y \in DOMAIN handles : handles[y] # NoRef}) + Cardinality(heap)
  BY <1>3, <1>4
<1>6. live = 0 => registry = {}
  BY DEF RefInv
<1> QED
  BY <1>2, <1>5, <1>6 DEF RefsAccounted, Held, TimerRefs

-------------------------------------------------------------------------------
(***************************************************************************)
(* The parts together are kept by every step: of the thread, of the Lua    *)
(* code it runs, of the clock and of the tray.                             *)
(***************************************************************************)
THEOREM Inductive == Spec => []IInv
<1>1. Init => IInv
  BY InitTypeOK, InitModeInv, InitTimerInv, InitRefInv DEF IInv
<1>2. IInv /\ [Next]_vars => IInv'
  BY NextTypeOK, NextModeInv, NextTimerInv, NextRefInv DEF IInv
<1> QED
  BY <1>1, <1>2, PTL DEF Spec

(***************************************************************************)
(* The state of the runtime keeps its types: every entry of the timer heap *)
(* is of a load that took place and holds a reference.                     *)
(***************************************************************************)
THEOREM TypeCorrect == Spec => []TypeOK
<1>1. IInv => TypeOK
  BY DEF IInv
<1> QED
  BY <1>1, Inductive, PTL

(***************************************************************************)
(* Every reference in the registry has exactly one owner, for any number   *)
(* of binds, callbacks, timers, collected handles and reloads.             *)
(***************************************************************************)
THEOREM RefsSafe == Spec => []RefsAccounted
<1>1. IInv => RefsAccounted
  BY RefInvConsequence DEF IInv
<1> QED
  BY <1>1, Inductive, PTL

(***************************************************************************)
(* Outside a load the other threads see the settings that Lua reads back.  *)
(***************************************************************************)
THEOREM PublishedSafe == Spec => []PublishedIsPending
<1>1. IInv => PublishedIsPending
  BY DEF IInv, ModeInv
<1> QED
  BY <1>1, Inductive, PTL

(***************************************************************************)
(* However a load failed, safe mode has no Lua state, no bind, no timer    *)
(* and the default settings.                                               *)
(***************************************************************************)
THEOREM SafeModeSafe == Spec => []SafeModeIsClean
<1>1. IInv => SafeModeIsClean
  BY DEF IInv, ModeInv
<1> QED
  BY <1>1, Inductive, PTL

(***************************************************************************)
(* FireExpiredTimers calls a timer neither early, nor cancelled, nor twice *)
(* if it does not repeat, nor in another Lua state than its own.           *)
(***************************************************************************)
THEOREM TimersSafe == Spec => TimersFireRightly
<1>1. IInv /\ [Next]_vars =>
        [pc = "fire" /\ pc' = "lua" =>
           \E t \in heap : /\ t.id = current'
                           /\ t.deadline <= now
                           /\ t.id \notin cancelled
                           /\ t.id \notin fired
                           /\ t.state = live]_vars
  BY FireStep DEF IInv
<1> QED
  BY <1>1, Inductive, PTL DEF Spec, TimersFireRightly
===============================================================================
