------------------------------ MODULE LuaRuntime ------------------------------
(***************************************************************************)
(* lua::Runtime on the keyboard dispatch thread: a Lua state that is thrown *)
(* away and built anew by every load; settings that reach the other threads *)
(* only through PublishSettings; callbacks kept as references into the      *)
(* registry of the state; timers in a heap; a limit on the time a callback  *)
(* may take; and safe mode, in which there is no Lua state at all.          *)
(*                                                                         *)
(* What runs inside Lua is the user's: any sequence of API calls, an error, *)
(* a loop without end, a pcall that swallows the time limit's error, code   *)
(* that LuaJIT has compiled and library calls that block.                   *)
(***************************************************************************)
EXTENDS Integers, FiniteSets, FiniteSetsExt

CONSTANTS
  Keys,       \* key events that may be bound
  SuperKeys,  \* the Win keys
  LWin,       \* the default one
  Looks,      \* values of all the other settings together
  Plain,      \* their defaults
  Intervals,  \* delays of timers
  MaxRefs,    \* bound: places in the registry
  MaxTimers,  \* bound: timers made in one behaviour
  MaxLoads,   \* bound: loads of the configuration
  MaxOps,     \* bound: API calls made by Lua code
  MaxCalls,   \* bound: keys, changes of super and requests of the tray
  MaxTime     \* bound of the clock

ASSUME LuaAssumption ==
  /\ LWin \in SuperKeys /\ Plain \in Looks
  /\ Intervals \subseteq Nat
  /\ {MaxRefs, MaxTimers, MaxOps, MaxCalls, MaxTime} \subseteq Nat
  /\ MaxLoads \in Nat \ {0}        \* the first load is part of every behaviour

NoRef     == 0            \* LUA_NOREF
Ref       == 1..MaxRefs
TimerId   == 1..MaxTimers
Callbacks == {"super", "reload", "exit"}
Kinds     == Callbacks \cup {"bind", "timer", "config", "none"}
Settings  == [super : SuperKeys, look : Looks]

Defaults  == [super |-> LWin, look |-> Plain]
TimerEntry == [id : TimerId, deadline : Nat, interval : Intervals, ref : Ref,
               repeat : BOOLEAN, state : 1..MaxLoads]

VARIABLES
  live,       \* m_state: 0 for none, else the number of the load that created it
  registry,   \* references in use in the registry of the state
  binds, callbacks,
  heap,       \* m_timerHeap
  cancelled,  \* the flag that a heap entry and the Lua handle of a timer share
  handles,    \* call_ref of every HW.Timer that Lua has not collected
  pending, published, superKey,   \* m_pending; the shared snapshot; super_vk of the keyboard
  safe, loading, lifecycle,       \* m_safeMode.active, m_loadingConfig, m_lifecycleAction
  pc, kind,   \* where the thread is; what it runs while it is in Lua
  current,    \* the timer whose callback runs
  limit,      \* m_timeout.active
  native,     \* the call is in a compiled trace or a C function, where no hook runs
  now, fireNow,   \* the clock; what FireExpiredTimers read from it
  requested,  \* requests the keyboard has accepted and not served
  exiting,    \* the exit callback has run
  loads, ops, calls, timers,   \* counters of the bounds
  fired,      \* history: one-shot timers that were called
  caught      \* history: the running call swallowed the error of the time limit

refs == <<registry, binds, callbacks, handles>>
timing == <<heap, cancelled, timers>>
config == <<pending, published, superKey>>
modes == <<safe, loading, lifecycle>>
call == <<kind, current, limit, native, caught>>
world == <<now, requested, exiting, loads, ops, calls>>
vars == <<live, refs, timing, config, modes, pc, call, fireNow, world, fired>>

NoHandles == [t \in TimerId |-> NoRef]
NoBinds   == [k \in Keys |-> NoRef]

Init ==
  /\ live = 0 /\ registry = {} /\ binds = NoBinds
  /\ callbacks = [c \in Callbacks |-> NoRef]
  /\ heap = {} /\ cancelled = {} /\ handles = NoHandles
  /\ pending = Defaults /\ published = Defaults /\ superKey = LWin
  /\ safe = TRUE /\ loading = FALSE /\ lifecycle = FALSE
  /\ pc = "load"              \* the dispatch thread begins with LoadConfig
  /\ kind = "none" /\ current = 0
  /\ limit = FALSE /\ native = FALSE /\ caught = FALSE
  /\ now = 0 /\ fireNow = 0
  /\ requested = {} /\ exiting = FALSE
  /\ loads = 0 /\ ops = 0 /\ calls = 0 /\ timers = 0
  /\ fired = {}

-------------------------------------------------------------------------------
\* Loading.  Each step but the Lua code itself is one action: nothing else runs
\* on this thread, and what the other threads see changes in Publish only.

\* PublishSettings and NotifySettingsChanged
Publish(s) == published' = s /\ superKey' = s.super

\* lua_close collects the handles, which cancels what is left.
CloseState ==
  /\ live' = 0 /\ registry' = {} /\ binds' = NoBinds
  /\ callbacks' = [c \in Callbacks |-> NoRef]
  /\ handles' = NoHandles
  /\ heap' = {}
  /\ cancelled' = cancelled \cup {t \in TimerId : handles[t] # NoRef}

\* Mutant: defaults are restored but not published.
SafeModeSilently ==
  /\ CloseState
  /\ safe' = TRUE /\ pending' = Defaults
  /\ UNCHANGED <<published, superKey>>

\* Mutant: the half-configured state stays.
SafeModeKeepsState ==
  /\ safe' = TRUE /\ pending' = Defaults
  /\ Publish(Defaults)
  /\ UNCHANGED <<live, refs, heap, cancelled>>

EnterSafeMode ==
  /\ CloseState
  /\ safe' = TRUE /\ pending' = Defaults
  /\ Publish(Defaults)

\* A new state with the standard library and the API; no callback yet
CreateState(state) ==
  /\ live' = state /\ registry' = {} /\ binds' = NoBinds
  /\ callbacks' = [c \in Callbacks |-> NoRef]
  /\ heap' = {} /\ handles' = NoHandles
  /\ cancelled' = cancelled \cup {t \in TimerId : handles[t] # NoRef}

\* The first half of LoadConfigImpl, up to luaL_loadfile.  The file is what the user
\* left there; if there is none the default configuration is written and executed.
BeginLoad ==
  /\ pc = "load"
  /\ loads' = loads + 1
  /\ \/ /\ CreateState(loads + 1)                 \* after CloseState
        /\ pending' = Defaults /\ loading' = TRUE
        /\ pc' = "lua" /\ kind' = "config"
        /\ UNCHANGED <<published, superKey, safe>>
     \/ /\ EnterSafeMode          \* no Lua state, or the file does not parse
        /\ pc' = "idle"
        /\ UNCHANGED <<kind, loading>>
  /\ UNCHANGED <<lifecycle, current, limit, native, caught, timers, now, fireNow,
                 requested, exiting, ops, calls, fired>>

\* The second half: what GuardedCall returned for "config execution".
EndLoad(ok) ==
  /\ pc = "lua" /\ kind = "config" /\ ~native
  /\ loading' = FALSE
  /\ pc' = "idle" /\ kind' = "none"
  /\ \/ /\ ok
        /\ safe' = FALSE
        /\ Publish(pending)
        /\ UNCHANGED <<live, refs, heap, cancelled, pending>>
     \/ /\ ~ok
        /\ EnterSafeMode
  /\ UNCHANGED <<lifecycle, current, limit, native, caught, timers, fireNow, world, fired>>

-------------------------------------------------------------------------------
\* Calls into Lua.

InLua == pc = "lua"

\* Mutant: GuardedCall is called with timeout_enabled = false.
CallUnlimited(k) ==
  /\ pc' = "lua" /\ kind' = k
  /\ limit' = FALSE /\ caught' = FALSE /\ UNCHANGED native

InstallTimeout == limit' = TRUE /\ caught' = FALSE /\ UNCHANGED native
ClearTimeout   == limit' = FALSE /\ caught' = FALSE /\ UNCHANGED native

\* GuardedCall up to lua_pcall
GuardedCall(k) ==
  /\ pc' = "lua" /\ kind' = k
  /\ InstallTimeout

Callable == live # 0 /\ ~safe

DispatchBind(k) ==
  /\ pc = "idle" /\ calls < MaxCalls
  /\ Callable /\ binds[k] # NoRef
  /\ GuardedCall("bind")
  /\ calls' = calls + 1
  /\ UNCHANGED <<live, refs, timing, config, modes, current, fireNow, now, requested,
                 exiting, loads, ops, fired>>

DispatchSuper ==
  /\ pc = "idle" /\ calls < MaxCalls
  /\ Callable /\ callbacks["super"] # NoRef
  /\ GuardedCall("super")
  /\ calls' = calls + 1
  /\ UNCHANGED <<live, refs, timing, config, modes, current, fireNow, now, requested,
                 exiting, loads, ops, fired>>

\* RunLifecycleCallback: called, or left out
RunLifecycleCallback(c, next) ==
  LET runs == Callable /\ callbacks[c] # NoRef /\ ~lifecycle IN
    \/ runs /\ lifecycle' = TRUE /\ GuardedCall(c)
    \/ ~runs /\ pc' = next /\ UNCHANGED <<lifecycle, kind, limit, native, caught>>

\* ProcessReloadRequest and ProcessExitRequest of the keyboard
ReloadConfig ==
  /\ pc = "idle" /\ "reload" \in requested /\ loads < MaxLoads
  /\ requested' = requested \ {"reload"}
  /\ RunLifecycleCallback("reload", "load")
  /\ UNCHANGED <<live, refs, timing, config, safe, loading, current, fireNow, now,
                 exiting, loads, ops, calls, fired>>

PrepareExit ==
  /\ pc = "idle" /\ "exit" \in requested /\ ~exiting
  /\ requested' = {}
  /\ exiting' = TRUE
  /\ RunLifecycleCallback("exit", "idle")
  /\ UNCHANGED <<live, refs, timing, config, safe, loading, current, fireNow, now,
                 loads, ops, calls, fired>>

\* The end of GuardedCall for a callback: it returned, or raised an error
ReturnFromCallback ==
  /\ InLua /\ kind # "config" /\ ~native
  /\ pc' = CASE kind = "timer"  -> "fire"
             [] kind = "reload" -> "load"
             [] OTHER           -> "idle"
  /\ lifecycle' = IF kind \in {"reload", "exit"} THEN FALSE ELSE lifecycle
  /\ kind' = "none" /\ current' = 0
  /\ ClearTimeout
  /\ UNCHANGED <<live, refs, timing, config, safe, loading, fireNow, world, fired>>

(***************************************************************************)
(* The hook counts instructions of the interpreter.  The bundled LuaJIT is *)
(* built by plain msvcbuild.bat with the compiler on, and code it compiles *)
(* does not check hooks; nor does a library function that blocks.          *)
(***************************************************************************)
EnterNative ==
  /\ InLua /\ ~native
  /\ native' = TRUE
  /\ UNCHANGED <<live, refs, timing, config, modes, pc, kind, current, limit, caught, fireNow,
                 world, fired>>

LeaveNative ==
  /\ native
  /\ native' = FALSE
  /\ UNCHANGED <<live, refs, timing, config, modes, pc, kind, current, limit, caught, fireNow,
                 world, fired>>

\* The deadline passes: TimeoutHook, or the same test in hw.log: it disarms itself and raises an error,
\* which ends the call unless a pcall of the callback catches it.
TimeoutCaught ==
  /\ InLua /\ limit /\ ~native
  /\ limit' = FALSE
  /\ caught' = TRUE
  /\ UNCHANGED <<live, refs, timing, config, modes, pc, kind, current, native, fireNow,
                 world, fired>>

TimeoutEndsCall == limit /\ ReturnFromCallback

-------------------------------------------------------------------------------
\* The API, as far as it changes the runtime.

MakesCall ==
  /\ InLua /\ ~native /\ ops < MaxOps
  /\ ops' = ops + 1
  /\ UNCHANGED <<pc, call, fireNow, now, exiting, loads, calls, fired>>

\* luaL_ref takes a free place.  Which one does not matter; that it may be one
\* that was freed before does.
FreeRefs(n) == Cardinality(Ref \ registry) >= n
NewRef == Min(Ref \ registry)
NewRef2 == Min(Ref \ (registry \cup {NewRef}))

\* Mutant: the bind that is replaced keeps its reference.
AddLeaks(k) ==
  /\ registry' = registry \cup {NewRef}
  /\ binds' = [binds EXCEPT ![k] = NewRef]

\* BindRegistry::Add: erase a previous bind of the same event, then insert
Add(k) ==
  LET rest == registry \ {binds[k]}
      ref  == Min(Ref \ rest)
  IN  /\ registry' = rest \cup {ref}
      /\ binds' = [binds EXCEPT ![k] = ref]

Bind(k) ==
  /\ MakesCall /\ FreeRefs(1)
  /\ Add(k)
  /\ UNCHANGED <<live, callbacks, handles, timing, config, modes, requested>>

\* hw.on_super, hw.on_reload, hw.on_exit
SetCallback(c) ==
  LET rest == registry \ {callbacks[c]}
      ref  == Min(Ref \ rest)
  IN  /\ MakesCall /\ FreeRefs(1)
      /\ registry' = rest \cup {ref}
      /\ callbacks' = [callbacks EXCEPT ![c] = ref]
      /\ UNCHANGED <<live, binds, handles, timing, config, modes, requested>>

ScheduleTimer(id, ref, ms, repeat) ==
  heap' = heap \cup {[id |-> id, deadline |-> now + ms, interval |-> ms, ref |-> ref,
                      repeat |-> repeat, state |-> live]}

\* hw.timer: a reference for the heap and one for the handle that Lua gets
Timer(ms, repeat) ==
  LET id == timers + 1 IN
    /\ MakesCall /\ FreeRefs(2) /\ timers < MaxTimers
    /\ registry' = registry \cup {NewRef, NewRef2}
    /\ ScheduleTimer(id, NewRef, ms, repeat)
    /\ handles' = [handles EXCEPT ![id] = NewRef2]
    /\ timers' = id
    /\ UNCHANGED <<live, binds, callbacks, cancelled, config, modes, requested>>

CancelTimer(t) ==
  /\ MakesCall
  /\ handles[t] # NoRef /\ t \notin cancelled
  /\ cancelled' = cancelled \cup {t}
  /\ UNCHANGED <<live, refs, heap, timers, config, modes, requested>>

\* hwTimerGc
TimerGc(t) ==
  /\ registry' = registry \ {handles[t]}
  /\ handles' = [handles EXCEPT ![t] = NoRef]
  /\ cancelled' = cancelled \cup {t}

\* Lua forgets a handle and its collector gets to it.
CollectTimer(t) ==
  /\ MakesCall
  /\ handles[t] # NoRef
  /\ TimerGc(t)
  /\ UNCHANGED <<live, binds, callbacks, heap, timers, config, modes, requested>>

MaybePublish(s) ==
  IF loading THEN UNCHANGED <<published, superKey>> ELSE Publish(s)

\* ApplySettingFromLua for a value it accepts.  A table
\* assigned to hw.settings does this for one field after the other; a value that
\* is refused changes nothing.
ApplySetting(s) ==
  /\ MakesCall
  /\ \/ s.super = pending.super \/ s.look = pending.look      \* one field at a time
  /\ s # pending
  /\ pending' = s
  /\ MaybePublish(s)
  /\ UNCHANGED <<live, refs, timing, modes, requested>>

\* hw.reload and hw.quit
Request(r) ==
  /\ MakesCall
  /\ ~loading /\ ~lifecycle
  /\ requested' = IF exiting THEN requested ELSE requested \cup {r}
  /\ UNCHANGED <<live, refs, timing, config, modes>>

-------------------------------------------------------------------------------
\* Timers.

Due(t) == t.deadline <= fireNow
Top == {t \in heap : \A u \in heap : t.deadline <= u.deadline}

PopTimer(t) == heap' = heap \ {t} /\ registry' = registry \ {t.ref}

\* FireExpiredTimers reads the clock once
BeginFire ==
  /\ pc = "idle" /\ live # 0
  /\ \E t \in heap : t.deadline <= now \/ t.id \in cancelled
  /\ fireNow' = now
  /\ pc' = "fire"
  /\ UNCHANGED <<live, refs, timing, config, modes, call, world, fired>>

\* A cancelled entry at the top, in FireExpiredTimers or in NextTimerDeadline
DropCancelled(t) ==
  /\ pc \in {"fire", "idle"} /\ t \in Top /\ t.id \in cancelled
  /\ PopTimer(t)
  /\ UNCHANGED <<live, binds, callbacks, handles, cancelled, timers, config, modes, pc, call,
                 fireNow, world, fired>>

\* Mutant: the flag is not looked at again.
FiresAnyway(t) == t \in Top /\ Due(t)

Fires(t) == t \in Top /\ Due(t) /\ t.id \notin cancelled

\* Mutant: a repeating timer is armed for the time at which it was due.
RearmNow(t) == [t EXCEPT !.deadline = fireNow]

Rearm(t) == [t EXCEPT !.deadline = fireNow + t.interval]

FireTimer(t) ==
  /\ pc = "fire" /\ Fires(t)
  /\ \/ /\ t.repeat                        \* armed before the call: the callback may cancel it
        /\ heap' = (heap \ {t}) \cup {Rearm(t)}
        /\ fired' = fired
        /\ UNCHANGED registry
     \/ /\ ~t.repeat
        /\ PopTimer(t)
        /\ fired' = fired \cup {t.id}
  /\ current' = t.id
  /\ GuardedCall("timer")
  /\ UNCHANGED <<live, binds, callbacks, handles, cancelled, timers, config, modes,
                 fireNow, world>>

EndFire ==
  /\ pc = "fire"
  /\ \A t \in Top : ~Due(t) /\ t.id \notin cancelled
  /\ pc' = "idle"
  /\ fireNow' = 0             \* a local variable of FireExpiredTimers
  /\ UNCHANGED <<live, refs, timing, config, modes, call, world, fired>>

-------------------------------------------------------------------------------
\* Everyone else.

Tick ==
  /\ now < MaxTime /\ heap # {}
  /\ now' = now + 1
  /\ UNCHANGED <<live, refs, timing, config, modes, pc, call, fireNow, requested, exiting,
                 loads, ops, calls, fired>>

\* The tray asks for a reload or an exit; the keyboard defers neither for ever.
TrayRequest(r) ==
  /\ calls < MaxCalls /\ ~exiting /\ r \notin requested
  /\ requested' = requested \cup {r}
  /\ calls' = calls + 1
  /\ UNCHANGED <<live, refs, timing, config, modes, pc, call, fireNow, now, exiting,
                 loads, ops, fired>>

\* ~Runtime when the dispatch thread ends
Destroy ==
  /\ pc = "idle" /\ exiting
  /\ CloseState
  /\ pc' = "gone"
  /\ UNCHANGED <<timers, config, modes, call, fireNow, world, fired>>

LuaCode ==
  \/ \E k \in Keys : Bind(k)
  \/ \E c \in Callbacks : SetCallback(c)
  \/ \E ms \in Intervals, repeat \in BOOLEAN : Timer(ms, repeat)
  \/ \E t \in TimerId : CancelTimer(t) \/ CollectTimer(t)
  \/ \E s \in Settings : ApplySetting(s)
  \/ \E r \in {"reload", "exit"} : Request(r)

Returns == ReturnFromCallback \/ \E ok \in BOOLEAN : EndLoad(ok)

RuntimeStep ==
  \/ BeginLoad \/ ReloadConfig \/ PrepareExit
  \/ BeginFire \/ EndFire
  \/ \E t \in heap : DropCancelled(t) \/ FireTimer(t)

Next ==
  \/ RuntimeStep \/ LuaCode \/ Returns \/ TimeoutCaught \/ TimeoutEndsCall
  \/ EnterNative \/ LeaveNative
  \/ \E k \in Keys : DispatchBind(k)
  \/ DispatchSuper \/ Tick \/ Destroy
  \/ \E r \in {"reload", "exit"} : TrayRequest(r)

Spec == Init /\ [][Next]_vars

\* The thread goes on outside Lua; inside, time passes, and code that is again and
\* again interpreted meets the hook.  That Lua code returns by itself, or that
\* native code ever goes back to the interpreter, is not assumed.
FairSpec ==
  /\ Spec
  /\ WF_vars(RuntimeStep)
  /\ SF_vars(TimeoutEndsCall \/ TimeoutCaught)

-------------------------------------------------------------------------------
TypeOK ==
  /\ live \in 0..MaxLoads /\ registry \subseteq Ref
  /\ binds \in [Keys -> Ref \cup {NoRef}]
  /\ callbacks \in [Callbacks -> Ref \cup {NoRef}]
  /\ handles \in [TimerId -> Ref \cup {NoRef}]
  /\ heap \subseteq TimerEntry /\ cancelled \subseteq TimerId /\ fired \subseteq TimerId
  /\ {pending, published} \subseteq Settings /\ superKey \in SuperKeys
  /\ {safe, loading, lifecycle, limit, native, caught, exiting} \subseteq BOOLEAN
  /\ pc \in {"load", "lua", "idle", "fire", "gone"} /\ kind \in Kinds
  /\ current \in TimerId \cup {0} /\ now \in 0..MaxTime /\ fireNow \in 0..MaxTime
  /\ requested \subseteq {"reload", "exit"}
  /\ loads \in 0..MaxLoads /\ ops \in 0..MaxOps /\ calls \in 0..MaxCalls
  /\ timers \in 0..MaxTimers

\* Every reference in the registry has exactly one owner, and every owner's
\* reference is in the registry: nothing is freed twice (which would hand the place
\* of one callback to another), used after it was freed, or leaked, across binds
\* that replace each other, one-shot and repeating timers, collected handles
\* and reloads.
RefsAccounted ==
  LET held(f) == {f[x] : x \in {y \in DOMAIN f : f[y] # NoRef}}
      count(f) == Cardinality({y \in DOMAIN f : f[y] # NoRef})
      timerRefs == {t.ref : t \in heap}
  IN  /\ registry = held(binds) \cup held(callbacks) \cup held(handles) \cup timerRefs
      /\ Cardinality(registry)
           = count(binds) + count(callbacks) + count(handles) + Cardinality(heap)
      /\ live = 0 => registry = {}

\* Outside a load, the other threads see the settings that Lua reads back, and the
\* keyboard uses their super key: however a load failed, and whatever callbacks
\* assign between loads.
PublishedIsPending ==
  ~loading => published = pending /\ superKey = published.super

\* Safe mode is a fresh start: no Lua state, no bind, no timer, default
\* settings.  Outside it there is a Lua state.
SafeModeIsClean ==
  ~loading /\ pc # "gone" =>
    IF safe THEN live = 0 /\ heap = {} /\ binds = NoBinds /\ published = Defaults
            ELSE live # 0

\* A timer fires neither early, nor after it was cancelled or its handle was
\* collected, nor twice if it is not repeating, nor into another Lua state than the
\* one that made it; also when callbacks of the same round cancel each other.
TimersFireRightly ==
  [][pc = "fire" /\ pc' = "lua" =>
       \E t \in heap : /\ t.id = current'
                       /\ t.deadline <= now
                       /\ t.id \notin cancelled
                       /\ t.id \notin fired
                       /\ t.state = live]_vars

\* A callback ends in time, however it alternates between the interpreter and native
\* code, with two exceptions that the code does not stop: it stays in native code (a
\* compiled loop without end), or it catches the error of the limit.
CallbackReturns ==
  InLua /\ kind # "config" ~> (~InLua \/ caught \/ []native)

InFire == pc = "fire" \/ (InLua /\ kind = "timer")
SpinningTimer == \E t \in heap : t.repeat /\ t.interval = 0

\* A round of timers ends and the thread gets back to keys and requests, whatever
\* timers its callbacks make or cancel: only a repeating timer with a delay of zero,
\* which hw.timer accepts, may be due again and again within the round, and a callback
\* that CallbackReturns excepts may stay.
TimersYield == InFire ~> (~InFire \/ caught \/ SpinningTimer \/ []native)
===============================================================================
