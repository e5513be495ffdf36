------------------------ MODULE OutlinePipeline_proofs ------------------------
(***************************************************************************)
(* Proofs about OutlinePipeline, for any set of shader files and any       *)
(* bounds.                                                                 *)
(***************************************************************************)
EXTENDS OutlinePipeline, TLAPS

-------------------------------------------------------------------------------
\* A request has no step; the worker has a path, and bytecode once it was found or compiled.
Work == [step : {"idle", "load", "found", "compile", "include", "compiled", "store",
                 "renameCode", "renameMeta", "publish"},
         path : Paths \cup {NoPath}, generation : Generation,
         code : [source : 0..MaxVersion, header : 0..MaxVersion], meta : 0..MaxVersion]

HasCode == {"found", "store", "renameCode", "renameMeta", "publish"}

WorkOK ==
  /\ pending \in Work /\ pending.step = "idle" /\ pending.code = NoCode
  /\ pending # NoWork => pending.path \in Paths
  /\ work \in Work
  /\ work.step = "idle" => work = NoWork
  /\ work.step # "idle" => work.path \in Paths
  /\ work.step \in HasCode => work.code \in Bytecode
  /\ work.step = "compiled" => work.code \in Bytecode \cup {NoCode}
  /\ work.step = "include" => work.code.source \in Version
  /\ work.step \in {"load", "compile"} => work.code = NoCode
  /\ pc = "start" => generation = 0 /\ configuredPath = NoPath
  /\ settingsDirty => reloads > 0
  /\ generation <= reloads
     \/ (generation = reloads + 1 /\ ~settingsDirty /\ pc # "start")

TypeInv == TypeOK /\ WorkOK

(***************************************************************************)
(* Why CacheTruthful holds.  A meta file is never of a version to come,    *)
(* only a path that was missed is compiled, and an entry about to be       *)
(* stored is at least as new as the one it replaces, so neither of the two *)
(* renames can make an entry look current with bytecode of another version.*)
(***************************************************************************)
Fresh(p, code) == code.source = file[p] /\ code.header >= savedWith[p]

CacheInv ==
  /\ \A p \in Paths : cache[p].meta <= file[p] /\ savedWith[p] <= header
  /\ CacheTruthful
  /\ work.step = "compile" => ~Hit(work.path)
  /\ work.step \in {"renameCode", "renameMeta"} =>
       cache[work.path].meta <= work.meta /\ work.meta <= file[work.path]
  /\ work.path \notin spoiled =>
       /\ work.step = "include" => work.code.source = file[work.path]
       /\ work.step = "compiled" => work.code = NoCode \/ Fresh(work.path, work.code)
       /\ work.step = "store" => Fresh(work.path, work.code)
       /\ work.step \in {"renameCode", "renameMeta"} /\ work.meta = file[work.path] =>
            Fresh(work.path, work.code)
       /\ work.step = "renameMeta" => cache[work.path].code \in {NoCode, work.code}

(***************************************************************************)
(* Why ShownIsConfigured holds: unless it was lost, the update of the last *)
(* configuration is requested, in work, in the mailbox or shown, and once  *)
(* it left the worker nothing is compiled that could change its excuse.    *)
(***************************************************************************)
Newest ==
  \/ pc = "builtIn"
  \/ pending # NoWork
  \/ work.step # "idle" /\ work.generation = generation
  \/ mailbox # NoUpdate /\ mailbox.generation = generation
  \/ outlineGeneration = generation /\ Shows(shown)

WorkInv ==
  /\ configuredPath # NoPath =>
       asked.source <= file[configuredPath] /\ asked.header <= savedWith[configuredPath]
  /\ pending # NoWork => pending.path = configuredPath /\ pending.generation = generation
  /\ work.step # "idle" => work.generation <= generation
  /\ work.step # "idle" /\ work.generation = generation =>
       /\ pending = NoWork
       /\ work.path = configuredPath
       /\ work.step \in HasCode /\ configuredPath \notin spoiled => NoOlder(work.code, asked)
       /\ work.step = "include" => work.code.source >= asked.source
       /\ work.step = "compiled" => work.code = NoCode \/ NoOlder(work.code, asked)

Settled == configuredPath = NoPath \/ (pending = NoWork /\ work = NoWork)

UpdateInv ==
  /\ WorkInv
  /\ pc = "builtIn" => configuredPath = NoPath
  /\ mailbox # NoUpdate =>
       /\ mailboxFull \/ pc = "take"
       /\ mailbox.generation <= generation
       /\ mailbox.generation = generation => Shows(mailbox.shader) /\ Settled
  /\ outlineGeneration <= generation
  /\ outlineGeneration = generation => Settled
  /\ ~lost => Newest

IInv == TypeInv /\ CacheInv /\ UpdateInv

-------------------------------------------------------------------------------
\* Types.

Entry == [code : Bytecode \cup {NoCode}, meta : 0..MaxVersion]

LEMMA Bounds ==
  /\ MaxReloads \in Nat /\ MaxCrashes \in Nat /\ MaxVersion \in Nat \ {0}
  /\ NoPath \notin Paths
  /\ BuiltIn \notin Shader /\ NoUpdate \notin Update
BY OutlineAssumption, OutlineNullAssumption DEF OutlineAssumption, OutlineNullAssumption

LEMMA VersionBounds ==
  /\ Version \subseteq Nat \ {0} /\ Version \subseteq 0..MaxVersion /\ 1 \in Version
  /\ \A n \in Version, k \in 0..MaxVersion : k < n => n - 1 \in Nat
BY Bounds DEF Version

LEMMA CodeTypes ==
  /\ NoCode \notin Bytecode /\ NoCode.source = 0 /\ NoCode.header = 0
  /\ NoCode \in [source : 0..MaxVersion, header : 0..MaxVersion]
  /\ \A code \in Bytecode : /\ code.source \in Version /\ code.header \in Version
                            /\ code \in [source : 0..MaxVersion, header : 0..MaxVersion]
<1>1. NoCode.source = 0 /\ NoCode.header = 0
  BY DEF NoCode
<1>2. NoCode \in [source : 0..MaxVersion, header : 0..MaxVersion]
  BY Bounds DEF NoCode
<1>3. \A code \in Bytecode : code.source \in Version /\ code.header \in Version
  BY DEF Bytecode
<1>4. Bytecode \subseteq [source : 0..MaxVersion, header : 0..MaxVersion]
  BY VersionBounds DEF Bytecode
<1>5. NoCode \notin Bytecode
  BY <1>1, <1>3, VersionBounds
<1> QED
  BY <1>1, <1>2, <1>3, <1>4, <1>5

LEMMA NoWorkIsWork == NoWork \in Work /\ NoWork.step = "idle" /\ NoWork.code = NoCode /\ NoWork.path = NoPath
BY Bounds, CodeTypes DEF NoWork, Work, Generation

LEMMA VersionTypes ==
  ASSUME TypeInv
  PROVE  /\ file \in [Paths -> Version] /\ savedWith \in [Paths -> Version]
         /\ cache \in [Paths -> Entry]
         /\ header \in Nat
         /\ \A p \in Paths : /\ file[p] \in Nat /\ file[p] # 0 /\ savedWith[p] \in Nat
                             /\ cache[p].meta \in Nat /\ cache[p].code \in Bytecode \cup {NoCode}
         /\ work \in Work /\ work.code.source \in Nat /\ work.code.header \in Nat /\ work.meta \in Nat
         /\ work.step # "idle" => work.path \in Paths
<1>1. /\ file \in [Paths -> Version] /\ savedWith \in [Paths -> Version] /\ header \in Nat
      /\ cache \in [Paths -> Entry]
  BY VersionBounds DEF TypeInv, TypeOK, Entry
<1>2. ASSUME NEW p \in Paths
      PROVE  /\ file[p] \in Nat /\ file[p] # 0 /\ savedWith[p] \in Nat
             /\ cache[p].meta \in Nat /\ cache[p].code \in Bytecode \cup {NoCode}
  <2>1. file[p] \in Version /\ savedWith[p] \in Version /\ cache[p] \in Entry
    BY <1>1
  <2>2. cache[p].meta \in 0..MaxVersion /\ cache[p].code \in Bytecode \cup {NoCode}
    BY <2>1 DEF Entry
  <2>3. file[p] \in Nat /\ file[p] # 0 /\ savedWith[p] \in Nat
    BY <2>1, VersionBounds
  <2>4. cache[p].meta \in Nat
    BY <2>2, Bounds
  <2> QED
    BY <2>2, <2>3, <2>4
<1>3. work \in Work /\ work.code.source \in Nat /\ work.code.header \in Nat /\ work.meta \in Nat
  BY Bounds DEF TypeInv, WorkOK, Work
<1>4. work.step # "idle" => work.path \in Paths
  BY DEF TypeInv, WorkOK
<1> QED
  BY <1>1, <1>2, <1>3, <1>4

LEMMA AtFields ==
  ASSUME TypeInv, NEW step \in {"idle", "load", "found", "compile", "include", "compiled", "store",
                                "renameCode", "renameMeta", "publish"}
  PROVE  /\ At(step) \in Work /\ At(step).step = step /\ At(step).path = work.path
         /\ At(step).generation = work.generation
         /\ At(step).code = work.code /\ At(step).meta = work.meta
BY VersionTypes DEF At, Work

LEMMA InitTypeInv == Init => TypeInv
<1> SUFFICES ASSUME Init PROVE TypeInv
  OBVIOUS
<1>1. WorkOK
  BY Bounds, NoWorkIsWork DEF Init, WorkOK, HasCode
<1>2. pending.generation \in Generation /\ work.step = "idle"
  BY Bounds, NoWorkIsWork DEF Init, Work
<1>3. file \in [Paths -> Version] /\ savedWith \in [Paths -> Version] /\ header \in Version
  BY VersionBounds DEF Init
<1>4. cache \in [Paths -> Entry]
  BY Bounds DEF Init, Entry
<1>5. /\ reloads \in 0..MaxReloads /\ crashes \in 0..MaxCrashes
      /\ generation \in Generation /\ outlineGeneration \in Generation
  BY Bounds DEF Init, Generation
<1> QED
  BY <1>1, <1>2, <1>3, <1>4, <1>5 DEF Init, TypeInv, TypeOK, Entry

LEMMA UserTypeInv ==
  ASSUME TypeInv, UserNext
  PROVE  TypeInv'
<1>1. ASSUME NEW p \in Paths, EditShader(p)
      PROVE  TypeInv'
  <2>1. file[p] + 1 \in Version
    BY <1>1, Bounds DEF EditShader, TypeInv, TypeOK, Version
  <2>2. file' \in [Paths -> Version] /\ savedWith' \in [Paths -> Version] /\ spoiled' \in SUBSET Paths
    BY <1>1, <2>1 DEF EditShader, TypeInv, TypeOK
  <2>3. UNCHANGED <<header, cache, config, pc, manager, work, mail, renderer, lost>>
    BY <1>1 DEF EditShader
  <2> QED
    BY <2>2, <2>3 DEF TypeInv, TypeOK, WorkOK, config, manager, mail, renderer
<1>2. CASE EditInclude
  <2>1. header' \in Version
    BY <1>2, Bounds DEF EditInclude, TypeInv, TypeOK, Version
  <2>2. UNCHANGED <<file, cache, savedWith, spoiled, config, pc, manager, work, mail, renderer, lost>>
    BY <1>2 DEF EditInclude
  <2> QED
    BY <2>1, <2>2 DEF TypeInv, TypeOK, WorkOK, config, manager, mail, renderer
<1>3. ASSUME NEW p \in Paths \cup {NoPath}, PublishSettings(p)
      PROVE  TypeInv'
  <2>1. reloads' \in 0..MaxReloads /\ reloads' = reloads + 1
    BY <1>3, Bounds DEF PublishSettings, TypeInv, TypeOK
  <2>2. generation' <= reloads' /\ reloads' > 0
    BY <1>3, <2>1, Bounds DEF PublishSettings, TypeInv, TypeOK, WorkOK, manager, Generation
  <2>3. pc' \in {pc, "wait"} /\ (pc' = "start" => pc = "start")
    BY <1>3 DEF PublishSettings, Notify
  <2>4. pc' \in {"start", "wait", "checked", "asleep", "settings", "builtIn", "flag", "take"}
    BY <2>3 DEF TypeInv, TypeOK
  <2>5. wanted' = p /\ settingsDirty' = TRUE /\ UNCHANGED <<disk, crashes, manager, work, mail, renderer, lost>>
    BY <1>3 DEF PublishSettings
  <2> QED
    BY <2>1, <2>2, <2>3, <2>4, <2>5 DEF TypeInv, TypeOK, WorkOK, disk, manager, mail, renderer
<1>4. CASE Crash
  <2>1. WorkOK'
    BY <1>4, Bounds, NoWorkIsWork DEF Crash, TypeInv, TypeOK, WorkOK, HasCode
  <2>2. pending'.generation \in Generation /\ work'.step = "idle"
    BY <2>1, <1>4, NoWorkIsWork DEF Crash, WorkOK, Work
  <2>3. generation' \in Generation /\ outlineGeneration' \in Generation /\ crashes' \in 0..MaxCrashes
    BY <1>4, Bounds DEF Crash, Generation, TypeInv, TypeOK
  <2> QED
    BY <1>4, <2>1, <2>2, <2>3 DEF Crash, TypeInv, TypeOK, disk
<1> QED
  BY <1>1, <1>2, <1>3, <1>4 DEF UserNext

\* A step of the loop that only moves it.
LEMMA MoveTypeInv ==
  ASSUME TypeInv, UNCHANGED <<disk, config, manager, work, mail, renderer, lost>>,
         pc' \in {"wait", "checked", "asleep", "settings", "flag"}
  PROVE  TypeInv'
<1>1. pc' # "start"
  OBVIOUS
<1> QED
  BY <1>1 DEF TypeInv, TypeOK, WorkOK, disk, config, manager, mail, renderer

Moves == TestPredicate \/ FallAsleep \/ OtherWork \/ Stirred \/ CleanSettings

LEMMA MovesMove ==
  Moves => /\ UNCHANGED <<disk, config, manager, work, mail, renderer, lost>>
           /\ pc' \in {"wait", "checked", "asleep", "settings", "flag"}
BY DEF Moves, TestPredicate, FallAsleep, OtherWork, Stirred, CleanSettings

LEMMA LoopTypeInv ==
  ASSUME TypeInv, LoopNext \/ OtherWork \/ Stirred \/ ResetDevice \/ LoseDevice
  PROVE  TypeInv'
<1>1. CASE ApplySettings
  <2>0. /\ pc = "start" \/ (pc = "settings" /\ settingsDirty)
        /\ settingsDirty' = (pc = "start" /\ settingsDirty) /\ settingsDirty' \in BOOLEAN
        /\ pc' \in {"wait", "builtIn", "flag"} /\ pc' # "start"
        /\ UNCHANGED <<disk, wanted, reloads, crashes, work, mail, renderer>>
    BY <1>1 DEF ApplySettings
  <2>1. CASE wanted = NoPath /\ configuredPath = NoPath
    <3>1. UNCHANGED <<manager, lost>>
      BY <1>1, <2>1 DEF ApplySettings
    <3>2. generation' <= reloads' \/ (generation' = reloads' + 1 /\ ~settingsDirty' /\ pc' # "start")
      BY <2>0, <3>1, Bounds DEF TypeInv, TypeOK, WorkOK, manager
    <3> QED
      BY <2>0, <3>1, <3>2 DEF TypeInv, TypeOK, WorkOK, disk, manager, mail, renderer
  <2>2. CASE ~(wanted = NoPath /\ configuredPath = NoPath)
    <3>0. generation' = generation + 1 /\ reloads' = reloads /\ lost' = FALSE
      BY <1>1, <2>2 DEF ApplySettings
    <3>1. generation' \in Generation /\ generation' <= reloads + 1
          /\ (generation' <= reloads \/ ~settingsDirty')
      <4>1. CASE pc = "start"
        <5>1. generation = 0 /\ reloads \in Nat /\ (settingsDirty => reloads > 0)
          BY <4>1, Bounds DEF TypeInv, TypeOK, WorkOK
        <5>2. generation' = 1 /\ 1 <= reloads + 1 /\ (settingsDirty => 1 <= reloads)
          BY <3>0, <5>1
        <5>3. generation' \in Generation
          BY <5>2, Bounds DEF Generation
        <5> QED
          BY <2>0, <5>2, <5>3
      <4>2. CASE pc = "settings" /\ settingsDirty
        <5>1. generation <= reloads /\ generation \in Generation /\ reloads \in 0..MaxReloads
          BY <4>2 DEF TypeInv, TypeOK, WorkOK
        <5>2. generation' \in Generation /\ generation' <= reloads + 1
          BY <3>0, <5>1, Bounds DEF Generation
        <5> QED
          BY <2>0, <4>2, <5>2
      <4> QED
        BY <2>0, <4>1, <4>2
    <3>2. generation' <= reloads' \/ (generation' = reloads' + 1 /\ ~settingsDirty' /\ pc' # "start")
      BY <2>0, <3>0, <3>1, Bounds DEF TypeInv, TypeOK, Generation
    <3>3. pending' \in Work /\ pending'.step = "idle" /\ pending'.code = NoCode
          /\ (pending' # NoWork => pending'.path \in Paths)
      <4>1. CASE wanted = NoPath
        BY <1>1, <2>2, <4>1, NoWorkIsWork DEF ApplySettings
      <4>2. CASE wanted # NoPath
        <5>1. wanted \in Paths
          BY <4>2 DEF TypeInv, TypeOK
        <5>2. pending' = [step |-> "idle", path |-> wanted, generation |-> generation', code |-> NoCode, meta |-> 0]
          BY <1>1, <2>2, <4>2 DEF ApplySettings, NoWork
        <5> QED
          BY <3>1, <5>1, <5>2, Bounds, CodeTypes DEF Work
      <4> QED
        BY <4>1, <4>2
    <3>4. asked' \in Bytecode \cup {NoCode}
      <4>1. CASE wanted = NoPath
        BY <1>1, <2>2, <4>1 DEF ApplySettings
      <4>2. CASE wanted # NoPath
        <5>1. wanted \in Paths
          BY <4>2 DEF TypeInv, TypeOK
        <5>2. asked' = [source |-> file[wanted], header |-> savedWith[wanted]]
          BY <1>1, <2>2, <4>2 DEF ApplySettings
        <5> QED
          BY <5>1, <5>2, VersionTypes DEF Bytecode
      <4> QED
        BY <4>1, <4>2
    <3>5. configuredPath' \in Paths \cup {NoPath} /\ pending'.generation \in Generation
      BY <1>1, <2>2, <3>3 DEF ApplySettings, TypeInv, TypeOK, Work
    <3>6. settingsDirty' => reloads' > 0
      BY <2>0 DEF TypeInv, WorkOK
    <3>7. UNCHANGED <<file, header, cache, savedWith, spoiled, wanted, reloads, crashes, work, mailbox,
                      mailboxFull, outlineGeneration, shown, device>>
      BY <2>0 DEF disk, mail, renderer
    <3>8. WorkOK'
      BY <2>0, <3>2, <3>3, <3>6, <3>7 DEF TypeInv, WorkOK
    <3> QED
      BY <2>0, <3>0, <3>1, <3>4, <3>5, <3>7, <3>8 DEF TypeInv, TypeOK
  <2> QED
    BY <2>1, <2>2
<1>2. CASE PublishBuiltIn
  <2>1. [shader |-> BuiltIn, generation |-> generation] \in Update
    BY DEF Update, TypeInv, TypeOK
  <2> QED
    BY <1>2, <2>1 DEF PublishBuiltIn, Publish, TypeInv, TypeOK, WorkOK, disk, config, manager, renderer
<1>3. CASE Moves
  BY <1>3, MovesMove, MoveTypeInv
<1>4. CASE TakeFlag
  <2>1. mailboxFull' \in BOOLEAN /\ pc' \in {"take", "wait"} /\ pc' # "start"
    BY <1>4 DEF TakeFlag
  <2>2. UNCHANGED <<disk, config, manager, work, mailbox, renderer, lost>>
    BY <1>4 DEF TakeFlag
  <2> QED
    BY <2>1, <2>2 DEF TypeInv, TypeOK, WorkOK, disk, config, manager, renderer
<1>5. ASSUME NEW installs \in BOOLEAN, TakeUpdate(installs)
      PROVE  TypeInv'
  <2>1. mailbox # NoUpdate => mailbox.shader \in Shader \cup {BuiltIn} /\ mailbox.generation \in Generation
    BY DEF TypeInv, TypeOK, Update
  <2>2. shown' \in Shader \cup {BuiltIn} /\ outlineGeneration' \in Generation /\ lost' \in BOOLEAN
    BY <1>5, <2>1 DEF TakeUpdate, TypeInv, TypeOK
  <2> QED
    BY <1>5, <2>2 DEF TakeUpdate, TypeInv, TypeOK, WorkOK, disk, config, manager
<1>6. CASE ResetDevice
  BY <1>6 DEF ResetDevice, TypeInv, TypeOK, WorkOK, disk, config, manager, mail
<1>7. CASE LoseDevice
  <2>1. device' \in BOOLEAN /\ lost' \in BOOLEAN /\ shown' = BuiltIn
    BY <1>7 DEF LoseDevice, TypeInv, TypeOK
  <2>2. UNCHANGED <<disk, config, pc, manager, work, mail, outlineGeneration>>
    BY <1>7 DEF LoseDevice
  <2> QED
    BY <2>1, <2>2 DEF TypeInv, TypeOK, WorkOK, disk, config, manager, mail
<1> QED
  BY <1>1, <1>2, <1>3, <1>4, <1>5, <1>6, <1>7 DEF LoopNext, Moves

\* What a step of the worker makes of its work.
LEMMA WorkStepTypeInv ==
  ASSUME TypeInv, NEW from, NEW to, WorkStep(from, to),
         to \in Work,
         to.step = "idle" => to = NoWork,
         to.step # "idle" => to.path \in Paths,
         to.step \in HasCode => to.code \in Bytecode,
         to.step = "compiled" => to.code \in Bytecode \cup {NoCode},
         to.step = "include" => to.code.source \in Version,
         to.step \in {"load", "compile"} => to.code = NoCode,
         cache' \in [Paths -> Entry],
         pending' \in {pending, NoWork},
         pc' \in {pc, "wait"},
         mailbox' \in Update \cup {NoUpdate},
         mailboxFull' \in BOOLEAN, lost' \in BOOLEAN, spoiled' \in SUBSET Paths
  PROVE  TypeInv'
<1>0. /\ pc' \in {"start", "wait", "checked", "asleep", "settings", "builtIn", "flag", "take"}
      /\ pc' = "start" => pc = "start"
      /\ UNCHANGED <<file, header, savedWith, wanted, settingsDirty, reloads, crashes, configuredPath,
                     generation, asked, outlineGeneration, shown, device>>
      /\ work' = to
  BY DEF WorkStep, TypeInv, TypeOK, config, renderer
<1>1. generation' <= reloads' \/ (generation' = reloads' + 1 /\ ~settingsDirty' /\ pc' # "start")
  BY <1>0 DEF TypeInv, WorkOK
<1>2. pending' \in Work /\ pending'.step = "idle" /\ pending'.code = NoCode
      /\ (pending' # NoWork => pending'.path \in Paths)
  BY NoWorkIsWork DEF TypeInv, WorkOK
<1>3. WorkOK'
  BY <1>0, <1>1, <1>2 DEF TypeInv, WorkOK
<1>4. /\ pending'.generation \in Generation
      /\ work'.step # "idle" => work'.path \in Paths /\ work'.generation \in Generation
      /\ work'.step \in {"idle", "load", "found", "compile", "include", "compiled", "store",
                         "renameCode", "renameMeta", "publish"}
  BY <1>3 DEF WorkOK, Work
<1> QED
  BY <1>0, <1>3, <1>4 DEF TypeInv, TypeOK, Entry

LEMMA WorkerTypeInv ==
  ASSUME TypeInv, WorkerNext
  PROVE  TypeInv'
<1> USE DEF mail
<1>0. /\ cache \in [Paths -> Entry] /\ file \in [Paths -> Version]
      /\ mailbox \in Update \cup {NoUpdate} /\ mailboxFull \in BOOLEAN /\ lost \in BOOLEAN
      /\ spoiled \in SUBSET Paths /\ work \in Work /\ pending \in Work
  BY VersionTypes DEF TypeInv, TypeOK, WorkOK
<1>1. CASE TakeRequest
  <2>1. [pending EXCEPT !.step = "load"] \in Work
    BY <1>0 DEF Work
  <2>2. pending.path \in Paths /\ pending.code = NoCode
    BY <1>1 DEF TakeRequest, TypeInv, WorkOK
  <2>3. [pending EXCEPT !.step = "load"].path = pending.path /\ [pending EXCEPT !.step = "load"].step = "load"
        /\ [pending EXCEPT !.step = "load"].code = pending.code
    BY <1>0 DEF Work
  <2> QED
    BY <1>0, <1>1, <2>1, <2>2, <2>3, WorkStepTypeInv DEF TakeRequest, HasCode
<1>2. CASE LoadCache
  <2>1. work.path \in Paths /\ work.step = "load" /\ work.code = NoCode
    BY <1>2 DEF LoadCache, WorkStep, TypeInv, WorkOK
  <2>2. CASE Hit(work.path)
    <3> DEFINE to == [At("found") EXCEPT !.code = cache[work.path].code]
    <3>1. cache[work.path].code \in Bytecode
      BY <2>1, <2>2, VersionTypes DEF Hit
    <3>2. to \in Work /\ to.step = "found" /\ to.path = work.path /\ to.code \in Bytecode
      BY <3>1, AtFields, CodeTypes DEF Work
    <3>3. WorkStep("load", to)
      BY <1>2, <2>2 DEF LoadCache
    <3> HIDE DEF to
    <3> QED
      BY <1>0, <1>2, <2>1, <3>2, <3>3, WorkStepTypeInv DEF LoadCache
  <2>3. CASE ~Hit(work.path)
    <3>1. WorkStep("load", At("compile"))
      BY <1>2, <2>3 DEF LoadCache
    <3> QED
      BY <1>0, <1>2, <2>1, <3>1, AtFields, WorkStepTypeInv DEF LoadCache, HasCode
  <2> QED
    BY <2>2, <2>3
<1>3. CASE CheckFound
  <2> DEFINE to == IF Stale THEN NoWork ELSE At("publish")
  <2>1. WorkStep("found", to)
    BY <1>3 DEF CheckFound
  <2>2. work.path \in Paths /\ work.step = "found" /\ work.code \in Bytecode
    BY <2>1 DEF WorkStep, TypeInv, WorkOK, HasCode
  <2>3. to \in Work /\ (to = NoWork \/ (to.step = "publish" /\ to.path \in Paths /\ to.code \in Bytecode))
    BY <2>2, NoWorkIsWork, AtFields
  <2> HIDE DEF to
  <2> QED
    BY <1>0, <1>3, <2>1, <2>3, NoWorkIsWork, WorkStepTypeInv DEF CheckFound, HasCode
<1>4. CASE ReadSource
  <2>1. work.path \in Paths /\ work.step = "compile" /\ work.code = NoCode
    BY <1>4 DEF ReadSource, WorkStep, TypeInv, WorkOK
  <2>2. /\ UNCHANGED <<cache, pc, pending, mail, lost>> /\ spoiled' \in SUBSET Paths
    BY <1>0, <1>4 DEF ReadSource
  <2>3. CASE WorkStep("compile", At("compiled"))
    BY <1>0, <2>1, <2>2, <2>3, AtFields, WorkStepTypeInv DEF HasCode
  <2>4. CASE WorkStep("compile", [At("include") EXCEPT !.code.source = file[work.path]])
    <3> DEFINE to == [At("include") EXCEPT !.code.source = file[work.path]]
    <3>1. file[work.path] \in Version /\ file[work.path] \in 0..MaxVersion
      BY <1>0, <2>1, VersionBounds
    <3>2. to \in Work /\ to.step = "include" /\ to.path = work.path /\ to.code.source \in Version
      BY <3>1, AtFields DEF Work
    <3>3. WorkStep("compile", to)
      BY <2>4
    <3> HIDE DEF to
    <3> QED
      BY <1>0, <2>1, <2>2, <3>2, <3>3, WorkStepTypeInv DEF HasCode
  <2> QED
    BY <1>4, <2>3, <2>4 DEF ReadSource
<1>5. CASE ReadInclude
  <2>1. work.path \in Paths /\ work.step = "include" /\ work.code.source \in Version /\ header \in Version
    BY <1>5 DEF ReadInclude, WorkStep, TypeInv, TypeOK, WorkOK
  <2>2. PICK to \in {[At("compiled") EXCEPT !.code.header = header], [At("compiled") EXCEPT !.code = NoCode]} :
           WorkStep("include", to)
    BY <1>5 DEF ReadInclude
  <2>3. to \in Work /\ to.step = "compiled" /\ to.path = work.path /\ to.code \in Bytecode \cup {NoCode}
    <3>1. CASE to = [At("compiled") EXCEPT !.code.header = header]
      <4>1. header \in 0..MaxVersion
        BY <2>1, VersionBounds
      <4>2. to \in Work /\ to.step = "compiled" /\ to.path = work.path
            /\ to.code = [work.code EXCEPT !.header = header]
        BY <3>1, <4>1, AtFields DEF Work
      <4>3. work.code \in [source : 0..MaxVersion, header : 0..MaxVersion]
        BY <1>0 DEF Work
      <4>4. [work.code EXCEPT !.header = header] \in Bytecode
        BY <2>1, <4>3 DEF Bytecode
      <4> QED
        BY <4>2, <4>4
    <3>2. CASE to = [At("compiled") EXCEPT !.code = NoCode]
      BY <3>2, AtFields, CodeTypes DEF Work
    <3> QED
      BY <2>2, <3>1, <3>2
  <2> QED
    BY <1>0, <1>5, <2>1, <2>2, <2>3, WorkStepTypeInv DEF ReadInclude, HasCode
<1>6. CASE CheckCompiled
  <2> DEFINE to == IF Stale \/ work.code = NoCode THEN NoWork ELSE At("store")
  <2>1. WorkStep("compiled", to) /\ lost' \in BOOLEAN
    BY <1>6 DEF CheckCompiled
  <2>2. work.path \in Paths /\ work.step = "compiled" /\ work.code \in Bytecode \cup {NoCode}
    BY <2>1 DEF WorkStep, TypeInv, WorkOK
  <2>3. to \in Work /\ (to = NoWork \/ (to.step = "store" /\ to.path \in Paths /\ to.code \in Bytecode))
    BY <2>2, NoWorkIsWork, AtFields
  <2> HIDE DEF to
  <2> QED
    BY <1>0, <1>6, <2>1, <2>3, NoWorkIsWork, WorkStepTypeInv DEF CheckCompiled, HasCode
<1>7. CASE WriteTemporaries
  <2>1. work.path \in Paths /\ work.step = "store" /\ work.code \in Bytecode
    BY <1>7 DEF WriteTemporaries, WorkStep, TypeInv, WorkOK, HasCode
  <2>2. file[work.path] \in 0..MaxVersion
    BY <1>0, <2>1, VersionBounds
  <2>3. PICK to \in {[At("renameCode") EXCEPT !.meta = file[work.path]], At("publish")} : WorkStep("store", to)
    BY <1>7 DEF WriteTemporaries
  <2>4. to \in Work /\ to.step \in {"renameCode", "publish"} /\ to.path = work.path /\ to.code = work.code
    BY <2>2, <2>3, AtFields DEF Work
  <2> QED
    BY <1>0, <1>7, <2>1, <2>3, <2>4, WorkStepTypeInv DEF WriteTemporaries
<1>8. CASE RenameCode
  <2>1. WorkStep("renameCode", At("renameMeta"))
    BY <1>8 DEF RenameCode
  <2>2. work.path \in Paths /\ work.step = "renameCode" /\ work.code \in Bytecode
    BY <2>1 DEF WorkStep, TypeInv, WorkOK, HasCode
  <2>3. PICK code \in {work.code, NoCode, cache[work.path].code} :
          /\ cache' = [cache EXCEPT ![work.path].code = code]
          /\ spoiled' = IF code \in {NoCode, work.code} THEN spoiled ELSE spoiled \cup {work.path}
    BY <1>8 DEF RenameCode
  <2>4. code \in Bytecode \cup {NoCode}
    BY <2>2, <2>3, VersionTypes
  <2>5. cache' \in [Paths -> Entry] /\ spoiled' \in SUBSET Paths
    BY <1>0, <2>2, <2>3, <2>4 DEF Entry
  <2> QED
    BY <1>0, <1>8, <2>1, <2>2, <2>5, AtFields, WorkStepTypeInv DEF RenameCode
<1>9. CASE RenameMeta
  <2>1. WorkStep("renameMeta", At("publish"))
    BY <1>9 DEF RenameMeta
  <2>2. work.path \in Paths /\ work.step = "renameMeta" /\ work.code \in Bytecode /\ work.meta \in 0..MaxVersion
    BY <1>0, <2>1 DEF WorkStep, TypeInv, WorkOK, HasCode, Work
  <2>3. PICK meta \in {work.meta, 0, cache[work.path].meta} : cache' = [cache EXCEPT ![work.path].meta = meta]
    BY <1>9 DEF RenameMeta
  <2>4. meta \in 0..MaxVersion
    BY <1>0, <2>2, <2>3, Bounds DEF Entry
  <2>5. cache' \in [Paths -> Entry]
    BY <1>0, <2>2, <2>3, <2>4 DEF Entry
  <2> QED
    BY <1>0, <1>9, <2>1, <2>2, <2>5, AtFields, WorkStepTypeInv DEF RenameMeta
<1>10. CASE PublishInstall
  <2>1. WorkStep("publish", NoWork) /\ pc' \in {pc, "wait"}
    BY <1>10 DEF PublishInstall, Notify
  <2>2. work.path \in Paths /\ work.code \in Bytecode /\ work.generation \in Generation
    BY <1>0, <2>1 DEF WorkStep, TypeInv, WorkOK, HasCode, Work
  <2>3. [shader |-> [path |-> work.path, code |-> work.code], generation |-> work.generation] \in Update
    BY <2>2 DEF Update, Shader
  <2>4. mailbox' \in Update \cup {NoUpdate} /\ mailboxFull' \in BOOLEAN /\ lost' \in BOOLEAN
    BY <1>10, <2>3 DEF PublishInstall, Publish
  <2> QED
    BY <1>0, <1>10, <2>1, <2>4, NoWorkIsWork, WorkStepTypeInv DEF PublishInstall, HasCode
<1> QED
  BY <1>1, <1>2, <1>3, <1>4, <1>5, <1>6, <1>7, <1>8, <1>9, <1>10 DEF WorkerNext

LEMMA NextTypeInv == TypeInv /\ [Next]_vars => TypeInv'
<1>1. ASSUME TypeInv, UNCHANGED vars
      PROVE  TypeInv'
  BY <1>1 DEF TypeInv, TypeOK, WorkOK, vars, disk, config, manager, mail, renderer
<1> QED
  BY <1>1, UserTypeInv, LoopTypeInv, WorkerTypeInv DEF Next

-------------------------------------------------------------------------------
\* Why CacheTruthful is kept.

LEMMA InitCacheInv == Init => CacheInv
<1> SUFFICES ASSUME Init PROVE CacheInv
  OBVIOUS
<1>1. work.step = "idle"
  BY DEF Init, NoWork
<1>2. \A p \in Paths : cache[p].meta = 0 /\ cache[p].code = NoCode /\ file[p] = 1 /\ savedWith[p] = 1 /\ header = 1
  BY DEF Init
<1> QED
  BY <1>1, <1>2 DEF CacheInv, CacheTruthful, Hit

LEMMA OtherCacheInv ==
  ASSUME TypeInv, CacheInv,
         \/ \E p \in Paths \cup {NoPath} : PublishSettings(p)
         \/ Crash \/ LoopNext \/ OtherWork \/ Stirred \/ ResetDevice \/ LoseDevice \/ UNCHANGED vars
  PROVE  CacheInv'
<1>1. UNCHANGED disk /\ work' \in {work, NoWork}
  BY DEF PublishSettings, Crash, LoopNext, ApplySettings, PublishBuiltIn, CleanSettings, TakeFlag,
         TakeUpdate, ResetDevice, LoseDevice, TestPredicate, FallAsleep, OtherWork, Stirred, vars
<1>2. UNCHANGED <<file, header, cache, savedWith, spoiled>>
  BY <1>1 DEF disk
<1>3. CASE work' = work
  BY <1>2, <1>3 DEF CacheInv, CacheTruthful, Hit, Fresh
<1>4. CASE work' = NoWork
  BY <1>2, <1>4, NoWorkIsWork DEF CacheInv, CacheTruthful, Hit, Fresh
<1> QED
  BY <1>1, <1>3, <1>4

LEMMA IncludeCacheInv ==
  ASSUME TypeInv, CacheInv, EditInclude
  PROVE  CacheInv'
<1>1. header' = header + 1 /\ UNCHANGED <<file, cache, savedWith, spoiled, work>>
  BY DEF EditInclude
<1>2. \A p \in Paths : savedWith[p] <= header'
  BY <1>1, VersionTypes DEF CacheInv
<1> QED
  BY <1>1, <1>2 DEF CacheInv, CacheTruthful, Hit, Fresh

LEMMA EditCacheInv ==
  ASSUME TypeInv, CacheInv, NEW p \in Paths, EditShader(p)
  PROVE  CacheInv'
<1>1. /\ file' = [file EXCEPT ![p] = @ + 1]
      /\ savedWith' = [savedWith EXCEPT ![p] = header]
      /\ UNCHANGED <<header, cache, work>>
      /\ spoiled' = IF Compiling(p) THEN spoiled \cup {p} ELSE spoiled
  BY DEF EditShader
<1>2. \A q \in Paths : /\ file[q] <= file'[q]
                       /\ q # p => file'[q] = file[q] /\ savedWith'[q] = savedWith[q]
                       /\ q = p => file'[q] = file[q] + 1 /\ savedWith'[q] = header
  BY <1>1, VersionTypes
<1>3. \A q \in Paths : cache'[q].meta <= file'[q] /\ savedWith'[q] <= header'
  BY <1>1, <1>2, VersionTypes DEF CacheInv
<1>4. ~Hit(p)'
  BY <1>1, <1>2, VersionTypes DEF CacheInv, Hit
<1>5. \A q \in Paths : q # p => (Hit(q)' <=> Hit(q)) /\ \A code : Fresh(q, code)' <=> Fresh(q, code)
  BY <1>1, <1>2 DEF Hit, Fresh
<1>6. CacheTruthful'
  BY <1>1, <1>2, <1>4, <1>5 DEF CacheInv, CacheTruthful
<1>7. work'.step = "compile" => ~Hit(work.path)'
  BY <1>1, <1>4, <1>5, VersionTypes DEF CacheInv
<1>8. work'.step \in {"renameCode", "renameMeta"} =>
        cache'[work'.path].meta <= work'.meta /\ work'.meta <= file'[work'.path]
  BY <1>1, <1>2, VersionTypes DEF CacheInv
<1>9. work'.path \notin spoiled' =>
        /\ work'.step = "include" => work'.code.source = file'[work'.path]
        /\ work'.step = "compiled" => work'.code = NoCode \/ Fresh(work.path, work.code)'
        /\ work'.step = "store" => Fresh(work.path, work.code)'
        /\ work'.step \in {"renameCode", "renameMeta"} /\ work'.meta = file'[work'.path] =>
             Fresh(work.path, work.code)'
        /\ work'.step = "renameMeta" => cache'[work'.path].code \in {NoCode, work'.code}
  <2> SUFFICES ASSUME work.path \notin spoiled'
      PROVE /\ work.step = "include" => work.code.source = file'[work.path]
            /\ work.step = "compiled" => work.code = NoCode \/ Fresh(work.path, work.code)'
            /\ work.step = "store" => Fresh(work.path, work.code)'
            /\ work.step \in {"renameCode", "renameMeta"} /\ work.meta = file'[work.path] =>
                 Fresh(work.path, work.code)'
            /\ work.step = "renameMeta" => cache[work.path].code \in {NoCode, work.code}
    BY <1>1
  <2>1. work.path \notin spoiled /\ ~(work.path = p /\ Compiling(p))
    BY <1>1
  <2>2. CASE work.path = p
    <3>1. work.step \notin {"include", "compiled", "store"}
      BY <2>1, <2>2 DEF Compiling
    <3>2. work.step \in {"renameCode", "renameMeta"} => work.meta # file'[work.path]
      BY <1>2, <2>2, VersionTypes DEF CacheInv
    <3> QED
      BY <2>1, <3>1, <3>2 DEF CacheInv
  <2>3. CASE work.path # p
    <3>1. CASE work.step = "idle"
      BY <3>1
    <3>2. CASE work.step # "idle"
      <4>1. work.path \in Paths
        BY <3>2, VersionTypes
      <4>2. file'[work.path] = file[work.path] /\ savedWith'[work.path] = savedWith[work.path]
        BY <1>2, <2>3, <4>1
      <4>3. Fresh(work.path, work.code)' <=> Fresh(work.path, work.code)
        BY <1>1, <4>2 DEF Fresh
      <4> QED
        BY <2>1, <4>2, <4>3 DEF CacheInv
    <3> QED
      BY <3>1, <3>2
  <2> QED
    BY <2>2, <2>3
<1> QED
  BY <1>1, <1>3, <1>6, <1>7, <1>8, <1>9 DEF CacheInv

LEMMA WorkerCacheInv ==
  ASSUME TypeInv, CacheInv, WorkerNext
  PROVE  CacheInv'
<1>0. UNCHANGED <<file, header, savedWith>> /\ (work.step # "idle" => work.path \in Paths)
  <2>1. PICK from, to : WorkStep(from, to)
    BY DEF WorkerNext, TakeRequest, LoadCache, CheckFound, ReadSource, ReadInclude, CheckCompiled,
           WriteTemporaries, RenameCode, RenameMeta, PublishInstall
  <2> QED
    BY <2>1, VersionTypes DEF WorkStep
<1>a. /\ \A p \in Paths : cache[p].meta <= file[p] /\ savedWith[p] <= header
      /\ CacheTruthful
  BY DEF CacheInv
<1>b. (\A p \in Paths : \A code : Fresh(p, code)' <=> Fresh(p, code)) /\ (UNCHANGED cache => \A p : Hit(p)' <=> Hit(p))
  BY <1>0 DEF Fresh, Hit
\* Nothing is promised of work that is about to be looked up, published or dropped.
<1>1. ASSUME UNCHANGED <<cache, spoiled>>, work'.step \in {"idle", "load", "found", "publish"}
      PROVE  CacheInv'
  BY <1>0, <1>1, <1>a DEF CacheInv, CacheTruthful, Hit
<1>2. CASE TakeRequest
  BY <1>1, <1>2 DEF TakeRequest, WorkStep, TypeInv, WorkOK, Work
<1>3. CASE LoadCache
  <2>1. UNCHANGED <<cache, spoiled>> /\ work.step = "load"
    BY <1>3 DEF LoadCache, WorkStep
  <2>2. CASE Hit(work.path)
    <3>1. work'.step = "found"
      BY <1>3, <2>2, AtFields DEF LoadCache, WorkStep, Work
    <3> QED
      BY <1>1, <2>1, <3>1
  <2>3. CASE ~Hit(work.path)
    <3>1. work'.step = "compile" /\ work'.path = work.path
      BY <1>3, <2>3, AtFields DEF LoadCache, WorkStep
    <3> QED
      BY <1>0, <1>a, <1>b, <2>1, <2>3, <3>1 DEF CacheInv, CacheTruthful, Hit
  <2> QED
    BY <2>2, <2>3
<1>4. CASE CheckFound
  <2>1. UNCHANGED <<cache, spoiled>> /\ (work' = NoWork \/ work' = At("publish"))
    BY <1>4 DEF CheckFound, WorkStep
  <2> QED
    BY <1>1, <2>1, NoWorkIsWork, AtFields
<1>5. CASE ReadSource
  <2>1. UNCHANGED cache /\ work.step = "compile" /\ work.code = NoCode /\ spoiled' = spoiled \ {work.path}
    BY <1>5 DEF ReadSource, WorkStep, TypeInv, WorkOK
  <2>2. ~Hit(work.path) /\ work.path \in Paths
    BY <1>0, <2>1 DEF CacheInv
  <2>3. work'.path = work.path
        /\ (\/ work'.step = "compiled" /\ work'.code = NoCode
            \/ work'.step = "include" /\ work'.code.source = file[work.path])
    <3>1. CASE work' = At("compiled")
      BY <2>1, <3>1, AtFields
    <3>2. CASE work' = [At("include") EXCEPT !.code.source = file[work.path]]
      BY <3>2, AtFields DEF Work
    <3> QED
      BY <1>5, <3>1, <3>2 DEF ReadSource, WorkStep
  <2>4. CacheTruthful'
    BY <1>0, <1>a, <2>1, <2>2 DEF CacheTruthful, Hit
  <2> QED
    BY <1>0, <1>a, <2>1, <2>3, <2>4 DEF CacheInv
<1>6. CASE ReadInclude
  <2>1. UNCHANGED <<cache, spoiled>> /\ work.step = "include" /\ work.path \in Paths
    BY <1>0, <1>6 DEF ReadInclude, WorkStep
  <2>2. work'.step = "compiled" /\ work'.path = work.path
        /\ (work'.code = NoCode \/ (work'.code.source = work.code.source /\ work'.code.header = header))
    <3>1. CASE work' = [At("compiled") EXCEPT !.code.header = header]
      BY <3>1, AtFields DEF Work
    <3>2. CASE work' = [At("compiled") EXCEPT !.code = NoCode]
      BY <3>2, AtFields DEF Work
    <3> QED
      BY <1>6, <3>1, <3>2 DEF ReadInclude, WorkStep
  <2>3. work.path \notin spoiled => work'.code = NoCode \/ Fresh(work.path, work'.code)
    BY <1>a, <2>1, <2>2, VersionTypes DEF CacheInv, Fresh
  <2> QED
    BY <1>0, <1>a, <2>1, <2>2, <2>3 DEF CacheInv, CacheTruthful, Hit, Fresh
<1>7. CASE CheckCompiled
  <2>1. UNCHANGED <<cache, spoiled>> /\ work.step = "compiled" /\ work.path \in Paths
    BY <1>0, <1>7 DEF CheckCompiled, WorkStep
  <2>2. CASE work' = NoWork
    BY <1>1, <2>1, <2>2, NoWorkIsWork
  <2>3. CASE work' # NoWork
    <3>1. work'.step = "store" /\ work'.path = work.path /\ work'.code = work.code /\ work.code # NoCode
      BY <1>7, <2>3, AtFields DEF CheckCompiled, WorkStep
    <3>2. work.path \notin spoiled => Fresh(work.path, work.code)
      BY <2>1, <3>1 DEF CacheInv
    <3> QED
      BY <1>0, <1>a, <2>1, <3>1, <3>2 DEF CacheInv, CacheTruthful, Hit, Fresh
  <2> QED
    BY <2>2, <2>3
<1>8. CASE WriteTemporaries
  <2>1. UNCHANGED <<cache, spoiled>> /\ work.step = "store" /\ work.path \in Paths
    BY <1>0, <1>8 DEF WriteTemporaries, WorkStep
  <2>2. CASE work' = At("publish")
    BY <1>1, <2>1, <2>2, AtFields
  <2>3. CASE work' = [At("renameCode") EXCEPT !.meta = file[work.path]]
    <3>1. work'.step = "renameCode" /\ work'.path = work.path /\ work'.code = work.code
          /\ work'.meta = file[work.path]
      BY <2>3, AtFields DEF Work
    <3>2. work.path \notin spoiled => Fresh(work.path, work.code)
      BY <2>1 DEF CacheInv
    <3>3. cache[work.path].meta <= file[work.path] /\ file[work.path] <= file[work.path]
      BY <1>a, <2>1, VersionTypes
    <3> QED
      BY <1>0, <1>a, <2>1, <3>1, <3>2, <3>3 DEF CacheInv, CacheTruthful, Hit, Fresh
  <2> QED
    BY <1>8, <2>2, <2>3 DEF WriteTemporaries, WorkStep
<1>9. CASE RenameCode
  <2>1. /\ work.step = "renameCode" /\ work.path \in Paths
        /\ work'.step = "renameMeta" /\ work'.path = work.path /\ work'.code = work.code /\ work'.meta = work.meta
    BY <1>0, <1>9, AtFields DEF RenameCode, WorkStep
  <2>2. PICK code \in {work.code, NoCode, cache[work.path].code} :
          /\ cache' = [cache EXCEPT ![work.path].code = code]
          /\ spoiled' = IF code \in {NoCode, work.code} THEN spoiled ELSE spoiled \cup {work.path}
    BY <1>9 DEF RenameCode
  <2>3. /\ \A p \in Paths : cache'[p].meta = cache[p].meta
        /\ \A p \in Paths : p # work.path => cache'[p] = cache[p]
        /\ cache'[work.path].code = code
    BY <2>1, <2>2, VersionTypes DEF Entry
  <2>4. cache[work.path].meta <= work.meta /\ work.meta <= file[work.path]
    BY <2>1 DEF CacheInv
  <2>5. work.path \notin spoiled' => work.path \notin spoiled /\ code \in {NoCode, work.code}
    BY <2>2
  <2>6. CacheTruthful'
    <3> SUFFICES ASSUME NEW p \in Paths, p \notin spoiled', Hit(p)'
                 PROVE  cache'[p].code.source = file[p] /\ cache'[p].code.header >= savedWith[p]
      BY <1>0 DEF CacheTruthful
    <3>1. CASE p = work.path
      <4>1. cache[p].meta = file[p] /\ code = work.code /\ p \notin spoiled
        BY <1>0, <2>1, <2>3, <2>5, <3>1 DEF Hit
      <4>2. work.meta = file[p]
        BY <2>1, <2>4, <3>1, <4>1, VersionTypes
      <4>3. Fresh(p, work.code)
        BY <2>1, <3>1, <4>1, <4>2 DEF CacheInv
      <4> QED
        BY <1>0, <2>3, <3>1, <4>1, <4>3 DEF Fresh
    <3>2. CASE p # work.path
      <4>1. Hit(p) /\ p \notin spoiled
        BY <1>0, <2>2, <2>3, <3>2 DEF Hit
      <4> QED
        BY <1>0, <1>a, <2>3, <3>2, <4>1 DEF CacheTruthful, Fresh
    <3> QED
      BY <3>1, <3>2
  <2>7. work.path \notin spoiled' /\ work.meta = file[work.path] => Fresh(work.path, work.code)
    BY <2>1, <2>5 DEF CacheInv
  <2>8. \A p \in Paths : cache'[p].meta <= file'[p] /\ savedWith'[p] <= header'
    BY <1>0, <1>a, <2>3
  <2>9. work.path \notin spoiled' => cache'[work.path].code \in {NoCode, work.code}
    BY <2>3, <2>5
  <2> QED
    BY <1>0, <2>1, <2>3, <2>4, <2>6, <2>7, <2>8, <2>9 DEF CacheInv, Fresh
<1>10. CASE RenameMeta
  <2>1. work.step = "renameMeta" /\ work.path \in Paths /\ work'.step = "publish" /\ UNCHANGED spoiled
    BY <1>0, <1>10, AtFields DEF RenameMeta, WorkStep
  <2>2. PICK meta \in {work.meta, 0, cache[work.path].meta} :
          cache' = [cache EXCEPT ![work.path].meta = meta]
    BY <1>10 DEF RenameMeta
  <2>3. /\ \A p \in Paths : cache'[p].code = cache[p].code
        /\ \A p \in Paths : p # work.path => cache'[p] = cache[p]
        /\ cache'[work.path].meta = meta
    BY <2>1, <2>2, VersionTypes DEF Entry
  <2>4. cache[work.path].meta <= work.meta /\ work.meta <= file[work.path]
    BY <2>1 DEF CacheInv
  <2>5. meta <= work.meta
    BY <2>1, <2>2, <2>4, VersionTypes
  <2>6. \A p \in Paths : cache'[p].meta <= file'[p] /\ savedWith'[p] <= header'
    <3>1. meta <= file[work.path]
      BY <2>1, <2>2, <2>4, <2>5, VersionTypes
    <3> QED
      BY <1>0, <1>a, <2>3, <3>1
  <2>7. CacheTruthful'
    <3> SUFFICES ASSUME NEW p \in Paths, p \notin spoiled', Hit(p)'
                 PROVE  cache'[p].code.source = file[p] /\ cache'[p].code.header >= savedWith[p]
      BY <1>0 DEF CacheTruthful
    <3>1. CASE p = work.path
      <4>1. meta = file[p] /\ cache[p].code # NoCode /\ p \notin spoiled
        BY <1>0, <2>1, <2>3, <3>1 DEF Hit
      <4>2. work.meta = file[p]
        BY <2>1, <2>2, <2>4, <2>5, <3>1, <4>1, VersionTypes
      <4>3. cache[p].code = work.code /\ Fresh(p, work.code)
        BY <2>1, <3>1, <4>1, <4>2 DEF CacheInv
      <4> QED
        BY <1>0, <2>3, <4>3 DEF Fresh
    <3>2. CASE p # work.path
      <4>1. Hit(p) /\ p \notin spoiled
        BY <1>0, <2>1, <2>3, <3>2 DEF Hit
      <4> QED
        BY <1>0, <1>a, <2>3, <3>2, <4>1 DEF CacheTruthful, Fresh
    <3> QED
      BY <3>1, <3>2
  <2> QED
    BY <2>1, <2>6, <2>7 DEF CacheInv
<1>11. CASE PublishInstall
  BY <1>1, <1>11, NoWorkIsWork DEF PublishInstall, WorkStep
<1> QED
  BY <1>2, <1>3, <1>4, <1>5, <1>6, <1>7, <1>8, <1>9, <1>10, <1>11 DEF WorkerNext

-------------------------------------------------------------------------------
\* Why ShownIsConfigured is kept.

LEMMA UpdateTypes ==
  ASSUME TypeInv
  PROVE  /\ generation \in Nat /\ outlineGeneration \in Nat
         /\ asked.source \in Nat /\ asked.header \in Nat
         /\ pending.generation \in Nat /\ work.generation \in Nat
         /\ mailbox # NoUpdate => mailbox.generation \in Nat /\ mailbox.shader \in Shader \cup {BuiltIn}
         /\ configuredPath \in Paths \cup {NoPath}
<1>1. asked.source \in Nat /\ asked.header \in Nat
  BY CodeTypes, VersionBounds DEF TypeInv, TypeOK
<1> QED
  BY <1>1, Bounds DEF TypeInv, TypeOK, WorkOK, Work, Generation, Update

LEMMA InitUpdateInv == Init => UpdateInv
<1> SUFFICES ASSUME Init PROVE UpdateInv
  OBVIOUS
<1>1. work.step = "idle" /\ work = NoWork
  BY DEF Init, NoWork
<1> QED
  BY <1>1 DEF Init, UpdateInv, WorkInv, Newest, Shows, Settled

\* A step that keeps everything an update depends on, but may excuse more of it.
LEMMA KeepsUpdateInv ==
  ASSUME UpdateInv,
         UNCHANGED <<manager, mail, work, renderer>>,
         spoiled \subseteq spoiled',
         configuredPath # NoPath =>
           asked.source <= file'[configuredPath] /\ asked.header <= savedWith'[configuredPath],
         (pc = "builtIn") <=> (pc' = "builtIn"), pc = "take" => pc' = "take",
         ~lost' => ~lost
  PROVE  UpdateInv'
<1>1. UNCHANGED <<configuredPath, generation, pending, asked, mailbox, mailboxFull, work,
                  outlineGeneration, shown>>
  BY DEF manager, mail, renderer
<1>2. WorkInv'
  BY <1>1 DEF UpdateInv, WorkInv, NoOlder
<1>3. Shows(mailbox.shader) => Shows(mailbox.shader)'
  BY <1>1 DEF Shows, NoOlder
<1>4. Shows(shown) => Shows(shown)'
  BY <1>1 DEF Shows, NoOlder
<1>5. ~lost' => Newest'
  BY <1>1, <1>4 DEF UpdateInv, Newest
<1> QED
  BY <1>1, <1>2, <1>3, <1>5 DEF UpdateInv, Settled

LEMMA UserUpdateInv ==
  ASSUME TypeInv, CacheInv, UpdateInv, UserNext \/ UNCHANGED vars
  PROVE  UpdateInv'
<1>0. configuredPath # NoPath =>
        /\ configuredPath \in Paths
        /\ asked.source <= file[configuredPath] /\ asked.header <= savedWith[configuredPath]
  BY UpdateTypes DEF UpdateInv, WorkInv
<1>1. ASSUME NEW p \in Paths, EditShader(p)
      PROVE  UpdateInv'
  <2>1. UNCHANGED <<manager, mail, work, renderer, pc, lost>> /\ spoiled \subseteq spoiled'
    BY <1>1 DEF EditShader
  <2>2. ASSUME configuredPath # NoPath
        PROVE  asked.source <= file'[configuredPath] /\ asked.header <= savedWith'[configuredPath]
    <3>1. \A q \in Paths : file[q] <= file'[q] /\ savedWith[q] <= savedWith'[q]
      BY <1>1, VersionTypes DEF EditShader, CacheInv
    <3>2. /\ file[configuredPath] \in Nat /\ file'[configuredPath] \in Nat
          /\ savedWith[configuredPath] \in Nat /\ savedWith'[configuredPath] \in Nat
      BY <1>0, <1>1, <2>2, VersionTypes DEF EditShader
    <3> QED
      BY <1>0, <2>2, <3>1, <3>2, UpdateTypes
  <2> QED
    BY <2>1, <2>2, KeepsUpdateInv
<1>2. CASE EditInclude \/ (\E p \in Paths \cup {NoPath} : PublishSettings(p)) \/ UNCHANGED vars
  <2>1. UNCHANGED <<manager, mail, work, renderer, lost, file, savedWith, spoiled>>
    BY <1>2 DEF EditInclude, PublishSettings, vars, disk
  <2>2. ((pc = "builtIn") <=> (pc' = "builtIn")) /\ (pc = "take" => pc' = "take")
    BY <1>2 DEF EditInclude, PublishSettings, Notify, vars
  <2> QED
    BY <1>0, <2>1, <2>2, KeepsUpdateInv
<1>3. CASE Crash
  <2>1. work'.step = "idle" /\ work' = NoWork
    BY <1>3, NoWorkIsWork DEF Crash
  <2> QED
    BY <1>3, <2>1 DEF Crash, UpdateInv, WorkInv, Newest, Shows, Settled
<1> QED
  BY <1>1, <1>2, <1>3 DEF UserNext

LEMMA LoopUpdateInv ==
  ASSUME TypeInv, UpdateInv, LoopNext \/ OtherWork \/ Stirred \/ ResetDevice \/ LoseDevice
  PROVE  UpdateInv'
<1>0. configuredPath # NoPath =>
        asked.source <= file[configuredPath] /\ asked.header <= savedWith[configuredPath]
  BY DEF UpdateInv, WorkInv
<1>1. CASE ApplySettings
  <2>1. UNCHANGED <<file, savedWith, spoiled, work, mailbox, mailboxFull, outlineGeneration, shown>>
        /\ pc \in {"start", "settings"}
    BY <1>1 DEF ApplySettings, disk, mail, renderer
  <2>2. CASE wanted = NoPath /\ configuredPath = NoPath
    <3>1. UNCHANGED <<configuredPath, generation, pending, asked, lost>> /\ pc' \in {"wait", "flag"}
      BY <1>1, <2>2 DEF ApplySettings, manager
    <3>2. WorkInv' /\ Settled'
      BY <2>1, <2>2, <3>1 DEF UpdateInv, WorkInv, Settled, NoOlder
    <3> QED
      BY <2>1, <2>2, <3>1, <3>2 DEF UpdateInv, Newest, Shows
  <2>3. CASE ~(wanted = NoPath /\ configuredPath = NoPath)
    <3>1. configuredPath' = wanted /\ generation' = generation + 1 /\ ~lost'
      BY <1>1, <2>3 DEF ApplySettings
    <3>0. pc = "start" => wanted # NoPath
      BY <2>3 DEF TypeInv, WorkOK
    <3>2. /\ wanted = NoPath => pending' = NoWork /\ pc' = "builtIn"
          /\ wanted # NoPath => /\ asked' = [source |-> file[wanted], header |-> savedWith[wanted]]
                               /\ pc' \in {"wait", "flag"}
                               /\ pending'.path = wanted /\ pending'.generation = generation + 1
                               /\ pending' # NoWork
      <4>1. wanted # NoPath =>
              pending' = [step |-> "idle", path |-> wanted, generation |-> generation + 1, code |-> NoCode, meta |-> 0]
        BY <1>1, <2>3 DEF ApplySettings, NoWork
      <4>2. wanted # NoPath => asked' = [source |-> file[wanted], header |-> savedWith[wanted]] /\ pc' \in {"wait", "flag"}
        BY <1>1, <2>3 DEF ApplySettings
      <4>3. wanted = NoPath => pending' = NoWork /\ pc' = "builtIn"
        BY <1>1, <2>1, <2>3, <3>0 DEF ApplySettings
      <4> QED
        BY <4>1, <4>2, <4>3 DEF NoWork
    <3>3. mailbox # NoUpdate => mailboxFull /\ mailbox.generation < generation'
      BY <2>1, <3>1, UpdateTypes DEF UpdateInv
    <3>4. outlineGeneration < generation' /\ (work.step # "idle" => work.generation < generation')
      BY <3>1, UpdateTypes DEF UpdateInv, WorkInv
    <3>5. wanted # NoPath => asked'.source <= file[wanted] /\ asked'.header <= savedWith[wanted]
      BY <3>2, VersionTypes DEF TypeInv, TypeOK
    <3>6. Newest'
      BY <3>2 DEF Newest
    <3>7. outlineGeneration <= generation' /\ outlineGeneration # generation'
          /\ (work.step # "idle" => work.generation <= generation' /\ work.generation # generation')
          /\ (mailbox # NoUpdate => mailbox.generation <= generation' /\ mailbox.generation # generation')
      BY <3>1, <3>3, <3>4, UpdateTypes
    <3>8. WorkInv'
      BY <2>1, <3>1, <3>2, <3>5, <3>7 DEF WorkInv
    <3> QED
      BY <2>1, <3>1, <3>2, <3>3, <3>6, <3>7, <3>8 DEF UpdateInv
  <2> QED
    BY <2>2, <2>3
<1>2. CASE PublishBuiltIn
  <2>1. /\ UNCHANGED <<file, savedWith, spoiled, configuredPath, generation, pending, asked, work,
                       outlineGeneration, shown>>
        /\ pc = "builtIn" /\ pc' = "flag" /\ mailboxFull'
        /\ mailbox' = [shader |-> BuiltIn, generation |-> generation]
    BY <1>2 DEF PublishBuiltIn, Publish, disk, manager, renderer
  <2>2. mailbox'.shader = BuiltIn /\ mailbox'.generation = generation /\ mailbox' # NoUpdate
    <3>1. mailbox' \in Update
      BY <2>1 DEF Update, TypeInv, TypeOK
    <3> QED
      BY <2>1, <3>1, Bounds
  <2>3. configuredPath = NoPath
    BY <2>1 DEF UpdateInv
  <2>4. WorkInv' /\ Settled'
    BY <2>1, <2>3 DEF UpdateInv, WorkInv, Settled, NoOlder
  <2> QED
    BY <2>1, <2>2, <2>3, <2>4, UpdateTypes DEF UpdateInv, Newest, Shows
<1>3. CASE Moves
  <2>1. UNCHANGED <<manager, mail, work, renderer, lost, file, savedWith, spoiled>>
    BY <1>3, MovesMove DEF disk
  <2>2. pc \notin {"builtIn", "take"} /\ pc' \notin {"builtIn", "take"}
    BY <1>3, MovesMove DEF Moves, TestPredicate, FallAsleep, OtherWork, Stirred, CleanSettings
  <2> QED
    BY <1>0, <2>1, <2>2, KeepsUpdateInv
<1>4. CASE TakeFlag
  <2>1. /\ UNCHANGED <<file, savedWith, spoiled, configuredPath, generation, pending, asked, work, mailbox,
                       outlineGeneration, shown, lost>>
        /\ pc = "flag" /\ pc' = (IF mailboxFull THEN "take" ELSE "wait")
    BY <1>4 DEF TakeFlag, disk, manager, renderer
  <2>2. mailbox # NoUpdate => pc' = "take"
    BY <2>1 DEF UpdateInv
  <2>3. pc' # "builtIn"
    BY <2>1
  <2>4. WorkInv'
    BY <2>1 DEF UpdateInv, WorkInv, NoOlder
  <2> QED
    BY <2>1, <2>2, <2>3, <2>4 DEF UpdateInv, Newest, Shows, NoOlder, Settled
<1>5. ASSUME NEW installs \in BOOLEAN, TakeUpdate(installs)
      PROVE  UpdateInv'
  <2>1. /\ UNCHANGED <<file, savedWith, spoiled, configuredPath, generation, pending, asked, work>>
        /\ pc = "take" /\ pc' = "wait" /\ mailbox' = NoUpdate
    BY <1>5 DEF TakeUpdate, disk, manager
  <2>a. WorkInv' /\ (Settled' <=> Settled)
    BY <2>1 DEF UpdateInv, WorkInv, NoOlder, Settled
  <2>2. CASE mailbox # NoUpdate /\ mailbox.generation >= outlineGeneration /\ device /\ installs
    <3>1. shown' = mailbox.shader /\ outlineGeneration' = mailbox.generation /\ lost' = lost
      BY <1>5, <2>2 DEF TakeUpdate
    <3>2. mailbox.generation # generation => outlineGeneration # generation
      BY <2>2, UpdateTypes DEF UpdateInv
    <3>3. ~lost => Newest'
      BY <2>1, <2>2, <3>1, <3>2 DEF UpdateInv, Newest, Shows, NoOlder
    <3> QED
      BY <2>1, <2>a, <2>2, <3>1, <3>3 DEF UpdateInv
  <2>3. CASE ~(mailbox # NoUpdate /\ mailbox.generation >= outlineGeneration /\ device /\ installs)
    <3>1. /\ UNCHANGED <<shown, outlineGeneration>>
          /\ lost' = (lost \/ (mailbox # NoUpdate /\ mailbox.generation >= outlineGeneration))
      BY <1>5, <2>3 DEF TakeUpdate
    <3>2. ~lost' => ~lost /\ (mailbox # NoUpdate => mailbox.generation # generation)
      BY <3>1, UpdateTypes DEF UpdateInv
    <3>3. ~lost' => Newest'
      BY <2>1, <3>1, <3>2 DEF UpdateInv, Newest, Shows, NoOlder
    <3> QED
      BY <2>1, <2>a, <3>1, <3>3 DEF UpdateInv
  <2> QED
    BY <2>2, <2>3
<1>6. CASE ResetDevice \/ LoseDevice
  <2>1. /\ UNCHANGED <<file, savedWith, spoiled, pc, configuredPath, generation, pending, asked, work,
                       mailbox, mailboxFull, outlineGeneration>>
        /\ lost' = (lost \/ shown' # shown)
    BY <1>6 DEF ResetDevice, LoseDevice, disk, manager, mail
  <2>2. ~lost' => Newest'
    BY <2>1 DEF UpdateInv, Newest, Shows, NoOlder
  <2>3. WorkInv'
    BY <2>1 DEF UpdateInv, WorkInv, NoOlder
  <2> QED
    BY <2>1, <2>2, <2>3 DEF UpdateInv, Shows, NoOlder, Settled
<1> QED
  BY <1>1, <1>2, <1>3, <1>4, <1>5, <1>6 DEF LoopNext, Moves

\* The steps between the request and the mailbox: the work keeps its generation or is dropped.
WorkIsRight ==
  work.step # "idle" =>
    /\ work.generation <= generation
    /\ work.generation = generation =>
         /\ pending = NoWork
         /\ work.path = configuredPath
         /\ work.step \in HasCode /\ configuredPath \notin spoiled => NoOlder(work.code, asked)
         /\ work.step = "include" => work.code.source >= asked.source
         /\ work.step = "compiled" => work.code = NoCode \/ NoOlder(work.code, asked)

LEMMA WorkUpdateInv ==
  ASSUME TypeInv, UpdateInv,
         UNCHANGED <<file, savedWith, configuredPath, generation, pending, asked, renderer, mail, pc>>,
         \/ work' = NoWork /\ (lost' \/ work.generation # generation)
         \/ work'.step # "idle" /\ work'.generation = work.generation /\ WorkIsRight',
         work.step # "idle", lost => lost'
  PROVE  UpdateInv'
<1>1. /\ UNCHANGED <<configuredPath, generation, pending, asked, outlineGeneration, shown, mailbox, mailboxFull, pc>>
      /\ work # NoWork
  BY NoWorkIsWork DEF renderer, mail
<1>2. WorkIsRight'
  BY NoWorkIsWork DEF WorkIsRight
<1>3. WorkInv'
  BY <1>1, <1>2 DEF UpdateInv, WorkInv, WorkIsRight
<1>4. Settled => configuredPath = NoPath
  BY <1>1 DEF Settled
<1>6. mailbox # NoUpdate /\ mailbox.generation = generation => Shows(mailbox.shader)' /\ Settled'
  <2> SUFFICES ASSUME mailbox # NoUpdate, mailbox.generation = generation
               PROVE  Shows(mailbox.shader)' /\ Settled'
    OBVIOUS
  <2>1. Shows(mailbox.shader) /\ configuredPath = NoPath
    BY <1>4 DEF UpdateInv
  <2> QED
    BY <1>1, <2>1 DEF Shows, Settled
<1>7. outlineGeneration = generation => Settled' /\ (Shows(shown) => Shows(shown)')
  BY <1>1, <1>4 DEF UpdateInv, Shows, Settled
<1>8. ~lost' => Newest'
  BY <1>1, <1>7 DEF UpdateInv, Newest
<1> QED
  BY <1>1, <1>3, <1>6, <1>7, <1>8 DEF UpdateInv

LEMMA WorkerUpdateInv ==
  ASSUME TypeInv, CacheInv, UpdateInv, WorkerNext
  PROVE  UpdateInv'
<1>0. /\ UNCHANGED <<file, savedWith, header, configuredPath, generation, asked, renderer, outlineGeneration, shown>>
      /\ work.step # "idle" => work.path \in Paths
      /\ pc = "builtIn" => configuredPath = NoPath
      /\ configuredPath # NoPath =>
           asked.source <= file[configuredPath] /\ asked.header <= savedWith[configuredPath]
      /\ outlineGeneration <= generation
  <2>1. PICK from, to : WorkStep(from, to)
    BY DEF WorkerNext, TakeRequest, LoadCache, CheckFound, ReadSource, ReadInclude, CheckCompiled,
           WriteTemporaries, RenameCode, RenameMeta, PublishInstall
  <2> QED
    BY <2>1, VersionTypes DEF WorkStep, renderer, UpdateInv, WorkInv
<1>a. work.step # "idle" => WorkIsRight
  BY DEF UpdateInv, WorkInv, WorkIsRight
<1>b. \A p \in Paths : savedWith[p] \in Nat /\ savedWith[p] <= header /\ file[p] \in Nat
  BY VersionTypes DEF CacheInv
<1>c. header \in Nat /\ asked.source \in Nat /\ asked.header \in Nat /\ NoCode \notin Bytecode
  BY VersionTypes, UpdateTypes, CodeTypes
<1>1. CASE TakeRequest
  <2>1. /\ pending # NoWork /\ work.step = "idle" /\ pending' = NoWork
        /\ UNCHANGED <<spoiled, mail, mailbox, mailboxFull, lost, pc>>
        /\ work' = [pending EXCEPT !.step = "load"]
    BY <1>1 DEF TakeRequest, WorkStep, mail
  <2>2. work'.step = "load" /\ work'.path = pending.path /\ work'.generation = pending.generation
    BY <2>1 DEF TypeInv, WorkOK, Work
  <2>3. work'.path = configuredPath /\ work'.generation = generation
    BY <2>1, <2>2 DEF UpdateInv, WorkInv
  <2>4. WorkInv'
    BY <1>0, <2>1, <2>2, <2>3, UpdateTypes DEF WorkInv, HasCode
  <2>5. Settled => configuredPath = NoPath
    BY <2>1 DEF Settled
  <2>6. configuredPath = NoPath => Settled'
    BY <1>0 DEF Settled
  <2>7. Newest'
    BY <1>0, <2>2, <2>3 DEF Newest
  <2>9. Shows(mailbox.shader) => Shows(mailbox.shader)'
    BY <1>0, <2>1 DEF Shows, NoOlder
  <2> QED
    BY <1>0, <2>1, <2>4, <2>5, <2>6, <2>7, <2>9 DEF UpdateInv
<1>2. CASE LoadCache
  <2>1. /\ UNCHANGED <<pending, mail, pc, spoiled, lost>> /\ work.step = "load" /\ work.path \in Paths
        /\ work' = IF ~Hit(work.path) THEN At("compile") ELSE [At("found") EXCEPT !.code = cache[work.path].code]
    BY <1>0, <1>2 DEF LoadCache, WorkStep
  <2>2. CASE ~Hit(work.path)
    <3>1. work'.step = "compile" /\ work'.path = work.path /\ work'.generation = work.generation
      BY <2>1, <2>2, AtFields
    <3>2. WorkIsRight'
      BY <1>0, <1>a, <2>1, <3>1 DEF WorkIsRight, HasCode
    <3> QED
      BY <1>0, <2>1, <3>1, <3>2, WorkUpdateInv
  <2>3. CASE Hit(work.path)
    <3>1. /\ work'.step = "found" /\ work'.path = work.path /\ work'.generation = work.generation
          /\ work'.code = cache[work.path].code
      BY <2>1, <2>3, AtFields DEF Work
    <3>2. work.path \notin spoiled => Fresh(work.path, work'.code)
      BY <2>1, <2>3, <3>1 DEF CacheInv, CacheTruthful, Fresh
    <3>3. work'.code.source \in Nat /\ work'.code.header \in Nat
      BY <2>1, <3>1, VersionTypes, CodeTypes, VersionBounds
    <3>4. work.path = configuredPath /\ configuredPath \notin spoiled => NoOlder(work'.code, asked)
      BY <1>0, <1>b, <1>c, <2>1, <3>2, <3>3, Bounds DEF Fresh, NoOlder
    <3>5. WorkIsRight'
      BY <1>0, <1>a, <2>1, <3>1, <3>4 DEF WorkIsRight, NoOlder
    <3> QED
      BY <1>0, <2>1, <3>1, <3>5, WorkUpdateInv
  <2> QED
    BY <2>2, <2>3
<1>3. CASE CheckFound
  <2>1. /\ UNCHANGED <<pending, mail, pc, spoiled, lost>> /\ work.step = "found"
        /\ work' = IF work.generation # generation THEN NoWork ELSE At("publish")
    BY <1>3 DEF CheckFound, WorkStep, Stale
  <2>2. CASE work.generation # generation
    BY <1>0, <2>1, <2>2, WorkUpdateInv
  <2>3. CASE work.generation = generation
    <3>1. /\ work'.step = "publish" /\ work'.path = work.path /\ work'.generation = work.generation
          /\ work'.code = work.code
      BY <2>1, <2>3, AtFields
    <3>2. WorkIsRight'
      BY <1>0, <1>a, <2>1, <3>1 DEF WorkIsRight, HasCode, NoOlder
    <3> QED
      BY <1>0, <2>1, <3>1, <3>2, WorkUpdateInv
  <2> QED
    BY <2>2, <2>3
<1>4. CASE ReadSource
  <2>1. UNCHANGED <<pending, mail, pc, lost>> /\ work.step = "compile" /\ work.path \in Paths /\ work.code = NoCode
    BY <1>0, <1>4 DEF ReadSource, WorkStep, TypeInv, WorkOK
  <2>2. /\ work'.path = work.path /\ work'.generation = work.generation
        /\ \/ work'.step = "compiled" /\ work'.code = NoCode
           \/ work'.step = "include" /\ work'.code.source = file[work.path]
    <3>1. CASE work' = At("compiled")
      BY <2>1, <3>1, AtFields
    <3>2. CASE work' = [At("include") EXCEPT !.code.source = file[work.path]]
      BY <3>2, AtFields DEF Work
    <3> QED
      BY <1>4, <3>1, <3>2 DEF ReadSource, WorkStep
  <2>3. work.path = configuredPath => file[work.path] >= asked.source
    BY <1>0, <1>b, <1>c, <2>1, Bounds
  <2>4. WorkIsRight'
    BY <1>0, <1>a, <2>1, <2>2, <2>3 DEF WorkIsRight, HasCode
  <2> QED
    BY <1>0, <2>1, <2>2, <2>4, WorkUpdateInv
<1>5. CASE ReadInclude
  <2>1. UNCHANGED <<pending, mail, pc, spoiled, lost>> /\ work.step = "include" /\ work.path \in Paths
    BY <1>0, <1>5 DEF ReadInclude, WorkStep
  <2>2. work'.step = "compiled" /\ work'.path = work.path /\ work'.generation = work.generation
        /\ (work'.code = NoCode \/ (work'.code.source = work.code.source /\ work'.code.header = header))
    <3>1. CASE work' = [At("compiled") EXCEPT !.code.header = header]
      BY <3>1, AtFields DEF Work
    <3>2. CASE work' = [At("compiled") EXCEPT !.code = NoCode]
      BY <3>2, AtFields DEF Work
    <3> QED
      BY <1>5, <3>1, <3>2 DEF ReadInclude, WorkStep
  <2>3. work.path = configuredPath => header >= asked.header
    BY <1>0, <1>b, <1>c, <2>1, Bounds
  <2>4. work.generation = generation => work.path = configuredPath /\ work.code.source >= asked.source /\ pending = NoWork
    BY <1>a, <2>1 DEF WorkIsRight
  <2>5. work.generation = generation => work'.code = NoCode \/ NoOlder(work'.code, asked)
    BY <2>2, <2>3, <2>4 DEF NoOlder
  <2>6. WorkIsRight'
    BY <1>0, <1>a, <2>1, <2>2, <2>4, <2>5 DEF WorkIsRight, HasCode, NoOlder
  <2> QED
    BY <1>0, <2>1, <2>2, <2>6, WorkUpdateInv
<1>6. CASE CheckCompiled
  <2>1. /\ UNCHANGED <<pending, mail, pc, spoiled>> /\ work.step = "compiled"
        /\ work' = IF work.generation # generation \/ work.code = NoCode THEN NoWork ELSE At("store")
        /\ lost' = (lost \/ (work.generation = generation /\ work.code = NoCode))
    BY <1>6 DEF CheckCompiled, WorkStep, Stale
  <2>2. CASE work.generation # generation \/ work.code = NoCode
    BY <1>0, <2>1, <2>2, WorkUpdateInv
  <2>3. CASE work.generation = generation /\ work.code # NoCode
    <3>1. /\ work'.step = "store" /\ work'.path = work.path /\ work'.generation = work.generation
          /\ work'.code = work.code
      BY <2>1, <2>3, AtFields
    <3>2. WorkIsRight'
      BY <1>0, <1>a, <2>1, <2>3, <3>1 DEF WorkIsRight, HasCode, NoOlder
    <3> QED
      BY <1>0, <2>1, <3>1, <3>2, WorkUpdateInv
  <2> QED
    BY <2>2, <2>3
<1>7. CASE WriteTemporaries
  <2>1. UNCHANGED <<pending, mail, pc, spoiled, lost>> /\ work.step = "store"
    BY <1>7 DEF WriteTemporaries, WorkStep
  <2>2. /\ work'.step \in {"renameCode", "publish"} /\ work'.path = work.path
        /\ work'.generation = work.generation /\ work'.code = work.code
    BY <1>7, AtFields DEF WriteTemporaries, WorkStep, Work
  <2>3. WorkIsRight'
    BY <1>0, <1>a, <2>1, <2>2 DEF WorkIsRight, HasCode, NoOlder
  <2> QED
    BY <1>0, <2>1, <2>2, <2>3, WorkUpdateInv
<1>8. CASE RenameCode \/ RenameMeta
  <2>1. /\ UNCHANGED <<pending, mail, pc, lost>> /\ work.step \in {"renameCode", "renameMeta"}
        /\ work' = At("renameMeta") \/ work' = At("publish")
        /\ spoiled \subseteq spoiled'
    BY <1>8 DEF RenameCode, RenameMeta, WorkStep
  <2>2. /\ work'.step \in {"renameMeta", "publish"} /\ work'.path = work.path
        /\ work'.generation = work.generation /\ work'.code = work.code
    BY <2>1, AtFields
  <2>3. WorkIsRight'
    BY <1>0, <1>a, <2>1, <2>2 DEF WorkIsRight, HasCode, NoOlder
  <2> QED
    BY <1>0, <2>1, <2>2, <2>3, WorkUpdateInv
<1>9. CASE PublishInstall
  <2> DEFINE update == [shader |-> [path |-> work.path, code |-> work.code], generation |-> work.generation]
  <2>1. /\ UNCHANGED <<pending, spoiled>> /\ work.step = "publish" /\ work' = NoWork
        /\ mailbox' = update /\ mailboxFull'
        /\ lost' = (lost \/ (mailbox # NoUpdate /\ mailbox.generation > work.generation))
        /\ (pc' = "builtIn" <=> pc = "builtIn")
    BY <1>9 DEF PublishInstall, Publish, Notify, WorkStep
  <2>2. /\ update.shader.path = work.path /\ update.shader.code = work.code
        /\ update.generation = work.generation /\ update # NoUpdate /\ update.shader # BuiltIn
    <3>1. work.path \in Paths /\ work.code \in Bytecode /\ work.generation \in Generation
      BY <1>0, <2>1 DEF TypeInv, WorkOK, HasCode, Work
    <3>2. update.shader \in Shader /\ update \in Update
      BY <3>1 DEF Update, Shader
    <3> QED
      BY <3>2, Bounds
  <2> HIDE DEF update
  <2>3. /\ work.generation <= generation
        /\ work.generation = generation =>
             /\ work.path = configuredPath /\ pending = NoWork
             /\ configuredPath \notin spoiled => NoOlder(work.code, asked)
    BY <1>a, <2>1 DEF WorkIsRight, HasCode
  <2>4. work.generation = generation => Shows(mailbox.shader)' /\ Settled'
    BY <1>0, <2>1, <2>2, <2>3, Bounds DEF Shows, NoOlder, Settled
  <2>5. ~lost' => Newest'
    <3>1. CASE work.generation = generation
      BY <1>0, <2>1, <2>2, <3>1 DEF Newest
    <3>2. CASE work.generation # generation
      <4>1. ~lost' => ~lost /\ ~(mailbox # NoUpdate /\ mailbox.generation > work.generation)
        BY <2>1
      <4>2. mailbox # NoUpdate /\ mailbox.generation = generation => mailbox.generation > work.generation
        BY <2>3, <3>2, UpdateTypes
      <4>3. Shows(shown) => Shows(shown)'
        BY <1>0, <2>1 DEF Shows, NoOlder
      <4> QED
        BY <1>0, <2>1, <3>2, <4>1, <4>2, <4>3 DEF UpdateInv, Newest
    <3> QED
      BY <3>1, <3>2
  <2>6. WorkInv'
    BY <1>0, <2>1, NoWorkIsWork DEF UpdateInv, WorkInv
  <2>7. outlineGeneration = generation => Settled'
    BY <1>0, <2>1 DEF UpdateInv, Settled
  <2> QED
    BY <1>0, <2>1, <2>2, <2>3, <2>4, <2>5, <2>6, <2>7 DEF UpdateInv
<1> QED
  BY <1>1, <1>2, <1>3, <1>4, <1>5, <1>6, <1>7, <1>8, <1>9 DEF WorkerNext

LEMMA UpdateInvConsequence == TypeInv /\ UpdateInv => ShownIsConfigured
<1> SUFFICES ASSUME TypeInv, UpdateInv, AtRest, ~lost
             PROVE  Shows(shown)
  BY DEF ShownIsConfigured
<1>1. pc # "builtIn" /\ pending = NoWork /\ work.step = "idle" /\ mailbox = NoUpdate
  BY NoWorkIsWork DEF AtRest, UpdateInv
<1> QED
  BY <1>1 DEF UpdateInv, Newest

-------------------------------------------------------------------------------
(***************************************************************************)
(* The three parts together are kept by every step: edits, reloads, kills  *)
(* of the process, the overlay loop, the renderer and the compile thread.  *)
(***************************************************************************)
THEOREM Inductive == Spec => []IInv
<1>1. Init => IInv
  BY InitTypeInv, InitCacheInv, InitUpdateInv DEF IInv
<1>2. IInv /\ [Next]_vars => IInv'
  <2> SUFFICES ASSUME IInv, [Next]_vars PROVE IInv'
    OBVIOUS
  <2>1. TypeInv'
    BY NextTypeInv DEF IInv
  <2>2. CacheInv'
    BY OtherCacheInv, IncludeCacheInv, EditCacheInv, WorkerCacheInv DEF IInv, Next, UserNext
  <2>3. UpdateInv'
    BY UserUpdateInv, LoopUpdateInv, WorkerUpdateInv DEF IInv, Next
  <2> QED
    BY <2>1, <2>2, <2>3 DEF IInv
<1> QED
  BY <1>1, <1>2, PTL DEF Spec

(***************************************************************************)
(* The state of the manager, the compile thread, the mailbox and the       *)
(* renderer keeps its types; no generation exceeds the number of           *)
(* configurations published.                                               *)
(***************************************************************************)
THEOREM TypeCorrect == Spec => []TypeOK
<1>1. IInv => TypeOK
  BY DEF IInv, TypeInv
<1> QED
  BY <1>1, Inductive, PTL

(***************************************************************************)
(* A cache entry that cache::Load accepts holds the bytecode of the shader *)
(* file as it is, with the included file no older than the save of the     *)
(* shader file, wherever the process is killed and whichever rename        *)
(* fails.  The two exceptions of CacheTruthful stand: a shader file edited *)
(* between compiling and storing, and old bytecode that could not be       *)
(* replaced; and an edit of the included file alone is not promised.       *)
(***************************************************************************)
THEOREM CacheSafe == Spec => []CacheTruthful
<1>1. IInv => CacheTruthful
  BY DEF IInv, CacheInv
<1> QED
  BY <1>1, Inductive, PTL

(***************************************************************************)
(* When the pipeline has come to rest and the newest update was not lost,  *)
(* the border shows the configured shader, no older than its file, and no  *)
(* older in its includes than the last save of that file, when the         *)
(* configuration was applied (unless CacheTruthful excepts its entry).     *)
(***************************************************************************)
THEOREM ShownSafe == Spec => []ShownIsConfigured
<1>1. IInv => ShownIsConfigured
  BY UpdateInvConsequence DEF IInv
<1> QED
  BY <1>1, Inductive, PTL
===============================================================================
