---------------------------- MODULE OutlinePipeline ----------------------------
(***************************************************************************)
(* The border shader on its way from the configuration to the renderer:    *)
(* the overlay thread hands the configured path to outline::Manager; the   *)
(* compile thread ("SHD") takes the shader from the cache on disk or       *)
(* compiles it; the result travels back through a mailbox of one place.    *)
(* The user edits shader files and the file they #include, and reloads     *)
(* meanwhile; the process may be killed: only files and cache survive.     *)
(***************************************************************************)
EXTENDS Integers

CONSTANTS
  Paths,       \* shader files a configuration may name
  NoPath,      \* an empty shader_path
  BuiltIn,     \* the shader compiled into the program
  NoUpdate,    \* an empty mailbox
  MaxReloads,  \* bound: configurations published in one behaviour
  MaxVersion,  \* bound: versions of a shader file and of the included file
  MaxCrashes   \* bound: kills of the process

ASSUME OutlineAssumption ==
  /\ NoPath \notin Paths
  /\ {MaxReloads, MaxCrashes} \subseteq Nat
  /\ MaxVersion \in Nat \ {0}

Version    == 1..MaxVersion
Generation == 0..(MaxReloads + 1)
Bytecode   == [source : Version, header : Version]   \* of a shader file and what it included
NoCode     == [source |-> 0, header |-> 0]
Shader     == [path : Paths, code : Bytecode]
Update     == [shader : Shader \cup {BuiltIn}, generation : Generation]

ASSUME OutlineNullAssumption == BuiltIn \notin Shader /\ NoUpdate \notin Update

VARIABLES
  file,        \* the version each shader file has on disk (its last_write_time)
  header,      \* the version of the file that every shader file includes
  cache,       \* per shader file: its bytecode, and the version its meta file names, 0 for none
  wanted, settingsDirty, reloads, crashes,
  pc,          \* where OverlayLoop stands: its wait on m_cv, or DrainCommands
  configuredPath, generation, pending,   \* of outline::Manager; a pending generation of 0 is none
  work,        \* what WorkerLoop is at
  mailbox,     \* m_pendingOutlineCommand
  mailboxFull, \* m_outlineCommandPending
  outlineGeneration, shown, device,      \* of OverlayRenderer
  asked,       \* history: file and savedWith when the configuration was applied
  lost,        \* history: the newest update was overwritten, refused or never made
  savedWith,   \* history: version of the included file when each shader file was saved
  spoiled      \* history: shader files whose entry may have bytecode older than its meta file

disk == <<file, header, cache, savedWith, spoiled>>
config == <<wanted, settingsDirty, reloads, crashes>>
manager == <<configuredPath, generation, pending, asked>>
mail == <<mailbox, mailboxFull>>
renderer == <<outlineGeneration, shown, device>>
vars == <<disk, config, pc, manager, work, mail, renderer, lost>>

NoWork == [step |-> "idle", path |-> NoPath, generation |-> 0, code |-> NoCode, meta |-> 0]

Init ==
  /\ file = [p \in Paths |-> 1]
  /\ header = 1
  /\ cache = [p \in Paths |-> [code |-> NoCode, meta |-> 0]]
  /\ savedWith = [p \in Paths |-> 1]
  /\ wanted \in Paths \cup {NoPath}
  /\ reloads = 0
  /\ crashes = 0
  /\ spoiled = {}
  /\ settingsDirty = FALSE
  /\ pc = "start"
  /\ configuredPath = NoPath
  /\ generation = 0
  /\ pending = NoWork
  /\ work = NoWork
  /\ mailbox = NoUpdate
  /\ mailboxFull = FALSE
  /\ outlineGeneration = 0
  /\ shown = BuiltIn
  /\ device = TRUE
  /\ asked = NoCode
  /\ lost = FALSE

-------------------------------------------------------------------------------
\* The source was read, and the time that goes into the meta file was not.
Compiling(p) == work.path = p /\ work.step \in {"include", "compiled", "store"}

EditShader(p) ==
  /\ file[p] < MaxVersion
  /\ file' = [file EXCEPT ![p] = @ + 1]
  /\ savedWith' = [savedWith EXCEPT ![p] = header]
  /\ spoiled' = IF Compiling(p) THEN spoiled \cup {p} ELSE spoiled
  /\ UNCHANGED <<header, cache, config, pc, manager, work, mail, renderer, lost>>

EditInclude ==
  /\ header < MaxVersion
  /\ header' = header + 1
  /\ UNCHANGED <<file, cache, savedWith, spoiled, config, pc, manager, work, mail, renderer, lost>>

\* m_cv.notify_one: a loop that has not gone to sleep yet does not notice it.
Notify == pc' = IF pc = "asleep" THEN "wait" ELSE pc

\* MarkSettingsDirty does not take the mutex of the condition variable.
PublishSettings(p) ==
  /\ reloads < MaxReloads
  /\ reloads' = reloads + 1
  /\ wanted' = p
  /\ settingsDirty' = TRUE
  /\ Notify
  /\ UNCHANGED <<disk, crashes, manager, work, mail, renderer, lost>>

\* Everything but the files starts again from its initial value.
Crash ==
  /\ crashes < MaxCrashes
  /\ crashes' = crashes + 1
  /\ settingsDirty' = FALSE
  /\ pc' = "start"
  /\ configuredPath' = NoPath
  /\ generation' = 0
  /\ pending' = NoWork
  /\ work' = NoWork
  /\ mailbox' = NoUpdate
  /\ mailboxFull' = FALSE
  /\ outlineGeneration' = 0
  /\ shown' = BuiltIn
  /\ device' = TRUE
  /\ asked' = NoCode
  /\ lost' = FALSE
  /\ UNCHANGED <<disk, wanted, reloads>>

-------------------------------------------------------------------------------
(***************************************************************************)
(* m_cv.wait: the predicate is evaluated and the loop goes to sleep under  *)
(* m_mutex, which no notification needs but which the mailbox does.        *)
(***************************************************************************)
\* Mutant: the predicate forgets m_outlineCommandPending.
TestSettingsOnly ==
  /\ pc = "wait"
  /\ pc' = IF settingsDirty THEN "settings" ELSE "checked"
  /\ UNCHANGED <<disk, config, manager, work, mail, renderer, lost>>

TestPredicate ==
  /\ pc = "wait"
  /\ pc' = IF settingsDirty \/ mailboxFull THEN "settings" ELSE "checked"
  /\ UNCHANGED <<disk, config, manager, work, mail, renderer, lost>>

FallAsleep ==
  /\ pc = "checked"
  /\ pc' = "asleep"
  /\ UNCHANGED <<disk, config, manager, work, mail, renderer, lost>>

\* A frame of an interaction does not wait; other commands and results end the wait.
OtherWork ==
  /\ pc = "wait"
  /\ pc' = "settings"
  /\ UNCHANGED <<disk, config, manager, work, mail, renderer, lost>>

\* A notification for something else, or none: the predicate is evaluated again.
Stirred ==
  /\ pc = "asleep"
  /\ pc' = "wait"
  /\ UNCHANGED <<disk, config, manager, work, mail, renderer, lost>>

\* Manager::ApplySettings, called at the start and by DrainCommands for dirty settings.
ApplySettings ==
  /\ pc = "start" \/ (pc = "settings" /\ settingsDirty)
  /\ settingsDirty' = (pc = "start" /\ settingsDirty)
  /\ IF wanted = NoPath /\ configuredPath = NoPath
     THEN UNCHANGED <<manager, lost>>
     ELSE /\ configuredPath' = wanted
          /\ generation' = generation + 1
          /\ lost' = FALSE
          /\ IF wanted = NoPath
             THEN pending' = NoWork /\ asked' = NoCode
             ELSE /\ pending' = [NoWork EXCEPT !.path = wanted, !.generation = generation + 1]
                  /\ asked' = [source |-> file[wanted], header |-> savedWith[wanted]]
  /\ pc' = CASE pc = "start" -> "wait"
             [] wanted = NoPath /\ configuredPath # NoPath -> "builtIn"
             [] OTHER -> "flag"
  /\ UNCHANGED <<disk, wanted, reloads, crashes, work, mail, renderer>>

\* PublishOutlineUpdate: the place is overwritten.
Publish(update) ==
  /\ mailbox' = update
  /\ mailboxFull' = TRUE
  /\ lost' = (lost \/ (mailbox # NoUpdate /\ mailbox.generation > update.generation))

PublishBuiltIn ==
  /\ pc = "builtIn"
  /\ pc' = "flag"
  /\ Publish([shader |-> BuiltIn, generation |-> generation])
  /\ UNCHANGED <<disk, config, manager, work, renderer>>

CleanSettings ==
  /\ pc = "settings"
  /\ ~settingsDirty
  /\ pc' = "flag"
  /\ UNCHANGED <<disk, config, manager, work, mail, renderer, lost>>

\* m_outlineCommandPending is exchanged before the mutex is taken.
TakeFlag ==
  /\ pc = "flag"
  /\ pc' = IF mailboxFull THEN "take" ELSE "wait"
  /\ mailboxFull' = FALSE
  /\ UNCHANGED <<disk, config, manager, work, mailbox, renderer, lost>>

TakeUpdate(installs) ==
  /\ pc = "take"
  /\ pc' = "wait"
  /\ mailbox' = NoUpdate
  /\ IF mailbox # NoUpdate /\ mailbox.generation >= outlineGeneration /\ device /\ installs
     THEN shown' = mailbox.shader /\ outlineGeneration' = mailbox.generation /\ UNCHANGED lost
     ELSE /\ lost' = (lost \/ (mailbox # NoUpdate /\ mailbox.generation >= outlineGeneration))
          /\ UNCHANGED <<shown, outlineGeneration>>
  /\ UNCHANGED <<disk, config, manager, work, mailboxFull, device>>

\* ResetDevice after a failed present keeps the custom shader if it can be installed again.
ResetDevice ==
  /\ pc = "wait"
  /\ device' = TRUE
  /\ shown' \in {shown, BuiltIn}
  /\ lost' = (lost \/ shown' # shown)
  /\ UNCHANGED <<disk, config, pc, manager, work, mail, outlineGeneration>>

\* It fails, and Destroy forgets the bytecode.
LoseDevice ==
  /\ pc = "wait"
  /\ device' = FALSE
  /\ shown' = BuiltIn
  /\ lost' = (lost \/ shown # BuiltIn)
  /\ UNCHANGED <<disk, config, pc, manager, work, mail, outlineGeneration>>

-------------------------------------------------------------------------------
\* One step of WorkerLoop that changes neither the configuration nor the renderer.
WorkStep(from, to) ==
  /\ work.step = from
  /\ work' = to
  /\ UNCHANGED <<file, header, savedWith, config, configuredPath, generation, asked, renderer>>

At(step) == [work EXCEPT !.step = step]

Stale == work.generation # generation

TakeRequest ==
  /\ pending # NoWork
  /\ WorkStep("idle", [pending EXCEPT !.step = "load"])
  /\ pending' = NoWork
  /\ UNCHANGED <<cache, spoiled, pc, mail, lost>>

\* Mutant: the meta file is not compared.
HitWithoutMeta(p) == cache[p].code # NoCode

\* cache::Load: the meta file names the source as it is, whatever became of its includes.
Hit(p) == cache[p].meta = file[p] /\ cache[p].code # NoCode

LoadCache ==
  /\ WorkStep("load", IF ~Hit(work.path) THEN At("compile")
                      ELSE [At("found") EXCEPT !.code = cache[work.path].code])
  /\ UNCHANGED <<cache, spoiled, pc, pending, mail, lost>>

CheckFound ==
  /\ WorkStep("found", IF Stale THEN NoWork ELSE At("publish"))
  /\ UNCHANGED <<cache, spoiled, pc, pending, mail, lost>>

\* Compile reads the source as it is now, or fails.
ReadSource ==
  /\ \/ WorkStep("compile", [At("include") EXCEPT !.code.source = file[work.path]])
     \/ WorkStep("compile", At("compiled"))
  /\ spoiled' = spoiled \ {work.path}
  /\ UNCHANGED <<cache, pc, pending, mail, lost>>

\* D3DCompile has IncludeHandler read the included file, or fails.
ReadInclude ==
  /\ \/ WorkStep("include", [At("compiled") EXCEPT !.code.header = header])
     \/ WorkStep("include", [At("compiled") EXCEPT !.code = NoCode])
  /\ UNCHANGED <<cache, spoiled, pc, pending, mail, lost>>

CheckCompiled ==
  /\ WorkStep("compiled", IF Stale \/ work.code = NoCode THEN NoWork ELSE At("store"))
  /\ lost' = (lost \/ (~Stale /\ work.code = NoCode))
  /\ UNCHANGED <<cache, spoiled, pc, pending, mail>>

(***************************************************************************)
(* cache::Store: two temporary files, the meta file with the time the      *)
(* source has by now, are renamed one after the other.  A rename that      *)
(* fails leaves the old file or none, and Store goes on.                   *)
(***************************************************************************)
WriteTemporaries ==
  /\ \/ WorkStep("store", [At("renameCode") EXCEPT !.meta = file[work.path]])
     \/ WorkStep("store", At("publish"))
  /\ UNCHANGED <<cache, spoiled, pc, pending, mail, lost>>

\* Mutant: the meta file is renamed before the bytecode.
RenameMetaFirst ==
  /\ IF work.meta # 0
     THEN /\ WorkStep("renameCode", [work EXCEPT !.meta = 0])
          /\ cache' = [cache EXCEPT ![work.path].meta = work.meta]
     ELSE /\ WorkStep("renameCode", At("publish"))
          /\ cache' = [cache EXCEPT ![work.path].code = work.code]
  /\ UNCHANGED <<spoiled, pc, pending, mail, lost>>

\* The old bytecode may be in use and stay.
RenameCode ==
  /\ WorkStep("renameCode", At("renameMeta"))
  /\ \E code \in {work.code, NoCode, cache[work.path].code} :
        /\ cache' = [cache EXCEPT ![work.path].code = code]
        /\ spoiled' = IF code \in {NoCode, work.code} THEN spoiled ELSE spoiled \cup {work.path}
  /\ UNCHANGED <<pc, pending, mail, lost>>

RenameMeta ==
  /\ WorkStep("renameMeta", At("publish"))
  /\ \E meta \in {work.meta, 0, cache[work.path].meta} :
        cache' = [cache EXCEPT ![work.path].meta = meta]
  /\ UNCHANGED <<spoiled, pc, pending, mail, lost>>

\* PublishOutlineUpdate waits for m_mutex while the loop evaluates its predicate.
PublishInstall ==
  /\ pc # "checked"
  /\ WorkStep("publish", NoWork)
  /\ Publish([shader |-> [path |-> work.path, code |-> work.code], generation |-> work.generation])
  /\ Notify
  /\ UNCHANGED <<cache, spoiled, pending>>

WorkerNext ==
  \/ TakeRequest \/ LoadCache \/ CheckFound \/ ReadSource \/ ReadInclude \/ CheckCompiled
  \/ WriteTemporaries \/ RenameCode \/ RenameMeta \/ PublishInstall

LoopNext ==
  \/ TestPredicate \/ FallAsleep
  \/ ApplySettings \/ PublishBuiltIn \/ CleanSettings \/ TakeFlag
  \/ \E installs \in BOOLEAN : TakeUpdate(installs)

UserNext ==
  \/ \E p \in Paths : EditShader(p)
  \/ EditInclude
  \/ \E p \in Paths \cup {NoPath} : PublishSettings(p)
  \/ Crash

Next ==
  \/ UserNext
  \/ LoopNext
  \/ OtherWork \/ Stirred \/ ResetDevice \/ LoseDevice
  \/ WorkerNext

Spec == Init /\ [][Next]_vars

\* Both threads are scheduled, and who waits for m_mutex gets it; nothing else need happen.
FairSpec == Spec /\ WF_vars(LoopNext) /\ WF_vars(WorkerNext) /\ SF_vars(PublishInstall)

-------------------------------------------------------------------------------
TypeOK ==
  /\ file \in [Paths -> Version]
  /\ header \in Version
  /\ cache \in [Paths -> [code : Bytecode \cup {NoCode}, meta : 0..MaxVersion]]
  /\ wanted \in Paths \cup {NoPath}
  /\ configuredPath \in Paths \cup {NoPath}
  /\ settingsDirty \in BOOLEAN
  /\ reloads \in 0..MaxReloads
  /\ crashes \in 0..MaxCrashes
  /\ pc \in {"start", "wait", "checked", "asleep", "settings", "builtIn", "flag", "take"}
  /\ generation \in Generation
  /\ pending.generation \in Generation
  /\ work.step \in {"idle", "load", "found", "compile", "include", "compiled", "store",
                    "renameCode", "renameMeta", "publish"}
  /\ work.step # "idle" => work.path \in Paths /\ work.generation \in Generation
  /\ mailbox \in Update \cup {NoUpdate}
  /\ mailboxFull \in BOOLEAN
  /\ outlineGeneration \in Generation
  /\ shown \in Shader \cup {BuiltIn}
  /\ device \in BOOLEAN
  /\ asked \in Bytecode \cup {NoCode}
  /\ lost \in BOOLEAN
  /\ savedWith \in [Paths -> Version]
  /\ spoiled \in SUBSET Paths

(***************************************************************************)
(* A cache entry that cache::Load accepts holds the bytecode of the shader *)
(* file as it is, with the included file as it was when the shader file    *)
(* was saved or later, whenever the process is killed and whatever fails:  *)
(* saving a shader file is enough to have its includes read again.  It is  *)
(* not enough to save the included file: the meta file does not name it.   *)
(* Entries are excepted whose shader file was edited between the compiler  *)
(* reading it and Store reading its time, or whose old bytecode stayed     *)
(* while the meta file was replaced: these the code does get wrong.        *)
(***************************************************************************)
CacheTruthful ==
  \A p \in Paths \ spoiled :
    Hit(p) => cache[p].code.source = file[p] /\ cache[p].code.header >= savedWith[p]

(***************************************************************************)
(* When everything has come to rest the border shows the configured        *)
(* shader, compiled from its file as it was when the configuration was     *)
(* applied or later, and from includes no older than that save of the      *)
(* file.  Excepted are a newest update that was lost (its compilation or   *)
(* installation failed, an older one overwrote it, or the device was lost) *)
(* and the contents of an entry that CacheTruthful excepts.                *)
(***************************************************************************)
AtRest ==
  /\ pc \in {"wait", "checked", "asleep"}
  /\ ~settingsDirty /\ ~mailboxFull /\ pending = NoWork /\ work = NoWork

NoOlder(code, than) == code.source >= than.source /\ code.header >= than.header

Shows(shader) ==
  IF configuredPath = NoPath THEN shader = BuiltIn
  ELSE /\ shader # BuiltIn
       /\ shader.path = configuredPath
       /\ configuredPath \notin spoiled => NoOlder(shader.code, asked)

ShownIsConfigured == AtRest /\ ~lost => Shows(shown)

(***************************************************************************)
(* However reloads, edits and kills of the process interleave with the two *)
(* threads, the pipeline comes to rest, with one exception: a reload whose *)
(* notification falls between predicate and sleep is not noticed while     *)
(* nothing else wakes the loop.  No shader update is ever left unnoticed.  *)
(***************************************************************************)
ComesToRest == ~AtRest ~> (AtRest \/ [](pc = "asleep" /\ settingsDirty))
===============================================================================
