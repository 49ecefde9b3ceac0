------------------------------ MODULE Embedder ------------------------------
(***************************************************************************)
(* The embedder of src/EmbeddedDart/EmbeddedDart.cpp: main() on its own    *)
(* thread, and the five callbacks the Dart VM calls on its pool threads:   *)
(* CreateIsolateGroupAndSetup, OnIsolateInitialize, OnIsolateShutdown,     *)
(* DeleteIsolateData and DeleteIsolateGroupData.                           *)
(*                                                                         *)
(* The VM is not in the repository.  Its side (actions VM..., and the      *)
(* effect of the Dart_ calls) is the smallest one the code relies on: who  *)
(* is inside which isolate, which scopes are open, which isolates it was   *)
(* handed by a callback, and the order of the three shutdown callbacks.    *)
(***************************************************************************)
EXTENDS Naturals, FiniteSets

CONSTANTS
    Main,        \* the thread main() runs on
    VMThreads,   \* the threads of the VM's pool
    Isolates,    \* names for Dart_Isolate, each with its IsolateData; an
                 \* isolate group, its IsolateGroupData and kernel_buffer_
                 \* go by the name of the isolate the group began with
    None,        \* NULL
    Failing,     \* the calls that may return an error
    SpawnUri,    \* whether Dart code may call Isolate.spawnUri
    Debug,       \* whether assert() is compiled in
    VMTerminates \* whether the VM is relied on to end an isolate whose
                 \* initialization failed: dart_api.h says that it will
                 \* (703-704) and that the callback must have (690-691)

Threads == VMThreads \cup {Main}

Calls == {"InitOnce", "Dart_Initialize", "ReadScript", "CreateGroup",
          "CompileAndReadScript", "LoadScript", "MakeRunnable",
          "KernelMakeRunnable", "ChildMakeRunnable", "SetupCoreLibraries",
          "StringToCString", "ResolveScript", "VmServiceSetup"}

ASSUME EmbedderAssumption ==
    /\ Main \notin VMThreads
    /\ None \notin Isolates
    /\ Failing \subseteq Calls
    /\ SpawnUri \in BOOLEAN
    /\ Debug \in BOOLEAN
    /\ VMTerminates \in BOOLEAN

VARIABLES
    vm,        \* "down", "up" or "stopping" (inside Dart_Cleanup)
    boot,      \* system isolates the VM has yet to ask for
    exit,      \* "running", what main returned, or "abort"
    pc,        \* where each thread is in the embedder
    cur,       \* Dart_CurrentIsolate() of each thread
    frame,     \* the locals of the callback each thread is in
    state,     \* "unused", "alive" or "dead", of each isolate
    group,     \* the group each isolate was created in
    runnable,  \* the isolates Dart_IsolateMakeRunnable succeeded on
    handed,    \* the isolates a callback has handed to the VM to run
    scopes,    \* open API scopes of each isolate
    idata,     \* IsolateData: "none", "live", "freed", "twice"
    gdata,     \* IsolateGroupData: likewise
    kbuf       \* kernel_buffer_: "null", "unowned", "owned", "freed"

process == <<vm, boot, exit>>
threadVars == <<pc, cur, frame>>
lifecycle == <<state, group, runnable, handed>>
isolateVars == <<lifecycle, scopes>>
memory == <<idata, gdata, kbuf>>
vars == <<vm, boot, exit, pc, cur, frame, state, group, runnable, handed,
          scopes, idata, gdata, kbuf>>

-----------------------------------------------------------------------------
(* Control: one label per point where another thread's step may come in.   *)

MainLabels == {"m_platform", "m_initialize", "m_loop", "m_cleanup", "m_wait"}
CreateLabels == {"ci_read", "ci_create", "ci_compile", "ci_load",
                 "ci_runnable"}
KernelLabels == {"ki_create", "ki_setup", "ki_runnable"}
ServiceLabels == {"si_create", "si_setup"}
InitLabels == {"oi_start", "oi_setup", "oi_runnable"}
ShutdownLabels == {"sd_callback", "sd_data", "sd_group"}
Labels == MainLabels \cup CreateLabels \cup KernelLabels \cup ServiceLabels
          \cup InitLabels \cup ShutdownLabels
          \cup {"idle", "run", "returned", "answered"}

\* The callback's isolate and group, what it answers, and where a shutdown
\* of that isolate goes on.
Frame == [isolate : Isolates \cup {None}, group : Isolates \cup {None},
          answer : {"none", "null", "isolate", "true", "false"},
          next : {"idle", "returned", "m_cleanup"}]

FrameOf(i, g) == [isolate |-> i, group |-> g, answer |-> "none",
                  next |-> "idle"]

NoFrame == FrameOf(None, None)

\* Thread t goes to label l.
Goto(t, l) == pc' = [pc EXCEPT ![t] = l]

\* Thread t returns r from its callback, or from CreateIsolate.
Answer(t, l, r) == /\ Goto(t, l)
                   /\ frame' = [frame EXCEPT ![t].answer = r]

MayFail(call) == call \in Failing

Me(t) == frame[t].isolate
MyGroup(t) == frame[t].group

\* `delete p`: the second delete of an object is remembered.
Deleted(s) == CASE s = "none" -> "none"
                [] s = "live" -> "freed"
                [] OTHER -> "twice"

\* An isolate nobody has used, for the VM to create.
Fresh(i) == /\ state[i] = "unused"
            /\ idata[i] = "none" /\ gdata[i] = "none"
            /\ \A t \in Threads : Me(t) # i

\* BOUND: names are kept for the system isolates still to boot.
Room == Cardinality({i \in Isolates : Fresh(i)}) > Cardinality(boot)

Begin(t, l, i, g) ==
    /\ Goto(t, l)
    /\ frame' = [frame EXCEPT ![t] = FrameOf(i, g)]

Init ==
    /\ vm = "down"
    /\ boot = {}
    /\ exit = "running"
    /\ pc = [t \in Threads |-> IF t = Main THEN "m_platform" ELSE "idle"]
    /\ cur = [t \in Threads |-> None]
    /\ \E i \in Isolates :
         frame = [t \in Threads |->
                    IF t = Main THEN FrameOf(i, i) ELSE NoFrame]
    /\ state = [i \in Isolates |-> "unused"]
    /\ group = [i \in Isolates |-> None]
    /\ runnable = {}
    /\ handed = {}
    /\ scopes = [i \in Isolates |-> 0]
    /\ idata = [i \in Isolates |-> "none"]
    /\ gdata = [g \in Isolates |-> "none"]
    /\ kbuf = [g \in Isolates |-> "null"]

-----------------------------------------------------------------------------
(* Calls into the VM, as the embedder sees them.                           *)

\* Dart_CreateIsolateGroup...: the new isolate is the current one.
CreateGroup(t) ==
    /\ state' = [state EXCEPT ![Me(t)] = "alive"]
    /\ group' = [group EXCEPT ![Me(t)] = MyGroup(t)]
    /\ cur' = [cur EXCEPT ![t] = Me(t)]

EnterScope(t) == scopes' = [scopes EXCEPT ![Me(t)] = @ + 1]
ExitScope(t) == scopes' = [scopes EXCEPT ![Me(t)] = @ - 1]
EnterIsolate(t) == cur' = [cur EXCEPT ![t] = Me(t)]
ExitIsolate(t) == cur' = [cur EXCEPT ![t] = None]

\* The process dies: an assert fails, or the VM aborts on a call that needs
\* a current isolate.
Abort == /\ exit' = "abort"
         /\ UNCHANGED <<vm, boot, threadVars, isolateVars, memory>>

\* Where a shutdown goes on; a VM thread that is done forgets its callback.
Continue(t) ==
    /\ Goto(t, frame[t].next)
    /\ frame' = IF frame[t].next = "idle" THEN [frame EXCEPT ![t] = NoFrame]
                ELSE frame

\* Dart_ShutdownIsolate, first half: OnIsolateShutdown runs in the isolate
\* and opens and closes one scope; then every scope is exited and there is
\* no current isolate.
OnIsolateShutdown(t) ==
    /\ pc[t] = "sd_callback"
    /\ cur[t] = Me(t)
    /\ scopes' = [scopes EXCEPT ![Me(t)] = 0]
    /\ ExitIsolate(t)
    /\ Goto(t, "sd_data")
    /\ UNCHANGED <<process, frame, lifecycle, memory>>

\* MUTANT: the data of the isolate takes the data of its group with it.
DeleteIsolateData_FreesGroup(t) ==
    LET i == Me(t) IN
    /\ pc[t] = "sd_data"
    /\ idata' = [idata EXCEPT ![i] = Deleted(@)]
    /\ gdata' = [gdata EXCEPT ![group[i]] = Deleted(@)]
    /\ state' = [state EXCEPT ![i] = "dead"]
    /\ runnable' = runnable \ {i}
    /\ handed' = handed \ {i}
    /\ Continue(t)
    /\ UNCHANGED <<process, cur, group, scopes, kbuf>>

\* Second half: DeleteIsolateData.  The isolate that leaves its group last
\* takes the group with it.
DeleteIsolateData(t) ==
    LET i == Me(t) IN
    /\ pc[t] = "sd_data"
    /\ idata' = [idata EXCEPT ![i] = Deleted(@)]
    /\ state' = [state EXCEPT ![i] = "dead"]
    /\ runnable' = runnable \ {i}
    /\ handed' = handed \ {i}
    /\ IF \E j \in Isolates \ {i} : state[j] = "alive" /\ group[j] = group[i]
       THEN Continue(t)
       ELSE Goto(t, "sd_group") /\ UNCHANGED frame
    /\ UNCHANGED <<process, cur, group, scopes, gdata, kbuf>>

\* ~IsolateGroupData drops the kernel buffer with free or with the no-op.
DeleteIsolateGroupData(t) ==
    LET g == MyGroup(t) IN
    /\ pc[t] = "sd_group"
    /\ gdata' = [gdata EXCEPT ![g] = Deleted(@)]
    /\ kbuf' = [kbuf EXCEPT ![g] = IF @ = "owned" THEN "freed" ELSE @]
    /\ Continue(t)
    /\ UNCHANGED <<process, cur, isolateVars, idata>>

\* Dart_ShutdownIsolate, to go on at `next` with `answer`.
ShutdownIsolate(t, next, answer) ==
    /\ Goto(t, "sd_callback")
    /\ frame' = [frame EXCEPT ![t].next = next, ![t].answer = answer]

-----------------------------------------------------------------------------
(* CreateIsolate, called by main and by CreateIsolateGroupAndSetup.        *)

\* The script is read, or not; either way the new group data takes what
\* was read with SetKernelBufferNewlyOwned.
ReadScript(t) ==
    /\ pc[t] = "ci_read"
    /\ \E buffer \in {"owned"} \cup
                     (IF MayFail("ReadScript") THEN {"null"} ELSE {}) :
         kbuf' = [kbuf EXCEPT ![MyGroup(t)] = buffer]
    /\ gdata' = [gdata EXCEPT ![MyGroup(t)] = "live"]
    /\ Goto(t, "ci_create")
    /\ UNCHANGED <<process, cur, frame, isolateVars, idata>>

\* IsolateData, the isolate, its scope and SetupCoreLibraries, whose result
\* is unused.
CreateFromKernel(t) ==
    /\ pc[t] = "ci_create"
    /\ idata' = [idata EXCEPT ![Me(t)] = "live"]
    /\ CreateGroup(t)
    /\ EnterScope(t)
    /\ Goto(t, IF kbuf[MyGroup(t)] = "null" THEN "ci_compile" ELSE "ci_load")
    /\ UNCHANGED <<process, frame, runnable, handed, gdata, kbuf>>

\* No isolate: the assert fails, and without it Dart_EnterScope does.
CreateFromKernelFails(t) ==
    /\ pc[t] \in {"ci_create", "si_create"}
    /\ MayFail("CreateGroup")
    /\ Abort

CompileAndReadScript(t) ==
    /\ pc[t] = "ci_compile"
    /\ kbuf' = [kbuf EXCEPT ![MyGroup(t)] = "owned"]
    /\ Goto(t, "ci_load")
    /\ UNCHANGED <<process, cur, frame, isolateVars, idata, gdata>>

\* MUTANT: one more Dart_ExitScope than scopes were entered.
CompileFails_TwoExits(t) ==
    /\ pc[t] = "ci_compile"
    /\ MayFail("CompileAndReadScript")
    /\ scopes' = [scopes EXCEPT ![Me(t)] = @ - 2]
    /\ ShutdownIsolate(t, "returned", "null")
    /\ UNCHANGED <<process, cur, lifecycle, memory>>

\* MUTANT: the isolate is not shut down.
CompileFails_Returns(t) ==
    /\ pc[t] = "ci_compile"
    /\ MayFail("CompileAndReadScript")
    /\ ExitScope(t)
    /\ Answer(t, "returned", "null")
    /\ UNCHANGED <<process, cur, lifecycle, memory>>

\* MUTANT: the scope is left to Dart_ShutdownIsolate.
CompileFails_ScopeOpen(t) ==
    /\ pc[t] = "ci_compile"
    /\ MayFail("CompileAndReadScript")
    /\ ShutdownIsolate(t, "returned", "null")
    /\ UNCHANGED <<process, cur, isolateVars, memory>>

CompileFails(t) ==
    /\ pc[t] = "ci_compile"
    /\ MayFail("CompileAndReadScript")
    /\ ExitScope(t)
    /\ ShutdownIsolate(t, "returned", "null")
    /\ UNCHANGED <<process, cur, lifecycle, memory>>

\* The script is loaded and the isolate left again.
LoadScript(t) ==
    /\ pc[t] = "ci_load"
    /\ ExitScope(t)
    /\ ExitIsolate(t)
    /\ Goto(t, "ci_runnable")
    /\ UNCHANGED <<process, frame, lifecycle, memory>>

\* Returns with the isolate current and its scope open.
LoadFails(t) ==
    /\ pc[t] = "ci_load"
    /\ MayFail("LoadScript")
    /\ Answer(t, "returned", "null")
    /\ UNCHANGED <<process, cur, isolateVars, memory>>

MakeRunnable(t) ==
    /\ pc[t] = "ci_runnable"
    /\ runnable' = runnable \cup {Me(t)}
    /\ Answer(t, "returned", "isolate")
    /\ UNCHANGED <<process, cur, state, group, handed, scopes, memory>>

\* MUTANT: the data is deleted here, and by the cleanup callback as well.
MakeRunnableFails_Deletes(t) ==
    /\ pc[t] = "ci_runnable"
    /\ MayFail("MakeRunnable")
    /\ EnterIsolate(t)
    /\ ShutdownIsolate(t, "returned", "null")
    /\ idata' = [idata EXCEPT ![Me(t)] = Deleted(@)]
    /\ UNCHANGED <<process, isolateVars, gdata, kbuf>>

\* MUTANT: the isolate is not entered again before it is shut down.
MakeRunnableFails_NotEntered(t) ==
    /\ pc[t] = "ci_runnable"
    /\ MayFail("MakeRunnable")
    /\ ShutdownIsolate(t, "returned", "null")
    /\ UNCHANGED <<process, cur, isolateVars, memory>>

MakeRunnableFails(t) ==
    /\ pc[t] = "ci_runnable"
    /\ MayFail("MakeRunnable")
    /\ EnterIsolate(t)
    /\ ShutdownIsolate(t, "returned", "null")
    /\ UNCHANGED <<process, isolateVars, memory>>

CreateIsolate(t) ==
    \/ ReadScript(t)
    \/ CreateFromKernel(t)
    \/ CreateFromKernelFails(t)
    \/ CompileAndReadScript(t)
    \/ CompileFails(t)
    \/ LoadScript(t)
    \/ LoadFails(t)
    \/ MakeRunnable(t)
    \/ MakeRunnableFails(t)

-----------------------------------------------------------------------------
(* CreateAndSetupKernelIsolate and CreateServiceIsolate.                   *)

\* Both data objects, the isolate and its scope.
KernelCreate(t) ==
    /\ pc[t] = "ki_create"
    /\ gdata' = [gdata EXCEPT ![MyGroup(t)] = "live"]
    /\ kbuf' = [kbuf EXCEPT ![MyGroup(t)] = "unowned"]
    /\ idata' = [idata EXCEPT ![Me(t)] = "live"]
    /\ CreateGroup(t)
    /\ EnterScope(t)
    /\ Goto(t, "ki_setup")
    /\ UNCHANGED <<process, frame, runnable, handed>>

\* MUTANT: the group data is forgotten.
KernelCreateFails_KeepsGroup(t) ==
    /\ pc[t] = "ki_create"
    /\ MayFail("CreateGroup")
    /\ gdata' = [gdata EXCEPT ![MyGroup(t)] = "live"]
    /\ idata' = [idata EXCEPT ![Me(t)] = Deleted("live")]
    /\ Answer(t, "answered", "null")
    /\ UNCHANGED <<process, cur, isolateVars, kbuf>>

\* Both data objects are deleted again before NULL is returned.
KernelCreateFails(t) ==
    /\ pc[t] = "ki_create"
    /\ MayFail("CreateGroup")
    /\ gdata' = [gdata EXCEPT ![MyGroup(t)] = Deleted("live")]
    /\ idata' = [idata EXCEPT ![Me(t)] = Deleted("live")]
    /\ Answer(t, "answered", "null")
    /\ UNCHANGED <<process, cur, isolateVars, kbuf>>

\* MUTANT: the isolate is not left.
KernelSetup_Stays(t) ==
    /\ pc[t] = "ki_setup"
    /\ ExitScope(t)
    /\ Goto(t, "ki_runnable")
    /\ UNCHANGED <<process, cur, frame, lifecycle, memory>>

\* The setup and the load, whose errors are not looked at.
KernelSetup(t) ==
    /\ pc[t] = "ki_setup"
    /\ ExitScope(t)
    /\ ExitIsolate(t)
    /\ Goto(t, "ki_runnable")
    /\ UNCHANGED <<process, frame, lifecycle, memory>>

\* The isolate is returned whether or not it could be made runnable.
KernelRunnable(t) ==
    /\ pc[t] = "ki_runnable"
    /\ \/ runnable' = runnable \cup {Me(t)}
       \/ MayFail("KernelMakeRunnable") /\ UNCHANGED runnable
    /\ Answer(t, "answered", "isolate")
    /\ UNCHANGED <<process, cur, state, group, handed, scopes, memory>>

CreateAndSetupKernelIsolate(t) ==
    \/ KernelCreate(t)
    \/ KernelCreateFails(t)
    \/ KernelSetup(t)
    \/ KernelRunnable(t)

\* The service isolate has group data and no IsolateData.
ServiceCreate(t) ==
    /\ pc[t] = "si_create"
    /\ gdata' = [gdata EXCEPT ![MyGroup(t)] = "live"]
    /\ CreateGroup(t)
    /\ EnterScope(t)
    /\ Goto(t, "si_setup")
    /\ UNCHANGED <<process, frame, runnable, handed, idata, kbuf>>

\* VmService::Setup makes the isolate runnable; if it could not, only an
\* assert says so.
ServiceSetup(t) ==
    /\ pc[t] = "si_setup"
    /\ \/ runnable' = runnable \cup {Me(t)}
       \/ MayFail("VmServiceSetup") /\ ~Debug /\ UNCHANGED runnable
    /\ ExitScope(t)
    /\ ExitIsolate(t)
    /\ Answer(t, "answered", "isolate")
    /\ UNCHANGED <<process, state, group, handed, memory>>

ServiceAssertFails(t) ==
    /\ pc[t] = "si_setup"
    /\ MayFail("VmServiceSetup")
    /\ Debug
    /\ Abort

CreateServiceIsolate(t) ==
    \/ ServiceCreate(t)
    \/ ServiceSetup(t)
    \/ ServiceAssertFails(t)

\* What CreateIsolate returned, NULL or an isolate, is answered with NULL.
CreateIsolateGroupAndSetup(t) ==
    /\ pc[t] = "returned"
    /\ Answer(t, "answered", "null")
    /\ UNCHANGED <<process, cur, isolateVars, memory>>

-----------------------------------------------------------------------------
(* OnIsolateInitialize: the isolate was created by the VM and is current.  *)

InitializeStart(t) ==
    /\ pc[t] = "oi_start"
    /\ idata' = [idata EXCEPT ![Me(t)] = "live"]
    /\ EnterScope(t)
    /\ Goto(t, "oi_setup")
    /\ UNCHANGED <<process, cur, frame, lifecycle,
                   gdata, kbuf>>

\* MUTANT: `failed` returns without Dart_ExitScope.
InitializeFails_ScopeOpen(t) ==
    /\ pc[t] = "oi_setup"
    /\ \/ MayFail("SetupCoreLibraries")
       \/ MayFail("StringToCString") /\ kbuf[MyGroup(t)] # "null"
    /\ Answer(t, "answered", "false")
    /\ UNCHANGED <<process, cur, isolateVars, memory>>

\* SetupCoreLibraries fails, or the script's URI cannot be converted, which
\* is tried where the group has a kernel buffer.  The isolate is not shut
\* down here.
InitializeFails(t) ==
    /\ pc[t] = "oi_setup"
    /\ \/ MayFail("SetupCoreLibraries")
       \/ MayFail("StringToCString") /\ kbuf[MyGroup(t)] # "null"
    /\ ExitScope(t)
    /\ Answer(t, "answered", "false")
    /\ UNCHANGED <<process, cur, lifecycle, memory>>

\* `return result != nullptr`: an error handle is not NULL.
ResolveFails(t) ==
    /\ pc[t] = "oi_setup"
    /\ MayFail("ResolveScript")
    /\ Answer(t, "answered", "true")
    /\ UNCHANGED <<process, cur, isolateVars, memory>>

\* MUTANT: Dart_ExitScope is missing.
InitializeLeave_ScopeOpen(t) ==
    /\ pc[t] = "oi_setup"
    /\ ExitIsolate(t)
    /\ Goto(t, "oi_runnable")
    /\ UNCHANGED <<process, frame, isolateVars, memory>>

InitializeLeave(t) ==
    /\ pc[t] = "oi_setup"
    /\ ExitScope(t)
    /\ ExitIsolate(t)
    /\ Goto(t, "oi_runnable")
    /\ UNCHANGED <<process, frame, lifecycle, memory>>

InitializeRunnable(t) ==
    /\ pc[t] = "oi_runnable"
    /\ \/ /\ runnable' = runnable \cup {Me(t)}
          /\ Answer(t, "answered", "true")
       \/ /\ MayFail("ChildMakeRunnable")
          /\ Answer(t, "answered", "false")
          /\ UNCHANGED runnable
    /\ EnterIsolate(t)
    /\ UNCHANGED <<process, state, group, handed, scopes, memory>>

OnIsolateInitialize(t) ==
    \/ InitializeStart(t)
    \/ InitializeFails(t)
    \/ ResolveFails(t)
    \/ InitializeLeave(t)
    \/ InitializeRunnable(t)

-----------------------------------------------------------------------------
(* The VM.                                                                 *)

IdleThread(t) == t \in VMThreads /\ pc[t] = "idle" /\ cur[t] = None

\* Dart code runs in the isolate thread t is in.
Running(t) == pc[t] \in {"run", "m_loop"}

\* Dart_Initialize starts the kernel and the service isolate; each is asked
\* for on a pool thread while main goes on.
VMBoot(t, k) ==
    /\ IdleThread(t) /\ vm = "up" /\ k \in boot
    /\ boot' = boot \ {k}
    /\ \E i \in Isolates :
         /\ Fresh(i)
         /\ Begin(t, IF k = "kernel" THEN "ki_create" ELSE "si_create", i, i)
    /\ UNCHANGED <<vm, exit, cur, isolateVars, memory>>

\* Isolate.spawnUri, from any isolate.
VMSpawnUri(t) ==
    /\ SpawnUri
    /\ IdleThread(t) /\ vm = "up" /\ Room
    /\ \E u \in Threads : Running(u)
    /\ \E i \in Isolates : Fresh(i) /\ Begin(t, "ci_read", i, i)
    /\ UNCHANGED <<process, cur, isolateVars, memory>>

\* Isolate.spawn: an isolate in the group of the one that asked.
VMSpawn(t) ==
    /\ IdleThread(t) /\ vm = "up" /\ Room
    /\ \E u \in Threads, i \in Isolates :
         /\ Running(u) /\ Fresh(i)
         /\ Begin(t, "oi_start", i, MyGroup(u))
         /\ state' = [state EXCEPT ![i] = "alive"]
         /\ group' = [group EXCEPT ![i] = MyGroup(u)]
         /\ cur' = [cur EXCEPT ![t] = i]
    /\ UNCHANGED <<process, runnable, handed, scopes, memory>>

\* A callback has answered.  The VM has been handed an isolate, or not: one
\* that was refused it may leave as it is, unless it is relied on to end it.
VMTake(t) ==
    /\ t \in VMThreads /\ pc[t] = "answered"
    /\ frame[t].answer \in {"isolate", "true", "null"}
                            \cup (IF VMTerminates THEN {} ELSE {"false"})
    /\ handed' = IF frame[t].answer \in {"null", "false"} THEN handed
                 ELSE handed \cup {Me(t)}
    /\ cur' = IF frame[t].answer = "true" THEN [cur EXCEPT ![t] = None] ELSE cur
    /\ Goto(t, "idle")
    /\ frame' = [frame EXCEPT ![t] = NoFrame]
    /\ UNCHANGED <<process, state, group, runnable, scopes, memory>>

\* "false otherwise (in which case the VM will terminate the isolate)".
VMTerminate(t) ==
    /\ t \in VMThreads /\ pc[t] = "answered" /\ frame[t].answer = "false"
    /\ ShutdownIsolate(t, "idle", "none")
    /\ UNCHANGED <<process, cur, isolateVars, memory>>

\* A pool thread handles the messages of an isolate, in Dart code.  An
\* isolate that was not made runnable cannot start (dart_api.h:1285-1289).
VMRun(t) ==
    /\ IdleThread(t)
    /\ \E i \in handed \cap runnable :
         /\ \A u \in Threads : Me(u) # i
         /\ Begin(t, "run", i, group[i])
         /\ cur' = [cur EXCEPT ![t] = i]
    /\ UNCHANGED <<process, isolateVars, memory>>

VMYield(t) ==
    /\ t \in VMThreads /\ pc[t] = "run"
    /\ ExitIsolate(t)
    /\ Goto(t, "idle")
    /\ frame' = [frame EXCEPT ![t] = NoFrame]
    /\ UNCHANGED <<process, isolateVars, memory>>

\* The last port of the isolate was closed, or Dart_Cleanup killed it.
VMFinish(t) ==
    /\ t \in VMThreads /\ pc[t] = "run"
    /\ ShutdownIsolate(t, "idle", "none")
    /\ UNCHANGED <<process, cur, isolateVars, memory>>

-----------------------------------------------------------------------------
(* main.                                                                   *)

MainReturns(code) ==
    /\ exit' = code
    /\ UNCHANGED <<threadVars, isolateVars, memory>>

\* Platform::Initialize and embedder::InitOnce.
MainPlatform ==
    /\ pc[Main] = "m_platform"
    /\ \/ /\ Goto(Main, "m_initialize")
          /\ UNCHANGED <<exit, cur, frame, isolateVars, memory>>
       \/ MayFail("InitOnce") /\ MainReturns("-1")
    /\ UNCHANGED <<vm, boot>>

\* Dart_Initialize; start_kernel_isolate is set where the DFE can be used.
MainInitialize ==
    /\ pc[Main] = "m_initialize"
    /\ \/ /\ vm' = "up"
          /\ boot' \in {{"service"}, {"service", "kernel"}}
          /\ Goto(Main, "ci_read")
          /\ UNCHANGED <<exit, cur, frame, isolateVars, memory>>
       \/ /\ MayFail("Dart_Initialize")
          /\ MainReturns("0")
          /\ UNCHANGED <<vm, boot>>

\* CreateIsolate has returned NULL.
MainCreateFailed ==
    /\ pc[Main] = "returned" /\ frame[Main].answer = "null"
    /\ MainReturns("-1")
    /\ UNCHANGED <<vm, boot>>

\* The isolate is entered, `main` started and Dart_RunLoop called.
MainRun ==
    /\ pc[Main] = "returned" /\ frame[Main].answer = "isolate"
    /\ EnterIsolate(Main)
    /\ EnterScope(Main)
    /\ Goto(Main, "m_loop")
    /\ UNCHANGED <<process, frame, lifecycle, memory>>

\* MUTANT: Dart_ExitScope is missing.
MainLoopEnds_ScopeOpen ==
    /\ pc[Main] = "m_loop"
    /\ ShutdownIsolate(Main, "m_cleanup", "none")
    /\ UNCHANGED <<process, cur, isolateVars, memory>>

MainLoopEnds ==
    /\ pc[Main] = "m_loop"
    /\ ExitScope(Main)
    /\ ShutdownIsolate(Main, "m_cleanup", "none")
    /\ UNCHANGED <<process, cur, lifecycle, memory>>

\* Dart_Cleanup: nothing new is started, and what runs is waited for.
MainCleanup ==
    /\ pc[Main] = "m_cleanup"
    /\ vm' = "stopping"
    /\ boot' = {}
    /\ Goto(Main, "m_wait")
    /\ UNCHANGED <<exit, cur, frame, isolateVars, memory>>

\* Then embedder::Cleanup and `return 0`.  An isolate that could never start
\* is not waited for.
MainEnds ==
    /\ pc[Main] = "m_wait"
    /\ handed \cap runnable = {}
    /\ \A t \in VMThreads : pc[t] = "idle"
    /\ vm' = "down"
    /\ MainReturns("0")
    /\ UNCHANGED boot

-----------------------------------------------------------------------------
ThreadStep(t) ==
    \/ CreateIsolate(t)
    \/ CreateAndSetupKernelIsolate(t)
    \/ CreateServiceIsolate(t)
    \/ t \in VMThreads /\ CreateIsolateGroupAndSetup(t)
    \/ OnIsolateInitialize(t)
    \/ OnIsolateShutdown(t)
    \/ DeleteIsolateData(t)
    \/ DeleteIsolateGroupData(t)
    \/ VMTake(t)
    \/ VMTerminate(t)
    \/ VMFinish(t)

MainStep ==
    \/ MainPlatform
    \/ MainInitialize
    \/ MainCreateFailed
    \/ MainRun
    \/ MainLoopEnds
    \/ MainCleanup
    \/ MainEnds

VMStep(t) ==
    \/ \E k \in boot : VMBoot(t, k)
    \/ VMSpawnUri(t)
    \/ VMSpawn(t)
    \/ VMRun(t)
    \/ VMYield(t)

\* The process is over: every thread is gone.
Over == exit # "running" /\ UNCHANGED vars

Next ==
    \/ /\ exit = "running"
       /\ \/ MainStep
          \/ \E t \in Threads : ThreadStep(t) \/ VMStep(t)
    \/ Over

Spec == Init /\ [][Next]_vars

\* Liveness needs: every thread that is inside the embedder or the VM moves
\* on; an isolate that is handed over runnable is run; Dart code does not
\* keep an isolate alive for ever (hello_world.dart prints, sleeps and ends).
Fairness ==
    /\ WF_vars(exit = "running" /\ MainStep)
    /\ \A t \in Threads : WF_vars(exit = "running" /\ ThreadStep(t))
    /\ \A t \in VMThreads : /\ WF_vars(exit = "running" /\ VMRun(t))
                            /\ SF_vars(exit = "running" /\ VMFinish(t))

FairSpec == Spec /\ Fairness

-----------------------------------------------------------------------------
(* Properties.                                                             *)

DataStatus == {"none", "live", "freed", "twice"}

\* Every variable keeps its type (the state of EmbeddedDart.cpp and of the
\* VM it talks to).
TypeOK ==
    /\ vm \in {"down", "up", "stopping"}
    /\ boot \subseteq {"kernel", "service"}
    /\ exit \in {"running", "0", "-1", "abort"}
    /\ pc \in [Threads -> Labels]
    /\ cur \in [Threads -> Isolates \cup {None}]
    /\ frame \in [Threads -> Frame]
    /\ state \in [Isolates -> {"unused", "alive", "dead"}]
    /\ group \in [Isolates -> Isolates \cup {None}]
    /\ runnable \subseteq Isolates
    /\ handed \subseteq Isolates
    /\ scopes \in [Isolates -> Nat]
    /\ idata \in [Isolates -> DataStatus]
    /\ gdata \in [Isolates -> DataStatus]
    /\ kbuf \in [Isolates -> {"null", "unowned", "owned", "freed"}]

\* While an isolate lives, the IsolateGroupData its callbacks read has not
\* been deleted and its kernel buffer, from which the VM still reads, has
\* not been freed, however the isolates of the group come and go
\* (EmbeddedDart.cpp:380-445, dart_api.h:1050-1051).
GroupOutlivesIsolates ==
    \A i \in Isolates : state[i] = "alive" =>
        gdata[group[i]] = "live" /\ kbuf[group[i]] # "freed"

\* No IsolateData and no IsolateGroupData is deleted twice: not by the
\* failure path of CreateAndSetupKernelIsolate and by the cleanup callbacks,
\* and not by two isolates of one group that end together.
NoDoubleDelete ==
    /\ \A i \in Isolates : idata[i] # "twice"
    /\ \A g \in Isolates : gdata[g] # "twice"

\* No two threads are in one isolate (dart_api.h:1142-1143): the creating
\* callbacks have left an isolate before the VM runs it elsewhere.
OneThreadPerIsolate ==
    \A t, u \in Threads : cur[t] = cur[u] /\ cur[t] # None => t = u

\* A callback, or CreateIsolate, on a way out: it returns, or goes on to
\* Dart_ShutdownIsolate.
Leaves(t) == pc[t] \in {"returned", "answered", "sd_callback"}

\* Whoever opened a scope has closed it on each way out, before the isolate
\* is answered, returned as NULL or shut down (EmbeddedDart.cpp:215, 251, 310,
\* 333, 415, 423, 543), and an isolate no thread is in has no scope open.  Two
\* ways out do not and are left out of the run by what may fail:
\* Dart_LoadScriptFromKernel (330) and ResolveScript (402).
ScopesBalanced ==
    \A i \in Isolates :
        \/ \E t \in Threads : Me(t) = i /\ Leaves(t)
        \/ \A t \in Threads : cur[t] # i
        => scopes[i] = 0

\* Every IsolateData, every IsolateGroupData and every owned kernel buffer has
\* been released when main returns 0, after Dart_Cleanup, and those of main's
\* own isolate when it returns -1.  The VM's isolates are left as they are at
\* -1, without Dart_Cleanup, and so is everything when the process aborts.
NothingLeaks ==
    LET Released(i) == idata[i] # "live" /\ gdata[i] # "live" /\ kbuf[i] # "owned"
    IN /\ exit = "0" => \A i \in Isolates : Released(i)
       /\ exit = "-1" => Released(Me(Main))

\* An isolate that main or a callback could not set up does not keep the
\* program from ending: main returns.  It does where the VM ends the isolates
\* whose initialization failed.
Termination == <>(exit # "running")

Answering(t) == t \in VMThreads /\ pc[t] = "answered"

\* "The embedder returns NULL if the creation and initialization was not
\* successful and the isolate if successful" (dart_api.h:664-665): an isolate
\* made runnable is not answered with NULL.
SuccessIsReported ==
    \A t \in VMThreads :
        Answering(t) /\ Me(t) \in runnable => frame[t].answer # "null"

\* The other direction of dart_api.h:664-665, and "the embedder returns true
\* if the initialization was successful and false otherwise" (703-704): an
\* isolate that could not be made runnable is not answered as created or as
\* initialized.
SuccessIsRunnable ==
    \A t \in VMThreads :
        Answering(t) /\ frame[t].answer \in {"isolate", "true"} => Me(t) \in runnable

\* "When the function returns NULL, it is the responsibility of this
\* function to ensure that Dart_ShutdownIsolate has been called if required"
\* (dart_api.h:629-634).
ShutdownBeforeNull ==
    \A t \in VMThreads :
        /\ Answering(t)
        /\ frame[t].answer = "null"
        /\ Me(t) \notin runnable
        => state[Me(t)] # "alive"

\* "When the function returns `false`, it is the responsibility of this
\* function to ensure that `Dart_ShutdownIsolate` has been called"
\* (dart_api.h:690-691, of OnIsolateInitialize).
ShutdownBeforeFalse ==
    \A t \in VMThreads :
        Answering(t) /\ frame[t].answer = "false" => state[Me(t)] # "alive"

=============================================================================
