--------------------------- MODULE Embedder_proofs ---------------------------
(***************************************************************************)
(* Ownership in the embedder, for any number of threads and isolates and   *)
(* whichever calls fail.  The argument: between the VM's first question    *)
(* and its last callback each isolate belongs to the one thread that has   *)
(* it in its frame; an isolate that lives has the data of its group; and   *)
(* the thread that was told to clean a group up saw its last isolate die.  *)
(* On this rest two more, for which some calls must succeed (stated with    *)
(* each): who has a scope to close, and who has an isolate to end.         *)
(***************************************************************************)
EXTENDS Embedder, TLAPS

\* Where the isolate of the frame has not been created, has been created
\* and not been shut down, has an open scope, and has been left.
Unborn == {"m_platform", "m_initialize", "ci_read", "ci_create", "ki_create",
           "si_create"}
Inside == {"ci_compile", "ci_load", "ci_runnable", "ki_setup", "ki_runnable",
           "si_setup", "oi_start", "oi_setup", "oi_runnable", "run",
           "m_loop", "sd_callback", "sd_data"}
ScopeOpen == {"ci_compile", "ci_load", "ki_setup", "si_setup", "oi_setup",
              "m_loop"}
Left == {"ci_runnable", "ki_runnable", "oi_runnable"}

Returning(t) == pc[t] \in {"returned", "answered"}

Holds(t) ==
    \/ pc[t] \in Inside
    \/ Returning(t) /\ frame[t].answer \in {"isolate", "true", "false"}

\* Two threads never work on one isolate; an idle one works on none.
Owned == \A t, u \in Threads : Me(t) = Me(u) /\ Me(t) # None => t = u

IdleOwnsNothing ==
    \A t \in Threads :
        /\ pc[t] = "idle" <=> Me(t) = None
        /\ pc[t] = "idle" => MyGroup(t) = None

\* The isolate of a callback that has created it lives.
HeldIsAlive ==
    \A t \in Threads : Holds(t) =>
        state[Me(t)] = "alive" /\ group[Me(t)] = MyGroup(t)

\* A shutdown never goes on to return the isolate.
ShutdownAnswers ==
    \A t \in Threads :
        pc[t] \in ShutdownLabels => frame[t].answer \in {"none", "null"}

\* Until it is created an isolate, its data and its group are its thread's.
UnbornIsApart ==
    \A t \in Threads : pc[t] \in Unborn =>
        /\ MyGroup(t) = Me(t)
        /\ state[Me(t)] = "unused"
        /\ idata[Me(t)] = "none"
        /\ gdata[Me(t)] = (IF pc[t] = "ci_create" THEN "live" ELSE "none")
        /\ kbuf[Me(t)] # "freed"
        /\ \A u \in Threads : u # t => MyGroup(u) # Me(t)
        /\ \A i \in Isolates : group[i] # Me(t)

\* A group that an isolate or a thread refers to has had its data made.
GroupsAreMade ==
    /\ \A i \in Isolates : group[i] # None => gdata[group[i]] # "none"
    /\ \A t \in Threads : pc[t] \notin Unborn /\ Me(t) # None =>
         MyGroup(t) \in Isolates /\ gdata[MyGroup(t)] # "none"
    /\ \A g \in Isolates : gdata[g] = "none" => kbuf[g] # "freed"

AliveHasGroup ==
    \A i \in Isolates : state[i] = "alive" =>
        /\ group[i] \in Isolates
        /\ gdata[group[i]] = "live"
        /\ kbuf[group[i]] # "freed"

\* The thread that cleans a group up is the only one, and nobody is left.
LastOfGroup ==
    \A t \in Threads : pc[t] = "sd_group" =>
        /\ MyGroup(t) \in Isolates
        /\ gdata[MyGroup(t)] = "live"
        /\ \A i \in Isolates : state[i] = "alive" => group[i] # MyGroup(t)
        /\ \A u \in Threads :
             u # t /\ pc[u] = "sd_group" => MyGroup(u) # MyGroup(t)

DeletedAtMostOnce ==
    \A i \in Isolates :
        /\ idata[i] # "twice"
        /\ gdata[i] # "twice"
        /\ state[i] = "alive" => idata[i] \in {"none", "live"}

\* What the VM was handed lives, and only the VM works on it.
HandedIsAlive ==
    \A i \in handed :
        /\ state[i] = "alive"
        /\ \A t \in Threads :
             Me(t) = i => pc[t] \in {"run", "sd_callback", "sd_data"}

\* A thread is in the isolate it works on, or was left behind in one that
\* nobody can enter any more.
CurrentIsOwned ==
    \A t \in Threads : cur[t] # None =>
        /\ state[cur[t]] # "unused"
        /\ \/ cur[t] = Me(t)
           \/ /\ pc[t] = "idle"
              /\ cur[t] \notin handed
              /\ \A u \in Threads : Me(u) # cur[t]

LeftIsNotCurrent ==
    \A t \in Threads :
        pc[t] \in Left \/ (Returning(t) /\ frame[t].answer = "isolate") =>
        cur[t] = None

ScopeIsOpen ==
    \A t \in Threads : pc[t] \in ScopeOpen => scopes[Me(t)] >= 1

IInv ==
    /\ TypeOK
    /\ Owned
    /\ IdleOwnsNothing
    /\ HeldIsAlive
    /\ ShutdownAnswers
    /\ UnbornIsApart
    /\ GroupsAreMade
    /\ AliveHasGroup
    /\ LastOfGroup
    /\ DeletedAtMostOnce
    /\ HandedIsAlive
    /\ CurrentIsOwned
    /\ LeftIsNotCurrent
    /\ ScopeIsOpen
    /\ OneThreadPerIsolate

-----------------------------------------------------------------------------
\* The locals of a new callback have their type.
LEMMA BeginFrame ==
    ASSUME TypeOK, NEW t \in Threads, NEW l, NEW i \in Isolates,
           NEW g \in Isolates \cup {None}, Begin(t, l, i, g)
    PROVE  frame' \in [Threads -> Frame]
<1>1. FrameOf(i, g) \in Frame
    BY DEF FrameOf, Frame
<1> QED BY <1>1 DEF Begin, TypeOK

\* So has each thread when the VM has called the embedder.
LEMMA CallbackFrame ==
    ASSUME TypeOK, NEW t \in Threads,
           \/ \E k \in boot : VMBoot(t, k)
           \/ VMSpawnUri(t) \/ VMSpawn(t) \/ VMRun(t)
    PROVE  frame' \in [Threads -> Frame]
<1>1. CASE \E k \in boot : VMBoot(t, k)
    BY <1>1, BeginFrame DEF VMBoot
<1>2. CASE VMSpawnUri(t)
    BY <1>2, BeginFrame DEF VMSpawnUri
<1>3. CASE VMSpawn(t)
    <2>1. PICK u \in Threads, i \in Isolates :
            Begin(t, "oi_start", i, MyGroup(u))
        BY <1>3 DEF VMSpawn
    <2>2. MyGroup(u) \in Isolates \cup {None}
        BY DEF TypeOK, Frame, MyGroup
    <2> QED BY <2>1, <2>2, BeginFrame
<1>4. CASE VMRun(t)
    <2>1. PICK i \in handed : Begin(t, "run", i, group[i])
        BY <1>4 DEF VMRun
    <2>2. i \in Isolates /\ group[i] \in Isolates \cup {None}
        BY DEF TypeOK
    <2> QED BY <2>1, <2>2, BeginFrame
<1> QED BY <1>1, <1>2, <1>3, <1>4

\* So have those of a callback that shuts its isolate down.
LEMMA ShutdownFrame ==
    ASSUME TypeOK, NEW t \in Threads,
           NEW next \in {"idle", "returned", "m_cleanup"},
           NEW answer \in {"none", "null"}, ShutdownIsolate(t, next, answer)
    PROVE  frame' \in [Threads -> Frame]
<1> DEFINE f == [frame[t] EXCEPT !.next = next]
           f2 == [f EXCEPT !.answer = answer]
<1>1. frame[t] \in Frame
    BY DEF TypeOK
<1>2. f \in Frame
    BY <1>1 DEF Frame
<1>3. f2 \in Frame
    BY <1>2 DEF Frame
<1>4. frame' = [frame EXCEPT ![t] = f2]
    BY DEF ShutdownIsolate, TypeOK
<1> QED BY <1>3, <1>4 DEF TypeOK

\* Dart_Initialize is asked for the service isolate and perhaps the kernel's.
LEMMA BootIsTyped ==
    ASSUME boot \subseteq {"kernel", "service"}, MainInitialize
    PROVE  boot' \subseteq {"kernel", "service"}
<1>1. CASE boot' \in {{"service"}, {"service", "kernel"}}
    BY <1>1
<1>2. CASE boot' = boot
    BY <1>2
<1> QED BY <1>1, <1>2 DEF MainInitialize

\* The definitions that every step unfolds.
USE EmbedderAssumption
    DEF Me, MyGroup, Goto, Answer, Begin, CreateGroup, EnterScope, ExitScope,
        EnterIsolate, ExitIsolate, Continue, ShutdownIsolate, Abort,
        MainReturns, IdleThread, Running, Fresh, Threads, NoFrame, FrameOf,
        Frame, MainLabels, CreateLabels, KernelLabels, ServiceLabels,
        InitLabels, ShutdownLabels, Labels, Unborn, Inside, ScopeOpen, Left,
        Returning, Holds, DataStatus, Deleted, process, threadVars,
        isolateVars, memory, lifecycle

-----------------------------------------------------------------------------
(* Each step keeps the invariant.  CreateIsolate: *)

\* An isolate that is not created ends the process.
LEMMA AbortKeeps ==
    ASSUME IInv, NEW t \in Threads,
           CreateFromKernelFails(t) \/ ServiceAssertFails(t)
    PROVE  IInv'
<1> USE DEF IInv, TypeOK, Owned, IdleOwnsNothing, CreateFromKernelFails,
            ServiceAssertFails
<1>1. TypeOK'
    <2>1. CASE CreateFromKernelFails(t)
        BY <2>1 DEF ScopeIsOpen
    <2>2. CASE ServiceAssertFails(t)
        BY <2>2 DEF ScopeIsOpen
    <2> QED BY <2>1, <2>2
<1>2. Owned' /\ IdleOwnsNothing' /\ ShutdownAnswers' /\ ScopeIsOpen'
    BY DEF ShutdownAnswers, ScopeIsOpen
<1>3. HeldIsAlive' /\ HandedIsAlive'
    BY DEF HeldIsAlive, ShutdownAnswers, UnbornIsApart, HandedIsAlive
<1>4. UnbornIsApart' /\ GroupsAreMade'
    BY DEF HeldIsAlive, UnbornIsApart, GroupsAreMade, AliveHasGroup,
           HandedIsAlive
<1>5. AliveHasGroup' /\ LastOfGroup' /\ DeletedAtMostOnce'
    BY DEF HeldIsAlive, UnbornIsApart, AliveHasGroup, LastOfGroup,
           DeletedAtMostOnce
<1>6. CurrentIsOwned' /\ LeftIsNotCurrent' /\ OneThreadPerIsolate'
    BY DEF HeldIsAlive, UnbornIsApart, HandedIsAlive, CurrentIsOwned,
           ShutdownAnswers, LeftIsNotCurrent, OneThreadPerIsolate
<1> QED BY <1>1, <1>2, <1>3, <1>4, <1>5, <1>6

\* The group data is made by the only thread that knows the group.
LEMMA ReadScriptKeeps ==
    ASSUME IInv, NEW t \in Threads, ReadScript(t)
    PROVE  IInv'
<1> USE DEF IInv, TypeOK, Owned, IdleOwnsNothing, ReadScript
<1>1. TypeOK'
    <2>1. idata' \in [Isolates -> DataStatus]
        OBVIOUS
    <2>2. gdata' \in [Isolates -> DataStatus]
        OBVIOUS
    <2>3. kbuf' \in [Isolates -> {"null", "unowned", "owned", "freed"}]
        <3>1. /\ kbuf \in [Isolates -> {"null", "unowned", "owned", "freed"}]
              /\ \E buffer \in {"owned", "null"} :
                   kbuf' = [kbuf EXCEPT ![MyGroup(t)] = buffer]
            OBVIOUS
        <3> HIDE DEF IInv, TypeOK, Owned, IdleOwnsNothing, ReadScript
        <3> QED BY <3>1
    <2>4. frame' \in [Threads -> Frame]
        OBVIOUS
    <2> QED BY <2>1, <2>2, <2>3, <2>4
<1>2. Owned' /\ IdleOwnsNothing' /\ ShutdownAnswers' /\ ScopeIsOpen'
    BY DEF ShutdownAnswers, ScopeIsOpen
<1>3. HeldIsAlive' /\ HandedIsAlive'
    BY DEF HeldIsAlive, ShutdownAnswers, UnbornIsApart, HandedIsAlive
<1>4. UnbornIsApart' /\ GroupsAreMade'
    BY DEF HeldIsAlive, UnbornIsApart, GroupsAreMade, AliveHasGroup,
           HandedIsAlive
<1>5. AliveHasGroup' /\ LastOfGroup' /\ DeletedAtMostOnce'
    BY DEF HeldIsAlive, UnbornIsApart, AliveHasGroup, LastOfGroup,
           DeletedAtMostOnce
<1>6. CurrentIsOwned' /\ LeftIsNotCurrent' /\ OneThreadPerIsolate'
    BY DEF HeldIsAlive, UnbornIsApart, HandedIsAlive, CurrentIsOwned,
           ShutdownAnswers, LeftIsNotCurrent, OneThreadPerIsolate
<1> QED BY <1>1, <1>2, <1>3, <1>4, <1>5, <1>6

\* CreateIsolate makes the isolate of its frame, which nobody knows yet.
LEMMA CreateFromKernelKeeps ==
    ASSUME IInv, NEW t \in Threads, CreateFromKernel(t)
    PROVE  IInv'
<1> USE DEF IInv, TypeOK, Owned, IdleOwnsNothing, CreateFromKernel
<1>1. TypeOK'
    BY DEF ScopeIsOpen
<1>2. Owned' /\ IdleOwnsNothing' /\ ShutdownAnswers' /\ ScopeIsOpen'
    BY DEF ShutdownAnswers, ScopeIsOpen
<1>3. HeldIsAlive' /\ HandedIsAlive'
    BY DEF HeldIsAlive, ShutdownAnswers, UnbornIsApart, HandedIsAlive
<1>4. UnbornIsApart' /\ GroupsAreMade'
    BY DEF HeldIsAlive, UnbornIsApart, GroupsAreMade, AliveHasGroup,
           HandedIsAlive
<1>5. AliveHasGroup' /\ LastOfGroup' /\ DeletedAtMostOnce'
    BY DEF HeldIsAlive, UnbornIsApart, AliveHasGroup, LastOfGroup,
           DeletedAtMostOnce
<1>6. CurrentIsOwned' /\ LeftIsNotCurrent' /\ OneThreadPerIsolate'
    BY DEF HeldIsAlive, UnbornIsApart, HandedIsAlive, CurrentIsOwned,
           ShutdownAnswers, LeftIsNotCurrent, OneThreadPerIsolate
<1> QED BY <1>1, <1>2, <1>3, <1>4, <1>5, <1>6

\* The script is compiled and loaded, and the isolate left and made runnable.
LEMMA CreateGoesOnKeeps ==
    ASSUME IInv, NEW t \in Threads,
           CompileAndReadScript(t) \/ LoadScript(t)
           \/ MakeRunnable(t)
    PROVE  IInv'
<1> USE DEF IInv, TypeOK, Owned, IdleOwnsNothing, CompileAndReadScript,
            LoadScript, MakeRunnable
<1>1. TypeOK'
    <2>1. CASE CompileAndReadScript(t)
        <3>1. scopes' \in [Isolates -> Nat]
            BY <2>1 DEF ScopeIsOpen
        <3>2. frame' \in [Threads -> Frame]
            BY <2>1
        <3>3. idata' \in [Isolates -> DataStatus]
            BY <2>1
        <3>4. gdata' \in [Isolates -> DataStatus]
            BY <2>1
        <3>5. kbuf' \in [Isolates -> {"null", "unowned", "owned", "freed"}]
            BY <2>1
        <3> QED BY <2>1, <3>1, <3>2, <3>3, <3>4, <3>5
    <2>2. CASE LoadScript(t)
        <3>1. scopes' \in [Isolates -> Nat]
            BY <2>2 DEF ScopeIsOpen
        <3>2. frame' \in [Threads -> Frame]
            BY <2>2
        <3>3. idata' \in [Isolates -> DataStatus]
            BY <2>2
        <3>4. gdata' \in [Isolates -> DataStatus]
            BY <2>2
        <3>5. kbuf' \in [Isolates -> {"null", "unowned", "owned", "freed"}]
            BY <2>2
        <3> QED BY <2>2, <3>1, <3>2, <3>3, <3>4, <3>5
    <2>3. CASE MakeRunnable(t)
        <3>1. scopes' \in [Isolates -> Nat]
            BY <2>3 DEF ScopeIsOpen
        <3>2. frame' \in [Threads -> Frame]
            BY <2>3
        <3>3. idata' \in [Isolates -> DataStatus]
            BY <2>3
        <3>4. gdata' \in [Isolates -> DataStatus]
            BY <2>3
        <3>5. kbuf' \in [Isolates -> {"null", "unowned", "owned", "freed"}]
            BY <2>3
        <3> QED BY <2>3, <3>1, <3>2, <3>3, <3>4, <3>5
    <2> QED BY <2>1, <2>2, <2>3
<1>2. Owned' /\ IdleOwnsNothing' /\ ShutdownAnswers' /\ ScopeIsOpen'
    BY DEF ShutdownAnswers, ScopeIsOpen
<1>3. HeldIsAlive' /\ HandedIsAlive'
    BY DEF HeldIsAlive, ShutdownAnswers, UnbornIsApart, HandedIsAlive
<1>4. UnbornIsApart' /\ GroupsAreMade'
    BY DEF HeldIsAlive, UnbornIsApart, GroupsAreMade, AliveHasGroup,
           HandedIsAlive
<1>5. AliveHasGroup' /\ LastOfGroup' /\ DeletedAtMostOnce'
    BY DEF HeldIsAlive, UnbornIsApart, AliveHasGroup, LastOfGroup,
           DeletedAtMostOnce
<1>6. CurrentIsOwned' /\ LeftIsNotCurrent' /\ OneThreadPerIsolate'
    BY DEF HeldIsAlive, UnbornIsApart, HandedIsAlive, CurrentIsOwned,
           ShutdownAnswers, LeftIsNotCurrent, OneThreadPerIsolate
<1> QED BY <1>1, <1>2, <1>3, <1>4, <1>5, <1>6

\* What CreateIsolate returns as NULL it has shut down, or left as it was.
LEMMA CreateGoesWrongKeeps ==
    ASSUME IInv, NEW t \in Threads,
           CompileFails(t) \/ LoadFails(t)
           \/ MakeRunnableFails(t)
    PROVE  IInv'
<1> USE DEF IInv, TypeOK, Owned, IdleOwnsNothing, CompileFails, LoadFails,
            MakeRunnableFails
<1>1. TypeOK'
    <2>1. CASE CompileFails(t)
        <3>1. scopes' \in [Isolates -> Nat]
            BY <2>1 DEF ScopeIsOpen
        <3>2. frame' \in [Threads -> Frame]
            BY <2>1
        <3>3. idata' \in [Isolates -> DataStatus]
            BY <2>1
        <3>4. gdata' \in [Isolates -> DataStatus]
            BY <2>1
        <3>5. kbuf' \in [Isolates -> {"null", "unowned", "owned", "freed"}]
            BY <2>1
        <3> QED BY <2>1, <3>1, <3>2, <3>3, <3>4, <3>5
    <2>2. CASE LoadFails(t)
        <3>1. scopes' \in [Isolates -> Nat]
            BY <2>2 DEF ScopeIsOpen
        <3>2. frame' \in [Threads -> Frame]
            BY <2>2
        <3>3. idata' \in [Isolates -> DataStatus]
            BY <2>2
        <3>4. gdata' \in [Isolates -> DataStatus]
            BY <2>2
        <3>5. kbuf' \in [Isolates -> {"null", "unowned", "owned", "freed"}]
            BY <2>2
        <3> QED BY <2>2, <3>1, <3>2, <3>3, <3>4, <3>5
    <2>3. CASE MakeRunnableFails(t)
        <3>1. scopes' \in [Isolates -> Nat]
            BY <2>3 DEF ScopeIsOpen
        <3>2. frame' \in [Threads -> Frame]
            BY <2>3
        <3>3. idata' \in [Isolates -> DataStatus]
            BY <2>3
        <3>4. gdata' \in [Isolates -> DataStatus]
            BY <2>3
        <3>5. kbuf' \in [Isolates -> {"null", "unowned", "owned", "freed"}]
            BY <2>3
        <3> QED BY <2>3, <3>1, <3>2, <3>3, <3>4, <3>5
    <2> QED BY <2>1, <2>2, <2>3
<1>2. Owned' /\ IdleOwnsNothing' /\ ShutdownAnswers' /\ ScopeIsOpen'
    BY DEF ShutdownAnswers, ScopeIsOpen
<1>3. HeldIsAlive' /\ HandedIsAlive'
    <2>1. CASE CompileFails(t)
        BY <2>1 DEF HeldIsAlive, HandedIsAlive
    <2>2. CASE LoadFails(t)
        BY <2>2 DEF HeldIsAlive, HandedIsAlive
    <2>3. CASE MakeRunnableFails(t)
        BY <2>3 DEF HeldIsAlive, HandedIsAlive
    <2> QED BY <2>1, <2>2, <2>3
<1>4. UnbornIsApart' /\ GroupsAreMade'
    BY DEF HeldIsAlive, UnbornIsApart, GroupsAreMade, AliveHasGroup,
           HandedIsAlive
<1>5. AliveHasGroup' /\ LastOfGroup' /\ DeletedAtMostOnce'
    BY DEF HeldIsAlive, UnbornIsApart, AliveHasGroup, LastOfGroup,
           DeletedAtMostOnce
<1>6. CurrentIsOwned' /\ LeftIsNotCurrent' /\ OneThreadPerIsolate'
    BY DEF HeldIsAlive, UnbornIsApart, HandedIsAlive, CurrentIsOwned,
           ShutdownAnswers, LeftIsNotCurrent, OneThreadPerIsolate
<1> QED BY <1>1, <1>2, <1>3, <1>4, <1>5, <1>6

-----------------------------------------------------------------------------
(* CreateAndSetupKernelIsolate and CreateServiceIsolate: *)

\* The kernel isolate is created in a group of its own.
LEMMA KernelCreateKeeps ==
    ASSUME IInv, NEW t \in Threads, KernelCreate(t)
    PROVE  IInv'
<1> USE DEF IInv, TypeOK, Owned, IdleOwnsNothing, KernelCreate
<1>1. TypeOK'
    <2>1. scopes' \in [Isolates -> Nat]
        BY DEF ScopeIsOpen
    <2>2. frame' \in [Threads -> Frame]
        OBVIOUS
    <2>3. idata' \in [Isolates -> DataStatus]
        OBVIOUS
    <2>4. gdata' \in [Isolates -> DataStatus]
        OBVIOUS
    <2>5. kbuf' \in [Isolates -> {"null", "unowned", "owned", "freed"}]
        OBVIOUS
    <2> QED BY <2>1, <2>2, <2>3, <2>4, <2>5
<1>2. Owned' /\ IdleOwnsNothing' /\ ShutdownAnswers' /\ ScopeIsOpen'
    BY DEF ShutdownAnswers, ScopeIsOpen
<1>3. HeldIsAlive' /\ HandedIsAlive'
    BY DEF HeldIsAlive, UnbornIsApart, HandedIsAlive
<1>4. UnbornIsApart' /\ GroupsAreMade'
    BY DEF UnbornIsApart, GroupsAreMade
<1>5. AliveHasGroup' /\ LastOfGroup' /\ DeletedAtMostOnce'
    BY DEF HeldIsAlive, UnbornIsApart, AliveHasGroup, LastOfGroup,
           DeletedAtMostOnce
<1>6. CurrentIsOwned' /\ LeftIsNotCurrent' /\ OneThreadPerIsolate'
    BY DEF HeldIsAlive, UnbornIsApart, HandedIsAlive, CurrentIsOwned,
           ShutdownAnswers, LeftIsNotCurrent, OneThreadPerIsolate
<1> QED BY <1>1, <1>2, <1>3, <1>4, <1>5, <1>6

\* So is the service isolate, without data of its own.
LEMMA ServiceCreateKeeps ==
    ASSUME IInv, NEW t \in Threads, ServiceCreate(t)
    PROVE  IInv'
<1> USE DEF IInv, TypeOK, Owned, IdleOwnsNothing, ServiceCreate
<1>1. TypeOK'
    <2>1. scopes' \in [Isolates -> Nat]
        BY DEF ScopeIsOpen
    <2>2. frame' \in [Threads -> Frame]
        OBVIOUS
    <2>3. idata' \in [Isolates -> DataStatus]
        OBVIOUS
    <2>4. gdata' \in [Isolates -> DataStatus]
        OBVIOUS
    <2>5. kbuf' \in [Isolates -> {"null", "unowned", "owned", "freed"}]
        OBVIOUS
    <2> QED BY <2>1, <2>2, <2>3, <2>4, <2>5
<1>2. Owned' /\ IdleOwnsNothing' /\ ShutdownAnswers' /\ ScopeIsOpen'
    BY DEF ShutdownAnswers, ScopeIsOpen
<1>3. HeldIsAlive' /\ HandedIsAlive'
    BY DEF HeldIsAlive, UnbornIsApart, HandedIsAlive
<1>4. UnbornIsApart' /\ GroupsAreMade'
    BY DEF UnbornIsApart, GroupsAreMade
<1>5. AliveHasGroup' /\ LastOfGroup' /\ DeletedAtMostOnce'
    BY DEF HeldIsAlive, UnbornIsApart, AliveHasGroup, LastOfGroup,
           DeletedAtMostOnce
<1>6. CurrentIsOwned' /\ LeftIsNotCurrent' /\ OneThreadPerIsolate'
    BY DEF HeldIsAlive, UnbornIsApart, HandedIsAlive, CurrentIsOwned,
           ShutdownAnswers, LeftIsNotCurrent, OneThreadPerIsolate
<1> QED BY <1>1, <1>2, <1>3, <1>4, <1>5, <1>6

\* The data of a kernel isolate that was not created is deleted here.
LEMMA KernelCreateFailsKeeps ==
    ASSUME IInv, NEW t \in Threads, KernelCreateFails(t)
    PROVE  IInv'
<1> USE DEF IInv, TypeOK, Owned, IdleOwnsNothing, KernelCreateFails
<1>1. TypeOK'
    <2>1. idata' \in [Isolates -> DataStatus]
        OBVIOUS
    <2>2. gdata' \in [Isolates -> DataStatus]
        OBVIOUS
    <2>3. kbuf' \in [Isolates -> {"null", "unowned", "owned", "freed"}]
        OBVIOUS
    <2>4. frame' \in [Threads -> Frame]
        OBVIOUS
    <2> QED BY <2>1, <2>2, <2>3, <2>4
<1>2. Owned' /\ IdleOwnsNothing' /\ ShutdownAnswers' /\ ScopeIsOpen'
    BY DEF ShutdownAnswers, ScopeIsOpen
<1>3. HeldIsAlive' /\ HandedIsAlive'
    BY DEF HeldIsAlive, ShutdownAnswers, UnbornIsApart, HandedIsAlive
<1>4. UnbornIsApart' /\ GroupsAreMade'
    BY DEF HeldIsAlive, UnbornIsApart, GroupsAreMade, AliveHasGroup,
           HandedIsAlive
<1>5. AliveHasGroup' /\ LastOfGroup' /\ DeletedAtMostOnce'
    BY DEF HeldIsAlive, UnbornIsApart, AliveHasGroup, LastOfGroup,
           DeletedAtMostOnce
<1>6. CurrentIsOwned' /\ LeftIsNotCurrent' /\ OneThreadPerIsolate'
    BY DEF HeldIsAlive, UnbornIsApart, HandedIsAlive, CurrentIsOwned,
           ShutdownAnswers, LeftIsNotCurrent, OneThreadPerIsolate
<1> QED BY <1>1, <1>2, <1>3, <1>4, <1>5, <1>6

\* Both are left before they are handed over.
LEMMA SystemSetupKeeps ==
    ASSUME IInv, NEW t \in Threads,
           KernelSetup(t) \/ KernelRunnable(t)
           \/ ServiceSetup(t)
    PROVE  IInv'
<1> USE DEF IInv, TypeOK, Owned, IdleOwnsNothing, KernelSetup, KernelRunnable,
            ServiceSetup
<1>1. TypeOK'
    BY DEF ScopeIsOpen
<1>2. Owned' /\ IdleOwnsNothing' /\ ShutdownAnswers' /\ ScopeIsOpen'
    BY DEF ShutdownAnswers, ScopeIsOpen
<1>3. HeldIsAlive' /\ HandedIsAlive'
    BY DEF HeldIsAlive, ShutdownAnswers, UnbornIsApart, HandedIsAlive
<1>4. UnbornIsApart' /\ GroupsAreMade'
    <2>1. UnbornIsApart'
        BY DEF HeldIsAlive, UnbornIsApart, GroupsAreMade
    <2>2. GroupsAreMade'
        BY DEF HeldIsAlive, UnbornIsApart, GroupsAreMade, AliveHasGroup,
               HandedIsAlive
    <2> QED BY <2>1, <2>2
<1>5. AliveHasGroup' /\ LastOfGroup' /\ DeletedAtMostOnce'
    BY DEF HeldIsAlive, UnbornIsApart, AliveHasGroup, LastOfGroup,
           DeletedAtMostOnce
<1>6. CurrentIsOwned' /\ LeftIsNotCurrent' /\ OneThreadPerIsolate'
    BY DEF HeldIsAlive, UnbornIsApart, HandedIsAlive, CurrentIsOwned,
           ShutdownAnswers, LeftIsNotCurrent, OneThreadPerIsolate
<1> QED BY <1>1, <1>2, <1>3, <1>4, <1>5, <1>6

-----------------------------------------------------------------------------
(* OnIsolateInitialize: *)

\* An isolate in a group that is there is initialized in its own scope.
LEMMA InitializeKeeps ==
    ASSUME IInv, NEW t \in Threads,
           InitializeStart(t) \/ InitializeFails(t)
           \/ ResolveFails(t) \/ InitializeLeave(t)
    PROVE  IInv'
<1> USE DEF IInv, TypeOK, Owned, IdleOwnsNothing, InitializeStart,
            InitializeFails, ResolveFails, InitializeLeave
<1>1. TypeOK'
    BY SMTT(30) DEF ScopeIsOpen
<1>2. Owned' /\ IdleOwnsNothing' /\ ShutdownAnswers' /\ ScopeIsOpen'
    BY DEF ShutdownAnswers, ScopeIsOpen
<1>3. HeldIsAlive' /\ HandedIsAlive'
    BY DEF HeldIsAlive, ShutdownAnswers, UnbornIsApart, HandedIsAlive
<1>4. UnbornIsApart' /\ GroupsAreMade'
    BY DEF HeldIsAlive, UnbornIsApart, GroupsAreMade, AliveHasGroup,
           HandedIsAlive
<1>5. AliveHasGroup' /\ LastOfGroup' /\ DeletedAtMostOnce'
    BY DEF HeldIsAlive, UnbornIsApart, AliveHasGroup, LastOfGroup,
           DeletedAtMostOnce
<1>6. CurrentIsOwned' /\ LeftIsNotCurrent' /\ OneThreadPerIsolate'
    BY DEF HeldIsAlive, UnbornIsApart, HandedIsAlive, CurrentIsOwned,
           ShutdownAnswers, LeftIsNotCurrent, OneThreadPerIsolate
<1> QED BY <1>1, <1>2, <1>3, <1>4, <1>5, <1>6

\* It is left to be made runnable, and entered again.
LEMMA InitializeRunnableKeeps ==
    ASSUME IInv, NEW t \in Threads, InitializeRunnable(t)
    PROVE  IInv'
<1> USE DEF IInv, TypeOK, Owned, IdleOwnsNothing, InitializeRunnable
<1>1. TypeOK'
    BY DEF ScopeIsOpen
<1>2. Owned' /\ IdleOwnsNothing' /\ ShutdownAnswers' /\ ScopeIsOpen'
    BY DEF ShutdownAnswers, ScopeIsOpen
<1>3. HeldIsAlive' /\ HandedIsAlive'
    BY DEF HeldIsAlive, ShutdownAnswers, UnbornIsApart, HandedIsAlive
<1>4. UnbornIsApart' /\ GroupsAreMade'
    <2>1. UnbornIsApart'
        BY DEF HeldIsAlive, UnbornIsApart, GroupsAreMade
    <2>2. GroupsAreMade'
        BY DEF HeldIsAlive, UnbornIsApart, GroupsAreMade, AliveHasGroup,
               HandedIsAlive
    <2> QED BY <2>1, <2>2
<1>5. AliveHasGroup' /\ LastOfGroup' /\ DeletedAtMostOnce'
    BY DEF HeldIsAlive, UnbornIsApart, AliveHasGroup, LastOfGroup,
           DeletedAtMostOnce
<1>6. CurrentIsOwned' /\ LeftIsNotCurrent' /\ OneThreadPerIsolate'
    BY DEF HeldIsAlive, UnbornIsApart, HandedIsAlive, CurrentIsOwned,
           ShutdownAnswers, LeftIsNotCurrent, OneThreadPerIsolate
<1> QED BY <1>1, <1>2, <1>3, <1>4, <1>5, <1>6

-----------------------------------------------------------------------------
(* The shutdown of an isolate: *)

\* OnIsolateShutdown closes what is open and leaves the isolate.
LEMMA ShutdownKeeps ==
    ASSUME IInv, NEW t \in Threads, OnIsolateShutdown(t)
    PROVE  IInv'
<1> USE DEF IInv, TypeOK, Owned, IdleOwnsNothing, OnIsolateShutdown
<1>1. TypeOK'
    BY DEF ScopeIsOpen
<1>2. Owned' /\ IdleOwnsNothing' /\ ShutdownAnswers' /\ ScopeIsOpen'
    BY DEF ShutdownAnswers, ScopeIsOpen
<1>3. HeldIsAlive' /\ HandedIsAlive'
    BY DEF HeldIsAlive, ShutdownAnswers, UnbornIsApart, HandedIsAlive
<1>4. UnbornIsApart' /\ GroupsAreMade'
    BY DEF HeldIsAlive, UnbornIsApart, GroupsAreMade, AliveHasGroup,
           HandedIsAlive
<1>5. AliveHasGroup' /\ LastOfGroup' /\ DeletedAtMostOnce'
    BY DEF HeldIsAlive, UnbornIsApart, AliveHasGroup, LastOfGroup,
           DeletedAtMostOnce
<1>6. CurrentIsOwned' /\ LeftIsNotCurrent' /\ OneThreadPerIsolate'
    BY DEF HeldIsAlive, UnbornIsApart, HandedIsAlive, CurrentIsOwned,
           ShutdownAnswers, LeftIsNotCurrent, OneThreadPerIsolate
<1> QED BY <1>1, <1>2, <1>3, <1>4, <1>5, <1>6

\* The last isolate of a group is dead when its thread turns to the group.
LEMMA DeleteIsolateDataKeeps ==
    ASSUME IInv, NEW t \in Threads, DeleteIsolateData(t)
    PROVE  IInv'
<1> USE DEF IInv, TypeOK, Owned, IdleOwnsNothing, DeleteIsolateData
<1>1. TypeOK'
    <2>1. idata' \in [Isolates -> DataStatus]
        OBVIOUS
    <2>2. gdata' \in [Isolates -> DataStatus]
        OBVIOUS
    <2>3. kbuf' \in [Isolates -> {"null", "unowned", "owned", "freed"}]
        OBVIOUS
    <2>4. frame' \in [Threads -> Frame]
        OBVIOUS
    <2> QED BY <2>1, <2>2, <2>3, <2>4
<1>2. Owned' /\ IdleOwnsNothing' /\ ShutdownAnswers' /\ ScopeIsOpen'
    BY DEF ShutdownAnswers, ScopeIsOpen
<1>3. HeldIsAlive' /\ HandedIsAlive'
    BY DEF HeldIsAlive, ShutdownAnswers, UnbornIsApart, HandedIsAlive
<1>4. UnbornIsApart' /\ GroupsAreMade'
    BY DEF HeldIsAlive, UnbornIsApart, GroupsAreMade, AliveHasGroup,
           HandedIsAlive
<1>5. AliveHasGroup' /\ LastOfGroup' /\ DeletedAtMostOnce'
    BY DEF HeldIsAlive, UnbornIsApart, AliveHasGroup, LastOfGroup,
           DeletedAtMostOnce
<1>6. CurrentIsOwned' /\ LeftIsNotCurrent' /\ OneThreadPerIsolate'
    BY DEF HeldIsAlive, UnbornIsApart, HandedIsAlive, CurrentIsOwned,
           ShutdownAnswers, LeftIsNotCurrent, OneThreadPerIsolate
<1> QED BY <1>1, <1>2, <1>3, <1>4, <1>5, <1>6

\* Nobody else has the group, so its data is deleted once.
LEMMA DeleteGroupDataKeeps ==
    ASSUME IInv, NEW t \in Threads, DeleteIsolateGroupData(t)
    PROVE  IInv'
<1> USE DEF IInv, TypeOK, Owned, IdleOwnsNothing, DeleteIsolateGroupData
<1>1. TypeOK'
    <2>1. idata' \in [Isolates -> DataStatus]
        OBVIOUS
    <2>2. gdata' \in [Isolates -> DataStatus]
        OBVIOUS
    <2>3. kbuf' \in [Isolates -> {"null", "unowned", "owned", "freed"}]
        OBVIOUS
    <2>4. frame' \in [Threads -> Frame]
        OBVIOUS
    <2> QED BY <2>1, <2>2, <2>3, <2>4
<1>2. Owned' /\ IdleOwnsNothing' /\ ShutdownAnswers' /\ ScopeIsOpen'
    BY DEF ShutdownAnswers, ScopeIsOpen
<1>3. HeldIsAlive' /\ HandedIsAlive'
    BY DEF HeldIsAlive, ShutdownAnswers, UnbornIsApart, HandedIsAlive
<1>4. UnbornIsApart' /\ GroupsAreMade'
    BY DEF HeldIsAlive, UnbornIsApart, GroupsAreMade, AliveHasGroup,
           HandedIsAlive
<1>5. AliveHasGroup' /\ LastOfGroup' /\ DeletedAtMostOnce'
    BY DEF HeldIsAlive, UnbornIsApart, AliveHasGroup, LastOfGroup,
           DeletedAtMostOnce
<1>6. CurrentIsOwned' /\ LeftIsNotCurrent' /\ OneThreadPerIsolate'
    BY DEF HeldIsAlive, UnbornIsApart, HandedIsAlive, CurrentIsOwned,
           ShutdownAnswers, LeftIsNotCurrent, OneThreadPerIsolate
<1> QED BY <1>1, <1>2, <1>3, <1>4, <1>5, <1>6

-----------------------------------------------------------------------------
(* The VM: *)

\* What is answered and what is yielded or terminated was its thread's.
LEMMA AnswerKeeps ==
    ASSUME IInv, NEW t \in Threads,
           CreateIsolateGroupAndSetup(t) \/ VMTerminate(t)
           \/ VMYield(t)
    PROVE  IInv'
<1> USE DEF IInv, TypeOK, Owned, IdleOwnsNothing, CreateIsolateGroupAndSetup,
            VMTerminate, VMYield
<1>1. TypeOK'
    <2>1. CASE CreateIsolateGroupAndSetup(t)
        <3>1. scopes' \in [Isolates -> Nat]
            BY <2>1 DEF ScopeIsOpen
        <3>2. frame' \in [Threads -> Frame]
            BY <2>1
        <3>3. idata' \in [Isolates -> DataStatus]
            BY <2>1
        <3>4. gdata' \in [Isolates -> DataStatus]
            BY <2>1
        <3>5. kbuf' \in [Isolates -> {"null", "unowned", "owned", "freed"}]
            BY <2>1
        <3> QED BY <2>1, <3>1, <3>2, <3>3, <3>4, <3>5
    <2>2. CASE VMTerminate(t)
        <3>1. scopes' \in [Isolates -> Nat]
            BY <2>2 DEF ScopeIsOpen
        <3>2. frame' \in [Threads -> Frame]
            BY <2>2
        <3>3. idata' \in [Isolates -> DataStatus]
            BY <2>2
        <3>4. gdata' \in [Isolates -> DataStatus]
            BY <2>2
        <3>5. kbuf' \in [Isolates -> {"null", "unowned", "owned", "freed"}]
            BY <2>2
        <3> QED BY <2>2, <3>1, <3>2, <3>3, <3>4, <3>5
    <2>3. CASE VMYield(t)
        <3>1. scopes' \in [Isolates -> Nat]
            BY <2>3 DEF ScopeIsOpen
        <3>2. frame' \in [Threads -> Frame]
            BY <2>3
        <3>3. idata' \in [Isolates -> DataStatus]
            BY <2>3
        <3>4. gdata' \in [Isolates -> DataStatus]
            BY <2>3
        <3>5. kbuf' \in [Isolates -> {"null", "unowned", "owned", "freed"}]
            BY <2>3
        <3> QED BY <2>3, <3>1, <3>2, <3>3, <3>4, <3>5
    <2> QED BY <2>1, <2>2, <2>3
<1>2. Owned' /\ IdleOwnsNothing' /\ ShutdownAnswers' /\ ScopeIsOpen'
    BY DEF ShutdownAnswers, ScopeIsOpen
<1>3. HeldIsAlive' /\ HandedIsAlive'
    <2>1. CASE CreateIsolateGroupAndSetup(t)
        BY <2>1 DEF HeldIsAlive, HandedIsAlive
    <2>2. CASE VMTerminate(t)
        BY <2>2 DEF HeldIsAlive, HandedIsAlive
    <2>3. CASE VMYield(t)
        BY <2>3 DEF HeldIsAlive, HandedIsAlive
    <2> QED BY <2>1, <2>2, <2>3
<1>4. UnbornIsApart' /\ GroupsAreMade'
    BY DEF HeldIsAlive, UnbornIsApart, GroupsAreMade, AliveHasGroup,
           HandedIsAlive
<1>5. AliveHasGroup' /\ LastOfGroup' /\ DeletedAtMostOnce'
    BY DEF HeldIsAlive, UnbornIsApart, AliveHasGroup, LastOfGroup,
           DeletedAtMostOnce
<1>6. CurrentIsOwned' /\ LeftIsNotCurrent' /\ OneThreadPerIsolate'
    BY DEF HeldIsAlive, UnbornIsApart, HandedIsAlive, CurrentIsOwned,
           ShutdownAnswers, LeftIsNotCurrent, OneThreadPerIsolate
<1> QED BY <1>1, <1>2, <1>3, <1>4, <1>5, <1>6

\* An isolate that is done is shut down by the thread that ran it.
LEMMA FinishKeeps ==
    ASSUME IInv, NEW t \in Threads, VMFinish(t)
    PROVE  IInv'
<1> USE DEF IInv, TypeOK, Owned, IdleOwnsNothing, VMFinish
<1>1. TypeOK'
    <2>1. frame' \in [Threads -> Frame]
        BY ShutdownFrame
    <2> QED BY <2>1
<1>2. Owned' /\ IdleOwnsNothing' /\ ShutdownAnswers' /\ ScopeIsOpen'
    BY DEF ShutdownAnswers, ScopeIsOpen
<1>3. HeldIsAlive' /\ HandedIsAlive'
    BY DEF HeldIsAlive, ShutdownAnswers, UnbornIsApart, HandedIsAlive
<1>4. UnbornIsApart' /\ GroupsAreMade'
    BY DEF HeldIsAlive, UnbornIsApart, GroupsAreMade, AliveHasGroup,
           HandedIsAlive
<1>5. AliveHasGroup' /\ LastOfGroup' /\ DeletedAtMostOnce'
    BY DEF HeldIsAlive, UnbornIsApart, AliveHasGroup, LastOfGroup,
           DeletedAtMostOnce
<1>6. CurrentIsOwned' /\ LeftIsNotCurrent' /\ OneThreadPerIsolate'
    BY DEF HeldIsAlive, UnbornIsApart, HandedIsAlive, CurrentIsOwned,
           ShutdownAnswers, LeftIsNotCurrent, OneThreadPerIsolate
<1> QED BY <1>1, <1>2, <1>3, <1>4, <1>5, <1>6

\* What is handed to the VM was left by the thread that hands it over.
LEMMA TakeKeeps ==
    ASSUME IInv, NEW t \in Threads, VMTake(t)
    PROVE  IInv'
<1> USE DEF IInv, TypeOK, Owned, IdleOwnsNothing, VMTake
<1>1. TypeOK'
    BY DEF ScopeIsOpen
<1>2. Owned' /\ IdleOwnsNothing' /\ ShutdownAnswers' /\ ScopeIsOpen'
    BY DEF ShutdownAnswers, ScopeIsOpen
<1>3. HeldIsAlive' /\ HandedIsAlive'
    BY DEF HeldIsAlive, ShutdownAnswers, UnbornIsApart, HandedIsAlive
<1>4. UnbornIsApart' /\ GroupsAreMade'
    BY DEF HeldIsAlive, UnbornIsApart, GroupsAreMade, AliveHasGroup,
           HandedIsAlive
<1>5. AliveHasGroup' /\ LastOfGroup' /\ DeletedAtMostOnce'
    BY DEF HeldIsAlive, UnbornIsApart, AliveHasGroup, LastOfGroup,
           DeletedAtMostOnce
<1>6. CurrentIsOwned' /\ LeftIsNotCurrent' /\ OneThreadPerIsolate'
    BY DEF HeldIsAlive, UnbornIsApart, HandedIsAlive, CurrentIsOwned,
           ShutdownAnswers, LeftIsNotCurrent, OneThreadPerIsolate
<1> QED BY <1>1, <1>2, <1>3, <1>4, <1>5, <1>6

\* What the VM runs nobody works on.
LEMMA RunKeeps ==
    ASSUME IInv, NEW t \in Threads, VMRun(t)
    PROVE  IInv'
<1> USE DEF IInv, TypeOK, Owned, IdleOwnsNothing, VMRun
<1>1. TypeOK'
    <2>1. frame' \in [Threads -> Frame]
        BY CallbackFrame
    <2> QED BY <2>1
<1>2. Owned' /\ IdleOwnsNothing' /\ ShutdownAnswers' /\ ScopeIsOpen'
    BY DEF ShutdownAnswers, ScopeIsOpen
<1>3. HeldIsAlive' /\ HandedIsAlive'
    BY DEF HeldIsAlive, ShutdownAnswers, UnbornIsApart, HandedIsAlive
<1>4. UnbornIsApart' /\ GroupsAreMade'
    <2>1. UnbornIsApart'
        BY DEF HeldIsAlive, UnbornIsApart, GroupsAreMade
    <2>2. GroupsAreMade'
        BY DEF HeldIsAlive, UnbornIsApart, GroupsAreMade, AliveHasGroup,
               HandedIsAlive
    <2> QED BY <2>1, <2>2
<1>5. AliveHasGroup' /\ LastOfGroup' /\ DeletedAtMostOnce'
    BY DEF HeldIsAlive, UnbornIsApart, AliveHasGroup, LastOfGroup,
           DeletedAtMostOnce
<1>6. CurrentIsOwned' /\ LeftIsNotCurrent' /\ OneThreadPerIsolate'
    BY DEF HeldIsAlive, UnbornIsApart, HandedIsAlive, CurrentIsOwned,
           ShutdownAnswers, LeftIsNotCurrent, OneThreadPerIsolate
<1> QED BY <1>1, <1>2, <1>3, <1>4, <1>5, <1>6

\* A new isolate joins the group of one that runs, so the group is there.
LEMMA SpawnKeeps ==
    ASSUME IInv, NEW t \in Threads, VMSpawn(t)
    PROVE  IInv'
<1> USE DEF IInv, TypeOK, Owned, IdleOwnsNothing, VMSpawn
<1>1. TypeOK'
    <2>1. frame' \in [Threads -> Frame]
        BY CallbackFrame
    <2> QED BY <2>1
<1>2. Owned' /\ IdleOwnsNothing' /\ ShutdownAnswers' /\ ScopeIsOpen'
    BY DEF ShutdownAnswers, ScopeIsOpen
<1>3. HeldIsAlive' /\ HandedIsAlive'
    BY DEF HeldIsAlive, ShutdownAnswers, UnbornIsApart, HandedIsAlive
<1>4. UnbornIsApart' /\ GroupsAreMade'
    BY DEF HeldIsAlive, UnbornIsApart, GroupsAreMade, AliveHasGroup,
           HandedIsAlive
<1>5. AliveHasGroup' /\ LastOfGroup' /\ DeletedAtMostOnce'
    BY DEF HeldIsAlive, UnbornIsApart, AliveHasGroup, LastOfGroup,
           DeletedAtMostOnce
<1>6. CurrentIsOwned' /\ LeftIsNotCurrent' /\ OneThreadPerIsolate'
    BY DEF HeldIsAlive, UnbornIsApart, HandedIsAlive, CurrentIsOwned,
           ShutdownAnswers, LeftIsNotCurrent, OneThreadPerIsolate
<1> QED BY <1>1, <1>2, <1>3, <1>4, <1>5, <1>6

\* A new group goes by a name that nobody has.
LEMMA SpawnUriKeeps ==
    ASSUME IInv, NEW t \in Threads, VMSpawnUri(t)
    PROVE  IInv'
<1> USE DEF IInv, TypeOK, Owned, IdleOwnsNothing, VMSpawnUri
<1>1. TypeOK'
    <2>1. frame' \in [Threads -> Frame]
        BY CallbackFrame
    <2> QED BY <2>1
<1>2. Owned' /\ IdleOwnsNothing' /\ ShutdownAnswers' /\ ScopeIsOpen'
    BY DEF ShutdownAnswers, ScopeIsOpen
<1>3. HeldIsAlive' /\ HandedIsAlive'
    BY DEF HeldIsAlive, ShutdownAnswers, UnbornIsApart, HandedIsAlive
<1>4. UnbornIsApart' /\ GroupsAreMade'
    <2>1. PICK i \in Isolates :
            Fresh(i) /\ Begin(t, "ci_read", i, i)
        OBVIOUS
    <2>2. \A u \in Threads \ {t} : frame'[u] = frame[u] /\ pc'[u] = pc[u]
        BY <2>1
    <2>3. /\ Me(t)' = i /\ MyGroup(t)' = i
          /\ pc'[t] \in Unborn /\ pc'[t] # "ci_create"
        BY <2>1
    <2>4. \A u \in Threads \ {t} : MyGroup(u) # i
        BY <2>1 DEF UnbornIsApart, GroupsAreMade
    <2>5. \A j \in Isolates : group[j] # i
        BY <2>1 DEF GroupsAreMade
    <2>6. UnbornIsApart'
        BY <2>1, <2>2, <2>3, <2>4, <2>5 DEF UnbornIsApart, GroupsAreMade
    <2>7. GroupsAreMade'
        BY <2>2, <2>3 DEF GroupsAreMade
    <2> QED BY <2>6, <2>7
<1>5. AliveHasGroup' /\ LastOfGroup' /\ DeletedAtMostOnce'
    BY DEF HeldIsAlive, UnbornIsApart, AliveHasGroup, LastOfGroup,
           DeletedAtMostOnce
<1>6. CurrentIsOwned' /\ LeftIsNotCurrent' /\ OneThreadPerIsolate'
    BY DEF HeldIsAlive, UnbornIsApart, HandedIsAlive, CurrentIsOwned,
           ShutdownAnswers, LeftIsNotCurrent, OneThreadPerIsolate
<1> QED BY <1>1, <1>2, <1>3, <1>4, <1>5, <1>6

\* The same for the kernel and the service isolate.
LEMMA BootKeeps ==
    ASSUME IInv, NEW t \in Threads, NEW k \in boot, VMBoot(t, k)
    PROVE  IInv'
<1> USE DEF IInv, TypeOK, Owned, IdleOwnsNothing, VMBoot
<1>1. TypeOK'
    <2>1. frame' \in [Threads -> Frame]
        BY CallbackFrame
    <2> QED BY <2>1
<1>2. Owned' /\ IdleOwnsNothing' /\ ShutdownAnswers' /\ ScopeIsOpen'
    BY DEF ShutdownAnswers, ScopeIsOpen
<1>3. HeldIsAlive' /\ HandedIsAlive'
    BY DEF HeldIsAlive, ShutdownAnswers, UnbornIsApart, HandedIsAlive
<1>4. UnbornIsApart' /\ GroupsAreMade'
    <2>1. PICK i \in Isolates :
            Fresh(i) /\ \E l \in {"ki_create", "si_create"} : Begin(t, l, i,
            i)
        OBVIOUS
    <2>2. \A u \in Threads \ {t} : frame'[u] = frame[u] /\ pc'[u] = pc[u]
        BY <2>1
    <2>3. /\ Me(t)' = i /\ MyGroup(t)' = i
          /\ pc'[t] \in Unborn /\ pc'[t] # "ci_create"
        BY <2>1
    <2>4. \A u \in Threads \ {t} : MyGroup(u) # i
        BY <2>1 DEF UnbornIsApart, GroupsAreMade
    <2>5. \A j \in Isolates : group[j] # i
        BY <2>1 DEF GroupsAreMade
    <2>6. UnbornIsApart'
        BY <2>1, <2>2, <2>3, <2>4, <2>5 DEF UnbornIsApart, GroupsAreMade
    <2>7. GroupsAreMade'
        BY <2>2, <2>3 DEF GroupsAreMade
    <2> QED BY <2>6, <2>7
<1>5. AliveHasGroup' /\ LastOfGroup' /\ DeletedAtMostOnce'
    BY DEF HeldIsAlive, UnbornIsApart, AliveHasGroup, LastOfGroup,
           DeletedAtMostOnce
<1>6. CurrentIsOwned' /\ LeftIsNotCurrent' /\ OneThreadPerIsolate'
    BY DEF HeldIsAlive, UnbornIsApart, HandedIsAlive, CurrentIsOwned,
           ShutdownAnswers, LeftIsNotCurrent, OneThreadPerIsolate
<1> QED BY <1>1, <1>2, <1>3, <1>4, <1>5, <1>6

-----------------------------------------------------------------------------
(* main: *)

\* main changes nothing of an isolate before it has one and after it had.
LEMMA MainKeeps ==
    ASSUME IInv,
           MainPlatform \/ MainCreateFailed
           \/ MainCleanup \/ MainEnds
    PROVE  IInv'
<1> USE DEF IInv, TypeOK, Owned, IdleOwnsNothing, MainPlatform,
            MainCreateFailed, MainCleanup, MainEnds
<1>1. TypeOK'
    <2>1. CASE MainPlatform
        BY <2>1 DEF ScopeIsOpen
    <2>2. CASE MainCreateFailed
        BY <2>2 DEF ScopeIsOpen
    <2>3. CASE MainCleanup
        BY <2>3 DEF ScopeIsOpen
    <2>4. CASE MainEnds
        BY <2>4 DEF ScopeIsOpen
    <2> QED BY <2>1, <2>2, <2>3, <2>4
<1>2. Owned' /\ IdleOwnsNothing' /\ ShutdownAnswers' /\ ScopeIsOpen'
    BY DEF ShutdownAnswers, ScopeIsOpen
<1>3. HeldIsAlive' /\ HandedIsAlive'
    BY DEF HeldIsAlive, ShutdownAnswers, UnbornIsApart, HandedIsAlive
<1>4. UnbornIsApart' /\ GroupsAreMade'
    BY DEF HeldIsAlive, UnbornIsApart, GroupsAreMade, AliveHasGroup,
           HandedIsAlive
<1>5. AliveHasGroup' /\ LastOfGroup' /\ DeletedAtMostOnce'
    BY DEF HeldIsAlive, UnbornIsApart, AliveHasGroup, LastOfGroup,
           DeletedAtMostOnce
<1>6. CurrentIsOwned' /\ LeftIsNotCurrent' /\ OneThreadPerIsolate'
    BY DEF HeldIsAlive, UnbornIsApart, HandedIsAlive, CurrentIsOwned,
           ShutdownAnswers, LeftIsNotCurrent, OneThreadPerIsolate
<1> QED BY <1>1, <1>2, <1>3, <1>4, <1>5, <1>6

\* The VM is up.
LEMMA MainInitializeKeeps ==
    ASSUME IInv, MainInitialize
    PROVE  IInv'
<1> USE DEF IInv, TypeOK, Owned, IdleOwnsNothing, MainInitialize
<1>1. TypeOK'
    <2>1. boot' \subseteq {"kernel", "service"}
        BY BootIsTyped
    <2> QED BY <2>1
<1>2. Owned' /\ IdleOwnsNothing' /\ ShutdownAnswers' /\ ScopeIsOpen'
    BY DEF ShutdownAnswers, ScopeIsOpen
<1>3. HeldIsAlive' /\ HandedIsAlive'
    BY DEF HeldIsAlive, ShutdownAnswers, UnbornIsApart, HandedIsAlive
<1>4. UnbornIsApart' /\ GroupsAreMade'
    BY DEF HeldIsAlive, UnbornIsApart, GroupsAreMade, AliveHasGroup,
           HandedIsAlive
<1>5. AliveHasGroup' /\ LastOfGroup' /\ DeletedAtMostOnce'
    BY DEF HeldIsAlive, UnbornIsApart, AliveHasGroup, LastOfGroup,
           DeletedAtMostOnce
<1>6. CurrentIsOwned' /\ LeftIsNotCurrent' /\ OneThreadPerIsolate'
    BY DEF HeldIsAlive, UnbornIsApart, HandedIsAlive, CurrentIsOwned,
           ShutdownAnswers, LeftIsNotCurrent, OneThreadPerIsolate
<1> QED BY <1>1, <1>2, <1>3, <1>4, <1>5, <1>6

\* main enters the isolate it has made.
LEMMA MainRunKeeps ==
    ASSUME IInv, MainRun
    PROVE  IInv'
<1> USE DEF IInv, TypeOK, Owned, IdleOwnsNothing, MainRun
<1>1. TypeOK'
    BY DEF ScopeIsOpen
<1>2. Owned' /\ IdleOwnsNothing' /\ ShutdownAnswers' /\ ScopeIsOpen'
    BY DEF ShutdownAnswers, ScopeIsOpen
<1>3. HeldIsAlive' /\ HandedIsAlive'
    BY DEF HeldIsAlive, ShutdownAnswers, UnbornIsApart, HandedIsAlive
<1>4. UnbornIsApart' /\ GroupsAreMade'
    BY DEF HeldIsAlive, UnbornIsApart, GroupsAreMade, AliveHasGroup,
           HandedIsAlive
<1>5. AliveHasGroup' /\ LastOfGroup' /\ DeletedAtMostOnce'
    BY DEF HeldIsAlive, UnbornIsApart, AliveHasGroup, LastOfGroup,
           DeletedAtMostOnce
<1>6. CurrentIsOwned' /\ LeftIsNotCurrent' /\ OneThreadPerIsolate'
    BY DEF HeldIsAlive, UnbornIsApart, HandedIsAlive, CurrentIsOwned,
           ShutdownAnswers, LeftIsNotCurrent, OneThreadPerIsolate
<1> QED BY <1>1, <1>2, <1>3, <1>4, <1>5, <1>6

\* main shuts it down again.
LEMMA MainLoopEndsKeeps ==
    ASSUME IInv, MainLoopEnds
    PROVE  IInv'
<1> USE DEF IInv, TypeOK, Owned, IdleOwnsNothing, MainLoopEnds
<1>1. TypeOK'
    <2>1. frame' \in [Threads -> Frame]
        BY ShutdownFrame
    <2>2. scopes' \in [Isolates -> Nat]
        BY DEF ScopeIsOpen
    <2> QED BY <2>1, <2>2
<1>2. Owned' /\ IdleOwnsNothing' /\ ShutdownAnswers' /\ ScopeIsOpen'
    BY DEF ShutdownAnswers, ScopeIsOpen
<1>3. HeldIsAlive' /\ HandedIsAlive'
    BY DEF HeldIsAlive, ShutdownAnswers, UnbornIsApart, HandedIsAlive
<1>4. UnbornIsApart' /\ GroupsAreMade'
    BY DEF HeldIsAlive, UnbornIsApart, GroupsAreMade, AliveHasGroup,
           HandedIsAlive
<1>5. AliveHasGroup' /\ LastOfGroup' /\ DeletedAtMostOnce'
    BY DEF HeldIsAlive, UnbornIsApart, AliveHasGroup, LastOfGroup,
           DeletedAtMostOnce
<1>6. CurrentIsOwned' /\ LeftIsNotCurrent' /\ OneThreadPerIsolate'
    BY DEF HeldIsAlive, UnbornIsApart, HandedIsAlive, CurrentIsOwned,
           ShutdownAnswers, LeftIsNotCurrent, OneThreadPerIsolate
<1> QED BY <1>1, <1>2, <1>3, <1>4, <1>5, <1>6

-----------------------------------------------------------------------------
\* main has a name for its isolate and nothing else is there.
LEMMA InitIInv == Init => IInv
<1> SUFFICES ASSUME Init PROVE IInv
    OBVIOUS
<1> USE DEF Init
<1>1. PICK i \in Isolates :
        frame = [t \in Threads |-> IF t = Main THEN FrameOf(i,
        i) ELSE NoFrame]
    OBVIOUS
<1>2. TypeOK
    BY <1>1 DEF TypeOK
<1>3. Owned /\ IdleOwnsNothing /\ HeldIsAlive /\ ShutdownAnswers
    BY <1>1 DEF Owned, IdleOwnsNothing, HeldIsAlive, ShutdownAnswers
<1>4. UnbornIsApart /\ GroupsAreMade
    BY <1>1 DEF UnbornIsApart, GroupsAreMade
<1>5. AliveHasGroup /\ LastOfGroup /\ DeletedAtMostOnce /\ HandedIsAlive
    BY DEF AliveHasGroup, LastOfGroup, DeletedAtMostOnce, HandedIsAlive
<1>6. CurrentIsOwned /\ LeftIsNotCurrent /\ ScopeIsOpen /\ OneThreadPerIsolate
    BY DEF CurrentIsOwned, LeftIsNotCurrent, ScopeIsOpen, OneThreadPerIsolate
<1> QED BY <1>2, <1>3, <1>4, <1>5, <1>6 DEF IInv

\* A state that does not change keeps it.
LEMMA StutterKeeps == ASSUME IInv, UNCHANGED vars PROVE IInv'
    BY DEF vars, IInv, TypeOK, Owned, IdleOwnsNothing, HeldIsAlive,
       ShutdownAnswers, UnbornIsApart, GroupsAreMade, AliveHasGroup,
       LastOfGroup, DeletedAtMostOnce, HandedIsAlive, CurrentIsOwned,
       LeftIsNotCurrent, ScopeIsOpen, OneThreadPerIsolate

\* The invariant of ownership holds whichever calls fail.
THEOREM Invariance == Spec => []IInv
<1>1. IInv /\ [Next]_vars => IInv'
    <2> SUFFICES ASSUME IInv, [Next]_vars PROVE IInv'
        OBVIOUS
    <2>1. CASE UNCHANGED vars
        BY <2>1, StutterKeeps
    <2>2. CASE MainStep
        BY <2>2, MainKeeps, MainInitializeKeeps, MainRunKeeps,
           MainLoopEndsKeeps DEF MainStep
    <2>3. ASSUME NEW t \in Threads, ThreadStep(t) PROVE IInv'
        <3>1. CASE CreateIsolate(t)
            BY <3>1, AbortKeeps, ReadScriptKeeps, CreateFromKernelKeeps,
               CreateGoesOnKeeps, CreateGoesWrongKeeps DEF CreateIsolate
        <3>2. CASE CreateAndSetupKernelIsolate(t) \/ CreateServiceIsolate(t)
            BY <3>2, AbortKeeps, KernelCreateKeeps, ServiceCreateKeeps,
               KernelCreateFailsKeeps, SystemSetupKeeps
               DEF CreateAndSetupKernelIsolate, CreateServiceIsolate
        <3>3. CASE OnIsolateInitialize(t)
            BY <3>3, InitializeKeeps, InitializeRunnableKeeps
               DEF OnIsolateInitialize
        <3>4. CASE OnIsolateShutdown(t) \/ DeleteIsolateData(t)
                   \/ DeleteIsolateGroupData(t)
            BY <3>4, ShutdownKeeps, DeleteIsolateDataKeeps,
               DeleteGroupDataKeeps
        <3>5. CASE CreateIsolateGroupAndSetup(t) \/ VMTake(t) \/ VMTerminate(t)
                   \/ VMFinish(t)
            BY <3>5, AnswerKeeps, TakeKeeps, FinishKeeps
        <3> QED BY <2>3, <3>1, <3>2, <3>3, <3>4, <3>5 DEF ThreadStep
    <2>4. ASSUME NEW t \in Threads, VMStep(t) PROVE IInv'
        BY <2>4, BootKeeps, SpawnUriKeeps, SpawnKeeps, RunKeeps, AnswerKeeps
           DEF VMStep
    <2> QED BY <2>1, <2>2, <2>3, <2>4 DEF Next, Over
<1> QED BY <1>1, InitIInv, PTL DEF Spec

\* Every variable keeps its type.
THEOREM TypeCorrect == Spec => []TypeOK
<1>1. IInv => TypeOK
    BY DEF IInv
<1> QED BY <1>1, Invariance, PTL

\* The data of a group and its kernel buffer outlive its isolates, however
\* isolates are spawned, fail to start and end (EmbeddedDart.cpp:170-445).
THEOREM MemoryIsSafe == Spec => []GroupOutlivesIsolates
<1>1. IInv => GroupOutlivesIsolates
    BY DEF IInv, AliveHasGroup, GroupOutlivesIsolates
<1> QED BY <1>1, Invariance, PTL

\* No data of an isolate or a group, and no kernel buffer, is deleted twice,
\* by whichever callbacks and error paths its last users leave.
THEOREM NothingDeletedTwice == Spec => []NoDoubleDelete
<1>1. IInv => NoDoubleDelete
    BY DEF IInv, DeletedAtMostOnce, NoDoubleDelete
<1> QED BY <1>1, Invariance, PTL

\* No two threads are ever in one isolate: each callback has left what it
\* hands to the VM (EmbeddedDart.cpp:216, 252, 334, 416).
THEOREM IsolatesAreExclusive == Spec => []OneThreadPerIsolate
<1>1. IInv => OneThreadPerIsolate
    BY DEF IInv
<1> QED BY <1>1, Invariance, PTL

-----------------------------------------------------------------------------
(* Scopes: one is open in an isolate exactly while the callback that       *)
(* opened it is in there and has not come to a way out.                    *)

\* Thread t is in isolate i, whose scope it opened.
KeepsOpen(t, i) == cur[t] = i /\ Me(t) = i /\ pc[t] \in ScopeOpen

\* Who has opened a scope, or is about to, is in the isolate, and has opened
\* one.
OneScope ==
    \A t \in Threads :
        /\ pc[t] \in ScopeOpen => scopes[Me(t)] = 1
        /\ pc[t] \in ScopeOpen \cup {"oi_start"} => cur[t] = Me(t)

\* A scope that is open has a thread to close it.
OpenIsKept ==
    \A i \in Isolates : scopes[i] # 0 => \E t \in Threads : KeepsOpen(t, i)

\* The isolate of a callback that has opened no scope has none open.
LEMMA ClosedOutside ==
    ASSUME IInv, OpenIsKept, NEW t \in Threads, Me(t) # None,
           pc[t] \notin ScopeOpen
    PROVE  scopes[Me(t)] = 0
<1>1. Me(t) \in Isolates
    BY DEF IInv, TypeOK
<1>2. ASSUME NEW u \in Threads, KeepsOpen(u, Me(t)) PROVE FALSE
    BY <1>2, <1>1 DEF IInv, KeepsOpen, Owned
<1> QED BY <1>1, <1>2 DEF OpenIsKept

\* A step of thread t, which touches no scope but that of its isolate, keeps
\* both where t has the scope it leaves open.
LEMMA ScopeStep ==
    ASSUME IInv, OneScope, OpenIsKept, NEW t \in Threads,
           \A u \in Threads \ {t} :
               pc'[u] = pc[u] /\ cur'[u] = cur[u] /\ frame'[u] = frame[u],
           \A i \in Isolates : i # Me(t) => scopes'[i] = scopes[i],
           \A i \in Isolates :
               i = Me(t) /\ scopes'[i] # 0 => KeepsOpen(t, i)',
           pc'[t] \in ScopeOpen => scopes'[frame'[t].isolate] = 1,
           pc'[t] \in ScopeOpen \cup {"oi_start"} =>
               cur'[t] = frame'[t].isolate
    PROVE  OneScope' /\ OpenIsKept'
<1>1. \A u \in Threads : Me(u) \in Isolates \cup {None}
    BY DEF IInv, TypeOK
<1>2. OneScope'
    <2>1. SUFFICES ASSUME NEW u \in Threads, u # t,
                          pc'[u] \in ScopeOpen \cup {"oi_start"}
                   PROVE  /\ pc'[u] \in ScopeOpen => scopes'[Me(u)] = 1
                          /\ cur'[u] = Me(u)
        BY DEF OneScope
    <2>2. Me(u) # None /\ Me(u) # Me(t)
        BY <2>1 DEF IInv, IdleOwnsNothing, Owned
    <2> QED BY <1>1, <2>1, <2>2 DEF OneScope
<1>3. OpenIsKept'
    <2>1. SUFFICES ASSUME NEW i \in Isolates, i # Me(t), scopes[i] # 0
                   PROVE  \E u \in Threads : KeepsOpen(u, i)'
        BY DEF OpenIsKept
    <2>2. PICK u \in Threads : KeepsOpen(u, i)
        BY <2>1 DEF OpenIsKept
    <2>3. u # t
        BY <2>1, <2>2 DEF KeepsOpen
    <2> QED BY <2>2, <2>3 DEF KeepsOpen
<1> QED BY <1>2, <1>3

\* The scope of a callback's isolate is open where the callback opened it.
LEMMA ScopeIsKnown ==
    ASSUME IInv, OneScope, OpenIsKept, NEW t \in Threads, Me(t) # None
    PROVE  /\ Me(t) \in Isolates
           /\ scopes[Me(t)] = IF pc[t] \in ScopeOpen THEN 1 ELSE 0
           /\ pc[t] \in ScopeOpen \cup {"oi_start"} => cur[t] = Me(t)
    BY ClosedOutside DEF OneScope, IInv, TypeOK

\* A step of a callback that goes on in its isolate.
LEMMA CallbackStep ==
    ASSUME IInv, OneScope, OpenIsKept, NEW t \in Threads, Me(t) # None,
           Me(t)' = Me(t),
           \A u \in Threads \ {t} :
               pc'[u] = pc[u] /\ cur'[u] = cur[u] /\ frame'[u] = frame[u],
           \A i \in Isolates : i # Me(t) => scopes'[i] = scopes[i],
           scopes'[Me(t)] # 0 => KeepsOpen(t, Me(t))',
           pc'[t] \in ScopeOpen => scopes'[Me(t)] = 1,
           pc'[t] \in ScopeOpen \cup {"oi_start"} => cur'[t] = Me(t)
    PROVE  OneScope' /\ OpenIsKept'
BY ScopeStep

\* CreateIsolate opens one scope and closes it on each way out, if the script
\* can be loaded.
LEMMA CreateKeepsScopes ==
    ASSUME IInv, OneScope, OpenIsKept, NEW t \in Threads,
           "LoadScript" \notin Failing, CreateIsolate(t)
    PROVE  OneScope' /\ OpenIsKept'
<1> USE DEF CreateIsolate, ReadScript, CreateFromKernel,
            CreateFromKernelFails,
            CompileAndReadScript, CompileFails, LoadScript, LoadFails,
            MakeRunnable, MakeRunnableFails, TypeOK
<1>1. Me(t) # None /\ TypeOK
    BY DEF IInv, IdleOwnsNothing
<1>2. /\ Me(t) \in Isolates
      /\ scopes[Me(t)] = IF pc[t] \in ScopeOpen THEN 1 ELSE 0
      /\ pc[t] \in ScopeOpen => cur[t] = Me(t)
    BY <1>1, ScopeIsKnown
<1>3. /\ Me(t)' = Me(t)
      /\ \A u \in Threads \ {t} :
           pc'[u] = pc[u] /\ cur'[u] = cur[u] /\ frame'[u] = frame[u]
      /\ \A i \in Isolates : i # Me(t) => scopes'[i] = scopes[i]
    BY <1>1, <1>2
<1>4. scopes'[Me(t)] # 0 => KeepsOpen(t, Me(t))'
    BY <1>1, <1>2, <1>3 DEF KeepsOpen, MayFail
<1>5. /\ pc'[t] \in ScopeOpen => scopes'[Me(t)] = 1
      /\ pc'[t] \in ScopeOpen \cup {"oi_start"} => cur'[t] = Me(t)
    BY <1>1, <1>2
<1> QED BY <1>1, <1>3, <1>4, <1>5, CallbackStep

\* The callbacks that make the kernel and the service isolate open one scope
\* and close it.
LEMMA SystemKeepsScopes ==
    ASSUME IInv, OneScope, OpenIsKept, NEW t \in Threads,
           CreateAndSetupKernelIsolate(t) \/ CreateServiceIsolate(t)
    PROVE  OneScope' /\ OpenIsKept'
<1> USE DEF CreateAndSetupKernelIsolate, KernelCreate, KernelCreateFails,
            KernelSetup, KernelRunnable, CreateServiceIsolate, ServiceCreate,
            ServiceSetup, ServiceAssertFails, TypeOK
<1>1. Me(t) # None /\ TypeOK
    BY DEF IInv, IdleOwnsNothing
<1>2. /\ Me(t) \in Isolates
      /\ scopes[Me(t)] = IF pc[t] \in ScopeOpen THEN 1 ELSE 0
      /\ pc[t] \in ScopeOpen => cur[t] = Me(t)
    BY <1>1, ScopeIsKnown
<1>3. /\ Me(t)' = Me(t)
      /\ \A u \in Threads \ {t} :
           pc'[u] = pc[u] /\ cur'[u] = cur[u] /\ frame'[u] = frame[u]
      /\ \A i \in Isolates : i # Me(t) => scopes'[i] = scopes[i]
    BY <1>1, <1>2
<1>4. scopes'[Me(t)] # 0 => KeepsOpen(t, Me(t))'
    BY <1>1, <1>2, <1>3 DEF KeepsOpen
<1>5. /\ pc'[t] \in ScopeOpen => scopes'[Me(t)] = 1
      /\ pc'[t] \in ScopeOpen \cup {"oi_start"} => cur'[t] = Me(t)
    BY <1>1, <1>2
<1> QED BY <1>1, <1>3, <1>4, <1>5, CallbackStep

\* OnIsolateInitialize closes its scope, if resolving the script does not
\* fail.
LEMMA InitializeKeepsScopes ==
    ASSUME IInv, OneScope, OpenIsKept, NEW t \in Threads,
           "ResolveScript" \notin Failing, OnIsolateInitialize(t)
    PROVE  OneScope' /\ OpenIsKept'
<1> USE DEF OnIsolateInitialize, InitializeStart, InitializeFails,
            ResolveFails, InitializeLeave, InitializeRunnable, TypeOK
<1>1. Me(t) # None /\ TypeOK
    BY DEF IInv, IdleOwnsNothing
<1>2. /\ Me(t) \in Isolates
      /\ scopes[Me(t)] = IF pc[t] \in ScopeOpen THEN 1 ELSE 0
      /\ pc[t] \in ScopeOpen \cup {"oi_start"} => cur[t] = Me(t)
    BY <1>1, ScopeIsKnown
<1>3. /\ Me(t)' = Me(t)
      /\ \A u \in Threads \ {t} :
           pc'[u] = pc[u] /\ cur'[u] = cur[u] /\ frame'[u] = frame[u]
      /\ \A i \in Isolates : i # Me(t) => scopes'[i] = scopes[i]
    BY <1>1, <1>2
<1>4. scopes'[Me(t)] # 0 => KeepsOpen(t, Me(t))'
    BY <1>1, <1>2, <1>3 DEF KeepsOpen, MayFail
<1>5. /\ pc'[t] \in ScopeOpen => scopes'[Me(t)] = 1
      /\ pc'[t] \in ScopeOpen \cup {"oi_start"} => cur'[t] = Me(t)
    BY <1>1, <1>2
<1> QED BY <1>1, <1>3, <1>4, <1>5, CallbackStep

\* A shutdown begins in a callback that has no scope open, and so does the VM
\* when a callback has answered.
LEMMA ShutdownKeepsScopes ==
    ASSUME IInv, OneScope, OpenIsKept, NEW t \in Threads,
           \/ OnIsolateShutdown(t) \/ DeleteIsolateData(t)
           \/ DeleteIsolateGroupData(t) \/ VMTerminate(t) \/ VMFinish(t)
           \/ VMYield(t) \/ VMTake(t)
           \/ t \in VMThreads /\ CreateIsolateGroupAndSetup(t)
    PROVE  OneScope' /\ OpenIsKept'
<1> USE DEF OnIsolateShutdown, DeleteIsolateData, DeleteIsolateGroupData,
            VMTerminate, VMFinish, VMYield, VMTake,
            CreateIsolateGroupAndSetup, TypeOK
<1>1. Me(t) # None /\ TypeOK /\ pc[t] # "idle"
    BY DEF IInv, IdleOwnsNothing
<1>2. Me(t) \in Isolates /\ scopes[Me(t)] = 0
    BY <1>1, ScopeIsKnown
<1>3. /\ \A u \in Threads \ {t} :
           pc'[u] = pc[u] /\ cur'[u] = cur[u] /\ frame'[u] = frame[u]
      /\ \A i \in Isolates : scopes'[i] = scopes[i]
      /\ pc'[t] \notin ScopeOpen \cup {"oi_start"}
    BY <1>1, <1>2 DEF IInv, ShutdownAnswers
<1> QED BY <1>1, <1>2, <1>3, ScopeStep

\* A callback begins on a pool thread that was in no isolate.
LEMMA BeginKeepsScopes ==
    ASSUME IInv, OneScope, OpenIsKept, NEW t \in Threads,
           \/ \E k \in boot : VMBoot(t, k)
           \/ VMSpawnUri(t) \/ VMSpawn(t) \/ VMRun(t)
    PROVE  OneScope' /\ OpenIsKept'
<1> USE DEF VMBoot, VMSpawnUri, VMSpawn, VMRun, TypeOK
<1>1. Me(t) = None /\ TypeOK /\ cur[t] = None /\ pc[t] = "idle"
    BY DEF IInv, IdleOwnsNothing
<1>2. /\ \A u \in Threads \ {t} :
           pc'[u] = pc[u] /\ cur'[u] = cur[u] /\ frame'[u] = frame[u]
      /\ scopes' = scopes
      /\ pc'[t] \notin ScopeOpen
    BY <1>1
<1>3. pc'[t] = "oi_start" => cur'[t] = frame'[t].isolate
    BY <1>1
<1> QED BY <1>1, <1>2, <1>3, ScopeStep

\* main closes the scope it opens.
LEMMA MainKeepsScopes ==
    ASSUME IInv, OneScope, OpenIsKept, MainStep
    PROVE  OneScope' /\ OpenIsKept'
<1> USE DEF MainStep, MainPlatform, MainInitialize, MainCreateFailed, MainRun,
            MainLoopEnds, MainCleanup, MainEnds, TypeOK
<1>1. TypeOK /\ Main \in Threads
    BY DEF IInv
<1>2. CASE MainCreateFailed \/ MainEnds
           \/ ((MainPlatform \/ MainInitialize) /\ pc' = pc)
    BY <1>2 DEF OneScope, OpenIsKept, KeepsOpen
<1>3. CASE MainRun \/ MainLoopEnds \/ MainCleanup
           \/ ((MainPlatform \/ MainInitialize) /\ pc' # pc)
    <2>1. Me(Main) # None
        BY <1>1, <1>3 DEF IInv, IdleOwnsNothing
    <2>2. /\ Me(Main) \in Isolates
          /\ scopes[Me(Main)] = IF pc[Main] \in ScopeOpen THEN 1 ELSE 0
          /\ pc[Main] \in ScopeOpen => cur[Main] = Me(Main)
        BY <1>1, <2>1, ScopeIsKnown
    <2>3. /\ Me(Main)' = Me(Main)
          /\ \A u \in Threads \ {Main} :
               pc'[u] = pc[u] /\ cur'[u] = cur[u] /\ frame'[u] = frame[u]
          /\ \A i \in Isolates : i # Me(Main) => scopes'[i] = scopes[i]
        BY <1>1, <1>3, <2>2
    <2>4. scopes'[Me(Main)] # 0 => KeepsOpen(Main, Me(Main))'
        BY <1>1, <1>3, <2>2, <2>3 DEF KeepsOpen
    <2>5. /\ pc'[Main] \in ScopeOpen => scopes'[Me(Main)] = 1
          /\ pc'[Main] \in ScopeOpen \cup {"oi_start"} => cur'[Main] = Me(Main)
        BY <1>1, <1>3, <2>2
    <2> QED BY <1>1, <2>1, <2>3, <2>4, <2>5, CallbackStep
<1> QED BY <1>2, <1>3 DEF MainStep

\* Each callback, CreateIsolate and main have closed the scope they opened
\* when they answer, return or call Dart_ShutdownIsolate, however many threads
\* work on however many isolates, and an isolate no thread is in has none
\* open.  This is so as long as two calls do not fail whose errors the code
\* returns with the scope open: Dart_LoadScriptFromKernel in CreateIsolate
\* (EmbeddedDart.cpp:327-331) and ResolveScript in OnIsolateInitialize (402).
THEOREM ScopesAreBalanced ==
    ASSUME "LoadScript" \notin Failing, "ResolveScript" \notin Failing
    PROVE  Spec => []ScopesBalanced
<1>1. Init => OneScope /\ OpenIsKept
    <2> SUFFICES ASSUME Init PROVE OneScope /\ OpenIsKept
        OBVIOUS
    <2> QED BY DEF Init, OneScope, OpenIsKept
<1>2. IInv /\ OneScope /\ OpenIsKept /\ [Next]_vars => OneScope' /\ OpenIsKept'
    <2> SUFFICES ASSUME IInv, OneScope, OpenIsKept, [Next]_vars
                 PROVE  OneScope' /\ OpenIsKept'
        OBVIOUS
    <2>1. CASE UNCHANGED vars
        BY <2>1 DEF vars, OneScope, OpenIsKept, KeepsOpen
    <2>2. CASE MainStep
        BY <2>2, MainKeepsScopes
    <2>3. ASSUME NEW t \in Threads,
    ThreadStep(t) PROVE OneScope' /\ OpenIsKept'
        BY <2>3, CreateKeepsScopes, SystemKeepsScopes, InitializeKeepsScopes,
           ShutdownKeepsScopes DEF ThreadStep
    <2>4. ASSUME NEW t \in Threads, VMStep(t) PROVE OneScope' /\ OpenIsKept'
        <3>1. CASE VMYield(t)
            BY <3>1, ShutdownKeepsScopes
        <3> QED BY <2>4, <3>1, BeginKeepsScopes DEF VMStep
    <2> QED BY <2>1, <2>2, <2>3, <2>4 DEF Next, Over
<1>3. IInv /\ OpenIsKept => ScopesBalanced
    BY DEF OpenIsKept, KeepsOpen, ScopesBalanced, Leaves, IInv, Owned
<1> QED BY <1>1, <1>2, <1>3, Invariance, PTL DEF Spec

-----------------------------------------------------------------------------
(* What is made is released: every live isolate is held by somebody who    *)
(* will end it, and what is live of the memory belongs to a live isolate.  *)

\* Thread t answers for isolate i.
KeptBy(t, i) == Me(t) = i /\ (Holds(t) \/ (t = Main /\ Returning(t)))

\* Without spawnUri the VM asks for no group but the system isolates'.
OnlyMainCreates ==
    /\ \A t \in VMThreads :
         pc[t] \notin CreateLabels \cup {"returned"} /\ frame[t].next = "idle"
    /\ pc[Main] \in MainLabels \cup CreateLabels \cup ShutdownLabels
                     \cup {"returned"}
    /\ pc[Main] \in ShutdownLabels => frame[Main].next # "idle"

\* A live isolate has been handed to the VM or is in the hands of a thread.
AliveIsHeld ==
    \A i \in Isolates : state[i] = "alive" =>
        i \in handed \/ \E t \in Threads : KeptBy(t, i)

RunIsHanded == \A t \in Threads : pc[t] = "run" => Me(t) \in handed

DataIsAlive == \A i \in Isolates : idata[i] = "live" => state[i] = "alive"

\* The data of a group has a live isolate in the group, a thread about to
\* create the first or one about to clean the group up.
GroupIsUsed ==
    \A g \in Isolates : gdata[g] = "live" =>
        \/ \E i \in Isolates : state[i] = "alive" /\ group[i] = g
        \/ \E t \in Threads :
             MyGroup(t) = g /\ pc[t] \in {"ci_create", "sd_group"}

BufferIsLive == \A g \in Isolates : kbuf[g] = "owned" => gdata[g] = "live"

\* Where Dart_Initialize can fail, the VM has nothing to do yet.
QuietAtFirst ==
    pc[Main] \in {"m_platform", "m_initialize"} =>
        vm = "down" /\ handed = {} /\ \A t \in VMThreads : pc[t] = "idle"

LInv ==
    /\ OnlyMainCreates
    /\ AliveIsHeld
    /\ RunIsHanded
    /\ DataIsAlive
    /\ GroupIsUsed
    /\ BufferIsLive
    /\ QuietAtFirst

\* The failures the code recovers from.  The others leave an isolate behind
\* that is not shut down and cannot be run, so that nobody ever ends it; and
\* where a child isolate may not be initialized the VM is relied on to end it.
OnlyRecoverable ==
    /\ Failing \cap {"LoadScript", "ResolveScript", "KernelMakeRunnable"} = {}
    /\ "VmServiceSetup" \in Failing => Debug
    /\ \/ VMTerminates
       \/ Failing \cap {"SetupCoreLibraries", "StringToCString",
                        "ChildMakeRunnable"} = {}

\* What the VM is handed, or is about to be, can be run.
HandedIsRunnable ==
    /\ handed \subseteq runnable
    /\ \A t \in VMThreads :
         pc[t] = "answered" /\ frame[t].answer \in {"isolate", "true"} =>
         Me(t) \in runnable

FalseIsTerminated ==
    \A t \in VMThreads :
        pc[t] = "answered" /\ frame[t].answer = "false" => VMTerminates

\* main has not run its isolate yet.
MainIsEarly ==
    \/ pc[Main] \in {"m_platform", "m_initialize", "returned"} \cup CreateLabels
    \/ pc[Main] \in ShutdownLabels /\ frame[Main].next = "returned"

\* main's isolate is not the VM's to run, and until it runs it is the only one
\* in its group.
MainIsAlone ==
    /\ Me(Main) \in Isolates /\ MyGroup(Main) = Me(Main)
    /\ Me(Main) \notin handed
    /\ MainIsEarly =>
         /\ \A t \in VMThreads : MyGroup(t) # Me(Main)
         /\ \A i \in Isolates : i # Me(Main) => group[i] # Me(Main)

\* Where CreateIsolate returns NULL to main, the isolate has been shut down.
MainNullIsDead ==
    \/ pc[Main] = "sd_group"
    \/ pc[Main] = "returned" /\ frame[Main].answer = "null"
    => state[Me(Main)] # "alive"

RInv ==
    /\ HandedIsRunnable
    /\ FalseIsTerminated
    /\ MainIsAlone
    /\ MainNullIsDead

\* A thread that goes on holding its isolate, and ends no other, leaves every
\* live isolate held.
LEMMA StaysHeld ==
    ASSUME AliveIsHeld, NEW t \in Threads, handed' = handed,
           \A u \in Threads : u # t => pc'[u] = pc[u] /\ frame'[u] = frame[u],
           \A i \in Isolates :
             i # Me(t) /\ state'[i] = "alive" => state[i] = "alive",
           Me(t)' = Me(t), state'[Me(t)] = "alive" => KeptBy(t, Me(t))'
    PROVE  AliveIsHeld'
<1>1. \A u \in Threads, i \in Isolates :
        u # t /\ KeptBy(u, i) => KeptBy(u, i)'
    BY DEF KeptBy, Holds, Returning, Me
<1> QED BY <1>1 DEF AliveIsHeld, KeptBy

\* main makes its group, its isolate and the isolate's data in this order, and
\* a failure leaves all of them to a shutdown or to main.
LEMMA CreateLosesNothing ==
    ASSUME IInv, LInv, ~SpawnUri, NEW t \in Threads, CreateIsolate(t)
    PROVE  LInv'
<1> USE DEF IInv, TypeOK, Owned, IdleOwnsNothing, LInv, OnlyMainCreates,
            CreateIsolate, ReadScript, CreateFromKernel,
            CreateFromKernelFails, CompileAndReadScript, CompileFails,
            LoadScript, LoadFails, MakeRunnable, MakeRunnableFails
<1>1. OnlyMainCreates'
    OBVIOUS
<1>2. AliveIsHeld'
    <2>1. handed' = handed /\ Me(t)' = Me(t)
        OBVIOUS
    <2>2. \A u \in Threads : u # t => pc'[u] = pc[u] /\ frame'[u] = frame[u]
        OBVIOUS
    <2>3. \A i \in Isolates :
            i # Me(t) /\ state'[i] = "alive" => state[i] = "alive"
        OBVIOUS
    <2>4. state'[Me(t)] = "alive" => KeptBy(t, Me(t))'
        BY DEF KeptBy, UnbornIsApart
    <2> QED BY <2>1, <2>2, <2>3, <2>4, StaysHeld
<1>3. RunIsHanded' /\ DataIsAlive'
    BY DEF RunIsHanded, DataIsAlive, UnbornIsApart, HandedIsAlive,
           HeldIsAlive, DeletedAtMostOnce
<1>4. BufferIsLive' /\ QuietAtFirst'
    BY DEF BufferIsLive, QuietAtFirst, UnbornIsApart, HandedIsAlive,
           LastOfGroup, DeletedAtMostOnce, HeldIsAlive, AliveHasGroup
<1>5. GroupIsUsed'
    <2>1. CASE ReadScript(t)
        <3>1. \A u \in Threads : pc[u] \in {"ci_create", "sd_group"} =>
                pc'[u] = pc[u] /\ MyGroup(u)' = MyGroup(u)
            BY <2>1
        <3>2. MyGroup(t)' = MyGroup(t) /\ pc'[t] = "ci_create"
            BY <2>1
        <3> QED BY <2>1, <3>1, <3>2 DEF GroupIsUsed
    <2>2. CASE CreateFromKernel(t)
        <3>1. state'[Me(t)] = "alive" /\ group'[Me(t)] = MyGroup(t)
            BY <2>2
        <3>2. \A i \in Isolates :
                i # Me(t) => state'[i] = state[i] /\ group'[i] = group[i]
            BY <2>2
        <3>3. \A u \in Threads :
                u # t => pc'[u] = pc[u] /\ MyGroup(u)' = MyGroup(u)
            BY <2>2
        <3>4. Me(t) \in Isolates /\ state[Me(t)] = "unused"
            BY <2>2 DEF UnbornIsApart
        <3> QED BY <2>2, <3>1, <3>2, <3>3, <3>4 DEF GroupIsUsed
    <2>3. CASE ~ReadScript(t) /\ ~CreateFromKernel(t)
        <3>1. gdata' = gdata /\ state' = state /\ group' = group
            BY <2>3
        <3>2. \A u \in Threads : pc[u] \in {"ci_create", "sd_group"} =>
                pc'[u] = pc[u] /\ MyGroup(u)' = MyGroup(u)
            BY <2>3
        <3> QED BY <3>1, <3>2 DEF GroupIsUsed
    <2> QED BY <2>1, <2>2, <2>3
<1> QED BY <1>1, <1>2, <1>3, <1>4, <1>5 DEF LInv

\* A kernel or service isolate is answered, with its data and its group, or
\* has had both deleted.
LEMMA SystemLosesNothing ==
    ASSUME IInv, LInv, ~SpawnUri, NEW t \in Threads,
           CreateAndSetupKernelIsolate(t) \/ CreateServiceIsolate(t)
    PROVE  LInv'
<1> USE DEF IInv, TypeOK, Owned, IdleOwnsNothing, LInv, OnlyMainCreates,
            CreateAndSetupKernelIsolate, KernelCreate, KernelCreateFails,
            KernelSetup, KernelRunnable, CreateServiceIsolate, ServiceCreate,
            ServiceSetup, ServiceAssertFails
<1>1. OnlyMainCreates'
    OBVIOUS
<1>2. AliveIsHeld'
    <2>1. handed' = handed /\ Me(t)' = Me(t)
        OBVIOUS
    <2>2. \A u \in Threads : u # t => pc'[u] = pc[u] /\ frame'[u] = frame[u]
        OBVIOUS
    <2>3. \A i \in Isolates :
            i # Me(t) /\ state'[i] = "alive" => state[i] = "alive"
        OBVIOUS
    <2>4. state'[Me(t)] = "alive" => KeptBy(t, Me(t))'
        BY DEF KeptBy, UnbornIsApart
    <2> QED BY <2>1, <2>2, <2>3, <2>4, StaysHeld
<1>3. RunIsHanded' /\ DataIsAlive'
    BY DEF RunIsHanded, DataIsAlive, UnbornIsApart, HandedIsAlive,
           HeldIsAlive, DeletedAtMostOnce
<1>4. BufferIsLive' /\ QuietAtFirst'
    BY DEF BufferIsLive, QuietAtFirst, UnbornIsApart, HandedIsAlive,
           LastOfGroup, DeletedAtMostOnce, HeldIsAlive, AliveHasGroup
<1>5. GroupIsUsed'
    <2>1. \A u \in Threads : pc[u] \in {"ci_create", "sd_group"} =>
            u # t /\ pc'[u] = pc[u] /\ MyGroup(u)' = MyGroup(u)
        OBVIOUS
    <2>2. CASE KernelCreate(t) \/ ServiceCreate(t)
        <3>1. /\ Me(t) \in Isolates /\ MyGroup(t) = Me(t)
              /\ state[Me(t)] = "unused"
            BY <2>2 DEF UnbornIsApart
        <3>2. state'[Me(t)] = "alive" /\ group'[Me(t)] = Me(t)
            BY <2>2, <3>1
        <3>3. /\ \A i \in Isolates :
                   i # Me(t) => state'[i] = state[i] /\ group'[i] = group[i]
              /\ \A g \in Isolates : g # Me(t) => gdata'[g] = gdata[g]
            BY <2>2, <3>1
        <3> QED BY <2>1, <3>1, <3>2, <3>3 DEF GroupIsUsed
    <2>3. CASE ~KernelCreate(t) /\ ~ServiceCreate(t)
        <3>1. state' = state /\ group' = group
            BY <2>3
        <3>2. \A g \in Isolates : gdata'[g] = "live" => gdata[g] = "live"
            BY <2>3
        <3> QED BY <2>1, <3>1, <3>2 DEF GroupIsUsed
    <2> QED BY <2>2, <2>3
<1> QED BY <1>1, <1>2, <1>3, <1>4, <1>5 DEF LInv

\* An isolate that is initialized, or was not, is answered with its data.
LEMMA InitializeLosesNothing ==
    ASSUME IInv, LInv, ~SpawnUri, NEW t \in Threads, OnIsolateInitialize(t)
    PROVE  LInv'
<1> USE DEF IInv, TypeOK, Owned, IdleOwnsNothing, LInv, OnlyMainCreates,
            OnIsolateInitialize, InitializeStart, InitializeFails,
            ResolveFails, InitializeLeave, InitializeRunnable
<1>1. OnlyMainCreates'
    OBVIOUS
<1>2. AliveIsHeld'
    <2>1. handed' = handed /\ Me(t)' = Me(t)
        OBVIOUS
    <2>2. \A u \in Threads : u # t => pc'[u] = pc[u] /\ frame'[u] = frame[u]
        OBVIOUS
    <2>3. \A i \in Isolates :
            i # Me(t) /\ state'[i] = "alive" => state[i] = "alive"
        OBVIOUS
    <2>4. state'[Me(t)] = "alive" => KeptBy(t, Me(t))'
        BY DEF KeptBy, UnbornIsApart
    <2> QED BY <2>1, <2>2, <2>3, <2>4, StaysHeld
<1>3. RunIsHanded' /\ DataIsAlive'
    BY DEF RunIsHanded, DataIsAlive, UnbornIsApart, HandedIsAlive,
           HeldIsAlive, DeletedAtMostOnce
<1>4. BufferIsLive' /\ QuietAtFirst'
    BY DEF BufferIsLive, QuietAtFirst, UnbornIsApart, HandedIsAlive,
           LastOfGroup, DeletedAtMostOnce, HeldIsAlive, AliveHasGroup
<1>5. GroupIsUsed'
    <2>1. gdata' = gdata /\ state' = state /\ group' = group
        OBVIOUS
    <2>2. \A u \in Threads : pc[u] \in {"ci_create", "sd_group"} =>
            pc'[u] = pc[u] /\ MyGroup(u)' = MyGroup(u)
        OBVIOUS
    <2> QED BY <2>1, <2>2 DEF GroupIsUsed
<1> QED BY <1>1, <1>2, <1>3, <1>4, <1>5 DEF LInv

\* What a callback answers the VM runs or terminates.
LEMMA AnswerLosesNothing ==
    ASSUME IInv, LInv, RInv, ~SpawnUri, NEW t \in Threads,
           \/ OnIsolateShutdown(t) \/ VMTerminate(t) \/ VMFinish(t)
           \/ VMYield(t) \/ VMTake(t)
    PROVE  LInv'
<1> USE DEF IInv, TypeOK, Owned, IdleOwnsNothing, LInv, OnlyMainCreates,
            OnIsolateShutdown, VMTerminate, VMFinish, VMYield, VMTake
<1>1. OnlyMainCreates'
    OBVIOUS
<1>2. AliveIsHeld'
    BY DEF AliveIsHeld, KeptBy, UnbornIsApart, ShutdownAnswers,
           HandedIsAlive, HeldIsAlive, RunIsHanded, RInv, FalseIsTerminated
<1>3. RunIsHanded' /\ DataIsAlive'
    BY DEF RunIsHanded, DataIsAlive, UnbornIsApart, HandedIsAlive,
           HeldIsAlive, DeletedAtMostOnce
<1>4. BufferIsLive' /\ QuietAtFirst'
    BY DEF BufferIsLive, QuietAtFirst, UnbornIsApart, HandedIsAlive,
           LastOfGroup, DeletedAtMostOnce, HeldIsAlive, AliveHasGroup
<1>5. GroupIsUsed'
    BY DEF GroupIsUsed, UnbornIsApart, HeldIsAlive, GroupsAreMade,
           AliveHasGroup, LastOfGroup
<1> QED BY <1>1, <1>2, <1>3, <1>4, <1>5 DEF LInv

\* The last isolate that dies in a group leaves the group to its thread.
LEMMA DeleteDataLosesNothing ==
    ASSUME IInv, LInv, ~SpawnUri, NEW t \in Threads, DeleteIsolateData(t)
    PROVE  LInv'
<1> USE DEF IInv, TypeOK, Owned, IdleOwnsNothing, LInv, OnlyMainCreates,
            DeleteIsolateData
<1>1. OnlyMainCreates'
    OBVIOUS
<1>2. AliveIsHeld'
    <2>1. \A u \in Threads : u # t => pc'[u] = pc[u] /\ frame'[u] = frame[u]
        OBVIOUS
    <2>2. ASSUME NEW i \in Isolates, i # Me(t), state'[i] = "alive"
          PROVE  i \in handed' \/ \E u \in Threads : KeptBy(u, i)'
        <3>1. state[i] = "alive"
            BY <2>2
        <3>2. i \in handed => i \in handed'
            BY <2>2
        <3>3. ASSUME NEW u \in Threads, KeptBy(u, i) PROVE KeptBy(u, i)'
            BY <2>1, <2>2, <3>3 DEF KeptBy
        <3> QED BY <3>1, <3>2, <3>3 DEF AliveIsHeld
    <2>3. Me(t) \in Isolates /\ state'[Me(t)] # "alive"
        OBVIOUS
    <2> QED BY <2>2, <2>3 DEF AliveIsHeld
<1>3. RunIsHanded' /\ DataIsAlive'
    BY DEF RunIsHanded, DataIsAlive, UnbornIsApart, HandedIsAlive,
           HeldIsAlive, DeletedAtMostOnce
<1>4. BufferIsLive' /\ QuietAtFirst'
    BY DEF BufferIsLive, QuietAtFirst, UnbornIsApart, HandedIsAlive,
           LastOfGroup, DeletedAtMostOnce, HeldIsAlive, AliveHasGroup
<1>5. GroupIsUsed'
    <2>1. \A u \in Threads : u # t =>
            pc'[u] = pc[u] /\ MyGroup(u)' = MyGroup(u)
        OBVIOUS
    <2>2. /\ Me(t) \in Isolates /\ group[Me(t)] = MyGroup(t)
          /\ gdata' = gdata /\ group' = group
          /\ \A i \in Isolates : i # Me(t) => state'[i] = state[i]
        BY DEF HeldIsAlive
    <2>3. CASE \E j \in Isolates \ {Me(t)} :
                 state[j] = "alive" /\ group[j] = group[Me(t)]
        BY <2>1, <2>2, <2>3 DEF GroupIsUsed
    <2>4. CASE ~\E j \in Isolates \ {Me(t)} :
                  state[j] = "alive" /\ group[j] = group[Me(t)]
        <3>1. pc'[t] = "sd_group" /\ MyGroup(t)' = MyGroup(t)
            BY <2>4
        <3> QED BY <2>1, <2>2, <3>1 DEF GroupIsUsed
    <2> QED BY <2>3, <2>4
<1> QED BY <1>1, <1>2, <1>3, <1>4, <1>5 DEF LInv

\* The buffer goes with the group.
LEMMA DeleteGroupLosesNothing ==
    ASSUME IInv, LInv, ~SpawnUri, NEW t \in Threads,
           DeleteIsolateGroupData(t)
    PROVE  LInv'
<1> USE DEF IInv, TypeOK, Owned, IdleOwnsNothing, LInv, OnlyMainCreates,
            DeleteIsolateGroupData
<1>1. OnlyMainCreates'
    OBVIOUS
<1>2. AliveIsHeld'
    BY DEF AliveIsHeld, KeptBy, UnbornIsApart, ShutdownAnswers,
           HandedIsAlive, HeldIsAlive, RunIsHanded
<1>3. RunIsHanded' /\ DataIsAlive'
    BY DEF RunIsHanded, DataIsAlive, UnbornIsApart, HandedIsAlive,
           HeldIsAlive, DeletedAtMostOnce
<1>4. BufferIsLive' /\ QuietAtFirst'
    BY DEF BufferIsLive, QuietAtFirst, UnbornIsApart, HandedIsAlive,
           LastOfGroup, DeletedAtMostOnce, HeldIsAlive, AliveHasGroup
<1>5. GroupIsUsed'
    BY DEF GroupIsUsed, UnbornIsApart, HeldIsAlive, GroupsAreMade,
           AliveHasGroup, LastOfGroup
<1> QED BY <1>1, <1>2, <1>3, <1>4, <1>5 DEF LInv

\* A callback begins, or an isolate the VM was handed is run.
LEMMA BeginLosesNothing ==
    ASSUME IInv, LInv, ~SpawnUri, NEW t \in Threads,
           (\E k \in boot : VMBoot(t, k)) \/ VMSpawnUri(t) \/ VMRun(t)
    PROVE  LInv'
<1> USE DEF IInv, TypeOK, Owned, IdleOwnsNothing, LInv, OnlyMainCreates,
            VMBoot, VMSpawnUri, VMRun
<1>1. OnlyMainCreates'
    OBVIOUS
<1>2. AliveIsHeld'
    <2>1. \A u \in Threads : u # t => pc'[u] = pc[u] /\ frame'[u] = frame[u]
        OBVIOUS
    <2>2. ASSUME NEW i \in Isolates, i # Me(t), state'[i] = "alive"
          PROVE  i \in handed' \/ \E u \in Threads : KeptBy(u, i)'
        <3>1. state[i] = "alive"
            BY <2>2
        <3>2. i \in handed => i \in handed'
            BY <2>2
        <3>3. ASSUME NEW u \in Threads, KeptBy(u, i) PROVE KeptBy(u, i)'
            BY <2>1, <2>2, <3>3 DEF KeptBy
        <3> QED BY <3>1, <3>2, <3>3 DEF AliveIsHeld
    <2>3. Me(t) = None
        OBVIOUS
    <2> QED BY <2>2, <2>3 DEF AliveIsHeld
<1>3. RunIsHanded' /\ DataIsAlive'
    BY DEF RunIsHanded, DataIsAlive, UnbornIsApart, HandedIsAlive,
           HeldIsAlive, DeletedAtMostOnce
<1>4. BufferIsLive' /\ QuietAtFirst'
    BY DEF BufferIsLive, QuietAtFirst, UnbornIsApart, HandedIsAlive,
           LastOfGroup, DeletedAtMostOnce, HeldIsAlive, AliveHasGroup
<1>5. GroupIsUsed'
    <2>1. gdata' = gdata /\ state' = state /\ group' = group
        OBVIOUS
    <2>2. \A u \in Threads : pc[u] \in {"ci_create", "sd_group"} =>
            pc'[u] = pc[u] /\ MyGroup(u)' = MyGroup(u)
        OBVIOUS
    <2> QED BY <2>1, <2>2 DEF GroupIsUsed
<1> QED BY <1>1, <1>2, <1>3, <1>4, <1>5 DEF LInv

\* A spawned isolate is alive before its callback begins.
LEMMA SpawnLosesNothing ==
    ASSUME IInv, LInv, ~SpawnUri, NEW t \in Threads, VMSpawn(t)
    PROVE  LInv'
<1> USE DEF IInv, TypeOK, Owned, IdleOwnsNothing, LInv, OnlyMainCreates,
            VMSpawn
<1>1. OnlyMainCreates'
    OBVIOUS
<1>2. AliveIsHeld'
    BY DEF AliveIsHeld, KeptBy, UnbornIsApart, ShutdownAnswers,
           HandedIsAlive, HeldIsAlive, RunIsHanded
<1>3. RunIsHanded' /\ DataIsAlive'
    BY DEF RunIsHanded, DataIsAlive, UnbornIsApart, HandedIsAlive,
           HeldIsAlive, DeletedAtMostOnce
<1>4. BufferIsLive' /\ QuietAtFirst'
    BY DEF BufferIsLive, QuietAtFirst, UnbornIsApart, HandedIsAlive,
           LastOfGroup, DeletedAtMostOnce, HeldIsAlive, AliveHasGroup
<1>5. GroupIsUsed'
    BY DEF GroupIsUsed, UnbornIsApart, HeldIsAlive, GroupsAreMade,
           AliveHasGroup, LastOfGroup
<1> QED BY <1>1, <1>2, <1>3, <1>4, <1>5 DEF LInv

\* main waits in Dart_Cleanup for all the VM was handed.
LEMMA MainLosesNothing ==
    ASSUME IInv, LInv, ~SpawnUri, MainStep
    PROVE  LInv'
<1> USE DEF IInv, TypeOK, Owned, IdleOwnsNothing, LInv, OnlyMainCreates,
            MainStep, MainPlatform, MainInitialize, MainCreateFailed,
            MainRun, MainLoopEnds, MainCleanup, MainEnds
<1>1. OnlyMainCreates'
    OBVIOUS
<1>2. AliveIsHeld'
    BY DEF AliveIsHeld, KeptBy, UnbornIsApart, ShutdownAnswers,
           HandedIsAlive, HeldIsAlive, RunIsHanded
<1>3. RunIsHanded' /\ DataIsAlive'
    BY DEF RunIsHanded, DataIsAlive, UnbornIsApart, HandedIsAlive,
           HeldIsAlive, DeletedAtMostOnce
<1>4. BufferIsLive' /\ QuietAtFirst'
    BY DEF BufferIsLive, QuietAtFirst, UnbornIsApart, HandedIsAlive,
           LastOfGroup, DeletedAtMostOnce, HeldIsAlive, AliveHasGroup
<1>5. GroupIsUsed'
    BY DEF GroupIsUsed, UnbornIsApart, HeldIsAlive, GroupsAreMade,
           AliveHasGroup, LastOfGroup
<1> QED BY <1>1, <1>2, <1>3, <1>4, <1>5 DEF LInv

\* CreateIsolate, which only main calls, shuts down what it returns as NULL.
LEMMA CreateRecovers ==
    ASSUME IInv, LInv, RInv, OnlyRecoverable, ~SpawnUri, NEW t \in Threads,
           CreateIsolate(t)
    PROVE  RInv'
<1> USE DEF IInv, TypeOK, Owned, LInv, OnlyMainCreates, OnlyRecoverable,
            MayFail, CreateIsolate, ReadScript, CreateFromKernel,
            CreateFromKernelFails, CompileAndReadScript, CompileFails,
            LoadScript, LoadFails, MakeRunnable, MakeRunnableFails
<1>1. CASE CreateFromKernelFails(t)
    BY <1>1 DEF RInv, HandedIsRunnable, FalseIsTerminated, MainIsAlone,
                MainIsEarly, MainNullIsDead
<1>2. CASE ~CreateFromKernelFails(t)
    <2>1. t = Main
        BY <1>2
    <2>2. HandedIsRunnable' /\ FalseIsTerminated'
        BY <2>1 DEF RInv, HandedIsRunnable, FalseIsTerminated
    <2>3. MainIsAlone'
        BY <2>1 DEF RInv, MainIsAlone, MainIsEarly
    <2>4. MainNullIsDead'
        BY <1>2, <2>1 DEF RInv, MainNullIsDead
    <2> QED BY <2>2, <2>3, <2>4 DEF RInv
<1> QED BY <1>1, <1>2

\* A kernel or service isolate is runnable when it is answered.
LEMMA SystemRecovers ==
    ASSUME IInv, LInv, RInv, OnlyRecoverable, NEW t \in Threads,
           CreateAndSetupKernelIsolate(t) \/ CreateServiceIsolate(t)
    PROVE  RInv'
<1> USE DEF IInv, TypeOK, Owned, LInv, OnlyMainCreates, OnlyRecoverable,
            MayFail, CreateAndSetupKernelIsolate, KernelCreate,
            KernelCreateFails, KernelSetup, KernelRunnable,
            CreateServiceIsolate, ServiceCreate, ServiceSetup,
            ServiceAssertFails, CreateFromKernelFails
<1>1. t # Main /\ Me(t) # None
    BY DEF IdleOwnsNothing
<1>2. HandedIsRunnable' /\ FalseIsTerminated'
    BY <1>1 DEF RInv, HandedIsRunnable, FalseIsTerminated
<1>3. MainIsAlone'
    BY <1>1 DEF RInv, MainIsAlone, MainIsEarly, UnbornIsApart
<1>4. MainNullIsDead'
    BY <1>1 DEF RInv, MainIsAlone, MainNullIsDead
<1> QED BY <1>2, <1>3, <1>4 DEF RInv

\* A child isolate is runnable when true is answered; when false is, the VM
\* will end it.
LEMMA InitializeRecovers ==
    ASSUME IInv, LInv, RInv, OnlyRecoverable, NEW t \in Threads,
           OnIsolateInitialize(t)
    PROVE  RInv'
<1> USE DEF IInv, TypeOK, Owned, LInv, OnlyMainCreates, OnlyRecoverable,
            MayFail, OnIsolateInitialize, InitializeStart, InitializeFails,
            ResolveFails, InitializeLeave, InitializeRunnable
<1>1. t # Main /\ Me(t) # None
    BY DEF IdleOwnsNothing
<1>2. HandedIsRunnable' /\ FalseIsTerminated'
    BY <1>1 DEF RInv, HandedIsRunnable, FalseIsTerminated
<1>3. MainIsAlone'
    BY <1>1 DEF RInv, MainIsAlone, MainIsEarly
<1>4. MainNullIsDead'
    BY <1>1 DEF RInv, MainIsAlone, MainNullIsDead
<1> QED BY <1>2, <1>3, <1>4 DEF RInv

\* A shutdown takes an isolate away from the VM altogether.
LEMMA ShutdownRecovers ==
    ASSUME IInv, LInv, RInv, NEW t \in Threads,
           \/ OnIsolateShutdown(t) \/ DeleteIsolateData(t)
           \/ DeleteIsolateGroupData(t)
    PROVE  RInv'
<1> USE DEF IInv, TypeOK, Owned, LInv, OnlyMainCreates, OnIsolateShutdown,
            DeleteIsolateData, DeleteIsolateGroupData
<1>1. Me(t) # None
    BY DEF IdleOwnsNothing
<1>2. HandedIsRunnable' /\ FalseIsTerminated'
    BY <1>1 DEF RInv, HandedIsRunnable, FalseIsTerminated
<1>3. MainIsAlone'
    BY <1>1 DEF RInv, MainIsAlone, MainIsEarly
<1>4. MainNullIsDead'
    BY <1>1 DEF RInv, MainIsAlone, MainNullIsDead
<1> QED BY <1>2, <1>3, <1>4 DEF RInv

\* The VM takes and runs what is not main's, and spawns in its own groups
\* until main runs.
LEMMA VMRecovers ==
    ASSUME IInv, LInv, RInv, ~SpawnUri, NEW t \in VMThreads,
           VMTake(t) \/ VMTerminate(t) \/ VMFinish(t) \/ VMStep(t)
    PROVE  RInv'
<1> USE DEF IInv, TypeOK, Owned, LInv, OnlyMainCreates, VMTake, VMTerminate,
            VMFinish, VMStep, VMBoot, VMSpawnUri, VMSpawn, VMRun, VMYield
<1>1. t # Main /\ Main \in Threads
    OBVIOUS
<1>2. HandedIsRunnable'
    <2>1. CASE VMTake(t)
        BY <1>1, <2>1 DEF RInv, HandedIsRunnable
    <2>2. CASE VMTerminate(t) \/ VMFinish(t) \/ VMYield(t)
        BY <1>1, <2>2 DEF RInv, HandedIsRunnable
    <2>3. CASE (\E k \in boot : VMBoot(t, k)) \/ VMSpawnUri(t) \/ VMSpawn(t)
               \/ VMRun(t)
        BY <1>1, <2>3 DEF RInv, HandedIsRunnable
    <2> QED BY <2>1, <2>2, <2>3
<1>3. FalseIsTerminated'
    <2>1. \A u \in Threads : u # t => pc'[u] = pc[u] /\ frame'[u] = frame[u]
        OBVIOUS
    <2>2. pc'[t] \in {"idle", "sd_callback", "ki_create", "si_create", "oi_start",
                      "run"}
        OBVIOUS
    <2> QED BY <2>1, <2>2 DEF RInv, FalseIsTerminated
<1>4. MainIsAlone'
    <2>1. CASE VMTake(t) \/ VMTerminate(t) \/ VMFinish(t) \/ VMYield(t)
        <3>1. /\ frame'[Main] = frame[Main] /\ pc'[Main] = pc[Main]
              /\ group' = group
            BY <1>1, <2>1
        <3>2. \A u \in VMThreads : MyGroup(u)' \in {MyGroup(u), None}
            BY <1>1, <2>1
        <3>3. handed' \subseteq handed \cup {Me(t)} /\ Me(t) # Me(Main)
            BY <1>1, <2>1 DEF RInv, MainIsAlone
        <3>4. MainIsAlone /\ None \notin Isolates
            BY DEF RInv
        <3> HIDE DEF IInv, TypeOK, Owned, LInv, OnlyMainCreates
        <3> QED BY <3>1, <3>2, <3>3, <3>4 DEF MainIsAlone, MainIsEarly
    <2>2. CASE VMSpawn(t)
        <3>1. PICK u \in Threads, i \in Isolates :
                /\ Running(u) /\ Fresh(i)
                /\ Begin(t, "oi_start", i, MyGroup(u))
                /\ group' = [group EXCEPT ![i] = MyGroup(u)]
            <4> HIDE DEF IInv, TypeOK, Owned, LInv, OnlyMainCreates, Begin,
                         Fresh, Running, MyGroup
            <4> QED BY <2>2
        <3>2. pc'[Main] = pc[Main] /\ frame'[Main] = frame[Main]
            BY <1>1, <3>1
        <3>3. MainIsEarly => MyGroup(u) # Me(Main)
            <4>1. pc[u] \in {"run", "m_loop"}
                BY <3>1
            <4>2. MainIsEarly => u \in VMThreads
                BY <4>1 DEF MainIsEarly
            <4> QED BY <4>2 DEF RInv, MainIsAlone
        <3>4. i # Me(Main) /\ handed' = handed
            <4>1. i # Me(Main)
                BY <1>1, <3>1
            <4>2. handed' = handed
                <5> HIDE DEF Begin, Fresh, Running, MyGroup
                <5> QED BY <2>2
            <4> QED BY <4>1, <4>2
        <3>5. \A w \in VMThreads : MyGroup(w)' \in {MyGroup(w), MyGroup(u)}
            BY <3>1
        <3>6. \A j \in Isolates : group'[j] \in {group[j], MyGroup(u)}
            BY <3>1
        <3>7. MainIsAlone
            BY DEF RInv
        <3> HIDE DEF IInv, TypeOK, Owned, LInv, OnlyMainCreates, VMSpawn
        <3> QED BY <3>2, <3>3, <3>4, <3>5, <3>6, <3>7
                DEF MainIsAlone, MainIsEarly
    <2>3. CASE (\E k \in boot : VMBoot(t, k)) \/ VMSpawnUri(t) \/ VMRun(t)
        BY <1>1, <2>3 DEF RInv, MainIsAlone, MainIsEarly
    <2> QED BY <2>1, <2>2, <2>3
<1>5. MainNullIsDead'
    BY <1>1 DEF RInv, MainIsAlone, MainNullIsDead
<1> QED BY <1>2, <1>3, <1>4, <1>5 DEF RInv

LEMMA MainRecovers ==
    ASSUME IInv, LInv, RInv, MainStep
    PROVE  RInv'
<1> USE DEF IInv, TypeOK, LInv, OnlyMainCreates, MainStep, MainPlatform,
            MainInitialize, MainCreateFailed, MainRun, MainLoopEnds,
            MainCleanup, MainEnds
<1>1. HandedIsRunnable' /\ FalseIsTerminated'
    BY DEF RInv, HandedIsRunnable, FalseIsTerminated
<1>2. MainIsAlone'
    BY DEF RInv, MainIsAlone, MainIsEarly
<1>3. MainNullIsDead'
    BY DEF RInv, MainNullIsDead
<1> QED BY <1>1, <1>2, <1>3 DEF RInv

\* When main has returned 0 the VM works on nothing any more.
QuietAtEnd ==
    exit = "0" =>
        /\ handed = {}
        /\ \A t \in VMThreads : pc[t] = "idle"
        /\ pc[Main] \in {"m_initialize", "m_wait"}

\* main returns -1 before it has an isolate or when it was given none.
FailedAtEnd ==
    exit = "-1" =>
        \/ pc[Main] = "m_platform"
        \/ pc[Main] = "returned" /\ frame[Main].answer = "null"

\* When main returns 0, every IsolateData, every IsolateGroupData and every
\* kernel buffer has been released, and when it returns -1 those of its own
\* isolate, however many isolates were spawned.  Three assumptions bound it:
\* no isolate is spawned by Isolate.spawnUri, which is answered with NULL
\* and stays (EmbeddedDart.cpp:366-377); of the calls only those fail that
\* the code recovers from (not at 217, 246, 327 and 402); and where
\* OnIsolateInitialize may return false (419, 424) the VM ends the isolate,
\* as dart_api.h:703-704 says against 690-691.
THEOREM AllIsReleased ==
    ASSUME ~SpawnUri, OnlyRecoverable
    PROVE  Spec => []NothingLeaks
<1>1. Init => LInv /\ RInv /\ QuietAtEnd /\ FailedAtEnd
    <2> SUFFICES ASSUME Init PROVE LInv /\ RInv /\ QuietAtEnd /\ FailedAtEnd
        OBVIOUS
    <2>1. OnlyMainCreates /\ QuietAtFirst /\ QuietAtEnd /\ FailedAtEnd
        BY DEF Init, OnlyMainCreates, QuietAtFirst, QuietAtEnd, FailedAtEnd
    <2>2. /\ AliveIsHeld /\ RunIsHanded /\ DataIsAlive
          /\ GroupIsUsed /\ BufferIsLive
        BY DEF Init, AliveIsHeld, RunIsHanded, DataIsAlive, GroupIsUsed,
               BufferIsLive
    <2>3. RInv
        BY DEF Init, RInv, HandedIsRunnable, FalseIsTerminated, MainIsAlone,
               MainNullIsDead
    <2> QED BY <2>1, <2>2, <2>3 DEF LInv
<1>2. IInv /\ LInv /\ RInv /\ [Next]_vars => LInv'
    <2> SUFFICES ASSUME IInv, LInv, RInv, [Next]_vars PROVE LInv'
        OBVIOUS
    <2>1. CASE UNCHANGED vars
        BY <2>1 DEF vars, LInv, OnlyMainCreates, AliveIsHeld, KeptBy,
                    RunIsHanded, DataIsAlive, GroupIsUsed, BufferIsLive,
                    QuietAtFirst
    <2>2. CASE MainStep
        BY <2>2, MainLosesNothing
    <2>3. ASSUME NEW t \in Threads, ThreadStep(t) PROVE LInv'
        <3>1. CASE t \in VMThreads /\ CreateIsolateGroupAndSetup(t)
            BY <3>1 DEF CreateIsolateGroupAndSetup, LInv, OnlyMainCreates
        <3>2. CASE CreateIsolate(t) \/ CreateAndSetupKernelIsolate(t)
                   \/ CreateServiceIsolate(t) \/ OnIsolateInitialize(t)
            BY <3>2, CreateLosesNothing, SystemLosesNothing,
               InitializeLosesNothing
        <3>3. CASE OnIsolateShutdown(t) \/ VMTerminate(t) \/ VMFinish(t)
                   \/ VMTake(t) \/ DeleteIsolateData(t)
                   \/ DeleteIsolateGroupData(t)
            BY <3>3, AnswerLosesNothing, DeleteDataLosesNothing,
               DeleteGroupLosesNothing
        <3> QED BY <2>3, <3>1, <3>2, <3>3 DEF ThreadStep
    <2>4. ASSUME NEW t \in Threads, VMStep(t) PROVE LInv'
        <3>1. CASE VMYield(t)
            BY <3>1, AnswerLosesNothing
        <3>2. CASE VMSpawn(t)
            BY <3>2, SpawnLosesNothing
        <3>3. CASE (\E k \in boot : VMBoot(t, k)) \/ VMSpawnUri(t) \/ VMRun(t)
            BY <3>3, BeginLosesNothing
        <3> QED BY <2>4, <3>1, <3>2, <3>3 DEF VMStep
    <2> QED BY <2>1, <2>2, <2>3, <2>4 DEF Next, Over
<1>3. IInv /\ LInv /\ RInv /\ [Next]_vars => RInv'
    <2> SUFFICES ASSUME IInv, LInv, RInv, [Next]_vars PROVE RInv'
        OBVIOUS
    <2>1. CASE UNCHANGED vars
        BY <2>1 DEF vars, RInv, HandedIsRunnable, FalseIsTerminated,
                    MainIsAlone, MainIsEarly, MainNullIsDead
    <2>2. CASE MainStep
        BY <2>2, MainRecovers
    <2>3. ASSUME NEW t \in Threads, ThreadStep(t) PROVE RInv'
        <3>1. CASE t \in VMThreads /\ CreateIsolateGroupAndSetup(t)
            BY <3>1 DEF CreateIsolateGroupAndSetup, LInv, OnlyMainCreates
        <3>2. CASE CreateIsolate(t) \/ CreateAndSetupKernelIsolate(t)
                   \/ CreateServiceIsolate(t) \/ OnIsolateInitialize(t)
            BY <3>2, CreateRecovers, SystemRecovers, InitializeRecovers
        <3>3. CASE OnIsolateShutdown(t) \/ DeleteIsolateData(t)
                   \/ DeleteIsolateGroupData(t)
            BY <3>3, ShutdownRecovers
        <3>4. CASE VMTake(t) \/ VMTerminate(t) \/ VMFinish(t)
            BY <3>4, VMRecovers DEF VMTake, VMTerminate, VMFinish
        <3> QED BY <2>3, <3>1, <3>2, <3>3, <3>4 DEF ThreadStep
    <2>4. ASSUME NEW t \in Threads, VMStep(t) PROVE RInv'
        <3>1. t \in VMThreads
            BY <2>4 DEF VMStep, VMBoot, VMSpawnUri, VMSpawn, VMRun, VMYield
        <3> QED BY <2>4, <3>1, VMRecovers
    <2> QED BY <2>1, <2>2, <2>3, <2>4 DEF Next, Over
<1>4. IInv /\ LInv /\ RInv /\ QuietAtEnd /\ FailedAtEnd /\ [Next]_vars
        => QuietAtEnd' /\ FailedAtEnd'
    <2> SUFFICES ASSUME IInv, LInv, RInv, QuietAtEnd, FailedAtEnd, [Next]_vars
                 PROVE  QuietAtEnd' /\ FailedAtEnd'
        OBVIOUS
    <2>1. CASE UNCHANGED vars
        BY <2>1 DEF vars, QuietAtEnd, FailedAtEnd
    <2>2. CASE MainStep /\ exit = "running"
        BY <2>2 DEF MainStep, MainPlatform, MainInitialize, MainCreateFailed,
             MainRun, MainLoopEnds, MainCleanup, MainEnds, QuietAtEnd,
             FailedAtEnd, LInv, QuietAtFirst, RInv, HandedIsRunnable
    <2>3. ASSUME NEW t \in Threads, ThreadStep(t), exit = "running"
          PROVE  exit' \notin {"0", "-1"}
        <3>1. CASE CreateIsolate(t)
            BY <2>3, <3>1
               DEF CreateIsolate, ReadScript, CreateFromKernel,
                   CreateFromKernelFails, CompileAndReadScript, CompileFails,
                   LoadScript, LoadFails, MakeRunnable, MakeRunnableFails
        <3>2. CASE CreateAndSetupKernelIsolate(t) \/ CreateServiceIsolate(t)
            BY <2>3, <3>2
               DEF CreateAndSetupKernelIsolate, KernelCreate,
               KernelCreateFails,
                   KernelSetup, KernelRunnable, CreateServiceIsolate,
                   ServiceCreate, ServiceSetup, ServiceAssertFails
        <3>3. CASE ~CreateIsolate(t) /\ ~CreateAndSetupKernelIsolate(t)
                   /\ ~CreateServiceIsolate(t)
            BY <2>3, <3>3
               DEF ThreadStep, CreateIsolateGroupAndSetup,
               OnIsolateInitialize,
                   InitializeStart, InitializeFails, ResolveFails,
                   InitializeLeave, InitializeRunnable, OnIsolateShutdown,
                   DeleteIsolateData, DeleteIsolateGroupData, VMTake,
                   VMTerminate, VMFinish
        <3> QED BY <3>1, <3>2, <3>3
    <2>4. ASSUME NEW t \in Threads, VMStep(t), exit = "running"
          PROVE  exit' \notin {"0", "-1"}
        BY <2>4 DEF VMStep, VMBoot, VMSpawnUri, VMSpawn, VMRun, VMYield
    <2> QED BY <2>1, <2>2, <2>3, <2>4
            DEF Next, Over, QuietAtEnd, FailedAtEnd
<1>5. ASSUME IInv, LInv, QuietAtEnd, exit = "0"
      PROVE  \A i \in Isolates :
               idata[i] # "live" /\ gdata[i] # "live" /\ kbuf[i] # "owned"
    <2>1. \A t \in Threads : ~Holds(t) /\ ~Returning(t)
                             /\ pc[t] \notin {"ci_create", "sd_group"}
        BY <1>5 DEF QuietAtEnd
    <2>2. \A i \in Isolates : state[i] # "alive"
        BY <1>5, <2>1 DEF LInv, AliveIsHeld, KeptBy, QuietAtEnd
    <2>3. \A g \in Isolates : gdata[g] # "live"
        BY <1>5, <2>1, <2>2 DEF LInv, GroupIsUsed
    <2> QED BY <1>5, <2>2, <2>3 DEF LInv, DataIsAlive, BufferIsLive
<1>6. ASSUME IInv, LInv, RInv, FailedAtEnd, exit = "-1"
      PROVE  LET i == Me(Main)
             IN idata[i] # "live" /\ gdata[i] # "live" /\ kbuf[i] # "owned"
    <2>1. Me(Main) \in Isolates /\ MainIsEarly
        BY <1>6 DEF FailedAtEnd, RInv, MainIsAlone, MainIsEarly
    <2>2. CASE pc[Main] = "m_platform"
        BY <1>6, <2>1, <2>2
           DEF IInv, UnbornIsApart, LInv, BufferIsLive
    <2>3. CASE pc[Main] = "returned" /\ frame[Main].answer = "null"
        <3>1. state[Me(Main)] # "alive"
            BY <1>6, <2>3 DEF RInv, MainNullIsDead
        <3>2. \A i \in Isolates : i # Me(Main) => group[i] # Me(Main)
            BY <1>6, <2>1 DEF RInv, MainIsAlone
        <3>3. \A t \in Threads :
                MyGroup(t) = Me(Main) => pc[t] \notin {"ci_create", "sd_group"}
            BY <1>6, <2>1, <2>3 DEF RInv, MainIsAlone
        <3>4. gdata[Me(Main)] # "live"
            BY <1>6, <2>1, <3>1, <3>2, <3>3 DEF LInv, GroupIsUsed
        <3> QED BY <1>6, <2>1, <3>1, <3>4 DEF LInv, DataIsAlive, BufferIsLive
    <2> QED BY <1>6, <2>2, <2>3 DEF FailedAtEnd
<1>7. IInv /\ LInv /\ RInv /\ QuietAtEnd /\ FailedAtEnd => NothingLeaks
    BY <1>5, <1>6 DEF NothingLeaks
<1> QED BY <1>1, <1>2, <1>3, <1>4, <1>7, Invariance, PTL DEF Spec

-----------------------------------------------------------------------------
(* What Termination rests on besides fairness, which the provers cannot    *)
(* use: each step of a callback, or of main, leaves fewer of them.         *)

\* A shutdown has three steps, before those of what it goes on to.
ShutdownSteps(l) ==
    IF l = "sd_group" THEN 1 ELSE IF l = "sd_data" THEN 2 ELSE 3

\* The most steps that thread takes before it is idle again or main returns,
\* where it is at label l and a shutdown goes on at label next.
StepsFrom(l, next) ==
    IF l = "idle" THEN 0
    ELSE IF l = "m_wait" THEN 1
    ELSE IF l = "m_cleanup" THEN 2
    ELSE IF l \in ShutdownLabels
         THEN ShutdownSteps(l) + (IF next = "idle" THEN 0
                                  ELSE IF next = "m_cleanup" THEN 2 ELSE 7)
    ELSE IF l \in {"answered", "run"} THEN 4
    ELSE IF l \in {"ki_runnable", "si_setup", "oi_runnable"} THEN 5
    ELSE IF l \in {"ki_setup", "si_create", "oi_setup", "m_loop"} THEN 6
    ELSE IF l \in {"ki_create", "oi_start", "returned"} THEN 7
    ELSE IF l = "ci_runnable" THEN 11
    ELSE IF l = "ci_load" THEN 12
    ELSE IF l = "ci_compile" THEN 13
    ELSE IF l = "ci_create" THEN 14
    ELSE IF l = "ci_read" THEN 15
    ELSE IF l = "m_initialize" THEN 16
    ELSE 17

StepsLeft(t) == StepsFrom(pc[t], frame[t].next)

\* A thread that is not idle stays where it is or comes nearer to its end.
\* None goes back, so that the failure paths of CreateIsolate, each of which
\* shuts the isolate down and returns (EmbeddedDart.cpp:256-344), end as
\* surely as the path that succeeds, however the threads take turns.
ComesToAnEnd(t) ==
    \/ pc'[t] = pc[t] /\ frame'[t].next = frame[t].next
    \/ StepsLeft(t)' < StepsLeft(t)

CallbacksEnd == [][\A t \in Threads : pc[t] # "idle" => ComesToAnEnd(t)]_vars

\* CreateIsolate goes forward on each way out.
LEMMA CreateEnds ==
    ASSUME TypeOK, NEW t \in Threads, CreateIsolate(t)
    PROVE  \A u \in Threads : pc[u] # "idle" => ComesToAnEnd(u)
<1>1. \A u \in Threads \ {t} :
        pc'[u] = pc[u] /\ frame'[u].next = frame[u].next
    BY DEF TypeOK, CreateIsolate, ReadScript, CreateFromKernel,
           CreateFromKernelFails, CompileAndReadScript, CompileFails,
           LoadScript, LoadFails, MakeRunnable, MakeRunnableFails
<1>2. ComesToAnEnd(t)
    BY DEF TypeOK, ComesToAnEnd, StepsLeft, StepsFrom, ShutdownSteps,
           CreateIsolate, ReadScript, CreateFromKernel, CreateFromKernelFails,
           CompileAndReadScript, CompileFails, LoadScript, LoadFails,
           MakeRunnable, MakeRunnableFails
<1> QED BY <1>1, <1>2 DEF ComesToAnEnd

\* So do the callbacks that make the kernel and the service isolate.
LEMMA SystemEnds ==
    ASSUME TypeOK, NEW t \in Threads,
           CreateAndSetupKernelIsolate(t) \/ CreateServiceIsolate(t)
    PROVE  \A u \in Threads : pc[u] # "idle" => ComesToAnEnd(u)
<1>1. \A u \in Threads \ {t} :
        pc'[u] = pc[u] /\ frame'[u].next = frame[u].next
    BY DEF TypeOK, CreateAndSetupKernelIsolate, KernelCreate,
           KernelCreateFails, KernelSetup, KernelRunnable,
           CreateServiceIsolate, ServiceCreate, ServiceSetup,
           ServiceAssertFails
<1>2. ComesToAnEnd(t)
    BY DEF TypeOK, ComesToAnEnd, StepsLeft, StepsFrom, ShutdownSteps,
           CreateAndSetupKernelIsolate, KernelCreate, KernelCreateFails,
           KernelSetup, KernelRunnable, CreateServiceIsolate, ServiceCreate,
           ServiceSetup, ServiceAssertFails
<1> QED BY <1>1, <1>2 DEF ComesToAnEnd

\* OnIsolateInitialize, and what a callback has answered.
LEMMA InitializeEnds ==
    ASSUME TypeOK, NEW t \in Threads,
           \/ OnIsolateInitialize(t)
           \/ t \in VMThreads /\ CreateIsolateGroupAndSetup(t)
           \/ VMTake(t) \/ VMTerminate(t) \/ VMFinish(t) \/ VMYield(t)
    PROVE  \A u \in Threads : pc[u] # "idle" => ComesToAnEnd(u)
<1>1. \A u \in Threads \ {t} :
        pc'[u] = pc[u] /\ frame'[u].next = frame[u].next
    BY DEF TypeOK, OnIsolateInitialize, InitializeStart, InitializeFails,
           ResolveFails, InitializeLeave, InitializeRunnable,
           CreateIsolateGroupAndSetup, VMTake, VMTerminate, VMFinish, VMYield
<1>2. ComesToAnEnd(t)
    BY DEF TypeOK, ComesToAnEnd, StepsLeft, StepsFrom, ShutdownSteps,
           OnIsolateInitialize, InitializeStart, InitializeFails,
           ResolveFails, InitializeLeave, InitializeRunnable,
           CreateIsolateGroupAndSetup, VMTake, VMTerminate, VMFinish, VMYield
<1> QED BY <1>1, <1>2 DEF ComesToAnEnd

\* A shutdown goes on where it was told to.
LEMMA ShutdownEnds ==
    ASSUME TypeOK, NEW t \in Threads,
           \/ OnIsolateShutdown(t) \/ DeleteIsolateData(t)
           \/ DeleteIsolateGroupData(t)
    PROVE  \A u \in Threads : pc[u] # "idle" => ComesToAnEnd(u)
<1>1. \A u \in Threads \ {t} :
        pc'[u] = pc[u] /\ frame'[u].next = frame[u].next
    BY DEF TypeOK, OnIsolateShutdown, DeleteIsolateData,
           DeleteIsolateGroupData
<1>2. ComesToAnEnd(t)
    BY DEF TypeOK, ComesToAnEnd, StepsLeft, StepsFrom, ShutdownSteps,
           OnIsolateShutdown, DeleteIsolateData, DeleteIsolateGroupData
<1> QED BY <1>1, <1>2 DEF ComesToAnEnd

\* main goes through its stages.
LEMMA MainEndsToo ==
    ASSUME TypeOK, MainStep
    PROVE  \A u \in Threads : pc[u] # "idle" => ComesToAnEnd(u)
<1>1. \A u \in Threads \ {Main} :
        pc'[u] = pc[u] /\ frame'[u].next = frame[u].next
    BY DEF TypeOK, MainStep, MainPlatform, MainInitialize, MainCreateFailed,
           MainRun, MainLoopEnds, MainCleanup, MainEnds
<1>2. ComesToAnEnd(Main)
    BY DEF TypeOK, ComesToAnEnd, StepsLeft, StepsFrom, ShutdownSteps,
           MainStep, MainPlatform, MainInitialize, MainCreateFailed, MainRun,
           MainLoopEnds, MainCleanup, MainEnds
<1> QED BY <1>1, <1>2 DEF ComesToAnEnd

\* The VM begins a callback on a thread that has none.
LEMMA BeginningIsNew ==
    ASSUME TypeOK, NEW t \in Threads,
           \/ \E k \in boot : VMBoot(t, k)
           \/ VMSpawnUri(t) \/ VMSpawn(t) \/ VMRun(t)
    PROVE  \A u \in Threads : pc[u] # "idle" => ComesToAnEnd(u)
<1>1. pc[t] = "idle"
    BY DEF VMBoot, VMSpawnUri, VMSpawn, VMRun
<1>2. \A u \in Threads \ {t} :
        pc'[u] = pc[u] /\ frame'[u].next = frame[u].next
    BY DEF TypeOK, VMBoot, VMSpawnUri, VMSpawn, VMRun
<1> QED BY <1>1, <1>2 DEF ComesToAnEnd

\* What Termination says of the steps: each callback, each turn of an isolate
\* and main itself end after at most 17 of their own, whichever calls fail
\* and however the threads take turns (EmbeddedDart.cpp:102-572).
THEOREM NothingRunsForEver ==
    Spec => CallbacksEnd /\ [](\A t \in Threads : StepsLeft(t) \in 0 .. 17)
<1>1. TypeOK /\ [Next]_vars =>
        [\A t \in Threads : pc[t] # "idle" => ComesToAnEnd(t)]_vars
    <2> SUFFICES ASSUME TypeOK, Next
                 PROVE  \/ UNCHANGED vars
                        \/ \A t \in Threads : pc[t] # "idle" => ComesToAnEnd(t)
        OBVIOUS
    <2>1. CASE MainStep
        BY <2>1, MainEndsToo
    <2>2. ASSUME NEW t \in Threads, ThreadStep(t)
          PROVE  \A u \in Threads : pc[u] # "idle" => ComesToAnEnd(u)
        BY <2>2, CreateEnds, SystemEnds, InitializeEnds, ShutdownEnds
           DEF ThreadStep
    <2>3. ASSUME NEW t \in Threads, VMStep(t)
          PROVE  \A u \in Threads : pc[u] # "idle" => ComesToAnEnd(u)
        BY <2>3, InitializeEnds, BeginningIsNew DEF VMStep
    <2> QED BY <2>1, <2>2, <2>3 DEF Next, Over
<1>2. TypeOK => \A t \in Threads : StepsLeft(t) \in 0 .. 17
    BY DEF StepsLeft, StepsFrom, ShutdownSteps
<1> QED BY <1>1, <1>2, TypeCorrect, PTL DEF Spec, CallbacksEnd

-----------------------------------------------------------------------------
(* Each isolate is created once and shut down once.                        *)

LivesOnce(i) ==
    \/ state'[i] = state[i]
    \/ state[i] = "unused" /\ state'[i] = "alive"
    \/ state[i] = "alive" /\ state'[i] = "dead"

IsolatesLiveOnce == [][\A i \in Isolates : LivesOnce(i)]_vars

\* The callbacks create isolates that nobody has used.
LEMMA CreatedOnce ==
    ASSUME IInv, NEW t \in Threads,
           \/ CreateIsolate(t)
           \/ CreateAndSetupKernelIsolate(t)
           \/ CreateServiceIsolate(t)
    PROVE  \A i \in Isolates : LivesOnce(i)
<1>1. pc[t] \in Unborn => state[Me(t)] = "unused"
    BY DEF IInv, UnbornIsApart
<1> QED
    BY <1>1
       DEF IInv, TypeOK, LivesOnce, CreateIsolate, ReadScript,
           CreateFromKernel, CreateFromKernelFails, CompileAndReadScript,
           CompileFails, LoadScript, LoadFails, MakeRunnable,
           MakeRunnableFails, CreateAndSetupKernelIsolate, KernelCreate,
           KernelCreateFails, KernelSetup, KernelRunnable,
           CreateServiceIsolate, ServiceCreate, ServiceSetup,
           ServiceAssertFails

\* What is shut down has lived until then.
LEMMA ShutDownOnce ==
    ASSUME IInv, NEW t \in Threads,
           \/ OnIsolateShutdown(t)
           \/ DeleteIsolateData(t)
           \/ DeleteIsolateGroupData(t)
    PROVE  \A i \in Isolates : LivesOnce(i)
<1>1. pc[t] = "sd_data" => state[Me(t)] = "alive"
    BY DEF IInv, HeldIsAlive
<1> QED
    BY <1>1
       DEF IInv, TypeOK, LivesOnce, OnIsolateShutdown, DeleteIsolateData,
           DeleteIsolateGroupData

\* The other steps create an isolate the VM has a new name for, or none.
LEMMA OthersLiveOn ==
    ASSUME IInv, NEW t \in Threads,
           \/ OnIsolateInitialize(t)
           \/ CreateIsolateGroupAndSetup(t)
           \/ VMTake(t) \/ VMTerminate(t) \/ VMFinish(t) \/ VMStep(t)
    PROVE  \A i \in Isolates : LivesOnce(i)
BY DEF IInv, TypeOK, LivesOnce, OnIsolateInitialize, InitializeStart,
       InitializeFails, ResolveFails, InitializeLeave, InitializeRunnable,
       CreateIsolateGroupAndSetup, VMTake, VMTerminate, VMFinish, VMStep,
       VMBoot, VMSpawnUri, VMSpawn, VMRun, VMYield

\* An isolate that was shut down is not created again, none is shut down that
\* had not been created, and none twice: not by the failure path of a callback
\* and by the VM, which is told of the failure
\* (EmbeddedDart.cpp:300-340, 380-445).
THEOREM EachIsolateLivesOnce == Spec => IsolatesLiveOnce
<1>1. IInv /\ [Next]_vars => [\A i \in Isolates : LivesOnce(i)]_vars
    <2> SUFFICES ASSUME IInv, Next
                 PROVE  UNCHANGED vars \/ \A i \in Isolates : LivesOnce(i)
        OBVIOUS
    <2>1. CASE MainStep
        BY <2>1
           DEF LivesOnce, MainStep, MainPlatform, MainInitialize,
               MainCreateFailed, MainRun, MainLoopEnds, MainCleanup, MainEnds
    <2>2. ASSUME NEW t \in Threads, ThreadStep(t) \/ VMStep(t)
          PROVE  \A i \in Isolates : LivesOnce(i)
        BY <2>2, CreatedOnce, ShutDownOnce, OthersLiveOn DEF ThreadStep
    <2> QED BY <2>1, <2>2 DEF Next, Over
<1> QED BY <1>1, Invariance, PTL DEF Spec, IsolatesLiveOnce

=============================================================================
