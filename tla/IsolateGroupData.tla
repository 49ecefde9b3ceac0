--------------------------- MODULE IsolateGroupData ---------------------------
(***************************************************************************)
(* The kernel buffer of an IsolateGroupData, src/dart/bin/isolate_data.h:  *)
(* a shared_ptr that several isolate groups may have, that may free the    *)
(* buffer or not, and that threads copy from one group to another while    *)
(* the first one is shut down.                                             *)
(*                                                                         *)
(* The ASSERT of the three setters is their guard: a group gets one kernel *)
(* buffer.  The constructor, the destructor and shared_ptr are in          *)
(* libraries.                                                              *)
(***************************************************************************)
EXTENDS Integers, FiniteSets

CONSTANTS
    Groups,      \* isolate groups
    Buffers,     \* the kernel buffers that are ever made
    Starters,    \* threads that start isolate groups
    NoBuffer

ASSUME KernelAssumption ==
    /\ NoBuffer \notin Buffers
    /\ IsFiniteSet(Groups) /\ IsFiniteSet(Starters) /\ Groups \cap Starters = {}

VARIABLES
    alive,       \* the groups whose data exists
    kernel,      \* the kernel_buffer_ of each group, and the copy a thread has
    uses,        \* how many pointers share each buffer
    deleter,     \* what the last of them does: "free", "nothing", or "unset"
    buffer       \* "none", "heap", "static", "freed" or "twice"

kernels == <<alive, kernel, uses, deleter, buffer>>

KernelsInit ==
    /\ alive = {}
    /\ kernel = [p \in Groups \cup Starters |-> NoBuffer]
    /\ uses = [b \in Buffers |-> 0]
    /\ deleter = [b \in Buffers |-> "unset"]
    /\ buffer = [b \in Buffers |-> "none"]

\* new IsolateGroupData: a name is used again when its group is gone.
NewGroup(g) ==
    /\ g \notin alive /\ kernel[g] = NoBuffer
    /\ alive' = alive \cup {g}
    /\ UNCHANGED <<kernel, uses, deleter, buffer>>

\* The first pointer to a buffer, with its deleter.  BOUND: a buffer is made
\* once.
Associate(g, b, where, whatThen) ==
    /\ g \in alive /\ kernel[g] = NoBuffer /\ buffer[b] = "none"
    /\ kernel' = [kernel EXCEPT ![g] = b]
    /\ uses' = [uses EXCEPT ![b] = 1]
    /\ deleter' = [deleter EXCEPT ![b] = whatThen]
    /\ buffer' = [buffer EXCEPT ![b] = where]
    /\ UNCHANGED alive

\* Static data, or a buffer its owner keeps.
SetKernelBufferUnowned(g, b) == Associate(g, b, "static", "nothing")
SetKernelBufferNewlyOwned(g, b) == Associate(g, b, "heap", "free")

\* A thread copies the kernel_buffer() of a group that exists.
CopyKernelBuffer(t, g) ==
    /\ g \in alive /\ kernel[t] = NoBuffer /\ kernel[g] # NoBuffer
    /\ kernel' = [kernel EXCEPT ![t] = kernel[g]]
    /\ uses' = [uses EXCEPT ![kernel[g]] = @ + 1]
    /\ UNCHANGED <<alive, deleter, buffer>>

\* MUTANT: the copy is not moved from, and counted once for two.
SetKernelBufferAlreadyOwned_Copies(t, g) ==
    /\ g \in alive /\ kernel[g] = NoBuffer /\ kernel[t] # NoBuffer
    /\ kernel' = [kernel EXCEPT ![g] = kernel[t]]
    /\ UNCHANGED <<alive, uses, deleter, buffer>>

\* std::move leaves nothing in the copy.
SetKernelBufferAlreadyOwned(t, g) ==
    /\ g \in alive /\ kernel[g] = NoBuffer /\ kernel[t] # NoBuffer
    /\ kernel' = [kernel EXCEPT ![g] = kernel[t], ![t] = NoBuffer]
    /\ UNCHANGED <<alive, uses, deleter, buffer>>

\* The end of pointer p: the last one calls the deleter.
ResetPointer(p) ==
    IF kernel[p] = NoBuffer THEN UNCHANGED <<kernel, uses, buffer>>
    ELSE LET b == kernel[p] IN
         /\ kernel' = [kernel EXCEPT ![p] = NoBuffer]
         /\ uses' = [uses EXCEPT ![b] = @ - 1]
         /\ buffer' = [buffer EXCEPT ![b] =
                         IF uses[b] # 1 \/ deleter[b] = "nothing" THEN @
                         ELSE IF @ \in {"freed", "twice"} THEN "twice"
                         ELSE "freed"]

DropCopy(t) ==
    /\ kernel[t] # NoBuffer
    /\ ResetPointer(t)
    /\ UNCHANGED <<alive, deleter>>

DeleteGroup(g) ==
    /\ g \in alive
    /\ ResetPointer(g)
    /\ alive' = alive \ {g}
    /\ UNCHANGED deleter

KernelsNext ==
    \/ \E g \in Groups : NewGroup(g) \/ DeleteGroup(g)
    \/ \E g \in Groups, b \in Buffers :
          SetKernelBufferUnowned(g, b) \/ SetKernelBufferNewlyOwned(g, b)
    \/ \E t \in Starters, g \in Groups :
          CopyKernelBuffer(t, g) \/ SetKernelBufferAlreadyOwned(t, g)
    \/ \E t \in Starters : DropCopy(t)

KernelsSpec == KernelsInit /\ [][KernelsNext]_kernels

-----------------------------------------------------------------------------
(* Properties.                                                             *)

KernelsTypeOK ==
    /\ alive \subseteq Groups
    /\ kernel \in [Groups \cup Starters -> Buffers \cup {NoBuffer}]
    /\ uses \in [Buffers -> Int]
    /\ deleter \in [Buffers -> {"unset", "free", "nothing"}]
    /\ buffer \in [Buffers -> {"none", "heap", "static", "freed", "twice"}]

UsersOf(b) == {p \in Groups \cup Starters : kernel[p] = b}

\* The kernel buffer of a group or of a thread is still there, whichever
\* group it came from and in whatever order the groups went away; a buffer is
\* freed once, when nobody has it any more and not later; and one that no
\* group was given ownership of is never freed.
KernelOutlivesUsers ==
    \A b \in Buffers :
        /\ UsersOf(b) # {} => buffer[b] \in {"heap", "static"}
        /\ buffer[b] = "heap" => UsersOf(b) # {}
        /\ buffer[b] # "twice"
        /\ deleter[b] = "nothing" => buffer[b] = "static"
        /\ buffer[b] = "static" => deleter[b] = "nothing"

=============================================================================
