------------------------------ MODULE LibraryMC ------------------------------
(***************************************************************************)
(* The parts of the standalone embedder's library that do not interact,    *)
(* side by side for TLC: a behaviour is one of one part, while the others  *)
(* stay as they were made.                                                 *)
(***************************************************************************)
EXTENDS Utils, BuildConfiguration, MessageFlags, CObject, OverlappedBuffer,
        CommandLineOptions, Assertions, GrowableArray, OwnedStrings,
        IsolateGroupData, Platform, MemoryOrder, TLC

VARIABLE part   \* the part whose behaviour it is

Parts == {"numbers", "macros", "message", "cobject", "buffers", "options",
          "checks", "arrays", "strings", "kernels", "platform", "memory"}

\* The parts that are only looked at.
words == <<numbers, macros, message, cobject>>

LibraryInit ==
    /\ part \in Parts
    /\ IF part = "numbers" THEN NumbersInit
       ELSE left = 0 /\ right = 0 /\ third = 0 /\ bits = 0 /\ real = 0
    /\ IF part = "macros" THEN MacrosInit ELSE macros = Preprocess({})
    /\ IF part = "message" THEN MessageInit ELSE message = {}
    /\ IF part = "cobject" THEN CObjectInit
       ELSE cobject = [type |-> "Null", bytes |-> kUint8]
    /\ IF part = "buffers" THEN BufferInit ELSE NewBuffer("kRead", 0)
    /\ IF part = "options" THEN OptionsInit ELSE NewOptions(0, FALSE)
    /\ IF part = "checks" THEN ChecksInit ELSE NewTest({})
    /\ ArraysInit /\ StringsInit /\ KernelsInit /\ PlatformInit
    /\ IF part = "memory" THEN MemoryInit ELSE NewObject(CHOOSE r \in References : TRUE)

Rest == <<buffers, options, checks>>
Owners == <<arrays, strings, kernels, platform, memory>>

LibraryNext ==
    /\ UNCHANGED part
    /\ \/ /\ part \in {"numbers", "macros", "message", "cobject"}
          /\ NumbersNext /\ MacrosNext /\ MessageNext /\ CObjectNext
          /\ UNCHANGED <<Rest, Owners>>
       \/ /\ part = "buffers" /\ BufferNext
          /\ UNCHANGED <<words, options, checks, Owners>>
       \/ /\ part = "options" /\ OptionsNext
          /\ UNCHANGED <<words, buffers, checks, Owners>>
       \/ /\ part = "checks" /\ ChecksNext
          /\ UNCHANGED <<words, buffers, options, Owners>>
       \/ /\ part = "arrays" /\ ArraysNext
          /\ UNCHANGED <<words, Rest, strings, kernels, platform, memory>>
       \/ /\ part = "strings" /\ StringsNext
          /\ UNCHANGED <<words, Rest, arrays, kernels, platform, memory>>
       \/ /\ part = "kernels" /\ KernelsNext
          /\ UNCHANGED <<words, Rest, arrays, strings, platform, memory>>
       \/ /\ part = "platform" /\ PlatformNext
          /\ UNCHANGED <<words, Rest, arrays, strings, kernels, memory>>
       \/ /\ part = "memory" /\ MemoryNext
          /\ UNCHANGED <<words, Rest, arrays, strings, kernels, platform>>

LibrarySpec == LibraryInit /\ [][LibraryNext]_<<part, words, Rest, Owners>>

-----------------------------------------------------------------------------
(* Properties that several parts share.                                    *)

\* A build that globals.h accepts is one build (one host, one target, one
\* size of a word for each), and its target differs from its host only in the
\* ways the code allows (globals.h:18-407).
ConfigurationIsConsistent == OneOfEach /\ MismatchesAreThese

\* What crosses to the other side is read there as it was written: a message
\* of the event handler (eventhandler.h:22-57), an object of a port
\* (dartutils.h:303-576) and a buffer given to the system
\* (eventhandler_win.h:86-128).
DataIsReadAsWritten ==
    MessagesAreUnambiguous /\ TestedIsWrappable /\ PartsAreDisjoint

\* Every block and every string that will be freed has one owner who frees
\* it, and a block is as large as its owner takes it to be, after any calls
\* (growable_array.h:21-237, bin/utils.h:23-49, utils_win.h:49-86,
\* isolate_data.h:83-136, dfe.h:30-36).
OneOwnerEach == ItemsFit /\ BlocksHaveOneOwner /\ StringsHaveOneOwner

\* No call loses memory but SetLength, which does not free what it replaces
\* (growable_array.h:230), and UpdatePackagesFile of NULL
\* (isolate_data.h:131-135).
OnlyTheseLose == OnlySetLengthLoses /\ OnlyNullNameLoses

\* Arrays, blocks and values are only compared with each other.
Symmetry == Permutations(Arrays) \cup Permutations(Blocks) \cup Permutations(Values)

=============================================================================
