-------------------------- MODULE CommandLineOptions --------------------------
(***************************************************************************)
(* CommandLineOptions of src/dart/bin/dartutils.h: an array of arguments   *)
(* of a size given once, that aborts the process rather than grow.         *)
(***************************************************************************)
EXTENDS Integers, Sequences

CONSTANTS
    Arguments,    \* the strings that are given
    MaxCount,     \* BOUND on the size that is asked for
    NoArgument    \* NULL

ASSUME OptionsAssumption == NoArgument \notin Arguments /\ MaxCount \in Nat

VARIABLES
    count,        \* count_
    max_count,    \* max_count_
    arguments,    \* arguments_ as a sequence: empty where it is NULL
    aborted,
    added         \* HISTORY: the arguments added since the last Reset

options == <<count, max_count, arguments, aborted, added>>

\* The constructor, where malloc may fail; a new array holds anything.
NewOptions(n, fails) ==
    /\ count = 0 /\ aborted = FALSE /\ added = <<>>
    /\ max_count = IF fails THEN 0 ELSE n
    /\ arguments \in [1 .. max_count -> Arguments]

OptionsInit == \E n \in 0 .. MaxCount, fails \in BOOLEAN : NewOptions(n, fails)

Reset ==
    /\ ~aborted
    /\ count' = 0 /\ added' = <<>>
    /\ UNCHANGED <<max_count, arguments, aborted>>

Abort ==
    /\ aborted' = TRUE
    /\ UNCHANGED <<count, max_count, arguments, added>>

\* The arguments in argv are written from place count on.
Write(argv) ==
    /\ arguments' = [i \in DOMAIN arguments |->
                       IF i \in (count + 1) .. (count + Len(argv))
                       THEN argv[i - count] ELSE arguments[i]]
    /\ count' = count + Len(argv)
    /\ added' = added \o argv
    /\ UNCHANGED <<max_count, aborted>>

AddArgument(argument) ==
    /\ ~aborted
    /\ IF count < max_count THEN Write(<<argument>>) ELSE Abort

\* MUTANT: as many are taken as fit, and one more.
AddArguments_OffByOne(argv) ==
    /\ ~aborted
    /\ IF count + Len(argv) > max_count + 1 THEN Abort ELSE Write(argv)

\* One place is kept free, so that what fits exactly aborts too.
AddArguments(argv) ==
    /\ ~aborted
    /\ IF count + Len(argv) >= max_count THEN Abort ELSE Write(argv)

GetArgument(index) ==
    IF index >= 0 /\ index < count THEN arguments[index + 1] ELSE NoArgument

OptionsNext ==
    \/ Reset
    \/ \E argument \in Arguments : AddArgument(argument)
    \/ \E n \in 0 .. MaxCount : \E argv \in [1 .. n -> Arguments] : AddArguments(argv)

OptionsSpec == OptionsInit /\ [][OptionsNext]_options

-----------------------------------------------------------------------------
(* Properties.                                                             *)

\* Whatever was reset, given singly or together, or refused because malloc
\* failed, nothing is written behind the array, and every index gives the
\* argument that was added there, or NULL where there is none: neither
\* an argument from before the Reset nor what malloc left.
ArgumentsAreThoseAdded ==
    /\ count <= max_count /\ max_count = Len(arguments)
    /\ \A index \in -1 .. (MaxCount + 1) :
         GetArgument(index) =
           IF index + 1 \in DOMAIN added THEN added[index + 1] ELSE NoArgument

=============================================================================
