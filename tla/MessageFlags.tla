----------------------------- MODULE MessageFlags -----------------------------
(***************************************************************************)
(* The words that sockets and the event handler exchange, with the flags   *)
(* and macros of src/dart/bin/eventhandler.h.  A word is the set of the    *)
(* bits that are set in it.                                                *)
(***************************************************************************)
EXTENDS Binary, FiniteSets

CONSTANT MessageBits   \* the bits of a word that may be set: all, in the code

ASSUME MessageAssumption == MessageBits \subseteq Nat

kInEvent == 0
kOutEvent == 1
kErrorEvent == 2
kCloseEvent == 3
kDestroyedEvent == 4
kCloseCommand == 8
kShutdownReadCommand == 9
kShutdownWriteCommand == 10
kReturnTokenCommand == 11
kSetEventMaskCommand == 12
kListeningSocket == 16
kPipe == 17

COMMAND_MASK == {kCloseCommand, kShutdownReadCommand, kShutdownWriteCommand,
                 kReturnTokenCommand, kSetEventMaskCommand}
EVENT_MASK == {kInEvent, kOutEvent, kErrorEvent, kCloseEvent, kDestroyedEvent}
IO_EVENTS == {kInEvent, kOutEvent, kCloseEvent}

\* MUTANT: the other commands are not masked out.
IS_COMMAND_Bit(data, command_bit) == command_bit \in data

IS_COMMAND(data, command_bit) == data \cap COMMAND_MASK = {command_bit}
IS_EVENT(data, event_bit) == data \cap EVENT_MASK = {event_bit}
IS_IO_EVENT(data) == data \cap IO_EVENTS # {} /\ data \ IO_EVENTS = {}
IS_LISTENING_SOCKET(data) == kListeningSocket \in data

\* The bits below kCloseCommand, as a number.
TOKEN_COUNT(data) == WithBits(data, kCloseCommand)

VARIABLE message
MessageInit == message \in SUBSET MessageBits
MessageNext == UNCHANGED message

\* Events, commands, tokens and the kind of the socket share one word: each
\* word is at most one command, a command is never an I/O event, and what a
\* command says of the socket leaves its tokens as they are.
MessagesAreUnambiguous ==
    LET Commands == {c \in COMMAND_MASK : IS_COMMAND(message, c)} IN
    /\ Cardinality(Commands) <= 1
    /\ Commands # {} => ~IS_IO_EVENT(message)
    /\ Cardinality({e \in EVENT_MASK : IS_EVENT(message, e)}) <= 1
    /\ IS_LISTENING_SOCKET(message) => ~IS_IO_EVENT(message)
    /\ TOKEN_COUNT(message) =
         TOKEN_COUNT(message \ (COMMAND_MASK \cup {kListeningSocket, kPipe}))
    /\ TOKEN_COUNT(message) < Power[kCloseCommand]

=============================================================================
