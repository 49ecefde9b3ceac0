--------------------------- MODULE OverlappedBuffer ---------------------------
(***************************************************************************)
(* The layout of an OverlappedBuffer, src/dart/bin/eventhandler_win.h: an  *)
(* object that is allocated longer than its type, so that buffer_data_ at  *)
(* its end holds the data and, for recvfrom, the address it came from.     *)
(* Places are numbered from the start of the object, in bytes.             *)
(***************************************************************************)
EXTENDS Integers

CONSTANTS
    DataOffset,     \* where buffer_data_ is in the object
    ObjectSize,     \* sizeof(OverlappedBuffer)
    LengthSize,     \* sizeof(socklen_t)
    AddressSize,    \* sizeof(struct sockaddr_storage)
    MaxSize         \* BOUND on the size of a buffer

ASSUME BufferAssumption ==
    /\ DataOffset \in Nat /\ ObjectSize \in Nat /\ DataOffset < ObjectSize
    /\ LengthSize \in Nat \ {0} /\ AddressSize \in Nat \ {0}
    /\ MaxSize \in Nat

Operations == {"kAccept", "kRead", "kRecvFrom", "kWrite", "kSendTo",
               "kDisconnect", "kConnect"}
kAdditionalSize == AddressSize + LengthSize

VARIABLES
    operation,      \* operation_
    allocated,      \* bytes that operator new asked for
    buflen,         \* buflen_
    from_len_addr,  \* from_len_addr_, or 0 for NULL
    from,           \* from_, or 0 for NULL
    cleared,        \* the first and the last byte the constructor zeroed
    wbuf,           \* the place and the length GetWASBUF left in wbuf_
    client          \* client_: "socket", or "garbage" where nothing set it

buffers == <<operation, allocated, buflen, from_len_addr, from, cleared, wbuf, client>>

\* MUTANT: the address lies behind the data, not in its place.
Length_Whole(size, op) == size

\* What is left of the buffer for the data.
Length(size, op) == IF op = "kRecvFrom" THEN size - kAdditionalSize ELSE size

\* operator new and the constructor.
NewBuffer(op, size) ==
    /\ op = "kRecvFrom" => size > kAdditionalSize
    /\ operation = op
    /\ allocated = ObjectSize + size
    /\ cleared = <<DataOffset, DataOffset + size - 1>>
    /\ buflen = Length(size, op)
    /\ from_len_addr = IF op = "kRecvFrom" THEN DataOffset + buflen ELSE 0
    /\ from = IF op = "kRecvFrom" THEN from_len_addr + LengthSize ELSE 0
    /\ wbuf = <<0, 0>>
    /\ client = IF op = "kAccept" THEN "socket" ELSE "garbage"

BufferInit == \E op \in Operations, size \in 0 .. MaxSize : NewBuffer(op, size)

GetWASBUF ==
    /\ wbuf' = <<DataOffset, buflen>>
    /\ UNCHANGED <<operation, allocated, buflen, from_len_addr, from, cleared, client>>

BufferNext == GetWASBUF

BufferSpec == BufferInit /\ [][BufferNext]_buffers

-----------------------------------------------------------------------------
(* Properties.                                                             *)

\* What the constructor and the system write lies behind the fields of the
\* object and inside the allocation: the data, the length of the address and
\* the address, and none of the three overlaps another, for a buffer of any
\* size and operation.
PartsAreDisjoint ==
    /\ DataOffset + buflen <= allocated
    /\ buflen >= 0
    /\ cleared[2] < allocated
    /\ wbuf[1] + wbuf[2] <= DataOffset + buflen
    /\ operation = "kRecvFrom" =>
         /\ DataOffset + buflen <= from_len_addr
         /\ wbuf[1] + wbuf[2] <= from_len_addr
         /\ from_len_addr + LengthSize <= from
         /\ from + AddressSize <= allocated
         /\ from + AddressSize <= cleared[2] + 1

=============================================================================
