--------------------------- MODULE ByteStreamSpec ---------------------------
(***************************************************************************)
(* A ByteStream in the hands of one writer and one reader that call it in  *)
(* any order.                                                              *)
(***************************************************************************)
EXTENDS ByteStream

CONSTANTS
    Byte,       \* what a byte may be
    Capacity,   \* capacity_
    MaxPush,    \* bound: the most bytes of one push()
    MaxTotal    \* bound: the most bytes ever pushed

VARIABLE stream

Init == stream = NewStream(Capacity)

(* Strings offered to one push(). *)
Chunk == UNION {[1 .. k -> Byte] : k \in 0 .. MaxPush}

Push(data) ==
    /\ BytesPushed(stream) + Len(data) <= MaxTotal
    /\ stream' = WriterPush(stream, data)

Close == stream' = WriterClose(stream)

Fail == stream' = SetError(stream)

Pop(len) == stream' = ReaderPop(stream, len)

Next ==
    \/ \E data \in Chunk : Push(data)
    \/ Close
    \/ Fail
    \/ \E len \in 0 .. (Capacity + 1) : Pop(len)

Spec == Init /\ [][Next]_stream
=============================================================================
