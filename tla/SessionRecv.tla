---------------------------- MODULE SessionRecv ----------------------------
(***************************************************************************)
(* The receive path of one Session (Session.cpp: PostRecv, OnPostRecv,     *)
(* ProcessData) and its RecvBuffer (RecvBuffer.cpp, RecvBuffer.h): a flat  *)
(* array of ten times the advertised buffer size, a read and a write       *)
(* cursor, and no wrap-around, so that Clean has to move what is left of   *)
(* the data to the front before the array runs out.                        *)
(*                                                                         *)
(* The client's bytes are named by their position in its TCP stream; what  *)
(* a byte says is only read where a header is expected, and is given by    *)
(* stream, the length field found there.  Clients are well-formed: a       *)
(* packet is no shorter than its header.  One receive is outstanding at a  *)
(* time, so the path is sequential; what is concurrent is the arrival of   *)
(* bytes, in pieces of any size, and a disconnection by the send path.     *)
(* The contents handlers give the packets are other modules' business.     *)
(***************************************************************************)
EXTENDS Session, Integers, Sequences

CONSTANTS
    BufferSize,     \* m_bufferSize, 65535 in Session's constructor
    HeaderSize,     \* sizeof(PacketHeader)
    MaxPacket,      \* the largest length field, one byte
    StreamLen,      \* how many bytes a client sends (bounds the model)
    Streams         \* the streams clients may send

ASSUME SizesAssumption ==
    /\ BufferSize \in Nat /\ HeaderSize \in Nat /\ MaxPacket \in Nat /\ StreamLen \in Nat
    /\ 0 < HeaderSize /\ HeaderSize <= MaxPacket /\ MaxPacket <= BufferSize

\* A stream says, at each of its positions, the length announced there.
ASSUME StreamsAssumption == Streams \subseteq [0..StreamLen - 1 -> HeaderSize..MaxPacket]

Capacity == BufferSize * 10

\* A place of the array that holds no byte of the stream.
NoByte == -1

VARIABLES
    stream,         \* this client's stream
    taken,          \* bytes of it the kernel has put into the buffer
    data,           \* m_buffer: the stream position of the byte at each place
    readCursor,     \* m_readCursor
    writeCursor,    \* m_writeCursor
    at,             \* where the receive path is, see RecvPoints
    ptr,            \* ProcessData's ptr, as a place of the array
    handled         \* the bytes of the last packet given to ProcessPacket

recvVars == <<stream, taken, data, readCursor, writeCursor, connected, at, ptr, handled>>

\*   post     before PostRecv             recv     WSARecv outstanding
\*   parse    in ProcessData's loop       clean    before Clean
\*   closed   over, by the peer, by a failing WSARecv or by the send path
\*   refused  over, by OnPostRecv's own checks on the buffer
RecvPoints == {"post", "recv", "parse", "clean", "closed", "refused"}

GetDataSize == writeCursor - readCursor
GetFreeSize == Capacity - writeCursor

\* ProcessConnect has set mConnected and is about to post the first receive.
RecvInit ==
    /\ stream \in Streams
    /\ taken = 0
    /\ data = [i \in 0..Capacity - 1 |-> NoByte]
    /\ readCursor = 0
    /\ writeCursor = 0
    /\ connected = TRUE
    /\ at = "post"
    /\ ptr = 0
    /\ handled = <<>>

\* WSARecv is posted with all the free space; if it fails, SendPathDisconnects.
PostRecv ==
    /\ at = "post"
    /\ \/ connected /\ at' = "recv" /\ UNCHANGED connected
       \/ at' = "closed" /\ connected' = FALSE
    /\ UNCHANGED <<stream, taken, data, readCursor, writeCursor, ptr, handled>>

\* The receive completes with n bytes of the stream, at the write cursor.
OnPostRecv(n) ==
    /\ at = "recv"
    /\ n <= GetFreeSize
    /\ taken + n <= StreamLen
    /\ data' = [i \in 0..Capacity - 1 |->
                  IF i \in writeCursor..writeCursor + n - 1 THEN taken + (i - writeCursor) ELSE data[i]]
    /\ taken' = taken + n
    /\ writeCursor' = writeCursor + n
    /\ ptr' = readCursor
    /\ at' = "parse"
    /\ UNCHANGED <<stream, readCursor, connected, handled>>

\* The receive completes with no bytes: the client is gone.
OnPeerClosed ==
    /\ at = "recv"
    /\ connected' = FALSE
    /\ at' = "closed"
    /\ UNCHANGED <<stream, taken, data, readCursor, writeCursor, ptr, handled>>

\* The length field found at ptr.
HeaderLength == stream[data[ptr]]

\* Mutation: a header is enough.
HeaderAtPtr ==
    /\ ptr + HeaderSize <= writeCursor
    /\ HeaderLength > 0

\* Mutation: a packet that ends with the data is left for later.
PacketBeforeEnd ==
    /\ ptr + HeaderSize <= writeCursor
    /\ ptr + HeaderLength < writeCursor

\* ptr stands at a packet of which every byte is there.
PacketAtPtr ==
    /\ ptr + HeaderSize <= writeCursor
    /\ ptr + HeaderLength <= writeCursor

\* One turn of ProcessData's loop.
ProcessPacket ==
    /\ at = "parse"
    /\ PacketAtPtr
    /\ handled' = [i \in 1..HeaderLength |-> data[ptr + i - 1]]
    /\ ptr' = ptr + HeaderLength
    /\ UNCHANGED <<stream, taken, data, readCursor, writeCursor, connected, at>>

\* The loop ends; OnPostRecv checks the length it returned and moves the
\* read cursor over what was processed, or disconnects.
ProcessDataReturns ==
    /\ at = "parse"
    /\ ~PacketAtPtr
    /\ IF ptr - readCursor < 0 \/ GetDataSize < ptr - readCursor
       THEN at' = "refused" /\ connected' = FALSE /\ UNCHANGED readCursor
       ELSE at' = "clean" /\ readCursor' = ptr /\ UNCHANGED connected
    /\ UNCHANGED <<stream, taken, data, writeCursor, ptr, handled>>

\* Mutation: the front of the array is kept instead of the live bytes.
FrontKept ==
    [i \in 0..Capacity - 1 |-> IF i < GetDataSize THEN data[i] ELSE NoByte]

\* The live bytes, and only they, at the front of the array.
MovedToFront ==
    [i \in 0..Capacity - 1 |-> IF i < GetDataSize THEN data[readCursor + i] ELSE NoByte]

\* Mutation: any use of the array counts as shortage.
AnyUse == GetFreeSize < Capacity

\* Room for less than one full buffer is left behind the write cursor.
ShortOfRoom == GetFreeSize < BufferSize

\* Mutation: the cursors are reset when the buffer is empty, never moved.
CleanOnlyEmpty ==
    /\ at = "clean"
    /\ IF GetDataSize = 0
       THEN /\ data' = MovedToFront
            /\ readCursor' = 0
            /\ writeCursor' = 0
       ELSE UNCHANGED <<data, readCursor, writeCursor>>
    /\ at' = "post"
    /\ UNCHANGED <<stream, taken, connected, ptr, handled>>

Clean ==
    /\ at = "clean"
    /\ IF GetDataSize = 0 \/ ShortOfRoom
       THEN /\ data' = MovedToFront
            /\ readCursor' = 0
            /\ writeCursor' = GetDataSize
       ELSE UNCHANGED <<data, readCursor, writeCursor>>
    /\ at' = "post"
    /\ UNCHANGED <<stream, taken, connected, ptr, handled>>

\* The send path, on another worker, disconnects the session.
SendPathDisconnects ==
    /\ connected
    /\ connected' = FALSE
    /\ UNCHANGED <<stream, taken, data, readCursor, writeCursor, at, ptr, handled>>

\* What the worker does without waiting for anybody.
RecvStep == PostRecv \/ ProcessPacket \/ ProcessDataReturns \/ Clean

RecvNext ==
    \/ RecvStep
    \/ \E n \in 1..StreamLen : OnPostRecv(n)
    \/ OnPeerClosed
    \/ SendPathDisconnects

RecvSafety == RecvInit /\ [][RecvNext]_recvVars

\* A worker that has begun a completion finishes it; clients owe nothing.
RecvSpec == RecvSafety /\ WF_recvVars(RecvStep)

(***************************************************************************)
(* Properties                                                              *)
(***************************************************************************)

RecvTypeOK ==
    /\ stream \in Streams
    /\ taken \in 0..StreamLen
    /\ data \in [0..Capacity - 1 -> 0..StreamLen - 1 \cup {NoByte}]
    /\ writeCursor \in 0..Capacity
    /\ readCursor \in 0..writeCursor
    /\ connected \in BOOLEAN
    /\ at \in RecvPoints
    /\ ptr \in 0..Capacity

\* A receive is never posted with less room than one full buffer: WSARecv
\* gets a non-empty WSABUF (an empty one would complete with zero bytes and
\* pass for a disconnection), and any packet fits (Session.cpp:266-268,
\* RecvBuffer.cpp:41).
RoomToReceive == at = "recv" => GetFreeSize >= BufferSize

\* When Clean moves the rest of the data to the front, source and target do
\* not overlap, as memcpy requires (RecvBuffer.cpp:42).
CopyIsDisjoint ==
    at = "clean" /\ GetDataSize # 0 /\ ShortOfRoom => GetDataSize <= readCursor

\* A client is never disconnected by OnPostRecv's checks of its own cursors
\* (Session.cpp:83-86): ProcessData stays within the received bytes.
NeverRefused == at # "refused"

\* While the server waits for more bytes, the ones it has hold no complete
\* packet, so no request waits for a later one (Session.cpp:166-180).
NothingCompleteWaits ==
    at = "recv" /\ GetDataSize >= HeaderSize =>
        GetDataSize < stream[data[readCursor]]

\* Where the next packet starts in the stream.
NextPacket == IF handled = <<>> THEN 0 ELSE handled[Len(handled)] + 1

Packets == INSTANCE PacketStream WITH
    arrived <- taken, next <- NextPacket, open <- connected

\* The safety half: the packets, whole, in order and once.
PacketsInOrder == Packets!Safety

\* Any cutting of the stream by TCP gives the handlers the packets the
\* client sent, whole, in order, once, and as soon as they are complete.
ImplementsPacketStream == Packets!Spec
=============================================================================
