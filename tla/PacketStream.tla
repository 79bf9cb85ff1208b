---------------------------- MODULE PacketStream ----------------------------
(***************************************************************************)
(* What the receive path promises the packet handlers: the client's byte   *)
(* stream is cut where its length fields say, and every packet that has    *)
(* arrived completely is handled, once, whole and in order, however TCP    *)
(* cuts the stream into pieces.  Bytes are named by their position in the  *)
(* stream.                                                                 *)
(***************************************************************************)
EXTENDS Integers

CONSTANTS
    HeaderSize,     \* bytes of a packet that hold its length and type
    StreamLen       \* bytes the client ever sends

VARIABLES
    stream,     \* at every position, the length a packet starting there announces
    arrived,    \* how many bytes have come in
    next,       \* where the next packet starts
    handled,    \* the bytes of the last packet handled
    open        \* the session is connected

streamVars == <<stream, arrived, next, handled, open>>

Init ==
    /\ arrived = 0
    /\ next = 0
    /\ handled = <<>>
    /\ open = TRUE

Arrive(n) ==
    /\ arrived + n <= StreamLen
    /\ arrived' = arrived + n
    /\ UNCHANGED <<stream, next, handled, open>>

Handle ==
    /\ next + HeaderSize <= arrived
    /\ next + stream[next] <= arrived
    /\ handled' = [i \in 1..stream[next] |-> next + i - 1]
    /\ next' = next + stream[next]
    /\ UNCHANGED <<stream, arrived, open>>

Close ==
    /\ open
    /\ open' = FALSE
    /\ UNCHANGED <<stream, arrived, next, handled>>

Next == (\E n \in 1..StreamLen : Arrive(n)) \/ Handle \/ Close

\* The packets are cut where the stream says, whole, in order and once.
Safety == Init /\ [][Next]_streamVars

\* And while the session is connected, no complete packet stays unhandled.
Spec == Safety /\ WF_streamVars(open /\ Handle)
=============================================================================
