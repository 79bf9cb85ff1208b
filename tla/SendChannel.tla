---------------------------- MODULE SendChannel ----------------------------
(***************************************************************************)
(* What Session::RegistSend promises its callers: the packets accepted for *)
(* one client go onto its TCP stream in the order in which they were       *)
(* accepted, each at most once.  A packet leaves the backlog only with a   *)
(* gathering write: for the wire when the write is taken, for refused when *)
(* it fails.  A packet that has gone anywhere else has no step here.       *)
(***************************************************************************)
EXTENDS Naturals, Sequences

CONSTANT Msgs       \* the packets (SendBuffers) anybody may ever send

VARIABLES
    backlog,        \* accepted, not yet handed to the socket, oldest first
    wire,           \* taken by the socket, oldest first
    refused,        \* handed over in writes that failed, oldest first
    open            \* the session has not been disconnected

channelVars == <<backlog, wire, refused, open>>

Init ==
    /\ backlog = <<>>
    /\ wire = <<>>
    /\ refused = <<>>
    /\ open = TRUE

\* A packet joins the end of the line.
Accept(m) ==
    /\ backlog' = Append(backlog, m)
    /\ UNCHANGED <<wire, refused, open>>

\* The n oldest packets go to the socket, in order, in one gathering write.
Transmit(n) ==
    /\ wire' = wire \o SubSeq(backlog, 1, n)
    /\ backlog' = SubSeq(backlog, n + 1, Len(backlog))
    /\ UNCHANGED <<refused, open>>

\* The gathering write of the n oldest packets fails: they are gone, and counted.
Fail(n) ==
    /\ refused' = refused \o SubSeq(backlog, 1, n)
    /\ backlog' = SubSeq(backlog, n + 1, Len(backlog))
    /\ UNCHANGED <<wire, open>>

Close ==
    /\ open
    /\ open' = FALSE
    /\ UNCHANGED <<backlog, wire, refused>>

Next ==
    \/ \E m \in Msgs : Accept(m)
    \/ \E n \in 0..Len(backlog) : Transmit(n) \/ Fail(n)
    \/ Close

Spec == Init /\ [][Next]_channelVars
=============================================================================
