---------------------------- MODULE SessionSend ----------------------------
(***************************************************************************)
(* The send path of one connected Session (Session.cpp, IOContext.h):      *)
(* RegistSend, PostSend and OnPostSend, run by the worker threads of the   *)
(* IOCP pool and by the timer thread, around three shared things: the      *)
(* lock-free mSendQueue, the atomic flag mSendRegistred that elects the    *)
(* one thread allowed to send, and the single mSendContext whose buffers   *)
(* the kernel reads while a WSASend is outstanding.                        *)
(*                                                                         *)
(* One step of this module is one access to that shared state.  A thread   *)
(* is described by the program point it stands at:                         *)
(*   idle     outside this session's send path                             *)
(*   push     RegistSend, past the connected check                (line 35) *)
(*   elect    RegistSend, before the exchange on mSendRegistred   (line 37) *)
(*   post     entry of PostSend                                   (line 224)*)
(*   drain    PostSend, moving the queue into the context         (line 232)*)
(*   submit   PostSend, before WSASend                            (line 247)*)
(*   close    OnPostSend, completion of zero bytes                (line 99) *)
(*   recheck  OnPostSend, before the empty test                   (line 102)*)
(*   release  before mSendRegistred.store(false)            (lines 103, 253)*)
(*                                                                         *)
(* PostDisconnect appears by its effect on this path, mConnected = false;  *)
(* what it does to the player, the board and the session table is the      *)
(* business of other modules.  concurrency::concurrent_queue is taken as   *)
(* linearizable: push, empty and try_pop are single steps.                 *)
(***************************************************************************)
EXTENDS Session, Naturals, Sequences, Functions

CONSTANTS
    Threads,        \* worker threads and the timer thread
    Msgs,           \* SendBuffers; each is registered at most once
    NoMsg,          \* no SendBuffer
    SendMayFail     \* whether WSASend itself may report an error

ASSUME NoMsgAssumption == NoMsg \notin Msgs
ASSUME SendMayFailAssumption == SendMayFail \in BOOLEAN

VARIABLES
    registered,     \* mSendRegistred
    queue,          \* mSendQueue
    batch,          \* mSendContext.sendBuffers
    owned,          \* mSendContext.owner is not null
    kernel,         \* WSASend requests not yet completed, each with the buffers its WSABUFs point at
    wire,           \* everything WSASend took, in order: what the client will read
    refused,        \* history: everything a WSASend returned SOCKET_ERROR for, in order
    fresh,          \* messages nobody has registered yet
    pc,             \* where each thread is
    msg             \* the sendBuffer argument of each thread's RegistSend

vars == <<connected, registered, queue, batch, owned, kernel, wire, refused, fresh, pc, msg>>

Points == {"idle", "push", "elect", "post", "drain", "submit", "close", "recheck", "release"}

\* The session right after ProcessConnect.
Init ==
    /\ connected = TRUE
    /\ registered = FALSE
    /\ queue = <<>>
    /\ batch = <<>>
    /\ owned = FALSE
    /\ kernel = <<>>
    /\ wire = <<>>
    /\ refused = <<>>
    /\ fresh = Msgs
    /\ pc = [t \in Threads |-> "idle"]
    /\ msg = [t \in Threads |-> NoMsg]

Goto(t, point) == pc' = [pc EXCEPT ![t] = point]

(***************************************************************************)
(* RegistSend                                                              *)
(***************************************************************************)

\* A caller checks IsConnected; a packet for a dead session is dropped.
RegistSend(t, m) ==
    /\ pc[t] = "idle"
    /\ m \in fresh
    /\ fresh' = fresh \ {m}
    /\ \/ /\ connected
          /\ Goto(t, "push")
          /\ msg' = [msg EXCEPT ![t] = m]
       \/ /\ ~connected
          /\ UNCHANGED <<pc, msg>>
    /\ UNCHANGED <<connected, registered, queue, batch, owned, kernel, wire, refused>>

Push(t) ==
    /\ pc[t] = "push"
    /\ queue' = Append(queue, msg[t])
    /\ msg' = [msg EXCEPT ![t] = NoMsg]
    /\ Goto(t, "elect")
    /\ UNCHANGED <<connected, registered, batch, owned, kernel, wire, refused, fresh>>

\* Mutation: store(true) for exchange(true), everybody sends.
ElectEverybody(t) ==
    /\ pc[t] = "elect"
    /\ registered' = TRUE
    /\ Goto(t, "post")
    /\ UNCHANGED <<connected, queue, batch, owned, kernel, wire, refused, fresh, msg>>

\* exchange(true): whoever finds false becomes the sender.
Elect(t) ==
    /\ pc[t] = "elect"
    /\ registered' = TRUE
    /\ Goto(t, IF registered THEN "idle" ELSE "post")
    /\ UNCHANGED <<connected, queue, batch, owned, kernel, wire, refused, fresh, msg>>

(***************************************************************************)
(* PostSend                                                                *)
(***************************************************************************)

\* A dead session is left alone, with mSendRegistred still true.
EnterPostSend(t) ==
    /\ pc[t] = "post"
    /\ \/ connected /\ owned' = TRUE /\ Goto(t, "drain")
       \/ ~connected /\ Goto(t, "idle") /\ UNCHANGED owned
    /\ UNCHANGED <<connected, registered, queue, batch, kernel, wire, refused, fresh, msg>>

\* Mutation: a context has room for one packet, and what is popped past it is dropped.
DrainToFull(t) ==
    /\ pc[t] = "drain"
    /\ queue # <<>>
    /\ batch' = IF batch = <<>> THEN <<Head(queue)>> ELSE batch
    /\ queue' = Tail(queue)
    /\ UNCHANGED <<connected, registered, owned, kernel, wire, refused, fresh, pc, msg>>

\* One turn of the loop: try_pop the oldest packet into the context.
Drain(t) ==
    /\ pc[t] = "drain"
    /\ queue # <<>>
    /\ batch' = Append(batch, Head(queue))
    /\ queue' = Tail(queue)
    /\ UNCHANGED <<connected, registered, owned, kernel, wire, refused, fresh, pc, msg>>

\* Mutation: the loop may end with packets left.
DrainGivesUp(t) ==
    /\ pc[t] = "drain"
    /\ Goto(t, "submit")
    /\ UNCHANGED <<connected, registered, queue, batch, owned, kernel, wire, refused, fresh, msg>>

DrainDone(t) ==
    /\ pc[t] = "drain"
    /\ queue = <<>>
    /\ Goto(t, "submit")
    /\ UNCHANGED <<connected, registered, queue, batch, owned, kernel, wire, refused, fresh, msg>>

\* Mutation: the buffers are released as soon as WSASend returns.
SubmitAndClear(t) ==
    /\ pc[t] = "submit"
    /\ kernel' = Append(kernel, batch)
    /\ wire' = wire \o batch
    /\ batch' = <<>>
    /\ Goto(t, "idle")
    /\ UNCHANGED <<connected, registered, queue, owned, refused, fresh, msg>>

\* WSASend succeeds or is pending: its completion will come, even for no buffers.
Submit(t) ==
    /\ pc[t] = "submit"
    /\ kernel' = Append(kernel, batch)
    /\ wire' = wire \o batch
    /\ Goto(t, "idle")
    /\ UNCHANGED <<connected, registered, queue, batch, owned, refused, fresh, msg>>

\* Mutation: the error path forgets to lower the flag.
SubmitFailsHolding(t) ==
    /\ SendMayFail
    /\ pc[t] = "submit"
    /\ owned' = FALSE
    /\ refused' = refused \o batch
    /\ batch' = <<>>
    /\ Goto(t, "idle")
    /\ UNCHANGED <<connected, registered, queue, kernel, wire, fresh, msg>>

\* WSASend fails at once: the batch is dropped and the flag will be lowered.
SubmitFails(t) ==
    /\ SendMayFail
    /\ pc[t] = "submit"
    /\ owned' = FALSE
    /\ refused' = refused \o batch
    /\ batch' = <<>>
    /\ Goto(t, "release")
    /\ UNCHANGED <<connected, registered, queue, kernel, wire, fresh, msg>>

(***************************************************************************)
(* OnPostSend                                                              *)
(***************************************************************************)

\* A worker takes a completion of mSendContext off the port.  A completion
\* whose context has no owner any more is ignored (IOCPCore.cpp).  An empty
\* request completes with zero bytes; any request may, when the connection dies.
OnPostSend(t) ==
    /\ pc[t] = "idle"
    /\ kernel # <<>>
    /\ kernel' = Tail(kernel)
    /\ IF owned
       THEN /\ owned' = FALSE
            /\ batch' = <<>>
            /\ \/ Goto(t, "close")
               \/ Head(kernel) # <<>> /\ Goto(t, "recheck")
       ELSE UNCHANGED <<owned, batch, pc>>
    /\ UNCHANGED <<connected, registered, queue, wire, refused, fresh, msg>>

\* PostDisconnect, and on with OnPostSend.
CloseOnZero(t) ==
    /\ pc[t] = "close"
    /\ connected' = FALSE
    /\ Goto(t, "recheck")
    /\ UNCHANGED <<registered, queue, batch, owned, kernel, wire, refused, fresh, msg>>

Recheck(t) ==
    /\ pc[t] = "recheck"
    /\ Goto(t, IF queue = <<>> THEN "release" ELSE "post")
    /\ UNCHANGED <<connected, registered, queue, batch, owned, kernel, wire, refused, fresh, msg>>

Release(t) ==
    /\ pc[t] = "release"
    /\ registered' = FALSE
    /\ Goto(t, "idle")
    /\ UNCHANGED <<connected, queue, batch, owned, kernel, wire, refused, fresh, msg>>

(***************************************************************************)
(* The receive path, on some worker, saw the client leave or WSARecv fail. *)
(***************************************************************************)
PostDisconnect ==
    /\ connected
    /\ connected' = FALSE
    /\ UNCHANGED <<registered, queue, batch, owned, kernel, wire, refused, fresh, pc, msg>>

\* What a thread does once it has entered the send path.
Step(t) ==
    \/ Push(t) \/ Elect(t)
    \/ EnterPostSend(t) \/ Drain(t) \/ DrainDone(t) \/ Submit(t) \/ SubmitFails(t)
    \/ CloseOnZero(t) \/ Recheck(t) \/ Release(t)

Next ==
    \/ \E t \in Threads : \/ \E m \in Msgs : RegistSend(t, m)
                          \/ OnPostSend(t)
                          \/ Step(t)
    \/ PostDisconnect

\* Threads run, and some worker always waits in GetQueuedCompletionStatus;
\* nobody has to send and no client has to leave.
Fairness ==
    /\ \A t \in Threads : WF_vars(Step(t))
    /\ WF_vars(\E t \in Threads : OnPostSend(t))

Spec == Init /\ [][Next]_vars

FairSpec == Spec /\ Fairness

(***************************************************************************)
(* Properties                                                              *)
(***************************************************************************)

TypeOK ==
    /\ connected \in BOOLEAN
    /\ registered \in BOOLEAN
    /\ queue \in Seq(Msgs)
    /\ batch \in Seq(Msgs)
    /\ owned \in BOOLEAN
    /\ kernel \in Seq(Seq(Msgs))
    /\ wire \in Seq(Msgs)
    /\ refused \in Seq(Msgs)
    /\ fresh \in SUBSET Msgs
    /\ pc \in [Threads -> Points]
    /\ msg \in [Threads -> Msgs \cup {NoMsg}]
    /\ \A t \in Threads : pc[t] = "push" <=> msg[t] \in Msgs

\* The thread was elected and may touch mSendContext.
Sender(t) == pc[t] \notin {"idle", "push", "elect"}

\* mSendContext has one user at a time: two threads are never both the
\* sender, and no thread is while a WSASend on the context is outstanding.
\* PostSend re-initialises the OVERLAPPED and OnPostSend clears the vector
\* without a lock; this is what makes that safe (Session.cpp:222-256, 93-106).
OneSender ==
    /\ \A t, u \in Threads : Sender(t) /\ Sender(u) => t = u
    /\ kernel # <<>> => \A t \in Threads : ~Sender(t)
    /\ Len(kernel) <= 1

\* While the kernel reads the WSABUFs of a request, the SendBuffers they
\* point at are alive in mSendContext.sendBuffers and the context keeps the
\* session alive (Session.cpp:228, 236, 239-244).
BuffersOutliveSend ==
    kernel # <<>> => owned /\ batch = Head(kernel)

\* On a live session the flag is never left up with nobody to lower it, so
\* whatever is in the queue, the next RegistSend can send it (Session.cpp:37).
FlagHasHolder ==
    connected /\ registered =>
        kernel # <<>> \/ \E t \in Threads : Sender(t)

\* Some sender is moving packets into the context.
Filling == \E t \in Threads : pc[t] \in {"drain", "submit"}

\* The packets accepted for this client: drained but not submitted, then queued.
Unsubmitted == (IF Filling THEN batch ELSE <<>>) \o queue

Channel == INSTANCE SendChannel WITH backlog <- Unsubmitted, open <- connected

\* The send path is a FIFO channel: every packet RegistSend queues stays in the
\* line until it goes, once and in its turn, into a WSASend, and none is lost but
\* those of a WSASend that failed (Session.cpp:33-42, 230-256).
ImplementsChannel == Channel!Spec

Queued(m) == m \in Range(queue)

\* Whoever is elected, for whatever packet, sends everything that is queued
\* by then: a packet stranded in the window between lines 102 and 103, or
\* behind a failed WSASend, goes out with the next RegistSend.
ElectedSenderDrains ==
    \A m \in Msgs :
        (connected /\ Queued(m) /\ \E t \in Threads : pc[t] = "post")
            ~> (~Queued(m) \/ ~connected)

=============================================================================
