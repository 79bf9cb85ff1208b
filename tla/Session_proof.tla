--------------------------- MODULE Session_proof ---------------------------
(***************************************************************************)
(* The two paths of a session.                                             *)
(*                                                                         *)
(* Sending: the election by mSendRegistred works for any number of threads *)
(* and packets: one sender at a time, buffers alive under the kernel, no   *)
(* flag left up on a live session, and a FIFO channel as the result.       *)
(*                                                                         *)
(* Receiving: the buffer never runs out, never copies onto itself and      *)
(* never loses the place in the stream, for every buffer size not smaller  *)
(* than the largest packet and every cutting of every stream.              *)
(***************************************************************************)
EXTENDS SessionSend, SessionRecv, SequenceTheorems, TLAPS

(***************************************************************************)
(* The strengthening.  A lowered flag means nobody uses the context, which *)
(* is what makes the thread that raises it the only one; and the context   *)
(* has an owner while it is filled, and no packet unless a sender is       *)
(* filling it or the kernel reads it.                                      *)
(***************************************************************************)
LoweredMeansUnused ==
    ~registered => kernel = <<>> /\ \A t \in Threads : ~Sender(t)

BatchOnlyInUse ==
    /\ Filling => owned
    /\ ~Filling /\ kernel = <<>> => batch = <<>>

Inv ==
    /\ OneSender
    /\ BuffersOutliveSend
    /\ FlagHasHolder
    /\ LoweredMeansUnused
    /\ BatchOnlyInUse

(***************************************************************************)
(* Every step of every thread keeps the variables in their types.          *)
(***************************************************************************)
LEMMA TypingStep == TypeOK /\ [Next]_vars => TypeOK'
<1> SUFFICES ASSUME TypeOK, [Next]_vars PROVE TypeOK'
  OBVIOUS
<1> USE DEF TypeOK, Points, Goto
<1>1. ASSUME NEW t \in Threads, NEW m \in Msgs, RegistSend(t, m) PROVE TypeOK'
  BY <1>1, NoMsgAssumption DEF RegistSend
<1>2. ASSUME NEW t \in Threads, OnPostSend(t) PROVE TypeOK'
  <2>1. Tail(kernel) \in Seq(Seq(Msgs))
    BY <1>2, HeadTailProperties DEF OnPostSend
  <2> QED BY <1>2, <2>1, EmptySeq, NoMsgAssumption DEF OnPostSend
<1>3. ASSUME NEW t \in Threads, Push(t) PROVE TypeOK'
  <2>1. Append(queue, msg[t]) \in Seq(Msgs)
    BY <1>3, AppendProperties DEF Push
  <2> QED BY <1>3, <2>1, NoMsgAssumption DEF Push
<1>4. ASSUME NEW t \in Threads, Elect(t) PROVE TypeOK'
  BY <1>4 DEF Elect
<1>5. ASSUME NEW t \in Threads, EnterPostSend(t) PROVE TypeOK'
  BY <1>5 DEF EnterPostSend
<1>6. ASSUME NEW t \in Threads, Drain(t) PROVE TypeOK'
  <2>1. /\ Append(batch, Head(queue)) \in Seq(Msgs)
        /\ Tail(queue) \in Seq(Msgs)
    BY <1>6, HeadTailProperties, AppendProperties DEF Drain
  <2> QED BY <1>6, <2>1 DEF Drain
<1>7. ASSUME NEW t \in Threads, DrainDone(t) PROVE TypeOK'
  BY <1>7 DEF DrainDone
<1>8. ASSUME NEW t \in Threads, Submit(t) PROVE TypeOK'
  <2>1. Append(kernel, batch) \in Seq(Seq(Msgs)) /\ wire \o batch \in Seq(Msgs)
    BY AppendProperties, ConcatProperties
  <2> QED BY <1>8, <2>1 DEF Submit
<1>9. ASSUME NEW t \in Threads, SubmitFails(t) PROVE TypeOK'
  <2>1. refused \o batch \in Seq(Msgs)
    BY ConcatProperties
  <2> QED BY <1>9, <2>1, EmptySeq DEF SubmitFails
<1>10. ASSUME NEW t \in Threads, CloseOnZero(t) PROVE TypeOK'
  BY <1>10 DEF CloseOnZero
<1>11. ASSUME NEW t \in Threads, Recheck(t) PROVE TypeOK'
  BY <1>11 DEF Recheck
<1>12. ASSUME NEW t \in Threads, Release(t) PROVE TypeOK'
  BY <1>12 DEF Release
<1>13. CASE PostDisconnect
  BY <1>13 DEF PostDisconnect
<1>14. CASE UNCHANGED vars
  BY <1>14 DEF vars
<1> QED
  BY <1>1, <1>2, <1>3, <1>4, <1>5, <1>6, <1>7, <1>8, <1>9, <1>10, <1>11, <1>12, <1>13, <1>14
  DEF Next, Step

LEMMA TypingInit == Init => TypeOK
  BY EmptySeq, NoMsgAssumption DEF Init, TypeOK, Points

\* The variables of SessionSend never leave their types (Session.h:19-25).
THEOREM Typing == Spec => []TypeOK
<1> QED BY TypingInit, TypingStep, PTL DEF Spec

(***************************************************************************)
(* The election.                                                           *)
(***************************************************************************)
LEMMA InvInit == Init => Inv
<1> SUFFICES ASSUME Init PROVE Inv
  OBVIOUS
<1> QED
  BY EmptySeq DEF Init, Inv, OneSender, BuffersOutliveSend, FlagHasHolder,
     LoweredMeansUnused, BatchOnlyInUse, Sender, Filling

\* Every step keeps the election sound: raising a lowered flag makes the only
\* sender, and a sender leaves by handing over to the kernel, by lowering the
\* flag, or on a dead session.
LEMMA InvStep == TypeOK /\ Inv /\ [Next]_vars => Inv'
<1> SUFFICES ASSUME TypeOK, Inv, [Next]_vars PROVE Inv'
  OBVIOUS
<1> USE DEF Inv, OneSender, BuffersOutliveSend, FlagHasHolder,
            LoweredMeansUnused, BatchOnlyInUse, Sender, Filling, TypeOK, Points, Goto
<1>1. ASSUME NEW t \in Threads, NEW m \in Msgs, RegistSend(t, m) PROVE Inv'
  BY <1>1 DEF RegistSend
<1>2. ASSUME NEW t \in Threads, OnPostSend(t) PROVE Inv'
  <2>1. Tail(kernel) = <<>>
    BY <1>2, HeadTailProperties, EmptySeq DEF OnPostSend
  <2>2. owned /\ \A u \in Threads : ~Sender(u)
    BY <1>2 DEF OnPostSend
  <2>3. /\ kernel' = <<>> /\ batch' = <<>> /\ registered
        /\ UNCHANGED <<connected, registered>>
    BY <1>2, <2>1, <2>2 DEF OnPostSend
  <2>4. /\ pc'[t] \in {"close", "recheck"}
        /\ \A u \in Threads : u # t => pc'[u] = pc[u]
    BY <1>2, <2>2 DEF OnPostSend
  <2>5. ~Filling'
    BY <2>2, <2>4
  <2>6. Len(kernel') <= 1
    BY <2>3, EmptySeq
  <2>7. OneSender'
    BY <2>2, <2>3, <2>4, <2>6
  <2>8. BuffersOutliveSend' /\ FlagHasHolder'
    BY <2>3, <2>4
  <2> QED BY <2>3, <2>5, <2>7, <2>8
<1>3. ASSUME NEW t \in Threads, Push(t) PROVE Inv'
  BY <1>3 DEF Push
<1>4. ASSUME NEW t \in Threads, Elect(t) PROVE Inv'
  BY <1>4 DEF Elect
<1>5. ASSUME NEW t \in Threads, EnterPostSend(t) PROVE Inv'
  BY <1>5 DEF EnterPostSend
<1>6. ASSUME NEW t \in Threads, Drain(t) PROVE Inv'
  BY <1>6 DEF Drain
<1>7. ASSUME NEW t \in Threads, DrainDone(t) PROVE Inv'
  BY <1>7 DEF DrainDone
<1>8. ASSUME NEW t \in Threads, Submit(t) PROVE Inv'
  <2>1. kernel = <<>>
    BY <1>8 DEF Submit
  <2>2. /\ Append(kernel, batch) # <<>>
        /\ Len(Append(kernel, batch)) = 1
        /\ Head(Append(kernel, batch)) = batch
    BY <2>1, AppendProperties, EmptySeq, HeadTailAppend
  <2>3. /\ kernel' = Append(kernel, batch)
        /\ UNCHANGED <<connected, registered, batch, owned>>
        /\ owned /\ registered
    BY <1>8 DEF Submit
  <2>4. /\ pc'[t] = "idle"
        /\ \A u \in Threads : u # t => pc'[u] = pc[u] /\ ~Sender(u)
    BY <1>8 DEF Submit
  <2>5. ~Filling' /\ \A u \in Threads : ~Sender(u)'
    BY <2>4
  <2> QED BY <2>2, <2>3, <2>5
<1>9. ASSUME NEW t \in Threads, SubmitFails(t) PROVE Inv'
  BY <1>9 DEF SubmitFails
<1>10. ASSUME NEW t \in Threads, CloseOnZero(t) PROVE Inv'
  BY <1>10 DEF CloseOnZero
<1>11. ASSUME NEW t \in Threads, Recheck(t) PROVE Inv'
  BY <1>11 DEF Recheck
<1>12. ASSUME NEW t \in Threads, Release(t) PROVE Inv'
  BY <1>12 DEF Release
<1>13. CASE PostDisconnect
  BY <1>13 DEF PostDisconnect
<1>14. CASE UNCHANGED vars
  BY <1>14 DEF vars
<1> QED
  BY <1>1, <1>2, <1>3, <1>4, <1>5, <1>6, <1>7, <1>8, <1>9, <1>10, <1>11, <1>12, <1>13, <1>14
  DEF Next, Step

LEMMA Invariance == Spec => [](TypeOK /\ Inv)
<1>1. Init => TypeOK /\ Inv
  BY TypingInit, InvInit
<1>2. TypeOK /\ Inv /\ [Next]_vars => (TypeOK /\ Inv)'
  BY TypingStep, InvStep
<1> QED BY <1>1, <1>2, PTL DEF Spec

\* mSendContext has one user at a time, whatever the threads do (Session.cpp:37-41).
THEOREM SendContextHasOneUser == Spec => []OneSender
<1>1. TypeOK /\ Inv => OneSender
  BY DEF Inv
<1> QED BY <1>1, Invariance, PTL

\* No SendBuffer is freed while the kernel reads it (Session.cpp:96, 239-247).
THEOREM KernelReadsLiveBuffers == Spec => []BuffersOutliveSend
<1>1. TypeOK /\ Inv => BuffersOutliveSend
  BY DEF Inv
<1> QED BY <1>1, Invariance, PTL

\* mSendRegistred is never stuck on a live session (Session.cpp:103, 253).
THEOREM FlagIsNeverStuck == Spec => []FlagHasHolder
<1>1. TypeOK /\ Inv => FlagHasHolder
  BY DEF Inv
<1> QED BY <1>1, Invariance, PTL

(***************************************************************************)
(* The FIFO channel.  First, three facts about concatenation: what the     *)
(* drain loop, a push behind the batch, and the gathering write do to the  *)
(* line of unsubmitted packets.                                            *)
(***************************************************************************)
LEMMA DrainKeepsLine ==
  ASSUME NEW S, NEW b \in Seq(S), NEW q \in Seq(S), q # <<>>
  PROVE  Append(b, Head(q)) \o Tail(q) = b \o q
<1>1. Head(q) \in S /\ Tail(q) \in Seq(S)
  BY HeadTailProperties
<1>2. Append(b, Head(q)) \in Seq(S)
  BY <1>1, AppendProperties
<1>3. /\ Append(b, Head(q)) \o Tail(q) \in Seq(S)
      /\ b \o q \in Seq(S)
      /\ Len(Append(b, Head(q)) \o Tail(q)) = Len(b \o q)
  BY <1>1, <1>2, ConcatProperties, AppendProperties, HeadTailProperties, LenProperties
<1>4. ASSUME NEW i \in 1..Len(b \o q)
      PROVE  (Append(b, Head(q)) \o Tail(q))[i] = (b \o q)[i]
  BY <1>1, <1>2, ConcatProperties, AppendProperties, HeadTailProperties, LenProperties
<1> QED BY <1>3, <1>4, SeqEqual

LEMMA PushJoinsLine ==
  ASSUME NEW S, NEW b \in Seq(S), NEW q \in Seq(S), NEW m \in S
  PROVE  b \o Append(q, m) = Append(b \o q, m)
<1>1. <<m>> \in Seq(S)
  OBVIOUS
<1> QED BY <1>1, AppendIsConcat, ConcatAssociative, ConcatProperties

LEMMA WriteTakesBatch ==
  ASSUME NEW S, NEW b \in Seq(S), NEW q \in Seq(S)
  PROVE  /\ Len(b) \in 0..Len(b \o q)
         /\ SubSeq(b \o q, 1, Len(b)) = b
         /\ SubSeq(b \o q, Len(b) + 1, Len(b \o q)) = q
<1>1. Len(b \o q) = Len(b) + Len(q) /\ b \o q \in Seq(S)
  BY ConcatProperties
<1>2. Len(b) \in Nat /\ Len(q) \in Nat
  BY LenProperties
<1>3. SubSeq(b \o q, 1, Len(b)) = b
  <2>1. CASE Len(b) = 0
    BY <2>1, SubSeqEmpty, EmptySeq
  <2>2. CASE Len(b) # 0
    BY <1>2, <2>2, SubSeqOfConcat1, SubSeqFull
  <2> QED BY <2>1, <2>2
<1>4. SubSeq(b \o q, Len(b) + 1, Len(b \o q)) = q
  <2>1. CASE Len(q) = 0
    BY <1>1, <1>2, <2>1, SubSeqEmpty, EmptySeq
  <2>2. CASE Len(q) # 0
    <3>1. SubSeq(b \o q, Len(b) + 1, Len(b) + Len(q)) = SubSeq(q, 1, Len(q))
      BY <1>2, <2>2, SubSeqOfConcat2
    <3> QED BY <1>1, <3>1, SubSeqFull
  <2> QED BY <2>1, <2>2
<1> QED BY <1>1, <1>2, <1>3, <1>4

LEMMA ChannelInit == Init => Channel!Init
  BY EmptySeq, ConcatEmptySeq DEF Init, Channel!Init, Unsubmitted

LEMMA ChannelStep ==
  TypeOK /\ Inv /\ [Next]_vars => [Channel!Next]_(Channel!channelVars)
<1> SUFFICES ASSUME TypeOK, Inv, [Next]_vars
             PROVE  Channel!Next \/ UNCHANGED <<Unsubmitted, wire, refused, connected>>
  BY DEF Channel!channelVars
<1> USE DEF TypeOK, Points, Goto
<1>a. /\ queue \in Seq(Msgs) /\ batch \in Seq(Msgs)
      /\ <<>> \o queue = queue
  BY ConcatEmptySeq
\* A step that moves t between points outside the loop leaves the line alone.
<1>b. ASSUME NEW t \in Threads, Filling' = Filling,
             UNCHANGED <<queue, wire, refused, connected>>, ~Filling \/ UNCHANGED batch
      PROVE  UNCHANGED <<Unsubmitted, wire, refused, connected>>
  BY <1>b DEF Unsubmitted
<1>c. ASSUME NEW t \in Threads, Sender(t)
      PROVE  /\ kernel = <<>>
             /\ \A u \in Threads : u # t => ~Sender(u)
  BY <1>c DEF Inv, OneSender
<1>1. ASSUME NEW t \in Threads, NEW m \in Msgs, RegistSend(t, m)
      PROVE  UNCHANGED <<Unsubmitted, wire, refused, connected>>
  <2>1. Filling' = Filling
    BY <1>1 DEF RegistSend, Filling
  <2> QED BY <1>1, <1>b, <2>1 DEF RegistSend
<1>2. ASSUME NEW t \in Threads, OnPostSend(t)
      PROVE  UNCHANGED <<Unsubmitted, wire, refused, connected>>
  <2>1. ~Filling
    BY <1>2 DEF OnPostSend, Inv, OneSender, Filling, Sender
  <2>2. ~Filling'
    BY <1>2, <2>1 DEF OnPostSend, Filling
  <2>3. Unsubmitted = queue /\ Unsubmitted' = queue
    BY <1>2, <1>a, <2>1, <2>2 DEF OnPostSend, Unsubmitted
  <2> QED BY <1>2, <2>3 DEF OnPostSend
<1>3. ASSUME NEW t \in Threads, Push(t) PROVE Channel!Next
  <2>1. Filling' = Filling
    BY <1>3 DEF Push, Filling
  <2>2. msg[t] \in Msgs
    BY <1>3 DEF Push
  <2> DEFINE front == IF Filling THEN batch ELSE <<>>
  <2>3. front \in Seq(Msgs) /\ front' = front
    BY <1>3, <2>1, EmptySeq DEF Push
  <2>4. front \o Append(queue, msg[t]) = Append(front \o queue, msg[t])
    <3> HIDE DEF front
    <3> QED BY <1>a, <2>2, <2>3, PushJoinsLine
  <2>5. Unsubmitted' = Append(Unsubmitted, msg[t])
    BY <1>3, <2>3, <2>4 DEF Push, Unsubmitted
  <2>6. Channel!Accept(msg[t])
    BY <1>3, <2>5 DEF Push, Channel!Accept
  <2> QED BY <2>2, <2>6 DEF Channel!Next
<1>4. ASSUME NEW t \in Threads, Elect(t)
      PROVE  UNCHANGED <<Unsubmitted, wire, refused, connected>>
  <2>1. Filling' = Filling
    BY <1>4 DEF Elect, Filling
  <2> QED BY <1>4, <1>b, <2>1 DEF Elect
<1>5. ASSUME NEW t \in Threads, EnterPostSend(t)
      PROVE  UNCHANGED <<Unsubmitted, wire, refused, connected>>
  <2>1. ~Filling /\ batch = <<>>
    BY <1>5, <1>c DEF EnterPostSend, Filling, Sender, Inv, BatchOnlyInUse
  <2>2. Unsubmitted = queue /\ Unsubmitted' = queue
    BY <1>5, <1>a, <2>1 DEF EnterPostSend, Unsubmitted
  <2> QED BY <1>5, <2>2 DEF EnterPostSend
<1>6. ASSUME NEW t \in Threads, Drain(t)
      PROVE  UNCHANGED <<Unsubmitted, wire, refused, connected>>
  <2>1. Filling /\ Filling'
    BY <1>6 DEF Drain, Filling
  <2>2. Unsubmitted' = Unsubmitted
    BY <1>6, <1>a, <2>1, DrainKeepsLine DEF Drain, Unsubmitted
  <2> QED BY <1>6, <2>2 DEF Drain
<1>7. ASSUME NEW t \in Threads, DrainDone(t)
      PROVE  UNCHANGED <<Unsubmitted, wire, refused, connected>>
  <2>1. Filling /\ Filling'
    BY <1>7 DEF DrainDone, Filling
  <2> QED BY <1>7, <1>b, <2>1 DEF DrainDone
\* The sender leaves the loop with the batch: the front of the line is gone.
<1>d. ASSUME NEW t \in Threads, pc[t] = "submit",
             pc'[t] \notin {"drain", "submit"},
             \A u \in Threads : u # t => pc'[u] = pc[u],
             UNCHANGED queue
      PROVE  /\ Len(batch) \in 0..Len(Unsubmitted)
             /\ batch = SubSeq(Unsubmitted, 1, Len(batch))
             /\ Unsubmitted' = SubSeq(Unsubmitted, Len(batch) + 1, Len(Unsubmitted))
  <2>1. Filling /\ ~Filling'
    BY <1>c, <1>d DEF Filling, Sender
  <2>2. Unsubmitted = batch \o queue /\ Unsubmitted' = queue
    BY <1>a, <1>d, <2>1 DEF Unsubmitted
  <2> QED BY <1>a, <2>2, WriteTakesBatch
<1>8. ASSUME NEW t \in Threads, Submit(t) PROVE Channel!Next
  <2>1. Channel!Transmit(Len(batch))
    BY <1>8, <1>d DEF Submit, Channel!Transmit
  <2>2. Len(batch) \in 0..Len(Unsubmitted)
    BY <1>8, <1>d DEF Submit
  <2> QED BY <2>1, <2>2 DEF Channel!Next
<1>9. ASSUME NEW t \in Threads, SubmitFails(t) PROVE Channel!Next
  <2>1. Channel!Fail(Len(batch))
    BY <1>9, <1>d DEF SubmitFails, Channel!Fail
  <2>2. Len(batch) \in 0..Len(Unsubmitted)
    BY <1>9, <1>d DEF SubmitFails
  <2> QED BY <2>1, <2>2 DEF Channel!Next
<1>10. ASSUME NEW t \in Threads, CloseOnZero(t)
       PROVE  Channel!Next \/ UNCHANGED <<Unsubmitted, wire, refused, connected>>
  <2>1. Filling' = Filling
    BY <1>10 DEF CloseOnZero, Filling
  <2>2. UNCHANGED Unsubmitted
    BY <1>10, <2>1 DEF CloseOnZero, Unsubmitted
  <2> QED BY <1>10, <2>2 DEF CloseOnZero, Channel!Close, Channel!Next
<1>11. ASSUME NEW t \in Threads, Recheck(t)
       PROVE  UNCHANGED <<Unsubmitted, wire, refused, connected>>
  <2>1. Filling' = Filling
    BY <1>11 DEF Recheck, Filling
  <2> QED BY <1>11, <1>b, <2>1 DEF Recheck
<1>12. ASSUME NEW t \in Threads, Release(t)
       PROVE  UNCHANGED <<Unsubmitted, wire, refused, connected>>
  <2>1. Filling' = Filling
    BY <1>12 DEF Release, Filling
  <2> QED BY <1>12, <1>b, <2>1 DEF Release
<1>13. CASE PostDisconnect
  <2>1. UNCHANGED <<Unsubmitted, wire, refused>>
    BY <1>13 DEF PostDisconnect, Unsubmitted, Filling
  <2> QED BY <1>13, <2>1 DEF PostDisconnect, Channel!Close, Channel!Next
<1>14. CASE UNCHANGED vars
  BY <1>14 DEF vars, Unsubmitted, Filling
<1> QED
  BY <1>1, <1>2, <1>3, <1>4, <1>5, <1>6, <1>7, <1>8, <1>9, <1>10, <1>11, <1>12, <1>13, <1>14
  DEF Next, Step

\* For every number of threads and packets the send path is a FIFO channel:
\* no packet is duplicated, overtakes another or vanishes on its way to the
\* client, but for those of a failed WSASend (Session.cpp:28-42, 222-256).
THEOREM SendPathIsFifo == Spec => ImplementsChannel
<1> QED BY ChannelInit, ChannelStep, Invariance, PTL
        DEF Spec, ImplementsChannel, Channel!Spec

(***************************************************************************)
(* The strengthening.  The bytes between the cursors are a contiguous      *)
(* piece of the stream that ends at the last byte taken; outside the       *)
(* parsing loop they are fewer than one packet, so that the threshold in   *)
(* Clean always leaves a full buffer of room behind them.                  *)
(***************************************************************************)
Contiguous ==
    /\ writeCursor <= taken
    /\ \A i \in readCursor..writeCursor - 1 : data[i] = taken - writeCursor + i

PtrInData ==
    at = "parse" => ptr \in readCursor..writeCursor

LessThanOnePacket ==
    at \in {"clean", "post", "recv"} =>
        /\ GetDataSize < MaxPacket
        /\ GetDataSize >= HeaderSize => GetDataSize < stream[data[readCursor]]

Room == at \in {"post", "recv"} => GetFreeSize >= BufferSize

\* The place of the array where the next packet starts.
Here == IF at = "parse" THEN ptr ELSE readCursor

PlaceKept ==
    /\ handled \in Seq(Nat)
    /\ NextPacket = taken - writeCursor + Here

RecvInv ==
    /\ NeverRefused
    /\ Contiguous
    /\ PtrInData
    /\ LessThanOnePacket
    /\ Room

\* A length field between the cursors is one of a stream.
LEMMA HeaderInStream ==
  ASSUME RecvTypeOK, RecvInv, NEW i \in readCursor..writeCursor - 1
  PROVE  /\ data[i] = taken - writeCursor + i
         /\ data[i] \in 0..StreamLen - 1
         /\ stream[data[i]] \in HeaderSize..MaxPacket
<1>1. data[i] = taken - writeCursor + i
  BY DEF RecvInv, Contiguous
<1>2. data[i] \in 0..StreamLen - 1
  BY <1>1, SizesAssumption DEF RecvInv, Contiguous, RecvTypeOK, Capacity
<1> QED BY <1>1, <1>2, StreamsAssumption, SizesAssumption DEF RecvTypeOK

LEMMA RecvInitOK == RecvInit => RecvTypeOK /\ RecvInv
  BY SizesAssumption
  DEF RecvInit, RecvTypeOK, RecvPoints, Capacity, NoByte, RecvInv, NeverRefused, Contiguous, PtrInData,
      LessThanOnePacket, Room, GetDataSize, GetFreeSize

LEMMA RecvStepOK == RecvTypeOK /\ RecvInv /\ [RecvNext]_recvVars => (RecvTypeOK /\ RecvInv)'
<1> SUFFICES ASSUME RecvTypeOK, RecvInv, [RecvNext]_recvVars PROVE RecvTypeOK' /\ RecvInv'
  OBVIOUS
<1> USE SizesAssumption
<1> USE DEF RecvTypeOK, RecvPoints, Capacity, NoByte, RecvInv, NeverRefused, Contiguous, PtrInData,
            LessThanOnePacket, Room, GetDataSize, GetFreeSize
<1>1. CASE PostRecv
  BY <1>1 DEF PostRecv
<1>2. ASSUME NEW n \in 1..StreamLen, OnPostRecv(n) PROVE RecvTypeOK' /\ RecvInv'
  <2>1. \A i \in readCursor'..writeCursor' - 1 : data'[i] = taken' - writeCursor' + i
    BY <1>2 DEF OnPostRecv
  <2>2. data' \in [0..Capacity - 1 -> 0..StreamLen - 1 \cup {NoByte}]
    BY <1>2 DEF OnPostRecv
  <2> QED BY <1>2, <2>1, <2>2 DEF OnPostRecv
<1>3. CASE OnPeerClosed
  BY <1>3 DEF OnPeerClosed
<1>4. CASE ProcessPacket
  <2>1. HeaderLength \in HeaderSize..MaxPacket
    BY <1>4, HeaderInStream DEF ProcessPacket, PacketAtPtr, HeaderLength
  <2>2. ptr' \in readCursor..writeCursor
    BY <1>4, <2>1 DEF ProcessPacket, PacketAtPtr
  <2> QED BY <1>4, <2>2 DEF ProcessPacket
<1>5. CASE ProcessDataReturns
  <2>1. /\ at' = "clean" /\ readCursor' = ptr
        /\ UNCHANGED <<stream, taken, data, writeCursor, ptr, connected>>
    BY <1>5 DEF ProcessDataReturns
  <2>2. writeCursor - ptr >= HeaderSize => writeCursor - ptr < stream[data[ptr]]
    BY <1>5, HeaderInStream DEF ProcessDataReturns, PacketAtPtr, HeaderLength
  <2>3. writeCursor - ptr < MaxPacket
    BY <1>5, <2>2, HeaderInStream DEF ProcessDataReturns
  <2>4. ptr \in readCursor..writeCursor
    BY <1>5 DEF ProcessDataReturns
  <2>5. RecvTypeOK'
    BY <2>1, <2>4
  <2>6. Contiguous'
    BY <2>1, <2>4
  <2>7. LessThanOnePacket'
    BY <2>1, <2>2, <2>3, <2>4
  <2> QED BY <2>1, <2>5, <2>6, <2>7
<1>6. CASE Clean
  <2>1. CASE GetDataSize = 0 \/ ShortOfRoom
    <3>1. /\ data' = MovedToFront /\ readCursor' = 0 /\ writeCursor' = GetDataSize
          /\ at' = "post" /\ UNCHANGED <<stream, taken, connected, ptr>>
      BY <1>6, <2>1 DEF Clean
    <3>2. \A i \in 0..writeCursor' - 1 : data'[i] = data[readCursor + i]
      BY <3>1 DEF MovedToFront
    <3>3. \A i \in 0..writeCursor' - 1 : data'[i] = taken - writeCursor' + i
      BY <3>1, <3>2
    <3>4. data' \in [0..Capacity - 1 -> 0..StreamLen - 1 \cup {NoByte}]
      BY <3>1 DEF MovedToFront
    <3>5. GetDataSize >= HeaderSize => stream[data'[0]] = stream[data[readCursor]]
      BY <3>1, <3>2
    <3>6. LessThanOnePacket'
      BY <1>6, <3>1, <3>5 DEF Clean
    <3> QED BY <1>6, <3>1, <3>3, <3>4, <3>6 DEF Clean
  <2>2. CASE ~(GetDataSize = 0 \/ ShortOfRoom)
    BY <1>6, <2>2 DEF Clean, ShortOfRoom
  <2> QED BY <2>1, <2>2
<1>7. CASE SendPathDisconnects
  BY <1>7 DEF SendPathDisconnects
<1>8. CASE UNCHANGED recvVars
  BY <1>8 DEF recvVars
<1> QED
  BY <1>1, <1>2, <1>3, <1>4, <1>5, <1>6, <1>7, <1>8 DEF RecvNext, RecvStep

LEMMA RecvInvariance == RecvSafety => [](RecvTypeOK /\ RecvInv)
  BY RecvInitOK, RecvStepOK, PTL DEF RecvSafety

LEMMA RoomSuffices == RecvTypeOK /\ RecvInv => RoomToReceive
  BY DEF RecvInv, Room, RoomToReceive

LEMMA CopySuffices == RecvTypeOK /\ RecvInv => CopyIsDisjoint
  BY SizesAssumption
  DEF RecvInv, LessThanOnePacket, CopyIsDisjoint, ShortOfRoom, GetDataSize, GetFreeSize,
      Capacity, RecvTypeOK

\* The cursors stay in order inside the array (RecvBuffer.h:5-8).
THEOREM RecvTyping == RecvSpec => []RecvTypeOK
<1> QED BY RecvInvariance, PTL DEF RecvSpec

\* Every WSARecv gets at least one full buffer of room (Session.cpp:266-268).
THEOREM AlwaysRoom == RecvSpec => []RoomToReceive
<1> QED BY RoomSuffices, RecvInvariance, PTL DEF RecvSpec

\* Clean's memcpy never overlaps: what is left is less than one packet, and
\* more than eight buffers of the ten were used before it (RecvBuffer.cpp:41-44).
THEOREM CopyNeverOverlaps == RecvSpec => []CopyIsDisjoint
<1> QED BY CopySuffices, RecvInvariance, PTL DEF RecvSpec

\* OnPostRecv's checks of the buffer never disconnect a client (Session.cpp:83-86).
THEOREM ChecksNeverFail == RecvSpec => []NeverRefused
<1>1. RecvTypeOK /\ RecvInv => NeverRefused
  BY DEF RecvInv
<1> QED BY <1>1, RecvInvariance, PTL DEF RecvSpec

\* No complete packet waits in the buffer for a later one (Session.cpp:166-180).
THEOREM CompletePacketsAreProcessed == RecvSpec => []NothingCompleteWaits
<1>1. RecvTypeOK /\ RecvInv => NothingCompleteWaits
  BY DEF RecvInv, LessThanOnePacket, NothingCompleteWaits
<1> QED BY <1>1, RecvInvariance, PTL DEF RecvSpec

(***************************************************************************)
(* The handlers see the client's packets: PlaceKept relates the place of   *)
(* the parser in the array to its place in the stream.                     *)
(***************************************************************************)
LEMMA PlaceInit == RecvInit => PlaceKept
  BY EmptySeq DEF RecvInit, PlaceKept, NextPacket, Here

LEMMA WholePacket ==
  ASSUME RecvTypeOK, RecvInv, PlaceKept, ProcessPacket
  PROVE  /\ NextPacket \in Nat
         /\ HeaderLength = stream[NextPacket]
         /\ HeaderLength \in HeaderSize..MaxPacket
         /\ NextPacket + HeaderLength <= taken
         /\ handled' = [i \in 1..HeaderLength |-> NextPacket + i - 1]
<1> USE SizesAssumption
<1>1. ptr \in readCursor..writeCursor - 1 /\ Here = ptr
  BY DEF ProcessPacket, PacketAtPtr, RecvInv, PtrInData, RecvTypeOK, Here
<1>2. data[ptr] = NextPacket /\ NextPacket \in Nat /\ HeaderLength \in HeaderSize..MaxPacket
  BY <1>1, HeaderInStream DEF PlaceKept, HeaderLength
<1>3. \A i \in 1..HeaderLength : data[ptr + i - 1] = NextPacket + i - 1
  BY <1>1, <1>2 DEF ProcessPacket, PacketAtPtr, RecvInv, Contiguous, RecvTypeOK, Capacity, PlaceKept
<1>4. NextPacket + HeaderLength <= taken
  BY <1>1, <1>2 DEF ProcessPacket, PacketAtPtr, PlaceKept, RecvTypeOK
<1> QED BY <1>2, <1>3, <1>4 DEF HeaderLength, ProcessPacket

LEMMA PlaceStep == RecvTypeOK /\ RecvInv /\ PlaceKept /\ [RecvNext]_recvVars => PlaceKept'
<1> SUFFICES ASSUME RecvTypeOK, RecvInv, PlaceKept, [RecvNext]_recvVars PROVE PlaceKept'
  OBVIOUS
<1> USE SizesAssumption
<1>a. /\ taken \in Nat /\ writeCursor \in Nat /\ readCursor \in Nat /\ ptr \in Nat
      /\ readCursor <= writeCursor
  BY DEF RecvTypeOK, Capacity
\* A step that handles no packet keeps NextPacket; it may move it in the array.
<1>b. ASSUME UNCHANGED handled,
             taken' - writeCursor' + Here' = taken - writeCursor + Here
      PROVE  PlaceKept'
  BY <1>b DEF PlaceKept, NextPacket
<1>1. CASE PostRecv
  BY <1>1, <1>b DEF PostRecv, Here
<1>2. ASSUME NEW n \in 1..StreamLen, OnPostRecv(n) PROVE PlaceKept'
  BY <1>2, <1>a, <1>b, SMTT(30) DEF OnPostRecv, Here
<1>3. CASE OnPeerClosed
  BY <1>3, <1>b DEF OnPeerClosed, Here
<1>4. CASE ProcessPacket
  <2>1. /\ HeaderLength \in Nat /\ 0 < HeaderLength
        /\ handled' = [i \in 1..HeaderLength |-> NextPacket + i - 1]
        /\ NextPacket \in Nat
    BY <1>4, WholePacket
  <2>2. handled' \in Seq(Nat) /\ Len(handled') = HeaderLength /\ handled' # <<>>
    BY <2>1
  <2>3. NextPacket' = NextPacket + HeaderLength
    BY <2>1, <2>2 DEF NextPacket
  <2>4. /\ Here = ptr /\ Here' = ptr + HeaderLength
        /\ UNCHANGED <<taken, writeCursor>>
    BY <1>4 DEF ProcessPacket, Here
  <2> QED BY <1>a, <2>1, <2>2, <2>3, <2>4 DEF PlaceKept
<1>5. CASE ProcessDataReturns
  <2>1. at' # "refused"
    BY <1>5, RecvStepOK DEF RecvInv, NeverRefused, RecvNext, RecvStep
  <2> QED BY <1>5, <2>1, <1>b DEF ProcessDataReturns, Here
<1>6. CASE Clean
  BY <1>6, <1>a, <1>b DEF Clean, Here, GetDataSize
<1>7. CASE SendPathDisconnects
  BY <1>7, <1>b DEF SendPathDisconnects, Here
<1>8. CASE UNCHANGED recvVars
  BY <1>8, <1>b DEF recvVars, Here
<1> QED
  BY <1>1, <1>2, <1>3, <1>4, <1>5, <1>6, <1>7, <1>8 DEF RecvNext, RecvStep

LEMMA StreamInit == RecvInit => Packets!Init
  BY DEF RecvInit, Packets!Init, NextPacket

LEMMA StreamStep ==
  RecvTypeOK /\ RecvInv /\ PlaceKept /\ [RecvNext]_recvVars => [Packets!Next]_(Packets!streamVars)
<1> SUFFICES ASSUME RecvTypeOK, RecvInv, PlaceKept, [RecvNext]_recvVars
             PROVE  Packets!Next \/ UNCHANGED <<stream, taken, NextPacket, handled, connected>>
  BY DEF Packets!streamVars
<1> USE SizesAssumption
<1>1. CASE PostRecv
  BY <1>1 DEF PostRecv, Packets!Close, Packets!Next, NextPacket, RecvTypeOK
<1>2. ASSUME NEW n \in 1..StreamLen, OnPostRecv(n) PROVE Packets!Next
  <2>1. Packets!Arrive(n)
    BY <1>2 DEF OnPostRecv, Packets!Arrive, NextPacket
  <2> QED BY <2>1 DEF Packets!Next
<1>3. CASE OnPeerClosed
  BY <1>3 DEF OnPeerClosed, Packets!Close, Packets!Next, NextPacket, RecvTypeOK
<1>4. CASE ProcessPacket
  <2>1. /\ HeaderLength = stream[NextPacket]
        /\ HeaderLength \in HeaderSize..MaxPacket
        /\ NextPacket + HeaderLength <= taken
        /\ handled' = [i \in 1..HeaderLength |-> NextPacket + i - 1]
    BY <1>4, WholePacket
  <2>2. /\ NextPacket \in Int /\ taken \in Int
        /\ HeaderLength \in Nat /\ 0 < HeaderLength
    BY <2>1 DEF PlaceKept, RecvTypeOK, Here, Capacity
  <2>3. NextPacket' = NextPacket + HeaderLength
    <3>1. handled' # <<>> /\ Len(handled') = HeaderLength
      BY <2>1, <2>2
    <3>2. handled'[HeaderLength] = NextPacket + HeaderLength - 1
      BY <2>1, <2>2
    <3> QED BY <2>2, <3>1, <3>2 DEF NextPacket
  <2>4. Packets!Handle
    BY <1>4, <2>1, <2>2, <2>3 DEF ProcessPacket, Packets!Handle
  <2> QED BY <2>4 DEF Packets!Next
<1>5. CASE ProcessDataReturns
  BY <1>5 DEF ProcessDataReturns, Packets!Close, Packets!Next, NextPacket, RecvTypeOK
<1>6. CASE Clean
  BY <1>6 DEF Clean, NextPacket
<1>7. CASE SendPathDisconnects
  BY <1>7 DEF SendPathDisconnects, Packets!Close, Packets!Next, NextPacket
<1>8. CASE UNCHANGED recvVars
  BY <1>8 DEF recvVars, NextPacket
<1> QED
  BY <1>1, <1>2, <1>3, <1>4, <1>5, <1>6, <1>7, <1>8 DEF RecvNext, RecvStep

LEMMA StreamIsCutRight == RecvSafety => PacketsInOrder
<1>1. RecvInit => RecvTypeOK /\ RecvInv /\ PlaceKept
  BY RecvInitOK, PlaceInit
<1>2. RecvTypeOK /\ RecvInv /\ PlaceKept /\ [RecvNext]_recvVars
        => (RecvTypeOK /\ RecvInv /\ PlaceKept)'
  BY RecvStepOK, PlaceStep
<1>3. RecvTypeOK /\ RecvInv /\ PlaceKept /\ [RecvNext]_recvVars
        => [Packets!Next]_(Packets!streamVars)
  BY StreamStep
<1> QED
  BY <1>1, <1>2, <1>3, StreamInit, PTL DEF RecvSafety, PacketsInOrder, Packets!Safety

\* Whatever TCP does to the stream, the handlers are given exactly its
\* packets, in order (the safety half of ImplementsPacketStream).
THEOREM HandlersSeeTheStream == RecvSpec => PacketsInOrder
<1> QED BY StreamIsCutRight, PTL DEF RecvSpec

(***************************************************************************)
(* The session as a whole: both paths at work, interleaved, sharing        *)
(* mConnected.  Each module lets the other path clear the flag at any      *)
(* time; here nobody else does, and each path is the other's environment.  *)
(***************************************************************************)
sendOnly == <<registered, queue, batch, owned, kernel, wire, refused, fresh, pc, msg>>
recvOnly == <<stream, taken, data, readCursor, writeCursor, at, ptr, handled>>

SendWork ==
    \E t \in Threads : \/ \E m \in Msgs : RegistSend(t, m)
                       \/ OnPostSend(t)
                       \/ Step(t)

RecvWork == RecvStep \/ (\E n \in 1..StreamLen : OnPostRecv(n)) \/ OnPeerClosed

SessionNext ==
    \/ SendWork /\ UNCHANGED recvOnly
    \/ RecvWork /\ UNCHANGED sendOnly

SessionSpec ==
    Init /\ RecvInit /\ [][SessionNext]_<<connected, sendOnly, recvOnly>>

\* What the sender does to mConnected, the receive path expects.
LEMMA SendWorkIsExpected ==
  ASSUME TypeOK, SendWork, UNCHANGED recvOnly
  PROVE  [RecvNext]_recvVars
<1>1. UNCHANGED connected \/ connected' = FALSE
  BY DEF SendWork, RegistSend, OnPostSend, Step, Push, Elect, EnterPostSend, Drain,
         DrainDone, Submit, SubmitFails, CloseOnZero, Recheck, Release
<1>2. CASE UNCHANGED connected
  BY <1>2 DEF recvOnly, recvVars
<1>3. CASE connected /\ connected' = FALSE
  BY <1>3 DEF recvOnly, SendPathDisconnects, RecvNext
<1> QED BY <1>1, <1>2, <1>3 DEF TypeOK

\* What the receive path does to mConnected, the send path expects.
LEMMA RecvWorkIsExpected ==
  ASSUME TypeOK, RecvWork, UNCHANGED sendOnly
  PROVE  [Next]_vars
<1>1. UNCHANGED connected \/ connected' = FALSE
  BY DEF RecvWork, RecvStep, PostRecv, ProcessPacket, ProcessDataReturns, Clean,
         OnPostRecv, OnPeerClosed
<1>2. CASE UNCHANGED connected
  BY <1>2 DEF sendOnly, vars
<1>3. CASE connected /\ connected' = FALSE
  BY <1>3 DEF sendOnly, PostDisconnect, Next
<1> QED BY <1>1, <1>2, <1>3 DEF TypeOK

LEMMA SessionStep ==
  TypeOK /\ [SessionNext]_<<connected, sendOnly, recvOnly>>
    => [Next]_vars /\ [RecvNext]_recvVars
<1> SUFFICES ASSUME TypeOK, [SessionNext]_<<connected, sendOnly, recvOnly>>
             PROVE  [Next]_vars /\ [RecvNext]_recvVars
  OBVIOUS
<1>1. CASE SendWork /\ UNCHANGED recvOnly
  BY <1>1, SendWorkIsExpected DEF SendWork, Next
<1>2. CASE RecvWork /\ UNCHANGED sendOnly
  BY <1>2, RecvWorkIsExpected DEF RecvWork, RecvNext
<1>3. CASE UNCHANGED <<connected, sendOnly, recvOnly>>
  BY <1>3 DEF sendOnly, recvOnly, vars, recvVars
<1> QED BY <1>1, <1>2, <1>3 DEF SessionNext

\* With both paths at work on one mConnected, the client's requests reach the
\* handlers and the replies reach the client as each path alone promises
\* (Session.cpp:28-106, 154-256): either path may end the session under the other.
THEOREM SessionIsTwoChannels == SessionSpec => ImplementsChannel /\ PacketsInOrder
<1>1. TypeOK /\ [Next]_vars => TypeOK'
  BY TypingStep
<1>2. Init => TypeOK
  BY TypingInit
<1>3. SessionSpec => Spec /\ RecvSafety
  BY <1>1, <1>2, SessionStep, PTL DEF SessionSpec, Spec, RecvSafety
<1> QED BY <1>3, SendPathIsFifo, StreamIsCutRight

\* Neither path's guarantees about its own memory need the other path to be
\* quiet: one user of the send context, buffers alive under the kernel, room
\* behind the write cursor (Session.cpp:222-283, RecvBuffer.cpp:34-47).
THEOREM SessionMemoryIsSafe ==
  SessionSpec => [](OneSender /\ BuffersOutliveSend /\ FlagHasHolder
                      /\ RoomToReceive /\ CopyIsDisjoint)
<1>1. TypeOK /\ [Next]_vars => TypeOK'
  BY TypingStep
<1>2. Init => TypeOK
  BY TypingInit
<1>3. SessionSpec => Spec /\ RecvSafety
  BY <1>1, <1>2, SessionStep, PTL DEF SessionSpec, Spec, RecvSafety
<1>4. RecvSafety => []RoomToReceive /\ []CopyIsDisjoint
  BY RoomSuffices, CopySuffices, RecvInvariance, PTL
<1> QED BY <1>3, <1>4, SendContextHasOneUser, KernelReadsLiveBuffers, FlagIsNeverStuck, PTL
=============================================================================
