-------------------------- MODULE WorkerPool_proof ---------------------------
(***************************************************************************)
(* The shutdown of the pool, for any number of workers and players and any *)
(* number of socket completions.                                           *)
(***************************************************************************)
EXTENDS WorkerPool, FiniteSetTheorems, TLAPS

LEMMA CountOfWorkers == N \in Nat
BY FS_CardinalityType, PoolAssumption DEF N

LEMMA TypingInit == Init => TypeOK
<1> SUFFICES ASSUME Init PROVE TypeOK
    OBVIOUS
<1>1. port \in Seq(Completions)
    BY DEF Init
<1> QED
    BY <1>1, CountOfWorkers DEF Init, TypeOK, Events

LEMMA TypingStep == TypeOK /\ [Next]_vars => TypeOK'
<1> SUFFICES ASSUME TypeOK, [Next]_vars PROVE TypeOK'
    OBVIOUS
<1> USE DEF TypeOK
<1>1. CASE SocketIO
    BY <1>1 DEF SocketIO, Completions
<1>2. CASE TimerPoll
    <2>1. port' \in Seq(Completions)
        BY <1>2 DEF TimerPoll, Completions
    <2> QED
        BY <1>2, <2>1 DEF TimerPoll
<1>3. CASE TimerTest
    BY <1>3 DEF TimerTest
<1>4. ASSUME NEW w \in Workers, Dequeue(w) PROVE TypeOK'
    <2>1. Head(port) \in Completions /\ port' \in Seq(Completions)
        BY <1>4 DEF Dequeue
    <2>2. pc' \in [Workers -> Events \union {"IO", Waiting, Returned}]
        BY <1>4, <2>1 DEF Dequeue, Completions
    <2> QED
        BY <1>4, <2>1, <2>2 DEF Dequeue
<1>5. ASSUME NEW w \in Workers, HandleIO(w) PROVE TypeOK'
    BY <1>5 DEF HandleIO
<1>6. ASSUME NEW w \in Workers, HandleEvent(w) PROVE TypeOK'
    BY <1>6 DEF HandleEvent, Events
<1>7. ASSUME NEW w \in Workers, HandleRevive(w) PROVE TypeOK'
    BY <1>7 DEF HandleRevive
<1>8. CASE TypeExit
    BY <1>8 DEF TypeExit
<1>9. CASE PostExit
    <2>1. port' \in Seq(Completions)
        BY <1>9 DEF PostExit, Completions
    <2>2. exits' \in 0..N /\ unposted' \in 0..exits'
        BY <1>9, CountOfWorkers DEF PostExit
    <2> QED
        BY <1>9, <2>1, <2>2 DEF PostExit
<1>10. CASE StopTimer
    BY <1>10 DEF StopTimer
<1>11. CASE JoinWorkers
    BY <1>11 DEF JoinWorkers
<1>12. CASE JoinTimer
    BY <1>12 DEF JoinTimer
<1>13. CASE UNCHANGED vars
    BY <1>13 DEF vars
<1> HIDE DEF TypeOK
<1> QED
    BY <1>1, <1>2, <1>3, <1>4, <1>5, <1>6, <1>7, <1>8, <1>9, <1>10, <1>11, <1>12, <1>13
    DEF Next, Work, Shutdown

\* Type correctness, for any number of workers and players.
THEOREM Typing == Spec => []TypeOK
<1>1. Init => TypeOK
    BY TypingInit
<1>2. TypeOK /\ [Next]_vars => TypeOK'
    BY TypingStep
<1> QED
    BY <1>1, <1>2, PTL DEF Spec

-----------------------------------------------------------------------------
(***************************************************************************)
(* Nothing runs any more when Destory begins.                              *)
(***************************************************************************)
Stopping ==
    /\ main \in {"joined", "destroyed"} => \A w \in Workers : pc[w] = Returned
    /\ main = "destroyed" => timer = "stopped"

LEMMA StoppingStep == TypeOK /\ Stopping /\ [Next]_vars => Stopping'
<1> SUFFICES ASSUME TypeOK, Stopping, [Next]_vars PROVE Stopping'
    OBVIOUS
<1> USE DEF TypeOK, Stopping, Waiting, Returned
<1>1. CASE SocketIO
    BY <1>1 DEF SocketIO
<1>2. CASE TimerPoll
    BY <1>2 DEF TimerPoll
<1>3. CASE TimerTest
    BY <1>3 DEF TimerTest
<1>4. ASSUME NEW w \in Workers, Dequeue(w) PROVE Stopping'
    BY <1>4 DEF Dequeue
<1>5. ASSUME NEW w \in Workers, HandleIO(w) PROVE Stopping'
    BY <1>5 DEF HandleIO
<1>6. ASSUME NEW w \in Workers, HandleEvent(w) PROVE Stopping'
    BY <1>6 DEF HandleEvent
<1>7. ASSUME NEW w \in Workers, HandleRevive(w) PROVE Stopping'
    BY <1>7, PoolAssumption DEF HandleRevive
<1>8. CASE TypeExit
    BY <1>8 DEF TypeExit
<1>9. CASE PostExit
    BY <1>9 DEF PostExit
<1>10. CASE StopTimer
    BY <1>10 DEF StopTimer
<1>11. CASE JoinWorkers
    BY <1>11 DEF JoinWorkers
<1>12. CASE JoinTimer
    BY <1>12 DEF JoinTimer
<1>13. CASE UNCHANGED vars
    BY <1>13 DEF vars
<1> HIDE DEF TypeOK, Stopping
<1> QED
    BY <1>1, <1>2, <1>3, <1>4, <1>5, <1>6, <1>7, <1>8, <1>9, <1>10, <1>11, <1>12, <1>13
    DEF Next, Work, Shutdown

\* When the singletons are destroyed no thread is inside a handler and none
\* will post an event.
THEOREM QuietDestruction == Spec => []QuietAtDestroy
<1>1. Init => TypeOK /\ Stopping
    BY TypingInit DEF Init, Stopping
<1>2. TypeOK /\ Stopping /\ [Next]_vars => (TypeOK /\ Stopping)'
    BY TypingStep, StoppingStep
<1>3. Stopping => QuietAtDestroy
    BY DEF Stopping, QuietAtDestroy, Running
<1> QED
    BY <1>1, <1>2, <1>3, PTL DEF Spec

-----------------------------------------------------------------------------
(***************************************************************************)
(* An EXIT for every thread: how many there are in the port.               *)
(***************************************************************************)
Where(s) == {i \in 1..Len(s) : s[i] = "EXIT"}

LEMMA WhereFinite ==
    ASSUME NEW s \in Seq(Completions)
    PROVE  IsFiniteSet(Where(s)) /\ Cardinality(Where(s)) \in Nat
<1>1. Where(s) \in SUBSET (1..Len(s))
    BY DEF Where
<1>2. IsFiniteSet(1..Len(s))
    BY FS_Interval
<1>3. IsFiniteSet(Where(s))
    BY <1>1, <1>2, FS_Subset
<1> QED
    BY <1>3, FS_CardinalityType

\* Posting a completion counts it if it is an EXIT.
LEMMA CountAppend ==
    ASSUME NEW s \in Seq(Completions), NEW c \in Completions
    PROVE  Cardinality(Where(Append(s, c))) =
                IF c = "EXIT" THEN Cardinality(Where(s)) + 1 ELSE Cardinality(Where(s))
<1>1. CASE c = "EXIT"
    <2>1. Where(Append(s, c)) = Where(s) \union {Len(s) + 1}
        BY <1>1 DEF Where
    <2>2. Len(s) + 1 \notin Where(s)
        BY DEF Where
    <2> QED
        BY <1>1, <2>1, <2>2, WhereFinite, FS_AddElement
<1>2. CASE c # "EXIT"
    <2>1. Where(Append(s, c)) = Where(s)
        BY <1>2 DEF Where
    <2> QED
        BY <1>2, <2>1
<1> QED
    BY <1>1, <1>2

\* Taking one out does the reverse.
LEMMA CountTail ==
    ASSUME NEW s \in Seq(Completions), s # <<>>
    PROVE  Cardinality(Where(Tail(s))) =
                IF Head(s) = "EXIT" THEN Cardinality(Where(s)) - 1 ELSE Cardinality(Where(s))
<1> DEFINE rest == Where(s) \ {1}
           shift == [i \in Where(Tail(s)) |-> i + 1]
<1>1. Tail(s) \in Seq(Completions) /\ Len(Tail(s)) = Len(s) - 1 /\ Len(s) \in Nat \ {0}
    OBVIOUS
<1>2. \A i \in 1..Len(Tail(s)) : Tail(s)[i] = s[i + 1]
    OBVIOUS
<1>3. shift \in Bijection(Where(Tail(s)), rest)
    <2>1. shift \in [Where(Tail(s)) -> rest]
        BY <1>1, <1>2 DEF Where
    <2>2. \A i, j \in Where(Tail(s)) : shift[i] = shift[j] => i = j
        BY <1>1 DEF Where
    <2>3. \A k \in rest : \E i \in Where(Tail(s)) : shift[i] = k
        <3>1. SUFFICES ASSUME NEW k \in rest
                       PROVE  k - 1 \in Where(Tail(s)) /\ shift[k - 1] = k
            OBVIOUS
        <3>2. k \in 2..Len(s) /\ s[k] = "EXIT"
            BY <1>1 DEF Where
        <3>3. k - 1 \in 1..Len(Tail(s)) /\ Tail(s)[k - 1] = "EXIT"
            BY <1>1, <1>2, <3>2
        <3> QED
            BY <3>2, <3>3 DEF Where
    <2> QED
        BY <2>1, <2>2, <2>3 DEF Bijection, Injection, Surjection, IsInjective
<1>4. Cardinality(rest) = Cardinality(Where(Tail(s)))
    BY <1>1, <1>3, WhereFinite, FS_Bijection DEF ExistsBijection
<1>5. 1 \in Where(s) <=> Head(s) = "EXIT"
    BY <1>1 DEF Where
<1> QED
    BY <1>4, <1>5, WhereFinite, FS_RemoveElement

ExitsLeft == Cardinality(Running) <= Cardinality(Where(port)) + (N - exits) + unposted

LEMMA RunningFinite == IsFiniteSet(Running) /\ Cardinality(Running) \in Nat
<1>1. Running \in SUBSET Workers
    BY DEF Running
<1> QED
    BY <1>1, PoolAssumption, FS_Subset, FS_CardinalityType

\* A thread that returns is one fewer to stop.
LEMMA OneReturns ==
    ASSUME NEW w \in Running, pc \in [Workers -> Events \union {"IO", Waiting, Returned}],
           pc' = [pc EXCEPT ![w] = Returned]
    PROVE  Cardinality(Running)' = Cardinality(Running) - 1
<1>1. Running' = Running \ {w}
    BY DEF Running
<1> QED
    BY <1>1, RunningFinite, FS_RemoveElement

\* A thread that does not return leaves their number alone.
LEMMA NobodyReturns ==
    ASSUME NEW w \in Running, pc \in [Workers -> Events \union {"IO", Waiting, Returned}],
           NEW x, x # Returned, pc' = [pc EXCEPT ![w] = x]
    PROVE  Running' = Running
BY DEF Running

LEMMA ExitsLeftInit == Init => ExitsLeft
<1> SUFFICES ASSUME Init PROVE ExitsLeft
    OBVIOUS
<1>1. Running = Workers /\ Where(port) = {} /\ exits = 0 /\ unposted = 0
    BY DEF Init, Running, Where, Waiting, Returned
<1> QED
    BY <1>1, CountOfWorkers, FS_EmptySet DEF ExitsLeft, N

LEMMA ExitsLeftStep == TypeOK /\ ExitsLeft /\ [Next]_vars => ExitsLeft'
<1> SUFFICES ASSUME TypeOK, ExitsLeft, [Next]_vars PROVE ExitsLeft'
    OBVIOUS
<1> DEFINE waiting == Cardinality(Where(port))
           running == Cardinality(Running)
<1>1. /\ port \in Seq(Completions)
      /\ pc \in [Workers -> Events \union {"IO", Waiting, Returned}]
      /\ exits \in Int /\ unposted \in Int /\ tasks \subseteq Events
    BY CountOfWorkers DEF TypeOK
<1>2. waiting \in Nat /\ running \in Nat /\ N \in Nat
    BY <1>1, WhereFinite, RunningFinite, CountOfWorkers
<1>3. ASSUME NEW c \in Completions, c # "EXIT", port' = Append(port, c), UNCHANGED <<pc, exits, unposted>>
      PROVE  ExitsLeft'
    BY <1>1, <1>3, CountAppend DEF ExitsLeft, Running
<1>4. ASSUME UNCHANGED <<port, pc, exits, unposted>> PROVE ExitsLeft'
    BY <1>4 DEF ExitsLeft, Running, Where
<1>5. ASSUME NEW w \in Running, NEW x, pc' = [pc EXCEPT ![w] = x], UNCHANGED <<port, exits, unposted>>
      PROVE  ExitsLeft'
    <2>1. running' = running \/ running' = running - 1
        BY <1>1, <1>5, OneReturns, NobodyReturns
    <2>2. UNCHANGED waiting
        BY <1>5
    <2> QED
        BY <1>1, <1>2, <1>5, <2>1, <2>2 DEF ExitsLeft
<1>6. CASE SocketIO
    BY <1>3, <1>6 DEF SocketIO, Completions
<1>7. CASE TimerPoll
    <2>1. CASE \E t \in tasks : port' = Append(port, t)
        BY <1>1, <1>3, <1>7, <2>1, PoolAssumption DEF TimerPoll, Completions, Events
    <2>2. CASE UNCHANGED port
        BY <1>4, <1>7, <2>2 DEF TimerPoll
    <2> QED
        BY <1>7, <2>1, <2>2 DEF TimerPoll
<1>8. ASSUME NEW w \in Workers, Dequeue(w) PROVE ExitsLeft'
    <2>1. w \in Running /\ port # <<>> /\ port' = Tail(port) /\ UNCHANGED <<exits, unposted>>
        BY <1>8 DEF Dequeue, Running, Waiting, Returned
    <2>2. CASE Head(port) = "EXIT"
        <3>1. running' = running - 1
            BY <1>1, <1>8, <2>1, <2>2, OneReturns DEF Dequeue
        <3>2. waiting' = waiting - 1
            BY <1>1, <2>1, <2>2, CountTail
        <3> QED
            BY <1>1, <1>2, <2>1, <3>1, <3>2 DEF ExitsLeft
    <2>3. CASE Head(port) # "EXIT"
        <3>1. Head(port) # Returned
            BY <1>1, <2>1, PoolAssumption DEF Completions, Events, Returned
        <3>2. running' = running
            BY <1>1, <1>8, <2>1, <2>3, <3>1, NobodyReturns DEF Dequeue
        <3>3. waiting' = waiting
            BY <1>1, <2>1, <2>3, CountTail
        <3> QED
            BY <1>1, <1>2, <2>1, <3>2, <3>3 DEF ExitsLeft
    <2> QED
        BY <2>2, <2>3
<1>9. ASSUME NEW w \in Workers, Work(w) PROVE ExitsLeft'
    <2>1. w \in Running
        BY <1>9, PoolAssumption DEF Work, HandleIO, HandleEvent, HandleRevive, Running, Returned
    <2>2. \E x : pc' = [pc EXCEPT ![w] = x]
        BY <1>9 DEF Work, HandleIO, HandleEvent, HandleRevive
    <2>3. UNCHANGED <<port, exits, unposted>>
        BY <1>9 DEF Work, HandleIO, HandleEvent, HandleRevive
    <2> QED
        BY <1>5, <2>1, <2>2, <2>3
<1>10. CASE PostExit
    <2>1. running' = running /\ exits' = exits + 1
        BY <1>10 DEF PostExit, Running
    <2>2. CASE port' = Append(port, "EXIT") /\ UNCHANGED unposted
        <3>1. waiting' = waiting + 1
            BY <1>1, <2>2, CountAppend DEF Completions
        <3> QED
            BY <1>1, <1>2, <2>1, <2>2, <3>1 DEF ExitsLeft
    <2>3. CASE unposted' = unposted + 1 /\ UNCHANGED port
        <3>1. waiting' = waiting
            BY <2>3
        <3> QED
            BY <1>1, <1>2, <2>1, <2>3, <3>1 DEF ExitsLeft
    <2> QED
        BY <1>10, <2>2, <2>3 DEF PostExit
<1>11. CASE TimerTest \/ TypeExit \/ StopTimer \/ JoinWorkers \/ JoinTimer \/ UNCHANGED vars
    BY <1>4, <1>11 DEF TimerTest, TypeExit, StopTimer, JoinWorkers, JoinTimer, vars
<1> QED
    BY <1>6, <1>7, <1>8, <1>9, <1>10, <1>11 DEF Next, Shutdown

\* Every thread still in the loop has an EXIT of its own, in the port or still
\* to be posted, but for as many as there were posts that failed, whoever has
\* returned before (ServerManager.cpp:80-95).
THEOREM ExitForEveryWorker == Spec => []EveryWorkerHasAnExit
<1>1. Init => TypeOK /\ ExitsLeft
    BY TypingInit, ExitsLeftInit
<1>2. TypeOK /\ ExitsLeft /\ [Next]_vars => (TypeOK /\ ExitsLeft)'
    BY TypingStep, ExitsLeftStep
<1>3. ExitsLeft => EveryWorkerHasAnExit
    BY DEF ExitsLeft, EveryWorkerHasAnExit, CountInPort, Where
<1> QED
    BY <1>1, <1>2, <1>3, PTL DEF Spec
=============================================================================
