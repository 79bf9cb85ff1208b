----------------------------- MODULE WorkerPool -----------------------------
(***************************************************************************)
(* The worker threads, the completion port they share, the timer thread    *)
(* and the shutdown by the console command EXIT (ServerManager::ProcessIO, *)
(* IOCPCore::ProcessIO, TaskQueue::ProcessTask).                           *)
(*                                                                         *)
(* What a handler does is abstracted to what matters to the pool: the      *)
(* handler of a packet may let a player leave, an event may kill one and   *)
(* so schedule his REVIVE, every event but REVIVE goes back to the loop,   *)
(* and REVIVE returns from the loop when its player is no longer in the    *)
(* object table.  A player who has left does not come back into the table  *)
(* (its key keeps a null pointer, see PlayerSession).  Handlers end.       *)
(*                                                                         *)
(* PostQueuedCompletionStatus may fail.  The timer thread does not look at *)
(* its result and has already taken the task, which is lost; the main      *)
(* thread prints a line and goes on to the next EXIT.                      *)
(***************************************************************************)
EXTENDS Integers, FiniteSets, Sequences

CONSTANTS
    Workers,    \* the threads ServerManager::ProcessIO starts
    Players,    \* players in game at the start
    MaxIO       \* socket completions in the port at a time (bounds the model)

\* GetMaxWorkerThreadCount: the number of ioThreads and of EXIT completions.
N == Cardinality(Workers)

ASSUME PoolAssumption ==
    /\ IsFiniteSet(Workers)
    /\ MaxIO \in Nat
    /\ Players \intersect {"EVENT", "IO", "EXIT", "waiting", "returned"} = {}

VARIABLES
    port,       \* the completion port, first in, first out
    pc,         \* a worker is waiting, has a completion, or has returned
    tasks,      \* what TaskQueue holds: "EVENT", or a player for his REVIVE
    player,     \* "alive" or "dead", and out of the object table: "left", or "buried" when dead
    timer,      \* the timer thread: "poll", "test" of m_flag, or "stopped"
    flag,       \* TaskQueue::m_flag
    main,       \* the main thread
    exits,      \* EXIT completions main has posted or tried to post
    unposted    \* history: how many of these posts failed

vars == <<port, pc, tasks, player, timer, flag, main, exits, unposted>>

\* EVENT stands for the chain of MOVE (or HEAL) events, a player for the
\* REVIVE event of that player.
Events == {"EVENT"} \union Players
Completions == Events \union {"IO", "EXIT"}

Waiting == "waiting"
Returned == "returned"

Init ==
    /\ port = <<>>
    /\ pc = [w \in Workers |-> Waiting]
    /\ tasks = {"EVENT"}
    /\ player = [p \in Players |-> "alive"]
    /\ timer = "poll"
    /\ flag = TRUE
    /\ main = "reading"
    /\ exits = 0
    /\ unposted = 0

InPort(c) == \E i \in 1..Len(port) : port[i] = c

CountInPort(c) == Cardinality({i \in 1..Len(port) : port[i] = c})

(***************************************************************************)
(* Completions arrive.                                                     *)
(***************************************************************************)

\* A receive, a send or an accept completes.
SocketIO ==
    /\ CountInPort("IO") < MaxIO
    /\ main # "destroyed"
    /\ port' = Append(port, "IO")
    /\ UNCHANGED <<pc, tasks, player, timer, flag, main, exits, unposted>>

\* One round of ProcessTask: post a task that is due, if there is one.  A post
\* that fails is not noticed.
TimerPoll ==
    /\ timer = "poll"
    /\ timer' = "test"
    /\ \/ \E t \in tasks :
            /\ tasks' = tasks \ {t}
            /\ port' = Append(port, t) \/ UNCHANGED port
       \/ UNCHANGED <<tasks, port>>
    /\ UNCHANGED <<pc, player, flag, main, exits, unposted>>

\* Both loops of ProcessTask go on while m_flag is set.
TimerTest ==
    /\ timer = "test"
    /\ timer' = IF flag THEN "poll" ELSE "stopped"
    /\ UNCHANGED <<port, pc, tasks, player, flag, main, exits, unposted>>

(***************************************************************************)
(* A worker in IOCPCore::ProcessIO.                                        *)
(***************************************************************************)

\* Mutation: the EXIT completion is skipped as one without a context.
DequeueSkipsExit(w) ==
    /\ pc[w] = Waiting
    /\ port # <<>>
    /\ port' = Tail(port)
    /\ pc' = [pc EXCEPT ![w] = IF Head(port) = "EXIT" THEN Waiting ELSE Head(port)]
    /\ UNCHANGED <<tasks, player, timer, flag, main, exits, unposted>>

\* GetQueuedCompletionStatus; the key of an EXIT completion ends the loop.
Dequeue(w) ==
    /\ pc[w] = Waiting
    /\ port # <<>>
    /\ port' = Tail(port)
    /\ pc' = [pc EXCEPT ![w] = IF Head(port) = "EXIT" THEN Returned ELSE Head(port)]
    /\ UNCHANGED <<tasks, player, timer, flag, main, exits, unposted>>

\* The key of p has a null pointer: GetGameObject finds nobody.
OutOfTable(p) == player[p] \in {"left", "buried"}

\* Mutation: a disconnection ends the loop, as REVIVE does for a missing player.
DisconnectReturns(w) ==
    /\ pc[w] = "IO"
    /\ \/ pc' = [pc EXCEPT ![w] = Waiting] /\ UNCHANGED player
       \/ \E p \in Players :
            /\ ~OutOfTable(p)
            /\ player' = [player EXCEPT ![p] = IF @ = "dead" THEN "buried" ELSE "left"]
            /\ pc' = [pc EXCEPT ![w] = Returned]
    /\ UNCHANGED <<port, tasks, timer, flag, main, exits, unposted>>

\* A packet or a disconnection: a player may leave.
HandleIO(w) ==
    /\ pc[w] = "IO"
    /\ pc' = [pc EXCEPT ![w] = Waiting]
    /\ \/ UNCHANGED player
       \/ \E p \in Players :
            /\ ~OutOfTable(p)
            /\ player' = [player EXCEPT ![p] = IF @ = "dead" THEN "buried" ELSE "left"]
    /\ UNCHANGED <<port, tasks, timer, flag, main, exits, unposted>>

\* A monster moves and may strike a player dead; the chain goes on.
HandleEvent(w) ==
    /\ pc[w] = "EVENT"
    /\ pc' = [pc EXCEPT ![w] = Waiting]
    /\ \/ /\ tasks' = tasks \union {"EVENT"}
          /\ UNCHANGED player
       \/ \E p \in Players :
            /\ player[p] = "alive"
            /\ player' = [player EXCEPT ![p] = "dead"]
            /\ tasks' = tasks \union {"EVENT", p}
    /\ UNCHANGED <<port, timer, flag, main, exits, unposted>>

\* "if(obj == nullptr) return;" leaves the loop, and the thread with it.
HandleRevive(w) ==
    /\ pc[w] \in Players
    /\ LET p == pc[w] IN
        /\ pc' = [pc EXCEPT ![w] = IF OutOfTable(p) THEN Returned ELSE Waiting]
        /\ player' = [player EXCEPT ![p] = IF @ = "dead" THEN "alive" ELSE @]
    /\ UNCHANGED <<port, tasks, timer, flag, main, exits, unposted>>

Work(w) == HandleIO(w) \/ HandleEvent(w) \/ HandleRevive(w)

(***************************************************************************)
(* The main thread: console, EXIT, joins, Destory.                         *)
(***************************************************************************)
TypeExit ==
    /\ main = "reading"
    /\ main' = "posting"
    /\ UNCHANGED <<port, pc, tasks, player, timer, flag, exits, unposted>>

\* A post that fails is printed and not tried again.
PostExit ==
    /\ main = "posting"
    /\ exits < N
    /\ exits' = exits + 1
    /\ \/ port' = Append(port, "EXIT") /\ UNCHANGED unposted
       \/ unposted' = unposted + 1 /\ UNCHANGED port
    /\ UNCHANGED <<pc, tasks, player, timer, flag, main>>

\* Mutation: m_flag is left set.
StopWithoutFlag ==
    /\ main = "posting"
    /\ exits = N
    /\ main' = "joining"
    /\ UNCHANGED <<port, pc, tasks, player, timer, flag, exits, unposted>>

StopTimer ==
    /\ main = "posting"
    /\ exits = N
    /\ flag' = FALSE
    /\ main' = "joining"
    /\ UNCHANGED <<port, pc, tasks, player, timer, exits, unposted>>

\* Mutation: the workers are detached.
JoinNobody ==
    /\ main = "joining"
    /\ main' = "joined"
    /\ UNCHANGED <<port, pc, tasks, player, timer, flag, exits, unposted>>

JoinWorkers ==
    /\ main = "joining"
    /\ \A w \in Workers : pc[w] = Returned
    /\ main' = "joined"
    /\ UNCHANGED <<port, pc, tasks, player, timer, flag, exits, unposted>>

\* The jthread of the timer is joined at the end of its scope; then Destory.
JoinTimer ==
    /\ main = "joined"
    /\ timer = "stopped"
    /\ main' = "destroyed"
    /\ UNCHANGED <<port, pc, tasks, player, timer, flag, exits, unposted>>

Shutdown == PostExit \/ StopTimer \/ JoinWorkers \/ JoinTimer

Next ==
    \/ SocketIO \/ TimerPoll \/ TimerTest
    \/ \E w \in Workers : Dequeue(w) \/ Work(w)
    \/ TypeExit \/ Shutdown

\* Threads run, and a task that is queued is due some day.  The network, the
\* players and the console owe nothing.
Fairness ==
    /\ WF_vars(TimerPoll) /\ WF_vars(TimerTest)
    /\ \A t \in Events : SF_vars(TimerPoll /\ t \in tasks /\ t \notin tasks')
    /\ WF_vars(\E w \in Workers : Dequeue(w))
    /\ \A w \in Workers : WF_vars(Work(w))
    /\ WF_vars(Shutdown)

Spec == Init /\ [][Next]_vars

FairSpec == Spec /\ Fairness

(***************************************************************************)
(* Properties                                                              *)
(***************************************************************************)

TypeOK ==
    /\ port \in Seq(Completions)
    /\ pc \in [Workers -> Events \union {"IO", Waiting, Returned}]
    /\ tasks \subseteq Events
    /\ player \in [Players -> {"alive", "dead", "left", "buried"}]
    /\ timer \in {"poll", "test", "stopped"}
    /\ flag \in BOOLEAN
    /\ main \in {"reading", "posting", "joining", "joined", "destroyed"}
    /\ exits \in 0..N
    /\ unposted \in 0..exits

Running == {w \in Workers : pc[w] # Returned}

\* During a shutdown every thread still in the loop has an EXIT of its own, in
\* the port or still to be posted, but for as many threads as there were posts
\* that failed: no other worker is left waiting for ever while main joins it,
\* whether or not some have returned before (ServerManager.cpp:80-95,
\* IOCPCore.cpp:36).
EveryWorkerHasAnExit ==
    Cardinality(Running) <= CountInPort("EXIT") + (N - exits) + unposted

\* Destory (the sessions, the database connection, Winsock) begins when no
\* thread can still be inside a handler or post an event (ServerManager.cpp:93-109).
QuietAtDestroy ==
    main = "destroyed" => Running = {} /\ timer = "stopped"

\* main joins threads for which no EXIT is left, no more of them than posts failed.
JoinHangs ==
    /\ main = "joining"
    /\ CountInPort("EXIT") = 0
    /\ Cardinality(Running) \in 1..unposted

\* EXIT ends the server, whatever is queued and whoever has returned before, or
\* leaves main in a join of threads whose EXIT could not be posted: the failed
\* posts are the only way to hang (ServerManager.cpp:83-97).
ExitEndsServer == main = "posting" ~> (main = "destroyed" \/ JoinHangs)

\* The players who were dead when they left: the REVIVE of each of them takes
\* the worker that dispatches it out of the loop.
Buried == {p \in Players : player[p] = "buried"}

\* "Completion events are dispatched by worker threads"
\* (docs/server-flowchart.html:433): an event that was posted is taken from
\* the port, unless the server is being shut down or as many players have left
\* the world dead as there are workers (IOCPCore.cpp:229).
EventsAreDispatched ==
    \A c \in Events :
        InPort(c) ~> (~InPort(c) \/ main # "reading" \/ Cardinality(Buried) >= N)
=============================================================================
