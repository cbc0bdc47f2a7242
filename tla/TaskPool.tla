------------------------------ MODULE TaskPool ------------------------------
(***************************************************************************)
(* ThreadedTaskPool (src/src/core/task-pool.cpp): worker threads and       *)
(* client threads sharing one FIFO queue, one mutex and two condition      *)
(* variables, with work stealing in the waiting calls.                     *)
(*                                                                         *)
(* A FRAME is a place where code runs: the base of a thread's stack        *)
(* (workerThread() of a worker, client code of a caller) or the callback   *)
(* of a task.  executeTask(t) on top of frame x suspends x ("exec") until  *)
(* t has notified its completion; parent[t] = x and host[t] is the thread. *)
(*                                                                         *)
(* Grain: one action per access to a shared atomic and one per critical    *)
(* section of m_queueMutex.  Only the critical section of                  *)
(* m_stealCV.wait(lock, pred) is split, because pred reads atomics that    *)
(* other threads change without the mutex: `mutex' is its holder between   *)
(* the evaluation of pred and the moment the waiter blocks.                *)
(*                                                                         *)
(* Clients are free to call the interface in any order the documentation   *)
(* of ITaskPool allows (include/slang-rhi.h:4047-4116); Submits and        *)
(* Consumes bound which frame may submit or give up which handle.          *)
(***************************************************************************)
EXTENDS Integers, SequencesExt, FiniteSets

CONSTANTS Workers,      \* the pool's threads
          Callers,      \* client threads outside the pool
          Tasks,        \* task identities, each submitted at most once
          Groups,       \* task group identities, each created at most once
          None,         \* no group, no thread, no argument
          Pool,         \* argument of the waitAll() of ~Pool
          Submits,      \* <<x, t, g>>: frame x may submit t into g (or None)
          Consumes,     \* <<x, h>>: frame x may release or wait on handle h
          MaxSpurious   \* bound: spurious wakeups in a behaviour

Threads == Workers \cup Callers
Clients == Callers \cup Tasks
Frames  == Threads \cup Tasks

ASSUME TaskPoolAssumption ==
    /\ Workers # {}                       \* workerCount >= 1
    /\ Workers \cap Callers = {}
    /\ Threads \cap Tasks = {}
    /\ Frames \cap Groups = {}
    /\ None \notin Frames \cup Groups
    /\ Pool \notin Frames \cup Groups \cup {None}
    /\ IsFiniteSet(Frames)
    /\ MaxSpurious \in Nat

VARIABLES queue,       \* m_queue
          mutex,       \* the waiter inside its critical section, or None
          stop,        \* m_stop
          remaining,   \* m_tasksRemaining
          stealDepth,  \* tls_stealDepth of each thread
          pc,          \* where each frame is
          arg,         \* the handle a frame is submitting or waiting on
          host,        \* the thread a frame runs on
          parent,      \* the frame that executes a task
          group,       \* Task::group
          done,        \* Task::done
          refCount,    \* Task::refCount; 0 after submission means deleted
          held,        \* handles not yet given up by a client
          owner,       \* the frame that created a group and will wait on it
          alive,       \* groups created and not deleted
          pending,     \* TaskGroup::pending
          spurious     \* spurious wakeups so far

handleVars == <<held, owner, alive>>
vars == <<queue, mutex, stop, remaining, stealDepth, pc, arg, host, parent,
          group, done, refCount, held, owner, alive, pending, spurious>>

-----------------------------------------------------------------------------
(* Where a frame can be.                                                   *)
WorkerAt == {"poll", "parked", "exec", "exited"}
ClientAt == {"client", "count", "enqueue",
             "test", "steal", "lock", "sleep", "asleep", "exec", "return"}
CallerAt == ClientAt \cup {"stop", "join", "gone"}
TaskAt   == ClientAt \cup {"unborn", "fresh", "queued", "publish", "unref",
                           "ungroup", "uncount", "notify", "over"}

(* A client inside a waiting call, possibly executing a stolen task.       *)
Waiting == {"test", "steal", "lock", "sleep", "asleep", "exec", "return"}

(* ~Pool runs: by contract no caller is in or enters the pool any more.    *)
Closing == \E c \in Callers : arg[c] = Pool

(* Mutants: an empty queue, or the done flags, taken for completion.       *)
IsDoneWhenDrained(x) == queue = <<>>
IsDoneWhenFlagged(x) ==
    IF arg[x] = Pool THEN remaining = 0
    ELSE \A t \in Tasks : t = arg[x] \/ group[t] = arg[x] =>
                            done[t] \/ pc[t] = "unborn"

IsDone(x) ==
    \/ arg[x] \in Tasks  /\ done[arg[x]]
    \/ arg[x] \in Groups /\ pending[arg[x]] = 0
    \/ arg[x] = Pool     /\ remaining = 0

(* Mutant: a nested wait on a group does not help that group.              *)
MayStealOutermost(x) == stealDepth[host[x]] = 0

MaySteal(x) == stealDepth[host[x]] = 0 \/ arg[x] \in Groups

(* Mutant: a nested wait on a group takes any task.                        *)
EligibleAny(x) ==
    {i \in DOMAIN queue : stealDepth[host[x]] = 0 \/ arg[x] \in Groups}

(* Positions of the queue a waiter may take a task from.                   *)
Eligible(x) ==
    {i \in DOMAIN queue : stealDepth[host[x]] = 0 \/ group[queue[i]] = arg[x]}

(* m_stealCV.notify_all()                                                  *)
WakeStealer(f) == IF pc[f] = "asleep" THEN "lock" ELSE pc[f]

Init ==
    /\ queue = <<>>
    /\ mutex = None
    /\ stop = FALSE
    /\ remaining = 0
    /\ stealDepth = [th \in Threads |-> 0]
    /\ pc = [f \in Frames |-> IF f \in Workers THEN "poll"
                              ELSE IF f \in Callers THEN "client" ELSE "unborn"]
    /\ arg = [x \in Clients |-> None]
    /\ host = [f \in Frames |-> IF f \in Threads THEN f ELSE None]
    /\ parent = [t \in Tasks |-> None]
    /\ group = [t \in Tasks |-> None]
    /\ done = [t \in Tasks |-> FALSE]
    /\ refCount = [t \in Tasks |-> 0]
    /\ held = {}
    /\ owner = [g \in Groups |-> None]
    /\ alive = {}
    /\ pending = [g \in Groups |-> 0]
    /\ spurious = 0

-----------------------------------------------------------------------------
(* Client code: a caller, or the callback of a running task.               *)
InClient(x) == pc[x] = "client" /\ (x \in Callers => ~Closing)

CreateGroup(x, g) ==
    /\ InClient(x)
    /\ owner[g] = None
    /\ owner' = [owner EXCEPT ![g] = x]
    /\ alive' = alive \cup {g}
    /\ pending' = [pending EXCEPT ![g] = 0]
    /\ UNCHANGED <<queue, mutex, stop, remaining, stealDepth, pc, arg, host,
                   parent, group, done, refCount, held, spurious>>

(* Only the group's owner, or a task of the group, submits into a group:   *)
(* anyone else could race with the deletion of the group.                  *)
MaySubmitInto(x, g) ==
    \/ g = None
    \/ g \in alive /\ owner[g] = x
    \/ x \in Tasks /\ group[x] = g

(* One reference for the pool, one for the caller's handle.                *)
InitialRefsMissingOne == 1
InitialRefs == 2

SubmitTask(x, t, g) ==
    /\ InClient(x)
    /\ pc[t] = "unborn"
    /\ <<x, t, g>> \in Submits
    /\ MaySubmitInto(x, g)
    /\ pc' = [pc EXCEPT ![x] = "count", ![t] = "fresh"]
    /\ arg' = [arg EXCEPT ![x] = t]
    /\ group' = [group EXCEPT ![t] = g]
    /\ pending' = IF g = None THEN pending
                  ELSE [pending EXCEPT ![g] = @ + 1]
    /\ refCount' = [refCount EXCEPT ![t] = InitialRefs]
    /\ UNCHANGED <<queue, mutex, stop, remaining, stealDepth, host, parent,
                   done, held, owner, alive, spurious>>

CountTask(x) ==
    /\ pc[x] = "count"
    /\ remaining' = remaining + 1
    /\ pc' = [pc EXCEPT ![x] = "enqueue"]
    /\ UNCHANGED <<queue, mutex, stop, stealDepth, arg, host, parent, group,
                   done, refCount, handleVars, pending, spurious>>

(* enqueue(), then submitTask() hands the task to its caller.  notify_one  *)
(* wakes one parked worker, notify_all every blocked waiter.               *)
(* Mutants: only the first of several queued tasks notifies, or none does. *)
NotifyOneIfEmpty ==
    LET parked == {w \in Workers : pc[w] = "parked"}
    IN IF parked = {} \/ queue # <<>> THEN {{}} ELSE {{w} : w \in parked}
NotifyNone == {{}}

NotifyOne ==
    LET parked == {w \in Workers : pc[w] = "parked"}
    IN IF parked = {} THEN {{}} ELSE {{w} : w \in parked}

Enqueue(x) ==
    /\ pc[x] = "enqueue"
    /\ mutex = None
    /\ queue' = Append(queue, arg[x])
    /\ \E woken \in NotifyOne :
          pc' = [f \in Frames |-> IF f = x THEN "client"
                                 ELSE IF f = arg[x] THEN "queued"
                                 ELSE IF f \in woken THEN "poll"
                                 ELSE WakeStealer(f)]
    /\ held' = held \cup {arg[x]}
    /\ arg' = [arg EXCEPT ![x] = None]
    /\ UNCHANGED <<mutex, stop, remaining, stealDepth, host, parent, group,
                   done, refCount, owner, alive, pending, spurious>>

ReleaseTask(x, t) ==
    /\ InClient(x)
    /\ t \in held
    /\ <<x, t>> \in Consumes
    /\ held' = held \ {t}
    /\ refCount' = [refCount EXCEPT ![t] = @ - 1]
    /\ UNCHANGED <<queue, mutex, stop, remaining, stealDepth, pc, arg, host,
                   parent, group, done, owner, alive, pending, spurious>>

BeginWait(x, h) ==
    /\ InClient(x)
    /\ <<x, h>> \in Consumes
    /\ \/ h \in held
       \/ h \in alive /\ owner[h] = x
    /\ held' = held \ {h}
    /\ arg' = [arg EXCEPT ![x] = h]
    /\ pc' = [pc EXCEPT ![x] = "test"]
    /\ UNCHANGED <<queue, mutex, stop, remaining, stealDepth, host, parent,
                   group, done, refCount, owner, alive, pending, spurious>>

-----------------------------------------------------------------------------
(* waitWithStealing()                                                      *)
Goto(x, l) ==
    /\ pc' = [pc EXCEPT ![x] = l]
    /\ UNCHANGED <<queue, stop, remaining, stealDepth, arg, host, parent, group,
                   done, refCount, handleVars, pending, spurious>>

TestDone(x) ==
    /\ pc[x] = "test"
    /\ Goto(x, IF IsDone(x) THEN "return"
               ELSE IF MaySteal(x) THEN "steal" ELSE "lock")
    /\ UNCHANGED mutex

(* Take position i of the queue and enter executeTask() on top of x.       *)
RunTask(x, i) ==
    LET t == queue[i] IN
    /\ queue' = RemoveAt(queue, i)
    /\ pc' = [pc EXCEPT ![x] = "exec", ![t] = "client"]
    /\ parent' = [parent EXCEPT ![t] = x]
    /\ host' = [host EXCEPT ![t] = host[x]]
    /\ stealDepth' = [stealDepth EXCEPT ![host[x]] = @ + 1]
    /\ UNCHANGED <<mutex, stop, remaining, arg, group, done, refCount,
                   handleVars, pending, spurious>>

StealTask(x) ==
    /\ pc[x] = "steal"
    /\ mutex = None
    /\ \/ \E i \in Eligible(x) :
             (\A j \in Eligible(x) : i <= j) /\ RunTask(x, i)
       \/ Eligible(x) = {} /\ Goto(x, "lock") /\ UNCHANGED mutex

(* Mutant: pred is evaluated before the mutex is taken.                    *)
CheckUnlocked(x) ==
    /\ pc[x] = "lock"
    /\ Goto(x, IF IsDone(x) \/ Eligible(x) # {} THEN "test" ELSE "sleep")
    /\ UNCHANGED mutex

(* m_stealCV.wait(lock, pred): pred is evaluated with the mutex held.      *)
LockAndCheck(x) ==
    /\ pc[x] = "lock"
    /\ mutex = None
    /\ IF IsDone(x) \/ Eligible(x) # {}
       THEN Goto(x, "test") /\ UNCHANGED mutex
       ELSE Goto(x, "sleep") /\ mutex' = x

FallAsleep(x) ==
    /\ pc[x] = "sleep"
    /\ Goto(x, "asleep")
    /\ mutex' = None

WakeSpuriously(f) ==
    /\ pc[f] \in {"asleep", "parked"}
    /\ spurious < MaxSpurious
    /\ spurious' = spurious + 1
    /\ pc' = [pc EXCEPT ![f] = IF @ = "asleep" THEN "lock" ELSE "poll"]
    /\ UNCHANGED <<queue, mutex, stop, remaining, stealDepth, arg, host, parent,
                   group, done, refCount, handleVars, pending>>

(* waitAndReleaseTask() drops its reference, waitAndReleaseTaskGroup()     *)
(* deletes the group, ~Pool goes on to stop the workers.                   *)
EndWait(x) ==
    /\ pc[x] = "return"
    /\ pc' = [pc EXCEPT ![x] = IF arg[x] = Pool THEN "stop" ELSE "client"]
    /\ refCount' = IF arg[x] \in Tasks
                   THEN [refCount EXCEPT ![arg[x]] = @ - 1] ELSE refCount
    /\ alive' = alive \ {arg[x]}
    /\ arg' = [arg EXCEPT ![x] = IF @ = Pool THEN Pool ELSE None]
    /\ UNCHANGED <<queue, mutex, stop, remaining, stealDepth, host, parent,
                   group, done, held, owner, pending, spurious>>

-----------------------------------------------------------------------------
(* workerThread().  Its predicate reads only what m_queueMutex protects,   *)
(* so evaluating it and blocking are one step.                             *)
Poll(w) ==
    /\ pc[w] = "poll"
    /\ mutex = None
    /\ IF queue # <<>> THEN RunTask(w, 1)
       ELSE Goto(w, IF stop THEN "exited" ELSE "parked") /\ UNCHANGED mutex

-----------------------------------------------------------------------------
(* executeTask(), from the return of the callback to the notification.     *)
FinishCallback(t) ==
    /\ pc[t] = "client"
    /\ pc' = [pc EXCEPT ![t] = "publish"]
    /\ stealDepth' = [stealDepth EXCEPT ![host[t]] = @ - 1]
    /\ UNCHANGED <<queue, mutex, stop, remaining, arg, host, parent, group,
                   done, refCount, handleVars, pending, spurious>>

PublishDone(t) ==
    /\ pc[t] = "publish"
    /\ done' = [done EXCEPT ![t] = TRUE]
    /\ pc' = [pc EXCEPT ![t] = "unref"]
    /\ UNCHANGED <<queue, mutex, stop, remaining, stealDepth, arg, host, parent,
                   group, refCount, handleVars, pending, spurious>>

(* The group pointer was read before the task could be deleted.            *)
DropPoolRef(t) ==
    /\ pc[t] = "unref"
    /\ refCount' = [refCount EXCEPT ![t] = @ - 1]
    /\ pc' = [pc EXCEPT ![t] = IF group[t] = None THEN "uncount" ELSE "ungroup"]
    /\ UNCHANGED <<queue, mutex, stop, remaining, stealDepth, arg, host, parent,
                   group, done, handleVars, pending, spurious>>

LeaveGroup(t) ==
    /\ pc[t] = "ungroup"
    /\ pending' = [pending EXCEPT ![group[t]] = @ - 1]
    /\ pc' = [pc EXCEPT ![t] = "uncount"]
    /\ UNCHANGED <<queue, mutex, stop, remaining, stealDepth, arg, host, parent,
                   group, done, refCount, handleVars, spurious>>

UncountTask(t) ==
    /\ pc[t] = "uncount"
    /\ remaining' = remaining - 1
    /\ pc' = [pc EXCEPT ![t] = "notify"]
    /\ UNCHANGED <<queue, mutex, stop, stealDepth, arg, host, parent, group,
                   done, refCount, handleVars, pending, spurious>>

(* Mutant: a worker goes on as a waiter.                                   *)
ResumeWaiting(f) == "test"

(* Where the frame under a finished task goes on.                          *)
Resume(f) == IF f \in Workers THEN "poll" ELSE "test"

(* The lock keeps the notification out of a waiter's critical section.     *)
NotifyDone(t) ==
    /\ pc[t] = "notify"
    /\ mutex = None
    /\ pc' = [f \in Frames |->
                 IF f = t THEN "over"
                 ELSE IF f = parent[t] THEN Resume(f)
                 ELSE WakeStealer(f)]
    /\ UNCHANGED <<queue, mutex, stop, remaining, stealDepth, arg, host, parent,
                   group, done, refCount, handleVars, pending, spurious>>

-----------------------------------------------------------------------------
(* ~Pool: drain, stop and join the workers, release what is left.          *)
BeginDestroy(x) ==
    /\ ~Closing
    /\ \A c \in Callers : pc[c] = "client"
    /\ arg' = [arg EXCEPT ![x] = Pool]
    /\ pc' = [pc EXCEPT ![x] = "test"]
    /\ UNCHANGED <<queue, mutex, stop, remaining, stealDepth, host, parent,
                   group, done, refCount, handleVars, pending, spurious>>

(* Mutant: m_stop is set, nobody is notified.                              *)
StopSilently(x) ==
    /\ pc[x] = "stop"
    /\ stop' = TRUE
    /\ pc' = [pc EXCEPT ![x] = "join"]
    /\ UNCHANGED <<queue, mutex, remaining, stealDepth, arg, host, parent, group,
                   done, refCount, handleVars, pending, spurious>>

StopWorkers(x) ==
    /\ pc[x] = "stop"
    /\ mutex = None
    /\ stop' = TRUE
    /\ pc' = [f \in Frames |-> IF pc[f] = "parked" THEN "poll"
                               ELSE IF f = x THEN "join" ELSE pc[f]]
    /\ UNCHANGED <<queue, mutex, remaining, stealDepth, arg, host, parent, group,
                   done, refCount, handleVars, pending, spurious>>

JoinWorkers(x) ==
    /\ pc[x] = "join"
    /\ \A w \in Workers : pc[w] = "exited"
    /\ refCount' = [t \in Tasks |-> IF t \in Range(queue) THEN refCount[t] - 1
                                    ELSE refCount[t]]
    /\ queue' = <<>>
    /\ pc' = [pc EXCEPT ![x] = "gone"]
    /\ UNCHANGED <<mutex, stop, remaining, stealDepth, arg, host, parent, group,
                   done, handleVars, pending, spurious>>

Gone == \E c \in Callers : pc[c] = "gone"
Destroyed == Gone /\ UNCHANGED vars

-----------------------------------------------------------------------------
ClientCall(x) ==
    \/ \E g \in Groups : CreateGroup(x, g)
    \/ \E t \in Tasks, g \in Groups \cup {None} : SubmitTask(x, t, g)
    \/ \E t \in Tasks : ReleaseTask(x, t)
    \/ \E h \in Tasks \cup Groups : BeginWait(x, h)

SubmitStep(x) == CountTask(x) \/ Enqueue(x)

WaitStep(x) ==
    TestDone(x) \/ StealTask(x) \/ LockAndCheck(x) \/ FallAsleep(x) \/ EndWait(x)

TaskStep(t) ==
    \/ FinishCallback(t) \/ PublishDone(t) \/ DropPoolRef(t)
    \/ LeaveGroup(t) \/ UncountTask(t) \/ NotifyDone(t)

Next ==
    \/ \E x \in Clients : ClientCall(x) \/ SubmitStep(x) \/ WaitStep(x)
    \/ \E w \in Workers : Poll(w)
    \/ \E t \in Tasks : TaskStep(t)
    \/ \E f \in Frames : WakeSpuriously(f)
    \/ \E c \in Callers : BeginDestroy(c) \/ StopWorkers(c) \/ JoinWorkers(c)
    \/ Destroyed

Spec == Init /\ [][Next]_vars

(* The scheduler runs every thread that can run, callbacks return, and a   *)
(* wait on a free mutex ends.  No client call is fair: a client may stop   *)
(* calling, but it finishes a call it began.                               *)
Fairness ==
    /\ \A x \in Clients : WF_vars(SubmitStep(x)) /\ WF_vars(WaitStep(x))
    /\ \A w \in Workers : WF_vars(Poll(w))
    /\ \A t \in Tasks : WF_vars(TaskStep(t))
    /\ \A c \in Callers : WF_vars(StopWorkers(c)) /\ WF_vars(JoinWorkers(c))

FairSpec == Spec /\ Fairness

-----------------------------------------------------------------------------
(* Type correctness: every field has its kind, every frame is at a point   *)
(* its code can reach.                                                     *)
TypeOK ==
    /\ queue \in Seq(Tasks)
    /\ mutex \in Clients \cup {None}
    /\ stop \in BOOLEAN
    /\ remaining \in Int
    /\ stealDepth \in [Threads -> Int]
    /\ pc \in [Frames -> WorkerAt \cup CallerAt \cup TaskAt]
    /\ \A w \in Workers : pc[w] \in WorkerAt
    /\ \A c \in Callers : pc[c] \in CallerAt
    /\ \A t \in Tasks : pc[t] \in TaskAt
    /\ arg \in [Clients -> Tasks \cup Groups \cup {Pool, None}]
    /\ host \in [Frames -> Threads \cup {None}]
    /\ parent \in [Tasks -> Frames \cup {None}]
    /\ group \in [Tasks -> Groups \cup {None}]
    /\ done \in [Tasks -> BOOLEAN]
    /\ refCount \in [Tasks -> Int]
    /\ held \subseteq Tasks
    /\ owner \in [Groups -> Clients \cup {None}]
    /\ alive \subseteq Groups
    /\ pending \in [Groups -> Int]
    /\ spurious \in Nat

(* A task is in executeTask(), its callback possibly suspended in a wait.  *)
Running(t)    == pc[t] \notin {"unborn", "fresh", "queued", "over"}
(* The completion bookkeeping still has to notify the waiters.             *)
Completing(t) == pc[t] \in {"unref", "ungroup", "uncount", "notify"}
(* t counts in its group's pending, and touches the group until it leaves. *)
Counted(t)    == pc[t] \notin {"unborn", "uncount", "notify", "over"}
(* The pool still holds its own reference to t.                            *)
PoolHolds(t)  == Counted(t) /\ pc[t] # "ungroup"
(* A client still holds the reference of the handle of t.                  *)
ClientHolds(t) ==
    t \in held \/ \E x \in Clients : pc[x] \in {"count", "enqueue"} \cup Waiting
                                    /\ arg[x] = t

(* No task is deleted while a submitter, the queue, the executing thread   *)
(* or a waiter still uses it, and one nobody holds is deleted              *)
(* (task-pool.cpp:220-227, 267-269, 386-387, 478-483).                     *)
TasksAlive ==
    \A t \in Tasks : refCount[t] > 0 <=> PoolHolds(t) \/ ClientHolds(t)

(* waitAndReleaseTaskGroup() never deletes a group that a task still has   *)
(* to decrement or that a submission still enters (task-pool.cpp:388-396). *)
GroupsAlive ==
    \A t \in Tasks : Counted(t) /\ group[t] # None => group[t] \in alive

(* A waiter blocked on m_stealCV has nothing to steal, and if what it      *)
(* waits for is done then a notification is still to come                  *)
(* (task-pool.cpp:240, 294-301, 399-405).                                  *)
NoLostWakeup ==
    \A x \in Clients : pc[x] = "asleep" =>
        /\ Eligible(x) = {}
        /\ IsDone(x) => \E t \in Tasks : Completing(t)

(* While a worker is parked, every queued task has an awake worker of its  *)
(* own coming for it: notify_one() per enqueue is enough                   *)
(* (task-pool.cpp:237, 414-427).                                           *)
NoIdleWorker ==
    (\E w \in Workers : pc[w] = "parked") =>
        Len(queue) <= Cardinality({w \in Workers : pc[w] = "poll"})

(* A callback that waits executes nothing but tasks of the group it waits  *)
(* on, so no unrelated callback is ever suspended on top of it             *)
(* (task-pool.cpp:12-16, 277-293).                                         *)
NestedStealing ==
    \A t \in Tasks : Running(t) /\ parent[t] \in Tasks =>
        arg[parent[t]] \in Groups /\ group[t] = arg[parent[t]]

(* When a wait returns, all it covers has run and every thread has left    *)
(* the group, resp. the pool's counters (task-pool.cpp:382-398, 497).      *)
WaitedWorkFinished ==
    \A x \in Clients : pc[x] = "return" =>
        \A t \in Tasks :
            /\ arg[x] = t => done[t]
            /\ group[t] = arg[x] => ~Counted(t)
            /\ arg[x] = Pool => ~Counted(t) /\ pc[t] # "uncount"

-----------------------------------------------------------------------------
(* The pool implements the interface's contract (slang-rhi.h:4055-4115).   *)
Status(t) == CASE done[t] -> "complete"
             [] Running(t) /\ ~done[t] -> "running"
             [] pc[t] \in {"fresh", "queued"} -> "pending"
             [] OTHER -> "idle"

WaitsOn(x) == IF pc[x] \in Waiting \ {"return"} THEN arg[x] ELSE None

Contract == INSTANCE TaskPoolContract WITH
    Waiters <- Clients,
    status  <- [t \in Tasks |-> Status(t)],
    member  <- group,
    waiting <- [x \in Clients |-> WaitsOn(x)]

ImplementsContract == Contract!ContractSpec

(* Every submitted task runs to completion, payload deletion included.     *)
EveryTaskRuns == \A t \in Tasks : (pc[t] = "fresh") ~> done[t]

(* Every wait returns, and a destruction that began completes.             *)
EveryWaitReturns ==
    \A x \in Clients : (pc[x] = "test") ~> (pc[x] \in {"return", "gone"})
DestructionCompletes == Closing ~> Gone
=============================================================================
