--------------------------- MODULE TaskPoolProofs ---------------------------
(***************************************************************************)
(* Safety theorems about TaskPool, for every set of threads, tasks and     *)
(* groups and every client; and that the pool implements its contract.     *)
(***************************************************************************)
EXTENDS TaskPool, TLAPS, SequenceTheorems, FiniteSetTheorems

(* Removing a position of a sequence keeps the other entries in order.     *)
LEMMA RemoveAtProperties ==
    ASSUME NEW S, NEW s \in Seq(S), NEW i \in 1..Len(s)
    PROVE  /\ RemoveAt(s, i) \in Seq(S)
           /\ Len(RemoveAt(s, i)) = Len(s) - 1
           /\ \A j \in 1..(Len(s) - 1) :
                 RemoveAt(s, i)[j] = IF j < i THEN s[j] ELSE s[j + 1]
<1> DEFINE before == SubSeq(s, 1, i - 1)
           after  == SubSeq(s, i + 1, Len(s))
<1>1. /\ before \in Seq(S)
      /\ Len(before) = i - 1
      /\ \A j \in 1..(i - 1) : before[j] = s[j]
  OBVIOUS
<1>2. /\ after \in Seq(S)
      /\ Len(after) = Len(s) - i
      /\ \A j \in 1..(Len(s) - i) : after[j] = s[i + j]
  OBVIOUS
<1> HIDE DEF before, after
<1>3. RemoveAt(s, i) = before \o after
  BY DEF RemoveAt, before, after
<1>4. /\ before \o after \in Seq(S)
      /\ Len(before \o after) = Len(s) - 1
  BY <1>1, <1>2
<1>5. ASSUME NEW j \in 1..(Len(s) - 1)
      PROVE  (before \o after)[j] = IF j < i THEN s[j] ELSE s[j + 1]
  <2>1. CASE j < i
    BY <1>1, <1>2, <2>1
  <2>2. CASE ~(j < i)
    <3>1. (before \o after)[j] = after[j - (i - 1)]
      BY <1>1, <1>2, <2>2
    <3>2. j - (i - 1) \in 1..(Len(s) - i)
      BY <2>2
    <3>3. after[j - (i - 1)] = s[i + (j - (i - 1))]
      BY <1>2, <3>2
    <3>4. QED
      BY <2>2, <3>1, <3>3
  <2>3. QED
    BY <2>1, <2>2
<1>6. QED
  BY <1>3, <1>4, <1>5

(* An update keeps a function's type, whether its index is in the domain.  *)
LEMMA ExceptTyped ==
    ASSUME NEW D, NEW S, NEW f \in [D -> S], NEW k, NEW e, k \in D => e \in S
    PROVE  [f EXCEPT ![k] = e] \in [D -> S]
OBVIOUS

(* What a frame is submitting is a task, and only a caller runs ~Pool.     *)
ArgInv ==
    \A x \in Clients :
        /\ pc[x] \in {"count", "enqueue"} => arg[x] \in Tasks
        /\ arg[x] = Pool => x \in Callers

TypeInv == TypeOK /\ ArgInv

LEMMA TypeInit == Init => TypeInv
<1> SUFFICES ASSUME Init PROVE TypeInv
  OBVIOUS
<1> USE TaskPoolAssumption DEF Init, Threads, Clients, Frames
<1>1. /\ pc \in [Frames -> WorkerAt \cup CallerAt \cup TaskAt]
      /\ \A w \in Workers : pc[w] \in WorkerAt
      /\ \A c \in Callers : pc[c] \in CallerAt
      /\ \A t \in Tasks : pc[t] \in TaskAt
  <2>1. /\ \A w \in Workers : pc[w] = "poll"
        /\ \A c \in Callers : pc[c] = "client"
        /\ \A t \in Tasks : pc[t] = "unborn"
    OBVIOUS
  <2>2. pc \in [Frames -> {"poll", "client", "unborn"}]
    OBVIOUS
  <2>3. {"poll", "client", "unborn"} \subseteq WorkerAt \cup CallerAt \cup TaskAt
    BY DEF WorkerAt, CallerAt, ClientAt, TaskAt
  <2>4. pc \in [Frames -> WorkerAt \cup CallerAt \cup TaskAt]
    BY <2>2, <2>3
  <2>5. QED
    BY <2>1, <2>4 DEF WorkerAt, CallerAt, ClientAt, TaskAt
<1>2. /\ queue \in Seq(Tasks)
      /\ mutex \in Clients \cup {None} /\ remaining \in Int /\ spurious \in Nat
      /\ stop \in BOOLEAN /\ held \subseteq Tasks /\ alive \subseteq Groups
  <2>1. queue \in Seq(Tasks)
    OBVIOUS
  <2>2. mutex \in Clients \cup {None} /\ remaining \in Int /\ spurious \in Nat
    OBVIOUS
  <2>3. stop \in BOOLEAN /\ held \subseteq Tasks /\ alive \subseteq Groups
    OBVIOUS
  <2>4. QED
    BY <2>1, <2>2, <2>3
<1>3. /\ stealDepth \in [Threads -> Int] /\ refCount \in [Tasks -> Int]
      /\ pending \in [Groups -> Int] /\ done \in [Tasks -> BOOLEAN]
      /\ group \in [Tasks -> Groups \cup {None}]
      /\ owner \in [Groups -> Clients \cup {None}]
      /\ parent \in [Tasks -> Frames \cup {None}]
      /\ arg \in [Clients -> Tasks \cup Groups \cup {Pool, None}]
      /\ host \in [Frames -> Threads \cup {None}]
  OBVIOUS
<1>4. ArgInv
  BY DEF ArgInv
<1>5. QED
  BY <1>1, <1>2, <1>3, <1>4 DEF TypeInv, TypeOK

(* Starting a task, from a worker's loop or from a waiting client.         *)
LEMMA RunTaskTyped ==
    ASSUME TypeInv, NEW x \in Workers \cup Clients, NEW i \in 1..Len(queue),
           pc[x] \in {"poll", "steal"}, RunTask(x, i)
    PROVE  TypeInv'
<1> USE TaskPoolAssumption DEF Threads, Clients, Frames, TypeInv, TypeOK
<1>1. queue[i] \in Tasks
  OBVIOUS
<1>2. queue' \in Seq(Tasks)
  BY RemoveAtProperties DEF RunTask
<1>3. stealDepth' \in [Threads -> Int]
  <2>1. stealDepth' = [stealDepth EXCEPT ![host[x]] = stealDepth[host[x]] + 1]
    BY DEF RunTask
  <2>2. host[x] \in Threads => stealDepth[host[x]] + 1 \in Int
    OBVIOUS
  <2>3. stealDepth \in [Threads -> Int]
    OBVIOUS
  <2>4. QED
    BY ONLY <2>1, <2>2, <2>3, ExceptTyped
<1>4. /\ host' \in [Frames -> Threads \cup {None}]
      /\ parent' \in [Tasks -> Frames \cup {None}]
  BY <1>1 DEF RunTask
<1>5. /\ pc' = [pc EXCEPT ![x] = "exec", ![queue[i]] = "client"]
      /\ UNCHANGED <<mutex, stop, remaining, arg, group, done, refCount, held,
                     owner, alive, pending, spurious>>
  BY DEF RunTask, handleVars
<1>6. /\ pc' \in [Frames -> WorkerAt \cup CallerAt \cup TaskAt]
      /\ \A w \in Workers : pc'[w] \in WorkerAt
      /\ \A c \in Callers : pc'[c] \in CallerAt
      /\ \A t \in Tasks : pc'[t] \in TaskAt
  <2>1. PICK t \in Tasks : t = queue[i]
    BY <1>1
  <2>2. \A f \in Frames :
           pc'[f] = IF f = t THEN "client" ELSE IF f = x THEN "exec" ELSE pc[f]
    BY <1>5, <2>1
  <2>3. /\ \A w \in Workers : pc'[w] \in WorkerAt
        /\ \A c \in Callers : pc'[c] \in CallerAt
        /\ \A u \in Tasks : pc'[u] \in TaskAt
    <3>1. /\ "exec" \in WorkerAt /\ "exec" \in CallerAt /\ "exec" \in TaskAt
          /\ "client" \in TaskAt
      BY DEF WorkerAt, CallerAt, ClientAt, TaskAt
    <3>2. \A f \in Threads : f # t
      OBVIOUS
    <3>3. QED
      BY <2>2, <3>1, <3>2
  <2>4. \A f \in Frames : pc'[f] \in WorkerAt \cup CallerAt \cup TaskAt
    BY <2>3
  <2>5. pc' = [f \in Frames |-> pc'[f]]
    BY <1>5
  <2>6. pc' \in [Frames -> WorkerAt \cup CallerAt \cup TaskAt]
    BY ONLY <2>4, <2>5
  <2>7. QED
    BY <2>3, <2>6
<1>7. ArgInv'
  BY <1>1, <1>5 DEF ArgInv
<1>8. QED
  BY <1>2, <1>3, <1>4, <1>5, <1>6, <1>7

LEMMA TypeNext == TypeInv /\ [Next]_vars => TypeInv'
<1> SUFFICES ASSUME TypeInv, [Next]_vars PROVE TypeInv'
  OBVIOUS
<1> USE TaskPoolAssumption DEF Threads, Clients, Frames, TypeInv, TypeOK, ArgInv,
        WorkerAt, CallerAt, ClientAt, TaskAt, handleVars
<1>1. ASSUME NEW x \in Clients, NEW g \in Groups, CreateGroup(x, g)
      PROVE  TypeInv'
  BY <1>1 DEF CreateGroup, InClient
<1>2. ASSUME NEW x \in Clients, NEW t \in Tasks, NEW g \in Groups \cup {None}, SubmitTask(x, t, g)
      PROVE  TypeInv'
  <2>1. pending' \in [Groups -> Int]
    BY <1>2 DEF SubmitTask
  <2>2. refCount' \in [Tasks -> Int]
    BY <1>2 DEF SubmitTask, InitialRefs
  <2>3. ArgInv'
    BY <1>2 DEF SubmitTask, InClient
  <2>4. QED
    BY <1>2, <2>1, <2>2, <2>3 DEF SubmitTask, InClient
<1>3. ASSUME NEW x \in Clients, NEW t \in Tasks, ReleaseTask(x, t)
      PROVE  TypeInv'
  BY <1>3 DEF ReleaseTask, InClient
<1>4. ASSUME NEW x \in Clients, NEW h \in Tasks \cup Groups, BeginWait(x, h)
      PROVE  TypeInv'
  BY <1>4 DEF BeginWait, InClient
<1>5. ASSUME NEW x \in Clients, CountTask(x) PROVE TypeInv'
  BY <1>5 DEF CountTask
<1>6. ASSUME NEW x \in Clients, Enqueue(x) PROVE TypeInv'
  BY <1>6 DEF Enqueue, WakeStealer, NotifyOne
<1>7. ASSUME NEW x \in Clients, TestDone(x) PROVE TypeInv'
  BY <1>7 DEF TestDone, Goto
<1>8. ASSUME NEW x \in Clients, StealTask(x) PROVE TypeInv'
  <2>1. CASE \E i \in Eligible(x) : RunTask(x, i)
    <3>1. PICK i \in 1..Len(queue) : RunTask(x, i)
      BY <2>1 DEF Eligible
    <3>2. pc[x] = "steal"
      BY <1>8 DEF StealTask
    <3>3. TypeInv
      OBVIOUS
    <3>4. QED
      BY ONLY <3>1, <3>2, <3>3, RunTaskTyped, x \in Clients
  <2>2. CASE Eligible(x) = {} /\ Goto(x, "lock") /\ UNCHANGED mutex
    BY <1>8, <2>2 DEF StealTask, Goto
  <2>3. QED
    BY <1>8, <2>1, <2>2 DEF StealTask
<1>9. ASSUME NEW x \in Clients, LockAndCheck(x) PROVE TypeInv'
  <2>1. CASE Goto(x, "test") /\ UNCHANGED mutex
    BY <1>9, <2>1 DEF LockAndCheck, Goto
  <2>2. CASE Goto(x, "sleep") /\ mutex' = x
    BY <1>9, <2>2 DEF LockAndCheck, Goto
  <2>3. QED
    BY <1>9, <2>1, <2>2 DEF LockAndCheck
<1>10. ASSUME NEW x \in Clients, FallAsleep(x) PROVE TypeInv'
  BY <1>10 DEF FallAsleep, Goto
<1>11. ASSUME NEW x \in Clients, EndWait(x) PROVE TypeInv'
  BY <1>11 DEF EndWait
<1>12. ASSUME NEW w \in Workers, Poll(w) PROVE TypeInv'
  <2>1. CASE queue # <<>> /\ RunTask(w, 1)
    <3>1. 1 \in 1..Len(queue)
      BY <2>1
    <3>2. pc[w] = "poll"
      BY <1>12 DEF Poll
    <3>3. TypeInv
      OBVIOUS
    <3>4. QED
      BY ONLY <2>1, <3>1, <3>2, <3>3, RunTaskTyped, w \in Workers
  <2>2. CASE Goto(w, IF stop THEN "exited" ELSE "parked") /\ UNCHANGED mutex
    BY <1>12, <2>2 DEF Poll, Goto
  <2>3. QED
    BY <1>12, <2>1, <2>2 DEF Poll
<1>13. ASSUME NEW t \in Tasks, FinishCallback(t) PROVE TypeInv'
  <2>1. stealDepth' \in [Threads -> Int]
    <3>1. stealDepth' = [stealDepth EXCEPT ![host[t]] = stealDepth[host[t]] - 1]
      BY <1>13 DEF FinishCallback
    <3>2. host[t] \in Threads => stealDepth[host[t]] - 1 \in Int
      OBVIOUS
    <3>3. stealDepth \in [Threads -> Int]
      OBVIOUS
    <3>4. QED
      BY ONLY <3>1, <3>2, <3>3, ExceptTyped
  <2>2. QED
    BY <1>13, <2>1 DEF FinishCallback
<1>14. ASSUME NEW t \in Tasks, PublishDone(t) PROVE TypeInv'
  BY <1>14 DEF PublishDone
<1>15. ASSUME NEW t \in Tasks, DropPoolRef(t) PROVE TypeInv'
  BY <1>15 DEF DropPoolRef
<1>16. ASSUME NEW t \in Tasks, LeaveGroup(t) PROVE TypeInv'
  <2>1. pending' \in [Groups -> Int]
    <3>1. pending' = [pending EXCEPT ![group[t]] = pending[group[t]] - 1]
      BY <1>16 DEF LeaveGroup
    <3>2. group[t] \in Groups => pending[group[t]] - 1 \in Int
      OBVIOUS
    <3>3. pending \in [Groups -> Int]
      OBVIOUS
    <3>4. QED
      BY ONLY <3>1, <3>2, <3>3, ExceptTyped
  <2>2. QED
    BY <1>16, <2>1 DEF LeaveGroup
<1>17. ASSUME NEW t \in Tasks, UncountTask(t) PROVE TypeInv'
  BY <1>17 DEF UncountTask
<1>18. ASSUME NEW t \in Tasks, NotifyDone(t) PROVE TypeInv'
  BY <1>18 DEF NotifyDone, WakeStealer, Resume
<1>19. ASSUME NEW f \in Frames, WakeSpuriously(f) PROVE TypeInv'
  BY <1>19 DEF WakeSpuriously
<1>20. ASSUME NEW c \in Callers, BeginDestroy(c) PROVE TypeInv'
  BY <1>20 DEF BeginDestroy
<1>21. ASSUME NEW c \in Callers, StopWorkers(c) PROVE TypeInv'
  BY <1>21 DEF StopWorkers
<1>22. ASSUME NEW c \in Callers, JoinWorkers(c) PROVE TypeInv'
  BY <1>22 DEF JoinWorkers
<1>23. CASE UNCHANGED vars
  BY <1>23 DEF vars
<1>24. QED
  BY <1>1, <1>2, <1>3, <1>4, <1>5, <1>6, <1>7, <1>8, <1>9, <1>10, <1>11, <1>12, <1>13,
     <1>14, <1>15, <1>16, <1>17, <1>18, <1>19, <1>20, <1>21, <1>22, <1>23
  DEF Next, ClientCall, SubmitStep, WaitStep, TaskStep, Destroyed

(* Every variable keeps its type, whatever the clients do: see TypeOK.     *)
THEOREM TypeCorrect == Spec => []TypeOK
<1>1. TypeInv => TypeOK
  BY DEF TypeInv
<1>2. QED
  BY <1>1, TypeInit, TypeNext, PTL DEF Spec
-----------------------------------------------------------------------------
(* A frame lies on the stack of its thread; on top of it if it executes no *)
(* task at the moment.                                                     *)
OnStack(f) == pc[f] \notin {"unborn", "fresh", "queued", "over"}
OnTop(f) == OnStack(f) /\ pc[f] # "exec"

(* A running task lies on the frame that executes it, on the same thread,  *)
(* and no other task does; a thread has one frame on top.                  *)
StackInv ==
    /\ \A f \in Frames : OnStack(f) => host[f] \in Threads
    /\ \A t \in Tasks : OnStack(t) =>
          /\ parent[t] \in Frames
          /\ pc[parent[t]] = "exec"
          /\ host[parent[t]] = host[t]
    /\ \A t, u \in Tasks : OnStack(t) /\ OnStack(u) /\ parent[t] = parent[u] => t = u
    /\ \A f, g \in Frames : OnTop(f) /\ OnTop(g) /\ host[f] = host[g] => f = g

Submitting(x) == pc[x] \in {"count", "enqueue"}

(* What is in the queue is there once; what is being submitted is not yet, *)
(* and by one frame.                                                       *)
QueueInv ==
    /\ \A i \in 1..Len(queue) : pc[queue[i]] = "queued"
    /\ \A i, j \in 1..Len(queue) : queue[i] = queue[j] => i = j
    /\ \A x \in Clients : Submitting(x) => pc[arg[x]] = "fresh"
    /\ \A x, y \in Clients :
          Submitting(x) /\ Submitting(y) /\ arg[x] = arg[y] => x = y

LEMMA StackKept ==
    ASSUME StackInv, UNCHANGED <<host, parent>>,
           \A f \in Frames : /\ OnStack(f)' <=> OnStack(f)
                             /\ pc'[f] = "exec" <=> pc[f] = "exec"
    PROVE  StackInv'
BY DEF StackInv, OnTop, Frames

LEMMA StackInit == Init => StackInv
BY TaskPoolAssumption DEF Init, StackInv, OnStack, OnTop, Frames, Threads

(* Starting a task puts it on top of the frame that executes it.           *)
LEMMA RunTaskStacks ==
    ASSUME TypeInv, StackInv, QueueInv, NEW x \in Workers \cup Clients,
           NEW i \in 1..Len(queue), pc[x] \in {"poll", "steal"}, RunTask(x, i)
    PROVE  StackInv'
<1> USE TaskPoolAssumption DEF Threads, Clients, Frames, OnStack, OnTop
<1>1. PICK t \in Tasks : t = queue[i]
  BY DEF TypeInv, TypeOK
<1>2. pc[t] = "queued" /\ x \in Frames /\ host[x] \in Threads /\ t # x
  BY <1>1 DEF QueueInv, StackInv
<1>3. /\ \A f \in Frames :
            pc'[f] = IF f = t THEN "client" ELSE IF f = x THEN "exec" ELSE pc[f]
      /\ \A f \in Frames : host'[f] = IF f = t THEN host[x] ELSE host[f]
      /\ \A u \in Tasks : parent'[u] = IF u = t THEN x ELSE parent[u]
  BY <1>1 DEF RunTask, TypeInv, TypeOK
<1>4. \A f \in Frames : OnStack(f)' => host'[f] \in Threads
  BY <1>2, <1>3 DEF StackInv
<1>5. ASSUME NEW u \in Tasks, OnStack(u)'
      PROVE  parent'[u] \in Frames /\ pc'[parent'[u]] = "exec" /\ host'[parent'[u]] = host'[u]
  BY <1>2, <1>3, <1>5 DEF StackInv
<1>6. ASSUME NEW u \in Tasks, NEW v \in Tasks, OnStack(u)', OnStack(v)', parent'[u] = parent'[v]
      PROVE  u = v
  BY <1>2, <1>3, <1>6 DEF StackInv
<1>7. ASSUME NEW f \in Frames, NEW g \in Frames, OnTop(f)', OnTop(g)', host'[f] = host'[g]
      PROVE  f = g
  BY <1>2, <1>3, <1>7 DEF StackInv
<1>8. QED
  BY <1>4, <1>5, <1>6, <1>7 DEF StackInv

LEMMA StackNext == TypeInv /\ StackInv /\ QueueInv /\ [Next]_vars => StackInv'
<1> SUFFICES ASSUME TypeInv, StackInv, QueueInv, [Next]_vars PROVE StackInv'
  OBVIOUS
<1> USE TaskPoolAssumption DEF Threads, Clients, Frames, TypeInv, TypeOK, OnStack, handleVars
<1>1. ASSUME NEW x \in Clients, NEW g \in Groups, CreateGroup(x, g)
      PROVE  StackInv'
  BY <1>1, StackKept DEF CreateGroup
<1>2. ASSUME NEW x \in Clients, NEW t \in Tasks, NEW g \in Groups \cup {None},
             SubmitTask(x, t, g)
      PROVE  StackInv'
  BY <1>2, StackKept DEF SubmitTask, InClient
<1>3. ASSUME NEW x \in Clients, NEW t \in Tasks, ReleaseTask(x, t) PROVE StackInv'
  BY <1>3, StackKept DEF ReleaseTask
<1>4. ASSUME NEW x \in Clients, NEW h \in Tasks \cup Groups, BeginWait(x, h)
      PROVE  StackInv'
  BY <1>4, StackKept DEF BeginWait, InClient
<1>5. ASSUME NEW x \in Clients, CountTask(x) PROVE StackInv'
  BY <1>5, StackKept DEF CountTask
<1>6. ASSUME NEW x \in Clients, Enqueue(x) PROVE StackInv'
  BY <1>6, StackKept DEF Enqueue, WakeStealer, NotifyOne, QueueInv, Submitting, ArgInv
<1>7. ASSUME NEW x \in Clients, TestDone(x) PROVE StackInv'
  BY <1>7, StackKept DEF TestDone, Goto
<1>8. ASSUME NEW x \in Clients, StealTask(x) PROVE StackInv'
  BY <1>8, StackKept, RunTaskStacks DEF StealTask, Goto, Eligible
<1>9. ASSUME NEW x \in Clients, LockAndCheck(x) PROVE StackInv'
  BY <1>9, StackKept DEF LockAndCheck, Goto
<1>10. ASSUME NEW x \in Clients, FallAsleep(x) PROVE StackInv'
  BY <1>10, StackKept DEF FallAsleep, Goto
<1>11. ASSUME NEW x \in Clients, EndWait(x) PROVE StackInv'
  BY <1>11, StackKept DEF EndWait
<1>12. ASSUME NEW w \in Workers, Poll(w) PROVE StackInv'
  BY <1>12, StackKept, RunTaskStacks DEF Poll, Goto
<1>13. ASSUME NEW t \in Tasks, FinishCallback(t) PROVE StackInv'
  BY <1>13, StackKept DEF FinishCallback
<1>14. ASSUME NEW t \in Tasks, PublishDone(t) PROVE StackInv'
  BY <1>14, StackKept DEF PublishDone
<1>15. ASSUME NEW t \in Tasks, DropPoolRef(t) PROVE StackInv'
  BY <1>15, StackKept DEF DropPoolRef
<1>16. ASSUME NEW t \in Tasks, LeaveGroup(t) PROVE StackInv'
  BY <1>16, StackKept DEF LeaveGroup
<1>17. ASSUME NEW t \in Tasks, UncountTask(t) PROVE StackInv'
  BY <1>17, StackKept DEF UncountTask
<1>18. ASSUME NEW t \in Tasks, NotifyDone(t) PROVE StackInv'
  <2>1. /\ parent[t] \in Frames /\ pc[parent[t]] = "exec"
        /\ host[parent[t]] = host[t] /\ parent[t] # t
    BY <1>18 DEF NotifyDone, StackInv
  <2>2. /\ \A f \in Frames : OnStack(f)' <=> OnStack(f) /\ f # t
        /\ \A f \in Frames : pc'[f] = "exec" <=> pc[f] = "exec" /\ f # parent[t]
        /\ host' = host /\ parent' = parent
    BY <1>18, <2>1 DEF NotifyDone, WakeStealer, Resume
  <2>3. OnTop(t)
    BY <1>18 DEF NotifyDone, OnTop
  <2>4. QED
    BY <2>1, <2>2, <2>3 DEF StackInv, OnTop
<1>19. ASSUME NEW f \in Frames, WakeSpuriously(f) PROVE StackInv'
  BY <1>19, StackKept DEF WakeSpuriously
<1>20. ASSUME NEW c \in Callers, BeginDestroy(c) PROVE StackInv'
  BY <1>20, StackKept DEF BeginDestroy
<1>21. ASSUME NEW c \in Callers, StopWorkers(c) PROVE StackInv'
  BY <1>21, StackKept DEF StopWorkers
<1>22. ASSUME NEW c \in Callers, JoinWorkers(c) PROVE StackInv'
  BY <1>22, StackKept DEF JoinWorkers
<1>23. CASE UNCHANGED vars
  BY <1>23, StackKept DEF vars
<1>24. QED
  BY <1>1, <1>2, <1>3, <1>4, <1>5, <1>6, <1>7, <1>8, <1>9, <1>10, <1>11, <1>12, <1>13,
     <1>14, <1>15, <1>16, <1>17, <1>18, <1>19, <1>20, <1>21, <1>22, <1>23
  DEF Next, ClientCall, SubmitStep, WaitStep, TaskStep, Destroyed

-----------------------------------------------------------------------------
LEMMA QueueInit == Init => QueueInv
BY TaskPoolAssumption DEF Init, QueueInv, Submitting, Frames, Threads, Clients

(* A step that leaves the queue alone, queues nothing and submits nothing. *)
LEMMA QueueKept ==
    ASSUME TypeInv, QueueInv, queue' = queue,
           \A t \in Tasks : pc[t] = "queued" => pc'[t] = "queued",
           \A t \in Tasks : pc[t] = "fresh" => pc'[t] = "fresh",
           \A x \in Clients : Submitting(x)' => Submitting(x) /\ arg'[x] = arg[x]
    PROVE  QueueInv'
<1>1. \A i \in 1..Len(queue) : queue[i] \in Tasks
  BY DEF TypeInv, TypeOK
<1>2. \A x \in Clients : Submitting(x) => arg[x] \in Tasks
  BY DEF TypeInv, ArgInv, Submitting
<1>3. QED
  BY <1>1, <1>2 DEF QueueInv

(* A task that starts leaves the queue.                                    *)
LEMMA RunTaskDequeues ==
    ASSUME TypeInv, QueueInv, NEW x \in Workers \cup Clients,
           NEW i \in 1..Len(queue), pc[x] \in {"poll", "steal"}, RunTask(x, i)
    PROVE  QueueInv'
<1> USE TaskPoolAssumption DEF Threads, Clients, Frames
<1>1. PICK t \in Tasks : t = queue[i]
  BY DEF TypeInv, TypeOK
<1>2. pc[t] = "queued" /\ x \in Frames /\ t # x
  BY <1>1 DEF QueueInv
<1>3. /\ \A f \in Frames :
            pc'[f] = IF f = t THEN "client" ELSE IF f = x THEN "exec" ELSE pc[f]
      /\ arg' = arg
  BY <1>1 DEF RunTask, TypeInv, TypeOK
<1>4. /\ Len(queue') = Len(queue) - 1
      /\ \A j \in 1..(Len(queue) - 1) :
            queue'[j] = IF j < i THEN queue[j] ELSE queue[j + 1]
  <2>1. queue' = RemoveAt(queue, i) /\ queue \in Seq(Tasks)
    BY DEF RunTask, TypeInv, TypeOK
  <2>2. QED
    BY ONLY <2>1, RemoveAtProperties, i \in 1..Len(queue)
<1>5. Len(queue) \in Nat /\ \A j \in 1..Len(queue) : queue[j] \in Tasks
  BY DEF TypeInv, TypeOK
<1>6. ASSUME NEW j \in 1..Len(queue') PROVE pc'[queue'[j]] = "queued"
  <2>1. PICK k \in 1..Len(queue) : queue'[j] = queue[k] /\ k # i
    BY <1>4, <1>5
  <2>2. queue[k] # t /\ pc[queue[k]] = "queued"
    BY <1>1, <2>1 DEF QueueInv
  <2>3. QED
    BY <1>2, <1>3, <1>5, <2>1, <2>2
<1>7. ASSUME NEW j \in 1..Len(queue'), NEW k \in 1..Len(queue'), queue'[j] = queue'[k]
      PROVE  j = k
  BY <1>4, <1>5, <1>7 DEF QueueInv
<1>8. \A y \in Clients : Submitting(y)' => Submitting(y) /\ arg[y] \in Tasks
  BY <1>2, <1>3 DEF Submitting, TypeInv, ArgInv
<1>9. \A y \in Clients : Submitting(y)' => pc'[arg'[y]] = "fresh"
  BY <1>2, <1>3, <1>8 DEF QueueInv
<1>10. QED
  BY <1>3, <1>6, <1>7, <1>8, <1>9 DEF QueueInv

LEMMA QueueNext == TypeInv /\ StackInv /\ QueueInv /\ [Next]_vars => QueueInv'
<1> SUFFICES ASSUME TypeInv, StackInv, QueueInv, [Next]_vars PROVE QueueInv'
  OBVIOUS
<1> USE TaskPoolAssumption DEF Threads, Clients, Frames, TypeInv, TypeOK, ArgInv,
        Submitting, handleVars
<1>1. ASSUME NEW x \in Clients, NEW g \in Groups, CreateGroup(x, g)
      PROVE  QueueInv'
  BY <1>1, QueueKept DEF CreateGroup
<1>2. ASSUME NEW x \in Clients, NEW t \in Tasks, NEW g \in Groups \cup {None},
             SubmitTask(x, t, g)
      PROVE  QueueInv'
  <2>1. /\ x \in Frames /\ t # x /\ pc[x] = "client" /\ pc[t] = "unborn"
        /\ queue' = queue
        /\ \A f \in Frames :
              pc'[f] = IF f = t THEN "fresh" ELSE IF f = x THEN "count" ELSE pc[f]
        /\ \A y \in Clients : arg'[y] = IF y = x THEN t ELSE arg[y]
    BY <1>2 DEF SubmitTask, InClient
  <2>2. \A y \in Clients \ {x} : Submitting(y)' => Submitting(y) /\ arg[y] # t /\ arg[y] # x
    BY <2>1 DEF QueueInv
  <2>3. /\ \A i \in 1..Len(queue') : pc'[queue'[i]] = "queued"
        /\ \A i, j \in 1..Len(queue') : queue'[i] = queue'[j] => i = j
    <3>1. \A i \in 1..Len(queue) : queue[i] \in Frames /\ pc[queue[i]] = "queued"
      BY DEF QueueInv
    <3>2. \A i, j \in 1..Len(queue) : queue[i] = queue[j] => i = j
      BY DEF QueueInv
    <3>3. QED
      BY ONLY <2>1, <3>1, <3>2
  <2>4. \A y \in Clients : Submitting(y)' => pc'[arg'[y]] = "fresh"
    <3>1. \A y \in Clients : Submitting(y) => arg[y] \in Frames /\ pc[arg[y]] = "fresh"
      BY DEF QueueInv
    <3>2. t \in Frames /\ \A y \in Clients \ {x} :
             arg'[y] = arg[y] /\ Submitting(y)' => Submitting(y)
      BY <2>1, <2>2
    <3>3. QED
      BY ONLY <2>1, <2>2, <3>1, <3>2
  <2>5. \A y, z \in Clients :
           Submitting(y)' /\ Submitting(z)' /\ arg'[y] = arg'[z] => y = z
    <3>1. \A y, z \in Clients : Submitting(y) /\ Submitting(z) /\ arg[y] = arg[z] => y = z
      BY DEF QueueInv
    <3>2. \A y \in Clients \ {x} : arg'[y] = arg[y] /\ Submitting(y)' => Submitting(y)
      BY <2>1, <2>2
    <3>3. arg'[x] = t /\ \A y \in Clients \ {x} : Submitting(y)' => arg'[y] # t
      BY <2>1, <2>2
    <3>4. QED
      BY ONLY <3>1, <3>2, <3>3, <2>2, <2>1
  <2>6. QED
    BY <2>3, <2>4, <2>5 DEF QueueInv
<1>3. ASSUME NEW x \in Clients, NEW t \in Tasks, ReleaseTask(x, t) PROVE QueueInv'
  BY <1>3, QueueKept DEF ReleaseTask
<1>4. ASSUME NEW x \in Clients, NEW h \in Tasks \cup Groups, BeginWait(x, h)
      PROVE  QueueInv'
  BY <1>4, QueueKept DEF BeginWait, InClient
<1>5. ASSUME NEW x \in Clients, CountTask(x) PROVE QueueInv'
  BY <1>5, QueueKept DEF CountTask
<1>6. ASSUME NEW x \in Clients, Enqueue(x) PROVE QueueInv'
  <2>1. /\ x \in Frames /\ arg[x] \in Tasks /\ pc[arg[x]] = "fresh" /\ arg[x] # x
        /\ queue' = Append(queue, arg[x])
        /\ \A y \in Clients \ {x} : arg'[y] = arg[y]
    BY <1>6 DEF Enqueue, QueueInv
  <2>2. /\ pc'[arg[x]] = "queued" /\ pc'[x] = "client"
        /\ \A y \in Clients : y # x => pc'[y] \notin {"count", "enqueue"} \/ pc'[y] = pc[y]
        /\ \A t \in Tasks : t # arg[x] /\ pc[t] \in {"queued", "fresh"} => pc'[t] = pc[t]
    BY <1>6, <2>1 DEF Enqueue, WakeStealer, NotifyOne
  <2>3. /\ Len(queue') = Len(queue) + 1
        /\ \A i \in 1..Len(queue) : queue'[i] = queue[i] /\ queue[i] \in Tasks
        /\ queue'[Len(queue) + 1] = arg[x]
    BY <2>1
  <2>4. /\ \A i \in 1..Len(queue') : pc'[queue'[i]] = "queued"
        /\ \A i, j \in 1..Len(queue') : queue'[i] = queue'[j] => i = j
    <3>1. Len(queue) \in Nat
      OBVIOUS
    <3>2. \A i \in 1..Len(queue) : queue[i] # arg[x] /\ pc'[queue[i]] = "queued"
      BY <2>1, <2>2, <2>3 DEF QueueInv
    <3>3. \A i, j \in 1..Len(queue) : queue[i] = queue[j] => i = j
      BY DEF QueueInv
    <3>4. QED
      BY ONLY <2>2, <2>3, <3>1, <3>2, <3>3
  <2>5. \A y \in Clients : Submitting(y)' =>
            /\ Submitting(y) /\ arg'[y] = arg[y] /\ y # x
            /\ arg[y] # arg[x] /\ pc[arg[y]] = "fresh"
    <3>1. Submitting(x)
      BY <1>6 DEF Enqueue
    <3>2. QED
      BY <2>1, <2>2, <3>1 DEF QueueInv
  <2>6. /\ \A y \in Clients : Submitting(y)' => pc'[arg'[y]] = "fresh"
        /\ \A y, z \in Clients :
              Submitting(y)' /\ Submitting(z)' /\ arg'[y] = arg'[z] => y = z
    BY <2>2, <2>5 DEF QueueInv
  <2>7. QED
    BY <2>4, <2>6 DEF QueueInv
<1>7. ASSUME NEW x \in Clients, TestDone(x) PROVE QueueInv'
  BY <1>7, QueueKept DEF TestDone, Goto
<1>8. ASSUME NEW x \in Clients, StealTask(x) PROVE QueueInv'
  BY <1>8, QueueKept, RunTaskDequeues DEF StealTask, Goto, Eligible
<1>9. ASSUME NEW x \in Clients, LockAndCheck(x) PROVE QueueInv'
  BY <1>9, QueueKept DEF LockAndCheck, Goto
<1>10. ASSUME NEW x \in Clients, FallAsleep(x) PROVE QueueInv'
  BY <1>10, QueueKept DEF FallAsleep, Goto
<1>11. ASSUME NEW x \in Clients, EndWait(x) PROVE QueueInv'
  BY <1>11, QueueKept DEF EndWait
<1>12. ASSUME NEW w \in Workers, Poll(w) PROVE QueueInv'
  BY <1>12, QueueKept, RunTaskDequeues DEF Poll, Goto
<1>13. ASSUME NEW t \in Tasks, FinishCallback(t) PROVE QueueInv'
  BY <1>13, QueueKept DEF FinishCallback
<1>14. ASSUME NEW t \in Tasks, PublishDone(t) PROVE QueueInv'
  BY <1>14, QueueKept DEF PublishDone
<1>15. ASSUME NEW t \in Tasks, DropPoolRef(t) PROVE QueueInv'
  BY <1>15, QueueKept DEF DropPoolRef
<1>16. ASSUME NEW t \in Tasks, LeaveGroup(t) PROVE QueueInv'
  BY <1>16, QueueKept DEF LeaveGroup
<1>17. ASSUME NEW t \in Tasks, UncountTask(t) PROVE QueueInv'
  BY <1>17, QueueKept DEF UncountTask
<1>18. ASSUME NEW t \in Tasks, NotifyDone(t) PROVE QueueInv'
  BY <1>18, QueueKept DEF NotifyDone, WakeStealer, Resume, StackInv, OnStack
<1>19. ASSUME NEW f \in Frames, WakeSpuriously(f) PROVE QueueInv'
  BY <1>19, QueueKept DEF WakeSpuriously
<1>20. ASSUME NEW c \in Callers, BeginDestroy(c) PROVE QueueInv'
  BY <1>20, QueueKept DEF BeginDestroy
<1>21. ASSUME NEW c \in Callers, StopWorkers(c) PROVE QueueInv'
  BY <1>21, QueueKept DEF StopWorkers
<1>22. ASSUME NEW c \in Callers, JoinWorkers(c) PROVE QueueInv'
  BY <1>22 DEF JoinWorkers, QueueInv
<1>23. CASE UNCHANGED vars
  BY <1>23, QueueKept DEF vars
<1>24. QED
  BY <1>1, <1>2, <1>3, <1>4, <1>5, <1>6, <1>7, <1>8, <1>9, <1>10, <1>11, <1>12, <1>13,
     <1>14, <1>15, <1>16, <1>17, <1>18, <1>19, <1>20, <1>21, <1>22, <1>23
  DEF Next, ClientCall, SubmitStep, WaitStep, TaskStep, Destroyed

-----------------------------------------------------------------------------
(* Where the frames go when a task is queued.                              *)
LEMMA EnqueueMoves ==
    ASSUME TypeInv, QueueInv, NEW x \in Clients, Enqueue(x)
    PROVE  /\ pc[x] = "enqueue" /\ pc'[x] = "client" /\ x # arg[x]
           /\ arg[x] \in Tasks /\ pc[arg[x]] = "fresh" /\ pc'[arg[x]] = "queued"
           /\ arg'[x] = None /\ \A y \in Clients \ {x} : arg'[y] = arg[y]
           /\ \A y \in Clients \ {x, arg[x]} :
                 \/ pc'[y] = pc[y] /\ pc[y] # "asleep"
                 \/ pc[y] = "asleep" /\ pc'[y] = "lock"
<1> USE TaskPoolAssumption DEF Threads, Clients, Frames, TypeInv, TypeOK
<1>1. /\ pc[x] = "enqueue" /\ pc'[x] = "client" /\ x # arg[x]
      /\ arg[x] \in Tasks /\ pc[arg[x]] = "fresh" /\ pc'[arg[x]] = "queued"
      /\ arg'[x] = None /\ \A y \in Clients \ {x} : arg'[y] = arg[y]
  BY DEF Enqueue, QueueInv, Submitting, ArgInv
<1>2. PICK woken \in NotifyOne :
         \A y \in Frames \ {x, arg[x]} :
            pc'[y] = IF y \in woken THEN "poll" ELSE WakeStealer(y)
  BY DEF Enqueue
<1>3. \A y \in woken : y \in Workers
  BY DEF NotifyOne
<1>4. \A y \in Clients : y \in Frames /\ y \notin Workers
  OBVIOUS
<1>5. QED
  BY <1>1, <1>2, <1>3 DEF WakeStealer

(* Where they go when a task has notified its completion.                  *)
LEMMA NotifyMoves ==
    ASSUME TypeInv, StackInv, NEW t \in Tasks, NotifyDone(t)
    PROVE  /\ pc[t] = "notify" /\ pc'[t] = "over"
           /\ \A y \in Frames \ {t} :
                 \/ pc'[y] = pc[y] /\ pc[y] # "asleep"
                 \/ pc[y] = "exec" /\ pc'[y] = Resume(y)
                 \/ pc[y] = "asleep" /\ pc'[y] = "lock"
<1> USE TaskPoolAssumption DEF Threads, Clients, Frames, TypeInv, TypeOK
<1>1. pc[parent[t]] = "exec" /\ parent[t] # t
  BY DEF NotifyDone, StackInv, OnStack
<1>2. \A y \in Frames : pc'[y] = IF y = t THEN "over"
                                 ELSE IF y = parent[t] THEN Resume(y)
                                 ELSE WakeStealer(y)
  BY DEF NotifyDone
<1>3. pc[t] = "notify"
  BY DEF NotifyDone
<1>4. QED
  BY <1>1, <1>2, <1>3 DEF WakeStealer

-----------------------------------------------------------------------------
LEMMA TasksFinite ==
    ASSUME NEW S \in SUBSET Tasks
    PROVE  IsFiniteSet(S) /\ Cardinality(S) \in Nat
BY TaskPoolAssumption, FS_Subset, FS_CardinalityType DEF Frames

Members(g) == {t \in Tasks : group[t] = g /\ Counted(t)}

(* A group that tasks were submitted into was created; its counter counts  *)
(* its tasks from their submission until they leave it.                    *)
GroupInv ==
    /\ \A t \in Tasks : group[t] # None => owner[group[t]] # None
    /\ \A g \in Groups : pending[g] = Cardinality(Members(g))

LEMMA GroupInit == Init => GroupInv
<1> SUFFICES ASSUME Init PROVE GroupInv
  OBVIOUS
<1>1. \A g \in Groups : Members(g) = {}
  BY TaskPoolAssumption DEF Init, Members, Counted, Frames, Threads
<1>2. QED
  BY <1>1, FS_EmptySet DEF Init, GroupInv

LEMMA GroupKept ==
    ASSUME TypeInv, GroupInv, UNCHANGED <<group, owner, pending>>,
           \A t \in Tasks : group[t] # None => (Counted(t)' <=> Counted(t))
    PROVE  GroupInv'
<1>1. \A g \in Groups : Members(g)' = Members(g)
  BY TaskPoolAssumption DEF Members
<1>2. QED
  BY <1>1 DEF GroupInv

(* A step that changes no task's place, or none that counts.               *)
LEMMA CountedKept ==
    ASSUME NEW t \in Tasks, pc'[t] = pc[t] \/
               /\ pc[t] \notin {"unborn", "uncount", "notify", "over"}
               /\ pc'[t] \notin {"unborn", "uncount", "notify", "over"}
    PROVE  Counted(t)' <=> Counted(t)
BY DEF Counted

LEMMA GroupNext == TypeInv /\ StackInv /\ QueueInv /\ GroupInv /\ [Next]_vars => GroupInv'
<1> SUFFICES ASSUME TypeInv, StackInv, QueueInv, GroupInv, [Next]_vars PROVE GroupInv'
  OBVIOUS
<1> USE TaskPoolAssumption DEF Threads, Clients, Frames, TypeInv, TypeOK, handleVars
<1>1. ASSUME NEW x \in Clients, NEW g \in Groups, CreateGroup(x, g)
      PROVE  GroupInv'
  <2>1. /\ owner[g] = None /\ owner' = [owner EXCEPT ![g] = x]
        /\ pending' = [pending EXCEPT ![g] = 0] /\ UNCHANGED <<group, pc>>
    BY <1>1 DEF CreateGroup
  <2>2. \A h \in Groups : Members(h)' = Members(h)
    BY <2>1 DEF Members, Counted
  <2>3. Members(g) = {}
    BY <2>1 DEF Members, GroupInv
  <2>4. QED
    <3>1. \A t \in Tasks : group'[t] # None => owner'[group'[t]] # None
      BY <2>1 DEF GroupInv
    <3>2. Cardinality(Members(g)) = 0
      BY ONLY <2>3, FS_EmptySet
    <3>3. \A h \in Groups : pending'[h] = Cardinality(Members(h))
      BY <2>1, <3>2 DEF GroupInv
    <3>4. QED
      BY <2>2, <3>1, <3>3 DEF GroupInv
<1>2. ASSUME NEW x \in Clients, NEW t \in Tasks, NEW g \in Groups \cup {None},
             SubmitTask(x, t, g)
      PROVE  GroupInv'
  <2>1. /\ pc[t] = "unborn" /\ pc'[t] = "fresh" /\ pc[x] = "client" /\ pc'[x] = "count"
        /\ \A u \in Tasks \ {t, x} : pc'[u] = pc[u]
        /\ group'[t] = g /\ \A u \in Tasks \ {t} : group'[u] = group[u]
        /\ owner' = owner
    BY <1>2 DEF SubmitTask, InClient
  <2>2. \A h \in Groups : pending'[h] = IF h = g THEN pending[h] + 1 ELSE pending[h]
    BY <1>2 DEF SubmitTask
  <2>3. \A h \in Groups : Members(h)' = IF h = g THEN Members(h) \cup {t} ELSE Members(h)
    BY <2>1 DEF Members, Counted
  <2>4. t \notin Members(g)
    BY <2>1 DEF Members, Counted
  <2>5. g # None => owner[g] # None
    BY <1>2 DEF SubmitTask, MaySubmitInto, GroupInv
  <2>6. \A h \in Groups : pending'[h] = Cardinality(Members(h)')
    <3>1. IsFiniteSet(Members(g))
      BY TasksFinite DEF Members
    <3>2. Cardinality(Members(g) \cup {t}) = Cardinality(Members(g)) + 1
      BY ONLY <2>4, <3>1, FS_AddElement
    <3>3. QED
      BY <2>2, <2>3, <3>2 DEF GroupInv
  <2>7. QED
    BY <2>1, <2>5, <2>6 DEF GroupInv
<1>3. ASSUME NEW x \in Clients, NEW t \in Tasks, ReleaseTask(x, t) PROVE GroupInv'
  BY <1>3, GroupKept, CountedKept DEF ReleaseTask
<1>4. ASSUME NEW x \in Clients, NEW h \in Tasks \cup Groups, BeginWait(x, h)
      PROVE  GroupInv'
  BY <1>4, GroupKept, CountedKept DEF BeginWait, InClient
<1>5. ASSUME NEW x \in Clients, CountTask(x) PROVE GroupInv'
  BY <1>5, GroupKept, CountedKept DEF CountTask
<1>6. ASSUME NEW x \in Clients, Enqueue(x) PROVE GroupInv'
  <2>1. \A t \in Tasks :
           \/ pc'[t] = pc[t]
           \/ pc[t] \in {"enqueue", "fresh", "asleep"} /\ pc'[t] \in {"client", "queued", "lock"}
    BY <1>6 DEF Enqueue, WakeStealer, NotifyOne, QueueInv, Submitting, ArgInv
  <2>2. UNCHANGED <<group, owner, pending>>
    BY <1>6 DEF Enqueue
  <2>3. QED
    BY <2>1, <2>2, GroupKept, CountedKept
<1>7. ASSUME NEW x \in Clients, TestDone(x) PROVE GroupInv'
  BY <1>7, GroupKept, CountedKept DEF TestDone, Goto
<1>8. ASSUME NEW x \in Workers \cup Clients, NEW i \in 1..Len(queue), RunTask(x, i),
             pc[x] \in {"poll", "steal"}
      PROVE  GroupInv'
  <2>1. PICK t \in Tasks : t = queue[i] /\ pc[t] = "queued"
    BY DEF QueueInv
  <2>2. /\ UNCHANGED <<group, owner, pending>>
        /\ \A u \in Tasks : pc'[u] \in {pc[u], "client", "exec"} /\ (pc'[u] = pc[u] \/ u \in {t, x})
    BY <1>8, <2>1 DEF RunTask
  <2>3. QED
    BY <1>8, <2>1, <2>2, GroupKept, CountedKept
<1>9. ASSUME NEW x \in Clients, StealTask(x) PROVE GroupInv'
  <2>1. CASE \E i \in Eligible(x) : RunTask(x, i)
    BY <1>8, <1>9, <2>1 DEF StealTask, Eligible
  <2>2. CASE Goto(x, "lock")
    BY <1>9, <2>2, GroupKept, CountedKept DEF StealTask, Goto
  <2>3. QED
    BY <1>9, <2>1, <2>2 DEF StealTask
<1>10. ASSUME NEW x \in Clients, LockAndCheck(x) PROVE GroupInv'
  <2>1. PICK l \in {"test", "sleep"} : Goto(x, l)
    BY <1>10 DEF LockAndCheck
  <2>2. QED
    BY <1>10, <2>1, GroupKept, CountedKept DEF LockAndCheck, Goto
<1>11. ASSUME NEW x \in Clients, FallAsleep(x) PROVE GroupInv'
  BY <1>11, GroupKept, CountedKept DEF FallAsleep, Goto
<1>12. ASSUME NEW x \in Clients, EndWait(x) PROVE GroupInv'
  BY <1>12, GroupKept, CountedKept DEF EndWait, ArgInv
<1>13. ASSUME NEW w \in Workers, Poll(w) PROVE GroupInv'
  BY <1>8, <1>13, GroupKept, CountedKept DEF Poll, Goto
<1>14. ASSUME NEW t \in Tasks, FinishCallback(t) PROVE GroupInv'
  BY <1>14, GroupKept, CountedKept DEF FinishCallback
<1>15. ASSUME NEW t \in Tasks, PublishDone(t) PROVE GroupInv'
  BY <1>15, GroupKept, CountedKept DEF PublishDone
<1>16. ASSUME NEW t \in Tasks, DropPoolRef(t) PROVE GroupInv'
  BY <1>16, GroupKept, CountedKept DEF DropPoolRef
<1>17. ASSUME NEW t \in Tasks, LeaveGroup(t) PROVE GroupInv'
  <2>1. /\ pc[t] = "ungroup" /\ pc'[t] = "uncount" /\ UNCHANGED <<group, owner>>
        /\ \A u \in Tasks \ {t} : pc'[u] = pc[u]
    BY <1>17 DEF LeaveGroup
  <2>2. \A h \in Groups : pending'[h] = IF h = group[t] THEN pending[h] - 1 ELSE pending[h]
    BY <1>17 DEF LeaveGroup
  <2>3. \A h \in Groups :
           /\ Members(h)' = IF h = group[t] THEN Members(h) \ {t} ELSE Members(h)
           /\ h = group[t] => t \in Members(h)
    BY <2>1 DEF Members, Counted
  <2>4. \A h \in Groups : IsFiniteSet(Members(h))
    BY TasksFinite DEF Members
  <2>5. \A h \in Groups :
           h = group[t] => Cardinality(Members(h) \ {t}) = Cardinality(Members(h)) - 1
    BY ONLY <2>3, <2>4, FS_RemoveElement
  <2>6. \A h \in Groups : pending'[h] = Cardinality(Members(h)')
    <3>1. \A h \in Groups : pending[h] = Cardinality(Members(h))
      BY DEF GroupInv
    <3>2. QED
      BY ONLY <2>2, <2>3, <2>5, <3>1
  <2>7. QED
    BY <2>1, <2>6 DEF GroupInv
<1>18. ASSUME NEW t \in Tasks, UncountTask(t) PROVE GroupInv'
  BY <1>18, GroupKept, CountedKept DEF UncountTask, Counted
<1>19. ASSUME NEW t \in Tasks, NotifyDone(t) PROVE GroupInv'
  BY <1>19, GroupKept, CountedKept
  DEF NotifyDone, WakeStealer, Resume, Counted, StackInv, OnStack
<1>20. ASSUME NEW f \in Frames, WakeSpuriously(f) PROVE GroupInv'
  BY <1>20, GroupKept, CountedKept DEF WakeSpuriously
<1>21. ASSUME NEW c \in Callers, BeginDestroy(c) PROVE GroupInv'
  BY <1>21, GroupKept, CountedKept DEF BeginDestroy
<1>22. ASSUME NEW c \in Callers, StopWorkers(c) PROVE GroupInv'
  BY <1>22, GroupKept, CountedKept DEF StopWorkers
<1>23. ASSUME NEW c \in Callers, JoinWorkers(c) PROVE GroupInv'
  BY <1>23, GroupKept, CountedKept DEF JoinWorkers
<1>24. CASE UNCHANGED vars
  BY <1>24, GroupKept, CountedKept DEF vars
<1>25. QED
  BY <1>1, <1>2, <1>3, <1>4, <1>5, <1>6, <1>7, <1>9, <1>10, <1>11, <1>12, <1>13, <1>14,
     <1>15, <1>16, <1>17, <1>18, <1>19, <1>20, <1>21, <1>22, <1>23, <1>24
  DEF Next, ClientCall, SubmitStep, WaitStep, TaskStep, Destroyed

-----------------------------------------------------------------------------
Untallied == {"unborn", "fresh", "notify", "over"}

(* The tasks counted in m_tasksRemaining.                                  *)
Tallied ==
    {t \in Tasks : \/ pc[t] \notin Untallied
                   \/ \E x \in Clients : pc[x] = "enqueue" /\ arg[x] = t}

(* A task that is not queued yet is being submitted; no caller submits     *)
(* while ~Pool runs.                                                       *)
TallyInv ==
    /\ remaining = Cardinality(Tallied)
    /\ \A t \in Tasks : pc[t] = "fresh" => \E x \in Clients : Submitting(x) /\ arg[x] = t
    /\ Closing => \A c \in Callers : ~Submitting(c)

LEMMA TallyInit == Init => TallyInv
<1> SUFFICES ASSUME Init PROVE TallyInv
  OBVIOUS
<1> USE TaskPoolAssumption DEF Init, Frames, Threads, Clients
<1>1. Tallied = {}
  BY DEF Tallied, Untallied
<1>2. QED
  BY <1>1, FS_EmptySet DEF TallyInv, Closing

(* A step in which no task starts or stops to count and nobody submits.    *)
LEMMA TallyKept ==
    ASSUME TypeInv, QueueInv, TallyInv, remaining' = remaining,
           \A t \in Tasks : /\ pc'[t] \in Untallied <=> pc[t] \in Untallied
                            /\ pc'[t] = "fresh" => pc[t] = "fresh",
           \A x \in Clients : \/ pc'[x] = pc[x] /\ arg'[x] = arg[x]
                              \/ ~Submitting(x) /\ ~Submitting(x)',
           \A c \in Callers : arg'[c] = Pool <=> arg[c] = Pool
    PROVE  TallyInv'
<1>1. Tallied' = Tallied
  BY DEF Tallied, Submitting
<1>2. \A t \in Tasks : pc'[t] = "fresh" => \E x \in Clients : Submitting(x)' /\ arg'[x] = t
  BY DEF TallyInv, Submitting
<1>3. Closing' => \A c \in Callers : ~Submitting(c)'
  BY DEF TallyInv, Closing, Submitting, Clients
<1>4. QED
  BY <1>1, <1>2, <1>3 DEF TallyInv

(* The same for a step in which only frames of no such place move.         *)
LEMMA TallyMoved ==
    ASSUME TypeInv, QueueInv, TallyInv, remaining' = remaining,
           \A x \in Clients :
              \/ pc'[x] = pc[x] /\ arg'[x] = arg[x]
              \/ /\ pc[x] \notin Untallied \cup {"count", "enqueue"}
                 /\ pc'[x] \notin Untallied \cup {"count", "enqueue"},
           \A c \in Callers : arg'[c] = Pool <=> arg[c] = Pool
    PROVE  TallyInv'
<1>1. \A t \in Tasks : /\ pc'[t] \in Untallied <=> pc[t] \in Untallied
                       /\ pc'[t] = "fresh" => pc[t] = "fresh"
  BY DEF Clients, Untallied
<1>2. \A x \in Clients : \/ pc'[x] = pc[x] /\ arg'[x] = arg[x]
                         \/ ~Submitting(x) /\ ~Submitting(x)'
  BY DEF Submitting
<1>3. QED
  BY ONLY <1>1, <1>2, TallyKept, TypeInv, QueueInv, TallyInv, remaining' = remaining,
          \A c \in Callers : arg'[c] = Pool <=> arg[c] = Pool

LEMMA TallyNext == TypeInv /\ StackInv /\ QueueInv /\ TallyInv /\ [Next]_vars => TallyInv'
<1> SUFFICES ASSUME TypeInv, StackInv, QueueInv, TallyInv, [Next]_vars PROVE TallyInv'
  OBVIOUS
<1> USE TaskPoolAssumption DEF Threads, Clients, Frames, TypeInv, TypeOK, handleVars, Untallied
<1>1. ASSUME NEW x \in Clients, NEW g \in Groups, CreateGroup(x, g)
      PROVE  TallyInv'
  BY <1>1, TallyMoved DEF CreateGroup
<1>2. ASSUME NEW x \in Clients, NEW t \in Tasks, NEW g \in Groups \cup {None},
             SubmitTask(x, t, g)
      PROVE  TallyInv'
  <2>1. /\ pc[t] = "unborn" /\ pc'[t] = "fresh" /\ pc[x] = "client" /\ pc'[x] = "count"
        /\ \A y \in Clients \ {t, x} : pc'[y] = pc[y] /\ arg'[y] = arg[y]
        /\ arg'[t] = arg[t] /\ arg'[x] = t /\ remaining' = remaining
        /\ x \in Callers => ~Closing
    BY <1>2 DEF SubmitTask, InClient
  <2>2. \A y \in Clients : Submitting(y) => arg[y] # t
    BY <2>1 DEF QueueInv
  <2>3. \A y \in Clients : pc'[y] = "enqueue" <=> pc[y] = "enqueue"
    BY <2>1
  <2>4. \A y \in Clients : Submitting(y) => Submitting(y)' /\ arg'[y] = arg[y] /\ y # x
    BY <2>1 DEF Submitting
  <2>5. Tallied' = Tallied
    <3>1. \A u \in Tasks : pc'[u] \in Untallied <=> pc[u] \in Untallied
      BY <2>1
    <3>2. \A y \in Clients : pc[y] = "enqueue" => arg'[y] = arg[y]
      BY <2>4 DEF Submitting
    <3>3. QED
      BY ONLY <2>3, <3>1, <3>2 DEF Tallied
  <2>6. \A u \in Tasks : pc'[u] = "fresh" => \E y \in Clients : Submitting(y)' /\ arg'[y] = u
    <3>1. \A u \in Tasks \ {t} : pc'[u] = "fresh" => pc[u] = "fresh"
      BY <2>1
    <3>2. Submitting(x)' /\ arg'[x] = t
      BY <2>1 DEF Submitting
    <3>3. \A u \in Tasks : pc[u] = "fresh" => \E y \in Clients : Submitting(y) /\ arg[y] = u
      BY DEF TallyInv
    <3>4. QED
      BY ONLY <2>4, <3>1, <3>2, <3>3, x \in Clients
  <2>7. Closing' => \A c \in Callers : ~Submitting(c)'
    <3>1. \A c \in Callers : arg'[c] = Pool => arg[c] = Pool
      <4>1. t # Pool /\ Callers \subseteq Clients
        OBVIOUS
      <4>2. QED
        BY ONLY <2>1, <4>1
    <3>2. Closing' => Closing
      BY <3>1 DEF Closing
    <3>3. \A c \in Callers : c # x => (Submitting(c)' <=> Submitting(c))
      BY <2>1 DEF Submitting
    <3>4. QED
      BY <2>1, <3>2, <3>3 DEF TallyInv
  <2>8. QED
    BY <2>1, <2>5, <2>6, <2>7 DEF TallyInv
<1>3. ASSUME NEW x \in Clients, NEW t \in Tasks, ReleaseTask(x, t) PROVE TallyInv'
  BY <1>3, TallyMoved DEF ReleaseTask
<1>4. ASSUME NEW x \in Clients, NEW h \in Tasks \cup Groups, BeginWait(x, h)
      PROVE  TallyInv'
  BY <1>4, TallyMoved DEF BeginWait, InClient, Closing
<1>5. ASSUME NEW x \in Clients, CountTask(x) PROVE TallyInv'
  <2>1. /\ pc[x] = "count" /\ pc'[x] = "enqueue" /\ arg' = arg
        /\ \A y \in Clients \ {x} : pc'[y] = pc[y]
        /\ remaining' = remaining + 1
    BY <1>5 DEF CountTask
  <2>2. arg[x] \in Tasks /\ pc[arg[x]] = "fresh"
    BY <2>1 DEF QueueInv, Submitting, ArgInv
  <2>3. arg[x] \notin Tallied
    BY <2>1, <2>2 DEF Tallied, QueueInv, Submitting
  <2>4. Tallied' = Tallied \cup {arg[x]}
    <3>1. \A u \in Tasks : pc'[u] \in Untallied <=> pc[u] \in Untallied
      BY <2>1
    <3>2. \A y \in Clients : pc'[y] = "enqueue" <=> pc[y] = "enqueue" \/ y = x
      BY <2>1
    <3>3. QED
      BY ONLY <2>1, <2>2, <3>1, <3>2, x \in Clients DEF Tallied
  <2>5. Cardinality(Tallied') = Cardinality(Tallied) + 1
    <3>1. IsFiniteSet(Tallied)
      BY TasksFinite DEF Tallied
    <3>2. QED
      BY ONLY <2>3, <2>4, <3>1, FS_AddElement
  <2>6. \A u \in Tasks : pc'[u] = "fresh" => \E y \in Clients : Submitting(y)' /\ arg'[y] = u
    <3>1. \A u \in Tasks : pc'[u] = "fresh" => pc[u] = "fresh"
      BY <2>1
    <3>2. \A y \in Clients : Submitting(y) => Submitting(y)' /\ arg'[y] = arg[y]
      BY <2>1 DEF Submitting
    <3>3. \A u \in Tasks : pc[u] = "fresh" => \E y \in Clients : Submitting(y) /\ arg[y] = u
      BY DEF TallyInv
    <3>4. QED
      BY ONLY <3>1, <3>2, <3>3
  <2>7. Closing' => \A c \in Callers : ~Submitting(c)'
    BY <2>1 DEF TallyInv, Submitting, Closing
  <2>8. QED
    BY <2>1, <2>5, <2>6, <2>7 DEF TallyInv
<1>6. ASSUME NEW x \in Clients, Enqueue(x) PROVE TallyInv'
  <2>1. /\ pc[x] = "enqueue" /\ pc'[x] = "client" /\ x # arg[x]
        /\ arg[x] \in Tasks /\ pc[arg[x]] = "fresh" /\ pc'[arg[x]] = "queued"
        /\ arg'[x] = None /\ \A y \in Clients \ {x} : arg'[y] = arg[y]
        /\ remaining' = remaining
    BY <1>6, EnqueueMoves DEF Enqueue
  <2>2. \A y \in Clients \ {x, arg[x]} :
           pc'[y] = pc[y] \/ (pc[y] = "asleep" /\ pc'[y] = "lock")
    BY <1>6, EnqueueMoves
  <2>3. \A y \in Clients : Submitting(y)' <=> Submitting(y) /\ y # x
    BY <2>1, <2>2 DEF Submitting
  <2>4. \A y \in Clients : Submitting(y) /\ arg[y] = arg[x] => y = x
    BY <2>1 DEF QueueInv, Submitting
  <2>5. Tallied' = Tallied
    <3>1. \A u \in Tasks \ {arg[x]} : pc'[u] \in Untallied <=> pc[u] \in Untallied
      BY <2>1, <2>2
    <3>2. \A y \in Clients : pc'[y] = "enqueue" <=> pc[y] = "enqueue" /\ y # x
      BY <2>1, <2>2
    <3>3. arg[x] \in Tallied /\ arg[x] \in Tallied'
      BY <2>1 DEF Tallied
    <3>4. ASSUME NEW u \in Tasks \ {arg[x]} PROVE u \in Tallied' <=> u \in Tallied
      <4>1. (\E y \in Clients : pc'[y] = "enqueue" /\ arg'[y] = u)
               <=> (\E y \in Clients : pc[y] = "enqueue" /\ arg[y] = u)
        <5>1. \A y \in Clients \ {x} : arg'[y] = arg[y]
          BY <2>1
        <5>2. u # arg[x]
          OBVIOUS
        <5>3. QED
          BY ONLY <3>2, <5>1, <5>2
      <4>2. pc'[u] \in Untallied <=> pc[u] \in Untallied
        BY <3>1
      <4>3. QED
        BY ONLY <4>1, <4>2, u \in Tasks DEF Tallied
    <3>5. Tallied \subseteq Tasks /\ Tallied' \subseteq Tasks
      BY DEF Tallied
    <3>6. QED
      BY ONLY <3>3, <3>4, <3>5
  <2>6. \A u \in Tasks : pc'[u] = "fresh" => \E y \in Clients : Submitting(y)' /\ arg'[y] = u
    <3>1. ASSUME NEW u \in Tasks, pc'[u] = "fresh"
          PROVE  \E y \in Clients : Submitting(y)' /\ arg'[y] = u
      <4>1. u # arg[x] /\ pc[u] = "fresh"
        BY <2>1, <2>2, <3>1
      <4>2. PICK y \in Clients : Submitting(y) /\ arg[y] = u
        BY <4>1 DEF TallyInv
      <4>3. QED
        BY <2>1, <2>3, <4>1, <4>2
    <3>2. QED
      BY <3>1
  <2>7. Closing' => \A c \in Callers : ~Submitting(c)'
    BY <2>1, <2>3 DEF TallyInv, Closing
  <2>8. QED
    BY <2>1, <2>5, <2>6, <2>7 DEF TallyInv
<1>7. ASSUME NEW x \in Clients, TestDone(x) PROVE TallyInv'
  BY <1>7, TallyMoved DEF TestDone, Goto
<1>8. ASSUME NEW x \in Workers \cup Clients, NEW i \in 1..Len(queue), RunTask(x, i),
             pc[x] \in {"poll", "steal"}
      PROVE  TallyInv'
  <2>1. PICK t \in Tasks : t = queue[i] /\ pc[t] = "queued"
    BY DEF QueueInv
  <2>2. /\ remaining' = remaining /\ arg' = arg
        /\ \A y \in Clients : /\ pc'[y] \in {pc[y], "client", "exec"}
                              /\ pc'[y] = pc[y] \/ y \in {t, x}
    BY <1>8, <2>1 DEF RunTask
  <2>3. QED
    BY <1>8, <2>1, <2>2, TallyMoved
<1>9. ASSUME NEW x \in Clients, StealTask(x) PROVE TallyInv'
  <2>1. CASE \E i \in Eligible(x) : RunTask(x, i)
    BY <1>8, <1>9, <2>1 DEF StealTask, Eligible
  <2>2. CASE Goto(x, "lock")
    BY <1>9, <2>2, TallyMoved DEF StealTask, Goto
  <2>3. QED
    BY <1>9, <2>1, <2>2 DEF StealTask
<1>10. ASSUME NEW x \in Clients, LockAndCheck(x) PROVE TallyInv'
  <2>1. PICK l \in {"test", "sleep"} : Goto(x, l)
    BY <1>10 DEF LockAndCheck
  <2>2. QED
    BY <1>10, <2>1, TallyMoved DEF LockAndCheck, Goto
<1>11. ASSUME NEW x \in Clients, FallAsleep(x) PROVE TallyInv'
  BY <1>11, TallyMoved DEF FallAsleep, Goto
<1>12. ASSUME NEW x \in Clients, EndWait(x) PROVE TallyInv'
  BY <1>12, TallyMoved DEF EndWait
<1>13. ASSUME NEW w \in Workers, Poll(w) PROVE TallyInv'
  BY <1>8, <1>13, TallyMoved DEF Poll, Goto
<1>14. ASSUME NEW t \in Tasks, FinishCallback(t) PROVE TallyInv'
  BY <1>14, TallyMoved DEF FinishCallback
<1>15. ASSUME NEW t \in Tasks, PublishDone(t) PROVE TallyInv'
  BY <1>15, TallyMoved DEF PublishDone
<1>16. ASSUME NEW t \in Tasks, DropPoolRef(t) PROVE TallyInv'
  BY <1>16, TallyMoved DEF DropPoolRef
<1>17. ASSUME NEW t \in Tasks, LeaveGroup(t) PROVE TallyInv'
  BY <1>17, TallyMoved DEF LeaveGroup
<1>18. ASSUME NEW t \in Tasks, UncountTask(t) PROVE TallyInv'
  <2>1. /\ pc[t] = "uncount" /\ pc'[t] = "notify" /\ arg' = arg
        /\ \A y \in Clients \ {t} : pc'[y] = pc[y]
        /\ remaining' = remaining - 1
    BY <1>18 DEF UncountTask
  <2>2. t \in Tallied
    BY <2>1 DEF Tallied
  <2>3. \A y \in Clients : Submitting(y) => arg[y] # t
    BY <2>1 DEF QueueInv
  <2>4. Tallied' = Tallied \ {t}
    BY <2>1, <2>3 DEF Tallied, Submitting
  <2>5. Cardinality(Tallied') = Cardinality(Tallied) - 1
    <3>1. IsFiniteSet(Tallied)
      BY TasksFinite DEF Tallied
    <3>2. QED
      BY ONLY <2>2, <2>4, <3>1, FS_RemoveElement
  <2>6. \A u \in Tasks : pc'[u] = "fresh" => \E y \in Clients : Submitting(y)' /\ arg'[y] = u
    BY <2>1 DEF TallyInv, Submitting
  <2>7. Closing' => \A c \in Callers : ~Submitting(c)'
    BY <2>1 DEF TallyInv, Submitting, Closing
  <2>8. QED
    BY <2>1, <2>5, <2>6, <2>7 DEF TallyInv
<1>19. ASSUME NEW t \in Tasks, NotifyDone(t) PROVE TallyInv'
  <2>1. /\ pc[t] = "notify" /\ pc'[t] = "over"
        /\ \A y \in Frames \ {t} :
              \/ pc'[y] = pc[y] /\ pc[y] # "asleep"
              \/ pc[y] = "exec" /\ pc'[y] = Resume(y)
              \/ pc[y] = "asleep" /\ pc'[y] = "lock"
    <3>1. TypeInv /\ StackInv
      OBVIOUS
    <3>2. QED
      BY ONLY <1>19, <3>1, NotifyMoves, t \in Tasks
  <2>2. remaining' = remaining /\ arg' = arg
    BY <1>19 DEF NotifyDone
  <2>3. QED
    BY <2>1, <2>2, TallyKept DEF Submitting, Resume
<1>20. ASSUME NEW f \in Frames, WakeSpuriously(f) PROVE TallyInv'
  BY <1>20, TallyMoved DEF WakeSpuriously
<1>21. ASSUME NEW c \in Callers, BeginDestroy(c) PROVE TallyInv'
  <2>1. /\ \A y \in Clients \ {c} : pc'[y] = pc[y] /\ arg'[y] = arg[y]
        /\ pc[c] = "client" /\ pc'[c] = "test" /\ remaining' = remaining
        /\ \A d \in Callers : pc[d] = "client"
    BY <1>21 DEF BeginDestroy
  <2>2. Tallied' = Tallied
    BY <2>1 DEF Tallied
  <2>3. \A u \in Tasks : pc'[u] = "fresh" => \E y \in Clients : Submitting(y)' /\ arg'[y] = u
    <3>1. \A y \in Clients : Submitting(y) => Submitting(y)' /\ arg'[y] = arg[y]
      BY <2>1 DEF Submitting
    <3>2. \A u \in Tasks : pc'[u] = "fresh" => pc[u] = "fresh"
      BY <2>1
    <3>3. QED
      BY <3>1, <3>2 DEF TallyInv
  <2>4. \A d \in Callers : ~Submitting(d)'
    BY <2>1 DEF Submitting
  <2>5. QED
    BY <2>1, <2>2, <2>3, <2>4 DEF TallyInv
<1>22. ASSUME NEW c \in Callers, StopWorkers(c) PROVE TallyInv'
  BY <1>22, TallyMoved DEF StopWorkers
<1>23. ASSUME NEW c \in Callers, JoinWorkers(c) PROVE TallyInv'
  BY <1>23, TallyMoved DEF JoinWorkers
<1>24. CASE UNCHANGED vars
  BY <1>24, TallyMoved DEF vars
<1>25. QED
  BY <1>1, <1>2, <1>3, <1>4, <1>5, <1>6, <1>7, <1>9, <1>10, <1>11, <1>12, <1>13, <1>14,
     <1>15, <1>16, <1>17, <1>18, <1>19, <1>20, <1>21, <1>22, <1>23, <1>24
  DEF Next, ClientCall, SubmitStep, WaitStep, TaskStep, Destroyed

-----------------------------------------------------------------------------
(* Whoever waits on a group created it and finds it alive; a wait that     *)
(* returns is still done.                                                  *)
WaitInv ==
    /\ \A x \in Clients : arg[x] \in Groups =>
          pc[x] \in Waiting /\ owner[arg[x]] = x /\ arg[x] \in alive
    /\ \A x \in Clients : pc[x] = "return" => IsDone(x)
    /\ GroupsAlive

LEMMA WaitInit == Init => WaitInv
BY TaskPoolAssumption DEF Init, WaitInv, GroupsAlive, Frames, Threads, Clients

(* A step that neither submits, nor begins, ends or completes anything.    *)
LEMMA WaitKept ==
    ASSUME TypeInv, WaitInv, UNCHANGED <<arg, owner, alive, group, pending, remaining>>,
           \A t \in Tasks : /\ Counted(t)' => Counted(t)
                            /\ done[t] => done'[t],
           \A x \in Clients : /\ pc[x] \in Waiting => pc'[x] \in Waiting
                              /\ pc'[x] = "return" => pc[x] = "return" \/ IsDone(x)
    PROVE  WaitInv'
<1>1. \A x \in Clients : IsDone(x) => IsDone(x)'
  BY DEF IsDone
<1>2. GroupsAlive'
  BY DEF WaitInv, GroupsAlive
<1>3. \A x \in Clients : arg'[x] \in Groups =>
          pc'[x] \in Waiting /\ owner'[arg'[x]] = x /\ arg'[x] \in alive'
  BY DEF WaitInv
<1>4. \A x \in Clients : pc'[x] = "return" => IsDone(x)'
  BY <1>1 DEF WaitInv
<1>5. QED
  BY <1>2, <1>3, <1>4 DEF WaitInv

(* Nobody counts in a group whose counter is zero, or in the pool's.       *)
LEMMA GroupEmpty ==
    ASSUME GroupInv, NEW g \in Groups, pending[g] = 0, NEW t \in Tasks, group[t] = g
    PROVE  ~Counted(t)
<1>1. IsFiniteSet(Members(g)) /\ Cardinality(Members(g)) = 0
  BY TasksFinite DEF Members, GroupInv
<1>2. Members(g) = {}
  BY <1>1, FS_EmptySet
<1>3. QED
  BY <1>2 DEF Members

LEMMA PoolEmpty ==
    ASSUME TallyInv, remaining = 0
    PROVE  Tallied = {}
<1>1. IsFiniteSet(Tallied) /\ Cardinality(Tallied) = 0
  BY TasksFinite DEF Tallied, TallyInv
<1>2. QED
  BY <1>1, FS_EmptySet

LEMMA WaitNext ==
    TypeInv /\ StackInv /\ QueueInv /\ GroupInv /\ TallyInv /\ WaitInv /\ [Next]_vars => WaitInv'
<1> SUFFICES ASSUME TypeInv, StackInv, QueueInv, GroupInv, TallyInv, WaitInv, [Next]_vars
             PROVE  WaitInv'
  OBVIOUS
<1> USE TaskPoolAssumption DEF Threads, Clients, Frames, TypeInv, TypeOK, handleVars, Waiting
<1>1. ASSUME NEW x \in Clients, NEW g \in Groups, CreateGroup(x, g)
      PROVE  WaitInv'
  <2>1. /\ owner[g] = None /\ UNCHANGED <<pc, arg, group, done, remaining>>
        /\ \A h \in Groups \ {g} : owner'[h] = owner[h] /\ pending'[h] = pending[h]
        /\ pending'[g] = 0 /\ alive' = alive \cup {g}
    BY <1>1 DEF CreateGroup
  <2>2. \A y \in Clients : arg[y] \in Groups => arg[y] # g
    BY <2>1 DEF WaitInv
  <2>3. \A y \in Clients : IsDone(y) => IsDone(y)'
    BY <2>1 DEF IsDone
  <2>4. GroupsAlive'
    BY <2>1 DEF GroupsAlive, WaitInv, Counted
  <2>5. QED
    BY <2>1, <2>2, <2>3, <2>4 DEF WaitInv
<1>2. ASSUME NEW x \in Clients, NEW t \in Tasks, NEW g \in Groups \cup {None},
             SubmitTask(x, t, g)
      PROVE  WaitInv'
  <2>1. /\ pc[t] = "unborn" /\ pc'[t] = "fresh" /\ pc[x] = "client" /\ pc'[x] = "count"
        /\ \A y \in Clients \ {t, x} : pc'[y] = pc[y]
        /\ arg'[x] = t /\ \A y \in Clients \ {x} : arg'[y] = arg[y]
        /\ group'[t] = g /\ \A u \in Tasks \ {t} : group'[u] = group[u]
        /\ UNCHANGED <<owner, alive, done, remaining>>
    BY <1>2 DEF SubmitTask, InClient
  <2>2. \A h \in Groups : pending'[h] = IF h = g THEN pending[h] + 1 ELSE pending[h]
    BY <1>2 DEF SubmitTask
  <2>3. g = None \/ (g \in alive /\ owner[g] = x) \/ (x \in Tasks /\ group[x] = g /\ Counted(x))
    BY <1>2, <2>1 DEF SubmitTask, MaySubmitInto, Counted
  <2>4. g # None => g \in alive
    BY <2>3 DEF WaitInv, GroupsAlive
  <2>5. GroupsAlive'
    <3>1. \A u \in Tasks \ {t} : Counted(u)' => Counted(u)
      BY <2>1 DEF Counted
    <3>2. QED
      <4>1. \A u \in Tasks : Counted(u) /\ group[u] # None => group[u] \in alive
        BY DEF WaitInv, GroupsAlive
      <4>2. group'[t] # None => group'[t] \in alive'
        BY <2>1, <2>4
      <4>3. \A u \in Tasks \ {t} : group'[u] = group[u] /\ alive' = alive
        BY <2>1
      <4>4. \A u \in Tasks : Counted(u)' /\ group'[u] # None => group'[u] \in alive'
        BY ONLY <3>1, <4>1, <4>2, <4>3
      <4>5. QED
        BY <4>4 DEF GroupsAlive
  <2>6. ASSUME NEW y \in Clients, pc'[y] = "return" PROVE IsDone(y)'
    <3>1. pc[y] = "return" /\ y # x /\ arg'[y] = arg[y] /\ IsDone(y)
      BY <2>1, <2>6 DEF WaitInv
    <3>2. arg[y] \in Groups /\ pending[arg[y]] = 0 => arg[y] # g
      BY <2>3, <3>1, GroupEmpty DEF WaitInv
    <3>3. QED
      BY <2>1, <2>2, <3>1, <3>2 DEF IsDone
  <2>7. \A y \in Clients : arg'[y] \in Groups =>
           pc'[y] \in Waiting /\ owner'[arg'[y]] = y /\ arg'[y] \in alive'
    <3>1. \A y \in Clients : arg'[y] \in Groups => arg'[y] = arg[y] /\ pc[y] \in Waiting
      BY <2>1 DEF WaitInv
    <3>2. \A y \in Clients : pc[y] \in Waiting => pc'[y] \in Waiting
      BY <2>1
    <3>3. QED
      BY <2>1, <3>1, <3>2 DEF WaitInv
  <2>8. QED
    BY <2>5, <2>6, <2>7 DEF WaitInv
<1>3. ASSUME NEW x \in Clients, NEW t \in Tasks, ReleaseTask(x, t) PROVE WaitInv'
  BY <1>3, WaitKept DEF ReleaseTask, Counted
<1>4. ASSUME NEW x \in Clients, NEW h \in Tasks \cup Groups, BeginWait(x, h)
      PROVE  WaitInv'
  <2>1. /\ pc[x] = "client" /\ pc'[x] = "test" /\ \A y \in Clients \ {x} : pc'[y] = pc[y]
        /\ arg'[x] = h /\ \A y \in Clients \ {x} : arg'[y] = arg[y]
        /\ UNCHANGED <<owner, alive, group, done, pending, remaining>>
        /\ h \in Groups => h \in alive /\ owner[h] = x
    BY <1>4 DEF BeginWait, InClient
  <2>2. GroupsAlive'
    BY <2>1, CountedKept DEF GroupsAlive, WaitInv
  <2>3. \A y \in Clients : pc'[y] = "return" => pc[y] = "return" /\ IsDone(y)'
    <3>1. \A y \in Clients : pc'[y] = "return" => y # x /\ pc[y] = "return"
      BY <2>1
    <3>2. \A y \in Clients \ {x} : IsDone(y) => IsDone(y)'
      BY <2>1 DEF IsDone
    <3>3. QED
      BY <3>1, <3>2 DEF WaitInv
  <2>4. QED
    BY <2>1, <2>2, <2>3 DEF WaitInv
<1>5. ASSUME NEW x \in Clients, CountTask(x) PROVE WaitInv'
  <2>1. /\ pc[x] = "count" /\ pc'[x] = "enqueue" /\ \A y \in Clients \ {x} : pc'[y] = pc[y]
        /\ UNCHANGED <<arg, owner, alive, group, done, pending>>
    BY <1>5 DEF CountTask
  <2>2. ASSUME NEW y \in Clients, pc'[y] = "return" PROVE IsDone(y)'
    <3>1. IsDone(y) /\ pc[y] = "return"
      BY <2>1, <2>2 DEF WaitInv
    <3>2. CASE arg[y] = Pool
      <4>1. Tallied = {} /\ Closing
        BY <3>1, <3>2, PoolEmpty DEF IsDone, Closing, ArgInv
      <4>2. x \in Tasks
        BY <2>1, <4>1 DEF TallyInv, Submitting
      <4>3. QED
        BY <2>1, <4>1, <4>2 DEF Tallied, Untallied
    <3>3. CASE arg[y] # Pool
      BY <2>1, <3>1, <3>3 DEF IsDone
    <3>4. QED
      BY <3>2, <3>3
  <2>3. GroupsAlive'
    BY <2>1, CountedKept DEF GroupsAlive, WaitInv
  <2>4. QED
    BY <2>1, <2>2, <2>3 DEF WaitInv
<1>6. ASSUME NEW x \in Clients, Enqueue(x) PROVE WaitInv'
  <2>1. /\ pc[x] = "enqueue" /\ pc'[x] = "client"
        /\ arg[x] \in Tasks /\ pc[arg[x]] = "fresh" /\ pc'[arg[x]] = "queued"
        /\ arg'[x] = None /\ \A y \in Clients \ {x} : arg'[y] = arg[y]
    BY <1>6, EnqueueMoves
  <2>2. /\ \A y \in Clients \ {x, arg[x]} :
              pc'[y] = pc[y] \/ (pc[y] = "asleep" /\ pc'[y] = "lock")
        /\ UNCHANGED <<owner, alive, group, done, pending, remaining>>
    <3>1. TypeInv /\ QueueInv
      OBVIOUS
    <3>2. \A y \in Clients \ {x, arg[x]} :
             pc'[y] = pc[y] \/ (pc[y] = "asleep" /\ pc'[y] = "lock")
      BY ONLY <1>6, <3>1, EnqueueMoves, x \in Clients
    <3>3. QED
      BY <1>6, <3>2 DEF Enqueue
  <2>3. \A y \in Clients : pc'[y] = "return" => IsDone(y)'
    <3>1. \A y \in Clients : pc'[y] = "return" => pc[y] = "return" /\ y # x
      BY <2>1, <2>2
    <3>2. QED
      BY <2>1, <2>2, <3>1 DEF WaitInv, IsDone
  <2>4. GroupsAlive'
    <3>1. \A u \in Tasks : Counted(u)' => Counted(u)
      BY <2>1, <2>2 DEF Counted
    <3>2. QED
      BY <2>2, <3>1 DEF GroupsAlive, WaitInv
  <2>5. \A y \in Clients : arg'[y] \in Groups =>
           pc'[y] \in Waiting /\ owner'[arg'[y]] = y /\ arg'[y] \in alive'
    <3>1. \A y \in Clients : arg'[y] \in Groups => arg'[y] = arg[y] /\ pc[y] \in Waiting
      BY <2>1 DEF WaitInv
    <3>2. \A y \in Clients : pc[y] \in Waiting => pc'[y] \in Waiting
      BY <2>1, <2>2
    <3>3. QED
      BY <2>2, <3>1, <3>2 DEF WaitInv
  <2>6. QED
    BY <2>3, <2>4, <2>5 DEF WaitInv
<1>7. ASSUME NEW x \in Clients, TestDone(x) PROVE WaitInv'
  <2>1. /\ UNCHANGED <<arg, owner, alive, group, done, pending, remaining>>
        /\ pc[x] = "test"
        /\ pc'[x] = IF IsDone(x) THEN "return" ELSE IF MaySteal(x) THEN "steal" ELSE "lock"
        /\ \A f \in Frames \ {x} : pc'[f] = pc[f]
    BY <1>7 DEF TestDone, Goto
  <2>2. \A u \in Tasks : Counted(u)' => Counted(u)
    BY <2>1 DEF Counted
  <2>3. \A y \in Clients : /\ pc[y] \in Waiting => pc'[y] \in Waiting
                           /\ pc'[y] = "return" => pc[y] = "return" \/ IsDone(y)
    <3>1. \A y \in Clients \ {x} : pc'[y] = pc[y]
      BY <2>1
    <3>2. pc'[x] \in Waiting /\ (pc'[x] = "return" => IsDone(x))
      BY <2>1
    <3>3. QED
      BY ONLY <3>1, <3>2, x \in Clients
  <2>4. QED
    BY <2>1, <2>2, <2>3, WaitKept
<1>8. ASSUME NEW x \in Workers \cup Clients, NEW i \in 1..Len(queue), RunTask(x, i),
             pc[x] \in {"poll", "steal"}
      PROVE  WaitInv'
  <2>1. PICK t \in Tasks : t = queue[i] /\ pc[t] = "queued"
    BY DEF QueueInv
  <2>2. /\ UNCHANGED <<arg, owner, alive, group, done, pending, remaining>>
        /\ \A y \in Clients : /\ pc'[y] \in {pc[y], "client", "exec"}
                              /\ pc'[y] = pc[y] \/ y \in {t, x}
        /\ x \in Clients => pc'[x] = "exec"
    BY <1>8, <2>1 DEF RunTask
  <2>3. \A u \in Tasks : Counted(u)' => Counted(u)
    BY <1>8, <2>1, <2>2, CountedKept
  <2>4. \A y \in Clients : /\ pc[y] \in Waiting => pc'[y] \in Waiting
                           /\ pc'[y] = "return" => pc[y] = "return"
    BY <2>1, <2>2
  <2>5. QED
    BY <2>2, <2>3, <2>4, WaitKept
<1>9. ASSUME NEW x \in Clients, StealTask(x) PROVE WaitInv'
  <2>1. CASE \E i \in Eligible(x) : RunTask(x, i)
    BY <1>8, <1>9, <2>1 DEF StealTask, Eligible
  <2>2. CASE Goto(x, "lock")
    BY <1>9, <2>2, WaitKept, CountedKept DEF StealTask, Goto
  <2>3. QED
    BY <1>9, <2>1, <2>2 DEF StealTask
<1>10. ASSUME NEW x \in Clients, LockAndCheck(x) PROVE WaitInv'
  <2>1. PICK l \in {"test", "sleep"} : Goto(x, l)
    BY <1>10 DEF LockAndCheck
  <2>2. QED
    BY <1>10, <2>1, WaitKept, CountedKept DEF LockAndCheck, Goto
<1>11. ASSUME NEW x \in Clients, FallAsleep(x) PROVE WaitInv'
  BY <1>11, WaitKept, CountedKept DEF FallAsleep, Goto
<1>12. ASSUME NEW x \in Clients, EndWait(x) PROVE WaitInv'
  <2>1. /\ pc[x] = "return" /\ pc'[x] \in {"stop", "client"}
        /\ \A y \in Clients \ {x} : pc'[y] = pc[y] /\ arg'[y] = arg[y]
        /\ arg'[x] \notin Groups /\ alive' = alive \ {arg[x]}
        /\ UNCHANGED <<owner, group, done, pending, remaining>>
    BY <1>12 DEF EndWait
  <2>2. \A y \in Clients \ {x} : arg[y] \in Groups => arg[y] # arg[x]
    BY DEF WaitInv
  <2>3. GroupsAlive'
    <3>1. \A t \in Tasks : Counted(t)' <=> Counted(t)
      BY <2>1, CountedKept
    <3>2. \A t \in Tasks : Counted(t) /\ group[t] # None => group[t] # arg[x]
      <4>1. arg[x] \in Groups => pending[arg[x]] = 0
        BY <2>1 DEF WaitInv, IsDone
      <4>2. QED
        BY <4>1, GroupEmpty
    <3>3. QED
      BY <2>1, <3>1, <3>2 DEF GroupsAlive, WaitInv
  <2>4. \A y \in Clients : pc'[y] = "return" => IsDone(y)'
    BY <2>1 DEF WaitInv, IsDone
  <2>5. QED
    BY <2>1, <2>2, <2>3, <2>4 DEF WaitInv
<1>13. ASSUME NEW w \in Workers, Poll(w) PROVE WaitInv'
  BY <1>8, <1>13, WaitKept, CountedKept DEF Poll, Goto
<1>14. ASSUME NEW t \in Tasks, FinishCallback(t) PROVE WaitInv'
  BY <1>14, WaitKept, CountedKept DEF FinishCallback
<1>15. ASSUME NEW t \in Tasks, PublishDone(t) PROVE WaitInv'
  BY <1>15, WaitKept, CountedKept DEF PublishDone
<1>16. ASSUME NEW t \in Tasks, DropPoolRef(t) PROVE WaitInv'
  BY <1>16, WaitKept DEF DropPoolRef, Counted
<1>17. ASSUME NEW t \in Tasks, LeaveGroup(t) PROVE WaitInv'
  <2>1. /\ pc[t] = "ungroup" /\ pc'[t] = "uncount" /\ \A y \in Clients \ {t} : pc'[y] = pc[y]
        /\ UNCHANGED <<arg, owner, alive, group, done, remaining>>
        /\ \A h \in Groups \ {group[t]} : pending'[h] = pending[h]
    BY <1>17 DEF LeaveGroup
  <2>2. Counted(t)
    BY <2>1 DEF Counted
  <2>3. ASSUME NEW y \in Clients, pc'[y] = "return" PROVE IsDone(y)'
    <3>1. IsDone(y)
      BY <2>1, <2>3 DEF WaitInv
    <3>2. arg[y] \in Groups /\ pending[arg[y]] = 0 => arg[y] # group[t]
      BY <2>2, GroupEmpty
    <3>3. QED
      BY <2>1, <3>1, <3>2 DEF IsDone
  <2>4. GroupsAlive'
    BY <2>1 DEF GroupsAlive, WaitInv, Counted
  <2>5. QED
    BY <2>1, <2>3, <2>4 DEF WaitInv
<1>18. ASSUME NEW t \in Tasks, UncountTask(t) PROVE WaitInv'
  <2>1. /\ pc[t] = "uncount" /\ pc'[t] = "notify" /\ \A y \in Clients \ {t} : pc'[y] = pc[y]
        /\ UNCHANGED <<arg, owner, alive, group, done, pending>>
    BY <1>18 DEF UncountTask
  <2>2. remaining # 0
    BY <2>1, PoolEmpty DEF Tallied, Untallied
  <2>3. \A y \in Clients : pc'[y] = "return" => IsDone(y)'
    BY <2>1, <2>2 DEF WaitInv, IsDone
  <2>4. GroupsAlive'
    BY <2>1 DEF GroupsAlive, WaitInv, Counted
  <2>5. QED
    BY <2>1, <2>3, <2>4 DEF WaitInv
<1>19. ASSUME NEW t \in Tasks, NotifyDone(t) PROVE WaitInv'
  <2>1. /\ pc[t] = "notify" /\ pc'[t] = "over"
        /\ \A y \in Frames \ {t} :
              \/ pc'[y] = pc[y] /\ pc[y] # "asleep"
              \/ pc[y] = "exec" /\ pc'[y] = Resume(y)
              \/ pc[y] = "asleep" /\ pc'[y] = "lock"
    <3>1. TypeInv /\ StackInv
      OBVIOUS
    <3>2. QED
      BY ONLY <1>19, <3>1, NotifyMoves, t \in Tasks
  <2>2. UNCHANGED <<arg, owner, alive, group, done, pending, remaining>>
    BY <1>19 DEF NotifyDone
  <2>3. \A u \in Tasks : Counted(u)' => Counted(u)
    BY <2>1 DEF Counted, Resume
  <2>4. \A y \in Clients : /\ pc[y] \in Waiting => pc'[y] \in Waiting
                           /\ pc'[y] = "return" => pc[y] = "return"
    BY <2>1 DEF Resume
  <2>5. QED
    BY <2>2, <2>3, <2>4, WaitKept
<1>20. ASSUME NEW f \in Frames, WakeSpuriously(f) PROVE WaitInv'
  BY <1>20, WaitKept, CountedKept DEF WakeSpuriously
<1>21. ASSUME NEW c \in Callers, BeginDestroy(c) PROVE WaitInv'
  <2>1. /\ pc[c] = "client" /\ pc'[c] = "test"
        /\ \A y \in Clients \ {c} : pc'[y] = pc[y] /\ arg'[y] = arg[y]
        /\ arg'[c] = Pool
        /\ UNCHANGED <<owner, alive, group, done, pending, remaining>>
    BY <1>21 DEF BeginDestroy
  <2>2. GroupsAlive'
    BY <2>1, CountedKept DEF GroupsAlive, WaitInv
  <2>3. \A y \in Clients : pc'[y] = "return" => IsDone(y)'
    BY <2>1 DEF WaitInv, IsDone
  <2>4. QED
    BY <2>1, <2>2, <2>3 DEF WaitInv
<1>22. ASSUME NEW c \in Callers, StopWorkers(c) PROVE WaitInv'
  BY <1>22, WaitKept, CountedKept DEF StopWorkers
<1>23. ASSUME NEW c \in Callers, JoinWorkers(c) PROVE WaitInv'
  BY <1>23, WaitKept, CountedKept DEF JoinWorkers
<1>24. CASE UNCHANGED vars
  BY <1>24, WaitKept, CountedKept DEF vars
<1>25. QED
  BY <1>1, <1>2, <1>3, <1>4, <1>5, <1>6, <1>7, <1>9, <1>10, <1>11, <1>12, <1>13, <1>14,
     <1>15, <1>16, <1>17, <1>18, <1>19, <1>20, <1>21, <1>22, <1>23, <1>24
  DEF Next, ClientCall, SubmitStep, WaitStep, TaskStep, Destroyed

-----------------------------------------------------------------------------
Sleepy(x) == pc[x] \in {"sleep", "asleep"}

(* A waiter between its test and its sleep holds the mutex.  It has        *)
(* nothing to steal, and if its wait is done, a notification is to come.   *)
SleepInv ==
    /\ \A x \in Clients : pc[x] = "sleep" <=> mutex = x
    /\ \A x \in Clients : Sleepy(x) =>
          /\ Eligible(x) = {}
          /\ IsDone(x) => \E t \in Tasks : Completing(t)

LEMMA SleepInit == Init => SleepInv
BY TaskPoolAssumption DEF Init, SleepInv, Sleepy, Frames, Threads, Clients

(* A step that leaves the mutex, the queue and the stacks alone, and ends  *)
(* no wait without a notification to come.                                 *)
LEMMA SleepKept ==
    ASSUME TypeInv, SleepInv, UNCHANGED <<mutex, queue, stealDepth, host>>,
           \A i \in 1..Len(queue) : group'[queue[i]] = group[queue[i]],
           \A t \in Tasks : Completing(t) => Completing(t)',
           \A x \in Clients : pc'[x] = "sleep" <=> pc[x] = "sleep",
           \A x \in Clients : Sleepy(x)' =>
              /\ Sleepy(x)
              /\ arg'[x] = arg[x]
              /\ IsDone(x)' => IsDone(x) \/ \E t \in Tasks : Completing(t)'
    PROVE  SleepInv'
<1>1. ASSUME NEW x \in Clients, Sleepy(x)' PROVE Eligible(x)' = {}
  <2>1. Eligible(x) = {} /\ arg'[x] = arg[x]
    BY <1>1 DEF SleepInv
  <2>2. DOMAIN queue = 1..Len(queue)
    BY DEF TypeInv, TypeOK
  <2>3. QED
    BY <2>1, <2>2 DEF Eligible
<1>2. ASSUME NEW x \in Clients, Sleepy(x)', IsDone(x)'
      PROVE  \E t \in Tasks : Completing(t)'
  BY <1>2 DEF SleepInv
<1>3. \A x \in Clients : pc'[x] = "sleep" <=> mutex' = x
  BY DEF SleepInv
<1>4. QED
  BY <1>1, <1>2, <1>3 DEF SleepInv

(* The same when only the places of frames change.                         *)
LEMMA SleepMoved ==
    ASSUME TypeInv, SleepInv,
           UNCHANGED <<mutex, queue, stealDepth, host, group, done, pending, remaining>>,
           \A t \in Tasks : Completing(t) => Completing(t)',
           \A x \in Clients : \/ pc'[x] = pc[x] /\ arg'[x] = arg[x]
                              \/ pc[x] # "sleep" /\ ~Sleepy(x)'
    PROVE  SleepInv'
<1>1. \A x \in Clients : Sleepy(x)' => Sleepy(x) /\ arg'[x] = arg[x]
  BY DEF Sleepy
<1>2. \A x \in Clients : Sleepy(x)' => (IsDone(x)' => IsDone(x))
  BY <1>1 DEF IsDone
<1>3. \A x \in Clients : pc'[x] = "sleep" <=> pc[x] = "sleep"
  BY DEF Sleepy
<1>4. QED
  BY <1>1, <1>2, <1>3, SleepKept

(* A frame that starts a task is on top, so nobody sleeps on its thread.   *)
LEMMA RunTaskSleep ==
    ASSUME TypeInv, StackInv, QueueInv, SleepInv, NEW x \in Workers \cup Clients,
           NEW i \in 1..Len(queue), pc[x] \in {"poll", "steal"}, RunTask(x, i)
    PROVE  SleepInv'
<1> USE TaskPoolAssumption DEF Threads, Clients, Frames
<1>1. PICK t \in Tasks : t = queue[i]
  BY DEF TypeInv, TypeOK
<1>2. pc[t] = "queued" /\ x \in Frames /\ t # x
  BY <1>1 DEF QueueInv
<1>3. /\ \A f \in Frames :
            pc'[f] = IF f = t THEN "client" ELSE IF f = x THEN "exec" ELSE pc[f]
      /\ \A f \in Frames \ {t} : host'[f] = host[f]
      /\ \A th \in Threads \ {host[x]} : stealDepth'[th] = stealDepth[th]
      /\ UNCHANGED <<mutex, arg, group, done, pending, remaining>>
  BY <1>1 DEF RunTask, TypeInv, TypeOK
<1>4. \A y \in Clients : Sleepy(y)' => Sleepy(y) /\ y # t /\ y # x
  BY <1>2, <1>3 DEF Sleepy
<1>5. ASSUME NEW y \in Clients, Sleepy(y)' PROVE Eligible(y)' = {}
  <2>1. host[y] # host[x] /\ host[y] \in Threads
    BY <1>2, <1>4, <1>5 DEF StackInv, OnTop, OnStack, Sleepy
  <2>2. stealDepth'[host'[y]] = stealDepth[host[y]]
    BY <1>3, <1>4, <1>5, <2>1
  <2>3. Eligible(y) = {}
    BY <1>4, <1>5 DEF SleepInv
  <2>4. \A k \in DOMAIN queue' : \E j \in DOMAIN queue : queue'[k] = queue[j]
    <3>1. /\ queue' \in Seq(Tasks) /\ Len(queue') = Len(queue) - 1
          /\ \A j \in 1..(Len(queue) - 1) :
                queue'[j] = IF j < i THEN queue[j] ELSE queue[j + 1]
      <4>1. queue' = RemoveAt(queue, i) /\ queue \in Seq(Tasks)
        BY DEF RunTask, TypeInv, TypeOK
      <4>2. QED
        BY ONLY <4>1, RemoveAtProperties, i \in 1..Len(queue)
    <3>2. queue \in Seq(Tasks)
      BY DEF TypeInv, TypeOK
    <3>3. QED
      BY ONLY <3>1, <3>2, i \in 1..Len(queue)
  <2>5. QED
    BY <1>3, <2>2, <2>3, <2>4 DEF Eligible
<1>6. \A y \in Clients : IsDone(y)' <=> IsDone(y)
  BY <1>3 DEF IsDone
<1>7. \A u \in Tasks : Completing(u) => Completing(u)'
  BY <1>2, <1>3 DEF Completing
<1>8. \A y \in Clients : pc'[y] = "sleep" <=> mutex' = y
  BY <1>2, <1>3 DEF SleepInv
<1>9. QED
  BY <1>4, <1>5, <1>6, <1>7, <1>8 DEF SleepInv

LEMMA SleepNext ==
    /\ TypeInv /\ StackInv /\ QueueInv /\ GroupInv /\ TallyInv /\ WaitInv /\ SleepInv
    /\ [Next]_vars
    => SleepInv'
<1> SUFFICES ASSUME TypeInv, StackInv, QueueInv, GroupInv, TallyInv, WaitInv, SleepInv,
                    [Next]_vars
             PROVE  SleepInv'
  OBVIOUS
<1> USE TaskPoolAssumption DEF Threads, Clients, Frames, TypeInv, TypeOK, handleVars,
        Sleepy, Completing
<1>1. ASSUME NEW x \in Clients, NEW g \in Groups, CreateGroup(x, g)
      PROVE  SleepInv'
  <2>1. /\ UNCHANGED <<mutex, queue, stealDepth, host, group, pc, arg, done, remaining>>
        /\ owner[g] = None /\ \A h \in Groups \ {g} : pending'[h] = pending[h]
    BY <1>1 DEF CreateGroup
  <2>2. \A y \in Clients : arg[y] \in Groups => arg[y] # g
    BY <2>1 DEF WaitInv
  <2>3. \A y \in Clients : IsDone(y)' => IsDone(y)
    BY <2>1, <2>2 DEF IsDone
  <2>4. QED
    BY <2>1, <2>3, SleepKept
<1>2. ASSUME NEW x \in Clients, NEW t \in Tasks, NEW g \in Groups \cup {None},
             SubmitTask(x, t, g)
      PROVE  SleepInv'
  <2>1. /\ pc[t] = "unborn" /\ pc'[t] = "fresh" /\ pc[x] = "client" /\ pc'[x] = "count"
        /\ \A y \in Clients \ {t, x} : pc'[y] = pc[y]
        /\ \A y \in Clients \ {x} : arg'[y] = arg[y]
        /\ \A u \in Tasks \ {t} : group'[u] = group[u]
        /\ UNCHANGED <<mutex, queue, stealDepth, host, done, remaining>>
    BY <1>2 DEF SubmitTask, InClient
  <2>2. \A h \in Groups : pending'[h] \in {pending[h], pending[h] + 1}
    BY <1>2 DEF SubmitTask
  <2>3. \A h \in Groups : pending[h] \in Nat
    <3>1. \A h \in Groups : pending[h] = Cardinality(Members(h)) /\ Members(h) \in SUBSET Tasks
      BY DEF GroupInv, Members
    <3>2. QED
      BY ONLY <3>1, TasksFinite
  <2>4. \A y \in Clients \ {x} : IsDone(y)' => IsDone(y)
    BY <2>1, <2>2, <2>3 DEF IsDone
  <2>5. \A i \in 1..Len(queue) : group'[queue[i]] = group[queue[i]]
    BY <2>1 DEF QueueInv
  <2>6. QED
    BY <2>1, <2>4, <2>5, SleepKept
<1>3. ASSUME NEW x \in Clients, NEW t \in Tasks, ReleaseTask(x, t) PROVE SleepInv'
  BY <1>3, SleepMoved DEF ReleaseTask
<1>4. ASSUME NEW x \in Clients, NEW h \in Tasks \cup Groups, BeginWait(x, h)
      PROVE  SleepInv'
  BY <1>4, SleepMoved DEF BeginWait, InClient
<1>5. ASSUME NEW x \in Clients, CountTask(x) PROVE SleepInv'
  <2>1. /\ pc[x] = "count" /\ pc'[x] = "enqueue" /\ \A y \in Clients \ {x} : pc'[y] = pc[y]
        /\ UNCHANGED <<mutex, queue, stealDepth, host, group, arg, done, pending>>
        /\ remaining' = remaining + 1
    BY <1>5 DEF CountTask
  <2>2. remaining \in Nat
    <3>1. remaining = Cardinality(Tallied) /\ Tallied \in SUBSET Tasks
      BY DEF TallyInv, Tallied
    <3>2. QED
      BY ONLY <3>1, TasksFinite
  <2>3. \A y \in Clients : IsDone(y)' => IsDone(y)
    BY <2>1, <2>2 DEF IsDone
  <2>4. QED
    BY <2>1, <2>3, SleepKept
<1>6. ASSUME NEW x \in Clients, Enqueue(x) PROVE SleepInv'
  <2>1. mutex = None /\ mutex' = None
    BY <1>6 DEF Enqueue
  <2>2. \A y \in Clients : ~Sleepy(y)'
    <3>1. /\ pc'[x] = "client" /\ pc'[arg[x]] = "queued"
          /\ \A y \in Clients \ {x, arg[x]} :
                \/ pc'[y] = pc[y] /\ pc[y] # "asleep"
                \/ pc'[y] = "lock"
      <4>1. TypeInv /\ QueueInv
        OBVIOUS
      <4>2. QED
        BY ONLY <1>6, <4>1, EnqueueMoves, x \in Clients
    <3>2. QED
      BY <2>1, <3>1 DEF SleepInv
  <2>3. QED
    BY <2>1, <2>2 DEF SleepInv
<1>7. ASSUME NEW x \in Clients, TestDone(x) PROVE SleepInv'
  BY <1>7, SleepMoved DEF TestDone, Goto
<1>8. ASSUME NEW x \in Clients, StealTask(x) PROVE SleepInv'
  <2>1. CASE \E i \in Eligible(x) : RunTask(x, i)
    <3>1. PICK i \in 1..Len(queue) : RunTask(x, i)
      BY <2>1 DEF Eligible
    <3>2. pc[x] = "steal" /\ TypeInv
      BY <1>8 DEF StealTask
    <3>3. QED
      BY ONLY <3>1, <3>2, RunTaskSleep, StackInv, QueueInv, SleepInv, x \in Clients
  <2>2. CASE Goto(x, "lock") /\ UNCHANGED mutex
    BY <1>8, <2>2, SleepMoved DEF StealTask, Goto
  <2>3. QED
    BY <1>8, <2>1, <2>2 DEF StealTask
<1>9. ASSUME NEW x \in Clients, LockAndCheck(x) PROVE SleepInv'
  <2>1. CASE Goto(x, "test") /\ UNCHANGED mutex
    BY <1>9, <2>1, SleepMoved DEF LockAndCheck, Goto
  <2>2. CASE ~IsDone(x) /\ Eligible(x) = {} /\ Goto(x, "sleep") /\ mutex' = x
    <3>1. /\ mutex = None /\ pc'[x] = "sleep" /\ \A y \in Clients \ {x} : pc'[y] = pc[y]
          /\ UNCHANGED <<queue, stealDepth, host, group, arg, done, pending, remaining>>
      BY <1>9, <2>2 DEF LockAndCheck, Goto
    <3>2. \A y \in Clients : IsDone(y)' <=> IsDone(y)
      BY <3>1 DEF IsDone
    <3>3. \A y \in Clients : Eligible(y)' = Eligible(y)
      BY <3>1 DEF Eligible
    <3>4. \A t \in Tasks : Completing(t) => Completing(t)'
      BY <1>9, <3>1 DEF LockAndCheck
    <3>5. \A y \in Clients : pc'[y] = "sleep" <=> mutex' = y
      BY <2>2, <3>1 DEF SleepInv
    <3>6. \A y \in Clients : Sleepy(y)' => y = x \/ Sleepy(y)
      BY <3>1
    <3>7. ASSUME NEW y \in Clients, Sleepy(y)'
          PROVE  Eligible(y)' = {} /\ (IsDone(y)' => \E t \in Tasks : Completing(t)')
      <4>1. Eligible(y) = {} /\ (IsDone(y) => \E t \in Tasks : Completing(t))
        BY <2>2, <3>6, <3>7 DEF SleepInv
      <4>2. QED
        BY ONLY <3>2, <3>3, <3>4, <4>1, y \in Clients
    <3>8. QED
      BY <3>5, <3>7 DEF SleepInv
  <2>3. QED
    BY <1>9, <2>1, <2>2 DEF LockAndCheck
<1>10. ASSUME NEW x \in Clients, FallAsleep(x) PROVE SleepInv'
  <2>1. /\ pc[x] = "sleep" /\ pc'[x] = "asleep" /\ \A y \in Clients \ {x} : pc'[y] = pc[y]
        /\ UNCHANGED <<queue, stealDepth, host, group, arg, done, pending, remaining>>
        /\ mutex' = None
    BY <1>10 DEF FallAsleep, Goto
  <2>2. \A y \in Clients : IsDone(y)' <=> IsDone(y)
    BY <2>1 DEF IsDone
  <2>3. \A y \in Clients : Eligible(y)' = Eligible(y)
    BY <2>1 DEF Eligible
  <2>4. \A t \in Tasks : Completing(t) => Completing(t)'
    BY <2>1
  <2>5. QED
    BY <2>1, <2>2, <2>3, <2>4 DEF SleepInv
<1>11. ASSUME NEW x \in Clients, EndWait(x) PROVE SleepInv'
  BY <1>11, SleepMoved DEF EndWait
<1>12. ASSUME NEW w \in Workers, Poll(w) PROVE SleepInv'
  <2>1. CASE queue # <<>> /\ RunTask(w, 1)
    <3>1. 1 \in 1..Len(queue)
      BY <2>1
    <3>2. pc[w] = "poll" /\ TypeInv
      BY <1>12 DEF Poll
    <3>3. QED
      BY ONLY <2>1, <3>1, <3>2, RunTaskSleep, StackInv, QueueInv, SleepInv, w \in Workers
  <2>2. CASE Goto(w, IF stop THEN "exited" ELSE "parked") /\ UNCHANGED mutex
    BY <1>12, <2>2, SleepMoved DEF Poll, Goto
  <2>3. QED
    BY <1>12, <2>1, <2>2 DEF Poll
<1>13. ASSUME NEW t \in Tasks, FinishCallback(t) PROVE SleepInv'
  <2>1. /\ pc[t] = "client" /\ pc'[t] = "publish" /\ \A y \in Clients \ {t} : pc'[y] = pc[y]
        /\ UNCHANGED <<mutex, queue, host, group, arg, done, pending, remaining>>
        /\ \A th \in Threads \ {host[t]} : stealDepth'[th] = stealDepth[th]
    BY <1>13 DEF FinishCallback
  <2>2. \A y \in Clients : Sleepy(y)' => Sleepy(y) /\ y # t
    BY <2>1
  <2>3. \A y \in Clients : Sleepy(y)' => Eligible(y)' = {}
    <3>1. ASSUME NEW y \in Clients, Sleepy(y)' PROVE Eligible(y)' = {}
      <4>1. host[y] # host[t] /\ host[y] \in Threads
        BY <2>1, <2>2, <3>1 DEF StackInv, OnTop, OnStack
      <4>2. Eligible(y) = {}
        BY <2>2, <3>1 DEF SleepInv
      <4>3. QED
        BY <2>1, <4>1, <4>2 DEF Eligible
    <3>2. QED
      BY <3>1
  <2>4. \A y \in Clients : IsDone(y)' <=> IsDone(y)
    BY <2>1 DEF IsDone
  <2>5. \A u \in Tasks : Completing(u) => Completing(u)'
    BY <2>1
  <2>6. QED
    BY <2>1, <2>2, <2>3, <2>4, <2>5 DEF SleepInv
<1>14. ASSUME NEW t \in Tasks,
              PublishDone(t) \/ LeaveGroup(t) \/ UncountTask(t)
       PROVE  SleepInv'
  <2>1. /\ pc'[t] \in {"unref", "uncount", "notify"} /\ pc[t] \in {"publish", "ungroup", "uncount"}
        /\ \A y \in Clients \ {t} : pc'[y] = pc[y]
        /\ UNCHANGED <<mutex, queue, stealDepth, host, group, arg>>
    BY <1>14 DEF PublishDone, LeaveGroup, UncountTask
  <2>2. Completing(t)'
    BY <2>1
  <2>3. \A u \in Tasks : Completing(u) => Completing(u)'
    BY <2>1
  <2>4. QED
    BY <2>1, <2>2, <2>3, SleepKept
<1>15. ASSUME NEW t \in Tasks, DropPoolRef(t) PROVE SleepInv'
  BY <1>15, SleepMoved DEF DropPoolRef
<1>16. ASSUME NEW t \in Tasks, NotifyDone(t) PROVE SleepInv'
  <2>1. mutex = None /\ mutex' = None
    BY <1>16 DEF NotifyDone
  <2>2. \A y \in Clients : ~Sleepy(y)'
    <3>1. /\ pc'[t] = "over"
          /\ \A y \in Frames \ {t} : \/ pc'[y] = pc[y] /\ pc[y] # "asleep"
                                    \/ pc'[y] \in {"lock", Resume(y)}
      <4>1. TypeInv /\ StackInv
        OBVIOUS
      <4>2. QED
        BY ONLY <1>16, <4>1, NotifyMoves, t \in Tasks
    <3>2. \A y \in Clients : Resume(y) \notin {"sleep", "asleep"}
      BY DEF Resume
    <3>3. \A y \in Clients : pc[y] # "sleep"
      BY <2>1 DEF SleepInv
    <3>4. Clients \subseteq Frames
      OBVIOUS
    <3>5. QED
      BY ONLY <3>1, <3>2, <3>3, <3>4 DEF Sleepy
  <2>3. QED
    BY <2>1, <2>2 DEF SleepInv
<1>17. ASSUME NEW f \in Frames, WakeSpuriously(f) PROVE SleepInv'
  BY <1>17, SleepMoved DEF WakeSpuriously
<1>18. ASSUME NEW c \in Callers, BeginDestroy(c) PROVE SleepInv'
  BY <1>18, SleepMoved DEF BeginDestroy
<1>19. ASSUME NEW c \in Callers, StopWorkers(c) PROVE SleepInv'
  BY <1>19, SleepMoved DEF StopWorkers
<1>20. ASSUME NEW c \in Callers, JoinWorkers(c) PROVE SleepInv'
  <2>1. /\ queue' = <<>> /\ pc[c] = "join" /\ pc'[c] = "gone"
        /\ \A y \in Clients \ {c} : pc'[y] = pc[y]
        /\ UNCHANGED <<mutex, host, group, arg, done, pending, remaining>>
    BY <1>20 DEF JoinWorkers
  <2>2. \A y \in Clients : Eligible(y)' = {} /\ (IsDone(y)' <=> IsDone(y))
    BY <2>1 DEF Eligible, IsDone
  <2>3. \A t \in Tasks : Completing(t) => Completing(t)'
    BY <2>1
  <2>4. QED
    BY <2>1, <2>2, <2>3 DEF SleepInv
<1>21. CASE UNCHANGED vars
  BY <1>21, SleepMoved DEF vars
<1>22. QED
  BY <1>1, <1>2, <1>3, <1>4, <1>5, <1>6, <1>7, <1>8, <1>9, <1>10, <1>11, <1>12, <1>13,
     <1>14, <1>15, <1>16, <1>17, <1>18, <1>19, <1>20, <1>21
  DEF Next, ClientCall, SubmitStep, WaitStep, TaskStep, Destroyed

-----------------------------------------------------------------------------
PoolInv ==
    TypeInv /\ StackInv /\ QueueInv /\ GroupInv /\ TallyInv /\ WaitInv /\ SleepInv

LEMMA PoolInvariant == Spec => []PoolInv
<1>1. Init => PoolInv
  BY TypeInit, StackInit, QueueInit, GroupInit, TallyInit, WaitInit, SleepInit DEF PoolInv
<1>2. PoolInv /\ [Next]_vars => PoolInv'
  BY TypeNext, StackNext, QueueNext, GroupNext, TallyNext, WaitNext, SleepNext DEF PoolInv
<1>3. QED
  BY <1>1, <1>2, PTL DEF Spec

(* A waiter blocked on m_stealCV has nothing to steal, and if its wait is  *)
(* done, a notification is still to come (task-pool.cpp:294-301, 399-405). *)
THEOREM WaitersNotified == Spec => []NoLostWakeup
<1>1. PoolInv => NoLostWakeup
  BY DEF PoolInv, SleepInv, Sleepy, NoLostWakeup
<1>2. QED
  BY <1>1, PoolInvariant, PTL

(* No group is deleted while a task is submitted into it or still has to   *)
(* leave it (task-pool.cpp:388-396).                                       *)
THEOREM GroupsOutliveTasks == Spec => []GroupsAlive
<1>1. PoolInv => GroupsAlive
  BY DEF PoolInv, WaitInv
<1>2. QED
  BY <1>1, PoolInvariant, PTL

(* What a wait covers has run and left the counters once the wait is done. *)
LEMMA DoneCovers ==
    ASSUME PoolInv, NEW x \in Clients, IsDone(x), NEW t \in Tasks
    PROVE  /\ arg[x] = t => done[t]
           /\ group[t] = arg[x] => ~Counted(t)
           /\ arg[x] = Pool => pc[t] \in {"unborn", "notify", "over"}
<1> USE TaskPoolAssumption DEF PoolInv, Threads, Clients, Frames
<1>1. arg[x] = t => done[t]
  BY DEF IsDone
<1>2. group[t] = arg[x] => ~Counted(t)
  <2>1. arg[x] \in Groups \/ arg[x] \in Tasks \/ arg[x] = Pool
    BY DEF IsDone
  <2>2. group[t] = arg[x] => arg[x] \in Groups /\ pending[arg[x]] = 0
    BY <2>1 DEF IsDone, TypeInv, TypeOK
  <2>3. QED
    BY <2>2, GroupEmpty
<1>3. ASSUME arg[x] = Pool PROVE pc[t] \in {"unborn", "notify", "over"}
  <2>1. Tallied = {} /\ Closing
    BY <1>3, PoolEmpty DEF IsDone, Closing, TypeInv, ArgInv
  <2>2. \A y \in Tasks : pc[y] \in Untallied
    BY <2>1 DEF Tallied
  <2>3. \A y \in Clients : ~Submitting(y)
    BY <2>1, <2>2 DEF TallyInv, Submitting, Untallied
  <2>4. pc[t] # "fresh"
    BY <2>3 DEF TallyInv
  <2>5. QED
    BY <2>2, <2>4 DEF Untallied
<1>4. QED
  BY <1>1, <1>2, <1>3

(* When a wait returns, all it covers has run and left the counters        *)
(* (task-pool.cpp:382-398, 497).                                           *)
THEOREM WaitsCover == Spec => []WaitedWorkFinished
<1>1. ASSUME PoolInv, NEW x \in Clients, pc[x] = "return", NEW t \in Tasks
      PROVE  /\ arg[x] = t => done[t]
             /\ group[t] = arg[x] => ~Counted(t)
             /\ arg[x] = Pool => ~Counted(t) /\ pc[t] # "uncount"
  <2>1. IsDone(x)
    BY <1>1 DEF PoolInv, WaitInv
  <2>2. QED
    BY <1>1, <2>1, DoneCovers DEF Counted
<1>2. PoolInv => WaitedWorkFinished
  BY <1>1 DEF WaitedWorkFinished
<1>3. QED
  BY <1>2, PoolInvariant, PTL

-----------------------------------------------------------------------------
(* Who holds the reference of a task, what a waiting callback executes,    *)
(* how many workers are awake; and the contract.                           *)

(* A task is done from the publication on (task-pool.cpp:386).             *)
DoneInv == \A t \in Tasks : done[t] <=> Completing(t) \/ pc[t] = "over"

LEMMA DoneInit == Init => DoneInv
BY TaskPoolAssumption DEF Init, DoneInv, Completing, Frames, Threads

(* A step that moves no task to or from the completion bookkeeping.        *)
LEMMA DoneKept ==
    ASSUME DoneInv, done' = done,
           \A t \in Tasks : \/ pc'[t] = pc[t]
                            \/ /\ pc[t] \notin {"unref", "ungroup", "uncount", "notify", "over"}
                               /\ pc'[t] \notin {"unref", "ungroup", "uncount", "notify", "over"}
    PROVE  DoneInv'
BY DEF DoneInv, Completing

LEMMA DoneNext == PoolInv /\ DoneInv /\ [Next]_vars => DoneInv'
<1> SUFFICES ASSUME PoolInv, DoneInv, [Next]_vars PROVE DoneInv'
  OBVIOUS
<1> USE TaskPoolAssumption DEF Threads, Clients, Frames, PoolInv, TypeInv, TypeOK, handleVars
<1>1. ASSUME NEW x \in Clients, ClientCall(x) PROVE DoneInv'
  <2>1. ASSUME NEW t \in Tasks, NEW g \in Groups \cup {None}, SubmitTask(x, t, g)
        PROVE  DoneInv'
    BY <2>1, DoneKept DEF SubmitTask, InClient
  <2>2. ASSUME NEW h \in Tasks \cup Groups, BeginWait(x, h) PROVE DoneInv'
    BY <2>2, DoneKept DEF BeginWait, InClient
  <2>3. QED
    BY <1>1, <2>1, <2>2, DoneKept DEF ClientCall, CreateGroup, ReleaseTask
<1>2. ASSUME NEW x \in Clients, CountTask(x) PROVE DoneInv'
  BY <1>2, DoneKept DEF CountTask
<1>3. ASSUME NEW x \in Clients, Enqueue(x) PROVE DoneInv'
  <2>1. done' = done
    BY <1>3 DEF Enqueue
  <2>2. QED
    BY <1>3, <2>1, EnqueueMoves, DoneKept
<1>4. ASSUME NEW x \in Clients, TestDone(x) \/ LockAndCheck(x) \/ FallAsleep(x) \/ EndWait(x)
      PROVE  DoneInv'
  BY <1>4, DoneKept DEF TestDone, LockAndCheck, FallAsleep, EndWait, Goto
<1>5. ASSUME NEW x \in Workers \cup Clients, NEW i \in 1..Len(queue),
             pc[x] \in {"poll", "steal"}, RunTask(x, i)
      PROVE  DoneInv'
  BY <1>5, DoneKept DEF RunTask, QueueInv
<1>6. ASSUME NEW x \in Clients, StealTask(x) PROVE DoneInv'
  BY <1>5, <1>6, DoneKept DEF StealTask, Eligible, Goto
<1>7. ASSUME NEW w \in Workers, Poll(w) PROVE DoneInv'
  BY <1>5, <1>7, DoneKept DEF Poll, Goto
<1>8. ASSUME NEW t \in Tasks, FinishCallback(t) PROVE DoneInv'
  BY <1>8, DoneKept DEF FinishCallback
<1>9. ASSUME NEW t \in Tasks, PublishDone(t) PROVE DoneInv'
  BY <1>9 DEF PublishDone, DoneInv, Completing
<1>10. ASSUME NEW t \in Tasks, DropPoolRef(t) \/ LeaveGroup(t) \/ UncountTask(t)
       PROVE  DoneInv'
  <2>1. /\ done' = done
        /\ pc[t] \in {"unref", "ungroup", "uncount"} /\ pc'[t] \in {"ungroup", "uncount", "notify"}
        /\ \A u \in Tasks \ {t} : pc'[u] = pc[u]
    BY <1>10 DEF DropPoolRef, LeaveGroup, UncountTask
  <2>2. QED
    BY ONLY DoneInv, <2>1 DEF DoneInv, Completing
<1>11. ASSUME NEW t \in Tasks, NotifyDone(t) PROVE DoneInv'
  <2>1. done' = done
    BY <1>11 DEF NotifyDone
  <2>2. /\ pc[t] = "notify" /\ pc'[t] = "over"
        /\ \A y \in Tasks \ {t} :
              \/ pc'[y] = pc[y]
              \/ pc[y] = "exec" /\ pc'[y] = "test"
              \/ pc[y] = "asleep" /\ pc'[y] = "lock"
    BY <1>11, NotifyMoves DEF Resume
  <2>3. QED
    BY <2>1, <2>2 DEF DoneInv, Completing
<1>12. ASSUME NEW f \in Frames, WakeSpuriously(f) PROVE DoneInv'
  BY <1>12, DoneKept DEF WakeSpuriously
<1>13. ASSUME NEW c \in Callers, BeginDestroy(c) \/ StopWorkers(c) \/ JoinWorkers(c)
       PROVE  DoneInv'
  BY <1>13, DoneKept DEF BeginDestroy, StopWorkers, JoinWorkers
<1>14. CASE UNCHANGED vars
  BY <1>14, DoneKept DEF vars
<1>15. QED
  BY <1>1, <1>2, <1>3, <1>4, <1>6, <1>7, <1>8, <1>9, <1>10, <1>11, <1>12, <1>13, <1>14
  DEF Next, SubmitStep, WaitStep, TaskStep, Destroyed

-----------------------------------------------------------------------------
(* A frame that submits or waits for a task is alone in that, the task is  *)
(* not among the handles, and a task has one reference for the pool and    *)
(* one for the handle, as long as each is there.                           *)
ArgsInv ==
    /\ \A x \in Clients : arg[x] \in Tasks => pc[x] \in {"count", "enqueue"} \cup Waiting
    /\ \A x \in Clients : pc[x] \in Waiting => arg[x] # None
    /\ \A x \in Clients : arg[x] \in Tasks => arg[x] \notin held /\ pc[arg[x]] # "unborn"
    /\ \A t \in held : pc[t] # "unborn"
    /\ \A x, y \in Clients : arg[x] \in Tasks /\ arg[x] = arg[y] => x = y

LEMMA ArgsInit == Init => ArgsInv
BY TaskPoolAssumption DEF Init, ArgsInv, Waiting, Frames, Threads, Clients

(* A step that gives nobody another argument and creates no task.          *)
LEMMA ArgsKept ==
    ASSUME TypeInv, ArgsInv, arg' = arg, held' \subseteq held,
           \A t \in Tasks : pc'[t] = "unborn" => pc[t] = "unborn",
           \A x \in Clients : \/ pc'[x] = pc[x]
                              \/ pc[x] = "count" /\ pc'[x] = "enqueue"
                              \/ pc[x] \in Waiting /\ pc'[x] \in Waiting
                              \/ arg[x] \notin Tasks /\ pc'[x] \notin Waiting
    PROVE  ArgsInv'
<1> USE DEF ArgsInv, TypeInv, TypeOK
<1>1. \A x \in Clients : arg'[x] \in Tasks => pc'[x] \in {"count", "enqueue"} \cup Waiting
  BY DEF Waiting
<1>2. \A x \in Clients : pc'[x] \in Waiting => arg'[x] # None
  BY DEF Waiting
<1>3. QED
  BY <1>1, <1>2

(* A step in which one frame begins or ends to ask for something.          *)
LEMMA ArgsMoved ==
    ASSUME ArgsInv, NEW x \in Clients,
           \A y \in Clients \ {x} :
              /\ arg'[y] = arg[y]
              /\ \/ pc'[y] = pc[y]
                 \/ pc[y] \in Waiting /\ pc'[y] \in Waiting
                 \/ arg[y] \notin Tasks /\ pc'[y] \notin Waiting
              /\ arg[y] \in Tasks => arg[y] \notin held' /\ arg[y] # arg'[x],
           arg'[x] \in Tasks =>
              /\ pc'[x] \in {"count", "enqueue"} \cup Waiting
              /\ arg'[x] \notin held' /\ pc'[arg'[x]] # "unborn",
           pc'[x] \in Waiting => arg'[x] # None,
           \A t \in held' : pc'[t] # "unborn",
           \A t \in Tasks : pc'[t] = "unborn" => pc[t] = "unborn"
    PROVE  ArgsInv'
<1>1. \A y \in Clients : arg'[y] \in Tasks => pc'[y] \in {"count", "enqueue"} \cup Waiting
  BY DEF ArgsInv
<1>2. \A y \in Clients : pc'[y] \in Waiting => arg'[y] # None
  BY DEF ArgsInv
<1>3. \A y \in Clients : arg'[y] \in Tasks => arg'[y] \notin held' /\ pc'[arg'[y]] # "unborn"
  BY DEF ArgsInv
<1>4. \A y, z \in Clients : arg'[y] \in Tasks /\ arg'[y] = arg'[z] => y = z
  BY DEF ArgsInv
<1>5. QED
  BY <1>1, <1>2, <1>3, <1>4 DEF ArgsInv

LEMMA ArgsNext == PoolInv /\ ArgsInv /\ [Next]_vars => ArgsInv'
<1> SUFFICES ASSUME PoolInv, ArgsInv, [Next]_vars PROVE ArgsInv'
  OBVIOUS
<1> USE TaskPoolAssumption DEF Threads, Clients, Frames, PoolInv, TypeInv, TypeOK, handleVars
<1>1. ASSUME NEW x \in Clients, NEW g \in Groups, CreateGroup(x, g) PROVE ArgsInv'
  BY <1>1, ArgsKept DEF CreateGroup
<1>2. ASSUME NEW x \in Clients, NEW t \in Tasks, NEW g \in Groups \cup {None},
             SubmitTask(x, t, g)
      PROVE  ArgsInv'
  <2>1. /\ pc[t] = "unborn" /\ pc'[t] = "fresh" /\ pc[x] = "client" /\ pc'[x] = "count"
        /\ \A y \in Frames \ {t, x} : pc'[y] = pc[y]
        /\ arg'[x] = t /\ \A y \in Clients \ {x} : arg'[y] = arg[y]
        /\ held' = held
    BY <1>2 DEF SubmitTask, InClient
  <2>2. t \notin held /\ \A y \in Clients : arg[y] # t
    BY <2>1 DEF ArgsInv
  <2>3. \A y \in Tasks : pc'[y] = "unborn" => pc[y] = "unborn"
    BY <2>1
  <2>4. \A y \in held' : pc'[y] # "unborn"
    BY <2>1, <2>3 DEF ArgsInv
  <2>5. \A y \in Clients \ {x} : pc'[y] = pc[y] \/ (arg[y] \notin Tasks /\ pc'[y] \notin Waiting)
    <3>1. arg[t] \notin Tasks /\ pc'[t] \notin Waiting
      BY <2>1 DEF ArgsInv, Waiting
    <3>2. Clients \subseteq Frames
      OBVIOUS
    <3>3. QED
      BY ONLY <2>1, <3>1, <3>2
  <2>6. pc'[t] # "unborn" /\ pc'[x] \notin Waiting /\ t \notin held'
    BY <2>1, <2>2 DEF Waiting
  <2>7. \A y \in Clients \ {x} : arg[y] \in Tasks => arg[y] \notin held'
    BY <2>1 DEF ArgsInv
  <2>8. QED
    BY ONLY <2>1, <2>2, <2>3, <2>4, <2>5, <2>6, <2>7, ArgsMoved, ArgsInv, x \in Clients
<1>3. ASSUME NEW x \in Clients, NEW t \in Tasks, ReleaseTask(x, t) PROVE ArgsInv'
  BY <1>3, ArgsKept DEF ReleaseTask
<1>4. ASSUME NEW x \in Clients, NEW h \in Tasks \cup Groups, BeginWait(x, h)
      PROVE  ArgsInv'
  <2>1. /\ pc[x] = "client" /\ pc'[x] = "test" /\ \A y \in Frames \ {x} : pc'[y] = pc[y]
        /\ arg'[x] = h /\ \A y \in Clients \ {x} : arg'[y] = arg[y]
        /\ held' = held \ {h} /\ (h \in Tasks => h \in held)
    BY <1>4 DEF BeginWait, InClient
  <2>2. \A y \in Clients \ {x} : arg[y] \in Tasks => arg[y] \notin held' /\ arg[y] # h
    BY <2>1 DEF ArgsInv
  <2>3. /\ \A y \in Tasks : pc'[y] = "unborn" => pc[y] = "unborn"
        /\ \A y \in Clients \ {x} : pc'[y] = pc[y]
    BY <2>1
  <2>4. \A y \in held' : pc'[y] # "unborn"
    BY <2>1, <2>3 DEF ArgsInv
  <2>5. h \in Tasks => pc'[h] # "unborn" /\ h \notin held'
    BY <2>1, <2>3 DEF ArgsInv
  <2>6. pc'[x] \in Waiting /\ h # None
    BY <2>1 DEF Waiting
  <2>7. QED
    BY ONLY <2>1, <2>2, <2>3, <2>4, <2>5, <2>6, ArgsMoved, ArgsInv, x \in Clients
<1>5. ASSUME NEW x \in Clients, CountTask(x) PROVE ArgsInv'
  BY <1>5, ArgsKept DEF CountTask
<1>6. ASSUME NEW x \in Clients, Enqueue(x) PROVE ArgsInv'
  <2>1. held' = held \cup {arg[x]}
    BY <1>6 DEF Enqueue
  <2>2. /\ pc[x] = "enqueue" /\ pc'[x] = "client" /\ x # arg[x]
        /\ arg[x] \in Tasks /\ pc[arg[x]] = "fresh" /\ pc'[arg[x]] = "queued"
        /\ arg'[x] = None /\ \A y \in Clients \ {x} : arg'[y] = arg[y]
        /\ \A y \in Clients \ {x, arg[x]} :
              \/ pc'[y] = pc[y]
              \/ pc[y] \in Waiting /\ pc'[y] \in Waiting
    BY <1>6, EnqueueMoves DEF Waiting
  <2>3. \A y \in Tasks : pc'[y] = "unborn" => pc[y] = "unborn"
    BY <2>2 DEF Waiting
  <2>4. \A y \in held' : pc'[y] # "unborn"
    BY <2>1, <2>2, <2>3 DEF ArgsInv
  <2>5. arg[arg[x]] \notin Tasks /\ pc'[arg[x]] \notin Waiting /\ pc'[x] \notin Waiting
    BY <2>2 DEF ArgsInv, Waiting
  <2>6. \A y \in Clients \ {x} : arg[y] \in Tasks => arg[y] \notin held' /\ arg[y] # None
    BY <2>1, <2>2 DEF ArgsInv
  <2>7. arg'[x] \notin Tasks
    BY <2>2
  <2>8. QED
    BY ONLY <2>2, <2>3, <2>4, <2>5, <2>6, <2>7, ArgsMoved, ArgsInv, x \in Clients
<1>7. ASSUME NEW x \in Clients, TestDone(x) \/ LockAndCheck(x) \/ FallAsleep(x)
      PROVE  ArgsInv'
  BY <1>7, ArgsKept DEF TestDone, LockAndCheck, FallAsleep, Goto, Waiting
<1>8. ASSUME NEW x \in Clients, EndWait(x) PROVE ArgsInv'
  <2>1. /\ pc[x] = "return" /\ \A y \in Frames \ {x} : pc'[y] = pc[y]
        /\ pc'[x] \in {"stop", "client"} /\ arg'[x] \in {Pool, None}
        /\ \A y \in Clients \ {x} : arg'[y] = arg[y]
        /\ held' = held
    BY <1>8 DEF EndWait
  <2>2. arg'[x] \notin Tasks /\ pc'[x] \notin Waiting
    BY <2>1 DEF Waiting
  <2>3. /\ \A y \in Tasks : pc'[y] = "unborn" => pc[y] = "unborn"
        /\ \A y \in Clients \ {x} : pc'[y] = pc[y]
    BY <2>1
  <2>4. \A y \in held' : pc'[y] # "unborn"
    BY <2>1, <2>3 DEF ArgsInv
  <2>5. \A y \in Clients \ {x} : arg[y] \in Tasks => arg[y] \notin held' /\ arg[y] # arg'[x]
    BY <2>1, <2>2 DEF ArgsInv
  <2>6. QED
    BY ONLY <2>1, <2>2, <2>3, <2>4, <2>5, ArgsMoved, ArgsInv, x \in Clients
<1>9. ASSUME NEW x \in Workers \cup Clients, NEW i \in 1..Len(queue),
             pc[x] \in {"poll", "steal"}, RunTask(x, i)
      PROVE  ArgsInv'
  <2>1. PICK t \in Tasks : t = queue[i] /\ pc[t] = "queued"
    BY DEF QueueInv
  <2>2. /\ \A f \in Frames :
              pc'[f] = IF f = t THEN "client" ELSE IF f = x THEN "exec" ELSE pc[f]
        /\ arg' = arg /\ held' = held
    BY <1>9, <2>1 DEF RunTask
  <2>3. arg[t] \notin Tasks
    BY <2>1 DEF ArgsInv, Waiting
  <2>4. \A y \in Clients : pc[y] = "poll" => arg[y] \notin Tasks
    BY DEF ArgsInv, Waiting
  <2>5. \A y \in Clients : \/ pc'[y] = pc[y]
                           \/ pc[y] \in Waiting /\ pc'[y] \in Waiting
                           \/ arg[y] \notin Tasks /\ pc'[y] \notin Waiting
    <3>1. x \in Clients => pc[x] = "steal"
      BY <1>9 DEF WorkerAt, CallerAt, ClientAt, TaskAt
    <3>2. CASE x \in Clients
      BY ONLY <2>1, <2>2, <2>3, <3>1, <3>2, Clients \subseteq Frames DEF Waiting
    <3>3. CASE x \notin Clients
      BY ONLY <2>1, <2>2, <2>3, <3>3, Clients \subseteq Frames DEF Waiting
    <3>4. QED
      BY <3>2, <3>3
  <2>6. \A y \in Tasks : pc'[y] = "unborn" => pc[y] = "unborn"
    BY <2>2
  <2>7. TypeInv
    OBVIOUS
  <2>8. QED
    BY ONLY <2>2, <2>5, <2>6, <2>7, ArgsKept, ArgsInv
<1>10. ASSUME NEW x \in Clients, StealTask(x) PROVE ArgsInv'
  BY <1>9, <1>10, ArgsKept DEF StealTask, Eligible, Goto, Waiting
<1>11. ASSUME NEW w \in Workers, Poll(w) PROVE ArgsInv'
  BY <1>9, <1>11, ArgsKept DEF Poll, Goto
<1>12. ASSUME NEW t \in Tasks, FinishCallback(t) PROVE ArgsInv'
  BY <1>12, ArgsKept DEF FinishCallback, ArgsInv, Waiting
<1>13. ASSUME NEW t \in Tasks, PublishDone(t) \/ DropPoolRef(t) \/ LeaveGroup(t) \/ UncountTask(t)
       PROVE  ArgsInv'
  BY <1>13, ArgsKept DEF PublishDone, DropPoolRef, LeaveGroup, UncountTask, ArgsInv, Waiting
<1>14. ASSUME NEW t \in Tasks, NotifyDone(t) PROVE ArgsInv'
  <2>1. arg' = arg /\ held' = held
    BY <1>14 DEF NotifyDone
  <2>2. QED
    BY <1>14, <2>1, NotifyMoves, ArgsKept DEF Resume, ArgsInv, Waiting
<1>15. ASSUME NEW f \in Frames, WakeSpuriously(f) PROVE ArgsInv'
  <2>1. /\ arg' = arg /\ held' = held
        /\ \A y \in Frames : \/ pc'[y] = pc[y]
                             \/ pc[y] = "asleep" /\ pc'[y] = "lock"
                             \/ pc[y] = "parked" /\ pc'[y] = "poll"
    <3>1. pc \in [Frames -> WorkerAt \cup CallerAt \cup TaskAt]
      OBVIOUS
    <3>2. QED
      BY ONLY <1>15, <3>1, f \in Frames DEF WakeSpuriously, handleVars
  <2>2. \A y \in Clients : \/ pc'[y] = pc[y]
                           \/ pc[y] \in Waiting /\ pc'[y] \in Waiting
                           \/ arg[y] \notin Tasks /\ pc'[y] \notin Waiting
    BY <2>1 DEF ArgsInv, Waiting
  <2>3. \A y \in Tasks : pc'[y] = "unborn" => pc[y] = "unborn"
    BY <2>1
  <2>4. TypeInv
    OBVIOUS
  <2>5. QED
    BY ONLY <2>1, <2>2, <2>3, <2>4, ArgsKept, ArgsInv
<1>16. ASSUME NEW c \in Callers, BeginDestroy(c) PROVE ArgsInv'
  <2>1. /\ pc[c] = "client" /\ pc'[c] = "test" /\ \A y \in Frames \ {c} : pc'[y] = pc[y]
        /\ arg'[c] = Pool /\ \A y \in Clients \ {c} : arg'[y] = arg[y]
        /\ held' = held
    BY <1>16 DEF BeginDestroy
  <2>2. arg'[c] \notin Tasks /\ arg'[c] # None
    BY <2>1
  <2>3. /\ \A y \in Tasks : pc'[y] = "unborn" => pc[y] = "unborn"
        /\ \A y \in Clients \ {c} : pc'[y] = pc[y]
    BY <2>1
  <2>4. \A y \in held' : pc'[y] # "unborn"
    BY <2>1, <2>3 DEF ArgsInv
  <2>5. \A y \in Clients \ {c} : arg[y] \in Tasks => arg[y] \notin held' /\ arg[y] # arg'[c]
    BY <2>1, <2>2 DEF ArgsInv
  <2>6. c \in Clients
    OBVIOUS
  <2>7. QED
    BY ONLY <2>1, <2>2, <2>3, <2>4, <2>5, <2>6, ArgsMoved, ArgsInv
<1>17. ASSUME NEW c \in Callers, StopWorkers(c) \/ JoinWorkers(c) PROVE ArgsInv'
  <2>1. /\ arg' = arg /\ held' = held /\ pc[c] \in {"stop", "join"} /\ pc'[c] \in {"join", "gone"}
        /\ \A y \in Frames \ {c} : pc'[y] = pc[y] \/ (pc[y] = "parked" /\ pc'[y] = "poll")
    <3>1. pc \in [Frames -> WorkerAt \cup CallerAt \cup TaskAt] /\ c \in Frames
      OBVIOUS
    <3>2. CASE StopWorkers(c)
      BY ONLY <3>1, <3>2, c \in Callers DEF StopWorkers, handleVars
    <3>3. CASE JoinWorkers(c)
      BY ONLY <3>1, <3>3, c \in Callers DEF JoinWorkers, handleVars
    <3>4. QED
      BY <1>17, <3>2, <3>3
  <2>2. \A y \in Clients : pc'[y] = pc[y] \/ (arg[y] \notin Tasks /\ pc'[y] \notin Waiting)
    BY <2>1 DEF ArgsInv, Waiting
  <2>3. \A y \in Tasks : pc'[y] = "unborn" => pc[y] = "unborn"
    BY <2>1
  <2>4. TypeInv
    OBVIOUS
  <2>5. QED
    BY ONLY <2>1, <2>2, <2>3, <2>4, ArgsKept, ArgsInv
<1>18. CASE UNCHANGED vars
  BY <1>18, ArgsKept DEF vars
<1>19. QED
  BY <1>1, <1>2, <1>3, <1>4, <1>5, <1>6, <1>7, <1>8, <1>10, <1>11, <1>12, <1>13, <1>14,
     <1>15, <1>16, <1>17, <1>18
  DEF Next, ClientCall, SubmitStep, WaitStep, TaskStep, Destroyed

-----------------------------------------------------------------------------
(* Once ~Pool has drained the pool, nothing counts in it any more.         *)
CloseInv ==
    \A c \in Callers : pc[c] \in {"stop", "join", "gone"} => arg[c] = Pool /\ remaining = 0

LEMMA CloseInit == Init => CloseInv
BY TaskPoolAssumption DEF Init, CloseInv, Frames, Threads

(* In a drained pool nobody submits and no callback runs.                  *)
LEMMA Drained ==
    ASSUME PoolInv, CloseInv, NEW c \in Callers, pc[c] \in {"stop", "join", "gone"}
    PROVE  /\ \A t \in Tasks : pc[t] \in {"unborn", "notify", "over"}
           /\ \A x \in Clients : ~Submitting(x)
           /\ queue = <<>>
<1> USE TaskPoolAssumption DEF PoolInv, Clients
<1>1. Tallied = {} /\ Closing
  BY PoolEmpty DEF CloseInv, Closing
<1>2. \A t \in Tasks : pc[t] \in Untallied
  BY <1>1 DEF Tallied
<1>3. \A x \in Clients : ~Submitting(x)
  BY <1>1, <1>2 DEF TallyInv, Submitting, Untallied
<1>4. \A t \in Tasks : pc[t] # "fresh"
  BY <1>3 DEF TallyInv
<1>5. queue = <<>>
  <2>1. queue \in Seq(Tasks)
    BY DEF TypeInv, TypeOK
  <2>2. \A i \in 1..Len(queue) : pc[queue[i]] = "queued" /\ queue[i] \in Tasks
    BY <2>1 DEF QueueInv
  <2>3. Len(queue) = 0
    BY <1>2, <2>1, <2>2 DEF Untallied
  <2>4. QED
    BY <2>1, <2>3
<1>6. QED
  BY <1>2, <1>3, <1>4, <1>5 DEF Untallied

(* A step that keeps the counter of a drained pool and drains no other.    *)
LEMMA CloseKept ==
    ASSUME CloseInv, UNCHANGED remaining,
           \A c \in Callers :
              \/ arg'[c] = arg[c] /\ pc'[c] = pc[c]
              \/ pc'[c] \notin {"stop", "join", "gone"}
    PROVE  CloseInv'
BY DEF CloseInv

LEMMA CloseNext == PoolInv /\ CloseInv /\ [Next]_vars => CloseInv'
<1> SUFFICES ASSUME PoolInv, CloseInv, [Next]_vars PROVE CloseInv'
  OBVIOUS
<1> USE TaskPoolAssumption DEF Threads, Clients, Frames, PoolInv, TypeInv, TypeOK, handleVars
<1>1. ASSUME NEW x \in Clients, ClientCall(x) PROVE CloseInv'
  <2>1. ASSUME NEW t \in Tasks, NEW g \in Groups \cup {None}, SubmitTask(x, t, g)
        PROVE  CloseInv'
    BY <2>1, CloseKept DEF SubmitTask, InClient
  <2>2. ASSUME NEW h \in Tasks \cup Groups, BeginWait(x, h) PROVE CloseInv'
    BY <2>2, CloseKept DEF BeginWait, InClient
  <2>3. QED
    BY <1>1, <2>1, <2>2, CloseKept DEF ClientCall, CreateGroup, ReleaseTask
<1>2. ASSUME NEW x \in Clients, CountTask(x) PROVE CloseInv'
  <2>1. Submitting(x) /\ \A c \in Callers : pc'[c] = pc[c] \/ pc'[c] = "enqueue"
    BY <1>2 DEF CountTask, Submitting
  <2>2. \A c \in Callers : pc'[c] \notin {"stop", "join", "gone"}
    BY <2>1, Drained
  <2>3. QED
    BY <2>2 DEF CloseInv
<1>3. ASSUME NEW x \in Clients, Enqueue(x) PROVE CloseInv'
  <2>1. remaining' = remaining
    BY <1>3 DEF Enqueue
  <2>2. \A c \in Callers : c # arg[x] /\ c \in Clients
    BY <1>3, EnqueueMoves
  <2>3. \A c \in Callers : \/ arg'[c] = arg[c] /\ pc'[c] = pc[c]
                           \/ pc'[c] \notin {"stop", "join", "gone"}
    BY <1>3, <2>2, EnqueueMoves
  <2>4. QED
    BY <2>1, <2>3, CloseKept
<1>4. ASSUME NEW x \in Clients, TestDone(x) \/ LockAndCheck(x) \/ FallAsleep(x)
      PROVE  CloseInv'
  BY <1>4, CloseKept DEF TestDone, LockAndCheck, FallAsleep, Goto
<1>5. ASSUME NEW x \in Clients, EndWait(x) PROVE CloseInv'
  <2>1. /\ pc[x] = "return" /\ pc' = [pc EXCEPT ![x] = IF arg[x] = Pool THEN "stop" ELSE "client"]
        /\ remaining' = remaining /\ arg' = [arg EXCEPT ![x] = IF @ = Pool THEN Pool ELSE None]
    BY <1>5 DEF EndWait
  <2>2. arg[x] = Pool => remaining = 0
    BY <2>1 DEF WaitInv, IsDone
  <2>3. QED
    BY <2>1, <2>2 DEF CloseInv
<1>6. ASSUME NEW x \in Workers \cup Clients, NEW i \in 1..Len(queue),
             pc[x] \in {"poll", "steal"}, RunTask(x, i)
      PROVE  CloseInv'
  BY <1>6, CloseKept DEF RunTask, QueueInv
<1>7. ASSUME NEW x \in Clients, StealTask(x) PROVE CloseInv'
  BY <1>6, <1>7, CloseKept DEF StealTask, Eligible, Goto
<1>8. ASSUME NEW w \in Workers, Poll(w) PROVE CloseInv'
  BY <1>6, <1>8, CloseKept DEF Poll, Goto
<1>9. ASSUME NEW t \in Tasks,
             FinishCallback(t) \/ PublishDone(t) \/ DropPoolRef(t) \/ LeaveGroup(t)
      PROVE  CloseInv'
  BY <1>9, CloseKept DEF FinishCallback, PublishDone, DropPoolRef, LeaveGroup
<1>10. ASSUME NEW t \in Tasks, UncountTask(t) PROVE CloseInv'
  <2>1. pc[t] = "uncount" /\ \A c \in Callers : pc'[c] = pc[c]
    BY <1>10 DEF UncountTask
  <2>2. \A c \in Callers : pc[c] \notin {"stop", "join", "gone"}
    BY <2>1, Drained
  <2>3. QED
    BY <2>1, <2>2 DEF CloseInv
<1>11. ASSUME NEW t \in Tasks, NotifyDone(t) PROVE CloseInv'
  <2>1. remaining' = remaining /\ arg' = arg
    BY <1>11 DEF NotifyDone
  <2>2. \A c \in Callers : c # t
    OBVIOUS
  <2>3. \A c \in Callers : pc'[c] = pc[c] \/ pc'[c] \notin {"stop", "join", "gone"}
    BY <1>11, <2>2, NotifyMoves DEF Resume
  <2>4. QED
    BY <2>1, <2>3, CloseKept
<1>12. ASSUME NEW f \in Frames, WakeSpuriously(f) PROVE CloseInv'
  BY <1>12, CloseKept DEF WakeSpuriously
<1>13. ASSUME NEW c \in Callers, BeginDestroy(c) PROVE CloseInv'
  BY <1>13, CloseKept DEF BeginDestroy
<1>14. ASSUME NEW c \in Callers, StopWorkers(c) \/ JoinWorkers(c) PROVE CloseInv'
  <2>1. /\ remaining' = remaining /\ arg' = arg /\ pc[c] \in {"stop", "join"}
        /\ \A d \in Callers \ {c} : pc'[d] = pc[d] \/ pc'[d] = "poll"
    BY <1>14 DEF StopWorkers, JoinWorkers
  <2>2. QED
    BY <2>1 DEF CloseInv
<1>15. CASE UNCHANGED vars
  BY <1>15, CloseKept DEF vars
<1>16. QED
  BY <1>1, <1>2, <1>3, <1>4, <1>5, <1>7, <1>8, <1>9, <1>10, <1>11, <1>12, <1>13, <1>14, <1>15
  DEF Next, SubmitStep, WaitStep, TaskStep, Destroyed

-----------------------------------------------------------------------------
One(holds) == IF holds THEN 1 ELSE 0

(* The handle of t is with a client, or in the hands of the call it made.  *)
Asked(t) == t \in held \/ \E x \in Clients : arg[x] = t

(* The count of a task is one for the pool and one for the handle.         *)
RefInv == \A t \in Tasks : refCount[t] = One(PoolHolds(t)) + One(Asked(t))

LEMMA RefInit == Init => RefInv
BY TaskPoolAssumption
DEF Init, RefInv, One, PoolHolds, Counted, Asked, Frames, Threads, Clients

LEMMA RefKept ==
    ASSUME RefInv, refCount' = refCount,
           \A t \in Tasks : /\ PoolHolds(t)' <=> PoolHolds(t)
                            /\ Asked(t)' <=> Asked(t)
    PROVE  RefInv'
BY DEF RefInv, One

(* The same for a step in which frames move, none of them to or from where *)
(* the pool has no reference.                                              *)
LEMMA RefMoved ==
    ASSUME RefInv, UNCHANGED <<refCount, held, arg>>,
           \A t \in Tasks :
              \/ pc'[t] = pc[t]
              \/ /\ pc[t] \notin {"unborn", "ungroup", "uncount", "notify", "over"}
                 /\ pc'[t] \notin {"unborn", "ungroup", "uncount", "notify", "over"}
              \/ /\ pc[t] \in {"ungroup", "uncount", "notify", "over"}
                 /\ pc'[t] \in {"ungroup", "uncount", "notify", "over"}
    PROVE  RefInv'
<1>1. \A t \in Tasks : PoolHolds(t)' <=> PoolHolds(t)
  BY DEF PoolHolds, Counted
<1>2. \A t \in Tasks : Asked(t)' <=> Asked(t)
  BY DEF Asked
<1>3. QED
  BY <1>1, <1>2, RefKept

(* A step in which one of the two references of a task goes.               *)
LEMMA RefDropped ==
    ASSUME RefInv, NEW t \in Tasks, refCount'[t] = refCount[t] - 1,
           \/ PoolHolds(t) /\ ~PoolHolds(t)' /\ (Asked(t)' <=> Asked(t))
           \/ Asked(t) /\ ~Asked(t)' /\ (PoolHolds(t)' <=> PoolHolds(t)),
           \A u \in Tasks \ {t} : /\ refCount'[u] = refCount[u]
                                  /\ PoolHolds(u)' <=> PoolHolds(u)
                                  /\ Asked(u)' <=> Asked(u)
    PROVE  RefInv'
<1>1. refCount'[t] = One(PoolHolds(t)') + One(Asked(t)')
  BY DEF RefInv, One
<1>2. \A u \in Tasks \ {t} : refCount'[u] = One(PoolHolds(u)') + One(Asked(u)')
  BY DEF RefInv, One
<1>3. QED
  BY ONLY <1>1, <1>2 DEF RefInv

LEMMA AskedKept ==
    ASSUME NEW t \in Tasks, t \in held' <=> t \in held,
           \A x \in Clients : arg'[x] = t <=> arg[x] = t
    PROVE  Asked(t)' <=> Asked(t)
BY DEF Asked

LEMMA RefNext == PoolInv /\ ArgsInv /\ CloseInv /\ RefInv /\ [Next]_vars => RefInv'
<1> SUFFICES ASSUME PoolInv, ArgsInv, CloseInv, RefInv, [Next]_vars PROVE RefInv'
  OBVIOUS
<1> USE TaskPoolAssumption DEF Threads, Clients, Frames, PoolInv, TypeInv, TypeOK, handleVars
<1>1. ASSUME NEW x \in Clients, NEW g \in Groups, CreateGroup(x, g) PROVE RefInv'
  BY <1>1, RefMoved DEF CreateGroup
<1>2. ASSUME NEW x \in Clients, NEW t \in Tasks, NEW g \in Groups \cup {None},
             SubmitTask(x, t, g)
      PROVE  RefInv'
  <2>1. /\ pc[t] = "unborn" /\ pc'[t] = "fresh" /\ pc[x] = "client" /\ pc'[x] = "count"
        /\ \A u \in Tasks \ {t, x} : pc'[u] = pc[u]
        /\ arg'[x] = t /\ \A y \in Clients \ {x} : arg'[y] = arg[y]
        /\ held' = held
        /\ refCount'[t] = 2 /\ \A u \in Tasks \ {t} : refCount'[u] = refCount[u]
    BY <1>2 DEF SubmitTask, InClient, InitialRefs
  <2>2. arg[x] \notin Tasks
    BY <2>1 DEF ArgsInv, Waiting
  <2>3. PoolHolds(t)' /\ Asked(t)'
    BY <2>1 DEF PoolHolds, Counted, Asked
  <2>4. \A u \in Tasks \ {t} : PoolHolds(u)' <=> PoolHolds(u)
    BY <2>1 DEF PoolHolds, Counted
  <2>5. \A u \in Tasks \ {t} : Asked(u)' <=> Asked(u)
    BY ONLY <2>1, <2>2, AskedKept
  <2>6. QED
    BY <2>1, <2>3, <2>4, <2>5, SMTT(20) DEF RefInv, One
<1>3. ASSUME NEW x \in Clients, NEW t \in Tasks, ReleaseTask(x, t) PROVE RefInv'
  <2>1. /\ pc' = pc /\ arg' = arg /\ t \in held /\ held' = held \ {t}
        /\ refCount'[t] = refCount[t] - 1
        /\ \A u \in Tasks \ {t} : refCount'[u] = refCount[u]
    BY <1>3 DEF ReleaseTask
  <2>2. Asked(t) /\ ~Asked(t)'
    BY <2>1 DEF Asked, ArgsInv
  <2>3. \A u \in Tasks : PoolHolds(u)' <=> PoolHolds(u)
    BY <2>1 DEF PoolHolds, Counted
  <2>4. \A u \in Tasks \ {t} : Asked(u)' <=> Asked(u)
    BY ONLY <2>1, AskedKept
  <2>5. QED
    BY ONLY <2>1, <2>2, <2>3, <2>4, RefDropped, RefInv, t \in Tasks
<1>4. ASSUME NEW x \in Clients, NEW h \in Tasks \cup Groups, BeginWait(x, h)
      PROVE  RefInv'
  <2>1. /\ pc[x] = "client" /\ pc'[x] = "test" /\ \A u \in Tasks \ {x} : pc'[u] = pc[u]
        /\ arg'[x] = h /\ \A y \in Clients \ {x} : arg'[y] = arg[y]
        /\ held' = held \ {h} /\ (h \in Tasks => h \in held)
        /\ refCount' = refCount
    BY <1>4 DEF BeginWait, InClient
  <2>2. arg[x] \notin Tasks
    BY <2>1 DEF ArgsInv, Waiting
  <2>3. \A u \in Tasks : PoolHolds(u)' <=> PoolHolds(u)
    BY <2>1 DEF PoolHolds, Counted
  <2>4. \A u \in Tasks : Asked(u)' <=> Asked(u)
    <3>1. \A u \in Tasks : u # h => (Asked(u)' <=> Asked(u))
      BY ONLY <2>1, <2>2, AskedKept
    <3>2. h \in Tasks => Asked(h)' /\ Asked(h)
      BY ONLY <2>1, x \in Clients DEF Asked
    <3>3. QED
      BY ONLY <3>1, <3>2
  <2>5. QED
    BY <2>1, <2>3, <2>4, RefKept
<1>5. ASSUME NEW x \in Clients, CountTask(x) PROVE RefInv'
  BY <1>5, RefMoved DEF CountTask
<1>6. ASSUME NEW x \in Clients, Enqueue(x) PROVE RefInv'
  <2>1. held' = held \cup {arg[x]} /\ refCount' = refCount
    BY <1>6 DEF Enqueue
  <2>2. \A u \in Tasks : Asked(u)' <=> Asked(u)
    <3>1. /\ arg[x] \in Tasks /\ arg'[x] = None
          /\ \A y \in Clients \ {x} : arg'[y] = arg[y]
      BY <1>6, EnqueueMoves
    <3>2. None \notin Tasks
      OBVIOUS
    <3>3. \A u \in Tasks : u # arg[x] => (Asked(u)' <=> Asked(u))
      BY ONLY <2>1, <3>1, <3>2, AskedKept
    <3>4. ASSUME NEW u \in Tasks, u = arg[x] PROVE Asked(u)' /\ Asked(u)
      BY ONLY <2>1, <3>4, x \in Clients DEF Asked
    <3>5. QED
      BY ONLY <3>3, <3>4
  <2>3. \A u \in Tasks : PoolHolds(u)' <=> PoolHolds(u)
    BY <1>6, EnqueueMoves DEF PoolHolds, Counted
  <2>4. QED
    BY <2>1, <2>2, <2>3, RefKept
<1>7. ASSUME NEW x \in Clients, TestDone(x) \/ LockAndCheck(x) \/ FallAsleep(x)
      PROVE  RefInv'
  BY <1>7, RefMoved DEF TestDone, LockAndCheck, FallAsleep, Goto
<1>8. ASSUME NEW x \in Clients, EndWait(x) PROVE RefInv'
  <2>1. /\ pc[x] = "return" /\ pc'[x] \in {"stop", "client"}
        /\ \A u \in Tasks \ {x} : pc'[u] = pc[u]
        /\ arg'[x] \in {Pool, None} /\ \A y \in Clients \ {x} : arg'[y] = arg[y]
        /\ held' = held
        /\ \A u \in Tasks : refCount'[u] = IF u = arg[x] THEN refCount[u] - 1 ELSE refCount[u]
    BY <1>8 DEF EndWait
  <2>2. \A u \in Tasks : PoolHolds(u)' <=> PoolHolds(u)
    BY <2>1 DEF PoolHolds, Counted
  <2>3. \A u \in Tasks : arg'[x] # u
    BY <2>1
  <2>4. \A u \in Tasks : u # arg[x] => (Asked(u)' <=> Asked(u))
    BY ONLY <2>1, <2>3, AskedKept
  <2>5. CASE arg[x] \in Tasks
    <3>1. PICK t \in Tasks : t = arg[x]
      BY <2>5
    <3>2. \A y \in Clients : arg'[y] # t
      BY ONLY <2>1, <2>3, <3>1, ArgsInv DEF ArgsInv
    <3>3. Asked(t) /\ ~Asked(t)'
      BY ONLY <2>1, <3>1, <3>2, ArgsInv, x \in Clients DEF ArgsInv, Asked
    <3>4. QED
      BY ONLY <2>1, <2>2, <2>4, <3>1, <3>3, RefDropped, RefInv
  <2>6. CASE arg[x] \notin Tasks
    <3>1. \A u \in Tasks : refCount'[u] = refCount[u]
      BY ONLY <2>1, <2>6
    <3>2. QED
      BY ONLY <2>2, <2>4, <2>6, <3>1, RefInv DEF RefInv, One
  <2>7. QED
    BY <2>5, <2>6
<1>9. ASSUME NEW x \in Workers \cup Clients, NEW i \in 1..Len(queue),
             pc[x] \in {"poll", "steal"}, RunTask(x, i)
      PROVE  RefInv'
  BY <1>9, RefMoved DEF RunTask, QueueInv
<1>10. ASSUME NEW x \in Clients, StealTask(x) PROVE RefInv'
  BY <1>9, <1>10, RefMoved DEF StealTask, Eligible, Goto
<1>11. ASSUME NEW w \in Workers, Poll(w) PROVE RefInv'
  BY <1>9, <1>11, RefMoved DEF Poll, Goto
<1>12. ASSUME NEW t \in Tasks, FinishCallback(t) \/ PublishDone(t) PROVE RefInv'
  BY <1>12, RefMoved DEF FinishCallback, PublishDone
<1>13. ASSUME NEW t \in Tasks, DropPoolRef(t) PROVE RefInv'
  <2>1. /\ pc[t] = "unref" /\ pc'[t] \in {"uncount", "ungroup"}
        /\ \A u \in Tasks \ {t} : pc'[u] = pc[u] /\ refCount'[u] = refCount[u]
        /\ refCount'[t] = refCount[t] - 1 /\ arg' = arg /\ held' = held
    BY <1>13 DEF DropPoolRef
  <2>2. /\ PoolHolds(t) /\ ~PoolHolds(t)'
        /\ \A u \in Tasks \ {t} : PoolHolds(u)' <=> PoolHolds(u)
    BY <2>1 DEF PoolHolds, Counted
  <2>3. \A u \in Tasks : Asked(u)' <=> Asked(u)
    BY <2>1 DEF Asked
  <2>4. QED
    BY ONLY <2>1, <2>2, <2>3, RefDropped, RefInv, t \in Tasks
<1>14. ASSUME NEW t \in Tasks, LeaveGroup(t) \/ UncountTask(t) PROVE RefInv'
  BY <1>14, RefMoved DEF LeaveGroup, UncountTask
<1>15. ASSUME NEW t \in Tasks, NotifyDone(t) PROVE RefInv'
  <2>1. UNCHANGED <<refCount, held, arg>>
    BY <1>15 DEF NotifyDone
  <2>2. /\ pc[t] = "notify" /\ pc'[t] = "over"
        /\ \A y \in Frames \ {t} :
              \/ pc'[y] = pc[y] /\ pc[y] # "asleep"
              \/ pc[y] = "exec" /\ pc'[y] = Resume(y)
              \/ pc[y] = "asleep" /\ pc'[y] = "lock"
    BY ONLY PoolInv, t \in Tasks, <1>15, NotifyMoves DEF PoolInv
  <2>3. \A u \in Tasks \ {t} :
           \/ pc'[u] = pc[u]
           \/ /\ pc[u] \in {"exec", "asleep"}
              /\ pc'[u] \in {"poll", "test", "lock"}
    BY ONLY <2>2 DEF Resume, Frames
  <2>4. QED
    BY ONLY RefInv, <2>1, <2>2, <2>3, RefMoved
<1>16. ASSUME NEW f \in Frames, WakeSpuriously(f) PROVE RefInv'
  BY <1>16, RefMoved DEF WakeSpuriously
<1>17. ASSUME NEW c \in Callers, BeginDestroy(c) PROVE RefInv'
  <2>1. /\ pc[c] = "client" /\ \A u \in Tasks : pc'[u] = pc[u]
        /\ arg'[c] = Pool /\ \A y \in Clients \ {c} : arg'[y] = arg[y]
        /\ held' = held /\ refCount' = refCount
    BY <1>17 DEF BeginDestroy
  <2>2. arg[c] \notin Tasks
    BY <2>1 DEF ArgsInv, Waiting
  <2>3. \A u \in Tasks : PoolHolds(u)' <=> PoolHolds(u)
    BY <2>1 DEF PoolHolds, Counted
  <2>4. \A u \in Tasks : Asked(u)' <=> Asked(u)
    <3>1. Pool \notin Tasks
      OBVIOUS
    <3>2. QED
      BY ONLY <2>1, <2>2, <3>1, AskedKept
  <2>5. QED
    BY <2>1, <2>3, <2>4, RefKept
<1>18. ASSUME NEW c \in Callers, StopWorkers(c) PROVE RefInv'
  BY <1>18, RefMoved DEF StopWorkers
<1>19. ASSUME NEW c \in Callers, JoinWorkers(c) PROVE RefInv'
  <2>1. /\ pc[c] = "join" /\ \A u \in Tasks : pc'[u] = pc[u]
        /\ arg' = arg /\ held' = held
        /\ refCount' = [t \in Tasks |-> IF t \in Range(queue) THEN refCount[t] - 1
                                        ELSE refCount[t]]
    BY <1>19 DEF JoinWorkers
  <2>2. queue = <<>>
    BY <2>1, Drained
  <2>3. Range(queue) = {}
    BY <2>2 DEF Range
  <2>4. refCount' = refCount
    BY <2>1, <2>3
  <2>5. QED
    BY <2>1, <2>4, RefMoved
<1>20. CASE UNCHANGED vars
  BY <1>20, RefMoved DEF vars
<1>21. QED
  BY <1>1, <1>2, <1>3, <1>4, <1>5, <1>6, <1>7, <1>8, <1>10, <1>11, <1>12, <1>13, <1>14,
     <1>15, <1>16, <1>17, <1>18, <1>19, <1>20
  DEF Next, ClientCall, SubmitStep, WaitStep, TaskStep, Destroyed

-----------------------------------------------------------------------------
(* The callbacks that lie on the stack of a thread.                        *)
InCallback(t) == pc[t] \in ClientAt
Callbacks(th) == {t \in Tasks : InCallback(t) /\ host[t] = th}

(* tls_stealDepth counts them.                                             *)
DepthInv == \A th \in Threads : stealDepth[th] = Cardinality(Callbacks(th))

LEMMA DepthInit == Init => DepthInv
<1> SUFFICES ASSUME Init PROVE DepthInv
  OBVIOUS
<1>1. \A th \in Threads : Callbacks(th) = {}
  BY TaskPoolAssumption DEF Init, Callbacks, InCallback, ClientAt, Frames, Threads
<1>2. QED
  BY <1>1, FS_EmptySet DEF Init, DepthInv

LEMMA DepthKept ==
    ASSUME DepthInv, UNCHANGED <<stealDepth, host>>,
           \A t \in Tasks : InCallback(t)' <=> InCallback(t)
    PROVE  DepthInv'
<1>1. \A th \in Threads : Callbacks(th)' = Callbacks(th)
  BY DEF Callbacks
<1>2. QED
  BY <1>1 DEF DepthInv

(* A waiting callback is itself on the stack of its thread.                *)
LEMMA NestedDepth ==
    ASSUME PoolInv, DepthInv, NEW t \in Tasks, InCallback(t)
    PROVE  host[t] \in Threads /\ stealDepth[host[t]] # 0
<1>1. host[t] \in Threads
  BY DEF PoolInv, StackInv, OnStack, InCallback, ClientAt, Frames
<1>2. t \in Callbacks(host[t])
  BY DEF Callbacks
<1>3. IsFiniteSet(Callbacks(host[t]))
  BY TasksFinite DEF Callbacks
<1>4. Cardinality(Callbacks(host[t])) # 0
  BY ONLY <1>2, <1>3, FS_EmptySet
<1>5. QED
  BY <1>1, <1>4 DEF DepthInv

LEMMA RunTaskDepth ==
    ASSUME PoolInv, DepthInv, NEW x \in Workers \cup Clients, NEW i \in 1..Len(queue),
           pc[x] \in {"poll", "steal"}, RunTask(x, i)
    PROVE  DepthInv'
<1> USE TaskPoolAssumption DEF Threads, Clients, Frames, PoolInv, TypeInv, TypeOK
<1>1. PICK t \in Tasks : t = queue[i] /\ pc[t] = "queued"
  BY DEF QueueInv
<1>2. x \in Frames /\ host[x] \in Threads /\ t # x
  BY <1>1 DEF StackInv, OnStack
<1>3. PICK th \in Threads : th = host[x]
  BY <1>2
<1>4. /\ pc'[t] = "client" /\ host'[t] = th
      /\ \A u \in Tasks \ {t} : /\ host'[u] = host[u]
                                /\ pc'[u] = pc[u] \/ (u = x /\ pc'[u] = "exec")
      /\ stealDepth' = [stealDepth EXCEPT ![th] = stealDepth[th] + 1]
  BY <1>1, <1>2, <1>3 DEF RunTask
<1>5. x \in Tasks => pc[x] = "steal"
  BY DEF TaskAt, ClientAt
<1>6. /\ ~InCallback(t) /\ InCallback(t)'
      /\ \A u \in Tasks \ {t} : InCallback(u)' <=> InCallback(u)
  BY <1>1, <1>4, <1>5 DEF InCallback, ClientAt
<1>7. \A d \in Threads \ {th} : Callbacks(d)' = Callbacks(d)
  BY ONLY <1>4, <1>6 DEF Callbacks
<1>8. t \notin Callbacks(th) /\ Callbacks(th)' = Callbacks(th) \cup {t}
  BY ONLY <1>4, <1>6, t \in Tasks DEF Callbacks
<1>9. IsFiniteSet(Callbacks(th))
  BY TasksFinite DEF Callbacks
<1>10. Cardinality(Callbacks(th)') = Cardinality(Callbacks(th)) + 1
  BY ONLY <1>8, <1>9, FS_AddElement
<1>11. stealDepth \in [Threads -> Int] /\ th \in Threads
  OBVIOUS
<1>12. QED
  BY ONLY <1>4, <1>7, <1>10, <1>11, DepthInv DEF DepthInv

LEMMA DepthNext == PoolInv /\ DepthInv /\ [Next]_vars => DepthInv'
<1> SUFFICES ASSUME PoolInv, DepthInv, [Next]_vars PROVE DepthInv'
  OBVIOUS
<1> USE TaskPoolAssumption DEF Threads, Clients, Frames, PoolInv, TypeInv, TypeOK, handleVars,
        InCallback, ClientAt
<1>1. ASSUME NEW x \in Clients, NEW t \in Tasks, NEW g \in Groups \cup {None},
             SubmitTask(x, t, g)
      PROVE  DepthInv'
  BY <1>1, DepthKept DEF SubmitTask, InClient
<1>2. ASSUME NEW x \in Clients, NEW h \in Tasks \cup Groups, BeginWait(x, h)
      PROVE  DepthInv'
  BY <1>2, DepthKept DEF BeginWait, InClient
<1>3. ASSUME NEW x \in Clients, ClientCall(x) PROVE DepthInv'
  BY <1>1, <1>2, <1>3, DepthKept DEF ClientCall, CreateGroup, ReleaseTask
<1>4. ASSUME NEW x \in Clients, CountTask(x) PROVE DepthInv'
  BY <1>4, DepthKept DEF CountTask
<1>5. ASSUME NEW x \in Clients, Enqueue(x) PROVE DepthInv'
  <2>1. UNCHANGED <<stealDepth, host>>
    BY <1>5 DEF Enqueue
  <2>2. QED
    BY <1>5, <2>1, EnqueueMoves, DepthKept
<1>6. ASSUME NEW x \in Clients, TestDone(x) \/ LockAndCheck(x) \/ FallAsleep(x)
      PROVE  DepthInv'
  BY <1>6, DepthKept DEF TestDone, LockAndCheck, FallAsleep, Goto
<1>7. ASSUME NEW x \in Clients, EndWait(x) PROVE DepthInv'
  <2>1. x \in Tasks => arg[x] # Pool
    BY DEF ArgInv
  <2>2. QED
    BY <1>7, <2>1, DepthKept DEF EndWait
<1>8. ASSUME NEW x \in Clients, StealTask(x) PROVE DepthInv'
  BY <1>8, RunTaskDepth, DepthKept DEF StealTask, Eligible, Goto
<1>9. ASSUME NEW w \in Workers, Poll(w) PROVE DepthInv'
  BY <1>9, RunTaskDepth, DepthKept DEF Poll, Goto
<1>10. ASSUME NEW t \in Tasks, FinishCallback(t) PROVE DepthInv'
  <2>1. InCallback(t)
    BY <1>10 DEF FinishCallback
  <2>2. PICK th \in Threads : th = host[t]
    BY <2>1, NestedDepth
  <2>3. /\ ~InCallback(t)' /\ \A u \in Tasks \ {t} : InCallback(u)' <=> InCallback(u)
        /\ host' = host /\ stealDepth' = [stealDepth EXCEPT ![th] = stealDepth[th] - 1]
    BY <1>10, <2>2 DEF FinishCallback
  <2>4. \A d \in Threads \ {th} : Callbacks(d)' = Callbacks(d)
    BY ONLY <2>2, <2>3 DEF Callbacks
  <2>5. t \in Callbacks(th) /\ Callbacks(th)' = Callbacks(th) \ {t}
    BY ONLY <2>1, <2>2, <2>3, t \in Tasks DEF Callbacks
  <2>6. IsFiniteSet(Callbacks(th))
    BY TasksFinite DEF Callbacks
  <2>7. Cardinality(Callbacks(th)') = Cardinality(Callbacks(th)) - 1
    BY ONLY <2>5, <2>6, FS_RemoveElement
  <2>8. stealDepth \in [Threads -> Int]
    OBVIOUS
  <2>9. QED
    BY ONLY <2>3, <2>4, <2>7, <2>8, th \in Threads, DepthInv DEF DepthInv
<1>11. ASSUME NEW t \in Tasks, PublishDone(t) \/ DropPoolRef(t) \/ LeaveGroup(t) \/ UncountTask(t)
       PROVE  DepthInv'
  BY <1>11, DepthKept DEF PublishDone, DropPoolRef, LeaveGroup, UncountTask
<1>12. ASSUME NEW t \in Tasks, NotifyDone(t) PROVE DepthInv'
  <2>1. UNCHANGED <<stealDepth, host>>
    BY <1>12 DEF NotifyDone
  <2>2. QED
    BY <1>12, <2>1, NotifyMoves, DepthKept DEF Resume
<1>13. ASSUME NEW f \in Frames, WakeSpuriously(f) PROVE DepthInv'
  <2>1. f \in Tasks => pc[f] # "parked"
    BY DEF TaskAt
  <2>2. QED
    BY <1>13, <2>1, DepthKept DEF WakeSpuriously
<1>14. ASSUME NEW c \in Callers, BeginDestroy(c) \/ StopWorkers(c) \/ JoinWorkers(c)
       PROVE  DepthInv'
  <2>1. \A t \in Tasks : pc[t] # "parked"
    BY DEF TaskAt
  <2>2. QED
    BY <1>14, <2>1, DepthKept DEF BeginDestroy, StopWorkers, JoinWorkers
<1>15. CASE UNCHANGED vars
  BY <1>15, DepthKept DEF vars
<1>16. QED
  BY <1>3, <1>4, <1>5, <1>6, <1>7, <1>8, <1>9, <1>10, <1>11, <1>12, <1>13, <1>14, <1>15
  DEF Next, SubmitStep, WaitStep, TaskStep, Destroyed

-----------------------------------------------------------------------------
(* What a waiting callback executes.                                       *)
LEMMA NestInit == Init => NestedStealing
BY TaskPoolAssumption DEF Init, NestedStealing, Running, Frames, Threads

(* A step that starts no task keeps what the suspended callbacks wait for. *)
LEMMA NestKept ==
    ASSUME StackInv, NestedStealing, parent' = parent,
           \A t \in Tasks : Running(t)' => Running(t) /\ group'[t] = group[t],
           \A x \in Tasks : pc[x] = "exec" => arg'[x] = arg[x]
    PROVE  NestedStealing'
BY DEF NestedStealing, StackInv, OnStack, Running

LEMMA RunTaskNests ==
    ASSUME PoolInv, ArgsInv, DepthInv, NestedStealing, NEW x \in Workers \cup Clients,
           NEW i \in 1..Len(queue), pc[x] \in {"poll", "steal"}, RunTask(x, i),
           x \in Clients => i \in Eligible(x)
    PROVE  NestedStealing'
<1> USE TaskPoolAssumption DEF Threads, Clients, Frames, PoolInv, TypeInv, TypeOK
<1>1. PICK t \in Tasks : t = queue[i] /\ pc[t] = "queued"
  BY DEF QueueInv
<1>2. /\ \A u \in Tasks \ {t} : /\ parent'[u] = parent[u]
                                /\ Running(u)' => Running(u)
      /\ parent'[t] = x /\ arg' = arg /\ group' = group
  BY <1>1 DEF RunTask, Running
<1>3. x \in Tasks => arg[x] \in Groups /\ group[t] = arg[x]
  <2>1. SUFFICES ASSUME x \in Tasks PROVE arg[x] \in Groups /\ group[t] = arg[x]
    OBVIOUS
  <2>2. pc[x] = "steal" /\ InCallback(x)
    BY <2>1 DEF TaskAt, ClientAt, InCallback
  <2>3. stealDepth[host[x]] # 0
    BY <2>1, <2>2, NestedDepth
  <2>4. group[t] = arg[x]
    BY <1>1, <2>1, <2>3 DEF Eligible
  <2>5. arg[x] # None
    BY <2>1, <2>2 DEF ArgsInv, Waiting
  <2>6. QED
    BY <2>4, <2>5
<1>4. ASSUME NEW u \in Tasks \ {t}, Running(u)', parent'[u] \in Tasks
      PROVE  arg'[parent'[u]] \in Groups /\ group'[u] = arg'[parent'[u]]
  BY <1>2, <1>4 DEF NestedStealing
<1>5. QED
  BY <1>2, <1>3, <1>4 DEF NestedStealing

LEMMA NestNext ==
    PoolInv /\ ArgsInv /\ DepthInv /\ NestedStealing /\ [Next]_vars => NestedStealing'
<1> SUFFICES ASSUME PoolInv, ArgsInv, DepthInv, NestedStealing, [Next]_vars
             PROVE  NestedStealing'
  OBVIOUS
<1> USE TaskPoolAssumption DEF Threads, Clients, Frames, PoolInv, TypeInv, TypeOK, handleVars,
        Running
<1>1. ASSUME NEW x \in Clients, NEW t \in Tasks, NEW g \in Groups \cup {None},
             SubmitTask(x, t, g)
      PROVE  NestedStealing'
  BY <1>1, NestKept DEF SubmitTask, InClient
<1>2. ASSUME NEW x \in Clients, NEW h \in Tasks \cup Groups, BeginWait(x, h)
      PROVE  NestedStealing'
  BY <1>2, NestKept DEF BeginWait, InClient
<1>3. ASSUME NEW x \in Clients, ClientCall(x) PROVE NestedStealing'
  BY <1>1, <1>2, <1>3, NestKept DEF ClientCall, CreateGroup, ReleaseTask
<1>4. ASSUME NEW x \in Clients, CountTask(x) PROVE NestedStealing'
  BY <1>4, NestKept DEF CountTask
<1>5. ASSUME NEW x \in Clients, Enqueue(x) PROVE NestedStealing'
  <2>1. parent' = parent /\ group' = group
    BY <1>5 DEF Enqueue
  <2>2. \A y \in Tasks : pc[y] = "exec" => arg'[y] = arg[y]
    BY <1>5, EnqueueMoves
  <2>3. \A y \in Tasks : Running(y)' => Running(y)
    BY <1>5, EnqueueMoves
  <2>4. QED
    BY <2>1, <2>2, <2>3, NestKept
<1>6. ASSUME NEW x \in Clients, TestDone(x) \/ LockAndCheck(x) \/ FallAsleep(x)
      PROVE  NestedStealing'
  BY <1>6, NestKept DEF TestDone, LockAndCheck, FallAsleep, Goto
<1>7. ASSUME NEW x \in Clients, EndWait(x) PROVE NestedStealing'
  BY <1>7, NestKept DEF EndWait
<1>8. ASSUME NEW x \in Clients, StealTask(x) PROVE NestedStealing'
  <2>1. CASE Eligible(x) = {} /\ Goto(x, "lock")
    BY <1>8, <2>1, NestKept DEF StealTask, Goto
  <2>2. ASSUME NEW i \in Eligible(x), RunTask(x, i) PROVE NestedStealing'
    <3>1. i \in 1..Len(queue) /\ pc[x] = "steal"
      BY <1>8 DEF StealTask, Eligible
    <3>2. QED
      BY <2>2, <3>1, RunTaskNests
  <2>3. QED
    BY <1>8, <2>1, <2>2 DEF StealTask
<1>9. ASSUME NEW w \in Workers, Poll(w) PROVE NestedStealing'
  <2>1. w \notin Clients
    OBVIOUS
  <2>2. QED
    BY <1>9, <2>1, RunTaskNests, NestKept DEF Poll, Goto
<1>10. ASSUME NEW t \in Tasks,
              \/ FinishCallback(t) \/ PublishDone(t) \/ DropPoolRef(t)
              \/ LeaveGroup(t) \/ UncountTask(t)
       PROVE  NestedStealing'
  BY <1>10, NestKept
  DEF FinishCallback, PublishDone, DropPoolRef, LeaveGroup, UncountTask
<1>11. ASSUME NEW t \in Tasks, NotifyDone(t) PROVE NestedStealing'
  <2>1. parent' = parent /\ group' = group /\ arg' = arg
    BY <1>11 DEF NotifyDone
  <2>2. QED
    BY <1>11, <2>1, NotifyMoves, NestKept
<1>12. ASSUME NEW f \in Frames, WakeSpuriously(f) PROVE NestedStealing'
  BY <1>12, NestKept DEF WakeSpuriously
<1>13. ASSUME NEW c \in Callers, BeginDestroy(c) \/ StopWorkers(c) \/ JoinWorkers(c)
       PROVE  NestedStealing'
  BY <1>13, NestKept DEF BeginDestroy, StopWorkers, JoinWorkers
<1>14. CASE UNCHANGED vars
  BY <1>14, NestKept DEF vars
<1>15. QED
  BY <1>3, <1>4, <1>5, <1>6, <1>7, <1>8, <1>9, <1>10, <1>11, <1>12, <1>13, <1>14
  DEF Next, SubmitStep, WaitStep, TaskStep, Destroyed

-----------------------------------------------------------------------------
Polling == {w \in Workers : pc[w] = "poll"}

LEMMA WorkersFinite ==
    ASSUME NEW S \in SUBSET Workers
    PROVE  IsFiniteSet(S) /\ Cardinality(S) \in Nat
BY TaskPoolAssumption, FS_Subset, FS_CardinalityType DEF Frames, Threads

LEMMA IdleInit == Init => NoIdleWorker
BY TaskPoolAssumption DEF Init, NoIdleWorker, Frames, Threads

(* A step that parks nobody, adds nothing to the queue and lets no worker  *)
(* stop polling.                                                           *)
LEMMA IdleKept ==
    ASSUME TypeInv, NoIdleWorker, queue' = queue,
           \A w \in Workers : pc'[w] = pc[w] \/ (pc'[w] # "parked" /\ pc[w] # "poll")
    PROVE  NoIdleWorker'
<1>1. Polling \subseteq Polling'
  BY DEF Polling
<1>2. IsFiniteSet(Polling') /\ Cardinality(Polling') \in Nat /\ Cardinality(Polling) \in Nat
  BY WorkersFinite DEF Polling
<1>3. Cardinality(Polling) <= Cardinality(Polling')
  BY <1>1, <1>2, FS_Subset
<1>4. (\E w \in Workers : pc'[w] = "parked") => (\E w \in Workers : pc[w] = "parked")
  OBVIOUS
<1>5. Len(queue) \in Nat /\ Len(queue') = Len(queue)
  BY DEF TypeInv, TypeOK
<1>6. QED
  BY <1>2, <1>3, <1>4, <1>5 DEF NoIdleWorker, Polling

(* The one who takes a task from the queue is a worker that polled, or a   *)
(* client.                                                                 *)
LEMMA RunTaskIdle ==
    ASSUME PoolInv, NoIdleWorker, NEW x \in Workers \cup Clients,
           NEW i \in 1..Len(queue), pc[x] \in {"poll", "steal"}, RunTask(x, i)
    PROVE  NoIdleWorker'
<1> USE TaskPoolAssumption DEF Threads, Clients, Frames, PoolInv, TypeInv, TypeOK
<1>1. queue[i] \in Tasks /\ queue[i] \notin Workers
  OBVIOUS
<1>2. \A w \in Workers : pc'[w] = IF w = x THEN "exec" ELSE pc[w]
  BY <1>1 DEF RunTask
<1>3. queue' = RemoveAt(queue, i)
  BY DEF RunTask
<1>4. Len(queue') = Len(queue) - 1 /\ Len(queue) \in Nat
  BY <1>3, RemoveAtProperties
<1>5. Polling' = Polling \ {x}
  BY <1>2 DEF Polling
<1>6. IsFiniteSet(Polling) /\ Cardinality(Polling) \in Nat /\ Cardinality(Polling') \in Nat
  BY WorkersFinite DEF Polling
<1>7. Cardinality(Polling') >= Cardinality(Polling) - 1
  <2>1. CASE x \in Polling
    <3>1. Cardinality(Polling') = Cardinality(Polling) - 1
      BY ONLY <1>5, <1>6, <2>1, FS_RemoveElement
    <3>2. QED
      BY ONLY <1>6, <3>1
  <2>2. CASE x \notin Polling
    <3>1. Polling' = Polling
      BY <1>5, <2>2
    <3>2. QED
      BY ONLY <1>6, <3>1
  <2>3. QED
    BY <2>1, <2>2
<1>8. (\E w \in Workers : pc'[w] = "parked") => (\E w \in Workers : pc[w] = "parked")
  BY <1>2
<1>9. QED
  BY ONLY <1>4, <1>6, <1>7, <1>8, NoIdleWorker DEF NoIdleWorker, Polling

LEMMA IdleNext == PoolInv /\ CloseInv /\ NoIdleWorker /\ [Next]_vars => NoIdleWorker'
<1> SUFFICES ASSUME PoolInv, CloseInv, NoIdleWorker, [Next]_vars PROVE NoIdleWorker'
  OBVIOUS
<1> USE TaskPoolAssumption DEF Threads, Clients, Frames, PoolInv, TypeInv, TypeOK, handleVars
<1>1. ASSUME NEW x \in Clients, NEW t \in Tasks, NEW g \in Groups \cup {None},
             SubmitTask(x, t, g)
      PROVE  NoIdleWorker'
  BY <1>1, IdleKept DEF SubmitTask, InClient
<1>2. ASSUME NEW x \in Clients, NEW h \in Tasks \cup Groups, BeginWait(x, h)
      PROVE  NoIdleWorker'
  BY <1>2, IdleKept DEF BeginWait, InClient
<1>3. ASSUME NEW x \in Clients, ClientCall(x) PROVE NoIdleWorker'
  BY <1>1, <1>2, <1>3, IdleKept DEF ClientCall, CreateGroup, ReleaseTask
<1>4. ASSUME NEW x \in Clients, CountTask(x) PROVE NoIdleWorker'
  BY <1>4, IdleKept DEF CountTask
<1>5. ASSUME NEW x \in Clients, Enqueue(x) PROVE NoIdleWorker'
  <2>1. PICK woken \in NotifyOne :
           pc' = [f \in Frames |-> IF f = x THEN "client"
                                   ELSE IF f = arg[x] THEN "queued"
                                   ELSE IF f \in woken THEN "poll"
                                   ELSE WakeStealer(f)]
    BY <1>5 DEF Enqueue
  <2>2. x \notin Workers /\ arg[x] \notin Workers
    BY <1>5, EnqueueMoves
  <2>3. \A w \in Workers : pc[w] # "asleep"
    BY DEF WorkerAt
  <2>4. \A w \in Workers : pc'[w] = IF w \in woken THEN "poll" ELSE pc[w]
    BY <2>1, <2>2, <2>3 DEF WakeStealer
  <2>5. Len(queue') = Len(queue) + 1 /\ Len(queue) \in Nat
    BY <1>5 DEF Enqueue, ArgInv
  <2>6. CASE \A w \in Workers : pc[w] # "parked"
    BY <2>4, <2>6 DEF NoIdleWorker
  <2>7. ASSUME NEW v \in Workers, pc[v] = "parked" PROVE NoIdleWorker'
    <3>1. PICK w \in Workers : pc[w] = "parked" /\ woken = {w}
      BY <2>7 DEF NotifyOne
    <3>2. w \notin Polling /\ Polling' = Polling \cup {w}
      BY <2>4, <3>1 DEF Polling
    <3>3. IsFiniteSet(Polling) /\ Cardinality(Polling) \in Nat
      BY WorkersFinite DEF Polling
    <3>4. Cardinality(Polling') = Cardinality(Polling) + 1
      BY ONLY <3>2, <3>3, FS_AddElement
    <3>5. Len(queue) <= Cardinality(Polling)
      BY <2>7 DEF NoIdleWorker, Polling
    <3>6. QED
      BY ONLY <2>5, <3>3, <3>4, <3>5 DEF NoIdleWorker, Polling
  <2>8. QED
    BY <2>6, <2>7
<1>6. ASSUME NEW x \in Clients, TestDone(x) \/ LockAndCheck(x) \/ FallAsleep(x)
      PROVE  NoIdleWorker'
  BY <1>6, IdleKept DEF TestDone, LockAndCheck, FallAsleep, Goto
<1>7. ASSUME NEW x \in Clients, EndWait(x) PROVE NoIdleWorker'
  BY <1>7, IdleKept DEF EndWait
<1>8. ASSUME NEW x \in Clients, StealTask(x) PROVE NoIdleWorker'
  BY <1>8, RunTaskIdle, IdleKept DEF StealTask, Eligible, Goto
<1>9. ASSUME NEW w \in Workers, Poll(w) PROVE NoIdleWorker'
  <2>1. CASE queue # <<>>
    BY <1>9, <2>1, RunTaskIdle DEF Poll
  <2>2. CASE queue = <<>>
    <3>1. queue' = <<>>
      BY <1>9, <2>2 DEF Poll, Goto
    <3>2. Len(queue') = 0
      BY <3>1
    <3>3. Cardinality(Polling') \in Nat
      BY WorkersFinite DEF Polling
    <3>4. QED
      BY ONLY <3>2, <3>3 DEF NoIdleWorker, Polling
  <2>3. QED
    BY <2>1, <2>2
<1>10. ASSUME NEW t \in Tasks,
              \/ FinishCallback(t) \/ PublishDone(t) \/ DropPoolRef(t)
              \/ LeaveGroup(t) \/ UncountTask(t)
       PROVE  NoIdleWorker'
  BY <1>10, IdleKept DEF FinishCallback, PublishDone, DropPoolRef, LeaveGroup, UncountTask
<1>11. ASSUME NEW t \in Tasks, NotifyDone(t) PROVE NoIdleWorker'
  <2>1. queue' = queue
    BY <1>11 DEF NotifyDone
  <2>2. \A w \in Workers : w # t
    OBVIOUS
  <2>3. QED
    BY <1>11, <2>1, <2>2, NotifyMoves, IdleKept DEF Resume
<1>12. ASSUME NEW f \in Frames, WakeSpuriously(f) PROVE NoIdleWorker'
  BY <1>12, IdleKept DEF WakeSpuriously
<1>13. ASSUME NEW c \in Callers, BeginDestroy(c) \/ StopWorkers(c) PROVE NoIdleWorker'
  BY <1>13, IdleKept DEF BeginDestroy, StopWorkers
<1>14. ASSUME NEW c \in Callers, JoinWorkers(c) PROVE NoIdleWorker'
  <2>1. queue = <<>>
    BY <1>14, Drained DEF JoinWorkers
  <2>2. QED
    BY <1>14, <2>1, IdleKept DEF JoinWorkers
<1>15. CASE UNCHANGED vars
  BY <1>15, IdleKept DEF vars
<1>16. QED
  BY <1>3, <1>4, <1>5, <1>6, <1>7, <1>8, <1>9, <1>10, <1>11, <1>12, <1>13, <1>14, <1>15
  DEF Next, SubmitStep, WaitStep, TaskStep, Destroyed

-----------------------------------------------------------------------------
SafetyInv ==
    /\ PoolInv /\ DoneInv /\ ArgsInv /\ CloseInv /\ RefInv
    /\ DepthInv /\ NestedStealing /\ NoIdleWorker

LEMMA SafetyInvariant == Spec => []SafetyInv
<1>1. Init => PoolInv
  BY TypeInit, StackInit, QueueInit, GroupInit, TallyInit, WaitInit, SleepInit DEF PoolInv
<1>2. Init => SafetyInv
  BY <1>1, DoneInit, ArgsInit, CloseInit, RefInit, DepthInit, NestInit, IdleInit DEF SafetyInv
<1>3. PoolInv /\ [Next]_vars => PoolInv'
  BY TypeNext, StackNext, QueueNext, GroupNext, TallyNext, WaitNext, SleepNext DEF PoolInv
<1>4. SafetyInv /\ [Next]_vars => SafetyInv'
  BY <1>3, DoneNext, ArgsNext, CloseNext, RefNext, DepthNext, NestNext, IdleNext DEF SafetyInv
<1>5. QED
  BY <1>2, <1>4, PTL DEF Spec

(* No task is deleted while a submitter, the queue, the executing thread   *)
(* or a waiter still uses it, and one nobody holds is deleted              *)
(* (task-pool.cpp:220-227, 267-269, 386-387, 478-483).                     *)
THEOREM TasksOutliveUses == Spec => []TasksAlive
<1>1. ASSUME ArgsInv, RefInv, NEW t \in Tasks
      PROVE  refCount[t] > 0 <=> PoolHolds(t) \/ ClientHolds(t)
  <2>1. ClientHolds(t) <=> Asked(t)
    BY <1>1 DEF ArgsInv, ClientHolds, Asked
  <2>2. refCount[t] = One(PoolHolds(t)) + One(Asked(t))
    BY <1>1 DEF RefInv
  <2>3. QED
    BY ONLY <2>1, <2>2 DEF One
<1>2. SafetyInv => TasksAlive
  BY <1>1 DEF SafetyInv, TasksAlive
<1>3. QED
  BY <1>2, SafetyInvariant, PTL

(* A callback that waits executes nothing but tasks of the group it waits  *)
(* on (task-pool.cpp:12-16, 277-293).                                      *)
THEOREM WaitsStealTheirOwn == Spec => []NestedStealing
<1>1. SafetyInv => NestedStealing
  BY DEF SafetyInv
<1>2. QED
  BY <1>1, SafetyInvariant, PTL

(* While a worker is parked, every queued task has an awake worker of its  *)
(* own coming for it (task-pool.cpp:237, 414-427).                         *)
THEOREM WorkersWakeForTasks == Spec => []NoIdleWorker
<1>1. SafetyInv => NoIdleWorker
  BY DEF SafetyInv
<1>2. QED
  BY <1>1, SafetyInvariant, PTL

-----------------------------------------------------------------------------
(* The pool implements its contract.  A task's status follows from where   *)
(* it is.                                                                  *)
StatusAt(place) ==
    IF place \in {"unref", "ungroup", "uncount", "notify", "over"} THEN "complete"
    ELSE IF place = "unborn" THEN "idle"
    ELSE IF place \in {"fresh", "queued"} THEN "pending"
    ELSE "running"

LEMMA StatusByPlace ==
    ASSUME DoneInv, NEW t \in Tasks
    PROVE  Status(t) = StatusAt(pc[t])
BY DEF DoneInv, Completing, Status, StatusAt, Running

statuses == [t \in Tasks |-> Status(t)]
waits    == [x \in Clients |-> WaitsOn(x)]

(* A step that changes no status, no membership and no wait.               *)
LEMMA ContractKept ==
    ASSUME DoneInv, DoneInv', group' = group,
           \A t \in Tasks : StatusAt(pc'[t]) = StatusAt(pc[t]),
           \A x \in Clients : WaitsOn(x)' = WaitsOn(x)
    PROVE  UNCHANGED Contract!contractVars
<1>1. \A t \in Tasks : Status(t)' = StatusAt(pc'[t])
  BY DEF DoneInv, Completing, Status, StatusAt, Running
<1>2. statuses' = statuses
  BY <1>1, StatusByPlace DEF statuses
<1>3. waits' = waits
  BY DEF waits
<1>4. QED
  BY <1>2, <1>3 DEF Contract!contractVars, statuses, waits

(* A step in which one task moves on from status to status.                *)
LEMMA StatusMoved ==
    ASSUME DoneInv, DoneInv', NEW t \in Tasks,
           \A u \in Tasks \ {t} : StatusAt(pc'[u]) = StatusAt(pc[u])
    PROVE  statuses' = [statuses EXCEPT ![t] = StatusAt(pc'[t])]
<1>1. \A u \in Tasks : Status(u)' = StatusAt(pc'[u])
  BY DEF DoneInv, Completing, Status, StatusAt, Running
<1>2. \A u \in Tasks : Status(u) = StatusAt(pc[u])
  BY StatusByPlace
<1>3. QED
  BY <1>1, <1>2 DEF statuses

(* A step in which one frame begins or ends to wait.                       *)
LEMMA WaitsMoved ==
    ASSUME NEW x \in Clients, \A y \in Clients \ {x} : WaitsOn(y)' = WaitsOn(y)
    PROVE  waits' = [waits EXCEPT ![x] = WaitsOn(x)']
BY DEF waits

(* The initial states and the steps of the pool are those of its contract. *)
LEMMA ContractInitial == Init => Contract!ContractInit
<1> SUFFICES ASSUME Init PROVE Contract!ContractInit
  OBVIOUS
<1> USE TaskPoolAssumption DEF Init, Frames, Threads, Clients
<1>1. \A t \in Tasks : Status(t) = "idle"
  BY DEF Status, Running
<1>2. \A x \in Clients : WaitsOn(x) = None
  BY DEF WaitsOn, Waiting
<1>3. QED
  BY <1>1, <1>2 DEF Contract!ContractInit

LEMMA RunTaskStarts ==
    ASSUME SafetyInv, SafetyInv', NEW x \in Workers \cup Clients, NEW i \in 1..Len(queue),
           pc[x] \in {"poll", "steal"}, RunTask(x, i)
    PROVE  Contract!ContractNext
<1> USE TaskPoolAssumption DEF Threads, Clients, Frames, SafetyInv, PoolInv, TypeInv, TypeOK
<1>1. PICK t \in Tasks : t = queue[i] /\ pc[t] = "queued"
  BY SMTT(20) DEF QueueInv
<1>2. /\ \A f \in Frames :
            pc'[f] = IF f = t THEN "client" ELSE IF f = x THEN "exec" ELSE pc[f]
      /\ arg' = arg /\ group' = group /\ x # t
  BY <1>1 DEF RunTask
<1>3. x \in Clients => pc[x] = "steal"
  BY DEF CallerAt, TaskAt, ClientAt
<1>4. \A y \in Clients : WaitsOn(y)' = WaitsOn(y)
  BY <1>1, <1>2, <1>3, ZenonT(40) DEF WaitsOn, Waiting
<1>5. \A u \in Tasks \ {t} : StatusAt(pc'[u]) = StatusAt(pc[u])
  BY <1>2, <1>3 DEF StatusAt
<1>6. statuses' = [statuses EXCEPT ![t] = "running"]
  BY <1>2, <1>5, StatusMoved DEF StatusAt
<1>7. statuses[t] = "pending"
  BY <1>1, StatusByPlace DEF statuses, StatusAt
<1>8. waits' = waits
  BY <1>4 DEF waits
<1>9. Contract!Start(t)
  BY <1>2, <1>6, <1>7, <1>8 DEF Contract!Start, statuses, waits
<1>10. QED
  BY <1>9 DEF Contract!ContractNext

LEMMA ContractStep ==
    SafetyInv /\ SafetyInv' /\ [Next]_vars => [Contract!ContractNext]_(Contract!contractVars)
<1> DEFINE Step == [Contract!ContractNext]_(Contract!contractVars)
<1> SUFFICES ASSUME SafetyInv, SafetyInv', [Next]_vars PROVE Step
  OBVIOUS
<1> USE TaskPoolAssumption DEF Threads, Clients, Frames, handleVars
<1>0. /\ DoneInv /\ DoneInv' /\ PoolInv /\ TypeInv /\ TypeOK /\ QueueInv
      /\ pc \in [Frames -> WorkerAt \cup CallerAt \cup TaskAt]
      /\ arg \in [Clients -> Tasks \cup Groups \cup {Pool, None}]
      /\ group \in [Tasks -> Groups \cup {None}]
      /\ Tasks \subseteq Clients /\ Clients \subseteq Frames
  BY DEF SafetyInv, PoolInv, TypeInv, TypeOK
<1> HIDE DEF Step
<1>1. ASSUME UNCHANGED Contract!contractVars PROVE Step
  BY <1>1 DEF Step
<1>2. ASSUME Contract!ContractNext PROVE Step
  BY <1>2 DEF Step
<1>3. ASSUME NEW x \in Clients, (\E g \in Groups : CreateGroup(x, g)) \/ \E t \in Tasks : ReleaseTask(x, t)
      PROVE  Step
  <2>1. UNCHANGED <<pc, arg, group>>
    BY <1>3 DEF CreateGroup, ReleaseTask
  <2>2. \A y \in Clients : WaitsOn(y)' = WaitsOn(y)
    BY <2>1 DEF WaitsOn
  <2>3. QED
    BY <1>0, <1>1, <2>1, <2>2, ContractKept
<1>4. ASSUME NEW x \in Clients, NEW t \in Tasks, NEW g \in Groups \cup {None},
             SubmitTask(x, t, g)
      PROVE  Step
  <2>1. /\ pc[t] = "unborn" /\ pc'[t] = "fresh" /\ pc[x] = "client" /\ pc'[x] = "count"
        /\ \A y \in Frames \ {t, x} : pc'[y] = pc[y]
        /\ \A y \in Clients \ {x} : arg'[y] = arg[y]
        /\ group' = [group EXCEPT ![t] = g]
    BY <1>0, <1>4 DEF SubmitTask, InClient
  <2>2. \A y \in Clients : WaitsOn(y)' = WaitsOn(y)
    BY <1>0, <2>1 DEF WaitsOn, Waiting
  <2>3. \A u \in Tasks \ {t} : StatusAt(pc'[u]) = StatusAt(pc[u])
    BY <1>0, <2>1 DEF StatusAt
  <2>4. statuses' = [statuses EXCEPT ![t] = "pending"]
    BY <1>0, <2>1, <2>3, StatusMoved DEF StatusAt
  <2>5. statuses[t] = "idle"
    BY <1>0, <2>1, StatusByPlace DEF statuses, StatusAt
  <2>6. waits' = waits
    BY <2>2 DEF waits
  <2>7. Contract!Submit(t, g)
    BY <2>1, <2>4, <2>5, <2>6 DEF Contract!Submit, statuses, waits
  <2>8. QED
    BY <1>2, <2>7 DEF Contract!ContractNext
<1>5. ASSUME NEW x \in Clients, NEW h \in Tasks \cup Groups \cup {Pool}, pc[x] = "client",
             pc' = [pc EXCEPT ![x] = "test"], arg' = [arg EXCEPT ![x] = h], group' = group
      PROVE  Step
  <2>1. \A y \in Clients \ {x} : WaitsOn(y)' = WaitsOn(y)
    BY <1>0, <1>5 DEF WaitsOn
  <2>2. WaitsOn(x) = None /\ WaitsOn(x)' = h
    BY <1>0, <1>5 DEF WaitsOn, Waiting
  <2>3. waits' = [waits EXCEPT ![x] = h] /\ waits[x] = None
    BY <2>1, <2>2, WaitsMoved DEF waits
  <2>4. \A u \in Tasks : StatusAt(pc'[u]) = StatusAt(pc[u])
    BY <1>0, <1>5 DEF StatusAt
  <2>5. statuses' = statuses
    <3>1. \A u \in Tasks : Status(u)' = StatusAt(pc'[u])
      BY <1>0 DEF DoneInv, Completing, Status, StatusAt, Running
    <3>2. QED
      BY <1>0, <2>4, <3>1, StatusByPlace DEF statuses
  <2>6. Contract!AskFor(x, h)
    BY <1>5, <2>3, <2>5 DEF Contract!AskFor, statuses, waits
  <2>7. QED
    BY <1>2, <2>6 DEF Contract!ContractNext
<1>6. ASSUME NEW x \in Clients, NEW h \in Tasks \cup Groups, BeginWait(x, h)
      PROVE  Step
  BY <1>5, <1>6 DEF BeginWait, InClient
<1>7. ASSUME NEW c \in Callers, BeginDestroy(c) PROVE Step
  BY <1>5, <1>7 DEF BeginDestroy
<1>8. ASSUME NEW x \in Clients, CountTask(x) PROVE Step
  <2>1. /\ pc[x] = "count" /\ pc'[x] = "enqueue" /\ arg' = arg /\ group' = group
        /\ \A y \in Frames \ {x} : pc'[y] = pc[y]
    BY <1>0, <1>8 DEF CountTask
  <2>2. \A y \in Clients : WaitsOn(y)' = WaitsOn(y)
    BY <1>0, <2>1 DEF WaitsOn, Waiting
  <2>3. \A u \in Tasks : StatusAt(pc'[u]) = StatusAt(pc[u])
    BY <1>0, <2>1 DEF StatusAt
  <2>4. QED
    BY <1>0, <1>1, <2>1, <2>2, <2>3, ContractKept
<1>9. ASSUME NEW x \in Clients, Enqueue(x) PROVE Step
  <2>1. /\ pc[x] = "enqueue" /\ pc'[x] = "client" /\ x # arg[x]
        /\ arg[x] \in Tasks /\ pc[arg[x]] = "fresh" /\ pc'[arg[x]] = "queued"
        /\ \A y \in Clients \ {x} : arg'[y] = arg[y]
        /\ \A y \in Clients \ {x, arg[x]} : \/ pc'[y] = pc[y]
                                            \/ pc[y] = "asleep" /\ pc'[y] = "lock"
    BY <1>0, <1>9, EnqueueMoves
  <2>2. \A y \in Clients : WaitsOn(y)' = WaitsOn(y)
    BY <2>1 DEF WaitsOn, Waiting
  <2>3. \A u \in Tasks : StatusAt(pc'[u]) = StatusAt(pc[u])
    BY <1>0, <2>1 DEF StatusAt
  <2>4. group' = group
    BY <1>9 DEF Enqueue
  <2>5. QED
    BY <1>0, <1>1, <2>2, <2>3, <2>4, ContractKept
<1>10. ASSUME NEW x \in Clients, pc[x] \in Waiting \ {"return"}, arg' = arg, group' = group,
              NEW l \in Waiting \ {"return"}, pc' = [pc EXCEPT ![x] = l]
       PROVE  Step
  <2>1. \A y \in Clients : WaitsOn(y)' = WaitsOn(y)
    BY <1>0, <1>10 DEF WaitsOn
  <2>2. \A u \in Tasks : StatusAt(pc'[u]) = StatusAt(pc[u])
    BY <1>0, <1>10 DEF StatusAt, Waiting
  <2>3. QED
    BY <1>0, <1>1, <1>10, <2>1, <2>2, ContractKept
<1>11. ASSUME NEW x \in Clients, pc[x] = "test", Goto(x, "return"), IsDone(x) PROVE Step
  <2>1. /\ pc' = [pc EXCEPT ![x] = "return"] /\ arg' = arg /\ group' = group
    BY <1>11 DEF Goto
  <2>2. \A y \in Clients \ {x} : WaitsOn(y)' = WaitsOn(y)
    BY <1>0, <2>1 DEF WaitsOn
  <2>3. WaitsOn(x) = arg[x] /\ WaitsOn(x)' = None
    BY <1>0, <1>11, <2>1 DEF WaitsOn, Waiting
  <2>4. arg[x] # None
    BY <1>0, <1>11 DEF IsDone
  <2>5. waits' = [waits EXCEPT ![x] = None] /\ waits[x] = arg[x]
    BY <2>2, <2>3, WaitsMoved DEF waits
  <2>6. \A u \in Tasks : StatusAt(pc'[u]) = StatusAt(pc[u])
    BY <1>0, <1>11, <2>1 DEF StatusAt
  <2>7. statuses' = statuses
    <3>1. \A u \in Tasks : Status(u)' = StatusAt(pc'[u])
      BY <1>0 DEF DoneInv, Completing, Status, StatusAt, Running
    <3>2. QED
      BY <1>0, <2>6, <3>1, StatusByPlace DEF statuses
  <2>8. ASSUME NEW t \in Tasks, t = arg[x] \/ group[t] = arg[x] \/ arg[x] = Pool
        PROVE  statuses[t] \in {"idle", "complete"}
    <3>1. /\ arg[x] = t => done[t]
          /\ group[t] = arg[x] => ~Counted(t)
          /\ arg[x] = Pool => pc[t] \in {"unborn", "notify", "over"}
      BY <1>0, <1>11, DoneCovers
    <3>2. Status(t) = StatusAt(pc[t])
      BY <1>0, StatusByPlace
    <3>3. CASE arg[x] = t
      BY <1>0, <3>1, <3>2, <3>3 DEF statuses, DoneInv, Completing, StatusAt
    <3>4. CASE group[t] = arg[x]
      BY <3>1, <3>2, <3>4 DEF statuses, Counted, StatusAt
    <3>5. CASE arg[x] = Pool
      BY <3>1, <3>2, <3>5 DEF statuses, StatusAt
    <3>6. QED
      BY <2>8, <3>3, <3>4, <3>5
  <2>9. Contract!Answer(x)
    BY <2>1, <2>4, <2>5, <2>7, <2>8 DEF Contract!Answer, Contract!Covered, statuses, waits
  <2>10. QED
    BY <1>2, <2>9 DEF Contract!ContractNext
<1>12. ASSUME NEW x \in Clients, TestDone(x) PROVE Step
  <2>1. CASE IsDone(x)
    BY <1>11, <1>12, <2>1 DEF TestDone
  <2>2. CASE ~IsDone(x)
    <3>1. PICK l \in {"steal", "lock"} : Goto(x, l)
      BY <1>12, <2>2 DEF TestDone
    <3>2. QED
      BY <1>10, <1>12, <3>1 DEF TestDone, Goto, Waiting
  <2>3. QED
    BY <2>1, <2>2
<1>13. ASSUME NEW x \in Clients, StealTask(x) PROVE Step
  <2>1. CASE Eligible(x) = {} /\ Goto(x, "lock")
    BY <1>10, <1>13, <2>1 DEF StealTask, Goto, Waiting
  <2>2. ASSUME NEW i \in Eligible(x), RunTask(x, i) PROVE Step
    <3>1. i \in 1..Len(queue) /\ pc[x] = "steal"
      BY <1>0, <1>13 DEF StealTask, Eligible, TypeOK
    <3>2. QED
      BY <1>2, <2>2, <3>1, RunTaskStarts
  <2>3. QED
    BY <1>13, <2>1, <2>2 DEF StealTask
<1>14. ASSUME NEW x \in Clients, LockAndCheck(x) PROVE Step
  <2>1. PICK l \in {"test", "sleep"} : Goto(x, l)
    BY <1>14 DEF LockAndCheck
  <2>2. QED
    BY <1>10, <1>14, <2>1 DEF LockAndCheck, Goto, Waiting
<1>15. ASSUME NEW x \in Clients, FallAsleep(x) PROVE Step
  BY <1>10, <1>15 DEF FallAsleep, Goto, Waiting
<1>16. ASSUME NEW x \in Clients, EndWait(x) PROVE Step
  <2>1. /\ pc[x] = "return" /\ pc'[x] \in {"stop", "client"} /\ group' = group
        /\ x \in Tasks => pc'[x] = "client"
        /\ \A y \in Frames \ {x} : pc'[y] = pc[y]
        /\ \A y \in Clients \ {x} : arg'[y] = arg[y]
    BY <1>0, <1>16 DEF EndWait, TypeInv, ArgInv
  <2>2. \A y \in Clients : WaitsOn(y)' = WaitsOn(y)
    BY <1>0, <2>1 DEF WaitsOn, Waiting
  <2>3. \A u \in Tasks : StatusAt(pc'[u]) = StatusAt(pc[u])
    BY <1>0, <2>1 DEF StatusAt
  <2>4. QED
    BY <1>0, <1>1, <2>1, <2>2, <2>3, ContractKept
<1>17. ASSUME NEW w \in Workers, Poll(w) PROVE Step
  <2>1. CASE queue # <<>>
    BY <1>0, <1>2, <1>17, <2>1, RunTaskStarts DEF Poll, TypeOK
  <2>2. CASE queue = <<>>
    <3>1. arg' = arg /\ group' = group /\ \A y \in Clients : pc'[y] = pc[y]
      BY <1>0, <1>17, <2>2 DEF Poll, Goto
    <3>2. \A y \in Clients : WaitsOn(y)' = WaitsOn(y)
      BY <3>1 DEF WaitsOn
    <3>3. QED
      BY <1>0, <1>1, <3>1, <3>2, ContractKept
  <2>3. QED
    BY <2>1, <2>2
<1>18. ASSUME NEW t \in Tasks, PublishDone(t) PROVE Step
  <2>1. /\ pc[t] = "publish" /\ pc'[t] = "unref" /\ arg' = arg /\ group' = group
        /\ \A y \in Frames \ {t} : pc'[y] = pc[y]
    BY <1>0, <1>18 DEF PublishDone
  <2>2. \A y \in Clients : WaitsOn(y)' = WaitsOn(y)
    BY <1>0, <2>1 DEF WaitsOn, Waiting
  <2>3. statuses' = [statuses EXCEPT ![t] = "complete"]
    BY <1>0, <2>1, StatusMoved DEF StatusAt
  <2>4. statuses[t] = "running"
    BY <1>0, <2>1, StatusByPlace DEF statuses, StatusAt
  <2>5. waits' = waits
    BY <2>2 DEF waits
  <2>6. Contract!Complete(t)
    BY <2>1, <2>3, <2>4, <2>5 DEF Contract!Complete, statuses, waits
  <2>7. QED
    BY <1>2, <2>6 DEF Contract!ContractNext
<1>19. ASSUME NEW t \in Tasks,
              FinishCallback(t) \/ DropPoolRef(t) \/ LeaveGroup(t) \/ UncountTask(t)
       PROVE  Step
  <2>1. /\ \/ pc[t] = "client" /\ pc'[t] = "publish"
           \/ /\ pc[t] \in {"unref", "ungroup", "uncount"}
              /\ pc'[t] \in {"ungroup", "uncount", "notify"}
        /\ arg' = arg /\ group' = group /\ \A y \in Frames \ {t} : pc'[y] = pc[y]
    BY <1>0, <1>19 DEF FinishCallback, DropPoolRef, LeaveGroup, UncountTask
  <2>2. \A y \in Clients : WaitsOn(y)' = WaitsOn(y)
    BY <1>0, <2>1 DEF WaitsOn, Waiting
  <2>3. \A u \in Tasks : StatusAt(pc'[u]) = StatusAt(pc[u])
    BY <1>0, <2>1 DEF StatusAt
  <2>4. QED
    BY <1>0, <1>1, <2>1, <2>2, <2>3, ContractKept
<1>20. ASSUME NEW t \in Tasks, NotifyDone(t) PROVE Step
  <2>1. arg' = arg /\ group' = group
    BY <1>20 DEF NotifyDone
  <2>2. /\ pc[t] = "notify" /\ pc'[t] = "over"
        /\ \A y \in Frames \ {t} : \/ pc'[y] = pc[y]
                                   \/ pc[y] = "exec" /\ pc'[y] = Resume(y)
                                   \/ pc[y] = "asleep" /\ pc'[y] = "lock"
    BY <1>0, <1>20, NotifyMoves DEF PoolInv
  <2>3. \A y \in Clients : Resume(y) = "test"
    BY DEF Resume
  <2>4. \A y \in Clients : WaitsOn(y)' = WaitsOn(y)
    BY <1>0, <2>1, <2>2, <2>3 DEF WaitsOn, Waiting
  <2>5. \A u \in Tasks : StatusAt(pc'[u]) = StatusAt(pc[u])
    BY <1>0, <2>2, <2>3 DEF StatusAt
  <2>6. QED
    BY <1>0, <1>1, <2>1, <2>4, <2>5, ContractKept
<1>21. ASSUME NEW f \in Frames, WakeSpuriously(f) PROVE Step
  <2>1. /\ arg' = arg /\ group' = group
        /\ \A y \in Clients : pc'[y] = pc[y] \/ (pc[y] = "asleep" /\ pc'[y] = "lock")
                              \/ (pc[y] = "parked" /\ pc'[y] = "poll")
    BY <1>0, <1>21 DEF WakeSpuriously
  <2>2. \A y \in Clients : WaitsOn(y)' = WaitsOn(y)
    BY <2>1 DEF WaitsOn, Waiting
  <2>3. \A u \in Tasks : StatusAt(pc'[u]) = StatusAt(pc[u])
    BY <1>0, <2>1 DEF StatusAt
  <2>4. QED
    BY <1>0, <1>1, <2>1, <2>2, <2>3, ContractKept
<1>22. ASSUME NEW c \in Callers, StopWorkers(c) \/ JoinWorkers(c) PROVE Step
  <2>1. /\ arg' = arg /\ group' = group
        /\ \A y \in Clients : \/ pc'[y] = pc[y]
                              \/ pc[y] = "parked" /\ pc'[y] = "poll"
                              \/ /\ pc[y] \in {"stop", "join"}
                                 /\ pc'[y] \in {"join", "gone"} /\ y \in Callers
    BY <1>0, <1>22 DEF StopWorkers, JoinWorkers
  <2>2. \A y \in Clients : WaitsOn(y)' = WaitsOn(y)
    BY <2>1 DEF WaitsOn, Waiting
  <2>3. \A u \in Tasks : StatusAt(pc'[u]) = StatusAt(pc[u])
    BY <1>0, <2>1 DEF StatusAt
  <2>4. QED
    BY <1>0, <1>1, <2>1, <2>2, <2>3, ContractKept
<1>23. CASE UNCHANGED vars
  <2>1. UNCHANGED <<pc, arg, group>>
    BY <1>23 DEF vars
  <2>2. \A y \in Clients : WaitsOn(y)' = WaitsOn(y)
    BY <2>1 DEF WaitsOn
  <2>3. QED
    BY <1>0, <1>1, <2>1, <2>2, ContractKept
<1>24. QED
  BY <1>3, <1>4, <1>6, <1>7, <1>8, <1>9, <1>12, <1>13, <1>14, <1>15, <1>16, <1>17, <1>18,
     <1>19, <1>20, <1>21, <1>22, <1>23
  DEF Next, ClientCall, SubmitStep, WaitStep, TaskStep, Destroyed

(* Every behaviour of the pool is one its interface allows: a submitted    *)
(* task runs once, a wait ends only when all it waits for has finished     *)
(* (slang-rhi.h:4055-4115).                                                *)
THEOREM PoolImplementsContract == Spec => ImplementsContract
<1>1. SafetyInv /\ SafetyInv' /\ [Next]_vars => [Contract!ContractNext]_(Contract!contractVars)
  BY ContractStep
<1>2. QED
  BY <1>1, ContractInitial, SafetyInvariant, PTL
  DEF Spec, ImplementsContract, Contract!ContractSpec
=============================================================================
