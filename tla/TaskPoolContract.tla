-------------------------- MODULE TaskPoolContract --------------------------
(***************************************************************************)
(* What the ITaskPool interface promises its clients                       *)
(* (include/slang-rhi.h:4047-4116), with no queue, no lock and no thread:  *)
(* every submitted task runs once, and a wait ends only when all it waits  *)
(* for has finished, payload deletion included.  TaskPool implements it.   *)
(***************************************************************************)
EXTENDS Naturals

CONSTANTS Tasks, Groups, Waiters, None, Pool

VARIABLES status,   \* progress of each task
          member,   \* the group each task was submitted into
          waiting   \* what each waiter waits on, or None

contractVars == <<status, member, waiting>>

(* The tasks a wait on h answers for.                                      *)
Covered(h) ==
    IF h = Pool THEN Tasks ELSE {t \in Tasks : t = h \/ member[t] = h}

ContractInit ==
    /\ status = [t \in Tasks |-> "idle"]
    /\ member = [t \in Tasks |-> None]
    /\ waiting = [x \in Waiters |-> None]

Submit(t, g) ==
    /\ status[t] = "idle"
    /\ status' = [status EXCEPT ![t] = "pending"]
    /\ member' = [member EXCEPT ![t] = g]
    /\ UNCHANGED waiting

Start(t) ==
    /\ status[t] = "pending"
    /\ status' = [status EXCEPT ![t] = "running"]
    /\ UNCHANGED <<member, waiting>>

Complete(t) ==
    /\ status[t] = "running"
    /\ status' = [status EXCEPT ![t] = "complete"]
    /\ UNCHANGED <<member, waiting>>

AskFor(x, h) ==
    /\ waiting[x] = None
    /\ waiting' = [waiting EXCEPT ![x] = h]
    /\ UNCHANGED <<status, member>>

Answer(x) ==
    /\ waiting[x] # None
    /\ \A t \in Covered(waiting[x]) : status[t] \in {"idle", "complete"}
    /\ waiting' = [waiting EXCEPT ![x] = None]
    /\ UNCHANGED <<status, member>>

ContractNext ==
    \/ \E t \in Tasks :
           \/ \E g \in Groups \cup {None} : Submit(t, g)
           \/ Start(t)
           \/ Complete(t)
    \/ \E x \in Waiters :
           \/ \E h \in Tasks \cup Groups \cup {Pool} : AskFor(x, h)
           \/ Answer(x)

ContractSpec == ContractInit /\ [][ContractNext]_contractVars
=============================================================================
