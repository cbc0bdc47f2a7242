------------------------------ MODULE MCTaskPool ------------------------------
(* Instances of TaskPool for TLC: who submits what into which group, and   *)
(* who may release or wait on which handle.                                *)
EXTENDS TaskPool

CONSTANTS w1, w2, c1, c2, t1, t2, t3, g1, g2

WorkerSymmetry == Permutations(Workers)

(* A callback waits on a group of its own and on nothing else, which the   *)
(* documentation calls safe.                                               *)
SubmitsNested == {<<c1, t1, None>>, <<t1, t2, g1>>, <<c1, t3, None>>}
ConsumesSafe  == {<<c1, t1>>, <<c1, t3>>, <<t1, g1>>}

(* Two clients that may wait at the same time: the first one groups t1,    *)
(* whose callback adds t2 to its own group; the second one may take over   *)
(* the handle of t1 and has a task t3 of its own, whose handle it keeps.   *)
SubmitsMany  == {<<c1, t1, g1>>, <<t1, t2, g1>>, <<c2, t3, None>>}
ConsumesMany == {<<c1, t1>>, <<c2, t1>>, <<t1, t2>>, <<c1, g1>>}
===============================================================================
