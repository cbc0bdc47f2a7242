------------------------------ MODULE QueryPool -----------------------------
(***************************************************************************)
(* Timestamp queries: the state of each slot of a pool                     *)
(* (src/src/rhi-shared.cpp:366-477), set when a command buffer that writes *)
(* it is submitted, and two ways for a host thread to learn that the       *)
(* result is there: D3D12 waits until the queue's fence reaches the ID the *)
(* slot was submitted under (d3d12/d3d12-query.cpp), Vulkan asks for the   *)
(* availability the query itself has (vulkan/vk-query.cpp), which the      *)
(* command buffer withdraws right before it writes the query again         *)
(* (vkCmdResetQueryPool in cmdWriteTimestamp).                             *)
(*                                                                         *)
(* Actors: a thread that submits, a thread that reads, clients that reset, *)
(* and the GPU.  Each lock of m_queryStateMutex is a step.                 *)
(***************************************************************************)
EXTENDS Integers, Sequences, FiniteSetsExt

CONSTANTS Slots,
          MaxSubmissions,  \* bound: submit() calls in a behaviour
          Backends         \* which backends a behaviour may be of

QueryPoolConstants ==
    /\ MaxSubmissions \in Nat
    /\ Backends \subseteq {"D3D12", "Vulkan"}

VARIABLES backend,        \* the same in all of a behaviour
          slot,           \* m_querySlotStates
          lastSubmitted,  \* m_lastSubmittedID
          writes,         \* slots the submission in progress writes
          toMark,         \* those markQueryRangeSubmitted() is still due for
          submitting,     \* a submit() is in progress
          gpu,            \* submissions the GPU has not finished, and
                          \* whether each signals the fence when it is
          value,          \* the submission whose result a query holds
          available,      \* the query's availability on the device
          finished,       \* value of the queue's fence
          reading,        \* where the reading thread is: "idle", "wait", "mark"
          call,           \* "getResult" or "getResultState"
          wanted          \* the range it reads, with the ID of each slot

submission == <<lastSubmitted, writes, toMark, submitting>>
device == <<gpu, value, available, finished>>
reader == <<reading, call, wanted>>
vars == <<backend, slot, submission, device, reader>>

Ids == 0..MaxSubmissions

Init ==
    /\ backend \in Backends
    /\ slot = [s \in Slots |-> [state |-> "Reset", id |-> 0]]
    /\ lastSubmitted = 0
    /\ writes = {}
    /\ toMark = {}
    /\ submitting = FALSE
    /\ gpu = <<>>
    /\ value = [s \in Slots |-> 0]
    /\ available = [s \in Slots |-> FALSE]
    /\ finished = 0
    /\ reading = "idle"
    /\ call = "getResult"
    /\ wanted = <<>>

-----------------------------------------------------------------------------
NextID == lastSubmitted + 1

(* submit() of command buffers that write the slots ws: first the ID, then *)
(* one query write after the other, then the queue.  A submit() of nothing *)
(* takes an ID too, and so does waitOnHost() of D3D12.                     *)
BeginSubmit(ws) ==
    /\ ~submitting
    /\ lastSubmitted < MaxSubmissions
    /\ submitting' = TRUE
    /\ lastSubmitted' = NextID
    /\ writes' = ws
    /\ toMark' = ws
    /\ UNCHANGED <<backend, slot, device, reader>>

(* submit() of D3D12 whose wait for a fence fails: the ID is gone.         *)
FailToWaitForFence ==
    /\ backend = "D3D12"
    /\ ~submitting
    /\ lastSubmitted < MaxSubmissions
    /\ lastSubmitted' = NextID
    /\ UNCHANGED <<backend, slot, writes, toMark, submitting, device, reader>>

MarkSubmitted(s) ==
    /\ s \in toMark
    /\ slot' = [slot EXCEPT ![s] = [state |-> "Pending", id |-> lastSubmitted]]
    /\ toMark' = toMark \ {s}
    /\ UNCHANGED <<backend, lastSubmitted, writes, submitting, device, reader>>

(* With Vulkan vkQueueSubmit() takes all of it or fails.  With D3D12 the   *)
(* commands are on the GPU when one of the signals after them fails, and   *)
(* then nothing signals the ID.                                            *)
SendToQueue ==
    /\ submitting
    /\ toMark = {}
    /\ \/ \E signals \in BOOLEAN :
             /\ backend = "Vulkan" => signals
             /\ gpu' = Append(gpu, [id |-> lastSubmitted, todo |-> writes, signals |-> signals])
       \/ backend = "Vulkan" /\ UNCHANGED gpu
    /\ submitting' = FALSE
    /\ writes' = {}
    /\ UNCHANGED <<backend, slot, lastSubmitted, toMark, value, available, finished, reader>>

(* The GPU executes the oldest submission: Vulkan withdraws a query, and   *)
(* the query is written; when nothing is left, the fence may be signalled. *)
GpuResetQuery(s) ==
    /\ backend = "Vulkan"
    /\ gpu # <<>> /\ s \in gpu[1].todo
    /\ available[s]
    /\ available' = [available EXCEPT ![s] = FALSE]
    /\ UNCHANGED <<backend, slot, submission, gpu, value, finished, reader>>

GpuWriteQuery(s) ==
    /\ gpu # <<>> /\ s \in gpu[1].todo
    /\ backend = "Vulkan" => ~available[s]
    /\ value' = [value EXCEPT ![s] = gpu[1].id]
    /\ available' = [available EXCEPT ![s] = TRUE]
    /\ gpu' = [gpu EXCEPT ![1].todo = @ \ {s}]
    /\ UNCHANGED <<backend, slot, submission, finished, reader>>

GpuFinish ==
    /\ gpu # <<>> /\ gpu[1].todo = {}
    /\ finished' = IF gpu[1].signals THEN gpu[1].id ELSE finished
    /\ gpu' = Tail(gpu)
    /\ UNCHANGED <<backend, slot, submission, value, available, reader>>

-----------------------------------------------------------------------------
(* reset() of a range.                                                     *)
Reset(rs) ==
    /\ slot' = [s \in Slots |-> IF s \in rs THEN [state |-> "Reset", id |-> 0] ELSE slot[s]]
    /\ UNCHANGED <<backend, submission, device, reader>>

RangeState(rs) ==
    IF \E s \in rs : slot[s].state = "Reset" THEN "Reset"
    ELSE IF \E s \in rs : slot[s].state = "Pending" THEN "Pending"
    ELSE "Resolved"

(* getResult() reads on unless the range is reset, getResultState() only   *)
(* if it is pending.                                                       *)
BeginRead(c, rs) ==
    /\ reading = "idle"
    /\ RangeState(rs) # "Reset"
    /\ c = "getResultState" => RangeState(rs) = "Pending"
    /\ reading' = "wait"
    /\ call' = c
    /\ wanted' = [s \in rs |-> slot[s].id]
    /\ UNCHANGED <<backend, slot, submission, device>>

(* Mutant: the ID of any slot of the range.                                *)
SubmissionIDOfOne == Min({wanted[s] : s \in DOMAIN wanted})

(* Mutant: the ID after the latest.                                        *)
SubmissionIDAfter == Max({wanted[s] : s \in DOMAIN wanted}) + 1

SubmissionID == Max({wanted[s] : s \in DOMAIN wanted})

Readable ==
    IF backend = "D3D12" THEN finished >= SubmissionID
    ELSE \A s \in DOMAIN wanted : available[s]

(* The results are copied, or the range is found resolved.                 *)
Read ==
    /\ reading = "wait"
    /\ Readable
    /\ reading' = "mark"
    /\ UNCHANGED <<backend, slot, submission, device, call, wanted>>

(* getResultState() does not wait.                                         *)
ReturnPending ==
    /\ reading = "wait"
    /\ call = "getResultState"
    /\ ~Readable
    /\ reading' = "idle"
    /\ wanted' = <<>>
    /\ UNCHANGED <<backend, slot, submission, device, call>>

(* getResult() cannot wait: SetEventOnCompletion() fails, or               *)
(* vkGetQueryPoolResults(), that of getResultState() too.                  *)
ReadFails ==
    /\ reading = "wait"
    /\ backend = "D3D12" => call = "getResult" /\ ~Readable
    /\ reading' = "idle"
    /\ wanted' = <<>>
    /\ UNCHANGED <<backend, slot, submission, device, call>>

(* Mutant: without the comparison with the completed ID.                   *)
ResolvesAny(q) == q.state = "Pending"

(* Mutant: without the test that the slot is still pending.                *)
ResolvesOlder(q) == q.id <= SubmissionID

Resolves(q) == q.state = "Pending" /\ q.id <= SubmissionID

MarkResolved ==
    /\ reading = "mark"
    /\ slot' = [s \in Slots |->
                   IF s \in DOMAIN wanted /\ Resolves(slot[s])
                   THEN [slot[s] EXCEPT !.state = "Resolved"] ELSE slot[s]]
    /\ reading' = "idle"
    /\ wanted' = <<>>
    /\ UNCHANGED <<backend, submission, device, call>>

-----------------------------------------------------------------------------
Ranges == (SUBSET Slots) \ {{}}

Client ==
    \/ \E ws \in SUBSET Slots : BeginSubmit(ws)
    \/ FailToWaitForFence
    \/ \E rs \in Ranges : Reset(rs)
    \/ \E rs \in Ranges, c \in {"getResult", "getResultState"} : BeginRead(c, rs)

Submitter == (\E s \in Slots : MarkSubmitted(s)) \/ SendToQueue
Gpu == (\E s \in Slots : GpuResetQuery(s) \/ GpuWriteQuery(s)) \/ GpuFinish
Reader == Read \/ ReturnPending \/ MarkResolved

Next == Client \/ Submitter \/ Gpu \/ Reader \/ ReadFails

Spec == Init /\ [][Next]_vars

(* A submit() goes on, the GPU executes what it has, a reader goes on.     *)
(* That a read fails is not something to count on.                         *)
Fairness == WF_vars(Submitter) /\ WF_vars(Gpu) /\ WF_vars(Reader)

FairSpec == Spec /\ Fairness

-----------------------------------------------------------------------------
(* The types of the variables.                                             *)
TypeOK ==
    /\ slot \in [Slots -> [state : {"Reset", "Pending", "Resolved"}, id : Ids]]
    /\ lastSubmitted \in Ids /\ finished \in Ids
    /\ writes \subseteq Slots /\ toMark \subseteq writes
    /\ submitting \in BOOLEAN
    /\ gpu \in Seq([id : Ids, todo : SUBSET Slots, signals : BOOLEAN])
    /\ value \in [Slots -> Ids]
    /\ available \in [Slots -> BOOLEAN]
    /\ reading \in {"idle", "wait", "mark"}
    /\ call \in {"getResult", "getResultState"}
    /\ DOMAIN wanted \subseteq Slots /\ \A s \in DOMAIN wanted : wanted[s] \in Ids

(* "Blocks until the latest submitted work required by the requested range *)
(* is complete" (slang-rhi.h:2459): what getResult() copies is of the      *)
(* submission each slot was last submitted under when it was called, or of *)
(* a later one, and getResultState() says no sooner that it is there.      *)
ReadsFresh == Read => \A s \in DOMAIN wanted : value[s] >= wanted[s]
FreshResults == [][ReadsFresh]_vars

(* It holds where the reader waits on the fence.                           *)
FreshBehindFence == [][backend = "D3D12" => ReadsFresh]_vars

(* A slot is resolved only when the query holds the result of the          *)
(* submission the slot names: a reader that marks late does not resolve    *)
(* what was submitted again in the meantime.                               *)
ResolvedBehindFence ==
    backend = "D3D12" =>
        \A s \in Slots : slot[s].state = "Resolved" => value[s] >= slot[s].id

(* A slot that was reset stays so until it is submitted again: a reader    *)
(* that marks late does not bring the old result back.                     *)
ResetStays ==
    [][\A s \in Slots : slot[s].state = "Reset" => slot'[s].state \in {"Reset", "Pending"}]_vars

(* The ID a slot was submitted under, or a later one, was signalled or     *)
(* will be.                                                                *)
SignalSent(n) == finished >= n \/ \E i \in DOMAIN gpu : gpu[i].signals /\ gpu[i].id >= n

(* A reader behind a fence returns once, for each of the slots it wants,   *)
(* the signal of its submission or of any later one is on its way: that    *)
(* submit() failed to send the signal of the very submission it waits for, *)
(* or took an ID for nothing, is made up for by the next to succeed.       *)
ReadReturnsBehindFence ==
    /\ backend = "D3D12" /\ reading = "wait"
    /\ \A s \in DOMAIN wanted : SignalSent(wanted[s])
    ~> reading = "idle"
=============================================================================
