--------------------------- MODULE QueryPoolProofs --------------------------
(***************************************************************************)
(* Safety of the query pool, for any number of slots and submissions.      *)
(***************************************************************************)
EXTENDS QueryPool, SequenceTheorems, FiniteSetTheorems, TLAPS

(* The submissions follow each other in the order of their IDs, in the     *)
(* queue, behind its fence and in what the queries hold.                   *)
InOrder ==
    /\ submitting \/ writes = {}
    /\ submitting => finished < lastSubmitted
    /\ finished <= lastSubmitted
    /\ \A i \in 1..Len(gpu) :
          /\ finished < gpu[i].id /\ gpu[i].id <= lastSubmitted
          /\ submitting => gpu[i].id < lastSubmitted
          /\ \A j \in 1..Len(gpu) : i < j => gpu[i].id < gpu[j].id
          /\ \A s \in Slots : value[s] <= gpu[i].id
    /\ \A s \in Slots : value[s] <= lastSubmitted

(* The result of submission n for slot s is there, or n is still being     *)
(* submitted or executed and has s to write.                               *)
Written(s, n) ==
    \/ value[s] >= n
    \/ submitting /\ s \in writes /\ n = lastSubmitted
    \/ \E i \in 1..Len(gpu) : gpu[i].id = n /\ s \in gpu[i].todo

(* Behind a fence, the IDs in slots and those a reader took from them are  *)
(* of submissions that write them.                                         *)
SlotsInv == \A s \in Slots : Written(s, slot[s].id)

ReaderInv ==
    reading # "idle" =>
        /\ DOMAIN wanted # {}
        /\ \A s \in DOMAIN wanted : Written(s, wanted[s])
        /\ reading = "mark" => finished >= SubmissionID

FenceInv ==
    backend = "D3D12" => InOrder /\ SlotsInv /\ ReaderInv /\ ResolvedBehindFence

QueryInv == TypeOK /\ FenceInv

(* A nonempty set of numbers up to n has a greatest one.                   *)
LEMMA MaxInSet ==
    ASSUME NEW n \in Nat, NEW S \in SUBSET (0..n), S # {}
    PROVE  Max(S) \in S /\ \A x \in S : Max(S) >= x
<1> DEFINE R == StrictSubsetOrdering(0..n)
           T == {x..n : x \in S}
<1>1. \E y \in T : \A z \in T : ~ (<<z, y>> \in R)
  <2>1. IsWellFoundedOn(R, SUBSET (0..n))
    <3>1. IsFiniteSet(0..n)
      BY FS_Interval
    <3>2. FiniteSubsetsOf(0..n) = SUBSET (0..n)
      BY <3>1, FS_FiniteSubsetsOfFinite
    <3>3. QED
      BY <3>2, FS_StrictSubsetOrderingWellFounded
  <2>2. T \subseteq SUBSET (0..n) /\ T # {}
    <3>1. \A x \in S : x..n \in SUBSET (0..n)
      OBVIOUS
    <3>2. QED
      BY <3>1
  <2> HIDE DEF T, R
  <2>3. QED
    BY <2>1, <2>2, WFMin
<1>2. PICK x \in S : \A z \in T : ~ (<<z, x..n>> \in R)
  BY <1>1
<1>3. \A y \in S : x >= y
  <2> SUFFICES ASSUME NEW y \in S, y > x PROVE FALSE
    OBVIOUS
  <2>1. y..n \subseteq x..n /\ x \in x..n /\ x \notin y..n
    OBVIOUS
  <2>2. y..n \in T
    OBVIOUS
  <2>3. <<y..n, x..n>> \in R
    BY <2>1 DEF StrictSubsetOrdering
  <2>4. QED
    BY <1>2, <2>2, <2>3
<1>4. QED
  BY <1>3 DEF Max

Frames == [id : Ids, todo : SUBSET Slots, signals : BOOLEAN]

LEMMA FirstFrame ==
    ASSUME TypeOK, gpu # <<>>
    PROVE  gpu[1] \in Frames /\ Len(gpu) \in Nat /\ Len(gpu) >= 1
<1>1. gpu \in Seq(Frames)
  BY DEF TypeOK, Frames
<1>2. Len(gpu) \in Nat /\ Len(gpu) # 0
  BY <1>1, EmptySeq, LenProperties
<1>3. QED
  BY <1>1, <1>2, ElementOfSeq

LEMMA FramesTyped == TypeOK => \A i \in 1..Len(gpu) : gpu[i] \in Frames
BY ElementOfSeq DEF TypeOK, Frames

LEMMA QueryInit == QueryPoolConstants /\ Init => QueryInv
<1> SUFFICES ASSUME QueryPoolConstants, Init PROVE QueryInv
  OBVIOUS
<1> USE DEF QueryPoolConstants, Init, Ids
<1>1. TypeOK
  <2>1. gpu \in Seq([id : Ids, todo : SUBSET Slots, signals : BOOLEAN])
    OBVIOUS
  <2>2. slot \in [Slots -> [state : {"Reset", "Pending", "Resolved"}, id : Ids]]
    OBVIOUS
  <2>3. value \in [Slots -> Ids] /\ available \in [Slots -> BOOLEAN]
    OBVIOUS
  <2>4. DOMAIN wanted \subseteq Slots /\ \A s \in DOMAIN wanted : wanted[s] \in Ids
    OBVIOUS
  <2>5. /\ lastSubmitted \in Ids /\ finished \in Ids
        /\ writes = {} /\ toMark = {} /\ submitting = FALSE
        /\ reading = "idle" /\ call = "getResult"
    BY DEF Init
  <2>6. QED
    BY ONLY <2>1, <2>2, <2>3, <2>4, <2>5 DEF TypeOK, Ids
<1>2. InOrder
  BY DEF InOrder
<1>3. SlotsInv /\ ReaderInv /\ ResolvedBehindFence
  BY DEF SlotsInv, ReaderInv, ResolvedBehindFence, Written
<1>4. QED
  BY <1>1, <1>2, <1>3 DEF QueryInv, FenceInv

LEMMA TypeNext == QueryPoolConstants /\ TypeOK /\ [Next]_vars => TypeOK'
<1> SUFFICES ASSUME QueryPoolConstants, TypeOK, [Next]_vars PROVE TypeOK'
  OBVIOUS
<1> USE DEF QueryPoolConstants, Ids, Frames
<1>1. ASSUME NEW ws \in SUBSET Slots, BeginSubmit(ws) PROVE TypeOK'
  BY <1>1 DEF BeginSubmit, TypeOK, NextID, device, reader
<1>1a. CASE FailToWaitForFence
  BY <1>1a DEF FailToWaitForFence, TypeOK, NextID, device, reader
<1>2. ASSUME NEW rs \in Ranges, Reset(rs) PROVE TypeOK'
  BY <1>2 DEF Reset, TypeOK, submission, device, reader
<1>3. ASSUME NEW rs \in Ranges, NEW c \in {"getResult", "getResultState"}, BeginRead(c, rs)
      PROVE  TypeOK'
  BY <1>3 DEF BeginRead, TypeOK, Ranges, submission, device
<1>4. ASSUME NEW s \in Slots, MarkSubmitted(s) PROVE TypeOK'
  BY <1>4 DEF MarkSubmitted, TypeOK, device, reader
<1>5. CASE SendToQueue
  <2>1. gpu' \in Seq([id : Ids, todo : SUBSET Slots, signals : BOOLEAN])
    <3> DEFINE f(b) == [id |-> lastSubmitted, todo |-> writes, signals |-> b]
    <3>1. gpu \in Seq(Frames) /\ \A b \in BOOLEAN : f(b) \in Frames
      BY DEF TypeOK
    <3>2. gpu' = gpu \/ \E b \in BOOLEAN : gpu' = Append(gpu, f(b))
      BY <1>5 DEF SendToQueue
    <3> HIDE DEF Frames, f
    <3>3. \A b \in BOOLEAN : Append(gpu, f(b)) \in Seq(Frames)
      BY ONLY <3>1, AppendProperties
    <3>4. gpu' \in Seq(Frames)
      BY ONLY <3>1, <3>2, <3>3
    <3>5. QED
      BY <3>4 DEF Frames
  <2>2. QED
    BY <1>5, <2>1 DEF SendToQueue, TypeOK, reader
<1>6. ASSUME NEW s \in Slots, GpuResetQuery(s) PROVE TypeOK'
  BY <1>6 DEF GpuResetQuery, TypeOK, submission, reader
<1>7. ASSUME NEW s \in Slots, GpuWriteQuery(s) PROVE TypeOK'
  <2>1. gpu[1] \in [id : Ids, todo : SUBSET Slots, signals : BOOLEAN] /\ Len(gpu) >= 1
    BY <1>7, FirstFrame DEF GpuWriteQuery
  <2>2. gpu' \in Seq([id : Ids, todo : SUBSET Slots, signals : BOOLEAN])
    <3> HIDE DEF Ids
    <3>1. [gpu[1] EXCEPT !.todo = @ \ {s}] \in [id : Ids, todo : SUBSET Slots, signals : BOOLEAN]
      BY <2>1
    <3>2. gpu' = [gpu EXCEPT ![1] = [gpu[1] EXCEPT !.todo = @ \ {s}]]
      BY <1>7 DEF GpuWriteQuery
    <3>3. QED
      BY <2>1, <3>1, <3>2, ExceptSeq DEF TypeOK
  <2>3. value' \in [Slots -> Ids] /\ available' \in [Slots -> BOOLEAN]
    BY <1>7, <2>1 DEF GpuWriteQuery, TypeOK
  <2>4. QED
    BY <1>7, <2>2, <2>3 DEF GpuWriteQuery, TypeOK, submission, reader
<1>8. CASE GpuFinish
  <2>1. gpu[1] \in [id : Ids, todo : SUBSET Slots, signals : BOOLEAN] /\ gpu' = Tail(gpu) /\ gpu # <<>>
    BY <1>8, FirstFrame DEF GpuFinish
  <2>2. gpu' \in Seq([id : Ids, todo : SUBSET Slots, signals : BOOLEAN])
    BY <2>1, HeadTailProperties DEF TypeOK
  <2>3. QED
    BY <1>8, <2>1, <2>2 DEF GpuFinish, TypeOK, submission, reader
<1>9. CASE Read
  BY <1>9 DEF Read, TypeOK, submission, device
<1>10. CASE ReturnPending
  BY <1>10 DEF ReturnPending, TypeOK, submission, device
<1>10a. CASE ReadFails
  BY <1>10a DEF ReadFails, TypeOK, submission, device
<1>11. CASE MarkResolved
  <2>1. slot' \in [Slots -> [state : {"Reset", "Pending", "Resolved"}, id : Ids]]
    <3>1. \A s \in Slots :
             [slot[s] EXCEPT !.state = "Resolved"] \in [state : {"Reset", "Pending", "Resolved"}, id : Ids]
      BY DEF TypeOK
    <3>2. QED
      BY <1>11, <3>1 DEF MarkResolved, TypeOK
  <2>2. QED
    BY <1>11, <2>1 DEF MarkResolved, TypeOK, submission, device
<1>12. CASE UNCHANGED vars
  BY <1>12 DEF vars, TypeOK, submission, device, reader
<1>13. QED
  BY <1>1, <1>1a, <1>2, <1>3, <1>4, <1>5, <1>6, <1>7, <1>8, <1>9, <1>10, <1>10a, <1>11, <1>12
  DEF Next, Client, Submitter, Gpu, Reader

(* The ID a reader waits for is that of the latest submission it wants.    *)
LEMMA LatestWanted ==
    ASSUME QueryPoolConstants, TypeOK, DOMAIN wanted # {}
    PROVE  SubmissionID \in Ids /\ \A s \in DOMAIN wanted : wanted[s] <= SubmissionID
<1> DEFINE S == {wanted[s] : s \in DOMAIN wanted}
<1>1. S \in SUBSET (0..MaxSubmissions) /\ S # {}
  BY DEF TypeOK, Ids
<1>2. Max(S) \in S /\ \A n \in S : Max(S) >= n
  BY <1>1, MaxInSet DEF QueryPoolConstants
<1>3. \A s \in DOMAIN wanted : wanted[s] \in S
  OBVIOUS
<1>4. SubmissionID = Max(S)
  BY DEF SubmissionID
<1> HIDE DEF S
<1>5. QED
  BY <1>1, <1>2, <1>3, <1>4 DEF Ids

(* A submission the fence has passed has written its queries.              *)
LEMMA FencePassed ==
    ASSUME TypeOK, InOrder, NEW s \in Slots, NEW n \in Ids, Written(s, n), n <= finished
    PROVE  value[s] >= n
<1>1. ~(submitting /\ n = lastSubmitted)
  BY DEF TypeOK, Ids, InOrder
<1>2. \A i \in 1..Len(gpu) : gpu[i].id # n
  BY DEF InOrder, TypeOK, Ids
<1>3. QED
  BY <1>1, <1>2 DEF Written

(* What is written stays so, and what is to come remains to come.          *)
LEMMA WrittenKept ==
    ASSUME NEW s \in Slots, NEW n \in Ids, Written(s, n),
           UNCHANGED <<value, submitting, writes, lastSubmitted, gpu>>
    PROVE  Written(s, n)'
BY DEF Written

LEMMA OrderKept ==
    ASSUME InOrder, UNCHANGED <<value, submitting, writes, lastSubmitted, gpu, finished>>
    PROVE  InOrder'
BY DEF InOrder

(* A step that leaves slots and reader alone and loses no write keeps the  *)
(* invariant.                                                              *)
LEMMA WritesKept ==
    ASSUME TypeOK, InOrder, SlotsInv, ReaderInv, ResolvedBehindFence, backend = "D3D12",
           UNCHANGED <<backend, slot, reading, wanted>>,
           finished' \in Ids, finished' >= finished, QueryPoolConstants,
           \A s \in Slots : value'[s] \in Ids /\ value'[s] >= value[s],
           \A s \in Slots, n \in Ids : Written(s, n) => Written(s, n)'
    PROVE  SlotsInv' /\ ReaderInv' /\ ResolvedBehindFence'
<1>1. SlotsInv'
  BY DEF SlotsInv, TypeOK
<1>2. ReaderInv'
  <2>1. CASE reading = "idle"
    BY <2>1 DEF ReaderInv
  <2>2. CASE reading # "idle"
    <3>1. \A s \in DOMAIN wanted : Written(s, wanted[s])'
      <4>1. \A s \in DOMAIN wanted : s \in Slots /\ wanted[s] \in Ids /\ Written(s, wanted[s])
        BY <2>2 DEF TypeOK, ReaderInv
      <4>2. ASSUME NEW s \in DOMAIN wanted PROVE Written(s, wanted[s])'
        <5>1. PICK n \in Ids : n = wanted[s]
          BY <4>1
        <5>2. Written(s, n)'
          BY <4>1, <5>1
        <5>3. wanted'[s] = n
          BY <5>1
        <5>4. QED
          BY <5>2, <5>3 DEF Written
      <4>3. QED
        BY <4>2
    <3>2. SubmissionID' = SubmissionID /\ SubmissionID \in Ids
      BY <2>2, LatestWanted DEF SubmissionID, ReaderInv
    <3>3. reading = "mark" => finished' >= SubmissionID
      BY <2>2, <3>2 DEF ReaderInv, TypeOK, Ids
    <3>4. QED
      BY <2>2, <3>1, <3>2, <3>3 DEF ReaderInv
  <2>3. QED
    BY <2>1, <2>2
<1>3. ResolvedBehindFence'
  <2>1. ASSUME NEW s \in Slots, slot[s].state = "Resolved" PROVE value'[s] >= slot[s].id
    <3>1. value[s] >= slot[s].id /\ value[s] \in Nat /\ value'[s] \in Nat /\ slot[s].id \in Nat
      BY <2>1 DEF ResolvedBehindFence, TypeOK, Ids
    <3>2. QED
      BY <3>1
  <2>2. QED
    BY <2>1 DEF ResolvedBehindFence
<1>4. QED
  BY <1>1, <1>2, <1>3

LEMMA FenceNext == QueryPoolConstants /\ QueryInv /\ [Next]_vars => FenceInv'
<1> SUFFICES ASSUME QueryPoolConstants, TypeOK, TypeOK', FenceInv, [Next]_vars, backend' = "D3D12"
             PROVE  InOrder' /\ SlotsInv' /\ ReaderInv' /\ ResolvedBehindFence'
  BY TypeNext DEF QueryInv, FenceInv
<1>0. backend = "D3D12" /\ InOrder /\ SlotsInv /\ ReaderInv /\ ResolvedBehindFence
  <2>1. backend' = backend
    BY DEF Next, Client, Submitter, Gpu, Reader, BeginSubmit, FailToWaitForFence, Reset, BeginRead,
           MarkSubmitted, SendToQueue, GpuResetQuery, GpuWriteQuery, GpuFinish, Read, ReturnPending,
           ReadFails, MarkResolved, vars
  <2>2. QED
    BY <2>1 DEF FenceInv
<1>a. UNCHANGED <<value, submitting, writes, lastSubmitted, gpu>>
      => \A s \in Slots, n \in Ids : Written(s, n) => Written(s, n)'
  BY WrittenKept
<1>1. ASSUME NEW ws \in SUBSET Slots, BeginSubmit(ws)
      PROVE  InOrder' /\ SlotsInv' /\ ReaderInv' /\ ResolvedBehindFence'
  <2>1. /\ ~submitting /\ submitting' /\ lastSubmitted' = lastSubmitted + 1
        /\ UNCHANGED <<backend, slot, gpu, value, finished, reading, wanted>>
    BY <1>1 DEF BeginSubmit, NextID, device, reader
  <2>2. InOrder'
    <3>1. /\ \A i \in 1..Len(gpu) : gpu[i].id \in Nat
          /\ \A s \in Slots : value[s] \in Nat
          /\ finished \in Nat /\ lastSubmitted \in Nat
      BY FramesTyped DEF TypeOK, Ids, Frames
    <3>2. QED
      BY <1>0, <2>1, <3>1 DEF InOrder
  <2>3. \A s \in Slots, n \in Ids : Written(s, n) => Written(s, n)'
    BY <2>1 DEF Written
  <2>4. QED
    BY <1>0, <2>1, <2>2, <2>3, WritesKept DEF TypeOK, Ids
<1>1a. ASSUME FailToWaitForFence
       PROVE  InOrder' /\ SlotsInv' /\ ReaderInv' /\ ResolvedBehindFence'
  <2>1. /\ ~submitting /\ lastSubmitted' = lastSubmitted + 1
        /\ UNCHANGED <<backend, slot, submitting, writes, gpu, value, finished, reading, wanted>>
    BY <1>1a DEF FailToWaitForFence, NextID, device, reader
  <2>2. InOrder'
    <3>1. /\ \A i \in 1..Len(gpu) : gpu[i].id \in Nat
          /\ \A s \in Slots : value[s] \in Nat
          /\ finished \in Nat /\ lastSubmitted \in Nat
      BY FramesTyped DEF TypeOK, Ids, Frames
    <3>2. finished <= lastSubmitted' /\ \A s \in Slots : value[s] <= lastSubmitted'
      BY <1>0, <2>1, <3>1 DEF InOrder
    <3>3. \A i \in 1..Len(gpu) : gpu[i].id <= lastSubmitted'
      BY <1>0, <2>1, <3>1 DEF InOrder
    <3>4. QED
      BY <1>0, <2>1, <3>2, <3>3 DEF InOrder
  <2>3. \A s \in Slots, n \in Ids : Written(s, n) => Written(s, n)'
    BY <2>1 DEF Written
  <2>4. QED
    BY <1>0, <2>1, <2>2, <2>3, WritesKept DEF TypeOK, Ids
<1>2. ASSUME NEW rs \in Ranges, Reset(rs)
      PROVE  InOrder' /\ SlotsInv' /\ ReaderInv' /\ ResolvedBehindFence'
  <2>1. /\ UNCHANGED <<value, submitting, writes, lastSubmitted, gpu, finished, reading, wanted>>
        /\ \A s \in Slots : slot'[s] = slot[s] \/ slot'[s] = [state |-> "Reset", id |-> 0]
    BY <1>2 DEF Reset, submission, device, reader
  <2>2. InOrder'
    BY <1>0, <2>1, OrderKept
  <2>3. SlotsInv'
    <3> SUFFICES ASSUME NEW s \in Slots PROVE Written(s, slot[s].id)'
      BY DEF SlotsInv
    <3>1. PICK n \in Ids : n = slot'[s].id
      BY DEF TypeOK
    <3>2. Written(s, n)'
      <4>1. CASE slot'[s] = slot[s]
        BY <1>0, <2>1, <3>1, <4>1 DEF SlotsInv, Written
      <4>2. CASE slot'[s] = [state |-> "Reset", id |-> 0]
        BY <2>1, <3>1, <4>2 DEF Written, TypeOK, Ids
      <4>3. QED
        BY <2>1, <4>1, <4>2
    <3>3. QED
      BY <3>1, <3>2 DEF Written
  <2>4. ReaderInv'
    BY <1>0, <2>1 DEF ReaderInv, Written, SubmissionID
  <2>5. ResolvedBehindFence'
    BY <1>0, <2>1 DEF ResolvedBehindFence
  <2>6. QED
    BY <2>2, <2>3, <2>4, <2>5
<1>3. ASSUME NEW rs \in Ranges, NEW c \in {"getResult", "getResultState"}, BeginRead(c, rs)
      PROVE  InOrder' /\ SlotsInv' /\ ReaderInv' /\ ResolvedBehindFence'
  <2>1. /\ UNCHANGED <<backend, slot, value, submitting, writes, lastSubmitted, gpu, finished>>
        /\ reading' = "wait" /\ wanted' = [s \in rs |-> slot[s].id] /\ rs \subseteq Slots /\ rs # {}
    <3>1. rs \subseteq Slots /\ rs # {}
      BY DEF Ranges
    <3>2. QED
      BY <1>3, <3>1 DEF BeginRead, submission, device
  <2>2. InOrder'
    BY <1>0, <2>1, OrderKept
  <2>3. SlotsInv' /\ ResolvedBehindFence'
    BY <1>0, <2>1 DEF SlotsInv, Written, ResolvedBehindFence
  <2>4. ReaderInv'
    BY <1>0, <2>1 DEF ReaderInv, SlotsInv, Written
  <2>5. QED
    BY <2>2, <2>3, <2>4
<1>4. ASSUME NEW s \in Slots, MarkSubmitted(s)
      PROVE  InOrder' /\ SlotsInv' /\ ReaderInv' /\ ResolvedBehindFence'
  <2>1. /\ UNCHANGED <<backend, value, submitting, writes, lastSubmitted, gpu, finished, reading, wanted>>
        /\ slot' = [slot EXCEPT ![s] = [state |-> "Pending", id |-> lastSubmitted]]
        /\ s \in writes
    BY <1>4 DEF MarkSubmitted, device, reader, TypeOK
  <2>2. InOrder'
    BY <1>0, <2>1, OrderKept
  <2>3. Written(s, lastSubmitted) /\ Written(s, lastSubmitted)'
    BY <1>0, <2>1 DEF Written, InOrder
  <2>4. SlotsInv'
    BY <1>0, <2>1, <2>3 DEF SlotsInv, Written, TypeOK
  <2>5. ReaderInv'
    BY <1>0, <2>1 DEF ReaderInv, Written, SubmissionID
  <2>6. ResolvedBehindFence'
    BY <1>0, <2>1 DEF ResolvedBehindFence, TypeOK
  <2>7. QED
    BY <2>2, <2>4, <2>5, <2>6
<1>5. ASSUME SendToQueue
      PROVE  InOrder' /\ SlotsInv' /\ ReaderInv' /\ ResolvedBehindFence'
  <2>0. PICK b \in BOOLEAN :
           gpu' = Append(gpu, [id |-> lastSubmitted, todo |-> writes, signals |-> b])
    BY <1>0, <1>5 DEF SendToQueue
  <2> DEFINE f == [id |-> lastSubmitted, todo |-> writes, signals |-> b]
  <2>1. /\ UNCHANGED <<backend, slot, value, lastSubmitted, finished, reading, wanted>>
        /\ submitting /\ ~submitting' /\ writes' = {} /\ gpu' = Append(gpu, f)
    BY <1>0, <1>5, <2>0 DEF SendToQueue, reader, TypeOK
  <2>2. gpu \in Seq(Frames) /\ f \in Frames
    BY DEF TypeOK, Frames
  <2>f. f.id = lastSubmitted /\ f.todo = writes
    OBVIOUS
  <2> HIDE DEF f
  <2>3. /\ Len(gpu') = Len(gpu) + 1 /\ Len(gpu) \in Nat
        /\ \A i \in 1..Len(gpu) : gpu'[i] = gpu[i]
        /\ gpu'[Len(gpu) + 1] = f
    BY ONLY <2>1, <2>2, AppendProperties, LenProperties
  <2>4. InOrder'
    BY <1>0, <2>1, <2>3, <2>f DEF InOrder, TypeOK, Ids
  <2>5. \A u \in Slots, n \in Ids : Written(u, n) => Written(u, n)'
    BY <2>1, <2>3, <2>f DEF Written
  <2>6. QED
    BY <1>0, <2>1, <2>4, <2>5, WritesKept DEF TypeOK, Ids
<1>6. ASSUME NEW s \in Slots, GpuWriteQuery(s)
      PROVE  InOrder' /\ SlotsInv' /\ ReaderInv' /\ ResolvedBehindFence'
  <2>1. /\ UNCHANGED <<backend, slot, submitting, writes, lastSubmitted, finished, reading, wanted>>
        /\ gpu # <<>> /\ value' = [value EXCEPT ![s] = gpu[1].id]
        /\ gpu' = [gpu EXCEPT ![1].todo = @ \ {s}]
    BY <1>6 DEF GpuWriteQuery, submission, reader
  <2>2. Len(gpu) \in Nat /\ Len(gpu) >= 1 /\ gpu \in Seq(Frames) /\ gpu[1] \in Frames
    BY <2>1, FirstFrame DEF TypeOK, Frames
  <2>3. /\ Len(gpu') = Len(gpu) /\ gpu'[1].id = gpu[1].id /\ gpu'[1].todo = gpu[1].todo \ {s}
        /\ \A i \in 1..Len(gpu) : i # 1 => gpu'[i] = gpu[i]
    <3> DEFINE f == [gpu[1] EXCEPT !.todo = @ \ {s}]
    <3>1. gpu' = [gpu EXCEPT ![1] = f]
      BY <2>1
    <3>2. f \in Frames /\ f.id = gpu[1].id /\ f.todo = gpu[1].todo \ {s}
      BY <2>2 DEF Frames
    <3> HIDE DEF f
    <3>3. 1 \in 1..Len(gpu)
      BY <2>2
    <3>4. /\ Len(gpu') = Len(gpu)
          /\ \A i \in 1..Len(gpu) : gpu'[i] = IF i = 1 THEN f ELSE gpu[i]
      BY ONLY <2>2, <3>1, <3>2, <3>3, ExceptSeq
    <3>5. QED
      BY <3>2, <3>3, <3>4
  <2>4. /\ \A u \in Slots : value'[u] \in Ids /\ value'[u] >= value[u]
        /\ \A u \in Slots : value'[u] = value[u] \/ value'[u] = gpu[1].id
        /\ value'[s] = gpu[1].id
    <3>1. gpu[1].id \in Ids /\ \A u \in Slots : value[u] <= gpu[1].id
      BY <1>0, <2>2 DEF InOrder, Frames
    <3>2. QED
      BY <2>1, <3>1 DEF TypeOK, Ids
  <2>5. InOrder'
    <3>1. \A i \in 1..Len(gpu) : gpu'[i].id = gpu[i].id /\ gpu[1].id <= gpu[i].id
      <4>2. \A i \in 1..Len(gpu) : gpu[i].id \in Nat
        BY FramesTyped DEF Frames, Ids
      <4>3. \A i \in 1..Len(gpu) : gpu'[i].id = gpu[i].id
        BY <2>3
      <4>4. \A i \in 1..Len(gpu) : i # 1 => gpu[1].id < gpu[i].id
        BY <1>0, <2>2 DEF InOrder
      <4>5. QED
        BY <2>2, <4>2, <4>3, <4>4
    <3>2. gpu[1].id <= lastSubmitted
      BY <1>0, <2>2 DEF InOrder
    <3>3. QED
      BY <1>0, <2>1, <2>3, <2>4, <3>1, <3>2 DEF InOrder
  <2>6. \A u \in Slots, n \in Ids : Written(u, n) => Written(u, n)'
    <3> SUFFICES ASSUME NEW u \in Slots, NEW n \in Ids, Written(u, n) PROVE Written(u, n)'
      OBVIOUS
    <3>1. CASE value[u] >= n
      BY <2>4, <3>1 DEF Written, TypeOK, Ids
    <3>2. CASE submitting /\ u \in writes /\ n = lastSubmitted
      BY <2>1, <3>2 DEF Written
    <3>3. ASSUME NEW i \in 1..Len(gpu), gpu[i].id = n, u \in gpu[i].todo PROVE Written(u, n)'
      <4>1. CASE i = 1 /\ u = s
        BY <2>4, <3>3, <4>1 DEF Written, Ids
      <4>2. CASE ~(i = 1 /\ u = s)
        BY <2>2, <2>3, <3>3, <4>2 DEF Written
      <4>3. QED
        BY <4>1, <4>2
    <3>4. QED
      BY <3>1, <3>2, <3>3 DEF Written
  <2>7. QED
    BY <1>0, <2>1, <2>4, <2>5, <2>6, WritesKept DEF TypeOK, Ids
<1>7. ASSUME GpuFinish
      PROVE  InOrder' /\ SlotsInv' /\ ReaderInv' /\ ResolvedBehindFence'
  <2>1. /\ UNCHANGED <<backend, slot, submitting, writes, lastSubmitted, value, reading, wanted>>
        /\ gpu # <<>> /\ gpu[1].todo = {} /\ finished' \in {finished, gpu[1].id}
        /\ gpu' = Tail(gpu)
    BY <1>7 DEF GpuFinish, submission, reader
  <2>2. Len(gpu) \in Nat /\ Len(gpu) >= 1 /\ gpu \in Seq(Frames) /\ gpu[1] \in Frames
    BY <2>1, FirstFrame DEF TypeOK, Frames
  <2>3. Len(gpu') = Len(gpu) - 1 /\ \A i \in 1..Len(gpu') : gpu'[i] = gpu[i + 1]
    BY ONLY <2>1, <2>2, HeadTailProperties
  <2>4. InOrder'
    <3>1. \A i \in 1..Len(gpu') : gpu[1].id < gpu'[i].id
      BY <1>0, <2>2, <2>3 DEF InOrder
    <3>2. QED
      BY <1>0, <2>1, <2>2, <2>3, <3>1 DEF InOrder
  <2>5. \A u \in Slots, n \in Ids : Written(u, n) => Written(u, n)'
    <3> SUFFICES ASSUME NEW u \in Slots, NEW n \in Ids, Written(u, n) PROVE Written(u, n)'
      OBVIOUS
    <3>1. ASSUME NEW i \in 1..Len(gpu), gpu[i].id = n, u \in gpu[i].todo PROVE Written(u, n)'
      <4>1. i # 1
        BY <2>1, <3>1
      <4>2. i - 1 \in 1..Len(gpu') /\ gpu'[i - 1] = gpu[i]
        BY <2>2, <2>3, <4>1
      <4>3. QED
        BY <3>1, <4>2 DEF Written
    <3>2. QED
      BY <2>1, <3>1 DEF Written
  <2>6. finished' >= finished
    BY <1>0, <2>1, <2>2 DEF InOrder, TypeOK, Ids, Frames
  <2>7. QED
    BY <1>0, <2>1, <2>4, <2>5, <2>6, WritesKept DEF TypeOK, Ids
<1>8. ASSUME Read
      PROVE  InOrder' /\ SlotsInv' /\ ReaderInv' /\ ResolvedBehindFence'
  <2>1. /\ UNCHANGED <<backend, slot, value, submitting, writes, lastSubmitted, gpu, finished, wanted>>
        /\ reading = "wait" /\ reading' = "mark" /\ finished >= SubmissionID
    BY <1>0, <1>8 DEF Read, Readable, submission, device
  <2>2. QED
    BY <1>0, <2>1, OrderKept DEF SlotsInv, ReaderInv, ResolvedBehindFence, Written, SubmissionID
<1>9. ASSUME ReturnPending
      PROVE  InOrder' /\ SlotsInv' /\ ReaderInv' /\ ResolvedBehindFence'
  <2>1. /\ UNCHANGED <<backend, slot, value, submitting, writes, lastSubmitted, gpu, finished>>
        /\ reading' = "idle"
    BY <1>9 DEF ReturnPending, submission, device
  <2>2. QED
    BY <1>0, <2>1, OrderKept DEF SlotsInv, ReaderInv, ResolvedBehindFence, Written
<1>9a. ASSUME ReadFails
       PROVE  InOrder' /\ SlotsInv' /\ ReaderInv' /\ ResolvedBehindFence'
  <2>1. /\ UNCHANGED <<backend, slot, value, submitting, writes, lastSubmitted, gpu, finished>>
        /\ reading' = "idle"
    BY <1>9a DEF ReadFails, submission, device
  <2>2. QED
    BY <1>0, <2>1, OrderKept DEF SlotsInv, ReaderInv, ResolvedBehindFence, Written
<1>10. ASSUME MarkResolved
       PROVE  InOrder' /\ SlotsInv' /\ ReaderInv' /\ ResolvedBehindFence'
  <2>1. /\ UNCHANGED <<backend, value, submitting, writes, lastSubmitted, gpu, finished>>
        /\ reading = "mark" /\ reading' = "idle"
        /\ \A s \in Slots : slot'[s] = IF s \in DOMAIN wanted /\ Resolves(slot[s])
                                       THEN [slot[s] EXCEPT !.state = "Resolved"] ELSE slot[s]
    BY <1>10 DEF MarkResolved, submission, device
  <2>2. \A s \in Slots : slot[s] \in [state : {"Reset", "Pending", "Resolved"}, id : Ids]
    BY DEF TypeOK
  <2>3. \A s \in Slots : slot'[s].id = slot[s].id
    BY <2>1, <2>2
  <2>4. finished >= SubmissionID /\ SubmissionID \in Ids
    BY <1>0, <2>1, LatestWanted DEF ReaderInv
  <2>5. ASSUME NEW s \in Slots, slot'[s].state = "Resolved" PROVE value[s] >= slot[s].id
    <3>1. CASE slot'[s] = slot[s]
      BY <1>0, <2>5, <3>1 DEF ResolvedBehindFence
    <3>2. CASE Resolves(slot[s])
      <4>1. PICK n \in Ids : n = slot[s].id
        BY <2>2
      <4>2. n <= finished
        BY <2>4, <3>2, <4>1 DEF Resolves, TypeOK, Ids
      <4>3. Written(s, n)
        BY <1>0, <4>1 DEF SlotsInv
      <4>4. QED
        BY <1>0, <4>1, <4>2, <4>3, FencePassed
    <3>3. QED
      BY <2>1, <3>1, <3>2
  <2>6. ResolvedBehindFence'
    BY <2>1, <2>3, <2>5 DEF ResolvedBehindFence
  <2>7. SlotsInv'
    BY <1>0, <2>1, <2>3 DEF SlotsInv, Written
  <2>8. QED
    BY <1>0, <2>1, <2>6, <2>7, OrderKept DEF ReaderInv
<1>11. CASE UNCHANGED vars
  BY <1>0, <1>11, OrderKept
  DEF vars, submission, device, reader, SlotsInv, ReaderInv, ResolvedBehindFence, Written, SubmissionID
<1>12. ASSUME NEW s \in Slots, GpuResetQuery(s) PROVE FALSE
  BY <1>0, <1>12 DEF GpuResetQuery
<1>13. QED
  BY <1>1, <1>1a, <1>2, <1>3, <1>4, <1>5, <1>6, <1>7, <1>8, <1>9, <1>9a, <1>10, <1>11, <1>12
  DEF Next, Client, Submitter, Gpu, Reader

LEMMA QueryInvariant == QueryPoolConstants => (Spec => []QueryInv)
<1> SUFFICES ASSUME QueryPoolConstants PROVE Spec => []QueryInv
  OBVIOUS
<1>1. Init => QueryInv
  BY QueryInit
<1>2. QueryInv /\ [Next]_vars => QueryInv'
  BY TypeNext, FenceNext DEF QueryInv
<1>3. QED
  BY <1>1, <1>2, PTL DEF Spec

(* Every variable keeps its type.                                          *)
THEOREM QueriesTyped == QueryPoolConstants => (Spec => []TypeOK)
<1> SUFFICES ASSUME QueryPoolConstants PROVE Spec => []TypeOK
  OBVIOUS
<1>1. QueryInv => TypeOK
  BY DEF QueryInv
<1>2. QED
  BY <1>1, QueryInvariant, PTL

(* Behind a fence, a slot is resolved only when the query holds the result *)
(* of the submission the slot names (rhi-shared.cpp:423-437), however      *)
(* submissions, resets and readers follow each other.                      *)
THEOREM ResolvedWritten == QueryPoolConstants => (Spec => []ResolvedBehindFence)
<1> SUFFICES ASSUME QueryPoolConstants PROVE Spec => []ResolvedBehindFence
  OBVIOUS
<1>1. QueryInv => ResolvedBehindFence
  BY DEF QueryInv, FenceInv, ResolvedBehindFence
<1>2. QED
  BY <1>1, QueryInvariant, PTL

(* Behind a fence, what a reader copies is of the submission each slot was *)
(* under when the read began, or of a later one (d3d12-query.cpp).         *)
THEOREM ReadsAreFresh == QueryPoolConstants => (Spec => FreshBehindFence)
<1> SUFFICES ASSUME QueryPoolConstants PROVE Spec => FreshBehindFence
  OBVIOUS
<1>1. QueryInv /\ [Next]_vars => [backend = "D3D12" => ReadsFresh]_vars
  <2> SUFFICES ASSUME QueryInv, backend = "D3D12", Read, NEW s \in DOMAIN wanted
               PROVE  value[s] >= wanted[s]
    BY DEF ReadsFresh
  <2>1. TypeOK /\ InOrder /\ ReaderInv
    BY DEF QueryInv, FenceInv
  <2>2. reading = "wait" /\ finished >= SubmissionID
    BY DEF Read, Readable
  <2>3. PICK n \in Ids : n = wanted[s]
    BY <2>1 DEF TypeOK
  <2>4. s \in Slots /\ Written(s, n)
    BY <2>1, <2>2, <2>3 DEF ReaderInv, TypeOK
  <2>5. n <= finished
    BY <2>1, <2>2, <2>3, LatestWanted DEF ReaderInv, TypeOK, Ids
  <2>6. QED
    BY <2>1, <2>3, <2>4, <2>5, FencePassed
<1>2. QED
  BY <1>1, QueryInvariant, PTL DEF Spec, FreshBehindFence

(* A slot that was reset stays so until it is submitted again: a reader    *)
(* that marks late does not bring the old result back (rhi-shared.cpp:423).*)
THEOREM ResetsStay == QueryPoolConstants => (Spec => ResetStays)
<1> SUFFICES ASSUME QueryPoolConstants PROVE Spec => ResetStays
  OBVIOUS
<1>1. TypeOK /\ [Next]_vars =>
        [\A s \in Slots : slot[s].state = "Reset" => slot'[s].state \in {"Reset", "Pending"}]_vars
  <2> SUFFICES ASSUME TypeOK, [Next]_vars, NEW s \in Slots, slot[s].state = "Reset"
               PROVE  slot'[s].state \in {"Reset", "Pending"}
    OBVIOUS
  <2>1. ASSUME NEW r \in Slots, MarkSubmitted(r) PROVE slot'[s].state \in {"Reset", "Pending"}
    BY <2>1 DEF MarkSubmitted, TypeOK
  <2>2. ASSUME NEW rs \in Ranges, Reset(rs) PROVE slot'[s].state \in {"Reset", "Pending"}
    BY <2>2 DEF Reset, TypeOK
  <2>3. CASE MarkResolved
    BY <2>3 DEF MarkResolved, Resolves, TypeOK
  <2>4. CASE slot' = slot
    BY <2>4
  <2>5. QED
    BY <2>1, <2>2, <2>3, <2>4
    DEF Next, Client, Submitter, Gpu, Reader, BeginSubmit, FailToWaitForFence, BeginRead, SendToQueue,
        GpuResetQuery, GpuWriteQuery, GpuFinish, Read, ReturnPending, ReadFails, vars
<1>2. QED
  BY <1>1, QueriesTyped, PTL DEF Spec, ResetStays
=============================================================================
