------------------------- MODULE CommandEncoderProofs -----------------------
(***************************************************************************)
(* The lemmas about the encoding and recording of command lists, for every *)
(* set of resources, textures of every shape, root objects, targets and    *)
(* client calls.                                                           *)
(*                                                                         *)
(* A tracker asked for states owes exactly the barriers that take what it  *)
(* believed to what it now believes (Follows; RequireSound,                *)
(* DefaultsSound).  A handler either records all that is owed, in order,   *)
(* or keeps it (Committed, Postponed), provided that it reads a well       *)
(* formed command (Typed): VulkanTruthful and D3D12Truthful.  The encoder  *)
(* writes only such commands, and the end of a render pass is in the list  *)
(* before its beginning is recorded (Encoding).                            *)
(*                                                                         *)
(* A handler that finds what its command names, what is bound and what is  *)
(* targeted retained gives the GPU, leaves bound and leaves targeted only  *)
(* what is retained (Kept, Supplied).                                      *)
(***************************************************************************)
EXTENDS CommandEncoder, UntrackedRecorder, FiniteSetTheorems, SequenceTheorems, WellFoundedInduction, TLAPS

(* A set that has 0 and with every number its successor has every number:  *)
(* how what a fold keeps is carried from one element of a sequence to the  *)
(* next.                                                                   *)
LEMMA NatSets ==
    ASSUME NEW S, 0 \in S, \A n \in Nat : n \in S => n + 1 \in S
    PROVE  Nat \subseteq S
<1>1. SUFFICES ASSUME Nat \ S # {} PROVE FALSE
  OBVIOUS
<1>2. PICK x \in Nat \ S : \A y \in Nat \ S : ~(<<y, x>> \in OpToRel(<, Nat))
  <2>1. IsWellFoundedOn(OpToRel(<, Nat), Nat)
    BY NatLessThanWellFounded
  <2>2. Nat \ S \subseteq Nat
    OBVIOUS
  <2> QED
    BY <1>1, <2>1, <2>2, WFMin
<1>3. x # 0 /\ x - 1 \in Nat /\ x - 1 < x
  OBVIOUS
<1>4. <<x - 1, x>> \in OpToRel(<, Nat)
  BY <1>3 DEF OpToRel
<1>5. x - 1 \in S
  BY <1>2, <1>3, <1>4
<1>6. (x - 1) + 1 = x
  OBVIOUS
<1> QED
  BY <1>3, <1>5, <1>6

(* The barriers of a list reach the GPU one by one in the order of the     *)
(* list (StateTracking!ApplyBarriers as a function of how many were        *)
(* executed).                                                              *)
LEMMA ApplyFold ==
    ASSUME NEW s, NEW X, NEW bs \in Seq(X)
    PROVE  \E f : /\ f = [n \in 0..Len(bs) |-> IF n = 0 THEN s ELSE ApplyBarrier(f[n - 1], bs[n])]
                  /\ ApplyBarriers(s, bs) = f[Len(bs)]
<1> DEFINE Is(f, m) == f = [n \in 0..m |-> IF n = 0 THEN s ELSE ApplyBarrier(f[n - 1], bs[n])]
<1> DEFINE S == {m \in Nat : \E f : Is(f, m)}
<1>1. 0 \in S
  <2>1. Is([n \in 0..0 |-> s], 0)
    OBVIOUS
  <2> QED
    BY <2>1
<1>2. ASSUME NEW m \in Nat, m \in S PROVE m + 1 \in S
  <2>1. PICK f : Is(f, m)
    BY <1>2
  <2> DEFINE g == [n \in 0..(m + 1) |-> IF n = m + 1 THEN ApplyBarrier(f[m], bs[m + 1]) ELSE f[n]]
  <2>2. ASSUME NEW n \in 0..(m + 1)
        PROVE  g[n] = IF n = 0 THEN s ELSE ApplyBarrier(g[n - 1], bs[n])
    <3>1. CASE n = m + 1
      BY <3>1
    <3>2. CASE n \in 0..m
      <4>1. g[n] = f[n]
        BY <3>2
      <4>2. f[n] = IF n = 0 THEN s ELSE ApplyBarrier(f[n - 1], bs[n])
        BY <2>1, <3>2
      <4>3. n # 0 => g[n - 1] = f[n - 1]
        BY <3>2
      <4> QED
        BY <4>1, <4>2, <4>3
    <3> QED
      BY <3>1, <3>2
  <2>3. Is(g, m + 1)
    BY <2>2
  <2> HIDE DEF Is, g
  <2> QED
    BY <2>3
<1>3. Len(bs) \in S
  <2> HIDE DEF S
  <2>1. Nat \subseteq S
    BY <1>1, <1>2, NatSets
  <2> QED
    BY <2>1
<1>4. \E f : Is(f, Len(bs))
  BY <1>3
<1> DEFINE F == CHOOSE f : Is(f, Len(bs))
<1>5. Is(F, Len(bs))
  BY <1>4
<1>6. ApplyBarriers(s, bs) = F[Len(bs)]
  BY DEF ApplyBarriers
<1> QED
  BY <1>5, <1>6
(* The states a handler requires are required one by one in its order      *)
(* (StateTracking!Require as a function of how many were required).        *)
LEMMA RequireFold ==
    ASSUME NEW t, NEW X, NEW needs \in Seq(X)
    PROVE  \E f : /\ f = [n \in 0..Len(needs) |-> IF n = 0 THEN t ELSE RequireState(f[n - 1], needs[n])]
                  /\ Require(t, needs) = f[Len(needs)]
<1> DEFINE Is(f, m) == f = [n \in 0..m |-> IF n = 0 THEN t ELSE RequireState(f[n - 1], needs[n])]
<1> DEFINE S == {m \in Nat : \E f : Is(f, m)}
<1>1. 0 \in S
  <2>1. Is([n \in 0..0 |-> t], 0)
    OBVIOUS
  <2> QED
    BY <2>1
<1>2. ASSUME NEW m \in Nat, m \in S PROVE m + 1 \in S
  <2>1. PICK f : Is(f, m)
    BY <1>2
  <2> DEFINE g == [n \in 0..(m + 1) |-> IF n = m + 1 THEN RequireState(f[m], needs[m + 1]) ELSE f[n]]
  <2>2. ASSUME NEW n \in 0..(m + 1)
        PROVE  g[n] = IF n = 0 THEN t ELSE RequireState(g[n - 1], needs[n])
    <3>1. CASE n = m + 1
      BY <3>1
    <3>2. CASE n \in 0..m
      <4>1. g[n] = f[n]
        BY <3>2
      <4>2. f[n] = IF n = 0 THEN t ELSE RequireState(f[n - 1], needs[n])
        BY <2>1, <3>2
      <4>3. n # 0 => g[n - 1] = f[n - 1]
        BY <3>2
      <4> QED
        BY <4>1, <4>2, <4>3
    <3> QED
      BY <3>1, <3>2
  <2>3. Is(g, m + 1)
    BY <2>2
  <2> HIDE DEF Is, g
  <2> QED
    BY <2>3
<1>3. Len(needs) \in S
  <2> HIDE DEF S
  <2>1. Nat \subseteq S
    BY <1>1, <1>2, NatSets
  <2> QED
    BY <2>1
<1>4. \E f : Is(f, Len(needs))
  BY <1>3
<1> DEFINE F == CHOOSE f : Is(f, Len(needs))
<1>5. Is(F, Len(needs))
  BY <1>4
<1>6. Require(t, needs) = F[Len(needs)]
  BY DEF Require
<1> QED
  BY <1>5, <1>6
(* Lists that are joined are appended one by one.                          *)
LEMMA FlattenFold ==
    ASSUME NEW X, NEW ss \in Seq(X), ss # <<>>
    PROVE  \E f : /\ f = [n \in 1..Len(ss) |-> IF n = 1 THEN ss[n] ELSE f[n - 1] \o ss[n]]
                  /\ FlattenSeq(ss) = f[Len(ss)]
<1> DEFINE Is(f, m) == f = [n \in 1..m |-> IF n = 1 THEN ss[n] ELSE f[n - 1] \o ss[n]]
<1> DEFINE S == {m \in Nat : \E f : Is(f, m)}
<1>1. 0 \in S
  <2>1. Is([n \in 1..0 |-> ss[n]], 0)
    OBVIOUS
  <2> QED
    BY <2>1
<1>2. ASSUME NEW m \in Nat, m \in S PROVE m + 1 \in S
  <2>1. PICK f : Is(f, m)
    BY <1>2
  <2> DEFINE g == [n \in 1..(m + 1) |-> IF n = m + 1 THEN IF n = 1 THEN ss[n] ELSE f[m] \o ss[m + 1] ELSE f[n]]
  <2>2. ASSUME NEW n \in 1..(m + 1)
        PROVE  g[n] = IF n = 1 THEN ss[n] ELSE g[n - 1] \o ss[n]
    <3>1. CASE n = m + 1
      BY <3>1
    <3>2. CASE n \in 1..m
      <4>1. g[n] = f[n]
        BY <3>2
      <4>2. f[n] = IF n = 1 THEN ss[n] ELSE f[n - 1] \o ss[n]
        BY <2>1, <3>2
      <4>3. n # 1 => g[n - 1] = f[n - 1]
        BY <3>2
      <4> QED
        BY <4>1, <4>2, <4>3
    <3> QED
      BY <3>1, <3>2
  <2>3. Is(g, m + 1)
    BY <2>2
  <2> HIDE DEF Is, g
  <2> QED
    BY <2>3
<1>3. Len(ss) \in S
  <2> HIDE DEF S
  <2>1. Nat \subseteq S
    BY <1>1, <1>2, NatSets
  <2> QED
    BY <2>1
<1>4. \E f : Is(f, Len(ss))
  BY <1>3
<1> DEFINE F == CHOOSE f : Is(f, Len(ss))
<1>5. Is(F, Len(ss))
  BY <1>4
<1>6. Len(ss) # 0
  OBVIOUS
<1>7. FlattenSeq(ss) = F[Len(ss)]
  BY <1>6 DEF FlattenSeq
<1> QED
  BY <1>5, <1>7


(* A submission without barriers changes no state.                         *)
LEMMA ApplyNone == ASSUME NEW s PROVE ApplyBarriers(s, <<>>) = s
<1>1. <<>> \in Seq({}) /\ Len(<<>>) = 0
  OBVIOUS
<1>2. PICK f : /\ f = [n \in 0..Len(<<>>) |-> IF n = 0 THEN s ELSE ApplyBarrier(f[n - 1], <<>>[n])]
               /\ ApplyBarriers(s, <<>>) = f[Len(<<>>)]
  BY <1>1, ApplyFold
<1> HIDE DEF ApplyBarriers
<1>3. f[0] = s
  BY <1>1, <1>2
<1> QED
  BY <1>1, <1>2, <1>3

(* Barriers recorded in two batches act like one batch after the other.    *)
LEMMA ApplyMore ==
    ASSUME NEW s, NEW X, NEW bs \in Seq(X), NEW cs \in Seq(X)
    PROVE  ApplyBarriers(s, bs \o cs) = ApplyBarriers(ApplyBarriers(s, bs), cs)
<1> DEFINE all == bs \o cs
           t == ApplyBarriers(s, bs)
<1>1. /\ all \in Seq(X) /\ Len(all) = Len(bs) + Len(cs) /\ Len(bs) \in Nat /\ Len(cs) \in Nat
      /\ \A n \in 1..Len(bs) : all[n] = bs[n]
      /\ \A n \in 1..Len(cs) : all[Len(bs) + n] = cs[n]
  OBVIOUS
<1> HIDE DEF all
<1>2. PICK f : /\ f = [n \in 0..Len(all) |-> IF n = 0 THEN s ELSE ApplyBarrier(f[n - 1], all[n])]
               /\ ApplyBarriers(s, all) = f[Len(all)]
  BY <1>1, ApplyFold
<1>3. PICK g : /\ g = [n \in 0..Len(bs) |-> IF n = 0 THEN s ELSE ApplyBarrier(g[n - 1], bs[n])]
               /\ ApplyBarriers(s, bs) = g[Len(bs)]
  BY ApplyFold
<1> HIDE DEF t
<1>4. PICK h : /\ h = [n \in 0..Len(cs) |-> IF n = 0 THEN t ELSE ApplyBarrier(h[n - 1], cs[n])]
               /\ ApplyBarriers(t, cs) = h[Len(cs)]
  BY ApplyFold
<1>5. \A n \in 0..Len(bs) : f[n] = g[n]
  <2> DEFINE T == {n \in Nat : n <= Len(bs) => f[n] = g[n]}
  <2>1. 0 \in T
    BY <1>1, <1>2, <1>3
  <2>2. ASSUME NEW n \in Nat, n \in T PROVE n + 1 \in T
    <3> SUFFICES ASSUME n + 1 <= Len(bs) PROVE f[n + 1] = g[n + 1]
      OBVIOUS
    <3>1. n + 1 \in 0..Len(all) /\ n + 1 \in 0..Len(bs) /\ n + 1 # 0 /\ n + 1 - 1 = n /\ n + 1 \in 1..Len(bs)
      BY <1>1
    <3>2. f[n + 1] = ApplyBarrier(f[n], all[n + 1])
      BY <1>2, <3>1
    <3>3. g[n + 1] = ApplyBarrier(g[n], bs[n + 1])
      BY <1>3, <3>1
    <3>4. f[n] = g[n]
      BY <2>2, <1>1
    <3> QED
      BY <3>1, <3>2, <3>3, <3>4, <1>1
  <2>3. Nat \subseteq T
    <3> HIDE DEF T
    <3> QED
      BY <2>1, <2>2, NatSets
  <2> QED
    BY <2>3, <1>1
<1>6. f[Len(bs)] = t
  BY <1>1, <1>3, <1>5 DEF t
<1>7. \A n \in 0..Len(cs) : f[Len(bs) + n] = h[n]
  <2> DEFINE T == {n \in Nat : n <= Len(cs) => f[Len(bs) + n] = h[n]}
  <2>1. 0 \in T
    BY <1>1, <1>4, <1>6
  <2>2. ASSUME NEW n \in Nat, n \in T PROVE n + 1 \in T
    <3> SUFFICES ASSUME n + 1 <= Len(cs) PROVE f[Len(bs) + (n + 1)] = h[n + 1]
      OBVIOUS
    <3>1. /\ Len(bs) + (n + 1) \in 0..Len(all) /\ Len(bs) + (n + 1) # 0
          /\ (Len(bs) + (n + 1)) - 1 = Len(bs) + n
          /\ n + 1 \in 0..Len(cs) /\ n + 1 # 0 /\ n + 1 - 1 = n /\ n + 1 \in 1..Len(cs)
      <4> DEFINE m == Len(bs)
                 k == Len(cs)
      <4>1. m \in Nat /\ k \in Nat /\ Len(all) = m + k /\ n + 1 <= k
        BY <1>1
      <4> HIDE DEF m, k
      <4>2. /\ m + (n + 1) \in 0..(m + k) /\ m + (n + 1) # 0 /\ (m + (n + 1)) - 1 = m + n
            /\ n + 1 \in 0..k /\ n + 1 # 0 /\ n + 1 - 1 = n /\ n + 1 \in 1..k
        BY <4>1
      <4> QED
        BY <4>1, <4>2 DEF m, k
    <3>2. f[Len(bs) + (n + 1)] = ApplyBarrier(f[Len(bs) + n], all[Len(bs) + (n + 1)])
      BY <1>2, <3>1
    <3>3. h[n + 1] = ApplyBarrier(h[n], cs[n + 1])
      BY <1>4, <3>1
    <3>4. f[Len(bs) + n] = h[n]
      BY <2>2, <1>1
    <3> QED
      BY <3>1, <3>2, <3>3, <3>4, <1>1
  <2>3. Nat \subseteq T
    <3> HIDE DEF T
    <3> QED
      BY <2>1, <2>2, NatSets
  <2> QED
    BY <2>3, <1>1
<1>8. f[Len(all)] = h[Len(cs)]
  BY <1>1, <1>7
<1> QED
  BY <1>2, <1>4, <1>8 DEF all, t

(* One barrier recorded alone acts like itself.                            *)
LEMMA ApplyOne == ASSUME NEW s, NEW b PROVE ApplyBarriers(s, <<b>>) = ApplyBarrier(s, b)
<1> DEFINE bs == <<b>>
<1>1. bs \in Seq({b}) /\ Len(bs) = 1 /\ bs[1] = b
  OBVIOUS
<1> HIDE DEF bs
<1>2. PICK f : /\ f = [n \in 0..Len(bs) |-> IF n = 0 THEN s ELSE ApplyBarrier(f[n - 1], bs[n])]
               /\ ApplyBarriers(s, bs) = f[Len(bs)]
  BY <1>1, ApplyFold, ZenonT(40)
<1>3. f[0] = s /\ f[1] = ApplyBarrier(f[0], bs[1])
  BY <1>1, <1>2
<1>4. ApplyBarriers(s, bs) = ApplyBarrier(s, b)
  BY <1>1, <1>2, <1>3
<1> QED
  BY <1>4 DEF bs


-----------------------------------------------------------------------------
(* A value of a function is in its range.                                  *)
LEMMA RangeOf == ASSUME NEW f, NEW x \in DOMAIN f PROVE f[x] \in Range(f)
  BY DEF Range

(* The sequence made of a finite set holds each of its elements once, and  *)
(* no others.                                                              *)
LEMMA InjectiveSeq ==
    ASSUME NEW S, IsFiniteSet(S)
    PROVE  /\ SetToSeq(S) \in Seq(S)
           /\ \A i, j \in 1..Len(SetToSeq(S)) : SetToSeq(S)[i] = SetToSeq(S)[j] => i = j
           /\ \A x \in S : \E i \in 1..Len(SetToSeq(S)) : SetToSeq(S)[i] = x
<1> DEFINE n == Cardinality(S)
           seq == SetToSeq(S)
<1>1. n \in Nat /\ ExistsBijection(1..n, S)
  BY FS_CardinalityType
<1>2. \E f \in [1..n -> S] : IsInjective(f)
  BY <1>1, Zenon DEF ExistsBijection, Bijection, Injection, IsInjective
<1>3. seq \in [1..n -> S] /\ IsInjective(seq)
  BY <1>2, Zenon DEF SetToSeq
<1>4. seq \in Injection(1..n, S)
  BY <1>3, Zenon DEF Injection, IsInjective
<1>5. IsFiniteSet(1..n) /\ Cardinality(1..n) = n
  BY <1>1, FS_Interval
<1>6. seq \in Surjection(1..n, S)
  BY <1>4, <1>5, FS_Injection
<1>7. seq \in Seq(S) /\ Len(seq) = n
  BY <1>1, <1>3
<1> QED
  BY <1>3, <1>6, <1>7 DEF IsInjective, Surjection

-----------------------------------------------------------------------------
(* How the tracker keeps a texture: one state for all of it, or one for    *)
(* each of its subresources.                                               *)
TextureStates(x) == [state : States, sub : {<<>>}]
                      \cup [state : {"Undefined"}, sub : [Subresources(x) -> States]]

(* A barrier a tracker may owe: it changes the state of a resource, to one *)
(* the resource may be in.                                                 *)
Owed == {b \in [res : Resources, parts : SUBSET (Nat \X Nat), before : ResourceStates, after : ResourceStates] :
            b.before \in StatesOf(b.res) /\ b.after \in StatesOf(b.res) /\ Changes(b.before, b.after)}

(* A tracker keeps a state for every resource, which the resource may be   *)
(* in; a host visible buffer is never moved from its own.                  *)
IsTracker(t) ==
    /\ t \in [buffers : [Buffers -> ResourceStates], textures : [Textures -> UNION {TextureStates(x) : x \in Textures}],
              barriers : Seq(Owed)]
    /\ \A b \in Buffers : t.buffers[b] \in StatesOf(b)
    /\ \A b \in HostVisible : t.buffers[b] = DefaultState[b]
    /\ \A x \in Textures : t.textures[x] \in TextureStates(x)

(* u owes what t owes and then barriers that take what t believes to what  *)
(* u believes.                                                             *)
Follows(t, u) ==
    \E bs \in Seq(Owed) : /\ u.barriers = t.barriers \o bs
                          /\ Believed(u) = ApplyBarriers(Believed(t), bs)

(* A tracker that was asked for nothing owes nothing more.                 *)
LEMMA FollowsSame == ASSUME NEW t, IsTracker(t) PROVE Follows(t, t)
<1>1. <<>> \in Seq(Owed) /\ t.barriers \o <<>> = t.barriers
  BY DEF IsTracker
<1>2. ApplyBarriers(Believed(t), <<>>) = Believed(t)
  BY ApplyNone
<1> QED
  BY <1>1, <1>2 DEF Follows

(* What a tracker owes after two requirements is what it owed, then what   *)
(* the first owes, then what the second owes.                              *)
LEMMA FollowsMore ==
    ASSUME NEW t, NEW u, NEW v, IsTracker(t), Follows(t, u), Follows(u, v)
    PROVE  Follows(t, v)
<1>1. PICK bs \in Seq(Owed) : u.barriers = t.barriers \o bs /\ Believed(u) = ApplyBarriers(Believed(t), bs)
  BY DEF Follows
<1>2. PICK cs \in Seq(Owed) : v.barriers = u.barriers \o cs /\ Believed(v) = ApplyBarriers(Believed(u), cs)
  BY DEF Follows
<1>3. bs \o cs \in Seq(Owed) /\ v.barriers = t.barriers \o (bs \o cs)
  BY <1>1, <1>2 DEF IsTracker
<1>4. Believed(v) = ApplyBarriers(Believed(t), bs \o cs)
  BY <1>1, <1>2, ApplyMore
<1> QED
  BY <1>3, <1>4 DEF Follows

(* The states a resource may be in are states of the interface; a texture  *)
(* may be in any that is not of a structure.                               *)
LEMMA StatesTyped == /\ \A r \in Resources : StatesOf(r) \subseteq ResourceStates
                     /\ \A x \in Textures : x \in Resources /\ x \notin Buffers /\ StatesOf(x) = States
                     /\ "Undefined" \in States
                     /\ Buffers \subseteq Resources
<1>1. \A x \in Textures : x \notin Buffers
  BY StateTrackingAssumption
<1>2. \A x \in Textures : x \notin AccelerationStructures /\ x \notin Micromaps
  BY <1>1 DEF AccelerationStructures, Micromaps
<1>3. States \subseteq ResourceStates
  BY DEF States
<1>4. "Undefined" \in States
  BY DEF States, ResourceStates, StructureStates
<1>5. \A x \in Textures : StatesOf(x) = States
  BY <1>2 DEF StatesOf
<1>6. \A r : StatesOf(r) \subseteq ResourceStates
  <2>1. {"AccelerationStructureRead", "AccelerationStructureWrite"} \subseteq ResourceStates
    BY DEF ResourceStates
  <2>2. {"MicromapRead", "MicromapWrite"} \subseteq ResourceStates
    BY DEF ResourceStates
  <2> QED
    BY <1>3, <2>1, <2>2, Zenon DEF StatesOf
<1> QED
  BY <1>1, <1>4, <1>5, <1>6 DEF Resources

(* StateTracking::setBufferState (state-tracking.h): the tracker stays     *)
(* well formed and owes exactly the barrier that takes the buffer from     *)
(* what it believed to what it now believes.                               *)
LEMMA BufferStep ==
    ASSUME NEW t, IsTracker(t), NEW b \in Buffers, NEW s \in StatesOf(b)
    PROVE  LET u == SetBufferState(t, b, s) IN IsTracker(u) /\ Follows(t, u)
<1> DEFINE u == SetBufferState(t, b, s)
<1>1. CASE b \in HostVisible \/ ~Changes(t.buffers[b], s)
  <2>1. u = t
    BY <1>1 DEF SetBufferState
  <2> QED
    BY <2>1, FollowsSame
<1>2. CASE ~(b \in HostVisible \/ ~Changes(t.buffers[b], s))
  <2> DEFINE bar == Barrier(b, Parts(b), t.buffers[b], s)
             buffers == [t.buffers EXCEPT ![b] = s]
  <2>1. u = [t EXCEPT !.buffers[b] = s, !.barriers = Append(@, bar)]
    BY <1>2, Zenon DEF SetBufferState
  <2>2. u = [buffers |-> buffers, textures |-> t.textures, barriers |-> Append(t.barriers, bar)]
    <3>1. t = [buffers |-> t.buffers, textures |-> t.textures, barriers |-> t.barriers]
      BY DEF IsTracker
    <3> HIDE DEF bar, u
    <3>2. [t EXCEPT !.buffers[b] = s, !.barriers = Append(@, bar)] 
            = [[t EXCEPT !.buffers = [@ EXCEPT ![b] = s]] EXCEPT !.barriers = Append(@, bar)]
      BY Zenon
    <3> QED
      BY <2>1, <3>1, <3>2
  <2>3. bar \in Owed
    BY <1>2, StatesTyped DEF Owed, Barrier, Parts, IsTracker
  <2>4. Append(t.barriers, bar) \in Seq(Owed) /\ Append(t.barriers, bar) = t.barriers \o <<bar>> /\ <<bar>> \in Seq(Owed)
    BY <2>3 DEF IsTracker
  <2>5. /\ buffers \in [Buffers -> ResourceStates] /\ buffers[b] = s
        /\ \A c \in Buffers \ {b} : buffers[c] = t.buffers[c]
    BY StatesTyped DEF IsTracker
  <2>6. IsTracker(u)
    <3> HIDE DEF buffers, bar, u
    <3>1. u \in [buffers : [Buffers -> ResourceStates], textures : [Textures -> UNION {TextureStates(x) : x \in Textures}],
              barriers : Seq(Owed)]
      BY <2>2, <2>4, <2>5 DEF IsTracker
    <3>2. u.buffers = buffers /\ u.textures = t.textures
      BY <2>2
    <3>3. \A c \in Buffers : u.buffers[c] \in StatesOf(c)
      BY <3>2, <2>5 DEF IsTracker
    <3>4. \A c \in HostVisible : u.buffers[c] = DefaultState[c]
      BY <3>2, <2>5, <1>2, StateTrackingAssumption DEF IsTracker
    <3>5. \A x \in Textures : u.textures[x] \in TextureStates(x)
      BY <3>2 DEF IsTracker
    <3> QED
      BY <3>1, <3>3, <3>4, <3>5 DEF IsTracker
  <2>7. Believed(u) = ApplyBarriers(Believed(t), <<bar>>)
    <3>1. ApplyBarriers(Believed(t), <<bar>>) = ApplyBarrier(Believed(t), bar)
      BY ApplyOne
    <3>2. u.buffers = buffers /\ u.textures = t.textures
      BY <2>2
    <3> HIDE DEF u
    <3>3. Believed(t)[b] = [x \in Parts(b) |-> t.buffers[b]]
      BY DEF Believed, Resources
    <3>4. bar.res = b /\ bar.parts = Parts(b) /\ bar.before = t.buffers[b] /\ bar.after = s
      BY DEF Barrier
    <3> HIDE DEF bar, buffers
    <3>5. ApplyBarrier(Believed(t), bar) = [Believed(t) EXCEPT ![b] = [x \in Parts(b) |-> s]]
      BY <3>3, <3>4, ZenonT(40) DEF ApplyBarrier
    <3>6. Believed(u)[b] = [x \in Parts(b) |-> s]
      BY <3>2, <2>5 DEF Believed, Resources
    <3>7. ASSUME NEW r \in Resources, r # b PROVE Believed(u)[r] = Believed(t)[r]
      BY <3>7, <3>2, <2>5 DEF Believed
    <3>8. /\ Believed(u) = [r \in Resources |-> Believed(u)[r]]
          /\ Believed(t) = [r \in Resources |-> Believed(t)[r]]
      BY DEF Believed
    <3>9. Believed(u) = [Believed(t) EXCEPT ![b] = [x \in Parts(b) |-> s]]
      <4>1. b \in Resources
        BY StatesTyped
      <4> DEFINE new == [x \in Parts(b) |-> s]
                 f == Believed(t)
                 g == Believed(u)
      <4>2. f = [r \in Resources |-> f[r]] /\ g = [r \in Resources |-> g[r]]
        BY <3>8
      <4>3. g[b] = new /\ \A r \in Resources : r # b => g[r] = f[r]
        BY <3>6, <3>7
      <4> HIDE DEF new, f, g
      <4>4. g = [f EXCEPT ![b] = new]
        BY <4>1, <4>2, <4>3
      <4> QED
        BY <4>4 DEF new, f, g
    <3> QED
      BY <3>1, <3>5, <3>9
  <2>8. u.barriers = t.barriers \o <<bar>>
    BY <2>2, <2>4
  <2> HIDE DEF u, bar
  <2>9. Follows(t, u)
    BY <2>4, <2>7, <2>8 DEF Follows
  <2> QED
    BY <2>6, <2>9 DEF u
<1> QED
  BY <1>1, <1>2

(* A texture has finitely many subresources, at least one, and its         *)
(* barriers name them.                                                     *)
LEMMA SubresourcesFinite ==
    ASSUME NEW x \in Textures
    PROVE  /\ IsFiniteSet(Subresources(x)) /\ <<0, 0>> \in Subresources(x)
           /\ Subresources(x) \subseteq Nat \X Nat
           /\ Parts(x) = Subresources(x)
<1>1. LayerCount[x] \in Nat \ {0} /\ MipCount[x] \in Nat \ {0}
  BY StateTrackingAssumption
<1>2. /\ 0 \in Int /\ LayerCount[x] - 1 \in Int /\ MipCount[x] - 1 \in Int
      /\ 0 \in 0..(LayerCount[x] - 1) /\ 0 \in 0..(MipCount[x] - 1)
  BY <1>1
<1>3. IsFiniteSet(0..(LayerCount[x] - 1)) /\ IsFiniteSet(0..(MipCount[x] - 1))
  BY <1>2, FS_Interval
<1>4. IsFiniteSet(Subresources(x))
  BY <1>3, FS_Product DEF Subresources
<1> QED
  BY <1>2, <1>4, StatesTyped DEF Subresources, Parts

(* A range clamped to a texture touches subresources of that texture only. *)
LEMMA ResolvedTouches ==
    ASSUME NEW x \in Textures, NEW given \in Ranges
    PROVE  Touched(x, Resolved(x, given)) \subseteq Subresources(x)
<1> DEFINE range == Resolved(x, given)
<1>1. LayerCount[x] \in Nat \ {0} /\ MipCount[x] \in Nat \ {0}
  BY StateTrackingAssumption
<1>2. given.layer \in Nat /\ given.layerCount \in Nat /\ given.mip \in Nat /\ given.mipCount \in Nat
  BY DEF Ranges
<1>3. /\ range.layer = Smaller(given.layer, LayerCount[x] - 1)
      /\ range.mip = Smaller(given.mip, MipCount[x] - 1)
      /\ range.mipCount = Smaller(given.mipCount, MipCount[x] - range.mip)
  BY DEF Resolved, SubresourceRange
<1> HIDE DEF range
<1>4. range.layer \in 0..(LayerCount[x] - 1)
  BY <1>1, <1>2, <1>3 DEF Smaller
<1>5. range.mip \in 0..(MipCount[x] - 1)
  BY <1>1, <1>2, <1>3 DEF Smaller
<1>6. range.mipCount \in Int /\ range.mip + range.mipCount <= MipCount[x]
  BY <1>1, <1>2, <1>3, <1>5 DEF Smaller
<1>7. range.layer..(LayerCount[x] - 1) \subseteq 0..(LayerCount[x] - 1)
  BY <1>1, <1>4
<1>8. range.mip..(range.mip + range.mipCount - 1) \subseteq 0..(MipCount[x] - 1)
  BY <1>1, <1>5, <1>6
<1> QED
  BY <1>7, <1>8 DEF Touched, Subresources, range

(* The states of a texture's subresources, whichever way they are kept.    *)
Sub(x, k) == IF k.sub = <<>> THEN [y \in Subresources(x) |-> k.state] ELSE k.sub

(* Whichever way a texture's states are kept, they give one state to each  *)
(* of its subresources.                                                    *)
LEMMA SubTyped ==
    ASSUME NEW x \in Textures, NEW k \in TextureStates(x)
    PROVE  /\ Sub(x, k) \in [Subresources(x) -> States]
           /\ k.sub # <<>> => k.state = "Undefined"
           /\ k = [state |-> k.state, sub |-> k.sub]
<1>1. CASE k \in [state : States, sub : {<<>>}]
  BY <1>1 DEF Sub
<1>2. CASE k \in [state : {"Undefined"}, sub : [Subresources(x) -> States]]
  <2>1. <<0, 0>> \in DOMAIN k.sub
    BY <1>2, SubresourcesFinite
  <2>2. k.sub # <<>>
    BY <2>1
  <2> QED
    BY <1>2, <2>2 DEF Sub
<1> QED
  BY <1>1, <1>2 DEF TextureStates

(* What the tracker believes of a texture is the states it keeps for its   *)
(* subresources.                                                           *)
LEMMA BelievedTexture ==
    ASSUME NEW t, IsTracker(t), NEW x \in Textures
    PROVE  Believed(t)[x] = Sub(x, t.textures[x])
<1> DEFINE k == t.textures[x]
<1>1. k \in TextureStates(x)
  BY DEF IsTracker
<1>2. x \in Resources /\ x \notin Buffers /\ Parts(x) = Subresources(x)
  BY StatesTyped, SubresourcesFinite
<1>3. Believed(t)[x] = [y \in Subresources(x) |-> IF k.sub = <<>> THEN k.state ELSE k.sub[y]]
  BY <1>2 DEF Believed
<1>4. Sub(x, k) \in [Subresources(x) -> States]
  BY <1>1, SubTyped
<1> HIDE DEF k
<1>5. CASE k.sub = <<>>
  BY <1>3, <1>5 DEF Sub, k
<1>6. CASE k.sub # <<>>
  <2>1. k.sub \in [Subresources(x) -> States]
    BY <1>4, <1>6 DEF Sub
  <2>2. [y \in Subresources(x) |-> k.sub[y]] = k.sub
    BY <2>1
  <2> QED
    BY <1>3, <1>6, <2>2 DEF Sub, k
<1> QED
  BY <1>5, <1>6

(* Collapsing equal subresource states to the state of the whole texture   *)
(* (state-tracking.h) changes no subresource's state.                      *)
LEMMA CollapseSound ==
    ASSUME NEW x \in Textures, NEW sub \in [Subresources(x) -> States]
    PROVE  Collapse(x, sub) \in TextureStates(x) /\ Sub(x, Collapse(x, sub)) = sub
<1>1. <<0, 0>> \in Subresources(x)
  BY SubresourcesFinite
<1>2. CASE \A y \in Subresources(x) : sub[y] = sub[<<0, 0>>]
  <2> DEFINE k == [state |-> sub[<<0, 0>>], sub |-> <<>>]
  <2>1. Collapse(x, sub) = k
    BY <1>2 DEF Collapse
  <2>2. k \in TextureStates(x)
    BY <1>1 DEF TextureStates
  <2>3. k.state = sub[<<0, 0>>] /\ k.sub = <<>>
    OBVIOUS
  <2> HIDE DEF k
  <2>4. Sub(x, k) = [y \in Subresources(x) |-> sub[<<0, 0>>]]
    BY <2>3 DEF Sub
  <2> QED
    BY <1>2, <2>1, <2>2, <2>4
<1>3. CASE ~ \A y \in Subresources(x) : sub[y] = sub[<<0, 0>>]
  <2> DEFINE k == [state |-> "Undefined", sub |-> sub]
  <2>1. Collapse(x, sub) = k
    BY <1>3, Zenon DEF Collapse
  <2>2. k \in TextureStates(x)
    BY DEF TextureStates
  <2>3. k.sub = sub /\ sub # <<>>
    BY <1>1
  <2> QED
    BY <2>1, <2>2, <2>3 DEF Sub
<1> QED
  BY <1>2, <1>3

(* In the states g, in which the subresources of x are in the states sub,  *)
(* those of changed are to change to the state s.                          *)
Change(x, g, sub, s, changed, owed, after) ==
    /\ x \in Textures /\ sub \in [Subresources(x) -> States] /\ s \in States
    /\ g = [r \in Resources |-> g[r]] /\ g[x] = sub
    /\ changed \subseteq Subresources(x) /\ \A y \in changed : Changes(sub[y], s)
    /\ owed = [y \in changed |-> Barrier(x, {y}, sub[y], s)]
    /\ after = [y \in Subresources(x) |-> IF y \in changed THEN s ELSE sub[y]]

(* The barriers owed for the subresources that change take exactly those   *)
(* subresources to the state that is set, in whatever order they are       *)
(* listed.                                                                 *)
LEMMA SubBarriers ==
    ASSUME NEW x, NEW g, NEW sub, NEW s, NEW changed, NEW named, NEW after,
           Change(x, g, sub, s, changed, named, after)
    PROVE  /\ SetToSeq(Range(named)) \in Seq(Owed)
           /\ ApplyBarriers(g, SetToSeq(Range(named))) = [g EXCEPT ![x] = after]
<1> DEFINE owed == [y \in changed |-> Barrier(x, {y}, sub[y], s)]
           seq == SetToSeq(Range(owed))
           With(P) == [g EXCEPT ![x] = [y \in Subresources(x) |-> IF y \in P THEN s ELSE sub[y]]]
<1>0. /\ x \in Textures /\ sub \in [Subresources(x) -> States] /\ s \in States
      /\ g = [r \in Resources |-> g[r]] /\ g[x] = sub
      /\ changed \subseteq Subresources(x) /\ \A y \in changed : Changes(sub[y], s)
  BY DEF Change
<1> USE <1>0
<1>1. x \in Resources /\ Parts(x) = Subresources(x) /\ Subresources(x) \subseteq Nat \X Nat
  BY StatesTyped, SubresourcesFinite
<1>2. IsFiniteSet(Range(owed))
  <2>1. IsFiniteSet(changed)
    BY SubresourcesFinite, FS_Subset
  <2>2. owed \in Surjection(changed, Range(owed))
    BY DEF Surjection, Range
  <2> QED
    BY <2>1, <2>2, FS_Surjection
<1>3. \A y \in changed : /\ owed[y] \in Owed
                         /\ owed[y].res = x /\ owed[y].parts = {y} /\ owed[y].before = sub[y]
                         /\ owed[y].after = s
  <2> TAKE y \in changed
  <2>1. owed[y] = [res |-> x, parts |-> {y}, before |-> sub[y], after |-> s]
    BY DEF Barrier
  <2>2. sub[y] \in States /\ sub[y] \in ResourceStates /\ s \in ResourceStates /\ {y} \in SUBSET (Nat \X Nat)
    BY <1>1 DEF States
  <2>3. StatesOf(x) = States
    BY StatesTyped
  <2> HIDE DEF owed
  <2>4. owed[y] \in Owed
    BY <2>1, <2>2, <2>3, <1>1 DEF Owed
  <2> QED
    BY <2>1, <2>4
<1>4. \A o \in Range(owed) : \E y \in changed : o = owed[y]
  BY DEF Range
<1>5. Range(owed) \subseteq Owed
  BY <1>3, <1>4
<1>6. /\ seq \in Seq(Range(owed))
      /\ \A i, j \in 1..Len(seq) : seq[i] = seq[j] => i = j
      /\ \A o \in Range(owed) : \E i \in 1..Len(seq) : seq[i] = o
  BY <1>2, InjectiveSeq
<1>7. \A y \in changed : owed[y] \in Range(owed)
  BY DEF Range
<1> HIDE DEF seq, owed
<1>8. seq \in Seq(Owed) /\ Len(seq) \in Nat /\ \A i \in 1..Len(seq) : seq[i] \in Range(owed)
  BY <1>5, <1>6
<1> DEFINE Done(n) == {y \in changed : \E i \in 1..n : seq[i] = owed[y]}
<1>9. PICK f : /\ f = [n \in 0..Len(seq) |-> IF n = 0 THEN g ELSE ApplyBarrier(f[n - 1], seq[n])]
               /\ ApplyBarriers(g, seq) = f[Len(seq)]
  BY <1>8, ApplyFold
<1> DEFINE T == {n \in Nat : n <= Len(seq) => f[n] = With(Done(n))}
<1>10. 0 \in T
  <2>1. f[0] = g
    BY <1>8, <1>9
  <2>2. Done(0) = {}
    OBVIOUS
  <2>3. With({}) = g
    <3>1. [y \in Subresources(x) |-> IF y \in {} THEN s ELSE sub[y]] = sub
      OBVIOUS
    <3> QED
      BY <3>1
  <2> HIDE DEF With, Done
  <2> QED
    BY <2>1, <2>2, <2>3
<1>11. ASSUME NEW n \in Nat, n \in T PROVE n + 1 \in T
  <2> SUFFICES ASSUME n + 1 <= Len(seq) PROVE f[n + 1] = With(Done(n + 1))
    OBVIOUS
  <2>1. n + 1 \in 0..Len(seq) /\ n + 1 # 0 /\ (n + 1) - 1 = n /\ n + 1 \in 1..Len(seq) /\ n <= Len(seq)
    BY <1>8
  <2>2. f[n + 1] = ApplyBarrier(f[n], seq[n + 1])
    BY <1>9, <2>1
  <2>3. f[n] = With(Done(n))
    BY <1>11, <2>1
  <2>4. PICK y \in changed : seq[n + 1] = owed[y]
    BY <1>4, <1>8, <2>1
  <2>5. y \notin Done(n)
    <3> SUFFICES ASSUME NEW i \in 1..n, seq[i] = owed[y] PROVE FALSE
      OBVIOUS
    <3>1. i \in 1..Len(seq) /\ i # n + 1
      BY <1>8, <2>1
    <3> QED
      BY <1>6, <2>1, <2>4, <3>1
  <2>6. Done(n + 1) = Done(n) \cup {y}
    <3>1. \A z \in changed : owed[z] = owed[y] => z = y
      BY <1>3
    <3>2. \A i : i \in 1..(n + 1) <=> i \in 1..n \/ i = n + 1
      OBVIOUS
    <3> QED
      BY <2>4, <3>1, <3>2
  <2> DEFINE h == f[n]
             b == seq[n + 1]
             P == Done(n)
  <2>7. h[x] = [z \in Subresources(x) |-> IF z \in P THEN s ELSE sub[z]]
    BY <2>3, <1>1
  <2>8. y \in Subresources(x) /\ b.res = x /\ b.parts = {y} /\ b.before = sub[y] /\ b.after = s
    BY <1>3, <2>4
  <2>9. ApplyBarrier(h, b) = [h EXCEPT ![x] = [z \in Subresources(x) |->
            IF z \notin b.parts THEN @[z] ELSE IF @[z] = b.before THEN b.after ELSE "Undefined"]]
    BY <2>8, <1>1 DEF ApplyBarrier
  <2>10. [z \in Subresources(x) |-> IF z \notin b.parts THEN h[x][z]
                                    ELSE IF h[x][z] = b.before THEN b.after ELSE "Undefined"]
         = [z \in Subresources(x) |-> IF z \in P \cup {y} THEN s ELSE sub[z]]
    <3> HIDE DEF P, h, b
    <3> QED
      BY <2>5, <2>7, <2>8 DEF P
  <2>11. h = [g EXCEPT ![x] = [z \in Subresources(x) |-> IF z \in P THEN s ELSE sub[z]]]
    BY <2>3
  <2>12. ApplyBarrier(h, b) = [g EXCEPT ![x] = [z \in Subresources(x) |-> IF z \in P \cup {y} THEN s ELSE sub[z]]]
    <3> DEFINE old == [z \in Subresources(x) |-> IF z \in P THEN s ELSE sub[z]]
               new == [z \in Subresources(x) |-> IF z \in P \cup {y} THEN s ELSE sub[z]]
    <3>1. h = [g EXCEPT ![x] = old]
      BY <2>11
    <3>2. ApplyBarrier(h, b) = [h EXCEPT ![x] = new]
      <4> HIDE DEF h, b, P
      <4> QED
        BY <2>9, <2>10
    <3> HIDE DEF h, b, old, new
    <3>3. [h EXCEPT ![x] = new] = [g EXCEPT ![x] = new]
      BY <3>1, <1>1
    <3> QED
      BY <3>2, <3>3 DEF new
  <2> HIDE DEF Done
  <2> QED
    BY <2>2, <2>6, <2>12 DEF h, b, P
<1>12. Len(seq) \in T
  <2> HIDE DEF T
  <2>1. Nat \subseteq T
    BY <1>10, <1>11, NatSets
  <2> QED
    BY <2>1, <1>8
<1>13. f[Len(seq)] = With(Done(Len(seq)))
  BY <1>8, <1>12
<1>14. Done(Len(seq)) = changed
  BY <1>6, <1>7
<1>15. ApplyBarriers(g, seq) = With(changed)
  <2> HIDE DEF With, Done
  <2> QED
    BY <1>9, <1>13, <1>14
<1>16. named = owed /\ With(changed) = [g EXCEPT ![x] = after]
  BY DEF Change, owed
<1> HIDE DEF With
<1> QED
  BY <1>8, <1>15, <1>16 DEF seq

(* A tracker whose texture is set to new states, and that owes barriers    *)
(* which take the texture there, stays well formed and follows the old     *)
(* one.                                                                    *)
LEMMA TextureReplaced ==
    ASSUME NEW t, IsTracker(t), NEW x \in Textures, NEW k \in TextureStates(x), NEW cs \in Seq(Owed),
           ApplyBarriers(Believed(t), cs) = [Believed(t) EXCEPT ![x] = Sub(x, k)],
           NEW u, u = [buffers |-> t.buffers, textures |-> [t.textures EXCEPT ![x] = k],
                       barriers |-> t.barriers \o cs]
    PROVE  IsTracker(u) /\ Follows(t, u)
<1> DEFINE All2 == UNION {TextureStates(z) : z \in Textures}
           textures == [t.textures EXCEPT ![x] = k]
<1>1. k \in All2
  OBVIOUS
<1>2. t.textures \in [Textures -> All2] /\ \A z \in Textures : t.textures[z] \in TextureStates(z)
  BY DEF IsTracker
<1> HIDE DEF All2
<1>3. /\ textures \in [Textures -> All2] /\ textures[x] = k
      /\ \A z \in Textures : z # x => textures[z] = t.textures[z]
  BY <1>1, <1>2
<1>4. \A z \in Textures : textures[z] \in TextureStates(z)
  BY <1>2, <1>3
<1>5. u.buffers = t.buffers /\ u.textures = textures /\ u.barriers = t.barriers \o cs
  OBVIOUS
<1> HIDE DEF textures
<1>6. t.barriers \o cs \in Seq(Owed)
  BY DEF IsTracker
<1>7. u \in [buffers : [Buffers -> ResourceStates], textures : [Textures -> All2], barriers : Seq(Owed)]
  <2>1. t.buffers \in [Buffers -> ResourceStates]
    BY DEF IsTracker
  <2> DEFINE barriers == t.barriers \o cs
  <2>2. u = [buffers |-> t.buffers, textures |-> textures, barriers |-> barriers]
    BY DEF textures
  <2>3. barriers \in Seq(Owed)
    BY <1>6
  <2> DEFINE A == [Buffers -> ResourceStates]
             B == [Textures -> All2]
             C == Seq(Owed)
  <2>4. t.buffers \in A /\ textures \in B /\ barriers \in C
    BY <1>3, <2>1, <2>3
  <2> HIDE DEF barriers, A, B, C
  <2>5. [buffers |-> t.buffers, textures |-> textures, barriers |-> barriers]
          \in [buffers : A, textures : B, barriers : C]
    BY <2>4
  <2>6. u \in [buffers : A, textures : B, barriers : C]
    BY <2>2, <2>5
  <2> QED
    BY <2>6 DEF A, B, C
<1>8. IsTracker(u)
  BY <1>4, <1>5, <1>7 DEF IsTracker, All2
<1>9. Believed(u)[x] = Sub(x, k)
  BY <1>3, <1>5, <1>8, BelievedTexture
<1>10. ASSUME NEW r \in Resources, r # x PROVE Believed(u)[r] = Believed(t)[r]
  <2>1. CASE r \in Buffers
    BY <1>5, <2>1 DEF Believed
  <2>2. CASE r \in Textures
    BY <1>3, <1>5, <1>8, <1>10, <2>2, BelievedTexture
  <2> QED
    BY <2>1, <2>2 DEF Resources
<1>11. Believed(u) = [Believed(t) EXCEPT ![x] = Sub(x, k)]
  <2> DEFINE f == Believed(t)
             g == Believed(u)
             new == Sub(x, k)
  <2>1. f = [r \in Resources |-> f[r]] /\ g = [r \in Resources |-> g[r]]
    BY DEF Believed
  <2>2. g[x] = new /\ (\A r \in Resources : r # x => g[r] = f[r]) /\ x \in Resources
    BY <1>9, <1>10, StatesTyped
  <2> HIDE DEF new, f, g
  <2>3. g = [f EXCEPT ![x] = new]
    BY <2>1, <2>2
  <2> QED
    BY <2>3 DEF new, f, g
<1>12. Believed(u) = ApplyBarriers(Believed(t), cs)
  BY <1>11
<1>13. Follows(t, u)
  BY <1>5, <1>12 DEF Follows
<1> QED
  BY <1>8, <1>13

(* StateTracking::setTextureState (state-tracking.h), for an entire        *)
(* texture and for a range of it: the tracker stays well formed, owes      *)
(* exactly what it changed its mind about, and leaves every other resource *)
(* alone; an entire texture ends with one state.                           *)
LEMMA TextureStep ==
    ASSUME NEW t, IsTracker(t), NEW x \in Textures, NEW given \in Ranges, NEW s \in States
    PROVE  LET u == SetTextureState(t, x, given, s)
           IN /\ IsTracker(u) /\ Follows(t, u)
              /\ u.buffers = t.buffers
              /\ \A z \in Textures \ {x} : u.textures[z] = t.textures[z]
              /\ given = EntireTexture => u.textures[x] = [state |-> s, sub |-> <<>>]
<1> DEFINE u == SetTextureState(t, x, given, s)
           known == t.textures[x]
           range == Resolved(x, given)
           sub == Sub(x, known)
<1>1. known \in TextureStates(x) /\ sub \in [Subresources(x) -> States]
  BY SubTyped DEF IsTracker
<1>2. Believed(t)[x] = sub /\ Believed(t) = [r \in Resources |-> Believed(t)[r]]
  <2>1. Believed(t) = [r \in Resources |-> Believed(t)[r]]
    BY DEF Believed
  <2> QED
    BY <2>1, BelievedTexture
<1>3. t = [buffers |-> t.buffers, textures |-> t.textures, barriers |-> t.barriers]
      /\ t.textures = [z \in Textures |-> t.textures[z]] /\ t.barriers \in Seq(Owed)
  BY DEF IsTracker
<1>4. given = EntireTexture => IsEntire(x, range) /\ Touched(x, range) = Subresources(x)
  <2> SUFFICES ASSUME given = EntireTexture PROVE IsEntire(x, range) /\ Touched(x, range) = Subresources(x)
    OBVIOUS
  <2>1. LayerCount[x] \in Nat \ {0} /\ MipCount[x] \in Nat \ {0} /\ All \in Nat
          /\ LayerCount[x] < All /\ MipCount[x] < All
    BY StateTrackingAssumption
  <2>2. given.layer = 0 /\ given.mip = 0 /\ given.layerCount = All /\ given.mipCount = All
    BY DEF EntireTexture, SubresourceRange
  <2>3. range.layer = 0 /\ range.mip = 0 /\ range.layerCount = LayerCount[x] /\ range.mipCount = MipCount[x]
    BY <2>1, <2>2 DEF Resolved, SubresourceRange, Smaller
  <2> HIDE DEF range
  <2>4. IsEntire(x, range)
    BY <2>1, <2>3 DEF IsEntire
  <2>5. 0 + MipCount[x] - 1 = MipCount[x] - 1
    BY <2>1
  <2>6. Touched(x, range) = Subresources(x)
    BY <2>3, <2>5 DEF Touched, Subresources
  <2> QED
    BY <2>4, <2>6
<1>5. CASE ~IsEntire(x, range) \/ known.sub # <<>>
  <2> DEFINE changed == {y \in Touched(x, range) : Changes(sub[y], s)}
             owed == [y \in changed |-> Barrier(x, {y}, sub[y], s)]
             seq == SetToSeq(Range(owed))
             after == [y \in Subresources(x) |-> IF y \in changed THEN s ELSE sub[y]]
             k == Collapse(x, after)
  <2>1. u = [t EXCEPT !.textures[x] = k, !.barriers = @ \o seq]
    <3>1. u = SetSubresourceStates(t, x, range, s)
      BY <1>5, Zenon DEF SetTextureState
    <3>2. SetSubresourceStates(t, x, range, s) = [t EXCEPT !.textures[x] = k, !.barriers = @ \o seq]
      BY Zenon DEF SetSubresourceStates, Sub
    <3> QED
      BY <3>1, <3>2, Zenon
  <2>2. u = [buffers |-> t.buffers, textures |-> [t.textures EXCEPT ![x] = k],
             barriers |-> t.barriers \o seq]
    <3> HIDE DEF k, seq, u
    <3>1. u = [[t EXCEPT !.textures = [@ EXCEPT ![x] = k]] EXCEPT !.barriers = @ \o seq]
      BY <2>1, Zenon
    <3> QED
      BY <1>3, <3>1
  <2>3. changed \in SUBSET Subresources(x)
    BY ResolvedTouches
  <2>4. \A y \in changed : Changes(sub[y], s)
    OBVIOUS
  <2> HIDE DEF changed
  <2>5. seq \in Seq(Owed) /\ ApplyBarriers(Believed(t), seq) = [Believed(t) EXCEPT ![x] = after]
    <3> DEFINE g == Believed(t)
    <3>1. g = [r \in Resources |-> g[r]] /\ g[x] = sub
      BY <1>2
    <3>2. Change(x, g, sub, s, changed, owed, after)
      BY <1>1, <2>3, <2>4, <3>1 DEF Change
    <3> HIDE DEF sub, g, owed, after
    <3>3. seq \in Seq(Owed) /\ ApplyBarriers(g, seq) = [g EXCEPT ![x] = after]
      BY <3>2, SubBarriers
    <3> QED
      BY <3>3 DEF g
  <2>6. after \in [Subresources(x) -> States]
    BY <1>1
  <2>7. k \in TextureStates(x) /\ Sub(x, k) = after
    BY <2>6, CollapseSound
  <2> HIDE DEF seq, k, u, after
  <2>8. IsTracker(u) /\ Follows(t, u)
    BY <2>2, <2>5, <2>7, TextureReplaced
  <2>9. u.buffers = t.buffers /\ \A z \in Textures \ {x} : u.textures[z] = t.textures[z]
    BY <2>2, <1>3
  <2>10. ASSUME given = EntireTexture PROVE u.textures[x] = [state |-> s, sub |-> <<>>]
    <3>1. \A y \in Subresources(x) : after[y] = s
      BY <1>4, <2>10 DEF after, changed, Changes
    <3>2. k = [state |-> s, sub |-> <<>>]
      BY <3>1, SubresourcesFinite DEF k, Collapse
    <3> QED
      BY <1>3, <2>2, <3>2
  <2> QED
    BY <2>8, <2>9, <2>10 DEF u
<1>6. CASE ~(~IsEntire(x, range) \/ known.sub # <<>>) /\ ~Changes(known.state, s)
  <2>1. u = t
    BY <1>6, Zenon DEF SetTextureState
  <2>2. known = [state |-> s, sub |-> <<>>]
    BY <1>1, <1>6, SubTyped DEF Changes
  <2> QED
    BY <2>1, <2>2, FollowsSame
<1>7. CASE ~(~IsEntire(x, range) \/ known.sub # <<>>) /\ Changes(known.state, s)
  <2> DEFINE bar == Barrier(x, Parts(x), known.state, s)
             k == [state |-> s, sub |-> <<>>]
  <2>1. u = [t EXCEPT !.textures[x].state = s, !.barriers = Append(@, bar)]
    BY <1>7, Zenon DEF SetTextureState
  <2>2. known = [state |-> known.state, sub |-> <<>>] /\ known.state \in States
    BY <1>1, <1>7, SubTyped, StatesTyped DEF TextureStates
  <2>3. Parts(x) = Subresources(x) /\ Subresources(x) \subseteq Nat \X Nat /\ x \in Resources
    BY SubresourcesFinite, StatesTyped
  <2>4. bar \in Owed
    BY <1>7, <2>2, <2>3, StatesTyped DEF Owed, Barrier, States
  <2>5. <<bar>> \in Seq(Owed) /\ Append(t.barriers, bar) = t.barriers \o <<bar>>
    BY <1>3, <2>4
  <2>6. u = [buffers |-> t.buffers, textures |-> [t.textures EXCEPT ![x] = k],
             barriers |-> t.barriers \o <<bar>>]
    <3> HIDE DEF bar, u
    <3>1. u = [[t EXCEPT !.textures = [t.textures EXCEPT ![x].state = s]]
                  EXCEPT !.barriers = Append(t.barriers, bar)]
      BY <2>1, Zenon
    <3>2. [known EXCEPT !.state = s] = k
      BY <2>2
    <3>3. [t.textures EXCEPT ![x].state = s] = [t.textures EXCEPT ![x] = k]
      <4>1. [t.textures EXCEPT ![x].state = s] = [t.textures EXCEPT ![x] = [@ EXCEPT !.state = s]]
        BY Zenon
      <4>2. [t.textures EXCEPT ![x] = [@ EXCEPT !.state = s]] = [t.textures EXCEPT ![x] = [known EXCEPT !.state = s]]
        BY Zenon
      <4> QED
        BY <3>2, <4>1, <4>2, Zenon
    <3> DEFINE new == [t.textures EXCEPT ![x] = k]
               d == Append(t.barriers, bar)
    <3>4. u = [[t EXCEPT !.textures = new] EXCEPT !.barriers = d]
      BY <3>1, <3>3
    <3>5. [[t EXCEPT !.textures = new] EXCEPT !.barriers = d]
            = [buffers |-> t.buffers, textures |-> new, barriers |-> d]
      <4> DEFINE v == [t EXCEPT !.textures = new]
      <4> HIDE DEF new, d
      <4>1. v = [buffers |-> t.buffers, textures |-> new, barriers |-> t.barriers]
        BY <1>3
      <4> HIDE DEF v
      <4>2. [v EXCEPT !.barriers = d] = [buffers |-> t.buffers, textures |-> new, barriers |-> d]
        BY <4>1
      <4> QED
        BY <4>2 DEF v
    <3> HIDE DEF new
    <3> QED
      BY <2>5, <3>4, <3>5 DEF new
  <2>7. k \in TextureStates(x)
    BY DEF TextureStates
  <2>8. ApplyBarriers(Believed(t), <<bar>>) = [Believed(t) EXCEPT ![x] = Sub(x, k)]
    <3>1. ApplyBarriers(Believed(t), <<bar>>) = ApplyBarrier(Believed(t), bar)
      BY ApplyOne
    <3>2. sub = [y \in Subresources(x) |-> known.state]
      BY <2>2 DEF Sub
    <3>3. Sub(x, k) = [y \in Subresources(x) |-> s]
      BY DEF Sub
    <3>4. bar.res = x /\ bar.parts = Subresources(x) /\ bar.before = known.state /\ bar.after = s
      BY <2>3 DEF Barrier
    <3> HIDE DEF bar, sub, k, known
    <3>5. ApplyBarrier(Believed(t), bar) = [Believed(t) EXCEPT ![x] = [y \in Subresources(x) |-> s]]
      <4> DEFINE g == Believed(t)
      <4>1. ApplyBarrier(g, bar) = [g EXCEPT ![x] = [y \in Subresources(x) |->
              IF y \notin bar.parts THEN @[y] ELSE IF @[y] = bar.before THEN bar.after ELSE "Undefined"]]
        BY <2>3, <3>4 DEF ApplyBarrier
      <4>2. g[x] = [y \in Subresources(x) |-> known.state]
        BY <1>2, <3>2
      <4>3. [y \in Subresources(x) |->
              IF y \notin bar.parts THEN g[x][y] ELSE IF g[x][y] = bar.before THEN bar.after ELSE "Undefined"]
             = [y \in Subresources(x) |-> s]
        BY <3>4, <4>2
      <4> HIDE DEF g
      <4> QED
        BY <4>1, <4>3 DEF g
    <3> QED
      BY <3>1, <3>3, <3>5
  <2> HIDE DEF u, bar, k
  <2>9. IsTracker(u) /\ Follows(t, u)
    BY <2>5, <2>6, <2>7, <2>8, TextureReplaced
  <2>10. u.buffers = t.buffers /\ \A z \in Textures \ {x} : u.textures[z] = t.textures[z]
    BY <2>6, <1>3
  <2>11. u.textures[x] = k
    BY <2>6, <1>3
  <2> QED
    BY <2>9, <2>10, <2>11 DEF u, k
<1> QED
  BY <1>5, <1>6, <1>7

(* What the handlers build of a resource, a range and a state that the     *)
(* resource may be in is a requirement.                                    *)
LEMMA NeedTyped ==
    /\ \A r \in Resources, range \in Ranges : \A s \in StatesOf(r) : Need(r, range, s) \in Needs
    /\ \A b \in Buffers : \A s \in StatesOf(b) : BufferNeed(b, s) \in Needs
    /\ EntireTexture \in Ranges
<1>1. ASSUME NEW r \in Resources, NEW range \in Ranges, NEW s \in StatesOf(r)
      PROVE  Need(r, range, s) \in Needs
  BY StatesTyped DEF Need, Needs
<1>2. SubresourceRange(0, 1, 0, 1) \in Ranges
  BY DEF SubresourceRange, Ranges
<1>3. EntireTexture \in Ranges
  BY StateTrackingAssumption DEF EntireTexture, SubresourceRange, Ranges
<1>4. ASSUME NEW b \in Buffers, NEW s \in StatesOf(b) PROVE BufferNeed(b, s) \in Needs
  BY <1>1, <1>2, StatesTyped DEF BufferNeed
<1> QED
  BY <1>1, <1>3, <1>4

(* One required state, of a buffer or a texture, keeps the tracker well    *)
(* formed and owes exactly the change.                                     *)
LEMMA RequireStep ==
    ASSUME NEW t, IsTracker(t), NEW need \in Needs
    PROVE  IsTracker(RequireState(t, need)) /\ Follows(t, RequireState(t, need))
<1>1. need.res \in Resources /\ need.range \in Ranges /\ need.state \in StatesOf(need.res)
  BY DEF Needs
<1>2. CASE need.res \in Buffers
  BY <1>1, <1>2, BufferStep DEF RequireState
<1>3. CASE need.res \notin Buffers
  <2>1. need.res \in Textures /\ need.state \in States
    BY <1>1, <1>3, StatesTyped DEF Resources
  <2> QED
    BY <1>1, <1>3, <2>1, TextureStep DEF RequireState
<1> QED
  BY <1>2, <1>3

(* Required states, however many and in whatever order, keep the tracker   *)
(* well formed and owe exactly the changes.                                *)
LEMMA RequireSound ==
    ASSUME NEW t, IsTracker(t), NEW needs \in Seq(Needs)
    PROVE  IsTracker(Require(t, needs)) /\ Follows(t, Require(t, needs))
<1>1. PICK f : /\ f = [n \in 0..Len(needs) |-> IF n = 0 THEN t ELSE RequireState(f[n - 1], needs[n])]
               /\ Require(t, needs) = f[Len(needs)]
  BY RequireFold
<1> DEFINE T == {n \in Nat : n <= Len(needs) => IsTracker(f[n]) /\ Follows(t, f[n])}
<1>2. 0 \in T
  BY <1>1, FollowsSame
<1>3. ASSUME NEW n \in Nat, n \in T PROVE n + 1 \in T
  <2> SUFFICES ASSUME n + 1 <= Len(needs) PROVE IsTracker(f[n + 1]) /\ Follows(t, f[n + 1])
    OBVIOUS
  <2>1. n + 1 \in 0..Len(needs) /\ n + 1 # 0 /\ (n + 1) - 1 = n /\ n + 1 \in 1..Len(needs) /\ n <= Len(needs)
    OBVIOUS
  <2>2. f[n + 1] = RequireState(f[n], needs[n + 1]) /\ needs[n + 1] \in Needs
    BY <1>1, <2>1
  <2>3. IsTracker(f[n]) /\ Follows(t, f[n])
    BY <1>3, <2>1
  <2> QED
    BY <2>2, <2>3, RequireStep, FollowsMore
<1>4. Nat \subseteq T
  <2> HIDE DEF T
  <2> QED
    BY <1>2, <1>3, NatSets
<1> QED
  BY <1>1, <1>4

-----------------------------------------------------------------------------
(* The tracker keeps the resource at its default state.                    *)
AtDefault(t, r) ==
    IF r \in Buffers THEN t.buffers[r] = DefaultState[r]
    ELSE t.textures[r] = [state |-> DefaultState[r], sub |-> <<>>]

(* What requireDefaultStates requires of a resource.                       *)
DefaultNeed(r) == IF r \in Buffers THEN BufferNeed(r, DefaultState[r])
                  ELSE Need(r, EntireTexture, DefaultState[r])

(* The default state of a resource is a requirement, of a texture for all  *)
(* of it.                                                                  *)
LEMMA DefaultNeedTyped ==
    ASSUME NEW r \in Resources
    PROVE  DefaultNeed(r) \in Needs /\ DefaultNeed(r).res = r /\ DefaultNeed(r).state = DefaultState[r]
           /\ (r \notin Buffers => DefaultNeed(r).range = EntireTexture)
<1>1. DefaultState[r] \in StatesOf(r)
  BY DefaultsAssumption
<1> QED
  BY <1>1, NeedTyped DEF DefaultNeed, BufferNeed, Need

(* Requiring the default state of a resource leaves it there, and no other *)
(* resource away from its own.                                             *)
LEMMA RestoreStep ==
    ASSUME NEW t, IsTracker(t), NEW r \in Resources
    PROVE  LET u == RequireState(t, DefaultNeed(r))
           IN AtDefault(u, r) /\ \A z \in Resources : AtDefault(t, z) => AtDefault(u, z)
<1> DEFINE need == DefaultNeed(r)
           u == RequireState(t, need)
<1> SUFFICES AtDefault(u, r) /\ \A z \in Resources : AtDefault(t, z) => AtDefault(u, z)
  OBVIOUS
<1>1. need.res = r /\ need.state = DefaultState[r] /\ DefaultState[r] \in StatesOf(r)
      /\ (r \notin Buffers => need.range = EntireTexture)
  BY DefaultNeedTyped, DefaultsAssumption
<1> HIDE DEF need
<1>2. CASE r \in Buffers
  <2>1. u = SetBufferState(t, r, DefaultState[r])
    BY <1>1, <1>2 DEF RequireState
  <2>2. CASE r \in HostVisible \/ ~Changes(t.buffers[r], DefaultState[r])
    <3>1. u = t /\ t.buffers[r] = DefaultState[r]
      BY <2>1, <2>2 DEF SetBufferState, IsTracker, Changes
    <3> QED
      BY <1>2, <3>1 DEF AtDefault
  <2>3. CASE ~(r \in HostVisible \/ ~Changes(t.buffers[r], DefaultState[r]))
    <3> DEFINE bar == Barrier(r, Parts(r), t.buffers[r], DefaultState[r])
               new == [t.buffers EXCEPT ![r] = DefaultState[r]]
               bars == Append(t.barriers, bar)
    <3>1. u = [[t EXCEPT !.buffers = new] EXCEPT !.barriers = bars]
      BY <2>1, <2>3, Zenon DEF SetBufferState
    <3>2. t = [buffers |-> t.buffers, textures |-> t.textures, barriers |-> t.barriers]
          /\ t.buffers \in [Buffers -> ResourceStates]
      BY DEF IsTracker
    <3> DEFINE v == [t EXCEPT !.buffers = new]
    <3>3. v.buffers = new /\ v.textures = t.textures
      <4> HIDE DEF new
      <4> QED
        BY <3>2
    <3>4. v = [buffers |-> new, textures |-> t.textures, barriers |-> t.barriers]
      <4> HIDE DEF new
      <4> QED
        BY <3>2
    <3> HIDE DEF v, bars, u
    <3>5. u.buffers = new /\ u.textures = t.textures
      <4> HIDE DEF new
      <4>1. u = [v EXCEPT !.barriers = bars]
        BY <3>1 DEF v
      <4> QED
        BY <3>4, <4>1
    <3>6. new[r] = DefaultState[r] /\ \A z \in Buffers : z # r => new[z] = t.buffers[z]
      BY <3>2, <1>2
    <3> HIDE DEF new
    <3> QED
      BY <1>2, <3>5, <3>6 DEF AtDefault, u
  <2> QED
    BY <2>2, <2>3
<1>3. CASE r \notin Buffers
  <2>1. r \in Textures /\ EntireTexture \in Ranges /\ DefaultState[r] \in States
    BY <1>1, <1>3, StatesTyped, NeedTyped DEF Resources
  <2>2. u = SetTextureState(t, r, EntireTexture, DefaultState[r])
    BY <1>1, <1>3 DEF RequireState
  <2> HIDE DEF u
  <2>3. /\ u.buffers = t.buffers
        /\ \A z \in Textures \ {r} : u.textures[z] = t.textures[z]
        /\ u.textures[r] = [state |-> DefaultState[r], sub |-> <<>>]
    BY <2>1, <2>2, TextureStep
  <2> QED
    BY <1>3, <2>1, <2>3 DEF AtDefault, Resources, u
<1> QED
  BY <1>2, <1>3

(* A tracker that keeps every resource at its default believes what a      *)
(* fresh device has.                                                       *)
LEMMA AllAtDefault ==
    ASSUME NEW t, IsTracker(t), \A r \in Resources : AtDefault(t, r)
    PROVE  Believed(t) = FreshStates
<1>1. ASSUME NEW r \in Resources PROVE Believed(t)[r] = FreshStates[r]
  <2>1. CASE r \in Buffers
    BY <2>1 DEF AtDefault, Believed, FreshStates
  <2>2. CASE r \in Textures
    <3>1. r \notin Buffers
      BY <2>2, StatesTyped
    <3>2. t.textures[r] = [state |-> DefaultState[r], sub |-> <<>>]
      BY <3>1 DEF AtDefault
    <3>3. t.textures[r].sub = <<>> /\ t.textures[r].state = DefaultState[r]
      BY <3>2
    <3> QED
      BY <3>1, <3>3 DEF Believed, FreshStates
  <2> QED
    BY <2>1, <2>2 DEF Resources
<1>2. /\ Believed(t) = [r \in Resources |-> Believed(t)[r]]
      /\ FreshStates = [r \in Resources |-> FreshStates[r]]
  BY DEF Believed, FreshStates
<1> HIDE DEF FreshStates
<1> QED
  BY <1>1, <1>2

(* StateTracking::requireDefaultStates (state-tracking.h) owes the         *)
(* barriers that bring every resource back to its default state, those     *)
(* with subresource states included.                                       *)
LEMMA DefaultsSound ==
    ASSUME NEW t, IsTracker(t)
    PROVE  LET u == RequireDefaultStates(t)
           IN IsTracker(u) /\ Follows(t, u) /\ Believed(u) = FreshStates
<1> DEFINE away == {r \in Resources : ~AtDefault(t, r)}
           S == {DefaultNeed(r) : r \in away}
           seq == SetToSeq(S)
<1>1. RequireDefaultStates(t) = Require(t, seq)
  <2> DEFINE bs == {c \in Buffers : t.buffers[c] # DefaultState[c]}
             ts == {c \in Textures : t.textures[c].state # DefaultState[c]}
             Sb == {BufferNeed(b, DefaultState[b]) : b \in bs}
             St == {Need(x, EntireTexture, DefaultState[x]) : x \in ts}
  <2>1. bs = {r \in away : r \in Buffers}
    BY StatesTyped DEF AtDefault
  <2>2. ts = {r \in away : r \notin Buffers}
    <3>1. ASSUME NEW x \in Textures
          PROVE  t.textures[x].state # DefaultState[x] <=> ~AtDefault(t, x)
      <4>1. /\ t.textures[x] = [state |-> t.textures[x].state, sub |-> t.textures[x].sub]
            /\ t.textures[x].sub # <<>> => t.textures[x].state = "Undefined"
        BY SubTyped DEF IsTracker
      <4>2. DefaultState[x] # "Undefined" /\ x \notin Buffers
        BY StateTrackingAssumption, StatesTyped
      <4> QED
        BY <4>1, <4>2 DEF AtDefault
    <3> HIDE DEF ts
    <3> QED
      BY <3>1, StatesTyped DEF Resources, ts
  <2>3. S = Sb \cup St
    <3> HIDE DEF away, bs, ts
    <3>1. Sb = {DefaultNeed(r) : r \in {r \in away : r \in Buffers}}
      BY <2>1 DEF DefaultNeed
    <3>2. St = {DefaultNeed(r) : r \in {r \in away : r \notin Buffers}}
      BY <2>2 DEF DefaultNeed
    <3> QED
      BY <3>1, <3>2
  <2> HIDE DEF S
  <2> QED
    BY <2>3, Zenon DEF RequireDefaultStates
<1>2. IsFiniteSet(S)
  <2>1. IsFiniteSet(away)
    BY DefaultsAssumption, FS_Subset
  <2> DEFINE g == [r \in away |-> DefaultNeed(r)]
  <2>2. g \in Surjection(away, S)
    BY DEF Surjection
  <2> HIDE DEF away, S, g
  <2> QED
    BY <2>1, <2>2, FS_Surjection
<1>3. /\ seq \in Seq(S)
      /\ \A o \in S : \E i \in 1..Len(seq) : seq[i] = o
  <2> HIDE DEF S
  <2> QED
    BY <1>2, InjectiveSeq
<1>4. S \subseteq Needs /\ \A o \in S : \E r \in Resources : o = DefaultNeed(r)
  BY DefaultNeedTyped
<1>5. \A r \in away : DefaultNeed(r) \in S
  OBVIOUS
<1> HIDE DEF S, seq
<1>6. seq \in Seq(Needs) /\ Len(seq) \in Nat /\ \A i \in 1..Len(seq) : seq[i] \in S
  BY <1>3, <1>4
<1>7. PICK f : /\ f = [n \in 0..Len(seq) |-> IF n = 0 THEN t ELSE RequireState(f[n - 1], seq[n])]
               /\ Require(t, seq) = f[Len(seq)]
  BY <1>6, RequireFold
<1> DEFINE Good(n) == /\ IsTracker(f[n])
                      /\ \A r \in Resources : AtDefault(t, r) => AtDefault(f[n], r)
                      /\ \A i \in 1..n : \A r \in Resources : seq[i] = DefaultNeed(r) => AtDefault(f[n], r)
           T == {n \in Nat : n <= Len(seq) => Good(n)}
<1>8. 0 \in T
  BY <1>6, <1>7
<1>9. ASSUME NEW n \in Nat, n \in T PROVE n + 1 \in T
  <2> SUFFICES ASSUME n + 1 <= Len(seq) PROVE Good(n + 1)
    OBVIOUS
  <2>1. n + 1 \in 0..Len(seq) /\ n + 1 # 0 /\ (n + 1) - 1 = n /\ n + 1 \in 1..Len(seq) /\ n <= Len(seq)
    BY <1>6
  <2>2. f[n + 1] = RequireState(f[n], seq[n + 1]) /\ seq[n + 1] \in Needs
    BY <1>6, <1>7, <2>1
  <2>3. Good(n)
    BY <1>9, <2>1
  <2>4. PICK r \in Resources : seq[n + 1] = DefaultNeed(r)
    BY <1>4, <1>6, <2>1
  <2>5. IsTracker(f[n + 1])
    BY <2>2, <2>3, RequireStep
  <2>6. AtDefault(f[n + 1], r) /\ \A z \in Resources : AtDefault(f[n], z) => AtDefault(f[n + 1], z)
    BY <2>2, <2>3, <2>4, RestoreStep
  <2>7. \A z \in Resources : seq[n + 1] = DefaultNeed(z) => z = r
    BY <2>4, DefaultNeedTyped
  <2>8. ASSUME NEW i \in 1..(n + 1), NEW z \in Resources, seq[i] = DefaultNeed(z) PROVE AtDefault(f[n + 1], z)
    <3>1. CASE i = n + 1
      BY <2>6, <2>7, <2>8, <3>1
    <3>2. CASE i \in 1..n
      BY <2>3, <2>6, <2>8, <3>2
    <3> QED
      BY <3>1, <3>2
  <2> QED
    BY <2>3, <2>5, <2>6, <2>8
<1>10. Good(Len(seq))
  <2>1. Nat \subseteq T
    <3> HIDE DEF T
    <3> QED
      BY <1>8, <1>9, NatSets
  <2> QED
    BY <1>6, <2>1
<1>11. ASSUME NEW r \in Resources PROVE AtDefault(f[Len(seq)], r)
  <2>1. CASE AtDefault(t, r)
    BY <1>10, <2>1
  <2>2. CASE ~AtDefault(t, r)
    <3>1. DefaultNeed(r) \in S
      BY <1>5, <2>2
    <3>2. PICK i \in 1..Len(seq) : seq[i] = DefaultNeed(r)
      BY <1>3, <3>1
    <3> QED
      BY <1>10, <3>2
  <2> QED
    BY <2>1, <2>2
<1>12. Believed(Require(t, seq)) = FreshStates
  BY <1>7, <1>10, <1>11, AllAtDefault
<1> QED
  BY <1>1, <1>6, <1>12, RequireSound

-----------------------------------------------------------------------------
(* The operators of the recorders are those of the tracking.              *)

(* What the Vulkan recorder reads of the tracking's helpers is the same as *)
(* what the encoder's module reads: each is an instance of StateTracking   *)
(* over the same constants.                                                *)
LEMMA VulkanTracking ==
    /\ \A r : Vulkan!Parts(r) = Parts(r)
    /\ \A a, b : Vulkan!Changes(a, b) = Changes(a, b)
    /\ \A r, p, a, b : Vulkan!Barrier(r, p, a, b) = Barrier(r, p, a, b)
    /\ \A a, b : Vulkan!Smaller(a, b) = Smaller(a, b)
    /\ \A r : Vulkan!Subresources(r) = Subresources(r)
    /\ \A a, b, c, d : Vulkan!SubresourceRange(a, b, c, d) = SubresourceRange(a, b, c, d)
    /\ Vulkan!EntireTexture = EntireTexture
    /\ \A t, r : Vulkan!IsEntire(t, r) = IsEntire(t, r)
    /\ \A t, r : Vulkan!Touched(t, r) = Touched(t, r)
  BY DEF Vulkan!Parts, Parts, Vulkan!Changes, Changes, Vulkan!Barrier, Barrier, Vulkan!Smaller, Smaller,
         Vulkan!Subresources, Subresources, Vulkan!SubresourceRange, SubresourceRange,
         Vulkan!EntireTexture, EntireTexture, Vulkan!IsEntire, IsEntire, Vulkan!Touched, Touched

(* Clamping a range and collapsing states are the same in the Vulkan       *)
(* recorder.                                                               *)
LEMMA VulkanCollapses ==
    /\ \A t, r : Vulkan!Resolved(t, r) = Resolved(t, r)
    /\ \A t, sub : Vulkan!Collapse(t, sub) = Collapse(t, sub)
<1>1. ASSUME NEW t, NEW r PROVE Vulkan!Resolved(t, r) = Resolved(t, r)
  BY VulkanTracking DEF Vulkan!Resolved, Resolved
<1>2. ASSUME NEW t, NEW sub PROVE Vulkan!Collapse(t, sub) = Collapse(t, sub)
  BY VulkanTracking DEF Vulkan!Collapse, Collapse
<1> QED
  BY <1>1, <1>2

(* Listing a set is the same in the Vulkan recorder.                       *)
LEMMA VulkanSetToSeq == ASSUME NEW S PROVE Vulkan!SetToSeq(S) = SetToSeq(S) /\ Vulkan!Range(S) = Range(S)
  BY Zenon DEF Vulkan!SetToSeq, SetToSeq, Vulkan!Cardinality, Cardinality, Vulkan!IsInjective, IsInjective,
               Vulkan!Range, Range

(* Setting the states of a range of subresources is the same in the Vulkan *)
(* recorder.                                                               *)
LEMMA VulkanSubresourceStates ==
    ASSUME NEW t, NEW x, NEW r, NEW s
    PROVE  Vulkan!SetSubresourceStates(t, x, r, s) = SetSubresourceStates(t, x, r, s)
<1> DEFINE known == t.textures[x]
           sub == IF known.sub = <<>> THEN [y \in Subresources(x) |-> known.state] ELSE known.sub
           changed == {y \in Touched(x, r) : Changes(sub[y], s)}
           owed == [y \in changed |-> Barrier(x, {y}, sub[y], s)]
           after == [y \in Subresources(x) |-> IF y \in changed THEN s ELSE sub[y]]
           isub == IF known.sub = <<>> THEN [y \in Vulkan!Subresources(x) |-> known.state] ELSE known.sub
           ichanged == {y \in Vulkan!Touched(x, r) : Vulkan!Changes(isub[y], s)}
           iowed == [y \in ichanged |-> Vulkan!Barrier(x, {y}, isub[y], s)]
           iafter == [y \in Vulkan!Subresources(x) |-> IF y \in ichanged THEN s ELSE isub[y]]
<1>1. isub = sub
  BY VulkanTracking
<1>2. ichanged = changed
  BY VulkanTracking, <1>1
<1>3. iowed = owed
  BY VulkanTracking, <1>1, <1>2
<1>4. iafter = after
  BY VulkanTracking, <1>1, <1>2
<1>5. Vulkan!Collapse(x, iafter) = Collapse(x, after)
  BY <1>4, VulkanCollapses
<1>6. Vulkan!SetToSeq(Vulkan!Range(iowed)) = SetToSeq(Range(owed))
  BY <1>3, VulkanSetToSeq
<1>7. SetSubresourceStates(t, x, r, s)
        = [t EXCEPT !.textures[x] = Collapse(x, after), !.barriers = @ \o SetToSeq(Range(owed))]
  BY DEF SetSubresourceStates
<1>8. Vulkan!SetSubresourceStates(t, x, r, s)
        = [t EXCEPT !.textures[x] = Vulkan!Collapse(x, iafter), !.barriers = @ \o Vulkan!SetToSeq(Vulkan!Range(iowed))]
  BY DEF Vulkan!SetSubresourceStates
<1> HIDE DEF iafter, after, iowed, owed
<1> QED
  BY <1>5, <1>6, <1>7, <1>8, Zenon

(* Requiring one state is the same in the Vulkan recorder.                 *)
LEMMA VulkanRequireState == ASSUME NEW t, NEW n PROVE Vulkan!RequireState(t, n) = RequireState(t, n)
<1>1. ASSUME NEW b, NEW s PROVE Vulkan!SetBufferState(t, b, s) = SetBufferState(t, b, s)
  BY VulkanTracking, Zenon DEF Vulkan!SetBufferState, SetBufferState
<1>2. ASSUME NEW x, NEW r, NEW s PROVE Vulkan!SetTextureState(t, x, r, s) = SetTextureState(t, x, r, s)
  BY VulkanTracking, VulkanCollapses, VulkanSubresourceStates, Zenon DEF Vulkan!SetTextureState, SetTextureState
<1> QED
  BY <1>1, <1>2, Zenon DEF Vulkan!RequireState, RequireState

(* Requiring a list of states is the same in the Vulkan recorder.          *)
LEMMA VulkanRequire == ASSUME NEW t, NEW needs PROVE Vulkan!Require(t, needs) = Require(t, needs)
<1> DEFINE D == 0..Len(needs)
<1>1. \A f : [n \in D |-> IF n = 0 THEN t ELSE Vulkan!RequireState(f[n - 1], needs[n])]
               = [n \in D |-> IF n = 0 THEN t ELSE RequireState(f[n - 1], needs[n])]
  BY VulkanRequireState
<1>2. (CHOOSE f : f = [n \in D |-> IF n = 0 THEN t ELSE Vulkan!RequireState(f[n - 1], needs[n])])
        = CHOOSE f : f = [n \in D |-> IF n = 0 THEN t ELSE RequireState(f[n - 1], needs[n])]
  BY <1>1
<1> QED
  BY <1>2 DEF Vulkan!Require, Require

(* A requirement is built the same way in the Vulkan recorder.             *)
LEMMA VulkanNeeds ==
    /\ \A r, range, s : Vulkan!Need(r, range, s) = Need(r, range, s)
    /\ \A b, s : Vulkan!BufferNeed(b, s) = BufferNeed(b, s)
    /\ \A view, s : Vulkan!ViewNeed(view, s) = ViewNeed(view, s)
<1>1. \A r, range, s : Vulkan!Need(r, range, s) = Need(r, range, s)
  BY DEF Vulkan!Need, Need
<1>2. \A b, s : Vulkan!BufferNeed(b, s) = BufferNeed(b, s)
  BY <1>1, VulkanTracking DEF Vulkan!BufferNeed, BufferNeed
<1>3. \A view, s : Vulkan!ViewNeed(view, s) = ViewNeed(view, s)
  BY <1>1 DEF Vulkan!ViewNeed, ViewNeed
<1> QED
  BY <1>1, <1>2, <1>3

(* Requiring the default states is the same in the Vulkan recorder.        *)
LEMMA VulkanDefaultStates == ASSUME NEW t PROVE Vulkan!RequireDefaultStates(t) = RequireDefaultStates(t)
<1> DEFINE bs == {c \in Buffers : t.buffers[c] # DefaultState[c]}
           ts == {c \in Textures : t.textures[c].state # DefaultState[c]}
<1>1. {Vulkan!BufferNeed(b, DefaultState[b]) : b \in bs} = {BufferNeed(b, DefaultState[b]) : b \in bs}
  BY VulkanNeeds
<1>2. {Vulkan!Need(x, Vulkan!EntireTexture, DefaultState[x]) : x \in ts}
        = {Need(x, EntireTexture, DefaultState[x]) : x \in ts}
  BY VulkanNeeds, VulkanTracking
<1> QED
  BY <1>1, <1>2, VulkanSetToSeq, VulkanRequire, Zenon DEF Vulkan!RequireDefaultStates, RequireDefaultStates

(* Executing barriers is the same in the Vulkan recorder.                  *)
LEMMA VulkanApplyBarriers == ASSUME NEW g, NEW bs PROVE Vulkan!ApplyBarriers(g, bs) = ApplyBarriers(g, bs)
<1>1. \A states, b : Vulkan!ApplyBarrier(states, b) = ApplyBarrier(states, b)
  BY VulkanTracking, Zenon DEF Vulkan!ApplyBarrier, ApplyBarrier
<1> DEFINE D == 0..Len(bs)
<1>2. \A f : [n \in D |-> IF n = 0 THEN g ELSE Vulkan!ApplyBarrier(f[n - 1], bs[n])]
               = [n \in D |-> IF n = 0 THEN g ELSE ApplyBarrier(f[n - 1], bs[n])]
  BY <1>1
<1>3. (CHOOSE f : f = [n \in D |-> IF n = 0 THEN g ELSE Vulkan!ApplyBarrier(f[n - 1], bs[n])])
        = CHOOSE f : f = [n \in D |-> IF n = 0 THEN g ELSE ApplyBarrier(f[n - 1], bs[n])]
  BY <1>2
<1> QED
  BY <1>3 DEF Vulkan!ApplyBarriers, ApplyBarriers

(* Joining lists is the same in the Vulkan recorder.                       *)
LEMMA VulkanFlatten == ASSUME NEW ss PROVE Vulkan!FlattenSeq(ss) = FlattenSeq(ss)
  BY Zenon DEF Vulkan!FlattenSeq, FlattenSeq


(* What the D3D12 recorder reads of the tracking's helpers is the same as  *)
(* what the encoder's module reads: each is an instance of StateTracking   *)
(* over the same constants.                                                *)
LEMMA D3D12Tracking ==
    /\ \A r : D3D12!Parts(r) = Parts(r)
    /\ \A a, b : D3D12!Changes(a, b) = Changes(a, b)
    /\ \A r, p, a, b : D3D12!Barrier(r, p, a, b) = Barrier(r, p, a, b)
    /\ \A a, b : D3D12!Smaller(a, b) = Smaller(a, b)
    /\ \A r : D3D12!Subresources(r) = Subresources(r)
    /\ \A a, b, c, d : D3D12!SubresourceRange(a, b, c, d) = SubresourceRange(a, b, c, d)
    /\ D3D12!EntireTexture = EntireTexture
    /\ \A t, r : D3D12!IsEntire(t, r) = IsEntire(t, r)
    /\ \A t, r : D3D12!Touched(t, r) = Touched(t, r)
  BY DEF D3D12!Parts, Parts, D3D12!Changes, Changes, D3D12!Barrier, Barrier, D3D12!Smaller, Smaller,
         D3D12!Subresources, Subresources, D3D12!SubresourceRange, SubresourceRange,
         D3D12!EntireTexture, EntireTexture, D3D12!IsEntire, IsEntire, D3D12!Touched, Touched

(* Clamping a range and collapsing states are the same in the D3D12        *)
(* recorder.                                                               *)
LEMMA D3D12Collapses ==
    /\ \A t, r : D3D12!Resolved(t, r) = Resolved(t, r)
    /\ \A t, sub : D3D12!Collapse(t, sub) = Collapse(t, sub)
<1>1. ASSUME NEW t, NEW r PROVE D3D12!Resolved(t, r) = Resolved(t, r)
  BY D3D12Tracking DEF D3D12!Resolved, Resolved
<1>2. ASSUME NEW t, NEW sub PROVE D3D12!Collapse(t, sub) = Collapse(t, sub)
  BY D3D12Tracking DEF D3D12!Collapse, Collapse
<1> QED
  BY <1>1, <1>2

(* Listing a set is the same in the D3D12 recorder.                        *)
LEMMA D3D12SetToSeq == ASSUME NEW S PROVE D3D12!SetToSeq(S) = SetToSeq(S) /\ D3D12!Range(S) = Range(S)
  BY Zenon DEF D3D12!SetToSeq, SetToSeq, D3D12!Cardinality, Cardinality, D3D12!IsInjective, IsInjective,
               D3D12!Range, Range

(* Setting the states of a range of subresources is the same in the D3D12  *)
(* recorder.                                                               *)
LEMMA D3D12SubresourceStates ==
    ASSUME NEW t, NEW x, NEW r, NEW s
    PROVE  D3D12!SetSubresourceStates(t, x, r, s) = SetSubresourceStates(t, x, r, s)
<1> DEFINE known == t.textures[x]
           sub == IF known.sub = <<>> THEN [y \in Subresources(x) |-> known.state] ELSE known.sub
           changed == {y \in Touched(x, r) : Changes(sub[y], s)}
           owed == [y \in changed |-> Barrier(x, {y}, sub[y], s)]
           after == [y \in Subresources(x) |-> IF y \in changed THEN s ELSE sub[y]]
           isub == IF known.sub = <<>> THEN [y \in D3D12!Subresources(x) |-> known.state] ELSE known.sub
           ichanged == {y \in D3D12!Touched(x, r) : D3D12!Changes(isub[y], s)}
           iowed == [y \in ichanged |-> D3D12!Barrier(x, {y}, isub[y], s)]
           iafter == [y \in D3D12!Subresources(x) |-> IF y \in ichanged THEN s ELSE isub[y]]
<1>1. isub = sub
  BY D3D12Tracking
<1>2. ichanged = changed
  BY D3D12Tracking, <1>1
<1>3. iowed = owed
  BY D3D12Tracking, <1>1, <1>2
<1>4. iafter = after
  BY D3D12Tracking, <1>1, <1>2
<1>5. D3D12!Collapse(x, iafter) = Collapse(x, after)
  BY <1>4, D3D12Collapses
<1>6. D3D12!SetToSeq(D3D12!Range(iowed)) = SetToSeq(Range(owed))
  BY <1>3, D3D12SetToSeq
<1>7. SetSubresourceStates(t, x, r, s)
        = [t EXCEPT !.textures[x] = Collapse(x, after), !.barriers = @ \o SetToSeq(Range(owed))]
  BY DEF SetSubresourceStates
<1>8. D3D12!SetSubresourceStates(t, x, r, s)
        = [t EXCEPT !.textures[x] = D3D12!Collapse(x, iafter), !.barriers = @ \o D3D12!SetToSeq(D3D12!Range(iowed))]
  BY DEF D3D12!SetSubresourceStates
<1> HIDE DEF iafter, after, iowed, owed
<1> QED
  BY <1>5, <1>6, <1>7, <1>8, Zenon

(* Requiring one state is the same in the D3D12 recorder.                  *)
LEMMA D3D12RequireState == ASSUME NEW t, NEW n PROVE D3D12!RequireState(t, n) = RequireState(t, n)
<1>1. ASSUME NEW b, NEW s PROVE D3D12!SetBufferState(t, b, s) = SetBufferState(t, b, s)
  BY D3D12Tracking, Zenon DEF D3D12!SetBufferState, SetBufferState
<1>2. ASSUME NEW x, NEW r, NEW s PROVE D3D12!SetTextureState(t, x, r, s) = SetTextureState(t, x, r, s)
  BY D3D12Tracking, D3D12Collapses, D3D12SubresourceStates, Zenon DEF D3D12!SetTextureState, SetTextureState
<1> QED
  BY <1>1, <1>2, Zenon DEF D3D12!RequireState, RequireState

(* Requiring a list of states is the same in the D3D12 recorder.           *)
LEMMA D3D12Require == ASSUME NEW t, NEW needs PROVE D3D12!Require(t, needs) = Require(t, needs)
<1> DEFINE D == 0..Len(needs)
<1>1. \A f : [n \in D |-> IF n = 0 THEN t ELSE D3D12!RequireState(f[n - 1], needs[n])]
               = [n \in D |-> IF n = 0 THEN t ELSE RequireState(f[n - 1], needs[n])]
  BY D3D12RequireState
<1>2. (CHOOSE f : f = [n \in D |-> IF n = 0 THEN t ELSE D3D12!RequireState(f[n - 1], needs[n])])
        = CHOOSE f : f = [n \in D |-> IF n = 0 THEN t ELSE RequireState(f[n - 1], needs[n])]
  BY <1>1
<1> QED
  BY <1>2 DEF D3D12!Require, Require

(* A requirement is built the same way in the D3D12 recorder.              *)
LEMMA D3D12Needs ==
    /\ \A r, range, s : D3D12!Need(r, range, s) = Need(r, range, s)
    /\ \A b, s : D3D12!BufferNeed(b, s) = BufferNeed(b, s)
    /\ \A view, s : D3D12!ViewNeed(view, s) = ViewNeed(view, s)
<1>1. \A r, range, s : D3D12!Need(r, range, s) = Need(r, range, s)
  BY DEF D3D12!Need, Need
<1>2. \A b, s : D3D12!BufferNeed(b, s) = BufferNeed(b, s)
  BY <1>1, D3D12Tracking DEF D3D12!BufferNeed, BufferNeed
<1>3. \A view, s : D3D12!ViewNeed(view, s) = ViewNeed(view, s)
  BY <1>1 DEF D3D12!ViewNeed, ViewNeed
<1> QED
  BY <1>1, <1>2, <1>3

(* Requiring the default states is the same in the D3D12 recorder.         *)
LEMMA D3D12DefaultStates == ASSUME NEW t PROVE D3D12!RequireDefaultStates(t) = RequireDefaultStates(t)
<1> DEFINE bs == {c \in Buffers : t.buffers[c] # DefaultState[c]}
           ts == {c \in Textures : t.textures[c].state # DefaultState[c]}
<1>1. {D3D12!BufferNeed(b, DefaultState[b]) : b \in bs} = {BufferNeed(b, DefaultState[b]) : b \in bs}
  BY D3D12Needs
<1>2. {D3D12!Need(x, D3D12!EntireTexture, DefaultState[x]) : x \in ts}
        = {Need(x, EntireTexture, DefaultState[x]) : x \in ts}
  BY D3D12Needs, D3D12Tracking
<1> QED
  BY <1>1, <1>2, D3D12SetToSeq, D3D12Require, Zenon DEF D3D12!RequireDefaultStates, RequireDefaultStates

(* Executing barriers is the same in the D3D12 recorder.                   *)
LEMMA D3D12ApplyBarriers == ASSUME NEW g, NEW bs PROVE D3D12!ApplyBarriers(g, bs) = ApplyBarriers(g, bs)
<1>1. \A states, b : D3D12!ApplyBarrier(states, b) = ApplyBarrier(states, b)
  BY D3D12Tracking, Zenon DEF D3D12!ApplyBarrier, ApplyBarrier
<1> DEFINE D == 0..Len(bs)
<1>2. \A f : [n \in D |-> IF n = 0 THEN g ELSE D3D12!ApplyBarrier(f[n - 1], bs[n])]
               = [n \in D |-> IF n = 0 THEN g ELSE ApplyBarrier(f[n - 1], bs[n])]
  BY <1>1
<1>3. (CHOOSE f : f = [n \in D |-> IF n = 0 THEN g ELSE D3D12!ApplyBarrier(f[n - 1], bs[n])])
        = CHOOSE f : f = [n \in D |-> IF n = 0 THEN g ELSE ApplyBarrier(f[n - 1], bs[n])]
  BY <1>2
<1> QED
  BY <1>3 DEF D3D12!ApplyBarriers, ApplyBarriers

(* Joining lists is the same in the D3D12 recorder.                        *)
LEMMA D3D12Flatten == ASSUME NEW ss PROVE D3D12!FlattenSeq(ss) = FlattenSeq(ss)
  BY Zenon DEF D3D12!FlattenSeq, FlattenSeq


-----------------------------------------------------------------------------
(* What a recorder relies on of each command.                              *)
(* A buffer that may be left out.                                          *)
OptionalBuffers == Maybe(PlainBuffers)
(* The root objects a pipeline may be bound with.                          *)
Roots == DOMAIN Bindings \ {None}

TypedTransfer(cmd) ==
    /\ cmd.id = "CopyBuffer" => cmd.dst \in PlainBuffers /\ cmd.src \in PlainBuffers
    /\ cmd.id = "CopyTexture" => /\ cmd.dst \in Textures /\ cmd.dstRange \in Ranges
                                 /\ cmd.src \in Textures /\ cmd.srcRange \in Ranges
    /\ cmd.id = "CopyTextureToBuffer" =>
          cmd.dst \in PlainBuffers /\ cmd.src \in Textures /\ cmd.srcRange \in Ranges
    /\ cmd.id = "UploadTextureData" =>
          cmd.dst \in Textures /\ cmd.dstRange \in Ranges /\ cmd.src \in PlainBuffers
    /\ cmd.id = "ClearBuffer" => cmd.dst \in PlainBuffers
    /\ cmd.id = "ClearTexture" => cmd.dst \in Textures /\ cmd.dstRange \in Ranges
    /\ cmd.id = "ResolveQuery" => cmd.dst \in PlainBuffers

TypedBuild(cmd) ==
    /\ cmd.id = "BuildAccelerationStructure" =>
          /\ cmd.inputs \subseteq PlainBuffers /\ cmd.micromap \in Maybe(Micromaps)
          /\ cmd.dst \in AccelerationStructures /\ cmd.src \in Maybe(AccelerationStructures)
          /\ cmd.scratchBuffer \in PlainBuffers
    /\ cmd.id = "BuildMicromap" =>
          /\ cmd.inputs \subseteq PlainBuffers /\ cmd.dst \in Micromaps
          /\ cmd.scratchBuffer \in PlainBuffers
    /\ cmd.id = "CopyAccelerationStructure" =>
          cmd.dst \in AccelerationStructures /\ cmd.src \in AccelerationStructures
    /\ cmd.id = "ExecuteClusterOperation" =>
          /\ cmd.argCountBuffer \in OptionalBuffers /\ cmd.argsBuffer \in PlainBuffers
          /\ cmd.scratchBuffer \in PlainBuffers /\ cmd.addressesBuffer \in OptionalBuffers
          /\ cmd.resultBuffer \in Maybe(AccelerationStructures) /\ cmd.sizesBuffer \in OptionalBuffers
    /\ cmd.id = "ConvertCooperativeVectorMatrix" =>
          /\ cmd = [id |-> cmd.id, dst |-> cmd.dst, src |-> cmd.src]
          /\ cmd.dst \in PlainBuffers /\ cmd.src \in PlainBuffers
    /\ cmd.id = "Converted" => cmd.dst \in PlainBuffers

TypedPass(cmd) ==
    /\ cmd.id = "SetBufferState" =>
          cmd.dst \in PlainBuffers /\ cmd.dstRange \in Ranges /\ cmd.state \in States
    /\ cmd.id = "SetTextureState" =>
          cmd.dst \in Textures /\ cmd.dstRange \in Ranges /\ cmd.state \in States
    /\ cmd.id = "BeginRenderPass" => cmd.desc \in RenderTargets
    /\ cmd.id = "EndRenderPass" => cmd = [id |-> "EndRenderPass"]
    /\ cmd.id = "SetRenderState" =>
          cmd.root \in Roots /\ cmd.vb \in OptionalBuffers /\ cmd.ib \in OptionalBuffers
    /\ cmd.id = "SetComputeState" => cmd.root \in Roots
    /\ cmd.id = "SetRayTracingState" =>
          cmd.root \in Roots /\ TableBuffer[cmd.shaderTable] \in OptionalBuffers
    /\ cmd.id \in {"DrawIndirect", "DrawIndexedIndirect"} =>
          cmd.argBuffer \in PlainBuffers /\ cmd.countBuffer \in OptionalBuffers
    /\ cmd.id = "DispatchComputeIndirect" => cmd.argBuffer \in PlainBuffers

(* A command whose handler finds in it what it relies on.                  *)
Typed(cmd) == TypedTransfer(cmd) /\ TypedBuild(cmd) /\ TypedPass(cmd)

(* Each call a client may make outside passes writes a command whose       *)
(* handler finds in it what it relies on.                                  *)
LEMMA CallTyped == ASSUME NEW cmd, IsCall(cmd) PROVE Typed(cmd)
<1>1. CASE cmd \in Transfers
  <2>1. cmd.id \in {"CopyBuffer", "CopyTexture", "CopyTextureToBuffer", "UploadTextureData",
                    "ClearBuffer", "ClearTexture"}
    BY <1>1 DEF Transfers
  <2>2. TypedTransfer(cmd)
    BY <1>1 DEF Transfers, TypedTransfer
  <2> QED
    BY <2>1, <2>2 DEF Typed, TypedBuild, TypedPass
<1>2. CASE cmd \in Builds
  <2>1. cmd.id \in {"BuildAccelerationStructure", "BuildMicromap", "CopyAccelerationStructure",
                    "ExecuteClusterOperation", "ConvertCooperativeVectorMatrix"}
    BY <1>2 DEF Builds
  <2>2. TypedBuild(cmd)
    BY <1>2 DEF Builds, TypedBuild, OptionalBuffers
  <2> QED
    BY <2>1, <2>2 DEF Typed, TypedTransfer, TypedPass
<1>3. CASE cmd \in StateChanges
  <2>1. cmd.id \in {"SetBufferState", "SetTextureState", "GlobalBarrier"}
    BY <1>3 DEF StateChanges
  <2>2. TypedPass(cmd)
    BY <1>3, NeedTyped DEF StateChanges, TypedPass
  <2> QED
    BY <2>1, <2>2 DEF Typed, TypedTransfer, TypedBuild
<1>4. CASE /\ cmd.id = "ResolveQuery" /\ cmd.dst \in PlainBuffers
  BY <1>4 DEF Typed, TypedTransfer, TypedBuild, TypedPass
<1>5. CASE cmd.id = "ExecuteCallback"
  BY <1>5 DEF Typed, TypedTransfer, TypedBuild, TypedPass
<1> QED
  BY <1>1, <1>2, <1>3, <1>4, <1>5 DEF IsCall

(* A plain buffer may be in every state but those of acceleration          *)
(* structures and micromaps, which their own buffers keep to               *)
(* (d3d12-device.cpp:2128 and 2152, vk-device.cpp:2044 and 2088).          *)
LEMMA PlainStates ==
    /\ \A b \in PlainBuffers : b \in Buffers /\ b \in Resources /\ StatesOf(b) = States
    /\ \A b \in AccelerationStructures :
          b \in Buffers /\ StatesOf(b) = {"AccelerationStructureRead", "AccelerationStructureWrite"}
    /\ \A b \in Micromaps : b \in Buffers /\ StatesOf(b) = {"MicromapRead", "MicromapWrite"}
    /\ None \notin Buffers
    /\ {"VertexBuffer", "IndexBuffer", "ShaderResource", "UnorderedAccess", "RenderTarget",
        "DepthRead", "DepthWrite", "IndirectArgument", "CopySource", "CopyDestination",
        "ResolveSource", "ResolveDestination", "AccelerationStructureBuildInput",
        "MicromapBuildInput"} \subseteq States
<1>1. AccelerationStructures \cap Micromaps = {}
  BY DEF AccelerationStructures, Micromaps
<1>2. /\ \A b \in PlainBuffers : b \in Buffers /\ b \in Resources /\ StatesOf(b) = States
      /\ \A b \in AccelerationStructures :
            b \in Buffers /\ StatesOf(b) = {"AccelerationStructureRead", "AccelerationStructureWrite"}
  BY DEF PlainBuffers, StatesOf, Resources, AccelerationStructures
<1>3. \A b \in Micromaps : b \in Buffers /\ StatesOf(b) = {"MicromapRead", "MicromapWrite"}
  BY <1>1 DEF StatesOf, Micromaps
<1>4. None \notin Buffers
  BY CommandEncoderAssumption DEF Resources
<1>5. {"VertexBuffer", "IndexBuffer", "ShaderResource", "UnorderedAccess", "RenderTarget",
        "DepthRead", "DepthWrite", "IndirectArgument", "CopySource", "CopyDestination",
        "ResolveSource", "ResolveDestination", "AccelerationStructureBuildInput",
        "MicromapBuildInput"} \subseteq States
  BY DEF States, ResourceStates, StructureStates
<1> QED
  BY <1>2, <1>3, <1>4, <1>5

-----------------------------------------------------------------------------
(* The tracker knows what the GPU will have.                               *)
Truthful == IsTracker(tracker) /\ Believed(tracker) = ApplyBarriers(gpu, tracker.barriers)

(* What is required of a buffer that may be absent is a list of            *)
(* requirements.                                                           *)
LEMMA OptionalTyped ==
    ASSUME NEW B \in SUBSET Buffers, NEW b \in Maybe(B), NEW s, \A c \in B : s \in StatesOf(c)
    PROVE  OptionalNeed(b, s) \in Seq(Needs)
<1>1. CASE b = None
  BY <1>1 DEF OptionalNeed
<1>2. CASE b # None
  <2>1. b \in B /\ b \in Buffers /\ s \in StatesOf(b)
    BY <1>2 DEF Maybe
  <2>2. BufferNeed(b, s) \in Needs
    BY <2>1, NeedTyped
  <2> QED
    BY <1>2, <2>2 DEF OptionalNeed
<1> QED
  BY <1>1, <1>2

(* What is required of each input of a build is a list of requirements.    *)
LEMMA EachTyped ==
    ASSUME NEW B \in SUBSET PlainBuffers, NEW s \in States
    PROVE  EachNeeds(B, s) \in Seq(Needs)
<1> DEFINE S == {BufferNeed(b, s) : b \in B}
<1>1. IsFiniteSet(B)
  <2>1. B \subseteq Resources
    BY PlainStates
  <2> QED
    BY <2>1, DefaultsAssumption, FS_Subset
<1>2. IsFiniteSet(S)
  <2> DEFINE f == [b \in B |-> BufferNeed(b, s)]
  <2>1. f \in Surjection(B, S)
    BY DEF Surjection
  <2> HIDE DEF f, S
  <2> QED
    BY <1>1, <2>1, FS_Surjection
<1>3. S \subseteq Needs
  <2> SUFFICES ASSUME NEW b \in B PROVE BufferNeed(b, s) \in Needs
    OBVIOUS
  <2> QED
    BY PlainStates, NeedTyped
<1> HIDE DEF S
<1>4. SetToSeq(S) \in Seq(S)
  BY <1>2, InjectiveSeq
<1>5. SetToSeq(S) \in Seq(Needs)
  BY <1>3, <1>4
<1> QED
  BY <1>5 DEF EachNeeds, S

(* What is required of vertex and index buffers is a list of requirements. *)
LEMMA GeometryTyped ==
    ASSUME NEW vb \in OptionalBuffers, NEW ib \in OptionalBuffers
    PROVE  GeometryNeeds(vb, ib) \in Seq(Needs)
<1>1. PlainBuffers \in SUBSET Buffers /\ \A b \in PlainBuffers : StatesOf(b) = States
  BY PlainStates
<1>2. "VertexBuffer" \in States /\ "IndexBuffer" \in States
  BY PlainStates
<1>3. OptionalNeed(vb, "VertexBuffer") \in Seq(Needs) /\ OptionalNeed(ib, "IndexBuffer") \in Seq(Needs)
  BY <1>1, <1>2, OptionalTyped DEF OptionalBuffers
<1> QED
  BY <1>3 DEF GeometryNeeds

(* What is required of the buffers of an indirect draw is a list of        *)
(* requirements.                                                           *)
LEMMA IndirectTyped ==
    ASSUME NEW cmd, cmd.argBuffer \in PlainBuffers, cmd.countBuffer \in OptionalBuffers
    PROVE  IndirectNeeds(cmd) \in Seq(Needs)
<1>1. PlainBuffers \in SUBSET Buffers /\ \A b \in PlainBuffers : StatesOf(b) = States
  BY PlainStates
<1>2. "IndirectArgument" \in States
  BY PlainStates
<1>3. OptionalNeed(cmd.countBuffer, "IndirectArgument") \in Seq(Needs)
  BY <1>1, <1>2, OptionalTyped DEF OptionalBuffers
<1>4. BufferNeed(cmd.argBuffer, "IndirectArgument") \in Needs
  BY <1>1, <1>2, NeedTyped
<1> QED
  BY <1>3, <1>4 DEF IndirectNeeds

(* Lists of elements of a set, joined, are a list of elements of that set. *)
LEMMA FlattenTyped ==
    ASSUME NEW X, NEW ss \in Seq(Seq(X))
    PROVE  FlattenSeq(ss) \in Seq(X)
<1>1. CASE ss = <<>>
  <2>1. FlattenSeq(ss) = <<>>
    BY <1>1 DEF FlattenSeq
  <2>2. <<>> \in Seq(X)
    OBVIOUS
  <2> QED
    BY <2>1, <2>2, Zenon
<1>2. CASE ss # <<>>
  <2>1. PICK f : /\ f = [n \in 1..Len(ss) |-> IF n = 1 THEN ss[n] ELSE f[n - 1] \o ss[n]]
                 /\ FlattenSeq(ss) = f[Len(ss)]
    BY <1>2, FlattenFold
  <2> DEFINE T == {n \in Nat : n + 1 <= Len(ss) => f[n + 1] \in Seq(X)}
  <2>2. Len(ss) \in Nat /\ Len(ss) # 0 /\ \A n \in 1..Len(ss) : ss[n] \in Seq(X)
    BY <1>2
  <2>3. 0 \in T
    BY <2>1, <2>2
  <2>4. ASSUME NEW n \in Nat, n \in T PROVE n + 1 \in T
    <3> SUFFICES ASSUME (n + 1) + 1 <= Len(ss) PROVE f[(n + 1) + 1] \in Seq(X)
      OBVIOUS
    <3>1. (n + 1) + 1 \in 1..Len(ss) /\ (n + 1) + 1 # 1 /\ ((n + 1) + 1) - 1 = n + 1 /\ n + 1 <= Len(ss)
      BY <2>2
    <3>2. f[(n + 1) + 1] = f[n + 1] \o ss[(n + 1) + 1]
      BY <2>1, <3>1
    <3>3. f[n + 1] \in Seq(X) /\ ss[(n + 1) + 1] \in Seq(X)
      BY <2>2, <2>4, <3>1
    <3> QED
      BY <3>2, <3>3
  <2>5. Nat \subseteq T
    <3> HIDE DEF T
    <3> QED
      BY <2>3, <2>4, NatSets
  <2>6. Len(ss) - 1 \in Nat /\ (Len(ss) - 1) + 1 = Len(ss)
    BY <2>2
  <2>7. Len(ss) - 1 \in T
    <3> HIDE DEF T
    <3> QED
      BY <2>5, <2>6
  <2>8. f[(Len(ss) - 1) + 1] \in Seq(X)
    BY <2>2, <2>6, <2>7
  <2> QED
    BY <2>1, <2>6, <2>8, Zenon
<1> QED
  BY <1>1, <1>2

(* A handler that requires states and records no barrier keeps the tracker *)
(* truthful: it owes what it now believes.                                 *)
LEMMA Postponed ==
    ASSUME Truthful, NEW t, IsTracker(t), Follows(tracker, t), tracker' = t, gpu' = gpu
    PROVE  Truthful'
<1>1. PICK bs \in Seq(Owed) : /\ t.barriers = tracker.barriers \o bs
                              /\ Believed(t) = ApplyBarriers(Believed(tracker), bs)
  BY DEF Follows
<1>2. tracker.barriers \in Seq(Owed)
  BY DEF Truthful, IsTracker
<1>3. ApplyBarriers(gpu, t.barriers) = ApplyBarriers(ApplyBarriers(gpu, tracker.barriers), bs)
  BY <1>1, <1>2, ApplyMore
<1>4. Believed(t) = ApplyBarriers(gpu, t.barriers)
  BY <1>1, <1>3 DEF Truthful
<1> QED
  BY <1>4 DEF Truthful

(* A handler that requires and records nothing keeps the tracker truthful. *)
LEMMA Untouched ==
    ASSUME Truthful, UNCHANGED <<tracker, gpu>>
    PROVE  Truthful'
  BY DEF Truthful

(* A handler that records all it owes and then forgets it keeps the        *)
(* tracker truthful, and leaves the GPU as the tracker believes.           *)
LEMMA Committed ==
    ASSUME Truthful, NEW t, IsTracker(t), Follows(tracker, t),
           gpu' = ApplyBarriers(gpu, t.barriers), tracker' = [t EXCEPT !.barriers = <<>>]
    PROVE  Truthful' /\ gpu' = Believed(t)
<1>1. gpu' = ApplyBarriers(gpu, t.barriers) /\ tracker' = [t EXCEPT !.barriers = <<>>]
  OBVIOUS
<1>2. gpu' = Believed(t)
  <2>1. PICK bs \in Seq(Owed) : /\ t.barriers = tracker.barriers \o bs
                                /\ Believed(t) = ApplyBarriers(Believed(tracker), bs)
    BY DEF Follows
  <2>2. tracker.barriers \in Seq(Owed)
    BY DEF Truthful, IsTracker
  <2>3. ApplyBarriers(gpu, t.barriers) = ApplyBarriers(ApplyBarriers(gpu, tracker.barriers), bs)
    BY <2>1, <2>2, ApplyMore
  <2> QED
    BY <1>1, <2>1, <2>3 DEF Truthful
<1>3. tracker' = [buffers |-> t.buffers, textures |-> t.textures, barriers |-> <<>>]
  <2>1. t = [buffers |-> t.buffers, textures |-> t.textures, barriers |-> t.barriers]
    BY DEF IsTracker
  <2> QED
    BY <1>1, <2>1
<1>4. IsTracker(tracker')
  <2>1. tracker'.buffers = t.buffers /\ tracker'.textures = t.textures /\ tracker'.barriers = <<>>
    BY <1>3
  <2>2. <<>> \in Seq(Owed)
    OBVIOUS
  <2> QED
    BY <1>3, <2>1, <2>2 DEF IsTracker
<1>5. Believed(tracker') = Believed(t)
  BY <1>3 DEF Believed
<1>6. ApplyBarriers(gpu', tracker'.barriers) = gpu'
  BY <1>3, ApplyNone
<1> QED
  BY <1>2, <1>4, <1>5, <1>6 DEF Truthful

(* A list joined of lists of one is the list of what they hold.            *)
LEMMA Singletons ==
    ASSUME NEW X, NEW bs \in Seq(X)
    PROVE  FlattenSeq([i \in DOMAIN bs |-> <<bs[i]>>]) = bs
<1> DEFINE ss == [i \in DOMAIN bs |-> <<bs[i]>>]
<1>1. /\ Len(bs) \in Nat /\ ss \in Seq(Seq(X)) /\ Len(ss) = Len(bs)
      /\ \A i \in 1..Len(bs) : ss[i] = <<bs[i]>> /\ bs[i] \in X
  <2>1. Len(bs) \in Nat /\ DOMAIN bs = 1..Len(bs)
    OBVIOUS
  <2>2. \A i \in 1..Len(bs) : bs[i] \in X
    OBVIOUS
  <2>3. \A i \in 1..Len(bs) : <<bs[i]>> \in Seq(X)
    BY <2>2
  <2>4. ss \in [1..Len(bs) -> Seq(X)]
    BY <2>1, <2>3
  <2>5. ss \in Seq(Seq(X)) /\ Len(ss) = Len(bs)
    BY <2>1, <2>4
  <2> QED
    BY <2>1, <2>2, <2>5
<1> HIDE DEF ss
<1>2. CASE ss = <<>>
  <2>1. FlattenSeq(ss) = <<>>
    BY <1>2 DEF FlattenSeq
  <2>2. bs = <<>>
    BY <1>1, <1>2
  <2> QED
    BY <2>1, <2>2 DEF ss
<1>3. CASE ss # <<>>
  <2>1. PICK f : /\ f = [n \in 1..Len(ss) |-> IF n = 1 THEN ss[n] ELSE f[n - 1] \o ss[n]]
                 /\ FlattenSeq(ss) = f[Len(ss)]
    BY <1>1, <1>3, FlattenFold
  <2>2. Len(bs) # 0
    BY <1>1, <1>3
  <2> DEFINE T == {n \in Nat : n + 1 <= Len(bs) => f[n + 1] = SubSeq(bs, 1, n + 1)}
  <2>3. 0 \in T
    <3>1. f[1] = <<bs[1]>>
      <4>1. 1 \in 1..Len(bs)
        BY <1>1, <2>2
      <4> QED
        BY <1>1, <2>1, <4>1
    <3> QED
      BY <1>1, <2>2, <3>1
  <2>4. ASSUME NEW n \in Nat, n \in T PROVE n + 1 \in T
    <3> SUFFICES ASSUME (n + 1) + 1 <= Len(bs) PROVE f[(n + 1) + 1] = SubSeq(bs, 1, (n + 1) + 1)
      OBVIOUS
    <3>1. (n + 1) + 1 \in 1..Len(bs) /\ (n + 1) + 1 # 1 /\ ((n + 1) + 1) - 1 = n + 1 /\ n + 1 <= Len(bs)
      BY <1>1
    <3>2. f[(n + 1) + 1] = f[n + 1] \o <<bs[(n + 1) + 1]>>
      BY <1>1, <2>1, <3>1
    <3>3. f[n + 1] = SubSeq(bs, 1, n + 1)
      BY <2>4, <3>1
    <3>4. SubSeq(bs, 1, n + 1) \o <<bs[(n + 1) + 1]>> = SubSeq(bs, 1, (n + 1) + 1)
      BY <1>1, <3>1
    <3> QED
      BY <3>2, <3>3, <3>4
  <2>5. Nat \subseteq T
    <3> HIDE DEF T
    <3> QED
      BY <2>3, <2>4, NatSets
  <2>6. Len(bs) - 1 \in Nat /\ (Len(bs) - 1) + 1 = Len(bs)
    BY <1>1, <2>2
  <2>7. Len(bs) - 1 \in T
    <3> HIDE DEF T
    <3> QED
      BY <2>5, <2>6
  <2>8. f[(Len(bs) - 1) + 1] = SubSeq(bs, 1, Len(bs))
    BY <1>1, <2>6, <2>7
  <2>9. SubSeq(bs, 1, Len(bs)) = bs
    BY <1>1
  <2> QED
    BY <1>1, <2>1, <2>6, <2>8, <2>9 DEF ss
<1> QED
  BY <1>2, <1>3

(* D3D12 leaves out the transitions between equal states only, and a       *)
(* tracker owes none of those (d3d12-command.cpp, commitBarriers).         *)
LEMMA OwedRecorded == ASSUME NEW b \in Owed PROVE D3D12!Recorded(b)
<1>1. b.before \in StatesOf(b.res) /\ b.after \in StatesOf(b.res) /\ (b.before # b.after \/ b.after = "UnorderedAccess")
  BY DEF Owed, Changes
<1>2. CASE StatesOf(b.res) = States
  <2>1. {b.before, b.after} \cap D3D12!StructureStates = {}
    BY <1>1, <1>2 DEF States, StructureStates, D3D12!StructureStates
  <2> QED
    BY <2>1 DEF D3D12!Recorded
<1>3. CASE StatesOf(b.res) = {"AccelerationStructureRead", "AccelerationStructureWrite"}
  <2>1. {b.before, b.after} = {"AccelerationStructureRead", "AccelerationStructureWrite"}
    BY <1>1, <1>3
  <2> QED
    BY <2>1 DEF D3D12!Recorded
<1>4. CASE StatesOf(b.res) = {"MicromapRead", "MicromapWrite"}
  <2>1. {b.before, b.after} = {"MicromapRead", "MicromapWrite"}
    BY <1>1, <1>4
  <2> QED
    BY <2>1 DEF D3D12!Recorded
<1> QED
  BY <1>2, <1>3, <1>4 DEF StatesOf


-----------------------------------------------------------------------------
(* Requirements of the buffers and textures a command may name.            *)
LEMMA PlainNeeds ==
    /\ \A b \in PlainBuffers : \A s \in States : BufferNeed(b, s) \in Needs
    /\ \A b \in AccelerationStructures : /\ BufferNeed(b, "AccelerationStructureRead") \in Needs
                                         /\ BufferNeed(b, "AccelerationStructureWrite") \in Needs
    /\ \A b \in Micromaps : BufferNeed(b, "MicromapRead") \in Needs /\ BufferNeed(b, "MicromapWrite") \in Needs
    /\ \A x \in Textures, r \in Ranges : \A s \in States : Need(x, r, s) \in Needs
  BY NeedTyped, PlainStates, StatesTyped

(* Lists of requirements of the buffers a command may leave out.           *)
LEMMA OptionalNeeds ==
    /\ \A b \in OptionalBuffers : \A s \in States : OptionalNeed(b, s) \in Seq(Needs)
    /\ \A b \in Maybe(AccelerationStructures) :
          /\ OptionalNeed(b, "AccelerationStructureRead") \in Seq(Needs)
          /\ OptionalNeed(b, "AccelerationStructureWrite") \in Seq(Needs)
    /\ \A b \in Maybe(Micromaps) : OptionalNeed(b, "MicromapRead") \in Seq(Needs)
  BY PlainNeeds DEF OptionalNeed, OptionalBuffers, Maybe

(* Two lists joined are a list.                                            *)
LEMMA Joined == \A X : \A a, b \in Seq(X) : a \o b \in Seq(X)
  OBVIOUS

(* What the handlers require, as both recorders list it.                   *)
CopyNeeds(cmd) == <<BufferNeed(cmd.dst, "CopyDestination"), BufferNeed(cmd.src, "CopySource")>>
ReadNeeds(cmd) == <<BufferNeed(cmd.dst, "CopyDestination"), Need(cmd.src, cmd.srcRange, "CopySource")>>
UploadNeeds(cmd) == <<BufferNeed(cmd.src, "CopySource"), Need(cmd.dst, cmd.dstRange, "CopyDestination")>>
StructureNeeds(cmd) == <<BufferNeed(cmd.dst, "AccelerationStructureWrite")>>
                          \o OptionalNeed(cmd.src, "AccelerationStructureRead")
                          \o <<BufferNeed(cmd.scratchBuffer, "UnorderedAccess")>>
                          \o EachNeeds(cmd.inputs, "AccelerationStructureBuildInput")
                          \o OptionalNeed(cmd.micromap, "MicromapRead")
MicromapNeeds(cmd) == <<BufferNeed(cmd.dst, "MicromapWrite"), BufferNeed(cmd.scratchBuffer, "UnorderedAccess")>>
                         \o EachNeeds(cmd.inputs, "MicromapBuildInput")
StructureCopyNeeds(cmd) == <<BufferNeed(cmd.dst, "AccelerationStructureWrite"),
                             BufferNeed(cmd.src, "AccelerationStructureRead")>>
ClusterNeeds(cmd) == <<BufferNeed(cmd.argsBuffer, "ShaderResource")>>
                        \o OptionalNeed(cmd.argCountBuffer, "ShaderResource")
                        \o <<BufferNeed(cmd.scratchBuffer, "UnorderedAccess")>>
                        \o OptionalNeed(cmd.addressesBuffer, "UnorderedAccess")
                        \o OptionalNeed(cmd.resultBuffer, "AccelerationStructureWrite")
                        \o OptionalNeed(cmd.sizesBuffer, "UnorderedAccess")
ConversionNeeds(cmd) == <<BufferNeed(cmd.dst, "UnorderedAccess"), BufferNeed(cmd.src, "ShaderResource")>>

(* What the copies, clears and uploads require are requirements.           *)
LEMMA TransferNeeds ==
    ASSUME NEW cmd, Typed(cmd)
    PROVE  /\ cmd.id = "CopyBuffer" => CopyNeeds(cmd) \in Seq(Needs)
           /\ cmd.id = "CopyTextureToBuffer" => ReadNeeds(cmd) \in Seq(Needs)
           /\ cmd.id = "UploadTextureData" => UploadNeeds(cmd) \in Seq(Needs)
           /\ cmd.id \in {"ClearBuffer", "ResolveQuery"} =>
                 /\ <<BufferNeed(cmd.dst, "CopyDestination")>> \in Seq(Needs)
                 /\ <<BufferNeed(cmd.dst, "UnorderedAccess")>> \in Seq(Needs)
<1>1. TypedTransfer(cmd)
  BY DEF Typed
<1>2. {"CopyDestination", "CopySource", "UnorderedAccess"} \subseteq States
  BY PlainStates
<1>3. cmd.id = "CopyBuffer" => CopyNeeds(cmd) \in Seq(Needs)
  BY <1>1, <1>2, PlainNeeds DEF TypedTransfer, CopyNeeds
<1>4. cmd.id = "CopyTextureToBuffer" => ReadNeeds(cmd) \in Seq(Needs)
  BY <1>1, <1>2, PlainNeeds DEF TypedTransfer, ReadNeeds
<1>5. cmd.id = "UploadTextureData" => UploadNeeds(cmd) \in Seq(Needs)
  BY <1>1, <1>2, PlainNeeds DEF TypedTransfer, UploadNeeds
<1>6. cmd.id \in {"ClearBuffer", "ResolveQuery"} => cmd.dst \in PlainBuffers
  BY <1>1 DEF TypedTransfer
<1>7. cmd.id \in {"ClearBuffer", "ResolveQuery"} =>
         BufferNeed(cmd.dst, "CopyDestination") \in Needs /\ BufferNeed(cmd.dst, "UnorderedAccess") \in Needs
  BY <1>2, <1>6, PlainNeeds
<1> QED
  BY <1>3, <1>4, <1>5, <1>7

(* What the builds, their copies and conversions require are requirements. *)
LEMMA BuildNeeds ==
    ASSUME NEW cmd, Typed(cmd)
    PROVE  /\ cmd.id = "BuildAccelerationStructure" => StructureNeeds(cmd) \in Seq(Needs)
           /\ cmd.id = "BuildMicromap" => MicromapNeeds(cmd) \in Seq(Needs)
           /\ cmd.id = "CopyAccelerationStructure" => StructureCopyNeeds(cmd) \in Seq(Needs)
           /\ cmd.id = "ExecuteClusterOperation" => ClusterNeeds(cmd) \in Seq(Needs)
           /\ cmd.id = "ConvertCooperativeVectorMatrix" => ConversionNeeds(cmd) \in Seq(Needs)
           /\ cmd.id = "Converted" => <<BufferNeed(cmd.dst, "ShaderResource")>> \in Seq(Needs)
<1>1. TypedBuild(cmd)
  BY DEF Typed
<1>2. {"UnorderedAccess", "ShaderResource", "AccelerationStructureBuildInput", "MicromapBuildInput"} \subseteq States
  BY PlainStates
<1>3. ASSUME cmd.id = "BuildAccelerationStructure" PROVE StructureNeeds(cmd) \in Seq(Needs)
  <2>1. /\ cmd.inputs \in SUBSET PlainBuffers /\ cmd.micromap \in Maybe(Micromaps)
        /\ cmd.dst \in AccelerationStructures /\ cmd.src \in Maybe(AccelerationStructures)
        /\ cmd.scratchBuffer \in PlainBuffers
    BY <1>1, <1>3 DEF TypedBuild
  <2>2. /\ <<BufferNeed(cmd.dst, "AccelerationStructureWrite")>> \in Seq(Needs)
        /\ <<BufferNeed(cmd.scratchBuffer, "UnorderedAccess")>> \in Seq(Needs)
    BY <1>2, <2>1, PlainNeeds
  <2>3. /\ OptionalNeed(cmd.src, "AccelerationStructureRead") \in Seq(Needs)
        /\ OptionalNeed(cmd.micromap, "MicromapRead") \in Seq(Needs)
    BY <2>1, OptionalNeeds
  <2>4. EachNeeds(cmd.inputs, "AccelerationStructureBuildInput") \in Seq(Needs)
    BY <1>2, <2>1, EachTyped
  <2> QED
    BY <2>2, <2>3, <2>4, Joined, Zenon DEF StructureNeeds
<1>4. ASSUME cmd.id = "BuildMicromap" PROVE MicromapNeeds(cmd) \in Seq(Needs)
  <2>1. /\ cmd.inputs \in SUBSET PlainBuffers /\ cmd.dst \in Micromaps /\ cmd.scratchBuffer \in PlainBuffers
    BY <1>1, <1>4 DEF TypedBuild
  <2>2. <<BufferNeed(cmd.dst, "MicromapWrite"), BufferNeed(cmd.scratchBuffer, "UnorderedAccess")>> \in Seq(Needs)
    BY <1>2, <2>1, PlainNeeds
  <2>3. EachNeeds(cmd.inputs, "MicromapBuildInput") \in Seq(Needs)
    BY <1>2, <2>1, EachTyped
  <2> QED
    BY <2>2, <2>3, Joined, Zenon DEF MicromapNeeds
<1>5. cmd.id = "CopyAccelerationStructure" => StructureCopyNeeds(cmd) \in Seq(Needs)
  BY <1>1, PlainNeeds DEF TypedBuild, StructureCopyNeeds
<1>6. ASSUME cmd.id = "ExecuteClusterOperation" PROVE ClusterNeeds(cmd) \in Seq(Needs)
  <2>1. /\ cmd.argCountBuffer \in OptionalBuffers /\ cmd.argsBuffer \in PlainBuffers
        /\ cmd.scratchBuffer \in PlainBuffers /\ cmd.addressesBuffer \in OptionalBuffers
        /\ cmd.resultBuffer \in Maybe(AccelerationStructures) /\ cmd.sizesBuffer \in OptionalBuffers
    BY <1>1, <1>6 DEF TypedBuild
  <2>2. /\ <<BufferNeed(cmd.argsBuffer, "ShaderResource")>> \in Seq(Needs)
        /\ <<BufferNeed(cmd.scratchBuffer, "UnorderedAccess")>> \in Seq(Needs)
    BY <1>2, <2>1, PlainNeeds
  <2>3. /\ OptionalNeed(cmd.argCountBuffer, "ShaderResource") \in Seq(Needs)
        /\ OptionalNeed(cmd.addressesBuffer, "UnorderedAccess") \in Seq(Needs)
        /\ OptionalNeed(cmd.resultBuffer, "AccelerationStructureWrite") \in Seq(Needs)
        /\ OptionalNeed(cmd.sizesBuffer, "UnorderedAccess") \in Seq(Needs)
    BY <1>2, <2>1, OptionalNeeds
  <2> QED
    BY <2>2, <2>3, Joined, Zenon DEF ClusterNeeds
<1>7. cmd.id = "ConvertCooperativeVectorMatrix" => ConversionNeeds(cmd) \in Seq(Needs)
  BY <1>1, <1>2, PlainNeeds DEF TypedBuild, ConversionNeeds
<1>8. cmd.id = "Converted" => <<BufferNeed(cmd.dst, "ShaderResource")>> \in Seq(Needs)
  BY <1>1, <1>2, PlainNeeds DEF TypedBuild
<1> QED
  BY <1>3, <1>4, <1>5, <1>6, <1>7, <1>8

-----------------------------------------------------------------------------
(* The lists of requirements are the same in the Vulkan recorder.          *)
LEMMA VulkanLists ==
    /\ \A b, s : Vulkan!OptionalNeed(b, s) = OptionalNeed(b, s)
    /\ \A S, s : Vulkan!EachNeeds(S, s) = EachNeeds(S, s)
    /\ \A vb, ib : Vulkan!GeometryNeeds(vb, ib) = GeometryNeeds(vb, ib)
    /\ \A cmd : Vulkan!IndirectNeeds(cmd) = IndirectNeeds(cmd)
<1>1. \A b, s : Vulkan!OptionalNeed(b, s) = OptionalNeed(b, s)
  BY VulkanNeeds DEF Vulkan!OptionalNeed, OptionalNeed
<1>2. \A S, s : Vulkan!EachNeeds(S, s) = EachNeeds(S, s)
  <2> SUFFICES ASSUME NEW S, NEW s PROVE Vulkan!EachNeeds(S, s) = EachNeeds(S, s)
    OBVIOUS
  <2>1. {Vulkan!BufferNeed(b, s) : b \in S} = {BufferNeed(b, s) : b \in S}
    BY VulkanNeeds
  <2> QED
    BY <2>1, VulkanSetToSeq, Zenon DEF Vulkan!EachNeeds, EachNeeds
<1>3. \A vb, ib : Vulkan!GeometryNeeds(vb, ib) = GeometryNeeds(vb, ib)
  BY <1>1, Zenon DEF Vulkan!GeometryNeeds, GeometryNeeds
<1>4. \A cmd : Vulkan!IndirectNeeds(cmd) = IndirectNeeds(cmd)
  BY <1>1, VulkanNeeds, Zenon DEF Vulkan!IndirectNeeds, IndirectNeeds
<1> QED
  BY <1>1, <1>2, <1>3, <1>4

(* commitBarriers of the Vulkan recorder, whatever was required before,    *)
(* keeps the tracker truthful and leaves the GPU as the tracker believes:  *)
(* every barrier it keeps is recorded, in order.                           *)
LEMMA VulkanSettles ==
    ASSUME Truthful, NEW t, IsTracker(t), Follows(tracker, t), Vulkan!CommitBarriers(t)
    PROVE  Truthful' /\ gpu' = Believed(t)
<1>1. gpu' = ApplyBarriers(gpu, t.barriers) /\ tracker' = [t EXCEPT !.barriers = <<>>]
  BY VulkanApplyBarriers DEF Vulkan!CommitBarriers
<1> QED
  BY <1>1, Committed

(* Requiring states and then committing them keeps the Vulkan tracker      *)
(* truthful.                                                               *)
LEMMA VulkanCommits ==
    ASSUME Truthful, NEW needs \in Seq(Needs), Vulkan!CommitBarriers(Vulkan!Require(tracker, needs))
    PROVE  Truthful'
<1> DEFINE t == Vulkan!Require(tracker, needs)
<1>1. IsTracker(t) /\ Follows(tracker, t)
  BY RequireSound, VulkanRequire DEF Truthful
<1> HIDE DEF t
<1> QED
  BY <1>1, VulkanSettles DEF t

(* A Vulkan handler that requires states, commits them and executes its    *)
(* command keeps the tracker truthful.                                     *)
LEMMA VulkanPerforms ==
    ASSUME Truthful, NEW needs \in Seq(Needs), NEW cmd, Vulkan!Perform(cmd, needs)
    PROVE  Truthful'
<1>1. Vulkan!CommitBarriers(Vulkan!Require(tracker, needs))
  BY DEF Vulkan!Perform
<1> QED
  BY <1>1, VulkanCommits

(* A Vulkan handler that only requires states keeps the tracker truthful.  *)
LEMMA VulkanPostpones ==
    ASSUME Truthful, NEW needs \in Seq(Needs), tracker' = Vulkan!Require(tracker, needs), gpu' = gpu
    PROVE  Truthful'
<1> DEFINE t == Vulkan!Require(tracker, needs)
<1>1. IsTracker(t) /\ Follows(tracker, t)
  BY RequireSound, VulkanRequire DEF Truthful
<1> HIDE DEF t
<1>2. tracker' = t
  BY DEF t
<1> QED
  BY <1>1, <1>2, Postponed

(* The Vulkan handlers of copies, clears, uploads and query resolves keep  *)
(* the tracker truthful.                                                   *)
LEMMA VulkanTransfersTruthful ==
    ASSUME Truthful, NEW cmd, Typed(cmd),
           \/ Vulkan!CmdCopyBuffer(cmd) \/ Vulkan!CmdCopyTexture(cmd) \/ Vulkan!CmdCopyTextureToBuffer(cmd)
           \/ Vulkan!CmdClearBuffer(cmd) \/ Vulkan!CmdClearTexture(cmd)
           \/ Vulkan!CmdUploadTextureData(cmd) \/ Vulkan!CmdResolveQuery(cmd)
    PROVE  Truthful'
<1>1. CASE Vulkan!CmdCopyBuffer(cmd)
  <2>1. Vulkan!Perform(cmd, CopyNeeds(cmd)) /\ cmd.id = "CopyBuffer"
    BY <1>1, VulkanNeeds, Zenon DEF Vulkan!CmdCopyBuffer, CopyNeeds
  <2>2. CopyNeeds(cmd) \in Seq(Needs)
    BY <2>1, TransferNeeds
  <2> QED
    BY <2>1, <2>2, VulkanPerforms
<1>2. CASE Vulkan!CmdCopyTexture(cmd)
  <2> DEFINE needs == <<Need(cmd.dst, Vulkan!FixUp(cmd.dst, cmd.dstRange), "CopyDestination"),
                        Need(cmd.src, Vulkan!FixUp(cmd.src, cmd.srcRange), "CopySource")>>
  <2>1. Vulkan!Perform(cmd, needs) /\ cmd.id = "CopyTexture"
    BY <1>2, VulkanNeeds, Zenon DEF Vulkan!CmdCopyTexture
  <2>2. ASSUME NEW x \in Textures, NEW r \in Ranges PROVE Vulkan!FixUp(x, r) \in Ranges
    <3>1. LayerCount[x] \in Nat /\ MipCount[x] \in Nat
      BY StateTrackingAssumption
    <3> QED
      BY <3>1 DEF Vulkan!FixUp, Ranges
  <2>3. cmd.dst \in Textures /\ cmd.dstRange \in Ranges /\ cmd.src \in Textures /\ cmd.srcRange \in Ranges
    BY <2>1 DEF Typed, TypedTransfer
  <2>4. "CopyDestination" \in States /\ "CopySource" \in States
    BY PlainStates
  <2>5. needs \in Seq(Needs)
    BY <2>2, <2>3, <2>4, PlainNeeds
  <2> QED
    BY <2>1, <2>5, VulkanPerforms
<1>3. CASE Vulkan!CmdCopyTextureToBuffer(cmd)
  <2>1. Vulkan!Perform(cmd, ReadNeeds(cmd)) /\ cmd.id = "CopyTextureToBuffer"
    BY <1>3, VulkanNeeds, Zenon DEF Vulkan!CmdCopyTextureToBuffer, ReadNeeds
  <2>2. ReadNeeds(cmd) \in Seq(Needs)
    BY <2>1, TransferNeeds
  <2> QED
    BY <2>1, <2>2, VulkanPerforms
<1>4. CASE Vulkan!CmdClearBuffer(cmd)
  <2>1. Vulkan!Perform(cmd, <<BufferNeed(cmd.dst, "CopyDestination")>>) /\ cmd.id = "ClearBuffer"
    BY <1>4, VulkanNeeds, Zenon DEF Vulkan!CmdClearBuffer
  <2>2. <<BufferNeed(cmd.dst, "CopyDestination")>> \in Seq(Needs)
    BY <2>1, TransferNeeds
  <2> QED
    BY <2>1, <2>2, VulkanPerforms
<1>5. CASE Vulkan!CmdClearTexture(cmd)
  <2> DEFINE needs == <<Need(cmd.dst, cmd.dstRange, "CopyDestination")>>
  <2>1. Vulkan!Perform(cmd, needs) /\ cmd.id = "ClearTexture"
    BY <1>5, VulkanNeeds, Zenon DEF Vulkan!CmdClearTexture
  <2>2. cmd.dst \in Textures /\ cmd.dstRange \in Ranges
    BY <2>1 DEF Typed, TypedTransfer
  <2>3. "CopyDestination" \in States
    BY PlainStates
  <2>4. needs \in Seq(Needs)
    BY <2>2, <2>3, PlainNeeds
  <2> QED
    BY <2>1, <2>4, VulkanPerforms
<1>6. CASE Vulkan!CmdUploadTextureData(cmd)
  <2>1. Vulkan!Perform(cmd, UploadNeeds(cmd)) /\ cmd.id = "UploadTextureData"
    BY <1>6, VulkanNeeds, Zenon DEF Vulkan!CmdUploadTextureData, UploadNeeds
  <2>2. UploadNeeds(cmd) \in Seq(Needs)
    BY <2>1, TransferNeeds
  <2> QED
    BY <2>1, <2>2, VulkanPerforms
<1>7. CASE Vulkan!CmdResolveQuery(cmd)
  <2>1. Vulkan!Perform(cmd, <<BufferNeed(cmd.dst, "CopyDestination")>>) /\ cmd.id = "ResolveQuery"
    BY <1>7, VulkanNeeds, Zenon DEF Vulkan!CmdResolveQuery
  <2>2. <<BufferNeed(cmd.dst, "CopyDestination")>> \in Seq(Needs)
    BY <2>1, TransferNeeds
  <2> QED
    BY <2>1, <2>2, VulkanPerforms
<1> QED
  BY <1>1, <1>2, <1>3, <1>4, <1>5, <1>6, <1>7

(* A Vulkan handler that returns early keeps the tracker truthful.         *)
LEMMA VulkanSkipTruthful == ASSUME Truthful, Vulkan!Skip PROVE Truthful'
<1>1. UNCHANGED <<tracker, gpu>>
  BY DEF Vulkan!Skip, Vulkan!recorder
<1> QED
  BY <1>1, Untouched

(* The Vulkan handlers of acceleration structures, micromaps, clusters and *)
(* conversions keep the tracker truthful.                                  *)
LEMMA VulkanBuildsTruthful ==
    ASSUME Truthful, NEW cmd, Typed(cmd),
           \/ Vulkan!CmdBuildAccelerationStructure(cmd) \/ Vulkan!CmdBuildMicromap(cmd)
           \/ Vulkan!CmdCopyAccelerationStructure(cmd) \/ Vulkan!CmdExecuteClusterOperation(cmd)
           \/ Vulkan!CmdConvertCooperativeVectorMatrix(cmd) \/ Vulkan!Converted(cmd)
    PROVE  Truthful'
<1>1. CASE Vulkan!CmdBuildAccelerationStructure(cmd)
  <2>1. /\ cmd.id = "BuildAccelerationStructure"
        /\ Vulkan!Skip \/ Vulkan!Perform(cmd, StructureNeeds(cmd))
    BY <1>1, VulkanNeeds, VulkanLists, Zenon DEF Vulkan!CmdBuildAccelerationStructure, StructureNeeds
  <2>2. StructureNeeds(cmd) \in Seq(Needs)
    BY <2>1, BuildNeeds
  <2> QED
    BY <2>1, <2>2, VulkanPerforms, VulkanSkipTruthful
<1>2. CASE Vulkan!CmdBuildMicromap(cmd)
  <2> DEFINE needs == <<Vulkan!BufferNeed(cmd.dst, "MicromapWrite"), Vulkan!BufferNeed(cmd.scratchBuffer, "UnorderedAccess")>>
                        \o Vulkan!EachNeeds(cmd.inputs, "MicromapBuildInput")
  <2>1. /\ cmd.id = "BuildMicromap"
        /\ Vulkan!Perform(cmd, needs) \/ (tracker' = Vulkan!Require(tracker, needs) /\ gpu' = gpu)
    BY <1>2, Zenon DEF Vulkan!CmdBuildMicromap, Vulkan!Quietly
  <2>2. needs = MicromapNeeds(cmd)
    BY VulkanNeeds, VulkanLists, Zenon DEF MicromapNeeds
  <2>3. MicromapNeeds(cmd) \in Seq(Needs)
    BY <2>1, BuildNeeds
  <2> HIDE DEF needs
  <2> QED
    BY <2>1, <2>2, <2>3, VulkanPerforms, VulkanPostpones
<1>3. CASE Vulkan!CmdCopyAccelerationStructure(cmd)
  <2>1. Vulkan!Perform(cmd, StructureCopyNeeds(cmd)) /\ cmd.id = "CopyAccelerationStructure"
    BY <1>3, VulkanNeeds, Zenon DEF Vulkan!CmdCopyAccelerationStructure, StructureCopyNeeds
  <2>2. StructureCopyNeeds(cmd) \in Seq(Needs)
    BY <2>1, BuildNeeds
  <2> QED
    BY <2>1, <2>2, VulkanPerforms
<1>4. CASE Vulkan!CmdExecuteClusterOperation(cmd)
  <2>1. Vulkan!Perform(cmd, ClusterNeeds(cmd)) /\ cmd.id = "ExecuteClusterOperation"
    BY <1>4, VulkanNeeds, VulkanLists, Zenon DEF Vulkan!CmdExecuteClusterOperation, ClusterNeeds
  <2>2. cmd.id = "ExecuteClusterOperation" => ClusterNeeds(cmd) \in Seq(Needs)
    BY BuildNeeds
  <2> QED
    BY <2>1, <2>2, VulkanPerforms, VulkanSkipTruthful
<1>5. CASE Vulkan!CmdConvertCooperativeVectorMatrix(cmd)
  <2>1. Vulkan!Perform(cmd, ConversionNeeds(cmd)) /\ cmd.id = "ConvertCooperativeVectorMatrix"
    BY <1>5, VulkanNeeds, Zenon DEF Vulkan!CmdConvertCooperativeVectorMatrix, ConversionNeeds
  <2>2. cmd.id = "ConvertCooperativeVectorMatrix" => ConversionNeeds(cmd) \in Seq(Needs)
    BY BuildNeeds
  <2> QED
    BY <2>1, <2>2, VulkanPerforms, VulkanSkipTruthful
<1>6. CASE Vulkan!Converted(cmd)
  <2>1. Vulkan!Perform(cmd, <<BufferNeed(cmd.dst, "ShaderResource")>>) /\ cmd.id = "Converted"
    BY <1>6, VulkanNeeds, Zenon DEF Vulkan!Converted
  <2>2. cmd.id = "Converted" => <<BufferNeed(cmd.dst, "ShaderResource")>> \in Seq(Needs)
    BY BuildNeeds
  <2> QED
    BY <2>1, <2>2, VulkanPerforms, VulkanSkipTruthful
<1> QED
  BY <1>1, <1>2, <1>3, <1>4, <1>5, <1>6

(* The Vulkan handlers of explicit states, timestamps, global barriers and *)
(* callbacks keep the tracker truthful.                                    *)
LEMMA VulkanOthersTruthful ==
    ASSUME Truthful, NEW cmd, Typed(cmd),
           \/ Vulkan!CmdSetState(cmd) \/ Vulkan!CmdWriteTimestamp(cmd) \/ Vulkan!CmdGlobalBarrier(cmd)
           \/ Vulkan!CmdExecuteCallback(cmd)
    PROVE  Truthful'
<1>1. CASE Vulkan!CmdSetState(cmd)
  <2> DEFINE need == Need(cmd.dst, cmd.dstRange, cmd.state)
  <2>1. tracker' = RequireState(tracker, need) /\ gpu' = gpu
    BY <1>1, VulkanNeeds, VulkanRequireState DEF Vulkan!CmdSetState, Vulkan!Quietly
  <2>2. need \in Needs
    <3>1. TypedPass(cmd) /\ cmd.id \in {"SetBufferState", "SetTextureState"}
      BY <1>1 DEF Typed, Vulkan!CmdSetState
    <3>2. cmd.dst \in Resources /\ cmd.dstRange \in Ranges /\ cmd.state \in StatesOf(cmd.dst)
      BY <3>1, PlainStates, StatesTyped DEF TypedPass
    <3> QED
      BY <3>2, NeedTyped
  <2>3. IsTracker(RequireState(tracker, need)) /\ Follows(tracker, RequireState(tracker, need))
    BY <2>2, RequireStep DEF Truthful
  <2> QED
    BY <2>1, <2>3, Postponed
<1>2. CASE Vulkan!CmdWriteTimestamp(cmd)
  <2>1. UNCHANGED <<tracker, gpu>>
    BY <1>2 DEF Vulkan!CmdWriteTimestamp, Vulkan!recorder
  <2> QED
    BY <2>1, Untouched
<1>3. CASE Vulkan!CmdGlobalBarrier(cmd)
  BY <1>3, VulkanSkipTruthful DEF Vulkan!CmdGlobalBarrier
<1>4. CASE Vulkan!CmdExecuteCallback(cmd)
  <2>1. Vulkan!CommitBarriers(tracker)
    BY <1>4 DEF Vulkan!CmdExecuteCallback
  <2>2. IsTracker(tracker) /\ Follows(tracker, tracker)
    BY FollowsSame DEF Truthful
  <2> QED
    BY <2>1, <2>2, VulkanSettles
<1> QED
  BY <1>1, <1>2, <1>3, <1>4


-----------------------------------------------------------------------------
(* The lists of requirements are the same in the D3D12 recorder.           *)
LEMMA D3D12Lists ==
    /\ \A b, s : D3D12!OptionalNeed(b, s) = OptionalNeed(b, s)
    /\ \A S, s : D3D12!EachNeeds(S, s) = EachNeeds(S, s)
    /\ \A vb, ib : D3D12!GeometryNeeds(vb, ib) = GeometryNeeds(vb, ib)
    /\ \A cmd : D3D12!IndirectNeeds(cmd) = IndirectNeeds(cmd)
<1>1. \A b, s : D3D12!OptionalNeed(b, s) = OptionalNeed(b, s)
  BY D3D12Needs DEF D3D12!OptionalNeed, OptionalNeed
<1>2. \A S, s : D3D12!EachNeeds(S, s) = EachNeeds(S, s)
  <2> SUFFICES ASSUME NEW S, NEW s PROVE D3D12!EachNeeds(S, s) = EachNeeds(S, s)
    OBVIOUS
  <2>1. {D3D12!BufferNeed(b, s) : b \in S} = {BufferNeed(b, s) : b \in S}
    BY D3D12Needs
  <2> QED
    BY <2>1, D3D12SetToSeq, Zenon DEF D3D12!EachNeeds, EachNeeds
<1>3. \A vb, ib : D3D12!GeometryNeeds(vb, ib) = GeometryNeeds(vb, ib)
  BY <1>1, Zenon DEF D3D12!GeometryNeeds, GeometryNeeds
<1>4. \A cmd : D3D12!IndirectNeeds(cmd) = IndirectNeeds(cmd)
  BY <1>1, D3D12Needs, Zenon DEF D3D12!IndirectNeeds, IndirectNeeds
<1> QED
  BY <1>1, <1>2, <1>3, <1>4

(* commitBarriers of the D3D12 recorder, whatever was required before,     *)
(* keeps the tracker truthful and leaves the GPU as the tracker believes:  *)
(* every barrier it keeps is recorded, in order.                           *)
LEMMA D3D12Settles ==
    ASSUME Truthful, NEW t, IsTracker(t), Follows(tracker, t), D3D12!CommitBarriers(t)
    PROVE  Truthful' /\ gpu' = Believed(t)
<1>1. t.barriers \in Seq(Owed)
  BY DEF IsTracker
<1>2. [i \in DOMAIN t.barriers |-> IF D3D12!Recorded(t.barriers[i]) THEN <<t.barriers[i]>> ELSE <<>>]
        = [i \in DOMAIN t.barriers |-> <<t.barriers[i]>>]
  <2>1. \A i \in DOMAIN t.barriers : t.barriers[i] \in Owed
    BY <1>1
  <2> QED
    BY <2>1, OwedRecorded
<1>3. FlattenSeq([i \in DOMAIN t.barriers |-> <<t.barriers[i]>>]) = t.barriers
  BY <1>1, Singletons
<1>4. gpu' = ApplyBarriers(gpu, t.barriers) /\ tracker' = [t EXCEPT !.barriers = <<>>]
  BY <1>2, <1>3, D3D12ApplyBarriers, D3D12Flatten DEF D3D12!CommitBarriers
<1> QED
  BY <1>4, Committed

(* Requiring states and then committing them keeps the D3D12 tracker       *)
(* truthful.                                                               *)
LEMMA D3D12Commits ==
    ASSUME Truthful, NEW needs \in Seq(Needs), D3D12!CommitBarriers(D3D12!Require(tracker, needs))
    PROVE  Truthful'
<1> DEFINE t == D3D12!Require(tracker, needs)
<1>1. IsTracker(t) /\ Follows(tracker, t)
  BY RequireSound, D3D12Require DEF Truthful
<1> HIDE DEF t
<1> QED
  BY <1>1, D3D12Settles DEF t

(* A D3D12 handler that requires states, commits them and executes its     *)
(* command keeps the tracker truthful.                                     *)
LEMMA D3D12Performs ==
    ASSUME Truthful, NEW needs \in Seq(Needs), NEW cmd, D3D12!Perform(cmd, needs)
    PROVE  Truthful'
<1>1. D3D12!CommitBarriers(D3D12!Require(tracker, needs))
  BY DEF D3D12!Perform
<1> QED
  BY <1>1, D3D12Commits

(* A D3D12 handler that only requires states keeps the tracker truthful.   *)
LEMMA D3D12Postpones ==
    ASSUME Truthful, NEW needs \in Seq(Needs), tracker' = D3D12!Require(tracker, needs), gpu' = gpu
    PROVE  Truthful'
<1> DEFINE t == D3D12!Require(tracker, needs)
<1>1. IsTracker(t) /\ Follows(tracker, t)
  BY RequireSound, D3D12Require DEF Truthful
<1> HIDE DEF t
<1>2. tracker' = t
  BY DEF t
<1> QED
  BY <1>1, <1>2, Postponed

(* A D3D12 handler that returns early keeps the tracker truthful.          *)
LEMMA D3D12SkipTruthful == ASSUME Truthful, D3D12!Skip PROVE Truthful'
<1>1. UNCHANGED <<tracker, gpu>>
  BY DEF D3D12!Skip, D3D12!recorder
<1> QED
  BY <1>1, Untouched

(* The smallest index that a D3D12 handler looks for is one of those it    *)
(* looks among.                                                            *)
LEMMA D3D12MinMember == ASSUME NEW S \in SUBSET Nat, S # {} PROVE D3D12!Min(S) \in S
<1>1. PICK x \in S : \A y \in S : ~(<<y, x>> \in OpToRel(<, Nat))
  BY NatLessThanWellFounded, WFMin
<1>2. ASSUME NEW y \in S PROVE x <= y
  <2>1. x \in Nat /\ y \in Nat
    OBVIOUS
  <2>2. y < x => <<y, x>> \in OpToRel(<, Nat)
    BY <2>1 DEF OpToRel
  <2>3. ~(y < x)
    BY <1>1, <2>2, Zenon
  <2> QED
    BY <2>1, <2>3
<1> QED
  BY <1>2 DEF D3D12!Min

(* The D3D12 handlers of copies, clears, uploads and query resolves keep   *)
(* the tracker truthful.                                                   *)
LEMMA D3D12TransfersTruthful ==
    ASSUME Truthful, NEW cmd, Typed(cmd),
           \/ D3D12!CmdCopyBuffer(cmd) \/ D3D12!CmdCopyTexture(cmd) \/ D3D12!CmdCopyTextureToBuffer(cmd)
           \/ D3D12!CmdClearBuffer(cmd) \/ D3D12!CmdClearTextureFloat(cmd) \/ D3D12!CmdClearTextureUint(cmd)
           \/ D3D12!CmdClearTextureDepthStencil(cmd)
           \/ D3D12!CmdUploadTextureData(cmd) \/ D3D12!CmdResolveQuery(cmd)
    PROVE  Truthful'
<1>1. CASE D3D12!CmdCopyBuffer(cmd)
  <2>1. D3D12!Perform(cmd, CopyNeeds(cmd)) /\ cmd.id = "CopyBuffer"
    BY <1>1, D3D12Needs, Zenon DEF D3D12!CmdCopyBuffer, CopyNeeds
  <2>2. CopyNeeds(cmd) \in Seq(Needs)
    BY <2>1, TransferNeeds
  <2> QED
    BY <2>1, <2>2, D3D12Performs
<1>2. CASE D3D12!CmdCopyTexture(cmd)
  <2>1. PICK whole \in BOOLEAN :
           D3D12!Perform(cmd, <<D3D12!Need(cmd.dst, D3D12!CopiedRange(cmd.dst, cmd.dstRange, whole), "CopyDestination"),
                                D3D12!Need(cmd.src, D3D12!CopiedRange(cmd.src, cmd.srcRange, whole), "CopySource")>>)
    BY <1>2 DEF D3D12!CmdCopyTexture
  <2> DEFINE needs == <<Need(cmd.dst, D3D12!CopiedRange(cmd.dst, cmd.dstRange, whole), "CopyDestination"),
                        Need(cmd.src, D3D12!CopiedRange(cmd.src, cmd.srcRange, whole), "CopySource")>>
  <2>2. D3D12!Perform(cmd, needs)
    BY <2>1, D3D12Needs, Zenon
  <2>3. ASSUME NEW x \in Textures, NEW r \in Ranges PROVE D3D12!CopiedRange(x, r, whole) \in Ranges
    <3>1. LayerCount[x] \in Nat /\ MipCount[x] \in Nat
      BY StateTrackingAssumption
    <3>2. D3D12!EntireTexture \in Ranges
      BY NeedTyped, D3D12Tracking
    <3> QED
      BY <3>1, <3>2 DEF D3D12!CopiedRange, Ranges
  <2>4. cmd.dst \in Textures /\ cmd.dstRange \in Ranges /\ cmd.src \in Textures /\ cmd.srcRange \in Ranges
    BY <1>2 DEF Typed, TypedTransfer, D3D12!CmdCopyTexture
  <2>5. "CopyDestination" \in States /\ "CopySource" \in States
    BY PlainStates
  <2>6. needs \in Seq(Needs)
    BY <2>3, <2>4, <2>5, PlainNeeds
  <2> QED
    BY <2>2, <2>6, D3D12Performs
<1>3. CASE D3D12!CmdCopyTextureToBuffer(cmd)
  <2>1. D3D12!Perform(cmd, ReadNeeds(cmd)) /\ cmd.id = "CopyTextureToBuffer"
    BY <1>3, D3D12Needs, Zenon DEF D3D12!CmdCopyTextureToBuffer, ReadNeeds
  <2>2. ReadNeeds(cmd) \in Seq(Needs)
    BY <2>1, TransferNeeds
  <2> QED
    BY <2>1, <2>2, D3D12Performs
<1>4. CASE D3D12!CmdClearBuffer(cmd)
  <2>1. D3D12!Perform(cmd, <<BufferNeed(cmd.dst, "UnorderedAccess")>>) /\ cmd.id = "ClearBuffer"
    BY <1>4, D3D12Needs, Zenon DEF D3D12!CmdClearBuffer
  <2>2. <<BufferNeed(cmd.dst, "UnorderedAccess")>> \in Seq(Needs)
    BY <2>1, TransferNeeds
  <2> QED
    BY <2>1, <2>2, D3D12Performs
<1>5. CASE \/ D3D12!CmdClearTextureFloat(cmd) \/ D3D12!CmdClearTextureUint(cmd)
            \/ D3D12!CmdClearTextureDepthStencil(cmd)
  <2>1. cmd.dst \in Textures /\ cmd.dstRange \in Ranges
    BY <1>5 DEF Typed, TypedTransfer, D3D12!CmdClearTextureFloat, D3D12!CmdClearTextureUint,
                D3D12!CmdClearTextureDepthStencil
  <2>2. {"RenderTarget", "UnorderedAccess", "DepthWrite"} \subseteq States
    BY PlainStates
  <2> DEFINE Kinds == {"RenderTarget", "UnorderedAccess", "DepthStencil"} \X States
  <2>3. PICK states \in Seq(Kinds) : D3D12!ClearThrough(cmd, states)
    <3>1. /\ <<"RenderTarget", "RenderTarget">> \in Kinds /\ <<"UnorderedAccess", "UnorderedAccess">> \in Kinds
          /\ <<"DepthStencil", "DepthWrite">> \in Kinds
      BY <2>2
    <3> HIDE DEF Kinds
    <3>2. /\ <<<<"RenderTarget", "RenderTarget">>, <<"UnorderedAccess", "UnorderedAccess">>>> \in Seq(Kinds)
          /\ <<<<"UnorderedAccess", "UnorderedAccess">>>> \in Seq(Kinds)
          /\ <<<<"DepthStencil", "DepthWrite">>>> \in Seq(Kinds)
      BY <3>1
    <3> QED
      BY <1>5, <3>2, Zenon DEF D3D12!CmdClearTextureFloat, D3D12!CmdClearTextureUint, D3D12!CmdClearTextureDepthStencil
  <2> DEFINE usable == {i \in DOMAIN states : states[i][1] \in Usage[cmd.dst]}
             first == D3D12!Min(usable)
             needs == <<Need(cmd.dst, cmd.dstRange, states[first][2])>>
  <2>4. D3D12!Skip \/ (usable # {} /\ D3D12!Perform(cmd, needs))
    BY <2>3, D3D12Needs, Zenon DEF D3D12!ClearThrough
  <2>5. ASSUME usable # {} PROVE needs \in Seq(Needs)
    <3>1. usable \subseteq Nat
      OBVIOUS
    <3>2. first \in usable
      BY <2>5, <3>1, D3D12MinMember
    <3>3. states[first][2] \in States
      BY <3>2
    <3> QED
      BY <2>1, <3>3, PlainNeeds
  <2> HIDE DEF usable, needs
  <2> QED
    BY <2>4, <2>5, D3D12Performs, D3D12SkipTruthful
<1>6. CASE D3D12!CmdUploadTextureData(cmd)
  <2>1. D3D12!Perform(cmd, UploadNeeds(cmd)) /\ cmd.id = "UploadTextureData"
    BY <1>6, D3D12Needs, Zenon DEF D3D12!CmdUploadTextureData, UploadNeeds
  <2>2. UploadNeeds(cmd) \in Seq(Needs)
    BY <2>1, TransferNeeds
  <2> QED
    BY <2>1, <2>2, D3D12Performs
<1>7. CASE D3D12!CmdResolveQuery(cmd)
  <2>1. D3D12!Perform(cmd, <<BufferNeed(cmd.dst, "CopyDestination")>>) /\ cmd.id = "ResolveQuery"
    BY <1>7, D3D12Needs, Zenon DEF D3D12!CmdResolveQuery
  <2>2. <<BufferNeed(cmd.dst, "CopyDestination")>> \in Seq(Needs)
    BY <2>1, TransferNeeds
  <2> QED
    BY <2>1, <2>2, D3D12Performs
<1> QED
  BY <1>1, <1>2, <1>3, <1>4, <1>5, <1>6, <1>7

(* The D3D12 handlers of acceleration structures, micromaps, clusters and  *)
(* conversions keep the tracker truthful.                                  *)
LEMMA D3D12BuildsTruthful ==
    ASSUME Truthful, NEW cmd, Typed(cmd),
           \/ D3D12!CmdBuildAccelerationStructure(cmd) \/ D3D12!CmdBuildMicromap(cmd)
           \/ D3D12!CmdCopyAccelerationStructure(cmd) \/ D3D12!CmdExecuteClusterOperation(cmd)
           \/ D3D12!CmdConvertCooperativeVectorMatrix(cmd) \/ D3D12!Converted(cmd)
    PROVE  Truthful'
<1>1. CASE D3D12!CmdBuildAccelerationStructure(cmd)
  <2>1. /\ cmd.id = "BuildAccelerationStructure"
        /\ D3D12!CommitBarriers(D3D12!Require(tracker, StructureNeeds(cmd)))
    BY <1>1, D3D12Needs, D3D12Lists, Zenon DEF D3D12!CmdBuildAccelerationStructure, StructureNeeds
  <2>2. StructureNeeds(cmd) \in Seq(Needs)
    BY <2>1, BuildNeeds
  <2> QED
    BY <2>1, <2>2, D3D12Commits
<1>2. CASE D3D12!CmdBuildMicromap(cmd)
  <2> DEFINE needs == <<D3D12!BufferNeed(cmd.dst, "MicromapWrite"), D3D12!BufferNeed(cmd.scratchBuffer, "UnorderedAccess")>>
                        \o D3D12!EachNeeds(cmd.inputs, "MicromapBuildInput")
  <2>1. /\ cmd.id = "BuildMicromap"
        /\ D3D12!Perform(cmd, needs) \/ (tracker' = D3D12!Require(tracker, needs) /\ gpu' = gpu)
    BY <1>2, Zenon DEF D3D12!CmdBuildMicromap, D3D12!PostponeBarriers
  <2>2. needs = MicromapNeeds(cmd)
    BY D3D12Needs, D3D12Lists, Zenon DEF MicromapNeeds
  <2>3. MicromapNeeds(cmd) \in Seq(Needs)
    BY <2>1, BuildNeeds
  <2> HIDE DEF needs
  <2> QED
    BY <2>1, <2>2, <2>3, D3D12Performs, D3D12Postpones
<1>3. CASE D3D12!CmdCopyAccelerationStructure(cmd)
  <2>1. D3D12!Perform(cmd, StructureCopyNeeds(cmd)) /\ cmd.id = "CopyAccelerationStructure"
    BY <1>3, D3D12Needs, Zenon DEF D3D12!CmdCopyAccelerationStructure, StructureCopyNeeds
  <2>2. StructureCopyNeeds(cmd) \in Seq(Needs)
    BY <2>1, BuildNeeds
  <2> QED
    BY <2>1, <2>2, D3D12Performs
<1>4. CASE D3D12!CmdExecuteClusterOperation(cmd)
  <2>1. D3D12!Skip \/ (D3D12!Perform(cmd, ClusterNeeds(cmd)) /\ cmd.id = "ExecuteClusterOperation")
    BY <1>4, D3D12Needs, D3D12Lists, Zenon DEF D3D12!CmdExecuteClusterOperation, ClusterNeeds
  <2>2. cmd.id = "ExecuteClusterOperation" => ClusterNeeds(cmd) \in Seq(Needs)
    BY BuildNeeds
  <2> QED
    BY <2>1, <2>2, D3D12Performs, D3D12SkipTruthful
<1>5. CASE D3D12!CmdConvertCooperativeVectorMatrix(cmd)
  <2>1. D3D12!Skip \/ (D3D12!Perform(cmd, ConversionNeeds(cmd)) /\ cmd.id = "ConvertCooperativeVectorMatrix")
    BY <1>5, D3D12Needs, Zenon DEF D3D12!CmdConvertCooperativeVectorMatrix, ConversionNeeds
  <2>2. cmd.id = "ConvertCooperativeVectorMatrix" => ConversionNeeds(cmd) \in Seq(Needs)
    BY BuildNeeds
  <2> QED
    BY <2>1, <2>2, D3D12Performs, D3D12SkipTruthful
<1>6. CASE D3D12!Converted(cmd)
  <2>1. D3D12!Skip \/ (D3D12!Perform(cmd, <<BufferNeed(cmd.dst, "ShaderResource")>>) /\ cmd.id = "Converted")
    BY <1>6, D3D12Needs, Zenon DEF D3D12!Converted
  <2>2. cmd.id = "Converted" => <<BufferNeed(cmd.dst, "ShaderResource")>> \in Seq(Needs)
    BY BuildNeeds
  <2> QED
    BY <2>1, <2>2, D3D12Performs, D3D12SkipTruthful
<1> QED
  BY <1>1, <1>2, <1>3, <1>4, <1>5, <1>6

(* The D3D12 handlers of explicit states, timestamps, global barriers and  *)
(* callbacks keep the tracker truthful.                                    *)
LEMMA D3D12OthersTruthful ==
    ASSUME Truthful, NEW cmd, Typed(cmd),
           \/ D3D12!CmdSetState(cmd) \/ D3D12!CmdWriteTimestamp(cmd) \/ D3D12!CmdGlobalBarrier(cmd)
           \/ D3D12!CmdExecuteCallback(cmd)
    PROVE  Truthful'
<1>1. CASE D3D12!CmdSetState(cmd)
  <2> DEFINE need == Need(cmd.dst, cmd.dstRange, cmd.state)
  <2>1. tracker' = RequireState(tracker, need) /\ gpu' = gpu
    BY <1>1, D3D12Needs, D3D12RequireState DEF D3D12!CmdSetState, D3D12!PostponeBarriers
  <2>2. need \in Needs
    <3>1. TypedPass(cmd) /\ cmd.id \in {"SetBufferState", "SetTextureState"}
      BY <1>1 DEF Typed, D3D12!CmdSetState
    <3>2. cmd.dst \in Resources /\ cmd.dstRange \in Ranges /\ cmd.state \in StatesOf(cmd.dst)
      BY <3>1, PlainStates, StatesTyped DEF TypedPass
    <3> QED
      BY <3>2, NeedTyped
  <2>3. IsTracker(RequireState(tracker, need)) /\ Follows(tracker, RequireState(tracker, need))
    BY <2>2, RequireStep DEF Truthful
  <2> QED
    BY <2>1, <2>3, Postponed
<1>2. CASE D3D12!CmdWriteTimestamp(cmd)
  <2>1. UNCHANGED <<tracker, gpu>>
    BY <1>2 DEF D3D12!CmdWriteTimestamp, D3D12!recorder
  <2> QED
    BY <2>1, Untouched
<1>3. CASE D3D12!CmdGlobalBarrier(cmd)
  BY <1>3, D3D12SkipTruthful DEF D3D12!CmdGlobalBarrier
<1>4. CASE D3D12!CmdExecuteCallback(cmd)
  <2>1. D3D12!CommitBarriers(tracker)
    BY <1>4 DEF D3D12!CmdExecuteCallback
  <2>2. IsTracker(tracker) /\ Follows(tracker, tracker)
    BY FollowsSame DEF Truthful
  <2> QED
    BY <2>1, <2>2, D3D12Settles
<1> QED
  BY <1>1, <1>2, <1>3, <1>4


-----------------------------------------------------------------------------
(* The targets of a pass.                                                  *)
(* A colour target.                                                        *)
Targets == [view : Views, resolve : OptionalViews]
ResolvedTargets == {c \in Targets : c.resolve.res # None}

(* A view of a target gives requirements of its texture.                   *)
LEMMA ViewsTyped ==
    /\ \A v \in Views : \A s \in States : ViewNeed(v, s) \in Needs /\ Need(v.res, v.range, s) \in Needs
    /\ \A v \in OptionalViews : v.res # None => v \in Views
<1>1. \A v \in Views : v.res \in Textures /\ v.range \in Ranges
  BY DEF Views
<1>2. \A v \in OptionalViews : v.res # None => v \in Views
  BY DEF OptionalViews, Views, Maybe
<1> QED
  BY <1>1, <1>2, PlainNeeds DEF ViewNeed

(* The targets of a pass are views of textures, its depth target and       *)
(* resolve targets may be absent.                                          *)
LEMMA DescTyped ==
    ASSUME NEW desc \in RenderTargets
    PROVE  /\ desc.colors \in Seq(Targets) /\ desc.depth.view \in OptionalViews
           /\ \A i \in DOMAIN desc.colors : desc.colors[i] \in Targets /\ desc.colors[i].view \in Views
                                            /\ desc.colors[i].resolve \in OptionalViews
           /\ DOMAIN desc.colors = 1..Len(desc.colors) /\ Len(desc.colors) \in Nat
<1>1. desc.colors \in Seq(Targets) /\ desc.depth.view \in OptionalViews
  BY DEF RenderTargets, Targets
<1>2. \A i \in DOMAIN desc.colors : desc.colors[i] \in Targets
  BY <1>1
<1>3. \A c \in Targets : c.view \in Views /\ c.resolve \in OptionalViews
  BY DEF Targets
<1> QED
  BY <1>1, <1>2, <1>3

(* What is required of a depth target is a requirement.                    *)
LEMMA DepthNeeds ==
    ASSUME NEW desc \in RenderTargets, desc.depth.view.res # None
    PROVE  ViewNeed(desc.depth.view, IF desc.depth.readOnly THEN "DepthRead" ELSE "DepthWrite") \in Needs
<1>1. desc.depth.view \in Views
  BY DescTyped, ViewsTyped
<1>2. (IF desc.depth.readOnly THEN "DepthRead" ELSE "DepthWrite") \in States
  BY PlainStates
<1> QED
  BY <1>1, <1>2, ViewsTyped

(* Lists made for each of the numbers up to n, joined, are a list.         *)
LEMMA EachTypedAt ==
    ASSUME NEW X, NEW n \in Nat, NEW f, DOMAIN f = 1..n, \A i \in 1..n : f[i] \in Seq(X),
           f = [i \in 1..n |-> f[i]]
    PROVE  FlattenSeq(f) \in Seq(X)
<1>1. f \in [1..n -> Seq(X)]
  OBVIOUS
<1>2. f \in Seq(Seq(X))
  BY <1>1
<1> QED
  BY <1>2, FlattenTyped

(* What is required of the targets of a pass is a list of requirements.    *)
LEMMA TargetNeedsTyped ==
    ASSUME NEW desc \in RenderTargets
    PROVE  TargetNeeds(desc) \in Seq(Needs)
<1> DEFINE colors == [i \in DOMAIN desc.colors |-> ViewNeed(desc.colors[i].view, "RenderTarget")]
           depth == IF desc.depth.view.res = None THEN <<>>
                    ELSE <<ViewNeed(desc.depth.view, IF desc.depth.readOnly THEN "DepthRead" ELSE "DepthWrite")>>
<1>1. colors \in Seq(Needs)
  <2>1. "RenderTarget" \in States
    BY PlainStates
  <2>2. \A i \in DOMAIN desc.colors : ViewNeed(desc.colors[i].view, "RenderTarget") \in Needs
    BY <2>1, DescTyped, ViewsTyped
  <2>3. colors \in [1..Len(desc.colors) -> Needs] /\ Len(desc.colors) \in Nat
    BY <2>2, DescTyped
  <2> HIDE DEF colors
  <2> QED
    BY <2>3
<1>2. depth \in Seq(Needs)
  <2>1. CASE desc.depth.view.res = None
    BY <2>1
  <2>2. CASE desc.depth.view.res # None
    BY <2>2, DepthNeeds
  <2> QED
    BY <2>1, <2>2
<1> HIDE DEF colors, depth
<1>3. colors \o depth \in Seq(Needs)
  BY <1>1, <1>2
<1> QED
  BY <1>3, Zenon DEF TargetNeeds, colors, depth

(* The colour targets that a pass resolves are targets with a resolve      *)
(* target.                                                                 *)
LEMMA ResolvedColorsTyped ==
    ASSUME NEW desc \in RenderTargets
    PROVE  ResolvedColors(desc) \in Seq(ResolvedTargets)
<1> DEFINE f == [i \in DOMAIN desc.colors |->
                   IF desc.colors[i].resolve.res = None THEN <<>> ELSE <<desc.colors[i]>>]
           n == Len(desc.colors)
<1>1. n \in Nat /\ DOMAIN desc.colors = 1..n /\ \A i \in 1..n : desc.colors[i] \in Targets
  BY DescTyped
<1>2. ASSUME NEW i \in 1..n PROVE f[i] \in Seq(ResolvedTargets)
  <2>1. CASE desc.colors[i].resolve.res = None
    BY <1>1, <2>1
  <2>2. CASE desc.colors[i].resolve.res # None
    <3>1. desc.colors[i] \in ResolvedTargets
      BY <1>1, <2>2 DEF ResolvedTargets
    <3> QED
      BY <1>1, <2>2, <3>1
  <2> QED
    BY <2>1, <2>2
<1>3. DOMAIN f = 1..n /\ f = [i \in 1..n |-> f[i]]
  BY <1>1
<1> HIDE DEF f, n
<1>4. FlattenSeq(f) \in Seq(ResolvedTargets)
  BY <1>1, <1>2, <1>3, EachTypedAt
<1> QED
  BY <1>4, Zenon DEF ResolvedColors, f

(* What the bindings of a root object require is a list of requirements.   *)
LEMMA RootNeeds == \A root \in Roots : Bindings[root] \in Seq(Needs)
  BY CommandEncoderAssumption DEF Roots

(* What an indirect dispatch requires of its arguments is a requirement.   *)
LEMMA ArgumentNeeds ==
    ASSUME NEW cmd, Typed(cmd), cmd.id = "DispatchComputeIndirect"
    PROVE  <<BufferNeed(cmd.argBuffer, "IndirectArgument")>> \in Seq(Needs)
<1>1. cmd.argBuffer \in PlainBuffers
  BY DEF Typed, TypedPass
<1>2. "IndirectArgument" \in States
  BY PlainStates
<1> QED
  BY <1>1, <1>2, PlainNeeds

-----------------------------------------------------------------------------
(* Vulkan.                                                                 *)

(* What Vulkan requires of the attachments of a pass is a list of          *)
(* requirements.                                                           *)
LEMMA VulkanAttachmentNeedsTyped ==
    ASSUME NEW desc \in RenderTargets
    PROVE  Vulkan!AttachmentNeeds(desc) \in Seq(Needs)
<1> DEFINE ofColor(a) == <<Vulkan!Need(a.view.res, a.view.range, "RenderTarget")>>
                           \o (IF a.resolve.res = None THEN <<>>
                               ELSE <<Vulkan!Need(a.resolve.res, a.resolve.range, "ResolveDestination")>>)
           f == [i \in DOMAIN desc.colors |-> ofColor(desc.colors[i])]
           n == Len(desc.colors)
           depth == IF desc.depth.view.res = None THEN <<>>
                    ELSE <<Vulkan!Need(desc.depth.view.res, desc.depth.view.range,
                                       IF desc.depth.readOnly THEN "DepthRead" ELSE "DepthWrite")>>
<1>1. ASSUME NEW a \in Targets PROVE ofColor(a) \in Seq(Needs)
  <2>1. a.view \in Views /\ a.resolve \in OptionalViews /\ "RenderTarget" \in States /\ "ResolveDestination" \in States
    BY PlainStates DEF Targets
  <2>2. <<Vulkan!Need(a.view.res, a.view.range, "RenderTarget")>> \in Seq(Needs)
    BY <2>1, ViewsTyped, VulkanNeeds
  <2>3. (IF a.resolve.res = None THEN <<>>
         ELSE <<Vulkan!Need(a.resolve.res, a.resolve.range, "ResolveDestination")>>) \in Seq(Needs)
    <3>1. CASE a.resolve.res = None
      BY <3>1
    <3>2. CASE a.resolve.res # None
      <4>1. Vulkan!Need(a.resolve.res, a.resolve.range, "ResolveDestination") \in Needs
        BY <2>1, <3>2, ViewsTyped, VulkanNeeds
      <4> QED
        BY <3>2, <4>1
    <3> QED
      BY <3>1, <3>2
  <2> QED
    BY <2>2, <2>3, Joined, Zenon
<1> HIDE DEF ofColor
<1>2. n \in Nat /\ DOMAIN desc.colors = 1..n /\ \A i \in 1..n : desc.colors[i] \in Targets
  BY DescTyped
<1>3. DOMAIN f = 1..n /\ (\A i \in 1..n : f[i] \in Seq(Needs)) /\ f = [i \in 1..n |-> f[i]]
  BY <1>1, <1>2
<1>4. FlattenSeq(f) \in Seq(Needs)
  <2> HIDE DEF f, n
  <2> QED
    BY <1>2, <1>3, EachTypedAt
<1>5. depth \in Seq(Needs)
  <2>1. CASE desc.depth.view.res = None
    BY <2>1
  <2>2. CASE desc.depth.view.res # None
    BY <2>2, DepthNeeds, VulkanNeeds DEF ViewNeed
  <2> QED
    BY <2>1, <2>2
<1>6. Vulkan!AttachmentNeeds(desc) = FlattenSeq(f) \o depth
  BY VulkanFlatten, Zenon DEF Vulkan!AttachmentNeeds, ofColor
<1> HIDE DEF f, n, depth
<1> QED
  BY <1>4, <1>5, <1>6, Joined, Zenon

(* Every command of the list is well formed.                               *)
TypedList == list \in Seq(Range(list)) /\ \A i \in 1..Len(list) : Typed(list[i])
(* The end of a render pass is in the list.                                *)
Ends == \E i \in 1..Len(list) : list[i].id = "EndRenderPass"

(* The Vulkan recorder, which looks ahead in the list for the end of the   *)
(* pass it begins, finds it.                                               *)
LEMMA EndThere ==
    ASSUME TypedList, Ends
    PROVE  Vulkan!EndOfPass \in 1..Len(list)
<1> DEFINE S == {i \in 1..Len(list) : list[i].id = "EndRenderPass"}
<1>1. S # {} /\ S \subseteq Nat
  BY DEF Ends
<1>2. PICK x \in S : \A y \in S : ~(<<y, x>> \in OpToRel(<, Nat))
  BY <1>1, NatLessThanWellFounded, WFMin
<1>3. DOMAIN list = 1..Len(list) /\ Len(list) \in Nat
  BY DEF TypedList
<1>4. x \in DOMAIN list /\ list[x].id = "EndRenderPass"
  BY <1>3
<1>5. ASSUME NEW j \in 1..(x - 1) PROVE list[j].id # "EndRenderPass"
  <2>1. SUFFICES ASSUME list[j].id = "EndRenderPass" PROVE FALSE
    OBVIOUS
  <2>2. j \in S /\ j < x /\ j \in Nat /\ x \in Nat
    BY <1>3, <2>1
  <2>3. <<j, x>> \in OpToRel(<, Nat)
    BY <2>2 DEF OpToRel
  <2> QED
    BY <1>2, <2>2, <2>3
<1> HIDE DEF S
<1>6. Vulkan!EndOfPass \in DOMAIN list
  BY <1>4, <1>5, Zenon DEF Vulkan!EndOfPass
<1> QED
  BY <1>3, <1>6

(* What Vulkan collects from the commands of the pass it begins is a list  *)
(* of requirements.                                                        *)
LEMMA NeedsAheadTyped ==
    ASSUME TypedList, Ends
    PROVE  Vulkan!NeedsAhead \in Seq(Needs)
<1> DEFINE n == Vulkan!EndOfPass
           ahead(i) == Vulkan!PreparedNeeds(prepared \/ (\E j \in Vulkan!StatesAhead : j < i), list[i])
           f == [i \in 1..n |-> IF i \notin Vulkan!StatesAhead THEN <<>> ELSE ahead(i)]
<1>1. n \in 1..Len(list) /\ n \in Nat /\ Len(list) \in Nat
  BY EndThere DEF TypedList
<1>2. ASSUME NEW w, NEW cmd, Typed(cmd), cmd.id = "SetRenderState"
      PROVE  Vulkan!PreparedNeeds(w, cmd) \in Seq(Needs)
  <2> DEFINE vb == IF w /\ cmd.vb = renderState.vb THEN None ELSE cmd.vb
             ib == IF w /\ cmd.ib = renderState.ib THEN None ELSE cmd.ib
  <2>1. cmd.root \in Roots /\ cmd.vb \in OptionalBuffers /\ cmd.ib \in OptionalBuffers
    BY <1>2 DEF Typed, TypedPass
  <2>2. vb \in OptionalBuffers /\ ib \in OptionalBuffers
    BY <2>1 DEF OptionalBuffers, Maybe
  <2>3. Vulkan!PreparedNeeds(w, cmd) = Bindings[cmd.root] \o Vulkan!GeometryNeeds(vb, ib)
    BY Zenon DEF Vulkan!PreparedNeeds
  <2> HIDE DEF vb, ib
  <2>4. GeometryNeeds(vb, ib) \in Seq(Needs)
    BY <2>2, GeometryTyped
  <2>5. Bindings[cmd.root] \in Seq(Needs)
    BY <2>1, RootNeeds
  <2> QED
    BY <2>3, <2>4, <2>5, VulkanLists, Joined, Zenon
<1>3. ASSUME NEW i \in 1..n PROVE f[i] \in Seq(Needs)
  <2>1. CASE i \notin Vulkan!StatesAhead
    BY <2>1
  <2>2. CASE i \in Vulkan!StatesAhead
    <3>1. Typed(list[i]) /\ list[i].id = "SetRenderState"
      BY <1>1, <2>2 DEF TypedList, Vulkan!StatesAhead
    <3>2. ahead(i) \in Seq(Needs)
      BY <1>2, <3>1
    <3> HIDE DEF ahead
    <3> QED
      BY <2>2, <3>2
  <2> QED
    BY <2>1, <2>2
<1>4. DOMAIN f = 1..n /\ f = [i \in 1..n |-> f[i]]
  OBVIOUS
<1>5. Vulkan!NeedsAhead = FlattenSeq(f)
  BY VulkanFlatten, Zenon DEF Vulkan!NeedsAhead
<1> HIDE DEF f, n
<1> QED
  BY <1>1, <1>3, <1>4, <1>5, EachTypedAt

(* The Vulkan handlers of draws, dispatches and ray launches keep the      *)
(* tracker truthful.                                                       *)
LEMMA VulkanLaunchesTruthful ==
    ASSUME Truthful, NEW cmd, Typed(cmd),
           \/ Vulkan!CmdDraw(cmd) \/ Vulkan!CmdDrawIndexed(cmd) \/ Vulkan!CmdDrawIndirect(cmd)
           \/ Vulkan!CmdDrawIndexedIndirect(cmd) \/ Vulkan!CmdDrawMeshTasks(cmd)
           \/ Vulkan!CmdDispatchCompute(cmd) \/ Vulkan!CmdDispatchComputeIndirect(cmd) \/ Vulkan!CmdDispatchRays(cmd)
    PROVE  Truthful'
<1>1. ASSUME Vulkan!Dropped(cmd) PROVE Truthful'
  <2>1. UNCHANGED <<tracker, gpu>>
    BY <1>1 DEF Vulkan!Dropped, Vulkan!recorder
  <2> QED
    BY <2>1, Untouched
<1>2. ASSUME cmd.id \in {"DrawIndirect", "DrawIndexedIndirect"} PROVE Vulkan!IndirectNeeds(cmd) \in Seq(Needs)
  <2>1. cmd.argBuffer \in PlainBuffers /\ cmd.countBuffer \in OptionalBuffers
    BY <1>2 DEF Typed, TypedPass
  <2> QED
    BY <2>1, IndirectTyped, VulkanLists
<1>3. ASSUME NEW b, NEW needs \in Seq(Needs), NEW touched, Vulkan!LaunchOrDrop(cmd, b, needs, touched)
      PROVE  Truthful'
  <2>1. Vulkan!Dropped(cmd) \/ Vulkan!CommitBarriers(Vulkan!Require(tracker, needs))
    BY <1>3 DEF Vulkan!LaunchOrDrop, Vulkan!Launch
  <2> QED
    BY <1>1, <2>1, VulkanCommits
<1>4. <<>> \in Seq(Needs)
  OBVIOUS
<1>5. CASE Vulkan!CmdDraw(cmd) \/ Vulkan!CmdDrawIndexed(cmd) \/ Vulkan!CmdDrawMeshTasks(cmd) \/ Vulkan!CmdDispatchCompute(cmd)
  <2>1. \E b, touched : Vulkan!LaunchOrDrop(cmd, b, <<>>, touched)
    BY <1>5, Zenon DEF Vulkan!CmdDraw, Vulkan!CmdDrawIndexed, Vulkan!CmdDrawMeshTasks, Vulkan!CmdDispatchCompute
  <2> QED
    BY <1>3, <1>4, <2>1, Zenon
<1>6. CASE Vulkan!CmdDrawIndirect(cmd) \/ Vulkan!CmdDrawIndexedIndirect(cmd)
  <2>1. /\ cmd.id \in {"DrawIndirect", "DrawIndexedIndirect"}
        /\ \E b, touched : Vulkan!LaunchOrDrop(cmd, b, Vulkan!IndirectNeeds(cmd), touched)
    BY <1>6, Zenon DEF Vulkan!CmdDrawIndirect, Vulkan!CmdDrawIndexedIndirect
  <2> QED
    BY <1>2, <1>3, <2>1, Zenon
<1>7. CASE Vulkan!CmdDispatchComputeIndirect(cmd)
  <2>1. /\ cmd.id = "DispatchComputeIndirect"
        /\ \E b, touched : Vulkan!LaunchOrDrop(cmd, b, <<BufferNeed(cmd.argBuffer, "IndirectArgument")>>, touched)
    BY <1>7, VulkanNeeds, Zenon DEF Vulkan!CmdDispatchComputeIndirect
  <2>2. <<BufferNeed(cmd.argBuffer, "IndirectArgument")>> \in Seq(Needs)
    BY <2>1, ArgumentNeeds
  <2> QED
    BY <1>3, <2>1, <2>2, Zenon
<1>8. CASE Vulkan!CmdDispatchRays(cmd)
  <2>1. Vulkan!Skip \/ \E b, touched : Vulkan!LaunchOrDrop(cmd, b, <<>>, touched)
    BY <1>8, Zenon DEF Vulkan!CmdDispatchRays
  <2> QED
    BY <1>3, <1>4, <2>1, VulkanSkipTruthful, Zenon
<1> QED
  BY <1>5, <1>6, <1>7, <1>8

(* The Vulkan handlers that begin and end passes and set their state keep  *)
(* the tracker truthful.                                                   *)
LEMMA VulkanPassesTruthful ==
    ASSUME Truthful, NEW cmd, Typed(cmd), TypedList, cmd.id = "BeginRenderPass" => Ends,
           \/ Vulkan!CmdBeginRenderPass(cmd) \/ Vulkan!CmdEndRenderPass(cmd) \/ Vulkan!CmdSetRenderState(cmd)
           \/ Vulkan!CmdPass(cmd) \/ Vulkan!CmdSetComputeState(cmd) \/ Vulkan!CmdSetRayTracingState(cmd)
    PROVE  Truthful'
<1>1. CASE Vulkan!CmdBeginRenderPass(cmd)
  <2> DEFINE needs == Vulkan!NeedsAhead \o Vulkan!AttachmentNeeds(cmd.desc)
  <2>1. Vulkan!CommitBarriers(Vulkan!Require(tracker, needs)) /\ cmd.id = "BeginRenderPass"
    BY <1>1, Zenon DEF Vulkan!CmdBeginRenderPass
  <2>2. cmd.desc \in RenderTargets
    BY <2>1 DEF Typed, TypedPass
  <2>3. Vulkan!AttachmentNeeds(cmd.desc) \in Seq(Needs) /\ Vulkan!NeedsAhead \in Seq(Needs)
    BY <2>1, <2>2, VulkanAttachmentNeedsTyped, NeedsAheadTyped
  <2>4. needs \in Seq(Needs)
    BY <2>3, Joined, Zenon
  <2> HIDE DEF needs
  <2> QED
    BY <2>1, <2>4, VulkanCommits
<1>2. CASE Vulkan!CmdEndRenderPass(cmd) \/ Vulkan!CmdPass(cmd)
  <2>1. UNCHANGED <<tracker, gpu>>
    BY <1>2 DEF Vulkan!CmdEndRenderPass, Vulkan!CmdPass
  <2> QED
    BY <2>1, Untouched
<1>3. CASE Vulkan!CmdSetRenderState(cmd)
  <2>1. Vulkan!Skip \/ UNCHANGED <<tracker, gpu>>
    BY <1>3 DEF Vulkan!CmdSetRenderState
  <2> QED
    BY <2>1, Untouched, VulkanSkipTruthful
<1>4. CASE Vulkan!CmdSetComputeState(cmd)
  <2>1. /\ Vulkan!Skip \/ Vulkan!CommitBarriers(Vulkan!Require(tracker, Bindings[cmd.root]))
        /\ cmd.id = "SetComputeState"
    BY <1>4, Zenon DEF Vulkan!CmdSetComputeState
  <2>2. Bindings[cmd.root] \in Seq(Needs)
    BY <2>1, RootNeeds DEF Typed, TypedPass
  <2> QED
    BY <2>1, <2>2, VulkanSkipTruthful, VulkanCommits
<1>5. CASE Vulkan!CmdSetRayTracingState(cmd)
  <2> DEFINE newTable == Vulkan!NewPipeline("RayTracing", cmd.pipeline) \/ cmd.shaderTable # table
             records == TableBuffer[cmd.shaderTable]
             t == Vulkan!Require(tracker, Bindings[cmd.root])
             u == Vulkan!RequireState(t, Vulkan!BufferNeed(records, "ShaderResource"))
  <2>1. /\ cmd.id = "SetRayTracingState"
        /\ \/ Vulkan!Skip
           \/ Vulkan!Quietly(t)
           \/ ~newTable /\ Vulkan!CommitBarriers(t)
           \/ newTable /\ records # None /\ Vulkan!CommitBarriers(u)
    <3> HIDE DEF newTable, records, t, u
    <3> SUFFICES ASSUME ~Vulkan!Skip, ~Vulkan!Quietly(t)
                 PROVE  /\ cmd.id = "SetRayTracingState"
                        /\ \/ ~newTable /\ Vulkan!CommitBarriers(t)
                           \/ newTable /\ records # None /\ Vulkan!CommitBarriers(u)
      BY <1>5 DEF Vulkan!CmdSetRayTracingState
    <3>1. ~(newTable /\ records = None) /\ Vulkan!CommitBarriers(IF newTable THEN u ELSE t)
      BY <1>5, Zenon DEF Vulkan!CmdSetRayTracingState, newTable, records, t, u
    <3>2. CASE newTable
      BY <1>5, <3>1, <3>2 DEF Vulkan!CmdSetRayTracingState
    <3>3. CASE ~newTable
      BY <1>5, <3>1, <3>3 DEF Vulkan!CmdSetRayTracingState
    <3> QED
      BY <3>2, <3>3
  <2>2. Bindings[cmd.root] \in Seq(Needs) /\ records \in OptionalBuffers
    BY <2>1, RootNeeds DEF Typed, TypedPass
  <2>3. IsTracker(t) /\ Follows(tracker, t)
    BY <2>2, RequireSound, VulkanRequire DEF Truthful
  <2>4. records # None => IsTracker(u) /\ Follows(tracker, u)
    <3> SUFFICES ASSUME records # None PROVE IsTracker(u) /\ Follows(tracker, u)
      OBVIOUS
    <3>1. records \in PlainBuffers /\ "ShaderResource" \in States
      BY <2>2, PlainStates DEF OptionalBuffers, Maybe
    <3>2. Vulkan!BufferNeed(records, "ShaderResource") \in Needs
      BY <3>1, PlainNeeds, VulkanNeeds
    <3> HIDE DEF t, records
    <3>3. IsTracker(u) /\ Follows(t, u)
      BY <2>3, <3>2, RequireStep, VulkanRequireState
    <3> HIDE DEF u
    <3> QED
      BY <2>3, <3>3, FollowsMore DEF Truthful
  <2>5. Vulkan!Quietly(t) => tracker' = t /\ gpu' = gpu
    BY DEF Vulkan!Quietly
  <2> HIDE DEF t, u, records, newTable
  <2> QED
    BY <2>1, <2>3, <2>4, <2>5, VulkanSkipTruthful, VulkanSettles, Postponed
<1> QED
  BY <1>1, <1>2, <1>3, <1>4, <1>5

(* Every handler of the Vulkan recorder (vk-command.cpp) that reads a well *)
(* formed command keeps the tracker truthful: after it the GPU is going to *)
(* be in the states that the tracker believes, counting the barriers it    *)
(* still owes. Of the beginning of a render pass it needs that the end is  *)
(* in the list, since the recorder requires all that the pass uses before  *)
(* it begins.                                                              *)
THEOREM VulkanTruthful ==
    ASSUME Truthful, NEW cmd, Typed(cmd), TypedList, cmd.id = "BeginRenderPass" => Ends, Vulkan!Record(cmd)
    PROVE  Truthful'
  BY VulkanTransfersTruthful, VulkanBuildsTruthful, VulkanOthersTruthful, VulkanPassesTruthful,
     VulkanLaunchesTruthful, Zenon DEF Vulkan!Record

(* When the Vulkan recorder has gone through the list, it brings every     *)
(* resource back to its default state.                                     *)
LEMMA VulkanFinishes == ASSUME Truthful, Vulkan!Finish PROVE Truthful' /\ gpu' = FreshStates
<1> DEFINE t == RequireDefaultStates(tracker)
<1>1. Vulkan!CommitBarriers(t)
  BY VulkanDefaultStates, Zenon DEF Vulkan!Finish
<1>2. IsTracker(t) /\ Follows(tracker, t) /\ Believed(t) = FreshStates
  BY DefaultsSound DEF Truthful
<1> HIDE DEF t
<1> QED
  BY <1>1, <1>2, VulkanSettles


-----------------------------------------------------------------------------
(* D3D12.                                                                  *)

(* What is required of the targets of a pass is the same in the D3D12      *)
(* recorder.                                                               *)
LEMMA D3D12TargetNeeds == ASSUME NEW desc PROVE D3D12!TargetNeeds(desc) = TargetNeeds(desc)
<1>1. [i \in DOMAIN desc.colors |-> D3D12!ViewNeed(desc.colors[i].view, "RenderTarget")]
        = [i \in DOMAIN desc.colors |-> ViewNeed(desc.colors[i].view, "RenderTarget")]
  BY D3D12Needs
<1> QED
  BY <1>1, D3D12Needs, Zenon DEF D3D12!TargetNeeds, TargetNeeds

(* The D3D12 handlers of draws, dispatches and ray launches keep the       *)
(* tracker truthful.                                                       *)
LEMMA D3D12LaunchesTruthful ==
    ASSUME Truthful, NEW cmd, Typed(cmd),
           \/ D3D12!CmdDraw(cmd) \/ D3D12!CmdDrawIndexed(cmd) \/ D3D12!CmdDrawIndirect(cmd)
           \/ D3D12!CmdDrawIndexedIndirect(cmd) \/ D3D12!CmdDrawMeshTasks(cmd)
           \/ D3D12!CmdDispatchCompute(cmd) \/ D3D12!CmdDispatchComputeIndirect(cmd) \/ D3D12!CmdDispatchRays(cmd)
    PROVE  Truthful'
<1>1. ASSUME D3D12!Dropped(cmd) PROVE Truthful'
  <2>1. UNCHANGED <<tracker, gpu>>
    BY <1>1 DEF D3D12!Dropped, D3D12!recorder
  <2> QED
    BY <2>1, Untouched
<1>2. ASSUME cmd.id \in {"DrawIndirect", "DrawIndexedIndirect"} PROVE D3D12!IndirectNeeds(cmd) \in Seq(Needs)
  <2>1. cmd.argBuffer \in PlainBuffers /\ cmd.countBuffer \in OptionalBuffers
    BY <1>2 DEF Typed, TypedPass
  <2> QED
    BY <2>1, IndirectTyped, D3D12Lists
<1>3. ASSUME NEW b, NEW needs, D3D12!LaunchOrDrop(cmd, b, needs)
      PROVE  Truthful'
  <2>1. D3D12!Dropped(cmd) \/ UNCHANGED <<tracker, gpu>>
    BY <1>3 DEF D3D12!LaunchOrDrop
  <2> QED
    BY <1>1, <2>1, Untouched
<1>4. CASE D3D12!CmdDraw(cmd) \/ D3D12!CmdDrawIndexed(cmd) \/ D3D12!CmdDrawMeshTasks(cmd)
            \/ D3D12!CmdDispatchCompute(cmd) \/ D3D12!CmdDispatchRays(cmd)
  <2>1. D3D12!Skip \/ \E b, needs : D3D12!LaunchOrDrop(cmd, b, needs)
    BY <1>4, Zenon DEF D3D12!CmdDraw, D3D12!CmdDrawIndexed, D3D12!CmdDrawMeshTasks,
                       D3D12!CmdDispatchCompute, D3D12!CmdDispatchRays
  <2> QED
    BY <1>3, <2>1, D3D12SkipTruthful, Zenon
<1>5. CASE D3D12!CmdDrawIndirect(cmd) \/ D3D12!CmdDrawIndexedIndirect(cmd)
  <2>1. /\ cmd.id \in {"DrawIndirect", "DrawIndexedIndirect"}
        /\ \/ D3D12!Dropped(cmd)
           \/ tracker' = D3D12!Require(tracker, D3D12!IndirectNeeds(cmd)) /\ gpu' = gpu
    BY <1>5 DEF D3D12!CmdDrawIndirect, D3D12!CmdDrawIndexedIndirect, D3D12!DrawWithArguments,
                D3D12!PostponeBarriers
  <2> QED
    BY <1>1, <1>2, <2>1, D3D12Postpones
<1>6. CASE D3D12!CmdDispatchComputeIndirect(cmd)
  <2> DEFINE needs == <<BufferNeed(cmd.argBuffer, "IndirectArgument")>>
  <2>1. /\ cmd.id = "DispatchComputeIndirect"
        /\ D3D12!Dropped(cmd) \/ D3D12!CommitBarriers(D3D12!Require(tracker, needs))
    BY <1>6, D3D12Needs, Zenon DEF D3D12!CmdDispatchComputeIndirect
  <2>2. needs \in Seq(Needs)
    BY <2>1, ArgumentNeeds
  <2> HIDE DEF needs
  <2> QED
    BY <1>1, <2>1, <2>2, D3D12Commits
<1> QED
  BY <1>4, <1>5, <1>6

(* The targets a pass has yet to resolve.                                  *)
(* What D3D12 remembers of the open pass, to resolve at its end.           *)
TypedResolves == attachments.resolves \in Seq(ResolvedTargets)

(* What D3D12 requires for the resolves at the end of a pass are           *)
(* requirements.                                                           *)
LEMMA ResolveNeedsTyped ==
    ASSUME TypedResolves
    PROVE  /\ D3D12!EachTarget(LAMBDA c : <<D3D12!ViewNeed(c.resolve, "RenderTarget")>>) \in Seq(Needs)
           /\ D3D12!EachTarget(LAMBDA c : <<D3D12!ViewNeed(c.view, "ResolveSource"),
                                            D3D12!ViewNeed(c.resolve, "ResolveDestination")>>) \in Seq(Needs)
<1> DEFINE rs == attachments.resolves
           n == Len(rs)
           f == [i \in DOMAIN rs |-> <<D3D12!ViewNeed(rs[i].resolve, "RenderTarget")>>]
           g == [i \in DOMAIN rs |-> <<D3D12!ViewNeed(rs[i].view, "ResolveSource"),
                                       D3D12!ViewNeed(rs[i].resolve, "ResolveDestination")>>]
<1>1. n \in Nat /\ DOMAIN rs = 1..n /\ \A i \in 1..n : rs[i] \in ResolvedTargets
  BY DEF TypedResolves
<1>2. \A c \in ResolvedTargets : c.view \in Views /\ c.resolve \in Views
  BY ViewsTyped DEF ResolvedTargets, Targets
<1>3. {"RenderTarget", "ResolveSource", "ResolveDestination"} \subseteq States
  BY PlainStates
<1>4. \A i \in 1..n : /\ D3D12!ViewNeed(rs[i].resolve, "RenderTarget") \in Needs
                      /\ D3D12!ViewNeed(rs[i].view, "ResolveSource") \in Needs
                      /\ D3D12!ViewNeed(rs[i].resolve, "ResolveDestination") \in Needs
  BY <1>1, <1>2, <1>3, ViewsTyped, D3D12Needs
<1>5. DOMAIN f = 1..n /\ (\A i \in 1..n : f[i] \in Seq(Needs)) /\ f = [i \in 1..n |-> f[i]]
  BY <1>1, <1>4
<1>6. DOMAIN g = 1..n /\ (\A i \in 1..n : g[i] \in Seq(Needs)) /\ g = [i \in 1..n |-> g[i]]
  BY <1>1, <1>4
<1>7. D3D12!FlattenSeq(f) \in Seq(Needs) /\ D3D12!FlattenSeq(g) \in Seq(Needs)
  <2> HIDE DEF f, g, n
  <2> QED
    BY <1>1, <1>5, <1>6, EachTypedAt, D3D12Flatten
<1> QED
  BY <1>7, Zenon DEF D3D12!EachTarget

(* The D3D12 handlers that begin and end passes and set their state keep   *)
(* the tracker truthful.                                                   *)
LEMMA D3D12PassesTruthful ==
    ASSUME Truthful, NEW cmd, Typed(cmd), TypedResolves,
           \/ D3D12!CmdBeginRenderPass(cmd) \/ D3D12!CmdEndRenderPass(cmd) \/ D3D12!Resolve(cmd)
           \/ D3D12!CmdSetRenderState(cmd) \/ D3D12!CmdPass(cmd) \/ D3D12!CmdSetComputeState(cmd)
           \/ D3D12!CmdSetRayTracingState(cmd)
    PROVE  Truthful'
<1>1. CASE D3D12!CmdBeginRenderPass(cmd)
  <2>1. /\ D3D12!CommitBarriers(D3D12!Require(tracker, D3D12!TargetNeeds(cmd.desc)))
        /\ cmd.id = "BeginRenderPass"
    BY <1>1, Zenon DEF D3D12!CmdBeginRenderPass
  <2>2. D3D12!TargetNeeds(cmd.desc) \in Seq(Needs)
    BY <2>1, TargetNeedsTyped, D3D12TargetNeeds DEF Typed, TypedPass
  <2> QED
    BY <2>1, <2>2, D3D12Commits
<1>2. CASE D3D12!CmdEndRenderPass(cmd)
  <2>1. \/ UNCHANGED <<tracker, gpu>>
        \/ D3D12!Perform(cmd, D3D12!EachTarget(LAMBDA c : <<D3D12!ViewNeed(c.resolve, "RenderTarget")>>))
    BY <1>2, Zenon DEF D3D12!CmdEndRenderPass
  <2> QED
    BY <2>1, ResolveNeedsTyped, D3D12Performs, Untouched
<1>3. CASE D3D12!Resolve(cmd)
  <2>1. D3D12!CommitBarriers(D3D12!Require(tracker,
          D3D12!EachTarget(LAMBDA c : <<D3D12!ViewNeed(c.view, "ResolveSource"),
                                        D3D12!ViewNeed(c.resolve, "ResolveDestination")>>)))
    BY <1>3, Zenon DEF D3D12!Resolve
  <2> QED
    BY <2>1, ResolveNeedsTyped, D3D12Commits
<1>4. CASE D3D12!CmdSetRenderState(cmd)
  <2> DEFINE stale == "Render" \notin valid
             vb == IF stale \/ cmd.vb # renderState.vb THEN cmd.vb ELSE None
             ib == IF stale \/ cmd.ib # renderState.ib THEN cmd.ib ELSE None
             needs == Bindings[cmd.root] \o D3D12!GeometryNeeds(vb, ib)
  <2>1. /\ cmd.id = "SetRenderState"
        /\ D3D12!Skip \/ D3D12!CommitBarriers(D3D12!Require(tracker, needs))
    BY <1>4, Zenon DEF D3D12!CmdSetRenderState
  <2>2. cmd.root \in Roots /\ cmd.vb \in OptionalBuffers /\ cmd.ib \in OptionalBuffers
    BY <2>1 DEF Typed, TypedPass
  <2>3. vb \in OptionalBuffers /\ ib \in OptionalBuffers
    BY <2>2 DEF OptionalBuffers, Maybe
  <2> HIDE DEF vb, ib
  <2>4. D3D12!GeometryNeeds(vb, ib) \in Seq(Needs) /\ Bindings[cmd.root] \in Seq(Needs)
    BY <2>2, <2>3, GeometryTyped, D3D12Lists, RootNeeds
  <2>5. needs \in Seq(Needs)
    BY <2>4, Joined, Zenon
  <2> HIDE DEF needs
  <2> QED
    BY <2>1, <2>5, D3D12SkipTruthful, D3D12Commits
<1>5. CASE D3D12!CmdPass(cmd)
  <2>1. UNCHANGED <<tracker, gpu>>
    BY <1>5 DEF D3D12!CmdPass
  <2> QED
    BY <2>1, Untouched
<1>6. CASE D3D12!CmdSetComputeState(cmd)
  <2>1. /\ D3D12!Skip \/ D3D12!CommitBarriers(D3D12!Require(tracker, Bindings[cmd.root]))
        /\ cmd.id = "SetComputeState"
    BY <1>6, Zenon DEF D3D12!CmdSetComputeState
  <2>2. Bindings[cmd.root] \in Seq(Needs)
    BY <2>1, RootNeeds DEF Typed, TypedPass
  <2> QED
    BY <2>1, <2>2, D3D12SkipTruthful, D3D12Commits
<1>7. CASE D3D12!CmdSetRayTracingState(cmd)
  <2> DEFINE newTable == D3D12!NewPipeline("RayTracing", cmd.pipeline) \/ cmd.shaderTable # table
             records == TableBuffer[cmd.shaderTable]
             more == IF newTable THEN D3D12!OptionalNeed(records, "ShaderResource") ELSE <<>>
             needs == Bindings[cmd.root] \o more
  <2>1. /\ cmd.id = "SetRayTracingState"
        /\ D3D12!Skip \/ D3D12!CommitBarriers(D3D12!Require(tracker, needs))
    BY <1>7, Zenon DEF D3D12!CmdSetRayTracingState
  <2>2. Bindings[cmd.root] \in Seq(Needs) /\ records \in OptionalBuffers
    BY <2>1, RootNeeds DEF Typed, TypedPass
  <2>3. D3D12!OptionalNeed(records, "ShaderResource") \in Seq(Needs)
    BY <2>2, OptionalNeeds, PlainStates, D3D12Lists
  <2> HIDE DEF newTable, records
  <2>4. more \in Seq(Needs)
    BY <2>3
  <2> HIDE DEF more
  <2>5. needs \in Seq(Needs)
    BY <2>2, <2>4, Joined, Zenon
  <2> HIDE DEF needs
  <2> QED
    BY <2>1, <2>5, D3D12SkipTruthful, D3D12Commits
<1> QED
  BY <1>1, <1>2, <1>3, <1>4, <1>5, <1>6, <1>7

(* Every handler of the D3D12 recorder (d3d12-command.cpp) that reads a    *)
(* well formed command keeps the tracker truthful: after it the GPU is     *)
(* going to be in the states that the tracker believes, counting the       *)
(* barriers it still owes. Of the end of a pass it needs that the targets  *)
(* remembered to resolve are targets.                                      *)
THEOREM D3D12Truthful ==
    ASSUME Truthful, NEW cmd, Typed(cmd), TypedResolves, D3D12!Record(cmd)
    PROVE  Truthful'
  BY D3D12TransfersTruthful, D3D12BuildsTruthful, D3D12OthersTruthful, D3D12PassesTruthful,
     D3D12LaunchesTruthful, Zenon DEF D3D12!Record

(* When the D3D12 recorder has gone through the list, it brings every      *)
(* resource back to its default state.                                     *)
LEMMA D3D12Finishes == ASSUME Truthful, D3D12!Finish PROVE Truthful' /\ gpu' = FreshStates
<1> DEFINE t == RequireDefaultStates(tracker)
<1>1. D3D12!CommitBarriers(t)
  BY D3D12DefaultStates, Zenon DEF D3D12!Finish
<1>2. IsTracker(t) /\ Follows(tracker, t) /\ Believed(t) = FreshStates
  BY DefaultsSound DEF Truthful
<1> HIDE DEF t
<1> QED
  BY <1>1, <1>2, D3D12Settles


-----------------------------------------------------------------------------
TypedState ==
    /\ state = [b \in BindPoints |-> state[b]]
    /\ \A b \in BindPoints :
          /\ state[b] = [pipeline |-> state[b].pipeline, root |-> state[b].root, table |-> state[b].table,
                         vb |-> state[b].vb, ib |-> state[b].ib]
          /\ state[b].vb \in OptionalBuffers /\ state[b].ib \in OptionalBuffers
          /\ b \in pipelineBound => /\ state[b].root \in Roots
                                    /\ TableBuffer[state[b].table] \in OptionalBuffers

(* A render pass begins at the head of the list, and its end is there or   *)
(* the client has yet to write it.                                         *)
PassesEnd == \A i \in 1..Len(list) :
    list[i].id = "BeginRenderPass" => i = 1 /\ (passState = "Render" \/ Ends)

(* What holds of the encoder: its state and its list are well formed, a    *)
(* pass that is open is the one being written, and nothing is left once    *)
(* the command buffer is closed.                                           *)
Encoding ==
    /\ client \in Clients
    /\ passState \in BindPoints \cup {"NoPass"}
    /\ writing = IF passState = "NoPass" THEN {} ELSE {passState}
    /\ TypedState
    /\ TypedList
    /\ PassesEnd
    /\ finished => passState = "NoPass"
    /\ closed => finished /\ list = <<>>

(* Commands of which no handler relies on anything.                        *)
Unconstrained(id) ==
    id \in {"BeginComputePass", "BeginRayTracingPass", "EndComputePass", "EndRayTracingPass",
            "WriteTimestamp", "Draw", "DrawIndexed", "DrawMeshTasks", "DispatchCompute", "DispatchRays",
            "Resolve"}

(* A command of which no handler relies on anything is well formed.        *)
LEMMA FreeTyped == ASSUME NEW cmd, Unconstrained(cmd.id) PROVE Typed(cmd)
  BY DEF Unconstrained, Typed, TypedTransfer, TypedBuild, TypedPass

(* No call outside passes begins a render pass.                            *)
LEMMA CallsBeginNothing == ASSUME NEW cmd, IsCall(cmd) PROVE cmd.id # "BeginRenderPass"
  BY DEF IsCall, Transfers, Builds, StateChanges

(* A sequence is a sequence of what it holds.                              *)
LEMMA OwnRange == ASSUME NEW X, NEW s \in Seq(X) PROVE s \in Seq(Range(s)) /\ Len(s) \in Nat
<1>1. Len(s) \in Nat /\ s = [i \in 1..Len(s) |-> s[i]] /\ DOMAIN s = 1..Len(s)
  OBVIOUS
<1>2. \A i \in 1..Len(s) : s[i] \in Range(s)
  BY <1>1 DEF Range
<1>3. s \in [1..Len(s) -> Range(s)]
  BY <1>1, <1>2
<1> QED
  BY <1>1, <1>3

(* Well formed commands appended to a well formed list keep it so, after   *)
(* what was there.                                                         *)
LEMMA ListGrows ==
    ASSUME TypedList, NEW X, NEW cmds \in Seq(X), \A i \in 1..Len(cmds) : Typed(cmds[i]),
           list' = list \o cmds
    PROVE  /\ TypedList'
           /\ Len(list) \in Nat /\ Len(cmds) \in Nat /\ Len(list') = Len(list) + Len(cmds)
           /\ \A i \in 1..Len(list) : list'[i] = list[i]
           /\ \A i \in 1..Len(cmds) : list'[Len(list) + i] = cmds[i]
           /\ \A i \in 1..Len(list') : i \in 1..Len(list) \/ \E j \in 1..Len(cmds) : i = Len(list) + j
<1> DEFINE Y == Range(list) \cup X
<1>1. list \in Seq(Y) /\ cmds \in Seq(Y)
  BY DEF TypedList
<1> HIDE DEF Y
<1>2. list' \in Seq(Y) /\ Len(list) \in Nat /\ Len(cmds) \in Nat /\ Len(list') = Len(list) + Len(cmds)
  BY <1>1
<1>3. /\ \A i \in 1..Len(list) : list'[i] = list[i]
      /\ \A i \in 1..Len(cmds) : list'[Len(list) + i] = cmds[i]
  BY <1>1, <1>2
<1>4. ASSUME NEW i \in 1..Len(list')
      PROVE  i \in 1..Len(list) \/ \E j \in 1..Len(cmds) : i = Len(list) + j
  <2>1. CASE i <= Len(list)
    BY <1>2, <2>1
  <2>2. CASE i > Len(list)
    <3>1. i - Len(list) \in 1..Len(cmds) /\ i = Len(list) + (i - Len(list))
      BY <1>2, <2>2
    <3> QED
      BY <3>1
  <2> QED
    BY <1>2, <2>1, <2>2
<1>5. \A i \in 1..Len(list') : Typed(list'[i])
  BY <1>3, <1>4, Zenon DEF TypedList
<1>6. list' \in Seq(Range(list'))
  BY <1>2, OwnRange
<1>7. TypedList'
  BY <1>5, <1>6, Zenon DEF TypedList
<1> QED
  BY <1>2, <1>3, <1>4, <1>7

(* Appending commands that begin no pass leaves every pass in the list     *)
(* ended or still open.                                                    *)
LEMMA ListGrowsInPass ==
    ASSUME TypedList, PassesEnd, NEW X, NEW cmds \in Seq(X),
           \A i \in 1..Len(cmds) : Typed(cmds[i]) /\ cmds[i].id # "BeginRenderPass",
           list' = list \o cmds,
           passState = "Render" =>
              passState' = "Render" \/ \E i \in 1..Len(cmds) : cmds[i].id = "EndRenderPass"
    PROVE  TypedList' /\ PassesEnd'
<1>1. /\ TypedList'
      /\ Len(list) \in Nat /\ Len(cmds) \in Nat /\ Len(list') = Len(list) + Len(cmds)
      /\ \A i \in 1..Len(list) : list'[i] = list[i]
      /\ \A i \in 1..Len(cmds) : list'[Len(list) + i] = cmds[i]
      /\ \A i \in 1..Len(list') : i \in 1..Len(list) \/ \E j \in 1..Len(cmds) : i = Len(list) + j
  BY ListGrows
<1>2. Ends \/ (\E i \in 1..Len(cmds) : cmds[i].id = "EndRenderPass") => Ends'
  <2>1. \A i \in 1..Len(list) : i \in 1..Len(list')
    BY <1>1
  <2>2. \A i \in 1..Len(cmds) : Len(list) + i \in 1..Len(list')
    BY <1>1
  <2> QED
    BY <1>1, <2>1, <2>2, Zenon DEF Ends
<1>3. ASSUME NEW i \in 1..Len(list'), list'[i].id = "BeginRenderPass"
      PROVE  i = 1 /\ (passState' = "Render" \/ Ends')
  <2>1. i \in 1..Len(list) /\ list[i].id = "BeginRenderPass"
    BY <1>1, <1>3, Zenon
  <2> QED
    BY <1>2, <2>1 DEF PassesEnd
<1> QED
  BY <1>1, <1>3 DEF PassesEnd

(* Between calls the commands of the calls made so far wait in the list    *)
(* only while a pass is open or a list is being written.                   *)
LEMMA Quiet == ASSUME Encoding, Calling, RequireNoPass PROVE list = <<>>
  BY DEF Encoding, Calling, RequireNoPass

(* A command call of the encoder keeps the encoding (command-buffer.cpp).  *)
LEMMA CommandsEncode ==
    ASSUME Encoding, NEW cmd \in client.calls, Command(cmd) PROVE Encoding'
<1>1. Typed(cmd) /\ cmd.id # "BeginRenderPass"
  BY CommandEncoderAssumption, CallTyped, CallsBeginNothing DEF Encoding
<1> DEFINE cmds == <<cmd>>
<1>2. cmds \in Seq({cmd}) /\ \A i \in 1..Len(cmds) : Typed(cmds[i]) /\ cmds[i].id # "BeginRenderPass"
  BY <1>1
<1>3. list' = list \o cmds /\ passState' = passState
  BY DEF Command, Write, debugLayer
<1> HIDE DEF cmds
<1>4. TypedList' /\ PassesEnd'
  BY <1>2, <1>3, ListGrowsInPass DEF Encoding
<1>5. UNCHANGED <<client, passState, writing, state, pipelineBound, finished, closed>> /\ ~finished
  BY DEF Command, debugLayer, encoder, CallingCommand, Calling
<1> QED
  BY <1>4, <1>5 DEF Encoding, TypedState

(* Writing a timestamp, in a pass or outside, keeps the encoding.          *)
LEMMA TimestampsEncode ==
    ASSUME Encoding, NEW pool, Timestamp(pool) PROVE Encoding'
<1> DEFINE cmd == WriteTimestamp(pool)
           cmds == <<cmd>>
<1>1. Typed(cmd) /\ cmd.id # "BeginRenderPass"
  BY FreeTyped DEF WriteTimestamp, Unconstrained
<1>2. cmds \in Seq({cmd}) /\ \A i \in 1..Len(cmds) : Typed(cmds[i]) /\ cmds[i].id # "BeginRenderPass"
  BY <1>1
<1>3. list' = list \o cmds /\ passState' = passState
  BY DEF Timestamp, Write, debugLayer
<1> HIDE DEF cmds
<1>4. TypedList' /\ PassesEnd'
  BY <1>2, <1>3, ListGrowsInPass DEF Encoding
<1>5. UNCHANGED <<client, passState, writing, state, pipelineBound, finished, closed>> /\ ~finished
  BY DEF Timestamp, debugLayer, encoder, CallingCommand, Calling
<1> QED
  BY <1>4, <1>5 DEF Encoding, TypedState

(* Beginning a pass writes its beginning and leaves it open.               *)
LEMMA PassesBegin ==
    ASSUME Encoding, NEW b \in BindPoints, NEW cmd, BeginPass(b, cmd), Typed(cmd),
           cmd.id = "BeginRenderPass" => b = "Render"
    PROVE  Encoding'
<1>1. list = <<>> /\ ~finished /\ passState = "NoPass"
  BY Quiet DEF BeginPass, Encoding, Calling, RequireNoPass
<1>2. list' = <<cmd>>
  BY <1>1 DEF BeginPass, Write
<1>3. TypedList'
  <2>1. <<cmd>> \in Seq({cmd})
    OBVIOUS
  <2>2. list' \in Seq(Range(list'))
    BY <1>2, <2>1, OwnRange
  <2>3. \A i \in 1..Len(list') : Typed(list'[i])
    BY <1>2
  <2> QED
    BY <2>2, <2>3 DEF TypedList
<1>4. passState' = b
  BY DEF BeginPass
<1>5. PassesEnd'
  <2>1. ASSUME NEW i \in 1..Len(list'), list'[i].id = "BeginRenderPass"
        PROVE  i = 1 /\ passState' = "Render"
    BY <1>2, <1>4, <2>1
  <2> QED
    BY <2>1 DEF PassesEnd
<1>6. writing' = {b} /\ b # "NoPass"
  BY <1>1 DEF BeginPass, Encoding, BindPoints
<1>7. UNCHANGED <<client, state, finished, closed>> /\ pipelineBound' \subseteq pipelineBound
  BY DEF BeginPass
<1>8. TypedState'
  <2>1. \A c \in BindPoints : c \in pipelineBound' => c \in pipelineBound
    BY <1>7
  <2> QED
    BY <1>7, <2>1 DEF Encoding, TypedState
<1> QED
  BY <1>1, <1>3, <1>4, <1>5, <1>6, <1>7, <1>8 DEF Encoding

(* Each of the three calls that begin a pass keeps the encoding.           *)
LEMMA PassesEncode ==
    ASSUME Encoding,
           (\E desc \in client.targets : BeginRenderPass(desc)) \/ BeginComputePass \/ BeginRayTracingPass
    PROVE  Encoding'
<1>1. CASE \E desc \in client.targets : BeginRenderPass(desc)
  <2>1. PICK desc \in client.targets : BeginRenderPass(desc)
    BY <1>1
  <2> DEFINE cmd == [id |-> "BeginRenderPass", desc |-> desc]
  <2>2. desc \in RenderTargets
    BY <2>1, CommandEncoderAssumption DEF Encoding
  <2>3. Typed(cmd)
    BY <2>2 DEF Typed, TypedTransfer, TypedBuild, TypedPass
  <2>4. BeginPass("Render", cmd)
    BY <2>1 DEF BeginRenderPass
  <2> HIDE DEF cmd
  <2> QED
    BY <2>3, <2>4, PassesBegin DEF BindPoints
<1>2. CASE BeginComputePass
  <2> DEFINE cmd == [id |-> "BeginComputePass"]
  <2>1. BeginPass("Compute", cmd) /\ Typed(cmd) /\ cmd.id # "BeginRenderPass"
    BY <1>2, FreeTyped DEF BeginComputePass, Unconstrained
  <2> HIDE DEF cmd
  <2> QED
    BY <2>1, PassesBegin DEF BindPoints
<1>3. CASE BeginRayTracingPass
  <2> DEFINE cmd == [id |-> "BeginRayTracingPass"]
  <2>1. BeginPass("RayTracing", cmd) /\ Typed(cmd) /\ cmd.id # "BeginRenderPass"
    BY <1>3, FreeTyped DEF BeginRayTracingPass, Unconstrained
  <2> HIDE DEF cmd
  <2> QED
    BY <2>1, PassesBegin DEF BindPoints
<1> QED
  BY <1>1, <1>2, <1>3

(* Ending a pass writes its end, unless the pass has ended already.        *)
LEMMA PassesClose ==
    ASSUME Encoding, NEW b \in BindPoints, EndPass(b) PROVE Encoding'
<1> DEFINE cmd == [id |-> EndCommand[b]]
           cmds == <<cmd>>
<1>1. /\ b = "Render" => EndCommand[b] = "EndRenderPass"
      /\ b = "Compute" => EndCommand[b] = "EndComputePass"
      /\ b = "RayTracing" => EndCommand[b] = "EndRayTracingPass"
  BY DEF EndCommand
<1>2. Typed(cmd) /\ cmd.id # "BeginRenderPass" /\ (b = "Render" => cmd.id = "EndRenderPass")
  <2>1. CASE b = "Render"
    BY <1>1, <2>1 DEF Typed, TypedTransfer, TypedBuild, TypedPass
  <2>2. CASE b # "Render"
    BY <1>1, <2>2, FreeTyped DEF BindPoints, Unconstrained
  <2> QED
    BY <2>1, <2>2
<1>3. list' = list \o cmds /\ passState = b /\ passState' = "NoPass"
  BY DEF EndPass, Write, RequirePass
<1> HIDE DEF cmd
<1>4. cmds \in Seq({cmd}) /\ Len(cmds) = 1 /\ cmds[1] = cmd
  OBVIOUS
<1>5. \A i \in 1..Len(cmds) : Typed(cmds[i]) /\ cmds[i].id # "BeginRenderPass"
  BY <1>2, <1>4
<1>6. passState = "Render" => \E i \in 1..Len(cmds) : cmds[i].id = "EndRenderPass"
  BY <1>2, <1>3, <1>4
<1> HIDE DEF cmds
<1>7. TypedList' /\ PassesEnd'
  BY <1>3, <1>4, <1>5, <1>6, ListGrowsInPass DEF Encoding
<1>8. ~finished /\ b # "NoPass"
  BY <1>3 DEF Encoding, BindPoints
<1>9. writing' = {} /\ UNCHANGED <<client, state, pipelineBound, finished, closed>>
  BY <1>3, <1>8 DEF EndPass, Encoding
<1> QED
  BY <1>3, <1>7, <1>8, <1>9 DEF Encoding, TypedState

(* Binding a pipeline of a pass keeps the encoding: the root object it     *)
(* binds is one that was made.                                             *)
LEMMA BindsEncode ==
    ASSUME Encoding, NEW b \in BindPoints, NEW p, NEW t, BindPipeline(b, p, t),
           p[2] \in Roots, TableBuffer[t] \in OptionalBuffers
    PROVE  Encoding'
<1>1. /\ ~finished /\ UNCHANGED <<list, closed, finished, client, writing, passState>>
      /\ pipelineBound' = pipelineBound \cup {b}
  BY DEF BindPipeline, PassCall, Calling
<1>2. ASSUME NEW c \in BindPoints
      PROVE  state'[c] = IF c = b THEN [state[b] EXCEPT !.pipeline = p[1], !.root = p[2], !.table = t]
                                  ELSE state[c]
  BY DEF BindPipeline, Encoding, TypedState
<1>3. state' = [c \in BindPoints |-> state'[c]]
  BY DEF BindPipeline, Encoding, TypedState
<1>4. ASSUME NEW c \in BindPoints
      PROVE  /\ state'[c] = [pipeline |-> state'[c].pipeline, root |-> state'[c].root,
                             table |-> state'[c].table, vb |-> state'[c].vb, ib |-> state'[c].ib]
             /\ state'[c].vb \in OptionalBuffers /\ state'[c].ib \in OptionalBuffers
             /\ c \in pipelineBound' => /\ state'[c].root \in Roots
                                        /\ TableBuffer[state'[c].table] \in OptionalBuffers
  <2>1. /\ state[c] = [pipeline |-> state[c].pipeline, root |-> state[c].root, table |-> state[c].table,
                       vb |-> state[c].vb, ib |-> state[c].ib]
        /\ state[c].vb \in OptionalBuffers /\ state[c].ib \in OptionalBuffers
        /\ c \in pipelineBound => /\ state[c].root \in Roots
                                  /\ TableBuffer[state[c].table] \in OptionalBuffers
    BY DEF Encoding, TypedState
  <2>2. CASE c = b
    <3>1. state'[c] = [pipeline |-> p[1], root |-> p[2], table |-> t, vb |-> state[c].vb, ib |-> state[c].ib]
      BY <1>2, <2>1, <2>2
    <3> QED
      BY <2>1, <3>1
  <2>3. CASE c # b
    BY <1>1, <1>2, <2>1, <2>3
  <2> QED
    BY <2>2, <2>3
<1>5. TypedState'
  BY <1>3, <1>4 DEF TypedState
<1> QED
  BY <1>1, <1>5 DEF Encoding, TypedList, PassesEnd, Ends

(* Setting the render state keeps the encoding.                            *)
LEMMA StatesEncode ==
    ASSUME Encoding, NEW vb \in OptionalBuffers, NEW ib \in OptionalBuffers, SetRenderState(vb, ib)
    PROVE  Encoding'
<1>1. ~finished /\ UNCHANGED <<list, closed, finished, client, writing, passState, pipelineBound>>
  BY DEF SetRenderState, PassCall, Calling
<1>2. ASSUME NEW c \in BindPoints
      PROVE  state'[c] = IF c = "Render" THEN [state[c] EXCEPT !.vb = vb, !.ib = ib] ELSE state[c]
  BY DEF SetRenderState, Encoding, TypedState, BindPoints
<1>3. state' = [c \in BindPoints |-> state'[c]]
  BY DEF SetRenderState, Encoding, TypedState
<1>4. ASSUME NEW c \in BindPoints
      PROVE  /\ state'[c] = [pipeline |-> state'[c].pipeline, root |-> state'[c].root,
                             table |-> state'[c].table, vb |-> state'[c].vb, ib |-> state'[c].ib]
             /\ state'[c].vb \in OptionalBuffers /\ state'[c].ib \in OptionalBuffers
             /\ c \in pipelineBound' => /\ state'[c].root \in Roots
                                        /\ TableBuffer[state'[c].table] \in OptionalBuffers
  <2>1. /\ state[c] = [pipeline |-> state[c].pipeline, root |-> state[c].root, table |-> state[c].table,
                       vb |-> state[c].vb, ib |-> state[c].ib]
        /\ state[c].vb \in OptionalBuffers /\ state[c].ib \in OptionalBuffers
        /\ c \in pipelineBound => /\ state[c].root \in Roots
                                  /\ TableBuffer[state[c].table] \in OptionalBuffers
    BY DEF Encoding, TypedState
  <2>2. CASE c = "Render"
    <3>1. state'[c] = [pipeline |-> state[c].pipeline, root |-> state[c].root, table |-> state[c].table,
                       vb |-> vb, ib |-> ib]
      BY <1>2, <2>1, <2>2
    <3> QED
      BY <1>1, <2>1, <3>1
  <2>3. CASE c # "Render"
    BY <1>1, <1>2, <2>1, <2>3
  <2> QED
    BY <2>2, <2>3
<1>5. TypedState'
  BY <1>3, <1>4 DEF TypedState
<1> QED
  BY <1>1, <1>5 DEF Encoding, TypedList, PassesEnd, Ends

(* What a launch may be given.                                             *)
TypedLaunch(cmd) ==
    /\ cmd.id \in {"Draw", "DrawIndexed", "DrawMeshTasks", "DrawIndirect", "DrawIndexedIndirect",
                   "DispatchCompute", "DispatchComputeIndirect", "DispatchRays"}
    /\ cmd.id \in {"DrawIndirect", "DrawIndexedIndirect", "DispatchComputeIndirect"} =>
          cmd.argBuffer \in PlainBuffers /\ cmd.countBuffer \in OptionalBuffers

(* A draw, dispatch or ray launch, with the state it sends ahead of itself *)
(* when that has changed, keeps the encoding.                              *)
LEMMA LaunchesEncode ==
    ASSUME Encoding, NEW b \in BindPoints, NEW indexed, NEW cmd, LaunchCall(b, indexed, cmd), TypedLaunch(cmd)
    PROVE  Encoding'
<1>1. /\ ~finished
      /\ UNCHANGED <<closed, finished, client, writing, passState, pipelineBound, state>>
      /\ b \in pipelineBound
  BY DEF LaunchCall, PassCall, Calling
<1>2. PICK failed \in BOOLEAN :
         LET launch == [id |-> cmd.id, argBuffer |-> cmd.argBuffer, countBuffer |-> cmd.countBuffer,
                        known |-> cmd.known, asked |-> asked, failed |-> failed]
         IN list' = list \o (IF failed THEN <<launch>> ELSE <<StateCommand(b), launch>>)
  BY Zenon DEF LaunchCall, WriteLaunch
<1> DEFINE launch == [id |-> cmd.id, argBuffer |-> cmd.argBuffer, countBuffer |-> cmd.countBuffer,
                      known |-> cmd.known, asked |-> asked, failed |-> failed]
           cmds == IF failed THEN <<launch>> ELSE <<StateCommand(b), launch>>
<1>3. Typed(launch) /\ launch.id # "BeginRenderPass"
  BY DEF TypedLaunch, Typed, TypedTransfer, TypedBuild, TypedPass
<1>4. Typed(StateCommand(b)) /\ StateCommand(b).id # "BeginRenderPass"
  <2>1. /\ state[b].vb \in OptionalBuffers /\ state[b].ib \in OptionalBuffers
        /\ state[b].root \in Roots /\ TableBuffer[state[b].table] \in OptionalBuffers
    BY <1>1 DEF Encoding, TypedState
  <2>2. CASE b = "Render"
    <3>1. StateCommand(b) = [id |-> "SetRenderState", pipeline |-> state[b].pipeline, root |-> state[b].root,
                             vb |-> state[b].vb, ib |-> state[b].ib]
      BY <2>2 DEF StateCommand
    <3> QED
      BY <2>1, <3>1 DEF Typed, TypedTransfer, TypedBuild, TypedPass
  <2>3. CASE b = "Compute"
    <3>1. StateCommand(b) = [id |-> "SetComputeState", pipeline |-> state[b].pipeline, root |-> state[b].root]
      BY <2>3 DEF StateCommand
    <3> QED
      BY <2>1, <3>1 DEF Typed, TypedTransfer, TypedBuild, TypedPass
  <2>4. CASE b = "RayTracing"
    <3>1. StateCommand(b) = [id |-> "SetRayTracingState", pipeline |-> state[b].pipeline,
                             root |-> state[b].root, shaderTable |-> state[b].table]
      BY <2>4 DEF StateCommand
    <3> QED
      BY <2>1, <3>1 DEF Typed, TypedTransfer, TypedBuild, TypedPass
  <2> QED
    BY <2>2, <2>3, <2>4 DEF BindPoints
<1>5. list' = list \o cmds /\ passState' = passState
  BY <1>1, <1>2
<1> HIDE DEF launch
<1> DEFINE X == {launch, StateCommand(b)}
<1>6. cmds \in Seq(X) /\ \A i \in 1..Len(cmds) : cmds[i] = launch \/ cmds[i] = StateCommand(b)
  <2> DEFINE first == StateCommand(b)
  <2> HIDE DEF first
  <2>1. <<launch>> \in Seq({launch, first}) /\ <<first, launch>> \in Seq({launch, first})
    OBVIOUS
  <2>2. \A i \in 1..Len(<<launch>>) : <<launch>>[i] = launch
    OBVIOUS
  <2>3. \A i \in 1..Len(<<first, launch>>) : <<first, launch>>[i] = launch \/ <<first, launch>>[i] = first
    OBVIOUS
  <2> QED
    BY <2>1, <2>2, <2>3, Zenon DEF first
<1> HIDE DEF cmds, X
<1>7. \A i \in 1..Len(cmds) : Typed(cmds[i]) /\ cmds[i].id # "BeginRenderPass"
  BY <1>3, <1>4, <1>6
<1>8. TypedList' /\ PassesEnd'
  BY <1>5, <1>6, <1>7, ListGrowsInPass DEF Encoding
<1> QED
  BY <1>1, <1>8 DEF Encoding, TypedState

(* What a call inside a pass is, and what it is given.                     *)
LEMMA PassCallKinds ==
    ASSUME Encoding, RenderPass \/ ComputePass \/ RayTracingPass
    PROVE  \/ (\E desc \in client.targets : BeginRenderPass(desc)) \/ BeginComputePass \/ BeginRayTracingPass
           \/ \E b \in BindPoints : \E p, t :
                 BindPipeline(b, p, t) /\ p[2] \in Roots /\ TableBuffer[t] \in OptionalBuffers
           \/ \E vb, ib : SetRenderState(vb, ib) /\ vb \in OptionalBuffers /\ ib \in OptionalBuffers
           \/ \E b \in BindPoints : \E indexed, cmd : LaunchCall(b, indexed, cmd) /\ TypedLaunch(cmd)
<1>1. /\ \A b \in BindPoints : \A p \in client.programs[b] : p[2] \in Roots
      /\ \A t \in client.tables : TableBuffer[t] \in OptionalBuffers
      /\ client.geometry \subseteq OptionalBuffers \X OptionalBuffers
      /\ client.arguments \subseteq PlainBuffers \X OptionalBuffers
      /\ TableBuffer[None] \in OptionalBuffers
  BY CommandEncoderAssumption DEF Encoding, Roots, OptionalBuffers, Maybe
<1>2. "Render" \in BindPoints /\ "Compute" \in BindPoints /\ "RayTracing" \in BindPoints
  BY DEF BindPoints
<1>3. ASSUME NEW id, NEW a \in client.arguments
      PROVE  /\ [Simple(id) EXCEPT !.argBuffer = a[1], !.countBuffer = a[2]]
                  = [id |-> id, argBuffer |-> a[1], countBuffer |-> a[2], known |-> TRUE]
             /\ [Simple(id) EXCEPT !.argBuffer = a[1]]
                  = [id |-> id, argBuffer |-> a[1], countBuffer |-> None, known |-> TRUE]
             /\ a[1] \in PlainBuffers /\ a[2] \in OptionalBuffers
  <2>1. a[1] \in PlainBuffers /\ a[2] \in OptionalBuffers
    BY <1>1
  <2> DEFINE x == a[1]
             y == a[2]
             yes == TRUE
             one == [Simple(id) EXCEPT !.argBuffer = x]
             two == [one EXCEPT !.countBuffer = y]
             fields == {"id", "argBuffer", "countBuffer", "known"}
  <2>2. one.id = id /\ one.argBuffer = x /\ one.countBuffer = None /\ one.known = yes
    BY DEF Simple
  <2>3. one = [f \in fields |-> one[f]]
    BY DEF Simple
  <2> HIDE DEF x, y, yes, one
  <2>4. two.id = id /\ two.argBuffer = x /\ two.countBuffer = y /\ two.known = yes
    BY <2>2, <2>3
  <2>5. two = [f \in fields |-> two[f]]
    BY <2>3
  <2> HIDE DEF two
  <2>6. /\ one = [id |-> id, argBuffer |-> x, countBuffer |-> None, known |-> yes]
        /\ two = [id |-> id, argBuffer |-> x, countBuffer |-> y, known |-> yes]
    BY <2>2, <2>3, <2>4, <2>5
  <2> QED
    BY <2>1, <2>6, Zenon DEF x, y, yes, one, two
<1>4. ASSUME NEW a \in client.arguments PROVE
         /\ TypedLaunch([Simple("DrawIndirect") EXCEPT !.argBuffer = a[1], !.countBuffer = a[2]])
         /\ TypedLaunch([Simple("DrawIndexedIndirect") EXCEPT !.argBuffer = a[1], !.countBuffer = a[2]])
         /\ TypedLaunch([Simple("DispatchComputeIndirect") EXCEPT !.argBuffer = a[1]])
  <2>1. None \in OptionalBuffers
    BY DEF OptionalBuffers, Maybe
  <2>2. ASSUME NEW id \in {"DrawIndirect", "DrawIndexedIndirect", "DispatchComputeIndirect"},
               NEW x \in PlainBuffers, NEW y \in OptionalBuffers
        PROVE  TypedLaunch([id |-> id, argBuffer |-> x, countBuffer |-> y, known |-> TRUE])
    BY DEF TypedLaunch
  <2>3. a[1] \in PlainBuffers /\ a[2] \in OptionalBuffers
    BY <1>3
  <2>4. /\ TypedLaunch([id |-> "DrawIndirect", argBuffer |-> a[1], countBuffer |-> a[2], known |-> TRUE])
        /\ TypedLaunch([id |-> "DrawIndexedIndirect", argBuffer |-> a[1], countBuffer |-> a[2], known |-> TRUE])
        /\ TypedLaunch([id |-> "DispatchComputeIndirect", argBuffer |-> a[1], countBuffer |-> None, known |-> TRUE])
    BY <2>1, <2>2, <2>3
  <2> QED
    BY <1>3, <2>4, Zenon
<1>5. /\ TypedLaunch(Simple("Draw")) /\ TypedLaunch(Simple("DrawIndexed"))
      /\ TypedLaunch(Simple("DrawMeshTasks")) /\ TypedLaunch(Simple("DispatchCompute"))
      /\ \A known : TypedLaunch([Simple("DispatchRays") EXCEPT !.known = known])
  BY DEF TypedLaunch, Simple
<1>6. ASSUME \/ \E b \in BindPoints : \E p \in client.programs[b] : BindPipeline(b, p, None)
             \/ \E p \in client.programs["RayTracing"], t \in client.tables : BindPipeline("RayTracing", p, t)
      PROVE  \E b \in BindPoints : \E p, t :
                BindPipeline(b, p, t) /\ p[2] \in Roots /\ TableBuffer[t] \in OptionalBuffers
  BY <1>1, <1>2, <1>6, Zenon
<1>7. ASSUME \E g \in client.geometry : SetRenderState(g[1], g[2])
      PROVE  \E vb, ib : SetRenderState(vb, ib) /\ vb \in OptionalBuffers /\ ib \in OptionalBuffers
  <2>1. PICK g \in client.geometry : SetRenderState(g[1], g[2])
    BY <1>7
  <2>2. g[1] \in OptionalBuffers /\ g[2] \in OptionalBuffers
    BY <1>1
  <2> QED
    BY <2>1, <2>2, Zenon
<1>8. ASSUME \/ Draw \/ DrawIndexed \/ DrawMeshTasks \/ DispatchCompute
             \/ \E known \in BOOLEAN : DispatchRays(known)
             \/ \E a \in client.arguments : DrawIndirect(a) \/ DrawIndexedIndirect(a) \/ DispatchComputeIndirect(a)
      PROVE  \E b \in BindPoints : \E indexed, cmd : LaunchCall(b, indexed, cmd) /\ TypedLaunch(cmd)
  BY <1>2, <1>4, <1>5, <1>8, Zenon DEF Draw, DrawIndexed, DrawMeshTasks, DispatchCompute, DispatchRays,
     DrawIndirect, DrawIndexedIndirect, DispatchComputeIndirect
<1> QED
  BY <1>2, <1>6, <1>7, <1>8, Zenon DEF RenderPass, ComputePass, RayTracingPass

(* Every call inside a pass keeps the encoding.                            *)
LEMMA PassCallsEncode ==
    ASSUME Encoding, RenderPass \/ ComputePass \/ RayTracingPass PROVE Encoding'
  BY PassCallKinds, PassesEncode, BindsEncode, StatesEncode, LaunchesEncode, Zenon

(* A list without its first command is still well formed, and what passes  *)
(* it begins have their ends there.                                        *)
LEMMA RestEncodes ==
    ASSUME Encoding, writing = {}, list # <<>>, list' = Rest, passState' = passState
    PROVE  TypedList' /\ PassesEnd' /\ \A i \in 1..Len(list') : list'[i].id # "BeginRenderPass"
<1> DEFINE cmd == list[1]
           n == Len(list)
<1>1. n \in Nat /\ n >= 1 /\ Head(list) = cmd /\ Typed(cmd) /\ list \in Seq(Range(list))
  BY DEF Encoding, TypedList
<1>2. /\ Tail(list) \in Seq(Range(list)) /\ Len(Tail(list)) = n - 1
      /\ \A i \in 1..(n - 1) : Tail(list)[i] = list[i + 1] /\ i + 1 \in 1..n
  BY <1>1
<1>3. ASSUME NEW i \in 1..(n - 1)
      PROVE  Typed(Tail(list)[i]) /\ Tail(list)[i].id # "BeginRenderPass"
  BY <1>2 DEF Encoding, TypedList, PassesEnd
<1>4. ASSUME NEW s, s \in Seq(Range(s)), \A i \in 1..Len(s) : Typed(s[i]) /\ s[i].id # "BeginRenderPass",
             list' = s
      PROVE  TypedList' /\ PassesEnd' /\ \A i \in 1..Len(list') : list'[i].id # "BeginRenderPass"
  BY <1>4 DEF TypedList, PassesEnd
<1>5. CASE list' = Tail(list)
  BY <1>1, <1>2, <1>3, <1>4, <1>5, OwnRange
<1>6. ASSUME NEW id, list' = <<[cmd EXCEPT !.id = id]>> \o Tail(list),
             Typed([cmd EXCEPT !.id = id]), [cmd EXCEPT !.id = id].id # "BeginRenderPass"
      PROVE  TypedList' /\ PassesEnd' /\ \A i \in 1..Len(list') : list'[i].id # "BeginRenderPass"
  <2> DEFINE new == [cmd EXCEPT !.id = id]
             X == Range(list) \cup {new}
             s == <<new>> \o Tail(list)
  <2>1. Typed(new) /\ new.id # "BeginRenderPass"
    BY <1>6
  <2> HIDE DEF new
  <2>2. <<new>> \in Seq(X) /\ Tail(list) \in Seq(X) /\ Len(<<new>>) = 1 /\ <<new>>[1] = new
    BY <1>1, <1>2
  <2> HIDE DEF X
  <2>3. s \in Seq(X) /\ Len(s) = n /\ s[1] = new /\ \A i \in 2..n : s[i] = Tail(list)[i - 1] /\ i - 1 \in 1..(n - 1)
    BY <1>1, <1>2, <2>2
  <2>4. list' = s
    BY <1>6 DEF new
  <2> HIDE DEF s
  <2>5. ASSUME NEW i \in 1..Len(s) PROVE Typed(s[i]) /\ s[i].id # "BeginRenderPass"
    <3>1. CASE i = 1
      BY <2>1, <2>3, <3>1
    <3>2. CASE i # 1
      <4>1. i \in 2..n /\ i - 1 \in 1..(n - 1)
        BY <1>1, <2>3, <3>2
      <4>2. s[i] = Tail(list)[i - 1]
        BY <2>3, <4>1
      <4> QED
        BY <1>3, <4>1, <4>2
    <3> QED
      BY <3>1, <3>2
  <2>6. s \in Seq(Range(s))
    BY <2>3, OwnRange
  <2> QED
    BY <1>4, <2>4, <2>5, <2>6
<1>7. CASE cmd.id = "ConvertCooperativeVectorMatrix"
  <2>1. list' = <<[cmd EXCEPT !.id = "Converted"]>> \o Tail(list)
    BY <1>1, <1>7 DEF Rest
  <2>2. cmd = [id |-> cmd.id, dst |-> cmd.dst, src |-> cmd.src] /\ cmd.dst \in PlainBuffers
    BY <1>1, <1>7 DEF Typed, TypedBuild
  <2> HIDE DEF cmd
  <2>3. [cmd EXCEPT !.id = "Converted"] = [id |-> "Converted", dst |-> cmd.dst, src |-> cmd.src]
    BY <2>2
  <2>4. Typed([id |-> "Converted", dst |-> cmd.dst, src |-> cmd.src])
    BY <2>2 DEF Typed, TypedTransfer, TypedBuild, TypedPass
  <2>5. [cmd EXCEPT !.id = "Converted"].id # "BeginRenderPass"
    BY <2>3
  <2> QED
    BY <1>6, <2>1, <2>3, <2>4, <2>5
<1>8. CASE cmd.id = "EndRenderPass" /\ attachments.resolves # <<>>
  <2>1. list' = <<[cmd EXCEPT !.id = "Resolve"]>> \o Tail(list)
    BY <1>1, <1>8 DEF Rest
  <2>2. cmd = [id |-> "EndRenderPass"]
    BY <1>1, <1>8 DEF Typed, TypedPass
  <2> HIDE DEF cmd
  <2>3. [cmd EXCEPT !.id = "Resolve"] = [id |-> "Resolve"]
    BY <2>2
  <2>4. Typed([id |-> "Resolve"])
    BY FreeTyped DEF Unconstrained
  <2>5. [cmd EXCEPT !.id = "Resolve"].id # "BeginRenderPass"
    BY <2>3
  <2> QED
    BY <1>6, <2>1, <2>3, <2>4, <2>5
<1>9. CASE cmd.id # "ConvertCooperativeVectorMatrix" /\ ~(cmd.id = "EndRenderPass" /\ attachments.resolves # <<>>)
  <2>1. list' = Tail(list)
    BY <1>1, <1>9 DEF Rest
  <2> QED
    BY <1>5, <2>1
<1> QED
  BY <1>7, <1>8, <1>9

(* What the D3D12 recorder remembers to resolve at the end of a pass are   *)
(* targets that have a resolve target.                                     *)
LEMMA D3D12Resolves ==
    ASSUME TypedResolves, NEW cmd, Typed(cmd), D3D12!Record(cmd) \/ D3D12!Finish
    PROVE  TypedResolves'
<1> USE DEF TypedResolves
<1>1. ASSUME attachments' = attachments \/ attachments'.resolves = <<>> PROVE TypedResolves'
  <2>1. <<>> \in Seq(ResolvedTargets)
    OBVIOUS
  <2> QED
    BY <1>1, <2>1
<1>2. CASE D3D12!CmdBeginRenderPass(cmd)
  <2>1. attachments'.resolves = D3D12!ResolvedColors(cmd.desc) /\ cmd.id = "BeginRenderPass"
    BY <1>2 DEF D3D12!CmdBeginRenderPass
  <2>2. D3D12!ResolvedColors(cmd.desc) = ResolvedColors(cmd.desc)
    BY D3D12Flatten, Zenon DEF D3D12!ResolvedColors, ResolvedColors
  <2>3. ResolvedColors(cmd.desc) \in Seq(ResolvedTargets)
    BY <2>1, ResolvedColorsTyped DEF Typed, TypedPass
  <2> QED
    BY <2>1, <2>2, <2>3
<1>3. CASE D3D12!CmdEndRenderPass(cmd) \/ D3D12!Resolve(cmd)
  <2>1. attachments' = attachments \/ attachments' = D3D12!NoTargets
    BY <1>3, Zenon DEF D3D12!CmdEndRenderPass, D3D12!Resolve, D3D12!LeavePass, D3D12!Perform,
                       D3D12!StateUntouched
  <2>2. D3D12!NoTargets.resolves = <<>>
    BY DEF D3D12!NoTargets
  <2> QED
    BY <1>1, <2>1, <2>2
<1>4. CASE D3D12!CmdCopyBuffer(cmd) \/ D3D12!CmdCopyTexture(cmd)
          \/ D3D12!CmdCopyTextureToBuffer(cmd) \/ D3D12!CmdClearBuffer(cmd)
          \/ D3D12!CmdUploadTextureData(cmd) \/ D3D12!CmdResolveQuery(cmd)
          \/ D3D12!CmdBuildMicromap(cmd) \/ D3D12!CmdCopyAccelerationStructure(cmd)
  BY <1>1, <1>4 DEF D3D12!CmdCopyBuffer, D3D12!CmdCopyTexture, D3D12!CmdCopyTextureToBuffer,
          D3D12!CmdClearBuffer, D3D12!CmdUploadTextureData, D3D12!CmdResolveQuery,
          D3D12!CmdBuildMicromap, D3D12!CmdCopyAccelerationStructure, D3D12!Perform,
          D3D12!StateUntouched
<1>5. CASE D3D12!CmdClearTextureFloat(cmd) \/ D3D12!CmdClearTextureUint(cmd)
          \/ D3D12!CmdClearTextureDepthStencil(cmd)
  BY <1>1, <1>5 DEF D3D12!CmdClearTextureFloat, D3D12!CmdClearTextureUint,
          D3D12!CmdClearTextureDepthStencil, D3D12!ClearThrough, D3D12!Perform,
          D3D12!Skip, D3D12!StateUntouched, D3D12!recorder
<1>6. CASE D3D12!CmdBuildAccelerationStructure(cmd) \/ D3D12!CmdSetState(cmd)
          \/ D3D12!Finish
  BY <1>1, <1>6 DEF D3D12!CmdBuildAccelerationStructure, D3D12!CmdSetState, D3D12!Finish,
          D3D12!StateUntouched
<1>7. CASE D3D12!CmdExecuteClusterOperation(cmd)
          \/ D3D12!CmdConvertCooperativeVectorMatrix(cmd) \/ D3D12!Converted(cmd)
  BY <1>1, <1>7 DEF D3D12!CmdExecuteClusterOperation, D3D12!CmdConvertCooperativeVectorMatrix,
          D3D12!Converted, D3D12!Perform, D3D12!Skip, D3D12!StateUntouched,
          D3D12!recorder
<1>8. CASE D3D12!CmdWriteTimestamp(cmd)
  BY <1>1, <1>8 DEF D3D12!CmdWriteTimestamp, D3D12!recorder
<1>9. CASE D3D12!CmdGlobalBarrier(cmd) \/ D3D12!CmdSetRenderState(cmd)
          \/ D3D12!CmdSetComputeState(cmd) \/ D3D12!CmdSetRayTracingState(cmd)
  BY <1>1, <1>9 DEF D3D12!CmdGlobalBarrier, D3D12!CmdSetRenderState, D3D12!CmdSetComputeState,
          D3D12!CmdSetRayTracingState, D3D12!Skip, D3D12!recorder
<1>10. CASE D3D12!CmdExecuteCallback(cmd) \/ D3D12!CmdPass(cmd)
  BY <1>1, <1>10 DEF D3D12!CmdExecuteCallback, D3D12!CmdPass
<1>11. CASE D3D12!CmdDraw(cmd) \/ D3D12!CmdDrawIndexed(cmd) \/ D3D12!CmdDrawMeshTasks(cmd)
          \/ D3D12!CmdDispatchCompute(cmd)
  BY <1>1, <1>11 DEF D3D12!CmdDraw, D3D12!CmdDrawIndexed, D3D12!CmdDrawMeshTasks,
          D3D12!CmdDispatchCompute, D3D12!Dropped, D3D12!Launch, D3D12!LaunchOrDrop,
          D3D12!StateUntouched, D3D12!recorder
<1>12. CASE D3D12!CmdDrawIndirect(cmd) \/ D3D12!CmdDrawIndexedIndirect(cmd)
  BY <1>1, <1>12 DEF D3D12!CmdDrawIndirect, D3D12!CmdDrawIndexedIndirect, D3D12!DrawWithArguments,
          D3D12!Dropped, D3D12!Launch, D3D12!StateUntouched, D3D12!recorder
<1>13. CASE D3D12!CmdDispatchComputeIndirect(cmd)
  BY <1>1, <1>13 DEF D3D12!CmdDispatchComputeIndirect, D3D12!Dropped, D3D12!Launch,
          D3D12!StateUntouched, D3D12!recorder
<1>14. CASE D3D12!CmdDispatchRays(cmd)
  BY <1>1, <1>14 DEF D3D12!CmdDispatchRays, D3D12!Dropped, D3D12!Launch, D3D12!LaunchOrDrop,
          D3D12!Skip, D3D12!StateUntouched, D3D12!recorder
<1> QED
  BY <1>2, <1>3, <1>4, <1>5, <1>6, <1>7, <1>8, <1>9, <1>10, <1>11, <1>12, <1>13, <1>14, Zenon DEF D3D12!Record

-----------------------------------------------------------------------------
(* What is given to the GPU is retained.                                   *)

(* The fields of what is bound at a bind point.                            *)
IsBinding(b) ==
    /\ b = [pipeline |-> b.pipeline, root |-> b.root, table |-> b.table, vb |-> b.vb, ib |-> b.ib]
    /\ TableBuffer[b.table] \in OptionalBuffers
    /\ b.vb \in OptionalBuffers /\ b.ib \in OptionalBuffers

(* What is bound is retained; of a root object, what it needs.             *)
HeldBinding(b) ==
    /\ IsBinding(b)
    /\ Objects({b.pipeline, b.table, b.vb, b.ib}) \subseteq retained
    /\ b.root # None => b.root \in Roots /\ HeldThrough(b.root) \subseteq retained

(* Requirements of retained resources.                                     *)
HeldNeeds == {need \in Needs : need.res \in retained}

(* What is bound is retained, at every bind point.                         *)
BoundHeld(bd) == bd = [b \in BindPoints |-> bd[b]] /\ \A b \in BindPoints : HeldBinding(bd[b])

(* Targets that are retained with what they are resolved to.               *)
HeldResolved == {c \in ResolvedTargets : c.view.res \in retained /\ c.resolve.res \in retained}

(* What is targeted and to be resolved is retained.                        *)
TargetsHeld(a) == a.needs \in Seq(HeldNeeds) /\ a.resolves \in Seq(HeldResolved)

Holding == BoundHeld(bound) /\ TargetsHeld(attachments)

StateIds == {"SetRenderState", "SetComputeState", "SetRayTracingState"}

(* What a command names is retained, and what its root object needs and    *)
(* its geometry with it.                                                   *)
HeldCommand(cmd) ==
    /\ RetainedBy(cmd) \subseteq retained
    /\ cmd.id = "Converted" => cmd.dst \in retained
    /\ cmd.id = "WriteTimestamp" => cmd.queryPool \in retained
    /\ cmd.id \in StateIds => HeldThrough(cmd.root) \subseteq retained
    /\ cmd.id = "SetRenderState" => Objects({cmd.vb, cmd.ib}) \subseteq retained

(* What the memory of CUDA's stream keeps, if these are bound.             *)
Streamed(b) == IF client.backend = "CUDA" /\ b.root # None
               THEN Uses(Range(Bindings[b.root])) \cap DeviceLocal ELSE {}

(* What a command that executes uses is retained.                          *)
Fed(e) == e.uses \ Streamed(e.bound) \subseteq retained

(* What a step of a recorder leaves bound and targeted is retained, and    *)
(* what it executes uses nothing that is not, and records no barriers in a *)
(* render pass.                                                            *)
Kept == BoundHeld(bound') /\ TargetsHeld(attachments') /\ Fed(executing') /\ ~executing'.barred

(* What the commands outside passes name.                                  *)
LEMMA CallNames ==
    ASSUME NEW cmd
    PROVE  /\ cmd.id \in {"CopyBuffer", "CopyTexture", "CopyTextureToBuffer", "UploadTextureData"} =>
                 RetainedBy(cmd) = Objects({cmd.dst, cmd.src})
           /\ cmd.id \in {"ClearBuffer", "ClearTexture"} => RetainedBy(cmd) = Objects({cmd.dst})
           /\ cmd.id = "ResolveQuery" => RetainedBy(cmd) = Objects({cmd.queryPool, cmd.dst})
           /\ cmd.id = "BuildAccelerationStructure" =>
                 RetainedBy(cmd) = Objects({cmd.dst, cmd.src, cmd.scratchBuffer} \cup cmd.inputs \cup {cmd.micromap})
           /\ cmd.id = "BuildMicromap" =>
                 RetainedBy(cmd) = Objects({cmd.dst, cmd.scratchBuffer} \cup cmd.inputs)
           /\ cmd.id \in {"CopyAccelerationStructure", "ConvertCooperativeVectorMatrix"} =>
                 RetainedBy(cmd) = Objects({cmd.dst, cmd.src})
           /\ cmd.id = "ExecuteClusterOperation" =>
                 RetainedBy(cmd) = Objects({cmd.argCountBuffer, cmd.argsBuffer, cmd.scratchBuffer,
                                            cmd.addressesBuffer, cmd.resultBuffer, cmd.sizesBuffer})
           /\ cmd.id = "WriteTimestamp" => RetainedBy(cmd) = Objects({cmd.queryPool})
           /\ cmd.id = "ExecuteCallback" => RetainedBy(cmd) = Objects({cmd.userObject})
<1>1. \A S : S \cup {} \cup {} \cup {} = S /\ {} \cup {} \cup S \cup {} = S /\ {} \cup {} \cup {} \cup S = S
  OBVIOUS
<1> QED
  BY <1>1, Zenon DEF RetainedBy, RetainedByTransfer, RetainedByPass, RetainedByBuild, RetainedByOther

(* What the commands of passes name.                                       *)
LEMMA PassNames ==
    ASSUME NEW cmd
    PROVE  /\ cmd.id = "BeginRenderPass" =>
                 RetainedBy(cmd) = Objects((UNION {{a.view.res, a.resolve.res} : a \in Range(cmd.desc.colors)})
                                             \cup {cmd.desc.depth.view.res})
           /\ cmd.id \in {"SetRenderState", "SetComputeState"} => RetainedBy(cmd) = Objects({cmd.pipeline})
           /\ cmd.id = "SetRayTracingState" => RetainedBy(cmd) = Objects({cmd.pipeline, cmd.shaderTable})
           /\ cmd.id \in {"DrawIndirect", "DrawIndexedIndirect"} =>
                 RetainedBy(cmd) = Objects({cmd.argBuffer, cmd.countBuffer})
           /\ cmd.id = "DispatchComputeIndirect" => RetainedBy(cmd) = Objects({cmd.argBuffer})
<1>1. \A S : {} \cup S \cup {} \cup {} = S
  OBVIOUS
<1> QED
  BY <1>1, Zenon DEF RetainedBy, RetainedByTransfer, RetainedByPass, RetainedByBuild, RetainedByOther

(* What a list of requirements of retained resources uses is retained.     *)
LEMMA UsesOfHeld ==
    ASSUME NEW needs \in Seq(HeldNeeds) PROVE Uses(Range(needs)) \subseteq retained
<1>1. Range(needs) \subseteq HeldNeeds
  BY DEF Range
<1> QED
  BY <1>1 DEF HeldNeeds, Uses

(* What may be required of retained buffers and textures.                  *)
LEMMA PlainHeld ==
    /\ \A b \in PlainBuffers \cap retained : \A s \in States : BufferNeed(b, s) \in HeldNeeds
    /\ \A b \in AccelerationStructures \cap retained :
          /\ BufferNeed(b, "AccelerationStructureRead") \in HeldNeeds
          /\ BufferNeed(b, "AccelerationStructureWrite") \in HeldNeeds
    /\ \A b \in Micromaps \cap retained : /\ BufferNeed(b, "MicromapRead") \in HeldNeeds
                                          /\ BufferNeed(b, "MicromapWrite") \in HeldNeeds
    /\ \A x \in Textures \cap retained, r \in Ranges : \A s \in States :
          Need(x, r, s) \in HeldNeeds
<1>1. \A r, range, s : Need(r, range, s).res = r /\ BufferNeed(r, s).res = r
  BY DEF BufferNeed, Need
<1> QED
  BY <1>1, PlainNeeds DEF HeldNeeds

(* What may be required of retained buffers that a command may leave out.  *)
LEMMA OptionalHeld ==
    /\ \A b \in OptionalBuffers : \A s \in States :
          Objects({b}) \subseteq retained => OptionalNeed(b, s) \in Seq(HeldNeeds)
    /\ \A b \in Maybe(AccelerationStructures) : Objects({b}) \subseteq retained =>
          /\ OptionalNeed(b, "AccelerationStructureRead") \in Seq(HeldNeeds)
          /\ OptionalNeed(b, "AccelerationStructureWrite") \in Seq(HeldNeeds)
    /\ \A b \in Maybe(Micromaps) :
          Objects({b}) \subseteq retained => OptionalNeed(b, "MicromapRead") \in Seq(HeldNeeds)
<1>1. \A s : OptionalNeed(None, s) \in Seq(HeldNeeds)
  BY DEF OptionalNeed
<1>2. \A b, s : b # None /\ BufferNeed(b, s) \in HeldNeeds => OptionalNeed(b, s) \in Seq(HeldNeeds)
  BY DEF OptionalNeed
<1>3. \A b : Objects({b}) \subseteq retained => b = None \/ b \in retained
  BY DEF Objects
<1> QED
  BY <1>1, <1>2, <1>3, PlainHeld, Zenon DEF OptionalBuffers, Maybe

(* What is required of vertex and index buffers that are retained.         *)
LEMMA GeometryHeld ==
    ASSUME NEW vb \in OptionalBuffers, NEW ib \in OptionalBuffers,
           Objects({vb}) \subseteq retained, Objects({ib}) \subseteq retained
    PROVE  GeometryNeeds(vb, ib) \in Seq(HeldNeeds)
<1>1. "VertexBuffer" \in States /\ "IndexBuffer" \in States
  BY PlainStates
<1>2. OptionalNeed(vb, "VertexBuffer") \in Seq(HeldNeeds) /\ OptionalNeed(ib, "IndexBuffer") \in Seq(HeldNeeds)
  BY <1>1, OptionalHeld
<1> QED
  BY <1>2, Joined, Zenon DEF GeometryNeeds

(* What is required of the arguments of a draw or dispatch that are        *)
(* retained.                                                               *)
LEMMA ArgumentsHeld ==
    ASSUME NEW cmd, Typed(cmd), HeldCommand(cmd)
    PROVE  /\ cmd.id \in {"DrawIndirect", "DrawIndexedIndirect"} => IndirectNeeds(cmd) \in Seq(HeldNeeds)
           /\ cmd.id = "DispatchComputeIndirect" =>
                 <<BufferNeed(cmd.argBuffer, "IndirectArgument")>> \in Seq(HeldNeeds)
<1>1. "IndirectArgument" \in States /\ None \notin PlainBuffers
  BY PlainStates DEF PlainBuffers
<1>2. cmd.id \in {"DrawIndirect", "DrawIndexedIndirect", "DispatchComputeIndirect"} =>
         cmd.argBuffer \in PlainBuffers \cap retained
  BY <1>1, PassNames DEF HeldCommand, Typed, TypedPass, Objects
<1>3. cmd.id \in {"DrawIndirect", "DrawIndexedIndirect"} =>
         cmd.countBuffer \in OptionalBuffers /\ Objects({cmd.countBuffer}) \subseteq retained
  BY PassNames DEF HeldCommand, Typed, TypedPass, Objects
<1>4. cmd.id \in {"DrawIndirect", "DrawIndexedIndirect", "DispatchComputeIndirect"} =>
         <<BufferNeed(cmd.argBuffer, "IndirectArgument")>> \in Seq(HeldNeeds)
  BY <1>1, <1>2, PlainHeld
<1>5. cmd.id \in {"DrawIndirect", "DrawIndexedIndirect"} =>
         OptionalNeed(cmd.countBuffer, "IndirectArgument") \in Seq(HeldNeeds)
  BY <1>1, <1>3, OptionalHeld
<1> QED
  BY <1>4, <1>5, Joined, Zenon DEF IndirectNeeds

(* What the transfers require, if what they name is retained.              *)
LEMMA TransfersHeld ==
    ASSUME NEW cmd, Typed(cmd), HeldCommand(cmd)
    PROVE  /\ cmd.id = "CopyBuffer" => CopyNeeds(cmd) \in Seq(HeldNeeds)
           /\ cmd.id = "CopyTexture" => cmd.dst \in Textures \cap retained /\ cmd.src \in Textures \cap retained
           /\ cmd.id = "CopyTextureToBuffer" => ReadNeeds(cmd) \in Seq(HeldNeeds)
           /\ cmd.id = "UploadTextureData" => UploadNeeds(cmd) \in Seq(HeldNeeds)
           /\ cmd.id \in {"ClearBuffer", "ResolveQuery"} =>
                 /\ <<BufferNeed(cmd.dst, "CopyDestination")>> \in Seq(HeldNeeds)
                 /\ <<BufferNeed(cmd.dst, "UnorderedAccess")>> \in Seq(HeldNeeds)
           /\ cmd.id = "ClearTexture" => cmd.dst \in Textures \cap retained
<1>1. {"CopyDestination", "CopySource", "UnorderedAccess"} \subseteq States
  BY PlainStates
<1>2. None \notin PlainBuffers /\ None \notin Textures
  BY CommandEncoderAssumption, PlainStates DEF Resources, PlainBuffers
<1>3. cmd.id \in {"CopyBuffer", "CopyTexture", "CopyTextureToBuffer", "UploadTextureData"} =>
         Objects({cmd.dst, cmd.src}) \subseteq retained
  BY CallNames DEF HeldCommand
<1>4. cmd.id \in {"ClearBuffer", "ClearTexture", "ResolveQuery"} => Objects({cmd.dst}) \subseteq retained
  BY CallNames DEF HeldCommand, Objects
<1>5. cmd.id = "CopyBuffer" => cmd.dst \in PlainBuffers \cap retained /\ cmd.src \in PlainBuffers \cap retained
  BY <1>2, <1>3 DEF Typed, TypedTransfer, Objects
<1>6. cmd.id = "CopyTexture" => cmd.dst \in Textures \cap retained /\ cmd.src \in Textures \cap retained
  BY <1>2, <1>3 DEF Typed, TypedTransfer, Objects
<1>7. cmd.id = "CopyTextureToBuffer" => cmd.dst \in PlainBuffers \cap retained /\ cmd.src \in Textures \cap retained
                                        /\ cmd.srcRange \in Ranges
  BY <1>2, <1>3 DEF Typed, TypedTransfer, Objects
<1>8. cmd.id = "UploadTextureData" => cmd.dst \in Textures \cap retained /\ cmd.src \in PlainBuffers \cap retained
                                      /\ cmd.dstRange \in Ranges
  BY <1>2, <1>3 DEF Typed, TypedTransfer, Objects
<1>9. cmd.id \in {"ClearBuffer", "ResolveQuery"} => cmd.dst \in PlainBuffers \cap retained
  BY <1>2, <1>4 DEF Typed, TypedTransfer, Objects
<1>10. cmd.id = "ClearTexture" => cmd.dst \in Textures \cap retained
  BY <1>2, <1>4 DEF Typed, TypedTransfer, Objects
<1>11. cmd.id = "CopyBuffer" => CopyNeeds(cmd) \in Seq(HeldNeeds)
  BY <1>1, <1>5, PlainHeld DEF CopyNeeds
<1>12. cmd.id = "CopyTextureToBuffer" => ReadNeeds(cmd) \in Seq(HeldNeeds)
  BY <1>1, <1>7, PlainHeld DEF ReadNeeds
<1>13. cmd.id = "UploadTextureData" => UploadNeeds(cmd) \in Seq(HeldNeeds)
  BY <1>1, <1>8, PlainHeld DEF UploadNeeds
<1>14. cmd.id \in {"ClearBuffer", "ResolveQuery"} =>
         BufferNeed(cmd.dst, "CopyDestination") \in HeldNeeds /\ BufferNeed(cmd.dst, "UnorderedAccess") \in HeldNeeds
  BY <1>1, <1>9, PlainHeld
<1> QED
  BY <1>6, <1>10, <1>11, <1>12, <1>13, <1>14

(* The requirements made for each buffer of a set are in the list of them. *)
LEMMA EachMade ==
    ASSUME NEW B \in SUBSET PlainBuffers, NEW s
    PROVE  EachNeeds(B, s) \in Seq({BufferNeed(b, s) : b \in B})
<1> DEFINE S == {BufferNeed(b, s) : b \in B}
<1>1. IsFiniteSet(B)
  <2>1. B \subseteq Resources
    BY PlainStates
  <2> QED
    BY <2>1, DefaultsAssumption, FS_Subset
<1>2. IsFiniteSet(S)
  <2> DEFINE f == [b \in B |-> BufferNeed(b, s)]
  <2>1. f \in Surjection(B, S)
    BY DEF Surjection
  <2> HIDE DEF f, S
  <2> QED
    BY <1>1, <2>1, FS_Surjection
<1> HIDE DEF S
<1>3. SetToSeq(S) \in Seq(S)
  BY <1>2, InjectiveSeq
<1> QED
  BY <1>3 DEF EachNeeds, S

(* What the builds, their copies and conversions require, if what they     *)
(* name is retained.                                                       *)
LEMMA BuildsHeld ==
    ASSUME NEW cmd, Typed(cmd), HeldCommand(cmd)
    PROVE  /\ cmd.id = "BuildAccelerationStructure" => StructureNeeds(cmd) \in Seq(HeldNeeds)
           /\ cmd.id = "BuildMicromap" => MicromapNeeds(cmd) \in Seq(HeldNeeds)
           /\ cmd.id = "CopyAccelerationStructure" => StructureCopyNeeds(cmd) \in Seq(HeldNeeds)
           /\ cmd.id = "ExecuteClusterOperation" => ClusterNeeds(cmd) \in Seq(HeldNeeds)
           /\ cmd.id = "ConvertCooperativeVectorMatrix" => ConversionNeeds(cmd) \in Seq(HeldNeeds)
           /\ cmd.id = "Converted" => <<BufferNeed(cmd.dst, "ShaderResource")>> \in Seq(HeldNeeds)
<1>1. TypedBuild(cmd)
  BY DEF Typed
<1>2. {"UnorderedAccess", "ShaderResource", "AccelerationStructureBuildInput", "MicromapBuildInput"} \subseteq States
  BY PlainStates
<1>3. None \notin PlainBuffers /\ None \notin AccelerationStructures /\ None \notin Micromaps
  BY PlainStates DEF PlainBuffers
<1>4. ASSUME NEW B, B \subseteq PlainBuffers, B \subseteq retained, NEW s \in States
      PROVE  EachNeeds(B, s) \in Seq(HeldNeeds)
  <2> DEFINE S == {BufferNeed(b, s) : b \in B}
  <2>1. EachNeeds(B, s) \in Seq(S)
    BY <1>4, EachMade
  <2>2. S \subseteq HeldNeeds
    BY <1>4, PlainHeld
  <2> HIDE DEF S
  <2> QED
    BY <2>1, <2>2
<1>5. ASSUME cmd.id = "BuildAccelerationStructure" PROVE StructureNeeds(cmd) \in Seq(HeldNeeds)
  <2>1. Objects({cmd.dst, cmd.src, cmd.scratchBuffer} \cup cmd.inputs \cup {cmd.micromap}) \subseteq retained
    BY <1>5, CallNames DEF HeldCommand
  <2>2. /\ cmd.inputs \subseteq PlainBuffers /\ cmd.micromap \in Maybe(Micromaps)
        /\ cmd.dst \in AccelerationStructures /\ cmd.src \in Maybe(AccelerationStructures)
        /\ cmd.scratchBuffer \in PlainBuffers
    BY <1>1, <1>5 DEF TypedBuild
  <2>3. /\ cmd.inputs \subseteq retained /\ Objects({cmd.micromap}) \subseteq retained
        /\ cmd.dst \in retained /\ Objects({cmd.src}) \subseteq retained /\ cmd.scratchBuffer \in retained
    BY <1>3, <2>1, <2>2 DEF Objects
  <2>4. /\ <<BufferNeed(cmd.dst, "AccelerationStructureWrite")>> \in Seq(HeldNeeds)
        /\ <<BufferNeed(cmd.scratchBuffer, "UnorderedAccess")>> \in Seq(HeldNeeds)
    BY <1>2, <2>2, <2>3, PlainHeld
  <2>5. /\ OptionalNeed(cmd.src, "AccelerationStructureRead") \in Seq(HeldNeeds)
        /\ OptionalNeed(cmd.micromap, "MicromapRead") \in Seq(HeldNeeds)
    BY <2>2, <2>3, OptionalHeld
  <2>6. EachNeeds(cmd.inputs, "AccelerationStructureBuildInput") \in Seq(HeldNeeds)
    BY <1>2, <1>4, <2>2, <2>3
  <2> QED
    BY <2>4, <2>5, <2>6, Joined, Zenon DEF StructureNeeds
<1>6. ASSUME cmd.id = "BuildMicromap" PROVE MicromapNeeds(cmd) \in Seq(HeldNeeds)
  <2>1. Objects({cmd.dst, cmd.scratchBuffer} \cup cmd.inputs) \subseteq retained
    BY <1>6, CallNames DEF HeldCommand
  <2>2. cmd.inputs \subseteq PlainBuffers /\ cmd.dst \in Micromaps /\ cmd.scratchBuffer \in PlainBuffers
    BY <1>1, <1>6 DEF TypedBuild
  <2>3. cmd.inputs \subseteq retained /\ cmd.dst \in retained /\ cmd.scratchBuffer \in retained
    BY <1>3, <2>1, <2>2 DEF Objects
  <2>4. <<BufferNeed(cmd.dst, "MicromapWrite"), BufferNeed(cmd.scratchBuffer, "UnorderedAccess")>> \in Seq(HeldNeeds)
    BY <1>2, <2>2, <2>3, PlainHeld
  <2>5. EachNeeds(cmd.inputs, "MicromapBuildInput") \in Seq(HeldNeeds)
    BY <1>2, <1>4, <2>2, <2>3
  <2> QED
    BY <2>4, <2>5, Joined, Zenon DEF MicromapNeeds
<1>7. ASSUME cmd.id \in {"CopyAccelerationStructure", "ConvertCooperativeVectorMatrix"}
      PROVE  cmd.dst \in retained /\ cmd.src \in retained
  <2>1. Objects({cmd.dst, cmd.src}) \subseteq retained
    BY <1>7, CallNames DEF HeldCommand
  <2> QED
    BY <1>1, <1>3, <1>7, <2>1 DEF TypedBuild, Objects
<1>8. cmd.id = "CopyAccelerationStructure" => StructureCopyNeeds(cmd) \in Seq(HeldNeeds)
  BY <1>1, <1>7, PlainHeld DEF TypedBuild, StructureCopyNeeds
<1>9. ASSUME cmd.id = "ExecuteClusterOperation" PROVE ClusterNeeds(cmd) \in Seq(HeldNeeds)
  <2>1. Objects({cmd.argCountBuffer, cmd.argsBuffer, cmd.scratchBuffer,
                 cmd.addressesBuffer, cmd.resultBuffer, cmd.sizesBuffer}) \subseteq retained
    BY <1>9, CallNames DEF HeldCommand
  <2>2. /\ cmd.argCountBuffer \in OptionalBuffers /\ cmd.argsBuffer \in PlainBuffers
        /\ cmd.scratchBuffer \in PlainBuffers /\ cmd.addressesBuffer \in OptionalBuffers
        /\ cmd.resultBuffer \in Maybe(AccelerationStructures) /\ cmd.sizesBuffer \in OptionalBuffers
    BY <1>1, <1>9 DEF TypedBuild
  <2>3. /\ cmd.argsBuffer \in retained /\ cmd.scratchBuffer \in retained
        /\ Objects({cmd.argCountBuffer}) \subseteq retained /\ Objects({cmd.addressesBuffer}) \subseteq retained
        /\ Objects({cmd.resultBuffer}) \subseteq retained /\ Objects({cmd.sizesBuffer}) \subseteq retained
    BY <1>3, <2>1, <2>2 DEF Objects
  <2>4. /\ <<BufferNeed(cmd.argsBuffer, "ShaderResource")>> \in Seq(HeldNeeds)
        /\ <<BufferNeed(cmd.scratchBuffer, "UnorderedAccess")>> \in Seq(HeldNeeds)
    BY <1>2, <2>2, <2>3, PlainHeld
  <2>5. /\ OptionalNeed(cmd.argCountBuffer, "ShaderResource") \in Seq(HeldNeeds)
        /\ OptionalNeed(cmd.addressesBuffer, "UnorderedAccess") \in Seq(HeldNeeds)
        /\ OptionalNeed(cmd.resultBuffer, "AccelerationStructureWrite") \in Seq(HeldNeeds)
        /\ OptionalNeed(cmd.sizesBuffer, "UnorderedAccess") \in Seq(HeldNeeds)
    BY <1>2, <2>2, <2>3, OptionalHeld
  <2> QED
    BY <2>4, <2>5, Joined, Zenon DEF ClusterNeeds
<1>10. cmd.id = "ConvertCooperativeVectorMatrix" => ConversionNeeds(cmd) \in Seq(HeldNeeds)
  BY <1>1, <1>2, <1>7, PlainHeld DEF TypedBuild, ConversionNeeds
<1>11. cmd.id = "Converted" => <<BufferNeed(cmd.dst, "ShaderResource")>> \in Seq(HeldNeeds)
  BY <1>1, <1>2, PlainHeld DEF TypedBuild, HeldCommand
<1> QED
  BY <1>5, <1>6, <1>8, <1>9, <1>10, <1>11

(* A buffer may be left out, and so may the records of a table.            *)
LEMMA NoneOptional == None \in OptionalBuffers /\ TableBuffer[None] \in OptionalBuffers
  BY CommandEncoderAssumption DEF OptionalBuffers, Maybe

(* Nothing bound holds nothing.                                            *)
LEMMA UnboundHeld == HeldBinding(Unbound) /\ BoundHeld([b \in BindPoints |-> Unbound])
<1>1. HeldBinding(Unbound)
  BY NoneOptional DEF HeldBinding, IsBinding, Unbound, Objects
<1> QED
  BY <1>1 DEF BoundHeld

(* No targets hold nothing.                                                *)
LEMMA NoTargetsHeld == TargetsHeld(NoTargets)
  BY DEF TargetsHeld, NoTargets, Range

(* A bind of what is retained leaves what is retained bound.               *)
LEMMA Rebinds ==
    ASSUME NEW old, NEW new, HeldBinding(old), HeldBinding(new)
    PROVE  HeldBinding(Rebound(old, new))
<1> DEFINE F == {"pipeline", "root", "table", "vb", "ib"}
           r == [f \in F |-> IF new[f] = None THEN old[f] ELSE new[f]]
<1>1. DOMAIN old = F
  BY DEF HeldBinding, IsBinding
<1>2. Rebound(old, new) = r
  BY <1>1 DEF Rebound
<1>3. /\ r.pipeline = (IF new.pipeline = None THEN old.pipeline ELSE new.pipeline)
      /\ r.root = (IF new.root = None THEN old.root ELSE new.root)
      /\ r.table = (IF new.table = None THEN old.table ELSE new.table)
      /\ r.vb = (IF new.vb = None THEN old.vb ELSE new.vb)
      /\ r.ib = (IF new.ib = None THEN old.ib ELSE new.ib)
  OBVIOUS
<1>4. r = [pipeline |-> r.pipeline, root |-> r.root, table |-> r.table, vb |-> r.vb, ib |-> r.ib]
  OBVIOUS
<1> HIDE DEF r
<1> QED
  BY <1>2, <1>3, <1>4 DEF HeldBinding, IsBinding, Objects

(* What is bound at one more bind point is retained as well.               *)
LEMMA OneBound ==
    ASSUME NEW bd, BoundHeld(bd), NEW p \in BindPoints, NEW r, HeldBinding(r)
    PROVE  BoundHeld([bd EXCEPT ![p] = r])
<1> DEFINE n == [bd EXCEPT ![p] = r]
<1>1. DOMAIN bd = BindPoints
  BY DEF BoundHeld
<1>2. n = [b \in BindPoints |-> n[b]] /\ \A b \in BindPoints : n[b] = IF b = p THEN r ELSE bd[b]
  BY <1>1
<1> HIDE DEF n
<1> QED
  BY <1>2 DEF BoundHeld

(* What a state command binds is retained.                                 *)
LEMMA ProgramHeld ==
    ASSUME NEW cmd, Typed(cmd), HeldCommand(cmd), cmd.id \in StateIds, NEW p
    PROVE  HeldBinding(NewProgram(p, cmd))
<1>1. cmd.root \in Roots /\ HeldThrough(cmd.root) \subseteq retained
  BY DEF HeldCommand, Typed, TypedPass, StateIds
<1>2. Objects({cmd.pipeline}) \subseteq retained
  BY PassNames DEF HeldCommand, StateIds, Objects
<1> DEFINE o == IF NewPipeline(p, cmd.pipeline) THEN cmd.pipeline ELSE None
           b == [pipeline |-> o, root |-> cmd.root, table |-> None, vb |-> None, ib |-> None]
<1>3. Objects({o}) \subseteq retained
  BY <1>2 DEF Objects
<1>4. NewProgram(p, cmd) = b
  <2>1. NewProgram(p, cmd) = [Unbound EXCEPT !.pipeline = o, !.root = cmd.root]
    BY Zenon DEF NewProgram
  <2> HIDE DEF o
  <2> QED
    BY <2>1 DEF Unbound
<1> HIDE DEF o
<1>5. HeldBinding(b)
  BY <1>1, <1>3, NoneOptional DEF HeldBinding, IsBinding, Objects
<1> QED
  BY <1>4, <1>5

(* So is the geometry a state of a render pass binds.                      *)
LEMMA RenderStateHeld ==
    ASSUME NEW cmd, Typed(cmd), HeldCommand(cmd), cmd.id = "SetRenderState"
    PROVE  HeldBinding(NewRenderState(cmd))
<1> DEFINE p == NewProgram("Render", cmd)
           stale == "Render" \notin valid
           v == IF stale \/ cmd.vb # renderState.vb THEN cmd.vb ELSE None
           i == IF stale \/ cmd.ib # renderState.ib THEN cmd.ib ELSE None
<1>1. HeldBinding(p)
  BY ProgramHeld DEF StateIds
<1>2. Objects({v, i}) \subseteq retained /\ v \in OptionalBuffers /\ i \in OptionalBuffers
  BY NoneOptional DEF HeldCommand, Objects, Typed, TypedPass
<1>3. NewRenderState(cmd) = [p EXCEPT !.vb = v, !.ib = i]
  BY DEF NewRenderState
<1> HIDE DEF p, v, i
<1> QED
  BY <1>1, <1>2, <1>3 DEF HeldBinding, IsBinding, Objects

(* What a list joined of two uses.                                         *)
LEMMA JoinedUses ==
    ASSUME NEW S, NEW a \in Seq(S), NEW b \in Seq(S)
    PROVE  Range(a \o b) = Range(a) \cup Range(b) /\ Uses(Range(a \o b)) = Uses(Range(a)) \cup Uses(Range(b))
<1> DEFINE c == a \o b
<1>1. DOMAIN c = 1..(Len(a) + Len(b)) /\ Len(a) \in Nat /\ Len(b) \in Nat
      /\ DOMAIN a = 1..Len(a) /\ DOMAIN b = 1..Len(b)
  OBVIOUS
<1>2. \A i \in 1..(Len(a) + Len(b)) : c[i] = IF i <= Len(a) THEN a[i] ELSE b[i - Len(a)]
  OBVIOUS
<1> HIDE DEF c
<1>3. \A j \in 1..Len(b) : c[j + Len(a)] = b[j] /\ j + Len(a) \in 1..(Len(a) + Len(b))
  BY <1>1, <1>2
<1>4. \A j \in 1..Len(a) : c[j] = a[j] /\ j \in 1..(Len(a) + Len(b))
  BY <1>1, <1>2
<1>5. \A i \in 1..(Len(a) + Len(b)) : \/ i \in 1..Len(a) /\ c[i] = a[i]
                                      \/ i - Len(a) \in 1..Len(b) /\ c[i] = b[i - Len(a)]
  BY <1>1, <1>2
<1>6. Range(c) = Range(a) \cup Range(b)
  <2>1. Range(c) = {c[i] : i \in 1..(Len(a) + Len(b))} /\ Range(a) = {a[i] : i \in 1..Len(a)}
        /\ Range(b) = {b[i] : i \in 1..Len(b)}
    BY <1>1 DEF Range
  <2> QED
    BY <1>3, <1>4, <1>5, <2>1
<1>7. Uses(Range(c)) = Uses(Range(a)) \cup Uses(Range(b))
  BY <1>6 DEF Uses
<1> QED
  BY <1>6, <1>7 DEF c

(* A command that executes with requirements of retained resources.        *)
LEMMA ExecutingHeld ==
    ASSUME NEW cmd, NEW needs, Uses(Range(needs)) \subseteq retained
    PROVE  Fed(Executing(cmd, needs)) /\ Executing(cmd, needs).barred = FALSE
<1>1. Executing(cmd, needs).uses = Uses(Range(needs)) /\ Executing(cmd, needs).barred = FALSE
  BY DEF Executing, Nothing
<1> QED
  BY <1>1 DEF Fed

(* Nothing uses nothing.                                                   *)
LEMMA NothingFed == Fed(Nothing) /\ Nothing.barred = FALSE
  BY DEF Fed, Nothing

(* A draw or dispatch uses what is bound, the targets and what it requires *)
(* itself; a shader table owns its records.                                *)
LEMMA LaunchHeld ==
    ASSUME NEW cmd, NEW p \in BindPoints, NEW needs \in Seq(Needs), Holding,
           Uses(Range(needs)) \ {TableBuffer[bound[p].table]} \subseteq retained
    PROVE  /\ Fed(Launching(cmd, p, needs)) /\ Launching(cmd, p, needs).barred = FALSE
           /\ DOMAIN Launching(cmd, p, needs) = DOMAIN Nothing
<1> DEFINE b == bound[p]
           root == IF b.root = None THEN <<>> ELSE Bindings[b.root]
           all == needs \o root \o attachments.needs
           e == Launching(cmd, p, needs)
<1>1. HeldBinding(b)
  BY DEF Holding, BoundHeld
<1>2. root \in Seq(Needs) /\ attachments.needs \in Seq(HeldNeeds) /\ attachments.needs \in Seq(Needs)
  BY <1>1, RootNeeds DEF Holding, TargetsHeld, HeldBinding, HeldNeeds
<1>3. Uses(Range(attachments.needs)) \subseteq retained
  BY <1>2, UsesOfHeld
<1>4. Uses(Range(all)) = Uses(Range(needs)) \cup Uses(Range(root)) \cup Uses(Range(attachments.needs))
  <2> DEFINE c == needs \o root
  <2>1. c \in Seq(Needs)
    BY <1>2, Joined
  <2> HIDE DEF root
  <2>2. Uses(Range(c)) = Uses(Range(needs)) \cup Uses(Range(root))
    BY <1>2, JoinedUses
  <2>3. all = c \o attachments.needs
    OBVIOUS
  <2> DEFINE n == attachments.needs
  <2>4. n \in Seq(Needs)
    BY <1>2
  <2> HIDE DEF c, n
  <2>5. Uses(Range(c \o n)) = Uses(Range(c)) \cup Uses(Range(n))
    BY <2>1, <2>4, JoinedUses
  <2> HIDE DEF all
  <2> QED
    BY <2>2, <2>3, <2>5, Zenon DEF n
<1>5. /\ e.uses = (Uses(Range(all)) \ {TableBuffer[b.table]}) \cup Objects({b.pipeline, b.table})
      /\ e.bound = b /\ e.barred = FALSE /\ DOMAIN e = DOMAIN Nothing
  <2>1. e = [Executing(cmd, all) EXCEPT !.uses = (@ \ {TableBuffer[b.table]}) \cup Objects({b.pipeline, b.table}),
                                        !.bound = b, !.asked = cmd.asked, !.failed = cmd.failed]
    BY Zenon DEF Launching
  <2> DEFINE x == Executing(cmd, all)
  <2>2. x.uses = Uses(Range(all)) /\ x.barred = FALSE /\ DOMAIN x = DOMAIN Nothing
        /\ x = [y \in DOMAIN Nothing |-> x[y]]
    <3> HIDE DEF all
    <3> QED
      BY DEF Executing, Nothing
  <2>3. DOMAIN Nothing = {"id", "needs", "uses", "bound", "asked", "failed", "barred", "raced"}
    BY DEF Nothing
  <2> HIDE DEF x, b, e, all
  <2> QED
    BY <2>1, <2>2, <2>3 DEF x
<1>6. Uses(Range(root)) \ Streamed(b) \subseteq retained
  <2>1. CASE b.root = None
    <3>1. Range(root) = {}
      BY <2>1 DEF Range
    <3> QED
      BY <3>1 DEF Uses
  <2>2. CASE b.root # None
    <3>1. HeldThrough(b.root) \subseteq retained
      BY <1>1, <2>2 DEF HeldBinding
    <3> QED
      BY <2>2, <3>1, Zenon DEF HeldThrough, Streamed
  <2> QED
    BY <2>1, <2>2
<1>7. Objects({b.pipeline, b.table}) \subseteq retained
  BY <1>1 DEF HeldBinding, Objects
<1> HIDE DEF all, e, root, b
<1> QED
  BY <1>3, <1>4, <1>5, <1>6, <1>7 DEF Fed, b, e

(* What a draw reads its vertices and indices from is retained.            *)
LEMMA BoundGeometry ==
    ASSUME Holding PROVE VertexNeeds \in Seq(HeldNeeds) /\ IndexedNeeds \in Seq(HeldNeeds)
<1> DEFINE b == bound["Render"]
<1>1. HeldBinding(b)
  BY DEF Holding, BoundHeld, BindPoints
<1>2. b.vb \in OptionalBuffers /\ b.ib \in OptionalBuffers
      /\ Objects({b.vb}) \subseteq retained /\ Objects({b.ib}) \subseteq retained
  BY <1>1 DEF HeldBinding, IsBinding, Objects
<1> HIDE DEF b
<1>3. GeometryNeeds(b.vb, b.ib) \in Seq(HeldNeeds)
  BY <1>2, GeometryHeld
<1>4. OptionalNeed(b.vb, "VertexBuffer") \in Seq(HeldNeeds)
  BY <1>2, OptionalHeld, PlainStates
<1> QED
  BY <1>3, <1>4 DEF VertexNeeds, IndexedNeeds, b

(* The colour targets of a pass, what they are resolved to and its depth   *)
(* target are retained.                                                    *)
LEMMA DescHeld ==
    ASSUME NEW cmd, Typed(cmd), HeldCommand(cmd), cmd.id = "BeginRenderPass"
    PROVE  /\ cmd.desc \in RenderTargets
           /\ \A i \in DOMAIN cmd.desc.colors :
                 /\ cmd.desc.colors[i].view.res \in retained
                 /\ cmd.desc.colors[i].resolve.res # None => cmd.desc.colors[i].resolve.res \in retained
           /\ cmd.desc.depth.view.res # None => cmd.desc.depth.view.res \in retained
<1>1. cmd.desc \in RenderTargets
  BY DEF Typed, TypedPass
<1>2. Objects((UNION {{a.view.res, a.resolve.res} : a \in Range(cmd.desc.colors)}) \cup {cmd.desc.depth.view.res})
         \subseteq retained
  BY PassNames DEF HeldCommand
<1>3. \A i \in DOMAIN cmd.desc.colors :
         cmd.desc.colors[i] \in Range(cmd.desc.colors) /\ cmd.desc.colors[i].view \in Views
  BY <1>1, DescTyped DEF Range
<1>4. \A v \in Views : v.res # None
  BY CommandEncoderAssumption DEF Views, Resources
<1> QED
  BY <1>1, <1>2, <1>3, <1>4 DEF Objects

(* Requirements of views of what is retained.                              *)
LEMMA HeldViews ==
    /\ \A v \in Views : v.res \in retained =>
          \A s \in States : ViewNeed(v, s) \in HeldNeeds /\ Need(v.res, v.range, s) \in HeldNeeds
    /\ {"RenderTarget", "DepthRead", "DepthWrite", "ResolveSource", "ResolveDestination"} \subseteq States
<1>1. \A v \in Views : \A s \in States : ViewNeed(v, s) \in Needs /\ Need(v.res, v.range, s) \in Needs
  BY ViewsTyped
<1>2. \A v, s : ViewNeed(v, s).res = v.res /\ Need(v.res, v.range, s).res = v.res
  BY DEF ViewNeed, Need
<1> QED
  BY <1>1, <1>2, PlainStates DEF HeldNeeds

(* What is required of the targets of a pass is of what is retained.       *)
LEMMA TargetNeedsHeld ==
    ASSUME NEW cmd, Typed(cmd), HeldCommand(cmd), cmd.id = "BeginRenderPass"
    PROVE  TargetNeeds(cmd.desc) \in Seq(HeldNeeds)
<1> DEFINE desc == cmd.desc
           colors == [i \in DOMAIN desc.colors |-> ViewNeed(desc.colors[i].view, "RenderTarget")]
           depth == IF desc.depth.view.res = None THEN <<>>
                    ELSE <<ViewNeed(desc.depth.view, IF desc.depth.readOnly THEN "DepthRead" ELSE "DepthWrite")>>
<1>1. colors \in Seq(HeldNeeds)
  <2>1. \A i \in DOMAIN desc.colors : ViewNeed(desc.colors[i].view, "RenderTarget") \in HeldNeeds
    BY DescHeld, DescTyped, HeldViews
  <2>2. colors \in [1..Len(desc.colors) -> HeldNeeds] /\ Len(desc.colors) \in Nat
    BY <2>1, DescHeld, DescTyped
  <2> HIDE DEF colors
  <2> QED
    BY <2>2
<1>2. depth \in Seq(HeldNeeds)
  <2>1. CASE desc.depth.view.res = None
    BY <2>1
  <2>2. CASE desc.depth.view.res # None
    <3>1. desc.depth.view \in Views /\ desc.depth.view.res \in retained
      BY <2>2, DescHeld, DescTyped, ViewsTyped
    <3> QED
      BY <2>2, <3>1, HeldViews
  <2> QED
    BY <2>1, <2>2
<1> HIDE DEF colors, depth
<1>3. colors \o depth \in Seq(HeldNeeds)
  BY <1>1, <1>2
<1> QED
  BY <1>3, Zenon DEF TargetNeeds, colors, depth

(* So is what the targets are resolved to.                                 *)
LEMMA ResolvedColorsHeld ==
    ASSUME NEW cmd, Typed(cmd), HeldCommand(cmd), cmd.id = "BeginRenderPass"
    PROVE  ResolvedColors(cmd.desc) \in Seq(HeldResolved)
<1> DEFINE desc == cmd.desc
           f == [i \in DOMAIN desc.colors |->
                   IF desc.colors[i].resolve.res = None THEN <<>> ELSE <<desc.colors[i]>>]
           n == Len(desc.colors)
<1>1. n \in Nat /\ DOMAIN desc.colors = 1..n /\ \A i \in 1..n : desc.colors[i] \in Targets
  BY DescHeld, DescTyped
<1>2. ASSUME NEW i \in 1..n PROVE f[i] \in Seq(HeldResolved)
  <2>1. CASE desc.colors[i].resolve.res = None
    BY <1>1, <2>1
  <2>2. CASE desc.colors[i].resolve.res # None
    <3>1. desc.colors[i] \in HeldResolved
      BY <1>1, <2>2, DescHeld DEF HeldResolved, ResolvedTargets
    <3> QED
      BY <1>1, <2>2, <3>1
  <2> QED
    BY <2>1, <2>2
<1>3. DOMAIN f = 1..n /\ f = [i \in 1..n |-> f[i]]
  BY <1>1
<1> HIDE DEF f, n
<1>4. FlattenSeq(f) \in Seq(HeldResolved)
  BY <1>1, <1>2, <1>3, EachTypedAt
<1> QED
  BY <1>4, Zenon DEF ResolvedColors, f

(* A command that is skipped, or left out.                                 *)
LEMMA SkipKept == ASSUME Holding, NEW cmd, Skip \/ Dropped(cmd) PROVE Kept
<1>1. Fed(executing') /\ executing'.barred = FALSE
  BY NothingFed DEF Skip, Dropped, Fed, Nothing
<1>2. UNCHANGED <<bound, attachments>>
  BY DEF Skip, Dropped, recorder
<1> QED
  BY <1>1, <1>2 DEF Kept, Holding

(* A command that uses what it names and binds nothing.                    *)
LEMMA UsingFed ==
    ASSUME NEW cmd, NEW objects, Objects(objects) \subseteq retained
    PROVE  Fed(Using(cmd, objects)) /\ Using(cmd, objects).barred = FALSE
  BY DEF Fed, Using, Nothing

(* Such a step of a recorder that keeps no states.                         *)
LEMMA PerformKept ==
    ASSUME Holding, NEW cmd, NEW objects, Objects(objects) \subseteq retained, Perform(cmd, objects)
    PROVE  Kept
<1>1. UNCHANGED <<bound, attachments>> /\ executing' = Using(cmd, objects)
  BY DEF Perform, recorder
<1> QED
  BY <1>1, UsingFed DEF Kept, Holding

(* A draw or dispatch of a recorder that keeps no states.                  *)
LEMMA LaunchedFed ==
    ASSUME Holding, NEW cmd, NEW p \in BindPoints, NEW needs \in Seq(HeldNeeds)
    PROVE  /\ Fed(Launched(cmd, p, needs)) /\ Launched(cmd, p, needs).barred = FALSE
           /\ \A r : Fed([Launched(cmd, p, needs) EXCEPT !.raced = r])
                     /\ [Launched(cmd, p, needs) EXCEPT !.raced = r].barred = FALSE
<1> DEFINE e == Launching(cmd, p, needs)
<1>1. needs \in Seq(Needs) /\ Uses(Range(needs)) \subseteq retained
  BY UsesOfHeld DEF HeldNeeds
<1>2. Fed(e) /\ e.barred = FALSE /\ DOMAIN e = DOMAIN Nothing
  BY <1>1, LaunchHeld
<1>3. DOMAIN Nothing = {"id", "needs", "uses", "bound", "asked", "failed", "barred", "raced"}
  BY DEF Nothing
<1> HIDE DEF e
<1>4. Launched(cmd, p, needs) = [e EXCEPT !.needs = {}]
  BY DEF Launched, e
<1> QED
  BY <1>2, <1>3, <1>4 DEF Fed

(* Such a step, where a bind point without a valid state may drop it.      *)
LEMMA LaunchKept ==
    ASSUME Holding, NEW cmd, NEW p \in BindPoints, NEW needs \in Seq(HeldNeeds),
           Launch(cmd, p, needs) \/ LaunchOrDrop(cmd, p, needs)
    PROVE  Kept
<1>1. CASE Launch(cmd, p, needs)
  <2>1. UNCHANGED <<bound, attachments>> /\ executing' = Launched(cmd, p, needs)
    BY <1>1 DEF Launch, recorder
  <2> QED
    BY <2>1, LaunchedFed DEF Kept, Holding
<1>2. CASE LaunchOrDrop(cmd, p, needs)
  BY <1>1, <1>2, SkipKept DEF LaunchOrDrop
<1> QED
  BY <1>1, <1>2

(* A state command that binds what is retained.                            *)
LEMMA BindKept ==
    ASSUME Holding, NEW p \in BindPoints, NEW r, HeldBinding(r),
           bound' = [bound EXCEPT ![p] = Rebound(@, r)], executing' = Nothing, attachments' = attachments
    PROVE  Kept
<1>1. HeldBinding(bound[p])
  BY DEF Holding, BoundHeld
<1>2. HeldBinding(Rebound(bound[p], r))
  BY <1>1, Rebinds
<1>3. bound' = [bound EXCEPT ![p] = Rebound(bound[p], r)]
  BY Zenon
<1> DEFINE n == [bound EXCEPT ![p] = Rebound(bound[p], r)]
<1>4. BoundHeld(n)
  BY <1>2, OneBound DEF Holding
<1>5. bound' = n
  BY <1>3
<1> HIDE DEF n
<1> QED
  BY <1>4, <1>5, NothingFed DEF Kept, Holding


(* What a root object that is bound needs is retained.                     *)
HeldRoot(r) == r # None => r \in Roots /\ HeldThrough(r) \subseteq retained

(* What is bound stays retained when one of its fields becomes another     *)
(* object that is.                                                         *)
LEMMA FieldsHeld ==
    ASSUME NEW b, HeldBinding(b)
    PROVE  /\ \A x : Objects({x}) \subseteq retained => HeldBinding([b EXCEPT !.pipeline = x])
           /\ \A x : HeldRoot(x) => HeldBinding([b EXCEPT !.root = x])
           /\ \A x : Objects({x}) \subseteq retained /\ TableBuffer[x] \in OptionalBuffers =>
                 HeldBinding([b EXCEPT !.table = x])
           /\ \A x : Objects({x}) \subseteq retained /\ x \in OptionalBuffers =>
                 HeldBinding([b EXCEPT !.vb = x]) /\ HeldBinding([b EXCEPT !.ib = x])
<1>1. DOMAIN b = {"pipeline", "root", "table", "vb", "ib"}
  BY DEF HeldBinding, IsBinding
<1> QED
  BY <1>1 DEF HeldBinding, IsBinding, HeldRoot, Objects


(* A new pipeline, root object and table at a bind point.                  *)
LEMMA ReplacedHeld ==
    ASSUME NEW b, HeldBinding(b), NEW p, Objects({p}) \subseteq retained, NEW r, HeldRoot(r),
           NEW t, Objects({t}) \subseteq retained, TableBuffer[t] \in OptionalBuffers
    PROVE  /\ HeldBinding([b EXCEPT !.root = r])
           /\ HeldBinding([b EXCEPT !.pipeline = p, !.root = r])
           /\ HeldBinding([[b EXCEPT !.root = r] EXCEPT !.pipeline = p, !.table = t])
<1> DEFINE c == [b EXCEPT !.root = r]
           d == [c EXCEPT !.pipeline = p]
           e == [d EXCEPT !.table = t]
<1>1. DOMAIN b = {"pipeline", "root", "table", "vb", "ib"}
  BY DEF HeldBinding, IsBinding
<1>2. [b EXCEPT !.pipeline = p, !.root = r] = d /\ [c EXCEPT !.pipeline = p, !.table = t] = e
  BY <1>1
<1>3. HeldBinding(c)
  BY FieldsHeld
<1> HIDE DEF c
<1>4. HeldBinding(d)
  BY <1>3, FieldsHeld
<1> HIDE DEF d
<1>5. HeldBinding(e)
  BY <1>4, FieldsHeld
<1> QED
  BY <1>2, <1>3, <1>4, <1>5, Zenon DEF c


-----------------------------------------------------------------------------
(* The recorders that put barriers in.                                     *)

(* The table that is bound is the one the recorder remembers.              *)
BoundTable == "RayTracing" \in valid => bound["RayTracing"].table = table

(* Vulkan's recorder is made of the common parts.                          *)
LEMMA VulkanParts ==
    /\ Vulkan!Skip <=> Skip
    /\ Vulkan!Nothing = Nothing /\ Vulkan!NoTargets = NoTargets /\ Vulkan!Unbound = Unbound /\ Vulkan!BindPoints = BindPoints
    /\ Vulkan!VertexNeeds = VertexNeeds /\ Vulkan!IndexedNeeds = IndexedNeeds
    /\ \A cmd, needs : Vulkan!Executing(cmd, needs) = Executing(cmd, needs)
    /\ \A cmd, p, needs : Vulkan!Launching(cmd, p, needs) = Launching(cmd, p, needs)
    /\ \A cmd : (Vulkan!Dropped(cmd) <=> Dropped(cmd)) /\ Vulkan!NewRenderState(cmd) = NewRenderState(cmd)
    /\ \A p, q : Vulkan!NewPipeline(p, q) <=> NewPipeline(p, q)
    /\ \A p, cmd : Vulkan!NewProgram(p, cmd) = NewProgram(p, cmd)
    /\ \A x, y : Vulkan!Rebound(x, y) = Rebound(x, y)
    /\ \A v, s : Vulkan!ViewNeed(v, s) = ViewNeed(v, s)
    /\ \A desc : Vulkan!ResolvedColors(desc) = ResolvedColors(desc)
    /\ \A S : Vulkan!Objects(S) = Objects(S)
<1> USE DEF Vulkan!Nothing, Nothing, Vulkan!Unbound, Unbound, Vulkan!Objects, Objects
<1>1. Vulkan!Skip <=> Skip
  BY Zenon DEF Vulkan!Skip, Skip, Vulkan!recorder, recorder
<1>2. Vulkan!VertexNeeds = VertexNeeds /\ Vulkan!IndexedNeeds = IndexedNeeds
  BY VulkanLists, Zenon DEF Vulkan!VertexNeeds, VertexNeeds, Vulkan!IndexedNeeds, IndexedNeeds
<1>3. \A cmd, needs : Vulkan!Executing(cmd, needs) = Executing(cmd, needs)
  BY Zenon DEF Vulkan!Executing, Executing, Vulkan!Uses, Uses, Vulkan!Range, Range
<1>4. \A cmd, p, needs : Vulkan!Launching(cmd, p, needs) = Launching(cmd, p, needs)
  BY <1>3, Zenon DEF Vulkan!Launching, Launching
<1>5. \A cmd : Vulkan!Dropped(cmd) <=> Dropped(cmd)
  BY Zenon DEF Vulkan!Dropped, Dropped, Vulkan!recorder, recorder
<1>6. \A p, q : Vulkan!NewPipeline(p, q) <=> NewPipeline(p, q)
  BY Zenon DEF Vulkan!NewPipeline, NewPipeline
<1>7. \A p, cmd : Vulkan!NewProgram(p, cmd) = NewProgram(p, cmd)
  BY Zenon DEF Vulkan!NewProgram, NewProgram, Vulkan!NewPipeline, NewPipeline
<1>8. \A cmd : Vulkan!NewRenderState(cmd) = NewRenderState(cmd)
  BY <1>7, Zenon DEF Vulkan!NewRenderState, NewRenderState
<1>9. \A x, y : Vulkan!Rebound(x, y) = Rebound(x, y)
  BY Zenon DEF Vulkan!Rebound, Rebound
<1>10. \A v, s : Vulkan!ViewNeed(v, s) = ViewNeed(v, s)
  BY VulkanNeeds, Zenon DEF Vulkan!ViewNeed, ViewNeed
<1>11. \A desc : Vulkan!ResolvedColors(desc) = ResolvedColors(desc)
  BY VulkanFlatten, Zenon DEF Vulkan!ResolvedColors, ResolvedColors
<1>12. Vulkan!NoTargets = NoTargets /\ Vulkan!BindPoints = BindPoints
  BY DEF Vulkan!NoTargets, NoTargets, Vulkan!BindPoints, BindPoints
<1> QED
  BY <1>1, <1>2, <1>3, <1>4, <1>5, <1>6, <1>7, <1>8, <1>9, <1>10, <1>11, <1>12

(* D3D12's recorder is made of the common parts.                           *)
LEMMA D3D12Parts ==
    /\ D3D12!Skip <=> Skip
    /\ D3D12!Nothing = Nothing /\ D3D12!NoTargets = NoTargets /\ D3D12!Unbound = Unbound /\ D3D12!BindPoints = BindPoints
    /\ D3D12!VertexNeeds = VertexNeeds /\ D3D12!IndexedNeeds = IndexedNeeds
    /\ \A cmd, needs : D3D12!Executing(cmd, needs) = Executing(cmd, needs)
    /\ \A cmd, p, needs : D3D12!Launching(cmd, p, needs) = Launching(cmd, p, needs)
    /\ \A cmd : (D3D12!Dropped(cmd) <=> Dropped(cmd)) /\ D3D12!NewRenderState(cmd) = NewRenderState(cmd)
    /\ \A p, q : D3D12!NewPipeline(p, q) <=> NewPipeline(p, q)
    /\ \A p, cmd : D3D12!NewProgram(p, cmd) = NewProgram(p, cmd)
    /\ \A x, y : D3D12!Rebound(x, y) = Rebound(x, y)
    /\ \A v, s : D3D12!ViewNeed(v, s) = ViewNeed(v, s)
    /\ \A desc : D3D12!ResolvedColors(desc) = ResolvedColors(desc)
    /\ \A S : D3D12!Objects(S) = Objects(S)
<1> USE DEF D3D12!Nothing, Nothing, D3D12!Unbound, Unbound, D3D12!Objects, Objects
<1>1. D3D12!Skip <=> Skip
  BY Zenon DEF D3D12!Skip, Skip, D3D12!recorder, recorder
<1>2. D3D12!VertexNeeds = VertexNeeds /\ D3D12!IndexedNeeds = IndexedNeeds
  BY D3D12Lists, Zenon DEF D3D12!VertexNeeds, VertexNeeds, D3D12!IndexedNeeds, IndexedNeeds
<1>3. \A cmd, needs : D3D12!Executing(cmd, needs) = Executing(cmd, needs)
  BY Zenon DEF D3D12!Executing, Executing, D3D12!Uses, Uses, D3D12!Range, Range
<1>4. \A cmd, p, needs : D3D12!Launching(cmd, p, needs) = Launching(cmd, p, needs)
  BY <1>3, Zenon DEF D3D12!Launching, Launching
<1>5. \A cmd : D3D12!Dropped(cmd) <=> Dropped(cmd)
  BY Zenon DEF D3D12!Dropped, Dropped, D3D12!recorder, recorder
<1>6. \A p, q : D3D12!NewPipeline(p, q) <=> NewPipeline(p, q)
  BY Zenon DEF D3D12!NewPipeline, NewPipeline
<1>7. \A p, cmd : D3D12!NewProgram(p, cmd) = NewProgram(p, cmd)
  BY Zenon DEF D3D12!NewProgram, NewProgram, D3D12!NewPipeline, NewPipeline
<1>8. \A cmd : D3D12!NewRenderState(cmd) = NewRenderState(cmd)
  BY <1>7, Zenon DEF D3D12!NewRenderState, NewRenderState
<1>9. \A x, y : D3D12!Rebound(x, y) = Rebound(x, y)
  BY Zenon DEF D3D12!Rebound, Rebound
<1>10. \A v, s : D3D12!ViewNeed(v, s) = ViewNeed(v, s)
  BY D3D12Needs, Zenon DEF D3D12!ViewNeed, ViewNeed
<1>11. \A desc : D3D12!ResolvedColors(desc) = ResolvedColors(desc)
  BY D3D12Flatten, Zenon DEF D3D12!ResolvedColors, ResolvedColors
<1>12. D3D12!NoTargets = NoTargets /\ D3D12!BindPoints = BindPoints
  BY DEF D3D12!NoTargets, NoTargets, D3D12!BindPoints, BindPoints
<1> QED
  BY <1>1, <1>2, <1>3, <1>4, <1>5, <1>6, <1>7, <1>8, <1>9, <1>10, <1>11, <1>12

(* What one or two requirements use.                                       *)
LEMMA FewUses ==
    /\ Uses(Range(<<>>)) = {}
    /\ \A a, s, r : Uses(Range(<<Need(a, r, s)>>)) = {a}
    /\ \A a, s, r, b, t, q : Uses(Range(<<Need(a, r, s), Need(b, q, t)>>)) = {a, b}
<1>1. Range(<<>>) = {} /\ (\A x : Range(<<x>>) = {x}) /\ \A x, y : Range(<<x, y>>) = {x, y}
  BY DEF Range
<1>2. \A a, s, r : Need(a, r, s).res = a
  BY DEF Need
<1> QED
  BY <1>1, <1>2 DEF Uses

(* A command that executes with what it requires, and binds nothing.       *)
LEMMA ExecuteKept ==
    ASSUME Holding, NEW cmd, NEW needs, Uses(Range(needs)) \subseteq retained,
           executing' \in {Executing(cmd, needs), Nothing}, UNCHANGED <<bound, attachments>>
    PROVE  Kept
  BY ExecutingHeld, NothingFed DEF Kept, Holding

(* A draw or dispatch of a recorder that puts barriers in.                 *)
LEMMA LaunchingKept ==
    ASSUME Holding, NEW cmd, NEW p \in BindPoints, NEW needs \in Seq(HeldNeeds),
           executing' = Launching(cmd, p, needs), UNCHANGED <<bound, attachments>>
    PROVE  Kept
<1>1. needs \in Seq(Needs) /\ Uses(Range(needs)) \subseteq retained
  BY UsesOfHeld DEF HeldNeeds
<1> QED
  BY <1>1, LaunchHeld DEF Kept, Holding

(* The records of the table that is bound belong to it.                    *)
LEMMA RaysHeld ==
    ASSUME Holding, BoundTable, "RayTracing" \in valid, NEW cmd
    PROVE  LET needs == OptionalNeed(TableBuffer[table], "ShaderResource")
           IN /\ Fed(Launching(cmd, "RayTracing", needs)) /\ Launching(cmd, "RayTracing", needs).barred = FALSE
              /\ DOMAIN Launching(cmd, "RayTracing", needs) = DOMAIN Nothing
<1> DEFINE t == TableBuffer[table]
           needs == OptionalNeed(t, "ShaderResource")
<1>1. t = TableBuffer[bound["RayTracing"].table] /\ t \in OptionalBuffers
  BY DEF BoundTable, Holding, BoundHeld, BindPoints, HeldBinding, IsBinding
<1> HIDE DEF t
<1>2. needs \in Seq(Needs)
  BY <1>1, OptionalNeeds, PlainStates
<1>3. Uses(Range(needs)) \subseteq {t}
  <2>1. needs = <<>> \/ needs = <<BufferNeed(t, "ShaderResource")>>
    BY DEF OptionalNeed
  <2> QED
    BY <2>1, FewUses DEF BufferNeed
<1> HIDE DEF needs
<1>4. Uses(Range(needs)) \ {TableBuffer[bound["RayTracing"].table]} \subseteq retained
  BY <1>1, <1>3
<1> QED
  BY <1>2, <1>4, LaunchHeld DEF needs, t, BindPoints

(* What the D3D12 transfers use is retained.                               *)
LEMMA D3D12TransfersKept ==
    ASSUME Holding, NEW cmd, Typed(cmd), HeldCommand(cmd),
           \/ D3D12!CmdCopyBuffer(cmd) \/ D3D12!CmdCopyTexture(cmd) \/ D3D12!CmdCopyTextureToBuffer(cmd)
           \/ D3D12!CmdClearBuffer(cmd) \/ D3D12!CmdClearTextureFloat(cmd) \/ D3D12!CmdClearTextureUint(cmd)
           \/ D3D12!CmdClearTextureDepthStencil(cmd) \/ D3D12!CmdUploadTextureData(cmd) \/ D3D12!CmdResolveQuery(cmd)
    PROVE  Kept /\ UNCHANGED <<bound, valid, table>>
<1>1. ASSUME NEW needs, Uses(Range(needs)) \subseteq retained, D3D12!Perform(cmd, needs)
      PROVE  Kept /\ UNCHANGED <<bound, valid, table>>
  <2>1. executing' = Executing(cmd, needs) /\ UNCHANGED <<bound, valid, table, attachments>>
    BY <1>1, D3D12Parts DEF D3D12!Perform, D3D12!StateUntouched
  <2> QED
    BY <1>1, <2>1, ExecuteKept
<1>2. ASSUME D3D12!Skip PROVE Kept /\ UNCHANGED <<bound, valid, table>>
  BY <1>2, D3D12Parts, SkipKept DEF Skip, recorder
<1>3. CASE D3D12!CmdCopyBuffer(cmd)
  <2>1. cmd.id = "CopyBuffer" /\ D3D12!Perform(cmd, CopyNeeds(cmd))
    BY <1>3, D3D12Needs, Zenon DEF D3D12!CmdCopyBuffer, CopyNeeds
  <2> QED
    BY <1>1, <2>1, TransfersHeld, UsesOfHeld
<1>4. CASE D3D12!CmdCopyTexture(cmd)
  <2>1. cmd.id = "CopyTexture" /\ \E p, q : D3D12!Perform(cmd, <<D3D12!Need(cmd.dst, p, "CopyDestination"),
                                                                  D3D12!Need(cmd.src, q, "CopySource")>>)
    BY <1>4, Zenon DEF D3D12!CmdCopyTexture
  <2>2. PICK p, q : D3D12!Perform(cmd, <<Need(cmd.dst, p, "CopyDestination"), Need(cmd.src, q, "CopySource")>>)
    BY <2>1, D3D12Needs, Zenon
  <2> DEFINE needs == <<Need(cmd.dst, p, "CopyDestination"), Need(cmd.src, q, "CopySource")>>
  <2>3. Uses(Range(needs)) \subseteq retained
    BY <2>1, TransfersHeld, FewUses
  <2>4. D3D12!Perform(cmd, needs)
    BY <2>2
  <2> HIDE DEF needs
  <2> QED
    BY <1>1, <2>3, <2>4
<1>5. CASE D3D12!CmdCopyTextureToBuffer(cmd)
  <2>1. cmd.id = "CopyTextureToBuffer" /\ D3D12!Perform(cmd, ReadNeeds(cmd))
    BY <1>5, D3D12Needs, Zenon DEF D3D12!CmdCopyTextureToBuffer, ReadNeeds
  <2> QED
    BY <1>1, <2>1, TransfersHeld, UsesOfHeld
<1>6. CASE D3D12!CmdClearBuffer(cmd) \/ D3D12!CmdResolveQuery(cmd)
  <2>1. PICK s \in {"CopyDestination", "UnorderedAccess"} :
           cmd.id \in {"ClearBuffer", "ResolveQuery"} /\ D3D12!Perform(cmd, <<BufferNeed(cmd.dst, s)>>)
    BY <1>6, D3D12Needs, Zenon DEF D3D12!CmdClearBuffer, D3D12!CmdResolveQuery
  <2>2. <<BufferNeed(cmd.dst, s)>> \in Seq(HeldNeeds)
    BY <2>1, TransfersHeld
  <2> QED
    BY <1>1, <2>1, <2>2, UsesOfHeld
<1>7. CASE D3D12!CmdClearTextureFloat(cmd) \/ D3D12!CmdClearTextureUint(cmd)
          \/ D3D12!CmdClearTextureDepthStencil(cmd)
  <2>1. cmd.id = "ClearTexture" /\ \E states : D3D12!ClearThrough(cmd, states)
    BY <1>7, Zenon DEF D3D12!CmdClearTextureFloat, D3D12!CmdClearTextureUint, D3D12!CmdClearTextureDepthStencil
  <2>2. D3D12!Skip \/ \E s : D3D12!Perform(cmd, <<Need(cmd.dst, cmd.dstRange, s)>>)
    BY <2>1, D3D12Needs, Zenon DEF D3D12!ClearThrough
  <2>3. \A s : Uses(Range(<<Need(cmd.dst, cmd.dstRange, s)>>)) \subseteq retained
    BY <2>1, TransfersHeld, FewUses
  <2> QED
    BY <1>1, <1>2, <2>2, <2>3, Zenon
<1>8. CASE D3D12!CmdUploadTextureData(cmd)
  <2>1. cmd.id = "UploadTextureData" /\ D3D12!Perform(cmd, UploadNeeds(cmd))
    BY <1>8, D3D12Needs, Zenon DEF D3D12!CmdUploadTextureData, UploadNeeds
  <2> QED
    BY <1>1, <2>1, TransfersHeld, UsesOfHeld
<1> QED
  BY <1>3, <1>4, <1>5, <1>6, <1>7, <1>8

(* What the D3D12 builds, callbacks and timestamps use is retained.        *)
LEMMA D3D12BuildsKept ==
    ASSUME Holding, NEW cmd, Typed(cmd), HeldCommand(cmd),
           \/ D3D12!CmdBuildAccelerationStructure(cmd) \/ D3D12!CmdBuildMicromap(cmd)
           \/ D3D12!CmdCopyAccelerationStructure(cmd) \/ D3D12!CmdExecuteClusterOperation(cmd)
           \/ D3D12!CmdConvertCooperativeVectorMatrix(cmd) \/ D3D12!Converted(cmd)
           \/ D3D12!CmdSetState(cmd) \/ D3D12!CmdWriteTimestamp(cmd) \/ D3D12!CmdGlobalBarrier(cmd)
           \/ D3D12!CmdExecuteCallback(cmd) \/ D3D12!CmdPass(cmd) \/ D3D12!Finish
    PROVE  Kept /\ (UNCHANGED <<bound, valid, table>> \/ valid' = {})
<1>1. ASSUME NEW needs \in Seq(HeldNeeds), executing' \in {Executing(cmd, needs), Nothing}, D3D12!StateUntouched
      PROVE  Kept /\ UNCHANGED <<bound, valid, table>>
  <2>1. UNCHANGED <<bound, valid, table, attachments>>
    BY <1>1 DEF D3D12!StateUntouched
  <2> QED
    BY <1>1, <2>1, ExecuteKept, UsesOfHeld
<1>2. ASSUME D3D12!Skip PROVE Kept /\ UNCHANGED <<bound, valid, table>>
  BY <1>2, D3D12Parts, SkipKept DEF Skip, recorder
<1>3. ASSUME NEW needs \in Seq(HeldNeeds), D3D12!Perform(cmd, needs)
      PROVE  Kept /\ UNCHANGED <<bound, valid, table>>
  <2>1. executing' \in {Executing(cmd, needs), Nothing} /\ D3D12!StateUntouched
    BY <1>3, D3D12Parts DEF D3D12!Perform
  <2> QED
    BY <1>1, <2>1
<1>4. CASE D3D12!CmdBuildAccelerationStructure(cmd)
  <2>1. cmd.id = "BuildAccelerationStructure" /\ D3D12!StateUntouched
        /\ executing' \in {Executing(cmd, StructureNeeds(cmd)), Nothing}
    BY <1>4, D3D12Parts, D3D12Needs, D3D12Lists, Zenon DEF D3D12!CmdBuildAccelerationStructure, StructureNeeds
  <2> QED
    BY <1>1, <2>1, BuildsHeld
<1>5. CASE D3D12!CmdBuildMicromap(cmd)
  <2>1. /\ cmd.id = "BuildMicromap"
        /\ D3D12!Perform(cmd, MicromapNeeds(cmd)) \/ (D3D12!StateUntouched /\ executing' = Nothing)
    BY <1>5, D3D12Parts, D3D12Needs, D3D12Lists, Zenon DEF D3D12!CmdBuildMicromap, MicromapNeeds
  <2> QED
    BY <1>1, <1>3, <2>1, BuildsHeld
<1>6. CASE D3D12!CmdCopyAccelerationStructure(cmd)
  <2>1. cmd.id = "CopyAccelerationStructure" /\ D3D12!Perform(cmd, StructureCopyNeeds(cmd))
    BY <1>6, D3D12Needs, Zenon DEF D3D12!CmdCopyAccelerationStructure, StructureCopyNeeds
  <2> QED
    BY <1>3, <2>1, BuildsHeld
<1>7. CASE D3D12!CmdExecuteClusterOperation(cmd)
  <2>1. cmd.id = "ExecuteClusterOperation" /\ (D3D12!Skip \/ D3D12!Perform(cmd, ClusterNeeds(cmd)))
    BY <1>7, D3D12Needs, D3D12Lists, Zenon DEF D3D12!CmdExecuteClusterOperation, ClusterNeeds
  <2> QED
    BY <1>2, <1>3, <2>1, BuildsHeld
<1>8. CASE D3D12!CmdConvertCooperativeVectorMatrix(cmd)
  <2>1. cmd.id = "ConvertCooperativeVectorMatrix" /\ (D3D12!Skip \/ D3D12!Perform(cmd, ConversionNeeds(cmd)))
    BY <1>8, D3D12Needs, Zenon DEF D3D12!CmdConvertCooperativeVectorMatrix, ConversionNeeds
  <2> QED
    BY <1>2, <1>3, <2>1, BuildsHeld
<1>9. CASE D3D12!Converted(cmd)
  <2>1. cmd.id = "Converted" /\ (D3D12!Skip \/ D3D12!Perform(cmd, <<BufferNeed(cmd.dst, "ShaderResource")>>))
    BY <1>9, D3D12Needs, Zenon DEF D3D12!Converted
  <2> QED
    BY <1>2, <1>3, <2>1, BuildsHeld
<1>10. CASE D3D12!CmdSetState(cmd) \/ D3D12!Finish
  <2>1. D3D12!StateUntouched /\ executing' = Nothing
    BY <1>10, D3D12Parts DEF D3D12!CmdSetState, D3D12!Finish
  <2>2. <<>> \in Seq(HeldNeeds)
    OBVIOUS
  <2> QED
    BY <1>1, <2>1, <2>2
<1>11. CASE D3D12!CmdWriteTimestamp(cmd)
  <2>1. UNCHANGED <<bound, valid, table, attachments>> /\ cmd.id = "WriteTimestamp"
        /\ executing' = [Nothing EXCEPT !.id = cmd.id, !.uses = {cmd.queryPool}]
    BY <1>11, D3D12Parts DEF D3D12!CmdWriteTimestamp, D3D12!recorder
  <2>2. {cmd.queryPool} \subseteq retained
    BY <2>1 DEF HeldCommand
  <2>3. executing'.uses \subseteq retained /\ executing'.barred = FALSE
    BY <2>1, <2>2 DEF Nothing
  <2> QED
    BY <2>1, <2>3 DEF Kept, Holding, Fed
<1>12. CASE D3D12!CmdGlobalBarrier(cmd)
  BY <1>2, <1>12 DEF D3D12!CmdGlobalBarrier
<1>13. CASE D3D12!CmdExecuteCallback(cmd)
  <2>1. cmd.id = "ExecuteCallback" /\ bound' = [b \in BindPoints |-> Unbound] /\ valid' = {} /\ attachments' = attachments
        /\ executing' = [Nothing EXCEPT !.id = cmd.id, !.uses = Objects({cmd.userObject})]
    BY <1>13, D3D12Parts DEF D3D12!CmdExecuteCallback
  <2>2. Objects({cmd.userObject}) \subseteq retained
    BY <2>1, CallNames DEF HeldCommand
  <2>3. executing'.uses \subseteq retained /\ executing'.barred = FALSE
    BY <2>1, <2>2 DEF Nothing
  <2> QED
    BY <2>1, <2>3, UnboundHeld DEF Kept, Holding, Fed
<1>14. CASE D3D12!CmdPass(cmd)
  <2>1. UNCHANGED <<bound, valid, table, attachments>> /\ executing' = Nothing
    BY <1>14, D3D12Parts DEF D3D12!CmdPass
  <2> QED
    BY <2>1, NothingFed DEF Kept, Holding
<1> QED
  BY <1>4, <1>5, <1>6, <1>7, <1>8, <1>9, <1>10, <1>11, <1>12, <1>13, <1>14

(* What the D3D12 draws and dispatches use is retained.                    *)
LEMMA D3D12LaunchesKept ==
    ASSUME Holding, BoundTable, NEW cmd, Typed(cmd), HeldCommand(cmd),
           \/ D3D12!CmdDraw(cmd) \/ D3D12!CmdDrawIndexed(cmd) \/ D3D12!CmdDrawIndirect(cmd)
           \/ D3D12!CmdDrawIndexedIndirect(cmd) \/ D3D12!CmdDrawMeshTasks(cmd)
           \/ D3D12!CmdDispatchCompute(cmd) \/ D3D12!CmdDispatchComputeIndirect(cmd)
           \/ D3D12!CmdDispatchRays(cmd)
    PROVE  Kept /\ UNCHANGED <<bound, valid, table>>
<1>1. ASSUME NEW p \in BindPoints, NEW needs \in Seq(HeldNeeds), D3D12!Launch(cmd, p, needs)
      PROVE  Kept /\ UNCHANGED <<bound, valid, table>>
  <2>1. executing' = Launching(cmd, p, needs) /\ UNCHANGED <<bound, valid, table, attachments>>
    BY <1>1, D3D12Parts DEF D3D12!Launch, D3D12!StateUntouched
  <2> QED
    BY <2>1, LaunchingKept
<1>2. ASSUME D3D12!Dropped(cmd) \/ D3D12!Skip PROVE Kept /\ UNCHANGED <<bound, valid, table>>
  BY <1>2, D3D12Parts, SkipKept DEF Skip, Dropped, recorder
<1>3. <<>> \in Seq(HeldNeeds) /\ "Render" \in BindPoints /\ "Compute" \in BindPoints
  BY DEF BindPoints
<1>4. CASE D3D12!CmdDraw(cmd) \/ D3D12!CmdDrawIndexed(cmd) \/ D3D12!CmdDrawMeshTasks(cmd) \/ D3D12!CmdDispatchCompute(cmd)
  <2>1. \E p \in BindPoints, needs \in Seq(HeldNeeds) : D3D12!LaunchOrDrop(cmd, p, needs)
    BY <1>3, <1>4, D3D12Parts, BoundGeometry, Zenon DEF D3D12!CmdDraw, D3D12!CmdDrawIndexed, D3D12!CmdDrawMeshTasks,
       D3D12!CmdDispatchCompute
  <2>2. D3D12!Dropped(cmd) \/ \E p \in BindPoints, needs \in Seq(HeldNeeds) : D3D12!Launch(cmd, p, needs)
    BY <2>1, Zenon DEF D3D12!LaunchOrDrop
  <2> QED
    BY <1>1, <1>2, <2>2
<1>5. CASE D3D12!CmdDrawIndirect(cmd) \/ D3D12!CmdDrawIndexedIndirect(cmd)
  <2>1. cmd.id \in {"DrawIndirect", "DrawIndexedIndirect"}
        /\ \E needs \in Seq(HeldNeeds) : D3D12!DrawWithArguments(cmd, needs)
    BY <1>5, D3D12Parts, BoundGeometry, Zenon DEF D3D12!CmdDrawIndirect, D3D12!CmdDrawIndexedIndirect
  <2>2. IndirectNeeds(cmd) \in Seq(HeldNeeds)
    BY <2>1, ArgumentsHeld
  <2>3. \A needs \in Seq(HeldNeeds) : IndirectNeeds(cmd) \o needs \in Seq(HeldNeeds)
    BY <2>2, Joined, Zenon
  <2>4. D3D12!Dropped(cmd) \/ \E needs \in Seq(HeldNeeds) : D3D12!Launch(cmd, "Render", IndirectNeeds(cmd) \o needs)
    BY <2>1, D3D12Lists, Zenon DEF D3D12!DrawWithArguments
  <2>5. D3D12!Dropped(cmd) \/ \E needs \in Seq(HeldNeeds) : D3D12!Launch(cmd, "Render", needs)
    BY <2>3, <2>4, Zenon
  <2> QED
    BY <1>1, <1>2, <1>3, <2>5, Zenon
<1>6. CASE D3D12!CmdDispatchComputeIndirect(cmd)
  <2>1. cmd.id = "DispatchComputeIndirect"
        /\ (D3D12!Dropped(cmd) \/ D3D12!Launch(cmd, "Compute", <<BufferNeed(cmd.argBuffer, "IndirectArgument")>>))
    BY <1>6, D3D12Needs, Zenon DEF D3D12!CmdDispatchComputeIndirect
  <2> QED
    BY <1>1, <1>2, <1>3, <2>1, ArgumentsHeld
<1>7. CASE D3D12!CmdDispatchRays(cmd)
  <2> DEFINE needs == OptionalNeed(TableBuffer[table], "ShaderResource")
  <2>1. \/ D3D12!Skip \/ D3D12!Dropped(cmd)
        \/ "RayTracing" \in valid /\ D3D12!Launch(cmd, "RayTracing", needs)
    BY <1>7, D3D12Lists, Zenon DEF D3D12!CmdDispatchRays, D3D12!LaunchOrDrop
  <2>2. ASSUME "RayTracing" \in valid, D3D12!Launch(cmd, "RayTracing", needs)
        PROVE  Kept /\ UNCHANGED <<bound, valid, table>>
    <3>1. executing' = Launching(cmd, "RayTracing", needs) /\ UNCHANGED <<bound, valid, table, attachments>>
      BY <2>2, D3D12Parts, Zenon DEF D3D12!Launch, D3D12!StateUntouched
    <3>2. Fed(Launching(cmd, "RayTracing", needs)) /\ Launching(cmd, "RayTracing", needs).barred = FALSE
      BY <2>2, RaysHeld
    <3> QED
      BY <3>1, <3>2 DEF Kept, Holding
  <2> QED
    BY <1>2, <2>1, <2>2
<1> QED
  BY <1>4, <1>5, <1>6, <1>7

(* What D3D12 requires for the resolves at the end of a pass is of what is *)
(* retained.                                                               *)
LEMMA ResolvesHeld ==
    ASSUME Holding
    PROVE  /\ D3D12!EachTarget(LAMBDA c : <<D3D12!ViewNeed(c.resolve, "RenderTarget")>>) \in Seq(HeldNeeds)
           /\ D3D12!EachTarget(LAMBDA c : <<D3D12!ViewNeed(c.view, "ResolveSource"),
                                            D3D12!ViewNeed(c.resolve, "ResolveDestination")>>) \in Seq(HeldNeeds)
<1> DEFINE rs == attachments.resolves
           n == Len(rs)
           f == [i \in DOMAIN rs |-> <<D3D12!ViewNeed(rs[i].resolve, "RenderTarget")>>]
           g == [i \in DOMAIN rs |-> <<D3D12!ViewNeed(rs[i].view, "ResolveSource"),
                                       D3D12!ViewNeed(rs[i].resolve, "ResolveDestination")>>]
<1>1. n \in Nat /\ DOMAIN rs = 1..n /\ \A i \in 1..n : rs[i] \in HeldResolved
  BY DEF Holding, TargetsHeld
<1>2. \A c \in HeldResolved : /\ c.view \in Views /\ c.resolve \in Views
                              /\ c.view.res \in retained /\ c.resolve.res \in retained
  BY ViewsTyped DEF HeldResolved, ResolvedTargets, Targets
<1>3. \A i \in 1..n : /\ D3D12!ViewNeed(rs[i].resolve, "RenderTarget") \in HeldNeeds
                      /\ D3D12!ViewNeed(rs[i].view, "ResolveSource") \in HeldNeeds
                      /\ D3D12!ViewNeed(rs[i].resolve, "ResolveDestination") \in HeldNeeds
  BY <1>1, <1>2, HeldViews, D3D12Parts
<1>4. DOMAIN f = 1..n /\ (\A i \in 1..n : f[i] \in Seq(HeldNeeds)) /\ f = [i \in 1..n |-> f[i]]
  BY <1>1, <1>3
<1>5. DOMAIN g = 1..n /\ (\A i \in 1..n : g[i] \in Seq(HeldNeeds)) /\ g = [i \in 1..n |-> g[i]]
  BY <1>1, <1>3
<1>6. D3D12!FlattenSeq(f) \in Seq(HeldNeeds) /\ D3D12!FlattenSeq(g) \in Seq(HeldNeeds)
  <2> HIDE DEF f, g, n
  <2> QED
    BY <1>1, <1>4, <1>5, EachTypedAt, D3D12Flatten
<1> QED
  BY <1>6, Zenon DEF D3D12!EachTarget

(* A range does not change what a requirement is of.                       *)
LEMMA RangesApart ==
    ASSUME NEW needs \in Seq(HeldNeeds), NEW r
    PROVE  Uses(Range([i \in DOMAIN needs |-> [needs[i] EXCEPT !.range = r]])) \subseteq retained
<1> DEFINE f == [i \in DOMAIN needs |-> [needs[i] EXCEPT !.range = r]]
<1>1. \A i \in DOMAIN needs : needs[i] \in HeldNeeds
  OBVIOUS
<1>2. \A n \in HeldNeeds : n.res \in retained /\ [n EXCEPT !.range = r].res = n.res
  BY DEF HeldNeeds, Needs
<1>3. Range(f) = {f[i] : i \in DOMAIN needs} /\ \A i \in DOMAIN needs : f[i].res \in retained
  BY <1>1, <1>2 DEF Range
<1> HIDE DEF f
<1>4. Uses(Range(f)) \subseteq retained
  BY <1>3 DEF Uses
<1> QED
  BY <1>4 DEF f

(* What the D3D12 recorder binds with a pipeline is retained: every bind   *)
(* point sets the one pipeline.                                            *)
LEMMA D3D12PipelineHeld ==
    ASSUME Holding, NEW p, NEW o, Objects({o}) \subseteq retained
    PROVE  /\ BoundHeld(D3D12!BindPipeline(bound, p, o))
           /\ \A b \in BindPoints : /\ D3D12!BindPipeline(bound, p, o)[b].table = bound[b].table
                                    /\ D3D12!BindPipeline(bound, p, o)[b].vb = bound[b].vb
                                    /\ D3D12!BindPipeline(bound, p, o)[b].ib = bound[b].ib
<1> DEFINE n == [b \in BindPoints |-> [bound[b] EXCEPT !.pipeline = o]]
<1>1. D3D12!BindPipeline(bound, p, o) \in {n, bound}
  BY D3D12Parts, Zenon DEF D3D12!BindPipeline
<1>2. BoundHeld(bound)
  BY DEF Holding
<1>3. \A b \in BindPoints : HeldBinding(n[b]) /\ n[b].table = bound[b].table
                            /\ n[b].vb = bound[b].vb /\ n[b].ib = bound[b].ib
  <2> SUFFICES ASSUME NEW b \in BindPoints
               PROVE  HeldBinding(n[b]) /\ n[b].table = bound[b].table
                      /\ n[b].vb = bound[b].vb /\ n[b].ib = bound[b].ib
    OBVIOUS
  <2>1. HeldBinding(bound[b])
    BY <1>2 DEF BoundHeld
  <2>2. HeldBinding([bound[b] EXCEPT !.pipeline = o])
    BY <2>1, FieldsHeld
  <2>3. bound[b] = [pipeline |-> bound[b].pipeline, root |-> bound[b].root, table |-> bound[b].table,
                    vb |-> bound[b].vb, ib |-> bound[b].ib]
    BY <2>1 DEF HeldBinding, IsBinding
  <2> QED
    BY <2>2, <2>3
<1>4. n = [b \in BindPoints |-> n[b]]
  OBVIOUS
<1> HIDE DEF n
<1>5. BoundHeld(n)
  BY <1>3, <1>4 DEF BoundHeld
<1> QED
  BY <1>1, <1>2, <1>3, <1>5

(* So is what it binds of a root object, for compute and ray tracing.      *)
LEMMA D3D12ComputeHeld ==
    ASSUME Holding, NEW p, NEW cmd, Objects({cmd.pipeline}) \subseteq retained, HeldRoot(cmd.root)
    PROVE  /\ BoundHeld(D3D12!BindCompute(p, cmd))
           /\ D3D12!BindCompute(p, cmd)["RayTracing"].table = bound["RayTracing"].table
<1> DEFINE m == D3D12!BindPipeline(bound, p, cmd.pipeline)
           c == [m["Compute"] EXCEPT !.root = cmd.root]
           r == [m["RayTracing"] EXCEPT !.root = cmd.root]
           n == [m EXCEPT !["Compute"] = c]
           o == [n EXCEPT !["RayTracing"] = r]
<1>1. BoundHeld(m) /\ m["RayTracing"].table = bound["RayTracing"].table
  BY D3D12PipelineHeld DEF BindPoints
<1>2. D3D12!BindCompute(p, cmd) = [m EXCEPT !["Compute"].root = cmd.root, !["RayTracing"].root = cmd.root]
  BY Zenon DEF D3D12!BindCompute
<1> HIDE DEF m
<1>3. DOMAIN m = BindPoints /\ "RayTracing" \in BindPoints /\ "Compute" \in BindPoints
      /\ HeldBinding(m["Compute"]) /\ HeldBinding(m["RayTracing"])
  BY <1>1 DEF BoundHeld, BindPoints
<1>4. D3D12!BindCompute(p, cmd) = o
  BY <1>2, <1>3
<1>5. HeldBinding(c) /\ HeldBinding(r) /\ r.table = m["RayTracing"].table
  <2>1. HeldBinding(c) /\ HeldBinding(r)
    BY <1>3, FieldsHeld
  <2>2. \A b : IsBinding(b) => [b EXCEPT !.root = cmd.root].table = b.table
    BY DEF IsBinding
  <2> QED
    BY <1>3, <2>1, <2>2 DEF HeldBinding
<1>6. o["RayTracing"] = r
  BY <1>3
<1> HIDE DEF c, r
<1>7. BoundHeld(n)
  BY <1>1, <1>3, <1>5, OneBound
<1> HIDE DEF n
<1>8. BoundHeld(o)
  BY <1>3, <1>5, <1>7, OneBound
<1> HIDE DEF o
<1> QED
  BY <1>1, <1>4, <1>5, <1>6, <1>8

(* What the D3D12 passes use and bind is retained, and the table bound is  *)
(* the one remembered wherever ray tracing holds.                          *)
LEMMA D3D12PassesKept ==
    ASSUME Holding, BoundTable, NEW cmd, Typed(cmd), HeldCommand(cmd),
           \/ D3D12!CmdBeginRenderPass(cmd) \/ D3D12!CmdEndRenderPass(cmd) \/ D3D12!Resolve(cmd)
           \/ D3D12!CmdSetRenderState(cmd) \/ D3D12!CmdSetComputeState(cmd) \/ D3D12!CmdSetRayTracingState(cmd)
    PROVE  Kept /\ BoundTable'
<1>1. ASSUME UNCHANGED <<bound, valid, table>> PROVE BoundTable'
  BY <1>1 DEF BoundTable
<1>2. ASSUME D3D12!Skip PROVE Kept /\ BoundTable'
  BY <1>1, <1>2, D3D12Parts, SkipKept DEF Skip, recorder
<1>3. CASE D3D12!CmdBeginRenderPass(cmd)
  <2> DEFINE needs == TargetNeeds(cmd.desc)
             rs == ResolvedColors(cmd.desc)
  <2>1. cmd.id = "BeginRenderPass" /\ executing' = Executing(cmd, needs)
        /\ attachments' = [needs |-> needs, resolves |-> rs] /\ UNCHANGED <<bound, valid, table>>
    BY <1>3, D3D12Parts, D3D12TargetNeeds, Zenon DEF D3D12!CmdBeginRenderPass
  <2>2. needs \in Seq(HeldNeeds) /\ rs \in Seq(HeldResolved)
    BY <2>1, TargetNeedsHeld, ResolvedColorsHeld
  <2> HIDE DEF needs, rs
  <2>3. TargetsHeld(attachments')
    BY <2>1, <2>2 DEF TargetsHeld
  <2> QED
    BY <1>1, <2>1, <2>2, <2>3, ExecutingHeld, UsesOfHeld DEF Kept, Holding
<1>4. CASE D3D12!CmdEndRenderPass(cmd)
  <2> DEFINE needs == D3D12!EachTarget(LAMBDA c : <<D3D12!ViewNeed(c.resolve, "RenderTarget")>>)
  <2>1. \/ D3D12!LeavePass /\ executing' = Nothing
        \/ D3D12!Perform(cmd, needs)
    BY <1>4, D3D12Parts, Zenon DEF D3D12!CmdEndRenderPass
  <2>2. needs \in Seq(HeldNeeds)
    BY ResolvesHeld
  <2> HIDE DEF needs
  <2>3. CASE D3D12!LeavePass /\ executing' = Nothing
    <3>1. attachments' = NoTargets /\ executing' = Nothing /\ UNCHANGED <<bound, valid, table>>
      BY <2>3, D3D12Parts DEF D3D12!LeavePass
    <3> QED
      BY <1>1, <3>1, NothingFed, NoTargetsHeld DEF Kept, Holding
  <2>4. CASE D3D12!Perform(cmd, needs)
    <3>1. executing' = Executing(cmd, needs) /\ UNCHANGED <<bound, valid, table, attachments>>
      BY <2>4, D3D12Parts DEF D3D12!Perform, D3D12!StateUntouched
    <3> QED
      BY <1>1, <2>2, <3>1, ExecuteKept, UsesOfHeld
  <2> QED
    BY <2>1, <2>3, <2>4
<1>5. CASE D3D12!Resolve(cmd)
  <2> DEFINE needs == D3D12!EachTarget(LAMBDA c : <<D3D12!ViewNeed(c.view, "ResolveSource"),
                                                    D3D12!ViewNeed(c.resolve, "ResolveDestination")>>)
             firsts == [i \in DOMAIN needs |-> [needs[i] EXCEPT !.range = D3D12!FirstSubresource]]
  <2>1. executing' = Executing(cmd, firsts) /\ D3D12!LeavePass
    BY <1>5, D3D12Parts, Zenon DEF D3D12!Resolve
  <2>2. needs \in Seq(HeldNeeds)
    BY ResolvesHeld
  <2> HIDE DEF needs
  <2>3. Uses(Range(firsts)) \subseteq retained
    BY <2>2, RangesApart
  <2> HIDE DEF firsts
  <2>4. attachments' = NoTargets /\ UNCHANGED <<bound, valid, table>>
    BY <2>1, D3D12Parts DEF D3D12!LeavePass
  <2> QED
    BY <1>1, <2>1, <2>3, <2>4, ExecutingHeld, NoTargetsHeld DEF Kept, Holding
<1>6. CASE D3D12!CmdSetRenderState(cmd)
  <2>1. CASE "Render" \notin active
    BY <1>2, <1>6, <2>1 DEF D3D12!CmdSetRenderState
  <2>2. CASE "Render" \in active
    <3> DEFINE stale == "Render" \notin valid
               newVb == stale \/ cmd.vb # renderState.vb
               newIb == stale \/ cmd.ib # renderState.ib
               m == D3D12!BindPipeline(bound, "Render", cmd.pipeline)
               b == m["Render"]
               v == IF newVb /\ cmd.vb # None THEN cmd.vb ELSE b.vb
               i == IF newIb THEN cmd.ib ELSE b.ib
               r == [b EXCEPT !.root = cmd.root, !.vb = v, !.ib = i]
    <3>1. /\ cmd.id = "SetRenderState" /\ valid' = {"Render"} /\ executing' = Nothing /\ attachments' = attachments
          /\ bound' = [m EXCEPT !["Render"].root = cmd.root,
                                !["Render"].vb = IF newVb /\ cmd.vb # None THEN cmd.vb ELSE @,
                                !["Render"].ib = IF newIb THEN cmd.ib ELSE @]
      BY <1>6, <2>2, D3D12Parts, Zenon DEF D3D12!CmdSetRenderState
    <3>2. Objects({cmd.pipeline}) \subseteq retained /\ HeldRoot(cmd.root) /\ Objects({cmd.vb, cmd.ib}) \subseteq retained
          /\ cmd.vb \in OptionalBuffers /\ cmd.ib \in OptionalBuffers
      BY <3>1, PassNames DEF HeldCommand, HeldRoot, StateIds, Objects, Typed, TypedPass
    <3>3. BoundHeld(m)
      BY <3>2, D3D12PipelineHeld
    <3> HIDE DEF m, newVb, newIb
    <3>4. DOMAIN m = BindPoints /\ "Render" \in BindPoints /\ HeldBinding(b)
      BY <3>3 DEF BoundHeld, BindPoints
    <3>5. DOMAIN b = {"pipeline", "root", "table", "vb", "ib"}
      BY <3>4 DEF HeldBinding, IsBinding
    <3>6. bound' = [m EXCEPT !["Render"] = r]
      BY <3>1, <3>4, <3>5
    <3>7. Objects({v}) \subseteq retained /\ Objects({i}) \subseteq retained
          /\ v \in OptionalBuffers /\ i \in OptionalBuffers
      BY <3>2, <3>4 DEF HeldBinding, IsBinding, Objects
    <3> HIDE DEF b, v, i
    <3>8. HeldBinding([b EXCEPT !.root = cmd.root])
      BY <3>2, <3>4, FieldsHeld
    <3>9. HeldBinding([[b EXCEPT !.root = cmd.root] EXCEPT !.vb = v])
      BY <3>7, <3>8, FieldsHeld
    <3>10. HeldBinding([[[b EXCEPT !.root = cmd.root] EXCEPT !.vb = v] EXCEPT !.ib = i])
      BY <3>7, <3>9, FieldsHeld
    <3>11. [[[b EXCEPT !.root = cmd.root] EXCEPT !.vb = v] EXCEPT !.ib = i] = r
      BY <3>5
    <3>12. HeldBinding(r)
      BY <3>10, <3>11
    <3> HIDE DEF r
    <3>13. BoundHeld([m EXCEPT !["Render"] = r])
      BY <3>3, <3>4, <3>12, OneBound
    <3>14. BoundTable'
      BY <3>1 DEF BoundTable
    <3> QED
      BY <3>1, <3>6, <3>13, <3>14, NothingFed DEF Kept, Holding
  <2> QED
    BY <2>1, <2>2
<1>7. CASE D3D12!CmdSetComputeState(cmd)
  <2>1. CASE "Compute" \notin active
    BY <1>2, <1>7, <2>1 DEF D3D12!CmdSetComputeState
  <2>2. CASE "Compute" \in active
    <3>1. /\ cmd.id = "SetComputeState" /\ valid' = {"Compute"} /\ executing' = Nothing
          /\ attachments' = attachments /\ bound' = D3D12!BindCompute("Compute", cmd)
      BY <1>7, <2>2, D3D12Parts, Zenon DEF D3D12!CmdSetComputeState
    <3>2. Objects({cmd.pipeline}) \subseteq retained /\ HeldRoot(cmd.root)
      BY <3>1, PassNames DEF HeldCommand, HeldRoot, StateIds, Typed, TypedPass
    <3>3. BoundHeld(bound')
      BY <3>1, <3>2, D3D12ComputeHeld
    <3>4. BoundTable'
      BY <3>1 DEF BoundTable
    <3> QED
      BY <3>1, <3>3, <3>4, NothingFed DEF Kept, Holding
  <2> QED
    BY <2>1, <2>2
<1>8. CASE D3D12!CmdSetRayTracingState(cmd)
  <2>1. CASE "RayTracing" \notin active
    BY <1>2, <1>8, <2>1 DEF D3D12!CmdSetRayTracingState
  <2>2. CASE "RayTracing" \in active
    <3> DEFINE newTable == D3D12!NewPipeline("RayTracing", cmd.pipeline) \/ cmd.shaderTable # table
               failed == newTable /\ TableBuffer[cmd.shaderTable] = None
               m == D3D12!BindCompute("RayTracing", cmd)
               b == m["RayTracing"]
               t == IF newTable /\ ~failed THEN cmd.shaderTable ELSE b.table
               r == [b EXCEPT !.table = t]
    <3>1. /\ cmd.id = "SetRayTracingState" /\ executing' = Nothing /\ attachments' = attachments
          /\ table' = (IF newTable THEN cmd.shaderTable ELSE table)
          /\ valid' = (IF failed THEN valid \ {"RayTracing"} ELSE {"RayTracing"})
          /\ bound' = [m EXCEPT !["RayTracing"].table = IF newTable /\ ~failed THEN cmd.shaderTable ELSE @]
      BY <1>8, <2>2, D3D12Parts, Zenon DEF D3D12!CmdSetRayTracingState
    <3>2. Objects({cmd.pipeline}) \subseteq retained /\ HeldRoot(cmd.root) /\ Objects({cmd.shaderTable}) \subseteq retained
          /\ TableBuffer[cmd.shaderTable] \in OptionalBuffers
      BY <3>1, PassNames DEF HeldCommand, HeldRoot, StateIds, Objects, Typed, TypedPass
    <3>3. BoundHeld(m) /\ m["RayTracing"].table = bound["RayTracing"].table
      BY <3>2, D3D12ComputeHeld
    <3>4. newTable \/ "RayTracing" \in valid
      BY D3D12Parts DEF NewPipeline
    <3> HIDE DEF m, newTable
    <3>5. DOMAIN m = BindPoints /\ "RayTracing" \in BindPoints /\ HeldBinding(b)
      BY <3>3 DEF BoundHeld, BindPoints
    <3>6. DOMAIN b = {"pipeline", "root", "table", "vb", "ib"}
      BY <3>5 DEF HeldBinding, IsBinding
    <3>7. bound' = [m EXCEPT !["RayTracing"] = r]
      BY <3>1, <3>5, <3>6
    <3>8. Objects({t}) \subseteq retained /\ TableBuffer[t] \in OptionalBuffers
      BY <3>2, <3>5 DEF HeldBinding, IsBinding, Objects
    <3>9. HeldBinding(r)
      <4> HIDE DEF b, t
      <4> QED
        BY <3>5, <3>8, FieldsHeld
    <3>10. r.table = t
      BY <3>6
    <3>11. BoundHeld([m EXCEPT !["RayTracing"] = r])
      <4> HIDE DEF r
      <4> QED
        BY <3>3, <3>5, <3>9, OneBound
    <3>12. bound'["RayTracing"].table = t
      BY <3>5, <3>7, <3>10
    <3>13. BoundTable'
      BY <3>1, <3>3, <3>4, <3>12 DEF BoundTable
    <3> QED
      BY <3>1, <3>7, <3>11, <3>13, NothingFed DEF Kept, Holding
  <2> QED
    BY <2>1, <2>2
<1> QED
  BY <1>3, <1>4, <1>5, <1>6, <1>7, <1>8

(* The D3D12 recorder uses what is retained.                               *)
LEMMA D3D12Kept ==
    ASSUME Holding, BoundTable, NEW cmd, Typed(cmd), HeldCommand(cmd), D3D12!Record(cmd) \/ D3D12!Finish
    PROVE  Kept /\ BoundTable'
<1>1. ASSUME UNCHANGED <<bound, valid, table>> \/ valid' = {} PROVE BoundTable'
  BY <1>1 DEF BoundTable
<1> QED
  BY <1>1, D3D12TransfersKept, D3D12BuildsKept, D3D12LaunchesKept, D3D12PassesKept, Zenon DEF D3D12!Record

(* What a step of Vulkan's recorder leaves bound and targeted is retained, *)
(* and what it executes uses nothing that is not.                          *)
Supplied == BoundHeld(bound') /\ TargetsHeld(attachments') /\ Fed(executing')

(* A command that executes with what it requires, whatever barriers it     *)
(* puts in, and binds nothing.                                             *)
LEMMA ExecuteSupplied ==
    ASSUME Holding, NEW cmd, NEW needs, Uses(Range(needs)) \subseteq retained, NEW x,
           executing' \in {[Executing(cmd, needs) EXCEPT !.barred = x], Executing(cmd, needs), Nothing},
           UNCHANGED <<bound, attachments>>
    PROVE  Supplied
<1> DEFINE e == Executing(cmd, needs)
<1>1. Fed(e) /\ DOMAIN e = DOMAIN Nothing
  BY ExecutingHeld DEF Executing
<1>2. DOMAIN Nothing = {"id", "needs", "uses", "bound", "asked", "failed", "barred", "raced"}
  BY DEF Nothing
<1> HIDE DEF e
<1>3. Fed([e EXCEPT !.barred = x])
  BY <1>1, <1>2 DEF Fed
<1>4. Fed(executing')
  BY <1>1, <1>3, NothingFed DEF e
<1> QED
  BY <1>4 DEF Supplied, Holding

(* A draw or dispatch, whatever barriers it puts in.                       *)
LEMMA LaunchingSupplied ==
    ASSUME Holding, NEW e, Fed(e), DOMAIN e = DOMAIN Nothing, NEW x,
           executing' = [e EXCEPT !.barred = x], UNCHANGED <<bound, attachments>>
    PROVE  Supplied
<1>1. DOMAIN Nothing = {"id", "needs", "uses", "bound", "asked", "failed", "barred", "raced"}
  BY DEF Nothing
<1>2. Fed([e EXCEPT !.barred = x])
  BY <1>1 DEF Fed
<1> QED
  BY <1>2 DEF Supplied, Holding

(* What is kept is supplied.                                               *)
LEMMA KeptSupplied == ASSUME Kept PROVE Supplied
  BY DEF Kept, Supplied

(* What the Vulkan transfers use is retained.                               *)
LEMMA VulkanTransfersKept ==
    ASSUME Holding, NEW cmd, Typed(cmd), HeldCommand(cmd),
           \/ Vulkan!CmdCopyBuffer(cmd) \/ Vulkan!CmdCopyTexture(cmd) \/ Vulkan!CmdCopyTextureToBuffer(cmd)
           \/ Vulkan!CmdClearBuffer(cmd) \/ Vulkan!CmdClearTexture(cmd)
           \/ Vulkan!CmdUploadTextureData(cmd) \/ Vulkan!CmdResolveQuery(cmd)
    PROVE  Supplied /\ UNCHANGED <<bound, valid, table>>
<1>1. ASSUME NEW needs, Uses(Range(needs)) \subseteq retained, Vulkan!Perform(cmd, needs)
      PROVE  Supplied /\ UNCHANGED <<bound, valid, table>>
  <2>1. (\E x : executing' = [Executing(cmd, needs) EXCEPT !.barred = x]) /\ UNCHANGED <<bound, valid, table, attachments>>
    BY <1>1, VulkanParts, Zenon DEF Vulkan!Perform
  <2> QED
    BY <1>1, <2>1, ExecuteSupplied
<1>2. ASSUME Vulkan!Skip PROVE Supplied /\ UNCHANGED <<bound, valid, table>>
  BY <1>2, VulkanParts, SkipKept, KeptSupplied DEF Skip, recorder
<1>3. CASE Vulkan!CmdCopyBuffer(cmd)
  <2>1. cmd.id = "CopyBuffer" /\ Vulkan!Perform(cmd, CopyNeeds(cmd))
    BY <1>3, VulkanNeeds, Zenon DEF Vulkan!CmdCopyBuffer, CopyNeeds
  <2> QED
    BY <1>1, <2>1, TransfersHeld, UsesOfHeld
<1>4. CASE Vulkan!CmdCopyTexture(cmd)
  <2>1. cmd.id = "CopyTexture" /\ \E p, q : Vulkan!Perform(cmd, <<Vulkan!Need(cmd.dst, p, "CopyDestination"),
                                                                  Vulkan!Need(cmd.src, q, "CopySource")>>)
    BY <1>4, Zenon DEF Vulkan!CmdCopyTexture
  <2>2. PICK p, q : Vulkan!Perform(cmd, <<Need(cmd.dst, p, "CopyDestination"), Need(cmd.src, q, "CopySource")>>)
    BY <2>1, VulkanNeeds, Zenon
  <2> DEFINE needs == <<Need(cmd.dst, p, "CopyDestination"), Need(cmd.src, q, "CopySource")>>
  <2>3. Uses(Range(needs)) \subseteq retained
    BY <2>1, TransfersHeld, FewUses
  <2>4. Vulkan!Perform(cmd, needs)
    BY <2>2
  <2> HIDE DEF needs
  <2> QED
    BY <1>1, <2>3, <2>4
<1>5. CASE Vulkan!CmdCopyTextureToBuffer(cmd)
  <2>1. cmd.id = "CopyTextureToBuffer" /\ Vulkan!Perform(cmd, ReadNeeds(cmd))
    BY <1>5, VulkanNeeds, Zenon DEF Vulkan!CmdCopyTextureToBuffer, ReadNeeds
  <2> QED
    BY <1>1, <2>1, TransfersHeld, UsesOfHeld
<1>6. CASE Vulkan!CmdClearBuffer(cmd) \/ Vulkan!CmdResolveQuery(cmd)
  <2>1. PICK s \in {"CopyDestination", "UnorderedAccess"} :
           cmd.id \in {"ClearBuffer", "ResolveQuery"} /\ Vulkan!Perform(cmd, <<BufferNeed(cmd.dst, s)>>)
    BY <1>6, VulkanNeeds, Zenon DEF Vulkan!CmdClearBuffer, Vulkan!CmdResolveQuery
  <2>2. <<BufferNeed(cmd.dst, s)>> \in Seq(HeldNeeds)
    BY <2>1, TransfersHeld
  <2> QED
    BY <1>1, <2>1, <2>2, UsesOfHeld
<1>7. CASE Vulkan!CmdClearTexture(cmd)
  <2>1. cmd.id = "ClearTexture" /\ Vulkan!Perform(cmd, <<Need(cmd.dst, cmd.dstRange, "CopyDestination")>>)
    BY <1>7, VulkanNeeds, Zenon DEF Vulkan!CmdClearTexture
  <2>2. Uses(Range(<<Need(cmd.dst, cmd.dstRange, "CopyDestination")>>)) \subseteq retained
    BY <2>1, TransfersHeld, FewUses
  <2> QED
    BY <1>1, <2>1, <2>2, Zenon
<1>8. CASE Vulkan!CmdUploadTextureData(cmd)
  <2>1. cmd.id = "UploadTextureData" /\ Vulkan!Perform(cmd, UploadNeeds(cmd))
    BY <1>8, VulkanNeeds, Zenon DEF Vulkan!CmdUploadTextureData, UploadNeeds
  <2> QED
    BY <1>1, <2>1, TransfersHeld, UsesOfHeld
<1> QED
  BY <1>3, <1>4, <1>5, <1>6, <1>7, <1>8

(* What the Vulkan builds, callbacks and timestamps use is retained.        *)
LEMMA VulkanBuildsKept ==
    ASSUME Holding, NEW cmd, Typed(cmd), HeldCommand(cmd),
           \/ Vulkan!CmdBuildAccelerationStructure(cmd) \/ Vulkan!CmdBuildMicromap(cmd)
           \/ Vulkan!CmdCopyAccelerationStructure(cmd) \/ Vulkan!CmdExecuteClusterOperation(cmd)
           \/ Vulkan!CmdConvertCooperativeVectorMatrix(cmd) \/ Vulkan!Converted(cmd)
           \/ Vulkan!CmdSetState(cmd) \/ Vulkan!CmdWriteTimestamp(cmd) \/ Vulkan!CmdGlobalBarrier(cmd)
           \/ Vulkan!CmdExecuteCallback(cmd) \/ Vulkan!CmdPass(cmd) \/ Vulkan!Finish
    PROVE  Supplied /\ (UNCHANGED <<bound, valid, table>> \/ valid' = {})
<1>1. ASSUME executing' = Nothing, UNCHANGED <<bound, valid, table, attachments>>
      PROVE  Supplied /\ UNCHANGED <<bound, valid, table>>
  BY <1>1, NothingFed DEF Supplied, Holding
<1>2. ASSUME Vulkan!Skip PROVE Supplied /\ UNCHANGED <<bound, valid, table>>
  BY <1>2, VulkanParts, SkipKept, KeptSupplied DEF Skip, recorder
<1>3. ASSUME NEW needs \in Seq(HeldNeeds), Vulkan!Perform(cmd, needs)
      PROVE  Supplied /\ UNCHANGED <<bound, valid, table>>
  <2>1. (\E x : executing' = [Executing(cmd, needs) EXCEPT !.barred = x]) /\ UNCHANGED <<bound, valid, table, attachments>>
    BY <1>3, VulkanParts, Zenon DEF Vulkan!Perform
  <2>2. Uses(Range(needs)) \subseteq retained
    BY <1>3, UsesOfHeld
  <2> QED
    BY <2>1, <2>2, ExecuteSupplied
<1>4. CASE Vulkan!CmdBuildAccelerationStructure(cmd)
  <2>1. cmd.id = "BuildAccelerationStructure" /\ (Vulkan!Skip \/ Vulkan!Perform(cmd, StructureNeeds(cmd)))
    BY <1>4, VulkanNeeds, VulkanLists, Zenon DEF Vulkan!CmdBuildAccelerationStructure, StructureNeeds
  <2> QED
    BY <1>2, <1>3, <2>1, BuildsHeld
<1>5. CASE Vulkan!CmdBuildMicromap(cmd)
  <2>1. /\ cmd.id = "BuildMicromap"
        /\ Vulkan!Perform(cmd, MicromapNeeds(cmd)) \/ (executing' = Nothing /\ UNCHANGED <<bound, valid, table, attachments>>)
    BY <1>5, VulkanParts, VulkanNeeds, VulkanLists, Zenon DEF Vulkan!CmdBuildMicromap, Vulkan!Quietly, MicromapNeeds
  <2> QED
    BY <1>1, <1>3, <2>1, BuildsHeld
<1>6. CASE Vulkan!CmdCopyAccelerationStructure(cmd)
  <2>1. cmd.id = "CopyAccelerationStructure" /\ Vulkan!Perform(cmd, StructureCopyNeeds(cmd))
    BY <1>6, VulkanNeeds, Zenon DEF Vulkan!CmdCopyAccelerationStructure, StructureCopyNeeds
  <2> QED
    BY <1>3, <2>1, BuildsHeld
<1>7. CASE Vulkan!CmdExecuteClusterOperation(cmd)
  <2>1. cmd.id = "ExecuteClusterOperation" /\ Vulkan!Perform(cmd, ClusterNeeds(cmd))
    BY <1>7, VulkanNeeds, VulkanLists, Zenon DEF Vulkan!CmdExecuteClusterOperation, ClusterNeeds
  <2> QED
    BY <1>3, <2>1, BuildsHeld
<1>8. CASE Vulkan!CmdConvertCooperativeVectorMatrix(cmd)
  <2>1. cmd.id = "ConvertCooperativeVectorMatrix" /\ Vulkan!Perform(cmd, ConversionNeeds(cmd))
    BY <1>8, VulkanNeeds, Zenon DEF Vulkan!CmdConvertCooperativeVectorMatrix, ConversionNeeds
  <2> QED
    BY <1>3, <2>1, BuildsHeld
<1>9. CASE Vulkan!Converted(cmd)
  <2>1. cmd.id = "Converted" /\ Vulkan!Perform(cmd, <<BufferNeed(cmd.dst, "ShaderResource")>>)
    BY <1>9, VulkanNeeds, Zenon DEF Vulkan!Converted
  <2> QED
    BY <1>3, <2>1, BuildsHeld
<1>10. CASE Vulkan!CmdSetState(cmd) \/ Vulkan!Finish
  <2>1. executing' = Nothing /\ UNCHANGED <<bound, valid, table, attachments>>
    BY <1>10, VulkanParts, Zenon DEF Vulkan!CmdSetState, Vulkan!Quietly, Vulkan!Finish
  <2> QED
    BY <1>1, <2>1
<1>11. CASE Vulkan!CmdWriteTimestamp(cmd)
  <2>1. UNCHANGED <<bound, valid, table, attachments>> /\ cmd.id = "WriteTimestamp"
        /\ executing' = [Nothing EXCEPT !.id = cmd.id, !.uses = {cmd.queryPool}]
    BY <1>11, VulkanParts DEF Vulkan!CmdWriteTimestamp, Vulkan!recorder
  <2>2. {cmd.queryPool} \subseteq retained
    BY <2>1 DEF HeldCommand
  <2>3. executing'.uses \subseteq retained
    BY <2>1, <2>2 DEF Nothing
  <2> QED
    BY <2>1, <2>3 DEF Supplied, Holding, Fed
<1>12. CASE Vulkan!CmdGlobalBarrier(cmd)
  BY <1>2, <1>12 DEF Vulkan!CmdGlobalBarrier
<1>13. CASE Vulkan!CmdExecuteCallback(cmd)
  <2>1. cmd.id = "ExecuteCallback" /\ bound' = [b \in BindPoints |-> Unbound] /\ valid' = {} /\ attachments' = attachments
        /\ executing' = [Nothing EXCEPT !.id = cmd.id, !.uses = Objects({cmd.userObject})]
    BY <1>13, VulkanParts DEF Vulkan!CmdExecuteCallback, Vulkan!AfterCallback
  <2>2. Objects({cmd.userObject}) \subseteq retained
    BY <2>1, CallNames DEF HeldCommand
  <2>3. executing'.uses \subseteq retained
    BY <2>1, <2>2 DEF Nothing
  <2> QED
    BY <2>1, <2>3, UnboundHeld DEF Supplied, Holding, Fed
<1>14. CASE Vulkan!CmdPass(cmd)
  <2>1. UNCHANGED <<bound, valid, table, attachments>> /\ executing' = Nothing
    BY <1>14, VulkanParts DEF Vulkan!CmdPass
  <2> QED
    BY <1>1, <2>1
<1> QED
  BY <1>4, <1>5, <1>6, <1>7, <1>8, <1>9, <1>10, <1>11, <1>12, <1>13, <1>14

(* What the Vulkan draws and dispatches use is retained.                   *)
LEMMA VulkanLaunchesKept ==
    ASSUME Holding, BoundTable, NEW cmd, Typed(cmd), HeldCommand(cmd),
           \/ Vulkan!CmdDraw(cmd) \/ Vulkan!CmdDrawIndexed(cmd) \/ Vulkan!CmdDrawIndirect(cmd)
           \/ Vulkan!CmdDrawIndexedIndirect(cmd) \/ Vulkan!CmdDrawMeshTasks(cmd)
           \/ Vulkan!CmdDispatchCompute(cmd) \/ Vulkan!CmdDispatchComputeIndirect(cmd)
           \/ Vulkan!CmdDispatchRays(cmd)
    PROVE  Supplied /\ UNCHANGED <<bound, valid, table>>
<1>1. ASSUME NEW p \in BindPoints, NEW required \in Seq(HeldNeeds), NEW touched \in Seq(HeldNeeds),
             Vulkan!Launch(cmd, p, required, touched)
      PROVE  Supplied /\ UNCHANGED <<bound, valid, table>>
  <2> DEFINE needs == required \o touched
             e == Launching(cmd, p, needs)
  <2>1. (\E x : executing' = [e EXCEPT !.barred = x]) /\ UNCHANGED <<bound, valid, table, attachments>>
    BY <1>1, VulkanParts, Zenon DEF Vulkan!Launch
  <2>2. needs \in Seq(HeldNeeds)
    BY Joined
  <2> HIDE DEF needs
  <2>3. Fed(e) /\ DOMAIN e = DOMAIN Nothing
    <3>1. needs \in Seq(Needs) /\ Uses(Range(needs)) \subseteq retained
      BY <2>2, UsesOfHeld DEF HeldNeeds
    <3> QED
      BY <3>1, LaunchHeld
  <2> HIDE DEF e
  <2> QED
    BY <2>1, <2>3, LaunchingSupplied
<1>2. ASSUME Vulkan!Dropped(cmd) \/ Vulkan!Skip PROVE Supplied /\ UNCHANGED <<bound, valid, table>>
  BY <1>2, VulkanParts, SkipKept, KeptSupplied DEF Skip, Dropped, recorder
<1>3. <<>> \in Seq(HeldNeeds) /\ "Render" \in BindPoints /\ "Compute" \in BindPoints
  BY DEF BindPoints
<1>4. CASE Vulkan!CmdDraw(cmd) \/ Vulkan!CmdDrawIndexed(cmd) \/ Vulkan!CmdDrawMeshTasks(cmd) \/ Vulkan!CmdDispatchCompute(cmd)
  <2>1. \E p \in BindPoints, touched \in Seq(HeldNeeds) : Vulkan!LaunchOrDrop(cmd, p, <<>>, touched)
    BY <1>3, <1>4, VulkanParts, BoundGeometry, Zenon DEF Vulkan!CmdDraw, Vulkan!CmdDrawIndexed, Vulkan!CmdDrawMeshTasks,
       Vulkan!CmdDispatchCompute
  <2>2. Vulkan!Dropped(cmd) \/ \E p \in BindPoints, touched \in Seq(HeldNeeds) : Vulkan!Launch(cmd, p, <<>>, touched)
    BY <2>1, Zenon DEF Vulkan!LaunchOrDrop
  <2> QED
    BY <1>1, <1>2, <1>3, <2>2
<1>5. CASE Vulkan!CmdDrawIndirect(cmd) \/ Vulkan!CmdDrawIndexedIndirect(cmd)
  <2>1. cmd.id \in {"DrawIndirect", "DrawIndexedIndirect"}
        /\ \E touched \in Seq(HeldNeeds) : Vulkan!LaunchOrDrop(cmd, "Render", IndirectNeeds(cmd), touched)
    BY <1>5, VulkanParts, VulkanLists, BoundGeometry, Zenon DEF Vulkan!CmdDrawIndirect, Vulkan!CmdDrawIndexedIndirect
  <2>2. IndirectNeeds(cmd) \in Seq(HeldNeeds)
    BY <2>1, ArgumentsHeld
  <2>3. Vulkan!Dropped(cmd) \/ \E touched \in Seq(HeldNeeds) : Vulkan!Launch(cmd, "Render", IndirectNeeds(cmd), touched)
    BY <2>1, Zenon DEF Vulkan!LaunchOrDrop
  <2> QED
    BY <1>1, <1>2, <1>3, <2>2, <2>3, Zenon
<1>6. CASE Vulkan!CmdDispatchComputeIndirect(cmd)
  <2>1. cmd.id = "DispatchComputeIndirect"
        /\ (Vulkan!Dropped(cmd) \/ Vulkan!Launch(cmd, "Compute", <<BufferNeed(cmd.argBuffer, "IndirectArgument")>>, <<>>))
    BY <1>6, VulkanNeeds, Zenon DEF Vulkan!CmdDispatchComputeIndirect, Vulkan!LaunchOrDrop
  <2> QED
    BY <1>1, <1>2, <1>3, <2>1, ArgumentsHeld
<1>7. CASE Vulkan!CmdDispatchRays(cmd)
  <2> DEFINE needs == OptionalNeed(TableBuffer[table], "ShaderResource")
             e == Launching(cmd, "RayTracing", needs)
  <2>1. \/ Vulkan!Skip \/ Vulkan!Dropped(cmd)
        \/ "RayTracing" \in valid /\ Vulkan!Launch(cmd, "RayTracing", <<>>, needs)
    BY <1>7, VulkanLists, Zenon DEF Vulkan!CmdDispatchRays, Vulkan!LaunchOrDrop
  <2>2. ASSUME "RayTracing" \in valid, Vulkan!Launch(cmd, "RayTracing", <<>>, needs)
        PROVE  Supplied /\ UNCHANGED <<bound, valid, table>>
    <3>1. <<>> \o needs = needs
      BY DEF OptionalNeed
    <3>2. (\E x : executing' = [e EXCEPT !.barred = x]) /\ UNCHANGED <<bound, valid, table, attachments>>
      BY <2>2, <3>1, VulkanParts, Zenon DEF Vulkan!Launch
    <3>3. Fed(e) /\ DOMAIN e = DOMAIN Nothing
      BY <2>2, RaysHeld
    <3> HIDE DEF e
    <3> QED
      BY <3>2, <3>3, LaunchingSupplied
  <2> QED
    BY <1>2, <2>1, <2>2
<1> QED
  BY <1>4, <1>5, <1>6, <1>7

(* What Vulkan requires of the targets of a pass is of what is retained.   *)
LEMMA VulkanTargetsHeld ==
    ASSUME NEW cmd, Typed(cmd), HeldCommand(cmd), cmd.id = "BeginRenderPass"
    PROVE  Vulkan!AttachmentNeeds(cmd.desc) \in Seq(HeldNeeds)
<1> DEFINE desc == cmd.desc
           ofColor(a) == <<Need(a.view.res, a.view.range, "RenderTarget")>>
                           \o (IF a.resolve.res = None THEN <<>>
                               ELSE <<Need(a.resolve.res, a.resolve.range, "ResolveDestination")>>)
           f == [i \in DOMAIN desc.colors |-> ofColor(desc.colors[i])]
           n == Len(desc.colors)
           depth == IF desc.depth.view.res = None THEN <<>>
                    ELSE <<Need(desc.depth.view.res, desc.depth.view.range,
                                IF desc.depth.readOnly THEN "DepthRead" ELSE "DepthWrite")>>
<1>1. n \in Nat /\ DOMAIN desc.colors = 1..n /\ \A i \in 1..n : desc.colors[i] \in Targets
  BY DescHeld, DescTyped
<1>2. ASSUME NEW i \in 1..n PROVE ofColor(desc.colors[i]) \in Seq(HeldNeeds)
  <2> DEFINE a == desc.colors[i]
             r == IF a.resolve.res = None THEN <<>>
                  ELSE <<Need(a.resolve.res, a.resolve.range, "ResolveDestination")>>
  <2>1. /\ a.view \in Views /\ a.resolve \in OptionalViews /\ a.view.res \in retained
        /\ a.resolve.res # None => a.resolve.res \in retained
    BY <1>1, DescHeld DEF Targets
  <2> HIDE DEF a
  <2>2. <<Need(a.view.res, a.view.range, "RenderTarget")>> \in Seq(HeldNeeds)
    BY <2>1, HeldViews
  <2>3. r \in Seq(HeldNeeds)
    <3>1. CASE a.resolve.res = None
      BY <3>1
    <3>2. CASE a.resolve.res # None
      <4>1. a.resolve \in Views
        BY <2>1, <3>2, ViewsTyped
      <4> QED
        BY <2>1, <3>2, <4>1, HeldViews
    <3> QED
      BY <3>1, <3>2
  <2> HIDE DEF r
  <2>4. <<Need(a.view.res, a.view.range, "RenderTarget")>> \o r \in Seq(HeldNeeds)
    BY <2>2, <2>3, Joined, Zenon
  <2> QED
    BY <2>4 DEF r, a
<1> HIDE DEF ofColor
<1>3. DOMAIN f = 1..n /\ (\A i \in 1..n : f[i] \in Seq(HeldNeeds)) /\ f = [i \in 1..n |-> f[i]]
  BY <1>1, <1>2
<1>4. FlattenSeq(f) \in Seq(HeldNeeds)
  <2> HIDE DEF f, n
  <2> QED
    BY <1>1, <1>3, EachTypedAt
<1>5. depth \in Seq(HeldNeeds)
  <2>1. CASE desc.depth.view.res = None
    BY <2>1
  <2>2. CASE desc.depth.view.res # None
    <3>1. desc.depth.view \in Views /\ desc.depth.view.res \in retained
      BY <2>2, DescHeld, DescTyped, ViewsTyped
    <3>2. \A s \in {"DepthRead", "DepthWrite"} : Need(desc.depth.view.res, desc.depth.view.range, s) \in HeldNeeds
      BY <3>1, HeldViews
    <3> QED
      BY <2>2, <3>2
  <2> QED
    BY <2>1, <2>2
<1>6. Vulkan!AttachmentNeeds(desc) = FlattenSeq(f) \o depth
  BY VulkanFlatten, VulkanNeeds, Zenon DEF Vulkan!AttachmentNeeds, ofColor
<1> HIDE DEF f, n, depth
<1> QED
  BY <1>4, <1>5, <1>6, Joined, Zenon

(* What the Vulkan passes use and bind is retained, and the table bound is *)
(* the one remembered wherever ray tracing holds.                          *)
LEMMA VulkanPassesKept ==
    ASSUME Holding, BoundTable, NEW cmd, Typed(cmd), HeldCommand(cmd),
           \/ Vulkan!CmdBeginRenderPass(cmd) \/ Vulkan!CmdEndRenderPass(cmd)
           \/ Vulkan!CmdSetRenderState(cmd) \/ Vulkan!CmdSetComputeState(cmd) \/ Vulkan!CmdSetRayTracingState(cmd)
    PROVE  Supplied /\ BoundTable'
<1>1. ASSUME UNCHANGED <<bound, valid, table>> PROVE BoundTable'
  BY <1>1 DEF BoundTable
<1>2. ASSUME Vulkan!Skip PROVE Supplied /\ BoundTable'
  BY <1>1, <1>2, VulkanParts, SkipKept, KeptSupplied DEF Skip, recorder
<1>3. CASE Vulkan!CmdBeginRenderPass(cmd)
  <2> DEFINE needs == Vulkan!AttachmentNeeds(cmd.desc)
  <2>1. cmd.id = "BeginRenderPass" /\ executing' = Executing(cmd, needs)
        /\ attachments' = [NoTargets EXCEPT !.needs = needs] /\ UNCHANGED <<bound, valid, table>>
    BY <1>3, VulkanParts, Zenon DEF Vulkan!CmdBeginRenderPass
  <2>2. needs \in Seq(HeldNeeds)
    BY <2>1, VulkanTargetsHeld
  <2> HIDE DEF needs
  <2>3. TargetsHeld(attachments')
    BY <2>1, <2>2 DEF TargetsHeld, NoTargets
  <2> QED
    BY <1>1, <2>1, <2>2, <2>3, ExecutingHeld, UsesOfHeld DEF Supplied, Holding
<1>4. CASE Vulkan!CmdEndRenderPass(cmd)
  <2>1. attachments' = NoTargets /\ executing' = Nothing /\ UNCHANGED <<bound, valid, table>>
    BY <1>4, VulkanParts DEF Vulkan!CmdEndRenderPass
  <2> QED
    BY <1>1, <2>1, NothingFed, NoTargetsHeld DEF Supplied, Holding
<1>5. CASE Vulkan!CmdSetRenderState(cmd)
  <2>1. CASE "Render" \notin active
    BY <1>2, <1>5, <2>1 DEF Vulkan!CmdSetRenderState
  <2>2. CASE "Render" \in active
    <3>1. /\ cmd.id = "SetRenderState" /\ valid' = {"Render"} /\ executing' = Nothing /\ attachments' = attachments
          /\ bound' = [bound EXCEPT !["Render"] = Rebound(@, NewRenderState(cmd))]
      BY <1>5, <2>2, VulkanParts, Zenon DEF Vulkan!CmdSetRenderState
    <3>2. HeldBinding(NewRenderState(cmd)) /\ "Render" \in BindPoints
      BY <3>1, RenderStateHeld DEF BindPoints
    <3>3. BoundTable'
      BY <3>1 DEF BoundTable
    <3> QED
      BY <3>1, <3>2, <3>3, BindKept, KeptSupplied, Zenon
  <2> QED
    BY <2>1, <2>2
<1>6. CASE Vulkan!CmdSetComputeState(cmd)
  <2>1. CASE "Compute" \notin active
    BY <1>2, <1>6, <2>1 DEF Vulkan!CmdSetComputeState
  <2>2. CASE "Compute" \in active
    <3>1. /\ cmd.id = "SetComputeState" /\ valid' = {"Compute"} /\ executing' = Nothing /\ attachments' = attachments
          /\ bound' = [bound EXCEPT !["Compute"] = Rebound(@, NewProgram("Compute", cmd))]
      BY <1>6, <2>2, VulkanParts, Zenon DEF Vulkan!CmdSetComputeState
    <3>2. HeldBinding(NewProgram("Compute", cmd)) /\ "Compute" \in BindPoints
      BY <3>1, ProgramHeld DEF BindPoints, StateIds
    <3>3. BoundTable'
      BY <3>1 DEF BoundTable
    <3> QED
      BY <3>1, <3>2, <3>3, BindKept, KeptSupplied, Zenon
  <2> QED
    BY <2>1, <2>2
<1>7. CASE Vulkan!CmdSetRayTracingState(cmd)
  <2>1. CASE "RayTracing" \notin active
    BY <1>2, <1>7, <2>1 DEF Vulkan!CmdSetRayTracingState
  <2>2. CASE "RayTracing" \in active
    <3> DEFINE newTable == Vulkan!NewPipeline("RayTracing", cmd.pipeline) \/ cmd.shaderTable # table
               failed == newTable /\ TableBuffer[cmd.shaderTable] = None
               o == IF newTable THEN cmd.shaderTable ELSE None
               p == NewProgram("RayTracing", cmd)
               n == [p EXCEPT !.table = o]
               b == bound["RayTracing"]
    <3>1. /\ cmd.id = "SetRayTracingState" /\ executing' = Nothing /\ attachments' = attachments
          /\ table' = (IF newTable THEN cmd.shaderTable ELSE table)
          /\ valid' = (IF failed THEN valid \ {"RayTracing"} ELSE {"RayTracing"})
          /\ bound' = [bound EXCEPT !["RayTracing"] = Rebound(@, n)]
      <4>1. /\ cmd.id = "SetRayTracingState" /\ attachments' = attachments
            /\ table' = (IF newTable THEN cmd.shaderTable ELSE table)
            /\ bound' = [bound EXCEPT !["RayTracing"] = Rebound(@, n)]
        BY <1>7, <2>2, VulkanParts, Zenon DEF Vulkan!CmdSetRayTracingState
      <4>2. CASE failed
        BY <1>7, <2>2, <4>2, VulkanParts, Zenon DEF Vulkan!CmdSetRayTracingState, Vulkan!Quietly
      <4>3. CASE ~failed
        BY <1>7, <2>2, <4>3, VulkanParts, Zenon DEF Vulkan!CmdSetRayTracingState
      <4>4. executing' = Nothing
        BY <4>2, <4>3, <1>7, <2>2, VulkanParts, Zenon DEF Vulkan!CmdSetRayTracingState, Vulkan!Quietly
      <4>5. valid' = (IF failed THEN valid \ {"RayTracing"} ELSE {"RayTracing"})
        BY <1>7, <2>2, Zenon DEF Vulkan!CmdSetRayTracingState
      <4> QED
        BY <4>1, <4>4, <4>5
    <3>2. Objects({cmd.shaderTable}) \subseteq retained /\ TableBuffer[cmd.shaderTable] \in OptionalBuffers
      BY <3>1, PassNames DEF HeldCommand, Objects, Typed, TypedPass
    <3>3. HeldBinding(p) /\ p.table = None /\ "RayTracing" \in BindPoints
      BY <3>1, ProgramHeld DEF BindPoints, StateIds, NewProgram, Unbound
    <3>4. newTable \/ "RayTracing" \in valid
      BY VulkanParts DEF NewPipeline
    <3> HIDE DEF newTable, p
    <3>5. Objects({o}) \subseteq retained /\ TableBuffer[o] \in OptionalBuffers
      BY <3>2, NoneOptional DEF Objects
    <3>6. HeldBinding(n)
      <4> HIDE DEF o
      <4> QED
        BY <3>3, <3>5, FieldsHeld
    <3>7. n.table = o
      BY <3>3 DEF HeldBinding, IsBinding
    <3>8. HeldBinding(b) /\ DOMAIN b = {"pipeline", "root", "table", "vb", "ib"} /\ DOMAIN bound = BindPoints
      BY <3>3 DEF Holding, BoundHeld, HeldBinding, IsBinding
    <3>9. bound'["RayTracing"] = Rebound(b, n)
      BY <3>1, <3>3, <3>8
    <3>10. Rebound(b, n).table = (IF o = None THEN b.table ELSE o)
      <4>1. \A x, y : "table" \in DOMAIN x => Rebound(x, y).table = (IF y.table = None THEN x.table ELSE y.table)
        BY DEF Rebound
      <4> HIDE DEF n, b, o
      <4> QED
        BY <3>7, <3>8, <4>1
    <3>11. BoundTable'
      <4>1. CASE failed
        BY <3>1, <4>1 DEF BoundTable
      <4>2. CASE ~failed /\ newTable
        <5>1. cmd.shaderTable # None
          BY <4>2, CommandEncoderAssumption
        <5> QED
          BY <3>1, <3>9, <3>10, <4>2, <5>1 DEF BoundTable
      <4>3. CASE ~newTable
        BY <3>1, <3>4, <3>9, <3>10, <4>3 DEF BoundTable
      <4> QED
        BY <4>1, <4>2, <4>3
    <3> HIDE DEF n
    <3> QED
      BY <3>1, <3>3, <3>6, <3>11, BindKept, KeptSupplied, Zenon
  <2> QED
    BY <2>1, <2>2
<1> QED
  BY <1>3, <1>4, <1>5, <1>6, <1>7

(* The Vulkan recorder uses what is retained.                              *)
LEMMA VulkanKept ==
    ASSUME Holding, BoundTable, NEW cmd, Typed(cmd), HeldCommand(cmd), Vulkan!Record(cmd) \/ Vulkan!Finish
    PROVE  Supplied /\ BoundTable'
<1>1. ASSUME UNCHANGED <<bound, valid, table>> \/ valid' = {} PROVE BoundTable'
  BY <1>1 DEF BoundTable
<1> QED
  BY <1>1, VulkanTransfersKept, VulkanBuildsKept, VulkanLaunchesKept, VulkanPassesKept, Zenon DEF Vulkan!Record
=============================================================================
