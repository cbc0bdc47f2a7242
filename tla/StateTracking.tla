--------------------------- MODULE StateTracking ---------------------------
(***************************************************************************)
(* StateTracking (src/src/state-tracking.h): the state a recorder believes *)
(* each buffer and texture subresource to be in, and the barriers it owes  *)
(* the GPU.  A tracker is a value; the recorder keeps one.  A resource the *)
(* code has not met yet is in its default state, so the maps are total.    *)
(*                                                                         *)
(* A texture is in one state as long as its subresources agree (`sub' is   *)
(* empty), and in one state per subresource <<layer, mip>> otherwise.      *)
(***************************************************************************)
EXTENDS Integers, SequencesExt, FiniteSetsExt, Functions

CONSTANTS Buffers, Textures,
          HostVisible,           \* buffers of upload or readback memory
          LayerCount, MipCount,  \* of each texture
          DefaultState,          \* of each buffer and texture
          All                    \* kAllLayers and kAllMips, the largest uint32_t

ASSUME StateTrackingAssumption ==
    /\ Buffers \cap Textures = {}
    /\ HostVisible \subseteq Buffers
    /\ \A t \in Textures : LayerCount[t] \in Nat \ {0} /\ MipCount[t] \in Nat \ {0}
    /\ \A r \in Buffers \cup Textures : DefaultState[r] # "Undefined"
    /\ All \in Nat
    /\ \A t \in Textures : LayerCount[t] < All /\ MipCount[t] < All

Resources == Buffers \cup Textures

(* An acceleration structure or a micromap owns a buffer that no client    *)
(* can name: it is used as what it is.  A buffer of a client is none.      *)
AccelerationStructures == {b \in Buffers : DefaultState[b] = "AccelerationStructureRead"}
Micromaps == {b \in Buffers : DefaultState[b] = "MicromapRead"}
PlainBuffers == Buffers \ (AccelerationStructures \cup Micromaps)

ResourceStates == {"Undefined", "General", "VertexBuffer", "IndexBuffer", "ConstantBuffer",
    "StreamOutput", "ShaderResource", "UnorderedAccess", "RenderTarget", "DepthRead", "DepthWrite",
    "Present", "IndirectArgument", "CopySource", "CopyDestination", "ResolveSource",
    "ResolveDestination", "AccelerationStructureRead", "AccelerationStructureWrite",
    "AccelerationStructureBuildInput", "MicromapBuildInput", "MicromapRead", "MicromapWrite"}

StructureStates == {"AccelerationStructureRead", "AccelerationStructureWrite",
                    "MicromapRead", "MicromapWrite"}

States == ResourceStates \ StructureStates

(* What a resource may be asked to be in.                                  *)
StatesOf(r) ==
    IF r \in AccelerationStructures THEN {"AccelerationStructureRead", "AccelerationStructureWrite"}
    ELSE IF r \in Micromaps THEN {"MicromapRead", "MicromapWrite"}
    ELSE States

ASSUME DefaultsAssumption ==
    /\ IsFiniteSet(Resources)
    /\ \A r \in Resources : DefaultState[r] \in StatesOf(r)

Subresources(t) == (0..(LayerCount[t] - 1)) \X (0..(MipCount[t] - 1))

(* What a barrier or a state is about: a buffer has one part.              *)
Parts(r) == IF r \in Buffers THEN {<<0, 0>>} ELSE Subresources(r)

SubresourceRange(layer, layerCount, mip, mipCount) ==
    [layer |-> layer, layerCount |-> layerCount, mip |-> mip, mipCount |-> mipCount]

EntireTexture == SubresourceRange(0, All, 0, All)

Ranges == [layer : Nat, layerCount : Nat, mip : Nat, mipCount : Nat]

Needs == {need \in [res : Resources, range : Ranges, state : ResourceStates] : need.state \in StatesOf(need.res)}

Smaller(a, b) == IF a < b THEN a ELSE b

(* Texture::resolveSubresourceRange(): the part of a range that exists.    *)
Resolved(t, range) ==
    LET layer == Smaller(range.layer, LayerCount[t] - 1)
        mip == Smaller(range.mip, MipCount[t] - 1)
    IN SubresourceRange(layer, Smaller(range.layerCount, LayerCount[t] - layer),
                        mip, Smaller(range.mipCount, MipCount[t] - mip))

IsEntire(t, range) ==
    /\ range.layer = 0 /\ range.layerCount >= LayerCount[t]
    /\ range.mip = 0 /\ range.mipCount >= MipCount[t]

(* The subresources a range names.                                         *)
Named(range) == (range.layer..(range.layer + range.layerCount - 1))
                  \X (range.mip..(range.mip + range.mipCount - 1))

Barrier(r, parts, before, after) ==
    [res |-> r, parts |-> parts, before |-> before, after |-> after]

FreshTracker == [buffers  |-> [b \in Buffers |-> DefaultState[b]],
                 textures |-> [t \in Textures |-> [state |-> DefaultState[t], sub |-> <<>>]],
                 barriers |-> <<>>]

-----------------------------------------------------------------------------
(* Unordered accesses are ordered by a barrier even when the state stays.  *)
Changes(before, after) == before # after \/ after = "UnorderedAccess"

SetBufferState(tracker, b, state) ==
    IF b \in HostVisible \/ ~Changes(tracker.buffers[b], state) THEN tracker
    ELSE [tracker EXCEPT
            !.buffers[b] = state,
            !.barriers = Append(@, Barrier(b, Parts(b), tracker.buffers[b], state))]

(* Mutant: the states collapse when those of the first layer agree.        *)
CollapseEarly(t, sub) ==
    IF \A m \in 0..(MipCount[t] - 1) : sub[<<0, m>>] = sub[<<0, 0>>]
    THEN [state |-> sub[<<0, 0>>], sub |-> <<>>]
    ELSE [state |-> "Undefined", sub |-> sub]

(* Subresources that agree again are represented by one state.             *)
Collapse(t, sub) ==
    IF \A x \in Subresources(t) : sub[x] = sub[<<0, 0>>]
    THEN [state |-> sub[<<0, 0>>], sub |-> <<>>]
    ELSE [state |-> "Undefined", sub |-> sub]

(* The loop over layers runs to the last layer of the texture.             *)
Touched(t, range) ==
    (range.layer..(LayerCount[t] - 1)) \X (range.mip..(range.mip + range.mipCount - 1))

SetSubresourceStates(tracker, t, range, state) ==
    LET known == tracker.textures[t]
        sub == IF known.sub = <<>> THEN [x \in Subresources(t) |-> known.state]
                                   ELSE known.sub
        changed == {x \in Touched(t, range) : Changes(sub[x], state)}
        owed == [x \in changed |-> Barrier(t, {x}, sub[x], state)]
        after == [x \in Subresources(t) |-> IF x \in changed THEN state ELSE sub[x]]
    IN [tracker EXCEPT !.textures[t] = Collapse(t, after),
                       !.barriers = @ \o SetToSeq(Range(owed))]

SetTextureState(tracker, t, given, state) ==
    LET known == tracker.textures[t]
        range == Resolved(t, given)
    IN
    IF ~IsEntire(t, range) \/ known.sub # <<>>
    THEN SetSubresourceStates(tracker, t, range, state)
    ELSE IF ~Changes(known.state, state) THEN tracker
    ELSE [tracker EXCEPT
            !.textures[t].state = state,
            !.barriers = Append(@, Barrier(t, Parts(t), known.state, state))]

(* What a command needs of a resource before it executes.                  *)
Need(r, range, state) == [res |-> r, range |-> range, state |-> state]
BufferNeed(b, state) == Need(b, SubresourceRange(0, 1, 0, 1), state)

RequireState(tracker, need) ==
    IF need.res \in Buffers
    THEN SetBufferState(tracker, need.res, need.state)
    ELSE SetTextureState(tracker, need.res, need.range, need.state)

Require(tracker, needs) ==
    LET after[n \in 0..Len(needs)] ==
            IF n = 0 THEN tracker ELSE RequireState(after[n - 1], needs[n])
    IN after[Len(needs)]

(* Mutant: textures stay in the state they were last used in.              *)
RequireDefaultBuffers(tracker) ==
    Require(tracker, SetToSeq(
        {BufferNeed(b, DefaultState[b]) :
            b \in {c \in Buffers : tracker.buffers[c] # DefaultState[c]}}))

RequireDefaultStates(tracker) ==
    Require(tracker, SetToSeq(
        {BufferNeed(b, DefaultState[b]) :
            b \in {c \in Buffers : tracker.buffers[c] # DefaultState[c]}}
        \cup {Need(t, EntireTexture, DefaultState[t]) :
            t \in {u \in Textures : tracker.textures[u].state # DefaultState[u]}}))

-----------------------------------------------------------------------------
(* The state of every part as the GPU has it, which barriers change.       *)
FreshStates == [r \in Resources |-> [x \in Parts(r) |-> DefaultState[r]]]

(* A barrier that names another state than the part is in loses the part.  *)
ApplyBarrier(states, barrier) ==
    [states EXCEPT ![barrier.res] =
        [x \in Parts(barrier.res) |->
            IF x \notin barrier.parts THEN @[x]
            ELSE IF @[x] = barrier.before THEN barrier.after
            ELSE "Undefined"]]

ApplyBarriers(states, barriers) ==
    LET after[n \in 0..Len(barriers)] ==
            IF n = 0 THEN states ELSE ApplyBarrier(after[n - 1], barriers[n])
    IN after[Len(barriers)]

Believed(tracker) ==
    [r \in Resources |-> [x \in Parts(r) |->
        IF r \in Buffers THEN tracker.buffers[r]
        ELSE IF tracker.textures[r].sub = <<>> THEN tracker.textures[r].state
        ELSE tracker.textures[r].sub[x]]]
=============================================================================
