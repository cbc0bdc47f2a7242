--------------------------- MODULE CommandRecorder --------------------------
(***************************************************************************)
(* What the command recorders of the backends share: the list of commands  *)
(* that an encoder writes for them, their state, and the device their      *)
(* native commands run on.                                                 *)
(*                                                                         *)
(* write() appends a command to the list (src/src/command-list.cpp) and    *)
(* retains the objects it names until the command buffer is reset.  A      *)
(* command is a record of its arguments.  An acceleration structure or a   *)
(* micromap stands for the buffer it owns, a view is a texture and a range *)
(* [res, range]; debug markers are left out.                               *)
(*                                                                         *)
(* Each backend has a class CommandRecorder, or CommandExecutor, of its    *)
(* own that turns the command list of an encoder into native commands.     *)
(*                                                                         *)
(* The GPU is what the recorded commands make of it, in their order: the   *)
(* state of each resource and what is bound.                               *)
(***************************************************************************)
EXTENDS StateTracking

CONSTANT None                \* no object

VARIABLES list,              \* commands written and not recorded yet
          retained           \* m_trackedObjects

Objects(set) == set \ {None}

(* Copies, clears, uploads and queries.                                    *)
RetainedByTransfer(cmd) ==
    CASE cmd.id \in {"CopyBuffer", "CopyTexture", "CopyTextureToBuffer", "UploadTextureData"}
            -> {cmd.dst, cmd.src}
      [] cmd.id \in {"ClearBuffer", "ClearTexture"} -> {cmd.dst}
      [] cmd.id = "ResolveQuery" -> {cmd.queryPool, cmd.dst}
      [] OTHER -> {}

RetainedByPass(cmd) ==
    CASE cmd.id = "BeginRenderPass"
            -> (UNION {{a.view.res, a.resolve.res} : a \in Range(cmd.desc.colors)})
                 \cup {cmd.desc.depth.view.res}
      [] cmd.id \in {"SetRenderState", "SetComputeState"} -> {cmd.pipeline}
      [] cmd.id = "SetRayTracingState" -> {cmd.pipeline, cmd.shaderTable}
      [] cmd.id \in {"DrawIndirect", "DrawIndexedIndirect"} -> {cmd.argBuffer, cmd.countBuffer}
      [] cmd.id = "DispatchComputeIndirect" -> {cmd.argBuffer}
      [] OTHER -> {}

RetainedByBuild(cmd) ==
    CASE cmd.id = "BuildAccelerationStructure"
            -> {cmd.dst, cmd.src, cmd.scratchBuffer} \cup cmd.inputs \cup {cmd.micromap}
      [] cmd.id = "BuildMicromap" -> {cmd.dst, cmd.scratchBuffer} \cup cmd.inputs
      [] cmd.id = "CopyAccelerationStructure" -> {cmd.dst, cmd.src}
      [] OTHER -> {}

RetainedByOther(cmd) ==
    CASE cmd.id = "ExecuteClusterOperation"
            -> {cmd.argCountBuffer, cmd.argsBuffer, cmd.scratchBuffer,
                cmd.addressesBuffer, cmd.resultBuffer, cmd.sizesBuffer}
      [] cmd.id = "ConvertCooperativeVectorMatrix" -> {cmd.dst, cmd.src}
      [] cmd.id \in {"SetBufferState", "SetTextureState"} -> {cmd.dst}
      [] cmd.id = "WriteTimestamp" -> {cmd.queryPool}
      [] cmd.id = "ExecuteCallback" -> {cmd.userObject}
      [] OTHER -> {}

(* Mutant: a pass retains what the commands in it name, not its targets.   *)
RetainedButTargets(cmd) ==
    Objects(RetainedByTransfer(cmd) \cup RetainedByBuild(cmd) \cup RetainedByOther(cmd)
              \cup (IF cmd.id = "BeginRenderPass" THEN {} ELSE RetainedByPass(cmd)))

RetainedBy(cmd) == Objects(RetainedByTransfer(cmd) \cup RetainedByPass(cmd)
                             \cup RetainedByBuild(cmd) \cup RetainedByOther(cmd))

Write(cmds) ==
    /\ list' = list \o cmds
    /\ retained' = retained \cup UNION {RetainedBy(cmd) : cmd \in Range(cmds)}

-----------------------------------------------------------------------------
CONSTANTS Bindings,    \* what a root object needs: a sequence of needs
          TableBuffer, \* the records of a shader table, None if they cannot be made
          Usage,       \* of each texture: "RenderTarget", "UnorderedAccess", "DepthStencil"
          Nvapi        \* whether the D3D12 backend is built with NVAPI, and the GPU has it

BindPoints == {"Render", "Compute", "RayTracing"}

VARIABLES tracker,      \* m_stateTracking
          active,       \* passes that are open: m_renderPassActive ...
          valid,        \* bind points whose state holds: m_renderStateValid ...
          prepared,     \* m_preparedRenderStateValid (Vulkan)
          renderState,  \* vertex and index buffer of m_renderState
          pipeline,     \* m_renderPipeline, m_computePipeline, m_rayTracingPipeline
          table,        \* m_shaderTable
          attachments,  \* what the targets of the open render pass need,
                        \* and the targets it has yet to resolve
          gpu,          \* the state of each resource
          bound,        \* what is bound at each bind point
          executing,    \* the last command the GPU was given
          native,       \* the open native encoder (Metal)
          closed        \* record() is done

recorder == <<tracker, active, valid, prepared, renderState, pipeline, table, attachments>>
device == <<gpu, bound, executing, native>>

Unbound == [pipeline |-> None, root |-> None, table |-> None, vb |-> None, ib |-> None]
Nothing == [id |-> "Nothing", needs |-> {}, uses |-> {}, bound |-> Unbound, asked |-> Unbound,
            failed |-> FALSE, barred |-> FALSE, raced |-> FALSE]
NoTargets == [needs |-> <<>>, resolves |-> <<>>]
NoGeometry == [vb |-> None, ib |-> None]

(* Which kind of encoder it is, whether it had dispatches, and what they   *)
(* accessed since its last barrier.                                        *)
NativeEncoder(kind) == [kind |-> kind, dispatched |-> FALSE, accesses |-> {}]

RecorderInit ==
    /\ tracker = FreshTracker
    /\ active = {}
    /\ valid = {}
    /\ prepared = FALSE
    /\ renderState = NoGeometry
    /\ pipeline = [b \in BindPoints |-> None]
    /\ table = None
    /\ attachments = NoTargets
    /\ gpu = FreshStates
    /\ bound = [b \in BindPoints |-> Unbound]
    /\ executing = Nothing
    /\ native = NativeEncoder(None)
    /\ closed = FALSE

-----------------------------------------------------------------------------
(* Commands and what they need.                                            *)

Uses(needs) == {need.res : need \in needs}

(* A command executes that needs these states.                             *)
Executing(cmd, needs) ==
    [Nothing EXCEPT !.id = cmd.id, !.needs = Range(needs), !.uses = Uses(Range(needs))]

(* A draw or dispatch executes with what is bound and with the targets.    *)
(* A shader table owns the buffer of its records.                          *)
Launching(cmd, bindPoint, needs) ==
    LET b == bound[bindPoint]
        root == IF b.root = None THEN <<>> ELSE Bindings[b.root]
    IN [Executing(cmd, needs \o root \o attachments.needs) EXCEPT
          !.uses = (@ \ {TableBuffer[b.table]}) \cup Objects({b.pipeline, b.table}),
          !.bound = b, !.asked = cmd.asked, !.failed = cmd.failed]

(* A command that is left out, and one that records nothing.               *)
Dropped(cmd) ==
    /\ executing' = [Nothing EXCEPT !.id = "Dropped", !.asked = cmd.asked, !.failed = cmd.failed]
    /\ UNCHANGED <<recorder, gpu, bound>>

Skip == UNCHANGED <<recorder, gpu, bound>> /\ executing' = Nothing

OptionalNeed(b, state) == IF b = None THEN <<>> ELSE <<BufferNeed(b, state)>>

EachNeeds(buffers, state) == SetToSeq({BufferNeed(b, state) : b \in buffers})

GeometryNeeds(vb, ib) == OptionalNeed(vb, "VertexBuffer") \o OptionalNeed(ib, "IndexBuffer")

VertexNeeds == OptionalNeed(bound["Render"].vb, "VertexBuffer")
IndexedNeeds == GeometryNeeds(bound["Render"].vb, bound["Render"].ib)

IndirectNeeds(cmd) == <<BufferNeed(cmd.argBuffer, "IndirectArgument")>>
                        \o OptionalNeed(cmd.countBuffer, "IndirectArgument")

(* What the targets of a pass need.                                        *)
ViewNeed(view, state) == Need(view.res, view.range, state)

TargetNeeds(desc) ==
    [i \in DOMAIN desc.colors |-> ViewNeed(desc.colors[i].view, "RenderTarget")]
      \o (IF desc.depth.view.res = None THEN <<>>
          ELSE <<ViewNeed(desc.depth.view, IF desc.depth.readOnly THEN "DepthRead" ELSE "DepthWrite")>>)

(* The targets of a pass that are resolved to others.                      *)
ResolvedColors(desc) ==
    FlattenSeq([i \in DOMAIN desc.colors |->
                  IF desc.colors[i].resolve.res = None THEN <<>> ELSE <<desc.colors[i]>>])

(* What a bind leaves bound: nothing is unbound.                           *)
Rebound(old, new) == [f \in DOMAIN old |-> IF new[f] = None THEN old[f] ELSE new[f]]

NewPipeline(bindPoint, p) == bindPoint \notin valid \/ p # pipeline[bindPoint]

(* What a state command sets: binding data are new ones for every launch,  *)
(* the rest only if it changed.                                            *)
NewProgram(bindPoint, cmd) ==
    [Unbound EXCEPT !.pipeline = IF NewPipeline(bindPoint, cmd.pipeline) THEN cmd.pipeline ELSE None,
                    !.root = cmd.root]

NewRenderState(cmd) ==
    LET stale == "Render" \notin valid
    IN [NewProgram("Render", cmd) EXCEPT
          !.vb = IF stale \/ cmd.vb # renderState.vb THEN cmd.vb ELSE None,
          !.ib = IF stale \/ cmd.ib # renderState.ib THEN cmd.ib ELSE None]

(* What is left of the list after its first command.  Two handlers have a  *)
(* second half that executes after new barriers: a step of its own, for    *)
(* which the command is written once more under another name.              *)
Rest == LET cmd == Head(list)
            Again(id) == <<[cmd EXCEPT !.id = id]>> \o Tail(list)
        IN CASE cmd.id = "ConvertCooperativeVectorMatrix" -> Again("Converted")
             [] cmd.id = "EndRenderPass" /\ attachments.resolves # <<>> -> Again("Resolve")
             [] OTHER -> Tail(list)

-----------------------------------------------------------------------------
(* Whether every part a need names is in the state it needs; upload and    *)
(* readback buffers have one state for good.                               *)
Met(need) ==
    need.res \in HostVisible \/
    \A x \in (IF need.res \in Buffers THEN Parts(need.res) ELSE Named(need.range)) :
        x \in Parts(need.res) => gpu[need.res][x] = need.state
=============================================================================
