--------------------------- MODULE D3D12Recorder ----------------------------
(***************************************************************************)
(* CommandRecorder of the D3D12 backend (src/src/d3d12/d3d12-command.cpp): *)
(* requires states command by command, also inside a render pass, which is *)
(* no more than a set of targets here, and resolves the targets itself     *)
(* when the pass ends.                                                     *)
(*                                                                         *)
(* A command list has one pipeline, which every bind point sets, and a     *)
(* compute root signature that ray tracing shares.                         *)
(***************************************************************************)
EXTENDS CommandRecorder

-----------------------------------------------------------------------------
(* Barriers and execution.                                                 *)

(* Structures stay in one D3D12 state for good: a barrier of theirs orders *)
(* reads and writes, and there is none to or from a state of another kind, *)
(* but before unordered accesses.                                          *)
Recorded(barrier) ==
    LET states == {barrier.before, barrier.after} IN
    \/ states \cap StructureStates = {}
    \/ states = {"AccelerationStructureRead", "AccelerationStructureWrite"}
    \/ states = {"MicromapRead", "MicromapWrite"}
    \/ barrier.after = "UnorderedAccess"

CommitBarriers(t) ==
    /\ gpu' = ApplyBarriers(gpu, FlattenSeq([i \in DOMAIN t.barriers |->
                    IF Recorded(t.barriers[i]) THEN <<t.barriers[i]>> ELSE <<>>]))
    /\ tracker' = [t EXCEPT !.barriers = <<>>]

(* Barriers that are left to the next command that commits some.           *)
PostponeBarriers(t) == tracker' = t /\ UNCHANGED gpu

StateUntouched ==
    UNCHANGED <<active, valid, prepared, renderState, pipeline, table, attachments, bound>>

Perform(cmd, needs) ==
    /\ CommitBarriers(Require(tracker, needs))
    /\ executing' = Executing(cmd, needs)
    /\ StateUntouched

-----------------------------------------------------------------------------
(* Copies, clears, uploads and queries.                                    *)

CmdCopyBuffer(cmd) ==
    /\ cmd.id = "CopyBuffer"
    /\ Perform(cmd, <<BufferNeed(cmd.dst, "CopyDestination"), BufferNeed(cmd.src, "CopySource")>>)

(* A range without counts is the whole texture, if both are, wherever it   *)
(* starts; otherwise a count of 0 stands for the texture's count.          *)
CopiedRange(t, range, whole) ==
    IF whole THEN EntireTexture
    ELSE [range EXCEPT !.layerCount = IF @ = 0 THEN LayerCount[t] ELSE @,
                       !.mipCount = IF @ = 0 THEN MipCount[t] ELSE @]

CmdCopyTexture(cmd) ==
    /\ cmd.id = "CopyTexture"
    /\ \E wholeExtent \in BOOLEAN :
        LET ranges == {cmd.dstRange, cmd.srcRange}
            whole == wholeExtent /\ \A r \in ranges : r.layerCount = 0 /\ r.mipCount = 0
        IN Perform(cmd, <<Need(cmd.dst, CopiedRange(cmd.dst, cmd.dstRange, whole), "CopyDestination"),
                          Need(cmd.src, CopiedRange(cmd.src, cmd.srcRange, whole), "CopySource")>>)

CmdCopyTextureToBuffer(cmd) ==
    /\ cmd.id = "CopyTextureToBuffer"
    /\ Perform(cmd, <<BufferNeed(cmd.dst, "CopyDestination"), Need(cmd.src, cmd.srcRange, "CopySource")>>)

CmdClearBuffer(cmd) ==
    /\ cmd.id = "ClearBuffer"
    /\ Perform(cmd, <<BufferNeed(cmd.dst, "UnorderedAccess")>>)

(* A texture is cleared through the first view it may have, or not at all. *)
ClearThrough(cmd, states) ==
    LET usable == {i \in DOMAIN states : states[i][1] \in Usage[cmd.dst]} IN
    IF usable = {} THEN Skip ELSE Perform(cmd, <<Need(cmd.dst, cmd.dstRange, states[Min(usable)][2])>>)

CmdClearTextureFloat(cmd) ==
    /\ cmd.id = "ClearTexture" /\ cmd.value = "Float"
    /\ ClearThrough(cmd, <<<<"RenderTarget", "RenderTarget">>, <<"UnorderedAccess", "UnorderedAccess">>>>)

CmdClearTextureUint(cmd) ==
    /\ cmd.id = "ClearTexture" /\ cmd.value = "Uint"
    /\ ClearThrough(cmd, <<<<"UnorderedAccess", "UnorderedAccess">>>>)

CmdClearTextureDepthStencil(cmd) ==
    /\ cmd.id = "ClearTexture" /\ cmd.value = "DepthStencil"
    /\ ClearThrough(cmd, <<<<"DepthStencil", "DepthWrite">>>>)

CmdUploadTextureData(cmd) ==
    /\ cmd.id = "UploadTextureData"
    /\ Perform(cmd, <<BufferNeed(cmd.src, "CopySource"), Need(cmd.dst, cmd.dstRange, "CopyDestination")>>)

CmdResolveQuery(cmd) ==
    /\ cmd.id = "ResolveQuery"
    /\ Perform(cmd, <<BufferNeed(cmd.dst, "CopyDestination")>>)

-----------------------------------------------------------------------------
(* Acceleration structures, micromaps, clusters, matrices.                 *)

(* A description that cannot be converted leaves its barriers behind.      *)
CmdBuildAccelerationStructure(cmd) ==
    /\ cmd.id = "BuildAccelerationStructure"
    /\ LET needs == <<BufferNeed(cmd.dst, "AccelerationStructureWrite")>>
                      \o OptionalNeed(cmd.src, "AccelerationStructureRead")
                      \o <<BufferNeed(cmd.scratchBuffer, "UnorderedAccess")>>
                      \o EachNeeds(cmd.inputs, "AccelerationStructureBuildInput")
                      \o OptionalNeed(cmd.micromap, "MicromapRead")
       IN /\ CommitBarriers(Require(tracker, needs))
          /\ executing' \in {Executing(cmd, needs), Nothing}
    /\ StateUntouched

(* Here they are not committed.                                            *)
CmdBuildMicromap(cmd) ==
    /\ cmd.id = "BuildMicromap"
    /\ LET needs == <<BufferNeed(cmd.dst, "MicromapWrite"),
                      BufferNeed(cmd.scratchBuffer, "UnorderedAccess")>>
                      \o EachNeeds(cmd.inputs, "MicromapBuildInput")
       IN \/ Perform(cmd, needs)
          \/ /\ PostponeBarriers(Require(tracker, needs))
             /\ executing' = Nothing
             /\ StateUntouched

CmdCopyAccelerationStructure(cmd) ==
    /\ cmd.id = "CopyAccelerationStructure"
    /\ Perform(cmd, <<BufferNeed(cmd.dst, "AccelerationStructureWrite"),
                      BufferNeed(cmd.src, "AccelerationStructureRead")>>)

(* Clusters and matrices are NVAPI's; an operation of no arguments records *)
(* nothing.                                                                *)
CmdExecuteClusterOperation(cmd) ==
    /\ cmd.id = "ExecuteClusterOperation"
    /\ \/ Skip
       \/ /\ Nvapi
          /\ Perform(cmd,
               <<BufferNeed(cmd.argsBuffer, "ShaderResource")>>
                 \o OptionalNeed(cmd.argCountBuffer, "ShaderResource")
                 \o <<BufferNeed(cmd.scratchBuffer, "UnorderedAccess")>>
                 \o OptionalNeed(cmd.addressesBuffer, "UnorderedAccess")
                 \o OptionalNeed(cmd.resultBuffer, "AccelerationStructureWrite")
                 \o OptionalNeed(cmd.sizesBuffer, "UnorderedAccess"))

CmdConvertCooperativeVectorMatrix(cmd) ==
    /\ cmd.id = "ConvertCooperativeVectorMatrix"
    /\ IF Nvapi
       THEN Perform(cmd, <<BufferNeed(cmd.dst, "UnorderedAccess"), BufferNeed(cmd.src, "ShaderResource")>>)
       ELSE Skip

Converted(cmd) ==
    /\ cmd.id = "Converted"
    /\ IF Nvapi THEN Perform(cmd, <<BufferNeed(cmd.dst, "ShaderResource")>>) ELSE Skip

-----------------------------------------------------------------------------
(* States the client sets, barriers, timestamps and callbacks.             *)

CmdSetState(cmd) ==
    /\ cmd.id \in {"SetBufferState", "SetTextureState"}
    /\ PostponeBarriers(RequireState(tracker, Need(cmd.dst, cmd.dstRange, cmd.state)))
    /\ executing' = Nothing
    /\ StateUntouched

CmdWriteTimestamp(cmd) ==
    /\ cmd.id = "WriteTimestamp"
    /\ executing' = [Nothing EXCEPT !.id = cmd.id, !.uses = {cmd.queryPool}]
    /\ UNCHANGED <<recorder, gpu, bound>>

CmdGlobalBarrier(cmd) == cmd.id = "GlobalBarrier" /\ Skip

(* The callback is given the command list and may bind what it likes.      *)
CmdExecuteCallback(cmd) ==
    /\ cmd.id = "ExecuteCallback"
    /\ CommitBarriers(tracker)
    /\ executing' = [Nothing EXCEPT !.id = cmd.id, !.uses = Objects({cmd.userObject})]
    /\ bound' = [b \in BindPoints |-> Unbound]
    /\ valid' = {}
    /\ UNCHANGED <<active, prepared, renderState, pipeline, table, attachments>>

-----------------------------------------------------------------------------
(* Render passes.                                                          *)

CmdBeginRenderPass(cmd) ==
    /\ cmd.id = "BeginRenderPass"
    /\ LET targets == TargetNeeds(cmd.desc)
       IN /\ CommitBarriers(Require(tracker, targets))
          /\ executing' = Executing(cmd, targets)
          /\ attachments' = [needs |-> targets,
                             resolves |-> ResolvedColors(cmd.desc)]
    /\ active' = active \cup {"Render"}
    /\ UNCHANGED <<valid, prepared, renderState, pipeline, table, bound>>

EachTarget(needsOf(_)) ==
    FlattenSeq([i \in DOMAIN attachments.resolves |-> needsOf(attachments.resolves[i])])

LeavePass ==
    /\ active' = active \ {"Render"}
    /\ attachments' = NoTargets
    /\ UNCHANGED <<valid, prepared, renderState, pipeline, table, bound>>

(* What the resolves write is discarded first, as a render target: the     *)
(* pass ends when there is nothing to resolve.                             *)
CmdEndRenderPass(cmd) ==
    /\ cmd.id = "EndRenderPass"
    /\ IF attachments.resolves = <<>>
       THEN LeavePass /\ executing' = Nothing /\ UNCHANGED <<tracker, gpu>>
       ELSE Perform(cmd, EachTarget(LAMBDA c : <<ViewNeed(c.resolve, "RenderTarget")>>))

(* The second half: all states are required, then all targets resolved,    *)
(* each from its first subresource to the first one, whatever the views.   *)
FirstSubresource == SubresourceRange(0, 1, 0, 1)

Resolve(cmd) ==
    /\ cmd.id = "Resolve"
    /\ LET needs == EachTarget(LAMBDA c : <<ViewNeed(c.view, "ResolveSource"),
                                            ViewNeed(c.resolve, "ResolveDestination")>>)
       IN /\ CommitBarriers(Require(tracker, needs))
          /\ executing' = Executing(cmd,
                [i \in DOMAIN needs |-> [needs[i] EXCEPT !.range = FirstSubresource]])
    /\ LeavePass

(* Every bind point sets the one pipeline; a stale one is left in bound,   *)
(* as it is on the command list, until a state is set that changes it.     *)
BindPipeline(old, bindPoint, p) ==
    IF NewPipeline(bindPoint, p)
    THEN [b \in BindPoints |-> [old[b] EXCEPT !.pipeline = p]] ELSE old

(* A set of buffers with nothing in it unbinds the index buffer only.      *)
CmdSetRenderState(cmd) ==
    /\ cmd.id = "SetRenderState"
    /\ IF "Render" \notin active THEN Skip
       ELSE LET stale == "Render" \notin valid
                newVb == stale \/ cmd.vb # renderState.vb
                newIb == stale \/ cmd.ib # renderState.ib
                needs == Bindings[cmd.root] \o GeometryNeeds(IF newVb THEN cmd.vb ELSE None,
                                                             IF newIb THEN cmd.ib ELSE None)
            IN /\ CommitBarriers(Require(tracker, needs))
               /\ bound' = [BindPipeline(bound, "Render", cmd.pipeline) EXCEPT
                     !["Render"].root = cmd.root,
                     !["Render"].vb = IF newVb /\ cmd.vb # None THEN cmd.vb ELSE @,
                     !["Render"].ib = IF newIb THEN cmd.ib ELSE @]
               /\ pipeline' = [pipeline EXCEPT !["Render"] = cmd.pipeline, !["Compute"] = None,
                                               !["RayTracing"] = None]
               /\ renderState' = [vb |-> cmd.vb, ib |-> cmd.ib]
               /\ valid' = {"Render"}
               /\ executing' = Nothing
               /\ UNCHANGED <<active, prepared, table, attachments>>

-----------------------------------------------------------------------------
(* Draws and dispatches.                                                   *)

(* The binding data are new ones for every launch, so every state sets and *)
(* requires them.  A launch executes with what is bound, in the states the *)
(* resources have then.                                                    *)
Launch(cmd, bindPoint, needs) ==
    /\ executing' = Launching(cmd, bindPoint, needs)
    /\ StateUntouched

LaunchOrDrop(cmd, bindPoint, needs) ==
    IF bindPoint \in valid
    THEN Launch(cmd, bindPoint, needs) /\ UNCHANGED <<tracker, gpu>>
    ELSE Dropped(cmd)

CmdDraw(cmd) == cmd.id = "Draw" /\ LaunchOrDrop(cmd, "Render", VertexNeeds)

CmdDrawIndexed(cmd) == cmd.id = "DrawIndexed" /\ LaunchOrDrop(cmd, "Render", IndexedNeeds)

CmdDrawMeshTasks(cmd) == cmd.id = "DrawMeshTasks" /\ LaunchOrDrop(cmd, "Render", <<>>)

(* The states of the arguments are required, but not committed.            *)
DrawWithArguments(cmd, needs) ==
    IF "Render" \notin valid THEN Dropped(cmd)
    ELSE /\ PostponeBarriers(Require(tracker, IndirectNeeds(cmd)))
         /\ Launch(cmd, "Render", IndirectNeeds(cmd) \o needs)

CmdDrawIndirect(cmd) == cmd.id = "DrawIndirect" /\ DrawWithArguments(cmd, VertexNeeds)

CmdDrawIndexedIndirect(cmd) == cmd.id = "DrawIndexedIndirect" /\ DrawWithArguments(cmd, IndexedNeeds)

(* Compute and ray-tracing passes.                                         *)
CmdPass(cmd) ==
    /\ \/ cmd.id = "BeginComputePass" /\ active' = active \cup {"Compute"}
       \/ cmd.id = "EndComputePass" /\ active' = active \ {"Compute"}
       \/ cmd.id = "BeginRayTracingPass" /\ active' = active \cup {"RayTracing"}
       \/ cmd.id = "EndRayTracingPass" /\ active' = active \ {"RayTracing"}
    /\ executing' = Nothing
    /\ UNCHANGED <<tracker, valid, prepared, renderState, pipeline, table, attachments, gpu, bound>>

(* Root arguments of compute and of ray tracing are the same.              *)
BindCompute(bindPoint, cmd) ==
    [BindPipeline(bound, bindPoint, cmd.pipeline) EXCEPT
        !["Compute"].root = cmd.root, !["RayTracing"].root = cmd.root]

CmdSetComputeState(cmd) ==
    /\ cmd.id = "SetComputeState"
    /\ IF "Compute" \notin active THEN Skip
       ELSE /\ CommitBarriers(Require(tracker, Bindings[cmd.root]))
            /\ bound' = BindCompute("Compute", cmd)
            /\ pipeline' = [pipeline EXCEPT !["Compute"] = cmd.pipeline]
            /\ valid' = {"Compute"}
            /\ executing' = Nothing
            /\ UNCHANGED <<active, prepared, renderState, table, attachments>>

CmdDispatchCompute(cmd) == cmd.id = "DispatchCompute" /\ LaunchOrDrop(cmd, "Compute", <<>>)

CmdDispatchComputeIndirect(cmd) ==
    /\ cmd.id = "DispatchComputeIndirect"
    /\ LET needs == <<BufferNeed(cmd.argBuffer, "IndirectArgument")>> IN
       IF "Compute" \notin valid THEN Dropped(cmd)
       ELSE CommitBarriers(Require(tracker, needs)) /\ Launch(cmd, "Compute", needs)

(* When the records cannot be made, pipeline and bindings are set already, *)
(* and what holds for the other bind points still holds.                   *)
CmdSetRayTracingState(cmd) ==
    /\ cmd.id = "SetRayTracingState"
    /\ IF "RayTracing" \notin active THEN Skip
       ELSE LET newTable == NewPipeline("RayTracing", cmd.pipeline) \/ cmd.shaderTable # table
                records == TableBuffer[cmd.shaderTable]
                failed == newTable /\ records = None
            IN /\ CommitBarriers(Require(tracker, Bindings[cmd.root] \o
                     (IF newTable THEN OptionalNeed(records, "ShaderResource") ELSE <<>>)))
               /\ bound' = [BindCompute("RayTracing", cmd) EXCEPT
                     !["RayTracing"].table = IF newTable /\ ~failed THEN cmd.shaderTable ELSE @]
               /\ pipeline' = [pipeline EXCEPT !["RayTracing"] = cmd.pipeline]
               /\ table' = IF newTable THEN cmd.shaderTable ELSE table
               /\ valid' = IF failed THEN valid \ {"RayTracing"} ELSE {"RayTracing"}
               /\ executing' = Nothing
               /\ UNCHANGED <<active, prepared, renderState, attachments>>

(* An index past the ray generation shaders is ignored.                    *)
CmdDispatchRays(cmd) ==
    /\ cmd.id = "DispatchRays"
    /\ IF "RayTracing" \in valid /\ ~cmd.known THEN Skip
       ELSE LaunchOrDrop(cmd, "RayTracing", OptionalNeed(TableBuffer[table], "ShaderResource"))

-----------------------------------------------------------------------------
(* The end of record(): everything goes back to its default state.         *)
Finish ==
    /\ CommitBarriers(RequireDefaultStates(tracker))
    /\ executing' = Nothing
    /\ StateUntouched

Record(cmd) ==
    \/ CmdCopyBuffer(cmd) \/ CmdCopyTexture(cmd) \/ CmdCopyTextureToBuffer(cmd)
    \/ CmdClearBuffer(cmd) \/ CmdClearTextureFloat(cmd) \/ CmdClearTextureUint(cmd)
    \/ CmdClearTextureDepthStencil(cmd) \/ CmdUploadTextureData(cmd) \/ CmdResolveQuery(cmd)
    \/ CmdBuildAccelerationStructure(cmd) \/ CmdBuildMicromap(cmd)
    \/ CmdCopyAccelerationStructure(cmd) \/ CmdExecuteClusterOperation(cmd)
    \/ CmdConvertCooperativeVectorMatrix(cmd) \/ Converted(cmd)
    \/ CmdSetState(cmd) \/ CmdWriteTimestamp(cmd) \/ CmdGlobalBarrier(cmd)
    \/ CmdExecuteCallback(cmd)
    \/ CmdBeginRenderPass(cmd) \/ CmdEndRenderPass(cmd) \/ Resolve(cmd) \/ CmdSetRenderState(cmd)
    \/ CmdDraw(cmd) \/ CmdDrawIndexed(cmd) \/ CmdDrawIndirect(cmd)
    \/ CmdDrawIndexedIndirect(cmd) \/ CmdDrawMeshTasks(cmd)
    \/ CmdPass(cmd) \/ CmdSetComputeState(cmd) \/ CmdDispatchCompute(cmd)
    \/ CmdDispatchComputeIndirect(cmd)
    \/ CmdSetRayTracingState(cmd) \/ CmdDispatchRays(cmd)
=============================================================================
