--------------------------- MODULE VulkanRecorder ---------------------------
(***************************************************************************)
(* CommandRecorder of the Vulkan backend (src/src/vulkan/vk-command.cpp):  *)
(* puts the barriers in that bring each resource into the state a command  *)
(* needs, binds only what changed since the last draw, and, since barriers *)
(* may not be recorded inside a render pass, looks ahead at the states a   *)
(* pass will set before it enters it.                                      *)
(***************************************************************************)
EXTENDS CommandRecorder

-----------------------------------------------------------------------------
(* Barriers and execution.                                                 *)

CommitBarriers(t) ==
    /\ gpu' = ApplyBarriers(gpu, t.barriers)
    /\ tracker' = [t EXCEPT !.barriers = <<>>]

(* Barriers would be recorded inside a render pass.                        *)
Barred(t) == "Render" \in active /\ t.barriers # <<>>

(* Most commands require states, commit the barriers and execute.          *)
Perform(cmd, needs) ==
    LET t == Require(tracker, needs) IN
    /\ CommitBarriers(t)
    /\ executing' = [Executing(cmd, needs) EXCEPT !.barred = Barred(t)]
    /\ UNCHANGED <<active, valid, prepared, renderState, pipeline, table, attachments, bound>>

(* A command that only changes what the recorder knows.                    *)
Quietly(t) ==
    /\ tracker' = t
    /\ executing' = Nothing
    /\ UNCHANGED gpu

-----------------------------------------------------------------------------
(* Copies, clears, uploads and queries.                                    *)

CmdCopyBuffer(cmd) ==
    /\ cmd.id = "CopyBuffer"
    /\ Perform(cmd, <<BufferNeed(cmd.dst, "CopyDestination"), BufferNeed(cmd.src, "CopySource")>>)

(* A count of 0 stands for the texture's count, whatever the range starts  *)
(* at; the copy goes on from the first subresource of the range.           *)
FixUp(t, range) ==
    [range EXCEPT !.layerCount = IF @ = 0 THEN LayerCount[t] ELSE @,
                  !.mipCount = IF @ = 0 THEN MipCount[t] ELSE @]

CmdCopyTexture(cmd) ==
    /\ cmd.id = "CopyTexture"
    /\ Perform(cmd, <<Need(cmd.dst, FixUp(cmd.dst, cmd.dstRange), "CopyDestination"),
                      Need(cmd.src, FixUp(cmd.src, cmd.srcRange), "CopySource")>>)

CmdCopyTextureToBuffer(cmd) ==
    /\ cmd.id = "CopyTextureToBuffer"
    /\ Perform(cmd, <<BufferNeed(cmd.dst, "CopyDestination"), Need(cmd.src, cmd.srcRange, "CopySource")>>)

CmdClearBuffer(cmd) ==
    /\ cmd.id = "ClearBuffer"
    /\ Perform(cmd, <<BufferNeed(cmd.dst, "CopyDestination")>>)

(* The three texture clears differ in the value.                           *)
CmdClearTexture(cmd) ==
    /\ cmd.id = "ClearTexture"
    /\ Perform(cmd, <<Need(cmd.dst, cmd.dstRange, "CopyDestination")>>)

CmdUploadTextureData(cmd) ==
    /\ cmd.id = "UploadTextureData"
    /\ Perform(cmd, <<BufferNeed(cmd.src, "CopySource"), Need(cmd.dst, cmd.dstRange, "CopyDestination")>>)

CmdResolveQuery(cmd) ==
    /\ cmd.id = "ResolveQuery"
    /\ Perform(cmd, <<BufferNeed(cmd.dst, "CopyDestination")>>)

-----------------------------------------------------------------------------
(* Acceleration structures, micromaps, clusters, matrices.                 *)

(* A description that cannot be converted records nothing.                 *)
CmdBuildAccelerationStructure(cmd) ==
    /\ cmd.id = "BuildAccelerationStructure"
    /\ \/ Skip
       \/ Perform(cmd,
            <<BufferNeed(cmd.dst, "AccelerationStructureWrite")>>
              \o OptionalNeed(cmd.src, "AccelerationStructureRead")
              \o <<BufferNeed(cmd.scratchBuffer, "UnorderedAccess")>>
              \o EachNeeds(cmd.inputs, "AccelerationStructureBuildInput")
              \o OptionalNeed(cmd.micromap, "MicromapRead"))

(* When the description cannot be converted the states are required        *)
(* already and the barriers stay for the next command.                     *)
CmdBuildMicromap(cmd) ==
    /\ cmd.id = "BuildMicromap"
    /\ LET needs == <<BufferNeed(cmd.dst, "MicromapWrite"),
                      BufferNeed(cmd.scratchBuffer, "UnorderedAccess")>>
                      \o EachNeeds(cmd.inputs, "MicromapBuildInput")
       IN \/ Perform(cmd, needs)
          \/ /\ Quietly(Require(tracker, needs))
             /\ UNCHANGED <<active, valid, prepared, renderState, pipeline, table, attachments, bound>>

CmdCopyAccelerationStructure(cmd) ==
    /\ cmd.id = "CopyAccelerationStructure"
    /\ Perform(cmd, <<BufferNeed(cmd.dst, "AccelerationStructureWrite"),
                      BufferNeed(cmd.src, "AccelerationStructureRead")>>)

CmdExecuteClusterOperation(cmd) ==
    /\ cmd.id = "ExecuteClusterOperation"
    /\ Perform(cmd,
         <<BufferNeed(cmd.argsBuffer, "ShaderResource")>>
           \o OptionalNeed(cmd.argCountBuffer, "ShaderResource")
           \o <<BufferNeed(cmd.scratchBuffer, "UnorderedAccess")>>
           \o OptionalNeed(cmd.addressesBuffer, "UnorderedAccess")
           \o OptionalNeed(cmd.resultBuffer, "AccelerationStructureWrite")
           \o OptionalNeed(cmd.sizesBuffer, "UnorderedAccess"))

(* After the conversion the result is made readable right away.            *)
CmdConvertCooperativeVectorMatrix(cmd) ==
    /\ cmd.id = "ConvertCooperativeVectorMatrix"
    /\ Perform(cmd, <<BufferNeed(cmd.dst, "UnorderedAccess"), BufferNeed(cmd.src, "ShaderResource")>>)

Converted(cmd) ==
    /\ cmd.id = "Converted"
    /\ Perform(cmd, <<BufferNeed(cmd.dst, "ShaderResource")>>)

-----------------------------------------------------------------------------
(* States the client sets, barriers, timestamps and callbacks.             *)

CmdSetState(cmd) ==
    /\ cmd.id \in {"SetBufferState", "SetTextureState"}
    /\ Quietly(RequireState(tracker, Need(cmd.dst, cmd.dstRange, cmd.state)))
    /\ UNCHANGED <<active, valid, prepared, renderState, pipeline, table, attachments, bound>>

(* Neither touches a resource's state.                                     *)
CmdWriteTimestamp(cmd) ==
    /\ cmd.id = "WriteTimestamp"
    /\ executing' = [Nothing EXCEPT !.id = cmd.id, !.uses = {cmd.queryPool}]
    /\ UNCHANGED <<recorder, gpu, bound>>

CmdGlobalBarrier(cmd) == cmd.id = "GlobalBarrier" /\ Skip

(* Mutant: the callback is not expected to bind anything.                  *)
AfterCallbackKeeping == [valid |-> valid, prepared |-> prepared]

AfterCallback == [valid |-> {}, prepared |-> FALSE]

(* The callback is given the command buffer and may bind what it likes.    *)
CmdExecuteCallback(cmd) ==
    /\ cmd.id = "ExecuteCallback"
    /\ CommitBarriers(tracker)
    /\ executing' = [Nothing EXCEPT !.id = cmd.id, !.uses = Objects({cmd.userObject})]
    /\ bound' = [b \in BindPoints |-> Unbound]
    /\ valid' = AfterCallback.valid
    /\ prepared' = AfterCallback.prepared
    /\ UNCHANGED <<active, renderState, pipeline, table, attachments>>

-----------------------------------------------------------------------------
(* Render passes.                                                          *)

(* What the targets of a pass need, in the order they are required.        *)
AttachmentNeeds(desc) ==
    LET ofColor(a) ==
            <<Need(a.view.res, a.view.range, "RenderTarget")>>
              \o (IF a.resolve.res = None THEN <<>>
                  ELSE <<Need(a.resolve.res, a.resolve.range, "ResolveDestination")>>)
    IN FlattenSeq([i \in DOMAIN desc.colors |-> ofColor(desc.colors[i])])
         \o (IF desc.depth.view.res = None THEN <<>>
             ELSE <<Need(desc.depth.view.res, desc.depth.view.range,
                         IF desc.depth.readOnly THEN "DepthRead" ELSE "DepthWrite")>>)

(* The end of the pass at the head of the list, and where before that it   *)
(* will set its states.                                                    *)
EndOfPass == CHOOSE i \in DOMAIN list :
    /\ list[i].id = "EndRenderPass"
    /\ \A j \in 1..(i - 1) : list[j].id # "EndRenderPass"

StatesAhead == {i \in 1..EndOfPass : list[i].id = "SetRenderState"}

(* Mutant: bindings are prepared once per pass.                            *)
PreparedNeedsOnce(wasPrepared, cmd) ==
    (IF wasPrepared THEN <<>> ELSE Bindings[cmd.root])
      \o GeometryNeeds(IF wasPrepared /\ cmd.vb = renderState.vb THEN None ELSE cmd.vb,
                       IF wasPrepared /\ cmd.ib = renderState.ib THEN None ELSE cmd.ib)

(* prepareSetRenderState(): the binding data are always new ones; buffers  *)
(* are compared with those the last draw before the pass was given.        *)
PreparedNeeds(wasPrepared, cmd) ==
    Bindings[cmd.root]
      \o GeometryNeeds(IF wasPrepared /\ cmd.vb = renderState.vb THEN None ELSE cmd.vb,
                       IF wasPrepared /\ cmd.ib = renderState.ib THEN None ELSE cmd.ib)

NeedsAhead ==
    FlattenSeq([i \in 1..EndOfPass |->
        IF i \notin StatesAhead THEN <<>>
        ELSE PreparedNeeds(prepared \/ (\E j \in StatesAhead : j < i), list[i])])

(* The barriers of the states ahead are committed, then those of the       *)
(* targets, and the pass begins.                                           *)
CmdBeginRenderPass(cmd) ==
    /\ cmd.id = "BeginRenderPass"
    /\ LET targets == AttachmentNeeds(cmd.desc)
       IN /\ CommitBarriers(Require(tracker, NeedsAhead \o targets))
          /\ executing' = Executing(cmd, targets)
          /\ attachments' = [NoTargets EXCEPT !.needs = targets]
          /\ prepared' = (prepared \/ StatesAhead # {})
    /\ active' = active \cup {"Render"}
    /\ UNCHANGED <<valid, renderState, pipeline, table, bound>>

CmdEndRenderPass(cmd) ==
    /\ cmd.id = "EndRenderPass"
    /\ active' = active \ {"Render"}
    /\ attachments' = NoTargets
    /\ executing' = Nothing
    /\ UNCHANGED <<tracker, valid, prepared, renderState, pipeline, table, gpu, bound>>

CmdSetRenderState(cmd) ==
    /\ cmd.id = "SetRenderState"
    /\ IF "Render" \notin active THEN Skip
       ELSE /\ bound' = [bound EXCEPT !["Render"] = Rebound(@, NewRenderState(cmd))]
            /\ pipeline' = [pipeline EXCEPT !["Render"] = cmd.pipeline, !["Compute"] = None,
                                            !["RayTracing"] = None]
            /\ renderState' = [vb |-> cmd.vb, ib |-> cmd.ib]
            /\ valid' = {"Render"}
            /\ executing' = Nothing
            /\ UNCHANGED <<tracker, active, prepared, table, attachments, gpu>>

-----------------------------------------------------------------------------
(* Draws and dispatches: what is bound, and what the shaders touch.        *)

(* required: what the command itself requires; touched: what it uses in a  *)
(* state required before, besides the bindings and the targets.            *)
Launch(cmd, bindPoint, required, touched) ==
    LET t == Require(tracker, required) IN
    /\ CommitBarriers(t)
    /\ executing' = [Launching(cmd, bindPoint, required \o touched) EXCEPT !.barred = Barred(t)]
    /\ UNCHANGED <<active, valid, prepared, renderState, pipeline, table, attachments, bound>>

LaunchOrDrop(cmd, bindPoint, required, touched) ==
    IF bindPoint \in valid THEN Launch(cmd, bindPoint, required, touched) ELSE Dropped(cmd)

CmdDraw(cmd) == cmd.id = "Draw" /\ LaunchOrDrop(cmd, "Render", <<>>, VertexNeeds)

CmdDrawIndexed(cmd) == cmd.id = "DrawIndexed" /\ LaunchOrDrop(cmd, "Render", <<>>, IndexedNeeds)

(* The arguments' barriers are recorded where the draw is: in the pass.    *)
CmdDrawIndirect(cmd) ==
    cmd.id = "DrawIndirect" /\ LaunchOrDrop(cmd, "Render", IndirectNeeds(cmd), VertexNeeds)

CmdDrawIndexedIndirect(cmd) ==
    cmd.id = "DrawIndexedIndirect" /\ LaunchOrDrop(cmd, "Render", IndirectNeeds(cmd), IndexedNeeds)

CmdDrawMeshTasks(cmd) == cmd.id = "DrawMeshTasks" /\ LaunchOrDrop(cmd, "Render", <<>>, <<>>)

(* Compute and ray-tracing passes.                                         *)
CmdPass(cmd) ==
    /\ \/ cmd.id = "BeginComputePass" /\ active' = active \cup {"Compute"}
       \/ cmd.id = "EndComputePass" /\ active' = active \ {"Compute"}
       \/ cmd.id = "BeginRayTracingPass" /\ active' = active \cup {"RayTracing"}
       \/ cmd.id = "EndRayTracingPass" /\ active' = active \ {"RayTracing"}
    /\ executing' = Nothing
    /\ UNCHANGED <<tracker, valid, prepared, renderState, pipeline, table, attachments, gpu, bound>>

CmdSetComputeState(cmd) ==
    /\ cmd.id = "SetComputeState"
    /\ IF "Compute" \notin active THEN Skip
       ELSE /\ CommitBarriers(Require(tracker, Bindings[cmd.root]))
            /\ bound' = [bound EXCEPT !["Compute"] = Rebound(@, NewProgram("Compute", cmd))]
            /\ pipeline' = [pipeline EXCEPT !["Compute"] = cmd.pipeline]
            /\ valid' = {"Compute"}
            /\ prepared' = FALSE
            /\ executing' = Nothing
            /\ UNCHANGED <<active, renderState, table, attachments>>

CmdDispatchCompute(cmd) ==
    /\ cmd.id = "DispatchCompute"
    /\ LaunchOrDrop(cmd, "Compute", <<>>, <<>>)

CmdDispatchComputeIndirect(cmd) ==
    /\ cmd.id = "DispatchComputeIndirect"
    /\ LaunchOrDrop(cmd, "Compute", <<BufferNeed(cmd.argBuffer, "IndirectArgument")>>, <<>>)

(* A table whose records cannot be made leaves the bind point invalid, the *)
(* bindings bound and their barriers pending.                              *)
CmdSetRayTracingState(cmd) ==
    /\ cmd.id = "SetRayTracingState"
    /\ IF "RayTracing" \notin active THEN Skip
       ELSE LET newTable == NewPipeline("RayTracing", cmd.pipeline) \/ cmd.shaderTable # table
                records == TableBuffer[cmd.shaderTable]
                t == Require(tracker, Bindings[cmd.root])
            IN /\ bound' = [bound EXCEPT !["RayTracing"] = Rebound(@,
                     [NewProgram("RayTracing", cmd) EXCEPT
                        !.table = IF newTable THEN cmd.shaderTable ELSE None])]
               /\ pipeline' = [pipeline EXCEPT !["RayTracing"] = cmd.pipeline]
               /\ table' = IF newTable THEN cmd.shaderTable ELSE table
               /\ IF newTable /\ records = None
                  THEN /\ Quietly(t)
                       /\ valid' = valid \ {"RayTracing"}
                       /\ prepared' = prepared
                  ELSE /\ CommitBarriers(IF newTable
                             THEN RequireState(t, BufferNeed(records, "ShaderResource")) ELSE t)
                       /\ executing' = Nothing
                       /\ valid' = {"RayTracing"}
                       /\ prepared' = FALSE
               /\ UNCHANGED <<active, renderState, attachments>>

(* An index past the ray generation shaders is ignored.                    *)
CmdDispatchRays(cmd) ==
    /\ cmd.id = "DispatchRays"
    /\ IF "RayTracing" \in valid /\ ~cmd.known THEN Skip
       ELSE LaunchOrDrop(cmd, "RayTracing", <<>>,
                         OptionalNeed(TableBuffer[table], "ShaderResource"))

-----------------------------------------------------------------------------
(* The end of record(): everything goes back to its default state.         *)
Finish ==
    /\ CommitBarriers(RequireDefaultStates(tracker))
    /\ executing' = Nothing
    /\ UNCHANGED <<active, valid, prepared, renderState, pipeline, table, attachments, bound>>

Record(cmd) ==
    \/ CmdCopyBuffer(cmd) \/ CmdCopyTexture(cmd) \/ CmdCopyTextureToBuffer(cmd)
    \/ CmdClearBuffer(cmd) \/ CmdClearTexture(cmd) \/ CmdUploadTextureData(cmd)
    \/ CmdResolveQuery(cmd)
    \/ CmdBuildAccelerationStructure(cmd) \/ CmdBuildMicromap(cmd)
    \/ CmdCopyAccelerationStructure(cmd) \/ CmdExecuteClusterOperation(cmd)
    \/ CmdConvertCooperativeVectorMatrix(cmd) \/ Converted(cmd)
    \/ CmdSetState(cmd) \/ CmdWriteTimestamp(cmd) \/ CmdGlobalBarrier(cmd)
    \/ CmdExecuteCallback(cmd)
    \/ CmdBeginRenderPass(cmd) \/ CmdEndRenderPass(cmd) \/ CmdSetRenderState(cmd)
    \/ CmdDraw(cmd) \/ CmdDrawIndexed(cmd) \/ CmdDrawIndirect(cmd)
    \/ CmdDrawIndexedIndirect(cmd) \/ CmdDrawMeshTasks(cmd)
    \/ CmdPass(cmd) \/ CmdSetComputeState(cmd) \/ CmdDispatchCompute(cmd)
    \/ CmdDispatchComputeIndirect(cmd)
    \/ CmdSetRayTracingState(cmd) \/ CmdDispatchRays(cmd)
=============================================================================
