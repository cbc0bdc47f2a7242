--------------------------- MODULE WGPURecorder -----------------------------
(***************************************************************************)
(* CommandRecorder of the WebGPU backend (src/src/wgpu/wgpu-command.cpp):  *)
(* a pass is a pass encoder of WebGPU, which starts with nothing bound.    *)
(* The build is a native one: in a browser draws have no arguments in      *)
(* buffers.                                                                *)
(***************************************************************************)
EXTENDS UntrackedRecorder

CmdCopyBuffer(cmd) == cmd.id = "CopyBuffer" /\ Perform(cmd, {cmd.dst, cmd.src})

CmdCopyTexture(cmd) == cmd.id = "CopyTexture" /\ Perform(cmd, {cmd.dst, cmd.src})

CmdCopyTextureToBuffer(cmd) == cmd.id = "CopyTextureToBuffer" /\ Perform(cmd, {cmd.dst, cmd.src})

CmdClearBuffer(cmd) == cmd.id = "ClearBuffer" /\ Perform(cmd, {cmd.dst})

CmdUploadTextureData(cmd) == cmd.id = "UploadTextureData" /\ Perform(cmd, {cmd.dst, cmd.src})

(* The callback is given the command encoder, while no pass is open.       *)
CmdExecuteCallback(cmd) == cmd.id = "ExecuteCallback" /\ Perform(cmd, {cmd.userObject})

-----------------------------------------------------------------------------
(* Passes: active holds m_renderPassEncoder and m_computePassEncoder.      *)

(* endPassEncoder(), and then one of this kind, or none, begins.           *)
SwitchEncoder(encoders) ==
    /\ active' = encoders
    /\ valid' = valid \ active
    /\ pipeline' = [b \in BindPoints |-> IF b \in active THEN None ELSE pipeline[b]]
    /\ renderState' = IF "Render" \in active THEN NoGeometry ELSE renderState
    /\ bound' = [b \in BindPoints |-> IF b \in active THEN Unbound ELSE bound[b]]
    /\ UNCHANGED <<tracker, prepared, table, gpu>>

(* The targets are used until the end of the pass, and never resolved.     *)
CmdBeginRenderPass(cmd) ==
    /\ cmd.id = "BeginRenderPass"
    /\ SwitchEncoder({"Render"})
    /\ attachments' = [NoTargets EXCEPT !.needs = TargetNeeds(cmd.desc)]
    /\ executing' = Using(cmd, Uses(Range(TargetNeeds(cmd.desc))))

CmdEndRenderPass(cmd) ==
    /\ cmd.id = "EndRenderPass"
    /\ SwitchEncoder({})
    /\ attachments' = NoTargets
    /\ executing' = Nothing

CmdComputePass(cmd) ==
    /\ \/ cmd.id = "BeginComputePass" /\ SwitchEncoder({"Compute"})
       \/ cmd.id = "EndComputePass" /\ SwitchEncoder({})
    /\ executing' = Nothing
    /\ UNCHANGED attachments

-----------------------------------------------------------------------------
(* States, draws and dispatches.                                           *)

CmdSetRenderState(cmd) ==
    /\ cmd.id = "SetRenderState"
    /\ IF "Render" \notin active THEN Skip
       ELSE /\ bound' = [bound EXCEPT !["Render"] = Rebound(@, NewRenderState(cmd))]
            /\ pipeline' = [pipeline EXCEPT !["Render"] = cmd.pipeline, !["Compute"] = None]
            /\ renderState' = [vb |-> cmd.vb, ib |-> cmd.ib]
            /\ valid' = (valid \cup {"Render"}) \ {"Compute"}
            /\ executing' = Nothing
            /\ UNCHANGED <<tracker, active, prepared, table, attachments, gpu>>

CmdDraw(cmd) == cmd.id = "Draw" /\ LaunchOrDrop(cmd, "Render", VertexNeeds)

CmdDrawIndexed(cmd) == cmd.id = "DrawIndexed" /\ LaunchOrDrop(cmd, "Render", IndexedNeeds)

CmdDrawIndirect(cmd) ==
    cmd.id = "DrawIndirect" /\ LaunchOrDrop(cmd, "Render", IndirectNeeds(cmd) \o VertexNeeds)

CmdDrawIndexedIndirect(cmd) ==
    cmd.id = "DrawIndexedIndirect" /\ LaunchOrDrop(cmd, "Render", IndirectNeeds(cmd) \o IndexedNeeds)

CmdSetComputeState(cmd) ==
    /\ cmd.id = "SetComputeState"
    /\ IF "Compute" \notin active THEN Skip
       ELSE /\ bound' = [bound EXCEPT !["Compute"] = Rebound(@, NewProgram("Compute", cmd))]
            /\ pipeline' = [pipeline EXCEPT !["Compute"] = cmd.pipeline]
            /\ valid' = valid \cup {"Compute"}
            /\ executing' = Nothing
            /\ UNCHANGED <<tracker, active, prepared, renderState, table, attachments, gpu>>

CmdDispatchCompute(cmd) == cmd.id = "DispatchCompute" /\ LaunchOrDrop(cmd, "Compute", <<>>)

CmdDispatchComputeIndirect(cmd) ==
    /\ cmd.id = "DispatchComputeIndirect"
    /\ LaunchOrDrop(cmd, "Compute", <<BufferNeed(cmd.argBuffer, "IndirectArgument")>>)

NotSupported(cmd) ==
    Unsupported(cmd, StateCommands \cup RayTracingCommands \cup StructureCommands \cup ExtensionCommands
                       \cup {"ClearTexture", "ResolveQuery", "WriteTimestamp", "DrawMeshTasks"})

(* The end of record(): no pass is left open.                              *)
Finish ==
    /\ SwitchEncoder({})
    /\ executing' = Nothing
    /\ UNCHANGED attachments

Record(cmd) ==
    \/ CmdCopyBuffer(cmd) \/ CmdCopyTexture(cmd) \/ CmdCopyTextureToBuffer(cmd)
    \/ CmdClearBuffer(cmd) \/ CmdUploadTextureData(cmd) \/ CmdExecuteCallback(cmd)
    \/ CmdBeginRenderPass(cmd) \/ CmdEndRenderPass(cmd) \/ CmdComputePass(cmd)
    \/ CmdSetRenderState(cmd) \/ CmdDraw(cmd) \/ CmdDrawIndexed(cmd)
    \/ CmdDrawIndirect(cmd) \/ CmdDrawIndexedIndirect(cmd)
    \/ CmdSetComputeState(cmd) \/ CmdDispatchCompute(cmd) \/ CmdDispatchComputeIndirect(cmd)
    \/ NotSupported(cmd)
=============================================================================
