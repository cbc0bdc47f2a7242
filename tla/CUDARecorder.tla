---------------------------- MODULE CUDARecorder ----------------------------
(***************************************************************************)
(* CommandExecutor of the CUDA backend (src/src/cuda/cuda-command.cpp):    *)
(* submit() executes the commands in the order of one stream.  There are   *)
(* no render passes; structures and rays are OptiX's.                      *)
(***************************************************************************)
EXTENDS UntrackedRecorder

CmdCopyBuffer(cmd) == cmd.id = "CopyBuffer" /\ Perform(cmd, {cmd.dst, cmd.src})

CmdCopyTexture(cmd) == cmd.id = "CopyTexture" /\ Perform(cmd, {cmd.dst, cmd.src})

CmdCopyTextureToBuffer(cmd) == cmd.id = "CopyTextureToBuffer" /\ Perform(cmd, {cmd.dst, cmd.src})

CmdClearBuffer(cmd) == cmd.id = "ClearBuffer" /\ Perform(cmd, {cmd.dst})

CmdClearTexture(cmd) ==
    cmd.id = "ClearTexture" /\ cmd.value # "DepthStencil" /\ Perform(cmd, {cmd.dst})

CmdClearTextureDepthStencil(cmd) == cmd.id = "ClearTexture" /\ cmd.value = "DepthStencil" /\ Skip

CmdUploadTextureData(cmd) == cmd.id = "UploadTextureData" /\ Perform(cmd, {cmd.dst, cmd.src})

(* An event of the pool is recorded.                                       *)
CmdWriteTimestamp(cmd) == cmd.id = "WriteTimestamp" /\ Perform(cmd, {cmd.queryPool})

-----------------------------------------------------------------------------
(* There may be no OptiX, and OptiX may refuse.                            *)
WithOptix(cmd, objects) == Skip \/ Perform(cmd, objects)

CmdBuildAccelerationStructure(cmd) ==
    /\ cmd.id = "BuildAccelerationStructure"
    /\ WithOptix(cmd, {cmd.dst, cmd.src, cmd.scratchBuffer, cmd.micromap} \cup cmd.inputs)

CmdBuildMicromap(cmd) ==
    cmd.id = "BuildMicromap" /\ WithOptix(cmd, {cmd.dst, cmd.scratchBuffer} \cup cmd.inputs)

CmdCopyAccelerationStructure(cmd) ==
    cmd.id = "CopyAccelerationStructure" /\ WithOptix(cmd, {cmd.dst, cmd.src})

CmdExecuteClusterOperation(cmd) ==
    /\ cmd.id = "ExecuteClusterOperation"
    /\ WithOptix(cmd, {cmd.argCountBuffer, cmd.argsBuffer, cmd.scratchBuffer,
                       cmd.addressesBuffer, cmd.resultBuffer, cmd.sizesBuffer})

CmdConvertCooperativeVectorMatrix(cmd) ==
    cmd.id = "ConvertCooperativeVectorMatrix" /\ WithOptix(cmd, {cmd.dst, cmd.src})

-----------------------------------------------------------------------------
(* Passes and states: a state holds across passes, until a callback.       *)

CmdPass(cmd) ==
    /\ \/ cmd.id = "BeginComputePass" /\ active' = active \cup {"Compute"}
       \/ cmd.id = "EndComputePass" /\ active' = active \ {"Compute"}
       \/ cmd.id = "BeginRayTracingPass" /\ active' = active \cup {"RayTracing"}
       \/ cmd.id = "EndRayTracingPass" /\ active' = active \ {"RayTracing"}
    /\ executing' = Nothing
    /\ UNCHANGED <<tracker, valid, prepared, renderState, pipeline, table, attachments, gpu, bound>>

(* Both bind points share m_bindingData.                                   *)
BindingData(root) == [b \in BindPoints |-> IF b = "Render" THEN bound[b]
                                           ELSE [bound[b] EXCEPT !.root = root]]

SetState(bindPoint, cmd, shaderTable) ==
    IF bindPoint \notin active THEN Skip
    ELSE /\ bound' = [BindingData(cmd.root) EXCEPT ![bindPoint].pipeline = cmd.pipeline,
                                                   ![bindPoint].table = shaderTable]
         /\ pipeline' = [pipeline EXCEPT ![bindPoint] = cmd.pipeline]
         /\ table' = IF bindPoint = "RayTracing" THEN shaderTable ELSE table
         /\ valid' = valid \cup {bindPoint}
         /\ executing' = Nothing
         /\ UNCHANGED <<tracker, active, prepared, renderState, attachments, gpu>>

CmdSetComputeState(cmd) == cmd.id = "SetComputeState" /\ SetState("Compute", cmd, None)

CmdSetRayTracingState(cmd) ==
    cmd.id = "SetRayTracingState" /\ SetState("RayTracing", cmd, cmd.shaderTable)

CmdExecuteCallback(cmd) ==
    /\ cmd.id = "ExecuteCallback"
    /\ executing' = Using(cmd, {cmd.userObject})
    /\ bound' = BindingData(None)
    /\ valid' = {}
    /\ UNCHANGED <<tracker, active, prepared, renderState, pipeline, table, attachments, gpu>>

CmdDispatchCompute(cmd) == cmd.id = "DispatchCompute" /\ LaunchOrDrop(cmd, "Compute", <<>>)

(* The host reads the arguments, and skips a dispatch of no groups.        *)
CmdDispatchComputeIndirect(cmd) ==
    /\ cmd.id = "DispatchComputeIndirect"
    /\ \/ LaunchOrDrop(cmd, "Compute", <<BufferNeed(cmd.argBuffer, "IndirectArgument")>>)
       \/ "Compute" \in valid /\ Skip

(* An index past the ray generation shaders fails an assertion.            *)
CmdDispatchRays(cmd) ==
    /\ cmd.id = "DispatchRays"
    /\ \/ ("RayTracing" \in valid => cmd.known) /\ LaunchOrDrop(cmd, "RayTracing", <<>>)
       \/ "RayTracing" \in valid /\ Skip

NotSupported(cmd) ==
    Unsupported(cmd, RenderCommands \cup StateCommands \cup {"ResolveQuery", "Converted"})

(* The end of execute(): nothing is left to do.                            *)
Finish == Skip

Record(cmd) ==
    \/ CmdCopyBuffer(cmd) \/ CmdCopyTexture(cmd) \/ CmdCopyTextureToBuffer(cmd)
    \/ CmdClearBuffer(cmd) \/ CmdClearTexture(cmd) \/ CmdClearTextureDepthStencil(cmd)
    \/ CmdUploadTextureData(cmd) \/ CmdWriteTimestamp(cmd)
    \/ CmdBuildAccelerationStructure(cmd) \/ CmdBuildMicromap(cmd)
    \/ CmdCopyAccelerationStructure(cmd) \/ CmdExecuteClusterOperation(cmd)
    \/ CmdConvertCooperativeVectorMatrix(cmd)
    \/ CmdPass(cmd) \/ CmdExecuteCallback(cmd)
    \/ CmdSetComputeState(cmd) \/ CmdDispatchCompute(cmd) \/ CmdDispatchComputeIndirect(cmd)
    \/ CmdSetRayTracingState(cmd) \/ CmdDispatchRays(cmd)
    \/ NotSupported(cmd)
=============================================================================
