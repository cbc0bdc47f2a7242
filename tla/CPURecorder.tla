---------------------------- MODULE CPURecorder -----------------------------
(***************************************************************************)
(* CommandExecutor of the CPU backend (src/src/cpu/cpu-command.cpp):       *)
(* submit() executes the commands itself.                                  *)
(***************************************************************************)
EXTENDS UntrackedRecorder

CmdCopyBuffer(cmd) == cmd.id = "CopyBuffer" /\ Perform(cmd, {cmd.dst, cmd.src})

CmdClearBuffer(cmd) == cmd.id = "ClearBuffer" /\ Perform(cmd, {cmd.dst})

CmdResolveQuery(cmd) == cmd.id = "ResolveQuery" /\ Perform(cmd, {cmd.queryPool, cmd.dst})

CmdWriteTimestamp(cmd) == cmd.id = "WriteTimestamp" /\ Perform(cmd, {cmd.queryPool})

CmdExecuteCallback(cmd) == cmd.id = "ExecuteCallback" /\ Perform(cmd, {cmd.userObject})

(* In a pass or not: nobody takes note of passes.                          *)
CmdSetComputeState(cmd) ==
    /\ cmd.id = "SetComputeState"
    /\ bound' = [bound EXCEPT !["Compute"].pipeline = cmd.pipeline, !["Compute"].root = cmd.root]
    /\ pipeline' = [pipeline EXCEPT !["Compute"] = cmd.pipeline]
    /\ valid' = {"Compute"}
    /\ executing' = Nothing
    /\ UNCHANGED <<tracker, active, prepared, renderState, table, attachments, gpu>>

CmdDispatchCompute(cmd) == cmd.id = "DispatchCompute" /\ LaunchOrDrop(cmd, "Compute", <<>>)

NotSupported(cmd) ==
    Unsupported(cmd, RenderCommands \cup RayTracingCommands \cup StateCommands
                       \cup StructureCommands \cup ExtensionCommands
                       \cup {"CopyTexture", "CopyTextureToBuffer", "ClearTexture", "UploadTextureData",
                             "BeginComputePass", "EndComputePass", "DispatchComputeIndirect"})

(* The end of execute(): nothing is left to do.                            *)
Finish == Skip

Record(cmd) ==
    \/ CmdCopyBuffer(cmd) \/ CmdClearBuffer(cmd) \/ CmdResolveQuery(cmd)
    \/ CmdWriteTimestamp(cmd) \/ CmdExecuteCallback(cmd)
    \/ CmdSetComputeState(cmd) \/ CmdDispatchCompute(cmd) \/ NotSupported(cmd)
=============================================================================
