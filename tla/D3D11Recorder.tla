--------------------------- MODULE D3D11Recorder ----------------------------
(***************************************************************************)
(* CommandExecutor of the D3D11 backend (src/src/d3d11/d3d11-command.cpp): *)
(* submit() executes the commands on the immediate context, whose state is *)
(* cleared between passes.                                                 *)
(***************************************************************************)
EXTENDS UntrackedRecorder

CmdCopyBuffer(cmd) == cmd.id = "CopyBuffer" /\ Perform(cmd, {cmd.dst, cmd.src})

CmdCopyTexture(cmd) == cmd.id = "CopyTexture" /\ Perform(cmd, {cmd.dst, cmd.src})

CmdClearBuffer(cmd) == cmd.id = "ClearBuffer" /\ Perform(cmd, {cmd.dst})

(* Through a view of these usages, or not at all.                          *)
ClearThrough(cmd, usages) ==
    IF usages \cap Usage[cmd.dst] = {} THEN Skip ELSE Perform(cmd, {cmd.dst})

CmdClearTextureFloat(cmd) ==
    /\ cmd.id = "ClearTexture" /\ cmd.value = "Float"
    /\ ClearThrough(cmd, {"RenderTarget", "UnorderedAccess"})

CmdClearTextureUint(cmd) ==
    cmd.id = "ClearTexture" /\ cmd.value = "Uint" /\ ClearThrough(cmd, {"UnorderedAccess"})

CmdClearTextureDepthStencil(cmd) ==
    cmd.id = "ClearTexture" /\ cmd.value = "DepthStencil" /\ ClearThrough(cmd, {"DepthStencil"})

CmdWriteTimestamp(cmd) == cmd.id = "WriteTimestamp" /\ Perform(cmd, {cmd.queryPool})

-----------------------------------------------------------------------------
(* clearState(): the context's, and what the executor knows of it.         *)
ClearState ==
    /\ valid' = {}
    /\ pipeline' = [b \in BindPoints |-> None]
    /\ renderState' = NoGeometry
    /\ bound' = [b \in BindPoints |-> Unbound]
    /\ UNCHANGED <<tracker, prepared, table, gpu>>

(* The callback is given the context.                                      *)
CmdExecuteCallback(cmd) ==
    /\ cmd.id = "ExecuteCallback"
    /\ ClearState
    /\ executing' = Using(cmd, {cmd.userObject})
    /\ UNCHANGED <<active, attachments>>

CmdBeginRenderPass(cmd) ==
    /\ cmd.id = "BeginRenderPass"
    /\ ClearState
    /\ active' = active \cup {"Render"}
    /\ attachments' = [needs |-> TargetNeeds(cmd.desc),
                       resolves |-> ResolvedColors(cmd.desc)]
    /\ executing' = Using(cmd, Uses(Range(TargetNeeds(cmd.desc))))

LeavePass ==
    /\ ClearState
    /\ active' = active \ {"Render"}
    /\ attachments' = NoTargets
    /\ executing' = Nothing

(* First the targets are resolved.                                         *)
CmdEndRenderPass(cmd) ==
    /\ cmd.id = "EndRenderPass"
    /\ IF attachments.resolves = <<>> THEN LeavePass
       ELSE Perform(cmd, UNION {{c.view.res, c.resolve.res} : c \in Range(attachments.resolves)})

Resolve(cmd) == cmd.id = "Resolve" /\ LeavePass

CmdBeginComputePass(cmd) ==
    /\ cmd.id = "BeginComputePass"
    /\ active' = active \cup {"Compute"}
    /\ executing' = Nothing
    /\ UNCHANGED <<tracker, valid, prepared, renderState, pipeline, table, attachments, gpu, bound>>

CmdEndComputePass(cmd) ==
    /\ cmd.id = "EndComputePass"
    /\ ClearState
    /\ active' = active \ {"Compute"}
    /\ executing' = Nothing
    /\ UNCHANGED attachments

-----------------------------------------------------------------------------
(* States, draws and dispatches.                                           *)

(* Vertex buffers are set if they are the same as before, and others are   *)
(* not; no index buffer unbinds it.                                        *)
CmdSetRenderState(cmd) ==
    /\ cmd.id = "SetRenderState"
    /\ IF "Render" \notin active THEN Skip
       ELSE LET stale == "Render" \notin valid
                program == NewProgram("Render", cmd)
                newVb == stale \/ cmd.vb = renderState.vb
                newIb == stale \/ cmd.ib # renderState.ib
                again == Rebound(bound["Render"], [program EXCEPT !.vb = IF newVb THEN cmd.vb ELSE None])
            IN /\ bound' = [bound EXCEPT !["Render"] = [again EXCEPT !.ib = IF newIb THEN cmd.ib ELSE @]]
               /\ pipeline' = [pipeline EXCEPT !["Render"] = cmd.pipeline]
               /\ renderState' = [vb |-> cmd.vb, ib |-> cmd.ib]
               /\ valid' = valid \cup {"Render"}
               /\ executing' = Nothing
               /\ UNCHANGED <<tracker, active, prepared, table, attachments, gpu>>

CmdDraw(cmd) == cmd.id = "Draw" /\ LaunchOrDrop(cmd, "Render", VertexNeeds)

CmdDrawIndexed(cmd) == cmd.id = "DrawIndexed" /\ LaunchOrDrop(cmd, "Render", IndexedNeeds)

(* Counts in buffers are not supported.                                    *)
DrawWithArguments(cmd, needs) ==
    IF "Render" \in valid /\ cmd.countBuffer # None THEN Skip
    ELSE LaunchOrDrop(cmd, "Render", IndirectNeeds(cmd) \o needs)

CmdDrawIndirect(cmd) == cmd.id = "DrawIndirect" /\ DrawWithArguments(cmd, VertexNeeds)

CmdDrawIndexedIndirect(cmd) == cmd.id = "DrawIndexedIndirect" /\ DrawWithArguments(cmd, IndexedNeeds)

CmdSetComputeState(cmd) ==
    /\ cmd.id = "SetComputeState"
    /\ IF "Compute" \notin active THEN Skip
       ELSE /\ bound' = [bound EXCEPT !["Compute"] = Rebound(@, NewProgram("Compute", cmd))]
            /\ pipeline' = [pipeline EXCEPT !["Compute"] = cmd.pipeline]
            /\ valid' = valid \cup {"Compute"}
            /\ executing' = Nothing
            /\ UNCHANGED <<tracker, active, prepared, renderState, table, attachments, gpu>>

CmdDispatchCompute(cmd) == cmd.id = "DispatchCompute" /\ LaunchOrDrop(cmd, "Compute", <<>>)

(* Whether or not there is a state that holds.                             *)
CmdDispatchComputeIndirect(cmd) ==
    /\ cmd.id = "DispatchComputeIndirect"
    /\ Launch(cmd, "Compute", <<BufferNeed(cmd.argBuffer, "IndirectArgument")>>)

NotSupported(cmd) ==
    Unsupported(cmd, StateCommands \cup RayTracingCommands \cup StructureCommands \cup ExtensionCommands
                       \cup {"CopyTextureToBuffer", "UploadTextureData", "ResolveQuery", "DrawMeshTasks"})

(* The end of execute(): nothing is left to do.                            *)
Finish == Skip

Record(cmd) ==
    \/ CmdCopyBuffer(cmd) \/ CmdCopyTexture(cmd) \/ CmdClearBuffer(cmd)
    \/ CmdClearTextureFloat(cmd) \/ CmdClearTextureUint(cmd) \/ CmdClearTextureDepthStencil(cmd)
    \/ CmdWriteTimestamp(cmd) \/ CmdExecuteCallback(cmd)
    \/ CmdBeginRenderPass(cmd) \/ CmdEndRenderPass(cmd) \/ Resolve(cmd)
    \/ CmdBeginComputePass(cmd) \/ CmdEndComputePass(cmd)
    \/ CmdSetRenderState(cmd) \/ CmdDraw(cmd) \/ CmdDrawIndexed(cmd)
    \/ CmdDrawIndirect(cmd) \/ CmdDrawIndexedIndirect(cmd)
    \/ CmdSetComputeState(cmd) \/ CmdDispatchCompute(cmd) \/ CmdDispatchComputeIndirect(cmd)
    \/ NotSupported(cmd)
=============================================================================
