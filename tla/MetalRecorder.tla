--------------------------- MODULE MetalRecorder ----------------------------
(***************************************************************************)
(* CommandRecorder of the Metal backend (src/src/metal/metal-command.cpp). *)
(* Commands of one kind share a native encoder, which ends when another    *)
(* kind is asked for or a pass ends.  Native encoders are ordered by a     *)
(* fence, and so is what a blit or structure encoder does; dispatches of   *)
(* one compute encoder are ordered by memory barriers only.                *)
(***************************************************************************)
EXTENDS UntrackedRecorder

(* endCommandEncoder() unless the open encoder is of this kind: what was   *)
(* bound in it is gone, but m_indexBuffer is the recorder's.               *)
Switch(kind) ==
    LET ended == IF native.kind = kind THEN {} ELSE {native.kind} IN
    /\ valid' = valid \ ended
    /\ pipeline' = [b \in BindPoints |-> IF b \in ended THEN None ELSE pipeline[b]]
    /\ renderState' = IF "Render" \in ended THEN NoGeometry ELSE renderState
    /\ bound' = [b \in BindPoints |->
                   IF b \in ended THEN [Unbound EXCEPT !.ib = bound[b].ib] ELSE bound[b]]
    /\ UNCHANGED <<tracker, prepared, table, gpu>>

Current(kind) == IF native.kind = kind THEN native ELSE NativeEncoder(kind)

(* The command runs in an encoder of this kind.                            *)
InEncoder(kind, cmd, objects) ==
    /\ Switch(kind)
    /\ native' = Current(kind)
    /\ executing' = Using(cmd, objects)
    /\ UNCHANGED <<active, attachments>>

-----------------------------------------------------------------------------
(* Blits, clears, acceleration structures.                                 *)

CmdCopyBuffer(cmd) == cmd.id = "CopyBuffer" /\ InEncoder("Blit", cmd, {cmd.dst, cmd.src})

CmdCopyTexture(cmd) == cmd.id = "CopyTexture" /\ InEncoder("Blit", cmd, {cmd.dst, cmd.src})

CmdCopyTextureToBuffer(cmd) ==
    cmd.id = "CopyTextureToBuffer" /\ InEncoder("Blit", cmd, {cmd.dst, cmd.src})

CmdClearBuffer(cmd) == cmd.id = "ClearBuffer" /\ InEncoder("Blit", cmd, {cmd.dst})

CmdUploadTextureData(cmd) ==
    cmd.id = "UploadTextureData" /\ InEncoder("Blit", cmd, {cmd.dst, cmd.src})

CmdResolveQuery(cmd) ==
    cmd.id = "ResolveQuery" /\ InEncoder("Blit", cmd, {cmd.queryPool, cmd.dst})

(* What dispatches with these needs access.                                *)
Accesses(needs) ==
    UNION {{[res |-> need.res, part |-> x, writes |-> need.state = "UnorderedAccess"] :
               x \in IF need.res \in Buffers THEN Parts(need.res)
                     ELSE Parts(need.res) \cap Named(need.range)} : need \in needs}

Conflict(p, q) == p.res = q.res /\ p.part = q.part /\ (p.writes \/ q.writes)

Races(encoder, accesses) == \E p \in encoder.accesses, q \in accesses : Conflict(p, q)

(* Clears are dispatches that nothing takes note of.                       *)
CmdClearTexture(cmd) ==
    /\ cmd.id = "ClearTexture" /\ cmd.value # "DepthStencil"
    /\ Switch("Compute")
    /\ LET accesses == Accesses({Need(cmd.dst, cmd.dstRange, "UnorderedAccess")})
           encoder == Current("Compute")
       IN /\ native' = [encoder EXCEPT !.accesses = @ \cup accesses]
          /\ executing' = [Using(cmd, {cmd.dst}) EXCEPT !.raced = Races(encoder, accesses)]
    /\ UNCHANGED <<active, attachments>>

(* A render encoder for each subresource.                                  *)
CmdClearTextureDepthStencil(cmd) ==
    /\ cmd.id = "ClearTexture" /\ cmd.value = "DepthStencil"
    /\ IF "DepthStencil" \in Usage[cmd.dst] THEN InEncoder(None, cmd, {cmd.dst})
       ELSE Skip /\ UNCHANGED native

(* The encoder is open even if the description cannot be converted.        *)
CmdBuildAccelerationStructure(cmd) ==
    /\ cmd.id = "BuildAccelerationStructure"
    /\ \E converted \in BOOLEAN :
         InEncoder("AccelerationStructure", cmd,
                   IF converted THEN {cmd.dst, cmd.src, cmd.scratchBuffer} \cup cmd.inputs ELSE {})

CmdCopyAccelerationStructure(cmd) ==
    /\ cmd.id = "CopyAccelerationStructure"
    /\ InEncoder("AccelerationStructure", cmd, {cmd.dst, cmd.src})

-----------------------------------------------------------------------------
(* Barriers and callbacks.                                                 *)

Barred(encoder) == [encoder EXCEPT !.accesses = {}]

CmdGlobalBarrier(cmd) ==
    /\ cmd.id = "GlobalBarrier"
    /\ native' = IF native.kind \in {"Compute", "Render"} THEN Barred(native) ELSE native
    /\ Skip

(* The callback is given the command buffer.                               *)
CmdExecuteCallback(cmd) ==
    /\ cmd.id = "ExecuteCallback"
    /\ Perform(cmd, {cmd.userObject})
    /\ UNCHANGED native

-----------------------------------------------------------------------------
(* Render passes.                                                          *)

(* The native pass resolves its targets.                                   *)
AllTargets(desc) ==
    LET resolved == ResolvedColors(desc)
    IN TargetNeeds(desc)
         \o [i \in DOMAIN resolved |-> ViewNeed(resolved[i].resolve, "ResolveDestination")]

CmdBeginRenderPass(cmd) ==
    /\ cmd.id = "BeginRenderPass"
    /\ Switch("Render")
    /\ native' = Current("Render")
    /\ active' = active \cup {"Render"}
    /\ attachments' = [NoTargets EXCEPT !.needs = AllTargets(cmd.desc)]
    /\ executing' = Using(cmd, Uses(Range(AllTargets(cmd.desc))))

CmdEndRenderPass(cmd) ==
    /\ cmd.id = "EndRenderPass"
    /\ Switch(None)
    /\ native' = Current(None)
    /\ active' = active \ {"Render"}
    /\ attachments' = NoTargets
    /\ executing' = Nothing

(* The pipelines of a pass take their vertex buffers from the same index   *)
(* on, so that the next finds those that did not change.                   *)
CmdSetRenderState(cmd) ==
    /\ cmd.id = "SetRenderState"
    /\ IF "Render" \notin active THEN Skip
       ELSE /\ bound' = [bound EXCEPT !["Render"] = Rebound(@, NewRenderState(cmd))]
            /\ pipeline' = [pipeline EXCEPT !["Render"] = cmd.pipeline]
            /\ renderState' = [vb |-> cmd.vb, ib |-> cmd.ib]
            /\ valid' = valid \cup {"Render"}
            /\ executing' = Nothing
            /\ UNCHANGED <<tracker, active, prepared, table, attachments, gpu>>
    /\ UNCHANGED native

CmdDraw(cmd) ==
    cmd.id = "Draw" /\ LaunchOrDrop(cmd, "Render", VertexNeeds) /\ UNCHANGED native

CmdDrawIndexed(cmd) ==
    cmd.id = "DrawIndexed" /\ LaunchOrDrop(cmd, "Render", IndexedNeeds) /\ UNCHANGED native

-----------------------------------------------------------------------------
(* Compute passes.                                                         *)

CmdBeginComputePass(cmd) ==
    /\ cmd.id = "BeginComputePass"
    /\ active' = active \cup {"Compute"}
    /\ executing' = Nothing
    /\ UNCHANGED <<tracker, valid, prepared, renderState, pipeline, table, attachments, gpu, bound, native>>

CmdEndComputePass(cmd) ==
    /\ cmd.id = "EndComputePass"
    /\ Switch(None)
    /\ native' = Current(None)
    /\ active' = active \ {"Compute"}
    /\ executing' = Nothing
    /\ UNCHANGED attachments

(* Rebinding orders what follows behind the dispatches before.  The pass   *)
(* may have no encoder yet, or one of blits that ends: nothing is bound.   *)
CmdSetComputeState(cmd) ==
    /\ cmd.id = "SetComputeState"
    /\ IF "Compute" \notin active THEN Skip /\ UNCHANGED native
       ELSE LET encoder == Current("Compute")
            IN /\ native' = IF encoder.dispatched THEN Barred(encoder) ELSE encoder
               /\ bound' = [bound EXCEPT !["Compute"] = Rebound(@, NewProgram("Compute", cmd))]
               /\ pipeline' = [pipeline EXCEPT !["Compute"] = cmd.pipeline]
               /\ valid' = valid \cup {"Compute"}
               /\ executing' = Nothing
               /\ UNCHANGED <<tracker, active, prepared, renderState, table, attachments, gpu>>

Dispatch(cmd, needs) ==
    IF "Compute" \notin valid THEN Dropped(cmd) /\ UNCHANGED native
    ELSE LET root == bound["Compute"].root
             accesses == Accesses(Range(needs \o Bindings[root]))
         IN /\ executing' = [Launched(cmd, "Compute", needs) EXCEPT !.raced = Races(native, accesses)]
            /\ native' = [native EXCEPT !.dispatched = TRUE, !.accesses = @ \cup accesses]
            /\ UNCHANGED <<recorder, gpu, bound>>

CmdDispatchCompute(cmd) == cmd.id = "DispatchCompute" /\ Dispatch(cmd, <<>>)

CmdDispatchComputeIndirect(cmd) ==
    /\ cmd.id = "DispatchComputeIndirect"
    /\ Dispatch(cmd, <<BufferNeed(cmd.argBuffer, "IndirectArgument")>>)

-----------------------------------------------------------------------------
NotSupported(cmd) ==
    /\ Unsupported(cmd, RayTracingCommands \cup ExtensionCommands
                          \cup {"SetBufferState", "SetTextureState", "WriteTimestamp", "DrawIndirect",
                                "DrawIndexedIndirect", "DrawMeshTasks"})
    /\ UNCHANGED native

(* The end of record().                                                    *)
Finish ==
    /\ Switch(None)
    /\ native' = Current(None)
    /\ executing' = Nothing
    /\ UNCHANGED <<active, attachments>>

Record(cmd) ==
    \/ CmdCopyBuffer(cmd) \/ CmdCopyTexture(cmd) \/ CmdCopyTextureToBuffer(cmd)
    \/ CmdClearBuffer(cmd) \/ CmdClearTexture(cmd) \/ CmdClearTextureDepthStencil(cmd)
    \/ CmdUploadTextureData(cmd) \/ CmdResolveQuery(cmd)
    \/ CmdBuildAccelerationStructure(cmd) \/ CmdCopyAccelerationStructure(cmd)
    \/ CmdGlobalBarrier(cmd) \/ CmdExecuteCallback(cmd)
    \/ CmdBeginRenderPass(cmd) \/ CmdEndRenderPass(cmd) \/ CmdSetRenderState(cmd)
    \/ CmdDraw(cmd) \/ CmdDrawIndexed(cmd)
    \/ CmdBeginComputePass(cmd) \/ CmdEndComputePass(cmd) \/ CmdSetComputeState(cmd)
    \/ CmdDispatchCompute(cmd) \/ CmdDispatchComputeIndirect(cmd)
    \/ NotSupported(cmd)
=============================================================================
