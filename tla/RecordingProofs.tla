--------------------------- MODULE RecordingProofs ---------------------------
(***************************************************************************)
(* Recording a command list: the states the recorders of Vulkan and D3D12  *)
(* believe their resources to be in are those the GPU is going to have,    *)
(* and a command buffer leaves the default states; what the GPU is given   *)
(* to use is retained; and Vulkan's barriers stay out of render passes.    *)
(***************************************************************************)
EXTENDS Recording, CommandEncoderProofs

-----------------------------------------------------------------------------
(* The others keep no states: nothing they record changes one.             *)

(* The WGPU recorder keeps no states: no command changes a tracker or the  *)
(* states of the model's GPU.                                              *)
LEMMA WGPUUntouched ==
    ASSUME NEW cmd, WGPU!Record(cmd) \/ WGPU!Finish
    PROVE  UNCHANGED <<tracker, gpu>>
<1>1. CASE WGPU!CmdCopyBuffer(cmd) \/ WGPU!CmdCopyTexture(cmd)
          \/ WGPU!CmdCopyTextureToBuffer(cmd) \/ WGPU!CmdClearBuffer(cmd)
          \/ WGPU!CmdUploadTextureData(cmd) \/ WGPU!CmdExecuteCallback(cmd)
  BY <1>1 DEF WGPU!CmdCopyBuffer, WGPU!CmdCopyTexture, WGPU!CmdCopyTextureToBuffer,
          WGPU!CmdClearBuffer, WGPU!CmdUploadTextureData, WGPU!CmdExecuteCallback,
          WGPU!Perform, WGPU!recorder
<1>2. CASE WGPU!CmdBeginRenderPass(cmd) \/ WGPU!CmdEndRenderPass(cmd)
          \/ WGPU!CmdComputePass(cmd) \/ WGPU!Finish
  BY <1>2 DEF WGPU!CmdBeginRenderPass, WGPU!CmdEndRenderPass, WGPU!CmdComputePass,
          WGPU!Finish, WGPU!SwitchEncoder
<1>3. CASE WGPU!CmdSetRenderState(cmd) \/ WGPU!CmdSetComputeState(cmd)
  BY <1>3 DEF WGPU!CmdSetRenderState, WGPU!CmdSetComputeState, WGPU!Skip, WGPU!recorder
<1>4. CASE WGPU!CmdDraw(cmd) \/ WGPU!CmdDrawIndexed(cmd) \/ WGPU!CmdDrawIndirect(cmd)
          \/ WGPU!CmdDrawIndexedIndirect(cmd) \/ WGPU!CmdDispatchCompute(cmd)
          \/ WGPU!CmdDispatchComputeIndirect(cmd)
  BY <1>4 DEF WGPU!CmdDraw, WGPU!CmdDrawIndexed, WGPU!CmdDrawIndirect,
          WGPU!CmdDrawIndexedIndirect, WGPU!CmdDispatchCompute,
          WGPU!CmdDispatchComputeIndirect, WGPU!Dropped, WGPU!Launch, WGPU!LaunchOrDrop,
          WGPU!recorder
<1>5. CASE WGPU!NotSupported(cmd)
  BY <1>5 DEF WGPU!NotSupported, WGPU!Skip, WGPU!Unsupported, WGPU!recorder
<1> QED
  BY <1>1, <1>2, <1>3, <1>4, <1>5, ZenonT(40) DEF WGPU!Record

(* The Metal recorder keeps no states: no command changes a tracker or the *)
(* states of the model's GPU.                                              *)
LEMMA MetalUntouched ==
    ASSUME NEW cmd, Metal!Record(cmd) \/ Metal!Finish
    PROVE  UNCHANGED <<tracker, gpu>>
<1>1. CASE Metal!CmdCopyBuffer(cmd) \/ Metal!CmdCopyTexture(cmd)
          \/ Metal!CmdCopyTextureToBuffer(cmd) \/ Metal!CmdClearBuffer(cmd)
          \/ Metal!CmdUploadTextureData(cmd) \/ Metal!CmdResolveQuery(cmd)
          \/ Metal!CmdBuildAccelerationStructure(cmd)
          \/ Metal!CmdCopyAccelerationStructure(cmd)
  BY <1>1 DEF Metal!CmdCopyBuffer, Metal!CmdCopyTexture, Metal!CmdCopyTextureToBuffer,
          Metal!CmdClearBuffer, Metal!CmdUploadTextureData, Metal!CmdResolveQuery,
          Metal!CmdBuildAccelerationStructure, Metal!CmdCopyAccelerationStructure,
          Metal!InEncoder, Metal!Switch
<1>2. CASE Metal!CmdClearTexture(cmd) \/ Metal!CmdBeginRenderPass(cmd)
          \/ Metal!CmdEndRenderPass(cmd) \/ Metal!CmdEndComputePass(cmd) \/ Metal!Finish
  BY <1>2 DEF Metal!CmdClearTexture, Metal!CmdBeginRenderPass, Metal!CmdEndRenderPass,
          Metal!CmdEndComputePass, Metal!Finish, Metal!Switch
<1>3. CASE Metal!CmdClearTextureDepthStencil(cmd)
  BY <1>3 DEF Metal!CmdClearTextureDepthStencil, Metal!InEncoder, Metal!Skip, Metal!Switch,
          Metal!recorder
<1>4. CASE Metal!CmdGlobalBarrier(cmd) \/ Metal!CmdSetRenderState(cmd)
          \/ Metal!CmdSetComputeState(cmd)
  BY <1>4 DEF Metal!CmdGlobalBarrier, Metal!CmdSetRenderState, Metal!CmdSetComputeState,
          Metal!Skip, Metal!recorder
<1>5. CASE Metal!CmdExecuteCallback(cmd)
  BY <1>5 DEF Metal!CmdExecuteCallback, Metal!Perform, Metal!recorder
<1>6. CASE Metal!CmdDraw(cmd) \/ Metal!CmdDrawIndexed(cmd)
  BY <1>6 DEF Metal!CmdDraw, Metal!CmdDrawIndexed, Metal!Dropped, Metal!Launch,
          Metal!LaunchOrDrop, Metal!recorder
<1>7. CASE Metal!CmdBeginComputePass(cmd)
  BY <1>7 DEF Metal!CmdBeginComputePass
<1>8. CASE Metal!CmdDispatchCompute(cmd) \/ Metal!CmdDispatchComputeIndirect(cmd)
  BY <1>8 DEF Metal!CmdDispatchCompute, Metal!CmdDispatchComputeIndirect, Metal!Dispatch,
          Metal!Dropped, Metal!recorder
<1>9. CASE Metal!NotSupported(cmd)
  BY <1>9 DEF Metal!NotSupported, Metal!Skip, Metal!Unsupported, Metal!recorder
<1> QED
  BY <1>1, <1>2, <1>3, <1>4, <1>5, <1>6, <1>7, <1>8, <1>9, ZenonT(40) DEF Metal!Record

(* The D3D11 recorder keeps no states: no command changes a tracker or the *)
(* states of the model's GPU.                                              *)
LEMMA D3D11Untouched ==
    ASSUME NEW cmd, D3D11!Record(cmd) \/ D3D11!Finish
    PROVE  UNCHANGED <<tracker, gpu>>
<1>1. CASE D3D11!CmdCopyBuffer(cmd) \/ D3D11!CmdCopyTexture(cmd)
          \/ D3D11!CmdClearBuffer(cmd) \/ D3D11!CmdWriteTimestamp(cmd)
  BY <1>1 DEF D3D11!CmdCopyBuffer, D3D11!CmdCopyTexture, D3D11!CmdClearBuffer,
          D3D11!CmdWriteTimestamp, D3D11!Perform, D3D11!recorder
<1>2. CASE D3D11!CmdClearTextureFloat(cmd) \/ D3D11!CmdClearTextureUint(cmd)
          \/ D3D11!CmdClearTextureDepthStencil(cmd)
  BY <1>2 DEF D3D11!CmdClearTextureFloat, D3D11!CmdClearTextureUint,
          D3D11!CmdClearTextureDepthStencil, D3D11!ClearThrough, D3D11!Perform,
          D3D11!Skip, D3D11!recorder
<1>3. CASE D3D11!CmdExecuteCallback(cmd) \/ D3D11!CmdBeginRenderPass(cmd)
          \/ D3D11!CmdEndComputePass(cmd)
  BY <1>3 DEF D3D11!CmdExecuteCallback, D3D11!CmdBeginRenderPass, D3D11!CmdEndComputePass,
          D3D11!ClearState
<1>4. CASE D3D11!CmdEndRenderPass(cmd)
  BY <1>4 DEF D3D11!CmdEndRenderPass, D3D11!ClearState, D3D11!LeavePass, D3D11!Perform,
          D3D11!recorder
<1>5. CASE D3D11!Resolve(cmd)
  BY <1>5 DEF D3D11!Resolve, D3D11!ClearState, D3D11!LeavePass
<1>6. CASE D3D11!CmdBeginComputePass(cmd)
  BY <1>6 DEF D3D11!CmdBeginComputePass
<1>7. CASE D3D11!CmdSetRenderState(cmd) \/ D3D11!CmdSetComputeState(cmd) \/ D3D11!Finish
  BY <1>7 DEF D3D11!CmdSetRenderState, D3D11!CmdSetComputeState, D3D11!Finish, D3D11!Skip,
          D3D11!recorder
<1>8. CASE D3D11!CmdDraw(cmd) \/ D3D11!CmdDrawIndexed(cmd) \/ D3D11!CmdDispatchCompute(cmd)
  BY <1>8 DEF D3D11!CmdDraw, D3D11!CmdDrawIndexed, D3D11!CmdDispatchCompute, D3D11!Dropped,
          D3D11!Launch, D3D11!LaunchOrDrop, D3D11!recorder
<1>9. CASE D3D11!CmdDrawIndirect(cmd) \/ D3D11!CmdDrawIndexedIndirect(cmd)
  BY <1>9 DEF D3D11!CmdDrawIndirect, D3D11!CmdDrawIndexedIndirect, D3D11!DrawWithArguments,
          D3D11!Dropped, D3D11!Launch, D3D11!LaunchOrDrop, D3D11!Skip, D3D11!recorder
<1>10. CASE D3D11!CmdDispatchComputeIndirect(cmd)
  BY <1>10 DEF D3D11!CmdDispatchComputeIndirect, D3D11!Launch, D3D11!recorder
<1>11. CASE D3D11!NotSupported(cmd)
  BY <1>11 DEF D3D11!NotSupported, D3D11!Skip, D3D11!Unsupported, D3D11!recorder
<1> QED
  BY <1>1, <1>2, <1>3, <1>4, <1>5, <1>6, <1>7, <1>8, <1>9, <1>10, <1>11, ZenonT(40) DEF D3D11!Record

(* The CUDA recorder keeps no states: no command changes a tracker or the  *)
(* states of the model's GPU.                                              *)
LEMMA CUDAUntouched ==
    ASSUME NEW cmd, CUDA!Record(cmd) \/ CUDA!Finish
    PROVE  UNCHANGED <<tracker, gpu>>
<1>1. CASE CUDA!CmdCopyBuffer(cmd) \/ CUDA!CmdCopyTexture(cmd)
          \/ CUDA!CmdCopyTextureToBuffer(cmd) \/ CUDA!CmdClearBuffer(cmd)
          \/ CUDA!CmdClearTexture(cmd) \/ CUDA!CmdUploadTextureData(cmd)
          \/ CUDA!CmdWriteTimestamp(cmd)
  BY <1>1 DEF CUDA!CmdCopyBuffer, CUDA!CmdCopyTexture, CUDA!CmdCopyTextureToBuffer,
          CUDA!CmdClearBuffer, CUDA!CmdClearTexture, CUDA!CmdUploadTextureData,
          CUDA!CmdWriteTimestamp, CUDA!Perform, CUDA!recorder
<1>2. CASE CUDA!CmdClearTextureDepthStencil(cmd) \/ CUDA!Finish
  BY <1>2 DEF CUDA!CmdClearTextureDepthStencil, CUDA!Finish, CUDA!Skip, CUDA!recorder
<1>3. CASE CUDA!CmdBuildAccelerationStructure(cmd) \/ CUDA!CmdBuildMicromap(cmd)
          \/ CUDA!CmdCopyAccelerationStructure(cmd)
          \/ CUDA!CmdExecuteClusterOperation(cmd)
          \/ CUDA!CmdConvertCooperativeVectorMatrix(cmd)
  BY <1>3 DEF CUDA!CmdBuildAccelerationStructure, CUDA!CmdBuildMicromap,
          CUDA!CmdCopyAccelerationStructure, CUDA!CmdExecuteClusterOperation,
          CUDA!CmdConvertCooperativeVectorMatrix, CUDA!Perform, CUDA!Skip,
          CUDA!WithOptix, CUDA!recorder
<1>4. CASE CUDA!CmdPass(cmd) \/ CUDA!CmdExecuteCallback(cmd)
  BY <1>4 DEF CUDA!CmdPass, CUDA!CmdExecuteCallback
<1>5. CASE CUDA!CmdSetComputeState(cmd) \/ CUDA!CmdSetRayTracingState(cmd)
  BY <1>5 DEF CUDA!CmdSetComputeState, CUDA!CmdSetRayTracingState, CUDA!SetState, CUDA!Skip,
          CUDA!recorder
<1>6. CASE CUDA!CmdDispatchCompute(cmd)
  BY <1>6 DEF CUDA!CmdDispatchCompute, CUDA!Dropped, CUDA!Launch, CUDA!LaunchOrDrop,
          CUDA!recorder
<1>7. CASE CUDA!CmdDispatchComputeIndirect(cmd) \/ CUDA!CmdDispatchRays(cmd)
  BY <1>7 DEF CUDA!CmdDispatchComputeIndirect, CUDA!CmdDispatchRays, CUDA!Dropped,
          CUDA!Launch, CUDA!LaunchOrDrop, CUDA!Skip, CUDA!recorder
<1>8. CASE CUDA!NotSupported(cmd)
  BY <1>8 DEF CUDA!NotSupported, CUDA!Skip, CUDA!Unsupported, CUDA!recorder
<1> QED
  BY <1>1, <1>2, <1>3, <1>4, <1>5, <1>6, <1>7, <1>8, ZenonT(40) DEF CUDA!Record

(* The CPU recorder keeps no states: no command changes a tracker or the   *)
(* states of the model's GPU.                                              *)
LEMMA CPUUntouched ==
    ASSUME NEW cmd, CPU!Record(cmd) \/ CPU!Finish
    PROVE  UNCHANGED <<tracker, gpu>>
<1>1. CASE CPU!CmdCopyBuffer(cmd) \/ CPU!CmdClearBuffer(cmd) \/ CPU!CmdResolveQuery(cmd)
          \/ CPU!CmdWriteTimestamp(cmd) \/ CPU!CmdExecuteCallback(cmd)
  BY <1>1 DEF CPU!CmdCopyBuffer, CPU!CmdClearBuffer, CPU!CmdResolveQuery,
          CPU!CmdWriteTimestamp, CPU!CmdExecuteCallback, CPU!Perform, CPU!recorder
<1>2. CASE CPU!CmdSetComputeState(cmd)
  BY <1>2 DEF CPU!CmdSetComputeState
<1>3. CASE CPU!CmdDispatchCompute(cmd)
  BY <1>3 DEF CPU!CmdDispatchCompute, CPU!Dropped, CPU!Launch, CPU!LaunchOrDrop,
          CPU!recorder
<1>4. CASE CPU!NotSupported(cmd)
  BY <1>4 DEF CPU!NotSupported, CPU!Skip, CPU!Unsupported, CPU!recorder
<1>5. CASE CPU!Finish
  BY <1>5 DEF CPU!Finish, CPU!Skip, CPU!recorder
<1> QED
  BY <1>1, <1>2, <1>3, <1>4, <1>5, ZenonT(40) DEF CPU!Record

-----------------------------------------------------------------------------
(* WebGPU's recorder is made of the common parts.                          *)
LEMMA WGPUParts ==
    /\ WGPU!Skip <=> Skip
    /\ WGPU!Nothing = Nothing /\ WGPU!NoTargets = NoTargets /\ WGPU!Unbound = Unbound
    /\ WGPU!VertexNeeds = VertexNeeds /\ WGPU!IndexedNeeds = IndexedNeeds
    /\ \A cmd, objects : (WGPU!Perform(cmd, objects) <=> Perform(cmd, objects))
                         /\ WGPU!Using(cmd, objects) = Using(cmd, objects)
    /\ \A cmd, p, needs : WGPU!LaunchOrDrop(cmd, p, needs) <=> LaunchOrDrop(cmd, p, needs)
    /\ \A cmd, p, needs : WGPU!Launched(cmd, p, needs) = Launched(cmd, p, needs)
    /\ \A cmd : WGPU!Dropped(cmd) <=> Dropped(cmd)
    /\ \A cmd : WGPU!IndirectNeeds(cmd) = IndirectNeeds(cmd) /\ WGPU!NewRenderState(cmd) = NewRenderState(cmd)
    /\ \A p, cmd : WGPU!NewProgram(p, cmd) = NewProgram(p, cmd)
    /\ \A b, s : WGPU!BufferNeed(b, s) = BufferNeed(b, s)
    /\ \A x, y : WGPU!Rebound(x, y) = Rebound(x, y)
    /\ \A desc : WGPU!TargetNeeds(desc) = TargetNeeds(desc)
    /\ \A S : WGPU!Uses(S) = Uses(S) /\ WGPU!Range(S) = Range(S)
<1> USE DEF WGPU!Nothing, Nothing, WGPU!Unbound, Unbound, WGPU!Objects, Objects
<1>1. WGPU!Skip <=> Skip
  BY ZenonT(40) DEF WGPU!Skip, Skip, WGPU!recorder, recorder
<1>2. \A b, s : WGPU!BufferNeed(b, s) = BufferNeed(b, s)
  BY ZenonT(40) DEF WGPU!BufferNeed, BufferNeed, WGPU!Need, Need, WGPU!EntireTexture, EntireTexture,
     WGPU!SubresourceRange, SubresourceRange
<1>3. \A x, s : WGPU!OptionalNeed(x, s) = OptionalNeed(x, s)
  BY <1>2, ZenonT(40) DEF WGPU!OptionalNeed, OptionalNeed
<1>4. WGPU!VertexNeeds = VertexNeeds /\ WGPU!IndexedNeeds = IndexedNeeds
  BY <1>3, ZenonT(40) DEF WGPU!VertexNeeds, VertexNeeds, WGPU!IndexedNeeds, IndexedNeeds, WGPU!GeometryNeeds, GeometryNeeds
<1>5. \A cmd : WGPU!IndirectNeeds(cmd) = IndirectNeeds(cmd)
  BY <1>2, <1>3, ZenonT(40) DEF WGPU!IndirectNeeds, IndirectNeeds
<1>6. \A S : WGPU!Uses(S) = Uses(S) /\ WGPU!Range(S) = Range(S)
  BY ZenonT(40) DEF WGPU!Uses, Uses, WGPU!Range, Range
<1>7. \A cmd, objects : (WGPU!Perform(cmd, objects) <=> Perform(cmd, objects))
                        /\ WGPU!Using(cmd, objects) = Using(cmd, objects)
  BY ZenonT(40) DEF WGPU!Perform, Perform, WGPU!Using, Using, WGPU!recorder, recorder
<1>8. \A cmd, p, needs : WGPU!Launched(cmd, p, needs) = Launched(cmd, p, needs)
  <2>1. \A cmd, needs : WGPU!Executing(cmd, needs) = Executing(cmd, needs)
    BY <1>6, ZenonT(40) DEF WGPU!Executing, Executing
  <2>2. \A cmd, p, needs : WGPU!Launching(cmd, p, needs) = Launching(cmd, p, needs)
    BY <2>1, ZenonT(40) DEF WGPU!Launching, Launching
  <2> QED
    BY <2>2, ZenonT(40) DEF WGPU!Launched, Launched
<1>9. \A cmd : WGPU!Dropped(cmd) <=> Dropped(cmd)
  BY ZenonT(40) DEF WGPU!Dropped, Dropped, WGPU!recorder, recorder
<1>10. \A cmd, p, needs : WGPU!LaunchOrDrop(cmd, p, needs) <=> LaunchOrDrop(cmd, p, needs)
  BY <1>8, <1>9, ZenonT(40) DEF WGPU!LaunchOrDrop, LaunchOrDrop, WGPU!Launch, Launch, WGPU!recorder, recorder
<1>11. \A p, cmd : WGPU!NewProgram(p, cmd) = NewProgram(p, cmd)
  BY ZenonT(40) DEF WGPU!NewProgram, NewProgram, WGPU!NewPipeline, NewPipeline
<1>12. \A cmd : WGPU!NewRenderState(cmd) = NewRenderState(cmd)
  BY <1>11, ZenonT(40) DEF WGPU!NewRenderState, NewRenderState
<1>13. \A x, y : WGPU!Rebound(x, y) = Rebound(x, y)
  BY ZenonT(40) DEF WGPU!Rebound, Rebound
<1>14. \A desc : WGPU!TargetNeeds(desc) = TargetNeeds(desc)
  BY ZenonT(40) DEF WGPU!TargetNeeds, TargetNeeds, WGPU!ViewNeed, ViewNeed, WGPU!Need, Need
<1>15. WGPU!NoTargets = NoTargets
  BY DEF WGPU!NoTargets, NoTargets
<1> QED
  BY <1>1, <1>2, <1>4, <1>5, <1>6, <1>7, <1>8, <1>9, <1>10, <1>11, <1>12, <1>13, <1>14, <1>15

(* A recorder that has unbound some bind points.                           *)
LEMMA SomeUnbound ==
    ASSUME Holding, NEW S PROVE BoundHeld([b \in BindPoints |-> IF b \in S THEN Unbound ELSE bound[b]])
<1> DEFINE n == [b \in BindPoints |-> IF b \in S THEN Unbound ELSE bound[b]]
<1>1. n = [b \in BindPoints |-> n[b]] /\ \A b \in BindPoints : n[b] = IF b \in S THEN Unbound ELSE bound[b]
  OBVIOUS
<1> HIDE DEF n
<1> QED
  BY <1>1, UnboundHeld DEF BoundHeld, Holding

(* The WGPU recorder uses what is retained.                                *)
LEMMA WGPUKept ==
    ASSUME Holding, NEW cmd, Typed(cmd), HeldCommand(cmd), WGPU!Record(cmd) \/ WGPU!Finish
    PROVE  Kept
<1>1. CASE WGPU!CmdCopyBuffer(cmd) \/ WGPU!CmdCopyTexture(cmd)
          \/ WGPU!CmdCopyTextureToBuffer(cmd) \/ WGPU!CmdClearBuffer(cmd)
          \/ WGPU!CmdUploadTextureData(cmd) \/ WGPU!CmdExecuteCallback(cmd)
  BY <1>1, CallNames, WGPUParts, PerformKept, ZenonT(40) DEF HeldCommand, WGPU!CmdCopyBuffer, WGPU!CmdCopyTexture, WGPU!CmdCopyTextureToBuffer,
          WGPU!CmdClearBuffer, WGPU!CmdUploadTextureData, WGPU!CmdExecuteCallback
<1>2. ASSUME NEW S, WGPU!SwitchEncoder(S) PROVE BoundHeld(bound')
  <2>1. bound' = [b \in BindPoints |-> IF b \in active THEN Unbound ELSE bound[b]]
    BY <1>2, WGPUParts, ZenonT(40) DEF WGPU!SwitchEncoder, WGPU!BindPoints, BindPoints
  <2> QED
    BY <2>1, SomeUnbound, Zenon
<1>3. CASE WGPU!CmdBeginRenderPass(cmd)
  <2>1. cmd.id = "BeginRenderPass" /\ BoundHeld(bound')
        /\ attachments' = [NoTargets EXCEPT !.needs = TargetNeeds(cmd.desc)]
        /\ executing' = Using(cmd, Uses(Range(TargetNeeds(cmd.desc))))
    BY <1>2, <1>3, WGPUParts, ZenonT(40) DEF WGPU!CmdBeginRenderPass
  <2>2. TargetNeeds(cmd.desc) \in Seq(HeldNeeds)
    BY <2>1, TargetNeedsHeld
  <2>3. TargetsHeld(attachments')
    BY <2>1, <2>2, NoTargetsHeld DEF TargetsHeld, NoTargets
  <2>4. Objects(Uses(Range(TargetNeeds(cmd.desc)))) \subseteq retained
    BY <2>2, UsesOfHeld DEF Objects
  <2> QED
    BY <2>1, <2>3, <2>4, UsingFed DEF Kept
<1>4. CASE WGPU!CmdEndRenderPass(cmd) \/ WGPU!CmdComputePass(cmd) \/ WGPU!Finish
  <2>1. BoundHeld(bound') /\ executing' = Nothing /\ attachments' \in {NoTargets, attachments}
    BY <1>2, <1>4, WGPUParts DEF WGPU!CmdEndRenderPass, WGPU!CmdComputePass, WGPU!Finish
  <2> QED
    BY <2>1, NothingFed, NoTargetsHeld DEF Kept, Holding
<1>5. CASE WGPU!CmdSetRenderState(cmd)
  <2>1. cmd.id = "SetRenderState" /\ HeldBinding(NewRenderState(cmd))
    BY <1>5, RenderStateHeld DEF WGPU!CmdSetRenderState
  <2>2. CASE "Render" \notin active
    BY <1>5, <2>2, WGPUParts, SkipKept DEF WGPU!CmdSetRenderState
  <2>3. CASE "Render" \in active
    <3>1. bound' = [bound EXCEPT !["Render"] = Rebound(@, NewRenderState(cmd))] /\ executing' = Nothing
          /\ attachments' = attachments
      BY <1>5, <2>3, WGPUParts, ZenonT(40) DEF WGPU!CmdSetRenderState
    <3> QED
      BY <2>1, <3>1, BindKept, ZenonT(40) DEF BindPoints
  <2> QED
    BY <2>2, <2>3
<1>6. CASE WGPU!CmdSetComputeState(cmd)
  <2>1. cmd.id = "SetComputeState" /\ HeldBinding(NewProgram("Compute", cmd))
    BY <1>6, ProgramHeld DEF WGPU!CmdSetComputeState, StateIds
  <2>2. CASE "Compute" \notin active
    BY <1>6, <2>2, WGPUParts, SkipKept DEF WGPU!CmdSetComputeState
  <2>3. CASE "Compute" \in active
    <3>1. bound' = [bound EXCEPT !["Compute"] = Rebound(@, NewProgram("Compute", cmd))] /\ executing' = Nothing
          /\ attachments' = attachments
      BY <1>6, <2>3, WGPUParts, ZenonT(40) DEF WGPU!CmdSetComputeState
    <3> QED
      BY <2>1, <3>1, BindKept, ZenonT(40) DEF BindPoints
  <2> QED
    BY <2>2, <2>3
<1>7. CASE WGPU!CmdDraw(cmd) \/ WGPU!CmdDrawIndexed(cmd) \/ WGPU!CmdDrawIndirect(cmd)
          \/ WGPU!CmdDrawIndexedIndirect(cmd) \/ WGPU!CmdDispatchCompute(cmd)
          \/ WGPU!CmdDispatchComputeIndirect(cmd)
  <2>1. "Render" \in BindPoints /\ "Compute" \in BindPoints /\ <<>> \in Seq(HeldNeeds)
    BY DEF BindPoints
  <2>2. PICK p \in {"Render", "Compute"}, needs \in Seq(HeldNeeds) : LaunchOrDrop(cmd, p, needs)
    BY <1>7, <2>1, WGPUParts, ArgumentsHeld, BoundGeometry, Joined, ZenonT(40) DEF WGPU!CmdDraw, WGPU!CmdDrawIndexed, WGPU!CmdDrawIndirect,
          WGPU!CmdDrawIndexedIndirect, WGPU!CmdDispatchCompute, WGPU!CmdDispatchComputeIndirect
  <2> QED
    BY <2>1, <2>2, LaunchKept
<1>8. CASE WGPU!NotSupported(cmd)
  BY <1>8, WGPUParts, SkipKept, ZenonT(40) DEF WGPU!NotSupported, WGPU!Unsupported
<1> QED
  BY <1>1, <1>3, <1>4, <1>5, <1>6, <1>7, <1>8, ZenonT(40) DEF WGPU!Record

(* So is Metal's.                                                          *)
LEMMA MetalParts ==
    /\ Metal!Skip <=> Skip
    /\ Metal!Nothing = Nothing /\ Metal!NoTargets = NoTargets /\ Metal!Unbound = Unbound
    /\ Metal!VertexNeeds = VertexNeeds /\ Metal!IndexedNeeds = IndexedNeeds
    /\ \A cmd, objects : (Metal!Perform(cmd, objects) <=> Perform(cmd, objects))
                         /\ Metal!Using(cmd, objects) = Using(cmd, objects)
    /\ \A cmd, p, needs : Metal!LaunchOrDrop(cmd, p, needs) <=> LaunchOrDrop(cmd, p, needs)
    /\ \A cmd, p, needs : Metal!Launched(cmd, p, needs) = Launched(cmd, p, needs)
    /\ \A cmd : Metal!Dropped(cmd) <=> Dropped(cmd)
    /\ \A cmd : Metal!IndirectNeeds(cmd) = IndirectNeeds(cmd) /\ Metal!NewRenderState(cmd) = NewRenderState(cmd)
    /\ \A p, cmd : Metal!NewProgram(p, cmd) = NewProgram(p, cmd)
    /\ \A b, s : Metal!BufferNeed(b, s) = BufferNeed(b, s)
    /\ \A x, y : Metal!Rebound(x, y) = Rebound(x, y)
    /\ \A desc : Metal!TargetNeeds(desc) = TargetNeeds(desc)
    /\ \A desc : Metal!ResolvedColors(desc) = ResolvedColors(desc)
    /\ \A S : Metal!Uses(S) = Uses(S) /\ Metal!Range(S) = Range(S)
<1> USE DEF Metal!Nothing, Nothing, Metal!Unbound, Unbound, Metal!Objects, Objects
<1>1. Metal!Skip <=> Skip
  BY ZenonT(40) DEF Metal!Skip, Skip, Metal!recorder, recorder
<1>2. \A b, s : Metal!BufferNeed(b, s) = BufferNeed(b, s)
  BY ZenonT(40) DEF Metal!BufferNeed, BufferNeed, Metal!Need, Need, Metal!EntireTexture, EntireTexture,
     Metal!SubresourceRange, SubresourceRange
<1>3. \A x, s : Metal!OptionalNeed(x, s) = OptionalNeed(x, s)
  BY <1>2, ZenonT(40) DEF Metal!OptionalNeed, OptionalNeed
<1>4. Metal!VertexNeeds = VertexNeeds /\ Metal!IndexedNeeds = IndexedNeeds
  BY <1>3, ZenonT(40) DEF Metal!VertexNeeds, VertexNeeds, Metal!IndexedNeeds, IndexedNeeds, Metal!GeometryNeeds, GeometryNeeds
<1>5. \A cmd : Metal!IndirectNeeds(cmd) = IndirectNeeds(cmd)
  BY <1>2, <1>3, ZenonT(40) DEF Metal!IndirectNeeds, IndirectNeeds
<1>6. \A S : Metal!Uses(S) = Uses(S) /\ Metal!Range(S) = Range(S)
  BY ZenonT(40) DEF Metal!Uses, Uses, Metal!Range, Range
<1>7. \A cmd, objects : (Metal!Perform(cmd, objects) <=> Perform(cmd, objects))
                        /\ Metal!Using(cmd, objects) = Using(cmd, objects)
  BY ZenonT(40) DEF Metal!Perform, Perform, Metal!Using, Using, Metal!recorder, recorder
<1>8. \A cmd, p, needs : Metal!Launched(cmd, p, needs) = Launched(cmd, p, needs)
  <2>1. \A cmd, needs : Metal!Executing(cmd, needs) = Executing(cmd, needs)
    BY <1>6, ZenonT(40) DEF Metal!Executing, Executing
  <2>2. \A cmd, p, needs : Metal!Launching(cmd, p, needs) = Launching(cmd, p, needs)
    BY <2>1, ZenonT(40) DEF Metal!Launching, Launching
  <2> QED
    BY <2>2, ZenonT(40) DEF Metal!Launched, Launched
<1>9. \A cmd : Metal!Dropped(cmd) <=> Dropped(cmd)
  BY ZenonT(40) DEF Metal!Dropped, Dropped, Metal!recorder, recorder
<1>10. \A cmd, p, needs : Metal!LaunchOrDrop(cmd, p, needs) <=> LaunchOrDrop(cmd, p, needs)
  BY <1>8, <1>9, ZenonT(40) DEF Metal!LaunchOrDrop, LaunchOrDrop, Metal!Launch, Launch, Metal!recorder, recorder
<1>11. \A p, cmd : Metal!NewProgram(p, cmd) = NewProgram(p, cmd)
  BY ZenonT(40) DEF Metal!NewProgram, NewProgram, Metal!NewPipeline, NewPipeline
<1>12. \A cmd : Metal!NewRenderState(cmd) = NewRenderState(cmd)
  BY <1>11, ZenonT(40) DEF Metal!NewRenderState, NewRenderState
<1>13. \A x, y : Metal!Rebound(x, y) = Rebound(x, y)
  BY ZenonT(40) DEF Metal!Rebound, Rebound
<1>14. \A desc : Metal!TargetNeeds(desc) = TargetNeeds(desc)
  BY ZenonT(40) DEF Metal!TargetNeeds, TargetNeeds, Metal!ViewNeed, ViewNeed, Metal!Need, Need
<1>15. Metal!NoTargets = NoTargets
  BY DEF Metal!NoTargets, NoTargets
<1>16. \A desc : Metal!ResolvedColors(desc) = ResolvedColors(desc)
  <2>1. \A ss : Metal!FlattenSeq(ss) = FlattenSeq(ss)
    BY ZenonT(40) DEF Metal!FlattenSeq, FlattenSeq
  <2> QED
    BY <2>1, ZenonT(40) DEF Metal!ResolvedColors, ResolvedColors
<1> QED
  BY <1>16, <1>1, <1>2, <1>4, <1>5, <1>6, <1>7, <1>8, <1>9, <1>10, <1>11, <1>12, <1>13, <1>14, <1>15

(* So is that of D3D11.                                                    *)
LEMMA D3D11Parts ==
    /\ D3D11!Skip <=> Skip
    /\ D3D11!Nothing = Nothing /\ D3D11!NoTargets = NoTargets /\ D3D11!Unbound = Unbound
    /\ D3D11!VertexNeeds = VertexNeeds /\ D3D11!IndexedNeeds = IndexedNeeds
    /\ \A cmd, objects : (D3D11!Perform(cmd, objects) <=> Perform(cmd, objects))
                         /\ D3D11!Using(cmd, objects) = Using(cmd, objects)
    /\ \A cmd, p, needs : D3D11!LaunchOrDrop(cmd, p, needs) <=> LaunchOrDrop(cmd, p, needs)
    /\ \A cmd, p, needs : D3D11!Launched(cmd, p, needs) = Launched(cmd, p, needs)
    /\ \A cmd : D3D11!Dropped(cmd) <=> Dropped(cmd)
    /\ \A cmd : D3D11!IndirectNeeds(cmd) = IndirectNeeds(cmd) /\ D3D11!NewRenderState(cmd) = NewRenderState(cmd)
    /\ \A p, cmd : D3D11!NewProgram(p, cmd) = NewProgram(p, cmd)
    /\ \A b, s : D3D11!BufferNeed(b, s) = BufferNeed(b, s)
    /\ \A x, y : D3D11!Rebound(x, y) = Rebound(x, y)
    /\ \A desc : D3D11!TargetNeeds(desc) = TargetNeeds(desc)
    /\ \A desc : D3D11!ResolvedColors(desc) = ResolvedColors(desc)
    /\ \A S : D3D11!Uses(S) = Uses(S) /\ D3D11!Range(S) = Range(S)
<1> USE DEF D3D11!Nothing, Nothing, D3D11!Unbound, Unbound, D3D11!Objects, Objects
<1>1. D3D11!Skip <=> Skip
  BY ZenonT(40) DEF D3D11!Skip, Skip, D3D11!recorder, recorder
<1>2. \A b, s : D3D11!BufferNeed(b, s) = BufferNeed(b, s)
  BY ZenonT(40) DEF D3D11!BufferNeed, BufferNeed, D3D11!Need, Need, D3D11!EntireTexture, EntireTexture,
     D3D11!SubresourceRange, SubresourceRange
<1>3. \A x, s : D3D11!OptionalNeed(x, s) = OptionalNeed(x, s)
  BY <1>2, ZenonT(40) DEF D3D11!OptionalNeed, OptionalNeed
<1>4. D3D11!VertexNeeds = VertexNeeds /\ D3D11!IndexedNeeds = IndexedNeeds
  BY <1>3, ZenonT(40) DEF D3D11!VertexNeeds, VertexNeeds, D3D11!IndexedNeeds, IndexedNeeds, D3D11!GeometryNeeds, GeometryNeeds
<1>5. \A cmd : D3D11!IndirectNeeds(cmd) = IndirectNeeds(cmd)
  BY <1>2, <1>3, ZenonT(40) DEF D3D11!IndirectNeeds, IndirectNeeds
<1>6. \A S : D3D11!Uses(S) = Uses(S) /\ D3D11!Range(S) = Range(S)
  BY ZenonT(40) DEF D3D11!Uses, Uses, D3D11!Range, Range
<1>7. \A cmd, objects : (D3D11!Perform(cmd, objects) <=> Perform(cmd, objects))
                        /\ D3D11!Using(cmd, objects) = Using(cmd, objects)
  BY ZenonT(40) DEF D3D11!Perform, Perform, D3D11!Using, Using, D3D11!recorder, recorder
<1>8. \A cmd, p, needs : D3D11!Launched(cmd, p, needs) = Launched(cmd, p, needs)
  <2>1. \A cmd, needs : D3D11!Executing(cmd, needs) = Executing(cmd, needs)
    BY <1>6, ZenonT(40) DEF D3D11!Executing, Executing
  <2>2. \A cmd, p, needs : D3D11!Launching(cmd, p, needs) = Launching(cmd, p, needs)
    BY <2>1, ZenonT(40) DEF D3D11!Launching, Launching
  <2> QED
    BY <2>2, ZenonT(40) DEF D3D11!Launched, Launched
<1>9. \A cmd : D3D11!Dropped(cmd) <=> Dropped(cmd)
  BY ZenonT(40) DEF D3D11!Dropped, Dropped, D3D11!recorder, recorder
<1>10. \A cmd, p, needs : D3D11!LaunchOrDrop(cmd, p, needs) <=> LaunchOrDrop(cmd, p, needs)
  BY <1>8, <1>9, ZenonT(40) DEF D3D11!LaunchOrDrop, LaunchOrDrop, D3D11!Launch, Launch, D3D11!recorder, recorder
<1>11. \A p, cmd : D3D11!NewProgram(p, cmd) = NewProgram(p, cmd)
  BY ZenonT(40) DEF D3D11!NewProgram, NewProgram, D3D11!NewPipeline, NewPipeline
<1>12. \A cmd : D3D11!NewRenderState(cmd) = NewRenderState(cmd)
  BY <1>11, ZenonT(40) DEF D3D11!NewRenderState, NewRenderState
<1>13. \A x, y : D3D11!Rebound(x, y) = Rebound(x, y)
  BY ZenonT(40) DEF D3D11!Rebound, Rebound
<1>14. \A desc : D3D11!TargetNeeds(desc) = TargetNeeds(desc)
  BY ZenonT(40) DEF D3D11!TargetNeeds, TargetNeeds, D3D11!ViewNeed, ViewNeed, D3D11!Need, Need
<1>15. D3D11!NoTargets = NoTargets
  BY DEF D3D11!NoTargets, NoTargets
<1>16. \A desc : D3D11!ResolvedColors(desc) = ResolvedColors(desc)
  <2>1. \A ss : D3D11!FlattenSeq(ss) = FlattenSeq(ss)
    BY ZenonT(40) DEF D3D11!FlattenSeq, FlattenSeq
  <2> QED
    BY <2>1, ZenonT(40) DEF D3D11!ResolvedColors, ResolvedColors
<1> QED
  BY <1>16, <1>1, <1>2, <1>4, <1>5, <1>6, <1>7, <1>8, <1>9, <1>10, <1>11, <1>12, <1>13, <1>14, <1>15

(* So is CUDA's.                                                           *)
LEMMA CUDAParts ==
    /\ CUDA!Skip <=> Skip
    /\ CUDA!Nothing = Nothing /\ CUDA!NoTargets = NoTargets /\ CUDA!Unbound = Unbound
    /\ CUDA!VertexNeeds = VertexNeeds /\ CUDA!IndexedNeeds = IndexedNeeds
    /\ \A cmd, objects : (CUDA!Perform(cmd, objects) <=> Perform(cmd, objects))
                         /\ CUDA!Using(cmd, objects) = Using(cmd, objects)
    /\ \A cmd, p, needs : CUDA!LaunchOrDrop(cmd, p, needs) <=> LaunchOrDrop(cmd, p, needs)
    /\ \A cmd, p, needs : CUDA!Launched(cmd, p, needs) = Launched(cmd, p, needs)
    /\ \A cmd : CUDA!Dropped(cmd) <=> Dropped(cmd)
    /\ \A cmd : CUDA!IndirectNeeds(cmd) = IndirectNeeds(cmd) /\ CUDA!NewRenderState(cmd) = NewRenderState(cmd)
    /\ \A p, cmd : CUDA!NewProgram(p, cmd) = NewProgram(p, cmd)
    /\ \A b, s : CUDA!BufferNeed(b, s) = BufferNeed(b, s)
    /\ \A x, y : CUDA!Rebound(x, y) = Rebound(x, y)
    /\ \A S : CUDA!Uses(S) = Uses(S) /\ CUDA!Range(S) = Range(S)
<1> USE DEF CUDA!Nothing, Nothing, CUDA!Unbound, Unbound, CUDA!Objects, Objects
<1>1. CUDA!Skip <=> Skip
  BY ZenonT(40) DEF CUDA!Skip, Skip, CUDA!recorder, recorder
<1>2. \A b, s : CUDA!BufferNeed(b, s) = BufferNeed(b, s)
  BY ZenonT(40) DEF CUDA!BufferNeed, BufferNeed, CUDA!Need, Need, CUDA!EntireTexture, EntireTexture,
     CUDA!SubresourceRange, SubresourceRange
<1>3. \A x, s : CUDA!OptionalNeed(x, s) = OptionalNeed(x, s)
  BY <1>2, ZenonT(40) DEF CUDA!OptionalNeed, OptionalNeed
<1>4. CUDA!VertexNeeds = VertexNeeds /\ CUDA!IndexedNeeds = IndexedNeeds
  BY <1>3, ZenonT(40) DEF CUDA!VertexNeeds, VertexNeeds, CUDA!IndexedNeeds, IndexedNeeds, CUDA!GeometryNeeds, GeometryNeeds
<1>5. \A cmd : CUDA!IndirectNeeds(cmd) = IndirectNeeds(cmd)
  BY <1>2, <1>3, ZenonT(40) DEF CUDA!IndirectNeeds, IndirectNeeds
<1>6. \A S : CUDA!Uses(S) = Uses(S) /\ CUDA!Range(S) = Range(S)
  BY ZenonT(40) DEF CUDA!Uses, Uses, CUDA!Range, Range
<1>7. \A cmd, objects : (CUDA!Perform(cmd, objects) <=> Perform(cmd, objects))
                        /\ CUDA!Using(cmd, objects) = Using(cmd, objects)
  BY ZenonT(40) DEF CUDA!Perform, Perform, CUDA!Using, Using, CUDA!recorder, recorder
<1>8. \A cmd, p, needs : CUDA!Launched(cmd, p, needs) = Launched(cmd, p, needs)
  <2>1. \A cmd, needs : CUDA!Executing(cmd, needs) = Executing(cmd, needs)
    BY <1>6, ZenonT(40) DEF CUDA!Executing, Executing
  <2>2. \A cmd, p, needs : CUDA!Launching(cmd, p, needs) = Launching(cmd, p, needs)
    BY <2>1, ZenonT(40) DEF CUDA!Launching, Launching
  <2> QED
    BY <2>2, ZenonT(40) DEF CUDA!Launched, Launched
<1>9. \A cmd : CUDA!Dropped(cmd) <=> Dropped(cmd)
  BY ZenonT(40) DEF CUDA!Dropped, Dropped, CUDA!recorder, recorder
<1>10. \A cmd, p, needs : CUDA!LaunchOrDrop(cmd, p, needs) <=> LaunchOrDrop(cmd, p, needs)
  BY <1>8, <1>9, ZenonT(40) DEF CUDA!LaunchOrDrop, LaunchOrDrop, CUDA!Launch, Launch, CUDA!recorder, recorder
<1>11. \A p, cmd : CUDA!NewProgram(p, cmd) = NewProgram(p, cmd)
  BY ZenonT(40) DEF CUDA!NewProgram, NewProgram, CUDA!NewPipeline, NewPipeline
<1>12. \A cmd : CUDA!NewRenderState(cmd) = NewRenderState(cmd)
  BY <1>11, ZenonT(40) DEF CUDA!NewRenderState, NewRenderState
<1>13. \A x, y : CUDA!Rebound(x, y) = Rebound(x, y)
  BY ZenonT(40) DEF CUDA!Rebound, Rebound
<1>15. CUDA!NoTargets = NoTargets
  BY DEF CUDA!NoTargets, NoTargets
<1> QED
  BY <1>1, <1>2, <1>4, <1>5, <1>6, <1>7, <1>8, <1>9, <1>10, <1>11, <1>12, <1>13, <1>15

(* So is that of the CPU.                                                  *)
LEMMA CPUParts ==
    /\ CPU!Skip <=> Skip
    /\ CPU!Nothing = Nothing /\ CPU!NoTargets = NoTargets /\ CPU!Unbound = Unbound
    /\ CPU!VertexNeeds = VertexNeeds /\ CPU!IndexedNeeds = IndexedNeeds
    /\ \A cmd, objects : (CPU!Perform(cmd, objects) <=> Perform(cmd, objects))
                         /\ CPU!Using(cmd, objects) = Using(cmd, objects)
    /\ \A cmd, p, needs : CPU!LaunchOrDrop(cmd, p, needs) <=> LaunchOrDrop(cmd, p, needs)
    /\ \A cmd, p, needs : CPU!Launched(cmd, p, needs) = Launched(cmd, p, needs)
    /\ \A cmd : CPU!Dropped(cmd) <=> Dropped(cmd)
    /\ \A cmd : CPU!IndirectNeeds(cmd) = IndirectNeeds(cmd) /\ CPU!NewRenderState(cmd) = NewRenderState(cmd)
    /\ \A p, cmd : CPU!NewProgram(p, cmd) = NewProgram(p, cmd)
    /\ \A b, s : CPU!BufferNeed(b, s) = BufferNeed(b, s)
    /\ \A x, y : CPU!Rebound(x, y) = Rebound(x, y)
    /\ \A S : CPU!Uses(S) = Uses(S) /\ CPU!Range(S) = Range(S)
<1> USE DEF CPU!Nothing, Nothing, CPU!Unbound, Unbound, CPU!Objects, Objects
<1>1. CPU!Skip <=> Skip
  BY ZenonT(40) DEF CPU!Skip, Skip, CPU!recorder, recorder
<1>2. \A b, s : CPU!BufferNeed(b, s) = BufferNeed(b, s)
  BY ZenonT(40) DEF CPU!BufferNeed, BufferNeed, CPU!Need, Need, CPU!EntireTexture, EntireTexture,
     CPU!SubresourceRange, SubresourceRange
<1>3. \A x, s : CPU!OptionalNeed(x, s) = OptionalNeed(x, s)
  BY <1>2, ZenonT(40) DEF CPU!OptionalNeed, OptionalNeed
<1>4. CPU!VertexNeeds = VertexNeeds /\ CPU!IndexedNeeds = IndexedNeeds
  BY <1>3, ZenonT(40) DEF CPU!VertexNeeds, VertexNeeds, CPU!IndexedNeeds, IndexedNeeds, CPU!GeometryNeeds, GeometryNeeds
<1>5. \A cmd : CPU!IndirectNeeds(cmd) = IndirectNeeds(cmd)
  BY <1>2, <1>3, ZenonT(40) DEF CPU!IndirectNeeds, IndirectNeeds
<1>6. \A S : CPU!Uses(S) = Uses(S) /\ CPU!Range(S) = Range(S)
  BY ZenonT(40) DEF CPU!Uses, Uses, CPU!Range, Range
<1>7. \A cmd, objects : (CPU!Perform(cmd, objects) <=> Perform(cmd, objects))
                        /\ CPU!Using(cmd, objects) = Using(cmd, objects)
  BY ZenonT(40) DEF CPU!Perform, Perform, CPU!Using, Using, CPU!recorder, recorder
<1>8. \A cmd, p, needs : CPU!Launched(cmd, p, needs) = Launched(cmd, p, needs)
  <2>1. \A cmd, needs : CPU!Executing(cmd, needs) = Executing(cmd, needs)
    BY <1>6, ZenonT(40) DEF CPU!Executing, Executing
  <2>2. \A cmd, p, needs : CPU!Launching(cmd, p, needs) = Launching(cmd, p, needs)
    BY <2>1, ZenonT(40) DEF CPU!Launching, Launching
  <2> QED
    BY <2>2, ZenonT(40) DEF CPU!Launched, Launched
<1>9. \A cmd : CPU!Dropped(cmd) <=> Dropped(cmd)
  BY ZenonT(40) DEF CPU!Dropped, Dropped, CPU!recorder, recorder
<1>10. \A cmd, p, needs : CPU!LaunchOrDrop(cmd, p, needs) <=> LaunchOrDrop(cmd, p, needs)
  BY <1>8, <1>9, ZenonT(40) DEF CPU!LaunchOrDrop, LaunchOrDrop, CPU!Launch, Launch, CPU!recorder, recorder
<1>11. \A p, cmd : CPU!NewProgram(p, cmd) = NewProgram(p, cmd)
  BY ZenonT(40) DEF CPU!NewProgram, NewProgram, CPU!NewPipeline, NewPipeline
<1>12. \A cmd : CPU!NewRenderState(cmd) = NewRenderState(cmd)
  BY <1>11, ZenonT(40) DEF CPU!NewRenderState, NewRenderState
<1>13. \A x, y : CPU!Rebound(x, y) = Rebound(x, y)
  BY ZenonT(40) DEF CPU!Rebound, Rebound
<1>15. CPU!NoTargets = NoTargets
  BY DEF CPU!NoTargets, NoTargets
<1> QED
  BY <1>1, <1>2, <1>4, <1>5, <1>6, <1>7, <1>8, <1>9, <1>10, <1>11, <1>12, <1>13, <1>15

(* The Metal recorder, switching its encoder, leaves what is retained      *)
(* bound.                                                                  *)
LEMMA MetalSwitches ==
    ASSUME Holding, NEW kind, Metal!Switch(kind)
    PROVE  BoundHeld(bound')
<1> DEFINE ended == IF native.kind = kind THEN {} ELSE {native.kind}
           n == [b \in BindPoints |-> IF b \in ended THEN [Unbound EXCEPT !.ib = bound[b].ib] ELSE bound[b]]
<1>1. bound' = n
  BY MetalParts, ZenonT(40) DEF Metal!Switch, Metal!BindPoints, BindPoints
<1> HIDE DEF ended
<1>2. n = [b \in BindPoints |-> n[b]]
      /\ \A b \in BindPoints : n[b] = IF b \in ended THEN [Unbound EXCEPT !.ib = bound[b].ib] ELSE bound[b]
  OBVIOUS
<1> HIDE DEF n
<1>3. \A b \in BindPoints : Objects({bound[b].ib}) \subseteq retained /\ bound[b].ib \in OptionalBuffers
  BY DEF Holding, BoundHeld, HeldBinding, IsBinding, Objects
<1>4. \A b \in BindPoints : HeldBinding([Unbound EXCEPT !.ib = bound[b].ib])
  BY <1>3, UnboundHeld, FieldsHeld
<1>5. \A b \in BindPoints : HeldBinding(n[b])
  BY <1>2, <1>4 DEF Holding, BoundHeld
<1> QED
  BY <1>1, <1>2, <1>5 DEF BoundHeld

(* The requirements of all targets of a pass, resolved ones as well.       *)
LEMMA MetalTargetsHeld ==
    ASSUME NEW cmd, Typed(cmd), HeldCommand(cmd), cmd.id = "BeginRenderPass"
    PROVE  Metal!AllTargets(cmd.desc) \in Seq(HeldNeeds)
<1> DEFINE resolved == ResolvedColors(cmd.desc)
           s == [i \in DOMAIN resolved |-> ViewNeed(resolved[i].resolve, "ResolveDestination")]
<1>1. resolved \in Seq(HeldResolved)
  BY ResolvedColorsHeld
<1>2. \A c \in HeldResolved : ViewNeed(c.resolve, "ResolveDestination") \in HeldNeeds
  <2>1. \A c \in HeldResolved : c.resolve \in Views /\ c.resolve.res \in retained
    BY ViewsTyped DEF HeldResolved, ResolvedTargets, Targets
  <2> QED
    BY <2>1, HeldViews
<1> HIDE DEF resolved
<1>3. DOMAIN resolved = 1..Len(resolved) /\ Len(resolved) \in Nat /\ \A i \in DOMAIN resolved : resolved[i] \in HeldResolved
  BY <1>1
<1>4. s \in [1..Len(resolved) -> HeldNeeds]
  BY <1>2, <1>3
<1>5. s \in Seq(HeldNeeds)
  <2> HIDE DEF s
  <2> QED
    BY <1>3, <1>4
<1>6. \A v, st : Metal!ViewNeed(v, st) = ViewNeed(v, st)
  BY ZenonT(40) DEF Metal!ViewNeed, ViewNeed, Metal!Need, Need
<1>7. Metal!AllTargets(cmd.desc) = TargetNeeds(cmd.desc) \o s
  BY <1>6, MetalParts, ZenonT(40) DEF Metal!AllTargets, resolved
<1> HIDE DEF s
<1> QED
  BY <1>5, <1>7, TargetNeedsHeld, Joined, Zenon

(* The Metal recorder uses what is retained.                               *)
LEMMA MetalKept ==
    ASSUME Holding, NEW cmd, Typed(cmd), HeldCommand(cmd), Metal!Record(cmd) \/ Metal!Finish
    PROVE  Kept
<1>1. ASSUME NEW kind, NEW objects, Objects(objects) \subseteq retained, Metal!InEncoder(kind, cmd, objects)
      PROVE  Kept
  <2>1. Metal!Switch(kind) /\ executing' = Using(cmd, objects) /\ attachments' = attachments
    BY <1>1, MetalParts, ZenonT(40) DEF Metal!InEncoder
  <2> QED
    BY <1>1, <2>1, MetalSwitches, UsingFed DEF Kept, Holding
<1>2. CASE Metal!CmdCopyBuffer(cmd) \/ Metal!CmdCopyTexture(cmd)
          \/ Metal!CmdCopyTextureToBuffer(cmd) \/ Metal!CmdClearBuffer(cmd)
          \/ Metal!CmdUploadTextureData(cmd) \/ Metal!CmdResolveQuery(cmd)
          \/ Metal!CmdCopyAccelerationStructure(cmd)
  BY <1>1, <1>2, CallNames, ZenonT(40) DEF HeldCommand, Metal!CmdCopyBuffer, Metal!CmdCopyTexture, Metal!CmdCopyTextureToBuffer,
          Metal!CmdClearBuffer, Metal!CmdUploadTextureData, Metal!CmdResolveQuery,
          Metal!CmdCopyAccelerationStructure
<1>3. CASE Metal!CmdBuildAccelerationStructure(cmd)
  <2>1. PICK converted \in BOOLEAN : Metal!InEncoder("AccelerationStructure", cmd,
                   IF converted THEN {cmd.dst, cmd.src, cmd.scratchBuffer} \cup cmd.inputs ELSE {})
    BY <1>3, ZenonT(40) DEF Metal!CmdBuildAccelerationStructure
  <2>2. Objects({cmd.dst, cmd.src, cmd.scratchBuffer} \cup cmd.inputs \cup {cmd.micromap}) \subseteq retained
    BY <1>3, CallNames DEF HeldCommand, Metal!CmdBuildAccelerationStructure
  <2>3. Objects(IF converted THEN {cmd.dst, cmd.src, cmd.scratchBuffer} \cup cmd.inputs ELSE {}) \subseteq retained
    BY <2>2 DEF Objects
  <2> QED
    BY <1>1, <2>1, <2>3, Zenon
<1>4. CASE Metal!CmdClearTexture(cmd)
  <2>1. cmd.id = "ClearTexture" /\ Metal!Switch("Compute") /\ attachments' = attachments
        /\ \E r : executing' = [Using(cmd, {cmd.dst}) EXCEPT !.raced = r]
    BY <1>4, MetalParts, ZenonT(40) DEF Metal!CmdClearTexture
  <2>2. Objects({cmd.dst}) \subseteq retained
    BY <2>1, CallNames DEF HeldCommand
  <2>3. \A r : Fed([Using(cmd, {cmd.dst}) EXCEPT !.raced = r])
               /\ [Using(cmd, {cmd.dst}) EXCEPT !.raced = r].barred = FALSE
    BY <2>2 DEF Fed, Using, Nothing
  <2> QED
    BY <2>1, <2>3, MetalSwitches DEF Kept, Holding
<1>5. CASE Metal!CmdClearTextureDepthStencil(cmd)
  <2>1. Metal!InEncoder(None, cmd, {cmd.dst}) \/ Skip
    BY <1>5, MetalParts, ZenonT(40) DEF Metal!CmdClearTextureDepthStencil
  <2>2. Objects({cmd.dst}) \subseteq retained
    BY <1>5, CallNames DEF HeldCommand, Metal!CmdClearTextureDepthStencil
  <2> QED
    BY <1>1, <2>1, <2>2, SkipKept, Zenon
<1>6. CASE Metal!CmdGlobalBarrier(cmd) \/ Metal!NotSupported(cmd)
  BY <1>6, MetalParts, SkipKept, ZenonT(40) DEF Metal!CmdGlobalBarrier, Metal!NotSupported, Metal!Unsupported
<1>7. CASE Metal!CmdExecuteCallback(cmd)
  BY <1>7, CallNames, MetalParts, PerformKept, ZenonT(40) DEF HeldCommand, Metal!CmdExecuteCallback
<1>8. CASE Metal!CmdBeginRenderPass(cmd)
  <2>1. cmd.id = "BeginRenderPass" /\ Metal!Switch("Render")
        /\ attachments' = [NoTargets EXCEPT !.needs = Metal!AllTargets(cmd.desc)]
        /\ executing' = Using(cmd, Uses(Range(Metal!AllTargets(cmd.desc))))
    BY <1>8, MetalParts, ZenonT(40) DEF Metal!CmdBeginRenderPass
  <2> DEFINE targets == Metal!AllTargets(cmd.desc)
  <2>2. targets \in Seq(HeldNeeds)
    BY <2>1, MetalTargetsHeld
  <2> HIDE DEF targets
  <2>3. TargetsHeld([NoTargets EXCEPT !.needs = targets])
    BY <2>2, NoTargetsHeld DEF TargetsHeld, NoTargets
  <2>4. Objects(Uses(Range(targets))) \subseteq retained
    BY <2>2, UsesOfHeld DEF Objects
  <2>5. BoundHeld(bound')
    BY <2>1, MetalSwitches
  <2>6. attachments' = [NoTargets EXCEPT !.needs = targets] /\ executing' = Using(cmd, Uses(Range(targets)))
    BY <2>1 DEF targets
  <2> QED
    BY <2>3, <2>4, <2>5, <2>6, UsingFed, ZenonT(40) DEF Kept
<1>9. CASE Metal!CmdEndRenderPass(cmd) \/ Metal!CmdEndComputePass(cmd) \/ Metal!Finish
  <2>1. Metal!Switch(None) /\ executing' = Nothing /\ attachments' \in {NoTargets, attachments}
    BY <1>9, MetalParts DEF Metal!CmdEndRenderPass, Metal!CmdEndComputePass, Metal!Finish
  <2> QED
    BY <2>1, MetalSwitches, NothingFed, NoTargetsHeld DEF Kept, Holding
<1>10. CASE Metal!CmdBeginComputePass(cmd)
  <2>1. UNCHANGED <<bound, attachments>> /\ executing' = Nothing
    BY <1>10, MetalParts DEF Metal!CmdBeginComputePass
  <2> QED
    BY <2>1, NothingFed DEF Kept, Holding
<1>11. CASE Metal!CmdSetRenderState(cmd)
  <2>1. cmd.id = "SetRenderState" /\ HeldBinding(NewRenderState(cmd))
    BY <1>11, RenderStateHeld DEF Metal!CmdSetRenderState
  <2>2. CASE "Render" \notin active
    BY <1>11, <2>2, MetalParts, SkipKept DEF Metal!CmdSetRenderState
  <2>3. CASE "Render" \in active
    <3>1. bound' = [bound EXCEPT !["Render"] = Rebound(@, NewRenderState(cmd))] /\ executing' = Nothing
          /\ attachments' = attachments
      BY <1>11, <2>3, MetalParts, ZenonT(40) DEF Metal!CmdSetRenderState
    <3> QED
      BY <2>1, <3>1, BindKept, ZenonT(40) DEF BindPoints
  <2> QED
    BY <2>2, <2>3
<1>12. CASE Metal!CmdSetComputeState(cmd)
  <2>1. cmd.id = "SetComputeState" /\ HeldBinding(NewProgram("Compute", cmd))
    BY <1>12, ProgramHeld DEF Metal!CmdSetComputeState, StateIds
  <2>2. CASE "Compute" \notin active
    BY <1>12, <2>2, MetalParts, SkipKept DEF Metal!CmdSetComputeState
  <2>3. CASE "Compute" \in active
    <3>1. bound' = [bound EXCEPT !["Compute"] = Rebound(@, NewProgram("Compute", cmd))] /\ executing' = Nothing
          /\ attachments' = attachments
      BY <1>12, <2>3, MetalParts, ZenonT(40) DEF Metal!CmdSetComputeState
    <3> QED
      BY <2>1, <3>1, BindKept, ZenonT(40) DEF BindPoints
  <2> QED
    BY <2>2, <2>3
<1>13. CASE Metal!CmdDraw(cmd) \/ Metal!CmdDrawIndexed(cmd)
  <2>1. \E needs \in Seq(HeldNeeds) : LaunchOrDrop(cmd, "Render", needs)
    BY <1>13, MetalParts, BoundGeometry, ZenonT(40) DEF Metal!CmdDraw, Metal!CmdDrawIndexed
  <2> QED
    BY <2>1, LaunchKept DEF BindPoints
<1>14. CASE Metal!CmdDispatchCompute(cmd) \/ Metal!CmdDispatchComputeIndirect(cmd)
  <2>1. PICK needs \in Seq(HeldNeeds) : Metal!Dispatch(cmd, needs)
    <3>1. <<>> \in Seq(HeldNeeds)
      OBVIOUS
    <3> QED
      BY <1>14, <3>1, MetalParts, ArgumentsHeld, ZenonT(40) DEF Metal!CmdDispatchCompute, Metal!CmdDispatchComputeIndirect
  <2>2. CASE "Compute" \notin valid
    BY <2>1, <2>2, MetalParts, SkipKept, ZenonT(40) DEF Metal!Dispatch
  <2>3. CASE "Compute" \in valid
    <3>1. UNCHANGED <<bound, attachments>>
          /\ \E r : executing' = [Launched(cmd, "Compute", needs) EXCEPT !.raced = r]
      BY <2>1, <2>3, MetalParts, ZenonT(40) DEF Metal!Dispatch, Metal!recorder
    <3>2. \A r : Fed([Launched(cmd, "Compute", needs) EXCEPT !.raced = r])
                 /\ [Launched(cmd, "Compute", needs) EXCEPT !.raced = r].barred = FALSE
      BY LaunchedFed DEF BindPoints
    <3>3. Fed(executing') /\ executing'.barred = FALSE
      BY <3>1, <3>2, Zenon
    <3> QED
      BY <3>1, <3>3 DEF Kept, Holding
  <2> QED
    BY <2>2, <2>3
<1> QED
  BY <1>2, <1>3, <1>4, <1>5, <1>6, <1>7, <1>8, <1>9, <1>10, <1>11, <1>12, <1>13, <1>14, ZenonT(40) DEF Metal!Record

(* D3D11 binds vertex buffers that did not change and unbinds index        *)
(* buffers: what its render state leaves bound is retained.                *)
LEMMA D3D11StateHeld ==
    ASSUME Holding, NEW cmd, Typed(cmd), HeldCommand(cmd), cmd.id = "SetRenderState", NEW newVb, NEW newIb
    PROVE  LET r == Rebound(bound["Render"], [NewProgram("Render", cmd) EXCEPT !.vb = IF newVb THEN cmd.vb ELSE None])
           IN HeldBinding([r EXCEPT !.ib = IF newIb THEN cmd.ib ELSE r.ib])
<1> DEFINE v == IF newVb THEN cmd.vb ELSE None
           n == [NewProgram("Render", cmd) EXCEPT !.vb = v]
           r == Rebound(bound["Render"], n)
           i == IF newIb THEN cmd.ib ELSE r.ib
<1>1. Objects({v}) \subseteq retained /\ v \in OptionalBuffers
      /\ Objects({cmd.ib}) \subseteq retained /\ cmd.ib \in OptionalBuffers
  BY NoneOptional DEF HeldCommand, Objects, Typed, TypedPass
<1>2. HeldBinding(NewProgram("Render", cmd)) /\ HeldBinding(bound["Render"])
  BY ProgramHeld DEF StateIds, Holding, BoundHeld, BindPoints
<1> HIDE DEF v
<1>3. HeldBinding(n)
  BY <1>1, <1>2, FieldsHeld
<1> HIDE DEF n
<1>4. HeldBinding(r)
  BY <1>2, <1>3, Rebinds
<1> HIDE DEF r
<1>5. Objects({i}) \subseteq retained /\ i \in OptionalBuffers
  BY <1>1, <1>4 DEF HeldBinding, IsBinding, Objects
<1> HIDE DEF i
<1>6. HeldBinding([r EXCEPT !.ib = i])
  BY <1>4, <1>5, FieldsHeld
<1> QED
  BY <1>6, ZenonT(40) DEF i, r, n, v

(* The D3D11 recorder uses what is retained.                               *)
LEMMA D3D11Kept ==
    ASSUME Holding, NEW cmd, Typed(cmd), HeldCommand(cmd), D3D11!Record(cmd) \/ D3D11!Finish
    PROVE  Kept
<1>1. CASE D3D11!CmdCopyBuffer(cmd) \/ D3D11!CmdCopyTexture(cmd)
          \/ D3D11!CmdClearBuffer(cmd) \/ D3D11!CmdWriteTimestamp(cmd)
  BY <1>1, CallNames, D3D11Parts, PerformKept, ZenonT(40) DEF HeldCommand, D3D11!CmdCopyBuffer, D3D11!CmdCopyTexture,
          D3D11!CmdClearBuffer, D3D11!CmdWriteTimestamp
<1>2. CASE D3D11!CmdClearTextureFloat(cmd) \/ D3D11!CmdClearTextureUint(cmd)
          \/ D3D11!CmdClearTextureDepthStencil(cmd)
  <2>1. cmd.id = "ClearTexture" /\ (Skip \/ Perform(cmd, {cmd.dst}))
    BY <1>2, D3D11Parts, ZenonT(40) DEF D3D11!CmdClearTextureFloat, D3D11!CmdClearTextureUint,
          D3D11!CmdClearTextureDepthStencil, D3D11!ClearThrough
  <2> QED
    BY <2>1, CallNames, PerformKept, SkipKept, ZenonT(40) DEF HeldCommand
<1>3. D3D11!ClearState => BoundHeld(bound')
  <2>1. D3D11!ClearState => bound' = [b \in BindPoints |-> Unbound]
    BY D3D11Parts, ZenonT(40) DEF D3D11!ClearState, D3D11!BindPoints, BindPoints
  <2> QED
    BY <2>1, UnboundHeld, Zenon
<1>4. CASE D3D11!CmdExecuteCallback(cmd)
  <2>1. cmd.id = "ExecuteCallback" /\ D3D11!ClearState /\ executing' = Using(cmd, {cmd.userObject})
        /\ attachments' = attachments
    BY <1>4, D3D11Parts, ZenonT(40) DEF D3D11!CmdExecuteCallback
  <2>2. Objects({cmd.userObject}) \subseteq retained
    BY <2>1, CallNames DEF HeldCommand
  <2> QED
    BY <1>3, <2>1, <2>2, UsingFed DEF Kept, Holding
<1>5. CASE D3D11!CmdBeginRenderPass(cmd)
  <2> DEFINE targets == TargetNeeds(cmd.desc)
             resolves == ResolvedColors(cmd.desc)
  <2>1. cmd.id = "BeginRenderPass" /\ D3D11!ClearState
        /\ attachments' = [needs |-> targets, resolves |-> resolves]
        /\ executing' = Using(cmd, Uses(Range(targets)))
    BY <1>5, D3D11Parts, ZenonT(40) DEF D3D11!CmdBeginRenderPass
  <2>2. targets \in Seq(HeldNeeds) /\ resolves \in Seq(HeldResolved)
    BY <2>1, TargetNeedsHeld, ResolvedColorsHeld
  <2> HIDE DEF targets, resolves
  <2>3. TargetsHeld(attachments')
    BY <2>1, <2>2 DEF TargetsHeld
  <2>4. Objects(Uses(Range(targets))) \subseteq retained
    BY <2>2, UsesOfHeld DEF Objects
  <2> QED
    BY <1>3, <2>1, <2>3, <2>4, UsingFed DEF Kept
<1>6. ASSUME D3D11!LeavePass PROVE Kept
  <2>1. D3D11!ClearState /\ executing' = Nothing /\ attachments' = NoTargets
    BY <1>6, D3D11Parts DEF D3D11!LeavePass
  <2> QED
    BY <1>3, <2>1, NothingFed, NoTargetsHeld DEF Kept
<1>7. CASE D3D11!CmdEndRenderPass(cmd)
  <2> DEFINE all == UNION {{c.view.res, c.resolve.res} : c \in Range(attachments.resolves)}
  <2>1. D3D11!LeavePass \/ Perform(cmd, all)
    BY <1>7, D3D11Parts, ZenonT(40) DEF D3D11!CmdEndRenderPass
  <2>2. \A c \in Range(attachments.resolves) : c.view.res \in retained /\ c.resolve.res \in retained
    BY DEF Holding, TargetsHeld, HeldResolved, Range
  <2>3. Objects(all) \subseteq retained
    BY <2>2 DEF Objects
  <2> HIDE DEF all
  <2> QED
    BY <1>6, <2>1, <2>3, PerformKept
<1>8. CASE D3D11!CmdBeginComputePass(cmd) \/ D3D11!CmdEndComputePass(cmd)
  <2>1. BoundHeld(bound') /\ executing' = Nothing /\ attachments' = attachments
    BY <1>3, <1>8, D3D11Parts DEF D3D11!CmdBeginComputePass, D3D11!CmdEndComputePass, Holding
  <2> QED
    BY <2>1, NothingFed DEF Kept, Holding
<1>9. CASE D3D11!CmdSetRenderState(cmd)
  <2>1. CASE "Render" \notin active
    BY <1>9, <2>1, D3D11Parts, SkipKept DEF D3D11!CmdSetRenderState
  <2>2. CASE "Render" \in active
    <3> DEFINE newVb == ("Render" \notin valid) \/ cmd.vb = renderState.vb
               newIb == ("Render" \notin valid) \/ cmd.ib # renderState.ib
               r == Rebound(bound["Render"], [NewProgram("Render", cmd) EXCEPT !.vb = IF newVb THEN cmd.vb ELSE None])
               b == [r EXCEPT !.ib = IF newIb THEN cmd.ib ELSE r.ib]
    <3>1. cmd.id = "SetRenderState" /\ executing' = Nothing /\ attachments' = attachments
      BY <1>9, <2>2, D3D11Parts DEF D3D11!CmdSetRenderState
    <3>2. bound' = [bound EXCEPT !["Render"] = b]
      <4> DEFINE x == D3D11!Rebound(bound["Render"], [D3D11!NewProgram("Render", cmd) EXCEPT !.vb = IF newVb THEN cmd.vb ELSE None])
      <4>1. bound' = [bound EXCEPT !["Render"] = [x EXCEPT !.ib = IF newIb THEN cmd.ib ELSE x.ib]]
        BY <1>9, <2>2, D3D11Parts, ZenonT(40) DEF D3D11!CmdSetRenderState
      <4> HIDE DEF newVb, newIb
      <4>2. x = r
        BY D3D11Parts, Zenon
      <4> HIDE DEF x, r
      <4> QED
        BY <4>1, <4>2, Zenon
    <3> HIDE DEF newVb, newIb
    <3>3. HeldBinding(b)
      BY <3>1, D3D11StateHeld, Zenon
    <3> HIDE DEF b, r
    <3> DEFINE n == [bound EXCEPT !["Render"] = b]
    <3>4. BoundHeld(n)
      BY <3>3, OneBound DEF Holding, BindPoints
    <3>5. bound' = n
      BY <3>2
    <3> HIDE DEF n
    <3> QED
      BY <3>1, <3>4, <3>5, NothingFed DEF Kept, Holding
  <2> QED
    BY <2>1, <2>2
<1>10. CASE D3D11!CmdSetComputeState(cmd)
  <2>1. cmd.id = "SetComputeState" /\ HeldBinding(NewProgram("Compute", cmd))
    BY <1>10, ProgramHeld DEF D3D11!CmdSetComputeState, StateIds
  <2>2. CASE "Compute" \notin active
    BY <1>10, <2>2, D3D11Parts, SkipKept DEF D3D11!CmdSetComputeState
  <2>3. CASE "Compute" \in active
    <3>1. bound' = [bound EXCEPT !["Compute"] = Rebound(@, NewProgram("Compute", cmd))] /\ executing' = Nothing
          /\ attachments' = attachments
      BY <1>10, <2>3, D3D11Parts, ZenonT(40) DEF D3D11!CmdSetComputeState
    <3> QED
      BY <2>1, <3>1, BindKept, ZenonT(40) DEF BindPoints
  <2> QED
    BY <2>2, <2>3
<1>11. CASE D3D11!CmdDraw(cmd) \/ D3D11!CmdDrawIndexed(cmd) \/ D3D11!CmdDispatchCompute(cmd)
           \/ D3D11!CmdDrawIndirect(cmd) \/ D3D11!CmdDrawIndexedIndirect(cmd)
  <2>1. "Render" \in BindPoints /\ "Compute" \in BindPoints /\ <<>> \in Seq(HeldNeeds)
    BY DEF BindPoints
  <2>2. Skip \/ \E p \in {"Render", "Compute"}, needs \in Seq(HeldNeeds) : LaunchOrDrop(cmd, p, needs)
    BY <1>11, <2>1, D3D11Parts, ArgumentsHeld, BoundGeometry, Joined, ZenonT(40) DEF D3D11!CmdDraw, D3D11!CmdDrawIndexed,
          D3D11!CmdDispatchCompute, D3D11!CmdDrawIndirect, D3D11!CmdDrawIndexedIndirect, D3D11!DrawWithArguments
  <2> QED
    BY <2>1, <2>2, LaunchKept, SkipKept
<1>12. CASE D3D11!CmdDispatchComputeIndirect(cmd)
  <2>1. PICK needs \in Seq(HeldNeeds) : D3D11!Launch(cmd, "Compute", needs)
    BY <1>12, D3D11Parts, ArgumentsHeld, ZenonT(40) DEF D3D11!CmdDispatchComputeIndirect
  <2>2. Launch(cmd, "Compute", needs)
    BY <2>1, D3D11Parts, ZenonT(40) DEF D3D11!Launch, Launch, D3D11!recorder, recorder
  <2> QED
    BY <2>2, LaunchKept DEF BindPoints
<1>13. CASE D3D11!NotSupported(cmd) \/ D3D11!Finish
  BY <1>13, D3D11Parts, SkipKept, ZenonT(40) DEF D3D11!NotSupported, D3D11!Unsupported, D3D11!Finish
<1> QED
  BY <1>1, <1>2, <1>4, <1>5, <1>6, <1>7, <1>8, <1>9, <1>10, <1>11, <1>12, <1>13, ZenonT(40) DEF D3D11!Record, D3D11!Resolve

(* CUDA's binding data are those of both bind points.                      *)
LEMMA CUDABindingHeld ==
    ASSUME Holding, NEW r, HeldRoot(r)
    PROVE  /\ BoundHeld(CUDA!BindingData(r))
           /\ \A p \in {"Compute", "RayTracing"} : CUDA!BindingData(r)[p] = [bound[p] EXCEPT !.root = r]
<1> DEFINE n == CUDA!BindingData(r)
<1>1. n = [b \in BindPoints |-> IF b = "Render" THEN bound[b] ELSE [bound[b] EXCEPT !.root = r]]
  BY ZenonT(40) DEF CUDA!BindingData, CUDA!BindPoints, BindPoints
<1> HIDE DEF n
<1>2. n = [b \in BindPoints |-> n[b]]
      /\ \A b \in BindPoints : n[b] = IF b = "Render" THEN bound[b] ELSE [bound[b] EXCEPT !.root = r]
  BY <1>1
<1>3. \A b \in BindPoints : HeldBinding([bound[b] EXCEPT !.root = r])
  BY FieldsHeld DEF Holding, BoundHeld
<1>4. \A b \in BindPoints : HeldBinding(n[b])
  BY <1>2, <1>3 DEF Holding, BoundHeld
<1> QED
  BY <1>2, <1>4 DEF BoundHeld, BindPoints, n

(* What CUDA's states bind is retained.                                    *)
LEMMA CUDAStateKept ==
    ASSUME Holding, NEW cmd, Typed(cmd), HeldCommand(cmd), cmd.id \in StateIds,
           NEW p \in {"Compute", "RayTracing"}, NEW t, Objects({t}) \subseteq retained,
           TableBuffer[t] \in OptionalBuffers, CUDA!SetState(p, cmd, t)
    PROVE  Kept
<1>1. CASE p \notin active
  BY <1>1, CUDAParts, SkipKept, ZenonT(40) DEF CUDA!SetState
<1>2. CASE p \in active
  <2> DEFINE d == CUDA!BindingData(cmd.root)
             n == [d EXCEPT ![p].pipeline = cmd.pipeline, ![p].table = t]
             b == [[bound[p] EXCEPT !.root = cmd.root] EXCEPT !.pipeline = cmd.pipeline, !.table = t]
  <2>1. bound' = n /\ executing' = Nothing /\ attachments' = attachments
    BY <1>2, CUDAParts, ZenonT(40) DEF CUDA!SetState
  <2>2. cmd.root \in Roots /\ HeldRoot(cmd.root) /\ Objects({cmd.pipeline}) \subseteq retained
    BY PassNames DEF HeldCommand, Typed, TypedPass, StateIds, HeldRoot, Objects
  <2>3. BoundHeld(d) /\ d[p] = [bound[p] EXCEPT !.root = cmd.root] /\ p \in BindPoints
    BY <2>2, CUDABindingHeld DEF BindPoints
  <2>4. HeldBinding(b)
    <3>1. HeldBinding(bound[p])
      BY DEF Holding, BoundHeld, BindPoints
    <3> QED
      BY <2>2, <3>1, ReplacedHeld
  <2>5. n = [d EXCEPT ![p] = b]
    <3> HIDE DEF d
    <3> DEFINE e == d[p]
    <3>1. n = [d EXCEPT ![p] = [e EXCEPT !.pipeline = cmd.pipeline, !.table = t]]
      <4>1. DOMAIN d = BindPoints
        BY <2>3 DEF BoundHeld
      <4> QED
        BY <2>3, <4>1
    <3> HIDE DEF e
    <3>2. b = [e EXCEPT !.pipeline = cmd.pipeline, !.table = t]
      BY <2>3 DEF e
    <3> HIDE DEF b, n
    <3> QED
      BY <3>1, <3>2
  <2> HIDE DEF b, d, n
  <2> DEFINE m == [d EXCEPT ![p] = b]
  <2>6. BoundHeld(m)
    BY <2>3, <2>4, OneBound
  <2>7. bound' = m
    BY <2>1, <2>5
  <2> HIDE DEF m
  <2> QED
    BY <2>1, <2>6, <2>7, NothingFed DEF Kept, Holding
<1> QED
  BY <1>1, <1>2

(* The CUDA recorder uses what is retained, or what the stream's memory    *)
(* keeps.                                                                  *)
LEMMA CUDAKept ==
    ASSUME Holding, NEW cmd, Typed(cmd), HeldCommand(cmd), CUDA!Record(cmd) \/ CUDA!Finish
    PROVE  Kept
<1>1. CASE CUDA!CmdCopyBuffer(cmd) \/ CUDA!CmdCopyTexture(cmd)
          \/ CUDA!CmdCopyTextureToBuffer(cmd) \/ CUDA!CmdClearBuffer(cmd)
          \/ CUDA!CmdClearTexture(cmd) \/ CUDA!CmdUploadTextureData(cmd)
          \/ CUDA!CmdWriteTimestamp(cmd)
  BY <1>1, CallNames, CUDAParts, PerformKept, ZenonT(40) DEF HeldCommand, CUDA!CmdCopyBuffer, CUDA!CmdCopyTexture, CUDA!CmdCopyTextureToBuffer,
          CUDA!CmdClearBuffer, CUDA!CmdClearTexture, CUDA!CmdUploadTextureData,
          CUDA!CmdWriteTimestamp
<1>2. CASE CUDA!CmdClearTextureDepthStencil(cmd) \/ CUDA!Finish \/ CUDA!NotSupported(cmd)
  BY <1>2, CUDAParts, SkipKept, ZenonT(40) DEF CUDA!CmdClearTextureDepthStencil, CUDA!Finish, CUDA!NotSupported, CUDA!Unsupported
<1>3. ASSUME NEW objects, Objects(objects) \subseteq retained, CUDA!WithOptix(cmd, objects) PROVE Kept
  BY <1>3, CUDAParts, PerformKept, SkipKept, ZenonT(40) DEF CUDA!WithOptix
<1>4. CASE CUDA!CmdBuildAccelerationStructure(cmd)
  <2>1. Objects({cmd.dst, cmd.src, cmd.scratchBuffer} \cup cmd.inputs \cup {cmd.micromap}) \subseteq retained
    BY <1>4, CallNames DEF HeldCommand, CUDA!CmdBuildAccelerationStructure
  <2>2. Objects({cmd.dst, cmd.src, cmd.scratchBuffer, cmd.micromap} \cup cmd.inputs) \subseteq retained
    BY <2>1 DEF Objects
  <2> QED
    BY <1>3, <1>4, <2>2, ZenonT(40) DEF CUDA!CmdBuildAccelerationStructure
<1>5. CASE CUDA!CmdBuildMicromap(cmd)
          \/ CUDA!CmdCopyAccelerationStructure(cmd)
          \/ CUDA!CmdExecuteClusterOperation(cmd)
          \/ CUDA!CmdConvertCooperativeVectorMatrix(cmd)
  BY <1>3, <1>5, CallNames, ZenonT(40) DEF HeldCommand, CUDA!CmdBuildMicromap,
          CUDA!CmdCopyAccelerationStructure, CUDA!CmdExecuteClusterOperation,
          CUDA!CmdConvertCooperativeVectorMatrix
<1>6. CASE CUDA!CmdPass(cmd)
  <2>1. UNCHANGED <<bound, attachments>> /\ executing' = Nothing
    BY <1>6, CUDAParts DEF CUDA!CmdPass
  <2> QED
    BY <2>1, NothingFed DEF Kept, Holding
<1>7. CASE CUDA!CmdExecuteCallback(cmd)
  <2>1. cmd.id = "ExecuteCallback" /\ executing' = Using(cmd, {cmd.userObject})
        /\ bound' = CUDA!BindingData(None) /\ attachments' = attachments
    BY <1>7, CUDAParts, ZenonT(40) DEF CUDA!CmdExecuteCallback
  <2>2. Objects({cmd.userObject}) \subseteq retained
    BY <2>1, CallNames DEF HeldCommand
  <2>3. BoundHeld(CUDA!BindingData(None))
    BY CUDABindingHeld DEF HeldRoot
  <2>4. BoundHeld(bound')
    BY <2>1, <2>3, Zenon
  <2> QED
    BY <2>1, <2>2, <2>4, UsingFed DEF Kept, Holding
<1>8. CASE CUDA!CmdSetComputeState(cmd) \/ CUDA!CmdSetRayTracingState(cmd)
  <2>1. \/ cmd.id = "SetComputeState" /\ CUDA!SetState("Compute", cmd, None)
        \/ cmd.id = "SetRayTracingState" /\ CUDA!SetState("RayTracing", cmd, cmd.shaderTable)
    BY <1>8, ZenonT(40) DEF CUDA!CmdSetComputeState, CUDA!CmdSetRayTracingState
  <2>2. Objects({None}) \subseteq retained
    BY DEF Objects
  <2>3. cmd.id = "SetRayTracingState" =>
           Objects({cmd.shaderTable}) \subseteq retained /\ TableBuffer[cmd.shaderTable] \in OptionalBuffers
    BY PassNames DEF HeldCommand, Typed, TypedPass, Objects
  <2> QED
    BY <2>1, <2>2, <2>3, NoneOptional, CUDAStateKept DEF StateIds
<1>9. CASE CUDA!CmdDispatchCompute(cmd) \/ CUDA!CmdDispatchComputeIndirect(cmd) \/ CUDA!CmdDispatchRays(cmd)
  <2>1. "RayTracing" \in BindPoints /\ "Compute" \in BindPoints /\ <<>> \in Seq(HeldNeeds)
    BY DEF BindPoints
  <2>2. Skip \/ \E p \in {"RayTracing", "Compute"}, needs \in Seq(HeldNeeds) : LaunchOrDrop(cmd, p, needs)
    BY <1>9, <2>1, CUDAParts, ArgumentsHeld, ZenonT(40) DEF CUDA!CmdDispatchCompute, CUDA!CmdDispatchComputeIndirect,
       CUDA!CmdDispatchRays
  <2> QED
    BY <2>1, <2>2, LaunchKept, SkipKept
<1> QED
  BY <1>1, <1>2, <1>4, <1>5, <1>6, <1>7, <1>8, <1>9, ZenonT(40) DEF CUDA!Record

(* The CPU recorder uses what is retained.                                 *)
LEMMA CPUKept ==
    ASSUME Holding, NEW cmd, Typed(cmd), HeldCommand(cmd), CPU!Record(cmd) \/ CPU!Finish
    PROVE  Kept
<1>1. CASE CPU!CmdCopyBuffer(cmd) \/ CPU!CmdClearBuffer(cmd) \/ CPU!CmdResolveQuery(cmd)
          \/ CPU!CmdWriteTimestamp(cmd) \/ CPU!CmdExecuteCallback(cmd)
  BY <1>1, CallNames, CPUParts, PerformKept, ZenonT(40) DEF HeldCommand, CPU!CmdCopyBuffer, CPU!CmdClearBuffer, CPU!CmdResolveQuery,
          CPU!CmdWriteTimestamp, CPU!CmdExecuteCallback
<1>2. CASE CPU!CmdSetComputeState(cmd)
  <2> DEFINE b == [bound["Compute"] EXCEPT !.pipeline = cmd.pipeline, !.root = cmd.root]
             n == [bound EXCEPT !["Compute"] = b]
  <2>1. cmd.id = "SetComputeState" /\ executing' = Nothing /\ attachments' = attachments
        /\ bound' = [bound EXCEPT !["Compute"].pipeline = cmd.pipeline, !["Compute"].root = cmd.root]
    BY <1>2, CPUParts, ZenonT(40) DEF CPU!CmdSetComputeState
  <2>2. HeldRoot(cmd.root) /\ Objects({cmd.pipeline}) \subseteq retained
    BY <2>1, PassNames DEF HeldCommand, Typed, TypedPass, StateIds, HeldRoot, Objects
  <2>3. "Compute" \in BindPoints /\ HeldBinding(bound["Compute"]) /\ DOMAIN bound = BindPoints
    BY DEF Holding, BoundHeld, BindPoints
  <2>4. bound' = n
    BY <2>1, <2>3
  <2>5. HeldBinding(b)
    <3> DEFINE x == bound["Compute"]
    <3>1. HeldBinding(x) /\ Objects({None}) \subseteq retained
      BY <2>3 DEF Objects
    <3> HIDE DEF x
    <3>2. HeldBinding([x EXCEPT !.pipeline = cmd.pipeline, !.root = cmd.root])
      BY <2>2, <3>1, ReplacedHeld, NoneOptional
    <3> QED
      BY <3>2, ZenonT(40) DEF x
  <2> HIDE DEF b
  <2>6. BoundHeld(n)
    BY <2>3, <2>5, OneBound DEF Holding
  <2> HIDE DEF n
  <2> QED
    BY <2>1, <2>4, <2>6, NothingFed DEF Kept, Holding
<1>3. CASE CPU!CmdDispatchCompute(cmd)
  <2>1. "Compute" \in BindPoints /\ <<>> \in Seq(HeldNeeds)
    BY DEF BindPoints
  <2>2. LaunchOrDrop(cmd, "Compute", <<>>)
    BY <1>3, CPUParts, ZenonT(40) DEF CPU!CmdDispatchCompute
  <2> QED
    BY <2>1, <2>2, LaunchKept
<1>4. CASE CPU!NotSupported(cmd) \/ CPU!Finish
  BY <1>4, CPUParts, SkipKept, ZenonT(40) DEF CPU!NotSupported, CPU!Unsupported, CPU!Finish
<1> QED
  BY <1>1, <1>2, <1>3, <1>4, ZenonT(40) DEF CPU!Record

-----------------------------------------------------------------------------
(* What holds of an encoder and of the recorder that reads its list.       *)
(* The backends that track states.                                         *)
Tracked == client.backend \in {"Vulkan", "D3D12"}

(* The inductive invariant.                                                *)
RecordingInvariant ==
    /\ Encoding
    /\ Truthful
    /\ client.backend = "D3D12" => TypedResolves
    /\ ~Tracked => gpu = FreshStates
    /\ closed => gpu = FreshStates

(* A tracker that has seen nothing believes what a fresh device has.       *)
LEMMA FreshTruthful ==
    ASSUME tracker = FreshTracker, gpu = FreshStates PROVE Truthful
<1>1. IsTracker(FreshTracker)
  <2>1. \A b \in Buffers : DefaultState[b] \in StatesOf(b) /\ DefaultState[b] \in ResourceStates
    BY DefaultsAssumption, StatesTyped
  <2>2. \A x \in Textures : DefaultState[x] \in States
    BY DefaultsAssumption, StatesTyped
  <2>3. \A x \in Textures : [state |-> DefaultState[x], sub |-> <<>>] \in TextureStates(x)
    BY <2>2 DEF TextureStates
  <2> DEFINE buffers == [b \in Buffers |-> DefaultState[b]]
             textures == [x \in Textures |-> [state |-> DefaultState[x], sub |-> <<>>]]
  <2>4. buffers \in [Buffers -> ResourceStates] /\ \A b \in Buffers : buffers[b] = DefaultState[b]
    BY <2>1
  <2>5. textures \in [Textures -> UNION {TextureStates(x) : x \in Textures}]
    BY <2>3
  <2>6. \A x \in Textures : textures[x] \in TextureStates(x)
    BY <2>3
  <2>7. FreshTracker = [buffers |-> buffers, textures |-> textures, barriers |-> <<>>]
    BY DEF FreshTracker
  <2>8. HostVisible \subseteq Buffers /\ <<>> \in Seq(Owed)
    BY StateTrackingAssumption
  <2> HIDE DEF buffers, textures
  <2> QED
    BY <2>1, <2>4, <2>5, <2>6, <2>7, <2>8 DEF IsTracker
<1>2. Believed(FreshTracker) = FreshStates
  <2>1. \A r \in Resources : AtDefault(FreshTracker, r)
    BY DEF AtDefault, FreshTracker, Resources
  <2> QED
    BY <1>1, <2>1, AllAtDefault
<1>3. ApplyBarriers(FreshStates, FreshTracker.barriers) = FreshStates
  BY ApplyNone DEF FreshTracker
<1> QED
  BY <1>1, <1>2, <1>3 DEF Truthful

(* A new encoder and recorder satisfy the invariant.                       *)
LEMMA RecordingStarts == Init => RecordingInvariant
<1> SUFFICES ASSUME Init PROVE RecordingInvariant
  OBVIOUS
<1>1. tracker = FreshTracker /\ gpu = FreshStates /\ attachments = NoTargets /\ closed = FALSE
  BY DEF Init, RecorderInit
<1>2. Truthful
  BY <1>1, FreshTruthful
<1>3. TypedResolves
  <2>1. attachments.resolves = <<>> /\ <<>> \in Seq(ResolvedTargets)
    BY <1>1 DEF NoTargets
  <2> QED
    BY <2>1 DEF TypedResolves
<1>4. TypedState
  <2>1. state = [b \in BindPoints |-> Unbound] /\ pipelineBound = {}
    BY DEF Init
  <2>2. None \in OptionalBuffers
    BY DEF OptionalBuffers, Maybe
  <2> QED
    BY <2>1, <2>2 DEF TypedState, Unbound
<1>5. TypedList /\ PassesEnd
  <2>1. list = <<>> /\ Len(<<>>) = 0 /\ <<>> \in Seq({})
    BY DEF Init
  <2>2. list \in Seq(Range(list))
    BY <2>1, OwnRange
  <2> QED
    BY <2>1, <2>2 DEF TypedList, PassesEnd
<1>6. Encoding
  BY <1>1, <1>4, <1>5 DEF Init, Encoding
<1> QED
  BY <1>1, <1>2, <1>3, <1>6 DEF RecordingInvariant

(* A call of the client that keeps the encoding and leaves the recorder    *)
(* alone keeps the invariant.                                              *)
LEMMA CallsRecordNothing ==
    ASSUME RecordingInvariant, Encoding', UNCHANGED <<client, recorder, device, closed>>
    PROVE  RecordingInvariant'
<1>1. UNCHANGED <<tracker, attachments, gpu>>
  BY DEF recorder, device
<1>2. Truthful'
  BY <1>1, Untouched DEF RecordingInvariant
<1> QED
  BY <1>1, <1>2 DEF RecordingInvariant, TypedResolves, Tracked

(* Recording the next command of the list keeps the invariant, on each     *)
(* backend.                                                                *)
LEMMA RecordsNext ==
    ASSUME RecordingInvariant, RecordNext, writing = {},
           UNCHANGED <<retained, encoder, debugLayer, finished, calls>>
    PROVE  RecordingInvariant'
<1> DEFINE cmd == Head(list)
<1>1. list # <<>> /\ list' = Rest /\ closed' = closed /\ Encoding
      /\ UNCHANGED <<client, writing, state, passState, pipelineBound, finished>>
  BY DEF RecordNext, RecordingInvariant, encoder, debugLayer
<1>2. TypedList' /\ PassesEnd'
  BY <1>1, RestEncodes
<1>3. ~closed
  BY <1>1 DEF Encoding
<1>4. Encoding'
  BY <1>1, <1>2, <1>3 DEF Encoding, TypedState
<1>5. Typed(cmd) /\ TypedList /\ cmd = list[1] /\ 1 \in 1..Len(list)
  BY <1>1 DEF Encoding, TypedList
<1>6. cmd.id = "BeginRenderPass" => Ends
  <2>1. passState # "Render"
    BY <1>1 DEF Encoding, BindPoints
  <2> QED
    BY <1>1, <1>5, <2>1 DEF Encoding, PassesEnd
<1> HIDE DEF cmd
<1>7. CASE client.backend = "Vulkan"
  <2>1. Vulkan!Record(cmd)
    BY <1>7 DEF RecordNext, cmd
  <2>2. Truthful'
    BY <1>5, <1>6, <2>1, VulkanTruthful DEF RecordingInvariant
  <2> QED
    BY <1>1, <1>3, <1>4, <1>7, <2>2 DEF RecordingInvariant, Tracked
<1>8. CASE client.backend = "D3D12"
  <2>1. D3D12!Record(cmd)
    BY <1>8 DEF RecordNext, cmd
  <2>2. Truthful' /\ TypedResolves'
    BY <1>5, <1>8, <2>1, D3D12Truthful, D3D12Resolves DEF RecordingInvariant
  <2> QED
    BY <1>1, <1>3, <1>4, <1>8, <2>2 DEF RecordingInvariant, Tracked
<1>9. CASE ~Tracked
  <2>1. WGPU!Record(cmd) \/ Metal!Record(cmd) \/ D3D11!Record(cmd) \/ CUDA!Record(cmd) \/ CPU!Record(cmd)
    BY <1>9 DEF RecordNext, cmd, Tracked
  <2>2. UNCHANGED <<tracker, gpu>>
    BY <2>1, WGPUUntouched, MetalUntouched, D3D11Untouched, CUDAUntouched, CPUUntouched
  <2>3. Truthful'
    BY <2>2, Untouched DEF RecordingInvariant
  <2> QED
    BY <1>1, <1>3, <1>4, <1>9, <2>2, <2>3 DEF RecordingInvariant, Tracked
<1> QED
  BY <1>7, <1>8, <1>9 DEF Tracked

(* Finishing a command buffer keeps the invariant and, on every backend,   *)
(* leaves the states a fresh device has.                                   *)
LEMMA FinishesRecording ==
    ASSUME RecordingInvariant, FinishRecording, writing = {},
           UNCHANGED <<retained, encoder, debugLayer, finished, calls>>
    PROVE  RecordingInvariant'
<1>1. list = <<>> /\ list' = list /\ finished /\ closed' = TRUE /\ Encoding
      /\ UNCHANGED <<client, writing, state, passState, pipelineBound, finished>>
  BY DEF FinishRecording, RecordingInvariant, encoder, debugLayer
<1>2. Encoding'
  BY <1>1 DEF Encoding, TypedState, TypedList, PassesEnd, Ends
<1>3. CASE client.backend = "Vulkan"
  <2>1. Truthful' /\ gpu' = FreshStates
    BY <1>3, VulkanFinishes DEF FinishRecording, RecordingInvariant
  <2> QED
    BY <1>1, <1>2, <1>3, <2>1 DEF RecordingInvariant, Tracked
<1>4. CASE client.backend = "D3D12"
  <2>1. D3D12!Finish
    BY <1>4 DEF FinishRecording
  <2>2. Truthful' /\ gpu' = FreshStates
    BY <2>1, D3D12Finishes DEF RecordingInvariant
  <2> DEFINE cmd == [id |-> "WriteTimestamp"]
  <2>3. Typed(cmd)
    BY FreeTyped DEF Unconstrained
  <2>4. TypedResolves'
    BY <1>4, <2>1, <2>3, D3D12Resolves DEF RecordingInvariant
  <2> QED
    BY <1>1, <1>2, <1>4, <2>2, <2>4 DEF RecordingInvariant, Tracked
<1>5. CASE ~Tracked
  <2>1. WGPU!Finish \/ Metal!Finish \/ D3D11!Finish \/ CUDA!Finish \/ CPU!Finish
    BY <1>5 DEF FinishRecording, Tracked
  <2>2. UNCHANGED <<tracker, gpu>>
    BY <2>1, WGPUUntouched, MetalUntouched, D3D11Untouched, CUDAUntouched, CPUUntouched
  <2>3. Truthful'
    BY <2>2, Untouched DEF RecordingInvariant
  <2> QED
    BY <1>1, <1>2, <1>5, <2>2, <2>3 DEF RecordingInvariant, Tracked
<1> QED
  BY <1>3, <1>4, <1>5 DEF Tracked

(* Every step of the client, the encoder and the recorder keeps the        *)
(* invariant.                                                              *)
LEMMA RecordingInductive == RecordingInvariant /\ [Next]_vars => RecordingInvariant'
<1> SUFFICES ASSUME RecordingInvariant, [Next]_vars PROVE RecordingInvariant'
  OBVIOUS
<1>1. Encoding
  BY DEF RecordingInvariant
<1>2. CASE \E cmd \in client.calls : Command(cmd)
  <2>1. Encoding'
    BY <1>1, <1>2, CommandsEncode
  <2>2. UNCHANGED <<client, recorder, device, closed>>
    BY <1>2 DEF Command, encoder
  <2> QED
    BY <2>1, <2>2, CallsRecordNothing
<1>3. CASE \E pool \in client.queryPools : Timestamp(pool)
  <2>1. Encoding'
    BY <1>1, <1>3, TimestampsEncode
  <2>2. UNCHANGED <<client, recorder, device, closed>>
    BY <1>3 DEF Timestamp, encoder
  <2> QED
    BY <2>1, <2>2, CallsRecordNothing
<1>4. CASE RenderPass \/ ComputePass \/ RayTracingPass
  <2>1. Encoding'
    BY <1>1, <1>4, PassCallsEncode
  <2>2. UNCHANGED <<client, recorder, device, closed>>
    <3>1. \/ \E b, cmd : BeginPass(b, cmd)
          \/ \E b : PassCall(b)
      BY <1>4, ZenonT(40) DEF RenderPass, ComputePass, RayTracingPass, BeginRenderPass, BeginComputePass,
         BeginRayTracingPass, BindPipeline, SetRenderState, Draw, DrawIndexed, DrawMeshTasks, DrawIndirect,
         DrawIndexedIndirect, DispatchCompute, DispatchComputeIndirect, DispatchRays, LaunchCall
    <3> QED
      BY <3>1 DEF BeginPass, PassCall
  <2> QED
    BY <2>1, <2>2, CallsRecordNothing
<1>5. CASE \E b \in BindPoints : EndPass(b)
  <2>1. Encoding'
    BY <1>1, <1>5, PassesClose
  <2>2. UNCHANGED <<client, recorder, device, closed>>
    BY <1>5 DEF EndPass
  <2> QED
    BY <2>1, <2>2, CallsRecordNothing
<1>6. CASE Finish
  <2>1. Encoding'
    BY <1>1, <1>6 DEF Finish, encoder, debugLayer, RequireNoPass, Encoding, TypedState, TypedList, PassesEnd, Ends
  <2>2. UNCHANGED <<client, recorder, device, closed>>
    BY <1>6 DEF Finish, encoder
  <2> QED
    BY <2>1, <2>2, CallsRecordNothing
<1>7. CASE Record
  BY <1>7, RecordsNext, FinishesRecording DEF Record
<1>8. CASE UNCHANGED vars
  <2>1. Encoding'
    BY <1>1, <1>8 DEF vars, encoder, debugLayer, Encoding, TypedState, TypedList, PassesEnd, Ends
  <2>2. UNCHANGED <<client, recorder, device, closed>>
    BY <1>8 DEF vars, encoder
  <2> QED
    BY <2>1, <2>2, CallsRecordNothing
<1> QED
  BY <1>2, <1>3, <1>4, <1>5, <1>6, <1>7, <1>8 DEF Next

(* For every set of resources, textures of every shape, bindings, targets  *)
(* and client: the commands in the list are well formed and no render pass *)
(* in it lacks its end while it is read, and the tracker of Vulkan and     *)
(* D3D12 knows what the GPU will have.                                     *)
THEOREM RecordingInvariantHolds == Spec => []RecordingInvariant
  BY RecordingStarts, RecordingInductive, PTL DEF Spec

(* The states a recorder believes its resources to be in are those the GPU *)
(* is in once it has executed what is recorded and what the tracker still  *)
(* owes: no barrier is lost, applied to the wrong subresource or recorded  *)
(* against a state the resource is not in (state-tracking.h,               *)
(* commitBarriers of vk-command.cpp and d3d12-command.cpp).                *)
THEOREM TrackerAlwaysTruthful == Spec => []TrackerTruthful
<1>1. RecordingInvariant => TrackerTruthful
  BY DEF RecordingInvariant, Truthful, TrackerTruthful
<1> QED
  BY <1>1, RecordingInvariantHolds, PTL

(* A command buffer that is closed leaves every resource in its default    *)
(* state, from which the next command buffer's fresh tracker starts        *)
(* (requireDefaultStates at the end of the record functions).              *)
THEOREM DefaultsAlwaysRestored == Spec => []DefaultsRestored
<1>1. RecordingInvariant => DefaultsRestored
  BY DEF RecordingInvariant, DefaultsRestored
<1> QED
  BY <1>1, RecordingInvariantHolds, PTL

-----------------------------------------------------------------------------
(* What the client gives away is retained until the GPU is done with it.   *)

(* What the commands of the list use is retained.                          *)
HeldList == \A i \in 1..Len(list) : HeldCommand(list[i])

(* So are the buffers of the render state that the next draw will write.   *)
HeldGeometry == Objects({state["Render"].vb, state["Render"].ib}) \subseteq retained

(* The inductive invariant: whatever is in the list, set in a pass, bound  *)
(* on the GPU, targeted by the open pass or executing is retained; and the *)
(* shader table bound is the one remembered.                               *)
Retaining ==
    /\ HeldList /\ HeldGeometry
    /\ Holding /\ Fed(executing)
    /\ Tracked => BoundTable

(* What was retained still is.                                             *)
LEMMA HeldStill ==
    ASSUME retained \subseteq retained', client' = client
    PROVE  /\ \A cmd : HeldCommand(cmd) => HeldCommand(cmd)'
           /\ Holding /\ UNCHANGED <<bound, attachments>> => Holding'
           /\ Fed(executing) /\ executing' = executing => Fed(executing)'
<1>1. ASSUME NEW cmd, HeldCommand(cmd) PROVE HeldCommand(cmd)'
  BY <1>1 DEF HeldCommand, HeldThrough
<1>2. ASSUME Holding, UNCHANGED <<bound, attachments>> PROVE Holding'
  <2>1. bound = [b \in BindPoints |-> bound[b]] /\ \A b \in BindPoints : HeldBinding(bound[b])
    BY <1>2 DEF Holding, BoundHeld
  <2>2. ASSUME NEW b \in BindPoints PROVE HeldBinding(bound[b])'
    <3>1. HeldBinding(bound[b])
      BY <2>1
    <3> QED
      BY <1>2, <3>1 DEF HeldBinding, IsBinding, HeldThrough
  <2>3. BoundHeld(bound)'
    BY <1>2, <2>1, <2>2 DEF BoundHeld
  <2>4. HeldNeeds \subseteq HeldNeeds' /\ HeldResolved \subseteq HeldResolved'
    BY DEF HeldNeeds, HeldResolved
  <2>5. attachments.needs \in Seq(HeldNeeds) /\ attachments.resolves \in Seq(HeldResolved)
    BY <1>2 DEF Holding, TargetsHeld
  <2>6. TargetsHeld(attachments)'
    BY <1>2, <2>4, <2>5 DEF TargetsHeld
  <2> QED
    BY <2>3, <2>6 DEF Holding
<1>3. ASSUME Fed(executing), executing' = executing PROVE Fed(executing)'
  BY <1>3 DEF Fed, Streamed
<1> QED
  BY <1>1, <1>2, <1>3

(* A call of the client that keeps what its commands and its state name.   *)
LEMMA CallsRetain ==
    ASSUME Retaining, HeldList', HeldGeometry', retained \subseteq retained',
           UNCHANGED <<client, recorder, device>>
    PROVE  Retaining'
<1>1. UNCHANGED <<bound, attachments, executing, valid, table>>
  BY DEF recorder, device
<1>2. Holding' /\ Fed(executing)'
  BY <1>1, HeldStill DEF Retaining
<1>3. Tracked' => BoundTable'
  BY <1>1 DEF Retaining, Tracked, BoundTable
<1> QED
  BY <1>2, <1>3 DEF Retaining

(* What is retained by commands appended to the list.                      *)
LEMMA ListHeld ==
    ASSUME TypedList, HeldList, retained \subseteq retained', client' = client,
           NEW X, NEW cmds \in Seq(X), \A i \in 1..Len(cmds) : Typed(cmds[i]) /\ HeldCommand(cmds[i])',
           list' = list \o cmds
    PROVE  HeldList'
<1>1. /\ Len(list) \in Nat /\ Len(cmds) \in Nat /\ Len(list') = Len(list) + Len(cmds)
      /\ \A i \in 1..Len(list) : list'[i] = list[i]
      /\ \A i \in 1..Len(cmds) : list'[Len(list) + i] = cmds[i]
      /\ \A i \in 1..Len(list') : i \in 1..Len(list) \/ \E j \in 1..Len(cmds) : i = Len(list) + j
  BY ListGrows
<1>2. ASSUME NEW i \in 1..Len(list') PROVE HeldCommand(list[i])'
  <2>1. CASE i \in 1..Len(list)
    <3>1. HeldCommand(list[i]) /\ list'[i] = list[i]
      BY <1>1, <2>1 DEF HeldList
    <3> DEFINE c == list[i]
    <3>2. HeldCommand(c)
      BY <3>1
    <3> QED
      BY <3>1, <3>2 DEF HeldCommand, HeldThrough
  <2>2. CASE \E j \in 1..Len(cmds) : i = Len(list) + j
    <3>1. PICK j \in 1..Len(cmds) : list'[i] = cmds[j]
      BY <1>1, <2>2
    <3>2. HeldCommand(cmds[j])'
      OBVIOUS
    <3> QED
      BY <3>1, <3>2 DEF HeldCommand
  <2> QED
    BY <1>1, <2>1, <2>2
<1> QED
  BY <1>2 DEF HeldList

(* A write retains what its commands name.                                 *)
LEMMA WritesRetain ==
    ASSUME NEW cmd, Write(<<cmd>>)
    PROVE  retained \subseteq retained' /\ RetainedBy(cmd) \subseteq retained' /\ list' = list \o <<cmd>>
<1>1. Range(<<cmd>>) = {cmd}
  BY DEF Range
<1> QED
  BY <1>1 DEF Write

(* One command that is written and names nothing through others.           *)
LEMMA OneRetained ==
    ASSUME Encoding, Retaining, NEW cmd, Typed(cmd), Write(<<cmd>>), UNCHANGED <<client, recorder, device>>,
           cmd.id \notin StateIds \cup {"Converted"}, state'["Render"] = state["Render"],
           cmd.id = "WriteTimestamp" => cmd.queryPool # None
    PROVE  Retaining'
<1>1. retained \subseteq retained' /\ RetainedBy(cmd) \subseteq retained' /\ list' = list \o <<cmd>>
  BY WritesRetain
<1>2. cmd.id = "WriteTimestamp" => cmd.queryPool \in retained'
  BY <1>1, CallNames DEF Objects
<1>3. HeldCommand(cmd)'
  BY <1>1, <1>2 DEF HeldCommand, StateIds
<1> DEFINE cmds == <<cmd>>
<1>4. cmds \in Seq({cmd}) /\ \A i \in 1..Len(cmds) : Typed(cmds[i]) /\ cmds[i] = cmd
  OBVIOUS
<1>5. \A i \in 1..Len(cmds) : HeldCommand(cmds[i])'
  BY <1>3, <1>4 DEF HeldCommand
<1>6. list' = list \o cmds
  BY <1>1
<1> HIDE DEF cmds
<1>7. HeldList'
  BY <1>1, <1>4, <1>5, <1>6, ListHeld DEF Encoding, Retaining
<1>8. HeldGeometry'
  BY <1>1 DEF Retaining, HeldGeometry
<1> QED
  BY <1>1, <1>7, <1>8, CallsRetain

(* A launch, alone or after the state it needs.                            *)
LEMMA LaunchRetained ==
    ASSUME Encoding, Retaining, NEW l, NEW s, NEW cmds \in Seq({l, s}), NEW root,
           Typed(l), l.id \notin StateIds \cup {"Converted", "WriteTimestamp"},
           Typed(s), s.id \in StateIds, s.root = root,
           s.id = "SetRenderState" => Objects({s.vb, s.ib}) \subseteq retained,
           list' = list \o cmds, UNCHANGED <<client, recorder, device, state>>,
           retained' = retained \cup HeldThrough(root) \cup UNION {RetainedBy(c) : c \in Range(cmds)}
    PROVE  Retaining'
<1>1. retained \subseteq retained' /\ HeldThrough(root) \subseteq retained'
      /\ \A c \in Range(cmds) : RetainedBy(c) \subseteq retained'
  OBVIOUS
<1>2. \A i \in 1..Len(cmds) : (cmds[i] = l \/ cmds[i] = s) /\ cmds[i] \in Range(cmds)
  BY DEF Range
<1>3. HeldThrough(s.root)' \subseteq retained'
  BY <1>1 DEF HeldThrough
<1>4. ASSUME NEW c \in Range(cmds), c = l \/ c = s PROVE Typed(c) /\ HeldCommand(c)'
  <2>1. RetainedBy(c) \subseteq retained'
    BY <1>1
  <2>2. CASE c = l
    BY <2>1, <2>2 DEF HeldCommand, StateIds
  <2>3. CASE c = s
    <3>1. c.id \notin {"Converted", "WriteTimestamp"}
      BY <2>3 DEF StateIds
    <3>2. c.id = "SetRenderState" => Objects({c.vb, c.ib}) \subseteq retained'
      BY <1>1, <2>3
    <3>3. HeldThrough(c.root)' \subseteq retained'
      BY <1>3, <2>3
    <3> QED
      BY <2>1, <2>3, <3>1, <3>2, <3>3 DEF HeldCommand
  <2> QED
    BY <1>4, <2>2, <2>3
<1>5. \A i \in 1..Len(cmds) : Typed(cmds[i]) /\ HeldCommand(cmds[i])'
  <2>1. ASSUME NEW i \in 1..Len(cmds) PROVE Typed(cmds[i]) /\ HeldCommand(cmds[i])'
    <3> DEFINE c == cmds[i]
    <3>1. c \in Range(cmds) /\ (c = l \/ c = s)
      BY <1>2
    <3> HIDE DEF c
    <3>2. Typed(c) /\ HeldCommand(c)'
      BY <1>4, <3>1
    <3> QED
      BY <3>2 DEF c
  <2> QED
    BY <2>1
<1>6. HeldList'
  BY <1>1, <1>5, ListHeld DEF Encoding, Retaining
<1>7. HeldGeometry'
  BY <1>1 DEF Retaining, HeldGeometry
<1> QED
  BY <1>1, <1>6, <1>7, CallsRetain

(* A draw, dispatch or ray launch retains what its root object needs       *)
(* besides what its commands name (command-buffer.cpp).                    *)
LEMMA LaunchesRetain ==
    ASSUME Encoding, Retaining, NEW b \in BindPoints, NEW indexed, NEW cmd, LaunchCall(b, indexed, cmd), TypedLaunch(cmd)
    PROVE  Retaining'
<1>1. UNCHANGED <<client, recorder, device, state>> /\ b \in pipelineBound
  BY DEF LaunchCall, PassCall
<1> DEFINE launch(failed) == [id |-> cmd.id, argBuffer |-> cmd.argBuffer, countBuffer |-> cmd.countBuffer,
                              known |-> cmd.known, asked |-> asked, failed |-> failed]
           all(failed) == IF failed THEN <<launch(failed)>> ELSE <<StateCommand(b), launch(failed)>>
<1>2. PICK failed \in BOOLEAN :
         /\ list' = list \o all(failed)
         /\ retained' = retained \cup HeldThrough(state[b].root) \cup UNION {RetainedBy(c) : c \in Range(all(failed))}
  BY ZenonT(40) DEF LaunchCall, WriteLaunch
<1>3. PICK l, s, root, cmds : /\ l = launch(failed) /\ s = StateCommand(b) /\ root = state[b].root
                              /\ cmds = IF failed THEN <<l>> ELSE <<s, l>>
  OBVIOUS
<1>4. /\ list' = list \o cmds
      /\ retained' = retained \cup HeldThrough(root) \cup UNION {RetainedBy(c) : c \in Range(cmds)}
  BY <1>2, <1>3
<1>5. Typed(l) /\ l.id \notin StateIds \cup {"Converted", "WriteTimestamp"}
  BY <1>3 DEF TypedLaunch, Typed, TypedTransfer, TypedBuild, TypedPass, StateIds
<1> HIDE DEF launch, all
<1>6. Typed(s)
  <2>1. /\ state[b].vb \in OptionalBuffers /\ state[b].ib \in OptionalBuffers
        /\ state[b].root \in Roots /\ TableBuffer[state[b].table] \in OptionalBuffers
    BY <1>1 DEF Encoding, TypedState
  <2> QED
    BY <1>3, <2>1 DEF BindPoints, StateCommand, Typed, TypedTransfer, TypedBuild, TypedPass
<1>7. /\ s.root = root /\ s.id \in StateIds
      /\ s.id = "SetRenderState" => b = "Render" /\ s.vb = state[b].vb /\ s.ib = state[b].ib
  BY <1>3 DEF BindPoints, StateCommand, StateIds
<1>8. s.id = "SetRenderState" => Objects({s.vb, s.ib}) \subseteq retained
  BY <1>7 DEF Retaining, HeldGeometry
<1>9. cmds \in Seq({l, s})
  <2>1. <<l>> \in Seq({l, s}) /\ <<s, l>> \in Seq({l, s})
    OBVIOUS
  <2> QED
    BY <1>3, <2>1, Zenon
<1> QED
  BY <1>1, <1>4, <1>5, <1>6, <1>7, <1>8, <1>9, LaunchRetained

(* Setting the state of a pass retains its buffers right away: the command *)
(* that carries it later does not.                                         *)
LEMMA StatesRetain ==
    ASSUME Encoding, Retaining,
           (\E b \in BindPoints : \E p, t : BindPipeline(b, p, t)) \/ (\E vb, ib : SetRenderState(vb, ib))
    PROVE  Retaining'
<1>1. UNCHANGED <<client, recorder, device, list>> /\ retained \subseteq retained'
  BY DEF BindPipeline, SetRenderState, PassCall
<1>2. HeldList'
  <2>1. ASSUME NEW i \in 1..Len(list) PROVE HeldCommand(list[i])'
    <3>1. HeldCommand(list[i])
      BY DEF Retaining, HeldList
    <3> QED
      BY <1>1, <3>1 DEF HeldCommand, HeldThrough
  <2> QED
    BY <1>1, <2>1 DEF HeldList
<1>3. state = [b \in BindPoints |-> state[b]] /\ "Render" \in BindPoints
      /\ DOMAIN state["Render"] = {"pipeline", "root", "table", "vb", "ib"}
  BY DEF Encoding, TypedState, BindPoints
<1>4. HeldGeometry'
  <2>1. CASE \E b \in BindPoints : \E p, t : BindPipeline(b, p, t)
    <3>1. PICK b \in BindPoints : \E p, t : BindPipeline(b, p, t)
      BY <2>1
    <3>2. PICK p, t : BindPipeline(b, p, t)
      BY <3>1
    <3>3. state'["Render"].vb = state["Render"].vb /\ state'["Render"].ib = state["Render"].ib
      BY <1>3, <3>2 DEF BindPipeline
    <3> QED
      BY <1>1, <3>3 DEF Retaining, HeldGeometry
  <2>2. CASE \E vb, ib : SetRenderState(vb, ib)
    <3>1. PICK vb, ib : SetRenderState(vb, ib)
      BY <2>2
    <3>2. state'["Render"].vb = vb /\ state'["Render"].ib = ib
      BY <1>3, <3>1 DEF SetRenderState
    <3>3. Objects({vb, ib}) \subseteq retained'
      BY <3>1 DEF SetRenderState, RetainedWithState
    <3> QED
      BY <3>2, <3>3 DEF HeldGeometry
  <2> QED
    BY <2>1, <2>2
<1> QED
  BY <1>1, <1>2, <1>4, CallsRetain

(* Each of the three calls that begin a pass retains its targets.          *)
LEMMA BeginningsRetain ==
    ASSUME Encoding, Retaining,
           (\E desc \in client.targets : BeginRenderPass(desc)) \/ BeginComputePass \/ BeginRayTracingPass
    PROVE  Retaining'
<1>1. ASSUME NEW b, NEW cmd, BeginPass(b, cmd), Typed(cmd),
             cmd.id \in {"BeginRenderPass", "BeginComputePass", "BeginRayTracingPass"}
      PROVE  Retaining'
  <2>1. Write(<<cmd>>) /\ UNCHANGED <<client, recorder, device, state>>
    BY <1>1 DEF BeginPass
  <2> QED
    BY <1>1, <2>1, OneRetained DEF StateIds
<1>2. CASE \E desc \in client.targets : BeginRenderPass(desc)
  <2>1. PICK desc \in client.targets : BeginRenderPass(desc)
    BY <1>2
  <2> DEFINE cmd == [id |-> "BeginRenderPass", desc |-> desc]
  <2>2. desc \in RenderTargets
    BY <2>1, CommandEncoderAssumption DEF Encoding
  <2>3. Typed(cmd) /\ cmd.id = "BeginRenderPass"
    BY <2>2 DEF Typed, TypedTransfer, TypedBuild, TypedPass
  <2>4. BeginPass("Render", cmd)
    BY <2>1 DEF BeginRenderPass
  <2> HIDE DEF cmd
  <2> QED
    BY <1>1, <2>3, <2>4
<1>3. CASE BeginComputePass
  <2> DEFINE cmd == [id |-> "BeginComputePass"]
  <2>1. BeginPass("Compute", cmd) /\ Typed(cmd) /\ cmd.id = "BeginComputePass"
    BY <1>3, FreeTyped DEF BeginComputePass, Unconstrained
  <2> HIDE DEF cmd
  <2> QED
    BY <1>1, <2>1
<1>4. CASE BeginRayTracingPass
  <2> DEFINE cmd == [id |-> "BeginRayTracingPass"]
  <2>1. BeginPass("RayTracing", cmd) /\ Typed(cmd) /\ cmd.id = "BeginRayTracingPass"
    BY <1>4, FreeTyped DEF BeginRayTracingPass, Unconstrained
  <2> HIDE DEF cmd
  <2> QED
    BY <1>1, <2>1
<1> QED
  BY <1>2, <1>3, <1>4

(* Every call inside a pass retains what it gives away.                    *)
LEMMA PassCallsRetain ==
    ASSUME Encoding, Retaining, RenderPass \/ ComputePass \/ RayTracingPass PROVE Retaining'
  BY PassCallKinds, BeginningsRetain, StatesRetain, LaunchesRetain, Zenon

(* Commands that name nothing.                                             *)
LEMMA NamesNothing ==
    ASSUME NEW cmd, cmd.id \in {"Converted", "Resolve", "Draw"} PROVE RetainedBy(cmd) = {}
  BY DEF RetainedBy, RetainedByTransfer, RetainedByPass, RetainedByBuild, RetainedByOther, Objects

(* Recording the head of the list leaves a list that is retained: the      *)
(* second halves of two commands name nothing that the first do not.       *)
LEMMA RestHeld ==
    ASSUME TypedList, HeldList, list # <<>>, list' = Rest, retained' = retained, client' = client
    PROVE  HeldList'
<1> DEFINE cmd == list[1]
           n == Len(list)
<1>1. n \in Nat /\ n >= 1 /\ Head(list) = cmd /\ Typed(cmd) /\ list \in Seq(Range(list)) /\ HeldCommand(cmd)
  BY DEF TypedList, HeldList
<1>2. /\ Tail(list) \in Seq(Range(list)) /\ Len(Tail(list)) = n - 1
      /\ \A i \in 1..(n - 1) : Tail(list)[i] = list[i + 1] /\ i + 1 \in 1..n
  BY <1>1
<1>3. \A i \in 1..(n - 1) : HeldCommand(Tail(list)[i])
  BY <1>2 DEF HeldList
<1>4. ASSUME NEW s, \A i \in 1..Len(s) : HeldCommand(s[i]), list' = s PROVE HeldList'
  BY <1>4 DEF HeldList, HeldCommand, HeldThrough
<1>5. CASE list' = Tail(list)
  <2>1. PICK s : s = Tail(list)
    OBVIOUS
  <2>2. \A i \in 1..Len(s) : HeldCommand(s[i])
    BY <1>2, <1>3, <2>1
  <2> QED
    BY <1>4, <1>5, <2>1, <2>2
<1>6. ASSUME NEW new, HeldCommand(new), list' = <<new>> \o Tail(list) PROVE HeldList'
  <2> DEFINE X == Range(list) \cup {new}
             t == <<new>> \o Tail(list)
  <2>1. <<new>> \in Seq(X) /\ Tail(list) \in Seq(X) /\ Len(<<new>>) = 1 /\ <<new>>[1] = new
    BY <1>1, <1>2
  <2> HIDE DEF X
  <2>2. Len(t) = n /\ t[1] = new /\ \A i \in 2..n : t[i] = Tail(list)[i - 1] /\ i - 1 \in 1..(n - 1)
    BY <1>1, <1>2, <2>1
  <2>3. PICK s : s = t
    OBVIOUS
  <2> HIDE DEF t
  <2>4. \A i \in 1..Len(s) : HeldCommand(s[i])
    <3>1. ASSUME NEW i \in 1..Len(s) PROVE HeldCommand(s[i])
      <4>1. CASE i = 1
        BY <1>6, <2>2, <2>3, <4>1
      <4>2. CASE i # 1
        <5>1. i \in 2..n
          BY <1>1, <2>2, <2>3, <4>2
        <5> QED
          BY <1>3, <2>2, <2>3, <5>1
      <4> QED
        BY <4>1, <4>2
    <3> QED
      BY <3>1
  <2> QED
    BY <1>4, <1>6, <2>3, <2>4 DEF t
<1>7. CASE cmd.id = "ConvertCooperativeVectorMatrix"
  <2>1. list' = <<[cmd EXCEPT !.id = "Converted"]>> \o Tail(list)
    BY <1>1, <1>7 DEF Rest
  <2>2. cmd = [id |-> cmd.id, dst |-> cmd.dst, src |-> cmd.src] /\ cmd.dst \in PlainBuffers
    BY <1>1, <1>7 DEF Typed, TypedBuild
  <2>3. PICK new : new = [id |-> "Converted", dst |-> cmd.dst, src |-> cmd.src]
    OBVIOUS
  <2>4. list' = <<new>> \o Tail(list)
    BY <2>1, <2>2, <2>3
  <2>5. new.id = "Converted" /\ new.dst = cmd.dst
    BY <2>3
  <2>6. cmd.dst \in retained
    <3>1. RetainedBy(cmd) = Objects({cmd.dst, cmd.src})
      BY <1>7, CallNames
    <3>2. cmd.dst # None
      BY <2>2, PlainStates DEF PlainBuffers
    <3> QED
      BY <1>1, <3>1, <3>2 DEF HeldCommand, Objects
  <2>7. RetainedBy(new) = {}
    BY <2>5, NamesNothing
  <2>8. HeldCommand(new)
    BY <2>5, <2>6, <2>7 DEF HeldCommand, StateIds
  <2> QED
    BY <1>6, <2>4, <2>8
<1>8. CASE cmd.id = "EndRenderPass" /\ attachments.resolves # <<>>
  <2>1. list' = <<[cmd EXCEPT !.id = "Resolve"]>> \o Tail(list)
    BY <1>1, <1>8 DEF Rest
  <2>2. cmd = [id |-> "EndRenderPass"]
    BY <1>1, <1>8 DEF Typed, TypedPass
  <2>3. PICK new : new = [id |-> "Resolve"]
    OBVIOUS
  <2>4. list' = <<new>> \o Tail(list) /\ new.id = "Resolve"
    BY <2>1, <2>2, <2>3
  <2>5. RetainedBy(new) = {}
    BY <2>4, NamesNothing
  <2>6. HeldCommand(new)
    BY <2>4, <2>5 DEF HeldCommand, StateIds
  <2> QED
    BY <1>6, <2>4, <2>6
<1>9. CASE /\ cmd.id # "ConvertCooperativeVectorMatrix"
           /\ ~(cmd.id = "EndRenderPass" /\ attachments.resolves # <<>>)
  <2>1. list' = Tail(list)
    BY <1>1, <1>9 DEF Rest
  <2> QED
    BY <1>5, <2>1
<1> QED
  BY <1>7, <1>8, <1>9

(* On every backend, what a recorder leaves bound and targeted and what it *)
(* executes is retained.                                                   *)
LEMMA RecorderSupplied ==
    ASSUME Holding, Tracked => BoundTable, NEW cmd, Typed(cmd), HeldCommand(cmd),
           \/ client.backend = "Vulkan" /\ (Vulkan!Record(cmd) \/ Vulkan!Finish)
           \/ client.backend = "D3D12" /\ (D3D12!Record(cmd) \/ D3D12!Finish)
           \/ client.backend = "WGPU" /\ (WGPU!Record(cmd) \/ WGPU!Finish)
           \/ client.backend = "Metal" /\ (Metal!Record(cmd) \/ Metal!Finish)
           \/ client.backend = "D3D11" /\ (D3D11!Record(cmd) \/ D3D11!Finish)
           \/ client.backend = "CUDA" /\ (CUDA!Record(cmd) \/ CUDA!Finish)
           \/ client.backend = "CPU" /\ (CPU!Record(cmd) \/ CPU!Finish)
    PROVE  /\ Supplied /\ (Tracked => BoundTable')
           /\ client.backend # "Vulkan" => ~executing'.barred
<1>1. CASE client.backend = "Vulkan"
  BY <1>1, VulkanKept DEF Tracked
<1>2. CASE client.backend = "D3D12"
  BY <1>2, D3D12Kept, KeptSupplied DEF Tracked, Kept
<1>3. CASE ~Tracked
  <2>1. Kept
    BY <1>3, WGPUKept, MetalKept, D3D11Kept, CUDAKept, CPUKept DEF Tracked
  <2> QED
    BY <1>3, <2>1, KeptSupplied DEF Tracked, Kept
<1> QED
  BY <1>1, <1>2, <1>3 DEF Tracked

(* Seen from after the step.                                               *)
LEMMA SuppliedAfter ==
    ASSUME Supplied, UNCHANGED <<retained, client>> PROVE Holding' /\ Fed(executing)'
<1>1. BoundHeld(bound)'
  BY DEF Supplied, BoundHeld, HeldBinding, IsBinding, HeldThrough
<1>2. TargetsHeld(attachments)'
  BY DEF Supplied, TargetsHeld, HeldNeeds, HeldResolved
<1>3. Fed(executing)'
  BY DEF Supplied, Fed, Streamed
<1> QED
  BY <1>1, <1>2, <1>3 DEF Holding

(* Recording the next command, or finishing, keeps it so.                  *)
LEMMA RecordsRetain ==
    ASSUME RecordingInvariant, Retaining, Record PROVE Retaining'
<1>1. Encoding /\ Holding /\ (Tracked => BoundTable) /\ UNCHANGED <<retained, client, state>>
  BY DEF RecordingInvariant, Retaining, Record, encoder
<1>2. HeldGeometry'
  BY <1>1 DEF Retaining, HeldGeometry
<1>3. ASSUME NEW cmd, Typed(cmd), HeldCommand(cmd),
             \/ client.backend = "Vulkan" /\ (Vulkan!Record(cmd) \/ Vulkan!Finish)
             \/ client.backend = "D3D12" /\ (D3D12!Record(cmd) \/ D3D12!Finish)
             \/ client.backend = "WGPU" /\ (WGPU!Record(cmd) \/ WGPU!Finish)
             \/ client.backend = "Metal" /\ (Metal!Record(cmd) \/ Metal!Finish)
             \/ client.backend = "D3D11" /\ (D3D11!Record(cmd) \/ D3D11!Finish)
             \/ client.backend = "CUDA" /\ (CUDA!Record(cmd) \/ CUDA!Finish)
             \/ client.backend = "CPU" /\ (CPU!Record(cmd) \/ CPU!Finish)
      PROVE  Holding' /\ Fed(executing)' /\ (Tracked' => BoundTable')
  <2>1. Supplied /\ (Tracked => BoundTable')
    BY <1>1, <1>3, RecorderSupplied
  <2>2. Holding' /\ Fed(executing)'
    BY <1>1, <2>1, SuppliedAfter
  <2> QED
    BY <1>1, <2>1, <2>2 DEF Tracked
<1>4. CASE RecordNext
  <2>1. list # <<>> /\ list' = Rest
    BY <1>4 DEF RecordNext
  <2>2. HeldList'
    BY <1>1, <2>1, RestHeld DEF Encoding, Retaining
  <2>3. PICK cmd : cmd = Head(list)
    OBVIOUS
  <2>4. Typed(cmd) /\ HeldCommand(cmd)
    <3>1. list \in Seq(Range(list)) /\ Len(list) >= 1 /\ Len(list) \in Nat
      BY <1>1, <2>1 DEF Encoding, TypedList
    <3>2. cmd = list[1] /\ 1 \in 1..Len(list)
      BY <2>3, <3>1
    <3> QED
      BY <1>1, <3>2 DEF Encoding, TypedList, Retaining, HeldList
  <2>5. Holding' /\ Fed(executing)' /\ (Tracked' => BoundTable')
    BY <1>3, <1>4, <2>3, <2>4 DEF RecordNext
  <2> QED
    BY <1>2, <2>2, <2>5 DEF Retaining
<1>5. CASE FinishRecording
  <2>1. list' = <<>>
    BY <1>5 DEF FinishRecording
  <2>2. HeldList'
    BY <2>1 DEF HeldList
  <2> DEFINE cmd == [id |-> "Draw"]
  <2>3. Typed(cmd)
    BY FreeTyped DEF Unconstrained
  <2>4. RetainedBy(cmd) = {} /\ cmd.id = "Draw"
    BY NamesNothing
  <2>5. HeldCommand(cmd)
    BY <2>4 DEF HeldCommand, StateIds
  <2> HIDE DEF cmd
  <2>6. Holding' /\ Fed(executing)' /\ (Tracked' => BoundTable')
    BY <1>3, <1>5, <2>3, <2>5 DEF FinishRecording
  <2> QED
    BY <1>2, <2>2, <2>6 DEF Retaining
<1> QED
  BY <1>4, <1>5 DEF Record

(* A new encoder has nothing to retain.                                    *)
LEMMA RetainingStarts == Init => Retaining
<1> SUFFICES ASSUME Init PROVE Retaining
  OBVIOUS
<1>1. /\ list = <<>> /\ retained = {} /\ valid = {} /\ attachments = NoTargets /\ executing = Nothing
      /\ bound = [b \in BindPoints |-> Unbound] /\ state = [b \in BindPoints |-> Unbound]
  BY DEF Init, RecorderInit
<1>2. HeldList
  BY <1>1 DEF HeldList
<1>3. HeldGeometry
  BY <1>1 DEF HeldGeometry, BindPoints, Unbound, Objects
<1>4. Holding /\ Fed(executing)
  BY <1>1, UnboundHeld, NoTargetsHeld, NothingFed DEF Holding
<1>5. BoundTable
  BY <1>1 DEF BoundTable
<1> QED
  BY <1>2, <1>3, <1>4, <1>5 DEF Retaining

(* Every step of the client, the encoder and the recorder keeps what is in *)
(* use retained.                                                           *)
LEMMA RetainingInductive == RecordingInvariant /\ Retaining /\ [Next]_vars => Retaining'
<1> SUFFICES ASSUME RecordingInvariant, Retaining, [Next]_vars PROVE Retaining'
  OBVIOUS
<1>1. Encoding /\ client \in Clients
  BY DEF RecordingInvariant, Encoding
<1>2. CASE \E cmd \in client.calls : Command(cmd)
  <2>1. PICK cmd \in client.calls : Command(cmd)
    BY <1>2
  <2>2. IsCall(cmd)
    BY <1>1, <2>1, CommandEncoderAssumption
  <2>3. cmd.id \notin StateIds \cup {"Converted", "WriteTimestamp"}
    BY <2>2 DEF IsCall, Transfers, Builds, StateChanges, StateIds
  <2>4. Write(<<cmd>>) /\ UNCHANGED <<client, recorder, device, state>>
    BY <2>1 DEF Command, encoder
  <2> QED
    BY <1>1, <2>2, <2>3, <2>4, CallTyped, OneRetained
<1>3. CASE \E pool \in client.queryPools : Timestamp(pool)
  <2>1. PICK pool \in client.queryPools : Timestamp(pool)
    BY <1>3
  <2> DEFINE cmd == WriteTimestamp(pool)
  <2>2. Write(<<cmd>>) /\ UNCHANGED <<client, recorder, device, state>>
    BY <2>1 DEF Timestamp, encoder
  <2>3. Typed(cmd) /\ cmd.id = "WriteTimestamp" /\ cmd.queryPool = pool
    BY FreeTyped DEF WriteTimestamp, Unconstrained
  <2>4. pool # None
    BY <1>1, <2>1, CommandEncoderAssumption
  <2> HIDE DEF cmd
  <2> QED
    BY <1>1, <2>2, <2>3, <2>4, OneRetained DEF StateIds
<1>4. CASE RenderPass \/ ComputePass \/ RayTracingPass
  BY <1>1, <1>4, PassCallsRetain
<1>5. CASE \E b \in BindPoints : EndPass(b)
  <2>1. PICK b \in BindPoints : EndPass(b)
    BY <1>5
  <2> DEFINE cmd == [id |-> EndCommand[b]]
  <2>2. Write(<<cmd>>) /\ UNCHANGED <<client, recorder, device, state>>
    BY <2>1 DEF EndPass
  <2>3. cmd.id \in {"EndRenderPass", "EndComputePass", "EndRayTracingPass"}
    BY DEF EndCommand, BindPoints
  <2>4. Typed(cmd)
    <3>1. CASE cmd.id = "EndRenderPass"
      BY <3>1 DEF Typed, TypedTransfer, TypedBuild, TypedPass
    <3>2. CASE cmd.id # "EndRenderPass"
      BY <2>3, <3>2, FreeTyped DEF Unconstrained
    <3> QED
      BY <3>1, <3>2
  <2> HIDE DEF cmd
  <2> QED
    BY <1>1, <2>2, <2>3, <2>4, OneRetained DEF StateIds
<1>6. CASE Finish \/ UNCHANGED vars
  <2>1. UNCHANGED <<list, retained, client, state, recorder, device>>
    BY <1>6 DEF Finish, vars, encoder
  <2>2. HeldList' /\ HeldGeometry'
    BY <2>1 DEF Retaining, HeldList, HeldCommand, HeldThrough, HeldGeometry
  <2> QED
    BY <2>1, <2>2, CallsRetain
<1>7. CASE Record
  BY <1>7, RecordsRetain
<1> QED
  BY <1>2, <1>3, <1>4, <1>5, <1>6, <1>7 DEF Next

(* On every backend, whatever a command gives the GPU to use, by its       *)
(* arguments, through the root object bound, as geometry, shader table,    *)
(* pipeline or target of the open pass, is retained by the command buffer  *)
(* until it is reset, so that the client may let go of it right after the  *)
(* call; with CUDA, buffers of the device that are bound are kept by the   *)
(* stream instead (m_trackedObjects, retainResource() in command-list.cpp  *)
(* and command-buffer.cpp).                                                *)
THEOREM UsesAlwaysRetained == Spec => []UsesRetained
<1>1. Retaining => UsesRetained
  BY DEF Retaining, UsesRetained, Fed, Streamed, StreamOrdered
<1>2. Init => RecordingInvariant /\ Retaining
  BY RecordingStarts, RetainingStarts
<1>3. (RecordingInvariant /\ Retaining) /\ [Next]_vars => (RecordingInvariant /\ Retaining)'
  BY RecordingInductive, RetainingInductive
<1> QED
  BY <1>1, <1>2, <1>3, PTL DEF Spec

-----------------------------------------------------------------------------
(* Vulkan's barriers stay out of render passes.                            *)

(* What there may be between the beginning of a render pass and its end.   *)
PassIds == {"SetRenderState", "Draw", "DrawIndexed", "DrawIndirect", "DrawIndexedIndirect", "DrawMeshTasks",
            "WriteTimestamp", "EndRenderPass"}

IndirectDraws == {"DrawIndirect", "DrawIndexedIndirect"}

(* A command that is not of a render pass leaves it alone and, outside of  *)
(* one, has no barriers in one.                                            *)
Outside(cmd) ==
    /\ cmd.id \notin PassIds
    /\ "Render" \in active' => "Render" \in active
    /\ "Render" \notin active => ~executing'.barred

(* Once the barriers are committed none is left.                           *)
LEMMA NoneLeft ==
    ASSUME NEW t, Vulkan!CommitBarriers(t), "barriers" \in DOMAIN tracker'
    PROVE  tracker'.barriers = <<>>
  BY DEF Vulkan!CommitBarriers

(* A command that is performed has barriers in a pass if it is in one.     *)
LEMMA PerformsOutside ==
    ASSUME NEW cmd, NEW needs, Vulkan!Perform(cmd, needs), cmd.id \notin PassIds
    PROVE  Outside(cmd)
<1>1. PICK t : executing' = [Executing(cmd, needs) EXCEPT !.barred = Vulkan!Barred(t)] /\ active' = active
  BY VulkanParts, ZenonT(40) DEF Vulkan!Perform
<1>2. "barred" \in DOMAIN Executing(cmd, needs)
  BY DEF Executing, Nothing
<1>3. executing'.barred = Vulkan!Barred(t)
  BY <1>1, <1>2
<1> QED
  BY <1>1, <1>3 DEF Outside, Vulkan!Barred

(* One that records nothing has none.                                      *)
LEMMA QuietOutside ==
    ASSUME NEW cmd, ~executing'.barred, active' = active, cmd.id \notin PassIds
    PROVE  Outside(cmd)
  BY DEF Outside

(* What has no barriers in a pass.                                         *)
LEMMA Unbarred ==
    /\ ~Nothing.barred
    /\ \A x, y : ~[Nothing EXCEPT !.id = x, !.uses = y].barred
    /\ \A x, y, z : ~[Nothing EXCEPT !.id = x, !.asked = y, !.failed = z].barred
    /\ \A cmd, needs : ~Executing(cmd, needs).barred
  BY DEF Nothing, Executing

(* A draw or dispatch has barriers in a pass if it requires states and     *)
(* some are not there.                                                     *)
LEMMA LaunchBarred ==
    ASSUME NEW cmd, NEW p, NEW required, NEW touched, Vulkan!Launch(cmd, p, required, touched)
    PROVE  /\ active' = active
           /\ executing'.id = cmd.id
           /\ executing'.barred = Vulkan!Barred(Require(tracker, required))
           /\ Vulkan!CommitBarriers(Require(tracker, required))
<1> DEFINE e == Launching(cmd, p, required \o touched)
           x == Vulkan!Barred(Require(tracker, required))
<1>1. /\ active' = active /\ executing' = [e EXCEPT !.barred = x]
      /\ Vulkan!CommitBarriers(Require(tracker, required))
  BY VulkanParts, VulkanRequire, ZenonT(40) DEF Vulkan!Launch
<1>2. "barred" \in DOMAIN e /\ "id" \in DOMAIN e /\ e.id = cmd.id
  BY DEF Launching, Executing, Nothing
<1> HIDE DEF e, x
<1>3. executing'.barred = x /\ executing'.id = cmd.id
  BY <1>1, <1>2
<1> QED
  BY <1>1, <1>3 DEF x

(* Nothing required changes nothing.                                       *)
LEMMA RequireNothing == ASSUME NEW t PROVE Require(t, <<>>) = t
<1> DEFINE none == <<>>
<1>1. none \in Seq(Needs) /\ Len(none) = 0
  OBVIOUS
<1> HIDE DEF none
<1>2. PICK f : /\ f = [n \in 0..Len(none) |-> IF n = 0 THEN t ELSE RequireState(f[n - 1], none[n])]
               /\ Require(t, none) = f[Len(none)]
  BY <1>1, RequireFold
<1>3. f[0] = t
  BY <1>1, <1>2
<1> QED
  BY <1>1, <1>2, <1>3 DEF none

(* Copies, clears, uploads, queries and what is built are not of a render  *)
(* pass.                                                                   *)
LEMMA VulkanOutside ==
    ASSUME NEW cmd,
           \/ Vulkan!CmdCopyBuffer(cmd) \/ Vulkan!CmdCopyTexture(cmd) \/ Vulkan!CmdCopyTextureToBuffer(cmd)
           \/ Vulkan!CmdClearBuffer(cmd) \/ Vulkan!CmdClearTexture(cmd) \/ Vulkan!CmdUploadTextureData(cmd)
           \/ Vulkan!CmdResolveQuery(cmd)
           \/ Vulkan!CmdBuildAccelerationStructure(cmd) \/ Vulkan!CmdBuildMicromap(cmd)
           \/ Vulkan!CmdCopyAccelerationStructure(cmd) \/ Vulkan!CmdExecuteClusterOperation(cmd)
           \/ Vulkan!CmdConvertCooperativeVectorMatrix(cmd) \/ Vulkan!Converted(cmd)
           \/ Vulkan!CmdSetState(cmd) \/ Vulkan!CmdGlobalBarrier(cmd) \/ Vulkan!CmdExecuteCallback(cmd)
           \/ Vulkan!CmdPass(cmd) \/ Vulkan!CmdSetComputeState(cmd) \/ Vulkan!CmdSetRayTracingState(cmd)
    PROVE  Outside(cmd)
<1>1. ASSUME Vulkan!Skip \/ (executing' = Nothing /\ active' = active), cmd.id \notin PassIds
      PROVE  Outside(cmd)
  BY <1>1, VulkanParts, Unbarred, QuietOutside DEF Skip, recorder
<1>2. CASE \/ Vulkan!CmdCopyBuffer(cmd) \/ Vulkan!CmdCopyTexture(cmd) \/ Vulkan!CmdCopyTextureToBuffer(cmd)
           \/ Vulkan!CmdClearBuffer(cmd) \/ Vulkan!CmdClearTexture(cmd) \/ Vulkan!CmdUploadTextureData(cmd)
           \/ Vulkan!CmdResolveQuery(cmd)
  <2>1. \E needs : Vulkan!Perform(cmd, needs)
    BY <1>2, ZenonT(40) DEF Vulkan!CmdCopyBuffer, Vulkan!CmdCopyTexture, Vulkan!CmdCopyTextureToBuffer,
       Vulkan!CmdClearBuffer, Vulkan!CmdClearTexture, Vulkan!CmdUploadTextureData, Vulkan!CmdResolveQuery
  <2>2. cmd.id \in {"CopyBuffer", "CopyTexture", "CopyTextureToBuffer", "ClearBuffer", "ClearTexture",
                    "UploadTextureData", "ResolveQuery"}
    BY <1>2, ZenonT(40) DEF Vulkan!CmdCopyBuffer, Vulkan!CmdCopyTexture, Vulkan!CmdCopyTextureToBuffer,
       Vulkan!CmdClearBuffer, Vulkan!CmdClearTexture, Vulkan!CmdUploadTextureData, Vulkan!CmdResolveQuery
  <2>3. cmd.id \notin PassIds
    BY <2>2 DEF PassIds
  <2> QED
    BY <2>1, <2>3, PerformsOutside
<1>3. CASE \/ Vulkan!CmdBuildAccelerationStructure(cmd) \/ Vulkan!CmdBuildMicromap(cmd)
           \/ Vulkan!CmdCopyAccelerationStructure(cmd) \/ Vulkan!CmdExecuteClusterOperation(cmd)
           \/ Vulkan!CmdConvertCooperativeVectorMatrix(cmd) \/ Vulkan!Converted(cmd)
  <2>1. Vulkan!Skip \/ (executing' = Nothing /\ active' = active) \/ \E needs : Vulkan!Perform(cmd, needs)
    BY <1>3, VulkanParts, ZenonT(40) DEF Vulkan!CmdBuildAccelerationStructure, Vulkan!CmdBuildMicromap,
       Vulkan!CmdCopyAccelerationStructure, Vulkan!CmdExecuteClusterOperation,
       Vulkan!CmdConvertCooperativeVectorMatrix, Vulkan!Converted, Vulkan!Quietly
  <2>2. cmd.id \in {"BuildAccelerationStructure", "BuildMicromap", "CopyAccelerationStructure",
                    "ExecuteClusterOperation", "ConvertCooperativeVectorMatrix", "Converted"}
    BY <1>3, ZenonT(40) DEF Vulkan!CmdBuildAccelerationStructure, Vulkan!CmdBuildMicromap,
       Vulkan!CmdCopyAccelerationStructure, Vulkan!CmdExecuteClusterOperation,
       Vulkan!CmdConvertCooperativeVectorMatrix, Vulkan!Converted
  <2>3. cmd.id \notin PassIds
    BY <2>2 DEF PassIds
  <2> QED
    BY <1>1, <2>1, <2>3, PerformsOutside
<1>4. CASE Vulkan!CmdSetState(cmd) \/ Vulkan!CmdGlobalBarrier(cmd)
  <2>1. Vulkan!Skip \/ (executing' = Nothing /\ active' = active)
    BY <1>4, VulkanParts, ZenonT(40) DEF Vulkan!CmdSetState, Vulkan!CmdGlobalBarrier, Vulkan!Quietly
  <2>2. cmd.id \notin PassIds
    BY <1>4 DEF Vulkan!CmdSetState, Vulkan!CmdGlobalBarrier, PassIds
  <2> QED
    BY <1>1, <2>1, <2>2
<1>5. CASE Vulkan!CmdExecuteCallback(cmd)
  <2>1. \E x, y : executing' = [Nothing EXCEPT !.id = x, !.uses = y]
    BY <1>5, VulkanParts, ZenonT(40) DEF Vulkan!CmdExecuteCallback
  <2>2. cmd.id \notin PassIds /\ active' = active
    BY <1>5 DEF Vulkan!CmdExecuteCallback, PassIds
  <2> QED
    BY <2>1, <2>2, Unbarred, QuietOutside
<1>6. CASE Vulkan!CmdPass(cmd)
  <2>1. cmd.id \notin PassIds /\ ("Render" \in active' => "Render" \in active)
    BY <1>6 DEF Vulkan!CmdPass, PassIds
  <2>2. executing' = Nothing
    BY <1>6, VulkanParts, ZenonT(40) DEF Vulkan!CmdPass
  <2> QED
    BY <2>1, <2>2, Unbarred DEF Outside
<1>7. CASE Vulkan!CmdSetComputeState(cmd) \/ Vulkan!CmdSetRayTracingState(cmd)
  <2>1. cmd.id \in {"SetComputeState", "SetRayTracingState"}
    BY <1>7, ZenonT(40) DEF Vulkan!CmdSetComputeState, Vulkan!CmdSetRayTracingState
  <2>2. Vulkan!Skip \/ active' = active
    BY <1>7, ZenonT(40) DEF Vulkan!CmdSetComputeState, Vulkan!CmdSetRayTracingState
  <2>3. Vulkan!Skip \/ executing' = Nothing
    BY <1>7, VulkanParts, ZenonT(40) DEF Vulkan!CmdSetComputeState, Vulkan!CmdSetRayTracingState, Vulkan!Quietly
  <2>4. cmd.id \notin PassIds
    BY <2>1 DEF PassIds
  <2> QED
    BY <1>1, <2>2, <2>3, <2>4
<1> QED
  BY <1>2, <1>3, <1>4, <1>5, <1>6, <1>7

(* What is left of a render pass once the barriers before it are recorded. *)
PassGoesOn(cmd) ==
    /\ executing'.barred => executing'.id \in IndirectDraws
    /\ "Render" \in active' =>
          /\ tracker'.barriers = <<>>
          /\ cmd.id = "BeginRenderPass" \/ ("Render" \in active /\ cmd.id # "EndRenderPass")

(* Draws, too, leave nothing owed in a pass: only those that take their    *)
(* arguments from a buffer require a state there.                          *)
LEMMA VulkanDrawsUnbarred ==
    ASSUME NEW cmd, "barriers" \in DOMAIN tracker',
           "Render" \in active => tracker.barriers = <<>> /\ cmd.id \in PassIds,
           \/ Vulkan!CmdDraw(cmd) \/ Vulkan!CmdDrawIndexed(cmd) \/ Vulkan!CmdDrawIndirect(cmd)
           \/ Vulkan!CmdDrawIndexedIndirect(cmd) \/ Vulkan!CmdDrawMeshTasks(cmd)
           \/ Vulkan!CmdDispatchCompute(cmd) \/ Vulkan!CmdDispatchComputeIndirect(cmd)
           \/ Vulkan!CmdDispatchRays(cmd)
    PROVE  PassGoesOn(cmd)
<1>1. cmd.id # "EndRenderPass"
  BY DEF Vulkan!CmdDraw, Vulkan!CmdDrawIndexed, Vulkan!CmdDrawIndirect, Vulkan!CmdDrawIndexedIndirect,
     Vulkan!CmdDrawMeshTasks, Vulkan!CmdDispatchCompute, Vulkan!CmdDispatchComputeIndirect, Vulkan!CmdDispatchRays
<1>2. ASSUME NEW p, NEW required, NEW touched, Vulkan!Launch(cmd, p, required, touched),
             required = <<>> \/ cmd.id \in IndirectDraws \/ "Render" \notin active
      PROVE  PassGoesOn(cmd)
  <2>1. /\ active' = active /\ executing'.id = cmd.id
        /\ executing'.barred = Vulkan!Barred(Require(tracker, required))
        /\ Vulkan!CommitBarriers(Require(tracker, required))
    BY <1>2, LaunchBarred
  <2>2. tracker'.barriers = <<>>
    BY <2>1, NoneLeft
  <2>3. executing'.barred => cmd.id \in IndirectDraws
    <3>1. CASE required = <<>>
      BY <2>1, <3>1, RequireNothing DEF Vulkan!Barred
    <3>2. CASE "Render" \notin active
      BY <2>1, <3>2 DEF Vulkan!Barred
    <3> QED
      BY <1>2, <3>1, <3>2
  <2> QED
    BY <1>1, <2>1, <2>2, <2>3 DEF PassGoesOn
<1>3. ASSUME Vulkan!Skip \/ Vulkan!Dropped(cmd) PROVE PassGoesOn(cmd)
  <2>1. UNCHANGED <<tracker, active>> /\ ~executing'.barred
    BY <1>3, VulkanParts, Unbarred DEF Skip, Dropped, recorder
  <2> QED
    BY <1>1, <2>1 DEF PassGoesOn
<1>4. CASE Vulkan!CmdDraw(cmd) \/ Vulkan!CmdDrawIndexed(cmd) \/ Vulkan!CmdDrawMeshTasks(cmd)
           \/ Vulkan!CmdDispatchCompute(cmd) \/ Vulkan!CmdDispatchRays(cmd)
  <2>1. Vulkan!Skip \/ Vulkan!Dropped(cmd) \/ \E p, touched : Vulkan!Launch(cmd, p, <<>>, touched)
    BY <1>4, ZenonT(40) DEF Vulkan!CmdDraw, Vulkan!CmdDrawIndexed, Vulkan!CmdDrawMeshTasks,
       Vulkan!CmdDispatchCompute, Vulkan!CmdDispatchRays, Vulkan!LaunchOrDrop
  <2> QED
    BY <1>2, <1>3, <2>1
<1>5. CASE Vulkan!CmdDrawIndirect(cmd) \/ Vulkan!CmdDrawIndexedIndirect(cmd) \/ Vulkan!CmdDispatchComputeIndirect(cmd)
  <2>1. Vulkan!Dropped(cmd) \/ \E p, required, touched : Vulkan!Launch(cmd, p, required, touched)
    BY <1>5, ZenonT(40) DEF Vulkan!CmdDrawIndirect, Vulkan!CmdDrawIndexedIndirect, Vulkan!CmdDispatchComputeIndirect,
       Vulkan!LaunchOrDrop
  <2>2. cmd.id \in IndirectDraws \cup {"DispatchComputeIndirect"}
    BY <1>5, ZenonT(40) DEF Vulkan!CmdDrawIndirect, Vulkan!CmdDrawIndexedIndirect, Vulkan!CmdDispatchComputeIndirect,
       IndirectDraws
  <2>3. cmd.id \in IndirectDraws \/ "Render" \notin active
    BY <2>2 DEF IndirectDraws, PassIds
  <2> QED
    BY <1>2, <1>3, <2>1, <2>3
<1> QED
  BY <1>4, <1>5

(* Vulkan records no barriers in a render pass but those of draws that     *)
(* take their arguments from a buffer, owes none there, and is in a pass   *)
(* from its beginning to its end.                                          *)
LEMMA VulkanUnbarred ==
    ASSUME NEW cmd, Vulkan!Record(cmd), "barriers" \in DOMAIN tracker',
           "Render" \in active => tracker.barriers = <<>> /\ cmd.id \in PassIds
    PROVE  PassGoesOn(cmd)
<1>1. ASSUME Outside(cmd) PROVE PassGoesOn(cmd)
  BY <1>1 DEF Outside, PassGoesOn
<1>2. CASE Vulkan!CmdWriteTimestamp(cmd)
  <2>1. UNCHANGED <<tracker, active>> /\ cmd.id # "EndRenderPass"
    BY <1>2 DEF Vulkan!CmdWriteTimestamp, Vulkan!recorder
  <2>2. \E x, y : executing' = [Nothing EXCEPT !.id = x, !.uses = y]
    BY <1>2, VulkanParts, ZenonT(40) DEF Vulkan!CmdWriteTimestamp
  <2> QED
    BY <2>1, <2>2, Unbarred DEF PassGoesOn
<1>3. CASE Vulkan!CmdBeginRenderPass(cmd)
  <2>1. /\ cmd.id = "BeginRenderPass" /\ \E needs : executing' = Executing(cmd, needs)
        /\ \E t : Vulkan!CommitBarriers(t)
    BY <1>3, VulkanParts, ZenonT(40) DEF Vulkan!CmdBeginRenderPass
  <2> QED
    BY <2>1, NoneLeft, Unbarred DEF PassGoesOn
<1>4. CASE Vulkan!CmdEndRenderPass(cmd)
  <2>1. executing' = Nothing /\ "Render" \notin active'
    BY <1>4, VulkanParts DEF Vulkan!CmdEndRenderPass
  <2> QED
    BY <2>1, Unbarred DEF PassGoesOn
<1>5. CASE Vulkan!CmdSetRenderState(cmd)
  <2>1. cmd.id = "SetRenderState" /\ UNCHANGED <<tracker, active>>
    BY <1>5, VulkanParts, ZenonT(40) DEF Vulkan!CmdSetRenderState, Skip, recorder
  <2>2. executing' = Nothing
    BY <1>5, VulkanParts, ZenonT(40) DEF Vulkan!CmdSetRenderState, Skip
  <2> QED
    BY <2>1, <2>2, Unbarred DEF PassGoesOn
<1> QED
  BY <1>1, <1>2, <1>3, <1>4, <1>5, VulkanOutside, VulkanDrawsUnbarred, ZenonT(40) DEF Vulkan!Record

(* The list begins with a render pass, and ends with the end of one.       *)
Begins == list # <<>> /\ list[1].id = "BeginRenderPass"
Closes == list # <<>> /\ list[Len(list)].id = "EndRenderPass"

(* The rest of the inductive invariant: a render pass is alone in the      *)
(* list, from its beginning until its end is recorded, and nothing is owed *)
(* in it.                                                                  *)
OnePass ==
    /\ Begins =>
          /\ passState = "Render" \/ (passState = "NoPass" /\ Closes)
          /\ \A i \in 2..Len(list) : list[i].id \in PassIds
    /\ client.backend = "Vulkan" /\ "Render" \in active =>
          /\ passState = "NoPass" /\ Closes
          /\ \A i \in 1..Len(list) : list[i].id \in PassIds
          /\ tracker.barriers = <<>>

(* A step that leaves the list alone.                                      *)
LEMMA OnePassStill ==
    ASSUME OnePass, UNCHANGED <<list, passState, client, active, tracker>> PROVE OnePass'
  BY DEF OnePass, Begins, Closes

(* What the client writes in a pass, or when nothing is left to record.    *)
LEMMA OnePassGrows ==
    ASSUME TypedList, OnePass, NEW X, NEW cmds \in Seq(X), cmds # <<>>, list' = list \o cmds,
           \A i \in 1..Len(cmds) : /\ cmds[i].id # "BeginRenderPass"
                                   /\ passState = "Render" => cmds[i].id \in PassIds,
           list = <<>> \/ passState # "NoPass",
           passState' = passState \/ (passState' = "NoPass" /\ cmds[Len(cmds)].id = "EndRenderPass"),
           UNCHANGED <<client, active>>
    PROVE  OnePass'
<1> DEFINE n == Len(list)
           m == Len(cmds)
           Y == Range(list) \cup X
<1>1. ~(client.backend = "Vulkan" /\ "Render" \in active)
  BY DEF OnePass, Closes
<1>2. list \in Seq(Y) /\ cmds \in Seq(Y)
  BY DEF TypedList
<1> HIDE DEF Y
<1>3. /\ n \in Nat /\ m \in Nat /\ m >= 1 /\ Len(list') = n + m
      /\ \A i \in 1..n : list'[i] = list[i]
      /\ \A i \in (n + 1)..(n + m) : i - n \in 1..m /\ list'[i] = cmds[i - n]
  BY <1>2
<1>4. list = <<>> <=> n = 0
  BY <1>2
<1>5. list' # <<>>
  BY <1>3
<1> HIDE DEF n, m
<1>6. CASE ~Begins
  <2>1. list'[1].id # "BeginRenderPass"
    <3>1. CASE n = 0
      BY <1>3, <3>1 DEF m
    <3>2. CASE n # 0
      <4>1. 1 \in 1..n
        BY <1>3, <3>2
      <4> QED
        BY <1>3, <1>4, <1>6, <3>2, <4>1 DEF Begins
    <3> QED
      BY <3>1, <3>2
  <2> QED
    BY <1>1, <2>1 DEF OnePass, Begins
<1>7. CASE Begins
  <2>1. passState = "Render" /\ \A i \in 2..n : list[i].id \in PassIds
    BY <1>7 DEF OnePass, Begins, n
  <2>2. ASSUME NEW i \in 2..(n + m) PROVE list'[i].id \in PassIds
    <3>1. CASE i \in 2..n
      <4>1. i \in 1..n
        BY <1>3, <3>1
      <4> QED
        BY <1>3, <2>1, <3>1, <4>1
    <3>2. CASE i \notin 2..n
      <4>1. i \in (n + 1)..(n + m)
        BY <1>3, <3>2
      <4> QED
        BY <1>3, <2>1, <4>1 DEF m
    <3> QED
      BY <3>1, <3>2
  <2>3. passState' = "Render" \/ (passState' = "NoPass" /\ list'[Len(list')].id = "EndRenderPass")
    <3>1. CASE passState' = passState
      BY <2>1, <3>1
    <3>2. CASE passState' = "NoPass" /\ cmds[m].id = "EndRenderPass"
      <4>1. n + m \in (n + 1)..(n + m) /\ (n + m) - n = m
        BY <1>3
      <4> QED
        BY <1>3, <3>2, <4>1
    <3> QED
      BY <3>1, <3>2 DEF m
  <2> QED
    BY <1>1, <1>3, <1>5, <2>2, <2>3 DEF OnePass, Begins, Closes
<1> QED
  BY <1>6, <1>7

(* A single command that the client writes.                                *)
LEMMA OnePassWrites ==
    ASSUME TypedList, OnePass, NEW cmd, list' = list \o <<cmd>>,
           cmd.id # "BeginRenderPass", passState = "Render" => cmd.id \in PassIds,
           list = <<>> \/ passState # "NoPass",
           passState' = passState \/ (passState' = "NoPass" /\ cmd.id = "EndRenderPass"),
           UNCHANGED <<client, active>>
    PROVE  OnePass'
<1> DEFINE cmds == <<cmd>>
<1>1. /\ cmds \in Seq({cmd}) /\ cmds # <<>> /\ Len(cmds) = 1
      /\ \A i \in 1..Len(cmds) : cmds[i] = cmd
  OBVIOUS
<1>2. list' = list \o cmds
  OBVIOUS
<1> HIDE DEF cmds
<1>3. cmds[Len(cmds)] = cmd
  BY <1>1
<1> QED
  BY <1>1, <1>2, <1>3, OnePassGrows

(* What the calls of a pass write.                                         *)
LEMMA PassCallIds ==
    ASSUME RenderPass \/ ComputePass \/ RayTracingPass
    PROVE  \/ \E b \in BindPoints : \E cmd : BeginPass(b, cmd) /\ (cmd.id = "BeginRenderPass" => b = "Render")
           \/ \E b \in BindPoints : \E p, t : BindPipeline(b, p, t)
           \/ \E vb, ib : SetRenderState(vb, ib)
           \/ \E b \in BindPoints : \E indexed, cmd :
                 /\ LaunchCall(b, indexed, cmd)
                 /\ cmd.id # "BeginRenderPass" /\ (b = "Render" => cmd.id \in PassIds)
<1> DEFINE Begun == \E b \in BindPoints : \E cmd : BeginPass(b, cmd) /\ (cmd.id = "BeginRenderPass" => b = "Render")
           BoundTo == \E b \in BindPoints : \E p, t : BindPipeline(b, p, t)
           Given == \E vb, ib : SetRenderState(vb, ib)
           Fine(b, cmd) == cmd.id # "BeginRenderPass" /\ (b = "Render" => cmd.id \in PassIds)
           Sent == \E b \in BindPoints : \E indexed, cmd : LaunchCall(b, indexed, cmd) /\ Fine(b, cmd)
<1>1. "Render" \in BindPoints /\ "Compute" \in BindPoints /\ "RayTracing" \in BindPoints
  BY DEF BindPoints
<1>2. /\ \A id : Simple(id).id = id
      /\ \A id, x, y : [Simple(id) EXCEPT !.argBuffer = x, !.countBuffer = y].id = id
      /\ \A id, x : [Simple(id) EXCEPT !.argBuffer = x].id = id
      /\ \A id, x : [Simple(id) EXCEPT !.known = x].id = id
  BY DEF Simple
<1>3. /\ \A id \in {"Draw", "DrawIndexed", "DrawMeshTasks"} : Fine("Render", Simple(id))
      /\ \A id \in {"DrawIndirect", "DrawIndexedIndirect"} :
            \A x, y : Fine("Render", [Simple(id) EXCEPT !.argBuffer = x, !.countBuffer = y])
      /\ Fine("Compute", Simple("DispatchCompute"))
      /\ \A x : Fine("Compute", [Simple("DispatchComputeIndirect") EXCEPT !.argBuffer = x])
      /\ \A x : Fine("RayTracing", [Simple("DispatchRays") EXCEPT !.known = x])
  BY <1>2 DEF PassIds
<1> HIDE DEF Fine
<1>4. CASE RenderPass
  <2>1. ASSUME NEW desc, BeginRenderPass(desc) PROVE Begun
    BY <1>1, <2>1, ZenonT(40) DEF BeginRenderPass
  <2>2. ASSUME Draw \/ DrawIndexed \/ DrawMeshTasks \/ \E a : DrawIndirect(a) \/ DrawIndexedIndirect(a)
        PROVE  Sent
    BY <1>1, <1>3, <2>2, ZenonT(40) DEF Draw, DrawIndexed, DrawMeshTasks, DrawIndirect, DrawIndexedIndirect
  <2> QED
    BY <1>1, <1>4, <2>1, <2>2, ZenonT(40) DEF RenderPass, Fine
<1>5. CASE ComputePass
  <2>1. ASSUME BeginComputePass PROVE Begun
    <3>1. [id |-> "BeginComputePass"].id # "BeginRenderPass"
      OBVIOUS
    <3> QED
      BY <1>1, <2>1, <3>1, ZenonT(40) DEF BeginComputePass
  <2>2. ASSUME DispatchCompute \/ \E a : DispatchComputeIndirect(a) PROVE Sent
    BY <1>1, <1>3, <2>2, ZenonT(40) DEF DispatchCompute, DispatchComputeIndirect
  <2> QED
    BY <1>1, <1>5, <2>1, <2>2, ZenonT(40) DEF ComputePass, Fine
<1>6. CASE RayTracingPass
  <2>1. ASSUME BeginRayTracingPass PROVE Begun
    <3>1. [id |-> "BeginRayTracingPass"].id # "BeginRenderPass"
      OBVIOUS
    <3> QED
      BY <1>1, <2>1, <3>1, ZenonT(40) DEF BeginRayTracingPass
  <2>2. ASSUME NEW known, DispatchRays(known) PROVE Sent
    BY <1>1, <1>3, <2>2, ZenonT(40) DEF DispatchRays
  <2> QED
    BY <1>1, <1>6, <2>1, <2>2, ZenonT(40) DEF RayTracingPass, Fine
<1> QED
  BY <1>4, <1>5, <1>6

(* Every call of the client leaves one pass in the list at most.           *)
LEMMA CallsOnePass ==
    ASSUME Encoding, OnePass,
           \/ \E cmd \in client.calls : Command(cmd)
           \/ \E pool \in client.queryPools : Timestamp(pool)
           \/ RenderPass \/ ComputePass \/ RayTracingPass
           \/ \E b \in BindPoints : EndPass(b)
           \/ Finish
    PROVE  OnePass' /\ executing' = executing
<1>1. /\ TypedList
      /\ Calling => list = <<>> \/ passState # "NoPass"
      /\ "NoPass" \notin BindPoints
  BY DEF Encoding, Calling, BindPoints
<1>2. ASSUME NEW cmd \in client.calls, Command(cmd) PROVE OnePass' /\ executing' = executing
  <2>1. cmd.id # "BeginRenderPass"
    BY CommandEncoderAssumption, CallsBeginNothing DEF Encoding
  <2>2. /\ list' = list \o <<cmd>> /\ passState' = passState /\ passState = "NoPass" /\ Calling
        /\ UNCHANGED <<client, active, executing>>
    BY <1>2 DEF Command, CallingCommand, RequireNoPass, Write, recorder, device, encoder, debugLayer
  <2> QED
    BY <1>1, <2>1, <2>2, OnePassWrites
<1>3. ASSUME NEW pool, Timestamp(pool) PROVE OnePass' /\ executing' = executing
  <2> DEFINE cmd == WriteTimestamp(pool)
  <2>1. cmd.id # "BeginRenderPass" /\ cmd.id \in PassIds
    BY DEF WriteTimestamp, PassIds
  <2>2. /\ list' = list \o <<cmd>> /\ passState' = passState /\ Calling
        /\ UNCHANGED <<client, active, executing>>
    BY <1>3 DEF Timestamp, CallingCommand, Write, recorder, device, encoder, debugLayer
  <2> HIDE DEF cmd
  <2> QED
    BY <1>1, <2>1, <2>2, OnePassWrites
<1>4. ASSUME NEW b \in BindPoints, NEW cmd, BeginPass(b, cmd), cmd.id = "BeginRenderPass" => b = "Render"
      PROVE  OnePass' /\ executing' = executing
  <2>1. list = <<>> /\ passState = "NoPass"
    BY <1>4, Quiet DEF BeginPass, RequireNoPass
  <2>2. list' = <<cmd>> /\ passState' = b /\ UNCHANGED <<client, active, executing>>
    BY <1>4, <2>1 DEF BeginPass, Write, recorder, device
  <2>3. ~(client.backend = "Vulkan" /\ "Render" \in active)
    BY <2>1 DEF OnePass, Closes
  <2> QED
    BY <1>4, <2>2, <2>3 DEF OnePass, Begins
<1>5. ASSUME NEW b \in BindPoints, NEW p, NEW t, BindPipeline(b, p, t) PROVE OnePass' /\ executing' = executing
  BY <1>5, OnePassStill DEF BindPipeline, PassCall, recorder, device
<1>6. ASSUME NEW vb, NEW ib, SetRenderState(vb, ib) PROVE OnePass' /\ executing' = executing
  BY <1>6, OnePassStill DEF SetRenderState, PassCall, recorder, device
<1>7. ASSUME NEW b \in BindPoints, NEW indexed, NEW cmd, LaunchCall(b, indexed, cmd),
             cmd.id # "BeginRenderPass", b = "Render" => cmd.id \in PassIds
      PROVE  OnePass' /\ executing' = executing
  <2>1. /\ WriteLaunch(b, cmd) /\ passState = b /\ passState' = passState
        /\ UNCHANGED <<client, active, executing>>
    BY <1>7 DEF LaunchCall, PassCall, RequirePass, recorder, device
  <2>2. PICK failed \in BOOLEAN :
            LET launch == [id |-> cmd.id, argBuffer |-> cmd.argBuffer, countBuffer |-> cmd.countBuffer,
                           known |-> cmd.known, asked |-> asked, failed |-> failed]
            IN list' = list \o (IF failed THEN <<launch>> ELSE <<StateCommand(b), launch>>)
    BY <2>1 DEF WriteLaunch
  <2> DEFINE launch == [id |-> cmd.id, argBuffer |-> cmd.argBuffer, countBuffer |-> cmd.countBuffer,
                        known |-> cmd.known, asked |-> asked, failed |-> failed]
             set == StateCommand(b)
             cmds == IF failed THEN <<launch>> ELSE <<set, launch>>
  <2>3. launch.id = cmd.id
    OBVIOUS
  <2>4. set.id # "BeginRenderPass" /\ (b = "Render" => set.id \in PassIds)
    BY DEF StateCommand, BindPoints, PassIds
  <2>5. list' = list \o cmds
    BY <2>2
  <2> HIDE DEF launch, set
  <2>6. cmds \in Seq({set, launch}) /\ cmds # <<>>
        /\ \A i \in 1..Len(cmds) : cmds[i] \in {set, launch}
    <3> DEFINE Of(s) == s \in Seq({set, launch}) /\ s # <<>> /\ \A i \in 1..Len(s) : s[i] \in {set, launch}
    <3>1. Of(<<launch>>) /\ Of(<<set, launch>>)
      OBVIOUS
    <3>2. cmds = <<launch>> \/ cmds = <<set, launch>>
      OBVIOUS
    <3> HIDE DEF cmds
    <3>3. Of(cmds)
      <4> HIDE DEF Of
      <4> QED
        BY <3>1, <3>2, Zenon
    <3> QED
      BY <3>3
  <2> HIDE DEF cmds
  <2>7. \A i \in 1..Len(cmds) : /\ cmds[i].id # "BeginRenderPass"
                                /\ passState = "Render" => cmds[i].id \in PassIds
    BY <1>7, <2>1, <2>3, <2>4, <2>6
  <2> QED
    BY <1>1, <2>1, <2>5, <2>6, <2>7, OnePassGrows
<1>8. ASSUME NEW b \in BindPoints, EndPass(b) PROVE OnePass' /\ executing' = executing
  <2> DEFINE cmd == [id |-> EndCommand[b]]
  <2>1. cmd.id # "BeginRenderPass" /\ (b = "Render" => cmd.id = "EndRenderPass" /\ cmd.id \in PassIds)
    BY DEF EndCommand, BindPoints, PassIds
  <2>2. /\ list' = list \o <<cmd>> /\ passState = b /\ passState' = "NoPass"
        /\ UNCHANGED <<client, active, executing>>
    BY <1>8 DEF EndPass, RequirePass, Write, recorder, device
  <2> HIDE DEF cmd
  <2>3. CASE b = "Render"
    BY <1>1, <2>1, <2>2, <2>3, OnePassWrites
  <2>4. CASE b # "Render"
    <3>1. ~Begins /\ ~(client.backend = "Vulkan" /\ "Render" \in active)
      BY <1>1, <2>2, <2>4 DEF OnePass
    <3>2. ~Begins'
      <4>1. CASE list = <<>>
        BY <2>1, <2>2, <4>1 DEF Begins
      <4>2. CASE list # <<>>
        <5>1. list'[1] = list[1]
          BY <1>1, <2>2, <4>2 DEF TypedList
        <5> QED
          BY <3>1, <4>2, <5>1 DEF Begins
      <4> QED
        BY <4>1, <4>2
    <3> QED
      BY <2>2, <3>1, <3>2 DEF OnePass
  <2> QED
    BY <2>3, <2>4
<1>9. ASSUME Finish PROVE OnePass' /\ executing' = executing
  BY <1>9, OnePassStill DEF Finish, recorder, device, encoder, debugLayer
<1> QED
  BY <1>2, <1>3, <1>4, <1>5, <1>6, <1>7, <1>8, <1>9, PassCallIds

(* Recording leaves what is behind the command of a render pass, and has   *)
(* barriers in it only where a draw takes its arguments from a buffer.     *)
LEMMA RecordsOnePass ==
    ASSUME RecordingInvariant, RecordingInvariant', Retaining, OnePass, Record
    PROVE  OnePass' /\ BarriersOutsidePasses'
<1> DEFINE n == Len(list)
<1>1. /\ Encoding /\ TypedList /\ writing = {} /\ passState = "NoPass" /\ UNCHANGED <<client, passState>>
      /\ Holding /\ (Tracked => BoundTable)
  BY DEF RecordingInvariant, Retaining, Record, encoder, debugLayer, Encoding
<1>2. "barriers" \in DOMAIN tracker'
  BY DEF RecordingInvariant, Truthful, IsTracker
<1>3. CASE RecordNext
  <2>1. list # <<>> /\ list' = Rest
    BY <1>3 DEF RecordNext
  <2>2. PICK cmd : cmd = Head(list)
    OBVIOUS
  <2>3. n \in Nat /\ n >= 1 /\ cmd = list[1] /\ list \in Seq(Range(list)) /\ 1 \in 1..n
    BY <1>1, <2>1, <2>2 DEF TypedList
  <2>4. Typed(cmd) /\ HeldCommand(cmd)
    BY <1>1, <2>3 DEF TypedList, Retaining, HeldList
  <2>5. ~Begins'
    <3>1. \A i \in 1..Len(list') : list'[i].id # "BeginRenderPass"
      BY <1>1, <2>1, RestEncodes
    <3>2. list' # <<>> => 1 \in 1..Len(list')
      BY DEF RecordingInvariant, Encoding, TypedList
    <3> QED
      BY <3>1, <3>2 DEF Begins
  <2>6. CASE client.backend = "Vulkan"
    <3>1. "Render" \in active => tracker.barriers = <<>> /\ cmd.id \in PassIds
      BY <2>3, <2>6 DEF OnePass
    <3>2. Vulkan!Record(cmd)
      BY <1>3, <2>2, <2>6 DEF RecordNext
    <3>3. PassGoesOn(cmd)
      BY <1>2, <3>1, <3>2, VulkanUnbarred
    <3>4. ASSUME "Render" \in active'
          PROVE  Closes' /\ \A i \in 1..Len(list') : list'[i].id \in PassIds
      <4>1. /\ cmd.id \in PassIds \cup {"BeginRenderPass"} /\ cmd.id # "EndRenderPass"
            /\ Closes /\ \A i \in 2..n : list[i].id \in PassIds
        <5>1. CASE cmd.id = "BeginRenderPass"
          <6>1. Begins
            BY <2>1, <2>3, <5>1 DEF Begins
          <6> QED
            BY <1>1, <5>1, <6>1 DEF OnePass
        <5>2. CASE "Render" \in active /\ cmd.id # "EndRenderPass"
          <6>1. Closes /\ \A i \in 1..n : list[i].id \in PassIds
            BY <2>6, <5>2 DEF OnePass
          <6>2. \A i \in 2..n : i \in 1..n
            BY <2>3
          <6> QED
            BY <3>1, <5>2, <6>1, <6>2
        <5> QED
          BY <3>3, <3>4, <5>1, <5>2 DEF PassGoesOn
      <4>2. list' = Tail(list)
        BY <2>1, <2>2, <4>1 DEF Rest, PassIds
      <4>3. n # 1
        BY <2>3, <4>1 DEF Closes
      <4>4. Len(list') = n - 1 /\ \A i \in 1..(n - 1) : list'[i] = list[i + 1] /\ i + 1 \in 2..n
        BY <2>3, <4>2
      <4>5. n - 1 \in 1..(n - 1) /\ (n - 1) + 1 = n
        <5>1. n \in Nat /\ n >= 1 /\ n # 1
          BY <2>3, <4>3
        <5> HIDE DEF n
        <5> QED
          BY <5>1
      <4>6. list' # <<>>
        <5>1. Len(list') # 0
          BY <2>3, <4>3, <4>4
        <5>2. Len(<<>>) = 0
          OBVIOUS
        <5> QED
          BY <5>1, <5>2, Zenon
      <4>7. list'[Len(list')] = list[n]
        BY <4>4, <4>5
      <4> QED
        BY <4>1, <4>4, <4>6, <4>7 DEF Closes
    <3> QED
      BY <1>1, <2>5, <3>3, <3>4 DEF OnePass, PassGoesOn, BarriersOutsidePasses, IndirectDraws
  <2>7. CASE client.backend # "Vulkan"
    <3>1. ~executing'.barred
      BY <1>1, <1>3, <2>2, <2>4, <2>7, RecorderSupplied DEF RecordNext
    <3> QED
      BY <1>1, <2>5, <2>7, <3>1 DEF OnePass, BarriersOutsidePasses
  <2> QED
    BY <2>6, <2>7
<1>4. CASE FinishRecording
  <2>1. list = <<>> /\ list' = <<>>
    BY <1>4 DEF FinishRecording
  <2>2. CASE client.backend = "Vulkan"
    <3>1. "Render" \notin active
      BY <2>1, <2>2 DEF OnePass, Closes
    <3>2. active' = active /\ executing' = Nothing
      BY <1>4, <2>2, VulkanParts, ZenonT(40) DEF FinishRecording, Vulkan!Finish
    <3> QED
      BY <2>1, <3>1, <3>2, Unbarred DEF OnePass, Begins, BarriersOutsidePasses
  <2>3. CASE client.backend # "Vulkan"
    <3> DEFINE cmd == [id |-> "Draw"]
    <3>1. Typed(cmd)
      BY FreeTyped DEF Unconstrained
    <3>2. RetainedBy(cmd) = {} /\ cmd.id = "Draw"
      BY NamesNothing
    <3>3. HeldCommand(cmd)
      BY <3>2 DEF HeldCommand, StateIds
    <3> HIDE DEF cmd
    <3>4. ~executing'.barred
      BY <1>1, <1>4, <2>3, <3>1, <3>3, RecorderSupplied DEF FinishRecording
    <3> QED
      BY <1>1, <2>1, <2>3, <3>4 DEF OnePass, Begins, BarriersOutsidePasses
  <2> QED
    BY <2>2, <2>3
<1> QED
  BY <1>3, <1>4 DEF Record

(* The recorder of Vulkan has barriers in a render pass only where a draw  *)
(* takes its arguments from a buffer, the one command that requires a      *)
(* state inside a pass (vk-command.cpp:156): whatever else the pass needs  *)
(* was put in place before it began.  No other recorder has any.           *)
THEOREM BarriersAlwaysOutsidePasses == Spec => []BarriersOutsidePasses
<1> DEFINE Inv == RecordingInvariant /\ Retaining /\ OnePass /\ BarriersOutsidePasses
<1>1. Init => Inv
  <2> SUFFICES ASSUME Init PROVE OnePass /\ BarriersOutsidePasses
    BY RecordingStarts, RetainingStarts
  <2>1. list = <<>> /\ active = {} /\ executing = Nothing
    BY DEF Init, RecorderInit
  <2> QED
    BY <2>1, Unbarred DEF OnePass, Begins, BarriersOutsidePasses
<1>2. Inv /\ [Next]_vars => Inv'
  <2> SUFFICES ASSUME Inv, [Next]_vars PROVE OnePass' /\ BarriersOutsidePasses'
    BY RecordingInductive, RetainingInductive
  <2>1. RecordingInvariant' /\ Encoding
    BY RecordingInductive DEF RecordingInvariant
  <2>2. CASE Record
    BY <2>1, <2>2, RecordsOnePass
  <2>3. CASE UNCHANGED vars
    BY <2>3, OnePassStill DEF vars, encoder, debugLayer, recorder, device, BarriersOutsidePasses
  <2>4. CASE Next /\ ~Record
    <3>1. OnePass' /\ executing' = executing
      BY <2>1, <2>4, CallsOnePass, ZenonT(40) DEF Next
    <3> QED
      BY <3>1 DEF BarriersOutsidePasses
  <2> QED
    BY <2>2, <2>3, <2>4
<1>3. Inv => BarriersOutsidePasses
  OBVIOUS
<1> QED
  BY <1>1, <1>2, <1>3, PTL DEF Spec
=============================================================================
