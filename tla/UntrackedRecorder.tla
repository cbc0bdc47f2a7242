------------------------- MODULE UntrackedRecorder --------------------------
(***************************************************************************)
(* What the recorders of WebGPU, Metal, D3D11, CUDA and the CPU share:     *)
(* none has a state tracker, for what is below them keeps resources apart  *)
(* or in their order.  Commands use resources and need them in no state.   *)
(***************************************************************************)
EXTENDS CommandRecorder

Using(cmd, objects) == [Nothing EXCEPT !.id = cmd.id, !.uses = Objects(objects)]

Perform(cmd, objects) ==
    /\ executing' = Using(cmd, objects)
    /\ UNCHANGED <<recorder, gpu, bound>>

(* A draw or dispatch: what is bound, the targets and these resources.     *)
Launched(cmd, bindPoint, needs) == [Launching(cmd, bindPoint, needs) EXCEPT !.needs = {}]

Launch(cmd, bindPoint, needs) ==
    /\ executing' = Launched(cmd, bindPoint, needs)
    /\ UNCHANGED <<recorder, gpu, bound>>

LaunchOrDrop(cmd, bindPoint, needs) ==
    IF bindPoint \in valid THEN Launch(cmd, bindPoint, needs) ELSE Dropped(cmd)

(* Commands that only print a warning, or not even that.                   *)
Unsupported(cmd, ids) == cmd.id \in ids /\ Skip

StateCommands == {"SetBufferState", "SetTextureState", "GlobalBarrier"}

RenderCommands == {"BeginRenderPass", "EndRenderPass", "SetRenderState", "Draw", "DrawIndexed",
                   "DrawIndirect", "DrawIndexedIndirect", "DrawMeshTasks"}

RayTracingCommands == {"BeginRayTracingPass", "EndRayTracingPass", "SetRayTracingState", "DispatchRays"}

StructureCommands == {"BuildAccelerationStructure", "CopyAccelerationStructure"}

(* Converting matrices has no second half here.                            *)
ExtensionCommands == {"BuildMicromap", "ExecuteClusterOperation",
                      "ConvertCooperativeVectorMatrix", "Converted"}
=============================================================================
