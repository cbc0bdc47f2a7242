------------------------------ MODULE Recording -----------------------------
(***************************************************************************)
(* A client that encodes one command buffer, and the recorder of its       *)
(* backend that finish() runs over the list.                               *)
(*                                                                         *)
(* record() reads the list in order and looks ahead no further than the    *)
(* end of the pass it enters, so the recorder may take what is written     *)
(* whenever no pass is open: it makes of it what it would make of it once  *)
(* finish() is called, or submit() for the backends that execute the list  *)
(* themselves (D3D11, CUDA, CPU).                                          *)
(***************************************************************************)
EXTENDS CommandEncoder

(* The recorders that leave the states to what is below them.              *)
WGPU == INSTANCE WGPURecorder
Metal == INSTANCE MetalRecorder
D3D11 == INSTANCE D3D11Recorder
CUDA == INSTANCE CUDARecorder
CPU == INSTANCE CPURecorder

RecordNext ==
    /\ list # <<>>
    /\ list' = Rest
    /\ closed' = closed
    /\ \/ client.backend = "Vulkan" /\ Vulkan!Record(Head(list)) /\ UNCHANGED native
       \/ client.backend = "D3D12" /\ D3D12!Record(Head(list)) /\ UNCHANGED native
       \/ client.backend = "WGPU" /\ WGPU!Record(Head(list)) /\ UNCHANGED native
       \/ client.backend = "Metal" /\ Metal!Record(Head(list))
       \/ client.backend = "D3D11" /\ D3D11!Record(Head(list)) /\ UNCHANGED native
       \/ client.backend = "CUDA" /\ CUDA!Record(Head(list)) /\ UNCHANGED native
       \/ client.backend = "CPU" /\ CPU!Record(Head(list)) /\ UNCHANGED native

FinishRecording ==
    /\ finished /\ ~closed /\ list = <<>>
    /\ list' = list
    /\ closed' = TRUE
    /\ \/ client.backend = "Vulkan" /\ Vulkan!Finish /\ UNCHANGED native
       \/ client.backend = "D3D12" /\ D3D12!Finish /\ UNCHANGED native
       \/ client.backend = "WGPU" /\ WGPU!Finish /\ UNCHANGED native
       \/ client.backend = "Metal" /\ Metal!Finish
       \/ client.backend = "D3D11" /\ D3D11!Finish /\ UNCHANGED native
       \/ client.backend = "CUDA" /\ CUDA!Finish /\ UNCHANGED native
       \/ client.backend = "CPU" /\ CPU!Finish /\ UNCHANGED native

Record ==
    /\ writing = {}
    /\ RecordNext \/ FinishRecording
    /\ UNCHANGED <<retained, encoder, debugLayer, finished, calls>>

Next ==
    \/ \E cmd \in client.calls : Command(cmd)
    \/ \E pool \in client.queryPools : Timestamp(pool)
    \/ RenderPass \/ ComputePass \/ RayTracingPass
    \/ \E b \in BindPoints : EndPass(b)
    \/ Finish
    \/ Record

Spec == Init /\ [][Next]_vars

-----------------------------------------------------------------------------
(* What the recorder believes of every subresource is what it will be once *)
(* the barriers it owes are recorded, and no barrier names a state the     *)
(* resource is not in (state-tracking.h keeps one state for a texture or   *)
(* one for each subresource, and changes between the two).                 *)
TrackerTruthful == Believed(tracker) = ApplyBarriers(gpu, tracker.barriers)

OfGeometry(need) == need.state \in {"VertexBuffer", "IndexBuffer"}

(* A command executes with every resource it touches, by its arguments,    *)
(* through the root object bound for it or as a target of the open pass,   *)
(* in the state it needs; vertex and index buffers apart, and launches     *)
(* whose binding data could not be made, which use what was bound before.  *)
(* The dispatches of a Metal encoder may run at once: two of which one     *)
(* writes what the other accesses have a barrier between them.             *)
NeedsMet == ~executing.failed =>
                /\ \A need \in executing.needs : OfGeometry(need) \/ Met(need)
                /\ ~executing.raced

(* "We collect all barriers needed for the render pass before entering     *)
(* it" (vk-command.cpp:156-161): a draw reads vertex and index buffers     *)
(* that are in the state for it.                                           *)
GeometryMet == \A need \in executing.needs : OfGeometry(need) => Met(need)

(* "Vulkan generally does not allow barrier commands to be recorded inside *)
(* a render pass" (vk-command.cpp:156): only indirect draws record any.    *)
BarriersOutsidePasses ==
    executing.barred => executing.id \in {"DrawIndirect", "DrawIndexedIndirect"}

(* A command buffer leaves every resource in its default state, which the  *)
(* next one starts from.                                                   *)
DefaultsRestored == closed => gpu = FreshStates

(* What CUDA's stream has to keep apart.                                   *)
StreamOrdered ==
    IF client.backend = "CUDA" /\ executing.bound.root # None
    THEN Uses(Range(Bindings[executing.bound.root])) \cap DeviceLocal ELSE {}

(* What the GPU is given to use is retained by the command buffer: the     *)
(* client may have let go of it right after the call.                      *)
UsesRetained == executing.uses \ StreamOrdered \subseteq retained

Indexed == {"DrawIndexed", "DrawIndexedIndirect"}

(* A draw or dispatch uses what the client set in its pass, whatever was   *)
(* bound or invalidated before, and it is left out only if the records of  *)
(* its shader table could not be made; the debug layer lets none through   *)
(* for which nothing was set.  Launches whose binding data could not be    *)
(* made are apart.                                                         *)
DrawnAsAsked ==
    ~executing.failed =>
        /\ executing.id = "Dropped" => TableBuffer[executing.asked.table] = None
        /\ executing.bound # Unbound =>
              /\ executing.asked.pipeline # None
              /\ executing.id \in Indexed => executing.asked.ib # None
              /\ \A f \in DOMAIN Unbound :
                    executing.asked[f] # None => executing.bound[f] = executing.asked[f]

(* A state is required of a range of "layerCount" layers                   *)
(* (slang-rhi.h:897): a copy from one layer of a texture to another reads  *)
(* and writes each in the state for it.                                    *)
LayersApart ==
    executing.id = "CopyTexture" => \A need \in executing.needs : Met(need)
=============================================================================
