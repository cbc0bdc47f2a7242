--------------------------- MODULE CommandEncoder ---------------------------
(***************************************************************************)
(* A client that encodes one command buffer: ICommandEncoder and its pass  *)
(* encoders (src/src/command-buffer.cpp) behind the debug layer            *)
(* (src/src/debug-layer/debug-command-encoder.cpp).  A client makes the    *)
(* calls the debug layer has no complaint about: what the layer checks are *)
(* the guards.                                                             *)
(***************************************************************************)
EXTENDS CommandRecorder

(* A client is what it may call and how often:                             *)
(*   backend     "Vulkan", "D3D12", "WGPU", "Metal", "D3D11", "CUDA", "CPU" *)
(*   calls       commands outside passes                                   *)
(*   passes      bind points it begins passes of                           *)
(*   targets     descriptions of its render passes                         *)
(*   programs    pairs of a pipeline and a root object, by bind point      *)
(*   tables      shader tables                                             *)
(*   geometry    pairs of a vertex and an index buffer                     *)
(*   arguments   pairs of an argument and a count buffer                   *)
(*   queryPools  query pools it writes timestamps to                       *)
(* and the bounds maxCalls (commands and passes together), maxPasses and   *)
(* maxPassCalls (calls in all passes).                                     *)
CONSTANT Clients

-----------------------------------------------------------------------------
(* What a client gives: the types of the interface.                        *)

Maybe(set) == set \cup {None}

Transfers ==
    [id : {"CopyBuffer"}, dst : PlainBuffers, src : PlainBuffers]
      \cup [id : {"CopyTexture"}, dst : Textures, dstRange : Ranges, src : Textures, srcRange : Ranges]
      \cup [id : {"CopyTextureToBuffer"}, dst : PlainBuffers, src : Textures, srcRange : Ranges]
      \cup [id : {"UploadTextureData"}, dst : Textures, dstRange : Ranges, src : PlainBuffers]
      \cup [id : {"ClearBuffer"}, dst : PlainBuffers]
      \cup [id : {"ClearTexture"}, dst : Textures, dstRange : Ranges,
            value : {"Float", "Uint", "DepthStencil"}]

Builds ==
    [id : {"BuildAccelerationStructure"}, inputs : SUBSET PlainBuffers, micromap : Maybe(Micromaps),
     dst : AccelerationStructures, src : Maybe(AccelerationStructures), scratchBuffer : PlainBuffers]
      \cup [id : {"BuildMicromap"}, inputs : SUBSET PlainBuffers, dst : Micromaps,
            scratchBuffer : PlainBuffers]
      \cup [id : {"CopyAccelerationStructure"}, dst : AccelerationStructures, src : AccelerationStructures]
      \cup [id : {"ExecuteClusterOperation"}, argCountBuffer : Maybe(PlainBuffers),
            argsBuffer : PlainBuffers, scratchBuffer : PlainBuffers, addressesBuffer : Maybe(PlainBuffers),
            resultBuffer : Maybe(AccelerationStructures), sizesBuffer : Maybe(PlainBuffers)]
      \cup [id : {"ConvertCooperativeVectorMatrix"}, dst : PlainBuffers, src : PlainBuffers]

StateChanges ==
    [id : {"SetBufferState"}, dst : PlainBuffers, dstRange : {EntireTexture}, state : States]
      \cup [id : {"SetTextureState"}, dst : Textures, dstRange : Ranges, state : States]
      \cup [id : {"GlobalBarrier"}]

(* A query pool and the object given to a callback may be anything.        *)
IsCall(cmd) ==
    \/ cmd \in Transfers \cup Builds \cup StateChanges
    \/ /\ cmd.id = "ResolveQuery"
       /\ cmd = [id |-> "ResolveQuery", queryPool |-> cmd.queryPool, dst |-> cmd.dst]
       /\ cmd.dst \in PlainBuffers
    \/ /\ cmd.id = "ExecuteCallback"
       /\ cmd = [id |-> "ExecuteCallback", userObject |-> cmd.userObject]

Views == [res : Textures, range : Ranges]
OptionalViews == [res : Maybe(Textures), range : Ranges]
RenderTargets == [colors : Seq([view : Views, resolve : OptionalViews]),
                  depth : [view : OptionalViews, readOnly : BOOLEAN]]

ASSUME CommandEncoderAssumption ==
    /\ None \notin Resources
    /\ \A root \in DOMAIN Bindings : Bindings[root] \in Seq(Needs)
    /\ TableBuffer[None] = None
    /\ \A c \in Clients :
          /\ c.passes \subseteq BindPoints
          /\ c.maxCalls \in Nat /\ c.maxPasses \in Nat /\ c.maxPassCalls \in Nat
          /\ \A cmd \in c.calls : IsCall(cmd)
          /\ None \notin c.queryPools
          /\ c.targets \subseteq RenderTargets
          /\ \A b \in BindPoints : \A p \in c.programs[b] :
                p[1] # None /\ p[2] \in DOMAIN Bindings \ {None}
          /\ \A t \in c.tables : t # None /\ TableBuffer[t] \in Maybe(PlainBuffers)
          /\ c.geometry \subseteq Maybe(PlainBuffers) \X Maybe(PlainBuffers)
          /\ c.arguments \subseteq PlainBuffers \X Maybe(PlainBuffers)

VARIABLES client,       \* the one that encodes
          writing,      \* pass encoders that have a command list
          state,        \* m_pipeline, m_rootObject ... of each pass encoder
          asked,        \* what the client set in the open pass
          passState,    \* the debug layer's: "NoPass" or a bind point
          pipelineBound, indexBufferBound,  \* the debug layer's
          finished,     \* finish() was called: m_commandList is null
          calls         \* how many calls were made

encoder == <<client, writing, state, asked>>
debugLayer == <<passState, pipelineBound, indexBufferBound>>
vars == <<list, retained, recorder, device, closed, encoder, debugLayer, finished, calls>>

Init ==
    /\ list = <<>>
    /\ retained = {}
    /\ RecorderInit
    /\ client \in Clients
    /\ writing = {}
    /\ state = [b \in BindPoints |-> Unbound]
    /\ asked = Unbound
    /\ passState = "NoPass"
    /\ pipelineBound = {}
    /\ indexBufferBound = FALSE
    /\ finished = FALSE
    /\ calls = [all |-> 0, passes |-> 0, inPass |-> 0]

-----------------------------------------------------------------------------
(* The commands of ICommandEncoder, as they are written.                   *)

CopyBuffer(dst, src) == [id |-> "CopyBuffer", dst |-> dst, src |-> src]

CopyTexture(dst, dstRange, src, srcRange) ==
    [id |-> "CopyTexture", dst |-> dst, dstRange |-> dstRange, src |-> src, srcRange |-> srcRange]

CopyTextureToBuffer(dst, src, layer, mip) ==
    [id |-> "CopyTextureToBuffer", dst |-> dst, src |-> src,
     srcRange |-> SubresourceRange(layer, 1, mip, 1)]

CopyBufferToTexture(dst, layer, mip, src) ==
    [id |-> "UploadTextureData", dst |-> dst, dstRange |-> SubresourceRange(layer, 1, mip, 1),
     src |-> src]

(* The data go through a buffer of the upload heap.                        *)
UploadTextureData(dst, range, staging) ==
    [id |-> "UploadTextureData", dst |-> dst, dstRange |-> range, src |-> staging]

UploadBufferData(dst, staging) == CopyBuffer(dst, staging)

ClearBuffer(buffer) == [id |-> "ClearBuffer", dst |-> buffer]

(* The value is "Float", "Uint" (for signed values, too) or "DepthStencil". *)
ClearTexture(texture, range, value) ==
    [id |-> "ClearTexture", dst |-> texture, dstRange |-> Resolved(texture, range), value |-> value]

ResolveQuery(queryPool, buffer) == [id |-> "ResolveQuery", queryPool |-> queryPool, dst |-> buffer]

BuildAccelerationStructure(inputs, micromap, dst, src, scratchBuffer) ==
    [id |-> "BuildAccelerationStructure", inputs |-> inputs, micromap |-> micromap,
     dst |-> dst, src |-> src, scratchBuffer |-> scratchBuffer]

BuildMicromap(inputs, dst, scratchBuffer) ==
    [id |-> "BuildMicromap", inputs |-> inputs, dst |-> dst, scratchBuffer |-> scratchBuffer]

CopyAccelerationStructure(dst, src) ==
    [id |-> "CopyAccelerationStructure", dst |-> dst, src |-> src]

ExecuteClusterOperation(argCount, args, scratch, addresses, result, sizes) ==
    [id |-> "ExecuteClusterOperation", argCountBuffer |-> argCount, argsBuffer |-> args,
     scratchBuffer |-> scratch, addressesBuffer |-> addresses, resultBuffer |-> result,
     sizesBuffer |-> sizes]

ConvertCooperativeVectorMatrix(dst, src) ==
    [id |-> "ConvertCooperativeVectorMatrix", dst |-> dst, src |-> src]

SetBufferStateTo(buffer, newState) ==
    [id |-> "SetBufferState", dst |-> buffer, dstRange |-> EntireTexture, state |-> newState]

SetTextureStateTo(texture, range, newState) ==
    [id |-> "SetTextureState", dst |-> texture, dstRange |-> range, state |-> newState]

GlobalBarrier == [id |-> "GlobalBarrier"]

ExecuteCallback(userObject) == [id |-> "ExecuteCallback", userObject |-> userObject]

WriteTimestamp(queryPool) == [id |-> "WriteTimestamp", queryPool |-> queryPool]

-----------------------------------------------------------------------------
(* What the debug layer lets through.                                      *)

(* The sums are of uint32_t.                                               *)
InBounds(start, count, total) == start < total /\ (count # 0 => (start + count) % (All + 1) <= total)

AcceptsCopyTexture(cmd) ==
    LET dst == cmd.dstRange
        src == cmd.srcRange
    IN /\ InBounds(src.layer, src.layerCount, LayerCount[cmd.src])
       /\ InBounds(src.mip, src.mipCount, MipCount[cmd.src])
       /\ InBounds(dst.layer, dst.layerCount, LayerCount[cmd.dst])
       /\ InBounds(dst.mip, dst.mipCount, MipCount[cmd.dst])
       /\ src.layerCount = dst.layerCount /\ src.mipCount = dst.mipCount
       /\ src.layerCount = 0 => LayerCount[cmd.src] = LayerCount[cmd.dst]
       /\ src.mipCount = 0 => MipCount[cmd.src] = MipCount[cmd.dst]

Accepts(cmd) == cmd.id = "CopyTexture" => AcceptsCopyTexture(cmd)

(* Mutant: commands are let through in a pass.                             *)
RequireNoPassUnchecked == TRUE

RequireNoPass == passState = "NoPass"
RequirePass(bindPoint) == passState = bindPoint

(* After finish() the encoder has no list to write to and clients make no  *)
(* more calls: requireOpen() would not stop them, as finish() leaves the   *)
(* layer's state open.                                                     *)
Calling == ~finished /\ (list = <<>> \/ writing # {})

CallingCommand ==
    /\ Calling
    /\ calls.all < client.maxCalls
    /\ calls' = [calls EXCEPT !.all = @ + 1]

Command(cmd) ==
    /\ CallingCommand
    /\ RequireNoPass
    /\ Accepts(cmd)
    /\ Write(<<cmd>>)
    /\ UNCHANGED <<recorder, device, closed, encoder, debugLayer, finished>>

(* writeTimestamp() may be called in a pass.                               *)
Timestamp(queryPool) ==
    /\ CallingCommand
    /\ Write(<<WriteTimestamp(queryPool)>>)
    /\ UNCHANGED <<recorder, device, closed, encoder, debugLayer, finished>>

-----------------------------------------------------------------------------
(* Passes.                                                                 *)

(* A pass starts with nothing bound.                                       *)
BeginPass(bindPoint, cmd) ==
    /\ Calling
    /\ calls.all < client.maxCalls /\ calls.passes < client.maxPasses
    /\ calls' = [calls EXCEPT !.all = @ + 1, !.passes = @ + 1]
    /\ bindPoint \in client.passes
    /\ RequireNoPass
    /\ passState' = bindPoint
    /\ pipelineBound' = pipelineBound \ {bindPoint}
    /\ indexBufferBound' = (indexBufferBound /\ bindPoint # "Render")
    /\ Write(<<cmd>>)
    /\ writing' = writing \cup {bindPoint}
    /\ asked' = Unbound
    /\ UNCHANGED <<recorder, device, closed, client, state, finished>>

BeginRenderPass(desc) == BeginPass("Render", [id |-> "BeginRenderPass", desc |-> desc])

BeginComputePass == BeginPass("Compute", [id |-> "BeginComputePass"])

BeginRayTracingPass == BeginPass("RayTracing", [id |-> "BeginRayTracingPass"])

(* A call on the encoder of the open pass.                                 *)
PassCall(bindPoint) ==
    /\ Calling
    /\ RequirePass(bindPoint)
    /\ bindPoint \in writing
    /\ calls.inPass < client.maxPassCalls
    /\ calls' = [calls EXCEPT !.inPass = @ + 1]
    /\ UNCHANGED <<recorder, device, closed, finished, client, writing, passState>>

EndCommand == [b \in BindPoints |-> CASE b = "Render" -> "EndRenderPass"
                                      [] b = "Compute" -> "EndComputePass"
                                      [] b = "RayTracing" -> "EndRayTracingPass"]

EndPass(bindPoint) ==
    /\ RequirePass(bindPoint)
    /\ bindPoint \in writing
    /\ passState' = "NoPass"
    /\ writing' = writing \ {bindPoint}
    /\ Write(<<[id |-> EndCommand[bindPoint]]>>)
    /\ UNCHANGED <<recorder, device, closed, finished, client, state, asked, pipelineBound,
                   indexBufferBound, calls>>

BindPipeline(bindPoint, program, shaderTable) ==
    /\ PassCall(bindPoint)
    /\ state' = [state EXCEPT ![bindPoint].pipeline = program[1], ![bindPoint].root = program[2],
                              ![bindPoint].table = shaderTable]
    /\ asked' = [asked EXCEPT !.pipeline = program[1], !.root = program[2], !.table = shaderTable]
    /\ pipelineBound' = pipelineBound \cup {bindPoint}
    /\ UNCHANGED <<list, retained, indexBufferBound>>

(* The command that will carry the state does not retain its buffers.      *)
RetainedWithState(vb, ib) == Objects({vb, ib})

SetRenderState(vb, ib) ==
    /\ PassCall("Render")
    /\ state' = [state EXCEPT !["Render"].vb = vb, !["Render"].ib = ib]
    /\ asked' = [asked EXCEPT !.vb = vb, !.ib = ib]
    /\ indexBufferBound' = (ib # None)
    /\ retained' = retained \cup RetainedWithState(vb, ib)
    /\ UNCHANGED <<list, pipelineBound>>

-----------------------------------------------------------------------------
(* Draws and dispatches.                                                   *)

StateCommand(bindPoint) ==
    LET s == state[bindPoint] IN
    CASE bindPoint = "Render" ->
           [id |-> "SetRenderState", pipeline |-> s.pipeline, root |-> s.root, vb |-> s.vb, ib |-> s.ib]
      [] bindPoint = "Compute" ->
           [id |-> "SetComputeState", pipeline |-> s.pipeline, root |-> s.root]
      [] bindPoint = "RayTracing" ->
           [id |-> "SetRayTracingState", pipeline |-> s.pipeline, root |-> s.root,
            shaderTable |-> s.table]

(* What a root object uses is retained; with CUDA, its device-local        *)
(* buffers are not, for the memory of a buffer that is gone is given to    *)
(* later work of the stream (cuda-command.cpp:1370).                       *)
DeviceLocal == Buffers \ HostVisible

HeldThrough(root) ==
    LET used == Uses(Range(Bindings[root]))
    IN IF client.backend = "CUDA" THEN used \ DeviceLocal ELSE used

(* The state and then the command; when the binding data cannot be made    *)
(* the state is left out and the command is written all the same.  The     *)
(* root object's resources are retained first.                             *)
WriteLaunch(bindPoint, cmd) ==
    \E failed \in BOOLEAN :
        LET launch == [id |-> cmd.id, argBuffer |-> cmd.argBuffer,
                       countBuffer |-> cmd.countBuffer, known |-> cmd.known,
                       asked |-> asked, failed |-> failed]
            cmds == IF failed THEN <<launch>> ELSE <<StateCommand(bindPoint), launch>>
            resources == HeldThrough(state[bindPoint].root)
        IN /\ list' = list \o cmds
           /\ retained' = retained \cup resources \cup UNION {RetainedBy(c) : c \in Range(cmds)}

(* The debug layer refuses to draw without a pipeline bound in this pass,  *)
(* and with indices when no index buffer is set in it.                     *)
LaunchCall(bindPoint, indexed, cmd) ==
    /\ PassCall(bindPoint)
    /\ bindPoint \in pipelineBound
    /\ indexed => indexBufferBound
    /\ WriteLaunch(bindPoint, cmd)
    /\ UNCHANGED <<state, asked, pipelineBound, indexBufferBound>>

Simple(id) == [id |-> id, argBuffer |-> None, countBuffer |-> None, known |-> TRUE]

Draw == LaunchCall("Render", FALSE, Simple("Draw"))
DrawIndexed == LaunchCall("Render", TRUE, Simple("DrawIndexed"))
DrawMeshTasks == LaunchCall("Render", FALSE, Simple("DrawMeshTasks"))

DrawIndirect(args) ==
    LaunchCall("Render", FALSE,
               [Simple("DrawIndirect") EXCEPT !.argBuffer = args[1], !.countBuffer = args[2]])

DrawIndexedIndirect(args) ==
    LaunchCall("Render", TRUE,
               [Simple("DrawIndexedIndirect") EXCEPT !.argBuffer = args[1], !.countBuffer = args[2]])

DispatchCompute == LaunchCall("Compute", FALSE, Simple("DispatchCompute"))

DispatchComputeIndirect(args) ==
    LaunchCall("Compute", FALSE, [Simple("DispatchComputeIndirect") EXCEPT !.argBuffer = args[1]])

DispatchRays(known) ==
    LaunchCall("RayTracing", FALSE, [Simple("DispatchRays") EXCEPT !.known = known])

ComputePass ==
    \/ BeginComputePass
    \/ \E p \in client.programs["Compute"] : BindPipeline("Compute", p, None)
    \/ DispatchCompute
    \/ \E a \in client.arguments : DispatchComputeIndirect(a)

RayTracingPass ==
    \/ BeginRayTracingPass
    \/ \E p \in client.programs["RayTracing"], t \in client.tables : BindPipeline("RayTracing", p, t)
    \/ \E known \in BOOLEAN : DispatchRays(known)

RenderPass ==
    \/ \E desc \in client.targets : BeginRenderPass(desc)
    \/ \E p \in client.programs["Render"] : BindPipeline("Render", p, None)
    \/ \E g \in client.geometry : SetRenderState(g[1], g[2])
    \/ Draw \/ DrawIndexed \/ DrawMeshTasks
    \/ \E a \in client.arguments : DrawIndirect(a) \/ DrawIndexedIndirect(a)

-----------------------------------------------------------------------------
(* finish() takes the list away from the encoder and records it.           *)
Finish ==
    /\ Calling
    /\ RequireNoPass
    /\ finished' = TRUE
    /\ UNCHANGED <<list, retained, recorder, device, closed, encoder, debugLayer, calls>>

(* The recorders that put barriers between the commands.                   *)
Vulkan == INSTANCE VulkanRecorder
D3D12 == INSTANCE D3D12Recorder
=============================================================================
