----------------------------- MODULE MCRecording ----------------------------
(***************************************************************************)
(* Instances of Recording for TLC.                                         *)
(***************************************************************************)
EXTENDS Recording

CONSTANTS v, w, u, g,        \* buffers
          ind,                \* one that rests as an argument buffer
          a, asrc, mm,        \* of two acceleration structures, of a micromap
          up, h,              \* a staging buffer, the records of tab
          ta, x, d,           \* textures: targets, sampled, depth
          p1, p2, c1, q1,    \* pipelines
          r0, r1, r2,        \* root objects
          tab, badtab,       \* shader tables, one without records
          pool, callback

MCBuffers == {v, w, u, g, ind, a, asrc, mm, up, h}
MCTextures == {ta, x, d}
MCLayerCount == ta :> 2 @@ x :> 1 @@ d :> 1
MCMipCount == ta :> 1 @@ x :> 2 @@ d :> 1
MCDefaultState == v :> "VertexBuffer" @@ w :> "General" @@ u :> "UnorderedAccess"
                    @@ a :> "AccelerationStructureRead" @@ g :> "ShaderResource"
                    @@ ind :> "IndirectArgument" @@ asrc :> "AccelerationStructureRead"
                    @@ mm :> "MicromapRead" @@ up :> "CopySource"
                    @@ h :> "ShaderResource"
                    @@ ta :> "RenderTarget" @@ x :> "ShaderResource" @@ d :> "DepthWrite"
MCUsage == ta :> {"RenderTarget"} @@ x :> {"UnorderedAccess"} @@ d :> {"DepthStencil"}
MCAll == 7

Layer(l) == SubresourceRange(l, 1, 0, 1)
Mip(m) == SubresourceRange(0, 1, m, 1)
Whole == SubresourceRange(0, All, 0, All)
View(res, range) == [res |-> res, range |-> range]
NoView == View(None, Whole)
NoDepth == [view |-> NoView, readOnly |-> FALSE]

MCBindings == r0 :> <<>>
                @@ r1 :> <<Need(x, Whole, "ShaderResource")>>
                @@ r2 :> <<BufferNeed(u, "UnorderedAccess"), Need(x, Mip(0), "ShaderResource"),
                           Need(x, Mip(1), "UnorderedAccess")>>
MCTableBuffer == tab :> h @@ badtab :> None @@ None :> None

Commands ==
    {CopyBuffer(v, u), CopyTexture(x, Mip(0), ta, Layer(1)),
     CopyTexture(x, Mip(1), x, Mip(0)), CopyTextureToBuffer(u, ta, 0, 0),
     CopyBufferToTexture(x, 0, 1, v), UploadTextureData(ta, Layer(0), up), UploadBufferData(w, up),
     ClearBuffer(u), ClearTexture(x, Whole, "Uint"), ResolveQuery(pool, w),
     BuildAccelerationStructure({v}, None, a, None, u), BuildMicromap({w}, mm, u),
     CopyAccelerationStructure(a, asrc), ExecuteClusterOperation(None, w, u, None, a, None),
     ConvertCooperativeVectorMatrix(u, v), SetBufferStateTo(w, "CopySource"),
     SetTextureStateTo(x, Mip(1), "CopyDestination"), GlobalBarrier, ExecuteCallback(callback)}

Between == {SetTextureStateTo(x, Mip(1), "CopyDestination"), ExecuteCallback(callback)}

(* Copies, builds and queries, without passes.                             *)
Transferring ==
    [backend |-> "Vulkan", calls |-> Commands, passes |-> {}, targets |-> {},
     programs |-> [b \in BindPoints |-> {}], tables |-> {}, geometry |-> {}, arguments |-> {},
     queryPools |-> {pool}, maxCalls |-> 3, maxPasses |-> 0, maxPassCalls |-> 0]

(* Render passes, with a command between them.                             *)
Drawing ==
    [Transferring EXCEPT
       !.calls = Between,
       !.passes = {"Render"},
       !.targets =
         {[colors |-> <<[view |-> View(ta, Layer(1)), resolve |-> NoView]>>,
           depth |-> [view |-> View(d, Whole), readOnly |-> TRUE]]},
       !.programs["Render"] = {<<p1, r1>>, <<p2, r0>>},
       !.geometry = {<<v, None>>, <<v, w>>},
       !.arguments = {<<g, None>>},
       !.queryPools = {},
       !.maxPasses = 2, !.maxPassCalls = 4]

(* Passes of every kind, with a command before, between or after them.     *)
Mixing ==
    [Transferring EXCEPT
       !.calls = Between,
       !.passes = BindPoints,
       !.targets = {[colors |-> <<[view |-> View(ta, Layer(0)), resolve |-> View(ta, Layer(1))]>>,
                     depth |-> [view |-> View(d, Whole), readOnly |-> FALSE]]},
       !.programs = "Render" :> {<<p1, r1>>} @@ "Compute" :> {<<c1, r2>>}
                      @@ "RayTracing" :> {<<q1, r1>>},
       !.tables = {tab, badtab},
       !.arguments = {<<g, None>>},
       !.maxPasses = 2, !.maxPassCalls = 4]

(* Two passes that draw with a vertex buffer, which is updated in between. *)
Updating ==
    [Drawing EXCEPT !.calls = {CopyBuffer(v, u)}, !.geometry = {<<v, None>>},
                    !.programs["Render"] = {<<p2, r0>>}, !.arguments = {}, !.maxPassCalls = 6]

(* Copies between the layers of one texture.                               *)
Shifting ==
    [Transferring EXCEPT !.calls = {CopyTexture(ta, Layer(1 - l), ta, Layer(l)) : l \in {0, 1}}]

MCUpdating == {Updating}
MCShifting == {Shifting}

(* The same with D3D12, whose recorder leaves the barriers of the argument *)
(* buffers of draws to later commands, resolves first subresources, and    *)
(* may clear what Vulkan copies to.                                        *)
OnD3D12(c) ==
    [c EXCEPT !.backend = "D3D12",
              !.arguments = IF @ = {} THEN @ ELSE {<<ind, None>>},
              !.targets = {[t EXCEPT !.colors[1].resolve =
                              IF @ = NoView THEN @ ELSE View(x, Mip(0))] : t \in @}]

Clearing ==
    [Transferring EXCEPT !.calls = @ \cup {ClearTexture(ta, Layer(1), "Float"),
                                          ClearTexture(x, Mip(0), "Float"),
                                          ClearTexture(ta, Layer(0), "Uint"),
                                          ClearTexture(d, Whole, "DepthStencil")},
                         !.maxCalls = 2]

(* Recorders that keep no states: commands of every kind, and passes with  *)
(* a callback between them.                                                *)
Untracked(backend, c) == [c EXCEPT !.backend = backend]

Passing(passes) ==
    [Mixing EXCEPT !.calls = {ExecuteCallback(callback)}, !.passes = passes,
                   !.tables = {tab}, !.geometry = {<<v, w>>}, !.queryPools = {},
                   !.maxPassCalls = 5]

Rendering == Passing({"Render", "Compute"})
Dispatching == Passing({"Compute", "RayTracing"})

(* With D3D11 a vertex buffer does not change in a pass: it would not be    *)
(* set.                                                                    *)
OnD3D11 ==
    {Untracked("D3D11", c) :
       c \in {Clearing, [Rendering EXCEPT !.geometry = {<<None, w>>},
                                         !.arguments = {<<g, None>>, <<g, w>>}]}}

(* With Metal no command follows a clear of colors: its dispatch has no    *)
(* barrier.                                                                *)
ClearsOfColor == {cmd \in Clearing.calls : cmd.id = "ClearTexture" /\ cmd.value # "DepthStencil"}

OnMetal ==
    {Untracked("Metal", c) :
       c \in {[Clearing EXCEPT !.calls = @ \ ClearsOfColor], Rendering,
              [Clearing EXCEPT !.calls = ClearsOfColor, !.maxCalls = 1]}}

MCClients ==
    {Transferring, Drawing, Mixing, OnD3D12(Clearing), OnD3D12(Drawing), OnD3D12(Mixing)}
      \cup {Untracked(b, Clearing) : b \in {"WGPU", "CUDA", "CPU"}}
      \cup {Untracked("WGPU", Rendering)}
      \cup {Untracked(b, Dispatching) : b \in {"CUDA", "CPU"}}
      \cup OnD3D11 \cup OnMetal
=============================================================================
