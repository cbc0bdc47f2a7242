# slang-rhi: verification models

TLA+ models of [slang-rhi](../src), a C++ rendering hardware interface: one API over Vulkan, D3D11/12, Metal,
CUDA/OptiX, WebGPU and a CPU backend. The modules are translated from the code under `src/src`; line numbers in
`PROJECT.json` ("map") say which lines each definition stands for. TLC checks small instances; TLAPS proves the
theorems of eight modules (section 12) for every value of the constants.

## 1. The system

| Component | Source | State it keeps | Operations | Talks to |
|---|---|---|---|---|
| Task pool | `core/task-pool.*` | FIFO queue, mutex, two condition variables, task refcounts and done flags, group counters, per-thread steal depth | submit, release, wait task, create / wait group, destroy; worker loop | called by pipeline resolver, OptiX, clients; runs their callbacks |
| Staging heap | `staging-heap.*` | pages, node lists per page, used / capacity totals, mapped flags, owning threads | alloc, free, stage, handles, release | command encoders (upload / readback), device buffers |
| Transient buffer heap and arena | `transient-buffer-heap.*` | page list, chunk leases, retained totals, LRU serials; current chunk per arena | lease, return, bump-allocate, reset, trim | command buffers (constant data) |
| Heap and offset allocator | `heap.*`, `core/offset-allocator.*` | pages, two-level bins, neighbour-linked nodes, free-node stack | allocate, free, remove empty pages, report | backends' device memory |
| Command queue (one per backend) | `vulkan/vk-command.cpp`, `d3d12/d3d12-command.cpp`, `cuda/cuda-command.cpp`, `metal/metal-command.cpp` | pool of command buffers, in-flight list, last submitted / finished ID, deferred deletes | create encoder, finish, submit, wait, retire, defer delete | GPU timeline, heaps, query pools, surface |
| Query pools | `rhi-shared.*` | packed (state, submission ID) per slot | reset, mark submitted / resolved, query range | command queue |
| Reference counting and device lifetime | `core/smart-pointer.h`, `reference.h`, `device-child.*`, `rhi.cpp` | total and internal reference counts, breakable device reference, live device count | add / release, make internal / external, break | every object |
| Pipeline resolver, shader programs, shader cache | `pipeline-resolver.cpp`, `pipeline.*`, `shader.*`, `device.*` | specialised programs and pipelines, compile flags, locks | collect, prepare, compile in parallel, publish | task pool, Slang, backends |
| State tracking | `state-tracking.h` | per-buffer and per-subresource states, pending barriers | set state, require default states, clear | command recorders |
| Command recorder (one per backend) | `<backend>/<backend>-command.cpp` | what is bound, open passes or native encoders; Vulkan and D3D12 a state tracker | one handler per command, look-ahead of passes | state tracker, GPU |
| Command encoder and list | `command-buffer.*`, `command-list.*` | linked list of commands in an arena, retained objects, pass objects | write, begin / end pass, finish, reset | staging heap, queue |
| Debug layer | `debug-layer/*` | encoder and pass state, fence maxima, mapped buffers | validation before each forwarded call | the backend object it wraps |
| Shader objects | `shader-object.*` | bound slots, data, version, finalised flag | set data / object / binding, specialise | encoder, layouts |
| Small containers | `core/ring-queue.h`, `core/block-allocator.h`, `core/arena-allocator.h`, `core/virtual-object-pool.h` | ring indices, free lists, pages | push / pop, allocate / free, reset | all of the above |
| Surfaces (one per backend) | `<backend>/<backend>-surface.cpp`, `d3d/d3d-surface.h` | swapchain, fence and semaphores or event per frame, current frame and image | configure, unconfigure, acquire, present | queue, presentation engine |
| Fences, shader tables | backends | a counter, a buffer per pipeline | signal, wait | queue |
| Instance and backend loading | `rhi.cpp` | backends, live device count, debug options | get backend, create device, destroy instance | devices |
| Format tables, string tables, SHA-1, platform glue, NVAPI, Aftermath | the rest of `src/src` | none or external | pure functions, driver calls | not part of the protocol logic |

What is hard in this code:

* real threads in the task pool, in the heaps (`m_mutex`) and in pipeline compilation;
* the GPU as a second, asynchronous actor: memory, command buffers and resources may be reused only after the
  submission that used them finished;
* reference counts with two meanings (total, internal) and two atomics that are not updated together;
* allocators whose bookkeeping spans several structures, and whose error paths leave them half updated;
* parallel compilation where a failed request must not publish anything.

## 2. What is here and what is planned

| Module | Models | Checked by | Proved |
|---|---|---|---|
| `TaskPoolContract` | what `ITaskPool` promises (`include/slang-rhi.h:4047-4116`) | refinement in `taskpool` | `TaskPoolProofs` |
| `TaskPool` | `ThreadedTaskPool`, `core/task-pool.cpp` | `taskpool`, `taskpool_live` | `TaskPoolProofs` |
| `RangeAllocator` | what any suballocator promises | refinements in `suballocators` | |
| `StagingHeap` | `staging-heap.cpp` | `suballocators` | |
| `TransientHeap` | `transient-buffer-heap.cpp`, with the life of the command buffers that own the arenas | `suballocators` | |
| `OffsetAllocator` | `core/offset-allocator.cpp`, as functions of an allocator's state | `suballocators` | |
| `DeviceHeap` | `heap.cpp` with `vulkan/vk-heap.cpp` and `cuda/cuda-heap.cpp` | `suballocators` | |
| `Suballocators` | whichever of the three heaps | `suballocators` | |
| `PipelineResolver` | `pipeline-resolver.cpp`, `shader.cpp`, the pipelines of `device.cpp`, on a task pool that steals | `pipelines` | |
| `StateTracking` | `state-tracking.h` | `recording*` | `CommandEncoderProofs` |
| `CommandRecorder` | `command-list.cpp`, the state the recorders of all backends have, and the GPU that executes what they record | `recording*` | `CommandEncoderProofs` |
| `VulkanRecorder`, `D3D12Recorder` | the recorders that track states, `vulkan/vk-command.cpp`, `d3d12/d3d12-command.cpp` | `recording*` | `CommandEncoderProofs` |
| `UntrackedRecorder` | what the other five share | `recording` | |
| `WGPURecorder`, `MetalRecorder`, `D3D11Recorder`, `CUDARecorder`, `CPURecorder` | one recorder or executor each, `<backend>/<backend>-command.cpp` | `recording` | |
| `CommandEncoder` | `command-buffer.cpp` behind `debug-layer/debug-command-encoder.cpp` | `recording*` | `CommandEncoderProofs` |
| `Recording` | an encoder with the recorder of the client's backend | `recording*` | `RecordingProofs` |
| `CommandQueue` | what the queues of four backends share: encoders, deferred deletes, the device's life | `queue_*` | `CommandQueuesProofs` |
| `VulkanQueue`, `D3D12Queue`, `MetalQueue`, `CUDAQueue` | how each submits, waits and retires, with its GPU | `queue_*` | `CommandQueuesProofs` |
| `CommandQueues` | the queue of whichever backend the device has | `queue_*` | `CommandQueuesProofs` |
| `QueryPool` | query slots, `rhi-shared.cpp`, and their D3D12 and Vulkan readers | `gpu_waits` | `QueryPoolProofs` |
| `SurfaceClient` | a client of a surface behind `debug-layer/debug-surface.cpp` | `gpu_waits` | `SurfacesProofs` |
| `Swapchain` | what `vulkan/vk-surface.cpp` and `cuda/cuda-surface.cpp` share, with the GPU queue and the presentation engine | `gpu_waits` | `SurfacesProofs` |
| `VulkanSurface`, `CUDASurface`, `D3D12Surface` | the surface of each backend | `gpu_waits` | `SurfacesProofs` |
| `Surfaces`, `DeviceWaits` | the surface of whichever backend; query readers or a surface | `gpu_waits` | `SurfacesProofs`, `DeviceWaitsProofs` |
| `RefObject` | `core/smart-pointer.h`, `reference.h` | `refobject_*` | `RefObject` |

The `MC*` modules only add the constants of the instances; `RefObject`, `DeviceWaits`, `CommandQueues` and
`Suballocators` have them at their end and are run as they are. `CommandRecorder` extends `StateTracking`, and each
recorder and `CommandEncoder` extend `CommandRecorder`. The seven recorders are taken with `INSTANCE`, over the same
variables: an encoder writes a list, the recorder of `client.backend` reads it. `CommandEncoder` takes the two that track
states, so that what is proved about these two does not carry the others with it; `Recording` takes the rest.
The four queues extend `CommandQueue`, and `CommandQueues` extends all four: what they name is prefixed with the backend.
`Suballocators` instantiates the three heaps, of which a behaviour exercises one, `subject`; `DeviceWaits` does so with
queries and surfaces. `TaskPool` composes with its contract, each heap with `RangeAllocator` by `INSTANCE ... WITH`.
`PipelineResolver` has the stealing of the pool in it, one step per task, because the question is which task runs on top
of which.

Order of the work left, most important first:

1. `StagingHeap` composed with `CommandQueue`: handles in command buffers, the order of `~DeviceImpl`.
2. Shader objects: versions, finalised objects, what is specialised, and the binding data made of them.
3. The Vulkan device queue (a ring of fences), recycled command buffers in `RefObject` (`setInternalReferenceCount()`
   of an object that is not new), the query pools of the other backends, two readers of the
   D3D12 queue's one event (`d3d12-query.cpp:136`), fences of a submission, several surfaces of one queue.

Theorems worth proving next: `PublishedTogether` and `ModulesReadAfterwards` of the pipeline resolver, from who holds which lock; the
accounts of `TransientHeap`; disjointness of staging allocations from the tiling of a page.

## 3. Task pool

Worker threads and client threads share a queue, a mutex and two condition variables; a thread that waits executes
other tasks meanwhile. A *frame* is a place where code runs: the base of a thread (`workerThread()` or client code) or
the callback of a task. `executeTask(t)` on top of frame `x` suspends `x` (`pc[x] = "exec"`); `parent[t] = x` and
`host[t]` is the thread, so `parent` is the call stack that stealing builds.

| In the model | In `core/task-pool.cpp` |
|---|---|
| `CreateGroup`, `SubmitTask`, `CountTask`, `Enqueue` | `createTaskGroup()`; `submitTask()` up to the group's counter, its `m_tasksRemaining` increment, `enqueue()` with its notifications |
| `ReleaseTask`, `BeginWait`, `EndWait` | the handle calls and the begin and end of the waits |
| `TestDone`, `StealTask`, `LockAndCheck`, `FallAsleep` | the loop of `waitWithStealing()` |
| `Poll` | one round of `workerThread()`: dequeue, park, or leave |
| `FinishCallback`, `PublishDone`, `DropPoolRef`, `LeaveGroup`, `UncountTask`, `NotifyDone` | `executeTask()` from the callback on, one step per shared access |
| `BeginDestroy`, `StopWorkers`, `JoinWorkers` | `~Pool` |
| `WakeSpuriously` | `std::condition_variable` |

Each access to a shared atomic is a step and each critical section of `m_queueMutex` is a step. One critical section is
split: the predicate of `m_stealCV.wait` reads atomics that others change without the mutex, so its evaluation and the
moment the thread blocks are two steps, with `mutex` held in between. `Submits` and `Consumes` are the client program:
which frame may submit what, and wait on or release what. A client may call in any order the interface allows, and stop.

| Run | Instance | States | Shows |
|---|---|---|---|
| `taskpool` | 2 workers, 2 clients, 3 tasks, 1 group | 341 k | two waits at once, a group that grows from inside its own task, a handle that changes hands, an ungrouped task beside them: no wake-up is lost, nothing is freed under a thread, no queued task is left to a parked worker, a wait returns only after its work; the pool implements the contract |
| `taskpool_live` | 1 worker, 1 client, 3 tasks, 1 group, 1 spurious wake-up | 61 k | a callback that waits on its own group: only that group is stolen, every task runs, every wait returns, destruction ends |

Why the bounds suffice: two threads besides the waiter give every order of completion, notification and blocking; a
third task lets an unrelated task be queued between those of a group; two workers distinguish `notify_one()` from
`notify_all()`. The theorems remove the bounds for what they state.

Fairness: weak, per thread and per call in progress. That is what a scheduler gives, with callbacks that return. No
client call is fair. `taskpool_live` keeps to the waits the interface calls safe (a callback waits on groups only,
`slang-rhi.h:4082`); with other waits the pool can deadlock, as the documentation says.

## 4. Staging heap

A page is a sequence of contiguous nodes. `alloc` and `free` hold `m_mutex` and are one step each; `map` and `unmap` run
outside it, so what a thread has mapped is state (`mapping`). Where the backend cannot keep pages mapped, a page is
locked to the thread that allocates from it. `AllocFromPage`, `AllocFromNewPage` and `MapOfNewPageFails` are the
outcomes of `allocInternal()`, `FreeAllocation` is `free()` with the merging of neighbours and the page it may return,
`AbandonAllocation` is the early return of `readTexture()`, `Release` is the destructor's `release()`.

`suballocators` has 2 threads, 3 allocations, 2 pages of 8 units, granularity 2, requests of 1, 5 and 9 units aligned to
3, which is no multiple of the granularity, pages kept mapped with failing maps or locked to threads, one leaking
caller. It shows that nodes tile each page (`PagesTiled`), totals agree with what is live and are zero at release
(`AccountsAgree`), requests are honoured, one thread has a page mapped, one empty page is kept (`RetentionBounded`), and
that the heap implements `RangeAllocator`.

Three allocations are the least with which a free node is merged on both sides; 9 exceeds a page; alignment 3
against granularity 2 makes padding that uses up a node. Threads, allocations and pages are symmetric. Deadlock is not
checked: a client may stop, and after `release()` there is nothing left to do. All sizes are positive; a zero-size
request occupies a node without a byte, and its page is freed under it.

## 5. Transient buffer heap

A queue's constant data. The heap hands out *chunks* of persistently mapped pages, an arena per command buffer bumps
through the chunks it leased and returns all of them when the buffer is reset. Both of `allocate()` and `free()` hold
the heap's mutex and are one step. A page keeps `next` (bump offset), `live` and `chunks`; `emptied` is the order of
`m_lastUsedSerial` among the empty pages, which is all that the serials are used for. `Sources` is the choice of a page:
the current one, the smallest empty one that fits, a new one. `Retained` says which pages the loop of
`trimRetainedPagesLocked()` leaves. Around it `CreateEncoder`, `Finish`, `Submit`, `GpuFinishes`, `RetireFirst`,
`DropBuffer` are the life of a command buffer, with resets that fail, and `BeginShutdown` to `Release` is `shutdown()`
with a wait that may fail. Retiring goes one buffer at a time, because other threads record, and lease, in between.

In `suballocators` there are 2 command buffers, 3 pages, 2 allocations each of 1 or 5 units, pages of 4 to 8 units and a
budget of 8. No two ranges held overlap and a range stays until its buffer is reset (the refinement of
`RangeAllocator`), each page's counters are the sum of the leases on it, the empty pages kept stay within the
budget and no page is dropped that would fit, and the heap is empty when it is released even after failed waits and
resets. Requests of 1 and 5 make chunks that share a page and chunks that need a page of their own; three pages are the
least with which one is live, one kept and one dropped.

### Device memory

`OffsetAllocator` is the two-level allocator as functions of a record: the nodes by their offset with the links to
their neighbours, the bins as lists, the units that are free. `UintToFloatRoundUp` and `UintToFloatRoundDown` are the
8-mantissa floats that number the bins; `MergedNodes`, `Free` and `Allocate` are the operations. `DeviceHeap` has pages
with such an allocator each. `FirstSuitable` is the search of `allocate()`, `CreatedPages` is `createPage()` with the
cache of CUDA, `AtOnce` decides between retiring a freed allocation and adding it to the pending frees, `FlushHeap` and
`RemoveEmptyPages` are the maintenance calls. Submissions use allocations, the GPU finishes those of a stream in
order, `NoticeFinished` is the queue's `m_lastFinishedID`.

`suballocators` has 2 allocations held at a time, of 3, of 8 or 17 bytes aligned to 1 or 8 in pages of 32, 2 submissions, 2 streams,
2 pages. 17 has no bin of its own: it needs the next larger one; pages of both alignments have the same size. Shown: the
nodes of every page tile it and every free node is in the bin of its size; the used nodes are the allocations, the
pending frees are in the order in which they become due; requests are honoured; with Vulkan, memory the GPU still uses is
nobody else's (`GpuRangesApart`); `RangeAllocator` is implemented. With CUDA `GpuRangesApart` does not hold, section 11.

All three heaps together have 223 k states.

## 6. Recording

What a client sets is spread over four pieces of state before the GPU sees it: the pass encoder keeps pipeline, root
object and render state until a draw writes them into the list; the list retains objects; the recorder keeps what it
believes to be bound and skips what did not change; the tracker of Vulkan and D3D12 keeps the state of each resource and the barriers owed.
The model has all four and the GPU, which is what the recorded commands make of it: the state of every subresource and
what is bound at each bind point. `executing` is the last command given to it, with what it needs, what it uses and what
the client had asked for.

| In the model | In the code |
|---|---|
| `Command`, `Timestamp`, `BeginPass`, `BindPipeline`, `SetRenderState`, `LaunchCall`, `EndPass`, `Finish` | `ICommandEncoder` and pass encoders (`command-buffer.cpp`), guarded by what `debug-command-encoder.cpp` checks |
| `Write`, `RetainedBy` | `CommandList::write` |
| `Cmd...`, `FinishRecording` of each recorder | the handlers of its `CommandRecorder` or `CommandExecutor`, the end of `record()` |
| `StatesAhead`, `NeedsAhead`, `PreparedNeeds` of `VulkanRecorder` | `prepareSetRenderState()` and the look-ahead of `cmdBeginRenderPass()` |
| `Recorded`, `BindPipeline`, `BindCompute` of `D3D12Recorder` | states required inside a pass, which barriers D3D12 makes of them, one pipeline and compute root signature for all bind points |
| `native`, `Switch` of `MetalRecorder` | the open native encoder; another kind ends it, with what was bound; barriers between dispatches (`raced`) |
| `SetBufferState`, `SetTextureState`, `RequireDefaultStates` | `StateTracking` |
| `ApplyBarriers`, `bound`, `Launch` | the GPU |

Recording starts in the code when `finish()` is called. In the model the recorder may take commands as soon as no pass is
open, which gives the same result, since it never looks beyond the end of a pass, and keeps the list short.
Failures have their outcomes: binding data that cannot be made (the draw is written without its state), descriptions of
acceleration structures and micromaps that cannot be converted, shader tables without records.

The other recorders keep no states. WebGPU opens a pass encoder with nothing bound; D3D11 clears the context's state at
the end of a pass and compares what it sets with what it set; CUDA and the CPU execute in `submit()` and take note of
no pass. What each of them binds and leaves bound, uses and retains is modelled alike.

The clients are programs that are handed to one backend each:

| Client | What it does | On |
|---|---|---|
| `Transferring`, `Clearing` | 3 of 19 commands, or 2 of 23 with clears of every kind, no passes | Vulkan, D3D12; WebGPU, Metal, D3D11, CUDA, CPU |
| `Drawing` | 2 render passes of up to 4 calls, with changes of state and callbacks between | Vulkan, D3D12 |
| `Mixing` | 2 passes of any kind of up to 4 calls, with resolves, shader tables with and without records | Vulkan, D3D12 |
| `Rendering` | 2 render or compute passes of 5 calls | WebGPU, Metal, D3D11 |
| `Dispatching` | 2 compute or ray tracing passes of 5 calls | CUDA, CPU |

| Run | Instance | States | Shows |
|---|---|---|---|
| `recording` | 10 buffers, 3 textures (of 2 layers or 2 mips), the clients above | 1.3 M | the tracker believes what is true, every command finds what it needs in the state it needs, dispatches of a Metal encoder do not race, barriers in a pass come from indirect draws only, defaults are restored, what is used is retained, draws use what was set |
| `recording_geometry` | Vulkan: two passes that draw with a buffer that is copied to in between | violated | section 11 |
| `recording_layers` | Vulkan: copies between layers of one texture | violated | section 11 |

`NeedsMet` leaves out the vertex and index buffers (`GeometryMet` does not hold), and launches whose binding data failed.
`UsesRetained` leaves out the device-local buffers of CUDA, which its stream keeps in order once they are submitted.
The inputs of some clients are narrower than the interface, where the code is known not to do what the property says:
section 11 lists these cases. Three commands are enough for a texture to go from one state to per-mip states and back;
two passes for a state that is prepared in one and reused in the other. Deadlock is not checked: the client stops.

## 7. Command queue

One thread submits and waits, because `m_commandBuffersInFlight` and the IDs are not synchronised (with CUDA it is also
the thread that creates encoders, as that retires from the same list); others encode and release; the GPU finishes
submissions in order. A buffer moves pool, encoder, client, in-flight list, pool. A resource goes `live`, `pushed` (in
the deferred queue, its device reference not yet broken), `deferred`, `deleted`. `submit()` is split after the IDs were
taken (`BeginSubmit`) and after the driver's call; retiring, with the deferred deletes at its end, is
`...RetireCommandBuffers` of each backend. `deferDelete()` is split where it has dropped the queue's mutex (`ReleaseResource`,
`BreakDeviceReference`). `DeviceReferenced` says who holds the device strongly; `DestroyDevice` is `~DeviceImpl` with
`waitOnHost()` and `shutdown()`. With Vulkan and D3D12 that wait may fail; the model takes the device for lost then, with
its work on the GPU. (If it fails for want of memory, what the GPU still executes is freed under it:
`vk-command.cpp:1923-1926`, `d3d12-command.cpp:1978-1981`.) A resource is either tracked by its buffer or reached by a
handle inside the shader (`RecordRaw`), in which case the client keeps it until the work is submitted.

| | Vulkan | D3D12 | Metal | CUDA |
|---|---|---|---|---|
| an ID is taken | per `submit()` | per `submit()`, and one by each wait | per `submit()`, from 1 | per command buffer |
| the GPU reports it | semaphore signalled by the submission | a separate signal, which may fail after the work was sent | event, then the status of the buffer, one step later | event of some submissions, or an idle stream |
| buffers retire | in submission order, up to the finished ID | alike | those whose status says so | when an encoder finds the pool empty, and in waits |
| buffers are reused | from a pool | from a pool | never | from a pool |
| waiting | `vkQueueWaitIdle()`, may fail | its own ID, may fail before or after the signal | for the last ID | every stream |

CUDA is modelled with streams of the client (`Streams`) that block on the default stream (`StreamsBlock`): one number says
what has finished in all of them, which is only right if they do (section 11).

| Run | Instance | States | Shows |
|---|---|---|---|
| `queue_reuse` | each of the four queues; 2 buffers, 2 resources (1 with D3D12), 2 streams, 2 handles per buffer, failing submissions and resets; 2 IDs with Vulkan, 3 with D3D12 and Metal, 4 with CUDA; an event after each submission without one (`MaxWithoutEvent = 0`) | 2.7 M | no resource the GPU uses is deleted, no buffer in flight is reused, buffers have one owner, deferred deletes are in order, an idle device is collectable |
| `queue_order` | Vulkan, 1 buffer, 1 resource, fairness for the GPU and calls in progress | violated | the finding of section 11 |

Two submissions of two buffers are the least with which one is recycled while another is in flight, and a resource is
dropped between them; D3D12 and CUDA get more IDs because a wait, or a second buffer, takes one. Buffers, resources and
streams are symmetric. Deadlock is not checked: clients may stop, and a device dropped with work in flight is never
destroyed (section 11). `ShutdownAfterSuccess` has the premise that, with Vulkan and D3D12, the last ID taken was reached:
with Vulkan that of the last submission, with D3D12 that of the wait in `shutdown()`. Without it the assertions at
`vk-command.cpp:1933` and `d3d12-command.cpp:1989` can fail.

## 8. Query pool and surfaces

Besides the queues, a host thread waits for the GPU in two places: when it reads queries and when it acquires an image.

A slot is reset, pending or resolved, under a submission ID. `BeginSubmit`, `MarkSubmitted` (one lock of
`m_queryStateMutex` per write) and `SendToQueue` are `submit()`, of nothing too, which is also D3D12's `waitOnHost()`.
Vulkan sends all or nothing; D3D12 may have sent the commands when a signal after them fails, so that nothing signals
the ID (`signals`), or take an ID and return (`FailToWaitForFence`). The reader takes the range's state (`BeginRead`),
waits (`Read`, or `ReturnPending` of `getResultState()`; `ReadFails` if it cannot wait) and marks what it read
(`MarkResolved`), with the lock dropped in between. D3D12 waits on the fence, Vulkan on the availability of the query,
which the GPU withdraws just before it writes it again (`GpuResetQuery`). `value` is the submission whose result a query
holds.

2 slots, 2 submissions and both backends show that a late reader neither resolves what was submitted again
(`ResolvedBehindFence`) nor revives what was reset (`ResetStays`), and that D3D12 reads are as recent as the submission
asked for (`FreshBehindFence`). A D3D12 reader returns once, for each slot it wants, the signal of its ID or of a later
one has been sent (`ReadReturnsBehindFence`, a part of `CallsReturn`); where the signal failed and no other follows it
waits for good, see section 11. Fairness: a submit in progress, the GPU, the reader; not a read that fails. Two
submissions let a slot be reused behind a reader, and one submission make up for the missing signal of the other. With
Vulkan `FreshResults` does not hold, see section 11.

### Surfaces

`SurfaceClient` is what the debug layer lets a client do, and what each call leaves in the layer. Calls that wait are two
steps: the call, and what it does once the wait is over (`host` is the call in between).

| In the model | In the code |
|---|---|
| `BeginReconfigure`, `DestroySwapchain`, `CreateSwapchain`, `D3D12Configure`, `D3D12Unconfigure` | `configure()`, `unconfigure()`, either of which may fail half-way |
| `VulkanAcquire`, `CudaAcquire`, `D3D12Acquire` | `acquireNextImage()` after its fence or event; the image is the engine's choice, or the call fails |
| `sync`, `VulkanSubmit` | `m_surfaceSync` of the queue and the `submit()` that takes it |
| `VulkanPresent` with `TransitionIfNotSubmitted`, `CudaPresent`, `D3D12Present` | `present()`, which may fail, with CUDA also before it submits its copy |
| `fence`, `semaphore`, `Available(f)`, `Finished(i)` | the objects of a `FrameData`: `f` is the frame, `i` the image whose `renderFinishedSemaphore` is taken |
| `known`, `layout` | `m_swapchainImageLayouts`, and the layout the image is in |
| `stream`, `LaunchKernel`, `KernelFinishes` | work on the default stream that writes the shared texture of the frame |
| `event`, `armed`, `signals` | `m_frameEvents`, `SetEventOnCompletion()`, signals of `m_fence` on their way |
| `Execute`, `Show`, `BecomeAvailable` | the Vulkan queue, in order; the engine, in any order, but presentations of one image one after the other; it may name an image whose presentation is still to come, and signals when that is over |

`gpu_waits` has 3 images and as many frames, at most 2 submissions of the Vulkan client queued (the transition of `present()`
comes on top, which makes a queue of 3), 2 kernels. Together with the queries it has 341 k states. It shows that
semaphores are signalled and waited for in turn and fences are reset before they are used again, also after failures and
new configurations, and nothing the GPU or the engine holds belongs to a swapchain that is gone (`SyncObjectsPaired`); that
an image is written only after it became available and shown only when it is drawn, in the layout for presentation, and a
shared texture is not written while it is copied (`ImagesHandedOver`); that at most as many frames as images are under way,
one more with D3D12 (`FramesThrottled`); and that every call to a surface returns (`CallsReturn`). Three images are what a client
asks for by default, and enough for the images to come back in another order than the frames go round: with a semaphore
per frame, `ImagesHandedOver` fails. Deadlock is checked: the client may always configure between frames.

The client: it configures between frames, and after `acquireNextImage()` or `present()` failed it configures or unconfigures
before it goes on; it draws a frame in the first `submit()` after acquiring; with D3D12 it waits for the GPU before it
configures, as the tests do (`tests/test-surface.cpp:77-79`), because that surface does not. `vkQueueWaitIdle()` is taken to
cover the semaphores of presentations, as the code relies on. Fairness: a call that can go on, the GPU, the
stream and the engine, each weakly, with whatever comes next; no call of the client is fair. The timeline semaphore of
CUDA's copy, signalled by the host before the copy is submitted, and
failures of `vkQueueSubmit()` in Vulkan frames are left out, those of the transition `present()` submits included
(section 11 says what they leave behind). An acquisition that is pending when the swapchain is destroyed is dropped with
its semaphore (`acquiring' = {}`): `vkQueueWaitIdle()` does not cover it (`vk-surface.cpp:389-416`,
`cuda-surface.cpp:541`), and `SyncObjectsPaired` says nothing of its signal. With D3D12, `m_queue->Signal()`, whose
result `present()` ignores (`d3d12-surface.cpp:96`), does not fail.

## 9. Reference counting

An object held by its parent (one internal reference) whose own reference to the parent is strong only while somebody
else holds it. `Add` and `Release` are the atomic, `FinishAdd` and `FinishRelease` what is decided from the value it
returned. `refobject_threads` (3 clients, 2 handles each, 81 k states) shows that the object is not deleted under a
holder, and that both go when the clients dropped both, with calls in
progress and the parent's destruction fair. `refobject_race` is the finding of section 11.

## 10. Pipelines

A command encoder records pipelines that may not exist yet: *virtual* pipelines of a program with specialisation
arguments, or of a deferred one. `finish()` resolves them under `m_pipelineResolutionMutex`: it collects what is missing,
specialises and locks the programs, compiles their entry points, installs the modules, creates the concrete pipelines and
patches the commands. Compilations and creations are tasks of the pool, and the thread that waits for them executes
whatever is queued. Pipelines that are created at once take the lock of their program only.

| In the model | In the code |
|---|---|
| `CreateVirtual`, `BeginCreate`, `CompileShaders` | `create...Pipeline()`, `compileShaders()` |
| `BeginFinish`, `Resolve`, `RequestsFor`, `PrepareProgram`, `Compile`, `Compiled`, `Install` | `finish()`, `collectRequests()`, `preparePrograms()`, `compilePrograms()` with its wait in the middle |
| `CreateOnPool`, `CreateInline`, `Finish` | `createPipelines()`, `finalize()` |
| `ResolveCommand` | `resolveSerial()` and `getConcretePipeline()`: the CPU, and devices in serial mode |
| `TakeTask`, `RunCompile`, `RunCreate`, `FinishNested`, `RunOptix` | `tryDequeue()` with the filter of `waitWithStealing()`, the callbacks, `executeOptixTasks()` |
| `program[i]` | lock, modules and `m_compiledShaders` of a `ShaderProgram` |
| `published` | the shader cache and the concrete pipelines of virtual ones, by `PipelineKey` |

Each acquisition of a lock, each wait and each task is a step. Everything that can fail does: specialisation,
reflection, compilation, the second of two modules, creation, an OptiX task, and recording after resolution; the client
may call `finish()` again. `Devices` are the combinations that differ: Vulkan (D3D11 and D3D12 alike, but that their modules
do not fail), CUDA with the nested groups of OptiX, Metal (and WebGPU), which create pipelines on the calling thread,
the CPU, and Vulkan in serial mode.

`pipelines` (2 clients with 2 and 1 calls, 1 worker, 2 plain pipelines of one program and one with 2 entry points that
needs arguments; 124 k states) shows that the commands of a finished list use what they were
recorded with, made of all modules of its program and alive (`CommandsResolved`); that a published pipeline is never
replaced and a failed resolution publishes nothing (`PublishedTogether`); that no module is installed while a task may
read the modules of that program (`ModulesReadAfterwards`); and that every call returns (`EveryCallReturns`). Two pipelines
of one program share its lock and its modules; a list with three pipelines makes batches of two compilations and of
several creations; one worker and a waiting client are enough to have every task taken by either. Deadlock is checked: the
client may always release or finish.

Fairness: weak for a thread in a call, and for each worker, which a scheduler gives. A `std::mutex` is not fair, but
calls are bounded here, so a lock that is waited for is in the end free for good. The model leaves out callbacks of the
client in the same pool that call into the device (section 11), and every pipeline has an address of its own.

## 11. Where the code does not do what it says

* `queue_order`: a client that drops everything with work in flight leaves the device, its queue and the buffer in
  flight in a cycle nobody breaks, as only `submit()` and `waitOnHost()` retire (`vk-command.cpp:2055`,
  `reference.h:36`).
* `refobject_race`: two threads that act on the counts in the other order than they changed them leave a held object
  with a weak reference to its parent (`smart-pointer.h:117`, `reference.h:36`).

* `recording_geometry`: `prepareSetRenderState()` compares vertex and index buffers with those of the last draw and
  requires nothing when they are the same, also in a later pass; a copy into the buffer between two passes is not
  followed by a barrier back (`vk-command.cpp:707`, `vk-command.cpp:159`; D3D12 compares alike, `d3d12-command.cpp:841`).
* `recording_layers`: a state set for a range of layers is put on every layer from the first of the range to the last of
  the texture (`state-tracking.h:86`, `slang-rhi.h:897`), so that a copy between two layers writes a layer that was put
  into `CopySource`.

What no run of the list shows, because the inputs of the runs leave it out:

* Staging: `allocPage()` leaves a page it could not map in the heap, and the next allocation is cut from it; `map()` then
  returns an address relative to null (`staging-heap.cpp:246`, `staging-heap.h:211`). `MapOfNewPageFails` is the step.
* Pipelines: specialised pipelines are found by the address of the virtual pipeline (`device.cpp:97`, `device.h:84-110`),
  and nothing removes them when it is released: a pipeline created later at the same address, recorded with the same
  arguments, is given the earlier one. With such an `AddressOf` in `pipelines`, `CommandsResolved` fails after 16 steps.
* Pipelines: a module that cannot be created leaves those before it, with Vulkan also an empty one
  (`vk-shader-program.cpp:130`), and the next attempt appends all of them again (`shader.cpp:229-241`); Vulkan's compute
  pipelines use the first (`vk-pipeline.cpp:846`). `CommandsResolved` leaves such programs out (`broken`).
* Pipelines: "Pipelines that perform nested work on that pool must return false" (`device.h:453`), and
  `pipeline-resolver.cpp:429` says so of CUDA's, but CUDA returns true for all (`cuda-device.h:24-28`). `EveryCallReturns`
  shows that no deadlock comes of it: a nested wait for a group steals that group's tasks.
* Pipelines: a callback of the client in the global pool that calls `finish()` may be stolen by a thread that resolves on
  the same device and then locks the mutex this thread holds.
* Device memory: CUDA frees at once what was allocated without a stream, or from a page without other streams'
  events (`cuda-heap.cpp:334`). Events are recorded when memory is allocated, before the work that uses it, and
  `Heap::allocate()` asks neither for them nor for the stream, so memory freed on one stream is reused on another while the
  first still runs, although "Before reusing the page, we check all events have completed" (`cuda-heap.cpp:30-32`). The
  default stream, a null pointer, is taken as no stream.
* Device memory: neither backend returns `SLANG_E_OUT_OF_MEMORY`, so the second attempt of `heap.cpp:77-83` is never
  made; a page whose alignment is half its size has two nodes, refuses every request and stays; sizes above 4 GiB are
  truncated (`heap.cpp:48`); a zero-size allocation leaves its page empty, and `removeEmptyPages()` frees it under it.
* Queries: Vulkan's `getResult()` on a slot that is used again may return the earlier result, because the query is
  available until the GPU resets it (`vk-query.cpp:132`, `slang-rhi.h:2459-2462`); `FreshResults` of `QueryPool` as a
  property of `gpu_waits` shows it. Slots are marked pending before `vkQueueSubmit()` is known to succeed
  (`vk-command.cpp:2050`); if it fails, their reader waits for good. So does D3D12's when a signal fails after
  `ExecuteCommandLists()` (`d3d12-command.cpp:2119-2126`), until a later submission or wait signals: `getResult()` waits
  without limit for an ID nobody signals (`d3d12-query.cpp:127-136`), although the work it "blocks until" is complete.
  It does so on the queue's own event and then retires the queue's buffers (`d3d12-query.cpp:129-138`), so on another
  thread than the one that submits it may be woken for the other's ID; the model's reader has a wait of its own.
* Reference counts: `setInternalReferenceCount()` is called whenever a command buffer is reused (`vk-command.cpp:1957`),
  while clients may release old handles to it on other threads; `smart-pointer.h:136` wants objects just created.
* Surfaces: `acquireNextImage()` resets the fence of the frame before it asks for an image; if that fails nobody signals
  it, and the next `acquireNextImage()` without a new configuration waits forever (`vk-surface.cpp:506-526`,
  `cuda-surface.cpp:937-955`). `present()` moves on to the next frame before the steps that may fail, with the same effect one
  round later.
* Surfaces: a new configuration between `acquireNextImage()` and `submit()`, which the debug layer permits, leaves destroyed objects
  in `m_surfaceSync`; so does a failed `vkQueueSubmit()` with the fence alone (`vk-command.cpp:2072-2097`, `vk-command.cpp:2131-2132`). Two
  surfaces of one device overwrite each other's. When `present()` cannot make or submit its transition
  (`vk-surface.cpp:557-568`), it has moved on to the next frame and `m_surfaceSync` keeps the objects of the last.
* Surfaces: D3D12's `configure()` lets go of `m_swapChain3` before it validates the arguments; when it rejects them,
  `m_configured` stays true and the next `acquireNextImage()` calls through null (`d3d12-surface.cpp:59-62`,
  `d3d-surface.h:113`). `D3D12Configure` takes valid arguments.
* Surfaces: "Semaphore to signal when the rendering to the swapchain image is finished" (`vk-surface.h:27`) is signalled
  by the first of several submissions of a frame; if that one does not draw to the image, neither does `present()`
  make the transition, and the image is presented in an undefined layout.
* Surfaces: D3D12 arms the event of an image before it counts the frame (`d3d12-surface.cpp:91-95`), so the event is that of the
  frame before, and one more frame is under way than there are images.
* D3D12: an indirect draw requires states of its argument buffers and commits no barriers (`d3d12-command.cpp:1003-1049`);
  a compute pass whose pipeline is replaced by a failing ray tracing state leaves the other bind points valid
  (`d3d12-command.cpp:1154-1176`, three passes); the stride of a vertex buffer is not set again when only the pipeline
  changes; a resolve covers the first subresource only, which the code marks as to do (D3D11 alike).
* D3D11: vertex buffers, viewports and scissors are set when they are equal to the last ones and not when they differ
  (`d3d11-command.cpp:499-518`, `arraysEqual` without a negation); an indirect dispatch is made without a valid state.
* Metal: a clear runs on the compute encoder and does not count as a dispatch, so no barrier follows it; vertex buffers
  are not bound again at the offset of a new pipeline; a callback is given the command buffer while an encoder may be open.
* The debug layer accepts a layer above 0 with a layer count of 0, whose fix-up fails assertions in WebGPU and D3D11;
  WebGPU ignores resolve targets.
* CUDA: device-local buffers of root objects are not retained between encoding and submission
  (`cuda-command.cpp:1391`); streams that do not block on the default stream break the single finished ID
  (`cuda-command.cpp:1208`), as does a submission between `cuStreamQuery()` and `m_lastFinishedID = m_lastSubmittedID`
  from another thread (`cuda-command.cpp:1043`); a failing event in `signalFence()` leaves a buffer that executes out of
  the in-flight list.
* Metal: when the empty command buffer of a `submit()` cannot be made, its ID is taken and never signalled, and
  `waitOnHost()` waits for it (`metal-command.cpp:1338`).

## 12. Proofs

The theorems hold for every value of the constants that satisfies the named assumptions, which TLC evaluates on every
run: `TaskPoolAssumption` (finite, disjoint sets of frames, at least one worker), `RefObjectAssumption`,
`QueryPoolConstants`, `SurfacesConstants` (a finite set of images, numbered from 0, at least one),
`CommandQueueAssumption` (finite sets of buffers and resources), `StateTrackingAssumption` (buffers and textures are
different things, a texture has at least one layer and one mip level, no default state is `Undefined`),
`DefaultsAssumption` (finitely many resources, each with a default state it can be in) and
`CommandEncoderAssumption` (what clients pass has the types of the interface; states are set on plain buffers, and to
states of plain buffers or textures, because D3D12 has no barrier into or out of the states of acceleration structures and
micromaps). Bounds are constants there, so they are arbitrary too.

| Module | Theorem | Says |
|---|---|---|
| `TaskPoolProofs` | `TypeCorrect` | `Spec => []TypeOK` |
| | `WaitersNotified` | `NoLostWakeup`: a blocked waiter has nothing to steal, and if its wait is done a notification is to come |
| | `GroupsOutliveTasks` | `GroupsAlive`: a group is not deleted while a task enters it or has to leave it |
| | `WaitsCover` | `WaitedWorkFinished`: when a wait returns, all it covers has run and left the counters |
| | `TasksOutliveUses` | `TasksAlive`: no task is deleted while the pool, a call or a handle refers to it, and none leaks |
| | `WaitsStealTheirOwn` | `NestedStealing`: a callback that waits executes tasks of its group only |
| | `WorkersWakeForTasks` | `NoIdleWorker`: while a worker is parked, each queued task has an awake worker coming for it |
| | `PoolImplementsContract` | `Spec => ImplementsContract`: every step is one of `TaskPoolContract`, or a stutter |
| `RefObject` | `TypeCorrect`, `NobodyHoldsDeleted` | `DeletedUnheld`: the object is deleted only when nobody refers to it |
| `QueryPoolProofs` | `QueriesTyped` | the types; its other lemmas are lifted by the next module |
| `DeviceWaitsProofs` | `ResolvedWritten` | `ResolvedBehindFence`: a resolved slot of D3D12 has the result of its submission |
| | `ReadsAreFresh` | `FreshBehindFence`: what a D3D12 reader copies is as recent as what it asked for |
| | `ResetsStay` | `ResetStays`: no read under way resolves a slot that was reset |
| | `Throttled` | `FramesThrottled`: fences on the queue and frames ahead of the device are bounded by the images |
| | `Paired` | `SyncObjectsPaired`: what waits for a semaphore is signalled, nothing twice, and a fence is of one submission |
| | `HandedOver` | `ImagesHandedOver`: an image is drawn once it is available and shown once it is drawn |
| `CommandQueuesProofs` | `QueueInvariant` | the inductive invariant of the four queues |
| | `ResourcesAlive` | `GpuResourcesAlive`: nothing the GPU uses is deleted |
| | `BuffersUntouched` | `InFlightUntouched`: no buffer on the GPU is in a pool, with an encoder or a client |
| | `NothingLeft` | `ShutdownAfterSuccess`: the queue is empty when its device goes, if its last ID was reached |
| | `DeviceFreed` | `NoCycleLeft`: an idle device that clients dropped is held by nobody |
| `CommandEncoderProofs` | `VulkanTruthful`, `D3D12Truthful` | each command these recorders record keeps what the tracker believes true of the GPU |
| `RecordingProofs` | `RecordingInvariantHolds` | the inductive invariant of encoder, list and recorder, on all seven backends |
| | `TrackerAlwaysTruthful` | `TrackerTruthful`: what a tracker believes is what the GPU will have once the barriers owed are recorded |
| | `DefaultsAlwaysRestored` | `DefaultsRestored`: a closed command buffer leaves every resource in its default state |
| | `UsesAlwaysRetained` | `UsesRetained`: whatever the GPU is given to use is retained until the command buffer is reset |
| | `BarriersAlwaysOutsidePasses` | `BarriersOutsidePasses`: Vulkan's barriers in a render pass are those of draws that take arguments from a buffer only |

None of these properties is inductive but the types. Where the strengthening was not obvious TLC checked it first, as an
invariant of the run that checks the property. An invariant has a lemma for `Init` and one for `Next` for each of its
parts, with a step per action; lemmas named `...Kept` and `...Moved` are for the actions that leave its variables alone or
change them in the same way.

**Task pool, safety.** `PoolInv` is the conjunction of `TypeInv` (with what the argument of a frame is at each point of
its code); `StackInv` (a running task lies on a frame that executes it, on the same thread, no two on one frame, a
thread has one frame on top: without it a finished task could resume a frame in the middle of a wait); `QueueInv` (what
is queued is queued once; what is being submitted is fresh and has one submitter); `GroupInv` (`pending[g]` is the number
of tasks that count in `g`, which makes `pending = 0` mean that all left); `TallyInv` (the same for `m_tasksRemaining`,
and no client submits while the pool closes, so zero stays zero); `WaitInv` (a frame that waits on a group owns it and
the group is alive; a frame past its wait finds it still done); `SleepInv` (the mutex is held exactly by the waiter
between predicate and blocking; a waiter there or blocked has nothing to steal and, if done, some task has not
notified yet; the notification needs the mutex, hence comes later).

**Task pool, lifetime and contract.** `SafetyInv` adds to `PoolInv`: `DoneInv` (a task is done from its publication on);
`ArgsInv` (a handle is in one place: held, or in one call); `CloseInv` (past its drain `~Pool` finds nothing counted);
`RefInv` (the count of a task is one for the pool and one for the handle, as long as each is there), from which
`TasksAlive` follows; `DepthInv` (`tls_stealDepth` is the number of callbacks on the thread's stack), which
`NestedStealing` rests on; `NoIdleWorker`, which is inductive given these. The contract's variables are functions of
where each frame is (`StatusByPlace`); a step that moves no task between statuses and no frame into or out of a wait is
a stutter (`ContractKept`), the others move one task (`StatusMoved`) or one wait (`WaitsMoved`).

**Reference count.** `CountInv`: the count is the number of the clients' references, counting one that is being added,
and the parent's. A count that was zero once stays zero, as nobody has anything to add a reference from.

**Query pool.** `InOrder` (submissions are in the order of their IDs in the queue, behind its fence and in what the
queries hold) gives `SlotsInv` and `ReaderInv`: the ID in a slot, or the one a reader took from it, is of a submission that
wrote the slot or is still to write it (`Written`). A reader that has waited for the fence therefore finds the first.

**Surfaces.** `CallInv` and `SyncInv` say where in a frame a call is and that objects are left for the next submission
in an open frame only; `FenceInv`, that a fence is of one submission and was reset before, which bounds the
submissions with a fence by the frames; `EventInv`, that the fence of D3D12 is behind by no more frames than went by since an
image whose event is set (`Age`).

Semaphores and images need more (`HandInv`), because images come back in another order than frames go round. Steps are
first put into twelve kinds (`Move`), which forget the backend and say what happens to the chain; each part of `HandInv`
has one case per kind. `ShapeInv`: a submission either draws nothing or waits for its frame and signals its image.
`SwapchainInv`: without a swapchain nothing is under way. `AcquiredInv`: an acquisition signals a semaphore that is not
signalled, alone, behind at most one presentation of its image. `PromiseInv`: who waits for a frame's semaphore will
have it, and the fence of the frame is not signalled meanwhile, so the frame is not acquired for again. `LateInv`, the
core: if an image is drawn and not yet shown, whoever draws it next waits for an acquisition that is behind its presentation;
so when a draw executes, the semaphore of its image is not signalled. `DueInv`: what is or will be presented is drawn as
often (at most twice). `LayoutInv` and `TextureInv` follow the layouts and the textures shared with CUDA along these.

**Lifting.** `DeviceWaitsProofs` instantiates the two proof modules and shows that the steps of `DeviceWaits` are, for the
half a behaviour is about, steps of the module the theorem is of.

**Command queues.** `QueueInv` has a part for each thing that has to agree: a buffer has one owner (`OwnerInv`); a submission
under way is in flight under the newest ID (`SendInv`); a resource is live exactly while somebody refers to it (`LiveInv`),
and in the deferred queue, once, in the order of IDs, exactly while it is neither live nor deleted (`DeferredInv`); what is
recorded and not yet sent is referred to (`RecordedInv`); work on the GPU has IDs in order and above what is taken as
finished (`IdsInv`); its buffers are in flight under its ID (`BuffersInv`); what it uses is live, or deferred behind an ID
no smaller than its own (`UsesInv`); events of CUDA are in order, each stream of a client has one for its work, and work on
the default stream keeps later ones from being reached (`EventsInv`); the end finds nothing left (`EndInv`). The core
is that the prefix of the deferred queue that `finished >= id` deletes has no resource of `UsesInv`, because what uses it
has an ID that is not reached. The theorems have the hypothesis `Blocking`: if CUDA is among the backends, streams block
on the default stream. Without it they are false, which section 11 reports: the one finished ID then says nothing
about the other streams. Vulkan, D3D12 and Metal need no hypothesis.

**Recording.** The states first. `Follows(t, u)` says that a tracker `u` owes the barriers that `t` owes and after them some
that take what `t` believes to what `u` believes; `RequireSound` and `DefaultsSound` show that requiring a state of any range of
any resource, or of all resources at the end, preserves it: a texture with one state for all of it is split into one per
subresource, or joined again, without losing a barrier. A command requires a sequence of states, so the lemmas on
sequences go by induction on their length, with `Nat` and a least counterexample in place of the theorem with an operator
as parameter. Then the commands: each handler commits a tracker that `Follows`, or keeps it for the next command
(`VulkanTruthful`, `D3D12Truthful`). They hold only for commands that make sense, hence `Encoding`: what is in the list has
the types of the interface (`TypedList`, from `CommandsEncode`, `PassCallsEncode` and the others, one per call of the
client), and a render pass that is open in the list and not in the encoder has its end in the list (`PassesEnd`). The last is
what makes the look-ahead of Vulkan defined: `CmdBeginRenderPass` reads on until the end of the pass, over the states of
the draws in it. The five other recorders keep no states, so they change neither the tracker nor the states of the GPU.

**Retention.** The retained set only grows until a new command buffer takes over, so it is enough that what is given
to the GPU was retained when it was written. It is given later, though, from elsewhere: from the list, the root object bound at a
bind point, the geometry of the state the next draw will write, the targets of the open pass. `Retaining` says of each of
these that it is retained (`HeldList`, `HeldGeometry`, `Holding`), and so is what the last command executed with
(`Fed`), buffers of a CUDA stream excepted. It has one lemma per handler of each of the seven recorders, and one per call of
the client that what it writes names only what it retained (`HeldCommand`). It rests on `RecordingInvariant`, because a
handler does something defined only with a command that makes sense, and on one fact more: the shader table that Vulkan
and D3D12 keep in a member of their own, which is what they launch with, is the one of the bound state (`BoundTable`).

**Barriers in passes.** The only command that requires a state inside a pass is a draw that takes its arguments from a
buffer; what the other commands need was put in place before the pass began. So no barrier may be owed when the pass
opens or be left over from a pass that never closed, and that is `OnePass`: a render pass is alone in the list from its
beginning until its end is recorded (`Begins`, `Closes`, `PassIds`); and while Vulkan's pass is open, the list still to
be recorded ends with that end and holds only commands of a pass, and the tracker owes no barriers. `PassGoesOn` says what
each handler keeps of it, given `RecordingInvariant` and `Retaining`.

Only model-checked: what rests on fairness or `ENABLED` (`EveryTaskRuns`, `EveryWaitReturns`, `DestructionCompletes`,
`EveryCallReturns`, `CallsReturn`, `Collected`), as no backend here proves it; what a recursive search or fold over data
computes (`OffsetAllocator`, and with it `RequestsHonoured`, `PagesTiled`, `AccountsAgree` and `GpuRangesApart` of
`Suballocators`), as that takes induction with an operator for a parameter; and, for want of a proof, `NeedsMet` and
`DrawnAsAsked` of `Recording`, and `CommandsResolved` of the pipeline resolver.
`NeedsMet` does not follow from `TrackerTruthful` alone: that a state required before a pass, or by a state command, is
still there at the draw needs an account of everything required in between.

## 13. Not modelled

`PROJECT.json` lists every component with its status. Left out for good: tables of formats and strings, hashes,
platform glue, NVAPI and Aftermath (pure functions or driver calls); queues of D3D11, WebGPU and the CPU (they execute in
`submit()` and retire nothing later); `BlockingTaskPool` (runs each task in the call). Left out of modelled parts:
debug markers, viewports, queries of acceleration structures, the persistent shader cache and compilation reports,
the destructors of the device heaps, fences of a submission, the surfaces of D3D11, Metal and WebGPU (they pass the
calls on to the system), checks of single arguments in the debug layer, validation of query ranges, the replacement of
the global task pool, two threads calling `submit()` at once. What these leave uncovered is noted at the hazards of
`PROJECT.json` that no property names.
