-------------------------- MODULE PipelineResolver -------------------------
(* Pipelines that are compiled when a command encoder is finished           *)
(* (pipeline-resolver.cpp, the pipelines and programs of device.cpp and     *)
(* shader.cpp), by client threads and the workers of the task pool, of      *)
(* which a thread that waits executes tasks too.                            *)
EXTENDS Integers, FiniteSets, SequencesExt

CONSTANTS
    Threads,           \* client threads, outside of callbacks of the pool
    Workers,           \* threads of the task pool
    Devices,           \* kinds of devices, of [backend, mode]
    Programs,          \* shader programs of the client
    EntryPoints,       \* [Programs -> Nat]: entry points of each
    Arguments,         \* specialisation arguments, as their component IDs
    Specializable,     \* the programs that need arguments
    Pipelines,         \* pipelines the client may create
    ProgramOf,         \* [Pipelines -> Programs]
    AddressOf,         \* [Pipelines -> addresses]: where the allocator puts each
    RayTracing,        \* the pipelines that OptiX compiles with tasks of its own
    Kept,              \* the deferred pipelines it made before, and keeps
    Lists,             \* what clients record: sequences of [pipeline, args]
    MaxOptixTasks,     \* bound: tasks OptiX makes of one pipeline
    MaxCalls,          \* bound: [Threads -> Nat], calls of each that compile something
    NoArguments, None, Failed

PipelineResolverConstants ==
    /\ EntryPoints \in [Programs -> Nat \ {0}]
    /\ Specializable \subseteq Programs
    /\ ProgramOf \in [Pipelines -> Programs]
    /\ RayTracing \subseteq Pipelines /\ Kept \subseteq Pipelines
    /\ Devices \subseteq [backend : {"Vulkan", "CUDA", "Metal", "CPU"}, mode : {"Serial", "Parallel"}]
    /\ MaxOptixTasks \in Nat /\ MaxCalls \in [Threads -> Nat]
ASSUME PipelineResolverConstants

VARIABLES
    device,       \* a member of Devices
    program,      \* program[i]: m_compileMutex, modules, m_compiledShaders
    specialized,  \* m_specializedPrograms of all programs
    state,        \* state[v]: "none", "virtual", "creating", "concrete"
    published,    \* concrete pipelines, of the shader cache or the virtual pipeline
    resolving,    \* who holds m_pipelineResolutionMutex
    call,         \* call[t]: the call of a client in progress
    queue,        \* queued tasks
    stack,        \* stack[th]: the tasks it executes, one on top of another
    results,      \* results of tasks nobody asked for yet
    calls         \* number of calls of each so far

locks == <<device, program, specialized, state, published, resolving>>
pool == <<queue, stack, results>>
vars == <<locks, call, pool, calls>>
----------------------------------------------------------------------------
(* Programs, pipelines and commands. *)

ArgumentsFor(p, a) == IF p \in Specializable THEN a ELSE NoArguments
Instance(c) == [base |-> ProgramOf[c.pipeline], args |-> ArgumentsFor(ProgramOf[c.pipeline], c.args)]
Instances == [base : Programs \ Specializable, args : {NoArguments}]
             \cup [base : Specializable, args : Arguments]

\* Mutant: specialised pipelines are told apart by their program's arguments only.
KeyWithoutPipeline(c) == [address |-> None, args |-> Instance(c).args]

\* PipelineKey: an address and component IDs.
Key(c) == [address |-> AddressOf[c.pipeline], args |-> Instance(c).args]

\* The concrete pipeline of a command if there is one: itself, that of its
\* virtual pipeline, or that of the shader cache.
Known(c) == IF Key(c) \in DOMAIN published THEN published[Key(c)] ELSE None

Module(n, whole) == [entry |-> n, whole |-> whole]
ModulesOf(i) ==
    IF device.backend = "CPU" THEN <<>>
    ELSE [n \in 1 .. EntryPoints[i.base] |-> Module(n, TRUE)]

ResolvesSerially == device.mode = "Serial" \/ device.backend = "CPU"

\* canCreatePipelineOnTaskPool(): Vulkan, D3D11, D3D12 and CUDA; not Metal
\* and WebGPU.
CanCreateOnPool == device.backend \in {"Vulkan", "CUDA"}
IsNested(v) == device.backend = "CUDA" /\ v \in RayTracing

\* createShaderModule(): Vulkan keeps the entry of a module that could not be
\* created, Metal and WebGPU do not, the others cannot fail.
ModulesMayFail == device.backend \in {"Vulkan", "Metal"}
Remains(n) == IF device.backend = "Vulkan" THEN <<Module(n, FALSE)>> ELSE <<>>

\* installCompiledEntryPoints(): the modules of every entry point, or of those
\* before one that fails.
Installed(i) == [program[i] EXCEPT !.modules = @ \o ModulesOf(i), !.compiled = TRUE]
PartlyInstalled(i) ==
    {[program[i] EXCEPT !.modules = @ \o SubSeq(ModulesOf(i), 1, n - 1) \o Remains(n),
                        !.broken = TRUE] : n \in IF ModulesMayFail THEN DOMAIN ModulesOf(i) ELSE {}}
----------------------------------------------------------------------------
(* Calls of a client. *)

Idle == [at |-> "idle", list |-> <<>>, requests |-> <<>>, works |-> <<>>]
Resting == {"idle", "failed", "finished"}
Goes(t, at) == call' = [call EXCEPT ![t].at = at]

Request(c) == [pipeline |-> c.pipeline, key |-> Key(c), program |-> Instance(c), concrete |-> Known(c)]

\* One request for all commands with the same key.
RequestsFor(list) ==
    FoldLeft(LAMBDA rs, c : IF \E i \in DOMAIN rs : rs[i].key = Key(c)
                            THEN rs ELSE Append(rs, Request(c)), <<>>, list)

Missing(t) == SelectSeq(call[t].requests, LAMBDA r : r.concrete = None)
Unresolved(t) == {n \in DOMAIN call[t].list : call[t].list[n].uses = None}
Task(t, kind, r, n) ==
    [kind |-> kind, owner |-> t, program |-> r.program, pipeline |-> r.pipeline, point |-> n]
CompileTasks(t) ==
    FlattenSeq([w \in DOMAIN call[t].works |->
        [n \in 1 .. call[t].works[w].points |->
            Task(t, "compile", [program |-> call[t].works[w].program, pipeline |-> None], n)]])
CreateTask(t, r) == Task(t, "create", r, 0)
CreateTasks(t) == [n \in DOMAIN Missing(t) |-> CreateTask(t, Missing(t)[n])]

AllDone(tasks) == ToSet(tasks) \subseteq DOMAIN results
AnyFailed(tasks) == \E x \in ToSet(tasks) : results[x] = Failed
Keep(Test(_)) == RestrictDomain(results, Test)

\* Mutant: an early return forgets the locks of the programs.
StillLocked(f, t) == f

\* Leaving the scope of a ProgramWork unlocks its program.
Unlocked(f, t) ==
    [i \in Instances |-> IF f[i].lock = t THEN [f[i] EXCEPT !.lock = None] ELSE f[i]]

\* finish(), or a creation, returns an error, with the programs as f says.
FailWith(t, f) ==
    /\ program' = Unlocked(f, t)
    /\ resolving' = IF resolving = t THEN None ELSE resolving
    /\ results' = Keep(LAMBDA x : x.owner # t)
    /\ IF call[t].list = <<>>
       THEN /\ call' = [call EXCEPT ![t] = Idle]
            /\ state' = [state EXCEPT ![call[t].requests[1].pipeline] = "none"]
       ELSE /\ call' = [call EXCEPT ![t] = [Idle EXCEPT !.at = "failed", !.list = call[t].list]]
            /\ UNCHANGED state
Fail(t) == FailWith(t, program)

\* The resolver is done; recording may still fail, then finish() can be called again.
Return(t, list) ==
    /\ \E at \in {"finished", "failed"} :
           call' = [call EXCEPT ![t] = [Idle EXCEPT !.at = at, !.list = list]]
    /\ resolving' = None
----------------------------------------------------------------------------
(* Creating and releasing pipelines. *)

AddressFree(v) == \A u \in Pipelines : state[u] # "none" => AddressOf[u] # AddressOf[v]
InUse(v) == \E t \in Threads : \E c \in ToSet(call[t].list) : c.pipeline = v

\* create...Pipeline(), of a specialisable program or deferred.
CreateVirtual(t, v) ==
    /\ call[t].at = "idle" /\ state[v] = "none" /\ AddressFree(v)
    /\ state' = [state EXCEPT ![v] = "virtual"]
    /\ UNCHANGED <<device, program, specialized, published, resolving, call, pool, calls>>

\* create...Pipeline() at once: compileShaders(), then the pipeline.
BeginCreate(t, v) ==
    /\ call[t].at = "idle" /\ state[v] = "none" /\ AddressFree(v)
    /\ ProgramOf[v] \notin Specializable
    /\ calls[t] < MaxCalls[t] /\ calls' = [calls EXCEPT ![t] = @ + 1]
    /\ state' = [state EXCEPT ![v] = "creating"]
    /\ call' = [call EXCEPT ![t] = [Idle EXCEPT !.at = "compileShaders",
                   !.requests = <<Request([pipeline |-> v, args |-> NoArguments])>>]]
    /\ UNCHANGED <<device, program, specialized, published, resolving, pool>>

\* The last reference to a pipeline goes; command lists hold references.  A
\* virtual pipeline takes its concrete one with it, but for those of the cache.
ReleasePipeline(v) ==
    /\ state[v] \in {"virtual", "concrete"} /\ v \notin Kept /\ ~InUse(v)
    /\ state' = [state EXCEPT ![v] = "none"]
    /\ published' = RestrictDomain(published, LAMBDA k :
                        k # [address |-> AddressOf[v], args |-> NoArguments])
    /\ UNCHANGED <<device, program, specialized, resolving, call, pool, calls>>

\* compileShaders(), under m_compileMutex.
CompileShaders(t) ==
    LET i == call[t].requests[1].program IN
    /\ call[t].at = "compileShaders" /\ program[i].lock = None
    /\ \/ /\ program' = IF program[i].compiled THEN program ELSE [program EXCEPT ![i] = Installed(i)]
          /\ Goes(t, "create")
          /\ UNCHANGED <<state, resolving, results>>
       \/ /\ ~program[i].compiled /\ device.backend # "CPU"
          /\ \/ Fail(t)
             \/ \E p \in PartlyInstalled(i) : FailWith(t, [program EXCEPT ![i] = p])
    /\ UNCHANGED <<device, specialized, published, queue, stack, calls>>
----------------------------------------------------------------------------
(* finish() up to compiled programs. *)

Recordable(l) == \A c \in ToSet(l) : state[c.pipeline] \in {"virtual", "concrete"}
Recorded(l) == [n \in DOMAIN l |-> [pipeline |-> l[n].pipeline, args |-> l[n].args, uses |-> None]]

BeginFinish(t) ==
    /\ calls[t] < MaxCalls[t] /\ calls' = [calls EXCEPT ![t] = @ + 1]
    /\ \/ /\ call[t].at = "idle"
          /\ \E l \in Lists : /\ Recordable(l)
                              /\ call' = [call EXCEPT ![t].at = "resolve", ![t].list = Recorded(l)]
       \/ call[t].at = "failed" /\ Goes(t, "resolve")
    /\ UNCHANGED <<locks, pool>>

\* The client submits the commands and they retire, or it drops the encoder.
DropCommands(t) ==
    /\ call[t].at \in {"finished", "failed"}
    /\ call' = [call EXCEPT ![t] = Idle]
    /\ UNCHANGED <<locks, pool, calls>>

\* Mutant: a resolver does not wait for another one.
ResolutionEntered(t) == TRUE

ResolutionFree(t) == resolving = None

\* resolve() up to collectRequests().
Resolve(t) ==
    /\ call[t].at = "resolve" /\ ResolutionFree(t)
    /\ resolving' = t
    /\ call' = IF ResolvesSerially THEN [call EXCEPT ![t].at = "serial"]
               ELSE [call EXCEPT ![t].at = "prepare", ![t].requests = RequestsFor(call[t].list)]
    /\ UNCHANGED <<device, program, specialized, state, published, pool, calls>>

\* Mutant: modules are installed again when they were before.
AllPoints(i) == EntryPoints[i.base]

\* prepareEntryPointCompilation(), unless the program was compiled before.
PointsToCompile(i) == IF program[i].compiled THEN 0 ELSE EntryPoints[i.base]

Unprepared(t) ==
    SelectSeq(Missing(t), LAMBDA r : \A w \in ToSet(call[t].works) : w.program # r.program)
NeedsSpecialization(i) == i.base \in Specializable /\ i \notin specialized
WithSpecialized(i) == IF NeedsSpecialization(i) THEN specialized \cup {i} ELSE specialized

\* preparePrograms() for one request: its program is specialised, locked, and
\* its entry points are listed.
PrepareProgram(t) ==
    /\ call[t].at = "prepare" /\ Unprepared(t) # <<>>
    /\ LET i == Head(Unprepared(t)).program IN
       \/ /\ program[i].lock = None
          /\ program' = [program EXCEPT ![i].lock = t]
          /\ specialized' = WithSpecialized(i)
          /\ call' = [call EXCEPT ![t].works =
                         Append(@, [program |-> i, points |-> PointsToCompile(i)])]
          /\ UNCHANGED <<state, resolving, results>>
       \/ NeedsSpecialization(i) /\ Fail(t) /\ UNCHANGED specialized
       \/ /\ program[i].lock = None /\ ~program[i].compiled
          /\ specialized' = WithSpecialized(i)
          /\ Fail(t)
    /\ UNCHANGED <<device, published, queue, stack, calls>>

\* compilePrograms() up to the wait: tasks if there are several entry points.
Compile(t) ==
    /\ call[t].at = "prepare" /\ Unprepared(t) = <<>>
    /\ IF Len(CompileTasks(t)) > 1
       THEN /\ queue' = queue \o CompileTasks(t)
            /\ Goes(t, "compiling")
            /\ UNCHANGED <<program, state, resolving, results>>
       ELSE /\ \/ /\ Goes(t, IF call[t].works = <<>> THEN "create" ELSE "install")
                  /\ UNCHANGED <<program, state, resolving, results>>
               \/ Len(CompileTasks(t)) = 1 /\ Fail(t)
            /\ UNCHANGED queue
    /\ UNCHANGED <<device, specialized, published, stack, calls>>

\* All tasks were waited for; one that failed fails all.
Compiled(t) ==
    /\ call[t].at = "compiling" /\ stack[t] = <<>> /\ AllDone(CompileTasks(t))
    /\ IF AnyFailed(CompileTasks(t)) THEN Fail(t)
       ELSE /\ Goes(t, "install")
            /\ results' = Keep(LAMBDA x : x.owner # t)
            /\ UNCHANGED <<program, state, resolving>>
    /\ UNCHANGED <<device, specialized, published, queue, stack, calls>>

\* The modules of one program are installed and it is unlocked.
Install(t) ==
    LET w == Head(call[t].works)
        i == w.program
        p0 == IF w.points > 0 THEN Installed(i) ELSE program[i]
    IN
    /\ call[t].at = "install"
    /\ \/ /\ program' = [program EXCEPT ![i] = [p0 EXCEPT !.lock = None]]
          /\ call' = [call EXCEPT ![t].works = Tail(@),
                         ![t].at = IF Len(call[t].works) = 1 THEN "create" ELSE @]
          /\ UNCHANGED <<state, resolving, results>>
       \/ /\ w.points > 0
          /\ \E p \in PartlyInstalled(i) : FailWith(t, [program EXCEPT ![i] = p])
    /\ UNCHANGED <<device, specialized, published, queue, stack, calls>>

\* resolveSerial() for the next command: it is patched if its pipeline is
\* known, or specialised, then compiled and created.
NextCommand(t) == Min(Unresolved(t))
ResolveCommand(t) ==
    /\ call[t].at = "serial"
    /\ IF Unresolved(t) = {}
       THEN /\ Return(t, call[t].list)
            /\ UNCHANGED <<program, specialized, state, results>>
       ELSE LET c == call[t].list[NextCommand(t)]  i == Instance(c) IN
            \/ /\ Known(c) # None
               /\ call' = [call EXCEPT ![t].list[NextCommand(t)].uses = Known(c)]
               /\ UNCHANGED <<program, specialized, state, resolving, results>>
            \/ /\ Known(c) = None
               /\ specialized' = WithSpecialized(i)
               /\ call' = [call EXCEPT ![t].at = "compileShaders", ![t].requests = <<Request(c)>>]
               /\ UNCHANGED <<program, state, resolving, results>>
            \/ /\ Known(c) = None /\ NeedsSpecialization(i)
               /\ Fail(t)
               /\ UNCHANGED specialized
    /\ UNCHANGED <<device, published, queue, stack, calls>>
----------------------------------------------------------------------------
(* The concrete pipelines of a call. *)

Pooled(t) == CanCreateOnPool /\ Len(Missing(t)) > 1
Uncreated(t) == SelectSeq(CreateTasks(t), LAMBDA x : x \notin DOMAIN results)

CreateOnPool(t) ==
    /\ call[t].at = "create" /\ Pooled(t)
    /\ queue' = queue \o CreateTasks(t)
    /\ Goes(t, "creating")
    /\ UNCHANGED <<locks, stack, results, calls>>

\* A frame of stack[th]: a task, whether it waits for its group, and whether
\* it came from the queue.
Frame(x, stolen) == [task |-> x, waits |-> FALSE, stolen |-> stolen]

CreateInline(t) ==
    /\ call[t].at = "create" /\ ~Pooled(t) /\ stack[t] = <<>> /\ Uncreated(t) # <<>>
    /\ stack' = [stack EXCEPT ![t] = <<Frame(Head(Uncreated(t)), FALSE)>>]
    /\ UNCHANGED <<locks, call, queue, results, calls>>

\* addSpecializedPipeline() and setConcretePipeline().
Created(t) ==
    [k \in {r.key : r \in ToSet(Missing(t))} |->
        results[CreateTask(t, CHOOSE r \in ToSet(Missing(t)) : r.key = k)]]

FinalizedList(t) ==
    [n \in DOMAIN call[t].list |->
        LET c == call[t].list[n] IN
        IF c.uses = None THEN [c EXCEPT !.uses = (Created(t) @@ published)[Key(c)]] ELSE c]

\* finalize(), the end of getConcretePipeline(), or that of create...Pipeline().
Finish(t) ==
    /\ call[t].at \in {"create", "creating"} /\ stack[t] = <<>> /\ AllDone(CreateTasks(t))
    /\ IF AnyFailed(CreateTasks(t)) THEN Fail(t) /\ UNCHANGED published
       ELSE /\ published' = Created(t) @@ published
            /\ results' = Keep(LAMBDA x : x.owner # t)
            /\ UNCHANGED program
            /\ IF call[t].list = <<>>
               THEN /\ state' = [state EXCEPT ![call[t].requests[1].pipeline] = "concrete"]
                    /\ call' = [call EXCEPT ![t] = Idle]
                    /\ UNCHANGED resolving
               ELSE /\ UNCHANGED state
                    /\ IF ResolvesSerially
                       THEN /\ call' = [call EXCEPT ![t].at = "serial", ![t].requests = <<>>,
                                  ![t].list[NextCommand(t)].uses = Created(t)[Key(call[t].list[NextCommand(t)])]]
                            /\ UNCHANGED resolving
                       ELSE Return(t, FinalizedList(t))
    /\ UNCHANGED <<device, specialized, queue, stack, calls>>
----------------------------------------------------------------------------
(* Threads that execute tasks: workers, and whoever waits (core/task-pool.cpp). *)

GroupOf(x) == [x EXCEPT !.kind = "create", !.point = 0]
Running == UNION {{f.task : f \in ToSet(stack[th])} : th \in Threads \cup Workers}
InGroup(k) == {x \in ToSet(queue) \cup Running : x.kind = "optix" /\ GroupOf(x) = k}
GroupFailed(k) == \E x \in DOMAIN results : x.kind = "optix" /\ GroupOf(x) = k

Top(th) == Last(stack[th])
StealDepth(th) == Cardinality({n \in DOMAIN stack[th] : stack[th][n].stolen})
Batch(t) == IF call[t].at = "compiling" THEN CompileTasks(t) ELSE CreateTasks(t)

MayTakeAny(th) ==
    \/ th \in Workers
    \/ call[th].at \in {"compiling", "creating"} /\ ~AllDone(Batch(th))
WaitsForGroup(th) == Top(th).waits /\ InGroup(Top(th).task) # {}

\* waitWithStealing(): any task, but in a callback only those of its group.
MayTake(th, x) ==
    IF stack[th] = <<>> THEN MayTakeAny(th)
    ELSE /\ WaitsForGroup(th)
         /\ \/ StealDepth(th) = 0
            \/ x.kind = "optix" /\ GroupOf(x) = Top(th).task

TakeTask(th) ==
    LET n == SelectInSeq(queue, LAMBDA x : MayTake(th, x)) IN
    /\ n > 0
    /\ queue' = RemoveAt(queue, n)
    /\ stack' = [stack EXCEPT ![th] = Append(@, Frame(queue[n], TRUE))]
    /\ UNCHANGED <<locks, call, results, calls>>

\* The task on top of th ends with result r.
EndTask(th, r) ==
    /\ stack' = [stack EXCEPT ![th] = Front(@)]
    /\ results' = (Top(th).task :> r) @@
                  Keep(LAMBDA x : x.kind = "optix" => GroupOf(x) # Top(th).task)

\* What a creation reads: the modules of the program, without its lock.
Made(x) == [pipeline |-> x.pipeline, program |-> x.program,
            modules |-> program[x.program].modules, maker |-> x.owner]

RunCompile(th) ==
    /\ Top(th).task.kind = "compile"
    /\ \E r \in {None, Failed} : EndTask(th, r)
    /\ UNCHANGED queue

\* createConcretePipeline() of the backend; OptiX is given tasks in a group.
RunCreate(th) ==
    LET x == Top(th).task IN
    /\ x.kind = "create" /\ ~Top(th).waits
    /\ \/ /\ \E r \in {Failed} \cup (IF IsNested(x.pipeline) THEN {} ELSE {Made(x)}) : EndTask(th, r)
          /\ UNCHANGED queue
       \/ /\ IsNested(x.pipeline)
          /\ queue' = queue \o [n \in 1 .. EntryPoints[x.program.base] |->
                                    [x EXCEPT !.kind = "optix", !.point = n]]
          /\ stack' = [stack EXCEPT ![th] = Append(Front(@), [Top(th) EXCEPT !.waits = TRUE])]
          /\ UNCHANGED results

\* executeOptixTasks() after the wait, and the rest of the creation.
FinishNested(th) ==
    LET x == Top(th).task IN
    /\ x.kind = "create" /\ Top(th).waits /\ InGroup(x) = {}
    /\ \E r \in {Failed} \cup (IF GroupFailed(x) THEN {} ELSE {Made(x)}) : EndTask(th, r)
    /\ UNCHANGED queue

\* A task of OptiX is skipped when another failed, fails, or may make one more.
RunOptix(th) ==
    LET x == Top(th).task
        more == [x EXCEPT !.point = @ + EntryPoints[x.program.base]]
    IN
    /\ x.kind = "optix"
    /\ \/ /\ stack' = [stack EXCEPT ![th] = Front(@)]
          /\ UNCHANGED <<queue, results>>
       \/ /\ ~GroupFailed(GroupOf(x))
          /\ EndTask(th, Failed)
          /\ UNCHANGED queue
       \/ /\ ~GroupFailed(GroupOf(x)) /\ more.point <= MaxOptixTasks
          /\ queue' = Append(queue, more)
          /\ stack' = [stack EXCEPT ![th] = Front(@)]
          /\ UNCHANGED results

RunTask(th) ==
    /\ stack[th] # <<>>
    /\ RunCompile(th) \/ RunCreate(th) \/ FinishNested(th) \/ RunOptix(th)
    /\ UNCHANGED <<locks, call, calls>>

Execute(th) == TakeTask(th) \/ RunTask(th)
----------------------------------------------------------------------------
(* Specification. *)

Init ==
    /\ device \in Devices
    /\ program = [i \in Instances |-> [lock |-> None, modules |-> <<>>, compiled |-> FALSE, broken |-> FALSE]]
    /\ specialized = {}
    /\ state = [v \in Pipelines |-> IF v \in Kept THEN "virtual" ELSE "none"]
    /\ published = <<>>
    /\ resolving = None
    /\ call = [t \in Threads |-> Idle]
    /\ queue = <<>>
    /\ stack = [th \in Threads \cup Workers |-> <<>>]
    /\ results = <<>>
    /\ calls = [t \in Threads |-> 0]

\* The rest of a call that t began.
Proceed(t) ==
    \/ CompileShaders(t) \/ Resolve(t) \/ PrepareProgram(t) \/ Compile(t) \/ Compiled(t)
    \/ Install(t) \/ ResolveCommand(t) \/ CreateOnPool(t) \/ CreateInline(t) \/ Finish(t)
    \/ Execute(t)

Next ==
    \/ \E t \in Threads :
          \/ \E v \in Pipelines : CreateVirtual(t, v) \/ BeginCreate(t, v)
          \/ BeginFinish(t) \/ DropCommands(t) \/ Proceed(t)
    \/ \E v \in Pipelines : ReleasePipeline(v)
    \/ \E w \in Workers : Execute(w)

\* Threads that are in a call, and workers, go on running.
Spec ==
    /\ Init /\ [][Next]_vars
    /\ \A t \in Threads : WF_vars(Proceed(t))
    /\ \A w \in Workers : WF_vars(Execute(w))
----------------------------------------------------------------------------
(* Properties. *)

Concretes == [pipeline : Pipelines, program : Instances, maker : Threads,
              modules : Seq([entry : Nat, whole : BOOLEAN])]

\* Every variable has its type.
TypeOK ==
    /\ device \in Devices
    /\ program \in [Instances -> [lock : Threads \cup {None}, compiled : BOOLEAN,
                       broken : BOOLEAN, modules : Seq([entry : Nat, whole : BOOLEAN])]]
    /\ specialized \subseteq Instances
    /\ state \in [Pipelines -> {"none", "virtual", "creating", "concrete"}]
    /\ \A k \in DOMAIN published : published[k] \in Concretes
    /\ resolving \in Threads \cup {None}
    /\ \A t \in Threads : call[t].at \in Resting \cup {"compileShaders", "resolve", "serial",
           "prepare", "compiling", "install", "create", "creating"}
    /\ \A x \in DOMAIN results : results[x] \in Concretes \cup {None, Failed}
    /\ \A t \in Threads : calls[t] \in 0 .. MaxCalls[t]

\* What a command uses once it was resolved: the pipeline and arguments it was
\* recorded with, made of every module of their program, which is alive
\* because its virtual pipeline or the cache still refers to it.  A program
\* one of whose modules could not be created is left out.
ResolvedAsRecorded(c) ==
    /\ c.uses = Known(c)
    /\ c.uses.pipeline = c.pipeline /\ c.uses.program = Instance(c)
    /\ program[Instance(c)].broken \/ c.uses.modules = ModulesOf(Instance(c))

\* When finish() succeeds all commands are resolved, and what was resolved
\* stays right and alive while the client has the commands, whatever other
\* threads finish, create, release or fail (resolve(), device.cpp:238-332).
CommandsResolved ==
    \A t \in Threads :
        /\ \A c \in ToSet(call[t].list) : c.uses # None => ResolvedAsRecorded(c)
        /\ call[t].at = "finished" => Unresolved(t) = {}

\* A published pipeline is never replaced, as recorded commands point to it,
\* and a parallel resolver publishes nothing unless all it needs was created
\* ("Serializes resolution/publication across command encoders", device.h:553).
PublishedTogether ==
    [][/\ \A k \in DOMAIN published \cap DOMAIN published' : published'[k] = published[k]
       /\ \A t \in Threads :
              /\ resolving = t /\ ~ResolvesSerially
              /\ \E k \in DOMAIN published' \ DOMAIN published : published'[k].maker = t
              => \A c \in ToSet(call'[t].list) : c.uses # None]_vars

\* "Backend module containers are populated serially. Pipeline workers only
\* read them afterwards." (pipeline-resolver.cpp:358): no module is installed
\* in a program from which a pipeline is to be created by a task.
ModulesReadAfterwards ==
    [][\A i \in Instances : program'[i].modules # program[i].modules =>
           \A x \in ToSet(queue) \cup Running : x.program = i => x.kind = "compile"]_vars

\* Every call returns: neither the locks held while waiting, nor tasks that
\* wait for tasks, nor failures leave it waiting.
EveryCallReturns ==
    \A t \in Threads : call[t].at \notin Resting ~> call[t].at \in Resting
=============================================================================
