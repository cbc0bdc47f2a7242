------------------------- MODULE MCPipelineResolver ------------------------
(* An instance of PipelineResolver for TLC.                                 *)
EXTENDS PipelineResolver

CONSTANTS t1, t2, w1, plain, generic, s1, first, second, special

\* One program with one entry point, one with two that needs arguments.
EntryPointsOf == (plain :> 1) @@ (generic :> 2)
ProgramsOf == (first :> plain) @@ (second :> plain) @@ (special :> generic)
OwnAddress == [v \in {first, second, special} |-> v]

Uses(v, a) == [pipeline |-> v, args |-> a]
ListsOfClients ==
    {<<Uses(first, NoArguments), Uses(first, NoArguments)>>,
     <<Uses(special, s1), Uses(first, NoArguments), Uses(second, NoArguments)>>}

DeviceKinds == {[backend |-> b, mode |-> "Parallel"] : b \in {"Vulkan", "CUDA", "Metal"}}
               \cup {[backend |-> "CPU", mode |-> "Parallel"], [backend |-> "Vulkan", mode |-> "Serial"]}

CallsOfClients == (t1 :> 2) @@ (t2 :> 1)
=============================================================================
