---------------------------- MODULE SurfaceClient ---------------------------
(***************************************************************************)
(* A client of one surface behind the debug layer                          *)
(* (debug-layer/debug-surface.cpp): what the layer lets through, and what  *)
(* it remembers.  The calls themselves are those of a backend.             *)
(*                                                                         *)
(* The client configures between frames, as the tests do                   *)
(* (tests/test-surface.cpp), and after acquireNextImage() or present()     *)
(* failed it configures or unconfigures before it goes on.  The debug      *)
(* layer requires neither.                                                 *)
(***************************************************************************)
EXTENDS Integers, Sequences, FiniteSets

CONSTANT Images  \* the images of a swapchain, 0..n-1, as many as frames

VARIABLES backend,     \* "Vulkan", "CUDA" or "D3D12", the same in all of a behaviour
          host,        \* the call the client's thread is in
          configured,  \* m_configured of the surface
          debug,       \* m_configured and m_state of the debug layer
          lost         \* the last call to acquire or present failed

client == <<host, configured, debug, lost>>

None == -1

Following(i) == (i + 1) % Cardinality(Images)

ClientInit ==
    /\ host = "idle"
    /\ configured = FALSE
    /\ debug = [configured |-> FALSE, state |-> "Initial"]
    /\ lost = FALSE

-----------------------------------------------------------------------------
(* Calls the debug layer forwards to the surface, and the surface does not *)
(* reject right away.                                                      *)
BetweenFrames ==
    host = "idle" /\ (debug.state # "ImageAcquired" \/ ~configured \/ lost)

MayAcquire ==
    /\ host = "idle" /\ ~lost
    /\ debug.configured /\ debug.state # "ImageAcquired"
    /\ configured

InFrame ==
    /\ host = "idle" /\ ~lost
    /\ debug.configured /\ debug.state = "ImageAcquired"
    /\ configured

Enter(call) ==
    /\ host' = call
    /\ UNCHANGED <<configured, debug, lost>>

(* configure() and unconfigure() first forget that they are configured.    *)
Reconfigure(call) ==
    /\ BetweenFrames
    /\ call = "unconfigure" => configured
    /\ host' = call
    /\ configured' = FALSE
    /\ lost' = FALSE
    /\ UNCHANGED debug

Configured(succeeds) ==
    /\ host' = "idle"
    /\ configured' = succeeds
    /\ debug' = IF succeeds THEN [configured |-> TRUE, state |-> "Initial"] ELSE debug
    /\ UNCHANGED lost

Unconfigured ==
    /\ host' = "idle"
    /\ debug' = [debug EXCEPT !.configured = FALSE]
    /\ UNCHANGED <<configured, lost>>

(* acquireNextImage() or present() returns.                                *)
Returns(state, succeeds) ==
    /\ host' = "idle"
    /\ debug' = IF succeeds THEN [debug EXCEPT !.state = state] ELSE debug
    /\ lost' = ~succeeds
    /\ UNCHANGED configured
=============================================================================
