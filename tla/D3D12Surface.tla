---------------------------- MODULE D3D12Surface ----------------------------
(***************************************************************************)
(* The surface of the D3D12 backend (d3d12/d3d12-surface.cpp over          *)
(* d3d/d3d-surface.h).  DXGI turns the images of the swapchain by itself;  *)
(* the surface keeps the host from running ahead, with an event for each   *)
(* image that a fence of its own sets.  present() asks for the event       *)
(* before it counts the frame, so the event is that of the frame before.   *)
(*                                                                         *)
(* configure() does not wait for the GPU; the client does, as the tests    *)
(* do (waitOnHost() in tests/test-surface.cpp:77-79).                      *)
(***************************************************************************)
EXTENDS SurfaceClient

VARIABLES back,     \* GetCurrentBackBufferIndex()
          event,    \* m_frameEvents: set or not
          armed,    \* signals of the fence until an event is set, or None
          signals   \* signals of the fence the GPU has yet to reach

dxgi == <<back, event, armed, signals>>

AllSet == [i \in Images |-> TRUE]

D3D12Init ==
    /\ back = 0
    /\ event = AllSet
    /\ armed = [i \in Images |-> None]
    /\ signals = 0

(* configure() releases whoever waits, and creates the swapchain anew.     *)
D3D12Configure ==
    /\ host = "configure"
    /\ \/ back' = 0 /\ Configured(TRUE)
       \/ UNCHANGED back /\ Configured(FALSE)
    /\ event' = AllSet
    /\ UNCHANGED <<backend, armed, signals>>

D3D12Unconfigure ==
    /\ host = "unconfigure"
    /\ Unconfigured
    /\ UNCHANGED <<backend, dxgi>>

D3D12BeginAcquire ==
    /\ MayAcquire
    /\ Enter("acquire")
    /\ UNCHANGED <<backend, dxgi>>

(* Mutant: the event stays set.                                            *)
KeepEvent == UNCHANGED event

ResetEvent == event' = [event EXCEPT ![back] = FALSE]

D3D12Acquire ==
    /\ host = "acquire"
    /\ event[back]
    /\ ResetEvent
    /\ Returns("ImageAcquired", TRUE)
    /\ UNCHANGED <<backend, back, armed, signals>>

(* SetEventOnCompletion(): the event is set once the GPU has reached the   *)
(* signals so far.                                                         *)
SetEventOnCompletion ==
    IF signals = 0
    THEN event' = [event EXCEPT ![back] = TRUE] /\ UNCHANGED armed
    ELSE armed' = [armed EXCEPT ![back] = signals] /\ UNCHANGED event

D3D12Present ==
    /\ InFrame
    /\ SetEventOnCompletion
    /\ \/ /\ back' = Following(back)
          /\ signals' = signals + 1
          /\ Returns("ImagePresented", TRUE)
       \/ UNCHANGED <<back, signals>> /\ Returns("ImagePresented", FALSE)
    /\ UNCHANGED backend

(* The GPU reaches a signal.                                               *)
FenceSignalled ==
    /\ signals > 0
    /\ signals' = signals - 1
    /\ event' = [i \in Images |-> event[i] \/ armed[i] = 1]
    /\ armed' = [i \in Images |-> IF armed[i] > 1 THEN armed[i] - 1 ELSE None]
    /\ UNCHANGED <<backend, client, back>>

D3D12Calls == D3D12BeginAcquire \/ D3D12Present
=============================================================================
