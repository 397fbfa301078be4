----------------------- MODULE MCAudioProcessingLive -----------------------
(***************************************************************************)
(* AudioProcessing when every thread makes finitely many calls.  The       *)
(* locks are pthread mutexes, which promise no order among their waiters:  *)
(* a thread that never stops calling could keep another one waiting for    *)
(* ever.  With finitely many calls that cannot be the reason for a call    *)
(* not to return, and each thread need only be scheduled when it can move. *)
(***************************************************************************)
EXTENDS AudioProcessing

CONSTANTS MaxCalls,        \* calls of the capture and of the render thread
          ControlCalls     \* calls of each control thread

VARIABLE calls             \* calls each thread has left

liveVars == <<vars, calls>>

Begins(t) == pc[t] = "idle" /\ pc'[t] # "idle"

LiveInit == Init /\ calls = [t \in Thread |-> IF t \in Control THEN ControlCalls ELSE MaxCalls]

LiveNext == /\ Next
            /\ \A t \in Thread : Begins(t) => calls[t] > 0
            /\ calls' = [t \in Thread |-> IF Begins(t) THEN calls[t] - 1 ELSE calls[t]]

Fairness == /\ WF_liveVars(CaptureStep /\ UNCHANGED calls)
            /\ WF_liveVars(RenderStep /\ UNCHANGED calls)
            /\ \A t \in Control : WF_liveVars(ControlStep(t) /\ UNCHANGED calls)

LiveSpec == LiveInit /\ [][LiveNext]_liveVars /\ Fairness

(***************************************************************************)
(* Every call returns: no order of taking and releasing the two locks      *)
(* leaves a thread waiting for ever (audio_processing_impl.cc:598, 642).   *)
(***************************************************************************)
CallsReturn == \A t \in Thread : pc[t] # "idle" ~> pc[t] = "idle"
=============================================================================
