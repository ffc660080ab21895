-------------------------------- MODULE Faults --------------------------------
(* What fails in the environment, an upload, an insert, a handler, a process, *)
(* fails a bounded number of times in a behaviour.                            *)
EXTENDS Integers

CONSTANTS
    MaxFaults,   \* bound: failures in a behaviour
    None

VARIABLE faults

Fault == faults < MaxFaults /\ faults' = faults + 1
==============================================================================
