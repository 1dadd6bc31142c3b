------------------------------- MODULE Disturb -------------------------------
(* What the environment does to a component: disturbances of the kinds an    *)
(* instance explores, a bounded number of times.  Every component names the  *)
(* kinds it knows and says at which step each of them can strike.            *)
EXTENDS Naturals

CONSTANTS
    Faults,     \* which disturbances this instance explores
    MaxFaults   \* bound of the exploration

VARIABLE
    faults      \* how many have struck

Strike(f) == f \in Faults /\ faults < MaxFaults /\ faults' = faults + 1
NoStrike == UNCHANGED faults
=============================================================================
