----------------------------- MODULE AtLeastOnce -----------------------------
(***************************************************************************)
(* What a queue with a consumer promises for the work it is offered: an    *)
(* offer may be dropped as long as nothing has been run for it, it is run  *)
(* any positive number of times, it is finished only after a run, and      *)
(* nothing is run for it once it is finished.  runs[t] counts the runs.    *)
(***************************************************************************)
EXTENDS Naturals

CONSTANT Task

VARIABLES phase, runs

vars == <<phase, runs>>

Init ==
    /\ phase = [t \in Task |-> "absent"]
    /\ runs = [t \in Task |-> 0]

Offer(t) ==
    /\ phase[t] = "absent"
    /\ phase' = [phase EXCEPT ![t] = "offered"]
    /\ UNCHANGED runs

Drop(t) ==
    /\ phase[t] = "offered"
    /\ runs[t] = 0
    /\ phase' = [phase EXCEPT ![t] = "dropped"]
    /\ UNCHANGED runs

Run(t) ==
    /\ phase[t] = "offered"
    /\ runs' = [runs EXCEPT ![t] = @ + 1]
    /\ UNCHANGED phase

Finish(t) ==
    /\ phase[t] = "offered"
    /\ runs[t] > 0
    /\ phase' = [phase EXCEPT ![t] = "finished"]
    /\ UNCHANGED runs

Next == \E t \in Task : Offer(t) \/ Drop(t) \/ Run(t) \/ Finish(t)

Spec == Init /\ [][Next]_vars

\* The promise of progress: no offer stays open for ever.
Settles ==
    \A t \in Task : (phase[t] = "offered") ~> (phase[t] \in {"dropped", "finished"})

=============================================================================
