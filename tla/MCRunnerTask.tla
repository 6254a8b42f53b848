---------------------------- MODULE MCRunnerTask ----------------------------
(* Instances of a single run (RunnerTask) and of runs that start others and    *)
(* wait for them (NestedRuns).  A behaviour is one of either; the other's      *)
(* variables keep their initial values.                                        *)
EXTENDS RunnerTask, NestedRuns

VARIABLE part

RunsInit == part \in {"one", "nested"} /\ Init /\ NestedInit

RunsNext ==
    /\ \/ /\ part = "one" /\ Next
          /\ UNCHANGED nested
       \/ /\ part = "nested" /\ NestedNext
          /\ UNCHANGED vars
    /\ UNCHANGED part

RunsVars == <<part, vars, nested>>

\* Nothing that fairness asks for is enabled in the part that was not picked.
RunsSpec ==
    /\ RunsInit /\ [][RunsNext]_RunsVars
    /\ Fairness /\ NestedFairness
=============================================================================
