------------------------------- MODULE MCUsage -------------------------------
(* Instances of what surrounds a run: how it is admitted (RunAdmission) and    *)
(* paid (RunCredits), the calls (CallCost) and the conversations               *)
(* (Conversation, Analysis) that it serves, the texts it fits to its model     *)
(* (Summary).  They share no state here: a behaviour is one of one of them.    *)
EXTENDS RunAdmission, RunCredits, CallCost, Conversation, Analysis, Summary

VARIABLE part

MCTexts == UNION {[1 .. n -> 1 .. 4] : n \in 0 .. 5}

usage == <<part, run, credit, call, convo, analysis, summary>>

UsageInit ==
    /\ part \in {"admission", "credits", "call", "conversation", "analysis", "summary"}
    /\ Init /\ CreditInit /\ CallInit /\ ConvoInit /\ AnalInit /\ TextInit
    /\ part # "credits" => plan = "team" /\ joined
    /\ part # "summary" => text = <<>>

Summarizes == part = "summary" /\ TextNext

UsageNext ==
    /\ \/ /\ part = "admission" /\ Next
          /\ UNCHANGED <<credit, call, convo, analysis, summary>>
       \/ /\ part = "credits" /\ CreditNext
          /\ UNCHANGED <<run, call, convo, analysis, summary>>
       \/ /\ part = "call" /\ CallNext
          /\ UNCHANGED <<run, credit, convo, analysis, summary>>
       \/ /\ part = "conversation" /\ ConvoNext
          /\ UNCHANGED <<run, credit, call, analysis, summary>>
       \/ /\ part = "analysis" /\ AnalNext
          /\ UNCHANGED <<run, credit, call, convo, summary>>
       \/ /\ Summarizes
          /\ UNCHANGED <<run, credit, call, convo, analysis>>
    /\ UNCHANGED part

\* Fairness asks nothing of the parts that were not picked: none of it is enabled there.
UsageSpec ==
    /\ UsageInit /\ [][UsageNext]_usage
    /\ Fairness /\ AnalFairness /\ WF_summary(Summarizes)

-----------------------------------------------------------------------------
\* Every part is well typed.
UsageTypes == TypeOK /\ CreditTypes /\ CallTypes /\ ConvoTypes /\ AnalTypes /\ TextTypes

\* A summary is made of the whole document.
WholeIsSummarized == part = "summary" => SummaryIsWhole
=============================================================================
