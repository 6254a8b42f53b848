----------------------------- MODULE MCWorkspace -----------------------------
(* Instances of what the requests and runs of one workspace share: its plan    *)
(* with one billing page at a time and webhooks in order (Subscription), with  *)
(* two pages, failed renewals and webhooks in any order (TwoPages), the seats  *)
(* of a team (Team) and the knowledge of a document (Embeddings).  They share  *)
(* no state: a behaviour is one of one of them.                                *)
EXTENDS Embeddings, Subscription, MCTeam

VARIABLES
    part,
    stripe2, db2, events2, sent2, proc2, addons2, crashes2      \* of TwoPages

OneSub   == CHOOSE s \in Subs : TRUE
OtherSub == CHOOSE s \in Subs : s # OneSub
OnePlan  == CHOOSE plan \in Plans : TRUE

TwoPages == INSTANCE Subscription WITH
    Subs <- {OneSub, OtherSub}, Plans <- {OnePlan}, Tabs <- 2, Serial <- FALSE,
    MaxEvents <- 4, MaxAddons <- 0, Happens <- {"end", "lapse"},
    stripe <- stripe2, db <- db2, events <- events2, sent <- sent2, proc <- proc2,
    addons <- addons2, crashes <- crashes2

ASSUME PartAssumption == EmbeddingsAssumption

plans2 == <<stripe2, db2, events2, sent2, proc2, addons2, crashes2>>
workspace == <<part, vars, plans, plans2, team>>

WorkspaceInit ==
    /\ part \in {"one page", "two pages", "seats", "knowledge"}
    /\ Init /\ PlanInit /\ TwoPages!PlanInit /\ TeamInit
    /\ part # "knowledge" => file = NoFile /\ \A r \in Runs : ~run[r].check

WorkspaceNext ==
    /\ \/ /\ part = "one page" /\ PlanNext
          /\ UNCHANGED <<vars, plans2, team>>
       \/ /\ part = "two pages" /\ TwoPages!PlanNext
          /\ UNCHANGED <<vars, plans, team>>
       \/ /\ part = "seats" /\ TeamNext
          /\ UNCHANGED <<vars, plans, plans2>>
       \/ /\ part = "knowledge" /\ Next
          /\ UNCHANGED <<plans, plans2, team>>
    /\ UNCHANGED part

WorkspaceSpec == WorkspaceInit /\ [][WorkspaceNext]_workspace

Symmetry == Permutations(Procs) \cup Permutations(Runs)

-----------------------------------------------------------------------------
\* No plan is kept that nobody pays, with two pages at once and webhooks in any order,
\* unless a webhook is handled after one that was sent later.
NoUnpaidPlan == TwoPages!UnpaidIsStale
=============================================================================
