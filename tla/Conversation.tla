---------------------------- MODULE Conversation ----------------------------
(* The messages of bot conversations.  A turn saves the user's message and the *)
(* bot's answer together, once its run is over (daras_ai_v2/bots.py), and the  *)
(* analysis of the answer looks for the message before it (bots/tasks.py).     *)
(* Turns of different conversations, and of one, overlap in every way.         *)
EXTENDS Naturals, Sequences, FiniteSets

CONSTANTS
    Turns,     \* of any conversations
    NoTurn

ASSUME ConversationAssumption == NoTurn \notin Turns

VARIABLES
    turn,      \* turn[t]: how far its two messages are
    log,       \* messages in the order of created_at, committed or not
    question   \* question[t]: whose message was analysed as the question of t's answer

convo == <<turn, log, question>>

ConvoInit ==
    /\ turn = [t \in Turns |-> "running"]
    /\ log = <<>>
    /\ question = [t \in Turns |-> NoTurn]

Committed(t) == turn[t] \in {"saved", "asked"}

Go(t, from, to) == turn[t] = from /\ turn' = [turn EXCEPT ![t] = to]

-----------------------------------------------------------------------------
\* The run has failed or its result was empty: nothing is saved.
GiveUp(t) ==
    /\ Go(t, "running", "dropped")
    /\ UNCHANGED <<log, question>>

\* save_msg_pair_to_db: created_at is taken as each of the two is saved ...
SaveUser(t) ==
    /\ Go(t, "running", "user")
    /\ log' = Append(log, [turn |-> t, role |-> "user"])
    /\ UNCHANGED question

SaveAssistant(t) ==
    /\ Go(t, "user", "both")
    /\ log' = Append(log, [turn |-> t, role |-> "assistant"])
    /\ UNCHANGED question

\* ... and both are seen from the commit on; or the transaction is rolled back.
Commit(t) ==
    /\ Go(t, "both", "saved")
    /\ UNCHANGED <<log, question>>

RollBack(t) ==
    /\ turn[t] \in {"user", "both"}
    /\ turn' = [turn EXCEPT ![t] = "dropped"]
    /\ UNCHANGED <<log, question>>

At(t, role) == CHOOSE i \in DOMAIN log : log[i] = [turn |-> t, role |-> role]

\* Mutant of Previous: the oldest message.
PreviousOldest(t) ==
    LET saved == {i \in DOMAIN log : Committed(log[i].turn)} IN
    log[CHOOSE i \in saved : \A j \in saved : i <= j]

\* msg.get_previous_by_created_at(): of all messages, whatever their conversation.
Previous(t) ==
    LET before == {i \in 1 .. At(t, "assistant") - 1 : Committed(log[i].turn)} IN
    log[CHOOSE i \in before : \A j \in before : j <= i]

\* The analysis of t's answer, which begins at any time after the commit (Analysis).
Ask(t) ==
    /\ Go(t, "saved", "asked")
    /\ question' = [question EXCEPT ![t] = Previous(t).turn]
    /\ UNCHANGED log

ConvoNext ==
    \E t \in Turns : \/ GiveUp(t) \/ SaveUser(t) \/ SaveAssistant(t)
                     \/ Commit(t) \/ RollBack(t) \/ Ask(t)

ConvoSpec == ConvoInit /\ [][ConvoNext]_convo

-----------------------------------------------------------------------------
ConvoTypes ==
    /\ turn \in [Turns -> {"running", "dropped", "user", "both", "saved", "asked"}]
    /\ log \in Seq([turn : Turns, role : {"user", "assistant"}])
    /\ question \in [Turns -> Turns \cup {NoTurn}]

\* "its important to save the user_msg and assistant_msg together because we use
\* get_next_by_created_at in our code": an answer is analysed with its own question, or
\* with a message that was saved between the two, never with an older one.
NearQuestion ==
    \A t \in Turns : question[t] \notin {NoTurn, t} =>
        \E i \in DOMAIN log : /\ log[i].turn = question[t]
                               /\ At(t, "user") < i /\ i < At(t, "assistant")

\* The same comment, as it says: with its own question.
OwnQuestion == \A t \in Turns : question[t] \in {NoTurn, t}
=============================================================================
