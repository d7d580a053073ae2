-------------------------- MODULE CommandDelivery --------------------------
(***************************************************************************)
(* What the bot promises the users who send it commands, whatever crashes, *)
(* lost queues and failed calls there are in between: a message is settled *)
(* as answered at most once, what a restart command does after its answer  *)
(* is started at most once and never before the answer, and the request it *)
(* leaves behind only moves forward.  BotEventLoop implements it.          *)
(***************************************************************************)
EXTENDS Naturals

CONSTANT Messages

VARIABLES
  received,  \* the messages that were posted
  answered,  \* those that are answered for good
  fires,     \* how often the follow-up of a message was started
  restart    \* how far the restart that a message asked for has got

vars == <<received, answered, fires, restart>>

Init ==
  /\ received = {}
  /\ answered = {}
  /\ fires = [m \in Messages |-> 0]
  /\ restart = [m \in Messages |-> "none"]

Receive(m) ==
  /\ m \notin received
  /\ received' = received \cup {m}
  /\ UNCHANGED <<answered, fires, restart>>

Answer(m) ==
  /\ m \in received \ answered
  /\ answered' = answered \cup {m}
  /\ UNCHANGED <<received, fires, restart>>

FollowUp(m) ==
  /\ m \in answered
  /\ fires[m] = 0
  /\ fires' = [fires EXCEPT ![m] = 1]
  /\ UNCHANGED <<received, answered, restart>>

RequestRestart(m) ==
  /\ fires[m] = 1
  /\ restart[m] = "none"
  /\ restart' = [restart EXCEPT ![m] = "requested"]
  /\ UNCHANGED <<received, answered, fires>>

BeginRestart(m) ==
  /\ restart[m] = "requested"
  /\ restart' = [restart EXCEPT ![m] = "in_progress"]
  /\ UNCHANGED <<received, answered, fires>>

EndRestart(m) ==
  /\ restart[m] \in {"requested", "in_progress"}
  /\ \E result \in {"completed", "failed"} :
       restart' = [restart EXCEPT ![m] = result]
  /\ UNCHANGED <<received, answered, fires>>

Next ==
  \E m \in Messages :
    \/ Receive(m)
    \/ Answer(m)
    \/ FollowUp(m)
    \/ RequestRestart(m)
    \/ BeginRestart(m)
    \/ EndRestart(m)

Spec == Init /\ [][Next]_vars
=============================================================================
