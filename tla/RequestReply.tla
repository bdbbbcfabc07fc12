---------------------------- MODULE RequestReply ----------------------------
(***************************************************************************)
(* What the query pages are promised: a request that is asked gets at most *)
(* one reply, the reply tells what became of that very query, and a client *)
(* that is still there is never told anything before its query has ended.  *)
(* QueryService implements this.                                           *)
(***************************************************************************)
EXTENDS FiniteSets

CONSTANTS Request, Outcome, None

VARIABLES
  client,    \* client[r]: "idle", "waiting", "answered" or "gone"
  outcome,   \* outcome[r]: how r's work ended, None before
  reply      \* reply[r]: the outcome r's client was told, None before

replyVars == <<client, outcome, reply>>

Init ==
  /\ client = [r \in Request |-> "idle"]
  /\ outcome = [r \in Request |-> None]
  /\ reply = [r \in Request |-> None]

Ask(r) ==
  /\ client[r] = "idle"
  /\ client' = [client EXCEPT ![r] = "waiting"]
  /\ UNCHANGED <<outcome, reply>>

\* The work ends, whether or not anybody is still waiting for it.
Finish(r) ==
  /\ client[r] # "idle" /\ outcome[r] = None
  /\ \E o \in Outcome : outcome' = [outcome EXCEPT ![r] = o]
  /\ UNCHANGED <<client, reply>>

\* The client is told how its query ended; the end and the reply may be one step.
Tell(r) ==
  /\ client[r] = "waiting"
  /\ \E o \in Outcome :
       /\ outcome[r] \in {None, o}
       /\ outcome' = [outcome EXCEPT ![r] = o]
       /\ reply' = [reply EXCEPT ![r] = o]
  /\ client' = [client EXCEPT ![r] = "answered"]

\* Some clients leave, or lose their connection, without a reply.
Lose(R) ==
  /\ \A r \in R : client[r] = "waiting"
  /\ client' = [r \in Request |-> IF r \in R THEN "gone" ELSE client[r]]
  /\ UNCHANGED <<outcome, reply>>

Next ==
  \/ \E r \in Request : Ask(r) \/ Finish(r) \/ Tell(r)
  \/ \E R \in SUBSET Request : Lose(R)

Spec == Init /\ [][Next]_replyVars
=============================================================================
