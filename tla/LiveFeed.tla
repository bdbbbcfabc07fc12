------------------------------ MODULE LiveFeed ------------------------------
(***************************************************************************)
(* What the live feed promises, with no server in sight.  A producer       *)
(* publishes updates 1, 2, 3, ...; a client that joins receives a gap-free *)
(* run of them, in order and each once, starting right after the last one  *)
(* published before it joined.  SocketRegistry implements this.            *)
(***************************************************************************)
EXTENDS Integers, Sequences

CONSTANT Client

VARIABLES
  published,   \* number of updates published so far
  since,       \* since[c]: updates published before c joined, Never if it has not
  received,    \* received[c]: the updates c has received, oldest first
  present      \* present[c]: c has not gone away

feedVars == <<published, since, received, present>>

Never == -1

Init ==
  /\ published = 0
  /\ since = [c \in Client |-> Never]
  /\ received = [c \in Client |-> <<>>]
  /\ present = [c \in Client |-> TRUE]

Publish ==
  /\ published' = published + 1
  /\ UNCHANGED <<since, received, present>>

Join(c) ==
  /\ since[c] = Never
  /\ since' = [since EXCEPT ![c] = published]
  /\ UNCHANGED <<published, received, present>>

\* The next update c is owed; c is owed nothing once it has left.
Receive(c) ==
  LET next == since[c] + Len(received[c]) + 1 IN
  /\ since[c] # Never /\ present[c]
  /\ next <= published
  /\ received' = [received EXCEPT ![c] = Append(@, next)]
  /\ UNCHANGED <<published, since, present>>

Leave(c) ==
  /\ present[c]
  /\ present' = [present EXCEPT ![c] = FALSE]
  /\ UNCHANGED <<published, since, received>>

Next ==
  \/ Publish
  \/ \E c \in Client : Join(c) \/ Receive(c) \/ Leave(c)

Spec == Init /\ [][Next]_feedVars
=============================================================================
