------------------------------ MODULE Handoff ------------------------------
(***************************************************************************)
(* What a handler that says "yield future" is promised: it goes on exactly *)
(* once, after the worker has the result, and in the end.  IOLoop          *)
(* implements this with two threads and a pipe.                            *)
(***************************************************************************)
CONSTANT Job

VARIABLE state   \* state[j]: where the job and the coroutine waiting for it are

Init == state = [j \in Job |-> "new"]

Move(j, from, to) == state[j] = from /\ state' = [state EXCEPT ![j] = to]

Submit(j) == Move(j, "new", "working")
Complete(j) == Move(j, "working", "done")
Resume(j) == Move(j, "done", "resumed")

Next == \E j \in Job : Submit(j) \/ Complete(j) \/ Resume(j)

Spec == Init /\ [][Next]_state /\ \A j \in Job : WF_state(Resume(j))
=============================================================================
