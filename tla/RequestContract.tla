--------------------------- MODULE RequestContract ---------------------------
(***************************************************************************)
(* What RemotePeer::Request promises its caller: a request that is made is  *)
(* answered - its handler runs, once - or refused - Request returns 0 and   *)
(* the handler never runs.  One of the two, once, and in the end always.    *)
(***************************************************************************)
CONSTANT Requests

VARIABLE outcome    \* of each request

Outcomes == {"unmade", "made", "answered", "refused"}

Init == outcome = [r \in Requests |-> "unmade"]

Becomes(r, from, to) ==
    /\ outcome[r] = from
    /\ outcome' = [outcome EXCEPT ![r] = to]

Make(r) == Becomes(r, "unmade", "made")
Answer(r) == Becomes(r, "made", "answered")
\* A request made on a connection already closed is refused at once.
Refuse(r) == Becomes(r, "made", "refused") \/ Becomes(r, "unmade", "refused")

Next == \E r \in Requests : Make(r) \/ Answer(r) \/ Refuse(r)

Safety == Init /\ [][Next]_outcome

Spec ==
    /\ Safety
    /\ \A r \in Requests : WF_outcome(Answer(r) \/ Becomes(r, "made", "refused"))
=============================================================================
