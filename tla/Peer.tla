--------------------------------- MODULE Peer ---------------------------------
(***************************************************************************)
(* project::remote::RemotePeer and the parts of RemoteFrameTransport that   *)
(* decide when a connection ends: one side's requests and cancels, the      *)
(* other side's dispatch and replies.  Threads: one per request (its        *)
(* caller), the transport's I/O thread, one that calls Fail, one that calls *)
(* Stop, and the serving side's I/O thread and workers.  A step is a        *)
(* critical section of a mutex or a step between two of them.               *)
(***************************************************************************)
EXTENDS Naturals, Sequences, FiniteSets

CONSTANTS
    Requests,      \* requests that may be made
    Cancels,       \* those whose caller may cancel them
    Lanes,         \* the lanes they are sent on: "interactive", "bulk"
    MaxQueued,     \* max_queued_bytes, in frames
    MaxIncoming    \* kMaxPendingIncoming of the serving side

ASSUME CancelsAssumption == Cancels \subseteq Requests
ASSUME LanesAssumption == Lanes \subseteq {"interactive", "bulk"}
ASSUME BoundsAssumption == MaxQueued \in Nat /\ MaxIncoming \in Nat

VARIABLES
    asker,       \* where the thread of each request is in SendRequest
    returned,    \* what Request returned: "nothing" yet, "id" or "zero"
    pending,     \* pending_
    taken,       \* handlers taken out of pending_ and not yet run
    ran,         \* how often each handler has run
    peerClosed,  \* RemotePeer::closed_
    closed,      \* RemoteFrameTransport::closed_
    reported,    \* close_reported_
    stop,        \* RemoteFrameTransport::stop_
    overflowed,  \* overflowed_
    queue,       \* interactive_ and bulk_, by lane
    io,          \* the I/O thread: "run", "closing", "gone"
    failer,      \* a thread in Fail: "idle", "closing", "stopping", "done"
    stopper,     \* a thread in RemotePeer::Stop: "idle", "joining", "closing", "done"
    up,          \* the link carries bytes
    wire,        \* frames on their way to the serving side
    answers,     \* responses on their way back
    hand,        \* the frame the serving I/O thread handles, if any
    locked,      \* that thread waits for a mutex it holds
    inFlight,    \* incoming_in_flight_
    cancelled,   \* incoming_cancelled_
    asked,       \* requests whose Cancel was sent
    overtaken    \* history: those that were still in the bulk lane at that time

vars == <<asker, returned, pending, taken, ran, peerClosed, closed, reported,
          stop, overflowed, queue, io, failer, stopper, up, wire, answers,
          hand, locked, inFlight, cancelled, asked, overtaken>>

client == <<asker, returned, pending, taken, ran, peerClosed, asked, overtaken>>
ends == <<closed, reported, stop, io, failer, stopper>>
net == <<overflowed, queue, up, wire, answers>>
serving == <<hand, locked, inFlight, cancelled>>

Frames == [kind : {"request", "cancel"}, id : Requests]

TypeOK ==
    /\ asker \in [Requests -> {"idle", "registered", "queued", "unsent", "sent",
                               "back", "cancelling"}]
    /\ returned \in [Requests -> {"nothing", "id", "zero"}]
    /\ pending \subseteq Requests /\ taken \subseteq Requests
    /\ ran \in [Requests -> Nat]
    /\ peerClosed \in BOOLEAN /\ closed \in BOOLEAN /\ reported \in BOOLEAN
    /\ stop \in BOOLEAN /\ overflowed \in BOOLEAN /\ up \in BOOLEAN
    /\ queue \in [{"interactive", "bulk"} -> Seq(Frames)]
    /\ io \in {"run", "closing", "gone"}
    /\ failer \in {"idle", "closing", "stopping", "done"}
    /\ stopper \in {"idle", "joining", "closing", "done"}
    /\ wire \in Seq(Frames)
    /\ answers \subseteq Requests
    /\ hand \in Seq(Frames) /\ Len(hand) <= 1
    /\ locked \in BOOLEAN
    /\ inFlight \subseteq Requests /\ cancelled \subseteq Requests
    /\ asked \subseteq Requests /\ overtaken \subseteq asked

Init ==
    /\ asker = [r \in Requests |-> "idle"]
    /\ returned = [r \in Requests |-> "nothing"]
    /\ pending = {} /\ taken = {}
    /\ ran = [r \in Requests |-> 0]
    /\ peerClosed = FALSE /\ closed = FALSE /\ reported = FALSE
    /\ stop = FALSE /\ overflowed = FALSE /\ up = TRUE
    /\ queue = [l \in {"interactive", "bulk"} |-> <<>>]
    /\ io = "run" /\ failer = "idle" /\ stopper = "idle"
    /\ wire = <<>> /\ answers = {}
    /\ hand = <<>> /\ locked = FALSE /\ inFlight = {} /\ cancelled = {}
    /\ asked = {} /\ overtaken = {}

-----------------------------------------------------------------------------
(* SendRequest, on the caller's thread.                                      *)

At(r, from, to) == asker[r] = from /\ asker' = [asker EXCEPT ![r] = to]

Returns(r, value) == returned' = [returned EXCEPT ![r] = value]

\* Mutant: the registration does not look at closed_.
RegisterUnchecked(r) ==
    /\ At(r, "idle", "registered")
    /\ pending' = pending \cup {r}
    /\ UNCHANGED <<returned, taken, ran, peerClosed, asked, overtaken, ends, net, serving>>

\* closed_ and the registration, under one lock.
Register(r) ==
    /\ asker[r] = "idle"
    /\ IF peerClosed
       THEN /\ asker' = [asker EXCEPT ![r] = "back"]
            /\ Returns(r, "zero")
            /\ UNCHANGED pending
       ELSE /\ asker' = [asker EXCEPT ![r] = "registered"]
            /\ pending' = pending \cup {r}
            /\ UNCHANGED returned
    /\ UNCHANGED <<taken, ran, peerClosed, asked, overtaken, ends, net, serving>>

\* The queue holds frames not yet written, both lanes together.
Full == overflowed \/ Len(queue["interactive"]) + Len(queue["bulk"]) >= MaxQueued

Push(lane, frame) ==
    IF Full
    THEN overflowed' = TRUE /\ UNCHANGED queue
    ELSE queue' = [queue EXCEPT ![lane] = Append(@, frame)] /\ UNCHANGED overflowed

\* RemoteFrameTransport::Send: refused on a closed transport, else queued or
\* over the bound; what it answers is read under a second lock (CheckSent).
SendClosed(r) ==
    /\ closed
    /\ At(r, "registered", "unsent")
    /\ UNCHANGED <<returned, pending, taken, ran, peerClosed, asked, overtaken, ends, net, serving>>

Send(r, lane) ==
    /\ ~closed
    /\ At(r, "registered", "queued")
    /\ Push(lane, [kind |-> "request", id |-> r])
    /\ UNCHANGED <<returned, pending, taken, ran, peerClosed, asked, overtaken, ends, up,
                   wire, answers, serving>>

CheckSent(r) ==
    /\ At(r, "queued", IF overflowed THEN "unsent" ELSE "sent")
    /\ UNCHANGED <<returned, pending, taken, ran, peerClosed, asked, overtaken, ends, net, serving>>

\* Mutant: a failed send is always a 0, though the close answers the request.
UnsentZero(r) ==
    /\ At(r, "unsent", "back")
    /\ Returns(r, "zero")
    /\ pending' = pending \ {r}
    /\ UNCHANGED <<taken, ran, peerClosed, asked, overtaken, ends, net, serving>>

\* The send failed: 0, unless a close already took the request and answers it.
Unsent(r) ==
    /\ At(r, "unsent", "back")
    /\ Returns(r, IF r \in pending THEN "zero" ELSE "id")
    /\ pending' = pending \ {r}
    /\ UNCHANGED <<taken, ran, peerClosed, asked, overtaken, ends, net, serving>>

Sent(r) ==
    /\ At(r, "sent", "back")
    /\ Returns(r, "id")
    /\ UNCHANGED <<pending, taken, ran, peerClosed, asked, overtaken, ends, net, serving>>

\* Cancel: the check under the lock, then op/cancel on the interactive lane.
Cancel(r) ==
    /\ r \in Cancels
    /\ returned[r] = "id" /\ r \notin asked
    /\ r \in pending
    /\ At(r, "back", "cancelling")
    /\ UNCHANGED <<returned, pending, taken, ran, peerClosed, asked, overtaken, ends, net, serving>>

\* The request of r has not left the bulk lane, where a cancel, on the other
\* lane, passes it.
InBulk(r) == \E i \in DOMAIN queue["bulk"] :
                 queue["bulk"][i] = [kind |-> "request", id |-> r]

SendCancel(r) ==
    /\ At(r, "cancelling", "back")
    /\ IF closed
       THEN UNCHANGED <<queue, overflowed>>
       ELSE Push("interactive", [kind |-> "cancel", id |-> r])
    /\ IF closed \/ Full
       THEN UNCHANGED <<asked, overtaken>>
       ELSE /\ asked' = asked \cup {r}
            /\ overtaken' = IF InBulk(r) THEN overtaken \cup {r} ELSE overtaken
    /\ UNCHANGED <<returned, pending, taken, ran, peerClosed, ends, up, wire,
                   answers, serving>>

\* A handler taken out of pending_ runs outside the lock.
RunHandler(r) ==
    /\ r \in taken
    /\ taken' = taken \ {r}
    /\ ran' = [ran EXCEPT ![r] = @ + 1]
    /\ UNCHANGED <<asker, returned, pending, peerClosed, asked, overtaken, ends, net, serving>>

-----------------------------------------------------------------------------
(* How a connection ends.                                                    *)

\* HandleClosed: no request is registered after it and none stays pending.
HandleClosed ==
    /\ peerClosed' = TRUE
    /\ taken' = taken \cup pending
    /\ pending' = {}
    /\ UNCHANGED <<asker, returned, ran, asked, overtaken>>

\* Close's second half: on_closed for whoever comes first.
OnClosed ==
    /\ reported' = TRUE
    /\ IF reported THEN UNCHANGED client ELSE HandleClosed

\* The I/O thread closes: the peer is gone, the queue overflowed, or the pings
\* of a peer that answers none have run out.
IoClose ==
    /\ io = "run" /\ ~stop
    /\ ~up \/ overflowed \/ locked
    /\ io' = "closing"
    /\ closed' = TRUE
    /\ UNCHANGED <<reported, stop, failer, stopper, client, net, serving>>

IoClosed ==
    /\ io = "closing"
    /\ OnClosed
    /\ io' = "gone"
    /\ UNCHANGED <<closed, stop, failer, stopper, net, serving>>

\* Fail, from another thread (a deliberate disconnect): Close, then stop_.
Fail ==
    /\ failer = "idle"
    /\ failer' = "closing"
    /\ closed' = TRUE
    /\ UNCHANGED <<reported, stop, io, stopper, client, net, serving>>

FailClosed ==
    /\ failer = "closing"
    /\ OnClosed
    /\ failer' = "stopping"
    /\ UNCHANGED <<closed, stop, io, stopper, net, serving>>

FailStop ==
    /\ failer = "stopping"
    /\ failer' = "done"
    /\ stop' = TRUE
    /\ UNCHANGED <<closed, reported, io, stopper, client, net, serving>>

IoStop ==
    /\ io = "run" /\ stop
    /\ io' = "gone"
    /\ UNCHANGED <<closed, reported, stop, failer, stopper, client, net, serving>>

\* RemotePeer::Stop: join the I/O thread, then answer what is still pending.
Stop ==
    /\ stopper = "idle"
    /\ stopper' = "joining"
    /\ stop' = TRUE
    /\ UNCHANGED <<closed, reported, io, failer, client, net, serving>>

StopJoined ==
    /\ stopper = "joining" /\ io = "gone"
    /\ stopper' = "closing"
    /\ closed' = TRUE
    /\ UNCHANGED <<reported, stop, io, failer, client, net, serving>>

\* Mutant: Stop joins the thread and leaves what is pending unanswered.
StopQuiet ==
    /\ stopper = "closing"
    /\ stopper' = "done"
    /\ UNCHANGED <<closed, reported, stop, io, failer, client, net, serving>>

StopClosed ==
    /\ stopper = "closing"
    /\ stopper' = "done"
    /\ HandleClosed
    /\ UNCHANGED <<closed, reported, stop, io, failer, net, serving>>

-----------------------------------------------------------------------------
(* The I/O thread's frames, and the link.                                    *)

\* Mutant: the newest frame of the lane, from the wrong end of the deque.
WriteNewest(lane) ==
    /\ io = "run" /\ up
    /\ queue[lane] # <<>>
    /\ lane = "bulk" => queue["interactive"] = <<>>
    /\ wire' = Append(wire, queue[lane][Len(queue[lane])])
    /\ queue' = [queue EXCEPT ![lane] = SubSeq(@, 1, Len(@) - 1)]
    /\ UNCHANGED <<overflowed, up, answers, client, ends, serving>>

\* Interactive frames first; a bulk frame when there is none (and the window
\* allows it, which other bulk content may delay).
Write(lane) ==
    /\ io = "run" /\ up
    /\ queue[lane] # <<>>
    /\ lane = "bulk" => queue["interactive"] = <<>>
    /\ wire' = Append(wire, Head(queue[lane]))
    /\ queue' = [queue EXCEPT ![lane] = Tail(@)]
    /\ UNCHANGED <<overflowed, up, answers, client, ends, serving>>

\* A response: its handler is taken out, once; one to nothing pending is dropped.
Receive(r) ==
    /\ io = "run" /\ r \in answers
    /\ answers' = answers \ {r}
    /\ taken' = taken \cup (pending \cap {r})
    /\ pending' = pending \ {r}
    /\ UNCHANGED <<asker, returned, ran, peerClosed, asked, overtaken, closed, reported,
                   stop, io, failer, stopper, overflowed, queue, up, wire, serving>>

LinkLost ==
    /\ up
    /\ up' = FALSE
    /\ wire' = <<>> /\ answers' = {}
    /\ UNCHANGED <<overflowed, queue, client, ends, serving>>

-----------------------------------------------------------------------------
(* The serving side: HandleFrame and the replies of its handlers.            *)

\* Mutant: all that has arrived is in hand at once.
ServerReadAll ==
    /\ hand = <<>> /\ wire # <<>>
    /\ hand' = wire
    /\ wire' = <<>>
    /\ UNCHANGED <<overflowed, queue, up, answers, locked, inFlight, cancelled, client, ends>>

ServerRead ==
    /\ hand = <<>> /\ wire # <<>>
    /\ hand' = <<Head(wire)>>
    /\ wire' = Tail(wire)
    /\ UNCHANGED <<overflowed, queue, up, answers, locked, inFlight, cancelled, client, ends>>

Handling(kind) == ~locked /\ hand # <<>> /\ hand[1].kind = kind

\* Within the bound the request is in flight and its handler is called.
Dispatch ==
    /\ Handling("request")
    /\ Cardinality(inFlight) < MaxIncoming
    /\ inFlight' = inFlight \cup {hand[1].id}
    /\ hand' = <<>>
    /\ UNCHANGED <<locked, cancelled, client, ends, net>>

\* At the bound HandleFrame calls ReplyError with mutex_ held, and ReplyError
\* locks mutex_: the thread waits for itself.
DispatchFull ==
    /\ Handling("request")
    /\ Cardinality(inFlight) >= MaxIncoming
    /\ locked' = TRUE
    /\ UNCHANGED <<hand, inFlight, cancelled, client, ends, net>>

\* Mutant: op/cancel marks any id it names.
OpCancelAny ==
    /\ Handling("cancel")
    /\ cancelled' = cancelled \cup {hand[1].id}
    /\ hand' = <<>>
    /\ UNCHANGED <<locked, inFlight, client, ends, net>>

\* op/cancel marks a request in flight; for any other id it is dropped.
OpCancel ==
    /\ Handling("cancel")
    /\ cancelled' = cancelled \cup (inFlight \cap {hand[1].id})
    /\ hand' = <<>>
    /\ UNCHANGED <<locked, inFlight, client, ends, net>>

\* Reply or ReplyError, on whichever thread the handler ended; the locked I/O
\* thread holds the mutex they need.
Reply(r) ==
    /\ r \in inFlight /\ ~locked
    /\ inFlight' = inFlight \ {r}
    /\ cancelled' = cancelled \ {r}
    /\ answers' = IF up THEN answers \cup {r} ELSE answers
    /\ UNCHANGED <<overflowed, queue, up, wire, hand, locked, client, ends>>

-----------------------------------------------------------------------------

Asking(r) ==
    \/ SendClosed(r) \/ (\E l \in Lanes : Send(r, l)) \/ CheckSent(r)
    \/ Unsent(r) \/ Sent(r) \/ SendCancel(r) \/ RunHandler(r)

Io ==
    \/ IoClose \/ IoClosed \/ IoStop
    \/ \E l \in {"interactive", "bulk"} : Write(l)
    \/ \E r \in Requests : Receive(r)

Closers == FailClosed \/ FailStop \/ StopJoined \/ StopClosed

Server == ServerRead \/ Dispatch \/ DispatchFull \/ OpCancel

Next ==
    \/ \E r \in Requests : Register(r) \/ Cancel(r) \/ Asking(r) \/ Reply(r)
    \/ Io \/ Closers \/ Server
    \/ Fail \/ Stop \/ LinkLost

Spec == Init /\ [][Next]_vars

\* Callers, both I/O threads and threads in Fail or Stop always get on, and the
\* serving side's handlers end with a reply.
FairSpec ==
    /\ Spec
    /\ \A r \in Requests : WF_vars(Asking(r)) /\ WF_vars(Reply(r))
    /\ WF_vars(Io) /\ WF_vars(Closers) /\ WF_vars(Server)

-----------------------------------------------------------------------------
(* Properties.                                                               *)

\* A request that was made is in exactly one place: pending, taken by a response
\* or a close whose handler call is on its way, answered by its handler, or
\* refused with a 0.  So no close, overflow or late answer completes it twice
\* or loses it, whichever of them SendRequest races.
Refused(r) == returned[r] = "zero"
InOnePlace(r) ==
    /\ r \in pending \/ r \in taken \/ ran[r] = 1 \/ Refused(r)
    /\ r \in pending => r \notin taken /\ ran[r] = 0 /\ ~Refused(r)
    /\ r \in taken => ran[r] = 0 /\ ~Refused(r)
    /\ ran[r] <= 1 /\ (Refused(r) => ran[r] = 0)
OneOutcome == \A r \in Requests : asker[r] # "idle" => InOnePlace(r)

\* Once closed, nothing is pending: no request made around a close is left for
\* an answer that cannot come.
NoneLeftBehind == peerClosed => pending = {}

\* An id is marked cancelled only while its request is in flight, so the mark
\* never leaks and never stops a later request.
CancelledInFlight == cancelled \subseteq inFlight

\* The requests' contract, as an abstract machine this one implements.
Outcome ==
    [r \in Requests |->
        IF ran[r] > 0 THEN "answered"
        ELSE IF returned[r] = "zero" THEN "refused"
        ELSE IF asker[r] = "idle" THEN "unmade" ELSE "made"]
Contract == INSTANCE RequestContract WITH outcome <- Outcome

\* Every request comes to its one outcome, and the steps there are the
\* contract's: made, then answered or refused, never both, never undone.
ImplementsContract == Contract!Spec

\* RemotePeer::Cancel "ask[s] the peer to stop request `id'": on a link that is
\* up, a request in flight whose cancel was sent is marked, or its cancel is
\* still on the way.  One thing loses a cancel: it takes the interactive lane,
\* and passes a request (search/run, tree/manifest) that still waits in the bulk
\* lane; the serving side then drops it and the request runs to its end.
CancelReaches ==
    up => \A r \in (asked \cap inFlight) \ overtaken :
        \/ r \in cancelled
        \/ hand = <<[kind |-> "cancel", id |-> r]>>
        \/ \E i \in DOMAIN wire : wire[i] = [kind |-> "cancel", id |-> r]
        \/ \E i \in DOMAIN queue["interactive"] :
               queue["interactive"][i] = [kind |-> "cancel", id |-> r]

\* RemotePeer.cpp on too many requests: the excess one is answered with an error
\* and the serving I/O thread goes on.
ServerGoesOn == hand # <<>> ~> hand = <<>>
=============================================================================
