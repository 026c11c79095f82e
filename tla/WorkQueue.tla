------------------------------ MODULE WorkQueue ------------------------------
(***************************************************************************)
(* util::SerialWorkQueue: one worker thread that drains a list of jobs.     *)
(* Any thread posts; a thread that calls Flush, Drain or Shutdown blocks.   *)
(*                                                                          *)
(* Jobs are numbered in the order they are admitted.  The list queue_ is    *)
(* the set `queue' of numbers ordered by `place': a job pushed at the back  *)
(* has its own number as place, one pushed at the front has minus its       *)
(* number, so the front of the list is the least place.  An erased iterator *)
(* is then a number no longer in `queue'.                                   *)
(*                                                                          *)
(* Each action but the worker's Run is one critical section of mutex_; the  *)
(* worker runs a task and calls on_complete outside it.  What a task does   *)
(* is not modelled: it ends, normally or through the exception firewall.    *)
(***************************************************************************)
EXTENDS Integers, FiniteSets

CONSTANTS
    Callers,    \* threads that may block in Flush, Drain or Shutdown
    Drainers,   \* the callers among them that call Drain
    Keys,       \* the dedup keys of PostLatest
    NoKey,      \* the key of every other job (the empty string)
    MaxDepth,   \* Limits::max_depth, 0 for no budget
    MaxJobs     \* bound: jobs ever admitted

ASSUME CallersAssumption == Drainers \subseteq Callers
ASSUME KeysAssumption == NoKey \notin Keys
ASSUME BoundAssumption == MaxDepth \in Nat /\ MaxJobs \in Nat

VARIABLES
    queue,      \* queue_: the queued jobs
    job,        \* every job admitted so far, queued or not
    admitted,   \* how many there are: on_enqueue calls
    completed,  \* on_complete calls for each job
    ran,        \* jobs whose task was called
    index,      \* keyed_index_: key -> job, 0 where there is no entry
    running,    \* the job the worker popped and has not completed, 0 for none
    worker,     \* "none" before EnsureStarted, "alive", "exited"
    stop,       \* stop_
    caller,     \* what each caller is blocked on
    swept       \* the last job queued before the latest Drain or Shutdown

vars == <<queue, job, admitted, completed, ran, index, running, worker, stop,
          caller, swept>>

Jobs == 1..MaxJobs

Job == [place : Int, key : Keys \cup {NoKey}, cancelled : BOOLEAN,
        droppable : BOOLEAN, barrier : BOOLEAN, durable : BOOLEAN]

\* A caller blocks on the promise of a barrier job, or on the worker's join.
Idle == [on |-> "nothing", job |-> 0]
Waits == [on : {"nothing", "barrier", "join"}, job : 0..MaxJobs]

TypeOK ==
    /\ queue \in SUBSET Jobs
    /\ job \in [Jobs -> Job]
    /\ admitted \in 0..MaxJobs
    /\ completed \in [Jobs -> Nat]
    /\ ran \in SUBSET Jobs
    /\ index \in [Keys -> 0..MaxJobs]
    /\ running \in 0..MaxJobs
    /\ worker \in {"none", "alive", "exited"}
    /\ stop \in BOOLEAN
    /\ caller \in [Callers -> Waits]
    /\ swept \in 0..MaxJobs

Plain == [place |-> 0, key |-> NoKey, cancelled |-> FALSE,
          droppable |-> FALSE, barrier |-> FALSE, durable |-> FALSE]

Init ==
    /\ queue = {}
    /\ job = [i \in Jobs |-> Plain]
    /\ admitted = 0
    /\ completed = [i \in Jobs |-> 0]
    /\ ran = {}
    /\ index = [k \in Keys |-> 0]
    /\ running = 0
    /\ worker \in {"none", "alive"}      \* StartMode::kLazy, kEager
    /\ stop = FALSE
    /\ caller = [t \in Callers |-> Idle]
    /\ swept = 0

-----------------------------------------------------------------------------
(* The helpers that run with mutex_ held.                                    *)

\* The first of a set of queued jobs in list order, as a set of one or, for
\* the empty set, none.
First(S) == {i \in S : \A j \in S : job[i].place <= job[j].place}

Started == IF worker = "none" /\ ~stop THEN "alive" ELSE worker

\* As Unindexed, with the entry left at the list's end.
UnindexedToEnd(S) == [k \in Keys |-> IF index[k] \in S THEN -1 ELSE index[k]]

\* The index once the nodes of S are gone: an entry goes only where it names
\* one of them.
Unindexed(S) == [k \in Keys |-> IF index[k] \in S THEN 0 ELSE index[k]]

Cleared == [k \in Keys |-> 0]

\* As Sheddable, without the test of droppable.
SheddableAny(Q) == {i \in Q : ~job[i].cancelled}

\* The queued jobs the budget sheds before one more is admitted: none or one.
Sheddable(Q) == {i \in Q : job[i].droppable /\ ~job[i].cancelled}
Shed(Q) ==
    IF MaxDepth = 0 \/ Cardinality(Q) < MaxDepth \/ Sheddable(Q) = {}
    THEN {}
    ELSE First(Sheddable(Q))

\* on_complete for each job of S, which are erased and will not run.
Completes(S) == [i \in Jobs |-> IF i \in S THEN completed[i] + 1 ELSE completed[i]]

\* on_enqueue and the push of job number n = admitted + 1 onto what is left of
\* the list once the jobs of `gone' are erased.
Admit(gone, record) ==
    LET n == admitted + 1 IN
    /\ ~stop
    /\ n <= MaxJobs
    /\ worker' = Started
    /\ admitted' = n
    /\ job' = [job EXCEPT ![n] = record]
    /\ queue' = (queue \ gone) \cup {n}
    /\ completed' = Completes(gone)

Back == admitted + 1
Front == -(admitted + 1)

-----------------------------------------------------------------------------
(* Posting.                                                                  *)

Post(droppable) ==
    LET gone == Shed(queue) IN
    /\ Admit(gone, [Plain EXCEPT !.place = Back, !.droppable = droppable])
    /\ index' = Unindexed(gone)
    /\ UNCHANGED <<ran, running, stop, caller, swept>>

\* Not subject to the budget: no shed.
PostDurable ==
    /\ Admit({}, [Plain EXCEPT !.place = Back, !.durable = TRUE])
    /\ UNCHANGED <<ran, index, running, stop, caller, swept>>

PostFront ==
    LET gone == Shed(queue) IN
    /\ Admit(gone, [Plain EXCEPT !.place = Front])
    /\ index' = Unindexed(gone)
    /\ UNCHANGED <<ran, running, stop, caller, swept>>

\* The live job of the key goes first, then the budget sheds from the rest.
PostLatest(key, droppable) ==
    LET old == queue \cap {index[key]}
        gone == old \cup Shed(queue \ old) IN
    /\ Admit(gone, [Plain EXCEPT !.place = Back, !.key = key,
                                 !.droppable = droppable])
    /\ index' = [Unindexed(gone) EXCEPT ![key] = admitted + 1]
    /\ UNCHANGED <<ran, running, stop, caller, swept>>

-----------------------------------------------------------------------------
(* Cancelling, waiting and stopping.                                         *)

\* As Cancelled, with durable jobs like the others.
CancelledAll(sparesDurable) ==
    [i \in Jobs |-> [job[i] EXCEPT !.cancelled = @ \/ i \in queue]]

Cancelled(sparesDurable) ==
    [i \in Jobs |->
        IF i \in queue /\ ~(sparesDurable /\ job[i].durable)
        THEN [job[i] EXCEPT !.cancelled = TRUE]
        ELSE job[i]]

\* As Cancel, with the index left as it is.
CancelOnly ==
    /\ job' = Cancelled(TRUE)
    /\ UNCHANGED <<queue, admitted, completed, ran, index, running, worker,
                   stop, caller, swept>>

Cancel ==
    /\ job' = Cancelled(TRUE)
    /\ index' = Cleared
    /\ UNCHANGED <<queue, admitted, completed, ran, running, worker, stop,
                   caller, swept>>

\* As PushBarrier, at the head.
PushBarrierAhead(t, jobs) ==
    LET n == admitted + 1 IN
    /\ n <= MaxJobs
    /\ admitted' = n
    /\ job' = [jobs EXCEPT ![n] = [Plain EXCEPT !.place = Front, !.barrier = TRUE]]
    /\ queue' = queue \cup {n}
    /\ caller' = [caller EXCEPT ![t] = [on |-> "barrier", job |-> n]]
    /\ UNCHANGED <<completed, ran, running, worker, stop>>

\* The barrier of Drain or Flush: job n at the tail, behind `jobs', and the
\* caller blocks on its promise.
PushBarrier(t, jobs) ==
    LET n == admitted + 1 IN
    /\ n <= MaxJobs
    /\ admitted' = n
    /\ job' = [jobs EXCEPT ![n] = [Plain EXCEPT !.place = Back, !.barrier = TRUE]]
    /\ queue' = queue \cup {n}
    /\ caller' = [caller EXCEPT ![t] = [on |-> "barrier", job |-> n]]
    /\ UNCHANGED <<completed, ran, running, worker, stop>>

Drain(t) ==
    /\ caller[t] = Idle
    /\ ~stop /\ worker # "none"
    /\ PushBarrier(t, Cancelled(FALSE))
    /\ index' = Cleared
    /\ swept' = admitted

\* As DrainStopped, without the hooks.
DrainUnbalanced(t) ==
    /\ caller[t] = Idle
    /\ stop \/ worker = "none"
    /\ queue' = {}
    /\ index' = Cleared
    /\ swept' = admitted
    /\ UNCHANGED <<job, admitted, completed, ran, running, worker, stop, caller>>

\* Stopped, or never started: the list is cleared and nothing is waited for.
DrainStopped(t) ==
    /\ caller[t] = Idle
    /\ stop \/ worker = "none"
    /\ completed' = Completes(queue)
    /\ queue' = {}
    /\ index' = Cleared
    /\ swept' = admitted
    /\ UNCHANGED <<job, admitted, ran, running, worker, stop, caller>>

Flush(t) ==
    /\ caller[t] = Idle
    /\ ~stop /\ worker # "none"      \* otherwise it returns at once
    /\ PushBarrier(t, job)
    /\ UNCHANGED <<index, swept>>

\* The promise is set: Drain or Flush returns.
Released(t) ==
    /\ caller[t].on = "barrier"
    /\ caller[t].job \in ran
    /\ caller' = [caller EXCEPT ![t] = Idle]
    /\ UNCHANGED <<queue, job, admitted, completed, ran, index, running,
                   worker, stop, swept>>

Shutdown(t) ==
    /\ caller[t] = Idle
    /\ ~stop
    /\ job' = Cancelled(FALSE)
    /\ index' = Cleared
    /\ stop' = TRUE
    /\ swept' = admitted
    /\ caller' = [caller EXCEPT ![t] = [on |-> "join", job |-> 0]]
    /\ UNCHANGED <<queue, admitted, completed, ran, running, worker>>

Joined(t) ==
    /\ caller[t].on = "join"
    /\ worker = "exited"
    /\ caller' = [caller EXCEPT ![t] = Idle]
    /\ UNCHANGED <<queue, job, admitted, completed, ran, index, running,
                   worker, stop, swept>>

\* Not joinable, the worker never started: what is queued is dropped.
NothingToJoin(t) ==
    /\ caller[t].on = "join"
    /\ worker = "none"
    /\ completed' = Completes(queue)
    /\ queue' = {}
    /\ index' = Cleared
    /\ caller' = [caller EXCEPT ![t] = Idle]
    /\ UNCHANGED <<job, admitted, ran, running, worker, stop, swept>>

-----------------------------------------------------------------------------
(* WorkerMain.                                                               *)

Pop ==
    /\ worker = "alive" /\ running = 0
    /\ \E i \in First(queue) :
        /\ running' = i
        /\ queue' = queue \ {i}
        /\ index' = Unindexed({i})
    /\ UNCHANGED <<job, admitted, completed, ran, worker, stop, caller, swept>>

\* As Runs, without run_even_if_cancelled.
RunsLive(i) == ~job[i].cancelled

Runs(i) == ~job[i].cancelled \/ job[i].barrier

Run ==
    /\ running # 0 /\ running \notin ran
    /\ Runs(running)
    /\ ran' = ran \cup {running}
    /\ UNCHANGED <<queue, job, admitted, completed, index, running, worker,
                   stop, caller, swept>>

Complete ==
    /\ running # 0
    /\ running \in ran \/ ~Runs(running)
    /\ completed' = Completes({running})
    /\ running' = 0
    /\ UNCHANGED <<queue, job, admitted, ran, index, worker, stop, caller, swept>>

Exit ==
    /\ worker = "alive" /\ running = 0
    /\ stop /\ queue = {}
    /\ worker' = "exited"
    /\ UNCHANGED <<queue, job, admitted, completed, ran, index, running, stop,
                   caller, swept>>

-----------------------------------------------------------------------------

Worker == Pop \/ Run \/ Complete \/ Exit

Returns(t) == Released(t) \/ Joined(t) \/ NothingToJoin(t)

Posts ==
    \/ \E d \in BOOLEAN : Post(d)
    \/ PostDurable
    \/ PostFront
    \/ \E k \in Keys, d \in BOOLEAN : PostLatest(k, d)

Next ==
    \/ Posts
    \/ Cancel
    \/ \E t \in Callers : Flush(t) \/ Shutdown(t) \/ Returns(t)
    \/ \E t \in Drainers : Drain(t) \/ DrainStopped(t)
    \/ Worker

Spec == Init /\ [][Next]_vars

\* Tasks are kept bounded by their callers, so the worker always gets on; a
\* thread whose promise is set or whose join is due returns.
FairSpec ==
    /\ Spec
    /\ WF_vars(Worker)
    /\ \A t \in Callers : WF_vars(Returns(t))

-----------------------------------------------------------------------------
(* Properties.                                                               *)

Live(i) == i \in queue /\ ~job[i].cancelled

\* Hooks: on_complete fires exactly once for every admitted job whatever ends
\* it - run, skipped, superseded, shed, drained - and never before it leaves
\* the queue and the worker's hands.
CompletedOnce ==
    \A i \in Jobs :
        completed[i] = IF i <= admitted /\ i \notin queue /\ i # running THEN 1 ELSE 0

\* keyed_index_ names exactly the live queued job of each key, so PostLatest
\* never erases a node that has left the list and never leaves two live jobs of
\* one key: whatever mix of sheds, cancels and pops came between.
IndexIsLive ==
    \A k \in Keys :
        /\ index[k] # 0 => Live(index[k]) /\ job[index[k]].key = k
        /\ \A i \in Jobs : Live(i) /\ job[i].key = k => index[k] = i

\* Why a job need not run: it was cancelled, or is a droppable one that was shed,
\* or was superseded by a later job of its key.
CalledOff(i) ==
    \/ job[i].cancelled
    \/ job[i].droppable
    \/ \E j \in Jobs : j > i /\ j <= admitted /\ job[j].key = job[i].key
                       /\ job[i].key # NoKey

\* A job that ended without running was called off; a barrier always ran,
\* unless a Drain found it in a queue that a Shutdown was already stopping.
NothingLost ==
    \A i \in Jobs :
        completed[i] > 0 /\ i \notin ran => CalledOff(i) /\ (job[i].barrier => stop)

\* PostDurable: a git write that did not run was queued when a Drain or a
\* Shutdown came; no Cancel, shed or PostLatest costs one.
DurableKept ==
    \A i \in Jobs :
        job[i].durable /\ completed[i] > 0 /\ i \notin ran => i <= swept

\* Flush "blocks until every job queued at the time of the call has RUN", and
\* Drain until each is over: when the barrier of either has run, every job
\* admitted before it is over, and it ran or was called off.  Being called off
\* is not in the header's sentence: a Cancel, a post that sheds and a PostLatest
\* of a queued key act on jobs a Flush is waiting for, and the job that takes the
\* place of a superseded one runs after the Flush has returned.
FlushRuns ==
    \A b \in ran : job[b].barrier =>
        \A i \in 1..(b - 1) : completed[i] = 1 /\ (i \in ran \/ CalledOff(i))

\* The barrier of t went with the queue: a Drain cleared a list that a Shutdown
\* was stopping, and the promise t waits for is set by nobody.
Stranded(t) ==
    /\ stop /\ caller[t].on = "barrier"
    /\ completed[caller[t].job] = 1 /\ caller[t].job \notin ran

\* Flush and Drain wait on a promise that is set, Shutdown on a worker that
\* ends, in whatever order three threads, one of them draining, call them; all
\* that keeps one of them is a Drain that meets a Flush, or another Drain, in a
\* queue being shut down ("or Drain() would block forever on a promise no one
\* ever fulfills" is not prevented there).
CallersReturn ==
    \A t \in Callers : caller[t].on # "nothing" ~> caller[t] = Idle \/ Stranded(t)
=============================================================================
