--------------------------- MODULE WorkQueueProofs ---------------------------
(***************************************************************************)
(* Proofs about WorkQueue for every set of callers and keys, every budget   *)
(* and every number of jobs.  The inductive invariant is Accounted below:   *)
(* the three properties of the queue need each other and the numbering.     *)
(***************************************************************************)
EXTENDS WorkQueue, TLAPS

\* A job's place is its number or minus it, and a barrier's is its number.  A
\* durable job has no key.
Placed ==
    \A i \in Jobs :
        /\ i \in queue => job[i].place \in {i, -i}
        /\ job[i].barrier => i <= admitted /\ (i \in queue => job[i].place = i)
        /\ job[i].durable => job[i].key = NoKey

\* Queued, popped and run jobs are admitted ones; none is both queued and in
\* the worker's hands or run.
Apart ==
    /\ queue \subseteq 1..admitted
    /\ running \in 0..admitted
    /\ running \notin queue
    /\ ran \subseteq 1..admitted
    /\ ran \cap queue = {}

\* When the worker holds a barrier, everything older has left the list.
Behind ==
    running # 0 /\ job[running].barrier => \A i \in queue : i > running

\* What a barrier that ran means for the jobs before it: each is over.
BarrierIsLast ==
    \A b \in ran : job[b].barrier => \A i \in 1..(b - 1) : completed[i] = 1

Accounted ==
    /\ TypeOK
    /\ Placed
    /\ Apart
    /\ Behind
    /\ CompletedOnce
    /\ IndexIsLive
    /\ BarrierIsLast

-----------------------------------------------------------------------------
(* Typing of the helpers.                                                    *)

\* The default job, and any job with another place and flags, is a job.
LEMMA PlainType == Plain \in Job
<1>1. NoKey \in Keys \cup {NoKey}
  OBVIOUS
<1>2. 0 \in Int
  OBVIOUS
<1> QED
  BY <1>1, <1>2 DEF Plain, Job

\* Cancelling changes the flag of queued jobs only.
LEMMA CancelledType ==
  ASSUME TypeOK, NEW spare \in BOOLEAN
  PROVE  /\ Cancelled(spare) \in [Jobs -> Job]
         /\ \A i \in Jobs : /\ Cancelled(spare)[i].place = job[i].place
                            /\ Cancelled(spare)[i].barrier = job[i].barrier
                            /\ Cancelled(spare)[i].key = job[i].key
                            /\ Cancelled(spare)[i].durable = job[i].durable
                            /\ i \notin queue => Cancelled(spare)[i] = job[i]
<1>1. \A i \in Jobs : job[i] \in Job
  BY DEF TypeOK
<1>2. \A i \in Jobs : /\ [job[i] EXCEPT !.cancelled = TRUE] \in Job
                      /\ [job[i] EXCEPT !.cancelled = TRUE].place = job[i].place
                      /\ [job[i] EXCEPT !.cancelled = TRUE].barrier = job[i].barrier
                      /\ [job[i] EXCEPT !.cancelled = TRUE].key = job[i].key
                      /\ [job[i] EXCEPT !.cancelled = TRUE].durable = job[i].durable
  BY <1>1 DEF Job
<1> QED
  BY <1>1, <1>2 DEF Cancelled

\* Counting completions keeps the counters natural numbers.
LEMMA CompletesType ==
  ASSUME TypeOK, NEW S
  PROVE  Completes(S) \in [Jobs -> Nat]
<1>1. \A i \in Jobs : completed[i] \in Nat /\ completed[i] + 1 \in Nat
  BY DEF TypeOK
<1> QED
  BY <1>1 DEF Completes

\* Forgetting nodes keeps the index an index.
LEMMA UnindexedType ==
  ASSUME TypeOK, NEW S
  PROVE  Unindexed(S) \in [Keys -> 0..MaxJobs]
<1>1. 0 \in 0..MaxJobs
  BY BoundAssumption
<1> QED
  BY <1>1 DEF Unindexed, TypeOK

-----------------------------------------------------------------------------
(* One lemma per shape of step.                                              *)

\* The four posts: some queued jobs go, one plain or keyed job comes.
LEMMA PostKeeps ==
  ASSUME Accounted,
         NEW gone \in SUBSET queue,
         NEW r \in Job, r.place \in {Back, Front}, ~r.barrier, ~r.cancelled,
         r.durable => r.key = NoKey,
         Admit(gone, r),
         \/ r.key = NoKey /\ index' = Unindexed(gone)
         \/ /\ r.key \in Keys
            /\ index[r.key] \in gone \cup {0}
            /\ index' = [Unindexed(gone) EXCEPT ![r.key] = admitted + 1],
         UNCHANGED <<ran, running, stop, caller, swept>>
  PROVE  Accounted'
<1> DEFINE n == admitted + 1
<1>1. /\ admitted \in Nat /\ n \in Jobs /\ n > admitted /\ admitted' = n
      /\ n \notin queue /\ n # running /\ n \notin ran
  BY BoundAssumption DEF Accounted, TypeOK, Apart, Admit, Jobs
<1>2. /\ job' \in [Jobs -> Job]
      /\ job'[n] = r
      /\ \A i \in Jobs : i # n => job'[i] = job[i]
  BY <1>1 DEF Accounted, TypeOK, Admit
<1>3. queue' = (queue \ gone) \cup {n}
  BY DEF Admit
<1>4. /\ completed' = Completes(gone)
      /\ \A i \in Jobs : completed'[i] = IF i \in gone THEN completed[i] + 1 ELSE completed[i]
  BY DEF Admit, Completes
<1>5. index' \in [Keys -> 0..MaxJobs]
  BY <1>1, UnindexedType DEF Accounted, Jobs
<1>6. TypeOK'
  <2>1. worker' \in {"none", "alive", "exited"}
    BY DEF Admit, Started, Accounted, TypeOK
  <2>2. completed' \in [Jobs -> Nat]
    BY <1>4, CompletesType DEF Accounted
  <2>3. queue' \in SUBSET Jobs /\ admitted' \in 0..MaxJobs
    BY <1>1, <1>3, BoundAssumption DEF Accounted, TypeOK, Jobs
  <2> QED
    BY <1>2, <1>5, <2>1, <2>2, <2>3 DEF Accounted, TypeOK
<1>7. Placed'
  BY <1>1, <1>2, <1>3 DEF Accounted, TypeOK, Placed, Back, Front, Jobs
<1>8. Apart'
  BY <1>1, <1>3 DEF Accounted, TypeOK, Apart, Jobs
<1>9. Behind'
  BY <1>1, <1>2, <1>3 DEF Accounted, TypeOK, Apart, Behind, Jobs
<1>10. CompletedOnce'
  BY <1>1, <1>3, <1>4 DEF Accounted, TypeOK, Apart, CompletedOnce, Jobs
<1>11. IndexIsLive'
  <2> SUFFICES ASSUME NEW k \in Keys
               PROVE  /\ index'[k] # 0 => Live(index[k])' /\ job'[index'[k]].key = k
                      /\ \A i \in Jobs : Live(i)' /\ job'[i].key = k => index'[k] = i
    BY DEF IndexIsLive
  <2>1. /\ index[k] # 0 => index[k] \in Jobs /\ Live(index[k]) /\ job[index[k]].key = k
        /\ \A i \in Jobs : Live(i) /\ job[i].key = k => index[k] = i
    BY DEF Accounted, IndexIsLive, TypeOK, Jobs, Live
  <2>2. CASE r.key = k
    <3>1. index'[k] = n
      BY <2>2, <1>1, UnindexedType, KeysAssumption DEF Accounted
    <3>2. n # 0 /\ n \in queue' /\ ~job'[n].cancelled /\ job'[n].key = k
      BY <2>2, <1>1, <1>2, <1>3
    <3>3. ASSUME NEW i \in Jobs, Live(i)', job'[i].key = k
          PROVE  i = n
      <4>1. SUFFICES ASSUME i # n PROVE FALSE
        OBVIOUS
      <4>2. Live(i) /\ job[i].key = k /\ i \notin gone
        BY <4>1, <3>3, <1>2, <1>3 DEF Live
      <4>3. index[k] \in gone \cup {0}
        BY <2>2, KeysAssumption
      <4> QED
        BY <4>2, <4>3, <2>1 DEF Jobs
    <3> QED
      BY <3>1, <3>2, <3>3 DEF Live
  <2>3. CASE r.key # k
    <3>1. index'[k] = IF index[k] \in gone THEN 0 ELSE index[k]
      BY <2>3 DEF Unindexed
    <3>2. ASSUME index'[k] # 0
          PROVE  Live(index[k])' /\ job'[index'[k]].key = k
      <4>1. /\ index'[k] = index[k] /\ index[k] \notin gone /\ index[k] # n
            /\ index[k] \in Jobs /\ Live(index[k]) /\ job[index[k]].key = k
        BY <3>1, <3>2, <2>1, <1>1 DEF Live
      <4> QED
        BY <4>1, <1>2, <1>3 DEF Live
    <3>3. ASSUME NEW i \in Jobs, Live(i)', job'[i].key = k
          PROVE  index'[k] = i
      BY <3>3, <3>1, <2>1, <2>3, <1>2, <1>3 DEF Live
    <3> QED
      BY <3>2, <3>3
  <2> QED
    BY <2>2, <2>3
<1>12. BarrierIsLast'
  <2> SUFFICES ASSUME NEW b \in ran, job'[b].barrier, NEW i \in 1..(b - 1)
               PROVE  completed'[i] = 1
    BY DEF BarrierIsLast
  <2>1. b \in Jobs /\ i \in Jobs /\ i \in Nat /\ b # n /\ i \notin queue
    <3>1. b \in 1..admitted
      BY DEF Accounted, Apart
    <3>2. b # n /\ job[b].barrier /\ b \in Jobs /\ i \in Jobs /\ i \in Nat
      BY <3>1, <1>1, <1>2, BoundAssumption DEF Jobs
    <3>3. completed[i] = 1
      BY <3>2 DEF Accounted, BarrierIsLast
    <3> QED
      BY <3>2, <3>3 DEF Accounted, CompletedOnce
  <2>2. completed[i] = 1
    BY <2>1, <1>2 DEF Accounted, BarrierIsLast
  <2> QED
    BY <2>1, <2>2, <1>4
<1> QED
  BY <1>6, <1>7, <1>8, <1>9, <1>10, <1>11, <1>12 DEF Accounted

\* Jobs queued are cancelled and the index cleared: Cancel, Shutdown.
LEMMA CancelKeeps ==
  ASSUME Accounted, NEW spare \in BOOLEAN,
         job' = Cancelled(spare), index' = Cleared,
         UNCHANGED <<queue, admitted, completed, ran, running, worker>>,
         stop' \in BOOLEAN, caller' \in [Callers -> Waits], swept' \in 0..MaxJobs
  PROVE  Accounted'
<1>1. /\ job' \in [Jobs -> Job]
      /\ \A i \in Jobs : /\ job'[i].place = job[i].place
                         /\ job'[i].barrier = job[i].barrier
                         /\ job'[i].key = job[i].key
                         /\ job'[i].durable = job[i].durable
  BY CancelledType DEF Accounted
<1>2. index' \in [Keys -> 0..MaxJobs]
  BY BoundAssumption DEF Cleared
<1>3. TypeOK'
  BY <1>1, <1>2 DEF Accounted, TypeOK
<1>4. Placed' /\ Apart' /\ CompletedOnce'
  BY <1>1 DEF Accounted, TypeOK, Placed, Apart, CompletedOnce
<1>5. Behind'
  BY <1>1 DEF Accounted, TypeOK, Behind, Jobs
<1>6. BarrierIsLast'
  BY <1>1 DEF Accounted, TypeOK, BarrierIsLast
<1>7. IndexIsLive'
  <2>1. ASSUME NEW k \in Keys, NEW i \in Jobs, Live(i)', job'[i].key = k
        PROVE  FALSE
    <3>1. i \in queue /\ ~job'[i].cancelled /\ job[i] \in Job
      BY <2>1 DEF Live, Accounted, TypeOK
    <3>2. CASE spare /\ job[i].durable
      BY <3>2, <2>1, <1>1, KeysAssumption DEF Accounted, Placed
    <3>3. CASE ~(spare /\ job[i].durable)
      <4>1. job'[i] = [job[i] EXCEPT !.cancelled = TRUE]
        BY <3>1, <3>3 DEF Cancelled
      <4> QED
        BY <4>1, <3>1 DEF Job
    <3> QED
      BY <3>2, <3>3
  <2>2. \A k \in Keys : index'[k] = 0
    BY DEF Cleared
  <2> QED
    BY <2>1, <2>2 DEF IndexIsLive
<1> QED
  BY <1>3, <1>4, <1>5, <1>6, <1>7 DEF Accounted

\* Drain and Flush: a barrier joins the tail, behind jobs that Drain cancelled.
LEMMA BarrierKeeps ==
  ASSUME Accounted, NEW t \in Callers, NEW jobs \in [Jobs -> Job],
         \A i \in Jobs : /\ jobs[i].place = job[i].place
                         /\ jobs[i].barrier = job[i].barrier
                         /\ jobs[i].key = job[i].key
                         /\ jobs[i].durable = job[i].durable,
         \/ jobs = job /\ index' = index
         \/ index' = Cleared /\ \A i \in queue : jobs[i].cancelled,
         PushBarrier(t, jobs),
         swept' \in 0..MaxJobs
  PROVE  Accounted'
<1> DEFINE n == admitted + 1
<1>1. /\ admitted \in Nat /\ n \in Jobs /\ n > admitted /\ admitted' = n
      /\ n \notin queue /\ n # running /\ n \notin ran
  BY BoundAssumption DEF Accounted, TypeOK, Apart, PushBarrier, Jobs
<1> DEFINE b == [Plain EXCEPT !.place = Back, !.barrier = TRUE]
<1>2. b \in Job /\ b.place = n /\ b.key = NoKey /\ ~b.durable
  <2>1. Back \in Int /\ Back = n
    BY <1>1 DEF Back
  <2>2. b \in Job
    BY <2>1, PlainType DEF Job
  <2>3. b.place = n /\ b.key = NoKey /\ ~b.durable
    BY <2>1 DEF Plain
  <2> QED
    BY <2>2, <2>3
<1>3. /\ job' \in [Jobs -> Job]
      /\ job'[n].place = n /\ job'[n].key = NoKey /\ ~job'[n].durable
      /\ \A i \in Jobs : i # n => job'[i] = jobs[i]
  <2>1. job' = [jobs EXCEPT ![n] = b]
    BY DEF PushBarrier
  <2> HIDE DEF b
  <2> QED
    BY <2>1, <1>1, <1>2
<1> HIDE DEF b
<1>4. queue' = queue \cup {n}
  BY DEF PushBarrier
<1>5. UNCHANGED <<completed, ran, running, worker, stop>>
  BY DEF PushBarrier
<1>6. TypeOK'
  <2>1. index' \in [Keys -> 0..MaxJobs]
    BY BoundAssumption DEF Cleared, Accounted, TypeOK
  <2>2. caller' \in [Callers -> Waits]
    BY <1>1 DEF PushBarrier, Accounted, TypeOK, Waits, Jobs
  <2>3. queue' \in SUBSET Jobs /\ admitted' \in 0..MaxJobs
    BY <1>1, <1>4 DEF Accounted, TypeOK, Jobs
  <2> QED
    BY <1>3, <1>5, <2>1, <2>2, <2>3 DEF Accounted, TypeOK
<1>7. Placed'
  BY <1>1, <1>3, <1>4 DEF Accounted, TypeOK, Placed, Jobs
<1>8. Apart'
  BY <1>1, <1>4, <1>5 DEF Accounted, TypeOK, Apart, Jobs
<1>9. Behind'
  <2> SUFFICES ASSUME running # 0, job'[running].barrier, NEW i \in queue \cup {n}
               PROVE  i > running
    BY <1>4, <1>5 DEF Behind
  <2>1. running \in Jobs /\ running # n /\ running <= admitted
    BY <1>1 DEF Accounted, TypeOK, Apart, Jobs
  <2>2. job[running].barrier
    BY <2>1, <1>3
  <2> QED
    BY <2>1, <2>2, <1>1 DEF Accounted, Behind, Jobs
<1>10. CompletedOnce'
  BY <1>1, <1>4, <1>5 DEF Accounted, TypeOK, Apart, CompletedOnce, Jobs
<1>11. IndexIsLive'
  <2> SUFFICES ASSUME NEW k \in Keys
               PROVE  /\ index'[k] # 0 => Live(index[k])' /\ job'[index'[k]].key = k
                      /\ \A i \in Jobs : Live(i)' /\ job'[i].key = k => index'[k] = i
    BY DEF IndexIsLive
  <2>1. /\ index[k] # 0 => index[k] \in Jobs /\ Live(index[k]) /\ job[index[k]].key = k
        /\ \A i \in Jobs : Live(i) /\ job[i].key = k => index[k] = i
    BY DEF Accounted, IndexIsLive, TypeOK, Jobs, Live
  <2>2. NoKey # k
    BY KeysAssumption
  <2>3. CASE jobs = job /\ index' = index
    <3>1. index[k] # 0 => index[k] # n
      BY <2>1, <1>1 DEF Live
    <3> QED
      BY <2>1, <2>2, <2>3, <3>1, <1>3, <1>4 DEF Live
  <2>4. CASE index' = Cleared /\ \A i \in queue : jobs[i].cancelled
    BY <2>2, <2>4, <1>3, <1>4 DEF Live, Cleared
  <2> QED
    BY <2>3, <2>4
<1>12. BarrierIsLast'
  <2> SUFFICES ASSUME NEW c \in ran, job'[c].barrier, NEW i \in 1..(c - 1)
               PROVE  completed[i] = 1
    BY <1>5 DEF BarrierIsLast
  <2>1. c \in Jobs /\ c # n
    BY <1>1 DEF Accounted, TypeOK
  <2> QED
    BY <2>1, <1>3 DEF Accounted, BarrierIsLast
<1> QED
  BY <1>6, <1>7, <1>8, <1>9, <1>10, <1>11, <1>12 DEF Accounted

\* The whole list is cleared: Drain on a stopped queue, Shutdown of one that
\* never started.
LEMMA ClearKeeps ==
  ASSUME Accounted, completed' = Completes(queue), queue' = {}, index' = Cleared,
         UNCHANGED <<job, admitted, ran, running, worker, stop>>,
         caller' \in [Callers -> Waits], swept' \in 0..MaxJobs
  PROVE  Accounted'
<1>1. completed' \in [Jobs -> Nat]
  BY CompletesType DEF Accounted
<1>2. \A i \in Jobs : completed'[i] = IF i \in queue THEN completed[i] + 1 ELSE completed[i]
  BY DEF Completes
<1>3. TypeOK'
  BY <1>1, BoundAssumption DEF Accounted, TypeOK, Cleared
<1>4. Placed' /\ Apart' /\ Behind'
  BY DEF Accounted, TypeOK, Placed, Apart, Behind
<1>5. CompletedOnce'
  BY <1>2 DEF Accounted, TypeOK, Apart, CompletedOnce, Jobs
<1>6. IndexIsLive'
  BY DEF IndexIsLive, Cleared, Live
<1>7. BarrierIsLast'
  <2> SUFFICES ASSUME NEW b \in ran, job[b].barrier, NEW i \in 1..(b - 1)
               PROVE  completed'[i] = 1
    BY DEF BarrierIsLast
  <2>1. i \in Jobs
    BY BoundAssumption DEF Accounted, TypeOK, Jobs
  <2>2. completed[i] = 1
    BY DEF Accounted, BarrierIsLast
  <2>3. i \notin queue
    BY <2>1, <2>2 DEF Accounted, CompletedOnce
  <2> QED
    BY <2>1, <2>2, <2>3, <1>2
<1> QED
  BY <1>3, <1>4, <1>5, <1>6, <1>7 DEF Accounted

\* The worker takes the front job.
LEMMA PopKeeps ==
  ASSUME Accounted, Pop
  PROVE  Accounted'
<1>1. PICK f \in First(queue) : /\ running' = f
                                /\ queue' = queue \ {f}
                                /\ index' = Unindexed({f})
  BY DEF Pop
<1>2. /\ f \in queue /\ f \in Jobs /\ f \in Nat /\ f # 0
      /\ \A j \in queue : job[f].place <= job[j].place
  BY <1>1 DEF First, Accounted, TypeOK, Jobs
<1>3. UNCHANGED <<job, admitted, completed, ran, worker, stop, caller, swept>>
  BY DEF Pop
<1>4. TypeOK'
  BY <1>1, <1>2, <1>3, UnindexedType DEF Accounted, TypeOK, Jobs
<1>5. Placed'
  BY <1>1, <1>3 DEF Accounted, Placed
<1>6. Apart'
  BY <1>1, <1>2, <1>3 DEF Accounted, Apart, TypeOK
<1>7. Behind'
  <2> SUFFICES ASSUME job[f].barrier, NEW i \in queue, i # f
               PROVE  i > f
    BY <1>1, <1>3 DEF Behind
  <2>1. i \in Jobs /\ i \in Nat /\ i > 0
    BY DEF Accounted, TypeOK, Jobs
  <2>2. job[f].place = f /\ job[i].place \in {i, -i}
    BY <1>2, <2>1 DEF Accounted, Placed
  <2>3. job[f].place <= job[i].place
    BY <1>2
  <2> QED
    BY <2>1, <2>2, <2>3, <1>2
<1>8. CompletedOnce'
  BY <1>1, <1>2, <1>3 DEF Accounted, TypeOK, Apart, CompletedOnce, Pop, Jobs
<1>9. IndexIsLive'
  <2> SUFFICES ASSUME NEW k \in Keys
               PROVE  /\ index'[k] # 0 => Live(index[k])' /\ job'[index'[k]].key = k
                      /\ \A i \in Jobs : Live(i)' /\ job'[i].key = k => index'[k] = i
    BY DEF IndexIsLive
  <2>1. /\ index[k] # 0 => index[k] \in Jobs /\ Live(index[k]) /\ job[index[k]].key = k
        /\ \A i \in Jobs : Live(i) /\ job[i].key = k => index[k] = i
    BY DEF Accounted, IndexIsLive, TypeOK, Jobs, Live
  <2>2. index'[k] = IF index[k] = f THEN 0 ELSE index[k]
    BY <1>1 DEF Unindexed
  <2> QED
    BY <2>1, <2>2, <1>1, <1>3 DEF Live
<1>10. BarrierIsLast'
  BY <1>3 DEF Accounted, BarrierIsLast
<1> QED
  BY <1>4, <1>5, <1>6, <1>7, <1>8, <1>9, <1>10 DEF Accounted

\* The worker calls the task.
LEMMA RunKeeps ==
  ASSUME Accounted, Run
  PROVE  Accounted'
<1>1. /\ ran' = ran \cup {running} /\ running # 0 /\ running \in Jobs
      /\ running \in Nat /\ running <= admitted /\ admitted \in Nat /\ running >= 1
  BY DEF Run, Accounted, TypeOK, Apart, Jobs
<1>2. UNCHANGED <<queue, job, admitted, completed, index, running, worker, stop,
                  caller, swept>>
  BY DEF Run
<1>3. TypeOK' /\ Placed' /\ Behind' /\ CompletedOnce'
  BY <1>1, <1>2 DEF Accounted, TypeOK, Placed, Behind, CompletedOnce
<1>4. Apart'
  BY <1>1, <1>2 DEF Accounted, Apart
<1>5. IndexIsLive'
  BY <1>2 DEF Accounted, IndexIsLive, Live
<1>6. BarrierIsLast'
  <2> SUFFICES ASSUME NEW b \in ran', job[b].barrier, NEW i \in 1..(b - 1)
               PROVE  completed[i] = 1
    BY <1>2 DEF BarrierIsLast
  <2>1. CASE b \in ran
    BY <2>1 DEF Accounted, BarrierIsLast
  <2>2. CASE b = running
    <3>1. i \in Nat /\ i < running /\ i \in Jobs /\ i <= admitted
      BY <2>2, <1>1, BoundAssumption DEF Jobs
    <3>2. i \notin queue
      BY <2>2, <3>1, <1>1 DEF Accounted, Behind
    <3> QED
      BY <3>1, <3>2, <1>1 DEF Accounted, CompletedOnce
  <2> QED
    BY <2>1, <2>2, <1>1
<1> QED
  BY <1>3, <1>4, <1>5, <1>6 DEF Accounted

\* The worker counts the job complete and lets it go.
LEMMA CompleteKeeps ==
  ASSUME Accounted, Complete
  PROVE  Accounted'
<1>1. /\ completed' = Completes({running}) /\ running' = 0 /\ running \in Jobs
      /\ running \in Nat /\ running <= admitted /\ admitted \in Nat
  BY DEF Complete, Accounted, TypeOK, Apart, Jobs
<1>2. UNCHANGED <<queue, job, admitted, ran, index, worker, stop, caller, swept>>
  BY DEF Complete
<1>3. \A i \in Jobs : completed'[i] = IF i = running THEN completed[i] + 1 ELSE completed[i]
  BY <1>1 DEF Completes
<1>4. TypeOK'
  BY <1>1, <1>2, CompletesType, BoundAssumption DEF Accounted, TypeOK
<1>5. Placed' /\ Behind'
  BY <1>1, <1>2 DEF Accounted, Placed, Behind
<1>6. Apart'
  BY <1>1, <1>2 DEF Accounted, Apart
<1>7. CompletedOnce'
  <2> SUFFICES ASSUME NEW i \in Jobs
               PROVE  completed'[i] = IF i <= admitted /\ i \notin queue THEN 1 ELSE 0
    BY <1>1, <1>2 DEF CompletedOnce, Jobs
  <2>1. completed[i] = IF i <= admitted /\ i \notin queue /\ i # running THEN 1 ELSE 0
    BY DEF Accounted, CompletedOnce
  <2>2. running \notin queue
    BY DEF Accounted, Apart
  <2> QED
    BY <2>1, <2>2, <1>1, <1>3
<1>8. IndexIsLive'
  BY <1>2 DEF Accounted, IndexIsLive, Live
<1>9. BarrierIsLast'
  <2> SUFFICES ASSUME NEW b \in ran, job[b].barrier, NEW i \in 1..(b - 1)
               PROVE  completed'[i] = 1
    BY <1>2 DEF BarrierIsLast
  <2>1. i \in Jobs
    BY BoundAssumption DEF Accounted, TypeOK, Jobs
  <2>2. completed[i] = 1
    BY DEF Accounted, BarrierIsLast
  <2>3. i # running
    BY <2>1, <2>2 DEF Accounted, CompletedOnce
  <2> QED
    BY <2>1, <2>2, <2>3, <1>3
<1> QED
  BY <1>4, <1>5, <1>6, <1>7, <1>8, <1>9 DEF Accounted

\* Steps that only move a caller or end the worker.
LEMMA OutsideKeeps ==
  ASSUME Accounted,
         UNCHANGED <<queue, job, admitted, completed, ran, index, running>>,
         worker' \in {"none", "alive", "exited"}, stop' \in BOOLEAN,
         caller' \in [Callers -> Waits], swept' \in 0..MaxJobs
  PROVE  Accounted'
  BY DEF Accounted, TypeOK, Placed, Apart, Behind, CompletedOnce, IndexIsLive,
         Live, BarrierIsLast

-----------------------------------------------------------------------------
(* The invariant.                                                            *)

LEMMA InitAccounted == Init => Accounted
<1> SUFFICES ASSUME Init PROVE Accounted
  OBVIOUS
<1>1. \A i \in Jobs : job[i] = Plain /\ ~Plain.barrier /\ ~Plain.durable
  BY DEF Init, Plain
<1>2. TypeOK
  <2>1. Idle \in Waits /\ 0 \in 0..MaxJobs
    BY BoundAssumption DEF Idle, Waits
  <2>2. job \in [Jobs -> Job] /\ completed \in [Jobs -> Nat]
    BY PlainType DEF Init
  <2> QED
    BY <2>1, <2>2 DEF Init, TypeOK
<1>3. Placed /\ Apart /\ Behind /\ IndexIsLive /\ BarrierIsLast
  BY <1>1 DEF Init, Placed, Apart, Behind, IndexIsLive, Live, BarrierIsLast
<1>4. CompletedOnce
  BY DEF Init, CompletedOnce, Jobs
<1> QED
  BY <1>2, <1>3, <1>4 DEF Accounted

\* What the budget sheds is queued.
LEMMA ShedQueued == \A Q : Shed(Q) \in SUBSET Q
  BY DEF Shed, First, Sheddable

LEMMA NextAccounted == Accounted /\ [Next]_vars => Accounted'
<1> SUFFICES ASSUME Accounted, [Next]_vars PROVE Accounted'
  OBVIOUS
<1> USE DEF Accounted
<1>1. TypeOK
  OBVIOUS
<1>2. /\ admitted \in Nat
      /\ Back \in Int /\ Front \in Int
  BY DEF TypeOK, Back, Front
<1>3. /\ stop \in BOOLEAN /\ swept \in 0..MaxJobs /\ admitted \in 0..MaxJobs
      /\ caller \in [Callers -> Waits] /\ Idle \in Waits
      /\ worker \in {"none", "alive", "exited"}
      /\ [on |-> "join", job |-> 0] \in Waits
  BY <1>1, BoundAssumption DEF TypeOK, Waits, Idle
<1> HIDE DEF Accounted
<1>4. ASSUME NEW d \in BOOLEAN, Post(d) PROVE Accounted'
  <2> DEFINE r == [Plain EXCEPT !.place = Back, !.droppable = d]
  <2>1. /\ r \in Job /\ r.place = Back /\ ~r.barrier /\ ~r.cancelled
        /\ ~r.durable /\ r.key = NoKey
    BY <1>2, PlainType DEF Plain, Job
  <2>2. Shed(queue) \in SUBSET queue
    BY ShedQueued
  <2>3. /\ Admit(Shed(queue), r) /\ index' = Unindexed(Shed(queue))
        /\ UNCHANGED <<ran, running, stop, caller, swept>>
    BY <1>4 DEF Post
  <2> HIDE DEF r
  <2> QED
    BY <2>1, <2>2, <2>3, PostKeeps
<1>5. ASSUME PostDurable PROVE Accounted'
  <2> DEFINE r == [Plain EXCEPT !.place = Back, !.durable = TRUE]
  <2>1. /\ r \in Job /\ r.place = Back /\ ~r.barrier /\ ~r.cancelled
        /\ r.key = NoKey
    BY <1>2, PlainType DEF Plain, Job
  <2>2. /\ Admit({}, r) /\ index' = index
        /\ UNCHANGED <<ran, running, stop, caller, swept>>
    BY <1>5 DEF PostDurable
  <2>3. Unindexed({}) = index
    BY <1>1 DEF Unindexed, TypeOK
  <2>4. {} \in SUBSET queue
    OBVIOUS
  <2> HIDE DEF r
  <2> QED
    BY <2>1, <2>2, <2>3, <2>4, PostKeeps
<1>6. ASSUME PostFront PROVE Accounted'
  <2> DEFINE r == [Plain EXCEPT !.place = Front]
  <2>1. /\ r \in Job /\ r.place = Front /\ ~r.barrier /\ ~r.cancelled
        /\ ~r.durable /\ r.key = NoKey
    BY <1>2, PlainType DEF Plain, Job
  <2>2. Shed(queue) \in SUBSET queue
    BY ShedQueued
  <2>3. /\ Admit(Shed(queue), r) /\ index' = Unindexed(Shed(queue))
        /\ UNCHANGED <<ran, running, stop, caller, swept>>
    BY <1>6 DEF PostFront
  <2> HIDE DEF r
  <2> QED
    BY <2>1, <2>2, <2>3, PostKeeps
<1>7. ASSUME NEW k \in Keys, NEW d \in BOOLEAN, PostLatest(k, d) PROVE Accounted'
  <2> DEFINE r == [Plain EXCEPT !.place = Back, !.key = k, !.droppable = d]
             old == queue \cap {index[k]}
             gone == old \cup Shed(queue \ old)
  <2>1. /\ r \in Job /\ r.place = Back /\ ~r.barrier /\ ~r.cancelled
        /\ ~r.durable /\ r.key = k
    BY <1>2, PlainType DEF Plain, Job
  <2>2. gone \in SUBSET queue
    BY ShedQueued
  <2>3. index[k] \in gone \cup {0}
    BY DEF Accounted, IndexIsLive, Live
  <2>4. /\ Admit(gone, r)
        /\ index' = [Unindexed(gone) EXCEPT ![k] = admitted + 1]
        /\ UNCHANGED <<ran, running, stop, caller, swept>>
    BY <1>7 DEF PostLatest
  <2> HIDE DEF r, gone
  <2> QED
    BY <2>1, <2>2, <2>3, <2>4, PostKeeps
<1>8. ASSUME Cancel PROVE Accounted'
  BY <1>3, <1>8, CancelKeeps DEF Cancel
<1>9. ASSUME NEW t \in Callers, Shutdown(t) PROVE Accounted'
  <2>1. caller' \in [Callers -> Waits]
    BY <1>3, <1>9 DEF Shutdown
  <2> QED
    BY <2>1, <1>3, <1>9, CancelKeeps DEF Shutdown
<1>10. ASSUME NEW t \in Callers, Flush(t) PROVE Accounted'
  <2>1. job \in [Jobs -> Job]
    BY <1>1 DEF TypeOK
  <2> QED
    BY <2>1, <1>3, <1>10, BarrierKeeps DEF Flush
<1>11. ASSUME NEW t \in Drainers, Drain(t) PROVE Accounted'
  <2>1. t \in Callers
    BY CallersAssumption
  <2>2. /\ Cancelled(FALSE) \in [Jobs -> Job]
        /\ \A i \in Jobs : /\ Cancelled(FALSE)[i].place = job[i].place
                           /\ Cancelled(FALSE)[i].barrier = job[i].barrier
                           /\ Cancelled(FALSE)[i].key = job[i].key
                           /\ Cancelled(FALSE)[i].durable = job[i].durable
    BY <1>1, CancelledType
  <2>3. \A i \in queue : Cancelled(FALSE)[i].cancelled
    <3>1. \A i \in queue : i \in Jobs /\ job[i] \in Job
      BY <1>1 DEF TypeOK
    <3> QED
      BY <3>1 DEF Cancelled, Job
  <2> QED
    BY <2>1, <2>2, <2>3, <1>3, <1>11, BarrierKeeps DEF Drain
<1>12. ASSUME NEW t \in Drainers, DrainStopped(t) PROVE Accounted'
  BY <1>3, <1>12, ClearKeeps DEF DrainStopped
<1>13. ASSUME NEW t \in Callers, Returns(t) PROVE Accounted'
  <2>1. CASE Released(t) \/ Joined(t)
    <3>1. caller' \in [Callers -> Waits]
      BY <1>3, <2>1 DEF Released, Joined
    <3> QED
      BY <3>1, <2>1, <1>3, OutsideKeeps DEF Released, Joined
  <2>2. CASE NothingToJoin(t)
    <3>1. caller' \in [Callers -> Waits]
      BY <1>3, <2>2 DEF NothingToJoin
    <3> QED
      BY <3>1, <2>2, <1>3, ClearKeeps DEF NothingToJoin
  <2> QED
    BY <1>13, <2>1, <2>2 DEF Returns
<1>14. ASSUME Exit PROVE Accounted'
  BY <1>3, <1>14, OutsideKeeps DEF Exit
<1>15. ASSUME UNCHANGED vars PROVE Accounted'
  BY <1>3, <1>15, OutsideKeeps DEF vars
<1> QED
  BY <1>4, <1>5, <1>6, <1>7, <1>8, <1>9, <1>10, <1>11, <1>12, <1>13, <1>14,
     <1>15, PopKeeps, RunKeeps, CompleteKeeps DEF Next, Posts, Worker

LEMMA AlwaysAccounted == Spec => []Accounted
  BY InitAccounted, NextAccounted, PTL DEF Spec

-----------------------------------------------------------------------------
(* What a job that did not run has for an excuse.  The second invariant,      *)
(* Excused, is inductive in the states of the first.                          *)

\* What a job is stays as it was posted: a barrier and a durable job are not
\* droppable and have no key.
Flags ==
    \A i \in Jobs :
        /\ job[i].barrier => ~job[i].durable
        /\ job[i].barrier \/ job[i].durable => ~job[i].droppable /\ job[i].key = NoKey

\* The sweeps of Drain and Shutdown: they leave nothing live behind, nothing is
\* admitted after the last of them, and only they cancel a durable job.
Swept ==
    /\ swept <= admitted
    /\ stop => swept = admitted
    /\ stop => \A i \in queue : job[i].cancelled
    /\ worker = "none" => queue = {}
    /\ \A i \in Jobs : job[i].durable /\ job[i].cancelled => i <= swept

\* Job i may be over without having run.
Excuse(i) ==
    /\ job[i].barrier => stop
    /\ \/ job[i].cancelled
       \/ job[i].droppable
       \/ \E j \in Jobs : j > i /\ j <= admitted /\ job[j].key = job[i].key
                          /\ job[i].key # NoKey
    /\ job[i].durable => i <= swept

\* NothingLost and DurableKept in one.
AllExcused == \A i \in Jobs : completed[i] > 0 /\ i \notin ran => Excuse(i)

Excused == Flags /\ Swept /\ AllExcused

\* An excuse is never taken back: jobs keep what they were posted as, and
\* cancels, sweeps and stops only grow.
LEMMA ExcuseKeeps ==
  ASSUME Accounted, AllExcused, NEW new \in SUBSET Jobs,
         \A i \in Jobs : i <= admitted =>
             /\ job'[i].key = job[i].key
             /\ job'[i].barrier = job[i].barrier
             /\ job'[i].durable = job[i].durable
             /\ job'[i].droppable = job[i].droppable
             /\ job[i].cancelled => job'[i].cancelled,
         ran \subseteq ran', stop => stop',
         admitted' \in Nat, admitted <= admitted', swept' \in Nat, swept <= swept',
         \A i \in Jobs \ new : completed'[i] = completed[i],
         \A i \in new : i \in ran' \/ Excuse(i)'
  PROVE  AllExcused'
<1> SUFFICES ASSUME NEW i \in Jobs, completed'[i] > 0, i \notin ran', i \notin new
             PROVE  Excuse(i)'
  BY DEF AllExcused
<1>1. completed[i] > 0 /\ i \notin ran /\ Excuse(i)
  BY DEF AllExcused
<1>2. /\ i <= admitted /\ i \in Nat /\ admitted \in Nat /\ swept \in Nat
      /\ \A j \in Jobs : j \in Nat
  BY <1>1 DEF Accounted, TypeOK, CompletedOnce, Jobs
<1>3. /\ job'[i].key = job[i].key /\ job'[i].barrier = job[i].barrier
      /\ job'[i].durable = job[i].durable /\ job'[i].droppable = job[i].droppable
      /\ job[i].cancelled => job'[i].cancelled
  BY <1>2
<1>4. ASSUME NEW j \in Jobs, j > i, j <= admitted, job[j].key = job[i].key,
             job[i].key # NoKey
      PROVE  j <= admitted' /\ job'[j].key = job'[i].key /\ job'[i].key # NoKey
  <2>1. j \in Nat /\ j <= admitted'
    BY <1>2, <1>4
  <2>2. job'[j].key = job[j].key
    BY <1>4
  <2> QED
    BY <2>1, <2>2, <1>3, <1>4
<1>5. job'[i].durable => i <= swept'
  BY <1>1, <1>2, <1>3 DEF Excuse
<1>6. job'[i].barrier => stop'
  BY <1>1, <1>3 DEF Excuse
<1> QED
  BY <1>1, <1>3, <1>4, <1>5, <1>6 DEF Excuse

\* The four posts: what goes was droppable or had the key of what comes.
LEMMA PostExcused ==
  ASSUME Accounted, Excused,
         NEW gone \in SUBSET queue,
         NEW r \in Job, ~r.barrier, ~r.cancelled,
         r.durable => r.key = NoKey /\ ~r.droppable,
         Admit(gone, r),
         \A i \in gone : job[i].droppable \/ (job[i].key = r.key /\ r.key # NoKey),
         UNCHANGED <<ran, running, stop, caller, swept>>
  PROVE  Excused'
<1> DEFINE n == admitted + 1
<1>1. /\ admitted \in Nat /\ swept \in Nat /\ n \in Jobs /\ n \in Nat /\ n > admitted
      /\ admitted' = n /\ ~stop /\ \A i \in Jobs : i \in Nat
      /\ \A i \in queue : i \in Jobs /\ i <= admitted
  BY BoundAssumption DEF Accounted, TypeOK, Apart, Admit, Jobs
<1>2. /\ job'[n] = r
      /\ \A i \in Jobs : i # n => job'[i] = job[i]
  BY <1>1 DEF Accounted, TypeOK, Admit
<1>3. \A i \in Jobs : i <= admitted => i # n
  BY <1>1
<1> HIDE DEF n
<1>4. Flags'
  BY <1>2 DEF Excused, Flags
<1>5. Swept'
  <2>1. worker' # "none"
    BY <1>1 DEF Admit, Started
  <2>2. ASSUME NEW i \in Jobs, job'[i].durable, job'[i].cancelled PROVE i <= swept
    BY <2>2, <1>2 DEF Excused, Swept
  <2> QED
    BY <2>1, <2>2, <1>1 DEF Excused, Swept
<1>6. AllExcused'
  <2>1. \A i \in Jobs \ gone : completed'[i] = completed[i]
    BY DEF Admit, Completes
  <2>2. ASSUME NEW i \in gone PROVE Excuse(i)'
    <3>0. i \in Jobs /\ i \in Nat /\ i <= admitted
      BY <1>1
    <3>1. i \in Jobs /\ i # n /\ job'[i] = job[i] /\ n > i
      BY <3>0, <1>1, <1>2, <1>3
    <3>2. ~job[i].barrier /\ ~job[i].durable
      BY <3>1 DEF Excused, Flags
    <3>3. job[i].droppable \/ (job'[n].key = job'[i].key /\ job'[i].key # NoKey)
      BY <1>2, <3>1
    <3> QED
      BY <1>1, <3>1, <3>2, <3>3 DEF Excuse
  <2>3. gone \in SUBSET Jobs /\ ran \subseteq ran'
    BY <1>1
  <2> QED
    BY <2>1, <2>2, <2>3, <1>1, <1>2, <1>3, ExcuseKeeps DEF Excused
<1> QED
  BY <1>4, <1>5, <1>6 DEF Excused

\* Cancelling never takes a cancel back; only a sweep cancels a durable job.
LEMMA CancelledGrows ==
  ASSUME TypeOK, NEW spare \in BOOLEAN
  PROVE  \A i \in Jobs :
            /\ Cancelled(spare)[i].droppable = job[i].droppable
            /\ job[i].cancelled => Cancelled(spare)[i].cancelled
            /\ spare /\ job[i].durable => Cancelled(spare)[i] = job[i]
            /\ i \notin queue => Cancelled(spare)[i] = job[i]
            /\ ~spare /\ i \in queue => Cancelled(spare)[i].cancelled
<1>1. \A i \in Jobs : /\ [job[i] EXCEPT !.cancelled = TRUE].droppable = job[i].droppable
                      /\ [job[i] EXCEPT !.cancelled = TRUE].cancelled
  BY DEF TypeOK, Job
<1> QED
  BY <1>1 DEF Cancelled

\* Cancel, which spares durable jobs, and Shutdown, which sweeps.
LEMMA CancelExcused ==
  ASSUME Accounted, Excused, NEW spare \in BOOLEAN, job' = Cancelled(spare),
         UNCHANGED <<queue, admitted, completed, ran, worker>>,
         \/ spare /\ UNCHANGED <<stop, swept>>
         \/ ~spare /\ stop' /\ swept' = admitted
  PROVE  Excused'
<1>1. /\ TypeOK /\ admitted \in Nat /\ swept \in Nat /\ swept <= admitted
      /\ \A i \in Jobs : i \in Nat
      /\ \A i \in queue : i \in Jobs /\ i <= admitted
  BY DEF Accounted, TypeOK, Apart, Jobs, Excused, Swept
<1>2. \A i \in Jobs : /\ job'[i].barrier = job[i].barrier
                      /\ job'[i].key = job[i].key
                      /\ job'[i].durable = job[i].durable
                      /\ job'[i].droppable = job[i].droppable
                      /\ job[i].cancelled => job'[i].cancelled
  BY <1>1, CancelledType, CancelledGrows
<1>3. Flags'
  BY <1>2 DEF Excused, Flags
<1>4. Swept'
  <2>1. \A i \in Jobs : i \notin queue => job'[i] = job[i]
    BY <1>1, CancelledGrows
  <2>2. CASE spare
    <3>1. \A i \in Jobs : job[i].durable => job'[i] = job[i]
      BY <2>2, <1>1, CancelledGrows
    <3>2. \A i \in queue : job[i].cancelled => job'[i].cancelled
      BY <1>1, <1>2
    <3>3. ASSUME NEW i \in Jobs, job'[i].durable, job'[i].cancelled PROVE i <= swept
      <4>1. job[i].durable /\ job'[i] = job[i]
        BY <3>1, <3>3, <1>2
      <4> QED
        BY <4>1, <3>3 DEF Excused, Swept
    <3>4. UNCHANGED <<queue, admitted, worker, stop, swept>>
      BY <2>2
    <3>5. Swept
      BY DEF Excused
    <3> QED
      BY <3>2, <3>3, <3>4, <3>5 DEF Swept
  <2>3. CASE ~spare
    <3>1. \A i \in queue : job'[i].cancelled
      BY <2>3, <1>1, CancelledGrows
    <3>2. ASSUME NEW i \in Jobs, job'[i].durable, job'[i].cancelled PROVE i <= admitted
      <4>1. CASE i \in queue
        BY <4>1, <1>1
      <4>2. CASE i \notin queue
        <5>1. i <= swept
          BY <4>2, <3>2, <2>1 DEF Excused, Swept
        <5> QED
          BY <5>1, <1>1
      <4> QED
        BY <4>1, <4>2
    <3> QED
      BY <3>1, <3>2, <2>3, <1>1 DEF Excused, Swept
  <2> QED
    BY <2>2, <2>3
<1>5. AllExcused'
  <2>1. {} \in SUBSET Jobs /\ ran \subseteq ran' /\ (stop => stop') /\ swept' \in Nat
        /\ swept <= swept' /\ admitted' \in Nat /\ admitted <= admitted'
    BY <1>1
  <2> QED
    BY <2>1, <1>2, ExcuseKeeps DEF Excused
<1> QED
  BY <1>3, <1>4, <1>5 DEF Excused

\* Flush, and Drain, which sweeps first.
LEMMA BarrierExcused ==
  ASSUME Accounted, Excused, NEW t \in Callers, NEW jobs \in [Jobs -> Job],
         ~stop, worker # "none", PushBarrier(t, jobs),
         \/ jobs = job /\ UNCHANGED swept
         \/ jobs = Cancelled(FALSE) /\ swept' = admitted
  PROVE  Excused'
<1> DEFINE n == admitted + 1
           b == [Plain EXCEPT !.place = Back, !.barrier = TRUE]
<1>1. /\ TypeOK /\ admitted \in Nat /\ swept \in Nat /\ swept <= admitted
      /\ n \in Jobs /\ n > admitted /\ n \in Nat /\ admitted' = n
      /\ \A i \in Jobs : i \in Nat /\ (i <= admitted => i # n)
      /\ \A i \in queue : i \in Jobs /\ i <= admitted
  BY BoundAssumption DEF Accounted, TypeOK, Apart, Jobs, Excused, Swept, PushBarrier
<1>2. b.key = NoKey /\ ~b.durable /\ ~b.droppable /\ ~b.cancelled
  BY DEF Plain
<1>3. job'[n] = b /\ \A i \in Jobs : i # n => job'[i] = jobs[i]
  <2> HIDE DEF b
  <2>1. job' = [jobs EXCEPT ![n] = b]
    BY DEF PushBarrier, b
  <2> QED
    BY <2>1, <1>1
<1> HIDE DEF b, n
<1>4. \A i \in Jobs : /\ jobs[i].barrier = job[i].barrier
                      /\ jobs[i].key = job[i].key
                      /\ jobs[i].durable = job[i].durable
                      /\ jobs[i].droppable = job[i].droppable
                      /\ job[i].cancelled => jobs[i].cancelled
                      /\ i \notin queue => jobs[i] = job[i]
  BY <1>1, CancelledType, CancelledGrows
<1>5. UNCHANGED <<completed, ran, worker, stop>>
  BY DEF PushBarrier
<1>6. Flags'
  BY <1>2, <1>3, <1>4 DEF Excused, Flags
<1>9. swept' \in Nat /\ swept <= swept' /\ swept' <= n /\ admitted <= n
  <2>1. swept' = swept \/ swept' = admitted
    OBVIOUS
  <2> QED
    BY <2>1, <1>1
<1>7. Swept'
  <2>1. swept' \in Nat /\ swept <= swept' /\ swept' <= n
    BY <1>9
  <2>2. ASSUME NEW i \in Jobs, job'[i].durable, job'[i].cancelled PROVE i <= swept'
    <3>1. i # n /\ job[i].durable /\ jobs[i].cancelled
      BY <2>2, <1>2, <1>3, <1>4
    <3>2. CASE job[i].cancelled
      <4>1. i <= swept
        BY <3>1, <3>2 DEF Excused, Swept
      <4> QED
        BY <4>1, <2>1, <1>1
    <3>3. CASE ~job[i].cancelled
      BY <3>1, <3>3, <1>1, <1>4
    <3> QED
      BY <3>2, <3>3
  <2> QED
    BY <2>1, <2>2, <1>1, <1>5 DEF Swept
<1>8. AllExcused'
  <2>1. {} \in SUBSET Jobs /\ ran \subseteq ran' /\ swept' \in Nat
        /\ swept <= swept' /\ admitted' \in Nat /\ admitted <= admitted'
    BY <1>1, <1>5, <1>9
  <2>2. \A i \in Jobs : i <= admitted =>
            /\ job'[i].key = job[i].key
            /\ job'[i].barrier = job[i].barrier
            /\ job'[i].durable = job[i].durable
            /\ job'[i].droppable = job[i].droppable
            /\ job[i].cancelled => job'[i].cancelled
    BY <1>1, <1>3, <1>4
  <2> QED
    BY <2>1, <2>2, <1>5, ExcuseKeeps DEF Excused
<1> QED
  BY <1>6, <1>7, <1>8 DEF Excused

\* A stopped list is cleared: what was on it was cancelled by the Shutdown.
LEMMA ClearExcused ==
  ASSUME Accounted, Excused, stop \/ worker = "none",
         completed' = Completes(queue), queue' = {},
         UNCHANGED <<job, admitted, ran, worker, stop>>,
         swept' \in {swept, admitted}
  PROVE  Excused'
<1>1. /\ admitted \in Nat /\ swept \in Nat /\ swept <= admitted
      /\ \A i \in Jobs : i \in Nat
      /\ queue \in SUBSET Jobs /\ \A i \in queue : i <= admitted
  BY DEF Accounted, TypeOK, Apart, Jobs, Excused, Swept
<1>2. swept' \in Nat /\ swept <= swept' /\ swept' <= admitted /\ (stop => swept' = admitted)
  BY <1>1 DEF Excused, Swept
<1>3. Flags'
  BY DEF Excused, Flags
<1>4. Swept'
  BY <1>1, <1>2 DEF Excused, Swept
<1>5. AllExcused'
  <2>1. \A i \in Jobs \ queue : completed'[i] = completed[i]
    BY DEF Completes
  <2>2. ASSUME NEW i \in queue PROVE Excuse(i)'
    <3>1. stop /\ job[i].cancelled
      BY DEF Excused, Swept
    <3> QED
      BY <3>1, <1>1, <1>2 DEF Excuse
  <2>3. ran \subseteq ran'
    OBVIOUS
  <2> QED
    BY <2>1, <2>2, <2>3, <1>1, <1>2, ExcuseKeeps DEF Excused
<1> QED
  BY <1>3, <1>4, <1>5 DEF Excused

\* The worker: a job it completes ran, or was cancelled and no barrier.
LEMMA WorkerExcused ==
  ASSUME Accounted, Excused, Worker
  PROVE  Excused'
<1>1. /\ UNCHANGED <<job, admitted, stop, swept>> /\ queue' \subseteq queue
      /\ ran \subseteq ran' /\ (worker' = "none" => worker = "none")
  BY DEF Worker, Pop, Run, Complete, Exit
<1>2. /\ admitted \in Nat /\ swept \in Nat /\ running \in 0..MaxJobs
  BY DEF Accounted, TypeOK
<1>3. Flags' /\ Swept'
  BY <1>1 DEF Excused, Flags, Swept
<1>5. /\ admitted' \in Nat /\ admitted <= admitted' /\ swept' \in Nat /\ swept <= swept'
      /\ stop => stop'
      /\ \A i \in Jobs : i <= admitted =>
            /\ job'[i].key = job[i].key
            /\ job'[i].barrier = job[i].barrier
            /\ job'[i].durable = job[i].durable
            /\ job'[i].droppable = job[i].droppable
            /\ job[i].cancelled => job'[i].cancelled
  BY <1>1, <1>2
<1>4. AllExcused'
  <2>1. CASE Complete
    <3>0. PICK c \in Jobs : c = running
      BY <2>1, <1>2 DEF Complete, Jobs
    <3>1. {c} \in SUBSET Jobs
      OBVIOUS
    <3>2. \A i \in Jobs \ {c} : completed'[i] = completed[i]
      BY <2>1, <3>0 DEF Complete, Completes
    <3>3. c \in ran' \/ Excuse(c)'
      <4>1. SUFFICES ASSUME c \notin ran PROVE Excuse(c)'
        BY <1>1
      <4>2. job[c].cancelled /\ ~job[c].barrier
        BY <2>1, <4>1, <3>0 DEF Complete, Runs, Accounted, TypeOK, Job
      <4>3. job[c].durable => c <= swept
        BY <4>2 DEF Excused, Swept
      <4> QED
        BY <4>2, <4>3, <1>1 DEF Excuse
    <3> QED
      BY <3>1, <3>2, <3>3, <1>1, <1>5, ExcuseKeeps DEF Excused
  <2>2. CASE Pop \/ Run \/ Exit
    <3>1. {} \in SUBSET Jobs /\ UNCHANGED completed
      BY <2>2 DEF Pop, Run, Exit
    <3> QED
      BY <3>1, <1>1, <1>5, ExcuseKeeps DEF Excused
  <2> QED
    BY <2>1, <2>2 DEF Worker
<1> QED
  BY <1>3, <1>4 DEF Excused

LEMMA InitExcused == Init => Excused
<1> SUFFICES ASSUME Init PROVE Excused
  OBVIOUS
<1>1. \A i \in Jobs : job[i] = Plain /\ ~Plain.barrier /\ ~Plain.durable
  BY DEF Init, Plain
<1> QED
  BY <1>1 DEF Init, Excused, Flags, Swept, AllExcused

LEMMA NextExcused == Accounted /\ Excused /\ [Next]_vars => Excused'
<1> SUFFICES ASSUME Accounted, Excused, [Next]_vars PROVE Excused'
  OBVIOUS
<1>1. /\ TypeOK /\ Back \in Int /\ Front \in Int
  BY DEF Accounted, TypeOK, Back, Front
<1>2. \A Q : \A i \in Shed(Q) : i \in Q /\ job[i].droppable
  BY DEF Shed, First, Sheddable
<1>3. ASSUME NEW d \in BOOLEAN, Post(d) PROVE Excused'
  <2> DEFINE r == [Plain EXCEPT !.place = Back, !.droppable = d]
  <2>1. /\ r \in Job /\ ~r.barrier /\ ~r.cancelled /\ ~r.durable
    BY <1>1, PlainType DEF Plain, Job
  <2>2. /\ Admit(Shed(queue), r) /\ UNCHANGED <<ran, running, stop, caller, swept>>
    BY <1>3 DEF Post
  <2> HIDE DEF r
  <2> QED
    BY <2>1, <2>2, <1>2, ShedQueued, PostExcused
<1>4. ASSUME PostDurable PROVE Excused'
  <2> DEFINE r == [Plain EXCEPT !.place = Back, !.durable = TRUE]
  <2>1. /\ r \in Job /\ ~r.barrier /\ ~r.cancelled /\ ~r.droppable /\ r.key = NoKey
    BY <1>1, PlainType DEF Plain, Job
  <2>2. /\ Admit({}, r) /\ UNCHANGED <<ran, running, stop, caller, swept>>
    BY <1>4 DEF PostDurable
  <2>3. {} \in SUBSET queue
    OBVIOUS
  <2> HIDE DEF r
  <2> QED
    BY <2>1, <2>2, <2>3, PostExcused
<1>5. ASSUME PostFront PROVE Excused'
  <2> DEFINE r == [Plain EXCEPT !.place = Front]
  <2>1. /\ r \in Job /\ ~r.barrier /\ ~r.cancelled /\ ~r.durable
    BY <1>1, PlainType DEF Plain, Job
  <2>2. /\ Admit(Shed(queue), r) /\ UNCHANGED <<ran, running, stop, caller, swept>>
    BY <1>5 DEF PostFront
  <2> HIDE DEF r
  <2> QED
    BY <2>1, <2>2, <1>2, ShedQueued, PostExcused
<1>6. ASSUME NEW k \in Keys, NEW d \in BOOLEAN, PostLatest(k, d) PROVE Excused'
  <2> DEFINE r == [Plain EXCEPT !.place = Back, !.key = k, !.droppable = d]
             old == queue \cap {index[k]}
             gone == old \cup Shed(queue \ old)
  <2>1. /\ r \in Job /\ ~r.barrier /\ ~r.cancelled /\ ~r.durable /\ r.key = k
        /\ k # NoKey
    BY <1>1, PlainType, KeysAssumption DEF Plain, Job
  <2>2. gone \in SUBSET queue
    BY ShedQueued
  <2>3. \A i \in old : job[i].key = k
    <3>1. \A i \in old : i = index[k] /\ i \in Jobs /\ i # 0
      BY <1>1 DEF TypeOK, Jobs
    <3> QED
      BY <3>1 DEF Accounted, IndexIsLive
  <2>4. /\ Admit(gone, r) /\ UNCHANGED <<ran, running, stop, caller, swept>>
    BY <1>6 DEF PostLatest
  <2>5. \A i \in gone : job[i].droppable \/ (job[i].key = r.key /\ r.key # NoKey)
    <3> HIDE DEF r
    <3> QED
      BY <2>1, <2>3, <1>2
  <2> HIDE DEF r, gone
  <2> QED
    BY <2>1, <2>2, <2>4, <2>5, PostExcused
<1>7. ASSUME Cancel PROVE Excused'
  BY <1>7, CancelExcused DEF Cancel
<1>8. ASSUME NEW t \in Callers, Shutdown(t) PROVE Excused'
  BY <1>8, CancelExcused DEF Shutdown
<1>9. ASSUME NEW t \in Callers, Flush(t) PROVE Excused'
  <2>1. job \in [Jobs -> Job]
    BY <1>1 DEF TypeOK
  <2> QED
    BY <1>9, <2>1, BarrierExcused DEF Flush
<1>10. ASSUME NEW t \in Drainers, Drain(t) PROVE Excused'
  <2>1. t \in Callers /\ Cancelled(FALSE) \in [Jobs -> Job]
    BY <1>1, CancelledType, CallersAssumption
  <2> QED
    BY <1>10, <2>1, BarrierExcused DEF Drain
<1>11. ASSUME NEW t \in Drainers, DrainStopped(t) PROVE Excused'
  BY <1>11, ClearExcused DEF DrainStopped
<1>12. ASSUME NEW t \in Callers, NothingToJoin(t) PROVE Excused'
  BY <1>12, ClearExcused DEF NothingToJoin
<1>13. ASSUME UNCHANGED <<queue, job, admitted, completed, ran, worker, stop, swept>>
       PROVE  Excused'
  BY <1>13 DEF Excused, Flags, Swept, AllExcused, Excuse
<1>14. ASSUME NEW t \in Callers, Released(t) \/ Joined(t) PROVE Excused'
  BY <1>13, <1>14 DEF Released, Joined
<1>15. CASE UNCHANGED vars
  BY <1>13, <1>15 DEF vars
<1> QED
  BY <1>3, <1>4, <1>5, <1>6, <1>7, <1>8, <1>9, <1>10, <1>11, <1>12, <1>14,
     <1>15, WorkerExcused DEF Next, Posts, Returns

LEMMA AlwaysExcused == Spec => []Excused
  BY InitExcused, NextExcused, AlwaysAccounted, PTL DEF Spec

-----------------------------------------------------------------------------
(* The theorems.                                                             *)

\* Every variable of the queue keeps its type.
THEOREM QueueTypeCorrect == Spec => []TypeOK
<1>1. Accounted => TypeOK
  BY DEF Accounted
<1> QED
  BY <1>1, AlwaysAccounted, PTL

\* on_complete fires exactly once per admitted job, whatever ends it, however
\* many threads post, cancel, drain, flush and shut down.
THEOREM HooksBalance == Spec => []CompletedOnce
<1>1. Accounted => CompletedOnce
  BY DEF Accounted
<1> QED
  BY <1>1, AlwaysAccounted, PTL

\* keyed_index_ never names an erased node and never misses a live one.
THEOREM IndexSound == Spec => []IndexIsLive
<1>1. Accounted => IndexIsLive
  BY DEF Accounted
<1> QED
  BY <1>1, AlwaysAccounted, PTL

\* SerialWorkQueue loses no work: with any number of threads posting under any
\* budget, a job that ended without running was cancelled, droppable or
\* superseded, and a barrier among them was in a queue being stopped.
THEOREM NoJobLost == Spec => []NothingLost
<1>1. Excused => NothingLost
  BY DEF Excused, AllExcused, Excuse, NothingLost, CalledOff
<1> QED
  BY <1>1, AlwaysExcused, PTL

\* What the return of Flush and Drain means, whatever threads do meanwhile: each
\* job admitted before the barrier is over, and it ran or was called off by a
\* Cancel, a shed or a later job of its key.
THEOREM FlushOrders == Spec => []FlushRuns
<1>1. Accounted /\ Excused => FlushRuns
  <2> SUFFICES ASSUME Accounted, Excused,
                      NEW b \in ran, job[b].barrier, NEW i \in 1..(b - 1)
               PROVE  completed[i] = 1 /\ (i \in ran \/ CalledOff(i))
    BY DEF FlushRuns
  <2>1. i \in Jobs /\ completed[i] = 1
    BY BoundAssumption DEF Accounted, BarrierIsLast, TypeOK, Jobs
  <2>2. i \in ran \/ Excuse(i)
    BY <2>1 DEF Excused, AllExcused
  <2> QED
    BY <2>1, <2>2 DEF Excuse, CalledOff
<1> QED
  BY <1>1, AlwaysAccounted, AlwaysExcused, PTL

\* PostDurable's promise: no shed, no PostLatest and no Cancel costs a durable
\* job; one that did not run was queued when a Drain or a Shutdown swept.
THEOREM DurableJobsRun == Spec => []DurableKept
<1>1. Excused => DurableKept
  BY DEF Excused, AllExcused, Excuse, DurableKept
<1> QED
  BY <1>1, AlwaysExcused, PTL
=============================================================================
