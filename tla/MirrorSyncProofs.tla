-------------------------- MODULE MirrorSyncProofs --------------------------
(* Theorems about MirrorSync. *)
EXTENDS MirrorSync, MirrorRulesProofs, TLAPS

-----------------------------------------------------------------------------
(* What the operators return *)

(* No call is a call, and the worker has nothing to do at first. *)
LEMMA NoCallType == NoCall \in Call /\ WellFormed(NoCall) /\ NothingToDo \in Todo
BY DEF WellFormed, NoCall, Call, NoRow, Row, Hash, Precondition, NothingToDo, Todo

(* What the host holds is a row. *)
LEMMA HostRowType ==
  ASSUME TypeOK, NEW p \in Paths
  PROVE  HostRow(p) \in Row
BY DEF TypeOK, HostRow, Row

(* The second half of PushNow leaves a record. *)
LEMMA AfterPushType ==
  ASSUME NEW e \in Entry, NEW c \in Call, NEW l \in Hash
  PROVE  AfterPush(e, c, l) \in Entry
<1> DEFINE acked == [e EXCEPT !.base = c.row.hash, !.conflict = FALSE,
                              !.pushed = c.manifest, !.unack = <<>>,
                              !.remote = IF e.hasRemote THEN c.row ELSE @]
<1>1. c.row \in Row /\ c.row.hash \in Hash /\ c.manifest \in Nat /\ <<>> \in Seq(Contents)
  BY DEF Call, Row
<1>2. (IF e.hasRemote THEN c.row ELSE e.remote) \in Row
  BY <1>1 DEF Entry
<1>3. acked \in Entry
  BY <1>1, <1>2 DEF Entry
<1>4. [acked EXCEPT !.pending = (l # c.row.hash),
                    !.localOnly = IF e.hasRemote THEN @ ELSE TRUE] \in Entry
  <2> HIDE DEF acked
  <2>1. \A b, d \in BOOLEAN : [acked EXCEPT !.pending = b, !.localOnly = d] \in Entry
    BY <1>3 DEF Entry
  <2>2. (l # c.row.hash) \in BOOLEAN
    OBVIOUS
  <2>3. (IF e.hasRemote THEN acked.localOnly ELSE TRUE) \in BOOLEAN
    BY <1>3 DEF Entry
  <2> QED BY <2>1, <2>2, <2>3
<1>5. [acked EXCEPT !.pending = FALSE] \in Entry
  <2> HIDE DEF acked
  <2> QED BY <1>3 DEF Entry
<1>6. [e EXCEPT !.conflict = TRUE, !.unack = <<>>,
                !.hasRemote = IF c.row.hash = None THEN FALSE ELSE @] \in Entry
  BY <1>1 DEF Entry
<1> HIDE DEF acked
<1>7. AfterPush(e, c, l) \in
        {[acked EXCEPT !.pending = (l # c.row.hash),
                       !.localOnly = IF e.hasRemote THEN @ ELSE TRUE],
         [acked EXCEPT !.pending = FALSE], acked,
         [e EXCEPT !.conflict = TRUE, !.unack = <<>>,
                   !.hasRemote = IF c.row.hash = None THEN FALSE ELSE @]}
  BY DEF AfterPush, acked
<1> QED
  BY <1>3, <1>4, <1>5, <1>6, <1>7

(* One more element, at the end. *)
LEMMA AppendType ==
  ASSUME NEW S, NEW s \in Seq(S), NEW x \in S
  PROVE  Append(s, x) \in Seq(S)
OBVIOUS

(* The list of unanswered pushes holds contents only. *)
LEMMA NoteUnacknowledgedType ==
  ASSUME NEW S, NEW s \in Seq(S), NEW c \in S
  PROVE  NoteUnacknowledged(s, c) \in Seq(S)
BY UnacknowledgedBound DEF NoteUnacknowledged

-----------------------------------------------------------------------------
(* What the steps shared by several actions leave *)

(* HoldMassDeleteLocked. *)
LEMMA PlanDeletesType ==
  ASSUME TypeOK, NEW deletes \in SUBSET Paths, NEW fills \in SUBSET Object,
         NEW h \in SUBSET Paths, PlanDeletes(deletes, fills, h)
  PROVE  todo' \in Todo /\ held' \subseteq Paths /\ aside' \subseteq SetAside
<1>1. PICK kept \in SUBSET aside :
        \/ /\ todo' = [deletes |-> deletes, undoable |-> deletes # {}, restores |-> {},
                       fills |-> fills, checked |-> {}]
           /\ held' = h /\ aside' = kept
        \/ /\ deletes # {}
           /\ todo' = [deletes |-> {}, undoable |-> FALSE, restores |-> kept,
                       fills |-> fills, checked |-> {}]
           /\ held' = h \cup deletes /\ aside' = {}
  BY DEF PlanDeletes
<1>2. kept \subseteq SetAside
  BY DEF TypeOK
<1>3. \A b \in BOOLEAN, k \in SUBSET SetAside, d \in SUBSET Paths :
        [deletes |-> d, undoable |-> b, restores |-> k, fills |-> fills, checked |-> {}] \in Todo
  BY DEF Todo
<1>4. (deletes # {}) \in BOOLEAN
  OBVIOUS
<1>5. todo' \in Todo
  BY <1>1, <1>2, <1>3, <1>4
<1>6. held' \subseteq Paths /\ aside' \subseteq SetAside
  BY <1>1, <1>2
<1> QED
  BY <1>5, <1>6

(* Execute, given records for the plan's paths. *)
LEMMA ExecuteType ==
  ASSUME TypeOK, NEW R, NEW rows \in [Paths -> Row], NEW h \in SUBSET Paths,
         NEW q \in Seq(Job), \A p \in Paths : R[p].entry \in Entry, Execute(R, rows, h, q)
  PROVE  /\ entries' \in [Paths -> Entry] /\ queue' \in Seq(Job) /\ pulls' \in Seq(Pull)
         /\ todo' \in Todo /\ held' \subseteq Paths /\ aside' \subseteq SetAside
<1> DEFINE planned(a) == {p \in Paths : R[p].act = a}
           filling(S) == {[kind |-> "object", path |-> p, row |-> rows[p],
                           delta |-> None] : p \in S}
<1>1. entries' \in [Paths -> Entry]
  BY DEF Execute
<1>2. queue' \in Seq(Job)
  <2>1. [kind |-> "push", paths |-> planned("push")] \in Job
    BY DEF Job, Push
  <2> QED BY <2>1 DEF Execute
<1>3. PICK filled \in SUBSET {p \in planned("pull") : rows[p].hash \in Stored} :
        /\ PlanDeletes(planned("delete"), filling(filled), h)
        /\ pulls' = IF link = "up" /\ planned("pull") # filled
                    THEN Append(pulls, [paths |-> planned("pull") \ filled,
                                        base |-> [p \in Paths |-> R[p].entry.base],
                                        read |-> <<>>])
                    ELSE pulls
  BY DEF Execute
<1>4. filling(filled) \subseteq Object
  BY DEF Object, Hash
<1>5. todo' \in Todo /\ held' \subseteq Paths /\ aside' \subseteq SetAside
  <2> HIDE DEF filling
  <2>1. planned("delete") \in SUBSET Paths
    OBVIOUS
  <2> QED BY <1>3, <1>4, <2>1, PlanDeletesType
<1>6. pulls' \in Seq(Pull)
  <2>1. [p \in Paths |-> R[p].entry.base] \in [Paths -> Hash]
    BY DEF Entry
  <2>2. [paths |-> planned("pull") \ filled, base |-> [p \in Paths |-> R[p].entry.base],
         read |-> <<>>] \in Pull
    BY <2>1 DEF Pull
  <2> QED BY <1>3, <2>2 DEF TypeOK
<1> QED
  BY <1>1, <1>2, <1>5, <1>6

(* tree/ and the host's files hold hashes, and their histories contents. *)
LEMMA TreeTakesType ==
  ASSUME TypeOK, NEW p \in Paths, NEW c \in Hash, TreeTakes(p, c)
  PROVE  local' \in [Paths -> Hash] /\ wasLocal' \in [Paths -> SUBSET Contents]
<1>1. wasLocal[p] \cup ({c} \ {None}) \in SUBSET Contents
  BY DEF TypeOK, Hash
<1> QED
  BY <1>1 DEF TypeOK, TreeTakes

(* So does one to a host file. *)
LEMMA HostTakesType ==
  ASSUME TypeOK, NEW p \in Paths, NEW c \in Hash, HostTakes(p, c)
  PROVE  /\ host' \in [Paths -> Hash] /\ hostVer' \in [Paths -> Nat]
         /\ wasHost' \in [Paths -> SUBSET Contents] /\ touched' \subseteq Paths
<1>1. wasHost[p] \cup ({c} \ {None}) \in SUBSET Contents
  BY DEF TypeOK, Hash
<1>2. wasHost' \in [Paths -> SUBSET Contents]
  BY <1>1 DEF TypeOK, HostTakes
<1>3. hostVer' \in [Paths -> Nat]
  BY DEF TypeOK, HostTakes
<1> QED
  BY <1>2, <1>3 DEF TypeOK, HostTakes

(* ApplyFetched. *)
LEMMA ApplyFetchedType ==
  ASSUME TypeOK, NEW o \in Object, NEW fills \in SUBSET Object, ApplyFetched(o, fills)
  PROVE  /\ entries' \in [Paths -> Entry] /\ todo' \in Todo
         /\ held' \subseteq Paths /\ aside' \subseteq SetAside
         /\ local' \in [Paths -> Hash] /\ wasLocal' \in [Paths -> SUBSET Contents]
         /\ seen' \in [Paths -> Nat] /\ stale' \subseteq Paths
         /\ unannounced' \subseteq unannounced
<1> DEFINE p == o.path
           e == entries[p]
           f == Fetched(e, local[p], o)
           gone == e.known /\ e.hasRemote /\ ~e.pending /\ ~e.conflict
           r == IF gone THEN ReconcileDelete(e, local[p]) ELSE [entry |-> e, act |-> "none"]
<1>1. p \in Paths /\ o.row \in Row /\ o.row.hash \in Hash /\ o.row.ver \in Nat
      /\ e \in Entry /\ local[p] \in Hash
  BY DEF Object, Row, TypeOK
<1>2. CASE o.row.hash = None
  <2>1. /\ entries' = [entries EXCEPT ![p] = r.entry]
        /\ PlanDeletes(IF r.act = "delete" THEN {p} ELSE {}, fills, held)
        /\ stale' = IF gone /\ o.row.ver < e.remote.ver THEN stale \cup {p} ELSE stale
        /\ UNCHANGED <<local, wasLocal, seen, unannounced>>
    BY <1>2 DEF ApplyFetched
  <2>2. r.entry \in Entry
    BY <1>1, ReconcileDeleteType
  <2>3. (IF r.act = "delete" THEN {p} ELSE {}) \in SUBSET Paths /\ held \in SUBSET Paths
    BY <1>1 DEF TypeOK
  <2>4. todo' \in Todo /\ held' \subseteq Paths /\ aside' \subseteq SetAside
    BY <2>1, <2>3, PlanDeletesType
  <2> QED BY <1>1, <2>1, <2>2, <2>4 DEF TypeOK
<1>3. CASE o.row.hash # None
  <2>1. /\ entries' = IF f = "parked" THEN [entries EXCEPT ![p].conflict = TRUE] ELSE entries
        /\ stale' = IF f = "unapplied" THEN stale \cup {p} ELSE stale
        /\ unannounced' \subseteq unannounced
        /\ \/ todo' = [todo EXCEPT !.fills = fills \cup {o},
                                   !.checked = {[path |-> p, was |-> local[p]]}]
           \/ todo' = [todo EXCEPT !.fills = fills]
        /\ UNCHANGED <<held, aside, local, wasLocal, seen>>
    BY <1>3 DEF ApplyFetched
  <2>2. [e EXCEPT !.conflict = TRUE] \in Entry
    BY <1>1 DEF Entry
  <2>3. entries' \in [Paths -> Entry]
    BY <1>1, <2>1, <2>2 DEF TypeOK
  <2>5. stale' \subseteq Paths
    BY <1>1, <2>1 DEF TypeOK
  <2>6. todo' \in Todo
    <3>1. \A S \in SUBSET Object, T \in SUBSET Compare :
            /\ [todo EXCEPT !.fills = S] \in Todo
            /\ [todo EXCEPT !.fills = S, !.checked = T] \in Todo
      BY DEF TypeOK, Todo
    <3>2. fills \cup {o} \in SUBSET Object /\ {[path |-> p, was |-> local[p]]} \in SUBSET Compare
      BY <1>1 DEF Compare
    <3> QED BY <2>1, <3>1, <3>2
  <2> QED BY <1>1, <2>1, <2>3, <2>5, <2>6 DEF TypeOK
<1> QED
  BY <1>2, <1>3

(* What was compared is a file of tree/, and what is fetched for it an object. *)
LEMMA CheckedType ==
  ASSUME TypeOK, NEW k \in todo.checked
  PROVE  k.path \in Paths /\ k.was \in Hash
BY DEF TypeOK, Todo, Compare

(* What is left of the job when a delete, or an object, has been dealt with. *)
LEMMA TodoShrinks ==
  ASSUME TypeOK, NEW p \in Paths, NEW o
  PROVE  /\ AfterDelete(p) \in Todo
         /\ [todo EXCEPT !.fills = @ \ {o}, !.checked = {}] \in Todo
<1> DEFINE b == todo.undoable /\ todo.deletes # {p}
<1>1. todo.deletes \ {p} \in SUBSET Paths /\ b \in BOOLEAN /\ todo.fills \ {o} \in SUBSET Object
  BY DEF TypeOK, Todo
<1>2. \A x \in BOOLEAN, S \in SUBSET Paths, T \in SUBSET Object :
        /\ [todo EXCEPT !.deletes = S, !.undoable = x, !.checked = {}] \in Todo
        /\ [todo EXCEPT !.fills = T, !.checked = {}] \in Todo
  BY DEF TypeOK, Todo
<1>3. AfterDelete(p) = [todo EXCEPT !.deletes = todo.deletes \ {p}, !.undoable = b, !.checked = {}]
  BY DEF AfterDelete, TypeOK, Todo
<1>4. [todo EXCEPT !.fills = @ \ {o}, !.checked = {}]
        = [todo EXCEPT !.fills = todo.fills \ {o}, !.checked = {}]
  BY DEF TypeOK, Todo
<1> HIDE DEF b
<1> QED
  BY <1>1, <1>2, <1>3, <1>4

(* PushNow up to its write. *)
LEMMA StartPushType ==
  ASSUME TypeOK, NEW p \in Paths, NEW es \in [Paths -> Entry], StartPush(p, es)
  PROVE  /\ entries' \in [Paths -> Entry] /\ WellFormed(call)' /\ stale' \subseteq Paths
<1> DEFINE sending == [NoCall EXCEPT !.job = "push", !.st = "sent", !.path = p,
                                     !.content = local[p], !.expect = es[p].base]
<1>1. entries' \in [Paths -> Entry]
  <2>1. [es[p] EXCEPT !.pending = FALSE] \in Entry
    BY DEF Entry
  <2> QED BY <2>1 DEF StartPush
<1>2. call' = call \/ (local[p] # None /\ call' = sending)
  BY DEF StartPush
<1>3. sending \in Call /\ sending.path = p /\ sending.content = local[p]
  <2>1. local[p] \in Hash /\ es[p].base \in Precondition
    BY DEF TypeOK, Entry, Precondition
  <2>2. sending \in Call
    BY <2>1, NoCallType DEF Call
  <2> QED BY <2>2 DEF NoCall
<1>4. stale' \subseteq Paths
  BY DEF StartPush, TypeOK
<1> HIDE DEF sending
<1> QED
  BY <1>1, <1>2, <1>3, <1>4 DEF TypeOK, Hash, WellFormed, NoCall

-----------------------------------------------------------------------------
(* Type correctness *)

(* The job at the head of the queue is a job, and what is behind it a queue. *)
LEMMA HeadType ==
  ASSUME TypeOK, NEW kind, NextJob(kind)
  PROVE  Head(queue) \in Job /\ Head(queue).kind = kind /\ Tail(queue) \in Seq(Job)
BY DEF TypeOK, NextJob

(* The bounds are counted in naturals. *)
LEMMA CountType ==
  ASSUME TypeOK
  PROVE  /\ [count EXCEPT !.saves = @ + 1] \in Count /\ [count EXCEPT !.edits = @ + 1] \in Count
         /\ [count EXCEPT !.faults = @ + 1] \in Count /\ [count EXCEPT !.asks = @ + 1] \in Count
         /\ [count EXCEPT !.tools = @ + 1] \in Count
<1>1. count.saves + 1 \in Nat /\ count.edits + 1 \in Nat /\ count.faults + 1 \in Nat
      /\ count.asks + 1 \in Nat /\ count.tools + 1 \in Nat /\ count \in Count
  BY DEF TypeOK, Count
<1> QED
  BY <1>1 DEF Count

(* The user's steps. *)
LEMMA UserTypeOK == TypeOK /\ User => TypeOK'
<1> SUFFICES ASSUME TypeOK, User PROVE TypeOK'
  OBVIOUS
<1> USE DEF hostVars, serverVars
<1>1. ASSUME NEW p \in Paths, NEW c \in Contents, SaveWrite(p, c) PROVE TypeOK'
  <2>1. local' \in [Paths -> Hash] /\ wasLocal' \in [Paths -> SUBSET Contents]
    BY <1>1, TreeTakesType DEF SaveWrite, Hash
  <2> QED BY <1>1, <2>1, CountType DEF SaveWrite, TypeOK
<1>2. ASSUME NEW p \in Paths, SaveNotify(p) PROVE TypeOK'
  <2>1. [kind |-> "note", path |-> p] \in Job
    BY DEF Job, Note
  <2> QED BY <1>2, <2>1 DEF SaveNotify, TypeOK
<1>3. ASSUME NEW p \in Paths, NEW c \in Hash, ToolWrite(p, c) PROVE TypeOK'
  <2>1. local' \in [Paths -> Hash] /\ wasLocal' \in [Paths -> SUBSET Contents]
    BY <1>3, TreeTakesType DEF ToolWrite
  <2> QED BY <1>3, <2>1, CountType DEF ToolWrite, TypeOK
<1>4. ASSUME NEW p \in Paths, NEW c \in Hash, HostEdit(p, c) PROVE TypeOK'
  <2>1. /\ host' \in [Paths -> Hash] /\ hostVer' \in [Paths -> Nat]
        /\ wasHost' \in [Paths -> SUBSET Contents] /\ touched' \subseteq Paths
    BY <1>4, HostTakesType DEF HostEdit
  <2> QED BY <1>4, <2>1, CountType DEF HostEdit, TypeOK
<1>5. ASSUME NEW p \in Paths, Prioritize(p) PROVE TypeOK'
  <2>1. [kind |-> "object", path |-> p, row |-> entries[p].remote, delta |-> None] \in Object
    BY DEF TypeOK, Object, Entry, Hash
  <2>2. todo' \in Todo
    <3>1. \A fills \in SUBSET Object : [todo EXCEPT !.fills = fills] \in Todo
      BY DEF TypeOK, Todo
    <3> QED BY <1>5, <2>1, <3>1 DEF Prioritize, TypeOK
  <2>3. [NoCall EXCEPT !.job = "fetch", !.st = "sent", !.path = p] \in Call
    BY NoCallType DEF Call
  <2>4. WellFormed(call)'
    <3>1. call' = call \/ call' = [NoCall EXCEPT !.job = "fetch", !.st = "sent", !.path = p]
      BY <1>5 DEF Prioritize
    <3> QED BY <2>3, <3>1 DEF TypeOK, NoCall, WellFormed
  <2>f. /\ count' \in Count
        /\ UNCHANGED <<local, saving, entries, manifestId, held, aside, queue, link, wire, pulls,
                       serverVars, hostVars, seen, synced, stale, unannounced, wasLocal>>
    BY <1>5, CountType DEF Prioritize
  <2> QED BY <2>2, <2>4, <2>f DEF TypeOK
<1>6. ASSUME NEW p \in Paths, TakeRemote(p) PROVE TypeOK'
  <2>1. [NoCall EXCEPT !.job = "take", !.st = "sent", !.path = p] \in Call
    BY NoCallType DEF Call
  <2>2. WellFormed(call)'
    BY <1>6, <2>1 DEF TakeRemote, NoCall, WellFormed
  <2>f. /\ count' \in Count
        /\ UNCHANGED <<local, saving, entries, manifestId, held, aside, queue, todo, link, wire,
                       pulls, serverVars, hostVars, seen, synced, stale, unannounced, wasLocal>>
    BY <1>6, CountType DEF TakeRemote
  <2> QED BY <2>2, <2>f DEF TypeOK
<1>7. ASSUME NEW p \in Paths, NEW expect \in {Anything} \cup ({entries[p].remote.hash} \ {None}),
             KeepLocal(p, expect)
      PROVE  TypeOK'
  <2>1. expect \in Precondition /\ local[p] \in Hash
    BY DEF TypeOK, Entry, Row, Precondition
  <2>2. [NoCall EXCEPT !.job = "keep", !.st = "sent", !.path = p,
                       !.content = local[p], !.expect = expect] \in Call
    BY <2>1, NoCallType DEF Call
  <2>3. WellFormed(call)'
    BY <1>7, <2>2 DEF KeepLocal, NoCall, WellFormed
  <2>f. /\ count' \in Count
        /\ UNCHANGED <<local, saving, entries, manifestId, held, aside, queue, todo, link, wire,
                       pulls, serverVars, hostVars, seen, synced, stale, unannounced, wasLocal>>
    BY <1>7, CountType DEF KeepLocal
  <2> QED BY <2>3, <2>f DEF TypeOK
<1>8. ASSUME NEW undoable \in BOOLEAN, RequestApproval(undoable) PROVE TypeOK'
  <2>1. [kind |-> "approve", undoable |-> undoable] \in Job
    BY DEF Job, Approve
  <2> QED BY <1>8, <2>1, CountType DEF RequestApproval, TypeOK
<1> QED
  BY <1>1, <1>2, <1>3, <1>4, <1>5, <1>6, <1>7, <1>8 DEF User

(* The server's steps. *)
LEMMA ServerTypeOK == TypeOK /\ Server => TypeOK'
<1> SUFFICES ASSUME TypeOK, Server PROVE TypeOK'
  OBVIOUS
<1> USE DEF hostVars, serverVars
<1>1. CASE ServerCheck
  <2>1. call.path \in Paths /\ HostRow(call.path) \in Row
    BY <1>1, HostRowType DEF ServerCheck, TypeOK, WellFormed
  <2>2. WellFormed(call)'
    BY <1>1, <2>1 DEF ServerCheck, TypeOK, WellFormed, Call
  <2> QED BY <1>1, <2>2 DEF ServerCheck, TypeOK
<1>2. CASE ServerWrite
  <2>1. call.path \in Paths /\ call.content \in Hash /\ call \in Call
    BY <1>2 DEF ServerWrite, TypeOK, WellFormed, Call
  <2>2. /\ host' \in [Paths -> Hash] /\ hostVer' \in [Paths -> Nat]
        /\ wasHost' \in [Paths -> SUBSET Contents] /\ touched' \subseteq Paths
    <3>1. CASE Replaces(call)
      BY <1>2, <2>1, <3>1, HostTakesType DEF ServerWrite, Replaced
    <3>2. CASE ~Replaces(call)
      BY <1>2, <3>2 DEF ServerWrite, Replaced, TypeOK
    <3> QED BY <3>1, <3>2
  <2>3. [hash |-> host'[call.path], ver |-> hostVer'[call.path]] \in Row
    BY <2>1, <2>2 DEF Row
  <2>4. WellFormed(call)'
    <3>1. Replaces(call) \in BOOLEAN
      BY DEF Replaces
    <3>2. \A b \in BOOLEAN, r \in Row : [call EXCEPT !.st = "written", !.ok = b, !.row = r] \in Call
      BY <2>1 DEF Call
    <3>3. call' \in Call
      BY <1>2, <2>3, <3>1, <3>2 DEF ServerWrite
    <3>4. call'.job = call.job /\ call'.path = call.path /\ call'.content = call.content
      BY <1>2, <2>1 DEF ServerWrite, Call
    <3> QED BY <3>3, <3>4 DEF TypeOK, WellFormed
  <2> QED BY <1>2, <2>2, <2>4 DEF ServerWrite, TypeOK
<1>3. CASE ServerAnswer
  <2>1. nextId - 1 \in Nat
    BY DEF TypeOK
  <2>2. WellFormed(call)'
    BY <1>3, <2>1 DEF ServerAnswer, TypeOK, WellFormed, Call
  <2> QED BY <1>3, <2>2 DEF ServerAnswer, TypeOK
<1>4. CASE ServerRead
  <2>1. call.path \in Paths /\ HostRow(call.path) \in Row
    BY <1>4, HostRowType DEF ServerRead, TypeOK, WellFormed
  <2>2. WellFormed(call)'
    BY <1>4, <2>1 DEF ServerRead, TypeOK, WellFormed, Call
  <2> QED BY <1>4, <2>2 DEF ServerRead, TypeOK
<1>5. ASSUME NEW p \in Paths, NEW delta \in Hash, ServerPull(p, delta) PROVE TypeOK'
  <2> DEFINE o == [kind |-> "object", path |-> p, row |-> HostRow(p), delta |-> delta]
             first == Head(pulls)
  <2>1. o \in Object
    BY HostRowType DEF Object
  <2>2. first \in Pull /\ Tail(pulls) \in Seq(Pull)
    BY <1>5 DEF ServerPull, TypeOK
  <2>3. [first EXCEPT !.paths = @ \ {p}, !.read = Append(@, o)] \in Pull
    <3> HIDE DEF o, first
    <3>1. first.paths \ {p} \in SUBSET Paths /\ Append(first.read, o) \in Seq(Object)
      BY <2>1, <2>2 DEF Pull
    <3> QED BY <2>2, <3>1 DEF Pull
  <2>4. pulls' \in Seq(Pull)
    <3>1. pulls' = <<[first EXCEPT !.paths = @ \ {p}, !.read = Append(@, o)]>> \o Tail(pulls)
      BY <1>5 DEF ServerPull
    <3> HIDE DEF o, first
    <3> QED BY <2>2, <2>3, <3>1
  <2> QED BY <1>5, <2>4 DEF ServerPull, TypeOK
<1>6. CASE ServerPulled
  <2>1. Head(pulls).read \in Seq(Object \cup WatchDelta \cup Manifest)
    <3>1. Head(pulls) \in Pull
      BY <1>6 DEF ServerPulled, TypeOK
    <3> QED BY <3>1 DEF Pull
  <2>2. wire' \in Seq(Object \cup WatchDelta \cup Manifest)
    BY <1>6, <2>1 DEF ServerPulled, TypeOK
  <2>3. pulls' \in Seq(Pull)
    BY <1>6 DEF ServerPulled, TypeOK
  <2> QED BY <1>6, <2>2, <2>3 DEF ServerPulled, TypeOK
<1>7. ASSUME NEW r \in late, LateCheck(r) PROVE TypeOK'
  <2>1. [r EXCEPT !.checked = TRUE] \in Write
    BY DEF TypeOK, Write
  <2>2. late' \subseteq Write
    BY <1>7, <2>1 DEF LateCheck, TypeOK
  <2> QED BY <1>7, <2>2 DEF LateCheck, TypeOK
<1>8. ASSUME NEW r \in late, LateWrite(r) PROVE TypeOK'
  <2>1. r.path \in Paths /\ r.content \in Hash
    BY DEF TypeOK, Write
  <2>2. /\ host' \in [Paths -> Hash] /\ hostVer' \in [Paths -> Nat]
        /\ wasHost' \in [Paths -> SUBSET Contents] /\ touched' \subseteq Paths
    <3>1. CASE Replaces(r)
      BY <1>8, <2>1, <3>1, HostTakesType DEF LateWrite, Replaced
    <3>2. CASE ~Replaces(r)
      BY <1>8, <3>2 DEF LateWrite, Replaced, TypeOK
    <3> QED BY <3>1, <3>2
  <2> QED BY <1>8, <2>2 DEF LateWrite, TypeOK
<1>9. CASE ServerManifest
  <2>1. [p \in Paths |-> HostRow(p)] \in [Paths -> Row] /\ nextId + 1 \in Nat \ {0}
    BY HostRowType DEF TypeOK
  <2>2. WellFormed(call)'
    BY <1>9, <2>1 DEF ServerManifest, TypeOK, WellFormed, Call
  <2>3. [kind |-> "manifest"] \in Manifest
    BY DEF Manifest
  <2> QED BY <1>9, <2>1, <2>2, <2>3 DEF ServerManifest, TypeOK
<1>10. CASE PublishWatchBatch
  <2> DEFINE changed == {p \in Paths : ~SameRow(HostRow(p), sent[p])}
             rows == [p \in Paths |-> IF p \in changed THEN HostRow(p) ELSE NoRow]
             d == [kind |-> "delta", id |-> nextId, changed |-> changed, rows |-> rows]
  <2>1. [p \in Paths |-> HostRow(p)] \in [Paths -> Row] /\ nextId + 1 \in Nat \ {0}
    BY HostRowType DEF TypeOK
  <2>2. rows \in [Paths -> Row] /\ changed \in SUBSET Paths
    <3> HIDE DEF changed
    <3>1. NoRow \in Row
      BY DEF NoRow, Row, Hash
    <3>2. rows \in [Paths -> Row]
      BY <3>1, HostRowType
    <3> QED BY <3>2 DEF changed
  <2>3. d \in WatchDelta
    <3> HIDE DEF changed, rows
    <3> QED BY <2>2 DEF WatchDelta, TypeOK
  <2>4. wire' \in Seq(Object \cup WatchDelta \cup Manifest)
    <3>1. wire' = wire \/ wire' = Append(wire, d)
      BY <1>10 DEF PublishWatchBatch
    <3>2. d \in Object \cup WatchDelta \cup Manifest
      BY <2>3
    <3> HIDE DEF d
    <3>3. wire \in Seq(Object \cup WatchDelta \cup Manifest)
      BY DEF TypeOK
    <3>4. Append(wire, d) \in Seq(Object \cup WatchDelta \cup Manifest)
      BY <3>2, <3>3, AppendType
    <3> QED BY <3>1, <3>3, <3>4
  <2> QED BY <1>10, <2>1, <2>4 DEF PublishWatchBatch, TypeOK
<1> QED
  BY <1>1, <1>2, <1>3, <1>4, <1>5, <1>6, <1>7, <1>8, <1>9, <1>10
  DEF Server, TreeQueue, IoQueue

(* The steps of the link. *)
LEMMA LinkTypeOK == TypeOK /\ Link => TypeOK'
<1> SUFFICES ASSUME TypeOK, Link PROVE TypeOK'
  OBVIOUS
<1> USE DEF hostVars, serverVars
<1>1. ASSUME GiveUp PROVE entries' \in [Paths -> Entry] /\ WellFormed(call)'
  <2>1. ASSUME call.job = "push"
        PROVE  [entries[call.path] EXCEPT !.unack = NoteUnacknowledged(@, call.content)] \in Entry
    <3>1. call.path \in Paths /\ call.content \in Contents /\ entries[call.path] \in Entry
      BY <2>1 DEF TypeOK, WellFormed
    <3>2. NoteUnacknowledged(entries[call.path].unack, call.content) \in Seq(Contents)
      BY <3>1, NoteUnacknowledgedType DEF Entry
    <3> QED BY <3>1, <3>2 DEF Entry
  <2>2. entries' \in [Paths -> Entry]
    BY <1>1, <2>1 DEF GiveUp, TypeOK, WellFormed
  <2> QED BY <1>1, <2>2, NoCallType DEF GiveUp
<1>2. Unwritten \subseteq Write
  <2>1. (call.st = "checked") \in BOOLEAN
    OBVIOUS
  <2>2. ASSUME call.job \in {"push", "keep"}, NEW b \in BOOLEAN
        PROVE  [job |-> call.job, path |-> call.path, content |-> call.content,
                expect |-> call.expect, checked |-> b] \in Write
    BY <2>2 DEF Write, TypeOK, WellFormed, Call
  <2> QED BY <2>1, <2>2 DEF Unwritten
<1>3. CASE Deliver
  <2>1. Head(wire) \in Object \cup WatchDelta \cup Manifest
        /\ Tail(wire) \in Seq(Object \cup WatchDelta \cup Manifest)
    BY <1>3 DEF Deliver, TypeOK
  <2>2. queue' \in Seq(Job)
    <3>1. Head(wire).kind # "manifest" => Head(wire) \in Job
      BY <2>1 DEF Manifest, Job
    <3>2. queue' = queue \/ (Head(wire).kind # "manifest" /\ queue' = Append(queue, Head(wire)))
      BY <1>3 DEF Deliver
    <3>3. queue \in Seq(Job)
      BY DEF TypeOK
    <3>4. Head(wire).kind # "manifest" => Append(queue, Head(wire)) \in Seq(Job)
      BY <3>1, <3>3, AppendType
    <3> QED BY <3>2, <3>3, <3>4
  <2>3. WellFormed(call)'
    <3>1. call' = call \/ call' = [call EXCEPT !.st = "answered"]
      BY <1>3 DEF Deliver
    <3>2. WellFormed(call) /\ call \in Call
      BY DEF TypeOK, WellFormed
    <3>3. call' \in Call /\ call'.job = call.job /\ call'.path = call.path
          /\ call'.content = call.content
      BY <3>1, <3>2 DEF Call
    <3> QED BY <3>2, <3>3 DEF WellFormed
  <2> QED BY <1>3, <2>1, <2>2, <2>3 DEF Deliver, TypeOK
<1>4. CASE DropLink
  <2>1. entries' \in [Paths -> Entry] /\ WellFormed(call)'
    BY <1>1, <1>4 DEF DropLink, TypeOK
  <2>2. [p \in Paths |-> NoRow] \in [Paths -> Row]
    BY DEF NoRow, Row, Hash
  <2>3. late' \subseteq Write
    BY <1>2, <1>4 DEF DropLink, TypeOK
  <2>4. pulls' \in Seq(Pull) /\ wire' \in Seq(Object \cup WatchDelta \cup Manifest)
    BY <1>4 DEF DropLink
  <2> QED BY <1>4, <2>1, <2>2, <2>3, <2>4, CountType DEF DropLink, TypeOK
<1>5. CASE TimeOut
  <2>1. entries' \in [Paths -> Entry] /\ WellFormed(call)'
    BY <1>1, <1>5 DEF TimeOut
  <2>2. wire' \in Seq(Object \cup WatchDelta \cup Manifest)
    BY <1>5, WithoutType DEF TimeOut, TypeOK
  <2> QED BY <1>2, <1>5, <2>1, <2>2, CountType DEF TimeOut, TypeOK
<1>6. CASE ErrorAnswer
  <2>1. \A e \in Entry : [e EXCEPT !.unack = <<>>] \in Entry
    <3>1. <<>> \in Seq(Contents)
      OBVIOUS
    <3> QED BY <3>1 DEF Entry
  <2>2. entries' \in [Paths -> Entry]
    BY <1>6, <2>1 DEF ErrorAnswer, TypeOK, WellFormed
  <2> QED BY <1>6, <2>2, NoCallType, CountType DEF ErrorAnswer, TypeOK
<1>7. CASE WatchBatchFails
  BY <1>7, CountType DEF WatchBatchFails, TypeOK
<1>8. ASSUME NEW fresh \in BOOLEAN, Reconnect(fresh) PROVE TypeOK'
  <2>1. [kind |-> "sync"] \in Job
    BY DEF Job, Sync
  <2>2. queue' \in Seq(Job)
    BY <1>8, <2>1, WithoutType DEF Reconnect, TypeOK
  <2>3. nextId' \in Nat \ {0}
    BY <1>8 DEF Reconnect, TypeOK
  <2> QED BY <1>8, <2>2, <2>3 DEF Reconnect, TypeOK
<1>9. ASSUME NEW p \in Paths, ObjectFails(p) PROVE TypeOK'
  <2>1. pulls' \in Seq(Pull)
    <3>1. pulls # <<>> /\ pulls \in Seq(Pull)
      BY <1>9 DEF ObjectFails, TypeOK
    <3>2. Head(pulls) \in Pull /\ Tail(pulls) \in Seq(Pull)
      BY <3>1
    <3>3. [Head(pulls) EXCEPT !.paths = @ \ {p}] \in Pull
      BY <3>2 DEF Pull
    <3>4. \A x \in Pull : <<x>> \o Tail(pulls) \in Seq(Pull)
      BY <3>2
    <3> QED BY <1>9, <3>3, <3>4 DEF ObjectFails
  <2>2. stale' \subseteq Paths
    BY <1>9 DEF ObjectFails, TypeOK
  <2> QED BY <1>9, <2>1, <2>2, CountType DEF ObjectFails, TypeOK
<1>10. CASE BatchFails
  <2>1. pulls # <<>> /\ pulls \in Seq(Pull)
    BY <1>10 DEF BatchFails, TypeOK
  <2>2. Head(pulls) \in Pull /\ Tail(pulls) \in Seq(Pull)
    BY <2>1
  <2>3. Head(pulls).paths \subseteq Paths
        /\ \A i \in 1..Len(Head(pulls).read) : Head(pulls).read[i].path \in Paths
    <3>1. Head(pulls).paths \subseteq Paths /\ Head(pulls).read \in Seq(Object)
      BY <2>2 DEF Pull
    <3>2. \A i \in 1..Len(Head(pulls).read) : Head(pulls).read[i] \in Object
      BY <3>1
    <3> QED BY <3>1, <3>2 DEF Object
  <2>4. stale' \subseteq Paths
    BY <1>10, <2>3 DEF BatchFails, TypeOK
  <2> QED BY <1>10, <2>2, <2>4, CountType DEF BatchFails, TypeOK
<1>11. ASSUME NEW k \in todo.checked, DeleteFails(k) PROVE TypeOK'
  BY <1>11, CheckedType, TodoShrinks, CountType DEF DeleteFails, TypeOK
<1>12. ASSUME NEW k \in todo.checked, NEW o \in todo.fills, WriteFails(k, o) PROVE TypeOK'
  BY <1>12, CheckedType, TodoShrinks, CountType DEF WriteFails, TypeOK
<1> QED
  BY <1>3, <1>4, <1>5, <1>6, <1>7, <1>8, <1>9, <1>10, <1>11, <1>12 DEF Link, Failure

(* The worker's steps. *)
LEMMA WorkerTypeOK == TypeOK /\ Worker => TypeOK'
<1> SUFFICES ASSUME TypeOK, Worker PROVE TypeOK'
  OBVIOUS
<1> USE DEF hostVars, serverVars
<1>1. CASE NotifyLocalWrite
  <2> DEFINE p == Head(queue).path
             es == [entries EXCEPT ![p].known = TRUE, ![p].pending = TRUE]
  <2>1. p \in Paths /\ Tail(queue) \in Seq(Job)
    <3>1. NextJob("note")
      BY <1>1 DEF NotifyLocalWrite
    <3>2. Head(queue) \in Job /\ Head(queue).kind = "note" /\ Tail(queue) \in Seq(Job)
      BY <3>1, HeadType
    <3> QED BY <3>2 DEF Job, Note, Push, Approve, Sync, Object, WatchDelta
  <2>2. es \in [Paths -> Entry]
    <3> HIDE DEF p
    <3>1. entries \in [Paths -> Entry] /\ entries[p] \in Entry
      BY <2>1 DEF TypeOK
    <3>2. \A e \in Entry : [e EXCEPT !.known = TRUE, !.pending = TRUE] \in Entry
      BY DEF Entry
    <3>3. [entries[p] EXCEPT !.known = TRUE, !.pending = TRUE] \in Entry
      BY <3>1, <3>2
    <3> QED BY <2>1, <3>1, <3>3
  <2>3. StartPush(p, es)
    BY <1>1 DEF NotifyLocalWrite
  <2>4. entries' \in [Paths -> Entry] /\ WellFormed(call)' /\ stale' \subseteq Paths
    <3> HIDE DEF p, es
    <3> QED BY <2>1, <2>2, <2>3, StartPushType
  <2> QED BY <1>1, <2>1, <2>4 DEF NotifyLocalWrite, TypeOK
<1>2. CASE SyncNow
  <2>1. Tail(queue) \in Seq(Job)
    BY <1>2, HeadType DEF SyncNow
  <2>2. [NoCall EXCEPT !.job = "sync", !.st = "sent"] \in Call
    BY NoCallType DEF Call
  <2>3. WellFormed(call)'
    <3>1. call' = call \/ call' = [NoCall EXCEPT !.job = "sync", !.st = "sent"]
      BY <1>2 DEF SyncNow
    <3> QED BY <2>2, <3>1 DEF TypeOK, NoCall, WellFormed
  <2> QED BY <1>2, <2>1, <2>3 DEF SyncNow, TypeOK
<1>3. CASE ApplyWatchDelta
  <2> DEFINE d == Head(queue)
             listed == {p \in d.changed : d.rows[p].hash # None}
             R == [p \in Paths |->
                     IF p \in listed THEN ReconcileRow(entries[p], local[p], d.rows[p], d.id)
                     ELSE IF p \in d.changed /\ entries[p].known
                          THEN IF d.id > entries[p].pushed
                               THEN ReconcileDelete(entries[p], local[p])
                               ELSE [entry |-> entries[p], act |-> "skip"]
                     ELSE [entry |-> entries[p], act |-> "none"]]
             skipped == {p \in d.changed : R[p].act = "skip"}
  <2>1. d \in WatchDelta /\ Tail(queue) \in Seq(Job)
    <3>1. NextJob("delta")
      BY <1>3 DEF ApplyWatchDelta
    <3>2. Head(queue) \in Job /\ Head(queue).kind = "delta" /\ Tail(queue) \in Seq(Job)
      BY <3>1, HeadType
    <3> QED BY <3>2 DEF Job, Note, Push, Approve, Sync, Object
  <2>2. d.id \in Nat /\ d.changed \subseteq Paths /\ d.rows \in [Paths -> Row]
    <3> HIDE DEF d
    <3> QED BY <2>1 DEF WatchDelta
  <2>3. CASE d.id < manifestId
    <3>1. UNCHANGED <<entries, todo, held, aside, pulls, manifestId, seen, stale, unannounced>>
      BY <1>3, <2>3 DEF ApplyWatchDelta
    <3> QED BY <1>3, <2>1, <2>3, <3>1 DEF ApplyWatchDelta, TypeOK
  <2>4. CASE ~(d.id < manifestId)
    <3>1. /\ Execute(R, d.rows, held \ listed, Tail(queue))
          /\ manifestId' = d.id
          /\ seen' = SeenInRows(listed \ skipped, d.rows)
          /\ stale' = {p \in stale : ~(p \in d.changed \ skipped /\ d.rows[p].ver = hostVer[p])}
                        \cup {p \in skipped : d.rows[p].ver > seen[p]}
                        \cup {p \in d.changed : d.rows[p].ver < seen[p] /\ (p \in skipped => p \in held)}
      BY <1>3, <2>4 DEF ApplyWatchDelta
    <3>2. \A p \in Paths : R[p].entry \in Entry
      <4> SUFFICES ASSUME NEW p \in Paths PROVE R[p].entry \in Entry
        OBVIOUS
      <4>1. entries[p] \in Entry /\ local[p] \in Hash /\ d.rows[p] \in Row
        BY <2>2 DEF TypeOK
      <4>2. ReconcileRow(entries[p], local[p], d.rows[p], d.id).entry \in Entry
        BY <2>2, <4>1, ReconcileRowType
      <4>3. ReconcileDelete(entries[p], local[p]).entry \in Entry
        BY <4>1, ReconcileDeleteType
      <4> HIDE DEF listed, d
      <4> QED BY <4>1, <4>2, <4>3
    <3>3. held \ listed \in SUBSET Paths
      BY DEF TypeOK
    <3>4. /\ entries' \in [Paths -> Entry] /\ queue' \in Seq(Job) /\ pulls' \in Seq(Pull)
          /\ todo' \in Todo /\ held' \subseteq Paths /\ aside' \subseteq SetAside
      <4> HIDE DEF d, listed, R
      <4> QED BY <2>1, <2>2, <3>1, <3>2, <3>3, ExecuteType
    <3>5. seen' \in [Paths -> Nat]
      <4> HIDE DEF d, listed, R, skipped
      <4> QED BY <2>2, <3>1 DEF SeenInRows, TypeOK, Row
    <3>6. stale' \subseteq Paths
      <4> HIDE DEF d, R
      <4> QED BY <2>2, <3>1 DEF TypeOK
    <3>7. /\ UNCHANGED <<local, saving, call, link, wire, serverVars, hostVars, synced,
                         wasLocal, count>>
          /\ unannounced' \subseteq unannounced
      BY <1>3, <2>4 DEF ApplyWatchDelta
    <3> HIDE DEF d
    <3> QED BY <2>2, <3>1, <3>4, <3>5, <3>6, <3>7 DEF TypeOK
  <2> QED BY <2>3, <2>4
<1>4. CASE ApplyPulled
  <2>1. Head(queue) \in Object /\ Tail(queue) \in Seq(Job)
    <3>1. NextJob("object")
      BY <1>4 DEF ApplyPulled
    <3>2. Head(queue) \in Job /\ Head(queue).kind = "object" /\ Tail(queue) \in Seq(Job)
      BY <3>1, HeadType
    <3> QED BY <3>2 DEF Job, Note, Push, Approve, Sync, WatchDelta
  <2>2. ApplyFetched(Head(queue), {}) /\ {} \in SUBSET Object
    BY <1>4 DEF ApplyPulled
  <2>3. /\ entries' \in [Paths -> Entry] /\ todo' \in Todo
        /\ held' \subseteq Paths /\ aside' \subseteq SetAside
        /\ local' \in [Paths -> Hash] /\ wasLocal' \in [Paths -> SUBSET Contents]
        /\ seen' \in [Paths -> Nat] /\ stale' \subseteq Paths
        /\ unannounced' \subseteq unannounced
    BY <2>1, <2>2, ApplyFetchedType
  <2> QED BY <1>4, <2>1, <2>3 DEF ApplyPulled, TypeOK
<1>5. CASE ApproveHeldDeletes
  <2>1. Head(queue).undoable \in BOOLEAN /\ Tail(queue) \in Seq(Job)
    <3>1. NextJob("approve")
      BY <1>5 DEF ApproveHeldDeletes
    <3>2. Head(queue) \in Job /\ Head(queue).kind = "approve" /\ Tail(queue) \in Seq(Job)
      BY <3>1, HeadType
    <3> QED BY <3>2 DEF Job, Note, Push, Approve, Sync, Object, WatchDelta
  <2>2. todo' \in Todo
    <3>1. \A b \in BOOLEAN : [todo EXCEPT !.deletes = held, !.undoable = b] \in Todo
      BY DEF TypeOK, Todo
    <3> QED BY <1>5, <2>1, <3>1 DEF ApproveHeldDeletes
  <2> QED BY <1>5, <2>1, <2>2 DEF ApproveHeldDeletes, TypeOK
<1>6. ASSUME NEW p \in Paths, PushNow(p) PROVE TypeOK'
  <2>1. Head(queue).paths \in SUBSET Paths /\ Tail(queue) \in Seq(Job)
    <3>1. NextJob("push")
      BY <1>6 DEF PushNow
    <3>2. Head(queue) \in Job /\ Head(queue).kind = "push" /\ Tail(queue) \in Seq(Job)
      BY <3>1, HeadType
    <3> QED BY <3>2 DEF Job, Note, Push, Approve, Sync, Object, WatchDelta
  <2>2. queue' \in Seq(Job)
    <3>1. [kind |-> "push", paths |-> Head(queue).paths \ {p}] \in Job
      BY <2>1 DEF Job, Push
    <3>2. queue' = Tail(queue)
          \/ queue' = <<[kind |-> "push", paths |-> Head(queue).paths \ {p}]>> \o Tail(queue)
      BY <1>6 DEF PushNow
    <3>3. \A x \in Job : <<x>> \o Tail(queue) \in Seq(Job)
      BY <2>1
    <3> QED BY <2>1, <3>1, <3>2, <3>3
  <2>3. entries' \in [Paths -> Entry] /\ WellFormed(call)' /\ stale' \subseteq Paths
    <3>1. StartPush(p, entries) /\ entries \in [Paths -> Entry]
      BY <1>6 DEF PushNow, TypeOK
    <3> QED BY <3>1, StartPushType
  <2> QED BY <1>6, <2>2, <2>3 DEF PushNow, TypeOK
<1>7. ASSUME NEW p \in Paths, DeleteNow(p) PROVE TypeOK'
  <2>1. entries[p] \in Entry /\ local[p] \in Hash
    BY DEF TypeOK
  <2>2. todo' \in Todo
    <3>1. \A T \in SUBSET Compare : [todo EXCEPT !.checked = T] \in Todo
      BY DEF TypeOK, Todo
    <3>2. {[path |-> p, was |-> local[p]]} \in SUBSET Compare
      BY <2>1 DEF Compare
    <3>3. todo' = [todo EXCEPT !.checked = {[path |-> p, was |-> local[p]]}]
          \/ todo' = AfterDelete(p)
      BY <1>7 DEF DeleteNow
    <3> QED BY <3>1, <3>2, <3>3, TodoShrinks
  <2>3. entries' \in [Paths -> Entry]
    <3>1. [entries[p] EXCEPT !.hasRemote = FALSE, !.conflict = TRUE] \in Entry
      BY <2>1 DEF Entry
    <3>2. \/ entries' = entries \/ entries' = [entries EXCEPT ![p] = NoEntry]
          \/ entries' = [entries EXCEPT ![p].hasRemote = FALSE, ![p].conflict = TRUE]
      BY <1>7 DEF DeleteNow
    <3> QED BY <3>1, <3>2, NoEntryType DEF TypeOK
  <2> QED BY <1>7, <2>2, <2>3 DEF DeleteNow, TypeOK
<1>15. ASSUME NEW k \in todo.checked, RemoveChecked(k) PROVE TypeOK'
  <2> DEFINE p == k.path
             e == entries[p]
  <2>1. p \in Paths /\ e \in Entry /\ local[p] \in Hash
    BY CheckedType DEF TypeOK
  <2>2. todo' \in Todo
    BY <1>15, <2>1, TodoShrinks DEF RemoveChecked
  <2>3. entries' \in [Paths -> Entry]
    <3>1. [e EXCEPT !.hasRemote = FALSE, !.conflict = TRUE] \in Entry
      BY <2>1 DEF Entry
    <3>2. \/ entries' = entries \/ entries' = [entries EXCEPT ![p] = NoEntry]
          \/ entries' = [entries EXCEPT ![p].hasRemote = FALSE, ![p].conflict = TRUE]
      BY <1>15 DEF RemoveChecked
    <3> QED BY <2>1, <3>1, <3>2, NoEntryType DEF TypeOK
  <2>4. local' \in [Paths -> Hash] /\ stale' \subseteq Paths
    <3>1. local' = [local EXCEPT ![p] = None] /\ stale' \subseteq stale \cup {p}
      BY <1>15 DEF RemoveChecked
    <3> QED BY <2>1, <3>1 DEF TypeOK, Hash
  <2>5. aside' \subseteq SetAside
    <3>1. aside' = aside
          \/ (local[p] # None
              /\ aside' = aside \cup {[path |-> p, entry |-> e, content |-> local[p]]})
      BY <1>15 DEF RemoveChecked
    <3>2. local[p] # None => [path |-> p, entry |-> e, content |-> local[p]] \in SetAside
      BY <2>1 DEF SetAside, Hash
    <3> QED BY <3>1, <3>2 DEF TypeOK
  <2> QED BY <1>15, <2>2, <2>3, <2>4, <2>5 DEF RemoveChecked, TypeOK
<1>16. ASSUME NEW k \in todo.checked, NEW o \in todo.fills, WriteFetched(k, o) PROVE TypeOK'
  <2> DEFINE p == o.path
  <2>1. p \in Paths /\ entries[p] \in Entry /\ o.row \in Row /\ o.row.hash \in Hash
        /\ o.row.ver \in Nat
    BY DEF TypeOK, Todo, Object, Row
  <2>2. todo' \in Todo
    BY <1>16, <2>1, TodoShrinks DEF WriteFetched
  <2>3. /\ local' \in [Paths -> Hash] /\ wasLocal' \in [Paths -> SUBSET Contents]
        /\ entries' \in [Paths -> Entry] /\ seen' \in [Paths -> Nat]
        /\ stale' \subseteq Paths /\ unannounced' \subseteq unannounced
    <3>1. CASE FetchedWritten(k, o)
      <4>1. [entries[p] EXCEPT !.base = o.row.hash, !.remote = o.row] \in Entry
        BY <2>1 DEF Entry
      <4>2. TreeTakes(p, o.row.hash)
        BY <3>1 DEF FetchedWritten
      <4>3. local' \in [Paths -> Hash] /\ wasLocal' \in [Paths -> SUBSET Contents]
        BY <2>1, <4>2, TreeTakesType
      <4>4. entries' = [entries EXCEPT ![p] = [entries[p] EXCEPT !.base = o.row.hash, !.remote = o.row]]
        BY <3>1 DEF FetchedWritten
      <4>5. /\ seen' = seen \/ seen' = [seen EXCEPT ![p] = o.row.ver]
            /\ stale' \subseteq stale \cup {p} /\ unannounced' \subseteq unannounced
        BY <3>1 DEF FetchedWritten, CaughtUp
      <4> QED BY <2>1, <4>1, <4>3, <4>4, <4>5 DEF TypeOK
    <3>2. CASE FetchedRefused(k, o)
      <4>1. [entries[p] EXCEPT !.conflict = TRUE] \in Entry
        BY <2>1 DEF Entry
      <4> QED BY <2>1, <3>2, <4>1 DEF FetchedRefused, TypeOK
    <3> QED BY <1>16, <3>1, <3>2 DEF WriteFetched
  <2> QED BY <1>16, <2>2, <2>3 DEF WriteFetched, TypeOK
<1>8. ASSUME NEW s \in todo.restores, RestoreNow(s) PROVE TypeOK'
  <2>1. s.path \in Paths /\ s.content \in Hash /\ s.entry \in Entry
    BY DEF TypeOK, Todo, SetAside, Hash
  <2>2. todo' \in Todo
    <3>1. \A S \in SUBSET SetAside : [todo EXCEPT !.restores = S] \in Todo
      BY DEF TypeOK, Todo
    <3>2. todo.restores \ {s} \in SUBSET SetAside
      BY DEF TypeOK, Todo
    <3> QED BY <1>8, <3>1, <3>2 DEF RestoreNow
  <2>3. local' \in [Paths -> Hash] /\ entries' \in [Paths -> Entry] /\ held' \subseteq Paths
    BY <1>8, <2>1 DEF RestoreNow, TypeOK
  <2> QED BY <1>8, <2>2, <2>3 DEF RestoreNow, TypeOK
<1>9. ASSUME NEW o \in todo.fills, ApplyFill(o) PROVE TypeOK'
  <2>1. o \in Object /\ todo.fills \ {o} \in SUBSET Object
    BY DEF TypeOK, Todo
  <2>2. ApplyFetched(o, todo.fills \ {o})
    BY <1>9 DEF ApplyFill
  <2>3. /\ entries' \in [Paths -> Entry] /\ todo' \in Todo
        /\ held' \subseteq Paths /\ aside' \subseteq SetAside
        /\ local' \in [Paths -> Hash] /\ wasLocal' \in [Paths -> SUBSET Contents]
        /\ seen' \in [Paths -> Nat] /\ stale' \subseteq Paths
        /\ unannounced' \subseteq unannounced
    BY <2>1, <2>2, ApplyFetchedType
  <2> QED BY <1>9, <2>3 DEF ApplyFill, TypeOK
<1>10. CASE PushAnswered
  <2> DEFINE p == call.path
             e == entries[p]
  <2>1. p \in Paths /\ e \in Entry /\ call \in Call /\ local[p] \in Hash
        /\ call.row \in Row /\ call.row.ver \in Nat
    BY <1>10 DEF PushAnswered, TypeOK, WellFormed, Call, Row
  <2>2. AfterPush(e, call, local[p]) \in Entry
    BY <2>1, AfterPushType
  <2>3. [kind |-> "push", paths |-> {p}] \in Job
    BY <2>1 DEF Job, Push
  <2> DEFINE again == PushAgain(e, call, local[p])
             after == AfterPush(e, call, local[p])
             own == OwnBytes(e, call)
  <2>4. /\ entries' = IF e.known THEN [entries EXCEPT ![p] = after] ELSE entries
        /\ queue' = IF e.known /\ again THEN Append(queue, [kind |-> "push", paths |-> {p}])
                    ELSE queue
        /\ seen' = IF own THEN [seen EXCEPT ![p] = call.row.ver] ELSE seen
        /\ stale' = IF own THEN CaughtUp(p, call.row.ver) ELSE stale
        /\ call' = NoCall
        /\ UNCHANGED <<local, saving, manifestId, held, aside, todo, link, wire, pulls,
                       serverVars, hostVars, synced, unannounced, wasLocal, count>>
    BY <1>10 DEF PushAnswered
  <2> HIDE DEF again, after, own, p
  <2>5. entries' \in [Paths -> Entry]
    BY <2>1, <2>2, <2>4 DEF TypeOK, after
  <2>6. queue' \in Seq(Job)
    BY <2>3, <2>4 DEF TypeOK
  <2>7. seen' \in [Paths -> Nat] /\ stale' \subseteq Paths
    BY <2>1, <2>4 DEF TypeOK, CaughtUp
  <2> QED BY <2>4, <2>5, <2>6, <2>7, NoCallType DEF TypeOK
<1>11. CASE KeepAnswered
  <2> DEFINE p == call.path
             e == entries[p]
             kept == [e EXCEPT !.conflict = FALSE, !.pending = FALSE, !.base = call.row.hash,
                               !.remote = IF e.hasRemote THEN call.row ELSE @,
                               !.localOnly = IF e.hasRemote THEN @ ELSE TRUE]
  <2>1. p \in Paths /\ e \in Entry /\ call.row \in Row
        /\ call.row.ver \in Nat /\ call.row.hash \in Hash
    BY <1>11 DEF KeepAnswered, TypeOK, WellFormed, Call, Row
  <2>2. kept \in Entry
    <3> HIDE DEF e
    <3>1. (IF e.hasRemote THEN call.row ELSE e.remote) \in Row
          /\ (IF e.hasRemote THEN e.localOnly ELSE TRUE) \in BOOLEAN
      BY <2>1 DEF Entry
    <3>2. \A r \in Row, h \in Hash, b \in BOOLEAN :
            [e EXCEPT !.conflict = FALSE, !.pending = FALSE, !.base = h,
                      !.remote = r, !.localOnly = b] \in Entry
      BY <2>1 DEF Entry
    <3> QED BY <2>1, <3>1, <3>2
  <2>3. /\ \/ entries' = entries \/ entries' = [entries EXCEPT ![p] = NoEntry]
           \/ entries' = [entries EXCEPT ![p] = kept]
        /\ seen' = IF call.ok THEN [seen EXCEPT ![p] = call.row.ver] ELSE seen
        /\ stale' = IF call.ok THEN CaughtUp(p, call.row.ver) ELSE stale
        /\ call' = NoCall
        /\ UNCHANGED <<local, saving, manifestId, held, aside, queue, todo, link, wire, pulls,
                       serverVars, hostVars, synced, unannounced, wasLocal, count>>
    BY <1>11 DEF KeepAnswered
  <2> HIDE DEF p, kept
  <2>4. entries' \in [Paths -> Entry]
    BY <2>1, <2>2, <2>3, NoEntryType DEF TypeOK
  <2>5. seen' \in [Paths -> Nat] /\ stale' \subseteq Paths
    BY <2>1, <2>3 DEF TypeOK, CaughtUp
  <2> QED BY <2>3, <2>4, <2>5, NoCallType DEF TypeOK
<1>12. CASE TakeAnswered
  <2> DEFINE p == call.path
             taken == [entries[p] EXCEPT !.conflict = FALSE, !.pending = FALSE,
                                         !.localOnly = FALSE, !.hasRemote = TRUE,
                                         !.base = call.row.hash, !.remote = call.row]
  <2>1. p \in Paths /\ entries[p] \in Entry /\ call.row \in Row
        /\ call.row.ver \in Nat /\ call.row.hash \in Hash
    BY <1>12 DEF TakeAnswered, TypeOK, WellFormed, Call, Row
  <2>2. taken \in Entry
    BY <2>1 DEF Entry
  <2>3. /\ TreeTakes(p, call.row.hash)
        /\ \/ entries' = entries \/ entries' = [entries EXCEPT ![p] = NoEntry]
           \/ entries' = [entries EXCEPT ![p] = taken]
        /\ seen' = [seen EXCEPT ![p] = call.row.ver]
        /\ stale' = CaughtUp(p, call.row.ver)
        /\ unannounced' \subseteq unannounced
        /\ call' = NoCall
        /\ UNCHANGED <<saving, manifestId, held, aside, queue, todo, link, wire, pulls,
                       serverVars, hostVars, synced, count>>
    BY <1>12 DEF TakeAnswered
  <2> HIDE DEF p, taken
  <2>4. entries' \in [Paths -> Entry]
    BY <2>1, <2>2, <2>3, NoEntryType DEF TypeOK
  <2>5. seen' \in [Paths -> Nat] /\ stale' \subseteq Paths
    BY <2>1, <2>3 DEF TypeOK, CaughtUp
  <2>6. local' \in [Paths -> Hash] /\ wasLocal' \in [Paths -> SUBSET Contents]
    BY <2>1, <2>3, TreeTakesType
  <2> QED BY <2>3, <2>4, <2>5, <2>6, NoCallType DEF TypeOK
<1>13. CASE FetchAnswered
  <2> DEFINE o == [kind |-> "object", path |-> call.path, row |-> call.row, delta |-> None]
  <2>1. o \in Object
    BY <1>13 DEF FetchAnswered, TypeOK, WellFormed, Call, Object, Hash
  <2>2. ApplyFetched(o, {}) /\ {} \in SUBSET Object
    BY <1>13 DEF FetchAnswered
  <2>3. /\ entries' \in [Paths -> Entry] /\ todo' \in Todo
        /\ held' \subseteq Paths /\ aside' \subseteq SetAside
        /\ local' \in [Paths -> Hash] /\ wasLocal' \in [Paths -> SUBSET Contents]
        /\ seen' \in [Paths -> Nat] /\ stale' \subseteq Paths
        /\ unannounced' \subseteq unannounced
    <3> HIDE DEF o
    <3> QED BY <2>1, <2>2, ApplyFetchedType
  <2> QED BY <1>13, <2>3, NoCallType DEF FetchAnswered, TypeOK
<1>14. CASE SyncAnswered
  <2> DEFINE listed == {p \in Paths : call.rows[p].hash # None}
             fresh(p) == [entries[p] EXCEPT !.pushed = 0]
             R == [p \in Paths |->
                     IF p \in listed
                     THEN ReconcileRow(fresh(p), local[p], call.rows[p], call.manifest)
                     ELSE IF entries[p].known THEN ReconcileDelete(fresh(p), local[p])
                     ELSE [entry |-> entries[p], act |-> "none"]]
  <2>1. /\ Execute(R, call.rows, {}, queue)
        /\ seen' = SeenInRows(listed, call.rows)
        /\ manifestId' = call.manifest
        /\ synced' = TRUE /\ stale' = {p \in stale : call.rows[p].ver < hostVer[p]}
        /\ call' = NoCall /\ unannounced' \subseteq unannounced
        /\ UNCHANGED <<local, saving, link, wire, serverVars, hostVars, wasLocal, count>>
    BY <1>14 DEF SyncAnswered
  <2>2. call.rows \in [Paths -> Row] /\ call.manifest \in Nat
    BY DEF TypeOK, WellFormed, Call
  <2>3. \A p \in Paths : R[p].entry \in Entry
    <3> SUFFICES ASSUME NEW p \in Paths PROVE R[p].entry \in Entry
      OBVIOUS
    <3>1. entries[p] \in Entry /\ local[p] \in Hash /\ call.rows[p] \in Row
      BY <2>2 DEF TypeOK
    <3>2. fresh(p) \in Entry
      BY <3>1 DEF Entry
    <3> HIDE DEF listed, fresh
    <3>3. ReconcileRow(fresh(p), local[p], call.rows[p], call.manifest).entry \in Entry
      BY <2>2, <3>1, <3>2, ReconcileRowType
    <3>4. ReconcileDelete(fresh(p), local[p]).entry \in Entry
      BY <3>1, <3>2, ReconcileDeleteType
    <3> QED BY <3>1, <3>3, <3>4
  <2> HIDE DEF listed, R
  <2>4. /\ entries' \in [Paths -> Entry] /\ queue' \in Seq(Job) /\ pulls' \in Seq(Pull)
        /\ todo' \in Todo /\ held' \subseteq Paths /\ aside' \subseteq SetAside
    <3>1. queue \in Seq(Job) /\ {} \in SUBSET Paths
      BY DEF TypeOK
    <3> QED BY <2>1, <2>2, <2>3, <3>1, ExecuteType
  <2>5. seen' \in [Paths -> Nat]
    BY <2>1, <2>2 DEF SeenInRows, TypeOK, Row
  <2> QED BY <2>1, <2>2, <2>4, <2>5, NoCallType DEF TypeOK
<1> QED
  BY <1>1, <1>2, <1>3, <1>4, <1>5, <1>6, <1>7, <1>8, <1>9, <1>10, <1>11, <1>12, <1>13, <1>14,
     <1>15, <1>16
  DEF Worker

(* The initial states are well typed. *)
LEMMA InitTypeOK == Init => TypeOK
<1> SUFFICES ASSUME Init PROVE TypeOK
  OBVIOUS
<1>1. \A p \in Paths : local[p] \in Hash /\ host[p] \in Hash
  BY DEF Init
<1>2. entries \in [Paths -> Entry]
  <2>1. \A h \in Hash : [NoEntry EXCEPT !.known = TRUE, !.hasRemote = TRUE, !.base = h,
                                        !.remote = [hash |-> h, ver |-> 0]] \in Entry
    BY NoEntryType DEF Entry, Row
  <2> QED BY <1>1, <2>1, NoEntryType DEF Init
<1>3. sent \in [Paths -> Row]
  BY DEF Init, NoRow, Row, Hash
<1>4. wasLocal \in [Paths -> SUBSET Contents] /\ wasHost \in [Paths -> SUBSET Contents]
  BY <1>1 DEF Init, Hash
<1>5. count \in Count
  BY DEF Init, Count
<1>6. hostVer \in [Paths -> Nat] /\ seen \in [Paths -> Nat]
  BY DEF Init
<1>7. queue \in Seq(Job) /\ wire \in Seq(Object \cup WatchDelta \cup Manifest)
      /\ pulls \in Seq(Pull)
  <2>1. queue = <<>> /\ wire = <<>> /\ pulls = <<>>
    BY DEF Init
  <2> QED BY <2>1
<1>8. WellFormed(call) /\ todo \in Todo
  BY NoCallType DEF Init
<1>9. /\ local \in [Paths -> Hash] /\ host \in [Paths -> Hash]
      /\ saving \subseteq Paths /\ held \subseteq Paths /\ aside \subseteq SetAside
      /\ manifestId \in Nat /\ nextId \in Nat \ {0}
      /\ link \in {"up", "down"} /\ primed \in BOOLEAN /\ late \subseteq Write
      /\ touched \subseteq Paths /\ synced \in BOOLEAN /\ stale \subseteq Paths
      /\ unannounced \subseteq Paths
  <2>1. /\ saving = {} /\ held = {} /\ aside = {} /\ late = {} /\ touched = {} /\ stale = {}
        /\ unannounced = {} /\ manifestId = 0 /\ nextId = 1 /\ link = "down"
        /\ primed = FALSE /\ synced = FALSE
        /\ local \in [Paths -> Hash] /\ host \in [Paths -> Hash]
    BY DEF Init
  <2>2. primed \in BOOLEAN /\ synced \in BOOLEAN
    BY <2>1
  <2>3. manifestId \in Nat /\ nextId \in Nat \ {0} /\ link \in {"up", "down"}
    BY <2>1
  <2> QED BY <2>1, <2>2, <2>3
<1> QED
  BY <1>2, <1>3, <1>4, <1>5, <1>6, <1>7, <1>8, <1>9 DEF TypeOK

(* TypeOK is inductive. *)
THEOREM TypeCorrect == Spec => []TypeOK
<1>1. TypeOK /\ UNCHANGED vars => TypeOK'
  BY DEF TypeOK, vars, hostVars, serverVars
<1>2. TypeOK /\ [Next]_vars => TypeOK'
  BY <1>1, UserTypeOK, ServerTypeOK, LinkTypeOK, WorkerTypeOK DEF Next
<1> QED
  BY <1>2, InitTypeOK, PTL DEF Spec

-----------------------------------------------------------------------------
(***************************************************************************)
(* Where the bytes of the sync come from.  The safety properties of        *)
(* MirrorSync speak of a base, a row or a precondition at the moment it is *)
(* used; Lineage says the same of every place in which one may wait until  *)
(* then: the records, the worker's queue and plan, the call, the lanes,    *)
(* the writes nobody waits for, the deletes set aside.                     *)
(***************************************************************************)
HostHeld(p) == wasHost[p] \cup {None}
LocalHeld(p) == wasLocal[p] \cup {None}

(* A record: base held by both sides, row by the host, unanswered pushes by tree/. *)
TracedEntry ==
    [p \in Paths |-> {e \in Entry : /\ e.base \in LocalHeld(p) \cap HostHeld(p)
                                    /\ e.remote.hash \in HostHeld(p)
                                    /\ e.unack \in Seq(wasLocal[p])}]

TracedRows == {rows \in [Paths -> Row] : \A p \in Paths : rows[p].hash \in HostHeld(p)}
TracedObject == {o \in Object : o.row.hash \in HostHeld(o.path)}
TracedDelta == {d \in WatchDelta : d.rows \in TracedRows}
TracedJob == Note \cup Push \cup Approve \cup Sync \cup TracedObject \cup TracedDelta
TracedFrame == TracedObject \cup TracedDelta \cup Manifest
TracedPull == {u \in Pull : u.read \in Seq(TracedObject)}
TracedAside ==
    {s \in SetAside : s.entry \in TracedEntry[s.path] /\ s.content \in wasLocal[s.path]}
TracedTodo == {t \in Todo : t.restores \subseteq TracedAside /\ t.fills \subseteq TracedObject}

(* A write sends bytes of tree/, a push over a version tree/ has had; the    *)
(* answer shows what the host has held, and on success what was sent.        *)
TracedCall ==
    {c \in Call :
       /\ WellFormed(c)
       /\ c.rows \in TracedRows
       /\ c.path \in Paths => c.row.hash \in HostHeld(c.path)
       /\ c.job \in {"push", "keep"} => c.content \in LocalHeld(c.path)
       /\ c.job = "push" => c.expect \in LocalHeld(c.path)
       /\ c.ok => c.st \in {"written", "answered"} /\ c.row.hash = c.content}

TracedWrite == {r \in Write : r.job = "push" => r.expect \in LocalHeld(r.path)}

Lineage ==
    /\ \A p \in Paths : local[p] \in LocalHeld(p) /\ host[p] \in HostHeld(p)
    /\ \A p \in Paths : entries[p] \in TracedEntry[p]
    /\ queue \in Seq(TracedJob)
    /\ wire \in Seq(TracedFrame)
    /\ pulls \in Seq(TracedPull)
    /\ aside \subseteq TracedAside
    /\ todo \in TracedTodo
    /\ call \in TracedCall
    /\ late \subseteq TracedWrite
-----------------------------------------------------------------------------
(* What a record holds when it is traced. *)
LEMMA TracedEntryDef ==
  ASSUME NEW p \in Paths
  PROVE  \A e : e \in TracedEntry[p] <=>
           /\ e \in Entry /\ e.base \in LocalHeld(p) /\ e.base \in HostHeld(p)
           /\ e.remote.hash \in HostHeld(p) /\ e.unack \in Seq(wasLocal[p])
BY DEF TracedEntry

(* A list of elements of a set is one of any larger set. *)
LEMMA SeqGrows ==
  ASSUME NEW S, NEW T, S \subseteq T, NEW s \in Seq(S)
  PROVE  s \in Seq(T)
OBVIOUS

(* The histories only grow. *)
Grown == \A p \in Paths : wasLocal[p] \subseteq wasLocal'[p] /\ wasHost[p] \subseteq wasHost'[p]

(* What was traced stays traced, whatever the step adds to the histories. *)
LEMMA StaysTraced ==
  ASSUME TypeOK, Grown
  PROVE  /\ \A p \in Paths : LocalHeld(p) \subseteq LocalHeld(p)'
                          /\ HostHeld(p) \subseteq HostHeld(p)'
                          /\ TracedEntry[p] \subseteq TracedEntry'[p]
         /\ TracedRows \subseteq TracedRows' /\ TracedObject \subseteq TracedObject'
         /\ TracedDelta \subseteq TracedDelta' /\ TracedJob \subseteq TracedJob'
         /\ TracedFrame \subseteq TracedFrame' /\ TracedPull \subseteq TracedPull'
         /\ TracedAside \subseteq TracedAside' /\ TracedTodo \subseteq TracedTodo'
         /\ TracedCall \subseteq TracedCall' /\ TracedWrite \subseteq TracedWrite'
<1>1. \A p \in Paths : LocalHeld(p) \subseteq LocalHeld(p)' /\ HostHeld(p) \subseteq HostHeld(p)'
  BY DEF Grown, LocalHeld, HostHeld
<1>2. ASSUME NEW p \in Paths PROVE TracedEntry[p] \subseteq TracedEntry'[p]
  <2> SUFFICES ASSUME NEW e \in TracedEntry[p] PROVE e \in TracedEntry'[p]
    OBVIOUS
  <2>1. /\ e \in Entry /\ e.base \in LocalHeld(p) /\ e.base \in HostHeld(p)
        /\ e.remote.hash \in HostHeld(p) /\ e.unack \in Seq(wasLocal[p])
    BY DEF TracedEntry
  <2>2. e.unack \in Seq(wasLocal'[p])
    BY <2>1, SeqGrows DEF Grown
  <2>3. e.base \in LocalHeld(p)' /\ e.base \in HostHeld(p)' /\ e.remote.hash \in HostHeld(p)'
    BY <1>1, <2>1
  <2> QED BY <2>1, <2>2, <2>3 DEF TracedEntry
<1>3. TracedRows \subseteq TracedRows'
  BY <1>1 DEF TracedRows
<1>4. TracedObject \subseteq TracedObject'
  BY <1>1 DEF TracedObject, Object
<1>5. TracedDelta \subseteq TracedDelta'
  BY <1>3 DEF TracedDelta
<1>6. TracedJob \subseteq TracedJob' /\ TracedFrame \subseteq TracedFrame'
  BY <1>4, <1>5 DEF TracedJob, TracedFrame
<1>7. TracedPull \subseteq TracedPull'
  BY <1>4, SeqGrows DEF TracedPull
<1>8. TracedAside \subseteq TracedAside'
  <2> SUFFICES ASSUME NEW s \in TracedAside PROVE s \in TracedAside'
    OBVIOUS
  <2>1. s \in SetAside /\ s.path \in Paths /\ s.entry \in TracedEntry[s.path]
        /\ s.content \in wasLocal[s.path]
    BY DEF TracedAside, SetAside
  <2>2. s.entry \in TracedEntry'[s.path] /\ s.content \in wasLocal'[s.path]
    BY <1>2, <2>1 DEF Grown
  <2> QED BY <2>1, <2>2 DEF TracedAside
<1>9. TracedTodo \subseteq TracedTodo'
  BY <1>4, <1>8 DEF TracedTodo
<1>10. TracedWrite \subseteq TracedWrite'
  BY <1>1 DEF TracedWrite, Write
<1>11. TracedCall \subseteq TracedCall'
  <2> SUFFICES ASSUME NEW c \in TracedCall PROVE c \in TracedCall'
    OBVIOUS
  <2>1. /\ c \in Call /\ WellFormed(c) /\ c.rows \in TracedRows
        /\ c.path \in Paths => c.row.hash \in HostHeld(c.path)
        /\ c.job \in {"push", "keep"} => c.content \in LocalHeld(c.path)
        /\ c.job = "push" => c.expect \in LocalHeld(c.path)
        /\ c.ok => c.st \in {"written", "answered"} /\ c.row.hash = c.content
    BY DEF TracedCall
  <2>2. c.job \in {"push", "keep"} => c.path \in Paths
    BY <2>1 DEF WellFormed
  <2>3. /\ c.rows \in TracedRows'
        /\ c.path \in Paths => c.row.hash \in HostHeld(c.path)'
        /\ c.job \in {"push", "keep"} => c.content \in LocalHeld(c.path)'
        /\ c.job = "push" => c.expect \in LocalHeld(c.path)'
    BY <1>1, <1>3, <2>1, <2>2
  <2> QED BY <2>1, <2>3 DEF TracedCall
<1> QED
  BY <1>1, <1>2, <1>3, <1>4, <1>5, <1>6, <1>7, <1>8, <1>9, <1>10, <1>11

(* The new values are traced, in the histories before the step or after it. *)
TracedNext ==
    /\ \A p \in Paths : /\ local'[p] \in LocalHeld(p) \cup LocalHeld(p)'
                        /\ host'[p] \in HostHeld(p) \cup HostHeld(p)'
                        /\ entries'[p] \in TracedEntry[p] \cup TracedEntry'[p]
    /\ queue' \in Seq(TracedJob)
    /\ wire' \in Seq(TracedFrame)
    /\ pulls' \in Seq(TracedPull)
    /\ aside' \subseteq TracedAside
    /\ todo' \in TracedTodo
    /\ call' \in TracedCall \cup TracedCall'
    /\ late' \subseteq TracedWrite

(* That is enough for the next state's lineage. *)
LEMMA NextTraced ==
  ASSUME TypeOK, Grown, TracedNext
  PROVE  Lineage'
<1>1. queue' \in Seq(TracedJob') /\ wire' \in Seq(TracedFrame') /\ pulls' \in Seq(TracedPull')
  BY StaysTraced, SeqGrows DEF TracedNext
<1>2. \A p \in Paths : local'[p] \in LocalHeld(p)' /\ host'[p] \in HostHeld(p)'
  BY StaysTraced DEF TracedNext
<1>3. \A p \in Paths : entries'[p] \in TracedEntry'[p]
  BY StaysTraced DEF TracedNext
<1>4. aside' \subseteq TracedAside' /\ todo' \in TracedTodo' /\ call' \in TracedCall'
      /\ late' \subseteq TracedWrite'
  BY StaysTraced DEF TracedNext
<1> QED
  BY <1>1, <1>2, <1>3, <1>4 DEF Lineage

-----------------------------------------------------------------------------
(* The operators *)

(* What tree/ and the host have held are hashes. *)
LEMMA HeldType ==
  ASSUME TypeOK, NEW p \in Paths
  PROVE  /\ LocalHeld(p) \subseteq Hash /\ HostHeld(p) \subseteq Hash
         /\ None \in LocalHeld(p) /\ None \in HostHeld(p)
BY DEF TypeOK, LocalHeld, HostHeld, Hash

(* The empty record and the empty call come from nowhere. *)
LEMMA NothingTraced ==
  /\ \A p \in Paths : NoEntry \in TracedEntry[p]
  /\ NoCall \in TracedCall
  /\ NoRow.hash = None
<1>1. NoRow.hash = None /\ NoRow \in Row
  BY DEF NoRow, Row, Hash
<1>2. ASSUME NEW p \in Paths PROVE NoEntry \in TracedEntry[p]
  <2>1. /\ NoEntry.base = None /\ NoEntry.remote.hash = None /\ NoEntry.unack = <<>>
        /\ <<>> \in Seq(wasLocal[p])
    BY DEF NoEntry, NoRow
  <2>2. None \in LocalHeld(p) /\ None \in HostHeld(p)
    BY DEF LocalHeld, HostHeld
  <2> QED BY <2>1, <2>2, NoEntryType, TracedEntryDef
<1>3. NoCall \in TracedCall
  <2>1. [p \in Paths |-> NoRow] \in TracedRows
    BY <1>1 DEF TracedRows, HostHeld
  <2> QED BY <1>1, <2>1, NoCallType DEF NoCall, TracedCall, HostHeld
<1> QED
  BY <1>1, <1>2, <1>3

(* ReconcileRowLocked adopts the row as the base only where tree/ holds it. *)
LEMMA ReconcileRowTraced ==
  ASSUME TypeOK, NEW p \in Paths, NEW e \in TracedEntry[p], NEW l \in LocalHeld(p),
         NEW row \in Row, row.hash \in HostHeld(p), NEW id \in Nat
  PROVE  ReconcileRow(e, l, row, id).entry \in TracedEntry[p]
<1> DEFINE r == ReconcileRow(e, l, row, id).entry
<1>1. /\ e \in Entry /\ e.base \in LocalHeld(p) /\ e.base \in HostHeld(p)
      /\ e.remote.hash \in HostHeld(p) /\ e.unack \in Seq(wasLocal[p])
  BY TracedEntryDef
<1>2. l \in Hash
  BY HeldType
<1>3. r \in Entry
  BY <1>1, <1>2, ReconcileRowType
<1>4. /\ r.base \in {e.base, None} \/ (r.base = row.hash /\ l = row.hash)
      /\ r.remote \in {e.remote, row}
      /\ r.unack = e.unack
  <2>1. e.pushed \in Nat
    BY <1>1 DEF Entry
  <2>2. CASE id <= e.pushed
    BY <2>1, <2>2 DEF ReconcileRow
  <2>3. CASE id > e.pushed /\ e.pending
    BY <1>1, <2>1, <2>3 DEF ReconcileRow, Entry
  <2>4. CASE id > e.pushed /\ ~e.pending /\ e.conflict
    BY <1>1, <2>1, <2>4 DEF ReconcileRow, Entry
  <2>5. CASE id > e.pushed /\ ~e.pending /\ ~e.conflict
    BY <1>1, <2>1, <2>5 DEF ReconcileRow, Entry, CheckLocal
  <2> QED BY <2>1, <2>2, <2>3, <2>4, <2>5
<1> HIDE DEF r
<1>5. r \in TracedEntry[p]
  BY <1>1, <1>3, <1>4, HeldType, TracedEntryDef
<1> QED
  BY <1>5 DEF r

(* ReconcileDeleteLocked keeps the base, or drops the record. *)
LEMMA ReconcileDeleteTraced ==
  ASSUME TypeOK, NEW p \in Paths, NEW e \in TracedEntry[p], NEW l \in LocalHeld(p)
  PROVE  ReconcileDelete(e, l).entry \in TracedEntry[p]
<1> DEFINE r == ReconcileDelete(e, l).entry
<1>1. /\ e \in Entry /\ e.base \in LocalHeld(p) /\ e.base \in HostHeld(p)
      /\ e.remote.hash \in HostHeld(p) /\ e.unack \in Seq(wasLocal[p])
  BY TracedEntryDef
<1>2. r \in Entry
  BY <1>1, HeldType, ReconcileDeleteType
<1>3. r = NoEntry \/ (r.base = e.base /\ r.remote = e.remote /\ r.unack = e.unack)
  BY <1>1 DEF ReconcileDelete, Entry, CheckLocal
<1> HIDE DEF r
<1>4. r \in TracedEntry[p]
  BY <1>1, <1>2, <1>3, NothingTraced, TracedEntryDef
<1> QED
  BY <1>4 DEF r

(* PushNow adopts the answer's bytes as the base only where they are its own. *)
LEMMA AfterPushTraced ==
  ASSUME TypeOK, NEW c \in TracedCall, c.job = "push",
         NEW e \in TracedEntry[c.path], NEW l \in Hash
  PROVE  AfterPush(e, c, l) \in TracedEntry[c.path]
<1> DEFINE r == AfterPush(e, c, l)
           p == c.path
<1>1. /\ c \in Call /\ p \in Paths /\ c.row.hash \in HostHeld(p) /\ c.content \in LocalHeld(p)
      /\ c.ok => c.row.hash = c.content
  BY DEF TracedCall, WellFormed
<1> HIDE DEF p
<1>2. /\ e \in Entry /\ e.base \in LocalHeld(p) /\ e.base \in HostHeld(p)
      /\ e.remote.hash \in HostHeld(p) /\ e.unack \in Seq(wasLocal[p])
  BY <1>1, TracedEntryDef DEF p
<1>3. r \in Entry
  BY <1>1, <1>2, AfterPushType
<1>4. /\ r.base = e.base
           \/ (r.base = c.row.hash
               /\ (c.ok \/ c.row.hash = c.content \/ Contains(e.unack, c.row.hash)))
      /\ r.remote \in {e.remote, c.row}
      /\ r.unack \in {e.unack, <<>>}
  BY <1>2 DEF AfterPush, Entry
<1>5. Contains(e.unack, c.row.hash) => c.row.hash \in LocalHeld(p)
  BY <1>2 DEF Contains, LocalHeld
<1> HIDE DEF r
<1>6. r.unack \in Seq(wasLocal[p])
  <2>1. <<>> \in Seq(wasLocal[p])
    OBVIOUS
  <2> QED BY <1>2, <1>4, <2>1
<1>7. r \in TracedEntry[p]
  BY <1>1, <1>2, <1>3, <1>4, <1>5, <1>6, TracedEntryDef
<1> QED
  BY <1>7 DEF r, p

-----------------------------------------------------------------------------
(* The shared parts of actions *)

(* tree/ and the host remember what they are given. *)
LEMMA TreeTakesTraced ==
  ASSUME TypeOK, Lineage, NEW p \in Paths, NEW c, TreeTakes(p, c)
  PROVE  \A q \in Paths : /\ wasLocal[q] \subseteq wasLocal'[q]
                          /\ local'[q] \in LocalHeld(q)'
                          /\ local'[p] = c
<1>1. local \in [Paths -> Hash] /\ wasLocal \in [Paths -> SUBSET Contents]
  BY DEF TypeOK
<1>2. \A q \in Paths : local[q] \in wasLocal[q] \cup {None}
  BY DEF Lineage, LocalHeld
<1> QED
  BY <1>1, <1>2 DEF TreeTakes, LocalHeld

(* A host file is written: its bytes are among those the host has held. *)
LEMMA HostTakesTraced ==
  ASSUME TypeOK, Lineage, NEW p \in Paths, NEW c, HostTakes(p, c)
  PROVE  \A q \in Paths : /\ wasHost[q] \subseteq wasHost'[q]
                          /\ host'[q] \in HostHeld(q)'
                          /\ host'[p] = c
<1>1. host \in [Paths -> Hash] /\ wasHost \in [Paths -> SUBSET Contents]
  BY DEF TypeOK
<1>2. \A q \in Paths : host[q] \in wasHost[q] \cup {None}
  BY DEF Lineage, HostHeld
<1> QED
  BY <1>1, <1>2 DEF HostTakes, HostHeld

(* HoldMassDeleteLocked. *)
LEMMA PlanDeletesTraced ==
  ASSUME TypeOK, Lineage, NEW deletes \in SUBSET Paths, NEW fills \in SUBSET TracedObject,
         NEW h \in SUBSET Paths, PlanDeletes(deletes, fills, h)
  PROVE  todo' \in TracedTodo /\ aside' \subseteq TracedAside
<1>1. PICK kept \in SUBSET aside :
        \/ /\ todo' = [deletes |-> deletes, undoable |-> deletes # {}, restores |-> {},
                       fills |-> fills, checked |-> {}]
           /\ held' = h /\ aside' = kept
        \/ /\ deletes # {}
           /\ todo' = [deletes |-> {}, undoable |-> FALSE, restores |-> kept,
                       fills |-> fills, checked |-> {}]
           /\ held' = h \cup deletes /\ aside' = {}
  BY DEF PlanDeletes
<1>2. kept \subseteq TracedAside /\ fills \in SUBSET Object
  BY DEF Lineage, TracedObject
<1>3. todo' \in Todo
  BY <1>2, PlanDeletesType
<1>4. todo'.restores \subseteq TracedAside /\ todo'.fills = fills /\ aside' \subseteq TracedAside
  BY <1>1, <1>2
<1> QED
  BY <1>3, <1>4 DEF TracedTodo

(* Execute. *)
LEMMA ExecuteTraced ==
  ASSUME TypeOK, Lineage, NEW R, NEW rows \in TracedRows, NEW h \in SUBSET Paths,
         NEW q \in Seq(TracedJob), \A p \in Paths : R[p].entry \in TracedEntry[p],
         Execute(R, rows, h, q)
  PROVE  /\ \A p \in Paths : entries'[p] \in TracedEntry[p]
         /\ queue' \in Seq(TracedJob) /\ pulls' \in Seq(TracedPull)
         /\ todo' \in TracedTodo /\ aside' \subseteq TracedAside
<1> DEFINE planned(a) == {p \in Paths : R[p].act = a}
           filling(S) == {[kind |-> "object", path |-> p, row |-> rows[p],
                           delta |-> None] : p \in S}
<1>1. \A p \in Paths : entries'[p] \in TracedEntry[p]
  BY DEF Execute
<1>2. queue' \in Seq(TracedJob)
  <2>1. [kind |-> "push", paths |-> planned("push")] \in TracedJob
    BY DEF TracedJob, Push
  <2> QED BY <2>1 DEF Execute
<1>3. PICK filled \in SUBSET {p \in planned("pull") : rows[p].hash \in Stored} :
        /\ PlanDeletes(planned("delete"), filling(filled), h)
        /\ pulls' = IF link = "up" /\ planned("pull") # filled
                    THEN Append(pulls, [paths |-> planned("pull") \ filled,
                                        base |-> [p \in Paths |-> R[p].entry.base],
                                        read |-> <<>>])
                    ELSE pulls
  BY DEF Execute
<1>4. filling(filled) \in SUBSET TracedObject
  <2>1. ASSUME NEW p \in Paths
        PROVE  [kind |-> "object", path |-> p, row |-> rows[p], delta |-> None] \in TracedObject
    BY DEF TracedRows, TracedObject, Object, Hash
  <2> QED BY <2>1
<1>5. todo' \in TracedTodo /\ aside' \subseteq TracedAside
  <2> HIDE DEF filling
  <2>1. planned("delete") \in SUBSET Paths
    OBVIOUS
  <2> QED BY <1>3, <1>4, <2>1, PlanDeletesTraced
<1>6. pulls' \in Seq(TracedPull)
  <2>1. [p \in Paths |-> R[p].entry.base] \in [Paths -> Hash]
    BY TracedEntryDef DEF Entry
  <2>2. [paths |-> planned("pull") \ filled, base |-> [p \in Paths |-> R[p].entry.base],
         read |-> <<>>] \in TracedPull
    <3>1. <<>> \in Seq(Object) /\ <<>> \in Seq(TracedObject)
      OBVIOUS
    <3>2. planned("pull") \ filled \in SUBSET Paths
      OBVIOUS
    <3> HIDE DEF planned
    <3> QED BY <2>1, <3>1, <3>2 DEF TracedPull, Pull
  <2> QED BY <1>3, <2>2 DEF Lineage
<1> QED
  BY <1>1, <1>2, <1>5, <1>6

(* A record that is parked is as traced as it was. *)
LEMMA ParkedTraced ==
  ASSUME NEW p \in Paths, NEW e \in TracedEntry[p]
  PROVE  /\ [e EXCEPT !.conflict = TRUE] \in TracedEntry[p]
         /\ [e EXCEPT !.hasRemote = FALSE, !.conflict = TRUE] \in TracedEntry[p]
<1>1. /\ e \in Entry /\ e.base \in LocalHeld(p) /\ e.base \in HostHeld(p)
      /\ e.remote.hash \in HostHeld(p) /\ e.unack \in Seq(wasLocal[p])
  BY TracedEntryDef
<1> DEFINE n == [e EXCEPT !.conflict = TRUE]
           m == [e EXCEPT !.hasRemote = FALSE, !.conflict = TRUE]
<1>2. n \in Entry /\ n.base = e.base /\ n.remote = e.remote /\ n.unack = e.unack
  BY <1>1 DEF Entry
<1>3. m \in Entry /\ m.base = e.base /\ m.remote = e.remote /\ m.unack = e.unack
  BY <1>1 DEF Entry
<1> HIDE DEF n, m
<1>4. n \in TracedEntry[p] /\ m \in TracedEntry[p]
  BY <1>1, <1>2, <1>3, TracedEntryDef
<1> QED
  BY <1>4 DEF n, m

(* What is left of the job is traced as it was. *)
LEMMA TodoTraced ==
  ASSUME TypeOK, Lineage, NEW p \in Paths, NEW o
  PROVE  /\ AfterDelete(p) \in TracedTodo
         /\ [todo EXCEPT !.fills = @ \ {o}, !.checked = {}] \in TracedTodo
         /\ [todo EXCEPT !.checked = {[path |-> p, was |-> local[p]]}] \in TracedTodo
<1>1. todo \in Todo /\ todo.restores \subseteq TracedAside /\ todo.fills \subseteq TracedObject
      /\ local[p] \in Hash
  BY DEF Lineage, TracedTodo, TypeOK
<1>2. AfterDelete(p).restores = todo.restores /\ AfterDelete(p).fills = todo.fills
  BY <1>1 DEF AfterDelete, Todo
<1>3. AfterDelete(p) \in TracedTodo
  BY <1>1, <1>2, TodoShrinks DEF TracedTodo
<1> DEFINE t == [todo EXCEPT !.fills = @ \ {o}, !.checked = {}]
           u == [todo EXCEPT !.checked = {[path |-> p, was |-> local[p]]}]
<1>4. t \in Todo /\ t.restores = todo.restores /\ t.fills \subseteq todo.fills
  BY <1>1, TodoShrinks DEF Todo
<1>5. u \in Todo /\ u.restores = todo.restores /\ u.fills = todo.fills
  BY <1>1 DEF Todo, Compare
<1> HIDE DEF t, u
<1>6. t \in TracedTodo /\ u \in TracedTodo
  BY <1>1, <1>4, <1>5 DEF TracedTodo
<1> QED
  BY <1>3, <1>6 DEF t, u

(* ApplyFetched up to its check. *)
LEMMA ApplyFetchedTraced ==
  ASSUME TypeOK, Lineage, NEW o \in TracedObject, NEW fills \in SUBSET TracedObject,
         ApplyFetched(o, fills), UNCHANGED wasHost
  PROVE  /\ Grown
         /\ \A q \in Paths : local'[q] \in LocalHeld(q) /\ entries'[q] \in TracedEntry[q]
         /\ todo' \in TracedTodo /\ aside' \subseteq TracedAside
<1> DEFINE p == o.path
           e == entries[p]
           f == Fetched(e, local[p], o)
           gone == e.known /\ e.hasRemote /\ ~e.pending /\ ~e.conflict
           r == IF gone THEN ReconcileDelete(e, local[p]) ELSE [entry |-> e, act |-> "none"]
<1>1. /\ p \in Paths /\ o.row \in Row /\ o.row.hash \in HostHeld(p)
      /\ e \in TracedEntry[p] /\ e \in Entry /\ local[p] \in LocalHeld(p)
      /\ entries \in [Paths -> Entry] /\ fills \in SUBSET Object
  BY DEF TracedObject, Object, TypeOK, Lineage
<1>2. CASE o.row.hash = None
  <2>1. /\ entries' = [entries EXCEPT ![p] = r.entry]
        /\ PlanDeletes(IF r.act = "delete" THEN {p} ELSE {}, fills, held)
        /\ UNCHANGED <<local, wasLocal>>
    BY <1>2 DEF ApplyFetched
  <2>2. r.entry \in TracedEntry[p]
    BY <1>1, ReconcileDeleteTraced
  <2>3. (IF r.act = "delete" THEN {p} ELSE {}) \in SUBSET Paths /\ held \in SUBSET Paths
    BY <1>1 DEF TypeOK
  <2>4. todo' \in TracedTodo /\ aside' \subseteq TracedAside
    BY <2>1, <2>3, PlanDeletesTraced
  <2> HIDE DEF p, r
  <2>5. \A q \in Paths : entries'[q] \in TracedEntry[q]
    BY <1>1, <2>1, <2>2 DEF Lineage
  <2> QED BY <2>1, <2>4, <2>5 DEF Lineage, Grown
<1>3. CASE o.row.hash # None
  <2>1. /\ entries' = entries \/ entries' = [entries EXCEPT ![p].conflict = TRUE]
        /\ \/ todo' = [todo EXCEPT !.fills = fills \cup {o},
                                   !.checked = {[path |-> p, was |-> local[p]]}]
           \/ todo' = [todo EXCEPT !.fills = fills]
        /\ UNCHANGED <<aside, local, wasLocal>>
    BY <1>3 DEF ApplyFetched
  <2>2. todo' \in TracedTodo /\ aside' \subseteq TracedAside
    <3>1. todo \in Todo /\ todo.restores \subseteq TracedAside
      BY DEF Lineage, TracedTodo
    <3>2. todo' \in Todo
      BY <1>1, ApplyFetchedType DEF TracedObject
    <3>3. todo'.restores = todo.restores /\ todo'.fills \subseteq fills \cup {o}
      BY <2>1, <3>1 DEF Todo
    <3> QED BY <2>1, <3>1, <3>2, <3>3 DEF Lineage, TracedTodo
  <2>3. [e EXCEPT !.conflict = TRUE] \in TracedEntry[p]
    BY <1>1, ParkedTraced
  <2>4. \A q \in Paths : entries'[q] \in TracedEntry[q]
    BY <1>1, <2>1, <2>3 DEF Lineage
  <2> QED BY <2>1, <2>2, <2>4 DEF Lineage, Grown
<1> QED
  BY <1>2, <1>3

(* ApplyFetched's write: its bytes become bytes that tree/ has held. *)
LEMMA WriteFetchedTraced ==
  ASSUME TypeOK, Lineage, NEW k \in todo.checked, NEW o \in todo.fills, WriteFetched(k, o)
  PROVE  Grown /\ TracedNext
<1> USE DEF hostVars, serverVars
<1> DEFINE p == o.path
           e == entries[p]
<1>1. /\ p \in Paths /\ o.row \in Row /\ o.row.hash \in HostHeld(p)
      /\ e \in TracedEntry[p] /\ e \in Entry /\ local[p] \in LocalHeld(p)
      /\ entries \in [Paths -> Entry]
  BY DEF TracedTodo, TracedObject, Object, TypeOK, Lineage
<1>2. todo' \in TracedTodo
  BY <1>1, TodoTraced DEF WriteFetched
<1>3. UNCHANGED <<queue, wire, pulls, aside, call, late, host, wasHost>>
  BY DEF WriteFetched
<1>4. CASE FetchedWritten(k, o)
  <2>1. TreeTakes(p, o.row.hash)
    BY <1>4 DEF FetchedWritten
  <2>2. \A q \in Paths : wasLocal[q] \subseteq wasLocal'[q] /\ local'[q] \in LocalHeld(q)'
                         /\ local'[p] = o.row.hash
    <3> HIDE DEF p
    <3> QED BY <1>1, <2>1, TreeTakesTraced
  <2>3. Grown
    BY <1>3, <2>2 DEF Grown
  <2> DEFINE n == [e EXCEPT !.base = o.row.hash, !.remote = o.row]
  <2>4. n \in Entry /\ n.base = o.row.hash /\ n.remote = o.row /\ n.unack = e.unack
    BY <1>1, HeldType DEF Entry
  <2>5. entries' = [entries EXCEPT ![p] = n]
    BY <1>4 DEF FetchedWritten
  <2> HIDE DEF n, p, e
  <2>6. n \in TracedEntry'[p]
    <3>1. e.unack \in Seq(wasLocal[p])
      BY <1>1, TracedEntryDef
    <3>2. e.unack \in Seq(wasLocal'[p])
      BY <1>1, <2>2, <3>1, SeqGrows
    <3>3. o.row.hash \in HostHeld(p)' /\ o.row.hash \in LocalHeld(p)'
      BY <1>1, <2>2, <2>3, StaysTraced
    <3> QED BY <1>1, <2>4, <3>2, <3>3 DEF TracedEntry
  <2>7. \A q \in Paths : entries'[q] \in TracedEntry[q] \cup TracedEntry'[q]
    BY <1>1, <2>5, <2>6 DEF Lineage
  <2> QED BY <1>2, <1>3, <2>2, <2>3, <2>7 DEF TracedNext, Lineage
<1>5. CASE FetchedRefused(k, o)
  <2>1. UNCHANGED <<local, wasLocal>>
        /\ (entries' = entries \/ entries' = [entries EXCEPT ![p].conflict = TRUE])
    BY <1>5 DEF FetchedRefused
  <2>2. [e EXCEPT !.conflict = TRUE] \in TracedEntry[p]
    BY <1>1, ParkedTraced
  <2>3. \A q \in Paths : entries'[q] \in TracedEntry[q]
    BY <1>1, <2>1, <2>2 DEF Lineage
  <2> QED BY <1>2, <1>3, <2>1, <2>3 DEF TracedNext, Lineage, Grown
<1> QED
  BY <1>4, <1>5 DEF WriteFetched

(* PushNow up to its write: it expects the base, and sends what tree/ holds. *)
LEMMA StartPushTraced ==
  ASSUME TypeOK, Lineage, NEW p \in Paths, NEW es \in [Paths -> Entry],
         \A q \in Paths : es[q] \in TracedEntry[q], StartPush(p, es)
  PROVE  call' \in TracedCall /\ \A q \in Paths : entries'[q] \in TracedEntry[q]
<1> DEFINE sending == [NoCall EXCEPT !.job = "push", !.st = "sent", !.path = p,
                                     !.content = local[p], !.expect = es[p].base]
           n == [es[p] EXCEPT !.pending = FALSE]
<1>1. /\ es[p] \in Entry /\ es[p].base \in LocalHeld(p) /\ es[p].base \in HostHeld(p)
      /\ es[p].remote.hash \in HostHeld(p) /\ es[p].unack \in Seq(wasLocal[p])
  BY TracedEntryDef
<1>2. n \in TracedEntry[p]
  <2>1. n \in Entry /\ n.base = es[p].base /\ n.remote = es[p].remote /\ n.unack = es[p].unack
    BY <1>1 DEF Entry
  <2> HIDE DEF n
  <2> QED BY <1>1, <2>1, TracedEntryDef
<1>3. \A q \in Paths : entries'[q] \in TracedEntry[q]
  <2>1. entries' = es \/ entries' = [es EXCEPT ![p] = n]
    BY DEF StartPush
  <2> HIDE DEF n
  <2> QED BY <1>2, <2>1
<1>4. call' = call \/ (local[p] # None /\ call' = sending)
  BY DEF StartPush
<1>5. local[p] # None => sending \in TracedCall
  <2>1. local[p] \in LocalHeld(p) /\ local[p] \in Hash /\ es[p].base \in Precondition
    BY <1>1, HeldType DEF Lineage, Precondition
  <2>2. sending \in Call
    BY <2>1, NoCallType DEF Call
  <2>3. /\ sending.job = "push" /\ sending.path = p /\ sending.content = local[p]
        /\ sending.expect = es[p].base /\ sending.ok = FALSE /\ sending.row = NoRow
        /\ sending.rows = [q \in Paths |-> NoRow]
    BY DEF NoCall
  <2>4. sending.rows \in TracedRows
    BY <2>3, NothingTraced DEF NoCall, TracedCall
  <2> HIDE DEF sending
  <2>5. local[p] # None => WellFormed(sending)
    BY <2>1, <2>2, <2>3 DEF WellFormed, Hash
  <2>6. sending.row.hash \in HostHeld(p)
    BY <2>3, NothingTraced, HeldType
  <2> QED BY <1>1, <2>1, <2>2, <2>3, <2>4, <2>5, <2>6 DEF TracedCall
<1> HIDE DEF sending
<1> QED
  BY <1>3, <1>4, <1>5 DEF Lineage

(* A call that asks for a file brings nothing with it. *)
LEMMA AskTraced ==
  ASSUME TypeOK, NEW p \in Paths, NEW job \in {"fetch", "take"}
  PROVE  [NoCall EXCEPT !.job = job, !.st = "sent", !.path = p] \in TracedCall
<1> DEFINE asking == [NoCall EXCEPT !.job = job, !.st = "sent", !.path = p]
<1>1. asking \in Call
  BY NoCallType DEF Call
<1>2. /\ asking.job = job /\ asking.path = p /\ asking.ok = FALSE /\ asking.row = NoRow
      /\ asking.rows = NoCall.rows
  BY DEF NoCall
<1> HIDE DEF asking
<1>3. asking.rows \in TracedRows
  BY <1>2, NothingTraced DEF TracedCall
<1>4. asking.row.hash \in HostHeld(p)
  BY <1>2, NothingTraced, HeldType
<1>5. WellFormed(asking)
  BY <1>1, <1>2 DEF WellFormed
<1>6. asking \in TracedCall
  BY <1>1, <1>2, <1>3, <1>4, <1>5 DEF TracedCall
<1> QED
  BY <1>6 DEF asking

-----------------------------------------------------------------------------
(* The steps *)

(* The user's steps. *)
LEMMA UserTraced ==
  ASSUME TypeOK, Lineage, User
  PROVE  Grown /\ TracedNext
<1> USE DEF hostVars, serverVars
<1>1. ASSUME NEW p \in Paths, NEW c \in Contents, SaveWrite(p, c) PROVE Grown /\ TracedNext
  <2>1. TreeTakes(p, c) /\ UNCHANGED wasHost
    BY <1>1 DEF SaveWrite
  <2>2. Grown /\ \A q \in Paths : local'[q] \in LocalHeld(q)'
    BY <2>1, TreeTakesTraced DEF Grown
  <2> QED BY <1>1, <2>2 DEF SaveWrite, TracedNext, Lineage
<1>2. ASSUME NEW p \in Paths, SaveNotify(p) PROVE Grown /\ TracedNext
  <2>1. [kind |-> "note", path |-> p] \in TracedJob
    BY DEF TracedJob, Note
  <2> QED BY <1>2, <2>1 DEF SaveNotify, TracedNext, Lineage, Grown
<1>3. ASSUME NEW p \in Paths, NEW c \in Hash, ToolWrite(p, c) PROVE Grown /\ TracedNext
  <2>1. TreeTakes(p, c) /\ UNCHANGED wasHost
    BY <1>3 DEF ToolWrite
  <2>2. Grown /\ \A q \in Paths : local'[q] \in LocalHeld(q)'
    BY <2>1, TreeTakesTraced DEF Grown
  <2> QED BY <1>3, <2>2 DEF ToolWrite, TracedNext, Lineage
<1>4. ASSUME NEW p \in Paths, NEW c \in Hash, HostEdit(p, c) PROVE Grown /\ TracedNext
  <2>1. HostTakes(p, c) /\ UNCHANGED wasLocal
    BY <1>4 DEF HostEdit
  <2>2. Grown /\ \A q \in Paths : host'[q] \in HostHeld(q)'
    BY <2>1, HostTakesTraced DEF Grown
  <2> QED BY <1>4, <2>2 DEF HostEdit, TracedNext, Lineage
<1>5. ASSUME NEW p \in Paths, Prioritize(p) PROVE Grown /\ TracedNext
  <2> DEFINE o == [kind |-> "object", path |-> p, row |-> entries[p].remote, delta |-> None]
             asking == [NoCall EXCEPT !.job = "fetch", !.st = "sent", !.path = p]
  <2>1. o \in TracedObject
    <3>1. entries[p] \in Entry /\ entries[p].remote.hash \in HostHeld(p)
      BY TracedEntryDef DEF Lineage
    <3> QED BY <3>1 DEF TracedObject, Object, Entry, Hash
  <2>2. todo' \in TracedTodo
    <3>1. todo' = todo \/ todo' = [todo EXCEPT !.fills = {o}]
      BY <1>5 DEF Prioritize
    <3> HIDE DEF o
    <3>2. {o} \subseteq TracedObject /\ {o} \subseteq Object
      BY <2>1 DEF TracedObject
    <3>3. todo \in Todo /\ todo.restores \subseteq TracedAside
      BY DEF Lineage, TracedTodo
    <3>4. [todo EXCEPT !.fills = {o}] \in TracedTodo
      BY <3>2, <3>3 DEF Todo, TracedTodo
    <3> QED BY <3>1, <3>4 DEF Lineage
  <2>3. call' \in TracedCall
    <3>1. call' = call \/ call' = asking
      BY <1>5 DEF Prioritize
    <3>2. asking \in TracedCall
      BY AskTraced
    <3> QED BY <3>1, <3>2 DEF Lineage
  <2>4. UNCHANGED <<local, entries, aside, queue, wire, pulls, serverVars, hostVars, wasLocal>>
    BY <1>5 DEF Prioritize
  <2> QED BY <2>2, <2>3, <2>4 DEF TracedNext, Lineage, Grown
<1>6. ASSUME NEW p \in Paths, TakeRemote(p) PROVE Grown /\ TracedNext
  <2>1. [NoCall EXCEPT !.job = "take", !.st = "sent", !.path = p] \in TracedCall
    BY AskTraced
  <2>2. call' \in TracedCall
        /\ UNCHANGED <<local, entries, aside, queue, todo, wire, pulls, serverVars, hostVars,
                       wasLocal>>
    BY <1>6, <2>1 DEF TakeRemote
  <2> QED BY <2>2 DEF TracedNext, Lineage, Grown
<1>7. ASSUME NEW p \in Paths, NEW expect \in {Anything} \cup ({entries[p].remote.hash} \ {None}),
             KeepLocal(p, expect)
      PROVE  Grown /\ TracedNext
  <2>1. expect \in Precondition /\ local[p] \in LocalHeld(p) /\ local[p] \in Hash
    BY DEF TypeOK, Entry, Row, Precondition, Lineage
  <2> DEFINE sending == [NoCall EXCEPT !.job = "keep", !.st = "sent", !.path = p,
                                       !.content = local[p], !.expect = expect]
  <2>2. sending \in TracedCall
    <3>1. sending \in Call
      BY <2>1, NoCallType DEF Call
    <3>2. /\ sending.job = "keep" /\ sending.path = p /\ sending.content = local[p]
          /\ sending.ok = FALSE /\ sending.row = NoRow /\ sending.rows = NoCall.rows
      BY DEF NoCall
    <3> HIDE DEF sending
    <3>3. sending.rows \in TracedRows /\ sending.row.hash \in HostHeld(p) /\ WellFormed(sending)
      BY <3>1, <3>2, NothingTraced, HeldType DEF TracedCall, WellFormed
    <3> QED BY <2>1, <3>1, <3>2, <3>3 DEF TracedCall
  <2>3. call' \in TracedCall
        /\ UNCHANGED <<local, entries, aside, queue, todo, wire, pulls, serverVars, hostVars,
                       wasLocal>>
    BY <1>7, <2>2 DEF KeepLocal
  <2> QED BY <2>3 DEF TracedNext, Lineage, Grown
<1>8. ASSUME NEW undoable \in BOOLEAN, RequestApproval(undoable) PROVE Grown /\ TracedNext
  <2>1. [kind |-> "approve", undoable |-> undoable] \in TracedJob
    BY DEF TracedJob, Approve
  <2> QED BY <1>8, <2>1 DEF RequestApproval, TracedNext, Lineage, Grown
<1> QED
  BY <1>1, <1>2, <1>3, <1>4, <1>5, <1>6, <1>7, <1>8 DEF User

(* The steps of the link. *)
LEMMA LinkTraced ==
  ASSUME TypeOK, Lineage, Link
  PROVE  Grown /\ TracedNext
<1> USE DEF hostVars, serverVars
<1>1. ASSUME GiveUp PROVE call' \in TracedCall /\ \A q \in Paths : entries'[q] \in TracedEntry[q]
  <2> DEFINE p == call.path
             n == [entries[p] EXCEPT !.unack = NoteUnacknowledged(@, call.content)]
  <2>1. entries' = entries \/ (call.job = "push" /\ entries' = [entries EXCEPT ![p] = n])
    BY <1>1 DEF GiveUp
  <2>2. call.job = "push" => p \in Paths /\ n \in TracedEntry[p]
    <3> SUFFICES ASSUME call.job = "push" PROVE p \in Paths /\ n \in TracedEntry[p]
      OBVIOUS
    <3>1. p \in Paths /\ call.content \in wasLocal[p]
      BY ConstantsDistinct DEF Lineage, TracedCall, WellFormed, LocalHeld
    <3>2. /\ entries[p] \in Entry /\ entries[p].base \in LocalHeld(p) /\ entries[p].base \in HostHeld(p)
          /\ entries[p].remote.hash \in HostHeld(p) /\ entries[p].unack \in Seq(wasLocal[p])
      BY <3>1, TracedEntryDef DEF Lineage
    <3> DEFINE u == NoteUnacknowledged(entries[p].unack, call.content)
    <3>3. u \in Seq(wasLocal[p])
      BY <3>1, <3>2, NoteUnacknowledgedType
    <3>4. u \in Seq(Contents)
      <4>1. wasLocal[p] \subseteq Contents
        BY <3>1 DEF TypeOK
      <4> HIDE DEF u
      <4> QED BY <3>3, <4>1, SeqGrows
    <3> HIDE DEF u, p
    <3>5. n = [entries[p] EXCEPT !.unack = u]
      BY DEF u
    <3>6. n \in Entry /\ n.base = entries[p].base /\ n.remote = entries[p].remote /\ n.unack = u
      BY <3>2, <3>4, <3>5 DEF Entry
    <3> HIDE DEF n
    <3> QED BY <3>1, <3>2, <3>3, <3>6, TracedEntryDef
  <2>3. entries \in [Paths -> Entry] /\ \A q \in Paths : entries[q] \in TracedEntry[q]
    BY DEF TypeOK, Lineage
  <2> HIDE DEF n, p
  <2>4. \A q \in Paths : entries'[q] \in TracedEntry[q]
    BY <2>1, <2>2, <2>3
  <2> QED BY <1>1, <2>4, NothingTraced DEF GiveUp
<1>2. Unwritten \subseteq TracedWrite
  <2>1. Unwritten \subseteq Write
    <3>1. (call.st = "checked") \in BOOLEAN
      OBVIOUS
    <3>2. ASSUME call.job \in {"push", "keep"}, NEW b \in BOOLEAN
          PROVE  [job |-> call.job, path |-> call.path, content |-> call.content,
                  expect |-> call.expect, checked |-> b] \in Write
      BY <3>2 DEF Write, TypeOK, WellFormed, Call
    <3> QED BY <3>1, <3>2 DEF Unwritten
  <2>2. \A r \in Unwritten : r.job = call.job /\ r.path = call.path /\ r.expect = call.expect
    BY DEF Unwritten
  <2>3. call.job = "push" => call.expect \in LocalHeld(call.path)
    BY DEF Lineage, TracedCall
  <2> QED BY <2>1, <2>2, <2>3 DEF TracedWrite
<1>3. CASE Deliver
  <2>1. Head(wire) \in TracedFrame /\ Tail(wire) \in Seq(TracedFrame)
    BY <1>3 DEF Deliver, Lineage
  <2>2. queue' \in Seq(TracedJob)
    <3>1. Head(wire).kind # "manifest" => Head(wire) \in TracedJob
      BY <2>1 DEF TracedFrame, Manifest, TracedJob
    <3>2. queue' = queue \/ (Head(wire).kind # "manifest" /\ queue' = Append(queue, Head(wire)))
      BY <1>3 DEF Deliver
    <3>3. queue \in Seq(TracedJob)
      BY DEF Lineage
    <3>4. Head(wire).kind # "manifest" => Append(queue, Head(wire)) \in Seq(TracedJob)
      BY <3>1, <3>3, AppendType
    <3> QED BY <3>2, <3>3, <3>4
  <2>3. call' \in TracedCall
    <3>1. call' = call \/ call' = [call EXCEPT !.st = "answered"]
      BY <1>3 DEF Deliver
    <3>2. call \in TracedCall
      BY DEF Lineage
    <3>3. [call EXCEPT !.st = "answered"] \in TracedCall
      BY <3>2 DEF TracedCall, Call, WellFormed
    <3> QED BY <3>1, <3>2, <3>3
  <2>4. wire' = Tail(wire)
        /\ UNCHANGED <<local, entries, aside, todo, pulls, serverVars, hostVars, wasLocal>>
    BY <1>3 DEF Deliver
  <2> QED BY <2>1, <2>2, <2>3, <2>4 DEF TracedNext, Lineage, Grown
<1>4. CASE DropLink
  <2>1. call' \in TracedCall /\ \A q \in Paths : entries'[q] \in TracedEntry[q]
    BY <1>1, <1>4 DEF DropLink, Lineage
  <2>2. late' \subseteq TracedWrite
    BY <1>2, <1>4 DEF DropLink, Lineage
  <2>3. pulls' \in Seq(TracedPull) /\ wire' \in Seq(TracedFrame)
    BY <1>4 DEF DropLink
  <2>4. UNCHANGED <<local, aside, queue, todo, hostVars, wasLocal>>
    BY <1>4 DEF DropLink
  <2> QED BY <2>1, <2>2, <2>3, <2>4 DEF TracedNext, Lineage, Grown
<1>5. CASE TimeOut
  <2>1. call' \in TracedCall /\ \A q \in Paths : entries'[q] \in TracedEntry[q]
    BY <1>1, <1>5 DEF TimeOut
  <2>2. wire' \in Seq(TracedFrame)
    BY <1>5, WithoutType DEF TimeOut, Lineage
  <2>3. late' \subseteq TracedWrite
    BY <1>2, <1>5 DEF TimeOut, Lineage
  <2>4. UNCHANGED <<local, aside, queue, todo, pulls, hostVars, wasLocal>>
    BY <1>5 DEF TimeOut
  <2> QED BY <2>1, <2>2, <2>3, <2>4 DEF TracedNext, Lineage, Grown
<1>6. CASE ErrorAnswer
  <2> DEFINE p == call.path
             n == [entries[p] EXCEPT !.unack = <<>>]
  <2>1. /\ entries' = entries \/ (call.job = "push" /\ entries' = [entries EXCEPT ![p] = n])
        /\ call' = NoCall
        /\ UNCHANGED <<local, aside, queue, todo, wire, pulls, serverVars, hostVars, wasLocal>>
    BY <1>6 DEF ErrorAnswer
  <2>2. call.job = "push" => p \in Paths /\ n \in TracedEntry[p]
    <3> SUFFICES ASSUME call.job = "push" PROVE p \in Paths /\ n \in TracedEntry[p]
      OBVIOUS
    <3>1. p \in Paths
      BY DEF Lineage, TracedCall, WellFormed
    <3>2. /\ entries[p] \in Entry /\ entries[p].base \in LocalHeld(p) /\ entries[p].base \in HostHeld(p)
          /\ entries[p].remote.hash \in HostHeld(p)
      BY <3>1, TracedEntryDef DEF Lineage
    <3>3. <<>> \in Seq(wasLocal[p]) /\ <<>> \in Seq(Contents)
      OBVIOUS
    <3> HIDE DEF p
    <3>4. n \in Entry /\ n.base = entries[p].base /\ n.remote = entries[p].remote /\ n.unack = <<>>
      BY <3>2, <3>3 DEF Entry
    <3> HIDE DEF n
    <3> QED BY <3>1, <3>2, <3>3, <3>4, TracedEntryDef
  <2>3. entries \in [Paths -> Entry] /\ \A q \in Paths : entries[q] \in TracedEntry[q]
    BY DEF TypeOK, Lineage
  <2> HIDE DEF n, p
  <2>4. \A q \in Paths : entries'[q] \in TracedEntry[q]
    BY <2>1, <2>2, <2>3
  <2> QED BY <2>1, <2>4, NothingTraced DEF TracedNext, Lineage, Grown
<1>7. CASE WatchBatchFails
  BY <1>7 DEF WatchBatchFails, TracedNext, Lineage, Grown
<1>8. ASSUME NEW fresh \in BOOLEAN, Reconnect(fresh) PROVE Grown /\ TracedNext
  <2>1. [kind |-> "sync"] \in TracedJob
    BY DEF TracedJob, Sync
  <2>2. queue' \in Seq(TracedJob)
    BY <1>8, <2>1, WithoutType DEF Reconnect, Lineage
  <2> QED BY <1>8, <2>2 DEF Reconnect, TracedNext, Lineage, Grown
<1>9. ASSUME NEW p \in Paths, ObjectFails(p) PROVE Grown /\ TracedNext
  <2>1. pulls # <<>> /\ pulls \in Seq(TracedPull)
    BY <1>9 DEF ObjectFails, Lineage
  <2>2. Head(pulls) \in TracedPull /\ Tail(pulls) \in Seq(TracedPull)
    BY <2>1
  <2>3. [Head(pulls) EXCEPT !.paths = @ \ {p}] \in TracedPull
    BY <2>2 DEF TracedPull, Pull
  <2>4. \A x \in TracedPull : <<x>> \o Tail(pulls) \in Seq(TracedPull)
    BY <2>2
  <2>5. pulls' \in Seq(TracedPull)
    BY <1>9, <2>3, <2>4 DEF ObjectFails
  <2> QED BY <1>9, <2>5 DEF ObjectFails, TracedNext, Lineage, Grown
<1>10. CASE BatchFails
  <2>1. pulls' \in Seq(TracedPull)
    BY <1>10 DEF BatchFails, Lineage
  <2> QED BY <1>10, <2>1 DEF BatchFails, TracedNext, Lineage, Grown
<1>11. ASSUME NEW k \in todo.checked, DeleteFails(k) PROVE Grown /\ TracedNext
  <2>1. todo' \in TracedTodo
    BY <1>11, CheckedType, TodoTraced DEF DeleteFails
  <2> QED BY <1>11, <2>1 DEF DeleteFails, TracedNext, Lineage, Grown
<1>12. ASSUME NEW k \in todo.checked, NEW o \in todo.fills, WriteFails(k, o)
       PROVE  Grown /\ TracedNext
  <2>1. todo' \in TracedTodo
    BY <1>12, CheckedType, TodoTraced DEF WriteFails
  <2> QED BY <1>12, <2>1 DEF WriteFails, TracedNext, Lineage, Grown
<1> QED
  BY <1>3, <1>4, <1>5, <1>6, <1>7, <1>8, <1>9, <1>10, <1>11, <1>12 DEF Link, Failure

(* What a step of a call's server side may do to it. *)
LEMMA CallStep ==
  ASSUME TypeOK, Grown, NEW c \in TracedCall, NEW d \in Call,
         d.job = c.job, d.path = c.path, d.content = c.content, d.expect = c.expect,
         d.path \in Paths => d.row.hash \in HostHeld(d.path)',
         d.rows \in TracedRows',
         d.ok => d.st \in {"written", "answered"} /\ d.row.hash = d.content
  PROVE  d \in TracedCall'
<1>1. /\ WellFormed(c)
      /\ c.job \in {"push", "keep"} => c.content \in LocalHeld(c.path)
      /\ c.job = "push" => c.expect \in LocalHeld(c.path)
  BY DEF TracedCall
<1>2. WellFormed(d)
  BY <1>1 DEF WellFormed
<1>3. d.job \in {"push", "keep"} => d.path \in Paths
  BY <1>2 DEF WellFormed
<1>4. /\ d.job \in {"push", "keep"} => d.content \in LocalHeld(d.path)'
      /\ d.job = "push" => d.expect \in LocalHeld(d.path)'
  BY <1>1, <1>3, StaysTraced
<1> QED
  BY <1>2, <1>4 DEF TracedCall

(* The server's steps. *)
LEMMA ServerTraced ==
  ASSUME TypeOK, Lineage, Server
  PROVE  Grown /\ TracedNext
<1> USE DEF hostVars, serverVars
<1>c. /\ call \in TracedCall /\ call \in Call /\ call.rows \in TracedRows
      /\ call.path \in Paths => call.row.hash \in HostHeld(call.path)
      /\ call.ok => call.st \in {"written", "answered"} /\ call.row.hash = call.content
  BY DEF Lineage, TracedCall
<1>h. \A p \in Paths : HostRow(p) \in Row /\ HostRow(p).hash = host[p] /\ HostRow(p).hash \in HostHeld(p)
  BY HostRowType DEF HostRow, Lineage
<1>1. CASE ServerCheck
  <2>1. /\ Grown
        /\ UNCHANGED <<local, entries, aside, queue, todo, wire, pulls, serverVars, hostVars,
                       wasLocal>>
        /\ call.path \in Paths /\ call.st = "sent"
        /\ \/ call' = [call EXCEPT !.st = "checked"]
           \/ call' = [call EXCEPT !.st = "written", !.row = HostRow(call.path)]
    BY <1>1 DEF ServerCheck, Grown, TypeOK, WellFormed
  <2>2. call' \in Call
    <3>1. CASE call' = [call EXCEPT !.st = "checked"]
      BY <1>c, <3>1 DEF Call
    <3> DEFINE row == HostRow(call.path)
    <3>2. row \in Row
      BY <1>h, <2>1
    <3> HIDE DEF row
    <3>3. CASE call' = [call EXCEPT !.st = "written", !.row = row]
      BY <1>c, <3>2, <3>3 DEF Call
    <3> QED BY <2>1, <3>1, <3>3 DEF row
  <2>3. /\ call'.job = call.job /\ call'.path = call.path /\ call'.content = call.content
        /\ call'.expect = call.expect /\ call'.rows = call.rows /\ call'.ok = call.ok
        /\ call'.row \in {call.row, HostRow(call.path)}
    BY <1>c, <2>1 DEF Call
  <2>4. call'.rows \in TracedRows' /\ call'.row.hash \in HostHeld(call.path)'
    BY <1>c, <1>h, <2>1, <2>3, StaysTraced
  <2>5. ~call'.ok
    BY <1>c, <2>1, <2>3
  <2>6. call' \in TracedCall'
    BY <1>c, <2>1, <2>2, <2>3, <2>4, <2>5, CallStep
  <2> QED BY <2>1, <2>6 DEF TracedNext, Lineage
<1>2. CASE ServerWrite
  <2>1. call.path \in Paths /\ call.content \in Hash
    BY <1>2 DEF ServerWrite, TypeOK, WellFormed, Call
  <2>2. /\ Grown
        /\ Replaces(call) => host'[call.path] = call.content
        /\ \A q \in Paths : host'[q] \in HostHeld(q)'
    <3>1. CASE Replaces(call)
      <4>1. HostTakes(call.path, call.content) /\ UNCHANGED wasLocal
        BY <1>2, <3>1 DEF ServerWrite, Replaced
      <4>2. \A q \in Paths : /\ wasHost[q] \subseteq wasHost'[q]
                             /\ host'[q] \in HostHeld(q)'
                             /\ host'[call.path] = call.content
        BY <2>1, <4>1, HostTakesTraced
      <4> QED BY <2>1, <4>1, <4>2 DEF Grown
    <3>2. CASE ~Replaces(call)
      <4>1. UNCHANGED <<hostVars, wasLocal>>
        BY <1>2, <3>2 DEF ServerWrite, Replaced
      <4>2. Grown
        BY <4>1 DEF Grown
      <4> QED BY <3>2, <4>1, <4>2, StaysTraced DEF Lineage
    <3> QED BY <3>1, <3>2
  <2>3. /\ host' \in [Paths -> Hash] /\ hostVer' \in [Paths -> Nat]
    <3>1. CASE Replaces(call)
      BY <1>2, <2>1, <3>1, HostTakesType DEF ServerWrite, Replaced
    <3>2. CASE ~Replaces(call)
      BY <1>2, <3>2 DEF ServerWrite, Replaced, TypeOK
    <3> QED BY <3>1, <3>2
  <2> DEFINE row == [hash |-> host'[call.path], ver |-> hostVer'[call.path]]
             ok == Replaces(call)
             d == [call EXCEPT !.st = "written", !.ok = ok, !.row = row]
  <2>4. row \in Row /\ row.hash = host'[call.path] /\ ok \in BOOLEAN
    BY <2>1, <2>3 DEF Row, Replaces
  <2>5. ok => row.hash = call.content
    BY <2>2
  <2>6. call' = d
    BY <1>2 DEF ServerWrite
  <2> HIDE DEF row, ok
  <2>7. /\ call' \in Call /\ call'.job = call.job /\ call'.path = call.path
        /\ call'.content = call.content /\ call'.expect = call.expect
        /\ call'.rows = call.rows /\ call'.ok = ok /\ call'.row = row /\ call'.st = "written"
    BY <1>c, <2>4, <2>6 DEF Call
  <2>8. call'.rows \in TracedRows' /\ call'.row.hash \in HostHeld(call.path)'
    BY <1>c, <2>1, <2>2, <2>4, <2>7, StaysTraced
  <2>9. call' \in TracedCall'
    BY <1>c, <2>1, <2>2, <2>5, <2>7, <2>8, CallStep
  <2>10. UNCHANGED <<local, entries, aside, queue, todo, wire, pulls, serverVars, wasLocal>>
    BY <1>2 DEF ServerWrite
  <2> QED BY <2>2, <2>9, <2>10 DEF TracedNext, Lineage
<1>3. CASE ServerAnswer
  <2>1. /\ Grown
        /\ UNCHANGED <<local, entries, aside, queue, todo, wire, pulls, serverVars, hostVars,
                       wasLocal>>
        /\ call' = [call EXCEPT !.st = "answered", !.manifest = nextId - 1]
        /\ nextId - 1 \in Nat
    BY <1>3 DEF ServerAnswer, Grown, TypeOK
  <2>2. call' \in Call
    BY <1>c, <2>1 DEF Call
  <2>3. /\ call'.job = call.job /\ call'.path = call.path /\ call'.content = call.content
        /\ call'.expect = call.expect /\ call'.rows = call.rows /\ call'.ok = call.ok
        /\ call'.row = call.row /\ call'.st = "answered"
    BY <1>c, <2>1 DEF Call
  <2>4. /\ call'.rows \in TracedRows'
        /\ call'.path \in Paths => call'.row.hash \in HostHeld(call.path)'
    BY <1>c, <2>1, <2>3, StaysTraced
  <2>5. call' \in TracedCall'
    BY <1>c, <2>1, <2>2, <2>3, <2>4, CallStep
  <2> QED BY <2>1, <2>5 DEF TracedNext, Lineage
<1>4. CASE ServerRead
  <2>1. /\ Grown
        /\ UNCHANGED <<local, entries, aside, queue, todo, wire, pulls, serverVars, hostVars,
                       wasLocal>>
        /\ call.path \in Paths /\ call.st = "sent"
        /\ call' = [call EXCEPT !.st = "answered", !.row = HostRow(call.path)]
    BY <1>4 DEF ServerRead, Grown, TypeOK, WellFormed
  <2>2. call' \in Call
    BY <1>c, <1>h, <2>1 DEF Call
  <2>3. /\ call'.job = call.job /\ call'.path = call.path /\ call'.content = call.content
        /\ call'.expect = call.expect /\ call'.rows = call.rows /\ call'.ok = call.ok
        /\ call'.row = HostRow(call.path)
    BY <1>c, <2>1 DEF Call
  <2>4. call'.rows \in TracedRows' /\ call'.row.hash \in HostHeld(call.path)'
    BY <1>c, <1>h, <2>1, <2>3, StaysTraced
  <2>5. ~call'.ok
    BY <1>c, <2>1, <2>3
  <2>6. call' \in TracedCall'
    BY <1>c, <2>1, <2>2, <2>3, <2>4, <2>5, CallStep
  <2> QED BY <2>1, <2>6 DEF TracedNext, Lineage
<1>5. ASSUME NEW p \in Paths, NEW delta \in Hash, ServerPull(p, delta) PROVE Grown /\ TracedNext
  <2> DEFINE o == [kind |-> "object", path |-> p, row |-> HostRow(p), delta |-> delta]
             first == Head(pulls)
             n == [first EXCEPT !.paths = @ \ {p}, !.read = Append(@, o)]
  <2>1. o \in Object /\ o \in TracedObject
    BY <1>h DEF Object, TracedObject
  <2>2. first \in TracedPull /\ Tail(pulls) \in Seq(TracedPull)
    BY <1>5 DEF ServerPull, Lineage
  <2>3. pulls' = <<n>> \o Tail(pulls)
        /\ UNCHANGED <<local, entries, aside, queue, todo, wire, call, serverVars, hostVars,
                       wasLocal>>
    BY <1>5 DEF ServerPull
  <2> HIDE DEF o, first
  <2>4. n \in TracedPull
    <3>1. /\ first \in Pull /\ first.read \in Seq(TracedObject)
          /\ Append(first.read, o) \in Seq(TracedObject)
      BY <2>1, <2>2 DEF TracedPull
    <3>2. first.paths \ {p} \in SUBSET Paths /\ Append(first.read, o) \in Seq(Object)
      BY <2>1, <3>1 DEF Pull
    <3>3. n \in Pull /\ n.read = Append(first.read, o)
      BY <3>1, <3>2 DEF Pull
    <3> HIDE DEF n
    <3> QED BY <3>1, <3>3 DEF TracedPull
  <2> HIDE DEF n
  <2>5. pulls' \in Seq(TracedPull)
    BY <2>2, <2>3, <2>4
  <2> QED BY <2>3, <2>5 DEF TracedNext, Lineage, Grown
<1>6. CASE ServerPulled
  <2>1. Head(pulls).read \in Seq(TracedFrame)
    <3>1. Head(pulls) \in TracedPull
      BY <1>6 DEF ServerPulled, Lineage
    <3>2. Head(pulls).read \in Seq(TracedObject)
      BY <3>1 DEF TracedPull
    <3>3. TracedObject \subseteq TracedFrame
      BY DEF TracedFrame
    <3> QED BY <3>2, <3>3, SeqGrows
  <2>2. wire' \in Seq(TracedFrame)
    BY <1>6, <2>1 DEF ServerPulled, Lineage
  <2>3. pulls' \in Seq(TracedPull)
    BY <1>6 DEF ServerPulled, Lineage
  <2> QED BY <1>6, <2>2, <2>3 DEF ServerPulled, TracedNext, Lineage, Grown
<1>7. ASSUME NEW r \in late, LateCheck(r) PROVE Grown /\ TracedNext
  <2>1. [r EXCEPT !.checked = TRUE] \in TracedWrite
    BY DEF Lineage, TracedWrite, Write
  <2>2. late' \subseteq TracedWrite
    BY <1>7, <2>1 DEF LateCheck, Lineage
  <2> QED BY <1>7, <2>2 DEF LateCheck, TracedNext, Lineage, Grown
<1>8. ASSUME NEW r \in late, LateWrite(r) PROVE Grown /\ TracedNext
  <2>1. r.path \in Paths
    BY DEF TypeOK, Write
  <2>2. Grown /\ \A q \in Paths : host'[q] \in HostHeld(q)'
    <3>1. CASE Replaces(r)
      BY <1>8, <2>1, <3>1, HostTakesTraced DEF LateWrite, Replaced, Grown
    <3>2. CASE ~Replaces(r)
      <4>1. UNCHANGED <<hostVars, wasLocal>>
        BY <1>8, <3>2 DEF LateWrite, Replaced
      <4>2. Grown
        BY <4>1 DEF Grown
      <4> QED BY <4>1, <4>2, StaysTraced DEF Lineage
    <3> QED BY <3>1, <3>2
  <2> QED BY <1>8, <2>2 DEF LateWrite, TracedNext, Lineage
<1>9. CASE ServerManifest
  <2> DEFINE rows == [p \in Paths |-> HostRow(p)]
  <2>1. rows \in TracedRows
    BY <1>h DEF TracedRows
  <2>2. /\ Grown
        /\ UNCHANGED <<local, entries, aside, queue, todo, pulls, late, hostVars, wasLocal>>
        /\ call.st = "sent" /\ nextId \in Nat
        /\ call' = [call EXCEPT !.st = "written", !.manifest = nextId, !.rows = rows]
        /\ wire' = Append(wire, [kind |-> "manifest"])
    BY <1>9 DEF ServerManifest, Grown, TypeOK
  <2> HIDE DEF rows
  <2>3. call' \in Call
    BY <1>c, <2>1, <2>2 DEF Call, TracedRows
  <2>4. /\ call'.job = call.job /\ call'.path = call.path /\ call'.content = call.content
        /\ call'.expect = call.expect /\ call'.rows = rows /\ call'.ok = call.ok
        /\ call'.row = call.row
    BY <1>c, <2>2 DEF Call
  <2>5. /\ call'.rows \in TracedRows'
        /\ call'.path \in Paths => call'.row.hash \in HostHeld(call.path)'
    BY <1>c, <2>1, <2>2, <2>4, StaysTraced
  <2>6. ~call'.ok
    BY <1>c, <2>2, <2>4
  <2>7. call' \in TracedCall'
    BY <1>c, <2>2, <2>3, <2>4, <2>5, <2>6, CallStep
  <2>8. wire' \in Seq(TracedFrame)
    <3>1. [kind |-> "manifest"] \in TracedFrame
      BY DEF TracedFrame, Manifest
    <3> QED BY <2>2, <3>1, AppendType DEF Lineage
  <2> QED BY <2>2, <2>7, <2>8 DEF TracedNext, Lineage
<1>10. CASE PublishWatchBatch
  <2> DEFINE changed == {p \in Paths : ~SameRow(HostRow(p), sent[p])}
             rows == [p \in Paths |-> IF p \in changed THEN HostRow(p) ELSE NoRow]
             d == [kind |-> "delta", id |-> nextId, changed |-> changed, rows |-> rows]
  <2>1. changed \in SUBSET Paths
    OBVIOUS
  <2>2. /\ wire' = wire \/ wire' = Append(wire, d)
        /\ UNCHANGED <<local, entries, aside, queue, todo, call, pulls, late, host, wasHost,
                       wasLocal>>
    BY <1>10 DEF PublishWatchBatch
  <2> HIDE DEF changed
  <2>3. rows \in TracedRows
    <3>1. NoRow \in Row /\ NoRow.hash = None
      BY DEF NoRow, Row, Hash
    <3>2. \A p \in Paths : NoRow.hash \in HostHeld(p)
      BY <3>1 DEF HostHeld
    <3> QED BY <1>h, <3>1, <3>2 DEF TracedRows
  <2> HIDE DEF rows
  <2>4. d \in TracedFrame
    <3>1. d \in WatchDelta /\ d.rows = rows
      BY <2>1, <2>3 DEF WatchDelta, TypeOK, TracedRows
    <3> HIDE DEF d
    <3> QED BY <2>3, <3>1 DEF TracedFrame, TracedDelta
  <2> HIDE DEF d
  <2>5. wire' \in Seq(TracedFrame)
    <3>1. wire \in Seq(TracedFrame)
      BY DEF Lineage
    <3>2. Append(wire, d) \in Seq(TracedFrame)
      BY <2>4, <3>1, AppendType
    <3> QED BY <2>2, <3>1, <3>2
  <2> QED BY <2>2, <2>5 DEF TracedNext, Lineage, Grown
<1> QED
  BY <1>1, <1>2, <1>3, <1>4, <1>5, <1>6, <1>7, <1>8, <1>9, <1>10
  DEF Server, TreeQueue, IoQueue

(* The job the worker takes is a traced one. *)
LEMMA HeadTraced ==
  ASSUME TypeOK, Lineage, NEW kind, NextJob(kind)
  PROVE  Head(queue) \in TracedJob /\ Head(queue).kind = kind /\ Tail(queue) \in Seq(TracedJob)
BY DEF NextJob, Lineage

(* The worker's steps. *)
LEMMA WorkerTraced ==
  ASSUME TypeOK, Lineage, Worker
  PROVE  Grown /\ TracedNext
<1> USE DEF hostVars, serverVars
<1>e. \A p \in Paths : /\ entries[p] \in Entry /\ entries[p] \in TracedEntry[p]
                       /\ entries[p].base \in LocalHeld(p) /\ entries[p].base \in HostHeld(p)
                       /\ entries[p].remote.hash \in HostHeld(p)
                       /\ entries[p].unack \in Seq(wasLocal[p])
                       /\ local[p] \in LocalHeld(p)
  BY TracedEntryDef DEF Lineage
<1>1. CASE NotifyLocalWrite
  <2> DEFINE p == Head(queue).path
             es == [entries EXCEPT ![p].known = TRUE, ![p].pending = TRUE]
  <2>1. p \in Paths /\ queue' \in Seq(TracedJob)
    <3>1. NextJob("note") /\ queue' = Tail(queue)
      BY <1>1 DEF NotifyLocalWrite
    <3>2. Head(queue) \in TracedJob /\ Head(queue).kind = "note" /\ queue' \in Seq(TracedJob)
      BY <3>1, HeadTraced
    <3> QED BY <3>2 DEF TracedJob, TracedObject, TracedDelta, Note, Push, Approve, Sync, Object,
                        WatchDelta
  <2>2. StartPush(p, es)
    BY <1>1 DEF NotifyLocalWrite
  <2> HIDE DEF p
  <2> DEFINE n == [entries[p] EXCEPT !.known = TRUE, !.pending = TRUE]
  <2>3. n \in Entry /\ n.base = entries[p].base /\ n.remote = entries[p].remote
        /\ n.unack = entries[p].unack
    BY <1>e, <2>1 DEF Entry
  <2>4. es = [entries EXCEPT ![p] = n]
    BY <2>1 DEF TypeOK
  <2> HIDE DEF es, n
  <2>5. n \in TracedEntry[p]
    BY <1>e, <2>1, <2>3, TracedEntryDef
  <2>6. es \in [Paths -> Entry] /\ \A q \in Paths : es[q] \in TracedEntry[q]
    BY <1>e, <2>1, <2>3, <2>4, <2>5 DEF TypeOK
  <2>7. call' \in TracedCall /\ \A q \in Paths : entries'[q] \in TracedEntry[q]
    BY <2>1, <2>2, <2>6, StartPushTraced
  <2>8. UNCHANGED <<local, aside, todo, wire, pulls, serverVars, hostVars, wasLocal>>
    BY <1>1 DEF NotifyLocalWrite
  <2> QED BY <2>1, <2>7, <2>8 DEF TracedNext, Lineage, Grown
<1>2. CASE SyncNow
  <2> DEFINE asking == [NoCall EXCEPT !.job = "sync", !.st = "sent"]
  <2>1. queue' \in Seq(TracedJob)
    BY <1>2, HeadTraced DEF SyncNow
  <2>2. asking \in TracedCall
    <3>2. asking \in Call /\ asking.job = "sync" /\ asking.rows = NoCall.rows
          /\ asking.ok = FALSE /\ asking.row = NoRow /\ asking.path = NoCall.path
      BY NoCallType DEF Call, NoCall
    <3>3. NoCall.rows \in TracedRows
      BY NothingTraced DEF TracedCall
    <3>4. asking.path \in Paths => asking.row.hash \in HostHeld(asking.path)
      BY <3>2, NothingTraced DEF HostHeld
    <3> HIDE DEF asking
    <3> QED BY <3>2, <3>3, <3>4 DEF TracedCall, WellFormed
  <2>3. call' = call \/ call' = asking
    BY <1>2 DEF SyncNow
  <2>4. UNCHANGED <<local, entries, aside, todo, wire, pulls, serverVars, hostVars, wasLocal>>
    BY <1>2 DEF SyncNow
  <2> HIDE DEF asking
  <2> QED BY <2>1, <2>2, <2>3, <2>4 DEF TracedNext, Lineage, Grown
<1>3. CASE ApplyWatchDelta
  <2> DEFINE d == Head(queue)
             listed == {p \in d.changed : d.rows[p].hash # None}
             R == [p \in Paths |->
                     IF p \in listed THEN ReconcileRow(entries[p], local[p], d.rows[p], d.id)
                     ELSE IF p \in d.changed /\ entries[p].known
                          THEN IF d.id > entries[p].pushed
                               THEN ReconcileDelete(entries[p], local[p])
                               ELSE [entry |-> entries[p], act |-> "skip"]
                     ELSE [entry |-> entries[p], act |-> "none"]]
  <2>1. d \in TracedDelta /\ Tail(queue) \in Seq(TracedJob)
    <3>1. NextJob("delta")
      BY <1>3 DEF ApplyWatchDelta
    <3>2. Head(queue) \in TracedJob /\ Head(queue).kind = "delta"
          /\ Tail(queue) \in Seq(TracedJob)
      BY <3>1, HeadTraced
    <3> QED BY <3>2 DEF TracedJob, TracedObject, Note, Push, Approve, Sync, Object
  <2>2. d.id \in Nat /\ d.rows \in TracedRows
    <3> HIDE DEF d
    <3> QED BY <2>1 DEF TracedDelta, WatchDelta
  <2>3. UNCHANGED <<local, call, wire, serverVars, hostVars, wasLocal>>
    BY <1>3 DEF ApplyWatchDelta
  <2>4. CASE d.id < manifestId
    <3>1. UNCHANGED <<entries, todo, aside, pulls>> /\ queue' = Tail(queue)
      BY <1>3, <2>4 DEF ApplyWatchDelta
    <3> QED BY <2>1, <2>3, <3>1 DEF TracedNext, Lineage, Grown
  <2>5. CASE ~(d.id < manifestId)
    <3>1. Execute(R, d.rows, held \ listed, Tail(queue))
      BY <1>3, <2>5 DEF ApplyWatchDelta
    <3>2. \A p \in Paths : R[p].entry \in TracedEntry[p]
      <4> SUFFICES ASSUME NEW p \in Paths PROVE R[p].entry \in TracedEntry[p]
        OBVIOUS
      <4>1. d.rows[p] \in Row /\ d.rows[p].hash \in HostHeld(p)
        BY <2>2 DEF TracedRows
      <4>2. ReconcileRow(entries[p], local[p], d.rows[p], d.id).entry \in TracedEntry[p]
        BY <1>e, <2>2, <4>1, ReconcileRowTraced
      <4>3. ReconcileDelete(entries[p], local[p]).entry \in TracedEntry[p]
        BY <1>e, ReconcileDeleteTraced
      <4> HIDE DEF listed, d
      <4> QED BY <1>e, <4>2, <4>3
    <3>3. held \ listed \in SUBSET Paths
      BY DEF TypeOK
    <3> HIDE DEF d, listed, R
    <3>4. /\ \A p \in Paths : entries'[p] \in TracedEntry[p]
          /\ queue' \in Seq(TracedJob) /\ pulls' \in Seq(TracedPull)
          /\ todo' \in TracedTodo /\ aside' \subseteq TracedAside
      BY <2>1, <2>2, <3>1, <3>2, <3>3, ExecuteTraced
    <3> QED BY <2>3, <3>4 DEF TracedNext, Lineage, Grown
  <2> QED BY <2>4, <2>5
<1>4. CASE ApplyPulled
  <2>1. Head(queue) \in TracedObject /\ queue' \in Seq(TracedJob)
    <3>1. NextJob("object") /\ queue' = Tail(queue)
      BY <1>4 DEF ApplyPulled
    <3>2. Head(queue) \in TracedJob /\ Head(queue).kind = "object" /\ queue' \in Seq(TracedJob)
      BY <3>1, HeadTraced
    <3> QED BY <3>2 DEF TracedJob, TracedDelta, Note, Push, Approve, Sync, WatchDelta
  <2>2. ApplyFetched(Head(queue), {}) /\ {} \in SUBSET TracedObject /\ UNCHANGED wasHost
        /\ UNCHANGED <<call, wire, pulls, serverVars, hostVars>>
    BY <1>4 DEF ApplyPulled
  <2>3. /\ Grown
        /\ \A q \in Paths : local'[q] \in LocalHeld(q) /\ entries'[q] \in TracedEntry[q]
        /\ todo' \in TracedTodo /\ aside' \subseteq TracedAside
    BY <2>1, <2>2, ApplyFetchedTraced
  <2> QED BY <2>1, <2>2, <2>3 DEF TracedNext, Lineage
<1>5. CASE ApproveHeldDeletes
  <2>1. Head(queue).undoable \in BOOLEAN /\ queue' \in Seq(TracedJob)
    <3>1. NextJob("approve") /\ queue' = Tail(queue)
      BY <1>5 DEF ApproveHeldDeletes
    <3>2. Head(queue) \in TracedJob /\ Head(queue).kind = "approve"
          /\ queue' \in Seq(TracedJob)
      BY <3>1, HeadTraced
    <3> QED BY <3>2 DEF TracedJob, TracedObject, TracedDelta, Note, Push, Approve, Sync, Object,
                        WatchDelta
  <2>2. todo' \in TracedTodo
    <3>1. todo \in Todo /\ todo.restores \subseteq TracedAside /\ todo.fills \subseteq TracedObject
      BY DEF Lineage, TracedTodo
    <3>2. \A b \in BOOLEAN : [todo EXCEPT !.deletes = held, !.undoable = b] \in TracedTodo
      BY <3>1 DEF TypeOK, Todo, TracedTodo
    <3> QED BY <1>5, <2>1, <3>2 DEF ApproveHeldDeletes
  <2> QED BY <1>5, <2>1, <2>2 DEF ApproveHeldDeletes, TracedNext, Lineage, Grown
<1>6. ASSUME NEW p \in Paths, PushNow(p) PROVE Grown /\ TracedNext
  <2>1. Head(queue).paths \in SUBSET Paths /\ Tail(queue) \in Seq(TracedJob)
    <3>1. NextJob("push")
      BY <1>6 DEF PushNow
    <3>2. Head(queue) \in TracedJob /\ Head(queue).kind = "push" /\ Tail(queue) \in Seq(TracedJob)
      BY <3>1, HeadTraced
    <3> QED BY <3>2 DEF TracedJob, TracedObject, TracedDelta, Note, Push, Approve, Sync, Object,
                        WatchDelta
  <2>2. queue' \in Seq(TracedJob)
    <3>1. [kind |-> "push", paths |-> Head(queue).paths \ {p}] \in TracedJob
      BY <2>1 DEF TracedJob, Push
    <3>2. queue' = Tail(queue)
          \/ queue' = <<[kind |-> "push", paths |-> Head(queue).paths \ {p}]>> \o Tail(queue)
      BY <1>6 DEF PushNow
    <3>3. \A x \in TracedJob : <<x>> \o Tail(queue) \in Seq(TracedJob)
      BY <2>1
    <3> QED BY <2>1, <3>1, <3>2, <3>3
  <2>3. call' \in TracedCall /\ \A q \in Paths : entries'[q] \in TracedEntry[q]
    <3>1. StartPush(p, entries) /\ entries \in [Paths -> Entry]
      BY <1>6 DEF PushNow, TypeOK
    <3> QED BY <1>e, <3>1, StartPushTraced
  <2> QED BY <1>6, <2>2, <2>3 DEF PushNow, TracedNext, Lineage, Grown
<1>7. ASSUME NEW p \in Paths, DeleteNow(p) PROVE Grown /\ TracedNext
  <2> DEFINE parked == [entries[p] EXCEPT !.hasRemote = FALSE, !.conflict = TRUE]
  <2>1. todo' \in TracedTodo
    BY <1>7, TodoTraced DEF DeleteNow
  <2>2. parked \in TracedEntry[p]
    BY <1>e, ParkedTraced
  <2>3. \A q \in Paths : entries'[q] \in TracedEntry[q]
    <3>1. \/ entries' = entries \/ entries' = [entries EXCEPT ![p] = NoEntry]
          \/ entries' = [entries EXCEPT ![p] = parked]
      BY <1>7 DEF DeleteNow
    <3> HIDE DEF parked
    <3> QED BY <1>e, <2>2, <3>1, NothingTraced DEF TypeOK
  <2>4. UNCHANGED <<local, aside, queue, call, wire, pulls, serverVars, hostVars, wasLocal>>
    BY <1>7 DEF DeleteNow
  <2> QED BY <2>1, <2>3, <2>4 DEF TracedNext, Lineage, Grown
<1>15. ASSUME NEW k \in todo.checked, RemoveChecked(k) PROVE Grown /\ TracedNext
  <2>p. PICK p \in Paths : p = k.path
    BY CheckedType
  <2> DEFINE e == entries[p]
             parked == [e EXCEPT !.hasRemote = FALSE, !.conflict = TRUE]
  <2>1. todo' \in TracedTodo
    BY <1>15, <2>p, TodoTraced DEF RemoveChecked
  <2>2. parked \in TracedEntry[p]
    BY <1>e, ParkedTraced
  <2>3. \A q \in Paths : entries'[q] \in TracedEntry[q]
    <3>1. \/ entries' = entries \/ entries' = [entries EXCEPT ![p] = NoEntry]
          \/ entries' = [entries EXCEPT ![p] = parked]
      BY <1>15, <2>p DEF RemoveChecked
    <3> HIDE DEF parked
    <3> QED BY <1>e, <2>2, <3>1, NothingTraced DEF TypeOK
  <2>4. \A q \in Paths : local'[q] \in LocalHeld(q)
    <3>1. local' = [local EXCEPT ![p] = None]
      BY <1>15, <2>p DEF RemoveChecked
    <3> QED BY <1>e, <3>1, HeldType DEF TypeOK
  <2>5. aside' \subseteq TracedAside
    <3> DEFINE a == [path |-> p, entry |-> e, content |-> local[p]]
    <3>1. aside' = aside \/ (local[p] # None /\ aside' = aside \cup {a})
      BY <1>15, <2>p DEF RemoveChecked
    <3>2. local[p] # None => local[p] \in wasLocal[p] /\ local[p] \in Contents
      BY <1>e DEF LocalHeld, TypeOK
    <3>3. local[p] # None => a \in TracedAside
      BY <1>e, <3>2 DEF SetAside, TracedAside
    <3> QED BY <3>1, <3>3 DEF Lineage
  <2>6. UNCHANGED <<queue, call, wire, pulls, serverVars, hostVars, wasLocal>>
    BY <1>15 DEF RemoveChecked
  <2> QED BY <2>1, <2>3, <2>4, <2>5, <2>6 DEF TracedNext, Lineage, Grown
<1>16. ASSUME NEW k \in todo.checked, NEW o \in todo.fills, WriteFetched(k, o)
       PROVE  Grown /\ TracedNext
  BY <1>16, WriteFetchedTraced
<1>8. ASSUME NEW s \in todo.restores, RestoreNow(s) PROVE Grown /\ TracedNext
  <2>1. todo \in Todo /\ todo.restores \subseteq TracedAside /\ todo.fills \subseteq TracedObject
    BY DEF Lineage, TracedTodo
  <2>2. s.path \in Paths /\ s.content \in LocalHeld(s.path) /\ s.entry \in TracedEntry[s.path]
    BY <2>1 DEF TracedAside, SetAside, LocalHeld
  <2>3. todo' \in TracedTodo
    <3>1. \A S \in SUBSET TracedAside : [todo EXCEPT !.restores = S] \in TracedTodo
      BY <2>1 DEF TracedTodo, Todo, TracedAside
    <3>2. todo.restores \ {s} \in SUBSET TracedAside
      BY <2>1
    <3> QED BY <1>8, <3>1, <3>2 DEF RestoreNow
  <2>4. \A q \in Paths : local'[q] \in LocalHeld(q) /\ entries'[q] \in TracedEntry[q]
    <3>1. \/ UNCHANGED <<local, entries>>
          \/ /\ local' = [local EXCEPT ![s.path] = s.content]
             /\ entries' = [entries EXCEPT ![s.path] = s.entry]
      BY <1>8 DEF RestoreNow
    <3> QED BY <1>e, <2>2, <3>1 DEF TypeOK
  <2>5. UNCHANGED <<aside, queue, call, wire, pulls, serverVars, hostVars, wasLocal>>
    BY <1>8 DEF RestoreNow
  <2> QED BY <2>3, <2>4, <2>5 DEF TracedNext, Lineage, Grown
<1>9. ASSUME NEW o \in todo.fills, ApplyFill(o) PROVE Grown /\ TracedNext
  <2>1. o \in TracedObject /\ todo.fills \ {o} \in SUBSET TracedObject
    BY DEF Lineage, TracedTodo
  <2>2. ApplyFetched(o, todo.fills \ {o}) /\ UNCHANGED wasHost
        /\ UNCHANGED <<queue, call, wire, pulls, serverVars, hostVars>>
    BY <1>9 DEF ApplyFill
  <2>3. /\ Grown
        /\ \A q \in Paths : local'[q] \in LocalHeld(q) /\ entries'[q] \in TracedEntry[q]
        /\ todo' \in TracedTodo /\ aside' \subseteq TracedAside
    BY <2>1, <2>2, ApplyFetchedTraced
  <2> QED BY <2>2, <2>3 DEF TracedNext, Lineage
<1>10. CASE PushAnswered
  <2> DEFINE p == call.path
             e == entries[p]
             after == AfterPush(e, call, local[p])
             again == PushAgain(e, call, local[p])
  <2>1. call.job = "push" /\ call \in TracedCall /\ p \in Paths /\ local[p] \in Hash
    BY <1>10 DEF PushAnswered, TypeOK, WellFormed, Lineage
  <2>2. after \in TracedEntry[p]
    BY <1>e, <2>1, AfterPushTraced
  <2>3. [kind |-> "push", paths |-> {p}] \in TracedJob
    BY <2>1 DEF TracedJob, Push
  <2>4. /\ entries' = IF e.known THEN [entries EXCEPT ![p] = after] ELSE entries
        /\ queue' = IF e.known /\ again THEN Append(queue, [kind |-> "push", paths |-> {p}])
                    ELSE queue
        /\ call' = NoCall
        /\ UNCHANGED <<local, aside, todo, wire, pulls, serverVars, hostVars, wasLocal>>
    BY <1>10 DEF PushAnswered
  <2> HIDE DEF again, after, p
  <2>5. \A q \in Paths : entries'[q] \in TracedEntry[q]
    BY <1>e, <2>1, <2>2, <2>4 DEF TypeOK
  <2>6. queue' \in Seq(TracedJob)
    BY <2>3, <2>4 DEF Lineage
  <2> QED BY <2>4, <2>5, <2>6, NothingTraced DEF TracedNext, Lineage, Grown
<1>11. CASE KeepAnswered
  <2> DEFINE p == call.path
             e == entries[p]
             kept == [e EXCEPT !.conflict = FALSE, !.pending = FALSE, !.base = call.row.hash,
                               !.remote = IF e.hasRemote THEN call.row ELSE @,
                               !.localOnly = IF e.hasRemote THEN @ ELSE TRUE]
  <2>1. /\ p \in Paths /\ call.row \in Row /\ call.row.hash \in Hash
        /\ call.row.hash \in HostHeld(p) /\ call.content \in LocalHeld(p)
        /\ call.ok => call.row.hash = call.content
    BY <1>11 DEF KeepAnswered, TypeOK, WellFormed, Call, Row, Lineage, TracedCall
  <2>2. kept \in Entry /\ kept.base = call.row.hash /\ kept.remote \in {e.remote, call.row}
        /\ kept.unack = e.unack
    <3>1. e \in Entry
      BY <1>e, <2>1
    <3> HIDE DEF e
    <3> DEFINE r == IF e.hasRemote THEN call.row ELSE e.remote
               b == IF e.hasRemote THEN e.localOnly ELSE TRUE
               h == call.row.hash
    <3>2. r \in {e.remote, call.row} /\ r \in Row /\ b \in BOOLEAN /\ h \in Hash
      BY <2>1, <3>1 DEF Entry
    <3>3. kept = [e EXCEPT !.conflict = FALSE, !.pending = FALSE, !.base = h,
                           !.remote = r, !.localOnly = b]
      OBVIOUS
    <3> HIDE DEF kept, r, b, h
    <3>4. kept \in Entry /\ kept.base = h /\ kept.remote = r /\ kept.unack = e.unack
      BY <3>1, <3>2, <3>3 DEF Entry
    <3> QED BY <3>2, <3>4 DEF h
  <2>3. /\ \/ entries' = entries \/ entries' = [entries EXCEPT ![p] = NoEntry]
           \/ call.ok /\ entries' = [entries EXCEPT ![p] = kept]
        /\ call' = NoCall
        /\ UNCHANGED <<local, aside, queue, todo, wire, pulls, serverVars, hostVars, wasLocal>>
    BY <1>11 DEF KeepAnswered
  <2> HIDE DEF p, kept
  <2>4. call.ok => kept \in TracedEntry[p]
    BY <1>e, <2>1, <2>2, TracedEntryDef
  <2>5. \A q \in Paths : entries'[q] \in TracedEntry[q]
    BY <1>e, <2>1, <2>3, <2>4, NothingTraced DEF TypeOK
  <2> QED BY <2>3, <2>5, NothingTraced DEF TracedNext, Lineage, Grown
<1>12. CASE TakeAnswered
  <2> DEFINE p == call.path
             taken == [entries[p] EXCEPT !.conflict = FALSE, !.pending = FALSE,
                                         !.localOnly = FALSE, !.hasRemote = TRUE,
                                         !.base = call.row.hash, !.remote = call.row]
  <2>1. p \in Paths /\ call.row \in Row /\ call.row.hash \in Hash /\ call.row.hash \in HostHeld(p)
    BY <1>12 DEF TakeAnswered, TypeOK, WellFormed, Call, Row, Lineage, TracedCall
  <2>2. taken \in Entry /\ taken.base = call.row.hash /\ taken.remote = call.row
        /\ taken.unack = entries[p].unack
    <3> DEFINE e == entries[p]
               r == call.row
               h == call.row.hash
    <3>1. e \in Entry /\ r \in Row /\ h \in Hash
      BY <1>e, <2>1
    <3>2. taken = [e EXCEPT !.conflict = FALSE, !.pending = FALSE, !.localOnly = FALSE,
                            !.hasRemote = TRUE, !.base = h, !.remote = r]
      OBVIOUS
    <3> HIDE DEF taken, e, r, h
    <3>3. taken \in Entry /\ taken.base = h /\ taken.remote = r /\ taken.unack = e.unack
      BY <3>1, <3>2 DEF Entry
    <3> QED BY <3>3 DEF e, r, h
  <2>3. /\ TreeTakes(p, call.row.hash)
        /\ \/ entries' = entries \/ entries' = [entries EXCEPT ![p] = NoEntry]
           \/ entries' = [entries EXCEPT ![p] = taken]
        /\ call' = NoCall
        /\ UNCHANGED <<aside, queue, todo, wire, pulls, serverVars, hostVars>>
    BY <1>12 DEF TakeAnswered
  <2> HIDE DEF p, taken
  <2> DEFINE hash == call.row.hash
  <2>4. \A q \in Paths : wasLocal[q] \subseteq wasLocal'[q] /\ local'[q] \in LocalHeld(q)'
                         /\ local'[p] = hash
    <3> HIDE DEF hash
    <3> QED BY <2>1, <2>3, TreeTakesTraced DEF hash
  <2>5. Grown
    BY <2>3, <2>4 DEF Grown
  <2>6. taken \in TracedEntry'[p]
    <3>1. entries[p].unack \in Seq(wasLocal'[p])
      BY <1>e, <2>1, <2>4, SeqGrows
    <3>2. hash \in wasHost[p] \cup {None} /\ hash \in wasLocal'[p] \cup {None}
      <4>1. local'[p] \in wasLocal'[p] \cup {None}
        BY <2>1, <2>4 DEF LocalHeld
      <4> QED BY <2>1, <2>4, <4>1 DEF HostHeld
    <3>3. TracedEntry'[p] = {x \in Entry : /\ x.base \in (wasLocal'[p] \cup {None}) \cap (wasHost'[p] \cup {None})
                                           /\ x.remote.hash \in wasHost'[p] \cup {None}
                                           /\ x.unack \in Seq(wasLocal'[p])}
      BY <2>1 DEF TracedEntry, LocalHeld, HostHeld
    <3>4. wasHost' = wasHost
      BY <2>3
    <3> QED BY <2>2, <3>1, <3>2, <3>3, <3>4
  <2>7. \A q \in Paths : entries'[q] \in TracedEntry[q] \cup TracedEntry'[q]
    BY <1>e, <2>1, <2>3, <2>6, NothingTraced DEF TypeOK
  <2> QED BY <2>3, <2>4, <2>5, <2>7, NothingTraced DEF TracedNext, Lineage
<1>13. CASE FetchAnswered
  <2> DEFINE o == [kind |-> "object", path |-> call.path, row |-> call.row, delta |-> None]
  <2>1. o \in TracedObject
    <3>1. call.path \in Paths /\ call.row \in Row /\ call.row.hash \in HostHeld(call.path)
      BY <1>13 DEF FetchAnswered, TypeOK, WellFormed, Call, Lineage, TracedCall
    <3> QED BY <3>1 DEF TracedObject, Object, Hash
  <2>2. ApplyFetched(o, {}) /\ {} \in SUBSET TracedObject /\ UNCHANGED wasHost
        /\ call' = NoCall /\ UNCHANGED <<queue, wire, pulls, serverVars, hostVars>>
    BY <1>13 DEF FetchAnswered
  <2> HIDE DEF o
  <2>3. /\ Grown
        /\ \A q \in Paths : local'[q] \in LocalHeld(q) /\ entries'[q] \in TracedEntry[q]
        /\ todo' \in TracedTodo /\ aside' \subseteq TracedAside
    BY <2>1, <2>2, ApplyFetchedTraced
  <2> QED BY <2>2, <2>3, NothingTraced DEF TracedNext, Lineage
<1>14. CASE SyncAnswered
  <2> DEFINE listed == {p \in Paths : call.rows[p].hash # None}
             fresh(p) == [entries[p] EXCEPT !.pushed = 0]
             R == [p \in Paths |->
                     IF p \in listed
                     THEN ReconcileRow(fresh(p), local[p], call.rows[p], call.manifest)
                     ELSE IF entries[p].known THEN ReconcileDelete(fresh(p), local[p])
                     ELSE [entry |-> entries[p], act |-> "none"]]
  <2>1. /\ Execute(R, call.rows, {}, queue)
        /\ call' = NoCall
        /\ UNCHANGED <<local, wire, serverVars, hostVars, wasLocal>>
    BY <1>14 DEF SyncAnswered
  <2>2. call.rows \in TracedRows /\ call.manifest \in Nat
    BY DEF TypeOK, WellFormed, Call, Lineage, TracedCall
  <2>3. \A p \in Paths : R[p].entry \in TracedEntry[p]
    <3> SUFFICES ASSUME NEW p \in Paths PROVE R[p].entry \in TracedEntry[p]
      OBVIOUS
    <3>1. call.rows[p] \in Row /\ call.rows[p].hash \in HostHeld(p)
      BY <2>2 DEF TracedRows
    <3>2. fresh(p) \in TracedEntry[p]
      <4> DEFINE n == fresh(p)
      <4>1. n \in Entry /\ n.base = entries[p].base /\ n.remote = entries[p].remote
            /\ n.unack = entries[p].unack
        BY <1>e DEF Entry
      <4> HIDE DEF n
      <4>2. n \in TracedEntry[p]
        BY <1>e, <4>1, TracedEntryDef
      <4> QED BY <4>2 DEF n
    <3> HIDE DEF listed, fresh
    <3>3. ReconcileRow(fresh(p), local[p], call.rows[p], call.manifest).entry \in TracedEntry[p]
      BY <1>e, <2>2, <3>1, <3>2, ReconcileRowTraced
    <3>4. ReconcileDelete(fresh(p), local[p]).entry \in TracedEntry[p]
      BY <1>e, <3>2, ReconcileDeleteTraced
    <3> QED BY <1>e, <3>3, <3>4
  <2> HIDE DEF listed, R
  <2>4. /\ \A p \in Paths : entries'[p] \in TracedEntry[p]
        /\ queue' \in Seq(TracedJob) /\ pulls' \in Seq(TracedPull)
        /\ todo' \in TracedTodo /\ aside' \subseteq TracedAside
    <3>1. queue \in Seq(TracedJob) /\ {} \in SUBSET Paths
      BY DEF Lineage
    <3> QED BY <2>1, <2>2, <2>3, <3>1, ExecuteTraced
  <2> QED BY <2>1, <2>4, NothingTraced DEF TracedNext, Lineage, Grown
<1> QED
  BY <1>1, <1>2, <1>3, <1>4, <1>5, <1>6, <1>7, <1>8, <1>9, <1>10, <1>11, <1>12, <1>13, <1>14,
     <1>15, <1>16
  DEF Worker

-----------------------------------------------------------------------------
(* The theorems *)

(* At the start each record is its own file, which both sides have held. *)
LEMMA InitLineage == Init => Lineage
<1> SUFFICES ASSUME Init PROVE Lineage
  OBVIOUS
<1>1. TypeOK
  BY InitTypeOK
<1>2. \A p \in Paths : local[p] \in LocalHeld(p) /\ local[p] \in HostHeld(p)
                       /\ host[p] \in HostHeld(p) /\ local[p] \in Hash
  BY DEF Init, LocalHeld, HostHeld
<1>3. ASSUME NEW p \in Paths PROVE entries[p] \in TracedEntry[p]
  <2> DEFINE n == [NoEntry EXCEPT !.known = TRUE, !.hasRemote = TRUE, !.base = local[p],
                                  !.remote = [hash |-> local[p], ver |-> 0]]
  <2>1. entries[p] = NoEntry \/ entries[p] = n
    BY DEF Init
  <2>2. n \in Entry /\ n.base = local[p] /\ n.remote.hash = local[p] /\ n.unack = NoEntry.unack
    BY <1>2, NoEntryType DEF Entry, Row
  <2>3. NoEntry.unack \in Seq(wasLocal[p])
    BY NothingTraced, TracedEntryDef
  <2> HIDE DEF n
  <2>4. n \in TracedEntry[p]
    BY <1>2, <2>2, <2>3, TracedEntryDef
  <2> QED BY <2>1, <2>4, NothingTraced
<1>4. queue \in Seq(TracedJob) /\ wire \in Seq(TracedFrame) /\ pulls \in Seq(TracedPull)
  <2>1. queue = <<>> /\ wire = <<>> /\ pulls = <<>>
    BY DEF Init
  <2> QED BY <2>1
<1>5. todo \in TracedTodo
  <2>1. todo = NothingToDo
    BY DEF Init
  <2> QED BY <2>1, NoCallType DEF NothingToDo, TracedTodo
<1>6. call \in TracedCall
  BY NothingTraced DEF Init
<1>7. aside \subseteq TracedAside /\ late \subseteq TracedWrite
  BY DEF Init
<1> QED
  BY <1>2, <1>3, <1>4, <1>5, <1>6, <1>7 DEF Lineage

(* Lineage is inductive, relative to the types. *)
THEOREM LineageHolds == Spec => []Lineage
<1>1. ASSUME TypeOK, Lineage, UNCHANGED vars PROVE Lineage'
  <2>1. UNCHANGED <<local, host, entries, queue, wire, pulls, aside, todo, call, late, wasLocal,
                    wasHost>>
    BY <1>1 DEF vars, hostVars, serverVars
  <2>2. Grown /\ TracedNext
    BY <1>1, <2>1 DEF Grown, TracedNext, Lineage
  <2> QED BY <1>1, <2>2, NextTraced
<1>2. TypeOK /\ Lineage /\ [Next]_vars => Lineage'
  BY <1>1, NextTraced, UserTraced, ServerTraced, LinkTraced, WorkerTraced DEF Next
<1> QED
  BY <1>2, InitLineage, TypeCorrect, PTL DEF Spec

(* In every record of every reachable state, however many files, bytes,      *)
(* faults and edits there are, the base is a version that both tree/ and the *)
(* host have held.                                                           *)
THEOREM BaseShared == Spec => []BaseIsShared
<1>1. Lineage => BaseIsShared
  BY TracedEntryDef DEF Lineage, BaseIsShared, LocalHeld, HostHeld
<1> QED
  BY <1>1, LineageHolds, PTL

(* What a write of the server replaces: bytes it was told to expect. *)
LEMMA ServerReplaces ==
  ASSUME TypeOK, Lineage, NEW p \in Paths, host'[p] # host[p], ~KeepRequested(p), ~Raced(p),
         ServerWrite \/ \E r \in late : LateWrite(r)
  PROVE  host[p] \in wasLocal[p] \cup {None}
<1> USE DEF hostVars
<1>1. CASE ServerWrite
  <2>1. call.job \in {"push", "keep"} /\ call.st = "checked" /\ Replaced(call)
        /\ call \in TracedCall /\ call.path \in Paths /\ host \in [Paths -> Hash]
    BY <1>1 DEF ServerWrite, Lineage, TypeOK, WellFormed
  <2>2. HostTakes(call.path, call.content)
    BY <2>1 DEF Replaced
  <2>3. p = call.path
    BY <2>1, <2>2 DEF HostTakes
  <2>4. call.job = "push" /\ call.expect = host[p]
    BY <2>1, <2>3 DEF KeepRequested, Raced
  <2> QED BY <2>1, <2>3, <2>4 DEF TracedCall, LocalHeld
<1>2. ASSUME NEW r \in late, LateWrite(r) PROVE host[p] \in wasLocal[p] \cup {None}
  <2>1. r \in TracedWrite /\ r \in Write /\ r.path \in Paths /\ r.checked /\ Replaced(r)
        /\ host \in [Paths -> Hash]
    BY <1>2 DEF LateWrite, Lineage, TypeOK, Write
  <2>2. HostTakes(r.path, r.content)
    BY <2>1 DEF Replaced
  <2>3. p = r.path
    BY <2>1, <2>2 DEF HostTakes
  <2>4. r.job = "push" /\ r.expect = host[p]
    BY <2>1, <2>3 DEF KeepRequested, Raced, Write
  <2> QED BY <2>1, <2>3, <2>4 DEF TracedWrite, LocalHeld
<1> QED
  BY <1>1, <1>2

(* Only these two write the host's files; a host process counts as an edit. *)
LEMMA HostChanges ==
  ASSUME TypeOK, Next, host' # host, count'.edits = count.edits
  PROVE  ServerWrite \/ \E r \in late : LateWrite(r)
<1> USE DEF hostVars
<1>1. CASE Worker
  BY <1>1 DEF Worker, NotifyLocalWrite, SyncNow, ApplyWatchDelta, ApplyPulled,
     ApproveHeldDeletes, PushNow, DeleteNow, RestoreNow, ApplyFill, PushAnswered, KeepAnswered,
     TakeAnswered, FetchAnswered, SyncAnswered, RemoveChecked, WriteFetched
<1>2. CASE Server
  BY <1>2 DEF Server, TreeQueue, IoQueue, ServerCheck, ServerAnswer, ServerRead, ServerPulled,
     ServerPull, LateCheck, ServerManifest, PublishWatchBatch
<1>3. CASE User
  <2>1. ASSUME NEW p \in Paths, NEW c \in Hash, HostEdit(p, c) PROVE FALSE
    BY <2>1 DEF HostEdit, TypeOK, Count
  <2> QED BY <1>3, <2>1 DEF User, SaveWrite, SaveNotify, ToolWrite, Prioritize, TakeRemote,
             KeepLocal, RequestApproval
<1>4. CASE Link
  BY <1>4 DEF Link, Failure, Deliver, DropLink, TimeOut, ErrorAnswer, WatchBatchFails,
     BatchFails, ObjectFails, DeleteFails, WriteFails, Reconnect
<1> QED
  BY <1>1, <1>2, <1>3, <1>4 DEF Next

(* A push, however late it lands, destroys only bytes that tree/ has held:   *)
(* its precondition is a base, and the base is a version tree/ has had.  The *)
(* user's `keep mine' and the server's window after its check are excepted.  *)
THEOREM HostKept == Spec => NoSilentHostLoss
<1> DEFINE Kept(p) == (host'[p] # host[p] /\ count'.edits = count.edits
                         /\ ~KeepRequested(p) /\ ~Raced(p))
                        => host[p] \in wasLocal[p] \cup {None}
<1>1. TypeOK /\ Lineage /\ [Next]_vars => [\A p \in Paths : Kept(p)]_vars
  BY ServerReplaces, HostChanges
<1> QED
  BY <1>1, TypeCorrect, LineageHolds, PTL DEF Spec, NoSilentHostLoss

-----------------------------------------------------------------------------
(***************************************************************************)
(* No save is forgotten.  PushNow clears `pending' by what its answer says  *)
(* of the bytes it sent; that they are still the bytes of tree/, or a newer *)
(* save is on its way to the worker, is what Sending adds.                  *)
(***************************************************************************)
Excused(p) == p \in unannounced \/ Noted(p)
Flagged(e) == e.known /\ (e.pending \/ e.conflict)
Resting ==
    todo.deletes = {} /\ todo.restores = {} /\ todo.fills = {} /\ todo.checked = {}

(* While the worker waits for the host it has nothing to do on disk, a push's  *)
(* path stays pending, and the bytes sent are tree/'s or have been replaced by  *)
(* a write that is accounted for by itself.                                     *)
Sending ==
    /\ call.job # "none" => Resting
    /\ call.job = "push" => entries[call.path].known /\ entries[call.path].pending
    /\ call.job \in {"push", "keep"} => local[call.path] = call.content \/ Excused(call.path)

(* Between the comparison of a file and its replacement the record stands as   *)
(* it was read: unmarked, and its base what was compared, for a delete if there *)
(* is a base, for a pull if there was a file.                                   *)
Comparing ==
    \A k \in todo.checked :
        /\ todo.checked = {k}
        /\ entries[k.path].known /\ ~entries[k.path].pending /\ ~entries[k.path].conflict
        /\ \/ k.path \in todo.deletes /\ entries[k.path].base \in {None, k.was}
           \/ todo.deletes = {} /\ k.was \in {None, entries[k.path].base}

Tallied == Sending /\ Comparing /\ SaveAccounted

OnQueue(q, p) == \E i \in 1..Len(q) : q[i].kind = "note" /\ q[i].path = p

(* A note stays queued, whatever is put behind it or taken before it. *)
LEMMA NoteStays ==
  ASSUME NEW s \in Seq(Job), NEW p, OnQueue(s, p)
  PROVE  /\ \A x \in Job : OnQueue(Append(s, x), p)
         /\ Head(s).kind # "note" \/ Head(s).path # p =>
               OnQueue(Tail(s), p) /\ \A x \in Job : OnQueue(<<x>> \o Tail(s), p)
         /\ OnQueue(Without(s, "sync"), p)
<1>1. PICK i \in 1..Len(s) : s[i].kind = "note" /\ s[i].path = p
  BY DEF OnQueue
<1>2. ASSUME NEW x \in Job PROVE OnQueue(Append(s, x), p)
  <2>1. i \in 1..Len(Append(s, x)) /\ Append(s, x)[i] = s[i]
    OBVIOUS
  <2> QED BY <1>1, <2>1 DEF OnQueue
<1>3. ASSUME Head(s).kind # "note" \/ Head(s).path # p
      PROVE  OnQueue(Tail(s), p) /\ \A x \in Job : OnQueue(<<x>> \o Tail(s), p)
  <2>1. i # 1
    BY <1>1, <1>3
  <2>2. s # <<>> /\ Tail(s) \in Seq(Job) /\ Len(Tail(s)) = Len(s) - 1
    OBVIOUS
  <2>3. i - 1 \in 1..Len(Tail(s)) /\ Tail(s)[i - 1] = s[i]
    BY <2>1, <2>2
  <2>4. OnQueue(Tail(s), p)
    BY <1>1, <2>3 DEF OnQueue
  <2>5. ASSUME NEW x \in Job PROVE OnQueue(<<x>> \o Tail(s), p)
    <3> DEFINE t == Tail(s)
    <3>1. t \in Seq(Job) /\ i - 1 \in 1..Len(t) /\ t[i - 1] = s[i]
      BY <2>2, <2>3
    <3> HIDE DEF t
    <3>2. Len(<<x>> \o t) = 1 + Len(t) /\ i \in 1..Len(<<x>> \o t) /\ (<<x>> \o t)[i] = t[i - 1]
      BY <2>1, <3>1
    <3>3. OnQueue(<<x>> \o t, p)
      BY <1>1, <3>1, <3>2 DEF OnQueue
    <3> QED BY <3>3 DEF t
  <2> QED BY <2>4, <2>5
<1>4. OnQueue(Without(s, "sync"), p)
  <2>1. CASE ~(\E k \in 1..Len(s) : s[k].kind = "sync")
    BY <2>1 DEF Without
  <2>2. CASE \E k \in 1..Len(s) : s[k].kind = "sync"
    <3> DEFINE d == CHOOSE k \in 1..Len(s) : s[k].kind = "sync"
    <3>1. d \in 1..Len(s) /\ s[d].kind = "sync" /\ Without(s, "sync") = RemoveAt(s, d)
      BY <2>2 DEF Without
    <3> HIDE DEF d
    <3> DEFINE a == SubSeq(s, 1, d - 1)
               b == SubSeq(s, d + 1, Len(s))
    <3>2. a \in Seq(Job) /\ Len(a) = d - 1 /\ \A k \in 1..d - 1 : a[k] = s[k]
      BY <3>1
    <3>3. b \in Seq(Job) /\ Len(b) = Len(s) - d /\ \A k \in 1..Len(s) - d : b[k] = s[k + d]
      BY <3>1
    <3>4. RemoveAt(s, d) = a \o b
      BY DEF RemoveAt
    <3> HIDE DEF a, b
    <3>5. i # d
      BY <1>1, <3>1
    <3>6. CASE i < d
      <4>1. i \in 1..Len(a) /\ a[i] = s[i]
        BY <3>1, <3>2, <3>6
      <4>2. i \in 1..Len(a \o b) /\ (a \o b)[i] = a[i]
        BY <3>2, <3>3, <4>1
      <4> QED BY <1>1, <3>1, <3>4, <4>1, <4>2 DEF OnQueue
    <3>7. CASE i > d
      <4>1. i - d \in 1..Len(b) /\ b[i - d] = s[i]
        BY <3>1, <3>3, <3>7
      <4>2. i - 1 \in 1..Len(a \o b) /\ (a \o b)[i - 1] = b[i - d]
        BY <3>1, <3>2, <3>3, <3>7, <4>1
      <4> QED BY <1>1, <3>1, <3>4, <4>1, <4>2 DEF OnQueue
    <3> QED BY <3>1, <3>5, <3>6, <3>7
  <2> QED BY <2>1, <2>2
<1> QED BY <1>2, <1>3, <1>4

(* What keeps the books of one path over a step. *)
LEMMA Accounting ==
  ASSUME SaveAccounted,
         \A p \in Paths :
            \/ local'[p] \in HostHeld(p)' \/ Excused(p)' \/ Flagged(entries'[p])
            \/ /\ local'[p] = local[p] /\ wasHost[p] \subseteq wasHost'[p]
               /\ Excused(p) => Excused(p)'
               /\ Flagged(entries[p]) => Flagged(entries'[p])
  PROVE  SaveAccounted'
BY DEF SaveAccounted, HostHeld, Excused, Flagged

(* A step that neither writes tree/ nor clears a mark, nor starts a request. *)
LEMMA TalliedFrame ==
  ASSUME TypeOK, Tallied, local' = local, todo' = todo,
         \A p \in Paths : /\ entries'[p].known = entries[p].known
                          /\ entries'[p].base = entries[p].base
                          /\ entries'[p].pending = entries[p].pending
                          /\ entries'[p].conflict = entries[p].conflict
                          /\ wasHost[p] \subseteq wasHost'[p]
                          /\ Excused(p) => Excused(p)',
         \/ call'.job = "none"
         \/ call'.job = call.job /\ call'.path = call.path /\ call'.content = call.content
  PROVE  Tallied'
<1>1. SaveAccounted'
  BY Accounting DEF Tallied, Flagged
<1>2. Comparing'
  <2>1. \A k \in todo.checked : k.path \in Paths
    BY CheckedType
  <2> QED BY <2>1 DEF Tallied, Comparing
<1>3. Sending'
  <2>1. CASE call'.job = "none"
    BY <2>1 DEF Sending
  <2>2. CASE call'.job = call.job /\ call'.path = call.path /\ call'.content = call.content
    <3>1. call.job \in {"push", "keep"} => call.path \in Paths
      BY DEF TypeOK, WellFormed
    <3> QED BY <2>2, <3>1 DEF Tallied, Sending, Resting
  <2> QED BY <2>1, <2>2
<1> QED BY <1>1, <1>2, <1>3 DEF Tallied

(* Excuses stand as long as saves stay unannounced or queued. *)
LEMMA ExcuseStays ==
  ASSUME NEW p \in Paths, p \in saving => p \in saving',
         p \in unannounced => p \in unannounced', OnQueue(queue, p) => OnQueue(queue', p)
  PROVE  Excused(p) => Excused(p)'
BY DEF Excused, Noted, OnQueue

(* A mirror just opened holds no bytes the host has not held. *)
LEMMA InitTallied == Init => Tallied
<1> SUFFICES ASSUME Init PROVE Tallied
  OBVIOUS
<1>1. call.job = "none" /\ todo.checked = {}
  BY DEF Init, NoCall, NothingToDo
<1>2. \A p \in Paths : local[p] \in wasHost[p] \cup {None}
  BY DEF Init
<1> QED BY <1>1, <1>2 DEF Tallied, Sending, Comparing, SaveAccounted

(* The server's steps and the link's. *)
LEMMA OutsideTallied ==
  ASSUME TypeOK, Lineage, Tallied, Server \/ Link
  PROVE  Tallied'
<1>1. CASE Server
  <2>1. UNCHANGED <<local, entries, aside, todo, queue, saving, unannounced>>
    BY <1>1 DEF Server, TreeQueue, IoQueue, ServerCheck, ServerWrite, ServerAnswer, ServerRead,
       ServerPulled, ServerPull, LateCheck, LateWrite, ServerManifest, PublishWatchBatch
  <2>2. Grown
    BY <1>1, ServerTraced
  <2>3. call'.job = call.job /\ call'.path = call.path /\ call'.content = call.content
    <3>1. call \in Call
      BY DEF TypeOK, WellFormed
    <3>2. CASE ServerCheck
      BY <3>1, <3>2 DEF ServerCheck, Call
    <3>3. CASE ServerWrite
      BY <3>1, <3>3 DEF ServerWrite, Call
    <3>4. CASE ServerAnswer
      BY <3>1, <3>4 DEF ServerAnswer, Call
    <3>5. CASE ServerRead
      BY <3>1, <3>5 DEF ServerRead, Call
    <3>6. CASE ServerManifest
      BY <3>1, <3>6 DEF ServerManifest, Call
    <3> QED BY <1>1, <3>2, <3>3, <3>4, <3>5, <3>6 DEF Server, TreeQueue, IoQueue, ServerPulled,
               ServerPull, LateCheck, LateWrite, PublishWatchBatch
  <2>4. \A p \in Paths : Excused(p) => Excused(p)'
    BY <2>1 DEF Excused, Noted
  <2> QED BY <2>1, <2>2, <2>3, <2>4, TalliedFrame DEF Grown
<1>2. ASSUME Link PROVE Grown
  BY <1>2, LinkTraced
<1>3. queue \in Seq(Job) /\ entries \in [Paths -> Entry] /\ call \in Call
  BY DEF TypeOK, WellFormed
<1>4. NoCall.job = "none"
  BY DEF NoCall
<1>5. ASSUME NEW p \in Paths, NEW u, entries' = [entries EXCEPT ![p].unack = u]
      PROVE  \A q \in Paths : /\ entries'[q].known = entries[q].known
                              /\ entries'[q].base = entries[q].base
                              /\ entries'[q].pending = entries[q].pending
                              /\ entries'[q].conflict = entries[q].conflict
  <2> DEFINE n == [entries[p] EXCEPT !.unack = u]
  <2>1. entries[p] \in Entry
    BY <1>3
  <2>2. /\ n.known = entries[p].known /\ n.pending = entries[p].pending
        /\ n.conflict = entries[p].conflict /\ n.base = entries[p].base
    BY <2>1 DEF Entry
  <2>3. \A q \in Paths : entries'[q] = IF q = p THEN n ELSE entries[q]
    BY <1>3, <1>5
  <2> HIDE DEF n
  <2> QED BY <2>2, <2>3
<1>6. CASE Deliver
  <2>1. UNCHANGED <<local, entries, aside, todo, saving, unannounced>>
    BY <1>6 DEF Deliver
  <2>2. call'.job = call.job /\ call'.path = call.path /\ call'.content = call.content
    BY <1>3, <1>6 DEF Deliver, Call
  <2>3. \A p \in Paths : OnQueue(queue, p) => OnQueue(queue', p)
    <3>1. CASE queue' = queue
      BY <3>1
    <3>2. CASE queue' = Append(queue, Head(wire)) /\ Head(wire).kind # "manifest"
      <4>1. wire \in Seq(Object \cup WatchDelta \cup Manifest) /\ wire # <<>>
        BY <1>6 DEF TypeOK, Deliver
      <4>2. Head(wire) \in Object \cup WatchDelta \cup Manifest
        BY <4>1
      <4>3. Head(wire) \in Job
        BY <3>2, <4>2 DEF Manifest, Job
      <4> QED BY <1>3, <3>2, <4>3, NoteStays
    <3> QED BY <1>6, <3>1, <3>2 DEF Deliver
  <2>4. \A p \in Paths : Excused(p) => Excused(p)'
    BY <2>1, <2>3, ExcuseStays
  <2>5. Grown
    BY <1>2, <1>6 DEF Link
  <2> QED BY <2>1, <2>2, <2>4, <2>5, TalliedFrame DEF Grown
<1>7. CASE DropLink \/ TimeOut \/ ErrorAnswer
  <2>1. UNCHANGED <<local, aside, todo, saving, unannounced, queue>>
    BY <1>7 DEF DropLink, TimeOut, ErrorAnswer
  <2>2. call' = NoCall \/ (entries' = entries /\ call' = call)
    BY <1>7 DEF DropLink, TimeOut, ErrorAnswer, GiveUp
  <2>3. \/ entries' = entries
        \/ /\ call.job = "push"
           /\ \E u : entries' = [entries EXCEPT ![call.path].unack = u]
    BY <1>7 DEF DropLink, TimeOut, ErrorAnswer, GiveUp
  <2>4. call.job = "push" => call.path \in Paths
    BY DEF TypeOK, WellFormed
  <2>5. \A q \in Paths : /\ entries'[q].known = entries[q].known
                         /\ entries'[q].base = entries[q].base
                         /\ entries'[q].pending = entries[q].pending
                         /\ entries'[q].conflict = entries[q].conflict
    BY <1>5, <2>3, <2>4
  <2>6. \A p \in Paths : Excused(p) => Excused(p)'
    BY <2>1 DEF Excused, Noted
  <2>7. Grown
    BY <1>2, <1>7 DEF Link, Failure
  <2> QED BY <1>4, <2>1, <2>2, <2>5, <2>6, <2>7, TalliedFrame DEF Grown
<1>8. CASE WatchBatchFails \/ BatchFails \/ \E p \in Paths : ObjectFails(p)
  <2>1. UNCHANGED <<local, entries, todo, saving, unannounced, queue, call, wasHost>>
    BY <1>8 DEF WatchBatchFails, BatchFails, ObjectFails, hostVars
  <2>2. \A p \in Paths : Excused(p) => Excused(p)'
    BY <2>1 DEF Excused, Noted
  <2> QED BY <2>1, <2>2, TalliedFrame
<1>9. ASSUME NEW fresh \in BOOLEAN, Reconnect(fresh) PROVE Tallied'
  <2>1. UNCHANGED <<local, entries, aside, todo, saving, unannounced, call, wasHost>>
    BY <1>9 DEF Reconnect, hostVars
  <2>2. queue' = Append(Without(queue, "sync"), [kind |-> "sync"])
    BY <1>9 DEF Reconnect
  <2>3. Without(queue, "sync") \in Seq(Job) /\ [kind |-> "sync"] \in Job
    BY <1>3, WithoutType DEF Job, Sync
  <2>4. \A p \in Paths : OnQueue(queue, p) => OnQueue(queue', p)
    BY <1>3, <2>2, <2>3, NoteStays
  <2>5. \A p \in Paths : Excused(p) => Excused(p)'
    BY <2>1, <2>4, ExcuseStays
  <2> QED BY <2>1, <2>5, TalliedFrame
<1>10. ASSUME NEW k \in todo.checked,
              DeleteFails(k) \/ \E o \in todo.fills : WriteFails(k, o)
       PROVE  Tallied'
  <2>1. UNCHANGED <<local, entries, saving, unannounced, queue, call, wasHost>>
    BY <1>10 DEF DeleteFails, WriteFails, hostVars
  <2>2. call'.job = "none"
    BY <2>1 DEF Tallied, Sending, Resting
  <2>3. todo'.checked = {}
    BY <1>10 DEF DeleteFails, WriteFails, AfterDelete, TypeOK, Todo
  <2>4. Sending' /\ Comparing'
    BY <2>2, <2>3 DEF Sending, Comparing
  <2>5. \A p \in Paths : Excused(p) => Excused(p)'
    BY <2>1 DEF Excused, Noted
  <2>6. SaveAccounted'
    BY <2>1, <2>5, Accounting DEF Tallied
  <2> QED BY <2>4, <2>6 DEF Tallied
<1> QED BY <1>1, <1>6, <1>7, <1>8, <1>9, <1>10 DEF Link, Failure

(* The user's, the tools' and the host processes'. *)
LEMMA UserTallied ==
  ASSUME TypeOK, Lineage, Tallied, User
  PROVE  Tallied'
<1>1. /\ queue \in Seq(Job) /\ entries \in [Paths -> Entry] /\ local \in [Paths -> Hash]
      /\ Sending /\ Comparing /\ SaveAccounted
  BY DEF TypeOK, Tallied
<1>2. ASSUME NEW p \in Paths, NEW c \in Hash, SaveWrite(p, c) \/ ToolWrite(p, c) PROVE Tallied'
  <2>1. /\ UNCHANGED <<entries, aside, todo, queue, call, wasHost>>
        /\ local' = [local EXCEPT ![p] = c]
        /\ saving \subseteq saving' /\ unannounced \subseteq unannounced'
        /\ p \in saving' \/ p \in unannounced'
    BY <1>2 DEF SaveWrite, ToolWrite, TreeTakes, hostVars
  <2>2. \A q \in Paths : Excused(q) => Excused(q)'
    BY <2>1, ExcuseStays
  <2>3. Excused(p)'
    BY <2>1 DEF Excused, Noted
  <2>4. \A q \in Paths : q # p => local'[q] = local[q]
    BY <1>1, <2>1
  <2>5. SaveAccounted'
    BY <1>1, <2>1, <2>2, <2>3, <2>4, Accounting
  <2>6. Comparing'
    BY <1>1, <2>1 DEF Comparing
  <2>7. Sending'
    <3>1. call.job \in {"push", "keep"} => call.path \in Paths
      BY DEF TypeOK, WellFormed
    <3>2. ASSUME NEW q \in Paths, q = call.path, call.job \in {"push", "keep"}
          PROVE  local'[q] = call.content \/ Excused(q)'
      <4>1. local[q] = call.content \/ Excused(q)
        BY <1>1, <3>2 DEF Sending
      <4> QED BY <2>2, <2>3, <2>4, <4>1
    <3>3. \A q \in Paths : (q = call'.path /\ call'.job \in {"push", "keep"})
                             => local'[q] = call'.content \/ Excused(q)'
      BY <2>1, <3>2
    <3>4. call'.job \in {"push", "keep"} => local'[call'.path] = call'.content \/ Excused(call.path)'
      BY <2>1, <3>1, <3>3
    <3> QED BY <1>1, <2>1, <3>4 DEF Sending, Resting
  <2> QED BY <2>5, <2>6, <2>7 DEF Tallied
<1>3. ASSUME NEW p \in Paths, SaveNotify(p) PROVE Tallied'
  <2>1. /\ UNCHANGED <<local, entries, aside, todo, call, wasHost>>
        /\ queue' = Append(queue, [kind |-> "note", path |-> p])
        /\ saving' = saving \ {p} /\ unannounced \ {p} \subseteq unannounced'
    BY <1>3 DEF SaveNotify, hostVars
  <2>2. [kind |-> "note", path |-> p] \in Job
    BY DEF Job, Note
  <2>3. OnQueue(queue', p)
    <3>1. Len(queue) + 1 \in 1..Len(queue') /\ queue'[Len(queue) + 1] = [kind |-> "note", path |-> p]
      BY <1>1, <2>1, <2>2
    <3> QED BY <3>1 DEF OnQueue
  <2>4. \A q \in Paths : Excused(q) => Excused(q)'
    <3>1. \A q \in Paths : OnQueue(queue, q) => OnQueue(queue', q)
      BY <1>1, <2>1, <2>2, NoteStays
    <3> QED BY <2>1, <2>3, <3>1 DEF Excused, Noted, OnQueue
  <2> QED BY <2>1, <2>4, TalliedFrame
<1>4. ASSUME NEW p \in Paths, NEW c \in Hash, HostEdit(p, c) PROVE Tallied'
  <2>1. UNCHANGED <<local, entries, aside, todo, queue, saving, unannounced, call>>
    BY <1>4 DEF HostEdit
  <2>2. Grown
    BY <1>4, UserTraced DEF User
  <2>3. \A q \in Paths : Excused(q) => Excused(q)'
    BY <2>1 DEF Excused, Noted
  <2> QED BY <2>1, <2>2, <2>3, TalliedFrame DEF Grown
<1>5. ASSUME NEW undoable \in BOOLEAN, RequestApproval(undoable) PROVE Tallied'
  <2>1. /\ UNCHANGED <<local, entries, aside, todo, saving, unannounced, call, wasHost>>
        /\ queue' = Append(queue, [kind |-> "approve", undoable |-> undoable])
    BY <1>5 DEF RequestApproval, hostVars
  <2>2. [kind |-> "approve", undoable |-> undoable] \in Job
    BY DEF Job, Approve
  <2>3. \A q \in Paths : OnQueue(queue, q) => OnQueue(queue', q)
    BY <1>1, <2>1, <2>2, NoteStays
  <2>4. \A q \in Paths : Excused(q) => Excused(q)'
    BY <2>1, <2>3, ExcuseStays
  <2> QED BY <2>1, <2>4, TalliedFrame
<1>6. ASSUME NEW p \in Paths,
             \/ Prioritize(p) \/ TakeRemote(p)
             \/ \E expect : KeepLocal(p, expect)
      PROVE  Tallied'
  <2>1. UNCHANGED <<local, entries, aside, queue, saving, unannounced, wasHost>> /\ Idle
    BY <1>6 DEF Prioritize, TakeRemote, KeepLocal, hostVars
  <2>2. todo'.checked = {}
    <3>1. CASE Prioritize(p)
      BY <3>1 DEF Prioritize, Idle, TypeOK, Todo
    <3>2. CASE todo' = todo
      BY <2>1, <3>2 DEF Idle
    <3> QED BY <1>6, <3>1, <3>2 DEF TakeRemote, KeepLocal
  <2>3. \A q \in Paths : Excused(q) => Excused(q)'
    BY <2>1 DEF Excused, Noted
  <2>4. SaveAccounted' /\ Comparing'
    <3>1. SaveAccounted'
      BY <1>1, <2>1, <2>3, Accounting
    <3> QED BY <2>2, <3>1 DEF Comparing
  <2>5. Sending'
    <3>1. CASE call' = call
      BY <2>1, <3>1 DEF Idle, Sending
    <3>2. CASE todo' = todo /\ call'.job \in {"fetch", "take"}
      BY <2>1, <3>2 DEF Idle, Sending, Resting
    <3>3. CASE todo' = todo /\ call'.job = "keep" /\ local'[call'.path] = call'.content
      BY <2>1, <3>3 DEF Idle, Sending, Resting
    <3>4. ASSUME Prioritize(p)
          PROVE  call' = call \/ (todo' = todo /\ call'.job = "fetch")
      BY <3>4 DEF Prioritize, NoCall
    <3>5. ASSUME TakeRemote(p) PROVE todo' = todo /\ call'.job = "take"
      BY <3>5 DEF TakeRemote, NoCall
    <3>6. ASSUME NEW expect, KeepLocal(p, expect)
          PROVE  todo' = todo /\ call'.job = "keep" /\ local'[call'.path] = call'.content
      BY <3>6 DEF KeepLocal, NoCall
    <3> QED BY <1>6, <3>1, <3>2, <3>3, <3>4, <3>5, <3>6
  <2> QED BY <2>4, <2>5 DEF Tallied
<1>7. Contents \subseteq Hash
  BY DEF Hash
<1> QED BY <1>2, <1>3, <1>4, <1>5, <1>6, <1>7 DEF User

-----------------------------------------------------------------------------
(* A step after which the worker waits for nobody. *)
LEMMA TalliedWorking ==
  ASSUME Tallied, call'.job = "none", Comparing',
         \A p \in Paths :
            \/ local'[p] \in HostHeld(p)' \/ Excused(p)' \/ Flagged(entries'[p])
            \/ /\ local'[p] = local[p] /\ wasHost[p] \subseteq wasHost'[p]
               /\ Excused(p) => Excused(p)'
               /\ Flagged(entries[p]) => Flagged(entries'[p])
  PROVE  Tallied'
<1>1. SaveAccounted'
  BY Accounting DEF Tallied
<1>2. Sending'
  BY DEF Sending
<1> QED BY <1>1, <1>2 DEF Tallied

(* PushNow up to its write: it takes the mark of a file that is gone only. *)
LEMMA StartPushTallied ==
  ASSUME TypeOK, Tallied, Idle, NEW p \in Paths, NEW es \in [Paths -> Entry], StartPush(p, es),
         UNCHANGED <<local, todo, wasHost>>,
         \A q \in Paths : /\ Flagged(entries[q]) => Flagged(es[q])
                          /\ Excused(q) => Excused(q)' \/ Flagged(es[q])
  PROVE  Tallied'
<1>1. local[p] # None => entries' = es
  BY DEF StartPush
<1>2. \A q \in Paths \ {p} : entries'[q] = es[q]
  BY DEF StartPush
<1>3. ASSUME NEW q \in Paths
      PROVE  \/ local'[q] \in HostHeld(q)' \/ Excused(q)' \/ Flagged(entries'[q])
             \/ /\ local'[q] = local[q] /\ wasHost[q] \subseteq wasHost'[q]
                /\ Excused(q) => Excused(q)'
                /\ Flagged(entries[q]) => Flagged(entries'[q])
  <2>1. CASE q = p /\ local[q] = None
    BY <2>1 DEF HostHeld
  <2>2. CASE ~(q = p /\ local[q] = None)
    <3>1. entries'[q] = es[q]
      BY <1>1, <1>2, <2>2
    <3> QED BY <3>1
  <2> QED BY <2>1, <2>2
<1>4. SaveAccounted' /\ Comparing'
  <2>1. SaveAccounted'
    BY <1>3, Accounting DEF Tallied
  <2> QED BY <2>1 DEF Idle, Comparing
<1>5. Sending'
  <2>1. CASE call' = call
    BY <2>1 DEF Sending, Idle
  <2>2. CASE call' # call
    <3>1. /\ es[p].known /\ es[p].pending /\ local[p] # None
          /\ call'.job = "push" /\ call'.path = p /\ call'.content = local[p]
      BY <2>2 DEF StartPush, NoCall
    <3>2. entries'[call'.path].known /\ entries'[call'.path].pending
          /\ local'[call'.path] = call'.content
      BY <1>1, <3>1
    <3> QED BY <3>1, <3>2 DEF Sending, Resting, Idle
  <2> QED BY <2>1, <2>2
<1> QED BY <1>4, <1>5 DEF Tallied

(* Execute: a plan that drops a mark, or an excuse, only where the host has  *)
(* held the bytes.                                                           *)
LEMMA ExecuteTallied ==
  ASSUME TypeOK, Tallied, NEW R, NEW rows, NEW h, NEW q \in Seq(Job), Execute(R, rows, h, q),
         UNCHANGED <<local, saving, wasHost>>, call'.job = "none",
         NEW C, unannounced' = unannounced \ C,
         \A p \in Paths : OnQueue(queue, p) => OnQueue(q, p),
         \A p \in Paths : Flagged(entries[p]) \/ p \in C
                           => Flagged(R[p].entry) \/ local[p] \in HostHeld(p)
  PROVE  Tallied'
<1> DEFINE planned(a) == {p \in Paths : R[p].act = a}
<1>1. \A p \in Paths : entries'[p] = R[p].entry
  BY DEF Execute
<1>2. Comparing'
  <2>1. todo'.checked = {}
    BY DEF Execute, PlanDeletes
  <2> QED BY <2>1 DEF Comparing
<1>3. \A p \in Paths : OnQueue(queue, p) => OnQueue(queue', p)
  <2>1. [kind |-> "push", paths |-> planned("push")] \in Job
    BY DEF Job, Push
  <2>2. queue' = q \/ queue' = Append(q, [kind |-> "push", paths |-> planned("push")])
    BY DEF Execute
  <2> HIDE DEF planned
  <2> QED BY <2>1, <2>2, NoteStays
<1>4. \A p \in Paths : p \notin C => (Excused(p) => Excused(p)')
  BY <1>3, ExcuseStays
<1>5. \A p \in Paths : local[p] \in HostHeld(p) => local'[p] \in HostHeld(p)'
  BY DEF HostHeld
<1> QED BY <1>1, <1>2, <1>4, <1>5, TalliedWorking

(* ApplyFetched up to its check: a path that holds what nobody compared is   *)
(* skipped or parked.                                                        *)
LEMMA ApplyFetchedTallied ==
  ASSUME TypeOK, Lineage, Tallied, NEW o \in TracedObject, NEW fills, ApplyFetched(o, fills),
         UNCHANGED <<saving, wasHost>>, call'.job = "none",
         todo.checked = {}, todo.deletes = {},
         \A p \in Paths : OnQueue(queue, p) => OnQueue(queue', p)
  PROVE  Tallied'
<1> DEFINE p == o.path
           e == entries[p]
           f == Fetched(e, local[p], o)
           gone == e.known /\ e.hasRemote /\ ~e.pending /\ ~e.conflict
           r == IF gone THEN ReconcileDelete(e, local[p]) ELSE [entry |-> e, act |-> "none"]
<1>1. /\ p \in Paths /\ entries \in [Paths -> Entry]
      /\ local \in [Paths -> Hash] /\ todo \in Todo
  BY DEF TracedObject, Object, TypeOK
<1>2. \A q \in Paths : (q \in unannounced => q \in unannounced') => (Excused(q) => Excused(q)')
  BY ExcuseStays
<1>3. CASE o.row.hash = None
  <2>1. /\ entries' = [entries EXCEPT ![p] = r.entry]
        /\ PlanDeletes(IF r.act = "delete" THEN {p} ELSE {}, fills, held)
        /\ UNCHANGED <<local, unannounced>>
    BY <1>3 DEF ApplyFetched
  <2>2. Comparing'
    <3>1. todo'.checked = {}
      BY <2>1 DEF PlanDeletes
    <3> QED BY <3>1 DEF Comparing
  <2>3. \A q \in Paths : Flagged(entries[q]) => Flagged(entries'[q])
    <3>1. Flagged(e) => r.entry = e
      BY DEF Flagged
    <3> HIDE DEF p, r
    <3> QED BY <1>1, <2>1, <3>1 DEF p
  <2> HIDE DEF p, r
  <2> QED BY <1>2, <2>1, <2>2, <2>3, TalliedWorking
<1>4. CASE o.row.hash # None
  <2>1. /\ entries' = IF f = "parked" THEN [entries EXCEPT ![p].conflict = TRUE] ELSE entries
        /\ local' = local
        /\ unannounced' = IF f = "parked" THEN unannounced \ {p} ELSE unannounced
        /\ todo' = IF f = "clear"
                   THEN [todo EXCEPT !.fills = fills \cup {o},
                                     !.checked = {[path |-> p, was |-> local[p]]}]
                   ELSE [todo EXCEPT !.fills = fills]
    BY <1>4 DEF ApplyFetched
  <2>2. Comparing'
    <3>1. CASE f # "clear"
      <4>1. todo'.checked = {}
        BY <1>1, <2>1, <3>1 DEF Todo
      <4> QED BY <4>1 DEF Comparing
    <3>2. CASE f = "clear"
      <4>1. todo'.checked = {[path |-> p, was |-> local[p]]} /\ todo'.deletes = {}
        BY <1>1, <2>1, <3>2 DEF Todo
      <4>2. e.known /\ ~e.pending /\ ~e.conflict /\ local[p] \in {None, e.base}
        BY <3>2 DEF Fetched, CheckLocal
      <4>3. entries' = entries
        BY <2>1, <3>2
      <4> HIDE DEF p
      <4> QED BY <4>1, <4>2, <4>3 DEF Comparing
    <3> QED BY <3>1, <3>2
  <2>3. \A q \in Paths \ {p} : /\ entries'[q] = entries[q] /\ local'[q] = local[q]
                               /\ q \in unannounced => q \in unannounced'
    <3> HIDE DEF f, p
    <3> QED BY <1>1, <2>1
  <2>4. \/ Flagged(entries'[p])
        \/ local'[p] = local[p] /\ entries'[p] = entries[p] /\ unannounced' = unannounced
    <3>2. CASE f = "parked"
      <4>1. e.known
        BY <3>2 DEF Fetched
      <4>2. e \in Entry /\ entries'[p] = [e EXCEPT !.conflict = TRUE]
        BY <1>1, <2>1, <3>2
      <4> HIDE DEF p
      <4> QED BY <4>1, <4>2 DEF Flagged, Entry
    <3>3. CASE f # "parked"
      BY <2>1, <3>3
    <3> QED BY <3>2, <3>3
  <2> HIDE DEF p
  <2>5. \A q \in Paths :
            \/ local'[q] \in HostHeld(q)' \/ Excused(q)' \/ Flagged(entries'[q])
            \/ /\ local'[q] = local[q] /\ wasHost[q] \subseteq wasHost'[q]
               /\ Excused(q) => Excused(q)'
               /\ Flagged(entries[q]) => Flagged(entries'[q])
    BY <1>2, <2>3, <2>4
  <2> QED BY <2>2, <2>5, TalliedWorking
<1> QED BY <1>3, <1>4

(* ApplyFetched's write: what lands in tree/ comes from the host, and what it *)
(* refuses to replace is parked, or as it was.                                *)
LEMMA WriteFetchedTallied ==
  ASSUME TypeOK, Lineage, Tallied, NEW k \in todo.checked, NEW o \in todo.fills,
         WriteFetched(k, o)
  PROVE  Tallied'
<1> DEFINE p == o.path
<1>1. /\ p \in Paths /\ p = k.path /\ o.row.hash \in HostHeld(p)
      /\ entries \in [Paths -> Entry] /\ local \in [Paths -> Hash] /\ todo \in Todo
      /\ entries[p] \in Entry /\ entries[p].known
  BY DEF WriteFetched, Lineage, TracedTodo, TracedObject, Object, TypeOK, Tallied, Comparing
<1>2. UNCHANGED <<saving, queue, call, wasHost>>
  BY DEF WriteFetched, hostVars
<1>3. call'.job = "none"
  BY <1>2 DEF Tallied, Sending, Resting
<1>4. Comparing'
  <2>1. todo'.checked = {}
    BY <1>1 DEF WriteFetched, Todo
  <2> QED BY <2>1 DEF Comparing
<1>5. \A q \in Paths : (q \in unannounced => q \in unannounced') => (Excused(q) => Excused(q)')
  BY <1>2, ExcuseStays
<1>6. /\ \A q \in Paths \ {p} : /\ entries'[q] = entries[q] /\ local'[q] = local[q]
                                /\ q \in unannounced => q \in unannounced'
      /\ \/ local'[p] \in HostHeld(p)' \/ Flagged(entries'[p])
         \/ local'[p] = local[p] /\ entries'[p] = entries[p] /\ unannounced' = unannounced
  <2>1. CASE FetchedWritten(k, o)
    <3>1. local' = [local EXCEPT ![p] = o.row.hash] /\ unannounced' = unannounced \ {p}
          /\ \A q \in Paths \ {p} : entries'[q] = entries[q]
      BY <1>1, <2>1 DEF FetchedWritten, TreeTakes
    <3> HIDE DEF p
    <3> QED BY <1>1, <1>2, <3>1 DEF HostHeld
  <2>2. CASE FetchedRefused(k, o)
    <3>1. /\ local' = local
          /\ \/ /\ entries' = [entries EXCEPT ![p].conflict = TRUE]
                /\ unannounced' = unannounced \ {p}
             \/ UNCHANGED <<entries, unannounced>>
      BY <2>2 DEF FetchedRefused
    <3>2. CASE entries' = [entries EXCEPT ![p].conflict = TRUE] /\ unannounced' = unannounced \ {p}
      <4>1. entries'[p] = [entries[p] EXCEPT !.conflict = TRUE]
            /\ \A q \in Paths \ {p} : entries'[q] = entries[q]
        BY <1>1, <3>2
      <4>2. entries'[p].known /\ entries'[p].conflict
        BY <1>1, <4>1 DEF Entry
      <4> QED BY <3>1, <3>2, <4>1, <4>2 DEF Flagged
    <3>3. CASE UNCHANGED <<entries, unannounced>>
      BY <3>1, <3>3
    <3> QED BY <3>1, <3>2, <3>3
  <2> QED BY <2>1, <2>2 DEF WriteFetched
<1> HIDE DEF p
<1>7. \A q \in Paths :
        \/ local'[q] \in HostHeld(q)' \/ Excused(q)' \/ Flagged(entries'[q])
        \/ /\ local'[q] = local[q] /\ wasHost[q] \subseteq wasHost'[q]
           /\ Excused(q) => Excused(q)'
           /\ Flagged(entries[q]) => Flagged(entries'[q])
  <2> SUFFICES ASSUME NEW q \in Paths
               PROVE  \/ local'[q] \in HostHeld(q)' \/ Excused(q)' \/ Flagged(entries'[q])
                      \/ /\ local'[q] = local[q] /\ wasHost[q] \subseteq wasHost'[q]
                         /\ Excused(q) => Excused(q)'
                         /\ Flagged(entries[q]) => Flagged(entries'[q])
    OBVIOUS
  <2>1. CASE q = p
    BY <1>2, <1>5, <1>6, <2>1
  <2>2. CASE q # p
    <3>1. entries'[q] = entries[q] /\ local'[q] = local[q]
          /\ (q \in unannounced => q \in unannounced')
      BY <1>6, <2>2
    <3>2. Excused(q) => Excused(q)'
      BY <1>5, <3>1
    <3>3. wasHost[q] \subseteq wasHost'[q]
      BY <1>2
    <3> QED BY <3>1, <3>2, <3>3
  <2> QED BY <2>1, <2>2
<1> QED
  BY <1>3, <1>4, <1>7, TalliedWorking

(* The worker's steps. *)
LEMMA WorkerTallied ==
  ASSUME TypeOK, Lineage, Tallied, Worker
  PROVE  Tallied'
<1> USE DEF hostVars
<1>e. /\ queue \in Seq(Job) /\ entries \in [Paths -> Entry] /\ local \in [Paths -> Hash]
      /\ todo \in Todo /\ Sending /\ Comparing /\ SaveAccounted
  BY DEF TypeOK, Tallied
<1>n. NoCall.job = "none"
  BY DEF NoCall
<1>h. ASSUME NEW kind, NextJob(kind)
      PROVE  /\ Idle /\ call.job = "none" /\ Head(queue) \in Job /\ Head(queue).kind = kind
             /\ Tail(queue) \in Seq(Job)
             /\ kind # "note" => \A q \in Paths : OnQueue(queue, q) => OnQueue(Tail(queue), q)
  <2>1. /\ Idle /\ queue # <<>> /\ Head(queue) \in Job /\ Head(queue).kind = kind
        /\ Tail(queue) \in Seq(Job)
    BY <1>e, <1>h DEF NextJob
  <2>2. kind # "note" => \A q \in Paths : OnQueue(queue, q) => OnQueue(Tail(queue), q)
    BY <1>e, <2>1, NoteStays
  <2> QED BY <2>1, <2>2 DEF Idle
<1>i. ASSUME Idle \/ call.job # "none", todo'.checked = todo.checked PROVE Comparing'
  <2>1. todo'.checked = {}
    BY <1>e, <1>i DEF Idle, Sending, Resting
  <2> QED BY <2>1 DEF Comparing
<1>1. CASE NotifyLocalWrite
  <2>1. /\ NextJob("note") /\ queue' = Tail(queue)
        /\ UNCHANGED <<local, aside, todo, wasHost, saving, unannounced>>
    BY <1>1 DEF NotifyLocalWrite
  <2>2. Head(queue).path \in Paths
    BY <1>h, <2>1 DEF Job, Note, Push, Approve, Sync, Object, WatchDelta
  <2>3. PICK p \in Paths : p = Head(queue).path
    BY <2>2
  <2> DEFINE n == [entries[p] EXCEPT !.known = TRUE, !.pending = TRUE]
             es == [entries EXCEPT ![p] = n]
  <2>4. StartPush(p, es)
    <3>1. es = [entries EXCEPT ![p].known = TRUE, ![p].pending = TRUE]
      BY <1>e
    <3>2. StartPush(p, [entries EXCEPT ![p].known = TRUE, ![p].pending = TRUE])
      BY <1>1, <2>3 DEF NotifyLocalWrite
    <3> QED BY <3>1, <3>2
  <2>5. n \in Entry /\ Flagged(n)
    BY <1>e DEF Entry, Flagged
  <2> HIDE DEF n
  <2>6. es \in [Paths -> Entry] /\ \A q \in Paths : es[q] = IF q = p THEN n ELSE entries[q]
    BY <1>e, <2>5
  <2> HIDE DEF es
  <2>7. ASSUME NEW q \in Paths PROVE Excused(q) => Excused(q)' \/ Flagged(es[q])
    <3>1. CASE q = p
      BY <2>5, <2>6, <3>1
    <3>2. CASE q # p
      <4>1. OnQueue(queue, q) => OnQueue(queue', q)
        BY <1>e, <2>1, <2>3, <3>2, NoteStays
      <4> QED BY <2>1, <4>1, ExcuseStays
    <3> QED BY <3>1, <3>2
  <2>8. Idle
    BY <2>1 DEF NextJob
  <2>9. \A q \in Paths : Flagged(entries[q]) => Flagged(es[q])
    BY <2>5, <2>6
  <2> QED BY <2>1, <2>4, <2>6, <2>7, <2>8, <2>9, StartPushTallied
<1>2. ASSUME NEW p \in Paths, PushNow(p) PROVE Tallied'
  <2> DEFINE x == [kind |-> "push", paths |-> Head(queue).paths \ {p}]
  <2>1. /\ NextJob("push") /\ StartPush(p, entries)
        /\ queue' = Tail(queue) \/ queue' = <<x>> \o Tail(queue)
        /\ UNCHANGED <<local, aside, todo, wasHost, saving, unannounced>>
    BY <1>2 DEF PushNow
  <2>2. Head(queue) \in Push
    BY <1>h, <2>1 DEF Job, Note, Push, Approve, Sync, Object, WatchDelta
  <2>3. x \in Job /\ Head(queue).kind # "note"
    BY <2>2 DEF Job, Push
  <2> HIDE DEF x
  <2>4. \A q \in Paths : OnQueue(queue, q) => OnQueue(queue', q)
    BY <1>e, <2>1, <2>3, NoteStays
  <2>5. \A q \in Paths : Excused(q) => Excused(q)'
    BY <2>1, <2>4, ExcuseStays
  <2>6. Idle
    BY <2>1 DEF NextJob
  <2> QED BY <1>e, <2>1, <2>5, <2>6, StartPushTallied
<1>3. CASE SyncNow
  <2>1. /\ NextJob("sync") /\ queue' = Tail(queue)
        /\ call' = call \/ call'.job = "sync"
        /\ UNCHANGED <<local, entries, aside, todo, wasHost, saving, unannounced>>
    BY <1>3 DEF SyncNow, NoCall
  <2>2. \A q \in Paths : Excused(q) => Excused(q)'
    BY <1>h, <2>1, ExcuseStays
  <2>3. SaveAccounted' /\ Comparing'
    <3>1. SaveAccounted'
      BY <1>e, <2>1, <2>2, Accounting
    <3> QED BY <1>i, <2>1, <3>1 DEF NextJob
  <2>4. Sending'
    BY <2>1 DEF Sending, Resting, NextJob, Idle
  <2> QED BY <2>3, <2>4 DEF Tallied
<1>4. CASE ApplyWatchDelta
  <2> DEFINE d == Head(queue)
             listed == {p \in d.changed : d.rows[p].hash # None}
             R == [p \in Paths |->
                     IF p \in listed THEN ReconcileRow(entries[p], local[p], d.rows[p], d.id)
                     ELSE IF p \in d.changed /\ entries[p].known
                          THEN IF d.id > entries[p].pushed
                               THEN ReconcileDelete(entries[p], local[p])
                               ELSE [entry |-> entries[p], act |-> "skip"]
                     ELSE [entry |-> entries[p], act |-> "none"]]
  <2>1. NextJob("delta") /\ UNCHANGED <<local, saving, wasHost, call>>
    BY <1>4 DEF ApplyWatchDelta
  <2>2. d.id \in Nat /\ d.rows \in TracedRows
    <3>1. Head(queue) \in TracedJob /\ Head(queue).kind = "delta"
      BY <2>1, HeadTraced
    <3>2. Head(queue) \in TracedDelta
      BY <3>1 DEF TracedJob, TracedObject, Note, Push, Approve, Sync, Object
    <3> HIDE DEF d
    <3> QED BY <3>2 DEF TracedDelta, WatchDelta, d
  <2>3. call'.job = "none" /\ Tail(queue) \in Seq(Job)
        /\ \A q \in Paths : OnQueue(queue, q) => OnQueue(Tail(queue), q)
    BY <1>h, <2>1
  <2>4. CASE d.id < manifestId
    <3>1. UNCHANGED <<entries, todo, aside, unannounced>> /\ queue' = Tail(queue)
      BY <1>4, <2>4 DEF ApplyWatchDelta
    <3>2. \A q \in Paths : Excused(q) => Excused(q)'
      BY <2>1, <2>3, <3>1, ExcuseStays
    <3>3. Comparing'
      BY <1>i, <2>1, <3>1 DEF NextJob
    <3> QED BY <2>1, <2>3, <3>1, <3>2, <3>3, TalliedWorking
  <2>5. CASE ~(d.id < manifestId)
    <3>1. Execute(R, d.rows, held \ listed, Tail(queue))
          /\ unannounced' = unannounced \ Compared(listed, R)
      BY <1>4, <2>5 DEF ApplyWatchDelta
    <3>2. ASSUME NEW p \in Paths, Flagged(entries[p]) \/ p \in Compared(listed, R)
          PROVE  Flagged(R[p].entry) \/ local[p] \in HostHeld(p)
      <4>1. d.rows[p] \in Row /\ d.rows[p].hash \in HostHeld(p)
        BY <2>2 DEF TracedRows
      <4>2. entries[p] \in Entry /\ local[p] \in Hash /\ entries[p].base \in HostHeld(p)
        BY <1>e, TracedEntryDef DEF Lineage
      <4> DEFINE rr == ReconcileRow(entries[p], local[p], d.rows[p], d.id)
      <4>3. Flagged(entries[p]) /\ local[p] # d.rows[p].hash => Flagged(rr.entry)
        <5> HIDE DEF d
        <5> QED BY <2>2, <4>1, <4>2, ReconcileRowMarks DEF Flagged
      <4>4. Flagged(entries[p]) => Flagged(ReconcileDelete(entries[p], local[p]).entry)
        BY <4>2, ReconcileDeleteMarks DEF Flagged
      <4>5. rr.act # "skip" => Flagged(rr.entry) \/ local[p] \in HostHeld(p)
        <5> HIDE DEF d
        <5>1. rr.act # "skip" => Flagged(rr.entry) \/ local[p] \in {None, entries[p].base, d.rows[p].hash}
          BY <2>2, <4>1, <4>2, ReconcileRowCompares DEF Flagged
        <5> QED BY <4>1, <4>2, <5>1 DEF HostHeld
      <4>6. CASE p \in listed
        <5>1. R[p] = rr
          BY <4>6
        <5> HIDE DEF listed, d, R, rr
        <5> QED BY <3>2, <4>1, <4>3, <4>5, <5>1 DEF Compared
      <4>7. CASE p \notin listed
        <5>1. Flagged(entries[p])
          BY <3>2, <4>7 DEF Compared
        <5>2. R[p].entry = entries[p] \/ R[p].entry = ReconcileDelete(entries[p], local[p]).entry
          <6> HIDE DEF listed, d
          <6> QED BY <4>7
        <5> QED BY <4>4, <5>1, <5>2
      <4> QED BY <4>6, <4>7
    <3> HIDE DEF d, listed, R
    <3> QED BY <2>1, <2>3, <3>1, <3>2, ExecuteTallied
  <2> QED BY <2>4, <2>5
<1>5. CASE SyncAnswered
  <2> DEFINE listed == {p \in Paths : call.rows[p].hash # None}
             fresh(p) == [entries[p] EXCEPT !.pushed = 0]
             R == [p \in Paths |->
                     IF p \in listed
                     THEN ReconcileRow(fresh(p), local[p], call.rows[p], call.manifest)
                     ELSE IF entries[p].known THEN ReconcileDelete(fresh(p), local[p])
                     ELSE [entry |-> entries[p], act |-> "none"]]
  <2>1. /\ Execute(R, call.rows, {}, queue)
        /\ call' = NoCall /\ unannounced' = unannounced \ Compared(listed, R)
        /\ UNCHANGED <<local, saving, wasHost>>
    BY <1>5 DEF SyncAnswered
  <2>2. call.rows \in TracedRows /\ call.manifest \in Nat
    BY DEF TypeOK, WellFormed, Call, Lineage, TracedCall
  <2>3. ASSUME NEW p \in Paths, Flagged(entries[p]) \/ p \in Compared(listed, R)
        PROVE  Flagged(R[p].entry) \/ local[p] \in HostHeld(p)
    <3>1. call.rows[p] \in Row /\ call.rows[p].hash \in HostHeld(p)
      BY <2>2 DEF TracedRows
    <3>2. /\ fresh(p) \in Entry /\ local[p] \in Hash /\ fresh(p).base \in HostHeld(p)
          /\ Flagged(entries[p]) => Flagged(fresh(p))
      <4>1. entries[p] \in Entry /\ entries[p].base \in HostHeld(p)
        BY <1>e, TracedEntryDef DEF Lineage
      <4> QED BY <1>e, <4>1 DEF Entry, Flagged
    <3> DEFINE rr == ReconcileRow(fresh(p), local[p], call.rows[p], call.manifest)
    <3> HIDE DEF fresh
    <3>3. Flagged(entries[p]) /\ local[p] # call.rows[p].hash => Flagged(rr.entry)
      BY <2>2, <3>1, <3>2, ReconcileRowMarks DEF Flagged
    <3>4. Flagged(entries[p]) => Flagged(ReconcileDelete(fresh(p), local[p]).entry)
      BY <3>2, ReconcileDeleteMarks DEF Flagged
    <3>5. rr.act # "skip" => Flagged(rr.entry) \/ local[p] \in HostHeld(p)
      <4>1. rr.act # "skip" => \/ Flagged(rr.entry)
                               \/ local[p] \in {None, fresh(p).base, call.rows[p].hash}
        BY <2>2, <3>1, <3>2, ReconcileRowCompares DEF Flagged
      <4> QED BY <3>1, <3>2, <4>1 DEF HostHeld
    <3>6. CASE p \in listed
      <4>1. R[p] = rr
        BY <3>6
      <4> HIDE DEF listed, R, rr
      <4> QED BY <2>3, <3>1, <3>3, <3>5, <4>1 DEF Compared
    <3>7. CASE p \notin listed
      <4>1. Flagged(entries[p])
        BY <2>3, <3>7 DEF Compared
      <4>2. R[p].entry = entries[p] \/ R[p].entry = ReconcileDelete(fresh(p), local[p]).entry
        <5> HIDE DEF listed
        <5> QED BY <3>7
      <4> QED BY <3>4, <4>1, <4>2
    <3> QED BY <3>6, <3>7
  <2> HIDE DEF listed, R
  <2>4. call'.job = "none"
    BY <1>n, <2>1
  <2> QED BY <1>e, <2>1, <2>3, <2>4, ExecuteTallied
<1>6. CASE ApplyPulled
  <2>1. /\ NextJob("object") /\ queue' = Tail(queue) /\ ApplyFetched(Head(queue), {})
        /\ UNCHANGED <<saving, wasHost, call>>
    BY <1>6 DEF ApplyPulled
  <2>2. Head(queue) \in TracedJob /\ Head(queue).kind = "object"
    BY <2>1, HeadTraced
  <2>3. Head(queue) \in TracedObject
    BY <2>2 DEF TracedJob, TracedDelta, Note, Push, Approve, Sync, WatchDelta
  <2>4. call'.job = "none" /\ \A q \in Paths : OnQueue(queue, q) => OnQueue(queue', q)
    BY <1>h, <2>1
  <2>5. todo.checked = {} /\ todo.deletes = {}
    BY <1>h, <2>1 DEF Idle
  <2> QED BY <2>1, <2>3, <2>4, <2>5, ApplyFetchedTallied
<1>7. ASSUME NEW o \in todo.fills, ApplyFill(o) PROVE Tallied'
  <2>1. o \in TracedObject /\ ApplyFetched(o, todo.fills \ {o})
        /\ UNCHANGED <<saving, wasHost, call, queue>>
        /\ todo.checked = {} /\ todo.deletes = {}
    BY <1>7 DEF ApplyFill, Lineage, TracedTodo
  <2>2. call'.job = "none"
    BY <1>e, <2>1 DEF Sending, Resting
  <2> QED BY <2>1, <2>2, ApplyFetchedTallied
<1>8. CASE FetchAnswered
  <2> DEFINE o == [kind |-> "object", path |-> call.path, row |-> call.row, delta |-> None]
  <2>1. call.path \in Paths /\ call.row \in Row /\ call.row.hash \in HostHeld(call.path)
    BY <1>8 DEF FetchAnswered, TypeOK, WellFormed, Call, Lineage, TracedCall
  <2>2. o \in TracedObject
    BY <2>1 DEF TracedObject, Object, Hash
  <2>3. /\ ApplyFetched(o, {}) /\ call' = NoCall
        /\ UNCHANGED <<saving, wasHost, queue>>
    BY <1>8 DEF FetchAnswered
  <2>4. todo.checked = {} /\ todo.deletes = {}
    BY <1>8, <1>e DEF FetchAnswered, Sending, Resting
  <2> HIDE DEF o
  <2> QED BY <1>n, <2>2, <2>3, <2>4, ApplyFetchedTallied
<1>9. CASE ApproveHeldDeletes
  <2>1. /\ NextJob("approve") /\ queue' = Tail(queue)
        /\ UNCHANGED <<local, entries, aside, call, wasHost, saving, unannounced>>
    BY <1>9 DEF ApproveHeldDeletes
  <2>2. Comparing'
    <3>1. todo'.checked = todo.checked
      BY <1>9, <1>e DEF ApproveHeldDeletes, Todo
    <3> QED BY <1>i, <2>1, <3>1 DEF NextJob
  <2>3. \A q \in Paths : Excused(q) => Excused(q)'
    BY <1>h, <2>1, ExcuseStays
  <2>4. call'.job = "none"
    BY <1>h, <2>1
  <2> QED BY <2>1, <2>2, <2>3, <2>4, TalliedWorking
<1>10. ASSUME NEW p \in Paths, DeleteNow(p) PROVE Tallied'
  <2> DEFINE e == entries[p]
             goes == /\ e.known /\ ~e.pending /\ ~e.conflict
                     /\ e.base \in {None, local[p]} /\ local[p] # None
  <2>1. /\ p \in todo.deletes /\ todo.checked = {}
        /\ UNCHANGED <<local, call, queue, saving, unannounced, wasHost>>
    BY <1>10 DEF DeleteNow
  <2>2. call'.job = "none"
    BY <1>e, <2>1 DEF Sending, Resting
  <2>3. \A q \in Paths : Excused(q) => Excused(q)'
    BY <2>1, ExcuseStays
  <2>4. Comparing'
    <3>1. CASE goes
      <4>1. entries' = entries /\ todo' = [todo EXCEPT !.checked = {[path |-> p, was |-> local[p]]}]
        BY <1>10, <3>1 DEF DeleteNow
      <4>2. todo'.checked = {[path |-> p, was |-> local[p]]} /\ todo'.deletes = todo.deletes
        BY <1>e, <4>1 DEF Todo
      <4> QED BY <2>1, <3>1, <4>1, <4>2 DEF Comparing
    <3>2. CASE ~goes
      <4>1. todo' = AfterDelete(p)
        BY <1>10, <3>2 DEF DeleteNow
      <4>2. todo'.checked = {}
        BY <1>e, <4>1 DEF AfterDelete, Todo
      <4> QED BY <4>2 DEF Comparing
    <3> QED BY <3>1, <3>2
  <2>5. \A q \in Paths \ {p} : local'[q] = local[q] /\ entries'[q] = entries[q]
    BY <1>10, <1>e, <2>1 DEF DeleteNow
  <2>6. entries'[p] = entries[p] \/ ~Flagged(e)
    BY <1>10, <1>e DEF DeleteNow, Flagged
  <2>7. \A q \in Paths :
            \/ local'[q] \in HostHeld(q)' \/ Excused(q)' \/ Flagged(entries'[q])
            \/ /\ local'[q] = local[q] /\ wasHost[q] \subseteq wasHost'[q]
               /\ Excused(q) => Excused(q)'
               /\ Flagged(entries[q]) => Flagged(entries'[q])
    BY <2>1, <2>3, <2>5, <2>6
  <2> QED BY <2>2, <2>4, <2>7, TalliedWorking
<1>15. ASSUME NEW k \in todo.checked, RemoveChecked(k) PROVE Tallied'
  <2>p. PICK p \in Paths : p = k.path
    BY CheckedType
  <2>1. UNCHANGED <<call, queue, saving, unannounced, wasHost>>
    BY <1>15 DEF RemoveChecked
  <2>2. call'.job = "none"
    BY <1>e, <2>1 DEF Sending, Resting
  <2>3. \A q \in Paths : Excused(q) => Excused(q)'
    BY <2>1, ExcuseStays
  <2>4. Comparing'
    <3>1. todo'.checked = {}
      BY <1>15, <1>e DEF RemoveChecked, AfterDelete, Todo
    <3> QED BY <3>1 DEF Comparing
  <2>5. \A q \in Paths \ {p} : local'[q] = local[q] /\ entries'[q] = entries[q]
    BY <1>15, <1>e, <2>p DEF RemoveChecked
  <2>6. local'[p] = None
    BY <1>15, <1>e, <2>p DEF RemoveChecked
  <2>7. \A q \in Paths :
            \/ local'[q] \in HostHeld(q)' \/ Excused(q)' \/ Flagged(entries'[q])
            \/ /\ local'[q] = local[q] /\ wasHost[q] \subseteq wasHost'[q]
               /\ Excused(q) => Excused(q)'
               /\ Flagged(entries[q]) => Flagged(entries'[q])
    BY <2>1, <2>3, <2>5, <2>6 DEF HostHeld
  <2> QED BY <2>2, <2>4, <2>7, TalliedWorking
<1>16. ASSUME NEW k \in todo.checked, NEW o \in todo.fills, WriteFetched(k, o) PROVE Tallied'
  BY <1>16, WriteFetchedTallied
<1>11. ASSUME NEW s \in todo.restores, RestoreNow(s) PROVE Tallied'
  <2>1. UNCHANGED <<call, queue, saving, wasHost, aside>> /\ unannounced \subseteq unannounced'
    BY <1>11 DEF RestoreNow
  <2>2. call'.job = "none"
    BY <1>e, <2>1 DEF Sending, Resting
  <2>3. \A q \in Paths : Excused(q) => Excused(q)'
    BY <2>1, ExcuseStays
  <2>4. Comparing'
    <3>1. todo'.checked = {}
      BY <1>11, <1>e DEF RestoreNow, Todo
    <3> QED BY <3>1 DEF Comparing
  <2>5. s.path \in Paths /\ s.entry.base \in HostHeld(s.path)
    <3>1. s \in TracedAside
      BY DEF Lineage, TracedTodo
    <3>2. s.path \in Paths /\ s.entry \in TracedEntry[s.path]
      BY <3>1 DEF TracedAside, SetAside
    <3> QED BY <3>2, TracedEntryDef
  <2>6. CASE UNCHANGED <<local, entries>>
    BY <2>1, <2>2, <2>3, <2>4, <2>6, TalliedWorking
  <2>7. CASE ~(UNCHANGED <<local, entries>>)
    <3>1. /\ local' = [local EXCEPT ![s.path] = s.content]
          /\ entries' = [entries EXCEPT ![s.path] = s.entry]
          /\ s.content # s.entry.base => s.path \in unannounced'
      BY <1>11, <2>7 DEF RestoreNow
    <3>2. \A q \in Paths \ {s.path} : local'[q] = local[q] /\ entries'[q] = entries[q]
      BY <1>e, <3>1
    <3>3. local'[s.path] \in HostHeld(s.path)' \/ Excused(s.path)'
      <4>1. CASE s.content # s.entry.base
        BY <3>1, <4>1 DEF Excused
      <4>2. CASE s.content = s.entry.base
        BY <1>e, <2>1, <2>5, <3>1, <4>2 DEF HostHeld
      <4> QED BY <4>1, <4>2
    <3>4. \A q \in Paths :
            \/ local'[q] \in HostHeld(q)' \/ Excused(q)' \/ Flagged(entries'[q])
            \/ /\ local'[q] = local[q] /\ wasHost[q] \subseteq wasHost'[q]
               /\ Excused(q) => Excused(q)'
               /\ Flagged(entries[q]) => Flagged(entries'[q])
      BY <2>1, <2>3, <3>2, <3>3
    <3> QED BY <2>2, <2>4, <3>4, TalliedWorking
  <2> QED BY <2>6, <2>7
<1>12. CASE PushAnswered
  <2>1. call.job = "push" /\ call \in TracedCall /\ call.path \in Paths
    BY <1>12 DEF PushAnswered, TypeOK, WellFormed, Lineage
  <2>2. PICK p \in Paths : p = call.path
    BY <2>1
  <2> DEFINE e == entries[p]
             after == AfterPush(e, call, local[p])
             again == PushAgain(e, call, local[p])
             x == [kind |-> "push", paths |-> {p}]
  <2>3. e \in Entry /\ e.known /\ e.pending /\ (local[p] = call.content \/ Excused(p))
    BY <1>e, <2>1, <2>2 DEF Sending
  <2>4. call.row.hash \in HostHeld(p)
    BY <2>1, <2>2 DEF TracedCall
  <2>5. /\ entries' = [entries EXCEPT ![p] = after] /\ call' = NoCall
        /\ queue' = queue \/ queue' = Append(queue, x)
        /\ UNCHANGED <<local, aside, todo, wasHost, saving, unannounced>>
    BY <1>12, <2>2, <2>3 DEF PushAnswered
  <2>6. \/ Flagged(after) \/ local[p] = call.row.hash
        \/ call.row.hash = call.content
    BY <2>3 DEF AfterPush, Entry, Flagged
  <2>7. x \in Job
    BY DEF Job, Push
  <2> HIDE DEF after, x
  <2>8. \A q \in Paths : Excused(q) => Excused(q)'
    <3>1. \A q \in Paths : OnQueue(queue, q) => OnQueue(queue', q)
      BY <1>e, <2>5, <2>7, NoteStays
    <3> QED BY <2>5, <3>1, ExcuseStays
  <2>9. \A q \in Paths : entries'[q] = IF q = p THEN after ELSE entries[q]
    BY <1>e, <2>5
  <2>10. local'[p] \in HostHeld(p)' \/ Excused(p)' \/ Flagged(entries'[p])
    BY <2>3, <2>4, <2>5, <2>6, <2>8, <2>9 DEF HostHeld
  <2>11. \A q \in Paths :
            \/ local'[q] \in HostHeld(q)' \/ Excused(q)' \/ Flagged(entries'[q])
            \/ /\ local'[q] = local[q] /\ wasHost[q] \subseteq wasHost'[q]
               /\ Excused(q) => Excused(q)'
               /\ Flagged(entries[q]) => Flagged(entries'[q])
    BY <2>5, <2>8, <2>9, <2>10
  <2>12. Comparing'
    BY <1>i, <2>1, <2>5
  <2> QED BY <1>n, <2>5, <2>11, <2>12, TalliedWorking
<1>13. CASE KeepAnswered
  <2>1. /\ call.job = "keep" /\ call \in TracedCall /\ call.path \in Paths
    BY <1>13 DEF KeepAnswered, TypeOK, WellFormed, Lineage
  <2>2. PICK p \in Paths : p = call.path
    BY <2>1
  <2>3. /\ call.row.hash \in HostHeld(p)
        /\ call.ok => call.row.hash = call.content
        /\ local[p] = call.content \/ Excused(p)
    BY <1>e, <2>1, <2>2 DEF TracedCall, Sending
  <2>4. /\ call' = NoCall
        /\ UNCHANGED <<local, aside, todo, queue, wasHost, saving, unannounced>>
        /\ call.ok \/ entries' = entries
        /\ \A q \in Paths \ {p} : entries'[q] = entries[q]
    BY <1>13, <1>e, <2>2 DEF KeepAnswered
  <2>5. \A q \in Paths : Excused(q) => Excused(q)'
    BY <2>4, ExcuseStays
  <2>6. \A q \in Paths :
            \/ local'[q] \in HostHeld(q)' \/ Excused(q)' \/ Flagged(entries'[q])
            \/ /\ local'[q] = local[q] /\ wasHost[q] \subseteq wasHost'[q]
               /\ Excused(q) => Excused(q)'
               /\ Flagged(entries[q]) => Flagged(entries'[q])
    BY <2>3, <2>4, <2>5 DEF HostHeld
  <2>7. Comparing'
    BY <1>i, <2>1, <2>4
  <2> QED BY <1>n, <2>4, <2>6, <2>7, TalliedWorking
<1>14. CASE TakeAnswered
  <2>1. /\ call.job = "take" /\ call \in TracedCall /\ call.path \in Paths
    BY <1>14 DEF TakeAnswered, TypeOK, WellFormed, Lineage
  <2>2. PICK p \in Paths : p = call.path
    BY <2>1
  <2>3. call.row.hash \in HostHeld(p)
    BY <2>1, <2>2 DEF TracedCall
  <2>4. /\ call' = NoCall
        /\ UNCHANGED <<aside, todo, queue, wasHost, saving>> /\ unannounced' = unannounced \ {p}
        /\ local' = [local EXCEPT ![p] = call.row.hash]
        /\ \A q \in Paths \ {p} : entries'[q] = entries[q]
    BY <1>14, <1>e, <2>2 DEF TakeAnswered, TreeTakes
  <2>5. \A q \in Paths \ {p} : Excused(q) => Excused(q)'
    BY <2>4, ExcuseStays
  <2>6. \A q \in Paths :
            \/ local'[q] \in HostHeld(q)' \/ Excused(q)' \/ Flagged(entries'[q])
            \/ /\ local'[q] = local[q] /\ wasHost[q] \subseteq wasHost'[q]
               /\ Excused(q) => Excused(q)'
               /\ Flagged(entries[q]) => Flagged(entries'[q])
    BY <1>e, <2>3, <2>4, <2>5 DEF HostHeld
  <2>7. Comparing'
    BY <1>i, <2>1, <2>4
  <2> QED BY <1>n, <2>4, <2>6, <2>7, TalliedWorking
<1> QED
  BY <1>1, <1>2, <1>3, <1>4, <1>5, <1>6, <1>7, <1>8, <1>9, <1>10, <1>11, <1>12, <1>13, <1>14,
     <1>15, <1>16
  DEF Worker

(* The account is kept by every step. *)
LEMMA TalliedHolds == Spec => []Tallied
<1>1. TypeOK /\ Lineage /\ Tallied /\ [Next]_vars => Tallied'
  <2> SUFFICES ASSUME TypeOK, Lineage, Tallied, [Next]_vars PROVE Tallied'
    OBVIOUS
  <2>1. CASE Worker
    BY <2>1, WorkerTallied
  <2>2. CASE Server \/ Link
    BY <2>2, OutsideTallied
  <2>3. CASE User
    BY <2>3, UserTallied
  <2>4. CASE UNCHANGED vars
    BY <2>4 DEF vars, hostVars, Tallied, Sending, Resting, Comparing, SaveAccounted, Excused, Noted
  <2> QED BY <2>1, <2>2, <2>3, <2>4 DEF Next
<1> QED
  BY <1>1, InitTallied, TypeCorrect, LineageHolds, PTL DEF Spec

(* No save is forgotten: whatever pushes, refusals, pulls, manifests, undos   *)
(* and faults come between, bytes of tree/ that the host has never held are   *)
(* announced to the worker, journaled or parked (NotifyLocalWrite, PushNow).  *)
THEOREM SavesAccounted == Spec => []SaveAccounted
<1>1. Tallied => SaveAccounted
  BY DEF Tallied
<1> QED
  BY <1>1, TalliedHolds, PTL

(* What the worker replaces in tree/ without being asked: the file it compared. *)
LEMMA WorkerReplaces ==
  ASSUME TypeOK, Lineage, Comparing, Worker, NEW p \in Paths, local'[p] # local[p],
         ~(call.job = "take" /\ call.path = p), ~Overtaken(p),
         ~(p \in todo.deletes /\ entries[p].base = None)
  PROVE  local[p] \in wasHost[p] \cup {None}
<1>t. local \in [Paths -> Hash] /\ entries[p].base \in wasHost[p] \cup {None}
  BY TracedEntryDef DEF TypeOK, Lineage, HostHeld
<1>1. ASSUME NEW k \in todo.checked,
             RemoveChecked(k) \/ \E o \in todo.fills : WriteFetched(k, o)
      PROVE  local[p] \in wasHost[p] \cup {None}
  <2>1. k.path \in Paths /\ \A q \in Paths : q # k.path => local'[q] = local[q]
    BY <1>1, <1>t, CheckedType DEF RemoveChecked, WriteFetched, FetchedWritten, FetchedRefused,
       TreeTakes
  <2>2. p = k.path
    BY <2>1
  <2>3. local[p] = k.was
    BY <2>2 DEF Overtaken
  <2>4. k.was \in {None, entries[p].base}
    BY <2>2 DEF Comparing
  <2> QED BY <1>t, <2>3, <2>4
<1>2. ASSUME NEW s \in todo.restores, RestoreNow(s) PROVE local[p] \in wasHost[p] \cup {None}
  <2>1. local[s.path] = None /\ local' = [local EXCEPT ![s.path] = s.content]
    BY <1>2 DEF RestoreNow
  <2> QED BY <1>t, <2>1
<1>3. CASE TakeAnswered
  <2>1. call.job = "take" /\ call.path \in Paths /\ TreeTakes(call.path, call.row.hash)
    BY <1>3 DEF TakeAnswered, TypeOK, WellFormed
  <2> QED BY <1>t, <2>1 DEF TreeTakes
<1>4. CASE ApplyPulled \/ FetchAnswered \/ \E o \in todo.fills : ApplyFill(o)
  BY <1>4 DEF ApplyPulled, FetchAnswered, ApplyFill, ApplyFetched
<1>5. CASE NotifyLocalWrite \/ SyncNow \/ ApplyWatchDelta \/ ApproveHeldDeletes
           \/ PushAnswered \/ KeepAnswered \/ SyncAnswered
           \/ \E q \in Paths : PushNow(q) \/ DeleteNow(q)
  BY <1>5 DEF NotifyLocalWrite, SyncNow, ApplyWatchDelta, ApproveHeldDeletes, PushNow,
     PushAnswered, KeepAnswered, SyncAnswered, DeleteNow
<1> QED
  BY <1>1, <1>2, <1>3, <1>4, <1>5 DEF Worker

(* Only the worker writes tree/ files without counting as a save or a tool. *)
LEMMA LocalChanges ==
  ASSUME TypeOK, Next, local' # local, count'.saves = count.saves, count'.tools = count.tools
  PROVE  Worker
<1>1. CASE Server
  BY <1>1 DEF Server, TreeQueue, IoQueue, ServerCheck, ServerWrite, ServerAnswer, ServerRead,
     ServerPulled, ServerPull, LateCheck, LateWrite, ServerManifest, PublishWatchBatch
<1>2. CASE User
  <2>1. ASSUME NEW p \in Paths, NEW c \in Hash, SaveWrite(p, c) \/ ToolWrite(p, c) PROVE FALSE
    BY <2>1 DEF SaveWrite, ToolWrite, TypeOK, Count
  <2>2. Contents \subseteq Hash
    BY DEF Hash
  <2> QED BY <1>2, <2>1, <2>2 DEF User, SaveNotify, HostEdit, Prioritize, TakeRemote,
             KeepLocal, RequestApproval
<1>3. CASE Link
  BY <1>3 DEF Link, Failure, Deliver, DropLink, TimeOut, ErrorAnswer, WatchBatchFails,
     BatchFails, ObjectFails, DeleteFails, WriteFails, Reconnect
<1> QED
  BY <1>1, <1>2, <1>3 DEF Next

(* The engine writes over or removes only tree/ bytes that the host has held *)
(* (the base it compared them with), but for a `take theirs', for the delete *)
(* of a record without a base, and for a tool's write between the comparison *)
(* and the rename.                                                           *)
THEOREM LocalKept == Spec => NoSilentLocalLoss
<1> DEFINE Kept(p) == (local'[p] # local[p] /\ count'.saves = count.saves
                         /\ count'.tools = count.tools
                         /\ ~(call.job = "take" /\ call.path = p) /\ ~Overtaken(p)
                         /\ ~(p \in todo.deletes /\ entries[p].base = None))
                        => local[p] \in wasHost[p] \cup {None}
<1>1. TypeOK /\ Lineage /\ Tallied /\ [Next]_vars => [\A p \in Paths : Kept(p)]_vars
  BY WorkerReplaces, LocalChanges DEF Tallied
<1> QED
  BY <1>1, TypeCorrect, LineageHolds, TalliedHolds, PTL DEF Spec, NoSilentLocalLoss

-----------------------------------------------------------------------------
(* Convergence *)

(***************************************************************************)
(* When everything has settled, the two copies of a path agree or the      *)
(* record says why not.  The argument follows the newest version of each   *)
(* path through the pipe: once a manifest is awaited, that version is in   *)
(* it, or touched and still to be published, or in a delta on its way, or  *)
(* reconciled, and then the record has its row and the bytes are there or  *)
(* coming.                                                                 *)
(***************************************************************************)

(* A row of a file that now holds h in its version v: no newer than that,    *)
(* and the same where it is as new.                                          *)
Dated(r, h, v) == r.ver <= v /\ (r.ver = v => r.hash = h)
Shows(r, h, v) == r.ver = v /\ r.hash = h

RecordDated(e, h, v) == e.hasRemote => Dated(e.remote, h, v)
FrameDated(x, h, v) ==
    /\ x.kind = "object" => Dated(x.row, h[x.path], v[x.path])
    /\ x.kind = "delta" => \A p \in x.changed : Dated(x.rows[p], h[p], v[p])

(* Every job and frame on its way to the worker. *)
Transit == ToSet(queue) \cup ToSet(wire) \cup todo.fills
             \cup UNION {ToSet(n.read) : n \in ToSet(pulls)}

(* The host has read or written the file the worker asks about; it has built *)
(* the manifest.                                                             *)
Answering == \/ call.job \in {"push", "keep"} /\ call.st \in {"written", "answered"}
             \/ call.job \in {"take", "fetch"} /\ call.st = "answered"
Awaited == call.job = "sync" /\ call.st \in {"written", "answered"}

(* Nothing the mirror has, or will have, is newer than the host's file, nor  *)
(* an answer older than what the mirror has.                                 *)
Versions ==
    /\ \A p \in Paths : seen[p] <= hostVer[p] /\ sent[p].ver <= hostVer[p]
    /\ \A p \in Paths : RecordDated(entries[p], host[p], hostVer[p])
    /\ \A s \in aside \cup todo.restores : RecordDated(s.entry, host[s.path], hostVer[s.path])
    /\ \A x \in Transit : FrameDated(x, host, hostVer)
    /\ Answering => /\ Dated(call.row, host[call.path], hostVer[call.path])
                    /\ seen[call.path] <= call.row.ver
    /\ Awaited => \A p \in Paths : /\ Dated(call.rows[p], host[p], hostVer[p])
                                   /\ seen[p] <= call.rows[p].ver

(* A host file is left alone, or gets a newer version. *)
Aged == \A p \in Paths : \/ host'[p] = host[p] /\ hostVer'[p] = hostVer[p]
                         \/ hostVer'[p] > hostVer[p]

(* A write to a host file gives it a newer version. *)
LEMMA HostAged ==
  ASSUME TypeOK, NEW p \in Paths, NEW c \in Hash, HostTakes(p, c)
  PROVE  Aged /\ hostVer'[p] > hostVer[p]
BY DEF TypeOK, HostTakes, Aged

(* A row once dated stays so, whatever the host writes. *)
LEMMA StaysDated ==
  ASSUME TypeOK, TypeOK', Aged
  PROVE  /\ \A p \in Paths : hostVer[p] <= hostVer'[p]
         /\ \A p \in Paths, r \in Row :
              Dated(r, host[p], hostVer[p]) => Dated(r, host'[p], hostVer'[p])
         /\ \A p \in Paths, e \in Entry :
              RecordDated(e, host[p], hostVer[p]) => RecordDated(e, host'[p], hostVer'[p])
         /\ \A x \in Job \cup Manifest : FrameDated(x, host, hostVer) => FrameDated(x, host', hostVer')
<1>1. \A p \in Paths : hostVer[p] \in Nat /\ hostVer'[p] \in Nat /\ hostVer[p] <= hostVer'[p]
  <2>1. hostVer \in [Paths -> Nat] /\ hostVer' \in [Paths -> Nat]
    BY DEF TypeOK
  <2> QED BY <2>1 DEF Aged
<1>2. ASSUME NEW p \in Paths, NEW r \in Row, Dated(r, host[p], hostVer[p])
      PROVE  Dated(r, host'[p], hostVer'[p])
  <2>1. r.ver \in Nat
    BY DEF Row
  <2> QED BY <1>1, <1>2, <2>1 DEF Aged, Dated
<1>3. ASSUME NEW p \in Paths, NEW e \in Entry, RecordDated(e, host[p], hostVer[p])
      PROVE  RecordDated(e, host'[p], hostVer'[p])
  <2>1. e.remote \in Row
    BY DEF Entry
  <2> QED BY <1>2, <1>3, <2>1 DEF RecordDated
<1>4. ASSUME NEW x \in Job \cup Manifest, FrameDated(x, host, hostVer)
      PROVE  FrameDated(x, host', hostVer')
  <2>1. x.kind = "object" => x.path \in Paths /\ x.row \in Row
    BY DEF Job, Manifest, Note, Push, Approve, Sync, Object, WatchDelta
  <2>2. x.kind = "delta" => x.changed \subseteq Paths /\ \A p \in Paths : x.rows[p] \in Row
    BY DEF Job, Manifest, Note, Push, Approve, Sync, Object, WatchDelta
  <2> QED BY <1>2, <1>4, <2>1, <2>2 DEF FrameDated
<1> QED BY <1>1, <1>2, <1>3, <1>4

(* Everything on its way is a job or a frame. *)
LEMMA TransitType ==
  ASSUME TypeOK
  PROVE  /\ ToSet(queue) \subseteq Job
         /\ ToSet(wire) \subseteq Object \cup WatchDelta \cup Manifest
         /\ ToSet(pulls) \subseteq Pull
         /\ \A n \in ToSet(pulls) : ToSet(n.read) \subseteq Object
         /\ todo.fills \subseteq Object
         /\ Transit \subseteq Job \cup Manifest
<1>1. ToSet(queue) \subseteq Job
  BY SeqMembers DEF TypeOK
<1>2. ToSet(wire) \subseteq Object \cup WatchDelta \cup Manifest
  BY SeqMembers DEF TypeOK
<1>3. ToSet(pulls) \subseteq Pull
  BY SeqMembers DEF TypeOK
<1>4. \A n \in ToSet(pulls) : ToSet(n.read) \subseteq Object
  <2>1. ASSUME NEW n \in Pull PROVE ToSet(n.read) \subseteq Object
    BY SeqMembers DEF Pull
  <2> QED BY <1>3, <2>1
<1>5. todo.fills \subseteq Object
  BY DEF TypeOK, Todo
<1> QED BY <1>1, <1>2, <1>3, <1>4, <1>5 DEF Transit, Job

(* What a step has to show of the things it makes new. *)
LEMMA VersionsStep ==
  ASSUME TypeOK, TypeOK', Versions, Aged,
         \A p \in Paths : /\ seen'[p] = seen[p] \/ seen'[p] <= hostVer'[p]
                          /\ sent'[p] = sent[p] \/ sent'[p].ver <= hostVer'[p],
         \A p \in Paths :
            \/ RecordDated(entries'[p], host'[p], hostVer'[p])
            \/ entries'[p].remote = entries[p].remote /\ (entries'[p].hasRemote => entries[p].hasRemote),
         \A s \in aside' \cup todo'.restores :
            \/ s \in aside \cup todo.restores
            \/ RecordDated(s.entry, host'[s.path], hostVer'[s.path]),
         \A x \in ToSet(queue') \cup ToSet(wire') \cup todo'.fills :
            x \in Transit \/ FrameDated(x, host', hostVer'),
         \A n \in ToSet(pulls') : \A x \in ToSet(n.read) :
            x \in Transit \/ FrameDated(x, host', hostVer'),
         Answering' =>
            \/ Answering /\ call'.row = call.row /\ call'.path = call.path /\ seen' = seen
            \/ /\ Dated(call'.row, host'[call'.path], hostVer'[call'.path])
               /\ seen'[call'.path] <= call'.row.ver,
         Awaited' =>
            \/ Awaited /\ call'.rows = call.rows /\ seen' = seen
            \/ \A p \in Paths : /\ Dated(call'.rows[p], host'[p], hostVer'[p])
                                /\ seen'[p] <= call'.rows[p].ver
  PROVE  Versions'
<1>1. \A p \in Paths : seen'[p] <= hostVer'[p] /\ sent'[p].ver <= hostVer'[p]
  <2> SUFFICES ASSUME NEW p \in Paths PROVE seen'[p] <= hostVer'[p] /\ sent'[p].ver <= hostVer'[p]
    OBVIOUS
  <2>1. /\ hostVer[p] \in Nat /\ hostVer'[p] \in Nat /\ seen[p] \in Nat /\ sent[p].ver \in Nat
        /\ seen[p] <= hostVer[p] /\ sent[p].ver <= hostVer[p]
    BY DEF TypeOK, Row, Versions
  <2>2. hostVer[p] <= hostVer'[p]
    BY StaysDated
  <2> QED BY <2>1, <2>2
<1>2. \A p \in Paths : RecordDated(entries'[p], host'[p], hostVer'[p])
  <2> SUFFICES ASSUME NEW p \in Paths PROVE RecordDated(entries'[p], host'[p], hostVer'[p])
    OBVIOUS
  <2>1. entries[p] \in Entry /\ RecordDated(entries[p], host[p], hostVer[p])
    BY DEF TypeOK, Versions
  <2>2. RecordDated(entries[p], host'[p], hostVer'[p])
    BY <2>1, StaysDated
  <2> QED BY <2>2 DEF RecordDated
<1>3. \A s \in aside' \cup todo'.restores : RecordDated(s.entry, host'[s.path], hostVer'[s.path])
  <2>1. ASSUME NEW s \in aside \cup todo.restores
        PROVE  RecordDated(s.entry, host'[s.path], hostVer'[s.path])
    <3>1. s.entry \in Entry /\ s.path \in Paths
      BY DEF TypeOK, Todo, SetAside
    <3>2. RecordDated(s.entry, host[s.path], hostVer[s.path])
      BY DEF Versions
    <3> QED BY <3>1, <3>2, StaysDated
  <2> QED BY <2>1
<1>4. \A x \in Transit : FrameDated(x, host', hostVer')
  BY StaysDated, TransitType DEF Versions
<1>5. \A x \in Transit' : FrameDated(x, host', hostVer')
  BY <1>4 DEF Transit
<1>6. Answering' => /\ Dated(call'.row, host'[call'.path], hostVer'[call'.path])
                    /\ seen'[call'.path] <= call'.row.ver
  <2>1. Answering => call.path \in Paths /\ call.row \in Row
    BY DEF Answering, TypeOK, WellFormed, Call
  <2> QED BY <2>1, StaysDated DEF Versions
<1>7. Awaited' => \A p \in Paths : /\ Dated(call'.rows[p], host'[p], hostVer'[p])
                                   /\ seen'[p] <= call'.rows[p].ver
  <2>1. \A p \in Paths : call.rows[p] \in Row
    BY DEF TypeOK, WellFormed, Call
  <2> QED BY <2>1, StaysDated DEF Versions
<1> QED BY <1>1, <1>2, <1>3, <1>5, <1>6, <1>7 DEF Versions

(* A path with no record has nothing of one; a choice is made about a        *)
(* conflict; what was set aside was neither pending nor in conflict.         *)
Marks ==
    /\ \A p \in Paths : entries[p].known \/ entries[p] = NoEntry
    /\ call.job \in {"keep", "take"} => entries[call.path].known /\ entries[call.path].conflict
    /\ \A s \in aside \cup todo.restores :
          s.entry.known /\ ~s.entry.pending /\ ~s.entry.conflict

SyncQueued == \E x \in ToSet(queue) : x.kind = "sync"
Subscribed == link = "up" /\ ~SyncQueued /\ (Awaited \/ (synced /\ call.job # "sync"))
Connected == link = "up" /\ ~SyncQueued /\ synced /\ call.job # "sync"

(* The one connection at a time: nothing of the old one outlives it but jobs *)
(* ahead of the next sync, which nothing of the new one overtakes.           *)
Lines ==
    /\ link = "down" => /\ wire = <<>> /\ pulls = <<>> /\ ~primed
                        /\ call.job = "none" \/ call.st = "answered"
    /\ \A x, y : Ahead(queue, x, y) /\ x.kind = "sync" => y.kind \notin {"sync", "delta"}
    /\ \A x, y : Ahead(wire, x, y) => x.kind # "manifest" \/ y.kind # "manifest"
    /\ \A x \in ToSet(wire) : x.kind = "manifest" => call.job = "sync" /\ call.st = "written"
    /\ SyncQueued \/ (call.job = "sync" /\ call.st = "sent") =>
          ~primed /\ \A x \in ToSet(wire) : x.kind # "delta"
    /\ SyncQueued /\ call.job = "sync" => call.st = "answered"
    /\ call.job = "sync" /\ call.st = "sent" => \A x \in ToSet(queue) : x.kind # "delta"
    /\ Awaited => call.manifest > 0

(* The manifest the deltas on their way follow, and those deltas. *)
Line == IF call.job = "sync" THEN call.manifest ELSE manifestId
Pipe == {x \in ToSet(queue) \cup ToSet(wire) : x.kind = "delta"}

(* d was published before f. *)
Older(d, f) == /\ d.id < f.id
               /\ \A p \in d.changed \cap f.changed : d.rows[p].ver <= f.rows[p].ver

Precedes(d, f) == \/ Ahead(queue, d, f) \/ Ahead(wire, d, f)
                  \/ d \in ToSet(queue) /\ f \in ToSet(wire)

(* They come in the order they were published, after the manifest. *)
Rising ==
    Subscribed =>
      /\ primed /\ Line < nextId
      /\ \A d \in Pipe : Line < d.id /\ d.id < nextId
      /\ \A d, f : Precedes(d, f) /\ d.kind = "delta" /\ f.kind = "delta" => Older(d, f)
      /\ Awaited => \A d \in Pipe : \A p \in d.changed : call.rows[p].ver <= d.rows[p].ver

(* Word of p's newest version is on its way: its batch is to be published,   *)
(* or has been; or the engine has let that version go.                       *)
News(p) == \/ p \in touched /\ hostVer[p] > sent[p].ver
           \/ \E d \in Pipe : p \in d.changed /\ Shows(d.rows[p], host[p], hostVer[p])
Word(p) == News(p) \/ p \in stale

(* So are its bytes; so is a push of the journalled save. *)
Coming(p) ==
    \/ \E x \in Transit : /\ x.kind = "object" /\ x.path = p
                          /\ Shows(x.row, host[p], hostVer[p])
    \/ \E n \in ToSet(pulls) : p \in n.paths
PushComing(p) ==
    \/ \E x \in ToSet(queue) : x.kind = "push" /\ p \in x.paths
    \/ call.job = "push" /\ call.path = p

(* The newest version has been reconciled, or need not be. *)
Settled(p) ==
    LET e == entries[p]
    IN  \/ p \in stale
        \/ p \in held \cup todo.deletes /\ host[p] = None
        \/ e.known /\ (e.conflict \/ ~e.hasRemote \/ e.pending)
        \/ ~e.known /\ host[p] = None
        \/ /\ e.known /\ Shows(e.remote, host[p], hostVer[p])
           /\ \/ Coming(p)
              \/ e.base = e.remote.hash /\ (local[p] = e.base \/ Excused(p))

Followed(p) ==
    /\ Settled(p) \/ News(p)
    /\ seen[p] = hostVer[p] /\ entries[p].known => Settled(p)
    /\ p \in held \cup todo.deletes => host[p] = None \/ Word(p)
    /\ entries[p].known /\ entries[p].pending /\ ~entries[p].conflict => PushComing(p)

Listed(p) == \E d \in Pipe : p \in d.changed
Heard(p) == Listed(p) => Word(p) \/ seen[p] = hostVer[p]

Converging ==
    /\ Subscribed => \A p \in Paths : Heard(p)
    /\ Subscribed /\ Awaited =>
          \A p \in Paths : Shows(call.rows[p], host[p], hostVer[p]) \/ Word(p)
    /\ Connected => \A p \in Paths : Followed(p)
    /\ Connected /\ Answering =>
          Shows(call.row, host[call.path], hostVer[call.path]) \/ Word(call.path)

Tracked == Versions /\ Marks /\ Lines /\ Rising /\ Converging

-----------------------------------------------------------------------------
(* What a step keeps of it *)

(* What a step has to show of the records it makes and of the choice under   *)
(* way.                                                                      *)
LEMMA MarksStep ==
  ASSUME TypeOK, Marks,
         \A p \in Paths : entries'[p].known \/ entries'[p] = NoEntry \/ entries'[p] = entries[p],
         \/ call'.job \notin {"keep", "take"}
         \/ /\ call'.job = call.job /\ call'.path = call.path
            /\ entries'[call.path].known = entries[call.path].known
            /\ entries'[call.path].conflict = entries[call.path].conflict
         \/ entries'[call'.path].known /\ entries'[call'.path].conflict,
         \A s \in aside' \cup todo'.restores :
            \/ s \in aside \cup todo.restores
            \/ s.entry.known /\ ~s.entry.pending /\ ~s.entry.conflict
  PROVE  Marks'
<1>1. \A p \in Paths : entries'[p].known \/ entries'[p] = NoEntry
  BY DEF Marks
<1>2. call'.job \in {"keep", "take"} => entries'[call'.path].known /\ entries'[call'.path].conflict
  BY DEF Marks
<1>3. \A s \in aside' \cup todo'.restores : s.entry.known /\ ~s.entry.pending /\ ~s.entry.conflict
  BY DEF Marks
<1> QED BY <1>1, <1>2, <1>3 DEF Marks

(* Most steps put nothing on the queue or the wire whose place matters. *)
LEMMA LinesMove ==
  ASSUME Lines, Rising, NEW taken, Slims(queue, queue', taken), Slims(wire, wire', {}),
         \A x \in taken : x.kind # "sync",
         UNCHANGED <<link, primed, synced, nextId>>,
         \/ manifestId' = manifestId
         \/ Subscribed' => Line' < nextId' /\ \A d \in Pipe' : Line' < d.id,
         UNCHANGED <<wire, pulls>> \/ link = "up",
         \/ call' = call
         \/ /\ call.job # "sync" /\ call'.job # "sync"
            /\ call'.job = "none" \/ link = "up" \/ call'.st = "answered"
  PROVE  /\ Lines' /\ Rising'
         /\ Subscribed' => Subscribed
         /\ Connected' => Connected
         /\ Pipe' \subseteq Pipe
         /\ \A d \in Pipe : d \in Pipe' \/ d \in taken
<1>1. /\ \A x \in ToSet(queue') : x \in ToSet(queue) \/ x.kind \in Unordered
      /\ \A x \in ToSet(queue) : x \in ToSet(queue') \/ x \in taken
      /\ \A x, y : Ahead(queue', x, y) => \/ Ahead(queue, x, y)
                                          \/ x.kind \in Unordered \/ y.kind \in Unordered
  BY DEF Slims
<1>w. /\ \A x \in ToSet(wire') : x \in ToSet(wire) \/ x.kind \in Unordered
      /\ \A x \in ToSet(wire) : x \in ToSet(wire')
      /\ \A x, y : Ahead(wire', x, y) => \/ Ahead(wire, x, y)
                                         \/ x.kind \in Unordered \/ y.kind \in Unordered
  BY DEF Slims
<1>2. SyncQueued' <=> SyncQueued
  BY <1>1 DEF SyncQueued, Unordered
<1>3. Awaited' <=> Awaited
  BY DEF Awaited
<1>4. (Subscribed' <=> Subscribed) /\ (Connected' <=> Connected)
  BY <1>2, <1>3 DEF Subscribed, Connected
<1>5. Pipe' \subseteq Pipe /\ \A d \in Pipe : d \in Pipe' \/ d \in taken
  BY <1>1, <1>w DEF Pipe, Unordered
<1>6. manifestId' = manifestId => Line' = Line
  BY DEF Line
<1>7. Lines'
  <2>1. link' = "down" => /\ wire' = <<>> /\ pulls' = <<>> /\ ~primed'
                          /\ call'.job = "none" \/ call'.st = "answered"
    BY DEF Lines
  <2>2. \A x, y : Ahead(queue', x, y) /\ x.kind = "sync" => y.kind \notin {"sync", "delta"}
    BY <1>1 DEF Lines, Unordered
  <2>3. \A x \in ToSet(wire') : x.kind = "manifest" => call'.job = "sync" /\ call'.st = "written"
    BY <1>w DEF Lines, Unordered
  <2>4. SyncQueued' \/ (call'.job = "sync" /\ call'.st = "sent") =>
          ~primed' /\ \A x \in ToSet(wire') : x.kind # "delta"
    BY <1>2, <1>w DEF Lines, Unordered
  <2>5. SyncQueued' /\ call'.job = "sync" => call'.st = "answered"
    BY <1>2 DEF Lines
  <2>6. call'.job = "sync" /\ call'.st = "sent" => \A x \in ToSet(queue') : x.kind # "delta"
    BY <1>1 DEF Lines, Unordered
  <2>7. Awaited' => call'.manifest > 0
    BY <1>3 DEF Lines, Awaited
  <2>8. \A x, y : Ahead(wire', x, y) => x.kind # "manifest" \/ y.kind # "manifest"
    BY <1>w DEF Lines, Unordered
  <2> QED BY <2>1, <2>2, <2>3, <2>4, <2>5, <2>6, <2>7, <2>8 DEF Lines
<1>8. Rising'
  <2> SUFFICES ASSUME Subscribed' PROVE Rising'
    BY DEF Rising
  <2>1. /\ primed /\ Line < nextId
        /\ \A d \in Pipe : Line < d.id /\ d.id < nextId
        /\ \A d, f : Precedes(d, f) /\ d.kind = "delta" /\ f.kind = "delta" => Older(d, f)
        /\ Awaited => \A d \in Pipe : \A p \in d.changed : call.rows[p].ver <= d.rows[p].ver
    BY <1>4 DEF Rising
  <2>2. primed' /\ Line' < nextId' /\ \A d \in Pipe' : Line' < d.id /\ d.id < nextId'
    BY <1>5, <1>6, <2>1
  <2>3. ASSUME NEW d, NEW f, Precedes(d, f)', d.kind = "delta", f.kind = "delta"
        PROVE  Older(d, f)
    <3>1. Precedes(d, f)
      BY <1>1, <1>w, <2>3 DEF Precedes, Unordered
    <3> QED BY <2>1, <2>3, <3>1
  <2>4. Awaited' => \A d \in Pipe' : \A p \in d.changed : call'.rows[p].ver <= d.rows[p].ver
    BY <1>3, <1>5, <2>1 DEF Awaited
  <2> QED BY <2>2, <2>3, <2>4 DEF Rising
<1> QED BY <1>4, <1>5, <1>7, <1>8

(* The worker's leave the wire alone. *)
LEMMA LinesStep ==
  ASSUME Lines, Rising, NEW taken, Slims(queue, queue', taken),
         \A x \in taken : x.kind # "sync",
         UNCHANGED <<link, wire, primed, synced, nextId>>,
         \/ manifestId' = manifestId
         \/ Subscribed' => Line' < nextId' /\ \A d \in Pipe' : Line' < d.id,
         pulls' = pulls \/ link = "up",
         \/ call' = call
         \/ /\ call.job # "sync" /\ call'.job # "sync"
            /\ call'.job = "none" \/ link = "up" \/ call'.st = "answered"
  PROVE  /\ Lines' /\ Rising'
         /\ Subscribed' => Subscribed
         /\ Connected' => Connected
         /\ Pipe' \subseteq Pipe
         /\ \A d \in Pipe : d \in Pipe' \/ d \in taken
<1>1. Slims(wire, wire', {})
  BY DEF Slims
<1> QED BY <1>1, LinesMove

(* A path the step has nothing to do with. *)
LEMMA PathKept ==
  ASSUME NEW p \in Paths,
         host'[p] = host[p], hostVer'[p] = hostVer[p], entries'[p] = entries[p],
         local'[p] = local[p] \/ Excused(p)', seen'[p] = seen[p],
         p \in stale => p \in stale',
         p \in held' \cup todo'.deletes <=> p \in held \cup todo.deletes,
         Excused(p) => Excused(p)', Coming(p) => Coming(p)', News(p) => Word(p)',
         PushComing(p) => PushComing(p)', Listed(p)' => Listed(p) \/ Word(p)'
  PROVE  /\ Heard(p) => Heard(p)'
         /\ Followed(p) => Followed(p)'
         /\ Word(p) => Word(p)'
<1>1. Settled(p) => Settled(p)'
  BY DEF Settled
<1>2. Word(p) => Word(p)'
  BY DEF Word
<1>3. Word(p)' => Settled(p)' \/ News(p)'
  BY DEF Word, Settled
<1>4. Heard(p) => Heard(p)'
  BY <1>2 DEF Heard
<1>5. Followed(p) => Followed(p)'
  BY <1>1, <1>2, <1>3 DEF Followed
<1> QED BY <1>2, <1>4, <1>5

(* And one whose newest row the step lets go. *)
LEMMA PathStale ==
  ASSUME NEW p \in Paths, p \in stale',
         entries'[p].known /\ entries'[p].pending /\ ~entries'[p].conflict => PushComing(p)'
  PROVE  Heard(p)' /\ Followed(p)' /\ Word(p)'
BY DEF Heard, Followed, Settled, Word

(* News stays as long as the deltas that list the path do. *)
LEMMA NewsKept ==
  ASSUME NEW p \in Paths, host'[p] = host[p], hostVer'[p] = hostVer[p],
         UNCHANGED <<touched, sent>>, \A d \in Pipe : p \in d.changed => d \in Pipe'
  PROVE  News(p) => News(p)'
BY DEF News

(* A step that leaves the host alone ages nothing. *)
LEMMA SameAged == ASSUME UNCHANGED <<host, hostVer>> PROVE Aged
BY DEF Aged

(* A step beside the worker's: a save, a question, a job at the end. *)
LEMMA AsideTracked ==
  ASSUME TypeOK, TypeOK', Tracked, Slims(queue, queue', {}),
         \A x \in ToSet(queue') : x \in ToSet(queue) \/ x.kind # "object",
         UNCHANGED <<link, wire, pulls, primed, synced, nextId, manifestId, host, hostVer, touched,
                     sent, entries, seen, stale, held, aside>>,
         todo'.deletes = todo.deletes, todo'.restores = todo.restores,
         todo.fills \subseteq todo'.fills,
         \A x \in todo'.fills : x \in Transit \/ FrameDated(x, host, hostVer),
         \A p \in Paths : local'[p] = local[p] \/ Excused(p)',
         \A p \in Paths : Excused(p) => Excused(p)',
         \/ call' = call
         \/ /\ call.job = "none" /\ call'.st = "sent" /\ link = "up"
            /\ \/ call'.job = "fetch"
               \/ /\ call'.job \in {"keep", "take"}
                  /\ entries[call'.path].known /\ entries[call'.path].conflict
  PROVE  Tracked'
<1>1. /\ Lines' /\ Rising' /\ (Subscribed' => Subscribed) /\ (Connected' => Connected)
      /\ Pipe' \subseteq Pipe /\ \A d \in Pipe : d \in Pipe'
  BY LinesStep DEF Tracked
<1>2. Transit \subseteq Transit'
  BY DEF Transit, Slims
<1>3. (Answering' => Answering /\ call' = call) /\ (Awaited' => Awaited /\ call' = call)
  BY DEF Answering, Awaited
<1>4. Versions'
  <2>1. Aged /\ Versions
    BY SameAged DEF Tracked
  <2>2. \A x \in ToSet(queue') \cup ToSet(wire') \cup todo'.fills :
            x \in Transit \/ FrameDated(x, host', hostVer')
    BY DEF Transit, FrameDated, Slims, Unordered
  <2>3. \A n \in ToSet(pulls') : \A x \in ToSet(n.read) :
            x \in Transit \/ FrameDated(x, host', hostVer')
    BY DEF Transit
  <2> QED BY <1>3, <2>1, <2>2, <2>3, VersionsStep
<1>5. Marks'
  BY MarksStep DEF Tracked
<1>6. ASSUME NEW p \in Paths
      PROVE  /\ Heard(p) => Heard(p)'
             /\ Followed(p) => Followed(p)'
             /\ Word(p) => Word(p)'
  <2>1. Coming(p) => Coming(p)'
    BY <1>2 DEF Coming
  <2>2. News(p) => Word(p)'
    BY <1>1, NewsKept DEF Word
  <2>3. PushComing(p) => PushComing(p)'
    BY DEF PushComing, Slims
  <2>4. Listed(p)' => Listed(p)
    BY <1>1 DEF Listed
  <2> QED BY <2>1, <2>2, <2>3, <2>4, PathKept
<1>7. Converging'
  <2>1. Subscribed' => \A p \in Paths : Heard(p)'
    BY <1>1, <1>6 DEF Tracked, Converging
  <2>2. Subscribed' /\ Awaited' =>
          \A p \in Paths : Shows(call'.rows[p], host'[p], hostVer'[p]) \/ Word(p)'
    BY <1>1, <1>3, <1>6 DEF Tracked, Converging
  <2>3. Connected' => \A p \in Paths : Followed(p)'
    BY <1>1, <1>6 DEF Tracked, Converging
  <2>4. Connected' /\ Answering' =>
          Shows(call'.row, host'[call'.path], hostVer'[call'.path]) \/ Word(call.path)'
    <3>1. Answering => call.path \in Paths
      BY DEF Answering, TypeOK, WellFormed
    <3>2. ASSUME NEW p \in Paths, Connected', Answering, call' = call, call.path = p
          PROVE  Shows(call'.row, host'[call'.path], hostVer'[call'.path]) \/ Word(p)'
      BY <1>1, <1>6, <3>2 DEF Tracked, Converging
    <3> QED BY <1>3, <3>1, <3>2
  <2> QED BY <2>1, <2>2, <2>3, <2>4 DEF Converging
<1> QED BY <1>1, <1>4, <1>5, <1>7 DEF Tracked

(* The host's file p is written: word of it is on its way from here on. *)
LEMMA HostTakesTracked ==
  ASSUME TypeOK, TypeOK', Tracked, NEW p \in Paths, NEW c \in Hash, HostTakes(p, c),
         UNCHANGED <<link, wire, pulls, primed, synced, nextId, manifestId, sent, entries, seen,
                     stale, held, aside, todo, queue, local, saving, unannounced>>,
         \/ call' = call
         \/ /\ call.job \in {"push", "keep"} /\ call.st = "checked"
            /\ call'.job = call.job /\ call'.path = p /\ call.path = p
            /\ call'.row = [hash |-> host'[p], ver |-> hostVer'[p]]
  PROVE  Tracked'
<1>1. /\ Aged /\ hostVer'[p] > hostVer[p] /\ p \in touched' /\ touched \subseteq touched'
      /\ \A q \in Paths : q # p => host'[q] = host[q] /\ hostVer'[q] = hostVer[q]
  <2>1. Aged /\ hostVer'[p] > hostVer[p]
    BY HostAged
  <2>2. p \in touched' /\ touched \subseteq touched'
    BY DEF HostTakes
  <2>3. host \in [Paths -> Hash] /\ hostVer \in [Paths -> Nat]
    BY DEF TypeOK
  <2> QED BY <2>1, <2>2, <2>3 DEF HostTakes
<1>2. /\ hostVer[p] \in Nat /\ hostVer'[p] \in Nat /\ seen[p] \in Nat /\ sent[p].ver \in Nat
      /\ seen[p] <= hostVer[p] /\ sent[p].ver <= hostVer[p]
  <2>1. hostVer' \in [Paths -> Nat]
    BY DEF TypeOK
  <2>2. hostVer \in [Paths -> Nat] /\ seen \in [Paths -> Nat] /\ sent \in [Paths -> Row]
    BY DEF TypeOK
  <2> QED BY <2>1, <2>2 DEF Row, Tracked, Versions
<1>3. /\ Lines' /\ Rising' /\ (Subscribed' => Subscribed) /\ (Connected' => Connected)
      /\ Pipe' = Pipe /\ Transit' = Transit
  <2>1. Slims(queue, queue', {})
    BY DEF Slims
  <2>2. call.st = "checked" /\ call.job \in {"push", "keep"} => link = "up"
    BY DEF Tracked, Lines, TypeOK
  <2>3. /\ Lines' /\ Rising' /\ (Subscribed' => Subscribed) /\ (Connected' => Connected)
    <3>1. Lines /\ Rising
      BY DEF Tracked
    <3>2. \A x \in {} : x.kind # "sync"
      OBVIOUS
    <3>3. \/ call' = call
          \/ /\ call.job # "sync" /\ call'.job # "sync"
             /\ call'.job = "none" \/ link = "up" \/ call'.st = "answered"
      BY <2>2
    <3> QED BY <2>1, <3>1, <3>2, <3>3, LinesStep
  <2> QED BY <2>3 DEF Pipe, Transit
<1>4. (Awaited' => Awaited /\ call' = call)
      /\ (Answering' => (Answering /\ call' = call) \/ call'.path = p)
  BY DEF Awaited, Answering
<1>5. Versions'
  <2>1. Versions
    BY DEF Tracked
  <2>2. \A x \in ToSet(queue') \cup ToSet(wire') \cup todo'.fills :
            x \in Transit \/ FrameDated(x, host', hostVer')
    BY DEF Transit
  <2>3. \A n \in ToSet(pulls') : \A x \in ToSet(n.read) :
            x \in Transit \/ FrameDated(x, host', hostVer')
    BY DEF Transit
  <2>4. Answering' =>
            \/ Answering /\ call'.row = call.row /\ call'.path = call.path /\ seen' = seen
            \/ /\ Dated(call'.row, host'[call'.path], hostVer'[call'.path])
               /\ seen'[call'.path] <= call'.row.ver
    BY <1>1, <1>2 DEF Answering, Dated
  <2> QED BY <1>1, <1>4, <2>1, <2>2, <2>3, <2>4, VersionsStep
<1>6. Marks'
  BY MarksStep DEF Tracked
<1>7. ASSUME NEW q \in Paths
      PROVE  /\ Heard(q) => Heard(q)'
             /\ Followed(q) => Followed(q)'
             /\ Word(q) => Word(q)'
             /\ q = p => Word(q)'
  <2>1. News(p)' /\ Word(p)'
    BY <1>1, <1>2 DEF News, Word
  <2>2. PushComing(q) => PushComing(q)'
    BY DEF PushComing
  <2>3. CASE q = p
    <3>1. Followed(p) => Followed(p)'
      BY <1>1, <1>2, <2>1, <2>2, <2>3 DEF Followed
    <3> QED BY <2>1, <2>3, <3>1 DEF Heard
  <2>4. CASE q # p
    <3>1. host'[q] = host[q] /\ hostVer'[q] = hostVer[q]
      BY <1>1, <2>4
    <3>2. Coming(q) => Coming(q)'
      BY <1>3, <3>1 DEF Coming
    <3>3. News(q) => Word(q)'
      BY <1>1, <1>3, <3>1 DEF Word, News
    <3>4. Listed(q)' => Listed(q)
      BY <1>3 DEF Listed
    <3>5. Excused(q) => Excused(q)'
      BY DEF Excused, Noted
    <3> QED BY <2>2, <2>4, <3>1, <3>2, <3>3, <3>4, <3>5, PathKept
  <2> QED BY <2>3, <2>4
<1>8. Converging'
  <2>1. Subscribed' => \A q \in Paths : Heard(q)'
    BY <1>3, <1>7 DEF Tracked, Converging
  <2>2. Subscribed' /\ Awaited' =>
          \A q \in Paths : Shows(call'.rows[q], host'[q], hostVer'[q]) \/ Word(q)'
    <3> SUFFICES ASSUME Subscribed', Awaited', NEW q \in Paths
                 PROVE  Shows(call'.rows[q], host'[q], hostVer'[q]) \/ Word(q)'
      OBVIOUS
    <3>1. Shows(call.rows[q], host[q], hostVer[q]) \/ Word(q)
      BY <1>3, <1>4 DEF Tracked, Converging
    <3> QED BY <1>1, <1>4, <1>7, <3>1
  <2>3. Connected' => \A q \in Paths : Followed(q)'
    BY <1>3, <1>7 DEF Tracked, Converging
  <2>4. Connected' /\ Answering' =>
          Shows(call'.row, host'[call'.path], hostVer'[call'.path]) \/ Word(call.path)'
    <3> SUFFICES ASSUME Connected', Answering'
                 PROVE  Shows(call'.row, host'[call'.path], hostVer'[call'.path]) \/ Word(call.path)'
      OBVIOUS
    <3>1. CASE call'.path = p
      <4>1. ASSUME NEW q \in Paths, q = p PROVE Word(q)'
        BY <1>7, <4>1
      <4> QED BY <3>1, <4>1
    <3>2. CASE call'.path # p
      <4>1. Answering /\ call' = call /\ call.path \in Paths
        BY <1>4, <3>2 DEF Answering, TypeOK, WellFormed
      <4>2. Shows(call.row, host[call.path], hostVer[call.path]) \/ Word(call.path)
        BY <1>3, <4>1 DEF Tracked, Converging
      <4>3. ASSUME NEW q \in Paths, q = call.path, Word(q) PROVE Word(q)'
        BY <1>7, <4>3
      <4> QED BY <1>1, <3>2, <4>1, <4>2, <4>3
    <3> QED BY <3>1, <3>2
  <2> QED BY <2>1, <2>2, <2>3, <2>4 DEF Converging
<1> QED BY <1>3, <1>5, <1>6, <1>8 DEF Tracked

(* The user's steps, the tools' and the host's processes'. *)
LEMMA UserTracked ==
  ASSUME TypeOK, TypeOK', Tracked, User
  PROVE  Tracked'
<1> USE DEF hostVars, serverVars
<1>1. queue \in Seq(Job) /\ local \in [Paths -> Hash] /\ todo \in Todo /\ entries \in [Paths -> Entry]
  BY DEF TypeOK
<1>2. Slims(queue, queue, {}) /\ \A x \in todo.fills : x \in Transit
  BY DEF Slims, Transit
<1>3. ASSUME NEW p \in Paths, NEW c \in Hash, SaveWrite(p, c) \/ ToolWrite(p, c) PROVE Tracked'
  <2>1. /\ UNCHANGED <<link, wire, pulls, primed, synced, nextId, manifestId, host, hostVer,
                       touched, sent, entries, seen, stale, held, aside, todo, queue, call>>
        /\ local' = [local EXCEPT ![p] = c]
        /\ saving \subseteq saving' /\ unannounced \subseteq unannounced'
        /\ p \in saving' \/ p \in unannounced'
    BY <1>3 DEF SaveWrite, ToolWrite, TreeTakes
  <2>2. \A q \in Paths : Excused(q) => Excused(q)'
    BY <2>1, ExcuseStays
  <2>3. \A q \in Paths : local'[q] = local[q] \/ Excused(q)'
    <3>1. Excused(p)'
      BY <2>1 DEF Excused, Noted
    <3> QED BY <1>1, <2>1, <3>1
  <2> QED BY <1>2, <2>1, <2>2, <2>3, AsideTracked
<1>4. ASSUME NEW p \in Paths, SaveNotify(p) PROVE Tracked'
  <2> DEFINE z == [kind |-> "note", path |-> p]
  <2>1. /\ UNCHANGED <<link, wire, pulls, primed, synced, nextId, manifestId, host, hostVer,
                       touched, sent, entries, seen, stale, held, aside, todo, local, call>>
        /\ queue' = Append(queue, z)
        /\ saving' = saving \ {p} /\ unannounced \ {p} \subseteq unannounced'
    BY <1>4 DEF SaveNotify
  <2>2. z \in Job /\ z.kind = "note" /\ z.path = p
    BY DEF Job, Note
  <2> HIDE DEF z
  <2>3. Slims(queue, queue', {}) /\ ToSet(queue') = ToSet(queue) \cup {z}
    <3>1. z.kind \in Unordered
      BY <2>2 DEF Unordered
    <3>2. Slims(queue, Append(queue, z), {})
      BY <1>1, <2>2, <3>1, Slimming
    <3>3. ToSet(Append(queue, z)) = ToSet(queue) \cup {z}
      BY <1>1, <2>2, AppendMembers
    <3> QED BY <2>1, <3>2, <3>3
  <2>4. OnQueue(queue', p) /\ \A q \in Paths : OnQueue(queue, q) => OnQueue(queue', q)
    <3>1. \E i \in 1..Len(queue') : queue'[i] = z
      <4>1. queue' \in Seq(Job)
        BY DEF TypeOK
      <4> QED BY <2>3, <4>1, SeqMembers
    <3> QED BY <1>1, <2>1, <2>2, <3>1, NoteStays DEF OnQueue
  <2>5. \A q \in Paths : Excused(q) => Excused(q)'
    BY <2>1, <2>4 DEF Excused, Noted, OnQueue
  <2> QED BY <1>2, <2>1, <2>2, <2>3, <2>5, AsideTracked
<1>5. ASSUME NEW p \in Paths, NEW c \in Hash, HostEdit(p, c) PROVE Tracked'
  <2>1. /\ UNCHANGED <<link, wire, pulls, primed, synced, nextId, manifestId, sent, entries, seen,
                       stale, held, aside, todo, queue, local, saving, unannounced, call>>
        /\ HostTakes(p, c)
    BY <1>5 DEF HostEdit
  <2> QED BY <2>1, HostTakesTracked
<1>6. ASSUME NEW undoable \in BOOLEAN, RequestApproval(undoable) PROVE Tracked'
  <2> DEFINE z == [kind |-> "approve", undoable |-> undoable]
  <2>1. /\ UNCHANGED <<link, wire, pulls, primed, synced, nextId, manifestId, host, hostVer,
                       touched, sent, entries, seen, stale, held, aside, todo, local, call,
                       saving, unannounced>>
        /\ queue' = Append(queue, z)
    BY <1>6 DEF RequestApproval
  <2>2. z \in Job /\ z.kind = "approve"
    BY DEF Job, Approve
  <2> HIDE DEF z
  <2>3. Slims(queue, queue', {}) /\ ToSet(queue') = ToSet(queue) \cup {z}
    <3>1. z.kind \in Unordered
      BY <2>2 DEF Unordered
    <3>2. Slims(queue, Append(queue, z), {})
      BY <1>1, <2>2, <3>1, Slimming
    <3>3. ToSet(Append(queue, z)) = ToSet(queue) \cup {z}
      BY <1>1, <2>2, AppendMembers
    <3> QED BY <2>1, <3>2, <3>3
  <2>4. \A q \in Paths : Excused(q) => Excused(q)'
    <3>1. \A q \in Paths : OnQueue(queue, q) => OnQueue(queue', q)
      BY <1>1, <2>1, <2>2, NoteStays
    <3> QED BY <2>1, <3>1, ExcuseStays
  <2> QED BY <1>2, <2>1, <2>2, <2>3, <2>4, AsideTracked
<1>7. ASSUME NEW p \in Paths,
             \/ Prioritize(p) \/ TakeRemote(p)
             \/ \E expect : KeepLocal(p, expect)
      PROVE  Tracked'
  <2>1. /\ UNCHANGED <<link, wire, pulls, primed, synced, nextId, manifestId, host, hostVer,
                       touched, sent, entries, seen, stale, held, aside, queue, local,
                       saving, unannounced>>
        /\ Idle
    BY <1>7 DEF Prioritize, TakeRemote, KeepLocal
  <2>2. \A q \in Paths : Excused(q) => Excused(q)'
    BY <2>1 DEF Excused, Noted
  <2>3. /\ todo'.deletes = todo.deletes /\ todo'.restores = todo.restores
        /\ todo.fills \subseteq todo'.fills
        /\ \A x \in todo'.fills : x \in Transit \/ FrameDated(x, host, hostVer)
    <3>1. CASE todo' = todo
      BY <1>2, <3>1
    <3>2. CASE todo' # todo
      <4> DEFINE o == [kind |-> "object", path |-> p, row |-> entries[p].remote, delta |-> None]
      <4>1. entries[p].hasRemote /\ todo' = [todo EXCEPT !.fills = {o}]
        BY <1>7, <3>2 DEF Prioritize, TakeRemote, KeepLocal
      <4>2. FrameDated(o, host, hostVer)
        BY <4>1 DEF Tracked, Versions, RecordDated, FrameDated
      <4> HIDE DEF o
      <4>3. /\ todo'.deletes = todo.deletes /\ todo'.restores = todo.restores
            /\ todo'.fills = {o}
        BY <1>1, <4>1 DEF Todo
      <4> QED BY <2>1, <4>2, <4>3 DEF Idle
    <3> QED BY <3>1, <3>2
  <2>4. \/ call' = call
        \/ /\ call.job = "none" /\ call'.st = "sent" /\ link = "up"
           /\ \/ call'.job = "fetch"
              \/ /\ call'.job \in {"keep", "take"}
                 /\ entries[call'.path].known /\ entries[call'.path].conflict
    <3>1. call.job = "none"
      BY <2>1 DEF Idle
    <3>2. ASSUME Prioritize(p)
          PROVE  call' = call \/ (link = "up" /\ call'.st = "sent" /\ call'.job = "fetch")
      BY <3>2 DEF Prioritize, NoCall
    <3>3. ASSUME TakeRemote(p)
          PROVE  /\ link = "up" /\ call'.st = "sent" /\ call'.job = "take" /\ call'.path = p
                 /\ entries[p].known /\ entries[p].conflict
      BY <3>3 DEF TakeRemote, NoCall
    <3>4. ASSUME NEW expect, KeepLocal(p, expect)
          PROVE  /\ link = "up" /\ call'.st = "sent" /\ call'.job = "keep" /\ call'.path = p
                 /\ entries[p].known /\ entries[p].conflict
      BY <3>4 DEF KeepLocal, NoCall
    <3> QED BY <1>7, <3>1, <3>2, <3>3, <3>4
  <2> QED BY <1>2, <2>1, <2>2, <2>3, <2>4, AsideTracked
<1>8. Contents \subseteq Hash
  BY DEF Hash
<1> QED BY <1>3, <1>4, <1>5, <1>6, <1>7, <1>8 DEF User

(* The server checks, writes or reads the file a call is about, or answers. *)
LEMMA AnswerTracked ==
  ASSUME TypeOK, TypeOK', Tracked,
         UNCHANGED <<link, wire, pulls, primed, synced, nextId, manifestId, host, hostVer, touched,
                     sent, entries, seen, stale, held, aside, todo, queue, local, saving,
                     unannounced>>,
         \/ call' = call
         \/ /\ call.job \in {"push", "keep", "take", "fetch"} /\ call.st # "answered"
            /\ call'.job = call.job /\ call'.path = call.path
            /\ Answering' => (Answering /\ call'.row = call.row) \/ call'.row = HostRow(call.path)
  PROVE  Tracked'
<1>1. /\ Lines' /\ Rising' /\ (Subscribed' => Subscribed) /\ (Connected' => Connected)
      /\ Pipe' = Pipe /\ Transit' = Transit
  <2>1. Slims(queue, queue', {}) /\ Lines /\ Rising /\ \A x \in {} : x.kind # "sync"
    BY DEF Slims, Tracked
  <2>2. call.job # "none" /\ call.st # "answered" => link = "up"
    BY DEF Tracked, Lines, TypeOK
  <2>3. \/ call' = call
        \/ /\ call.job # "sync" /\ call'.job # "sync"
           /\ call'.job = "none" \/ link = "up" \/ call'.st = "answered"
    BY <2>2
  <2> QED BY <2>1, <2>3, LinesStep DEF Pipe, Transit
<1>2. Awaited' => Awaited /\ call' = call
  BY DEF Awaited
<1>3. Answering' => /\ call.path \in Paths /\ call'.path = call.path
                    /\ (Answering /\ call'.row = call.row) \/ call'.row = HostRow(call.path)
  BY DEF Answering, TypeOK, WellFormed
<1>4. Versions'
  <2>1. Versions /\ Aged
    BY SameAged DEF Tracked
  <2>2. \A x \in ToSet(queue') \cup ToSet(wire') \cup todo'.fills :
            x \in Transit \/ FrameDated(x, host', hostVer')
    BY DEF Transit
  <2>3. \A n \in ToSet(pulls') : \A x \in ToSet(n.read) :
            x \in Transit \/ FrameDated(x, host', hostVer')
    BY DEF Transit
  <2>4. ASSUME NEW p \in Paths
        PROVE  Dated(HostRow(p), host[p], hostVer[p]) /\ seen[p] <= HostRow(p).ver
    BY <2>1 DEF HostRow, Dated, Versions, TypeOK
  <2>5. Answering' =>
            \/ Answering /\ call'.row = call.row /\ call'.path = call.path /\ seen' = seen
            \/ /\ Dated(call'.row, host'[call'.path], hostVer'[call'.path])
               /\ seen'[call'.path] <= call'.row.ver
    BY <1>3, <2>4
  <2> QED BY <1>2, <2>1, <2>2, <2>3, <2>5, VersionsStep
<1>5. Marks'
  BY MarksStep DEF Tracked
<1>6. ASSUME NEW p \in Paths
      PROVE  /\ Heard(p) => Heard(p)'
             /\ Followed(p) => Followed(p)'
             /\ Word(p) => Word(p)'
  <2>1. Coming(p) => Coming(p)'
    BY <1>1 DEF Coming
  <2>2. News(p) => Word(p)'
    BY <1>1 DEF Word, News
  <2>3. PushComing(p) => PushComing(p)'
    BY DEF PushComing
  <2>4. Listed(p)' => Listed(p)
    BY <1>1 DEF Listed
  <2>5. Excused(p) => Excused(p)'
    BY DEF Excused, Noted
  <2> QED BY <2>1, <2>2, <2>3, <2>4, <2>5, PathKept
<1>7. Converging'
  <2>1. Subscribed' => \A p \in Paths : Heard(p)'
    BY <1>1, <1>6 DEF Tracked, Converging
  <2>2. Subscribed' /\ Awaited' =>
          \A p \in Paths : Shows(call'.rows[p], host'[p], hostVer'[p]) \/ Word(p)'
    BY <1>1, <1>2, <1>6 DEF Tracked, Converging
  <2>3. Connected' => \A p \in Paths : Followed(p)'
    BY <1>1, <1>6 DEF Tracked, Converging
  <2>4. ASSUME NEW p \in Paths, Connected', Answering', call'.path = p
        PROVE  Shows(call'.row, host'[p], hostVer'[p]) \/ Word(p)'
    <3>1. CASE Answering /\ call'.row = call.row
      <4>1. Shows(call.row, host[p], hostVer[p]) \/ Word(p)
        BY <1>1, <1>3, <2>4, <3>1 DEF Tracked, Converging
      <4> QED BY <1>6, <3>1, <4>1
    <3>2. CASE call'.row = HostRow(call.path)
      BY <1>3, <2>4, <3>2 DEF HostRow, Shows
    <3> QED BY <1>3, <2>4, <3>1, <3>2
  <2>5. Connected' /\ Answering' =>
          Shows(call'.row, host'[call'.path], hostVer'[call'.path]) \/ Word(call.path)'
    BY <1>3, <2>4
  <2> QED BY <2>1, <2>2, <2>3, <2>5 DEF Converging
<1> QED BY <1>1, <1>4, <1>5, <1>7 DEF Tracked

(* It reads what a pull asks for, and answers a pull that has been read: the *)
(* bytes stay on their way.                                                  *)
LEMMA PullTracked ==
  ASSUME TypeOK, TypeOK', Tracked, link = "up",
         UNCHANGED <<link, primed, synced, nextId, manifestId, host, hostVer, touched, sent, entries,
                     seen, stale, held, aside, todo, queue, local, saving, unannounced, call>>,
         Slims(wire, wire', {}),
         \A x \in ToSet(wire') : x \in Transit,
         \A n \in ToSet(pulls') : \A x \in ToSet(n.read) :
            x \in Transit \/ FrameDated(x, host, hostVer),
         Transit \subseteq Transit',
         \A p \in Paths : (\E n \in ToSet(pulls) : p \in n.paths) => Coming(p)'
  PROVE  Tracked'
<1>1. /\ Lines' /\ Rising' /\ (Subscribed' => Subscribed) /\ (Connected' => Connected)
      /\ Pipe' \subseteq Pipe /\ \A d \in Pipe : d \in Pipe'
  <2>1. Slims(queue, queue', {}) /\ Lines /\ Rising /\ \A x \in {} : x.kind # "sync"
    BY DEF Slims, Tracked
  <2> QED BY <2>1, LinesMove
<1>2. (Answering' <=> Answering) /\ (Awaited' <=> Awaited)
  BY DEF Answering, Awaited
<1>3. Versions'
  <2>1. Versions /\ Aged
    BY SameAged DEF Tracked
  <2>2. \A x \in ToSet(queue') \cup ToSet(wire') \cup todo'.fills :
            x \in Transit \/ FrameDated(x, host', hostVer')
    BY DEF Transit
  <2> QED BY <1>2, <2>1, <2>2, VersionsStep
<1>4. Marks'
  BY MarksStep DEF Tracked
<1>5. ASSUME NEW p \in Paths
      PROVE  /\ Heard(p) => Heard(p)'
             /\ Followed(p) => Followed(p)'
             /\ Word(p) => Word(p)'
  <2>1. Coming(p) => Coming(p)'
    BY DEF Coming
  <2>2. News(p) => Word(p)'
    BY <1>1, NewsKept DEF Word
  <2>3. PushComing(p) => PushComing(p)'
    BY DEF PushComing
  <2>4. Listed(p)' => Listed(p)
    BY <1>1 DEF Listed
  <2>5. Excused(p) => Excused(p)'
    BY DEF Excused, Noted
  <2> QED BY <2>1, <2>2, <2>3, <2>4, <2>5, PathKept
<1>6. Converging'
  <2>1. Subscribed' => \A p \in Paths : Heard(p)'
    BY <1>1, <1>5 DEF Tracked, Converging
  <2>2. Subscribed' /\ Awaited' =>
          \A p \in Paths : Shows(call'.rows[p], host'[p], hostVer'[p]) \/ Word(p)'
    BY <1>1, <1>2, <1>5 DEF Tracked, Converging
  <2>3. Connected' => \A p \in Paths : Followed(p)'
    BY <1>1, <1>5 DEF Tracked, Converging
  <2>4. ASSUME NEW p \in Paths, Connected', Answering', call'.path = p
        PROVE  Shows(call'.row, host'[p], hostVer'[p]) \/ Word(p)'
    BY <1>1, <1>2, <1>5, <2>4 DEF Tracked, Converging
  <2>5. Answering' => call'.path \in Paths
    BY DEF Answering, TypeOK, WellFormed
  <2>6. Connected' /\ Answering' =>
          Shows(call'.row, host'[call'.path], hostVer'[call'.path]) \/ Word(call.path)'
    BY <2>4, <2>5
  <2> QED BY <2>1, <2>2, <2>3, <2>6 DEF Converging
<1> QED BY <1>1, <1>3, <1>4, <1>6 DEF Tracked

(* One more object of the oldest pull is read. *)
LEMMA ServerPullTracked ==
  ASSUME TypeOK, TypeOK', Tracked, NEW p \in Paths, NEW delta \in Hash, ServerPull(p, delta)
  PROVE  Tracked'
<1> DEFINE o == [kind |-> "object", path |-> p, row |-> HostRow(p), delta |-> delta]
           n == Head(pulls)
           m == [n EXCEPT !.paths = @ \ {p}, !.read = Append(@, o)]
<1>1. /\ UNCHANGED <<link, primed, synced, nextId, manifestId, host, hostVer, touched, sent, entries,
                     seen, stale, held, aside, todo, queue, local, saving, unannounced, call, wire>>
      /\ pulls # <<>> /\ pulls' = <<m>> \o Tail(pulls)
  BY DEF ServerPull, hostVars, serverVars
<1>2. link = "up" /\ pulls \in Seq(Pull) /\ n \in Pull /\ Tail(pulls) \in Seq(Pull)
  BY <1>1, HeadType DEF TypeOK, Tracked, Lines
<1>3. o \in Object /\ o.kind = "object" /\ o.path = p /\ o.row = HostRow(p)
  BY HostRowType DEF Object
<1> HIDE DEF o
<1>4. /\ m \in Pull /\ m.paths = n.paths \ {p} /\ m.read = Append(n.read, o)
      /\ n.read \in Seq(Object)
  <2>1. n.read \in Seq(Object) /\ n.paths \subseteq Paths /\ n.base \in [Paths -> Hash]
    BY <1>2 DEF Pull
  <2>2. Append(n.read, o) \in Seq(Object)
    BY <1>3, <2>1
  <2> HIDE DEF n
  <2>3. m.paths = n.paths \ {p} /\ m.read = Append(n.read, o)
    BY <1>2 DEF Pull
  <2>4. m \in Pull
    BY <1>2, <2>1, <2>2 DEF Pull
  <2> QED BY <2>1, <2>3, <2>4
<1>5. ToSet(m.read) = ToSet(n.read) \cup {o}
  BY <1>3, <1>4, AppendMembers
<1> HIDE DEF m
<1>6. ToSet(pulls') = {m} \cup ToSet(Tail(pulls)) /\ ToSet(pulls) = {n} \cup ToSet(Tail(pulls))
  <2>1. <<m>> \in Seq(Pull) /\ ToSet(<<m>>) = {m}
    BY <1>4, OneMember
  <2> QED BY <1>1, <1>2, <2>1, JoinedMembers, TailMembers
<1> HIDE DEF n
<1>7. FrameDated(o, host, hostVer) /\ Shows(o.row, host[p], hostVer[p])
  BY <1>3 DEF FrameDated, HostRow, Shows, Dated, TypeOK
<1>8. \A k \in ToSet(pulls') : \A x \in ToSet(k.read) : x \in Transit \/ FrameDated(x, host, hostVer)
  BY <1>5, <1>6, <1>7 DEF Transit
<1>9. Transit \subseteq Transit' /\ o \in Transit'
  BY <1>1, <1>5, <1>6 DEF Transit
<1>10. ASSUME NEW q \in Paths, NEW k \in ToSet(pulls), q \in k.paths PROVE Coming(q)'
  <2>1. CASE k = n /\ q = p
    BY <1>1, <1>3, <1>7, <1>9, <2>1 DEF Coming
  <2>2. CASE ~(k = n /\ q = p)
    <3>1. \E j \in ToSet(pulls') : q \in j.paths
      BY <1>4, <1>6, <1>10, <2>2
    <3> QED BY <3>1 DEF Coming
  <2> QED BY <2>1, <2>2
<1>11. Slims(wire, wire', {}) /\ \A x \in ToSet(wire') : x \in Transit
  BY <1>1 DEF Slims, Transit
<1> QED BY <1>1, <1>2, <1>8, <1>9, <1>10, <1>11, PullTracked

(* The oldest pull is answered. *)
LEMMA ServerPulledTracked ==
  ASSUME TypeOK, TypeOK', Tracked, ServerPulled
  PROVE  Tracked'
<1> DEFINE n == Head(pulls)
<1>1. /\ UNCHANGED <<link, primed, synced, nextId, manifestId, host, hostVer, touched, sent, entries,
                     seen, stale, held, aside, todo, queue, local, saving, unannounced, call>>
      /\ pulls # <<>> /\ n.paths = {} /\ pulls' = Tail(pulls) /\ wire' = wire \o n.read
  BY DEF ServerPulled, hostVars, serverVars
<1>2. link = "up" /\ pulls \in Seq(Pull) /\ n \in Pull
  BY <1>1, HeadType DEF TypeOK, Tracked, Lines
<1>3. ToSet(pulls) = {n} \cup ToSet(pulls')
  BY <1>1, <1>2, TailMembers
<1> HIDE DEF n
<1> DEFINE S == Object \cup WatchDelta \cup Manifest
<1>4. n.read \in Seq(Object) /\ wire \in Seq(S) /\ n.read \in Seq(S)
  BY <1>2 DEF TypeOK, Pull
<1>5. \A x \in ToSet(n.read) : x.kind = "object"
  <2>1. ToSet(n.read) \subseteq Object
    BY <1>4, SeqMembers
  <2> QED BY <2>1 DEF Object
<1>6. /\ ToSet(wire') = ToSet(wire) \cup ToSet(n.read)
      /\ \A x, y : Ahead(wire', x, y) =>
            Ahead(wire, x, y) \/ Ahead(n.read, x, y) \/ (x \in ToSet(wire) /\ y \in ToSet(n.read))
  <2> HIDE DEF S
  <2> QED BY <1>1, <1>4, JoinedMembers
<1>7. \A x, y : Ahead(n.read, x, y) => y \in ToSet(n.read)
  BY <1>4, SeqMembers
<1>8. Slims(wire, wire', {})
  BY <1>5, <1>6, <1>7 DEF Slims, Unordered
<1>9. \A x \in ToSet(wire') : x \in Transit
  BY <1>3, <1>6 DEF Transit
<1>10. \A k \in ToSet(pulls') : \A x \in ToSet(k.read) : x \in Transit
  BY <1>3 DEF Transit
<1>11. Transit \subseteq Transit'
  BY <1>1, <1>3, <1>6 DEF Transit
<1>12. ASSUME NEW q \in Paths, NEW k \in ToSet(pulls), q \in k.paths PROVE Coming(q)'
  BY <1>1, <1>3, <1>12 DEF Coming
<1> QED BY <1>1, <1>2, <1>8, <1>9, <1>10, <1>11, <1>12, PullTracked

(* The manifest: every row is the host's, and nothing older is on its way. *)
LEMMA ServerManifestTracked ==
  ASSUME TypeOK, TypeOK', Tracked, ServerManifest
  PROVE  Tracked'
<1> DEFINE z == [kind |-> "manifest"]
<1>1. /\ UNCHANGED <<link, synced, manifestId, host, hostVer, touched, entries,
                     seen, stale, held, aside, todo, queue, local, saving, unannounced, pulls>>
      /\ wire' = Append(wire, z) /\ nextId' = nextId + 1 /\ primed'
      /\ sent' = [p \in Paths |-> HostRow(p)]
      /\ call.job = "sync" /\ call.st = "sent"
  BY DEF ServerManifest, hostVars
<1>2. /\ call'.job = "sync" /\ call'.st = "written" /\ call'.manifest = nextId
      /\ \A p \in Paths : call'.rows[p] = HostRow(p)
  BY DEF ServerManifest, TypeOK, WellFormed, Call
<1>3. nextId \in Nat \ {0} /\ link = "up"
  BY <1>1 DEF TypeOK, Tracked, Lines
<1>4. z.kind = "manifest" /\ z \in Object \cup WatchDelta \cup Manifest
  BY DEF Manifest
<1> HIDE DEF z
<1>5. /\ ToSet(wire') = ToSet(wire) \cup {z}
      /\ \A x, y : Ahead(wire', x, y) <=> (Ahead(wire, x, y) \/ (x \in ToSet(wire) /\ y = z))
  <2>1. wire \in Seq(Object \cup WatchDelta \cup Manifest)
    BY DEF TypeOK
  <2> QED BY <1>1, <1>4, <2>1, AppendMembers
<1>6. /\ \A x \in ToSet(wire) : x.kind \notin {"manifest", "delta"}
      /\ \A x \in ToSet(queue) : x.kind # "delta"
      /\ ~SyncQueued
  <2>1. Lines
    BY DEF Tracked
  <2>2. \A x \in ToSet(wire) : x.kind # "manifest"
    BY <1>1, <2>1 DEF Lines
  <2>3. \A x \in ToSet(wire) : x.kind # "delta"
    BY <1>1, <2>1 DEF Lines
  <2>4. \A x \in ToSet(queue) : x.kind # "delta"
    BY <1>1, <2>1 DEF Lines
  <2>5. ~SyncQueued
    BY <1>1, <2>1 DEF Lines
  <2> QED BY <2>2, <2>3, <2>4, <2>5
<1>7. ~SyncQueued' /\ Pipe' = {} /\ Awaited'
  <2>1. ~SyncQueued'
    BY <1>1, <1>6 DEF SyncQueued
  <2>2. Pipe' = {}
    BY <1>1, <1>4, <1>5, <1>6 DEF Pipe
  <2> QED BY <1>2, <2>1, <2>2 DEF Awaited
<1>8. Lines'
  <2>1. \A x, y : Ahead(queue', x, y) /\ x.kind = "sync" => y.kind \notin {"sync", "delta"}
    BY <1>1 DEF Tracked, Lines
  <2>2. \A x, y : Ahead(wire', x, y) => x.kind # "manifest" \/ y.kind # "manifest"
    <3>1. \A x, y : Ahead(wire, x, y) => x.kind # "manifest" \/ y.kind # "manifest"
      BY DEF Tracked, Lines
    <3> QED BY <1>5, <1>6, <3>1
  <2> QED BY <1>1, <1>2, <1>3, <1>7, <2>1, <2>2 DEF Lines
<1>9. Rising'
  <2>1. Line' = nextId /\ nextId < nextId'
    BY <1>1, <1>2, <1>3 DEF Line
  <2>2. ASSUME NEW d, NEW f, Precedes(d, f)', d.kind = "delta", f.kind = "delta" PROVE FALSE
    <3>1. d \in ToSet(queue') \cup ToSet(wire')
      <4>1. queue' \in Seq(Job) /\ wire' \in Seq(Object \cup WatchDelta \cup Manifest)
        BY DEF TypeOK
      <4> QED BY <2>2, <4>1, SeqMembers DEF Precedes
    <3> QED BY <1>7, <2>2, <3>1 DEF Pipe
  <2> QED BY <1>1, <1>7, <2>1, <2>2 DEF Rising
<1>10. Versions'
  <2>1. Versions /\ Aged
    BY <1>1, SameAged DEF Tracked
  <2>2. /\ \A p \in Paths : sent'[p] = HostRow(p)
        /\ \A p \in Paths : HostRow(p).ver = hostVer[p] /\ HostRow(p).hash = host[p] /\ hostVer[p] \in Nat
    BY <1>1 DEF HostRow, TypeOK
  <2>3. ~Answering'
    BY <1>2 DEF Answering
  <2>4. \A x \in ToSet(queue') \cup ToSet(wire') \cup todo'.fills :
            x \in Transit \/ FrameDated(x, host', hostVer')
    BY <1>1, <1>4, <1>5 DEF Transit, FrameDated
  <2>5. \A k \in ToSet(pulls') : \A x \in ToSet(k.read) :
            x \in Transit \/ FrameDated(x, host', hostVer')
    BY <1>1 DEF Transit
  <2>6. \A p \in Paths : /\ Dated(call'.rows[p], host'[p], hostVer'[p])
                         /\ seen'[p] <= call'.rows[p].ver
    BY <1>1, <1>2, <2>1, <2>2 DEF Dated, Versions
  <2>7. \A p \in Paths : sent'[p].ver <= hostVer'[p]
    BY <1>1, <2>2
  <2> QED BY <1>1, <2>1, <2>3, <2>4, <2>5, <2>6, <2>7, VersionsStep
<1>11. Marks'
  BY <1>1, <1>2, MarksStep DEF Tracked
<1>12. Converging'
  <2>1. \A p \in Paths : Heard(p)'
    BY <1>7 DEF Heard, Listed
  <2>2. \A p \in Paths : Shows(call'.rows[p], host'[p], hostVer'[p])
    BY <1>1, <1>2 DEF Shows, HostRow
  <2>3. ~Connected'
    BY <1>2 DEF Connected
  <2> QED BY <2>1, <2>2, <2>3 DEF Converging
<1> QED BY <1>8, <1>9, <1>10, <1>11, <1>12 DEF Tracked

(* A watch batch: what was touched is in the delta, or let go. *)
LEMMA PublishTracked ==
  ASSUME TypeOK, TypeOK', Tracked, PublishWatchBatch
  PROVE  Tracked'
<1> DEFINE changed == {p \in Paths : ~SameRow(HostRow(p), sent[p])}
           rows == [p \in Paths |-> IF p \in changed THEN HostRow(p) ELSE NoRow]
           z == [kind |-> "delta", id |-> nextId, changed |-> changed, rows |-> rows]
<1>1. /\ UNCHANGED <<link, synced, manifestId, host, hostVer, entries, seen, held, aside, todo, queue,
                     local, saving, unannounced, pulls, call, primed>>
      /\ primed /\ nextId' = nextId + 1
      /\ sent' = [p \in Paths |-> HostRow(p)]
      /\ wire' = IF changed = {} THEN wire ELSE Append(wire, z)
      /\ stale' = stale \cup {p \in touched \ changed : hostVer[p] > sent[p].ver}
  BY DEF PublishWatchBatch
<1>2. nextId \in Nat \ {0} /\ link = "up" /\ hostVer \in [Paths -> Nat]
  BY <1>1 DEF TypeOK, Tracked, Lines
<1>3. /\ z.kind = "delta" /\ z.id = nextId /\ z.changed = changed
      /\ \A p \in changed : z.rows[p] = HostRow(p) /\ z.rows[p].ver = hostVer[p]
                            /\ z.rows[p].hash = host[p] /\ hostVer[p] \in Nat
  BY <1>2 DEF HostRow
<1>4. z \in WatchDelta
  BY <1>2, HostRowType DEF WatchDelta, Row, NoRow, Hash
<1>5. changed \subseteq Paths
  OBVIOUS
<1> HIDE DEF changed, rows, z
<1>6. /\ ToSet(wire) \subseteq ToSet(wire') /\ ToSet(wire') \subseteq ToSet(wire) \cup {z}
      /\ changed # {} => z \in ToSet(wire')
      /\ \A x \in ToSet(wire') : x \in ToSet(wire) \/ (x = z /\ changed # {})
      /\ \A x, y : Ahead(wire', x, y) => Ahead(wire, x, y) \/ (x \in ToSet(wire) /\ y = z)
  <2>1. wire \in Seq(Object \cup WatchDelta \cup Manifest)
    BY DEF TypeOK
  <2>2. CASE changed = {}
    BY <1>1, <2>2
  <2>3. CASE changed # {}
    BY <1>1, <1>4, <2>1, <2>3, AppendMembers
  <2> QED BY <2>2, <2>3
<1>7. /\ Pipe \subseteq Pipe' /\ \A d \in Pipe' : d \in Pipe \/ d = z
      /\ changed # {} => z \in Pipe'
      /\ Transit \subseteq Transit' /\ \A x \in Transit' : x \in Transit \/ x = z
  BY <1>1, <1>3, <1>6 DEF Pipe, Transit
<1>8. /\ (Subscribed' <=> Subscribed) /\ (Connected' <=> Connected) /\ (SyncQueued' <=> SyncQueued)
      /\ (Awaited' <=> Awaited) /\ (Answering' <=> Answering) /\ Line' = Line
  BY <1>1 DEF Subscribed, Connected, SyncQueued, Awaited, Answering, Line
<1>9. ~SyncQueued /\ ~(call.job = "sync" /\ call.st = "sent")
  BY <1>1 DEF Tracked, Lines
<1>10. Lines'
  <2>1. \A x, y : Ahead(queue', x, y) /\ x.kind = "sync" => y.kind \notin {"sync", "delta"}
    BY <1>1 DEF Tracked, Lines
  <2>2. \A x, y : Ahead(wire', x, y) => x.kind # "manifest" \/ y.kind # "manifest"
    BY <1>3, <1>6 DEF Tracked, Lines
  <2>3. \A x \in ToSet(wire') : x.kind = "manifest" => call'.job = "sync" /\ call'.st = "written"
    BY <1>1, <1>3, <1>6 DEF Tracked, Lines
  <2>4. Awaited' => call'.manifest > 0
    BY <1>1, <1>8 DEF Tracked, Lines
  <2> QED BY <1>1, <1>2, <1>8, <1>9, <2>1, <2>2, <2>3, <2>4 DEF Lines
<1>11. Rising'
  <2> SUFFICES ASSUME Subscribed' PROVE Rising'
    BY DEF Rising
  <2>1. /\ Line < nextId
        /\ \A d \in Pipe : Line < d.id /\ d.id < nextId
        /\ \A d, f : Precedes(d, f) /\ d.kind = "delta" /\ f.kind = "delta" => Older(d, f)
        /\ Awaited => \A d \in Pipe : \A p \in d.changed : call.rows[p].ver <= d.rows[p].ver
    BY <1>8 DEF Tracked, Rising
  <2>2. Line \in Nat /\ \A d \in Pipe : d \in WatchDelta /\ d.id \in Nat
    <3>1. Line \in Nat
      BY DEF Line, TypeOK, WellFormed, Call
    <3>2. Pipe \subseteq WatchDelta
      BY TransitType DEF Pipe, Job, Note, Push, Approve, Sync, Object, Manifest
    <3> QED BY <3>1, <3>2 DEF WatchDelta
  <2>3. \A d \in Pipe' : Line' < d.id /\ d.id < nextId'
    BY <1>1, <1>2, <1>3, <1>7, <1>8, <2>1, <2>2
  <2>4. ASSUME NEW d \in Pipe PROVE Older(d, z)
    <3>1. \A p \in d.changed : d.rows[p].ver <= hostVer[p]
      BY <2>4 DEF Tracked, Versions, FrameDated, Dated, Pipe, Transit
    <3> QED BY <1>3, <2>1, <3>1 DEF Older
  <2>5. ASSUME NEW d, NEW f, Precedes(d, f)', d.kind = "delta", f.kind = "delta" PROVE Older(d, f)
    <3>1. Precedes(d, f) \/ (d \in Pipe /\ f = z)
      BY <1>1, <1>6, <2>5 DEF Precedes, Pipe
    <3> QED BY <2>1, <2>4, <2>5, <3>1
  <2>6. Awaited' => \A d \in Pipe' : \A p \in d.changed : call'.rows[p].ver <= d.rows[p].ver
    <3>1. Awaited => \A p \in Paths : call.rows[p].ver <= hostVer[p]
      BY DEF Tracked, Versions, Dated
    <3> QED BY <1>1, <1>3, <1>5, <1>7, <1>8, <2>1, <3>1
  <2> QED BY <1>1, <1>2, <1>8, <2>1, <2>2, <2>3, <2>5, <2>6 DEF Rising
<1>12. FrameDated(z, host, hostVer)
  BY <1>3, <1>5 DEF FrameDated, Dated
<1>13. Versions'
  <2>1. Versions /\ Aged
    BY <1>1, SameAged DEF Tracked
  <2>2. \A p \in Paths : sent'[p].ver <= hostVer'[p]
    BY <1>1, <1>2 DEF HostRow
  <2>3. \A x \in ToSet(queue') \cup ToSet(wire') \cup todo'.fills :
            x \in Transit \/ FrameDated(x, host', hostVer')
    BY <1>1, <1>7, <1>12 DEF Transit
  <2>4. \A k \in ToSet(pulls') : \A x \in ToSet(k.read) :
            x \in Transit \/ FrameDated(x, host', hostVer')
    BY <1>1 DEF Transit
  <2> QED BY <1>1, <1>8, <2>1, <2>2, <2>3, <2>4, VersionsStep
<1>14. Marks'
  BY <1>1, MarksStep DEF Tracked
<1>15. ASSUME NEW p \in Paths
      PROVE  /\ Heard(p) => Heard(p)'
             /\ Followed(p) => Followed(p)'
             /\ Word(p) => Word(p)'
  <2>1. p \in changed => News(p)'
    BY <1>1, <1>3, <1>7 DEF News, Shows
  <2>2. News(p) => Word(p)'
    <3>1. CASE p \in touched /\ hostVer[p] > sent[p].ver
      BY <1>1, <2>1, <3>1 DEF Word
    <3>2. CASE \E d \in Pipe : p \in d.changed /\ Shows(d.rows[p], host[p], hostVer[p])
      BY <1>1, <1>7, <3>2 DEF Word, News
    <3> QED BY <3>1, <3>2 DEF News
  <2>3. Listed(p)' => Listed(p) \/ Word(p)'
    BY <1>3, <1>7, <2>1 DEF Listed, Word
  <2>4. Coming(p) => Coming(p)'
    BY <1>1, <1>7 DEF Coming
  <2>5. PushComing(p) => PushComing(p)'
    BY <1>1 DEF PushComing
  <2>6. Excused(p) => Excused(p)'
    BY <1>1 DEF Excused, Noted
  <2> QED BY <1>1, <2>2, <2>3, <2>4, <2>5, <2>6, PathKept
<1>16. Converging'
  <2>1. Subscribed' => \A p \in Paths : Heard(p)'
    BY <1>8, <1>15 DEF Tracked, Converging
  <2>2. Subscribed' /\ Awaited' =>
          \A p \in Paths : Shows(call'.rows[p], host'[p], hostVer'[p]) \/ Word(p)'
    BY <1>1, <1>8, <1>15 DEF Tracked, Converging
  <2>3. Connected' => \A p \in Paths : Followed(p)'
    BY <1>8, <1>15 DEF Tracked, Converging
  <2>4. ASSUME NEW p \in Paths, Connected', Answering', call'.path = p
        PROVE  Shows(call'.row, host'[p], hostVer'[p]) \/ Word(p)'
    BY <1>1, <1>8, <1>15, <2>4 DEF Tracked, Converging
  <2>5. Answering' => call'.path \in Paths
    BY DEF Answering, TypeOK, WellFormed
  <2>6. Connected' /\ Answering' =>
          Shows(call'.row, host'[call'.path], hostVer'[call'.path]) \/ Word(call.path)'
    BY <1>1, <2>4, <2>5
  <2> QED BY <2>1, <2>2, <2>3, <2>6 DEF Converging
<1> QED BY <1>10, <1>11, <1>13, <1>14, <1>16 DEF Tracked

(* What the server does. *)
LEMMA ServerTracked ==
  ASSUME TypeOK, TypeOK', Tracked, Server
  PROVE  Tracked'
<1> USE DEF hostVars, serverVars
<1>1. ASSUME NEW p \in Paths, call.path = p,
             \/ ServerCheck \/ ServerAnswer \/ ServerRead
             \/ ServerWrite /\ ~Replaces(call)
      PROVE  Tracked'
  <2>1. UNCHANGED <<link, wire, pulls, primed, synced, nextId, manifestId, host, hostVer, touched,
                    sent, entries, seen, stale, held, aside, todo, queue, local, saving,
                    unannounced>>
    BY <1>1 DEF ServerCheck, ServerAnswer, ServerRead, ServerWrite, Replaced
  <2>2. WellFormed(call) /\ call \in Call
    BY DEF TypeOK, WellFormed
  <2>3. ASSUME ServerCheck
        PROVE  /\ call.job \in {"push", "keep"} /\ call.st = "sent"
               /\ call'.job = call.job /\ call'.path = call.path
               /\ Answering' => call'.row = HostRow(call.path)
    BY <2>2, <2>3 DEF ServerCheck, Answering, Call
  <2>4. ASSUME ServerAnswer
        PROVE  /\ call.job \in {"push", "keep"} /\ call.st = "written"
               /\ call'.job = call.job /\ call'.path = call.path
               /\ Answering /\ call'.row = call.row
    BY <2>2, <2>4 DEF ServerAnswer, Answering, Call
  <2>5. ASSUME ServerRead
        PROVE  /\ call.job \in {"fetch", "take"} /\ call.st = "sent"
               /\ call'.job = call.job /\ call'.path = call.path
               /\ call'.row = HostRow(call.path)
    BY <2>2, <2>5 DEF ServerRead, Call
  <2>6. ASSUME ServerWrite, ~Replaces(call)
        PROVE  /\ call.job \in {"push", "keep"} /\ call.st = "checked"
               /\ call'.job = call.job /\ call'.path = call.path
               /\ call'.row = HostRow(call.path)
    BY <1>1, <2>1, <2>2, <2>6 DEF ServerWrite, Call, HostRow
  <2>7. /\ call.job \in {"push", "keep", "take", "fetch"} /\ call.st # "answered"
        /\ call'.job = call.job /\ call'.path = call.path
        /\ Answering' => (Answering /\ call'.row = call.row) \/ call'.row = HostRow(call.path)
    BY <1>1, <2>3, <2>4, <2>5, <2>6
  <2> QED BY <2>1, <2>7, AnswerTracked
<1>2. ASSUME NEW p \in Paths, call.path = p, ServerWrite, Replaces(call) PROVE Tracked'
  <2>1. /\ UNCHANGED <<link, wire, pulls, primed, synced, nextId, manifestId, sent, entries, seen,
                       stale, held, aside, todo, queue, local, saving, unannounced>>
        /\ HostTakes(p, call.content)
        /\ call.job \in {"push", "keep"} /\ call.st = "checked"
    BY <1>2 DEF ServerWrite, Replaced
  <2>2. call.content \in Hash /\ call \in Call
    BY DEF TypeOK, WellFormed, Call
  <2>3. /\ call'.job = call.job /\ call'.path = p
        /\ call'.row = [hash |-> host'[p], ver |-> hostVer'[p]]
    BY <1>2, <2>2 DEF ServerWrite, Call
  <2> QED BY <1>2, <2>1, <2>2, <2>3, HostTakesTracked
<1>3. ASSUME NEW r \in late, LateCheck(r) \/ (LateWrite(r) /\ ~Replaces(r)) PROVE Tracked'
  <2>1. UNCHANGED <<link, wire, pulls, primed, synced, nextId, manifestId, host, hostVer, touched,
                    sent, entries, seen, stale, held, aside, todo, queue, local, saving,
                    unannounced, call>>
    BY <1>3 DEF LateCheck, LateWrite, Replaced
  <2> QED BY <2>1, AnswerTracked
<1>4. ASSUME NEW r \in late, LateWrite(r), Replaces(r) PROVE Tracked'
  <2>1. r.path \in Paths /\ r.content \in Hash
    BY <1>4 DEF TypeOK, Write
  <2>2. /\ UNCHANGED <<link, wire, pulls, primed, synced, nextId, manifestId, sent, entries, seen,
                       stale, held, aside, todo, queue, local, saving, unannounced, call>>
        /\ HostTakes(r.path, r.content)
    BY <1>4 DEF LateWrite, Replaced
  <2> QED BY <2>1, <2>2, HostTakesTracked
<1>5. ServerCheck \/ ServerAnswer \/ ServerRead \/ ServerWrite => call.path \in Paths
  BY DEF ServerCheck, ServerAnswer, ServerRead, ServerWrite, TypeOK, WellFormed
<1> QED BY <1>1, <1>2, <1>3, <1>4, <1>5, ServerPullTracked, ServerPulledTracked,
           ServerManifestTracked, PublishTracked DEF Server, TreeQueue, IoQueue

(* A step that leaves the mirror without a manifest it can rely on owes only  *)
(* what holds between connections too.                                       *)
LEMMA Unsubscribed ==
  ASSUME ~Subscribed', Versions', Marks', Lines'
  PROVE  Tracked'
<1>1. ~Connected'
  BY DEF Subscribed, Connected
<1> QED BY <1>1 DEF Tracked, Rising, Converging

(* A call that is given up, or answered with an error, changes the list of    *)
(* unacknowledged bytes of the record at most.                               *)
LEMMA GivenUp ==
  ASSUME TypeOK, TypeOK', Tracked, call' = NoCall,
         UNCHANGED <<host, hostVer, seen, aside, todo, queue>>,
         \A p \in Paths : sent'[p] = sent[p] \/ sent'[p] = NoRow,
         GiveUp \/ (\E p \in Paths : entries[p].known /\ entries' = [entries EXCEPT ![p].unack = <<>>])
           \/ entries' = entries,
         ToSet(wire') \subseteq ToSet(wire), ToSet(pulls') \subseteq ToSet(pulls)
  PROVE  Versions' /\ Marks'
<1>1. entries \in [Paths -> Entry] /\ entries' \in [Paths -> Entry]
  BY DEF TypeOK
<1>2. ASSUME NEW p \in Paths
      PROVE  /\ entries'[p].remote = entries[p].remote /\ entries'[p].hasRemote = entries[p].hasRemote
             /\ entries'[p].known \/ entries'[p] = entries[p]
  <2>1. CASE entries' = entries
    BY <2>1
  <2>2. ASSUME NEW q \in Paths, NEW u, entries[q].known, entries' = [entries EXCEPT ![q].unack = u]
        PROVE  /\ entries'[p].remote = entries[p].remote
               /\ entries'[p].hasRemote = entries[p].hasRemote
               /\ entries'[p].known \/ entries'[p] = entries[p]
    BY <1>1, <2>2 DEF Entry
  <2>3. CASE GiveUp
    <3>1. call.job = "push" => call.path \in Paths
      BY DEF TypeOK, WellFormed
    <3> QED BY <2>1, <2>2, <2>3, <3>1 DEF GiveUp
  <2> QED BY <2>1, <2>2, <2>3
<1>3. call'.job = "none" /\ ~Answering' /\ ~Awaited'
  BY DEF NoCall, Answering, Awaited
<1>4. Versions'
  <2>1. Versions /\ Aged
    BY SameAged DEF Tracked
  <2>2. \A p \in Paths : sent'[p] = sent[p] \/ sent'[p].ver <= hostVer'[p]
    BY DEF NoRow, TypeOK
  <2>3. \A x \in ToSet(queue') \cup ToSet(wire') \cup todo'.fills :
            x \in Transit \/ FrameDated(x, host', hostVer')
    BY DEF Transit
  <2>4. \A k \in ToSet(pulls') : \A x \in ToSet(k.read) :
            x \in Transit \/ FrameDated(x, host', hostVer')
    BY DEF Transit
  <2> QED BY <1>2, <1>3, <2>1, <2>2, <2>3, <2>4, VersionsStep
<1>5. Marks'
  BY <1>2, <1>3, MarksStep DEF Tracked
<1> QED BY <1>4, <1>5

(* The link dies: nothing is owed until the next manifest. *)
LEMMA DropLinkTracked ==
  ASSUME TypeOK, TypeOK', Tracked, DropLink
  PROVE  Tracked'
<1>1. /\ UNCHANGED <<host, hostVer, seen, aside, todo, queue>>
      /\ link' = "down" /\ ~primed' /\ pulls' = <<>> /\ wire' = <<>>
      /\ sent' = [p \in Paths |-> NoRow]
      /\ (GiveUp /\ call' = NoCall) \/ (call.st = "answered" /\ UNCHANGED <<entries, call>>)
  BY DEF DropLink, hostVars, GiveUp
<1>2. ToSet(wire') = {} /\ ToSet(pulls') = {} /\ \A x, y : ~Ahead(wire', x, y)
  BY <1>1, EmptyMembers
<1>3. Versions' /\ Marks'
  <2>1. CASE call' = NoCall
    BY <1>1, <1>2, <2>1, GivenUp
  <2>2. CASE call' = call /\ entries' = entries
    <3>1. Versions /\ Aged
      BY <1>1, SameAged DEF Tracked
    <3>2. \A p \in Paths : sent'[p] = sent[p] \/ sent'[p].ver <= hostVer'[p]
      BY <1>1 DEF NoRow, TypeOK
    <3>3. (Answering' <=> Answering) /\ (Awaited' <=> Awaited)
      BY <2>2 DEF Answering, Awaited
    <3>4. \A x \in ToSet(queue') \cup ToSet(wire') \cup todo'.fills :
              x \in Transit \/ FrameDated(x, host', hostVer')
      BY <1>1, <1>2 DEF Transit
    <3>5. Versions'
      BY <1>1, <1>2, <2>2, <3>1, <3>2, <3>3, <3>4, VersionsStep
    <3>6. Marks'
      BY <1>1, <2>2, MarksStep DEF Tracked
    <3> QED BY <3>5, <3>6
  <2> QED BY <1>1, <2>1, <2>2
<1>4. Lines'
  <2>1. call'.job = "none" \/ call'.st = "answered"
    BY <1>1 DEF NoCall
  <2>2. \A x, y : Ahead(queue', x, y) /\ x.kind = "sync" => y.kind \notin {"sync", "delta"}
    BY <1>1 DEF Tracked, Lines
  <2>3. Awaited' => call'.manifest > 0
    <3>1. Awaited => call.manifest > 0
      BY DEF Tracked, Lines
    <3>2. Awaited' => Awaited /\ call' = call
      BY <1>1 DEF Awaited, NoCall
    <3> QED BY <3>1, <3>2
  <2> QED BY <1>1, <1>2, <2>1, <2>2, <2>3 DEF Lines
<1> QED BY <1>1, <1>3, <1>4, Unsubscribed DEF Subscribed

(* A call times out: a manifest that is given up ends the subscription. *)
LEMMA TimeOutTracked ==
  ASSUME TypeOK, TypeOK', Tracked, TimeOut \/ ErrorAnswer
  PROVE  Tracked'
<1>1. /\ UNCHANGED <<host, hostVer, seen, aside, todo, queue, link, pulls, primed, sent>>
      /\ call' = NoCall /\ ~synced'
      /\ call.job # "none"
  BY DEF TimeOut, ErrorAnswer, hostVars, serverVars, GiveUp
<1>2. wire \in Seq(Object \cup WatchDelta \cup Manifest)
  BY DEF TypeOK
<1>3. /\ ToSet(wire') \subseteq ToSet(wire)
      /\ \A x \in ToSet(wire') : x.kind # "manifest"
      /\ \A x, y : Ahead(wire', x, y) => Ahead(wire, x, y)
      /\ wire = <<>> => wire' = <<>>
  <2>1. \A x, y : Ahead(wire, x, y) => x.kind # "manifest" \/ y.kind # "manifest"
    BY DEF Tracked, Lines
  <2>2. CASE TimeOut
    <3>1. wire' = Without(wire, "manifest")
      BY <2>2 DEF TimeOut
    <3>2. wire = <<>> => wire' = <<>>
      BY <3>1 DEF Without
    <3> QED BY <1>2, <2>1, <3>1, <3>2, WithoutMembers
  <2>3. CASE ErrorAnswer
    <3>1. wire' = wire /\ call.st = "sent"
      BY <2>3 DEF ErrorAnswer
    <3>2. \A x \in ToSet(wire) : x.kind # "manifest"
      BY <3>1 DEF Tracked, Lines
    <3> QED BY <3>1, <3>2
  <2> QED BY <2>2, <2>3
<1>4. GiveUp \/ (\E p \in Paths : entries[p].known /\ entries' = [entries EXCEPT ![p].unack = <<>>])
        \/ entries' = entries
  BY DEF TimeOut, ErrorAnswer, TypeOK, WellFormed
<1>5. Versions' /\ Marks'
  BY <1>1, <1>3, <1>4, GivenUp
<1>6. Lines'
  <2>1. call'.job = "none" /\ ~Awaited'
    BY <1>1 DEF NoCall, Awaited
  <2>2. \A x, y : Ahead(queue', x, y) /\ x.kind = "sync" => y.kind \notin {"sync", "delta"}
    BY <1>1 DEF Tracked, Lines
  <2>3. SyncQueued' => ~primed' /\ \A x \in ToSet(wire') : x.kind # "delta"
    BY <1>1, <1>3 DEF Tracked, Lines, SyncQueued
  <2>4. link' = "down" => wire' = <<>> /\ pulls' = <<>> /\ ~primed'
    BY <1>1, <1>3 DEF Tracked, Lines
  <2>5. \A x, y : Ahead(wire', x, y) => x.kind # "manifest" \/ y.kind # "manifest"
    BY <1>3 DEF Tracked, Lines
  <2> QED BY <1>3, <2>1, <2>2, <2>3, <2>4, <2>5 DEF Lines
<1>7. ~Subscribed'
  BY <1>1 DEF Subscribed, Awaited, NoCall
<1> QED BY <1>5, <1>6, <1>7, Unsubscribed

(* The session is back, and asks for a manifest first of all. *)
LEMMA ReconnectTracked ==
  ASSUME TypeOK, TypeOK', Tracked, NEW fresh \in BOOLEAN, Reconnect(fresh)
  PROVE  Tracked'
<1> DEFINE z == [kind |-> "sync"]
           w == Without(queue, "sync")
<1>1. /\ UNCHANGED <<host, hostVer, seen, aside, todo, pulls, primed, sent, wire, entries, call>>
      /\ link = "down" /\ link' = "up" /\ queue' = Append(w, z)
  BY DEF Reconnect, hostVars
<1>2. z \in Job /\ z.kind = "sync"
  BY DEF Job, Sync
<1> HIDE DEF z
<1>3. queue \in Seq(Job) /\ w \in Seq(Job)
  BY WithoutType DEF TypeOK
<1>4. Lines
  BY DEF Tracked
<1>5. /\ \A x : x \in ToSet(w) => x \in ToSet(queue)
      /\ \A x, y : Ahead(w, x, y) => Ahead(queue, x, y)
      /\ \A x \in ToSet(w) : x.kind # "sync"
  <2>1. \A x, y : Ahead(queue, x, y) => x.kind # "sync" \/ y.kind # "sync"
    BY <1>4 DEF Lines
  <2> QED BY <1>3, <2>1, WithoutMembers
<1> HIDE DEF w
<1>6. /\ ToSet(queue') = ToSet(w) \cup {z}
      /\ \A x, y : Ahead(queue', x, y) <=> (Ahead(w, x, y) \/ (x \in ToSet(w) /\ y = z))
      /\ \A x, y : Ahead(w, x, y) => x \in ToSet(w)
  BY <1>1, <1>2, <1>3, AppendMembers, SeqMembers
<1>7. SyncQueued'
  BY <1>2, <1>6 DEF SyncQueued
<1>8. Versions'
  <2>1. Versions /\ Aged
    BY <1>1, SameAged DEF Tracked
  <2>2. (Answering' <=> Answering) /\ (Awaited' <=> Awaited)
    BY <1>1 DEF Answering, Awaited
  <2>3. \A x \in ToSet(queue') \cup ToSet(wire') \cup todo'.fills :
            x \in Transit \/ FrameDated(x, host', hostVer')
    BY <1>1, <1>2, <1>5, <1>6 DEF Transit, FrameDated
  <2>4. \A k \in ToSet(pulls') : \A x \in ToSet(k.read) :
            x \in Transit \/ FrameDated(x, host', hostVer')
    BY <1>1 DEF Transit
  <2> QED BY <1>1, <2>1, <2>2, <2>3, <2>4, VersionsStep
<1>9. Marks'
  BY <1>1, MarksStep DEF Tracked
<1>10. Lines'
  <2>1. wire' = <<>> /\ ~primed' /\ (call'.job = "none" \/ call'.st = "answered")
    BY <1>1, <1>4 DEF Lines
  <2>2. ToSet(wire') = {} /\ \A x, y : ~Ahead(wire', x, y)
    BY <2>1, EmptyMembers
  <2>3. \A x, y : Ahead(queue', x, y) /\ x.kind = "sync" => y.kind \notin {"sync", "delta"}
    BY <1>5, <1>6
  <2>4. Awaited' => call'.manifest > 0
    BY <1>1, <1>4 DEF Lines, Awaited
  <2> QED BY <1>1, <2>1, <2>2, <2>3, <2>4 DEF Lines
<1> QED BY <1>7, <1>8, <1>9, <1>10, Unsubscribed DEF Subscribed

(* A step that gives paths up: what was on its way to them may go. *)
LEMMA LetGoTracked ==
  ASSUME TypeOK, TypeOK', Tracked,
         UNCHANGED <<link, wire, primed, synced, nextId, manifestId, host, hostVer, sent, entries,
                     seen, held, aside, queue, local, saving, unannounced, call>>,
         stale \subseteq stale', todo'.restores = todo.restores, todo'.fills \subseteq todo.fills,
         pulls' = pulls \/ link = "up",
         \A n \in ToSet(pulls') : \A x \in ToSet(n.read) : x \in Transit,
         \A p \in Paths : \/ p \in stale'
                          \/ /\ p \in todo'.deletes <=> p \in todo.deletes
                             /\ News(p) => News(p)'
                             /\ Coming(p) => Coming(p)'
  PROVE  Tracked'
<1>2. /\ (Subscribed' <=> Subscribed) /\ (Connected' <=> Connected) /\ (SyncQueued' <=> SyncQueued)
      /\ (Awaited' <=> Awaited) /\ (Answering' <=> Answering) /\ Line' = Line /\ Pipe' = Pipe
  BY DEF Subscribed, Connected, SyncQueued, Awaited, Answering, Line, Pipe
<1>3. Lines' /\ Rising'
  <2>1. Slims(queue, queue', {}) /\ Lines /\ Rising /\ \A x \in {} : x.kind # "sync"
    BY DEF Slims, Tracked
  <2> QED BY <2>1, LinesStep
<1>4. Versions'
  <2>1. Versions /\ Aged
    BY SameAged DEF Tracked
  <2>2. \A x \in ToSet(queue') \cup ToSet(wire') \cup todo'.fills :
            x \in Transit \/ FrameDated(x, host', hostVer')
    BY DEF Transit
  <2> QED BY <1>2, <2>1, <2>2, VersionsStep
<1>5. Marks'
  BY MarksStep DEF Tracked
<1>6. ASSUME NEW p \in Paths
      PROVE  /\ Heard(p) => Heard(p)'
             /\ Followed(p) => Followed(p)'
             /\ Word(p) => Word(p)'
  <2>1. (Listed(p)' => Listed(p)) /\ (PushComing(p) => PushComing(p)') /\ (Excused(p) => Excused(p)')
    BY <1>2 DEF Listed, PushComing, Excused, Noted
  <2>2. CASE p \in stale'
    BY <2>1, <2>2 DEF Heard, Followed, Settled, Word
  <2>3. CASE p \notin stale'
    <3>1. News(p) => Word(p)'
      BY <2>3 DEF Word
    <3> QED BY <2>1, <2>3, <3>1, PathKept
  <2> QED BY <2>2, <2>3
<1>7. Converging'
  <2>1. Subscribed' => \A p \in Paths : Heard(p)'
    BY <1>2, <1>6 DEF Tracked, Converging
  <2>2. Subscribed' /\ Awaited' =>
          \A p \in Paths : Shows(call'.rows[p], host'[p], hostVer'[p]) \/ Word(p)'
    BY <1>2, <1>6 DEF Tracked, Converging
  <2>3. Connected' => \A p \in Paths : Followed(p)'
    BY <1>2, <1>6 DEF Tracked, Converging
  <2>4. ASSUME NEW p \in Paths, Connected', Answering', call'.path = p
        PROVE  Shows(call'.row, host'[p], hostVer'[p]) \/ Word(p)'
    BY <1>2, <1>6, <2>4 DEF Tracked, Converging
  <2>5. Answering' => call'.path \in Paths
    BY DEF Answering, TypeOK, WellFormed
  <2>6. Connected' /\ Answering' =>
          Shows(call'.row, host'[call'.path], hostVer'[call'.path]) \/ Word(call.path)'
    BY <2>4, <2>5
  <2> QED BY <2>1, <2>2, <2>3, <2>6 DEF Converging
<1> QED BY <1>3, <1>4, <1>5, <1>7 DEF Tracked

(* A batch of the watch, a pull, a delete or a write fails. *)
LEMMA FailureTracked ==
  ASSUME TypeOK, TypeOK', Tracked, Failure
  PROVE  Tracked'
<1> USE DEF hostVars, serverVars
<1>1. CASE DropLink \/ TimeOut \/ ErrorAnswer
  BY <1>1, DropLinkTracked, TimeOutTracked
<1>2. CASE WatchBatchFails
  <2>1. /\ UNCHANGED <<link, wire, pulls, primed, synced, nextId, manifestId, host, hostVer,
                       sent, entries, seen, held, aside, todo, queue, local, saving,
                       unannounced, call>>
        /\ stale' = stale \cup touched
    BY <1>2 DEF WatchBatchFails
  <2>2. \A p \in Paths : \/ p \in stale'
                         \/ (News(p) => News(p)') /\ (Coming(p) => Coming(p)')
    BY <2>1 DEF News, Pipe, Coming, Transit
  <2>3. \A n \in ToSet(pulls') : \A x \in ToSet(n.read) : x \in Transit
    BY <2>1 DEF Transit
  <2> QED BY <2>1, <2>2, <2>3, LetGoTracked
<1>3. ASSUME NEW n, n = Head(pulls), BatchFails \/ \E p \in Paths : ObjectFails(p)
      PROVE  Tracked'
  <2>1. /\ UNCHANGED <<link, wire, primed, synced, nextId, manifestId, host, hostVer, touched,
                       sent, entries, seen, held, aside, todo, queue, local, saving,
                       unannounced, call>>
        /\ pulls # <<>>
    BY <1>3 DEF BatchFails, ObjectFails
  <2>2. link = "up" /\ pulls \in Seq(Pull) /\ n \in Pull /\ Tail(pulls) \in Seq(Pull)
    BY <1>3, <2>1, HeadType DEF TypeOK, Tracked, Lines
  <2>3. ToSet(pulls) = {n} \cup ToSet(Tail(pulls)) /\ n.read \in Seq(Object)
    BY <1>3, <2>1, <2>2, TailMembers DEF Pull
  <2>4. \A p \in Paths : News(p) => News(p)'
    BY <2>1 DEF News, Pipe
  <2>5. CASE BatchFails
    <3>1. /\ pulls' = Tail(pulls)
          /\ stale' = stale \cup n.paths \cup {n.read[i].path : i \in 1..Len(n.read)}
      BY <1>3, <2>5 DEF BatchFails
    <3>2. \A k \in ToSet(pulls') : \A x \in ToSet(k.read) : x \in Transit
      BY <2>3, <3>1 DEF Transit
    <3>3. ASSUME NEW p \in Paths, p \notin stale', Coming(p) PROVE Coming(p)'
      <4>1. CASE \E k \in ToSet(pulls) : p \in k.paths
        BY <2>3, <3>1, <3>3, <4>1 DEF Coming
      <4>2. ASSUME NEW x \in Transit, x.kind = "object", x.path = p, Shows(x.row, host[p], hostVer[p])
            PROVE  Coming(p)'
        <5>1. x \notin ToSet(n.read)
          BY <2>3, <3>1, <3>3, <4>2 DEF ToSet
        <5>2. x \in Transit'
          BY <2>1, <2>3, <3>1, <4>2, <5>1 DEF Transit
        <5> QED BY <2>1, <4>2, <5>2 DEF Coming
      <4> QED BY <3>3, <4>1, <4>2 DEF Coming
    <3> QED BY <2>1, <2>2, <2>4, <3>1, <3>2, <3>3, LetGoTracked
  <2>6. ASSUME NEW q \in Paths, ObjectFails(q) PROVE Tracked'
    <3> DEFINE m == [n EXCEPT !.paths = @ \ {q}]
    <3>1. pulls' = <<m>> \o Tail(pulls) /\ stale' = stale \cup {q}
      BY <1>3, <2>6 DEF ObjectFails
    <3>2. m \in Pull /\ m.paths = n.paths \ {q} /\ m.read = n.read
      BY <2>2 DEF Pull
    <3> HIDE DEF m
    <3>3. ToSet(pulls') = {m} \cup ToSet(Tail(pulls))
      <4>1. <<m>> \in Seq(Pull) /\ ToSet(<<m>>) = {m}
        BY <3>2, OneMember
      <4> QED BY <2>2, <3>1, <4>1, JoinedMembers
    <3>4. Transit' = Transit
      BY <2>1, <2>3, <3>2, <3>3 DEF Transit
    <3>5. \A k \in ToSet(pulls') : \A x \in ToSet(k.read) : x \in Transit
      BY <3>4 DEF Transit
    <3>6. ASSUME NEW p \in Paths, p # q, Coming(p) PROVE Coming(p)'
      BY <2>1, <2>3, <3>2, <3>3, <3>4, <3>6 DEF Coming
    <3> QED BY <2>1, <2>2, <2>4, <3>1, <3>5, <3>6, LetGoTracked
  <2> QED BY <1>3, <2>5, <2>6
<1>4. ASSUME NEW k \in todo.checked, DeleteFails(k) \/ \E o \in todo.fills : WriteFails(k, o)
      PROVE  Tracked'
  <2>1. /\ UNCHANGED <<link, wire, pulls, primed, synced, nextId, manifestId, host, hostVer, touched,
                       sent, entries, seen, held, aside, queue, local, saving, unannounced, call>>
        /\ stale' = stale \cup {k.path}
    BY <1>4 DEF DeleteFails, WriteFails
  <2>2. todo \in Todo
    BY DEF TypeOK
  <2>3. /\ todo'.restores = todo.restores /\ todo'.fills \subseteq todo.fills
        /\ \A p \in Paths : p # k.path => (p \in todo'.deletes <=> p \in todo.deletes)
        /\ \A x \in todo.fills : x \in todo'.fills \/ x.path = k.path
    <3>1. CASE DeleteFails(k)
      BY <2>2, <3>1 DEF DeleteFails, AfterDelete, Todo
    <3>2. ASSUME NEW o \in todo.fills, WriteFails(k, o)
          PROVE  /\ todo'.restores = todo.restores /\ todo'.fills = todo.fills \ {o}
                 /\ todo'.deletes = todo.deletes /\ o.path = k.path
      BY <2>2, <3>2 DEF WriteFails, Todo
    <3> QED BY <1>4, <3>1, <3>2
  <2>4. \A n \in ToSet(pulls') : \A x \in ToSet(n.read) : x \in Transit
    BY <2>1 DEF Transit
  <2>5. \A p \in Paths : News(p) => News(p)'
    BY <2>1 DEF News, Pipe
  <2>6. ASSUME NEW p \in Paths, p # k.path PROVE Coming(p) => Coming(p)'
    BY <2>1, <2>3, <2>6 DEF Coming, Transit
  <2> QED BY <2>1, <2>3, <2>4, <2>5, <2>6, LetGoTracked
<1> QED BY <1>1, <1>2, <1>3, <1>4 DEF Failure

(* A frame comes in: it moves from the wire to the queue, or is the manifest  *)
(* the worker waits for.                                                     *)
LEMMA DeliverTracked ==
  ASSUME TypeOK, TypeOK', Tracked, Deliver
  PROVE  Tracked'
<1> DEFINE x == Head(wire)
           t == Tail(wire)
<1>1. /\ UNCHANGED <<link, pulls, primed, synced, nextId, manifestId, host, hostVer, touched,
                     sent, entries, seen, stale, held, aside, todo, local, saving, unannounced>>
      /\ wire # <<>> /\ wire' = t
      /\ x.kind = "manifest" => call' = [call EXCEPT !.st = "answered"] /\ queue' = queue
      /\ x.kind # "manifest" => call' = call /\ queue' = Append(queue, x)
  BY DEF Deliver, hostVars, serverVars
<1>2. wire \in Seq(Object \cup WatchDelta \cup Manifest) /\ queue \in Seq(Job) /\ queue' \in Seq(Job)
      /\ wire' \in Seq(Object \cup WatchDelta \cup Manifest)
  BY DEF TypeOK
<1>3. x \in Object \cup WatchDelta \cup Manifest
  BY <1>1, <1>2, HeadType
<1>4. /\ ToSet(wire) = {x} \cup ToSet(wire')
      /\ \A a, b : Ahead(wire, a, b) <=> (Ahead(wire', a, b) \/ (a = x /\ b \in ToSet(wire')))
      /\ \A a, b : Ahead(wire', a, b) => a \in ToSet(wire') /\ b \in ToSet(wire')
  <2> DEFINE S == Object \cup WatchDelta \cup Manifest
  <2>1. wire \in Seq(S) /\ wire' \in Seq(S)
    BY <1>2
  <2> HIDE DEF S
  <2>2. /\ ToSet(wire) = {x} \cup ToSet(wire')
        /\ \A a, b : Ahead(wire, a, b) <=> (Ahead(wire', a, b) \/ (a = x /\ b \in ToSet(wire')))
    BY <1>1, <2>1, TailMembers
  <2>3. \A a, b : Ahead(wire', a, b) => a \in ToSet(wire') /\ b \in ToSet(wire')
    BY <2>1, SeqMembers
  <2> QED BY <2>2, <2>3
<1> HIDE DEF x, t
<1>5. x.kind # "manifest" => x \in Job /\ x.kind \in {"object", "delta"}
  BY <1>3 DEF Job, Object, WatchDelta, Manifest
<1>6. ASSUME x.kind # "manifest"
      PROVE  /\ ToSet(queue') = ToSet(queue) \cup {x}
             /\ \A a, b : Ahead(queue', a, b) <=> (Ahead(queue, a, b) \/ (a \in ToSet(queue) /\ b = x))
  <2>1. x \in Job /\ queue' = Append(queue, x) /\ queue \in Seq(Job)
    BY <1>1, <1>2, <1>5, <1>6
  <2> QED BY <2>1, AppendMembers
<1>7. \A a, b : Ahead(queue, a, b) => a \in ToSet(queue)
  BY <1>2, SeqMembers
<1>8. link = "up" /\ Lines /\ Rising
  BY <1>1 DEF TypeOK, Tracked, Lines
<1>9. x.kind = "manifest" => /\ call.job = "sync" /\ call.st = "written"
                             /\ call'.job = "sync" /\ call'.st = "answered"
                             /\ call'.rows = call.rows /\ call'.manifest = call.manifest
  <2>1. x.kind = "manifest" => call.job = "sync" /\ call.st = "written"
    BY <1>4, <1>8 DEF Lines
  <2>2. call \in Call
    BY DEF TypeOK, WellFormed
  <2> QED BY <1>1, <2>1, <2>2 DEF Call
<1>10. /\ (Awaited' <=> Awaited) /\ (Awaited => call'.rows = call.rows)
       /\ (Answering' => Answering /\ call' = call)
       /\ Line' = Line /\ (call'.job = "sync" <=> call.job = "sync")
       /\ (call'.job = "sync" => call'.manifest = call.manifest)
  BY <1>1, <1>9 DEF Awaited, Answering, Line
<1>11. SyncQueued' <=> SyncQueued
  BY <1>1, <1>5, <1>6 DEF SyncQueued
<1>12. (Subscribed' <=> Subscribed) /\ (Connected' <=> Connected)
  BY <1>1, <1>10, <1>11 DEF Subscribed, Connected
<1>13. Pipe' = Pipe
  BY <1>1, <1>4, <1>6 DEF Pipe
<1>14. /\ \A y \in Transit : y \in Transit' \/ y.kind = "manifest"
       /\ Transit' \subseteq Transit
  BY <1>1, <1>4, <1>6 DEF Transit
<1>15. Lines'
  <2>1. \A a, b : Ahead(queue', a, b) /\ a.kind = "sync" => b.kind \notin {"sync", "delta"}
    <3>1. \A a, b : Ahead(queue, a, b) /\ a.kind = "sync" => b.kind \notin {"sync", "delta"}
      BY <1>8 DEF Lines
    <3>2. ASSUME NEW a \in ToSet(queue), a.kind = "sync" PROVE x.kind # "delta"
      BY <1>4, <1>8, <3>2 DEF Lines, SyncQueued
    <3> QED BY <1>1, <1>5, <1>6, <3>1, <3>2
  <2>2. \A a, b : Ahead(wire', a, b) => a.kind # "manifest" \/ b.kind # "manifest"
    BY <1>4, <1>8 DEF Lines
  <2>3. \A y \in ToSet(wire') : y.kind = "manifest" => call'.job = "sync" /\ call'.st = "written"
    <3>1. CASE x.kind = "manifest"
      BY <1>4, <1>8, <3>1 DEF Lines
    <3>2. CASE x.kind # "manifest"
      BY <1>1, <1>4, <1>8, <3>2 DEF Lines
    <3> QED BY <3>1, <3>2
  <2>4. SyncQueued' \/ (call'.job = "sync" /\ call'.st = "sent") =>
          ~primed' /\ \A y \in ToSet(wire') : y.kind # "delta"
    BY <1>1, <1>4, <1>8, <1>9, <1>11 DEF Lines
  <2>5. SyncQueued' /\ call'.job = "sync" => call'.st = "answered"
    BY <1>1, <1>8, <1>9, <1>11 DEF Lines
  <2>6. call'.job = "sync" /\ call'.st = "sent" => \A y \in ToSet(queue') : y.kind # "delta"
    <3>1. CASE x.kind = "manifest"
      BY <1>9, <3>1
    <3>2. CASE x.kind # "manifest"
      BY <1>1, <1>4, <1>6, <1>8, <3>2 DEF Lines
    <3> QED BY <3>1, <3>2
  <2>7. Awaited' => call'.manifest > 0
    BY <1>8, <1>10 DEF Lines, Awaited
  <2> QED BY <1>1, <1>8, <2>1, <2>2, <2>3, <2>4, <2>5, <2>6, <2>7 DEF Lines
<1>16. Rising'
  <2> SUFFICES ASSUME Subscribed' PROVE Rising'
    BY DEF Rising
  <2>1. /\ primed /\ Line < nextId
        /\ \A d \in Pipe : Line < d.id /\ d.id < nextId
        /\ \A d, f : Precedes(d, f) /\ d.kind = "delta" /\ f.kind = "delta" => Older(d, f)
        /\ Awaited => \A d \in Pipe : \A p \in d.changed : call.rows[p].ver <= d.rows[p].ver
    BY <1>8, <1>12 DEF Rising
  <2>2. ASSUME NEW d, NEW f, Precedes(d, f)', d.kind = "delta", f.kind = "delta" PROVE Older(d, f)
    <3>1. Precedes(d, f)
      <4>1. CASE x.kind = "manifest"
        BY <1>1, <1>4, <2>2, <4>1 DEF Precedes
      <4>2. CASE x.kind # "manifest"
        BY <1>4, <1>6, <2>2, <4>2 DEF Precedes
      <4> QED BY <4>1, <4>2
    <3> QED BY <2>1, <2>2, <3>1
  <2> QED BY <1>1, <1>10, <1>13, <2>1, <2>2 DEF Rising
<1>17. Versions'
  <2>1. Versions /\ Aged
    BY <1>1, SameAged DEF Tracked
  <2>2. \A y \in ToSet(queue') \cup ToSet(wire') \cup todo'.fills :
            y \in Transit \/ FrameDated(y, host', hostVer')
    BY <1>14 DEF Transit
  <2>3. \A k \in ToSet(pulls') : \A y \in ToSet(k.read) :
            y \in Transit \/ FrameDated(y, host', hostVer')
    BY <1>1 DEF Transit
  <2> QED BY <1>1, <1>10, <2>1, <2>2, <2>3, VersionsStep
<1>18. Marks'
  <2>1. call' = call \/ call'.job = "sync"
    BY <1>1, <1>9
  <2> QED BY <1>1, <2>1, MarksStep DEF Tracked
<1>19. ASSUME NEW p \in Paths
      PROVE  /\ Heard(p) => Heard(p)'
             /\ Followed(p) => Followed(p)'
             /\ Word(p) => Word(p)'
  <2>1. Coming(p) => Coming(p)'
    BY <1>1, <1>14 DEF Coming
  <2>2. News(p) => Word(p)'
    BY <1>1, <1>13 DEF Word, News
  <2>3. PushComing(p) => PushComing(p)'
    BY <1>1, <1>6, <1>9 DEF PushComing
  <2>4. Listed(p)' => Listed(p)
    BY <1>13 DEF Listed
  <2>5. Excused(p) => Excused(p)'
    <3>1. OnQueue(queue, p) => OnQueue(queue', p)
      <4>1. CASE x.kind = "manifest"
        BY <1>1, <4>1
      <4>2. CASE x.kind # "manifest"
        BY <1>1, <1>2, <1>5, <4>2, NoteStays
      <4> QED BY <4>1, <4>2
    <3> QED BY <1>1, <3>1, ExcuseStays
  <2> QED BY <1>1, <2>1, <2>2, <2>3, <2>4, <2>5, PathKept
<1>20. Converging'
  <2>1. Subscribed' => \A p \in Paths : Heard(p)'
    BY <1>12, <1>19 DEF Tracked, Converging
  <2>2. Subscribed' /\ Awaited' =>
          \A p \in Paths : Shows(call'.rows[p], host'[p], hostVer'[p]) \/ Word(p)'
    BY <1>1, <1>10, <1>12, <1>19 DEF Tracked, Converging
  <2>3. Connected' => \A p \in Paths : Followed(p)'
    BY <1>12, <1>19 DEF Tracked, Converging
  <2>4. ASSUME NEW p \in Paths, Connected', Answering', call'.path = p
        PROVE  Shows(call'.row, host'[p], hostVer'[p]) \/ Word(p)'
    BY <1>1, <1>10, <1>12, <1>19, <2>4 DEF Tracked, Converging
  <2>5. Answering' => call'.path \in Paths
    BY DEF Answering, TypeOK, WellFormed
  <2>6. Connected' /\ Answering' =>
          Shows(call'.row, host'[call'.path], hostVer'[call'.path]) \/ Word(call.path)'
    BY <1>10, <2>4, <2>5
  <2> QED BY <2>1, <2>2, <2>3, <2>6 DEF Converging
<1> QED BY <1>15, <1>16, <1>17, <1>18, <1>20 DEF Tracked

(* What the link does. *)
LEMMA LinkTracked ==
  ASSUME TypeOK, TypeOK', Tracked, Link
  PROVE  Tracked'
BY DeliverTracked, FailureTracked, ReconnectTracked DEF Link

-----------------------------------------------------------------------------
(* The worker's jobs *)

(* The step is not about q. *)
Apart(q) ==
    /\ entries'[q] = entries[q] /\ local'[q] = local[q] /\ seen'[q] = seen[q]
    /\ q \in stale => q \in stale'
    /\ q \in held' \cup todo'.deletes <=> q \in held \cup todo.deletes
    /\ Excused(q) => Excused(q)'
    /\ Coming(q) => Coming(q)'
    /\ PushComing(q) => PushComing(q)'

(* A job that takes no delta and no sync off the queue hears nothing new. *)
LEMMA WorkHears ==
  ASSUME Tracked, NEW taken, Slims(queue, queue', taken),
         \A x \in taken : x.kind \notin {"sync", "delta"},
         UNCHANGED <<link, wire, pulls, primed, synced, nextId, manifestId, host, hostVer, touched,
                     sent>>,
         call.job # "sync", call'.job = "none" \/ (call'.job = "push" /\ link = "up")
  PROVE  /\ Lines' /\ Rising' /\ (Subscribed' => Connected) /\ (Connected' => Connected)
         /\ Connected => Subscribed
         /\ \A p \in Paths : (News(p)' <=> News(p)) /\ (Listed(p)' <=> Listed(p))
<1>1. Lines /\ Rising /\ \A x \in taken : x.kind # "sync"
  BY DEF Tracked
<1>2. /\ Lines' /\ Rising' /\ (Subscribed' => Subscribed) /\ (Connected' => Connected)
      /\ Pipe' \subseteq Pipe /\ \A d \in Pipe : d \in Pipe' \/ d \in taken
  BY <1>1, LinesStep
<1>3. Pipe' = Pipe
  BY <1>2 DEF Pipe
<1>4. \A p \in Paths : (News(p)' <=> News(p)) /\ (Listed(p)' <=> Listed(p))
  BY <1>3 DEF News, Listed
<1>5. (Subscribed => Connected) /\ (Connected => Subscribed)
  BY DEF Subscribed, Connected, Awaited
<1> QED BY <1>2, <1>4, <1>5

(* What such a job has to show: of the paths it is about, that their newest   *)
(* version is followed as before.                                            *)
LEMMA WorkStep ==
  ASSUME TypeOK, TypeOK', Tracked, NEW taken, Slims(queue, queue', taken),
         \A x \in taken : x.kind \notin {"sync", "delta"},
         \A x \in ToSet(queue') : x \in ToSet(queue) \/ x.kind = "push",
         UNCHANGED <<link, wire, pulls, primed, synced, nextId, manifestId, host, hostVer, touched,
                     sent>>,
         call.job # "sync",
         call'.job = "none" \/ (call'.job = "push" /\ call'.st = "sent" /\ link = "up"),
         \A x \in todo'.fills : x \in todo.fills \/ FrameDated(x, host, hostVer),
         \A s \in aside' \cup todo'.restores :
            \/ s \in aside \cup todo.restores
            \/ /\ s.path \in Paths /\ s.entry = entries[s.path]
               /\ s.entry.known /\ ~s.entry.pending /\ ~s.entry.conflict,
         \A p \in Paths :
            /\ seen'[p] = seen[p] \/ seen'[p] <= hostVer[p]
            /\ \/ RecordDated(entries'[p], host[p], hostVer[p])
               \/ entries'[p].remote = entries[p].remote /\ (entries'[p].hasRemote => entries[p].hasRemote)
            /\ entries'[p].known \/ entries'[p] = NoEntry \/ entries'[p] = entries[p],
         \A p \in Paths : Apart(p) \/ (Connected => Heard(p)' /\ Followed(p)')
  PROVE  Tracked'
<1>1. /\ Lines' /\ Rising' /\ (Subscribed' => Connected) /\ (Connected' => Connected)
      /\ Connected => Subscribed
      /\ \A p \in Paths : (News(p)' <=> News(p)) /\ (Listed(p)' <=> Listed(p))
  BY WorkHears
<1>2. ~Answering' /\ ~Awaited'
  BY DEF Answering, Awaited
<1>3. Versions'
  <2>1. Versions /\ Aged
    BY SameAged DEF Tracked
  <2>2. \A x \in ToSet(queue') \cup ToSet(wire') \cup todo'.fills :
            x \in Transit \/ FrameDated(x, host', hostVer')
    BY DEF Transit, FrameDated
  <2>3. \A k \in ToSet(pulls') : \A x \in ToSet(k.read) :
            x \in Transit \/ FrameDated(x, host', hostVer')
    BY DEF Transit
  <2>4. ASSUME NEW s \in aside' \cup todo'.restores
        PROVE  \/ s \in aside \cup todo.restores
               \/ RecordDated(s.entry, host'[s.path], hostVer'[s.path])
    BY <2>1 DEF Versions
  <2> QED BY <1>2, <2>1, <2>2, <2>3, <2>4, VersionsStep
<1>4. Marks'
  BY MarksStep DEF Tracked
<1>5. ASSUME Connected, NEW p \in Paths PROVE Heard(p)' /\ Followed(p)'
  <2>1. Heard(p) /\ Followed(p)
    BY <1>1, <1>5 DEF Tracked, Converging
  <2>2. ASSUME Apart(p) PROVE Heard(p)' /\ Followed(p)'
    <3>1. News(p) => Word(p)'
      BY <1>1 DEF Word
    <3> QED BY <1>1, <2>1, <2>2, <3>1, PathKept DEF Apart
  <2> QED BY <1>5, <2>2
<1>6. Converging'
  BY <1>1, <1>2, <1>5 DEF Converging
<1> QED BY <1>1, <1>3, <1>4, <1>6 DEF Tracked

(* PushNow takes up a journalled save. *)
LEMMA StartPushTracked ==
  ASSUME TypeOK, TypeOK', Tracked, NEW p \in Paths, NEW es \in [Paths -> Entry], StartPush(p, es),
         queue # <<>>, Idle,
         \/ /\ Head(queue).kind = "note" /\ Head(queue).path = p /\ queue' = Tail(queue)
            /\ es = [entries EXCEPT ![p].known = TRUE, ![p].pending = TRUE]
         \/ /\ Head(queue).kind = "push" /\ es = entries
            /\ queue' = IF Head(queue).paths = {p} THEN Tail(queue)
                        ELSE <<[kind |-> "push", paths |-> Head(queue).paths \ {p}]>> \o Tail(queue),
         UNCHANGED <<local, saving, manifestId, held, aside, todo, link, wire, pulls, primed, nextId,
                     sent, host, hostVer, touched, seen, synced, unannounced>>
  PROVE  Tracked'
<1> DEFINE h == Head(queue)
           t == Tail(queue)
           z == [kind |-> "push", paths |-> h.paths \ {p}]
           e == es[p]
<1>1. queue \in Seq(Job) /\ h \in Job /\ t \in Seq(Job) /\ queue' \in Seq(Job)
  BY HeadType DEF TypeOK
<1>2. /\ ToSet(queue) = {h} \cup ToSet(t)
      /\ \A x, y : Ahead(queue, x, y) <=> (Ahead(t, x, y) \/ (x = h /\ y \in ToSet(t)))
  BY <1>1, TailMembers
<1>3. entries \in [Paths -> Entry] /\ entries[p] \in Entry /\ e \in Entry
  BY DEF TypeOK
<1>4. /\ h.kind \in {"note", "push"}
      /\ h.kind = "note" => h.path = p /\ queue' = t
      /\ h.kind = "push" => (queue' = t /\ h.paths = {p}) \/ queue' = <<z>> \o t
  OBVIOUS
<1>5. h.kind = "push" => z \in Job /\ z.kind = "push" /\ z.paths = h.paths \ {p}
  BY <1>1 DEF Job, Note, Push, Approve, Sync, Object, WatchDelta
<1> HIDE DEF z
<1>6. /\ Slims(queue, queue', {h})
      /\ \A x \in ToSet(queue') : x \in ToSet(queue) \/ x.kind = "push"
      /\ \A x \in ToSet(queue) : x # h => x \in ToSet(queue')
      /\ h.kind = "push" => \A q \in h.paths : q # p => \E x \in ToSet(queue') : x.kind = "push" /\ q \in x.paths
  <2> HIDE DEF h, t
  <2>1. ASSUME queue' = t
        PROVE  /\ Slims(queue, queue', {h})
               /\ \A x \in ToSet(queue') : x \in ToSet(queue) \/ x.kind = "push"
               /\ \A x \in ToSet(queue) : x # h => x \in ToSet(queue')
    BY <1>2, <2>1 DEF Slims
  <2>2. ASSUME h.kind = "push", queue' = <<z>> \o t
        PROVE  /\ Slims(queue, queue', {h})
               /\ \A x \in ToSet(queue') : x \in ToSet(queue) \/ x.kind = "push"
               /\ \A x \in ToSet(queue) : x # h => x \in ToSet(queue')
               /\ z \in ToSet(queue')
    <3>1. z \in Job /\ z.kind = "push" /\ z.kind \in Unordered
      BY <1>5, <2>2 DEF Unordered
    <3>2. <<z>> \in Seq(Job) /\ ToSet(<<z>>) = {z} /\ \A x, y : ~Ahead(<<z>>, x, y)
      BY <3>1, OneMember
    <3>3. /\ ToSet(<<z>> \o t) = {z} \cup ToSet(t)
          /\ \A x, y : Ahead(<<z>> \o t, x, y) <=> (Ahead(t, x, y) \/ (x = z /\ y \in ToSet(t)))
      BY <1>1, <3>2, JoinedMembers
    <3> QED BY <1>2, <2>2, <3>1, <3>3 DEF Slims
  <2> QED BY <1>4, <1>5, <2>1, <2>2
<1>7. /\ entries' = IF e.known /\ e.pending /\ local[p] = None THEN [es EXCEPT ![p].pending = FALSE] ELSE es
      /\ \/ /\ e.known /\ e.pending /\ local[p] # None /\ link = "up"
            /\ call'.job = "push" /\ call'.st = "sent" /\ call'.path = p
         \/ ~(e.known /\ e.pending /\ local[p] # None /\ link = "up") /\ call' = call
      /\ stale' = IF e.known /\ e.pending /\ local[p] = None THEN stale \cup {p} ELSE stale
  BY DEF StartPush, NoCall
<1>8. call.job = "none"
  BY DEF Idle
<1>9. ASSUME NEW q \in Paths, q # p PROVE entries'[q] = entries[q]
  BY <1>3, <1>7, <1>9
<1>10. /\ e.known = entries[p].known \/ (e.known /\ e.pending)
       /\ e.remote = entries[p].remote /\ e.hasRemote = entries[p].hasRemote
       /\ h.kind = "note" => e.known /\ e.pending
       /\ h.kind = "push" => es = entries
  BY <1>3 DEF Entry
<1>11. /\ entries'[p].remote = entries[p].remote /\ entries'[p].hasRemote = entries[p].hasRemote
       /\ e.known /\ e.pending /\ local[p] = None => entries'[p].known /\ ~entries'[p].pending
       /\ ~(e.known /\ e.pending /\ local[p] = None) => entries'[p] = e
  <2> HIDE DEF e
  <2>1. CASE e.known /\ e.pending /\ local[p] = None
    <3>1. entries'[p] = [e EXCEPT !.pending = FALSE]
      BY <1>7, <2>1 DEF e
    <3> QED BY <1>3, <1>10, <2>1, <3>1 DEF Entry
  <2>2. CASE ~(e.known /\ e.pending /\ local[p] = None)
    <3>1. entries'[p] = e
      BY <1>7, <2>2 DEF e
    <3> QED BY <1>10, <2>2, <3>1
  <2> QED BY <2>1, <2>2
<1> HIDE DEF h, t, e
<1>12. Transit \ {h} \subseteq Transit' /\ h.kind # "object"
  BY <1>4, <1>6 DEF Transit
<1>13. \A q \in Paths : Coming(q) => Coming(q)'
  BY <1>12 DEF Coming
<1>14. ASSUME NEW q \in Paths, q # p \/ h.kind = "push" PROVE Excused(q) => Excused(q)'
  <2>1. OnQueue(queue, q) => OnQueue(queue', q)
    <3>1. OnQueue(queue, q) /\ (h.kind # "note" \/ h.path # q) =>
             OnQueue(t, q) /\ \A x \in Job : OnQueue(<<x>> \o t, q)
      BY <1>1, NoteStays DEF h, t
    <3> QED BY <1>4, <1>5, <1>14, <3>1
  <2> QED BY <2>1, ExcuseStays
<1>15. ASSUME NEW q \in Paths, q # p PROVE Apart(q)
  <2>1. PushComing(q) => PushComing(q)'
    <3>1. ASSUME NEW x \in ToSet(queue), x.kind = "push", q \in x.paths
          PROVE  \E y \in ToSet(queue') : y.kind = "push" /\ q \in y.paths
      BY <1>6, <1>15, <3>1
    <3> QED BY <1>8, <3>1 DEF PushComing
  <2>2. q \in stale => q \in stale'
    BY <1>7
  <2> QED BY <1>9, <1>13, <1>14, <1>15, <2>1, <2>2 DEF Apart
<1>16. ASSUME Connected PROVE Heard(p)' /\ Followed(p)'
  <2>1. Heard(p) /\ Followed(p) /\ link = "up"
    BY <1>16 DEF Tracked, Converging, Connected, Subscribed
  <2>2. (News(p)' <=> News(p)) /\ (Listed(p)' <=> Listed(p))
    BY <1>4, <1>6, <1>7, <1>8, WorkHears
  <2>3. CASE e.known /\ e.pending /\ local[p] = None
    BY <1>7, <1>11, <2>3, PathStale
  <2>4. CASE e.known /\ e.pending /\ local[p] # None
    <3>1. PushComing(p)' /\ entries'[p] = e /\ stale' = stale
      BY <1>7, <1>11, <2>1, <2>4 DEF PushComing
    <3>2. Settled(p)'
      BY <2>4, <3>1 DEF Settled
    <3>3. Word(p) => Word(p)'
      BY <2>2, <3>1 DEF Word
    <3>4. Heard(p)'
      BY <2>1, <2>2, <3>3 DEF Heard
    <3>5. Followed(p)'
      BY <2>1, <3>1, <3>2, <3>3 DEF Followed
    <3> QED BY <3>4, <3>5
  <2>5. CASE ~(e.known /\ e.pending)
    <3>1. /\ entries'[p] = entries[p] /\ stale' = stale /\ ~(entries[p].known /\ entries[p].pending)
          /\ h.kind = "push"
      BY <1>4, <1>7, <1>10, <1>11, <2>5 DEF e
    <3>2. Settled(p) => Settled(p)'
      BY <1>13, <1>14, <3>1 DEF Settled
    <3>3. Word(p) => Word(p)'
      BY <2>2, <3>1 DEF Word
    <3>4. Heard(p)'
      BY <2>1, <2>2, <3>3 DEF Heard
    <3>5. Followed(p)'
      BY <2>1, <2>2, <3>1, <3>2, <3>3 DEF Followed
    <3> QED BY <3>4, <3>5
  <2> QED BY <2>3, <2>4, <2>5
<1>17. \A q \in Paths :
          /\ entries'[q].remote = entries[q].remote /\ (entries'[q].hasRemote => entries[q].hasRemote)
          /\ entries'[q].known \/ entries'[q] = NoEntry \/ entries'[q] = entries[q]
  <2>1. entries'[p].known \/ entries'[p] = entries[p]
    BY <1>4, <1>10, <1>11 DEF e
  <2> QED BY <1>9, <1>11, <2>1
<1>18. \A q \in Paths : Apart(q) \/ (Connected => Heard(q)' /\ Followed(q)')
  BY <1>15, <1>16
<1>19. \A x \in {h} : x.kind \notin {"sync", "delta"}
  BY <1>4
<1>20. call'.job = "none" \/ (call'.job = "push" /\ call'.st = "sent" /\ link = "up")
  BY <1>7, <1>8
<1>21. todo'.fills \subseteq todo.fills /\ aside' \cup todo'.restores = aside \cup todo.restores
  OBVIOUS
<1> QED BY <1>6, <1>8, <1>17, <1>18, <1>19, <1>20, <1>21, WorkStep

(* The host's answer about p, taken up as the newest version or as one that   *)
(* word of a newer one will follow.                                          *)
LEMMA AnswerFollowed ==
  ASSUME TypeOK, NEW p \in Paths, NEW r \in Row, Followed(p),
         Dated(r, host[p], hostVer[p]), Shows(r, host[p], hostVer[p]) \/ Word(p),
         todo.deletes = {}, UNCHANGED <<held, todo, host, hostVer>>, News(p)' <=> News(p),
         seen'[p] = r.ver, stale' = CaughtUp(p, r.ver),
         Shows(r, host[p], hostVer[p]) => Settled(p)',
         entries'[p].known /\ entries'[p].pending /\ ~entries'[p].conflict => PushComing(p)'
  PROVE  Heard(p)' /\ Followed(p)'
<1>1. p \in held \cup todo.deletes => host[p] = None \/ Word(p)
  BY DEF Followed
<1>2. CASE Shows(r, host[p], hostVer[p])
  <2>1. seen'[p] = hostVer'[p] /\ Settled(p)'
    BY <1>2 DEF Shows
  <2>2. p \in held => stale' = stale
    BY DEF CaughtUp
  <2>3. p \in held' \cup todo'.deletes => host'[p] = None \/ Word(p)'
    BY <1>1, <2>2 DEF Word
  <2> QED BY <2>1, <2>3 DEF Heard, Followed
<1>3. CASE ~Shows(r, host[p], hostVer[p])
  <2>1. Word(p) /\ r.ver # hostVer[p]
    BY <1>3 DEF Dated, Shows
  <2>2. Word(p)' /\ stale' = stale
    BY <2>1 DEF Word, CaughtUp
  <2>3. seen'[p] # hostVer'[p] /\ (Settled(p)' \/ News(p)')
    BY <2>1, <2>2 DEF Word, Settled
  <2> QED BY <2>2, <2>3 DEF Heard, Followed
<1> QED BY <1>2, <1>3

(* What PushNow makes of the answer to a save it had journalled. *)
LEMMA AfterPushOutcome ==
  ASSUME NEW e \in Entry, NEW c \in Call, NEW l \in Hash, e.known, e.pending
  PROVE  /\ AfterPush(e, c, l).known
         /\ ~OwnBytes(e, c) => /\ AfterPush(e, c, l).conflict
                               /\ AfterPush(e, c, l).remote = e.remote
                               /\ AfterPush(e, c, l).hasRemote => e.hasRemote
         /\ OwnBytes(e, c) =>
               /\ AfterPush(e, c, l).base = c.row.hash
               /\ AfterPush(e, c, l).hasRemote => AfterPush(e, c, l).remote = c.row
               /\ AfterPush(e, c, l).pending => PushAgain(e, c, l)
               /\ \/ AfterPush(e, c, l).pending \/ l = c.row.hash
                  \/ ~c.ok /\ c.row.hash = c.content
<1> DEFINE own == Contains(e.unack, c.row.hash)
           a == [e EXCEPT !.base = c.row.hash, !.conflict = FALSE, !.pushed = c.manifest,
                          !.unack = <<>>, !.remote = IF e.hasRemote THEN c.row ELSE @]
<1>1. /\ a \in [known : BOOLEAN, hasRemote : BOOLEAN, remote : Row, base : Hash, pending : BOOLEAN,
                conflict : BOOLEAN, localOnly : BOOLEAN, pushed : Nat, unack : {<<>>}]
      /\ a.known /\ a.pending /\ a.base = c.row.hash /\ a.hasRemote = e.hasRemote
      /\ a.hasRemote => a.remote = c.row
  BY DEF Entry, Call, Row
<1>2. CASE c.ok
  <2> DEFINE f == [a EXCEPT !.pending = (l # c.row.hash),
                            !.localOnly = IF e.hasRemote THEN @ ELSE TRUE]
  <2>1. AfterPush(e, c, l) = f
    BY <1>2 DEF AfterPush
  <2> HIDE DEF a
  <2>2. /\ f.known /\ f.base = c.row.hash /\ (f.hasRemote => f.remote = c.row)
        /\ f.pending = (l # c.row.hash)
    BY <1>1
  <2> HIDE DEF f
  <2> QED BY <1>2, <2>1, <2>2 DEF OwnBytes, PushAgain
<1>3. CASE ~c.ok /\ c.row.hash = c.content
  <2> DEFINE f == [a EXCEPT !.pending = FALSE]
  <2>1. AfterPush(e, c, l) = f
    BY <1>3 DEF AfterPush
  <2> HIDE DEF a
  <2>2. /\ f.known /\ f.base = c.row.hash /\ (f.hasRemote => f.remote = c.row) /\ ~f.pending
    BY <1>1
  <2> HIDE DEF f
  <2> QED BY <1>3, <2>1, <2>2 DEF OwnBytes, PushAgain
<1>4. CASE ~c.ok /\ c.row.hash # c.content /\ own
  <2>1. AfterPush(e, c, l) = a
    BY <1>4 DEF AfterPush
  <2> HIDE DEF a
  <2> QED BY <1>1, <1>4, <2>1 DEF OwnBytes, PushAgain
<1>5. CASE ~c.ok /\ c.row.hash # c.content /\ ~own
  <2> DEFINE f == [e EXCEPT !.conflict = TRUE, !.unack = <<>>,
                            !.hasRemote = IF c.row.hash = None THEN FALSE ELSE @]
  <2>1. AfterPush(e, c, l) = f
    BY <1>5 DEF AfterPush
  <2>2. f.known /\ f.conflict /\ f.remote = e.remote /\ (f.hasRemote => e.hasRemote)
    BY DEF Entry
  <2> HIDE DEF f
  <2> QED BY <1>5, <2>1, <2>2 DEF OwnBytes
<1> QED BY <1>2, <1>3, <1>4, <1>5

(* A push is answered. *)
LEMMA PushAnsweredTracked ==
  ASSUME TypeOK, TypeOK', Tracked, Sending, PushAnswered, NEW p \in Paths, p = call.path
  PROVE  Tracked'
<1> DEFINE e == entries[p]
           z == [kind |-> "push", paths |-> {p}]
<1>1. /\ UNCHANGED <<local, saving, manifestId, held, aside, todo, link, wire, pulls, primed, nextId,
                     sent, host, hostVer, touched, synced, unannounced>>
      /\ call.job = "push" /\ call.st = "answered" /\ call' = NoCall
      /\ seen' = IF OwnBytes(e, call) THEN [seen EXCEPT ![p] = call.row.ver] ELSE seen
      /\ stale' = IF OwnBytes(e, call) THEN CaughtUp(p, call.row.ver) ELSE stale
      /\ queue' = IF e.known /\ PushAgain(e, call, local[p]) THEN Append(queue, z) ELSE queue
  BY DEF PushAnswered, hostVars, serverVars
<1>2. /\ p \in Paths /\ e \in Entry /\ e.known /\ e.pending /\ call \in Call /\ call.row \in Row
      /\ local[p] \in Hash /\ entries \in [Paths -> Entry] /\ seen \in [Paths -> Nat]
      /\ todo.deletes = {}
      /\ local[p] = call.content \/ Excused(p)
  BY <1>1 DEF TypeOK, WellFormed, Call, Sending, Resting
<1>3. entries' = [entries EXCEPT ![p] = AfterPush(e, call, local[p])]
  BY <1>2 DEF PushAnswered
<1>4. z \in Job /\ z.kind = "push" /\ z.paths = {p} /\ z.kind \in Unordered
  BY <1>2 DEF Job, Push, Unordered
<1> HIDE DEF z
<1>5. queue \in Seq(Job)
  BY DEF TypeOK
<1>6. /\ Slims(queue, queue', {}) /\ ToSet(queue) \subseteq ToSet(queue')
      /\ \A x \in ToSet(queue') : x \in ToSet(queue) \/ x.kind = "push"
      /\ PushAgain(e, call, local[p]) => z \in ToSet(queue')
      /\ \A q \in Paths : OnQueue(queue, q) => OnQueue(queue', q)
  <2>1. CASE queue' = queue /\ ~PushAgain(e, call, local[p])
    BY <1>4, <1>5, <2>1, Slimming
  <2>2. CASE queue' = Append(queue, z)
    <3>1. ToSet(Append(queue, z)) = ToSet(queue) \cup {z}
      BY <1>4, <1>5, AppendMembers
    <3>2. Slims(queue, Append(queue, z), {})
      BY <1>4, <1>5, Slimming
    <3>3. \A q \in Paths : OnQueue(queue, q) => OnQueue(Append(queue, z), q)
      BY <1>4, <1>5, NoteStays
    <3> QED BY <1>4, <2>2, <3>1, <3>2, <3>3
  <2> QED BY <1>1, <1>2, <2>1, <2>2
<1> DEFINE f == AfterPush(e, call, local[p])
<1>7. /\ f.known
      /\ ~OwnBytes(e, call) => f.conflict /\ f.remote = e.remote /\ (f.hasRemote => e.hasRemote)
      /\ OwnBytes(e, call) => /\ f.base = call.row.hash
                              /\ f.hasRemote => f.remote = call.row
                              /\ f.pending => PushAgain(e, call, local[p])
                              /\ \/ f.pending \/ local[p] = call.row.hash
                                 \/ ~call.ok /\ call.row.hash = call.content
  BY <1>2, AfterPushOutcome
<1>8. entries'[p] = f /\ \A q \in Paths : q # p => entries'[q] = entries[q]
  BY <1>2, <1>3
<1>9. Dated(call.row, host[p], hostVer[p])
  BY <1>1 DEF Tracked, Versions, Answering
<1> HIDE DEF f, e
<1>10. /\ seen'[p] = IF OwnBytes(e, call) THEN call.row.ver ELSE seen[p]
       /\ \A q \in Paths : q # p => seen'[q] = seen[q]
       /\ \A q \in Paths : q # p => (q \in stale' <=> q \in stale)
  BY <1>1, <1>2 DEF CaughtUp
<1>11. \A q \in Paths : Excused(q) => Excused(q)'
  BY <1>1, <1>6, ExcuseStays
<1>12. \A q \in Paths : Coming(q) => Coming(q)'
  <2>1. Transit \subseteq Transit'
    BY <1>1, <1>6 DEF Transit
  <2> QED BY <1>1, <2>1 DEF Coming
<1>13. ASSUME NEW q \in Paths, q # p PROVE Apart(q)
  <2>1. PushComing(q) => PushComing(q)'
    BY <1>1, <1>6, <1>13 DEF PushComing
  <2> QED BY <1>1, <1>8, <1>10, <1>11, <1>12, <1>13, <2>1 DEF Apart
<1>14. call'.job = "none" /\ call.job # "sync"
  BY <1>1 DEF NoCall
<1>15. ASSUME Connected PROVE Heard(p)' /\ Followed(p)'
  <2>1. /\ Heard(p) /\ Followed(p)
        /\ Shows(call.row, host[p], hostVer[p]) \/ Word(p)
    <3>1. Subscribed /\ Answering
      BY <1>1, <1>15 DEF Connected, Subscribed, Answering
    <3> QED BY <1>2, <1>15, <3>1 DEF Tracked, Converging
  <2>2. (News(p)' <=> News(p)) /\ (Listed(p)' <=> Listed(p))
    BY <1>1, <1>2, <1>6, <1>14, WorkHears
  <2>3. CASE OwnBytes(e, call)
    <3>1. f.pending => PushComing(p)'
      BY <1>4, <1>6, <1>7, <2>3 DEF PushComing
    <3>2. Shows(call.row, host[p], hostVer[p]) => Settled(p)'
      <4> SUFFICES ASSUME Shows(call.row, host[p], hostVer[p]) PROVE Settled(p)'
        OBVIOUS
      <4>1. CASE f.pending \/ ~f.hasRemote
        BY <1>7, <1>8, <4>1 DEF Settled
      <4>2. CASE ~f.pending /\ f.hasRemote
        <5>1. local[p] = call.row.hash \/ Excused(p)'
          BY <1>2, <1>7, <1>11, <2>3, <4>2
        <5>2. /\ f.known /\ f.remote = call.row /\ f.base = f.remote.hash
              /\ Shows(f.remote, host'[p], hostVer'[p])
          BY <1>1, <1>7, <2>3, <4>2
        <5> QED BY <1>1, <1>7, <1>8, <2>3, <5>1, <5>2 DEF Settled
      <4> QED BY <4>1, <4>2
    <3> QED BY <1>1, <1>2, <1>8, <1>9, <1>10, <2>1, <2>2, <2>3, <3>1, <3>2, AnswerFollowed
  <2>4. CASE ~OwnBytes(e, call)
    <3>1. Settled(p)' /\ f.conflict
      BY <1>7, <1>8, <2>4 DEF Settled
    <3>2. Word(p) => Word(p)'
      BY <1>1, <2>2, <2>4 DEF Word
    <3>3. Heard(p)'
      BY <1>1, <1>10, <2>1, <2>2, <2>4, <3>2 DEF Heard
    <3>4. Followed(p)'
      BY <1>1, <1>8, <2>1, <3>1, <3>2 DEF Followed
    <3> QED BY <3>3, <3>4
  <2> QED BY <2>3, <2>4
<1>16. ASSUME NEW q \in Paths
       PROVE  /\ seen'[q] = seen[q] \/ seen'[q] <= hostVer[q]
              /\ \/ RecordDated(entries'[q], host[q], hostVer[q])
                 \/ entries'[q].remote = entries[q].remote /\ (entries'[q].hasRemote => entries[q].hasRemote)
              /\ entries'[q].known \/ entries'[q] = NoEntry \/ entries'[q] = entries[q]
  <2>1. CASE q # p
    BY <1>8, <1>10, <2>1
  <2>2. CASE q = p
    <3>1. seen'[p] = seen[p] \/ seen'[p] <= hostVer[p]
      BY <1>9, <1>10 DEF Dated
    <3>2. CASE OwnBytes(e, call)
      BY <1>7, <1>8, <1>9, <2>2, <3>1, <3>2 DEF RecordDated
    <3>3. CASE ~OwnBytes(e, call)
      BY <1>7, <1>8, <2>2, <3>1, <3>3 DEF e
    <3> QED BY <3>2, <3>3
  <2> QED BY <2>1, <2>2
<1>17. \A q \in Paths : Apart(q) \/ (Connected => Heard(q)' /\ Followed(q)')
  BY <1>13, <1>15
<1>18. \A x \in {} : x.kind \notin {"sync", "delta"}
  OBVIOUS
<1>19. todo'.fills \subseteq todo.fills /\ aside' \cup todo'.restores = aside \cup todo.restores
  BY <1>1
<1> QED BY <1>1, <1>6, <1>14, <1>16, <1>17, <1>18, <1>19, WorkStep

(* So is a choice of the user's. *)
LEMMA ResolvedTracked ==
  ASSUME TypeOK, TypeOK', Tracked, Sending, Lineage, KeepAnswered \/ TakeAnswered,
         NEW p \in Paths, p = call.path
  PROVE  Tracked'
<1> DEFINE e == entries[p]
           f == entries'[p]
           r == call.row
<1>1. /\ UNCHANGED <<saving, manifestId, held, aside, todo, queue, link, wire, pulls, primed, nextId,
                     sent, host, hostVer, touched, synced>>
      /\ call.job \in {"keep", "take"} /\ call.st = "answered" /\ call' = NoCall
  BY DEF KeepAnswered, TakeAnswered, hostVars, serverVars
<1>2. /\ p \in Paths /\ e \in Entry /\ e.known /\ e.conflict /\ call \in Call /\ r \in Row
      /\ entries \in [Paths -> Entry] /\ seen \in [Paths -> Nat] /\ local \in [Paths -> Hash]
      /\ todo.deletes = {}
      /\ call.job = "keep" => local[p] = call.content \/ Excused(p)
      /\ call.ok => r.hash = call.content
  <2>1. call.job \in {"keep", "take"} => entries[p].known /\ entries[p].conflict
    BY DEF Tracked, Marks
  <2>2. call.ok => r.hash = call.content
    BY DEF Lineage, TracedCall
  <2> QED BY <1>1, <2>1, <2>2 DEF TypeOK, WellFormed, Call, Sending, Resting
<1>3. Dated(r, host[p], hostVer[p])
  BY <1>1 DEF Tracked, Versions, Answering
<1>4. ~call.ok /\ KeepAnswered => UNCHANGED <<entries, seen, stale, local, unannounced>>
  BY <1>2 DEF KeepAnswered
<1>5. ASSUME call.ok /\ KeepAnswered
      PROVE  /\ seen' = [seen EXCEPT ![p] = r.ver] /\ stale' = CaughtUp(p, r.ver)
             /\ local' = local /\ unannounced' = unannounced
             /\ \A q \in Paths : q # p => entries'[q] = entries[q]
             /\ ~f.pending
             /\ \/ f = NoEntry /\ r.hash = None
                \/ /\ f.known /\ f.base = r.hash /\ (f.hasRemote => f.remote = r)
                   /\ local[p] = r.hash \/ Excused(p)
  <2> DEFINE kept == [e EXCEPT !.conflict = FALSE, !.pending = FALSE, !.base = call.row.hash,
                               !.remote = IF e.hasRemote THEN call.row ELSE @,
                               !.localOnly = IF e.hasRemote THEN @ ELSE TRUE]
  <2>1. entries' = [entries EXCEPT ![p] = IF call.content = None THEN NoEntry ELSE kept]
    BY <1>2, <1>5 DEF KeepAnswered
  <2>2. kept.known /\ ~kept.pending /\ kept.base = r.hash /\ (kept.hasRemote => kept.remote = r)
    BY <1>2 DEF Entry
  <2> HIDE DEF kept
  <2>3. /\ f = IF call.content = None THEN NoEntry ELSE kept
        /\ \A q \in Paths : q # p => entries'[q] = entries[q]
    BY <1>2, <2>1
  <2>4. ~NoEntry.pending
    BY DEF NoEntry
  <2>5. call.job = "keep"
    BY <1>5 DEF KeepAnswered
  <2> QED BY <1>2, <1>5, <2>2, <2>3, <2>4, <2>5 DEF KeepAnswered
<1>6. ASSUME TakeAnswered
      PROVE  /\ seen' = [seen EXCEPT ![p] = r.ver] /\ stale' = CaughtUp(p, r.ver)
             /\ local' = [local EXCEPT ![p] = r.hash] /\ unannounced' = unannounced \ {p}
             /\ \A q \in Paths : q # p => entries'[q] = entries[q]
             /\ ~f.pending
             /\ \/ f = NoEntry /\ r.hash = None
                \/ /\ f.known /\ f.base = r.hash /\ (f.hasRemote => f.remote = r)
                   /\ local'[p] = r.hash
  <2> DEFINE taken == [e EXCEPT !.conflict = FALSE, !.pending = FALSE, !.localOnly = FALSE,
                                !.hasRemote = TRUE, !.base = call.row.hash, !.remote = call.row]
  <2>1. entries' = [entries EXCEPT ![p] = IF r.hash = None THEN NoEntry ELSE taken]
    BY <1>2, <1>6 DEF TakeAnswered
  <2>2. taken.known /\ ~taken.pending /\ taken.base = r.hash /\ taken.remote = r
    BY <1>2 DEF Entry
  <2> HIDE DEF taken
  <2>3. /\ f = IF r.hash = None THEN NoEntry ELSE taken
        /\ \A q \in Paths : q # p => entries'[q] = entries[q]
    BY <1>2, <2>1
  <2>4. ~NoEntry.pending
    BY DEF NoEntry
  <2>5. /\ seen' = [seen EXCEPT ![p] = r.ver] /\ stale' = CaughtUp(p, r.ver)
        /\ local' = [local EXCEPT ![p] = r.hash] /\ unannounced' = unannounced \ {p}
    BY <1>6 DEF TakeAnswered, TreeTakes
  <2> QED BY <1>2, <2>2, <2>3, <2>4, <2>5
<1>7. call'.job = "none" /\ call.job # "sync" /\ call.job # "push"
  BY <1>1 DEF NoCall
<1>8. Slims(queue, queue', {}) /\ (\A x \in {} : x.kind \notin {"sync", "delta"})
      /\ \A x \in ToSet(queue') : x \in ToSet(queue) \/ x.kind = "push"
  BY <1>1 DEF Slims
<1>9. \A q \in Paths : (Coming(q) => Coming(q)') /\ (PushComing(q) => PushComing(q)')
  BY <1>1, <1>7 DEF Coming, Transit, PushComing
<1>10. ~f.pending \/ entries' = entries
  BY <1>1, <1>4, <1>5, <1>6
<1> HIDE DEF f, e, r
<1>11. ASSUME NEW q \in Paths, q # p \/ (KeepAnswered /\ ~call.ok) PROVE Apart(q)
  <2>1. /\ entries'[q] = entries[q] /\ local'[q] = local[q] /\ seen'[q] = seen[q]
        /\ q \in stale => q \in stale'
        /\ q \in unannounced => q \in unannounced'
    <3>1. CASE KeepAnswered /\ ~call.ok
      BY <1>4, <3>1
    <3>2. CASE q # p /\ ((KeepAnswered /\ call.ok) \/ TakeAnswered)
      BY <1>2, <1>5, <1>6, <3>2 DEF CaughtUp
    <3> QED BY <1>11, <3>1, <3>2
  <2>2. Excused(q) => Excused(q)'
    BY <1>1, <2>1 DEF Excused, Noted
  <2> QED BY <1>1, <1>9, <2>1, <2>2 DEF Apart
<1>12. ASSUME Connected, (KeepAnswered /\ call.ok) \/ TakeAnswered
       PROVE  Heard(p)' /\ Followed(p)'
  <2>1. /\ Followed(p)
        /\ Shows(r, host[p], hostVer[p]) \/ Word(p)
    <3>1. Subscribed
      BY <1>1, <1>12 DEF Connected, Subscribed
    <3>2. Answering
      BY <1>1 DEF Answering
    <3> QED BY <1>2, <1>12, <3>1, <3>2 DEF Tracked, Converging, r
  <2>2. News(p)' <=> News(p)
    BY <1>1, <1>2, <1>7, <1>8, WorkHears
  <2>3. /\ ~f.pending /\ seen'[p] = r.ver /\ stale' = CaughtUp(p, r.ver)
        /\ \/ f = NoEntry /\ r.hash = None
           \/ /\ f.known /\ f.base = r.hash /\ (f.hasRemote => f.remote = r)
              /\ local'[p] = r.hash \/ Excused(p)'
    <3>1. ASSUME KeepAnswered, call.ok PROVE Excused(p) => Excused(p)'
      BY <1>1, <1>5, <3>1 DEF Excused, Noted
    <3> QED BY <1>2, <1>5, <1>6, <1>12, <3>1
  <2>4. Shows(r, host[p], hostVer[p]) => Settled(p)'
    <3> SUFFICES ASSUME Shows(r, host[p], hostVer[p]) PROVE Settled(p)'
      OBVIOUS
    <3>1. CASE f = NoEntry /\ r.hash = None
      <4>1. ~f.known /\ host'[p] = None
        BY <1>1, <3>1 DEF NoEntry, Shows
      <4> QED BY <4>1 DEF Settled, f
    <3>2. CASE f.known /\ ~f.hasRemote
      BY <3>2 DEF Settled, f
    <3>3. CASE /\ f.known /\ f.hasRemote /\ f.base = r.hash /\ f.remote = r
               /\ local'[p] = r.hash \/ Excused(p)'
      <4>1. Shows(f.remote, host'[p], hostVer'[p]) /\ f.base = f.remote.hash
        BY <1>1, <3>3
      <4> QED BY <3>3, <4>1 DEF Settled, f
    <3> QED BY <2>3, <3>1, <3>2, <3>3
  <2>5. ~entries'[p].pending /\ r \in Row
    BY <1>2, <2>3 DEF f
  <2> QED BY <1>1, <1>2, <1>3, <2>1, <2>2, <2>3, <2>4, <2>5, AnswerFollowed
<1>13. ASSUME NEW q \in Paths
       PROVE  /\ seen'[q] = seen[q] \/ seen'[q] <= hostVer[q]
              /\ \/ RecordDated(entries'[q], host[q], hostVer[q])
                 \/ entries'[q].remote = entries[q].remote /\ (entries'[q].hasRemote => entries[q].hasRemote)
              /\ entries'[q].known \/ entries'[q] = NoEntry \/ entries'[q] = entries[q]
  <2>1. CASE q # p \/ (KeepAnswered /\ ~call.ok)
    BY <1>11, <2>1 DEF Apart
  <2>2. CASE q = p /\ ((KeepAnswered /\ call.ok) \/ TakeAnswered)
    <3>1. seen'[p] <= hostVer[p]
      <4>1. seen'[p] = r.ver
        BY <1>2, <1>5, <1>6, <2>2
      <4> QED BY <1>3, <4>1 DEF Dated
    <3>2. (f.known \/ f = NoEntry) /\ RecordDated(f, host[p], hostVer[p])
      BY <1>3, <1>5, <1>6, <2>2 DEF RecordDated, NoEntry
    <3> QED BY <2>2, <3>1, <3>2 DEF f
  <2> QED BY <1>1, <2>1, <2>2
<1>14. \A q \in Paths : Apart(q) \/ (Connected => Heard(q)' /\ Followed(q)')
  BY <1>11, <1>12
<1>15. todo'.fills \subseteq todo.fills /\ aside' \cup todo'.restores = aside \cup todo.restores
  BY <1>1
<1> QED BY <1>1, <1>7, <1>8, <1>13, <1>14, <1>15, WorkStep

(* A delete of the plan is carried out, found overtaken, or given up. *)
LEMMA DeletedTracked ==
  ASSUME TypeOK, TypeOK', Tracked, NEW p \in Paths, p \in todo.deletes, call.job = "none",
         NEW e, e = entries[p], NEW s, s = [path |-> p, entry |-> e, content |-> local[p]],
         NEW skipped, skipped = (~e.known \/ e.pending \/ e.conflict),
         UNCHANGED <<saving, manifestId, held, queue, call, link, wire, pulls, primed, nextId, sent,
                     host, hostVer, touched, seen, synced, unannounced>>,
         todo' = AfterDelete(p), \A q \in Paths : q # p => local'[q] = local[q],
         \/ skipped /\ UNCHANGED <<entries, local, aside, stale>>
         \/ /\ ~skipped /\ entries' = [entries EXCEPT ![p] = NoEntry]
            /\ aside' \subseteq aside \cup {s} /\ UNCHANGED stale
         \/ /\ ~skipped /\ UNCHANGED <<aside, stale>>
            /\ entries' = [entries EXCEPT ![p].hasRemote = FALSE, ![p].conflict = TRUE]
         \/ ~skipped /\ UNCHANGED <<entries, aside>> /\ stale' = stale \cup {p}
  PROVE  Tracked'
<1> DEFINE f == entries'[p]
<1>1. /\ UNCHANGED <<saving, manifestId, held, queue, call, link, wire, pulls, primed, nextId, sent,
                     host, hostVer, touched, seen, synced, unannounced>>
      /\ p \in todo.deletes
  OBVIOUS
<1>2. /\ e \in Entry /\ entries \in [Paths -> Entry] /\ local \in [Paths -> Hash] /\ todo \in Todo
      /\ call.job = "none"
  BY DEF TypeOK
<1>3. /\ todo'.deletes = todo.deletes \ {p} /\ todo'.restores = todo.restores /\ todo'.fills = todo.fills
  BY <1>2 DEF Todo, AfterDelete
<1>4. /\ stale' = stale \/ (stale' = stale \cup {p} /\ p \in stale')
      /\ aside' = aside \/ (~skipped /\ aside' \subseteq aside \cup {s})
  OBVIOUS
<1>5. /\ \A q \in Paths : q # p => entries'[q] = entries[q] /\ local'[q] = local[q]
      /\ \/ skipped /\ f = e
         \/ ~skipped /\ f = NoEntry
         \/ ~skipped /\ f.known /\ f.conflict /\ ~f.hasRemote /\ f.remote = e.remote
         \/ ~skipped /\ f = e /\ p \in stale'
  <2>1. CASE UNCHANGED entries /\ (skipped \/ p \in stale')
    BY <2>1
  <2>2. CASE ~skipped /\ entries' = [entries EXCEPT ![p] = NoEntry]
    BY <1>2, <2>2
  <2>3. CASE ~skipped /\ entries' = [entries EXCEPT ![p].hasRemote = FALSE, ![p].conflict = TRUE]
    <3>1. f = [[e EXCEPT !.hasRemote = FALSE] EXCEPT !.conflict = TRUE]
      BY <1>2, <2>3
    <3>2. f.known = e.known /\ f.conflict /\ ~f.hasRemote /\ f.remote = e.remote
      <4> HIDE DEF f
      <4> QED BY <1>2, <3>1 DEF Entry
    <3> QED BY <1>2, <2>3, <3>2
  <2> QED BY <2>1, <2>2, <2>3
<1>6. \A q \in Paths : /\ Coming(q) => Coming(q)'
                       /\ PushComing(q) => PushComing(q)'
                       /\ Excused(q) => Excused(q)'
  BY <1>1, <1>3 DEF Coming, Transit, PushComing, Excused, Noted
<1>7. Slims(queue, queue', {}) /\ (\A x \in {} : x.kind \notin {"sync", "delta"})
      /\ \A x \in ToSet(queue') : x \in ToSet(queue) \/ x.kind = "push"
  BY <1>1 DEF Slims
<1>8. ASSUME NEW q \in Paths, q # p PROVE Apart(q)
  BY <1>1, <1>3, <1>4, <1>5, <1>6, <1>8 DEF Apart
<1>9. ASSUME Connected PROVE Heard(p)' /\ Followed(p)'
  <2>1. Heard(p) /\ Followed(p)
    BY <1>9 DEF Tracked, Converging, Connected, Subscribed
  <2>2. (News(p)' <=> News(p)) /\ (Listed(p)' <=> Listed(p))
    BY <1>1, <1>2, <1>7, WorkHears
  <2>d. CASE p \in stale'
    <3>1. f.known /\ f.pending /\ ~f.conflict => PushComing(p)'
      BY <1>5, <1>6, <2>1, <2>d DEF Followed, NoEntry
    <3> QED BY <2>d, <3>1, PathStale DEF f
  <2> SUFFICES ASSUME stale' = stale PROVE Heard(p)' /\ Followed(p)'
    BY <1>4, <2>d
  <2>3. Word(p)' <=> Word(p)
    BY <1>1, <2>2 DEF Word
  <2>4. Heard(p)'
    BY <1>1, <2>1, <2>2, <2>3 DEF Heard
  <2>5. host[p] = None \/ Word(p)
    BY <1>1, <2>1 DEF Followed
  <2>6. Word(p)' => Settled(p)' \/ News(p)'
    BY DEF Word, Settled
  <2>7. p \in held' \cup todo'.deletes => host'[p] = None \/ Word(p)'
    BY <1>1, <2>3, <2>5
  <2>8. CASE skipped /\ f = e
    <3>1. e.known => Settled(p)'
      BY <2>8 DEF Settled
    <3>2. ~e.known => Settled(p)' \/ News(p)'
      BY <1>1, <2>3, <2>5, <2>6, <2>8 DEF Settled
    <3>3. f.known /\ f.pending /\ ~f.conflict => PushComing(p)'
      BY <1>6, <2>1, <2>8 DEF Followed
    <3> QED BY <2>4, <2>7, <2>8, <3>1, <3>2, <3>3 DEF Followed
  <2>9. CASE f = NoEntry
    <3>1. ~f.known
      BY <2>9 DEF NoEntry
    <3>2. Settled(p)' \/ News(p)'
      BY <1>1, <2>3, <2>5, <2>6, <3>1 DEF Settled
    <3> QED BY <2>4, <2>7, <3>1, <3>2 DEF Followed
  <2>10. CASE f.known /\ f.conflict
    <3>1. Settled(p)'
      BY <2>10 DEF Settled
    <3> QED BY <2>4, <2>7, <2>10, <3>1 DEF Followed
  <2> QED BY <1>5, <2>d, <2>8, <2>9, <2>10
<1>10. ASSUME NEW q \in Paths
       PROVE  /\ seen'[q] = seen[q] \/ seen'[q] <= hostVer[q]
              /\ \/ RecordDated(entries'[q], host[q], hostVer[q])
                 \/ entries'[q].remote = entries[q].remote /\ (entries'[q].hasRemote => entries[q].hasRemote)
              /\ entries'[q].known \/ entries'[q] = NoEntry \/ entries'[q] = entries[q]
  <2>1. RecordDated(NoEntry, host[q], hostVer[q])
    BY DEF RecordDated, NoEntry
  <2> QED BY <1>1, <1>5, <2>1
<1>11. \A q \in Paths : Apart(q) \/ (Connected => Heard(q)' /\ Followed(q)')
  BY <1>8, <1>9
<1>12. \A x \in aside' \cup todo'.restores :
            \/ x \in aside \cup todo.restores
            \/ /\ x.path \in Paths /\ x.entry = entries[x.path]
               /\ x.entry.known /\ ~x.entry.pending /\ ~x.entry.conflict
  <2>1. s.path = p /\ s.entry = e
    OBVIOUS
  <2> QED BY <1>3, <1>4, <2>1
<1> QED BY <1>1, <1>2, <1>3, <1>7, <1>10, <1>11, <1>12, WorkStep

LEMMA DeleteNowTracked ==
  ASSUME TypeOK, TypeOK', Tracked, Sending, NEW p \in Paths, DeleteNow(p)
  PROVE  Tracked'
<1> DEFINE e == entries[p]
           s == [path |-> p, entry |-> e, content |-> local[p]]
           skipped == ~e.known \/ e.pending \/ e.conflict
<1>1. /\ UNCHANGED <<saving, manifestId, held, queue, call, link, wire, pulls, primed, nextId, sent,
                     host, hostVer, touched, seen, synced, stale, unannounced, local, aside>>
      /\ p \in todo.deletes
  BY DEF DeleteNow, hostVars, serverVars
<1>2. call.job = "none" /\ todo \in Todo
  BY <1>1 DEF TypeOK, Sending, Resting
<1>3. CASE todo' = AfterDelete(p)
  <2>1. \/ skipped /\ UNCHANGED entries
        \/ ~skipped /\ entries' = [entries EXCEPT ![p] = NoEntry]
        \/ /\ ~skipped /\ UNCHANGED aside
           /\ entries' = [entries EXCEPT ![p].hasRemote = FALSE, ![p].conflict = TRUE]
        \/ UNCHANGED entries /\ todo' # AfterDelete(p)
    <3>1. [todo EXCEPT !.checked = {[path |-> p, was |-> local[p]]}] # AfterDelete(p)
      BY <1>2 DEF AfterDelete, Todo
    <3> QED BY <3>1 DEF DeleteNow
  <2> HIDE DEF e, s, skipped
  <2> QED BY <1>1, <1>2, <1>3, <2>1, DeletedTracked DEF e, s, skipped
<1>4. CASE todo' # AfterDelete(p)
  <2>1. /\ UNCHANGED entries
        /\ todo' = [todo EXCEPT !.checked = {[path |-> p, was |-> local[p]]}]
    BY <1>4 DEF DeleteNow
  <2>2. todo'.deletes = todo.deletes /\ todo'.restores = todo.restores /\ todo'.fills = todo.fills
    BY <1>2, <2>1 DEF Todo
  <2>3. Slims(queue, queue', {}) /\ (\A x \in {} : x.kind # "sync")
    BY <1>1 DEF Slims
  <2>4. \A q \in Paths : Excused(q) => Excused(q)'
    BY <1>1 DEF Excused, Noted
  <2>5. \A x \in todo'.fills : x \in Transit
    BY <2>2 DEF Transit
  <2> QED BY <1>1, <2>1, <2>2, <2>3, <2>4, <2>5, AsideTracked
<1> QED BY <1>3, <1>4

LEMMA RemoveCheckedTracked ==
  ASSUME TypeOK, TypeOK', Tracked, Sending, Comparing, NEW k \in todo.checked, RemoveChecked(k)
  PROVE  Tracked'
<1>1. k.path \in Paths /\ k.path \in todo.deletes /\ todo' = AfterDelete(k.path)
  BY DEF RemoveChecked, TypeOK, Todo, Compare
<1>2. PICK p \in Paths : p = k.path
  BY <1>1
<1> DEFINE e == entries[p]
           s == [path |-> p, entry |-> e, content |-> local[p]]
           skipped == ~e.known \/ e.pending \/ e.conflict
<1>3. /\ UNCHANGED <<saving, manifestId, held, queue, call, link, wire, pulls, primed, nextId, sent,
                     host, hostVer, touched, seen, synced, unannounced>>
      /\ local' = [local EXCEPT ![p] = None] /\ p \in todo.deletes /\ todo' = AfterDelete(p)
  BY <1>1, <1>2 DEF RemoveChecked, hostVars, serverVars
<1>4. call.job = "none" /\ ~skipped
  BY <1>2 DEF Sending, Resting, Comparing
<1>5. \A q \in Paths : q # p => local'[q] = local[q]
  BY <1>3 DEF TypeOK
<1>6. \/ /\ entries' = [entries EXCEPT ![p] = NoEntry]
         /\ aside' \subseteq aside \cup {s} /\ UNCHANGED stale
      \/ /\ UNCHANGED <<aside, stale>>
         /\ entries' = [entries EXCEPT ![p].hasRemote = FALSE, ![p].conflict = TRUE]
      \/ UNCHANGED <<entries, aside>> /\ stale' = stale \cup {p}
  BY <1>2 DEF RemoveChecked
<1> HIDE DEF e, s, skipped
<1> QED BY <1>3, <1>4, <1>5, <1>6, DeletedTracked DEF e, s, skipped

(* A delete is undone. *)
LEMMA RestoreNowTracked ==
  ASSUME TypeOK, TypeOK', Tracked, Sending, NEW s \in todo.restores, RestoreNow(s)
  PROVE  Tracked'
<1> DEFINE p == s.path
           back == ~entries[p].known /\ local[p] = None
<1>1. /\ UNCHANGED <<saving, manifestId, aside, queue, call, link, wire, pulls, primed, nextId, sent,
                     host, hostVer, touched, seen, synced>>
      /\ todo.deletes = {} /\ todo' = [todo EXCEPT !.restores = @ \ {s}]
      /\ back => /\ local' = [local EXCEPT ![p] = s.content]
                 /\ entries' = [entries EXCEPT ![p] = s.entry]
                 /\ held' = held \cup {p} /\ unannounced \subseteq unannounced'
                 /\ stale' = IF host[p] # None THEN stale \cup {p} ELSE stale
      /\ ~back => UNCHANGED <<local, entries, held, unannounced, stale>>
  BY DEF RestoreNow, hostVars, serverVars
<1>2. /\ p \in Paths /\ s.entry \in Entry /\ entries \in [Paths -> Entry] /\ local \in [Paths -> Hash]
      /\ todo \in Todo /\ call.job = "none"
      /\ s.entry.known /\ ~s.entry.pending /\ ~s.entry.conflict
      /\ RecordDated(s.entry, host[p], hostVer[p])
  <2>1. s.path \in Paths /\ s.entry \in Entry
    BY DEF TypeOK, Todo, SetAside
  <2>2. s.entry.known /\ ~s.entry.pending /\ ~s.entry.conflict
    BY DEF Tracked, Marks
  <2>3. RecordDated(s.entry, host[p], hostVer[p])
    BY DEF Tracked, Versions
  <2>4. call.job = "none"
    BY DEF Sending, Resting
  <2> QED BY <2>1, <2>2, <2>3, <2>4 DEF TypeOK
<1>3. todo'.deletes = todo.deletes /\ todo'.restores = todo.restores \ {s} /\ todo'.fills = todo.fills
  BY <1>1, <1>2 DEF Todo
<1> HIDE DEF p
<1>4. \A q \in Paths : /\ Coming(q) => Coming(q)'
                       /\ PushComing(q) => PushComing(q)'
                       /\ Excused(q) => Excused(q)'
  BY <1>1, <1>3 DEF Coming, Transit, PushComing, Excused, Noted
<1>5. Slims(queue, queue', {}) /\ (\A x \in {} : x.kind \notin {"sync", "delta"})
      /\ \A x \in ToSet(queue') : x \in ToSet(queue) \/ x.kind = "push"
  BY <1>1 DEF Slims
<1>6. ASSUME NEW q \in Paths, q # p \/ ~back PROVE Apart(q)
  <2>1. CASE ~back
    BY <1>1, <1>3, <1>4, <2>1 DEF Apart
  <2>2. CASE back /\ q # p
    <3>1. /\ entries'[q] = entries[q] /\ local'[q] = local[q]
          /\ (q \in held' <=> q \in held) /\ (q \in stale => q \in stale')
      BY <1>1, <1>2, <2>2
    <3> QED BY <1>1, <1>3, <1>4, <3>1 DEF Apart
  <2> QED BY <1>6, <2>1, <2>2
<1>7. ASSUME back, Connected, NEW q \in Paths, q = p PROVE Heard(q)' /\ Followed(q)'
  <2>1. Heard(q)
    BY <1>7 DEF Tracked, Converging, Connected, Subscribed
  <2>2. (News(q)' <=> News(q)) /\ (Listed(q)' <=> Listed(q))
    BY <1>1, <1>2, <1>5, WorkHears
  <2>3. entries'[q] = s.entry /\ q \in held'
    BY <1>1, <1>2, <1>7
  <2>4. CASE host[q] = None
    <3>1. Settled(q)' /\ host'[q] = None
      BY <1>1, <2>3, <2>4 DEF Settled
    <3>2. stale' = stale
      BY <1>1, <1>7, <2>4
    <3>3. Heard(q)'
      BY <1>1, <2>1, <2>2, <3>2 DEF Heard, Word
    <3> QED BY <1>2, <2>3, <3>1, <3>3 DEF Followed
  <2>5. CASE host[q] # None
    BY <1>1, <1>2, <1>7, <2>3, <2>5, PathStale
  <2> QED BY <2>4, <2>5
<1>8. ASSUME NEW q \in Paths
      PROVE  /\ seen'[q] = seen[q] \/ seen'[q] <= hostVer[q]
             /\ \/ RecordDated(entries'[q], host[q], hostVer[q])
                \/ entries'[q].remote = entries[q].remote /\ (entries'[q].hasRemote => entries[q].hasRemote)
             /\ entries'[q].known \/ entries'[q] = NoEntry \/ entries'[q] = entries[q]
  <2>1. CASE q # p \/ ~back
    BY <1>6, <2>1 DEF Apart
  <2>2. CASE q = p /\ back
    <3>1. entries'[q] = s.entry
      BY <1>1, <1>2, <2>2
    <3> QED BY <1>1, <1>2, <2>2, <3>1
  <2> QED BY <2>1, <2>2
<1>9. \A q \in Paths : Apart(q) \/ (Connected => Heard(q)' /\ Followed(q)')
  BY <1>6, <1>7
<1>10. \A x \in aside' \cup todo'.restores : x \in aside \cup todo.restores
  BY <1>1, <1>3
<1> QED BY <1>1, <1>2, <1>3, <1>5, <1>8, <1>9, <1>10, WorkStep

(* The held deletes are approved: they are still to be carried out. *)
LEMMA ApproveTracked ==
  ASSUME TypeOK, TypeOK', Tracked, ApproveHeldDeletes
  PROVE  Tracked'
<1> DEFINE h == Head(queue)
<1>1. /\ UNCHANGED <<local, saving, entries, manifestId, aside, call, link, wire, pulls, primed, nextId,
                     sent, host, hostVer, touched, seen, synced, stale, unannounced>>
      /\ Idle /\ queue # <<>> /\ h.kind = "approve" /\ queue' = Tail(queue) /\ held' = {}
      /\ todo' = [todo EXCEPT !.deletes = held, !.undoable = h.undoable]
  BY DEF ApproveHeldDeletes, NextJob, hostVars, serverVars
<1>2. /\ todo'.deletes = held /\ todo'.restores = todo.restores /\ todo'.fills = todo.fills
      /\ todo.deletes = {} /\ call.job = "none"
  BY <1>1 DEF TypeOK, Todo, Idle
<1>3. queue \in Seq(Job)
  BY DEF TypeOK
<1>4. ToSet(queue) = {h} \cup ToSet(queue') /\ Slims(queue, queue', {h})
  <2>1. /\ ToSet(queue) = {h} \cup ToSet(queue')
        /\ \A x, y : Ahead(queue, x, y) <=> (Ahead(queue', x, y) \/ (x = h /\ y \in ToSet(queue')))
    BY <1>1, <1>3, TailMembers
  <2> QED BY <2>1 DEF Slims
<1>5. \A q \in Paths : OnQueue(queue, q) => OnQueue(queue', q)
  BY <1>1, <1>3, NoteStays
<1> HIDE DEF h
<1>6. ASSUME NEW q \in Paths PROVE Apart(q)
  <2>1. Excused(q) => Excused(q)'
    BY <1>1, <1>5, ExcuseStays
  <2>2. Coming(q) => Coming(q)'
    BY <1>1, <1>2, <1>4 DEF Coming, Transit
  <2>3. PushComing(q) => PushComing(q)'
    BY <1>1, <1>4 DEF PushComing
  <2> QED BY <1>1, <1>2, <2>1, <2>2, <2>3 DEF Apart
<1>7. /\ \A x \in {h} : x.kind \notin {"sync", "delta"}
      /\ \A x \in ToSet(queue') : x \in ToSet(queue) \/ x.kind = "push"
  BY <1>1, <1>4
<1> QED BY <1>1, <1>2, <1>4, <1>6, <1>7, WorkStep

(* What a plan does with its deletes, they stay to be decided or carried out, *)
(* and what can be undone is no more than before.                            *)
LEMMA PlanDeletesOutcome ==
  ASSUME NEW deletes, NEW fills, NEW h, PlanDeletes(deletes, fills, h)
  PROVE  /\ held' \cup todo'.deletes = h \cup deletes
         /\ aside' \cup todo'.restores \subseteq aside
         /\ todo'.fills = fills
BY DEF PlanDeletes

(* An object is taken up: its bytes are still on their way to the file when   *)
(* the way is clear, and the lack of them undoes nothing newer unless the     *)
(* path is given up.                                                          *)
LEMMA ApplyFetchedTracked ==
  ASSUME TypeOK, TypeOK', Tracked, NEW p \in Paths, NEW o \in Object, o.path = p, NEW fills,
         ApplyFetched(o, fills), fills \subseteq todo.fills, todo.deletes = {}, todo.restores = {},
         Dated(o.row, host[p], hostVer[p]), call.job # "sync", call'.job = "none",
         NEW taken, Slims(queue, queue', taken), \A x \in taken : x.kind \notin {"sync", "delta"},
         ToSet(queue') \subseteq ToSet(queue),
         \A q \in Paths : q # p \/ o \in todo'.fills => (Coming(q) => Coming(q)'),
         \A q \in Paths : PushComing(q) => PushComing(q)',
         \A q \in Paths : OnQueue(queue, q) => OnQueue(queue', q),
         UNCHANGED <<saving, manifestId, link, wire, pulls, primed, nextId, sent,
                     host, hostVer, touched, synced>>
  PROVE  Tracked'
<1> DEFINE e == entries[p]
           f == entries'[p]
           r == o.row
           ft == Fetched(e, local[p], o)
           gone == e.known /\ e.hasRemote /\ ~e.pending /\ ~e.conflict
           v == IF gone THEN ReconcileDelete(e, local[p]) ELSE [entry |-> e, act |-> "none"]
<1>1. /\ e \in Entry /\ entries \in [Paths -> Entry] /\ local \in [Paths -> Hash] /\ r \in Row
      /\ seen \in [Paths -> Nat] /\ hostVer[p] \in Nat /\ r.ver \in Nat /\ e.remote.ver \in Nat
      /\ seen[p] \in Nat /\ seen[p] <= hostVer[p]
  BY DEF TypeOK, Object, Row, Entry, Tracked, Versions
<1>2. ASSUME r.hash = None
      PROVE  /\ UNCHANGED <<local, seen, unannounced>>
             /\ entries' = [entries EXCEPT ![p] = v.entry] /\ f = v.entry
             /\ stale' = IF gone /\ r.ver < e.remote.ver THEN stale \cup {p} ELSE stale
             /\ held' \cup todo'.deletes = held \cup (IF v.act = "delete" THEN {p} ELSE {})
             /\ aside' \cup todo'.restores \subseteq aside \cup todo.restores
             /\ todo'.fills = fills
  <2>1. /\ UNCHANGED <<local, seen, unannounced>>
        /\ entries' = [entries EXCEPT ![p] = v.entry]
        /\ stale' = IF gone /\ r.ver < e.remote.ver THEN stale \cup {p} ELSE stale
        /\ PlanDeletes(IF v.act = "delete" THEN {p} ELSE {}, fills, held)
    BY <1>2 DEF ApplyFetched
  <2> QED BY <1>1, <2>1, PlanDeletesOutcome
<1>3. ASSUME r.hash # None
      PROVE  /\ ft = "parked" => entries' = [entries EXCEPT ![p].conflict = TRUE]
             /\ ft # "parked" => entries' = entries
             /\ UNCHANGED <<local, seen, held, aside>>
             /\ stale' = IF ft = "unapplied" THEN stale \cup {p} ELSE stale
             /\ unannounced' = IF ft = "parked" THEN unannounced \ {p} ELSE unannounced
             /\ todo' = IF ft = "clear"
                        THEN [todo EXCEPT !.fills = fills \cup {o},
                                          !.checked = {[path |-> p, was |-> local[p]]}]
                        ELSE [todo EXCEPT !.fills = fills]
    BY <1>3 DEF ApplyFetched
<1>4. /\ todo'.fills = IF r.hash # None /\ ft = "clear" THEN fills \cup {o} ELSE fills
      /\ aside' \cup todo'.restores \subseteq aside \cup todo.restores
      /\ \A q \in Paths : q # p => (q \in held' \cup todo'.deletes <=> q \in held \cup todo.deletes)
      /\ r.hash # None => held' \cup todo'.deletes = held
  <2>1. CASE r.hash = None
    BY <1>2, <2>1
  <2>2. CASE r.hash # None
    <3>1. /\ todo'.fills = IF ft = "clear" THEN fills \cup {o} ELSE fills
          /\ todo'.deletes = todo.deletes /\ todo'.restores = todo.restores
      <4> HIDE DEF ft, r
      <4>1. todo \in Todo
        BY DEF TypeOK
      <4>2. PICK c : \/ ft = "clear" /\ todo' = [todo EXCEPT !.fills = fills \cup {o}, !.checked = c]
                     \/ ft # "clear" /\ todo' = [todo EXCEPT !.fills = fills]
        BY <1>3, <2>2
      <4>3. CASE ft = "clear" /\ todo' = [todo EXCEPT !.fills = fills \cup {o}, !.checked = c]
        BY <4>1, <4>3 DEF Todo
      <4>4. CASE ft # "clear" /\ todo' = [todo EXCEPT !.fills = fills]
        BY <4>1, <4>4 DEF Todo
      <4> QED BY <4>2, <4>3, <4>4
    <3> QED BY <1>3, <2>2, <3>1
  <2> QED BY <2>1, <2>2
<1>5. ft \in {"skipped", "parked", "unapplied", "clear"}
      /\ (ft = "skipped" <=> ~e.known \/ e.pending \/ e.conflict)
  BY DEF Fetched
<1>6. \/ ~gone /\ v.entry = e /\ v.act = "none"
      \/ gone /\ v.entry = NoEntry /\ v.act = "none"
      \/ gone /\ v.entry = e /\ v.act = "delete"
      \/ /\ gone /\ v.entry.known /\ ~v.entry.hasRemote /\ v.entry.remote = e.remote
         /\ ~v.entry.pending /\ v.act = "none"
  <2>1. CASE gone
    <3>1. v = ReconcileDelete(e, local[p])
      BY <2>1
    <3>2. \/ v.entry = NoEntry /\ v.act = "none"
          \/ v.entry = e /\ v.act = "delete"
          \/ /\ v.entry.known = e.known /\ ~v.entry.hasRemote /\ v.entry.remote = e.remote
             /\ v.entry.pending = e.pending /\ v.act = IF e.pending THEN "push" ELSE "none"
      <4> HIDE DEF v, gone
      <4> QED BY <1>1, <3>1, ReconcileDeleteOutcome
    <3> HIDE DEF v
    <3> QED BY <2>1, <3>2
  <2>2. CASE ~gone
    BY <1>1, <2>2
  <2> QED BY <2>1, <2>2
<1> HIDE DEF v, ft, f, r
<1>7. (News(p)' <=> News(p)) /\ (Listed(p)' <=> Listed(p))
  BY WorkHears
<1>8. ASSUME NEW q \in Paths, q # p PROVE Apart(q)
  <2>1. /\ entries'[q] = entries[q] /\ local'[q] = local[q] /\ seen'[q] = seen[q]
        /\ q \in stale => q \in stale'
        /\ q \in unannounced => q \in unannounced'
    <3>1. CASE r.hash = None
      BY <1>1, <1>2, <1>8, <3>1
    <3>2. CASE r.hash # None
      BY <1>1, <1>3, <1>5, <1>8, <3>2
    <3> QED BY <3>1, <3>2
  <2>2. Excused(q) => Excused(q)'
    BY <2>1, ExcuseStays
  <2> QED BY <1>4, <1>8, <2>1, <2>2 DEF Apart
<1>9. ASSUME Connected PROVE Heard(p)' /\ Followed(p)'
  <2>1. Heard(p) /\ Followed(p)
    BY <1>9 DEF Tracked, Converging, Connected, Subscribed
  <2>3. ASSUME p \in stale => p \in stale', seen'[p] = seen[p] PROVE Heard(p)' /\ (Word(p) => Word(p)')
    BY <1>7, <2>1, <2>3 DEF Heard, Word
  <2>4. Settled(p) /\ gone =>
          \/ p \in stale \/ host[p] = None
          \/ e.remote.ver = hostVer[p]
    BY DEF Settled, Shows
  <2>5. CASE r.hash = None /\ ~gone
    <3>1. f = e /\ stale' = stale /\ held' \cup todo'.deletes = held /\ seen' = seen
      BY <1>2, <1>6, <2>5
    <3>2. Settled(p) => Settled(p)'
      BY <2>5, <3>1 DEF Settled, f
    <3> QED BY <1>7, <2>1, <2>3, <3>1, <3>2 DEF Followed, f
  <2>6. CASE r.hash = None /\ gone /\ r.ver < e.remote.ver
    <3>1. p \in stale' /\ ~f.pending
      BY <1>2, <1>6, <2>6 DEF NoEntry
    <3> QED BY <3>1, PathStale DEF f
  <2>7. CASE r.hash = None /\ gone /\ ~(r.ver < e.remote.ver)
    <3>1. stale' = stale /\ seen' = seen /\ f = v.entry
          /\ held' \cup todo'.deletes = held \cup (IF v.act = "delete" THEN {p} ELSE {})
      BY <1>2, <2>7
    <3>2. Settled(p) => p \in stale \/ host[p] = None
      <4>1. e.remote.ver = hostVer[p] => r.ver = hostVer[p] /\ host[p] = None
        BY <1>1, <2>7 DEF Dated, r
      <4> QED BY <2>4, <2>7, <4>1
    <3>3. host[p] = None \/ Word(p)
      BY <2>1, <3>2 DEF Followed, Word
    <3>4. Heard(p)' /\ (Word(p) => Word(p)')
      BY <2>3, <3>1
    <3>5. ~f.pending
      BY <1>6, <2>7, <3>1 DEF NoEntry
    <3>6. Word(p)' => Settled(p)' \/ News(p)'
      BY DEF Word, Settled
    <3>7. host[p] = None \/ p \in stale => Settled(p)'
      <4>1. CASE p \in stale
        BY <3>1, <4>1 DEF Settled
      <4>2. CASE host[p] = None
        <5>1. CASE v.entry = NoEntry
          BY <3>1, <4>2, <5>1 DEF Settled, NoEntry, f
        <5>2. CASE v.act = "delete"
          BY <3>1, <4>2, <5>2 DEF Settled
        <5>3. CASE v.entry.known /\ ~v.entry.hasRemote
          BY <3>1, <5>3 DEF Settled, f
        <5> QED BY <1>6, <2>7, <5>1, <5>2, <5>3
      <4> QED BY <4>1, <4>2
    <3>8. Settled(p)' \/ News(p)'
      BY <3>3, <3>4, <3>6, <3>7
    <3>9. seen'[p] = hostVer'[p] /\ f.known => Settled(p)'
      BY <2>1, <2>7, <3>1, <3>2, <3>7 DEF Followed
    <3> QED BY <3>3, <3>4, <3>5, <3>8, <3>9 DEF Followed, f
  <2>8. CASE r.hash # None /\ ft = "skipped"
    <3>1. entries' = entries /\ local' = local /\ seen' = seen /\ stale' = stale /\ unannounced' = unannounced
          /\ held' \cup todo'.deletes = held /\ (~e.known \/ e.pending \/ e.conflict)
      BY <1>3, <1>4, <1>5, <2>8
    <3>2. Settled(p) => Settled(p)'
      BY <3>1 DEF Settled
    <3> QED BY <1>7, <2>1, <2>3, <3>1, <3>2 DEF Followed
  <2>9. CASE r.hash # None /\ ft = "parked"
    <3>1. entries' = [entries EXCEPT ![p].conflict = TRUE] /\ seen' = seen /\ stale' = stale
          /\ held' \cup todo'.deletes = held /\ e.known
      BY <1>3, <1>4, <1>5, <2>9
    <3>2. f.known /\ f.conflict
      BY <1>1, <3>1 DEF f, Entry
    <3>3. Settled(p)'
      BY <3>2 DEF Settled, f
    <3> QED BY <1>7, <2>1, <2>3, <3>1, <3>2, <3>3 DEF Followed, f
  <2>10. CASE r.hash # None /\ ft = "unapplied"
    <3>1. entries' = entries /\ p \in stale' /\ ~e.pending
      BY <1>3, <1>5, <2>10
    <3> QED BY <3>1, PathStale
  <2>11. CASE r.hash # None /\ ft = "clear"
    <3>1. entries' = entries /\ local' = local /\ seen' = seen /\ stale' = stale /\ unannounced' = unannounced
          /\ held' \cup todo'.deletes = held /\ o \in todo'.fills
      BY <1>3, <1>4, <2>11
    <3>2. Excused(p) => Excused(p)'
      BY <3>1, ExcuseStays
    <3>3. Apart(p)
      BY <3>1, <3>2 DEF Apart
    <3>4. News(p) => Word(p)'
      BY <1>7 DEF Word
    <3> QED BY <1>7, <2>1, <3>3, <3>4, PathKept DEF Apart
  <2> QED BY <1>5, <2>5, <2>6, <2>7, <2>8, <2>9, <2>10, <2>11
<1>10. ASSUME NEW q \in Paths
       PROVE  /\ seen'[q] = seen[q] \/ seen'[q] <= hostVer[q]
              /\ \/ RecordDated(entries'[q], host[q], hostVer[q])
                 \/ entries'[q].remote = entries[q].remote /\ (entries'[q].hasRemote => entries[q].hasRemote)
              /\ entries'[q].known \/ entries'[q] = NoEntry \/ entries'[q] = entries[q]
  <2>1. CASE q # p
    BY <1>8, <2>1 DEF Apart
  <2>2. CASE r.hash = None
    <3>1. seen' = seen /\ f = v.entry
      BY <1>2, <2>2
    <3>2. RecordDated(NoEntry, host[p], hostVer[p])
      BY DEF RecordDated, NoEntry
    <3>3. /\ \/ RecordDated(f, host[p], hostVer[p])
             \/ f.remote = e.remote /\ (f.hasRemote => e.hasRemote)
          /\ f.known \/ f = NoEntry \/ f = e
      BY <1>6, <3>1, <3>2
    <3> QED BY <1>8, <3>1, <3>3 DEF f, Apart
  <2>3. CASE r.hash # None /\ q = p
    <3>1. seen'[p] = seen[p] \/ seen'[p] <= hostVer[p]
      BY <1>1, <1>3, <2>3 DEF Dated, r
    <3>3. CASE ft = "parked"
      <4>1. entries' = [entries EXCEPT ![p].conflict = TRUE] /\ e.known
        BY <1>3, <1>5, <2>3, <3>3
      <4>2. f.known /\ f.remote = e.remote /\ f.hasRemote = e.hasRemote
        BY <1>1, <4>1 DEF f, Entry
      <4> QED BY <2>3, <3>1, <4>2 DEF f
    <3>4. CASE ft # "parked"
      BY <1>3, <2>3, <3>1, <3>4
    <3> QED BY <3>3, <3>4
  <2> QED BY <2>1, <2>2, <2>3
<1>11. \A q \in Paths : Apart(q) \/ (Connected => Heard(q)' /\ Followed(q)')
  BY <1>8, <1>9
<1>12. \A x \in todo'.fills : x \in todo.fills \/ FrameDated(x, host, hostVer)
  BY <1>4 DEF FrameDated, Object, r
<1> QED BY <1>4, <1>10, <1>11, <1>12, WorkStep

(* The bytes are written, or found to be in a tool's way: written they settle *)
(* the path if they are of the newest version, and undo nothing newer unless  *)
(* the path is given up.                                                      *)
LEMMA WriteFetchedTracked ==
  ASSUME TypeOK, TypeOK', Tracked, Sending, Comparing, NEW k \in todo.checked, NEW o \in todo.fills,
         WriteFetched(k, o)
  PROVE  Tracked'
<1> USE DEF hostVars, serverVars
<1>0. o \in Object /\ o.path \in Paths /\ o.kind = "object"
  BY DEF TypeOK, Todo, Object
<1>p. PICK p \in Paths : p = o.path
  BY <1>0
<1> DEFINE e == entries[p]
           f == entries'[p]
           r == o.row
<1>1. /\ e \in Entry /\ entries \in [Paths -> Entry] /\ local \in [Paths -> Hash] /\ r \in Row
      /\ seen \in [Paths -> Nat] /\ hostVer[p] \in Nat /\ r.ver \in Nat /\ e.remote.ver \in Nat
      /\ seen[p] \in Nat /\ seen[p] <= hostVer[p] /\ todo \in Todo
  BY <1>0 DEF TypeOK, Object, Row, Entry, Tracked, Versions
<1>2. /\ UNCHANGED <<saving, manifestId, held, aside, queue, call, link, wire, pulls, primed, nextId,
                     sent, host, hostVer, touched, synced>>
      /\ todo' = [todo EXCEPT !.fills = @ \ {o}, !.checked = {}]
      /\ todo.deletes = {} /\ k.path = p
      /\ FetchedWritten(k, o) \/ FetchedRefused(k, o)
  BY <1>p DEF WriteFetched
<1>3. /\ todo'.fills = todo.fills \ {o} /\ todo'.deletes = {} /\ todo'.restores = todo.restores
  BY <1>1, <1>2 DEF Todo
<1>4. call.job = "none" /\ e.known /\ ~e.pending /\ ~e.conflict
  BY <1>2 DEF Sending, Resting, Comparing
<1>5. Dated(r, host[p], hostVer[p])
  <2>1. FrameDated(o, host, hostVer)
    BY DEF Tracked, Versions, Transit
  <2> QED BY <1>0, <1>p, <2>1 DEF FrameDated
<1>6. \/ /\ entries' = [entries EXCEPT ![p].base = r.hash, ![p].remote = r]
         /\ local' = [local EXCEPT ![p] = r.hash] /\ unannounced' = unannounced \ {p}
         /\ seen' = IF r.ver > seen[p] THEN [seen EXCEPT ![p] = r.ver] ELSE seen
         /\ stale' = IF r.ver < e.remote.ver \/ p \in held THEN stale \cup {p} ELSE CaughtUp(p, r.ver)
      \/ /\ entries' = [entries EXCEPT ![p].conflict = TRUE] /\ unannounced' = unannounced \ {p}
         /\ UNCHANGED <<local, seen, stale>>
      \/ stale' = stale \cup {p} /\ UNCHANGED <<entries, local, seen, unannounced>>
  BY <1>2, <1>p DEF FetchedWritten, FetchedRefused, TreeTakes
<1>7. Slims(queue, queue', {}) /\ (\A x \in {} : x.kind \notin {"sync", "delta"})
      /\ \A x \in ToSet(queue') : x \in ToSet(queue) \/ x.kind = "push"
  BY <1>2 DEF Slims
<1>8. (News(p)' <=> News(p)) /\ (Listed(p)' <=> Listed(p))
  BY <1>2, <1>4, <1>7, WorkHears
<1> HIDE DEF f, r
<1>9. ASSUME NEW q \in Paths, q # p PROVE Apart(q)
  <2>1. /\ entries'[q] = entries[q] /\ local'[q] = local[q] /\ seen'[q] = seen[q]
        /\ q \in stale => q \in stale'
        /\ q \in unannounced => q \in unannounced'
    BY <1>1, <1>6, <1>9 DEF CaughtUp
  <2>2. Excused(q) => Excused(q)'
    BY <1>2, <2>1 DEF Excused, Noted
  <2>3. Coming(q) => Coming(q)'
    BY <1>2, <1>3, <1>9, <1>p DEF Coming, Transit
  <2>4. PushComing(q) => PushComing(q)'
    BY <1>2 DEF PushComing
  <2> QED BY <1>2, <1>3, <2>1, <2>2, <2>3, <2>4 DEF Apart
<1>10. ASSUME Connected PROVE Heard(p)' /\ Followed(p)'
  <2>1. Heard(p) /\ Followed(p)
    BY <1>10 DEF Tracked, Converging, Connected, Subscribed
  <2>2. CASE entries' = entries /\ p \in stale'
    BY <1>4, <2>2, PathStale
  <2>3. CASE entries' = [entries EXCEPT ![p].conflict = TRUE] /\ UNCHANGED <<local, seen, stale>>
    <3>1. f.known /\ f.conflict
      BY <1>1, <1>4, <2>3 DEF f, Entry
    <3>2. Settled(p)'
      BY <3>1 DEF Settled, f
    <3>3. Heard(p)' /\ (Word(p) => Word(p)')
      BY <1>2, <1>8, <2>1, <2>3 DEF Heard, Word
    <3> QED BY <1>2, <1>3, <2>1, <3>1, <3>2, <3>3 DEF Followed, f
  <2>4. CASE /\ entries' = [entries EXCEPT ![p].base = r.hash, ![p].remote = r]
             /\ local' = [local EXCEPT ![p] = r.hash]
             /\ seen' = IF r.ver > seen[p] THEN [seen EXCEPT ![p] = r.ver] ELSE seen
             /\ stale' = IF r.ver < e.remote.ver \/ p \in held THEN stale \cup {p}
                         ELSE CaughtUp(p, r.ver)
    <3>2. f.known /\ ~f.pending /\ f.base = r.hash /\ f.remote = r /\ f.hasRemote = e.hasRemote
          /\ local'[p] = r.hash
      BY <1>1, <1>4, <2>4 DEF f, Entry
    <3>3. CASE r.ver < e.remote.ver \/ p \in held
      <4>1. p \in stale'
        BY <2>4, <3>3
      <4> QED BY <3>2, <4>1, PathStale DEF f
    <3>4. CASE ~(r.ver < e.remote.ver \/ p \in held)
      <4>1. stale' = CaughtUp(p, r.ver) /\ p \notin held' \cup todo'.deletes
        BY <1>2, <1>3, <2>4, <3>4
      <4>2. seen'[p] = IF r.ver > seen[p] THEN r.ver ELSE seen[p]
        BY <1>1, <2>4
      <4>3. CASE r.ver = hostVer[p]
        <5>1. Shows(r, host[p], hostVer[p]) /\ seen'[p] = hostVer[p]
          BY <1>1, <1>5, <4>2, <4>3 DEF Shows, Dated, r
        <5>2. Settled(p)'
          BY <1>2, <3>2, <5>1 DEF Settled, f
        <5> QED BY <1>2, <3>2, <4>1, <5>1, <5>2 DEF Heard, Followed, f
      <4>4. CASE r.ver # hostVer[p]
        <5>1. r.ver < hostVer[p]
          BY <1>1, <1>5, <4>4 DEF Dated, r
        <5>2. stale' = stale /\ (seen'[p] = hostVer[p] <=> seen[p] = hostVer[p])
          BY <1>1, <4>1, <4>2, <4>4, <5>1 DEF CaughtUp
        <5>3. Settled(p) => p \in stale \/ ~e.hasRemote
          BY <1>1, <1>2, <1>4, <3>4, <5>1 DEF Settled, Shows
        <5>4. p \in stale \/ ~e.hasRemote => Settled(p)'
          BY <3>2, <5>2 DEF Settled, f
        <5>5. Heard(p)'
          BY <1>2, <1>8, <2>1, <5>2 DEF Heard, Word
        <5> QED BY <1>2, <1>4, <1>8, <2>1, <3>2, <4>1, <5>2, <5>3, <5>4, <5>5 DEF Followed, f
      <4> QED BY <4>3, <4>4
    <3> QED BY <3>3, <3>4
  <2> QED BY <1>6, <2>2, <2>3, <2>4
<1>11. ASSUME NEW q \in Paths
       PROVE  /\ seen'[q] = seen[q] \/ seen'[q] <= hostVer[q]
              /\ \/ RecordDated(entries'[q], host[q], hostVer[q])
                 \/ entries'[q].remote = entries[q].remote /\ (entries'[q].hasRemote => entries[q].hasRemote)
              /\ entries'[q].known \/ entries'[q] = NoEntry \/ entries'[q] = entries[q]
  <2>1. CASE q # p
    BY <1>9, <2>1 DEF Apart
  <2>2. CASE q = p
    <3>1. seen'[p] = seen[p] \/ seen'[p] <= hostVer[p]
      BY <1>1, <1>5, <1>6 DEF Dated, r
    <3>2. CASE entries' = [entries EXCEPT ![p].base = r.hash, ![p].remote = r]
      <4>1. f.known /\ f.remote = r
        BY <1>1, <1>4, <3>2 DEF f, Entry
      <4> QED BY <1>5, <2>2, <3>1, <4>1 DEF RecordDated, f
    <3>3. CASE entries' = [entries EXCEPT ![p].conflict = TRUE]
      <4>1. f.known /\ f.remote = e.remote /\ f.hasRemote = e.hasRemote
        BY <1>1, <1>4, <3>3 DEF f, Entry
      <4> QED BY <2>2, <3>1, <4>1 DEF f
    <3>4. CASE entries' = entries
      BY <2>2, <3>1, <3>4
    <3> QED BY <1>6, <3>2, <3>3, <3>4
  <2> QED BY <2>1, <2>2
<1>12. \A q \in Paths : Apart(q) \/ (Connected => Heard(q)' /\ Followed(q)')
  BY <1>9, <1>10
<1>13. /\ \A x \in todo'.fills : x \in todo.fills
       /\ aside' \cup todo'.restores \subseteq aside \cup todo.restores
  BY <1>2, <1>3
<1> QED BY <1>2, <1>4, <1>7, <1>11, <1>12, <1>13, WorkStep

(* The three ways an object comes to be applied. *)
LEMMA AppliedTracked ==
  ASSUME TypeOK, TypeOK', Tracked, Sending,
         ApplyPulled \/ FetchAnswered \/ (\E o \in todo.fills : ApplyFill(o))
  PROVE  Tracked'
<1> USE DEF hostVars, serverVars
<1>1. ASSUME ApplyPulled PROVE Tracked'
  <2> DEFINE o == Head(queue)
  <2>1. /\ UNCHANGED <<saving, manifestId, call, link, wire, pulls, primed, nextId, sent,
                       host, hostVer, touched, synced>>
        /\ Idle /\ queue # <<>> /\ o.kind = "object" /\ queue' = Tail(queue) /\ ApplyFetched(o, {})
    BY <1>1 DEF ApplyPulled, NextJob
  <2>2. queue \in Seq(Job) /\ o \in Job
    BY <2>1, HeadType DEF TypeOK
  <2>3. o \in Object
    BY <2>1, <2>2 DEF Job, Note, Push, Approve, Sync, WatchDelta
  <2>4. /\ ToSet(queue) = {o} \cup ToSet(queue') /\ Slims(queue, queue', {o})
    <3>1. /\ ToSet(queue) = {o} \cup ToSet(queue')
          /\ \A x, y : Ahead(queue, x, y) <=> (Ahead(queue', x, y) \/ (x = o /\ y \in ToSet(queue')))
      BY <2>1, <2>2, TailMembers
    <3> QED BY <3>1 DEF Slims
  <2>5. \A q \in Paths : OnQueue(queue, q) => OnQueue(queue', q)
    BY <2>1, <2>2, NoteStays
  <2> HIDE DEF o
  <2>6. o.path \in Paths /\ o.row \in Row
    BY <2>3 DEF Object
  <2>7. Dated(o.row, host[o.path], hostVer[o.path])
    <3>1. FrameDated(o, host, hostVer)
      BY <2>4 DEF Tracked, Versions, Transit
    <3> QED BY <2>1, <3>1 DEF FrameDated
  <2>8. todo.deletes = {} /\ todo.restores = {} /\ todo.fills = {} /\ call.job = "none"
    BY <2>1 DEF Idle
  <2>9. ASSUME NEW q \in Paths, q # o.path \/ o \in todo'.fills, Coming(q) PROVE Coming(q)'
    <3>1. CASE \E n \in ToSet(pulls) : q \in n.paths
      BY <2>1, <3>1 DEF Coming
    <3>2. ASSUME NEW x \in Transit, x.kind = "object", x.path = q, Shows(x.row, host[q], hostVer[q])
          PROVE  Coming(q)'
      <4>1. x \in Transit'
        BY <2>1, <2>4, <2>8, <2>9, <3>2 DEF Transit
      <4> QED BY <2>1, <3>2, <4>1 DEF Coming
    <3> QED BY <2>9, <3>1, <3>2 DEF Coming
  <2>10. \A q \in Paths : PushComing(q) => PushComing(q)'
    BY <2>1, <2>4 DEF PushComing
  <2>11. (\A x \in {o} : x.kind \notin {"sync", "delta"}) /\ ToSet(queue') \subseteq ToSet(queue)
         /\ {} \subseteq todo.fills
    BY <2>1, <2>4
  <2> QED BY <2>1, <2>3, <2>4, <2>5, <2>6, <2>7, <2>8, <2>9, <2>10, <2>11, ApplyFetchedTracked
<1>2. ASSUME NEW o \in todo.fills, ApplyFill(o) PROVE Tracked'
  <2>1. /\ UNCHANGED <<saving, manifestId, call, link, wire, pulls, primed, nextId, sent,
                       host, hostVer, touched, synced, queue>>
        /\ todo.deletes = {} /\ todo.restores = {} /\ ApplyFetched(o, todo.fills \ {o})
    BY <1>2 DEF ApplyFill
  <2>2. o \in Object /\ o.kind = "object" /\ o.path \in Paths /\ todo.fills \subseteq Object
    BY DEF TypeOK, Todo, Object
  <2>3. Dated(o.row, host[o.path], hostVer[o.path])
    <3>1. FrameDated(o, host, hostVer)
      BY DEF Tracked, Versions, Transit
    <3> QED BY <2>2, <3>1 DEF FrameDated
  <2>4. call.job = "none"
    BY <1>2 DEF Sending, Resting
  <2>5. /\ Slims(queue, queue', {}) /\ (\A x \in {} : x.kind \notin {"sync", "delta"})
        /\ ToSet(queue') \subseteq ToSet(queue) /\ todo.fills \ {o} \subseteq todo.fills
        /\ \A q \in Paths : OnQueue(queue, q) => OnQueue(queue', q)
        /\ \A q \in Paths : PushComing(q) => PushComing(q)'
    BY <2>1 DEF Slims, PushComing
  <2>6. todo.fills \ {o} \subseteq todo'.fills
    <3>1. CASE o.row.hash = None
      BY <2>1, <3>1, PlanDeletesOutcome DEF ApplyFetched
    <3>2. CASE o.row.hash # None
      <4>1. PICK c : \/ todo' = [todo EXCEPT !.fills = todo.fills \ {o}]
                     \/ todo' = [todo EXCEPT !.fills = (todo.fills \ {o}) \cup {o}, !.checked = c]
        BY <2>1, <3>2 DEF ApplyFetched
      <4>2. todo \in Todo
        BY DEF TypeOK
      <4>3. CASE todo' = [todo EXCEPT !.fills = todo.fills \ {o}]
        BY <4>2, <4>3 DEF Todo
      <4>4. CASE todo' = [todo EXCEPT !.fills = (todo.fills \ {o}) \cup {o}, !.checked = c]
        BY <4>2, <4>4 DEF Todo
      <4> QED BY <4>1, <4>3, <4>4
    <3> QED BY <3>1, <3>2
  <2>7. ASSUME NEW q \in Paths, q # o.path \/ o \in todo'.fills, Coming(q) PROVE Coming(q)'
    <3>1. CASE \E n \in ToSet(pulls) : q \in n.paths
      BY <2>1, <3>1 DEF Coming
    <3>2. ASSUME NEW x \in Transit, x.kind = "object", x.path = q, Shows(x.row, host[q], hostVer[q])
          PROVE  Coming(q)'
      <4>1. x \in Transit'
        BY <2>1, <2>6, <2>7, <3>2 DEF Transit
      <4> QED BY <2>1, <3>2, <4>1 DEF Coming
    <3> QED BY <2>7, <3>1, <3>2 DEF Coming
  <2> QED BY <2>1, <2>2, <2>3, <2>4, <2>5, <2>7, ApplyFetchedTracked
<1>3. ASSUME FetchAnswered PROVE Tracked'
  <2> DEFINE o == [kind |-> "object", path |-> call.path, row |-> call.row, delta |-> None]
  <2>1. /\ UNCHANGED <<saving, manifestId, link, wire, pulls, primed, nextId, sent,
                       host, hostVer, touched, synced, queue>>
        /\ call.job = "fetch" /\ call.st = "answered" /\ call' = NoCall /\ ApplyFetched(o, {})
    BY <1>3 DEF FetchAnswered
  <2>2. o \in Object /\ o.path = call.path /\ o.row = call.row /\ call.path \in Paths
    BY <2>1 DEF TypeOK, WellFormed, Call, Object, Hash
  <2> HIDE DEF o
  <2>3. Dated(o.row, host[o.path], hostVer[o.path])
    BY <2>1, <2>2 DEF Tracked, Versions, Answering
  <2>4. todo.deletes = {} /\ todo.restores = {} /\ todo.fills = {} /\ call'.job = "none"
    BY <2>1 DEF Sending, Resting, NoCall
  <2>5. /\ Slims(queue, queue', {}) /\ (\A x \in {} : x.kind \notin {"sync", "delta"})
        /\ ToSet(queue') \subseteq ToSet(queue) /\ {} \subseteq todo.fills
        /\ \A q \in Paths : OnQueue(queue, q) => OnQueue(queue', q)
        /\ \A q \in Paths : PushComing(q) => PushComing(q)'
    BY <2>1 DEF Slims, PushComing
  <2>6. \A q \in Paths : Coming(q) => Coming(q)'
    BY <2>1, <2>4 DEF Coming, Transit
  <2> QED BY <2>1, <2>2, <2>3, <2>4, <2>5, <2>6, ApplyFetchedTracked
<1> QED BY <1>1, <1>2, <1>3

(* The worker asks for the manifest: until it is built, nothing is owed. *)
LEMMA SyncNowTracked ==
  ASSUME TypeOK, TypeOK', Tracked, SyncNow
  PROVE  Tracked'
<1> DEFINE h == Head(queue)
<1>1. /\ UNCHANGED <<local, saving, entries, manifestId, held, aside, todo, link, wire, pulls, primed,
                     nextId, sent, host, hostVer, touched, seen, synced, stale, unannounced>>
      /\ Idle /\ queue # <<>> /\ h.kind = "sync" /\ queue' = Tail(queue)
      /\ call' = IF link = "up" THEN [NoCall EXCEPT !.job = "sync", !.st = "sent"] ELSE call
  BY DEF SyncNow, NextJob, hostVars, serverVars
<1>2. queue \in Seq(Job) /\ link \in {"up", "down"}
  BY DEF TypeOK
<1>3. /\ ToSet(queue) = {h} \cup ToSet(queue')
      /\ \A x, y : Ahead(queue, x, y) <=> (Ahead(queue', x, y) \/ (x = h /\ y \in ToSet(queue')))
  BY <1>1, <1>2, TailMembers
<1> HIDE DEF h
<1>4. Lines /\ SyncQueued /\ call.job = "none"
  BY <1>1, <1>3 DEF Tracked, SyncQueued, Idle
<1>5. \A y \in ToSet(queue') : y.kind \notin {"sync", "delta"}
  <2>1. \A x, y : Ahead(queue, x, y) /\ x.kind = "sync" => y.kind \notin {"sync", "delta"}
    BY <1>4 DEF Lines
  <2> QED BY <1>1, <1>3, <2>1
<1>6. /\ link = "up" => call'.job = "sync" /\ call'.st = "sent"
      /\ link = "down" => call' = call
  BY <1>1 DEF NoCall
<1>7. ~Awaited' /\ ~Answering' /\ ~SyncQueued'
  BY <1>2, <1>4, <1>5, <1>6 DEF Awaited, Answering, SyncQueued
<1>8. Versions'
  <2>1. Versions /\ Aged
    BY <1>1, SameAged DEF Tracked
  <2>2. \A x \in ToSet(queue') \cup ToSet(wire') \cup todo'.fills :
            x \in Transit \/ FrameDated(x, host', hostVer')
    BY <1>1, <1>3 DEF Transit
  <2>3. \A k \in ToSet(pulls') : \A x \in ToSet(k.read) :
            x \in Transit \/ FrameDated(x, host', hostVer')
    BY <1>1 DEF Transit
  <2> QED BY <1>1, <1>7, <2>1, <2>2, <2>3, VersionsStep
<1>9. Marks'
  <2>1. call'.job \notin {"keep", "take"}
    BY <1>2, <1>4, <1>6
  <2> QED BY <1>1, <2>1, MarksStep DEF Tracked
<1>10. Lines'
  <2>1. link = "down" => wire' = <<>> /\ pulls' = <<>> /\ ~primed' /\ call'.job = "none"
    BY <1>1, <1>4, <1>6 DEF Lines
  <2>2. \A x, y : Ahead(queue', x, y) /\ x.kind = "sync" => y.kind \notin {"sync", "delta"}
    BY <1>3, <1>4 DEF Lines
  <2>3. \A x, y : Ahead(wire', x, y) => x.kind # "manifest" \/ y.kind # "manifest"
    BY <1>1, <1>4 DEF Lines
  <2>4. \A x \in ToSet(wire') : x.kind # "manifest"
    BY <1>1, <1>4 DEF Lines
  <2>5. ~primed' /\ \A x \in ToSet(wire') : x.kind # "delta"
    BY <1>1, <1>4 DEF Lines
  <2> QED BY <1>1, <1>5, <1>7, <2>1, <2>2, <2>3, <2>4, <2>5 DEF Lines
<1>11. ~Subscribed'
  <2>1. CASE link = "up"
    BY <1>1, <1>6, <1>7, <2>1 DEF Subscribed
  <2>2. CASE link # "up"
    BY <1>1, <2>2 DEF Subscribed
  <2> QED BY <2>1, <2>2
<1> QED BY <1>8, <1>9, <1>10, <1>11, Unsubscribed

-----------------------------------------------------------------------------
(* Reconciles *)

(* What a row, or the lack of one, makes of a record it is compared with: the *)
(* entry and the plan's item.                                                 *)
Compares(v, e, l, row) ==
    /\ v.act \in {"push", "pull", "delete", "none"}
    /\ v.entry.pending => v.act = "push"
    /\ v.entry.known \/ v.entry = NoEntry
    /\ v.entry.remote = row \/ (v.entry.hasRemote => e.hasRemote /\ v.entry.remote = e.remote)
    /\ v.act = "delete" => row.hash = None
    /\ v.act = "pull" => row.hash # None
    /\ row.hash # None =>
          /\ v.entry.known /\ v.entry.remote = row
          /\ \/ v.entry.pending \/ v.entry.conflict \/ v.act = "pull"
             \/ v.entry.base = row.hash /\ l = row.hash
    /\ row.hash = None =>
          v.act = "delete" \/ v.entry = NoEntry \/ (v.entry.known /\ ~v.entry.hasRemote)

(* A row newer than the path's last push is compared with its record. *)
LEMMA RowCompares ==
  ASSUME NEW e \in Entry, NEW l \in Hash, NEW row \in Row, NEW id \in Nat,
         e.known \/ e = NoEntry, NEW v,
         \/ row.hash # None /\ id > e.pushed /\ v = ReconcileRow(e, l, row, id)
         \/ row.hash = None /\ e.known /\ v = ReconcileDelete(e, l)
         \/ row.hash = None /\ ~e.known /\ v = [entry |-> e, act |-> "none"]
  PROVE  Compares(v, e, l, row)
<1>1. CASE row.hash # None /\ id > e.pushed /\ v = ReconcileRow(e, l, row, id)
  <2>1. e.pushed \in Nat
    BY DEF Entry
  <2>2. /\ v.act \in {"push", "none", "pull"}
        /\ v.entry.known /\ v.entry.hasRemote /\ v.entry.remote = row
        /\ v.entry.pending => v.act = "push"
        /\ \/ v.entry.pending \/ v.entry.conflict \/ v.act = "pull"
           \/ v.entry.base = row.hash /\ l = row.hash
    BY <1>1, <2>1, ReconcileRowOutcome
  <2> QED BY <1>1, <2>2 DEF Compares
<1>2. CASE row.hash = None /\ e.known /\ v = ReconcileDelete(e, l)
  <2>1. \/ v.entry = NoEntry /\ v.act = "none"
        \/ /\ v.entry = e /\ v.act = "delete"
           /\ e.hasRemote /\ ~e.pending /\ ~e.conflict
        \/ /\ v.entry.known = e.known /\ ~v.entry.hasRemote /\ v.entry.remote = e.remote
           /\ v.entry.pending = e.pending /\ v.act = IF e.pending THEN "push" ELSE "none"
    <3>1. v = ReconcileDelete(e, l) /\ e \in Entry /\ l \in Hash
      BY <1>2
    <3> QED BY <3>1, ReconcileDeleteOutcome
  <2>2. ~NoEntry.pending /\ ~NoEntry.hasRemote
    BY DEF NoEntry
  <2> QED BY <1>2, <2>1, <2>2 DEF Compares
<1>3. CASE row.hash = None /\ ~e.known /\ v = [entry |-> e, act |-> "none"]
  <2>1. v.entry = NoEntry /\ v.act = "none" /\ ~NoEntry.pending /\ ~NoEntry.hasRemote
    BY <1>3 DEF NoEntry
  <2> QED BY <1>3, <2>1 DEF Compares
<1> QED BY <1>1, <1>2, <1>3

(* A plan is carried out: the pushes go behind what is queued, the pulls are  *)
(* filled or asked for, the deletes stay to be decided or carried out.        *)
Carried(R, rows, h, q) ==
    /\ \A p \in Paths : entries'[p] = R[p].entry
    /\ ToSet(q) \subseteq ToSet(queue')
    /\ \A x \in ToSet(queue') : x \in ToSet(q) \/ x.kind = "push"
    /\ \A x, y : Ahead(queue', x, y) => Ahead(q, x, y) \/ y.kind = "push"
    /\ \A p \in Paths : R[p].act = "push" =>
          \E x \in ToSet(queue') : x.kind = "push" /\ p \in x.paths
    /\ \A p \in Paths : p \in held' \cup todo'.deletes <=> p \in h \/ R[p].act = "delete"
    /\ aside' \cup todo'.restores \subseteq aside
    /\ \A x \in todo'.fills : /\ x.kind = "object" /\ x.path \in Paths /\ x.row = rows[x.path]
                              /\ R[x.path].act = "pull"
    /\ ToSet(pulls) \subseteq ToSet(pulls')
    /\ \A n \in ToSet(pulls') : n \in ToSet(pulls) \/ ToSet(n.read) = {}
    /\ pulls' = pulls \/ link = "up"
    /\ \A p \in Paths : link = "up" /\ R[p].act = "pull" =>
          \/ \E x \in todo'.fills : x.kind = "object" /\ x.path = p /\ x.row = rows[p]
          \/ \E n \in ToSet(pulls') : p \in n.paths
    /\ \A p \in Paths : OnQueue(q, p) => OnQueue(queue', p)

(* Execute carries the plan out. *)
LEMMA ExecuteCarries ==
  ASSUME TypeOK, TypeOK', NEW R, NEW rows \in [Paths -> Row], NEW h, NEW q \in Seq(Job),
         Execute(R, rows, h, q)
  PROVE  Carried(R, rows, h, q)
<1> DEFINE planned(a) == {p \in Paths : R[p].act = a}
           z == [kind |-> "push", paths |-> planned("push")]
           objects(filled) == {[kind |-> "object", path |-> p, row |-> rows[p],
                                delta |-> None] : p \in filled}
           n0(filled) == [paths |-> planned("pull") \ filled,
                          base |-> [p \in Paths |-> R[p].entry.base], read |-> <<>>]
<1>1. PICK filled \in SUBSET {p \in planned("pull") : rows[p].hash \in Stored} :
         /\ PlanDeletes(planned("delete"), objects(filled), h)
         /\ pulls' = IF link = "up" /\ planned("pull") # filled THEN Append(pulls, n0(filled)) ELSE pulls
  BY DEF Execute
<1>2. \A p \in Paths : entries'[p] = R[p].entry
  BY DEF Execute
<1>3. queue' = q \/ (queue' = Append(q, z) /\ z \in Job)
  BY DEF Execute, Job, Push
<1>4. planned("push") # {} => queue' = Append(q, z) /\ z \in Job
  BY DEF Execute, Job, Push
<1>5. z.kind = "push" /\ z.paths = planned("push")
  OBVIOUS
<1> HIDE DEF z
<1>6. ASSUME queue' = Append(q, z), z \in Job
      PROVE  /\ ToSet(queue') = ToSet(q) \cup {z}
             /\ \A x, y : Ahead(queue', x, y) <=> (Ahead(q, x, y) \/ (x \in ToSet(q) /\ y = z))
             /\ \A p : OnQueue(q, p) => OnQueue(queue', p)
  BY <1>6, AppendMembers, NoteStays
<1>7. /\ held' \cup todo'.deletes = h \cup planned("delete")
      /\ aside' \cup todo'.restores \subseteq aside
      /\ todo'.fills = objects(filled)
  BY <1>1, PlanDeletesOutcome
<1>8. /\ ToSet(q) \subseteq ToSet(queue')
      /\ \A x \in ToSet(queue') : x \in ToSet(q) \/ x.kind = "push"
      /\ \A x, y : Ahead(queue', x, y) => Ahead(q, x, y) \/ y.kind = "push"
      /\ \A p \in Paths : OnQueue(q, p) => OnQueue(queue', p)
  BY <1>3, <1>5, <1>6
<1>9. \A p \in Paths : R[p].act = "push" =>
               \E x \in ToSet(queue') : x.kind = "push" /\ p \in x.paths
  BY <1>4, <1>5, <1>6
<1>10. \A x \in todo'.fills : /\ x.kind = "object" /\ x.path \in Paths /\ x.row = rows[x.path]
                              /\ R[x.path].act = "pull"
  BY <1>7
<1>11. \A p \in filled : \E x \in todo'.fills : x.kind = "object" /\ x.path = p /\ x.row = rows[p]
  <2> SUFFICES ASSUME NEW p \in filled
               PROVE  \E x \in todo'.fills : x.kind = "object" /\ x.path = p /\ x.row = rows[p]
    OBVIOUS
  <2> DEFINE x == [kind |-> "object", path |-> p, row |-> rows[p], delta |-> None]
  <2>1. x \in todo'.fills
    BY <1>7
  <2>2. x.kind = "object" /\ x.path = p /\ x.row = rows[p]
    OBVIOUS
  <2> QED BY <2>1, <2>2
<1>12. pulls \in Seq(Pull) /\ pulls' \in Seq(Pull)
  BY DEF TypeOK
<1>13. CASE link = "up" /\ planned("pull") # filled
  <2> DEFINE n == n0(filled)
  <2>1. pulls' = Append(pulls, n) /\ n.paths = planned("pull") \ filled /\ n.read = <<>>
    BY <1>1, <1>13
  <2> HIDE DEF n
  <2>2. n \in Pull
    <3>1. Len(pulls') = Len(pulls) + 1 /\ pulls'[Len(pulls) + 1] = n
      BY <1>12, <2>1
    <3> QED BY <1>12, <3>1
  <2>3. ToSet(pulls') = ToSet(pulls) \cup {n}
    BY <1>12, <2>1, <2>2, AppendMembers
  <2>4. ToSet(n.read) = {}
    BY <2>1, EmptyMembers
  <2>5. \A p \in Paths : R[p].act = "pull" => p \in filled \/ p \in n.paths
    BY <2>1
  <2> QED BY <1>2, <1>7, <1>8, <1>9, <1>10, <1>11, <1>13, <2>3, <2>4, <2>5 DEF Carried
<1>14. CASE ~(link = "up" /\ planned("pull") # filled)
  <2>1. pulls' = pulls
    BY <1>1, <1>14
  <2>2. \A p \in Paths : link = "up" /\ R[p].act = "pull" => p \in filled
    BY <1>14
  <2> QED BY <1>2, <1>7, <1>8, <1>9, <1>10, <1>11, <2>1, <2>2 DEF Carried
<1> QED BY <1>13, <1>14

(* Compared with the newest row, the path is settled, and its save pushed. *)
LEMMA ComparedSettles ==
  ASSUME NEW p \in Paths, NEW v, NEW row, Compares(v, entries[p], local[p], row),
         entries'[p] = v.entry, local'[p] = local[p],
         host'[p] = host[p], hostVer'[p] = hostVer[p],
         v.act = "pull" /\ Shows(row, host[p], hostVer[p]) => Coming(p)',
         v.act = "push" => PushComing(p)',
         v.act = "delete" => p \in held' \cup todo'.deletes
  PROVE  /\ Shows(row, host[p], hostVer[p]) => Settled(p)'
         /\ entries'[p].pending => PushComing(p)'
<1>1. entries'[p].pending => PushComing(p)'
  BY DEF Compares
<1>2. ASSUME Shows(row, host[p], hostVer[p]) PROVE Settled(p)'
  <2>1. row.hash = host[p] /\ (v.act = "pull" => Coming(p)')
    BY <1>2 DEF Shows
  <2>2. CASE row.hash # None
    <3>1. /\ entries'[p].known /\ entries'[p].remote = row
          /\ \/ entries'[p].pending \/ entries'[p].conflict \/ v.act = "pull"
             \/ entries'[p].base = row.hash /\ local[p] = row.hash
      BY <2>2 DEF Compares
    <3> QED BY <1>2, <2>1, <3>1 DEF Settled
  <2>3. CASE row.hash = None
    <3>1. v.act = "delete" \/ entries'[p] = NoEntry \/ (entries'[p].known /\ ~entries'[p].hasRemote)
      BY <2>3 DEF Compares
    <3>2. ~NoEntry.known
      BY DEF NoEntry
    <3> QED BY <2>1, <2>3, <3>1, <3>2 DEF Settled
  <2> QED BY <2>2, <2>3
<1> QED BY <1>1, <1>2

(* A reconcile records rows the host has had, and nothing newer. *)
LEMMA ReconcileDates ==
  ASSUME TypeOK, TypeOK', Versions, Marks, NEW R, NEW rows \in [Paths -> Row], NEW h,
         NEW q \in Seq(Job), Carried(R, rows, h, q), ToSet(q) \subseteq ToSet(queue),
         call'.job = "none", UNCHANGED <<wire, sent, host, hostVer>>,
         \A p \in Paths : seen'[p] = seen[p] \/ seen'[p] <= hostVer[p],
         \A p \in Paths :
            \/ R[p].entry = entries[p] /\ R[p].act # "pull"
            \/ Compares(R[p], entries[p], local[p], rows[p]) /\ Dated(rows[p], host[p], hostVer[p])
  PROVE  Versions' /\ Marks'
<1>1. /\ \A p \in Paths : entries'[p] = R[p].entry
      /\ \A x \in ToSet(queue') : x \in ToSet(q) \/ x.kind = "push"
      /\ aside' \cup todo'.restores \subseteq aside
      /\ \A x \in todo'.fills : /\ x.kind = "object" /\ x.path \in Paths /\ x.row = rows[x.path]
                                /\ R[x.path].act = "pull"
      /\ \A n \in ToSet(pulls') : n \in ToSet(pulls) \/ ToSet(n.read) = {}
  BY DEF Carried
<1>2. ~Answering' /\ ~Awaited'
  BY DEF Answering, Awaited
<1>3. \A x \in ToSet(queue') \cup ToSet(wire') \cup todo'.fills :
          x \in Transit \/ FrameDated(x, host', hostVer')
  BY <1>1 DEF Transit, FrameDated
<1>4. \A n \in ToSet(pulls') : \A x \in ToSet(n.read) :
          x \in Transit \/ FrameDated(x, host', hostVer')
  BY <1>1 DEF Transit
<1>5. ASSUME NEW p \in Paths
      PROVE  /\ \/ RecordDated(entries'[p], host'[p], hostVer'[p])
                \/ entries'[p].remote = entries[p].remote /\ (entries'[p].hasRemote => entries[p].hasRemote)
             /\ entries'[p].known \/ entries'[p] = NoEntry \/ entries'[p] = entries[p]
  <2>1. CASE R[p].entry = entries[p]
    BY <1>1, <2>1
  <2>2. CASE Compares(R[p], entries[p], local[p], rows[p]) /\ Dated(rows[p], host[p], hostVer[p])
    <3>1. RecordDated(entries[p], host[p], hostVer[p])
      BY DEF Versions
    <3> QED BY <1>1, <2>2, <3>1 DEF Compares, RecordDated
  <2> QED BY <2>1, <2>2
<1>6. Aged
  BY SameAged
<1>7. Versions'
  BY <1>1, <1>2, <1>3, <1>4, <1>5, <1>6, VersionsStep
<1>8. Marks'
  BY <1>1, <1>5, MarksStep
<1> QED BY <1>7, <1>8

(* One path of a watch delta d, v being what its row made of the record.  The *)
(* newest row settles the path, or is skipped and the path given up; an older *)
(* one leaves the news of the newest where it was.                            *)
LEMMA DeltaFollowed ==
  ASSUME TypeOK, TypeOK', NEW p \in Paths, NEW d \in WatchDelta, p \in d.changed, d \in Pipe,
         Heard(p), Followed(p), seen[p] <= hostVer[p],
         Dated(d.rows[p], host[p], hostVer[p]),
         \A f \in Pipe' : p \in f.changed => /\ d.rows[p].ver <= f.rows[p].ver
                                            /\ Dated(f.rows[p], host[p], hostVer[p])
                                            /\ f.rows[p].ver \in Nat,
         Pipe' \subseteq Pipe, \A f \in Pipe : f \in Pipe' \/ f = d,
         UNCHANGED <<local, host, hostVer, touched, sent>>,
         NEW v, entries'[p] = v.entry,
         \/ v.act = "skip" /\ v.entry = entries[p] /\ entries[p].known
         \/ Compares(v, entries[p], local[p], d.rows[p]),
         Coming(p) => Coming(p)', PushComing(p) => PushComing(p)',
         v.act = "skip" => (Excused(p) => Excused(p)'),
         v.act = "pull" /\ Shows(d.rows[p], host[p], hostVer[p]) => Coming(p)',
         v.act = "push" => PushComing(p)',
         todo.deletes = {},
         p \in held' \cup todo'.deletes <=> (p \in held /\ d.rows[p].hash = None) \/ v.act = "delete",
         seen'[p] = IF /\ d.rows[p].hash # None /\ v.act # "skip"
                       /\ local[p] = d.rows[p].hash /\ d.rows[p].ver > seen[p]
                    THEN d.rows[p].ver ELSE seen[p],
         p \in stale' <=> \/ p \in stale /\ ~(v.act # "skip" /\ d.rows[p].ver = hostVer[p])
                          \/ v.act = "skip" /\ d.rows[p].ver > seen[p]
                          \/ d.rows[p].ver < seen[p] /\ (v.act = "skip" => p \in held)
  PROVE  Heard(p)' /\ Followed(p)'
<1> DEFINE row == d.rows[p]
<1>1. row \in Row /\ row.ver \in Nat /\ seen[p] \in Nat /\ hostVer[p] \in Nat /\ row.ver <= hostVer[p]
      /\ (row.ver = hostVer[p] => row.hash = host[p])
  BY DEF TypeOK, WatchDelta, Row, Dated
<1>2. /\ v.act # "skip" => Compares(v, entries[p], local[p], row)
      /\ v.act = "skip" => ~(v.act = "delete") /\ entries'[p] = entries[p] /\ entries[p].known
  BY DEF Compares
<1> HIDE DEF row
<1>3. v.act = "delete" => p \in held' \cup todo'.deletes
  OBVIOUS
<1>4. v.act # "skip" => /\ Shows(row, host[p], hostVer[p]) => Settled(p)'
                        /\ entries'[p].pending => PushComing(p)'
  BY <1>2, <1>3, ComparedSettles DEF row
<1>5. entries'[p].known /\ entries'[p].pending /\ ~entries'[p].conflict => PushComing(p)'
  BY <1>2, <1>4 DEF Followed
<1>6. Word(p)' => Settled(p)' \/ News(p)'
  BY DEF Word, Settled
<1>7. CASE p \in stale'
  BY <1>5, <1>7, PathStale
<1>8. CASE p \notin stale' /\ row.ver = hostVer[p] /\ v.act # "skip"
  <2>1. Shows(row, host[p], hostVer[p]) /\ Settled(p)'
    BY <1>1, <1>4, <1>8 DEF Shows
  <2>2. p \in held' \cup todo'.deletes => host'[p] = None
    BY <1>1, <1>2, <1>8 DEF Compares, row
  <2>3. ASSUME NEW f \in Pipe', p \in f.changed PROVE Shows(f.rows[p], host'[p], hostVer'[p])
    <3>1. row.ver <= f.rows[p].ver /\ Dated(f.rows[p], host[p], hostVer[p]) /\ f.rows[p].ver \in Nat
      BY <2>3 DEF row
    <3> QED BY <1>1, <1>8, <3>1 DEF Shows, Dated
  <2>4. Heard(p)'
    BY <2>3 DEF Heard, Listed, Word, News
  <2> QED BY <1>5, <2>1, <2>2, <2>4 DEF Followed
<1>9. CASE p \notin stale' /\ row.ver = hostVer[p] /\ v.act = "skip"
  <2>1. seen[p] = hostVer[p] /\ seen'[p] = seen[p] /\ p \notin stale
    BY <1>1, <1>9 DEF row
  <2>2. Settled(p)
    BY <1>2, <1>9, <2>1 DEF Followed
  <2>3. p \in held' \cup todo'.deletes => host'[p] = None
    BY <1>1, <1>9 DEF row
  <2>4. p \in held /\ host[p] = None => p \in held' \cup todo'.deletes
    BY <1>1, <1>9 DEF row
  <2>5. Settled(p)'
    BY <1>2, <1>9, <2>1, <2>2, <2>4 DEF Settled
  <2>6. Heard(p)'
    BY <2>1 DEF Heard
  <2> QED BY <1>5, <2>1, <2>3, <2>5, <2>6 DEF Followed
<1>10. CASE p \notin stale' /\ row.ver # hostVer[p]
  <2>1. News(p) => News(p)'
    <3>1. ~Shows(row, host[p], hostVer[p])
      BY <1>10 DEF Shows
    <3> QED BY <3>1 DEF News, row
  <2>2. p \in stale => p \in stale'
    BY <1>10 DEF row
  <2>3. Word(p) => Word(p)'
    BY <2>1, <2>2 DEF Word
  <2>4. CASE row.ver >= seen[p]
    <3>1. seen[p] # hostVer[p] /\ seen'[p] # hostVer'[p]
      BY <1>1, <1>10, <2>4 DEF row
    <3>2. Listed(p)
      BY DEF Listed
    <3>3. Word(p)'
      BY <2>3, <3>1, <3>2 DEF Heard
    <3> QED BY <1>5, <1>6, <3>1, <3>3 DEF Heard, Followed
  <2>5. CASE row.ver < seen[p]
    <3>1. v.act = "skip" /\ p \notin held
      BY <1>10, <2>5 DEF row
    <3>2. /\ p \in held' \cup todo'.deletes <=> p \in held \cup todo.deletes
          /\ seen'[p] = seen[p] /\ entries'[p] = entries[p]
      BY <1>2, <3>1
    <3>3. Listed(p)' => Listed(p)
      BY DEF Listed
    <3>4. News(p) => Word(p)'
      BY <2>1 DEF Word
    <3> QED BY <2>2, <3>1, <3>2, <3>3, <3>4, PathKept
  <2> QED BY <1>1, <2>4, <2>5
<1> QED BY <1>7, <1>8, <1>9, <1>10

(* ApplyWatchDelta. *)
LEMMA DeltaTracked ==
  ASSUME TypeOK, TypeOK', Tracked, ApplyWatchDelta
  PROVE  Tracked'
<1> DEFINE d == Head(queue)
           t == Tail(queue)
           listed == {p \in d.changed : d.rows[p].hash # None}
           R == [p \in Paths |->
                   IF p \in listed THEN ReconcileRow(entries[p], local[p], d.rows[p], d.id)
                   ELSE IF p \in d.changed /\ entries[p].known
                        THEN IF d.id > entries[p].pushed
                             THEN ReconcileDelete(entries[p], local[p])
                             ELSE [entry |-> entries[p], act |-> "skip"]
                   ELSE [entry |-> entries[p], act |-> "none"]]
           skipped == {p \in d.changed : R[p].act = "skip"}
<1>1. /\ UNCHANGED <<local, saving, call, link, wire, primed, nextId, sent, host, hostVer, touched, synced>>
      /\ Idle /\ queue # <<>> /\ d.kind = "delta"
  BY DEF ApplyWatchDelta, NextJob, hostVars, serverVars
<1>2. queue \in Seq(Job) /\ d \in Job /\ t \in Seq(Job) /\ manifestId \in Nat
  BY <1>1, HeadType DEF TypeOK
<1>3. d \in WatchDelta
  BY <1>1, <1>2 DEF Job, Note, Push, Approve, Sync, Object
<1>4. /\ ToSet(queue) = {d} \cup ToSet(t)
      /\ \A x, y : Ahead(queue, x, y) <=> (Ahead(t, x, y) \/ (x = d /\ y \in ToSet(t)))
      /\ \A p \in Paths : OnQueue(queue, p) => OnQueue(t, p)
  BY <1>1, <1>2, TailMembers, NoteStays
<1>5. CASE d.id < manifestId
  <2>1. queue' = t /\ UNCHANGED <<entries, todo, held, aside, pulls, manifestId, seen>>
    BY <1>5 DEF ApplyWatchDelta
  <2> HIDE DEF d, t, listed, R, skipped
  <2>2. d.id \in Nat /\ d \in Pipe
    BY <1>1, <1>3, <1>4 DEF WatchDelta, Pipe
  <2>3. Slims(queue, queue', {d}) /\ \A x \in {d} : x.kind # "sync"
    BY <1>1, <1>4, <2>1 DEF Slims
  <2>4. Lines' /\ (Subscribed' => Subscribed)
    BY <1>1, <2>1, <2>3, LinesStep DEF Tracked
  <2>5. call.job = "none" /\ ~Answering' /\ ~Awaited'
    BY <1>1 DEF Idle, Answering, Awaited
  <2>6. ~Subscribed
    BY <1>2, <1>5, <2>2, <2>5 DEF Tracked, Rising, Line
  <2>7. Versions'
    <3>1. Versions /\ Aged
      BY <1>1, SameAged DEF Tracked
    <3>2. \A x \in ToSet(queue') \cup ToSet(wire') \cup todo'.fills :
              x \in Transit \/ FrameDated(x, host', hostVer')
      BY <1>1, <1>4, <2>1 DEF Transit
    <3>3. \A n \in ToSet(pulls') : \A x \in ToSet(n.read) :
              x \in Transit \/ FrameDated(x, host', hostVer')
      BY <2>1 DEF Transit
    <3> QED BY <1>1, <2>1, <2>5, <3>1, <3>2, <3>3, VersionsStep
  <2>8. Marks'
    BY <1>1, <2>1, MarksStep DEF Tracked
  <2> QED BY <2>4, <2>6, <2>7, <2>8, Unsubscribed
<1>6. CASE ~(d.id < manifestId)
  <2>1. /\ Execute(R, d.rows, held \ listed, t)
        /\ manifestId' = d.id
        /\ unannounced' = unannounced \ Compared(listed, R)
        /\ seen' = SeenInRows(listed \ skipped, d.rows)
        /\ stale' = {p \in stale : ~(p \in d.changed \ skipped /\ d.rows[p].ver = hostVer[p])}
                      \cup {p \in skipped : d.rows[p].ver > seen[p]}
                      \cup {p \in d.changed : d.rows[p].ver < seen[p] /\ (p \in skipped => p \in held)}
    BY <1>6 DEF ApplyWatchDelta
  <2>2. \A p \in Paths : /\ p \in unannounced => p \in unannounced' \/ (p \in listed /\ R[p].act # "skip")
                         /\ p \notin d.changed => p \notin listed
                         /\ p \in d.changed => (p \in listed <=> d.rows[p].hash # None)
                         /\ p \in skipped <=> p \in d.changed /\ R[p].act = "skip"
    BY <2>1 DEF Compared
  <2>3. d.id \in Nat /\ d.changed \subseteq Paths /\ d.rows \in [Paths -> Row]
    <3> HIDE DEF d
    <3> QED BY <1>3 DEF WatchDelta
  <2>4. \A p \in Paths : entries[p] \in Entry /\ local[p] \in Hash /\ entries[p].pushed \in Nat
                         /\ (entries[p].known \/ entries[p] = NoEntry)
    BY DEF TypeOK, Entry, Tracked, Marks
  <2>5. ASSUME NEW p \in Paths, p \notin d.changed
        PROVE  R[p].entry = entries[p] /\ R[p].act = "none"
    BY <2>2, <2>5
  <2>6. ASSUME NEW p \in Paths, p \in d.changed
        PROVE  \/ R[p].act = "skip" /\ R[p].entry = entries[p] /\ d.id <= entries[p].pushed
               \/ Compares(R[p], entries[p], local[p], d.rows[p])
    <3> DEFINE v == R[p]
    <3>1. d.rows[p] \in Row /\ entries[p] \in Entry /\ local[p] \in Hash /\ entries[p].pushed \in Nat
      BY <2>3, <2>4
    <3>2. /\ d.rows[p].hash # None => v = ReconcileRow(entries[p], local[p], d.rows[p], d.id)
          /\ d.rows[p].hash = None =>
               v = IF entries[p].known
                   THEN IF d.id > entries[p].pushed
                        THEN ReconcileDelete(entries[p], local[p])
                        ELSE [entry |-> entries[p], act |-> "skip"]
                   ELSE [entry |-> entries[p], act |-> "none"]
      BY <2>2, <2>6
    <3> HIDE DEF d, t, listed, R, skipped, v
    <3>3. CASE d.rows[p].hash # None /\ d.id <= entries[p].pushed
      <4>1. v.entry = entries[p] /\ v.act = "skip"
        BY <2>3, <3>1, <3>2, <3>3, ReconcileRowOutcome
      <4> QED BY <3>3, <4>1 DEF v
    <3>4. CASE d.rows[p].hash # None /\ ~(d.id <= entries[p].pushed)
      <4>1. d.id > entries[p].pushed
        BY <2>3, <3>1, <3>4
      <4> QED BY <2>3, <2>4, <3>1, <3>2, <3>4, <4>1, RowCompares DEF v
    <3>5. CASE d.rows[p].hash = None /\ entries[p].known /\ ~(d.id > entries[p].pushed)
      <4>1. v = [entry |-> entries[p], act |-> "skip"] /\ d.id <= entries[p].pushed
        BY <2>3, <3>1, <3>2, <3>5
      <4> QED BY <4>1 DEF v
    <3>6. CASE d.rows[p].hash = None /\ ~(entries[p].known /\ ~(d.id > entries[p].pushed))
      <4>1. \/ entries[p].known /\ v = ReconcileDelete(entries[p], local[p])
            \/ ~entries[p].known /\ v = [entry |-> entries[p], act |-> "none"]
        BY <3>2, <3>6
      <4> QED BY <2>3, <2>4, <3>1, <3>6, <4>1, RowCompares DEF v
    <3> QED BY <3>3, <3>4, <3>5, <3>6
  <2> HIDE DEF d, t, listed, R, skipped
  <2>7. Carried(R, d.rows, held \ listed, t)
    BY <1>2, <2>1, <2>3, ExecuteCarries
  <2>8. /\ \A p \in Paths : entries'[p] = R[p].entry
        /\ ToSet(t) \subseteq ToSet(queue')
        /\ \A x \in ToSet(queue') : x \in ToSet(t) \/ x.kind = "push"
        /\ \A x, y : Ahead(queue', x, y) => Ahead(t, x, y) \/ y.kind = "push"
        /\ \A p \in Paths : R[p].act = "push" =>
              \E x \in ToSet(queue') : x.kind = "push" /\ p \in x.paths
        /\ \A p \in Paths : p \in held' \cup todo'.deletes <=> p \in held \ listed \/ R[p].act = "delete"
        /\ ToSet(pulls) \subseteq ToSet(pulls') /\ (pulls' = pulls \/ link = "up")
        /\ \A p \in Paths : link = "up" /\ R[p].act = "pull" =>
              \/ \E x \in todo'.fills : x.kind = "object" /\ x.path = p /\ x.row = d.rows[p]
              \/ \E n \in ToSet(pulls') : p \in n.paths
        /\ \A p \in Paths : OnQueue(t, p) => OnQueue(queue', p)
    BY <2>7 DEF Carried
  <2>9. /\ call.job = "none" /\ ~Answering' /\ ~Awaited'
        /\ todo.deletes = {} /\ todo.restores = {} /\ todo.fills = {}
        /\ (Subscribed <=> Connected)
    BY <1>1 DEF Idle, Answering, Awaited, Subscribed, Connected
  <2>10. d \in Pipe /\ d \in Transit
    BY <1>1, <1>4 DEF Pipe, Transit
  <2>11. \A p \in d.changed : Dated(d.rows[p], host[p], hostVer[p])
    BY <1>1, <2>10 DEF Tracked, Versions, FrameDated
  <2>12. \A p \in Paths : /\ seen[p] \in Nat /\ hostVer[p] \in Nat /\ seen[p] <= hostVer[p]
                          /\ seen'[p] = IF /\ p \in listed /\ R[p].act # "skip"
                                           /\ local[p] = d.rows[p].hash /\ d.rows[p].ver > seen[p]
                                        THEN d.rows[p].ver ELSE seen[p]
    BY <2>1, <2>2 DEF TypeOK, Tracked, Versions, SeenInRows
  <2>13. \A p \in Paths : seen'[p] = seen[p] \/ seen'[p] <= hostVer[p]
    BY <2>2, <2>11, <2>12 DEF Dated
  <2>14. Versions' /\ Marks'
    <3>1. ToSet(t) \subseteq ToSet(queue)
      BY <1>4
    <3>2. \A p \in Paths :
            \/ R[p].entry = entries[p] /\ R[p].act # "pull"
            \/ Compares(R[p], entries[p], local[p], d.rows[p]) /\ Dated(d.rows[p], host[p], hostVer[p])
      BY <2>5, <2>6, <2>11
    <3>3. call'.job = "none" /\ Versions /\ Marks
      BY <1>1, <2>9 DEF Tracked
    <3> QED BY <1>1, <1>2, <2>3, <2>7, <2>13, <3>1, <3>2, <3>3, ReconcileDates
  <2>15. Slims(queue, queue', {d}) /\ \A x \in {d} : x.kind # "sync"
    BY <1>1, <1>4, <2>8 DEF Slims, Unordered
  <2>16. ASSUME Subscribed', NEW f \in Pipe'
         PROVE  Older(d, f) /\ f \in Pipe
    <3>1. Subscribed
      <4>1. SyncQueued => SyncQueued'
        BY <1>1, <1>4, <2>8 DEF SyncQueued
      <4> QED BY <1>1, <2>9, <2>16, <4>1 DEF Subscribed
    <3>2. Precedes(d, f) /\ f.kind = "delta" /\ f \in Pipe
      BY <1>1, <1>4, <2>8, <2>16 DEF Pipe, Precedes
    <3> QED BY <1>1, <3>1, <3>2 DEF Tracked, Rising
  <2>17. Subscribed' => Line' < nextId' /\ \A f \in Pipe' : Line' < f.id
    <3> SUFFICES ASSUME Subscribed' PROVE Line' < nextId' /\ \A f \in Pipe' : Line' < f.id
      OBVIOUS
    <3>1. Line' = d.id
      BY <1>1, <2>1, <2>9 DEF Line
    <3>2. Subscribed
      <4>1. SyncQueued => SyncQueued'
        BY <1>1, <1>4, <2>8 DEF SyncQueued
      <4> QED BY <1>1, <2>9, <4>1 DEF Subscribed
    <3>3. d.id < nextId
      BY <2>10, <3>2 DEF Tracked, Rising
    <3> QED BY <1>1, <2>16, <3>1, <3>3 DEF Older
  <2>18. /\ Lines' /\ Rising' /\ (Subscribed' => Subscribed) /\ (Connected' => Connected)
         /\ Pipe' \subseteq Pipe /\ \A f \in Pipe : f \in Pipe' \/ f \in {d}
    <3>1. Lines /\ Rising
      BY DEF Tracked
    <3> QED BY <1>1, <2>8, <2>15, <2>17, <3>1, LinesStep
  <2>19. ASSUME Connected, Subscribed', NEW p \in Paths PROVE Heard(p)' /\ Followed(p)'
    <3>1. Heard(p) /\ Followed(p)
      BY <2>9, <2>19 DEF Tracked, Converging
    <3>2. Coming(p) => Coming(p)'
      <4>1. \A x \in Transit : x.kind = "object" => x \in Transit'
        BY <1>1, <1>4, <2>8, <2>9 DEF Transit
      <4> QED BY <1>1, <2>8, <4>1 DEF Coming
    <3>3. PushComing(p) => PushComing(p)'
      BY <1>1, <1>4, <2>8 DEF PushComing
    <3>4. ~(p \in listed /\ R[p].act # "skip") => (Excused(p) => Excused(p)')
      BY <1>1, <1>4, <2>2, <2>8, ExcuseStays
    <3>5. CASE p \notin d.changed
      <4>1. R[p].entry = entries[p] /\ R[p].act = "none" /\ p \notin listed
        BY <2>2, <2>5, <3>5
      <4>2. /\ entries'[p] = entries[p] /\ seen'[p] = seen[p] /\ (p \in stale => p \in stale')
            /\ p \in held' \cup todo'.deletes <=> p \in held \cup todo.deletes
        BY <2>1, <2>8, <2>9, <2>12, <3>5, <4>1
      <4>3. News(p) => Word(p)'
        BY <1>1, <2>18, <3>5 DEF News, Word
      <4>4. Listed(p)' => Listed(p)
        BY <2>18 DEF Listed
      <4> QED BY <1>1, <3>1, <3>2, <3>3, <3>4, <4>1, <4>2, <4>3, <4>4, PathKept
    <3>6. CASE p \in d.changed
      <4> DEFINE v == R[p]
      <4>1. /\ \/ v.act = "skip" /\ v.entry = entries[p] /\ entries[p].known
               \/ Compares(v, entries[p], local[p], d.rows[p])
        <5>1. d.id > 0
          <6>1. Line < d.id /\ Line = manifestId
            BY <2>9, <2>10, <2>19 DEF Tracked, Rising, Line
          <6> QED BY <1>2, <2>3, <6>1
        <5>2. d.id <= entries[p].pushed => entries[p].known
          BY <2>3, <2>4, <5>1 DEF NoEntry
        <5> QED BY <2>6, <3>6, <5>2
      <4>2. link = "up"
        BY <2>19 DEF Connected
      <4>3. v.act = "pull" /\ Shows(d.rows[p], host[p], hostVer[p]) => Coming(p)'
        BY <1>1, <2>8, <4>2 DEF Coming, Transit
      <4>4. v.act = "push" => PushComing(p)'
        BY <2>8 DEF PushComing
      <4>5. p \in held' \cup todo'.deletes <=> (p \in held /\ d.rows[p].hash = None) \/ v.act = "delete"
        BY <2>2, <2>8, <3>6
      <4>6. seen'[p] = IF /\ d.rows[p].hash # None /\ v.act # "skip"
                          /\ local[p] = d.rows[p].hash /\ d.rows[p].ver > seen[p]
                       THEN d.rows[p].ver ELSE seen[p]
        BY <2>2, <2>12, <3>6
      <4>7. p \in stale' <=> \/ p \in stale /\ ~(v.act # "skip" /\ d.rows[p].ver = hostVer[p])
                             \/ v.act = "skip" /\ d.rows[p].ver > seen[p]
                             \/ d.rows[p].ver < seen[p] /\ (v.act = "skip" => p \in held)
        <5>1. (p \in skipped <=> v.act = "skip") /\ p \in d.changed
          BY <2>2, <3>6
        <5> HIDE DEF v
        <5> DEFINE S1 == {x \in stale : ~(x \in d.changed \ skipped /\ d.rows[x].ver = hostVer[x])}
                   S2 == {x \in skipped : d.rows[x].ver > seen[x]}
                   S3 == {x \in d.changed : d.rows[x].ver < seen[x] /\ (x \in skipped => x \in held)}
        <5>2. p \in S1 <=> p \in stale /\ ~(v.act # "skip" /\ d.rows[p].ver = hostVer[p])
          BY <5>1
        <5>3. p \in S2 <=> v.act = "skip" /\ d.rows[p].ver > seen[p]
          BY <5>1
        <5>4. p \in S3 <=> d.rows[p].ver < seen[p] /\ (v.act = "skip" => p \in held)
          BY <5>1
        <5>5. stale' = S1 \cup S2 \cup S3
          BY <2>1
        <5> HIDE DEF S1, S2, S3
        <5> QED BY <5>2, <5>3, <5>4, <5>5
      <4>8. ASSUME NEW f \in Pipe', p \in f.changed
            PROVE  /\ d.rows[p].ver <= f.rows[p].ver
                   /\ Dated(f.rows[p], host[p], hostVer[p]) /\ f.rows[p].ver \in Nat
        <5>1. Older(d, f) /\ f \in Pipe
          BY <2>16, <2>19, <4>8
        <5>2. f \in Transit /\ f.kind = "delta"
          BY <5>1 DEF Pipe, Transit
        <5>3. Dated(f.rows[p], host[p], hostVer[p])
          BY <4>8, <5>2 DEF Tracked, Versions, FrameDated
        <5>4. f \in WatchDelta
          BY <5>2, TransitType DEF Job, Note, Push, Approve, Sync, Object, Manifest
        <5>5. f.rows[p].ver \in Nat
          BY <5>4 DEF WatchDelta, Row
        <5> QED BY <3>6, <4>8, <5>1, <5>3, <5>5 DEF Older
      <4>9. entries'[p] = v.entry /\ \A f \in Pipe : f \in Pipe' \/ f = d
        BY <2>8, <2>18
      <4>10. seen[p] <= hostVer[p] /\ Dated(d.rows[p], host[p], hostVer[p])
        BY <2>11, <2>12, <3>6
      <4>11. v.act = "skip" => (Excused(p) => Excused(p)')
        BY <3>4
      <4> HIDE DEF v
      <4> QED BY <1>1, <1>3, <2>9, <2>10, <2>18, <3>1, <3>2, <3>3, <3>6, <4>1, <4>3, <4>4, <4>5, <4>6,
                 <4>7, <4>8, <4>9, <4>10, <4>11, DeltaFollowed
    <3> QED BY <3>5, <3>6
  <2>20. Converging'
    <3>1. Subscribed' => Connected
      BY <2>9, <2>18
    <3>2. Connected' => Subscribed'
      BY DEF Subscribed, Connected
    <3> QED BY <2>9, <2>19, <3>1, <3>2 DEF Converging
  <2> QED BY <2>14, <2>18, <2>20 DEF Tracked
<1> QED BY <1>5, <1>6

(* SyncNow with its manifest: every path is compared. *)
LEMMA SyncAnsweredTracked ==
  ASSUME TypeOK, TypeOK', Tracked, SyncAnswered
  PROVE  Tracked'
<1> DEFINE rows == call.rows
           listed == {p \in Paths : call.rows[p].hash # None}
           fresh(p) == [entries[p] EXCEPT !.pushed = 0]
           R == [p \in Paths |->
                   IF p \in listed
                   THEN ReconcileRow(fresh(p), local[p], call.rows[p], call.manifest)
                   ELSE IF entries[p].known THEN ReconcileDelete(fresh(p), local[p])
                   ELSE [entry |-> entries[p], act |-> "none"]]
<1>1. /\ UNCHANGED <<local, saving, link, wire, primed, nextId, sent, host, hostVer, touched>>
      /\ call.job = "sync" /\ call.st = "answered" /\ call' = NoCall
      /\ manifestId' = call.manifest /\ synced' = TRUE
      /\ stale' = {p \in stale : rows[p].ver < hostVer[p]}
      /\ seen' = SeenInRows(listed, rows)
      /\ Execute(R, rows, {}, queue)
  BY DEF SyncAnswered, hostVars, serverVars
<1>2. queue \in Seq(Job) /\ rows \in [Paths -> Row] /\ call.manifest \in Nat
  BY DEF TypeOK, WellFormed, Call
<1>3. /\ Awaited /\ call'.job = "none" /\ ~Awaited' /\ ~Answering'
      /\ call.manifest > 0
      /\ \A p \in Paths : Dated(rows[p], host[p], hostVer[p]) /\ seen[p] <= rows[p].ver
  <2>1. Awaited
    BY <1>1 DEF Awaited
  <2>2. call'.job = "none"
    BY <1>1 DEF NoCall
  <2> QED BY <2>1, <2>2 DEF Tracked, Lines, Versions, Awaited, Answering
<1>4. ASSUME NEW p \in Paths PROVE Compares(R[p], entries[p], local[p], rows[p])
  <2> DEFINE v == R[p]
             e == fresh(p)
  <2>1. /\ entries[p] \in Entry /\ local[p] \in Hash /\ rows[p] \in Row
        /\ entries[p].known \/ entries[p] = NoEntry
    BY <1>2 DEF TypeOK, Tracked, Marks
  <2>2. /\ e \in Entry /\ e.pushed = 0 /\ e.known = entries[p].known
        /\ e.hasRemote = entries[p].hasRemote /\ e.remote = entries[p].remote
    BY <2>1 DEF Entry
  <2>3. e.known \/ e = NoEntry
    <3>1. CASE entries[p].known
      BY <2>2, <3>1
    <3>2. CASE entries[p] = NoEntry
      <4>1. entries[p].pushed = 0
        BY <3>2 DEF NoEntry
      <4>2. e = entries[p]
        BY <2>1, <4>1 DEF Entry
      <4> QED BY <3>2, <4>2
    <3> QED BY <2>1, <3>1, <3>2
  <2>4. \/ rows[p].hash # None /\ v = ReconcileRow(e, local[p], rows[p], call.manifest)
        \/ rows[p].hash = None /\ entries[p].known /\ v = ReconcileDelete(e, local[p])
        \/ rows[p].hash = None /\ ~entries[p].known /\ v = [entry |-> entries[p], act |-> "none"]
    OBVIOUS
  <2> HIDE DEF v, e, R, rows
  <2>5. CASE rows[p].hash = None /\ ~entries[p].known /\ v = [entry |-> entries[p], act |-> "none"]
    <3>1. Compares(v, entries[p], local[p], rows[p])
      BY <1>2, <2>1, <2>5, RowCompares
    <3> QED BY <3>1 DEF v
  <2>6. CASE ~(rows[p].hash = None /\ ~entries[p].known /\ v = [entry |-> entries[p], act |-> "none"])
    <3>1. \/ rows[p].hash # None /\ call.manifest > e.pushed
             /\ v = ReconcileRow(e, local[p], rows[p], call.manifest)
          \/ rows[p].hash = None /\ e.known /\ v = ReconcileDelete(e, local[p])
      BY <1>3, <2>2, <2>4, <2>6
    <3>2. Compares(v, e, local[p], rows[p])
      BY <1>2, <2>1, <2>2, <2>3, <3>1, RowCompares
    <3> QED BY <2>2, <3>2 DEF Compares, v
  <2> QED BY <2>5, <2>6
<1> HIDE DEF R, rows, listed
<1>5. Carried(R, rows, {}, queue)
  BY <1>1, <1>2, ExecuteCarries
<1>6. /\ \A p \in Paths : entries'[p] = R[p].entry
      /\ ToSet(queue) \subseteq ToSet(queue')
      /\ \A x \in ToSet(queue') : x \in ToSet(queue) \/ x.kind = "push"
      /\ \A x, y : Ahead(queue', x, y) => Ahead(queue, x, y) \/ y.kind = "push"
      /\ \A p \in Paths : R[p].act = "push" =>
            \E x \in ToSet(queue') : x.kind = "push" /\ p \in x.paths
      /\ \A p \in Paths : p \in held' \cup todo'.deletes <=> R[p].act = "delete"
      /\ (pulls' = pulls \/ link = "up")
      /\ \A p \in Paths : link = "up" /\ R[p].act = "pull" =>
            \/ \E x \in todo'.fills : x.kind = "object" /\ x.path = p /\ x.row = rows[p]
            \/ \E n \in ToSet(pulls') : p \in n.paths
  BY <1>5 DEF Carried
<1>7. \A p \in Paths : /\ seen[p] \in Nat /\ hostVer[p] \in Nat /\ rows[p].ver \in Nat
                       /\ rows[p].ver <= hostVer[p] /\ seen[p] <= rows[p].ver
                       /\ seen'[p] = seen[p] \/ seen'[p] = rows[p].ver
  <2>1. \A p \in Paths : seen'[p] = seen[p] \/ seen'[p] = rows[p].ver
    BY <1>1 DEF SeenInRows
  <2>2. \A p \in Paths : rows[p].ver \in Nat
    BY <1>2 DEF Row
  <2> QED BY <1>3, <2>1, <2>2 DEF TypeOK, Dated
<1>8. Versions' /\ Marks'
  <2>1. Versions /\ Marks /\ ToSet(queue) \subseteq ToSet(queue)
    BY DEF Tracked
  <2>2. \A p \in Paths : seen'[p] = seen[p] \/ seen'[p] <= hostVer[p]
    BY <1>7
  <2> QED BY <1>1, <1>2, <1>3, <1>4, <1>5, <2>1, <2>2, ReconcileDates
<1>9. Pipe' = Pipe /\ (SyncQueued' <=> SyncQueued)
  BY <1>1, <1>6 DEF Pipe, SyncQueued
<1>10. Lines'
  <2>0. Lines
    BY DEF Tracked
  <2>1. link' = "down" => wire' = <<>> /\ pulls' = <<>> /\ ~primed' /\ call'.job = "none"
    BY <1>1, <1>3, <1>6, <2>0 DEF Lines
  <2>2. \A x, y : Ahead(queue', x, y) /\ x.kind = "sync" => y.kind \notin {"sync", "delta"}
    BY <1>6, <2>0 DEF Lines
  <2>3. \A x, y : Ahead(wire', x, y) => x.kind # "manifest" \/ y.kind # "manifest"
    BY <1>1, <2>0 DEF Lines
  <2>4. \A x \in ToSet(wire') : x.kind # "manifest"
    BY <1>1, <2>0 DEF Lines
  <2>5. SyncQueued' => ~primed' /\ \A x \in ToSet(wire') : x.kind # "delta"
    BY <1>1, <1>9, <2>0 DEF Lines
  <2> QED BY <1>3, <2>1, <2>2, <2>3, <2>4, <2>5 DEF Lines
<1>11. Subscribed' => Subscribed /\ link = "up"
  BY <1>1, <1>3, <1>9 DEF Subscribed
<1>12. Rising'
  <2> SUFFICES ASSUME Subscribed' PROVE Rising'
    BY DEF Rising
  <2>1. /\ primed /\ Line < nextId
        /\ \A d \in Pipe : Line < d.id /\ d.id < nextId
        /\ \A d, f : Precedes(d, f) /\ d.kind = "delta" /\ f.kind = "delta" => Older(d, f)
    BY <1>11 DEF Tracked, Rising
  <2>2. Line' = Line
    BY <1>1, <1>3 DEF Line
  <2>3. \A d, f : Precedes(d, f)' /\ d.kind = "delta" /\ f.kind = "delta" => Precedes(d, f)
    BY <1>1, <1>6 DEF Precedes
  <2> QED BY <1>1, <1>3, <1>9, <2>1, <2>2, <2>3 DEF Rising
<1>13. ASSUME Subscribed', NEW p \in Paths PROVE Heard(p)' /\ Followed(p)'
  <2> DEFINE row == rows[p]
             v == R[p]
  <2>1. Shows(row, host[p], hostVer[p]) \/ Word(p)
    BY <1>3, <1>11, <1>13 DEF Tracked, Converging, rows
  <2>2. Compares(v, entries[p], local[p], row) /\ Dated(row, host[p], hostVer[p])
    BY <1>3, <1>4
  <2>3. /\ entries'[p] = v.entry /\ (v.act = "push" => PushComing(p)')
        /\ (v.act = "delete" => p \in held' \cup todo'.deletes)
        /\ (p \in held' \cup todo'.deletes => v.act = "delete")
    BY <1>6 DEF PushComing
  <2>4. v.act = "pull" /\ Shows(row, host[p], hostVer[p]) => Coming(p)'
    BY <1>1, <1>6, <1>11, <1>13 DEF Coming, Transit
  <2> HIDE DEF v, row
  <2>5. /\ Shows(row, host[p], hostVer[p]) => Settled(p)'
        /\ entries'[p].pending => PushComing(p)'
    BY <1>1, <2>2, <2>3, <2>4, ComparedSettles
  <2>6. News(p) => News(p)'
    BY <1>1, <1>9 DEF News
  <2>7. Word(p)' => Settled(p)' \/ News(p)'
    BY DEF Word, Settled
  <2>8. CASE row.ver = hostVer[p]
    <3>1. Shows(row, host[p], hostVer[p])
      BY <2>2, <2>8 DEF Shows, Dated
    <3>2. p \in held' \cup todo'.deletes => host'[p] = None
      BY <1>1, <2>2, <2>3, <3>1 DEF Compares, Shows
    <3>3. ASSUME NEW f \in Pipe', p \in f.changed PROVE Shows(f.rows[p], host'[p], hostVer'[p])
      <4>1. row.ver <= f.rows[p].ver /\ f \in Pipe
        BY <1>3, <1>9, <1>11, <1>13, <3>3 DEF Tracked, Rising, row, rows
      <4>2. f \in Transit /\ f.kind = "delta"
        BY <4>1 DEF Pipe, Transit
      <4>3. Dated(f.rows[p], host[p], hostVer[p])
        BY <3>3, <4>2 DEF Tracked, Versions, FrameDated
      <4>4. f \in WatchDelta
        BY <4>2, TransitType DEF Job, Note, Push, Approve, Sync, Object, Manifest
      <4>5. f.rows[p].ver \in Nat
        BY <4>4 DEF WatchDelta, Row
      <4> QED BY <1>1, <1>7, <2>8, <4>1, <4>3, <4>5 DEF Shows, Dated
    <3>4. Heard(p)'
      BY <3>3 DEF Heard, Listed, Word, News
    <3> QED BY <2>5, <3>1, <3>2, <3>4 DEF Followed
  <2>9. CASE row.ver # hostVer[p]
    <3>1. Word(p)
      BY <2>1, <2>9 DEF Shows
    <3>2. row.ver < hostVer[p] /\ seen'[p] # hostVer'[p]
      BY <1>1, <1>7, <2>9 DEF row
    <3>3. Word(p)'
      BY <1>1, <2>6, <3>1, <3>2 DEF Word, row
    <3> QED BY <2>5, <2>7, <3>2, <3>3 DEF Heard, Followed
  <2> QED BY <2>8, <2>9
<1>14. Converging'
  <2>1. Connected' => Subscribed'
    BY DEF Subscribed, Connected
  <2> QED BY <1>3, <1>13, <2>1 DEF Converging
<1> QED BY <1>8, <1>10, <1>12, <1>14 DEF Tracked

(* The worker's steps. *)
LEMMA WorkerTracked ==
  ASSUME TypeOK, TypeOK', Tracked, Sending, Comparing, Lineage, Worker
  PROVE  Tracked'
<1> USE DEF hostVars, serverVars
<1>1. CASE NotifyLocalWrite
  <2> DEFINE h == Head(queue)
             es == [entries EXCEPT ![h.path].known = TRUE, ![h.path].pending = TRUE]
  <2>1. /\ Idle /\ queue # <<>> /\ h.kind = "note" /\ queue' = Tail(queue) /\ StartPush(h.path, es)
        /\ UNCHANGED <<local, saving, manifestId, held, aside, todo, link, wire, pulls, primed, nextId,
                       sent, host, hostVer, touched, seen, synced, unannounced>>
    BY <1>1 DEF NotifyLocalWrite, NextJob
  <2>2. h.path \in Paths
    <3>1. h \in Job
      BY <2>1, HeadType DEF TypeOK
    <3> HIDE DEF h
    <3> QED BY <2>1, <3>1 DEF Job, Note, Push, Approve, Sync, Object, WatchDelta
  <2>3. PICK p \in Paths : p = h.path
    BY <2>2
  <2>4. es \in [Paths -> Entry] /\ es = [entries EXCEPT ![p].known = TRUE, ![p].pending = TRUE]
    <3> HIDE DEF h
    <3>1. entries \in [Paths -> Entry] /\ entries[p] \in Entry
      BY DEF TypeOK
    <3>2. \A e \in Entry : [e EXCEPT !.known = TRUE, !.pending = TRUE] \in Entry
      BY DEF Entry
    <3>3. [entries[p] EXCEPT !.known = TRUE, !.pending = TRUE] \in Entry
      BY <3>1, <3>2
    <3> QED BY <2>3, <3>1, <3>3
  <2> HIDE DEF es
  <2> QED BY <2>1, <2>3, <2>4, StartPushTracked
<1>2. ASSUME NEW p \in Paths, PushNow(p) PROVE Tracked'
  <2>1. /\ Idle /\ queue # <<>> /\ Head(queue).kind = "push" /\ StartPush(p, entries)
        /\ queue' = IF Head(queue).paths = {p} THEN Tail(queue)
                    ELSE <<[kind |-> "push", paths |-> Head(queue).paths \ {p}]>> \o Tail(queue)
        /\ UNCHANGED <<local, saving, manifestId, held, aside, todo, link, wire, pulls, primed, nextId,
                       sent, host, hostVer, touched, seen, synced, unannounced>>
    BY <1>2 DEF PushNow, NextJob
  <2>2. entries \in [Paths -> Entry]
    BY DEF TypeOK
  <2> QED BY <2>1, <2>2, StartPushTracked
<1>3. CASE PushAnswered \/ KeepAnswered \/ TakeAnswered
  <2>1. call.path \in Paths
    BY <1>3 DEF PushAnswered, KeepAnswered, TakeAnswered, TypeOK, WellFormed
  <2>2. PICK p \in Paths : p = call.path
    BY <2>1
  <2> QED BY <1>3, <2>2, PushAnsweredTracked, ResolvedTracked
<1>4. CASE \/ ApplyPulled \/ FetchAnswered \/ (\E o \in todo.fills : ApplyFill(o))
  BY <1>4, AppliedTracked
<1>5. CASE SyncNow
  BY <1>5, SyncNowTracked
<1>6. CASE ApplyWatchDelta
  BY <1>6, DeltaTracked
<1>7. CASE ApproveHeldDeletes
  BY <1>7, ApproveTracked
<1>8. CASE SyncAnswered
  BY <1>8, SyncAnsweredTracked
<1>9. CASE \E p \in Paths : DeleteNow(p)
  BY <1>9, DeleteNowTracked
<1>10. CASE \E s \in todo.restores : RestoreNow(s)
  BY <1>10, RestoreNowTracked
<1>11. CASE \E k \in todo.checked : RemoveChecked(k) \/ \E o \in todo.fills : WriteFetched(k, o)
  BY <1>11, RemoveCheckedTracked, WriteFetchedTracked
<1> QED BY <1>1, <1>2, <1>3, <1>4, <1>5, <1>6, <1>7, <1>8, <1>9, <1>10, <1>11 DEF Worker

(* A mirror just opened has heard nothing, and is owed nothing. *)
LEMMA InitTracked == Init => Tracked
<1> SUFFICES ASSUME Init PROVE Tracked
  OBVIOUS
<1>1. /\ link = "down" /\ queue = <<>> /\ wire = <<>> /\ pulls = <<>> /\ ~primed /\ aside = {}
      /\ call.job = "none" /\ todo.restores = {} /\ todo.fills = {}
  BY DEF Init, NoCall, NothingToDo
<1>2. ToSet(queue) = {} /\ ToSet(wire) = {} /\ ToSet(pulls) = {}
      /\ (\A x, y : ~Ahead(queue, x, y)) /\ (\A x, y : ~Ahead(wire, x, y))
  BY <1>1, EmptyMembers
<1>3. Transit = {} /\ ~Answering /\ ~Awaited /\ ~SyncQueued
  BY <1>1, <1>2 DEF Transit, Answering, Awaited, SyncQueued
<1>4. ASSUME NEW p \in Paths
      PROVE  /\ seen[p] <= hostVer[p] /\ sent[p].ver <= hostVer[p]
             /\ RecordDated(entries[p], host[p], hostVer[p])
             /\ entries[p].known \/ entries[p] = NoEntry
  <2>1. /\ hostVer[p] = (IF host[p] = local[p] THEN 0 ELSE 1) /\ seen[p] = 0 /\ sent[p] = NoRow
        /\ entries[p] = IF local[p] = None THEN NoEntry
                        ELSE [NoEntry EXCEPT !.known = TRUE, !.hasRemote = TRUE, !.base = local[p],
                                             !.remote = [hash |-> local[p], ver |-> 0]]
    BY DEF Init
  <2>2. NoRow.ver = 0 /\ ~NoEntry.hasRemote
    BY DEF NoRow, NoEntry
  <2>3. CASE local[p] = None
    BY <2>1, <2>2, <2>3 DEF RecordDated
  <2>4. CASE local[p] # None
    <3>1. entries[p].known /\ entries[p].remote = [hash |-> local[p], ver |-> 0]
      BY <2>1, <2>4 DEF NoEntry
    <3>2. Dated(entries[p].remote, host[p], hostVer[p])
      BY <2>1, <3>1 DEF Dated
    <3> QED BY <2>1, <2>2, <3>1, <3>2 DEF RecordDated
  <2> QED BY <2>3, <2>4
<1>5. Versions
  BY <1>1, <1>3, <1>4 DEF Versions
<1>6. Marks
  BY <1>1, <1>4 DEF Marks
<1>7. Lines
  BY <1>1, <1>2, <1>3 DEF Lines
<1>8. ~Subscribed /\ ~Connected
  BY <1>1 DEF Subscribed, Connected
<1> QED BY <1>5, <1>6, <1>7, <1>8 DEF Tracked, Rising, Converging

(* Nothing changes. *)
LEMMA StutterTracked ==
  ASSUME Tracked, UNCHANGED vars
  PROVE  Tracked'
<1> USE DEF vars, hostVars, serverVars
<1>1. Transit' = Transit /\ Pipe' = Pipe /\ Line' = Line
  BY DEF Transit, Pipe, Line
<1>2. /\ Awaited' = Awaited /\ Answering' = Answering /\ SyncQueued' = SyncQueued
      /\ Subscribed' = Subscribed /\ Connected' = Connected
  BY DEF Awaited, Answering, SyncQueued, Subscribed, Connected
<1>3. \A d, f : Precedes(d, f)' = Precedes(d, f)
  BY DEF Precedes
<1>4. ASSUME NEW p \in Paths PROVE Heard(p)' = Heard(p) /\ Followed(p)' = Followed(p)
  <2>1. News(p)' = News(p) /\ Coming(p)' = Coming(p) /\ PushComing(p)' = PushComing(p)
        /\ Listed(p)' = Listed(p) /\ Excused(p)' = Excused(p)
    BY <1>1 DEF News, Coming, PushComing, Listed, Excused, Noted
  <2>2. Word(p)' = Word(p) /\ Settled(p)' = Settled(p)
    BY <2>1 DEF Word, Settled
  <2> QED BY <2>1, <2>2 DEF Heard, Followed
<1>5. Versions'
  BY <1>1, <1>2 DEF Tracked, Versions
<1>6. Marks'
  BY DEF Tracked, Marks
<1>7. Lines'
  BY <1>2 DEF Tracked, Lines
<1>8. Rising'
  BY <1>1, <1>2, <1>3 DEF Tracked, Rising
<1>9. \A p \in Paths : Word(p)' = Word(p)
  BY <1>1 DEF News, Word
<1>10. Converging'
  <2>1. Answering => call.path = call'.path
    OBVIOUS
  <2>2. Word(call.path)' = Word(call.path)
    BY <1>1 DEF Word, News
  <2> QED BY <1>2, <1>4, <1>9, <2>1, <2>2 DEF Tracked, Converging
<1> QED BY <1>5, <1>6, <1>7, <1>8, <1>10 DEF Tracked

(* Everything done and nothing on its way, a settled path is an equal one, or *)
(* one the record explains.                                                  *)
LEMMA TrackedConverges ==
  ASSUME TypeOK, Tracked
  PROVE  QuietConverged
<1> SUFFICES ASSUME Quiet, NEW p \in Paths
             PROVE  \/ local[p] = host[p]
                    \/ entries[p].known /\ (entries[p].conflict \/ ~entries[p].hasRemote)
                    \/ ~entries[p].known /\ host[p] = None
                    \/ p \in held \cup stale \cup unannounced
  BY DEF QuietConverged
<1>1. /\ link = "up" /\ synced /\ queue = <<>> /\ wire = <<>> /\ pulls = <<>> /\ saving = {}
      /\ touched = {} /\ call.job = "none" /\ todo.deletes = {} /\ todo.fills = {}
  BY DEF Quiet, Idle
<1>2. ToSet(queue) = {} /\ ToSet(wire) = {} /\ ToSet(pulls) = {} /\ Len(queue) = 0
  BY <1>1, EmptyMembers
<1>3. Transit = {} /\ Pipe = {} /\ Connected
  BY <1>1, <1>2 DEF Transit, Pipe, Connected, SyncQueued
<1>4. ~News(p) /\ ~Coming(p) /\ ~PushComing(p) /\ (Excused(p) => p \in unannounced)
  BY <1>1, <1>2, <1>3 DEF News, Coming, PushComing, Excused, Noted
<1>5. Followed(p)
  BY <1>3 DEF Tracked, Converging
<1>6. Settled(p) /\ ~(entries[p].known /\ entries[p].pending /\ ~entries[p].conflict)
  BY <1>4, <1>5 DEF Followed
<1> QED BY <1>1, <1>4, <1>6 DEF Settled, Shows

(* When everything has settled after a manifest, the two copies of every path *)
(* agree, or the mirror's record, a held delete or a list the engine keeps    *)
(* says why not: nothing SyncNow, ApplyWatchDelta, ApplyFetched, PushNow and   *)
(* the user's choices do, in whatever order deltas, objects and answers come,  *)
(* loses the newest version of a path without a trace.                        *)
THEOREM Converges == Spec => []QuietConverged
<1>1. TypeOK /\ TypeOK' /\ Lineage /\ Tallied /\ Tracked /\ [Next]_vars => Tracked'
  <2> SUFFICES ASSUME TypeOK, TypeOK', Lineage, Tallied, Tracked, [Next]_vars PROVE Tracked'
    OBVIOUS
  <2>1. CASE Worker
    BY <2>1, WorkerTracked DEF Tallied
  <2>2. CASE Server
    BY <2>2, ServerTracked
  <2>3. CASE User
    BY <2>3, UserTracked
  <2>4. CASE Link
    BY <2>4, LinkTracked
  <2>5. CASE UNCHANGED vars
    BY <2>5, StutterTracked
  <2> QED BY <2>1, <2>2, <2>3, <2>4, <2>5 DEF Next
<1>2. TypeOK /\ Tracked => QuietConverged
  BY TrackedConverges
<1> QED
  BY <1>1, <1>2, InitTracked, TypeCorrect, LineageHolds, TalliedHolds, PTL DEF Spec
=============================================================================
