------------------------------- MODULE TreeOps -------------------------------
(***************************************************************************)
(* Renames and deletes made in the mirror: journaled in order, sent to the   *)
(* host under the base of what they move, kept while the host is out of      *)
(* reach and replayed before the next reconcile, against a host that may     *)
(* have moved on.  MirrorSyncEngine::NotifyLocalTreeOps, DrainTreeOps,        *)
(* TreeOpNow and DeleteTreeNow with the pushes and the sync they meet, and    *)
(* the host's fs/op and file/write; the paths are files (a directory is its   *)
(* files, one by one).  The user, the host's own writers and the link may do   *)
(* anything at any time.                                                      *)
(* Left to MirrorSync: watch deltas and fetches in flight (a change on the     *)
(* host reaches the mirror here with the next sync); to MirrorJournal:         *)
(* crashes.                                                                   *)
(***************************************************************************)
EXTENDS MirrorRules, FiniteSets

CONSTANTS
    Paths,
    FirstBytes,             \* what the host's files hold at first
    UserBytes, HostBytes,   \* what is written here, and by others on the host
    MaxUser, MaxHostEdits,  \* bounds
    MaxFaults               \* bound: links lost, error answers, waits that run out

ASSUME TreeAssumption ==
    /\ None \notin Contents
    /\ IsFiniteSet(Paths) /\ Paths # {}
    /\ FirstBytes \cup UserBytes \cup HostBytes \subseteq Contents
    /\ {MaxUser, MaxHostEdits, MaxFaults} \subseteq Nat

VARIABLES
    tree, host,     \* the files on both sides
    entries,        \* store_.entries()
    ops,            \* pending_tree_ops_
    queue,          \* the engine's jobs, in order
    work,           \* what the running job still does
    call,           \* the request it waits for
    late,           \* requests given up that the host may still carry out
    link,
    (* history, read by the properties only *)
    had,            \* contents the mirror has held or seen listed, by path
    held,           \* contents the host has held, by path
    forgotten,      \* paths an operation's answer left without a record
    userSteps, hostEdits, faults

counters == <<userSteps, hostEdits, faults>>
history == <<had, held, forgotten>>
vars == <<tree, host, entries, ops, queue, work, call, late, link, history, counters>>

Op == [kind : {"rename", "delete"}, path : Paths, to : Paths]
Step(k, p) == [kind |-> k, path |-> p]

(* A job names a path it notes, or an operation it adds, or is the sync. *)
Job == [kind : {"note", "push", "tree", "sync"}, path : Paths, op : Op]

(* "any" is Precondition::Anything, "hash" names bytes, "absent" none. *)
Expect(h) == IF h = None THEN [kind |-> "absent", hash |-> None]
                         ELSE [kind |-> "hash", hash |-> h]
Anything == [kind |-> "any", hash |-> None]

SomePath == CHOOSE p \in Paths : TRUE
NoOp == [kind |-> "delete", path |-> SomePath, to |-> SomePath]
NoCall == [kind |-> "none", path |-> SomePath, to |-> SomePath, content |-> None,
           expect |-> Anything, at |-> "sent", ans |-> "none", hash |-> None,
           found |-> None, blind |-> FALSE]

(* The types; a tree operation on the wire is still the journal's first        *)
(* (DrainTreeOps pops it on the answer).                                       *)
TypeOK ==
    /\ tree \in [Paths -> Hash] /\ host \in [Paths -> Hash]
    /\ entries \in [Paths -> Entry]
    /\ ops \in Seq(Op) /\ queue \in Seq(Job)
    /\ work \in Seq([kind : {"drain", "manifest", "push", "pull", "delete"}, path : Paths])
    /\ \A r \in {call} \cup late : /\ r.kind \in {"none", "push", "rename", "delete"}
                                  /\ r.at \in {"sent", "checked", "answered"}
    /\ call.kind \in {"rename", "delete"} =>
          ops # <<>> /\ Head(ops).path = call.path /\ Head(ops).kind = call.kind
    /\ link \in BOOLEAN
    /\ had \in [Paths -> SUBSET Contents] /\ held \in [Paths -> SUBSET Contents]
    /\ forgotten \subseteq Paths
    /\ {userSteps, hostEdits, faults} \subseteq Nat

Synced(c) ==
    IF c = None THEN NoEntry
    ELSE [NoEntry EXCEPT !.known = TRUE, !.hasRemote = TRUE, !.base = c,
                         !.remote = [hash |-> c, ver |-> 0]]

(* A mirror in step with its host, connected. *)
Init ==
    /\ host \in [Paths -> {None} \cup FirstBytes]
    /\ tree = host /\ entries = [p \in Paths |-> Synced(host[p])]
    /\ ops = <<>> /\ queue = <<>> /\ work = <<>> /\ call = NoCall /\ late = {} /\ link = TRUE
    /\ had = [p \in Paths |-> {host[p]} \ {None}]
    /\ held = [p \in Paths |-> {host[p]} \ {None}] /\ forgotten = {}
    /\ userSteps = 0 /\ hostEdits = 0 /\ faults = 0

-----------------------------------------------------------------------------
UserStep(job) ==
    /\ userSteps < MaxUser
    /\ userSteps' = userSteps + 1
    /\ queue' = Append(queue, job)
    /\ UNCHANGED <<host, held, forgotten, entries, ops, work, call, late, link, hostEdits, faults>>

(* A save, or a new file: MirrorWriteGate::WriteText, NotifyLocalWrite. *)
Save(p, c) ==
    /\ tree' = [tree EXCEPT ![p] = c] /\ had' = [had EXCEPT ![p] = @ \cup {c}]
    /\ UserStep([kind |-> "note", path |-> p, op |-> NoOp])

(* MirrorWriteGate::ApplyTreeOps: done here, then handed to the engine. *)
Rename(p, q) ==
    /\ p # q /\ tree[p] # None /\ tree[q] = None
    /\ tree' = [tree EXCEPT ![q] = tree[p], ![p] = None]
    /\ had' = [had EXCEPT ![q] = @ \cup {tree[p]}]
    /\ UserStep([kind |-> "tree", path |-> p, op |-> [kind |-> "rename", path |-> p, to |-> q]])

Delete(p) ==
    /\ tree[p] # None
    /\ tree' = [tree EXCEPT ![p] = None] /\ UNCHANGED had
    /\ UserStep([kind |-> "tree", path |-> p, op |-> [kind |-> "delete", path |-> p, to |-> p]])

-----------------------------------------------------------------------------
(* The queue's thread takes the next job: journals it, and lists what to do. *)
Take ==
    /\ work = <<>> /\ queue # <<>>
    /\ queue' = Tail(queue)
    /\ LET j == Head(queue)
           drain == Step("drain", SomePath)
       IN  CASE j.kind = "note" ->
                  /\ entries' = [entries EXCEPT ![j.path].known = TRUE, ![j.path].pending = TRUE]
                  /\ work' = <<Step("push", j.path)>> /\ UNCHANGED ops
             [] j.kind = "push" ->
                  /\ work' = <<Step("push", j.path)>> /\ UNCHANGED <<entries, ops>>
             [] j.kind = "tree" ->
                  /\ ops' = Append(ops, j.op)
                  /\ work' = <<drain>> /\ UNCHANGED entries
             [] j.kind = "sync" ->
                  /\ work' = <<drain, Step("manifest", SomePath)>> /\ UNCHANGED <<entries, ops>>
    /\ UNCHANGED <<tree, host, call, late, link, history, counters>>

Doing(k) == work # <<>> /\ Head(work).kind = k /\ call = NoCall

(* DrainTreeOps with nothing left, or with the host out of reach. *)
DrainStops ==
    /\ Doing("drain") /\ (ops = <<>> \/ ~link)
    /\ work' = Tail(work)
    /\ UNCHANGED <<tree, host, entries, ops, queue, call, late, link, history, counters>>

(* TreeOpNow: what a rename must find, and DeleteTreeNow: what a delete must. *)
RenameExpects(e) == IF e.base = None THEN Anything ELSE Expect(e.base)

(* Mutant: a delete expects nothing. *)
DeleteExpectsNothing(e) == Anything

DeleteExpects(e) ==
    CASE e.base # None                  -> Expect(e.base)
      [] e.base = None /\ e.hasRemote   -> Expect(e.remote.hash)
      [] OTHER                          -> Anything

(* Mutant: the operation leaves the journal as it is sent. *)
SendOpPopped ==
    /\ Doing("drain") /\ ops # <<>> /\ link
    /\ LET o == Head(ops)
           e == entries[o.path]
       IN  call' = [NoCall EXCEPT !.kind = o.kind, !.path = o.path, !.to = o.to,
                       !.expect = IF o.kind = "rename" THEN RenameExpects(e) ELSE DeleteExpects(e),
                       !.blind = e.base = None /\ ~e.hasRemote]
    /\ ops' = Tail(ops)
    /\ UNCHANGED <<tree, host, entries, queue, work, late, link, history, counters>>

(* TreeOpNow up to its request: the oldest operation, one at a time. *)
SendOp ==
    /\ Doing("drain") /\ ops # <<>> /\ link
    /\ LET o == Head(ops)
           e == entries[o.path]
       IN  call' = [NoCall EXCEPT !.kind = o.kind, !.path = o.path, !.to = o.to,
                       !.expect = IF o.kind = "rename" THEN RenameExpects(e) ELSE DeleteExpects(e),
                       !.blind = e.base = None /\ ~e.hasRemote]
    /\ UNCHANGED <<tree, host, entries, ops, queue, work, late, link, history, counters>>

(* PushNow up to its request. *)
PushNow ==
    /\ Doing("push")
    /\ LET p == Head(work).path
           e == entries[p]
       IN  \/ /\ e.pending /\ tree[p] # None /\ link
              /\ call' = [NoCall EXCEPT !.kind = "push", !.path = p, !.content = tree[p],
                                        !.expect = Expect(e.base)]
              /\ UNCHANGED <<entries, work>>
           \/ /\ ~(e.pending /\ tree[p] # None /\ link)
              /\ entries' = [entries EXCEPT ![p].pending = @ /\ tree[p] # None]
              /\ work' = Tail(work) /\ UNCHANGED call
    /\ UNCHANGED <<tree, host, ops, queue, late, link, history, counters>>

-----------------------------------------------------------------------------
(* The host: fs/op and file/write, one at a time on the tree's io_queue. *)
Meets(h, x) == x.kind = "any" \/ h = x.hash
Answered(r, ans, hash) == [r EXCEPT !.at = "answered", !.ans = ans, !.hash = hash]
Busy == \E r \in {call} \cup late : r.at = "checked"

(* CheckExpect: refused, or nothing there to move or to remove, or the way is  *)
(* clear.                                                                      *)
Checked(r) ==
    LET h == host[r.path]
    IN  CASE ~Meets(h, r.expect) -> Answered(r, "conflict", h)
          [] Meets(h, r.expect) /\ h = None /\ r.kind = "rename" -> Answered(r, "conflict", None)
          [] Meets(h, r.expect) /\ h = None /\ r.kind = "delete" -> Answered(r, "ok", None)
          [] OTHER -> [r EXCEPT !.at = "checked", !.found = h]

(* Then the rename or the unlink, of what is there by now: neither a push that  *)
(* expects nothing there nor a rename writes over a file (RenameNoReplace), and  *)
(* a file that is gone is an error.                                            *)
HostVerdict(r) ==
    LET h == host[r.path]
        kept(ans, hash) == [ans |-> ans, hash |-> hash, files |-> host]
    IN  CASE r.kind = "push" /\ r.expect.kind = "absent" /\ h # None -> kept("conflict", h)
          [] r.kind = "push" /\ (r.expect.kind # "absent" \/ h = None) ->
               [ans |-> "ok", hash |-> r.content,
                files |-> [host EXCEPT ![r.path] = r.content]]
          [] r.kind # "push" /\ h = None -> kept("error", None)
          [] r.kind = "delete" /\ h # None ->
               [ans |-> "ok", hash |-> None, files |-> [host EXCEPT ![r.path] = None]]
          [] r.kind = "rename" /\ h # None /\ host[r.to] # None -> kept("conflict", host[r.to])
          [] OTHER ->
               [ans |-> "ok", hash |-> None,
                files |-> [host EXCEPT ![r.path] = None, ![r.to] = h]]

(* What each path has held on the host, once its files are these. *)
HeldAfter(files) == [p \in Paths |-> held[p] \cup ({files[p]} \ {None})]

HostCheck ==
    /\ call # NoCall /\ call.at = "sent" /\ ~Busy
    /\ call' = Checked(call)
    /\ UNCHANGED <<tree, host, entries, ops, queue, work, late, link, history, counters>>

HostApply ==
    /\ call.at = "checked"
    /\ LET v == HostVerdict(call)
       IN  /\ host' = v.files /\ held' = HeldAfter(v.files)
           /\ call' = Answered(call, v.ans, v.hash)
    /\ UNCHANGED <<tree, entries, ops, queue, work, late, link, had, forgotten, counters>>

(* Something else is in the way: a full disk, no permission. *)
HostFails ==
    /\ call # NoCall /\ call.at \in {"sent", "checked"} /\ faults < MaxFaults
    /\ faults' = faults + 1
    /\ call' = Answered(call, "error", None)
    /\ UNCHANGED <<tree, host, entries, ops, queue, work, late, link, history, userSteps,
                   hostEdits>>

(* A request nobody waits for any more, in the same two steps. *)
LateCheck(r) ==
    /\ r.at = "sent" /\ ~Busy
    /\ late' = (late \ {r}) \cup {x \in {Checked(r)} : x.at = "checked"}
    /\ UNCHANGED <<tree, host, entries, ops, queue, work, call, link, history, counters>>

LateApply(r) ==
    /\ r.at = "checked"
    /\ LET v == HostVerdict(r)
       IN  host' = v.files /\ held' = HeldAfter(v.files)
    /\ late' = late \ {r}
    /\ UNCHANGED <<tree, entries, ops, queue, work, call, link, had, forgotten, counters>>

(* TreeOpNow on a taken rename: the record follows, unless its place is taken *)
(* (map::insert of the node).                                                  *)
Moved(es, p, q) ==
    IF ~es[p].known THEN es
    ELSE [es EXCEPT ![p] = NoEntry, ![q] = IF es[q].known THEN @ ELSE es[p]]


(* On a refused one: the new path waits as a conflict. *)
Parked(es, p, q) ==
    IF ~es[p].known THEN es
    ELSE [es EXCEPT ![q] = [es[p] EXCEPT !.hasRemote = FALSE, !.base = None,
                                         !.pending = FALSE, !.conflict = TRUE]]

(* DeleteTreeNow on its answer: gone there, or other bytes the user decides on. *)
Deleted(es, p) ==
    IF ~es[p].known THEN es
    ELSE IF call.ans = "ok" \/ call.hash = None THEN [es EXCEPT ![p] = NoEntry]
    ELSE [es EXCEPT ![p].conflict = TRUE, ![p].pending = FALSE]

(* History: an answer leaves r without a record: the rename it is the target    *)
(* of failed, or its source has none (a sync has dropped it); or the answer      *)
(* takes the record of a save made since.                                       *)
Forgets(r, e) ==
    /\ ~e.known
    /\ \/ r # call.path /\ (call.ans = "error" \/ ~entries[call.path].known)
       \/ entries[r].pending

(* The operation leaves the journal; an error is shown, and moves no record.    *)
OpAnswered ==
    /\ call.kind \in {"rename", "delete"} /\ call.at = "answered"
    /\ LET p == call.path
           q == call.to
       IN  /\ entries' = CASE call.ans = "error" -> entries
                           [] call.ans # "error" /\ call.kind = "delete" -> Deleted(entries, p)
                           [] call.ans = "ok" /\ call.kind = "rename" -> Moved(entries, p, q)
                           [] OTHER -> Parked(entries, p, q)
           /\ had' = IF call.ans = "error" THEN had ELSE [had EXCEPT ![q] = @ \cup had[p]]
           /\ forgotten' = forgotten \cup {r \in {p, q} : Forgets(r, entries'[r])}
    /\ ops' = Tail(ops)
    /\ call' = NoCall
    /\ UNCHANGED <<tree, host, queue, work, late, link, held, counters>>

(* PushNow on its answer. *)
PushAnswered ==
    /\ call.kind = "push" /\ call.at = "answered"
    /\ LET p     == call.path
           c     == call.content
           ok    == call.ans = "ok"
           e     == [entries[p] EXCEPT !.unack = <<>>]
           own   == \E i \in DOMAIN entries[p].unack : entries[p].unack[i] = call.hash
           based == [e EXCEPT !.base = call.hash, !.conflict = FALSE,
                              !.remote.hash = IF e.hasRemote THEN call.hash ELSE @]
           again == \/ ok /\ tree[p] # c
                    \/ call.ans = "conflict" /\ call.hash # c /\ own
       IN  /\ entries' = [entries EXCEPT ![p] =
                 CASE ~entries[p].known        -> NoEntry
                   [] entries[p].known /\ ok  -> [based EXCEPT !.pending = tree[p] # c,
                                                               !.localOnly = @ \/ ~e.hasRemote]
                   [] entries[p].known /\ call.ans = "error" -> e
                   [] entries[p].known /\ call.ans = "conflict" /\ call.hash = c ->
                        [based EXCEPT !.pending = FALSE]
                   [] entries[p].known /\ call.ans = "conflict" /\ call.hash # c /\ own -> based
                   [] OTHER -> [e EXCEPT !.conflict = TRUE, !.hasRemote = @ /\ call.hash # None]]
           /\ queue' = IF entries[p].known /\ again
                       THEN Append(queue, [kind |-> "push", path |-> p, op |-> NoOp]) ELSE queue
    /\ call' = NoCall /\ work' = Tail(work)
    /\ UNCHANGED <<tree, host, ops, late, link, history, counters>>

(* No answer comes: an operation waits, and the drain with it; a push stays    *)
(* pending and is remembered as bytes the host may hold.                        *)
GiveUp ==
    /\ LET p == call.path
       IN  entries' = IF call.kind = "push" /\ entries[p].known /\ entries[p].pending
                      THEN [entries EXCEPT ![p].unack = Append(@, call.content)] ELSE entries
    /\ call' = NoCall /\ work' = Tail(work)

Unapplied == {r \in {call} : r # NoCall /\ r.at # "answered"}

(* The 120 s of DeleteTreeNow, or a request's own wait, run out, the link up:   *)
(* the host goes on with it, and nothing tries again before the next drain.     *)
TimeOut ==
    /\ call # NoCall /\ link /\ faults < MaxFaults
    /\ faults' = faults + 1
    /\ GiveUp
    /\ late' = late \cup Unapplied
    /\ UNCHANGED <<tree, host, ops, queue, link, history, userSteps, hostEdits>>

-----------------------------------------------------------------------------
(* SyncNow's reconcile of a full manifest, and the plan it leaves. *)
Verdict(p) ==
    CASE host[p] # None ->
           ReconcileRow(entries[p], tree[p], [hash |-> host[p], ver |-> 0], 1)
      [] host[p] = None /\ entries[p].known -> ReconcileDelete(entries[p], tree[p])
      [] OTHER -> [entry |-> entries[p], act |-> "none"]

(* Execute: deletes, then pulls and pushes, in some order of the paths. *)
PlanSteps(acts) ==
    {s \in UNION {[1 .. n -> [kind : {"delete", "pull", "push"}, path : Paths]] :
                    n \in 0 .. Cardinality(Paths)} :
        /\ \A i, j \in DOMAIN s :
              i < j => s[i].path # s[j].path /\ (s[j].kind # "delete" \/ s[i].kind = "delete")
        /\ {[kind |-> s[i].kind, path |-> s[i].path] : i \in DOMAIN s} =
              {[kind |-> acts[p], path |-> p] :
                 p \in {x \in Paths : acts[x] \in {"delete", "pull", "push"}}}}

Reconcile ==
    /\ Doing("manifest") /\ link
    /\ entries' = [p \in Paths |-> Verdict(p).entry]
    /\ work' \in {s \o Tail(work) : s \in PlanSteps([p \in Paths |-> Verdict(p).act])}
    /\ had' = [p \in Paths |-> had[p] \cup ({host[p]} \ {None})]
    /\ UNCHANGED <<tree, host, ops, queue, call, late, link, held, forgotten, counters>>

(* FetchManifestSync without a host, a pull without one; or one that fails. *)
SyncFails ==
    /\ (Doing("manifest") \/ Doing("pull"))
    /\ \/ ~link /\ UNCHANGED faults
       \/ link /\ faults < MaxFaults /\ faults' = faults + 1
    /\ work' = Tail(work)
    /\ UNCHANGED <<tree, host, entries, ops, queue, call, late, link, history, userSteps,
                   hostEdits>>

(* A pull: ApplyFetched on the host's bytes, or ReconcileMissingPulls. *)
PullNow ==
    /\ Doing("pull") /\ link
    /\ LET p == Head(work).path
           e == entries[p]
           ours == ~e.known \/ e.pending \/ e.conflict
           gone == ReconcileDelete(e, tree[p])
       IN  \/ /\ ~ours /\ host[p] # None /\ CheckLocal(tree[p], e.base) # "differs"
              /\ tree' = [tree EXCEPT ![p] = host[p]] /\ had' = [had EXCEPT ![p] = @ \cup {host[p]}]
              /\ entries' = [entries EXCEPT ![p].base = host[p], ![p].remote.hash = host[p]]
              /\ work' = Tail(work)
           \/ /\ ours \/ (host[p] # None /\ CheckLocal(tree[p], e.base) = "differs")
              /\ entries' = [entries EXCEPT ![p].conflict = @ \/ (~ours /\ host[p] # None)]
              /\ work' = Tail(work)
              /\ UNCHANGED <<tree, had>>
           \/ /\ ~ours /\ host[p] = None
              /\ entries' = [entries EXCEPT ![p] = IF e.hasRemote THEN gone.entry ELSE e]
              /\ work' = (IF e.hasRemote /\ gone.act = "delete" THEN <<Step("delete", p)>>
                                                               ELSE <<>>) \o Tail(work)
              /\ UNCHANGED <<tree, had>>
    /\ UNCHANGED <<host, held, forgotten, ops, queue, call, late, link, counters>>

(* DeleteNow: under expect = base. *)
DeleteNow ==
    /\ Doing("delete")
    /\ LET p == Head(work).path
           e == entries[p]
           ours == ~e.known \/ e.pending \/ e.conflict
       IN  \/ /\ ~ours /\ tree[p] = e.base
              /\ tree' = [tree EXCEPT ![p] = None]
              /\ entries' = [entries EXCEPT ![p] = NoEntry]
           \/ /\ ours \/ tree[p] # e.base
              /\ entries' = IF ours THEN entries
                            ELSE [entries EXCEPT ![p].hasRemote = FALSE, ![p].conflict = TRUE]
              /\ UNCHANGED tree
    /\ work' = Tail(work)
    /\ UNCHANGED <<host, ops, queue, call, late, link, history, counters>>

-----------------------------------------------------------------------------
(* The link goes, and a request on it may be lost or still be carried out. *)
LinkDown ==
    /\ link /\ faults < MaxFaults
    /\ link' = FALSE /\ faults' = faults + 1
    /\ \/ call # NoCall /\ GiveUp /\ late' \in {late, late \cup Unapplied}
       \/ /\ call = NoCall \/ call.at = "answered"
          /\ UNCHANGED <<entries, call, work, late>>
    /\ UNCHANGED <<tree, host, ops, queue, history, userSteps, hostEdits>>

(* The link is back: RequestSync. *)
LinkUp ==
    /\ ~link
    /\ link' = TRUE
    /\ queue' = Append(Without(queue, "sync"),
                       [kind |-> "sync", path |-> SomePath, op |-> NoOp])
    /\ UNCHANGED <<tree, host, entries, ops, work, call, late, history, counters>>

(* The link goes and is back while nothing is under way: RequestSync. *)
Reconnect ==
    /\ link /\ queue = <<>> /\ work = <<>>
    /\ queue' = <<[kind |-> "sync", path |-> SomePath, op |-> NoOp]>>
    /\ UNCHANGED <<tree, host, entries, ops, work, call, late, link, history, counters>>

(* Somebody else works on the host. *)
HostEdit(p, c) ==
    /\ hostEdits < MaxHostEdits /\ c # host[p]
    /\ host' = [host EXCEPT ![p] = c] /\ held' = HeldAfter(host')
    /\ hostEdits' = hostEdits + 1
    /\ UNCHANGED <<tree, entries, ops, queue, work, call, late, link, had, forgotten, userSteps,
                   faults>>

User == \E p \in Paths : \/ \E c \in UserBytes : Save(p, c)
                         \/ \E q \in Paths : Rename(p, q)
                         \/ Delete(p)

Worker ==
    \/ Take \/ DrainStops \/ SendOp \/ PushNow
    \/ OpAnswered \/ PushAnswered
    \/ Reconcile \/ PullNow \/ DeleteNow

IoQueue == HostCheck \/ HostApply \/ \E r \in late : LateCheck(r) \/ LateApply(r)

Next ==
    \/ User \/ Worker \/ SyncFails \/ IoQueue \/ HostFails \/ TimeOut
    \/ LinkDown \/ LinkUp \/ Reconnect
    \/ \E p \in Paths, c \in {None} \cup HostBytes : HostEdit(p, c)

Spec == Init /\ [][Next]_vars

(* The queue's thread goes on, the host's queue too, the link comes back. *)
FairSpec ==
    /\ Spec
    /\ WF_vars(Worker) /\ WF_vars(~link /\ SyncFails) /\ WF_vars(IoQueue)
    /\ WF_vars(LinkUp) /\ WF_vars(Reconnect)

-----------------------------------------------------------------------------
(* A delete of p with nothing to compare it with, the record having neither a  *)
(* base nor a row; a write of p between a request's check and its step.        *)
Blind(p) == \E r \in {call} \cup late : r.at = "checked" /\ r.path = p /\ r.kind = "delete" /\ r.blind
Raced(p) == \E r \in {call} \cup late : r.at = "checked" /\ r.path = p /\ host[p] # r.found

(* What a request takes from the host, the mirror has held at that path or     *)
(* seen listed there, or it is moved to a free one: a replayed delete, rename   *)
(* or push destroys nobody's unseen bytes, however late it is carried out       *)
(* (DeleteTreeNow: "never a silent loss of the host's newer bytes").  Excused   *)
(* are a delete of a path the host was never known to have, which the code      *)
(* sends with Precondition::Anything, and a writer on the host between the      *)
(* request's check and its unlink or rename.                                    *)
HostKept ==
    [][\A p \in Paths :
          (host'[p] # host[p] /\ hostEdits' = hostEdits /\ ~Blind(p) /\ ~Raced(p))
            => \/ host[p] \in had[p] \cup {None}
               \/ \E q \in Paths : host[q] = None /\ host'[q] = host[p]]_vars

=============================================================================
