----------------------------- MODULE MirrorSync -----------------------------
(***************************************************************************)
(* The two-way sync of one remote project: the local mirror (tree/ and the *)
(* per-path records of MirrorStore), the serial worker of MirrorSyncEngine *)
(* that pulls and pushes, the link, and the host's server tree with its    *)
(* manifests, watch deltas and compare-and-swap writes.                    *)
(*                                                                         *)
(* A file's bytes are their hash, a member of Contents; None is "no file". *)
(* The worker runs one job of `queue' at a time.  A job that waits for the *)
(* host is split where it waits: `call' is the request it is blocked on.   *)
(* Answers to writes travel on the interactive lane and may overtake the   *)
(* bulk lane `wire', which carries manifests, watch deltas and pulled      *)
(* objects in the order they were sent.  Jobs posted to the front of the   *)
(* queue (Prioritize, ResolveConflict) may start whenever the worker is    *)
(* idle.                                                                   *)
(***************************************************************************)
EXTENDS MirrorRules, Integers

CONSTANTS
    Paths,               \* project-relative file paths
    Anything,            \* Precondition::Anything
    MaxUnacknowledged,   \* kMaxUnacknowledgedPushes
    MaxSaves,            \* bound: the editor's saves into tree/
    MaxTools,            \* bound: writes into tree/ by anything else
    MaxEdits,            \* bound: writes by processes on the host
    MaxFaults,           \* bound: lost links, timed-out calls, error answers,
                         \* files that cannot be written
    MaxAsks              \* bound: choices, approvals and tab opens of the user

ASSUME ConstantsDistinct == None \notin Contents /\ Anything \notin Contents \cup {None}
ASSUME UnacknowledgedBound == MaxUnacknowledged \in Nat \ {0}
ASSUME BudgetsNat == {MaxSaves, MaxTools, MaxEdits, MaxFaults, MaxAsks} \subseteq Nat

VARIABLES
    (* the mirror, on the user's machine *)
    local,       \* tree/: the bytes of each path
    saving,      \* files MirrorWriteGate has written and not announced yet
    entries,     \* MirrorStore::entries_
    manifestId,  \* MirrorStore::manifest_id_, the last manifest reconciled
    held,        \* held_deletes_: host deletes waiting for the user
    aside,       \* set_aside_: host deletes carried out that can be undone
    queue,       \* the worker's jobs, first to run first
    todo,        \* what the running job's Execute has still to do on disk
    call,        \* the request the worker is blocked on
    (* the link and the host *)
    link,        \* "up" or "down"
    wire,        \* the bulk lane, towards the mirror
    pulls,       \* object/fetch requests the server has not answered
    late,        \* writes given up by the client that may still be applied
    host,        \* the host's files
    touched,     \* ServedTree::watch_changes: paths no batch has published
    nextId,      \* WorkspaceTree::next_manifest_id_
    primed,      \* the connection's subscriber has a last_sent
    sent,        \* Subscriber::last_sent: the rows the client was last sent
    hostVer,     \* how often each host file has been rewritten (its mtime)
    (* history, read by the properties only *)
    seen,        \* the newest host version of each path the mirror has had
    synced,      \* a manifest was reconciled, and no call given up since
    stale,       \* paths whose newest host row or bytes the engine let go
    unannounced, \* paths last written by a tool, or put back by the undo of a
                 \* delete that compared nothing, not by the editor's save, and
                 \* not compared with the host's version since
    wasLocal,    \* contents tree/ has held
    wasHost,     \* contents the host has held
    count        \* how much of each bound is spent

hostVars == <<host, hostVer, touched, wasHost>>
serverVars == <<late, nextId, primed, sent>>
vars == <<local, saving, entries, manifestId, held, aside, queue, todo, call,
          link, wire, pulls, serverVars, hostVars,
          seen, synced, stale, unannounced, wasLocal, count>>

Precondition == Hash \cup {Anything}   \* Of(hash), NotThere, Anything

HostRow(p) == [hash |-> host[p], ver |-> hostVer[p]]

(* DiffManifests: a row that differs in mtime only is sent too; a path that  *)
(* neither manifest lists is not.                                            *)
SameRow(r, s) == r = s \/ (r.hash = None /\ s.hash = None)

(* RemoteWorkspace::FetchedObject; hash None is `missing', delta is the base *)
(* the bytes were encoded against, None when they came whole.                *)
Object == [kind : {"object"}, path : Paths, row : Row, delta : Hash]
WatchDelta == [kind : {"delta"}, id : Nat, changed : SUBSET Paths, rows : [Paths -> Row]]
Manifest == [kind : {"manifest"}]   \* the rows themselves are in `call'

(* The jobs of the queue. *)
Note == [kind : {"note"}, path : Paths]             \* NotifyLocalWrite
Push == [kind : {"push"}, paths : SUBSET Paths]     \* PushNow, for each
Approve == [kind : {"approve"}, undoable : BOOLEAN] \* ApproveHeldDeletes, watch/moved
Sync == [kind : {"sync"}]                           \* SyncNow
Job == Note \cup Push \cup Approve \cup Sync \cup Object \cup WatchDelta

(* SetAside; object/fetch; a write the client no longer waits for. *)
SetAside == [path : Paths, entry : Entry, content : Contents]
Compare == [path : Paths, was : Hash]   \* a file of tree/ that was compared
Pull == [paths : SUBSET Paths, base : [Paths -> Hash], read : Seq(Object)]
Write == [job : {"push", "keep"}, path : Paths, content : Hash, expect : Precondition,
          checked : BOOLEAN]

Call == [job : {"none", "push", "keep", "take", "fetch", "sync"},
         st : {"idle", "sent", "checked", "written", "answered"},
         path : Paths \cup {None}, content : Hash, expect : Precondition,
         ok : BOOLEAN, row : Row, manifest : Nat, rows : [Paths -> Row]]

NoCall == [job |-> "none", st |-> "idle", path |-> None, content |-> None,
           expect |-> None, ok |-> FALSE, row |-> NoRow, manifest |-> 0,
           rows |-> [p \in Paths |-> NoRow]]

(* A request about a file names it, and a push has bytes to send. *)
WellFormed(c) ==
    /\ c \in Call
    /\ c.job \in {"push", "keep", "take", "fetch"} => c.path \in Paths
    /\ c.job = "push" => c.content \in Contents

(* `checked' is the file the running step has compared and not replaced yet.  *)
Todo == [deletes : SUBSET Paths, undoable : BOOLEAN, restores : SUBSET SetAside,
         fills : SUBSET Object, checked : SUBSET Compare]
NothingToDo == [deletes |-> {}, undoable |-> FALSE, restores |-> {}, fills |-> {},
                checked |-> {}]

Count == [saves : Nat, tools : Nat, edits : Nat, faults : Nat, asks : Nat]

(* The worker takes a job only when the one before it has returned. *)
Idle ==
    /\ call.job = "none"
    /\ todo.deletes = {} /\ todo.restores = {} /\ todo.fills = {} /\ todo.checked = {}
NextJob(kind) == Idle /\ queue # <<>> /\ Head(queue).kind = kind

(* PathLock(p): ResolveNow holds it across its call to the host, DeleteNow and *)
(* ApplyFetched from their check of the file to its replacement.              *)
PathLocked(p) ==
    \/ call.job \in {"keep", "take"} /\ call.path = p
    \/ \E k \in todo.checked : k.path = p

-----------------------------------------------------------------------------
(* PushNow after an unanswered write: the bounded list of own bytes the host *)
(* may hold.                                                                 *)
NoteUnacknowledged(s, c) ==
    IF Len(s) < MaxUnacknowledged THEN Append(s, c) ELSE Append(Tail(s), c)

-----------------------------------------------------------------------------
(* A mirror opened from its state file, or for the first time, and not yet   *)
(* connected; the host may hold anything.                                    *)
Init ==
    /\ local \in [Paths -> Hash]
    /\ host \in [Paths -> Hash]
    /\ entries = [p \in Paths |->
          IF local[p] = None THEN NoEntry
          ELSE [NoEntry EXCEPT !.known = TRUE, !.hasRemote = TRUE, !.base = local[p],
                               !.remote = [hash |-> local[p], ver |-> 0]]]
    /\ saving = {} /\ manifestId = 0 /\ held = {} /\ aside = {}
    /\ queue = <<>> /\ todo = NothingToDo /\ call = NoCall
    /\ link = "down" /\ wire = <<>> /\ pulls = <<>> /\ late = {}
    /\ touched = {} /\ nextId = 1 /\ primed = FALSE
    /\ sent = [p \in Paths |-> NoRow]
    /\ hostVer = [p \in Paths |-> IF host[p] = local[p] THEN 0 ELSE 1]
    /\ seen = [p \in Paths |-> 0]
    /\ synced = FALSE /\ stale = {} /\ unannounced = {}
    /\ wasLocal = [p \in Paths |-> {local[p]} \ {None}]
    /\ wasHost = [p \in Paths |-> {local[p], host[p]} \ {None}]
    /\ count = [saves |-> 0, tools |-> 0, edits |-> 0, faults |-> 0, asks |-> 0]

(* tree/ holds c at p from now on. *)
TreeTakes(p, c) ==
    /\ local' = [local EXCEPT ![p] = c]
    /\ wasLocal' = [wasLocal EXCEPT ![p] = @ \cup ({c} \ {None})]

(* The host's file p holds c from now on; its watch will report the path. *)
HostTakes(p, c) ==
    /\ host' = [host EXCEPT ![p] = c]
    /\ hostVer' = [hostVer EXCEPT ![p] = @ + 1]
    /\ wasHost' = [wasHost EXCEPT ![p] = @ \cup ({c} \ {None})]
    /\ touched' = touched \cup {p}

(* MirrorObjects (meta/objects): what tree/ has held, up to a budget, so it  *)
(* may or may not still have the bytes.                                      *)
Stored == UNION {wasLocal[p] : p \in Paths}

(* History: the engine now has version ver of p; no later than a hold on p,  *)
(* whose approval would still delete it.                                     *)
CaughtUp(p, ver) == IF ver = hostVer[p] /\ p \notin held THEN stale \ {p} ELSE stale

-----------------------------------------------------------------------------
(* The user and the tools beside the editor *)

(* MirrorWriteGate::WriteText: the save lands in tree/ under the path's lock, *)
SaveWrite(p, c) ==
    /\ count.saves < MaxSaves
    /\ ~PathLocked(p) /\ p \notin saving
    /\ TreeTakes(p, c)
    /\ saving' = saving \cup {p}
    /\ count' = [count EXCEPT !.saves = @ + 1]
    /\ UNCHANGED <<entries, manifestId, held, aside, queue, todo, call, link, wire, pulls,
                   serverVars, hostVars, seen, synced, stale, unannounced>>

(* and then, the lock released, the engine is told. *)
SaveNotify(p) ==
    /\ p \in saving
    /\ saving' = saving \ {p}
    /\ queue' = Append(queue, [kind |-> "note", path |-> p])
    /\ unannounced' = IF local[p] = None THEN unannounced ELSE unannounced \ {p}
    /\ UNCHANGED <<local, entries, manifestId, held, aside, todo, call, link, wire, pulls,
                   serverVars, hostVars, seen, synced, stale, wasLocal, count>>

(* Something other than the editor's save writes or removes a tree/ file. *)
ToolWrite(p, c) ==
    /\ count.tools < MaxTools
    /\ c # local[p]
    /\ TreeTakes(p, c)
    /\ unannounced' = unannounced \cup {p}
    /\ count' = [count EXCEPT !.tools = @ + 1]
    /\ UNCHANGED <<saving, entries, manifestId, held, aside, queue, todo, call, link, wire,
                   pulls, serverVars, hostVars, seen, synced, stale>>

(* A process on the host writes or removes a file. *)
HostEdit(p, c) ==
    /\ count.edits < MaxEdits
    /\ c # host[p]
    /\ HostTakes(p, c)
    /\ count' = [count EXCEPT !.edits = @ + 1]
    /\ UNCHANGED <<local, saving, entries, manifestId, held, aside, queue, todo, call, link,
                   wire, pulls, serverVars, seen, synced, stale, unannounced, wasLocal>>

-----------------------------------------------------------------------------
(* Pushes *)

(* Mutant: the swap compares with the newest row, not with the base. *)
StartPushOverRow(p, es) ==
    LET e == es[p]
    IN  /\ entries' = es
        /\ call' = IF e.known /\ e.pending /\ local[p] # None /\ link = "up"
                   THEN [NoCall EXCEPT !.job = "push", !.st = "sent", !.path = p,
                                       !.content = local[p], !.expect = e.remote.hash]
                   ELSE call
        /\ stale' = stale

(* PushNow up to its WriteFileSync, given the entries the job has made.  A    *)
(* file that is gone is no longer pending, and the host's row is not pulled.  *)
StartPush(p, es) ==
    LET e == es[p]
    IN  /\ entries' = IF e.known /\ e.pending /\ local[p] = None
                      THEN [es EXCEPT ![p].pending = FALSE]
                      ELSE es
        /\ call' = IF e.known /\ e.pending /\ local[p] # None /\ link = "up"
                   THEN [NoCall EXCEPT !.job = "push", !.st = "sent", !.path = p,
                                       !.content = local[p], !.expect = e.base]
                   ELSE call
        /\ stale' = IF e.known /\ e.pending /\ local[p] = None THEN stale \cup {p} ELSE stale

(* NotifyLocalWrite's job: journal the save, then push it. *)
NotifyLocalWrite ==
    /\ NextJob("note")
    /\ queue' = Tail(queue)
    /\ LET p == Head(queue).path
       IN  StartPush(p, [entries EXCEPT ![p].known = TRUE, ![p].pending = TRUE])
    /\ UNCHANGED <<local, saving, manifestId, held, aside, todo, link, wire, pulls,
                   serverVars, hostVars, seen, synced, unannounced, wasLocal, count>>

PushNow(p) ==
    /\ NextJob("push") /\ p \in Head(queue).paths
    /\ queue' = IF Head(queue).paths = {p} THEN Tail(queue)
                ELSE <<[kind |-> "push", paths |-> Head(queue).paths \ {p}]>> \o Tail(queue)
    /\ StartPush(p, entries)
    /\ UNCHANGED <<local, saving, manifestId, held, aside, todo, link, wire, pulls,
                   serverVars, hostVars, seen, synced, unannounced, wasLocal, count>>

(* The answer's bytes are ones this mirror sent: accepted now, held already, *)
(* or an earlier push whose answer was lost.                                 *)
OwnBytes(e, c) == c.ok \/ c.row.hash = c.content \/ Contains(e.unack, c.row.hash)

(* Mutants: a save made while the push was in flight is forgotten; a refused *)
(* push makes its own bytes the base.                                        *)
AfterPushSettled(e, c, l) ==
    IF OwnBytes(e, c)
    THEN [e EXCEPT !.base = c.row.hash, !.conflict = FALSE, !.pending = FALSE,
                   !.pushed = c.manifest, !.unack = <<>>,
                   !.remote = IF e.hasRemote THEN c.row ELSE @]
    ELSE [e EXCEPT !.conflict = TRUE, !.unack = <<>>]

AfterPushAdoptsOwn(e, c, l) ==
    [e EXCEPT !.base = c.content, !.conflict = ~OwnBytes(e, c),
              !.pending = l # c.content, !.pushed = c.manifest, !.unack = <<>>]

(* PushNow's second half: the entry after the host's answer c, l being what  *)
(* tree/ holds by now.                                                       *)
AfterPush(e, c, l) ==
    LET acked == [e EXCEPT !.base = c.row.hash, !.conflict = FALSE,
                           !.pushed = c.manifest, !.unack = <<>>,
                           !.remote = IF e.hasRemote THEN c.row ELSE @]
    IN  CASE c.ok ->
               [acked EXCEPT !.pending = (l # c.row.hash),
                             !.localOnly = IF e.hasRemote THEN @ ELSE TRUE]
          [] ~c.ok /\ c.row.hash = c.content ->
               [acked EXCEPT !.pending = FALSE]
          [] ~c.ok /\ c.row.hash # c.content /\ Contains(e.unack, c.row.hash) ->
               acked
          [] OTHER ->
               [e EXCEPT !.conflict = TRUE, !.unack = <<>>,
                         !.hasRemote = IF c.row.hash = None THEN FALSE ELSE @]

(* Mutant: a refused push is tried again at once. *)
PushAgainRefused(e, c, l) == ~c.ok \/ l # c.row.hash

(* The answers after which PushNow posts itself again. *)
PushAgain(e, c, l) ==
    \/ c.ok /\ l # c.row.hash
    \/ ~c.ok /\ c.row.hash # c.content /\ Contains(e.unack, c.row.hash)

PushAnswered ==
    /\ call.job = "push" /\ call.st = "answered"
    /\ LET p == call.path
           e == entries[p]
       IN  /\ entries' = IF e.known THEN [entries EXCEPT ![p] = AfterPush(e, call, local[p])]
                         ELSE entries
           /\ queue' = IF e.known /\ PushAgain(e, call, local[p])
                       THEN Append(queue, [kind |-> "push", paths |-> {p}])
                       ELSE queue
           /\ seen' = IF OwnBytes(e, call) THEN [seen EXCEPT ![p] = call.row.ver] ELSE seen
           /\ stale' = IF OwnBytes(e, call) THEN CaughtUp(p, call.row.ver) ELSE stale
    /\ call' = NoCall
    /\ UNCHANGED <<local, saving, manifestId, held, aside, todo, link, wire, pulls,
                   serverVars, hostVars, synced, unannounced, wasLocal, count>>

-----------------------------------------------------------------------------
(* Plans: what a reconcile leaves for Execute *)

(* HoldMassDeleteLocked: the deletes are carried out, or all held for the    *)
(* user, and the ones of the last while undone and held with them.  Which of *)
(* the two is a matter of counts and of a time window, and left open here;   *)
(* so is how much of set_aside_ has expired.                                 *)
PlanDeletes(deletes, fills, h) ==
    \E kept \in SUBSET aside :
        \/ /\ todo' = [deletes |-> deletes, undoable |-> deletes # {}, restores |-> {},
                       fills |-> fills, checked |-> {}]
           /\ held' = h /\ aside' = kept
        \/ /\ deletes # {}
           /\ todo' = [deletes |-> {}, undoable |-> FALSE, restores |-> kept,
                       fills |-> fills, checked |-> {}]
           /\ held' = h \cup deletes /\ aside' = {}

(* Execute: R gives each path's new entry and plan item; q is the rest of    *)
(* the queue, behind which the pushes are posted.  Pulls whose bytes         *)
(* meta/objects still holds are filled at once (FillFromStore), the others   *)
(* asked for; a delta is asked against the base the tree's copy matched.     *)
Execute(R, rows, h, q) ==
    LET planned(a) == {p \in Paths : R[p].act = a}
    IN  /\ entries' = [p \in Paths |-> R[p].entry]
        /\ queue' = IF planned("push") = {} THEN q
                    ELSE Append(q, [kind |-> "push", paths |-> planned("push")])
        /\ \E filled \in SUBSET {p \in planned("pull") : rows[p].hash \in Stored} :
              /\ PlanDeletes(planned("delete"),
                             {[kind |-> "object", path |-> p, row |-> rows[p],
                               delta |-> None] : p \in filled}, h)
              /\ pulls' = IF link = "up" /\ planned("pull") # filled
                          THEN Append(pulls, [paths |-> planned("pull") \ filled,
                                              base |-> [p \in Paths |-> R[p].entry.base],
                                              read |-> <<>>])
                          ELSE pulls

(* History: a row showing the bytes tree/ holds is a version the mirror has. *)
SeenInRows(listed, rows) ==
    [p \in Paths |-> IF p \in listed /\ local[p] = rows[p].hash /\ rows[p].ver > seen[p]
                     THEN rows[p].ver ELSE seen[p]]

(* History: a listed path the reconcile did not skip has been compared. *)
Compared(listed, R) == {p \in listed : R[p].act # "skip"}

(* SyncNow up to its FetchManifestSync. *)
SyncNow ==
    /\ NextJob("sync")
    /\ queue' = Tail(queue)
    /\ call' = IF link = "up" THEN [NoCall EXCEPT !.job = "sync", !.st = "sent"] ELSE call
    /\ UNCHANGED <<local, saving, entries, manifestId, held, aside, todo, link, wire, pulls,
                   serverVars, hostVars, seen, synced, stale, unannounced, wasLocal, count>>

(* Mutant: pushed_manifest survives a full manifest, and with it the numbers *)
(* of a server that is gone.                                                 *)
SyncAnsweredKeepsPushed ==
    /\ call.job = "sync" /\ call.st = "answered"
    /\ LET listed == {p \in Paths : call.rows[p].hash # None}
           R == [p \in Paths |->
                   IF p \in listed
                   THEN ReconcileRow(entries[p], local[p], call.rows[p], call.manifest)
                   ELSE IF entries[p].known THEN ReconcileDelete(entries[p], local[p])
                   ELSE [entry |-> entries[p], act |-> "none"]]
       IN  /\ Execute(R, call.rows, {}, queue)
           /\ seen' = SeenInRows(listed, call.rows)
           /\ unannounced' = unannounced \ Compared(listed, R)
    /\ manifestId' = call.manifest
    /\ synced' = TRUE /\ stale' = {p \in stale : call.rows[p].ver < hostVer[p]}
    /\ call' = NoCall
    /\ UNCHANGED <<local, saving, link, wire, serverVars, hostVars, wasLocal, count>>

(* SyncNow from the manifest on: every row and every unlisted entry, under a *)
(* fresh push-echo comparison; the deletes held before are decided again.    *)
SyncAnswered ==
    /\ call.job = "sync" /\ call.st = "answered"
    /\ LET listed == {p \in Paths : call.rows[p].hash # None}
           fresh(p) == [entries[p] EXCEPT !.pushed = 0]
           R == [p \in Paths |->
                   IF p \in listed
                   THEN ReconcileRow(fresh(p), local[p], call.rows[p], call.manifest)
                   ELSE IF entries[p].known THEN ReconcileDelete(fresh(p), local[p])
                   ELSE [entry |-> entries[p], act |-> "none"]]
       IN  /\ Execute(R, call.rows, {}, queue)
           /\ seen' = SeenInRows(listed, call.rows)
           /\ unannounced' = unannounced \ Compared(listed, R)
    /\ manifestId' = call.manifest
    /\ synced' = TRUE /\ stale' = {p \in stale : call.rows[p].ver < hostVer[p]}
    /\ call' = NoCall
    /\ UNCHANGED <<local, saving, link, wire, serverVars, hostVars, wasLocal, count>>

(* ApplyWatchDelta's job. *)
ApplyWatchDelta ==
    /\ NextJob("delta")
    /\ LET d == Head(queue)
           listed == {p \in d.changed : d.rows[p].hash # None}
           R == [p \in Paths |->
                   IF p \in listed THEN ReconcileRow(entries[p], local[p], d.rows[p], d.id)
                   ELSE IF p \in d.changed /\ entries[p].known
                        THEN IF d.id > entries[p].pushed
                             THEN ReconcileDelete(entries[p], local[p])
                             ELSE [entry |-> entries[p], act |-> "skip"]
                   ELSE [entry |-> entries[p], act |-> "none"]]
           skipped == {p \in d.changed : R[p].act = "skip"}
       IN  IF d.id < manifestId
           THEN /\ queue' = Tail(queue)
                /\ UNCHANGED <<entries, todo, held, aside, pulls, manifestId, seen, stale,
                               unannounced>>
           ELSE /\ Execute(R, d.rows, held \ listed, Tail(queue))
                /\ manifestId' = d.id
                /\ unannounced' = unannounced \ Compared(listed, R)
                /\ seen' = SeenInRows(listed \ skipped, d.rows)
                /\ stale' = {p \in stale : ~(p \in d.changed \ skipped /\ d.rows[p].ver = hostVer[p])}
                              \cup {p \in skipped : d.rows[p].ver > seen[p]}
                              \cup {p \in d.changed : d.rows[p].ver < seen[p] /\ (p \in skipped => p \in held)}
    /\ UNCHANGED <<local, saving, call, link, wire, serverVars, hostVars, synced, wasLocal,
                   count>>

(* What is left of the job when p's delete has been dealt with. *)
AfterDelete(p) ==
    [todo EXCEPT !.deletes = @ \ {p}, !.undoable = @ /\ todo.deletes # {p}, !.checked = {}]

(* DeleteNow, one path, up to its check of tree/ (CheckExpect): under expect = *)
(* base, or Anything with no base.                                            *)
DeleteNow(p) ==
    /\ p \in todo.deletes /\ todo.checked = {}
    /\ LET e == entries[p]
           skipped == ~e.known \/ e.pending \/ e.conflict
           allowed == e.base = None \/ local[p] = e.base
           goes == ~skipped /\ allowed /\ local[p] # None
       IN  /\ todo' = IF goes THEN [todo EXCEPT !.checked = {[path |-> p, was |-> local[p]]}]
                      ELSE AfterDelete(p)
           /\ entries' = CASE skipped \/ goes          -> entries
                           [] ~skipped /\ allowed /\ ~goes -> [entries EXCEPT ![p] = NoEntry]
                           [] ~skipped /\ ~allowed     ->
                                [entries EXCEPT ![p].hasRemote = FALSE, ![p].conflict = TRUE]
    /\ UNCHANGED <<local, saving, manifestId, held, aside, queue, call, link, wire, pulls,
                   serverVars, hostVars, seen, synced, stale, unannounced, wasLocal, count>>

(* DeleteNow from there: whatever is there by now is renamed aside, or        *)
(* unlinked.  A file that a tool removed meanwhile cannot be set aside, and   *)
(* the plain delete tried next compares again; when that was the delete       *)
(* tried, it is an error, which leaves the record as it is.                   *)
RemoveChecked(k) ==
    LET p == k.path
        e == entries[p]
        gone == local[p] = None
    IN  /\ k \in todo.checked /\ p \in todo.deletes
        /\ todo' = AfterDelete(p)
        /\ entries' = CASE ~gone \/ (todo.undoable /\ e.base = None) ->
                             [entries EXCEPT ![p] = NoEntry]
                        [] gone /\ todo.undoable /\ e.base # None ->
                             [entries EXCEPT ![p].hasRemote = FALSE, ![p].conflict = TRUE]
                        [] gone /\ ~todo.undoable -> entries
        /\ local' = [local EXCEPT ![p] = None]
        /\ aside' = IF ~gone /\ todo.undoable
                    THEN aside \cup {[path |-> p, entry |-> e, content |-> local[p]]}
                    ELSE aside
        /\ stale' = IF gone /\ ~todo.undoable THEN stale \cup {p} ELSE stale
        /\ UNCHANGED <<saving, manifestId, held, queue, call, link, wire, pulls, serverVars,
                       hostVars, seen, synced, unannounced, wasLocal, count>>

(* The file cannot be removed: the record is left as it is, and nothing said. *)
DeleteFails(k) ==
    /\ k \in todo.checked /\ k.path \in todo.deletes /\ count.faults < MaxFaults
    /\ todo' = AfterDelete(k.path)
    /\ stale' = stale \cup {k.path}
    /\ count' = [count EXCEPT !.faults = @ + 1]
    /\ UNCHANGED <<local, saving, entries, manifestId, held, aside, queue, call, link, wire,
                   pulls, serverVars, hostVars, seen, synced, unannounced, wasLocal>>

(* Mutant: a file put back is not held with the other deletes. *)
RestoreNowUnheld(s) ==
    /\ todo.deletes = {} /\ todo.checked = {} /\ s \in todo.restores
    /\ todo' = [todo EXCEPT !.restores = @ \ {s}]
    /\ local' = [local EXCEPT ![s.path] = s.content]
    /\ entries' = [entries EXCEPT ![s.path] = s.entry]
    /\ UNCHANGED <<saving, manifestId, held, aside, queue, call, link, wire, pulls, serverVars,
                   hostVars, seen, synced, stale, unannounced, wasLocal, count>>

(* RestoreNow, one path: put back as it was, unless it was listed or written *)
(* again since.                                                              *)
RestoreNow(s) ==
    /\ todo.deletes = {} /\ todo.checked = {} /\ s \in todo.restores
    /\ todo' = [todo EXCEPT !.restores = @ \ {s}]
    /\ IF ~entries[s.path].known /\ local[s.path] = None
       THEN /\ local' = [local EXCEPT ![s.path] = s.content]
            /\ entries' = [entries EXCEPT ![s.path] = s.entry]
            /\ held' = held \cup {s.path}
            /\ unannounced' = IF s.content # s.entry.base THEN unannounced \cup {s.path}
                              ELSE unannounced
            /\ stale' = IF host[s.path] # None THEN stale \cup {s.path} ELSE stale
       ELSE UNCHANGED <<local, entries, held, unannounced, stale>>
    /\ UNCHANGED <<saving, manifestId, aside, queue, call, link, wire, pulls, serverVars,
                   hostVars, seen, synced, wasLocal, count>>

(* The user approves the held deletes, or the host's branch switch owns them. *)
RequestApproval(undoable) ==
    /\ held # {} /\ (undoable => link = "up") /\ count.asks < MaxAsks
    /\ count' = [count EXCEPT !.asks = @ + 1]
    /\ queue' = Append(queue, [kind |-> "approve", undoable |-> undoable])
    /\ UNCHANGED <<local, saving, entries, manifestId, held, aside, todo, call, link, wire,
                   pulls, serverVars, hostVars, seen, synced, stale, unannounced, wasLocal>>

ApproveHeldDeletes ==
    /\ NextJob("approve")
    /\ queue' = Tail(queue)
    /\ todo' = [todo EXCEPT !.deletes = held, !.undoable = Head(queue).undoable]
    /\ held' = {}
    /\ UNCHANGED <<local, saving, entries, manifestId, aside, call, link, wire, pulls,
                   serverVars, hostVars, seen, synced, stale, unannounced, wasLocal, count>>

-----------------------------------------------------------------------------
(* Pulls *)

(* Mutant: the tree's copy is not compared before it is written over. *)
FetchedUnchecked(e, l, o) ==
    IF ~e.known \/ e.pending \/ e.conflict THEN "skipped" ELSE "clear"

(* ApplyFetched's check, for one object that is there. *)
Fetched(e, l, o) ==
    LET check == CheckLocal(l, e.base)
    IN  CASE ~e.known \/ e.pending \/ e.conflict -> "skipped"
          [] e.known /\ ~e.pending /\ ~e.conflict /\ check = "differs" -> "parked"
          [] e.known /\ ~e.pending /\ ~e.conflict /\ check # "differs"
               /\ o.delta # None /\ l # o.delta -> "unapplied"
          [] OTHER -> "clear"

(* ApplyFetched up to that check: the way is clear for the bytes, or the path *)
(* is parked; an object the host no longer has is a delete                    *)
(* (ReconcileMissingPulls).  `fills' is what the job still has to fill from   *)
(* the store.                                                                 *)
ApplyFetched(o, fills) ==
    LET p == o.path
        e == entries[p]
        f == Fetched(e, local[p], o)
        gone == e.known /\ e.hasRemote /\ ~e.pending /\ ~e.conflict
        r == IF gone THEN ReconcileDelete(e, local[p]) ELSE [entry |-> e, act |-> "none"]
    IN  /\ IF o.row.hash = None
           THEN /\ entries' = [entries EXCEPT ![p] = r.entry]
                /\ PlanDeletes(IF r.act = "delete" THEN {p} ELSE {}, fills, held)
                /\ stale' = IF gone /\ o.row.ver < e.remote.ver THEN stale \cup {p} ELSE stale
                /\ UNCHANGED unannounced
           ELSE /\ entries' = IF f = "parked" THEN [entries EXCEPT ![p].conflict = TRUE]
                              ELSE entries
                /\ stale' = IF f = "unapplied" THEN stale \cup {p} ELSE stale
                /\ unannounced' = IF f = "parked" THEN unannounced \ {p} ELSE unannounced
                /\ todo' = IF f = "clear"
                           THEN [todo EXCEPT !.fills = fills \cup {o},
                                             !.checked = {[path |-> p, was |-> local[p]]}]
                           ELSE [todo EXCEPT !.fills = fills]
                /\ UNCHANGED <<held, aside>>
        /\ UNCHANGED <<local, wasLocal, seen>>

(* ApplyFetched from there: WriteTreeFile compares the file with what it was, *)
(* and renames the new bytes over it; only where no file was does the rename  *)
(* itself refuse (RenameNoReplace).  A tool may write before or after that    *)
(* comparison, and before the file is read to apply a delta to it.            *)
FetchedWritten(k, o) ==
    LET p == o.path
    IN  /\ k.was = None => local[p] = None
        /\ TreeTakes(p, o.row.hash)
        /\ entries' = [entries EXCEPT ![p].base = o.row.hash, ![p].remote = o.row]
        /\ seen' = IF o.row.ver > seen[p] THEN [seen EXCEPT ![p] = o.row.ver] ELSE seen
        /\ stale' = IF o.row.ver < entries[p].remote.ver \/ p \in held THEN stale \cup {p}
                    ELSE CaughtUp(p, o.row.ver)
        /\ unannounced' = unannounced \ {p}

FetchedRefused(k, o) ==
    LET p == o.path
    IN  /\ local[p] # k.was
        /\ \/ /\ entries' = [entries EXCEPT ![p].conflict = TRUE]
              /\ unannounced' = unannounced \ {p}
              /\ stale' = stale
           \/ /\ o.delta # None
              /\ stale' = stale \cup {p}
              /\ UNCHANGED <<entries, unannounced>>
        /\ UNCHANGED <<local, wasLocal, seen>>

WriteFetched(k, o) ==
    /\ k \in todo.checked /\ o \in todo.fills /\ o.path = k.path /\ todo.deletes = {}
    /\ todo' = [todo EXCEPT !.fills = @ \ {o}, !.checked = {}]
    /\ FetchedWritten(k, o) \/ FetchedRefused(k, o)
    /\ UNCHANGED <<saving, manifestId, held, aside, queue, call, link, wire, pulls, serverVars,
                   hostVars, synced, count>>

(* The file cannot be written: the status shows the error, and the next       *)
(* manifest asks again.                                                       *)
WriteFails(k, o) ==
    /\ k \in todo.checked /\ o \in todo.fills /\ o.path = k.path /\ todo.deletes = {}
    /\ count.faults < MaxFaults
    /\ todo' = [todo EXCEPT !.fills = @ \ {o}, !.checked = {}]
    /\ stale' = stale \cup {k.path}
    /\ count' = [count EXCEPT !.faults = @ + 1]
    /\ UNCHANGED <<local, saving, entries, manifestId, held, aside, queue, call, link, wire,
                   pulls, serverVars, hostVars, seen, synced, unannounced, wasLocal>>

(* Objects the I/O thread posted. *)
ApplyPulled ==
    /\ NextJob("object")
    /\ queue' = Tail(queue)
    /\ ApplyFetched(Head(queue), {})
    /\ UNCHANGED <<saving, manifestId, call, link, wire, pulls, serverVars, hostVars, synced,
                   count>>

(* An object of the plan that meta/objects still held. *)
ApplyFill(o) ==
    /\ todo.deletes = {} /\ todo.restores = {} /\ todo.checked = {} /\ o \in todo.fills
    /\ ApplyFetched(o, todo.fills \ {o})
    /\ UNCHANGED <<saving, manifestId, queue, call, link, wire, pulls, serverVars, hostVars,
                   synced, count>>

(* Prioritize: a tab opened a file whose bytes are not the host's last row.  *)
(* From the store, or asked for on the interactive lane, ahead of the pulls. *)
Prioritize(p) ==
    /\ Idle /\ count.asks < MaxAsks
    /\ count' = [count EXCEPT !.asks = @ + 1]
    /\ LET e == entries[p]
       IN  /\ e.known /\ e.hasRemote /\ ~e.pending /\ ~e.conflict /\ e.base # e.remote.hash
           /\ \/ /\ e.remote.hash \in Stored
                 /\ todo' = [todo EXCEPT !.fills =
                       {[kind |-> "object", path |-> p, row |-> e.remote, delta |-> None]}]
                 /\ call' = call
              \/ /\ link = "up"
                 /\ call' = [NoCall EXCEPT !.job = "fetch", !.st = "sent", !.path = p]
                 /\ todo' = todo
    /\ UNCHANGED <<local, saving, entries, manifestId, held, aside, queue, link, wire, pulls,
                   serverVars, hostVars, seen, synced, stale, unannounced, wasLocal>>

FetchAnswered ==
    /\ call.job = "fetch" /\ call.st = "answered"
    /\ ApplyFetched([kind |-> "object", path |-> call.path, row |-> call.row,
                     delta |-> None], {})
    /\ call' = NoCall
    /\ UNCHANGED <<saving, manifestId, queue, link, wire, pulls, serverVars, hostVars, synced,
                   count>>

-----------------------------------------------------------------------------
(* Conflicts *)

(* ResolveNow(KeepLocal): the tree's bytes, or their absence, over whatever  *)
(* the host has, or over the version the user merged with.                   *)
KeepLocal(p, expect) ==
    /\ Idle /\ link = "up" /\ count.asks < MaxAsks
    /\ entries[p].known /\ entries[p].conflict
    /\ call' = [NoCall EXCEPT !.job = "keep", !.st = "sent", !.path = p,
                              !.content = local[p], !.expect = expect]
    /\ count' = [count EXCEPT !.asks = @ + 1]
    /\ UNCHANGED <<local, saving, entries, manifestId, held, aside, queue, todo, link, wire,
                   pulls, serverVars, hostVars, seen, synced, stale, unannounced, wasLocal>>

KeepAnswered ==
    /\ call.job = "keep" /\ call.st = "answered"
    /\ LET p == call.path
           e == entries[p]
           kept == [e EXCEPT !.conflict = FALSE, !.pending = FALSE, !.base = call.row.hash,
                             !.remote = IF e.hasRemote THEN call.row ELSE @,
                             !.localOnly = IF e.hasRemote THEN @ ELSE TRUE]
       IN  /\ entries' = IF ~e.known \/ ~call.ok THEN entries
                         ELSE [entries EXCEPT ![p] = IF call.content = None THEN NoEntry
                                                     ELSE kept]
           /\ seen' = IF call.ok THEN [seen EXCEPT ![p] = call.row.ver] ELSE seen
           /\ stale' = IF call.ok THEN CaughtUp(p, call.row.ver) ELSE stale
    /\ call' = NoCall
    /\ UNCHANGED <<local, saving, manifestId, held, aside, queue, todo, link, wire, pulls,
                   serverVars, hostVars, synced, unannounced, wasLocal, count>>

(* ResolveNow(TakeRemote) up to its fetch, and from its answer on. *)
TakeRemote(p) ==
    /\ Idle /\ link = "up" /\ count.asks < MaxAsks
    /\ entries[p].known /\ entries[p].conflict
    /\ call' = [NoCall EXCEPT !.job = "take", !.st = "sent", !.path = p]
    /\ count' = [count EXCEPT !.asks = @ + 1]
    /\ UNCHANGED <<local, saving, entries, manifestId, held, aside, queue, todo, link, wire,
                   pulls, serverVars, hostVars, seen, synced, stale, unannounced, wasLocal>>

TakeAnswered ==
    /\ call.job = "take" /\ call.st = "answered"
    /\ LET p == call.path
           taken == [entries[p] EXCEPT !.conflict = FALSE, !.pending = FALSE,
                                       !.localOnly = FALSE, !.hasRemote = TRUE,
                                       !.base = call.row.hash, !.remote = call.row]
       IN  /\ TreeTakes(p, call.row.hash)
           /\ entries' = IF ~entries[p].known THEN entries
                         ELSE [entries EXCEPT ![p] = IF call.row.hash = None THEN NoEntry
                                                     ELSE taken]
           /\ seen' = [seen EXCEPT ![p] = call.row.ver]
           /\ stale' = CaughtUp(p, call.row.ver)
           /\ unannounced' = unannounced \ {p}
    /\ call' = NoCall
    /\ UNCHANGED <<saving, manifestId, held, aside, queue, todo, link, wire, pulls,
                   serverVars, hostVars, synced, count>>

-----------------------------------------------------------------------------
(* The server tree *)

(* The tree's io_queue runs one request at a time: a batch of pulls once     *)
(* begun is read and answered, and a write answered, before the next starts. *)
Reading == pulls # <<>> /\ Head(pulls).read # <<>>
Writing ==
    \/ call.job \in {"push", "keep"} /\ call.st \in {"checked", "written"}
    \/ \E r \in late : r.checked

(* TreeFiles' compare-and-swap is a check of what is there (CheckExpect), *)
Expected(r) == r.expect = Anything \/ r.expect = host[r.path]

(* and later a rename over whatever is there by then; only a write that      *)
(* expects nothing there is refused by the rename itself (RenameNoReplace).  *)
Replaces(r) == r.expect = None => host[r.path] = None
Replaced(r) == IF Replaces(r) THEN HostTakes(r.path, r.content) ELSE UNCHANGED hostVars

(* file/write (and fs/op delete) on the tree's io_queue: the check, ... *)
ServerCheck ==
    /\ call.job \in {"push", "keep"} /\ call.st = "sent" /\ ~Reading /\ ~Writing
    /\ call' = IF Expected(call) THEN [call EXCEPT !.st = "checked"]
               ELSE [call EXCEPT !.st = "written", !.row = HostRow(call.path)]
    /\ UNCHANGED <<local, saving, entries, manifestId, held, aside, queue, todo, link, wire,
                   pulls, serverVars, hostVars, seen, synced, stale, unannounced, wasLocal,
                   count>>

(* ... the temporary file renamed over the old one, ... *)
ServerWrite ==
    /\ call.job \in {"push", "keep"} /\ call.st = "checked"
    /\ Replaced(call)
    /\ call' = [call EXCEPT !.st = "written", !.ok = Replaces(call),
                            !.row = [hash |-> host'[call.path], ver |-> hostVer'[call.path]]]
    /\ UNCHANGED <<local, saving, entries, manifestId, held, aside, queue, todo, link, wire,
                   pulls, serverVars, seen, synced, stale, unannounced, wasLocal, count>>

(* ... and then the line NewestManifestId draws, in the answer. *)
ServerAnswer ==
    /\ call.job \in {"push", "keep"} /\ call.st = "written"
    /\ call' = [call EXCEPT !.st = "answered", !.manifest = nextId - 1]
    /\ UNCHANGED <<local, saving, entries, manifestId, held, aside, queue, todo, link, wire,
                   pulls, serverVars, hostVars, seen, synced, stale, unannounced, wasLocal,
                   count>>

(* A write whose client stopped waiting for it, in the same two steps. *)
LateCheck(r) ==
    /\ r \in late /\ ~Reading /\ ~Writing
    /\ late' = (late \ {r}) \cup IF Expected(r) THEN {[r EXCEPT !.checked = TRUE]} ELSE {}
    /\ UNCHANGED <<local, saving, entries, manifestId, held, aside, queue, todo, call, link,
                   wire, pulls, nextId, primed, sent, hostVars, seen, synced, stale,
                   unannounced, wasLocal, count>>

LateWrite(r) ==
    /\ r \in late /\ r.checked
    /\ late' = late \ {r}
    /\ Replaced(r)
    /\ UNCHANGED <<local, saving, entries, manifestId, held, aside, queue, todo, call, link,
                   wire, pulls, nextId, primed, sent, seen, synced, stale, unannounced,
                   wasLocal, count>>

(* object/fetch on the interactive lane. *)
ServerRead ==
    /\ call.job \in {"fetch", "take"} /\ call.st = "sent" /\ ~Reading /\ ~Writing
    /\ call' = [call EXCEPT !.st = "answered", !.row = HostRow(call.path)]
    /\ UNCHANGED <<local, saving, entries, manifestId, held, aside, queue, todo, link, wire,
                   pulls, serverVars, hostVars, seen, synced, stale, unannounced, wasLocal,
                   count>>

(* object/fetch on the bulk lane, on the io_queue: each object of the oldest *)
(* request is read, whole or as a delta against the base the client holds,   *)
ServerPull(p, delta) ==
    /\ pulls # <<>> /\ p \in Head(pulls).paths /\ ~Writing
    /\ delta \in {None, Head(pulls).base[p]}
    /\ delta # None => host[p] # None
    /\ LET o == [kind |-> "object", path |-> p, row |-> HostRow(p), delta |-> delta]
       IN  pulls' = <<[Head(pulls) EXCEPT !.paths = @ \ {p}, !.read = Append(@, o)]>>
                      \o Tail(pulls)
    /\ UNCHANGED <<local, saving, entries, manifestId, held, aside, queue, todo, call, link,
                   wire, serverVars, hostVars, seen, synced, stale, unannounced, wasLocal,
                   count>>

(* and the batch is answered when all of them have been. *)
ServerPulled ==
    /\ pulls # <<>> /\ Head(pulls).paths = {}
    /\ pulls' = Tail(pulls)
    /\ wire' = wire \o Head(pulls).read
    /\ UNCHANGED <<local, saving, entries, manifestId, held, aside, queue, todo, call, link,
                   serverVars, hostVars, seen, synced, stale, unannounced, wasLocal, count>>

(* The host cannot read one of the objects, or the whole batch fails (a       *)
(* malformed answer, a request refused): the engine counts the file as        *)
(* unreadable or shows the error, and asks again with the next manifest.      *)
ObjectFails(p) ==
    /\ pulls # <<>> /\ p \in Head(pulls).paths /\ ~Writing /\ count.faults < MaxFaults
    /\ pulls' = <<[Head(pulls) EXCEPT !.paths = @ \ {p}]>> \o Tail(pulls)
    /\ stale' = stale \cup {p}
    /\ count' = [count EXCEPT !.faults = @ + 1]
    /\ UNCHANGED <<local, saving, entries, manifestId, held, aside, queue, todo, call, link,
                   wire, serverVars, hostVars, seen, synced, unannounced, wasLocal>>

BatchFails ==
    /\ pulls # <<>> /\ count.faults < MaxFaults
    /\ pulls' = Tail(pulls)
    /\ stale' = stale \cup Head(pulls).paths
                     \cup {Head(pulls).read[i].path : i \in 1..Len(Head(pulls).read)}
    /\ count' = [count EXCEPT !.faults = @ + 1]
    /\ UNCHANGED <<local, saving, entries, manifestId, held, aside, queue, todo, call, link,
                   wire, serverVars, hostVars, seen, synced, unannounced, wasLocal>>

(* tree/manifest: BuildManifest, and the subscriber's baseline with it. *)
ServerManifest ==
    /\ call.job = "sync" /\ call.st = "sent"
    /\ call' = [call EXCEPT !.st = "written", !.manifest = nextId,
                            !.rows = [p \in Paths |-> HostRow(p)]]
    /\ wire' = Append(wire, [kind |-> "manifest"])
    /\ nextId' = nextId + 1
    /\ primed' = TRUE /\ sent' = [p \in Paths |-> HostRow(p)]
    /\ UNCHANGED <<local, saving, entries, manifestId, held, aside, queue, todo, link, pulls,
                   late, hostVars, seen, synced, stale, unannounced, wasLocal, count>>

(* PublishWatchBatch: the next manifest, and what in it the client has not   *)
(* been sent.                                                                *)
PublishWatchBatch ==
    /\ touched # {} /\ primed
    /\ touched' = {}
    /\ nextId' = nextId + 1
    /\ sent' = [p \in Paths |-> HostRow(p)]
    /\ LET changed == {p \in Paths : ~SameRow(HostRow(p), sent[p])}
           rows == [p \in Paths |-> IF p \in changed THEN HostRow(p) ELSE NoRow]
       IN  /\ wire' = IF changed = {} THEN wire
                      ELSE Append(wire, [kind |-> "delta", id |-> nextId,
                                         changed |-> changed, rows |-> rows])
           /\ stale' = stale \cup {p \in touched \ changed : hostVer[p] > sent[p].ver}
    /\ UNCHANGED <<local, saving, entries, manifestId, held, aside, queue, todo, call, link,
                   pulls, late, host, hostVer, wasHost, primed, seen, synced,
                   unannounced, wasLocal, count>>

(* UpdateManifest fails (git cannot list the new paths, a row cannot be       *)
(* built): the batch is logged and let go, and its changes with it.          *)
WatchBatchFails ==
    /\ touched # {} /\ primed /\ count.faults < MaxFaults
    /\ touched' = {}
    /\ stale' = stale \cup touched
    /\ count' = [count EXCEPT !.faults = @ + 1]
    /\ UNCHANGED <<local, saving, entries, manifestId, held, aside, queue, todo, call, link,
                   wire, pulls, serverVars, host, hostVer, wasHost, seen, synced, unannounced,
                   wasLocal>>

-----------------------------------------------------------------------------
(* The link *)

(* The connection's I/O thread: the next bulk frame becomes a job, or the    *)
(* answer the worker waits for.                                              *)
Deliver ==
    /\ wire # <<>>
    /\ wire' = Tail(wire)
    /\ IF Head(wire).kind = "manifest"
       THEN /\ call' = [call EXCEPT !.st = "answered"]
            /\ queue' = queue
       ELSE /\ queue' = Append(queue, Head(wire))
            /\ call' = call
    /\ UNCHANGED <<local, saving, entries, manifestId, held, aside, todo, link, pulls,
                   serverVars, hostVars, seen, synced, stale, unannounced, wasLocal, count>>

(* Mutant: the bytes noted are the answer's, which has not come. *)
GiveUpNotesAnswer ==
    /\ ~(call.job = "sync" /\ call.st = "answered")
    /\ entries' = IF call.job = "push"
                  THEN [entries EXCEPT ![call.path].unack =
                           NoteUnacknowledged(@, call.row.hash)]
                  ELSE entries
    /\ call' = NoCall

(* The worker's call returns unanswered: `sent, may have been applied'.  A   *)
(* manifest that was delivered is not lost any more.                         *)
GiveUp ==
    LET p == call.path
    IN  /\ ~(call.job = "sync" /\ call.st = "answered")
        /\ entries' = IF call.job = "push" /\ entries[p].known /\ entries[p].pending
                      THEN [entries EXCEPT ![p].unack = NoteUnacknowledged(@, call.content)]
                      ELSE entries
        /\ call' = NoCall

Unwritten ==
    IF call.job \in {"push", "keep"} /\ call.st \in {"sent", "checked"}
    THEN {[job |-> call.job, path |-> call.path, content |-> call.content,
           expect |-> call.expect, checked |-> call.st = "checked"]}
    ELSE {}

(* The link dies, and what was on it with it; an unread write may be lost or *)
(* still arrive.                                                             *)
DropLink ==
    /\ link = "up" /\ count.faults < MaxFaults
    /\ link' = "down" /\ primed' = FALSE /\ synced' = FALSE /\ pulls' = <<>> /\ wire' = <<>>
    /\ sent' = [p \in Paths |-> NoRow]
    /\ GiveUp \/ (call.st = "answered" /\ UNCHANGED <<entries, call>>)
    /\ late' \in {late, late \cup Unwritten}
    /\ count' = [count EXCEPT !.faults = @ + 1]
    /\ UNCHANGED <<local, saving, manifestId, held, aside, queue, todo, nextId, hostVars, seen,
                   stale, unannounced, wasLocal>>

(* Await's timeout, the link still up: the server goes on with the request, *)
(* and its answer finds nobody.                                             *)
TimeOut ==
    /\ call.job # "none" /\ count.faults < MaxFaults
    /\ GiveUp
    /\ wire' = Without(wire, "manifest")
    /\ synced' = FALSE
    /\ late' = late \cup Unwritten
    /\ count' = [count EXCEPT !.faults = @ + 1]
    /\ UNCHANGED <<local, saving, manifestId, held, aside, queue, todo, link, pulls, nextId,
                   primed, sent, hostVars, seen, stale, unannounced, wasLocal>>

(* The host answers with an error (a full disk, a file it cannot read):      *)
(* nothing is written, and a push forgets what it had sent unanswered.       *)
ErrorAnswer ==
    /\ call.job # "none" /\ call.st = "sent" /\ count.faults < MaxFaults
    /\ LET p == call.path
       IN  entries' = IF call.job = "push" /\ entries[p].known
                      THEN [entries EXCEPT ![p].unack = <<>>]
                      ELSE entries
    /\ call' = NoCall
    /\ synced' = FALSE
    /\ count' = [count EXCEPT !.faults = @ + 1]
    /\ UNCHANGED <<local, saving, manifestId, held, aside, queue, todo, link, wire, pulls,
                   serverVars, hostVars, seen, stale, unannounced, wasLocal>>

(* RemoteProject::OnSessionStatus(Ready): subscribe, then RequestSync, which *)
(* replaces a sync still queued.  A new server tree numbers its manifests    *)
(* from 1 again.                                                             *)
Reconnect(fresh) ==
    /\ link = "down"
    /\ link' = "up"
    /\ nextId' = IF fresh THEN 1 ELSE nextId
    /\ queue' = Append(Without(queue, "sync"), [kind |-> "sync"])
    /\ UNCHANGED <<local, saving, entries, manifestId, held, aside, todo, call, wire, pulls,
                   late, primed, sent, hostVars, seen, synced, stale, unannounced, wasLocal,
                   count>>

-----------------------------------------------------------------------------
Worker ==
    \/ NotifyLocalWrite \/ SyncNow \/ ApplyWatchDelta \/ ApplyPulled \/ ApproveHeldDeletes
    \/ \E p \in Paths : PushNow(p) \/ DeleteNow(p)
    \/ \E s \in todo.restores : RestoreNow(s)
    \/ \E o \in todo.fills : ApplyFill(o)
    \/ \E k \in todo.checked : RemoveChecked(k) \/ \E o \in todo.fills : WriteFetched(k, o)
    \/ PushAnswered \/ KeepAnswered \/ TakeAnswered \/ FetchAnswered \/ SyncAnswered

TreeQueue == ServerManifest \/ PublishWatchBatch

IoQueue ==
    \/ ServerCheck \/ ServerWrite \/ ServerAnswer \/ ServerRead \/ ServerPulled
    \/ \E p \in Paths, delta \in Hash : ServerPull(p, delta)
    \/ \E r \in late : LateCheck(r) \/ LateWrite(r)

Server == TreeQueue \/ IoQueue

User ==
    \/ \E p \in Paths, c \in Contents : SaveWrite(p, c)
    \/ \E p \in Paths : SaveNotify(p)
    \/ \E p \in Paths, c \in Hash : ToolWrite(p, c) \/ HostEdit(p, c)
    \/ \E p \in Paths : Prioritize(p) \/ TakeRemote(p)
    \/ \E p \in Paths : \E expect \in {Anything} \cup ({entries[p].remote.hash} \ {None}) :
          KeepLocal(p, expect)
    \/ \E undoable \in BOOLEAN : RequestApproval(undoable)

Failure ==
    \/ DropLink \/ TimeOut \/ ErrorAnswer \/ WatchBatchFails \/ BatchFails
    \/ \E p \in Paths : ObjectFails(p)
    \/ \E k \in todo.checked : DeleteFails(k) \/ \E o \in todo.fills : WriteFails(k, o)

Link ==
    \/ Deliver \/ Failure
    \/ \E fresh \in BOOLEAN : Reconnect(fresh)

Next == Worker \/ Server \/ User \/ Link

Spec == Init /\ [][Next]_vars

(* The worker, the server tree's two queues and the connection's I/O thread  *)
(* keep running, a save that was written is announced, and the session       *)
(* reconnects.  The user, host processes and faults owe nothing.             *)
Fairness ==
    /\ WF_vars(Worker) /\ WF_vars(TreeQueue) /\ WF_vars(IoQueue) /\ WF_vars(Deliver)
    /\ \A p \in Paths : WF_vars(SaveNotify(p))
    /\ WF_vars(\E fresh \in BOOLEAN : Reconnect(fresh))

FairSpec == Spec /\ Fairness

-----------------------------------------------------------------------------
(* Every variable of the mirror, the link and the server keeps its type. *)
TypeOK ==
    /\ local \in [Paths -> Hash] /\ host \in [Paths -> Hash]
    /\ saving \subseteq Paths
    /\ entries \in [Paths -> Entry]
    /\ manifestId \in Nat /\ nextId \in Nat \ {0}
    /\ held \subseteq Paths /\ aside \subseteq SetAside
    /\ queue \in Seq(Job)
    /\ todo \in Todo
    /\ WellFormed(call)
    /\ link \in {"up", "down"} /\ primed \in BOOLEAN
    /\ wire \in Seq(Object \cup WatchDelta \cup Manifest)
    /\ pulls \in Seq(Pull) /\ late \subseteq Write
    /\ touched \subseteq Paths /\ sent \in [Paths -> Row]
    /\ hostVer \in [Paths -> Nat] /\ seen \in [Paths -> Nat]
    /\ synced \in BOOLEAN /\ stale \subseteq Paths /\ unannounced \subseteq Paths
    /\ wasLocal \in [Paths -> SUBSET Contents] /\ wasHost \in [Paths -> SUBSET Contents]
    /\ count \in Count

(* The base of every record (MirrorStore::Entry::base_hash) is a version that *)
(* both tree/ and the host have held: the engine sets it only from bytes it   *)
(* pulled, pushed with success, or found equal on both sides.  The push's     *)
(* compare-and-swap, CheckLocal and DeleteNow all decide by it.               *)
BaseIsShared ==
    \A p \in Paths : entries[p].base \in {None} \cup (wasLocal[p] \cap wasHost[p])

(* The user chose `keep mine' for p, and the write is under way. *)
KeepRequested(p) ==
    \/ call.job = "keep" /\ call.path = p
    \/ \E r \in late : r.job = "keep" /\ r.path = p

(* A host process wrote p after a write to it had passed its check. *)
Raced(p) ==
    \/ call.st = "checked" /\ call.path = p /\ call.expect # host[p]
    \/ \E r \in late : r.checked /\ r.path = p /\ r.expect # host[p]

(* A push destroys nothing the mirror has not had: when anything but a host   *)
(* process changes a host file, and the user did not ask for it, the bytes    *)
(* that go are bytes tree/ has held, however late the write lands (PushNow,   *)
(* a given-up file/write) and whatever the watch told the engine meanwhile.   *)
(* Excused is a host process that writes between the handler's CheckExpect    *)
(* and its rename (WriteTreeFileFrom), which nothing compares.                *)
NoSilentHostLoss ==
    [][\A p \in Paths :
          (host'[p] # host[p] /\ count'.edits = count.edits
             /\ ~KeepRequested(p) /\ ~Raced(p))
            => host[p] \in wasLocal[p] \cup {None}]_vars

(* A tool wrote p in tree/ after the worker had compared it. *)
Overtaken(p) == \E k \in todo.checked : k.path = p /\ local[p] # k.was

(* Sync never destroys local work: when the engine writes over or removes a   *)
(* tree/ file (ApplyFetched, DeleteNow), and the user did not choose `take    *)
(* theirs', the bytes that go are bytes the host has held.  Excused are a     *)
(* record with no base, which DeleteNow deletes under no precondition, and a  *)
(* tool that writes between the comparison and the rename (WriteTreeFileFrom, *)
(* SetAsideTreeEntry, DeleteTreeEntry), which no lock keeps out.              *)
NoSilentLocalLoss ==
    [][\A p \in Paths :
          (local'[p] # local[p] /\ count'.saves = count.saves /\ count'.tools = count.tools
             /\ ~(call.job = "take" /\ call.path = p) /\ ~Overtaken(p)
             /\ ~(p \in todo.deletes /\ entries[p].base = None))
            => local[p] \in wasHost[p] \cup {None}]_vars

(* A save of p is still to be announced to the worker, or to be taken by it. *)
Noted(p) == p \in saving \/ \E i \in 1..Len(queue) : queue[i].kind = "note" /\ queue[i].path = p

(* No save is forgotten: bytes the host has never held are on their way to    *)
(* the journal, in it (pending), or shown to the user as a conflict, whatever *)
(* answers, refusals, pulls and manifests come between.  A tool's write that  *)
(* bypasses the gate is excused until a manifest or a pull compares the file, *)
(* and so is what RestoreNow puts back that was not the record's base:        *)
(* DeleteNow had taken it without a precondition (a save not yet journaled    *)
(* with it), or a tool had written it after the comparison.                   *)
SaveAccounted ==
    \A p \in Paths :
        local[p] \notin wasHost[p] \cup {None} =>
            \/ p \in unannounced \/ Noted(p)
            \/ entries[p].known /\ (entries[p].pending \/ entries[p].conflict)

(* Connected, reconciled, and nothing queued or in flight anywhere. *)
Quiet ==
    /\ link = "up" /\ synced /\ Idle
    /\ queue = <<>> /\ wire = <<>> /\ pulls = <<>> /\ saving = {} /\ late = {} /\ touched = {}

(* When everything has settled after a manifest, a path's two copies agree,   *)
(* unless the record says why not (a conflict, a file only this side has), a  *)
(* held delete waits for the user, a tool's write was never compared, or the  *)
(* path is one of `stale': its newest row was skipped as the echo of a push,  *)
(* an older row or older bytes were applied over newer, the batch that listed *)
(* it failed, it came and went between two batches, its journalled save was   *)
(* gone when it was to be pushed, an undo held it when the host had it again, *)
(* or its pull or its delete failed (which the next manifest tries again).    *)
QuietConverged ==
    Quiet => \A p \in Paths :
        \/ local[p] = host[p]
        \/ entries[p].known /\ (entries[p].conflict \/ ~entries[p].hasRemote)
        \/ ~entries[p].known /\ host[p] = None
        \/ p \in held \cup stale \cup unannounced

(* A journalled save does not wait for ever: once a manifest has been         *)
(* reconciled, its push succeeds, or it is parked as a conflict, or the link  *)
(* or a call fails and the next manifest starts again.                        *)
SavesSettle ==
    \A p \in Paths :
        (entries[p].pending /\ synced)
          ~> (~entries[p].pending \/ entries[p].conflict \/ ~synced)

(* When the user, the host's processes and the faults stop, so does the       *)
(* engine: no push, pull and watch delta keep causing one another.            *)
ComesToRest == <>[](Idle /\ queue = <<>> /\ wire = <<>> /\ pulls = <<>>)
=============================================================================
