---------------------------- MODULE MirrorJournal ----------------------------
(***************************************************************************)
(* What the mirror keeps on disk for one path, and what a crash of the      *)
(* editor or a power loss leaves of it: the tree's file, meta/state (saved   *)
(* lazily), meta/journal (the pending pushes, written at once) and           *)
(* meta/pulled (the hint: pulls the state does not record yet).              *)
(* MirrorStore::Open/Save/SaveJournal/WritePulledHint with the steps of      *)
(* MirrorSyncEngine that write them.  MirrorSync models the stale manifests, *)
(* lost answers and resolutions that are left out here: a reconcile sees the *)
(* host as it is, and an answer is lost only when the editor dies.           *)
(***************************************************************************)
EXTENDS MirrorRules, FiniteSets

CONSTANTS
    HostWrites,   \* what the host's own writers put there; None is a delete
    MaxSaves, MaxHostEdits, MaxCrashes, MaxLosses

ASSUME JournalAssumption ==
    /\ None \notin Contents
    /\ HostWrites \subseteq Hash
    /\ {MaxSaves, MaxHostEdits, MaxCrashes, MaxLosses} \subseteq Nat

VARIABLES
    \* disk
    tree,         \* tree/<path>
    shadows,      \* bytes a power loss may bring back in its place (unflushed writes)
    stateFile,    \* meta/state, as written by Save
    stateThere,   \* whether it exists
    journal,      \* meta/journal: "none" (no file), "clear" or "pending"
    hint,         \* meta/pulled: its records, and whether its tail is torn
    \* the editor's process
    alive,
    entry,        \* store_.entries()[path]
    unsynced,     \* tree_unsynced_
    unwritten,    \* pulled_unwritten_
    queued,       \* jobs of the engine's queue and what will be posted to it
    job,          \* where the running job stands
    fetched,      \* bytes of an answered fetch, not yet applied
    \* the host
    host, call,
    \* history
    basis,        \* the host's bytes the tree's were made from
    held, shown,  \* every content the host, and the tree's file, has held
    astray,       \* it ended between two writes that belong together
    unnoted,      \* it ended before a save was in a journal that Open reads
    agreed,       \* a push, an adoption or a delete that the state does not record
    saves, hostEdits, crashes, losses

disk == <<tree, shadows, stateFile, stateThere, journal, hint>>
process == <<alive, entry, unsynced, unwritten, queued, job, fetched>>
counters == <<saves, hostEdits, crashes, losses>>
history == <<basis, held, shown, astray, unnoted, agreed, counters>>
vars == <<disk, process, host, call, history>>

Jobs == {"note", "push", "save", "pull", "sync"}

(* A push: on the wire, then answered with the host's verdict and hash. *)
NoCall == [at |-> "none", content |-> None, expect |-> None, ok |-> FALSE, hash |-> None]
NoHint == [records |-> <<>>, torn |-> FALSE]

(* One type invariant for the whole module. *)
TypeOK ==
    /\ tree \in Hash /\ shadows \subseteq Hash /\ host \in Hash
    /\ stateFile \in Entry /\ stateThere \in BOOLEAN
    /\ journal \in {"none", "clear", "pending"}
    /\ hint \in [records : Seq(Contents), torn : BOOLEAN]
    /\ alive \in BOOLEAN /\ entry \in Entry /\ unsynced \in BOOLEAN
    /\ unwritten \in Seq(Contents)
    /\ queued \subseteq Jobs
    /\ job \in {"idle", "push", "delete", "applied", "saving"}
    /\ fetched \in Hash
    /\ call \in [at : {"none", "sent", "answered"}, content : Hash, expect : Hash,
                 ok : BOOLEAN, hash : Hash]
    /\ basis \in Hash /\ held \subseteq Hash /\ shown \subseteq Hash
    /\ astray \in BOOLEAN /\ unnoted \in BOOLEAN /\ agreed \in BOOLEAN
    /\ {saves, hostEdits, crashes, losses} \subseteq Nat

Synced(c) ==
    IF c = None THEN NoEntry
    ELSE [NoEntry EXCEPT !.known = TRUE, !.hasRemote = TRUE, !.base = c,
                         !.remote = [hash |-> c, ver |-> 0]]

(* A mirror opened in step with the host, or a new one with nothing in it. *)
Init ==
    /\ host \in Hash /\ stateThere \in BOOLEAN
    /\ tree = IF stateThere THEN host ELSE None
    /\ entry = Synced(tree) /\ stateFile = entry
    /\ journal = IF stateThere THEN "clear" ELSE "none"
    /\ hint = NoHint /\ shadows = {}
    /\ alive = TRUE /\ unsynced = FALSE /\ unwritten = <<>>
    /\ queued = {"sync"} /\ job = "idle" /\ fetched = None
    /\ call = NoCall
    /\ basis = tree /\ held = {host} /\ shown = {tree} /\ agreed = FALSE
    /\ astray = FALSE /\ unnoted = FALSE
    /\ saves = 0 /\ hostEdits = 0 /\ crashes = 0 /\ losses = 0

-----------------------------------------------------------------------------
(* MirrorStore::SaveJournal: the pending flag, then what the hint misses. *)
SaveJournal(e) ==
    /\ journal' = IF e.pending THEN "pending" ELSE "clear"
    /\ hint' = [hint EXCEPT !.records = @ \o unwritten]
    /\ unwritten' = <<>>

(* SaveLocked: the journal at once, the state by a job at the back. *)
SaveLocked(e, posted) ==
    /\ SaveJournal(e)
    /\ queued' = (queued \cup {"save"}) \cup posted

(* The editor saves the file: a flushed write, then NotifyLocalWrite's post. *)
Save(c) ==
    /\ alive /\ saves < MaxSaves
    /\ saves' = saves + 1
    /\ tree' = c /\ shadows' = {} /\ shown' = shown \cup {c}
    /\ queued' = queued \cup {"note"}
    /\ UNCHANGED <<stateFile, stateThere, journal, hint, alive, entry, unsynced, unwritten,
                   job, fetched, host, call, basis, held, astray, unnoted, agreed, hostEdits, crashes,
                   losses>>

(* Mutant: the push is attempted before it is journaled. *)
NoteUnjournaled ==
    /\ alive /\ job = "idle" /\ "note" \in queued
    /\ entry' = [entry EXCEPT !.known = TRUE, !.pending = TRUE]
    /\ queued' = queued \ {"note"}
    /\ job' = "push"
    /\ UNCHANGED <<disk, alive, unsynced, unwritten, fetched, host, call, history>>

(* NotifyLocalWrite's job, up to PushNow. *)
Note ==
    /\ alive /\ job = "idle" /\ "note" \in queued
    /\ entry' = [entry EXCEPT !.known = TRUE, !.pending = TRUE]
    /\ SaveJournal(entry') /\ queued' = (queued \ {"note"}) \cup {"save"}
    /\ job' = "push"
    /\ UNCHANGED <<tree, shadows, stateFile, stateThere, alive, unsynced, fetched,
                   host, call, history>>

(* A push planned by a reconcile, or posted again by an answer. *)
TakePush ==
    /\ alive /\ job = "idle" /\ "push" \in queued
    /\ queued' = queued \ {"push"} /\ job' = "push"
    /\ UNCHANGED <<disk, alive, entry, unsynced, unwritten, fetched, host, call, history>>

(* PushNow up to the request: nothing pending, nothing to read, or sent. *)
PushNow ==
    /\ alive /\ job = "push" /\ call = NoCall
    /\ \/ /\ ~entry.pending
          /\ job' = "idle" /\ UNCHANGED <<entry, call>>
       \/ /\ entry.pending /\ tree = None
          /\ entry' = [entry EXCEPT !.pending = FALSE]
          /\ job' = "idle" /\ UNCHANGED call
       \/ /\ entry.pending /\ tree # None
          /\ call' = [NoCall EXCEPT !.at = "sent", !.content = tree, !.expect = entry.base]
          /\ UNCHANGED <<entry, job>>
    /\ UNCHANGED <<disk, alive, unsynced, unwritten, queued, fetched, host, history>>

(* The host's compare-and-swap; its own watch then lists the change. *)
HostApply ==
    /\ call.at = "sent"
    /\ LET ok == host = call.expect
       IN  /\ host' = IF ok THEN call.content ELSE host
           /\ basis' = IF host' = call.content THEN call.content ELSE basis
           /\ call' = IF alive THEN [call EXCEPT !.at = "answered", !.ok = ok, !.hash = host']
                               ELSE NoCall
    /\ held' = held \cup {host'}
    /\ queued' = IF alive /\ host' # host THEN queued \cup {"sync"} ELSE queued
    /\ UNCHANGED <<disk, alive, entry, unsynced, unwritten, job, fetched,
                   shown, astray, unnoted, agreed, counters>>

(* PushNow after the answer: taken, already there, or a conflict to show. *)
PushAnswered ==
    /\ alive /\ job = "push" /\ call.at = "answered"
    /\ LET c     == call.content
           agree == [entry EXCEPT !.base = c, !.pending = FALSE, !.conflict = FALSE,
                                  !.remote.hash = IF entry.hasRemote THEN c ELSE @]
           taken == [agree EXCEPT !.localOnly = @ \/ ~entry.hasRemote, !.pending = tree # c]
           clash == [entry EXCEPT !.conflict = TRUE, !.hasRemote = @ /\ call.hash # None]
       IN  /\ entry' = CASE call.ok                     -> taken
                         [] ~call.ok /\ call.hash = c   -> agree
                         [] OTHER                       -> clash
           /\ agreed' = (agreed \/ call.hash = c)
           /\ SaveLocked(entry', IF call.ok /\ tree # c THEN {"push"} ELSE {})
    /\ call' = NoCall /\ job' = "idle"
    /\ UNCHANGED <<tree, shadows, stateFile, stateThere, alive, unsynced, fetched, host,
                   basis, held, shown, astray, unnoted, counters>>

-----------------------------------------------------------------------------
(* SyncNow or a watch delta: this path reconciled with the host's listing,   *)
(* behind the fetched bytes that were queued before it.                      *)
Verdict ==
    CASE host # None                   -> ReconcileRow(entry, tree, [hash |-> host, ver |-> 0], 1)
      [] host = None /\ entry.known    -> ReconcileDelete(entry, tree)
      [] OTHER                         -> [entry |-> entry, act |-> "none"]

(* Mutant: whatever the plan says is posted. *)
PostedAll(act) == {act}

(* What Execute posts of the plan; a delete it does itself. *)
Posted(act) == Jobs \cap {act}

Reconcile ==
    /\ alive /\ job = "idle" /\ "sync" \in queued /\ fetched = None
    /\ LET v == Verdict
       IN  /\ entry' = v.entry
           /\ SaveJournal(v.entry)
           /\ queued' = ((queued \ {"sync"}) \cup {"save"}) \cup Posted(v.act)
           /\ job' = IF v.act = "delete" THEN "delete" ELSE "idle"
           /\ LET adopted == v.entry.base = tree /\ tree # entry.base
              IN  /\ basis' = IF adopted THEN tree ELSE basis
                  /\ agreed' = (agreed \/ adopted)
    /\ UNCHANGED <<tree, shadows, stateFile, stateThere, alive, unsynced, fetched, host, call,
                   held, shown, astray, unnoted, counters>>

(* DeleteNow, in the same job: under expect = base. *)
DeleteNow ==
    /\ alive /\ job = "delete"
    /\ job' = "idle"
    /\ \/ /\ tree = entry.base
          /\ tree' = None /\ shadows' = shadows \cup {tree}
          /\ basis' = None /\ agreed' = TRUE
          /\ entry' = NoEntry
       \/ /\ tree # entry.base
          /\ entry' = [entry EXCEPT !.hasRemote = FALSE, !.conflict = TRUE]
          /\ UNCHANGED <<tree, shadows, basis, agreed>>
    /\ UNCHANGED <<stateFile, stateThere, journal, hint, alive, unsynced, unwritten, queued,
                   fetched, host, call, held, shown, astray, unnoted, counters>>

(* The host answers a fetch with the bytes it has now, or that it has none. *)
Fetch ==
    /\ alive /\ "pull" \in queued /\ fetched = None /\ host # None
    /\ fetched' = host
    /\ queued' = queued \ {"pull"}
    /\ UNCHANGED <<disk, alive, entry, unsynced, unwritten, job, host, call, history>>

(* ApplyFetched on a missing object: ReconcileMissingPulls. *)
FetchMissing ==
    /\ alive /\ job = "idle" /\ "pull" \in queued /\ host = None
    /\ LET here == entry.known /\ entry.hasRemote /\ ~entry.pending /\ ~entry.conflict
           v == IF here THEN ReconcileDelete(entry, tree) ELSE [entry |-> entry, act |-> "none"]
       IN  /\ entry' = v.entry
           /\ SaveJournal(v.entry)
           /\ job' = IF v.act = "delete" THEN "delete" ELSE "idle"
    /\ queued' = (queued \ {"pull"}) \cup {"save"}
    /\ UNCHANGED <<tree, shadows, stateFile, stateThere, alive, unsynced, fetched, host, call,
                   history>>

(* Ours moved meanwhile: never written over. *)
KeepsOurs == ~entry.known \/ entry.pending \/ entry.conflict

(* Mutant: the tree's copy is not looked at again before it is replaced. *)
ReplaceableAlways == ~KeepsOurs

(* What ApplyFetched may write over: nothing, or the bytes the base names. *)
Replaceable == ~KeepsOurs /\ CheckLocal(tree, entry.base) # "differs"

(* Mutant: bytes that were not written are recorded as the base. *)
ApplyRebased ==
    /\ alive /\ job = "idle" /\ fetched # None
    /\ fetched' = None
    /\ \/ /\ Replaceable
          /\ tree' = fetched /\ shown' = shown \cup {fetched} /\ shadows' = shadows \cup {tree}
          /\ basis' = fetched
          /\ entry' = [entry EXCEPT !.base = fetched, !.remote.hash = fetched]
          /\ unsynced' = TRUE
          /\ unwritten' = Append(unwritten, fetched)
          /\ job' = "applied"
       \/ /\ ~Replaceable
          /\ entry' = [entry EXCEPT !.base = fetched, !.conflict = @ \/ ~KeepsOurs]
          /\ UNCHANGED <<tree, shown, shadows, basis, unsynced, unwritten, job>>
    /\ UNCHANGED <<stateFile, stateThere, journal, hint, alive, queued, host, call,
                   held, astray, unnoted, agreed, counters>>

(* ApplyFetched up to the write of the tree, which is not flushed. *)
Apply ==
    /\ alive /\ job = "idle" /\ fetched # None
    /\ fetched' = None
    /\ \/ /\ Replaceable
          /\ tree' = fetched /\ shown' = shown \cup {fetched} /\ shadows' = shadows \cup {tree}
          /\ basis' = fetched
          /\ entry' = [entry EXCEPT !.base = fetched, !.remote.hash = fetched]
          /\ unsynced' = TRUE
          /\ unwritten' = Append(unwritten, fetched)
          /\ job' = "applied"
       \/ /\ ~Replaceable
          /\ entry' = IF KeepsOurs THEN entry ELSE [entry EXCEPT !.conflict = TRUE]
          /\ UNCHANGED <<tree, shown, shadows, basis, unsynced, unwritten, job>>
    /\ UNCHANGED <<stateFile, stateThere, journal, hint, alive, queued, host, call,
                   held, astray, unnoted, agreed, counters>>

(* ApplyFetched's end, WritePulledHint, and the SavePulledLocked that follows. *)
WriteHint ==
    /\ alive /\ job = "applied"
    /\ job' = "idle"
    /\ SaveLocked(entry, {})
    /\ UNCHANGED <<tree, shadows, stateFile, stateThere, alive, entry, unsynced, fetched, host,
                   call, history>>

-----------------------------------------------------------------------------
(* Mutant: the state vouches for pulled bytes that are not flushed. *)
FlushedNever == shadows

(* SyncTreeFilesystem: the flush that comes before the state is written. *)
Flushed == IF unsynced THEN {} ELSE shadows

(* SaveNowLocked, to the rename of the new meta/state. *)
SaveState ==
    /\ alive /\ job = "idle" /\ "save" \in queued
    /\ queued' = queued \ {"save"}
    /\ shadows' = Flushed /\ unsynced' = FALSE
    /\ stateFile' = entry /\ stateThere' = TRUE
    /\ agreed' = FALSE
    /\ job' = "saving"
    /\ UNCHANGED <<tree, journal, hint, alive, entry, unwritten, fetched, host, call,
                   basis, held, shown, astray, unnoted, counters>>

(* SaveNowLocked when the flush fails: the old state is kept. *)
SaveStateFails ==
    /\ alive /\ job = "idle" /\ "save" \in queued /\ unsynced
    /\ queued' = queued \ {"save"}
    /\ UNCHANGED <<disk, alive, entry, unsynced, unwritten, job, fetched, host, call, history>>

(* The end of MirrorStore::Save: the hint goes, the journal is written. *)
SaveRest ==
    /\ alive /\ job = "saving"
    /\ job' = "idle"
    /\ hint' = NoHint /\ unwritten' = <<>>
    /\ journal' = IF entry.pending THEN "pending" ELSE "clear"
    /\ UNCHANGED <<tree, shadows, stateFile, stateThere, alive, entry, unsynced, queued, fetched,
                   host, call, history>>

(* Someone on the host writes or deletes the file; a watch delta follows. *)
HostEdit(c) ==
    /\ hostEdits < MaxHostEdits /\ c # host
    /\ host' = c /\ held' = held \cup {c}
    /\ hostEdits' = hostEdits + 1
    /\ queued' = IF alive THEN queued \cup {"sync"} ELSE queued
    /\ UNCHANGED <<disk, alive, entry, unsynced, unwritten, job, fetched, call,
                   basis, shown, astray, unnoted, agreed, saves, crashes, losses>>

-----------------------------------------------------------------------------
(* Between two writes that belong together: a save whose job has not journaled *)
(* it, a push on the wire, an agreement the state does not record, a pull the    *)
(* hint does not, a state already written with the hint it replaces still there. *)
Between ==
    "note" \in queued \/ call # NoCall \/ agreed \/ job \in {"applied", "saving"}

(* What is left of the process: the request already on the wire. *)
Dies ==
    /\ alive' = FALSE /\ entry' = NoEntry
    /\ unsynced' = FALSE /\ unwritten' = <<>> /\ queued' = {} /\ job' = "idle"
    /\ fetched' = None
    /\ call' = IF call.at = "sent" THEN call ELSE NoCall
    /\ agreed' = FALSE
    /\ unnoted' = (unnoted \/ "note" \in queued \/ (entry.pending /\ ~stateThere))

(* The editor dies; what it wrote is in the kernel's cache still. *)
Crash ==
    /\ alive /\ crashes < MaxCrashes
    /\ crashes' = crashes + 1
    /\ Dies
    /\ astray' = (astray \/ Between)
    /\ UNCHANGED <<disk, host, basis, held, shown, saves, hostEdits, losses>>

(* The machine loses power: unflushed writes may or may not be on the disk. *)
PowerLoss ==
    /\ losses < MaxLosses
    /\ losses' = losses + 1
    /\ Dies
    /\ astray' = TRUE
    /\ tree' \in {tree} \cup shadows
    /\ basis' = IF tree' = tree THEN basis ELSE tree'
    /\ shadows' = {}
    /\ \E n \in 0 .. Len(hint.records), torn \in BOOLEAN :
          hint' = [records |-> SubSeq(hint.records, 1, n),
                   torn |-> torn /\ n < Len(hint.records)]
    /\ UNCHANGED <<stateFile, stateThere, journal, host, held, shown, saves, hostEdits,
                   crashes>>

(* The journal overrides the state's pending flag. *)
WithJournal(e) ==
    IF journal = "none" THEN e
    ELSE [e EXCEPT !.pending = (journal = "pending"), !.known = @ \/ journal = "pending"]

(* The hint's records in order: each moves the base where the file holds its *)
(* bytes, or where a journaled save was made on top of them (all do: the last *)
(* one stays).                                                                *)
WithPulled(e) ==
    LET pulled == hint.records
    IN  CASE pulled = <<>>               -> e
          [] pulled # <<>> /\ e.pending  -> [e EXCEPT !.base = pulled[Len(pulled)]]
          [] OTHER                       -> [e EXCEPT !.known = TRUE,
                                                !.base = IF \E i \in DOMAIN pulled : pulled[i] = tree
                                                         THEN tree ELSE @]

(* MirrorStore::Open, and the sync of the connection that follows.  With no  *)
(* state file it returns before it looks at the journal and the hint.        *)
Open ==
    /\ ~alive /\ call = NoCall
    /\ alive' = TRUE
    /\ queued' = {"sync"}
    /\ entry' = IF stateThere THEN WithPulled(WithJournal(stateFile)) ELSE NoEntry
    /\ IF stateThere /\ hint.torn
       THEN unwritten' = hint.records /\ hint' = NoHint
       ELSE UNCHANGED <<unwritten, hint>>
    /\ UNCHANGED <<tree, shadows, stateFile, stateThere, journal, unsynced, job, fetched,
                   host, call, history>>

-----------------------------------------------------------------------------
Next ==
    \/ \E c \in Contents : Save(c)
    \/ Note \/ TakePush \/ PushNow \/ HostApply \/ PushAnswered
    \/ Reconcile \/ DeleteNow \/ Fetch \/ FetchMissing \/ Apply \/ WriteHint
    \/ SaveState \/ SaveStateFails \/ SaveRest
    \/ \E c \in HostWrites : HostEdit(c)
    \/ Crash \/ PowerLoss \/ Open

Spec == Init /\ [][Next]_vars

(* The queue's thread runs what is posted, the host answers what it is sent,  *)
(* and a mirror that was closed is opened again.                              *)
FairSpec ==
    /\ Spec
    /\ WF_vars(Note) /\ WF_vars(TakePush) /\ WF_vars(PushNow) /\ WF_vars(HostApply)
    /\ WF_vars(PushAnswered) /\ WF_vars(Reconcile) /\ WF_vars(DeleteNow)
    /\ WF_vars(Fetch) /\ WF_vars(FetchMissing) /\ WF_vars(Apply) /\ WF_vars(WriteHint)
    /\ WF_vars(SaveState) /\ WF_vars(SaveRest) /\ WF_vars(Open)

-----------------------------------------------------------------------------
(* A push replaces only the bytes it was made from: "a file the server changed *)
(* meanwhile becomes a conflict rather than a silent overwrite".               *)
PushesOnTop ==
    [][call.at = "sent" /\ call' # call /\ host' # host => host \in {basis, None}]_vars

(* What the code does hold to: the host's compare-and-swap is never passed over *)
(* bytes the tree's file has not held, whatever a crash or a power loss brought   *)
(* back from the disk; and until the editor ends between two writes that belong   *)
(* together, only over the bytes that the pushed ones were made from              *)
(* (MirrorStore::Open, NotePulled, SaveNowLocked).                                *)
PushesFounded ==
    [][call.at = "sent" /\ call' # call /\ host' # host
         => host \in {basis, None} \/ (astray /\ host \in shown)]_vars

(* Where the state alone vouches for the tree's bytes, they are on the disk    *)
(* (SaveNowLocked: a persisted state never describes bytes a crash could lose). *)
(* Until the editor dies by itself: Open does not know which of the bytes it    *)
(* finds are still only in the page cache.                                      *)
StateVouched ==
    crashes = 0 /\ stateThere /\ stateFile.base = tree /\ tree # None
        /\ hint.records \o unwritten = <<>> /\ job # "applied" => shadows = {}

(* Nothing but the user's own save replaces or removes bytes in the tree that *)
(* the host never held: no crash, rollback or replay makes a pull or a delete *)
(* of them (SaveNowLocked: "a conflict to show, never ... an edit to push").  *)
UnsentKept ==
    [][tree' # tree /\ saves' = saves => tree \in held \cup {None}]_vars

(* In the end the mirror and the host hold the same bytes, or the difference  *)
(* is shown as a conflict, or the bytes reached the host, which deleted them    *)
(* before it ever listed them, or the tree's file is gone with them and the    *)
(* host's newer row waits for the next manifest: a save is not forgotten by a  *)
(* crash (NotifyLocalWrite: "a crash or a dropped link loses nothing").  What   *)
(* may be is a save of a file the host has not listed, when the editor ended     *)
(* before it was in a journal that Open reads.                                  *)
SaveSettles ==
    <>[](/\ alive
         /\ \/ tree = host
            \/ entry.conflict
            \/ host = None /\ tree \in held
            \/ tree = None /\ entry.hasRemote /\ entry.remote.hash = host
            \/ unnoted /\ host = None /\ ~entry.hasRemote)
=============================================================================
