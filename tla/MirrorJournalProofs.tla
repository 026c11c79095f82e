------------------------- MODULE MirrorJournalProofs -------------------------
(***************************************************************************)
(* No crash and no power loss, wherever it falls, makes the mirror write    *)
(* over bytes that the host never held.  The invariant says that every base  *)
(* the mirror can believe in (in memory, in the state file, in the hint or   *)
(* still to be written to it) is something the host has held; a pull and a   *)
(* delete replace only bytes that equal such a base.                          *)
(***************************************************************************)
EXTENDS MirrorJournal, MirrorRulesProofs, TLAPS

(* What the host has held, or nothing. *)
Seen == held \cup {None}

(* Every base, hint record and acknowledged push names such a content; bytes  *)
(* that a power loss may take back are such a content too.                     *)
Witnessed ==
    /\ host \in held
    /\ entry.base \in Seen
    /\ stateFile.base \in Seen
    /\ hint.records \in Seq(held)
    /\ unwritten \in Seq(held)
    /\ fetched \in Seen
    /\ shadows # {} => tree \in Seen
    /\ call.at = "answered" => call.hash \in Seen /\ (call.ok => call.hash = call.content)

-----------------------------------------------------------------------------
(* A sequence over a set is one over a larger set. *)
LEMMA SeqGrows ==
  ASSUME NEW A, NEW B, A \subseteq B, NEW s \in Seq(A)
  PROVE  s \in Seq(B)
OBVIOUS

(* So is a prefix of it. *)
LEMMA PrefixType ==
  ASSUME NEW A, NEW s \in Seq(A), NEW n \in 0 .. Len(s)
  PROVE  SubSeq(s, 1, n) \in Seq(A)
<1>1. Len(s) \in Nat /\ n \in Nat /\ n <= Len(s)
  OBVIOUS
<1>2. \A i \in 1 .. n : s[i] \in A
  BY <1>1
<1> QED
  BY <1>1, <1>2

(* No call is a call; the records a mirror starts with are records. *)
LEMMA StartTypes ==
  /\ NoCall \in [at : {"none", "sent", "answered"}, content : Hash, expect : Hash,
                 ok : BOOLEAN, hash : Hash]
  /\ NoHint \in [records : Seq(Contents), torn : BOOLEAN]
  /\ \A c \in Hash : Synced(c) \in Entry /\ Synced(c).base = c
<1>1. NoCall \in [at : {"none", "sent", "answered"}, content : Hash, expect : Hash,
                  ok : BOOLEAN, hash : Hash]
  BY DEF NoCall, Hash
<1>2. NoHint \in [records : Seq(Contents), torn : BOOLEAN]
  BY DEF NoHint
<1>3. ASSUME NEW c \in Hash PROVE Synced(c) \in Entry /\ Synced(c).base = c
  <2>1. CASE c = None
    BY <2>1, NoEntryType DEF Synced, NoEntry
  <2>2. CASE c # None
    BY <2>2, NoEntryType DEF Synced, NoEntry, Entry, Row
  <2> QED BY <2>1, <2>2
<1> QED BY <1>1, <1>2, <1>3

(* SaveJournal appends only what was pulled. *)
LEMMA SaveJournalKeeps ==
  ASSUME TypeOK, Witnessed, held' = held, NEW e, SaveJournal(e)
  PROVE  /\ journal' \in {"none", "clear", "pending"}
         /\ hint' \in [records : Seq(Contents), torn : BOOLEAN]
         /\ unwritten' \in Seq(Contents)
         /\ hint'.records \in Seq(held') /\ unwritten' \in Seq(held')
<1> DEFINE r == hint.records \o unwritten
<1>1. r \in Seq(Contents) /\ r \in Seq(held)
  BY DEF TypeOK, Witnessed
<1>2. hint' = [hint EXCEPT !.records = r]
  BY DEF SaveJournal
<1> HIDE DEF r
<1>3. hint' \in [records : Seq(Contents), torn : BOOLEAN] /\ hint'.records = r
  BY <1>1, <1>2 DEF TypeOK
<1>4. <<>> \in Seq(Contents) /\ <<>> \in Seq(held)
  OBVIOUS
<1> QED
  BY <1>1, <1>3, <1>4 DEF SaveJournal

(* What Open reads back is a record, and its base something the host held. *)
LEMMA OpenReads ==
  ASSUME TypeOK, Witnessed
  PROVE  /\ WithPulled(WithJournal(stateFile)) \in Entry
         /\ WithPulled(WithJournal(stateFile)).base \in Seen
<1> DEFINE e == WithJournal(stateFile)
           R == hint.records
<1> SUFFICES WithPulled(e) \in Entry /\ WithPulled(e).base \in Seen
  OBVIOUS
<1>1. e \in Entry /\ e.base \in Seen
  BY DEF TypeOK, Witnessed, WithJournal, Entry
<1>2. R \in Seq(Contents) /\ R \in Seq(held)
  BY DEF TypeOK, Witnessed
<1>3. CASE R = <<>>
  BY <1>1, <1>3 DEF WithPulled
<1>4. CASE R # <<>> /\ e.pending
  <2>1. R[Len(R)] \in Contents /\ R[Len(R)] \in held
    <3> HIDE DEF R
    <3> QED BY <1>2, <1>4
  <2>2. WithPulled(e) = [e EXCEPT !.base = R[Len(R)]]
    BY <1>4 DEF WithPulled
  <2> HIDE DEF e, R
  <2> QED BY <1>1, <2>1, <2>2 DEF Entry, Hash, Seen
<1>5. CASE R # <<>> /\ ~e.pending /\ \E i \in DOMAIN R : R[i] = tree
  <2>1. tree \in Contents /\ tree \in held
    <3> HIDE DEF R
    <3> QED BY <1>2, <1>5
  <2>2. WithPulled(e) = [e EXCEPT !.known = TRUE, !.base = tree]
    BY <1>5 DEF WithPulled
  <2> HIDE DEF e, R
  <2> QED BY <1>1, <2>1, <2>2 DEF Entry, Hash, Seen
<1>6. CASE R # <<>> /\ ~e.pending /\ ~(\E i \in DOMAIN R : R[i] = tree)
  <2>1. WithPulled(e) = [e EXCEPT !.known = TRUE, !.base = e.base]
    BY <1>6 DEF WithPulled
  <2> HIDE DEF e, R
  <2> QED BY <1>1, <2>1 DEF Entry
<1> QED BY <1>3, <1>4, <1>5, <1>6

-----------------------------------------------------------------------------
(* Both hold at the start. *)
LEMMA InitJournal == Init => TypeOK /\ Witnessed
<1> SUFFICES ASSUME Init PROVE TypeOK /\ Witnessed
  OBVIOUS
<1>1. tree \in Hash /\ host \in Hash
  BY DEF Init, Hash
<1>2. entry \in Entry /\ entry.base \in Seen /\ stateFile = entry
  BY <1>1, StartTypes DEF Init, Seen
<1>3. <<>> \in Seq(Contents) /\ <<>> \in Seq(held)
  OBVIOUS
<1>4. TypeOK
  <2>1. stateThere \in BOOLEAN /\ alive \in BOOLEAN /\ unsynced \in BOOLEAN /\ agreed \in BOOLEAN
    BY JournalAssumption DEF Init
  <2>2. /\ queued \subseteq Jobs /\ held \subseteq Hash /\ shadows \subseteq Hash
        /\ fetched \in Hash /\ basis \in Hash
    BY <1>1 DEF Init, Jobs, Hash
  <2>3. {saves, hostEdits, crashes, losses} \subseteq Nat
    BY DEF Init
  <2>4. hint \in [records : Seq(Contents), torn : BOOLEAN] /\ unwritten \in Seq(Contents)
    BY <1>3, StartTypes DEF Init
  <2> QED BY <1>1, <1>2, <2>1, <2>2, <2>3, <2>4, StartTypes DEF Init, TypeOK
<1>5. Witnessed
  BY <1>1, <1>2, <1>3 DEF Init, Witnessed, Seen, NoHint, NoCall
<1> QED BY <1>4, <1>5

(* The steps of the user, the host and the failures. *)
LEMMA OutsideKeeps ==
  ASSUME TypeOK, Witnessed,
         \/ \E c \in Contents : Save(c)
         \/ \E c \in HostWrites : HostEdit(c)
         \/ HostApply \/ Crash \/ PowerLoss \/ Open
  PROVE  TypeOK' /\ Witnessed'
<1>1. ASSUME NEW c \in Contents, Save(c) PROVE TypeOK' /\ Witnessed'
  <2>1. TypeOK'
    BY <1>1 DEF Save, TypeOK, Hash, Jobs
  <2>2. Witnessed'
    BY <1>1 DEF Save, Witnessed, Seen
  <2> QED BY <2>1, <2>2
<1>2. ASSUME NEW c \in HostWrites, HostEdit(c) PROVE TypeOK' /\ Witnessed'
  <2>1. c \in Hash
    BY JournalAssumption
  <2>2. TypeOK'
    BY <1>2, <2>1 DEF HostEdit, TypeOK, disk, Jobs
  <2>3. held \subseteq held' /\ c \in held'
    BY <1>2 DEF HostEdit
  <2>4. hint.records \in Seq(held') /\ unwritten \in Seq(held')
    BY <2>3, SeqGrows DEF Witnessed
  <2>5. Witnessed'
    BY <1>2, <2>3, <2>4 DEF HostEdit, Witnessed, Seen, disk
  <2> QED BY <2>2, <2>5
<1>3. CASE HostApply
  <2> DEFINE h == IF host = call.expect THEN call.content ELSE host
             k == [call EXCEPT !.at = "answered", !.ok = (host = call.expect), !.hash = h]
  <2>1. h \in Hash /\ (host = call.expect) \in BOOLEAN
    BY DEF TypeOK
  <2>2. /\ k \in [at : {"none", "sent", "answered"}, content : Hash, expect : Hash,
                   ok : BOOLEAN, hash : Hash]
        /\ k.hash = h /\ k.content = call.content /\ k.ok = (host = call.expect)
    <3> HIDE DEF h
    <3> QED BY <2>1 DEF TypeOK
  <2>3. host' = h /\ held' = held \cup {h} /\ call' \in {k, NoCall}
    BY <1>3 DEF HostApply, counters
  <2>4. basis' \in Hash /\ queued' \subseteq Jobs
    BY <1>3 DEF HostApply, TypeOK, Jobs, counters
  <2>5. (call' = k /\ host = call.expect) => h = call.content
    OBVIOUS
  <2> HIDE DEF h, k
  <2>6. hint.records \in Seq(held') /\ unwritten \in Seq(held')
    BY <2>3, SeqGrows DEF Witnessed
  <2>7. TypeOK'
    BY <1>3, <2>1, <2>2, <2>3, <2>4, StartTypes DEF HostApply, TypeOK, disk, counters
  <2>8. call'.at = "answered" => call'.hash \in held' /\ (call'.ok => call'.hash = call'.content)
    BY <2>2, <2>3, <2>5 DEF NoCall
  <2>9. Witnessed'
    BY <1>3, <2>3, <2>6, <2>8 DEF HostApply, Witnessed, Seen, disk, counters
  <2> QED BY <2>7, <2>9
<1>4. ASSUME Dies PROVE
        /\ alive' \in BOOLEAN /\ entry' \in Entry /\ unsynced' \in BOOLEAN
        /\ unwritten' \in Seq(Contents) /\ queued' \subseteq Jobs
        /\ job' \in {"idle", "push", "delete", "applied", "saving"} /\ fetched' \in Hash
        /\ call' \in [at : {"none", "sent", "answered"}, content : Hash, expect : Hash,
                       ok : BOOLEAN, hash : Hash]
        /\ entry'.base = None /\ unwritten' = <<>> /\ fetched' = None
        /\ call'.at # "answered"
  <2>1. <<>> \in Seq(Contents)
    OBVIOUS
  <2>2. entry' \in Entry /\ entry'.base = None
    BY <1>4, NoEntryType DEF Dies, NoEntry
  <2>3. (call' = call /\ call.at = "sent") \/ call' = NoCall
    BY <1>4 DEF Dies
  <2>4. call' \in [at : {"none", "sent", "answered"}, content : Hash, expect : Hash,
                    ok : BOOLEAN, hash : Hash]
    BY <2>3, StartTypes DEF TypeOK
  <2>5. call'.at # "answered"
    BY <2>3 DEF NoCall
  <2> QED BY <1>4, <2>1, <2>2, <2>4, <2>5 DEF Dies, Hash
<1>5. <<>> \in Seq(held)
  OBVIOUS
<1>6. CASE Crash
  <2>0. Dies
    BY <1>6 DEF Crash
  <2>8. agreed' \in BOOLEAN
    BY <1>6 DEF Crash, Dies
  <2>10. astray' \in BOOLEAN /\ unnoted' \in BOOLEAN /\ shown' = shown
    <3>1. astray' = (astray \/ Between)
      BY <1>6 DEF Crash
    <3>2. unnoted' = (unnoted \/ "note" \in queued \/ (entry.pending /\ ~stateThere))
      BY <2>0 DEF Dies
    <3> QED BY <1>6, <3>1, <3>2 DEF Crash, TypeOK
  <2>9. {saves', hostEdits', crashes', losses'} \subseteq Nat
    BY <1>6 DEF Crash, TypeOK
  <2>1. TypeOK'
    BY <1>4, <1>6, <2>0, <2>8, <2>9, <2>10 DEF Crash, TypeOK, disk
  <2>2. Witnessed'
    BY <1>4, <1>5, <1>6 DEF Crash, Witnessed, Seen, disk
  <2> QED BY <2>1, <2>2
<1>7. CASE PowerLoss
  <2>1. PICK n \in 0 .. Len(hint.records), torn \in BOOLEAN :
          hint' = [records |-> SubSeq(hint.records, 1, n),
                   torn |-> torn /\ n < Len(hint.records)]
    BY <1>7 DEF PowerLoss
  <2>2. SubSeq(hint.records, 1, n) \in Seq(Contents) /\ SubSeq(hint.records, 1, n) \in Seq(held)
    <3> DEFINE R == hint.records
    <3>1. R \in Seq(Contents) /\ R \in Seq(held) /\ n \in 0 .. Len(R)
      BY <2>1 DEF TypeOK, Witnessed
    <3> HIDE DEF R
    <3>2. SubSeq(R, 1, n) \in Seq(Contents)
      BY <3>1, PrefixType
    <3>3. SubSeq(R, 1, n) \in Seq(held)
      BY <3>1, PrefixType
    <3> QED BY <3>2, <3>3 DEF R
  <2>3. (torn /\ n < Len(hint.records)) \in BOOLEAN
    OBVIOUS
  <2>4. hint' \in [records : Seq(Contents), torn : BOOLEAN] /\ hint'.records \in Seq(held)
    BY <2>1, <2>2, <2>3
  <2>5. tree' \in Hash /\ basis' \in Hash /\ shadows' = {}
    BY <1>7 DEF PowerLoss, TypeOK
  <2>0. Dies
    BY <1>7 DEF PowerLoss
  <2>8. agreed' \in BOOLEAN
    BY <1>7 DEF PowerLoss, Dies
  <2>10. astray' \in BOOLEAN /\ unnoted' \in BOOLEAN /\ shown' = shown
    <3>1. astray' = TRUE
      BY <1>7 DEF PowerLoss
    <3>2. unnoted' = (unnoted \/ "note" \in queued \/ (entry.pending /\ ~stateThere))
      BY <2>0 DEF Dies
    <3> QED BY <1>7, <3>1, <3>2 DEF PowerLoss, TypeOK
  <2>9. {saves', hostEdits', crashes', losses'} \subseteq Nat
    BY <1>7 DEF PowerLoss, TypeOK
  <2>6. TypeOK'
    BY <1>4, <1>7, <2>0, <2>4, <2>5, <2>8, <2>9, <2>10 DEF PowerLoss, TypeOK
  <2>7. Witnessed'
    BY <1>4, <1>5, <1>7, <2>4, <2>5 DEF PowerLoss, Witnessed, Seen
  <2> QED BY <2>6, <2>7
<1>8. CASE Open
  <2>1. entry' \in Entry /\ entry'.base \in Seen
    BY <1>8, OpenReads, NoEntryType DEF Open, NoEntry, Seen
  <2>2. /\ hint' \in [records : Seq(Contents), torn : BOOLEAN] /\ hint'.records \in Seq(held)
        /\ unwritten' \in Seq(Contents) /\ unwritten' \in Seq(held)
    <3>1. CASE stateThere /\ hint.torn
      <4>1. unwritten' = hint.records /\ hint' = NoHint
        BY <1>8, <3>1 DEF Open
      <4>2. hint'.records = <<>>
        BY <4>1 DEF NoHint
      <4> QED BY <1>5, <4>1, <4>2, StartTypes DEF TypeOK, Witnessed
    <3>2. CASE ~(stateThere /\ hint.torn)
      BY <1>8, <3>2 DEF Open, TypeOK, Witnessed
    <3> QED BY <3>1, <3>2
  <2>3. TypeOK'
    BY <1>8, <2>1, <2>2 DEF Open, TypeOK, history, counters, Jobs
  <2>4. Witnessed'
    BY <1>8, <2>1, <2>2 DEF Open, Witnessed, Seen, history, counters
  <2> QED BY <2>3, <2>4
<1> QED BY <1>1, <1>2, <1>3, <1>6, <1>7, <1>8

(* The steps of the engine's queue. *)
LEMMA EngineKeeps ==
  ASSUME TypeOK, Witnessed,
         \/ Note \/ TakePush \/ PushNow \/ PushAnswered
         \/ Reconcile \/ DeleteNow \/ Fetch \/ FetchMissing \/ Apply \/ WriteHint
         \/ SaveState \/ SaveStateFails \/ SaveRest
  PROVE  TypeOK' /\ Witnessed'
<1>0. entry \in Entry /\ host \in Hash /\ tree \in Hash /\ None \in Hash
  BY DEF TypeOK, Hash
<1>1. CASE Note
  <2>1. entry' \in Entry /\ entry'.base = entry.base
    BY <1>0, <1>1 DEF Note, Entry
  <2>2. held' = held /\ SaveJournal(entry')
    BY <1>1 DEF Note, history, counters
  <2>3. TypeOK'
    BY <1>1, <2>1, <2>2, SaveJournalKeeps DEF Note, TypeOK, history, counters, Jobs
  <2>4. Witnessed'
    BY <1>1, <2>1, <2>2, SaveJournalKeeps DEF Note, Witnessed, Seen, history, counters
  <2> QED BY <2>3, <2>4
<1>2. CASE TakePush
  BY <1>2 DEF TakePush, TypeOK, Witnessed, Seen, disk, history, counters
<1>3. CASE PushNow
  <2> DEFINE k == [NoCall EXCEPT !.at = "sent", !.content = tree, !.expect = entry.base]
  <2>1. /\ k \in [at : {"none", "sent", "answered"}, content : Hash, expect : Hash,
                   ok : BOOLEAN, hash : Hash]
        /\ k.at = "sent"
    BY <1>0 DEF Entry, NoCall, Hash
  <2>2. /\ entry' \in Entry /\ entry'.base = entry.base
        /\ call' \in {call, k} /\ job' \in {"idle", "push"}
    BY <1>0, <1>3 DEF PushNow, Entry
  <2> HIDE DEF k
  <2>3. TypeOK'
    BY <1>3, <2>1, <2>2 DEF PushNow, TypeOK, disk, history, counters
  <2>4. Witnessed'
    BY <1>3, <2>1, <2>2 DEF PushNow, Witnessed, Seen, disk, history, counters
  <2> QED BY <2>3, <2>4
<1>4. CASE PushAnswered
  <2> DEFINE c     == call.content
             agree == [entry EXCEPT !.base = c, !.pending = FALSE, !.conflict = FALSE,
                                    !.remote.hash = IF entry.hasRemote THEN c ELSE @]
             taken == [agree EXCEPT !.localOnly = @ \/ ~entry.hasRemote, !.pending = tree # c]
             clash == [entry EXCEPT !.conflict = TRUE, !.hasRemote = @ /\ call.hash # None]
  <2>1. c \in Hash /\ call.hash \in Seen /\ (call.ok => call.hash = c)
    BY <1>4 DEF PushAnswered, TypeOK, Witnessed, counters
  <2>2. agree \in Entry /\ agree.base = c
    <3> HIDE DEF c
    <3> QED BY <1>0, <2>1 DEF Entry, Row
  <2>3. taken \in Entry /\ taken.base = c
    <3>1. (agree.localOnly \/ ~entry.hasRemote) \in BOOLEAN /\ (tree # c) \in BOOLEAN
      OBVIOUS
    <3> HIDE DEF agree, c
    <3> QED BY <2>2, <3>1 DEF Entry
  <2>4. clash \in Entry /\ clash.base = entry.base
    <3>1. (entry.hasRemote /\ call.hash # None) \in BOOLEAN
      OBVIOUS
    <3> QED BY <1>0, <3>1 DEF Entry
  <2>5. /\ entry' \in {agree, taken, clash}
        /\ entry' = clash \/ call.hash = c
    <3>1. entry' = CASE call.ok                     -> taken
                     [] ~call.ok /\ call.hash = c   -> agree
                     [] OTHER                       -> clash
      BY <1>4 DEF PushAnswered, counters
    <3> HIDE DEF agree, taken, clash, c
    <3> QED BY <2>1, <3>1
  <2>6. entry' \in Entry /\ entry'.base \in Seen
    <3> HIDE DEF agree, taken, clash, c
    <3> QED BY <2>1, <2>2, <2>3, <2>4, <2>5 DEF Witnessed
  <2>7. /\ SaveJournal(entry') /\ held' = held /\ queued' \subseteq Jobs
        /\ agreed' \in BOOLEAN
    BY <1>4 DEF PushAnswered, SaveLocked, TypeOK, Jobs, counters
  <2> HIDE DEF agree, taken, clash, c
  <2>8. TypeOK'
    BY <1>4, <2>6, <2>7, SaveJournalKeeps, StartTypes DEF PushAnswered, TypeOK, counters
  <2>9. Witnessed'
    BY <1>4, <2>6, <2>7, SaveJournalKeeps DEF PushAnswered, Witnessed, Seen, NoCall, counters
  <2> QED BY <2>8, <2>9
<1>5. CASE Reconcile
  <2> DEFINE v == Verdict
             row == [hash |-> host, ver |-> 0]
  <2>1. row \in Row /\ row.hash = host
    BY <1>0 DEF Row
  <2>2. /\ ReconcileRow(entry, tree, row, 1).entry \in Entry
        /\ ReconcileRow(entry, tree, row, 1).entry.base \in {entry.base, host, None}
    BY <1>0, <2>1, ReconcileRowType, ReconcileRowBase
  <2>3. /\ ReconcileDelete(entry, tree).entry \in Entry
        /\ ReconcileDelete(entry, tree).entry.base \in {entry.base, None}
    BY <1>0, ReconcileDeleteType, ReconcileDeleteBase
  <2>4. v.entry \in Entry /\ v.entry.base \in {entry.base, host, None}
    BY <1>0, <2>2, <2>3 DEF Verdict
  <2> HIDE DEF v
  <2>5. /\ entry' = v.entry /\ SaveJournal(v.entry) /\ held' = held
        /\ job' \in {"idle", "delete"} /\ queued' \subseteq Jobs
        /\ basis' \in Hash /\ agreed' \in BOOLEAN
    BY <1>5 DEF Reconcile, v, Posted, Jobs, TypeOK, counters
  <2>6. TypeOK'
    BY <1>5, <2>4, <2>5, SaveJournalKeeps DEF Reconcile, TypeOK, counters
  <2>7. Witnessed'
    BY <1>5, <2>4, <2>5, SaveJournalKeeps DEF Reconcile, Witnessed, Seen, counters
  <2> QED BY <2>6, <2>7
<1>6. CASE DeleteNow
  <2>1. entry' \in Entry /\ entry'.base \in {entry.base, None}
    <3>1. NoEntry.base = None
      BY DEF NoEntry
    <3>2. CASE entry' = NoEntry
      BY <3>1, <3>2, NoEntryType
    <3>3. CASE entry' = [entry EXCEPT !.hasRemote = FALSE, !.conflict = TRUE]
      BY <1>0, <3>3 DEF Entry
    <3> QED BY <1>6, <3>2, <3>3 DEF DeleteNow, counters
  <2>2. tree' \in Hash /\ shadows' \subseteq Hash /\ basis' \in Hash /\ agreed' \in BOOLEAN
    BY <1>0, <1>6 DEF DeleteNow, TypeOK, counters
  <2>3. shadows' # {} => tree' \in Seen
    BY <1>6 DEF DeleteNow, Witnessed, Seen, counters
  <2>4. TypeOK'
    BY <1>6, <2>1, <2>2 DEF DeleteNow, TypeOK, counters
  <2>5. Witnessed'
    BY <1>6, <2>1, <2>3 DEF DeleteNow, Witnessed, Seen, counters
  <2> QED BY <2>4, <2>5
<1>7. CASE Fetch
  BY <1>7 DEF Fetch, TypeOK, Witnessed, Seen, disk, history, counters
<1>8. CASE FetchMissing
  <2> DEFINE here == entry.known /\ entry.hasRemote /\ ~entry.pending /\ ~entry.conflict
             v == IF here THEN ReconcileDelete(entry, tree) ELSE [entry |-> entry, act |-> "none"]
  <2>1. v.entry \in Entry /\ v.entry.base \in {entry.base, None}
    BY <1>0, ReconcileDeleteType, ReconcileDeleteBase
  <2>2. /\ entry' = v.entry /\ SaveJournal(v.entry) /\ held' = held
        /\ job' \in {"idle", "delete"} /\ queued' \subseteq Jobs
    BY <1>8 DEF FetchMissing, Jobs, TypeOK, history, counters
  <2> HIDE DEF v
  <2>3. TypeOK'
    BY <1>8, <2>1, <2>2, SaveJournalKeeps DEF FetchMissing, TypeOK, history, counters
  <2>4. Witnessed'
    BY <1>8, <2>1, <2>2, SaveJournalKeeps DEF FetchMissing, Witnessed, Seen, history, counters
  <2> QED BY <2>3, <2>4
<1>9. CASE Apply
  <2>1. fetched \in Contents /\ fetched \in held /\ fetched' = None
    BY <1>9 DEF Apply, TypeOK, Witnessed, Seen, Hash, counters
  <2>2. CASE Replaceable
    <3>1. /\ tree' = fetched /\ shadows' = shadows \cup {tree} /\ basis' = fetched
          /\ entry' = [entry EXCEPT !.base = fetched, !.remote.hash = fetched]
          /\ unsynced' = TRUE /\ unwritten' = Append(unwritten, fetched) /\ job' = "applied"
      BY <1>9, <2>2 DEF Apply, counters
    <3>2. entry' \in Entry /\ entry'.base = fetched
      BY <1>0, <2>1, <3>1 DEF Entry, Row, Hash
    <3>3. unwritten' \in Seq(Contents) /\ unwritten' \in Seq(held)
      BY <2>1, <3>1 DEF TypeOK, Witnessed
    <3>4. TypeOK'
      BY <1>0, <1>9, <2>1, <3>1, <3>2, <3>3 DEF Apply, TypeOK, Hash, counters
    <3>5. Witnessed'
      BY <1>9, <2>1, <3>1, <3>2, <3>3 DEF Apply, Witnessed, Seen, counters
    <3> QED BY <3>4, <3>5
  <2>3. CASE ~Replaceable
    <3>1. entry' \in Entry /\ entry'.base = entry.base
      BY <1>0, <1>9, <2>3 DEF Apply, Entry, counters
    <3>2. UNCHANGED <<tree, shadows, basis, unsynced, unwritten, job>>
      BY <1>9, <2>3 DEF Apply, counters
    <3>3. TypeOK'
      BY <1>0, <1>9, <2>1, <3>1, <3>2 DEF Apply, TypeOK, counters
    <3>4. Witnessed'
      BY <1>9, <2>1, <3>1, <3>2 DEF Apply, Witnessed, Seen, counters
    <3> QED BY <3>3, <3>4
  <2> QED BY <2>2, <2>3
<1>10. CASE WriteHint
  <2>1. SaveJournal(entry) /\ held' = held /\ queued' \subseteq Jobs
    BY <1>10 DEF WriteHint, SaveLocked, Jobs, TypeOK, history, counters
  <2>2. TypeOK'
    BY <1>10, <2>1, SaveJournalKeeps DEF WriteHint, TypeOK, history, counters
  <2>3. Witnessed'
    BY <1>10, <2>1, SaveJournalKeeps DEF WriteHint, Witnessed, Seen, history, counters
  <2> QED BY <2>2, <2>3
<1>11. CASE SaveState
  <2>1. shadows' \subseteq Hash /\ shadows' \subseteq shadows
    BY <1>11 DEF SaveState, Flushed, TypeOK, counters
  <2>2. TypeOK'
    BY <1>11, <2>1 DEF SaveState, TypeOK, counters
  <2>3. Witnessed'
    BY <1>11, <2>1 DEF SaveState, Witnessed, Seen, counters
  <2> QED BY <2>2, <2>3
<1>12. CASE SaveStateFails
  BY <1>12 DEF SaveStateFails, TypeOK, Witnessed, Seen, disk, history, counters
<1>13. CASE SaveRest
  <2>1. <<>> \in Seq(Contents) /\ <<>> \in Seq(held) /\ hint'.records = <<>>
    BY <1>13 DEF SaveRest, NoHint
  <2>2. TypeOK'
    BY <1>13, <2>1, StartTypes DEF SaveRest, TypeOK, history, counters
  <2>3. Witnessed'
    BY <1>13, <2>1 DEF SaveRest, Witnessed, Seen, history, counters
  <2> QED BY <2>2, <2>3
<1> QED
  BY <1>1, <1>2, <1>3, <1>4, <1>5, <1>6, <1>7, <1>8, <1>9, <1>10, <1>11, <1>12, <1>13

-----------------------------------------------------------------------------
(* The two together are inductive. *)
LEMMA JournalInductive == TypeOK /\ Witnessed /\ [Next]_vars => TypeOK' /\ Witnessed'
<1> SUFFICES ASSUME TypeOK, Witnessed, [Next]_vars PROVE TypeOK' /\ Witnessed'
  OBVIOUS
<1>1. CASE Next
  BY <1>1, OutsideKeeps, EngineKeeps DEF Next
<1>2. CASE UNCHANGED vars
  BY <1>2 DEF vars, disk, process, history, counters, TypeOK, Witnessed, Seen
<1> QED BY <1>1, <1>2

(* Every behaviour stays within the types, through any crash and power loss. *)
THEOREM JournalTypeCorrect == Spec => []TypeOK
<1>1. Spec => [](TypeOK /\ Witnessed)
  BY InitJournal, JournalInductive, PTL DEF Spec
<1> QED BY <1>1, PTL

(* A step that changes the tree and is not the user's save finds bytes there  *)
(* that the host has held.                                                     *)
LEMMA StepKeepsUnsent ==
  ASSUME TypeOK, Witnessed, [Next]_vars
  PROVE  tree' # tree /\ saves' = saves => tree \in held \cup {None}
<1> SUFFICES ASSUME tree' # tree, saves' = saves PROVE tree \in held \cup {None}
  OBVIOUS
<1>1. ~(\E c \in Contents : Save(c))
  BY DEF Save, TypeOK
<1>2. CASE Apply
  <2>1. Replaceable
    BY <1>2 DEF Apply, counters
  <2>2. tree = None \/ tree = entry.base
    BY <2>1 DEF Replaceable, CheckLocal
  <2> QED BY <2>2 DEF Witnessed, Seen
<1>3. CASE DeleteNow
  BY <1>3 DEF DeleteNow, Witnessed, Seen, counters
<1>4. CASE PowerLoss
  <2>1. shadows # {}
    BY <1>4 DEF PowerLoss
  <2> QED BY <2>1 DEF Witnessed, Seen
<1>5. ~(Note \/ TakePush \/ PushNow \/ HostApply \/ PushAnswered)
  BY DEF Note, TakePush, PushNow, HostApply, PushAnswered, disk, counters
<1>6. ~(Reconcile \/ Fetch \/ FetchMissing \/ WriteHint)
  BY DEF Reconcile, Fetch, FetchMissing, WriteHint, disk, counters
<1>7. ~(SaveState \/ SaveStateFails \/ SaveRest \/ Crash \/ Open)
  BY DEF SaveState, SaveStateFails, SaveRest, Crash, Open, disk, counters
<1>8. ~(\E c \in HostWrites : HostEdit(c)) /\ ~(UNCHANGED vars)
  BY DEF HostEdit, vars, disk, counters
<1> QED
  BY <1>1, <1>2, <1>3, <1>4, <1>5, <1>6, <1>7, <1>8 DEF Next

(* The user's bytes survive: no pull, delete or rollback replaces bytes in the *)
(* tree that the host never held (ApplyFetched, DeleteNow, SaveNowLocked).      *)
THEOREM UnsentSurvives == Spec => UnsentKept
<1>1. TypeOK /\ Witnessed /\ [Next]_vars
        => [tree' # tree /\ saves' = saves => tree \in held \cup {None}]_vars
  BY StepKeepsUnsent
<1> QED
  BY <1>1, InitJournal, JournalInductive, PTL DEF Spec, UnsentKept

-----------------------------------------------------------------------------
(* What a state file may not vouch for is told by the process: bytes of the  *)
(* tree that a power loss could take back stay marked for the flush, and for   *)
(* as long as they are, the pull that wrote them is in the hint or on its way   *)
(* there.  The flush comes before the hint goes.                                *)
Recorded == hint.records # <<>> \/ unwritten # <<>>

Marked ==
    /\ crashes = 0 /\ tree # None /\ shadows # {} => unsynced
    /\ unsynced => alive /\ Recorded
    /\ job = "saving" => ~unsynced

(* SaveJournal moves the records, it drops none. *)
LEMMA SaveJournalRecords ==
  ASSUME TypeOK, NEW e, SaveJournal(e), Recorded
  PROVE  Recorded'
<1> DEFINE R == hint.records
           U == unwritten
<1>1. R \in Seq(Contents) /\ U \in Seq(Contents)
  BY DEF TypeOK
<1>2. hint'.records = R \o U
  BY DEF SaveJournal, TypeOK
<1>3. R # <<>> \/ U # <<>>
  BY DEF Recorded
<1> HIDE DEF R, U
<1>4. Len(R \o U) = Len(R) + Len(U) /\ Len(R) \in Nat /\ Len(U) \in Nat
  BY <1>1
<1>5. Len(R) > 0 \/ Len(U) > 0
  BY <1>1, <1>3
<1>6. R \o U # <<>>
  BY <1>4, <1>5
<1> QED BY <1>2, <1>6 DEF Recorded

(* Every step keeps the marks. *)
LEMMA StepMarked ==
  ASSUME TypeOK, Marked, [Next]_vars
  PROVE  Marked'
<1>1. ASSUME NEW c \in Contents, Save(c) PROVE Marked'
  BY <1>1 DEF Save, Marked, Recorded
<1>2. ASSUME NEW c \in HostWrites, HostEdit(c) PROVE Marked'
  BY <1>2 DEF HostEdit, Marked, Recorded, disk
<1>3. CASE Note
  <2>1. SaveJournal(entry') /\ UNCHANGED <<tree, shadows, unsynced, alive, crashes>> /\ job' = "push"
    BY <1>3 DEF Note, history, counters
  <2> QED BY <2>1, SaveJournalRecords DEF Marked
<1>4. CASE TakePush \/ PushNow
  BY <1>4 DEF TakePush, PushNow, Marked, Recorded, disk, history, counters
<1>5. CASE HostApply
  BY <1>5 DEF HostApply, Marked, Recorded, disk, counters
<1>6. CASE PushAnswered
  <2>1. SaveJournal(entry') /\ UNCHANGED <<tree, shadows, unsynced, alive, crashes>> /\ job' = "idle"
    BY <1>6 DEF PushAnswered, SaveLocked, counters
  <2> QED BY <2>1, SaveJournalRecords DEF Marked
<1>7. CASE Reconcile
  <2>1. /\ SaveJournal(Verdict.entry) /\ UNCHANGED <<tree, shadows, unsynced, alive, crashes>>
        /\ job' \in {"idle", "delete"}
    BY <1>7 DEF Reconcile, counters
  <2> QED BY <2>1, SaveJournalRecords DEF Marked
<1>8. CASE DeleteNow
  BY <1>8 DEF DeleteNow, Marked, Recorded, counters
<1>9. CASE Fetch
  BY <1>9 DEF Fetch, Marked, Recorded, disk, history, counters
<1>10. CASE FetchMissing
  <2>1. PICK e : SaveJournal(e)
    BY <1>10 DEF FetchMissing
  <2>2. UNCHANGED <<tree, shadows, unsynced, alive, crashes>> /\ job' \in {"idle", "delete"}
    BY <1>10 DEF FetchMissing, history, counters
  <2> QED BY <2>1, <2>2, SaveJournalRecords DEF Marked
<1>11. CASE Apply
  <2>1. CASE Replaceable
    <3>1. alive /\ alive' = alive /\ unsynced' = TRUE /\ job' = "applied"
      BY <1>11, <2>1 DEF Apply, counters
    <3>2. unwritten' # <<>>
      <4>1. unwritten' = Append(unwritten, fetched) /\ unwritten \in Seq(Contents)
        BY <1>11, <2>1 DEF Apply, TypeOK, counters
      <4> QED BY <4>1
    <3> QED BY <3>1, <3>2 DEF Marked, Recorded
  <2>2. CASE ~Replaceable
    BY <1>11, <2>2 DEF Apply, Marked, Recorded, counters
  <2> QED BY <2>1, <2>2
<1>12. CASE WriteHint
  <2>1. SaveJournal(entry) /\ UNCHANGED <<tree, shadows, unsynced, alive, crashes>> /\ job' = "idle"
    BY <1>12 DEF WriteHint, SaveLocked, history, counters
  <2> QED BY <2>1, SaveJournalRecords DEF Marked
<1>13. CASE SaveState
  BY <1>13 DEF SaveState, Flushed, Marked, Recorded, counters
<1>14. CASE SaveStateFails
  BY <1>14 DEF SaveStateFails, Marked, Recorded, disk, history, counters
<1>15. CASE SaveRest
  BY <1>15 DEF SaveRest, Marked, history, counters
<1>16. CASE Crash
  BY <1>16 DEF Crash, Dies, Marked, TypeOK
<1>17. CASE PowerLoss
  BY <1>17 DEF PowerLoss, Dies, Marked
<1>18. CASE Open
  BY <1>18 DEF Open, Marked, history, counters
<1>19. CASE UNCHANGED vars
  BY <1>19 DEF vars, disk, process, history, counters, Marked, Recorded
<1> QED
  BY <1>1, <1>2, <1>3, <1>4, <1>5, <1>6, <1>7, <1>8, <1>9, <1>10, <1>11, <1>12, <1>13,
     <1>14, <1>15, <1>16, <1>17, <1>18, <1>19 DEF Next

(* A state that alone vouches for the tree's bytes was written after their    *)
(* flush: until the editor first dies by itself, whatever power losses there   *)
(* were (SaveNowLocked, SyncTreeFilesystem, MirrorStore::Save).                 *)
THEOREM StateVouches == Spec => []StateVouched
<1>1. Init => Marked
  BY DEF Init, Marked
<1>2. TypeOK /\ Marked /\ [Next]_vars => Marked'
  BY StepMarked
<1>3. TypeOK /\ Marked => StateVouched
  <2> SUFFICES ASSUME TypeOK, Marked, crashes = 0, tree # None, shadows # {},
                      hint.records \o unwritten = <<>>
               PROVE  FALSE
    BY DEF StateVouched
  <2> DEFINE R == hint.records
             U == unwritten
  <2>1. R \in Seq(Contents) /\ U \in Seq(Contents) /\ (R # <<>> \/ U # <<>>) /\ R \o U = <<>>
    BY DEF TypeOK, Marked, Recorded
  <2> HIDE DEF R, U
  <2>2. Len(R \o U) = Len(R) + Len(U) /\ Len(R) \in Nat /\ Len(U) \in Nat
    BY <2>1
  <2>3. Len(R) > 0 \/ Len(U) > 0
    BY <2>1
  <2> QED BY <2>1, <2>2, <2>3
<1> QED
  BY <1>1, <1>2, <1>3, JournalTypeCorrect, PTL DEF Spec

-----------------------------------------------------------------------------
(* What a push is made on.  While the editor runs, the base of its record is   *)
(* the host's bytes that the tree's were made from, or none; the disk says the  *)
(* same, so that Open finds it again: the last pull of the hint is that base,   *)
(* and where there is no hint the state's is.  An editor that dies between two  *)
(* of its writes leaves less, and so does a power loss: this holds until then.  *)

(* The host holds the pushed bytes, and the record does not say so yet. *)
Landed == call.at = "answered" /\ call.hash = call.content

(* The last pull the state does not record. *)
Latest == IF unwritten # <<>> THEN unwritten[Len(unwritten)]
          ELSE hint.records[Len(hint.records)]

(* What the disk tells of the base.  With a hint, the tree still holds the last *)
(* pull, or the save made on top of it is journaled or about to be.             *)
OnDisk ==
    IF Recorded
    THEN /\ Latest = basis /\ tree # None
         /\ stateThere => \/ tree = basis
                          \/ "note" \in queued
                          \/ journal = "pending" /\ (alive => entry.pending)
    ELSE stateFile.base \in {basis, None}

Founded ==
    /\ ~hint.torn
    /\ unwritten = IF job = "applied" THEN <<basis>> ELSE <<>>
    /\ ~alive => job = "idle" /\ call = NoCall /\ ~agreed /\ "note" \notin queued
    /\ call # NoCall => job = "push" /\ call.at \in {"sent", "answered"}
    /\ call.at = "sent" => call.expect = entry.base
    /\ Landed => basis = call.content
    /\ alive /\ ~Landed => entry.base \in {basis, None}
    /\ job = "saving" => stateFile = entry
    /\ ~agreed /\ ~Landed /\ job # "saving" => OnDisk

(* A mirror opened in step with the host, or a new one, is founded. *)
LEMMA InitFounded == Init => Founded
<1> SUFFICES ASSUME Init PROVE Founded
  OBVIOUS
<1>1. entry.base = tree /\ stateFile = entry /\ basis = tree
  <2>1. tree \in Hash
    BY DEF Init, Hash
  <2> QED BY <2>1, StartTypes DEF Init
<1>2. ~Landed /\ call = NoCall /\ NoCall.at = "none"
  BY DEF Init, Landed, NoCall
<1>3. ~Recorded /\ ~hint.torn
  BY DEF Init, Recorded, NoHint
<1> QED BY <1>1, <1>2, <1>3 DEF Init, Founded, OnDisk

(* SaveJournal with nothing unwritten leaves the hint as it is; with the pull  *)
(* just applied, that pull becomes the hint's last.                             *)
LEMMA SaveJournalFounds ==
  ASSUME TypeOK, NEW e, SaveJournal(e), ~hint.torn, unwritten \in {<<>>, <<basis>>}
  PROVE  /\ unwritten' = <<>> /\ ~hint'.torn
         /\ Recorded' = Recorded
         /\ Recorded => Latest' = Latest
         /\ journal' = IF e.pending THEN "pending" ELSE "clear"
<1> DEFINE R == hint.records
           U == unwritten
<1>1. R \in Seq(Contents) /\ U \in Seq(Contents)
  BY DEF TypeOK
<1>2. hint'.records = R \o U /\ ~hint'.torn /\ unwritten' = <<>>
  BY DEF SaveJournal, TypeOK
<1>3. CASE U = <<>>
  <2>1. R \o U = R
    <3> HIDE DEF R, U
    <3> QED BY <1>1, <1>3
  <2> QED BY <1>2, <1>3, <2>1 DEF SaveJournal, Recorded, Latest
<1>4. CASE U = <<basis>>
  <2>1. Len(R \o U) = Len(R) + 1 /\ (R \o U)[Len(R) + 1] = basis /\ R \o U # <<>> /\ U # <<>>
    <3>1. Len(U) = 1 /\ U[1] = basis
      BY <1>4
    <3> HIDE DEF R, U
    <3>2. Len(R) \in Nat /\ Len(R \o U) = Len(R) + Len(U)
      BY <1>1
    <3>3. \A i \in 1 .. Len(U) : (R \o U)[Len(R) + i] = U[i]
      BY <1>1
    <3>4. (R \o U)[Len(R) + 1] = basis
      BY <3>1, <3>3
    <3>5. R \o U # <<>> /\ U # <<>>
      BY <3>1, <3>2
    <3> QED BY <3>1, <3>2, <3>4, <3>5
  <2>2. U[Len(U)] = basis
    BY <1>4
  <2> QED BY <1>2, <2>1, <2>2 DEF SaveJournal, Recorded, Latest
<1> QED BY <1>3, <1>4

(* The steps outside the engine's queue: a crash leaves what the disk tells,   *)
(* and Open reads it.                                                          *)
LEMMA OutsideFounded ==
  ASSUME TypeOK, Founded, ~astray',
         \/ \E c \in Contents : Save(c)
         \/ \E c \in HostWrites : HostEdit(c)
         \/ HostApply \/ Crash \/ Open
  PROVE  Founded'
<1>1. ASSUME NEW c \in Contents, Save(c) PROVE Founded'
  <2>1. c # None
    BY JournalAssumption
  <2>2. /\ UNCHANGED <<hint, unwritten, alive, job, call, basis, entry, stateFile, stateThere,
                       journal, agreed>>
        /\ alive /\ tree' = c /\ "note" \in queued'
    BY <1>1 DEF Save
  <2>3. OnDisk => OnDisk'
    BY <2>1, <2>2 DEF OnDisk, Latest, Recorded
  <2> QED BY <2>2, <2>3 DEF Founded, Landed
<1>2. ASSUME NEW c \in HostWrites, HostEdit(c) PROVE Founded'
  <2>1. /\ UNCHANGED <<tree, hint, unwritten, alive, job, call, basis, entry, stateFile, stateThere,
                       journal, agreed>>
        /\ queued \subseteq queued' /\ (~alive => queued' = queued)
    BY <1>2 DEF HostEdit, disk
  <2>2. OnDisk => OnDisk'
    BY <2>1 DEF OnDisk, Latest, Recorded
  <2> QED BY <2>1, <2>2 DEF Founded, Landed
<1>3. CASE HostApply
  <2>1. /\ UNCHANGED <<tree, hint, unwritten, alive, job, entry, stateFile, stateThere,
                       journal, agreed>>
        /\ queued \subseteq queued'
    BY <1>3 DEF HostApply, disk, counters
  <2>2. call.at = "sent" /\ call # NoCall /\ alive /\ job = "push" /\ ~Landed
    BY <1>3 DEF HostApply, NoCall, Founded, Landed, counters
  <2>3. call'.at = "answered" /\ call'.content = call.content /\ call'.hash = host'
    BY <1>3, <2>2 DEF HostApply, TypeOK, counters
  <2>4. call' # NoCall
    BY <2>3 DEF NoCall
  <2>5. basis' = IF Landed' THEN call.content ELSE basis
    BY <1>3, <2>3 DEF HostApply, Landed, counters
  <2>6. ~Landed' /\ OnDisk => OnDisk'
    BY <2>1, <2>5 DEF OnDisk, Latest, Recorded
  <2> QED BY <2>1, <2>2, <2>3, <2>4, <2>5, <2>6 DEF Founded
<1>4. CASE Crash
  <2>1. ~Between
    BY <1>4 DEF Crash
  <2>2. "note" \notin queued /\ call = NoCall /\ ~agreed /\ job # "applied" /\ job # "saving"
    BY <2>1 DEF Between
  <2>3. ~Landed
    BY <2>2 DEF Landed, NoCall
  <2>4. OnDisk /\ unwritten = <<>>
    BY <2>2, <2>3 DEF Founded
  <2>5. /\ UNCHANGED <<tree, hint, stateFile, stateThere, journal, basis>>
        /\ unwritten' = <<>> /\ ~alive' /\ job' = "idle" /\ call' = NoCall
        /\ queued' = {} /\ ~agreed'
    BY <1>4, <2>2 DEF Crash, Dies, disk, NoCall
  <2>6. OnDisk'
    BY <2>2, <2>4, <2>5 DEF OnDisk, Latest, Recorded
  <2> QED BY <2>5, <2>6 DEF Founded, Landed, NoCall
<1>5. CASE Open
  <2> DEFINE e == WithJournal(stateFile)
             R == hint.records
  <2>1. /\ ~alive /\ job = "idle" /\ call = NoCall /\ unwritten = <<>> /\ ~hint.torn
        /\ ~agreed /\ "note" \notin queued
    BY <1>5 DEF Open, Founded
  <2>2. /\ UNCHANGED <<tree, hint, unwritten, stateFile, stateThere, journal, basis, job, call,
                       agreed>>
        /\ alive' /\ queued' = {"sync"}
        /\ entry' = IF stateThere THEN WithPulled(e) ELSE NoEntry
    BY <1>5, <2>1 DEF Open, history, counters
  <2>3. ~Landed /\ ~Landed'
    BY <2>1, <2>2 DEF Landed, NoCall
  <2>4. OnDisk
    BY <2>1, <2>3 DEF Founded
  <2>5. /\ e \in Entry /\ e.base = stateFile.base
        /\ journal = "pending" => e.pending
    BY DEF TypeOK, WithJournal, Entry
  <2>6. entry'.base \in {basis, None} /\ (stateThere /\ journal = "pending" => entry'.pending)
    <3>1. CASE ~stateThere
      BY <2>2, <3>1 DEF NoEntry
    <3>2. CASE stateThere /\ R = <<>>
      <4>1. entry' = e
        BY <2>2, <3>2 DEF WithPulled
      <4> QED BY <2>1, <2>4, <2>5, <3>2, <4>1 DEF OnDisk, Recorded
    <3>3. CASE stateThere /\ R # <<>> /\ e.pending
      <4>1. entry' = [e EXCEPT !.base = R[Len(R)]]
        BY <2>2, <3>3 DEF WithPulled
      <4>2. R[Len(R)] = basis
        BY <2>1, <2>4, <3>3 DEF OnDisk, Recorded, Latest
      <4> HIDE DEF e, R
      <4> QED BY <2>5, <3>3, <4>1, <4>2 DEF Entry
    <3>4. CASE stateThere /\ R # <<>> /\ ~e.pending
      <4>1. R[Len(R)] = basis /\ tree = basis
        BY <2>1, <2>4, <2>5, <3>4 DEF OnDisk, Recorded, Latest
      <4>2. \E i \in DOMAIN R : R[i] = tree
        <5>1. R \in Seq(Contents)
          BY DEF TypeOK
        <5> HIDE DEF R
        <5> QED BY <3>4, <4>1, <5>1
      <4>3. entry' = [e EXCEPT !.known = TRUE, !.base = tree]
        BY <2>2, <3>4, <4>2 DEF WithPulled
      <4> HIDE DEF e, R
      <4> QED BY <2>5, <3>4, <4>1, <4>3 DEF Entry
    <3> QED BY <3>1, <3>2, <3>3, <3>4
  <2>7. OnDisk'
    BY <2>1, <2>2, <2>4, <2>6 DEF OnDisk, Recorded, Latest
  <2> HIDE DEF e, R
  <2> QED BY <2>1, <2>2, <2>3, <2>6, <2>7 DEF Founded, NoCall
<1> QED BY <1>1, <1>2, <1>3, <1>4, <1>5

(* The steps of the engine's queue that write the journal. *)
LEMMA JournalingFounded ==
  ASSUME TypeOK, Witnessed, Founded,
         Note \/ PushAnswered \/ Reconcile \/ FetchMissing \/ WriteHint \/ SaveRest
  PROVE  Founded'
<1>0. /\ entry \in Entry /\ tree \in Hash /\ ~hint.torn /\ unwritten \in {<<>>, <<basis>>}
      /\ NoCall.at = "none" /\ (job # "applied" => unwritten = <<>>)
  BY DEF TypeOK, Founded, NoCall
<1>1. ASSUME NEW e, entry' = e, SaveJournal(e), e.pending \in BOOLEAN,
             alive, UNCHANGED <<tree, stateFile, stateThere, alive>>,
             basis' = basis, agreed' = agreed, OnDisk,
             "note" \in queued => "note" \in queued' \/ e.pending,
             entry.pending => e.pending
      PROVE  OnDisk'
  <2>1. /\ unwritten' = <<>> /\ Recorded' = Recorded /\ (Recorded => Latest' = Latest)
        /\ journal' = IF e.pending THEN "pending" ELSE "clear"
    BY <1>0, <1>1, SaveJournalFounds
  <2> QED BY <1>1, <2>1 DEF OnDisk
<1>2. CASE Note
  <2>1. /\ alive /\ job = "idle" /\ job' = "push" /\ SaveJournal(entry')
        /\ entry' = [entry EXCEPT !.known = TRUE, !.pending = TRUE]
        /\ UNCHANGED <<tree, stateFile, stateThere, alive, call, basis, agreed>>
    BY <1>2 DEF Note, history, counters
  <2>2. entry'.pending = TRUE /\ entry'.base = entry.base
    BY <1>0, <2>1 DEF Entry
  <2>3. call = NoCall /\ ~Landed /\ ~Landed'
    BY <1>0, <2>1 DEF Founded, Landed
  <2>4. unwritten' = <<>> /\ ~hint'.torn
    BY <1>0, <2>1, SaveJournalFounds
  <2>5. OnDisk => OnDisk'
    BY <1>1, <2>1, <2>2
  <2> QED BY <1>0, <2>1, <2>2, <2>3, <2>4, <2>5 DEF Founded
<1>3. CASE PushAnswered
  <2> DEFINE c     == call.content
             agree == [entry EXCEPT !.base = c, !.pending = FALSE, !.conflict = FALSE,
                                    !.remote.hash = IF entry.hasRemote THEN c ELSE @]
             taken == [agree EXCEPT !.localOnly = @ \/ ~entry.hasRemote, !.pending = tree # c]
             clash == [entry EXCEPT !.conflict = TRUE, !.hasRemote = @ /\ call.hash # None]
  <2>1. /\ alive /\ job = "push" /\ job' = "idle" /\ SaveJournal(entry') /\ call' = NoCall
        /\ agreed' = (agreed \/ call.hash = c) /\ queued \subseteq queued'
        /\ call.at = "answered"
        /\ UNCHANGED <<tree, stateFile, stateThere, alive, basis>>
    BY <1>3 DEF PushAnswered, SaveLocked, counters
  <2>2. unwritten' = <<>> /\ ~hint'.torn /\ ~Landed'
    BY <1>0, <2>1, SaveJournalFounds DEF Landed
  <2>3. entry' = CASE call.ok                     -> taken
                   [] ~call.ok /\ call.hash = c   -> agree
                   [] OTHER                       -> clash
    BY <1>3 DEF PushAnswered, counters
  <2>4. agree.base = c /\ taken.base = c
    BY <1>0 DEF Entry
  <2>5. clash.base = entry.base /\ clash.pending = entry.pending
    BY <1>0 DEF Entry
  <2>6. call.ok => call.hash = c
    BY <2>1 DEF Witnessed
  <2> HIDE DEF agree, taken, clash
  <2>7. CASE call.hash = c
    <3>1. entry'.base = c /\ agreed' /\ basis = c
      BY <2>1, <2>3, <2>4, <2>7 DEF Founded, Landed
    <3> QED BY <1>0, <2>1, <2>2, <3>1 DEF Founded
  <2>8. CASE call.hash # c
    <3>1. entry' = clash /\ ~Landed /\ agreed' = agreed
      BY <2>1, <2>3, <2>6, <2>8 DEF Landed, TypeOK
    <3>2. OnDisk => OnDisk'
      BY <1>0, <1>1, <2>1, <2>5, <3>1 DEF Entry
    <3> QED BY <1>0, <2>1, <2>2, <2>5, <3>1, <3>2 DEF Founded
  <2> QED BY <2>7, <2>8
<1>4. CASE Reconcile
  <2> DEFINE row == [hash |-> host, ver |-> 0]
             v == Verdict
  <2>1. row \in Row
    BY DEF Row, TypeOK
  <2>2. /\ ReconcileRow(entry, tree, row, 1).entry \in Entry
        /\ ReconcileRow(entry, tree, row, 1).entry.base \in {entry.base, tree, None}
        /\ entry.pending => ReconcileRow(entry, tree, row, 1).entry.pending
    BY <1>0, <2>1, ReconcileRowType, ReconcileRowFounds
  <2>3. /\ ReconcileDelete(entry, tree).entry \in Entry
        /\ ReconcileDelete(entry, tree).entry.base \in {entry.base, None}
        /\ entry.pending => ReconcileDelete(entry, tree).entry.pending
    BY <1>0, ReconcileDeleteType, ReconcileDeleteBase, ReconcileDeleteOutcome, ReconcileDeletePends
  <2>4. /\ v.entry \in Entry /\ v.entry.base \in {entry.base, tree, None}
        /\ entry.pending => v.entry.pending
    BY <1>0, <2>2, <2>3 DEF Verdict
  <2> HIDE DEF v
  <2> DEFINE adopted == v.entry.base = tree /\ tree # entry.base
  <2>5. /\ alive /\ job = "idle" /\ job' \in {"idle", "delete"}
        /\ entry' = v.entry /\ SaveJournal(v.entry)
        /\ "note" \in queued => "note" \in queued'
        /\ basis' = (IF adopted THEN tree ELSE basis)
        /\ agreed' = (agreed \/ adopted)
        /\ UNCHANGED <<tree, stateFile, stateThere, alive, call>>
    BY <1>4 DEF Reconcile, v, counters
  <2>6. unwritten' = <<>> /\ ~hint'.torn
    BY <1>0, <2>5, SaveJournalFounds
  <2>7. call = NoCall /\ ~Landed /\ ~Landed'
    BY <1>0, <2>5 DEF Founded, Landed
  <2>8. CASE adopted
    BY <1>0, <2>5, <2>6, <2>7, <2>8 DEF Founded
  <2>9. CASE ~adopted
    <3>1. v.entry.base \in {entry.base, None} /\ basis' = basis /\ agreed' = agreed
      BY <2>4, <2>5, <2>9 DEF TypeOK
    <3>2. OnDisk => OnDisk'
      <4>1. v.entry.pending \in BOOLEAN
        BY <2>4 DEF Entry
      <4> QED BY <1>1, <2>4, <2>5, <3>1, <4>1
    <3> QED BY <1>0, <2>5, <2>6, <2>7, <3>1, <3>2 DEF Founded
  <2> QED BY <2>8, <2>9
<1>5. CASE FetchMissing
  <2> DEFINE here == entry.known /\ entry.hasRemote /\ ~entry.pending /\ ~entry.conflict
             v == IF here THEN ReconcileDelete(entry, tree) ELSE [entry |-> entry, act |-> "none"]
  <2>1. /\ v.entry \in Entry /\ v.entry.base \in {entry.base, None}
        /\ entry.pending => v.entry.pending
    BY <1>0, ReconcileDeleteType, ReconcileDeleteBase
  <2>2. /\ alive /\ job = "idle" /\ job' \in {"idle", "delete"}
        /\ entry' = v.entry /\ SaveJournal(v.entry)
        /\ "note" \in queued => "note" \in queued'
        /\ UNCHANGED <<tree, stateFile, stateThere, alive, call, basis, agreed>>
    BY <1>5 DEF FetchMissing, history, counters
  <2> HIDE DEF v
  <2>3. unwritten' = <<>> /\ ~hint'.torn
    BY <1>0, <2>2, SaveJournalFounds
  <2>4. call = NoCall /\ ~Landed /\ ~Landed'
    BY <1>0, <2>2 DEF Founded, Landed
  <2>5. v.entry.pending \in BOOLEAN
    BY <2>1 DEF Entry
  <2>6. OnDisk => OnDisk'
    BY <1>1, <2>1, <2>2, <2>5
  <2> QED BY <1>0, <2>1, <2>2, <2>3, <2>4, <2>6 DEF Founded
<1>6. CASE WriteHint
  <2>1. /\ alive /\ job = "applied" /\ job' = "idle" /\ SaveJournal(entry)
        /\ queued \subseteq queued'
        /\ UNCHANGED <<tree, stateFile, stateThere, alive, entry, call, basis, agreed>>
    BY <1>6 DEF WriteHint, SaveLocked, history, counters
  <2>2. unwritten' = <<>> /\ ~hint'.torn
    BY <1>0, <2>1, SaveJournalFounds
  <2>3. call = NoCall /\ ~Landed /\ ~Landed'
    BY <1>0, <2>1 DEF Founded, Landed
  <2>4. OnDisk => OnDisk'
    BY <1>0, <1>1, <2>1 DEF Entry
  <2> QED BY <1>0, <2>1, <2>2, <2>3, <2>4 DEF Founded
<1>7. CASE SaveRest
  <2>1. /\ alive /\ job = "saving" /\ job' = "idle" /\ unwritten' = <<>> /\ hint' = NoHint
        /\ UNCHANGED <<stateFile, alive, entry, call, basis>>
    BY <1>7 DEF SaveRest, history, counters
  <2>2. ~hint'.torn /\ ~Recorded'
    BY <2>1 DEF NoHint, Recorded
  <2>3. call = NoCall /\ ~Landed /\ ~Landed'
    BY <1>0, <2>1 DEF Founded, Landed
  <2>4. OnDisk'
    BY <2>1, <2>2, <2>3 DEF Founded, OnDisk
  <2> QED BY <1>0, <2>1, <2>2, <2>3, <2>4 DEF Founded
<1> QED BY <1>2, <1>3, <1>4, <1>5, <1>6, <1>7

(* The others. *)
LEMMA WorkFounded ==
  ASSUME TypeOK, Witnessed, Founded,
         \/ TakePush \/ PushNow \/ DeleteNow \/ Fetch \/ Apply
         \/ SaveState \/ SaveStateFails
  PROVE  Founded'
<1>0. entry \in Entry /\ NoCall.at = "none"
  BY DEF TypeOK, NoCall
<1>1. CASE TakePush \/ Fetch \/ SaveStateFails
  <2>1. /\ UNCHANGED <<tree, hint, unwritten, alive, call, basis, entry, stateFile, stateThere,
                       journal, agreed>>
        /\ alive /\ ("note" \in queued => "note" \in queued')
    BY <1>1 DEF TakePush, Fetch, SaveStateFails, disk, history, counters
  <2>2. OnDisk => OnDisk'
    BY <2>1 DEF OnDisk, Latest, Recorded
  <2>3. job' = job \/ (job = "idle" /\ job' = "push")
    BY <1>1 DEF TakePush, Fetch, SaveStateFails
  <2>4. Landed' = Landed
    BY <2>1 DEF Landed
  <2> QED BY <2>1, <2>2, <2>3, <2>4 DEF Founded
<1>2. CASE PushNow
  <2>1. /\ UNCHANGED <<tree, hint, unwritten, alive, basis, stateFile, stateThere, journal, agreed,
                       queued>>
        /\ alive /\ job = "push" /\ call = NoCall /\ ~Landed
    BY <1>0, <1>2 DEF PushNow, disk, history, counters, Landed
  <2>2. CASE ~entry.pending
    <3>1. job' = "idle" /\ UNCHANGED <<entry, call>>
      BY <1>2, <2>2 DEF PushNow
    <3>2. OnDisk => OnDisk'
      BY <2>1, <3>1 DEF OnDisk, Latest, Recorded
    <3> QED BY <1>0, <2>1, <3>1, <3>2 DEF Founded, Landed
  <2>3. CASE entry.pending /\ tree = None
    <3>1. job' = "idle" /\ call' = call /\ entry' = [entry EXCEPT !.pending = FALSE]
      BY <1>2, <2>3 DEF PushNow
    <3>2. entry'.base = entry.base
      BY <1>0, <3>1 DEF Entry
    <3>3. OnDisk => OnDisk'
      BY <2>1, <2>3, <3>1 DEF OnDisk, Latest, Recorded
    <3> QED BY <1>0, <2>1, <3>1, <3>2, <3>3 DEF Founded, Landed
  <2>4. CASE entry.pending /\ tree # None
    <3>1. /\ call' = [NoCall EXCEPT !.at = "sent", !.content = tree, !.expect = entry.base]
          /\ UNCHANGED <<entry, job>>
      BY <1>2, <2>4 DEF PushNow
    <3>2. call'.at = "sent" /\ call'.expect = entry.base
      BY <3>1 DEF NoCall
    <3>3. OnDisk => OnDisk'
      BY <2>1, <3>1 DEF OnDisk, Latest, Recorded
    <3> QED BY <1>0, <2>1, <3>1, <3>2, <3>3 DEF Founded, Landed
  <2> QED BY <2>2, <2>3, <2>4
<1>3. CASE DeleteNow
  <2>1. /\ UNCHANGED <<hint, unwritten, alive, stateFile, stateThere, journal, queued, call>>
        /\ alive /\ job = "delete" /\ job' = "idle"
    BY <1>3 DEF DeleteNow, counters
  <2>2. call = NoCall /\ ~Landed /\ ~Landed' /\ unwritten = <<>>
    BY <1>0, <2>1 DEF Founded, Landed
  <2>3. CASE tree = entry.base
    <3>1. entry'.base = None /\ agreed'
      BY <1>3, <2>3 DEF DeleteNow, NoEntry, counters
    <3> QED BY <1>0, <2>1, <2>2, <3>1 DEF Founded
  <2>4. CASE tree # entry.base
    <3>1. /\ entry' = [entry EXCEPT !.hasRemote = FALSE, !.conflict = TRUE]
          /\ UNCHANGED <<tree, basis, agreed>>
      BY <1>3, <2>4 DEF DeleteNow, counters
    <3>2. entry'.base = entry.base /\ entry'.pending = entry.pending
      BY <1>0, <3>1 DEF Entry
    <3>3. OnDisk => OnDisk'
      BY <2>1, <3>1, <3>2 DEF OnDisk, Latest, Recorded
    <3> QED BY <1>0, <2>1, <2>2, <3>1, <3>2, <3>3 DEF Founded
  <2> QED BY <2>3, <2>4
<1>4. CASE Apply
  <2>1. /\ UNCHANGED <<hint, alive, stateFile, stateThere, journal, queued, call, agreed>>
        /\ alive /\ job = "idle" /\ fetched # None
    BY <1>4 DEF Apply, counters
  <2>2. call = NoCall /\ ~Landed /\ ~Landed' /\ unwritten = <<>>
    BY <1>0, <2>1 DEF Founded, Landed
  <2>3. CASE Replaceable
    <3>1. /\ tree' = fetched /\ basis' = fetched /\ job' = "applied"
          /\ entry' = [entry EXCEPT !.base = fetched, !.remote.hash = fetched]
          /\ unwritten' = Append(unwritten, fetched)
      BY <1>4, <2>3 DEF Apply, counters
    <3>2. entry'.base = fetched
      BY <1>0, <3>1 DEF Entry
    <3>3. unwritten' = <<fetched>>
      BY <2>2, <3>1
    <3>4. Recorded' /\ Latest' = fetched
      BY <3>3 DEF Recorded, Latest
    <3>5. OnDisk'
      BY <2>1, <3>1, <3>4 DEF OnDisk
    <3> QED BY <1>0, <2>1, <2>2, <3>1, <3>2, <3>3, <3>5 DEF Founded
  <2>4. CASE ~Replaceable
    <3>1. /\ entry' = IF KeepsOurs THEN entry ELSE [entry EXCEPT !.conflict = TRUE]
          /\ UNCHANGED <<tree, basis, unwritten, job>>
      BY <1>4, <2>4 DEF Apply, counters
    <3>2. entry'.base = entry.base /\ entry'.pending = entry.pending
      BY <1>0, <3>1 DEF Entry
    <3>3. OnDisk => OnDisk'
      BY <2>1, <3>1, <3>2 DEF OnDisk, Latest, Recorded
    <3> QED BY <1>0, <2>1, <2>2, <3>1, <3>2, <3>3 DEF Founded
  <2> QED BY <2>3, <2>4
<1>5. CASE SaveState
  <2>1. /\ UNCHANGED <<tree, hint, unwritten, alive, basis, journal, entry, call>>
        /\ alive /\ job = "idle" /\ job' = "saving" /\ stateFile' = entry
    BY <1>5 DEF SaveState, counters
  <2>2. call = NoCall /\ ~Landed /\ ~Landed' /\ unwritten = <<>>
    BY <1>0, <2>1 DEF Founded, Landed
  <2> QED BY <1>0, <2>1, <2>2 DEF Founded
<1> QED BY <1>1, <1>2, <1>3, <1>4, <1>5

(* What went astray stays so; every other step leaves a push founded. *)
LEMMA StepFounded ==
  ASSUME TypeOK, Witnessed, astray \/ Founded, [Next]_vars
  PROVE  astray' \/ Founded'
<1>1. astray => astray'
  <2>1. ASSUME astray, Next PROVE astray'
    BY <2>1 DEF Next, Save, HostEdit, Note, TakePush, PushNow, HostApply, PushAnswered, Reconcile,
       DeleteNow, Fetch, FetchMissing, Apply, WriteHint, SaveState, SaveStateFails, SaveRest, Crash,
       PowerLoss, Open, history
  <2> QED BY <2>1 DEF vars, history
<1>2. CASE ~astray'
  <2>1. Founded /\ ~PowerLoss
    BY <1>1, <1>2 DEF PowerLoss
  <2>2. CASE Next
    BY <1>2, <2>1, <2>2, OutsideFounded, JournalingFounded, WorkFounded DEF Next
  <2>3. CASE UNCHANGED vars
    BY <2>1, <2>3 DEF vars, disk, process, history, Founded, Landed, OnDisk, Latest, Recorded
  <2> QED BY <2>2, <2>3
<1> QED BY <1>2

-----------------------------------------------------------------------------
(* Whatever went astray, a push names bytes the tree's file has held: every    *)
(* base a record, the state file or the hint can bring back is one of those.   *)
Own == shown \cup {None}

Ours ==
    /\ tree \in Own /\ shadows \subseteq Own
    /\ entry.base \in Own /\ stateFile.base \in Own
    /\ hint.records \in Seq(shown) /\ unwritten \in Seq(shown)
    /\ call.at # "none" => call.content \in Own /\ call.expect \in Own

(* Nothing shown is forgotten. *)
LEMMA OursFrame ==
  ASSUME Ours, shown \subseteq shown', tree' \in Own', shadows' \subseteq Own',
         entry'.base \in Own', stateFile'.base \in Own',
         hint'.records \in Seq(shown'), unwritten' \in Seq(shown'),
         call' \in {call, NoCall}
  PROVE  Ours'
<1>1. call'.at # "none" => call'.content \in Own' /\ call'.expect \in Own'
  BY DEF Ours, Own, NoCall
<1> QED BY <1>1 DEF Ours

LEMMA OursFacts ==
  ASSUME TypeOK, Ours
  PROVE  /\ tree \in Own /\ shadows \subseteq Own /\ entry.base \in Own /\ stateFile.base \in Own
         /\ hint.records \in Seq(shown) /\ unwritten \in Seq(shown)
         /\ entry \in Entry /\ stateFile \in Entry
         /\ <<>> \in Seq(shown) /\ NoEntry.base = None /\ NoHint.records = <<>>
BY DEF Ours, TypeOK, NoEntry, NoHint

(* SaveJournal appends only what was written to the tree. *)
LEMMA SaveJournalOurs ==
  ASSUME TypeOK, Ours, NEW e, SaveJournal(e)
  PROVE  hint'.records \in Seq(shown) /\ unwritten' \in Seq(shown)
<1> DEFINE r == hint.records \o unwritten
<1>1. r \in Seq(shown) /\ <<>> \in Seq(shown)
  BY DEF Ours
<1>2. hint'.records = r /\ unwritten' = <<>>
  BY DEF SaveJournal, TypeOK
<1> QED BY <1>1, <1>2

(* So is what Open reads back. *)
LEMMA OpenOurs ==
  ASSUME TypeOK, Ours
  PROVE  WithPulled(WithJournal(stateFile)).base \in Own
<1> DEFINE e == WithJournal(stateFile)
           R == hint.records
<1> SUFFICES WithPulled(e).base \in Own
  OBVIOUS
<1>1. e \in Entry /\ e.base \in Own
  BY DEF TypeOK, Ours, WithJournal, Entry
<1>2. R \in Seq(shown)
  BY DEF Ours
<1>3. CASE R = <<>>
  BY <1>1, <1>3 DEF WithPulled
<1>4. CASE R # <<>> /\ e.pending
  <2>1. R[Len(R)] \in shown
    <3> HIDE DEF R
    <3> QED BY <1>2, <1>4
  <2>2. WithPulled(e) = [e EXCEPT !.base = R[Len(R)]]
    BY <1>4 DEF WithPulled
  <2> HIDE DEF e, R
  <2> QED BY <1>1, <2>1, <2>2 DEF Entry, Own
<1>5. CASE R # <<>> /\ ~e.pending
  <2> DEFINE b == IF \E i \in DOMAIN R : R[i] = tree THEN tree ELSE e.base
  <2>1. WithPulled(e) = [e EXCEPT !.known = TRUE, !.base = b]
    BY <1>5 DEF WithPulled
  <2>2. b \in Own
    BY <1>1 DEF Ours
  <2> HIDE DEF e, b
  <2> QED BY <1>1, <2>1, <2>2 DEF Entry
<1> QED BY <1>3, <1>4, <1>5

(* The steps outside the engine's queue. *)
LEMMA OutsideOurs ==
  ASSUME TypeOK, Ours,
         \/ \E c \in Contents : Save(c)
         \/ \E c \in HostWrites : HostEdit(c)
         \/ HostApply \/ Crash \/ PowerLoss \/ Open
  PROVE  Ours'
<1>1. ASSUME NEW c \in Contents, Save(c) PROVE Ours'
  <2>1. /\ shown' = shown \cup {c} /\ tree' = c /\ shadows' = {}
        /\ UNCHANGED <<entry, stateFile, hint, unwritten, call>>
    BY <1>1 DEF Save
  <2>2. hint'.records \in Seq(shown') /\ unwritten' \in Seq(shown')
    BY <2>1, OursFacts, SeqGrows
  <2> QED BY <2>1, <2>2, OursFacts, OursFrame DEF Own
<1>2. ASSUME NEW c \in HostWrites, HostEdit(c) PROVE Ours'
  BY <1>2 DEF HostEdit, disk, Ours, Own
<1>3. CASE HostApply
  <2>1. UNCHANGED <<tree, shadows, entry, stateFile, hint, unwritten, shown>> /\ call.at = "sent"
    BY <1>3 DEF HostApply, disk
  <2>2. call' = NoCall \/ (call'.content = call.content /\ call'.expect = call.expect)
    BY <1>3 DEF HostApply, TypeOK
  <2> QED BY <2>1, <2>2 DEF Ours, Own, NoCall
<1>4. CASE Crash
  <2>1. /\ UNCHANGED <<tree, shadows, stateFile, hint, shown>> /\ entry' = NoEntry /\ unwritten' = <<>>
        /\ call' \in {call, NoCall}
    BY <1>4 DEF Crash, Dies, disk
  <2> QED BY <2>1, OursFacts, OursFrame DEF Own
<1>5. CASE PowerLoss
  <2>1. /\ UNCHANGED <<stateFile, shown>> /\ entry' = NoEntry /\ unwritten' = <<>>
        /\ call' \in {call, NoCall} /\ tree' \in {tree} \cup shadows /\ shadows' = {}
    BY <1>5 DEF PowerLoss, Dies
  <2>2. PICK n \in 0 .. Len(hint.records) : hint'.records = SubSeq(hint.records, 1, n)
    BY <1>5 DEF PowerLoss
  <2>3. hint'.records \in Seq(shown)
    <3> DEFINE R == hint.records
    <3>1. R \in Seq(shown) /\ n \in 0 .. Len(R) /\ hint'.records = SubSeq(R, 1, n)
      BY <2>2, OursFacts
    <3> HIDE DEF R
    <3> QED BY <3>1, PrefixType
  <2> QED BY <2>1, <2>3, OursFacts, OursFrame DEF Own
<1>6. CASE Open
  <2>1. /\ UNCHANGED <<tree, shadows, stateFile, shown, call>>
        /\ entry'.base \in Own
    BY <1>6, OpenOurs, OursFacts DEF Open, history, Own
  <2>2. hint'.records \in Seq(shown) /\ unwritten' \in Seq(shown)
    BY <1>6, OursFacts DEF Open
  <2> QED BY <2>1, <2>2, OursFacts, OursFrame DEF Own
<1> QED BY <1>1, <1>2, <1>3, <1>4, <1>5, <1>6

(* The steps of the engine's queue. *)
LEMMA EngineOurs ==
  ASSUME TypeOK, Witnessed, Ours,
         \/ Note \/ TakePush \/ PushNow \/ PushAnswered \/ Reconcile \/ DeleteNow \/ Fetch
         \/ FetchMissing \/ Apply \/ WriteHint \/ SaveState \/ SaveStateFails \/ SaveRest
  PROVE  Ours'
<1>0. entry \in Entry /\ tree \in Hash
  BY DEF TypeOK
<1>1. ASSUME NEW e, SaveJournal(e), entry'.base \in Own, call' \in {call, NoCall},
             UNCHANGED <<tree, shadows, stateFile, shown>>
      PROVE  Ours'
  <2>1. hint'.records \in Seq(shown') /\ unwritten' \in Seq(shown')
    BY <1>1, SaveJournalOurs
  <2> QED BY <1>1, <2>1, OursFacts, OursFrame DEF Own
<1>2. CASE Note
  <2>1. /\ SaveJournal(entry') /\ call' = call /\ UNCHANGED <<tree, shadows, stateFile, shown>>
        /\ entry' = [entry EXCEPT !.known = TRUE, !.pending = TRUE]
    BY <1>2 DEF Note, history
  <2>2. entry'.base = entry.base
    BY <1>0, <2>1 DEF Entry
  <2> QED BY <1>1, <2>1, <2>2, OursFacts
<1>3. CASE TakePush \/ Fetch \/ SaveStateFails
  <2>1. UNCHANGED <<tree, shadows, entry, stateFile, hint, unwritten, shown, call>>
    BY <1>3 DEF TakePush, Fetch, SaveStateFails, disk, history
  <2> QED BY <2>1, OursFacts, OursFrame DEF Own
<1>4. CASE PushNow
  <2>1. UNCHANGED <<tree, shadows, stateFile, hint, unwritten, shown>>
    BY <1>4 DEF PushNow, disk, history
  <2>2. \/ call' = call /\ entry' \in {entry, [entry EXCEPT !.pending = FALSE]}
        \/ /\ entry' = entry
           /\ call' = [NoCall EXCEPT !.at = "sent", !.content = tree, !.expect = entry.base]
    BY <1>4 DEF PushNow
  <2>3. entry'.base = entry.base
    BY <1>0, <2>2 DEF Entry
  <2>4. call' = call \/ (call'.content = tree /\ call'.expect = entry.base)
    BY <2>2 DEF NoCall
  <2> QED BY <2>1, <2>3, <2>4 DEF Ours, Own
<1>5. CASE PushAnswered
  <2> DEFINE c     == call.content
             agree == [entry EXCEPT !.base = c, !.pending = FALSE, !.conflict = FALSE,
                                    !.remote.hash = IF entry.hasRemote THEN c ELSE @]
             taken == [agree EXCEPT !.localOnly = @ \/ ~entry.hasRemote, !.pending = tree # c]
             clash == [entry EXCEPT !.conflict = TRUE, !.hasRemote = @ /\ call.hash # None]
  <2>1. /\ SaveJournal(entry') /\ call' = NoCall /\ call.at = "answered"
        /\ UNCHANGED <<tree, shadows, stateFile, shown>>
    BY <1>5 DEF PushAnswered, SaveLocked
  <2>2. entry' \in {taken, agree, clash}
    BY <1>5 DEF PushAnswered
  <2>3. agree.base = c /\ taken.base = c /\ clash.base = entry.base
    BY <1>0 DEF Entry
  <2>4. c \in Own
    BY <2>1 DEF Ours
  <2> HIDE DEF agree, taken, clash
  <2>5. entry'.base \in Own
    BY <2>2, <2>3, <2>4, OursFacts
  <2> QED BY <1>1, <2>1, <2>5
<1>6. CASE Reconcile
  <2> DEFINE row == [hash |-> host, ver |-> 0]
             v == Verdict
  <2>1. row \in Row
    BY DEF Row, TypeOK
  <2>2. ReconcileRow(entry, tree, row, 1).entry.base \in {entry.base, tree, None}
    BY <1>0, <2>1, ReconcileRowType, ReconcileRowFounds
  <2>3. ReconcileDelete(entry, tree).entry.base \in {entry.base, None}
    BY <1>0, ReconcileDeleteBase
  <2>4. v.entry.base \in {entry.base, tree, None}
    BY <2>2, <2>3 DEF Verdict
  <2>5. /\ SaveJournal(v.entry) /\ entry' = v.entry /\ call' = call
        /\ UNCHANGED <<tree, shadows, stateFile, shown>>
    BY <1>6 DEF Reconcile
  <2> HIDE DEF v
  <2> QED BY <1>1, <2>4, <2>5, OursFacts DEF Own
<1>7. CASE FetchMissing
  <2> DEFINE here == entry.known /\ entry.hasRemote /\ ~entry.pending /\ ~entry.conflict
             v == IF here THEN ReconcileDelete(entry, tree) ELSE [entry |-> entry, act |-> "none"]
  <2>1. v.entry.base \in {entry.base, None}
    BY <1>0, ReconcileDeleteBase
  <2>2. /\ SaveJournal(v.entry) /\ entry' = v.entry /\ call' = call
        /\ UNCHANGED <<tree, shadows, stateFile, shown>>
    BY <1>7 DEF FetchMissing, history
  <2> HIDE DEF v
  <2> QED BY <1>1, <2>1, <2>2, OursFacts DEF Own
<1>8. CASE DeleteNow
  <2> DEFINE f == [entry EXCEPT !.hasRemote = FALSE, !.conflict = TRUE]
  <2>1. f.base = entry.base
    BY <1>0 DEF Entry
  <2>2. /\ UNCHANGED <<stateFile, hint, unwritten, call, shown>>
        /\ tree' \in {tree, None} /\ shadows' \subseteq shadows \cup {tree}
        /\ entry' \in {NoEntry, f}
    BY <1>8 DEF DeleteNow
  <2> HIDE DEF f
  <2> QED BY <2>1, <2>2, OursFacts, OursFrame DEF Own
<1>9. CASE Apply
  <2>1. CASE Replaceable
    <3> DEFINE f == [entry EXCEPT !.base = fetched, !.remote.hash = fetched]
    <3>1. /\ fetched # None /\ fetched \in Contents
      BY <1>9 DEF Apply, TypeOK, Hash
    <3>2. f.base = fetched
      BY <1>0 DEF Entry
    <3>3. /\ UNCHANGED <<stateFile, hint, call>> /\ entry' = f
          /\ tree' = fetched /\ shadows' = shadows \cup {tree} /\ shown' = shown \cup {fetched}
          /\ unwritten' = Append(unwritten, fetched)
      BY <1>9, <2>1 DEF Apply
    <3> HIDE DEF f
    <3>4. shown \subseteq shown' /\ fetched \in shown'
      BY <3>3
    <3>5. hint'.records \in Seq(shown') /\ unwritten \in Seq(shown')
      BY <3>3, <3>4, OursFacts, SeqGrows
    <3>6. unwritten' \in Seq(shown')
      BY <3>3, <3>4, <3>5
    <3> QED BY <3>2, <3>3, <3>4, <3>5, <3>6, OursFacts, OursFrame DEF Own
  <2>2. CASE ~Replaceable
    <3> DEFINE f == [entry EXCEPT !.conflict = TRUE]
    <3>1. f.base = entry.base
      BY <1>0 DEF Entry
    <3>2. /\ UNCHANGED <<stateFile, hint, call, tree, shadows, shown, unwritten>>
          /\ entry' \in {entry, f}
      BY <1>9, <2>2 DEF Apply
    <3> HIDE DEF f
    <3> QED BY <3>1, <3>2, OursFacts, OursFrame DEF Own
  <2> QED BY <2>1, <2>2
<1>10. CASE WriteHint
  <2>1. SaveJournal(entry) /\ UNCHANGED <<tree, shadows, stateFile, shown, entry, call>>
    BY <1>10 DEF WriteHint, SaveLocked, history
  <2> QED BY <1>1, <2>1, OursFacts
<1>11. CASE SaveState
  <2>1. /\ UNCHANGED <<tree, entry, hint, unwritten, shown, call>> /\ stateFile' = entry
        /\ shadows' \subseteq shadows
    BY <1>11 DEF SaveState, Flushed
  <2> QED BY <2>1, OursFacts, OursFrame DEF Own
<1>12. CASE SaveRest
  <2>1. /\ UNCHANGED <<tree, shadows, entry, stateFile, shown, call>> /\ hint' = NoHint
        /\ unwritten' = <<>>
    BY <1>12 DEF SaveRest, history
  <2> QED BY <2>1, OursFacts, OursFrame DEF Own
<1> QED BY <1>2, <1>3, <1>4, <1>5, <1>6, <1>7, <1>8, <1>9, <1>10, <1>11, <1>12

LEMMA StepOurs ==
  ASSUME TypeOK, Witnessed, Ours, [Next]_vars
  PROVE  Ours'
<1>1. CASE Next
  BY <1>1, OutsideOurs, EngineOurs DEF Next
<1>2. CASE UNCHANGED vars
  <2>1. UNCHANGED <<tree, shadows, entry, stateFile, hint, unwritten, shown, call>>
    BY <1>2 DEF vars, disk, process, history
  <2> QED BY <2>1, OursFacts, OursFrame DEF Own
<1> QED BY <1>1, <1>2

LEMMA InitOurs == Init => Ours
<1> SUFFICES ASSUME Init PROVE Ours
  OBVIOUS
<1>1. tree \in Hash /\ shown = {tree} /\ entry = Synced(tree) /\ stateFile = entry
  BY DEF Init, Hash
<1>2. entry.base = tree
  BY <1>1, StartTypes
<1>3. <<>> \in Seq(shown)
  OBVIOUS
<1> QED BY <1>1, <1>2, <1>3 DEF Init, Ours, Own, NoHint, NoCall

(* The host's compare-and-swap is never passed over bytes the tree's file has  *)
(* not held, whatever a crash in any window or a power loss brought back; and   *)
(* until the editor ends between two writes that belong together, only over the *)
(* bytes that the pushed ones were made from: for any contents and any number   *)
(* of saves, host edits, crashes and power losses, with or without a first      *)
(* state file (PushNow, MirrorStore::Open, NotePulled, SaveNowLocked).          *)
THEOREM PushesStayFounded == Spec => PushesFounded
<1> DEFINE Inv == TypeOK /\ Witnessed /\ (astray \/ Founded) /\ Ours
<1>1. Init => Inv
  BY InitJournal, InitFounded, InitOurs
<1>2. Inv /\ [Next]_vars => Inv'
  BY JournalInductive, StepFounded, StepOurs
<1>3. Inv /\ [Next]_vars =>
        [call.at = "sent" /\ call' # call /\ host' # host
           => host \in {basis, None} \/ (astray /\ host \in shown)]_vars
  <2> SUFFICES ASSUME Inv, [Next]_vars, call.at = "sent", call' # call, host' # host
               PROVE  host \in {basis, None} \/ (astray /\ host \in shown)
    OBVIOUS
  <2>1. HostApply
    <3>1. ~(\E c \in Contents : Save(c)) /\ ~(\E c \in HostWrites : HostEdit(c))
      BY DEF Save, HostEdit
    <3>2. ~(Note \/ TakePush \/ PushNow \/ PushAnswered \/ Reconcile \/ DeleteNow \/ Fetch)
      BY DEF Note, TakePush, PushNow, PushAnswered, Reconcile, DeleteNow, Fetch
    <3>3. ~(FetchMissing \/ Apply \/ WriteHint \/ SaveState \/ SaveStateFails \/ SaveRest)
      BY DEF FetchMissing, Apply, WriteHint, SaveState, SaveStateFails, SaveRest
    <3>4. ~(Crash \/ PowerLoss \/ Open \/ UNCHANGED vars)
      BY DEF Crash, PowerLoss, Open, vars
    <3> QED BY <3>1, <3>2, <3>3, <3>4 DEF Next
  <2>2. host = call.expect
    BY <2>1 DEF HostApply
  <2>3. CASE astray
    BY <2>2, <2>3 DEF Ours, Own
  <2>4. CASE Founded
    <3>1. alive /\ ~Landed
      BY <2>4 DEF Founded, Landed, NoCall
    <3> QED BY <2>2, <2>4, <3>1 DEF Founded
  <2> QED BY <2>3, <2>4
<1> QED BY <1>1, <1>2, <1>3, PTL DEF Spec, PushesFounded

=============================================================================
