---------------------------- MODULE TreeOpsProofs ----------------------------
(***************************************************************************)
(* A replayed operation takes nothing from the host that the mirror has not *)
(* held or seen listed at that path, whatever the user, the host's own       *)
(* writers and the link do meanwhile.  A rename moves bytes to a free path;   *)
(* a push and a delete name the bytes they replace, and what has to be shown   *)
(* is that every hash a record keeps (base, row, unanswered pushes), and so    *)
(* every hash a request names, is one the mirror knows at its path.            *)
(***************************************************************************)
EXTENDS TreeOps, MirrorRulesProofs, FiniteSetTheorems,
        SequenceTheorems, TLAPS

Sound(e, S) ==
    /\ {e.base, e.remote.hash} \subseteq S \cup {None} /\ e.unack \in Seq(S)
    /\ ~e.known => e = NoEntry

(* What a request is made of. *)
Request ==
    [kind : {"none", "push", "rename", "delete"}, path : Paths, to : Paths, content : Hash,
     expect : [kind : {"any", "hash", "absent"}, hash : Hash],
     at : {"sent", "checked", "answered"}, ans : {"none", "ok", "conflict", "error"},
     hash : Hash, found : Hash, blind : BOOLEAN]

(* A push names and carries bytes known at its path, a delete names such bytes  *)
(* or is one with nothing to compare; what the host found there meets what the   *)
(* request expects.                                                            *)
Named(r, S) ==
    /\ r.kind = "push" =>
          /\ r.content \in S
          /\ r.expect.kind # "any" /\ r.expect.hash \in S \cup {None}
          /\ r.at = "answered" /\ r.ans = "ok" => r.hash = r.content
    /\ r.kind = "delete" /\ ~r.blind =>
          r.expect.kind # "any" /\ r.expect.hash \in S \cup {None}
    /\ r.at = "checked" => Meets(r.found, r.expect)
    /\ r.kind = "none" => r.to = r.path

(* Every record and every request names bytes the mirror has held or seen. *)
Bytes ==
    /\ \A p \in Paths :
          /\ tree[p] \in had[p] \cup {None}
          /\ Sound(entries[p], had[p])
    /\ \A r \in {call} \cup late : Named(r, had[r.path])

(* A request on the wire is the running job's first step's, an operation the   *)
(* journal's first.                                                            *)
Waiting ==
    \/ call = NoCall
    \/ call.kind = "push" /\ work # <<>>
    \/ /\ call.kind \in {"rename", "delete"} /\ work # <<>> /\ ops # <<>>
       /\ Head(ops).path = call.path /\ Head(ops).kind = call.kind

Requests == \A r \in {call} \cup late : r \in Request /\ (r.kind = "push" => r.content \in Contents)

(* The parts of a state on which everything else rests. *)
Typed == TypeOK /\ Requests /\ Waiting

WorkStep == [kind : {"drain", "manifest", "push", "pull", "delete"}, path : Paths]

-----------------------------------------------------------------------------
(* Sequences: the first element taken, one added, one dropped. *)
LEMMA TailFacts ==
  ASSUME NEW S, NEW s \in Seq(S), s # <<>>
  PROVE  /\ Head(s) \in S /\ Head(s) = s[1] /\ 1 \in DOMAIN s
         /\ Tail(s) \in Seq(S) /\ Len(Tail(s)) = Len(s) - 1
         /\ \A i \in DOMAIN Tail(s) : i + 1 \in DOMAIN s /\ Tail(s)[i] = s[i + 1]
OBVIOUS

LEMMA AppendFacts ==
  ASSUME NEW S, NEW s \in Seq(S), NEW x \in S
  PROVE  /\ Append(s, x) \in Seq(S) /\ Append(s, x) # <<>>
         /\ DOMAIN Append(s, x) = DOMAIN s \cup {Len(s) + 1}
         /\ \A i \in DOMAIN s : i \in Nat /\ i < Len(s) + 1 /\ Append(s, x)[i] = s[i]
         /\ Append(s, x)[Len(s) + 1] = x
OBVIOUS

(* The records that the steps put together. *)
LEMMA StartTypes ==
  /\ SomePath \in Paths /\ NoOp \in Op
  /\ None \in Hash /\ NoCall.kind = "none" /\ NoCall.at = "sent" /\ NoCall \in Request
  /\ \A c \in Hash : /\ Synced(c) \in Entry /\ Synced(c).base = c
                     /\ Synced(c).remote.hash = c /\ Synced(c).unack = <<>>
                     /\ ~Synced(c).known => Synced(c) = NoEntry
<1>1. SomePath \in Paths
  BY TreeAssumption DEF SomePath
<1>2. NoOp \in Op
  BY <1>1 DEF NoOp, Op
<1>3. None \in Hash /\ NoCall.kind = "none" /\ NoCall.at = "sent" /\ NoCall \in Request
  BY <1>1 DEF NoCall, Anything, Hash, Request
<1>4. ASSUME NEW c \in Hash
      PROVE  /\ Synced(c) \in Entry /\ Synced(c).base = c
             /\ Synced(c).remote.hash = c /\ Synced(c).unack = <<>>
             /\ ~Synced(c).known => Synced(c) = NoEntry
  <2>1. CASE c = None
    BY <2>1, NoEntryType DEF Synced, NoEntry, NoRow
  <2>2. CASE c # None
    BY <2>2, NoEntryType DEF Synced, NoEntry, Entry, Row
  <2> QED BY <2>1, <2>2
<1> QED BY <1>1, <1>2, <1>3, <1>4

(* The running job's step. *)
LEMMA DoingFacts ==
  ASSUME Typed, NEW k, Doing(k)
  PROVE  /\ work # <<>> /\ work \in Seq(WorkStep) /\ Tail(work) \in Seq(WorkStep)
         /\ Head(work).path \in Paths /\ Head(work).kind = k /\ Head(work) = work[1]
         /\ call = NoCall
         /\ entries \in [Paths -> Entry] /\ tree \in [Paths -> Hash] /\ host \in [Paths -> Hash]
<1>1. work # <<>> /\ work \in Seq(WorkStep) /\ Head(work).kind = k /\ call = NoCall
  BY DEF Doing, Typed, TypeOK, WorkStep
<1>2. Head(work) \in WorkStep /\ Tail(work) \in Seq(WorkStep) /\ Head(work) = work[1]
  BY <1>1, TailFacts
<1>3. Head(work).path \in Paths
  BY <1>2 DEF WorkStep
<1> QED BY <1>1, <1>2, <1>3 DEF Typed, TypeOK

(* One record replaced. *)
LEMMA SetRecord ==
  ASSUME TypeOK, NEW p \in Paths, NEW e \in Entry
  PROVE  /\ [entries EXCEPT ![p] = e] \in [Paths -> Entry]
         /\ \A q \in Paths : [entries EXCEPT ![p] = e][q] = IF q = p THEN e ELSE entries[q]
BY DEF TypeOK

(* A sync's verdict on one path. *)
LEMMA VerdictType ==
  ASSUME TypeOK, NEW p \in Paths
  PROVE  /\ Verdict(p).entry \in Entry
         /\ Verdict(p).entry.base \in {entries[p].base, host[p], None}
<1> DEFINE row == [hash |-> host[p], ver |-> 0]
<1>1. entries[p] \in Entry /\ tree[p] \in Hash /\ row \in Row /\ row.hash = host[p]
  BY DEF TypeOK, Row
<1>2. /\ ReconcileRow(entries[p], tree[p], row, 1).entry \in Entry
      /\ ReconcileRow(entries[p], tree[p], row, 1).entry.base \in {entries[p].base, host[p], None}
  BY <1>1, ReconcileRowType, ReconcileRowBase
<1>3. /\ ReconcileDelete(entries[p], tree[p]).entry \in Entry
      /\ ReconcileDelete(entries[p], tree[p]).entry.base \in {entries[p].base, None}
  BY <1>1, ReconcileDeleteType, ReconcileDeleteBase
<1> QED BY <1>1, <1>2, <1>3 DEF Verdict

(* The plan of a sync. *)
LEMMA ReconcileEffect ==
  ASSUME Typed, Reconcile
  PROVE  /\ work' \in Seq(WorkStep)
         /\ entries' \in [Paths -> Entry]
         /\ \A p \in Paths : entries'[p] = Verdict(p).entry
<1> DEFINE acts == [p \in Paths |-> Verdict(p).act]
           Planned == [kind : {"delete", "pull", "push"}, path : Paths]
<1>1. work # <<>> /\ Tail(work) \in Seq(WorkStep)
  BY DoingFacts DEF Reconcile
<1>2. PICK s \in PlanSteps(acts) : work' = s \o Tail(work)
  BY DEF Reconcile
<1>3. PICK n \in 0 .. Cardinality(Paths) : s \in [1 .. n -> Planned]
  BY DEF PlanSteps
<1>4. n \in Nat
  <2>1. Cardinality(Paths) \in Nat
    BY TreeAssumption, FS_CardinalityType
  <2> QED BY <2>1
<1>5. s \in Seq(WorkStep)
  <2>1. Planned \subseteq WorkStep
    BY DEF WorkStep
  <2>2. s \in Seq(Planned)
    <3> HIDE DEF Planned
    <3> QED BY <1>3, <1>4
  <2> HIDE DEF Planned
  <2> QED BY <2>1, <2>2
<1>6. work' \in Seq(WorkStep)
  BY <1>1, <1>2, <1>5
<1>7. entries' = [p \in Paths |-> Verdict(p).entry]
  BY DEF Reconcile
<1>8. \A p \in Paths : Verdict(p).entry \in Entry
  BY VerdictType DEF Typed
<1> QED BY <1>6, <1>7, <1>8

(* PushNow's request is answered: the record it leaves. *)
LEMMA PushAnsweredEffect ==
  ASSUME Typed, PushAnswered
  PROVE  /\ entries' \in [Paths -> Entry]
         /\ \A q \in Paths \ {call.path} : entries'[q] = entries[q]
         /\ LET e == entries[call.path]
                f == entries'[call.path]
            IN  \/ ~e.known /\ f = NoEntry
                \/ /\ e.known /\ f.known /\ f.base = call.hash
                   /\ f.remote.hash \in {e.remote.hash, call.hash} /\ f.unack = <<>>
                   /\ \/ call.ans = "ok"
                      \/ call.hash = call.content
                      \/ \E i \in DOMAIN e.unack : e.unack[i] = call.hash
                \/ /\ e.known /\ f.known /\ f.base = e.base
                   /\ f.remote.hash = e.remote.hash /\ f.unack = <<>>
<1> DEFINE p == call.path
           c == call.content
           o == entries[p]
           e == [o EXCEPT !.unack = <<>>]
           own == \E i \in DOMAIN o.unack : o.unack[i] = call.hash
           based == [e EXCEPT !.base = call.hash, !.conflict = FALSE,
                              !.remote.hash = IF e.hasRemote THEN call.hash ELSE @]
           taken == [based EXCEPT !.pending = tree[p] # c, !.localOnly = @ \/ ~e.hasRemote]
           there == [based EXCEPT !.pending = FALSE]
           clash == [e EXCEPT !.conflict = TRUE, !.hasRemote = @ /\ call.hash # None]
<1>1. p \in Paths /\ o \in Entry /\ call.hash \in Hash /\ tree[p] \in Hash
  BY DEF Typed, TypeOK, Requests, Request
<1>2. /\ e \in Entry /\ e.known = o.known /\ e.base = o.base /\ e.remote = o.remote
      /\ e.unack = <<>>
  <2>1. <<>> \in Seq(Contents)
    OBVIOUS
  <2> HIDE DEF o
  <2> QED BY <1>1, <2>1 DEF Entry
<1>3. /\ based \in Entry /\ based.known = o.known /\ based.base = call.hash
      /\ based.remote.hash \in {o.remote.hash, call.hash} /\ based.unack = <<>>
  <2> HIDE DEF e, o
  <2> QED BY <1>1, <1>2 DEF Entry, Row
<1>4. /\ taken \in Entry /\ taken.known = o.known /\ taken.base = call.hash
      /\ taken.remote.hash \in {o.remote.hash, call.hash} /\ taken.unack = <<>>
  <2>1. (tree[p] # c) \in BOOLEAN /\ (based.localOnly \/ ~e.hasRemote) \in BOOLEAN
    OBVIOUS
  <2> HIDE DEF based, e, o
  <2> QED BY <1>3, <2>1 DEF Entry
<1>5. /\ there \in Entry /\ there.known = o.known /\ there.base = call.hash
      /\ there.remote.hash \in {o.remote.hash, call.hash} /\ there.unack = <<>>
  <2> HIDE DEF based, e, o
  <2> QED BY <1>3 DEF Entry
<1>6. /\ clash \in Entry /\ clash.known = o.known /\ clash.base = o.base
      /\ clash.remote.hash = o.remote.hash /\ clash.unack = <<>>
  <2>1. (e.hasRemote /\ call.hash # None) \in BOOLEAN
    OBVIOUS
  <2> HIDE DEF e, o
  <2> QED BY <1>2, <2>1 DEF Entry
<1> DEFINE r == CASE ~o.known           -> NoEntry
                  [] o.known /\ call.ans = "ok" -> taken
                  [] o.known /\ call.ans = "error" -> e
                  [] o.known /\ call.ans = "conflict" /\ call.hash = c -> there
                  [] o.known /\ call.ans = "conflict" /\ call.hash # c /\ own -> based
                  [] OTHER -> clash
<1>7. entries' = [entries EXCEPT ![p] = r]
  BY DEF PushAnswered
<1>8. \/ ~o.known /\ r = NoEntry
      \/ o.known /\ call.ans = "ok" /\ r = taken
      \/ o.known /\ r = e
      \/ o.known /\ call.hash = c /\ r = there
      \/ o.known /\ own /\ r = based
      \/ o.known /\ r = clash
  <2> HIDE DEF o, own, e, based, taken, there, clash, c
  <2> QED OBVIOUS
<1>9. r \in Entry
  <2> HIDE DEF o, own, e, based, taken, there, clash, c, r
  <2> QED BY <1>2, <1>3, <1>4, <1>5, <1>6, <1>8, NoEntryType
<1> HIDE DEF own, e, based, taken, there, clash, r, c
<1>10. entries' \in [Paths -> Entry] /\ entries'[p] = r
       /\ \A q \in Paths \ {p} : entries'[q] = entries[q]
  BY <1>1, <1>7, <1>9, SetRecord DEF Typed
<1>11. \/ ~o.known /\ r = NoEntry
       \/ /\ o.known /\ r.known /\ r.base = call.hash
          /\ r.remote.hash \in {o.remote.hash, call.hash} /\ r.unack = <<>>
          /\ call.ans = "ok" \/ call.hash = c \/ own
       \/ /\ o.known /\ r.known /\ r.base = o.base
          /\ r.remote.hash = o.remote.hash /\ r.unack = <<>>
  BY <1>2, <1>3, <1>4, <1>5, <1>6, <1>8
<1> QED BY <1>10, <1>11 DEF own, c

(* A record made from another one, with hashes from a set beside its own. *)
Derived(f, e, hs) ==
    \/ f \in {e, NoEntry}
    \/ /\ f.known
       /\ f.base \in {e.base, None} \cup hs
       /\ f.remote.hash \in {e.remote.hash} \cup hs
       /\ f.unack \in {e.unack, <<>>}

(* The answer to a rename or a delete touches the records it names. *)
LEMMA OpAnsweredEffect ==
  ASSUME Typed, OpAnswered
  PROVE  /\ entries' \in [Paths -> Entry]
         /\ \A r \in Paths : \/ Derived(entries'[r], entries[r], {})
                             \/ /\ r = call.to /\ call.ans # "error"
                                /\ Derived(entries'[r], entries[call.path], {})
<1> DEFINE p == call.path
           q == call.to
           parked == [entries[p] EXCEPT !.hasRemote = FALSE, !.base = None,
                                        !.pending = FALSE, !.conflict = TRUE]
           refused == [entries[p] EXCEPT !.conflict = TRUE, !.pending = FALSE]
<1>1. p \in Paths /\ q \in Paths /\ entries \in [Paths -> Entry] /\ entries[p] \in Entry
  BY DEF Typed, TypeOK, Requests, Request
<1>2. parked \in Entry /\ (entries[p].known => Derived(parked, entries[p], {}))
  BY <1>1 DEF Entry, Hash, Derived
<1>3. refused \in Entry /\ (entries[p].known => Derived(refused, entries[p], {}))
  BY <1>1 DEF Entry, Derived
<1>4. \A e \in Entry : Derived(e, e, {}) /\ Derived(NoEntry, e, {})
  BY DEF Derived
<1>5. CASE call.ans = "error"
  <2>1. entries' = entries
    BY <1>5 DEF OpAnswered
  <2> QED BY <1>1, <1>4, <2>1
<1>6. CASE call.ans # "error" /\ call.kind = "delete"
  <2>1. entries' = Deleted(entries, p)
    BY <1>6 DEF OpAnswered
  <2>2. \/ entries' = entries
        \/ entries' = [entries EXCEPT ![p] = NoEntry]
        \/ entries[p].known /\ entries' = [entries EXCEPT ![p] = refused]
    BY <1>1, <2>1 DEF Deleted
  <2> HIDE DEF refused
  <2> QED BY <1>1, <1>3, <1>4, <2>2, NoEntryType
<1>7. CASE call.kind = "rename" /\ call.ans = "ok"
  <2>1. entries' = Moved(entries, p, q)
    BY <1>7 DEF OpAnswered
  <2>2. \/ entries' = entries
        \/ entries' = [entries EXCEPT ![p] = NoEntry, ![q] = IF entries[q].known THEN @ ELSE entries[p]]
    BY <2>1 DEF Moved
  <2>3. /\ entries' \in [Paths -> Entry]
        /\ \A r \in Paths : \/ entries'[r] \in {entries[r], NoEntry}
                            \/ r = q /\ entries'[r] = entries[p]
    BY <1>1, <2>2, NoEntryType
  <2> QED BY <1>1, <1>4, <1>7, <2>3
<1>8. CASE call.kind = "rename" /\ call.ans \notin {"ok", "error"}
  <2>1. entries' = Parked(entries, p, q)
    BY <1>8 DEF OpAnswered
  <2>2. \/ entries' = entries
        \/ entries[p].known /\ entries' = [entries EXCEPT ![q] = parked]
    BY <2>1 DEF Parked
  <2> HIDE DEF parked
  <2> QED BY <1>1, <1>2, <1>4, <1>8, <2>2
<1>9. call.kind \in {"rename", "delete"}
  BY DEF OpAnswered
<1> QED BY <1>5, <1>6, <1>7, <1>8, <1>9

(* PushNow itself only clears the flag of a path with nothing to push. *)
LEMMA PushNowEffect ==
  ASSUME Typed, PushNow
  PROVE  /\ entries' \in [Paths -> Entry]
         /\ \A q \in Paths : \/ entries'[q] = entries[q]
                             \/ entries'[q] = [entries[q] EXCEPT !.pending = FALSE]
<1> DEFINE p == Head(work).path
           b == entries[p].pending /\ tree[p] # None
           f == [entries[p] EXCEPT !.pending = b]
<1>1. p \in Paths /\ entries \in [Paths -> Entry]
  BY DoingFacts DEF PushNow
<1>2. entries' = entries \/ entries' = [entries EXCEPT ![p] = f]
  BY DEF PushNow
<1>3. f \in Entry /\ f \in {entries[p], [entries[p] EXCEPT !.pending = FALSE]}
  <2>1. b \in BOOLEAN /\ (b => entries[p].pending) /\ entries[p] \in Entry
    BY <1>1 DEF Entry
  <2> HIDE DEF b
  <2>2. CASE b
    BY <2>1, <2>2 DEF Entry
  <2>3. CASE ~b
    BY <2>1, <2>3 DEF Entry
  <2> QED BY <2>1, <2>2, <2>3
<1> HIDE DEF f, p
<1> QED BY <1>1, <1>2, <1>3

(* A lost answer to a push leaves its bytes among the unanswered ones. *)
LEMMA GiveUpEffect ==
  ASSUME Typed, GiveUp
  PROVE  /\ entries' \in [Paths -> Entry]
         /\ \A q \in Paths :
               \/ entries'[q] = entries[q]
               \/ /\ call.kind = "push" /\ q = call.path /\ entries[q].known
                  /\ entries'[q] = [entries[q] EXCEPT !.unack = Append(entries[q].unack, call.content)]
<1> DEFINE p == call.path
           u == Append(entries[p].unack, call.content)
           f == [entries[p] EXCEPT !.unack = u]
<1>1. p \in Paths /\ entries \in [Paths -> Entry] /\ entries[p] \in Entry
  BY DEF Typed, TypeOK, Requests, Request
<1>2. \/ entries' = entries
      \/ call.kind = "push" /\ entries[p].known /\ entries' = [entries EXCEPT ![p] = f]
  BY <1>1 DEF GiveUp
<1>3. call.kind = "push" => call.content \in Contents
  BY DEF Typed, Requests
<1>4. call.content \in Contents => f \in Entry
  <2> SUFFICES ASSUME call.content \in Contents PROVE f \in Entry
    OBVIOUS
  <2>1. u \in Seq(Contents)
    BY <1>1, AppendFacts DEF Entry
  <2> HIDE DEF u
  <2> QED BY <1>1, <2>1 DEF Entry
<1> HIDE DEF f
<1> QED BY <1>1, <1>2, <1>3, <1>4 DEF f, u

(* A pull writes what the host holds, leaves what is ours, or finds nothing. *)
LEMMA PullNowEffect ==
  ASSUME Typed, PullNow
  PROVE  LET p == Head(work).path
         IN  /\ p \in Paths /\ tree' \in [Paths -> Hash] /\ entries' \in [Paths -> Entry]
             /\ \A q \in Paths \ {p} : tree'[q] = tree[q] /\ entries'[q] = entries[q]
             /\ \/ /\ host[p] # None /\ had' = [had EXCEPT ![p] = @ \cup {host[p]}]
                   /\ tree'[p] = host[p] /\ Derived(entries'[p], entries[p], {host[p]})
                \/ had' = had /\ tree' = tree /\ Derived(entries'[p], entries[p], {})
             /\ work' \in {Tail(work), <<Step("delete", p)>> \o Tail(work)}
<1> DEFINE p == Head(work).path
           e == entries[p]
           ours == ~e.known \/ e.pending \/ e.conflict
           gone == ReconcileDelete(e, tree[p])
<1>1. p \in Paths /\ entries \in [Paths -> Entry] /\ tree \in [Paths -> Hash] /\ host[p] \in Hash
  BY DoingFacts DEF PullNow
<1>2. e \in Entry /\ tree[p] \in Hash
  BY <1>1
<1>3. CASE /\ ~ours /\ host[p] # None
           /\ tree' = [tree EXCEPT ![p] = host[p]] /\ had' = [had EXCEPT ![p] = @ \cup {host[p]}]
           /\ entries' = [entries EXCEPT ![p].base = host[p], ![p].remote.hash = host[p]]
           /\ work' = Tail(work)
  <2> DEFINE f == [e EXCEPT !.base = host[p], !.remote.hash = host[p]]
  <2>1. entries' = [entries EXCEPT ![p] = f]
    BY <1>1, <1>3
  <2>2. f \in Entry /\ f.base = host[p] /\ f.remote.hash = host[p] /\ f.unack = e.unack /\ f.known
    <3> HIDE DEF e
    <3> QED BY <1>1, <1>2, <1>3 DEF Entry, Row
  <2> HIDE DEF f
  <2>3. entries' \in [Paths -> Entry] /\ entries'[p] = f /\ \A q \in Paths : q # p => entries'[q] = entries[q]
    BY <1>1, <2>1, <2>2
  <2>4. Derived(f, e, {host[p]})
    BY <1>3, <2>2 DEF Derived
  <2>5. tree' \in [Paths -> Hash] /\ tree'[p] = host[p] /\ \A q \in Paths \ {p} : tree'[q] = tree[q]
    BY <1>1, <1>3
  <2> QED BY <1>1, <1>3, <2>2, <2>3, <2>4, <2>5
<1>4. CASE /\ entries' = [entries EXCEPT ![p].conflict = @ \/ (~ours /\ host[p] # None)]
           /\ work' = Tail(work) /\ UNCHANGED <<tree, had>>
  <2> DEFINE b == e.conflict \/ (~ours /\ host[p] # None)
             f == [e EXCEPT !.conflict = b]
  <2>1. entries' = [entries EXCEPT ![p] = f]
    BY <1>1, <1>4
  <2>2. b \in BOOLEAN /\ (~e.known => b = e.conflict)
    BY <1>2 DEF Entry
  <2>3. f \in Entry /\ f.base = e.base /\ Derived(f, e, {}) /\ (f = e \/ e.known)
    <3> HIDE DEF e, b
    <3>1. CASE e.known
      BY <1>2, <2>2, <3>1 DEF Entry, Derived
    <3>2. CASE ~e.known
      BY <1>2, <2>2, <3>2 DEF Entry, Derived
    <3> QED BY <3>1, <3>2
  <2> HIDE DEF f
  <2>4. entries' \in [Paths -> Entry] /\ entries'[p] = f /\ \A q \in Paths : q # p => entries'[q] = entries[q]
    BY <1>1, <2>1, <2>3
  <2> QED BY <1>1, <1>4, <2>3, <2>4
<1>5. CASE /\ ~ours
           /\ entries' = [entries EXCEPT ![p] = IF e.hasRemote THEN gone.entry ELSE e]
           /\ work' = (IF e.hasRemote /\ gone.act = "delete" THEN <<Step("delete", p)>>
                                                            ELSE <<>>) \o Tail(work)
           /\ UNCHANGED <<tree, had>>
  <2> DEFINE f == IF e.hasRemote THEN gone.entry ELSE e
  <2>1. /\ gone.entry \in Entry
        /\ \/ gone.entry = NoEntry
           \/ /\ gone.entry.remote = e.remote /\ gone.entry.unack = e.unack
              /\ gone.entry.base = e.base /\ gone.entry.known = e.known
        /\ gone.act = "delete" => gone.entry = e /\ tree[p] # None /\ e.base = tree[p]
    BY <1>2, ReconcileDeleteType, ReconcileDeleteKeeps
  <2>2. f \in Entry /\ Derived(f, e, {})
    <3>1. ~NoEntry.known
      BY DEF NoEntry
    <3> HIDE DEF e, gone
    <3> QED BY <1>2, <1>5, <2>1, <3>1 DEF Derived
  <2>3. work' \in {Tail(work), <<Step("delete", p)>> \o Tail(work)}
    <3>1. work # <<>> /\ work \in Seq(WorkStep)
      BY DEF PullNow, Doing, Typed, TypeOK, WorkStep
    <3>2. Tail(work) \in Seq(WorkStep)
      BY <3>1, TailFacts
    <3>3. <<>> \o Tail(work) = Tail(work)
      BY <3>2, ConcatEmptySeq
    <3> HIDE DEF e, gone
    <3> QED BY <1>5, <2>1, <3>3
  <2>4. entries' = [entries EXCEPT ![p] = f]
    BY <1>5
  <2> HIDE DEF f
  <2>5. entries' \in [Paths -> Entry] /\ entries'[p] = f /\ \A q \in Paths : q # p => entries'[q] = entries[q]
    BY <1>1, <2>2, <2>4
  <2> QED BY <1>1, <1>5, <2>2, <2>3, <2>5
<1> QED BY <1>3, <1>4, <1>5 DEF PullNow

(* A delete of the sync's plan takes the record with the file, or shows it. *)
LEMMA DeleteNowEffect ==
  ASSUME Typed, DeleteNow
  PROVE  LET p == Head(work).path
         IN  /\ p \in Paths /\ tree' \in [Paths -> Hash] /\ entries' \in [Paths -> Entry]
             /\ \A q \in Paths : tree'[q] \in {tree[q], None} /\ (q # p => entries'[q] = entries[q])
             /\ \/ entries'[p] = NoEntry /\ entries[p].known /\ tree[p] = entries[p].base
                \/ entries'[p] = entries[p]
                \/ /\ entries[p].known
                   /\ entries'[p] = [entries[p] EXCEPT !.hasRemote = FALSE, !.conflict = TRUE]
<1> DEFINE p == Head(work).path
           e == entries[p]
           f == [e EXCEPT !.hasRemote = FALSE, !.conflict = TRUE]
           ours == ~e.known \/ e.pending \/ e.conflict
<1>1. p \in Paths /\ entries \in [Paths -> Entry] /\ tree \in [Paths -> Hash] /\ None \in Hash
  BY DoingFacts DEF DeleteNow, Hash
<1>2. f \in Entry
  BY <1>1 DEF Entry
<1>3. \/ /\ e.known /\ tree[p] = e.base /\ tree' = [tree EXCEPT ![p] = None]
         /\ entries' = [entries EXCEPT ![p] = NoEntry]
      \/ tree' = tree /\ entries' = entries
      \/ e.known /\ tree' = tree /\ entries' = [entries EXCEPT ![p] = f]
  BY DEF DeleteNow
<1> HIDE DEF f
<1>4. /\ tree' \in [Paths -> Hash] /\ entries' \in [Paths -> Entry]
      /\ \A q \in Paths : tree'[q] \in {tree[q], None} /\ (q # p => entries'[q] = entries[q])
  BY <1>1, <1>2, <1>3, NoEntryType
<1>5. \/ entries'[p] = NoEntry /\ e.known /\ tree[p] = e.base
      \/ entries'[p] = e
      \/ e.known /\ entries'[p] = f
  BY <1>1, <1>3
<1> QED BY <1>1, <1>4, <1>5 DEF f

-----------------------------------------------------------------------------
(* The types *)

LEMMA TypedAgain ==
  ASSUME tree' \in [Paths -> Hash], host' \in [Paths -> Hash], entries' \in [Paths -> Entry],
         ops' \in Seq(Op), queue' \in Seq(Job), work' \in Seq(WorkStep), link' \in BOOLEAN,
         had' \in [Paths -> SUBSET Contents], held' \in [Paths -> SUBSET Contents],
         forgotten' \subseteq Paths, userSteps' \in Nat, hostEdits' \in Nat, faults' \in Nat,
         Requests', Waiting'
  PROVE  Typed'
<1>1. \A r \in {call'} \cup late' : /\ r.kind \in {"none", "push", "rename", "delete"}
                                    /\ r.at \in {"sent", "checked", "answered"}
  BY DEF Requests, Request
<1>2. call'.kind \in {"rename", "delete"} =>
         ops' # <<>> /\ Head(ops').path = call'.path /\ Head(ops').kind = call'.kind
  BY StartTypes DEF Waiting
<1>3. TypeOK'
  BY <1>1, <1>2 DEF TypeOK, WorkStep
<1> QED BY <1>3 DEF Typed

(* What holds of the variables a step leaves alone. *)
LEMMA TypedFacts ==
  ASSUME Typed
  PROVE  /\ tree \in [Paths -> Hash] /\ host \in [Paths -> Hash] /\ entries \in [Paths -> Entry]
         /\ ops \in Seq(Op) /\ queue \in Seq(Job) /\ work \in Seq(WorkStep) /\ link \in BOOLEAN
         /\ had \in [Paths -> SUBSET Contents] /\ held \in [Paths -> SUBSET Contents]
         /\ forgotten \subseteq Paths /\ userSteps \in Nat /\ hostEdits \in Nat /\ faults \in Nat
         /\ Requests /\ Waiting
BY DEF Typed, TypeOK, WorkStep

LEMMA InitTyped == Init => Typed
<1> SUFFICES ASSUME Init PROVE Typed
  OBVIOUS
<1>1. host \in [Paths -> Hash] /\ tree = host
  BY TreeAssumption DEF Init, Hash
<1>2. entries \in [Paths -> Entry]
  BY <1>1, StartTypes DEF Init
<1>3. had \in [Paths -> SUBSET Contents] /\ held \in [Paths -> SUBSET Contents]
  BY <1>1 DEF Init, Hash
<1>4. ops \in Seq(Op) /\ queue \in Seq(Job) /\ work \in Seq(WorkStep)
  BY DEF Init
<1>5. call = NoCall /\ late = {} /\ call.kind = "none" /\ call.at = "sent"
  BY StartTypes DEF Init
<1> QED BY <1>1, <1>2, <1>3, <1>4, <1>5, StartTypes
        DEF Init, Typed, TypeOK, Requests, Waiting, WorkStep

(* The user's steps. *)
LEMMA UserTyped ==
  ASSUME Typed, User
  PROVE  Typed'
<1>1. ASSUME NEW job \in Job, UserStep(job), tree' \in [Paths -> Hash],
             had' \in [Paths -> SUBSET Contents]
      PROVE  Typed'
  <2>1. /\ queue' = Append(queue, job) /\ userSteps' = userSteps + 1
        /\ UNCHANGED <<host, held, forgotten, entries, ops, work, call, late, link, hostEdits, faults>>
    BY <1>1 DEF UserStep
  <2>2. queue' \in Seq(Job)
    BY <2>1, AppendFacts, TypedFacts
  <2>3. Requests' /\ Waiting'
    BY <2>1, TypedFacts DEF Requests, Waiting
  <2> QED BY <1>1, <2>1, <2>2, <2>3, TypedFacts, TypedAgain
<1>2. ASSUME NEW p \in Paths, NEW c \in UserBytes, Save(p, c) PROVE Typed'
  <2>1. [kind |-> "note", path |-> p, op |-> NoOp] \in Job
    BY StartTypes DEF Job
  <2>2. tree' \in [Paths -> Hash] /\ had' \in [Paths -> SUBSET Contents]
    BY <1>2, TreeAssumption, TypedFacts DEF Save, Hash
  <2> QED BY <1>1, <1>2, <2>1, <2>2 DEF Save
<1>3. ASSUME NEW p \in Paths, NEW q \in Paths, Rename(p, q) PROVE Typed'
  <2>1. [kind |-> "tree", path |-> p, op |-> [kind |-> "rename", path |-> p, to |-> q]] \in Job
    BY DEF Job, Op
  <2>2. tree' \in [Paths -> Hash] /\ had' \in [Paths -> SUBSET Contents]
    BY <1>3, TypedFacts DEF Rename, Hash
  <2> QED BY <1>1, <1>3, <2>1, <2>2 DEF Rename
<1>4. ASSUME NEW p \in Paths, Delete(p) PROVE Typed'
  <2>1. [kind |-> "tree", path |-> p, op |-> [kind |-> "delete", path |-> p, to |-> p]] \in Job
    BY DEF Job, Op
  <2>2. tree' \in [Paths -> Hash] /\ had' \in [Paths -> SUBSET Contents]
    BY <1>4, TypedFacts DEF Delete, Hash
  <2> QED BY <1>1, <1>4, <2>1, <2>2 DEF Delete
<1> QED BY <1>2, <1>3, <1>4 DEF User

(* What the host makes of a request: its answer, or the go-ahead. *)
SameRequest(s, r) ==
    /\ s.kind = r.kind /\ s.path = r.path /\ s.to = r.to /\ s.content = r.content
    /\ s.expect = r.expect /\ s.blind = r.blind

LEMMA AnsweredType ==
  ASSUME NEW r \in Request, NEW b \in {"ok", "conflict", "error"}, NEW x \in Hash
  PROVE  /\ Answered(r, b, x) \in Request /\ SameRequest(Answered(r, b, x), r)
         /\ Answered(r, b, x).at = "answered" /\ Answered(r, b, x).ans = b
         /\ Answered(r, b, x).hash = x
BY DEF Answered, Request, SameRequest

LEMMA CheckedType ==
  ASSUME Typed, NEW r \in Request
  PROVE  /\ Checked(r) \in Request /\ SameRequest(Checked(r), r)
         /\ Checked(r).at = "answered" => Checked(r).ans # "ok" \/ r.kind = "delete"
         /\ Checked(r).at = "checked" => Meets(Checked(r).found, r.expect)
<1> DEFINE h == host[r.path]
<1>1. r.path \in Paths /\ h \in Hash /\ None \in Hash
  BY TypedFacts DEF Request, Hash
<1>2. \/ Checked(r) = Answered(r, "conflict", h)
      \/ Checked(r) = Answered(r, "conflict", None)
      \/ r.kind = "delete" /\ Checked(r) = Answered(r, "ok", None)
      \/ Meets(h, r.expect) /\ Checked(r) = [r EXCEPT !.at = "checked", !.found = h]
  BY DEF Checked
<1> HIDE DEF h
<1>3. ASSUME NEW b \in {"ok", "conflict", "error"}, NEW x \in Hash, Checked(r) = Answered(r, b, x)
      PROVE  /\ Checked(r) \in Request /\ SameRequest(Checked(r), r)
             /\ Checked(r).at = "answered" /\ Checked(r).ans = b
  BY <1>3, AnsweredType
<1>4. ASSUME Meets(h, r.expect), Checked(r) = [r EXCEPT !.at = "checked", !.found = h]
      PROVE  /\ Checked(r) \in Request /\ SameRequest(Checked(r), r)
             /\ Checked(r).at = "checked" /\ Checked(r).found = h
  BY <1>1, <1>4 DEF Request, SameRequest
<1> QED BY <1>1, <1>2, <1>3, <1>4

LEMMA HostVerdictType ==
  ASSUME Typed, NEW r \in Request
  PROVE  /\ HostVerdict(r).files \in [Paths -> Hash]
         /\ HostVerdict(r).ans \in {"ok", "conflict", "error"}
         /\ HostVerdict(r).hash \in Hash
         /\ HostVerdict(r).ans = "ok" /\ r.kind = "push" => HostVerdict(r).hash = r.content
<1> DEFINE h == host[r.path]
           pushed == [host EXCEPT ![r.path] = r.content]
           deleted == [host EXCEPT ![r.path] = None]
           renamed == [host EXCEPT ![r.path] = None, ![r.to] = h]
<1>1. /\ host \in [Paths -> Hash] /\ r.path \in Paths /\ r.to \in Paths
      /\ r.content \in Hash /\ None \in Hash /\ h \in Hash /\ host[r.to] \in Hash
  BY TypedFacts DEF Request, Hash
<1>2. /\ pushed \in [Paths -> Hash] /\ deleted \in [Paths -> Hash] /\ renamed \in [Paths -> Hash]
  <2> HIDE DEF h
  <2> QED BY <1>1
<1>3. \/ HostVerdict(r) = [ans |-> "conflict", hash |-> h, files |-> host]
      \/ HostVerdict(r) = [ans |-> "ok", hash |-> r.content, files |-> pushed]
      \/ HostVerdict(r) = [ans |-> "error", hash |-> None, files |-> host]
      \/ r.kind # "push" /\ HostVerdict(r) = [ans |-> "ok", hash |-> None, files |-> deleted]
      \/ HostVerdict(r) = [ans |-> "conflict", hash |-> host[r.to], files |-> host]
      \/ r.kind # "push" /\ HostVerdict(r) = [ans |-> "ok", hash |-> None, files |-> renamed]
  BY <1>1 DEF HostVerdict, Request
<1> HIDE DEF h, pushed, deleted, renamed
<1> QED BY <1>1, <1>2, <1>3

(* The host's steps. *)
LEMMA HostTyped ==
  ASSUME Typed,
         HostCheck \/ HostApply \/ HostFails \/ \E r \in late : LateCheck(r) \/ LateApply(r)
  PROVE  Typed'
<1>0. Requests /\ call \in Request /\ late \subseteq Request
  BY TypedFacts DEF Requests
<1>1. ASSUME NEW files \in [Paths -> Hash], host' = files, held' = HeldAfter(files)
      PROVE  host' \in [Paths -> Hash] /\ held' \in [Paths -> SUBSET Contents]
  BY <1>1, TypedFacts DEF HeldAfter, Hash
<1>2. ASSUME call' \in Request, SameRequest(call', call), call # NoCall,
             host' \in [Paths -> Hash], held' \in [Paths -> SUBSET Contents], faults' \in Nat,
             UNCHANGED <<tree, entries, ops, queue, work, late, link, had, forgotten, userSteps, hostEdits>>
      PROVE  Typed'
  <2>1. Requests' /\ Waiting'
    BY <1>2, TypedFacts DEF Requests, Waiting, SameRequest
  <2> QED BY <1>2, <2>1, TypedFacts, TypedAgain
<1>3. CASE HostCheck
  <2>1. call' \in Request /\ SameRequest(call', call)
    BY <1>0, <1>3, CheckedType DEF HostCheck
  <2> QED BY <1>2, <1>3, <2>1, TypedFacts DEF HostCheck, history, counters
<1>4. CASE HostApply
  <2>1. /\ HostVerdict(call).files \in [Paths -> Hash] /\ HostVerdict(call).hash \in Hash
        /\ HostVerdict(call).ans \in {"ok", "conflict", "error"}
    BY <1>0, HostVerdictType
  <2>2. /\ host' = HostVerdict(call).files /\ held' = HeldAfter(HostVerdict(call).files)
        /\ call' = Answered(call, HostVerdict(call).ans, HostVerdict(call).hash) /\ call.at = "checked"
        /\ UNCHANGED <<tree, entries, ops, queue, work, late, link, had, forgotten, userSteps, hostEdits, faults>>
    BY <1>4 DEF HostApply, counters
  <2>3. call # NoCall
    BY <2>2, StartTypes
  <2>4. call' \in Request /\ SameRequest(call', call)
    BY <1>0, <2>1, <2>2, AnsweredType
  <2>5. host' \in [Paths -> Hash] /\ held' \in [Paths -> SUBSET Contents]
    BY <1>1, <2>1, <2>2
  <2> QED BY <1>2, <2>2, <2>3, <2>4, <2>5, TypedFacts
<1>5. CASE HostFails
  <2>1. call' \in Request /\ SameRequest(call', call)
    BY <1>0, <1>5, AnsweredType, StartTypes DEF HostFails
  <2>2. faults' \in Nat
    BY <1>5, TypedFacts DEF HostFails
  <2> QED BY <1>2, <1>5, <2>1, <2>2, TypedFacts DEF HostFails, history
<1>6. ASSUME NEW r \in late, LateCheck(r) PROVE Typed'
  <2>1. Checked(r) \in Request /\ Checked(r).kind = r.kind /\ Checked(r).content = r.content
    BY <1>0, CheckedType DEF SameRequest
  <2>2. /\ late' \subseteq late \cup {Checked(r)}
        /\ UNCHANGED <<tree, host, entries, ops, queue, work, call, link, had, held, forgotten,
                       userSteps, hostEdits, faults>>
    BY <1>6 DEF LateCheck, history, counters
  <2>3. Requests' /\ Waiting'
    BY <1>0, <2>1, <2>2, TypedFacts DEF Requests, Waiting
  <2> QED BY <2>2, <2>3, TypedFacts, TypedAgain
<1>7. ASSUME NEW r \in late, LateApply(r) PROVE Typed'
  <2>1. /\ host' = HostVerdict(r).files /\ held' = HeldAfter(HostVerdict(r).files) /\ late' \subseteq late
        /\ UNCHANGED <<tree, entries, ops, queue, work, call, link, had, forgotten,
                       userSteps, hostEdits, faults>>
    BY <1>7 DEF LateApply, counters
  <2>2. host' \in [Paths -> Hash] /\ held' \in [Paths -> SUBSET Contents]
    BY <1>0, <1>1, <2>1, HostVerdictType
  <2>3. Requests' /\ Waiting'
    BY <1>0, <2>1, TypedFacts DEF Requests, Waiting
  <2> QED BY <2>1, <2>2, <2>3, TypedFacts, TypedAgain
<1> QED BY <1>3, <1>4, <1>5, <1>6, <1>7

(* A step that ends the request, or waits for none. *)
LEMMA Rested ==
  ASSUME Typed, call' = NoCall, late' \subseteq late \cup {call}, work' \in Seq(WorkStep),
         entries' \in [Paths -> Entry], ops' \in Seq(Op), queue' \in Seq(Job),
         tree' \in [Paths -> Hash], had' \in [Paths -> SUBSET Contents], link' \in BOOLEAN,
         forgotten' \subseteq Paths, faults' \in Nat, UNCHANGED <<host, held, userSteps, hostEdits>>
  PROVE  Typed'
<1>1. Requests' /\ Waiting'
  BY StartTypes, TypedFacts DEF Requests, Waiting
<1> QED BY <1>1, TypedFacts, TypedAgain

LEMMA TakeTyped ==
  ASSUME Typed, Take
  PROVE  Typed'
<1> DEFINE j == Head(queue)
           drain == Step("drain", SomePath)
           manifest == Step("manifest", SomePath)
           push == Step("push", j.path)
           noted == [entries[j.path] EXCEPT !.known = TRUE, !.pending = TRUE]
<1>1. j \in Job /\ Tail(queue) \in Seq(Job)
  BY TailFacts, TypedFacts DEF Take
<1>2. j.path \in Paths /\ j.op \in Op /\ j.kind \in {"note", "push", "tree", "sync"}
  BY <1>1 DEF Job
<1>3. call = NoCall
  BY TypedFacts DEF Take, Waiting
<1>4. push \in WorkStep /\ drain \in WorkStep /\ manifest \in WorkStep
  BY <1>2, StartTypes DEF Step, WorkStep
<1>5. \/ /\ j.kind = "note" /\ work' = <<push>> /\ ops' = ops
         /\ entries' = [entries EXCEPT ![j.path] = noted]
      \/ j.kind = "push" /\ work' = <<push>> /\ ops' = ops /\ entries' = entries
      \/ j.kind = "tree" /\ work' = <<drain>> /\ ops' = Append(ops, j.op) /\ entries' = entries
      \/ j.kind = "sync" /\ work' = <<drain, manifest>> /\ ops' = ops /\ entries' = entries
  BY <1>2, TypedFacts DEF Take
<1>6. noted \in Entry
  <2>1. entries[j.path] \in Entry
    BY <1>2, TypedFacts
  <2> HIDE DEF j
  <2> QED BY <2>1 DEF Entry
<1>7. entries' \in [Paths -> Entry] /\ ops' \in Seq(Op)
  <2>1. Append(ops, j.op) \in Seq(Op)
    BY <1>2, AppendFacts, TypedFacts
  <2> HIDE DEF noted, j
  <2> QED BY <1>2, <1>5, <1>6, <2>1, TypedFacts
<1> HIDE DEF noted, j, push, drain, manifest
<1>8. work' \in Seq(WorkStep)
  <2>1. <<push>> \in Seq(WorkStep) /\ <<drain>> \in Seq(WorkStep)
    BY <1>4
  <2>2. <<drain, manifest>> \in Seq(WorkStep)
    BY <1>4
  <2> QED BY <1>5, <2>1, <2>2
<1>9. /\ queue' = Tail(queue) /\ call' = NoCall
      /\ UNCHANGED <<tree, had, host, held, forgotten, late, link, userSteps, hostEdits, faults>>
  BY <1>3 DEF Take, history, counters
<1> QED BY <1>1, <1>7, <1>8, <1>9, Rested, TypedFacts DEF j

(* What an operation on the wire expects. *)
LEMMA SendOpEffect ==
  ASSUME Typed, SendOp
  PROVE  LET o == Head(ops)
             e == entries[o.path]
         IN  /\ o \in Op /\ ops # <<>> /\ work # <<>> /\ e \in Entry
             /\ call' \in Request /\ call'.kind = o.kind /\ call'.path = o.path /\ call'.to = o.to
             /\ call'.at = "sent" /\ call'.blind = (e.base = None /\ ~e.hasRemote)
             /\ call'.expect = IF o.kind = "rename" THEN RenameExpects(e) ELSE DeleteExpects(e)
<1> DEFINE o == Head(ops)
           e == entries[o.path]
           b == e.base = None /\ ~e.hasRemote
           x == IF o.kind = "rename" THEN RenameExpects(e) ELSE DeleteExpects(e)
           k == [NoCall EXCEPT !.kind = o.kind, !.path = o.path, !.to = o.to, !.expect = x, !.blind = b]
<1>1. ops # <<>> /\ o \in Op /\ work # <<>> /\ entries \in [Paths -> Entry]
  BY TailFacts, TypedFacts DEF SendOp, Doing
<1>2. o.kind \in {"rename", "delete"} /\ o.path \in Paths /\ o.to \in Paths
  BY <1>1 DEF Op
<1>3. e \in Entry /\ e.base \in Hash /\ e.remote.hash \in Hash
  BY <1>1, <1>2 DEF Entry, Row
<1>4. x \in [kind : {"any", "hash", "absent"}, hash : Hash]
  <2> HIDE DEF o, e
  <2> QED BY <1>3, StartTypes DEF RenameExpects, DeleteExpects, Expect, Anything
<1>5. b \in BOOLEAN
  OBVIOUS
<1>6. call' = k
  BY DEF SendOp
<1> HIDE DEF x, o, b
<1>7. /\ k \in Request /\ k.kind = o.kind /\ k.path = o.path /\ k.to = o.to /\ k.at = "sent"
      /\ k.blind = b /\ k.expect = x
  BY <1>2, <1>4, <1>5, StartTypes DEF NoCall, Request
<1> QED BY <1>1, <1>3, <1>6, <1>7 DEF x, b, o

LEMMA PushNowSends ==
  ASSUME Typed, PushNow, call' # call
  PROVE  LET p == Head(work).path
         IN  /\ p \in Paths /\ work # <<>> /\ tree[p] \in Contents /\ entries' = entries /\ work' = work
             /\ call' \in Request /\ call'.kind = "push" /\ call'.path = p
             /\ call'.content = tree[p] /\ call'.at = "sent" /\ call'.expect = Expect(entries[p].base)
<1> DEFINE p == Head(work).path
           x == Expect(entries[p].base)
           k == [NoCall EXCEPT !.kind = "push", !.path = p, !.content = tree[p], !.expect = x]
<1>1. work # <<>> /\ p \in Paths /\ entries \in [Paths -> Entry] /\ tree \in [Paths -> Hash]
  BY DoingFacts DEF PushNow
<1>2. call' = k /\ entries' = entries /\ work' = work /\ tree[p] # None
  BY DEF PushNow
<1>3. entries[p].base \in Hash /\ tree[p] \in Contents /\ tree[p] \in Hash
  BY <1>1, <1>2 DEF Entry, Hash
<1>4. x \in [kind : {"any", "hash", "absent"}, hash : Hash]
  BY <1>3, StartTypes DEF Expect
<1> HIDE DEF x, p
<1>5. k \in Request /\ k.kind = "push" /\ k.path = p /\ k.content = tree[p] /\ k.at = "sent" /\ k.expect = x
  BY <1>1, <1>3, <1>4, StartTypes DEF NoCall, Request
<1> QED BY <1>1, <1>2, <1>3, <1>5 DEF x, p

LEMMA SendTyped ==
  ASSUME Typed, SendOp \/ PushNow
  PROVE  Typed'
<1>1. CASE SendOp
  <2>1. /\ Head(ops) \in Op /\ ops # <<>> /\ work # <<>> /\ call' \in Request
        /\ call'.kind = Head(ops).kind /\ call'.path = Head(ops).path
    BY <1>1, SendOpEffect
  <2>2. UNCHANGED <<tree, host, entries, ops, queue, work, late, link, had, held, forgotten,
                    userSteps, hostEdits, faults>>
    BY <1>1 DEF SendOp, history, counters
  <2>3. call'.kind \in {"rename", "delete"}
    BY <2>1 DEF Op
  <2>4. Requests' /\ Waiting'
    BY <2>1, <2>2, <2>3, TypedFacts DEF Requests, Waiting
  <2> QED BY <2>2, <2>4, TypedFacts, TypedAgain
<1>2. CASE PushNow /\ call' # call
  <2>1. /\ work # <<>> /\ entries' = entries /\ work' = work /\ call' \in Request
        /\ call'.kind = "push" /\ call'.content \in Contents
    BY <1>2, PushNowSends
  <2>2. UNCHANGED <<tree, host, ops, queue, late, link, had, held, forgotten, userSteps, hostEdits, faults>>
    BY <1>2 DEF PushNow, history, counters
  <2>3. Requests' /\ Waiting'
    BY <2>1, <2>2, TypedFacts DEF Requests, Waiting
  <2> QED BY <2>1, <2>2, <2>3, TypedFacts, TypedAgain
<1>3. CASE PushNow /\ call' = call
  <2>1. call = NoCall /\ work \in Seq(WorkStep) /\ Tail(work) \in Seq(WorkStep)
    BY <1>3, DoingFacts DEF PushNow
  <2>2. work' \in {work, Tail(work)}
    BY <1>3 DEF PushNow
  <2>3. entries' \in [Paths -> Entry]
    BY <1>3, PushNowEffect
  <2>4. UNCHANGED <<tree, host, ops, queue, late, link, had, held, forgotten, userSteps, hostEdits, faults>>
    BY <1>3 DEF PushNow, history, counters
  <2>5. work' \in Seq(WorkStep)
    BY <2>1, <2>2
  <2> QED BY <1>3, <2>1, <2>3, <2>4, <2>5, Rested, TypedFacts
<1> QED BY <1>1, <1>2, <1>3

(* A request that was answered or given up is the running job's. *)
LEMMA WaitingFacts ==
  ASSUME Typed, call # NoCall
  PROVE  work # <<>> /\ Tail(work) \in Seq(WorkStep) /\ call \in Request /\ call.path \in Paths /\ call.to \in Paths
<1>1. work # <<>> /\ call \in Request
  BY TypedFacts DEF Waiting, Requests
<1> QED BY <1>1, TailFacts, TypedFacts DEF Request

LEMMA AnsweredTyped ==
  ASSUME Typed, OpAnswered \/ PushAnswered
  PROVE  Typed'
<1>1. call # NoCall
  BY StartTypes DEF OpAnswered, PushAnswered
<1>2. work # <<>> /\ Tail(work) \in Seq(WorkStep) /\ call.path \in Paths /\ call.to \in Paths
  BY <1>1, WaitingFacts
<1>3. CASE OpAnswered
  <2>1. ops # <<>> /\ Tail(ops) \in Seq(Op)
    <3>1. ops # <<>> /\ ops \in Seq(Op)
      BY <1>1, <1>3, TypedFacts DEF OpAnswered, Waiting
    <3> QED BY <3>1, TailFacts
  <2>2. entries' \in [Paths -> Entry]
    BY <1>3, OpAnsweredEffect
  <2>3. had' \in [Paths -> SUBSET Contents] /\ forgotten' \subseteq Paths
    BY <1>2, <1>3, TypedFacts DEF OpAnswered
  <2>4. ops' = Tail(ops) /\ call' = NoCall
        /\ UNCHANGED <<tree, host, queue, work, late, link, held, userSteps, hostEdits, faults>>
    BY <1>3 DEF OpAnswered, counters
  <2> QED BY <2>1, <2>2, <2>3, <2>4, Rested, TypedFacts
<1>4. CASE PushAnswered
  <2>1. queue' \in Seq(Job)
    <3> DEFINE j == [kind |-> "push", path |-> call.path, op |-> NoOp]
    <3>1. j \in Job
      BY <1>2, StartTypes DEF Job
    <3>2. queue' = queue \/ queue' = Append(queue, j)
      BY <1>4 DEF PushAnswered
    <3> HIDE DEF j
    <3>3. Append(queue, j) \in Seq(Job) /\ queue \in Seq(Job)
      BY <3>1, AppendFacts, TypedFacts
    <3> QED BY <3>2, <3>3
  <2>2. entries' \in [Paths -> Entry]
    BY <1>4, PushAnsweredEffect
  <2>3. work' = Tail(work) /\ call' = NoCall
        /\ UNCHANGED <<tree, host, ops, late, link, had, held, forgotten, userSteps, hostEdits, faults>>
    BY <1>4 DEF PushAnswered, history, counters
  <2> QED BY <1>2, <2>1, <2>2, <2>3, Rested, TypedFacts
<1> QED BY <1>3, <1>4

LEMMA LinkTyped ==
  ASSUME Typed,
         TimeOut \/ LinkDown \/ LinkUp \/ Reconnect
           \/ \E p \in Paths, c \in {None} \cup HostBytes : HostEdit(p, c)
  PROVE  Typed'
<1>1. [kind |-> "sync", path |-> SomePath, op |-> NoOp] \in Job
  BY StartTypes DEF Job
<1>2. CASE TimeOut \/ (LinkDown /\ call # NoCall /\ GiveUp)
  <2>1. call # NoCall /\ GiveUp
    BY <1>2 DEF TimeOut
  <2>2. entries' \in [Paths -> Entry] /\ call' = NoCall /\ work' \in Seq(WorkStep)
    BY <2>1, GiveUpEffect, WaitingFacts DEF GiveUp
  <2>3. late' \subseteq late \cup {call}
    BY <1>2 DEF TimeOut, LinkDown, Unapplied
  <2>5. link' = link \/ link' = FALSE
    BY <1>2 DEF TimeOut, LinkDown
  <2>6. faults' \in Nat
    BY <1>2, TypedFacts DEF TimeOut, LinkDown
  <2>4. UNCHANGED <<tree, host, ops, queue, had, held, forgotten, userSteps, hostEdits>>
    BY <1>2 DEF TimeOut, LinkDown, history
  <2>7. link' \in BOOLEAN
    BY <2>5, TypedFacts
  <2> QED BY <2>2, <2>3, <2>4, <2>6, <2>7, Rested, TypedFacts
<1>3. CASE LinkDown /\ UNCHANGED <<entries, call, work, late>>
  <2>1. UNCHANGED <<tree, host, ops, queue, had, held, forgotten, userSteps, hostEdits>>
    BY <1>3 DEF LinkDown, history
  <2>3. link' \in BOOLEAN
    BY <1>3 DEF LinkDown
  <2>4. faults' \in Nat
    BY <1>3, TypedFacts DEF LinkDown
  <2>2. Requests' /\ Waiting'
    BY <1>3, <2>1, TypedFacts DEF Requests, Waiting
  <2> QED BY <1>3, <2>1, <2>2, <2>3, <2>4, TypedFacts, TypedAgain
<1>4. CASE LinkUp \/ Reconnect
  <2>1. queue' \in Seq(Job)
    <3> DEFINE j == [kind |-> "sync", path |-> SomePath, op |-> NoOp]
    <3>1. Without(queue, "sync") \in Seq(Job)
      BY WithoutType, TypedFacts
    <3>2. queue' = Append(Without(queue, "sync"), j) \/ queue' = <<j>>
      BY <1>4 DEF LinkUp, Reconnect
    <3>3. j \in Job
      BY <1>1
    <3> HIDE DEF j
    <3>4. Append(Without(queue, "sync"), j) \in Seq(Job) /\ <<j>> \in Seq(Job)
      BY <3>1, <3>3, AppendFacts
    <3> QED BY <3>2, <3>4
  <2>2. link' \in BOOLEAN
        /\ UNCHANGED <<tree, host, entries, ops, work, call, late, had, held, forgotten,
                       userSteps, hostEdits, faults>>
    BY <1>4, TypedFacts DEF LinkUp, Reconnect, history, counters
  <2>3. Requests' /\ Waiting'
    BY <2>2, TypedFacts DEF Requests, Waiting
  <2> QED BY <2>1, <2>2, <2>3, TypedFacts, TypedAgain
<1>5. ASSUME NEW p \in Paths, NEW c \in {None} \cup HostBytes, HostEdit(p, c) PROVE Typed'
  <2>1. host' \in [Paths -> Hash]
    BY <1>5, TreeAssumption, TypedFacts DEF HostEdit, Hash
  <2>2. held' \in [Paths -> SUBSET Contents]
    BY <1>5, <2>1, TypedFacts DEF HostEdit, HeldAfter, Hash
  <2>3. hostEdits' \in Nat /\ UNCHANGED <<tree, entries, ops, queue, work, call, late, link, had, forgotten,
                                          userSteps, faults>>
    BY <1>5, TypedFacts DEF HostEdit
  <2>4. Requests' /\ Waiting'
    BY <2>3, TypedFacts DEF Requests, Waiting
  <2> QED BY <2>1, <2>2, <2>3, <2>4, TypedFacts, TypedAgain
<1> QED BY <1>2, <1>3, <1>4, <1>5 DEF LinkDown

LEMMA SyncTyped ==
  ASSUME Typed, DrainStops \/ Reconcile \/ SyncFails \/ PullNow \/ DeleteNow
  PROVE  Typed'
<1>1. /\ work # <<>> /\ work \in Seq(WorkStep) /\ Tail(work) \in Seq(WorkStep)
      /\ Head(work).path \in Paths /\ call = NoCall
  BY DoingFacts DEF DrainStops, Reconcile, SyncFails, PullNow, DeleteNow
<1>2. CASE DrainStops \/ SyncFails
  <2>1. work' = Tail(work) /\ faults' \in Nat
        /\ UNCHANGED <<tree, host, entries, ops, queue, call, late, link, had, held, forgotten,
                       userSteps, hostEdits>>
    BY <1>2, TypedFacts DEF DrainStops, SyncFails, history, counters
  <2> QED BY <1>1, <2>1, Rested, TypedFacts
<1>3. CASE Reconcile
  <2>1. work' \in Seq(WorkStep) /\ entries' \in [Paths -> Entry]
    BY <1>3, ReconcileEffect
  <2>2. had' \in [Paths -> SUBSET Contents]
    BY <1>3, TypedFacts DEF Reconcile, Hash
  <2>3. UNCHANGED <<tree, host, ops, queue, call, late, link, held, forgotten, userSteps, hostEdits, faults>>
    BY <1>3 DEF Reconcile, counters
  <2> QED BY <1>1, <2>1, <2>2, <2>3, Rested, TypedFacts
<1>4. CASE PullNow
  <2> DEFINE p == Head(work).path
             d == Step("delete", p)
             v == <<d>> \o Tail(work)
  <2>1. /\ tree' \in [Paths -> Hash] /\ entries' \in [Paths -> Entry] /\ work' \in {Tail(work), v}
        /\ \/ host[p] # None /\ had' = [had EXCEPT ![p] = @ \cup {host[p]}]
           \/ had' = had
    BY <1>4, PullNowEffect
  <2>2. d \in WorkStep
    BY <1>1 DEF Step, WorkStep
  <2>3. v \in Seq(WorkStep)
    <3> HIDE DEF d
    <3> QED BY <1>1, <2>2
  <2>4. had' \in [Paths -> SUBSET Contents]
    BY <1>1, <2>1, TypedFacts DEF Hash
  <2>5. UNCHANGED <<host, held, forgotten, ops, queue, call, late, link, userSteps, hostEdits, faults>>
    BY <1>4 DEF PullNow, counters
  <2> HIDE DEF v
  <2>6. work' \in Seq(WorkStep)
    BY <1>1, <2>1, <2>3
  <2> QED BY <1>1, <2>1, <2>4, <2>5, <2>6, Rested, TypedFacts
<1>5. CASE DeleteNow
  <2>1. tree' \in [Paths -> Hash] /\ entries' \in [Paths -> Entry]
    BY <1>5, DeleteNowEffect
  <2>2. work' = Tail(work)
        /\ UNCHANGED <<host, ops, queue, call, late, link, had, held, forgotten, userSteps, hostEdits, faults>>
    BY <1>5 DEF DeleteNow, history, counters
  <2> QED BY <1>1, <2>1, <2>2, Rested, TypedFacts
<1> QED BY <1>2, <1>3, <1>4, <1>5

LEMMA NextTyped == Typed /\ [Next]_vars => Typed'
<1> SUFFICES ASSUME Typed, [Next]_vars PROVE Typed'
  OBVIOUS
<1>1. CASE UNCHANGED vars
  <2>1. UNCHANGED <<tree, host, entries, ops, queue, work, call, late, link, had, held, forgotten,
                    userSteps, hostEdits, faults>>
    BY <1>1 DEF vars, history, counters
  <2>2. Requests' /\ Waiting'
    BY <2>1, TypedFacts DEF Requests, Waiting
  <2> QED BY <2>1, <2>2, TypedFacts, TypedAgain
<1>2. CASE Next
  BY <1>2, UserTyped, LinkTyped, HostTyped, TakeTyped, SendTyped, AnsweredTyped, SyncTyped
     DEF Next, Worker, IoQueue
<1> QED BY <1>1, <1>2

(* Every behaviour stays within the types, and an operation on the wire is    *)
(* still the first of the journal: however the user, the host and the link     *)
(* behave, DrainTreeOps pops it only on its answer.                            *)
THEOREM TreeTypeCorrect == Spec => []TypeOK
<1>1. Typed => TypeOK
  BY DEF Typed
<1> QED BY <1>1, InitTyped, NextTyped, PTL DEF Spec

-----------------------------------------------------------------------------
(* Records and requests name bytes the mirror knows *)

(* So does what is made from such a record and such bytes. *)
LEMMA DerivedSound ==
  ASSUME NEW S, NEW T, S \subseteq T, NEW e, Sound(e, S), NEW hs, hs \subseteq T,
         NEW f, Derived(f, e, hs)
  PROVE  Sound(f, T)
<1>1. <<>> \in Seq(T) /\ e.unack \in Seq(T)
  <2>1. e.unack \in Seq(S)
    BY DEF Sound
  <2> QED BY <2>1
<1>2. CASE f = NoEntry
  BY <1>1, <1>2 DEF Sound, NoEntry, NoRow
<1>3. CASE f = e
  BY <1>1, <1>3 DEF Sound
<1>4. CASE f \notin {e, NoEntry}
  <2>1. f.unack \in Seq(T)
    BY <1>1, <1>4 DEF Derived
  <2> QED BY <1>4, <2>1 DEF Derived, Sound
<1> QED BY <1>2, <1>3, <1>4

(* Nothing known is forgotten, and the requests are the ones there were. *)
LEMMA BytesFrame ==
  ASSUME Typed, Bytes, \A p \in Paths : had[p] \subseteq had'[p],
         {call'} \cup late' \subseteq {call, NoCall} \cup late,
         \A p \in Paths : tree'[p] \in had'[p] \cup {None} /\ Sound(entries'[p], had'[p])
  PROVE  Bytes'
<1>1. ASSUME NEW r \in {call'} \cup late' PROVE Named(r, had'[r.path])
  <2>1. CASE r = NoCall
    BY <2>1, StartTypes DEF Named, NoCall
  <2>2. CASE r # NoCall
    <3>1. r \in {call} \cup late
      BY <2>2
    <3>2. Named(r, had[r.path]) /\ r.path \in Paths
      BY <3>1, TypedFacts DEF Bytes, Requests, Request
    <3>3. had[r.path] \subseteq had'[r.path]
      BY <3>2
    <3> HIDE DEF Typed
    <3> QED BY <3>2, <3>3 DEF Named
  <2> QED BY <2>1, <2>2
<1> QED BY <1>1 DEF Bytes

(* Records that stay, with more known. *)
LEMMA SoundMore ==
  ASSUME NEW S, NEW T, S \subseteq T, NEW e, Sound(e, S)
  PROVE  Sound(e, T)
BY DerivedSound DEF Derived

LEMMA VerdictSound ==
  ASSUME Typed, NEW p \in Paths
  PROVE  Derived(Verdict(p).entry, entries[p], {host[p]} \ {None})
<1> DEFINE row == [hash |-> host[p], ver |-> 0]
           e == entries[p]
<1>1. e \in Entry /\ tree[p] \in Hash /\ row \in Row /\ row.hash = host[p]
  BY DEF Typed, TypeOK, Row
<1>2. CASE host[p] # None
  <2> DEFINE f == ReconcileRow(e, tree[p], row, 1).entry
  <2>1. f.base \in {e.base, host[p], None}
    BY <1>1, ReconcileRowBase
  <2>2. f.remote \in {e.remote, row} /\ f.unack = e.unack /\ (f = e \/ f.known)
    BY <1>1, ReconcileRowKeeps
  <2>3. Verdict(p).entry = f
    BY <1>2 DEF Verdict
  <2> HIDE DEF f, row, e
  <2>4. f.remote.hash \in {e.remote.hash, host[p]}
    BY <1>1, <2>2
  <2> QED BY <1>2, <2>1, <2>2, <2>3, <2>4 DEF Derived, e
<1>3. CASE host[p] = None /\ e.known
  <2> DEFINE f == ReconcileDelete(e, tree[p]).entry
  <2>1. \/ f = NoEntry
        \/ f.remote = e.remote /\ f.unack = e.unack /\ f.base = e.base /\ f.known = e.known
    BY <1>1, ReconcileDeleteKeeps
  <2>2. Verdict(p).entry = f
    BY <1>3 DEF Verdict
  <2> HIDE DEF f, e
  <2> QED BY <1>3, <2>1, <2>2 DEF Derived, e
<1>4. CASE host[p] = None /\ ~e.known
  BY <1>4 DEF Verdict, Derived
<1> QED BY <1>2, <1>3, <1>4

LEMMA InitBytes == Init => Bytes
<1> SUFFICES ASSUME Init PROVE Bytes
  OBVIOUS
<1>1. host \in [Paths -> Hash] /\ tree = host
  BY TreeAssumption DEF Init, Hash
<1>2. ASSUME NEW p \in Paths PROVE tree[p] \in had[p] \cup {None} /\ Sound(entries[p], had[p])
  <2>1. host[p] \in had[p] \cup {None}
    BY <1>1 DEF Init
  <2>2. entries[p] = Synced(host[p])
    BY DEF Init
  <2>3. <<>> \in Seq(had[p])
    OBVIOUS
  <2>4. host[p] \in Hash
    BY <1>1
  <2>5. /\ entries[p].base = host[p] /\ entries[p].remote.hash = host[p]
        /\ entries[p].unack = <<>> /\ (~entries[p].known => entries[p] = NoEntry)
    BY <2>2, <2>4, StartTypes
  <2> QED BY <1>1, <2>1, <2>3, <2>5 DEF Sound
<1>3. {call} \cup late = {NoCall} /\ Named(NoCall, had[NoCall.path])
  BY StartTypes DEF Init, Named, NoCall
<1> QED BY <1>2, <1>3 DEF Bytes

(* What Bytes says of the records and the files. *)
LEMMA BytesFacts ==
  ASSUME Typed, Bytes
  PROVE  /\ entries \in [Paths -> Entry] /\ tree \in [Paths -> Hash] /\ host \in [Paths -> Hash]
         /\ had \in [Paths -> SUBSET Contents]
         /\ \A p \in Paths : Sound(entries[p], had[p]) /\ tree[p] \in had[p] \cup {None}
         /\ Named(call, had[call.path]) /\ \A r \in late : Named(r, had[r.path])
BY TypedFacts DEF Bytes

LEMMA UserBytesKnown ==
  ASSUME Typed, Bytes, User
  PROVE  Bytes'
<1>1. ASSUME NEW p \in Paths, NEW c \in UserBytes, Save(p, c) PROVE Bytes'
  <2>1. /\ had' = [had EXCEPT ![p] = @ \cup {c}] /\ tree' = [tree EXCEPT ![p] = c]
        /\ UNCHANGED <<entries, call, late>>
    BY <1>1 DEF Save, UserStep
  <2>2. \A q \in Paths : had[q] \subseteq had'[q]
    BY <2>1, BytesFacts
  <2>3. \A q \in Paths : tree'[q] \in had'[q] \cup {None}
    BY <2>1, <2>2, BytesFacts
  <2>4. \A q \in Paths : Sound(entries'[q], had'[q])
    BY <2>1, <2>2, BytesFacts, SoundMore
  <2> QED BY <2>1, <2>2, <2>3, <2>4, BytesFrame
<1>2. ASSUME NEW p \in Paths, NEW q \in Paths, Rename(p, q) PROVE Bytes'
  <2>1. /\ had' = [had EXCEPT ![q] = @ \cup {tree[p]}] /\ tree' = [tree EXCEPT ![q] = tree[p], ![p] = None]
        /\ UNCHANGED <<entries, call, late>>
    BY <1>2 DEF Rename, UserStep
  <2>2. \A r \in Paths : had[r] \subseteq had'[r]
    BY <2>1, BytesFacts
  <2>3. \A r \in Paths : tree'[r] \in had'[r] \cup {None}
    BY <2>1, <2>2, BytesFacts
  <2>4. \A r \in Paths : Sound(entries'[r], had'[r])
    BY <2>1, <2>2, BytesFacts, SoundMore
  <2> QED BY <2>1, <2>2, <2>3, <2>4, BytesFrame
<1>3. ASSUME NEW p \in Paths, Delete(p) PROVE Bytes'
  <2>1. had' = had /\ tree' = [tree EXCEPT ![p] = None] /\ UNCHANGED <<entries, call, late>>
    BY <1>3 DEF Delete, UserStep
  <2>2. \A q \in Paths : tree'[q] \in had[q] \cup {None}
    BY <2>1, BytesFacts
  <2> QED BY <2>1, <2>2, BytesFacts, BytesFrame
<1> QED BY <1>1, <1>2, <1>3 DEF User

(* The host's steps move a request on, and answer a push it took with its bytes. *)
LEMMA HostBytesKnown ==
  ASSUME Typed, Bytes,
         HostCheck \/ HostApply \/ HostFails \/ \E r \in late : LateCheck(r) \/ LateApply(r)
  PROVE  Bytes'
<1>0. /\ call \in Request /\ late \subseteq Request
      /\ had' = had /\ tree' = tree /\ entries' = entries
  BY TypedFacts DEF Requests, HostCheck, HostApply, HostFails, LateCheck, LateApply, history
<1>1. ASSUME {call'} \cup late' \subseteq {call} \cup late \cup {r \in Request : Named(r, had[r.path])}
      PROVE  Bytes'
  <2>1. \A r \in {call'} \cup late' : Named(r, had[r.path])
    BY <1>1, BytesFacts
  <2> QED BY <1>0, <2>1, BytesFacts DEF Bytes
<1>2. ASSUME NEW r \in Request, Named(r, had[r.path])
      PROVE  Checked(r) \in Request /\ Named(Checked(r), had[Checked(r).path])
  <2>1. /\ Checked(r) \in Request /\ SameRequest(Checked(r), r)
        /\ Checked(r).at = "answered" => Checked(r).ans # "ok" \/ r.kind = "delete"
        /\ Checked(r).at = "checked" => Meets(Checked(r).found, r.expect)
    BY CheckedType
  <2> QED BY <1>2, <2>1 DEF Named, SameRequest
<1>3. ASSUME NEW b \in {"ok", "conflict", "error"}, NEW h \in Hash,
             b = "ok" /\ call.kind = "push" => h = call.content
      PROVE  Answered(call, b, h) \in Request /\ Named(Answered(call, b, h), had[Answered(call, b, h).path])
  <2>1. /\ Answered(call, b, h) \in Request /\ SameRequest(Answered(call, b, h), call)
        /\ Answered(call, b, h).at = "answered" /\ Answered(call, b, h).ans = b
        /\ Answered(call, b, h).hash = h
    BY <1>0, AnsweredType
  <2>2. Named(call, had[call.path])
    BY BytesFacts
  <2> QED BY <1>3, <2>1, <2>2 DEF Named, SameRequest
<1>4. CASE HostCheck
  <2>1. call' = Checked(call) /\ late' = late
    BY <1>4 DEF HostCheck
  <2>2. Checked(call) \in Request /\ Named(Checked(call), had[Checked(call).path])
    BY <1>0, <1>2, BytesFacts
  <2> QED BY <1>1, <2>1, <2>2
<1>5. CASE HostApply
  <2> DEFINE v == HostVerdict(call)
  <2>1. call' = Answered(call, v.ans, v.hash) /\ late' = late
    BY <1>5 DEF HostApply
  <2>2. /\ v.ans \in {"ok", "conflict", "error"} /\ v.hash \in Hash
        /\ v.ans = "ok" /\ call.kind = "push" => v.hash = call.content
    BY <1>0, HostVerdictType
  <2> HIDE DEF v
  <2>3. call' \in Request /\ Named(call', had[call'.path])
    BY <1>3, <2>1, <2>2
  <2> QED BY <1>1, <2>1, <2>3
<1>6. CASE HostFails
  <2>1. call' = Answered(call, "error", None) /\ late' = late
    BY <1>6 DEF HostFails
  <2>2. call' \in Request /\ Named(call', had[call'.path])
    BY <1>3, <2>1, StartTypes
  <2> QED BY <1>1, <2>1, <2>2
<1>7. ASSUME NEW r \in late, LateCheck(r) \/ LateApply(r) PROVE Bytes'
  <2>1. call' = call /\ late' \subseteq late \cup {Checked(r)}
    BY <1>7 DEF LateCheck, LateApply
  <2>2. Checked(r) \in Request /\ Named(Checked(r), had[Checked(r).path])
    BY <1>0, <1>2, BytesFacts
  <2> QED BY <1>1, <2>1, <2>2
<1> QED BY <1>4, <1>5, <1>6, <1>7


LEMMA TakeBytes ==
  ASSUME Typed, Bytes, Take
  PROVE  Bytes'
<1>1. UNCHANGED <<tree, call, late, had>>
  BY DEF Take, history
<1>2. Head(queue) \in Job
  BY TailFacts, TypedFacts DEF Take
<1>3. ASSUME NEW q \in Paths PROVE Derived(entries'[q], entries[q], {})
  <2>1. \/ entries' = entries
        \/ entries' = [entries EXCEPT ![Head(queue).path] =
                          [entries[Head(queue).path] EXCEPT !.known = TRUE, !.pending = TRUE]]
    BY <1>2, TypedFacts DEF Take, Job
  <2>2. entries[q] \in Entry /\ entries'[q] \in {entries[q], [entries[q] EXCEPT !.known = TRUE, !.pending = TRUE]}
    BY <2>1, TypedFacts
  <2> QED BY <2>2 DEF Derived, Entry
<1>4. \A q \in Paths : Sound(entries'[q], had[q])
  BY <1>3, BytesFacts, DerivedSound
<1> QED BY <1>1, <1>4, BytesFacts, BytesFrame

(* A new request names bytes of the record it is made from. *)
LEMMA NewRequest ==
  ASSUME Typed, Bytes, UNCHANGED <<tree, entries, late, had>>, Named(call', had[call'.path])
  PROVE  Bytes'
BY BytesFacts DEF Bytes

LEMMA SendOpBytes ==
  ASSUME Typed, Bytes, SendOp
  PROVE  Bytes'
<1> DEFINE o == Head(ops)
           e == entries[o.path]
           S == had[o.path]
<1>1. /\ o \in Op /\ e \in Entry /\ call'.kind = o.kind /\ call'.path = o.path
      /\ call'.at = "sent" /\ call'.blind = (e.base = None /\ ~e.hasRemote)
      /\ call'.expect = IF o.kind = "rename" THEN RenameExpects(e) ELSE DeleteExpects(e)
  BY SendOpEffect
<1>2. o.kind \in {"rename", "delete"} /\ o.path \in Paths
  BY <1>1 DEF Op
<1>3. {e.base, e.remote.hash} \subseteq S \cup {None}
  BY <1>2, BytesFacts DEF Sound
<1> HIDE DEF o, e, S
<1>4. ~(e.base = None /\ ~e.hasRemote) =>
         DeleteExpects(e).kind # "any" /\ DeleteExpects(e).hash \in S \cup {None}
  BY <1>1, <1>3 DEF DeleteExpects, Expect, Entry
<1>5. Named(call', S)
  BY <1>1, <1>2, <1>4 DEF Named
<1>6. UNCHANGED <<tree, entries, late, had>>
  BY DEF SendOp, history
<1> QED BY <1>1, <1>5, <1>6, NewRequest DEF S

LEMMA PushNowBytes ==
  ASSUME Typed, Bytes, PushNow
  PROVE  Bytes'
<1>1. UNCHANGED <<tree, late, had>>
  BY DEF PushNow, history
<1>2. ASSUME NEW q \in Paths PROVE Sound(entries'[q], had[q])
  <2> DEFINE e == entries[q]
             f == [e EXCEPT !.pending = FALSE]
  <2>1. e \in Entry /\ Sound(e, had[q]) /\ (entries'[q] = e \/ entries'[q] = f)
    BY PushNowEffect, BytesFacts
  <2>2. /\ f.base = e.base /\ f.remote = e.remote /\ f.unack = e.unack /\ f.known = e.known
        /\ ~e.pending => f = e
    <3> HIDE DEF e
    <3> QED BY <2>1 DEF Entry
  <2>3. ~e.known => ~e.pending
    BY <2>1 DEF Sound, NoEntry
  <2> HIDE DEF e, f
  <2>4. Sound(f, had[q])
    BY <2>1, <2>2, <2>3 DEF Sound
  <2> QED BY <2>1, <2>4
<1>3. CASE call' = call
  BY <1>1, <1>2, <1>3, BytesFacts, BytesFrame
<1>4. CASE call' # call
  <2> DEFINE p == Head(work).path
             S == had[p]
  <2>1. /\ p \in Paths /\ tree[p] \in Contents /\ entries' = entries
        /\ call'.kind = "push" /\ call'.path = p /\ call'.content = tree[p] /\ call'.at = "sent"
        /\ call'.expect = Expect(entries[p].base)
    BY <1>4, PushNowSends
  <2>2. tree[p] \in S /\ entries[p].base \in S \cup {None}
    BY <2>1, BytesFacts, TreeAssumption DEF Sound
  <2> HIDE DEF p, S
  <2>3. Expect(entries[p].base).kind # "any" /\ Expect(entries[p].base).hash \in S \cup {None}
    BY <2>2 DEF Expect
  <2>4. Named(call', S)
    BY <2>1, <2>2, <2>3 DEF Named
  <2> QED BY <1>1, <2>1, <2>4, NewRequest DEF S
<1> QED BY <1>3, <1>4

(* The record that follows a rename takes what is known of its old path along. *)
LEMMA OpAnsweredBytes ==
  ASSUME Typed, Bytes, OpAnswered
  PROVE  Bytes'
<1> DEFINE p == call.path
           q == call.to
<1>1. /\ UNCHANGED <<tree, late>> /\ call' = NoCall
      /\ had' = IF call.ans = "error" THEN had ELSE [had EXCEPT ![q] = @ \cup had[p]]
  BY DEF OpAnswered
<1>2. p \in Paths /\ q \in Paths /\ had \in [Paths -> SUBSET Contents]
  BY TypedFacts DEF Requests, Request
<1>3. \A r \in Paths : had[r] \subseteq had'[r]
  BY <1>1, <1>2
<1>4. call.ans # "error" => had[p] \subseteq had'[q]
  BY <1>1, <1>2
<1>5. ASSUME NEW r \in Paths PROVE Sound(entries'[r], had'[r])
  <2>1. CASE Derived(entries'[r], entries[r], {})
    BY <1>3, <2>1, BytesFacts, DerivedSound
  <2>2. CASE r = q /\ call.ans # "error" /\ Derived(entries'[r], entries[p], {})
    BY <1>2, <1>4, <2>2, BytesFacts, DerivedSound
  <2> QED BY <2>1, <2>2, OpAnsweredEffect
<1>6. \A r \in Paths : tree'[r] \in had'[r] \cup {None}
  BY <1>1, <1>3, BytesFacts
<1> QED BY <1>1, <1>3, <1>5, <1>6, BytesFrame

LEMMA PushAnsweredBytes ==
  ASSUME Typed, Bytes, PushAnswered
  PROVE  Bytes'
<1> DEFINE p == call.path
           e == entries[p]
           f == entries'[p]
<1>1. UNCHANGED <<tree, late, had>> /\ call' = NoCall
  BY DEF PushAnswered, history
<1>2. p \in Paths /\ Sound(e, had[p])
  BY BytesFacts, TypedFacts DEF Requests, Request
<1>3. call.content \in had[p] /\ (call.ans = "ok" => call.hash = call.content)
  BY BytesFacts DEF PushAnswered, Named
<1>4. Sound(f, had[p])
  <2>1. \/ ~e.known /\ f = NoEntry
        \/ /\ e.known /\ f.known /\ f.base = call.hash
           /\ f.remote.hash \in {e.remote.hash, call.hash} /\ f.unack = <<>>
           /\ \/ call.ans = "ok"
              \/ call.hash = call.content
              \/ \E i \in DOMAIN e.unack : e.unack[i] = call.hash
        \/ /\ e.known /\ f.known /\ f.base = e.base
           /\ f.remote.hash = e.remote.hash /\ f.unack = <<>>
    BY PushAnsweredEffect
  <2>2. \A i \in DOMAIN e.unack : e.unack[i] \in had[p]
    BY <1>2 DEF Sound
  <2> HIDE DEF e, f
  <2>3. Derived(f, e, {call.hash} \cap had[p])
    BY <1>3, <2>1, <2>2 DEF Derived
  <2> QED BY <1>2, <2>3, DerivedSound
<1>5. \A q \in Paths : Sound(entries'[q], had[q])
  BY <1>4, BytesFacts, PushAnsweredEffect
<1> QED BY <1>1, <1>5, BytesFacts, BytesFrame

(* A request given up is one of those that may still be carried out. *)
LEMMA GiveUpBytes ==
  ASSUME Typed, Bytes, GiveUp, UNCHANGED <<tree, had>>, late' \subseteq late \cup {call}
  PROVE  Bytes'
<1>1. call' = NoCall
  BY DEF GiveUp
<1>2. ASSUME NEW q \in Paths PROVE Sound(entries'[q], had[q])
  <2>1. CASE entries'[q] = entries[q]
    BY <2>1, BytesFacts
  <2>2. CASE /\ call.kind = "push" /\ q = call.path /\ entries[q].known
             /\ entries'[q] = [entries[q] EXCEPT !.unack = Append(entries[q].unack, call.content)]
    <3> DEFINE u == Append(entries[q].unack, call.content)
    <3>1. entries[q] \in Entry /\ Sound(entries[q], had[q]) /\ call.content \in had[q]
      BY <2>2, BytesFacts DEF Named
    <3>2. u \in Seq(had[q])
      BY <3>1, AppendFacts DEF Sound
    <3> HIDE DEF u
    <3>3. entries'[q] = [entries[q] EXCEPT !.unack = u]
      BY <2>2 DEF u
    <3>4. /\ entries'[q].base = entries[q].base /\ entries'[q].remote = entries[q].remote
          /\ entries'[q].known = entries[q].known /\ entries'[q].unack = u
      BY <3>1, <3>3 DEF Entry
    <3>5. entries'[q].known /\ entries'[q].unack \in Seq(had[q])
      BY <2>2, <3>2, <3>4
    <3>6. {entries'[q].base, entries'[q].remote.hash} \subseteq had[q] \cup {None}
      BY <3>1, <3>4 DEF Sound
    <3> QED BY <3>5, <3>6 DEF Sound
  <2> QED BY <2>1, <2>2, GiveUpEffect
<1> QED BY <1>1, <1>2, BytesFacts, BytesFrame

LEMMA LinkBytes ==
  ASSUME Typed, Bytes,
         TimeOut \/ LinkDown \/ LinkUp \/ Reconnect \/ DrainStops \/ SyncFails \/ UNCHANGED vars
         \/ \E p \in Paths, c \in {None} \cup HostBytes : HostEdit(p, c)
  PROVE  Bytes'
<1>1. UNCHANGED <<tree, had>>
  BY DEF TimeOut, LinkDown, LinkUp, Reconnect, DrainStops, SyncFails, HostEdit, vars, history
<1>2. CASE UNCHANGED <<entries, call, late>>
  BY <1>1, <1>2, BytesFacts, BytesFrame
<1>3. CASE GiveUp /\ late' \subseteq late \cup {call}
  BY <1>1, <1>3, GiveUpBytes
<1>4. UNCHANGED <<entries, call, late>> \/ (GiveUp /\ late' \subseteq late \cup {call})
  BY DEF TimeOut, LinkDown, LinkUp, Reconnect, DrainStops, SyncFails, HostEdit, vars, Unapplied
<1> QED BY <1>2, <1>3, <1>4

LEMMA ReconcileBytes ==
  ASSUME Typed, Bytes, Reconcile
  PROVE  Bytes'
<1>1. UNCHANGED <<tree, call, late>> /\ had' = [p \in Paths |-> had[p] \cup ({host[p]} \ {None})]
  BY DEF Reconcile
<1>2. \A p \in Paths : had[p] \subseteq had'[p] /\ {host[p]} \ {None} \subseteq had'[p]
  BY <1>1
<1>3. ASSUME NEW p \in Paths PROVE Sound(entries'[p], had'[p])
  <2>1. entries'[p] = Verdict(p).entry
    BY ReconcileEffect
  <2>2. Derived(entries'[p], entries[p], {host[p]} \ {None}) /\ Sound(entries[p], had[p])
    BY <2>1, VerdictSound, BytesFacts
  <2> QED BY <1>2, <2>2, DerivedSound
<1>4. \A p \in Paths : tree'[p] \in had'[p] \cup {None}
  BY <1>1, <1>2, BytesFacts
<1> QED BY <1>1, <1>2, <1>3, <1>4, BytesFrame

LEMMA PullNowBytes ==
  ASSUME Typed, Bytes, PullNow
  PROVE  Bytes'
<1> DEFINE p == Head(work).path
<1>1. UNCHANGED <<call, late>>
  BY DEF PullNow
<1>2. /\ p \in Paths
      /\ \A q \in Paths \ {p} : tree'[q] = tree[q] /\ entries'[q] = entries[q]
      /\ \/ /\ host[p] # None /\ had' = [had EXCEPT ![p] = @ \cup {host[p]}]
            /\ tree'[p] = host[p] /\ Derived(entries'[p], entries[p], {host[p]})
         \/ had' = had /\ tree' = tree /\ Derived(entries'[p], entries[p], {})
  BY PullNowEffect
<1> HIDE DEF p
<1>3. \A q \in Paths : had[q] \subseteq had'[q]
  BY <1>2, BytesFacts
<1>4. /\ tree'[p] \in had'[p] \cup {None}
      /\ \E hs : hs \subseteq had'[p] /\ Derived(entries'[p], entries[p], hs)
  <2>1. CASE /\ had' = [had EXCEPT ![p] = @ \cup {host[p]}]
             /\ tree'[p] = host[p] /\ Derived(entries'[p], entries[p], {host[p]})
    <3>1. {host[p]} \subseteq had'[p]
      BY <1>2, <2>1, BytesFacts
    <3> QED BY <2>1, <3>1
  <2>2. CASE had' = had /\ tree' = tree /\ Derived(entries'[p], entries[p], {})
    <3>1. {} \subseteq had'[p] /\ tree'[p] \in had'[p] \cup {None}
      BY <1>2, <2>2, BytesFacts
    <3> QED BY <2>2, <3>1
  <2> QED BY <1>2, <2>1, <2>2
<1>5. Sound(entries'[p], had'[p])
  BY <1>2, <1>3, <1>4, BytesFacts, DerivedSound
<1>6. ASSUME NEW q \in Paths PROVE tree'[q] \in had'[q] \cup {None} /\ Sound(entries'[q], had'[q])
  <2>1. CASE q = p
    BY <1>4, <1>5, <2>1
  <2>2. CASE q # p
    BY <1>2, <1>3, <2>2, BytesFacts, SoundMore
  <2> QED BY <2>1, <2>2
<1> QED BY <1>1, <1>3, <1>6, BytesFrame

LEMMA DeleteNowBytes ==
  ASSUME Typed, Bytes, DeleteNow
  PROVE  Bytes'
<1> DEFINE p == Head(work).path
           e == entries[p]
           f == [e EXCEPT !.hasRemote = FALSE, !.conflict = TRUE]
<1>1. UNCHANGED <<call, late, had>>
  BY DEF DeleteNow, history
<1>2. /\ p \in Paths
      /\ \A q \in Paths : tree'[q] \in {tree[q], None} /\ (q # p => entries'[q] = entries[q])
      /\ entries'[p] \in {NoEntry, e} \/ (e.known /\ entries'[p] = f)
  BY DeleteNowEffect
<1>3. e \in Entry
  BY <1>2, BytesFacts
<1>4. f.base = e.base /\ f.remote = e.remote /\ f.unack = e.unack /\ f.known = e.known
  <2> HIDE DEF e
  <2> QED BY <1>3 DEF Entry
<1>5. Derived(entries'[p], e, {})
  <2> HIDE DEF e, f
  <2> QED BY <1>2, <1>4 DEF Derived
<1>6. Sound(entries'[p], had[p])
  BY <1>2, <1>5, BytesFacts, DerivedSound
<1>7. \A q \in Paths : Sound(entries'[q], had[q])
  BY <1>2, <1>6, BytesFacts
<1>8. \A q \in Paths : tree'[q] \in had[q] \cup {None}
  BY <1>2, BytesFacts
<1> QED BY <1>1, <1>7, <1>8, BytesFrame

LEMMA NextBytes ==
  ASSUME Typed, Bytes, [Next]_vars
  PROVE  Bytes'
<1>1. CASE Next
  BY <1>1, UserBytesKnown, HostBytesKnown, TakeBytes, SendOpBytes, PushNowBytes, OpAnsweredBytes,
     PushAnsweredBytes, LinkBytes, ReconcileBytes, PullNowBytes, DeleteNowBytes
     DEF Next, Worker, IoQueue
<1> QED BY <1>1, LinkBytes

-----------------------------------------------------------------------------
(* What the host does with a request *)

LEMMA VerdictKeeps ==
  ASSUME Typed, Bytes, NEW r \in {call} \cup late, r.at = "checked",
         NEW p \in Paths, ~Blind(p), ~Raced(p), HostVerdict(r).files[p] # host[p]
  PROVE  \/ host[p] \in had[p] \cup {None}
         \/ \E q \in Paths : host[q] = None /\ HostVerdict(r).files[q] = host[p]
<1> DEFINE v == HostVerdict(r)
           h == host[r.path]
<1>1. r \in Request /\ Named(r, had[r.path]) /\ host \in [Paths -> Hash]
  BY BytesFacts, TypedFacts DEF Requests
<1>2. r.path \in Paths /\ r.to \in Paths /\ Meets(r.found, r.expect)
  BY <1>1 DEF Request, Named
<1>3. p = r.path => host[p] = r.found
  BY DEF Raced
<1>4. CASE r.kind = "push" /\ v.files = [host EXCEPT ![r.path] = r.content]
  <2>1. p = r.path
    BY <1>1, <1>2, <1>4
  <2>2. host[p] = r.expect.hash /\ r.expect.hash \in had[r.path] \cup {None}
    BY <1>1, <1>2, <1>3, <1>4, <2>1 DEF Named, Meets
  <2> QED BY <2>1, <2>2
<1>5. CASE r.kind = "delete" /\ v.files = [host EXCEPT ![r.path] = None]
  <2>1. p = r.path
    BY <1>1, <1>2, <1>5
  <2>2. ~r.blind
    BY <1>5, <2>1 DEF Blind
  <2>3. host[p] = r.expect.hash /\ r.expect.hash \in had[r.path] \cup {None}
    BY <1>1, <1>2, <1>3, <1>5, <2>1, <2>2 DEF Named, Meets
  <2> QED BY <2>1, <2>3
<1>6. CASE /\ r.kind = "rename" /\ host[r.to] = None /\ h # None
           /\ v.files = [host EXCEPT ![r.path] = None, ![r.to] = h]
  <2>1. p \in {r.path, r.to} /\ r.path # r.to /\ v.files[r.to] = h
    <3> HIDE DEF h
    <3> QED BY <1>1, <1>2, <1>6 DEF h
  <2> QED BY <1>2, <1>6, <2>1
<1>7. CASE r.kind = "none" /\ v.files = [host EXCEPT ![r.path] = None, ![r.to] = h]
  BY <1>1, <1>2, <1>7 DEF Named
<1>8. \/ v.files = host
      \/ r.kind = "push" /\ v.files = [host EXCEPT ![r.path] = r.content]
      \/ r.kind = "delete" /\ v.files = [host EXCEPT ![r.path] = None]
      \/ /\ r.kind = "rename" /\ host[r.to] = None /\ h # None
         /\ v.files = [host EXCEPT ![r.path] = None, ![r.to] = h]
      \/ r.kind = "none" /\ v.files = [host EXCEPT ![r.path] = None, ![r.to] = h]
  <2>1. r.kind \in {"none", "push", "rename", "delete"}
    BY <1>1 DEF Request
  <2> QED BY <2>1 DEF HostVerdict
<1> QED BY <1>4, <1>5, <1>6, <1>7, <1>8

LEMMA StepKeepsHost ==
  ASSUME Typed, Bytes, [Next]_vars, NEW p \in Paths, host'[p] # host[p], hostEdits' = hostEdits,
         ~Blind(p), ~Raced(p)
  PROVE  \/ host[p] \in had[p] \cup {None}
         \/ \E q \in Paths : host[q] = None /\ host'[q] = host[p]
<1>1. Next
  BY DEF vars
<1>2. CASE HostApply
  <2>1. call.at = "checked" /\ host' = HostVerdict(call).files
    BY <1>2 DEF HostApply
  <2> QED BY <2>1, VerdictKeeps
<1>3. ASSUME NEW r \in late, LateApply(r)
      PROVE  \/ host[p] \in had[p] \cup {None}
             \/ \E q \in Paths : host[q] = None /\ host'[q] = host[p]
  <2>1. r.at = "checked" /\ host' = HostVerdict(r).files
    BY <1>3 DEF LateApply
  <2> QED BY <2>1, VerdictKeeps
<1>4. ASSUME NEW q \in Paths, NEW c \in {None} \cup HostBytes, HostEdit(q, c) PROVE FALSE
  BY <1>4, TypedFacts DEF HostEdit
<1>5. \/ HostApply \/ \E r \in late : LateApply(r)
      \/ \E q \in Paths, c \in {None} \cup HostBytes : HostEdit(q, c)
  BY <1>1 DEF Next, User, Worker, IoQueue, Save, Rename, Delete, UserStep, Take, DrainStops, SendOp,
     PushNow, OpAnswered, PushAnswered, Reconcile, SyncFails, PullNow, DeleteNow, HostCheck,
     HostFails, LateCheck, TimeOut, LinkDown, LinkUp, Reconnect
<1> QED BY <1>2, <1>3, <1>4, <1>5

(* A replayed delete, rename or push takes no bytes from the host that the      *)
(* mirror has neither held nor seen listed at that path, however long it waited, *)
(* however late it is carried out and whatever the user, others on the host and   *)
(* the link did meanwhile (DeleteTreeNow: "never a silent loss of the host's      *)
(* newer bytes"): for any files and contents and any number of saves,             *)
(* operations, host edits, lost links, error answers and timeouts.  Excused are   *)
(* a delete the code sends with nothing to compare (Blind) and a writer on the    *)
(* host between the check of a request and its step (Raced).                      *)
THEOREM ReplayKeepsHost == Spec => HostKept
<1> DEFINE Inv == Typed /\ Bytes
<1>1. Init => Inv
  BY InitTyped, InitBytes
<1>2. Inv /\ [Next]_vars => Inv'
  BY NextTyped, NextBytes
<1>3. Inv /\ [Next]_vars =>
         [\A p \in Paths :
             (host'[p] # host[p] /\ hostEdits' = hostEdits /\ ~Blind(p) /\ ~Raced(p))
               => \/ host[p] \in had[p] \cup {None}
                  \/ \E q \in Paths : host[q] = None /\ host'[q] = host[p]]_vars
  BY StepKeepsHost
<1> QED BY <1>1, <1>2, <1>3, PTL DEF Spec, HostKept

=============================================================================
