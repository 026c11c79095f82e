-------------------------- MODULE MirrorRulesProofs --------------------------
(* What the rules of MirrorRules return: lemmas of the mirror models. *)
EXTENDS MirrorRules, TLAPS

(* The empty record is a record. *)
LEMMA NoEntryType == NoEntry \in Entry
BY DEF NoEntry, Entry, NoRow, Row, Hash

(* ReconcileRowLocked leaves a record, whatever the row and the tree hold. *)
LEMMA ReconcileRowType ==
  ASSUME NEW e \in Entry, NEW l \in Hash, NEW row \in Row, NEW id \in Nat
  PROVE  ReconcileRow(e, l, row, id).entry \in Entry
<1> DEFINE listed == [e EXCEPT !.known = TRUE, !.hasRemote = TRUE,
                               !.localOnly = FALSE, !.remote = row]
<1>1. listed \in Entry
  BY DEF Entry
<1>2. row.hash \in Hash /\ None \in Hash /\ e.pushed \in Nat
  BY DEF Row, Hash, Entry
<1>3. [listed EXCEPT !.base = row.hash, !.conflict = FALSE] \in Entry
  <2> HIDE DEF listed
  <2> QED BY <1>1, <1>2 DEF Entry
<1>4. [listed EXCEPT !.conflict = TRUE] \in Entry
  <2> HIDE DEF listed
  <2> QED BY <1>1 DEF Entry
<1>5. [listed EXCEPT !.pending = TRUE] \in Entry
  <2> HIDE DEF listed
  <2> QED BY <1>1 DEF Entry
<1>6. [listed EXCEPT !.base = None] \in Entry
  <2> HIDE DEF listed
  <2> QED BY <1>1, <1>2 DEF Entry
<1>7. CASE id <= e.pushed
  BY <1>2, <1>7 DEF ReconcileRow
<1>8. CASE id > e.pushed /\ e.pending
  BY <1>1, <1>2, <1>8 DEF ReconcileRow
<1>9. CASE id > e.pushed /\ ~e.pending /\ e.conflict
  BY <1>1, <1>2, <1>3, <1>9 DEF ReconcileRow
<1>10. CASE id > e.pushed /\ ~e.pending /\ ~e.conflict
  BY <1>1, <1>2, <1>3, <1>4, <1>5, <1>6, <1>10 DEF ReconcileRow, CheckLocal
<1> QED
  BY <1>2, <1>7, <1>8, <1>9, <1>10

(* So does ReconcileDeleteLocked. *)
LEMMA ReconcileDeleteType ==
  ASSUME NEW e \in Entry, NEW l \in Hash
  PROVE  ReconcileDelete(e, l).entry \in Entry
<1> DEFINE c == e.conflict \/ (e.hasRemote /\ ~e.localOnly /\ ~e.pending)
           unlisted == [e EXCEPT !.hasRemote = FALSE, !.conflict = c]
           parked == [e EXCEPT !.hasRemote = FALSE, !.conflict = TRUE]
<1>1. ReconcileDelete(e, l).entry \in {e, NoEntry, unlisted, parked}
  BY DEF ReconcileDelete, CheckLocal
<1>2. c \in BOOLEAN
  BY DEF Entry
<1> HIDE DEF c
<1>3. unlisted \in Entry /\ parked \in Entry
  BY <1>2 DEF Entry
<1> HIDE DEF unlisted, parked
<1> QED
  BY <1>1, <1>3, NoEntryType

(* The base a listed row leaves is the old one, none, or the row's. *)
LEMMA ReconcileRowBase ==
  ASSUME NEW e \in Entry, NEW l \in Hash, NEW row \in Row, NEW id \in Nat
  PROVE  ReconcileRow(e, l, row, id).entry.base \in {e.base, row.hash, None}
<1>1. e.pushed \in Nat
  BY DEF Entry
<1>2. CASE id <= e.pushed
  BY <1>1, <1>2 DEF ReconcileRow
<1>3. CASE id > e.pushed /\ e.pending
  BY <1>1, <1>3 DEF ReconcileRow, Entry
<1>4. CASE id > e.pushed /\ ~e.pending /\ e.conflict
  BY <1>1, <1>4 DEF ReconcileRow, Entry
<1>5. CASE id > e.pushed /\ ~e.pending /\ ~e.conflict
  BY <1>1, <1>5 DEF ReconcileRow, CheckLocal, Entry
<1> QED
  BY <1>1, <1>2, <1>3, <1>4, <1>5

(* The base a path no longer listed keeps is the old one, or none. *)
LEMMA ReconcileDeleteBase ==
  ASSUME NEW e \in Entry, NEW l \in Hash
  PROVE  ReconcileDelete(e, l).entry.base \in {e.base, None}
BY DEF ReconcileDelete, CheckLocal, Entry, NoEntry

(* Dropping a job leaves a queue of jobs. *)
LEMMA WithoutType ==
  ASSUME NEW S, NEW s \in Seq(S), NEW kind
  PROVE  Without(s, kind) \in Seq(S)
BY DEF Without, RemoveAt

(* What a listed row leaves of the rest of the record. *)
LEMMA ReconcileRowKeeps ==
  ASSUME NEW e \in Entry, NEW l \in Hash, NEW row \in Row, NEW id \in Nat
  PROVE  LET f == ReconcileRow(e, l, row, id).entry
         IN  /\ f.remote \in {e.remote, row} /\ f.unack = e.unack
             /\ f = e \/ f.known
<1>1. e.pushed \in Nat
  BY DEF Entry
<1>2. CASE id <= e.pushed
  BY <1>1, <1>2 DEF ReconcileRow
<1>3. CASE id > e.pushed /\ e.pending
  BY <1>1, <1>3 DEF ReconcileRow, Entry
<1>4. CASE id > e.pushed /\ ~e.pending /\ e.conflict
  BY <1>1, <1>4 DEF ReconcileRow, Entry
<1>5. CASE id > e.pushed /\ ~e.pending /\ ~e.conflict
  BY <1>1, <1>5 DEF ReconcileRow, CheckLocal, Entry
<1> QED
  BY <1>1, <1>2, <1>3, <1>4, <1>5

(* A listed row deletes nothing. *)
LEMMA ReconcileRowAct ==
  ASSUME NEW e \in Entry, NEW l \in Hash, NEW row \in Row, NEW id \in Nat
  PROVE  ReconcileRow(e, l, row, id).act # "delete"
<1>1. e.pushed \in Nat
  BY DEF Entry
<1> QED BY <1>1 DEF ReconcileRow, CheckLocal

(* What is left of the record of a path no longer listed; it is deleted here  *)
(* only where the tree holds its base.                                         *)
LEMMA ReconcileDeleteKeeps ==
  ASSUME NEW e \in Entry, NEW l \in Hash
  PROVE  LET v == ReconcileDelete(e, l)
         IN  /\ \/ v.entry = NoEntry
                \/ /\ v.entry.remote = e.remote /\ v.entry.unack = e.unack
                   /\ v.entry.base = e.base /\ v.entry.known = e.known
             /\ v.act = "delete" => v.entry = e /\ l # None /\ e.base = l
BY DEF ReconcileDelete, CheckLocal, Entry, NoEntry

(* A save that waits, or a conflict, outlives a listed row, unless the row is   *)
(* the very bytes of the tree.                                                 *)
LEMMA ReconcileRowMarks ==
  ASSUME NEW e \in Entry, NEW l \in Hash, NEW row \in Row, NEW id \in Nat,
         e.known, e.pending \/ e.conflict, l # row.hash
  PROVE  LET f == ReconcileRow(e, l, row, id).entry
         IN  f.known /\ (f.pending \/ f.conflict)
<1>1. e.pushed \in Nat
  BY DEF Entry
<1>2. CASE id <= e.pushed
  BY <1>1, <1>2 DEF ReconcileRow
<1>3. CASE id > e.pushed /\ e.pending
  BY <1>1, <1>3 DEF ReconcileRow, Entry
<1>4. CASE id > e.pushed /\ ~e.pending /\ e.conflict
  BY <1>1, <1>4 DEF ReconcileRow, Entry
<1> QED
  BY <1>1, <1>2, <1>3, <1>4

(* It outlives the lack of one. *)
LEMMA ReconcileDeleteMarks ==
  ASSUME NEW e \in Entry, NEW l \in Hash, e.known, e.pending \/ e.conflict
  PROVE  LET f == ReconcileDelete(e, l).entry
         IN  f.known /\ (f.pending \/ f.conflict)
BY DEF ReconcileDelete, Entry

(* A listed row that is not skipped leaves no bytes unexplained: they are the *)
(* base's or the row's, or the record is marked.                              *)
LEMMA ReconcileRowCompares ==
  ASSUME NEW e \in Entry, NEW l \in Hash, NEW row \in Row, NEW id \in Nat,
         ReconcileRow(e, l, row, id).act # "skip"
  PROVE  LET f == ReconcileRow(e, l, row, id).entry
         IN  \/ f.known /\ (f.pending \/ f.conflict)
             \/ l \in {None, e.base, row.hash}
<1>1. e.pushed \in Nat
  BY DEF Entry
<1>2. CASE id <= e.pushed
  BY <1>1, <1>2 DEF ReconcileRow
<1>3. CASE id > e.pushed /\ e.pending
  BY <1>1, <1>3 DEF ReconcileRow, Entry
<1>4. CASE id > e.pushed /\ ~e.pending /\ e.conflict
  BY <1>1, <1>4 DEF ReconcileRow, Entry
<1>5. CASE id > e.pushed /\ ~e.pending /\ ~e.conflict
  BY <1>1, <1>5 DEF ReconcileRow, CheckLocal, Entry
<1> QED
  BY <1>1, <1>2, <1>3, <1>4, <1>5

(* A listed row is skipped, or recorded; recorded, the save that waits is      *)
(* pushed, the conflict stands, the bytes are asked for, or they are the       *)
(* row's.                                                                      *)
LEMMA ReconcileRowOutcome ==
  ASSUME NEW e \in Entry, NEW l \in Hash, NEW row \in Row, NEW id \in Nat
  PROVE  LET v == ReconcileRow(e, l, row, id)
         IN  \/ v.act = "skip" /\ v.entry = e /\ id <= e.pushed
             \/ /\ id > e.pushed /\ v.act \in {"push", "none", "pull"}
                /\ v.entry.known /\ v.entry.hasRemote /\ v.entry.remote = row
                /\ v.entry.pending => v.act = "push"
                /\ \/ v.entry.pending \/ v.entry.conflict \/ v.act = "pull"
                   \/ v.entry.base = row.hash /\ l = row.hash
<1>1. e.pushed \in Nat
  BY DEF Entry
<1>2. CASE id <= e.pushed
  BY <1>1, <1>2 DEF ReconcileRow
<1>3. CASE id > e.pushed /\ e.pending
  BY <1>1, <1>3 DEF ReconcileRow, Entry
<1>4. CASE id > e.pushed /\ ~e.pending /\ e.conflict
  BY <1>1, <1>4 DEF ReconcileRow, Entry
<1>5. CASE id > e.pushed /\ ~e.pending /\ ~e.conflict
  BY <1>1, <1>5 DEF ReconcileRow, CheckLocal, Entry
<1> QED
  BY <1>1, <1>2, <1>3, <1>4, <1>5

(* A path no longer listed is forgotten, deleted here, or kept as a file only  *)
(* this side has.                                                              *)
LEMMA ReconcileDeleteOutcome ==
  ASSUME NEW e \in Entry, NEW l \in Hash
  PROVE  LET v == ReconcileDelete(e, l)
         IN  \/ v.entry = NoEntry /\ v.act = "none"
             \/ /\ v.entry = e /\ v.act = "delete"
                /\ e.hasRemote /\ ~e.pending /\ ~e.conflict
             \/ /\ v.entry.known = e.known /\ ~v.entry.hasRemote /\ v.entry.remote = e.remote
                /\ v.entry.pending = e.pending /\ v.act = IF e.pending THEN "push" ELSE "none"
BY DEF ReconcileDelete, CheckLocal, Entry, NoEntry

(* A save that waits stays pending, and the base changes only to none or to    *)
(* the bytes the tree holds.                                                   *)
LEMMA ReconcileRowFounds ==
  ASSUME NEW e \in Entry, NEW l \in Hash, NEW row \in Row, NEW id \in Nat
  PROVE  LET f == ReconcileRow(e, l, row, id).entry
         IN  /\ e.pending => f.pending
             /\ f.base \in {e.base, l, None}
<1>1. e.pushed \in Nat
  BY DEF Entry
<1>2. CASE id <= e.pushed
  BY <1>1, <1>2 DEF ReconcileRow
<1>3. CASE id > e.pushed /\ e.pending
  BY <1>1, <1>3 DEF ReconcileRow, Entry
<1>4. CASE id > e.pushed /\ ~e.pending /\ e.conflict
  BY <1>1, <1>4 DEF ReconcileRow, Entry
<1>5. CASE id > e.pushed /\ ~e.pending /\ ~e.conflict
  BY <1>1, <1>5 DEF ReconcileRow, CheckLocal, Entry
<1> QED
  BY <1>1, <1>2, <1>3, <1>4, <1>5

(* A save that waits outlives the lack of a row too. *)
LEMMA ReconcileDeletePends ==
  ASSUME NEW e \in Entry, NEW l \in Hash, e.pending
  PROVE  ReconcileDelete(e, l).entry.pending
BY DEF ReconcileDelete, Entry

-----------------------------------------------------------------------------
(* Queues and wires as sets of jobs and frames, and the order within them *)

(* x stands before y in s. *)
Ahead(s, x, y) == \E i, j \in 1..Len(s) : i < j /\ s[i] = x /\ s[j] = y

(* The members of a sequence and their places. *)
LEMMA SeqMembers ==
  ASSUME NEW S, NEW s \in Seq(S)
  PROVE  /\ \A x : x \in ToSet(s) <=> \E i \in 1..Len(s) : s[i] = x
         /\ ToSet(s) \subseteq S
         /\ s # <<>> => Head(s) \in ToSet(s)
         /\ \A x, y : Ahead(s, x, y) => x \in ToSet(s) /\ y \in ToSet(s)
<1>1. DOMAIN s = 1..Len(s) /\ \A i \in 1..Len(s) : s[i] \in S
  OBVIOUS
<1>2. \A x : x \in ToSet(s) <=> \E i \in 1..Len(s) : s[i] = x
  BY <1>1 DEF ToSet
<1>3. s # <<>> => Head(s) = s[1] /\ 1 \in 1..Len(s)
  OBVIOUS
<1> QED BY <1>1, <1>2, <1>3 DEF Ahead

(* An empty one has none. *)
LEMMA EmptyMembers == ToSet(<<>>) = {} /\ \A x, y : ~Ahead(<<>>, x, y)
<1>1. <<>> \in Seq({}) /\ Len(<<>>) = 0
  OBVIOUS
<1>2. DOMAIN <<>> = {}
  OBVIOUS
<1> QED BY <1>1, <1>2 DEF Ahead, ToSet

(* The first one taken. *)
LEMMA TailMembers ==
  ASSUME NEW S, NEW s \in Seq(S), s # <<>>
  PROVE  /\ ToSet(s) = {Head(s)} \cup ToSet(Tail(s))
         /\ \A x, y : Ahead(s, x, y) <=>
               (Ahead(Tail(s), x, y) \/ (x = Head(s) /\ y \in ToSet(Tail(s))))
<1> DEFINE t == Tail(s)
<1>1. /\ t \in Seq(S) /\ Len(t) = Len(s) - 1 /\ Len(s) \in Nat \ {0} /\ Head(s) = s[1]
      /\ \A i \in 1..Len(t) : t[i] = s[i + 1]
  OBVIOUS
<1> HIDE DEF t
<1>2. \A x : x \in ToSet(s) <=> \E i \in 1..Len(s) : s[i] = x
  BY SeqMembers
<1>3. \A x : x \in ToSet(t) <=> \E i \in 1..Len(t) : t[i] = x
  BY <1>1, SeqMembers
<1>4. \A i \in 1..Len(s) : i = 1 \/ (i - 1 \in 1..Len(t) /\ t[i - 1] = s[i])
  BY <1>1
<1>5. ToSet(s) = {Head(s)} \cup ToSet(t)
  <2>1. ASSUME NEW x \in ToSet(s) PROVE x \in {Head(s)} \cup ToSet(t)
    BY <1>1, <1>2, <1>3, <1>4
  <2>2. ASSUME NEW x \in {Head(s)} \cup ToSet(t) PROVE x \in ToSet(s)
    <3>1. CASE x = Head(s)
      BY <1>1, <1>2, <3>1
    <3>2. CASE x \in ToSet(t)
      <4>1. PICK i \in 1..Len(t) : t[i] = x
        BY <1>3, <3>2
      <4>2. i + 1 \in 1..Len(s) /\ s[i + 1] = x
        BY <1>1, <4>1
      <4> QED BY <1>2, <4>2
    <3> QED BY <3>1, <3>2
  <2> QED BY <2>1, <2>2
<1>6. ASSUME NEW x, NEW y, Ahead(s, x, y)
      PROVE  Ahead(t, x, y) \/ (x = Head(s) /\ y \in ToSet(t))
  <2>1. PICK i, j \in 1..Len(s) : i < j /\ s[i] = x /\ s[j] = y
    BY <1>6 DEF Ahead
  <2>2. j - 1 \in 1..Len(t) /\ t[j - 1] = y
    BY <1>1, <1>4, <2>1
  <2>3. CASE i = 1
    BY <1>1, <1>3, <2>1, <2>2, <2>3
  <2>4. CASE i # 1
    <3>1. i - 1 \in 1..Len(t) /\ t[i - 1] = x /\ i - 1 < j - 1
      BY <1>4, <2>1, <2>4
    <3> QED BY <2>2, <3>1 DEF Ahead
  <2> QED BY <2>3, <2>4
<1>7. ASSUME NEW x, NEW y, Ahead(t, x, y) PROVE Ahead(s, x, y)
  <2>1. PICK i, j \in 1..Len(t) : i < j /\ t[i] = x /\ t[j] = y
    BY <1>7 DEF Ahead
  <2>2. /\ i + 1 \in 1..Len(s) /\ j + 1 \in 1..Len(s) /\ i + 1 < j + 1
        /\ s[i + 1] = x /\ s[j + 1] = y
    BY <1>1, <2>1
  <2> QED BY <2>2 DEF Ahead
<1>8. ASSUME NEW y \in ToSet(t) PROVE Ahead(s, Head(s), y)
  <2>1. PICK i \in 1..Len(t) : t[i] = y
    BY <1>3
  <2>2. 1 \in 1..Len(s) /\ i + 1 \in 1..Len(s) /\ 1 < i + 1 /\ s[i + 1] = y
    BY <1>1, <2>1
  <2> QED BY <1>1, <2>2 DEF Ahead
<1> QED BY <1>5, <1>6, <1>7, <1>8 DEF t

(* Some more behind it. *)
LEMMA JoinedMembers ==
  ASSUME NEW S, NEW s \in Seq(S), NEW t \in Seq(S)
  PROVE  /\ ToSet(s \o t) = ToSet(s) \cup ToSet(t)
         /\ \A x, y : Ahead(s \o t, x, y) <=>
               (Ahead(s, x, y) \/ Ahead(t, x, y) \/ (x \in ToSet(s) /\ y \in ToSet(t)))
<1> DEFINE u == s \o t
<1>1. /\ u \in Seq(S) /\ Len(u) = Len(s) + Len(t) /\ Len(s) \in Nat /\ Len(t) \in Nat
      /\ \A i \in 1..Len(s) : u[i] = s[i]
      /\ \A i \in 1..Len(t) : u[i + Len(s)] = t[i]
  OBVIOUS
<1> HIDE DEF u
<1>2. \A x : x \in ToSet(s) <=> \E i \in 1..Len(s) : s[i] = x
  BY SeqMembers
<1>3. \A x : x \in ToSet(t) <=> \E i \in 1..Len(t) : t[i] = x
  BY SeqMembers
<1>4. \A x : x \in ToSet(u) <=> \E i \in 1..Len(u) : u[i] = x
  BY <1>1, SeqMembers
<1>5. \A i \in 1..Len(s) : i \in 1..Len(u)
  BY <1>1
<1>6. \A i \in 1..Len(t) : i + Len(s) \in 1..Len(u) /\ i + Len(s) > Len(s)
  BY <1>1
<1>7. \A i \in 1..Len(u) : i \in 1..Len(s) \/ (i - Len(s) \in 1..Len(t) /\ u[i] = t[i - Len(s)])
  BY <1>1
<1>8. \A x : x \in ToSet(u) <=> x \in ToSet(s) \cup ToSet(t)
  BY <1>1, <1>2, <1>3, <1>4, <1>5, <1>6, <1>7
<1>9. ASSUME NEW x, NEW y, Ahead(u, x, y)
      PROVE  Ahead(s, x, y) \/ Ahead(t, x, y) \/ (x \in ToSet(s) /\ y \in ToSet(t))
  <2>1. PICK i, j \in 1..Len(u) : i < j /\ u[i] = x /\ u[j] = y
    BY <1>9 DEF Ahead
  <2>2. CASE j \in 1..Len(s)
    <3>1. i \in 1..Len(s)
      BY <1>1, <2>1, <2>2
    <3> QED BY <1>1, <2>1, <2>2, <3>1 DEF Ahead
  <2>3. CASE j \notin 1..Len(s) /\ i \in 1..Len(s)
    BY <1>1, <1>2, <1>3, <1>7, <2>1, <2>3
  <2>4. CASE j \notin 1..Len(s) /\ i \notin 1..Len(s)
    <3>1. /\ i - Len(s) \in 1..Len(t) /\ t[i - Len(s)] = x
          /\ j - Len(s) \in 1..Len(t) /\ t[j - Len(s)] = y
      BY <1>7, <2>1, <2>4
    <3>2. i - Len(s) < j - Len(s)
      BY <1>1, <2>1
    <3> QED BY <3>1, <3>2 DEF Ahead
  <2> QED BY <2>2, <2>3, <2>4
<1>10. ASSUME NEW x, NEW y, Ahead(s, x, y) PROVE Ahead(u, x, y)
  <2>1. PICK i, j \in 1..Len(s) : i < j /\ s[i] = x /\ s[j] = y
    BY <1>10 DEF Ahead
  <2>2. i \in 1..Len(u) /\ j \in 1..Len(u) /\ u[i] = x /\ u[j] = y
    BY <1>1, <2>1
  <2> QED BY <2>1, <2>2 DEF Ahead
<1>11. ASSUME NEW x, NEW y, Ahead(t, x, y) PROVE Ahead(u, x, y)
  <2>1. PICK i, j \in 1..Len(t) : i < j /\ t[i] = x /\ t[j] = y
    BY <1>11 DEF Ahead
  <2>2. /\ i + Len(s) \in 1..Len(u) /\ j + Len(s) \in 1..Len(u) /\ i + Len(s) < j + Len(s)
        /\ u[i + Len(s)] = x /\ u[j + Len(s)] = y
    BY <1>1, <2>1
  <2> QED BY <2>2 DEF Ahead
<1>12. ASSUME NEW x \in ToSet(s), NEW y \in ToSet(t) PROVE Ahead(u, x, y)
  <2>1. PICK i \in 1..Len(s) : s[i] = x
    BY <1>2
  <2>2. PICK j \in 1..Len(t) : t[j] = y
    BY <1>3
  <2>3. /\ i \in 1..Len(u) /\ j + Len(s) \in 1..Len(u) /\ i < j + Len(s)
        /\ u[i] = x /\ u[j + Len(s)] = y
    BY <1>1, <2>1, <2>2
  <2> QED BY <2>3 DEF Ahead
<1>13. ToSet(u) = ToSet(s) \cup ToSet(t)
  BY <1>8
<1> QED BY <1>9, <1>10, <1>11, <1>12, <1>13 DEF u

(* A sequence of one. *)
LEMMA OneMember ==
  ASSUME NEW S, NEW x \in S
  PROVE  <<x>> \in Seq(S) /\ ToSet(<<x>>) = {x} /\ \A y, z : ~Ahead(<<x>>, y, z)
<1>1. <<x>> \in Seq(S) /\ Len(<<x>>) = 1 /\ <<x>>[1] = x
  OBVIOUS
<1>2. \A y : y \in ToSet(<<x>>) <=> \E i \in 1..1 : <<x>>[i] = y
  BY <1>1, SeqMembers
<1>3. ToSet(<<x>>) = {x}
  BY <1>1, <1>2
<1> QED BY <1>1, <1>3 DEF Ahead

(* One more, at the end. *)
LEMMA AppendMembers ==
  ASSUME NEW S, NEW s \in Seq(S), NEW z \in S
  PROVE  /\ ToSet(Append(s, z)) = ToSet(s) \cup {z}
         /\ \A x, y : Ahead(Append(s, z), x, y) <=>
               (Ahead(s, x, y) \/ (x \in ToSet(s) /\ y = z))
<1>1. Append(s, z) = s \o <<z>>
  OBVIOUS
<1>2. <<z>> \in Seq(S) /\ ToSet(<<z>>) = {z} /\ \A x, y : ~Ahead(<<z>>, x, y)
  BY OneMember
<1>3. /\ ToSet(s \o <<z>>) = ToSet(s) \cup ToSet(<<z>>)
      /\ \A x, y : Ahead(s \o <<z>>, x, y) <=>
            (Ahead(s, x, y) \/ Ahead(<<z>>, x, y) \/ (x \in ToSet(s) /\ y \in ToSet(<<z>>)))
  BY <1>2, JoinedMembers
<1> QED BY <1>1, <1>2, <1>3

(* The one of a kind taken out. *)
LEMMA WithoutMembers ==
  ASSUME NEW S, NEW s \in Seq(S), NEW kind
  PROVE  /\ \A x : x \in ToSet(Without(s, kind)) => x \in ToSet(s)
         /\ \A x : x \in ToSet(s) /\ x.kind # kind => x \in ToSet(Without(s, kind))
         /\ \A x, y : Ahead(Without(s, kind), x, y) => Ahead(s, x, y)
         /\ (\A x, y : Ahead(s, x, y) => x.kind # kind \/ y.kind # kind)
              => \A x \in ToSet(Without(s, kind)) : x.kind # kind
<1>1. CASE ~(\E i \in 1..Len(s) : s[i].kind = kind)
  <2>1. Without(s, kind) = s
    BY <1>1 DEF Without
  <2>2. \A x \in ToSet(s) : x.kind # kind
    BY <1>1, SeqMembers
  <2> QED BY <2>1, <2>2
<1>2. CASE \E i \in 1..Len(s) : s[i].kind = kind
  <2> DEFINE d == CHOOSE i \in 1..Len(s) : s[i].kind = kind
             a == SubSeq(s, 1, d - 1)
             b == SubSeq(s, d, Len(s))
             c == SubSeq(s, d + 1, Len(s))
  <2>1. d \in 1..Len(s) /\ s[d].kind = kind /\ Without(s, kind) = RemoveAt(s, d)
    BY <1>2 DEF Without
  <2> HIDE DEF d
  <2>2. Without(s, kind) = a \o c
    BY <2>1 DEF RemoveAt
  <2>3. a \in Seq(S) /\ b \in Seq(S) /\ c \in Seq(S)
    BY <2>1
  <2>4. s = a \o b
    BY <2>1
  <2>5. b # <<>> /\ Head(b) = s[d] /\ Tail(b) = c
    <3>1. Len(b) = Len(s) - d + 1 /\ \A i \in 1..Len(b) : b[i] = s[i + d - 1]
      BY <2>1
    <3>2. Len(c) = Len(s) - d /\ \A i \in 1..Len(c) : c[i] = s[i + d]
      BY <2>1
    <3> HIDE DEF b, c
    <3>3. b # <<>> /\ Head(b) = s[d]
      BY <2>1, <2>3, <3>1
    <3> DEFINE t == Tail(b)
    <3>4. t \in Seq(S) /\ Len(t) = Len(b) - 1 /\ \A i \in 1..Len(t) : t[i] = b[i + 1]
      BY <2>3, <3>3
    <3> HIDE DEF t
    <3>5. Len(t) = Len(c) /\ \A i \in 1..Len(t) : t[i] = c[i]
      <4>1. Len(s) \in Nat /\ Len(t) = Len(c) /\ Len(c) = Len(s) - d
        BY <2>1, <3>1, <3>2, <3>4
      <4>2. ASSUME NEW i \in 1..Len(t) PROVE t[i] = c[i]
        <5>1. i + 1 \in 1..Len(b) /\ (i + 1) + d - 1 = i + d
          BY <2>1, <3>1, <4>1
        <5> QED BY <3>1, <3>2, <3>4, <4>1, <5>1
      <4> QED BY <4>1, <4>2
    <3>6. t = c
      BY <2>3, <3>4, <3>5
    <3> QED BY <3>3, <3>6 DEF t
  <2> HIDE DEF a, b, c
  <2>6. /\ ToSet(s) = ToSet(a) \cup ToSet(b)
        /\ \A x, y : Ahead(s, x, y) <=>
              (Ahead(a, x, y) \/ Ahead(b, x, y) \/ (x \in ToSet(a) /\ y \in ToSet(b)))
    BY <2>3, <2>4, JoinedMembers
  <2>7. /\ ToSet(a \o c) = ToSet(a) \cup ToSet(c)
        /\ \A x, y : Ahead(a \o c, x, y) <=>
              (Ahead(a, x, y) \/ Ahead(c, x, y) \/ (x \in ToSet(a) /\ y \in ToSet(c)))
    BY <2>3, JoinedMembers
  <2>8. /\ ToSet(b) = {s[d]} \cup ToSet(c)
        /\ \A x, y : Ahead(b, x, y) <=>
              (Ahead(c, x, y) \/ (x = s[d] /\ y \in ToSet(c)))
    BY <2>3, <2>5, TailMembers
  <2> QED BY <2>1, <2>2, <2>6, <2>7, <2>8
<1> QED BY <1>1, <1>2

(* r is what q becomes when `taken' leave it and jobs of no order join it. *)
Unordered == {"note", "push", "approve", "object"}
Slims(q, r, taken) ==
    /\ \A x \in ToSet(r) : x \in ToSet(q) \/ x.kind \in Unordered
    /\ \A x \in ToSet(q) : x \in ToSet(r) \/ x \in taken
    /\ \A x, y : Ahead(r, x, y) => \/ Ahead(q, x, y)
                                   \/ x.kind \in Unordered
                                   \/ y.kind \in Unordered

(* What a worker that takes the first job and posts one of no order makes of *)
(* its queue.                                                                *)
LEMMA Slimming ==
  ASSUME NEW S, NEW q \in Seq(S), NEW z \in S, z.kind \in Unordered
  PROVE  /\ Slims(q, q, {})
         /\ Slims(q, Append(q, z), {}) /\ z \in ToSet(Append(q, z))
         /\ q # <<>> => /\ Slims(q, Tail(q), {Head(q)})
                        /\ Slims(q, <<z>> \o Tail(q), {Head(q)}) /\ z \in ToSet(<<z>> \o Tail(q))
                        /\ Slims(q, Append(Tail(q), z), {Head(q)})
                        /\ z \in ToSet(Append(Tail(q), z))
<1>1. Slims(q, q, {})
  BY DEF Slims
<1>2. Slims(q, Append(q, z), {}) /\ z \in ToSet(Append(q, z))
  <2> DEFINE r == Append(q, z)
  <2>1. /\ ToSet(r) = ToSet(q) \cup {z}
        /\ \A x, y : Ahead(r, x, y) <=> (Ahead(q, x, y) \/ (x \in ToSet(q) /\ y = z))
    BY AppendMembers
  <2> HIDE DEF r
  <2>2. Slims(q, r, {}) /\ z \in ToSet(r)
    BY <2>1 DEF Slims
  <2> QED BY <2>2 DEF r
<1>3. ASSUME q # <<>>
      PROVE  /\ Slims(q, Tail(q), {Head(q)})
             /\ Slims(q, <<z>> \o Tail(q), {Head(q)}) /\ z \in ToSet(<<z>> \o Tail(q))
             /\ Slims(q, Append(Tail(q), z), {Head(q)})
             /\ z \in ToSet(Append(Tail(q), z))
  <2> DEFINE t == Tail(q)
             h == Head(q)
  <2>1. /\ ToSet(q) = {h} \cup ToSet(t)
        /\ \A x, y : Ahead(q, x, y) <=> (Ahead(t, x, y) \/ (x = h /\ y \in ToSet(t)))
    BY <1>3, TailMembers
  <2>2. t \in Seq(S)
    BY <1>3
  <2> HIDE DEF t, h
  <2>3. Slims(q, t, {h})
    BY <2>1 DEF Slims
  <2>4. Slims(q, <<z>> \o t, {h}) /\ z \in ToSet(<<z>> \o t)
    <3> DEFINE r == <<z>> \o t
    <3>1. <<z>> \in Seq(S) /\ ToSet(<<z>>) = {z} /\ \A x, y : ~Ahead(<<z>>, x, y)
      BY OneMember
    <3>2. /\ ToSet(r) = {z} \cup ToSet(t)
          /\ \A x, y : Ahead(r, x, y) <=> (Ahead(t, x, y) \/ (x = z /\ y \in ToSet(t)))
      BY <2>2, <3>1, JoinedMembers
    <3> HIDE DEF r
    <3>3. Slims(q, r, {h}) /\ z \in ToSet(r)
      BY <2>1, <3>2 DEF Slims
    <3> QED BY <3>3 DEF r
  <2>5. Slims(q, Append(t, z), {h}) /\ z \in ToSet(Append(t, z))
    <3> DEFINE r == Append(t, z)
    <3>1. /\ ToSet(r) = ToSet(t) \cup {z}
          /\ \A x, y : Ahead(r, x, y) <=> (Ahead(t, x, y) \/ (x \in ToSet(t) /\ y = z))
      BY <2>2, AppendMembers
    <3> HIDE DEF r
    <3>2. Slims(q, r, {h}) /\ z \in ToSet(r)
      BY <2>1, <3>1 DEF Slims
    <3> QED BY <3>2 DEF r
  <2> QED BY <2>3, <2>4, <2>5 DEF t, h
<1> QED BY <1>1, <1>2, <1>3
=============================================================================
