----------------------------- MODULE MirrorRules -----------------------------
(***************************************************************************)
(* The mirror's record of one path (MirrorStore::Entry) and the rules by    *)
(* which a manifest row, or the lack of one, is reconciled with it: what    *)
(* MirrorSync, MirrorJournal and TreeOps share.                             *)
(***************************************************************************)
EXTENDS Naturals, Sequences, SequencesExt

CONSTANTS
    Contents,   \* content hashes
    None        \* no file / std::nullopt

Hash == Contents \cup {None}

(* A manifest row: the file's hash and mtime; hash None where none is listed. *)
Row == [hash : Hash, ver : Nat]
NoRow == [hash |-> None, ver |-> 0]

(* One MirrorStore::Entry; `known' is FALSE where entries_ has no such key. *)
Entry == [known : BOOLEAN, hasRemote : BOOLEAN, remote : Row, base : Hash,
          pending : BOOLEAN, conflict : BOOLEAN, localOnly : BOOLEAN,
          pushed : Nat, unack : Seq(Contents)]

NoEntry == [known |-> FALSE, hasRemote |-> FALSE, remote |-> NoRow, base |-> None,
            pending |-> FALSE, conflict |-> FALSE, localOnly |-> FALSE,
            pushed |-> 0, unack |-> <<>>]

(* s without its element of that kind. *)
Without(s, kind) ==
    IF \E i \in 1..Len(s) : s[i].kind = kind
    THEN RemoveAt(s, CHOOSE i \in 1..Len(s) : s[i].kind = kind)
    ELSE s

-----------------------------------------------------------------------------
(* MirrorStore::CheckLocal: the tree's copy against the base. *)
CheckLocal(l, base) ==
    CASE l = None              -> "missing"
      [] l # None /\ l = base  -> "matches"
      [] OTHER                 -> "differs"

(* ReconcileRowLocked: one listed row against one entry and the tree's copy. *)
(* The result is the new entry and what the plan gets for the path.          *)
ReconcileRow(e, l, row, id) ==
    LET listed == [e EXCEPT !.known = TRUE, !.hasRemote = TRUE,
                            !.localOnly = FALSE, !.remote = row]
        adopted == [listed EXCEPT !.base = row.hash, !.conflict = FALSE]
        check   == CheckLocal(l, e.base)
    IN  CASE id <= e.pushed ->
               [entry |-> e, act |-> "skip"]
          [] id > e.pushed /\ e.pending ->
               [entry |-> listed, act |-> "push"]
          [] id > e.pushed /\ ~e.pending /\ e.conflict ->
               [entry |-> IF l = row.hash THEN adopted ELSE listed, act |-> "none"]
          [] OTHER ->
               CASE check = "missing" ->
                      [entry |-> [listed EXCEPT !.base = None], act |-> "pull"]
                 [] check = "matches" ->
                      [entry |-> listed,
                       act |-> IF e.base = row.hash THEN "none" ELSE "pull"]
                 [] check = "differs" /\ l = row.hash ->
                      [entry |-> adopted, act |-> "none"]
                 [] check = "differs" /\ l # row.hash /\ e.base = row.hash ->
                      [entry |-> [listed EXCEPT !.pending = TRUE], act |-> "push"]
                 [] OTHER ->
                      [entry |-> [listed EXCEPT !.conflict = TRUE], act |-> "none"]

(* Mutant: a save that waits is not pushed when the host deletes the file. *)
ReconcileDeleteForgetsSave(e, l) ==
    IF e.localOnly \/ e.pending \/ e.conflict
    THEN [entry |-> [e EXCEPT !.hasRemote = FALSE, !.conflict = e.conflict], act |-> "none"]
    ELSE IF ~e.hasRemote \/ CheckLocal(l, e.base) = "missing"
         THEN [entry |-> NoEntry, act |-> "none"]
         ELSE [entry |-> e, act |-> "delete"]

(* ReconcileDeleteLocked: a path the host no longer lists. *)
ReconcileDelete(e, l) ==
    LET kept  == e.localOnly \/ e.pending \/ e.conflict
        check == CheckLocal(l, e.base)
    IN  CASE kept ->
               [entry |-> [e EXCEPT !.hasRemote = FALSE,
                                    !.conflict = e.conflict \/
                                        (e.hasRemote /\ ~e.localOnly /\ ~e.pending)],
                act |-> IF e.pending THEN "push" ELSE "none"]
          [] ~kept /\ (~e.hasRemote \/ check = "missing") ->
               [entry |-> NoEntry, act |-> "none"]
          [] ~kept /\ e.hasRemote /\ check = "differs" ->
               [entry |-> [e EXCEPT !.hasRemote = FALSE, !.conflict = TRUE], act |-> "none"]
          [] OTHER ->
               [entry |-> e, act |-> "delete"]
=============================================================================
