----------------------------- MODULE MySQLClient -----------------------------
(***************************************************************************)
(* server/src/MySQLClient.cc: the one connection to the database that all  *)
(* threads share.  Every method holds _mutex from its beginning to its     *)
(* end, so a method is an operator that maps the state before it to the    *)
(* set of states in which it may end; the modules that use it make one     *)
(* step of a call.                                                         *)
(*                                                                         *)
(* A state is a record: the fields of the client, the session the server   *)
(* has for it, and the rows.  A lost session is noticed by the statement   *)
(* that fails, and the server has then rolled back what was open.  The     *)
(* statement itself may have been performed or not.                        *)
(*                                                                         *)
(*   connected, inTransaction   _connected, _inTransaction                 *)
(*   errno     _lastErrno: "none", "duplicate", "lost" (2003, 2006, 2013), *)
(*             "other"; "none" is what a method that returns true leaves   *)
(*   alive     the server still has the session of the handle              *)
(*   open      a transaction is open in it                                 *)
(*   pending   the rows written in that transaction                        *)
(*   stored    the committed rows                                          *)
(*   faults    history: how many faults there were                         *)
(***************************************************************************)
EXTENDS Naturals

CONSTANTS
  Keys,      (* what rows are found by: names, tokens, recordings *)
  Writers,   (* who writes them *)
  Nobody,    (* the user of rows that belong to none *)
  MaxFaults  (* bound, a number: faults of the network and of the server *)

Tables == {"users", "user_sessions", "records"}

(* The tables whose key must be unique (schema/init.sql, lines 25 and 84). *)
UniqueTables == {"users", "user_sessions"}

(* A row: its key, the user it refers to, and, as history, who wrote it and *)
(* in which attempt.  An INSERT names the first three.                      *)
Rows == [table: Tables, key: Keys, user: Keys \cup {Nobody}, by: Writers, attempt: 1..2]

States ==
  [connected: BOOLEAN, inTransaction: BOOLEAN,
   errno: {"none", "duplicate", "lost", "other"},
   alive: BOOLEAN, open: BOOLEAN,
   pending: SUBSET Rows, stored: SUBSET Rows, faults: 0..MaxFaults]

Visible(d) == d.stored \cup d.pending

Found(d, table, key) == \E r \in Visible(d) : r.table = table /\ r.key = key

-------------------------------------------------------------------------------
(* The server (external): what it does with a statement.                    *)

Start == [kind |-> "start"]
Commit == [kind |-> "commit"]
Rollback == [kind |-> "rollback"]
Select == [kind |-> "select"]
Insert(table, key, user, writer) ==
  [kind |-> "insert", table |-> table, key |-> key, user |-> user, by |-> writer]

RowOf(s, n) ==
  [table |-> s.table, key |-> s.key, user |-> s.user, by |-> s.by, attempt |-> n]

(* START TRANSACTION commits a transaction that is open. *)
CommitsOpen(d, open) ==
  [d EXCEPT !.stored = @ \cup d.pending, !.pending = {}, !.open = open]

RollsBack(d) == [d EXCEPT !.pending = {}, !.open = FALSE]

(* The unique keys and the foreign key of user_sessions. *)
IsDuplicate(d, s) == s.table \in UniqueTables /\ Found(d, s.table, s.key)
IsOrphan(d, s) == s.user # Nobody /\ ~Found(d, "users", s.user)

Inserts(d, s, n) ==
  CASE IsDuplicate(d, s) -> [d EXCEPT !.errno = "duplicate"]
    [] ~IsDuplicate(d, s) /\ IsOrphan(d, s) -> [d EXCEPT !.errno = "other"]
    [] OTHER -> IF d.open THEN [d EXCEPT !.pending = @ \cup {RowOf(s, n)}]
                          ELSE [d EXCEPT !.stored = @ \cup {RowOf(s, n)}]

(* The n-th attempt of statement s, performed. *)
Performed(d, s, n) ==
  LET clean == [d EXCEPT !.errno = "none"]
  IN  CASE s.kind = "start" -> CommitsOpen(clean, TRUE)
        [] s.kind = "commit" -> CommitsOpen(clean, FALSE)
        [] s.kind = "rollback" -> RollsBack(clean)
        [] s.kind = "select" -> clean
        [] s.kind = "insert" -> Inserts(clean, s, n)

Lost(d) == [RollsBack(d) EXCEPT !.errno = "lost", !.alive = FALSE, !.faults = @ + 1]

(* mysql_real_query, mysql_commit, mysql_rollback: performed and answered;  *)
(* lost before or after it was performed; an INSERT may also be refused for *)
(* want of space or the like.                                               *)
Answers(d, s, n) ==
  IF ~d.alive THEN {[d EXCEPT !.errno = "lost"]}
  ELSE {Performed(d, s, n)}
       \cup (IF d.faults = MaxFaults THEN {}
             ELSE {Lost(d), Lost(Performed(d, s, n))}
                  \cup (IF s.kind # "insert" THEN {}
                        ELSE {[d EXCEPT !.errno = "other", !.faults = @ + 1]}))

-------------------------------------------------------------------------------
(* The client.                                                              *)

(* reconnectLocked(): the old handle is closed, with it its transaction.    *)
ReconnectsInTransaction(d) == \* mutant: the flag survives the reconnect
  LET closed == [RollsBack(d) EXCEPT !.connected = FALSE, !.alive = FALSE]
  IN  {[closed EXCEPT !.connected = TRUE, !.alive = TRUE, !.errno = "none"]}
      \cup (IF d.faults = MaxFaults THEN {}
            ELSE {[closed EXCEPT !.errno = "lost", !.faults = @ + 1]})
Reconnects(d) ==
  LET closed == [RollsBack(d) EXCEPT !.connected = FALSE, !.inTransaction = FALSE,
                                     !.alive = FALSE]
  IN  {[closed EXCEPT !.connected = TRUE, !.alive = TRUE, !.errno = "none"]}
      \cup (IF d.faults = MaxFaults THEN {}
            ELSE {[closed EXCEPT !.errno = "lost", !.faults = @ + 1]})

(* A method that needs a connection starts with one, or ends at once. *)
Ready(d) == IF d.connected THEN {d} ELSE Reconnects(d)

(* startTransactionLocked(). *)
Begins(d, n) ==
  {IF a.errno = "none" THEN [a EXCEPT !.inTransaction = TRUE] ELSE a : a \in Answers(d, Start, n)}

(* The loop of execute() and query(): one retry, after a reconnect, and in  *)
(* a new transaction if there was one.                                      *)
RetryOutsideTransaction(d, s, wasInTransaction) == \* mutant: it is not restarted
  UNION {IF r.connected THEN Answers(r, s, 2) ELSE {r} : r \in Reconnects(d)}
Retry(d, s, wasInTransaction) ==
  UNION {IF r.connected
           THEN UNION {IF b.errno = "none" THEN Answers(b, s, 2) ELSE {b} :
                         b \in IF wasInTransaction THEN Begins(r, 1) ELSE {r}}
           ELSE {r} : r \in Reconnects(d)}

Attempt(d, s) ==
  UNION {IF a.errno = "lost" THEN Retry(a, s, d.inTransaction) ELSE {a} : a \in Answers(d, s, 1)}

(* execute() and query(). *)
Execute(d, s) == UNION {IF r.connected THEN Attempt(r, s) ELSE {r} : r \in Ready(d)}

(* escape(): its result is empty if there is no connection afterwards.      *)
Escape(d) == {IF r.connected THEN [r EXCEPT !.errno = "none"] ELSE r : r \in Ready(d)}

(* beginTransaction(): one retry, after a reconnect.                        *)
BeginAgain(d) ==
  UNION {IF r.connected THEN Begins(r, 2) ELSE {r} : r \in Reconnects(d)}
BeginTransaction(d) ==
  UNION {IF r.connected
           THEN UNION {IF b.errno = "lost" THEN BeginAgain(b) ELSE {b} : b \in Begins(r, 1)}
           ELSE {r} : r \in Ready(d)}

(* commit() and rollback(): no retry, and a lost connection is given up.    *)
(* Without a connection they fail with the error number 0 and a message.    *)
CommitTransaction(d) ==
  IF ~d.connected THEN {[d EXCEPT !.errno = "other"]}
  ELSE {IF a.errno = "lost" THEN [a EXCEPT !.connected = FALSE, !.inTransaction = FALSE]
                            ELSE [a EXCEPT !.inTransaction = FALSE] : a \in Answers(d, Commit, 1)}

RollbackTransaction(d) ==
  IF ~d.connected THEN {[d EXCEPT !.errno = "other"]}
  ELSE {IF a.errno = "lost" THEN [a EXCEPT !.connected = FALSE, !.inTransaction = FALSE]
                            ELSE [a EXCEPT !.inTransaction = FALSE] : a \in Answers(d, Rollback, 1)}
===============================================================================
