----------------------------- MODULE DataServices -----------------------------
(***************************************************************************)
(* What the server does with the database: UserService (register, login),  *)
(* RecordService::addRecord, and the two queries of ResourceHandler behind *)
(* the login gate of the reactor, for the requests of one connection and   *)
(* the recordings that are filed meanwhile.  The operations run on pool    *)
(* threads (a recording may be filed by the reactor) and share MySQLClient *)
(* without any lock of their own: a step is one call of one of its         *)
(* methods, and the calls of different operations interleave.              *)
(***************************************************************************)
EXTENDS Naturals

CONSTANTS
  Operations,  (* requests and recordings; each happens once *)
  Names,       (* of users *)
  Blank,       (* the empty string, as a key *)
  Nobody,
  MaxFaults    (* bound: faults of the network and of the server *)

ASSUME DataServicesAssumption ==
  /\ MaxFaults \in Nat
  /\ Names \cap Operations = {}
  /\ Blank \notin Names \cup Operations
  /\ Nobody \notin Names \cup Operations \cup {Blank}

VARIABLES
  db,          (* the shared MySQLClient, the server and the rows *)
  kind,        (* what an operation is; "none" before it begins *)
  at,          (* where it is *)
  subject,     (* the name it is about, or the login whose token it presents *)
  blank,       (* escape() had no connection and gave it an empty string *)
  answer,      (* its result, of which the client learns at "done" *)
  loggedIn,    (* the connection's login: _userId and _token *)
  aged,        (* that login is older than the session timeout *)
  alone,       (* history: no other operation was under way with it *)
  disturbed    (* history: a fault hit a call of it whose answer matters *)

opVars == <<kind, subject>>
gateVars == <<loggedIn, aged>>
vars == <<db, at, opVars, blank, answer, gateVars, alone, disturbed>>

(* A session or a recording has a key of its own: the operation.            *)
Client == INSTANCE MySQLClient
  WITH Keys <- Names \cup Operations \cup {Blank}, Writers <- Operations \cup {Nobody}

Queries == {"devices", "recordings"}
Kinds == {"register", "login", "record"} \cup Queries
Places == {"new", "gate", "logout", "admit", "quote", "lookup", "quoteRange", "list",
           "begin", "quoteRow", "insert", "errno", "commit", "rollback", "enter", "done",
           "turnedAway"}
Results == {"none", "SUCCESS", "USER_ALREADY_EXISTS", "USER_NOT_FOUND", "PASSWORD_ERROR",
            "UNAUTHORIZED", "DATABASE_ERROR"}

TypeOK ==
  /\ db \in Client!States
  /\ kind \in [Operations -> Kinds \cup {"none"}]
  /\ at \in [Operations -> Places]
  /\ subject \in [Operations -> Names \cup Operations \cup {Nobody}]
  /\ blank \in [Operations -> BOOLEAN]
  /\ answer \in [Operations -> Results]
  /\ loggedIn \in Operations \cup {Nobody}
  /\ aged \in BOOLEAN
  /\ alone \in [Operations -> BOOLEAN] /\ disturbed \in [Operations -> BOOLEAN]

(* The server starts only when it is connected (main.cc:106).  Some users   *)
(* are registered already.                                                  *)
Init ==
  /\ \E known \in SUBSET Names :
       db = [connected |-> TRUE, inTransaction |-> FALSE, errno |-> "none",
             alive |-> TRUE, open |-> FALSE, pending |-> {}, faults |-> 0,
             stored |-> {[table |-> "users", key |-> n, user |-> Nobody,
                          by |-> Nobody, attempt |-> 1] : n \in known}]
  /\ kind = [o \in Operations |-> "none"]
  /\ at = [o \in Operations |-> "new"]
  /\ subject = [o \in Operations |-> Nobody]
  /\ blank = [o \in Operations |-> FALSE]
  /\ answer = [o \in Operations |-> "none"]
  /\ loggedIn = Nobody /\ aged = FALSE
  /\ alone = [o \in Operations |-> TRUE] /\ disturbed = [o \in Operations |-> FALSE]

-------------------------------------------------------------------------------
(* Auxiliary actions.                                                       *)

Ended == {"done", "turnedAway"}
UnderWay(o) == at[o] \notin Ended \cup {"new"}

Moves(o, from, to) ==
  /\ at[o] = from
  /\ at' = [at EXCEPT ![o] = to]
  /\ UNCHANGED <<opVars, alone>>

Answers(o, result) == answer' = [answer EXCEPT ![o] = result]

(* One call of the client by o with one of its outcomes, and whether it     *)
(* succeeded.                                                               *)
Calls(outcomes) == db' \in outcomes
Succeeds == db'.errno = "none"

(* A fault in a call after which o cannot know what became of it.           *)
Doubts(o) == disturbed' = [disturbed EXCEPT ![o] = @ \/ db'.faults # db.faults]

NoGateNoDoubt == UNCHANGED <<gateVars, disturbed>>

(* escape() of the strings of a statement. *)
Quotes(o, from, to) ==
  /\ Calls(Client!Escape(db))
  /\ blank' = [blank EXCEPT ![o] = ~db'.connected]
  /\ Moves(o, from, to)
  /\ UNCHANGED answer /\ NoGateNoDoubt

(* The name or the token that o looks for. *)
Sought(o) == IF blank[o] THEN Blank ELSE subject[o]

(* The row that o writes. *)
RowInsert(o) ==
  CASE kind[o] = "register" -> Client!Insert("users", Sought(o), Nobody, o)
    [] kind[o] = "login" ->
         Client!Insert("user_sessions", IF blank[o] THEN Blank ELSE o, subject[o], o)
    [] kind[o] = "record" ->
         Client!Insert("records", IF blank[o] THEN Blank ELSE o, Nobody, o)

-------------------------------------------------------------------------------
(* Operations begin.  A query presents the token of a login that succeeded. *)

FirstStep(k) == CASE k = "record" -> "quoteRow" [] k \in Queries -> "gate" [] OTHER -> "quote"

Begin(o) ==
  /\ at[o] = "new"
  /\ \E k \in Kinds :
       /\ kind' = [kind EXCEPT ![o] = k]
       /\ at' = [at EXCEPT ![o] = FirstStep(k)]
       /\ \E s \in CASE k = "record" -> {Nobody}
                     [] k \in Queries -> {l \in Operations : kind[l] = "login" /\ at[l] = "done"
                                                            /\ answer[l] = "SUCCESS"}
                     [] OTHER -> Names :
            subject' = [subject EXCEPT ![o] = s]
  /\ alone' = [p \in Operations |->
                 IF p = o THEN \A q \in Operations : ~UnderWay(q)
                          ELSE alone[p] /\ ~UnderWay(p)]
  /\ UNCHANGED <<db, blank, answer, gateVars, disturbed>>

(* Time passes. *)
Age == loggedIn # Nobody /\ aged' = TRUE
       /\ UNCHANGED <<db, at, opVars, blank, answer, loggedIn, alone, disturbed>>

-------------------------------------------------------------------------------
(* registerUser() and loginUser().                                          *)

QuoteName(o) == kind[o] \notin Queries /\ Quotes(o, "quote", "lookup")

(* userExists(), and the answers it may lead to. *)
FindUser(o) ==
  /\ kind[o] = "register"
  /\ Calls(Client!Execute(db, Client!Select))
  /\ LET exists == Client!Found(db', "users", Sought(o))
     IN  \/ /\ ~Succeeds /\ Answers(o, "DATABASE_ERROR") /\ Moves(o, "lookup", "done")
         \/ /\ Succeeds /\ exists
            /\ Answers(o, "USER_ALREADY_EXISTS") /\ Moves(o, "lookup", "done")
         \/ /\ Succeeds /\ ~exists
            /\ UNCHANGED answer /\ Moves(o, "lookup", "quoteRow")
  /\ UNCHANGED blank /\ NoGateNoDoubt

(* The query of loginUser() and the checks after it. *)
FindLogin(o) ==
  /\ kind[o] = "login"
  /\ Calls(Client!Execute(db, Client!Select))
  /\ LET exists == Client!Found(db', "users", Sought(o))
     IN  \/ /\ ~Succeeds /\ Answers(o, "DATABASE_ERROR") /\ Moves(o, "lookup", "done")
         \/ /\ Succeeds /\ ~exists
            /\ Answers(o, "USER_NOT_FOUND") /\ Moves(o, "lookup", "done")
         \/ /\ Succeeds /\ exists
            /\ Answers(o, "PASSWORD_ERROR") /\ Moves(o, "lookup", "done")
         \/ /\ Succeeds /\ exists
            /\ UNCHANGED answer /\ Moves(o, "lookup", "begin")
  /\ UNCHANGED blank /\ NoGateNoDoubt

BeginTransaction(o) ==
  /\ Calls(Client!BeginTransaction(db))
  /\ \/ Succeeds /\ UNCHANGED answer /\ Moves(o, "begin", "quoteRow")
     \/ ~Succeeds /\ Answers(o, "DATABASE_ERROR") /\ Moves(o, "begin", "done")
  /\ UNCHANGED blank /\ NoGateNoDoubt

QuoteRow(o) == Quotes(o, "quoteRow", "insert")

(* The INSERT of a registration or of a recording: the end of it, but for   *)
(* the reason of a failure, which registerUser() asks for in a second call. *)
Store(o) ==
  /\ kind[o] \in {"register", "record"}
  /\ Calls(Client!Execute(db, RowInsert(o)))
  /\ Doubts(o)
  /\ \/ Succeeds /\ Answers(o, "SUCCESS") /\ Moves(o, "insert", "done")
     \/ /\ ~Succeeds /\ kind[o] = "register"
        /\ UNCHANGED answer /\ Moves(o, "insert", "errno")
     \/ /\ ~Succeeds /\ kind[o] = "record"
        /\ Answers(o, "DATABASE_ERROR") /\ Moves(o, "insert", "done")
  /\ UNCHANGED <<blank, gateVars>>

AskErrno(o) ==
  /\ Answers(o, IF db.errno = "duplicate" THEN "USER_ALREADY_EXISTS" ELSE "DATABASE_ERROR")
  /\ Moves(o, "errno", "done")
  /\ UNCHANGED <<db, blank>> /\ NoGateNoDoubt

(* The INSERT and the commit of loginUser().                                *)
StoreSession(o) ==
  /\ kind[o] = "login"
  /\ Calls(Client!Execute(db, RowInsert(o)))
  /\ Moves(o, "insert", IF Succeeds THEN "commit" ELSE "rollback")
  /\ UNCHANGED <<blank, answer>> /\ NoGateNoDoubt

CommitSkipped(o) == \* mutant: the session is not committed
  /\ Answers(o, "SUCCESS") /\ Moves(o, "commit", "enter")
  /\ UNCHANGED <<db, blank>> /\ NoGateNoDoubt
CommitSession(o) ==
  /\ Calls(Client!CommitTransaction(db))
  /\ Doubts(o)
  /\ \/ Succeeds /\ Answers(o, "SUCCESS") /\ Moves(o, "commit", "enter")
     \/ ~Succeeds /\ UNCHANGED answer /\ Moves(o, "commit", "rollback")
  /\ UNCHANGED <<blank, gateVars>>

RollbackForgotten(o) == \* mutant: a failed login leaves its transaction
  /\ Answers(o, "DATABASE_ERROR") /\ Moves(o, "rollback", "done")
  /\ UNCHANGED <<db, blank>> /\ NoGateNoDoubt
RollbackSession(o) ==
  /\ Calls(Client!RollbackTransaction(db))
  /\ Answers(o, "DATABASE_ERROR") /\ Moves(o, "rollback", "done")
  /\ UNCHANGED blank /\ NoGateNoDoubt

(* markLoggedIn(), after which the answer is sent.                          *)
Enter(o) ==
  /\ Moves(o, "enter", "done")
  /\ loggedIn' = o /\ aged' = FALSE
  /\ UNCHANGED <<db, blank, answer, disturbed>>

-------------------------------------------------------------------------------
(* The login gate and ResourceHandler.                                      *)

Gate(o) ==
  /\ Moves(o, "gate", IF loggedIn # Nobody /\ aged THEN "logout" ELSE "admit")
  /\ UNCHANGED <<db, blank, answer>> /\ NoGateNoDoubt

LogOut(o) ==
  /\ Moves(o, "logout", "admit")
  /\ loggedIn' = Nobody /\ aged' = FALSE
  /\ UNCHANGED <<db, blank, answer, disturbed>>

Admit(o) ==
  /\ \/ loggedIn # Nobody /\ UNCHANGED answer /\ Moves(o, "admit", "quote")
     \/ loggedIn = Nobody /\ Answers(o, "UNAUTHORIZED") /\ Moves(o, "admit", "turnedAway")
  /\ UNCHANGED <<db, blank>> /\ NoGateNoDoubt

QuoteToken(o) == kind[o] \in Queries /\ Quotes(o, "quote", "lookup")

(* hasActiveSession(), false also if the query fails.                       *)
FindSession(o) ==
  /\ kind[o] \in Queries
  /\ Calls(Client!Execute(db, Client!Select))
  /\ Doubts(o)
  /\ IF Succeeds /\ Client!Found(db', "user_sessions", Sought(o))
       THEN /\ Moves(o, "lookup", IF kind[o] = "recordings" THEN "quoteRange" ELSE "list")
            /\ UNCHANGED answer
       ELSE Answers(o, "UNAUTHORIZED") /\ Moves(o, "lookup", "done")
  /\ UNCHANGED <<blank, gateVars>>

QuoteRange(o) == Quotes(o, "quoteRange", "list")

(* listByUser() or queryByDevice().                                         *)
List(o) ==
  /\ Calls(Client!Execute(db, Client!Select))
  /\ Answers(o, IF Succeeds THEN "SUCCESS" ELSE "DATABASE_ERROR")
  /\ Moves(o, "list", "done")
  /\ UNCHANGED blank /\ NoGateNoDoubt

-------------------------------------------------------------------------------
Account(o) ==
  \/ QuoteName(o) \/ FindUser(o) \/ FindLogin(o) \/ BeginTransaction(o) \/ QuoteRow(o)
  \/ Store(o) \/ AskErrno(o) \/ StoreSession(o) \/ CommitSession(o) \/ RollbackSession(o)
  \/ Enter(o)

Query(o) ==
  \/ Gate(o) \/ LogOut(o) \/ Admit(o) \/ QuoteToken(o) \/ FindSession(o)
  \/ QuoteRange(o) \/ List(o)

Next == Age \/ \E o \in Operations : Begin(o) \/ Account(o) \/ Query(o)

Spec == Init /\ [][Next]_vars

-------------------------------------------------------------------------------
(* Properties.                                                              *)

RowsBy(o) == {r \in db.stored : r.by = o}

(* A transaction does not outlive the logins it serves: with none between   *)
(* its beginTransaction() and the end, none is open and none would be       *)
(* started again by a reconnect, so that what others write is committed.    *)
InTransaction(o) ==
  kind[o] = "login" /\ at[o] \in {"quoteRow", "insert", "commit", "rollback"}
NoOrphanTransaction ==
  db.open \/ db.inTransaction => \E o \in Operations : InTransaction(o)

(* An operation that nothing else overlapped and that reports success has   *)
(* its row committed: once, or twice if an answer was lost on the way, and  *)
(* under its own key unless escape() had no connection.                     *)
SuccessIsStored ==
  \A o \in Operations :
    at[o] = "done" /\ answer[o] = "SUCCESS" /\ kind[o] \notin Queries /\ alone[o] =>
      /\ RowsBy(o) # {}
      /\ ~disturbed[o] => \E r \in RowsBy(o) : RowsBy(o) = {r}
      /\ ~blank[o] => \A r \in RowsBy(o) : r.key = IF kind[o] = "register" THEN subject[o] ELSE o

(* One that reports a failure has left nothing, unless the answer to its    *)
(* INSERT or its commit was lost (UserService.cc:192, MySQLClient.cc:268).  *)
FailureLeavesNothing ==
  \A o \in Operations :
    at[o] = "done" /\ answer[o] # "SUCCESS" /\ alone[o] /\ ~disturbed[o] =>
      {r \in Client!Visible(db) : r.by = o} = {}

(* A client that presents the token of a login that was reported as a       *)
(* success and that nothing overlapped gets past hasActiveSession().        *)
TokenIsAccepted ==
  \A o \in Operations :
    at[o] = "done" /\ kind[o] \in Queries /\ answer[o] = "UNAUTHORIZED" /\ ~blank[o]
    /\ ~disturbed[o] =>
      blank[subject[o]] \/ ~alone[subject[o]]

(* UserService.cc:192: the session is written and committed in one          *)
(* transaction.  So a login that reports success has its session stored.    *)
LoginIsOneTransaction ==
  \A o \in Operations :
    at[o] = "done" /\ kind[o] = "login" /\ answer[o] = "SUCCESS" => RowsBy(o) # {}
===============================================================================
