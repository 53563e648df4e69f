-------------------------- MODULE DataServicesProofs --------------------------
(* Theorems about DataServices: type correctness; that no transaction        *)
(* outlives the logins it serves; and, for an operation that nothing         *)
(* overlapped, that its answer tells the truth about its rows, and that the  *)
(* token of a login is accepted.                                             *)
EXTENDS DataServices, TLAPS

(* What every method of the client leaves: a lost session has no            *)
(* transaction, and a client without a connection thinks of none.           *)
Sound(d) ==
  /\ d \in Client!States
  /\ ~d.alive => ~d.open
  /\ ~d.connected => ~d.open /\ ~d.inTransaction

Idle(d) == ~d.open /\ ~d.inTransaction

Keys == Names \cup Operations \cup {Blank}

IsInsert(s) ==
  \E t \in Client!Tables, k \in Keys, u \in Keys \cup {Nobody}, w \in Operations :
    s = Client!Insert(t, k, u, w)

IsStatement(s) ==
  IsInsert(s) \/ s \in {Client!Start, Client!Commit, Client!Rollback, Client!Select}

(* The fields of the client that the server never touches. *)
SameClient(d, e) ==
  e.connected = d.connected /\ e.inTransaction = d.inTransaction /\ e.alive = d.alive
  /\ e.faults = d.faults

LEMMA CommitsOpenTyped ==
  ASSUME NEW c \in Client!States, NEW open \in BOOLEAN, NEW e, e = Client!CommitsOpen(c, open)
  PROVE  e \in Client!States /\ SameClient(c, e) /\ e.errno = c.errno /\ e.open = open
<1>1. c.stored \cup c.pending \in SUBSET Client!Rows
  BY DEF Client!States
<1> QED
  BY <1>1 DEF Client!States, Client!CommitsOpen, SameClient

LEMMA RollsBackTyped ==
  ASSUME NEW c \in Client!States, NEW e, e = Client!RollsBack(c)
  PROVE  e \in Client!States /\ SameClient(c, e) /\ e.errno = c.errno /\ ~e.open
BY DEF Client!States, Client!RollsBack, SameClient

LEMMA ErrnoTyped ==
  ASSUME NEW c \in Client!States, NEW x \in {"none", "duplicate", "lost", "other"},
         NEW e, e = [c EXCEPT !.errno = x]
  PROVE  e \in Client!States /\ SameClient(c, e) /\ e.errno = x /\ e.open = c.open
BY DEF Client!States, SameClient

LEMMA InsertsTyped ==
  ASSUME NEW c \in Client!States, NEW s, IsInsert(s), NEW n \in 1..2, c.errno = "none",
         NEW e, e = Client!Inserts(c, s, n)
  PROVE  e \in Client!States /\ SameClient(c, e) /\ e.errno # "lost" /\ e.open = c.open
<1>1. PICK row : row = Client!RowOf(s, n)
  OBVIOUS
<1>2. row \in Client!Rows
  BY <1>1 DEF IsInsert, Client!Insert, Client!RowOf, Client!Rows, Keys
<1>3. CASE e = [c EXCEPT !.errno = "duplicate"]
  BY <1>3, ErrnoTyped
<1>4. CASE e = [c EXCEPT !.errno = "other"]
  BY <1>4, ErrnoTyped
<1>5. CASE e = [c EXCEPT !.pending = @ \cup {row}]
  <2>1. c.pending \cup {row} \in SUBSET Client!Rows
    BY <1>2 DEF Client!States
  <2> QED
    BY <1>5, <2>1 DEF Client!States, SameClient
<1>6. CASE e = [c EXCEPT !.stored = @ \cup {row}]
  <2>1. c.stored \cup {row} \in SUBSET Client!Rows
    BY <1>2 DEF Client!States
  <2> QED
    BY <1>6, <2>1 DEF Client!States, SameClient
<1> QED
  BY <1>1, <1>3, <1>4, <1>5, <1>6 DEF Client!Inserts

(* What the server does with a statement keeps the state well typed and     *)
(* leaves the fields of the client but errno alone.                         *)
LEMMA PerformedTyped ==
  ASSUME NEW d \in Client!States, NEW s, IsStatement(s), NEW n \in 1..2,
         NEW e, e = Client!Performed(d, s, n)
  PROVE  /\ e \in Client!States /\ SameClient(d, e) /\ e.errno # "lost"
         /\ s.kind # "start" => (e.open => d.open)
         /\ s.kind \in {"commit", "rollback"} => ~e.open
         /\ s.kind # "insert" => e.errno = "none"
<1>1. PICK c : c = [d EXCEPT !.errno = "none"]
  OBVIOUS
<1>2. c \in Client!States /\ SameClient(d, c) /\ c.errno = "none" /\ c.open = d.open
  BY <1>1, ErrnoTyped
<1>3. ASSUME SameClient(c, e) PROVE SameClient(d, e)
  BY <1>2, <1>3 DEF SameClient
<1>4. CASE s = Client!Start
  <2>1. e = Client!CommitsOpen(c, TRUE) /\ s.kind = "start"
    BY <1>1, <1>4 DEF Client!Performed, Client!Start
  <2>2. e \in Client!States /\ SameClient(c, e) /\ e.errno = c.errno
    BY <1>2, <2>1, CommitsOpenTyped
  <2> QED
    BY <2>1, <2>2, <1>2, <1>3
<1>5. CASE s = Client!Commit
  <2>1. e = Client!CommitsOpen(c, FALSE) /\ s.kind = "commit"
    BY <1>1, <1>5 DEF Client!Performed, Client!Commit
  <2>2. e \in Client!States /\ SameClient(c, e) /\ e.errno = c.errno /\ e.open = FALSE
    BY <1>2, <2>1, CommitsOpenTyped
  <2> QED
    BY <2>1, <2>2, <1>2, <1>3
<1>6. CASE s = Client!Rollback
  <2>1. e = Client!RollsBack(c) /\ s.kind = "rollback"
    BY <1>1, <1>6 DEF Client!Performed, Client!Rollback
  <2>2. e \in Client!States /\ SameClient(c, e) /\ e.errno = c.errno /\ ~e.open
    BY <1>2, <2>1, RollsBackTyped
  <2> QED
    BY <2>1, <2>2, <1>2, <1>3
<1>7. CASE s = Client!Select
  <2>1. e = c /\ s.kind = "select"
    BY <1>1, <1>7 DEF Client!Performed, Client!Select
  <2> QED
    BY <2>1, <1>2
<1>8. CASE IsInsert(s)
  <2>1. e = Client!Inserts(c, s, n) /\ s.kind = "insert"
    BY <1>1, <1>8 DEF Client!Performed, IsInsert, Client!Insert
  <2>2. e \in Client!States /\ SameClient(c, e) /\ e.errno # "lost" /\ e.open = c.open
    BY <1>2, <1>8, <2>1, InsertsTyped
  <2> QED
    BY <2>1, <2>2, <1>2, <1>3
<1> QED
  BY <1>4, <1>5, <1>6, <1>7, <1>8 DEF IsStatement

(* A session that is lost loses its transaction. *)
LEMMA LostTyped ==
  ASSUME NEW d \in Client!States, d.faults # MaxFaults, NEW e, e = Client!Lost(d)
  PROVE  /\ e \in Client!States
         /\ e.connected = d.connected /\ e.inTransaction = d.inTransaction
         /\ e.errno = "lost" /\ ~e.alive /\ ~e.open
<1>1. PICK c : c = Client!RollsBack(d) /\ c \in Client!States /\ SameClient(d, c) /\ ~c.open
  BY RollsBackTyped
<1>2. c.faults + 1 \in 0..MaxFaults
  BY <1>1, DataServicesAssumption DEF Client!States, SameClient
<1> QED
  BY <1>1, <1>2 DEF Client!Lost, Client!States, SameClient

(* Whatever comes of a statement, the client's view of it is sound.         *)
LEMMA AnswersSound ==
  ASSUME NEW d, Sound(d), NEW s, IsStatement(s), s.kind = "start" => d.connected,
         NEW n \in 1..2, NEW e \in Client!Answers(d, s, n)
  PROVE  /\ Sound(e)
         /\ e.connected = d.connected /\ e.inTransaction = d.inTransaction
         /\ s.kind # "start" => (e.open => d.open)
         /\ s.kind \in {"commit", "rollback"} => ~e.open
         /\ e.errno = "lost" => ~e.open
         /\ s.kind # "insert" => e.errno \in {"none", "lost"}
<1>1. d \in Client!States
  BY DEF Sound
<1>2. PICK p :
        /\ p = Client!Performed(d, s, n) /\ p \in Client!States
        /\ SameClient(d, p) /\ p.errno # "lost"
        /\ s.kind # "start" => (p.open => d.open)
        /\ s.kind \in {"commit", "rollback"} => ~p.open
        /\ s.kind # "insert" => p.errno = "none"
  BY <1>1, PerformedTyped
<1>3. CASE ~d.alive
  <2>1. e = [d EXCEPT !.errno = "lost"]
    BY <1>3 DEF Client!Answers
  <2>2. e \in Client!States /\ SameClient(d, e) /\ e.errno = "lost" /\ e.open = d.open
    BY <1>1, <2>1, ErrnoTyped
  <2> QED
    BY <1>3, <2>2 DEF Sound, SameClient
<1>4. CASE d.alive
  <2>1. CASE e = p
    BY <1>2, <1>4, <2>1 DEF Sound, SameClient
  <2>2. CASE d.faults # MaxFaults /\ e \in {Client!Lost(d), Client!Lost(p)}
    <3>1. p.faults # MaxFaults
      BY <1>2, <2>2 DEF SameClient
    <3> QED
      BY <1>1, <1>2, <2>2, <3>1, LostTyped DEF Sound, SameClient
  <2>3. CASE /\ d.faults # MaxFaults /\ s.kind = "insert"
             /\ e = [d EXCEPT !.errno = "other", !.faults = @ + 1]
    <3>1. d.faults + 1 \in 0..MaxFaults
      BY <1>1, <2>3, DataServicesAssumption DEF Client!States
    <3> QED
      BY <1>1, <1>4, <2>3, <3>1 DEF Client!States, Sound
  <2> QED
    BY <1>2, <1>4, <2>1, <2>2, <2>3 DEF Client!Answers
<1> QED
  BY <1>1, <1>3, <1>4 DEF Client!States

(* A reconnect leaves nothing of the old session. *)
LEMMA ReconnectsSound ==
  ASSUME NEW d, Sound(d), NEW e \in Client!Reconnects(d)
  PROVE  Sound(e) /\ Idle(e) /\ (e.connected => e.errno = "none")
         /\ (~e.connected => e.errno = "lost")
<1>1. PICK b : b = Client!RollsBack(d) /\ b \in Client!States /\ SameClient(d, b) /\ ~b.open
  BY RollsBackTyped DEF Sound
<1>2. PICK c :
        c = [b EXCEPT !.connected = FALSE, !.inTransaction = FALSE, !.alive = FALSE]
  OBVIOUS
<1>3. /\ c \in Client!States /\ c.faults = d.faults
      /\ ~c.connected /\ ~c.inTransaction /\ ~c.alive /\ ~c.open
  BY <1>1, <1>2 DEF Client!States, SameClient
<1>4. CASE e = [c EXCEPT !.connected = TRUE, !.alive = TRUE, !.errno = "none"]
  BY <1>3, <1>4 DEF Client!States, Sound, Idle
<1>5. CASE d.faults # MaxFaults /\ e = [c EXCEPT !.errno = "lost", !.faults = @ + 1]
  <2>1. c.faults + 1 \in 0..MaxFaults
    BY <1>3, <1>5, DataServicesAssumption DEF Client!States
  <2> QED
    BY <1>3, <1>5, <2>1 DEF Client!States, Sound, Idle
<1> QED
  BY <1>1, <1>2, <1>4, <1>5 DEF Client!Reconnects

(* The methods of the client. *)

LEMMA ReadySound ==
  ASSUME NEW d, Sound(d), NEW e \in Client!Ready(d)
  PROVE  Sound(e) /\ (Idle(d) => Idle(e)) /\ (~e.connected => Idle(e) /\ e.errno = "lost")
BY ReconnectsSound DEF Client!Ready

LEMMA BeginsSound ==
  ASSUME NEW d, Sound(d), d.connected, NEW n \in 1..2, NEW e \in Client!Begins(d, n)
  PROVE  /\ Sound(e) /\ e.connected /\ e.errno \in {"none", "lost"}
         /\ e.errno = "lost" => ~e.open /\ e.inTransaction = d.inTransaction
<1>1. IsStatement(Client!Start) /\ Client!Start.kind = "start"
  BY DEF IsStatement, Client!Start
<1>2. PICK a \in Client!Answers(d, Client!Start, n) :
        e = IF a.errno = "none" THEN [a EXCEPT !.inTransaction = TRUE] ELSE a
  BY DEF Client!Begins
<1>3. /\ Sound(a) /\ a.connected /\ a.inTransaction = d.inTransaction
      /\ a.errno = "lost" => ~a.open
      /\ a.errno \in {"none", "lost"}
  BY <1>1, AnswersSound
<1>4. CASE a.errno = "lost"
  BY <1>2, <1>3, <1>4
<1>5. CASE a.errno = "none"
  <2>1. e = [a EXCEPT !.inTransaction = TRUE]
    BY <1>2, <1>5
  <2> QED
    BY <1>3, <1>5, <2>1 DEF Sound, Client!States
<1> QED
  BY <1>3, <1>4, <1>5

(* A retry leaves a transaction only if there was one before. *)
LEMMA RetrySound ==
  ASSUME NEW d, Sound(d), NEW s, IsStatement(s), s.kind # "start", NEW was \in BOOLEAN,
         NEW e \in Client!Retry(d, s, was)
  PROVE  Sound(e) /\ (~was => Idle(e))
<1>1. PICK r \in Client!Reconnects(d) :
        e \in IF r.connected
                THEN UNION {IF b.errno = "none" THEN Client!Answers(b, s, 2) ELSE {b} :
                              b \in IF was THEN Client!Begins(r, 1) ELSE {r}}
                ELSE {r}
  BY DEF Client!Retry
<1>2. Sound(r) /\ Idle(r)
  BY ReconnectsSound
<1>3. CASE ~r.connected
  BY <1>1, <1>2, <1>3
<1>4. CASE r.connected
  <2>1. PICK b \in IF was THEN Client!Begins(r, 1) ELSE {r} :
          e \in IF b.errno = "none" THEN Client!Answers(b, s, 2) ELSE {b}
    BY <1>1, <1>4
  <2>2. Sound(b) /\ (~was => Idle(b))
    BY <1>2, <1>4, <2>1, BeginsSound
  <2>3. CASE b.errno = "none"
    <3>1. e \in Client!Answers(b, s, 2)
      BY <2>1, <2>3
    <3>2. Sound(e) /\ e.inTransaction = b.inTransaction /\ (e.open => b.open)
      BY <2>2, <3>1, AnswersSound
    <3> QED
      BY <2>2, <3>2 DEF Idle
  <2>4. CASE b.errno # "none"
    BY <2>1, <2>2, <2>4
  <2> QED
    BY <2>3, <2>4
<1> QED
  BY <1>3, <1>4

(* execute() and query() never begin a transaction on their own. *)
LEMMA ExecuteSound ==
  ASSUME NEW d, Sound(d), NEW s, IsStatement(s), s.kind # "start",
         NEW e \in Client!Execute(d, s)
  PROVE  Sound(e) /\ (Idle(d) => Idle(e))
<1>1. PICK r \in Client!Ready(d) : e \in IF r.connected THEN Client!Attempt(r, s) ELSE {r}
  BY DEF Client!Execute
<1>2. Sound(r) /\ (Idle(d) => Idle(r))
  BY ReadySound
<1>3. CASE r.connected
  <2>1. PICK a \in Client!Answers(r, s, 1) :
          e \in IF a.errno = "lost" THEN Client!Retry(a, s, r.inTransaction) ELSE {a}
    BY <1>1, <1>3 DEF Client!Attempt
  <2>2. Sound(a) /\ a.inTransaction = r.inTransaction /\ (a.open => r.open)
    BY <1>2, AnswersSound
  <2>3. CASE a.errno = "lost"
    <3>1. e \in Client!Retry(a, s, r.inTransaction) /\ r.inTransaction \in BOOLEAN
      BY <1>2, <2>1, <2>3 DEF Sound, Client!States
    <3>2. Sound(e) /\ (~r.inTransaction => Idle(e))
      BY <2>2, <3>1, RetrySound
    <3> QED
      BY <1>2, <3>2 DEF Idle
  <2>4. CASE a.errno # "lost"
    BY <1>2, <2>1, <2>2, <2>4 DEF Idle
  <2> QED
    BY <2>3, <2>4
<1>4. CASE ~r.connected
  BY <1>1, <1>2, <1>4
<1> QED
  BY <1>3, <1>4

LEMMA EscapeSound ==
  ASSUME NEW d, Sound(d), NEW e \in Client!Escape(d)
  PROVE  Sound(e) /\ (Idle(d) => Idle(e))
<1>1. PICK r \in Client!Ready(d) : e = IF r.connected THEN [r EXCEPT !.errno = "none"] ELSE r
  BY DEF Client!Escape
<1>2. Sound(r) /\ (Idle(d) => Idle(r))
  BY ReadySound
<1>3. CASE e = [r EXCEPT !.errno = "none"]
  <2>1. e \in Client!States /\ SameClient(r, e) /\ e.open = r.open
    BY <1>2, <1>3, ErrnoTyped DEF Sound
  <2> QED
    BY <1>2, <2>1 DEF Sound, SameClient, Idle
<1> QED
  BY <1>1, <1>2, <1>3

(* A beginTransaction() that fails leaves no transaction. *)
LEMMA BeginSound ==
  ASSUME NEW d, Sound(d), NEW e \in Client!BeginTransaction(d)
  PROVE  Sound(e) /\ (e.errno # "none" => Idle(e))
<1>1. PICK r \in Client!Ready(d) :
        e \in IF r.connected
                THEN UNION {IF b.errno = "lost" THEN Client!BeginAgain(b) ELSE {b} :
                              b \in Client!Begins(r, 1)}
                ELSE {r}
  BY DEF Client!BeginTransaction
<1>2. Sound(r) /\ (~r.connected => Idle(r))
  BY ReadySound
<1>3. CASE ~r.connected
  BY <1>1, <1>2, <1>3
<1>4. CASE r.connected
  <2>1. PICK b \in Client!Begins(r, 1) :
          e \in IF b.errno = "lost" THEN Client!BeginAgain(b) ELSE {b}
    BY <1>1, <1>4
  <2>2. Sound(b) /\ b.errno \in {"none", "lost"}
    BY <1>2, <1>4, BeginsSound
  <2>3. CASE b.errno = "none"
    BY <2>1, <2>2, <2>3
  <2>4. CASE b.errno = "lost"
    <3>1. PICK q \in Client!Reconnects(b) :
            e \in IF q.connected THEN Client!Begins(q, 2) ELSE {q}
      BY <2>1, <2>4 DEF Client!BeginAgain
    <3>2. Sound(q) /\ Idle(q)
      BY <2>2, ReconnectsSound
    <3>3. CASE q.connected
      <4>1. e \in Client!Begins(q, 2)
        BY <3>1, <3>3
      <4>2. /\ Sound(e) /\ e.errno \in {"none", "lost"}
            /\ e.errno = "lost" => ~e.open /\ e.inTransaction = q.inTransaction
        BY <3>2, <3>3, <4>1, BeginsSound
      <4> QED
        BY <3>2, <4>2 DEF Idle
    <3> QED
      BY <3>1, <3>2, <3>3
  <2> QED
    BY <2>2, <2>3, <2>4
<1> QED
  BY <1>3, <1>4

(* commit() and rollback() end the transaction, whatever the server says;   *)
(* a commit() without a connection at least reports that it failed.         *)
LEMMA EndSound ==
  ASSUME NEW d, Sound(d), NEW s \in {Client!Commit, Client!Rollback},
         NEW a \in Client!Answers(d, s, 1),
         NEW e, e = IF a.errno = "lost" THEN [a EXCEPT !.connected = FALSE, !.inTransaction = FALSE]
                                        ELSE [a EXCEPT !.inTransaction = FALSE]
  PROVE  Sound(e) /\ Idle(e)
<1>1. IsStatement(s) /\ s.kind \in {"commit", "rollback"}
  BY DEF IsStatement, Client!Commit, Client!Rollback
<1>2. Sound(a) /\ ~a.open
  BY <1>1, AnswersSound
<1>3. CASE e = [a EXCEPT !.connected = FALSE, !.inTransaction = FALSE]
  BY <1>2, <1>3 DEF Sound, Idle, Client!States
<1>4. CASE e = [a EXCEPT !.inTransaction = FALSE]
  BY <1>2, <1>4 DEF Sound, Idle, Client!States
<1> QED
  BY <1>3, <1>4

LEMMA OfflineSound ==
  ASSUME NEW d, Sound(d), ~d.connected, NEW e, e = [d EXCEPT !.errno = "other"]
  PROVE  Sound(e) /\ Idle(e) /\ e.errno = "other"
<1>1. e \in Client!States /\ SameClient(d, e) /\ e.errno = "other" /\ e.open = d.open
  BY ErrnoTyped DEF Sound
<1> QED
  BY <1>1 DEF Sound, SameClient, Idle

LEMMA CommitSound ==
  ASSUME NEW d, Sound(d), NEW e \in Client!CommitTransaction(d)
  PROVE  Sound(e) /\ Idle(e)
BY EndSound, OfflineSound DEF Client!CommitTransaction

LEMMA RollbackSound ==
  ASSUME NEW d, Sound(d), NEW e \in Client!RollbackTransaction(d)
  PROVE  Sound(e) /\ Idle(e)
BY EndSound, OfflineSound DEF Client!RollbackTransaction

-------------------------------------------------------------------------------
(* The inductive invariant. *)

(* Type correctness but for db, in two parts; a registration or login  *)
(* is about a name; only a login begins a transaction, and no query inserts. *)
Control ==
  /\ kind \in [Operations -> Kinds \cup {"none"}]
  /\ at \in [Operations -> Places]
  /\ subject \in [Operations -> Names \cup Operations \cup {Nobody}]

Outcomes ==
  /\ blank \in [Operations -> BOOLEAN]
  /\ answer \in [Operations -> Results]
  /\ loggedIn \in Operations \cup {Nobody}
  /\ aged \in BOOLEAN
  /\ alone \in [Operations -> BOOLEAN] /\ disturbed \in [Operations -> BOOLEAN]

Program ==
  \A o \in Operations :
    /\ kind[o] \in {"register", "login"} => subject[o] \in Names
    /\ at[o] = "begin" => kind[o] = "login"
    /\ at[o] = "insert" => kind[o] \in {"register", "login", "record"}
    /\ at[o] = "quoteRow" => kind[o] \in {"register", "login", "record"}

IInv == Sound(db) /\ Control /\ Outcomes /\ Program /\ NoOrphanTransaction

(* What the operations do to the client, in one place: the transaction it   *)
(* is in afterwards was there before, or belongs to the login that acts.    *)
LEMMA CallsSound ==
  ASSUME IInv, NEW o \in Operations, Account(o) \/ Query(o)
  PROVE  Sound(db') /\ (Idle(db) => Idle(db') \/ InTransaction(o)')
<1> USE DEF IInv
<1>1. IsStatement(Client!Select) /\ Client!Select.kind # "start"
  BY DEF IsStatement, Client!Select
<1>2. CASE QuoteName(o) \/ QuoteRow(o) \/ QuoteToken(o) \/ QuoteRange(o)
  BY <1>2, EscapeSound DEF QuoteName, QuoteRow, QuoteToken, QuoteRange, Quotes, Calls
<1>3. CASE FindUser(o) \/ FindLogin(o) \/ FindSession(o) \/ List(o)
  <2>1. db' \in Client!Execute(db, Client!Select)
    BY <1>3 DEF FindUser, FindLogin, FindSession, List, Calls
  <2> QED
    BY <2>1, <1>1, ExecuteSound
<1>4. CASE Store(o) \/ StoreSession(o)
  <2>1. at[o] = "insert" /\ db' \in Client!Execute(db, RowInsert(o))
    BY <1>4 DEF Store, StoreSession, Calls, Moves
  <2>2. Sought(o) \in Keys \/ kind[o] = "record"
    BY <2>1 DEF Sought, Program, Keys
  <2>3. /\ "users" \in Client!Tables /\ "user_sessions" \in Client!Tables
        /\ "records" \in Client!Tables
    BY DEF Client!Tables
  <2>4. IsInsert(RowInsert(o))
    <3>1. CASE kind[o] = "register"
      <4>1. RowInsert(o) = Client!Insert("users", Sought(o), Nobody, o)
        BY <3>1 DEF RowInsert
      <4> QED
        BY <4>1, <2>2, <2>3, <3>1 DEF IsInsert
    <3>2. CASE kind[o] = "login"
      <4>1. RowInsert(o) = Client!Insert("user_sessions", IF blank[o] THEN Blank ELSE o,
                                         subject[o], o)
        BY <3>2 DEF RowInsert
      <4>2. (IF blank[o] THEN Blank ELSE o) \in Keys /\ subject[o] \in Keys
        BY <3>2 DEF Keys, Program
      <4> QED
        BY <4>1, <4>2, <2>3 DEF IsInsert
    <3>3. CASE kind[o] = "record"
      <4>1. RowInsert(o) = Client!Insert("records", IF blank[o] THEN Blank ELSE o, Nobody, o)
        BY <3>3 DEF RowInsert
      <4>2. (IF blank[o] THEN Blank ELSE o) \in Keys
        BY DEF Keys
      <4> QED
        BY <4>1, <4>2, <2>3 DEF IsInsert
    <3> QED
      BY <2>1, <3>1, <3>2, <3>3 DEF Program
  <2>5. IsStatement(RowInsert(o)) /\ RowInsert(o).kind # "start"
    BY <2>4 DEF IsStatement, IsInsert, Client!Insert
  <2> QED
    BY <2>1, <2>5, ExecuteSound
<1>5. CASE BeginTransaction(o)
  <2>1. db' \in Client!BeginTransaction(db) /\ kind[o] = "login" /\ kind' = kind
    BY <1>5 DEF BeginTransaction, Calls, Moves, Program, opVars
  <2>2. Sound(db') /\ (db'.errno # "none" => Idle(db'))
    BY <2>1, BeginSound
  <2>3. db'.errno = "none" => at'[o] = "quoteRow"
    BY <1>5 DEF BeginTransaction, Moves, Succeeds, Control
  <2> QED
    BY <2>1, <2>2, <2>3 DEF InTransaction
<1>6. CASE CommitSession(o) \/ RollbackSession(o)
  BY <1>6, CommitSound, RollbackSound DEF CommitSession, RollbackSession, Calls
<1>7. CASE AskErrno(o) \/ Enter(o) \/ Gate(o) \/ LogOut(o) \/ Admit(o)
  BY <1>7 DEF AskErrno, Enter, Gate, LogOut, Admit
<1> QED
  BY <1>2, <1>3, <1>4, <1>5, <1>6, <1>7 DEF Account, Query

(* A login leaves its transaction only by ending it. *)
LEMMA LeavesIdle ==
  ASSUME IInv, NEW o \in Operations, Account(o) \/ Query(o), InTransaction(o)
  PROVE  InTransaction(o)' \/ Idle(db')
<1> USE DEF IInv, InTransaction
<1>1. CASE CommitSession(o) \/ RollbackSession(o)
  BY <1>1, CommitSound, RollbackSound DEF CommitSession, RollbackSession, Calls
<1>2. CASE QuoteRow(o)
  BY <1>2 DEF QuoteRow, Quotes, Moves, opVars, Control
<1>3. CASE StoreSession(o)
  BY <1>3 DEF StoreSession, Moves, opVars, Control
<1>4. at[o] \in {"quoteRow", "insert", "commit", "rollback"} /\ kind[o] = "login"
  OBVIOUS
<1>5. ~(QuoteName(o) \/ FindUser(o) \/ FindLogin(o) \/ BeginTransaction(o) \/ Store(o)
        \/ AskErrno(o) \/ Enter(o))
  BY <1>4 DEF QuoteName, FindUser, FindLogin, BeginTransaction, Store, AskErrno, Enter, Quotes, Moves
<1>6. ~Query(o)
  BY <1>4 DEF Query, Gate, LogOut, Admit, QuoteToken, FindSession, QuoteRange, List, Quotes, Moves
<1> QED
  BY <1>1, <1>2, <1>3, <1>5, <1>6 DEF Account

(* An operation touches its own control state only. *)
LEMMA MovesOne ==
  ASSUME Control, NEW o \in Operations, Account(o) \/ Query(o)
  PROVE  /\ kind' = kind /\ subject' = subject /\ alone' = alone
         /\ \E to \in Places : at' = [at EXCEPT ![o] = to]
<1>1. CASE Account(o)
  BY <1>1 DEF Account, QuoteName, FindUser, FindLogin, BeginTransaction, QuoteRow, Store, AskErrno,
              StoreSession, CommitSession, RollbackSession, Enter, Quotes, Moves, opVars, Places
<1>2. CASE Query(o)
  BY <1>2 DEF Query, Gate, LogOut, Admit, QuoteToken, FindSession, QuoteRange, List, Quotes, Moves,
              opVars, Places
<1> QED
  BY <1>1, <1>2

LEMMA ControlKept == ASSUME IInv, Next PROVE Control'
<1> USE DEF IInv, Control
<1>1. CASE Age
  BY <1>1 DEF Age, opVars
<1>2. ASSUME NEW o \in Operations, Account(o) \/ Query(o) PROVE Control'
  BY <1>2, MovesOne
<1>3. ASSUME NEW o \in Operations, Begin(o) PROVE Control'
  <2>1. PICK k \in Kinds :
          /\ kind' = [kind EXCEPT ![o] = k] /\ at' = [at EXCEPT ![o] = FirstStep(k)]
          /\ \E x \in Names \cup Operations \cup {Nobody} : subject' = [subject EXCEPT ![o] = x]
    BY <1>3 DEF Begin
  <2>2. FirstStep(k) \in Places
    BY DEF FirstStep, Places
  <2> QED
    BY <2>1, <2>2
<1> QED
  BY <1>1, <1>2, <1>3 DEF Next

LEMMA OutcomesKept == ASSUME IInv, Next PROVE Outcomes'
<1> USE DEF IInv, Outcomes
<1>1. CASE Age
  BY <1>1 DEF Age
<1>2. ASSUME NEW o \in Operations, Begin(o) PROVE Outcomes'
  BY <1>2 DEF Begin, gateVars, UnderWay
<1>3. ASSUME NEW o \in Operations, Account(o) \/ Query(o) PROVE Outcomes'
  <2> USE DEF Moves, Results
  <2>1. CASE QuoteName(o) \/ QuoteRow(o) \/ QuoteToken(o) \/ QuoteRange(o)
    <3>1. PICK b \in BOOLEAN : blank' = [blank EXCEPT ![o] = b]
      BY <2>1 DEF QuoteName, QuoteRow, QuoteToken, QuoteRange, Quotes
    <3> QED
      BY <2>1, <3>1 DEF QuoteName, QuoteRow, QuoteToken, QuoteRange, Quotes, NoGateNoDoubt, gateVars
  <2>2. CASE FindUser(o) \/ FindLogin(o) \/ BeginTransaction(o) \/ AskErrno(o)
    BY <2>2 DEF FindUser, FindLogin, BeginTransaction, AskErrno, Answers, NoGateNoDoubt, gateVars
  <2>3. CASE StoreSession(o) \/ RollbackSession(o) \/ Gate(o) \/ Admit(o) \/ List(o)
    BY <2>3 DEF StoreSession, RollbackSession, Gate, Admit, List, Answers, NoGateNoDoubt, gateVars
  <2>4. CASE Store(o) \/ CommitSession(o) \/ FindSession(o)
    <3>1. PICK b \in BOOLEAN : disturbed' = [disturbed EXCEPT ![o] = b]
      BY <2>4 DEF Store, CommitSession, FindSession, Doubts
    <3> QED
      BY <2>4, <3>1 DEF Store, CommitSession, FindSession, Answers, gateVars
  <2>5. CASE Enter(o) \/ LogOut(o)
    BY <2>5 DEF Enter, LogOut
  <2> QED
    BY <1>3, <2>1, <2>2, <2>3, <2>4, <2>5 DEF Account, Query
<1> QED
  BY <1>1, <1>2, <1>3 DEF Next

LEMMA ProgramKept == ASSUME IInv, Next PROVE Program'
<1> USE DEF IInv, Control
<1>1. CASE Age
  BY <1>1 DEF Age, opVars, Program
<1>2. ASSUME NEW o \in Operations, Begin(o) PROVE Program'
  <2>1. PICK k \in Kinds :
          /\ kind' = [kind EXCEPT ![o] = k] /\ at' = [at EXCEPT ![o] = FirstStep(k)]
          /\ \E x : subject' = [subject EXCEPT ![o] = x] /\ (k \in {"register", "login"} => x \in Names)
    BY <1>2 DEF Begin, Kinds, Queries
  <2>2. /\ FirstStep(k) \notin {"begin", "insert"}
        /\ FirstStep(k) = "quoteRow" => k = "record"
    BY DEF FirstStep
  <2> QED
    BY <2>1, <2>2 DEF Program
<1>3. ASSUME NEW o \in Operations, Account(o) \/ Query(o) PROVE Program'
  <2>1. PICK to \in Places : at' = [at EXCEPT ![o] = to]
    BY <1>3, MovesOne
  <2>2. kind' = kind /\ subject' = subject
    BY <1>3, MovesOne
  <2>3. /\ to = "begin" => kind[o] = "login"
        /\ to \in {"insert", "quoteRow"} => kind[o] \in {"register", "login", "record"}
    <3>1. CASE QuoteName(o) \/ QuoteRow(o) \/ QuoteToken(o) \/ QuoteRange(o)
      BY <2>1, <3>1 DEF QuoteName, QuoteRow, QuoteToken, QuoteRange, Quotes, Moves, Program
    <3>2. CASE FindUser(o) \/ FindLogin(o) \/ BeginTransaction(o) \/ AskErrno(o)
      BY <2>1, <3>2 DEF FindUser, FindLogin, BeginTransaction, AskErrno, Moves, Program
    <3>3. CASE StoreSession(o) \/ RollbackSession(o) \/ Store(o) \/ CommitSession(o)
      BY <2>1, <3>3 DEF StoreSession, RollbackSession, Store, CommitSession, Moves
    <3>4. CASE Gate(o) \/ Admit(o) \/ List(o) \/ FindSession(o) \/ Enter(o) \/ LogOut(o)
      BY <2>1, <3>4 DEF Gate, Admit, List, FindSession, Enter, LogOut, Moves
    <3> QED
      BY <1>3, <3>1, <3>2, <3>3, <3>4 DEF Account, Query
  <2> QED
    BY <2>1, <2>2, <2>3 DEF Program
<1> QED
  BY <1>1, <1>2, <1>3 DEF Next

LEMMA TransactionKept == ASSUME IInv, Next PROVE Sound(db') /\ NoOrphanTransaction'
<1> USE DEF IInv, NoOrphanTransaction, Idle
<1>1. CASE Age
  BY <1>1 DEF Age, opVars, InTransaction
<1>2. ASSUME NEW o \in Operations, Begin(o) PROVE Sound(db') /\ NoOrphanTransaction'
  <2>1. db' = db
    BY <1>2 DEF Begin
  <2>2. ASSUME NEW p \in Operations, InTransaction(p) PROVE InTransaction(p)'
    BY <1>2, <2>2 DEF Begin, InTransaction, Control
  <2> QED
    BY <2>1, <2>2
<1>3. ASSUME NEW o \in Operations, Account(o) \/ Query(o)
      PROVE  Sound(db') /\ NoOrphanTransaction'
  <2>1. Sound(db') /\ (Idle(db) => Idle(db') \/ InTransaction(o)')
    BY <1>3, CallsSound
  <2>2. ASSUME NEW p \in Operations, InTransaction(p), p # o PROVE InTransaction(p)'
    BY <1>3, <2>2, MovesOne DEF InTransaction, Control
  <2>3. InTransaction(o) => InTransaction(o)' \/ Idle(db')
    BY <1>3, LeavesIdle
  <2> QED
    BY <2>1, <2>2, <2>3
<1> QED
  BY <1>1, <1>2, <1>3 DEF Next

LEMMA IInvAlways == Spec => []IInv
<1>1. ASSUME Init PROVE IInv
  <2>1. PICK known \in SUBSET Names :
          db = [connected |-> TRUE, inTransaction |-> FALSE, errno |-> "none",
                alive |-> TRUE, open |-> FALSE, pending |-> {}, faults |-> 0,
                stored |-> {[table |-> "users", key |-> n, user |-> Nobody,
                             by |-> Nobody, attempt |-> 1] : n \in known}]
    BY <1>1 DEF Init
  <2>2. {[table |-> "users", key |-> n, user |-> Nobody, by |-> Nobody, attempt |-> 1] :
           n \in known} \in SUBSET Client!Rows
    BY DEF Client!Rows, Client!Tables
  <2>3. 0 \in 0..MaxFaults
    BY DataServicesAssumption
  <2>4. Sound(db) /\ Idle(db)
    BY <2>1, <2>2, <2>3 DEF Sound, Idle, Client!States
  <2>5. Control /\ Outcomes /\ Program
    BY <1>1 DEF Init, Control, Outcomes, Program, Kinds, Places, Results
  <2> QED
    BY <2>4, <2>5 DEF IInv, NoOrphanTransaction, Idle
<1>2. ASSUME IInv, [Next]_vars PROVE IInv'
  <2>1. CASE Next
    BY <1>2, <2>1, ControlKept, OutcomesKept, ProgramKept, TransactionKept DEF IInv
  <2>2. CASE UNCHANGED vars
    BY <1>2, <2>2 DEF IInv, vars, opVars, gateVars, Control, Outcomes, Program,
                      NoOrphanTransaction, InTransaction
  <2> QED
    BY <1>2, <2>1, <2>2
<1> QED
  BY <1>1, <1>2, PTL DEF Spec

-------------------------------------------------------------------------------
(* Every reachable state is well typed.                                     *)
THEOREM TypeCorrect == Spec => []TypeOK
<1>1. IInv => TypeOK
  BY DEF IInv, Sound, Control, Outcomes, TypeOK
<1> QED
  BY <1>1, IInvAlways, PTL

(* No transaction outlives the logins it serves: for any number of          *)
(* operations, in any interleaving, under any faults (UserService.cc:193    *)
(* to 205 over MySQLClient.cc).                                             *)
THEOREM TransactionsEnd == Spec => []NoOrphanTransaction
<1>1. IInv => NoOrphanTransaction
  BY DEF IInv
<1> QED
  BY <1>1, IInvAlways, PTL
-------------------------------------------------------------------------------
(* What the methods of the client do to the rows.                           *)

(* Between d and e no stored row was lost, the only rows added are of R, no *)
(* fault was undone, and rows wait for a commit only in a transaction.      *)
Tidy(d) == ~d.open => d.pending = {}

Later(d, e, R) ==
  /\ d.stored \subseteq e.stored
  /\ e.stored \subseteq d.stored \cup d.pending \cup R
  /\ e.pending \subseteq d.pending \cup R
  /\ d.faults <= e.faults
  /\ Tidy(e)

(* The rows a statement may add: one for each attempt. *)
NewRows(s) == IF s.kind = "insert" THEN {Client!RowOf(s, 1), Client!RowOf(s, 2)} ELSE {}

InSession(d) == d.connected /\ d.alive /\ d.open /\ d.inTransaction

By(d, w) == {r \in Client!Visible(d) : r.by = w}

LEMMA LaterTransitive ==
  ASSUME NEW d, NEW e, NEW f, NEW R, NEW S, NEW T, Later(d, e, R), Later(e, f, S),
         R \subseteq T, S \subseteq T, Sound(d), Sound(e), Sound(f)
  PROVE  Later(d, f, T) /\ (f.faults = d.faults => e.faults = d.faults /\ f.faults = e.faults)
<1>1. d.faults \in Nat /\ e.faults \in Nat /\ f.faults \in Nat
  BY DataServicesAssumption DEF Sound, Client!States
<1>2. d.faults <= e.faults /\ e.faults <= f.faults
  BY DEF Later
<1>3. d.stored \subseteq f.stored /\ f.pending \subseteq d.pending \cup T /\ Tidy(f)
  BY DEF Later
<1>4. f.stored \subseteq d.stored \cup d.pending \cup T
  BY DEF Later
<1> QED
  BY <1>1, <1>2, <1>3, <1>4 DEF Later

LEMMA LaterItself ==
  ASSUME NEW d, NEW R, Sound(d), Tidy(d)
  PROVE  Later(d, d, R)
<1>1. d.faults \in Nat
  BY DataServicesAssumption DEF Sound, Client!States
<1> QED
  BY <1>1 DEF Later

(* One row more, where the server keeps it. *)
LEMMA InsertsRow ==
  ASSUME NEW c \in Client!States, NEW s, IsInsert(s), NEW n \in 1..2, c.errno = "none",
         NEW e, e = Client!Inserts(c, s, n)
  PROVE  \/ e.errno \in {"duplicate", "other"} /\ e.stored = c.stored /\ e.pending = c.pending
         \/ /\ e.errno = "none" /\ c.open
            /\ e.stored = c.stored /\ e.pending = c.pending \cup {Client!RowOf(s, n)}
         \/ /\ e.errno = "none" /\ ~c.open
            /\ e.stored = c.stored \cup {Client!RowOf(s, n)} /\ e.pending = c.pending
<1>1. PICK row : row = Client!RowOf(s, n)
  OBVIOUS
<1>2. CASE e = [c EXCEPT !.errno = "duplicate"]
  BY <1>2 DEF Client!States
<1>3. CASE e = [c EXCEPT !.errno = "other"]
  BY <1>3 DEF Client!States
<1>4. CASE c.open /\ e = [c EXCEPT !.pending = @ \cup {row}]
  BY <1>1, <1>4 DEF Client!States
<1>5. CASE ~c.open /\ e = [c EXCEPT !.stored = @ \cup {row}]
  BY <1>1, <1>5 DEF Client!States
<1> QED
  BY <1>1, <1>2, <1>3, <1>4, <1>5 DEF Client!Inserts

(* What a statement that is performed does to the rows. *)
LEMMA PerformedRows ==
  ASSUME NEW d, Sound(d), Tidy(d), NEW s, IsStatement(s), NEW n \in 1..2,
         NEW e, e = Client!Performed(d, s, n)
  PROVE  /\ Later(d, e, NewRows(s)) /\ e.faults = d.faults
         /\ s.kind = "start" => e.open /\ e.pending = {}
         /\ s.kind \in {"start", "commit"} => e.stored = d.stored \cup d.pending
         /\ s.kind = "insert" =>
              \/ /\ e.errno \in {"duplicate", "other"} /\ e.open = d.open
                 /\ e.stored = d.stored /\ e.pending = d.pending
              \/ /\ e.errno = "none" /\ d.open /\ e.open
                 /\ e.stored = d.stored /\ e.pending = d.pending \cup {Client!RowOf(s, n)}
              \/ /\ e.errno = "none" /\ ~d.open /\ ~e.open
                 /\ e.stored = d.stored \cup {Client!RowOf(s, n)} /\ e.pending = d.pending
<1>1. PICK c : c = [d EXCEPT !.errno = "none"]
  OBVIOUS
<1>2. /\ c \in Client!States /\ c.errno = "none" /\ c.open = d.open
      /\ c.stored = d.stored /\ c.pending = d.pending /\ c.faults = d.faults
  BY <1>1 DEF Sound, Client!States
<1>3. d.faults \in Nat
  BY DataServicesAssumption DEF Sound, Client!States
<1>4. CASE s = Client!Start
  <2>1. e = Client!CommitsOpen(c, TRUE) /\ s.kind = "start"
    BY <1>1, <1>4 DEF Client!Performed, Client!Start
  <2>2. /\ e.stored = c.stored \cup c.pending /\ e.pending = {} /\ e.open
        /\ e.faults = c.faults
    BY <1>2, <2>1 DEF Client!CommitsOpen, Client!States
  <2>3. e.stored = d.stored \cup d.pending /\ e.pending = {} /\ e.faults = d.faults
    BY <1>2, <2>2
  <2>4. Later(d, e, NewRows(s))
    BY <1>3, <2>3 DEF Later, Tidy
  <2> QED
    BY <2>1, <2>2, <2>3, <2>4
<1>5. CASE s = Client!Commit
  <2>1. e = Client!CommitsOpen(c, FALSE) /\ s.kind = "commit"
    BY <1>1, <1>5 DEF Client!Performed, Client!Commit
  <2>2. /\ e.stored = c.stored \cup c.pending /\ e.pending = {} /\ e.faults = c.faults
    BY <1>2, <2>1 DEF Client!CommitsOpen, Client!States
  <2>3. e.stored = d.stored \cup d.pending /\ e.pending = {} /\ e.faults = d.faults
    BY <1>2, <2>2
  <2>4. Later(d, e, NewRows(s))
    BY <1>3, <2>3 DEF Later, Tidy
  <2> QED
    BY <2>1, <2>2, <2>3, <2>4
<1>6. CASE s = Client!Rollback
  <2>1. e = Client!RollsBack(c) /\ s.kind = "rollback"
    BY <1>1, <1>6 DEF Client!Performed, Client!Rollback
  <2>2. e.stored = c.stored /\ e.pending = {} /\ e.faults = c.faults
    BY <1>2, <2>1 DEF Client!RollsBack, Client!States
  <2> QED
    BY <1>2, <1>3, <2>1, <2>2 DEF Later, Tidy
<1>7. CASE s = Client!Select
  <2>1. e = c /\ s.kind = "select"
    BY <1>1, <1>7 DEF Client!Performed, Client!Select
  <2> QED
    BY <1>2, <1>3, <2>1 DEF Later, Tidy
<1>8. CASE IsInsert(s)
  <2>1. e = Client!Inserts(c, s, n) /\ s.kind = "insert"
    BY <1>1, <1>8 DEF Client!Performed, IsInsert, Client!Insert
  <2>2. e.open = c.open /\ e.faults = c.faults
    BY <1>2, <1>8, <2>1, InsertsTyped DEF SameClient
  <2>3. Client!RowOf(s, n) \in NewRows(s)
    BY <2>1 DEF NewRows
  <2>4. \/ e.errno \in {"duplicate", "other"} /\ e.stored = c.stored /\ e.pending = c.pending
        \/ /\ e.errno = "none" /\ c.open
           /\ e.stored = c.stored /\ e.pending = c.pending \cup {Client!RowOf(s, n)}
        \/ /\ e.errno = "none" /\ ~c.open
           /\ e.stored = c.stored \cup {Client!RowOf(s, n)} /\ e.pending = c.pending
    BY <1>2, <1>8, <2>1, InsertsRow
  <2> QED
    BY <1>2, <1>3, <2>1, <2>2, <2>3, <2>4 DEF Later, Tidy
<1> QED
  BY <1>4, <1>5, <1>6, <1>7, <1>8 DEF IsStatement

LEMMA LostRows ==
  ASSUME NEW d \in Client!States, NEW e, e = Client!Lost(d)
  PROVE  e.stored = d.stored /\ e.pending = {} /\ e.faults = d.faults + 1 /\ e.errno = "lost"
<1>1. PICK c : c = Client!RollsBack(d) /\ c \in Client!States /\ SameClient(d, c)
  BY RollsBackTyped
<1>2. c.stored = d.stored /\ c.pending = {}
  BY <1>1 DEF Client!RollsBack, Client!States
<1> QED
  BY <1>1, <1>2 DEF Client!Lost, Client!States, SameClient

(* Whatever comes of a statement: rows are lost only with their             *)
(* transaction, and the client is told "lost" only of a session that was    *)
(* lost before or by a fault.                                               *)
LEMMA AnswersRows ==
  ASSUME NEW d, Sound(d), Tidy(d), NEW s, IsStatement(s), s.kind = "start" => d.connected,
         NEW n \in 1..2, NEW e \in Client!Answers(d, s, n)
  PROVE  /\ Later(d, e, NewRows(s))
         /\ ~d.alive => e.errno = "lost" /\ e.stored = d.stored /\ e.pending = d.pending
         /\ d.alive /\ e.errno = "lost" =>
              e.faults # d.faults /\ e.pending = {}
              /\ (e.stored = d.stored \/ e.stored = Client!Performed(d, s, n).stored)
         /\ e.errno \notin {"lost", "none"} =>
              s.kind = "insert" /\ e.stored = d.stored /\ e.pending = d.pending
         /\ e.errno = "none" => d.alive /\ e = Client!Performed(d, s, n)
<1>1. d \in Client!States /\ d.faults \in Nat
  BY DataServicesAssumption DEF Sound, Client!States
<1>2. PICK p : p = Client!Performed(d, s, n)
  OBVIOUS
<1>3. /\ p \in Client!States /\ SameClient(d, p) /\ p.errno # "lost"
      /\ s.kind # "insert" => p.errno = "none"
  BY <1>1, <1>2, PerformedTyped
<1>4. Later(d, p, NewRows(s)) /\ p.faults = d.faults
  BY <1>2, PerformedRows
<1>5. p.errno \notin {"lost", "none"} =>
        s.kind = "insert" /\ p.stored = d.stored /\ p.pending = d.pending
  BY <1>2, <1>3, PerformedRows
<1>6. CASE ~d.alive
  <2>1. e = [d EXCEPT !.errno = "lost"]
    BY <1>6 DEF Client!Answers
  <2>2. /\ e.errno = "lost" /\ e.stored = d.stored /\ e.pending = d.pending
        /\ e.faults = d.faults /\ e.open = d.open
    BY <1>1, <2>1 DEF Client!States
  <2>3. Later(d, e, NewRows(s))
    BY <1>1, <2>2 DEF Later, Tidy
  <2> QED
    BY <1>6, <2>2, <2>3
<1>7. CASE d.alive
  <2>1. CASE e = p
    BY <1>2, <1>3, <1>4, <1>5, <1>7, <2>1
  <2>2. CASE e = Client!Lost(d)
    <3>1. /\ e.stored = d.stored /\ e.pending = {} /\ e.faults = d.faults + 1
          /\ e.errno = "lost"
      BY <1>1, <2>2, LostRows
    <3>2. Later(d, e, NewRows(s))
      BY <1>1, <3>1 DEF Later, Tidy
    <3> QED
      BY <1>1, <1>7, <3>1, <3>2
  <2>3. CASE e = Client!Lost(p)
    <3>1. /\ e.stored = p.stored /\ e.pending = {} /\ e.faults = d.faults + 1
          /\ e.errno = "lost"
      BY <1>3, <1>4, <2>3, LostRows
    <3>2. Later(d, e, NewRows(s))
      BY <1>1, <1>4, <3>1 DEF Later, Tidy
    <3> QED
      BY <1>1, <1>2, <1>7, <3>1, <3>2
  <2>4. CASE s.kind = "insert" /\ e = [d EXCEPT !.errno = "other", !.faults = @ + 1]
    <3>1. /\ e.stored = d.stored /\ e.pending = d.pending /\ e.faults = d.faults + 1
          /\ e.errno = "other" /\ e.open = d.open
      BY <1>1, <2>4 DEF Client!States
    <3>2. Later(d, e, NewRows(s))
      BY <1>1, <3>1 DEF Later, Tidy
    <3> QED
      BY <1>1, <1>7, <2>4, <3>1, <3>2
  <2> QED
    BY <1>2, <1>7, <2>1, <2>2, <2>3, <2>4 DEF Client!Answers
<1> QED
  BY <1>1, <1>6, <1>7 DEF Client!States

(* A reconnect without a fault succeeds; in any case only rows of the       *)
(* transaction are gone.                                                    *)
LEMMA ReconnectsRows ==
  ASSUME NEW d, Sound(d), NEW e \in Client!Reconnects(d)
  PROVE  /\ Later(d, e, {}) /\ e.stored = d.stored /\ e.pending = {}
         /\ e.faults = d.faults => e.connected
         /\ e.connected => e.alive
<1>1. d.faults \in Nat
  BY DataServicesAssumption DEF Sound, Client!States
<1>2. PICK b : b = Client!RollsBack(d) /\ b \in Client!States /\ SameClient(d, b) /\ ~b.open
  BY RollsBackTyped DEF Sound
<1>3. b.stored = d.stored /\ b.pending = {}
  BY <1>2 DEF Client!RollsBack, Client!States, Sound
<1>4. PICK c :
        c = [b EXCEPT !.connected = FALSE, !.inTransaction = FALSE, !.alive = FALSE]
  OBVIOUS
<1>5. c \in Client!States /\ c.stored = d.stored /\ c.pending = {} /\ c.faults = d.faults
  BY <1>2, <1>3, <1>4 DEF Client!States, SameClient
<1>6. CASE e = [c EXCEPT !.connected = TRUE, !.alive = TRUE, !.errno = "none"]
  <2>1. e.stored = c.stored /\ e.pending = c.pending /\ e.faults = c.faults /\ e.connected /\ e.alive
    BY <1>5, <1>6 DEF Client!States
  <2> QED
    BY <1>1, <1>5, <2>1 DEF Later, Tidy
<1>7. CASE e = [c EXCEPT !.errno = "lost", !.faults = @ + 1]
  <2>1. e.stored = c.stored /\ e.pending = c.pending /\ e.faults = c.faults + 1 /\ ~e.connected
    BY <1>2, <1>4, <1>5, <1>7 DEF Client!States
  <2> QED
    BY <1>1, <1>5, <2>1 DEF Later, Tidy
<1> QED
  BY <1>2, <1>4, <1>6, <1>7 DEF Client!Reconnects

LEMMA ReadyRows ==
  ASSUME NEW d, Sound(d), Tidy(d), NEW e \in Client!Ready(d)
  PROVE  /\ Later(d, e, {}) /\ e.stored = d.stored
         /\ e.faults = d.faults => e.connected
         /\ ~e.connected => e.pending = {}
         /\ d.connected => e = d
         /\ d.pending = {} => e.pending = {}
<1>1. CASE d.connected
  BY <1>1, LaterItself DEF Client!Ready
<1>2. CASE ~d.connected
  BY <1>2, ReconnectsRows DEF Client!Ready
<1> QED
  BY <1>1, <1>2

(* START TRANSACTION, where nothing waits for a commit. *)
LEMMA BeginsRows ==
  ASSUME NEW d, Sound(d), Tidy(d), d.connected, NEW n \in 1..2, NEW e \in Client!Begins(d, n)
  PROVE  /\ Later(d, e, {})
         /\ d.pending = {} => e.stored = d.stored /\ e.pending = {}
         /\ d.alive /\ e.faults = d.faults => e.errno = "none"
         /\ e.errno = "none" => InSession(e) /\ e.pending = {}
<1>1. IsStatement(Client!Start) /\ Client!Start.kind = "start"
  BY DEF IsStatement, Client!Start
<1>2. PICK a \in Client!Answers(d, Client!Start, n) :
        e = IF a.errno = "none" THEN [a EXCEPT !.inTransaction = TRUE] ELSE a
  BY DEF Client!Begins
<1>3. Sound(a) /\ a.connected /\ a.errno \in {"none", "lost"}
  BY <1>1, AnswersSound
<1>4. NewRows(Client!Start) = {}
  BY <1>1 DEF NewRows
<1>5. PICK p : p = Client!Performed(d, Client!Start, n)
  OBVIOUS
<1>6. /\ SameClient(d, p) /\ p.open /\ p.pending = {} /\ p.stored = d.stored \cup d.pending
  BY <1>1, <1>5, PerformedTyped, PerformedRows DEF Sound
<1>7. /\ Later(d, a, {})
      /\ ~d.alive => a.errno = "lost" /\ a.stored = d.stored /\ a.pending = d.pending
      /\ d.alive /\ a.errno = "lost" =>
           a.faults # d.faults /\ a.pending = {} /\ (a.stored = d.stored \/ a.stored = p.stored)
      /\ a.errno = "none" => d.alive /\ a = p
  <2>1. /\ Later(d, a, NewRows(Client!Start))
        /\ ~d.alive => a.errno = "lost" /\ a.stored = d.stored /\ a.pending = d.pending
        /\ a.errno = "none" => d.alive /\ a = Client!Performed(d, Client!Start, n)
    BY <1>1, AnswersRows
  <2>2. d.alive /\ a.errno = "lost" =>
          a.faults # d.faults /\ a.pending = {}
          /\ (a.stored = d.stored \/ a.stored = Client!Performed(d, Client!Start, n).stored)
    BY <1>1, AnswersRows
  <2> QED
    BY <1>4, <1>5, <2>1, <2>2
<1>8. CASE a.errno = "none"
  <2>1. e = [a EXCEPT !.inTransaction = TRUE]
    BY <1>2, <1>8
  <2>2. /\ e.stored = a.stored /\ e.pending = a.pending /\ e.faults = a.faults /\ e.open = a.open
        /\ e.connected /\ e.alive = a.alive /\ e.inTransaction /\ e.errno = "none"
    BY <1>3, <1>8, <2>1 DEF Sound, Client!States
  <2>3. Later(d, e, {})
    BY <1>7, <2>2 DEF Later, Tidy
  <2>4. a.alive /\ a.open /\ a.pending = {} /\ a.stored = d.stored \cup d.pending
    BY <1>6, <1>7, <1>8 DEF SameClient
  <2> QED
    BY <2>2, <2>3, <2>4 DEF InSession
<1>9. CASE a.errno = "lost"
  <2>1. e = a
    BY <1>2, <1>9
  <2> QED
    BY <1>6, <1>7, <1>9, <2>1
<1> QED
  BY <1>3, <1>8, <1>9

(* The retry: without a fault it succeeds, but for an INSERT that is        *)
(* refused.                                                                 *)
LEMMA RetryRows ==
  ASSUME NEW d, Sound(d), Tidy(d), NEW s, IsStatement(s), s.kind # "start", NEW was \in BOOLEAN,
         NEW e \in Client!Retry(d, s, was)
  PROVE  /\ Later(d, e, NewRows(s))
         /\ s.kind # "insert" /\ e.faults = d.faults => e.errno = "none"
<1>1. PICK r \in Client!Reconnects(d) :
        e \in IF r.connected
                THEN UNION {IF b.errno = "none" THEN Client!Answers(b, s, 2) ELSE {b} :
                              b \in IF was THEN Client!Begins(r, 1) ELSE {r}}
                ELSE {r}
  BY DEF Client!Retry
<1>2. Sound(r) /\ (r.connected => r.errno = "none")
  BY ReconnectsSound
<1>3. /\ Later(d, r, {}) /\ (r.faults = d.faults => r.connected) /\ (r.connected => r.alive)
  BY ReconnectsRows
<1>4. CASE ~r.connected
  <2>1. e = r
    BY <1>1, <1>4
  <2>2. Later(d, r, NewRows(s))
    BY <1>3 DEF Later
  <2> QED
    BY <1>3, <1>4, <2>1, <2>2
<1>5. CASE r.connected
  <2>1. PICK b \in IF was THEN Client!Begins(r, 1) ELSE {r} :
          e \in IF b.errno = "none" THEN Client!Answers(b, s, 2) ELSE {b}
    BY <1>1, <1>5
  <2>2. Sound(b) /\ Later(r, b, {}) /\ (b.faults = r.faults => b.errno = "none")
        /\ (b.errno = "none" => b.alive)
    <3>1. Tidy(r)
      BY <1>3 DEF Later
    <3>2. CASE was
      <4>1. b \in Client!Begins(r, 1)
        BY <2>1, <3>2
      <4> QED
        BY <1>2, <1>3, <1>5, <3>1, <4>1, BeginsSound, BeginsRows DEF InSession
    <3>3. CASE ~was
      BY <1>2, <1>3, <1>5, <2>1, <3>1, <3>3, LaterItself
    <3> QED
      BY <3>2, <3>3
  <2>3. CASE b.errno = "none"
    <3>1. e \in Client!Answers(b, s, 2) /\ Tidy(b)
      BY <2>1, <2>2, <2>3 DEF Later
    <3>2. Sound(e)
      BY <2>2, <3>1, AnswersSound
    <3>3. /\ Later(b, e, NewRows(s))
          /\ s.kind # "insert" /\ e.faults = b.faults => e.errno = "none"
      BY <2>2, <2>3, <3>1, AnswersRows
    <3>4. Later(r, e, NewRows(s)) /\ (e.faults = r.faults => e.faults = b.faults)
      BY <1>2, <2>2, <3>2, <3>3, LaterTransitive
    <3>5. Later(d, e, NewRows(s)) /\ (e.faults = d.faults => e.faults = r.faults)
      BY <1>2, <1>3, <3>2, <3>4, LaterTransitive
    <3> QED
      BY <3>3, <3>4, <3>5
  <2>4. CASE b.errno # "none"
    <3>1. e = b
      BY <2>1, <2>4
    <3>2. Later(d, e, NewRows(s)) /\ (e.faults = d.faults => b.faults = r.faults)
      BY <1>2, <1>3, <2>2, <3>1, LaterTransitive
    <3> QED
      BY <2>2, <2>4, <3>2
  <2> QED
    BY <2>3, <2>4
<1> QED
  BY <1>4, <1>5

LEMMA ExecuteRows ==
  ASSUME NEW d, Sound(d), Tidy(d), NEW s, IsStatement(s), s.kind # "start",
         NEW e \in Client!Execute(d, s)
  PROVE  /\ Later(d, e, NewRows(s))
         /\ s.kind # "insert" /\ e.faults = d.faults => e.errno = "none"
<1>1. PICK r \in Client!Ready(d) : e \in IF r.connected THEN Client!Attempt(r, s) ELSE {r}
  BY DEF Client!Execute
<1>2. Sound(r) /\ Later(d, r, {}) /\ (r.faults = d.faults => r.connected)
  BY <1>1, ReadySound, ReadyRows
<1>3. CASE r.connected
  <2>1. PICK a \in Client!Answers(r, s, 1) :
          e \in IF a.errno = "lost" THEN Client!Retry(a, s, r.inTransaction) ELSE {a}
    BY <1>1, <1>3 DEF Client!Attempt
  <2>2. Sound(a) /\ Later(r, a, NewRows(s))
    <3>1. Tidy(r)
      BY <1>2 DEF Later
    <3> QED
      BY <1>2, <2>1, <3>1, AnswersSound, AnswersRows
  <2>3. CASE a.errno = "lost"
    <3>1. e \in Client!Retry(a, s, r.inTransaction) /\ r.inTransaction \in BOOLEAN
      BY <1>2, <2>1, <2>3 DEF Sound, Client!States
    <3>2. Tidy(a)
      BY <2>2 DEF Later
    <3>3. /\ Sound(e) /\ Later(a, e, NewRows(s))
          /\ s.kind # "insert" /\ e.faults = a.faults => e.errno = "none"
      BY <2>2, <3>1, <3>2, RetrySound, RetryRows
    <3>4. Later(r, e, NewRows(s)) /\ (e.faults = r.faults => e.faults = a.faults)
      BY <1>2, <2>2, <3>3, LaterTransitive
    <3>5. Later(d, e, NewRows(s)) /\ (e.faults = d.faults => e.faults = r.faults)
      BY <1>2, <3>3, <3>4, LaterTransitive
    <3> QED
      BY <3>3, <3>4, <3>5
  <2>4. CASE a.errno # "lost"
    <3>1. e = a
      BY <2>1, <2>4
    <3>2. s.kind # "insert" => a.errno \in {"none", "lost"}
      BY <1>2, <2>1, AnswersSound
    <3>3. Later(d, e, NewRows(s))
      BY <1>2, <2>2, <3>1, LaterTransitive
    <3> QED
      BY <2>4, <3>1, <3>2, <3>3
  <2> QED
    BY <2>3, <2>4
<1>4. CASE ~r.connected
  <2>1. e = r
    BY <1>1, <1>4
  <2>2. Later(d, r, NewRows(s))
    BY <1>2 DEF Later
  <2> QED
    BY <1>2, <1>4, <2>1, <2>2
<1> QED
  BY <1>3, <1>4

LEMMA EscapeRows ==
  ASSUME NEW d, Sound(d), Tidy(d), NEW e \in Client!Escape(d)
  PROVE  Later(d, e, {}) /\ (InSession(d) => InSession(e))
<1>1. PICK r \in Client!Ready(d) : e = IF r.connected THEN [r EXCEPT !.errno = "none"] ELSE r
  BY DEF Client!Escape
<1>2. Sound(r) /\ Later(d, r, {}) /\ (d.connected => r = d)
  BY ReadySound, ReadyRows
<1>3. CASE e = r
  BY <1>2, <1>3 DEF InSession
<1>4. CASE e = [r EXCEPT !.errno = "none"]
  <2>1. /\ e.stored = r.stored /\ e.pending = r.pending /\ e.faults = r.faults /\ e.open = r.open
        /\ e.connected = r.connected /\ e.alive = r.alive /\ e.inTransaction = r.inTransaction
    BY <1>2, <1>4 DEF Sound, Client!States
  <2>2. Later(d, e, {})
    BY <1>2, <2>1 DEF Later, Tidy
  <2> QED
    BY <1>2, <2>1, <2>2 DEF InSession
<1> QED
  BY <1>1, <1>3, <1>4

(* A beginTransaction() that succeeds has begun one. *)
LEMMA BeginRows ==
  ASSUME NEW d, Sound(d), Tidy(d), NEW e \in Client!BeginTransaction(d)
  PROVE  Later(d, e, {}) /\ (e.errno = "none" => InSession(e))
<1>1. PICK r \in Client!Ready(d) :
        e \in IF r.connected
                THEN UNION {IF b.errno = "lost" THEN Client!BeginAgain(b) ELSE {b} :
                              b \in Client!Begins(r, 1)}
                ELSE {r}
  BY DEF Client!BeginTransaction
<1>2. Sound(r) /\ Later(d, r, {}) /\ Tidy(r) /\ (~r.connected => r.errno = "lost")
  BY <1>1, ReadySound, ReadyRows DEF Later
<1>3. CASE ~r.connected
  BY <1>1, <1>2, <1>3
<1>4. CASE r.connected
  <2>1. PICK b \in Client!Begins(r, 1) :
          e \in IF b.errno = "lost" THEN Client!BeginAgain(b) ELSE {b}
    BY <1>1, <1>4
  <2>2. Sound(b) /\ Later(r, b, {}) /\ (b.errno = "none" => InSession(b)) /\ Tidy(b)
    BY <1>2, <1>4, BeginsSound, BeginsRows DEF Later
  <2>3. Later(d, b, {})
    BY <1>2, <2>2, LaterTransitive
  <2>4. CASE b.errno # "lost"
    BY <2>1, <2>2, <2>3, <2>4
  <2>5. CASE b.errno = "lost"
    <3>1. PICK q \in Client!Reconnects(b) :
            e \in IF q.connected THEN Client!Begins(q, 2) ELSE {q}
      BY <2>1, <2>5 DEF Client!BeginAgain
    <3>2. /\ Sound(q) /\ Later(b, q, {}) /\ Tidy(q) /\ (~q.connected => q.errno = "lost")
      BY <2>2, ReconnectsSound, ReconnectsRows DEF Later
    <3>3. Later(d, q, {})
      BY <1>2, <2>2, <2>3, <3>2, LaterTransitive
    <3>4. CASE ~q.connected
      BY <3>1, <3>2, <3>3, <3>4
    <3>5. CASE q.connected
      <4>1. e \in Client!Begins(q, 2)
        BY <3>1, <3>5
      <4>2. Sound(e) /\ Later(q, e, {}) /\ (e.errno = "none" => InSession(e))
        BY <3>2, <3>5, <4>1, BeginsSound, BeginsRows
      <4> QED
        BY <3>2, <3>3, <4>2, LaterTransitive
    <3> QED
      BY <3>4, <3>5
  <2> QED
    BY <2>4, <2>5
<1> QED
  BY <1>3, <1>4

(* The end of commit() and rollback() changes fields of the client only. *)
SameRows(a, e) ==
  /\ e.stored = a.stored /\ e.pending = a.pending /\ e.faults = a.faults
  /\ e.open = a.open /\ e.errno = a.errno

LEMMA EndRows ==
  ASSUME NEW a \in Client!States,
         NEW e, e = IF a.errno = "lost" THEN [a EXCEPT !.connected = FALSE, !.inTransaction = FALSE]
                                        ELSE [a EXCEPT !.inTransaction = FALSE]
  PROVE  SameRows(a, e)
<1>1. CASE e = [a EXCEPT !.connected = FALSE, !.inTransaction = FALSE]
  BY <1>1 DEF Client!States, SameRows
<1>2. CASE e = [a EXCEPT !.inTransaction = FALSE]
  BY <1>2 DEF Client!States, SameRows
<1> QED
  BY <1>1, <1>2

LEMMA OfflineRows ==
  ASSUME NEW d, Sound(d), Tidy(d), NEW e, e = [d EXCEPT !.errno = "other"]
  PROVE  Later(d, e, {})
<1>1. e.stored = d.stored /\ e.pending = d.pending /\ e.faults = d.faults /\ e.open = d.open
  BY DEF Sound, Client!States
<1>2. d.faults \in Nat
  BY DataServicesAssumption DEF Sound, Client!States
<1> QED
  BY <1>1, <1>2 DEF Later, Tidy

(* A commit() in a transaction either says that it is done, and it is, or   *)
(* there was a fault.                                                       *)
LEMMA CommitRows ==
  ASSUME NEW d, Sound(d), Tidy(d), NEW e \in Client!CommitTransaction(d)
  PROVE  /\ Later(d, e, {})
         /\ InSession(d) /\ e.errno = "none" => e.stored = d.stored \cup d.pending
         /\ InSession(d) /\ e.errno # "none" => e.faults # d.faults
<1>1. CASE ~d.connected
  BY <1>1, OfflineRows DEF Client!CommitTransaction, InSession
<1>2. CASE d.connected
  <2>1. IsStatement(Client!Commit) /\ Client!Commit.kind = "commit"
    BY DEF IsStatement, Client!Commit
  <2>2. \A a \in Client!Answers(d, Client!Commit, 1) : Sound(a) /\ a.errno \in {"none", "lost"}
    BY <2>1, AnswersSound
  <2>3. \A a \in Client!Answers(d, Client!Commit, 1) : a \in Client!States
    BY <2>2 DEF Sound
  <2>4. PICK a \in Client!Answers(d, Client!Commit, 1) : SameRows(a, e)
    <3>1. e \in {IF a.errno = "lost" THEN [a EXCEPT !.connected = FALSE, !.inTransaction = FALSE]
                                    ELSE [a EXCEPT !.inTransaction = FALSE] :
                  a \in Client!Answers(d, Client!Commit, 1)}
      BY <1>2, Zenon DEF Client!CommitTransaction
    <3>2. PICK a \in Client!Answers(d, Client!Commit, 1) :
            e = IF a.errno = "lost" THEN [a EXCEPT !.connected = FALSE, !.inTransaction = FALSE]
                                    ELSE [a EXCEPT !.inTransaction = FALSE]
      BY <3>1, Zenon
    <3> QED
      BY <2>3, <3>2, EndRows, Zenon
  <2>5. NewRows(Client!Commit) = {}
    BY <2>1 DEF NewRows
  <2>6. /\ Later(d, a, NewRows(Client!Commit))
        /\ d.alive /\ a.errno = "lost" => a.faults # d.faults
        /\ a.errno = "none" => a = Client!Performed(d, Client!Commit, 1)
    BY <2>1, AnswersRows
  <2>7. a.errno = "none" => a.stored = d.stored \cup d.pending
    BY <2>1, <2>6, PerformedRows
  <2>8. Later(d, e, {})
    BY <2>4, <2>5, <2>6 DEF Later, Tidy, SameRows
  <2> QED
    BY <2>2, <2>4, <2>6, <2>7, <2>8 DEF InSession, SameRows
<1> QED
  BY <1>1, <1>2 DEF Sound, Client!States

LEMMA RollbackRows ==
  ASSUME NEW d, Sound(d), Tidy(d), NEW e \in Client!RollbackTransaction(d)
  PROVE  Later(d, e, {})
<1>1. CASE ~d.connected
  BY <1>1, OfflineRows DEF Client!RollbackTransaction
<1>2. CASE d.connected
  <2>1. IsStatement(Client!Rollback) /\ Client!Rollback.kind = "rollback"
    BY DEF IsStatement, Client!Rollback
  <2>2. \A a \in Client!Answers(d, Client!Rollback, 1) : Sound(a) /\ a.errno \in {"none", "lost"}
    BY <2>1, AnswersSound
  <2>3. \A a \in Client!Answers(d, Client!Rollback, 1) : a \in Client!States
    BY <2>2 DEF Sound
  <2>4. PICK a \in Client!Answers(d, Client!Rollback, 1) : SameRows(a, e)
    <3>1. e \in {IF a.errno = "lost" THEN [a EXCEPT !.connected = FALSE, !.inTransaction = FALSE]
                                    ELSE [a EXCEPT !.inTransaction = FALSE] :
                  a \in Client!Answers(d, Client!Rollback, 1)}
      BY <1>2, Zenon DEF Client!RollbackTransaction
    <3>2. PICK a \in Client!Answers(d, Client!Rollback, 1) :
            e = IF a.errno = "lost" THEN [a EXCEPT !.connected = FALSE, !.inTransaction = FALSE]
                                    ELSE [a EXCEPT !.inTransaction = FALSE]
      BY <3>1, Zenon
    <3> QED
      BY <2>3, <3>2, EndRows, Zenon
  <2>5. NewRows(Client!Rollback) = {}
    BY <2>1 DEF NewRows
  <2>6. Later(d, a, NewRows(Client!Rollback))
    BY <2>1, AnswersRows
  <2> QED
    BY <2>4, <2>5, <2>6 DEF Later, Tidy, SameRows
<1> QED
  BY <1>1, <1>2 DEF Sound, Client!States

(* One attempt of an INSERT of a writer of whom there is no row. *)
LEMMA AttemptRows ==
  ASSUME NEW d, Sound(d), Tidy(d), NEW s, IsInsert(s), By(d, s.by) = {},
         NEW n \in 1..2, NEW e \in Client!Answers(d, s, n)
  PROVE  /\ e.errno \notin {"none", "lost"} => By(e, s.by) = {}
         /\ e.errno = "none" =>
              /\ By(e, s.by) = {Client!RowOf(s, n)}
              /\ IF d.open THEN Client!RowOf(s, n) \notin e.stored
                           ELSE Client!RowOf(s, n) \in e.stored
         /\ e.errno = "lost" /\ (d.open \/ e.faults = d.faults) => By(e, s.by) = {}
<1>1. IsStatement(s) /\ s.kind = "insert"
  BY DEF IsStatement, IsInsert, Client!Insert
<1>2. PICK row : row = Client!RowOf(s, n) /\ row.by = s.by
  <2>1. Client!RowOf(s, n).by = s.by
    BY DEF Client!RowOf
  <2> QED
    BY <2>1
<1>3. PICK p : p = Client!Performed(d, s, n)
  OBVIOUS
<1>4. \/ p.errno \in {"duplicate", "other"} /\ p.stored = d.stored /\ p.pending = d.pending
      \/ /\ p.errno = "none" /\ d.open
         /\ p.stored = d.stored /\ p.pending = d.pending \cup {row}
      \/ /\ p.errno = "none" /\ ~d.open
         /\ p.stored = d.stored \cup {row} /\ p.pending = d.pending
  BY <1>1, <1>2, <1>3, PerformedRows
<1>5. /\ ~d.alive => e.errno = "lost" /\ e.stored = d.stored /\ e.pending = d.pending
      /\ e.errno \notin {"lost", "none"} => e.stored = d.stored /\ e.pending = d.pending
      /\ e.errno = "none" => e = Client!Performed(d, s, n)
  BY <1>1, AnswersRows
<1>6. d.alive /\ e.errno = "lost" =>
        e.faults # d.faults /\ e.pending = {}
        /\ (e.stored = d.stored \/ e.stored = Client!Performed(d, s, n).stored)
  BY <1>1, AnswersRows
<1>7. \A r \in d.stored \cup d.pending : r.by # s.by
  BY DEF By, Client!Visible
<1>8. e.errno \notin {"none", "lost"} => By(e, s.by) = {}
  BY <1>5, <1>7 DEF By, Client!Visible
<1>9. e.errno = "lost" /\ (d.open \/ e.faults = d.faults) => By(e, s.by) = {}
  <2>1. CASE ~d.alive
    BY <1>5, <1>7, <2>1 DEF By, Client!Visible
  <2>2. CASE d.alive
    BY <1>3, <1>4, <1>6, <1>7, <2>2 DEF By, Client!Visible
  <2> QED
    BY <2>1, <2>2
<1>10. ASSUME e.errno = "none"
       PROVE  /\ By(e, s.by) = {row}
              /\ IF d.open THEN row \notin e.stored ELSE row \in e.stored
  <2>1. e = p
    BY <1>3, <1>5, <1>10
  <2>2. e.stored \cup e.pending = d.stored \cup d.pending \cup {row}
    BY <1>4, <1>10, <2>1
  <2>3. By(e, s.by) = {row}
    BY <1>2, <1>7, <2>2 DEF By, Client!Visible
  <2>4. row \notin d.stored
    BY <1>2, <1>7
  <2> QED
    BY <1>4, <1>10, <2>1, <2>3, <2>4
<1> QED
  BY <1>2, <1>8, <1>9, <1>10

(* An INSERT that succeeds has made its row visible, and has left the       *)
(* transaction as it was.                                                   *)
LEMMA InsertIsVisible ==
  ASSUME NEW d, Sound(d), Tidy(d), NEW s, IsInsert(s), NEW n \in 1..2,
         NEW e \in Client!Answers(d, s, n), e.errno = "none"
  PROVE  Client!RowOf(s, n) \in Client!Visible(e)
<1>1. IsStatement(s) /\ s.kind = "insert"
  BY DEF IsStatement, IsInsert, Client!Insert
<1>2. e = Client!Performed(d, s, n)
  BY <1>1, AnswersRows
<1>3. \/ e.stored = d.stored /\ e.pending = d.pending \cup {Client!RowOf(s, n)}
      \/ e.stored = d.stored \cup {Client!RowOf(s, n)} /\ e.pending = d.pending
  BY <1>1, <1>2, PerformedRows
<1> QED
  BY <1>3 DEF Client!Visible

LEMMA InsertKeepsSession ==
  ASSUME NEW d, Sound(d), Tidy(d), NEW s, IsInsert(s), NEW n \in 1..2, InSession(d),
         NEW e \in Client!Answers(d, s, n), e.errno = "none"
  PROVE  InSession(e)
<1>1. IsStatement(s) /\ s.kind = "insert"
  BY DEF IsStatement, IsInsert, Client!Insert
<1>2. e = Client!Performed(d, s, n)
  BY <1>1, AnswersRows
<1>3. SameClient(d, e)
  BY <1>1, <1>2, PerformedTyped DEF Sound
<1>4. e.open
  BY <1>1, <1>2, PerformedRows DEF InSession
<1> QED
  BY <1>3, <1>4 DEF InSession, SameClient

(* The retry of an INSERT in a transaction: in a new one, or not at all. *)
LEMMA AgainInSession ==
  ASSUME NEW d, Sound(d), Tidy(d), NEW s, IsInsert(s), NEW e \in Client!Retry(d, s, TRUE),
         \A r \in d.stored : r.by # s.by
  PROVE  /\ e.errno # "none" => By(e, s.by) = {}
         /\ e.errno = "none" => /\ InSession(e) /\ (\A r \in e.stored : r.by # s.by)
                                /\ By(e, s.by) = {Client!RowOf(s, 2)}
<1>1. IsStatement(s) /\ s.kind = "insert"
  BY DEF IsStatement, IsInsert, Client!Insert
<1>2. PICK r \in Client!Reconnects(d) :
        e \in IF r.connected
                THEN UNION {IF b.errno = "none" THEN Client!Answers(b, s, 2) ELSE {b} :
                              b \in Client!Begins(r, 1)}
                ELSE {r}
  BY DEF Client!Retry
<1>3. /\ Sound(r) /\ r.stored = d.stored /\ r.pending = {} /\ Tidy(r)
      /\ ~r.connected => r.errno = "lost"
  BY ReconnectsSound, ReconnectsRows DEF Tidy
<1>4. CASE ~r.connected
  BY <1>2, <1>3, <1>4 DEF By, Client!Visible
<1>5. CASE r.connected
  <2>1. PICK b \in Client!Begins(r, 1) :
          e \in IF b.errno = "none" THEN Client!Answers(b, s, 2) ELSE {b}
    BY <1>2, <1>5
  <2>2. /\ Sound(b) /\ b.stored = d.stored /\ b.pending = {} /\ Tidy(b)
        /\ b.errno = "none" => InSession(b)
    BY <1>3, <1>5, <2>1, BeginsSound, BeginsRows DEF Tidy
  <2>3. By(b, s.by) = {}
    BY <2>2 DEF By, Client!Visible
  <2>4. CASE b.errno # "none"
    BY <2>1, <2>2, <2>3, <2>4
  <2>5. CASE b.errno = "none"
    <3>1. e \in Client!Answers(b, s, 2) /\ InSession(b)
      BY <2>1, <2>2, <2>5
    <3>2. /\ e.errno # "none" => By(e, s.by) = {}
          /\ e.errno = "none" => /\ By(e, s.by) = {Client!RowOf(s, 2)}
                                 /\ Client!RowOf(s, 2) \notin e.stored
      BY <2>2, <2>3, <3>1, AttemptRows DEF InSession
    <3>3. e.errno = "none" => InSession(e)
      BY <1>1, <2>2, <3>1, InsertKeepsSession
    <3>4. e.errno = "none" => \A q \in e.stored : q.by # s.by
      BY <3>2 DEF By, Client!Visible
    <3> QED
      BY <3>2, <3>3, <3>4
  <2> QED
    BY <2>4, <2>5
<1> QED
  BY <1>4, <1>5

(* An INSERT in a transaction, of a writer of whom there is no row: if it   *)
(* succeeds its row waits for the commit, in a transaction that is open;    *)
(* if it fails there is no row.                                             *)
LEMMA InsertInSession ==
  ASSUME NEW d, Sound(d), Tidy(d), InSession(d), NEW s, IsInsert(s), By(d, s.by) = {},
         NEW e \in Client!Execute(d, s)
  PROVE  /\ e.errno # "none" => By(e, s.by) = {}
         /\ e.errno = "none" => /\ InSession(e) /\ (\A r \in e.stored : r.by # s.by)
                                /\ \E r : By(e, s.by) = {r}
<1>1. IsStatement(s) /\ s.kind = "insert"
  BY DEF IsStatement, IsInsert, Client!Insert
<1>2. e \in Client!Attempt(d, s)
  BY DEF Client!Execute, Client!Ready, InSession
<1>3. PICK a \in Client!Answers(d, s, 1) :
        e \in IF a.errno = "lost" THEN Client!Retry(a, s, d.inTransaction) ELSE {a}
  BY <1>2 DEF Client!Attempt
<1>4. Sound(a) /\ Tidy(a)
  BY <1>1, AnswersSound, AnswersRows DEF Later
<1>5. /\ a.errno # "none" => By(a, s.by) = {}
      /\ a.errno = "none" => /\ By(a, s.by) = {Client!RowOf(s, 1)}
                             /\ Client!RowOf(s, 1) \notin a.stored
  BY AttemptRows DEF InSession
<1>6. CASE a.errno = "lost"
  <2>1. e \in Client!Retry(a, s, TRUE)
    BY <1>3, <1>6 DEF InSession, Sound, Client!States
  <2>2. \A r \in a.stored : r.by # s.by
    BY <1>5, <1>6 DEF By, Client!Visible
  <2>3. /\ e.errno # "none" => By(e, s.by) = {}
        /\ e.errno = "none" => /\ InSession(e) /\ (\A r \in e.stored : r.by # s.by)
                               /\ By(e, s.by) = {Client!RowOf(s, 2)}
    BY <1>4, <2>1, <2>2, AgainInSession
  <2> QED
    BY <2>3
<1>7. CASE a.errno # "lost"
  <2>1. e = a
    BY <1>3, <1>7
  <2>2. e.errno = "none" => InSession(e)
    BY <1>1, <2>1, InsertKeepsSession
  <2>3. e.errno = "none" => \A r \in e.stored : r.by # s.by
    BY <1>5, <2>1 DEF By, Client!Visible
  <2> QED
    BY <1>5, <2>1, <2>2, <2>3
<1> QED
  BY <1>6, <1>7

(* An INSERT outside of a transaction, of a writer of whom there is no row: *)
(* success means that a row is stored, and one only unless there was a      *)
(* fault; failure, that there is none, unless there was a fault.            *)
LEMMA InsertAlone ==
  ASSUME NEW d, Sound(d), Tidy(d), Idle(d), NEW s, IsInsert(s), By(d, s.by) = {},
         NEW e \in Client!Execute(d, s)
  PROVE  /\ e.errno = "none" => By(e, s.by) # {} 
         /\ e.errno # "none" /\ e.faults = d.faults => By(e, s.by) = {}
         /\ e.errno = "none" /\ e.faults = d.faults => \E r : By(e, s.by) = {r}
<1>1. IsStatement(s) /\ s.kind = "insert"
  BY DEF IsStatement, IsInsert, Client!Insert
<1>2. PICK r \in Client!Ready(d) : e \in IF r.connected THEN Client!Attempt(r, s) ELSE {r}
  BY DEF Client!Execute
<1>3. /\ Sound(r) /\ Idle(r) /\ Later(d, r, {}) /\ Tidy(r) /\ (r.faults = d.faults => r.connected)
      /\ ~r.connected => r.errno = "lost"
  BY ReadySound, ReadyRows DEF Later
<1>4. By(r, s.by) = {}
  BY <1>3 DEF By, Client!Visible, Later
<1>5. CASE ~r.connected
  BY <1>2, <1>3, <1>5
<1>6. CASE r.connected
  <2>1. PICK a \in Client!Answers(r, s, 1) :
          e \in IF a.errno = "lost" THEN Client!Retry(a, s, r.inTransaction) ELSE {a}
    BY <1>2, <1>6 DEF Client!Attempt
  <2>2. Sound(a) /\ Later(r, a, NewRows(s)) /\ Tidy(a)
    BY <1>1, <1>3, <2>1, AnswersSound, AnswersRows DEF Later
  <2>3. /\ a.errno \notin {"none", "lost"} => By(a, s.by) = {}
        /\ a.errno = "none" => By(a, s.by) = {Client!RowOf(s, 1)}
        /\ a.errno = "lost" /\ a.faults = r.faults => By(a, s.by) = {}
    BY <1>3, <1>4, <2>1, AttemptRows
  <2>4. CASE a.errno # "lost"
    BY <2>1, <2>3, <2>4
  <2>5. CASE a.errno = "lost"
    <3>1. PICK q \in Client!Reconnects(a) :
            e \in IF q.connected THEN Client!Answers(q, s, 2) ELSE {q}
      <4>1. e \in Client!Retry(a, s, FALSE)
        BY <1>3, <2>1, <2>5 DEF Idle, Sound, Client!States
      <4>2. PICK q \in Client!Reconnects(a) :
              e \in IF q.connected
                      THEN UNION {IF b.errno = "none" THEN Client!Answers(b, s, 2) ELSE {b} :
                                    b \in {q}}
                      ELSE {q}
        BY <4>1 DEF Client!Retry
      <4>3. q.connected => q.errno = "none"
        BY <2>2, <4>2, ReconnectsSound
      <4> QED
        BY <4>2, <4>3
    <3>2. /\ Sound(q) /\ Later(a, q, {}) /\ Tidy(q) /\ (q.faults = a.faults => q.connected)
          /\ (q.connected => q.alive) /\ (~q.connected => q.errno = "lost")
      BY <2>2, ReconnectsSound, ReconnectsRows DEF Later
    <3>3. By(q, s.by) \subseteq By(a, s.by)
      BY <3>2 DEF By, Client!Visible, Later
    <3>4. Later(d, a, NewRows(s)) /\ (a.faults = d.faults => a.faults = r.faults)
      BY <1>3, <2>2, LaterTransitive
    <3>5. Later(d, q, NewRows(s)) /\ (q.faults = d.faults => a.faults = d.faults /\ q.faults = a.faults)
      BY <1>3, <2>2, <3>2, <3>4, LaterTransitive
    <3>6. q.faults = d.faults => By(q, s.by) = {}
      BY <2>3, <2>5, <3>3, <3>4, <3>5
    <3>7. CASE ~q.connected
      BY <3>1, <3>2, <3>5, <3>7
    <3>8. CASE q.connected
      <4>1. e \in Client!Answers(q, s, 2)
        BY <3>1, <3>8
      <4>2. Sound(e) /\ Later(q, e, NewRows(s)) /\ (e.errno = "lost" => e.faults # q.faults)
        BY <1>1, <3>2, <3>8, <4>1, AnswersSound, AnswersRows
      <4>3. e.faults = d.faults => q.faults = d.faults /\ e.faults = q.faults
        BY <1>3, <3>2, <3>5, <4>2, LaterTransitive
      <4>4. e.errno = "none" => Client!RowOf(s, 2) \in Client!Visible(e)
        BY <1>1, <3>2, <3>8, <4>1, InsertIsVisible
      <4>5. e.errno = "none" => By(e, s.by) # {}
        BY <4>4 DEF By, Client!RowOf
      <4>6. ASSUME e.faults = d.faults
            PROVE  /\ e.errno # "none" => By(e, s.by) = {}
                   /\ e.errno = "none" => \E x : By(e, s.by) = {x}
        <5>1. By(q, s.by) = {} /\ e.errno # "lost"
          BY <3>6, <4>2, <4>3, <4>6
        <5>2. /\ e.errno \notin {"none", "lost"} => By(e, s.by) = {}
              /\ e.errno = "none" => By(e, s.by) = {Client!RowOf(s, 2)}
          BY <3>2, <4>1, <5>1, AttemptRows
        <5> QED
          BY <5>1, <5>2
      <4> QED
        BY <4>5, <4>6
    <3> QED
      BY <3>7, <3>8
  <2> QED
    BY <2>4, <2>5
<1> QED
  BY <1>5, <1>6

-------------------------------------------------------------------------------
(* The account of the rows: which operation has written what.  A row of an  *)
(* operation is there only once it has come to its INSERT; while an         *)
(* operation is alone, the transaction that is open is its own, so that     *)
(* what it was told is what there is.                                       *)

WritesRows == {"register", "login", "record"}
TableOf(k) == CASE k = "register" -> "users" [] k = "login" -> "user_sessions"
                [] k = "record" -> "records"
KeyOf(o) == IF kind[o] = "register" THEN subject[o] ELSE o

RowsOf(o) ==
  \A r \in By(db, o) :
    /\ kind[o] \in WritesRows
    /\ at[o] \in {"errno", "commit", "rollback", "enter", "done"}
    /\ r.table = TableOf(kind[o])
    /\ ~blank[o] => r.key = KeyOf(o)

Stages(o) ==
  /\ at[o] \in {"commit", "rollback", "enter"} => kind[o] = "login"
  /\ at[o] = "enter" => answer[o] = "SUCCESS"
  /\ at[o] = "errno" => kind[o] = "register"
  /\ at[o] \in {"quoteRange", "list"} => kind[o] \in Queries

Successful(o) ==
  at[o] = "enter" \/ (at[o] = "done" /\ answer[o] = "SUCCESS" /\ kind[o] \notin Queries)
Failed(o) ==
  at[o] \in {"errno", "rollback"} \/ (at[o] = "done" /\ answer[o] # "SUCCESS")

Balance(o) ==
  /\ kind[o] = "login" /\ at[o] \in {"quoteRow", "insert", "commit"} => InSession(db)
  /\ at[o] = "commit" => (\A r \in db.stored : r.by # o) /\ \E r : By(db, o) = {r}
  /\ at[o] \in {"enter", "done"} => \A r \in db.pending : r.by # o
  /\ Successful(o) => By(db, o) # {} /\ (~disturbed[o] => \E r : By(db, o) = {r})
  /\ Failed(o) /\ ~disturbed[o] => By(db, o) = {}

(* The login whose token a query presents is over, and was a success. *)
Token(o) ==
  kind[o] \in Queries =>
    /\ subject[o] \in Operations /\ kind[subject[o]] = "login"
    /\ at[subject[o]] = "done" /\ answer[subject[o]] = "SUCCESS"

Aloneness == \A o, p \in Operations : alone[o] /\ UnderWay(o) /\ p # o => ~UnderWay(p)

Books ==
  /\ Tidy(db)
  /\ Aloneness
  /\ \A o \in Operations :
       RowsOf(o) /\ Stages(o) /\ Token(o) /\ (alone[o] => Balance(o))
  /\ TokenIsAccepted

RowsInv == IInv /\ Books

(* What an operation touches of the variables that are per operation. *)
LEMMA TouchesOne ==
  ASSUME Outcomes, NEW o \in Operations, Account(o) \/ Query(o), NEW p \in Operations, p # o
  PROVE  blank'[p] = blank[p] /\ answer'[p] = answer[p] /\ disturbed'[p] = disturbed[p]
<1> USE DEF Outcomes
<1>1. CASE QuoteName(o) \/ QuoteRow(o) \/ QuoteToken(o) \/ QuoteRange(o)
  BY <1>1 DEF QuoteName, QuoteRow, QuoteToken, QuoteRange, Quotes, NoGateNoDoubt
<1>2. CASE FindUser(o) \/ FindLogin(o) \/ BeginTransaction(o) \/ AskErrno(o)
  BY <1>2 DEF FindUser, FindLogin, BeginTransaction, AskErrno, Answers, NoGateNoDoubt
<1>3. CASE StoreSession(o) \/ RollbackSession(o) \/ Gate(o) \/ Admit(o) \/ List(o)
  BY <1>3 DEF StoreSession, RollbackSession, Gate, Admit, List, Answers, NoGateNoDoubt
<1>4. CASE Store(o) \/ CommitSession(o) \/ FindSession(o)
  BY <1>4 DEF Store, CommitSession, FindSession, Answers, Doubts
<1>5. CASE Enter(o) \/ LogOut(o)
  BY <1>5 DEF Enter, LogOut
<1> QED
  BY <1>1, <1>2, <1>3, <1>4, <1>5 DEF Account, Query

(* The steps of an operation are those of one that is under way. *)
LEMMA ActsUnderWay ==
  ASSUME NEW o \in Operations, Account(o) \/ Query(o)
  PROVE  UnderWay(o)
<1>1. CASE Account(o)
  BY <1>1 DEF Account, QuoteName, FindUser, FindLogin, BeginTransaction, QuoteRow, Store, AskErrno,
              StoreSession, CommitSession, RollbackSession, Enter, Quotes, Moves, UnderWay, Ended
<1>2. CASE Query(o)
  BY <1>2 DEF Query, Gate, LogOut, Admit, QuoteToken, FindSession, QuoteRange, List, Quotes, Moves,
              UnderWay, Ended
<1> QED
  BY <1>1, <1>2

(* The statement by which an operation writes its row. *)
LEMMA RowInsertKnown ==
  ASSUME IInv, NEW o \in Operations, at[o] = "insert"
  PROVE  /\ IsInsert(RowInsert(o)) /\ RowInsert(o).kind = "insert" /\ RowInsert(o).by = o
         /\ RowInsert(o).table = TableOf(kind[o]) /\ kind[o] \in WritesRows
         /\ ~blank[o] => RowInsert(o).key = KeyOf(o)
<1>1. kind[o] \in WritesRows /\ (kind[o] \in {"register", "login"} => subject[o] \in Names)
  BY DEF IInv, Program, WritesRows
<1>2. /\ "users" \in Client!Tables /\ "user_sessions" \in Client!Tables
      /\ "records" \in Client!Tables
  BY DEF Client!Tables
<1>3. ASSUME NEW t \in Client!Tables, NEW k \in Keys, NEW u \in Keys \cup {Nobody},
             RowInsert(o) = Client!Insert(t, k, u, o)
      PROVE  /\ IsInsert(RowInsert(o)) /\ RowInsert(o).kind = "insert" /\ RowInsert(o).by = o
             /\ RowInsert(o).table = t /\ RowInsert(o).key = k
  <2>1. IsInsert(RowInsert(o))
    BY <1>3 DEF IsInsert
  <2> QED
    BY <1>3, <2>1 DEF Client!Insert
<1>4. CASE kind[o] = "register"
  <2>1. RowInsert(o) = Client!Insert("users", Sought(o), Nobody, o)
    BY <1>4 DEF RowInsert
  <2>2. Sought(o) \in Keys /\ (~blank[o] => Sought(o) = KeyOf(o))
    BY <1>1, <1>4 DEF Sought, Keys, KeyOf
  <2> QED
    BY <1>1, <1>2, <1>3, <1>4, <2>1, <2>2 DEF TableOf
<1>5. CASE kind[o] = "login"
  <2>1. PICK k : k = IF blank[o] THEN Blank ELSE o
    OBVIOUS
  <2>2. RowInsert(o) = Client!Insert("user_sessions", k, subject[o], o)
    BY <1>5, <2>1 DEF RowInsert
  <2>3. k \in Keys /\ subject[o] \in Keys /\ (~blank[o] => k = KeyOf(o))
    BY <1>1, <1>5, <2>1 DEF Keys, KeyOf
  <2> QED
    BY <1>1, <1>2, <1>3, <1>5, <2>2, <2>3 DEF TableOf
<1>6. CASE kind[o] = "record"
  <2>1. PICK k : k = IF blank[o] THEN Blank ELSE o
    OBVIOUS
  <2>2. RowInsert(o) = Client!Insert("records", k, Nobody, o)
    BY <1>6, <2>1 DEF RowInsert
  <2>3. k \in Keys /\ (~blank[o] => k = KeyOf(o))
    BY <1>6, <2>1 DEF Keys, KeyOf
  <2> QED
    BY <1>1, <1>2, <1>3, <1>6, <2>2, <2>3 DEF TableOf
<1> QED
  BY <1>1, <1>4, <1>5, <1>6 DEF WritesRows

(* The rows that a step of o may add. *)
Added(o) == IF at[o] = "insert" THEN NewRows(RowInsert(o)) ELSE {}

LEMMA AddedRows ==
  ASSUME IInv, NEW o \in Operations, NEW r \in Added(o)
  PROVE  /\ r.by = o /\ at[o] = "insert" /\ kind[o] \in WritesRows
         /\ r.table = TableOf(kind[o]) /\ (~blank[o] => r.key = KeyOf(o))
<1>1. at[o] = "insert"
  BY DEF Added
<1>2. PICK s : s = RowInsert(o)
  OBVIOUS
<1>3. r \in {Client!RowOf(s, 1), Client!RowOf(s, 2)}
  BY <1>1, <1>2, RowInsertKnown DEF Added, NewRows
<1>4. r.by = s.by /\ r.table = s.table /\ r.key = s.key
  BY <1>3 DEF Client!RowOf
<1> QED
  BY <1>1, <1>2, <1>4, RowInsertKnown

(* What every step does to the rows. *)
LEMMA StepRows ==
  ASSUME IInv, Tidy(db), NEW o \in Operations, Account(o) \/ Query(o)
  PROVE  Later(db, db', Added(o)) /\ Sound(db)
<1>1. Sound(db)
  BY DEF IInv
<1>2. IsStatement(Client!Select) /\ Client!Select.kind = "select"
  BY DEF IsStatement, Client!Select
<1>3. NewRows(Client!Select) = {}
  BY <1>2 DEF NewRows
<1>4. ASSUME Later(db, db', {}) PROVE Later(db, db', Added(o))
  BY <1>4 DEF Later
<1>5. CASE QuoteName(o) \/ QuoteRow(o) \/ QuoteToken(o) \/ QuoteRange(o)
  BY <1>1, <1>4, <1>5, EscapeRows DEF QuoteName, QuoteRow, QuoteToken, QuoteRange, Quotes, Calls
<1>6. CASE FindUser(o) \/ FindLogin(o) \/ FindSession(o) \/ List(o)
  <2>1. db' \in Client!Execute(db, Client!Select)
    BY <1>6 DEF FindUser, FindLogin, FindSession, List, Calls
  <2>2. Later(db, db', NewRows(Client!Select))
    BY <1>1, <1>2, <2>1, ExecuteRows
  <2>3. Later(db, db', {})
    BY <1>3, <2>2
  <2> QED
    BY <1>1, <1>4, <2>3
<1>7. CASE Store(o) \/ StoreSession(o)
  <2>1. at[o] = "insert" /\ db' \in Client!Execute(db, RowInsert(o))
    BY <1>7 DEF Store, StoreSession, Calls, Moves
  <2>2. IsStatement(RowInsert(o)) /\ RowInsert(o).kind # "start"
    BY <2>1, RowInsertKnown DEF IsStatement
  <2>3. Later(db, db', NewRows(RowInsert(o)))
    BY <1>1, <2>1, <2>2, ExecuteRows
  <2> QED
    BY <1>1, <2>1, <2>3 DEF Added
<1>8. CASE BeginTransaction(o)
  BY <1>1, <1>4, <1>8, BeginRows DEF BeginTransaction, Calls
<1>9. CASE CommitSession(o) \/ RollbackSession(o)
  BY <1>1, <1>4, <1>9, CommitRows, RollbackRows DEF CommitSession, RollbackSession, Calls
<1>10. CASE AskErrno(o) \/ Enter(o) \/ Gate(o) \/ LogOut(o) \/ Admit(o)
  BY <1>1, <1>10, LaterItself DEF AskErrno, Enter, Gate, LogOut, Admit
<1> QED
  BY <1>1, <1>5, <1>6, <1>7, <1>8, <1>9, <1>10 DEF Account, Query

(* An operation that does not act keeps its account. *)
LEMMA OthersKept ==
  ASSUME RowsInv, NEW o \in Operations, Account(o) \/ Query(o), NEW p \in Operations, p # o
  PROVE  RowsOf(p)' /\ Stages(p)' /\ Token(p)' /\ (alone[p] => Balance(p))'
<1>0. IInv /\ Tidy(db) /\ RowsOf(p) /\ Stages(p) /\ Token(p) /\ (alone[p] => Balance(p))
  BY DEF RowsInv, Books
<1>1. /\ kind' = kind /\ subject' = subject /\ alone' = alone
      /\ \A q \in Operations \ {o} : at'[q] = at[q]
  BY <1>0, MovesOne DEF IInv, Control
<1>2. blank'[p] = blank[p] /\ answer'[p] = answer[p] /\ disturbed'[p] = disturbed[p]
  BY <1>0, TouchesOne DEF IInv
<1>3. Later(db, db', Added(o)) /\ \A r \in Added(o) : r.by # p
  BY <1>0, StepRows, AddedRows
<1>4. UnderWay(o)
  BY ActsUnderWay
<1>5. By(db', p) \subseteq By(db, p)
  BY <1>3 DEF Later, By, Client!Visible
<1>6. RowsOf(p)'
  BY <1>0, <1>1, <1>2, <1>5 DEF RowsOf, KeyOf
<1>7. Stages(p)'
  BY <1>0, <1>1, <1>2 DEF Stages
<1>8. Token(p)'
  <2>1. ASSUME kind[p] \in Queries PROVE subject[p] # o
    BY <1>0, <1>4, <2>1 DEF Token, UnderWay, Ended
  <2>2. ASSUME kind[p] \in Queries PROVE answer'[subject[p]] = answer[subject[p]]
    BY <1>0, <2>1, <2>2, TouchesOne DEF Token, IInv
  <2> QED
    BY <1>0, <1>1, <2>1, <2>2 DEF Token
<1>9. ASSUME alone[p] PROVE Balance(p)'
  <2>1. ~UnderWay(p) /\ Balance(p)
    BY <1>0, <1>4, <1>9 DEF RowsInv, Books, Aloneness
  <2>2. at[p] \notin {"quoteRow", "insert", "commit", "enter", "errno", "rollback"} /\ at'[p] = at[p]
    BY <1>1, <2>1 DEF UnderWay, Ended
  <2>3. at[p] = "done" => \A r \in db'.pending : r.by # p
    BY <1>3, <2>1 DEF Balance, Later
  <2>4. at[p] = "done" => By(db', p) = By(db, p)
    BY <1>3, <1>5, <2>1 DEF Balance, Later, By, Client!Visible
  <2> QED
    BY <1>1, <1>2, <2>1, <2>2, <2>3, <2>4 DEF Balance, Successful, Failed
<1> QED
  BY <1>1, <1>6, <1>7, <1>8, <1>9

(* An operation that acts: only its INSERT writes a row, and its own.       *)
LEMMA OwnRows ==
  ASSUME RowsInv, NEW o \in Operations, Account(o) \/ Query(o)
  PROVE  RowsOf(o)' /\ (at[o] # "insert" => By(db', o) \subseteq By(db, o))
<1>0. IInv /\ Tidy(db) /\ RowsOf(o)
  BY DEF RowsInv, Books
<1>1. kind' = kind /\ subject' = subject
  BY <1>0, MovesOne DEF IInv
<1>2. Later(db, db', Added(o))
  BY <1>0, StepRows
<1>3. By(db', o) \subseteq By(db, o) \cup Added(o)
  BY <1>2 DEF Later, By, Client!Visible
<1>4. CASE at[o] \notin {"insert", "errno", "commit", "rollback", "enter"}
  <2>1. By(db, o) = {} /\ Added(o) = {}
    BY <1>0, <1>4, ActsUnderWay DEF RowsOf, Added, UnderWay, Ended
  <2> QED
    BY <1>3, <2>1 DEF RowsOf
<1>5. CASE at[o] \in {"errno", "commit", "rollback", "enter"}
  <2>1. Added(o) = {}
    BY <1>5 DEF Added
  <2>2. AskErrno(o) \/ CommitSession(o) \/ RollbackSession(o) \/ Enter(o)
    BY <1>5 DEF Account, Query, QuoteName, FindUser, FindLogin, BeginTransaction, QuoteRow, Store,
                StoreSession, Gate, LogOut, Admit, QuoteToken, FindSession, QuoteRange, List,
                Quotes, Moves
  <2>3. at'[o] \in {"enter", "rollback", "done"} /\ blank' = blank
    BY <1>0, <2>2 DEF AskErrno, CommitSession, RollbackSession, Enter, Moves, IInv, Control
  <2> QED
    BY <1>0, <1>1, <1>3, <2>1, <2>3 DEF RowsOf, KeyOf
<1>6. CASE at[o] = "insert"
  <2>1. By(db, o) = {}
    BY <1>0, <1>6 DEF RowsOf
  <2>2. Store(o) \/ StoreSession(o)
    BY <1>6 DEF Account, Query, QuoteName, FindUser, FindLogin, BeginTransaction, QuoteRow, AskErrno,
                CommitSession, RollbackSession, Enter, Gate, LogOut, Admit, QuoteToken, FindSession,
                QuoteRange, List, Quotes, Moves
  <2>3. at'[o] \in {"errno", "commit", "rollback", "done"} /\ blank' = blank
    BY <1>0, <2>2 DEF Store, StoreSession, Moves, IInv, Control
  <2>4. \A r \in Added(o) : /\ kind[o] \in WritesRows /\ r.table = TableOf(kind[o])
                            /\ (~blank[o] => r.key = KeyOf(o))
    BY <1>0, AddedRows
  <2> QED
    BY <1>1, <1>3, <1>6, <2>1, <2>3, <2>4 DEF RowsOf, KeyOf
<1> QED
  BY <1>4, <1>5, <1>6

(* While an operation is alone, a transaction is its own. *)
LEMMA AloneIdle ==
  ASSUME RowsInv, NEW o \in Operations, alone[o], UnderWay(o), ~InTransaction(o)
  PROVE  Idle(db)
<1>1. \A p \in Operations : InTransaction(p) => UnderWay(p)
  BY DEF InTransaction, UnderWay, Ended
<1>2. Aloneness
  BY DEF RowsInv, Books
<1>3. \A p \in Operations : p # o => ~UnderWay(p)
  BY <1>2 DEF Aloneness
<1>4. ASSUME NEW p \in Operations, InTransaction(p) PROVE FALSE
  <2>1. UnderWay(p) /\ p # o
    BY <1>1, <1>4
  <2> QED
    BY <1>3, <2>1
<1> QED
  BY <1>4 DEF RowsInv, IInv, NoOrphanTransaction, Idle

(* What an operation has when it ends, or is about to, without a row.       *)
LEMMA NoRowsBalance ==
  ASSUME NEW o \in Operations, By(db, o)' = {}, ~Successful(o)', at'[o] # "commit",
         kind'[o] = "login" => at'[o] \notin {"quoteRow", "insert"}
  PROVE  Balance(o)'
<1>1. \A r \in db'.pending : r.by # o
  BY DEF By, Client!Visible
<1> QED
  BY <1>1 DEF Balance, Failed

(* The operation that acts keeps its account. *)
LEMMA OwnBalance ==
  ASSUME RowsInv, NEW o \in Operations, Account(o) \/ Query(o), alone[o]
  PROVE  Balance(o)'
<1>0. /\ IInv /\ Tidy(db) /\ RowsOf(o) /\ Stages(o) /\ Balance(o) /\ UnderWay(o)
      /\ Sound(db) /\ Control /\ Outcomes /\ Program
  BY ActsUnderWay DEF RowsInv, Books, IInv
<1>1. kind' = kind /\ subject' = subject /\ alone' = alone
  BY <1>0, MovesOne
<1>2. Later(db, db', Added(o)) /\ (at[o] # "insert" => By(db', o) \subseteq By(db, o))
  BY <1>0, StepRows, OwnRows
<1>3. Sound(db') /\ Tidy(db')
  BY <1>0, <1>2, CallsSound DEF Later
<1>4. ~InTransaction(o) => Idle(db) /\ db.pending = {}
  BY <1>0, AloneIdle DEF Idle, Tidy
<1>5. at[o] \notin {"insert", "errno", "commit", "rollback", "enter"} => By(db', o) = {}
  BY <1>0, <1>2 DEF RowsOf, UnderWay, Ended
<1>6. By(db, o)' = By(db', o)
  BY DEF By, Client!Visible
<1> USE DEF Control, Outcomes
<1>7. CASE QuoteRow(o)
  <2>1. at[o] = "quoteRow" /\ at'[o] = "insert" /\ db' \in Client!Escape(db)
    BY <1>0, <1>7 DEF QuoteRow, Quotes, Moves, Calls
  <2>2. kind[o] = "login" => InSession(db')
    BY <1>0, <2>1, EscapeRows DEF Balance
  <2> QED
    BY <1>1, <2>1, <2>2 DEF Balance, Successful, Failed
<1>8. CASE QuoteName(o) \/ QuoteToken(o) \/ QuoteRange(o) \/ Gate(o) \/ LogOut(o) \/ Admit(o)
  <2>1. at'[o] \in {"lookup", "list", "logout", "admit", "quote", "turnedAway"}
    BY <1>0, <1>8 DEF QuoteName, QuoteToken, QuoteRange, Gate, LogOut, Admit, Quotes, Moves
  <2> QED
    BY <2>1 DEF Balance, Successful, Failed
<1>9. CASE FindUser(o)
  <2>1. /\ at[o] = "lookup" /\ kind[o] = "register" /\ at'[o] \in {"done", "quoteRow"}
        /\ at'[o] = "done" => answer'[o] # "SUCCESS"
    BY <1>0, <1>9 DEF FindUser, Moves, Answers
  <2> QED
    BY <1>1, <1>5, <1>6, <2>1, NoRowsBalance DEF Successful
<1>10. CASE FindLogin(o)
  <2>1. /\ at[o] = "lookup" /\ at'[o] \in {"done", "begin"}
        /\ at'[o] = "done" => answer'[o] # "SUCCESS"
    BY <1>0, <1>10 DEF FindLogin, Moves, Answers
  <2> QED
    BY <1>1, <1>5, <1>6, <2>1, NoRowsBalance DEF Successful
<1>11. CASE BeginTransaction(o)
  <2>1. /\ at[o] = "begin" /\ db' \in Client!BeginTransaction(db)
        /\ \/ db'.errno = "none" /\ at'[o] = "quoteRow"
           \/ at'[o] = "done" /\ answer'[o] # "SUCCESS"
    BY <1>0, <1>11 DEF BeginTransaction, Moves, Answers, Calls, Succeeds
  <2>2. CASE db'.errno = "none" /\ at'[o] = "quoteRow"
    <3>1. InSession(db')
      BY <1>0, <2>1, <2>2, BeginRows
    <3> QED
      BY <2>2, <3>1 DEF Balance, Successful, Failed
  <2>3. CASE at'[o] = "done" /\ answer'[o] # "SUCCESS"
    BY <1>5, <1>6, <2>1, <2>3, NoRowsBalance DEF Successful
  <2> QED
    BY <2>1, <2>2, <2>3
<1>12. CASE FindSession(o) \/ List(o)
  <2>1. at[o] \in {"lookup", "list"} /\ at'[o] \in {"done", "quoteRange", "list"}
    BY <1>0, <1>12 DEF FindSession, List, Moves
  <2>2. kind[o] \in Queries
    BY <1>0, <1>12 DEF FindSession, List, Moves, Stages
  <2>3. ~Successful(o)' /\ kind'[o] # "login"
    BY <1>1, <2>1, <2>2 DEF Successful, Queries
  <2> QED
    BY <1>5, <1>6, <2>1, <2>3, NoRowsBalance
<1>13. CASE Store(o)
  <2>1. /\ at[o] = "insert" /\ kind[o] \in {"register", "record"}
        /\ db' \in Client!Execute(db, RowInsert(o))
        /\ \/ db'.errno = "none" /\ at'[o] = "done" /\ answer'[o] = "SUCCESS"
           \/ db'.errno # "none" /\ at'[o] \in {"errno", "done"}
              /\ (at'[o] = "done" => answer'[o] # "SUCCESS")
        /\ ~disturbed'[o] => db'.faults = db.faults
    BY <1>0, <1>13 DEF Store, Moves, Answers, Calls, Succeeds, Doubts
  <2>2. PICK s : s = RowInsert(o) /\ IsInsert(s) /\ s.by = o
    BY <1>0, <2>1, RowInsertKnown
  <2>3. Idle(db) /\ By(db, o) = {} /\ kind'[o] # "login"
    BY <1>0, <1>1, <1>4, <2>1 DEF InTransaction, RowsOf
  <2>4. /\ db'.errno = "none" => By(db', o) # {}
        /\ db'.errno # "none" /\ db'.faults = db.faults => By(db', o) = {}
        /\ db'.errno = "none" /\ db'.faults = db.faults => \E r : By(db', o) = {r}
    <3>1. By(db, s.by) = {} /\ db' \in Client!Execute(db, s)
      BY <2>1, <2>2, <2>3
    <3>2. /\ db'.errno = "none" => By(db', s.by) # {}
          /\ db'.errno # "none" /\ db'.faults = db.faults => By(db', s.by) = {}
          /\ db'.errno = "none" /\ db'.faults = db.faults => \E r : By(db', s.by) = {r}
      <4>1. Sound(db) /\ Tidy(db) /\ Idle(db) /\ IsInsert(s)
        BY <1>0, <2>2, <2>3
      <4> QED
        BY <3>1, <4>1, InsertAlone, Zenon
    <3> QED
      BY <2>2, <3>2
  <2>5. db'.pending = {}
    <3>1. IsStatement(s) /\ s.kind # "start"
      BY <2>2 DEF IsStatement, IsInsert, Client!Insert
    <3>2. Idle(db')
      BY <1>0, <2>1, <2>2, <2>3, <3>1, ExecuteSound
    <3> QED
      BY <1>3, <3>2 DEF Idle, Tidy
  <2> QED
    BY <1>6, <2>1, <2>3, <2>4, <2>5 DEF Balance, Successful, Failed
<1>14. CASE AskErrno(o)
  <2>1. /\ at[o] = "errno" /\ at'[o] = "done" /\ answer'[o] # "SUCCESS" /\ db' = db
        /\ disturbed' = disturbed /\ kind[o] = "register"
    BY <1>0, <1>14 DEF AskErrno, Moves, Answers, NoGateNoDoubt, Stages
  <2>2. db'.pending = {}
    BY <1>4, <2>1 DEF InTransaction
  <2>3. ~disturbed'[o] => By(db', o) = {}
    BY <1>0, <2>1 DEF Balance, Failed
  <2> QED
    BY <1>6, <2>1, <2>2, <2>3 DEF Balance, Successful, Failed
<1>15. CASE StoreSession(o)
  <2>1. /\ at[o] = "insert" /\ kind[o] = "login"
        /\ db' \in Client!Execute(db, RowInsert(o))
        /\ at'[o] = IF db'.errno = "none" THEN "commit" ELSE "rollback"
    BY <1>0, <1>15 DEF StoreSession, Moves, Calls, Succeeds
  <2>2. PICK s : s = RowInsert(o) /\ IsInsert(s) /\ s.by = o
    BY <1>0, <2>1, RowInsertKnown
  <2>3. InSession(db) /\ By(db, o) = {}
    BY <1>0, <2>1 DEF RowsOf, Balance
  <2>4. /\ db'.errno # "none" => By(db', o) = {}
        /\ db'.errno = "none" => /\ InSession(db') /\ (\A r \in db'.stored : r.by # o)
                                 /\ \E r : By(db', o) = {r}
    <3>1. By(db, s.by) = {} /\ db' \in Client!Execute(db, s)
      BY <2>1, <2>2, <2>3
    <3>2. /\ db'.errno # "none" => By(db', s.by) = {}
          /\ db'.errno = "none" => /\ InSession(db') /\ (\A r \in db'.stored : r.by # s.by)
                                   /\ \E r : By(db', s.by) = {r}
      BY <1>0, <2>2, <2>3, <3>1, InsertInSession
    <3> QED
      BY <2>2, <3>2
  <2> QED
    BY <1>6, <2>1, <2>4 DEF Balance, Successful, Failed
<1>16. CASE CommitSession(o)
  <2>1. /\ at[o] = "commit" /\ kind[o] = "login" /\ db' \in Client!CommitTransaction(db)
        /\ \/ db'.errno = "none" /\ at'[o] = "enter"
           \/ db'.errno # "none" /\ at'[o] = "rollback"
        /\ ~disturbed'[o] => db'.faults = db.faults
    BY <1>0, <1>16 DEF CommitSession, Moves, Calls, Succeeds, Doubts, Stages
  <2>2. InSession(db) /\ (\E r : By(db, o) = {r})
    BY <1>0, <2>1 DEF Balance
  <2>3. /\ db'.errno = "none" => db'.stored = db.stored \cup db.pending
        /\ db'.errno # "none" => db'.faults # db.faults
        /\ db'.pending = {}
    BY <1>0, <1>3, <2>1, <2>2, CommitRows, CommitSound DEF Idle, Tidy
  <2>4. db'.errno = "none" => By(db', o) = By(db, o)
    BY <2>3 DEF By, Client!Visible
  <2> QED
    BY <1>6, <2>1, <2>2, <2>3, <2>4 DEF Balance, Successful, Failed
<1>17. CASE RollbackSession(o)
  <2>1. /\ at[o] = "rollback" /\ at'[o] = "done" /\ answer'[o] # "SUCCESS"
        /\ db' \in Client!RollbackTransaction(db) /\ disturbed' = disturbed
    BY <1>0, <1>17 DEF RollbackSession, Moves, Calls, Answers, NoGateNoDoubt
  <2>2. db'.pending = {}
    BY <1>0, <1>3, <2>1, RollbackSound DEF Idle, Tidy
  <2>3. ~disturbed'[o] => By(db', o) = {}
    BY <1>0, <1>2, <2>1 DEF Balance, Failed
  <2> QED
    BY <1>6, <2>1, <2>2, <2>3 DEF Balance, Successful, Failed
<1>18. CASE Enter(o)
  <2>1. /\ at[o] = "enter" /\ at'[o] = "done" /\ answer' = answer /\ answer[o] = "SUCCESS"
        /\ db' = db /\ disturbed' = disturbed
    BY <1>0, <1>18 DEF Enter, Moves, Stages
  <2> QED
    BY <1>0, <1>6, <2>1 DEF Balance, Successful, Failed
<1> QED
  BY <1>7, <1>8, <1>9, <1>10, <1>11, <1>12, <1>13, <1>14, <1>15, <1>16, <1>17, <1>18
  DEF Account, Query

(* Where an operation that acts may come to, and that the login whose token *)
(* it presents is still the one that it presented.                          *)
LEMMA OwnStages ==
  ASSUME RowsInv, NEW o \in Operations, Account(o) \/ Query(o)
  PROVE  Stages(o)' /\ Token(o)'
<1>0. /\ IInv /\ Stages(o) /\ Token(o) /\ UnderWay(o) /\ Control /\ Outcomes /\ Program
      /\ kind' = kind /\ subject' = subject /\ (\A q \in Operations \ {o} : at'[q] = at[q])
  <2>1. IInv /\ Stages(o) /\ Token(o) /\ Control /\ Outcomes /\ Program
    BY DEF RowsInv, Books, IInv
  <2> QED
    BY <2>1, ActsUnderWay, MovesOne DEF Control
<1>1. Stages(o)'
  <2>1. CASE QuoteName(o) \/ QuoteRow(o) \/ QuoteToken(o) \/ Gate(o) \/ LogOut(o) \/ Admit(o)
    BY <1>0, <2>1 DEF QuoteName, QuoteRow, QuoteToken, Gate, LogOut, Admit, Quotes, Moves, Stages,
                      Control
  <2>2. CASE FindUser(o) \/ FindLogin(o) \/ BeginTransaction(o) \/ AskErrno(o) \/ List(o)
    BY <1>0, <2>2 DEF FindUser, FindLogin, BeginTransaction, AskErrno, List, Moves, Stages, Control
  <2>3. CASE RollbackSession(o) \/ Enter(o) \/ Store(o) \/ StoreSession(o)
    BY <1>0, <2>3 DEF RollbackSession, Enter, Store, StoreSession, Moves, Stages, Control
  <2>4. CASE CommitSession(o)
    BY <1>0, <2>4 DEF CommitSession, Moves, Answers, Stages, Control, Outcomes
  <2>5. CASE FindSession(o)
    BY <1>0, <2>5 DEF FindSession, Moves, Stages, Control
  <2>6. CASE QuoteRange(o)
    BY <1>0, <2>6 DEF QuoteRange, Quotes, Moves, Stages, Control
  <2> QED
    BY <2>1, <2>2, <2>3, <2>4, <2>5, <2>6 DEF Account, Query
<1>2. Token(o)'
  <2>1. ASSUME kind[o] \in Queries
        PROVE  subject[o] \in Operations \ {o} /\ answer'[subject[o]] = answer[subject[o]]
    <3>1. subject[o] \in Operations \ {o}
      BY <1>0, <2>1 DEF Token, UnderWay, Ended
    <3> QED
      BY <1>0, <3>1, TouchesOne
  <2> QED
    BY <1>0, <2>1 DEF Token
<1> QED
  BY <1>1, <1>2

(* hasActiveSession() turns away only a token that it could not read or     *)
(* that belongs to a login that was not alone.                              *)
LEMMA TokenFound ==
  ASSUME RowsInv, NEW o \in Operations, FindSession(o), answer'[o] = "UNAUTHORIZED", at'[o] = "done",
         ~blank[o], ~disturbed'[o]
  PROVE  blank[subject[o]] \/ ~alone[subject[o]]
<1>0. IInv /\ Control /\ Outcomes /\ Sound(db) /\ Tidy(db) /\ Token(o)
  BY DEF RowsInv, Books, IInv
<1>1. /\ kind[o] \in Queries /\ at[o] = "lookup" /\ db' \in Client!Execute(db, Client!Select)
      /\ disturbed' = [disturbed EXCEPT ![o] = @ \/ db'.faults # db.faults]
      /\ db'.errno # "none" \/ ~Client!Found(db', "user_sessions", Sought(o))
  BY <1>0 DEF FindSession, Calls, Doubts, Moves, Succeeds, Control
<1>2. db'.faults = db.faults
  BY <1>0, <1>1 DEF Outcomes
<1>3. IsStatement(Client!Select) /\ Client!Select.kind = "select"
  BY DEF IsStatement, Client!Select
<1>4. db'.errno = "none" /\ db.stored \subseteq db'.stored
  BY <1>0, <1>1, <1>2, <1>3, ExecuteRows DEF Later
<1>5. ~Client!Found(db', "user_sessions", subject[o])
  BY <1>1, <1>4 DEF Sought
<1>6. PICK l \in Operations :
        /\ l = subject[o] /\ kind[l] = "login" /\ at[l] = "done" /\ answer[l] = "SUCCESS"
  BY <1>0, <1>1 DEF Token
<1>7. ASSUME alone[l], ~blank[l] PROVE FALSE
  <2>1. Balance(l) /\ RowsOf(l)
    BY <1>7 DEF RowsInv, Books
  <2>2. Successful(l)
    BY <1>6 DEF Successful, Queries
  <2>3. PICK r : r \in By(db, l)
    BY <2>1, <2>2 DEF Balance
  <2>4. r \in db.stored
    BY <1>6, <2>1, <2>3 DEF Balance, By, Client!Visible
  <2>5. r.table = "user_sessions" /\ r.key = l
    BY <1>6, <1>7, <2>1, <2>3 DEF RowsOf, TableOf, KeyOf
  <2> QED
    BY <1>4, <1>5, <1>6, <2>4, <2>5 DEF Client!Found, Client!Visible
<1> QED
  BY <1>6, <1>7

LEMMA TokenKept ==
  ASSUME RowsInv, NEW o \in Operations, Account(o) \/ Query(o)
  PROVE  TokenIsAccepted'
<1>0. /\ IInv /\ Control /\ Outcomes /\ TokenIsAccepted /\ UnderWay(o) /\ Stages(o)
      /\ kind' = kind /\ subject' = subject /\ alone' = alone
      /\ \A q \in Operations \ {o} : at'[q] = at[q]
  <2>1. IInv /\ TokenIsAccepted /\ Control /\ Outcomes /\ Stages(o)
    BY DEF RowsInv, Books, IInv
  <2> QED
    BY <2>1, ActsUnderWay, MovesOne DEF Control
<1>1. SUFFICES ASSUME NEW p \in Operations,
                      at'[p] = "done", kind[p] \in Queries, answer'[p] = "UNAUTHORIZED",
                      ~blank'[p], ~disturbed'[p], ~blank'[subject[p]]
               PROVE  ~alone[subject[p]]
  BY <1>0 DEF TokenIsAccepted
<1>2. /\ Token(p)
      /\ subject[p] \in Operations /\ at[subject[p]] = "done"
  BY <1>1 DEF RowsInv, Books, Token
<1>3. subject[p] # o
  BY <1>0, <1>2 DEF UnderWay, Ended
<1>4. blank'[subject[p]] = blank[subject[p]]
  BY <1>0, <1>2, <1>3, TouchesOne
<1>5. CASE p # o
  <2>1. blank'[p] = blank[p] /\ answer'[p] = answer[p] /\ disturbed'[p] = disturbed[p]
    BY <1>0, <1>5, TouchesOne
  <2> QED
    BY <1>0, <1>1, <1>4, <1>5, <2>1 DEF TokenIsAccepted
<1>6. CASE p = o
  <2>1. FindSession(o)
    <3>0. kind[o] \in Queries /\ at'[o] = "done" /\ answer'[o] = "UNAUTHORIZED"
      BY <1>1, <1>6
    <3>1. ~(QuoteName(o) \/ QuoteRow(o) \/ QuoteToken(o) \/ Gate(o) \/ LogOut(o) \/ Admit(o)
            \/ QuoteRange(o))
      BY <1>0, <3>0 DEF QuoteName, QuoteRow, QuoteToken, Gate, LogOut, Admit, QuoteRange, Quotes, Moves,
                        Control
    <3>2. ~(FindUser(o) \/ FindLogin(o) \/ Store(o) \/ StoreSession(o))
      BY <3>0 DEF FindUser, FindLogin, Store, StoreSession, Queries
    <3>3. ~(BeginTransaction(o) \/ CommitSession(o))
      BY <1>0, <3>0 DEF BeginTransaction, CommitSession, Moves, Answers, Control, Outcomes
    <3>4. ~(AskErrno(o) \/ RollbackSession(o) \/ List(o))
      BY <1>0, <3>0 DEF AskErrno, RollbackSession, List, Answers, Outcomes
    <3>5. ~Enter(o)
      BY <1>0, <3>0 DEF Enter, Moves, Stages
    <3> QED
      BY <3>1, <3>2, <3>3, <3>4, <3>5 DEF Account, Query
  <2>2. blank' = blank
    BY <2>1 DEF FindSession
  <2> QED
    BY <1>1, <1>4, <1>6, <2>1, <2>2, TokenFound
<1> QED
  BY <1>5, <1>6

(* An operation that begins has no row, and is alone only if no other is    *)
(* under way.                                                               *)
LEMMA BeginKept == ASSUME RowsInv, NEW o \in Operations, Begin(o) PROVE Books'
<1>0. /\ IInv /\ Books /\ Control /\ Outcomes /\ Tidy(db) /\ Aloneness /\ TokenIsAccepted
      /\ \A p \in Operations : RowsOf(p) /\ Stages(p) /\ Token(p) /\ (alone[p] => Balance(p))
  BY DEF RowsInv, Books, IInv
<1>1. PICK k \in Kinds, s \in {Nobody} \cup Operations \cup Names :
        /\ at[o] = "new"
        /\ kind' = [kind EXCEPT ![o] = k] /\ at' = [at EXCEPT ![o] = FirstStep(k)]
        /\ subject' = [subject EXCEPT ![o] = s]
        /\ k \in Queries => /\ s \in Operations /\ kind[s] = "login" /\ at[s] = "done"
                            /\ answer[s] = "SUCCESS"
        /\ alone' = [p \in Operations |-> IF p = o THEN \A q \in Operations : ~UnderWay(q)
                                                   ELSE alone[p] /\ ~UnderWay(p)]
        /\ db' = db /\ blank' = blank /\ answer' = answer /\ disturbed' = disturbed
  BY DEF Begin, Queries
<1>2. FirstStep(k) \in {"quoteRow", "gate", "quote"} /\ (FirstStep(k) = "quoteRow" => k = "record")
  BY DEF FirstStep
<1>3. /\ kind'[o] = k /\ at'[o] = FirstStep(k) /\ subject'[o] = s
      /\ \A p \in Operations \ {o} :
           kind'[p] = kind[p] /\ at'[p] = at[p] /\ subject'[p] = subject[p]
           /\ UnderWay(p)' = UnderWay(p)
  BY <1>0, <1>1 DEF Control, UnderWay
<1>4. \A p \in Operations : alone'[p] =>
        IF p = o THEN \A q \in Operations : ~UnderWay(q) ELSE alone[p] /\ ~UnderWay(p)
  BY <1>1
<1>5. Tidy(db)'
  BY <1>0, <1>1
<1>6. Aloneness'
  BY <1>3, <1>4 DEF Aloneness
<1>7. ASSUME NEW p \in Operations, p # o
      PROVE  RowsOf(p)' /\ Stages(p)' /\ Token(p)' /\ (alone[p] => Balance(p))'
  <2>1. By(db, p)' = By(db, p)
    BY <1>1 DEF By, Client!Visible
  <2>2. RowsOf(p)'
    BY <1>0, <1>1, <1>3, <1>7, <2>1 DEF RowsOf, KeyOf
  <2>3. Stages(p)'
    BY <1>0, <1>1, <1>3, <1>7 DEF Stages
  <2>4. Token(p)'
    <3>1. ASSUME kind[p] \in Queries
          PROVE  /\ subject[p] \in Operations \ {o} /\ kind[subject[p]] = "login"
                 /\ at[subject[p]] = "done" /\ answer[subject[p]] = "SUCCESS"
      BY <1>0, <1>1, <3>1 DEF Token
    <3> QED
      BY <1>1, <1>3, <1>7, <3>1 DEF Token
  <2>5. ASSUME alone'[p] PROVE Balance(p)'
    <3>1. Balance(p)
      BY <1>0, <1>4, <1>7, <2>5
    <3> QED
      BY <1>1, <1>3, <1>7, <2>1, <3>1 DEF Balance, Successful, Failed
  <2> QED
    BY <2>2, <2>3, <2>4, <2>5
<1>8. RowsOf(o)' /\ Stages(o)' /\ Token(o)' /\ (alone[o] => Balance(o))'
  <2>1. By(db, o)' = {}
    BY <1>0, <1>1 DEF RowsOf, By, Client!Visible
  <2>2. RowsOf(o)'
    BY <2>1 DEF RowsOf, By
  <2>3. Stages(o)' /\ Balance(o)'
    BY <1>2, <1>3 DEF Stages, Balance, Successful, Failed
  <2>4. Token(o)'
    <3>1. ASSUME k \in Queries
          PROVE  s \in Operations \ {o} /\ kind'[s] = "login" /\ at'[s] = "done"
      BY <1>1, <1>3, <3>1
    <3> QED
      BY <1>1, <1>3, <3>1 DEF Token
  <2> QED
    BY <2>2, <2>3, <2>4
<1>9. TokenIsAccepted'
  <2>1. SUFFICES ASSUME NEW p \in Operations,
                        at'[p] = "done", kind'[p] \in Queries, answer'[p] = "UNAUTHORIZED",
                        ~blank'[p], ~disturbed'[p]
                 PROVE  blank'[subject'[p]] \/ ~alone'[subject'[p]]
    BY DEF TokenIsAccepted
  <2>2. p # o
    BY <1>2, <1>3, <2>1
  <2>3. blank[subject[p]] \/ ~alone[subject[p]]
    BY <1>0, <1>1, <1>3, <2>1, <2>2 DEF TokenIsAccepted
  <2>4. subject'[p] = subject[p] /\ subject[p] \in Operations \ {o}
    <3>1. subject'[p] = subject[p] /\ kind[p] \in Queries
      BY <1>3, <2>1, <2>2
    <3> QED
      BY <1>0, <1>1, <3>1 DEF Token
  <2> QED
    BY <1>1, <1>4, <2>3, <2>4
<1> QED
  BY <1>5, <1>6, <1>7, <1>8, <1>9 DEF Books

LEMMA BooksKept == ASSUME RowsInv, [Next]_vars PROVE Books'
<1>1. CASE Age \/ UNCHANGED vars
  <2>1. /\ db' = db /\ kind' = kind /\ at' = at /\ subject' = subject /\ blank' = blank
        /\ answer' = answer /\ alone' = alone /\ disturbed' = disturbed
    BY <1>1 DEF Age, vars, opVars
  <2>2. Tidy(db)' /\ Aloneness' /\ TokenIsAccepted'
    BY <2>1 DEF RowsInv, Books, Aloneness, UnderWay, TokenIsAccepted
  <2>3. ASSUME NEW p \in Operations
        PROVE  RowsOf(p)' /\ Stages(p)' /\ Token(p)' /\ (alone[p] => Balance(p))'
    <3>1. By(db, p)' = By(db, p)
      BY <2>1 DEF By, Client!Visible
    <3>2. RowsOf(p) /\ Stages(p) /\ Token(p) /\ (alone[p] => Balance(p))
      BY DEF RowsInv, Books
    <3>3. RowsOf(p)' /\ Stages(p)' /\ Token(p)'
      BY <2>1, <3>1, <3>2 DEF RowsOf, KeyOf, Stages, Token
    <3>4. (alone[p] => Balance(p))'
      BY <2>1, <3>1, <3>2 DEF Balance, Successful, Failed
    <3> QED
      BY <3>3, <3>4
  <2> QED
    BY <2>2, <2>3 DEF Books
<1>2. ASSUME NEW o \in Operations, Begin(o) PROVE Books'
  BY <1>2, BeginKept
<1>3. ASSUME NEW o \in Operations, Account(o) \/ Query(o) PROVE Books'
  <2>1. Tidy(db)' /\ IInv /\ Control /\ Aloneness
    BY <1>3, StepRows DEF Later, RowsInv, Books, IInv
  <2>2. alone' = alone /\ (\A q \in Operations \ {o} : at'[q] = at[q]) /\ UnderWay(o)
    BY <1>3, <2>1, MovesOne, ActsUnderWay DEF Control
  <2>3. Aloneness'
    BY <2>1, <2>2 DEF Aloneness, UnderWay
  <2>4. ASSUME NEW p \in Operations
        PROVE  RowsOf(p)' /\ Stages(p)' /\ Token(p)' /\ (alone[p] => Balance(p))'
    <3>1. CASE p # o
      BY <1>3, <3>1, OthersKept
    <3>2. RowsOf(o)' /\ Stages(o)' /\ Token(o)' /\ (alone[o] => Balance(o)')
      BY <1>3, OwnRows, OwnStages, OwnBalance
    <3> QED
      BY <2>2, <3>1, <3>2
  <2> QED
    BY <1>3, <2>1, <2>3, <2>4, TokenKept DEF Books
<1> QED
  BY <1>1, <1>2, <1>3 DEF Next

LEMMA RowsInvAlways == Spec => []RowsInv
<1>1. ASSUME Init, IInv PROVE RowsInv
  <2>1. PICK known \in SUBSET Names :
          db.pending = {} /\ db.stored =
            {[table |-> "users", key |-> n, user |-> Nobody, by |-> Nobody, attempt |-> 1] : n \in known}
    BY <1>1 DEF Init
  <2>2. \A o \in Operations : By(db, o) = {}
    BY <2>1, DataServicesAssumption DEF By, Client!Visible
  <2>3. \A o \in Operations : at[o] = "new" /\ kind[o] = "none"
    <3>1. at = [o \in Operations |-> "new"] /\ kind = [o \in Operations |-> "none"]
      BY <1>1 DEF Init
    <3>2. ASSUME NEW o \in Operations PROVE at[o] = "new" /\ kind[o] = "none"
      BY <3>1
    <3> QED
      BY <3>2, Zenon
  <2>4. ASSUME NEW o \in Operations PROVE RowsOf(o) /\ Stages(o) /\ Token(o) /\ Balance(o)
    <3>1. at[o] = "new" /\ kind[o] = "none" /\ By(db, o) = {}
      BY <2>2, <2>3
    <3> QED
      BY <3>1 DEF RowsOf, Stages, Token, Balance, Successful, Failed, Queries
  <2>5. Tidy(db) /\ Aloneness /\ TokenIsAccepted
    BY <2>1, <2>3 DEF Tidy, Aloneness, UnderWay, TokenIsAccepted
  <2> QED
    BY <1>1, <2>4, <2>5 DEF RowsInv, Books
<1>2. ASSUME RowsInv, IInv', [Next]_vars PROVE RowsInv'
  BY <1>2, BooksKept DEF RowsInv
<1> QED
  BY <1>1, <1>2, IInvAlways, PTL DEF Spec

(* An operation that nothing overlapped and that is over has its rows       *)
(* committed or not at all: none waits for a commit.                        *)
LEMMA NoneWaits ==
  ASSUME RowsInv, NEW o \in Operations, alone[o], at[o] = "done"
  PROVE  By(db, o) = RowsBy(o) /\ Balance(o)
<1>1. Balance(o)
  BY DEF RowsInv, Books
<1> QED
  BY <1>1 DEF Balance, By, RowsBy, Client!Visible

-------------------------------------------------------------------------------
(* A registration, a recording or a login that nothing overlapped and that  *)
(* is answered SUCCESS has its row committed, once unless an answer was     *)
(* lost, and under its own key: UserService.cc, RecordService.cc and the    *)
(* retry of execute() in MySQLClient.cc, whatever the faults.               *)
THEOREM SuccessStored == Spec => []SuccessIsStored
<1>1. ASSUME RowsInv PROVE SuccessIsStored
  <2>1. SUFFICES ASSUME NEW o \in Operations, at[o] = "done", answer[o] = "SUCCESS",
                        kind[o] \notin Queries, alone[o]
                 PROVE  /\ RowsBy(o) # {}
                        /\ ~disturbed[o] => \E r \in RowsBy(o) : RowsBy(o) = {r}
                        /\ ~blank[o] => \A r \in RowsBy(o) :
                             r.key = IF kind[o] = "register" THEN subject[o] ELSE o
    BY DEF SuccessIsStored
  <2>2. By(db, o) = RowsBy(o) /\ Balance(o) /\ RowsOf(o)
    BY <1>1, <2>1, NoneWaits DEF RowsInv, Books
  <2>3. RowsBy(o) # {} /\ (~disturbed[o] => \E r : RowsBy(o) = {r})
    BY <2>1, <2>2 DEF Balance, Successful
  <2>4. ~blank[o] => \A r \in RowsBy(o) : r.key = KeyOf(o)
    BY <2>2 DEF RowsOf
  <2> QED
    BY <2>3, <2>4 DEF KeyOf
<1> QED
  BY <1>1, RowsInvAlways, PTL

(* One that is answered with a failure has left no row, committed or        *)
(* waiting, unless the answer to its INSERT or its commit was lost          *)
(* (rollback() at UserService.cc:202, the retry at MySQLClient.cc:268).     *)
THEOREM FailureLeaves == Spec => []FailureLeavesNothing
<1>1. ASSUME RowsInv PROVE FailureLeavesNothing
  BY <1>1, NoneWaits DEF FailureLeavesNothing, Balance, Failed, By
<1> QED
  BY <1>1, RowsInvAlways, PTL

(* hasActiveSession() turns away no token of a login that nothing           *)
(* overlapped and that was answered SUCCESS, as long as escape() had a      *)
(* connection and the query itself no fault.                                *)
THEOREM TokenAccepted == Spec => []TokenIsAccepted
<1>1. RowsInv => TokenIsAccepted
  BY DEF RowsInv, Books
<1> QED
  BY <1>1, RowsInvAlways, PTL
===============================================================================
