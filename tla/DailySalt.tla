----------------------------- MODULE DailySalt ------------------------------
(***************************************************************************)
(* The salt of the visitor ids (salter.go): every SaveEvent goroutine asks *)
(* getSalt for it.  A process keeps the salt in memory for a day, under a  *)
(* mutex; the goroutine that finds it expired refreshes it from the salt   *)
(* table, in a transaction on a connection of the pool, while the others   *)
(* wait for the mutex.  Several processes may share the table.             *)
(*                                                                         *)
(* The database (external) runs at READ COMMITTED.  The statements of the  *)
(* DO block of UpdateSalt see each what was committed when they started;   *)
(* DELETE waits for a transaction that has deleted one of its rows, and    *)
(* then deletes those of its rows that are still there.                    *)
(***************************************************************************)
EXTENDS Integers, FiniteSets

CONSTANTS
  Processes,  \* the server processes there may be
  Callers,    \* the SaveEvent goroutines of a process
  Day,        \* the 24 hours of getSalt, in units of the clock
  PoolSize,   \* connections in the pool of a process
  MaxTime,    \* bound: the clock stops here
  MaxCalls,   \* bound: calls of getSalt in all
  MaxFaults   \* bound: database errors and restarts in all

ASSUME SaltAssumption ==
  /\ IsFiniteSet(Processes)
  /\ Day \in Nat \ {0}
  /\ PoolSize \in Nat \ {0}
  /\ {MaxTime, MaxCalls, MaxFaults} \subseteq Nat

VARIABLES
  running,  \* the server processes there are
  now,      \* the clock of processes and database
  salt,     \* table salt: its committed rows [salt, created]
  memory,   \* memory[p]: the DailySalt of process p, salt and created_at
  call,     \* call[p][c]: where goroutine c of process p is in getSalt
  tx,       \* tx[p]: the refresh of process p, run by the one inside the lock
  conns,    \* conns[p]: the connections acquired for refreshes
  issued,   \* what getSalt returned: [salt, created, at]
  salts,    \* how many salts gen_random_uuid has made
  calls,    \* how many calls there were
  faults    \* how many errors and restarts there were

vars == <<running, now, salt, memory, call, tx, conns, issued, salts, calls,
          faults>>

\* created_at is the zero time until the first refresh.
Never == -(Day + 1)
\* Salts are numbered as they are drawn; these two are not from the table.
NoSalt == 0        \* the empty string
InitialSalt == -1  \* the one NewDailySalt draws
Initial == [salt |-> InitialSalt, created |-> Never]
\* getSalt's answer if there was an error.
Nothing == [salt |-> NoSalt, created |-> Never]

NoTx == [phase |-> "none",
         start |-> Never,     \* CURRENT_TIMESTAMP
         seen |-> {},         \* the rows DELETE has found
         deleted |-> {},
         inserted |-> {},
         result |-> Nothing]  \* the row GetSalt returned

\* The deployment runs one process or several, and keeps to it.
Init ==
  /\ running \in (SUBSET Processes) \ {{}}
  /\ now = 0
  /\ salt = {}
  /\ memory = [p \in Processes |-> Initial]
  /\ call = [p \in Processes |-> [c \in Callers |-> "idle"]]
  /\ tx = [p \in Processes |-> NoTx]
  /\ conns = [p \in Processes |-> 0]
  /\ issued = {}
  /\ salts = 0
  /\ calls = 0
  /\ faults = 0
-----------------------------------------------------------------------------
(***************************************************************************)
(* getSalt up to the transaction.                                          *)
(***************************************************************************)
Free(p) == \A c \in Callers : call[p][c] # "inside"

Phase(p, phase) == tx[p].phase = phase

\* created_at.Before(time.Now().Add(-24 * time.Hour))
Expired(p) == memory[p].created < now - Day

\* createVisitID calls getSalt.
CallGetSalt(p, c) ==
  /\ call[p][c] = "idle"
  /\ calls < MaxCalls
  /\ calls' = calls + 1
  /\ call' = [call EXCEPT ![p][c] = "lock"]
  /\ UNCHANGED <<running, now, salt, memory, tx, conns, issued, salts, faults>>

\* The salt in memory is not expired.
ReturnCached(p, c) ==
  /\ call[p][c] = "lock"
  /\ Free(p)
  /\ ~Expired(p)
  /\ call' = [call EXCEPT ![p][c] = "idle"]
  /\ issued' = issued \cup {[salt |-> memory[p].salt,
                             created |-> memory[p].created, at |-> now]}
  /\ UNCHANGED <<running, now, salt, memory, tx, conns, salts, calls, faults>>

\* Fault: the expiry is checked before the lock is taken, not after.
StartRefreshUnchecked(p, c) ==
  /\ call[p][c] = "lock"
  /\ Free(p)
  /\ call' = [call EXCEPT ![p][c] = "inside"]
  /\ tx' = [tx EXCEPT ![p].phase = "begin"]
  /\ UNCHANGED <<running, now, salt, memory, conns, issued, salts, calls,
                 faults>>
\* Fault: the lock is not taken.
StartRefreshUnlocked(p, c) ==
  /\ call[p][c] = "lock"
  /\ Expired(p)
  /\ call' = [call EXCEPT ![p][c] = "inside"]
  /\ tx' = [tx EXCEPT ![p].phase = "begin"]
  /\ UNCHANGED <<running, now, salt, memory, conns, issued, salts, calls,
                 faults>>
StartRefresh(p, c) ==
  /\ call[p][c] = "lock"
  /\ Free(p)
  /\ Expired(p)
  /\ call' = [call EXCEPT ![p][c] = "inside"]
  /\ tx' = [tx EXCEPT ![p].phase = "begin"]
  /\ UNCHANGED <<running, now, salt, memory, conns, issued, salts, calls,
                 faults>>
-----------------------------------------------------------------------------
(***************************************************************************)
(* The transaction.                                                        *)
(***************************************************************************)
\* pool.Begin waits, without a timeout, until a connection is free.
Begin(p) ==
  /\ Phase(p, "begin")
  /\ conns[p] < PoolSize
  /\ conns' = [conns EXCEPT ![p] = @ + 1]
  /\ tx' = [tx EXCEPT ![p].phase = "if", ![p].start = now]
  /\ UNCHANGED <<running, now, salt, memory, call, issued, salts, calls,
                 faults>>

\* The condition of UpdateSalt: there is no salt, or the first row found has
\* an age above zero.  Times that are the same by the model's clock may differ
\* by that of the database.
EvaluateIf(p) ==
  /\ Phase(p, "if")
  /\ \/ /\ salt = {} \/ \E r \in salt : tx[p].start >= r.created
        /\ tx' = [tx EXCEPT ![p].phase = "delete"]
     \/ /\ \E r \in salt : tx[p].start <= r.created
        /\ tx' = [tx EXCEPT ![p].phase = "get"]
  /\ UNCHANGED <<running, now, salt, memory, call, conns, issued, salts, calls,
                 faults>>

StartDelete(p) ==
  /\ Phase(p, "delete")
  /\ tx' = [tx EXCEPT ![p].phase = "insert", ![p].seen = salt]
  /\ UNCHANGED <<running, now, salt, memory, call, conns, issued, salts, calls,
                 faults>>

\* Fault: the rows that are there are not deleted.
DeletedNothing(p) == {}
Deleted(p) == tx[p].seen \cap salt

\* DELETE ends when no other transaction holds one of its rows; INSERT.
DeleteAndInsert(p) ==
  /\ Phase(p, "insert")
  /\ \A q \in Processes \ {p} : tx[p].seen \cap tx[q].deleted = {}
  /\ salts' = salts + 1
  /\ tx' = [tx EXCEPT
             ![p].phase = "get",
             ![p].deleted = Deleted(p),
             ![p].inserted = {[salt |-> salts', created |-> tx[p].start]}]
  /\ UNCHANGED <<running, now, salt, memory, call, conns, issued, calls,
                 faults>>

\* The table as the transaction sees it.
View(p) == (salt \ tx[p].deleted) \cup tx[p].inserted

\* GetSalt: some row, there is no ORDER BY.
GetSalt(p) ==
  /\ Phase(p, "get")
  /\ \E r \in View(p) :
       tx' = [tx EXCEPT ![p].phase = "commit", ![p].result = r]
  /\ UNCHANGED <<running, now, salt, memory, call, conns, issued, salts, calls,
                 faults>>

\* getSalt returns `answer` and unlocks.
Return(p, answer) ==
  /\ call' = [call EXCEPT ![p] = [c \in Callers |->
                IF @[c] = "inside" THEN "idle" ELSE @[c]]]
  /\ issued' = issued \cup {[salt |-> answer.salt, created |-> answer.created,
                             at |-> now]}

\* The rows are committed, the memory is set, the connection is given back.
Commit(p) ==
  /\ Phase(p, "commit")
  /\ salt' = View(p)
  /\ memory' = [memory EXCEPT ![p] = tx[p].result]
  /\ conns' = [conns EXCEPT ![p] = @ - 1]
  /\ tx' = [tx EXCEPT ![p] = NoTx]
  /\ Return(p, tx[p].result)
  /\ UNCHANGED <<running, now, salts, calls, faults>>
-----------------------------------------------------------------------------
(***************************************************************************)
(* Errors: getSalt returns "" and the error; the memory stays as it was.   *)
(***************************************************************************)
CountFault ==
  /\ faults < MaxFaults
  /\ faults' = faults + 1

ReturnError(p) ==
  /\ CountFault
  /\ tx' = [tx EXCEPT ![p] = NoTx]
  /\ Return(p, Nothing)
  /\ UNCHANGED <<running, now, memory, salts, calls>>

\* No connection: there is none to give back.
BeginFails(p) ==
  /\ Phase(p, "begin")
  /\ ReturnError(p)
  /\ UNCHANGED <<salt, conns>>

\* The error of UpdateSalt is an `err` of its own (salter.go:49): the deferred
\* function sees none, so it does not roll back and the pool does not get its
\* connection back.  The server has aborted the transaction.
UpdateSaltFails(p) ==
  /\ tx[p].phase \in {"if", "delete", "insert"}
  /\ ReturnError(p)
  /\ UNCHANGED <<salt, conns>>

\* Fault: an error leaves the mutex locked.
GetSaltFailsLocked(p) ==
  /\ Phase(p, "get")
  /\ CountFault
  /\ tx' = [tx EXCEPT ![p] = NoTx]
  /\ conns' = [conns EXCEPT ![p] = @ - 1]
  /\ UNCHANGED <<running, now, salt, memory, call, issued, salts, calls>>
GetSaltFails(p) ==
  /\ Phase(p, "get")
  /\ ReturnError(p)
  /\ conns' = [conns EXCEPT ![p] = @ - 1]
  /\ UNCHANGED salt

\* COMMIT returns an error, and may have taken effect all the same.
CommitFails(p) ==
  /\ Phase(p, "commit")
  /\ ReturnError(p)
  /\ conns' = [conns EXCEPT ![p] = @ - 1]
  /\ salt' \in {salt, View(p)}

\* The process is started again.
Restart(p) ==
  /\ CountFault
  /\ memory' = [memory EXCEPT ![p] = Initial]
  /\ call' = [call EXCEPT ![p] = [c \in Callers |-> "idle"]]
  /\ tx' = [tx EXCEPT ![p] = NoTx]
  /\ conns' = [conns EXCEPT ![p] = 0]
  /\ UNCHANGED <<running, now, salt, issued, salts, calls>>

Tick ==
  /\ now < MaxTime
  /\ now' = now + 1
  /\ UNCHANGED <<running, salt, memory, call, tx, conns, issued, salts, calls,
                 faults>>
-----------------------------------------------------------------------------
Enter(p, c) == ReturnCached(p, c) \/ StartRefresh(p, c)

Refresh(p) ==
  \/ Begin(p) \/ EvaluateIf(p) \/ StartDelete(p) \/ DeleteAndInsert(p)
  \/ GetSalt(p) \/ Commit(p)

Fault(p) ==
  \/ BeginFails(p) \/ UpdateSaltFails(p) \/ GetSaltFails(p) \/ CommitFails(p)
  \/ Restart(p)

Next ==
  \/ \E p \in running :
       \/ \E c \in Callers : CallGetSalt(p, c) \/ Enter(p, c)
       \/ Refresh(p)
       \/ Fault(p)
  \/ Tick

Spec == Init /\ [][Next]_vars

\* Go's mutex does not starve a goroutine that waits for it, and a transaction
\* that can go on goes on.
FairSpec ==
  /\ Spec
  /\ \A p \in Processes :
       /\ WF_vars(Refresh(p))
       /\ \A c \in Callers : SF_vars(Enter(p, c))
-----------------------------------------------------------------------------
(***************************************************************************)
(* Properties.                                                             *)
(***************************************************************************)
SaltRow == [salt : Nat \ {0}, created : Nat]

\* The types of the variables; a process has no more connections than its
\* pool, and one goroutine inside the lock.
TypeOK ==
  /\ running \subseteq Processes /\ running # {}
  /\ now \in 0..MaxTime
  /\ \A r \in salt : r \in SaltRow
  /\ \A p \in Processes :
       /\ memory[p] \in SaltRow \cup {Initial}
       /\ conns[p] \in 0..PoolSize
       /\ tx[p].phase \in {"none", "begin", "if", "delete", "insert", "get",
                           "commit"}
       /\ Cardinality({c \in Callers : call[p][c] = "inside"})
            = IF Phase(p, "none") THEN 0 ELSE 1
  /\ salts \in Nat
  /\ calls \in 0..MaxCalls
  /\ faults \in 0..MaxFaults

\* With one process, a salt in memory that is not expired is the one row of
\* the table, whatever failed before, a lost answer to COMMIT included.
MemoryIsTable ==
  Cardinality(running) = 1 =>
    \A p \in running : ~Expired(p) => salt = {memory[p]}

\* However many goroutines find the salt expired at once, one of them
\* refreshes it: a salt in memory is only replaced when it is expired (or
\* lost in a restart).
ReplacedOnlyWhenExpired ==
  [][\A p \in Processes :
       memory'[p] # memory[p] => Expired(p) \/ memory'[p] = Initial]_vars

\* Processes that refresh at the same time may leave more than one salt in
\* the table, but not more than there are processes.
RowsBounded == Cardinality(salt) <= Cardinality(running)

\* A goroutine that asks for the salt gets an answer.
Answered ==
  \A p \in Processes, c \in Callers :
    call[p][c] = "lock" ~> call[p][c] = "idle"

\* README.md:195: the random string "is used to calculate unique visitor
\* numbers for the day".  As long as a salt is younger than a day, every
\* answer is that salt.
OneSaltForTheDay ==
  \A a, b \in issued :
    /\ NoSalt \notin {a.salt, b.salt}
    /\ a.at <= b.at
    /\ b.at < a.created + Day
    => a.salt = b.salt
=============================================================================
