-------------------------- MODULE DailySaltProofs ---------------------------
(***************************************************************************)
(* The salt, for any processes, goroutines, pool and bounds.               *)
(*                                                                         *)
(* TypeInv gives every variable its set, and keeps the count of the        *)
(* connections: a transaction that is under way has one of them.           *)
(* RefreshInv: whoever refreshes has found the salt in memory expired, and *)
(* it stays expired until the refresh commits.  AloneInv follows the table *)
(* through the transaction of the only process there is.                   *)
(***************************************************************************)
EXTENDS DailySalt, FiniteSetTheorems, TLAPS

TxPhases == {"none", "begin", "if", "delete", "insert", "get", "commit"}
Connected == {"if", "delete", "insert", "get", "commit"}

TxState == [phase : TxPhases, start : Int, seen : SUBSET SaltRow,
            deleted : SUBSET SaltRow, inserted : SUBSET SaltRow,
            result : SaltRow \cup {Nothing}]

\* The process of a transaction, its connection and what it has read.
TxInv(p) ==
  /\ Phase(p, "none") => \A c \in Callers : call[p][c] # "inside"
  /\ ~Phase(p, "none") =>
       \E c \in Callers : {d \in Callers : call[p][d] = "inside"} = {c}
  /\ tx[p].phase \in Connected => conns[p] > 0 /\ tx[p].start \in Nat
  /\ Phase(p, "commit") => tx[p].result \in SaltRow

TypeInv ==
  /\ running \subseteq Processes /\ running # {}
  /\ now \in 0..MaxTime
  /\ salt \in SUBSET SaltRow
  /\ memory \in [Processes -> SaltRow \cup {Initial}]
  /\ call \in [Processes -> [Callers -> {"idle", "lock", "inside"}]]
  /\ tx \in [Processes -> TxState]
  /\ conns \in [Processes -> 0..PoolSize]
  /\ salts \in Nat
  /\ calls \in 0..MaxCalls
  /\ faults \in 0..MaxFaults
  /\ \A p \in Processes : TxInv(p)

LEMMA ConstantTypes ==
  /\ Day \in Nat /\ Day > 0
  /\ PoolSize \in Nat
  /\ MaxTime \in Nat /\ MaxCalls \in Nat /\ MaxFaults \in Nat
  /\ IsFiniteSet(Processes)
BY SaltAssumption

LEMMA NoTxType ==
  /\ NoTx \in TxState
  /\ NoTx.phase = "none"
BY ConstantTypes DEF NoTx, TxState, TxPhases, Never

LEMMA TypeInit == Init => TypeInv
<1> SUFFICES ASSUME Init PROVE TypeInv
  OBVIOUS
<1>1. \A p \in Processes : TxInv(p)
  BY NoTxType DEF Init, TxInv, Phase, Connected
<1>2. tx \in [Processes -> TxState]
  BY NoTxType DEF Init
<1>3. QED
  BY <1>1, <1>2, ConstantTypes DEF Init, TypeInv

\* A step of p in its transaction, with t for the new tx[p].
LEMMA TxTypeStep ==
  ASSUME TypeInv, NEW p \in Processes, NEW t \in TxState,
         tx' = [tx EXCEPT ![p] = t],
         ~Phase(p, "none"), t.phase # "none",
         call' = call,
         conns' \in [Processes -> 0..PoolSize],
         \A q \in Processes \ {p} : conns'[q] = conns[q],
         t.phase \in Connected => conns'[p] > 0 /\ t.start \in Nat,
         t.phase = "commit" => t.result \in SaltRow
  PROVE  tx' \in [Processes -> TxState] /\ \A q \in Processes : TxInv(q)'
<1>1. tx' \in [Processes -> TxState]
  BY DEF TypeInv
<1>2. \A q \in Processes : tx'[q] = IF q = p THEN t ELSE tx[q]
  BY DEF TypeInv
<1>3. QED
  BY <1>1, <1>2 DEF TypeInv, TxInv, Phase

\* The transaction of p is over, and getSalt returns.
LEMMA ReturnType ==
  ASSUME TypeInv, NEW p \in Processes, NEW answer,
         tx' = [tx EXCEPT ![p] = NoTx],
         Return(p, answer) \/ call' = [call EXCEPT ![p] = [c \in Callers |-> "idle"]],
         conns' \in [Processes -> 0..PoolSize],
         \A q \in Processes \ {p} : conns'[q] = conns[q]
  PROVE  /\ tx' \in [Processes -> TxState]
         /\ call' \in [Processes -> [Callers -> {"idle", "lock", "inside"}]]
         /\ \A q \in Processes : TxInv(q)'
<1>1. tx' \in [Processes -> TxState] /\ \A q \in Processes :
        tx'[q] = IF q = p THEN NoTx ELSE tx[q]
  BY NoTxType DEF TypeInv
<1>2. call' = [call EXCEPT ![p] = [c \in Callers |->
                IF call[p][c] = "inside" THEN "idle" ELSE call[p][c]]]
      \/ call' = [call EXCEPT ![p] = [c \in Callers |-> "idle"]]
  BY DEF Return
<1>3. /\ call' \in [Processes -> [Callers -> {"idle", "lock", "inside"}]]
      /\ \A c \in Callers : call'[p][c] # "inside"
      /\ \A q \in Processes \ {p} : call'[q] = call[q]
  BY <1>2 DEF TypeInv
<1>4. \A q \in Processes : TxInv(q)'
  BY <1>1, <1>3, NoTxType DEF TypeInv, TxInv, Phase, Connected
<1>5. QED
  BY <1>1, <1>3, <1>4

\* What the steps of a transaction leave alone.
LEMMA RestType ==
  ASSUME TypeInv, running' = running, now' = now, memory' = memory,
         calls' = calls, faults' = faults \/ (faults < MaxFaults /\ faults' = faults + 1)
  PROVE  /\ running' \subseteq Processes /\ running' # {}
         /\ now' \in 0..MaxTime
         /\ memory' \in [Processes -> SaltRow \cup {Initial}]
         /\ calls' \in 0..MaxCalls
         /\ faults' \in 0..MaxFaults
BY ConstantTypes DEF TypeInv

LEMMA StartRefreshType ==
  ASSUME TypeInv, NEW p \in Processes, NEW c \in Callers, StartRefresh(p, c)
  PROVE  TypeInv'
<1>1. tx[p] \in TxState /\ tx \in [Processes -> TxState]
  BY DEF TypeInv
<1> DEFINE t == [tx[p] EXCEPT !.phase = "begin"]
<1>2. t \in TxState /\ t.phase = "begin"
  BY <1>1 DEF TxState, TxPhases
<1>3. tx' = [tx EXCEPT ![p] = t] /\ call' = [call EXCEPT ![p][c] = "inside"]
      /\ conns' = conns /\ Free(p) /\ salt' = salt /\ salts' = salts
  BY <1>1 DEF StartRefresh
<1> HIDE DEF t
<1>4. \A q \in Processes : tx'[q] = IF q = p THEN t ELSE tx[q]
  BY <1>1, <1>3
<1>5. /\ call' \in [Processes -> [Callers -> {"idle", "lock", "inside"}]]
      /\ \A q \in Processes \ {p} : call'[q] = call[q]
      /\ \A d \in Callers : call'[p][d] = "inside" <=> d = c
  BY <1>3 DEF TypeInv, Free
<1>6. {d \in Callers : call'[p][d] = "inside"} = {c}
  BY <1>5
<1>7. \A q \in Processes \ {p} : TxInv(q)'
  BY <1>3, <1>4, <1>5 DEF TypeInv, TxInv, Phase
<1>8. TxInv(p)'
  BY <1>2, <1>4, <1>6 DEF TxInv, Phase, Connected
<1>9. tx' \in [Processes -> TxState] /\ \A q \in Processes : TxInv(q)'
  BY <1>1, <1>2, <1>3, <1>7, <1>8
<1>10. QED
  BY <1>3, <1>5, <1>9, RestType DEF StartRefresh, TypeInv

LEMMA CallType ==
  ASSUME TypeInv, NEW p \in Processes, NEW c \in Callers,
         CallGetSalt(p, c) \/ ReturnCached(p, c)
  PROVE  TypeInv'
<1>1. /\ tx' = tx /\ conns' = conns /\ salt' = salt /\ salts' = salts
      /\ running' = running /\ now' = now /\ memory' = memory /\ faults' = faults
      /\ calls' \in 0..MaxCalls
  BY ConstantTypes DEF CallGetSalt, ReturnCached, TypeInv
<1>2. /\ call' \in [Processes -> [Callers -> {"idle", "lock", "inside"}]]
      /\ \A q \in Processes, d \in Callers :
           call'[q][d] = "inside" <=> call[q][d] = "inside"
  <2>1. PICK to \in {"idle", "lock"} :
          call' = [call EXCEPT ![p][c] = to] /\ call[p][c] # "inside"
    BY DEF CallGetSalt, ReturnCached
  <2>2. \A q \in Processes : call'[q] = IF q = p THEN [call[p] EXCEPT ![c] = to]
                                       ELSE call[q]
    BY <2>1 DEF TypeInv
  <2>3. QED
    BY <2>1, <2>2 DEF TypeInv
<1>3. ASSUME NEW q \in Processes PROVE TxInv(q)'
  <2>1. TxInv(q)
    BY DEF TypeInv
  <2>2. {d \in Callers : call'[q][d] = "inside"} = {d \in Callers : call[q][d] = "inside"}
    BY <1>2
  <2>3. QED
    BY <1>1, <1>2, <2>1, <2>2 DEF TxInv, Phase
<1>4. QED
  BY <1>1, <1>2, <1>3 DEF TypeInv

LEMMA BeginType ==
  ASSUME TypeInv, NEW p \in Processes, Begin(p)
  PROVE  TypeInv'
<1>1. tx[p] \in TxState /\ Phase(p, "begin") /\ now \in Nat
  BY ConstantTypes DEF TypeInv, Begin
<1> DEFINE t == [tx[p] EXCEPT !.phase = "if", !.start = now]
<1>2. t \in TxState /\ t.phase = "if" /\ t.start = now
  <2>1. now \in Int /\ "if" \in TxPhases
    BY <1>1 DEF TxPhases
  <2>2. t \in TxState
    BY <1>1, <2>1 DEF TxState
  <2>3. QED
    BY <1>1, <2>2 DEF TxState
<1>3. tx' = [tx EXCEPT ![p] = t] /\ call' = call /\ salt' = salt /\ salts' = salts
      /\ conns' = [conns EXCEPT ![p] = conns[p] + 1] /\ conns[p] < PoolSize
  BY <1>1 DEF Begin, TypeInv, TxState
<1> HIDE DEF t
<1>4. /\ conns' \in [Processes -> 0..PoolSize] /\ conns'[p] > 0
      /\ \A q \in Processes \ {p} : conns'[q] = conns[q]
  BY <1>3, ConstantTypes DEF TypeInv
<1>5. tx' \in [Processes -> TxState] /\ \A q \in Processes : TxInv(q)'
  BY <1>1, <1>2, <1>3, <1>4, TxTypeStep DEF Phase
<1>6. QED
  BY <1>3, <1>4, <1>5, RestType DEF Begin, TypeInv

\* The statements change the transaction alone.
LEMMA StatementType ==
  ASSUME TypeInv, NEW p \in Processes,
         EvaluateIf(p) \/ StartDelete(p) \/ DeleteAndInsert(p) \/ GetSalt(p)
  PROVE  TypeInv'
<1>1. tx[p] \in TxState /\ tx[p].phase \in Connected /\ conns[p] > 0
      /\ tx[p].start \in Nat
  BY DEF TypeInv, TxInv, Phase, Connected, EvaluateIf, StartDelete, DeleteAndInsert, GetSalt
<1>2. call' = call /\ conns' = conns /\ salt' = salt /\ salts' \in Nat
  BY DEF TypeInv, EvaluateIf, StartDelete, DeleteAndInsert, GetSalt
<1>3. salt \subseteq SaltRow
  BY DEF TypeInv
<1>4. PICK t \in TxState : /\ tx' = [tx EXCEPT ![p] = t]
                           /\ t.phase \in Connected
                           /\ t.start = tx[p].start
                           /\ t.phase = "commit" => t.result \in SaltRow
  <2>1. CASE EvaluateIf(p)
    <3> DEFINE t(x) == [tx[p] EXCEPT !.phase = x]
    <3>1. \A x \in {"delete", "get"} : t(x) \in TxState /\ t(x).phase = x
                                       /\ t(x).start = tx[p].start
      BY <1>1 DEF TxState, TxPhases
    <3>2. \E x \in {"delete", "get"} : tx' = [tx EXCEPT ![p] = t(x)]
      BY <2>1 DEF EvaluateIf, TypeInv
    <3>3. QED
      BY <3>1, <3>2 DEF Connected
  <2>2. CASE StartDelete(p)
    <3> DEFINE t == [tx[p] EXCEPT !.phase = "insert", !.seen = salt]
    <3>1. t \in TxState /\ t.phase = "insert" /\ t.start = tx[p].start
      BY <1>1, <1>3 DEF TxState, TxPhases
    <3>2. tx' = [tx EXCEPT ![p] = t]
      BY <2>2, <1>1 DEF StartDelete, TypeInv, TxState
    <3>3. QED
      BY <3>1, <3>2 DEF Connected
  <2>3. CASE DeleteAndInsert(p)
    <3> DEFINE row == [salt |-> salts', created |-> tx[p].start]
               t == [tx[p] EXCEPT !.phase = "get", !.deleted = Deleted(p),
                                  !.inserted = {row}]
    <3>1. row \in SaltRow
      BY <1>1, <2>3 DEF DeleteAndInsert, TypeInv, SaltRow
    <3>2. Deleted(p) \in SUBSET SaltRow /\ {row} \in SUBSET SaltRow
      BY <1>3, <3>1 DEF Deleted
    <3>3. tx' = [tx EXCEPT ![p].phase = "get", ![p].deleted = Deleted(p),
                           ![p].inserted = {row}]
      BY <2>3 DEF DeleteAndInsert
    <3> HIDE DEF row
    <3>4. t \in TxState /\ t.phase = "get" /\ t.start = tx[p].start
      BY <1>1, <3>2 DEF TxState, TxPhases
    <3>5. tx' = [tx EXCEPT ![p] = t]
      BY <1>1, <3>3 DEF TypeInv, TxState
    <3>6. QED
      BY <3>4, <3>5 DEF Connected
  <2>4. CASE GetSalt(p)
    <3>1. PICK r \in View(p) :
            tx' = [tx EXCEPT ![p].phase = "commit", ![p].result = r]
      BY <2>4 DEF GetSalt
    <3>2. r \in SaltRow
      BY <1>1, <1>3 DEF View, TxState
    <3> DEFINE t == [tx[p] EXCEPT !.phase = "commit", !.result = r]
    <3>3. t \in TxState /\ t.phase = "commit" /\ t.start = tx[p].start /\ t.result = r
      BY <1>1, <3>2 DEF TxState, TxPhases
    <3>4. tx' = [tx EXCEPT ![p] = t]
      BY <1>1, <3>1 DEF TypeInv, TxState
    <3>5. QED
      BY <3>2, <3>3, <3>4 DEF Connected
  <2>5. QED
    BY <2>1, <2>2, <2>3, <2>4
<1>5. ~Phase(p, "none") /\ t.phase # "none" /\ conns \in [Processes -> 0..PoolSize]
  BY <1>1, <1>4 DEF Phase, Connected, TypeInv
<1>6. tx' \in [Processes -> TxState] /\ \A q \in Processes : TxInv(q)'
  BY <1>1, <1>2, <1>4, <1>5, TxTypeStep
<1>7. /\ running' = running /\ now' = now /\ memory' = memory /\ calls' = calls
      /\ faults' = faults
  BY DEF EvaluateIf, StartDelete, DeleteAndInsert, GetSalt
<1>8. QED
  BY <1>2, <1>6, <1>7 DEF TypeInv

\* The table as a transaction sees it has rows of the table.
LEMMA ViewType ==
  ASSUME TypeInv, NEW p \in Processes
  PROVE  View(p) \in SUBSET SaltRow
BY DEF TypeInv, TxState, View

\* Every way a refresh ends.
LEMMA EndType ==
  ASSUME TypeInv, NEW p \in Processes, Commit(p) \/ Fault(p)
  PROVE  TypeInv'
<1>1. /\ tx' = [tx EXCEPT ![p] = NoTx] /\ running' = running /\ now' = now
      /\ calls' = calls /\ salts' = salts
      /\ faults' = faults \/ (faults < MaxFaults /\ faults' = faults + 1)
  BY DEF Commit, Fault, BeginFails, UpdateSaltFails, GetSaltFails, CommitFails,
     Restart, ReturnError, CountFault
<1>2. \/ \E answer : Return(p, answer)
      \/ call' = [call EXCEPT ![p] = [c \in Callers |-> "idle"]]
  BY Zenon DEF Commit, Fault, BeginFails, UpdateSaltFails, GetSaltFails, CommitFails,
     Restart, ReturnError
<1>3. salt' \in SUBSET SaltRow
  BY ViewType DEF Commit, Fault, BeginFails, UpdateSaltFails, GetSaltFails, CommitFails,
     Restart, TypeInv
<1>4. /\ conns' \in [Processes -> 0..PoolSize]
      /\ \A q \in Processes \ {p} : conns'[q] = conns[q]
  <2>1. CASE conns' = conns
    BY <2>1 DEF TypeInv
  <2>2. CASE conns' = [conns EXCEPT ![p] = 0]
    BY <2>2, ConstantTypes DEF TypeInv
  <2>3. CASE Phase(p, "get") \/ Phase(p, "commit")
    <3>1. conns[p] > 0
      BY <2>3 DEF TypeInv, TxInv, Phase, Connected
    <3>2. CASE conns' = [conns EXCEPT ![p] = conns[p] - 1]
      BY <3>1, <3>2, ConstantTypes DEF TypeInv
    <3>3. QED
      BY <2>1, <2>2, <3>2 DEF Commit, Fault, BeginFails, UpdateSaltFails, GetSaltFails,
         CommitFails, Restart
  <2>4. QED
    BY <2>1, <2>2, <2>3 DEF Commit, Fault, BeginFails, UpdateSaltFails, GetSaltFails,
       CommitFails, Restart
<1>5. memory' \in [Processes -> SaltRow \cup {Initial}]
  <2>1. CASE memory' = memory \/ memory' = [memory EXCEPT ![p] = Initial]
    BY <2>1 DEF TypeInv
  <2>2. CASE Commit(p)
    BY <2>2 DEF Commit, TypeInv, TxInv
  <2>3. QED
    BY <2>1, <2>2 DEF Fault, BeginFails, UpdateSaltFails, GetSaltFails, CommitFails,
       Restart, ReturnError
<1>6. /\ tx' \in [Processes -> TxState]
      /\ call' \in [Processes -> [Callers -> {"idle", "lock", "inside"}]]
      /\ \A q \in Processes : TxInv(q)'
  BY <1>1, <1>2, <1>4, ReturnType
<1>7. faults' \in 0..MaxFaults
  BY <1>1, ConstantTypes DEF TypeInv
<1>8. QED
  BY <1>1, <1>3, <1>4, <1>5, <1>6, <1>7 DEF TypeInv

LEMMA TypeStep == TypeInv /\ [Next]_vars => TypeInv'
<1> SUFFICES ASSUME TypeInv, [Next]_vars PROVE TypeInv'
  OBVIOUS
<1>1. ASSUME NEW p \in running,
             \/ \E c \in Callers : CallGetSalt(p, c) \/ Enter(p, c)
             \/ Refresh(p)
             \/ Fault(p)
      PROVE  TypeInv'
  <2>1. p \in Processes
    BY DEF TypeInv
  <2>2. QED
    BY <1>1, <2>1, CallType, StartRefreshType, BeginType, StatementType, EndType
       DEF Enter, Refresh
<1>2. CASE Tick
  BY <1>2, ConstantTypes DEF Tick, TypeInv, TxInv, Phase
<1>3. CASE UNCHANGED vars
  BY <1>3 DEF vars, TypeInv, TxInv, Phase
<1>4. QED
  BY <1>1, <1>2, <1>3 DEF Next

\* TypeOK holds in every reachable state: a process never has more connections
\* out than its pool, and never more than one goroutine inside the lock.
THEOREM SaltTypeOK == Spec => []TypeOK
<1>1. TypeInv => TypeOK
  <2> SUFFICES ASSUME TypeInv PROVE TypeOK
    OBVIOUS
  <2>1. ASSUME NEW p \in Processes
        PROVE  Cardinality({c \in Callers : call[p][c] = "inside"})
                 = IF Phase(p, "none") THEN 0 ELSE 1
    <3>1. CASE Phase(p, "none")
      <4>1. {c \in Callers : call[p][c] = "inside"} = {}
        BY <3>1 DEF TypeInv, TxInv
      <4>2. QED
        BY <3>1, <4>1, FS_EmptySet
    <3>2. CASE ~Phase(p, "none")
      <4>1. PICK c \in Callers : {d \in Callers : call[p][d] = "inside"} = {c}
        BY <3>2 DEF TypeInv, TxInv
      <4>2. Cardinality({c}) = 1
        BY FS_Singleton
      <4>3. QED
        BY <3>2, <4>1, <4>2
    <3>3. QED
      BY <3>1, <3>2
  <2>2. \A p \in Processes : tx[p].phase \in TxPhases
    BY DEF TypeInv, TxState
  <2>3. QED
    BY <2>1, <2>2 DEF TypeInv, TypeOK, TxPhases
<1>2. QED
  BY <1>1, TypeInit, TypeStep, PTL DEF Spec
-----------------------------------------------------------------------------
(***************************************************************************)
(* The salt in memory.                                                     *)
(***************************************************************************)
\* Who refreshes has found the salt expired, and nobody has replaced it since.
RefreshInv == \A p \in Processes : ~Phase(p, "none") => Expired(p)

\* p moves on; the others stay where they are.
OnlyMoves(p) ==
  \A q \in Processes \ {p} : tx'[q] = tx[q] /\ memory'[q] = memory[q]

\* An expired salt stays expired, and so does the one of a new process.
LEMMA StaysExpired ==
  ASSUME TypeInv, NEW p \in Processes, now' = now \/ now' = now + 1
  PROVE  /\ Expired(p) /\ memory'[p] = memory[p] => Expired(p)'
         /\ memory'[p] = Initial => Expired(p)'
<1>1. now \in Nat /\ Day \in Nat
  BY ConstantTypes DEF TypeInv
<1>2. memory[p].created \in Int
  BY <1>1 DEF TypeInv, SaltRow, Initial, Never
<1>3. QED
  BY <1>1, <1>2 DEF Expired, Initial, Never

\* The steps inside the transaction.
LEMMA InsideDoes ==
  ASSUME TypeInv, NEW p \in Processes,
         Begin(p) \/ EvaluateIf(p) \/ StartDelete(p) \/ DeleteAndInsert(p) \/ GetSalt(p)
  PROVE  /\ OnlyMoves(p) /\ ~Phase(p, "none")
         /\ memory' = memory /\ now' = now /\ running' = running /\ salt' = salt
BY DEF TypeInv, OnlyMoves, Phase, Begin, EvaluateIf, StartDelete, DeleteAndInsert, GetSalt

\* The steps that end it.
LEMMA EndDoes ==
  ASSUME TypeInv, NEW p \in Processes, Commit(p) \/ Fault(p)
  PROVE  /\ OnlyMoves(p) /\ tx'[p] = NoTx
         /\ now' = now /\ running' = running
         /\ \/ memory' = memory /\ Fault(p)
            \/ memory'[p] = Initial /\ salt' = salt
            \/ memory'[p] = tx[p].result /\ salt' = View(p) /\ Phase(p, "commit")
<1>1. tx \in [Processes -> TxState] /\ memory \in [Processes -> SaltRow \cup {Initial}]
  BY DEF TypeInv
<1>2. tx' = [tx EXCEPT ![p] = NoTx] /\ now' = now /\ running' = running
  BY DEF Commit, Fault, BeginFails, UpdateSaltFails, GetSaltFails, CommitFails,
     Restart, ReturnError
<1>3. CASE Commit(p)
  BY <1>1, <1>2, <1>3 DEF Commit, OnlyMoves
<1>4. CASE Restart(p)
  BY <1>1, <1>2, <1>4 DEF Restart, OnlyMoves
<1>5. CASE BeginFails(p) \/ UpdateSaltFails(p) \/ GetSaltFails(p) \/ CommitFails(p)
  <2>1. memory' = memory /\ Fault(p)
    BY <1>5 DEF BeginFails, UpdateSaltFails, GetSaltFails, CommitFails, ReturnError, Fault
  <2>2. QED
    BY <1>1, <1>2, <2>1 DEF OnlyMoves
<1>6. QED
  BY <1>3, <1>4, <1>5 DEF Fault

LEMMA RefreshStep == TypeInv /\ RefreshInv /\ [Next]_vars => RefreshInv'
<1> SUFFICES ASSUME TypeInv, RefreshInv, [Next]_vars PROVE RefreshInv'
  OBVIOUS
<1>1. ASSUME NEW p \in Processes, OnlyMoves(p), now' = now, memory'[p] = memory[p],
             Expired(p) \/ tx'[p].phase = "none"
      PROVE  RefreshInv'
  BY <1>1 DEF RefreshInv, OnlyMoves, Phase, Expired
<1>2. ASSUME NEW p \in Processes,
             \/ \E c \in Callers : CallGetSalt(p, c) \/ Enter(p, c)
             \/ Refresh(p)
             \/ Fault(p)
      PROVE  RefreshInv'
  <2>1. CASE \E c \in Callers : CallGetSalt(p, c) \/ ReturnCached(p, c)
    BY <2>1 DEF CallGetSalt, ReturnCached, RefreshInv, Phase, Expired
  <2>2. CASE \E c \in Callers : StartRefresh(p, c)
    <3>1. OnlyMoves(p) /\ now' = now /\ memory' = memory /\ Expired(p)
      BY <2>2 DEF StartRefresh, OnlyMoves, TypeInv
    <3>2. QED
      BY <1>1, <3>1
  <2>3. CASE Begin(p) \/ EvaluateIf(p) \/ StartDelete(p) \/ DeleteAndInsert(p) \/ GetSalt(p)
    BY <1>1, <2>3, InsideDoes DEF RefreshInv
  <2>4. CASE Commit(p) \/ Fault(p)
    <3>1. tx'[p].phase = "none" /\ OnlyMoves(p) /\ now' = now
      BY <2>4, EndDoes, NoTxType
    <3>2. QED
      BY <3>1 DEF RefreshInv, OnlyMoves, Phase, Expired
  <2>5. QED
    BY <1>2, <2>1, <2>2, <2>3, <2>4 DEF Enter, Refresh
<1>3. CASE Tick
  BY <1>3, StaysExpired DEF Tick, RefreshInv, Phase
<1>4. CASE UNCHANGED vars
  BY <1>4 DEF vars, RefreshInv, Phase, Expired
<1>5. QED
  BY <1>2, <1>3, <1>4 DEF Next, TypeInv

LEMMA RefreshInit == Init => RefreshInv
BY NoTxType DEF Init, RefreshInv, Phase

\* ReplacedOnlyWhenExpired: of the goroutines that find the salt expired, one
\* refreshes it.
THEOREM SaltReplacedOnlyWhenExpired == Spec => ReplacedOnlyWhenExpired
<1>1. ASSUME TypeInv, RefreshInv, [Next]_vars, NEW p \in Processes, memory'[p] # memory[p]
      PROVE  Expired(p) \/ memory'[p] = Initial
  <2>1. PICK q \in Processes : Commit(q) \/ Fault(q)
    BY <1>1 DEF Next, TypeInv, CallGetSalt, Enter, ReturnCached, StartRefresh, Refresh,
       Begin, EvaluateIf, StartDelete, DeleteAndInsert, GetSalt, Tick, vars
  <2>2. q = p
    BY <1>1, <2>1, EndDoes DEF OnlyMoves
  <2>3. QED
    BY <1>1, <2>1, <2>2, EndDoes DEF RefreshInv, Phase
<1>2. TypeInv /\ RefreshInv /\ [Next]_vars =>
        \A p \in Processes : memory'[p] # memory[p] => Expired(p) \/ memory'[p] = Initial
  BY <1>1
<1>3. TypeInv /\ RefreshInv /\ [Next]_vars =>
        [\A p \in Processes :
           memory'[p] # memory[p] => Expired(p) \/ memory'[p] = Initial]_vars
  BY <1>2
<1>4. QED
  BY <1>3, TypeInit, TypeStep, RefreshInit, RefreshStep, PTL
     DEF Spec, ReplacedOnlyWhenExpired
-----------------------------------------------------------------------------
(***************************************************************************)
(* The table, with one process.                                            *)
(***************************************************************************)
\* The table through the transaction of process p, the only one.
AloneInv(p) ==
  /\ \A r, s \in salt : r = s
  /\ tx[p].phase \in {"none", "begin", "if", "delete", "insert"} =>
       tx[p].deleted = {} /\ tx[p].inserted = {}
  /\ Phase(p, "insert") => tx[p].seen = salt
  /\ tx[p].phase \in {"get", "commit"} => \E r \in SaltRow : View(p) = {r}
  /\ Phase(p, "commit") => View(p) = {tx[p].result}
  /\ ~Expired(p) => salt = {memory[p]}

OneProcess(p) == running = {p}

LEMMA AloneInside ==
  ASSUME TypeInv, NEW p \in Processes, AloneInv(p), RefreshInv,
         Begin(p) \/ EvaluateIf(p) \/ StartDelete(p) \/ DeleteAndInsert(p) \/ GetSalt(p)
  PROVE  AloneInv(p)'
<1>1. tx[p] \in TxState /\ tx \in [Processes -> TxState] /\ salt \subseteq SaltRow
  BY DEF TypeInv
<1>2. memory' = memory /\ now' = now /\ salt' = salt /\ ~Phase(p, "none")
  BY InsideDoes
<1>3. Expired(p)'
  BY <1>2 DEF RefreshInv, Expired
<1>4. CASE Begin(p)
  <2>1. /\ tx'[p].phase = "if" /\ tx'[p].deleted = tx[p].deleted
        /\ tx'[p].inserted = tx[p].inserted
    BY <1>1, <1>4 DEF Begin, TxState
  <2>2. QED
    BY <1>2, <1>3, <1>4, <2>1 DEF AloneInv, Phase, Begin
<1>5. CASE EvaluateIf(p)
  <2>1. /\ tx'[p].phase = "delete" \/ (tx'[p].phase = "get" /\ salt # {})
        /\ tx'[p].deleted = {} /\ tx'[p].inserted = {}
    BY <1>1, <1>5 DEF EvaluateIf, TxState, AloneInv, Phase
  <2>2. View(p)' = salt
    BY <1>2, <2>1 DEF View
  <2>3. salt # {} => \E r \in SaltRow : salt = {r}
    BY <1>1 DEF AloneInv
  <2>4. QED
    BY <1>2, <1>3, <2>1, <2>2, <2>3 DEF AloneInv, Phase
<1>6. CASE StartDelete(p)
  <2>1. /\ tx'[p].phase = "insert" /\ tx'[p].seen = salt
        /\ tx'[p].deleted = {} /\ tx'[p].inserted = {}
    BY <1>1, <1>6 DEF StartDelete, TxState, AloneInv, Phase
  <2>2. QED
    BY <1>2, <1>3, <2>1 DEF AloneInv, Phase
<1>7. CASE DeleteAndInsert(p)
  <2> DEFINE row == [salt |-> salts', created |-> tx[p].start]
  <2>1. row \in SaltRow
    BY <1>7 DEF DeleteAndInsert, TypeInv, TxInv, Phase, Connected, SaltRow
  <2>2. tx[p].seen = salt
    BY <1>7 DEF DeleteAndInsert, AloneInv
  <2>3. tx' = [tx EXCEPT ![p].phase = "get", ![p].deleted = Deleted(p),
                         ![p].inserted = {row}]
    BY <1>7 DEF DeleteAndInsert
  <2> HIDE DEF row
  <2>4. tx'[p].phase = "get" /\ tx'[p].deleted = salt /\ tx'[p].inserted = {row}
    BY <1>1, <2>2, <2>3 DEF TxState, Deleted
  <2>5. View(p)' = {row}
    BY <1>2, <2>4 DEF View
  <2>6. QED
    BY <1>2, <1>3, <2>1, <2>4, <2>5 DEF AloneInv, Phase
<1>8. CASE GetSalt(p)
  <2>1. PICK r \in View(p) :
          tx' = [tx EXCEPT ![p].phase = "commit", ![p].result = r]
    BY <1>8 DEF GetSalt
  <2>2. /\ tx'[p].phase = "commit" /\ tx'[p].result = r
        /\ tx'[p].deleted = tx[p].deleted /\ tx'[p].inserted = tx[p].inserted
    BY <1>1, <2>1 DEF TxState
  <2>3. View(p)' = View(p)
    BY <1>2, <2>2 DEF View
  <2>4. \E s \in SaltRow : View(p) = {s}
    BY <1>8 DEF GetSalt, AloneInv, Phase
  <2>5. View(p) = {r}
    BY <2>4
  <2>6. QED
    BY <1>2, <1>3, <2>2, <2>3, <2>4, <2>5 DEF AloneInv, Phase
<1>9. QED
  BY <1>4, <1>5, <1>6, <1>7, <1>8

LEMMA AloneEnd ==
  ASSUME TypeInv, NEW p \in Processes, AloneInv(p), RefreshInv, Commit(p) \/ Fault(p)
  PROVE  AloneInv(p)'
<1>1. tx'[p].phase = "none" /\ tx'[p].deleted = {} /\ tx'[p].inserted = {}
      /\ now' = now
  BY EndDoes DEF NoTx
<1>2. ASSUME NEW r, NEW s, salt' = {r} \/ salt' = salt, r \in salt', s \in salt'
      PROVE  r = s
  BY <1>2 DEF AloneInv
<1>3. \A r, s \in salt' : r = s
  <2>1. salt' = salt \/ (salt' = View(p) /\ Phase(p, "commit"))
    BY DEF Commit, Fault, BeginFails, UpdateSaltFails, GetSaltFails, CommitFails, Restart
  <2>2. QED
    BY <2>1 DEF AloneInv
<1>4. ~Expired(p)' => salt' = {memory'[p]}
  <2>1. CASE memory' = memory /\ Fault(p)
    <3>1. CASE Expired(p)
      BY <1>1, <2>1, <3>1 DEF Expired
    <3>2. CASE ~Expired(p)
      <4>1. Phase(p, "none")
        BY <3>2 DEF RefreshInv
      <4>2. salt' = salt
        BY <2>1, <4>1 DEF Fault, BeginFails, UpdateSaltFails, GetSaltFails, CommitFails,
           Restart, Phase
      <4>3. QED
        BY <2>1, <3>2, <4>2 DEF AloneInv
    <3>3. QED
      BY <3>1, <3>2
  <2>2. CASE memory'[p] = Initial /\ salt' = salt
    BY <1>1, <2>2, StaysExpired
  <2>3. CASE memory'[p] = tx[p].result /\ salt' = View(p) /\ Phase(p, "commit")
    BY <2>3 DEF AloneInv
  <2>4. QED
    BY <2>1, <2>2, <2>3, EndDoes
<1>5. QED
  BY <1>1, <1>3, <1>4 DEF AloneInv, Phase

LEMMA AloneStep ==
  ASSUME NEW p \in Processes, TypeInv, RefreshInv, OneProcess(p), AloneInv(p), [Next]_vars
  PROVE  AloneInv(p)'
<1>1. CASE \E c \in Callers : CallGetSalt(p, c) \/ ReturnCached(p, c)
  BY <1>1 DEF CallGetSalt, ReturnCached, AloneInv, Phase, View, Expired
<1>2. CASE \E c \in Callers : StartRefresh(p, c)
  <2>1. tx' = [tx EXCEPT ![p].phase = "begin"] /\ salt' = salt /\ memory' = memory
        /\ now' = now /\ Free(p)
    BY <1>2 DEF StartRefresh
  <2>2. Phase(p, "none")
    BY <2>1 DEF TypeInv, TxInv, Free
  <2>3. /\ tx'[p].phase = "begin" /\ tx'[p].deleted = {} /\ tx'[p].inserted = {}
    BY <2>1, <2>2 DEF AloneInv, Phase, TypeInv, TxState
  <2>4. QED
    BY <2>1, <2>3 DEF AloneInv, Phase, Expired
<1>3. CASE Refresh(p) \/ Fault(p)
  BY <1>3, AloneInside, AloneEnd DEF Refresh
<1>4. CASE Tick
  <2>1. tx' = tx /\ salt' = salt /\ memory' = memory /\ View(p)' = View(p)
    BY <1>4 DEF Tick, View
  <2>2. ~Expired(p)' => ~Expired(p)
    BY <1>4, <2>1, StaysExpired DEF Tick
  <2>3. QED
    BY <2>1, <2>2 DEF AloneInv, Phase
<1>5. CASE UNCHANGED vars
  BY <1>5 DEF vars, AloneInv, Phase, View, Expired
<1>6. QED
  BY <1>1, <1>2, <1>3, <1>4, <1>5 DEF Next, OneProcess, Enter

LEMMA RunningStep == [Next]_vars => running' = running
BY DEF Next, vars, CallGetSalt, Enter, ReturnCached, StartRefresh, Refresh, Begin,
   EvaluateIf, StartDelete, DeleteAndInsert, GetSalt, Commit, Fault, BeginFails,
   UpdateSaltFails, GetSaltFails, CommitFails, Restart, ReturnError, Tick

\* Whatever the running processes are, if it is one then it is alone.
TableInv == \A p \in Processes : OneProcess(p) => AloneInv(p)

LEMMA TableInit == Init => TableInv
<1> SUFFICES ASSUME Init, NEW p \in Processes PROVE AloneInv(p)
  BY DEF TableInv
<1>1. Expired(p)
  BY ConstantTypes DEF Init, Expired, Initial, Never
<1>2. QED
  BY <1>1 DEF Init, AloneInv, Phase, NoTx

\* MemoryIsTable: a process that runs alone has no salt but the one of the
\* table, whatever fails and however often it is started again.
THEOREM SaltMemoryIsTable == Spec => []MemoryIsTable
<1>1. TypeInv /\ TableInv => MemoryIsTable
  <2> SUFFICES ASSUME TypeInv, TableInv, Cardinality(running) = 1, NEW p \in running,
                      ~Expired(p)
               PROVE  salt = {memory[p]}
    BY DEF MemoryIsTable
  <2>1. IsFiniteSet(running)
    BY ConstantTypes, FS_Subset DEF TypeInv
  <2>2. \E q : running = {q}
    BY <2>1, FS_Singleton
  <2>3. running = {p} /\ p \in Processes
    BY <2>2 DEF TypeInv
  <2>4. QED
    BY <2>3 DEF TableInv, OneProcess, AloneInv
<1>2. TypeInv /\ RefreshInv /\ TableInv /\ [Next]_vars => TableInv'
  <2> SUFFICES ASSUME TypeInv, RefreshInv, TableInv, [Next]_vars,
                      NEW p \in Processes, OneProcess(p)'
               PROVE  AloneInv(p)'
    BY DEF TableInv
  <2>1. OneProcess(p)
    BY RunningStep DEF OneProcess
  <2>2. QED
    BY <2>1, AloneStep DEF TableInv
<1>3. QED
  BY <1>1, <1>2, TypeInit, TypeStep, RefreshInit, RefreshStep, TableInit, PTL DEF Spec
-----------------------------------------------------------------------------
(***************************************************************************)
(* The rows of the table, with any number of processes.  Each row belongs  *)
(* to the process that has inserted it, and no process has two: its DELETE *)
(* has found the row it committed before, if that is still there.          *)
(***************************************************************************)
Owns(f) ==
  /\ \A r, s \in salt : f[r] = f[s] => r = s
  /\ \A p \in running :
       Phase(p, "insert") => \A r \in salt : f[r] = p => r \in tx[p].seen
  /\ \A p \in running :
       tx[p].phase \in {"get", "commit"} /\ tx[p].inserted # {} =>
         /\ \E x \in SaltRow : tx[p].inserted = {x}
         /\ \A r \in salt : f[r] = p => r \in tx[p].deleted

\* Nothing is inserted before DELETE.
FreshInv ==
  \A p \in Processes :
    tx[p].phase \in {"none", "begin", "if", "delete", "insert"} =>
      tx[p].inserted = {} /\ tx[p].deleted = {}

OwnersInv == FreshInv /\ \E f \in [SaltRow -> running] : Owns(f)

\* A step of p that leaves the table alone, and keeps what p has to answer for.
LEMMA OwnsStep ==
  ASSUME TypeInv, NEW f, Owns(f), NEW p \in running, OnlyMoves(p),
         salt' = salt, running' = running,
         tx'[p].phase = "insert" => tx'[p].seen = salt,
         tx'[p].phase \in {"get", "commit"} /\ tx'[p].inserted # {} =>
           /\ \E x \in SaltRow : tx'[p].inserted = {x}
           /\ \A r \in salt : f[r] = p => r \in tx'[p].deleted
  PROVE  Owns(f)'
<1>1. \A q \in running : q # p => tx'[q] = tx[q]
  BY DEF OnlyMoves, TypeInv
<1>2. \A r, s \in salt' : f[r] = f[s] => r = s
  BY DEF Owns
<1>3. ASSUME NEW q \in running, tx'[q].phase = "insert", NEW r \in salt, f[r] = q
      PROVE  r \in tx'[q].seen
  <2>1. CASE q = p
    BY <1>3, <2>1
  <2>2. CASE q # p
    BY <1>1, <1>3, <2>2 DEF Owns, Phase
  <2>3. QED
    BY <2>1, <2>2
<1>4. ASSUME NEW q \in running, tx'[q].phase \in {"get", "commit"}, tx'[q].inserted # {}
      PROVE  /\ \E x \in SaltRow : tx'[q].inserted = {x}
             /\ \A r \in salt : f[r] = q => r \in tx'[q].deleted
  <2>1. CASE q = p
    BY <1>4, <2>1
  <2>2. CASE q # p
    BY <1>1, <1>4, <2>2 DEF Owns
  <2>3. QED
    BY <2>1, <2>2
<1>5. QED
  BY <1>2, <1>3, <1>4 DEF Owns, Phase

LEMMA OwnersInside ==
  ASSUME TypeInv, OwnersInv, NEW p \in running,
         Begin(p) \/ EvaluateIf(p) \/ StartDelete(p) \/ DeleteAndInsert(p) \/ GetSalt(p)
  PROVE  OwnersInv'
<1>1. p \in Processes /\ tx[p] \in TxState /\ tx \in [Processes -> TxState]
  BY DEF TypeInv
<1>2. OnlyMoves(p) /\ salt' = salt /\ running' = running
  BY <1>1, InsideDoes
<1>3. PICK f \in [SaltRow -> running] : Owns(f)
  BY DEF OwnersInv
<1>4. ASSUME FreshInv', Owns(f)' PROVE OwnersInv'
  BY <1>2, <1>3, <1>4 DEF OwnersInv
<1>5. ASSUME tx'[p].phase \in {"none", "begin", "if", "delete", "insert"} =>
               tx'[p].inserted = {} /\ tx'[p].deleted = {}
      PROVE  FreshInv'
  BY <1>2, <1>5 DEF OwnersInv, FreshInv, OnlyMoves
<1>6. CASE Begin(p) \/ EvaluateIf(p)
  <2>1. /\ tx'[p].phase \in {"if", "delete", "get"}
        /\ tx'[p].inserted = {} /\ tx'[p].deleted = {}
    BY <1>1, <1>6 DEF Begin, EvaluateIf, Phase, OwnersInv, FreshInv, TxState
  <2>2. QED
    BY <1>2, <1>3, <1>4, <1>5, <2>1, OwnsStep
<1>7. CASE StartDelete(p)
  <2>1. /\ tx'[p].phase = "insert" /\ tx'[p].seen = salt
        /\ tx'[p].inserted = {} /\ tx'[p].deleted = {}
    BY <1>1, <1>7 DEF StartDelete, Phase, OwnersInv, FreshInv, TxState
  <2>2. QED
    BY <1>2, <1>3, <1>4, <1>5, <2>1, OwnsStep
<1>8. CASE DeleteAndInsert(p)
  <2> DEFINE row == [salt |-> salts', created |-> tx[p].start]
  <2>1. row \in SaltRow
    BY <1>1, <1>8 DEF DeleteAndInsert, TypeInv, TxInv, Phase, Connected, SaltRow
  <2>2. tx' = [tx EXCEPT ![p].phase = "get", ![p].deleted = Deleted(p),
                         ![p].inserted = {row}]
    BY <1>8 DEF DeleteAndInsert
  <2> HIDE DEF row
  <2>3. tx'[p].phase = "get" /\ tx'[p].deleted = tx[p].seen \cap salt
        /\ tx'[p].inserted = {row}
    BY <1>1, <2>2 DEF TxState, Deleted
  <2>4. \A r \in salt : f[r] = p => r \in tx'[p].deleted
    BY <1>3, <1>8, <2>3 DEF Owns, DeleteAndInsert
  <2>5. QED
    BY <1>2, <1>3, <1>4, <1>5, <2>1, <2>3, <2>4, OwnsStep
<1>9. CASE GetSalt(p)
  <2>1. PICK row \in View(p) :
          tx' = [tx EXCEPT ![p].phase = "commit", ![p].result = row]
    BY <1>9 DEF GetSalt
  <2>2. /\ tx[p].phase = "get" /\ tx'[p].phase = "commit"
        /\ tx'[p].inserted = tx[p].inserted /\ tx'[p].deleted = tx[p].deleted
    BY <1>1, <1>9, <2>1 DEF GetSalt, Phase, TxState
  <2>3. tx[p].inserted # {} =>
          /\ \E x \in SaltRow : tx[p].inserted = {x}
          /\ \A r \in salt : f[r] = p => r \in tx[p].deleted
    BY <1>3, <2>2 DEF Owns
  <2>4. QED
    BY <1>2, <1>3, <1>4, <1>5, <2>2, <2>3, OwnsStep
<1>10. QED
  BY <1>6, <1>7, <1>8, <1>9

LEMMA OwnersEnd ==
  ASSUME TypeInv, OwnersInv, NEW p \in running, Commit(p) \/ Fault(p)
  PROVE  OwnersInv'
<1>1. p \in Processes
  BY DEF TypeInv
<1>2. OnlyMoves(p) /\ tx'[p] = NoTx /\ running' = running
  BY <1>1, EndDoes
<1>3. PICK f \in [SaltRow -> running] : Owns(f)
  BY DEF OwnersInv
<1>4. FreshInv'
  BY <1>2 DEF OwnersInv, FreshInv, OnlyMoves, NoTx
<1>5. salt' = salt \/ (salt' = View(p) /\ Phase(p, "commit"))
  BY DEF Commit, Fault, BeginFails, UpdateSaltFails, GetSaltFails, CommitFails, Restart
<1>6. \A q \in running : IF q = p THEN tx'[q].phase = "none" ELSE tx'[q] = tx[q]
  BY <1>2 DEF OnlyMoves, NoTx, TypeInv
<1>7. CASE salt' = salt
  <2>1. Owns(f)'
    BY <1>2, <1>3, <1>7, OwnsStep DEF NoTx
  <2>2. QED
    BY <1>2, <1>3, <1>4, <2>1 DEF OwnersInv
<1>8. CASE Phase(p, "commit") /\ salt' = View(p) /\ tx[p].inserted = {}
  <2>1. salt' \subseteq salt
    BY <1>8 DEF View
  <2>2. \A r, s \in salt' : f[r] = f[s] => r = s
    BY <1>3, <2>1 DEF Owns
  <2>3. ASSUME NEW q \in running, tx'[q].phase = "insert", NEW r \in salt', f[r] = q
        PROVE  r \in tx'[q].seen
    BY <1>3, <1>6, <2>1, <2>3 DEF Owns, Phase
  <2>4. ASSUME NEW q \in running, tx'[q].phase \in {"get", "commit"}, tx'[q].inserted # {}
        PROVE  /\ \E x \in SaltRow : tx'[q].inserted = {x}
               /\ \A r \in salt' : f[r] = q => r \in tx'[q].deleted
    BY <1>3, <1>6, <2>1, <2>4 DEF Owns
  <2>5. Owns(f)'
    BY <1>2, <2>2, <2>3, <2>4 DEF Owns, Phase
  <2>6. QED
    BY <1>2, <1>3, <1>4, <2>5 DEF OwnersInv
<1>9. CASE Phase(p, "commit") /\ salt' = View(p) /\ tx[p].inserted # {}
  <2>1. PICK x \in SaltRow : tx[p].inserted = {x}
    BY <1>3, <1>9 DEF Owns, Phase
  <2>2. \A r \in salt : f[r] = p => r \in tx[p].deleted
    BY <1>3, <1>9 DEF Owns, Phase
  <2> DEFINE g == [f EXCEPT ![x] = p]
  <2>3. g \in [SaltRow -> running]
    BY <1>3
  <2>4. \A r \in SaltRow : g[r] = IF r = x THEN p ELSE f[r]
    BY <1>3
  <2> HIDE DEF g
  <2>5. \A r \in salt' : r \in SaltRow /\ (r = x \/ (r \in salt /\ r \notin tx[p].deleted))
    BY <1>9, <2>1 DEF View, TypeInv
  <2>6. \A r, s \in salt' : g[r] = g[s] => r = s
    BY <1>3, <2>2, <2>4, <2>5 DEF Owns
  <2>7. ASSUME NEW q \in running, q # p, NEW r \in salt', g[r] = q
        PROVE  r \in salt /\ f[r] = q
    BY <2>4, <2>5, <2>7
  <2>8. ASSUME NEW q \in running, tx'[q].phase = "insert", NEW r \in salt', g[r] = q
        PROVE  r \in tx'[q].seen
    <3>1. q # p /\ tx'[q] = tx[q]
      BY <1>6, <2>8
    <3>2. QED
      BY <1>3, <2>7, <2>8, <3>1 DEF Owns, Phase
  <2>9. ASSUME NEW q \in running, tx'[q].phase \in {"get", "commit"}, tx'[q].inserted # {}
        PROVE  /\ \E y \in SaltRow : tx'[q].inserted = {y}
               /\ \A r \in salt' : g[r] = q => r \in tx'[q].deleted
    <3>1. q # p /\ tx'[q] = tx[q]
      BY <1>6, <2>9
    <3>2. /\ \E y \in SaltRow : tx[q].inserted = {y}
          /\ \A r \in salt : f[r] = q => r \in tx[q].deleted
      BY <1>3, <2>9, <3>1 DEF Owns
    <3>3. QED
      BY <2>7, <3>1, <3>2
  <2>10. Owns(g)'
    BY <1>2, <2>6, <2>8, <2>9 DEF Owns, Phase
  <2>11. QED
    BY <1>2, <1>4, <2>3, <2>10 DEF OwnersInv
<1>10. QED
  BY <1>5, <1>7, <1>8, <1>9

LEMMA OwnersStep == TypeInv /\ OwnersInv /\ [Next]_vars => OwnersInv'
<1> SUFFICES ASSUME TypeInv, OwnersInv, [Next]_vars PROVE OwnersInv'
  OBVIOUS
<1>1. ASSUME NEW p \in running, Refresh(p) \/ Fault(p) PROVE OwnersInv'
  BY <1>1, OwnersInside, OwnersEnd DEF Refresh
<1>2. ASSUME NEW p \in running, NEW c \in Callers, StartRefresh(p, c) PROVE OwnersInv'
  <2>1. p \in Processes /\ Free(p) /\ salt' = salt /\ running' = running /\ OnlyMoves(p)
    BY <1>2 DEF TypeInv, StartRefresh, OnlyMoves
  <2>2. Phase(p, "none")
    BY <2>1 DEF TypeInv, TxInv, Free
  <2>3. /\ tx'[p].phase = "begin" /\ tx'[p].inserted = {} /\ tx'[p].deleted = {}
    BY <1>2, <2>1, <2>2 DEF StartRefresh, OwnersInv, FreshInv, Phase, TypeInv, TxState
  <2>4. FreshInv'
    BY <2>1, <2>3 DEF OwnersInv, FreshInv, OnlyMoves
  <2>5. PICK f \in [SaltRow -> running] : Owns(f)
    BY DEF OwnersInv
  <2>6. Owns(f)'
    BY <2>1, <2>3, <2>5, OwnsStep
  <2>7. QED
    BY <2>1, <2>4, <2>5, <2>6 DEF OwnersInv
<1>3. CASE \/ \E p \in running, c \in Callers : CallGetSalt(p, c) \/ ReturnCached(p, c)
           \/ Tick
           \/ UNCHANGED vars
  <2>1. tx' = tx /\ salt' = salt /\ running' = running
    BY <1>3 DEF CallGetSalt, ReturnCached, Tick, vars
  <2>2. QED
    BY <2>1 DEF OwnersInv, FreshInv, Owns, Phase
<1>4. QED
  BY <1>1, <1>2, <1>3 DEF Next, Enter

LEMMA OwnersInit == Init => OwnersInv
<1> SUFFICES ASSUME Init PROVE OwnersInv
  OBVIOUS
<1>1. FreshInv
  BY DEF Init, FreshInv, NoTx
<1>2. PICK p \in running : TRUE
  BY DEF Init
<1> DEFINE f == [r \in SaltRow |-> p]
<1>3. f \in [SaltRow -> running]
  OBVIOUS
<1>4. Owns(f)
  BY DEF Init, Owns, Phase, NoTx
<1> HIDE DEF f
<1>5. QED
  BY <1>1, <1>3, <1>4 DEF OwnersInv

\* RowsBounded: however the refreshes of the processes overlap, the table has
\* no more salts than there are processes.
THEOREM SaltRowsBounded == Spec => []RowsBounded
<1>1. TypeInv /\ OwnersInv => RowsBounded
  <2> SUFFICES ASSUME TypeInv, OwnersInv PROVE RowsBounded
    OBVIOUS
  <2>1. PICK f \in [SaltRow -> running] : \A r, s \in salt : f[r] = f[s] => r = s
    BY DEF OwnersInv, Owns
  <2> DEFINE g == [r \in salt |-> f[r]]
  <2>2. g \in Injection(salt, running)
    BY <2>1 DEF Injection, IsInjective, TypeInv
  <2>3. IsFiniteSet(running)
    BY ConstantTypes, FS_Subset DEF TypeInv
  <2> HIDE DEF g
  <2>4. QED
    BY <2>2, <2>3, FS_Injection DEF RowsBounded
<1>2. QED
  BY <1>1, TypeInit, TypeStep, OwnersInit, OwnersStep, PTL DEF Spec
=============================================================================
