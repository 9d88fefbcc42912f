------------------------ MODULE SessionStoreProofs --------------------------
(***************************************************************************)
(* The tables of SessionStore, for any events, timeout and bounds.         *)
(*                                                                         *)
(* TypeInv gives every variable its set.  VisitInv follows what GetSession *)
(* has found to the commit that relies on it: with one worker nothing      *)
(* changes in between, and the sessions table is the log of visits.        *)
(***************************************************************************)
EXTENDS SessionStore, FiniteSetTheorems, SequenceTheorems, TLAPS

Names == {e.name : e \in Events}

\* The Go maps from K to ids.
GoMap(K) == UNION {[D -> Nat] : D \in SUBSET K}

\* An event of a batch, and the local state of saveEvents.
Queued == [visitor : Visitors, domain : Domains, name : Names, created : Nat]

SaveState ==
  [phase : Phases,
   todo : SUBSET Domains,
   eventDomains : GoMap(Domains),
   eventSessions : GoMap(Visitors),
   next : Nat,
   start : Nat,
   session : Nat,
   row : SessionRow \cup {NoRow}]

TablesInv ==
  /\ DOMAIN domains \subseteq Domains
  /\ domains \in [DOMAIN domains -> Nat]
  /\ IsFiniteSet(DOMAIN domains)
  /\ DOMAIN sessions \subseteq SessionIds
  /\ sessions \in [DOMAIN sessions -> SessionRow]

SavesInv ==
  /\ batch \in [Workers -> Seq(Queued)]
  /\ save \in [Workers -> SaveState]
  /\ \A w \in Workers :
       save[w].phase # "idle" => save[w].next \in 1..Len(batch[w])

BoundsInv ==
  /\ now \in 0..MaxTime
  /\ received \in 0..MaxReceived
  /\ faults \in 0..MaxFaults

\* What a transaction is about to write.
WritesInv ==
  \A w \in Workers :
    /\ save[w].phase = "update" => save[w].session \in DOMAIN sessions
    /\ save[w].phase = "commit" =>
         save[w].session \in SessionIds /\ save[w].row \in SessionRow

TypeInv == TablesInv /\ SavesInv /\ WritesInv /\ BoundsInv

LEMMA ConstantTypes ==
  /\ Timeout \in Nat /\ Timeout > 0
  /\ SessionIds \subseteq Nat
  /\ MaxTime \in Nat /\ MaxReceived \in Nat /\ MaxFaults \in Nat
BY SessionAssumption

LEMMA EventFields ==
  \A e \in Events : e.visitor \in Visitors /\ e.domain \in Domains /\ e.name \in Names
BY DEF Visitors, Domains, Names

LEMMA NoRowDiffers == NoRow \notin SessionRow
BY DEF NoRow, SessionRow

\* A map with one more entry, as a table or as a Go map.
LEMMA PutType ==
  ASSUME NEW K, NEW V, NEW map, DOMAIN map \subseteq K,
         map \in [DOMAIN map -> V], NEW key \in K, NEW value \in V
  PROVE  /\ DOMAIN Put(map, key, value) = DOMAIN map \cup {key}
         /\ Put(map, key, value) \in [DOMAIN map \cup {key} -> V]
BY DEF Put

LEMMA PutGoMap ==
  ASSUME NEW K, NEW map \in GoMap(K), NEW key \in K, NEW value \in Nat
  PROVE  Put(map, key, value) \in GoMap(K)
<1>1. DOMAIN map \subseteq K /\ map \in [DOMAIN map -> Nat]
  BY DEF GoMap
<1>2. Put(map, key, value) \in [DOMAIN map \cup {key} -> Nat]
  BY <1>1, PutType, Zenon
<1>3. DOMAIN map \cup {key} \in SUBSET K
  BY <1>1
<1>4. QED
  BY <1>2, <1>3 DEF GoMap

LEMMA GetGoMap ==
  ASSUME NEW K, NEW map \in GoMap(K), NEW key
  PROVE  Get(map, key) \in Nat
BY DEF GoMap, Get

LEMMA IdleType == Idle \in SaveState
<1>1. \A K : <<>> \in GoMap(K)
  <2> SUFFICES ASSUME NEW K PROVE <<>> \in GoMap(K)
    OBVIOUS
  <2>1. <<>> \in [{} -> Nat] /\ {} \in SUBSET K
    OBVIOUS
  <2>2. QED
    BY <2>1 DEF GoMap
<1>2. QED
  BY <1>1 DEF Idle, SaveState, Phases

LEMMA CurrentType ==
  ASSUME TypeInv, NEW w \in Workers, save[w].phase # "idle"
  PROVE  Current(w) \in Queued
BY DEF TypeInv, SavesInv, Current

LEMMA TypeInit == Init => TypeInv
<1> SUFFICES ASSUME Init PROVE TypeInv
  OBVIOUS
<1>1. TablesInv
  BY FS_EmptySet DEF Init, TablesInv
<1>2. SavesInv
  BY IdleType, EmptySeq DEF Init, SavesInv, Idle
<1>3. BoundsInv
  BY ConstantTypes DEF Init, BoundsInv
<1>4. WritesInv
  BY DEF Init, WritesInv, Idle
<1>5. QED
  BY <1>1, <1>2, <1>3, <1>4 DEF TypeInv

-----------------------------------------------------------------------------
(***************************************************************************)
(* One lemma for each action, or for the actions that change the same.     *)
(***************************************************************************)
\* A step of w that leaves the tables alone.
LEMMA SaveTypeStep ==
  ASSUME TypeInv, NEW w \in Workers, NEW r \in SaveState,
         save' = [save EXCEPT ![w] = r],
         r.phase # "idle" => r.next \in 1..Len(batch[w]),
         r.phase = "update" => r.session \in DOMAIN sessions,
         r.phase = "commit" => r.session \in SessionIds /\ r.row \in SessionRow,
         batch' = batch,
         DOMAIN sessions \subseteq DOMAIN sessions'
  PROVE  SavesInv' /\ WritesInv'
<1>1. \A u \in Workers : save'[u] = IF u = w THEN r ELSE save[u]
  BY DEF TypeInv, SavesInv
<1>2. SavesInv'
  BY <1>1 DEF TypeInv, SavesInv
<1>3. WritesInv'
  BY <1>1 DEF TypeInv, WritesInv
<1>4. QED
  BY <1>2, <1>3

\* saveEvents returns.
LEMMA IdleTypeStep ==
  ASSUME TypeInv, NEW w \in Workers, save' = [save EXCEPT ![w] = Idle],
         batch' = batch \/ batch' = [batch EXCEPT ![w] = <<>>],
         DOMAIN sessions \subseteq DOMAIN sessions'
  PROVE  SavesInv' /\ WritesInv'
<1>1. \A u \in Workers : save'[u] = IF u = w THEN Idle ELSE save[u]
  BY DEF TypeInv, SavesInv
<1>2. \A u \in Workers : save'[u].phase # "idle" => u # w
  BY <1>1 DEF Idle
<1>3. batch' \in [Workers -> Seq(Queued)]
  BY EmptySeq DEF TypeInv, SavesInv
<1>4. save' \in [Workers -> SaveState]
  BY IdleType DEF TypeInv, SavesInv
<1>5. SavesInv'
  BY <1>1, <1>2, <1>3, <1>4 DEF TypeInv, SavesInv
<1>6. WritesInv'
  BY <1>1 DEF TypeInv, WritesInv, Idle
<1>7. QED
  BY <1>5, <1>6

\* A commit puts the row of w into the table.
LEMMA PutSessionType ==
  ASSUME TypeInv, NEW w \in Workers, save[w].phase = "commit",
         sessions' = Put(sessions, save[w].session, save[w].row),
         domains' = domains
  PROVE  TablesInv' /\ DOMAIN sessions' = DOMAIN sessions \cup {save[w].session}
<1>1. save[w].session \in SessionIds /\ save[w].row \in SessionRow
  BY DEF TypeInv, WritesInv
<1>2. DOMAIN sessions \subseteq SessionIds /\ sessions \in [DOMAIN sessions -> SessionRow]
  BY DEF TypeInv, TablesInv
<1>3. /\ DOMAIN sessions' = DOMAIN sessions \cup {save[w].session}
      /\ sessions' \in [DOMAIN sessions \cup {save[w].session} -> SessionRow]
  BY <1>1, <1>2 DEF Put
<1>4. QED
  BY <1>1, <1>2, <1>3 DEF TypeInv, TablesInv

LEMMA ReceiveEventType ==
  ASSUME TypeInv, NEW w \in Workers, NEW e \in Events, ReceiveEvent(w, e)
  PROVE  TypeInv'
<1> DEFINE q == [visitor |-> e.visitor, domain |-> e.domain,
                 name |-> e.name, created |-> now]
<1>1. q \in Queued
  BY EventFields, ConstantTypes DEF TypeInv, BoundsInv, Queued
<1>2. batch' = [batch EXCEPT ![w] = Append(batch[w], q)] /\ save' = save
      /\ save[w].phase = "idle"
  BY DEF ReceiveEvent, Phase
<1> HIDE DEF q
<1>3. batch' \in [Workers -> Seq(Queued)]
  BY <1>1, <1>2 DEF TypeInv, SavesInv
<1>4. SavesInv'
  <2>1. \A u \in Workers : u # w => batch'[u] = batch[u]
    BY <1>2 DEF TypeInv, SavesInv
  <2>2. QED
    BY <1>2, <1>3, <2>1 DEF TypeInv, SavesInv
<1>5. TablesInv' /\ WritesInv'
  BY DEF ReceiveEvent, TypeInv, TablesInv, WritesInv, tables
<1>6. BoundsInv'
  BY ConstantTypes DEF ReceiveEvent, TypeInv, BoundsInv
<1>7. QED
  BY <1>4, <1>5, <1>6 DEF TypeInv

LEMMA StartSaveType ==
  ASSUME TypeInv, NEW w \in Workers, StartSave(w)
  PROVE  TypeInv'
<1> DEFINE r == [Idle EXCEPT !.phase = "domains",
                             !.todo = {batch[w][i].domain : i \in 1..Len(batch[w])}]
<1>1. batch[w] \in Seq(Queued) /\ batch[w] # <<>>
  BY DEF StartSave, TypeInv, SavesInv
<1>2. {batch[w][i].domain : i \in 1..Len(batch[w])} \subseteq Domains
  <2>1. \A i \in 1..Len(batch[w]) : batch[w][i] \in Queued
    BY <1>1
  <2>2. \A i \in 1..Len(batch[w]) : batch[w][i].domain \in Domains
    BY <2>1 DEF Queued
  <2>3. QED
    BY <2>2
<1>3. r \in SaveState /\ r.phase = "domains" /\ r.next = 1
  BY <1>2, IdleType DEF Idle, SaveState, Phases
<1>4. 1 \in 1..Len(batch[w])
  BY <1>1, EmptySeq
<1>5. save' = [save EXCEPT ![w] = r] /\ batch' = batch /\ sessions' = sessions
      /\ domains' = domains
  BY DEF StartSave, tables
<1> HIDE DEF r
<1>6. SavesInv' /\ WritesInv'
  BY <1>3, <1>4, <1>5, SaveTypeStep
<1>7. TablesInv' /\ BoundsInv'
  BY <1>5 DEF StartSave, TypeInv, TablesInv, BoundsInv, bounds
<1>8. QED
  BY <1>6, <1>7 DEF TypeInv

LEMMA UpsertDomainType ==
  ASSUME TypeInv, NEW w \in Workers, NEW d \in Domains, UpsertDomain(w, d)
  PROVE  TypeInv'
<1> DEFINE r == [save[w] EXCEPT !.todo = @ \ {d},
                                !.eventDomains = Put(@, d, domains'[d])]
<1>1. /\ DOMAIN domains' = DOMAIN domains \cup {d}
      /\ domains' \in [DOMAIN domains \cup {d} -> Nat]
  <2>1. Cardinality(DOMAIN domains) + 1 \in Nat
    BY FS_CardinalityType DEF TypeInv, TablesInv
  <2>2. domains \in [DOMAIN domains -> Nat] /\ DOMAIN domains \subseteq Domains
    BY DEF TypeInv, TablesInv
  <2>3. domains' = WithDomain(d)
    BY DEF UpsertDomain
  <2>4. CASE d \in DOMAIN domains
    BY <2>2, <2>3, <2>4 DEF WithDomain
  <2>5. CASE d \notin DOMAIN domains
    BY <2>1, <2>2, <2>3, <2>5 DEF WithDomain, Put
  <2>6. QED
    BY <2>4, <2>5
<1>2. IsFiniteSet(DOMAIN domains')
  BY <1>1, FS_AddElement DEF TypeInv, TablesInv
<1>3. TablesInv'
  BY <1>1, <1>2 DEF TypeInv, TablesInv, UpsertDomain
<1>4. save[w] \in SaveState /\ save[w].phase = "domains"
  BY DEF UpsertDomain, Phase, TypeInv, SavesInv
<1>5. Put(save[w].eventDomains, d, domains'[d]) \in GoMap(Domains)
  BY <1>1, <1>4, PutGoMap DEF SaveState
<1>6. r \in SaveState /\ r.phase = "domains" /\ r.next = save[w].next
  BY <1>4, <1>5 DEF SaveState
<1>7. save' = [save EXCEPT ![w] = r] /\ batch' = batch /\ sessions' = sessions
  BY DEF UpsertDomain, TypeInv, SavesInv, SaveState
<1> HIDE DEF r
<1>8. SavesInv' /\ WritesInv'
  <2>1. save[w].next \in 1..Len(batch[w])
    BY <1>4 DEF TypeInv, SavesInv
  <2>2. QED
    BY <1>6, <1>7, <2>1, SaveTypeStep
<1>9. BoundsInv'
  BY DEF UpsertDomain, TypeInv, BoundsInv, bounds
<1>10. QED
  BY <1>3, <1>8, <1>9 DEF TypeInv

\* The SET clause leaves a row a row.
LEMMA UpdatedRowType ==
  ASSUME NEW old \in SessionRow, NEW time \in Nat, NEW name
  PROVE  /\ UpdatedRow(old, time, name) \in SessionRow
         /\ UpdatedRow(old, time, name).visitor = old.visitor
         /\ UpdatedRow(old, time, name).created = old.created
         /\ UpdatedRow(old, time, name).updated = time
         /\ ~old.bounce => ~UpdatedRow(old, time, name).bounce
<1> DEFINE stays == old.bounce /\ name \in {"hidden", "ping"}
<1>1. stays \in BOOLEAN /\ (~old.bounce => ~stays)
  BY Zenon
<1>2. UpdatedRow(old, time, name) = [old EXCEPT !.bounce = stays, !.updated = time]
  BY Zenon DEF UpdatedRow
<1> HIDE DEF stays
<1>3. [old EXCEPT !.bounce = stays, !.updated = time] \in SessionRow
  BY <1>1 DEF SessionRow
<1>4. QED
  BY <1>1, <1>2, <1>3 DEF SessionRow

\* The statements of a transaction, before its commit.
LEMMA BeginTxType ==
  ASSUME TypeInv, NEW w \in Workers, BeginTx(w)
  PROVE  TypeInv'
<1> DEFINE r == [save[w] EXCEPT !.phase = "get", !.start = now]
<1>1. save[w] \in SaveState /\ save[w].phase # "idle" /\ now \in Nat
  BY ConstantTypes DEF BeginTx, Phase, TypeInv, SavesInv, BoundsInv
<1>2. r \in SaveState /\ r.phase = "get" /\ r.next = save[w].next
  BY <1>1 DEF SaveState, Phases
<1>3. save' = [save EXCEPT ![w] = r] /\ batch' = batch /\ sessions' = sessions
      /\ domains' = domains
  BY DEF BeginTx, tables, TypeInv, SavesInv, SaveState
<1>4. save[w].next \in 1..Len(batch[w])
  BY <1>1 DEF TypeInv, SavesInv
<1> HIDE DEF r
<1>5. SavesInv' /\ WritesInv'
  BY <1>2, <1>3, <1>4, SaveTypeStep
<1>6. TablesInv' /\ BoundsInv'
  BY <1>3 DEF BeginTx, TypeInv, TablesInv, BoundsInv, bounds
<1>7. QED
  BY <1>5, <1>6 DEF TypeInv

LEMMA GetSessionType ==
  ASSUME TypeInv, NEW w \in Workers, GetSession(w)
  PROVE  TypeInv'
<1>1. save[w] \in SaveState /\ save[w].phase = "get"
  BY DEF GetSession, Phase, TypeInv, SavesInv
<1>2. save[w].next \in 1..Len(batch[w])
  BY <1>1 DEF TypeInv, SavesInv
<1>3. batch' = batch /\ sessions' = sessions /\ domains' = domains
  BY DEF GetSession, tables
<1>4. SavesInv' /\ WritesInv'
  <2>1. CASE save' = [save EXCEPT ![w].phase = "create"]
    <3> DEFINE r == [save[w] EXCEPT !.phase = "create"]
    <3>1. r \in SaveState /\ r.phase = "create" /\ r.next = save[w].next
      BY <1>1 DEF SaveState, Phases
    <3>2. save' = [save EXCEPT ![w] = r]
      BY <2>1 DEF TypeInv, SavesInv
    <3> HIDE DEF r
    <3>3. QED
      BY <1>2, <1>3, <3>1, <3>2, SaveTypeStep
  <2>2. ASSUME NEW s \in DOMAIN sessions,
               save' = [save EXCEPT ![w].phase = "update", ![w].session = s]
        PROVE  SavesInv' /\ WritesInv'
    <3> DEFINE r == [save[w] EXCEPT !.phase = "update", !.session = s]
    <3>1. s \in Nat
      BY ConstantTypes DEF TypeInv, TablesInv
    <3>2. r \in SaveState /\ r.phase = "update" /\ r.next = save[w].next
          /\ r.session = s
      BY <1>1, <3>1 DEF SaveState, Phases
    <3>3. save' = [save EXCEPT ![w] = r]
      BY <2>2, <1>1 DEF TypeInv, SavesInv, SaveState
    <3> HIDE DEF r
    <3>4. QED
      BY <1>2, <1>3, <3>2, <3>3, SaveTypeStep
  <2>3. \/ save' = [save EXCEPT ![w].phase = "create"]
        \/ \E s \in DOMAIN sessions :
             save' = [save EXCEPT ![w].phase = "update", ![w].session = s]
    BY DEF GetSession
  <2>4. QED
    BY <2>1, <2>2, <2>3
<1>5. TablesInv' /\ BoundsInv'
  BY <1>3 DEF GetSession, TypeInv, TablesInv, BoundsInv, bounds
<1>6. QED
  BY <1>4, <1>5 DEF TypeInv

LEMMA CreateSessionType ==
  ASSUME TypeInv, NEW w \in Workers, CreateSession(w)
  PROVE  TypeInv'
<1>1. save[w] \in SaveState /\ save[w].phase = "create" /\ save[w].start \in Nat
  BY DEF CreateSession, Phase, TypeInv, SavesInv, SaveState
<1>2. save[w].next \in 1..Len(batch[w])
  BY <1>1 DEF TypeInv, SavesInv
<1>3. batch' = batch /\ sessions' = sessions /\ domains' = domains
  BY DEF CreateSession, tables
<1> DEFINE row == NewSession(Current(w).visitor,
                             Get(save[w].eventDomains, Current(w).domain),
                             save[w].start)
<1>4. row \in SessionRow
  <2>1. Current(w).visitor \in Visitors
    BY <1>1, CurrentType DEF Queued
  <2>2. Get(save[w].eventDomains, Current(w).domain) \in Nat
    BY <1>1, GetGoMap DEF SaveState
  <2>3. QED
    BY <1>1, <2>1, <2>2 DEF NewSession, SessionRow
<1>5. PICK s \in FreshIds :
        save' = [save EXCEPT ![w].phase = "commit", ![w].session = s, ![w].row = row]
  BY DEF CreateSession
<1> HIDE DEF row
<1> DEFINE r == [save[w] EXCEPT !.phase = "commit", !.session = s, !.row = row]
<1>6. s \in SessionIds /\ s \in Nat
  BY ConstantTypes DEF FreshIds
<1>7. /\ r \in SaveState /\ r.phase = "commit" /\ r.next = save[w].next
      /\ r.session = s /\ r.row = row
  BY <1>1, <1>4, <1>6 DEF SaveState, Phases
<1>8. save' = [save EXCEPT ![w] = r]
  BY <1>1, <1>5 DEF TypeInv, SavesInv, SaveState
<1> HIDE DEF r
<1>9. SavesInv' /\ WritesInv'
  BY <1>2, <1>3, <1>4, <1>6, <1>7, <1>8, SaveTypeStep
<1>10. TablesInv' /\ BoundsInv'
  BY <1>3 DEF CreateSession, TypeInv, TablesInv, BoundsInv, bounds
<1>11. QED
  BY <1>9, <1>10 DEF TypeInv

LEMMA UpdateSessionType ==
  ASSUME TypeInv, NEW w \in Workers, UpdateSession(w)
  PROVE  TypeInv'
<1>1. save[w] \in SaveState /\ save[w].phase = "update" /\ save[w].start \in Nat
  BY DEF UpdateSession, WriteSession, Phase, TypeInv, SavesInv, SaveState
<1>2. save[w].next \in 1..Len(batch[w])
  BY <1>1 DEF TypeInv, SavesInv
<1>3. batch' = batch /\ sessions' = sessions /\ domains' = domains
  BY DEF UpdateSession, WriteSession, tables
<1> DEFINE row == UpdatedRow(sessions[save[w].session], save[w].start,
                             Current(w).name)
<1>4. save[w].session \in DOMAIN sessions /\ sessions[save[w].session] \in SessionRow
  BY <1>1 DEF TypeInv, WritesInv, TablesInv
<1>5. row \in SessionRow
  BY <1>1, <1>4, UpdatedRowType
<1>6. save' = [save EXCEPT ![w].phase = "commit", ![w].row = row]
  BY DEF UpdateSession, WriteSession
<1> HIDE DEF row
<1> DEFINE r == [save[w] EXCEPT !.phase = "commit", !.row = row]
<1>7. /\ r \in SaveState /\ r.phase = "commit" /\ r.next = save[w].next
      /\ r.session = save[w].session /\ r.row = row
  BY <1>1, <1>5 DEF SaveState, Phases
<1>8. save' = [save EXCEPT ![w] = r]
  BY <1>1, <1>6 DEF TypeInv, SavesInv, SaveState
<1>9. save[w].session \in SessionIds
  BY <1>4 DEF TypeInv, TablesInv
<1> HIDE DEF r
<1>10. SavesInv' /\ WritesInv'
  BY <1>2, <1>3, <1>5, <1>7, <1>8, <1>9, SaveTypeStep
<1>11. TablesInv' /\ BoundsInv'
  BY <1>3 DEF UpdateSession, WriteSession, TypeInv, TablesInv, BoundsInv, bounds
<1>12. QED
  BY <1>10, <1>11 DEF TypeInv

\* What a transaction leaves behind.
LEMMA ClearedType ==
  ASSUME NEW r \in SaveState
  PROVE  [r EXCEPT !.start = 0, !.session = 0, !.row = NoRow] \in SaveState
BY DEF SaveState

LEMMA AfterCommitType ==
  ASSUME TypeInv, NEW w \in Workers, save[w].phase = "commit"
  PROVE  /\ AfterCommit(w) \in SaveState
         /\ AfterCommit(w).phase \in {"begin", "copy"}
         /\ AfterCommit(w).next \in 1..Len(batch[w])
<1>1. save[w] \in SaveState /\ save[w].session \in Nat
      /\ save[w].next \in 1..Len(batch[w]) /\ Len(batch[w]) \in Nat
  BY DEF TypeInv, SavesInv, SaveState
<1> DEFINE m == Put(save[w].eventSessions, Current(w).visitor, save[w].session)
           more == save[w].next < Len(batch[w])
           p == IF more THEN "begin" ELSE "copy"
           n == IF more THEN save[w].next + 1 ELSE save[w].next
<1>2. m \in GoMap(Visitors)
  <2>1. Current(w).visitor \in Visitors
    BY CurrentType DEF Queued
  <2>2. QED
    BY <1>1, <2>1, PutGoMap DEF SaveState
<1>3. p \in {"begin", "copy"} /\ n \in 1..Len(batch[w])
  BY <1>1
<1>4. AfterCommit(w) = [save[w] EXCEPT !.eventSessions = m, !.phase = p, !.next = n,
                                       !.start = 0, !.session = 0, !.row = NoRow]
  BY DEF AfterCommit
<1>5. n \in Nat /\ p \in Phases
  BY <1>3 DEF Phases
<1> HIDE DEF m, p, n
<1>6. AfterCommit(w) \in SaveState
  <2> DEFINE r == [save[w] EXCEPT !.eventSessions = m, !.phase = p, !.next = n]
  <2>1. r \in SaveState
    BY <1>1, <1>2, <1>5 DEF SaveState
  <2>2. AfterCommit(w) = [r EXCEPT !.start = 0, !.session = 0, !.row = NoRow]
    BY <1>1, <1>4 DEF SaveState
  <2> HIDE DEF r
  <2>3. QED
    BY <2>1, <2>2, ClearedType
<1>7. AfterCommit(w).phase = p /\ AfterCommit(w).next = n
  BY <1>1, <1>4 DEF SaveState
<1>8. QED
  BY <1>3, <1>6, <1>7

LEMMA CommitType ==
  ASSUME TypeInv, NEW w \in Workers, Commit(w)
  PROVE  TypeInv'
<1>1. save[w].phase = "commit"
  BY DEF Commit, Phase
<1>2. /\ save' = [save EXCEPT ![w] = AfterCommit(w)]
      /\ batch' = batch
      /\ domains' = domains
      /\ sessions' = Put(sessions, save[w].session, save[w].row)
  BY DEF Commit
<1>3. TablesInv' /\ DOMAIN sessions' = DOMAIN sessions \cup {save[w].session}
  BY <1>1, <1>2, PutSessionType
<1>4. SavesInv' /\ WritesInv'
  BY <1>1, <1>2, <1>3, AfterCommitType, SaveTypeStep
<1>5. BoundsInv'
  BY DEF Commit, TypeInv, BoundsInv, bounds
<1>6. QED
  BY <1>3, <1>4, <1>5 DEF TypeInv

LEMMA CreateEventsType ==
  ASSUME TypeInv, NEW w \in Workers, CreateEvents(w)
  PROVE  TypeInv'
<1>1. /\ save' = [save EXCEPT ![w] = Idle]
      /\ batch' = [batch EXCEPT ![w] = <<>>]
      /\ sessions' = sessions
      /\ domains' = domains
  BY DEF CreateEvents
<1>2. SavesInv' /\ WritesInv'
  BY <1>1, IdleTypeStep
<1>3. TablesInv' /\ BoundsInv'
  BY <1>1 DEF CreateEvents, TypeInv, TablesInv, BoundsInv, bounds
<1>4. QED
  BY <1>2, <1>3 DEF TypeInv

LEMMA FaultType ==
  ASSUME TypeInv, NEW w \in Workers, Fault(w)
  PROVE  TypeInv'
<1>1. save' = [save EXCEPT ![w] = Idle] /\ domains' = domains /\ now' = now
      /\ received' = received /\ faults < MaxFaults /\ faults' = faults + 1
  BY Zenon DEF Fault, StatementFails, CommitUnacknowledged, CopyUnacknowledged, Crash,
     ReturnError, tables
<1>2. batch' = batch \/ batch' = [batch EXCEPT ![w] = <<>>]
  BY DEF Fault, StatementFails, CommitUnacknowledged, CopyUnacknowledged, Crash,
     ReturnError
<1>3. TablesInv' /\ DOMAIN sessions \subseteq DOMAIN sessions'
  <2>1. CASE sessions' = sessions
    BY <1>1, <2>1 DEF TypeInv, TablesInv
  <2>2. CASE CommitUnacknowledged(w)
    <3>1. save[w].phase = "commit"
          /\ sessions' = Put(sessions, save[w].session, save[w].row)
      BY <2>2 DEF CommitUnacknowledged, Phase
    <3>2. QED
      BY <1>1, <3>1, PutSessionType
  <2>3. QED
    BY <2>1, <2>2 DEF Fault, StatementFails, CopyUnacknowledged, Crash, tables
<1>4. SavesInv' /\ WritesInv'
  BY <1>1, <1>2, <1>3, IdleTypeStep
<1>5. BoundsInv'
  BY <1>1, ConstantTypes DEF TypeInv, BoundsInv
<1>6. QED
  BY <1>3, <1>4, <1>5 DEF TypeInv

LEMMA TypeStep == TypeInv /\ [Next]_vars => TypeInv'
<1> SUFFICES ASSUME TypeInv, [Next]_vars PROVE TypeInv'
  OBVIOUS
<1>1. ASSUME NEW w \in Workers, NEW e \in Events, ReceiveEvent(w, e) PROVE TypeInv'
  BY <1>1, ReceiveEventType
<1>2. ASSUME NEW w \in Workers, SaveStep(w) PROVE TypeInv'
  BY <1>2, StartSaveType, UpsertDomainType, BeginTxType, GetSessionType,
     CreateSessionType, UpdateSessionType, CommitType, CreateEventsType
     DEF SaveStep
<1>3. ASSUME NEW w \in Workers, Fault(w) PROVE TypeInv'
  BY <1>3, FaultType
<1>4. CASE Tick
  <2>1. TablesInv' /\ SavesInv' /\ WritesInv'
    BY <1>4 DEF Tick, TypeInv, TablesInv, SavesInv, WritesInv, tables
  <2>2. BoundsInv'
    BY <1>4, ConstantTypes DEF Tick, TypeInv, BoundsInv, bounds
  <2>3. QED
    BY <2>1, <2>2 DEF TypeInv
<1>5. CASE UNCHANGED vars
  BY <1>5 DEF vars, TypeInv, TablesInv, SavesInv, WritesInv, BoundsInv
<1>6. QED
  BY <1>1, <1>2, <1>3, <1>4, <1>5 DEF Next

\* TypeOK holds in every reachable state.
THEOREM SessionTypeOK == Spec => []TypeOK
<1>1. TypeInv => TypeOK
  <2> SUFFICES ASSUME TypeInv PROVE TypeOK
    OBVIOUS
  <2>1. \A s \in DOMAIN sessions : sessions[s] \in SessionRow
    BY DEF TypeInv, TablesInv
  <2>2. \A w \in Workers : save[w] \in SaveState
    BY DEF TypeInv, SavesInv
  <2>3. \A w \in Workers :
         /\ save[w].phase \in Phases
         /\ save[w].todo \subseteq Domains
         /\ save[w].row \in SessionRow \cup {NoRow}
    BY <2>2 DEF SaveState
  <2>4. QED
    BY <2>1, <2>3 DEF TypeInv, TypeOK, TablesInv, SavesInv, BoundsInv
<1>2. QED
  BY <1>1, TypeInit, TypeStep, PTL DEF Spec
-----------------------------------------------------------------------------
(***************************************************************************)
(* What the actions do to the table of sessions and to the rows that are   *)
(* about to be written.                                                    *)
(***************************************************************************)
\* Worker w moves on, the others stay where they are.
OnlyMoves(w) == \A u \in Workers \ {w} : save'[u] = save[u]

\* A step of w that writes no row, or gives up the one it has.
LEMMA RowlessSteps ==
  ASSUME TypeInv, NEW w \in Workers,
         \/ StartSave(w)
         \/ \E d \in Domains : UpsertDomain(w, d)
         \/ StatementFails(w)
         \/ CreateEvents(w)
         \/ CopyUnacknowledged(w)
         \/ Crash(w)
  PROVE  /\ OnlyMoves(w)
         /\ save'[w].phase \in {"idle", "domains"}
         /\ sessions' = sessions
         /\ now' = now
         /\ \A u \in Workers \ {w} : batch'[u] = batch[u]
<1>1. save \in [Workers -> SaveState] /\ batch \in [Workers -> Seq(Queued)]
  BY DEF TypeInv, SavesInv
<1>2. CASE StartSave(w)
  BY <1>1, <1>2 DEF StartSave, Idle, OnlyMoves, tables
<1>3. CASE \E d \in Domains : UpsertDomain(w, d)
  BY <1>1, <1>3 DEF UpsertDomain, Phase, OnlyMoves, SaveState
<1>4. CASE StatementFails(w) \/ CopyUnacknowledged(w)
  BY <1>1, <1>4 DEF StatementFails, CopyUnacknowledged, ReturnError, Idle, OnlyMoves
<1>5. CASE CreateEvents(w) \/ Crash(w)
  BY <1>1, <1>5 DEF CreateEvents, Crash, Idle, OnlyMoves, tables
<1>6. QED
  BY <1>2, <1>3, <1>4, <1>5

LEMMA BeginTxDoes ==
  ASSUME TypeInv, NEW w \in Workers, BeginTx(w)
  PROVE  /\ OnlyMoves(w)
         /\ save'[w].phase = "get"
         /\ save'[w].start = now
         /\ sessions' = sessions /\ now' = now /\ batch' = batch
<1>1. save \in [Workers -> SaveState]
  BY DEF TypeInv, SavesInv
<1>2. QED
  BY <1>1 DEF BeginTx, OnlyMoves, SaveState, tables

LEMMA GetSessionDoes ==
  ASSUME TypeInv, NEW w \in Workers, GetSession(w)
  PROVE  /\ OnlyMoves(w)
         /\ save[w].phase = "get"
         /\ save'[w].start = save[w].start
         /\ save'[w].next = save[w].next
         /\ sessions' = sessions /\ now' = now /\ batch' = batch
         /\ \/ /\ save'[w].phase = "create"
               /\ \A s \in DOMAIN sessions :
                    ~Live(s, Current(w).visitor, save[w].start)
            \/ /\ save'[w].phase = "update"
               /\ save'[w].session \in DOMAIN sessions
               /\ Live(save'[w].session, Current(w).visitor, save[w].start)
<1>1. save \in [Workers -> SaveState]
  BY DEF TypeInv, SavesInv
<1> DEFINE live == {s \in DOMAIN sessions :
                      Live(s, Current(w).visitor, save[w].start)}
<1>2. \/ live = {} /\ save' = [save EXCEPT ![w].phase = "create"]
      \/ \E s \in live :
           save' = [save EXCEPT ![w].phase = "update", ![w].session = s]
  BY DEF GetSession
<1>3. \A s : s \in live <=> s \in DOMAIN sessions
                           /\ Live(s, Current(w).visitor, save[w].start)
  OBVIOUS
<1>4. save[w].phase = "get" /\ sessions' = sessions /\ now' = now /\ batch' = batch
  BY DEF GetSession, Phase, tables
<1> HIDE DEF live
<1>5. CASE live = {} /\ save' = [save EXCEPT ![w].phase = "create"]
  BY <1>1, <1>3, <1>4, <1>5 DEF OnlyMoves, SaveState
<1>6. ASSUME NEW s \in live,
             save' = [save EXCEPT ![w].phase = "update", ![w].session = s]
      PROVE  /\ OnlyMoves(w)
             /\ save'[w].phase = "update" /\ save'[w].session = s
             /\ save'[w].start = save[w].start /\ save'[w].next = save[w].next
  BY <1>1, <1>6 DEF OnlyMoves, SaveState
<1>7. QED
  BY <1>2, <1>3, <1>4, <1>5, <1>6

LEMMA CreateSessionDoes ==
  ASSUME TypeInv, NEW w \in Workers, CreateSession(w)
  PROVE  /\ OnlyMoves(w)
         /\ save[w].phase = "create" /\ save'[w].phase = "commit"
         /\ save'[w].start = save[w].start
         /\ save'[w].session \notin DOMAIN sessions
         /\ save'[w].row.visitor = Current(w).visitor
         /\ save'[w].row.created = save[w].start
         /\ save'[w].row.updated = save[w].start
         /\ sessions' = sessions /\ now' = now /\ batch' = batch
<1>1. save \in [Workers -> SaveState]
  BY DEF TypeInv, SavesInv
<1> DEFINE row == NewSession(Current(w).visitor,
                             Get(save[w].eventDomains, Current(w).domain),
                             save[w].start)
<1>2. PICK s \in FreshIds :
        save' = [save EXCEPT ![w].phase = "commit", ![w].session = s, ![w].row = row]
  BY DEF CreateSession
<1>3. /\ row.visitor = Current(w).visitor /\ row.created = save[w].start
      /\ row.updated = save[w].start
  BY DEF NewSession
<1> HIDE DEF row
<1>4. /\ save'[w].phase = "commit" /\ save'[w].session = s /\ save'[w].row = row
      /\ save'[w].start = save[w].start /\ OnlyMoves(w)
  BY <1>1, <1>2 DEF SaveState, OnlyMoves
<1>5. QED
  BY <1>3, <1>4 DEF FreshIds, CreateSession, Phase, tables

LEMMA UpdateSessionDoes ==
  ASSUME TypeInv, NEW w \in Workers, UpdateSession(w)
  PROVE  /\ OnlyMoves(w)
         /\ save[w].phase = "update" /\ save'[w].phase = "commit"
         /\ save'[w].start = save[w].start
         /\ save'[w].session = save[w].session
         /\ save[w].session \in DOMAIN sessions
         /\ save'[w].row.visitor = sessions[save[w].session].visitor
         /\ save'[w].row.created = sessions[save[w].session].created
         /\ save'[w].row.updated = save[w].start
         /\ ~sessions[save[w].session].bounce => ~save'[w].row.bounce
         /\ sessions' = sessions /\ now' = now /\ batch' = batch
<1>1. save \in [Workers -> SaveState] /\ save[w].start \in Nat
      /\ save[w].phase = "update"
  BY DEF TypeInv, SavesInv, SaveState, UpdateSession, WriteSession, Phase
<1> DEFINE old == sessions[save[w].session]
           row == UpdatedRow(old, save[w].start, Current(w).name)
<1>2. save[w].session \in DOMAIN sessions /\ old \in SessionRow
  BY <1>1 DEF TypeInv, TablesInv, WritesInv
<1>3. /\ row.visitor = old.visitor /\ row.created = old.created
      /\ row.updated = save[w].start /\ (~old.bounce => ~row.bounce)
  BY <1>1, <1>2, UpdatedRowType
<1>4. save' = [save EXCEPT ![w].phase = "commit", ![w].row = row]
  BY DEF UpdateSession, WriteSession
<1> HIDE DEF old, row
<1>5. /\ save'[w].phase = "commit" /\ save'[w].session = save[w].session
      /\ save'[w].row = row /\ save'[w].start = save[w].start /\ OnlyMoves(w)
  BY <1>1, <1>4 DEF SaveState, OnlyMoves
<1>6. QED
  BY <1>1, <1>2, <1>3, <1>5 DEF UpdateSession, WriteSession, tables, old

LEMMA CommitDoes ==
  ASSUME TypeInv, NEW w \in Workers, Commit(w) \/ CommitUnacknowledged(w)
  PROVE  /\ OnlyMoves(w)
         /\ save[w].phase = "commit"
         /\ save'[w].phase \in {"idle", "begin", "copy"}
         /\ save[w].row \in SessionRow
         /\ save[w].session \in DOMAIN sessions'
         /\ DOMAIN sessions' = DOMAIN sessions \cup {save[w].session}
         /\ \A s \in DOMAIN sessions' : s = save[w].session \/ s \in DOMAIN sessions
         /\ \A s \in DOMAIN sessions' :
              sessions'[s] = IF s = save[w].session THEN save[w].row ELSE sessions[s]
         /\ now' = now /\ batch' = batch
<1>1. save \in [Workers -> SaveState] /\ save[w].phase = "commit"
  BY DEF TypeInv, SavesInv, Commit, CommitUnacknowledged, Phase
<1>2. save[w].row \in SessionRow
  BY <1>1 DEF TypeInv, WritesInv
<1>3. sessions' = Put(sessions, save[w].session, save[w].row)
      /\ now' = now /\ batch' = batch
  BY DEF Commit, CommitUnacknowledged, ReturnError
<1>4. save' = [save EXCEPT ![w] = AfterCommit(w)] \/ save' = [save EXCEPT ![w] = Idle]
  BY DEF Commit, CommitUnacknowledged, ReturnError
<1>5. OnlyMoves(w) /\ save'[w].phase \in {"idle", "begin", "copy"}
  BY <1>1, <1>4, AfterCommitType DEF OnlyMoves, Idle
<1>6. DOMAIN sessions' = DOMAIN sessions \cup {save[w].session}
  BY <1>3 DEF Put
<1>7. /\ save[w].session \in DOMAIN sessions'
      /\ \A s \in DOMAIN sessions' : s = save[w].session \/ s \in DOMAIN sessions
  BY <1>6
<1>8. \A s \in DOMAIN sessions' :
        sessions'[s] = IF s = save[w].session THEN save[w].row ELSE sessions[s]
  BY <1>3, <1>6 DEF Put
<1>9. QED
  BY <1>1, <1>2, <1>3, <1>5, <1>6, <1>7, <1>8

\* Everything else leaves the table and saveEvents alone.
LEMMA StillSteps ==
  ASSUME TypeInv,
         \/ \E w \in Workers, e \in Events : ReceiveEvent(w, e)
         \/ Tick
         \/ UNCHANGED vars
  PROVE  /\ save' = save
         /\ sessions' = sessions
         /\ now' \in {now, now + 1}
         /\ \A w \in Workers : save[w].phase # "idle" => batch'[w] = batch[w]
<1>1. batch \in [Workers -> Seq(Queued)]
  BY DEF TypeInv, SavesInv
<1>2. QED
  BY <1>1 DEF ReceiveEvent, Tick, vars, tables, Phase
-----------------------------------------------------------------------------
(***************************************************************************)
(* The visits, with one worker.                                            *)
(***************************************************************************)
OneWorker == \A u, w \in Workers : u = w

\* The rows of the table: no two sessions of a visitor overlap.
RowsInv ==
  /\ \A s \in DOMAIN sessions :
       sessions[s].created <= sessions[s].updated /\ sessions[s].updated <= now
  /\ OneVisitAtATime

\* w is about to add a session to those of a visitor with no live one.
Opens(w) ==
  /\ save[w].session \notin DOMAIN sessions
  /\ save[w].row.created = save[w].start
  /\ \A s \in DOMAIN sessions : ~Live(s, save[w].row.visitor, save[w].start)

\* w is about to extend a live session.
Extends(w) ==
  /\ save[w].session \in DOMAIN sessions
  /\ save[w].row.created = sessions[save[w].session].created
  /\ Live(save[w].session, save[w].row.visitor, save[w].start)

\* What worker w has found is still so: its transaction is the last one.
FoundInv(w) ==
  /\ save[w].phase \in {"get", "create", "update", "commit"} =>
       /\ save[w].start <= now
       /\ \A s \in DOMAIN sessions : sessions[s].updated <= save[w].start
  /\ save[w].phase = "create" =>
       \A s \in DOMAIN sessions : ~Live(s, Current(w).visitor, save[w].start)
  /\ save[w].phase = "update" =>
       Live(save[w].session, Current(w).visitor, save[w].start)
  /\ save[w].phase = "commit" =>
       /\ save[w].row.updated = save[w].start
       /\ Opens(w) \/ Extends(w)

VisitInv == RowsInv /\ \A w \in Workers : FoundInv(w)

\* A step that leaves the table and the clock alone.
LEMMA SameRows ==
  ASSUME RowsInv, sessions' = sessions, now' = now
  PROVE  RowsInv'
BY DEF RowsInv, OneVisitAtATime

\* A commit keeps the sessions of a visitor apart.
LEMMA CommitRows ==
  ASSUME TypeInv, RowsInv, NEW w \in Workers, FoundInv(w),
         Commit(w) \/ CommitUnacknowledged(w)
  PROVE  RowsInv'
<1> DEFINE id == save[w].session
           row == save[w].row
           time == save[w].start
<1>1. /\ save[w].phase = "commit" /\ row \in SessionRow /\ time \in Nat
      /\ \A s \in DOMAIN sessions' : s = id \/ s \in DOMAIN sessions
      /\ \A s \in DOMAIN sessions' : sessions'[s] = IF s = id THEN row ELSE sessions[s]
      /\ now' = now /\ now \in Nat /\ Timeout \in Nat
  <2>1. time \in Nat /\ now \in Nat /\ Timeout \in Nat
    BY ConstantTypes DEF TypeInv, SavesInv, SaveState, BoundsInv
  <2>2. QED
    BY <2>1, CommitDoes, Zenon
<1>2. /\ row.updated = time /\ time <= now
      /\ \A s \in DOMAIN sessions : sessions[s].updated <= time
      /\ Opens(w) \/ Extends(w)
  BY <1>1 DEF FoundInv
<1>3. \A s \in DOMAIN sessions :
        /\ sessions[s].created \in Nat /\ sessions[s].updated \in Nat
        /\ sessions[s].created <= sessions[s].updated
  BY DEF TypeInv, TablesInv, SessionRow, RowsInv
<1>4. row.created <= time /\ row.created \in Nat
  <2>1. CASE Opens(w)
    BY <1>1, <2>1 DEF Opens
  <2>2. CASE Extends(w)
    <3>1. row.created = sessions[id].created /\ id \in DOMAIN sessions
      BY <2>2 DEF Extends
    <3>2. QED
      BY <1>1, <1>2, <1>3, <3>1
  <2>3. QED
    BY <1>2, <2>1, <2>2
\* The row that is written is apart from the other sessions of its visitor.
<1>5. ASSUME NEW s \in DOMAIN sessions, s # id, sessions[s].visitor = row.visitor
      PROVE  \/ sessions[s].updated + Timeout <= row.created
             \/ row.updated + Timeout <= sessions[s].created
  <2>1. CASE Opens(w)
    BY <1>1, <1>3, <1>5, <2>1 DEF Opens, Live
  <2>2. CASE Extends(w)
    <3>1. /\ row.created = sessions[id].created /\ id \in DOMAIN sessions
          /\ sessions[id].visitor = row.visitor
          /\ sessions[id].updated > time - Timeout
      BY <2>2 DEF Extends, Live
    <3>2. \/ sessions[s].updated + Timeout <= sessions[id].created
          \/ sessions[id].updated + Timeout <= sessions[s].created
      BY <1>5, <3>1 DEF RowsInv, OneVisitAtATime
    <3>3. QED
      BY <1>1, <1>2, <1>3, <3>1, <3>2
  <2>3. QED
    BY <1>2, <2>1, <2>2
<1> HIDE DEF id, row, time
<1>6. \A s \in DOMAIN sessions' :
        sessions'[s].created <= sessions'[s].updated /\ sessions'[s].updated <= now'
  BY <1>1, <1>2, <1>4 DEF RowsInv
<1>7. OneVisitAtATime'
  <2> SUFFICES ASSUME NEW s \in DOMAIN sessions', NEW t \in DOMAIN sessions', s # t,
                      sessions'[s].visitor = sessions'[t].visitor
               PROVE  \/ sessions'[s].updated + Timeout <= sessions'[t].created
                      \/ sessions'[t].updated + Timeout <= sessions'[s].created
    BY DEF OneVisitAtATime
  <2>1. CASE s = id
    BY <1>1, <1>5, <2>1
  <2>2. CASE t = id
    BY <1>1, <1>5, <2>2
  <2>3. CASE s # id /\ t # id
    BY <1>1, <2>3 DEF RowsInv, OneVisitAtATime
  <2>4. QED
    BY <2>1, <2>2, <2>3
<1>8. QED
  BY <1>6, <1>7 DEF RowsInv

\* The step lemmas below have one worker: whoever moves, no other transaction
\* is open.
LEMMA VisitStep ==
  ASSUME OneWorker, TypeInv, VisitInv, [Next]_vars
  PROVE  VisitInv'
<1> USE DEF OneWorker
<1>1. ASSUME NEW w \in Workers, SaveStep(w) \/ Fault(w)
      PROVE  VisitInv'
  <2>1. FoundInv(w) /\ RowsInv /\ \A u \in Workers : u = w
    BY DEF VisitInv
  <2>2. ASSUME FoundInv(w)', RowsInv' PROVE VisitInv'
    BY <2>1, <2>2 DEF VisitInv
  <2>3. ASSUME save'[w].phase \in {"idle", "domains", "begin", "copy"} PROVE FoundInv(w)'
    BY <2>3 DEF FoundInv
  <2>4. CASE BeginTx(w)
    <3>1. FoundInv(w)'
      BY <2>1, <2>4, BeginTxDoes DEF FoundInv, RowsInv, TypeInv, BoundsInv
    <3>2. QED
      BY <2>1, <2>2, <2>4, <3>1, BeginTxDoes, SameRows
  <2>5. CASE GetSession(w)
    <3>1. Current(w)' = Current(w)
      BY <2>5, GetSessionDoes DEF Current
    <3>2. FoundInv(w)'
      BY <2>1, <2>5, <3>1, GetSessionDoes DEF FoundInv, Live
    <3>3. QED
      BY <2>1, <2>2, <2>5, <3>2, GetSessionDoes, SameRows
  <2>6. CASE CreateSession(w)
    <3>1. Opens(w)'
      BY <2>1, <2>6, CreateSessionDoes DEF FoundInv, Opens, Live
    <3>2. FoundInv(w)'
      BY <2>1, <2>6, <3>1, CreateSessionDoes DEF FoundInv
    <3>3. QED
      BY <2>1, <2>2, <2>6, <3>2, CreateSessionDoes, SameRows
  <2>7. CASE UpdateSession(w)
    <3>1. Extends(w)'
      BY <2>1, <2>7, UpdateSessionDoes DEF FoundInv, Extends, Live
    <3>2. FoundInv(w)'
      BY <2>1, <2>7, <3>1, UpdateSessionDoes DEF FoundInv
    <3>3. QED
      BY <2>1, <2>2, <2>7, <3>2, UpdateSessionDoes, SameRows
  <2>8. CASE Commit(w) \/ CommitUnacknowledged(w)
    BY <2>1, <2>2, <2>3, <2>8, CommitDoes, CommitRows
  <2>9. CASE \/ StartSave(w)
             \/ \E d \in Domains : UpsertDomain(w, d)
             \/ StatementFails(w)
             \/ CreateEvents(w)
             \/ CopyUnacknowledged(w)
             \/ Crash(w)
    BY <2>1, <2>2, <2>3, <2>9, RowlessSteps, SameRows
  <2>10. QED
    BY <1>1, <2>4, <2>5, <2>6, <2>7, <2>8, <2>9 DEF SaveStep, Fault
<1>2. CASE \/ \E w \in Workers, e \in Events : ReceiveEvent(w, e)
           \/ Tick
           \/ UNCHANGED vars
  <2>1. /\ save' = save /\ sessions' = sessions /\ now' \in {now, now + 1}
        /\ \A w \in Workers : save[w].phase # "idle" => batch'[w] = batch[w]
    BY <1>2, StillSteps
  <2>2. now \in Nat /\ \A w \in Workers : save[w].start \in Nat
    BY ConstantTypes DEF TypeInv, BoundsInv, SavesInv, SaveState
  <2>3. \A s \in DOMAIN sessions : sessions[s].updated \in Nat
    BY DEF TypeInv, TablesInv, SessionRow
  <2>4. RowsInv'
    BY <2>1, <2>2, <2>3 DEF VisitInv, RowsInv, OneVisitAtATime
  <2>5. ASSUME NEW w \in Workers PROVE FoundInv(w)'
    <3>1. FoundInv(w)
      BY DEF VisitInv
    <3>2. save[w].phase # "idle" => Current(w)' = Current(w)
      BY <2>1 DEF Current
    <3>3. QED
      BY <2>1, <2>2, <3>1, <3>2 DEF FoundInv, Opens, Extends, Live
  <2>6. QED
    BY <2>4, <2>5 DEF VisitInv
<1>3. QED
  BY <1>1, <1>2 DEF Next

LEMMA VisitInit == Init => VisitInv
BY DEF Init, VisitInv, RowsInv, OneVisitAtATime, FoundInv, Idle

\* OneVisitAtATime: with one worker, the sessions of a visitor are a timeout
\* apart, whatever fails and however often a batch is saved again.
THEOREM SessionOneVisitAtATime ==
  ASSUME OneWorker
  PROVE  Spec => []OneVisitAtATime
<1>1. VisitInv => OneVisitAtATime
  BY DEF VisitInv, RowsInv
<1>2. TypeInv /\ VisitInv /\ [Next]_vars => VisitInv'
  BY VisitStep
<1>3. QED
  BY <1>1, <1>2, VisitInit, TypeInit, TypeStep, PTL DEF Spec

-----------------------------------------------------------------------------
(***************************************************************************)
(* The sessions table implements the log of visits.                        *)
(***************************************************************************)
VisitOf(row) ==
  [visitor |-> row.visitor, first |-> row.created, last |-> row.updated]

VisitLog == [s \in DOMAIN sessions |-> VisitOf(sessions[s])]

\* Properties of the mapping: what the log has of a session.
LEMMA VisitLogFields ==
  /\ DOMAIN VisitLog = DOMAIN sessions
  /\ \A s \in DOMAIN sessions :
       /\ VisitLog[s].visitor = sessions[s].visitor
       /\ VisitLog[s].first = sessions[s].created
       /\ VisitLog[s].last = sessions[s].updated
BY DEF VisitLog, VisitOf

\* A commit opens or extends a visit.
LEMMA CommitIsVisit ==
  ASSUME TypeInv, VisitInv, NEW w \in Workers, Commit(w) \/ CommitUnacknowledged(w)
  PROVE  Visit!Next
<1> DEFINE id == save[w].session
           row == save[w].row
           time == save[w].start
<1>1. /\ save[w].phase = "commit" /\ row \in SessionRow /\ now' = now
      /\ DOMAIN sessions' = DOMAIN sessions \cup {id}
      /\ \A s \in DOMAIN sessions' : sessions'[s] = IF s = id THEN row ELSE sessions[s]
  BY CommitDoes, Zenon
<1>2. /\ row.updated = time /\ time \in 0..now
      /\ \A s \in DOMAIN sessions : sessions[s].updated <= time
      /\ Opens(w) \/ Extends(w)
  BY <1>1, ConstantTypes
     DEF VisitInv, FoundInv, TypeInv, SavesInv, SaveState, BoundsInv
<1>3. /\ row.visitor \in Visitors /\ Timeout \in Nat /\ id \in SessionIds
      /\ \A s \in DOMAIN sessions : sessions[s].updated \in Nat
  BY <1>1, ConstantTypes DEF SessionRow, TypeInv, WritesInv, TablesInv
<1>4. PICK v \in Visitors, t \in 0..now : v = row.visitor /\ t = time
  BY <1>2, <1>3
<1>5. VisitLog' = [s \in DOMAIN sessions \cup {id} |->
                    IF s = id THEN VisitOf(row) ELSE VisitLog[s]]
  <2>1. VisitLog' = [s \in DOMAIN sessions' |-> VisitOf(sessions'[s])]
    BY DEF VisitLog
  <2>2. \A s \in DOMAIN sessions' :
          VisitOf(sessions'[s]) = IF s = id THEN VisitOf(row) ELSE VisitLog[s]
    BY <1>1 DEF VisitLog
  <2>3. QED
    BY <1>1, <2>1, <2>2
<1> HIDE DEF id, row, time
<1>6. CASE Opens(w)
  <2>1. id \notin DOMAIN sessions /\ row.created = time
        /\ \A s \in DOMAIN sessions : ~Live(s, row.visitor, time)
    BY <1>6 DEF Opens, id, row, time
  <2>2. \A s \in Visit!Of(v) : ~Visit!Open(s, t)
    BY <1>2, <1>3, <1>4, <2>1, VisitLogFields DEF Visit!Of, Visit!Open, Live, VisitLog, VisitOf
  <2>3. VisitOf(row) = [visitor |-> row.visitor, first |-> time, last |-> time]
    BY <1>2, <2>1 DEF VisitOf
  <2>4. Visit!OpenVisit(v, t)
    BY <1>1, <1>3, <1>4, <1>5, <2>1, <2>2, <2>3 DEF Visit!OpenVisit, VisitLog, VisitOf
  <2>5. QED
    BY <2>4 DEF Visit!Next
<1>7. CASE Extends(w)
  <2>1. id \in DOMAIN sessions /\ row.created = sessions[id].created
        /\ Live(id, row.visitor, time)
    BY <1>7 DEF Extends, id, row, time
  <2>2. \A s \in Visit!Of(v) : VisitLog[s].last <= t
    BY <1>2, <1>4, VisitLogFields DEF Visit!Of, VisitLog, VisitOf
  <2>3. id \in Visit!Of(v) /\ Visit!Open(id, t)
    BY <1>2, <1>3, <1>4, <2>1, VisitLogFields DEF Visit!Of, Visit!Open, Live, VisitLog, VisitOf
  <2>4. VisitOf(row) = [VisitLog[id] EXCEPT !.last = time]
    BY <1>2, <2>1 DEF VisitOf, VisitLog, Live
  <2>5. VisitLog' = [VisitLog EXCEPT ![id].last = time]
    BY <1>5, <2>1, <2>4 DEF VisitLog
  <2>6. Visit!ExtendVisit(v, t)
    BY <1>1, <1>4, <2>2, <2>3, <2>5 DEF Visit!ExtendVisit, VisitLog, VisitOf
  <2>7. QED
    BY <2>6 DEF Visit!Next
<1>8. QED
  BY <1>2, <1>6, <1>7

LEMMA VisitsStep ==
  ASSUME OneWorker, TypeInv, VisitInv, [Next]_vars
  PROVE  [Visit!Next]_(Visit!vars)
<1>1. CASE sessions' = sessions /\ now' = now
  BY <1>1 DEF Visit!vars
<1>2. CASE Tick
  BY <1>2 DEF Tick, tables, Visit!Next, Visit!Tick
<1>3. CASE \E w \in Workers : Commit(w) \/ CommitUnacknowledged(w)
  BY <1>3, CommitIsVisit
<1>4. ASSUME NEW w \in Workers, SaveStep(w) \/ Fault(w),
             ~(Commit(w) \/ CommitUnacknowledged(w))
      PROVE  sessions' = sessions /\ now' = now
  BY <1>4, BeginTxDoes, GetSessionDoes, CreateSessionDoes, UpdateSessionDoes, RowlessSteps
     DEF SaveStep, Fault
<1>5. CASE (\E w \in Workers, e \in Events : ReceiveEvent(w, e)) \/ UNCHANGED vars
  BY <1>1, <1>5 DEF ReceiveEvent, vars, tables
<1>6. QED
  BY <1>1, <1>2, <1>3, <1>4, <1>5 DEF Next

LEMMA VisitsInit == Init => Visit!Init
BY DEF Init, Visit!Init

\* RefinesVisits: with one worker, the sessions table is the log of visits.
THEOREM SessionRefinesVisits ==
  ASSUME OneWorker
  PROVE  Spec => RefinesVisits
<1>1. TypeInv /\ VisitInv /\ [Next]_vars => VisitInv' /\ [Visit!Next]_(Visit!vars)
  BY VisitStep, VisitsStep
<1>2. QED
  BY <1>1, VisitInit, TypeInit, TypeStep, VisitsInit, PTL
     DEF Spec, RefinesVisits, Visit!Spec
=============================================================================
